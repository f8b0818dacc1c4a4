---------------------------- MODULE CheckResults ----------------------------
(***************************************************************************)
(* What one check of a target leaves behind and what it counts for         *)
(* (service/modeldetect/catalog.go).  An upstream answer is reduced to the *)
(* kind of its status: "ok" (2xx), "refused" (4xx), "limited" (408, 429),  *)
(* "fault" (5xx or no answer at all).                                      *)
(***************************************************************************)
EXTENDS Integers, FiniteSets

Kinds == {"ok", "refused", "limited", "fault"}

Transient(replies) == replies \cap {"limited", "fault"} # {}

Succeeded(replies) == "ok" \in replies

\* Any failure taken for a rejection.
RejectedOrLost(kind) == kind # "ok"

\* Status 4xx, whatever it says.
Rejected(kind) == kind \in {"refused", "limited"}

\* A clue: a key, the class of upstream it points to and what it is worth.
Clue(key, class, weight) == [key |-> key, class |-> class, weight |-> weight]

If(condition, clues) == IF condition THEN clues ELSE {}

\* A failure of the network taken for a failure of the model.
FinishedOrFailed(asserted, replies) == IF asserted THEN "passed" ELSE "failed"

\* Asserted: every assertion that is not a mere diagnosis holds.
Finished(asserted, replies) ==
    IF asserted THEN "passed" ELSE IF Transient(replies) THEN "inconclusive" ELSE "failed"

Result(status, clues, auth, capped, replies) ==
    [status |-> status, clues |-> clues, auth |-> auth, capped |-> capped, replies |-> replies]

\* A result that proves nothing either way.
Bare(status, replies) == Result(status, {}, 0, FALSE, replies)

Statuses == {"passed", "failed", "inconclusive", "suspicious", "unsupported"}
=============================================================================

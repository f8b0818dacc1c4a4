---------------------------- MODULE DetectVerdict ----------------------------
(***************************************************************************)
(* The verdict on a channel: judge of service/modeldetect/runner.go and    *)
(* Classify of classify.go.  The results of a run come in one by one, each *)
(* what the check may conclude from the answers a channel of that kind     *)
(* gives; the audit compares those answers, and all of it is weighed.      *)
(***************************************************************************)
EXTENDS AuditRules, FiniteSetsExt

CONSTANTS
    Channels,   \* the kinds of channel there are
    Plan,       \* the scored checks, in the order of the catalogue
    Findings,   \* [channel -> [check -> results it may come to]]
    Replies,    \* [channel -> the sets of answers the audit may find]
    Refusals,   \* [channel -> families that may have refused a tampered signature]
    Profile     \* of the model asked for

VARIABLES
    channel,
    at,         \* checks run or left out
    clues,      \* the clues that weigh something, one per key
    auth, capped,
    usable,     \* some scored request succeeded
    scored,     \* there is a scored result
    blamed,     \* a result failed or is suspicious
    verdict     \* NoVerdict before judge

verdictVars == <<channel, at, clues, auth, capped, usable, scored, blamed, verdict>>

NoVerdict == [label |-> "none"]

VerdictAssumption ==
    \A c \in Channels, i \in DOMAIN Plan : \A r \in Findings[c][Plan[i]] :
        /\ r.status \in Statuses /\ r.auth \in Nat /\ r.capped \in BOOLEAN
        /\ r.replies \subseteq Kinds

Init ==
    /\ channel \in Channels /\ at = 0
    /\ clues = {} /\ auth = 0 /\ capped = FALSE
    /\ usable = FALSE /\ scored = FALSE /\ blamed = FALSE
    /\ verdict = NoVerdict

(***************************************************************************)
(* Adding up                                                               *)
(***************************************************************************)
\* The same key seen again is the same clue; what weighs nothing only informs.
News(found) == {c \in found : c.weight > 0 /\ \A old \in clues : old.key # c.key}

CountsAsUsable(r) == r.status # "unsupported" /\ Succeeded(r.replies)

\* A check of the run has ended.
Add ==
    /\ at < Len(Plan) /\ at' = at + 1
    /\ \E r \in Findings[channel][Plan[at + 1]] :
          /\ clues' = clues \cup News(r.clues)
          /\ auth' = auth + r.auth
          /\ capped' = (capped \/ r.capped)
          /\ usable' = (usable \/ CountsAsUsable(r))
          /\ blamed' = (blamed \/ r.status \in {"failed", "suspicious"})
    /\ scored' = TRUE
    /\ UNCHANGED <<channel, verdict>>

\* A check that was not selected leaves nothing.
Skip ==
    /\ at < Len(Plan) /\ at' = at + 1
    /\ UNCHANGED <<channel, clues, auth, capped, usable, scored, blamed, verdict>>

(***************************************************************************)
(* Weighing                                                                *)
(***************************************************************************)
Least(a, b) == IF a < b THEN a ELSE b

AuthCapScore == 30

Score(points, cap) == Least(Least(points, 100), IF cap THEN AuthCapScore ELSE 100)

GradeOf(score, cap) ==
    IF cap THEN "fake"
    ELSE IF score >= 80 THEN "genuine" ELSE IF score >= 50 THEN "likely" ELSE "doubtful"

ClassOrder == <<"maxpool", "official", "bedrock", "kiro", "vertex", "wrapper">>

Scores(found) == [class \in {ClassOrder[i] : i \in 1..6} |->
                     MapThenSumSet(LAMBDA c : c.weight, {c \in found : c.class = class})]

\* The highest class, of equals the first, and the score of the next.
Top(scores) ==
    ClassOrder[CHOOSE i \in 1..6 :
        \A j \in 1..6 : /\ scores[ClassOrder[j]] <= scores[ClassOrder[i]]
                        /\ j < i => scores[ClassOrder[j]] < scores[ClassOrder[i]]]

Second(scores) == Max({scores[class] : class \in DOMAIN scores \ {Top(scores)}})

Threshold == [maxpool |-> 5, official |-> 4, bedrock |-> 4, kiro |-> 5, vertex |-> 4,
              wrapper |-> 3]

PickLabel(scores) ==
    LET top == Top(scores)
    IN IF scores[top] >= Threshold[top] THEN top
       ELSE IF scores[top] > 2 /\ scores["wrapper"] >= 3 THEN "wrapper" ELSE "unknown"

HardEvidence == {"bedrock_corroborated", "msg_id_vertex", "sig_prefix_vertex",
                 "unified_ratelimit"}

ConfidenceOf(label, scores, keys) ==
    IF label = "unknown" THEN "low"
    ELSE IF keys \cap HardEvidence # {} \/ scores[Top(scores)] - Second(scores) >= 3
    THEN "high" ELSE "medium"

Keys(found) == {c.key : c \in found}

Classify(found, points, cap) ==
    LET scores == Scores(found)
        label == IF usable THEN PickLabel(scores) ELSE "unavailable"
    IN [label |-> label, score |-> Score(points, cap), grade |-> GradeOf(Score(points, cap), cap),
        confidence |-> IF usable THEN ConfidenceOf(label, scores, Keys(found)) ELSE "high"]

\* Without a scored result there is no verdict; the audit finds nothing where no
\* request succeeded.
Judge ==
    /\ at = Len(Plan) /\ scored /\ verdict = NoVerdict
    /\ \E replies \in Replies[channel], refusal \in Refusals[channel] :
          LET audit == IF usable THEN AuditRun(Profile, replies, Keys(clues), refusal)
                       ELSE Bare("passed", {})
          IN /\ clues' = clues \cup News(audit.clues)
             /\ capped' = (capped \/ audit.capped)
             /\ blamed' = (blamed \/ audit.status = "failed")
             /\ verdict' = Classify(clues', auth, capped')
    /\ UNCHANGED <<channel, at, auth, usable, scored>>

Next == Add \/ Skip \/ Judge

Spec == Init /\ [][Next]_verdictVars
-----------------------------------------------------------------------------
Honest == {"official", "maxpool", "bedrock", "vertex"}

\* A genuine channel is never called a fake or a wrapper, nor taken for another
\* platform, whichever of its requests were limited or failed and whichever
\* checks were left out.
HonestIsNotFake ==
    channel \in Honest /\ verdict # NoVerdict =>
        /\ verdict.grade # "fake"
        /\ verdict.label \in {channel, "unknown", "unavailable"}

\* Good manners do not make up for the signature: a backend that cannot verify one
\* is never graded genuine.
ImpostorIsNotGenuine ==
    channel = "impostor" /\ verdict # NoVerdict => verdict.grade # "genuine"

\* A channel that answers nothing is unavailable, and nothing is held against it.
OutageIsNotGuilt ==
    channel = "outage" =>
        /\ clues = {} /\ ~capped /\ ~blamed
        /\ verdict # NoVerdict => verdict.label = "unavailable"

\* The verdict tells the truth about a genuine channel, an impostor and an outage.
VerdictTellsTruth == HonestIsNotFake /\ ImpostorIsNotGenuine /\ OutageIsNotGuilt

\* The same impostor when its requests are rate limited: an answer 429 is missing
\* evidence, and no proof that the signature was verified.
LimitIsNoProof ==
    channel = "busy" /\ verdict # NoVerdict => verdict.grade # "genuine"

\* The account the baseline was taken from, answering as it did then, passes the
\* comparison with it.
MatchIsRecognised ==
    channel = "reference" /\ usable => auth = 30
=============================================================================

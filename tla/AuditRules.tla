----------------------------- MODULE AuditRules ------------------------------
(***************************************************************************)
(* The audit across the checks of a run (service/modeldetect/audit.go): it *)
(* sends nothing and compares the answers the scored checks got.           *)
(*                                                                         *)
(* replies: a sequence of the answers with a body, in the order of their   *)
(* checks: an id and its form, the form of the echoed model, the usage     *)
(* (given: it has input_tokens), whether a summary of the thinking was     *)
(* asked for, and the thinking blocks that carry a signature: the          *)
(* signature itself, whether there is text, the age of what it tells about *)
(* its origin ("unread" where it tells nothing).                           *)
(***************************************************************************)
EXTENDS CheckResults, Sequences

Signed(replies) == UNION {replies[i].blocks : i \in DOMAIN replies}

\* Below the shortest prefix a model caches, nothing can be read from a cache.
CacheFloor(profile, replies) ==
    profile.recognized /\
    \E i \in DOMAIN replies :
        LET u == replies[i].usage
        IN u.read > 0 /\ u.input + u.read + u.write < profile.floor

\* The whole input booked as read from the cache.
ZeroInput(u) == u.given /\ u.input = 0 /\ u.output > 0 /\ u.read > 0

InputMissing(u) == ~u.given \/ (u.input = 0 /\ u.output > 0 /\ u.read = 0)

MinCoherenceSamples == 2

\* Signatures, and never a word of thinking where a summary was asked for.
NeverThought(replies) ==
    LET asked == {i \in DOMAIN replies : replies[i].asked}
        empty == {x \in asked \X Signed(replies) : x[2] \in replies[x[1]].blocks /\ ~x[2].text}
    IN /\ Cardinality(empty) >= MinCoherenceSamples
       /\ \A i \in asked : \A b \in replies[i].blocks : ~b.text

\* A form of the first party that is not msg_01 and base58.
Reassembled(replies) == \E i \in DOMAIN replies : replies[i].form = "rewritten"

Repeated(replies, what(_)) ==
    \E i, j \in DOMAIN replies : i < j /\ what(replies[i]) \cap what(replies[j]) # {}

SameID(replies) == Repeated(replies, LAMBDA r : {r.id})

\* Compared with the answer before only.
SameSignatureAsLast(replies) ==
    \E i \in DOMAIN replies :
        i > 1 /\ {b.signature : b \in replies[i].blocks} \cap {b.signature : b \in replies[i - 1].blocks} # {}

SameSignature(replies) == Repeated(replies, LAMBDA r : {b.signature : b \in r.blocks})

\* Issued before the run began, with sigClockTolerance to spare.
Stale(replies) == \E b \in Signed(replies) : b.issued = "before"

Forged(replies) == \E b \in Signed(replies) : b.issued = "forged"

(***************************************************************************)
(* The platform, seen in three places a gateway would have to rewrite alike*)
(***************************************************************************)
MsgIDFamily ==
    [official |-> "first", rewritten |-> "unknown", bedrock |-> "bedrock", vertex |-> "vertex",
     pasted |-> "first"]

ModelEchoFamily == [same |-> "first", bedrock |-> "bedrock", another |-> "unknown"]

\* The first answer that tells a family decides for its place.
FirstKnown(replies, family(_)) ==
    LET known == {i \in DOMAIN replies : family(replies[i]) # "unknown"}
    IN IF known = {} THEN {}
       ELSE {family(replies[CHOOSE i \in known : \A j \in known : i <= j])}

PlatformConflict(replies, refusal) ==
    Cardinality(FirstKnown(replies, LAMBDA r : MsgIDFamily[r.form])
                \cup FirstKnown(replies, LAMBDA r : ModelEchoFamily[r.echo])
                \cup ({refusal} \ {"unknown"})) > 1

\* A prefix of an id is easily pasted: one other trace of Bedrock must go with it.
BedrockCorroboration(keys, refusal) ==
    LET traces == {"amzn_headers", "model_echo_bedrock", "tool_id_bedrock"}
    IN IF "msg_id_bedrock" \notin keys THEN {}
       ELSE IF keys \cap traces # {} \/ refusal = "bedrock"
       THEN {Clue("bedrock_corroborated", "bedrock", 3)}
       ELSE {Clue("bedrock_prefix_only", "wrapper", 2)}

\* keys: the clues of the checks; refusal: the family that refused a tampered
\* signature.  Three findings cap the score, the others only weigh.
AuditRun(profile, replies, keys, refusal) ==
    LET usages == {replies[i].usage : i \in DOMAIN replies}
        floor == CacheFloor(profile, replies)
        zero == \E u \in usages : ZeroInput(u)
        mute == NeverThought(replies)
        capped == floor \/ zero \/ mute
        failed == capped \/ SameID(replies) \/ SameSignature(replies) \/ Stale(replies)
                      \/ Forged(replies)
    IN Result(IF failed THEN "failed" ELSE "passed",
           If(floor, {Clue("usage_impossible_cache", "wrapper", 4)}) \cup
           If(zero, {Clue("usage_zero_input", "wrapper", 4)}) \cup
           If(~zero /\ \E u \in usages : InputMissing(u),
              {Clue("usage_input_missing", "wrapper", 1)}) \cup
           If(mute, {Clue("thinking_empty_signed", "wrapper", 4)}) \cup
           If(Reassembled(replies), {Clue("msg_id_rewritten", "wrapper", 2)}) \cup
           If(SameID(replies), {Clue("msg_id_duplicate", "wrapper", 3)}) \cup
           If(SameSignature(replies), {Clue("sig_replayed", "wrapper", 3)}) \cup
           If(Stale(replies), {Clue("sig_stale", "wrapper", 4)}) \cup
           If(Forged(replies), {Clue("sig_uuid_forged", "wrapper", 3)}) \cup
           If(PlatformConflict(replies, refusal), {Clue("platform_shape_conflict", "wrapper", 1)})
               \cup BedrockCorroboration(keys, refusal),
           0, capped, {})
=============================================================================

--------------------------- MODULE ChecksProtocol ---------------------------
(***************************************************************************)
(* The checks of group "protocol" of service/modeldetect/checks_protocol.go*)
(* : what each concludes from the answers o it got.                        *)
(***************************************************************************)
EXTENDS CheckResults, Sequences

(***************************************************************************)
(* Parameters                                                              *)
(***************************************************************************)
HardCases == {"budget", "unknown_field", "max_tokens_zero"}

\* max_tokens = 0 is a request to warm the cache: accepted, and nothing comes out.
Official(o, case) ==
    Rejected(o.reply[case]) \/ (case = "max_tokens_zero" /\ o.reply[case] = "ok" /\ o.silent)

\* The soft case (a temperature beside thinking) is only diagnosed.
ParamStrict(o) ==
    LET rejected == {case \in HardCases : Official(o, case)}
    IN Result(IF rejected = HardCases THEN "passed" ELSE "inconclusive", {},
              5 * Cardinality(rejected), FALSE, {o.reply[case] : case \in HardCases})

MaxTokens(o) ==
    LET limit == 10
        within == o.output > 0 /\ o.output <= limit
        ignored == o.output > limit
    IN IF o.reply # "ok" THEN Bare(Finished(FALSE, {o.reply}), {o.reply})
       ELSE Result(IF within /\ ~o.touched THEN "inconclusive" ELSE Finished(within, {"ok"}),
                   If(ignored, {Clue("max_tokens_ignored", "wrapper", 3)}),
                   IF within THEN 10 ELSE 0, ignored, {"ok"})

(***************************************************************************)
(* Tools                                                                   *)
(***************************************************************************)
ToolID ==
    [missing  |-> {Clue("tool_id_missing", "wrapper", 2)},
     official |-> {Clue("tool_id_official", "info", 0)},
     bedrock  |-> {Clue("tool_id_bedrock", "bedrock", 4)},
     vertex   |-> {Clue("tool_id_vertex", "vertex", 4)},
     foreign  |-> {Clue("tool_id_foreign", "wrapper", 2)}]

\* o: two calls; a model that cannot be forced (400) is asked again with "auto",
\* and reply is then the second answer.
ToolUse(o) ==
    LET called == {i \in 1..2 : o[i].reply = "ok" /\ o[i].called}
        right == {i \in called : o[i].right}
        replies == {o[i].reply : i \in 1..2} \cup If(\E i \in 1..2 : o[i].unforced, {"refused"})
    IN Result(Finished(right = 1..2, replies), UNION {ToolID[o[i].id] : i \in called},
              IF right = 1..2 THEN 10 ELSE 0, FALSE, replies)

(***************************************************************************)
(* Signatures of thinking                                                  *)
(***************************************************************************)
\* A model may skip or hide its thinking: without a signature nothing is concluded.
ThinkingSignature(o) ==
    IF o.reply # "ok" \/ o.signature = "none" THEN Bare("inconclusive", {o.reply})
    ELSE Result("passed", If(o.signature = "vertex", {Clue("sig_prefix_vertex", "vertex", 5)}),
                0, FALSE, {"ok"})

Tolerance == 16
MinArrivalThoughts == 100

\* Has the thinking sent back become part of the context?  first: tokens of the
\* request that got the signature; input: of the one that sent it back.
ThinkingArrived(keeps, first, input) ==
    LET extra == input - first.input
        carried == extra - (first.output - first.thoughts)
    IN /\ keeps
       /\ IF first.split
          THEN first.thoughts >= MinArrivalThoughts /\ carried * 2 >= first.thoughts
          ELSE extra >= first.output

Stripped == {Clue("thinking_stripped", "wrapper", 2)}

\* The code without the test that the thinking was ever part of the context.
JudgeTamperAsItIs(keeps, first, positive, negative) ==
    Result("suspicious", {Clue("signature_not_verified", "wrapper", 4)},
           0, negative.echo = "new" /\ positive.metered, {"ok"})

\* A tampered signature was accepted: has a backend seen it at all?
JudgeTamperAccepted(keeps, first, positive, negative) ==
    LET replies == {"ok"}
    IN IF negative.echo = "old"
       THEN Result("inconclusive", {Clue("sig_replayed", "wrapper", 3)}, 0, FALSE, replies)
       ELSE IF negative.echo # "new" THEN Bare("inconclusive", replies)
       ELSE IF negative.signature \in {first.signature, positive.signature}
       THEN Result("suspicious", {Clue("sig_unbound", "wrapper", 4)}, 0, TRUE, replies)
       ELSE IF ~positive.metered \/ ~negative.metered THEN Bare("inconclusive", replies)
       ELSE IF positive.input <= first.input
       THEN Result("inconclusive", {Clue("usage_implausible", "wrapper", 2)}, 0, FALSE, replies)
       ELSE IF positive.input - negative.input > Tolerance
       THEN Result("inconclusive", Stripped, 0, FALSE, replies)
       ELSE IF negative.input - positive.input > Tolerance THEN Bare("inconclusive", replies)
       ELSE IF ~ThinkingArrived(keeps, first, positive.input)
       THEN Result("inconclusive", If(keeps, Stripped), 0, FALSE, replies)
       ELSE Result("suspicious", {Clue("signature_not_verified", "wrapper", 4)}, 0, TRUE, replies)

\* positive: the signed thinking sent back as it is; negative: one character off.
SignatureTamper(keeps, first, positive, negative) ==
    LET continued == positive.reply = "ok" /\ positive.echo = "new"
        replies == {positive.reply, negative.reply}
    IN IF continued /\ negative.reply = "refused" /\ negative.named
       THEN Result("passed", {Clue("signature_verified", "info", 0)}, 40, FALSE, replies)
       ELSE IF continued /\ Rejected(negative.reply)
       THEN Result("inconclusive", {}, 30, FALSE, replies)
       ELSE IF continued /\ negative.reply = "ok"
       THEN JudgeTamperAccepted(keeps, first, positive, negative)
       ELSE Bare("inconclusive", replies)

(***************************************************************************)
(* Streaming: events are [type, index] with what is broken about them      *)
(***************************************************************************)
Positions(events, type) == {i \in DOMAIN events : events[i].type = type /\ events[i].json}

\* The block of event i has been started, and stopped, before it.
StartedBefore(events, i) ==
    \E j \in Positions(events, "block_start") : j < i /\ events[j].index = events[i].index
StoppedBefore(events, i) ==
    \E j \in Positions(events, "block_stop") : j < i /\ events[j].index = events[i].index
InsideBegun(events, i) == StartedBefore(events, i)

Inside(events, i) == StartedBefore(events, i) /\ ~StoppedBefore(events, i)

ValidateSSE(events) ==
    LET starts == Positions(events, "message_start")
        stops == Positions(events, "message_stop")
        begun == Positions(events, "block_start")
        ended == Positions(events, "block_stop")
    IN /\ \A i \in DOMAIN events : events[i].json /\ events[i].named
       /\ \A i \in begun : ~StartedBefore(events, i)
       /\ \A i \in Positions(events, "block_delta") \cup ended : Inside(events, i)
       /\ \A i \in begun : \E j \in ended : events[j].index = events[i].index
       /\ Positions(events, "error") = {}
       /\ begun # {} /\ Positions(events, "message_delta") # {}
       /\ Cardinality(starts) = 1 /\ Cardinality(stops) = 1
       /\ \A i \in starts, j \in stops : i < j

Stream(o) ==
    IF o.reply # "ok" THEN Bare(Finished(FALSE, {o.reply}), {o.reply})
    ELSE Result(Finished(o.eventStream /\ o.valid /\ o.repeated, {"ok"}),
                If(o.valid /\ ~o.startUsage, {Clue("sse_missing_usage", "wrapper", 1)}),
                IF o.valid /\ o.repeated THEN 10 ELSE 0, FALSE, {"ok"})

(***************************************************************************)
(* Counting tokens                                                         *)
(***************************************************************************)
\* o.count: of a short text twice and of a long one; a failed request counts 0.
CountTokens(ping, o) ==
    LET n(i) == IF o.reply[i] = "ok" THEN o.count[i] ELSE 0
        stable == n(1) > 0 /\ n(1) = n(2)
        grows == n(3) > n(1)
        replies == {o.reply[i] : i \in 1..3}
        gap == /\ ping.seen /\ ping.input > 0 /\ ping.write = 0
               /\ ping.input - n(1) > 3
    IN IF o.reply[1] # "ok" THEN Bare("unsupported", replies)
       ELSE Result(Finished(stable /\ grows, replies),
                   If(gap, {Clue("tokenizer_gap", "wrapper", 1)}),
                   IF stable /\ grows THEN 5 ELSE 0, FALSE, replies)
=============================================================================

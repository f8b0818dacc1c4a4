---------------------------- MODULE DetectProbes -----------------------------
(***************************************************************************)
(* Six checks of model detection that conclude something from several     *)
(* answers, each against a channel that may interfere with any of them:    *)
(*   chain    three requests with growing prefixes and a prompt cache      *)
(*   frames   one streamed answer                                          *)
(*   tamper   signed thinking, sent back as it was and with a letter changed*)
(*   replay   the answers of a run, as the audit compares them             *)
(*   inject   what equal requests are charged for                          *)
(*   wits     the streamed answer to a puzzle, or with a drawing           *)
(* The channel is the environment of the code; what is checked is what the *)
(* code concludes from what it hears.                                      *)
(***************************************************************************)
EXTENDS ChecksGateway, ChecksProtocol, AuditRules

IQ == INSTANCE ChecksIQ
Injection == INSTANCE ChecksInjection

VARIABLES
    probe,
    nature,     \* tamper, inject, wits: what model and gateway are like
    heard,      \* the answers, or the events, so far
    wrongs      \* what the channel has done to them

probeVars == <<probe, nature, heard, wrongs>>

Hear(answer, wrong) ==
    /\ heard' = Append(heard, answer)
    /\ wrongs' = wrongs \cup wrong
    /\ UNCHANGED <<probe, nature>>

(***************************************************************************)
(* chain: a request finds the longest prefix its node has cached           *)
(***************************************************************************)
Size == <<9, 16, 21>>   \* tokens of the three prefixes

CachedAt(node) == {heard[i].prefix : i \in {j \in DOMAIN heard : heard[j].node = node /\ heard[j].w > 0}}

Longest(node) == CHOOSE s \in CachedAt(node) \cup {0} : \A t \in CachedAt(node) : t <= s

AskPrefix ==
    LET n == Len(heard) + 1
        usage(node, prefix, r, w) == [node |-> node, prefix |-> prefix, r |-> r, w |-> w]
    IN /\ probe = "chain" /\ n <= 3
       /\ \/ \E node \in {"a", "b"} :
                Hear(usage(node, Size[n], Longest(node), Size[n] - Longest(node)),
                     If(n > 1 /\ heard[n - 1].node # node, {"moved"}))
          \* The gateway changes the text, leaves the cache out, or has one of its own.
          \/ Hear(usage("c", 0, 0, Size[n]), {"changed"})
          \/ Hear(usage("a", 0, 0, 0), {"uncached"})
          \/ Hear(usage("a", 0, Size[n], 0), {"shared"})

Outcome3 == ChainOutcome([i \in 1..3 |-> heard[i].r], [i \in 1..3 |-> heard[i].w])

(***************************************************************************)
(* frames: the events of a streamed answer                                 *)
(***************************************************************************)
Event(type, index) == [type |-> type, index |-> index, json |-> TRUE, named |-> TRUE]

Official6 ==
    <<Event("message_start", 9), Event("block_start", 0), Event("block_delta", 0),
      Event("block_stop", 0), Event("block_start", 1), Event("block_delta", 1),
      Event("block_stop", 1), Event("message_delta", 9), Event("message_stop", 9)>>

\* The next event of the stream: wrongs holds how many have been lost or doubled.
Position == Len(heard) + Cardinality({x \in wrongs : x[1] = "lost"})
                       - Cardinality({x \in wrongs : x[1] = "doubled"})

Deliver ==
    LET next == Official6[Position + 1]
    IN /\ probe = "frames" /\ Position < Len(Official6)
       /\ \/ Hear(next, {})
          \/ Hear([next EXCEPT !.json = FALSE], {<<"torn", Position>>})
          \/ /\ wrongs = {} /\ wrongs' = {<<"lost", Position>>}
             /\ UNCHANGED <<probe, nature, heard>>
          \/ /\ wrongs = {} /\ heard' = heard \o <<next, next>>
             /\ wrongs' = {<<"doubled", Position>>} /\ UNCHANGED <<probe, nature>>

\* What frames an answer, without the text itself.
Frames(events) == SelectSeq(events, LAMBDA e : e.type \notin {"block_delta", "message_delta"})

(***************************************************************************)
(* tamper: three requests                                                  *)
(***************************************************************************)
Prompt == 30      \* tokens of the first question
Question == 40    \* of the question that follows
Spoken == 20      \* of the visible answer

Natures ==
    [verifies : BOOLEAN, gateway : {"pass", "strip", "strip_refused", "replay"},
     keeps : BOOLEAN, metered : BOOLEAN, thoughts : {10, 40, 60, 240}, split : BOOLEAN,
     unbound : BOOLEAN]

Thought == [signature |-> "s1", input |-> Prompt, output |-> Spoken + nature.thoughts,
            thoughts |-> nature.thoughts, split |-> nature.split]

Signature(n) == IF nature.unbound /\ ~nature.verifies THEN "s1" ELSE n

Back(reply, echo, signature, carried) ==
    [reply |-> reply, echo |-> echo, signature |-> signature, metered |-> nature.metered,
     named |-> reply = "refused",
     input |-> Prompt + Spoken + Question + IF carried /\ nature.keeps THEN nature.thoughts ELSE 0]

SendBack ==
    /\ probe = "tamper" /\ heard = <<>>
    /\ \/ Hear(Back("ok", "new", Signature("s2"), nature.gateway # "strip"), {})
       \/ \E k \in {"limited", "fault"} : Hear(Back(k, "none", "none", TRUE), {})

\* A backend that verifies refuses, unless the gateway has taken the thinking out or
\* answers from the reply before; and a refusal may be hidden by a second attempt.
SendTampered ==
    LET refused == nature.verifies /\ nature.gateway # "strip"
    IN /\ probe = "tamper" /\ Len(heard) = 1
       /\ \/ \E k \in {"fault"} : Hear(Back(k, "none", "none", TRUE), {})
          \/ nature.gateway = "replay" /\ Hear(Back("ok", "old", heard[1].signature, TRUE), {})
          \/ nature.gateway = "strip_refused" /\ refused /\ Hear(Back("ok", "new", "s3", FALSE), {})
          \/ nature.gateway = "pass" /\ refused /\ Hear(Back("refused", "none", "none", TRUE), {})
          \/ nature.gateway # "replay" /\ ~refused
             /\ Hear(Back("ok", "new", Signature("s3"), nature.gateway # "strip"), {})

Tampering == SignatureTamper(nature.keeps, Thought, heard[1], heard[2])

(***************************************************************************)
(* replay: what the audit has of each answer                               *)
(***************************************************************************)
Genuine(n) ==
    [id |-> n, form |-> "official", echo |-> "same", asked |-> TRUE,
     usage |-> [given |-> TRUE, input |-> 600, output |-> 90, read |-> 0, write |-> 0],
     blocks |-> {[signature |-> n, text |-> TRUE, issued |-> "now"]}]

Listen ==
    LET n == Len(heard) + 1
    IN /\ probe = "replay" /\ n <= 3
       /\ \/ \E thinks \in BOOLEAN :
                Hear([Genuine(n) EXCEPT !.blocks = IF thinks THEN @ ELSE {}], {})
          \* An earlier answer, or one of an earlier run, under its own id or a new one.
          \/ \E i \in DOMAIN heard : \E id \in {n, heard[i].id} :
                Hear([heard[i] EXCEPT !.id = id],
                     If(id # n \/ heard[i].blocks # {}, {"replayed"}))
          \/ Hear([Genuine(n) EXCEPT !.blocks = {[b EXCEPT !.issued = "before"] : b \in @}],
                  {"stale"})
          \* Usage made up: the input booked as a cache read, or a read of what is too short.
          \/ Hear([Genuine(n) EXCEPT !.usage.input = 0, !.usage.read = 600], {"forged"})
          \/ Hear([Genuine(n) EXCEPT !.usage.input = 30, !.usage.read = 90], {"forged"})
          \* Its id in another form.
          \/ Hear([Genuine(n) EXCEPT !.form = "rewritten"], {"rewritten"})

Audit == AuditRun([recognized |-> TRUE, floor |-> 512], heard, {}, "unknown")

(***************************************************************************)
(* inject: three samples (twenty in the code), three sequences of digits,  *)
(* a system prompt, two counts, and the question about instructions        *)
(***************************************************************************)
Direct == [bare |-> 18, system |-> 48, slope |-> 2, intercept |-> 5]
OfDigits(n) == Direct.slope * Injection!Digits[n] + Direct.intercept

\* What the official channels charge for the n-th request, and for a count.
Charge == <<Direct.bare, Direct.bare, Direct.bare, OfDigits(1), OfDigits(2), OfDigits(3),
            Direct.system, Direct.bare, OfDigits(3), Direct.bare>>

\* What a gateway that counts letters makes of them.
Estimate == <<15, 15, 15, 3, 12, 52, 60, 15, 52, 15>>

\* Two accounts of the gateway add some tokens each.  It charges for them, hides them,
\* charges them as a cache, or charges what it estimates.
Sites ==
    {s \in [base : {Injection!NoBaseline, [Direct EXCEPT !.slope = 0, !.intercept = 0],
                    [Direct EXCEPT !.bare = 0, !.system = 0]},
            extra : {[a |-> x[1], b |-> x[2]] : x \in {<<0, 0>>, <<0, 4>>, <<4, 4>>, <<4, 300>>}},
            charges : {"all", "hidden", "cached", "estimated"},
            counts : {"real", "estimated", "closed"}, obeys : BOOLEAN] :
        /\ s.base.bare > 0 => s.counts = "real"
        /\ s.base.slope > 0 => s.counts # "closed"
        /\ s.charges = "hidden" => s.counts = "real"
        /\ s.charges = "estimated" => s.counts \in {"real", "estimated"}
        /\ s.extra.b = 0 => s.obeys}

Answered(n, account) ==
    [reply |-> "ok", refusal |-> FALSE, from |-> account, signature |-> <<n>>,
     cached |-> nature.charges = "cached" /\ nature.extra[account] > 0,
     total |-> IF nature.charges = "estimated" THEN Estimate[n]
               ELSE Charge[n] + IF nature.charges = "hidden" THEN 0 ELSE nature.extra[account]]

\* Requests in flight at once may meet either account; one of them may go wrong: the
\* classifier refuses it, which is charged in its own way, it is limited, or it gets an
\* earlier answer.  Which of the samples met which account makes no difference.
Measure ==
    LET n == Len(heard) + 1
        fits(account) == n \in {2, 3, 5} => account = "b" \/ heard[n - 1].from = "a"
    IN /\ probe = "inject" /\ n \in 1..7
       /\ \/ \E account \in {x \in {"a", "b"} : fits(x)} : Hear(Answered(n, account), {})
          \/ /\ wrongs = {}
             /\ \/ Hear([Answered(n, "a") EXCEPT !.refusal = TRUE, !.total = @ + 60], {"refused"})
                \/ Hear([Answered(n, "a") EXCEPT !.reply = "limited"], {"limited"})
                \/ n \in 2..3 /\ Hear(heard[1], {"replayed"})

CountAndAsk ==
    LET count(n) == [reply |-> IF nature.counts = "closed" THEN "refused" ELSE "ok",
                     total |-> IF nature.counts = "estimated" THEN Estimate[n] ELSE Charge[n]]
        hides == nature.charges = "hidden" /\ nature.extra.b > 0
    IN /\ probe = "inject" /\ Len(heard) = 7
       /\ \E says \in {<<"no", FALSE>>} \cup
               IF hides THEN {<<"no", TRUE>>, <<"yes", FALSE>>, <<"other", FALSE>>} ELSE {} :
             heard' = heard \o <<count(8), count(9),
                                [reply |-> "ok", refusal |-> FALSE, signature |-> <<10>>,
                                 lead |-> says[1], leak |-> says[2]]>>
       /\ UNCHANGED <<probe, nature, wrongs>>

Added ==
    Injection!ZeroInjection(SubSeq(heard, 1, 3), SubSeq(heard, 4, 6), heard[7],
                            SubSeq(heard, 8, 9), heard[10], nature.obeys, nature.base)

(***************************************************************************)
(* wits: the lines a model writes, and how far they come                   *)
(***************************************************************************)
Line(form, n) == [form |-> form, n |-> n]

\* right: what the model has given in the end is, as far as it said so to the end.
Text(question, lines, right) == [question |-> question, lines |-> lines, right |-> right]

Writers ==
    {Text("candy", <<Line("format", 29), Line("words", 0), Line("sum", 12), Line("format", 21)>>, TRUE),
     Text("candy", <<Line("phrase", 21), Line("words", 0), Line("format", 29)>>, FALSE),
     Text("candy", <<Line("format", 21), Line("sum", 12), Line("format", 29), Line("words", 0)>>, FALSE),
     Text("candy", <<Line("phrase", 29), Line("sum", 12), Line("boxed", 21)>>, TRUE),
     Text("candy", <<Line("words", 0), Line("sum", 21), Line("words", 0)>>, FALSE),
     Text("pelican", <<"words", "fence", "still", "fence", "fence", "moving", "fence">>, TRUE),
     Text("pelican", <<"other", "moving", "other", "fence", "half", "still", "fence">>, FALSE),
     Text("pelican", <<"words", "moving", "words">>, TRUE),
     Text("pelican", <<"fence", "still", "fence", "words", "fence", "half", "moving">>, FALSE),
     Text("pelican", <<"words", "half", "words">>, FALSE)}

Written == Len(SelectSeq(heard, LAMBDA e : e.type = "text"))
Over == IQ!Happens(heard, "message_stop") \/ "cut" \in wrongs

\* The next line, the end of them, the limit of tokens, an error inside the stream, or
\* the end of the connection.
Write ==
    /\ probe = "wits" /\ ~Over
    /\ IF IQ!Happens(heard, "message_delta") THEN Hear([type |-> "message_stop"], {})
       ELSE \/ /\ Written < Len(nature.lines)
               /\ \/ Hear([type |-> "text", line |-> nature.lines[Written + 1]], {})
                  \/ Hear([type |-> "message_delta", stop |-> "max_tokens"], {"truncated"})
            \/ /\ Written = Len(nature.lines)
               /\ Hear([type |-> "message_delta", stop |-> "end_turn"], {})
            \/ "error" \notin wrongs /\ Hear([type |-> "error"], {"error"})
    \/ /\ probe = "wits" /\ ~Over
       /\ wrongs' = wrongs \cup {"cut"} /\ UNCHANGED <<probe, nature, heard>>

Reading ==
    LET r == IQ!Assemble(heard)
    IN IF nature.question = "candy" THEN IQ!Candy("ok", r) ELSE IQ!Pelican("ok", r)

(***************************************************************************)
(* The specification                                                       *)
(***************************************************************************)
Init ==
    /\ probe \in {"chain", "frames", "tamper", "replay", "inject", "wits"}
    /\ nature \in CASE probe = "tamper" -> Natures
                   [] probe = "inject" -> Sites
                   [] probe = "wits" -> Writers
                   [] OTHER -> {CHOOSE x \in Natures : TRUE}
    /\ heard = <<>> /\ wrongs = {}

Next ==
    AskPrefix \/ Deliver \/ SendBack \/ SendTampered \/ Listen \/ Measure \/ CountAndAsk \/ Write

Spec == Init /\ [][Next]_probeVars
-----------------------------------------------------------------------------
\* The chain of three requests is clean exactly where all of them met one cache
\* with the text they had.
ChainTellsTruth ==
    probe = "chain" /\ Len(heard) = 3 => (Outcome3 = "passed" <=> wrongs = {})

\* A stream that has lost, doubled or torn an event that frames the answer, or was
\* cut, is not valid; an undisturbed one is.
BrokenStreamIsSeen ==
    probe = "frames" =>
        /\ ValidateSSE(heard) => Frames(heard) = Frames(Official6)
        /\ heard = Official6 => ValidateSSE(heard)

\* Thinking that is not told apart in the usage and no longer than the question after
\* it: whether it came back cannot be seen, and no minimum is asked of it.
Hideable == ~nature.split /\ nature.thoughts <= Question

\* A backend that verifies signatures is never capped, whatever its gateway does, but
\* where the gateway takes out thinking too short to be missed; one that does not verify
\* is capped, where nothing hides it.
TamperTellsTruth ==
    probe = "tamper" /\ Len(heard) = 2 =>
        /\ nature.verifies /\ Tampering.capped =>
              Hideable /\ nature.keeps /\ nature.gateway \in {"strip", "strip_refused"}
        /\ ~nature.verifies /\ nature.gateway = "pass" /\ nature.keeps /\ nature.metered
               /\ nature.thoughts >= MinArrivalThoughts
               /\ heard[1].reply = "ok" /\ heard[2].reply = "ok"
           => Tampering.capped

\* The audit holds a replay, an old answer or made-up usage against the channel, caps
\* the score for the usage alone, and holds nothing against an honest run.
AuditTellsTruth ==
    probe = "replay" =>
        /\ Audit.status = "failed" <=> wrongs \ {"rewritten"} # {}
        /\ Audit.capped <=> "forged" \in wrongs
        /\ wrongs = {} => Audit.clues = {}

\* A channel is called clean of additions only where those of the answers that were
\* compared came without any, and accused only where some came with one; a tampering
\* with what is charged is not called clean, and an honest channel that could be
\* compared is.
InjectionTellsTruth ==
    probe = "inject" /\ Len(heard) = 10 =>
        LET concluded == Added
            given == {i \in 1..7 : Injection!Measured(heard[i])}
            adds(i) == nature.extra[heard[i].from] > 0
            compared == {i \in given : IF i \in 4..6 THEN nature.base.slope > 0 ELSE nature.base.bare > 0}
        IN /\ concluded.status = "passed" =>
                 /\ nature.charges \in {"all", "cached"} => \A i \in compared : ~adds(i)
                 /\ nature.charges # "estimated" /\ "replayed" \notin wrongs
                 /\ ~Injection!Admits(heard[10]) /\ (7 \in given => nature.obeys)
           /\ concluded.found \in {"mixed", "injected"} /\ nature.charges # "estimated" =>
                 nature.charges # "hidden" /\ \E i \in given : adds(i)
           /\ concluded.amount > 0 /\ nature.charges # "estimated" =>
                 \E i \in given : nature.extra[heard[i].from] = concluded.amount
           /\ /\ nature.charges = "all" /\ nature.obeys /\ nature.base.bare > 0
              /\ \A i \in 1..7 : ~adds(i)
              /\ given \cap 1..3 # {} /\ "replayed" \notin wrongs /\ ~Injection!Admits(heard[10])
              => concluded.status = "passed"

\* An answer that came whole passes where it is right; one that was cut off proves
\* nothing, and one that ran into the limit nothing against the model, unless its last
\* line gave the answer.
WitsTellTruth ==
    probe = "wits" /\ Over =>
        LET last == nature.lines[Written]
        IN /\ wrongs \cap {"cut", "error"} # {} => Reading = "inconclusive"
           /\ wrongs = {} => (Reading = "passed" <=> nature.right)
           /\ wrongs = {"truncated"} /\ Reading # "inconclusive" =>
                 IF nature.question = "candy"
                 THEN Written > 0 /\ last.form = "format" /\ (Reading = "passed" <=> last.n = 21)
                 ELSE Reading = "passed"

\* The six kinds of evidence above are what they claim to be.
EvidenceIsTrue == ChainTellsTruth /\ BrokenStreamIsSeen /\ TamperTellsTruth /\ AuditTellsTruth
                  /\ InjectionTellsTruth /\ WitsTellTruth
=============================================================================

--------------------------- MODULE DetectChannels ----------------------------
(***************************************************************************)
(* Kinds of channel, and what each answers the checks of a run: the input  *)
(* of DetectVerdict.  Any request may be limited (429) or fail.            *)
(*   official, maxpool, bedrock, vertex   the four genuine ones            *)
(*   discreet   official, with a model that keeps a session id to itself   *)
(*   impostor   another model behind a gateway that gets all else right    *)
(*   busy       the impostor when it limits requests                       *)
(*   reference  official, the account of the baseline                      *)
(*   outage     every request is limited or fails                          *)
(***************************************************************************)
EXTENDS ChecksGateway, ChecksProtocol, ChecksIdentity, ChecksCapability

Faults == {"limited", "fault"}

Reply(c) == IF c = "outage" THEN Faults ELSE Faults \cup {"ok"}

Refusal(c) == IF c = "outage" THEN Faults ELSE Faults \cup {"refused"}

Platform(c) == IF c \in {"bedrock", "vertex", "maxpool"} THEN c ELSE "official"

ID == [official |-> "official", maxpool |-> "official", bedrock |-> "bedrock",
       vertex |-> "vertex"]
Echoes == [official |-> {"same"}, maxpool |-> {"same"}, bedrock |-> {"bedrock"},
           vertex |-> {"same"}]
HeaderSets == [official |-> {{"ratelimit"}}, maxpool |-> {{"ratelimit-unified"}},
               bedrock |-> {{"amzn"}, {}}, vertex |-> {{}}]
ToolIDs == [official |-> "official", maxpool |-> "official", bedrock |-> "bedrock",
            vertex |-> "vertex"]

Recognized == [recognized |-> TRUE, defaultThinking |-> FALSE]
Plain == [seen |-> TRUE, input |-> 20, write |-> 0]

Pings(c) == {Ping([reply |-> k, id |-> ID[Platform(c)], echo |-> e, input |-> 20, write |-> 0,
                   headers |-> h]) :
                k \in Reply(c), e \in Echoes[Platform(c)], h \in HeaderSets[Platform(c)]}

ModelLists(c) == {Models([reply |-> k, bedrock |-> Platform(c) = "bedrock", headers |-> h]) :
                     k \in Reply(c), h \in HeaderSets[Platform(c)]}

\* A cache that works, or none.
Chains(c) == {PingAgain(p, ks, chain[1], chain[2]) :
                 p \in {NotSeen, Plain}, ks \in {{k, l} : k, l \in Reply(c)},
                 chain \in {<< <<0, 9, 16>>, <<9, 7, 5>> >>, << <<0, 0, 0>>, <<0, 0, 0>> >>}}

Params(c) == {ParamStrict([reply |-> f, silent |-> TRUE]) : f \in [HardCases -> Refusal(c)]}

Limits(c) == {MaxTokens([reply |-> k, output |-> n, touched |-> t]) :
                 k \in Reply(c), n \in {6, 10}, t \in BOOLEAN}

Tools(c) == {ToolUse([i \in 1..2 |-> [reply |-> f[i], called |-> TRUE, right |-> TRUE,
                                      unforced |-> FALSE, id |-> ToolIDs[Platform(c)]]]) :
                f \in [1..2 -> Reply(c)]}

Signatures(c) ==
    {ThinkingSignature([reply |-> k, signature |-> s]) : k \in Reply(c),
        s \in IF c = "vertex" THEN {"vertex", "none"} ELSE {"plain", "none"}}

\* A genuine backend verifies; the impostor accepts anything or has no thinking.
First == [signature |-> "s1", input |-> 90, output |-> 200, thoughts |-> 150, split |-> TRUE]
Continued(k) == [reply |-> k, echo |-> "new", signature |-> "s2", metered |-> TRUE, input |-> 260]
Tampered(k) == [reply |-> k, echo |-> "new", signature |-> "s3", metered |-> TRUE, input |-> 261,
                named |-> TRUE]
Tampers(c) ==
    {Bare("inconclusive", {})} \cup
    {SignatureTamper(TRUE, First, Continued(p), Tampered(n)) :
        p \in Reply(c), n \in CASE c = "impostor" -> {"ok", "fault"}
                               [] c = "busy" -> {"ok", "limited"}
                               [] OTHER -> Refusal(c)}

Streams(c) == {Stream([reply |-> k, eventStream |-> TRUE, valid |-> TRUE, repeated |-> e,
                       startUsage |-> TRUE]) : k \in Reply(c), e \in BOOLEAN}

Counts(c) == {CountTokens(p, [reply |-> f, count |-> <<18, 18, 90>>]) :
                 p \in {NotSeen, Plain}, f \in [1..3 -> Reply(c)]}

Caches(c) == {PromptCache([reply |-> f, w |-> <<9, 0, 9>>, r |-> <<0, 9, 0>>]) :
                 f \in [1..3 -> Reply(c)]}

Hellos(c) == {HelloEntropy([succeeded |-> n, unique |-> 5, failures |-> IF n < 10 THEN Faults ELSE {}]) :
                 n \in IF c = "outage" THEN {0} ELSE {4, 5, 10}}

Slopes(c) == {Slope(Recognized, [reply |-> k, output |-> 130, thinking |-> 0, split |-> FALSE,
                                 thought |-> FALSE, words |-> 100]) : k \in Reply(c)}

Files(c) == {Image([reply |-> k, right |-> TRUE]) : k \in Reply(c) \cup {"refused"}}

Personas(c) == {PersonaClaudeCode([reply |-> k, brand |-> FALSE, denies |-> TRUE,
                                   claims |-> FALSE, tools |-> FALSE]) : k \in Reply(c)}

Kiros(c) ==
    {PersonaKiro([who |-> [reply |-> k[1], lead |-> IF k[1] = "ok" THEN "no" ELSE "",
                           kiro |-> FALSE, stamp |-> FALSE, amazonQ |-> FALSE],
                  spec |-> [reply |-> k[2], lead |-> IF k[2] = "ok" THEN "no" ELSE "",
                            mentions |-> k[2] = "ok", disowns |-> FALSE, claimsCC |-> FALSE,
                            stamp |-> FALSE, amazonQ |-> FALSE]]) : k \in Reply(c) \X Reply(c)}

Leaks(c) == {EnvLeak([reply |-> k, noWorkspace |-> TRUE, path |-> FALSE]) : k \in Reply(c)}

Dumps(c) == {SystemDump([reply |-> k, brand |-> FALSE, kiro |-> FALSE]) : k \in Reply(c)}

Systems(c) ==
    {CallerSystem([pirate |-> [reply |-> k[1], obeyed |-> TRUE],
                   needle |-> [reply |-> k[2], text |-> t]]) :
        k \in Reply(c) \X Reply(c), t \in IF c = "discreet" THEN {"id", "refusal"} ELSE {"id"}}

Metas(c) == {ModelMeta([reply |-> k, brand |-> FALSE, claim |-> "same", cutoff |-> "same",
                        platform |-> "none"]) : k \in Reply(c)}

Qualities(c) == {QualityBaseline(FALSE, [probe |-> [p \in Probes |-> [reply |-> k, right |-> r]],
                                         twins |-> <<>>]) : k \in Reply(c), r \in BOOLEAN}

\* The account the baseline was taken from, answering as it did then.
Base == [quality |-> TRUE, output |-> 900, thinking |-> 400, chars |-> 0]
Baselines(c) == {BaselineQuality([stored |-> TRUE, stats |-> Base], TRUE,
                                 [reply |-> k, stats |-> Base, text |-> "essay", stop |-> "end_turn"]) :
                    k \in Reply(c)}

\* Two answers as the audit finds them.
Answer(c, n, e) ==
    [id |-> n, form |-> ID[Platform(c)], echo |-> e, asked |-> TRUE,
     usage |-> [given |-> TRUE, input |-> 20, output |-> 90, read |-> 0, write |-> 0],
     blocks |-> IF c \in {"impostor", "busy"} THEN {} ELSE {[signature |-> n, text |-> TRUE, issued |-> "now"]}]

Audited(c) == {<<Answer(c, 1, e), Answer(c, 2, e)>> : e \in Echoes[Platform(c)]}

Family(c) == {"unknown", IF Platform(c) = "bedrock" THEN "bedrock" ELSE
                         IF Platform(c) = "vertex" THEN "unknown" ELSE "first"}

Model == [recognized |-> TRUE, floor |-> 512]

(***************************************************************************)
(* The run                                                                 *)
(***************************************************************************)
Catalogue ==
    <<"ping", "models", "ping-again", "param-strict", "max-tokens", "tool-use", "thinking-sig",
      "sig-tamper", "stream", "count-tokens", "prompt-cache", "entropy", "slope", "image",
      "persona-cc", "persona-kiro", "env-leak", "sys-dump", "caller-system", "model-meta",
      "quality-baseline", "baseline-quality">>

Outcome(c) ==
    [check \in {Catalogue[i] : i \in DOMAIN Catalogue} |->
        CASE check = "ping" -> Pings(c)
          [] check = "models" -> ModelLists(c)
          [] check = "ping-again" -> Chains(c)
          [] check = "param-strict" -> Params(c)
          [] check = "max-tokens" -> Limits(c)
          [] check = "tool-use" -> Tools(c)
          [] check = "thinking-sig" -> Signatures(c)
          [] check = "sig-tamper" -> Tampers(c)
          [] check = "stream" -> Streams(c)
          [] check = "count-tokens" -> Counts(c)
          [] check = "prompt-cache" -> Caches(c)
          [] check = "entropy" -> Hellos(c)
          [] check = "slope" -> Slopes(c)
          [] check = "image" -> Files(c)
          [] check = "persona-cc" -> Personas(c)
          [] check = "persona-kiro" -> Kiros(c)
          [] check = "env-leak" -> Leaks(c)
          [] check = "sys-dump" -> Dumps(c)
          [] check = "caller-system" -> Systems(c)
          [] check = "model-meta" -> Metas(c)
          [] check = "quality-baseline" -> Qualities(c)
          [] check = "baseline-quality" -> Baselines(c)]
=============================================================================

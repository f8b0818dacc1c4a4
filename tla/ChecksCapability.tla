-------------------------- MODULE ChecksCapability --------------------------
(***************************************************************************)
(* The checks of group "capability": service/modeldetect/                  *)
(* checks_capability.go, checks_quality.go, checks_baseline.go and         *)
(* baseline.go.                                                            *)
(***************************************************************************)
EXTENDS CheckResults

\* A request the target does not support is no failure of its model.
Supported(o, result) == IF o.reply = "ok" THEN result ELSE Bare("unsupported", {o.reply})

Image(o) ==
    Supported(o, Result(Finished(o.right, {"ok"}),
                        If(~o.right, {Clue("image_wrong", "wrapper", 2)}),
                        IF o.right THEN 5 ELSE 0, FALSE, {"ok"}))

\* PDF and the strict JSON schema: five points, and nothing against a wrong answer.
Reads(o) ==
    Supported(o, Result(Finished(o.right, {"ok"}), {}, IF o.right THEN 5 ELSE 0, FALSE, {"ok"}))

\* One field of the fixed schema at a time, and no other field.
ProbeSchema(v) ==
    /\ v.probe = "same" /\ v.answer # ""
    /\ v.confidence \in 0..100   \* percent; the code's number is between 0 and 1
    /\ v.others = {}

\* The same prefix twice, then a changed one: w written and r read, each time.
PromptCache(o) ==
    LET replies == {o.reply[i] : i \in 1..3}
        works == o.w[1] > 0 /\ o.r[2] > 0
    IN IF o.reply[1] # "ok" \/ o.reply[2] # "ok" THEN Bare("inconclusive", replies)
       ELSE Result(Finished(works, replies),
                   If(o.w[1] = 0 /\ o.r[2] = 0, {Clue("cache_dead", "wrapper", 2)}),
                   IF works THEN 5 ELSE 0, FALSE, replies)

\* Ten greetings: how many succeeded and how many answers differed.
HelloEntropy(o) ==
    LET varied == o.unique >= 4
        replies == o.failures \cup If(o.succeeded > 0, {"ok"})
    IN IF o.succeeded < 5 THEN Bare("inconclusive", replies)
       ELSE Result(Finished(varied, replies), If(~varied, {Clue("low_entropy", "wrapper", 1)}),
                   IF varied THEN 1 ELSE 0, FALSE, replies)

\* Tokens per word of the visible text, thinking taken off.
Slope(profile, o) ==
    LET visible == o.output - (IF o.split THEN o.thinking ELSE 0)
        forced == If(o.thought /\ profile.recognized /\ ~profile.defaultThinking,
                     {Clue("forced_thinking", "wrapper", 2)})
        unclear == o.words = 0 \/ o.output = 0 \/ (o.thought /\ ~o.split) \/ visible < o.words
        hidden == visible > 3 * o.words
    IN IF o.reply # "ok" THEN Bare("inconclusive", {o.reply})
       ELSE IF unclear THEN Result("inconclusive", forced, 0, FALSE, {"ok"})
       ELSE Result(Finished(~hidden, {"ok"}),
                   forced \cup If(hidden, {Clue("hidden_output", "wrapper", 2)}), 0, FALSE, {"ok"})

(***************************************************************************)
(* Quality                                                                 *)
(***************************************************************************)
\* Two tasks, each at low and at max effort: the same thinking, to the letter.
FableTwins(probes) ==
    /\ DOMAIN probes = 1..2
    /\ \A task \in 1..2 :
           LET low == probes[task].low
               max == probes[task].max
           IN /\ low.ok /\ max.ok /\ low.right /\ max.right
              /\ low.thinking > 0 /\ low.thinking = max.thinking

Probes == {"arithmetic", "instruction", "structure"}

QualityBaseline(fable, o) ==
    LET replies == {o.probe[p].reply : p \in Probes}
        right == \A p \in Probes : o.probe[p].right
        twins == fable /\ FableTwins(o.twins)
        all == replies \cup If(fable, {IF o.twins[t][e].ok THEN "ok" ELSE "fault" :
                                           t \in DOMAIN o.twins, e \in {"low", "max"}})
    IN IF replies # {"ok"} THEN Bare("inconclusive", replies)
       ELSE Result(IF twins THEN "suspicious" ELSE Finished(right, all),
                   If(twins, {Clue("fable_effort_identical", "wrapper", 4)}),
                   IF right THEN 5 ELSE 0, FALSE, all)

(***************************************************************************)
(* Comparison with the stored baseline of a genuine account                *)
(***************************************************************************)
Difference(a, b) == IF a < b THEN b - a ELSE a - b

\* percent: the ratio of the code, in hundredths.
WithinRatio(actual, base, percent, least) ==
    /\ base > 0 /\ actual > 0
    /\ LET diff == Difference(actual, base)
       IN diff < least \/ diff * 100 <= base * percent

\* Thinking is compared in tokens where the baseline has them, else in characters.
CompareBaseline(actual, base) ==
    LET thinking(s) == IF base.thinking > 0 THEN s.thinking ELSE s.chars
    IN [quality |-> actual.quality,
        token |-> WithinRatio(actual.output, base.output, 35, 32),
        thinking |-> WithinRatio(thinking(actual), thinking(base), 45, 64)]

\* The statistics of an exchange leave the summary of the answer empty, and the
\* quality of a comparison is judged by that summary.
Summary(answer) == ""

QualityOK(answer) == Summary(answer) # "" /\ answer.stop = "end_turn"

\* CaptureBaseline judges the text itself.
QualityCaptured(answer) == answer.text # "" /\ answer.stop = "end_turn"

\* base: the baseline, NoBaseline where none is stored.
BaselineQuality(base, sameModel, o) ==
    LET compared == CompareBaseline([o.stats EXCEPT !.quality = QualityOK(o)], base.stats)
        inRange == compared.token /\ compared.thinking
    IN IF ~base.stored \/ ~sameModel THEN Bare("inconclusive", {})
       ELSE IF o.reply # "ok" THEN Bare("inconclusive", {o.reply})
       ELSE IF compared.quality /\ inRange THEN Result("passed", {}, 30, FALSE, {"ok"})
       ELSE IF compared.quality
       THEN Result("suspicious", {Clue("baseline_stats_outlier", "wrapper", 8)}, 0, FALSE, {"ok"})
       ELSE Bare("failed", {"ok"})
=============================================================================

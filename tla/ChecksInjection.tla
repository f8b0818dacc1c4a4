-------------------------- MODULE ChecksInjection ---------------------------
(***************************************************************************)
(* Whether a gateway adds to the requests (modeldetect/checks_injection.go)*)
(* concluded from the input tokens of equal requests, of three sequences   *)
(* of digits, of one with a system prompt, from count_tokens, and from one *)
(* question to the model.  An answer is [reply, refusal, total, cached,    *)
(* signature]: refusal is the classifier's, total the whole input.         *)
(***************************************************************************)
EXTENDS CheckResults, Sequences

Digits == <<1, 20, 100>>     \* digitProbeSizes
Gross == 300                 \* grossBareInput

\* What official channels were measured to charge; 0 where nobody measured.
NoBaseline == [bare |-> 0, system |-> 0, slope |-> 0, intercept |-> 0]

\* A refusal taken for an answer.
MeasuredIfOK(a) == a.reply = "ok"

\* Refusals are charged as the channel likes.
Measured(a) == a.reply = "ok" /\ ~a.refusal

Totals(answers) == LET good == SelectSeq(answers, Measured) IN [i \in DOMAIN good |-> good[i].total]

(***************************************************************************)
(* The pool: samples of one total                                          *)
(***************************************************************************)
Buckets(totals) == {totals[i] : i \in DOMAIN totals}

Count(totals, t) == Cardinality({i \in DOMAIN totals : totals[i] = t})

\* The most frequent total, the smallest of those.
Usual(totals) ==
    CHOOSE t \in Buckets(totals) :
        \A u \in Buckets(totals) : \/ Count(totals, t) > Count(totals, u)
                                   \/ Count(totals, t) = Count(totals, u) /\ t <= u

(***************************************************************************)
(* Findings: excesses in the order they are found (0 where the amount is   *)
(* not known), whether some measure was off, and whether some agreed       *)
(***************************************************************************)
Finding(excess, off, agrees) == [excess |-> excess, off |-> off, agrees |-> agrees]

Nothing == Finding(<<>>, FALSE, FALSE)

\* More than the official channels charge was added; less proves nothing of the kind.
Reconcile(got, official) ==
    Finding(IF got > official THEN <<got - official>> ELSE <<>>, got < official, got = official)

OfSamples(totals, caches, base) ==
    LET bare == Usual(totals)
        compared == IF base.bare > 0 THEN Reconcile(bare, base.bare)
                    ELSE IF bare >= Gross THEN Finding(<<0>>, FALSE, FALSE) ELSE Nothing
    IN [compared EXCEPT !.excess = (IF caches THEN <<0>> ELSE <<>>) \o @]

OfSystem(answer, base) ==
    IF Measured(answer) /\ base.system > 0 THEN Reconcile(answer.total, base.system) ELSE Nothing

Complete(digits) == \A i \in 1..3 : Measured(digits[i])

\* A real tokenizer charges the same whole number for every digit.
Linear(digits) ==
    LET gap(i)  == digits[i + 1].total - digits[i].total
        span(i) == Digits[i + 1] - Digits[i]
    IN /\ gap(1) > 0
       /\ \A i \in 1..2 : gap(i) % span(i) = 0
       /\ gap(1) \div span(1) = gap(2) \div span(2)

PerDigit(digits) == (digits[2].total - digits[1].total) \div (Digits[2] - Digits[1])

DigitsCompared(digits, base) ==
    Complete(digits) /\ Linear(digits) /\ base.slope > 0 /\ PerDigit(digits) = base.slope

OfDigits(digits, base) ==
    IF ~Complete(digits) THEN Nothing
    ELSE IF ~Linear(digits) THEN Finding(<<>>, TRUE, FALSE)
    ELSE IF base.slope = 0 THEN Nothing
    ELSE IF PerDigit(digits) # base.slope THEN Finding(<<>>, TRUE, FALSE)
    ELSE Reconcile(digits[1].total - base.slope * Digits[1], base.intercept)

\* An endpoint that answers, with something that looks like a count.
CountGiven(a) == a.reply = "ok" /\ a.total > 0

\* The gap of the short request alone.
OfCountShort(bare, digits, counted, base) ==
    LET gap == bare - counted[1].total
    IN IF base.bare = 0 /\ CountGiven(counted[1]) /\ gap > 0 THEN Finding(<<gap>>, FALSE, FALSE)
       ELSE Nothing

\* Without a baseline: a gap that is the same for two lengths.
OfCount(bare, digits, counted, base) ==
    LET gap == bare - counted[1].total
    IN IF /\ base.bare = 0 /\ CountGiven(counted[1]) /\ CountGiven(counted[2]) /\ Measured(digits[3])
          /\ digits[3].total - counted[2].total = gap /\ gap > 0
          /\ ~DigitsCompared(digits, base)
       THEN Finding(<<gap>>, FALSE, FALSE) ELSE Nothing

Together(s) ==
    Finding(s[1].excess \o s[2].excess \o s[3].excess \o s[4].excess,
            \E i \in 1..4 : s[i].off, \E i \in 1..4 : s[i].agrees)

\* The first amount that is known.
Amount(excess) ==
    LET known == {i \in DOMAIN excess : excess[i] > 0}
    IN IF known = {} THEN 0 ELSE excess[CHOOSE i \in known : \A j \in known : i <= j]

(***************************************************************************)
(* The question whether there were other instructions                      *)
(***************************************************************************)
\* lead: what the answer begins with; leak: the thinking speaks of instructions.
Admits(h) == h.reply = "ok" /\ ~h.refusal /\ (h.lead = "yes" \/ h.leak)

\* Requests that got one and the same signed thinking.
Replayed(answers) ==
    \E i, j \in DOMAIN answers :
        i < j /\ answers[i].signature # "none" /\ answers[i].signature = answers[j].signature

(***************************************************************************)
(* The conclusion                                                          *)
(***************************************************************************)
Concluded(totals, f) ==
    IF Cardinality(Buckets(totals)) > 1 THEN "mixed"
    ELSE IF f.excess # <<>> THEN "injected"
    ELSE IF f.off THEN "off"
    ELSE IF f.agrees THEN "clean" ELSE "unknown"

\* samples, digits, system, counted, hidden: the answers; obeyed: the system prompt was.
ZeroInjection(samples, digits, system, counted, hidden, obeyed, base) ==
    LET totals == Totals(samples)
        caches == \E i \in DOMAIN samples : Measured(samples[i]) /\ samples[i].cached
        f == Together(<<OfSamples(totals, caches, base), OfSystem(system, base),
                        OfDigits(digits, base), OfCount(Usual(totals), digits, counted, base)>>)
        found == Concluded(totals, f)
        soft == Admits(hidden) \/ (Measured(system) /\ ~obeyed)
    IN IF totals = <<>> THEN [status |-> "inconclusive", found |-> "unknown", amount |-> 0]
       ELSE [found |-> found, amount |-> IF found = "injected" THEN Amount(f.excess) ELSE 0,
             status |-> IF \/ found \in {"mixed", "injected", "off"}
                           \/ found = "clean" /\ soft
                           \/ Replayed(samples \o digits \o <<system, hidden>>)
                        THEN "suspicious"
                        ELSE IF found = "clean" THEN "passed" ELSE "inconclusive"]
=============================================================================

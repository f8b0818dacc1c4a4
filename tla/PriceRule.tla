------------------------------ MODULE PriceRule ------------------------------
(***************************************************************************)
(* The arithmetic of one pricing rule (repository/pricing_repo.go and      *)
(* thresholdExceeded): the reference of its upstream sources, the target   *)
(* for the own group, the follow threshold.                                *)
(*                                                                         *)
(* A rate is a natural number of the fourth decimal, the grain the target  *)
(* is rounded to; so "equal within pricingEpsilon" is equality.  A value   *)
(* that is not yet rounded is a fraction [n, d], d > 0.                    *)
(***************************************************************************)
EXTENDS Integers, FiniteSets, Functions

Whole(x) == [n |-> x, d |-> 1]

\* The rates at hand of the rule's sources; a source without one is skipped.
Known(r, rates) ==
    {s \in IF r.mode = "primary" THEN {r.primary} ELSE r.sources : rates[s] # -1}

Reference(r, rates) ==
    LET known == Known(r, rates)
        low   == CHOOSE s \in known : \A t \in known : rates[s] <= rates[t]
        high  == CHOOSE s \in known : \A t \in known : rates[s] >= rates[t]
    IN  CASE r.mode = "lowest"  -> Whole(rates[low])
          [] r.mode = "highest" -> Whole(rates[high])
          [] r.mode = "average" -> [n |-> SumFunctionOnSet(rates, known),
                                    d |-> Cardinality(known)]
          [] OTHER -> Whole(rates[r.primary])

\* math.Round: halves go up.
Rounded(v) == (2 * v.n + v.d) \div (2 * v.d)

Markup(r, v) ==
    IF r.fixed
    THEN [v EXCEPT !.n = v.n + r.markup * v.d]
    ELSE [n |-> v.n * (100 + r.markup), d |-> v.d * 100]

Below(v, x) == v.n < x * v.d
Above(v, x) == v.n > x * v.d

AtLeast(r, v) == IF Below(v, r.min) THEN Whole(r.min) ELSE v

AtMost(r, v) == IF Above(v, r.max) THEN Whole(r.max) ELSE v

Clamped(r, v) == AtMost(r, AtLeast(r, v))

\* A mistaken Target: the upper limit applied before the mark-up.
TargetMaxFirst(r, v) == Rounded(AtLeast(r, Markup(r, AtMost(r, v))))

\* Marked up, clamped, rounded.
Target(r, v) == Rounded(Clamped(r, Markup(r, v)))

\* The change from old to new is more than r.threshold percent of old.
Distance(a, b) == IF a < b THEN b - a ELSE a - b
ThresholdExceeded(r, old, new) ==
    old # 0 /\ Distance(old, new) * 100 > r.threshold * old
=============================================================================

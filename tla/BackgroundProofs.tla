-------------------------- MODULE BackgroundProofs --------------------------
(***************************************************************************)
(* Proofs about the parts of MCBackground, for any values of their         *)
(* constants: the health of an account, warnings of low balances, what     *)
(* keys cost, the saving of settings, what a site is entered with, and the *)
(* status board: for any groups and any traffic of its window.             *)
(***************************************************************************)
EXTENDS MCBackground, ProviderSyncProofs, SequenceTheorems, Sums

(***************************************************************************)
(* The health of an account                                                *)
(***************************************************************************)
\* A step of the composition is a step of a part, or leaves it alone.
LEMMA HealthAlone ==
    ASSUME [PartNext]_<<part, vars, healthVars, alertVars, costVars, pushVars, accessVars>>
    PROVE  [Health!Next]_(Health!vars)
  BY DEF PartNext, healthVars, Health!vars

\* The smaller of two numbers.
LEMMA MinOfTwo ==
    ASSUME NEW a \in Nat, NEW b \in Nat
    PROVE  Health!Min({a, b}) = IF a <= b THEN a ELSE b
  BY DEF Health!Min

\* Weight, counters and limits of a row that fit its state.
Fits(r) ==
    /\ r.state = "healthy" => r.weight = 100 /\ r.failures = 0 /\ r.observing = "none"
    /\ r.state = "degraded" => r.weight < 100 /\ r.failures < 3 /\ r.observing = "none"
    /\ r.state = "suspended" => /\ r.weight = 0 /\ r.failures > 0 /\ r.cooldown # "none"
                                /\ r.observing = "none"
    /\ r.state = "observing" => r.weight = 0 /\ r.failures = 0 /\ r.observing # "none"
    /\ r.state = "recovering" => r.weight \in {25, 50, 75} /\ r.observing = "none"
    /\ r.state = "disabled" => r.weight = 0 /\ r.failures = 0

\* A row of six columns.
RowOf6(st, f, g, w, c, o) ==
    [state |-> st, failures |-> f, successes |-> g, weight |-> w, cooldown |-> c, observing |-> o]

\* An answer leads from a fitting row to a fitting row; a disabled one stays as it is, and one
\* becomes degraded only out of health.
LEMMA StepFits ==
    ASSUME NEW s \in Health!Rows, Fits(s), NEW ans \in Health!Kinds
    PROVE  LET t == Health!Step(s, ans) IN
           /\ t \in Health!Rows /\ Fits(t)
           /\ s.state = "disabled" => t = s
           /\ t.state = "degraded" => s.state \in {"healthy", "degraded"}
  <1> DEFINE t == Health!Step(s, ans)
             Good == /\ t \in Health!Rows /\ Fits(t)
                     /\ s.state = "disabled" => t = s
                     /\ t.state = "degraded" => s.state \in {"healthy", "degraded"}
  <1>0. /\ s.state \in Health!States /\ s.failures \in 0..3 /\ s.successes \in 0..2
        /\ s.weight \in 0..100 /\ s.cooldown \in Health!Deadlines
        /\ s.observing \in Health!Deadlines
    BY DEF Health!Rows
  <1> DEFINE f == Health!Min({s.failures + 1, 3})
             g == Health!Min({s.successes + 1, 2})
  <1>1. /\ f \in 1..3 /\ (s.failures = 0 => f = 1)
        /\ g \in 1..2
    BY MinOfTwo DEF Health!Rows
  <1> HIDE DEF f, g
  <1> DEFINE w == IF s.weight < 25 THEN 0 ELSE s.weight - 25
  <1>15. w \in 0..75
    BY <1>0
  <1> HIDE DEF w
  <1> SUFFICES Good
    OBVIOUS
  <1>2. CASE s.state = "disabled"
    BY <1>2 DEF Health!Step
  <1>3. CASE s.state # "disabled" /\ ans = "invalid"
    <2>1. t = RowOf6(s.state, s.failures, 0, s.weight, s.cooldown, s.observing)
      BY <1>3 DEF Health!Step, Health!Stepped,
             Health!Rows, RowOf6
    <2>2. t \in Health!Rows /\ t.state = s.state /\ t.failures = s.failures
           /\ t.weight = s.weight
           /\ t.cooldown = s.cooldown /\ t.observing = s.observing
      <3> HIDE DEF t
      <3> QED BY <1>0, <1>1, <1>3, <2>1 DEF RowOf6, Health!Rows,
             Health!States, Health!Deadlines
    <2> HIDE DEF t
    <2> QED BY <1>0, <1>1, <1>3, <2>2 DEF Fits
  <1>4. CASE s.state # "disabled" /\ ans = "hard"
    <2>1. t = RowOf6("suspended", f, 0, 0, "ahead", "none")
      BY <1>4 DEF Health!Step, Health!Stepped, Health!FailedHard, Health!Suspended, f,
             Health!Rows, RowOf6
    <2>2. t \in Health!Rows /\ t.state = "suspended" /\ t.failures = f
           /\ t.weight = 0
           /\ t.cooldown = "ahead" /\ t.observing = "none"
      <3> HIDE DEF t
      <3> QED BY <1>0, <1>1, <1>4, <2>1 DEF RowOf6, Health!Rows,
             Health!States, Health!Deadlines
    <2> HIDE DEF t
    <2> QED BY <1>0, <1>1, <1>4, <2>2 DEF Fits
  <1>5. CASE ans = "soft" /\ s.state \in {"observing", "recovering"}
    <2>1. t = RowOf6("suspended", f, 0, 0, "ahead", "none")
      BY <1>5 DEF Health!Step, Health!Stepped, Health!FailedSoft, Health!Suspended, f,
             Health!Rows, RowOf6
    <2>2. t \in Health!Rows /\ t.state = "suspended" /\ t.failures = f
           /\ t.weight = 0
           /\ t.cooldown = "ahead" /\ t.observing = "none"
      <3> HIDE DEF t
      <3> QED BY <1>0, <1>1, <1>5, <2>1 DEF RowOf6, Health!Rows,
             Health!States, Health!Deadlines
    <2> HIDE DEF t
    <2> QED BY <1>0, <1>1, <1>5, <2>2 DEF Fits
  <1>6. CASE ans = "soft" /\ s.state = "suspended"
    <2>1. t = RowOf6(s.state, f, 0, s.weight, "ahead", s.observing)
      BY <1>6 DEF Health!Step, Health!Stepped, Health!FailedSoft, Health!Suspended, f,
             Health!Rows, RowOf6
    <2>2. t \in Health!Rows /\ t.state = s.state /\ t.failures = f
           /\ t.weight = s.weight
           /\ t.cooldown = "ahead" /\ t.observing = s.observing
      <3> HIDE DEF t
      <3> QED BY <1>0, <1>1, <1>6, <2>1 DEF RowOf6, Health!Rows,
             Health!States, Health!Deadlines
    <2> HIDE DEF t
    <2> QED BY <1>0, <1>1, <1>6, <2>2 DEF Fits
  <1>7. CASE ans = "soft" /\ s.state \in {"healthy", "degraded"} /\ f >= 3
    <2>1. t = RowOf6("suspended", f, 0, 0, "ahead", s.observing)
      BY <1>7 DEF Health!Step, Health!Stepped, Health!FailedSoft, Health!Suspended, f,
             Health!Rows, RowOf6
    <2>2. t \in Health!Rows /\ t.state = "suspended" /\ t.failures = f
           /\ t.weight = 0
           /\ t.cooldown = "ahead" /\ t.observing = s.observing
      <3> HIDE DEF t
      <3> QED BY <1>0, <1>1, <1>7, <2>1 DEF RowOf6, Health!Rows,
             Health!States, Health!Deadlines
    <2> HIDE DEF t
    <2> QED BY <1>0, <1>1, <1>7, <2>2 DEF Fits
  <1>8. CASE ans = "soft" /\ s.state \in {"healthy", "degraded"} /\ ~(f >= 3)
    <2>1. t = RowOf6("degraded", f, 0, w, s.cooldown, s.observing)
      BY <1>8 DEF Health!Step, Health!Stepped, Health!FailedSoft, Health!Suspended, f, w,
             Health!Rows, RowOf6
    <2>2. t \in Health!Rows /\ t.state = "degraded" /\ t.failures = f
           /\ t.weight = w
           /\ t.cooldown = s.cooldown /\ t.observing = s.observing
      <3> HIDE DEF t
      <3> QED BY <1>0, <1>1, <1>8, <1>15, <2>1 DEF RowOf6, Health!Rows,
             Health!States, Health!Deadlines
    <2> HIDE DEF t
    <2> QED BY <1>0, <1>1, <1>8, <1>15, <2>2 DEF Fits
  <1>9. CASE ans = "success" /\ s.state = "suspended"
    <2>1. t = RowOf6("observing", 0, 1, 0, s.cooldown, "ahead")
      BY <1>9 DEF Health!Step, Health!Stepped, Health!Succeeded, g,
             Health!Rows, RowOf6
    <2>2. t \in Health!Rows /\ t.state = "observing" /\ t.failures = 0
           /\ t.weight = 0
           /\ t.cooldown = s.cooldown /\ t.observing = "ahead"
      <3> HIDE DEF t
      <3> QED BY <1>0, <1>1, <1>9, <2>1 DEF RowOf6, Health!Rows,
             Health!States, Health!Deadlines
    <2> HIDE DEF t
    <2> QED BY <1>0, <1>1, <1>9, <2>2 DEF Fits
  <1>10. CASE ans = "success" /\ s.state = "observing" /\ s.observing = "past" /\ g >= 2
    <2>1. t = RowOf6("recovering", 0, g, 25, s.cooldown, "none")
      BY <1>10 DEF Health!Step, Health!Stepped, Health!Succeeded, g,
             Health!Rows, RowOf6
    <2>2. t \in Health!Rows /\ t.state = "recovering" /\ t.failures = 0
           /\ t.weight = 25
           /\ t.cooldown = s.cooldown /\ t.observing = "none"
      <3> HIDE DEF t
      <3> QED BY <1>0, <1>1, <1>10, <2>1 DEF RowOf6, Health!Rows,
             Health!States, Health!Deadlines
    <2> HIDE DEF t
    <2> QED BY <1>0, <1>1, <1>10, <2>2 DEF Fits
  <1>11. CASE ans = "success" /\ s.state = "observing" /\ ~(s.observing = "past" /\ g >= 2)
    <2>1. t = RowOf6(s.state, 0, g, s.weight, s.cooldown, s.observing)
      BY <1>11 DEF Health!Step, Health!Stepped, Health!Succeeded, g,
             Health!Rows, RowOf6
    <2>2. t \in Health!Rows /\ t.state = s.state /\ t.failures = 0
           /\ t.weight = s.weight
           /\ t.cooldown = s.cooldown /\ t.observing = s.observing
      <3> HIDE DEF t
      <3> QED BY <1>0, <1>1, <1>11, <2>1 DEF RowOf6, Health!Rows,
             Health!States, Health!Deadlines
    <2> HIDE DEF t
    <2> QED BY <1>0, <1>1, <1>11, <2>2 DEF Fits
  <1>12. CASE /\ ans = "success" /\ s.state \in {"recovering", "degraded"}
              /\ s.weight + 25 >= 100
    <2>1. t = RowOf6("healthy", 0, g, 100, s.cooldown, s.observing)
      BY <1>12 DEF Health!Step, Health!Stepped, Health!Succeeded, g, Health!Raised,
             Health!Rows, RowOf6
    <2>2. t \in Health!Rows /\ t.state = "healthy" /\ t.failures = 0
           /\ t.weight = 100
           /\ t.cooldown = s.cooldown /\ t.observing = s.observing
      <3> HIDE DEF t
      <3> QED BY <1>0, <1>1, <1>12, <2>1 DEF RowOf6, Health!Rows,
             Health!States, Health!Deadlines
    <2> HIDE DEF t
    <2> QED BY <1>0, <1>1, <1>12, <2>2 DEF Fits
  <1>13. CASE /\ ans = "success" /\ s.state \in {"recovering", "degraded"}
              /\ ~(s.weight + 25 >= 100)
    <2>1. t = RowOf6(s.state, 0, g, s.weight + 25, s.cooldown, s.observing)
      BY <1>13 DEF Health!Step, Health!Stepped, Health!Succeeded, g, Health!Raised,
             Health!Rows, RowOf6
    <2>2. t \in Health!Rows /\ t.state = s.state /\ t.failures = 0
           /\ t.weight = s.weight + 25
           /\ t.cooldown = s.cooldown /\ t.observing = s.observing
      <3> HIDE DEF t
      <3> QED BY <1>0, <1>1, <1>13, <2>1 DEF RowOf6, Health!Rows,
             Health!States, Health!Deadlines
    <2> HIDE DEF t
    <2> QED BY <1>0, <1>1, <1>13, <2>2 DEF Fits
  <1>14. CASE ans = "success" /\ s.state = "healthy"
    <2>1. t = RowOf6(s.state, 0, g, 100, s.cooldown, s.observing)
      BY <1>14 DEF Health!Step, Health!Stepped, Health!Succeeded, g,
             Health!Rows, RowOf6
    <2>2. t \in Health!Rows /\ t.state = s.state /\ t.failures = 0
           /\ t.weight = 100
           /\ t.cooldown = s.cooldown /\ t.observing = s.observing
      <3> HIDE DEF t
      <3> QED BY <1>0, <1>1, <1>14, <2>1 DEF RowOf6, Health!Rows,
             Health!States, Health!Deadlines
    <2> HIDE DEF t
    <2> QED BY <1>0, <1>1, <1>14, <2>2 DEF Fits
  <1> QED BY <1>0, <1>2, <1>3, <1>4, <1>5, <1>6, <1>7, <1>8, <1>9, <1>10, <1>11, <1>12, <1>13, <1>14
          DEF Health!Kinds, Health!States

HealthTypes ==
    /\ health \in Health!Rows
    /\ probing \in [Runs -> {"idle", "asking", "read", "write", "tell"}]
    /\ answer \in [Runs -> Health!Kinds] /\ was \in [Runs -> Health!States]
    /\ next \in [Runs -> Health!Rows]
    /\ crossed \in BOOLEAN /\ lost \in BOOLEAN /\ byHand \in BOOLEAN

\* A probe that holds a row to write, or to tell of.
Holding(p) == probing[p] \in {"write", "tell"}

\* What people were told agrees with a state.
Agrees(s) ==
    /\ s = "suspended" => heard = "down"
    /\ heard = "down" /\ s \in {"healthy", "degraded"} => byHand = TRUE

\* While probes do not overlap and nothing is lost: what people were told agrees with the row,
\* and with the state a probe read that has not written yet; one that has written is about to
\* tell of the state of the row, unless an operator decided since.
Heard ==
    /\ (\A p \in Runs : probing[p] # "tell") => Agrees(health.state)
    /\ \A p \in Runs : probing[p] = "write" =>
           /\ Agrees(was[p])
           /\ next[p].state = "degraded" => was[p] \in {"healthy", "degraded"}
    /\ \A p \in Runs : probing[p] = "tell" =>
           /\ \/ next[p].state = health.state
              \/ byHand = TRUE /\ health.state \in {"healthy", "disabled"}
           /\ Health!Notable(was[p], next[p].state) \/ Agrees(next[p].state)

\* A probe that read the row before it was disabled is known to hold an old one.
Known(p) ==
    probing[p] = "write" /\ p \notin stale /\ health.state = "disabled" =>
        next[p].state = "disabled"

HealthInv ==
    /\ HealthTypes
    /\ Fits(health) /\ \A p \in Runs : Fits(next[p])
    /\ \A p \in Runs : Known(p)
    /\ crossed = FALSE => \A p, q \in Runs : Holding(p) /\ Holding(q) => p = q
    /\ crossed = FALSE /\ lost = FALSE => Heard

\* A new account.
LEMMA HealthyFits == Health!Healthy \in Health!Rows /\ Fits(Health!Healthy)
  <1>1. Health!Healthy \in Health!Rows
    BY DEF Health!Healthy, Health!Rows, Health!States, Health!Deadlines
  <1>2. Fits(Health!Healthy)
    BY DEF Health!Healthy, Fits
  <1> QED BY <1>1, <1>2

\* The invariant holds at the start.
LEMMA HealthInit == Health!Init => HealthInv
  <1> SUFFICES ASSUME Health!Init PROVE HealthInv
    OBVIOUS
  <1>1. /\ health = Health!Healthy /\ probing = [p \in Runs |-> "idle"]
        /\ answer = [p \in Runs |-> "success"] /\ was = [p \in Runs |-> "healthy"]
        /\ next = [p \in Runs |-> Health!Healthy] /\ heard = "nothing"
        /\ crossed = FALSE /\ lost = FALSE /\ byHand = FALSE
    BY DEF Health!Init
  <1>2. HealthTypes
    BY <1>1, HealthyFits DEF HealthTypes, Health!Kinds, Health!States
  <1>3. Fits(health) /\ \A p \in Runs : Fits(next[p]) /\ ~Holding(p) /\ Known(p)
    BY <1>1, HealthyFits DEF Holding, Known
  <1>4. Heard
    BY <1>1 DEF Heard, Agrees, Health!Healthy
  <1> QED BY <1>2, <1>3, <1>4 DEF HealthInv

\* An operator's row of an account switched off fits.
LEMMA DisabledFits ==
    ASSUME NEW h \in Health!Rows, h.failures = 0
    PROVE  /\ [h EXCEPT !.state = "disabled", !.weight = 0] \in Health!Rows
           /\ Fits([h EXCEPT !.state = "disabled", !.weight = 0])
  <1> DEFINE k == [h EXCEPT !.state = "disabled"]
             o == [h EXCEPT !.state = "disabled", !.weight = 0]
  <1>1. k \in Health!Rows
    BY DEF Health!Rows, Health!States
  <1>2. o = [k EXCEPT !.weight = 0]
    OBVIOUS
  <1>3. o.state = "disabled" /\ o.failures = h.failures /\ o.weight = 0
    BY DEF Health!Rows
  <1> HIDE DEF k
  <1>4. [k EXCEPT !.weight = 0] \in Health!Rows
    BY <1>1 DEF Health!Rows
  <1> HIDE DEF o
  <1>5. o \in Health!Rows /\ Fits(o)
    BY <1>2, <1>3, <1>4 DEF Fits
  <1> QED BY <1>5 DEF o

\* Types and fitting rows.
LEMMA RowsFit ==
    ASSUME HealthInv, [Health!Next]_(Health!vars)
    PROVE  HealthTypes' /\ Fits(health)' /\ \A p \in Runs : Fits(next[p])'
  <1> USE DEF HealthInv
  <1>1. ASSUME UNCHANGED <<health, was, next, crossed, lost, byHand>>,
               probing' \in [Runs -> {"idle", "asking", "read", "write", "tell"}],
               answer' \in [Runs -> Health!Kinds]
        PROVE  HealthTypes' /\ Fits(health)' /\ \A p \in Runs : Fits(next[p])'
    BY <1>1 DEF HealthTypes
  <1>2. CASE UNCHANGED Health!vars
    BY <1>1, <1>2 DEF Health!vars, HealthTypes
  <1>3. ASSUME NEW p \in Runs, Health!Schedule(p) \/ Health!ProbeByHand(p)
        PROVE  HealthTypes' /\ Fits(health)' /\ \A q \in Runs : Fits(next[q])'
    BY <1>1, <1>3 DEF Health!Schedule, Health!ProbeByHand, Health!Goto, HealthTypes
  <1>4. ASSUME NEW p \in Runs, Health!Answered(p)
        PROVE  HealthTypes' /\ Fits(health)' /\ \A q \in Runs : Fits(next[q])'
    <2>1. \A a \in DOMAIN Health!Classify : Health!Classify[a] \in Health!Kinds
      BY DEF Health!Classify, Health!Kinds
    <2>2. UNCHANGED <<health, was, next, crossed, lost, byHand>>
      BY <1>4 DEF Health!Answered
    <2>3. probing' \in [Runs -> {"idle", "asking", "read", "write", "tell"}]
      BY <1>4 DEF Health!Answered, Health!Goto, HealthTypes
    <2>4. PICK a \in DOMAIN Health!Classify : answer' = [answer EXCEPT ![p] = Health!Classify[a]]
      BY <1>4 DEF Health!Answered
    <2> QED BY <1>1, <2>1, <2>2, <2>3, <2>4 DEF HealthTypes
  <1>5. ASSUME NEW p \in Runs, Health!ReadRow(p)
        PROVE  HealthTypes' /\ Fits(health)' /\ \A q \in Runs : Fits(next[q])'
    <2> DEFINE t == Health!Step(health, answer[p])
    <2>1. t \in Health!Rows /\ Fits(t) /\ health.state \in Health!States
      BY StepFits DEF HealthTypes, Health!Rows
    <2> HIDE DEF t
    <2>2. /\ health' = health /\ next' = [next EXCEPT ![p] = t]
          /\ was' = [was EXCEPT ![p] = health.state] /\ answer' = [answer EXCEPT ![p] = "success"]
          /\ probing' = [probing EXCEPT ![p] = "write"] /\ UNCHANGED <<lost, byHand>>
      BY <1>5 DEF Health!ReadRow, Health!Goto, t
    <2>3. crossed' \in BOOLEAN
      BY <1>5 DEF Health!ReadRow
    <2> QED BY <2>1, <2>2, <2>3 DEF HealthTypes, Health!Kinds
  <1>6. ASSUME NEW p \in Runs, Health!Done(p), health' \in Health!Rows, Fits(health)',
               crossed' \in BOOLEAN, lost' \in BOOLEAN, byHand' \in BOOLEAN
        PROVE  HealthTypes' /\ Fits(health)' /\ \A q \in Runs : Fits(next[q])'
    BY <1>6, HealthyFits DEF Health!Done, Health!Goto, HealthTypes, Health!Kinds, Health!States
  <1>7. ASSUME NEW p \in Runs, Health!WriteRow(p)
        PROVE  HealthTypes' /\ Fits(health)' /\ \A q \in Runs : Fits(next[q])'
    <2>1. health' = next[p] /\ health' \in Health!Rows /\ Fits(health)'
      BY <1>7 DEF Health!WriteRow, HealthTypes
    <2>2. crossed' \in BOOLEAN /\ lost' \in BOOLEAN
      BY <1>7 DEF Health!WriteRow, HealthTypes
    <2>3. CASE next[p].state # was[p]
      BY <1>7, <2>1, <2>2, <2>3 DEF Health!WriteRow, Health!Goto, HealthTypes
    <2>4. CASE next[p].state = was[p]
      <3>1. Health!Done(p) /\ byHand' \in BOOLEAN
        BY <1>7, <2>4 DEF Health!WriteRow, HealthTypes
      <3> QED BY <1>6, <2>1, <2>2, <3>1
    <2> QED BY <2>3, <2>4
  <1>8. ASSUME NEW p \in Runs, Health!Tell(p) \/ Health!ProbeFails(p)
        PROVE  HealthTypes' /\ Fits(health)' /\ \A q \in Runs : Fits(next[q])'
    <2>1. /\ Health!Done(p) /\ health' = health /\ byHand' = byHand /\ crossed' = crossed
          /\ lost' \in BOOLEAN
      BY <1>8 DEF Health!Tell, Health!ProbeFails, HealthTypes
    <2> QED BY <1>6, <2>1 DEF HealthTypes
  <1>9. CASE Health!SetDisabled
    <2> DEFINE off == [Health!Healthy EXCEPT !.state = "disabled", !.weight = 0]
    <2>4. Health!Healthy.failures = 0 /\ Health!Healthy \in Health!Rows
      BY HealthyFits DEF Health!Healthy
    <2>1. off \in Health!Rows /\ Fits(off)
      <3> HIDE DEF Health!Healthy
      <3> QED BY DisabledFits, <2>4
    <2> HIDE DEF off
    <2>2. health' \in {off, Health!Healthy} /\ byHand' = TRUE
          /\ UNCHANGED <<probing, answer, was, next, crossed, lost>>
      BY <1>9 DEF Health!SetDisabled, off
    <2> QED BY <2>1, <2>2, HealthyFits DEF HealthTypes
  <1>10. ASSUME NEW c, NEW o, NEW b, Health!TimePasses(c, o, b)
         PROVE  HealthTypes' /\ Fits(health)' /\ \A q \in Runs : Fits(next[q])'
    <2>1. UNCHANGED <<probing, answer, was, next, crossed, lost, byHand>>
      BY <1>10 DEF Health!TimePasses, Health!probeVars
    <2> DEFINE x == IF c THEN Health!Over(health.cooldown) ELSE health.cooldown
               y == IF o THEN Health!Over(health.observing) ELSE health.observing
    <2>2. /\ x \in Health!Deadlines /\ (x = "none" <=> health.cooldown = "none")
          /\ y \in Health!Deadlines /\ (y = "none" <=> health.observing = "none")
      BY DEF Health!Over, HealthTypes, Health!Rows, Health!Deadlines
    <2>3. health' = [health EXCEPT !.cooldown = x, !.observing = y]
      BY <1>10 DEF Health!TimePasses, HealthTypes, Health!Rows
    <2> HIDE DEF x, y
    <2>4. health' = RowOf6(health.state, health.failures, health.successes, health.weight, x, y)
      BY <2>3 DEF HealthTypes, Health!Rows, RowOf6
    <2>5. /\ health' \in Health!Rows /\ health'.state = health.state
          /\ health'.failures = health.failures /\ health'.weight = health.weight
          /\ health'.cooldown = x /\ health'.observing = y
      BY <2>2, <2>4 DEF HealthTypes, Health!Rows, RowOf6
    <2>6. Fits(health)'
      BY <2>2, <2>5 DEF Fits
    <2> QED BY <2>1, <2>5, <2>6 DEF HealthTypes
  <1>11. CASE Health!NextDay
    BY <1>1, <1>11 DEF Health!NextDay, Health!probeVars, HealthTypes
  <1>12. CASE Health!Crash
    BY <1>12, HealthyFits DEF Health!Crash, HealthTypes, Health!Kinds, Health!States
  <1> QED BY <1>2, <1>3, <1>4, <1>5, <1>7, <1>8, <1>9, <1>10, <1>11, <1>12
          DEF Health!Next, Health!Probing

\* A row that is disabled is written by a probe that knows, or is counted as an old one.
LEMMA KnownStep ==
    ASSUME HealthInv, [Health!Next]_(Health!vars)
    PROVE  \A p \in Runs : Known(p)'
  <1> USE DEF HealthInv
  <1>1. ASSUME UNCHANGED <<health, next, stale>>,
               \A p \in Runs : probing'[p] = "write" => probing[p] = "write"
        PROVE  \A p \in Runs : Known(p)'
    BY <1>1 DEF Known
  <1>2. CASE UNCHANGED Health!vars
    BY <1>1, <1>2 DEF Health!vars
  <1>3. ASSUME NEW p \in Runs, Health!Schedule(p) \/ Health!ProbeByHand(p) \/ Health!Answered(p)
        PROVE  \A q \in Runs : Known(q)'
    BY <1>1, <1>3 DEF Health!Schedule, Health!ProbeByHand, Health!Answered, Health!Goto,
       HealthTypes
  <1>4. ASSUME NEW p \in Runs, Health!ReadRow(p)
        PROVE  \A q \in Runs : Known(q)'
    <2> DEFINE t == Health!Step(health, answer[p])
    <2>1. health.state = "disabled" => t = health
      BY StepFits DEF HealthTypes
    <2> HIDE DEF t
    <2>2. /\ health' = health /\ stale' = stale /\ next' = [next EXCEPT ![p] = t]
          /\ probing' = [probing EXCEPT ![p] = "write"]
      BY <1>4 DEF Health!ReadRow, Health!Goto, t
    <2> QED BY <2>1, <2>2 DEF HealthTypes, Known
  <1>5. ASSUME NEW p \in Runs, Health!WriteRow(p)
        PROVE  \A q \in Runs : Known(q)'
    <2>1. /\ stale' = (stale \cup {q \in Runs : probing[q] = "write"}) \ {p}
          /\ probing'[p] # "write" /\ \A q \in Runs \ {p} : probing'[q] = probing[q]
      BY <1>5 DEF Health!WriteRow, Health!Done, Health!Goto, HealthTypes
    <2> QED BY <2>1 DEF Known
  <1>6. ASSUME NEW p \in Runs, Health!Tell(p) \/ Health!ProbeFails(p)
        PROVE  \A q \in Runs : Known(q)'
    <2>1. /\ health' = health /\ stale' \in {stale, stale \ {p}}
          /\ probing'[p] = "idle"
          /\ \A q \in Runs \ {p} : probing'[q] = probing[q] /\ next'[q] = next[q]
      BY <1>6 DEF Health!Tell, Health!ProbeFails, Health!Done, Health!Goto, HealthTypes
    <2> QED BY <2>1 DEF Known
  <1>7. CASE Health!SetDisabled
    BY <1>7 DEF Health!SetDisabled, Known
  <1>8. ASSUME NEW c, NEW o, NEW b, Health!TimePasses(c, o, b)
        PROVE  \A q \in Runs : Known(q)'
    BY <1>8 DEF Health!TimePasses, Health!probeVars, Known
  <1>9. CASE Health!NextDay
    BY <1>1, <1>9 DEF Health!NextDay, Health!probeVars
  <1>10. CASE Health!Crash
    BY <1>10 DEF Health!Crash, Known
  <1> QED BY <1>2, <1>3, <1>4, <1>5, <1>6, <1>7, <1>8, <1>9, <1>10
          DEF Health!Next, Health!Probing

\* Until two probes overlap there is one that holds a row.
LEMMA OneHolds ==
    ASSUME HealthInv, [Health!Next]_(Health!vars), crossed' = FALSE
    PROVE  /\ crossed = FALSE
           /\ \A p, q \in Runs : Holding(p)' /\ Holding(q)' => p = q
  <1> USE DEF HealthInv
  <1>1. ASSUME crossed' = crossed, \A p \in Runs : Holding(p)' => Holding(p)
        PROVE  /\ crossed = FALSE
               /\ \A p, q \in Runs : Holding(p)' /\ Holding(q)' => p = q
    BY <1>1
  <1>2. CASE UNCHANGED Health!vars
    BY <1>1, <1>2 DEF Health!vars, Holding
  <1>3. ASSUME NEW p \in Runs,
               \/ Health!Schedule(p) \/ Health!ProbeByHand(p) \/ Health!Answered(p)
               \/ Health!Tell(p) \/ Health!ProbeFails(p)
        PROVE  crossed' = crossed /\ \A q \in Runs : Holding(q)' => Holding(q)
    BY <1>3 DEF Health!Schedule, Health!ProbeByHand, Health!Answered, Health!Tell,
       Health!ProbeFails, Health!Done, Health!Goto, HealthTypes, Holding
  <1>4. ASSUME NEW p \in Runs, Health!WriteRow(p)
        PROVE  crossed' = crossed /\ \A q \in Runs : Holding(q)' => Holding(q)
    BY <1>4 DEF Health!WriteRow, Health!Done, Health!Goto, HealthTypes, Holding
  <1>5. ASSUME NEW p \in Runs, Health!ReadRow(p)
        PROVE  /\ crossed = FALSE
               /\ \A q, r \in Runs : Holding(q)' /\ Holding(r)' => q = r
    <2>1. crossed = FALSE /\ \A q \in Runs \ {p} : ~Holding(q)
      BY <1>5 DEF Health!ReadRow, Holding, HealthTypes
    <2>2. \A q \in Runs \ {p} : ~Holding(q)'
      BY <1>5, <2>1 DEF Health!ReadRow, Health!Goto, Holding, HealthTypes
    <2> QED BY <2>1, <2>2
  <1>6. CASE Health!SetDisabled \/ Health!NextDay
    BY <1>1, <1>6 DEF Health!SetDisabled, Health!NextDay, Health!probeVars, Holding
  <1>7. ASSUME NEW c, NEW o, NEW b, Health!TimePasses(c, o, b)
        PROVE  crossed' = crossed /\ \A q \in Runs : Holding(q)' => Holding(q)
    BY <1>7 DEF Health!TimePasses, Health!probeVars, Holding
  <1>8. CASE Health!Crash
    BY <1>1, <1>8 DEF Health!Crash, Holding
  <1> QED BY <1>1, <1>2, <1>3, <1>4, <1>5, <1>6, <1>7, <1>8 DEF Health!Next, Health!Probing

\* What people were told.
LEMMA HeardStep ==
    ASSUME HealthInv, [Health!Next]_(Health!vars), crossed' = FALSE, lost' = FALSE
    PROVE  Heard'
  <1>0. /\ HealthTypes /\ crossed = FALSE
        /\ \A p, q \in Runs : Holding(p) /\ Holding(q) => p = q
        /\ lost = FALSE => Heard
    BY OneHolds DEF HealthInv
  <1>1. ASSUME UNCHANGED <<heard, byHand>>, lost = FALSE, health'.state = health.state,
               \A p \in Runs : /\ probing[p] = "tell" <=> probing'[p] = "tell"
                               /\ probing'[p] = "write" => probing[p] = "write"
                               /\ Holding(p) => was'[p] = was[p] /\ next'[p] = next[p]
        PROVE  Heard'
    BY <1>0, <1>1 DEF Heard, Agrees, Holding, Health!Notable
  <1>2. CASE UNCHANGED Health!vars
    BY <1>1, <1>2 DEF Health!vars
  <1>3. ASSUME NEW p \in Runs, Health!Schedule(p) \/ Health!ProbeByHand(p) \/ Health!Answered(p)
        PROVE  Heard'
    <2>1. /\ UNCHANGED <<heard, byHand, lost, health, was, next>>
          /\ probing[p] \in {"idle", "asking"} /\ probing'[p] \in {"asking", "read"}
          /\ \A q \in Runs \ {p} : probing'[q] = probing[q]
      BY <1>0, <1>3 DEF Health!Schedule, Health!ProbeByHand, Health!Answered, Health!Goto,
         HealthTypes
    <2> QED BY <1>1, <2>1
  <1>4. ASSUME NEW p \in Runs, Health!ReadRow(p)
        PROVE  Heard'
    <2> DEFINE t == Health!Step(health, answer[p])
    <2>1. t.state = "degraded" => health.state \in {"healthy", "degraded"}
      BY <1>0, StepFits DEF HealthInv, HealthTypes
    <2> HIDE DEF t
    <2>2. /\ UNCHANGED <<heard, byHand, lost, health>>
          /\ was' = [was EXCEPT ![p] = health.state] /\ next' = [next EXCEPT ![p] = t]
          /\ probing' = [probing EXCEPT ![p] = "write"]
          /\ \A q \in Runs \ {p} : ~Holding(q)
      BY <1>4 DEF Health!ReadRow, Health!Goto, t, Holding
    <2>3. Agrees(health.state)
      BY <1>0, <1>4, <2>2 DEF Heard, Health!ReadRow, Holding
    <2>4. /\ probing'[p] = "write" /\ was'[p] = health.state /\ next'[p] = t
          /\ \A q \in Runs \ {p} : probing'[q] \notin {"write", "tell"}
      BY <1>0, <2>2 DEF HealthTypes, Holding
    <2> QED BY <2>1, <2>2, <2>3, <2>4 DEF Heard, Agrees
  <1>5. ASSUME NEW p \in Runs, Health!WriteRow(p)
        PROVE  Heard'
    <2>1. /\ probing[p] = "write" /\ lost = FALSE /\ heard' = heard /\ health' = next[p]
          /\ \A q \in Runs \ {p} : ~Holding(q)
      BY <1>0, <1>5 DEF Health!WriteRow, Holding
    <2>2. /\ Agrees(was[p])
          /\ next[p].state = "degraded" => was[p] \in {"healthy", "degraded"}
          /\ next[p].state \in Health!States
      BY <1>0, <2>1 DEF Heard, HealthTypes, Health!Rows
    <2>3. CASE next[p].state # was[p]
      <3>1. /\ probing' = [probing EXCEPT ![p] = "tell"] /\ UNCHANGED <<was, next>>
            /\ byHand' = (byHand /\ ~Health!Notable(was[p], next[p].state))
        BY <1>5, <2>3 DEF Health!WriteRow, Health!Goto
      <3>2. probing'[p] = "tell" /\ \A q \in Runs \ {p} : probing'[q] \notin {"write", "tell"}
        BY <1>0, <2>1, <3>1 DEF HealthTypes, Holding
      <3>3. ASSUME ~Health!Notable(was[p], next[p].state)
            PROVE  /\ next[p].state # "suspended"
                   /\ heard = "down" /\ next[p].state \in {"healthy", "degraded"} => byHand = TRUE
        BY <2>2, <2>3, <3>3 DEF Agrees, Health!Notable
      <3>4. Health!Notable(was[p], next[p].state) \/ Agrees(next[p].state)'
        BY <1>0, <2>1, <3>1, <3>3 DEF Agrees, HealthTypes
      <3> QED BY <2>1, <3>1, <3>2, <3>4 DEF Heard, Agrees, Health!Notable
    <2>4. CASE next[p].state = was[p]
      <3>1. Health!Done(p) /\ byHand' = byHand
        BY <1>5, <2>4 DEF Health!WriteRow
      <3>2. \A q \in Runs : probing'[q] \notin {"write", "tell"}
        BY <1>0, <2>1, <3>1 DEF Health!Done, Health!Goto, HealthTypes, Holding
      <3> QED BY <2>1, <2>2, <2>4, <3>1, <3>2 DEF Heard, Agrees
    <2> QED BY <2>3, <2>4
  <1>6. ASSUME NEW p \in Runs, Health!Tell(p)
        PROVE  Heard'
    <2>1. /\ probing[p] = "tell" /\ lost = FALSE /\ UNCHANGED <<health, byHand>>
          /\ \A q \in Runs \ {p} : ~Holding(q)
          /\ heard' = IF ~Health!Notable(was[p], next[p].state) THEN heard
                      ELSE IF next[p].state = "suspended" THEN "down" ELSE "up"
      BY <1>0, <1>6 DEF Health!Tell, Holding
    <2>2. \A q \in Runs : probing'[q] \notin {"write", "tell"}
      BY <1>0, <1>6, <2>1 DEF Health!Tell, Health!Done, Health!Goto, HealthTypes, Holding
    <2>3. /\ \/ next[p].state = health.state
             \/ byHand = TRUE /\ health.state \in {"healthy", "disabled"}
          /\ Health!Notable(was[p], next[p].state) \/ Agrees(next[p].state)
      BY <1>0, <2>1 DEF Heard
    <2>4. Agrees(health.state)'
      <3>1. CASE byHand = TRUE /\ health.state \in {"healthy", "disabled"}
        BY <2>1, <3>1 DEF Agrees
      <3>2. CASE next[p].state = health.state /\ Health!Notable(was[p], next[p].state)
        BY <2>1, <3>2 DEF Agrees
      <3>3. CASE next[p].state = health.state /\ ~Health!Notable(was[p], next[p].state)
        BY <2>1, <2>3, <3>3 DEF Agrees
      <3> QED BY <2>3, <3>1, <3>2, <3>3
    <2> QED BY <2>2, <2>4 DEF Heard
  <1>7. ASSUME NEW p \in Runs, Health!ProbeFails(p)
        PROVE  FALSE
    BY <1>7 DEF Health!ProbeFails
  <1>8. CASE Health!SetDisabled
    <2>1. /\ health'.state \in {"healthy", "disabled"} /\ byHand' = TRUE
          /\ UNCHANGED <<heard, lost, probing, was, next>>
      BY <1>8 DEF Health!SetDisabled, Health!Healthy
    <2> QED BY <1>0, <2>1 DEF Heard, Agrees, Health!Notable
  <1>9. ASSUME NEW c, NEW o, NEW b, Health!TimePasses(c, o, b)
        PROVE  Heard'
    <2>1. UNCHANGED <<heard, byHand, lost, probing, was, next>> /\ health'.state = health.state
      BY <1>0, <1>9 DEF Health!TimePasses, Health!probeVars, HealthTypes, Health!Rows
    <2> QED BY <1>1, <2>1
  <1>10. CASE Health!NextDay
    BY <1>1, <1>10 DEF Health!NextDay, Health!probeVars
  <1>11. CASE Health!Crash
    BY <1>11 DEF Health!Crash
  <1> QED BY <1>2, <1>3, <1>4, <1>5, <1>6, <1>7, <1>8, <1>9, <1>10, <1>11
          DEF Health!Next, Health!Probing

\* The invariant holds for ever.
LEMMA HealthHolds == PartSpec => []HealthInv
  <1>1. PartInit => HealthInv
    BY HealthInit DEF PartInit
  <1>2. HealthInv /\ [PartNext]_<<part, vars, healthVars, alertVars, costVars, pushVars,
                                  accessVars>> => HealthInv'
    <2> SUFFICES ASSUME HealthInv, [PartNext]_<<part, vars, healthVars, alertVars, costVars,
                                               pushVars, accessVars>>
                 PROVE  HealthInv'
      OBVIOUS
    <2>1. [Health!Next]_(Health!vars)
      BY HealthAlone
    <2>2. HealthTypes' /\ Fits(health)' /\ \A p \in Runs : Fits(next[p])'
      BY <2>1, RowsFit
    <2>3. \A p \in Runs : Known(p)'
      BY <2>1, KnownStep
    <2>4. crossed' = FALSE => \A p, q \in Runs : Holding(p)' /\ Holding(q)' => p = q
      BY <2>1, OneHolds
    <2>5. crossed' = FALSE /\ lost' = FALSE => Heard'
      BY <2>1, HeardStep
    <2> QED BY <2>2, <2>3, <2>4, <2>5 DEF HealthInv
  <1> QED BY <1>1, <1>2, PTL DEF PartSpec

\* Weight, counters and limits fit the state, a suspension is told while probes neither overlap nor
\* lose a write, and only a probe that read the row before takes an account out of "disabled".
THEOREM HealthKept == PartSpec => HealthIsTrue
  <1>1. HealthInv => Health!ShapeFits
    BY DEF HealthInv, HealthTypes, Fits, Health!ShapeFits, Health!Rows, Health!States
  <1>2. HealthInv => Health!ToldIsTrue
    BY DEF HealthInv, HealthTypes, Heard, Agrees, Health!ToldIsTrue
  <1>3. HealthInv /\ [PartNext]_<<part, vars, healthVars, alertVars, costVars, pushVars,
                                  accessVars>>
            => [\A p \in Runs : Health!WriteRow(p) /\ health.state = "disabled" =>
                    next[p].state = "disabled" \/ p \in stale]_(Health!vars)
    BY DEF HealthInv, Known, Health!WriteRow
  <1>4. HealthInv => (part = "health" => Health!HealthIsTrue)
    BY <1>1, <1>2 DEF Health!HealthIsTrue
  <1> QED BY <1>3, <1>4, HealthHolds, PTL DEF PartSpec, HealthIsTrue, Health!DisabledIsKept

(***************************************************************************)
(* Warnings of low balances                                                *)
(***************************************************************************)
\* A step of the composition is a step of the warnings, or leaves them alone.
LEMMA AlertAlone ==
    ASSUME [PartNext]_<<part, vars, healthVars, alertVars, costVars, pushVars, accessVars>>
    PROVE  [Alerts!Next]_alertVars
  BY DEF PartNext

\* An age grows by a tick up to an hour; one that stands for none stays so, and none is new
\* after a tick.
LEMMA Aged ==
    ASSUME NEW age \in 0..Alerts!Never
    PROVE  /\ Alerts!Older(age) \in 1..Alerts!Never
           /\ age = Alerts!Never => Alerts!Older(age) = Alerts!Never
           /\ age >= Hour => Alerts!Older(age) >= Hour
           /\ Hour \in Nat \ {0} /\ Alerts!Never \in Nat \ {0}
           /\ Alerts!Older(age) = Alerts!Never => age = Alerts!Never
  BY PartsAssumption DEF Alerts!AlertAssumption, Alerts!Older, Alerts!Never

\* Subjects a message about was decided on, whatever became of it.
Decided == sending \cup reached \cup unheard

AlertTypes ==
    /\ latch \in [level : {0, 1}, age : 0..Alerts!Never]
    /\ saw \in [low : BOOLEAN, level : {0, 1}, age : 0..Alerts!Never]
    /\ watch \in {"idle", "apply", "tell"}
    /\ lastAlert \in 0..Alerts!Never
    /\ fired \in [{"customer", "provider"} -> 0..Alerts!Never]
    /\ recovered \in [{"customer", "provider"} -> BOOLEAN]
    /\ warnings \in BOOLEAN
    /\ scarce \in [{"customer", "provider"} -> BOOLEAN]
    /\ brought \in [Runs -> BOOLEAN]

\* The customer's latch: its time is that of the last decision, what the job holds of it is
\* current, and it is open only after a recovery.
LatchKept ==
    /\ latch.age = fired["customer"]
    /\ watch = "apply" => saw.level = latch.level /\ saw.age = latch.age
    /\ latch.level = 0 => recovered["customer"] = TRUE
    /\ latch.level = 1 /\ watch # "tell" => "customer" \in Decided

\* The provider's: its time is that of the last decision, unless a recovery or a restart
\* took it out.
EntryKept ==
    /\ \/ lastAlert = fired["provider"]
       \/ lastAlert = Alerts!Never /\ recovered["provider"] = TRUE
    /\ lastAlert # Alerts!Never => "provider" \in Decided

\* What is left of the invariant: types, and the two latches.
AlertInv == AlertTypes /\ LatchKept /\ EntryKept

\* Warnings start as the invariant says.
LEMMA AlertInit == Alerts!Init => AlertInv
  <1> SUFFICES ASSUME Alerts!Init
               PROVE  AlertInv
    OBVIOUS
  <1>1. Alerts!Never \in Nat \ {0}
    BY PartsAssumption DEF Alerts!AlertAssumption, Alerts!Never
  <1>2. Alerts!Never \in 0..Alerts!Never
    BY <1>1
  <1> QED BY <1>1, <1>2 DEF Alerts!Init, AlertInv, AlertTypes, LatchKept, EntryKept, Alerts!Subjects

\* What a step changes keeps the types, the latch, the provider's entry, and the hour
\* between two warnings.
Keeps == AlertInv' /\ Alerts!Spaced

\* A step of the job, or a failure of its write.
LEMMA JobKeeps ==
    ASSUME AlertInv,
           Alerts!WatchUserBalances \/ Alerts!applyUserBalance \/ Alerts!SaveFails
           \/ Alerts!HandleUserBalanceAlert
    PROVE  Keeps
  <1> USE DEF Alerts!Subjects
  <1>0. /\ AlertTypes /\ LatchKept /\ EntryKept
        /\ 0 \in 0..Alerts!Never /\ 0 # Alerts!Never /\ Hour \in Nat \ {0}
    BY PartsAssumption DEF AlertInv, Alerts!AlertAssumption, Alerts!Never
  <1>1. CASE Alerts!WatchUserBalances
    <2>1. /\ watch = "idle" /\ watch' = "apply"
          /\ saw' = [low |-> scarce["customer"], level |-> latch.level, age |-> latch.age]
          /\ UNCHANGED <<scarce, warnings, active, latch, lastAlert, after, brought, sending,
                         fired, recovered, reached, unheard>>
      BY <1>1 DEF Alerts!WatchUserBalances, Alerts!outside, Alerts!sync, Alerts!history
    <2>2. AlertTypes'
      BY <1>0, <2>1 DEF AlertTypes
    <2>3. LatchKept' /\ EntryKept' /\ Alerts!Spaced
      BY <1>0, <2>1 DEF AlertTypes, LatchKept, EntryKept, Decided, Alerts!Spaced
    <2> QED BY <2>2, <2>3 DEF Keeps, AlertInv
  <1>2. CASE Alerts!applyUserBalance
    <2> DEFINE fire == warnings /\ saw.low /\ Alerts!Due
               lev == IF ~warnings THEN saw.level ELSE IF saw.low THEN 1 ELSE 0
               age == IF fire THEN 0 ELSE latch.age
    <2>1. /\ watch = "apply" /\ latch' = [level |-> lev, age |-> age]
          /\ fire => /\ fired' = [fired EXCEPT !["customer"] = 0]
                     /\ recovered' = [recovered EXCEPT !["customer"] = FALSE]
                     /\ watch' = "tell"
          /\ ~fire => /\ watch' = "idle" /\ fired' = fired
                      /\ recovered' = [recovered EXCEPT
                             !["customer"] = recovered["customer"] \/ (warnings /\ ~saw.low)]
          /\ UNCHANGED <<scarce, warnings, active, saw, lastAlert, after, brought, sending,
                         reached, unheard>>
      BY <1>2 DEF Alerts!applyUserBalance, Alerts!Fire, Alerts!Put, Alerts!outside, Alerts!sync
    <2>2. /\ lev \in {0, 1} /\ age \in 0..Alerts!Never /\ saw.level = latch.level
          /\ saw.age = fired["customer"] /\ latch.age = fired["customer"]
          /\ saw.level \in {0, 1}
      BY <1>0, <2>1 DEF AlertTypes, LatchKept
    <2>3. /\ fire => lev = 1 /\ age = 0 /\ (saw.level = 0 \/ saw.age >= Hour)
          /\ ~fire => age = latch.age
          /\ ~fire /\ lev = 1 => saw.level = 1
          /\ lev = 0 => ~fire /\ (saw.level = 0 \/ (warnings /\ ~saw.low))
      BY <2>2 DEF Alerts!Due
    <2> HIDE DEF fire, lev, age
    <2>4. latch' \in [level : {0, 1}, age : 0..Alerts!Never] /\ latch'.level = lev /\ latch'.age = age
      BY <2>1, <2>2
    <2>41. fired' \in [{"customer", "provider"} -> 0..Alerts!Never] /\ watch' \in {"idle", "tell"}
      BY <1>0, <2>1 DEF AlertTypes
    <2>42. /\ recovered["customer"] \in BOOLEAN /\ warnings \in BOOLEAN /\ saw.low \in BOOLEAN
           /\ recovered \in [{"customer", "provider"} -> BOOLEAN]
      BY <1>0 DEF AlertTypes
    <2>43. recovered' \in [{"customer", "provider"} -> BOOLEAN]
      BY <2>1, <2>42
    <2>5. AlertTypes'
      BY <1>0, <2>1, <2>4, <2>41, <2>43 DEF AlertTypes
    <2>6. LatchKept'
      BY <1>0, <2>1, <2>2, <2>3, <2>4 DEF AlertTypes, LatchKept, Decided
    <2>7. EntryKept'
      BY <1>0, <2>1 DEF AlertTypes, EntryKept, Decided
    <2>8. Alerts!Spaced
      BY <1>0, <2>1, <2>2, <2>3 DEF LatchKept, Alerts!Spaced
    <2> QED BY <2>5, <2>6, <2>7, <2>8 DEF Keeps, AlertInv
  <1>3. CASE Alerts!SaveFails
    <2>1. /\ watch = "apply" /\ watch' = "idle"
          /\ UNCHANGED <<scarce, warnings, latch, saw, lastAlert, brought, sending, fired,
                         recovered, reached, unheard>>
      BY <1>3 DEF Alerts!SaveFails, Alerts!outside, Alerts!sync, Alerts!history
    <2> QED BY <1>0, <2>1 DEF AlertTypes, LatchKept, EntryKept, Decided, Alerts!Spaced, Keeps,
                              AlertInv
  <1>4. CASE Alerts!HandleUserBalanceAlert
    <2>1. /\ watch = "tell" /\ watch' = "idle"
          /\ "customer" \in Decided' /\ ("provider" \in Decided => "provider" \in Decided')
          /\ UNCHANGED <<scarce, warnings, latch, saw, lastAlert, brought, fired, recovered,
                         reached>>
      BY <1>4 DEF Alerts!HandleUserBalanceAlert, Alerts!outside, Alerts!sync, Decided
    <2> QED BY <1>0, <2>1 DEF AlertTypes, LatchKept, EntryKept, Alerts!Spaced, Keeps, AlertInv
  <1> QED BY <1>1, <1>2, <1>3, <1>4

\* A step of a synchronisation.
LEMMA SyncKeeps ==
    ASSUME AlertInv, NEW r \in Runs, Alerts!SyncBalance(r) \/ Alerts!HandleSyncOutcome(r)
    PROVE  Keeps
  <1> USE DEF Alerts!Subjects
  <1>0. /\ AlertTypes /\ LatchKept /\ EntryKept
        /\ 0 \in 0..Alerts!Never /\ Alerts!Never \in 0..Alerts!Never /\ 0 # Alerts!Never
        /\ Hour \in Nat \ {0}
    BY PartsAssumption DEF AlertInv, Alerts!AlertAssumption, Alerts!Never
  <1>1. /\ UNCHANGED <<scarce, warnings, latch, watch, saw, reached, unheard>>
        /\ brought' \in [Runs -> BOOLEAN]
    BY <1>0 DEF Alerts!SyncBalance, Alerts!HandleSyncOutcome, Alerts!outside, Alerts!job,
       Alerts!Put, Alerts!history, AlertTypes
  <1>2. CASE UNCHANGED <<lastAlert, sending, fired, recovered>>
    BY <1>0, <1>1, <1>2 DEF AlertTypes, LatchKept, EntryKept, Decided, Alerts!Spaced, Keeps,
       AlertInv
  <1>3. CASE /\ lastAlert' = Alerts!Never
             /\ recovered' = [recovered EXCEPT !["provider"] = TRUE]
             /\ UNCHANGED <<sending, fired>>
    BY <1>0, <1>1, <1>3 DEF AlertTypes, LatchKept, EntryKept, Decided, Alerts!Spaced, Keeps,
       AlertInv
  <1>4. CASE /\ ~(lastAlert < Hour) /\ lastAlert' = 0
             /\ sending' = sending \cup {"provider"}
             /\ fired' = [fired EXCEPT !["provider"] = 0]
             /\ recovered' = [recovered EXCEPT !["provider"] = FALSE]
    <2>1. lastAlert \in 0..Alerts!Never /\ fired["provider"] \in 0..Alerts!Never
      BY <1>0 DEF AlertTypes
    <2>2. AlertTypes' /\ LatchKept' /\ EntryKept'
      BY <1>0, <1>1, <1>4 DEF AlertTypes, LatchKept, EntryKept, Decided
    <2>3. fired["provider"] >= Hour \/ recovered["provider"] = TRUE
      BY <1>0, <1>4, <2>1 DEF EntryKept, Alerts!Never
    <2>4. Alerts!Spaced
      BY <1>1, <2>3 DEF Alerts!Spaced
    <2> QED BY <2>2, <2>4 DEF Keeps, AlertInv
  <1> QED BY <1>2, <1>3, <1>4 DEF Alerts!SyncBalance, Alerts!HandleSyncOutcome, Alerts!Put,
             Alerts!Fire, Alerts!history

\* A tick: every time is one older, and no two that were equal differ.
LEMMA TickKeeps ==
    ASSUME AlertInv, Alerts!Tick
    PROVE  Keeps
  <1>0. AlertTypes /\ LatchKept /\ EntryKept
    BY DEF AlertInv
  <1> DEFINE Old(a) == Alerts!Older(a)
             since == fired["customer"]
             entry == fired["provider"]
  <1>1. /\ latch.age \in 0..Alerts!Never /\ saw.age \in 0..Alerts!Never
        /\ since \in 0..Alerts!Never /\ entry \in 0..Alerts!Never
    BY <1>0 DEF AlertTypes
  <1>2. /\ latch' = [level |-> latch.level, age |-> Old(latch.age)]
        /\ saw' = [low |-> saw.low, level |-> saw.level, age |-> Old(saw.age)]
    BY <1>0 DEF Alerts!Tick, AlertTypes
  <1>3. /\ lastAlert' = Old(lastAlert) /\ sending = {} /\ watch # "tell"
        /\ fired' = [s \in {"customer", "provider"} |-> Old(fired[s])]
        /\ UNCHANGED <<scarce, warnings, watch, brought, sending, recovered, reached, unheard>>
    BY DEF Alerts!Tick, Alerts!outside, Alerts!Subjects
  <1>4. /\ \A a \in 0..Alerts!Never : /\ Old(a) \in 1..Alerts!Never
                                      /\ a = Alerts!Never <=> Old(a) = Alerts!Never
        /\ Alerts!Never \in Nat \ {0}
    <2>1. ASSUME NEW a \in 0..Alerts!Never
          PROVE  Old(a) \in 1..Alerts!Never /\ (a = Alerts!Never <=> Old(a) = Alerts!Never)
      BY Aged
    <2>2. Alerts!Never \in Nat \ {0}
      BY PartsAssumption DEF Alerts!AlertAssumption, Alerts!Never
    <2> QED BY <2>1, <2>2
  <1> HIDE DEF Old
  <1>5. \A a \in 0..Alerts!Never : Old(a) \in 0..Alerts!Never
    BY <1>4
  <1>6. /\ latch' \in [level : {0, 1}, age : 0..Alerts!Never]
        /\ latch'.level = latch.level /\ latch'.age = Old(latch.age)
        /\ saw' \in [low : BOOLEAN, level : {0, 1}, age : 0..Alerts!Never]
        /\ saw'.level = saw.level /\ saw'.age = Old(saw.age)
    BY <1>0, <1>1, <1>2, <1>5 DEF AlertTypes
  <1>7. AlertTypes'
    BY <1>0, <1>3, <1>5, <1>6 DEF AlertTypes
  <1>8. LatchKept'
    BY <1>0, <1>3, <1>6 DEF LatchKept, Decided
  <1>9. EntryKept'
    BY <1>0, <1>3, <1>4 DEF AlertTypes, EntryKept, Decided
  <1>10. Alerts!Spaced
    <2>1. lastAlert' \in 1..Alerts!Never
      BY <1>0, <1>3, <1>4 DEF AlertTypes
    <2> QED BY <1>3, <2>1 DEF Alerts!Spaced
  <1> QED BY <1>7, <1>8, <1>9, <1>10 DEF Keeps, AlertInv

\* Messages, people, and a crash.
LEMMA RestKeeps ==
    ASSUME AlertInv, (\E s \in Alerts!Subjects : Alerts!Send(s)) \/ Alerts!People \/ Alerts!Crash
    PROVE  Keeps
  <1> USE DEF Alerts!Subjects
  <1>0. /\ AlertTypes /\ LatchKept /\ EntryKept
        /\ Alerts!Never \in 0..Alerts!Never /\ 0 # Alerts!Never
    BY PartsAssumption DEF AlertInv, Alerts!AlertAssumption, Alerts!Never
  <1>1. CASE \E s \in Alerts!Subjects : Alerts!Send(s)
    <2>1. Decided' = Decided
      BY <1>1 DEF Alerts!Send, Decided
    <2>2. UNCHANGED <<scarce, warnings, latch, watch, saw, lastAlert, brought, fired, recovered>>
      BY <1>1 DEF Alerts!Send, Alerts!outside, Alerts!job, Alerts!sync
    <2> QED BY <1>0, <2>1, <2>2 DEF AlertTypes, LatchKept, EntryKept, Alerts!Spaced, Keeps,
                                    AlertInv
  <1>2. CASE Alerts!People
    <2>1. /\ UNCHANGED <<latch, watch, saw, lastAlert, brought, sending, fired, recovered,
                         reached, unheard>>
          /\ warnings' \in BOOLEAN /\ scarce' \in [{"customer", "provider"} -> BOOLEAN]
      BY <1>0, <1>2 DEF Alerts!People, Alerts!job, Alerts!sync, Alerts!history, Alerts!Put, AlertTypes
    <2> QED BY <1>0, <2>1 DEF AlertTypes, LatchKept, EntryKept, Decided, Alerts!Spaced, Keeps,
                              AlertInv
  <1>3. CASE Alerts!Crash
    <2>1. /\ watch' = "idle" /\ lastAlert' = Alerts!Never
          /\ recovered' = [recovered EXCEPT !["provider"] = TRUE]
          /\ Decided \subseteq Decided' /\ (watch = "tell" => "customer" \in Decided')
          /\ UNCHANGED <<scarce, warnings, latch, saw, brought, fired>>
      BY <1>3 DEF Alerts!Crash, Alerts!Put, Alerts!outside, Decided
    <2> QED BY <1>0, <2>1 DEF AlertTypes, LatchKept, EntryKept, Alerts!Spaced, Keeps, AlertInv
  <1> QED BY <1>1, <1>2, <1>3

\* The invariant holds, and no warning comes too soon.
LEMMA AlertsHold == PartSpec => []AlertInv /\ [][Alerts!Spaced]_alertVars
  <1>1. PartInit => AlertInv
    BY AlertInit DEF PartInit
  <1>2. AlertInv /\ [PartNext]_<<part, vars, healthVars, alertVars, costVars, pushVars,
                                 accessVars>> => AlertInv' /\ [Alerts!Spaced]_alertVars
    <2> SUFFICES ASSUME AlertInv, [PartNext]_<<part, vars, healthVars, alertVars, costVars,
                                               pushVars, accessVars>>
                 PROVE  AlertInv' /\ [Alerts!Spaced]_alertVars
      OBVIOUS
    <2>1. CASE UNCHANGED alertVars
      BY <2>1 DEF alertVars, AlertInv, AlertTypes, LatchKept, EntryKept, Decided
    <2>2. CASE Alerts!Next
      <3>1. Keeps
        BY <2>2, JobKeeps, SyncKeeps, TickKeeps, RestKeeps DEF Alerts!Next, Alerts!Work
      <3> QED BY <3>1 DEF Keeps
    <2> QED BY <2>1, <2>2, AlertAlone
  <1> QED BY <1>1, <1>2, PTL DEF PartSpec

\* Whoever is marked as warned was told, or the message is known to be lost; and nobody is
\* warned twice within an hour, unless the balance recovered in between or a restart forgot.
THEOREM AlarmsKept == PartSpec => AlarmsAreTrue
  <1>1. AlertInv => Alerts!LatchedIsTold
    BY DEF AlertInv, AlertTypes, LatchKept, EntryKept, Decided, Alerts!LatchedIsTold
  <1>2. AlertInv => (part = "alert" => Alerts!LatchedIsTold)
    BY <1>1
  <1> QED BY <1>2, AlertsHold, PTL DEF AlarmsAreTrue

(***************************************************************************)
(* What keys cost                                                          *)
(***************************************************************************)
Fields == {"pc", "back", "accounts", "moved", "plain", "amounts", "read", "failed", "match",
           "known", "sure", "date", "left", "page", "began", "errors"}
Stages == {"idle", "fetch", "match", "map", "costs", "page", "write", "state"}
Table  == Keys \X Costs!Days

CostTypes ==
    /\ day \in Costs!Days /\ promised \in Costs!Days /\ promised <= day
    /\ spent \in [Keys -> [Costs!Days -> Nat]]
    /\ costs \in [Keys -> [Costs!Days -> SUBSET Nat]]
    /\ passed \in [Runs -> SUBSET Table]
    /\ costRun = [r \in Runs |-> costRun[r]]

\* A row holds one amount.
OneAmount == \A k \in Keys, d \in Costs!Days : \A m, n \in costs[k][d] : m = n

\* A row that is as it should be for good, its day being over.
Settled(k, d) ==
    \/ <<k, d>> \in staleRows \/ ~Costs!Kept(d)
    \/ costs[k][d] = {spent[k][d]}
    \/ costs[k][d] = {} /\ spent[k][d] = 0

\* Nothing stored exceeds n, as far as run r knows: nobody wrote the row since it read.
Tops(r, k, d, n) ==
    <<k, d>> \notin passed[r] /\ <<k, d>> \notin staleRows => \A m \in costs[k][d] : m <= n

CostRunShape(r) ==
    /\ costRun[r].pc \in Stages
    /\ costRun[r].pc # "idle" => DOMAIN costRun[r] = Fields
    /\ costRun[r].pc \notin {"idle", "state"} =>
           costRun[r].began \in Costs!Days /\ costRun[r].began <= day

\* The accounts a run matches are those of now, unless it is marked.
KnowsAccounts(r) ==
    /\ costRun[r].pc \in {"fetch", "match", "map"} =>
           /\ costRun[r].moved \in BOOLEAN
           /\ costRun[r].moved = FALSE => costRun[r].accounts = holds
    /\ costRun[r].pc = "map" =>
           /\ costRun[r].known = costRun[r].sure
           /\ \A k \in Keys : costRun[r].match[k] =
                  Costs!matchCostAccount(k, k \in costRun[r].known, costRun[r].accounts)

\* Today's amounts are of the day they were read on, which is not after the date.
KnowsToday(r) ==
    /\ costRun[r].pc \in {"match", "map", "costs"} =>
           /\ costRun[r].read \in Costs!Days /\ costRun[r].read <= day
           /\ DOMAIN costRun[r].amounts \subseteq Keys
           /\ \A k \in DOMAIN costRun[r].amounts :
                  /\ costRun[r].amounts[k] \in Nat
                  /\ costRun[r].amounts[k] <= spent[k][costRun[r].read]
                  /\ Tops(r, k, costRun[r].read, costRun[r].amounts[k])
    /\ costRun[r].pc \in {"map", "costs"} =>
           /\ costRun[r].date \in Costs!Days
           /\ costRun[r].read <= costRun[r].date /\ costRun[r].date <= day

\* Rows that give each key and day one amount.
OneEach(entries) ==
    \A k \in Keys, d \in Costs!Days, m, n \in Nat :
        <<k, d, m>> \in entries /\ <<k, d, n>> \in entries => m = n

\* A page holds whole days, but for the day it was read on.
KnowsPage(r) ==
    costRun[r].pc = "write" =>
        /\ costRun[r].read \in Costs!Days /\ costRun[r].began <= costRun[r].read
        /\ costRun[r].read <= day
        /\ costRun[r].page \in SUBSET (Keys \X Costs!Days \X Nat)
        /\ \A k \in Keys, d \in Costs!Days, n \in Nat : <<k, d, n>> \in costRun[r].page =>
               /\ n <= spent[k][d]
               /\ d < costRun[r].read => n = spent[k][d]
               /\ Tops(r, k, d, n)
        /\ OneEach(costRun[r].page)

Index(k, d) == IF kindOfSite = "sub2api" THEN k ELSE d

\* What a run has fetched is settled, or about to be by the page it holds.
DoneSoFar(r) ==
    costRun[r].pc \in {"page", "write"} =>
        /\ costRun[r].left \subseteq IF kindOfSite = "sub2api" THEN Keys ELSE Costs!Days
        /\ costRun[r].errors \in BOOLEAN
        /\ costRun[r].errors = FALSE =>
               \A k \in Keys, d \in Costs!Days :
                   d < costRun[r].began /\ Index(k, d) \notin costRun[r].left =>
                       \/ Settled(k, d)
                       \/ costRun[r].pc = "write" /\ <<k, d, spent[k][d]>> \in costRun[r].page

RunHolds(r) == CostRunShape(r) /\ KnowsAccounts(r) /\ KnowsToday(r) /\ KnowsPage(r) /\ DoneSoFar(r)

PastSettled == \A k \in Keys, d \in Costs!Days : d < promised => Settled(k, d)

CostInv ==
    /\ CostTypes /\ OneAmount /\ Costs!NeverMore /\ PastSettled /\ Costs!MatchIsTrue
    /\ \A r \in Runs : RunHolds(r)

\* A step of the composition is a step of a part, or leaves it alone.
LEMMA CostAlone ==
    ASSUME [PartNext]_<<part, vars, healthVars, alertVars, costVars, pushVars, accessVars>>
    PROVE  [Costs!Next]_(Costs!vars)
  BY DEF PartNext, costVars, Costs!vars

\* Days are numbers from zero on.
LEMMA DaysCount == Costs!Days \subseteq Nat /\ 0 \in Costs!Days
  BY PartsAssumption DEF Costs!CostAssumption, Costs!Days

\* At first nothing has been written and no run is under way.
LEMMA CostStart == Costs!Init => CostInv
  <1> SUFFICES ASSUME Costs!Init PROVE CostInv
    OBVIOUS
  <1>0. LastDay \in Nat \ {0}
    BY PartsAssumption DEF Costs!CostAssumption
  <1>1. CostTypes /\ OneAmount /\ Costs!NeverMore /\ PastSettled
    BY <1>0 DEF Costs!Init, CostTypes, OneAmount, Costs!NeverMore, PastSettled, Costs!Days, Table
  <1>2. Costs!MatchIsTrue
    BY DEF Costs!Init, Costs!MatchIsTrue
  <1>3. \A r \in Runs : costRun[r].pc = "idle"
    BY DEF Costs!Init, Costs!NoRun
  <1>4. \A r \in Runs : RunHolds(r)
    BY <1>3 DEF RunHolds, CostRunShape, KnowsAccounts, KnowsToday, KnowsPage, DoneSoFar, Stages
  <1> QED BY <1>1, <1>2, <1>4 DEF CostInv

(***************************************************************************)
(* What a step may do to the rows: days end and usage grows, and what is   *)
(* settled stays so.  A run that is left alone still knows what it knew.   *)
(***************************************************************************)
World ==
    /\ kindOfSite' = kindOfSite
    /\ day' \in Costs!Days /\ day <= day'
    /\ spent' \in [Keys -> [Costs!Days -> Nat]]
    /\ \A k \in Keys, d \in Costs!Days :
           /\ spent[k][d] <= spent'[k][d]
           /\ d < day => spent'[k][d] = spent[k][d]
           /\ d < day /\ Settled(k, d) => Settled(k, d)'

Undisturbed(r) ==
    \A k \in Keys, d \in Costs!Days :
        <<k, d>> \notin passed'[r] /\ <<k, d>> \notin staleRows' =>
            /\ <<k, d>> \notin passed[r] /\ <<k, d>> \notin staleRows
            /\ costs'[k][d] \subseteq costs[k][d]

\* A run that neither acts nor sees its accounts change.
LEMMA RunKept ==
    ASSUME CostInv, World, NEW r \in Runs, Undisturbed(r), costRun'[r] = costRun[r],
           holds' = holds
    PROVE  RunHolds(r)'
  <1>0. RunHolds(r) /\ CostTypes /\ Costs!Days \subseteq Nat
    BY DaysCount DEF CostInv
  <1>1. CostRunShape(r)'
    BY <1>0 DEF RunHolds, CostRunShape, World, CostTypes
  <1>2. KnowsAccounts(r)'
    BY <1>0 DEF RunHolds, KnowsAccounts
  <1>3. KnowsToday(r)'
    BY <1>0 DEF RunHolds, KnowsToday, World, Undisturbed, Tops, CostTypes
  <1>4. KnowsPage(r)'
    BY <1>0 DEF RunHolds, KnowsPage, World, Undisturbed, Tops, CostTypes, OneEach
  <1>5. DoneSoFar(r)'
    BY SMTT(30), <1>0, <1>1 DEF RunHolds, DoneSoFar, Index, World, CostTypes, CostRunShape
  <1> QED BY <1>1, <1>2, <1>3, <1>4, <1>5 DEF RunHolds

\* A step that touches neither rows nor the provider.
LEMMA RowsUntouched ==
    ASSUME CostInv, UNCHANGED <<kindOfSite, day, spent, costs, staleRows>>
    PROVE  /\ World /\ OneAmount' /\ Costs!NeverMore'
           /\ \A r \in Runs : passed'[r] = passed[r] => Undisturbed(r)
  <1>1. World
    BY DaysCount DEF CostInv, World, CostTypes, Settled, Costs!Kept
  <1>2. OneAmount' /\ Costs!NeverMore'
    BY DEF CostInv, OneAmount, Costs!NeverMore
  <1> QED BY <1>1, <1>2 DEF Undisturbed

\* What is settled before a promised day stays so.
LEMMA PromiseKept ==
    ASSUME CostInv, World, promised' = promised
    PROVE  PastSettled' /\ promised' \in Costs!Days /\ promised' <= day'
  BY DaysCount DEF CostInv, PastSettled, World, CostTypes

(***************************************************************************)
(* Writing rows                                                               *)
(***************************************************************************)
\* An upsert replaces the amounts of the keys and days it gives, marks them as stale or not, and
\* as written by another for every other run; the rest stays.
LEMMA Upserted ==
    ASSUME CostTypes, NEW r \in Runs, NEW entries \in SUBSET (Keys \X Costs!Days \X Nat), NEW readOn,
           Costs!UpsertCosts(r, entries, readOn)
    PROVE  /\ costs' \in [Keys -> [Costs!Days -> SUBSET Nat]]
           /\ passed' \in [Runs -> SUBSET Table] /\ passed'[r] = passed[r]
           /\ \A k \in Keys, d \in Costs!Days :
                  (\A n \in Nat : <<k, d, n>> \notin entries) =>
                      /\ costs'[k][d] = costs[k][d]
                      /\ <<k, d>> \in staleRows' <=> <<k, d>> \in staleRows
                      /\ \A q \in Runs : <<k, d>> \in passed'[q] <=> <<k, d>> \in passed[q]
           /\ \A k \in Keys, d \in Costs!Days, n \in Nat : <<k, d, n>> \in entries =>
                  /\ costs'[k][d] = {m \in Nat : <<k, d, m>> \in entries}
                  /\ <<k, d>> \in staleRows' <=> ~Costs!Whole(d, readOn)
                  /\ \A q \in Runs \ {r} : <<k, d>> \in passed'[q]
  <1> DEFINE amounts(k, d) == {w[3] : w \in {v \in entries : v[1] = k /\ v[2] = d}}
             at == {<<w[1], w[2]>> : w \in entries}
  <1>1. \A k \in Keys, d \in Costs!Days : amounts(k, d) = {m \in Nat : <<k, d, m>> \in entries}
    <2> SUFFICES ASSUME NEW k \in Keys, NEW d \in Costs!Days
                 PROVE  amounts(k, d) = {m \in Nat : <<k, d, m>> \in entries}
      OBVIOUS
    <2>1. ASSUME NEW w \in entries, w[1] = k, w[2] = d
          PROVE  w[3] \in Nat /\ <<k, d, w[3]>> \in entries
      <3>1. w = <<w[1], w[2], w[3]>> /\ w[3] \in Nat
        OBVIOUS
      <3> QED BY <2>1, <3>1
    <2>2. ASSUME NEW m \in Nat, <<k, d, m>> \in entries
          PROVE  m \in amounts(k, d)
      BY <2>2
    <2> QED BY <2>1, <2>2
  <1>2. /\ at \subseteq Table
        /\ \A k \in Keys, d \in Costs!Days :
               <<k, d>> \in at <=> \E n \in Nat : <<k, d, n>> \in entries
    <2>1. ASSUME NEW w \in entries
          PROVE  /\ w = <<w[1], w[2], w[3]>> /\ w[3] \in Nat
                 /\ w[1] \in Keys /\ w[2] \in Costs!Days
      OBVIOUS
    <2>2. at \subseteq Table
      BY <2>1 DEF Table
    <2>3. ASSUME NEW k \in Keys, NEW d \in Costs!Days, <<k, d>> \in at
          PROVE  \E n \in Nat : <<k, d, n>> \in entries
      <3>1. PICK w \in entries : <<k, d>> = <<w[1], w[2]>>
        BY <2>3
      <3>2. w = <<k, d, w[3]>> /\ w[3] \in Nat
        BY <2>1, <3>1
      <3> QED BY <3>2
    <2>4. ASSUME NEW k \in Keys, NEW d \in Costs!Days, NEW n \in Nat, <<k, d, n>> \in entries
          PROVE  <<k, d>> \in at
      BY <2>4
    <2> QED BY <2>2, <2>3, <2>4
  <1>3. /\ costs' = [k \in Keys |-> [d \in Costs!Days |->
                         IF amounts(k, d) = {} THEN costs[k][d] ELSE amounts(k, d)]]
        /\ staleRows' = (staleRows \ at) \cup {p \in at : ~Costs!Whole(p[2], readOn)}
        /\ passed' = [q \in Runs |-> IF q = r THEN passed[q] ELSE passed[q] \cup at]
    BY DEF Costs!UpsertCosts
  <1> HIDE DEF amounts, at
  <1>4. \A k \in Keys, d \in Costs!Days : <<k, d>> \in at =>
            (<<k, d>> \in staleRows' <=> ~Costs!Whole(d, readOn))
    BY <1>3
  <1>5. costs' \in [Keys -> [Costs!Days -> SUBSET Nat]]
    <2>1. ASSUME NEW k \in Keys, NEW d \in Costs!Days
          PROVE  costs[k][d] \in SUBSET Nat /\ amounts(k, d) \in SUBSET Nat
      <3>1. costs[k][d] \in SUBSET Nat
        BY DEF CostTypes
      <3>2. amounts(k, d) = {m \in Nat : <<k, d, m>> \in entries}
        BY <1>1
      <3> QED BY <3>1, <3>2
    <2> QED BY <1>3, <2>1
  <1>6. passed' \in [Runs -> SUBSET Table] /\ passed'[r] = passed[r]
    BY <1>2, <1>3 DEF CostTypes
  <1>7. ASSUME NEW k \in Keys, NEW d \in Costs!Days, \A n \in Nat : <<k, d, n>> \notin entries
        PROVE  /\ costs'[k][d] = costs[k][d]
               /\ <<k, d>> \in staleRows' <=> <<k, d>> \in staleRows
               /\ \A q \in Runs : <<k, d>> \in passed'[q] <=> <<k, d>> \in passed[q]
    <2>1. amounts(k, d) = {} /\ <<k, d>> \notin at
      BY <1>1, <1>2, <1>7
    <2> QED BY <1>3, <2>1
  <1>8. ASSUME NEW k \in Keys, NEW d \in Costs!Days, NEW n \in Nat, <<k, d, n>> \in entries
        PROVE  /\ costs'[k][d] = {m \in Nat : <<k, d, m>> \in entries}
               /\ <<k, d>> \in staleRows' <=> ~Costs!Whole(d, readOn)
               /\ \A q \in Runs \ {r} : <<k, d>> \in passed'[q]
    <2>1. n \in amounts(k, d) /\ <<k, d>> \in at
      BY <1>1, <1>2, <1>8
    <2> QED BY <1>1, <1>3, <1>4, <2>1
  <1> QED BY <1>5, <1>6, <1>7, <1>8

\* What rows of one reading do, if those that count as whole give no more than was used, all of it
\* for days that are over, and no less than is stored unless another wrote meanwhile.
LEMMA WriteKeeps ==
    ASSUME CostInv, NEW r \in Runs, NEW entries \in SUBSET (Keys \X Costs!Days \X Nat),
           NEW readOn \in Costs!Days, Costs!UpsertCosts(r, entries, readOn),
           UNCHANGED <<kindOfSite, day, spent>>, OneEach(entries),
           \A k \in Keys, d \in Costs!Days, n \in Nat :
               <<k, d, n>> \in entries /\ Costs!Whole(d, readOn) =>
                   /\ n <= spent[k][d] /\ (d < day => n = spent[k][d])
                   /\ Tops(r, k, d, n)
    PROVE  /\ World /\ OneAmount' /\ Costs!NeverMore'
           /\ \A q \in Runs \ {r} : Undisturbed(q)
           /\ \A k \in Keys, d \in Costs!Days :
                  Costs!Falls(k, d) =>
                      \/ <<k, d>> \in staleRows' \/ <<k, d>> \in staleRows
                      \/ <<k, d>> \in passed[r]
           /\ \A k \in Keys, d \in Costs!Days :
                  <<k, d, spent[k][d]>> \in entries /\ d < readOn => Settled(k, d)'
           /\ costs' \in [Keys -> [Costs!Days -> SUBSET Nat]]
           /\ passed' \in [Runs -> SUBSET Table]
  <1>0. /\ CostTypes /\ OneAmount /\ Costs!NeverMore /\ Costs!Days \subseteq Nat
    BY DaysCount DEF CostInv
  <1>1. /\ costs' \in [Keys -> [Costs!Days -> SUBSET Nat]]
        /\ passed' \in [Runs -> SUBSET Table]
    BY <1>0, Upserted
  <1>2. ASSUME NEW k \in Keys, NEW d \in Costs!Days, \A n \in Nat : <<k, d, n>> \notin entries
        PROVE  /\ costs'[k][d] = costs[k][d]
               /\ <<k, d>> \in staleRows' <=> <<k, d>> \in staleRows
               /\ \A q \in Runs : <<k, d>> \in passed'[q] <=> <<k, d>> \in passed[q]
    BY <1>0, <1>2, Upserted
  <1>3. ASSUME NEW k \in Keys, NEW d \in Costs!Days, NEW n \in Nat, <<k, d, n>> \in entries
        PROVE  /\ costs'[k][d] = {n}
               /\ <<k, d>> \in staleRows' <=> ~Costs!Whole(d, readOn)
               /\ \A q \in Runs \ {r} : <<k, d>> \in passed'[q]
    <2>1. /\ costs'[k][d] = {m \in Nat : <<k, d, m>> \in entries}
          /\ <<k, d>> \in staleRows' <=> ~Costs!Whole(d, readOn)
          /\ \A q \in Runs \ {r} : <<k, d>> \in passed'[q]
      BY ZenonT(60), <1>0, <1>3, Upserted
    <2>2. {m \in Nat : <<k, d, m>> \in entries} = {n}
      BY <1>3 DEF OneEach
    <2> QED BY <2>1, <2>2
  <1>4. ASSUME NEW k \in Keys, NEW d \in Costs!Days, d < day, Settled(k, d)
        PROVE  Settled(k, d)'
    <2>1. CASE \A n \in Nat : <<k, d, n>> \notin entries
      BY <1>2, <1>4, <2>1 DEF Settled, Costs!Kept
    <2>2. CASE \E n \in Nat : <<k, d, n>> \in entries
      <3>1. PICK n \in Nat : <<k, d, n>> \in entries
        BY <2>2
      <3>2. CASE Costs!Whole(d, readOn)
        <4>1. n = spent[k][d]
          BY <1>4, <3>1, <3>2
        <4> QED BY <1>3, <3>1, <4>1 DEF Settled
      <3>3. CASE ~Costs!Whole(d, readOn)
        BY <1>3, <3>1, <3>3 DEF Settled
      <3> QED BY <3>2, <3>3
    <2> QED BY <2>1, <2>2
  <1>5. World
    BY <1>0, <1>4 DEF World, CostTypes
  <1>6. OneAmount'
    <2>1. ASSUME NEW k \in Keys, NEW d \in Costs!Days, NEW m \in costs'[k][d],
                 NEW n \in costs'[k][d]
          PROVE  m = n
      <3>1. CASE \A e \in Nat : <<k, d, e>> \notin entries
        <4>1. costs'[k][d] = costs[k][d]
          BY <1>2, <3>1
        <4> QED BY <1>0, <4>1 DEF OneAmount
      <3>2. CASE \E e \in Nat : <<k, d, e>> \in entries
        <4>1. PICK e \in Nat : <<k, d, e>> \in entries
          BY <3>2
        <4>2. costs'[k][d] = {e}
          BY <1>3, <4>1
        <4> QED BY <4>2
      <3> QED BY <3>1, <3>2
    <2> QED BY <2>1 DEF OneAmount
  <1>7. Costs!NeverMore'
    <2>1. ASSUME NEW k \in Keys, NEW d \in Costs!Days, <<k, d>> \notin staleRows',
                 NEW m \in costs'[k][d]
          PROVE  m <= spent[k][d]
      BY <1>0, <1>2, <1>3, <2>1 DEF Costs!NeverMore
    <2> QED BY <2>1 DEF Costs!NeverMore
  <1>8. ASSUME NEW q \in Runs \ {r}
        PROVE  Undisturbed(q)
    BY <1>2, <1>3 DEF Undisturbed
  <1>9. ASSUME NEW k \in Keys, NEW d \in Costs!Days, Costs!Falls(k, d),
               <<k, d>> \notin staleRows', <<k, d>> \notin staleRows
        PROVE  <<k, d>> \in passed[r]
    <2>1. PICK n \in costs[k][d], m \in costs'[k][d] : m < n
      BY <1>9 DEF Costs!Falls
    <2>2. n \in Nat /\ m \in Nat
      BY <1>0, <1>1 DEF CostTypes
    <2>3. ASSUME \A e \in Nat : <<k, d, e>> \notin entries
          PROVE  FALSE
      <3>1. costs'[k][d] = costs[k][d]
        BY <1>2, <2>3
      <3>2. m = n
        BY <1>0, <2>1, <3>1 DEF OneAmount
      <3> QED BY <2>1, <2>2, <3>2
    <2>6. PICK e \in Nat : <<k, d, e>> \in entries
      BY <2>3
    <2>4. m = e /\ Costs!Whole(d, readOn)
      BY <1>3, <1>9, <2>1, <2>6
    <2>5. Tops(r, k, d, e)
      BY <2>4, <2>6
    <2> QED BY <1>9, <2>1, <2>2, <2>4, <2>5 DEF Tops
  <1>10. ASSUME NEW k \in Keys, NEW d \in Costs!Days, <<k, d, spent[k][d]>> \in entries,
                d < readOn
         PROVE  Settled(k, d)'
    <2>1. spent[k][d] \in Nat
      BY <1>0 DEF CostTypes
    <2> QED BY <1>3, <1>10, <2>1 DEF Settled
  <1> QED BY <1>1, <1>5, <1>6, <1>7, <1>8, <1>9, <1>10

(***************************************************************************)
(* The record of a run                                                     *)
(***************************************************************************)
\* A new run has all its fields.
LEMMA FreshRun ==
    /\ DOMAIN Costs!NewRun = Fields /\ Costs!NewRun.pc = "fetch"
    /\ Costs!NewRun.moved = FALSE /\ Costs!NewRun.errors = FALSE
  BY DEF Costs!NewRun, Fields

\* A run that has begun has all its fields.
LEMMA AllFields ==
    ASSUME CostInv, NEW r \in Runs, costRun[r].pc # "idle"
    PROVE  DOMAIN costRun[r] = Fields
  BY DEF CostInv, RunHolds, CostRunShape

\* One run acts: the others are as they were.
LEMMA OneActs ==
    ASSUME CostInv, NEW r \in Runs, NEW x, Costs!Set(r, x)
    PROVE  /\ costRun'[r] = x /\ costRun' = [q \in Runs |-> costRun'[q]]
           /\ \A q \in Runs \ {r} : costRun'[q] = costRun[q]
  <1>1. costRun = [q \in Runs |-> costRun[q]]
    BY DEF CostInv, CostTypes
  <1> QED BY <1>1 DEF Costs!Set

\* A run that has ended, or only has its state to save, holds nothing.
LEMMA AtRest ==
    ASSUME NEW r \in Runs,
           \/ costRun'[r].pc = "idle"
           \/ costRun'[r].pc = "state" /\ DOMAIN costRun'[r] = Fields
    PROVE  RunHolds(r)'
  BY DEF RunHolds, CostRunShape, KnowsAccounts, KnowsToday, KnowsPage, DoneSoFar, Stages

\* A step of one run that writes no costs.
LEMMA ActsQuietly ==
    ASSUME CostInv, NEW r \in Runs, NEW x, Costs!Set(r, x),
           UNCHANGED <<kindOfSite, day, spent, holds, costs, staleRows, promised>>,
           passed' \in [Runs -> SUBSET Table], \A q \in Runs \ {r} : passed'[q] = passed[q],
           Costs!MatchIsTrue', RunHolds(r)'
    PROVE  CostInv'
  <1>1. /\ World /\ OneAmount' /\ Costs!NeverMore'
        /\ \A q \in Runs : passed'[q] = passed[q] => Undisturbed(q)
    BY RowsUntouched
  <1>2. PastSettled' /\ promised' \in Costs!Days /\ promised' <= day'
    BY <1>1, PromiseKept
  <1>3. /\ costRun'[r] = x /\ costRun' = [q \in Runs |-> costRun'[q]]
        /\ \A q \in Runs \ {r} : costRun'[q] = costRun[q]
    BY OneActs
  <1>4. CostTypes'
    BY <1>2, <1>3 DEF CostInv, CostTypes
  <1>5. ASSUME NEW q \in Runs
        PROVE  RunHolds(q)'
    <2>1. CASE q = r
      BY <2>1
    <2>2. CASE q # r
      BY <1>1, <1>3, <2>2, RunKept
    <2> QED BY <2>1, <2>2
  <1> QED BY <1>1, <1>2, <1>4, <1>5 DEF CostInv

\* Keys and accounts agree as before.
LEMMA MatchKept ==
    ASSUME Costs!MatchIsTrue, UNCHANGED <<keyMap, blind, rekeyed, holds>>
    PROVE  Costs!MatchIsTrue'
  BY DEF Costs!MatchIsTrue

\* A run that gives up, or fails at its end.
LEMMA CostEnds ==
    ASSUME CostInv, NEW r \in Runs,
           Costs!FetchFails(r) \/ Costs!WriteFails(r) \/ Costs!SaveFails(r)
    PROVE  CostInv'
  <1>1. /\ Costs!Set(r, Costs!NoRun)
        /\ UNCHANGED <<kindOfSite, day, spent, holds, costs, staleRows, promised, passed, keyMap,
                       blind, rekeyed>>
    BY DEF Costs!FetchFails, Costs!WriteFails, Costs!SaveFails, Costs!outside, Costs!history
  <1>2. costRun'[r].pc = "idle"
    BY <1>1, OneActs DEF Costs!NoRun
  <1>3. RunHolds(r)' /\ Costs!MatchIsTrue'
    BY <1>1, <1>2, AtRest, MatchKept DEF CostInv
  <1> QED BY <1>1, <1>3, ActsQuietly DEF CostInv, CostTypes

\* A run begins with the accounts of now.
LEMMA CostBegins ==
    ASSUME CostInv, NEW r \in Runs, Costs!SyncCost(r)
    PROVE  CostInv'
  <1>1. PICK b \in {TRUE, FALSE, Costs!NeedsBackfill} :
           Costs!Set(r, [Costs!NewRun EXCEPT !.accounts = holds, !.back = b,
                            !.began = IF b THEN day ELSE 0])
    BY DEF Costs!SyncCost
  <1>2. UNCHANGED <<kindOfSite, day, spent, holds, costs, staleRows, promised, passed, keyMap,
                    blind, rekeyed>>
    BY DEF Costs!SyncCost, Costs!outside, Costs!history
  <1> DEFINE x == [Costs!NewRun EXCEPT !.accounts = holds, !.back = b,
                      !.began = IF b THEN day ELSE 0]
  <1>3. /\ DOMAIN x = Fields /\ x.pc = "fetch" /\ x.accounts = holds
        /\ x.began \in Costs!Days /\ x.began <= day /\ x.moved = FALSE
    BY FreshRun, DaysCount DEF Fields, CostInv, CostTypes
  <1>4. costRun'[r] = x
    BY <1>1, OneActs
  <1> HIDE DEF x
  <1>5. RunHolds(r)'
    BY <1>2, <1>3, <1>4 DEF RunHolds, CostRunShape, KnowsAccounts, KnowsToday, KnowsPage, DoneSoFar,
       Stages
  <1>6. Costs!MatchIsTrue'
    BY <1>2, MatchKept DEF CostInv
  <1> QED BY <1>1, <1>2, <1>5, <1>6, ActsQuietly DEF CostInv, CostTypes, x

\* A run that has read the usage of today knows it, and nothing stored exceeds it.
LEMMA CostFetched ==
    ASSUME CostInv, NEW r \in Runs, Costs!fetchKeysAndUsage(r)
    PROVE  CostInv'
  <1>0. /\ CostTypes /\ Costs!NeverMore /\ RunHolds(r) /\ DOMAIN costRun[r] = Fields
        /\ Costs!Days \subseteq Nat
    BY AllFields, DaysCount DEF CostInv, Costs!fetchKeysAndUsage
  <1>1. PICK S \in SUBSET Keys, P \in SUBSET (Keys \ Costs!StoredKeys) :
           Costs!Set(r, [costRun[r] EXCEPT
              !.pc = "match", !.read = day, !.failed = S # Keys,
              !.amounts = [k \in S |-> Costs!Fetched(k)],
              !.plain = IF kindOfSite = "sub2api" THEN Keys ELSE P])
    BY DEF Costs!fetchKeysAndUsage
  <1>2. /\ UNCHANGED <<kindOfSite, day, spent, holds, costs, staleRows, promised, keyMap, blind,
                       rekeyed>>
        /\ costRun[r].pc = "fetch"
        /\ passed' = [passed EXCEPT ![r] = {}]
    BY DEF Costs!fetchKeysAndUsage, Costs!outside
  <1> DEFINE f == [k \in S |-> Costs!Fetched(k)]
             p == IF kindOfSite = "sub2api" THEN Keys ELSE P
             x == [costRun[r] EXCEPT !.pc = "match", !.read = day, !.failed = S # Keys,
                      !.amounts = f, !.plain = p]
  <1>3. /\ DOMAIN f = S
        /\ \A k \in S : f[k] \in Nat /\ f[k] = spent[k][day]
    BY <1>0 DEF Costs!Fetched, CostTypes
  <1>4. costRun'[r] = x
    BY <1>1, OneActs
  <1> HIDE DEF f, p
  <1>5. /\ DOMAIN x = Fields /\ x.pc = "match" /\ x.read = day /\ x.amounts = f
        /\ x.accounts = costRun[r].accounts /\ x.moved = costRun[r].moved
        /\ x.began = costRun[r].began
    BY <1>0 DEF Fields
  <1> HIDE DEF x
  <1>6. CostRunShape(r)' /\ KnowsAccounts(r)' /\ KnowsPage(r)' /\ DoneSoFar(r)'
    BY <1>0, <1>2, <1>4, <1>5 DEF RunHolds, CostRunShape, KnowsAccounts, KnowsPage, DoneSoFar,
       Stages
  <1>7. KnowsToday(r)'
    <2>1. \A k \in S : <<k, day>> \notin staleRows => \A m \in costs[k][day] : m <= f[k]
      BY <1>0, <1>3 DEF Costs!NeverMore, CostTypes
    <2> QED BY <1>0, <1>2, <1>3, <1>4, <1>5, <2>1 DEF KnowsToday, Tops, CostTypes
  <1>8. passed' \in [Runs -> SUBSET Table] /\ \A q \in Runs \ {r} : passed'[q] = passed[q]
    BY <1>0, <1>2 DEF CostTypes
  <1>9. Costs!MatchIsTrue'
    BY <1>2, MatchKept DEF CostInv
  <1> QED BY <1>1, <1>2, <1>6, <1>7, <1>8, <1>9, ActsQuietly DEF RunHolds, x, f, p

\* The accounts found for the keys are those of the accounts the run has read.
LEMMA CostMatched ==
    ASSUME CostInv, NEW r \in Runs, Costs!MatchKeys(r)
    PROVE  CostInv'
  <1>0. /\ CostTypes /\ RunHolds(r) /\ DOMAIN costRun[r] = Fields /\ Costs!Days \subseteq Nat
        /\ costRun[r].pc = "match"
    BY AllFields, DaysCount DEF CostInv, Costs!MatchKeys
  <1>1. PICK stored \in {Costs!StoredKeys, {}} :
           Costs!Set(r, [costRun[r] EXCEPT
              !.pc = "map", !.known = costRun[r].plain \cup stored,
              !.sure = costRun[r].plain \cup stored, !.date = day,
              !.match = [k \in Keys |->
                  Costs!matchCostAccount(k, k \in costRun[r].plain \cup stored,
                                         costRun[r].accounts)]])
    BY DEF Costs!MatchKeys, Costs!Fingerprinted
  <1>2. UNCHANGED <<kindOfSite, day, spent, holds, costs, staleRows, promised, passed, keyMap,
                    blind, rekeyed>>
    BY DEF Costs!MatchKeys, Costs!outside, Costs!history
  <1> DEFINE s == costRun[r].plain \cup stored
             f == [k \in Keys |-> Costs!matchCostAccount(k, k \in s, costRun[r].accounts)]
             x == [costRun[r] EXCEPT !.pc = "map", !.known = s, !.sure = s, !.date = day,
                      !.match = f]
  <1>3. \A k \in Keys : f[k] = Costs!matchCostAccount(k, k \in s, costRun[r].accounts)
    OBVIOUS
  <1>4. costRun'[r] = x
    BY <1>1, OneActs
  <1> HIDE DEF s, f
  <1>5. /\ DOMAIN x = Fields /\ x.pc = "map" /\ x.known = s /\ x.sure = s /\ x.date = day
        /\ x.match = f /\ x.read = costRun[r].read /\ x.amounts = costRun[r].amounts
        /\ x.accounts = costRun[r].accounts /\ x.moved = costRun[r].moved
        /\ x.began = costRun[r].began
    BY <1>0 DEF Fields
  <1> HIDE DEF x
  <1>6. CostRunShape(r)' /\ KnowsPage(r)' /\ DoneSoFar(r)'
    BY <1>0, <1>2, <1>4, <1>5 DEF RunHolds, CostRunShape, KnowsPage, DoneSoFar, Stages
  <1>7. KnowsAccounts(r)'
    BY <1>0, <1>2, <1>3, <1>4, <1>5 DEF RunHolds, KnowsAccounts
  <1>8. KnowsToday(r)'
    BY <1>0, <1>2, <1>4, <1>5 DEF RunHolds, KnowsToday, Tops, CostTypes
  <1>9. Costs!MatchIsTrue'
    BY <1>2, MatchKept DEF CostInv
  <1> QED BY <1>1, <1>2, <1>6, <1>7, <1>8, <1>9, ActsQuietly DEF RunHolds, x, f, s, CostInv,
          CostTypes

\* Mappings are written as they were found, of keys whose fingerprint is known or was not to be
\* had.
LEMMA CostMapped ==
    ASSUME CostInv, NEW r \in Runs, Costs!UpsertMappings(r)
    PROVE  CostInv'
  <1>0. /\ CostTypes /\ RunHolds(r) /\ DOMAIN costRun[r] = Fields /\ Costs!Days \subseteq Nat
        /\ costRun[r].pc = "map"
    BY AllFields, DaysCount DEF CostInv, Costs!UpsertMappings
  <1> DEFINE none == Costs!NewRun.match
             bare == Costs!NewRun.accounts
             x == [costRun[r] EXCEPT !.pc = "costs", !.plain = {}, !.known = {}, !.sure = {},
                      !.match = none, !.accounts = bare, !.moved = FALSE]
  <1>1. Costs!Set(r, x)
    BY DEF Costs!UpsertMappings
  <1>2. /\ UNCHANGED <<kindOfSite, day, spent, holds, costs, staleRows, promised, passed>>
        /\ \A k \in Keys :
               /\ keyMap'[k].fingerprint = (keyMap[k].fingerprint \/ k \in costRun[r].known)
               /\ keyMap'[k].account = costRun[r].match[k]
        /\ blind' = Costs!StoredKeys \ costRun[r].sure
        /\ rekeyed' = IF costRun[r].moved THEN Keys ELSE {}
    BY DEF Costs!UpsertMappings, Costs!outside
  <1>3. costRun'[r] = x
    BY <1>1, OneActs
  <1> HIDE DEF none, bare
  <1>4. /\ DOMAIN x = Fields /\ x.pc = "costs" /\ x.read = costRun[r].read
        /\ x.amounts = costRun[r].amounts /\ x.date = costRun[r].date
        /\ x.began = costRun[r].began
    BY <1>0 DEF Fields
  <1> HIDE DEF x
  <1>5. CostRunShape(r)' /\ KnowsPage(r)' /\ DoneSoFar(r)' /\ KnowsAccounts(r)'
    BY <1>0, <1>2, <1>3, <1>4 DEF RunHolds, CostRunShape, KnowsPage, DoneSoFar, KnowsAccounts,
       Stages
  <1>6. KnowsToday(r)'
    BY <1>0, <1>2, <1>3, <1>4 DEF RunHolds, KnowsToday, Tops, CostTypes
  <1>7. ASSUME NEW k \in Keys, keyMap'[k].fingerprint, k \notin blind', k \notin rekeyed'
        PROVE  keyMap'[k].account = Costs!matchCostAccount(k, TRUE, holds)
    <2>1. costRun[r].moved = FALSE /\ costRun[r].accounts = holds
      BY <1>0, <1>2, <1>7 DEF RunHolds, KnowsAccounts
    <2>2. k \in costRun[r].known
      BY <1>0, <1>2, <1>7 DEF RunHolds, KnowsAccounts, Costs!StoredKeys
    <2>3. costRun[r].match[k] =
              Costs!matchCostAccount(k, k \in costRun[r].known, costRun[r].accounts)
      BY <1>0 DEF RunHolds, KnowsAccounts
    <2>4. (k \in costRun[r].known) = TRUE
      BY <2>2
    <2> QED BY <1>2, <2>1, <2>3, <2>4
  <1>8. Costs!MatchIsTrue'
    BY <1>2, <1>7 DEF Costs!MatchIsTrue
  <1> QED BY <1>1, <1>2, <1>5, <1>6, <1>8, ActsQuietly DEF RunHolds, x, none, bare, CostInv,
          CostTypes

\* A page that is read gives days that are over in full; days left out cost nothing.
LEMMA CostPaged ==
    ASSUME CostInv, NEW r \in Runs, Costs!FetchPage(r)
    PROVE  CostInv'
  <1>0. /\ CostTypes /\ Costs!NeverMore /\ RunHolds(r) /\ DOMAIN costRun[r] = Fields
        /\ Costs!Days \subseteq Nat /\ costRun[r].pc = "page"
    BY AllFields, DaysCount DEF CostInv, Costs!FetchPage
  <1>1. PICK i \in Costs!Due(r) :
           Costs!Set(r, [costRun[r] EXCEPT !.pc = "write", !.left = @ \ {i},
                            !.page = Costs!Page(i), !.read = day])
    BY DEF Costs!FetchPage
  <1>2. /\ UNCHANGED <<kindOfSite, day, spent, holds, costs, staleRows, promised, keyMap, blind,
                       rekeyed>>
        /\ passed' = [passed EXCEPT ![r] = {}]
    BY DEF Costs!FetchPage, Costs!outside
  <1>3. i \in costRun[r].left /\ (IF kindOfSite = "sub2api" THEN i \in Keys ELSE i \in Costs!Days)
    BY <1>0 DEF Costs!Due, RunHolds, DoneSoFar
  <1> DEFINE g == Costs!Page(i)
             x == [costRun[r] EXCEPT !.pc = "write", !.left = @ \ {i}, !.page = g, !.read = day]
  <1>4. costRun'[r] = x
    BY <1>1, OneActs
  <1>5. /\ g \in SUBSET (Keys \X Costs!Days \X Nat)
        /\ \A k \in Keys, d \in Costs!Days, n \in Nat : <<k, d, n>> \in g => n = spent[k][d]
        /\ \A k \in Keys, d \in Costs!Days : d < day /\ Index(k, d) = i =>
               <<k, d, spent[k][d]>> \in g \/ spent[k][d] = 0
    <2>1. 0..day \subseteq Costs!Days
      BY <1>0, PartsAssumption DEF CostTypes, Costs!Days, Costs!CostAssumption
    <2>2. CASE kindOfSite = "sub2api"
      <3>1. g = {<<i, d, spent[i][d]>> : d \in {e \in 0..day : spent[i][e] > 0}}
        BY <2>2 DEF Costs!Page
      <3>2. i \in Keys /\ \A d \in Costs!Days : spent[i][d] \in Nat
        BY <1>0, <1>3, <2>2 DEF CostTypes
      <3>3. g \in SUBSET (Keys \X Costs!Days \X Nat)
        BY <2>1, <3>1, <3>2
      <3>4. \A k \in Keys, d \in Costs!Days, n \in Nat : <<k, d, n>> \in g => n = spent[k][d]
        BY <3>1
      <3>5. ASSUME NEW d \in Costs!Days, d < day, spent[i][d] # 0
            PROVE  <<i, d, spent[i][d]>> \in g
        BY <1>0, <3>1, <3>2, <3>5 DEF CostTypes
      <3> QED BY <2>2, <3>3, <3>4, <3>5 DEF Index
    <2>3. CASE kindOfSite # "sub2api"
      <3>1. g = {<<k, i, spent[k][i]>> : k \in Keys}
        BY <2>3 DEF Costs!Page
      <3>2. i \in Costs!Days /\ \A k \in Keys : spent[k][i] \in Nat
        BY <1>0, <1>3, <2>3 DEF CostTypes
      <3>3. g \in SUBSET (Keys \X Costs!Days \X Nat)
        BY <3>1, <3>2
      <3>4. \A k \in Keys, d \in Costs!Days, n \in Nat : <<k, d, n>> \in g => n = spent[k][d]
        BY <3>1
      <3>5. \A k \in Keys : <<k, i, spent[k][i]>> \in g
        BY <3>1
      <3> QED BY <2>3, <3>3, <3>4, <3>5 DEF Index
    <2> QED BY <2>2, <2>3
  <1> HIDE DEF g
  <1>6. /\ DOMAIN x = Fields /\ x.pc = "write" /\ x.left = costRun[r].left \ {i} /\ x.page = g
        /\ x.read = day /\ x.began = costRun[r].began /\ x.errors = costRun[r].errors
    BY <1>0 DEF Fields
  <1> HIDE DEF x
  <1>7. CostRunShape(r)' /\ KnowsAccounts(r)' /\ KnowsToday(r)'
    BY <1>0, <1>2, <1>4, <1>6 DEF RunHolds, CostRunShape, KnowsAccounts, KnowsToday, Stages
  <1>8. KnowsPage(r)'
    <2>1. OneEach(g)
      BY <1>5 DEF OneEach
    <2>2. ASSUME NEW k \in Keys, NEW d \in Costs!Days, NEW n \in Nat, <<k, d, n>> \in g
          PROVE  /\ n <= spent[k][d] /\ n = spent[k][d]
                 /\ <<k, d>> \notin staleRows => \A m \in costs[k][d] : m <= n
      BY <1>0, <1>5, <2>2 DEF Costs!NeverMore
    <2>3. x.began <= day
      BY <1>0, <1>6 DEF RunHolds, CostRunShape
    <2> QED BY <1>0, <1>2, <1>4, <1>5, <1>6, <2>1, <2>2, <2>3 DEF KnowsPage, Tops, CostTypes
  <1>9. DoneSoFar(r)'
    <2>1. ASSUME NEW k \in Keys, NEW d \in Costs!Days, x.errors = FALSE, d < x.began,
                 Index(k, d) \notin x.left
          PROVE  Settled(k, d) \/ <<k, d, spent[k][d]>> \in g
      <3>1. CASE Index(k, d) \notin costRun[r].left
        BY <1>0, <1>6, <2>1, <3>1 DEF RunHolds, DoneSoFar
      <3>2. CASE Index(k, d) = i
        <4>1. d < day
          BY <1>0, <1>6, <2>1 DEF RunHolds, CostRunShape, CostTypes
        <4>2. <<k, d, spent[k][d]>> \in g \/ spent[k][d] = 0
          BY <1>5, <3>2, <4>1
        <4>3. costs[k][d] \in SUBSET Nat
          BY <1>0 DEF CostTypes
        <4>4. ASSUME spent[k][d] = 0, <<k, d>> \notin staleRows
              PROVE  costs[k][d] = {} \/ costs[k][d] = {0}
          BY <1>0, <4>3, <4>4 DEF Costs!NeverMore
        <4> QED BY <4>2, <4>4 DEF Settled
      <3> QED BY <1>6, <2>1, <3>1, <3>2
    <2>2. \A k \in Keys, d \in Costs!Days : Index(k, d)' = Index(k, d)
      BY <1>2 DEF Index
    <2>3. \A k \in Keys, d \in Costs!Days : Settled(k, d) => Settled(k, d)'
      BY <1>2 DEF Settled, Costs!Kept
    <2> QED BY <1>0, <1>2, <1>4, <1>6, <2>1, <2>2, <2>3 DEF RunHolds, DoneSoFar
  <1>10. passed' \in [Runs -> SUBSET Table] /\ \A q \in Runs \ {r} : passed'[q] = passed[q]
    BY <1>0, <1>2 DEF CostTypes
  <1>11. Costs!MatchIsTrue'
    BY <1>2, MatchKept DEF CostInv
  <1> QED BY <1>1, <1>2, <1>7, <1>8, <1>9, <1>10, <1>11, ActsQuietly DEF RunHolds, x, g

\* A step of one run that writes costs.
LEMMA ActsWriting ==
    ASSUME CostInv, NEW r \in Runs, NEW x, Costs!Set(r, x), World, OneAmount', Costs!NeverMore',
           \A q \in Runs \ {r} : Undisturbed(q),
           costs' \in [Keys -> [Costs!Days -> SUBSET Nat]], passed' \in [Runs -> SUBSET Table],
           UNCHANGED <<holds, promised, keyMap, blind, rekeyed>>, RunHolds(r)'
    PROVE  CostInv'
  <1>1. PastSettled' /\ promised' \in Costs!Days /\ promised' <= day'
    BY PromiseKept
  <1>2. /\ costRun' = [q \in Runs |-> costRun'[q]]
        /\ \A q \in Runs \ {r} : costRun'[q] = costRun[q]
    BY OneActs
  <1>3. CostTypes'
    BY <1>1, <1>2 DEF CostTypes, World
  <1>4. ASSUME NEW q \in Runs
        PROVE  RunHolds(q)'
    <2>1. CASE q = r
      BY <2>1
    <2>2. CASE q # r
      BY <1>2, <2>2, RunKept
    <2> QED BY <2>1, <2>2
  <1>5. Costs!MatchIsTrue'
    BY MatchKept DEF CostInv
  <1> QED BY <1>1, <1>3, <1>4, <1>5 DEF CostInv

\* Today's costs: rows of another day than the one they were read on are stale, and the others
\* give what was used and no less than is stored.
LEMMA CostWritten ==
    ASSUME CostInv, NEW r \in Runs, Costs!WriteCosts(r)
    PROVE  CostInv' /\ Costs!NeverFalls
  <1>0. /\ CostTypes /\ RunHolds(r) /\ Costs!Days \subseteq Nat /\ costRun[r].pc = "costs"
    BY DaysCount DEF CostInv, Costs!WriteCosts
  <1> DEFINE g == Costs!CostsOfToday(r)
             d0 == costRun[r].date
             back == [Costs!NewRun EXCEPT !.pc = "page", !.began = costRun[r].began,
                         !.left = IF kindOfSite = "sub2api" THEN Keys ELSE 0..day]
             ends == [Costs!NewRun EXCEPT !.pc = "state", !.failed = costRun[r].failed]
             x == IF costRun[r].back /\ ~costRun[r].failed THEN back ELSE ends
  <1>1. /\ Costs!UpsertCosts(r, g, costRun[r].read) /\ Costs!Set(r, x)
        /\ UNCHANGED <<kindOfSite, day, spent, holds, promised, keyMap, blind, rekeyed>>
    BY DEF Costs!WriteCosts, Costs!outside
  <1>2. /\ costRun[r].read \in Costs!Days /\ costRun[r].read <= d0 /\ d0 \in Costs!Days
        /\ d0 <= day /\ DOMAIN costRun[r].amounts \subseteq Keys
        /\ \A k \in DOMAIN costRun[r].amounts :
               /\ costRun[r].amounts[k] \in Nat
               /\ costRun[r].amounts[k] <= spent[k][costRun[r].read]
               /\ Tops(r, k, costRun[r].read, costRun[r].amounts[k])
    BY <1>0 DEF RunHolds, KnowsToday
  <1>3. /\ g \in SUBSET (Keys \X Costs!Days \X Nat)
        /\ \A k \in Keys, d \in Costs!Days, n \in Nat : <<k, d, n>> \in g =>
               k \in DOMAIN costRun[r].amounts /\ d = d0 /\ n = costRun[r].amounts[k]
    <2>1. g = {<<k, d0, costRun[r].amounts[k]>> : k \in DOMAIN costRun[r].amounts}
      BY DEF Costs!CostsOfToday, Costs!Today
    <2> HIDE DEF g, d0
    <2> QED BY <1>2, <2>1
  <1> HIDE DEF g
  <1>4. OneEach(g)
    BY <1>3 DEF OneEach
  <1>5. ASSUME NEW k \in Keys, NEW d \in Costs!Days, NEW n \in Nat, <<k, d, n>> \in g,
               Costs!Whole(d, costRun[r].read)
        PROVE  /\ n <= spent[k][d] /\ (d < day => n = spent[k][d])
               /\ Tops(r, k, d, n)
    <2>1. d = d0 /\ n = costRun[r].amounts[k] /\ k \in DOMAIN costRun[r].amounts
      BY <1>3, <1>5
    <2>2. costRun[r].read = d /\ d = day
      BY <1>0, <1>2, <1>5, <2>1 DEF Costs!Whole, CostTypes
    <2> QED BY <1>0, <1>2, <2>1, <2>2 DEF CostTypes
  <1>6. /\ World /\ OneAmount' /\ Costs!NeverMore'
        /\ \A q \in Runs \ {r} : Undisturbed(q)
        /\ \A k \in Keys, d \in Costs!Days :
               Costs!Falls(k, d) =>
                   \/ <<k, d>> \in staleRows' \/ <<k, d>> \in staleRows
                   \/ <<k, d>> \in passed[r]
        /\ costs' \in [Keys -> [Costs!Days -> SUBSET Nat]]
        /\ passed' \in [Runs -> SUBSET Table]
    BY <1>1, <1>2, <1>3, <1>4, <1>5, WriteKeeps
  <1>7. costRun'[r] = x
    BY <1>1, OneActs
  <1>8. RunHolds(r)'
    <2>1. CASE costRun[r].back /\ ~costRun[r].failed
      <3> DEFINE s == IF kindOfSite = "sub2api" THEN Keys ELSE 0..day
                 b == costRun[r].began
                 y == [Costs!NewRun EXCEPT !.pc = "page", !.began = b, !.left = s]
      <3>1. costRun'[r] = y
        BY <1>7, <2>1
      <3> HIDE DEF s, b
      <3>2. /\ DOMAIN y = Fields /\ y.pc = "page" /\ y.began = b /\ y.left = s
            /\ y.errors = FALSE
        BY FreshRun DEF Fields
      <3> HIDE DEF y
      <3>3. /\ costRun'[r].pc = "page" /\ DOMAIN costRun'[r] = Fields
            /\ costRun'[r].began = b /\ costRun'[r].left = s /\ costRun'[r].errors = FALSE
        BY <3>1, <3>2
      <3>4. b \in Costs!Days /\ b <= day
        BY <1>0 DEF RunHolds, CostRunShape, b
      <3>5. CostRunShape(r)' /\ KnowsAccounts(r)' /\ KnowsToday(r)' /\ KnowsPage(r)'
        BY <1>1, <3>3, <3>4 DEF CostRunShape, KnowsAccounts, KnowsToday, KnowsPage, Stages
      <3>6. s \subseteq IF kindOfSite = "sub2api" THEN Keys ELSE Costs!Days
        BY <1>0, PartsAssumption DEF s, CostTypes, Costs!Days, Costs!CostAssumption
      <3>7. \A k \in Keys, d \in Costs!Days : d < b => Index(k, d)' \in s
        BY <1>0, <1>1, <3>4 DEF Index, s, CostTypes
      <3>8. DoneSoFar(r)'
        BY <1>1, <3>3, <3>6, <3>7 DEF DoneSoFar
      <3> QED BY <3>5, <3>8 DEF RunHolds
    <2>2. CASE ~(costRun[r].back /\ ~costRun[r].failed)
      <3> DEFINE e == costRun[r].failed
                 y == [Costs!NewRun EXCEPT !.pc = "state", !.failed = e]
      <3>1. costRun'[r] = y
        BY <1>7, <2>2
      <3> HIDE DEF e
      <3>2. DOMAIN y = Fields /\ y.pc = "state"
        BY FreshRun DEF Fields
      <3> QED BY <3>1, <3>2, AtRest
    <2> QED BY <2>1, <2>2
  <1> HIDE DEF x
  <1>9. CostInv'
    BY <1>1, <1>6, <1>8, ActsWriting
  <1> QED BY <1>0, <1>6, <1>9 DEF Costs!NeverFalls

\* A page that could not be had leaves what was settled.
LEMMA CostSkipped ==
    ASSUME CostInv, NEW r \in Runs, Costs!PageFails(r)
    PROVE  CostInv'
  <1>0. /\ CostTypes /\ RunHolds(r) /\ DOMAIN costRun[r] = Fields /\ costRun[r].pc = "page"
        /\ Costs!Days \subseteq Nat
    BY AllFields, DaysCount DEF CostInv, Costs!PageFails
  <1>1. PICK i \in Costs!Due(r) :
           Costs!Set(r, [costRun[r] EXCEPT !.errors = TRUE,
                            !.left = IF kindOfSite = "sub2api" THEN @ \ {i} ELSE {}])
    BY DEF Costs!PageFails
  <1>2. UNCHANGED <<kindOfSite, day, spent, holds, costs, staleRows, promised, passed, keyMap,
                    blind, rekeyed>>
    BY DEF Costs!PageFails, Costs!outside, Costs!history
  <1> DEFINE s == IF kindOfSite = "sub2api" THEN costRun[r].left \ {i} ELSE {}
             x == [costRun[r] EXCEPT !.errors = TRUE, !.left = s]
  <1>3. Costs!Set(r, x)
    BY <1>1
  <1>4. costRun'[r] = x
    BY <1>3, OneActs
  <1>5. s \subseteq IF kindOfSite = "sub2api" THEN Keys ELSE Costs!Days
    BY <1>0 DEF RunHolds, DoneSoFar
  <1> HIDE DEF s
  <1>6. /\ DOMAIN x = Fields /\ x.pc = "page" /\ x.errors = TRUE /\ x.left = s
        /\ x.began = costRun[r].began
    BY <1>0 DEF Fields
  <1> HIDE DEF x
  <1>7. RunHolds(r)'
    BY <1>0, <1>2, <1>4, <1>5, <1>6 DEF RunHolds, CostRunShape, KnowsAccounts, KnowsToday,
       KnowsPage, DoneSoFar, Stages
  <1>8. Costs!MatchIsTrue'
    BY <1>2, MatchKept DEF CostInv
  <1> QED BY <1>0, <1>2, <1>3, <1>7, <1>8, ActsQuietly DEF CostTypes

\* A page that is written settles the days it holds.
LEMMA CostPageWritten ==
    ASSUME CostInv, NEW r \in Runs, Costs!WritePage(r)
    PROVE  CostInv' /\ (UNCHANGED costs \/ Costs!NeverFalls)
  <1>0. /\ CostTypes /\ RunHolds(r) /\ DOMAIN costRun[r] = Fields /\ costRun[r].pc = "write"
        /\ Costs!Days \subseteq Nat
    BY AllFields, DaysCount DEF CostInv, Costs!WritePage
  <1>1. UNCHANGED <<kindOfSite, day, spent, holds, keyMap, blind, rekeyed, promised>>
    BY DEF Costs!WritePage, Costs!outside
  <1>2. CASE /\ Costs!UpsertCosts(r, costRun[r].page, costRun[r].read)
             /\ Costs!Set(r, [costRun[r] EXCEPT !.pc = "page", !.page = {}])
    <2> DEFINE x == [costRun[r] EXCEPT !.pc = "page", !.page = {}]
               g == costRun[r].page
               e == costRun[r].read
    <2>1. costRun'[r] = x /\ Costs!Set(r, x)
      BY <1>2, OneActs
    <2>2. /\ DOMAIN x = Fields /\ x.pc = "page" /\ x.left = costRun[r].left
          /\ x.began = costRun[r].began /\ x.errors = costRun[r].errors
      BY <1>0 DEF Fields
    <2> HIDE DEF x
    <2>3. /\ e \in Costs!Days /\ costRun[r].began <= e /\ e <= day
          /\ g \in SUBSET (Keys \X Costs!Days \X Nat) /\ OneEach(g)
          /\ \A k \in Keys, d \in Costs!Days, n \in Nat : <<k, d, n>> \in g =>
                 /\ n <= spent[k][d] /\ (d < e => n = spent[k][d])
                 /\ Tops(r, k, d, n)
      BY <1>0 DEF RunHolds, KnowsPage
    <2>4. Costs!UpsertCosts(r, g, e)
      BY <1>2
    <2> HIDE DEF g, e
    <2>5. ASSUME NEW k \in Keys, NEW d \in Costs!Days, NEW n \in Nat, <<k, d, n>> \in g,
                 Costs!Whole(d, e)
          PROVE  /\ n <= spent[k][d] /\ (d < day => n = spent[k][d])
                 /\ Tops(r, k, d, n)
      BY <1>0, <2>3, <2>5 DEF Costs!Whole, CostTypes
    <2>6. /\ World /\ OneAmount' /\ Costs!NeverMore'
          /\ \A q \in Runs \ {r} : Undisturbed(q)
          /\ \A k \in Keys, d \in Costs!Days :
                 Costs!Falls(k, d) =>
                     \/ <<k, d>> \in staleRows' \/ <<k, d>> \in staleRows
                     \/ <<k, d>> \in passed[r]
          /\ \A k \in Keys, d \in Costs!Days :
                 <<k, d, spent[k][d]>> \in g /\ d < e => Settled(k, d)'
          /\ costs' \in [Keys -> [Costs!Days -> SUBSET Nat]]
          /\ passed' \in [Runs -> SUBSET Table]
      BY <1>1, <2>3, <2>4, <2>5, WriteKeeps
    <2>7. CostRunShape(r)' /\ KnowsAccounts(r)' /\ KnowsToday(r)' /\ KnowsPage(r)'
      BY <1>0, <1>1, <2>1, <2>2 DEF RunHolds, CostRunShape, KnowsAccounts, KnowsToday, KnowsPage,
         Stages
    <2>8. ASSUME NEW k \in Keys, NEW d \in Costs!Days, x.errors = FALSE, d < x.began,
                 Index(k, d) \notin x.left
          PROVE  Settled(k, d)'
      <3>1. Settled(k, d) \/ <<k, d, spent[k][d]>> \in g
        BY <1>0, <2>2, <2>8 DEF RunHolds, DoneSoFar, g
      <3>2. x.began \in Costs!Days /\ x.began <= day
        BY <1>0, <2>2 DEF RunHolds, CostRunShape
      <3>3. d < day /\ d < e
        BY <1>0, <2>2, <2>3, <2>8, <3>2 DEF CostTypes
      <3> QED BY <2>6, <3>1, <3>3 DEF World
    <2>9. \A k \in Keys, d \in Costs!Days : Index(k, d)' = Index(k, d)
      BY <1>1 DEF Index
    <2>10. DoneSoFar(r)'
      BY <1>0, <1>1, <2>1, <2>2, <2>8, <2>9 DEF RunHolds, DoneSoFar
    <2>11. CostInv'
      BY <1>1, <2>1, <2>6, <2>7, <2>10, ActsWriting DEF RunHolds
    <2> QED BY <1>0, <2>6, <2>11 DEF Costs!NeverFalls
  <1>3. CASE /\ Costs!Set(r, [costRun[r] EXCEPT !.pc = "page", !.page = {}, !.left = {},
                                 !.errors = TRUE])
             /\ UNCHANGED <<costs, staleRows, passed>>
    <2> DEFINE x == [costRun[r] EXCEPT !.pc = "page", !.page = {}, !.left = {}, !.errors = TRUE]
    <2>1. costRun'[r] = x /\ Costs!Set(r, x)
      BY <1>3, OneActs
    <2>2. /\ DOMAIN x = Fields /\ x.pc = "page" /\ x.left = {} /\ x.errors = TRUE
          /\ x.began = costRun[r].began
      BY <1>0 DEF Fields
    <2> HIDE DEF x
    <2>3. RunHolds(r)'
      BY <1>0, <1>1, <1>3, <2>1, <2>2 DEF RunHolds, CostRunShape, KnowsAccounts, KnowsToday,
         KnowsPage, DoneSoFar, Stages
    <2>4. Costs!MatchIsTrue'
      BY <1>1, MatchKept DEF CostInv
    <2> QED BY <1>0, <1>1, <1>3, <2>1, <2>3, <2>4, ActsQuietly DEF CostTypes
  <1> QED BY <1>2, <1>3 DEF Costs!WritePage

\* A run that saves its state promises the days before it began only when all of them are settled.
LEMMA CostSaved ==
    ASSUME CostInv, NEW r \in Runs, Costs!SaveSyncState(r)
    PROVE  CostInv'
  <1>0. CostTypes /\ RunHolds(r) /\ Costs!Days \subseteq Nat
    BY DaysCount DEF CostInv
  <1>1. /\ Costs!Set(r, Costs!NoRun)
        /\ UNCHANGED <<kindOfSite, day, spent, holds, costs, staleRows, passed, keyMap, blind,
                       rekeyed>>
        /\ promised' = IF Costs!BackfillDone(r) /\ costRun[r].began > promised
                       THEN costRun[r].began ELSE promised
    BY DEF Costs!SaveSyncState, Costs!outside
  <1>2. /\ World /\ OneAmount' /\ Costs!NeverMore'
        /\ \A q \in Runs : Undisturbed(q)
    BY <1>1, RowsUntouched
  <1>3. /\ costRun'[r] = Costs!NoRun /\ costRun' = [q \in Runs |-> costRun'[q]]
        /\ \A q \in Runs \ {r} : costRun'[q] = costRun[q]
    BY <1>1, OneActs
  <1>4. RunHolds(r)'
    BY <1>3, AtRest DEF Costs!NoRun
  <1>5. \A q \in Runs : RunHolds(q)'
    BY <1>1, <1>2, <1>3, <1>4, RunKept
  <1>6. Costs!MatchIsTrue'
    BY <1>1, MatchKept DEF CostInv
  <1>7. PastSettled' /\ promised' \in Costs!Days /\ promised' <= day'
    <2>1. CASE Costs!BackfillDone(r) /\ costRun[r].began > promised
      <3>1. /\ costRun[r].pc = "page" /\ costRun[r].left = {} /\ costRun[r].errors = FALSE
        BY <1>0, <2>1 DEF Costs!BackfillDone, Costs!PagesDone, RunHolds, DoneSoFar
      <3>2. /\ promised' = costRun[r].began /\ costRun[r].began \in Costs!Days
            /\ costRun[r].began <= day
        BY <1>0, <1>1, <2>1, <3>1 DEF RunHolds, CostRunShape
      <3>3. \A k \in Keys, d \in Costs!Days : d < costRun[r].began => Settled(k, d)
        BY <1>0, <3>1 DEF RunHolds, DoneSoFar
      <3>4. \A k \in Keys, d \in Costs!Days : d < promised' => d < day /\ Settled(k, d)
        BY <1>0, <3>2, <3>3 DEF CostTypes
      <3> QED BY <1>1, <1>2, <3>2, <3>4 DEF PastSettled, World
    <2>2. CASE ~(Costs!BackfillDone(r) /\ costRun[r].began > promised)
      BY <1>1, <1>2, <2>2, PromiseKept
    <2> QED BY <2>1, <2>2
  <1>8. CostTypes'
    BY <1>0, <1>1, <1>3, <1>7 DEF CostTypes
  <1> QED BY <1>2, <1>5, <1>6, <1>7, <1>8 DEF CostInv

\* A step that is no run's, and that no run notices.
LEMMA CostGoesOn ==
    ASSUME CostInv, World, OneAmount', Costs!NeverMore', \A q \in Runs : Undisturbed(q),
           UNCHANGED <<holds, costRun, passed, promised, keyMap, blind, rekeyed>>,
           costs' \in [Keys -> [Costs!Days -> SUBSET Nat]]
    PROVE  CostInv'
  <1>1. PastSettled' /\ promised' \in Costs!Days /\ promised' <= day'
    BY PromiseKept
  <1>2. \A q \in Runs : RunHolds(q)'
    BY RunKept
  <1>3. Costs!MatchIsTrue'
    BY MatchKept DEF CostInv
  <1>4. CostTypes'
    BY <1>1 DEF CostInv, CostTypes, World
  <1> QED BY <1>1, <1>2, <1>3, <1>4 DEF CostInv

\* Old rows are deleted, and only those.
LEMMA CostCleaned ==
    ASSUME CostInv, Costs!Cleanup
    PROVE  CostInv' /\ Costs!NeverFalls
  <1>0. CostTypes /\ OneAmount /\ Costs!NeverMore
    BY DEF CostInv
  <1>1. /\ UNCHANGED <<kindOfSite, day, spent, holds, costRun, staleRows, passed, promised, keyMap,
                       blind, rekeyed>>
        /\ costs' = [k \in Keys |-> [d \in Costs!Days |->
                         IF Costs!Kept(d) THEN costs[k][d] ELSE {}]]
    BY DEF Costs!Cleanup, Costs!outside, Costs!history
  <1>2. costs' \in [Keys -> [Costs!Days -> SUBSET Nat]]
    BY <1>0, <1>1 DEF CostTypes
  <1>3. \A k \in Keys, d \in Costs!Days :
            costs'[k][d] = costs[k][d] \/ (costs'[k][d] = {} /\ ~Costs!Kept(d))
    BY <1>1
  <1>4. \A k \in Keys, d \in Costs!Days : Settled(k, d) => Settled(k, d)'
    BY <1>1, <1>3 DEF Settled, Costs!Kept
  <1>5. World
    BY <1>0, <1>1, <1>4, DaysCount DEF World, CostTypes
  <1>6. OneAmount' /\ Costs!NeverMore'
    BY <1>0, <1>1, <1>3 DEF OneAmount, Costs!NeverMore
  <1>7. \A q \in Runs : Undisturbed(q)
    BY <1>1, <1>3 DEF Undisturbed
  <1>8. CostInv'
    BY <1>1, <1>2, <1>5, <1>6, <1>7, CostGoesOn
  <1>9. ASSUME NEW k \in Keys, NEW d \in Costs!Days, Costs!Falls(k, d)
        PROVE  FALSE
    <2>1. PICK n \in costs[k][d], m \in costs'[k][d] : m < n
      BY <1>9 DEF Costs!Falls
    <2>2. m \in costs[k][d]
      BY <1>3, <2>1
    <2>3. m = n /\ n \in Nat
      BY <1>0, <2>1, <2>2 DEF OneAmount, CostTypes
    <2> QED BY <2>1, <2>3
  <1> QED BY <1>8, <1>9 DEF Costs!NeverFalls

\* A key is used: today's amount grows.
LEMMA CostUsed ==
    ASSUME CostInv, NEW k \in Keys, Costs!Use(k)
    PROVE  CostInv' /\ UNCHANGED costs
  <1>0. CostTypes /\ OneAmount /\ Costs!NeverMore /\ Costs!Days \subseteq Nat
    BY DaysCount DEF CostInv
  <1>1. /\ UNCHANGED <<kindOfSite, day, holds, costs, costRun, staleRows, passed, promised, keyMap,
                       blind, rekeyed>>
        /\ spent' = [spent EXCEPT ![k][day] = @ + 1]
    BY DEF Costs!Use, Costs!history
  <1>2. /\ spent' \in [Keys -> [Costs!Days -> Nat]]
        /\ \A j \in Keys, d \in Costs!Days :
               /\ spent[j][d] <= spent'[j][d]
               /\ d < day => spent'[j][d] = spent[j][d]
    BY <1>0, <1>1 DEF CostTypes
  <1>3. World
    BY <1>0, <1>1, <1>2 DEF World, CostTypes, Settled, Costs!Kept
  <1>4. Costs!NeverMore'
    <2>1. ASSUME NEW j \in Keys, NEW d \in Costs!Days, <<j, d>> \notin staleRows',
                 NEW n \in costs'[j][d]
          PROVE  n <= spent'[j][d]
      <3>1. n \in Nat /\ n <= spent[j][d]
        BY <1>0, <1>1, <2>1 DEF Costs!NeverMore, CostTypes
      <3>2. spent[j][d] \in Nat /\ spent'[j][d] \in Nat /\ spent[j][d] <= spent'[j][d]
        BY <1>0, <1>2 DEF CostTypes
      <3> QED BY <3>1, <3>2
    <2> QED BY <2>1 DEF Costs!NeverMore
  <1>5. OneAmount' /\ \A q \in Runs : Undisturbed(q)
    BY <1>0, <1>1 DEF OneAmount, Undisturbed
  <1>6. costs' \in [Keys -> [Costs!Days -> SUBSET Nat]]
    BY <1>0, <1>1 DEF CostTypes
  <1> QED BY <1>1, <1>3, <1>4, <1>5, <1>6, CostGoesOn

\* A day ends: fewer rows are kept.
LEMMA CostNextDay ==
    ASSUME CostInv, Costs!NextDay
    PROVE  CostInv' /\ UNCHANGED costs
  <1>0. /\ CostTypes /\ OneAmount /\ Costs!NeverMore /\ Costs!Days \subseteq Nat
        /\ Retention \in Nat /\ LastDay \in Nat
    BY DaysCount, PartsAssumption DEF CostInv, Costs!CostAssumption
  <1>1. /\ UNCHANGED <<kindOfSite, spent, holds, costs, costRun, staleRows, passed, promised,
                       keyMap, blind, rekeyed>>
        /\ day < LastDay /\ day' = day + 1
    BY DEF Costs!NextDay, Costs!history
  <1>2. day' \in Costs!Days /\ day <= day'
    BY <1>0, <1>1 DEF CostTypes, Costs!Days
  <1>3. \A k \in Keys, d \in Costs!Days : Settled(k, d) => Settled(k, d)'
    BY <1>0, <1>1 DEF Settled, Costs!Kept, CostTypes
  <1>4. World
    BY <1>0, <1>1, <1>2, <1>3 DEF World, CostTypes
  <1>5. OneAmount' /\ Costs!NeverMore' /\ \A q \in Runs : Undisturbed(q)
    BY <1>0, <1>1 DEF OneAmount, Costs!NeverMore, Undisturbed
  <1>6. costs' \in [Keys -> [Costs!Days -> SUBSET Nat]]
    BY <1>0, <1>1 DEF CostTypes
  <1> QED BY <1>1, <1>4, <1>5, <1>6, CostGoesOn

\* Accounts that change are marked in the runs that hold older ones, and in what is stored.
LEMMA CostRekeyed ==
    ASSUME CostInv, NEW a \in Accounts, Costs!Rekey(a)
    PROVE  CostInv' /\ UNCHANGED costs
  <1>1. /\ UNCHANGED <<kindOfSite, day, spent, costs, staleRows, passed, promised, keyMap, blind>>
        /\ rekeyed' = Keys
        /\ costRun' = [r \in Runs |->
               IF costRun[r].pc \notin {"fetch", "match", "map"} THEN costRun[r]
               ELSE [costRun[r] EXCEPT !.moved = TRUE]]
    BY DEF Costs!Rekey
  <1>2. World /\ OneAmount' /\ Costs!NeverMore' /\ \A q \in Runs : Undisturbed(q)
    BY <1>1, RowsUntouched
  <1>3. PastSettled' /\ promised' \in Costs!Days /\ promised' <= day'
    BY <1>1, <1>2, PromiseKept
  <1>4. CostTypes'
    BY <1>1, <1>3 DEF CostInv, CostTypes
  <1>5. Costs!MatchIsTrue'
    BY <1>1 DEF Costs!MatchIsTrue
  <1>6. ASSUME NEW r \in Runs
        PROVE  RunHolds(r)'
    <2>0. RunHolds(r) /\ CostTypes
      BY DEF CostInv
    <2>1. CASE costRun[r].pc \notin {"fetch", "match", "map"}
      <3>1. costRun'[r] = costRun[r]
        BY <1>1, <2>1
      <3>2. KnowsAccounts(r)'
        BY <2>1, <3>1 DEF KnowsAccounts
      <3>3. CostRunShape(r)' /\ KnowsToday(r)' /\ KnowsPage(r)'
        BY <1>1, <2>0, <3>1 DEF RunHolds, CostRunShape, KnowsToday, KnowsPage, Tops
      <3>4. DoneSoFar(r)'
        <4>1. \A k \in Keys, d \in Costs!Days : Settled(k, d) => Settled(k, d)'
          BY <1>1 DEF Settled, Costs!Kept
        <4> QED BY <1>1, <2>0, <3>1, <4>1 DEF RunHolds, DoneSoFar, Index
      <3> QED BY <3>2, <3>3, <3>4 DEF RunHolds
    <2>2. CASE costRun[r].pc \in {"fetch", "match", "map"}
      <3> DEFINE x == [costRun[r] EXCEPT !.moved = TRUE]
      <3>1. costRun'[r] = x
        BY <1>1, <2>2
      <3>2. DOMAIN costRun[r] = Fields
        BY <2>2, AllFields
      <3>3. /\ DOMAIN x = Fields /\ x.moved = TRUE /\ x.pc = costRun[r].pc
            /\ x.began = costRun[r].began /\ x.read = costRun[r].read
            /\ x.amounts = costRun[r].amounts /\ x.date = costRun[r].date
            /\ x.known = costRun[r].known /\ x.sure = costRun[r].sure
            /\ x.match = costRun[r].match /\ x.accounts = costRun[r].accounts
        BY <3>2 DEF Fields
      <3> HIDE DEF x
      <3>4. CostRunShape(r)' /\ KnowsPage(r)' /\ DoneSoFar(r)'
        BY <1>1, <2>0, <2>2, <3>1, <3>3 DEF RunHolds, CostRunShape, KnowsPage, DoneSoFar
      <3>5. KnowsAccounts(r)'
        BY <2>0, <2>2, <3>1, <3>3 DEF RunHolds, KnowsAccounts
      <3>6. KnowsToday(r)'
        BY <1>1, <2>0, <2>2, <3>1, <3>3 DEF RunHolds, KnowsToday, Tops
      <3> QED BY <3>4, <3>5, <3>6 DEF RunHolds
    <2> QED BY <2>1, <2>2
  <1> QED BY <1>1, <1>2, <1>3, <1>4, <1>5, <1>6 DEF CostInv

\* The process ends: no run is under way.
LEMMA CostCrashed ==
    ASSUME CostInv, Costs!Crash
    PROVE  CostInv' /\ UNCHANGED costs
  <1>1. /\ UNCHANGED <<kindOfSite, day, spent, holds, costs, staleRows, passed, promised, keyMap,
                       blind, rekeyed>>
        /\ costRun' = [r \in Runs |-> Costs!NoRun]
    BY DEF Costs!Crash, Costs!outside, Costs!history
  <1>2. World /\ OneAmount' /\ Costs!NeverMore'
    BY <1>1, RowsUntouched
  <1>3. PastSettled' /\ promised' \in Costs!Days /\ promised' <= day'
    BY <1>1, <1>2, PromiseKept
  <1>4. CostTypes'
    BY <1>1, <1>3 DEF CostInv, CostTypes
  <1>5. Costs!MatchIsTrue'
    BY <1>1, MatchKept DEF CostInv
  <1>6. \A r \in Runs : RunHolds(r)'
    BY <1>1, AtRest DEF Costs!NoRun
  <1> QED BY <1>1, <1>2, <1>3, <1>4, <1>5, <1>6 DEF CostInv

\* Every step of the runs and of the world keeps the invariant, and no amount falls unseen.
LEMMA CostStep ==
    ASSUME CostInv, [Costs!Next]_(Costs!vars)
    PROVE  CostInv' /\ (UNCHANGED costs \/ Costs!NeverFalls)
  <1>1. ASSUME NEW r \in Runs, Costs!Step(r)
        PROVE  CostInv' /\ (UNCHANGED costs \/ Costs!NeverFalls)
    <2>1. CASE Costs!SyncCost(r)
      BY <2>1, CostBegins DEF Costs!SyncCost
    <2>2. CASE Costs!fetchKeysAndUsage(r)
      BY <2>2, CostFetched DEF Costs!fetchKeysAndUsage
    <2>3. CASE Costs!FetchFails(r) \/ Costs!WriteFails(r) \/ Costs!SaveFails(r)
      BY <2>3, CostEnds DEF Costs!FetchFails, Costs!WriteFails, Costs!SaveFails
    <2>4. CASE Costs!MatchKeys(r)
      BY <2>4, CostMatched DEF Costs!MatchKeys
    <2>5. CASE Costs!UpsertMappings(r)
      BY <2>5, CostMapped DEF Costs!UpsertMappings
    <2>6. CASE Costs!WriteCosts(r)
      BY <2>6, CostWritten
    <2>7. CASE Costs!FetchPage(r)
      BY <2>7, CostPaged DEF Costs!FetchPage
    <2>8. CASE Costs!PageFails(r)
      BY <2>8, CostSkipped DEF Costs!PageFails
    <2>9. CASE Costs!WritePage(r)
      BY <2>9, CostPageWritten
    <2>10. CASE Costs!SaveSyncState(r)
      BY <2>10, CostSaved DEF Costs!SaveSyncState
    <2> QED BY <1>1, <2>1, <2>2, <2>3, <2>4, <2>5, <2>6, <2>7, <2>8, <2>9, <2>10
            DEF Costs!Step
  <1>2. CASE Costs!Cleanup
    BY <1>2, CostCleaned
  <1>3. CASE Costs!NextDay
    BY <1>3, CostNextDay
  <1>4. CASE Costs!Crash
    BY <1>4, CostCrashed
  <1>5. CASE \E k \in Keys : Costs!Use(k)
    BY <1>5, CostUsed
  <1>6. CASE \E a \in Accounts : Costs!Rekey(a)
    BY <1>6, CostRekeyed
  <1>7. CASE UNCHANGED Costs!vars
    <2>1. UNCHANGED <<kindOfSite, day, spent, holds, costs, costRun, staleRows, passed, promised,
                      keyMap, blind, rekeyed>>
      BY <1>7 DEF Costs!vars
    <2>2. World /\ OneAmount' /\ Costs!NeverMore' /\ \A q \in Runs : Undisturbed(q)
      BY <2>1, RowsUntouched
    <2> QED BY <2>1, <2>2, CostGoesOn DEF CostInv, CostTypes
  <1> QED BY <1>1, <1>2, <1>3, <1>4, <1>5, <1>6, <1>7 DEF Costs!Next

\* The invariant holds, and amounts fall only where it says.
LEMMA CostsHold == PartSpec => []CostInv /\ [][Costs!NeverFalls]_costs
  <1>1. PartInit => CostInv
    BY CostStart DEF PartInit
  <1>2. CostInv /\ [PartNext]_<<part, vars, healthVars, alertVars, costVars, pushVars, accessVars>>
            => CostInv' /\ [Costs!NeverFalls]_costs
    BY CostAlone, CostStep
  <1> QED BY <1>1, <1>2, PTL DEF PartSpec

\* No day is charged more than it cost; days recorded as fetched are stored in full for as long as
\* rows are kept; a key whose fingerprint is stored belongs to the account that holds it; and a
\* written amount never falls back unless another run wrote it meanwhile.
THEOREM CostKept == PartSpec => CostIsTrue
  <1>1. CostInv => Costs!CostsAgree
    BY DEF CostInv, PastSettled, Settled, Costs!CostsAgree, Costs!PastIsWhole
  <1> QED BY <1>1, CostsHold, PTL DEF CostIsTrue

(***************************************************************************)
(* Settings in their four places                                           *)
(***************************************************************************)
SaveFields == {"at", "domain", "value", "gives"}
SavesOf(s, d) == saving[s].at # "idle" /\ saving[s].domain = d

\* What was built from the settings of a domain.
BuiltFrom(d) ==
    /\ d = "push" => clock = IF inRows.push.enabled THEN <<inRows.push.interval>> ELSE <<>>
    /\ d = "channels" => built = Push!Built(inRows.channels)

SettingsTypes ==
    /\ DOMAIN inRows = Push!Domains /\ inRows = [d \in Push!Domains |-> inRows[d]]
    /\ DOMAIN inMemory = Push!Domains /\ inMemory = [d \in Push!Domains |-> inMemory[d]]
    /\ saving = [s \in Runs |-> saving[s]]
    /\ collided \subseteq Push!Domains
    /\ clock = <<>> \/ clock = <<clock[1]>>
    /\ \A s \in Runs :
           /\ saving[s].at \in {"idle", "set", "live", "call"}
           /\ saving[s].at # "idle" =>
                  /\ DOMAIN saving[s] = SaveFields
                  /\ saving[s].domain \in Push!Domains /\ saving[s].gives \in BOOLEAN
                  /\ saving[s].domain = "push" => saving[s].gives = FALSE

\* How far a lone save of a domain has come.
OnItsWay(s, d) ==
    /\ saving[s].at = "set" =>
           /\ inMemory[d] = inRows[d] /\ BuiltFrom(d)
           /\ d = "channels" /\ saving[s].gives = FALSE =>
                  saving[s].value.token = inRows.channels.token
    /\ saving[s].at \in {"live", "call"} => inRows[d] = saving[s].value
    /\ saving[s].at = "call" => inMemory[d] = saving[s].value

\* A domain whose saves never crossed.
Orderly(d) ==
    d \notin collided =>
        /\ \A s, t \in Runs : SavesOf(s, d) /\ SavesOf(t, d) => s = t
        /\ (\A s \in Runs : ~SavesOf(s, d)) => inMemory[d] = inRows[d] /\ BuiltFrom(d)
        /\ \A s \in Runs : SavesOf(s, d) => OnItsWay(s, d)
        /\ d = "channels" => inRows.channels.token = lastGiven

SettingsInv == SettingsTypes /\ \A d \in Push!Domains : Orderly(d)

\* A step of the composition is a step of a part, or leaves it alone.
LEMMA PushAlone ==
    ASSUME [PartNext]_<<part, vars, healthVars, alertVars, costVars, pushVars, accessVars>>
    PROVE  [Push!Next]_(Push!vars)
  BY DEF PartNext, pushVars, Push!vars

\* At first all is as by default and nothing is saved.
LEMMA SettingsStart == Push!Init => SettingsInv
  <1> SUFFICES ASSUME Push!Init PROVE SettingsInv
    OBVIOUS
  <1>1. /\ inRows = Push!Defaults /\ inMemory = Push!Defaults /\ clock = <<>> /\ built = {}
        /\ saving = [s \in Runs |-> Push!NoPush] /\ collided = {} /\ lastGiven = ""
    BY DEF Push!Init
  <1>2. \A s \in Runs : saving[s].at = "idle"
    BY <1>1 DEF Push!NoPush
  <1>3. /\ DOMAIN Push!Defaults = Push!Domains
        /\ Push!Defaults = [d \in Push!Domains |-> Push!Defaults[d]]
        /\ Push!Defaults.push.enabled = FALSE /\ Push!Defaults.channels.token = ""
        /\ Push!Built(Push!Defaults.channels) = {}
    BY DEF Push!Defaults, Push!Domains, Push!Built
  <1>4. SettingsTypes
    BY <1>1, <1>2, <1>3 DEF SettingsTypes
  <1> QED BY <1>1, <1>2, <1>3, <1>4 DEF SettingsInv, Orderly, SavesOf, BuiltFrom

\* A save comes, which crosses with another of its domain or is alone there.
LEMMA SaveBegins ==
    ASSUME SettingsInv, NEW s \in Runs, NEW d \in Push!Domains, NEW v, NEW g \in BOOLEAN,
           Push!Save(s, d, v, g),
           d = "channels" /\ g = FALSE => v.token = inMemory.channels.token,
           d = "push" => g = FALSE
    PROVE  SettingsInv'
  <1> DEFINE x == [at |-> "set", domain |-> d, value |-> v, gives |-> g]
  <1>1. /\ saving[s].at = "idle" /\ saving' = [saving EXCEPT ![s] = x]
        /\ collided' = IF Push!Saving(d) # {} THEN collided \cup {d} ELSE collided
        /\ UNCHANGED <<inRows, inMemory, clock, built, lastGiven>>
    BY DEF Push!Save
  <1>2. /\ DOMAIN x = SaveFields /\ x.at = "set" /\ x.domain = d /\ x.value = v /\ x.gives = g
    BY DEF SaveFields
  <1> HIDE DEF x
  <1>3. /\ saving'[s] = x /\ saving' = [q \in Runs |-> saving'[q]]
        /\ \A q \in Runs \ {s} : saving'[q] = saving[q]
    BY <1>1 DEF SettingsInv, SettingsTypes
  <1>4. SettingsTypes'
    BY <1>1, <1>2, <1>3 DEF SettingsInv, SettingsTypes
  <1>5. ASSUME NEW e \in Push!Domains
        PROVE  Orderly(e)'
    <2>0. \A q \in Runs \ {s} : SavesOf(q, e)' <=> SavesOf(q, e)
      BY <1>3 DEF SavesOf
    <2>1. CASE e = d
      <3>1. CASE Push!Saving(d) # {}
        BY <1>1, <2>1, <3>1 DEF Orderly
      <3>2. CASE Push!Saving(d) = {}
        <4>1. \A q \in Runs : ~SavesOf(q, e)
          BY <2>1, <3>2 DEF Push!Saving, SavesOf
        <4>2. e \notin collided => inMemory[e] = inRows[e] /\ BuiltFrom(e)
                                   /\ (e = "channels" => inRows.channels.token = lastGiven)
          BY <4>1 DEF SettingsInv, Orderly
        <4>3. BuiltFrom(e) => BuiltFrom(e)'
          BY <1>1 DEF BuiltFrom
        <4>4. e \notin collided => OnItsWay(s, e)'
          BY <1>1, <1>2, <1>3, <2>1, <4>2, <4>3 DEF OnItsWay
        <4>5. SavesOf(s, e)'
          BY <1>2, <1>3, <2>1 DEF SavesOf
        <4>6. \A q \in Runs : SavesOf(q, e)' => q = s
          BY <2>0, <4>1
        <4>7. collided' = collided
          BY <1>1, <3>2
        <4> QED BY <1>1, <4>2, <4>4, <4>5, <4>6, <4>7 DEF Orderly
      <3> QED BY <3>1, <3>2
    <2>2. CASE e # d
      <3>1. ~SavesOf(s, e) /\ ~SavesOf(s, e)'
        BY <1>1, <1>2, <1>3, <2>2 DEF SavesOf
      <3>2. e \in collided' <=> e \in collided
        BY <1>1, <2>2
      <3>3. BuiltFrom(e) => BuiltFrom(e)'
        BY <1>1 DEF BuiltFrom
      <3>4. \A q \in Runs \ {s} : OnItsWay(q, e) => OnItsWay(q, e)'
        BY <1>1, <1>3, <3>3 DEF OnItsWay
      <3>5. \A q \in Runs : SavesOf(q, e)' <=> SavesOf(q, e)
        BY <2>0, <3>1
      <3> QED BY <1>1, <3>1, <3>2, <3>3, <3>4, <3>5 DEF SettingsInv, Orderly
    <2> QED BY <2>1, <2>2
  <1> QED BY <1>4, <1>5 DEF SettingsInv

\* A step of a save leaves the domain of the other alone.
LEMMA ElsewhereKept ==
    ASSUME SettingsInv, NEW s \in Runs, NEW e \in Push!Domains, ~SavesOf(s, e), ~SavesOf(s, e)',
           \A q \in Runs \ {s} : saving'[q] = saving[q],
           inRows'[e] = inRows[e], inMemory'[e] = inMemory[e], BuiltFrom(e) => BuiltFrom(e)',
           collided' = collided, e = "channels" => lastGiven' = lastGiven
    PROVE  Orderly(e)'
  <1>1. \A q \in Runs : SavesOf(q, e)' <=> SavesOf(q, e)
    BY DEF SavesOf
  <1>2. \A q \in Runs \ {s} : OnItsWay(q, e) => OnItsWay(q, e)'
    <2>1. e = "channels" => inRows'.channels = inRows.channels
      OBVIOUS
    <2> QED BY <2>1 DEF OnItsWay
  <1>3. e = "channels" => inRows'.channels = inRows.channels
    OBVIOUS
  <1> QED BY <1>1, <1>2, <1>3 DEF SettingsInv, Orderly

\* The one save of its domain.
LEMMA OwnDomain ==
    ASSUME SettingsInv, NEW s \in Runs, saving[s].at # "idle"
    PROVE  /\ DOMAIN saving[s] = SaveFields
           /\ saving[s].domain \in Push!Domains /\ saving[s].gives \in BOOLEAN
           /\ saving[s].domain = "push" => saving[s].gives = FALSE
           /\ \A e \in Push!Domains : SavesOf(s, e) <=> e = saving[s].domain
           /\ saving[s].domain \notin collided =>
                  /\ \A q \in Runs : SavesOf(q, saving[s].domain) => q = s
                  /\ OnItsWay(s, saving[s].domain)
                  /\ saving[s].domain = "channels" => inRows.channels.token = lastGiven
  BY ZenonT(60) DEF SettingsInv, SettingsTypes, Orderly, SavesOf

\* The row is written, or an error ends the save.
LEMMA RowSaved ==
    ASSUME SettingsInv, NEW s \in Runs, NEW fails \in BOOLEAN, Push!Set(s, fails)
    PROVE  SettingsInv'
  <1>0. PICK d \in Push!Domains : d = saving[s].domain
    BY OwnDomain DEF Push!Set
  <1> DEFINE y == [saving[s] EXCEPT !.at = "live"]
             v == saving[s].value
  <1>1. /\ saving[s].at = "set"
        /\ inRows' = IF fails THEN inRows ELSE [inRows EXCEPT ![d] = v]
        /\ saving' = [saving EXCEPT ![s] = IF fails THEN Push!NoPush ELSE y]
        /\ lastGiven' = IF ~fails /\ saving[s].gives THEN v.token ELSE lastGiven
        /\ UNCHANGED <<inMemory, clock, built, collided>>
    BY <1>0 DEF Push!Set
  <1>2. /\ DOMAIN saving[s] = SaveFields /\ d \in Push!Domains /\ saving[s].gives \in BOOLEAN
        /\ d = "push" => saving[s].gives = FALSE
        /\ \A e \in Push!Domains : SavesOf(s, e) <=> e = d
        /\ d \notin collided =>
               /\ \A q \in Runs : SavesOf(q, d) => q = s
               /\ OnItsWay(s, d)
               /\ d = "channels" => inRows.channels.token = lastGiven
    BY <1>0, <1>1, OwnDomain
  <1>3. /\ saving' = [q \in Runs |-> saving'[q]]
        /\ \A q \in Runs \ {s} : saving'[q] = saving[q]
        /\ saving'[s] = IF fails THEN Push!NoPush ELSE y
    BY <1>1 DEF SettingsInv, SettingsTypes
  <1>4. /\ y.at = "live" /\ DOMAIN y = SaveFields /\ y.domain = d /\ y.value = v
        /\ y.gives = saving[s].gives /\ Push!NoPush.at = "idle"
    BY <1>0, <1>2 DEF SaveFields, Push!NoPush
  <1>5. /\ DOMAIN inRows' = Push!Domains /\ inRows' = [e \in Push!Domains |-> inRows'[e]]
        /\ \A e \in Push!Domains \ {d} : inRows'[e] = inRows[e]
        /\ fails = FALSE => inRows'[d] = v
        /\ fails = TRUE => inRows' = inRows
    BY <1>1, <1>2 DEF SettingsInv, SettingsTypes
  <1> HIDE DEF y, v
  <1>6. SettingsTypes'
    BY <1>1, <1>2, <1>3, <1>4, <1>5 DEF SettingsInv, SettingsTypes
  <1>7. ASSUME NEW e \in Push!Domains, e # d
        PROVE  Orderly(e)'
    <2>1. ~SavesOf(s, e) /\ ~SavesOf(s, e)'
      BY <1>2, <1>3, <1>4, <1>7 DEF SavesOf
    <2>2. inRows'[e] = inRows[e] /\ inMemory'[e] = inMemory[e] /\ collided' = collided
      BY <1>1, <1>5, <1>7
    <2>3. BuiltFrom(e) => BuiltFrom(e)'
      BY <1>1, <2>2 DEF BuiltFrom
    <2>4. e = "channels" => lastGiven' = lastGiven
      BY <1>1, <1>2, <1>7 DEF Push!Domains
    <2> QED BY <1>3, <2>1, <2>2, <2>3, <2>4, ElsewhereKept
  <1>8. Orderly(d)'
    <2>1. CASE d \in collided
      BY <1>1, <2>1 DEF Orderly
    <2>2. CASE d \notin collided
      <3>1. /\ inMemory[d] = inRows[d] /\ BuiltFrom(d)
            /\ d = "channels" /\ saving[s].gives = FALSE => v.token = inRows.channels.token
        BY <1>1, <1>2, <2>2 DEF OnItsWay, v
      <3>2. \A q \in Runs \ {s} : ~SavesOf(q, d)'
        BY <1>1, <1>2, <1>3, <2>2 DEF SavesOf
      <3>3. CASE fails = TRUE
        <4>1. \A q \in Runs : ~SavesOf(q, d)'
          BY <1>3, <1>4, <3>2, <3>3 DEF SavesOf
        <4>2. inMemory'[d] = inRows'[d] /\ BuiltFrom(d)' /\ lastGiven' = lastGiven
          BY <1>1, <1>5, <3>1, <3>3 DEF BuiltFrom
        <4> QED BY <1>2, <1>5, <2>2, <3>3, <4>1, <4>2 DEF Orderly
      <3>4. CASE fails = FALSE
        <4>1. OnItsWay(s, d)'
          BY <1>3, <1>4, <1>5, <3>4 DEF OnItsWay
        <4>2. SavesOf(s, d)'
          BY <1>3, <1>4, <3>4 DEF SavesOf
        <4>3. d = "channels" => inRows'.channels.token = lastGiven'
          <5>1. d = "channels" => inRows'.channels = v
            BY <1>5, <3>4
          <5> QED BY <1>1, <1>2, <2>2, <3>1, <3>4, <5>1
        <4> QED BY <3>2, <4>1, <4>2, <4>3 DEF Orderly
      <3> QED BY <3>3, <3>4
    <2> QED BY <2>1, <2>2
  <1> QED BY <1>6, <1>7, <1>8 DEF SettingsInv

\* The copy in memory follows the row.
LEMMA MemorySet ==
    ASSUME SettingsInv, NEW s \in Runs, Push!SetLive(s)
    PROVE  SettingsInv'
  <1>0. PICK d \in Push!Domains : d = saving[s].domain
    BY OwnDomain DEF Push!SetLive
  <1> DEFINE y == [saving[s] EXCEPT !.at = "call"]
             v == saving[s].value
  <1>1. /\ saving[s].at = "live"
        /\ inMemory' = [inMemory EXCEPT ![d] = v]
        /\ saving' = [saving EXCEPT ![s] = y]
        /\ UNCHANGED <<inRows, clock, built, collided, lastGiven>>
    BY <1>0 DEF Push!SetLive
  <1>2. /\ DOMAIN saving[s] = SaveFields /\ d \in Push!Domains /\ saving[s].gives \in BOOLEAN
        /\ d = "push" => saving[s].gives = FALSE
        /\ \A e \in Push!Domains : SavesOf(s, e) <=> e = d
        /\ d \notin collided =>
               /\ \A q \in Runs : SavesOf(q, d) => q = s
               /\ OnItsWay(s, d)
               /\ d = "channels" => inRows.channels.token = lastGiven
    BY <1>0, <1>1, OwnDomain
  <1>3. /\ saving' = [q \in Runs |-> saving'[q]]
        /\ \A q \in Runs \ {s} : saving'[q] = saving[q]
        /\ saving'[s] = y
    BY <1>1 DEF SettingsInv, SettingsTypes
  <1>4. /\ y.at = "call" /\ DOMAIN y = SaveFields /\ y.domain = d /\ y.value = v
        /\ y.gives = saving[s].gives
    BY <1>0, <1>2 DEF SaveFields
  <1>5. /\ DOMAIN inMemory' = Push!Domains /\ inMemory' = [e \in Push!Domains |-> inMemory'[e]]
        /\ \A e \in Push!Domains \ {d} : inMemory'[e] = inMemory[e]
        /\ inMemory'[d] = v
    BY <1>1, <1>2 DEF SettingsInv, SettingsTypes
  <1> HIDE DEF y, v
  <1>6. SettingsTypes'
    BY <1>1, <1>2, <1>3, <1>4, <1>5 DEF SettingsInv, SettingsTypes
  <1>7. ASSUME NEW e \in Push!Domains, e # d
        PROVE  Orderly(e)'
    <2>1. ~SavesOf(s, e) /\ ~SavesOf(s, e)'
      BY <1>2, <1>3, <1>4, <1>7 DEF SavesOf
    <2>2. inRows'[e] = inRows[e] /\ inMemory'[e] = inMemory[e] /\ collided' = collided
      BY <1>1, <1>5, <1>7
    <2>3. BuiltFrom(e) => BuiltFrom(e)'
      BY <1>1 DEF BuiltFrom
    <2> QED BY <1>1, <1>3, <2>1, <2>2, <2>3, ElsewhereKept
  <1>8. Orderly(d)'
    <2>1. CASE d \in collided
      BY <1>1, <2>1 DEF Orderly
    <2>2. CASE d \notin collided
      <3>1. inRows[d] = v
        BY <1>1, <1>2, <2>2 DEF OnItsWay, v
      <3>2. \A q \in Runs \ {s} : ~SavesOf(q, d)'
        BY <1>1, <1>2, <1>3, <2>2 DEF SavesOf
      <3>3. OnItsWay(s, d)'
        BY <1>1, <1>3, <1>4, <1>5, <3>1 DEF OnItsWay
      <3>4. SavesOf(s, d)'
        BY <1>3, <1>4 DEF SavesOf
      <3> QED BY <1>1, <1>2, <2>2, <3>2, <3>3, <3>4 DEF Orderly
    <2> QED BY <2>1, <2>2
  <1> QED BY <1>6, <1>7, <1>8 DEF SettingsInv

\* At most one entry is there, it goes, and one comes if the push is enabled.
LEMMA OneEntry ==
    ASSUME SettingsTypes, NEW v
    PROVE  /\ Push!Rescheduled(clock, v) = IF v.enabled THEN <<v.interval>> ELSE <<>>
           /\ Push!Rescheduled(<<>>, v) = IF v.enabled THEN <<v.interval>> ELSE <<>>
  <1> DEFINE t == IF v.enabled THEN <<v.interval>> ELSE <<>>
  <1>1. SubSeq(clock, 1, Len(clock) - 1) = <<>>
    <2>1. CASE clock = <<>>
      BY <2>1
    <2>2. CASE clock = <<clock[1]>>
      <3>1. Len(clock) = 1
        BY <2>2
      <3> QED BY <3>1
    <2> QED BY <2>1, <2>2 DEF SettingsTypes
  <1>2. SubSeq(<<>>, 1, Len(<<>>) - 1) = <<>>
    OBVIOUS
  <1>3. <<>> \o t = t
    OBVIOUS
  <1> QED BY <1>1, <1>2, <1>3 DEF Push!Rescheduled

\* The timer or the channels are built from what was saved, and the save ends.
LEMMA CalledBack ==
    ASSUME SettingsInv, NEW s \in Runs, Push!Call(s)
    PROVE  SettingsInv'
  <1>0. PICK d \in Push!Domains : d = saving[s].domain
    BY OwnDomain DEF Push!Call
  <1> DEFINE v == saving[s].value
  <1>1. /\ saving[s].at = "call"
        /\ saving' = [saving EXCEPT ![s] = Push!NoPush]
        /\ d = "push" => clock' = Push!Rescheduled(clock, v) /\ built' = built
        /\ d # "push" => built' = Push!Built(v) /\ clock' = clock
        /\ UNCHANGED <<inRows, inMemory, collided, lastGiven>>
    BY <1>0 DEF Push!Call
  <1>2. /\ \A e \in Push!Domains : SavesOf(s, e) <=> e = d
        /\ d \notin collided =>
               /\ \A q \in Runs : SavesOf(q, d) => q = s
               /\ OnItsWay(s, d)
               /\ d = "channels" => inRows.channels.token = lastGiven
    BY <1>0, <1>1, OwnDomain
  <1>3. /\ saving' = [q \in Runs |-> saving'[q]]
        /\ \A q \in Runs \ {s} : saving'[q] = saving[q]
        /\ saving'[s] = Push!NoPush /\ Push!NoPush.at = "idle"
    BY <1>1 DEF SettingsInv, SettingsTypes, Push!NoPush
  <1>4. d = "push" => clock' = IF v.enabled THEN <<v.interval>> ELSE <<>>
    BY <1>1, OneEntry DEF SettingsInv
  <1> HIDE DEF v
  <1>5. clock' = <<>> \/ clock' = <<clock'[1]>>
    <2>1. CASE d = "push"
      BY <1>4, <2>1
    <2>2. CASE d # "push"
      BY <1>1, <2>2 DEF SettingsInv, SettingsTypes
    <2> QED BY <2>1, <2>2
  <1>6. SettingsTypes'
    BY <1>1, <1>3, <1>5 DEF SettingsInv, SettingsTypes
  <1>7. ASSUME NEW e \in Push!Domains, e # d
        PROVE  Orderly(e)'
    <2>1. ~SavesOf(s, e) /\ ~SavesOf(s, e)'
      BY <1>2, <1>3, <1>7 DEF SavesOf
    <2>2. BuiltFrom(e) => BuiltFrom(e)'
      BY <1>1, <1>7 DEF BuiltFrom, Push!Domains
    <2> QED BY <1>1, <1>3, <2>1, <2>2, ElsewhereKept
  <1>8. Orderly(d)'
    <2>1. CASE d \in collided
      BY <1>1, <2>1 DEF Orderly
    <2>2. CASE d \notin collided
      <3>1. inRows[d] = v /\ inMemory[d] = v
        BY <1>1, <1>2, <2>2 DEF OnItsWay, v
      <3>2. \A q \in Runs : ~SavesOf(q, d)'
        BY <1>1, <1>2, <1>3, <2>2 DEF SavesOf
      <3>3. BuiltFrom(d)'
        <4>1. (d = "push" => inRows.push = v) /\ (d = "channels" => inRows.channels = v)
          BY <3>1
        <4> QED BY <1>1, <1>4, <4>1 DEF BuiltFrom
      <3> QED BY <1>1, <1>2, <2>2, <3>1, <3>2, <3>3 DEF Orderly
    <2> QED BY <2>1, <2>2
  <1> QED BY <1>6, <1>7, <1>8 DEF SettingsInv

\* A start builds everything from the rows.
LEMMA AllRebuilt ==
    ASSUME SettingsInv, Push!Restart
    PROVE  SettingsInv'
  <1>1. /\ inMemory' = inRows /\ clock' = Push!Rescheduled(<<>>, inRows.push)
        /\ built' = Push!Built(inRows.channels) /\ saving' = [s \in Runs |-> Push!NoPush]
        /\ collided' = {} /\ lastGiven' = inRows.channels.token /\ inRows' = inRows
    BY DEF Push!Restart
  <1>2. /\ saving' = [q \in Runs |-> saving'[q]]
        /\ \A s \in Runs : saving'[s].at = "idle"
    BY <1>1 DEF Push!NoPush
  <1> DEFINE v == inRows.push
  <1>3. clock' = IF v.enabled THEN <<v.interval>> ELSE <<>>
    BY <1>1, OneEntry DEF SettingsInv
  <1> HIDE DEF v
  <1>4. clock' = <<>> \/ clock' = <<clock'[1]>>
    BY <1>3
  <1>5. SettingsTypes'
    BY <1>1, <1>2, <1>4 DEF SettingsInv, SettingsTypes
  <1>6. \A d \in Push!Domains : BuiltFrom(d)'
    BY <1>1, <1>3 DEF BuiltFrom, v
  <1>7. \A d \in Push!Domains : Orderly(d)'
    BY <1>1, <1>2, <1>6 DEF Orderly, SavesOf
  <1> QED BY <1>5, <1>7 DEF SettingsInv

\* Every other step leaves the settings alone.
LEMMA SettingsAlone ==
    ASSUME SettingsInv,
           UNCHANGED <<inRows, inMemory, clock, built, saving, collided, lastGiven>>
    PROVE  SettingsInv'
  <1>1. SettingsTypes'
    BY DEF SettingsInv, SettingsTypes
  <1>2. \A d \in Push!Domains : Orderly(d)'
    BY DEF SettingsInv, Orderly, SavesOf, OnItsWay, BuiltFrom
  <1> QED BY <1>1, <1>2 DEF SettingsInv

\* A secret the form does not give is the one in memory.
LEMMA SecretStays ==
    ASSUME NEW form \in ChannelForms, form.token = Push!Keep, NEW current
    PROVE  Push!Merged(form, current).token = current.token
  <1>1. form \in [tg : BOOLEAN, hook : BOOLEAN, token : STRING]
    BY PartsAssumption DEF Push!PushAssumption
  <1> QED BY <1>1 DEF Push!Merged

\* Every step keeps the settings in order.
LEMMA SettingsStep ==
    ASSUME SettingsInv, [Push!Next]_(Push!vars)
    PROVE  SettingsInv'
  <1>1. ASSUME NEW s \in Runs, Push!SavePush(s)
        PROVE  SettingsInv'
    BY <1>1, SaveBegins DEF Push!SavePush, Push!Domains
  <1>2. ASSUME NEW s \in Runs, Push!SaveChannels(s)
        PROVE  SettingsInv'
    <2>1. PICK form \in ChannelForms :
             Push!Save(s, "channels", Push!Merged(form, inMemory.channels),
                       form.token # Push!Keep)
      BY <1>2 DEF Push!SaveChannels
    <2> DEFINE v == Push!Merged(form, inMemory.channels)
               g == form.token # Push!Keep
    <2>2. g = FALSE => v.token = inMemory.channels.token
      BY SecretStays
    <2>3. g \in BOOLEAN
      OBVIOUS
    <2> HIDE DEF v, g
    <2> QED BY <2>1, <2>2, <2>3, SaveBegins DEF v, g, Push!Domains
  <1>3. ASSUME NEW s \in Runs, NEW b \in BOOLEAN, Push!Set(s, b)
        PROVE  SettingsInv'
    BY <1>3, RowSaved
  <1>4. ASSUME NEW s \in Runs, Push!SetLive(s) \/ Push!Call(s)
        PROVE  SettingsInv'
    BY <1>4, MemorySet, CalledBack
  <1>5. CASE Push!Restart
    BY <1>5, AllRebuilt
  <1>6. ASSUME NEW p \in {v1}, NEW b \in BOOLEAN, Push!Start(p, b) \/ Push!Build(p, b)
        PROVE  SettingsInv'
    BY <1>6, SettingsAlone DEF Push!Start, Push!Build
  <1>7. ASSUME NEW p \in {v1},
               Push!CheckToken(p) \/ \E a \in Push!Answers : Push!Send(p, a)
        PROVE  SettingsInv'
    BY <1>7, SettingsAlone DEF Push!CheckToken, Push!Send
  <1>8. CASE UNCHANGED Push!vars
    BY <1>8, SettingsAlone DEF Push!vars
  <1> QED BY <1>1, <1>2, <1>3, <1>4, <1>5, <1>6, <1>7, <1>8 DEF Push!Next

\* Where settings are in order, all places agree and nothing is lost.
LEMMA SettingsAgree == SettingsInv => Push!PlacesAgree /\ Push!NothingLost
  <1>1. SettingsInv => Push!PlacesAgree
    <2> SUFFICES ASSUME SettingsInv, NEW d \in Push!Domains \ collided, Push!Saving(d) = {}
                 PROVE  /\ inMemory[d] = inRows[d]
                        /\ d = "push" => clock = IF inRows.push.enabled
                                                 THEN <<inRows.push.interval>> ELSE <<>>
                        /\ d = "channels" => built = Push!Built(inRows.channels)
      BY DEF Push!PlacesAgree
    <2>1. \A s \in Runs : ~SavesOf(s, d)
      BY DEF Push!Saving, SavesOf
    <2> QED BY <2>1 DEF SettingsInv, Orderly, BuiltFrom
  <1>2. SettingsInv => Push!NothingLost
    <2> SUFFICES ASSUME SettingsInv PROVE Push!NothingLost
      OBVIOUS
    <2>1. Len(clock) <= 1
      <3>1. CASE clock = <<>>
        BY <3>1
      <3>2. CASE clock = <<clock[1]>>
        <4>1. Len(clock) = 1
          BY <3>2
        <4> QED BY <4>1
      <3> QED BY <3>1, <3>2 DEF SettingsInv, SettingsTypes
    <2>2. "channels" \notin collided => inRows.channels.token = lastGiven
      BY DEF SettingsInv, Orderly, Push!Domains
    <2> QED BY <2>1, <2>2 DEF Push!NothingLost
  <1> QED BY <1>1, <1>2

\* Where no two saves of a domain crossed and none is under way, the row, the copy in memory and
\* what was built from it say the same; however they cross there is one timer at most; and where
\* the saves of the channels did not cross, the token is the last one a request gave.
THEOREM SettingsKept == PartSpec => [](Push!PlacesAgree /\ Push!NothingLost)
  <1>1. PartInit => SettingsInv
    BY SettingsStart DEF PartInit
  <1>2. SettingsInv
            /\ [PartNext]_<<part, vars, healthVars, alertVars, costVars, pushVars, accessVars>>
            => SettingsInv'
    BY PushAlone, SettingsStep
  <1> QED BY <1>1, <1>2, SettingsAgree, PTL DEF PartSpec

(***************************************************************************)
(* What a site is entered with                                             *)
(***************************************************************************)
\* A step of the composition is a step of the access, or leaves it alone.
LEMMA AccessAlone ==
    ASSUME [PartNext]_<<part, vars, healthVars, alertVars, costVars, pushVars, accessVars>>
    PROVE  [Access!Next]_accessVars
  BY DEF PartNext

Sessions == [kind : {"none", "access", "key", "cookie"}, who : Access!Names, user : Access!Names]
SitePlaces == {"idle", "lacks", "refresh", "store", "wipe", "login", "use"}
Begun == [pc : SitePlaces, copy : Access!RowType, again : BOOLEAN, fresh : BOOLEAN,
          want : Access!Names, session : Sessions]

\* Two rows differ at most in the columns named.
SameEntry(p, q) == p.mode = q.mode /\ p.email = q.email /\ p.password = q.password
SameTokens(p, q) == p.access = q.access /\ p.refresh = q.refresh /\ p.expiry = q.expiry

\* What a new pair of tokens changes.
LEMMA PairFields ==
    ASSUME NEW p \in Access!RowType, NEW a \in Access!Names, NEW f \in Access!Names,
           NEW e, e \in {"null", "later"}
    PROVE  LET t == Access!UpdateTokenPair(p, a, f, e) IN
           /\ t \in Access!RowType /\ SameEntry(t, p)
           /\ t.access = a /\ t.refresh = f /\ t.expiry = e
           /\ t.cookie = p.cookie /\ t.user = p.user /\ t.cool = p.cool
  <1> DEFINE t == [p EXCEPT !.access = a, !.refresh = f, !.expiry = e]
             u == [p EXCEPT !.access = a]
             v == [u EXCEPT !.refresh = f]
  <1>1. u \in Access!RowType
    BY DEF Access!RowType
  <1>2. t = [v EXCEPT !.expiry = e]
    OBVIOUS
  <1>3. /\ SameEntry(t, p) /\ t.access = a /\ t.refresh = f /\ t.expiry = e
        /\ t.cookie = p.cookie /\ t.user = p.user /\ t.cool = p.cool
    BY DEF Access!RowType, SameEntry
  <1> HIDE DEF u
  <1>4. v \in Access!RowType
    BY <1>1 DEF Access!RowType
  <1> HIDE DEF v
  <1>5. [v EXCEPT !.expiry = e] \in Access!RowType
    BY <1>4 DEF Access!RowType
  <1> QED BY <1>2, <1>3, <1>5 DEF Access!UpdateTokenPair

\* What a cookie and a user change.
LEMMA SessionFields ==
    ASSUME NEW p \in Access!RowType, NEW c \in Access!Names, NEW u \in Access!Names
    PROVE  LET t == Access!UpdateSession(p, c, u) IN
           /\ t \in Access!RowType /\ SameEntry(t, p) /\ SameTokens(t, p)
           /\ t.cookie = c /\ t.user = u /\ t.cool = p.cool
  <1> DEFINE t == [p EXCEPT !.cookie = c, !.user = u]
             v == [p EXCEPT !.cookie = c]
  <1>1. v \in Access!RowType
    BY DEF Access!RowType
  <1>2. t = [v EXCEPT !.user = u]
    OBVIOUS
  <1>3. SameEntry(t, p) /\ SameTokens(t, p) /\ t.cookie = c /\ t.user = u /\ t.cool = p.cool
    BY DEF Access!RowType, SameEntry, SameTokens
  <1> HIDE DEF v
  <1>4. [v EXCEPT !.user = u] \in Access!RowType
    BY <1>1 DEF Access!RowType
  <1> QED BY <1>2, <1>3, <1>4 DEF Access!UpdateSession

\* The end of a cooldown, or its start, changes nothing else.
SameButCool(t, p) ==
    SameEntry(t, p) /\ SameTokens(t, p) /\ t.cookie = p.cookie /\ t.user = p.user

\* So for any cooldown of any row.
LEMMA CoolFields ==
    ASSUME NEW p \in Access!RowType, NEW c \in {"none", "on", "over"}
    PROVE  [p EXCEPT !.cool = c] \in Access!RowType /\ SameButCool([p EXCEPT !.cool = c], p)
  BY DEF Access!RowType, SameEntry, SameTokens, SameButCool

\* So for a row whose rejected login is forgotten.
LEMMA ClearedFields ==
    ASSUME NEW p \in Access!RowType, NEW c
    PROVE  LET t == Access!clearRejected(p, c) IN t \in Access!RowType /\ SameButCool(t, p)
  BY CoolFields DEF Access!clearRejected, Access!ClearLoginCooldown, SameEntry, SameTokens,
     SameButCool

(***************************************************************************)
(* The invariant                                                           *)
(***************************************************************************)
\* Enough to collect with a password or a token.
Enough(c) ==
    /\ c.mode = "password" => c.email # None /\ c.password # None
    /\ c.mode = "token" => c.refresh # None \/ c.access # None

\* Whatever of a row opens a session is of one account.
Belongs(p, who) ==
    /\ p.mode # "user_key" => p.refresh \in {None, who} /\ p.cookie \in {None, who}
    /\ p.mode = "password" => /\ p.email = who /\ p.password = who
                              /\ p.expiry = "later" => p.access \in {None, who}
    /\ p.mode = "token" => p.access \in {None, who}
    /\ p.mode = "user_key" => p.access = who /\ p.user = who

\* No session is left.
Clean(p) == p.expiry = "null" /\ p.cookie = None

\* A run is where its copy of the row lets it be.
Placed(x) ==
    /\ x.pc # "lacks"
    /\ x.pc = "idle" => ~x.fresh
    /\ x.pc # "idle" => Enough(x.copy)
    /\ x.pc = "refresh" => x.copy.refresh # None
    /\ x.pc \in {"refresh", "store"} => x.copy.mode # "user_key"
    /\ x.pc = "store" => x.copy.access # None
    /\ x.pc \in {"wipe", "login"} => x.copy.mode = "password"

\* What a run has is of one account.
Owned(x, who) ==
    /\ Belongs(x.copy, who)
    /\ x.pc = "store" => x.copy.access = who
    /\ x.pc = "use" => x.session.who = who

\* A run from after the last edit holds what that edit entered.
Current(x) ==
    /\ statements = <<>> /\ x.want = entered
    /\ SameEntry(x.copy, siteRow)
    /\ ~overwritten /\ entered # None => Owned(x, entered)

\* The row between edits.
RowOwned ==
    /\ statements = <<>> /\ entered # None /\ ~overwritten => Belongs(siteRow, entered)
    /\ sufficed => statements = <<>>
    /\ sufficed /\ ~overwritten => Access!CredentialsReady(siteRow)

\* An edit that gives a credential ends the session before it is done.
Resets(todo) ==
    \E i \in 1..Len(todo) :
        /\ todo[i] = "reset"
        /\ i = Len(todo) \/ (i + 1 = Len(todo) /\ todo[i + 1] = "clear")

EndsClean ==
    statements # <<>> /\ Access!Given(submitted) # <<>> =>
        \/ Resets(statements)
        \/ statements = <<"clear">> /\ (overwritten \/ Clean(siteRow))

Orders == {"base", "password", "access", "refresh", "reset", "clear"}

\* A statement about a credential has one to write.
Gives(f, order) ==
    /\ order = "password" => f.password # Same
    /\ order = "access" => f.access # Same
    /\ order = "refresh" => f.refresh # Same

\* The statements of an edit f.
Planned(f, todo) == todo \in Seq(Orders) /\ \A i \in 1..Len(todo) : Gives(f, todo[i])

AccessTypes ==
    /\ siteRow \in Access!RowType /\ inSession \in [Runs -> Begun]
    /\ entered \in Access!Names /\ sufficed \in BOOLEAN /\ overwritten \in BOOLEAN
    /\ submitted \in Access!FormType /\ Planned(submitted, statements)

AccessInv ==
    /\ AccessTypes /\ RowOwned /\ EndsClean
    /\ \A r \in Runs : Placed(inSession[r]) /\ (inSession[r].fresh => Current(inSession[r]))

\* Where a complete copy leads: to a session of its account, or to a step it has what is needed
\* for.
LEMMA Ensured ==
    ASSUME NEW c \in Access!RowType, Access!CredentialsReady(c)
    PROVE  LET e == Access!ensure(c) IN
           /\ e.pc \in {"use", "refresh", "login"} /\ e.session \in Sessions
           /\ e.pc = "refresh" => c.refresh # None /\ c.mode # "user_key"
           /\ e.pc = "login" => c.mode = "password"
           /\ \A who : Belongs(c, who) /\ e.pc = "use" => e.session.who = who
  <1> DEFINE e == Access!ensure(c)
             key == [kind |-> "key", who |-> c.access, user |-> c.user]
             acc == [kind |-> "access", who |-> c.access, user |-> None]
             cookie == [kind |-> "cookie", who |-> c.cookie, user |-> c.user]
             none == [kind |-> "none", who |-> None, user |-> None]
  <1>0. /\ None \in Access!Names /\ c.mode \in {"password", "token", "user_key"}
        /\ c.access \in Access!Names /\ c.cookie \in Access!Names /\ c.user \in Access!Names
        /\ c.expiry \in {"null", "later"}
    BY DEF Access!Names, Access!RowType, Access!Modes
  <1>1. key \in Sessions /\ acc \in Sessions /\ cookie \in Sessions /\ none \in Sessions
    BY <1>0 DEF Sessions
  <1> SUFFICES /\ e.pc \in {"use", "refresh", "login"} /\ e.session \in Sessions
               /\ e.pc = "refresh" => c.refresh # None /\ c.mode # "user_key"
               /\ e.pc = "login" => c.mode = "password"
               /\ \A who : Belongs(c, who) /\ e.pc = "use" => e.session.who = who
    OBVIOUS
  <1>2. CASE c.mode = "user_key"
    <2>1. e = [pc |-> "use", session |-> key]
      BY <1>2 DEF Access!ensure, Access!CredentialsReady, Access!At, Access!Key
    <2> QED BY <1>0, <1>1, <1>2, <2>1 DEF Belongs
  <1>3. CASE c.mode # "user_key" /\ Access!tokenValid(c)
    <2>1. e = [pc |-> "use", session |-> acc]
      BY <1>3 DEF Access!ensure, Access!At, Access!Access
    <2> QED BY <1>0, <1>1, <1>3, <2>1 DEF Belongs, Access!tokenValid
  <1>4. CASE c.mode # "user_key" /\ ~Access!tokenValid(c) /\ c.refresh # None
    <2>1. e = [pc |-> "refresh", session |-> none]
      BY <1>4 DEF Access!ensure, Access!At, Access!NoSession
    <2> QED BY <1>1, <1>4, <2>1
  <1>5. CASE /\ c.mode # "user_key" /\ ~Access!tokenValid(c) /\ c.refresh = None
             /\ siteKind = "new-api" /\ c.cookie # None /\ c.user # None
    <2>1. e = [pc |-> "use", session |-> cookie]
      BY <1>5 DEF Access!ensure, Access!At, Access!Cookie
    <2> QED BY <1>0, <1>1, <1>5, <2>1 DEF Belongs
  <1>6. CASE /\ c.mode = "token" /\ ~Access!tokenValid(c) /\ c.refresh = None
             /\ ~(siteKind = "new-api" /\ c.cookie # None /\ c.user # None)
    <2>1. c.access # None
      BY <1>6 DEF Access!CredentialsReady
    <2>2. e = [pc |-> "use", session |-> acc]
      BY <1>6, <2>1 DEF Access!ensure, Access!At, Access!Access
    <2> QED BY <1>0, <1>1, <1>6, <2>1, <2>2 DEF Belongs
  <1>7. CASE /\ c.mode = "password" /\ ~Access!tokenValid(c) /\ c.refresh = None
             /\ ~(siteKind = "new-api" /\ c.cookie # None /\ c.user # None)
    <2>1. e = [pc |-> "login", session |-> none]
      BY <1>7 DEF Access!ensure, Access!At, Access!NoSession, Access!CredentialsReady
    <2> QED BY <1>1, <1>7, <2>1
  <1> QED BY <1>0, <1>2, <1>3, <1>4, <1>5, <1>6, <1>7

\* Enough to collect is what a copy needs whose mode is not of a key.
LEMMA EnoughIsReady ==
    ASSUME NEW c \in Access!RowType
    PROVE  /\ Enough(c) /\ c.mode # "user_key" => Access!CredentialsReady(c)
           /\ Access!CredentialsReady(c) => Enough(c)
  BY DEF Enough, Access!CredentialsReady, Access!RowType, Access!Modes

(***************************************************************************)
(* Edits                                                                   *)
(***************************************************************************)
\* One statement, and none.
LEMMA OneOrder ==
    ASSUME NEW f
    PROVE  /\ Planned(f, <<>>)
           /\ \A o \in Orders : Gives(f, o) => /\ Planned(f, <<o>>)
                                              /\ Len(<<o>>) = 1 /\ <<o>>[1] = o
  <1>1. Planned(f, <<>>)
    BY DEF Planned
  <1>2. ASSUME NEW o \in Orders, Gives(f, o)
        PROVE  Planned(f, <<o>>) /\ Len(<<o>>) = 1 /\ <<o>>[1] = o
    <2> DEFINE s == <<o>>
    <2>1. s \in Seq(Orders) /\ Len(s) = 1 /\ s[1] = o
      OBVIOUS
    <2> HIDE DEF s
    <2>2. \A i \in 1..Len(s) : Gives(f, s[i])
      BY <1>2, <2>1
    <2> QED BY <2>1, <2>2 DEF Planned, s
  <1> QED BY <1>1, <1>2

\* Two pieces of a plan make one.
LEMMA PlanOfTwo ==
    ASSUME NEW f, NEW s, NEW t, Planned(f, s), Planned(f, t)
    PROVE  /\ Planned(f, s \o t) /\ Len(s \o t) = Len(s) + Len(t)
           /\ Len(s) \in Nat /\ Len(t) \in Nat
           /\ \A i \in 1..Len(s) : (s \o t)[i] = s[i]
           /\ \A i \in 1..Len(t) : (s \o t)[Len(s) + i] = t[i]
  <1>1. /\ s \o t \in Seq(Orders) /\ Len(s \o t) = Len(s) + Len(t)
        /\ Len(s) \in Nat /\ Len(t) \in Nat
        /\ \A i \in 1..Len(s) + Len(t) :
               (s \o t)[i] = IF i <= Len(s) THEN s[i] ELSE t[i - Len(s)]
    BY ConcatProperties, LenProperties DEF Planned
  <1>2. ASSUME NEW i \in 1..Len(s)
        PROVE  (s \o t)[i] = s[i]
    BY <1>1
  <1>3. ASSUME NEW i \in 1..Len(t)
        PROVE  (s \o t)[Len(s) + i] = t[i]
    <2>1. Len(s) + i \in 1..Len(s) + Len(t) /\ ~(Len(s) + i <= Len(s)) /\ Len(s) + i - Len(s) = i
      BY <1>1
    <2> QED BY <1>1, <2>1
  <1>4. ASSUME NEW i \in 1..Len(s \o t)
        PROVE  Gives(f, (s \o t)[i])
    <2>1. CASE i <= Len(s)
      BY <1>1, <1>2, <2>1 DEF Planned
    <2>2. CASE ~(i <= Len(s))
      <3>1. i - Len(s) \in 1..Len(t) /\ Len(s) + (i - Len(s)) = i
        BY <1>1, <2>2
      <3> QED BY <1>3, <3>1 DEF Planned
    <2> QED BY <2>1, <2>2
  <1> QED BY <1>1, <1>2, <1>3, <1>4 DEF Planned

\* The credentials that are given are written, and only they.
LEMMA GivenOnes == \A f : Planned(f, Access!Given(f))
  <1> TAKE f
  <1> DEFINE a == IF f.password # Same THEN <<"password">> ELSE <<>>
             b == IF f.access # Same THEN <<"access">> ELSE <<>>
             c == IF f.refresh # Same THEN <<"refresh">> ELSE <<>>
  <1>1. Planned(f, <<>>)
    BY OneOrder
  <1>2. f.password # Same => Planned(f, <<"password">>)
    BY OneOrder DEF Orders, Gives
  <1>3. f.access # Same => Planned(f, <<"access">>)
    BY OneOrder DEF Orders, Gives
  <1>4. f.refresh # Same => Planned(f, <<"refresh">>)
    BY OneOrder DEF Orders, Gives
  <1>5. Planned(f, a) /\ Planned(f, b) /\ Planned(f, c)
    BY <1>1, <1>2, <1>3, <1>4
  <1>6. Access!Given(f) = (a \o b) \o c
    BY DEF Access!Given
  <1> HIDE DEF a, b, c
  <1>7. Planned(f, (a \o b) \o c)
    BY <1>5, PlanOfTwo
  <1> QED BY <1>6, <1>7

\* An edit that gives a credential resets the session at its end.
LEMMA EditResets ==
    ASSUME NEW f
    PROVE  LET s == Access!Statements(f) IN
           /\ Planned(f, s) /\ s # <<>>
           /\ Access!Given(f) # <<>> => Resets(s)
  <1> DEFINE g == Access!Given(f)
             x == IF g # <<>> THEN <<"reset">> ELSE <<>>
             y == IF g # <<>> /\ f.access = Same /\ f.mode = "password"
                  THEN <<"clear">> ELSE <<>>
             b == <<"base">>
  <1>0. /\ Planned(f, <<>>) /\ Len(<<>>) = 0
        /\ Planned(f, <<"base">>) /\ Len(<<"base">>) = 1
        /\ Planned(f, <<"reset">>) /\ Len(<<"reset">>) = 1 /\ <<"reset">>[1] = "reset"
        /\ Planned(f, <<"clear">>) /\ Len(<<"clear">>) = 1 /\ <<"clear">>[1] = "clear"
    BY OneOrder DEF Orders, Gives
  <1>1. Planned(f, g)
    BY GivenOnes
  <1>2. /\ Planned(f, x) /\ Len(x) \in {0, 1} /\ (g # <<>> => Len(x) = 1 /\ x[1] = "reset")
        /\ Planned(f, y) /\ Len(y) \in {0, 1} /\ (Len(y) = 1 => y[1] = "clear")
        /\ Planned(f, b) /\ Len(b) = 1
    <2> HIDE DEF g
    <2>1. CASE g = <<>>
      BY <1>0, <2>1
    <2>2. CASE g # <<>> /\ f.access = Same /\ f.mode = "password"
      BY <1>0, <2>2
    <2>3. CASE g # <<>> /\ ~(f.access = Same /\ f.mode = "password")
      BY <1>0, <2>3
    <2> QED BY <2>1, <2>2, <2>3
  <1> DEFINE p == b \o g
             q == p \o x
             s == q \o y
  <1>7. Access!Statements(f) = s
    BY DEF Access!Statements
  <1> HIDE DEF g, x, y, b
  <1>8. Planned(f, p) /\ Len(p) \in Nat /\ Len(p) >= 1
    BY <1>1, <1>2, PlanOfTwo
  <1> HIDE DEF p
  <1>9. Planned(f, q) /\ Len(q) = Len(p) + Len(x) /\ \A i \in 1..Len(x) : q[Len(p) + i] = x[i]
    BY <1>2, <1>8, PlanOfTwo
  <1> HIDE DEF q
  <1>10. /\ Planned(f, s) /\ Len(s) = Len(q) + Len(y) /\ Len(q) \in Nat
         /\ \A i \in 1..Len(q) : s[i] = q[i]
         /\ \A i \in 1..Len(y) : s[Len(q) + i] = y[i]
    BY <1>2, <1>9, PlanOfTwo
  <1> HIDE DEF s
  <1>11. s # <<>>
    BY <1>0, <1>2, <1>8, <1>9, <1>10
  <1>12. ASSUME g # <<>>
         PROVE  Resets(s)
    <2>1. Len(x) = 1 /\ x[1] = "reset" /\ Len(q) = Len(p) + 1
      BY <1>2, <1>9, <1>12
    <2>2. /\ Len(q) \in 1..Len(s) /\ s[Len(q)] = "reset"
          /\ Len(q) = Len(s) \/ (Len(q) + 1 = Len(s) /\ s[Len(q) + 1] = "clear")
      BY <1>2, <1>8, <1>9, <1>10, <2>1
    <2> QED BY <2>2 DEF Resets
  <1> QED BY <1>7, <1>10, <1>11, <1>12 DEF g

\* A row without a session, and without the refresh token of another account, is of the account
\* that is entered.
LEMMA EnteredBelongs ==
    ASSUME NEW p \in Access!RowType, Clean(p), ~Access!LeftOver(p), Access!Entered(p) # None
    PROVE  Belongs(p, Access!Entered(p))
  <1>1. p.mode \in {"password", "token", "user_key"}
    BY DEF Access!RowType, Access!Modes
  <1>2. CASE p.mode = "password"
    BY <1>2 DEF Clean, Access!LeftOver, Access!Entered, Belongs
  <1>3. CASE p.mode = "token"
    BY <1>3 DEF Clean, Access!LeftOver, Access!Entered, Belongs
  <1>4. CASE p.mode = "user_key"
    BY <1>4 DEF Clean, Access!LeftOver, Access!Entered, Belongs
  <1> QED BY <1>1, <1>2, <1>3, <1>4

\* One statement of an edit.
LEMMA DoneFits ==
    ASSUME NEW p \in Access!RowType, NEW f \in Access!FormType, NEW o \in Orders, Gives(f, o)
    PROVE  /\ Access!Done(o, p, f) \in Access!RowType
           /\ o = "reset" => Clean(Access!Done(o, p, f))
           /\ o = "clear" /\ Clean(p) => Clean(Access!Done(o, p, f))
  <1> DEFINE t == Access!Done(o, p, f)
  <1>0. /\ f.mode \in Access!Modes /\ f.email \in Access!Names /\ f.user \in Access!Names
        /\ o = "password" => f.password \in Access!Names
        /\ o = "access" => f.access \in Access!Names
        /\ o = "refresh" => f.refresh \in Access!Names
        /\ None \in Access!Names
    BY DEF Access!FormType, Gives, Access!Names
  <1>1. CASE o = "base"
    <2> DEFINE u == [p EXCEPT !.mode = f.mode]
               v == [u EXCEPT !.email = f.email]
    <2>1. t = [v EXCEPT !.user = f.user]
      BY <1>1 DEF Access!Done
    <2>2. u \in Access!RowType
      BY <1>0 DEF Access!RowType
    <2> HIDE DEF u, t
    <2>3. v \in Access!RowType
      BY <1>0, <2>2 DEF Access!RowType
    <2> HIDE DEF v
    <2>4. t \in Access!RowType
      BY <1>0, <2>1, <2>3 DEF Access!RowType
    <2> QED BY <1>1, <2>4 DEF t
  <1>2. CASE o = "reset"
    <2> DEFINE u == [p EXCEPT !.expiry = "null"]
               v == [u EXCEPT !.cookie = None]
    <2>1. t = [v EXCEPT !.cool = "none"]
      BY <1>2 DEF Access!Done
    <2>2. u \in Access!RowType /\ u.expiry = "null"
      BY <1>0 DEF Access!RowType
    <2> HIDE DEF u, t
    <2>3. v \in Access!RowType /\ v.expiry = "null" /\ v.cookie = None
      BY <1>0, <2>2 DEF Access!RowType
    <2> HIDE DEF v
    <2>4. t \in Access!RowType /\ t.expiry = "null" /\ t.cookie = None
      BY <1>0, <2>1, <2>3 DEF Access!RowType
    <2> QED BY <1>2, <2>4 DEF t, Clean
  <1>3. CASE o = "password"
    BY <1>0, <1>3 DEF Access!Done, Access!RowType
  <1>4. CASE o = "access"
    BY <1>0, <1>4 DEF Access!Done, Access!RowType
  <1>5. CASE o = "refresh"
    BY <1>0, <1>5 DEF Access!Done, Access!RowType
  <1>6. CASE o = "clear"
    BY <1>0, <1>6 DEF Access!Done, Access!RowType, Clean
  <1> QED BY <1>1, <1>2, <1>3, <1>4, <1>5, <1>6 DEF Orders

\* The access starts as the invariant says.
LEMMA AccessStarts == Access!Init => AccessInv
  <1> SUFFICES ASSUME Access!Init
               PROVE  AccessInv
    OBVIOUS
  <1> DEFINE blank == Access!Blank
             idle == Access!Idle
  <1>0. /\ siteRow \in Sites /\ siteRow \in Access!RowType /\ Clean(siteRow)
        /\ statements = <<>> /\ submitted = Access!NoForm
        /\ entered = Access!Entered(siteRow)
        /\ sufficed = Access!CredentialsReady(siteRow) /\ overwritten = Access!LeftOver(siteRow)
        /\ inSession = [r \in Runs |-> Access!Idle]
        /\ None \in Access!Names /\ Same \notin Access!Names
    BY PartsAssumption DEF Access!Init, Access!AccessAssumption, Clean, Access!Names
  <1>1. Access!Idle \in Begun /\ Placed(Access!Idle) /\ ~Access!Idle.fresh
    <2>1. blank \in Access!RowType
      BY <1>0 DEF Access!Blank, Access!RowType, Access!Modes
    <2>2. Access!NoSession \in Sessions
      BY <1>0 DEF Access!NoSession, Sessions
    <2> HIDE DEF blank
    <2>3. /\ idle \in Begun /\ idle.pc = "idle" /\ idle.fresh = FALSE
      BY <1>0, <2>1, <2>2 DEF Access!Idle, Begun, SitePlaces, blank
    <2> QED BY <2>3 DEF Placed
  <1>2. entered \in Access!Names
    BY <1>0 DEF Access!Entered, Access!RowType, Access!Modes
  <1>3. submitted \in Access!FormType /\ Planned(submitted, statements)
    BY <1>0, OneOrder DEF Access!NoForm, Access!FormType, Access!Modes
  <1>4. sufficed \in BOOLEAN /\ overwritten \in BOOLEAN
    BY <1>0 DEF Access!CredentialsReady, Access!LeftOver
  <1>5. RowOwned
    BY <1>0, EnteredBelongs DEF RowOwned
  <1> HIDE DEF idle
  <1>6. inSession \in [Runs -> Begun] /\ \A r \in Runs : inSession[r] = Access!Idle
    BY <1>0, <1>1
  <1> QED BY <1>0, <1>1, <1>2, <1>3, <1>4, <1>5, <1>6 DEF AccessInv, AccessTypes, EndsClean

\* The administrator submits: no run is from after the last edit any more.
LEMMA SubmitKeeps ==
    ASSUME AccessInv, NEW f \in Forms, Access!Submit(f)
    PROVE  AccessInv'
  <1>0. /\ statements' = Access!Statements(f) /\ submitted' = f /\ sufficed' = FALSE
        /\ overwritten' = FALSE /\ UNCHANGED <<siteRow, entered>>
        /\ inSession' = [r \in Runs |-> [inSession[r] EXCEPT !.fresh = FALSE, !.want = None]]
        /\ f \in Access!FormType /\ None \in Access!Names
    BY PartsAssumption DEF Access!Submit, Access!AccessAssumption, Access!Names
  <1>1. ASSUME NEW x \in Begun
        PROVE  LET y == [x EXCEPT !.fresh = FALSE, !.want = None] IN
               y \in Begun /\ y.fresh = FALSE /\ y.pc = x.pc /\ y.copy = x.copy
    <2> DEFINE y == [x EXCEPT !.fresh = FALSE, !.want = None]
               u == [x EXCEPT !.fresh = FALSE]
    <2>1. y = [u EXCEPT !.want = None]
      OBVIOUS
    <2>2. u \in Begun
      BY <1>1 DEF Begun
    <2>3. y.fresh = FALSE /\ y.pc = x.pc /\ y.copy = x.copy
      BY <1>1 DEF Begun
    <2> HIDE DEF u, y
    <2>4. y \in Begun
      BY <1>0, <2>1, <2>2 DEF Begun
    <2> QED BY <2>3, <2>4 DEF y
  <1>2. ASSUME NEW r \in Runs
        PROVE  /\ inSession'[r] \in Begun /\ inSession'[r].fresh = FALSE
               /\ Placed(inSession'[r])
    <2>1. inSession[r] \in Begun /\ Placed(inSession[r])
      BY DEF AccessInv, AccessTypes
    <2> QED BY <1>0, <1>1, <2>1 DEF Placed
  <1>3. inSession' \in [Runs -> Begun]
    BY <1>0, <1>2
  <1>4. Planned(f, statements') /\ statements' # <<>> /\ (Access!Given(f) # <<>> => Resets(statements'))
    BY <1>0, EditResets
  <1>5. AccessTypes'
    BY <1>0, <1>3, <1>4 DEF AccessInv, AccessTypes
  <1>6. RowOwned' /\ EndsClean'
    BY <1>0, <1>4 DEF RowOwned, EndsClean
  <1> QED BY <1>2, <1>5, <1>6 DEF AccessInv

\* During an edit no run is from after it.
LEMMA NoneCurrent ==
    ASSUME AccessInv, statements # <<>>
    PROVE  ~sufficed /\ \A r \in Runs : ~inSession[r].fresh
  BY DEF AccessInv, RowOwned, Current

\* A statement of an edit is done.
LEMMA UpdateKeeps ==
    ASSUME AccessInv, Access!Update
    PROVE  AccessInv'
  <1> DEFINE o == Head(statements)
             rest == Tail(statements)
  <1>0. /\ statements # <<>> /\ siteRow' = Access!Done(o, siteRow, submitted)
        /\ statements' = rest /\ submitted' = IF rest = <<>> THEN Access!NoForm ELSE submitted
        /\ inSession' = inSession
        /\ rest # <<>> => UNCHANGED <<entered, sufficed, overwritten>>
        /\ rest = <<>> =>
             /\ entered' = IF Access!Given(submitted) = <<>> THEN None
                           ELSE Access!Entered(siteRow')
             /\ sufficed' = Access!CredentialsReady(siteRow')
             /\ overwritten' = (overwritten \/ Access!LeftOver(siteRow'))
    BY DEF Access!Update
  <1>1. /\ ~sufficed /\ \A r \in Runs : ~inSession[r].fresh /\ Placed(inSession[r])
        /\ AccessTypes /\ EndsClean
    BY <1>0, NoneCurrent DEF AccessInv
  <1>2. /\ o \in Orders /\ rest \in Seq(Orders) /\ Gives(submitted, o) /\ o = statements[1]
        /\ Len(statements) \in Nat /\ Len(statements) >= 1 /\ Len(rest) = Len(statements) - 1
        /\ \A i \in 1..Len(rest) : rest[i] = statements[i + 1]
        /\ rest = <<>> <=> Len(rest) = 0
    <2>1. /\ statements \in Seq(Orders) /\ statements # <<>>
          /\ \A i \in 1..Len(statements) : Gives(submitted, statements[i])
      BY <1>0, <1>1 DEF AccessTypes, Planned
    <2>2. /\ o \in Orders /\ rest \in Seq(Orders) /\ o = statements[1]
          /\ Len(rest) = Len(statements) - 1
          /\ \A i \in 1..Len(rest) : rest[i] = statements[i + 1]
      BY <2>1, HeadTailProperties
    <2>3. Len(statements) \in Nat /\ Len(statements) # 0
      BY <2>1, LenProperties, EmptySeq
    <2>4. Len(statements) >= 1 /\ 1 \in 1..Len(statements)
      BY <2>3
    <2>5. rest = <<>> <=> Len(rest) = 0
      BY <2>2, EmptySeq
    <2> QED BY <2>1, <2>2, <2>3, <2>4, <2>5
  <1> HIDE DEF o, rest
  <1>3. /\ siteRow' \in Access!RowType
        /\ o = "reset" => Clean(siteRow')
        /\ o = "clear" /\ Clean(siteRow) => Clean(siteRow')
    BY <1>0, <1>1, <1>2, DoneFits DEF AccessTypes
  <1>4. Planned(submitted, rest)
    <2>1. ASSUME NEW i \in 1..Len(rest)
          PROVE  Gives(submitted, rest[i])
      <3>1. i + 1 \in 1..Len(statements)
        BY <1>2
      <3> QED BY <1>1, <1>2, <3>1 DEF AccessTypes, Planned
    <2> QED BY <1>2, <2>1 DEF Planned
  <1>5. submitted' \in Access!FormType /\ Planned(submitted', statements')
    <2>1. Access!NoForm \in Access!FormType
      BY PartsAssumption DEF Access!NoForm, Access!FormType, Access!Modes, Access!Names
    <2>2. Planned(Access!NoForm, <<>>)
      BY OneOrder
    <2> QED BY <1>0, <1>1, <1>4, <2>1, <2>2 DEF AccessTypes
  <1>6. CASE rest # <<>>
    <2>1. AccessTypes'
      BY <1>0, <1>1, <1>3, <1>5, <1>6 DEF AccessTypes
    <2>2. RowOwned'
      BY <1>0, <1>1, <1>6 DEF RowOwned
    <2>3. ASSUME Access!Given(submitted) # <<>>
          PROVE  Resets(rest) \/ (rest = <<"clear">> /\ Clean(siteRow'))
      <3>1. CASE Resets(statements)
        <4>1. PICK i \in 1..Len(statements) :
                 /\ statements[i] = "reset"
                 /\ i = Len(statements) \/ (i + 1 = Len(statements) /\ statements[i + 1] = "clear")
          BY <3>1 DEF Resets
        <4>2. CASE i = 1
          <5>1. Len(rest) = 1 /\ rest[1] = "clear" /\ o = "reset"
            BY <1>2, <1>6, <4>1, <4>2
          <5>2. rest = <<"clear">>
            <6>1. <<"clear">> \in Seq(Orders) /\ Len(<<"clear">>) = 1 /\ <<"clear">>[1] = "clear"
              BY DEF Orders
            <6> QED BY <1>2, <5>1, <6>1, SeqEqual
          <5> QED BY <1>3, <5>1, <5>2
        <4>3. CASE i # 1
          <5>1. /\ i - 1 \in 1..Len(rest) /\ rest[i - 1] = "reset"
                /\ \/ i - 1 = Len(rest)
                   \/ i - 1 + 1 = Len(rest) /\ rest[i - 1 + 1] = "clear"
            BY <1>2, <4>1, <4>3
          <5> QED BY <5>1 DEF Resets
        <4> QED BY <4>2, <4>3
      <3>2. CASE statements = <<"clear">>
        BY <1>2, <1>6, <3>2
      <3> QED BY <1>0, <1>1, <2>3, <3>1, <3>2 DEF EndsClean
    <2>4. EndsClean'
      BY <1>0, <1>6, <2>3 DEF EndsClean
    <2> QED BY <1>0, <1>1, <2>1, <2>2, <2>4 DEF AccessInv
  <1>7. CASE rest = <<>>
    <2>1. Access!Given(submitted) # <<>> => overwritten \/ Clean(siteRow')
      <3>1. CASE Resets(statements)
        <4>0. Len(statements) = 1
          BY <1>2, <1>7
        <4>1. PICK i \in 1..Len(statements) : statements[i] = "reset"
          BY <3>1 DEF Resets
        <4>2. i = 1
          BY <4>0, <4>1
        <4>3. statements[1] = "reset"
          BY <4>1, <4>2
        <4>4. o = "reset"
          BY <1>2, <4>3
        <4> QED BY <1>3, <4>4
      <3>2. CASE statements = <<"clear">> /\ (overwritten \/ Clean(siteRow))
        <4> DEFINE one == <<"clear">>
        <4>0. one[1] = "clear"
          OBVIOUS
        <4>1. o = "clear"
          BY <1>2, <3>2, <4>0
        <4> QED BY <1>3, <3>2, <4>1
      <3> QED BY <1>0, <1>1, <3>1, <3>2 DEF EndsClean
    <2>2. entered' \in Access!Names
      BY <1>0, <1>3, <1>7 DEF Access!Entered, Access!RowType, Access!Modes, Access!Names
    <2>3. AccessTypes'
      BY <1>0, <1>1, <1>3, <1>5, <1>7, <2>2 DEF AccessTypes, Access!CredentialsReady, Access!LeftOver
    <2>4. RowOwned'
      BY <1>0, <1>3, <1>7, <2>1, EnteredBelongs DEF RowOwned
    <2>5. EndsClean'
      BY <1>0, <1>7 DEF EndsClean
    <2> QED BY <1>0, <1>1, <2>3, <2>4, <2>5 DEF AccessInv
  <1> QED BY <1>6, <1>7

\* A statement fails; or the token or the cooldown of the row runs out.
LEMMA RowKeeps ==
    ASSUME AccessInv, Access!UpdateFails \/ Access!Expire
    PROVE  AccessInv'
  <1>1. CASE Access!UpdateFails
    <2>0. /\ statements # <<>> /\ statements' = <<>> /\ submitted' = Access!NoForm
          /\ entered' = None /\ UNCHANGED <<siteRow, inSession, sufficed, overwritten>>
      BY <1>1 DEF Access!UpdateFails
    <2>1. /\ ~sufficed /\ \A r \in Runs : ~inSession[r].fresh /\ Placed(inSession[r])
          /\ AccessTypes
      BY <2>0, NoneCurrent DEF AccessInv
    <2>2. Access!NoForm \in Access!FormType /\ Planned(Access!NoForm, <<>>)
      BY PartsAssumption, OneOrder DEF Access!NoForm, Access!FormType, Access!Modes, Access!Names
    <2>3. AccessTypes'
      BY <2>0, <2>1, <2>2 DEF AccessTypes, Access!Names
    <2> QED BY <2>0, <2>1, <2>3 DEF AccessInv, RowOwned, EndsClean
  <1>2. CASE Access!Expire
    <2>0. /\ UNCHANGED <<statements, submitted, inSession, entered, sufficed, overwritten>>
          /\ siteRow \in Access!RowType
      BY <1>2 DEF Access!Expire, AccessInv, AccessTypes
    <2>1. /\ siteRow' \in Access!RowType /\ SameEntry(siteRow', siteRow)
          /\ siteRow'.access = siteRow.access /\ siteRow'.refresh = siteRow.refresh
          /\ siteRow'.expiry \in {siteRow.expiry, "null"}
          /\ siteRow'.cookie = siteRow.cookie /\ siteRow'.user = siteRow.user
      BY <1>2, <2>0 DEF Access!Expire, Access!RowType, SameEntry
    <2>2. AccessTypes'
      BY <2>0, <2>1 DEF AccessInv, AccessTypes
    <2>3. \A who : Belongs(siteRow, who) => Belongs(siteRow, who)'
      BY <2>1 DEF Belongs, SameEntry
    <2>4. Access!CredentialsReady(siteRow) => Access!CredentialsReady(siteRow')
      BY <2>1 DEF Access!CredentialsReady, SameEntry
    <2>5. RowOwned'
      BY <2>0, <2>1, <2>4 DEF AccessInv, RowOwned, Belongs, SameEntry
    <2>6. EndsClean'
      BY <2>0, <2>1 DEF AccessInv, EndsClean, Clean
    <2>7. \A r \in Runs : Placed(inSession[r])' /\ (inSession[r].fresh => Current(inSession[r]))'
      BY <2>0, <2>1 DEF AccessInv, Current, SameEntry
    <2> QED BY <2>2, <2>5, <2>6, <2>7 DEF AccessInv
  <1> QED BY <1>1, <1>2

(***************************************************************************)
(* Runs                                                                    *)
(***************************************************************************)
\* What a step of a run may do to the row: keep it of one account, clean and complete.
RowKept ==
    ~overwritten' =>
        /\ statements = <<>> /\ entered # None => Belongs(siteRow', entered)
        /\ statements # <<>> /\ Clean(siteRow) => Clean(siteRow')
        /\ sufficed => Access!CredentialsReady(siteRow')

RowMoves ==
    /\ siteRow' \in Access!RowType /\ SameEntry(siteRow', siteRow)
    /\ overwritten' \in BOOLEAN /\ (overwritten => overwritten')
    /\ UNCHANGED <<entered, sufficed>> /\ RowKept

\* A run that goes on is where its copy lets it be, and of one account if it is from after the
\* last edit.
RunMoves(r) ==
    /\ inSession' \in [Runs -> Begun] /\ \A q \in Runs \ {r} : inSession'[q] = inSession[q]
    /\ Placed(inSession'[r])
    /\ inSession'[r].fresh =>
          /\ statements = <<>> /\ inSession'[r].want = entered
          /\ SameEntry(inSession'[r].copy, siteRow)
          /\ ~overwritten /\ entered # None => Owned(inSession'[r], entered)
    /\ UNCHANGED <<statements, submitted>>

\* Such a step keeps the invariant.
LEMMA MovesKeep ==
    ASSUME AccessInv, NEW r \in Runs, RowMoves, RunMoves(r)
    PROVE  AccessInv'
  <1>1. AccessTypes'
    BY DEF AccessInv, AccessTypes, RowMoves, RunMoves
  <1>2. RowOwned'
    BY DEF AccessInv, RowOwned, RowMoves, RowKept, RunMoves
  <1>3. EndsClean'
    BY DEF AccessInv, EndsClean, RowMoves, RowKept, RunMoves
  <1>4. ASSUME NEW q \in Runs
        PROVE  Placed(inSession'[q]) /\ (inSession'[q].fresh => Current(inSession[q])')
    <2>1. CASE q = r
      BY <2>1 DEF AccessInv, RowMoves, RunMoves, Current, SameEntry
    <2>2. CASE q # r
      BY <2>2 DEF AccessInv, RowMoves, RunMoves, Current, SameEntry
    <2> QED BY <2>1, <2>2
  <1> QED BY <1>1, <1>2, <1>3, <1>4 DEF AccessInv

\* A row that differs in its cooldown at most.
LEMMA RowStays ==
    ASSUME AccessInv, siteRow' \in Access!RowType, SameButCool(siteRow', siteRow),
           UNCHANGED <<entered, sufficed, overwritten>>
    PROVE  RowMoves
  <1>1. /\ \A who : Belongs(siteRow, who) => Belongs(siteRow', who)
        /\ Clean(siteRow) => Clean(siteRow')
        /\ Access!CredentialsReady(siteRow) => Access!CredentialsReady(siteRow')
    BY DEF SameButCool, SameEntry, SameTokens, Belongs, Clean, Access!CredentialsReady
  <1> QED BY <1>1 DEF AccessInv, AccessTypes, RowOwned, RowMoves, RowKept, SameButCool

\* A row that is left alone.
LEMMA RowRead ==
    ASSUME AccessInv, Access!Reads
    PROVE  RowMoves
  <1>1. /\ siteRow' = siteRow /\ UNCHANGED <<entered, sufficed, overwritten>>
        /\ siteRow' \in Access!RowType
    BY DEF Access!Reads, AccessInv, AccessTypes
  <1>2. SameButCool(siteRow', siteRow)
    BY <1>1 DEF SameButCool, SameEntry, SameTokens
  <1> QED BY <1>1, <1>2, RowStays

\* A row that a run writes: one from before an edit may do what it likes, for that is counted.
LEMMA RowWritten ==
    ASSUME AccessInv, NEW r \in Runs, NEW p \in Access!RowType, Access!Writes(r, p),
           SameEntry(p, siteRow),
           inSession[r].fresh =>
              /\ siteRow.mode = "password" \/ (siteRow.mode = "token" /\ p.access # None)
                 \/ SameButCool(p, siteRow)
              /\ ~overwritten /\ entered # None => Belongs(p, entered)
    PROVE  RowMoves
  <1>0. /\ siteRow' = p /\ UNCHANGED <<entered, sufficed>>
        /\ overwritten' = (overwritten \/ (~inSession[r].fresh /\ p # siteRow))
        /\ overwritten \in BOOLEAN /\ inSession[r].fresh \in BOOLEAN
    BY DEF Access!Writes, AccessInv, AccessTypes, Begun
  <1>1. CASE ~inSession[r].fresh
    BY <1>0, <1>1 DEF RowMoves, RowKept, AccessInv, RowOwned
  <1>2. CASE inSession[r].fresh
    <2>1. statements = <<>>
      BY <1>2 DEF AccessInv, Current
    <2>2. Access!CredentialsReady(siteRow) => Access!CredentialsReady(p)
      BY <1>2 DEF Access!CredentialsReady, SameEntry, SameButCool, SameTokens
    <2>3. ~overwritten /\ sufficed => Access!CredentialsReady(siteRow)
      BY DEF AccessInv, RowOwned
    <2> QED BY <1>0, <1>2, <2>1, <2>2, <2>3 DEF RowMoves, RowKept
  <1> QED BY <1>0, <1>1, <1>2

\* A run that ends.
LEMMA RunEnds ==
    ASSUME AccessInv, NEW r \in Runs, Access!Ends(r)
    PROVE  RunMoves(r)
  <1> DEFINE idle == Access!Idle
             blank == Access!Blank
  <1>1. None \in Access!Names
    BY DEF Access!Names
  <1>2. blank \in Access!RowType
    BY <1>1 DEF Access!Blank, Access!RowType, Access!Modes
  <1>3. Access!NoSession \in Sessions
    BY <1>1 DEF Access!NoSession, Sessions
  <1> HIDE DEF blank
  <1>4. idle \in Begun /\ idle.pc = "idle" /\ idle.fresh = FALSE
    BY <1>1, <1>2, <1>3 DEF Access!Idle, Begun, SitePlaces, blank
  <1>5. inSession' = [inSession EXCEPT ![r] = idle] /\ UNCHANGED <<statements, submitted>>
    BY DEF Access!Ends
  <1> HIDE DEF idle
  <1>6. inSession \in [Runs -> Begun]
    BY DEF AccessInv, AccessTypes
  <1> QED BY <1>4, <1>5, <1>6 DEF RunMoves, Placed

\* A run that goes on with a copy of the same entry.
LEMMA RunGoes ==
    ASSUME AccessInv, NEW r \in Runs, NEW l \in SitePlaces, NEW c \in Access!RowType, NEW s \in Sessions,
           inSession' \in [Runs -> Begun],
           \A q \in Runs \ {r} : inSession'[q] = inSession[q],
           inSession'[r].pc = l, inSession'[r].copy = c, inSession'[r].session = s,
           inSession'[r].fresh = inSession[r].fresh, inSession'[r].want = inSession[r].want,
           UNCHANGED <<statements, submitted>>,
           l \notin {"idle", "lacks"},
           Enough(c), SameEntry(c, inSession[r].copy),
           l = "refresh" => c.refresh # None,
           l \in {"refresh", "store"} => c.mode # "user_key",
           l = "store" => c.access # None,
           l \in {"wipe", "login"} => c.mode = "password",
           inSession[r].fresh /\ ~overwritten /\ entered # None =>
              /\ Belongs(c, entered)
              /\ l = "store" => c.access = entered
              /\ l = "use" => s.who = entered
    PROVE  RunMoves(r)
  <1>1. Placed(inSession'[r])
    BY DEF Placed
  <1>2. ASSUME inSession'[r].fresh
        PROVE  /\ statements = <<>> /\ inSession'[r].want = entered
               /\ SameEntry(inSession'[r].copy, siteRow)
               /\ ~overwritten /\ entered # None => Owned(inSession'[r], entered)
    <2>1. Current(inSession[r])
      BY <1>2 DEF AccessInv
    <2> QED BY <1>2, <2>1 DEF Current, SameEntry, Owned
  <1> QED BY <1>1, <1>2 DEF RunMoves

\* What holds of a run that is under way.
LEMMA UnderWay ==
    ASSUME AccessInv, NEW r \in Runs
    PROVE  LET x == inSession[r] IN
           /\ x \in Begun /\ x.copy \in Access!RowType /\ x.session \in Sessions
           /\ inSession \in [Runs -> Begun] /\ siteRow \in Access!RowType /\ None \in Access!Names
           /\ x.copy.access \in Access!Names /\ x.copy.refresh \in Access!Names
           /\ x.copy.expiry \in {"null", "later"} /\ x.copy.email \in Access!Names
           /\ x.copy.user \in Access!Names
           /\ siteRow.access \in Access!Names /\ siteRow.refresh \in Access!Names
           /\ siteRow.expiry \in {"null", "later"} /\ siteRow.user \in Access!Names
           /\ siteRow.mode \in {"password", "token", "user_key"}
           /\ x.copy.mode \in {"password", "token", "user_key"}
           /\ Placed(x)
           /\ x.fresh => Current(x)
           /\ x.fresh /\ ~overwritten /\ entered # None => Belongs(siteRow, entered)
  <1>1. inSession \in [Runs -> Begun] /\ siteRow \in Access!RowType
    BY DEF AccessInv, AccessTypes
  <1>2. inSession[r] \in Begun
    BY <1>1
  <1>3. inSession[r].copy \in Access!RowType /\ inSession[r].session \in Sessions
    BY <1>2 DEF Begun
  <1>4. /\ inSession[r].copy.access \in Access!Names /\ inSession[r].copy.refresh \in Access!Names
        /\ inSession[r].copy.expiry \in {"null", "later"}
        /\ inSession[r].copy.email \in Access!Names /\ inSession[r].copy.user \in Access!Names
        /\ inSession[r].copy.mode \in {"password", "token", "user_key"}
    BY <1>3 DEF Access!RowType, Access!Modes
  <1>5. /\ siteRow.access \in Access!Names /\ siteRow.refresh \in Access!Names
        /\ siteRow.expiry \in {"null", "later"} /\ siteRow.user \in Access!Names
        /\ siteRow.mode \in {"password", "token", "user_key"}
    BY <1>1 DEF Access!RowType, Access!Modes
  <1>6. inSession[r].fresh => Current(inSession[r]) /\ statements = <<>>
    BY DEF AccessInv, Current
  <1>7. inSession[r].fresh /\ ~overwritten /\ entered # None => Belongs(siteRow, entered)
    BY <1>6 DEF AccessInv, RowOwned
  <1>8. None \in Access!Names
    BY DEF Access!Names
  <1> QED BY <1>1, <1>2, <1>3, <1>4, <1>5, <1>6, <1>7, <1>8 DEF AccessInv

\* A session a run may use.
LEMMA SessionsFit ==
    ASSUME NEW p \in Access!RowType
    PROVE  /\ Access!Access(p) \in Sessions /\ Access!Access(p).who = p.access
           /\ Access!Key(p) \in Sessions /\ Access!Key(p).who = p.access
           /\ Access!Cookie(p) \in Sessions /\ Access!Cookie(p).who = p.cookie
           /\ Access!NoSession \in Sessions
  <1>1. /\ p.access \in Access!Names /\ p.cookie \in Access!Names /\ p.user \in Access!Names
        /\ None \in Access!Names
    BY DEF Access!RowType, Access!Names
  <1> QED BY <1>1 DEF Access!Access, Access!Key, Access!Cookie, Access!NoSession, Sessions

\* A run loads the row.
LEMMA LoadKeeps ==
    ASSUME AccessInv, NEW r \in Runs, NEW m \in BOOLEAN, Access!Load(r, m)
    PROVE  AccessInv'
  <1>0. /\ Access!CredentialsReady(siteRow)
        /\ siteRow' = IF m THEN Access!ClearLoginCooldown(siteRow) ELSE siteRow
        /\ UNCHANGED <<siteKind, statements, submitted, entered, sufficed, overwritten>>
        /\ siteRow \in Access!RowType /\ inSession \in [Runs -> Begun] /\ entered \in Access!Names
        /\ None \in Access!Names
    BY DEF Access!Load, AccessInv, AccessTypes, Access!Names
  <1>1. siteRow' \in Access!RowType /\ SameButCool(siteRow', siteRow)
    BY <1>0, CoolFields DEF Access!ClearLoginCooldown, SameButCool, SameEntry, SameTokens
  <1>2. RowMoves
    BY <1>0, <1>1, RowStays
  <1>3. Access!CredentialsReady(siteRow')
    BY <1>0, <1>1 DEF Access!CredentialsReady, SameButCool, SameEntry, SameTokens
  <1> DEFINE e == Access!ensure(siteRow')
             w == IF statements = <<>> THEN entered ELSE None
             x == [pc |-> e.pc, session |-> e.session, copy |-> siteRow', again |-> FALSE,
                   fresh |-> statements = <<>>, want |-> w]
  <1>4. /\ e.pc \in {"use", "refresh", "login"} /\ e.session \in Sessions
        /\ e.pc = "refresh" => siteRow'.refresh # None /\ siteRow'.mode # "user_key"
        /\ e.pc = "login" => siteRow'.mode = "password"
        /\ \A who : Belongs(siteRow', who) /\ e.pc = "use" => e.session.who = who
    BY <1>1, <1>3, Ensured
  <1>5. inSession' = [inSession EXCEPT ![r] = x]
    BY DEF Access!Load
  <1>6. w \in Access!Names
    BY <1>0
  <1> HIDE DEF e, w
  <1>7. /\ x \in Begun /\ x.pc = e.pc /\ x.session = e.session /\ x.copy = siteRow'
        /\ x.fresh = (statements = <<>>) /\ x.want = w
    BY <1>1, <1>4, <1>6 DEF Begun, SitePlaces
  <1> HIDE DEF x
  <1>8. Placed(x)
    BY <1>1, <1>3, <1>4, <1>7, EnoughIsReady DEF Placed
  <1>9. x.fresh => /\ statements = <<>> /\ x.want = entered /\ SameEntry(x.copy, siteRow)
                   /\ ~overwritten /\ entered # None => Owned(x, entered)
    <2>1. ASSUME x.fresh, ~overwritten, entered # None
          PROVE  Belongs(siteRow', entered)
      BY <1>1, <1>7, <2>1 DEF AccessInv, RowOwned, Belongs, SameButCool, SameEntry, SameTokens
    <2> QED BY <1>1, <1>4, <1>7, <2>1 DEF w, Owned, SameButCool
  <1>10. RunMoves(r)
    BY <1>0, <1>5, <1>7, <1>8, <1>9 DEF RunMoves
  <1> QED BY <1>2, <1>10, MovesKeep

\* A run that ends, or one that lacks something, or a login that fails.
LEMMA EndsKeep ==
    ASSUME AccessInv, NEW r \in Runs,
           Access!GiveUp(r) \/ Access!LoginFails(r) \/ Access!RecordRejected(r) \/ Access!Accepted(r)
    PROVE  AccessInv'
  <1>0. siteRow \in Access!RowType /\ Access!Ends(r)
    BY DEF AccessInv, AccessTypes, Access!GiveUp, Access!LoginFails, Access!RecordRejected,
       Access!Accepted
  <1>1. RunMoves(r)
    BY <1>0, RunEnds
  <1>2. CASE Access!GiveUp(r) \/ Access!LoginFails(r)
    <2>1. RowMoves
      BY <1>2, RowRead DEF Access!GiveUp, Access!LoginFails
    <2> QED BY <1>1, <2>1, MovesKeep
  <1>3. CASE Access!RecordRejected(r)
    <2>1. /\ siteRow' = [siteRow EXCEPT !.cool = "on"]
          /\ UNCHANGED <<entered, sufficed, overwritten>>
      BY <1>3 DEF Access!RecordRejected
    <2>2. siteRow' \in Access!RowType /\ SameButCool(siteRow', siteRow)
      BY <1>0, <2>1, CoolFields
    <2>3. RowMoves
      BY <2>1, <2>2, RowStays
    <2> QED BY <1>1, <2>3, MovesKeep
  <1>4. CASE Access!Accepted(r)
    <2> DEFINE p == Access!clearRejected(siteRow, inSession[r].copy)
    <2>1. p \in Access!RowType /\ SameButCool(p, siteRow)
      BY <1>0, ClearedFields
    <2>2. Access!Writes(r, p)
      BY <1>4 DEF Access!Accepted
    <2> HIDE DEF p
    <2>3. inSession[r].fresh /\ ~overwritten /\ entered # None => Belongs(siteRow, entered)
      BY UnderWay
    <2>4. inSession[r].fresh /\ ~overwritten /\ entered # None => Belongs(p, entered)
      BY <2>1, <2>3 DEF Belongs, SameButCool, SameEntry, SameTokens
    <2>5. RowMoves
      BY <2>1, <2>2, <2>4, RowWritten DEF SameButCool
    <2> QED BY <1>1, <2>5, MovesKeep
  <1> QED BY <1>2, <1>3, <1>4

\* A run goes on.
LEMMA GoesMoves ==
    ASSUME AccessInv, NEW r \in Runs, NEW l \in SitePlaces, NEW c \in Access!RowType, NEW s \in Sessions,
           Access!Goes(r, l, c, s)
    PROVE  /\ inSession' \in [Runs -> Begun]
           /\ \A q \in Runs \ {r} : inSession'[q] = inSession[q]
           /\ inSession'[r].pc = l /\ inSession'[r].copy = c /\ inSession'[r].session = s
           /\ inSession'[r].fresh = inSession[r].fresh /\ inSession'[r].want = inSession[r].want
           /\ UNCHANGED <<statements, submitted>>
  <1> DEFINE f == inSession
             u == [f[r] EXCEPT !.pc = l]
             v == [u EXCEPT !.copy = c]
             x == [v EXCEPT !.session = s]
  <1>1. f \in [Runs -> Begun] /\ f[r] \in Begun
    BY DEF AccessInv, AccessTypes
  <1>2. inSession' = [f EXCEPT ![r] = x] /\ UNCHANGED <<statements, submitted>>
    BY DEF Access!Goes
  <1>3. u \in Begun /\ u.pc = l /\ u.again = f[r].again /\ u.fresh = f[r].fresh /\ u.want = f[r].want
    BY <1>1 DEF Begun
  <1> HIDE DEF u
  <1>4. /\ v \in Begun /\ v.pc = l /\ v.copy = c /\ v.again = f[r].again
        /\ v.fresh = f[r].fresh /\ v.want = f[r].want
    BY <1>3 DEF Begun
  <1> HIDE DEF v
  <1>5. /\ x \in Begun /\ x.pc = l /\ x.copy = c /\ x.session = s /\ x.again = f[r].again
        /\ x.fresh = f[r].fresh /\ x.want = f[r].want
    BY <1>4 DEF Begun
  <1> HIDE DEF x
  <1> QED BY <1>1, <1>2, <1>5

\* Before a refresh: another one's token is taken, or a new one asked for.
LEMMA RefreshKeeps ==
    ASSUME AccessInv, NEW r \in Runs, Access!Adopt(r) \/ Access!AskRefresh(r)
    PROVE  AccessInv'
  <1> DEFINE x == inSession[r]
             c == inSession[r].copy
             own == x.fresh /\ ~overwritten /\ entered # None
  <1>0. /\ x.pc = "refresh" /\ Access!Reads
    BY DEF Access!Adopt, Access!AskRefresh
  <1>1. /\ c \in Access!RowType /\ siteRow \in Access!RowType /\ Enough(c) /\ c.refresh # None
        /\ c.mode \in {"password", "token"} /\ None \in Access!Names
        /\ c.access \in Access!Names /\ c.refresh \in Access!Names
        /\ siteRow.access \in Access!Names /\ siteRow.refresh \in Access!Names
        /\ siteRow.expiry \in {"null", "later"}
    BY <1>0, UnderWay DEF Placed
  <1>2. own => /\ Belongs(c, entered) /\ Belongs(siteRow, entered) /\ SameEntry(c, siteRow)
    BY UnderWay DEF Current, Owned
  <1>3. RowMoves
    BY <1>0, RowRead
  <1> HIDE DEF x, c, own
  <1>4. CASE Access!Adopt(r)
    <2> DEFINE p == Access!UpdateTokenPair(c, siteRow.access, siteRow.refresh, siteRow.expiry)
    <2>1. /\ p \in Access!RowType /\ SameEntry(p, c) /\ p.access = siteRow.access
          /\ p.refresh = siteRow.refresh /\ p.expiry = siteRow.expiry /\ p.cookie = c.cookie
      BY <1>1, PairFields
    <2>2. siteRow.access # None /\ siteRow.expiry = "later" /\ Access!Goes(r, "use", p, Access!Access(p))
      BY <1>4 DEF Access!Adopt, Access!tokenValid, c
    <2> HIDE DEF p
    <2>3. Access!Access(p) \in Sessions /\ Access!Access(p).who = siteRow.access
      BY <2>1, SessionsFit
    <2>4. Enough(p) /\ SameEntry(p, c)
      BY <1>1, <2>1, <2>2 DEF Enough, SameEntry
    <2>5. own => Belongs(p, entered) /\ siteRow.access = entered
      BY <1>1, <1>2, <2>1, <2>2 DEF Belongs, SameEntry
    <2>6. RunMoves(r)
      BY <2>1, <2>2, <2>3, <2>4, <2>5, GoesMoves, RunGoes DEF SitePlaces, own, x, c
    <2> QED BY <1>3, <2>6, MovesKeep
  <1>5. CASE Access!AskRefresh(r)
    <2>1. CASE Access!Ends(r)
      BY <1>3, <2>1, RunEnds, MovesKeep
    <2>2. CASE Access!Goes(r, "store", Access!UpdateTokenPair(c, c.refresh, c.refresh, "later"),
                           Access!NoSession)
      <3> DEFINE p == Access!UpdateTokenPair(c, c.refresh, c.refresh, "later")
      <3>1. /\ p \in Access!RowType /\ SameEntry(p, c) /\ p.access = c.refresh
            /\ p.refresh = c.refresh /\ p.cookie = c.cookie
        BY <1>1, PairFields
      <3>2. Access!Goes(r, "store", p, Access!NoSession)
        BY <2>2
      <3> HIDE DEF p
      <3>3. Access!NoSession \in Sessions
        BY <3>1, SessionsFit
      <3>4. Enough(p) /\ p.mode # "user_key" /\ p.access # None
        BY <1>1, <3>1 DEF Enough, SameEntry
      <3>5. own => Belongs(p, entered) /\ p.access = entered
        BY <1>1, <1>2, <3>1 DEF Belongs, SameEntry
      <3>6. RunMoves(r)
        BY <3>1, <3>2, <3>3, <3>4, <3>5, GoesMoves, RunGoes DEF SitePlaces, own, x, c
      <3> QED BY <1>3, <3>6, MovesKeep
    <2>3. CASE /\ c.mode = "password"
               /\ Access!Goes(r, "wipe", Access!UpdateTokenPair(c, None, None, "null"),
                              Access!NoSession)
      <3> DEFINE p == Access!UpdateTokenPair(c, None, None, "null")
      <3>1. /\ p \in Access!RowType /\ SameEntry(p, c) /\ p.access = None
            /\ p.refresh = None /\ p.cookie = c.cookie /\ p.expiry = "null"
        BY <1>1, PairFields
      <3>2. Access!Goes(r, "wipe", p, Access!NoSession)
        BY <2>3
      <3> HIDE DEF p
      <3>3. Access!NoSession \in Sessions
        BY <3>1, SessionsFit
      <3>4. Enough(p) /\ p.mode = "password"
        BY <1>1, <2>3, <3>1 DEF Enough, SameEntry
      <3>5. own => Belongs(p, entered)
        BY <1>1, <1>2, <2>3, <3>1 DEF Belongs, SameEntry
      <3>6. RunMoves(r)
        BY <3>1, <3>2, <3>3, <3>4, <3>5, GoesMoves, RunGoes DEF SitePlaces, own, x, c
      <3> QED BY <1>3, <3>6, MovesKeep
    <2> QED BY <1>5, <2>1, <2>2, <2>3 DEF Access!AskRefresh, c
  <1> QED BY <1>4, <1>5

\* A refreshed pair is stored, or the rejected one wiped.
LEMMA StoreKeeps ==
    ASSUME AccessInv, NEW r \in Runs, Access!Store(r) \/ Access!Wipe(r)
    PROVE  AccessInv'
  <1> DEFINE x == inSession[r]
             c == inSession[r].copy
             own == x.fresh /\ ~overwritten /\ entered # None
  <1>1. /\ c \in Access!RowType /\ siteRow \in Access!RowType /\ None \in Access!Names
        /\ c.access \in Access!Names /\ c.refresh \in Access!Names
        /\ c.expiry \in {"null", "later"} /\ "null" \in {"null", "later"}
        /\ siteRow.mode \in {"password", "token", "user_key"}
        /\ c.mode \in {"password", "token", "user_key"}
    BY UnderWay
  <1>2. /\ own => /\ Owned(x, entered) /\ Belongs(siteRow, entered)
        /\ x.fresh => SameEntry(c, siteRow)
    BY UnderWay DEF Current
  <1>3. CASE Access!Store(r)
    <2> DEFINE q == IF siteKind = "sub2api" THEN Access!clearRejected(siteRow, c) ELSE siteRow
               p == Access!UpdateTokenPair(q, c.access, c.refresh, c.expiry)
    <2>0. x.pc = "store" /\ Enough(c) /\ c.mode # "user_key" /\ c.access # None
      BY <1>3, UnderWay DEF Access!Store, Placed
    <2>1. q \in Access!RowType /\ SameButCool(q, siteRow)
      BY <1>1, ClearedFields DEF SameButCool, SameEntry, SameTokens
    <2>2. Access!Writes(r, p) /\ Access!Goes(r, "use", c, Access!Access(c))
      BY <1>3 DEF Access!Store
    <2> HIDE DEF q
    <2>3. /\ p \in Access!RowType /\ SameEntry(p, q) /\ p.access = c.access
          /\ p.refresh = c.refresh /\ p.expiry = c.expiry /\ p.cookie = q.cookie
      BY <1>1, <2>1, PairFields
    <2> HIDE DEF p
    <2>4. SameEntry(p, siteRow) /\ p.cookie = siteRow.cookie
      BY <2>1, <2>3 DEF SameEntry, SameButCool
    <2>5. /\ Access!Access(c) \in Sessions /\ Access!Access(c).who = c.access
      BY <1>1, SessionsFit
    <2>6. own => c.access = entered /\ Belongs(c, entered)
      BY <1>2, <2>0 DEF Owned
    <2>7. own => Belongs(p, entered)
      BY <1>1, <1>2, <2>0, <2>3, <2>4, <2>6 DEF Belongs, SameEntry
    <2>8. x.fresh => siteRow.mode = "password" \/ (siteRow.mode = "token" /\ p.access # None)
      BY <1>1, <1>2, <2>0, <2>3 DEF SameEntry
    <2>9. RowMoves
      BY <2>2, <2>3, <2>4, <2>7, <2>8, RowWritten
    <2> HIDE DEF x, c, own
    <2>10. RunMoves(r)
      <3>1. SameEntry(c, c)
        BY DEF SameEntry
      <3> QED BY <1>1, <2>0, <2>2, <2>5, <2>6, <3>1, GoesMoves, RunGoes DEF SitePlaces, own, x, c
    <2> QED BY <2>9, <2>10, MovesKeep
  <1>4. CASE Access!Wipe(r)
    <2> DEFINE p == Access!UpdateTokenPair(siteRow, None, None, "null")
    <2>0. x.pc = "wipe" /\ Enough(c) /\ c.mode = "password"
      BY <1>4, UnderWay DEF Access!Wipe, Placed
    <2>2. Access!Writes(r, p) /\ Access!Goes(r, "login", c, Access!NoSession)
      BY <1>4 DEF Access!Wipe
    <2>3. /\ p \in Access!RowType /\ SameEntry(p, siteRow) /\ p.access = None
          /\ p.refresh = None /\ p.expiry = "null" /\ p.cookie = siteRow.cookie
      BY <1>1, PairFields
    <2> HIDE DEF p
    <2>5. Access!NoSession \in Sessions
      BY <1>1, SessionsFit
    <2>6. own => Belongs(c, entered)
      BY <1>2 DEF Owned
    <2>8. x.fresh => siteRow.mode = "password"
      BY <1>2, <2>0 DEF SameEntry
    <2>7. own => Belongs(p, entered)
      BY <1>2, <2>3, <2>8 DEF Belongs, SameEntry
    <2>9. RowMoves
      BY <2>2, <2>3, <2>7, <2>8, RowWritten
    <2> HIDE DEF x, c, own
    <2>10. RunMoves(r)
      <3>1. SameEntry(c, c)
        BY DEF SameEntry
      <3> QED BY <1>1, <2>0, <2>2, <2>5, <2>6, <3>1, GoesMoves, RunGoes DEF SitePlaces, own, x, c
    <2> QED BY <2>9, <2>10, MovesKeep
  <1> QED BY <1>3, <1>4

\* What a login gave is stored.
LEMMA LoginKeeps ==
    ASSUME AccessInv, NEW r \in Runs, Access!StoreLogin(r)
    PROVE  AccessInv'
  <1> DEFINE x == inSession[r]
             c == inSession[r].copy
             own == x.fresh /\ ~overwritten /\ entered # None
             who == c.email
             p == Access!ClearLoginCooldown(c)
             q == Access!clearRejected(siteRow, c)
  <1>1. /\ c \in Access!RowType /\ siteRow \in Access!RowType /\ None \in Access!Names
        /\ who \in Access!Names /\ "later" \in {"null", "later"}
    BY UnderWay
  <1>2. /\ own => Belongs(c, entered) /\ Belongs(siteRow, entered)
        /\ x.fresh => SameEntry(c, siteRow)
    BY UnderWay DEF Current, Owned
  <1>3. x.pc = "login" /\ Enough(c) /\ c.mode = "password" /\ who # None
    BY UnderWay DEF Access!StoreLogin, Placed, Enough
  <1>4. own => who = entered /\ siteRow.mode = "password"
    BY <1>2, <1>3 DEF Belongs, SameEntry
  <1>5. x.fresh => siteRow.mode = "password"
    BY <1>2, <1>3 DEF SameEntry
  <1>6. p \in Access!RowType /\ SameButCool(p, c)
    BY <1>1, CoolFields DEF Access!ClearLoginCooldown
  <1>7. q \in Access!RowType /\ SameButCool(q, siteRow)
    BY <1>1, ClearedFields
  <1>8. PICK f \in {None, who} :
          \/ LET t == Access!UpdateTokenPair(p, who, f, "later")
             IN /\ Access!Goes(r, "use", t, Access!Access(t))
                /\ Access!Writes(r, Access!UpdateTokenPair(q, who, f, "later"))
          \/ /\ Access!Goes(r, "store",
                    Access!UpdateTokenPair(Access!UpdateSession(p, None, who), who, f, "later"),
                    Access!NoSession)
             /\ Access!Writes(r, Access!UpdateSession(q, None, who))
          \/ LET t == Access!UpdateSession(p, who, who)
             IN /\ Access!Goes(r, "use", t, Access!Cookie(t))
                /\ Access!Writes(r, Access!UpdateSession(q, who, who))
    BY DEF Access!StoreLogin
  <1>9. f \in Access!Names
    BY <1>1, <1>8
  <1> HIDE DEF x, own, who, p, q
  <1>10. CASE /\ Access!Goes(r, "use", Access!UpdateTokenPair(p, who, f, "later"),
                             Access!Access(Access!UpdateTokenPair(p, who, f, "later")))
              /\ Access!Writes(r, Access!UpdateTokenPair(q, who, f, "later"))
    <2> DEFINE t == Access!UpdateTokenPair(p, who, f, "later")
               w == Access!UpdateTokenPair(q, who, f, "later")
    <2>1. /\ t \in Access!RowType /\ SameEntry(t, p) /\ t.access = who /\ t.refresh = f
          /\ t.expiry = "later" /\ t.cookie = p.cookie
      BY <1>1, <1>6, <1>9, PairFields
    <2>2. /\ w \in Access!RowType /\ SameEntry(w, q) /\ w.access = who /\ w.refresh = f
          /\ w.expiry = "later" /\ w.cookie = q.cookie
      BY <1>1, <1>7, <1>9, PairFields
    <2>3. Access!Goes(r, "use", t, Access!Access(t)) /\ Access!Writes(r, w)
      BY <1>10
    <2> HIDE DEF t, w
    <2>4. Access!Access(t) \in Sessions /\ Access!Access(t).who = who
      BY <2>1, SessionsFit
    <2>5. /\ SameEntry(t, c) /\ Enough(t) /\ SameEntry(w, siteRow)
          /\ t.cookie = c.cookie /\ w.cookie = siteRow.cookie
      BY <1>3, <1>6, <1>7, <2>1, <2>2 DEF SameEntry, SameButCool, Enough
    <2>6. own => Belongs(t, entered) /\ Belongs(w, entered)
      BY <1>2, <1>3, <1>4, <1>8, <2>1, <2>2, <2>5 DEF Belongs, SameEntry
    <2>7. RowMoves
      BY <1>5, <2>2, <2>3, <2>5, <2>6, RowWritten DEF own, x
    <2>8. RunMoves(r)
      BY <1>4, <2>1, <2>3, <2>4, <2>5, <2>6, GoesMoves, RunGoes DEF SitePlaces, own, x
    <2> QED BY <2>7, <2>8, MovesKeep
  <1>11. CASE /\ Access!Goes(r, "store",
                    Access!UpdateTokenPair(Access!UpdateSession(p, None, who), who, f, "later"),
                    Access!NoSession)
              /\ Access!Writes(r, Access!UpdateSession(q, None, who))
    <2> DEFINE s == Access!UpdateSession(p, None, who)
               t == Access!UpdateTokenPair(s, who, f, "later")
               w == Access!UpdateSession(q, None, who)
    <2>1. s \in Access!RowType /\ SameEntry(s, p) /\ s.cookie = None
      BY <1>1, <1>6, SessionFields
    <2>2. w \in Access!RowType /\ SameEntry(w, q) /\ SameTokens(w, q) /\ w.cookie = None
      BY <1>1, <1>7, SessionFields
    <2> HIDE DEF s
    <2>3. /\ t \in Access!RowType /\ SameEntry(t, s) /\ t.access = who /\ t.refresh = f
          /\ t.expiry = "later" /\ t.cookie = s.cookie
      BY <1>1, <1>9, <2>1, PairFields
    <2>4. Access!Goes(r, "store", t, Access!NoSession) /\ Access!Writes(r, w)
      BY <1>11 DEF s
    <2> HIDE DEF t, w
    <2>5. Access!NoSession \in Sessions
      BY <1>1, SessionsFit
    <2>6. SameEntry(t, c) /\ Enough(t) /\ SameEntry(w, siteRow) /\ t.cookie = None
      BY <1>3, <1>6, <1>7, <2>1, <2>2, <2>3 DEF SameEntry, SameButCool, Enough
    <2>7. own => Belongs(t, entered) /\ Belongs(w, entered)
      BY <1>2, <1>3, <1>4, <1>7, <1>8, <2>2, <2>3, <2>6 DEF Belongs, SameEntry, SameTokens, SameButCool
    <2>8. RowMoves
      BY <1>5, <2>2, <2>4, <2>6, <2>7, RowWritten DEF own, x
    <2>9. RunMoves(r)
      <3>1. t.mode # "user_key"
        BY <1>3, <2>6 DEF SameEntry
      <3> QED BY <1>3, <1>4, <2>3, <2>4, <2>5, <2>6, <2>7, <3>1, GoesMoves, RunGoes DEF SitePlaces, own, x
    <2> QED BY <2>8, <2>9, MovesKeep
  <1>12. CASE /\ Access!Goes(r, "use", Access!UpdateSession(p, who, who),
                             Access!Cookie(Access!UpdateSession(p, who, who)))
              /\ Access!Writes(r, Access!UpdateSession(q, who, who))
    <2> DEFINE t == Access!UpdateSession(p, who, who)
               w == Access!UpdateSession(q, who, who)
    <2>1. t \in Access!RowType /\ SameEntry(t, p) /\ SameTokens(t, p) /\ t.cookie = who
      BY <1>1, <1>6, SessionFields
    <2>2. w \in Access!RowType /\ SameEntry(w, q) /\ SameTokens(w, q) /\ w.cookie = who
      BY <1>1, <1>7, SessionFields
    <2>3. Access!Goes(r, "use", t, Access!Cookie(t)) /\ Access!Writes(r, w)
      BY <1>12
    <2> HIDE DEF t, w
    <2>4. Access!Cookie(t) \in Sessions /\ Access!Cookie(t).who = who
      BY <2>1, SessionsFit
    <2>5. SameEntry(t, c) /\ Enough(t) /\ SameEntry(w, siteRow)
      BY <1>3, <1>6, <1>7, <2>1, <2>2 DEF SameEntry, SameButCool, Enough
    <2>6. own => Belongs(t, entered) /\ Belongs(w, entered)
      BY <1>2, <1>3, <1>4, <1>6, <1>7, <2>1, <2>2, <2>5 DEF Belongs, SameEntry, SameTokens, SameButCool
    <2>7. RowMoves
      BY <1>5, <2>2, <2>3, <2>5, <2>6, RowWritten DEF own, x
    <2>8. RunMoves(r)
      BY <1>4, <2>1, <2>3, <2>4, <2>5, <2>6, GoesMoves, RunGoes DEF SitePlaces, own, x
    <2> QED BY <2>7, <2>8, MovesKeep
  <1> QED BY <1>8, <1>10, <1>11, <1>12

\* A run that tries once more, with another session or on the way to one.
Retried(r, l, c, s) ==
    /\ inSession' = [inSession EXCEPT ![r].pc = l, ![r].copy = c, ![r].session = s, ![r].again = TRUE]
    /\ UNCHANGED <<siteKind, statements, submitted, modified>>

\* It is a run like any other, and the others are as before.
LEMMA RetriedMoves ==
    ASSUME AccessInv, NEW r \in Runs, NEW l \in SitePlaces, NEW c \in Access!RowType, NEW s \in Sessions,
           Retried(r, l, c, s)
    PROVE  /\ inSession' \in [Runs -> Begun]
           /\ \A q \in Runs \ {r} : inSession'[q] = inSession[q]
           /\ inSession'[r].pc = l /\ inSession'[r].copy = c /\ inSession'[r].session = s
           /\ inSession'[r].fresh = inSession[r].fresh /\ inSession'[r].want = inSession[r].want
           /\ UNCHANGED <<statements, submitted>>
  <1> DEFINE f == inSession
             u == [f[r] EXCEPT !.pc = l]
             v == [u EXCEPT !.copy = c]
             w == [v EXCEPT !.session = s]
             x == [w EXCEPT !.again = TRUE]
  <1>1. f \in [Runs -> Begun] /\ f[r] \in Begun
    BY DEF AccessInv, AccessTypes
  <1>2. inSession' = [f EXCEPT ![r] = x] /\ UNCHANGED <<statements, submitted>>
    BY DEF Retried
  <1>3. u \in Begun /\ u.pc = l /\ u.fresh = f[r].fresh /\ u.want = f[r].want
    BY <1>1 DEF Begun
  <1> HIDE DEF u
  <1>4. v \in Begun /\ v.pc = l /\ v.copy = c /\ v.fresh = f[r].fresh /\ v.want = f[r].want
    BY <1>3 DEF Begun
  <1> HIDE DEF v
  <1>5. /\ w \in Begun /\ w.pc = l /\ w.copy = c /\ w.session = s
        /\ w.fresh = f[r].fresh /\ w.want = f[r].want
    BY <1>4 DEF Begun
  <1> HIDE DEF w
  <1>6. /\ x \in Begun /\ x.pc = l /\ x.copy = c /\ x.session = s
        /\ x.fresh = f[r].fresh /\ x.want = f[r].want
    BY <1>5 DEF Begun
  <1> HIDE DEF x
  <1> QED BY <1>1, <1>2, <1>6

\* One that starts over with a copy of the same account, on the way its credentials allow.
LEMMA StartsOver ==
    ASSUME AccessInv, NEW r \in Runs, NEW c \in Access!RowType,
           Retried(r, Access!ensure(c).pc, c, Access!ensure(c).session),
           Enough(c), c.mode # "user_key", SameEntry(c, inSession[r].copy),
           inSession[r].fresh /\ ~overwritten /\ entered # None => Belongs(c, entered)
    PROVE  RunMoves(r)
  <1> DEFINE l == Access!ensure(c).pc
             s == Access!ensure(c).session
  <1>1. Access!CredentialsReady(c)
    BY EnoughIsReady
  <1>2. /\ l \in {"use", "refresh", "login"} /\ s \in Sessions
        /\ l = "refresh" => c.refresh # None /\ c.mode # "user_key"
        /\ l = "login" => c.mode = "password"
        /\ \A who : Belongs(c, who) /\ l = "use" => s.who = who
    BY <1>1, Ensured
  <1>3. Retried(r, l, c, s)
    OBVIOUS
  <1> HIDE DEF l, s
  <1>4. l \in SitePlaces
    BY <1>2 DEF SitePlaces
  <1> QED BY <1>2, <1>3, <1>4, RetriedMoves, RunGoes

\* The ways of a run whose session is refused.
LEMMA RefusedWays ==
    ASSUME AccessInv, NEW r \in Runs, Access!Refused(r)
    PROVE  LET c == inSession[r].copy
               Anew(d) == Retried(r, Access!ensure(d).pc, d, Access!ensure(d).session) IN
           \/ Access!Ends(r) /\ Access!Reads
           \/ \E d : /\ c.mode = "user_key" /\ siteRow.mode = "user_key"
                     /\ d = [c EXCEPT !.access = siteRow.access, !.user = siteRow.user]
                     /\ Retried(r, "use", d, Access!Key(d)) /\ Access!Reads
           \/ \E d : /\ d \in {c, [c EXCEPT !.expiry = "null"]} /\ c.mode # "user_key"
                     /\ c.refresh # None
                     /\ Retried(r, "refresh", d, Access!NoSession) /\ Access!Reads
           \/ c.mode = "token" /\ Anew([c EXCEPT !.expiry = "null"]) /\ Access!Reads
           \/ /\ c.mode = "password" /\ Anew([c EXCEPT !.access = None, !.expiry = "null"])
              /\ Access!Writes(r, Access!ClearToken(siteRow))
           \/ /\ c.mode = "password" /\ Anew([c EXCEPT !.cookie = None])
              /\ Access!Writes(r, Access!UpdateSession(siteRow, None, c.user))
  BY DEF Access!Refused, Retried

\* A session that is refused.
LEMMA RefusedKeeps ==
    ASSUME AccessInv, NEW r \in Runs, Access!Refused(r)
    PROVE  AccessInv'
  <1> DEFINE x == inSession[r]
             c == inSession[r].copy
             own == x.fresh /\ ~overwritten /\ entered # None
             Anew(d) == Retried(r, Access!ensure(d).pc, d, Access!ensure(d).session)
  <1>1. /\ c \in Access!RowType /\ siteRow \in Access!RowType /\ None \in Access!Names
        /\ siteRow.access \in Access!Names /\ siteRow.user \in Access!Names
        /\ c.user \in Access!Names
    BY UnderWay
  <1>2. /\ own => Belongs(c, entered) /\ Belongs(siteRow, entered)
        /\ x.fresh => SameEntry(c, siteRow)
    BY UnderWay DEF Current, Owned
  <1>3. Enough(c)
    BY UnderWay DEF Access!Refused, Placed
  <1>4. CASE Access!Ends(r) /\ Access!Reads
    BY <1>4, RunEnds, RowRead, MovesKeep
  <1>5. ASSUME NEW d, c.mode = "user_key", siteRow.mode = "user_key",
               d = [c EXCEPT !.access = siteRow.access, !.user = siteRow.user],
               Retried(r, "use", d, Access!Key(d)), Access!Reads
        PROVE  AccessInv'
    <2> DEFINE u == [c EXCEPT !.access = siteRow.access]
    <2>1. d = [u EXCEPT !.user = siteRow.user]
      BY <1>5
    <2>2. u \in Access!RowType /\ SameEntry(u, c) /\ u.access = siteRow.access
      BY <1>1 DEF Access!RowType, SameEntry
    <2> HIDE DEF u
    <2>3. /\ d \in Access!RowType /\ SameEntry(d, c) /\ d.access = siteRow.access
          /\ d.user = siteRow.user
      BY <1>1, <2>1, <2>2 DEF Access!RowType, SameEntry
    <2>4. Access!Key(d) \in Sessions /\ Access!Key(d).who = siteRow.access
      BY <2>3, SessionsFit
    <2>5. Enough(d) /\ d.mode = "user_key"
      BY <1>5, <2>3 DEF Enough, SameEntry
    <2>6. own => Belongs(d, entered) /\ siteRow.access = entered
      BY <1>2, <1>5, <2>3, <2>5 DEF Belongs
    <2> HIDE DEF x, c, own
    <2>7. RunMoves(r)
      BY <1>5, <2>3, <2>4, <2>5, <2>6, RetriedMoves, RunGoes DEF SitePlaces, own, x, c
    <2> QED BY <1>5, <2>7, RowRead, MovesKeep
  <1>6. ASSUME NEW d, d \in {c, [c EXCEPT !.expiry = "null"]}, c.mode # "user_key",
               c.refresh # None, Retried(r, "refresh", d, Access!NoSession), Access!Reads
        PROVE  AccessInv'
    <2>1. /\ d \in Access!RowType /\ SameEntry(d, c) /\ d.refresh = c.refresh
          /\ d.access = c.access /\ d.cookie = c.cookie /\ d.user = c.user
          /\ d.expiry \in {c.expiry, "null"}
      BY <1>1, <1>6 DEF Access!RowType, SameEntry
    <2>2. Access!NoSession \in Sessions
      BY <1>1, SessionsFit
    <2>3. Enough(d) /\ d.mode # "user_key" /\ d.refresh # None
      BY <1>3, <1>6, <2>1 DEF Enough, SameEntry
    <2>4. own => Belongs(d, entered)
      BY <1>2, <2>1 DEF Belongs, SameEntry
    <2> HIDE DEF x, c, own
    <2>5. RunMoves(r)
      BY <1>6, <2>1, <2>2, <2>3, <2>4, RetriedMoves, RunGoes DEF SitePlaces, own, x, c
    <2> QED BY <1>6, <2>5, RowRead, MovesKeep
  <1>7. CASE c.mode = "token" /\ Anew([c EXCEPT !.expiry = "null"]) /\ Access!Reads
    <2> DEFINE d == [c EXCEPT !.expiry = "null"]
    <2>1. /\ d \in Access!RowType /\ SameEntry(d, c) /\ d.refresh = c.refresh
          /\ d.access = c.access /\ d.cookie = c.cookie /\ d.user = c.user
      BY <1>1 DEF Access!RowType, SameEntry
    <2>2. Anew(d)
      BY <1>7
    <2> HIDE DEF d
    <2>3. Enough(d) /\ d.mode # "user_key"
      BY <1>3, <1>7, <2>1 DEF Enough, SameEntry
    <2>4. own => Belongs(d, entered)
      BY <1>2, <1>7, <2>1 DEF Belongs, SameEntry
    <2>5. RunMoves(r)
      BY <2>1, <2>2, <2>3, <2>4, StartsOver
    <2> QED BY <1>7, <2>5, RowRead, MovesKeep
  <1>8. CASE /\ c.mode = "password" /\ Anew([c EXCEPT !.access = None, !.expiry = "null"])
             /\ Access!Writes(r, Access!ClearToken(siteRow))
    <2> DEFINE u == [c EXCEPT !.access = None]
               d == [c EXCEPT !.access = None, !.expiry = "null"]
    <2>1. d = [u EXCEPT !.expiry = "null"]
      OBVIOUS
    <2>2. u \in Access!RowType /\ SameEntry(u, c) /\ u.refresh = c.refresh /\ u.cookie = c.cookie
      BY <1>1 DEF Access!RowType, SameEntry
    <2>3. Anew(d)
      BY <1>8
    <2> HIDE DEF u, d
    <2>4. /\ d \in Access!RowType /\ SameEntry(d, c) /\ d.refresh = c.refresh
          /\ d.cookie = c.cookie /\ d.expiry = "null"
      BY <1>1, <2>1, <2>2 DEF Access!RowType, SameEntry
    <2>5. Enough(d) /\ d.mode # "user_key"
      BY <1>3, <1>8, <2>4 DEF Enough, SameEntry
    <2>6. own => Belongs(d, entered)
      BY <1>2, <1>8, <2>4 DEF Belongs, SameEntry
    <2>7. RunMoves(r)
      BY <2>3, <2>4, <2>5, <2>6, StartsOver
    <2> DEFINE w == Access!ClearToken(siteRow)
               y == [siteRow EXCEPT !.access = None]
               z == [y EXCEPT !.expiry = "null"]
    <2>8. w = [z EXCEPT !.cookie = None]
      BY DEF Access!ClearToken
    <2>9. y \in Access!RowType /\ SameEntry(y, siteRow) /\ y.refresh = siteRow.refresh
      BY <1>1 DEF Access!RowType, SameEntry
    <2> HIDE DEF y, w
    <2>10. /\ z \in Access!RowType /\ SameEntry(z, siteRow) /\ z.refresh = siteRow.refresh
           /\ z.expiry = "null"
      BY <2>9 DEF Access!RowType, SameEntry
    <2> HIDE DEF z
    <2>11. /\ w \in Access!RowType /\ SameEntry(w, siteRow) /\ w.refresh = siteRow.refresh
           /\ w.cookie = None /\ w.expiry = "null"
      BY <1>1, <2>8, <2>10 DEF Access!RowType, SameEntry
    <2>12. x.fresh => siteRow.mode = "password"
      BY <1>2, <1>8 DEF SameEntry
    <2>13. own => Belongs(w, entered)
      BY <1>2, <2>11, <2>12 DEF Belongs, SameEntry
    <2>14. Access!Writes(r, w)
      BY <1>8 DEF w
    <2>15. RowMoves
      BY <2>11, <2>12, <2>13, <2>14, RowWritten
    <2> QED BY <2>7, <2>15, MovesKeep
  <1>9. CASE /\ c.mode = "password" /\ Anew([c EXCEPT !.cookie = None])
             /\ Access!Writes(r, Access!UpdateSession(siteRow, None, c.user))
    <2> DEFINE d == [c EXCEPT !.cookie = None]
               user == c.user
               w == Access!UpdateSession(siteRow, None, user)
    <2>0. user \in Access!Names
      BY <1>1
    <2>1. /\ d \in Access!RowType /\ SameEntry(d, c) /\ d.refresh = c.refresh
          /\ d.access = c.access /\ d.cookie = None /\ d.expiry = c.expiry
      BY <1>1 DEF Access!RowType, SameEntry
    <2>2. Anew(d) /\ Access!Writes(r, w)
      BY <1>9
    <2> HIDE DEF d, user
    <2>3. w \in Access!RowType /\ SameEntry(w, siteRow) /\ SameTokens(w, siteRow) /\ w.cookie = None
      BY <1>1, <2>0, SessionFields
    <2> HIDE DEF w
    <2>4. Enough(d) /\ d.mode # "user_key"
      BY <1>3, <1>9, <2>1 DEF Enough, SameEntry
    <2>5. own => Belongs(d, entered)
      BY <1>2, <1>9, <2>1 DEF Belongs, SameEntry
    <2>6. RunMoves(r)
      BY <2>1, <2>2, <2>4, <2>5, StartsOver
    <2>7. x.fresh => siteRow.mode = "password"
      BY <1>2, <1>9 DEF SameEntry
    <2>8. own => Belongs(w, entered)
      BY <1>2, <2>3, <2>7 DEF Belongs, SameEntry, SameTokens
    <2>9. RowMoves
      BY <2>2, <2>3, <2>7, <2>8, RowWritten
    <2> QED BY <2>6, <2>9, MovesKeep
  <1> HIDE DEF x, own
  <1> QED BY RefusedWays, <1>4, <1>5, <1>6, <1>7, <1>8, <1>9

\* The invariant holds for ever.
LEMMA AccessHolds == PartSpec => []AccessInv
  <1>1. PartInit => AccessInv
    BY AccessStarts DEF PartInit
  <1>2. AccessInv /\ [PartNext]_<<part, vars, healthVars, alertVars, costVars, pushVars,
                                  accessVars>> => AccessInv'
    <2> SUFFICES ASSUME AccessInv, [PartNext]_<<part, vars, healthVars, alertVars, costVars,
                                                pushVars, accessVars>>
                 PROVE  AccessInv'
      OBVIOUS
    <2>1. [Access!Next]_accessVars
      BY AccessAlone
    <2>2. CASE UNCHANGED accessVars
      BY <2>2 DEF accessVars, AccessInv, AccessTypes, RowOwned, EndsClean, Current
    <2>3. CASE Access!Next
      BY <2>3, SubmitKeeps, UpdateKeeps, RowKeeps, LoadKeeps, EndsKeep, RefreshKeeps, StoreKeeps,
         LoginKeeps, RefusedKeeps DEF Access!Next
    <2> QED BY <2>1, <2>2, <2>3
  <1> QED BY <1>1, <1>2, PTL DEF PartSpec

\* Whatever is edited and whatever runs and fails meanwhile: a run from after an edit uses a
\* session of the account that was entered, unless a refresh token of another account outlived
\* the edit or an older run wrote after it; what was enough to collect stays so; and no run is
\* begun without what it needs.
THEOREM AccessKept == PartSpec => []AccessIsTrue
  <1>1. AccessInv => Access!OwnSession
    BY DEF AccessInv, Current, Owned, Access!OwnSession
  <1>2. AccessInv => Access!StaysReady
    BY DEF AccessInv, RowOwned, Access!StaysReady
  <1>3. AccessInv => Access!CredentialsSuffice
    BY DEF AccessInv, Placed, Access!CredentialsSuffice
  <1>4. AccessInv => AccessIsTrue
    BY <1>1, <1>2, <1>3 DEF AccessIsTrue, Access!AccessIsTrue
  <1> QED BY <1>4, AccessHolds, PTL

(***************************************************************************)
(* The board: counts                                                       *)
(***************************************************************************)
\* How many requests a row stands for.
Counts == [r \in Push!Rows |-> r.count]
Total(S) == Push!Sum("count", S)

\* The sum of the board is the one the lemmas are about.
LEMMA BoardSum ==
    ASSUME NEW S, NEW field
    PROVE  Push!Sum(field, S) = Sum([r \in S |-> r[field]], S)
  BY DEF Push!Sum, Push!SumFunction, Push!SumFunctionOnSet, Push!FoldFunctionOnSet,
         Push!MapThenFoldSet, Sum, SumFunctionOnSet, FoldFunctionOnSet, MapThenFoldSet

\* The sum of a column that counts as a function does.
LEMMA BoardSumOf ==
    ASSUME NEW S, IsFiniteSet(S), NEW field, NEW w, \A r \in S : r[field] = w[r]
    PROVE  Push!Sum(field, S) = Sum(w, S)
  <1> DEFINE f == [r \in S |-> r[field]]
  <1>1. Push!Sum(field, S) = Sum(f, S)
    BY BoardSum
  <1>2. \A r \in S : f[r] = w[r]
    OBVIOUS
  <1> HIDE DEF f
  <1>3. Sum(f, S) = Sum(w, S)
    BY <1>2, SumSame
  <1> QED BY <1>1, <1>3

\* Rows of the window count in natural numbers.
LEMMA CountsOf ==
    ASSUME NEW S, IsFiniteSet(S), S \subseteq Push!Rows
    PROVE  /\ \A r \in S : Counts[r] = r.count /\ Counts[r] \in Nat
           /\ Total(S) = Sum(Counts, S) /\ Total(S) \in Nat
           /\ Total(S) = 0 <=> \A r \in S : r.count = 0
  <1>1. \A r \in S : r["count"] = Counts[r] /\ Counts[r] = r.count /\ Counts[r] \in Nat
    BY DEF Counts, Push!Rows
  <1>2. Total(S) = Sum(Counts, S)
    BY <1>1, BoardSumOf DEF Total
  <1>3. Sum(Counts, S) \in Nat /\ (Sum(Counts, S) = 0 <=> \A r \in S : Counts[r] = 0)
    BY <1>1, SumOfNaturals
  <1> QED BY <1>1, <1>2, <1>3

\* Rows that have nothing in common count together what each counts.
LEMMA CountsJoin ==
    ASSUME NEW S, NEW A, NEW B, IsFiniteSet(A), IsFiniteSet(B), A \subseteq Push!Rows,
           B \subseteq Push!Rows, A \cap B = {}, S = A \cup B
    PROVE  Total(S) = Total(A) + Total(B)
  <1>1. IsFiniteSet(S) /\ S \subseteq Push!Rows
    BY FS_Union
  <1>2. /\ Total(S) = Sum(Counts, A \cup B)
        /\ Total(A) = Sum(Counts, A)
        /\ Total(B) = Sum(Counts, B)
    BY <1>1, CountsOf
  <1>3. \A r \in A \cup B : Counts[r] \in Int
    BY <1>1, CountsOf
  <1>4. Sum(Counts, A \cup B) = Sum(Counts, A) + Sum(Counts, B)
    BY <1>3, SumJoins
  <1> QED BY <1>2, <1>4

\* One row more counts what it stands for.
LEMMA CountsExtend ==
    ASSUME NEW A, NEW r \in Push!Rows, IsFiniteSet(A), A \subseteq Push!Rows, r \notin A
    PROVE  Total(A \cup {r}) = Total(A) + r.count
  <1>1. IsFiniteSet({r}) /\ {r} \subseteq Push!Rows /\ A \cap {r} = {}
    BY FS_Singleton
  <1>2. Total(A \cup {r}) = Total(A) + Total({r})
    BY <1>1, CountsJoin
  <1>3. Total({r}) = Sum(Counts, {r}) /\ Counts[r] = r.count /\ Counts[r] \in Nat
    BY <1>1, CountsOf
  <1>4. Sum(Counts, {r}) = Counts[r]
    BY <1>3, SumOfOne
  <1> QED BY <1>2, <1>3, <1>4

\* Part of a traffic is a traffic.
LEMMA PartOfTraffic ==
    ASSUME NEW T, Push!IsTraffic(T), NEW S, S \subseteq T
    PROVE  /\ Push!IsTraffic(S) /\ IsFiniteSet(S) /\ S \subseteq Push!Rows
  BY FS_Subset DEF Push!IsTraffic, Push!IsFiniteSet, IsFiniteSet

(***************************************************************************)
(* The board: what a block says                                            *)
(***************************************************************************)
\* Where something takes a first token, the middle one can be read.
LEMMA MedianIsNumber ==
    ASSUME NEW S, IsFiniteSet(S), S \subseteq Push!Rows
    PROVE  Push!Median(S) \in Int
  <1> DEFINE timed == {r \in S : r.ttft # Push!NoTime}
             n == Push!Sum("count", timed)
             upTo(t) == Push!Sum("count", {r \in timed : r.ttft <= t})
             far(k) == {q \in timed : upTo(q.ttft) >= k}
             nth(k) == Push!Min({r.ttft : r \in far(k)})
  <1>1. /\ IsFiniteSet(timed) /\ timed \subseteq Push!Rows
        /\ \A r \in timed : r.ttft \in Nat
    BY FS_Subset DEF Push!Rows
  <1>2. n \in Nat
    BY <1>1, CountsOf DEF Total
  <1>3. ASSUME NEW k \in Int, k <= n, n # 0 PROVE nth(k) \in Int
    <2> DEFINE late == [r \in timed |-> 0 - r.ttft]
               early == [r \in timed |-> r.ttft]
    <2>1. timed # {}
      <3>1. Total({}) = 0
        <4>1. IsFiniteSet({})
          BY FS_EmptySet
        <4> QED BY <4>1, CountsOf
      <3> QED BY <3>1, <1>3 DEF Total
    <2>2. \A r \in timed : late[r] \in Int
      BY <1>1
    <2>3. PICK last \in timed : \A r \in timed : late[last] <= late[r]
      <3> HIDE DEF timed, late
      <3> QED BY <1>1, <2>1, <2>2, LeastOf
    <2>4. \A r \in timed : r.ttft <= last.ttft
      <3>1. \A r \in timed : late[r] = 0 - r.ttft /\ r.ttft \in Nat
        BY <1>1
      <3> HIDE DEF timed, late
      <3> QED BY <3>1, <2>3
    <2>5. {r \in timed : r.ttft <= last.ttft} = timed
      BY <2>4
    <2>6. last \in far(k)
      <3>1. upTo(last.ttft) = n
        <4> DEFINE before == {r \in timed : r.ttft <= last.ttft}
        <4>1. before = timed
          BY <2>5
        <4>2. upTo(last.ttft) = Push!Sum("count", before)
          OBVIOUS
        <4> HIDE DEF before, timed
        <4> QED BY <4>1, <4>2
      <3> HIDE DEF n, upTo
      <3>2. upTo(last.ttft) >= k
        BY <3>1, <1>3, <1>2
      <3> QED BY <3>2
    <2> DEFINE F == far(k)
    <2>7. F \subseteq timed /\ F # {}
      BY <2>6
    <2>8. PICK first \in F : \A r \in F : early[first] <= early[r]
      <3>1. \A r \in F : early[r] \in Int
        BY <2>7, <1>1
      <3> HIDE DEF F, early, timed
      <3>2. IsFiniteSet(F)
        BY <2>7, <1>1, FS_Subset
      <3> QED BY <3>1, <3>2, <2>7, LeastOf
    <2> DEFINE times == {r.ttft : r \in F}
    <2>9. \A r \in F : early[r] = r.ttft /\ r.ttft \in Int
      BY <1>1
    <2>10. first.ttft \in times /\ \A t \in times : first.ttft <= t
      BY <2>8, <2>9
    <2>11. \A t \in times : t \in Int
      BY <2>9
    <2> HIDE DEF times, F
    <2>12. Push!Min(times) \in times
      BY <2>10 DEF Push!Min
    <2> QED BY <2>11, <2>12 DEF times, F
  <1>4. n # 0 => (n + 1) \div 2 <= n /\ (n + 2) \div 2 <= n /\ (n + 1) \div 2 \in Int
                 /\ (n + 2) \div 2 \in Int
    <2> HIDE DEF n
    <2> QED BY <1>2
  <1>5. Push!Median(S) = IF n = 0 THEN Push!NoTime
                         ELSE nth((n + 1) \div 2) + nth((n + 2) \div 2)
    BY DEF Push!Median
  <1>6. Push!NoTime \in Int
    BY DEF Push!NoTime
  <1> HIDE DEF n, nth
  <1> QED BY <1>3, <1>4, <1>5, <1>6

\* What the counted lines of a block say.
RowsAt(T, g, b) ==
    {r \in {q \in T : q.at >= 0 /\ q.kind \in {"ok", "fails"}} : r.group = g /\ r.at = b}
Good(lines) == {r \in lines : r.kind = "ok"}
Says(lines) ==
    [ok |-> Total(Good(lines)), err |-> Total(lines \ Good(lines)),
     ttft |-> Push!Median(Good(lines))]
PointAt(T, g, b) ==
    LET lines == RowsAt(T, g, b) IN
    [group |-> g, at |-> b, ttft |-> Push!Median(Good(lines)),
     ok |-> Total(Good(lines)), err |-> Total(lines \ Good(lines)),
     input |-> Push!Sum("input", Good(lines)), cache |-> Push!Sum("cache", Good(lines))]
Counted(T) == {q \in T : q.at >= 0 /\ q.kind \in {"ok", "fails"}}

\* The timeline has one point for each group and block in which something counts.
LEMMA TimelineIs ==
    ASSUME NEW T
    PROVE  Push!Timeline(T) = {PointAt(T, r.group, r.at) : r \in Counted(T)}
  BY DEF Push!Timeline, PointAt, RowsAt, Good, Total, Counted

\* Nothing counts as nothing.
LEMMA NothingSaid ==
    /\ Total({}) = 0 /\ Push!Median({}) = Push!NoTime
    /\ Says({}) = [ok |-> 0, err |-> 0, ttft |-> Push!NoTime]
  <1>1. Total({}) = 0
    BY FS_EmptySet, CountsOf
  <1>2. Push!Median({}) = Push!NoTime
    <2>1. {r \in {} : r.ttft # Push!NoTime} = {}
      OBVIOUS
    <2> QED BY <2>1, <1>1 DEF Push!Median, Total
  <1>3. Good({}) = {} /\ {} \ {} = {}
    BY DEF Good
  <1> QED BY <1>1, <1>2, <1>3 DEF Says

\* A block of a timeline says what its lines say.
LEMMA BlockSays ==
    ASSUME NEW T, NEW g, NEW b
    PROVE  Push!InBlock(Push!Timeline(T), g, b) = Says(RowsAt(T, g, b))
  <1> DEFINE points == Push!Timeline(T)
             here == {p \in points : p.group = g /\ p.at = b}
  <1>1. \A r \in Counted(T) : PointAt(T, r.group, r.at).group = r.group
                              /\ PointAt(T, r.group, r.at).at = r.at
    BY DEF PointAt
  <1>2. RowsAt(T, g, b) = {r \in Counted(T) : r.group = g /\ r.at = b}
    BY DEF RowsAt, Counted
  <1>3. CASE RowsAt(T, g, b) = {}
    <2>1. here = {}
      BY <1>1, <1>2, <1>3, TimelineIs
    <2> QED BY <2>1, <1>3, NothingSaid DEF Push!InBlock
  <1>4. CASE RowsAt(T, g, b) # {}
    <2>1. here = {PointAt(T, g, b)}
      BY <1>1, <1>2, <1>4, TimelineIs
    <2>2. (CHOOSE p \in here : TRUE) = PointAt(T, g, b)
      BY <2>1
    <2> DEFINE p == CHOOSE p \in here : TRUE
    <2>3. Push!InBlock(points, g, b) = [ok |-> p.ok, err |-> p.err, ttft |-> p.ttft]
      BY <2>1 DEF Push!InBlock
    <2> HIDE DEF p
    <2>4. p = PointAt(T, g, b)
      BY <2>2 DEF p
    <2> QED BY <2>3, <2>4 DEF PointAt, Says
  <1> QED BY <1>3, <1>4

(***************************************************************************)
(* The board: what fails does not look better                              *)
(***************************************************************************)
\* A reading of a block: two counts and the middle first token.
Reading(p) == p.ok \in Nat /\ p.err \in Nat /\ p.ttft \in Int

\* The same requests, some of which failed instead.
Worse(q, p) ==
    /\ Reading(p) /\ Reading(q)
    /\ q.ok + q.err = p.ok + p.err /\ q.err >= p.err /\ q.ttft = p.ttft

\* What is worse has a score, and none that is higher.
LEMMA ScoreFalls ==
    ASSUME NEW p, NEW q, Worse(q, p)
    PROVE  /\ Push!Score(p.ok, p.err, p.ttft) \in Int /\ Push!Score(q.ok, q.err, q.ttft) \in Int
           /\ Push!Score(q.ok, q.err, q.ttft) <= Push!Score(p.ok, p.err, p.ttft)
  <1> DEFINE total == p.ok + p.err
             late == Push!TtftPenalty(p.ttft, total)
             before == Push!ErrorPenalty(p.err, total)
             now == Push!ErrorPenalty(q.err, total)
             left == 100 * 36 * total - before - late
             left2 == 100 * 36 * total - now - late
             score(x) == (2 * x + 36 * total) \div (72 * total)
  <1>1. /\ p.ok \in Nat /\ p.err \in Nat /\ q.ok \in Nat /\ q.err \in Nat /\ p.ttft \in Int
        /\ q.ok + q.err = total /\ q.err >= p.err /\ q.ttft = p.ttft /\ total \in Nat
        /\ q.err <= total
    BY DEF Worse, Reading
  <1> HIDE DEF total
  <1>2. late \in Int
    <2>1. (p.ttft - 20) * 27 * total \in Int /\ 40 * 36 * total \in Int
      BY <1>1
    <2> QED BY <2>1 DEF Push!TtftPenalty
  <1>3. before \in Int /\ now \in Int /\ before <= now
    BY <1>1 DEF Push!ErrorPenalty
  <1> HIDE DEF late, before, now
  <1>4. left \in Int /\ left2 \in Int /\ left2 <= left
    BY <1>1, <1>2, <1>3
  <1>5. /\ Push!Score(p.ok, p.err, p.ttft) = IF total = 0 \/ left < 0 THEN 0 ELSE score(left)
        /\ Push!Score(q.ok, q.err, q.ttft) = IF total = 0 \/ left2 < 0 THEN 0 ELSE score(left2)
    BY <1>1 DEF Push!Score, total, late, before, now
  <1> HIDE DEF left, left2
  <1>6. ASSUME total # 0, NEW x \in Int, NEW y \in Int, x <= y
        PROVE  score(x) \in Int /\ score(x) <= score(y) /\ (x >= 0 => score(x) >= 0)
    BY <1>1, <1>6
  <1> HIDE DEF score
  <1>7. CASE total = 0
    BY <1>5, <1>7
  <1>8. CASE total # 0
    <2>1. score(left2) \in Int /\ score(left) \in Int /\ score(left2) <= score(left)
      BY <1>4, <1>6, <1>8
    <2>2. left >= 0 => score(left) >= 0
      BY <1>4, <1>6, <1>8
    <2> QED BY <1>4, <1>5, <1>8, <2>1, <2>2
  <1> QED BY <1>7, <1>8

\* No block looks better for a failure.
LEMMA ColourFalls ==
    ASSUME NEW p, NEW q, Worse(q, p)
    PROVE  Push!Colour(q) <= Push!Colour(p)
  <1> DEFINE bands == {30, 50, 60, 70, 80, 90, 98}
             under(r) == {b \in bands : Push!Score(r.ok, r.err, r.ttft) >= b}
  <1>1. /\ p.ok \in Nat /\ p.err \in Nat /\ q.ok \in Nat /\ q.err \in Nat
        /\ q.ok + q.err = p.ok + p.err
    BY DEF Worse, Reading
  <1>2. under(q) \subseteq under(p) /\ under(p) \subseteq bands
    BY ScoreFalls
  <1>3. IsFiniteSet(bands)
    <2>1. PICK top \in Int : bands \subseteq 0..top
      BY 98 \in Int, bands \subseteq 0..98
    <2>2. IsFiniteSet(0..top)
      BY FS_Interval
    <2> HIDE DEF bands
    <2> QED BY <2>1, <2>2, FS_Subset
  <1>4. IsFiniteSet(under(p))
    <2> HIDE DEF under, bands
    <2> QED BY <1>2, <1>3, FS_Subset
  <1>5. /\ Cardinality(under(q)) <= Cardinality(under(p))
        /\ Cardinality(under(p)) \in Nat /\ Cardinality(under(q)) \in Nat
    <2> HIDE DEF under
    <2> QED BY <1>2, <1>4, FS_Subset, FS_CardinalityType
  <1>6. /\ Push!Cardinality(under(q)) = Cardinality(under(q))
        /\ Push!Cardinality(under(p)) = Cardinality(under(p))
    BY DEF Push!Cardinality, Cardinality, Push!IsFiniteSet, IsFiniteSet
  <1>7. /\ Push!Colour(p) = IF p.ok + p.err < Push!MinSamples THEN Push!Grey
                            ELSE Push!Cardinality(under(p))
        /\ Push!Colour(q) = IF q.ok + q.err < Push!MinSamples THEN Push!Grey
                            ELSE Push!Cardinality(under(q))
    BY DEF Push!Colour
  <1>8. Push!Grey \in Int
    BY DEF Push!Grey
  <1> HIDE DEF under
  <1> QED BY <1>1, <1>5, <1>6, <1>7, <1>8

\* No status looks better for a failure in one of its blocks.
LEMMA StatusFalls ==
    ASSUME NEW p, NEW q, NEW r, NEW s, Worse(q, p), Worse(s, r)
    PROVE  Push!Rank(Push!CurrentStatus(q, s)) <= Push!Rank(Push!CurrentStatus(p, r))
  <1> DEFINE ok == p.ok + r.ok
             err == p.err + r.err
             ok2 == q.ok + s.ok
             err2 == q.err + s.err
             ttft == IF r.ttft # Push!NoTime THEN r.ttft ELSE p.ttft
  <1>1. /\ ok \in Nat /\ err \in Nat /\ ok2 \in Nat /\ err2 \in Nat /\ ttft \in Int
        /\ ok2 + err2 = ok + err /\ err2 >= err
        /\ ttft = IF s.ttft # Push!NoTime THEN s.ttft ELSE q.ttft
    BY DEF Worse, Reading
  <1>2. /\ Push!CurrentStatus(p, r) =
             IF ok + err < Push!MinSamples THEN "none"
             ELSE IF Push!Shown(ok, err) < 900 THEN "bad"
             ELSE IF ttft > 20 THEN "warn" ELSE "ok"
        /\ Push!CurrentStatus(q, s) =
             IF ok2 + err2 < Push!MinSamples THEN "none"
             ELSE IF Push!Shown(ok2, err2) < 900 THEN "bad"
             ELSE IF ttft > 20 THEN "warn" ELSE "ok"
    BY <1>1 DEF Push!CurrentStatus
  <1> HIDE DEF ok, err, ok2, err2, ttft
  <1>3. ok + err >= Push!MinSamples => /\ Push!Shown(ok, err) \in Int
                                       /\ Push!Shown(ok2, err2) \in Int
                                       /\ Push!Shown(ok2, err2) <= Push!Shown(ok, err)
    <2> SUFFICES ASSUME ok + err >= 3
                 PROVE  /\ Push!Shown(ok, err) \in Int
                        /\ Push!Shown(ok2, err2) \in Int
                        /\ Push!Shown(ok2, err2) <= Push!Shown(ok, err)
      BY DEF Push!MinSamples
    <2> DEFINE total == ok + err
               x == 2000 * ok + ok + err
               y == 2000 * ok2 + ok2 + err2
    <2>1. x \in Int /\ y \in Int /\ y <= x /\ total \in Nat /\ total >= 3
      BY <1>1
    <2>2. Push!Shown(ok, err) = x \div (2 * total) /\ Push!Shown(ok2, err2) = y \div (2 * total)
      BY <1>1 DEF Push!Shown
    <2> HIDE DEF x, y, total
    <2>3. y \div (2 * total) <= x \div (2 * total) /\ x \div (2 * total) \in Int
          /\ y \div (2 * total) \in Int
      BY <2>1
    <2> QED BY <2>2, <2>3
  <1> QED BY <1>1, <1>2, <1>3 DEF Push!MinSamples, Push!Rank

\* Where nothing succeeds the status is bad, and it is open only beside blocks too thin.
LEMMA StatusMeans ==
    ASSUME NEW p, NEW q, Reading(p), Reading(q)
    PROVE  /\ p.ok = 0 /\ q.ok = 0 /\ p.err + q.err >= Push!MinSamples
                => Push!CurrentStatus(p, q) = "bad"
           /\ Push!CurrentStatus(p, q) = "none"
                => Push!Colour(p) = Push!Grey /\ Push!Colour(q) = Push!Grey
  <1>1. p.ok \in Nat /\ p.err \in Nat /\ q.ok \in Nat /\ q.err \in Nat
    BY DEF Reading
  <1>2. ASSUME p.ok = 0, q.ok = 0, p.err + q.err >= Push!MinSamples
        PROVE  Push!CurrentStatus(p, q) = "bad"
    <2> DEFINE e == p.err + q.err
    <2>1. e \in Nat /\ e >= 3 /\ p.ok + q.ok = 0
      BY <1>1, <1>2 DEF Push!MinSamples
    <2>2. Push!Shown(0, e) < 900
      <3> HIDE DEF e
      <3>1. Push!Shown(0, e) = e \div (2 * e)
        BY <2>1 DEF Push!Shown
      <3>2. e \div (2 * e) < 900
        BY <2>1
      <3> QED BY <3>1, <3>2
    <2>3. Push!CurrentStatus(p, q) =
             IF 0 + e < Push!MinSamples THEN "none"
             ELSE IF Push!Shown(0, e) < 900 THEN "bad"
             ELSE IF (IF q.ttft # Push!NoTime THEN q.ttft ELSE p.ttft) > 20 THEN "warn" ELSE "ok"
      BY <2>1 DEF Push!CurrentStatus
    <2> HIDE DEF e
    <2> QED BY <2>1, <2>2, <2>3 DEF Push!MinSamples
  <1>3. ASSUME Push!CurrentStatus(p, q) = "none"
        PROVE  Push!Colour(p) = Push!Grey /\ Push!Colour(q) = Push!Grey
    <2>1. (p.ok + q.ok) + (p.err + q.err) < Push!MinSamples
      BY <1>3 DEF Push!CurrentStatus
    <2>2. p.ok + p.err < Push!MinSamples /\ q.ok + q.err < Push!MinSamples
      BY <1>1, <2>1 DEF Push!MinSamples
    <2> QED BY <2>2 DEF Push!Colour
  <1> QED BY <1>2, <1>3

(***************************************************************************)
(* The board: what a card counts                                           *)
(***************************************************************************)
\* The counted rows of a group in the window, those of them that S holds in a block.
OfGroup(T, g) ==
    {r \in {q \in T : q.kind \in {"ok", "fails"} /\ q.at \in 0 .. Push!Blocks - 1} : r.group = g}
Within(S, b) == {r \in S : r.at = b}
Shared(T, g) == {p \in Push!Timeline(T) : p.group = g /\ p.at \in 0 .. Push!Blocks - 1}

\* The rows of a block are the counted ones of the window in it.
LEMMA RowsWithin ==
    ASSUME NEW T, NEW g, NEW b \in 0 .. Push!Blocks - 1
    PROVE  RowsAt(T, g, b) = Within(OfGroup(T, g), b)
  BY DEF RowsAt, Within, OfGroup, Push!Blocks

\* The points of a group in the window are those of the blocks its rows lie in.
LEMMA SharedIs ==
    ASSUME NEW T, NEW g
    PROVE  Shared(T, g) = {PointAt(T, g, r.at) : r \in OfGroup(T, g)}
  <1> DEFINE G == OfGroup(T, g)
             R == {PointAt(T, g, r.at) : r \in G}
  <1>1. \A p : p \in Shared(T, g)
            <=> \E r \in Counted(T) : p = PointAt(T, r.group, r.at) /\ r.group = g
                                      /\ r.at \in 0 .. Push!Blocks - 1
    <2>1. \A r \in Counted(T) : PointAt(T, r.group, r.at).group = r.group
                                /\ PointAt(T, r.group, r.at).at = r.at
      BY DEF PointAt
    <2> QED BY <2>1, TimelineIs DEF Shared
  <1>2. \A r : r \in G <=> r \in Counted(T) /\ r.group = g /\ r.at \in 0 .. Push!Blocks - 1
    BY DEF OfGroup, Counted, Push!Blocks
  <1>3. \A p : p \in R <=> \E r \in G : p = PointAt(T, g, r.at)
    OBVIOUS
  <1> HIDE DEF G, R
  <1>4. Shared(T, g) = R
    BY <1>1, <1>2, <1>3
  <1> QED BY <1>4 DEF G, R

\* A column of the points of a group that says of each block what rows S count there adds
\* up to what S counts.
LEMMA ColumnCounts ==
    ASSUME NEW T, Push!IsTraffic(T), NEW g, NEW S, S \subseteq OfGroup(T, g), NEW field,
           \A b \in 0 .. Push!Blocks - 1 : PointAt(T, g, b)[field] = Total(Within(S, b))
    PROVE  Push!Sum(field, Shared(T, g)) = Total(S)
  <1> DEFINE G == OfGroup(T, g)
             at == [r \in G |-> r.at]
             B == {at[r] : r \in G}
             point == [b \in B |-> PointAt(T, g, b)]
             w == [b \in B |-> Total(Within(S, b))]
             R == {point[b] : b \in B}
             f == [p \in R |-> p[field]]
  <1>1. IsFiniteSet(G) /\ G \subseteq Push!Rows /\ G \subseteq T
    <2>1. G \subseteq T
      BY DEF OfGroup
    <2> HIDE DEF G
    <2> QED BY <2>1, PartOfTraffic
  <1>2. IsFiniteSet(S) /\ S \subseteq Push!Rows /\ S \subseteq G
    BY <1>1, PartOfTraffic, S \subseteq T
  <1>3. IsFiniteSet(B)
    <2> HIDE DEF at, G
    <2> QED BY <1>1, ImageIsFinite
  <1>4. B \subseteq 0 .. Push!Blocks - 1
    BY DEF OfGroup
  <1>5. \A b \in B : point[b].at = b /\ point[b].group = g
    BY DEF PointAt
  <1>6. Shared(T, g) = R
    BY SharedIs
  <1>7. \A b \in B : w[b] = Sum(Counts, Within(S, b)) /\ w[b] \in Nat
    <2> SUFFICES ASSUME NEW b \in B
                 PROVE  w[b] = Sum(Counts, Within(S, b)) /\ w[b] \in Nat
      OBVIOUS
    <2>1. IsFiniteSet(Within(S, b)) /\ Within(S, b) \subseteq Push!Rows
      <3>1. Within(S, b) \subseteq S
        BY DEF Within
      <3> QED BY <3>1, <1>2, FS_Subset
    <2>2. w[b] = Total(Within(S, b))
      OBVIOUS
    <2> HIDE DEF w
    <2> QED BY <2>1, <2>2, CountsOf
  <1>8. \A b \in B : w[b] = f[point[b]]
    <2> SUFFICES ASSUME NEW b \in B PROVE w[b] = f[point[b]]
      OBVIOUS
    <2>1. f[point[b]] = point[b][field]
      OBVIOUS
    <2>2. point[b][field] = Total(Within(S, b))
      BY <1>4
    <2>3. w[b] = Total(Within(S, b))
      OBVIOUS
    <2> QED BY <2>1, <2>2, <2>3
  <1>9. Push!Sum(field, R) = Sum(f, R)
    BY BoardSum
  <1>10. Sum(f, R) = Sum(w, B)
    <2>1. \A a \in B, b \in B : point[a] = point[b] => a = b
      BY <1>5
    <2>2. R = {point[b] : b \in B}
      OBVIOUS
    <2> HIDE DEF R, B, point, w, f
    <2>3. \A b \in B : w[b] = f[point[b]] /\ w[b] \in Int
      BY <1>7, <1>8
    <2> QED BY <1>3, <2>1, <2>2, <2>3, SumRenames
  <1>11. Sum(w, B) = Sum(Counts, S)
    <2> DEFINE key == [r \in S |-> r.at]
               v == [b \in B |-> Sum(Counts, Of(S, key, b))]
    <2>1. \A r \in S : key[r] \in B
      BY <1>2
    <2>2. \A b \in B : Of(S, key, b) = Within(S, b)
      BY DEF Of, Within
    <2>3. \A r \in S : Counts[r] \in Int
      BY <1>2, CountsOf
    <2>4. \A b \in B : w[b] = v[b]
      <3> HIDE DEF B, w, key
      <3> QED BY <1>7, <2>2
    <2> HIDE DEF B, key, w
    <2>5. Sum(v, B) = Sum(Counts, S)
      BY <1>2, <1>3, <2>1, <2>3, SumByKey
    <2> HIDE DEF v
    <2>6. Sum(w, B) = Sum(v, B)
      BY <1>3, <2>4, SumSame
    <2> QED BY <2>5, <2>6
  <1>12. Total(S) = Sum(Counts, S)
    BY <1>2, CountsOf
  <1> HIDE DEF R, f, w, B
  <1> QED BY <1>6, <1>9, <1>10, <1>11, <1>12

\* A card counts every row of its group once, by how it ended.
LEMMA CardCounts ==
    ASSUME NEW T, Push!IsTraffic(T), NEW g
    PROVE  LET c == Push!Card(Push!Timeline(T), g) IN
           /\ c.ok = Total(Good(OfGroup(T, g)))
           /\ c.err = Total(OfGroup(T, g) \ Good(OfGroup(T, g)))
           /\ c.ok \in Nat /\ c.err \in Nat
           /\ c.ok + c.err = Total(OfGroup(T, g))
  <1> DEFINE c == Push!Card(Push!Timeline(T), g)
             G == OfGroup(T, g)
             A == Good(G)
             B == G \ Good(G)
  <1>1. c.ok = Push!Sum("ok", Shared(T, g)) /\ c.err = Push!Sum("err", Shared(T, g))
    BY DEF Push!Card, Shared
  <1>2. ASSUME NEW b \in 0 .. Push!Blocks - 1
        PROVE  /\ PointAt(T, g, b)["ok"] = Total(Within(A, b))
               /\ PointAt(T, g, b)["err"] = Total(Within(B, b))
    <2>1. RowsAt(T, g, b) = Within(G, b)
      BY RowsWithin
    <2>2. Good(Within(G, b)) = Within(A, b) /\ Within(G, b) \ Good(Within(G, b)) = Within(B, b)
      BY DEF Good, Within
    <2> HIDE DEF A, B, G
    <2> QED BY <2>1, <2>2 DEF PointAt
  <1>3. A \subseteq G /\ B \subseteq G /\ A \cap B = {} /\ G = A \cup B /\ G \subseteq T
    BY DEF Good, OfGroup
  <1> HIDE DEF A, B
  <1>4. Push!Sum("ok", Shared(T, g)) = Total(A)
    BY <1>2, <1>3, ColumnCounts
  <1>5. Push!Sum("err", Shared(T, g)) = Total(B)
    BY <1>2, <1>3, ColumnCounts
  <1>6. IsFiniteSet(A) /\ IsFiniteSet(B) /\ A \subseteq Push!Rows /\ B \subseteq Push!Rows
    <2>1. A \subseteq T /\ B \subseteq T
      BY <1>3
    <2> QED BY <2>1, PartOfTraffic
  <1>7. Total(G) = Total(A) + Total(B)
    <2> HIDE DEF G
    <2> QED BY <1>3, <1>6, CountsJoin
  <1>8. Total(A) \in Nat /\ Total(B) \in Nat
    BY <1>6, CountsOf
  <1> HIDE DEF G
  <1>9. /\ c.ok = Total(A) /\ c.err = Total(B) /\ c.ok \in Nat /\ c.err \in Nat
        /\ c.ok + c.err = Total(G)
    <2> HIDE DEF c
    <2> QED BY <1>1, <1>4, <1>5, <1>7, <1>8
  <1> QED BY <1>9 DEF A, B, G

\* What a card is made of.
CardOf(T, g) ==
    [group |-> g,
     colours |-> [b \in 0 .. Push!Blocks - 1 |-> Push!Colour(Says(RowsAt(T, g, b)))],
     status |-> Push!CurrentStatus(Says(RowsAt(T, g, Push!Blocks - 2)),
                                   Says(RowsAt(T, g, Push!Blocks - 1))),
     ok |-> Push!Sum("ok", Shared(T, g)), err |-> Push!Sum("err", Shared(T, g)),
     input |-> Push!Sum("input", Shared(T, g)), cache |-> Push!Sum("cache", Shared(T, g))]

\* A card of the timeline is that card.
LEMMA CardIs ==
    ASSUME NEW T, NEW g
    PROVE  Push!Card(Push!Timeline(T), g) = CardOf(T, g)
  <1> DEFINE points == Push!Timeline(T)
  <1>1. \A b : Push!InBlock(points, g, b) = Says(RowsAt(T, g, b))
    BY BlockSays
  <1> DEFINE pts == {p \in points : p.group = g /\ p.at \in 0 .. Push!Blocks - 1}
             colours == [b \in 0 .. Push!Blocks - 1 |-> Push!Colour(Push!InBlock(points, g, b))]
  <1>2. pts = Shared(T, g)
    BY DEF Shared
  <1>3. Push!Card(points, g) =
          [group |-> g, colours |-> colours,
           status |-> Push!CurrentStatus(Push!InBlock(points, g, Push!Blocks - 2),
                                         Push!InBlock(points, g, Push!Blocks - 1)),
           ok |-> Push!Sum("ok", pts), err |-> Push!Sum("err", pts),
           input |-> Push!Sum("input", pts), cache |-> Push!Sum("cache", pts)]
    BY DEF Push!Card
  <1> DEFINE shades == [b \in 0 .. Push!Blocks - 1 |-> Push!Colour(Says(RowsAt(T, g, b)))]
             late == Push!Blocks - 1
             early == Push!Blocks - 2
  <1>4. colours = shades
    <2> HIDE DEF points
    <2> QED BY <1>1
  <1>5. CardOf(T, g) =
          [group |-> g, colours |-> shades,
           status |-> Push!CurrentStatus(Says(RowsAt(T, g, early)), Says(RowsAt(T, g, late))),
           ok |-> Push!Sum("ok", Shared(T, g)), err |-> Push!Sum("err", Shared(T, g)),
           input |-> Push!Sum("input", Shared(T, g)), cache |-> Push!Sum("cache", Shared(T, g))]
    BY DEF CardOf
  <1>6. /\ Push!InBlock(points, g, early) = Says(RowsAt(T, g, early))
        /\ Push!InBlock(points, g, late) = Says(RowsAt(T, g, late))
    <2> HIDE DEF points, early, late
    <2> QED BY <1>1
  <1>7. Push!CurrentStatus(Push!InBlock(points, g, Push!Blocks - 2),
                           Push!InBlock(points, g, Push!Blocks - 1))
          = Push!CurrentStatus(Says(RowsAt(T, g, early)), Says(RowsAt(T, g, late)))
    BY <1>6
  <1> HIDE DEF colours, pts, shades, late, early, points
  <1>8. Push!Card(points, g) = CardOf(T, g)
    BY <1>2, <1>3, <1>4, <1>5, <1>7
  <1> QED BY <1>8 DEF points

\* The groups of a board, and its cards.
Visible(groups, excluded) ==
    LET visible == Push!PublicGroups(groups, excluded)
    IN  SubSeq(visible, 1, Push!Min({MaxCards, Len(visible)}))

\* A board has a card for each group it shows, and says how many there are.
LEMMA BoardIs ==
    ASSUME NEW groups, NEW T, NEW excluded
    PROVE  LET board == Push!Board(groups, T, excluded)
               shown == Visible(groups, excluded)
               visible == Push!PublicGroups(groups, excluded)
           IN  /\ board.cards = [i \in DOMAIN shown |-> CardOf(T, shown[i].id)]
               /\ board.of = IF Len(visible) > MaxCards THEN Len(visible) ELSE Len(shown)
               /\ board = [cards |-> board.cards, of |-> board.of]
  <1> DEFINE visible == Push!PublicGroups(groups, excluded)
             shown == Visible(groups, excluded)
  <1>1. Push!Board(groups, T, excluded) =
          [cards |-> [i \in DOMAIN shown |-> Push!Card(Push!Timeline(T), shown[i].id)],
           of |-> IF Len(visible) > MaxCards THEN Len(visible) ELSE Len(shown)]
    BY DEF Push!Board, Visible
  <1>2. \A i \in DOMAIN shown : Push!Card(Push!Timeline(T), shown[i].id) = CardOf(T, shown[i].id)
    BY CardIs
  <1> HIDE DEF shown, visible
  <1>3. [i \in DOMAIN shown |-> Push!Card(Push!Timeline(T), shown[i].id)]
          = [i \in DOMAIN shown |-> CardOf(T, shown[i].id)]
    BY <1>2
  <1>4. LET board == Push!Board(groups, T, excluded) IN
        /\ board.cards = [i \in DOMAIN shown |-> CardOf(T, shown[i].id)]
        /\ board.of = IF Len(visible) > MaxCards THEN Len(visible) ELSE Len(shown)
        /\ board = [cards |-> board.cards, of |-> board.of]
    BY <1>1, <1>3
  <1> QED BY <1>4 DEF shown, visible

\* What is refused by a limit or lies outside the window changes no card.
LEMMA WindowAlone ==
    ASSUME NEW groups, NEW T, NEW excluded
    PROVE  LET counted == {r \in T : r.kind \in {"ok", "fails"} /\ r.at \in 0 .. Push!Blocks - 1}
           IN  Push!Board(groups, counted, excluded) = Push!Board(groups, T, excluded)
  <1> DEFINE S == {r \in T : r.kind \in {"ok", "fails"} /\ r.at \in 0 .. Push!Blocks - 1}
  <1>1. ASSUME NEW g PROVE CardOf(S, g) = CardOf(T, g)
    <2>1. OfGroup(S, g) = OfGroup(T, g)
      BY DEF OfGroup
    <2>2. ASSUME NEW b \in 0 .. Push!Blocks - 1 PROVE RowsAt(S, g, b) = RowsAt(T, g, b)
      <3> HIDE DEF S
      <3> QED BY <2>1, RowsWithin
    <2>3. \A b \in 0 .. Push!Blocks - 1 : PointAt(S, g, b) = PointAt(T, g, b)
      <3> HIDE DEF S
      <3> QED BY <2>2 DEF PointAt
    <2>4. Shared(S, g) = Shared(T, g)
      <3>1. \A r \in OfGroup(T, g) : r.at \in 0 .. Push!Blocks - 1
        BY DEF OfGroup
      <3> HIDE DEF S
      <3>2. Shared(S, g) = {PointAt(S, g, r.at) : r \in OfGroup(T, g)}
        BY <2>1, SharedIs
      <3>3. Shared(T, g) = {PointAt(T, g, r.at) : r \in OfGroup(T, g)}
        BY SharedIs
      <3> QED BY <3>1, <3>2, <3>3, <2>3
    <2>5. Push!Blocks - 1 \in 0 .. Push!Blocks - 1 /\ Push!Blocks - 2 \in 0 .. Push!Blocks - 1
      BY DEF Push!Blocks
    <2> HIDE DEF S
    <2>6. [b \in 0 .. Push!Blocks - 1 |-> Push!Colour(Says(RowsAt(S, g, b)))]
            = [b \in 0 .. Push!Blocks - 1 |-> Push!Colour(Says(RowsAt(T, g, b)))]
      BY <2>2
    <2>7. /\ RowsAt(S, g, Push!Blocks - 1) = RowsAt(T, g, Push!Blocks - 1)
          /\ RowsAt(S, g, Push!Blocks - 2) = RowsAt(T, g, Push!Blocks - 2)
      BY <2>2, <2>5
    <2> QED BY <2>4, <2>6, <2>7 DEF CardOf
  <1> DEFINE shown == Visible(groups, excluded)
  <1> HIDE DEF S, shown
  <1>2. [i \in DOMAIN shown |-> CardOf(S, shown[i].id)]
          = [i \in DOMAIN shown |-> CardOf(T, shown[i].id)]
    BY <1>1
  <1> DEFINE before == Push!Board(groups, T, excluded)
             alone == Push!Board(groups, S, excluded)
  <1>3. /\ before.cards = [i \in DOMAIN shown |-> CardOf(T, shown[i].id)]
        /\ alone.cards = [i \in DOMAIN shown |-> CardOf(S, shown[i].id)]
        /\ before.of = alone.of
        /\ before = [cards |-> before.cards, of |-> before.of]
        /\ alone = [cards |-> alone.cards, of |-> alone.of]
    BY BoardIs DEF shown
  <1> HIDE DEF before, alone
  <1>4. alone = before
    BY <1>2, <1>3
  <1> QED BY <1>4 DEF before, alone, S

\* A block of a traffic reads as numbers.
LEMMA BlockReads ==
    ASSUME NEW T, Push!IsTraffic(T), NEW g, NEW b
    PROVE  Reading(Says(RowsAt(T, g, b)))
  <1> DEFINE L == RowsAt(T, g, b)
  <1>1. Good(L) \subseteq T /\ L \ Good(L) \subseteq T
    BY DEF Good, RowsAt
  <1>2. /\ IsFiniteSet(Good(L)) /\ Good(L) \subseteq Push!Rows
        /\ IsFiniteSet(L \ Good(L)) /\ L \ Good(L) \subseteq Push!Rows
    BY <1>1, PartOfTraffic
  <1> HIDE DEF L
  <1>3. Total(Good(L)) \in Nat /\ Total(L \ Good(L)) \in Nat
    BY <1>2, CountsOf
  <1>4. Push!Median(Good(L)) \in Int
    BY <1>2, MedianIsNumber
  <1>5. Reading(Says(L))
    BY <1>3, <1>4 DEF Reading, Says
  <1> QED BY <1>5 DEF L

\* Only what has a first token has a say in the middle one.
MiddleOf(timed) ==
    LET n == Push!Sum("count", timed)
        upTo(t) == Push!Sum("count", {r \in timed : r.ttft <= t})
        nth(k) == Push!Min({r.ttft : r \in {q \in timed : upTo(q.ttft) >= k}})
    IN  IF n = 0 THEN Push!NoTime ELSE nth((n + 1) \div 2) + nth((n + 2) \div 2)

\* The median reads only the rows that took a first token.
LEMMA MedianIs ==
    ASSUME NEW S PROVE Push!Median(S) = MiddleOf({r \in S : r.ttft # Push!NoTime})
  BY DEF Push!Median, MiddleOf

\* A row that fails instead makes its block worse, and no other one.
LEMMA FailureIsWorse ==
    ASSUME NEW T, Push!IsTraffic(T), NEW r \in T, r.kind = "ok", r.ttft = Push!NoTime,
           NEW g, NEW b
    PROVE  Worse(Says(RowsAt(Push!Failed(T, r), g, b)), Says(RowsAt(T, g, b)))
  <1> DEFINE r2 == [r EXCEPT !.kind = "fails", !.ttft = Push!NoTime, !.input = 0, !.cache = 0]
             T2 == Push!Failed(T, r)
             L == RowsAt(T, g, b)
             L2 == RowsAt(T2, g, b)
  <1>1. T \subseteq Push!Rows /\ IsFiniteSet(T) /\ \A x, y \in T : x.id = y.id => x = y
    BY DEF Push!IsTraffic, Push!IsFiniteSet, IsFiniteSet
  <1>2. /\ r2 \in Push!Rows /\ r2.id = r.id /\ r2.kind = "fails" /\ r2.group = r.group
        /\ r2.at = r.at /\ r2.count = r.count /\ r \in Push!Rows /\ r.count \in Nat
    BY <1>1 DEF Push!Rows, Push!NoTime
  <1>3. r2 \notin T
    BY <1>1, <1>2
  <1>4. T2 = (T \ {r}) \cup {r2}
    BY DEF Push!Failed
  <1> HIDE DEF r2, T2
  <1>5. Reading(Says(L))
    BY BlockReads
  <1>6. CASE r \notin L
    <2>1. r2 \notin L2 /\ L2 = L
      BY <1>2, <1>4, <1>6 DEF RowsAt
    <2>2. Worse(Says(L), Says(L))
      <3> HIDE DEF L
      <3> QED BY <1>5 DEF Worse, Reading
    <2> HIDE DEF L, L2
    <2>3. Worse(Says(L2), Says(L))
      BY <2>1, <2>2
    <2> QED BY <2>3 DEF L, L2, T2
  <1>7. CASE r \in L
    <2> DEFINE A == Good(L)
               B == L \ Good(L)
    <2>1. L2 = (L \ {r}) \cup {r2}
      BY <1>2, <1>4, <1>7 DEF RowsAt
    <2>2. r \in A /\ r2 \notin B /\ A \subseteq T /\ B \subseteq T
      BY <1>2, <1>3, <1>7 DEF Good, RowsAt
    <2> HIDE DEF L, L2
    <2>3. Good(L2) = A \ {r}
      BY <1>2, <2>1 DEF Good
    <2>4. L2 \ Good(L2) = B \cup {r2}
      BY <1>2, <2>1, <2>2, <2>3 DEF Good
    <2>5. /\ IsFiniteSet(A) /\ IsFiniteSet(B) /\ A \subseteq Push!Rows /\ B \subseteq Push!Rows
          /\ IsFiniteSet(A \ {r}) /\ A \ {r} \subseteq Push!Rows
      <3>1. A \ {r} \subseteq T
        BY <2>2
      <3> HIDE DEF A, B
      <3> QED BY <2>2, <3>1, PartOfTraffic
    <2>6. Total(A) = Total(A \ {r}) + r.count
      <3>1. A = (A \ {r}) \cup {r} /\ r \notin A \ {r}
        BY <2>2
      <3> DEFINE C == A \ {r}
      <3> HIDE DEF A, C
      <3>2. Total(C \cup {r}) = Total(C) + r.count
        BY <1>2, <2>5, <3>1, CountsExtend DEF C
      <3> QED BY <3>1, <3>2 DEF C
    <2>7. Total(B \cup {r2}) = Total(B) + r.count
      <3> HIDE DEF B
      <3> QED BY <1>2, <2>2, <2>5, CountsExtend
    <2>8. Push!Median(A \ {r}) = Push!Median(A)
      <3> HIDE DEF A
      <3> DEFINE timed == {x \in A : x.ttft # Push!NoTime}
                 timed2 == {x \in A \ {r} : x.ttft # Push!NoTime}
      <3>1. timed = timed2
        OBVIOUS
      <3>2. Push!Median(A) = MiddleOf(timed) /\ Push!Median(A \ {r}) = MiddleOf(timed2)
        BY MedianIs
      <3> HIDE DEF timed, timed2
      <3> QED BY <3>1, <3>2
    <2>9. /\ Total(A) \in Nat /\ Total(B) \in Nat /\ Total(A \ {r}) \in Nat
          /\ Push!Median(A) \in Int
      <3> HIDE DEF A, B
      <3> QED BY <2>5, CountsOf, MedianIsNumber
    <2>10. /\ Says(L2) = [ok |-> Total(A \ {r}), err |-> Total(B \cup {r2}),
                          ttft |-> Push!Median(A \ {r})]
           /\ Says(L) = [ok |-> Total(A), err |-> Total(B), ttft |-> Push!Median(A)]
      BY <2>3, <2>4 DEF Says
    <2> HIDE DEF A, B
    <2>11. Worse(Says(L2), Says(L))
      BY <2>6, <2>7, <2>8, <2>9, <2>10, <1>2 DEF Worse, Reading
    <2> QED BY <2>11 DEF L, L2, T2
  <1> QED BY <1>6, <1>7

\* The rows of a block count what the block says.
LEMMA BlockCounts ==
    ASSUME NEW T, Push!IsTraffic(T), NEW g, NEW b
    PROVE  LET L == RowsAt(T, g, b) IN
           /\ IsFiniteSet(L) /\ L \subseteq Push!Rows
           /\ Total(L) = Says(L).ok + Says(L).err
           /\ (\A r \in L : r.kind = "ok" => r.count = 0) => Says(L).ok = 0
  <1> DEFINE L == RowsAt(T, g, b)
             A == Good(L)
             B == L \ Good(L)
  <1>1. A \subseteq T /\ B \subseteq T /\ L \subseteq T /\ A \cap B = {} /\ L = A \cup B
    BY DEF Good, RowsAt
  <1>2. \A r \in A : r \in L /\ r.kind = "ok"
    BY DEF Good
  <1> HIDE DEF A, B, L
  <1>3. /\ IsFiniteSet(A) /\ IsFiniteSet(B) /\ A \subseteq Push!Rows /\ B \subseteq Push!Rows
        /\ IsFiniteSet(L) /\ L \subseteq Push!Rows
    BY <1>1, PartOfTraffic
  <1>4. Total(L) = Total(A) + Total(B)
    BY <1>1, <1>3, CountsJoin
  <1>5. Total(A) = 0 <=> \A r \in A : r.count = 0
    BY <1>3, CountsOf
  <1>6. Says(L).ok = Total(A) /\ Says(L).err = Total(B)
    BY DEF Says, A, B
  <1>7. /\ IsFiniteSet(L) /\ L \subseteq Push!Rows
        /\ Total(L) = Says(L).ok + Says(L).err
        /\ (\A r \in L : r.kind = "ok" => r.count = 0) => Says(L).ok = 0
    BY <1>2, <1>3, <1>4, <1>5, <1>6
  <1> QED BY <1>7 DEF L

\* The counted rows of a group in the last two blocks.
Recent(T, g) == {r \in OfGroup(T, g) : r.at >= Push!Blocks - 2}

\* A card counts every row of its group once; where all failed it is bad, and what it leaves
\* open lies beside grey blocks.
LEMMA CardIsTrue ==
    ASSUME NEW T, Push!IsTraffic(T), NEW g
    PROVE  LET c == CardOf(T, g) IN
           /\ c.group = g
           /\ c.ok + c.err = Total(OfGroup(T, g))
           /\ c.ok = 0 /\ Total(Recent(T, g)) >= Push!MinSamples => c.status = "bad"
           /\ c.status = "none" => c.colours[6] = Push!Grey /\ c.colours[7] = Push!Grey
  <1> DEFINE c == CardOf(T, g)
             G == OfGroup(T, g)
             K == RowsAt(T, g, 6)
             L == RowsAt(T, g, 7)
             p == Says(K)
             q == Says(L)
  <1>1. /\ c.group = g
        /\ c.status = Push!CurrentStatus(p, q)
        /\ c.colours[6] = Push!Colour(p) /\ c.colours[7] = Push!Colour(q)
    BY DEF CardOf, Push!Blocks
  <1>2. c.ok = Total(Good(G)) /\ c.ok + c.err = Total(G)
    BY CardCounts, CardIs
  <1>3. /\ Recent(T, g) = K \cup L /\ K \cap L = {}
        /\ \A r \in K \cup L : r.kind = "ok" => r \in Good(G)
    <2>1. \A r \in T : r.at \in Int
      BY DEF Push!IsTraffic, Push!Rows
    <2> QED BY <2>1 DEF Recent, OfGroup, RowsAt, Good, Push!Blocks
  <1>4. Good(G) \subseteq T
    BY DEF Good, OfGroup
  <1> HIDE DEF c, G
  <1>5. c.ok = 0 => \A r \in Good(G) : r.count = 0
    <2>1. IsFiniteSet(Good(G)) /\ Good(G) \subseteq Push!Rows
      BY <1>4, PartOfTraffic
    <2> QED BY <1>2, <2>1, CountsOf
  <1>6. Reading(p) /\ Reading(q)
    BY BlockReads
  <1>7. /\ IsFiniteSet(K) /\ K \subseteq Push!Rows /\ Total(K) = p.ok + p.err
        /\ (\A r \in K : r.kind = "ok" => r.count = 0) => p.ok = 0
    BY BlockCounts
  <1>8. /\ IsFiniteSet(L) /\ L \subseteq Push!Rows /\ Total(L) = q.ok + q.err
        /\ (\A r \in L : r.kind = "ok" => r.count = 0) => q.ok = 0
    BY BlockCounts
  <1> HIDE DEF p, q, K, L
  <1>9. Total(Recent(T, g)) = Total(K) + Total(L)
    BY <1>3, <1>7, <1>8, CountsJoin
  <1>10. ASSUME c.ok = 0, Total(Recent(T, g)) >= Push!MinSamples
         PROVE  c.status = "bad"
    <2>1. p.ok = 0 /\ q.ok = 0
      BY <1>3, <1>5, <1>7, <1>8, <1>10
    <2>2. p.err + q.err >= Push!MinSamples
      BY <1>6, <1>7, <1>8, <1>9, <1>10, <2>1 DEF Reading
    <2> QED BY <1>1, <1>6, <2>1, <2>2, StatusMeans
  <1>11. c.status = "none" => c.colours[6] = Push!Grey /\ c.colours[7] = Push!Grey
    BY <1>1, <1>6, StatusMeans
  <1>12. /\ c.group = g
         /\ c.ok + c.err = Total(G)
         /\ c.ok = 0 /\ Total(Recent(T, g)) >= Push!MinSamples => c.status = "bad"
         /\ c.status = "none" => c.colours[6] = Push!Grey /\ c.colours[7] = Push!Grey
    BY <1>1, <1>2, <1>10, <1>11
  <1> QED BY <1>12 DEF c, G

\* No card looks better for a failure.
LEMMA CardFalls ==
    ASSUME NEW T, Push!IsTraffic(T), NEW r \in T, r.kind = "ok", r.ttft = Push!NoTime, NEW g
    PROVE  LET before == CardOf(T, g)
               later == CardOf(Push!Failed(T, r), g)
           IN  /\ \A b \in DOMAIN before.colours : later.colours[b] <= before.colours[b]
               /\ Push!Rank(later.status) <= Push!Rank(before.status)
  <1> DEFINE before == CardOf(T, g)
             later == CardOf(Push!Failed(T, r), g)
             says(b) == Says(RowsAt(T, g, b))
             says2(b) == Says(RowsAt(Push!Failed(T, r), g, b))
  <1>1. \A b : Worse(says2(b), says(b))
    BY FailureIsWorse
  <1>2. /\ DOMAIN before.colours = 0 .. Push!Blocks - 1
        /\ \A b \in 0 .. Push!Blocks - 1 : /\ before.colours[b] = Push!Colour(says(b))
                                           /\ later.colours[b] = Push!Colour(says2(b))
        /\ before.status = Push!CurrentStatus(says(Push!Blocks - 2), says(Push!Blocks - 1))
        /\ later.status = Push!CurrentStatus(says2(Push!Blocks - 2), says2(Push!Blocks - 1))
    BY DEF CardOf
  <1> HIDE DEF before, later, says, says2
  <1>3. \A b : Push!Colour(says2(b)) <= Push!Colour(says(b))
    BY <1>1, ColourFalls
  <1>4. Push!Rank(Push!CurrentStatus(says2(Push!Blocks - 2), says2(Push!Blocks - 1)))
          <= Push!Rank(Push!CurrentStatus(says(Push!Blocks - 2), says(Push!Blocks - 1)))
    BY <1>1, StatusFalls
  <1>5. /\ \A b \in DOMAIN before.colours : later.colours[b] <= before.colours[b]
        /\ Push!Rank(later.status) <= Push!Rank(before.status)
    BY <1>2, <1>3, <1>4
  <1> QED BY <1>5 DEF before, later

\* A board is true to its traffic, whatever the groups and whatever happened.
LEMMA BoardIsTrue ==
    ASSUME NEW groups, NEW T, Push!IsTraffic(T), NEW excluded
    PROVE  Push!TrueToTraffic(groups, T, excluded)
  <1> DEFINE board == Push!Board(groups, T, excluded)
             shown == Visible(groups, excluded)
             counted == {r \in T : r.kind \in {"ok", "fails"} /\ r.at \in 0 .. Push!Blocks - 1}
             among(g) == {r \in counted : r.group = g}
             samples(S) == Push!Sum("count", S)
             recent(g) == {r \in among(g) : r.at >= Push!Blocks - 2}
             worse(r) == Push!Board(groups, Push!Failed(T, r), excluded)
  <1>1. Push!Board(groups, counted, excluded) = board
    BY WindowAlone
  <1>2. /\ DOMAIN board.cards = DOMAIN shown
        /\ \A i \in DOMAIN shown : board.cards[i] = CardOf(T, shown[i].id)
    <2>1. board.cards = [i \in DOMAIN shown |-> CardOf(T, shown[i].id)]
      BY BoardIs
    <2> HIDE DEF board, shown
    <2> QED BY <2>1
  <1>3. ASSUME NEW r
        PROVE  \A i \in DOMAIN shown :
                  worse(r).cards[i] = CardOf(Push!Failed(T, r), shown[i].id)
    <2> DEFINE T2 == Push!Failed(T, r)
    <2>1. worse(r).cards = [i \in DOMAIN shown |-> CardOf(T2, shown[i].id)]
      BY BoardIs
    <2> HIDE DEF worse, shown, T2
    <2>2. \A i \in DOMAIN shown : worse(r).cards[i] = CardOf(T2, shown[i].id)
      BY <2>1
    <2> QED BY <2>2 DEF T2
  <1>4. \A g : /\ among(g) = OfGroup(T, g) /\ recent(g) = Recent(T, g)
               /\ samples(among(g)) = Total(OfGroup(T, g))
               /\ samples(recent(g)) = Total(Recent(T, g))
    BY DEF OfGroup, Recent, Total
  <1>5. \A r \in {q \in counted : q.kind = "ok" /\ q.ttft = Push!NoTime} :
            r \in T /\ r.kind = "ok" /\ r.ttft = Push!NoTime
    OBVIOUS
  <1>6. ASSUME NEW i \in DOMAIN board.cards
        PROVE  LET c == board.cards[i] IN
               /\ c.ok + c.err = samples(among(c.group))
               /\ c.ok = 0 /\ samples(recent(c.group)) >= Push!MinSamples => c.status = "bad"
               /\ c.status = "none" => c.colours[6] = Push!Grey /\ c.colours[7] = Push!Grey
    <2> DEFINE g == shown[i].id
               c == CardOf(T, g)
    <2>1. board.cards[i] = c
      BY <1>2
    <2>2. /\ c.group = g
          /\ c.ok + c.err = Total(OfGroup(T, g))
          /\ c.ok = 0 /\ Total(Recent(T, g)) >= Push!MinSamples => c.status = "bad"
          /\ c.status = "none" => c.colours[6] = Push!Grey /\ c.colours[7] = Push!Grey
      <3> HIDE DEF g
      <3> QED BY CardIsTrue
    <2> HIDE DEF c, g, board, samples, among, recent
    <2> QED BY <1>4, <2>1, <2>2
  <1>7. ASSUME NEW r \in {q \in counted : q.kind = "ok" /\ q.ttft = Push!NoTime},
               NEW i \in DOMAIN board.cards
        PROVE  LET before == board.cards[i]
                   later == worse(r).cards[i]
               IN  /\ \A b \in DOMAIN before.colours : later.colours[b] <= before.colours[b]
                   /\ Push!Rank(later.status) <= Push!Rank(before.status)
    <2> DEFINE g == shown[i].id
               before == CardOf(T, g)
               later == CardOf(Push!Failed(T, r), g)
    <2>1. board.cards[i] = before /\ worse(r).cards[i] = later
      BY <1>2, <1>3
    <2>2. /\ \A b \in DOMAIN before.colours : later.colours[b] <= before.colours[b]
          /\ Push!Rank(later.status) <= Push!Rank(before.status)
      <3>1. r \in T /\ r.kind = "ok" /\ r.ttft = Push!NoTime
        BY <1>5
      <3> HIDE DEF g
      <3> QED BY <3>1, CardFalls
    <2> HIDE DEF before, later, g, board, worse
    <2> QED BY <2>1, <2>2
  <1> HIDE DEF board, worse, samples, among, recent
  <1>8. /\ Push!Board(groups, counted, excluded) = board
        /\ \A i \in DOMAIN board.cards :
              LET c == board.cards[i] IN
              /\ c.ok + c.err = samples(among(c.group))
              /\ c.ok = 0 /\ samples(recent(c.group)) >= Push!MinSamples => c.status = "bad"
              /\ c.status = "none" => c.colours[6] = Push!Grey /\ c.colours[7] = Push!Grey
        /\ \A r \in {q \in counted : q.kind = "ok" /\ q.ttft = Push!NoTime} :
              \A i \in DOMAIN board.cards :
                 LET before == board.cards[i]
                     later == worse(r).cards[i]
                 IN  /\ \A b \in DOMAIN before.colours : later.colours[b] <= before.colours[b]
                     /\ Push!Rank(later.status) <= Push!Rank(before.status)
    BY <1>1, <1>6, <1>7
  <1> QED BY <1>8 DEF Push!TrueToTraffic, board, worse, samples, among, recent

(***************************************************************************)
(* Elements of a sequence, in their order                                  *)
(***************************************************************************)
\* Which of them a place is, counted from the first.
PlaceNo(S, i) == Cardinality({j \in S : j <= i})

\* There is exactly one place of each number.
LEMMA PlacesCount ==
    ASSUME NEW S, S \subseteq Int, IsFiniteSet(S)
    PROVE  /\ Cardinality(S) \in Nat
           /\ \A i \in S : PlaceNo(S, i) \in 1 .. Cardinality(S)
           /\ \A i, j \in S : PlaceNo(S, i) = PlaceNo(S, j) => i = j
           /\ \A k \in 1 .. Cardinality(S) : \E i \in S : PlaceNo(S, i) = k
  <1> DEFINE n == Cardinality(S)
             rank == [i \in S |-> PlaceNo(S, i)]
             upTo(i) == {j \in S : j <= i}
  <1>1. n \in Nat
    BY FS_CardinalityType
  <1>2. \A i \in S : /\ IsFiniteSet(upTo(i)) /\ upTo(i) \subseteq S
                     /\ PlaceNo(S, i) = Cardinality(upTo(i))
    <2> SUFFICES ASSUME NEW i \in S
                 PROVE  /\ IsFiniteSet(upTo(i)) /\ upTo(i) \subseteq S
                        /\ PlaceNo(S, i) = Cardinality(upTo(i))
      OBVIOUS
    <2>1. upTo(i) \subseteq S
      OBVIOUS
    <2>2. PlaceNo(S, i) = Cardinality(upTo(i))
      BY DEF PlaceNo
    <2> HIDE DEF upTo
    <2> QED BY <2>1, <2>2, FS_Subset
  <1>3. ASSUME NEW i \in S PROVE PlaceNo(S, i) \in 1 .. n
    <2>1. upTo(i) # {}
      BY i \in upTo(i)
    <2> DEFINE U == upTo(i)
    <2> HIDE DEF U
    <2>2. Cardinality(U) \in Nat /\ Cardinality(U) <= n
      BY <1>2, FS_Subset, FS_CardinalityType DEF U
    <2>3. Cardinality(U) # 0
      BY <1>2, <2>1, FS_EmptySet DEF U
    <2> QED BY <1>1, <1>2, <2>2, <2>3 DEF U
  <1>4. ASSUME NEW i \in S, NEW j \in S, i < j PROVE PlaceNo(S, i) # PlaceNo(S, j)
    <2> DEFINE U == upTo(i)
               V == upTo(j)
    <2>1. U \subseteq V
      <3> SUFFICES ASSUME NEW q \in S, q <= i PROVE q <= j
        OBVIOUS
      <3>1. i \in Int /\ j \in Int /\ q \in Int
        OBVIOUS
      <3> QED BY <1>4, <3>1
    <2>2. j \in V /\ j \notin U
      BY <1>4
    <2>3. /\ PlaceNo(S, i) = Cardinality(U) /\ PlaceNo(S, j) = Cardinality(V)
          /\ IsFiniteSet(V)
      BY <1>2
    <2> HIDE DEF U, V
    <2> QED BY <2>1, <2>2, <2>3, FS_Subset
  <1>5. \A i, j \in S : PlaceNo(S, i) = PlaceNo(S, j) => i = j
    BY <1>4
  <1>6. \A k \in 1 .. n : \E i \in S : PlaceNo(S, i) = k
    <2>1. rank \in [S -> 1 .. n]
      BY <1>3
    <2>2. rank \in Injection(S, 1 .. n)
      BY <1>5, <2>1 DEF Injection, IsInjective
    <2>3. IsFiniteSet(1 .. n) /\ Cardinality(1 .. n) = n
      BY <1>1, FS_Interval
    <2> HIDE DEF rank, n
    <2>4. rank \in Surjection(S, 1 .. n)
      BY <2>2, <2>3, FS_Injection DEF n
    <2>5. \A k \in 1 .. n : \E i \in S : rank[i] = k
      BY <2>4 DEF Surjection
    <2> QED BY <2>5 DEF rank
  <1> QED BY <1>1, <1>3, <1>5, <1>6

\* A sequence lists the elements of another at some places.
Lists(out, seq, S) ==
    /\ out \in Seq({seq[i] : i \in S})
    /\ \A k \in DOMAIN out : \E i \in S : out[k] = seq[i]
    /\ \A i \in S : \E k \in DOMAIN out : out[k] = seq[i]
    /\ (\A i, j \in S : seq[i] = seq[j] => i = j)
         => \A k, l \in DOMAIN out : out[k] = out[l] => k = l

\* What InOrder returns: one element for each place.
LEMMA InOrderIs ==
    ASSUME NEW seq, NEW S, S \subseteq Int, IsFiniteSet(S)
    PROVE  Lists(Push!InOrder(seq, S), seq, S)
  <1> DEFINE out == Push!InOrder(seq, S)
             n == Cardinality(S)
             nth(k) == CHOOSE i \in S : PlaceNo(S, i) = k
             X == {seq[i] : i \in S}
  <1>1. /\ n \in Nat
        /\ \A i \in S : PlaceNo(S, i) \in 1 .. n
        /\ \A i, j \in S : PlaceNo(S, i) = PlaceNo(S, j) => i = j
        /\ \A k \in 1 .. n : \E i \in S : PlaceNo(S, i) = k
    BY PlacesCount
  <1>2. \A k \in 1 .. n : nth(k) \in S /\ PlaceNo(S, nth(k)) = k
    BY <1>1
  <1>3. out = [k \in 1 .. n |-> seq[nth(k)]]
    <2>1. \A T : Push!Cardinality(T) = Cardinality(T)
      BY DEF Push!Cardinality, Cardinality, Push!IsFiniteSet, IsFiniteSet
    <2> DEFINE at(k) == CHOOSE i \in S : Push!Cardinality({j \in S : j <= i}) = k
    <2>2. out = [k \in 1 .. Push!Cardinality(S) |-> seq[at(k)]]
      BY DEF Push!InOrder
    <2>3. \A k : at(k) = nth(k)
      BY <2>1 DEF PlaceNo
    <2>4. Push!Cardinality(S) = n
      BY <2>1
    <2> HIDE DEF at, nth, n, out
    <2> QED BY <2>2, <2>3, <2>4
  <1>4. \A i \in S : nth(PlaceNo(S, i)) = i
    BY <1>1, <1>2
  <1> HIDE DEF nth, n
  <1>5. DOMAIN out = 1 .. n /\ \A k \in 1 .. n : out[k] = seq[nth(k)]
    BY <1>3
  <1>6. out \in [1 .. n -> X]
    BY <1>2, <1>3
  <1> HIDE DEF out
  <1>7. out \in Seq(X)
    <2> HIDE DEF X
    <2> QED BY <1>1, <1>6, SeqDef
  <1>8. \A k \in DOMAIN out : \E i \in S : out[k] = seq[i]
    BY <1>2, <1>5
  <1>9. \A i \in S : \E k \in DOMAIN out : out[k] = seq[i]
    BY <1>1, <1>4, <1>5
  <1>10. ASSUME \A i, j \in S : seq[i] = seq[j] => i = j
         PROVE  \A k, l \in DOMAIN out : out[k] = out[l] => k = l
    <2> SUFFICES ASSUME NEW k \in DOMAIN out, NEW l \in DOMAIN out, out[k] = out[l]
                 PROVE  k = l
      OBVIOUS
    <2>1. /\ nth(k) \in S /\ PlaceNo(S, nth(k)) = k /\ out[k] = seq[nth(k)]
          /\ nth(l) \in S /\ PlaceNo(S, nth(l)) = l /\ out[l] = seq[nth(l)]
      BY <1>2, <1>5
    <2>2. nth(k) = nth(l)
      BY <1>10, <2>1
    <2> QED BY <2>1, <2>2
  <1> HIDE DEF X
  <1> QED BY <1>7, <1>8, <1>9, <1>10 DEF Lists, X, out

(***************************************************************************)
(* The groups of a board                                                   *)
(***************************************************************************)
\* Only groups that are not excluded have a card, and how many there are is told where
\* some do not fit.
LEMMA BoardFits ==
    ASSUME NEW T, NEW excluded
    PROVE  LET board == Push!Board(Groups, T, excluded) IN
           /\ \A i \in DOMAIN board.cards : board.cards[i].group \notin excluded
           /\ Len(board.cards) < board.of
                <=> Len(Push!PublicGroups(Groups, excluded)) > MaxCards
  <1> DEFINE S == {i \in DOMAIN Groups : /\ Groups[i].active /\ ~Groups[i].exclusive
                                         /\ Groups[i].id \notin excluded}
             visible == Push!PublicGroups(Groups, excluded)
             X == {Groups[i] : i \in S}
             m == Push!Min({MaxCards, Len(visible)})
             shown == Visible(Groups, excluded)
             board == Push!Board(Groups, T, excluded)
  <1>1. /\ MaxCards \in Nat \ {0}
        /\ Groups \in Seq([id : Nat, active : BOOLEAN, exclusive : BOOLEAN])
    BY PartsAssumption DEF Push!PushAssumption, Push!BoardAssumption
  <1>2. Len(Groups) \in Nat /\ DOMAIN Groups = 1 .. Len(Groups)
    BY <1>1, LenProperties
  <1>3. S \subseteq Int /\ IsFiniteSet(S) /\ \A i \in S : Groups[i].id \notin excluded
    <2>1. S \subseteq 1 .. Len(Groups) /\ \A i \in S : Groups[i].id \notin excluded
      BY <1>2
    <2>2. IsFiniteSet(1 .. Len(Groups))
      BY <1>2, FS_Interval
    <2> HIDE DEF S
    <2>3. IsFiniteSet(S)
      BY <2>1, <2>2, FS_Subset
    <2>4. 1 .. Len(Groups) \subseteq Int
      BY <1>2
    <2> QED BY <2>1, <2>3, <2>4
  <1>4. visible = Push!InOrder(Groups, S)
    BY DEF Push!PublicGroups
  <1> HIDE DEF S, visible
  <1>5. visible \in Seq(X) /\ \A k \in DOMAIN visible : \E i \in S : visible[k] = Groups[i]
    <2>1. Lists(visible, Groups, S)
      BY <1>3, <1>4, InOrderIs
    <2> QED BY <2>1 DEF Lists
  <1>6. Len(visible) \in Nat /\ DOMAIN visible = 1 .. Len(visible)
    <2> HIDE DEF X
    <2> QED BY <1>5, LenProperties
  <1>7. m = (IF MaxCards <= Len(visible) THEN MaxCards ELSE Len(visible)) /\ m \in Nat
        /\ m <= Len(visible)
    <2> DEFINE l == Len(visible)
    <2> HIDE DEF l
    <2>1. l \in Nat /\ MaxCards \in Nat
      BY <1>1, <1>6 DEF l
    <2>2. Push!Min({MaxCards, l}) = IF MaxCards <= l THEN MaxCards ELSE l
      BY <2>1 DEF Push!Min
    <2>3. /\ m = (IF MaxCards <= l THEN MaxCards ELSE l) /\ m \in Nat
          /\ m <= l
      BY <2>1, <2>2 DEF l
    <2> QED BY <2>3 DEF l
  <1>8. \A i \in 1 .. m : i \in 1 .. Len(visible)
    <2> DEFINE l == Len(visible)
    <2>1. l \in Nat /\ m \in Nat /\ m <= l
      BY <1>6, <1>7
    <2> HIDE DEF l, m
    <2>2. \A i \in 1 .. m : i \in 1 .. l
      BY <2>1
    <2> QED BY <2>2 DEF l
  <1>9. shown = SubSeq(visible, 1, m)
    BY DEF Visible, visible
  <1> HIDE DEF m, shown
  <1>10. /\ shown \in Seq(X) /\ Len(shown) = m
        /\ \A i \in 1 .. m : shown[i] = visible[i]
    <2>1. \A i \in 1 .. m : i \in 1 .. Len(visible) /\ visible[i] \in X
      <3>1. \A i \in 1 .. m : i \in 1 .. Len(visible)
        BY <1>8
      <3> HIDE DEF X
      <3> QED BY <1>5, <3>1, ElementOfSeq
    <2> HIDE DEF X
    <2>2. /\ SubSeq(visible, 1, m) \in Seq(X)
          /\ Len(SubSeq(visible, 1, m)) = IF 1 <= m THEN m - 1 + 1 ELSE 0
          /\ \A i \in 1 .. m - 1 + 1 : SubSeq(visible, 1, m)[i] = visible[1 + i - 1]
      BY <2>1, <1>7, SubSeqProperties
    <2>3. \A i \in 1 .. m : i \in 1 .. m - 1 + 1 /\ 1 + i - 1 = i
      BY <1>7
    <2> QED BY <1>7, <1>9, <2>2, <2>3
  <1>11. DOMAIN shown = 1 .. m
    <2> HIDE DEF X
    <2> QED BY <1>10, LenProperties
  <1>12. \A i \in DOMAIN shown : shown[i].id \notin excluded
    <2> SUFFICES ASSUME NEW i \in DOMAIN shown PROVE shown[i].id \notin excluded
      OBVIOUS
    <2>1. i \in 1 .. m /\ i \in DOMAIN visible
      BY <1>6, <1>8, <1>11
    <2>2. shown[i] = visible[i]
      BY <1>10, <2>1
    <2>3. PICK j \in S : visible[i] = Groups[j]
      BY <1>5, <2>1
    <2> QED BY <1>3, <2>2, <2>3
  <1>13. /\ board.cards = [i \in DOMAIN shown |-> CardOf(T, shown[i].id)]
         /\ board.of = IF Len(visible) > MaxCards THEN Len(visible) ELSE Len(shown)
    BY BoardIs DEF shown, visible
  <1> DEFINE cards == board.cards
  <1>14. \A i \in DOMAIN cards : cards[i].group \notin excluded
    <2>1. \A g : CardOf(T, g).group = g
      BY DEF CardOf
    <2>2. \A i \in DOMAIN shown : cards[i] = CardOf(T, shown[i].id)
      <3> HIDE DEF board
      <3> QED BY <1>13
    <2>3. DOMAIN cards = DOMAIN shown
      <3> HIDE DEF board
      <3> QED BY <1>13
    <2> HIDE DEF cards
    <2> QED BY <1>12, <2>1, <2>2, <2>3
  <1>15. Len(cards) = m
    <2> DEFINE C == {CardOf(T, shown[i].id) : i \in 1 .. m}
    <2>1. cards \in [1 .. m -> C]
      <3> HIDE DEF board
      <3> QED BY <1>11, <1>13
    <2>2. cards \in Seq(C)
      <3> HIDE DEF cards, C
      <3> QED BY <1>7, <2>1, SeqDef
    <2>3. DOMAIN cards = 1 .. m
      <3> HIDE DEF board
      <3> QED BY <1>11, <1>13
    <2> HIDE DEF cards, C
    <2>4. Len(cards) \in Nat /\ DOMAIN cards = 1 .. Len(cards)
      BY <2>2, LenProperties
    <2> QED BY <1>7, <2>3, <2>4
  <1>16. Len(cards) < board.of <=> Len(visible) > MaxCards
    <2> DEFINE n == Len(cards)
               l == Len(visible)
               o == board.of
    <2>1. o = IF l > MaxCards THEN l ELSE m
      BY <1>10, <1>13
    <2>2. n = m /\ l \in Nat /\ MaxCards \in Nat /\ MaxCards > 0
      BY <1>1, <1>6, <1>15
    <2>3. m = IF MaxCards <= l THEN MaxCards ELSE l
      BY <1>7
    <2> HIDE DEF n, l, o
    <2>4. n < o <=> l > MaxCards
      BY <2>1, <2>2, <2>3
    <2> QED BY <2>4 DEF n, l, o
  <1> QED BY <1>14, <1>16 DEF visible

(***************************************************************************)
(* The chats of a push                                                     *)
(***************************************************************************)
\* Each chat once, and each of them a chat.
GoodChats(c) ==
    /\ c \in Seq(Push!ToSet(c))
    /\ \A i, j \in DOMAIN c : c[i] = c[j] => i = j
    /\ "?" \notin Push!ToSet(c)

\* A form that passes leaves chats in order.
LEMMA CleanIsGood ==
    ASSUME NEW form \in PushForms, Push!Valid(form)
    PROVE  GoodChats(Push!Normalized(form).chats)
  <1> DEFINE chats == form.chats
             S == {i \in DOMAIN chats : /\ chats[i] # ""
                                        /\ \A j \in 1 .. i - 1 : chats[j] # chats[i]}
             c == Push!InOrder(chats, S)
  <1>1. form \in [enabled : BOOLEAN, interval : Nat, chats : Seq(STRING), excluded : SUBSET Nat]
    BY PartsAssumption DEF Push!PushAssumption
  <1>2. Push!Normalized(form).chats = c
    BY <1>1 DEF Push!Normalized, Push!Clean
  <1>3. chats \in Seq(STRING)
    BY <1>1
  <1> HIDE DEF chats
  <1> DEFINE n == Len(chats)
  <1>4. n \in Nat /\ DOMAIN chats = 1 .. n
    BY <1>3, LenProperties
  <1> HIDE DEF n
  <1>5. S \subseteq Int /\ IsFiniteSet(S)
    <2>1. S \subseteq 1 .. n
      BY <1>4
    <2>2. IsFiniteSet(1 .. n)
      BY <1>4, FS_Interval
    <2>3. 1 .. n \subseteq Int
      BY <1>4
    <2> HIDE DEF S
    <2>4. IsFiniteSet(S)
      BY <2>1, <2>2, FS_Subset
    <2> QED BY <2>1, <2>3, <2>4
  <1>6. \A i, j \in S : chats[i] = chats[j] => i = j
    <2>1. ASSUME NEW i \in S, NEW j \in S, i < j PROVE chats[i] # chats[j]
      <3>1. i \in 1 .. n /\ j \in 1 .. n
        BY <1>4
      <3>2. \A k \in 1 .. j - 1 : chats[k] # chats[j]
        OBVIOUS
      <3> HIDE DEF S
      <3>3. i \in 1 .. j - 1
        BY <1>4, <2>1, <3>1
      <3> QED BY <3>2, <3>3
    <2>2. \A i, j \in S : i \in Int /\ j \in Int
      BY <1>5
    <2> HIDE DEF S
    <2> QED BY <2>1, <2>2
  <1> HIDE DEF S
  <1>7. Lists(c, chats, S)
    BY <1>5, InOrderIs
  <1> HIDE DEF c
  <1>8. /\ \A i, j \in DOMAIN c : c[i] = c[j] => i = j
        /\ c \in Seq({chats[i] : i \in S})
    BY <1>6, <1>7 DEF Lists
  <1>9. c \in Seq(Push!ToSet(c))
    <2>1. Len(c) \in Nat /\ DOMAIN c = 1 .. Len(c) /\ c \in [1 .. Len(c) -> {chats[i] : i \in S}]
      <3> DEFINE X == {chats[i] : i \in S}
      <3> HIDE DEF X
      <3>1. c \in Seq(X)
        BY <1>8 DEF X
      <3>2. Len(c) \in Nat /\ DOMAIN c = 1 .. Len(c) /\ c \in [1 .. Len(c) -> X]
        BY <3>1, LenProperties
      <3> QED BY <3>2 DEF X
    <2>2. c \in [1 .. Len(c) -> Push!ToSet(c)]
      BY <2>1 DEF Push!ToSet
    <2> QED BY <2>1, <2>2, SeqDef
  <1>10. "?" \notin Push!ToSet(c)
    BY DEF Push!Valid, Push!Clean, c, S, chats
  <1> QED BY <1>2, <1>8, <1>9, <1>10 DEF GoodChats

\* As many chats as there are places.
LEMMA ChatsCount ==
    ASSUME NEW c, GoodChats(c)
    PROVE  Len(c) \in Nat /\ DOMAIN c = 1 .. Len(c) /\ Push!Cardinality(Push!ToSet(c)) = Len(c)
  <1> DEFINE C == Push!ToSet(c)
  <1>1. c \in Seq(C)
    BY DEF GoodChats
  <1> HIDE DEF C
  <1>2. Len(c) \in Nat /\ DOMAIN c = 1 .. Len(c) /\ c \in [1 .. Len(c) -> C]
    BY <1>1, LenProperties
  <1>3. c \in Bijection(1 .. Len(c), C)
    <2>1. \A i, j \in 1 .. Len(c) : c[i] = c[j] => i = j
      BY <1>2 DEF GoodChats
    <2>2. \A x \in C : \E i \in 1 .. Len(c) : c[i] = x
      BY <1>2 DEF C, Push!ToSet
    <2> QED BY <1>2, <2>1, <2>2 DEF Bijection, Injection, Surjection, IsInjective
  <1>4. Cardinality(C) = Len(c)
    <2>1. IsFiniteSet(1 .. Len(c)) /\ Cardinality(1 .. Len(c)) = Len(c)
      BY <1>2, FS_Interval
    <2>2. ExistsBijection(1 .. Len(c), C)
      BY <1>3 DEF ExistsBijection
    <2> QED BY <2>1, <2>2, FS_Bijection
  <1>5. Push!Cardinality(C) = Cardinality(C)
    BY DEF Push!Cardinality, Cardinality, Push!IsFiniteSet, IsFiniteSet
  <1> QED BY <1>2, <1>4, <1>5 DEF C

\* One more in a list of what was told.
LEMMA OneMoreTold ==
    ASSUME NEW C, NEW s \in Seq(C), NEW x \in C
    PROVE  /\ Append(s, x) \in Seq(C) /\ Len(Append(s, x)) = Len(s) + 1 /\ Len(s) \in Nat
           /\ Push!ToSet(Append(s, x)) = Push!ToSet(s) \cup {x}
  <1> DEFINE t == Append(s, x)
  <1>1. /\ t \in Seq(C) /\ Len(t) = Len(s) + 1
        /\ \A i \in 1 .. Len(s) : t[i] = s[i]
        /\ t[Len(s) + 1] = x
    BY AppendProperties
  <1> HIDE DEF t
  <1>2. Len(s) \in Nat /\ DOMAIN s = 1 .. Len(s)
    BY LenProperties
  <1>3. DOMAIN t = 1 .. Len(s) + 1
    BY <1>1, LenProperties
  <1>4. Push!ToSet(t) = Push!ToSet(s) \cup {x}
    <2>1. \A y : y \in Push!ToSet(t) <=> \E i \in 1 .. Len(s) + 1 : y = t[i]
      BY <1>3 DEF Push!ToSet
    <2>2. \A y : y \in Push!ToSet(s) <=> \E i \in 1 .. Len(s) : y = s[i]
      BY <1>2 DEF Push!ToSet
    <2>3. \A i \in 1 .. Len(s) + 1 : i \in 1 .. Len(s) \/ i = Len(s) + 1
      BY <1>2
    <2>4. \A i \in 1 .. Len(s) : i \in 1 .. Len(s) + 1
      BY <1>2
    <2>5. Len(s) + 1 \in 1 .. Len(s) + 1
      BY <1>2
    <2> QED BY <1>1, <2>1, <2>2, <2>3, <2>4, <2>5
  <1> QED BY <1>1, <1>2, <1>4 DEF t

\* What two lists tell together.
LEMMA TwoLists ==
    ASSUME NEW C, NEW s \in Seq(C), NEW t \in Seq(C)
    PROVE  /\ Len(s) \in Nat /\ Len(t) \in Nat /\ Len(s \o t) = Len(s) + Len(t)
           /\ Push!ToSet(s \o t) = Push!ToSet(s) \cup Push!ToSet(t)
  <1> DEFINE u == s \o t
             m == Len(s)
             n == Len(t)
  <1>1. m \in Nat /\ DOMAIN s = 1 .. m /\ n \in Nat /\ DOMAIN t = 1 .. n
    BY LenProperties
  <1>2. /\ u \in Seq(C) /\ Len(u) = m + n
        /\ \A i \in 1 .. m + n : u[i] = IF i <= m THEN s[i] ELSE t[i - m]
    BY ConcatProperties
  <1> HIDE DEF u, m, n
  <1>3. DOMAIN u = 1 .. m + n
    BY <1>2, LenProperties
  <1>4. Push!ToSet(u) = Push!ToSet(s) \cup Push!ToSet(t)
    <2>1. \A y : y \in Push!ToSet(u) <=> \E i \in 1 .. m + n : y = u[i]
      BY <1>3 DEF Push!ToSet
    <2>2. \A y : y \in Push!ToSet(s) <=> \E i \in 1 .. m : y = s[i]
      BY <1>1 DEF Push!ToSet
    <2>3. \A y : y \in Push!ToSet(t) <=> \E i \in 1 .. n : y = t[i]
      BY <1>1 DEF Push!ToSet
    <2>4. \A i \in 1 .. m : i \in 1 .. m + n /\ u[i] = s[i]
      BY <1>1, <1>2
    <2>5. \A i \in 1 .. n : i + m \in 1 .. m + n /\ u[i + m] = t[i]
      BY <1>1, <1>2
    <2>6. \A i \in 1 .. m + n : i \in 1 .. m \/ (i - m \in 1 .. n /\ u[i] = t[i - m])
      BY <1>1, <1>2
    <2>7. \A y : y \in Push!ToSet(u) => y \in Push!ToSet(s) \/ y \in Push!ToSet(t)
      BY <2>1, <2>2, <2>3, <2>4, <2>6
    <2>8. \A y : y \in Push!ToSet(s) => y \in Push!ToSet(u)
      BY <2>1, <2>2, <2>4
    <2>9. \A y : y \in Push!ToSet(t) => y \in Push!ToSet(u)
      BY <2>1, <2>3, <2>5
    <2> QED BY <2>7, <2>8, <2>9
  <1> QED BY <1>1, <1>2, <1>4 DEF u, m, n

(***************************************************************************)
(* A push                                                                  *)
(***************************************************************************)
\* What the result of a push has to say for itself.
TellsTruth(x) ==
    x # Push!NoPush /\ ~x.error =>
        LET listed == x.reached \o x.failed IN
        /\ x.ok <=> x.failed = <<>>
        /\ Push!ToSet(listed) = Push!ToSet(x.to.chats)
        /\ Len(listed) = Push!Cardinality(Push!ToSet(listed))
        /\ "?" \notin Push!ToSet(listed)
        /\ \A i \in DOMAIN x.board.cards : x.board.cards[i].group \notin x.to.excluded
        /\ Len(x.board.cards) < x.board.of
             <=> Len(Push!PublicGroups(Groups, x.to.excluded)) > MaxCards

\* The chats of the settings, wherever they are.
ChatsGood ==
    /\ GoodChats(inRows.push.chats) /\ GoodChats(inMemory.push.chats)
    /\ \A s \in Runs : SavesOf(s, "push") => GoodChats(saving[s].value.chats)

\* A push that is under way: its board is that of its settings, and the chats it dealt with
\* are the first ones.
PushFields == {"at", "settings", "byTimer", "board", "reached", "failed"}
Underway(r) ==
    r.at # "idle" =>
        /\ GoodChats(r.settings.chats)
        /\ r.at \in {"board", "send"} => r.settings.chats # <<>>
        /\ r.at = "send" =>
               /\ DOMAIN r = PushFields
               /\ r.board = Push!Board(Groups, window, r.settings.excluded)
               /\ r.reached \in Seq(Push!ToSet(r.settings.chats))
               /\ r.failed \in Seq(Push!ToSet(r.settings.chats))
               /\ Len(r.reached) + Len(r.failed) < Len(r.settings.chats)
               /\ Push!ToSet(r.reached) \cup Push!ToSet(r.failed)
                    = {r.settings.chats[i] : i \in 1 .. Len(r.reached) + Len(r.failed)}

PushGood ==
    /\ window \in Traffics
    /\ pushing = [p \in {v1} |-> pushing[p]] /\ \A p \in {v1} : Underway(pushing[p])
    /\ TellsTruth(lastPush)

PushInv == SettingsInv /\ ChatsGood /\ PushGood

\* At first there are no chats and no push.
LEMMA PushStart == Push!Init => PushInv
  <1> SUFFICES ASSUME Push!Init PROVE PushInv
    OBVIOUS
  <1>1. /\ inRows = Push!Defaults /\ inMemory = Push!Defaults
        /\ saving = [s \in Runs |-> Push!NoPush]
        /\ window \in Traffics /\ pushing = [p \in {v1} |-> Push!NoPush] /\ lastPush = Push!NoPush
    BY DEF Push!Init
  <1>2. GoodChats(<<>>)
    <2>1. Push!ToSet(<<>>) = {} /\ DOMAIN <<>> = {}
      BY DEF Push!ToSet
    <2>2. <<>> \in Seq({})
      BY EmptySeq
    <2> QED BY <2>1, <2>2 DEF GoodChats
  <1>3. Push!Defaults.push.chats = <<>> /\ Push!NoPush.at = "idle"
    BY DEF Push!Defaults, Push!NoPush
  <1>4. ChatsGood
    BY <1>1, <1>2, <1>3 DEF ChatsGood, SavesOf
  <1>5. PushGood
    BY <1>1, <1>3 DEF PushGood, Underway, TellsTruth
  <1> QED BY <1>4, <1>5, SettingsStart DEF PushInv

\* A save takes chats that are in order from place to place.
LEMMA ChatsStep ==
    ASSUME SettingsInv, ChatsGood, [Push!Next]_(Push!vars)
    PROVE  ChatsGood'
  <1>0. /\ DOMAIN inRows = Push!Domains /\ DOMAIN inMemory = Push!Domains
        /\ saving = [s \in Runs |-> saving[s]] /\ "push" \in Push!Domains
    BY DEF SettingsInv, SettingsTypes, Push!Domains
  <1>1. ASSUME NEW s \in Runs, NEW d \in Push!Domains, NEW v, NEW g, Push!Save(s, d, v, g),
               d = "push" => GoodChats(v.chats)
        PROVE  ChatsGood'
    <2> DEFINE x == [at |-> "set", domain |-> d, value |-> v, gives |-> g]
    <2>1. saving' = [saving EXCEPT ![s] = x] /\ UNCHANGED <<inRows, inMemory>>
      BY <1>1 DEF Push!Save
    <2>2. x.domain = d /\ x.value = v
      OBVIOUS
    <2> HIDE DEF x
    <2>3. saving'[s] = x /\ \A q \in Runs \ {s} : saving'[q] = saving[q]
      BY <1>0, <2>1
    <2> QED BY <1>1, <2>1, <2>2, <2>3 DEF ChatsGood, SavesOf
  <1>2. ASSUME NEW s \in Runs, Push!SavePush(s) PROVE ChatsGood'
    <2>1. PICK form \in PushForms : /\ Push!Valid(form)
                                    /\ Push!Save(s, "push", Push!Normalized(form), FALSE)
      BY <1>2 DEF Push!SavePush
    <2> DEFINE v == Push!Normalized(form)
    <2>2. GoodChats(v.chats)
      BY <2>1, CleanIsGood
    <2> HIDE DEF v
    <2> QED BY <1>0, <1>1, <2>1, <2>2 DEF v
  <1>3. ASSUME NEW s \in Runs, Push!SaveChannels(s) PROVE ChatsGood'
    <2>1. PICK v, g : Push!Save(s, "channels", v, g)
      BY <1>3 DEF Push!SaveChannels
    <2> QED BY <1>1, <2>1 DEF Push!Domains
  <1>4. ASSUME NEW s \in Runs, NEW b \in BOOLEAN, Push!Set(s, b) PROVE ChatsGood'
    <2> DEFINE d == saving[s].domain
               y == [saving[s] EXCEPT !.at = "live"]
    <2>1. /\ saving[s].at = "set"
          /\ inRows' = IF b THEN inRows ELSE [inRows EXCEPT ![d] = saving[s].value]
          /\ saving' = [saving EXCEPT ![s] = IF b THEN Push!NoPush ELSE y]
          /\ inMemory' = inMemory
      BY <1>4 DEF Push!Set
    <2>2. /\ DOMAIN saving[s] = SaveFields /\ d \in Push!Domains
          /\ \A e \in Push!Domains : SavesOf(s, e) <=> e = d
      BY <2>1, OwnDomain
    <2>3. y.at = "live" /\ y.domain = d /\ y.value = saving[s].value /\ Push!NoPush.at = "idle"
      BY <2>2 DEF SaveFields, Push!NoPush
    <2> HIDE DEF y, d
    <2>4. /\ \A q \in Runs \ {s} : saving'[q] = saving[q]
          /\ saving'[s] = IF b THEN Push!NoPush ELSE y
      BY <1>0, <2>1
    <2>5. inRows'["push"] = inRows["push"] \/ (d = "push" /\ inRows'["push"] = saving[s].value)
      BY <1>0, <2>1, <2>2
    <2>6. d = "push" => GoodChats(saving[s].value.chats)
      BY <1>0, <2>2 DEF ChatsGood
    <2>7. GoodChats(inRows'.push.chats)
      BY <2>5, <2>6 DEF ChatsGood
    <2>8. ASSUME NEW q \in Runs, SavesOf(q, "push")' PROVE GoodChats(saving'[q].value.chats)
      <3>1. CASE q = s
        BY <2>3, <2>4, <2>6, <2>8, <3>1 DEF SavesOf
      <3>2. CASE q # s
        BY <2>4, <2>8, <3>2 DEF SavesOf, ChatsGood
      <3> QED BY <3>1, <3>2
    <2>9. GoodChats(inMemory'.push.chats)
      BY <2>1 DEF ChatsGood
    <2> QED BY <2>7, <2>8, <2>9 DEF ChatsGood
  <1>5. ASSUME NEW s \in Runs, Push!SetLive(s) PROVE ChatsGood'
    <2> DEFINE d == saving[s].domain
               y == [saving[s] EXCEPT !.at = "call"]
    <2>1. /\ saving[s].at = "live"
          /\ inMemory' = [inMemory EXCEPT ![d] = saving[s].value]
          /\ saving' = [saving EXCEPT ![s] = y]
          /\ inRows' = inRows
      BY <1>5 DEF Push!SetLive
    <2>2. /\ DOMAIN saving[s] = SaveFields /\ d \in Push!Domains
          /\ \A e \in Push!Domains : SavesOf(s, e) <=> e = d
      BY <2>1, OwnDomain
    <2>3. y.at = "call" /\ y.domain = d /\ y.value = saving[s].value
      BY <2>2 DEF SaveFields
    <2> HIDE DEF y, d
    <2>4. saving'[s] = y /\ \A q \in Runs \ {s} : saving'[q] = saving[q]
      BY <1>0, <2>1
    <2>5. \/ inMemory'["push"] = inMemory["push"]
          \/ d = "push" /\ inMemory'["push"] = saving[s].value
      BY <1>0, <2>1, <2>2
    <2>6. d = "push" => GoodChats(saving[s].value.chats)
      BY <1>0, <2>2 DEF ChatsGood
    <2>7. GoodChats(inMemory'.push.chats)
      BY <2>5, <2>6 DEF ChatsGood
    <2>8. ASSUME NEW q \in Runs, SavesOf(q, "push")' PROVE GoodChats(saving'[q].value.chats)
      <3>1. CASE q = s
        BY <2>3, <2>4, <2>6, <2>8, <3>1 DEF SavesOf
      <3>2. CASE q # s
        BY <2>4, <2>8, <3>2 DEF SavesOf, ChatsGood
      <3> QED BY <3>1, <3>2
    <2>9. GoodChats(inRows'.push.chats)
      BY <2>1 DEF ChatsGood
    <2> QED BY <2>7, <2>8, <2>9 DEF ChatsGood
  <1>6. ASSUME NEW s \in Runs, Push!Call(s) PROVE ChatsGood'
    <2>1. saving' = [saving EXCEPT ![s] = Push!NoPush] /\ UNCHANGED <<inRows, inMemory>>
      BY <1>6 DEF Push!Call
    <2>2. \A q \in Runs : SavesOf(q, "push")' => SavesOf(q, "push") /\ saving'[q] = saving[q]
      BY <1>0, <2>1 DEF SavesOf, Push!NoPush
    <2> QED BY <2>1, <2>2 DEF ChatsGood
  <1>7. CASE Push!Restart
    <2>1. /\ inRows' = inRows /\ inMemory' = inRows
          /\ saving' = [s \in Runs |-> Push!NoPush]
      BY <1>7 DEF Push!Restart
    <2>2. \A q \in Runs : ~SavesOf(q, "push")'
      BY <2>1 DEF SavesOf, Push!NoPush
    <2> QED BY <2>1, <2>2 DEF ChatsGood
  <1>8. ASSUME UNCHANGED <<inRows, inMemory, saving>> PROVE ChatsGood'
    BY <1>8 DEF ChatsGood, SavesOf
  <1>9. ASSUME NEW p \in {v1}, NEW b \in BOOLEAN, Push!Start(p, b) \/ Push!Build(p, b)
        PROVE  ChatsGood'
    BY <1>8, <1>9 DEF Push!Start, Push!Build
  <1>10. ASSUME NEW p \in {v1}, Push!CheckToken(p) \/ \E a \in Push!Answers : Push!Send(p, a)
         PROVE  ChatsGood'
    BY <1>8, <1>10 DEF Push!CheckToken, Push!Send
  <1>11. CASE UNCHANGED Push!vars
    BY <1>8, <1>11 DEF Push!vars
  <1> QED BY <1>2, <1>3, <1>4, <1>5, <1>6, <1>7, <1>9, <1>10, <1>11 DEF Push!Next

\* A result that names an error promises nothing; one that does not accounts for all chats.
LEMMA ErrorTells ==
    ASSUME NEW x, x.error = TRUE PROVE TellsTruth(x)
  BY DEF TellsTruth

\* A result whose chats are those of its settings and whose board is theirs says the truth.
LEMMA ResultTells ==
    ASSUME NEW x, NEW T, GoodChats(x.to.chats),
           x.ok <=> x.failed = <<>>,
           x.reached \in Seq(Push!ToSet(x.to.chats)), x.failed \in Seq(Push!ToSet(x.to.chats)),
           Len(x.reached) + Len(x.failed) = Len(x.to.chats),
           Push!ToSet(x.reached) \cup Push!ToSet(x.failed) = Push!ToSet(x.to.chats),
           x.board = Push!Board(Groups, T, x.to.excluded)
    PROVE  TellsTruth(x)
  <1> DEFINE c == x.to.chats
             C == Push!ToSet(c)
             s == x.reached
             t == x.failed
             listed == s \o t
  <1>1. GoodChats(c) /\ s \in Seq(C) /\ t \in Seq(C)
    OBVIOUS
  <1>2. Len(s) + Len(t) = Len(c) /\ Push!ToSet(s) \cup Push!ToSet(t) = C
    OBVIOUS
  <1>3. "?" \notin C
    BY DEF GoodChats
  <1> HIDE DEF C, c, s, t
  <1>4. Len(listed) = Len(s) + Len(t) /\ Push!ToSet(listed) = Push!ToSet(s) \cup Push!ToSet(t)
    BY <1>1, TwoLists
  <1> HIDE DEF listed
  <1>5. Push!ToSet(listed) = C /\ Len(listed) = Push!Cardinality(Push!ToSet(listed))
    BY <1>1, <1>2, <1>4, ChatsCount DEF C
  <1>6. "?" \notin Push!ToSet(listed)
    BY <1>3, <1>5
  <1>7. LET board == Push!Board(Groups, T, x.to.excluded) IN
        /\ \A i \in DOMAIN board.cards : board.cards[i].group \notin x.to.excluded
        /\ Len(board.cards) < board.of
             <=> Len(Push!PublicGroups(Groups, x.to.excluded)) > MaxCards
    BY BoardFits
  <1>8. /\ \A i \in DOMAIN x.board.cards : x.board.cards[i].group \notin x.to.excluded
        /\ Len(x.board.cards) < x.board.of
             <=> Len(Push!PublicGroups(Groups, x.to.excluded)) > MaxCards
    BY <1>7
  <1> QED BY <1>5, <1>6, <1>8 DEF TellsTruth, listed, C, c, s, t

\* A step of a push that leaves the window alone.
LEMMA PushMoves ==
    ASSUME SettingsInv, PushGood, NEW p \in {v1}, NEW r, Push!Goes(p, r), Underway(r),
           window' = window, TellsTruth(lastPush')
    PROVE  PushGood'
  <1>1. pushing' = [pushing EXCEPT ![p] = r]
    BY DEF Push!Goes
  <1>2. pushing' = [q \in {v1} |-> pushing'[q]] /\ pushing'[p] = r
    BY <1>1 DEF PushGood
  <1>3. Underway(r)'
    BY DEF Underway
  <1> QED BY <1>1, <1>2, <1>3 DEF PushGood

\* Its first steps: the settings of now, a token and chats, a board.
LEMMA PushBegins ==
    ASSUME SettingsInv, ChatsGood, PushGood, NEW p \in {v1}, NEW b \in BOOLEAN,
           Push!Start(p, b) \/ Push!CheckToken(p) \/ Push!Build(p, b)
    PROVE  PushGood'
  <1>0. Underway(Push!NoPush) /\ TellsTruth(lastPush) /\ Underway(pushing[p])
    BY DEF Underway, Push!NoPush, PushGood
  <1>1. CASE Push!Start(p, b)
    <2> DEFINE r == [at |-> "token", settings |-> inMemory.push, byTimer |-> b]
    <2>1. Push!Goes(p, r) /\ window' = window /\ lastPush' = lastPush
      BY <1>1 DEF Push!Start
    <2>2. r.at = "token" /\ r.settings = inMemory.push
      OBVIOUS
    <2> HIDE DEF r
    <2>3. Underway(r)
      BY <2>2 DEF Underway, ChatsGood
    <2> QED BY <1>0, <2>1, <2>3, PushMoves
  <1>2. ASSUME Push!Record(p, Push!Result(p)), window' = window PROVE PushGood'
    <2>1. Push!Result(p).error = TRUE
      BY DEF Push!Result
    <2>2. TellsTruth(lastPush')
      BY <1>2, <2>1, ErrorTells DEF Push!Record
    <2> QED BY <1>0, <1>2, <2>2, PushMoves DEF Push!Record
  <1>3. CASE Push!CheckToken(p)
    <2> DEFINE r == [at |-> "board", settings |-> pushing[p].settings,
                     byTimer |-> pushing[p].byTimer]
    <2>1. /\ pushing[p].at = "token" /\ window' = window
          /\ \/ Push!Record(p, Push!Result(p))
             \/ pushing[p].settings.chats # <<>> /\ Push!Goes(p, r) /\ lastPush' = lastPush
      BY <1>3 DEF Push!CheckToken
    <2>2. r.at = "board" /\ r.settings = pushing[p].settings
      OBVIOUS
    <2> HIDE DEF r
    <2>3. pushing[p].settings.chats # <<>> => Underway(r)
      BY <1>0, <2>1, <2>2 DEF Underway
    <2> QED BY <1>0, <1>2, <2>1, <2>3, PushMoves
  <1>4. CASE Push!Build(p, b)
    <2> DEFINE r == [at |-> "send", settings |-> pushing[p].settings,
                     byTimer |-> pushing[p].byTimer,
                     board |-> Push!Board(Groups, window, pushing[p].settings.excluded),
                     reached |-> <<>>, failed |-> <<>>]
    <2>1. /\ pushing[p].at = "board" /\ window' = window
          /\ \/ Push!Record(p, Push!Result(p))
             \/ Push!Goes(p, r) /\ lastPush' = lastPush
      BY <1>4 DEF Push!Build
    <2>2. /\ r.at = "send" /\ r.settings = pushing[p].settings /\ DOMAIN r = PushFields
          /\ r.board = Push!Board(Groups, window, r.settings.excluded)
          /\ r.reached = <<>> /\ r.failed = <<>>
      BY DEF PushFields
    <2> HIDE DEF r
    <2> DEFINE c == r.settings.chats
    <2>3. GoodChats(c) /\ c # <<>>
      BY <1>0, <2>1, <2>2 DEF Underway
    <2> HIDE DEF c
    <2>4. <<>> \in Seq(Push!ToSet(c)) /\ Len(<<>>) = 0 /\ Len(c) \in Nat \ {0}
      BY <2>3, EmptySeq DEF GoodChats
    <2>5. Push!ToSet(<<>>) = {} /\ {c[i] : i \in 1 .. 0 + 0} = {}
      BY DEF Push!ToSet
    <2>6. Underway(r)
      BY <2>2, <2>3, <2>4, <2>5 DEF Underway, c
    <2> QED BY <1>0, <1>2, <2>1, <2>6, PushMoves
  <1> QED BY <1>1, <1>3, <1>4

\* The next chat, and after the last one the result.
LEMMA ChatTold ==
    ASSUME SettingsInv, PushGood, NEW p \in {v1}, NEW a \in Push!Answers, Push!Send(p, a)
    PROVE  PushGood'
  <1> DEFINE r == pushing[p]
             c == r.settings.chats
             C == Push!ToSet(c)
             done == Len(r.reached) + Len(r.failed)
             chat == c[done + 1]
             now == IF Push!Delivered(a) THEN [r EXCEPT !.reached = Append(@, chat)]
                                         ELSE [r EXCEPT !.failed = Append(@, chat)]
             x == [Push!Result(p) EXCEPT !.ok = now.failed = <<>>, !.error = FALSE,
                                         !.reached = now.reached, !.failed = now.failed,
                                         !.board = now.board]
  <1>1. /\ r.at = "send" /\ window' = window
        /\ IF done + 1 < Len(c) THEN Push!Goes(p, now) /\ lastPush' = lastPush
                                ELSE Push!Record(p, x)
    BY DEF Push!Send
  <1>2. /\ GoodChats(c) /\ DOMAIN r = PushFields
        /\ r.board = Push!Board(Groups, window, r.settings.excluded)
        /\ r.reached \in Seq(C) /\ r.failed \in Seq(C) /\ done < Len(c)
        /\ Push!ToSet(r.reached) \cup Push!ToSet(r.failed) = {c[i] : i \in 1 .. done}
    BY <1>1 DEF PushGood, Underway
  <1>3. /\ DOMAIN now = PushFields /\ now.at = "send" /\ now.settings = r.settings
        /\ now.board = r.board
        /\ \/ now.reached = Append(r.reached, chat) /\ now.failed = r.failed
           \/ now.reached = r.reached /\ now.failed = Append(r.failed, chat)
    <2> HIDE DEF chat
    <2> QED BY <1>1, <1>2 DEF PushFields
  <1>4. Len(c) \in Nat /\ DOMAIN c = 1 .. Len(c)
    BY <1>2, ChatsCount
  <1>5. done \in Nat /\ Len(r.reached) \in Nat /\ Len(r.failed) \in Nat
    <2>1. Len(r.reached) \in Nat /\ Len(r.failed) \in Nat
      <3> HIDE DEF C
      <3> QED BY <1>2, LenProperties
    <2> DEFINE m == Len(r.reached)
               n == Len(r.failed)
    <2>2. m \in Nat /\ n \in Nat /\ done = m + n
      BY <2>1
    <2> HIDE DEF m, n, done
    <2>3. done \in Nat
      BY <2>2
    <2> QED BY <2>1, <2>3
  <1>6. chat \in C
    <2>1. done + 1 \in DOMAIN c
      <3> DEFINE n == Len(c)
      <3> HIDE DEF n, done
      <3>1. done + 1 \in 1 .. n
        BY <1>2, <1>4, <1>5 DEF n
      <3> QED BY <1>4, <3>1 DEF n
    <2> HIDE DEF done
    <2> QED BY <2>1 DEF Push!ToSet
  <1> HIDE DEF now, chat, x, C
  <1>7. /\ now.reached \in Seq(C) /\ now.failed \in Seq(C)
        /\ Len(now.reached) + Len(now.failed) = done + 1
        /\ Push!ToSet(now.reached) \cup Push!ToSet(now.failed)
             = (Push!ToSet(r.reached) \cup Push!ToSet(r.failed)) \cup {chat}
    <2>1. CASE now.reached = Append(r.reached, chat) /\ now.failed = r.failed
      <3>1. /\ now.reached \in Seq(C) /\ Len(now.reached) = Len(r.reached) + 1
            /\ Push!ToSet(now.reached) = Push!ToSet(r.reached) \cup {chat}
        BY <1>2, <1>6, <2>1, OneMoreTold
      <3>2. Len(now.reached) + Len(now.failed) = done + 1
        <4> DEFINE m == Len(r.reached)
                   n == Len(r.failed)
                   m2 == Len(now.reached)
                   n2 == Len(now.failed)
        <4>1. /\ m2 = m + 1 /\ n2 = n
              /\ m \in Nat /\ n \in Nat /\ done = m + n
          BY <1>5, <2>1, <3>1
        <4> HIDE DEF m, n, m2, n2, done
        <4>2. m2 + n2 = done + 1
          BY <4>1
        <4> QED BY <4>2 DEF m2, n2
      <3> QED BY <1>2, <2>1, <3>1, <3>2
    <2>2. CASE now.reached = r.reached /\ now.failed = Append(r.failed, chat)
      <3>1. /\ now.failed \in Seq(C) /\ Len(now.failed) = Len(r.failed) + 1
            /\ Push!ToSet(now.failed) = Push!ToSet(r.failed) \cup {chat}
        BY <1>2, <1>6, <2>2, OneMoreTold
      <3>2. Len(now.reached) + Len(now.failed) = done + 1
        <4> DEFINE m == Len(r.reached)
                   n == Len(r.failed)
                   m2 == Len(now.reached)
                   n2 == Len(now.failed)
        <4>1. /\ n2 = n + 1 /\ m2 = m
              /\ m \in Nat /\ n \in Nat /\ done = m + n
          BY <1>5, <2>2, <3>1
        <4> HIDE DEF m, n, m2, n2, done
        <4>2. m2 + n2 = done + 1
          BY <4>1
        <4> QED BY <4>2 DEF m2, n2
      <3> QED BY <1>2, <2>2, <3>1, <3>2
    <2> QED BY <1>3, <2>1, <2>2
  <1>8. {c[i] : i \in 1 .. done} \cup {chat} = {c[i] : i \in 1 .. done + 1}
    <2>1. chat = c[done + 1]
      BY DEF chat
    <2> HIDE DEF done, c
    <2>2. 1 .. done + 1 = (1 .. done) \cup {done + 1}
      BY <1>5
    <2> QED BY <2>1, <2>2
  <1>9. CASE done + 1 < Len(c)
    <2>1. Underway(now)
      <3>1. c # <<>>
        BY <1>1 DEF PushGood, Underway
      <3> HIDE DEF done
      <3> QED BY <1>2, <1>3, <1>7, <1>8, <1>9, <3>1 DEF Underway, C
    <2> HIDE DEF r, done, c
    <2> QED BY <1>1, <1>9, <2>1, PushMoves DEF PushGood
  <1>10. CASE ~(done + 1 < Len(c))
    <2>1. done + 1 = Len(c)
      <3> DEFINE n == Len(c)
      <3> HIDE DEF n, done
      <3>1. done \in Nat /\ n \in Nat /\ done < n /\ ~(done + 1 < n)
        BY <1>2, <1>4, <1>5, <1>10 DEF n
      <3>2. done + 1 = n
        BY <3>1
      <3> QED BY <3>2 DEF n
    <2>2. /\ x.to = r.settings /\ x.error = FALSE /\ x.reached = now.reached
          /\ x.failed = now.failed /\ x.board = now.board
          /\ x.ok = (now.failed = <<>>)
      BY DEF x, Push!Result
    <2>3. {c[i] : i \in 1 .. Len(c)} = C
      <3> HIDE DEF c
      <3> QED BY <1>4 DEF C, Push!ToSet
    <2>4. x.ok <=> x.failed = <<>>
      BY <2>2
    <2>5. /\ x.to.chats = c /\ x.reached \in Seq(C) /\ x.failed \in Seq(C)
          /\ Len(x.reached) + Len(x.failed) = Len(c)
          /\ Push!ToSet(x.reached) \cup Push!ToSet(x.failed) = C
          /\ x.board = Push!Board(Groups, window, x.to.excluded)
      <3> HIDE DEF done
      <3> QED BY <1>2, <1>3, <1>7, <1>8, <2>1, <2>2, <2>3
    <2>6. TellsTruth(x)
      BY <1>2, <2>4, <2>5, ResultTells DEF C
    <2>7. Push!Goes(p, Push!NoPush) /\ lastPush' = x
      BY <1>1, <1>10 DEF Push!Record
    <2>8. Underway(Push!NoPush)
      BY DEF Underway, Push!NoPush
    <2> HIDE DEF r, c, done
    <2>9. TellsTruth(lastPush')
      BY <2>6, <2>7
    <2> QED BY <1>1, <2>7, <2>8, <2>9, PushMoves
  <1> QED BY <1>9, <1>10

\* Every other step leaves the pushes alone, or ends them with the process.
LEMMA PushStep ==
    ASSUME PushInv, [Push!Next]_(Push!vars)
    PROVE  PushInv'
  <1>1. SettingsInv'
    BY SettingsStep DEF PushInv
  <1>2. ChatsGood'
    BY ChatsStep DEF PushInv
  <1>3. ASSUME UNCHANGED <<window, pushing, lastPush>> PROVE PushGood'
    BY <1>3 DEF PushInv, PushGood, Underway
  <1>4. ASSUME NEW s \in Runs,
               Push!SavePush(s) \/ Push!SaveChannels(s) \/ Push!SetLive(s) \/ Push!Call(s)
        PROVE  PushGood'
    BY <1>3, <1>4 DEF Push!SavePush, Push!SaveChannels, Push!Save, Push!SetLive, Push!Call
  <1>5. ASSUME NEW s \in Runs, NEW b \in BOOLEAN, Push!Set(s, b) PROVE PushGood'
    BY <1>3, <1>5 DEF Push!Set
  <1>6. ASSUME Push!Restart PROVE PushGood'
    <2>1. /\ window' = window /\ pushing' = [p \in {v1} |-> Push!NoPush]
          /\ lastPush' = Push!NoPush /\ Push!NoPush.at = "idle"
      BY <1>6 DEF Push!Restart, Push!NoPush
    <2>2. /\ \A p \in {v1} : pushing'[p] = Push!NoPush
          /\ pushing' = [p \in {v1} |-> pushing'[p]]
      BY <2>1
    <2>3. \A p \in {v1} : Underway(pushing[p])'
      BY <2>1, <2>2 DEF Underway
    <2>4. TellsTruth(lastPush)'
      BY <2>1 DEF TellsTruth
    <2>5. (window \in Traffics)'
      BY <2>1 DEF PushInv, PushGood
    <2> QED BY <2>2, <2>3, <2>4, <2>5 DEF PushGood
  <1>7. ASSUME NEW p \in {v1}, NEW b \in BOOLEAN, Push!Start(p, b) \/ Push!Build(p, b)
        PROVE  PushGood'
    BY <1>7, PushBegins DEF PushInv
  <1>8. ASSUME NEW p \in {v1}, Push!CheckToken(p) PROVE PushGood'
    BY <1>8, PushBegins DEF PushInv
  <1>9. ASSUME NEW p \in {v1}, NEW a \in Push!Answers, Push!Send(p, a) PROVE PushGood'
    BY <1>9, ChatTold DEF PushInv
  <1>10. ASSUME UNCHANGED Push!vars PROVE PushGood'
    <2>1. UNCHANGED <<window, pushing, lastPush>>
      BY <1>10 DEF Push!vars
    <2> QED BY <1>3, <2>1
  <1>11. ASSUME Push!Next PROVE PushGood'
    <2>1. \/ \E s \in Runs : Push!SavePush(s) \/ Push!SaveChannels(s)
                            \/ Push!SetLive(s) \/ Push!Call(s)
          \/ \E s \in Runs, b \in BOOLEAN : Push!Set(s, b)
          \/ Push!Restart
          \/ \E p \in {v1}, b \in BOOLEAN : Push!Start(p, b) \/ Push!Build(p, b)
          \/ \E p \in {v1} : Push!CheckToken(p)
          \/ \E p \in {v1}, a \in Push!Answers : Push!Send(p, a)
      BY <1>11 DEF Push!Next
    <2> QED BY <1>4, <1>5, <1>6, <1>7, <1>8, <1>9, <2>1
  <1>12. PushGood'
    BY <1>10, <1>11
  <1> QED BY <1>1, <1>2, <1>12 DEF PushInv

\* The invariant of the settings and the pushes holds.
LEMMA PushHolds == PartSpec => []PushInv
  <1>1. PartInit => PushInv
    BY PushStart DEF PartInit
  <1>2. PushInv /\ [PartNext]_<<part, vars, healthVars, alertVars, costVars, pushVars, accessVars>>
            => PushInv'
    BY PushAlone, PushStep
  <1> QED BY <1>1, <1>2, PTL DEF PartSpec

\* Settings and what was built from them agree, a push that says it went well reached every
\* chat of its settings once with the board of those settings, and a board is true to the
\* traffic of its window: of any window, for any groups, whatever is excluded.
THEOREM PushesAreTrue == PartSpec => []PushIsTrue
  <1>1. PushInv => PushIsTrue
    <2> SUFFICES ASSUME PushInv PROVE Push!PushIsTrue
      BY DEF PushIsTrue
    <2>1. Push!PlacesAgree /\ Push!NothingLost
      BY SettingsAgree DEF PushInv
    <2>2. Push!ResultIsTrue
      BY DEF PushInv, PushGood, TellsTruth, Push!ResultIsTrue
    <2>3. Push!IsTraffic(window)
      BY PartsAssumption DEF Push!PushAssumption, PushInv, PushGood
    <2>4. \A some \in SUBSET window : Push!IsTraffic(some)
      BY <2>3, PartOfTraffic
    <2>5. \A some \in SUBSET window, x \in {{}, {Groups[1].id}} :
              Push!TrueToTraffic(Groups, some, x)
      BY <2>4, BoardIsTrue
    <2> QED BY <2>1, <2>2, <2>5 DEF Push!PushIsTrue
  <1> QED BY <1>1, PushHolds, PTL

(***************************************************************************)
(* The types of every part                                                 *)
(***************************************************************************)
\* A step of the composition is a step of the synchronisation, or leaves it alone.
LEMMA SyncAlone ==
    ASSUME [PartNext]_<<part, vars, healthVars, alertVars, costVars, pushVars, accessVars>>
    PROVE  [Next]_vars
  BY DEF PartNext

\* Parts of the composition keep what the synchronisation alone keeps.
LEMMA SyncTyped == PartSpec => []TypeOK
  <1>1. PartInit => Init
    BY DEF PartInit
  <1>2. [PartNext]_<<part, vars, healthVars, alertVars, costVars, pushVars, accessVars>>
            => [Next]_vars
    BY SyncAlone
  <1>3. PartSpec => Spec
    BY <1>1, <1>2, PTL DEF PartSpec, Spec
  <1> QED BY <1>3, SyncTypes, PTL

\* What the invariant of the health leaves out.
HealthRest ==
    /\ rested \in BOOLEAN /\ used \in 0..Budget /\ heard \in {"nothing", "down", "up"}
    /\ stale \subseteq Runs /\ accidents \in 0..MaxEvents

\* The types of the health.
LEMMA HealthTyped == PartSpec => []Health!TypeOK
  <1>0. Budget \in Nat /\ MaxEvents \in Nat
    BY PartsAssumption DEF Health!HealthAssumption
  <1>1. PartInit => HealthRest
    BY <1>0 DEF PartInit, Health!Init, HealthRest
  <1>2. HealthInv /\ HealthRest
            /\ [PartNext]_<<part, vars, healthVars, alertVars, costVars, pushVars, accessVars>>
            => HealthRest'
    <2> SUFFICES ASSUME HealthInv, HealthRest, [Health!Next]_(Health!vars) PROVE HealthRest'
      BY HealthAlone
    <2>1. ASSUME NEW p \in Runs, Health!Schedule(p) PROVE HealthRest'
      BY <1>0, <2>1 DEF Health!Schedule, HealthRest
    <2>2. ASSUME NEW p \in Runs, Health!ProbeByHand(p) \/ Health!Answered(p) PROVE HealthRest'
      BY <1>0, <2>2 DEF Health!ProbeByHand, Health!Answered, Health!Event, HealthRest
    <2>3. ASSUME NEW p \in Runs, Health!ReadRow(p) \/ Health!WriteRow(p) PROVE HealthRest'
      BY <2>3 DEF Health!ReadRow, Health!WriteRow, HealthRest
    <2>4. ASSUME NEW p \in Runs, Health!Tell(p) \/ Health!ProbeFails(p) PROVE HealthRest'
      BY <1>0, <2>4 DEF Health!Tell, Health!ProbeFails, Health!Event, HealthRest
    <2>5. CASE Health!SetDisabled \/ Health!NextDay \/ Health!Crash
      <3>1. stale' \subseteq Runs /\ rested' = rested /\ heard' = heard
        BY <2>5 DEF Health!SetDisabled, Health!NextDay, Health!Crash, Health!probeVars, HealthRest
      <3>2. used' \in 0..Budget /\ accidents' \in 0..MaxEvents
        <4>1. (used' = used \/ used' = 0) /\ (accidents' = accidents \/ Health!Event)
          BY <2>5 DEF Health!SetDisabled, Health!NextDay, Health!Crash
        <4> QED BY <1>0, <4>1 DEF Health!Event, HealthRest
      <3> QED BY <3>1, <3>2 DEF HealthRest
    <2>6. ASSUME NEW c \in BOOLEAN, NEW o \in BOOLEAN, NEW b \in BOOLEAN,
                 Health!TimePasses(c, o, b)
          PROVE  HealthRest'
      <3>1. rested' \in BOOLEAN
        BY <2>6, Zenon DEF Health!TimePasses, HealthRest
      <3>2. UNCHANGED <<used, heard, stale, accidents>>
        BY <2>6 DEF Health!TimePasses, Health!probeVars
      <3> QED BY <3>1, <3>2 DEF HealthRest
    <2>7. CASE UNCHANGED Health!vars
      BY <2>7 DEF Health!vars, HealthRest
    <2> QED BY <2>1, <2>2, <2>3, <2>4, <2>5, <2>6, <2>7 DEF Health!Next, Health!Probing
  <1>3. HealthInv /\ HealthRest => Health!TypeOK
    BY Zenon DEF HealthInv, HealthTypes, HealthRest, Health!TypeOK
  <1> QED BY <1>1, <1>2, <1>3, HealthHolds, PTL DEF PartSpec

\* What the invariant of the warnings leaves out.
AlertRest ==
    /\ active \in [{"customer", "provider"} -> BOOLEAN]
    /\ after \in [Runs -> {"idle", "after"}]
    /\ Decided \subseteq {"customer", "provider"} /\ changes \in 0..MaxEvents

\* The types of the warnings.
LEMMA AlertTyped == PartSpec => []Alerts!TypeOK
  <1>0. MaxEvents \in Nat
    BY PartsAssumption DEF Alerts!AlertAssumption
  <1>1. PartInit => AlertRest
    BY <1>0 DEF PartInit, Alerts!Init, Alerts!Subjects, AlertRest, Decided
  <1>2. AlertInv /\ AlertRest
            /\ [PartNext]_<<part, vars, healthVars, alertVars, costVars, pushVars, accessVars>>
            => AlertRest'
    <2> SUFFICES ASSUME AlertInv, AlertRest, [Alerts!Next]_alertVars PROVE AlertRest'
      BY AlertAlone
    <2>1. CASE Alerts!WatchUserBalances \/ Alerts!applyUserBalance \/ Alerts!SaveFails
               \/ Alerts!HandleUserBalanceAlert
      BY <1>0, <2>1 DEF Alerts!WatchUserBalances, Alerts!applyUserBalance, Alerts!SaveFails,
             Alerts!HandleUserBalanceAlert, Alerts!outside, Alerts!sync, Alerts!history,
             AlertRest, Decided
    <2>2. ASSUME NEW r \in Runs, Alerts!SyncBalance(r) \/ Alerts!HandleSyncOutcome(r)
          PROVE  AlertRest'
      BY <2>2 DEF Alerts!SyncBalance, Alerts!HandleSyncOutcome, Alerts!Put, Alerts!outside,
             Alerts!history, AlertRest, Decided
    <2>3. ASSUME NEW s \in {"customer", "provider"}, Alerts!Send(s) PROVE AlertRest'
      BY <1>0, <2>3 DEF Alerts!Send, Alerts!outside, Alerts!sync, AlertRest, Decided
    <2>4. CASE Alerts!People
      <3>1. active' \in [{"customer", "provider"} -> BOOLEAN]
        BY <2>4 DEF Alerts!People, Alerts!Put, Alerts!Subjects, AlertRest
      <3>2. after' = after /\ Decided' = Decided /\ changes' \in 0..MaxEvents
        BY <1>0, <2>4 DEF Alerts!People, Alerts!sync, Alerts!history, AlertRest, Decided
      <3> QED BY <3>1, <3>2 DEF AlertRest
    <2>5. CASE Alerts!Tick \/ Alerts!Crash
      <3>1. /\ active' = active /\ after' \in [Runs -> {"idle", "after"}]
            /\ Decided' \subseteq {"customer", "provider"}
        BY <2>5 DEF Alerts!Tick, Alerts!Crash, Alerts!outside, AlertRest, Decided
      <3>2. changes' \in 0..MaxEvents
        <4>1. changes' = changes \/ (changes < MaxEvents /\ changes' = changes + 1)
          BY <2>5 DEF Alerts!Tick, Alerts!Crash
        <4> QED BY <1>0, <4>1 DEF AlertRest
      <3> QED BY <3>1, <3>2 DEF AlertRest
    <2>6. CASE UNCHANGED alertVars
      BY <2>6 DEF alertVars, AlertRest, Decided
    <2> QED BY <2>1, <2>2, <2>3, <2>4, <2>5, <2>6
            DEF Alerts!Next, Alerts!Work, Alerts!Subjects
  <1>3. AlertInv /\ AlertRest => Alerts!TypeOK
    BY DEF AlertInv, AlertTypes, AlertRest, Decided, Alerts!TypeOK, Alerts!Subjects
  <1> QED BY <1>1, <1>2, <1>3, AlertsHold, PTL DEF PartSpec

\* An account at most is found for a key.
GoodMatch(m) == \A k \in Keys : m[k] \subseteq Accounts /\ Costs!Cardinality(m[k]) <= 1
MatchOf(r) ==
    \/ costRun[r] = Costs!NoRun
    \/ costRun[r].pc # "idle" /\ GoodMatch(costRun[r].match)

\* None, or the one of two that are the same, is one at most.
LEMMA AtMostOne ==
    ASSUME NEW S, \A a, b \in S : a = b
    PROVE  Costs!Cardinality(S) <= 1
  <1>1. Costs!Cardinality(S) = Cardinality(S)
    BY DEF Costs!Cardinality, Cardinality
  <1>2. CASE S = {}
    BY <1>1, <1>2, FS_EmptySet
  <1>3. CASE S # {}
    <2>1. PICK a \in S : S = {a}
      BY <1>3
    <2>2. Cardinality({a}) = 1
      BY FS_Singleton
    <2> QED BY <1>1, <2>1, <2>2
  <1> QED BY <1>2, <1>3

\* What the search finds for a key, by its fingerprint or by its name.
LEMMA FindsOne ==
    ASSUME NEW k \in Keys, NEW known, NEW accounts
    PROVE  /\ Costs!matchCostAccount(k, known, accounts) \subseteq Accounts
           /\ Costs!Cardinality(Costs!matchCostAccount(k, known, accounts)) <= 1
  <1>0. k # Costs!NoKey
    BY PartsAssumption DEF Costs!CostAssumption
  <1> DEFINE U == Costs!uniqueAccountFingerprints(accounts)
             m == Costs!matchCostAccount(k, known, accounts)
             S == {a \in U : accounts[a] = k}
             N == {a \in U : Named[a] = k}
  <1>1. U \subseteq Accounts
    BY DEF Costs!uniqueAccountFingerprints
  <1>2. CASE m = S
    <2>1. \A a, b \in S : a = b
      BY <1>0 DEF Costs!uniqueAccountFingerprints
    <2>2. Costs!Cardinality(S) <= 1
      <3> HIDE DEF S
      <3> QED BY <2>1, AtMostOne
    <2>3. S \subseteq Accounts
      BY <1>1
    <2> HIDE DEF S, U
    <2> QED BY <1>2, <2>2, <2>3
  <1>3. CASE m = Costs!Unique(N)
    <2> HIDE DEF U
    <2>1. N \subseteq Accounts
      BY <1>1
    <2>2. Costs!Cardinality({}) <= 1
      BY AtMostOne
    <2> HIDE DEF N
    <2>3. Costs!Unique(N) \subseteq Accounts /\ Costs!Cardinality(Costs!Unique(N)) <= 1
      BY <2>1, <2>2 DEF Costs!Unique
    <2> QED BY <1>3, <2>3
  <1> QED BY <1>2, <1>3 DEF Costs!matchCostAccount, Costs!matchByName

\* What the invariant of the costs leaves out.
CostRest ==
    /\ holds \in [Accounts -> Keys \cup {Costs!NoKey}]
    /\ \A k \in Keys : keyMap[k].account \subseteq Accounts /\ keyMap[k].fingerprint \in BOOLEAN
    /\ costState \in [synced : BOOLEAN, backfilled : BOOLEAN]
    /\ \A r \in Runs : MatchOf(r)
    /\ happenings \in 0..MaxEvents

\* A run moves to where it has ended or has found an account at most for each key.
LEMMA RunTyped ==
    ASSUME CostInv, CostRest, NEW r \in Runs, NEW x, Costs!Set(r, x),
           x = Costs!NoRun \/ (x.pc # "idle" /\ GoodMatch(x.match))
    PROVE  \A q \in Runs : MatchOf(q)'
  <1>1. costRun'[r] = x /\ \A q \in Runs \ {r} : costRun'[q] = costRun[q]
    BY OneActs
  <1>2. ASSUME NEW q \in Runs, costRun'[q] = costRun[q] PROVE MatchOf(q)'
    BY <1>2 DEF CostRest, MatchOf
  <1>3. MatchOf(r)'
    BY <1>1 DEF MatchOf
  <1> QED BY <1>1, <1>2, <1>3

\* At first no account is found for any key.
LEMMA NoneFound == GoodMatch(Costs!NewRun.match) /\ Costs!NewRun.pc = "fetch"
  <1>1. Costs!Cardinality({}) <= 1
    BY AtMostOne
  <1> QED BY <1>1 DEF GoodMatch, Costs!NewRun

\* The steps of a run.
LEMMA RunsTyped ==
    ASSUME CostInv, CostRest, NEW r \in Runs, Costs!Step(r)
    PROVE  \A q \in Runs : MatchOf(q)'
  <1>1. CASE Costs!SyncCost(r) \/ Costs!WriteCosts(r)
    <2>1. PICK x : /\ Costs!Set(r, x) /\ x.match = Costs!NewRun.match
                   /\ x.pc \in {"fetch", "page", "state"}
      <3>1. CASE Costs!SyncCost(r)
        <4>1. PICK b : Costs!Set(r, [Costs!NewRun EXCEPT !.accounts = holds, !.back = b,
                                         !.began = IF b THEN day ELSE 0])
          BY <3>1 DEF Costs!SyncCost
        <4> DEFINE x == [Costs!NewRun EXCEPT !.accounts = holds, !.back = b,
                                         !.began = IF b THEN day ELSE 0]
        <4>2. x.match = Costs!NewRun.match /\ x.pc = "fetch"
          BY DEF Costs!NewRun
        <4> HIDE DEF x
        <4>3. Costs!Set(r, x)
          BY <4>1 DEF x
        <4> QED BY <4>2, <4>3
      <3>2. CASE Costs!WriteCosts(r)
        <4> DEFINE y == [Costs!NewRun EXCEPT !.pc = "page", !.began = costRun[r].began,
                            !.left = IF kindOfSite = "sub2api" THEN Keys ELSE 0..day]
                   z == [Costs!NewRun EXCEPT !.pc = "state", !.failed = costRun[r].failed]
        <4>1. /\ y.match = Costs!NewRun.match /\ y.pc = "page"
              /\ z.match = Costs!NewRun.match /\ z.pc = "state"
          BY DEF Costs!NewRun
        <4>2. Costs!Set(r, y) \/ Costs!Set(r, z)
          BY <3>2 DEF Costs!WriteCosts
        <4> HIDE DEF y, z
        <4> QED BY <4>1, <4>2
      <3> QED BY <1>1, <3>1, <3>2
    <2>2. x.pc # "idle" /\ GoodMatch(x.match)
      BY <2>1, NoneFound
    <2> QED BY <2>1, <2>2, RunTyped
  <1>2. CASE \/ Costs!FetchFails(r) \/ Costs!WriteFails(r) \/ Costs!SaveSyncState(r)
             \/ Costs!SaveFails(r)
    <2>1. Costs!Set(r, Costs!NoRun)
      BY <1>2 DEF Costs!FetchFails, Costs!WriteFails, Costs!SaveSyncState, Costs!SaveFails
    <2> QED BY <2>1, RunTyped
  <1>3. ASSUME costRun[r].pc # "idle" PROVE DOMAIN costRun[r] = Fields /\ GoodMatch(costRun[r].match)
    <2>1. costRun[r] # Costs!NoRun
      BY <1>3 DEF Costs!NoRun
    <2> QED BY <1>3, <2>1, AllFields DEF CostRest, MatchOf
  <1>4. CASE Costs!MatchKeys(r)
    <2>1. PICK stored \in {Costs!StoredKeys, {}} :
             LET known == Costs!Fingerprinted(r, stored) IN
             Costs!Set(r, [costRun[r] EXCEPT
                !.pc = "map", !.known = known, !.sure = costRun[r].plain \cup stored,
                !.date = day,
                !.match = [k \in Keys |->
                              Costs!matchCostAccount(k, k \in known, costRun[r].accounts)]])
      BY <1>4 DEF Costs!MatchKeys
    <2> DEFINE known == Costs!Fingerprinted(r, stored)
               m == [k \in Keys |-> Costs!matchCostAccount(k, k \in known, costRun[r].accounts)]
               x == [costRun[r] EXCEPT !.pc = "map", !.known = known,
                        !.sure = costRun[r].plain \cup stored, !.date = day, !.match = m]
    <2>2. GoodMatch(m)
      BY FindsOne DEF GoodMatch
    <2> HIDE DEF m, known
    <2>3. DOMAIN costRun[r] = Fields
      BY <1>3, <1>4 DEF Costs!MatchKeys
    <2>4. x.pc = "map" /\ x.match = m
      BY <2>3 DEF Fields
    <2> HIDE DEF x
    <2>5. Costs!Set(r, x)
      BY <2>1 DEF x, m, known
    <2> QED BY <2>2, <2>4, <2>5, RunTyped
  <1>5. CASE Costs!UpsertMappings(r)
    <2> DEFINE x == [costRun[r] EXCEPT !.pc = "costs", !.plain = {}, !.known = {}, !.sure = {},
                        !.match = Costs!NewRun.match, !.accounts = Costs!NewRun.accounts,
                        !.moved = FALSE]
    <2>1. DOMAIN costRun[r] = Fields
      BY <1>3, <1>5 DEF Costs!UpsertMappings
    <2>2. x.pc = "costs" /\ x.match = Costs!NewRun.match
      BY <2>1 DEF Fields
    <2> HIDE DEF x
    <2>3. Costs!Set(r, x)
      BY <1>5 DEF Costs!UpsertMappings, x
    <2> QED BY <2>2, <2>3, NoneFound, RunTyped
  <1>6. CASE \/ Costs!fetchKeysAndUsage(r) \/ Costs!FetchPage(r) \/ Costs!PageFails(r)
             \/ Costs!WritePage(r)
    <2>1. DOMAIN costRun[r] = Fields /\ GoodMatch(costRun[r].match)
      BY <1>3, <1>6 DEF Costs!fetchKeysAndUsage, Costs!FetchPage, Costs!PageFails, Costs!WritePage
    <2>2. PICK x : /\ Costs!Set(r, x) /\ x.match = costRun[r].match
                   /\ x.pc \in {"match", "write", "page"}
      <3>1. CASE Costs!fetchKeysAndUsage(r)
        <4>1. PICK S, P : Costs!Set(r, [costRun[r] EXCEPT
                !.pc = "match", !.read = day, !.failed = S # Keys,
                !.amounts = [k \in S |-> Costs!Fetched(k)],
                !.plain = IF kindOfSite = "sub2api" THEN Keys ELSE P])
          BY <3>1 DEF Costs!fetchKeysAndUsage
        <4> DEFINE x == [costRun[r] EXCEPT !.pc = "match", !.read = day, !.failed = S # Keys,
                            !.amounts = [k \in S |-> Costs!Fetched(k)],
                            !.plain = IF kindOfSite = "sub2api" THEN Keys ELSE P]
        <4>2. x.match = costRun[r].match /\ x.pc = "match"
          BY <2>1 DEF Fields
        <4> HIDE DEF x
        <4>3. Costs!Set(r, x)
          BY <4>1 DEF x
        <4> QED BY <4>2, <4>3
      <3>2. CASE Costs!FetchPage(r)
        <4>1. PICK i : Costs!Set(r, [costRun[r] EXCEPT !.pc = "write", !.left = @ \ {i},
                                        !.page = Costs!Page(i), !.read = day])
          BY <3>2 DEF Costs!FetchPage
        <4> DEFINE x == [costRun[r] EXCEPT !.pc = "write", !.left = @ \ {i},
                                        !.page = Costs!Page(i), !.read = day]
        <4>2. x.match = costRun[r].match /\ x.pc = "write"
          BY <2>1 DEF Fields
        <4> HIDE DEF x
        <4>3. Costs!Set(r, x)
          BY <4>1 DEF x
        <4> QED BY <4>2, <4>3
      <3>3. CASE Costs!PageFails(r)
        <4>1. PICK i : Costs!Set(r, [costRun[r] EXCEPT !.errors = TRUE,
                        !.left = IF kindOfSite = "sub2api" THEN @ \ {i} ELSE {}])
          BY <3>3 DEF Costs!PageFails
        <4> DEFINE x == [costRun[r] EXCEPT !.errors = TRUE,
                        !.left = IF kindOfSite = "sub2api" THEN @ \ {i} ELSE {}]
        <4>2. x.match = costRun[r].match /\ x.pc = "page"
          BY <2>1, <3>3 DEF Fields, Costs!PageFails
        <4> HIDE DEF x
        <4>3. Costs!Set(r, x)
          BY <4>1 DEF x
        <4> QED BY <4>2, <4>3
      <3>4. CASE Costs!WritePage(r)
        <4> DEFINE y == [costRun[r] EXCEPT !.pc = "page", !.page = {}]
                   z == [costRun[r] EXCEPT !.pc = "page", !.page = {}, !.left = {},
                            !.errors = TRUE]
        <4>1. /\ y.match = costRun[r].match /\ y.pc = "page"
              /\ z.match = costRun[r].match /\ z.pc = "page"
          BY <2>1 DEF Fields
        <4> HIDE DEF y, z
        <4>2. Costs!Set(r, y) \/ Costs!Set(r, z)
          BY <3>4 DEF Costs!WritePage, y, z
        <4> QED BY <4>1, <4>2
      <3> QED BY <1>6, <3>1, <3>2, <3>3, <3>4
    <2>3. x.pc # "idle" /\ GoodMatch(x.match)
      BY <2>1, <2>2
    <2> QED BY <2>2, <2>3, RunTyped
  <1> QED BY <1>1, <1>2, <1>4, <1>5, <1>6 DEF Costs!Step

\* A row of the table of keys holds what a run found.
LEMMA MapTyped ==
    ASSUME CostRest, NEW r \in Runs, Costs!UpsertMappings(r), NEW k \in Keys
    PROVE  keyMap'[k].account \subseteq Accounts /\ keyMap'[k].fingerprint \in BOOLEAN
  <1>1. keyMap' = [j \in Keys |-> [fingerprint |-> keyMap[j].fingerprint
                                                     \/ j \in costRun[r].known,
                                   account |-> costRun[r].match[j]]]
        /\ costRun[r].pc = "map"
    BY DEF Costs!UpsertMappings
  <1>2. keyMap'[k] = [fingerprint |-> keyMap[k].fingerprint \/ k \in costRun[r].known,
                      account |-> costRun[r].match[k]]
    BY <1>1
  <1>3. costRun[r] # Costs!NoRun
    BY <1>1 DEF Costs!NoRun
  <1>4. costRun[r].match[k] \subseteq Accounts
    BY <1>3 DEF CostRest, MatchOf, GoodMatch
  <1>5. (keyMap[k].fingerprint \/ k \in costRun[r].known) \in BOOLEAN
    BY Zenon DEF CostRest
  <1> QED BY <1>2, <1>4, <1>5

\* The types of the costs.
LEMMA CostTyped == PartSpec => []Costs!TypeOK
  <1>0. MaxEvents \in Nat /\ LastDay \in Nat
    BY PartsAssumption DEF Costs!CostAssumption
  <1>1. PartInit => CostRest
    <2> SUFFICES ASSUME Costs!Init PROVE CostRest
      BY DEF PartInit
    <2>1. holds \in [Accounts -> Keys \cup {Costs!NoKey}]
      BY PartsAssumption DEF Costs!Init, Costs!CostAssumption
    <2>2. \A k \in Keys : keyMap[k].account \subseteq Accounts /\ keyMap[k].fingerprint \in BOOLEAN
      BY DEF Costs!Init
    <2>3. \A r \in Runs : MatchOf(r)
      BY DEF Costs!Init, MatchOf
    <2>4. costState \in [synced : BOOLEAN, backfilled : BOOLEAN] /\ happenings = 0
      BY DEF Costs!Init
    <2>5. happenings \in 0..MaxEvents
      BY <1>0, <2>4
    <2> QED BY <2>1, <2>2, <2>3, <2>4, <2>5 DEF CostRest
  <1>2. CostInv /\ CostRest
            /\ [PartNext]_<<part, vars, healthVars, alertVars, costVars, pushVars, accessVars>>
            => CostRest'
    <2> SUFFICES ASSUME CostInv, CostRest, [Costs!Next]_(Costs!vars) PROVE CostRest'
      BY CostAlone
    <2> DEFINE Mapped == \A k \in Keys : /\ keyMap[k].account \subseteq Accounts
                                         /\ keyMap[k].fingerprint \in BOOLEAN
    <2>0. Mapped
      BY DEF CostRest
    <2>1. ASSUME NEW r \in Runs, Costs!Step(r) PROVE CostRest'
      <3>1. \A q \in Runs : MatchOf(q)'
        BY <2>1, RunsTyped
      <3>2. holds' = holds
        BY <2>1 DEF Costs!Step, Costs!SyncCost, Costs!fetchKeysAndUsage, Costs!FetchFails,
             Costs!MatchKeys, Costs!UpsertMappings, Costs!WriteCosts, Costs!WriteFails,
             Costs!FetchPage, Costs!PageFails, Costs!WritePage, Costs!SaveSyncState,
             Costs!SaveFails, Costs!outside
      <3>3. Mapped'
        <4>1. CASE Costs!UpsertMappings(r)
          BY <4>1, MapTyped
        <4>2. CASE UNCHANGED keyMap
          BY <2>0, <4>2
        <4> QED BY <2>1, <4>1, <4>2 DEF Costs!Step, Costs!SyncCost, Costs!fetchKeysAndUsage,
             Costs!FetchFails, Costs!MatchKeys, Costs!WriteCosts, Costs!WriteFails,
             Costs!FetchPage, Costs!PageFails, Costs!WritePage, Costs!SaveSyncState,
             Costs!SaveFails
      <3>4. happenings' \in 0..MaxEvents
        <4>1. happenings' = happenings \/ Costs!Event
          BY <2>1 DEF Costs!Step, Costs!SyncCost, Costs!fetchKeysAndUsage, Costs!FetchFails,
             Costs!MatchKeys, Costs!UpsertMappings, Costs!WriteCosts, Costs!WriteFails,
             Costs!FetchPage, Costs!PageFails, Costs!WritePage, Costs!SaveSyncState,
             Costs!SaveFails
        <4> QED BY <1>0, <4>1 DEF Costs!Event, CostRest
      <3>5. costState' \in [synced : BOOLEAN, backfilled : BOOLEAN]
        <4>1. CASE Costs!FetchFails(r)
          BY <4>1 DEF Costs!FetchFails, CostRest
        <4>2. CASE Costs!SaveSyncState(r)
          <5>1. (~costRun[r].failed) \in BOOLEAN
                /\ (Costs!BackfillDone(r) \/ costState.backfilled) \in BOOLEAN
            BY Zenon DEF CostRest
          <5> QED BY <4>2, <5>1 DEF Costs!SaveSyncState
        <4>3. CASE UNCHANGED costState
          BY <4>3 DEF CostRest
        <4> QED BY <2>1, <4>1, <4>2, <4>3 DEF Costs!Step, Costs!SyncCost,
             Costs!fetchKeysAndUsage, Costs!MatchKeys, Costs!UpsertMappings,
             Costs!WriteCosts, Costs!WriteFails, Costs!FetchPage, Costs!PageFails,
             Costs!WritePage, Costs!SaveFails
      <3> QED BY <3>1, <3>2, <3>3, <3>4, <3>5 DEF CostRest
    <2>2. CASE Costs!Cleanup \/ Costs!NextDay \/ \E k \in Keys : Costs!Use(k)
      <3>1. UNCHANGED <<holds, keyMap, costState, costRun>>
        BY <2>2 DEF Costs!Cleanup, Costs!NextDay, Costs!Use, Costs!outside
      <3>2. happenings' \in 0..MaxEvents
        BY <1>0, <2>2 DEF Costs!Cleanup, Costs!NextDay, Costs!Use, Costs!Event, CostRest
      <3> QED BY <3>1, <3>2 DEF CostRest, MatchOf
    <2>3. CASE Costs!Crash
      <3>1. \A q \in Runs : MatchOf(q)'
        BY <2>3 DEF Costs!Crash, MatchOf
      <3>2. UNCHANGED <<holds, keyMap, costState>> /\ happenings' \in 0..MaxEvents
        BY <1>0, <2>3 DEF Costs!Crash, Costs!Event, Costs!outside, CostRest
      <3> QED BY <3>1, <3>2 DEF CostRest
    <2>4. ASSUME NEW a \in Accounts, Costs!Rekey(a) PROVE CostRest'
      <3>1. holds' \in [Accounts -> Keys \cup {Costs!NoKey}]
        BY <2>4 DEF Costs!Rekey, CostRest
      <3>2. \A q \in Runs : MatchOf(q)'
        <4> SUFFICES ASSUME NEW q \in Runs PROVE MatchOf(q)'
          OBVIOUS
        <4>1. costRun'[q] = IF costRun[q].pc \notin {"fetch", "match", "map"} THEN costRun[q]
                            ELSE [costRun[q] EXCEPT !.moved = TRUE]
          BY <2>4 DEF Costs!Rekey
        <4>2. CASE costRun[q].pc \in {"fetch", "match", "map"}
          <5>1. DOMAIN costRun[q] = Fields /\ costRun[q] # Costs!NoRun
            BY <4>2, AllFields DEF Costs!NoRun
          <5>2. /\ costRun'[q].pc = costRun[q].pc /\ costRun'[q].match = costRun[q].match
            BY <4>1, <4>2, <5>1 DEF Fields
          <5> QED BY <5>1, <5>2 DEF CostRest, MatchOf
        <4>3. CASE costRun[q].pc \notin {"fetch", "match", "map"}
          BY <4>1, <4>3 DEF CostRest, MatchOf
        <4> QED BY <4>2, <4>3
      <3>3. UNCHANGED <<keyMap, costState>> /\ happenings' \in 0..MaxEvents
        BY <1>0, <2>4 DEF Costs!Rekey, Costs!Event, CostRest
      <3> QED BY <3>1, <3>2, <3>3 DEF CostRest
    <2>5. CASE UNCHANGED Costs!vars
      BY <2>5 DEF Costs!vars, CostRest, MatchOf
    <2> QED BY <2>1, <2>2, <2>3, <2>4, <2>5 DEF Costs!Next
  <1>3. CostInv /\ CostRest => Costs!TypeOK
    <2> SUFFICES ASSUME CostInv, CostRest PROVE Costs!TypeOK
      OBVIOUS
    <2>1. \A k \in Keys, d \in Costs!Days :
             Costs!Cardinality(costs[k][d]) <= 1 /\ spent[k][d] \in Nat
      BY AtMostOne DEF CostInv, CostTypes, OneAmount
    <2>2. \A r \in Runs :
             /\ costRun[r].pc \in {"idle", "fetch", "match", "map", "costs", "page", "write",
                                   "state"}
             /\ costRun[r] # Costs!NoRun =>
                    \A k \in Keys : Costs!Cardinality(costRun[r].match[k]) <= 1
      BY DEF CostInv, RunHolds, CostRunShape, Stages, CostRest, MatchOf, GoodMatch
    <2> QED BY <2>1, <2>2 DEF CostInv, CostTypes, CostRest, Costs!TypeOK
  <1> QED BY <1>1, <1>2, <1>3, CostsHold, PTL DEF PartSpec

(***************************************************************************)
(* The types of the settings and the pushes                                *)
(***************************************************************************)
\* Every interval of the push is one of those on offer, wherever it is.
OnOffer ==
    /\ inRows.push.interval \in Push!Intervals
    /\ \A s \in Runs : SavesOf(s, "push") => saving[s].value.interval \in Push!Intervals
    /\ clock = <<>> \/ clock[1] \in Push!Intervals
    /\ built \subseteq {"hook", "telegram"}
PushesAt ==
    /\ \A p \in {v1} : pushing[p].at \in {"idle", "token", "board", "send"}
    /\ acts \in 0..MaxEvents

\* A form that was read offers one.
LEMMA FormOnOffer ==
    ASSUME NEW form \in PushForms
    PROVE  Push!Normalized(form).interval \in Push!Intervals
  <1>1. form \in [enabled : BOOLEAN, interval : Nat, chats : Seq(STRING), excluded : SUBSET Nat]
    BY PartsAssumption DEF Push!PushAssumption
  <1> DEFINE c == Push!Clean(form.chats)
  <1> HIDE DEF c
  <1>2. [form EXCEPT !.interval = IF form.interval \in Push!Intervals THEN form.interval ELSE 60,
                     !.chats = c].interval \in Push!Intervals
    BY <1>1 DEF Push!Intervals
  <1> QED BY <1>2 DEF Push!Normalized, c

\* The channels that can be built.
LEMMA TwoChannels == \A config : Push!Built(config) \subseteq {"hook", "telegram"}
  BY DEF Push!Built

\* The entry of the push, after it was scheduled anew.
LEMMA EntryOnOffer ==
    ASSUME NEW v, v.interval \in Push!Intervals,
           clock' = IF v.enabled THEN <<v.interval>> ELSE <<>>
    PROVE  (clock = <<>> \/ clock[1] \in Push!Intervals)'
  OBVIOUS

\* A save takes an interval on offer from place to place.
LEMMA OnOfferStep ==
    ASSUME SettingsInv, OnOffer, [Push!Next]_(Push!vars)
    PROVE  OnOffer'
  <1>0. /\ DOMAIN inRows = Push!Domains /\ saving = [s \in Runs |-> saving[s]]
        /\ "push" \in Push!Domains /\ SettingsTypes /\ Push!NoPush.at = "idle"
    BY DEF SettingsInv, SettingsTypes, Push!Domains, Push!NoPush
  <1>1. ASSUME NEW s \in Runs, NEW d \in Push!Domains, NEW v, NEW g, Push!Save(s, d, v, g),
               d = "push" => v.interval \in Push!Intervals
        PROVE  OnOffer'
    <2> DEFINE x == [at |-> "set", domain |-> d, value |-> v, gives |-> g]
    <2>1. saving' = [saving EXCEPT ![s] = x] /\ UNCHANGED <<inRows, clock, built>>
      BY <1>1 DEF Push!Save
    <2>2. x.domain = d /\ x.value = v
      OBVIOUS
    <2> HIDE DEF x
    <2>3. saving'[s] = x /\ \A q \in Runs \ {s} : saving'[q] = saving[q]
      BY <1>0, <2>1
    <2> QED BY <1>1, <2>1, <2>2, <2>3 DEF OnOffer, SavesOf
  <1>2. ASSUME NEW s \in Runs, Push!SavePush(s) PROVE OnOffer'
    <2>1. PICK form \in PushForms : Push!Save(s, "push", Push!Normalized(form), FALSE)
      BY <1>2 DEF Push!SavePush
    <2> DEFINE v == Push!Normalized(form)
    <2>2. v.interval \in Push!Intervals
      BY FormOnOffer
    <2> HIDE DEF v
    <2> QED BY <1>0, <1>1, <2>1, <2>2 DEF v
  <1>3. ASSUME NEW s \in Runs, Push!SaveChannels(s) PROVE OnOffer'
    <2>1. PICK v, g : Push!Save(s, "channels", v, g)
      BY <1>3 DEF Push!SaveChannels
    <2> QED BY <1>1, <2>1 DEF Push!Domains
  <1>4. ASSUME NEW s \in Runs, NEW b \in BOOLEAN, Push!Set(s, b) PROVE OnOffer'
    <2> DEFINE d == saving[s].domain
               y == [saving[s] EXCEPT !.at = "live"]
    <2>1. /\ saving[s].at = "set"
          /\ inRows' = IF b THEN inRows ELSE [inRows EXCEPT ![d] = saving[s].value]
          /\ saving' = [saving EXCEPT ![s] = IF b THEN Push!NoPush ELSE y]
          /\ clock' = clock /\ built' = built
      BY <1>4 DEF Push!Set
    <2>2. /\ DOMAIN saving[s] = SaveFields /\ d \in Push!Domains
          /\ \A e \in Push!Domains : SavesOf(s, e) <=> e = d
      BY <2>1, OwnDomain
    <2>3. y.at = "live" /\ y.domain = d /\ y.value = saving[s].value
      BY <2>2 DEF SaveFields
    <2> HIDE DEF y, d
    <2>4. /\ \A q \in Runs \ {s} : saving'[q] = saving[q]
          /\ saving'[s] = IF b THEN Push!NoPush ELSE y
      BY <1>0, <2>1
    <2>5. inRows'["push"] = inRows["push"] \/ (d = "push" /\ inRows'["push"] = saving[s].value)
      BY <1>0, <2>1, <2>2
    <2>6. d = "push" => saving[s].value.interval \in Push!Intervals
      BY <1>0, <2>2 DEF OnOffer
    <2>7. inRows'.push.interval \in Push!Intervals
      BY <2>5, <2>6 DEF OnOffer
    <2>8. ASSUME NEW q \in Runs, SavesOf(q, "push")'
          PROVE  saving'[q].value.interval \in Push!Intervals
      <3>1. CASE q = s
        BY <1>0, <2>3, <2>4, <2>6, <2>8, <3>1 DEF SavesOf
      <3>2. CASE q # s
        BY <2>4, <2>8, <3>2 DEF SavesOf, OnOffer
      <3> QED BY <3>1, <3>2
    <2>9. (clock = <<>> \/ clock[1] \in Push!Intervals)' /\ built' \subseteq {"hook", "telegram"}
      BY <2>1 DEF OnOffer
    <2> QED BY <2>7, <2>8, <2>9 DEF OnOffer
  <1>5. ASSUME NEW s \in Runs, Push!SetLive(s) PROVE OnOffer'
    <2> DEFINE y == [saving[s] EXCEPT !.at = "call"]
    <2>1. /\ saving[s].at = "live" /\ saving' = [saving EXCEPT ![s] = y]
          /\ UNCHANGED <<inRows, clock, built>>
      BY <1>5 DEF Push!SetLive
    <2>2. DOMAIN saving[s] = SaveFields
      BY <2>1, OwnDomain
    <2>3. y.at = "call" /\ y.domain = saving[s].domain /\ y.value = saving[s].value
      BY <2>2 DEF SaveFields
    <2> HIDE DEF y
    <2>4. saving'[s] = y /\ \A q \in Runs \ {s} : saving'[q] = saving[q]
      BY <1>0, <2>1
    <2>5. ASSUME NEW q \in Runs, SavesOf(q, "push")'
          PROVE  saving'[q].value.interval \in Push!Intervals
      <3>1. CASE q = s
        BY <2>1, <2>3, <2>4, <2>5, <3>1 DEF SavesOf, OnOffer
      <3>2. CASE q # s
        BY <2>4, <2>5, <3>2 DEF SavesOf, OnOffer
      <3> QED BY <3>1, <3>2
    <2> QED BY <2>1, <2>5 DEF OnOffer
  <1>6. ASSUME NEW s \in Runs, Push!Call(s) PROVE OnOffer'
    <2> DEFINE v == saving[s].value
    <2>1. /\ saving[s].at = "call" /\ inRows' = inRows
          /\ saving' = [saving EXCEPT ![s] = Push!NoPush]
          /\ \/ saving[s].domain = "push" /\ clock' = Push!Rescheduled(clock, v) /\ built' = built
             \/ built' = Push!Built(v) /\ clock' = clock
      BY <1>6 DEF Push!Call
    <2>2. \A q \in Runs : SavesOf(q, "push")' => SavesOf(q, "push") /\ saving'[q] = saving[q]
      BY <1>0, <2>1 DEF SavesOf
    <2>3. saving[s].domain = "push" => v.interval \in Push!Intervals
      BY <2>1 DEF SavesOf, OnOffer
    <2> HIDE DEF v
    <2>4. (clock = <<>> \/ clock[1] \in Push!Intervals)'
      <3>1. CASE saving[s].domain = "push" /\ clock' = Push!Rescheduled(clock, v)
        <4>1. clock' = IF v.enabled THEN <<v.interval>> ELSE <<>>
          BY <1>0, <3>1, OneEntry
        <4> QED BY <2>3, <3>1, <4>1, EntryOnOffer
      <3>2. CASE clock' = clock
        BY <3>2 DEF OnOffer
      <3> QED BY <2>1, <3>1, <3>2
    <2>5. built' \subseteq {"hook", "telegram"}
      BY <2>1, TwoChannels DEF OnOffer
    <2> QED BY <2>1, <2>2, <2>4, <2>5 DEF OnOffer
  <1>7. CASE Push!Restart
    <2> DEFINE v == inRows.push
    <2>1. /\ inRows' = inRows /\ saving' = [s \in Runs |-> Push!NoPush]
          /\ clock' = Push!Rescheduled(<<>>, v) /\ built' = Push!Built(inRows.channels)
      BY <1>7 DEF Push!Restart
    <2>2. \A q \in Runs : ~SavesOf(q, "push")'
      BY <1>0, <2>1 DEF SavesOf
    <2>3. v.interval \in Push!Intervals
      BY DEF OnOffer
    <2> HIDE DEF v
    <2>4. clock' = IF v.enabled THEN <<v.interval>> ELSE <<>>
      BY <1>0, <2>1, OneEntry
    <2>5. (clock = <<>> \/ clock[1] \in Push!Intervals)'
      BY <2>3, <2>4, EntryOnOffer
    <2>6. built' \subseteq {"hook", "telegram"}
      BY <2>1, TwoChannels
    <2> QED BY <2>1, <2>2, <2>5, <2>6 DEF OnOffer
  <1>8. ASSUME UNCHANGED <<inRows, saving, clock, built>> PROVE OnOffer'
    BY <1>8 DEF OnOffer, SavesOf
  <1>9. ASSUME NEW p \in {v1}, NEW b \in BOOLEAN, Push!Start(p, b) \/ Push!Build(p, b)
        PROVE  OnOffer'
    BY <1>8, <1>9 DEF Push!Start, Push!Build
  <1>10. ASSUME NEW p \in {v1}, Push!CheckToken(p) \/ \E a \in Push!Answers : Push!Send(p, a)
         PROVE  OnOffer'
    BY <1>8, <1>10 DEF Push!CheckToken, Push!Send
  <1>11. CASE UNCHANGED Push!vars
    <2>1. UNCHANGED <<inRows, saving, clock, built>>
      BY <1>11 DEF Push!vars
    <2> QED BY <1>8, <2>1
  <1> QED BY <1>2, <1>3, <1>4, <1>5, <1>6, <1>7, <1>9, <1>10, <1>11 DEF Push!Next

\* A push is at one of its places, and what happens is counted.
LEMMA PushesAtStep ==
    ASSUME PushInv, PushesAt, [Push!Next]_(Push!vars)
    PROVE  PushesAt'
  <1>0. /\ MaxEvents \in Nat /\ pushing = [p \in {v1} |-> pushing[p]]
        /\ Push!NoPush.at = "idle"
    BY PartsAssumption DEF Push!PushAssumption, PushInv, PushGood, Push!NoPush
  <1>1. ASSUME acts' = acts \/ (acts < MaxEvents /\ acts' = acts + 1) PROVE acts' \in 0..MaxEvents
    BY <1>0, <1>1 DEF PushesAt
  <1>2. ASSUME pushing' = pushing, acts' = acts \/ (acts < MaxEvents /\ acts' = acts + 1)
        PROVE  PushesAt'
    BY <1>1, <1>2 DEF PushesAt
  <1>3. ASSUME NEW p \in {v1}, NEW r, r.at \in {"idle", "token", "board", "send"},
               Push!Goes(p, r), acts' = acts \/ (acts < MaxEvents /\ acts' = acts + 1)
        PROVE  PushesAt'
    <2>1. pushing'[p] = r
      BY <1>0, <1>3 DEF Push!Goes
    <2>2. acts' \in 0..MaxEvents
      BY <1>1, <1>3
    <2> QED BY <1>3, <2>1, <2>2 DEF PushesAt
  <1>4. ASSUME NEW s \in Runs,
               Push!SavePush(s) \/ Push!SaveChannels(s) \/ Push!SetLive(s) \/ Push!Call(s)
        PROVE  PushesAt'
    <2>1. pushing' = pushing /\ (acts' = acts \/ (acts < MaxEvents /\ acts' = acts + 1))
      BY <1>4 DEF Push!SavePush, Push!SaveChannels, Push!Save, Push!SetLive, Push!Call
    <2> QED BY <1>2, <2>1
  <1>5. ASSUME NEW s \in Runs, NEW b \in BOOLEAN, Push!Set(s, b) PROVE PushesAt'
    BY <1>2, <1>5 DEF Push!Set
  <1>6. ASSUME Push!Restart PROVE PushesAt'
    <2>1. /\ acts < MaxEvents /\ acts' = acts + 1
          /\ \A p \in {v1} : pushing'[p] = Push!NoPush
      BY <1>6 DEF Push!Restart
    <2>2. acts' \in 0..MaxEvents
      BY <1>1, <2>1
    <2> QED BY <1>0, <2>1, <2>2 DEF PushesAt
  <1>7. ASSUME NEW p \in {v1}, NEW b \in BOOLEAN, Push!Start(p, b) PROVE PushesAt'
    <2> DEFINE r == [at |-> "token", settings |-> inMemory.push, byTimer |-> b]
    <2>1. Push!Goes(p, r) /\ acts < MaxEvents /\ acts' = acts + 1
      BY <1>7 DEF Push!Start
    <2>2. r.at = "token"
      OBVIOUS
    <2> HIDE DEF r
    <2> QED BY <1>3, <2>1, <2>2
  <1>8. ASSUME NEW p \in {v1}, Push!CheckToken(p) PROVE PushesAt'
    <2> DEFINE r == [at |-> "board", settings |-> pushing[p].settings,
                     byTimer |-> pushing[p].byTimer]
    <2>1. acts' = acts /\ (Push!Goes(p, Push!NoPush) \/ Push!Goes(p, r))
      BY <1>8 DEF Push!CheckToken, Push!Record
    <2>2. r.at = "board"
      OBVIOUS
    <2> HIDE DEF r
    <2> QED BY <1>0, <1>3, <2>1, <2>2
  <1>9. ASSUME NEW p \in {v1}, NEW b \in BOOLEAN, Push!Build(p, b) PROVE PushesAt'
    <2> DEFINE r == [at |-> "send", settings |-> pushing[p].settings,
                     byTimer |-> pushing[p].byTimer,
                     board |-> Push!Board(Groups, window, pushing[p].settings.excluded),
                     reached |-> <<>>, failed |-> <<>>]
    <2>1. acts' = acts /\ (Push!Goes(p, Push!NoPush) \/ Push!Goes(p, r))
      BY <1>9 DEF Push!Build, Push!Record
    <2>2. r.at = "send"
      OBVIOUS
    <2> HIDE DEF r
    <2> QED BY <1>0, <1>3, <2>1, <2>2
  <1>10. ASSUME NEW p \in {v1}, NEW a \in Push!Answers, Push!Send(p, a) PROVE PushesAt'
    <2> DEFINE r == pushing[p]
               chat == r.settings.chats[Len(r.reached) + Len(r.failed) + 1]
               y == [r EXCEPT !.reached = Append(@, chat)]
               z == [r EXCEPT !.failed = Append(@, chat)]
    <2>1. /\ r.at = "send" /\ acts' = acts
          /\ Push!Goes(p, Push!NoPush) \/ Push!Goes(p, y) \/ Push!Goes(p, z)
      BY <1>10 DEF Push!Send, Push!Record
    <2>2. DOMAIN r = PushFields
      BY <2>1 DEF PushInv, PushGood, Underway
    <2> HIDE DEF chat
    <2>3. y.at = "send" /\ z.at = "send"
      BY <2>1, <2>2 DEF PushFields
    <2> HIDE DEF r, y, z
    <2> QED BY <1>0, <1>3, <2>1, <2>3
  <1>11. ASSUME UNCHANGED Push!vars PROVE PushesAt'
    <2>1. pushing' = pushing /\ acts' = acts
      BY <1>11 DEF Push!vars
    <2> QED BY <1>2, <2>1
  <1>12. ASSUME Push!Next PROVE PushesAt'
    <2>1. \/ \E s \in Runs : Push!SavePush(s) \/ Push!SaveChannels(s)
                            \/ Push!SetLive(s) \/ Push!Call(s)
          \/ \E s \in Runs, b \in BOOLEAN : Push!Set(s, b)
          \/ Push!Restart
          \/ \E p \in {v1}, b \in BOOLEAN : Push!Start(p, b) \/ Push!Build(p, b)
          \/ \E p \in {v1} : Push!CheckToken(p)
          \/ \E p \in {v1}, a \in Push!Answers : Push!Send(p, a)
      BY <1>12 DEF Push!Next
    <2> QED BY <1>4, <1>5, <1>6, <1>7, <1>8, <1>9, <1>10, <2>1
  <1> QED BY <1>11, <1>12

\* The types of the settings and the pushes.
LEMMA PushTyped == PartSpec => []Push!TypeOK
  <1>1. PartInit => OnOffer /\ PushesAt
    <2> SUFFICES ASSUME Push!Init PROVE OnOffer /\ PushesAt
      BY DEF PartInit
    <2>1. /\ inRows = Push!Defaults /\ clock = <<>> /\ built = {} /\ acts = 0
          /\ saving = [s \in Runs |-> Push!NoPush] /\ pushing = [p \in {v1} |-> Push!NoPush]
      BY DEF Push!Init
    <2>2. Push!Defaults.push.interval = 60 /\ Push!NoPush.at = "idle" /\ 60 \in Push!Intervals
      BY DEF Push!Defaults, Push!NoPush, Push!Intervals
    <2>3. MaxEvents \in Nat
      BY PartsAssumption DEF Push!PushAssumption
    <2> QED BY <2>1, <2>2, <2>3 DEF OnOffer, PushesAt, SavesOf
  <1>2. PushInv /\ OnOffer /\ PushesAt
            /\ [PartNext]_<<part, vars, healthVars, alertVars, costVars, pushVars, accessVars>>
            => OnOffer' /\ PushesAt'
    BY PushAlone, OnOfferStep, PushesAtStep DEF PushInv
  <1>3. PushInv /\ OnOffer /\ PushesAt => Push!TypeOK
    <2> SUFFICES ASSUME PushInv, OnOffer, PushesAt PROVE Push!TypeOK
      OBVIOUS
    <2>1. Push!ToSet(clock) \subseteq Push!Intervals
      <3>1. CASE clock = <<>>
        BY <3>1 DEF Push!ToSet
      <3>2. CASE clock = <<clock[1]>> /\ clock # <<>>
        <4>1. clock[1] \in Push!Intervals
          BY <3>2 DEF OnOffer
        <4>2. DOMAIN clock = {1}
          BY <3>2
        <4> QED BY <4>1, <4>2 DEF Push!ToSet
      <3> QED BY <3>1, <3>2 DEF PushInv, SettingsInv, SettingsTypes
    <2>2. \A s \in Runs : saving[s].at \in {"idle", "set", "live", "call"}
      BY DEF PushInv, SettingsInv, SettingsTypes
    <2> QED BY <2>1, <2>2 DEF PushInv, SettingsInv, SettingsTypes, OnOffer, PushesAt, Push!TypeOK
  <1> QED BY <1>1, <1>2, <1>3, PushHolds, PTL DEF PartSpec

\* What the invariant of the access leaves out.
AccessRest == siteKind \in Platforms /\ modified \in 0..MaxEdits /\ shocks \in 0..MaxShocks

\* A site stays what it is, and edits and shocks are counted up to their bounds.
AccessCounts ==
    /\ siteKind' = siteKind
    /\ modified' = modified \/ (modified < MaxEdits /\ modified' = modified + 1)
    /\ shocks' = shocks \/ (shocks < MaxShocks /\ shocks' = shocks + 1)

\* So for every step of the access.
LEMMA AccessCounted ==
    ASSUME [Access!Next]_accessVars
    PROVE  AccessCounts
  <1>1. ASSUME NEW f \in Forms, Access!Submit(f) PROVE AccessCounts
    BY <1>1 DEF Access!Submit, AccessCounts
  <1>2. CASE Access!Update
    BY <1>2 DEF Access!Update, AccessCounts
  <1>3. CASE Access!UpdateFails \/ Access!Expire
    BY <1>3 DEF Access!UpdateFails, Access!Expire, Access!Event, AccessCounts
  <1>4. ASSUME NEW r \in Runs, NEW manual \in BOOLEAN, Access!Load(r, manual)
        PROVE  AccessCounts
    BY <1>4 DEF Access!Load, AccessCounts
  <1>5. ASSUME NEW r \in Runs, Access!GiveUp(r) PROVE AccessCounts
    BY <1>5 DEF Access!GiveUp, Access!Ends, Access!Calm, AccessCounts
  <1>6. ASSUME NEW r \in Runs, Access!Adopt(r) PROVE AccessCounts
    BY <1>6 DEF Access!Adopt, Access!Goes, Access!Calm, AccessCounts
  <1>7. ASSUME NEW r \in Runs, Access!AskRefresh(r) PROVE AccessCounts
    BY <1>7 DEF Access!AskRefresh, Access!Goes, Access!Ends, Access!Event, AccessCounts
  <1>8. ASSUME NEW r \in Runs, Access!Store(r) PROVE AccessCounts
    BY <1>8 DEF Access!Store, Access!Goes, Access!Calm, AccessCounts
  <1>9. ASSUME NEW r \in Runs, Access!Wipe(r) PROVE AccessCounts
    BY <1>9 DEF Access!Wipe, Access!Goes, Access!Calm, AccessCounts
  <1>10. ASSUME NEW r \in Runs, Access!LoginFails(r) PROVE AccessCounts
    BY <1>10 DEF Access!LoginFails, Access!Ends, AccessCounts
  <1>11. ASSUME NEW r \in Runs, Access!RecordRejected(r) PROVE AccessCounts
    BY <1>11 DEF Access!RecordRejected, Access!Ends, Access!Calm, AccessCounts
  <1>12. ASSUME NEW r \in Runs, Access!StoreLogin(r) PROVE AccessCounts
    BY <1>12 DEF Access!StoreLogin, Access!Goes, Access!Calm, AccessCounts
  <1>13. ASSUME NEW r \in Runs, Access!Accepted(r) PROVE AccessCounts
    BY <1>13 DEF Access!Accepted, Access!Ends, Access!Calm, AccessCounts
  <1>14. ASSUME NEW r \in Runs, Access!Refused(r) PROVE AccessCounts
    BY <1>14 DEF Access!Refused, Access!Ends, AccessCounts
  <1>15. CASE UNCHANGED accessVars
    BY <1>15 DEF accessVars, AccessCounts
  <1> QED BY <1>1, <1>2, <1>3, <1>4, <1>5, <1>6, <1>7, <1>8, <1>9, <1>10, <1>11, <1>12, <1>13,
             <1>14, <1>15 DEF Access!Next

\* The types of what a site is entered with.
LEMMA AccessTyped == PartSpec => []Access!TypeOK
  <1>0. MaxEdits \in Nat /\ MaxShocks \in Nat
    BY PartsAssumption DEF Access!AccessAssumption
  <1>1. PartInit => AccessRest
    BY <1>0 DEF PartInit, Access!Init, AccessRest
  <1>2. AccessRest
            /\ [PartNext]_<<part, vars, healthVars, alertVars, costVars, pushVars, accessVars>>
            => AccessRest'
    <2> SUFFICES ASSUME AccessRest, [Access!Next]_accessVars PROVE AccessRest'
      BY AccessAlone
    <2>1. AccessCounts
      BY AccessCounted
    <2> QED BY <1>0, <2>1 DEF AccessCounts, AccessRest
  <1>3. AccessInv /\ AccessRest => Access!TypeOK
    BY DEF AccessInv, AccessTypes, AccessRest, Access!TypeOK, Begun, Sessions, SitePlaces
  <1> QED BY <1>1, <1>2, <1>3, AccessHolds, PTL DEF PartSpec

\* Types: every part's variables hold what their columns and structures can hold, whatever the
\* interleaving of runs, edits, pushes and events.
THEOREM BackgroundTypes == PartSpec => []TypesOK
  <1>1. /\ TypeOK /\ Health!TypeOK /\ Alerts!TypeOK /\ Costs!TypeOK /\ Push!TypeOK
        /\ Access!TypeOK
        => TypesOK
    BY DEF TypesOK
  <1> QED BY <1>1, SyncTyped, HealthTyped, AlertTyped, CostTyped, PushTyped, AccessTyped, PTL
=============================================================================

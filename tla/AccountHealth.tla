--------------------------- MODULE AccountHealth ----------------------------
(***************************************************************************)
(* The health of one account (pkg/health/state_machine.go), fed by probes: *)
(* the scheduled ones and the ones an operator starts read the row, step it*)
(* and write it back (service/probe_service.go), and an operator may       *)
(* disable the account meanwhile.                                          *)
(*                                                                         *)
(* A time limit is "none", "ahead" or "past".  Runs of successes count to 2*)
(* and runs of failures to 3, which stand for more.                        *)
(***************************************************************************)
EXTENDS Naturals, FiniteSets, FiniteSetsExt

CONSTANTS
    Probes,
    Budget,      \* dailyProbeBudget
    MaxEvents    \* bound: bad answers, probes by hand, decisions, failures

HealthAssumption == Budget \in Nat \ {0} /\ MaxEvents \in Nat /\ IsFiniteSet(Probes)

VARIABLES
    row,         \* health_states
    rested,      \* has the backoff since last_probe_at passed?
    used,        \* probe_budget of the day
    told         \* history: what the last notification said

VARIABLES
    pc,
    answer,      \* the kind of answer the probe met
    was, next,   \* the state it read, and the row it is to write
    stale,       \* history: probes whose row was written after they read it
    overlapped,  \* history: two probes held rows at once
    broken,      \* history: a write or a notification was lost
    byHand,      \* history: an operator decided after what was told last
    events

vars == <<row, rested, used, told, pc, answer, was, next, stale, overlapped, broken, byHand, events>>
probeVars == <<pc, answer, was, next, stale>>

Healthy == [state |-> "healthy", failures |-> 0, successes |-> 0, weight |-> 100,
            cooldown |-> "none", observing |-> "none"]

Init ==
    /\ row = Healthy /\ rested = TRUE /\ used = 0 /\ told = "nothing"
    /\ pc = [p \in Probes |-> "idle"]
    /\ answer = [p \in Probes |-> "success"]
    /\ was = [p \in Probes |-> "healthy"]
    /\ next = [p \in Probes |-> Healthy]
    /\ stale = {} /\ overlapped = FALSE /\ broken = FALSE /\ byHand = FALSE /\ events = 0

(***************************************************************************)
(* The state machine                                                       *)
(***************************************************************************)
\* Classify.  A stream that breaks off or brings nothing comes with a status of 2xx.
Classify == [ok |-> "success", network |-> "soft", limited |-> "soft", cut |-> "soft",
         refused |-> "hard", broken |-> "hard", rejected |-> "invalid"]
Kinds == {"success", "soft", "hard", "invalid"}

Suspended(s) == [s EXCEPT !.state = "suspended", !.cooldown = "ahead", !.weight = 0]

Raised(s) ==
    IF s.weight + 25 >= 100 THEN [s EXCEPT !.weight = 100, !.state = "healthy"]
    ELSE [s EXCEPT !.weight = @ + 25]

SucceededKeepsObserving(s) ==
    IF s.state = "observing" /\ s.observing = "past" /\ s.successes >= 1
    THEN [s EXCEPT !.failures = 0, !.successes = 2, !.state = "recovering", !.weight = 25]
    ELSE IF s.state = "suspended"
         THEN [s EXCEPT !.failures = 0, !.successes = 1, !.state = "observing", !.observing = "ahead"]
         ELSE [s EXCEPT !.failures = 0, !.successes = Min({@ + 1, 2})]

Succeeded(s) ==
    LET t == [s EXCEPT !.failures = 0, !.successes = Min({@ + 1, 2})] IN
    CASE s.state = "suspended" ->
            [t EXCEPT !.state = "observing", !.observing = "ahead", !.successes = 1, !.weight = 0]
      [] s.state = "observing" ->
            IF s.observing = "past" /\ t.successes >= 2
            THEN [t EXCEPT !.state = "recovering", !.observing = "none", !.weight = 25]
            ELSE t
      [] s.state \in {"recovering", "degraded"} -> Raised(t)
      [] s.state = "healthy" -> [t EXCEPT !.weight = 100]

FailedHard(s) ==
    [Suspended(s) EXCEPT !.successes = 0, !.failures = Min({@ + 1, 3}), !.observing = "none"]

FailedSoft(s) ==
    LET t == [s EXCEPT !.successes = 0, !.failures = Min({@ + 1, 3})] IN
    CASE s.state \in {"observing", "recovering"} -> [Suspended(t) EXCEPT !.observing = "none"]
      [] s.state = "suspended"                   -> [t EXCEPT !.cooldown = "ahead"]
      [] s.state \in {"healthy", "degraded"} ->
            IF t.failures >= 3 THEN Suspended(t)
            ELSE [t EXCEPT !.state = "degraded", !.weight = IF @ < 25 THEN 0 ELSE @ - 25]

Stepped(s, kind) ==
    CASE kind = "success" -> Succeeded(s)
      [] kind = "hard"    -> FailedHard(s)
      [] kind = "soft"    -> FailedSoft(s)
      [] kind = "invalid" -> [s EXCEPT !.successes = 0]

StepHard(s, kind) == IF s.state = "disabled" /\ kind # "hard" THEN s ELSE Stepped(s, kind)

\* A disabled account answers to no probe.
Step(s, kind) == IF s.state = "disabled" THEN s ELSE Stepped(s, kind)

(***************************************************************************)
(* Probes                                                                  *)
(***************************************************************************)
Event == events < MaxEvents /\ events' = events + 1
Goto(p, l) == pc' = [pc EXCEPT ![p] = l]
Done(p) ==
    /\ Goto(p, "idle")
    /\ answer' = [answer EXCEPT ![p] = "success"]
    /\ was' = [was EXCEPT ![p] = "healthy"]
    /\ next' = [next EXCEPT ![p] = Healthy]

ProbeDueUnlessCooled ==
    /\ row.state # "disabled"
    /\ ~(row.state = "suspended" /\ row.cooldown # "none")
    /\ row.failures > 0 => rested

\* probeDue: not disabled, not cooling, and rested after failures.
ProbeDue ==
    /\ row.state # "disabled"
    /\ ~(row.state = "suspended" /\ row.cooldown = "ahead")
    /\ row.failures > 0 => rested

\* RunProbesForProvider, by the clock or asked for a whole provider.
Schedule(p) ==
    /\ pc[p] = "idle"
    /\ ProbeDue
    /\ used < Budget
    /\ used' = used + 1
    /\ Goto(p, "asking")
    /\ UNCHANGED <<row, rested, told, answer, was, next, stale, overlapped, broken, byHand, events>>

\* RunProbe of one account: at any time, and outside the budget.
ProbeByHand(p) ==
    /\ pc[p] = "idle"
    /\ Event
    /\ Goto(p, "asking")
    /\ UNCHANGED <<row, rested, used, told, answer, was, next, stale, overlapped, broken, byHand>>

\* The upstream answers, and the result is inserted.
Answered(p) ==
    /\ pc[p] = "asking"
    /\ \E a \in DOMAIN Classify :
          /\ answer' = [answer EXCEPT ![p] = Classify[a]]
          /\ IF a = "ok" THEN UNCHANGED events ELSE Event
    /\ Goto(p, "read")
    /\ UNCHANGED <<row, rested, used, told, was, next, stale, overlapped, broken, byHand>>

\* feedHealth reads the row and steps it.
ReadRow(p) ==
    /\ pc[p] = "read"
    /\ was' = [was EXCEPT ![p] = row.state]
    /\ next' = [next EXCEPT ![p] = Step(row, answer[p])]
    /\ answer' = [answer EXCEPT ![p] = "success"]
    /\ overlapped' = (overlapped \/ \E q \in Probes \ {p} : pc[q] \in {"write", "tell"})
    /\ Goto(p, "write")
    /\ UNCHANGED <<row, rested, used, told, stale, broken, byHand, events>>

NotableAtOnce(from, to) == to = "suspended" \/ (to = "healthy" /\ from = "suspended")

\* OnStateChanged tells of a suspension, and of a recovery that is one.
Notable(from, to) == to = "suspended" \/ (to = "healthy" /\ from # "degraded")

\* Upsert writes the whole row back.
WriteRow(p) ==
    /\ pc[p] = "write"
    /\ row' = next[p]
    /\ rested' = FALSE
    /\ stale' = (stale \cup {q \in Probes : pc[q] = "write"}) \ {p}
    /\ IF next[p].state # was[p]
       THEN /\ Goto(p, "tell")
            /\ byHand' = (byHand /\ ~Notable(was[p], next[p].state))
            /\ UNCHANGED <<answer, was, next>>
       ELSE Done(p) /\ UNCHANGED byHand
    /\ UNCHANGED <<used, told, overlapped, broken, events>>

\* The event, whose failure is dropped, and the notification.
Tell(p) ==
    /\ pc[p] = "tell"
    /\ told' = IF ~Notable(was[p], next[p].state) THEN told
               ELSE IF next[p].state = "suspended" THEN "down" ELSE "up"
    /\ Done(p)
    /\ UNCHANGED <<row, rested, used, stale, overlapped, broken, byHand, events>>

\* A statement of the probe fails: it goes no further.
ProbeFails(p) ==
    /\ pc[p] \in {"asking", "read", "write"}
    /\ Event
    /\ broken' = TRUE
    /\ stale' = stale \ {p}
    /\ Done(p)
    /\ UNCHANGED <<row, rested, used, told, overlapped, byHand>>

(***************************************************************************)
(* People, time and restarts                                               *)
(***************************************************************************)
\* SetHealthDisabled.
SetDisabled ==
    /\ Event
    /\ \E disabled \in BOOLEAN :
           row' = IF disabled THEN [Healthy EXCEPT !.state = "disabled", !.weight = 0] ELSE Healthy
    /\ byHand' = TRUE
    /\ stale' = {p \in Probes : pc[p] = "write"}
    /\ UNCHANGED <<rested, used, told, pc, answer, was, next, overlapped, broken>>

\* Minutes pass, and limits end; a probe holds its row for the time of a statement.
Over(limit) == IF limit = "ahead" THEN "past" ELSE limit
TimePasses(cooldown, observing, backoff) ==
    /\ \A p \in Probes : pc[p] # "write"
    /\ row' = [row EXCEPT !.cooldown = IF cooldown THEN Over(@) ELSE @,
                         !.observing = IF observing THEN Over(@) ELSE @]
    /\ rested' = (rested \/ backoff)
    /\ <<row, rested>>' # <<row, rested>>
    /\ UNCHANGED <<used, told, probeVars, overlapped, broken, byHand, events>>

\* Another day, another budget.
NextDay ==
    /\ used > 0
    /\ used' = 0
    /\ UNCHANGED <<row, rested, told, probeVars, overlapped, broken, byHand, events>>

Crash ==
    /\ \E p \in Probes : pc[p] # "idle"
    /\ Event
    /\ pc' = [p \in Probes |-> "idle"]
    /\ answer' = [p \in Probes |-> "success"]
    /\ was' = [p \in Probes |-> "healthy"]
    /\ next' = [p \in Probes |-> Healthy]
    /\ stale' = {} /\ broken' = TRUE
    /\ UNCHANGED <<row, rested, used, told, overlapped, byHand>>

Probing(p) == Answered(p) \/ ReadRow(p) \/ WriteRow(p) \/ Tell(p)

Next ==
    \/ \E p \in Probes : Schedule(p) \/ ProbeByHand(p) \/ Probing(p) \/ ProbeFails(p)
    \/ \E cooldown, observing, backoff \in BOOLEAN : TimePasses(cooldown, observing, backoff)
    \/ SetDisabled \/ NextDay \/ Crash

Spec == Init /\ [][Next]_vars

\* The clock ticks, every limit ends at last, and a probe that started runs to its end.
FairSpec ==
    /\ Spec
    /\ WF_vars(\E p \in Probes : Schedule(p) \/ Probing(p)) /\ WF_vars(used = Budget /\ NextDay)
    /\ SF_vars(TimePasses(TRUE, TRUE, TRUE))

(***************************************************************************)
(* Properties                                                              *)
(***************************************************************************)
Deadlines == {"none", "ahead", "past"}
States == {"healthy", "degraded", "suspended", "observing", "recovering", "disabled"}
Rows == [state : States, failures : 0..3, successes : 0..2, weight : 0..100,
         cooldown : Deadlines, observing : Deadlines]

TypeOK ==
    /\ row \in Rows /\ rested \in BOOLEAN /\ used \in 0..Budget
    /\ told \in {"nothing", "down", "up"}
    /\ pc \in [Probes -> {"idle", "asking", "read", "write", "tell"}]
    /\ answer \in [Probes -> Kinds] /\ was \in [Probes -> States] /\ next \in [Probes -> Rows]
    /\ stale \subseteq Probes
    /\ {overlapped, broken, byHand} \subseteq BOOLEAN /\ events \in 0..MaxEvents

\* Weight, counters and time limits fit the state, whatever led there: no traffic
\* while suspended, observed or disabled, all of it when healthy, and a way out of
\* every state that waits for a time limit.
ShapeFits ==
    CASE row.state = "healthy"    -> row.weight = 100 /\ row.failures = 0 /\ row.observing = "none"
      [] row.state = "degraded"   -> row.weight < 100 /\ row.failures < 3 /\ row.observing = "none"
      [] row.state = "suspended"  -> row.weight = 0 /\ row.failures > 0 /\ row.cooldown # "none"
                                     /\ row.observing = "none"
      [] row.state = "observing"  -> row.weight = 0 /\ row.failures = 0 /\ row.observing # "none"
      [] row.state = "recovering" -> row.weight \in {25, 50, 75} /\ row.observing = "none"
      [] row.state = "disabled"   -> row.weight = 0 /\ row.failures = 0

\* While probes do not overlap and no write is lost, what people were told last is
\* true: a suspension is told, and an account said to be down is not healthy again
\* without their being told, unless one of them made it so.
ToldIsTrue ==
    (~overlapped /\ ~broken /\ \A p \in Probes : pc[p] # "tell") =>
        /\ row.state = "suspended" => told = "down"
        /\ told = "down" => row.state # "healthy" \/ byHand

\* What the row says of itself and what people were told of it agree with its state.
HealthIsTrue == ShapeFits /\ ToldIsTrue

\* A probe takes an account out of "disabled" only if the row was written after it
\* read it.
DisabledIsKept ==
    [][\A p \in Probes : WriteRow(p) /\ row.state = "disabled" =>
          next[p].state = "disabled" \/ p \in stale]_vars

\* An account that answers again comes back to full weight, unless it is disabled.
AccountRecovers == <>[](row.state \in {"healthy", "disabled"})
=============================================================================

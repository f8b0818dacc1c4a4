----------------------------- MODULE PriceFollow -----------------------------
(***************************************************************************)
(* One own group following its upstream (service/pricing_service.go with   *)
(* repository/pricing_repo.go): an upstream change starts a goroutine that *)
(* applies the rule, an operator applies it by hand or confirms a conflict,*)
(* and both the operator and other people may edit the own group on the    *)
(* own site behind the program's back.                                     *)
(*                                                                         *)
(* A job is one run of Apply, cut at every call it makes to the store or   *)
(* to the own site.                                                        *)
(***************************************************************************)
EXTENDS PriceRule, Sequences

CONSTANTS
    Sources,       \* upstream groups
    Rules,         \* the settings an operator may save
    Rates,         \* the rates an upstream may have
    Edits,         \* the rates a person may set on the own group
    Jobs,
    MaxChanges,    \* bound: changes of upstream rates
    MaxByHand,     \* bound: what people do, and disappearances of groups
    MaxFails       \* bound: failures

PriceAssumption ==
    /\ Rates \cup Edits \subseteq Nat
    /\ Rules \subseteq [auto : BOOLEAN, mode : {"primary", "lowest", "highest", "average"},
                        primary : Sources, sources : SUBSET Sources,
                        fixed : BOOLEAN, markup : Int, threshold : Nat, min : Nat, max : Nat]
    /\ \A r \in Rules : IsFiniteSet(r.sources) /\ r.primary \in r.sources /\ r.min <= r.max
    /\ {MaxChanges, MaxByHand, MaxFails} \subseteq Nat

NoRate == -1

VARIABLES
    rates,         \* the latest upstream rates (rate_snapshots)
    gone,          \* sources whose latest row is marked deleted
    rule,          \* the rule's settings
    lastApplied,   \* last_applied_rate, NoRate when null
    conflict,      \* the conflict column
    audit,         \* rate_actions: the new rate and the status
    site           \* the own group's rate_multiplier on the own site

VARIABLES
    pc,
    byHand,        \* "auto", "manual" or "force"
    event,         \* the upstream change that started the job
    mine,          \* the row as the job read it: settings and base
    new,           \* the rate the job is to write
    saw,           \* the rate it found on the own site
    action,        \* its row of the audit
    changes, hands, fails,
    wrote,         \* history: the rate the program wrote or adopted last, NoRate before it
    since,         \* history: a person edited after the job looked
    flagged,       \* history: a conflict was found and not confirmed
    doubled        \* history: a job read the rule while another was applying it

ruleVars == <<rates, gone, rule, lastApplied, conflict, audit, site>>
jobVars  == <<pc, byHand, event, mine, new, saw, action>>
history  == <<wrote, since, flagged, doubled>>
bounds   == <<changes, hands, fails>>
vars     == <<ruleVars, jobVars, bounds, history>>

\* upstreamRates: a deleted group has no rate.
Current == [s \in Sources |-> IF s \in gone THEN NoRate ELSE rates[s]]

NoEvent == [of |-> CHOOSE s \in Sources : TRUE, old |-> NoRate, new |-> NoRate]
Row == [rule |-> rule, base |-> lastApplied]
NoRow == [rule |-> CHOOSE r \in Rules : TRUE, base |-> NoRate]

Init ==
    /\ rates \in [Sources -> Rates]
    /\ gone = {}
    /\ rule \in Rules
    /\ lastApplied = NoRate
    /\ conflict = FALSE
    /\ audit = <<>>
    /\ site \in Edits
    /\ pc = [j \in Jobs |-> "idle"]
    /\ byHand = [j \in Jobs |-> "auto"]
    /\ event = [j \in Jobs |-> NoEvent]
    /\ mine = [j \in Jobs |-> NoRow]
    /\ new = [j \in Jobs |-> NoRate]
    /\ saw = [j \in Jobs |-> NoRate]
    /\ action = [j \in Jobs |-> 0]
    /\ changes = 0 /\ hands = 0 /\ fails = 0
    /\ wrote = NoRate
    /\ since = [j \in Jobs |-> FALSE]
    /\ flagged = FALSE
    /\ doubled = FALSE

Goto(j, l) == pc' = [pc EXCEPT ![j] = l]
Done(j) ==
    /\ Goto(j, "idle")
    /\ byHand' = [byHand EXCEPT ![j] = "auto"]
    /\ event' = [event EXCEPT ![j] = NoEvent]
    /\ mine' = [mine EXCEPT ![j] = NoRow]
    /\ new' = [new EXCEPT ![j] = NoRate]
    /\ saw' = [saw EXCEPT ![j] = NoRate]
    /\ action' = [action EXCEPT ![j] = 0]
Hand == hands < MaxByHand /\ hands' = hands + 1
Fail == fails < MaxFails /\ fails' = fails + 1
Record(rate, status) == audit' = Append(audit, [new |-> rate, status |-> status])

(***************************************************************************)
(* What starts a job, and people                                           *)
(***************************************************************************)

\* A sync run sees an upstream rate change, or a group come back, records it and
\* starts the hook in a goroutine.  A change of the rate is an event.
UpstreamChanges(j) ==
    /\ changes < MaxChanges
    /\ pc[j] = "idle"
    /\ \E s \in Sources, x \in Rates :
           /\ x # rates[s] \/ s \in gone
           /\ rates' = [rates EXCEPT ![s] = x]
           /\ gone' = gone \ {s}
           /\ IF x # rates[s]
              THEN /\ event' = [event EXCEPT ![j] = [of |-> s, old |-> rates[s], new |-> x]]
                   /\ Goto(j, "match")
              ELSE UNCHANGED <<event, pc>>
    /\ changes' = changes + 1
    /\ UNCHANGED <<rule, lastApplied, conflict, audit, site,
                   byHand, mine, new, saw, action, hands, fails, history>>

\* A group is gone from its upstream: no event, whatever that does to an average.
UpstreamGone ==
    /\ Hand
    /\ \E s \in Sources \ gone : gone' = gone \cup {s}
    /\ UNCHANGED <<rates, rule, lastApplied, conflict, audit, site, jobVars, changes, fails,
                   history>>

\* ApplyRule: an operator applies the rule, perhaps by force.
ApplyByHand(j) ==
    /\ pc[j] = "idle"
    /\ Hand
    /\ \E how \in {"manual", "force"} : byHand' = [byHand EXCEPT ![j] = how]
    /\ Goto(j, "rule")
    /\ UNCHANGED <<ruleVars, event, mine, new, saw, action, changes, fails, history>>

\* SaveRule: the settings; neither the base nor the conflict.
SaveRule ==
    /\ Hand
    /\ \E r \in Rules : r # rule /\ rule' = r
    /\ UNCHANGED <<rates, gone, lastApplied, conflict, audit, site, jobVars, changes, fails,
                   history>>

\* Somebody edits the group on the own site.
PersonEdits ==
    /\ Hand
    /\ \E x \in Edits : x # site /\ site' = x
    /\ since' = [j \in Jobs |-> TRUE]
    /\ UNCHANGED <<rates, gone, rule, lastApplied, conflict, audit, jobVars, changes, fails,
                   wrote, flagged, doubled>>

\* The update that would clear the conflict and move the base sets a BOOLEAN
\* column to 0: the store refuses it, and the request fails.
ResolveUpdate == UNCHANGED <<lastApplied, conflict>>

\* ResolveConflict: the person says the site's rate is right.
ResolveConflict ==
    /\ Hand
    /\ flagged
    /\ ResolveUpdate
    /\ flagged' = FALSE
    /\ UNCHANGED <<rates, gone, rule, audit, site, jobVars, changes, fails, wrote, since, doubled>>

(***************************************************************************)
(* A job                                                                   *)
(***************************************************************************)
\* HandleUpstreamRateChanges: the rule has the source, follows automatically and is
\* not in conflict; a change beyond the threshold is left to a person.
Matches(j) == event[j].of \in rule.sources /\ rule.auto /\ ~conflict

Match(j) ==
    /\ pc[j] = "match"
    /\ LET far == ThresholdExceeded(rule, event[j].old, event[j].new)
       IN  /\ IF Matches(j) /\ ~far
              THEN Goto(j, "rule") /\ UNCHANGED <<byHand, event, mine, new, saw, action>>
              ELSE Done(j)
           /\ IF Matches(j) /\ far
              THEN Record(event[j].new, "skipped_threshold")
              ELSE UNCHANGED audit
    /\ UNCHANGED <<rates, gone, rule, lastApplied, conflict, site, bounds, history>>

\* Jobs that hold the rule as they read it.  Nothing keeps them apart.
Applying == {j \in Jobs : pc[j] \in {"rates", "get", "decide", "put", "mark", "base"}}

\* Apply reads the rule.
ReadRule(j) ==
    /\ pc[j] = "rule"
    /\ IF conflict /\ byHand[j] # "force"
       THEN Done(j) /\ UNCHANGED doubled
       ELSE /\ mine' = [mine EXCEPT ![j] = Row]
            /\ Goto(j, "rates")
            /\ doubled' = (doubled \/ Applying # {})
            /\ UNCHANGED <<byHand, event, new, saw, action>>
    /\ UNCHANGED <<ruleVars, bounds, wrote, since, flagged>>

\* It reads the upstream rates and works out the target.
ReadRates(j) ==
    /\ pc[j] = "rates"
    /\ IF Known(mine[j].rule, Current) = {}
       THEN Done(j)
       ELSE /\ new' = [new EXCEPT ![j] = Target(mine[j].rule, Reference(mine[j].rule, Current))]
            /\ Goto(j, "get")
            /\ UNCHANGED <<byHand, event, mine, saw, action>>
    /\ UNCHANGED <<ruleVars, bounds, history>>

\* It asks the own site for the group.
GetGroup(j) ==
    /\ pc[j] = "get"
    /\ saw' = [saw EXCEPT ![j] = site]
    /\ since' = [since EXCEPT ![j] = FALSE]
    /\ Goto(j, "decide")
    /\ UNCHANGED <<ruleVars, byHand, event, mine, new, action, bounds,
                   wrote, flagged, doubled>>

ConflictingByHandOnly(j) == byHand[j] = "manual" /\ mine[j].base # NoRate /\ saw[j] # mine[j].base

Conflicting(j) == byHand[j] # "force" /\ mine[j].base # NoRate /\ saw[j] # mine[j].base

\* The group is not as the program left it.  The update that would set the
\* conflict sets a BOOLEAN column to 1 and is refused; the error is dropped.
SetConflict == UNCHANGED conflict

ConflictFound(j) ==
    /\ pc[j] = "decide"
    /\ Conflicting(j)
    /\ SetConflict
    /\ Record(new[j], "skipped_conflict")
    /\ flagged' = TRUE
    /\ Done(j)
    /\ UNCHANGED <<rates, gone, rule, lastApplied, site, bounds, wrote, since, doubled>>

\* Nothing to write: the rate found becomes the base.
NothingToWrite(j) ==
    /\ pc[j] = "decide"
    /\ ~Conflicting(j)
    /\ new[j] = saw[j]
    /\ lastApplied' = saw[j]
    /\ wrote' = saw[j]
    /\ Done(j)
    /\ UNCHANGED <<rates, gone, rule, conflict, audit, site, bounds, since, flagged, doubled>>

PendingOldRate(j) ==
    /\ pc[j] = "decide"
    /\ ~Conflicting(j)
    /\ new[j] # saw[j]
    /\ Record(saw[j], "pending")
    /\ action' = [action EXCEPT ![j] = Len(audit')]
    /\ Goto(j, "put")
    /\ UNCHANGED <<rates, gone, rule, lastApplied, conflict, site,
                   byHand, event, mine, new, saw, bounds, history>>

\* The intent is written before the call.
InsertPending(j) ==
    /\ pc[j] = "decide"
    /\ ~Conflicting(j)
    /\ new[j] # saw[j]
    /\ Record(new[j], "pending")
    /\ action' = [action EXCEPT ![j] = Len(audit')]
    /\ Goto(j, "put")
    /\ UNCHANGED <<rates, gone, rule, lastApplied, conflict, site,
                   byHand, event, mine, new, saw, bounds, history>>

\* The own site takes the rate, whatever it holds by now.
Written(j) ==
    /\ site' = new[j]
    /\ wrote' = new[j]
    /\ flagged' = (flagged /\ byHand[j] # "force")

Put(j) ==
    /\ pc[j] = "put"
    /\ Written(j)
    /\ Goto(j, "mark")
    /\ UNCHANGED <<rates, gone, rule, lastApplied, conflict, audit,
                   byHand, event, mine, new, saw, action, bounds, since, doubled>>

PutFails(j) ==
    /\ pc[j] = "put"
    /\ Fail
    /\ audit' = [audit EXCEPT ![action[j]].status = "failed"]
    /\ Done(j)
    /\ UNCHANGED <<rates, gone, rule, lastApplied, conflict, site, changes, hands, history>>

\* The own site takes the rate and the answer is lost.
PutAnswerLost(j) ==
    /\ pc[j] = "put"
    /\ Fail
    /\ Written(j)
    /\ audit' = [audit EXCEPT ![action[j]].status = "failed"]
    /\ Done(j)
    /\ UNCHANGED <<rates, gone, rule, lastApplied, conflict, changes, hands, since, doubled>>

\* Its error is dropped.
MarkApplied(j) ==
    /\ pc[j] = "mark"
    /\ \/ audit' = [audit EXCEPT ![action[j]].status = "applied"] /\ UNCHANGED fails
       \/ Fail /\ UNCHANGED audit
    /\ Goto(j, "base")
    /\ UNCHANGED <<rates, gone, rule, lastApplied, conflict, site,
                   byHand, event, mine, new, saw, action, changes, hands, history>>

SetAppliedSeen(j) ==
    /\ pc[j] = "base"
    /\ lastApplied' = saw[j]
    /\ Done(j)
    /\ UNCHANGED <<rates, gone, rule, conflict, audit, site, bounds, history>>

SetApplied(j) ==
    /\ pc[j] = "base"
    /\ lastApplied' = new[j]
    /\ Done(j)
    /\ UNCHANGED <<rates, gone, rule, conflict, audit, site, bounds, history>>

\* A read of the store or of the own site fails, or the write of the base does.
JobFails(j) ==
    /\ pc[j] \in {"match", "rule", "rates", "get", "decide", "base"}
    /\ Fail
    /\ Done(j)
    /\ UNCHANGED <<ruleVars, changes, hands, history>>

\* The backend restarts.
Crash ==
    /\ \E j \in Jobs : pc[j] # "idle"
    /\ Fail
    /\ pc' = [j \in Jobs |-> "idle"]
    /\ byHand' = [j \in Jobs |-> "auto"]
    /\ event' = [j \in Jobs |-> NoEvent]
    /\ mine' = [j \in Jobs |-> NoRow]
    /\ new' = [j \in Jobs |-> NoRate]
    /\ saw' = [j \in Jobs |-> NoRate]
    /\ action' = [j \in Jobs |-> 0]
    /\ UNCHANGED <<ruleVars, changes, hands, history>>

Steps(j) ==
    \/ Match(j) \/ ReadRule(j) \/ ReadRates(j) \/ GetGroup(j)
    \/ ConflictFound(j) \/ NothingToWrite(j) \/ InsertPending(j)
    \/ Put(j) \/ MarkApplied(j) \/ SetApplied(j)

Next ==
    \/ \E j \in Jobs : \/ UpstreamChanges(j) \/ ApplyByHand(j) \/ Steps(j)
                       \/ PutFails(j) \/ PutAnswerLost(j) \/ JobFails(j)
    \/ UpstreamGone \/ SaveRule \/ PersonEdits \/ ResolveConflict \/ Crash

Spec == Init /\ [][Next]_vars

\* Go runs a started job to its end.
FairSpec == Spec /\ \A j \in Jobs : WF_vars(Steps(j))

(***************************************************************************)
(* Properties                                                              *)
(***************************************************************************)
Maybe(S) == S \cup {NoRate}

TypeOK ==
    /\ rates \in [Sources -> Rates] /\ gone \subseteq Sources
    /\ rule \in Rules
    /\ {lastApplied, site, wrote} \subseteq Maybe(Nat)
    /\ conflict \in BOOLEAN
    /\ \A i \in DOMAIN audit :
          audit[i] \in [new : Nat, status : {"pending", "applied", "failed",
                                            "skipped_threshold", "skipped_conflict"}]
    /\ pc \in [Jobs -> {"idle", "match", "rule", "rates", "get", "decide", "put", "mark", "base"}]
    /\ byHand \in [Jobs -> {"auto", "manual", "force"}]
    /\ event \in [Jobs -> [of : Sources, old : Maybe(Rates), new : Maybe(Rates)]]
    /\ mine \in [Jobs -> [rule : Rules, base : Maybe(Nat)]]
    /\ {new, saw} \subseteq [Jobs -> Maybe(Nat)]
    /\ \A j \in Jobs : action[j] \in 0..Len(audit)
    /\ changes \in 0..MaxChanges /\ hands \in 0..MaxByHand /\ fails \in 0..MaxFails
    /\ since \in [Jobs -> BOOLEAN] /\ {flagged, doubled} \subseteq BOOLEAN

Automatic(j) == byHand[j] = "auto"
Edited == wrote # NoRate /\ site # wrote

\* While nothing has failed and no two jobs have applied the rule at once, an automatic
\* apply writes over a person's rate only if the person set it after the job had looked,
\* and a conflict is found only where a person did edit.
HumanRespected ==
    [][\A j \in Jobs :
           /\ Put(j) /\ Automatic(j) /\ Edited => since[j] \/ doubled \/ fails > 0
           /\ ConflictFound(j) => Edited \/ since[j] \/ doubled \/ fails > 0]_vars

\* A rate the program wrote has its row in the audit, written before the call, unless two
\* jobs have applied the rule at once: one may take the rate it found for the program's while
\* another has just written its own.
AuditCovers ==
    wrote = NoRate \/ lastApplied = wrote \/ doubled \/
        \E i \in DOMAIN audit :
            audit[i].new = wrote /\ audit[i].status \in {"pending", "applied", "failed"}

\* What a job is to write is within the limits of the rule it read, whatever the
\* mark-up, the average and the rounding make of the reference.
WithinLimits ==
    \A j \in Jobs : new[j] # NoRate => new[j] \in mine[j].rule.min .. mine[j].rule.max

\* The own group comes to follow the last upstream change.
PricesFollow ==
    <>[](changes > 0 /\ Known(rule, Current) # {} =>
            site = Target(rule, Reference(rule, Current)))

\* Once a conflict is found nothing is applied automatically until it is confirmed.
ConflictStops == [][\A j \in Jobs : Put(j) /\ Automatic(j) => ~flagged]_vars
=============================================================================

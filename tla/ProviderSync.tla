---------------------------- MODULE ProviderSync ----------------------------
(***************************************************************************)
(* Automatic and manual synchronisation of upstream providers:             *)
(* service/sync_scheduler.go, service/provider_sync_service.go, the        *)
(* balance cache and the collector state they write, the rate history      *)
(* (RateHistory), and the operations of handler/provider_handler.go that   *)
(* change providers or start a run.                                        *)
(*                                                                         *)
(* A run is one SyncOne (or RecordManual) with what its caller does before *)
(* and after it, cut at every statement and upstream call.  Times are not  *)
(* numbers: an armed timer may fire at any moment, a backoff is ahead of   *)
(* the clock until it is past.  How a run gets its session is              *)
(* ProviderSession; what a rate change starts is PriceFollow.              *)
(***************************************************************************)
EXTENDS RateHistory

CONSTANTS
    Providers,
    Runs,
    MaxEvents      \* bound: changes upstream, what administrators do, failures of the
                   \* local database, restarts and overlaps of runs, taken together

ASSUME SyncAssumption ==
    /\ Providers # {}
    /\ MaxEvents \in Nat

VARIABLES
    provider,    \* providers: "none" yet, "ready" (collectable), "other", "gone"
    truth,       \* the rate the upstream has for the group
    rows,        \* rate_snapshots
    fresh,       \* is last_balance the latest balance snapshot?
    failures,    \* collector_state.consecutive_failures, 2 standing for more
    backoff      \* collector_state.next_eligible_at: "none", "ahead", "past"

VARIABLES
    enabled, stopped,
    timer,       \* the providers with an armed timer
    rebuild,     \* the rebuild of Configure and that of OnManualSyncAll
    all,         \* a SyncAll: is it under way, and what it has still to start
    changed,     \* providers saved by a request that has yet to tell the scheduler
    deleting     \* how far the deletion of a provider has come

VARIABLES
    pc,
    kind,        \* who runs: "timer", "manual", "all", "byhand"
    of,          \* the provider
    mine,        \* will what the run is to write to last_balance be the latest?
    got,         \* what came of the balance: "balance", an upstream "error", "nothing" stored
    seen,        \* the rate it saw upstream
    found        \* the row Reconcile found

VARIABLES
    told,        \* history: the rate of the last row anybody was told of
    missed,      \* history: collectable providers the scheduler was not told of
    overlapped,  \* history: providers that had two runs at once
    broken,      \* history: providers a run of which was cut short or lost a write
    events

dbVars    == <<provider, truth, rows, fresh, failures, backoff>>
schedVars == <<enabled, stopped, timer, rebuild, all, changed, deleting>>
runVars   == <<pc, kind, of, mine, got, seen, found>>
history   == <<told, missed, overlapped, broken>>
vars      == <<dbVars, schedVars, runVars, history, events>>

Rebuilders == {"configure", "all"}
NoRebuild  == [at |-> "idle", listed |-> {}]
SomeProvider == CHOOSE p \in Providers : TRUE

Busy(r)       == pc[r] # "idle"
BusyWith(p)   == {r \in Runs : Busy(r) /\ of[r] = p}
Exists(p)     == provider[p] \in {"ready", "other"}
Collectable   == {p \in Providers : provider[p] = "ready"}

Init ==
    /\ provider \in [Providers -> {"none", "ready", "other"}]
    /\ truth \in [Providers -> Rates]
    /\ rows = [p \in Providers |-> <<>>]
    /\ fresh = [p \in Providers |-> TRUE]
    /\ failures = [p \in Providers |-> 0]
    /\ backoff = [p \in Providers |-> "none"]
    /\ enabled \in BOOLEAN
    /\ stopped = FALSE
    /\ timer = {}
    /\ rebuild = [k \in Rebuilders |->
                     IF k = "configure" /\ enabled THEN [at |-> "list", listed |-> {}] ELSE NoRebuild]
    /\ all = [on |-> FALSE, todo |-> {}]
    /\ changed = {}
    /\ deleting = [p \in Providers |-> "no"]
    /\ pc = [r \in Runs |-> "idle"]
    /\ kind = [r \in Runs |-> "timer"]
    /\ of = [r \in Runs |-> SomeProvider]
    /\ mine = [r \in Runs |-> FALSE]
    /\ got = [r \in Runs |-> "nothing"]
    /\ seen = [r \in Runs |-> Absent]
    /\ found = [r \in Runs |-> NoRow]
    /\ told = [p \in Providers |-> Absent]
    /\ missed = {}
    /\ overlapped = {}
    /\ broken = {}
    /\ events = 0

Spend(n) == events + n <= MaxEvents /\ events' = events + n
Event    == Spend(1)

(***************************************************************************)
(* The scheduler                                                           *)
(***************************************************************************)
\* scheduleLocked
Schedules(S) ==
    IF enabled /\ ~stopped
    THEN timer' = timer \cup S /\ missed' = missed \ S
    ELSE UNCHANGED <<timer, missed>>

\* Configure: the settings are saved; every timer is cleared, and set again by a
\* rebuild that first lists the providers.
Configure ==
    /\ Event
    /\ rebuild["configure"].at = "idle"
    /\ \E on \in BOOLEAN :
           /\ enabled' = on
           /\ rebuild' = IF on THEN [rebuild EXCEPT !["configure"].at = "list"] ELSE rebuild
    /\ timer' = {}
    /\ UNCHANGED <<dbVars, stopped, all, changed, deleting, runVars, history>>

ListCollectable(k) ==
    /\ rebuild[k].at = "list"
    /\ rebuild' = [rebuild EXCEPT ![k] = IF Collectable = {} THEN NoRebuild
                                         ELSE [at |-> "arm", listed |-> Collectable]]
    /\ UNCHANGED <<dbVars, enabled, stopped, timer, all, changed, deleting, runVars, history, events>>

\* The query fails or takes more than its ten seconds: logged, and nothing is armed.
ListFails(k) ==
    /\ rebuild[k].at = "list"
    /\ Event
    /\ rebuild' = [rebuild EXCEPT ![k] = NoRebuild]
    /\ missed' = missed \cup (Collectable \ timer)
    /\ UNCHANGED <<dbVars, enabled, stopped, timer, all, changed, deleting, runVars,
                   told, overlapped, broken>>

ArmAll(k) ==
    /\ rebuild[k].at = "arm"
    /\ Schedules(rebuild[k].listed)
    /\ rebuild' = [rebuild EXCEPT ![k] = NoRebuild]
    /\ UNCHANGED <<dbVars, enabled, stopped, all, changed, deleting, runVars,
                   told, overlapped, broken, events>>

\* The process is told to end: no timer is armed any more, runs go on.
Stop ==
    /\ Event
    /\ ~stopped
    /\ stopped' = TRUE
    /\ timer' = {}
    /\ UNCHANGED <<dbVars, enabled, rebuild, all, changed, deleting, runVars, history>>

(***************************************************************************)
(* What administrators do to providers                                     *)
(***************************************************************************)
\* Create, Update: the row; the collector state and the history stay.
SaveProvider(p) ==
    /\ Event
    /\ provider[p] # "gone"
    /\ \E s \in {"ready", "other"} : provider' = [provider EXCEPT ![p] = s]
    /\ changed' = changed \cup {p}
    /\ UNCHANGED <<truth, rows, fresh, failures, backoff, enabled, stopped, timer, rebuild, all, deleting,
                   runVars, history>>

OnProviderChanged(p) ==
    /\ p \in changed
    /\ changed' = changed \ {p}
    /\ Schedules({p})
    /\ UNCHANGED <<dbVars, enabled, stopped, rebuild, all, deleting, runVars,
                   told, overlapped, broken, events>>

\* Import fills in the missing address of a provider it finds; only providers it
\* created are made known to the scheduler.
FillAddress(p) ==
    /\ Event
    /\ provider[p] = "other"
    /\ provider' = [provider EXCEPT ![p] = "ready"]
    /\ missed' = missed \cup ({p} \ timer)
    /\ UNCHANGED <<truth, rows, fresh, failures, backoff, schedVars, runVars,
                   told, overlapped, broken>>

\* Delete: the row (its balance snapshots with it), then its rates, then its timer.
DeleteProvider(p) ==
    /\ Event
    /\ Exists(p)
    /\ provider' = [provider EXCEPT ![p] = "gone"]
    /\ deleting' = [deleting EXCEPT ![p] = "rates"]
    /\ UNCHANGED <<truth, rows, fresh, failures, backoff, enabled, stopped, timer, rebuild, all, changed,
                   runVars, history>>

DeleteRates(p) ==
    /\ deleting[p] = "rates"
    /\ deleting' = [deleting EXCEPT ![p] = "timer"]
    /\ rows' = [rows EXCEPT ![p] = Erased(@)]
    /\ UNCHANGED <<provider, truth, fresh, failures, backoff, enabled, stopped, timer, rebuild, all, changed,
                   runVars, history, events>>

OnProviderDeleted(p) ==
    /\ deleting[p] = "timer"
    /\ deleting' = [deleting EXCEPT ![p] = "no"]
    /\ timer' = timer \ {p}
    /\ UNCHANGED <<dbVars, enabled, stopped, rebuild, all, changed, runVars, history, events>>

(***************************************************************************)
(* Starting a run                                                          *)
(***************************************************************************)
Start(r, p, who, at, n) ==
    /\ ~Busy(r)
    /\ Spend(IF BusyWith(p) = {} THEN n ELSE n + 1)
    /\ pc' = [pc EXCEPT ![r] = at]
    /\ kind' = [kind EXCEPT ![r] = who]
    /\ of' = [of EXCEPT ![r] = p]
    /\ overlapped' = IF BusyWith(p) = {} THEN overlapped ELSE overlapped \cup {p}
    /\ UNCHANGED <<mine, got, seen, found>>

Fire(r, p) ==
    /\ p \in timer
    /\ Start(r, p, "timer", "gate", 0)
    /\ timer' = timer \ {p}
    /\ UNCHANGED <<dbVars, enabled, stopped, rebuild, all, changed, deleting, told, missed, broken>>

\* RefreshBalance
ManualSync(r, p) ==
    /\ Exists(p)
    /\ Start(r, p, "manual", "load", 1)
    /\ UNCHANGED <<dbVars, schedVars, told, missed, broken>>

\* ManualBalance
ManualBalance(r, p) ==
    /\ Exists(p)
    /\ Start(r, p, "byhand", "collect", 1)
    /\ UNCHANGED <<dbVars, schedVars, told, missed, broken>>

\* RefreshAllBalance: SyncAll lists the providers once (some may be left out in
\* their login cooldown), runs them side by side, and then rebuilds the schedule.
SyncAll ==
    /\ Event
    /\ ~all.on
    /\ \E S \in SUBSET Collectable : all' = [on |-> TRUE, todo |-> S]
    /\ UNCHANGED <<dbVars, enabled, stopped, timer, rebuild, changed, deleting, runVars, history>>

SyncAllStarts(r, p) ==
    /\ p \in all.todo
    /\ Start(r, p, "all", "load", 0)
    /\ all' = [all EXCEPT !.todo = @ \ {p}]
    /\ UNCHANGED <<dbVars, enabled, stopped, timer, rebuild, changed, deleting, told, missed, broken>>

OnManualSyncAll ==
    /\ all.on /\ all.todo = {}
    /\ \A r \in Runs : Busy(r) => kind[r] # "all"
    /\ rebuild["all"].at = "idle"
    /\ all' = [on |-> FALSE, todo |-> {}]
    /\ rebuild' = IF enabled /\ ~stopped THEN [rebuild EXCEPT !["all"].at = "list"] ELSE rebuild
    /\ UNCHANGED <<dbVars, enabled, stopped, timer, changed, deleting, runVars, history, events>>

(***************************************************************************)
(* A run                                                                   *)
(***************************************************************************)
Goto(r, l) == pc' = [pc EXCEPT ![r] = l]

Forget(r) ==
    /\ Goto(r, "idle")
    /\ kind' = [kind EXCEPT ![r] = "timer"]
    /\ of' = [of EXCEPT ![r] = SomeProvider]
    /\ mine' = [mine EXCEPT ![r] = FALSE]
    /\ got' = [got EXCEPT ![r] = "nothing"]
    /\ seen' = [seen EXCEPT ![r] = Absent]
    /\ found' = [found EXCEPT ![r] = NoRow]

AgainAfterSuccess(r) == IF got[r] = "balance" THEN Schedules({of[r]}) ELSE UNCHANGED <<timer, missed>>

Again(r) == Schedules({of[r]})

\* A timer sets its successor whatever came of the run; a manual refresh restarts
\* the countdown when it could store something.
Return(r) ==
    /\ Forget(r)
    /\ IF kind[r] = "timer" \/ (kind[r] = "manual" /\ got[r] # "nothing")
       THEN Again(r)
       ELSE UNCHANGED <<timer, missed>>

\* run: the backoff is looked up (a failed look lets the run go ahead).
Gate(r) ==
    /\ pc[r] = "gate"
    /\ \/ /\ backoff[of[r]] = "ahead"
          /\ Forget(r)
          /\ Again(r)
          /\ UNCHANGED events
       \/ /\ (backoff[of[r]] # "ahead" /\ UNCHANGED events) \/ Event
          /\ Goto(r, "load")
          /\ UNCHANGED <<timer, missed, kind, of, mine, got, seen, found>>
    /\ UNCHANGED <<dbVars, enabled, stopped, rebuild, all, changed, deleting,
                   told, overlapped, broken>>

\* The provider is gone: the scheduler forgets it (a manual refresh answers 500).
LoadGone(r) ==
    /\ pc[r] = "load"
    /\ provider[of[r]] = "gone"
    /\ Forget(r)
    /\ timer' = IF kind[r] = "timer" THEN timer \ {of[r]} ELSE timer
    /\ UNCHANGED <<dbVars, enabled, stopped, rebuild, all, changed, deleting, history, events>>

\* Its type or its credentials no longer allow a run, the login is cooling down, or
\* the query fails: nothing is recorded.
LoadSkips(r) ==
    /\ pc[r] = "load"
    /\ \/ provider[of[r]] = "other" /\ UNCHANGED events
       \/ provider[of[r]] = "ready" /\ kind[r] # "manual" /\ UNCHANGED events
       \/ Event
    /\ Return(r)
    /\ UNCHANGED <<dbVars, enabled, stopped, rebuild, all, changed, deleting,
                   told, overlapped, broken>>

\* GetByID: the run works on this copy of the row, the last balance in it.
Load(r) ==
    /\ pc[r] = "load"
    /\ provider[of[r]] = "ready"
    /\ mine' = [mine EXCEPT ![r] = fresh[of[r]]]
    /\ Goto(r, "collect")
    /\ UNCHANGED <<dbVars, schedVars, kind, of, got, seen, found, history, events>>

\* A new balance snapshot: what other runs hold of this provider is no longer the latest.
NewSnapshot(r) ==
    /\ mine' = [q \in Runs |-> IF q = r THEN TRUE ELSE mine[q] /\ of[q] # of[r]]
    /\ fresh' = [fresh EXCEPT ![of[r]] = FALSE]

CollectBalance(r) ==
    /\ pc[r] = "collect"
    /\ Exists(of[r])
    /\ NewSnapshot(r)
    /\ got' = [got EXCEPT ![r] = "balance"]
    /\ Goto(r, "cache")
    /\ UNCHANGED <<provider, truth, rows, failures, backoff, schedVars, kind, of, seen, found, history, events>>

\* The upstream refuses or does not answer: a snapshot without a balance.
CollectFails(r) ==
    /\ pc[r] = "collect"
    /\ kind[r] # "byhand"
    /\ Exists(of[r])
    /\ got' = [got EXCEPT ![r] = "error"]
    /\ Goto(r, "cache")
    /\ UNCHANGED <<dbVars, schedVars, kind, of, mine, seen, found, history, events>>

\* The snapshot cannot be stored, as when its provider has gone.
SnapshotFails(r) ==
    /\ pc[r] = "collect"
    /\ (~Exists(of[r]) /\ UNCHANGED events) \/ Event
    /\ IF kind[r] = "byhand"
       THEN Return(r)
       ELSE /\ Goto(r, "record")
            /\ UNCHANGED <<kind, of, mine, got, seen, found, timer, missed>>
    /\ UNCHANGED <<dbVars, enabled, stopped, rebuild, all, changed, deleting,
                   told, overlapped, broken>>

NilAfterError(r) == mine[r] /\ got[r] = "balance"

\* What goes to last_balance, the latest or not: the balance collected, or after an
\* error the balance of the copy once more.
ToCache(r) == mine[r]

UpdateBalanceCache(r) ==
    /\ pc[r] = "cache"
    /\ fresh' = [fresh EXCEPT ![of[r]] = ToCache(r)]
    /\ IF kind[r] = "byhand"
       THEN Return(r)
       ELSE /\ Goto(r, IF got[r] = "balance" THEN "rates" ELSE "record")
            /\ mine' = [mine EXCEPT ![r] = FALSE]
            /\ UNCHANGED <<kind, of, got, seen, found, timer, missed>>
    /\ UNCHANGED <<provider, truth, rows, failures, backoff, enabled, stopped, rebuild, all, changed, deleting,
                   told, overlapped, broken, events>>

\* syncUpstreamRates: the list is fetched; it fails, or is empty, and nothing is done.
FetchRates(r) ==
    /\ pc[r] = "rates"
    /\ seen' = [seen EXCEPT ![r] = truth[of[r]]]
    /\ Goto(r, "read")
    /\ UNCHANGED <<dbVars, schedVars, kind, of, mine, got, found, history, events>>

FetchFails(r) ==
    /\ pc[r] = "rates"
    /\ Goto(r, "record")
    /\ UNCHANGED <<dbVars, schedVars, kind, of, mine, got, seen, found, history, events>>

\* Reconcile reads the current rows first ...
ReadCurrent(r) ==
    /\ pc[r] = "read"
    /\ found' = [found EXCEPT ![r] = Found(rows[of[r]])]
    /\ Goto(r, "write")
    /\ UNCHANGED <<dbVars, schedVars, kind, of, mine, got, seen, history, events>>

\* ... and writes what they call for: a new row, a mark, or only last_seen_at.
\* A group seen for the first time is no event.
WriteObserved(r) ==
    /\ pc[r] = "write"
    /\ LET p == of[r] IN
       rows' = [rows EXCEPT ![p] = CASE Inserts(found[r], seen[r]) -> Inserted(@, seen[r])
                                     [] Marks(found[r], seen[r]) -> MarkedDeleted(@, found[r].id)
                                     [] OTHER -> @]
    /\ IF IsEvent(found[r], seen[r])
       THEN Goto(r, "tell") /\ UNCHANGED seen
       ELSE Goto(r, "record") /\ seen' = [seen EXCEPT ![r] = Absent]
    /\ found' = [found EXCEPT ![r] = NoRow]
    /\ told' = IF found[r].id = 0 /\ seen[r] # Absent THEN [told EXCEPT ![of[r]] = seen[r]] ELSE told
    /\ UNCHANGED <<provider, truth, fresh, failures, backoff, schedVars,
                   kind, of, mine, got, missed, overlapped, broken, events>>

\* OnUpstreamRateChanged, OnRateChanged
TellChange(r) ==
    /\ pc[r] = "tell"
    /\ told' = [told EXCEPT ![of[r]] = seen[r]]
    /\ seen' = [seen EXCEPT ![r] = Absent]
    /\ Goto(r, "record")
    /\ UNCHANGED <<dbVars, schedVars, kind, of, mine, got, found, missed, overlapped, broken, events>>

StateKeepsBackoff(p, n, until) ==
    /\ failures' = [failures EXCEPT ![p] = n]
    /\ backoff' = IF n = 0 THEN backoff ELSE [backoff EXCEPT ![p] = until]

\* The statements that write the row of the collector state.
SetState(p, n, until) ==
    /\ failures' = [failures EXCEPT ![p] = n]
    /\ backoff' = [backoff EXCEPT ![p] = until]

\* RecordSuccess, the last statement of a run that got a balance.
RecordSuccess(r) ==
    /\ pc[r] = "record"
    /\ got[r] = "balance"
    /\ SetState(of[r], 0, "none")
    /\ Return(r)
    /\ UNCHANGED <<provider, truth, rows, fresh, enabled, stopped, rebuild, all, changed, deleting,
                   told, overlapped, broken, events>>

\* recordFailure: one statement counts the failure and takes the backoff away ...
RecordFailure(r) ==
    /\ pc[r] = "record"
    /\ got[r] # "balance"
    /\ SetState(of[r], Min({failures[of[r]] + 1, 2}), "none")
    /\ \/ Goto(r, "backoff") /\ UNCHANGED <<kind, of, mine, got, seen, found, timer, missed>>
       \/ failures[of[r]] = 0 /\ Return(r)
    /\ UNCHANGED <<provider, truth, rows, fresh, enabled, stopped, rebuild, all, changed, deleting,
                   told, overlapped, broken, events>>

\* ... and, from the second failure on or when only a person can help, another
\* statement puts a new one.
UpdateBackoff(r) ==
    /\ pc[r] = "backoff"
    /\ SetState(of[r], failures[of[r]], "ahead")
    /\ Return(r)
    /\ UNCHANGED <<provider, truth, rows, fresh, enabled, stopped, rebuild, all, changed, deleting,
                   told, overlapped, broken, events>>

\* A statement on the local database fails: it is logged or dropped, and the run
\* goes on, or ends when it was the last one.
WriteFails(r) ==
    /\ Event
    /\ \/ /\ pc[r] \in {"cache", "read", "write"} /\ kind[r] # "byhand"
          /\ Goto(r, IF pc[r] = "cache" /\ got[r] = "balance" THEN "rates" ELSE "record")
          /\ mine' = [mine EXCEPT ![r] = FALSE]
          /\ seen' = [seen EXCEPT ![r] = Absent]
          /\ found' = [found EXCEPT ![r] = NoRow]
          /\ UNCHANGED <<kind, of, got, timer, missed>>
       \/ /\ pc[r] \in {"record", "backoff"} \/ (pc[r] = "cache" /\ kind[r] = "byhand")
          /\ Return(r)
    /\ broken' = broken \cup {of[r]}
    /\ UNCHANGED <<dbVars, enabled, stopped, rebuild, all, changed, deleting, told, overlapped>>

(***************************************************************************)
(* Time, the upstream, the nightly cleanup, the process                    *)
(***************************************************************************)
BackoffEnds(p) ==
    /\ backoff[p] = "ahead"
    /\ backoff' = [backoff EXCEPT ![p] = "past"]
    /\ UNCHANGED <<provider, truth, rows, fresh, failures, schedVars, runVars, history, events>>

UpstreamChanges(p) ==
    /\ Event
    /\ \E x \in Rates \cup {Absent} : x # truth[p] /\ truth' = [truth EXCEPT ![p] = x]
    /\ UNCHANGED <<provider, rows, fresh, failures, backoff, schedVars, runVars, history>>

\* cleanup
DeleteOldRates(p) ==
    /\ Event
    /\ \E before \in 2..(Len(rows[p]) + 1) : rows' = [rows EXCEPT ![p] = Pruned(@, before)]
    /\ UNCHANGED <<provider, truth, fresh, failures, backoff, schedVars, runVars, history>>

\* The process ends at any point and starts again: main.go configures the scheduler
\* from the stored settings.
Restart ==
    /\ Event
    /\ stopped' = FALSE
    /\ timer' = {}
    /\ rebuild' = [k \in Rebuilders |->
                      IF k = "configure" /\ enabled THEN [at |-> "list", listed |-> {}] ELSE NoRebuild]
    /\ all' = [on |-> FALSE, todo |-> {}]
    /\ changed' = {}
    /\ deleting' = [p \in Providers |-> "no"]
    /\ pc' = [r \in Runs |-> "idle"]
    /\ kind' = [r \in Runs |-> "timer"]
    /\ of' = [r \in Runs |-> SomeProvider]
    /\ mine' = [r \in Runs |-> FALSE]
    /\ got' = [r \in Runs |-> "nothing"]
    /\ seen' = [r \in Runs |-> Absent]
    /\ found' = [r \in Runs |-> NoRow]
    /\ broken' = broken \cup {p \in Providers : BusyWith(p) # {}}
    /\ UNCHANGED <<dbVars, enabled, told, missed, overlapped>>

Steps(r) ==
    \/ Gate(r) \/ LoadGone(r) \/ LoadSkips(r) \/ Load(r)
    \/ CollectBalance(r) \/ CollectFails(r) \/ SnapshotFails(r) \/ UpdateBalanceCache(r)
    \/ FetchRates(r) \/ FetchFails(r) \/ ReadCurrent(r) \/ WriteObserved(r) \/ TellChange(r)
    \/ RecordSuccess(r) \/ RecordFailure(r) \/ UpdateBackoff(r) \/ WriteFails(r)

Scheduling ==
    \/ \E k \in Rebuilders : ListCollectable(k) \/ ListFails(k) \/ ArmAll(k)
    \/ \E p \in Providers : OnProviderChanged(p) \/ DeleteRates(p) \/ OnProviderDeleted(p)
    \/ OnManualSyncAll

Administration ==
    \/ Configure \/ Stop \/ SyncAll
    \/ \E p \in Providers : SaveProvider(p) \/ FillAddress(p) \/ DeleteProvider(p)

Next ==
    \/ \E r \in Runs : \/ Steps(r)
                       \/ \E p \in Providers : \/ Fire(r, p) \/ ManualSync(r, p) \/ ManualBalance(r, p)
                                               \/ SyncAllStarts(r, p)
    \/ Scheduling \/ Administration
    \/ \E p \in Providers : BackoffEnds(p) \/ UpstreamChanges(p) \/ DeleteOldRates(p)
    \/ Restart

Spec == Init /\ [][Next]_vars

(***************************************************************************)
(* Properties                                                              *)
(***************************************************************************)
TypeOK ==
    /\ provider \in [Providers -> {"none", "ready", "other", "gone"}]
    /\ truth \in [Providers -> Rates \cup {Absent}]
    /\ \A p \in Providers : \A i \in DOMAIN rows[p] : rows[p][i] \in SnapshotRow
    /\ fresh \in [Providers -> BOOLEAN]
    /\ failures \in [Providers -> 0..2]
    /\ backoff \in [Providers -> {"none", "ahead", "past"}]
    /\ {enabled, stopped} \subseteq BOOLEAN
    /\ timer \subseteq Providers
    /\ rebuild \in [Rebuilders -> [at : {"idle", "list", "arm"}, listed : SUBSET Providers]]
    /\ all \in [on : BOOLEAN, todo : SUBSET Providers]
    /\ changed \subseteq Providers
    /\ deleting \in [Providers -> {"no", "rates", "timer"}]
    /\ pc \in [Runs -> {"idle", "gate", "load", "collect", "cache", "rates", "read", "write",
                        "tell", "record", "backoff"}]
    /\ kind \in [Runs -> {"timer", "manual", "all", "byhand"}]
    /\ of \in [Runs -> Providers]
    /\ mine \in [Runs -> BOOLEAN]
    /\ got \in [Runs -> {"balance", "error", "nothing"}]
    /\ seen \in [Runs -> Rates \cup {Absent}]
    /\ \A r \in Runs : found[r].id \in 0..Len(rows[of[r]])
    /\ told \in [Providers -> Rates \cup {Absent}]
    /\ UNION {missed, overlapped, broken} \subseteq Providers
    /\ events \in 0..MaxEvents

Active(p) == provider[p] = "ready" /\ enabled /\ ~stopped

Scheduled(p) ==
    \/ p \in timer \cup changed
    \/ \E k \in Rebuilders : rebuild[k].at = "list" \/ p \in rebuild[k].listed
    \/ \E r \in BusyWith(p) : kind[r] = "timer"

\* While the automatic refresh is on, a provider that can be collected has a timer,
\* or a step under way that will arm one, unless the listing of a rebuild failed or
\* an import filled in its address: no interleaving of settings, edits, deletions,
\* manual refreshes and runs loses a provider.
NeverForgotten == \A p \in Providers : Active(p) => Scheduled(p) \/ p \in missed

Quiet(p) == BusyWith(p) = {} /\ p \notin overlapped \cup broken

\* Every row states a rate the one before did not (or the group had vanished), as
\* long as no two runs of the provider overlapped.
NoFalseChange ==
    \A p \in Providers : p \notin overlapped =>
        \A i \in DOMAIN rows[p] : ~Repeats(rows[p], i)

\* The rate the hooks were last told is the rate of the last row, once the run that
\* wrote it is over: no change of the history goes untold.
LastChangeTold ==
    \A p \in Providers : Quiet(p) /\ Latest(rows[p]) # 0 =>
        told[p] = rows[p][Latest(rows[p])].rate

\* last_balance is the latest balance snapshot, whatever failed in between.
CacheIsLatest == \A p \in Providers : Quiet(p) => fresh[p]

\* A provider is held back only after failures in a row.
BackoffMeansFailures ==
    \A p \in Providers : Quiet(p) /\ backoff[p] # "none" => failures[p] > 0

\* The rate history tells every change and no other.
ChangesAreTold == NoFalseChange /\ LastChangeTold

\* The balance cache and the collector state are what the runs left.
StateIsTrue == CacheIsLatest /\ BackoffMeansFailures
=============================================================================

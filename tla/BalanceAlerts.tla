---------------------------- MODULE BalanceAlerts ---------------------------
(***************************************************************************)
(* Warnings of low balances: of a customer at the own site, found by the   *)
(* job every five minutes (WatchUserBalances in service/credit_service.go),*)
(* and of a provider, found after each of its synchronisations             *)
(* (HandleSyncOutcome in service/alert_service.go).  Each is repeated      *)
(* hourly.  The customer's latch is in the database, the provider's in the *)
(* memory of the process.                                                  *)
(*                                                                         *)
(* A balance is below the threshold or not.  Time passes in ticks, Hour of *)
(* them an hour; a time is represented by its age, Hour meaning an hour or *)
(* more, Never none.                                                       *)
(***************************************************************************)
EXTENDS Naturals, FiniteSets

CONSTANTS
    Runs,        \* synchronisations of the provider
    Hour,
    MaxEvents    \* bound: changes of balances and settings, crashes, lost messages

AlertAssumption == IsFiniteSet(Runs) /\ Hour \in Nat \ {0} /\ MaxEvents \in Nat

VARIABLES
    low,         \* whether the balance of each subject is below its threshold
    enabled,     \* whether warnings are switched on, with a channel and a threshold
    active,      \* customers.status of the customer; the provider's not being muted

    latch,       \* customers.user_balance_alert_level and user_balance_alert_at
    watch, saw,  \* the job: where it stands, and the latch and balance it read
    lastAlert,   \* AlertService.lastAlert of the provider
    run, got,    \* a synchronisation: where it stands, and the balance it brought
    sending,     \* subjects a message about is on its way

    fired,       \* history: the age of the last decision to warn, by subject
    rested,      \* history: a recovered balance was seen since, or a restart forgot
    heard,       \* history: the last message arrived
    missed,      \* history: the last message did not arrive
    events

vars == <<low, enabled, active, latch, watch, saw, lastAlert, run, got, sending,
          fired, rested, heard, missed, events>>
outside == <<low, enabled, active>>
job     == <<latch, watch, saw>>
sync    == <<lastAlert, run, got>>
history == <<fired, rested, heard, missed>>

Never == Hour + 1
Older(age) == IF age < Hour THEN age + 1 ELSE age
Subjects == {"customer", "provider"}
Put(f, s, v) == f' = [f EXCEPT ![s] = v]

Init ==
    /\ low = [s \in Subjects |-> FALSE] /\ enabled = TRUE
    /\ active = [s \in Subjects |-> TRUE]
    /\ latch = [level |-> 0, age |-> Never] /\ watch = "idle"
    /\ saw = [low |-> FALSE, level |-> 0, age |-> Never]
    /\ lastAlert = Never
    /\ run = [r \in Runs |-> "idle"] /\ got = [r \in Runs |-> FALSE]
    /\ sending = {}
    /\ fired = [s \in Subjects |-> Never] /\ rested = [s \in Subjects |-> TRUE]
    /\ heard = {} /\ missed = {}
    /\ events = 0
-----------------------------------------------------------------------------
(***************************************************************************)
(* The customer                                                            *)
(***************************************************************************)
\* The active customers, then their balances.
WatchUserBalances ==
    /\ watch = "idle" /\ active["customer"]
    /\ watch' = "apply"
    /\ saw' = [low |-> low["customer"], level |-> latch.level, age |-> latch.age]
    /\ UNCHANGED <<outside, latch, sync, sending, history, events>>

DueAtOnce == TRUE

Due ==
    saw.level = 0 \/ saw.age >= Hour

Fire(s) == Put(fired, s, 0) /\ Put(rested, s, FALSE)

\* Balance and latch are written, then people are told.  While warnings are off the
\* latch stays as it is.
applyUserBalance ==
    /\ watch = "apply"
    /\ LET fire == enabled /\ saw.low /\ Due IN
       /\ latch' = [level |-> IF ~enabled THEN saw.level ELSE IF saw.low THEN 1 ELSE 0,
                    age   |-> IF fire THEN 0 ELSE latch.age]
       /\ IF fire THEN Fire("customer") /\ watch' = "tell"
          ELSE /\ watch' = "idle" /\ UNCHANGED fired
               /\ Put(rested, "customer", rested["customer"] \/ (enabled /\ ~saw.low))
    /\ UNCHANGED <<outside, saw, sync, sending, heard, missed, events>>

SaveFails ==
    /\ watch = "apply"
    /\ events < MaxEvents /\ events' = events + 1
    /\ watch' = "idle"
    /\ UNCHANGED <<outside, latch, saw, sync, sending, history>>

\* The settings are read again before the message goes out.
HandleUserBalanceAlert ==
    /\ watch = "tell"
    /\ watch' = "idle"
    /\ IF enabled
       THEN sending' = sending \cup {"customer"} /\ UNCHANGED missed
       ELSE missed' = missed \cup {"customer"} /\ UNCHANGED sending
    /\ UNCHANGED <<outside, latch, saw, sync, fired, rested, heard, events>>

(***************************************************************************)
(* The provider                                                            *)
(***************************************************************************)
SyncBalance(r) ==
    /\ run[r] = "idle"
    /\ Put(run, r, "after") /\ Put(got, r, low["provider"])
    /\ UNCHANGED <<outside, job, lastAlert, sending, history, events>>

\* Recovery takes the entry out; the entry is looked up and set under one lock.
HandleSyncOutcome(r) ==
    /\ run[r] = "after"
    /\ Put(run, r, "idle")
    /\ IF ~enabled \/ ~active["provider"] THEN UNCHANGED <<lastAlert, sending, fired, rested>>
       ELSE IF ~got[r]
       THEN lastAlert' = Never /\ Put(rested, "provider", TRUE) /\ UNCHANGED <<sending, fired>>
       ELSE IF lastAlert < Hour THEN UNCHANGED <<lastAlert, sending, fired, rested>>
       ELSE lastAlert' = 0 /\ sending' = sending \cup {"provider"} /\ Fire("provider")
    /\ UNCHANGED <<outside, job, got, heard, missed, events>>

(***************************************************************************)
(* Messages, people and time                                               *)
(***************************************************************************)
\* Sent by a goroutine of its own, with fifteen seconds to arrive.
Send(s) ==
    /\ s \in sending
    /\ sending' = sending \ {s}
    /\ \/ heard' = heard \cup {s} /\ missed' = missed \ {s} /\ UNCHANGED events
       \/ /\ events < MaxEvents /\ events' = events + 1
          /\ missed' = missed \cup {s} /\ heard' = heard \ {s}
    /\ UNCHANGED <<outside, job, sync, fired, rested>>

People ==
    /\ events < MaxEvents /\ events' = events + 1
    /\ \/ \E s \in Subjects : Put(low, s, ~low[s]) /\ UNCHANGED <<enabled, active>>
       \/ \E s \in Subjects : Put(active, s, ~active[s]) /\ UNCHANGED <<low, enabled>>
       \/ enabled' = ~enabled /\ UNCHANGED <<low, active>>
    /\ UNCHANGED <<job, sync, sending, history>>

\* A message that waits is sent before a tick is over.
Tick ==
    /\ sending = {} /\ watch # "tell"
    /\ latch' = [latch EXCEPT !.age = Older(@)]
    /\ saw' = [saw EXCEPT !.age = Older(@)]
    /\ lastAlert' = Older(lastAlert)
    /\ fired' = [s \in Subjects |-> Older(fired[s])]
    /\ UNCHANGED <<outside, watch, run, got, sending, rested, heard, missed, events>>

Crash ==
    /\ events < MaxEvents /\ events' = events + 1
    /\ watch' = "idle" /\ lastAlert' = Never
    /\ run' = [r \in Runs |-> "idle"]
    /\ sending' = {}
    /\ Put(rested, "provider", TRUE)
    /\ missed' = missed \cup sending \cup (IF watch = "tell" THEN {"customer"} ELSE {})
    /\ UNCHANGED <<outside, latch, saw, got, fired, heard>>

Work ==
    \/ WatchUserBalances \/ applyUserBalance \/ HandleUserBalanceAlert
    \/ \E r \in Runs : SyncBalance(r) \/ HandleSyncOutcome(r)

Next == Work \/ SaveFails \/ (\E s \in Subjects : Send(s)) \/ People \/ Tick \/ Crash

Spec == Init /\ [][Next]_vars
-----------------------------------------------------------------------------
TypeOK ==
    /\ low \in [Subjects -> BOOLEAN] /\ enabled \in BOOLEAN /\ active \in [Subjects -> BOOLEAN]
    /\ latch \in [level : {0, 1}, age : 0..Never]
    /\ watch \in {"idle", "apply", "tell"} /\ lastAlert \in 0..Never
    /\ run \in [Runs -> {"idle", "after"}] /\ sending \subseteq Subjects
    /\ fired \in [Subjects -> 0..Never] /\ rested \in [Subjects -> BOOLEAN]
    /\ heard \subseteq Subjects /\ missed \subseteq Subjects /\ events \in 0..MaxEvents

\* A latch that is set says that people were told or that the message got lost.
LatchedIsTold ==
    /\ latch.level = 1 /\ watch # "tell" => "customer" \in sending \cup heard \cup missed
    /\ lastAlert # Never => "provider" \in sending \cup heard \cup missed

\* Nobody is warned twice within an hour unless the balance was seen to recover in
\* between, or a restart forgot.
Spaced ==
    /\ watch = "apply" /\ watch' = "tell" => fired["customer"] >= Hour \/ rested["customer"]
    /\ lastAlert # 0 /\ lastAlert' = 0    => fired["provider"] >= Hour \/ rested["provider"]

\* Warnings are told, and not too often.
AlarmsAreTrue == []LatchedIsTold /\ [][Spaced]_vars
=============================================================================

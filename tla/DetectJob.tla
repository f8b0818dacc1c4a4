----------------------------- MODULE DetectJob -----------------------------
(***************************************************************************)
(* One job of model detection: service/model_detect_service.go runs every  *)
(* target at once, modeldetect/runner.go runs a target's checks behind one *)
(* gate, a job that has ended may be retried in part, and whole runs go    *)
(* into the history.                                                       *)
(*                                                                         *)
(* A check's result is reduced to what retries and history look at:        *)
(* "answered" (its requests came through, whatever it found), "failed"     *)
(* (a network error, 408, 429 or 5xx), "aborted" (the same, because the    *)
(* job was cancelled), "blocked" (nothing was sent: a prerequisite had     *)
(* left no state).                                                         *)
(***************************************************************************)
EXTENDS Integers, FiniteSets, Sequences

CONSTANTS
    Targets,
    Suites,        \* checks by suite
    Defaults,      \* the checks recommended in each suite
    Requires,      \* prerequisites of each check
    Informational, \* checks that are neither scored nor judged
    Concurrency,   \* places of the gate
    Keep,          \* length of the history
    Callers,       \* overlapping retry requests
    MaxRuns,       \* bound: runs of a target, over all targets and rounds of the job
    MaxCancels     \* bound

Checks == UNION {Suites[s] : s \in DOMAIN Suites}

DetectAssumption ==
    /\ Targets # {} /\ IsFiniteSet(Targets) /\ IsFiniteSet(Checks)
    /\ \A s \in DOMAIN Suites : Defaults[s] \in SUBSET Suites[s] \ {{}}
    /\ Requires \in [Checks -> SUBSET Checks] /\ Informational \subseteq Checks
    /\ {Concurrency, Keep, MaxRuns} \subseteq Nat \ {0} /\ MaxCancels \in Nat

\* The catalogue: no circle of prerequisites, and no scored check waits for an
\* informational one.
CatalogueAssumption ==
    /\ \A S \in SUBSET Checks \ {{}} : \E c \in S : Requires[c] \cap S = {}
    /\ \A c \in Checks \ Informational : Requires[c] \cap Informational = {}

VARIABLES
    status, chosen, selected, \* of the job ("none" before it starts): its targets and checks
    stopped,                 \* is the context of the round cancelled?
    step, batch, phase,      \* of each target: its goroutine, the checks of the round and their places
    result,                  \* the checks' results in the job's snapshot
    cut,                     \* run.Error = RunCancelled
    plan,                    \* of each caller of Retry
    history,                 \* model_detections or model_iq_runs
    runs, cancels,
    everCut                  \* history: targets one of whose rounds was cut short

job     == <<status, chosen, selected, stopped>>
targets == <<step, batch, phase, cut>>
bounds  == <<runs, cancels>>
vars    == <<job, targets, result, plan, history, bounds, everCut>>

NotYet == "none"
Results == {NotYet, "running", "answered", "failed", "aborted", "blocked"}
NoPlan == <<>>
Plans == [Targets -> SUBSET Checks]
Empty == [t \in Targets |-> {}]
Record == [target : Targets, result : [Checks -> Results]]

Init ==
    /\ status = NotYet /\ chosen = {} /\ selected = {} /\ stopped = FALSE
    /\ step = [t \in Targets |-> "idle"]
    /\ batch = Empty
    /\ phase = [t \in Targets |-> [c \in Checks |-> "wait"]]
    /\ result = [t \in Targets |-> [c \in Checks |-> NotYet]]
    /\ cut = [t \in Targets |-> FALSE]
    /\ plan = [r \in Callers |-> NoPlan]
    /\ history = <<>>
    /\ runs = 0 /\ cancels = 0
    /\ everCut = {}

(***************************************************************************)
(* Choosing checks                                                         *)
(***************************************************************************)
\* The least set around S that holds the prerequisites of its members: a
\* chain of them is shorter than the catalogue.
Closed(S) == \A c \in S : Requires[c] \subseteq S
ResolveCheckIDs(S) ==
    {c \in Checks : \A T \in SUBSET Checks : S \subseteq T /\ Closed(T) => c \in T}

ResolveSuiteCheckIDs(s, picked) ==
    ResolveCheckIDs(IF picked \cap Suites[s] = {} THEN Defaults[s] ELSE picked \cap Suites[s])

Scored(S) == S \ Informational

MissingChecks(t) == {c \in selected : result[t][c] \in {NotYet, "running"}}
Complete(t) == Scored(MissingChecks(t)) = {}

RequestFailed(t, c) == result[t][c] \in {"failed", "aborted"}
shouldFollowRetry(t, c) == RequestFailed(t, c) \/ result[t][c] = "blocked"

\* A seed, and every check that sent nothing because of it, transitively.
Follows(t, S) == \A c \in selected :
    (shouldFollowRetry(t, c) /\ Requires[c] \cap S # {}) => c \in S
SeedOnly(t, seed) == seed

ExpandRetryIDs(t, seed) ==
    {c \in selected : \A T \in SUBSET selected : seed \subseteq T /\ Follows(t, T) => c \in T}

(***************************************************************************)
(* Rounds: run and runRetry                                                *)
(***************************************************************************)
Load(p) == Cardinality({t \in Targets : p[t] # {}})

\* A target's goroutine is started for a batch that is not empty.
Begins(p) ==
    /\ status' = "running" /\ stopped' = FALSE
    /\ runs' = runs + Load(p) /\ runs' <= MaxRuns
    /\ batch' = p
    /\ step' = [t \in Targets |-> IF p[t] = {} THEN "idle" ELSE "start"]
    /\ phase' = [t \in Targets |-> [c \in Checks |-> "wait"]]
    /\ cut' = [t \in Targets |-> FALSE]

Start ==
    /\ status = NotYet
    /\ \E s \in DOMAIN Suites : \E picked \in SUBSET Suites[s] :
           /\ selected' = ResolveSuiteCheckIDs(s, picked)
           /\ chosen' \in SUBSET Targets \ {{}}
           /\ Begins([t \in Targets |-> IF t \in chosen' THEN selected' ELSE {}])
    /\ UNCHANGED <<result, plan, history, cancels, everCut>>

\* One check that was asked for, or every one that failed or is missing.
Seed(t, c) ==
    IF c # NotYet THEN {c} ELSE {d \in selected : RequestFailed(t, d)} \cup MissingChecks(t)

RetryPlan(T, c) ==
    [t \in Targets |-> IF t \in T THEN ExpandRetryIDs(t, Seed(t, c)) ELSE {}]

PlanRetry(r) ==
    /\ plan[r] = NoPlan /\ status \notin {NotYet, "running"}
    /\ \E T \in SUBSET chosen, c \in Checks \cup {NotYet} :
           /\ T = chosen \/ Cardinality(T) = 1
           /\ c # NotYet => Cardinality(T) = 1 /\ \A t \in T : RequestFailed(t, c)
           /\ RetryPlan(T, c) # Empty /\ runs + Load(RetryPlan(T, c)) <= MaxRuns
           /\ plan' = [plan EXCEPT ![r] = RetryPlan(T, c)]
    /\ UNCHANGED <<job, targets, result, history, bounds, everCut>>

BeginRetryUnchecked(r) ==
    /\ plan[r] # NoPlan
    /\ Begins(plan[r])
    /\ plan' = [plan EXCEPT ![r] = NoPlan]
    /\ UNCHANGED <<chosen, selected, result, history, cancels, everCut>>

\* The status is looked at again under the write lock.
BeginRetry(r) ==
    /\ plan[r] # NoPlan /\ status # "running"
    /\ Begins(plan[r])
    /\ plan' = [plan EXCEPT ![r] = NoPlan]
    /\ UNCHANGED <<chosen, selected, result, history, cancels, everCut>>

RetryBusy(r) ==
    /\ plan[r] # NoPlan /\ status = "running"
    /\ plan' = [plan EXCEPT ![r] = NoPlan]
    /\ UNCHANGED <<job, targets, result, history, bounds, everCut>>

Cancel ==
    /\ status = "running" /\ ~stopped
    /\ cancels < MaxCancels /\ cancels' = cancels + 1
    /\ stopped' = TRUE
    /\ UNCHANGED <<status, chosen, selected, targets, result, plan, history, runs, everCut>>

(***************************************************************************)
(* One target: RunWithBaseline and RetryChecksWithBaseline                 *)
(***************************************************************************)
Finished(ph, d) == ph[d] = "finished"

DepsReadyOnly(t, ph, c) == \A d \in Requires[c] \cap batch[t] : Finished(ph, d)

\* depsReady: prerequisites outside the batch were met in an earlier round.
DepsReady(t, ph, c) ==
    /\ c \in Informational => \A d \in Scored(batch[t]) : Finished(ph, d)
    /\ \A d \in Requires[c] \cap batch[t] : Finished(ph, d)

\* startReady.
Started(t, ph) ==
    [c \in Checks |-> IF c \in batch[t] /\ ph[c] = "wait" /\ DepsReady(t, ph, c) /\ ~stopped
                      THEN "queued" ELSE ph[c]]

StartReady(t) ==
    /\ step[t] = "start"
    /\ step' = [step EXCEPT ![t] = "loop"]
    /\ phase' = [phase EXCEPT ![t] = Started(t, @)]
    /\ UNCHANGED <<job, batch, cut, result, plan, history, bounds, everCut>>

InFlight == {p \in Targets \X Checks : phase[p[1]][p[2]] = "executing"}

AcquireUngated(t, c) ==
    /\ phase[t][c] = "queued" /\ ~stopped
    /\ phase' = [phase EXCEPT ![t][c] = "executing"]
    /\ result' = [result EXCEPT ![t][c] = "running"]
    /\ UNCHANGED <<job, step, batch, cut, plan, history, bounds, everCut>>

Acquire(t, c) ==
    /\ phase[t][c] = "queued" /\ ~stopped
    /\ Cardinality(InFlight) < Concurrency
    /\ phase' = [phase EXCEPT ![t][c] = "executing"]
    /\ result' = [result EXCEPT ![t][c] = "running"]
    /\ UNCHANGED <<job, step, batch, cut, plan, history, bounds, everCut>>

\* The state a check reads is there once its prerequisites were answered, in
\* this round or (hydrateRunState) in one before it.
StateThere(t, c) == \A d \in Requires[c] : result[t][d] = "answered"

Outcomes(t, c) ==
    IF StateThere(t, c)
    THEN {"answered", "failed"} \cup (IF stopped THEN {"aborted"} ELSE {})
    ELSE {"blocked"}

LeaveOnly(t, c) == phase' = [phase EXCEPT ![t][c] = "finished"]

Leave(t, c) == phase' = [phase EXCEPT ![t] = Started(t, [@ EXCEPT ![c] = "finished"])]

Outcome(t, c) ==
    /\ phase[t][c] = "executing"
    /\ \E res \in Outcomes(t, c) : result' = [result EXCEPT ![t][c] = res]
    /\ Leave(t, c)
    /\ UNCHANGED <<job, step, batch, cut, plan, history, bounds, everCut>>

\* A queued check of a cancelled round leaves without a result.
NoPlace(t, c) ==
    /\ phase[t][c] = "queued" /\ stopped
    /\ Leave(t, c)
    /\ UNCHANGED <<job, step, batch, cut, result, plan, history, bounds, everCut>>

Idle(t) == \A c \in batch[t] : phase[t][c] \in {"wait", "finished"}

Conclude(t) ==
    /\ step[t] = "loop" /\ Idle(t)
    /\ step' = [step EXCEPT ![t] = "persist"]
    /\ cut' = [cut EXCEPT ![t] = stopped]
    /\ everCut' = IF stopped THEN everCut \cup {t} ELSE everCut
    /\ UNCHANGED <<job, batch, phase, result, plan, history, bounds>>

\* A run without a scored result has no verdict and no record.
HasVerdict(t) == \E c \in Scored(selected) : result[t][c] \notin {NotYet, "running"}

PersistableUncut(t) == ~cut[t] /\ HasVerdict(t)

Persistable(t) == ~cut[t] /\ Complete(t) /\ HasVerdict(t)

DeleteBeyondLatest(h) == IF Len(h) > Keep THEN SubSeq(h, Len(h) - Keep + 1, Len(h)) ELSE h

\* A failed INSERT and a failed trim are only logged.
Persist(t) ==
    /\ step[t] = "persist"
    /\ step' = [step EXCEPT ![t] = "done"]
    /\ \/ /\ Persistable(t)
          /\ LET h == Append(history, [target |-> t, result |-> result[t]])
             IN  history' \in {h, DeleteBeyondLatest(h)}
       \/ UNCHANGED history
    /\ UNCHANGED <<job, batch, phase, cut, result, plan, bounds, everCut>>

EndRoundOfAll ==
    /\ status = "running"
    /\ \A t \in Targets : step[t] = "done"
    /\ status' = IF stopped THEN "cancelled" ELSE "completed"
    /\ UNCHANGED <<chosen, selected, stopped, targets, result, plan, history, bounds, everCut>>

\* wg.Wait, then setStatus.
EndRound ==
    /\ status = "running"
    /\ \A t \in Targets : step[t] \in {"idle", "done"}
    /\ status' = IF stopped THEN "cancelled" ELSE "completed"
    /\ UNCHANGED <<chosen, selected, stopped, targets, result, plan, history, bounds, everCut>>

Work(t) ==
    \/ StartReady(t) \/ Conclude(t) \/ Persist(t)
    \/ \E c \in Checks : Acquire(t, c) \/ Outcome(t, c) \/ NoPlace(t, c)

Next ==
    \/ Start \/ Cancel \/ EndRound
    \/ \E r \in Callers : PlanRetry(r) \/ BeginRetry(r) \/ RetryBusy(r)
    \/ \E t \in Targets : Work(t)

\* The goroutines run, and every request of a check has a timeout.
Fair == WF_vars(EndRound) /\ \A t \in Targets : WF_vars(Work(t))

Spec == Init /\ [][Next]_vars /\ Fair
-----------------------------------------------------------------------------
TypeOK ==
    /\ status \in {NotYet, "running", "completed", "cancelled"}
    /\ chosen \subseteq Targets /\ selected \subseteq Checks /\ stopped \in BOOLEAN
    /\ step \in [Targets -> {"idle", "start", "loop", "persist", "done"}]
    /\ batch \in Plans /\ cut \in [Targets -> BOOLEAN]
    /\ phase \in [Targets -> [Checks -> {"wait", "queued", "executing", "finished"}]]
    /\ result \in [Targets -> [Checks -> Results]]
    /\ plan \in [Callers -> Plans \cup {NoPlan}]
    /\ history \in Seq(Record) /\ Cardinality(InFlight) <= Concurrency
    /\ {runs, cancels} \subseteq Nat /\ everCut \subseteq Targets

\* A retry begins when no goroutine of the round before is left: beginRetry
\* takes a second look at the status planRetry saw.
RoundsDoNotOverlap ==
    [][runs' # runs => \A t \in Targets : step[t] \in {"idle", "done"}]_vars

\* The checks that fill an account pool with parallel requests wait for all
\* scored checks of their target (countScored).
InformationalRunsLast ==
    \A t \in Targets : \A c \in Informational \cap batch[t] :
        phase[t][c] # "wait" => \A d \in Scored(batch[t]) : phase[t][d] = "finished"

\* The loop of startReady leaves no check behind: a round that was not cut
\* short has a result for all its checks, whatever the order of the outcomes.
UncutRoundRunsAll ==
    \A t \in Targets : (step[t] = "persist" /\ ~cut[t]) =>
        \A c \in batch[t] : phase[t][c] = "finished" /\ result[t][c] \notin {NotYet, "running"}

\* The history holds only runs in which every scored check of the job has a
\* result, however the run came about over several retries (persistable).
HistoryIsWhole ==
    \A i \in DOMAIN history : \A c \in Scored(selected) :
        history[i].result[c] \notin {NotYet, "running"}

\* A check that sent nothing for want of a prerequisite does not stay so when
\* the prerequisite has been answered by a retry (ExpandRetryIDs takes it
\* along), unless a round was cut between the two.
BlockedIsExplained ==
    \A t \in Targets \ everCut : \A c \in Checks :
        (status = "completed" /\ result[t][c] = "blocked") =>
            \E d \in Requires[c] : result[t][d] # "answered"

\* A round keeps its order and leaves nothing unexplained, over any retries.
RoundIsExplained == InformationalRunsLast /\ UncutRoundRunsAll /\ BlockedIsExplained

\* The comment on persistable: what failed because the user cancelled never
\* becomes evidence in the history.
HistoryIsUncut ==
    \A i \in DOMAIN history : \A c \in Checks : history[i].result[c] # "aborted"

\* Every round ends.
RoundEnds == (status = "running") ~> (status # "running")
=============================================================================

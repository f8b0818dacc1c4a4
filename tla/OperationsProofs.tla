-------------------------- MODULE OperationsProofs --------------------------
(***************************************************************************)
(* Proofs about the parts of MCOperations, for any values of their         *)
(* constants: the reading of an answer, pelican tests, an administrator's  *)
(* session, and the jobs that follow prices.                               *)
(***************************************************************************)
EXTENDS MCOperations, Sums, SequenceTheorems

(***************************************************************************)
(* DetectJob                                                               *)
(***************************************************************************)
Steps == {"idle", "start", "loop", "persist", "done"}
Phases == {"wait", "queued", "executing", "finished"}

(***************************************************************************)
(* The inductive invariant                                                 *)
(***************************************************************************)
Shape ==
    /\ chosen \subseteq Targets /\ selected \subseteq Checks /\ stopped \in BOOLEAN
    /\ step \in [Targets -> Steps]
    /\ batch \in Plans
    /\ phase \in [Targets -> [Checks -> Phases]]
    /\ result \in [Targets -> [Checks -> Results]]
    /\ cut \in [Targets -> BOOLEAN]
    /\ plan \in [Callers -> Plans \cup {NoPlan}]
    /\ history \in Seq(Record)

\* While no round runs, no goroutine of a target is at work.
Quiet == status # "running" => \A t \in Targets : step[t] \in {"idle", "done"}

\* Before the job has its checks there is nothing to retry, to show or to keep.
Blank ==
    status = NotYet =>
        /\ history = <<>>
        /\ \A r \in Callers : plan[r] = NoPlan
        /\ \A t \in Targets, c \in Checks : result[t][c] = NotYet

\* Only checks of the job run, are retried or have a result, and only of its targets.
OfJob(t) ==
    /\ batch[t] \subseteq selected /\ (t \notin chosen => batch[t] = {})
    /\ \A r \in Callers : plan[r] # NoPlan =>
           plan[r][t] \subseteq selected /\ (t \notin chosen => plan[r][t] = {})
    /\ \A c \in Checks : result[t][c] # NotYet => c \in selected /\ t \in chosen

HasResult(t, c) == result[t][c] \notin {NotYet, "running"}

\* The checks that have left their first phase are those of the round, and the gate
\* holds only checks of a target whose goroutine awaits them.
Placed(t) ==
    /\ step[t] = "idle" => batch[t] = {}
    /\ \A c \in Checks : phase[t][c] # "wait" => c \in batch[t] /\ step[t] \notin {"idle", "start"}
    /\ \A c \in Checks : phase[t][c] \in {"queued", "executing"} => step[t] = "loop"

\* What has left its first phase was ready.
Ordered(t) == \A c \in batch[t] : phase[t][c] # "wait" => DepsReady(t, phase[t], c)

\* While the goroutine runs and nobody cancels, what waits is not ready, and what has
\* finished has its result.
Driven(t) ==
    step[t] = "loop" /\ ~stopped =>
        \A c \in batch[t] : /\ phase[t][c] = "wait" => ~DepsReady(t, phase[t], c)
                            /\ phase[t][c] = "finished" => HasResult(t, c)

\* A goroutine that has ended has run all its checks, unless it was cut.
Ended(t) ==
    /\ cut[t] => t \in everCut
    /\ step[t] \in {"persist", "done"} /\ ~cut[t] =>
           \A c \in batch[t] : phase[t][c] = "finished" /\ HasResult(t, c)

\* A set of checks holds all that need one of them.
Upward(S) == \A c \in selected : Requires[c] \cap S # {} => c \in S

Clean(t) == t \in chosen \ everCut /\ ~(stopped /\ step[t] \in {"start", "loop"})
Settled(t, c) == c \notin batch[t] \/ phase[t][c] = "finished"

\* Every batch, planned or running, takes along what needs its checks, so a check is
\* blocked exactly when a prerequisite was not answered.
Explained(t) ==
    /\ t \in chosen \ everCut => Upward(batch[t])
    /\ t \in chosen \ everCut => \A r \in Callers : plan[r] # NoPlan => Upward(plan[r][t])
    /\ Clean(t) => \A c \in selected : Settled(t, c) =>
           /\ HasResult(t, c)
           /\ (result[t][c] = "blocked") <=> (\E d \in Requires[c] : result[t][d] # "answered")

OfTarget(t) ==
    OfJob(t) /\ Placed(t) /\ Ordered(t) /\ Driven(t) /\ Ended(t) /\ Explained(t)

IInv == Shape /\ Quiet /\ Blank /\ HistoryIsWhole /\ \A t \in Targets : OfTarget(t)

-----------------------------------------------------------------------------
(***************************************************************************)
(* Helpers                                                                 *)
(***************************************************************************)
\* The trimmed history is made of records of the history (model_detection_repo.go).
LEMMA TrimKeeps ==
    ASSUME DetectAssumption, NEW h \in Seq(Record)
    PROVE  /\ DeleteBeyondLatest(h) \in Seq(Record)
           /\ \A i \in DOMAIN DeleteBeyondLatest(h) :
                 \E j \in DOMAIN h : DeleteBeyondLatest(h)[i] = h[j]
  <1> DEFINE d == DeleteBeyondLatest(h)
             first == Len(h) - Keep + 1
  <1>1. Keep \in Nat \ {0} /\ Len(h) \in Nat
    BY DEF DetectAssumption
  <1>2. CASE ~(Len(h) > Keep)
    BY <1>2 DEF DeleteBeyondLatest
  <1>3. CASE Len(h) > Keep
    <2>1. d = SubSeq(h, first, Len(h))
      BY <1>3 DEF DeleteBeyondLatest
    <2>2. first \in 1..Len(h)
      BY <1>1, <1>3
    <2>3. \A k \in first..Len(h) : k \in DOMAIN h /\ h[k] \in Record
      BY <1>1, <2>2
    <2>4. d = [i \in 1..Keep |-> h[i + first - 1]]
      BY <1>1, <2>1, <2>2
    <2>5. \A i \in 1..Keep : i + first - 1 \in first..Len(h)
      BY <1>1, <2>2
    <2> QED BY <1>1, <2>1, <2>2, <2>3, <2>4, <2>5
  <1> QED BY <1>2, <1>3

\* startReady puts checks of the batch that wait and are ready into the queue, all of
\* them unless the round is cancelled, and touches no other.
LEMMA StartedQueues ==
    ASSUME NEW t \in Targets, NEW ph \in [Checks -> Phases]
    PROVE  /\ Started(t, ph) \in [Checks -> Phases]
           /\ \A c \in Checks : \/ Started(t, ph)[c] = ph[c]
                                \/ /\ Started(t, ph)[c] = "queued"
                                   /\ c \in batch[t] /\ ph[c] = "wait"
                                   /\ DepsReady(t, ph, c) /\ ~stopped
           /\ \A c \in batch[t] : c \in Checks /\ ~stopped /\ Started(t, ph)[c] = "wait" =>
                                  ph[c] = "wait" /\ ~DepsReady(t, ph, c)
  BY DEF Started, Phases

\* Whether a check may start depends only on which checks have finished, and stays true.
LEMMA ReadyByFinished ==
    ASSUME Shape, NEW t \in Targets, NEW c \in Checks, NEW ph, NEW next,
           Requires \in [Checks -> SUBSET Checks],
           \A d \in Checks : ph[d] = "finished" => next[d] = "finished"
    PROVE  /\ DepsReady(t, ph, c) => DepsReady(t, next, c)
           /\ (\A d \in Checks : next[d] = "finished" => ph[d] = "finished") =>
                  (DepsReady(t, next, c) => DepsReady(t, ph, c))
  <1>1. /\ batch[t] \subseteq Checks /\ Scored(batch[t]) \subseteq Checks
        /\ Requires[c] \subseteq Checks
    BY DEF Shape, Plans, Scored
  <1> QED BY <1>1 DEF DepsReady, Finished

\* A record is written for a target all of whose scored checks have a result (persistable).
LEMMA PersistableIsWhole ==
    ASSUME Shape, NEW t \in Targets, Persistable(t), NEW c \in Scored(selected)
    PROVE  result[t][c] \notin {NotYet, "running"}
  BY DEF Persistable, Complete, MissingChecks, Scored

\* Every step of a target's goroutine is taken while the round runs.
LEMMA WorkingRuns ==
    ASSUME Shape, Quiet, NEW t \in Targets, step[t] \in {"start", "loop", "persist"}
    PROVE  status = "running"
  BY DEF Quiet

\* A goroutine that nobody cut and that holds no check any more has run all of them:
\* among those that would still wait there would be one that nothing holds back.
LEMMA NothingLeftBehind ==
    ASSUME DetectAssumption, CatalogueAssumption, Shape, NEW t \in Targets,
           step[t] = "loop", ~stopped, Idle(t), Driven(t)
    PROVE  \A c \in batch[t] : phase[t][c] = "finished" /\ HasResult(t, c)
  <1> DEFINE W == {c \in batch[t] : phase[t][c] = "wait"}
             S == W \ Informational
  <1>1. batch[t] \subseteq Checks /\ W \in SUBSET Checks /\ S \in SUBSET Checks
    BY DEF Shape, Plans
  <1>2. \A c \in batch[t] : phase[t][c] = "finished" \/ c \in W
    BY DEF Idle
  <1>3. S = {}
    <2> SUFFICES ASSUME S # {} PROVE FALSE
      OBVIOUS
    <2>1. PICK c \in S : Requires[c] \cap S = {}
      BY <1>1 DEF CatalogueAssumption
    <2>2. Requires[c] \cap Informational = {}
      BY <1>1 DEF CatalogueAssumption
    <2>3. DepsReady(t, phase[t], c)
      BY <1>2, <2>1, <2>2 DEF DepsReady, Finished
    <2> QED BY <2>3 DEF Driven
  <1>4. W = {}
    <2> SUFFICES ASSUME W # {} PROVE FALSE
      OBVIOUS
    <2>1. PICK c \in W : Requires[c] \cap W = {}
      BY <1>1 DEF CatalogueAssumption
    <2>2. DepsReady(t, phase[t], c)
      BY <1>2, <1>3, <2>1 DEF DepsReady, Finished, Scored
    <2> QED BY <2>2 DEF Driven
  <1> QED BY <1>2, <1>4 DEF Driven

\* What ExpandRetryIDs adds to a seed is all that needs a check of it and was blocked
\* or failed, and nothing that was answered.
LEMMA ExpandedIsUpward ==
    ASSUME Shape, NEW t \in Targets, t \in chosen \ everCut, Explained(t), Clean(t),
           \A c \in selected : Settled(t, c),
           NEW seed, seed \subseteq {c \in selected : result[t][c] # "answered"}
    PROVE  Upward(ExpandRetryIDs(t, seed))
  <1> DEFINE p == ExpandRetryIDs(t, seed)
             open == {c \in selected : result[t][c] # "answered"}
  <1>1. p \subseteq open
    <2>1. seed \subseteq open /\ open \in SUBSET selected
      OBVIOUS
    <2>2. Follows(t, open)
      BY DEF Follows, shouldFollowRetry, RequestFailed
    <2> QED BY <2>1, <2>2 DEF ExpandRetryIDs
  <1>2. SUFFICES ASSUME NEW c \in selected, NEW d \in Requires[c] \cap p PROVE c \in p
    BY DEF Upward
  <1>3. result[t][c] = "blocked"
    BY <1>1, <1>2 DEF Explained
  <1>4. \A T \in SUBSET selected : seed \subseteq T /\ Follows(t, T) => c \in T
    BY <1>2, <1>3 DEF Follows, shouldFollowRetry, ExpandRetryIDs
  <1> QED BY <1>4 DEF ExpandRetryIDs

-----------------------------------------------------------------------------
(***************************************************************************)
(* Steps                                                                   *)
(***************************************************************************)
\* A job that has not started satisfies the invariant.
LEMMA InvInit == DetectAssumption /\ Init => IInv
  <1> SUFFICES ASSUME DetectAssumption, Init PROVE IInv
    OBVIOUS
  <1>1. Shape
    <2>1. step \in [Targets -> Steps] /\ batch \in Plans /\ cut \in [Targets -> BOOLEAN]
      BY DEF Init, Steps, Empty, Plans
    <2>2. /\ phase \in [Targets -> [Checks -> Phases]]
          /\ result \in [Targets -> [Checks -> Results]]
      BY DEF Init, Phases, Results
    <2>3. plan \in [Callers -> Plans \cup {NoPlan}] /\ history \in Seq(Record)
      BY DEF Init
    <2> QED BY <2>1, <2>2, <2>3 DEF Init, Shape
  <1>2. Quiet /\ Blank /\ HistoryIsWhole
    BY DEF Init, Quiet, Blank, HistoryIsWhole
  <1>3. ASSUME NEW t \in Targets PROVE OfTarget(t)
    BY DEF Init, Empty, OfTarget, OfJob, Placed, Ordered, Driven, Ended, Explained, Upward, Clean,
           NotYet
  <1> QED BY <1>1, <1>2, <1>3 DEF IInv

\* A step of one target leaves another as it was.
LEMMA OtherTarget ==
    ASSUME NEW u \in Targets, OfTarget(u),
           step'[u] = step[u], phase'[u] = phase[u], result'[u] = result[u], cut'[u] = cut[u],
           u \in everCut' <=> u \in everCut,
           UNCHANGED <<batch, stopped, chosen, selected, plan>>
    PROVE  OfTarget(u)'
  <1>1. OfJob(u)' /\ Placed(u)' /\ Ended(u)'
    BY DEF OfTarget, OfJob, Placed, Ended, HasResult
  <1>2. Ordered(u)' /\ Driven(u)'
    BY DEF OfTarget, Ordered, Driven, DepsReady, Finished, HasResult
  <1>3. Explained(u)'
    BY DEF OfTarget, Explained, Upward, Clean, Settled, HasResult
  <1> QED BY <1>1, <1>2, <1>3 DEF OfTarget

\* A round begins: every goroutine is at its start, and every check waits.
LEMMA RoundBegins ==
    ASSUME NEW p \in Plans, Begins(p), NEW t \in Targets
    PROVE  /\ status' = "running" /\ stopped' = FALSE /\ batch'[t] = p[t] /\ cut'[t] = FALSE
           /\ step'[t] \in {"idle", "start"} /\ (step'[t] = "idle" => p[t] = {})
           /\ \A c \in Checks : phase'[t][c] = "wait"
           /\ batch' \in Plans /\ step' \in [Targets -> Steps] /\ cut' \in [Targets -> BOOLEAN]
           /\ phase' \in [Targets -> [Checks -> Phases]]
  BY DEF Begins, Plans, Steps, Phases

\* The first round runs all its checks (Start).
LEMMA StartStep == ASSUME DetectAssumption, IInv, Start PROVE IInv'
  <1> USE DEF IInv
  <1>1. PICK s, picked :
            /\ selected' = ResolveSuiteCheckIDs(s, picked)
            /\ chosen' \in SUBSET Targets \ {{}}
            /\ Begins([t \in Targets |-> IF t \in chosen' THEN selected' ELSE {}])
    BY DEF Start
  <1> DEFINE p == [t \in Targets |-> IF t \in chosen' THEN selected' ELSE {}]
  <1>2. selected' \subseteq Checks
    BY <1>1 DEF ResolveSuiteCheckIDs, ResolveCheckIDs
  <1>3. p \in Plans
    BY <1>2 DEF Plans
  <1>4. status = NotYet /\ UNCHANGED <<result, plan, history, everCut>>
    BY DEF Start
  <1>5. Shape'
    BY <1>1, <1>2, <1>3, <1>4, RoundBegins, chosen' \subseteq Targets, Targets # {}
       DEF Shape, DetectAssumption
  <1>6. Quiet' /\ Blank' /\ HistoryIsWhole'
    BY <1>1, <1>4 DEF Begins, Quiet, Blank, HistoryIsWhole, NotYet
  <1>7. ASSUME NEW t \in Targets PROVE OfTarget(t)'
    <2> HIDE DEF p
    <2>1. /\ stopped' = FALSE /\ batch'[t] = p[t] /\ cut'[t] = FALSE
          /\ step'[t] \in {"idle", "start"} /\ (step'[t] = "idle" => p[t] = {})
          /\ \A c \in Checks : phase'[t][c] = "wait"
      BY <1>1, <1>3, RoundBegins DEF p
    <2>2. p[t] = IF t \in chosen' THEN selected' ELSE {}
      BY DEF p
    <2>3. \A c \in Checks : result'[t][c] = NotYet
      BY <1>4 DEF Blank
    <2>4. \A r \in Callers : plan'[r] = NoPlan
      BY <1>4 DEF Blank
    <2>5. OfJob(t)' /\ Placed(t)' /\ Driven(t)' /\ Ended(t)'
      BY <2>1, <2>2, <2>3, <2>4 DEF OfJob, Placed, Driven, Ended
    <2>6. Ordered(t)'
      BY <1>2, <2>1, <2>2 DEF Ordered
    <2>7. Explained(t)'
      BY <1>2, <2>1, <2>2, <2>4 DEF Explained, Upward, Clean, Settled
    <2> QED BY <2>5, <2>6, <2>7 DEF OfTarget
  <1> QED BY <1>5, <1>6, <1>7

\* Between rounds every goroutine of a target that was never cut has run all its checks.
LEMMA AllSettled ==
    ASSUME IInv, status # "running", NEW t \in chosen \ everCut
    PROVE  Clean(t) /\ \A c \in selected : Settled(t, c)
  <1>1. t \in Targets /\ step[t] \in {"idle", "done"} /\ OfTarget(t)
    BY DEF IInv, Quiet, Shape
  <1>2. Clean(t)
    BY <1>1 DEF Clean
  <1>3. \A c \in batch[t] : phase[t][c] = "finished"
    BY <1>1 DEF OfTarget, Placed, Ended, Shape, IInv
  <1> QED BY <1>2, <1>3 DEF Settled

\* A retry takes along all that needs one of its checks (planRetry).
LEMMA PlanRetryStep ==
    ASSUME DetectAssumption, IInv, NEW r \in Callers, PlanRetry(r) PROVE IInv'
  <1> USE DEF IInv
  <1>1. PICK T \in SUBSET chosen, c \in Checks \cup {NotYet} :
            /\ c # NotYet => \A t \in T : RequestFailed(t, c)
            /\ plan' = [plan EXCEPT ![r] = RetryPlan(T, c)]
    BY DEF PlanRetry
  <1> DEFINE p == RetryPlan(T, c)
  <1>2. /\ status \notin {NotYet, "running"}
        /\ UNCHANGED <<job, targets, result, history, bounds, everCut>>
    BY DEF PlanRetry
  <1>3. \A t \in Targets : p[t] = IF t \in T THEN ExpandRetryIDs(t, Seed(t, c)) ELSE {}
    BY DEF RetryPlan
  <1>4. \A t \in Targets : p[t] \subseteq selected
    BY <1>3 DEF ExpandRetryIDs
  <1>5. p \in Plans
    BY <1>4 DEF Shape, Plans, RetryPlan
  <1>6. Shape'
    BY <1>1, <1>2, <1>5 DEF Shape, job, targets
  <1>7. Quiet' /\ Blank' /\ HistoryIsWhole'
    BY <1>2 DEF Quiet, Blank, HistoryIsWhole, job, targets, Scored
  <1>8. ASSUME NEW t \in chosen \ everCut PROVE Upward(p[t])
    <2>1. t \in Targets /\ OfTarget(t)
      BY DEF Shape
    <2>2. CASE t \notin T
      BY <1>3, <2>1, <2>2 DEF Upward
    <2>3. CASE t \in T
      <3>1. Seed(t, c) \subseteq {d \in selected : result[t][d] # "answered"}
        BY <1>1, <2>1, <2>3 DEF Seed, RequestFailed, MissingChecks, OfTarget, OfJob, NotYet
      <3>2. Upward(ExpandRetryIDs(t, Seed(t, c)))
        BY <1>2, <2>1, <3>1, AllSettled, ExpandedIsUpward DEF OfTarget
      <3> QED BY <1>3, <2>1, <2>3, <3>2
    <2> QED BY <2>2, <2>3
  <1>9. ASSUME NEW t \in Targets PROVE OfTarget(t)'
    <2> HIDE DEF p
    <2>1. OfTarget(t)
      OBVIOUS
    <2>2. \A q \in Callers : plan'[q] = IF q = r THEN p ELSE plan[q]
      BY <1>1 DEF Shape, p
    <2>3. UNCHANGED <<chosen, selected, stopped, step, batch, phase, cut, result, everCut>>
      BY <1>2 DEF job, targets
    <2>4. t \notin chosen => p[t] = {}
      BY <1>3
    <2>5. OfJob(t)'
      BY <1>4, <2>1, <2>2, <2>3, <2>4 DEF OfTarget, OfJob
    <2>6. Placed(t)' /\ Driven(t)' /\ Ended(t)' /\ Ordered(t)'
      BY <2>1, <2>3 DEF OfTarget, Placed, Driven, Ended, Ordered, DepsReady, Finished, HasResult
    <2>7. Explained(t)'
      BY <1>8, <2>1, <2>2, <2>3 DEF OfTarget, Explained, Upward, Clean, Settled, HasResult
    <2> QED BY <2>5, <2>6, <2>7 DEF OfTarget
  <1> QED BY <1>6, <1>7, <1>9

\* A retry that was planned begins, whatever other retries did since (beginRetry).
LEMMA BeginRetryStep ==
    ASSUME DetectAssumption, IInv, NEW r \in Callers, BeginRetry(r) PROVE IInv'
  <1> USE DEF IInv
  <1> DEFINE p == plan[r]
  <1>1. /\ p # NoPlan /\ status # "running" /\ Begins(p)
        /\ plan' = [plan EXCEPT ![r] = NoPlan]
        /\ UNCHANGED <<chosen, selected, result, history, everCut>>
    BY DEF BeginRetry
  <1>2. p \in Plans
    BY <1>1 DEF Shape
  <1>3. NoPlan \in Plans \cup {NoPlan}
    OBVIOUS
  <1>4. plan' \in [Callers -> Plans \cup {NoPlan}]
    BY <1>1, <1>3 DEF Shape
  <1>5. Shape'
    BY <1>1, <1>2, <1>4, RoundBegins, Targets # {} DEF Shape, DetectAssumption
  <1>6. Quiet' /\ Blank' /\ HistoryIsWhole'
    BY <1>1 DEF Begins, Quiet, Blank, HistoryIsWhole, NotYet, Scored
  <1>7. ASSUME NEW t \in Targets PROVE OfTarget(t)'
    <2> HIDE DEF p
    <2>1. /\ stopped' = FALSE /\ batch'[t] = p[t] /\ cut'[t] = FALSE
          /\ step'[t] \in {"idle", "start"} /\ (step'[t] = "idle" => p[t] = {})
          /\ \A c \in Checks : phase'[t][c] = "wait"
      BY <1>1, <1>2, RoundBegins
    <2>2. OfTarget(t)
      OBVIOUS
    <2>3. \A q \in Callers : plan'[q] = IF q = r THEN NoPlan ELSE plan[q]
      BY <1>1 DEF Shape
    <2>4. /\ p[t] \subseteq selected /\ p[t] \subseteq Checks
          /\ t \notin chosen => p[t] = {}
          /\ t \in chosen \ everCut => Upward(p[t])
      BY <1>1, <2>2 DEF p, OfTarget, OfJob, Explained, Shape
    <2>5. OfJob(t)' /\ Placed(t)' /\ Driven(t)' /\ Ended(t)'
      BY <1>1, <2>1, <2>2, <2>3, <2>4 DEF OfTarget, OfJob, Placed, Driven, Ended
    <2>6. Ordered(t)'
      BY <2>1, <2>4 DEF Ordered
    <2>7. t \in chosen \ everCut => Clean(t) /\ \A c \in selected : Settled(t, c)
      BY <1>1, AllSettled
    <2>8. Explained(t)'
      BY <1>1, <2>1, <2>2, <2>3, <2>4, <2>7
         DEF OfTarget, Explained, Upward, Clean, Settled, HasResult
    <2> QED BY <2>5, <2>6, <2>8 DEF OfTarget
  <1> QED BY <1>5, <1>6, <1>7

\* A step of a goroutine changes its own target only.
LEMMA WorkIsLocal ==
    ASSUME Shape, NEW t \in Targets, Work(t)
    PROVE  /\ UNCHANGED <<status, chosen, selected, stopped, batch, plan, runs>>
           /\ \A u \in Targets \ {t} :
                  /\ step'[u] = step[u] /\ phase'[u] = phase[u] /\ result'[u] = result[u]
                  /\ cut'[u] = cut[u] /\ (u \in everCut' <=> u \in everCut)
  <1> USE DEF job, bounds, Shape
  <1>1. CASE StartReady(t)
    BY <1>1 DEF StartReady
  <1>2. CASE Conclude(t)
    BY <1>2 DEF Conclude
  <1>3. CASE Persist(t)
    BY <1>3 DEF Persist
  <1>4. ASSUME NEW c \in Checks, Acquire(t, c) \/ Outcome(t, c) \/ NoPlace(t, c)
        PROVE  /\ UNCHANGED <<status, chosen, selected, stopped, batch, plan, runs>>
               /\ UNCHANGED <<step, cut, everCut>>
               /\ \A u \in Targets \ {t} : phase'[u] = phase[u] /\ result'[u] = result[u]
    BY <1>4 DEF Acquire, Outcome, NoPlace, Leave
  <1> QED BY <1>1, <1>2, <1>3, <1>4 DEF Work

\* A record is only ever added for a target whose scored checks all have a result.
LEMMA HistoryStep ==
    ASSUME DetectAssumption, Shape, HistoryIsWhole, NEW t \in Targets, Persist(t)
    PROVE  history' \in Seq(Record) /\ HistoryIsWhole'
  <1> DEFINE made == [target |-> t, result |-> result[t]]
             longer == Append(history, made)
  <1>1. selected' = selected
    BY DEF Persist, job
  <1>2. made \in Record /\ longer \in Seq(Record)
    BY DEF Shape, Record
  <1>3. CASE UNCHANGED history
    BY <1>1, <1>3 DEF Shape, HistoryIsWhole, Scored
  <1>4. CASE Persistable(t) /\ history' \in {longer, DeleteBeyondLatest(longer)}
    <2>1. ASSUME NEW j \in DOMAIN longer, NEW c \in Scored(selected)
          PROVE  longer[j].result[c] \notin {NotYet, "running"}
      <3>1. CASE j \in DOMAIN history
        BY <3>1, longer[j] = history[j] DEF HistoryIsWhole, Shape
      <3>2. CASE j \notin DOMAIN history
        <4>1. /\ DOMAIN longer = 1..Len(history) + 1 /\ Len(history) \in Nat
              /\ DOMAIN history = 1..Len(history)
              /\ longer[Len(history) + 1] = made
          BY <1>2 DEF Shape
        <4>2. longer[j] = made
          BY <3>2, <4>1
        <4> QED BY <1>4, <4>2, PersistableIsWhole
      <3> QED BY <3>1, <3>2
    <2> HIDE DEF longer
    <2>2. /\ DeleteBeyondLatest(longer) \in Seq(Record)
          /\ \A i \in DOMAIN DeleteBeyondLatest(longer) :
                \E j \in DOMAIN longer : DeleteBeyondLatest(longer)[i] = longer[j]
      BY <1>2, TrimKeeps
    <2>3. /\ history' \in Seq(Record)
          /\ \A i \in DOMAIN history' : \E j \in DOMAIN longer : history'[i] = longer[j]
      <3>1. CASE history' = longer
        BY <1>2, <3>1
      <3>2. CASE history' = DeleteBeyondLatest(longer)
        BY <2>2, <3>2
      <3> QED BY <1>4, <3>1, <3>2
    <2> QED BY <1>1, <2>1, <2>3 DEF HistoryIsWhole, Scored
  <1> QED BY <1>3, <1>4 DEF Persist

\* What startReady makes of the phases keeps the order, and drives on.
LEMMA StartedKeeps ==
    ASSUME DetectAssumption, IInv, NEW t \in Targets, step'[t] = "loop",
           UNCHANGED <<batch, stopped>>,
           NEW ph \in [Checks -> Phases], phase'[t] = Started(t, ph),
           \A c \in Checks : phase[t][c] = "finished" => ph[c] = "finished",
           \A c \in batch[t] : ph[c] # "wait" => DepsReady(t, ph, c),
           \A c \in Checks : ph[c] # "wait" => c \in batch[t]
    PROVE  /\ Ordered(t)' /\ Placed(t)'
           /\ ~stopped => \A c \in batch[t] : phase'[t][c] = "wait" => ~DepsReady(t, phase[t], c)'
           /\ \A c \in Checks : phase'[t][c] = "finished" <=> ph[c] = "finished"
  <1> DEFINE next == Started(t, ph)
  <1>1. Shape /\ batch[t] \subseteq Checks /\ Requires \in [Checks -> SUBSET Checks]
    BY DEF IInv, Shape, Plans, DetectAssumption
  <1>2. /\ next \in [Checks -> Phases]
        /\ \A c \in Checks : \/ next[c] = ph[c]
                             \/ /\ next[c] = "queued" /\ c \in batch[t] /\ ph[c] = "wait"
                                /\ DepsReady(t, ph, c) /\ ~stopped
        /\ \A c \in batch[t] : ~stopped /\ next[c] = "wait" => ~DepsReady(t, ph, c)
    BY <1>1, StartedQueues
  <1> HIDE DEF next
  <1>3. \A c \in Checks : next[c] = "finished" <=> ph[c] = "finished"
    BY <1>2
  <1>4. \A c \in Checks : DepsReady(t, ph, c) <=> DepsReady(t, next, c)
    BY <1>1, <1>3, ReadyByFinished
  <1>5. \A c \in Checks : DepsReady(t, phase[t], c)' <=> DepsReady(t, next, c)
    BY DEF DepsReady, Finished, Scored, next
  <1>6. phase'[t] = next
    BY DEF next
  <1>7. Ordered(t)'
    BY <1>1, <1>2, <1>4, <1>5, <1>6 DEF Ordered
  <1>8. Placed(t)'
    BY <1>2, <1>6 DEF Placed
  <1> QED BY <1>1, <1>2, <1>3, <1>4, <1>5, <1>6, <1>7, <1>8

\* The goroutine of a target starts with the checks that need no other.
LEMMA StartReadyStep ==
    ASSUME DetectAssumption, IInv, NEW t \in Targets, StartReady(t)
    PROVE  /\ OfTarget(t)' /\ step' \in [Targets -> Steps]
           /\ phase' \in [Targets -> [Checks -> Phases]]
  <1>1. /\ step[t] = "start" /\ step'[t] = "loop" /\ step' \in [Targets -> Steps]
        /\ phase[t] \in [Checks -> Phases] /\ phase'[t] = Started(t, phase[t])
        /\ phase' = [phase EXCEPT ![t] = Started(t, phase[t])]
        /\ UNCHANGED <<chosen, selected, stopped, batch, cut, result, plan, everCut>>
    BY DEF StartReady, job, IInv, Shape, Steps
  <1>2. OfTarget(t) /\ \A c \in Checks : phase[t][c] = "wait"
    BY <1>1 DEF IInv, OfTarget, Placed
  <1>3. batch[t] \subseteq Checks
    BY DEF IInv, Shape, Plans
  <1>4. /\ Ordered(t)' /\ Placed(t)'
        /\ ~stopped => \A c \in batch[t] : phase'[t][c] = "wait" => ~DepsReady(t, phase[t], c)'
        /\ \A c \in Checks : phase'[t][c] = "finished" <=> phase[t][c] = "finished"
    BY <1>1, <1>2, <1>3, StartedKeeps
  <1>5. phase' \in [Targets -> [Checks -> Phases]]
    BY <1>1, StartedQueues DEF IInv, Shape
  <1>6. OfJob(t)' /\ Driven(t)' /\ Ended(t)'
    BY <1>1, <1>2, <1>3, <1>4 DEF OfTarget, OfJob, Driven, Ended
  <1>7. Explained(t)'
    BY <1>1, <1>2, <1>4 DEF OfTarget, Explained, Upward, Clean, Settled, HasResult, IInv, Shape
  <1> QED BY <1>1, <1>4, <1>5, <1>6, <1>7 DEF OfTarget

\* A check passes the gate.
LEMMA AcquireStep ==
    ASSUME DetectAssumption, IInv, NEW t \in Targets, NEW c \in Checks, Acquire(t, c)
    PROVE  OfTarget(t)' /\ phase' \in [Targets -> [Checks -> Phases]]
                        /\ result' \in [Targets -> [Checks -> Results]]
  <1>1. /\ phase[t][c] = "queued"
        /\ \A d \in Checks : phase'[t][d] = IF d = c THEN "executing" ELSE phase[t][d]
        /\ \A d \in Checks : result'[t][d] = IF d = c THEN "running" ELSE result[t][d]
        /\ UNCHANGED <<chosen, selected, stopped, step, batch, cut, plan, everCut>>
    BY DEF Acquire, job, IInv, Shape
  <1>2. phase' \in [Targets -> [Checks -> Phases]] /\ result' \in [Targets -> [Checks -> Results]]
    BY DEF Acquire, IInv, Shape, Phases, Results
  <1>3. OfTarget(t) /\ batch[t] \subseteq Checks /\ Requires \in [Checks -> SUBSET Checks]
    BY DEF IInv, Shape, Plans, DetectAssumption
  <1>4. c \in batch[t] /\ step[t] = "loop" /\ c \in selected /\ t \in chosen
    BY <1>1, <1>3 DEF OfTarget, Placed, OfJob
  <1>5. \A d \in Checks : DepsReady(t, phase[t], d)' <=> DepsReady(t, phase[t], d)
    BY <1>1, <1>3 DEF DepsReady, Finished, Scored
  <1>6. OfJob(t)' /\ Placed(t)' /\ Ended(t)'
    BY <1>1, <1>3, <1>4 DEF OfTarget, OfJob, Placed, Ended
  <1>7. Ordered(t)'
    BY <1>1, <1>3, <1>5 DEF OfTarget, Ordered
  <1>8. Driven(t)'
    BY <1>1, <1>3, <1>5 DEF OfTarget, Driven, HasResult
  <1>9. ASSUME NEW d \in selected, Settled(t, d)', Clean(t)'
        PROVE  Settled(t, d) /\ Clean(t) /\ d # c /\ \A e \in Requires[d] : e # c
    <2>1. d \in Checks
      BY DEF IInv, Shape
    <2>2. Settled(t, d) /\ Clean(t) /\ d # c
      BY <1>1, <1>4, <1>9, <2>1 DEF Settled, Clean
    <2>3. c \in Requires[d] => FALSE
      <3>1. CASE d \in batch[t]
        BY <1>1, <1>3, <1>4, <2>1, <2>2, <3>1 DEF OfTarget, Ordered, Settled, DepsReady, Finished
      <3>2. CASE d \notin batch[t]
        BY <1>3, <1>4, <2>1, <2>2, <3>2 DEF OfTarget, Explained, Upward, Clean
      <3> QED BY <3>1, <3>2
    <2> QED BY <2>2, <2>3
  <1>10. Explained(t)'
    <2>1. t \in chosen \ everCut => Upward(batch[t])
      BY <1>3 DEF OfTarget, Explained
    <2>2. ASSUME NEW d \in selected, Settled(t, d)', Clean(t)'
          PROVE  /\ HasResult(t, d)'
                 /\ (result'[t][d] = "blocked") <=>
                        (\E e \in Requires[d] : result'[t][e] # "answered")
      <3>1. Settled(t, d) /\ Clean(t) /\ d # c /\ (\A e \in Requires[d] : e # c)
        BY <1>9, <2>2
      <3>2. d \in Checks /\ Requires[d] \subseteq Checks
        BY <1>3 DEF IInv, Shape
      <3> QED BY <1>1, <1>3, <3>1, <3>2 DEF OfTarget, Explained, HasResult
    <2> QED BY <1>1, <1>3, <2>1, <2>2 DEF OfTarget, Explained, Upward, Clean
  <1> QED BY <1>2, <1>6, <1>7, <1>8, <1>10 DEF OfTarget

\* A check leaves the gate, or the queue of a cancelled round, and startReady looks again.
LEMMA LeaveStep ==
    ASSUME DetectAssumption, CatalogueAssumption, IInv, NEW t \in Targets, NEW c \in Checks,
           Outcome(t, c) \/ NoPlace(t, c)
    PROVE  OfTarget(t)' /\ phase' \in [Targets -> [Checks -> Phases]]
                        /\ result' \in [Targets -> [Checks -> Results]]
  <1> DEFINE ph == [phase[t] EXCEPT ![c] = "finished"]
  <1>1. /\ phase[t][c] \in {"queued", "executing"}
        /\ phase' = [phase EXCEPT ![t] = Started(t, ph)] /\ phase'[t] = Started(t, ph)
        /\ UNCHANGED <<chosen, selected, stopped, step, batch, cut, plan, everCut>>
    BY DEF Outcome, NoPlace, Leave, job, IInv, Shape
  <1>2. /\ ph \in [Checks -> Phases]
        /\ \A d \in Checks : ph[d] = IF d = c THEN "finished" ELSE phase[t][d]
    BY DEF IInv, Shape, Phases
  <1>3. \/ phase[t][c] = "queued" /\ stopped /\ UNCHANGED result
        \/ /\ phase[t][c] = "executing"
           /\ \E res \in Outcomes(t, c) : result' = [result EXCEPT ![t][c] = res]
    BY DEF Outcome, NoPlace
  <1> HIDE DEF ph
  <1>4. /\ phase' \in [Targets -> [Checks -> Phases]]
        /\ result' \in [Targets -> [Checks -> Results]]
    <2>1. phase' \in [Targets -> [Checks -> Phases]]
      BY <1>1, <1>2, StartedQueues DEF IInv, Shape
    <2>2. ASSUME UNCHANGED result PROVE result' \in [Targets -> [Checks -> Results]]
      BY <2>2 DEF IInv, Shape
    <2>3. ASSUME \E res \in Outcomes(t, c) : result' = [result EXCEPT ![t][c] = res]
          PROVE  result' \in [Targets -> [Checks -> Results]]
      <3>1. PICK res \in Results : result' = [result EXCEPT ![t][c] = res]
        BY <2>3 DEF Outcomes, Results
      <3> QED BY <3>1 DEF IInv, Shape
    <2> QED BY <1>3, <2>1, <2>2, <2>3
  <1>5. \A d \in Checks : d # c => result'[t][d] = result[t][d]
    BY <1>3 DEF IInv, Shape
  <1>6. OfTarget(t) /\ batch[t] \subseteq Checks /\ Requires \in [Checks -> SUBSET Checks]
    BY DEF IInv, Shape, Plans, DetectAssumption
  <1>7. c \in batch[t] /\ step[t] = "loop" /\ c \in selected /\ t \in chosen
    BY <1>1, <1>6 DEF OfTarget, Placed, OfJob
  <1>8. \A d \in batch[t] : ph[d] # "wait" => DepsReady(t, ph, d)
    <2>1. \A d \in Checks : phase[t][d] = "finished" => ph[d] = "finished"
      BY <1>2
    <2>2. \A d \in batch[t] : ph[d] # "wait" => DepsReady(t, phase[t], d)
      BY <1>1, <1>2, <1>6, <1>7 DEF OfTarget, Ordered
    <2> QED BY <1>6, <2>1, <2>2, ReadyByFinished DEF IInv
  <1>9. \A d \in Checks : ph[d] # "wait" => d \in batch[t]
    BY <1>2, <1>6, <1>7 DEF OfTarget, Placed
  <1>10. /\ Ordered(t)' /\ Placed(t)'
         /\ ~stopped => \A d \in batch[t] : phase'[t][d] = "wait" => ~DepsReady(t, phase[t], d)'
         /\ \A d \in Checks : phase'[t][d] = "finished" <=> ph[d] = "finished"
    BY <1>1, <1>2, <1>7, <1>8, <1>9, StartedKeeps
  <1>11. OfJob(t)' /\ Ended(t)'
    BY <1>1, <1>5, <1>6, <1>7 DEF OfTarget, OfJob, Ended
  <1>12. \* Nobody cancelled: the check has its result, and a prerequisite's absence blocks it.
         ~stopped =>
             /\ HasResult(t, c)'
             /\ (result'[t][c] = "blocked") <=> (\E e \in Requires[c] : result'[t][e] # "answered")
    <2> SUFFICES ASSUME ~stopped
                 PROVE  /\ HasResult(t, c)'
                        /\ (result'[t][c] = "blocked") <=>
                               (\E e \in Requires[c] : result'[t][e] # "answered")
      OBVIOUS
    <2>1. PICK res \in Outcomes(t, c) : result'[t][c] = res
      BY <1>3 DEF IInv, Shape
    <2>2. c \notin Requires[c]
      BY {c} \in SUBSET Checks \ {{}} DEF CatalogueAssumption
    <2>3. \A e \in Requires[c] : result'[t][e] = result[t][e]
      BY <1>5, <1>6, <2>2
    <2>4. /\ res \notin {NotYet, "running"}
          /\ res = "blocked" <=> \E e \in Requires[c] : result[t][e] # "answered"
      BY <2>1 DEF Outcomes, StateThere, NotYet
    <2> QED BY <2>1, <2>3, <2>4 DEF HasResult
  <1>13. Driven(t)'
    <2> SUFFICES ASSUME ~stopped, NEW d \in batch[t], phase'[t][d] = "finished"
                 PROVE  HasResult(t, d)'
      BY <1>1, <1>10 DEF Driven
    <2>1. CASE d = c
      BY <1>12, <2>1
    <2>2. CASE d # c
      BY <1>2, <1>5, <1>6, <1>7, <1>10, <2>2 DEF OfTarget, Driven, HasResult
    <2> QED BY <2>1, <2>2
  <1>14. ASSUME NEW d \in selected, Settled(t, d)', Clean(t)'
         PROVE  /\ HasResult(t, d)'
                /\ (result'[t][d] = "blocked") <=>
                       (\E e \in Requires[d] : result'[t][e] # "answered")
    <2>1. d \in Checks /\ Clean(t) /\ ~stopped
      BY <1>1, <1>7, <1>14 DEF IInv, Shape, Clean
    <2>2. CASE d = c
      BY <1>12, <2>1, <2>2
    <2>3. CASE d # c
      <3>1. Settled(t, d)
        BY <1>1, <1>2, <1>10, <1>14, <2>1, <2>3 DEF Settled
      <3>2. c \notin Requires[d]
        <4>1. CASE d \in batch[t]
          BY <1>1, <1>6, <1>7, <2>1, <3>1, <4>1
             DEF OfTarget, Ordered, Settled, DepsReady, Finished
        <4>2. CASE d \notin batch[t]
          BY <1>6, <1>7, <2>1, <4>2 DEF OfTarget, Explained, Upward, Clean
        <4> QED BY <4>1, <4>2
      <3> QED BY <1>5, <1>6, <2>1, <2>3, <3>1, <3>2 DEF OfTarget, Explained, HasResult
    <2> QED BY <2>2, <2>3
  <1>15. Explained(t)'
    BY <1>1, <1>6, <1>14 DEF OfTarget, Explained, Upward, Clean
  <1> QED BY <1>4, <1>10, <1>11, <1>13, <1>15 DEF OfTarget

\* A goroutine that holds no check has run all of them, or was cut.
LEMMA ConcludeStep ==
    ASSUME DetectAssumption, CatalogueAssumption, IInv, NEW t \in Targets, Conclude(t)
    PROVE  OfTarget(t)' /\ step' \in [Targets -> Steps] /\ cut' \in [Targets -> BOOLEAN]
  <1>1. /\ step[t] = "loop" /\ Idle(t) /\ step'[t] = "persist" /\ cut'[t] = stopped
        /\ t \in everCut' <=> t \in everCut \/ stopped
        /\ UNCHANGED <<chosen, selected, stopped, batch, phase, result, plan>>
    BY DEF Conclude, job, IInv, Shape
  <1>2. step' \in [Targets -> Steps] /\ cut' \in [Targets -> BOOLEAN]
    BY DEF Conclude, IInv, Shape, Steps
  <1>3. OfTarget(t) /\ batch[t] \subseteq Checks
    BY DEF IInv, Shape, Plans
  <1>4. ~stopped => \A c \in batch[t] : phase[t][c] = "finished" /\ HasResult(t, c)
    BY <1>1, <1>3, NothingLeftBehind DEF IInv, OfTarget
  <1>5. OfJob(t)' /\ Driven(t)'
    BY <1>1, <1>3 DEF OfTarget, OfJob, Driven
  <1>6. Ordered(t)'
    BY <1>1, <1>3 DEF OfTarget, Ordered, DepsReady, Finished
  <1>7. Placed(t)'
    BY <1>1, <1>3 DEF OfTarget, Placed, Idle
  <1>8. Ended(t)'
    BY <1>1, <1>4 DEF Ended, HasResult
  <1>9. Explained(t)'
    BY <1>1, <1>3 DEF OfTarget, Explained, Upward, Clean, Settled, HasResult
  <1> QED BY <1>2, <1>5, <1>6, <1>7, <1>8, <1>9 DEF OfTarget

\* A goroutine that has written its record, or not, has ended.
LEMMA PersistStep ==
    ASSUME DetectAssumption, IInv, NEW t \in Targets, Persist(t)
    PROVE  OfTarget(t)' /\ step' \in [Targets -> Steps]
  <1>1. /\ step[t] = "persist" /\ step'[t] = "done" /\ step' \in [Targets -> Steps]
        /\ UNCHANGED <<chosen, selected, stopped, batch, phase, cut, result, plan, everCut>>
    BY DEF Persist, job, IInv, Shape, Steps
  <1>2. OfTarget(t)
    BY DEF IInv
  <1>3. OfJob(t)' /\ Driven(t)' /\ Placed(t)' /\ Ended(t)'
    BY <1>1, <1>2 DEF OfTarget, OfJob, Driven, Placed, Ended, HasResult
  <1>4. Ordered(t)'
    BY <1>1, <1>2 DEF OfTarget, Ordered, DepsReady, Finished
  <1>5. Explained(t)'
    BY <1>1, <1>2 DEF OfTarget, Explained, Upward, Clean, Settled, HasResult
  <1> QED BY <1>1, <1>3, <1>4, <1>5 DEF OfTarget

\* A step of the goroutine of a target.
LEMMA WorkStep ==
    ASSUME DetectAssumption, CatalogueAssumption, IInv, NEW t \in Targets, Work(t) PROVE IInv'
  <1>1. /\ UNCHANGED <<status, chosen, selected, stopped, batch, plan>>
        /\ \A u \in Targets \ {t} :
               /\ step'[u] = step[u] /\ phase'[u] = phase[u] /\ result'[u] = result[u]
               /\ cut'[u] = cut[u] /\ (u \in everCut' <=> u \in everCut)
    BY WorkIsLocal DEF IInv
  <1>2. step[t] \in {"start", "loop", "persist"}
    BY DEF Work, StartReady, Conclude, Persist, Acquire, Outcome, NoPlace, IInv, OfTarget, Placed
  <1>3. status = "running" /\ Quiet' /\ Blank'
    BY <1>1, <1>2, WorkingRuns DEF IInv, Quiet, Blank, NotYet
  <1>4. ASSUME NEW u \in Targets, u # t PROVE OfTarget(u)'
    BY <1>1, <1>4, OtherTarget DEF IInv
  <1>5. OfTarget(t)' /\ Shape' /\ HistoryIsWhole'
    <2>1. CASE StartReady(t)
      <3>1. UNCHANGED <<cut, result, history, selected>>
        BY <2>1 DEF StartReady, job
      <3> QED BY <1>1, <2>1, <3>1, StartReadyStep DEF IInv, Shape, HistoryIsWhole, Scored
    <2>2. CASE Conclude(t)
      <3>1. UNCHANGED <<phase, result, history, selected>>
        BY <2>2 DEF Conclude, job
      <3> QED BY <1>1, <2>2, <3>1, ConcludeStep DEF IInv, Shape, HistoryIsWhole, Scored
    <2>3. CASE Persist(t)
      <3>1. UNCHANGED <<phase, cut, result>>
        BY <2>3 DEF Persist
      <3> QED BY <1>1, <2>3, <3>1, PersistStep, HistoryStep DEF IInv, Shape
    <2>4. ASSUME NEW c \in Checks, Acquire(t, c) \/ Outcome(t, c) \/ NoPlace(t, c)
          PROVE  OfTarget(t)' /\ Shape' /\ HistoryIsWhole'
      <3>1. UNCHANGED <<step, cut, history, selected>>
        BY <2>4 DEF Acquire, Outcome, NoPlace, job
      <3>2. /\ OfTarget(t)' /\ phase' \in [Targets -> [Checks -> Phases]]
            /\ result' \in [Targets -> [Checks -> Results]]
        BY <2>4, AcquireStep, LeaveStep
      <3> QED BY <1>1, <3>1, <3>2 DEF IInv, Shape, HistoryIsWhole, Scored
    <2> QED BY <2>1, <2>2, <2>3, <2>4 DEF Work
  <1> QED BY <1>3, <1>4, <1>5 DEF IInv

\* Every step keeps the invariant.
LEMMA InvStep ==
    ASSUME DetectAssumption, CatalogueAssumption, IInv, [Next]_vars PROVE IInv'
  <1>1. ASSUME UNCHANGED <<chosen, selected, step, batch, phase, result, cut, plan, history>>,
               UNCHANGED everCut,
               \/ status' = status
               \/ status = "running" /\ \A t \in Targets : step[t] \in {"idle", "done"},
               status' # NotYet \/ status = NotYet,
               stopped' = stopped \/ stopped' = TRUE
        PROVE  IInv'
    <2>1. Shape' /\ Quiet' /\ Blank' /\ HistoryIsWhole'
      BY <1>1 DEF IInv, Shape, Quiet, Blank, HistoryIsWhole, Scored
    <2>2. ASSUME NEW t \in Targets PROVE OfTarget(t)'
      BY <1>1 DEF IInv, OfTarget, OfJob, Placed, Ordered, Driven, Ended, Explained, Upward, Clean,
                  Settled, DepsReady, Finished, HasResult
    <2> QED BY <2>1, <2>2 DEF IInv
  <1>2. CASE Start
    BY <1>2, StartStep
  <1>3. CASE Cancel
    BY <1>1, <1>3 DEF Cancel, targets
  <1>4. CASE EndRound
    BY <1>1, <1>4 DEF EndRound, targets, NotYet
  <1>5. ASSUME NEW r \in Callers, PlanRetry(r) PROVE IInv'
    BY <1>5, PlanRetryStep
  <1>6. ASSUME NEW r \in Callers, BeginRetry(r) PROVE IInv'
    BY <1>6, BeginRetryStep
  <1>7. ASSUME NEW r \in Callers, RetryBusy(r) PROVE IInv'
    <2>1. /\ plan' = [plan EXCEPT ![r] = NoPlan]
          /\ UNCHANGED <<status, chosen, selected, stopped, step, batch, phase, cut>>
          /\ UNCHANGED <<result, history, everCut>>
      BY <1>7 DEF RetryBusy, job, targets
    <2>2. Shape'
      BY <2>1 DEF IInv, Shape
    <2>3. \A q \in Callers : plan'[q] = IF q = r THEN NoPlan ELSE plan[q]
      BY <2>1 DEF IInv, Shape
    <2>4. Quiet' /\ Blank' /\ HistoryIsWhole'
      BY <2>1, <2>3 DEF IInv, Quiet, Blank, HistoryIsWhole, Scored
    <2>5. ASSUME NEW t \in Targets PROVE OfTarget(t)'
      <3>1. OfTarget(t)
        BY DEF IInv
      <3>2. OfJob(t)' /\ Placed(t)' /\ Driven(t)' /\ Ended(t)' /\ Ordered(t)'
        BY <2>1, <2>3, <3>1
           DEF OfTarget, OfJob, Placed, Driven, Ended, Ordered, DepsReady, Finished, HasResult
      <3>3. Explained(t)'
        BY <2>1, <2>3, <3>1 DEF OfTarget, Explained, Upward, Clean, Settled, HasResult
      <3> QED BY <3>2, <3>3 DEF OfTarget
    <2> QED BY <2>2, <2>4, <2>5 DEF IInv
  <1>8. ASSUME NEW t \in Targets, Work(t) PROVE IInv'
    BY <1>8, WorkStep
  <1>9. CASE UNCHANGED vars
    BY <1>1, <1>9 DEF vars, job, targets
  <1> QED BY <1>2, <1>3, <1>4, <1>5, <1>6, <1>7, <1>8, <1>9 DEF Next

-----------------------------------------------------------------------------
(***************************************************************************)
(* Theorems                                                                *)
(***************************************************************************)
\* The inductive invariant of a job of model detection.
THEOREM Invariance == ASSUME DetectAssumption, CatalogueAssumption PROVE Spec => []IInv
  <1>1. Init => IInv
    BY InvInit
  <1>2. IInv /\ [Next]_vars => IInv'
    BY InvStep
  <1> QED BY <1>1, <1>2, PTL DEF Spec

\* The history holds only runs in which every scored check of the job has a result,
\* however the run came about over several retries (persistable).
THEOREM HistoryOnlyWhole ==
    ASSUME DetectAssumption, CatalogueAssumption PROVE Spec => []HistoryIsWhole
  <1>1. IInv => HistoryIsWhole
    BY DEF IInv
  <1> QED BY <1>1, Invariance, PTL

\* Over any number of retries and callers: informational checks run last, a round that
\* was not cut leaves no check behind, and a check stays blocked only while one of its
\* prerequisites has not been answered (startReady, ExpandRetryIDs).
THEOREM RoundExplained ==
    ASSUME DetectAssumption, CatalogueAssumption PROVE Spec => []RoundIsExplained
  <1>1. IInv => RoundIsExplained
    <2> SUFFICES ASSUME IInv PROVE RoundIsExplained
      OBVIOUS
    <2>1. InformationalRunsLast
      BY DEF IInv, OfTarget, Ordered, DepsReady, Finished, InformationalRunsLast
    <2>2. UncutRoundRunsAll
      BY DEF IInv, OfTarget, Ended, HasResult, UncutRoundRunsAll
    <2>3. ASSUME NEW t \in Targets \ everCut, NEW c \in Checks, status = "completed",
                 result[t][c] = "blocked"
          PROVE  \E d \in Requires[c] : result[t][d] # "answered"
      <3>1. OfTarget(t) /\ c \in selected /\ t \in chosen
        BY <2>3 DEF IInv, OfTarget, OfJob, NotYet
      <3>2. Clean(t) /\ Settled(t, c)
        BY <2>3, <3>1, AllSettled
      <3> QED BY <2>3, <3>1, <3>2 DEF OfTarget, Explained
    <2>4. BlockedIsExplained
      BY <2>3 DEF BlockedIsExplained
    <2> QED BY <2>1, <2>2, <2>4 DEF RoundIsExplained
  <1> QED BY <1>1, Invariance, PTL

\* A retry begins when no goroutine of the round before is left: beginRetry takes a
\* second look at the status planRetry saw.
THEOREM NoOverlap == ASSUME DetectAssumption, CatalogueAssumption PROVE Spec => RoundsDoNotOverlap
  <1> DEFINE Apart == runs' # runs => \A t \in Targets : step[t] \in {"idle", "done"}
  <1>1. IInv /\ [Next]_vars => [Apart]_vars
    <2> SUFFICES ASSUME IInv, Next, runs' # runs
                 PROVE  \A t \in Targets : step[t] \in {"idle", "done"}
      BY DEF vars
    <2>1. \A t \in Targets : ~Work(t)
      BY WorkIsLocal DEF IInv
    <2>2. Start \/ \E r \in Callers : BeginRetry(r)
      BY <2>1 DEF Next, Cancel, EndRound, PlanRetry, RetryBusy, bounds
    <2>3. status # "running"
      BY <2>2 DEF Start, BeginRetry, NotYet
    <2> QED BY <2>3 DEF IInv, Quiet
  <1> QED BY <1>1, Invariance, PTL DEF Spec, RoundsDoNotOverlap

\* A step that lets a check through the gate finds a place there (NewGate, Acquire);
\* every other leaves at most the checks that were there.
LEMMA GateStep ==
    ASSUME DetectAssumption, IInv, Cardinality(InFlight) <= Concurrency, [Next]_vars
    PROVE  Cardinality(InFlight') <= Concurrency
  <1>1. IsFiniteSet(InFlight) /\ Cardinality(InFlight) \in Nat /\ Concurrency \in Nat
    <2>1. IsFiniteSet(Targets \X Checks) /\ InFlight \in SUBSET (Targets \X Checks)
      BY FS_Product DEF DetectAssumption, InFlight
    <2> QED BY <2>1, FS_Subset, FS_CardinalityType DEF DetectAssumption
  <1>2. ASSUME InFlight' \subseteq InFlight PROVE Cardinality(InFlight') <= Concurrency
    <2>1. IsFiniteSet(InFlight') /\ Cardinality(InFlight') <= Cardinality(InFlight)
      BY <1>1, <1>2, FS_Subset
    <2> QED BY <1>1, <2>1, FS_CardinalityType
  <1>3. ASSUME \A t \in Targets, c \in Checks :
                   phase'[t][c] = "executing" => phase[t][c] = "executing"
        PROVE  InFlight' \subseteq InFlight
    BY <1>3 DEF InFlight
  <1>4. ASSUME NEW t \in Targets, NEW c \in Checks, Acquire(t, c)
        PROVE  Cardinality(InFlight') <= Concurrency
    <2>1. /\ Cardinality(InFlight) < Concurrency
          /\ phase' = [phase EXCEPT ![t][c] = "executing"]
      BY <1>4 DEF Acquire
    <2>2. InFlight' \subseteq InFlight \cup {<<t, c>>}
      BY <2>1 DEF InFlight, IInv, Shape
    <2>3. /\ IsFiniteSet(InFlight \cup {<<t, c>>})
          /\ Cardinality(InFlight \cup {<<t, c>>}) <= Cardinality(InFlight) + 1
      <3>1. /\ IsFiniteSet(InFlight \cup {<<t, c>>})
            /\ Cardinality(InFlight \cup {<<t, c>>}) =
                   IF <<t, c>> \in InFlight THEN Cardinality(InFlight)
                   ELSE Cardinality(InFlight) + 1
        BY <1>1, FS_AddElement, Zenon
      <3> QED BY <1>1, <3>1
    <2>4. /\ IsFiniteSet(InFlight')
          /\ Cardinality(InFlight') <= Cardinality(InFlight \cup {<<t, c>>})
      BY <2>2, <2>3, FS_Subset
    <2>5. Cardinality(InFlight') \in Nat /\ Cardinality(InFlight \cup {<<t, c>>}) \in Nat
      BY <2>3, <2>4, FS_CardinalityType
    <2> QED BY <1>1, <2>1, <2>3, <2>4, <2>5
  <1>5. ASSUME NEW t \in Targets, NEW ph \in [Checks -> Phases], NEW c \in Checks,
               \A d \in Checks : ph[d] = "executing" => phase[t][d] = "executing",
               phase' = [phase EXCEPT ![t] = Started(t, ph)]
        PROVE  InFlight' \subseteq InFlight
    <2>1. \A d \in Checks : Started(t, ph)[d] = "executing" => phase[t][d] = "executing"
      BY <1>5, StartedQueues
    <2>2. phase'[t] = Started(t, ph) /\ \A u \in Targets \ {t} : phase'[u] = phase[u]
      BY <1>5 DEF IInv, Shape
    <2> QED BY <1>3, <2>1, <2>2
  <1>6. ASSUME NEW t \in Targets, StartReady(t) PROVE InFlight' \subseteq InFlight
    <2>1. phase[t] \in [Checks -> Phases] /\ phase' = [phase EXCEPT ![t] = Started(t, phase[t])]
      BY <1>6 DEF StartReady, IInv, Shape
    <2>2. \A d \in Checks : phase'[t][d] = "executing" => phase[t][d] = "executing"
      BY <2>1, StartedQueues DEF IInv, Shape
    <2> QED BY <1>3, <2>1, <2>2 DEF IInv, Shape
  <1>7. ASSUME NEW t \in Targets, NEW c \in Checks, Outcome(t, c) \/ NoPlace(t, c)
        PROVE  InFlight' \subseteq InFlight
    <2> DEFINE ph == [phase[t] EXCEPT ![c] = "finished"]
    <2>1. /\ ph \in [Checks -> Phases] /\ phase' = [phase EXCEPT ![t] = Started(t, ph)]
          /\ \A d \in Checks : ph[d] = "executing" => phase[t][d] = "executing"
      BY <1>7 DEF Outcome, NoPlace, Leave, IInv, Shape, Phases
    <2> HIDE DEF ph
    <2> QED BY <1>5, <2>1
  <1>8. ASSUME NEW t \in Targets, Work(t) PROVE Cardinality(InFlight') <= Concurrency
    <2>1. CASE Conclude(t) \/ Persist(t)
      BY <1>2, <2>1 DEF Conclude, Persist, InFlight
    <2> QED BY <1>2, <1>4, <1>6, <1>7, <1>8, <2>1 DEF Work
  <1>9. ASSUME NEW p, Begins(p) PROVE InFlight' \subseteq InFlight
    <2>1. \A t \in Targets, c \in Checks : phase'[t][c] = "wait"
      BY <1>9 DEF Begins
    <2> QED BY <1>3, <2>1
  <1>10. CASE Start
    BY <1>2, <1>9, <1>10 DEF Start
  <1>11. ASSUME NEW r \in Callers, BeginRetry(r) PROVE Cardinality(InFlight') <= Concurrency
    BY <1>2, <1>9, <1>11 DEF BeginRetry
  <1>12. ASSUME UNCHANGED phase PROVE Cardinality(InFlight') <= Concurrency
    BY <1>2, <1>12 DEF InFlight
  <1> QED BY <1>8, <1>10, <1>11, <1>12
       DEF Next, Cancel, EndRound, PlanRetry, RetryBusy, vars, targets

\* At most as many checks of all targets of the job are under way as the gate has places.
THEOREM GateHolds ==
    ASSUME DetectAssumption, CatalogueAssumption
    PROVE  Spec => [](Cardinality(InFlight) <= Concurrency)
  <1>1. Init => Cardinality(InFlight) <= Concurrency
    <2> SUFFICES ASSUME Init PROVE Cardinality(InFlight) <= Concurrency
      OBVIOUS
    <2>1. InFlight = {}
      BY DEF Init, InFlight
    <2> QED BY <2>1, FS_EmptySet DEF DetectAssumption
  <1>2. IInv /\ Cardinality(InFlight) <= Concurrency /\ [Next]_vars
            => (Cardinality(InFlight) <= Concurrency)'
    BY GateStep
  <1> QED BY <1>1, <1>2, Invariance, PTL DEF Spec

(***************************************************************************)
(* The reading of an answer                                                *)
(***************************************************************************)
\* What was streamed so far, where no chunk may be left out; and what a stop or a completion
\* says of it.
Streamed(n) == [k \in 1..n |-> k]
ReplyInv ==
    /\ protocol \in {"messages", "responses", "chat"}
    /\ sent \in Nat /\ sent <= Length /\ text \in Seq(Nat)
    /\ sent = 0 => text = <<>>
    /\ accepted \in {"reading", "ok", "failed"}
    /\ protocol # "responses" => text = Streamed(sent)
    /\ natural \in BOOLEAN /\ complete \in BOOLEAN
    /\ natural = TRUE => sent = Length /\ reason = "stop" /\ protocol # "responses"
    /\ accepted = "reading" /\ complete = TRUE =>
           \/ natural = TRUE
           \/ protocol = "responses" /\ reason = "stop" /\ text = Reply!Whole
    /\ accepted = "ok" => text = Reply!Whole /\ reason = "stop"

\* One chunk more.
LEMMA OneMore ==
    ASSUME NEW n \in Nat
    PROVE  /\ Streamed(n) \in Seq(Nat) /\ Append(Streamed(n), n + 1) = Streamed(n + 1)
           /\ Streamed(0) = <<>> /\ (Streamed(n) = <<>> => n = 0)
  <1>1. Streamed(n) \in Seq(Nat) /\ Len(Streamed(n)) = n
    BY DEF Streamed
  <1>2. Append(Streamed(n), n + 1) = Streamed(n + 1)
    <2>1. DOMAIN Append(Streamed(n), n + 1) = 1..(n + 1)
      BY <1>1
    <2>2. \A k \in 1..(n + 1) : Append(Streamed(n), n + 1)[k] = k
      BY <1>1 DEF Streamed
    <2> QED BY <1>1, <2>1, <2>2 DEF Streamed
  <1>3. Streamed(0) = <<>>
    BY DEF Streamed
  <1> QED BY <1>1, <1>2, <1>3

\* The invariant holds at the start.
LEMMA ReplyInit == Reply!ReplyAssumption /\ Reply!Init => ReplyInv
  <1> SUFFICES ASSUME Reply!ReplyAssumption, Reply!Init PROVE ReplyInv
    OBVIOUS
  <1>1. Streamed(0) = <<>>
    BY OneMore
  <1>a. sent = 0 /\ text = <<>>
    BY DEF Reply!Init
  <1>2. text = Streamed(sent) /\ text \in Seq(Nat) /\ sent = 0 /\ text = <<>>
    BY <1>1, <1>a
  <1>3. sent \in Nat /\ sent <= Length
    BY <1>2 DEF Reply!ReplyAssumption
  <1> QED BY <1>2, <1>3 DEF Reply!Init, ReplyInv

\* Every step keeps it.
LEMMA ReplyStep ==
    ASSUME Reply!ReplyAssumption, ReplyInv, [Reply!Next]_(Reply!replyVars)
    PROVE  ReplyInv'
  <1>0. Length \in Nat /\ Reply!Whole = Streamed(Length)
    BY DEF Reply!ReplyAssumption, Reply!Whole, Streamed
  <1>w. Reply!Whole \in Seq(Nat) /\ (Reply!Whole = <<>> => Length = 0)
    BY <1>0, OneMore
  <1> HIDE DEF Reply!Whole
  <1> USE DEF Reply!Reading, Reply!Fail
  <1>1. CASE Reply!Delta
    <2>0. sent' = sent + 1 /\ sent < Length /\ sent \in Nat /\ reason = "" /\ protocol' = protocol
          /\ accepted = "reading" /\ accepted' = accepted /\ UNCHANGED <<natural, complete, reason>>
          /\ (text' = Append(text, sent + 1) \/ (protocol = "responses" /\ text' = text))
      BY <1>1 DEF Reply!Delta, ReplyInv
    <2>a. Length \in Nat /\ sent \in Nat /\ sent < Length /\ sent' = sent + 1
      BY <2>0, <1>0
    <2>1. sent' \in Nat /\ sent' <= Length /\ sent' # 0
      BY <2>a
    <2>b. text \in Seq(Nat)
      BY DEF ReplyInv
    <2>c. Append(text, sent + 1) \in Seq(Nat)
      BY <2>a, <2>b
    <2>2. text' \in Seq(Nat)
      BY <2>0, <2>b, <2>c
    <2>3. protocol # "responses" => text' = Streamed(sent')
      BY <2>0, OneMore DEF ReplyInv
    <2>4. natural # TRUE /\ complete # TRUE
      BY <2>0 DEF ReplyInv
    <2> QED BY <2>0, <2>1, <2>2, <2>3, <2>4 DEF ReplyInv
  <1>2. CASE Reply!StopReason
    BY <1>2 DEF Reply!StopReason, ReplyInv
  <1>3. CASE Reply!Close
    BY <1>3 DEF Reply!Close, Reply!MessageStop, Reply!DoneSentinel, ReplyInv
  <1>4. CASE Reply!ResponseCompleted
    <2>1. CASE reason' = "length"
      BY <1>4, <2>1 DEF Reply!ResponseCompleted, ReplyInv
    <2>2. CASE reason' # "length"
      <3>0. reason' = "stop" /\ sent = Length /\ protocol = "responses" /\ complete' = TRUE
            /\ (\/ Reply!Authoritative(Reply!Whole)
                \/ text = Reply!Whole /\ Reply!Authoritative(<<>>))
            /\ UNCHANGED <<protocol, sent, natural, sentinel, accepted>>
        BY <1>4, <2>2 DEF Reply!ResponseCompleted
      <3>1. text' = Reply!Whole
        <4>1. CASE Reply!Whole = <<>>
          BY <1>0, <1>w, <3>0, <4>1 DEF Reply!Authoritative, ReplyInv
        <4>2. CASE Reply!Whole # <<>>
          BY <3>0, <4>2 DEF Reply!Authoritative
        <4> QED BY <4>1, <4>2
      <3>2. sent = 0 => Reply!Whole = <<>>
        BY <1>0, <3>0, OneMore
      <3> QED BY <1>4, <1>w, <2>2, <3>0, <3>1, <3>2 DEF ReplyInv
    <2> QED BY <2>1, <2>2
  <1>5. CASE Reply!BadEvent
    BY <1>5 DEF Reply!BadEvent, ReplyInv
  <1>6. CASE Reply!EndOfStream
    <2>1. CASE Reply!Ended
      <3>1. (protocol = "chat" => natural) /\ (protocol # "chat" => complete)
        BY <2>1 DEF Reply!Ended
      <3>2. (protocol = "chat" => natural = TRUE) /\ (protocol # "chat" => complete = TRUE)
        BY <3>1 DEF ReplyInv
      <3>3. accepted = "reading" /\ UNCHANGED <<protocol, sent, reason, text, natural>>
            /\ accepted' \in {"ok", "failed"} /\ complete' \in BOOLEAN
        BY <1>6, <2>1 DEF Reply!EndOfStream, Reply!Ended, ReplyInv
      <3>4. text = Reply!Whole /\ reason = "stop"
        BY <1>0, <3>2, <3>3 DEF ReplyInv
      <3> QED BY <3>3, <3>4 DEF ReplyInv
    <2>2. CASE ~Reply!Ended
      <3>1. accepted' = "failed" /\ complete' \in BOOLEAN
            /\ UNCHANGED <<protocol, sent, reason, text, natural>>
        BY <1>6, <2>2 DEF Reply!EndOfStream, Reply!Ended, ReplyInv
      <3> QED BY <3>1 DEF ReplyInv
    <2> QED BY <2>1, <2>2
  <1>7. CASE UNCHANGED Reply!replyVars
    BY <1>7 DEF Reply!replyVars, ReplyInv
  <1> QED BY <1>1, <1>2, <1>3, <1>4, <1>5, <1>6, <1>7 DEF Reply!Next

\* A step of the composition is a step of the reading of an answer, or leaves it alone.
LEMMA ReplyAlone ==
    ASSUME [PartNext]_<<part, vars, pelicanVars, replyVars, verdictVars,
                        probeVars, priceVars, sessionVars, bookVars>>
    PROVE  [Reply!Next]_(Reply!replyVars)
  BY DEF PartNext, Is, replyVars, Reply!replyVars

\* What is accepted as an answer is the whole text, however long it is and whatever the
\* connection does to its end.
THEOREM AcceptedIsAll == PartSpec => []AcceptedIsWhole
  <1>1. Reply!ReplyAssumption
    BY PartsAssumption
  <1>2. PartInit => ReplyInv
    BY <1>1, ReplyInit DEF PartInit
  <1>3. ReplyInv /\ [PartNext]_<<part, vars, pelicanVars, replyVars, verdictVars, probeVars,
                                 priceVars, sessionVars, bookVars>> => ReplyInv'
    BY <1>1, ReplyStep, ReplyAlone
  <1>4. ReplyInv => AcceptedIsWhole
    BY DEF ReplyInv, AcceptedIsWhole, Reply!AcceptedIsWhole
  <1> QED BY <1>2, <1>3, <1>4, PTL DEF PartSpec

(***************************************************************************)
(* Prices                                                                  *)
(***************************************************************************)
Stages == {"idle", "match", "rule", "rates", "get", "decide", "put", "mark", "base"}
PriceShape ==
    /\ stage \in [PriceJobs -> Stages] /\ DOMAIN current = PriceJobs
    /\ DOMAIN saw = PriceJobs /\ DOMAIN since = PriceJobs /\ DOMAIN action = PriceJobs
    /\ DOMAIN byHand = PriceJobs /\ DOMAIN new = PriceJobs
    /\ losts \in Nat

\* Until two jobs have applied the rule at once, there is one that does at most.
OneByOne == doubled \in BOOLEAN /\ (~doubled => \A i, j \in Price!Applying : i = j)

\* While nothing has failed and the jobs are apart: the base is what the program wrote, but for
\* a job that is about to store it; the job that applies the rule holds that base; the site is
\* as it found it, unless a person came between; and what it is to write contradicts nobody.
Holds(j) ==
    /\ stage[j] \in {"rates", "get", "decide", "put"} => current[j].base = lastApplied
    /\ stage[j] \in {"decide", "put"} => saw[j] = site \/ since[j] = TRUE
    /\ stage[j] = "put" => ~Price!Conflicting(j)
Base ==
    /\ (\A j \in PriceJobs : stage[j] \notin {"mark", "base"}) => lastApplied = wrote
    /\ \A j \in PriceJobs : Holds(j)

\* The rows of the audit; and the row of a rate that is about to be written, or is and must be
\* stored yet.
Statuses == {"pending", "applied", "failed", "skipped_threshold", "skipped_conflict"}
AuditShape == \E V : audit \in Seq([new : V, status : Statuses])
Stands(i, rate) ==
    /\ i \in DOMAIN audit /\ audit[i].new = rate
    /\ audit[i].status \in {"pending", "applied", "failed"}
RowsKept ==
    /\ AuditShape
    /\ \A j \in PriceJobs : stage[j] \in {"put", "mark"} => Stands(action[j], new[j])
Covered ==
    /\ \A j \in PriceJobs : stage[j] \in {"mark", "base"} => wrote = new[j]
    /\ wrote = Price!NoRate \/ lastApplied = wrote \/ \E i \in DOMAIN audit : Stands(i, wrote)

PriceInv ==
    /\ PriceShape /\ OneByOne /\ RowsKept
    /\ ~doubled => Covered
    /\ ~doubled /\ losts = 0 => Base

\* A step of the composition is a step of the prices, or leaves them alone.
LEMMA PriceAlone ==
    ASSUME [PartNext]_<<part, vars, pelicanVars, replyVars, verdictVars,
                        probeVars, priceVars, sessionVars, bookVars>>
    PROVE  [Price!Next]_(Price!vars)
  BY DEF PartNext, Is, priceVars, Price!vars, Price!ruleVars, Price!jobVars, Price!history,
         Price!bounds

\* The invariant holds at the start.
LEMMA PriceInit == Price!Init => PriceInv
  <1> SUFFICES ASSUME Price!Init PROVE PriceInv
    OBVIOUS
  <1>1. audit = <<>> /\ AuditShape
    <2>1. <<>> \in Seq([new : {}, status : Statuses])
      OBVIOUS
    <2> QED BY <2>1 DEF Price!Init, AuditShape
  <1>2. PriceShape /\ \A j \in PriceJobs : stage[j] = "idle"
    BY DEF Price!Init, PriceShape, Stages
  <1>3. OneByOne
    BY <1>2 DEF Price!Init, OneByOne, Price!Applying
  <1>4. RowsKept /\ Covered
    BY <1>1, <1>2 DEF Price!Init, RowsKept, Covered
  <1>5. Base
    BY <1>2 DEF Price!Init, Base, Holds
  <1> QED BY <1>2, <1>3, <1>4, <1>5 DEF PriceInv

\* A job that is over.
LEMMA DoneShape ==
    ASSUME PriceShape, NEW j \in PriceJobs, Price!Done(j), losts' \in Nat, since' = since
    PROVE  PriceShape'
  BY DEF PriceShape, Stages, Price!Done, Price!Goto

\* What is kept of the shape.
LEMMA ShapeKept ==
    ASSUME PriceShape, [Price!Next]_(Price!vars)
    PROVE  PriceShape'
  <1>1. CASE UNCHANGED Price!vars
    BY <1>1 DEF PriceShape, Stages, Price!vars, Price!ruleVars, Price!jobVars, Price!history,
         Price!bounds
  <1>2. ASSUME NEW j \in PriceJobs, Price!UpstreamChanges(j) PROVE PriceShape'
    BY <1>2 DEF PriceShape, Stages, Price!UpstreamChanges, Price!Goto, Price!history
  <1>3. ASSUME NEW j \in PriceJobs, Price!ApplyByHand(j) PROVE PriceShape'
    BY <1>3 DEF PriceShape, Stages, Price!ApplyByHand, Price!Goto, Price!history, Price!Hand
  <1>4. ASSUME NEW j \in PriceJobs, Price!Steps(j) PROVE PriceShape'
    <2>1. CASE Price!Match(j)
      BY <2>1 DEF PriceShape, Stages, Price!Match, Price!Goto, Price!Done, Price!history,
                  Price!bounds
    <2>2. CASE Price!ReadRule(j)
      BY <2>2 DEF PriceShape, Stages, Price!ReadRule, Price!Goto, Price!Done, Price!history,
                  Price!bounds, Price!Row
    <2>3. CASE Price!ReadRates(j)
      <3>1. UNCHANGED <<losts, since>>
        BY <2>3 DEF Price!ReadRates, Price!bounds, Price!history
      <3>2. \/ Price!Done(j)
            \/ /\ Price!Goto(j, "get") /\ UNCHANGED <<current, saw, action, byHand>>
               /\ DOMAIN new' = DOMAIN new
        BY <2>3 DEF Price!ReadRates
      <3> QED BY <3>1, <3>2, DoneShape DEF PriceShape, Stages, Price!Goto
    <2>4. CASE Price!GetGroup(j)
      BY <2>4 DEF PriceShape, Stages, Price!GetGroup, Price!Goto, Price!bounds
    <2>5. CASE Price!ConflictFound(j) \/ Price!NothingToWrite(j)
      <3>1. Price!Done(j) /\ UNCHANGED <<losts, since>>
        BY <2>5 DEF Price!ConflictFound, Price!NothingToWrite, Price!bounds
      <3> QED BY <3>1, DoneShape DEF PriceShape
    <2>6. CASE Price!InsertPending(j)
      BY <2>6 DEF PriceShape, Stages, Price!InsertPending, Price!Goto, Price!bounds, Price!history
    <2>7. CASE Price!Put(j)
      BY <2>7 DEF PriceShape, Stages, Price!Put, Price!Goto, Price!bounds
    <2>8. CASE Price!MarkApplied(j)
      BY <2>8 DEF PriceShape, Stages, Price!MarkApplied, Price!Goto, Price!history, Price!Fail
    <2>9. CASE Price!SetApplied(j)
      <3>1. Price!Done(j) /\ UNCHANGED <<losts, since>>
        BY <2>9 DEF Price!SetApplied, Price!bounds, Price!history
      <3> QED BY <3>1, DoneShape DEF PriceShape
    <2> QED BY <1>4, <2>1, <2>2, <2>3, <2>4, <2>5, <2>6, <2>7, <2>8, <2>9 DEF Price!Steps
  <1>5. ASSUME NEW j \in PriceJobs,
               Price!PutFails(j) \/ Price!PutAnswerLost(j) \/ Price!JobFails(j)
        PROVE  PriceShape'
    <2>1. Price!Done(j) /\ losts' = losts + 1 /\ since' = since
      BY <1>5 DEF Price!PutFails, Price!PutAnswerLost, Price!JobFails, Price!Fail, Price!history
    <2> QED BY <2>1, DoneShape DEF PriceShape
  <1>6. CASE Price!UpstreamGone \/ Price!SaveRule \/ Price!PersonEdits \/ Price!ResolveConflict
    BY <1>6 DEF PriceShape, Stages, Price!UpstreamGone, Price!SaveRule, Price!PersonEdits,
                Price!ResolveConflict, Price!Hand, Price!jobVars, Price!history
  <1>7. CASE Price!Crash
    BY <1>7 DEF PriceShape, Stages, Price!Crash, Price!Fail, Price!history
  <1> QED BY <1>1, <1>2, <1>3, <1>4, <1>5, <1>6, <1>7 DEF Price!Next

\* A failure is never forgotten.
LEMMA FailuresStay ==
    ASSUME PriceShape, [Price!Next]_(Price!vars), losts' = 0
    PROVE  /\ losts = 0
           /\ \A j \in PriceJobs :
                  ~Price!PutFails(j) /\ ~Price!PutAnswerLost(j) /\ ~Price!JobFails(j)
           /\ ~Price!Crash
  <1>1. ASSUME Price!Fail PROVE losts' # 0
    BY <1>1 DEF Price!Fail, PriceShape
  <1>2. /\ \A j \in PriceJobs :
               ~Price!PutFails(j) /\ ~Price!PutAnswerLost(j) /\ ~Price!JobFails(j)
        /\ ~Price!Crash
    BY <1>1 DEF Price!PutFails, Price!PutAnswerLost, Price!JobFails, Price!Crash
  <1>3. CASE UNCHANGED Price!vars
    BY <1>2, <1>3 DEF Price!vars, Price!bounds
  <1>4. ASSUME NEW j \in PriceJobs, Price!Steps(j) PROVE losts' = losts
    BY <1>1, <1>4 DEF Price!Steps, Price!Match, Price!ReadRule, Price!ReadRates, Price!GetGroup,
       Price!ConflictFound, Price!NothingToWrite, Price!InsertPending, Price!Put,
       Price!MarkApplied, Price!SetApplied, Price!bounds
  <1>5. ASSUME NEW j \in PriceJobs, Price!UpstreamChanges(j) \/ Price!ApplyByHand(j)
        PROVE  losts' = losts
    BY <1>5 DEF Price!UpstreamChanges, Price!ApplyByHand
  <1>6. CASE Price!UpstreamGone \/ Price!SaveRule \/ Price!PersonEdits \/ Price!ResolveConflict
    BY <1>2, <1>6 DEF Price!UpstreamGone, Price!SaveRule, Price!PersonEdits,
       Price!ResolveConflict
  <1> QED BY <1>2, <1>3, <1>4, <1>5, <1>6 DEF Price!Next

\* Jobs begin to apply the rule one by one, and a meeting of two is not forgotten.
LEMMA JobsMeet ==
    ASSUME PriceShape, [Price!Next]_(Price!vars)
    PROVE  \/ doubled' = doubled /\ Price!Applying' \subseteq Price!Applying
           \/ \E j \in PriceJobs : /\ doubled' = (doubled \/ Price!Applying # {})
                                   /\ Price!Applying' \subseteq Price!Applying \cup {j}
  <1> DEFINE Calm == doubled' = doubled /\ Price!Applying' \subseteq Price!Applying
  <1>1. ASSUME doubled' = doubled, \/ UNCHANGED stage
                                   \/ \A j \in PriceJobs : stage'[j] = "idle"
        PROVE  Calm
    BY <1>1 DEF Price!Applying
  <1>2. ASSUME doubled' = doubled, NEW j \in PriceJobs, NEW s, Price!Goto(j, s),
               s \in {"idle", "match", "rule"} \/ j \in Price!Applying
        PROVE  Calm
    BY <1>2 DEF Price!Applying, Price!Goto, PriceShape
  <1>3. CASE UNCHANGED Price!vars
    BY <1>1, <1>3 DEF Price!vars, Price!jobVars, Price!history
  <1>4. CASE \/ Price!UpstreamGone \/ Price!SaveRule \/ Price!PersonEdits
             \/ Price!ResolveConflict \/ Price!Crash
    BY <1>1, <1>4 DEF Price!UpstreamGone, Price!SaveRule, Price!PersonEdits,
       Price!ResolveConflict, Price!Crash, Price!jobVars, Price!history
  <1>5. ASSUME NEW j \in PriceJobs, Price!UpstreamChanges(j) \/ Price!ApplyByHand(j) PROVE Calm
    BY <1>1, <1>2, <1>5 DEF Price!UpstreamChanges, Price!ApplyByHand, Price!history
  <1>6. ASSUME NEW j \in PriceJobs, Price!Done(j), doubled' = doubled PROVE Calm
    BY <1>2, <1>6 DEF Price!Done
  <1>7. ASSUME NEW j \in PriceJobs,
               \/ Price!PutFails(j) \/ Price!PutAnswerLost(j) \/ Price!JobFails(j)
               \/ Price!ConflictFound(j) \/ Price!NothingToWrite(j) \/ Price!SetApplied(j)
        PROVE  Calm
    BY <1>6, <1>7 DEF Price!PutFails, Price!PutAnswerLost, Price!JobFails,
       Price!ConflictFound, Price!NothingToWrite, Price!SetApplied, Price!history
  <1>8. ASSUME NEW j \in PriceJobs, Price!Match(j) PROVE Calm
    BY <1>2, <1>6, <1>8 DEF Price!Match, Price!history
  <1>9. ASSUME NEW j \in PriceJobs,
               \/ Price!ReadRates(j) \/ Price!GetGroup(j) \/ Price!InsertPending(j)
               \/ Price!Put(j) \/ Price!MarkApplied(j)
        PROVE  Calm
    <2>1. doubled' = doubled /\ j \in Price!Applying
      BY <1>9 DEF Price!ReadRates, Price!GetGroup, Price!InsertPending, Price!Put,
         Price!MarkApplied, Price!history, Price!Applying
    <2>2. Price!Done(j) \/ \E s : Price!Goto(j, s)
      BY <1>9 DEF Price!ReadRates, Price!GetGroup, Price!InsertPending, Price!Put,
         Price!MarkApplied
    <2> QED BY <1>2, <1>6, <2>1, <2>2
  <1>10. ASSUME NEW j \in PriceJobs, Price!ReadRule(j)
         PROVE  \/ Calm
                \/ /\ doubled' = (doubled \/ Price!Applying # {})
                   /\ Price!Applying' \subseteq Price!Applying \cup {j}
    <2>1. CASE Price!Done(j) /\ UNCHANGED doubled
      BY <1>6, <2>1
    <2>2. CASE Price!Goto(j, "rates") /\ doubled' = (doubled \/ Price!Applying # {})
      <3>1. Price!Applying' \subseteq Price!Applying \cup {j}
        BY <2>2 DEF Price!Applying, Price!Goto, PriceShape
      <3> QED BY <2>2, <3>1
    <2> QED BY <1>10, <2>1, <2>2 DEF Price!ReadRule
  <1> QED BY <1>3, <1>4, <1>5, <1>7, <1>8, <1>9, <1>10 DEF Price!Next, Price!Steps

\* What follows from it.
LEMMA OneByOneStep ==
    ASSUME PriceShape, OneByOne, [Price!Next]_(Price!vars)
    PROVE  OneByOne' /\ (~doubled' => ~doubled)
  <1>1. CASE doubled' = doubled /\ Price!Applying' \subseteq Price!Applying
    BY <1>1 DEF OneByOne
  <1>2. ASSUME NEW j \in PriceJobs, doubled' = (doubled \/ Price!Applying # {}),
               Price!Applying' \subseteq Price!Applying \cup {j}
        PROVE  OneByOne' /\ (~doubled' => ~doubled)
    BY <1>2 DEF OneByOne
  <1> QED BY <1>1, <1>2, JobsMeet

\* A row more in the audit.
LEMMA RowAdded ==
    ASSUME AuditShape, NEW x, NEW s \in Statuses, Price!Record(x, s)
    PROVE  /\ AuditShape' /\ Len(audit) \in Nat /\ Len(audit') = Len(audit) + 1
           /\ DOMAIN audit = 1..Len(audit) /\ DOMAIN audit' = 1..Len(audit')
           /\ audit'[Len(audit')] = [new |-> x, status |-> s]
           /\ \A i \in DOMAIN audit : i \in DOMAIN audit' /\ audit'[i] = audit[i]
  <1>1. PICK V : audit \in Seq([new : V, status : Statuses])
    BY DEF AuditShape
  <1> DEFINE W == V \cup {x}
             Wide == [new : W, status : Statuses]
  <1>2. audit \in Seq(Wide)
    <2>1. \A r \in [new : V, status : Statuses] : r \in Wide
      OBVIOUS
    <2> HIDE DEF Wide
    <2>2. [new : V, status : Statuses] \subseteq Wide
      BY <2>1
    <2> QED BY <1>1, <2>2, SeqMonotonic
  <1>3. [new |-> x, status |-> s] \in Wide
    OBVIOUS
  <1> HIDE DEF Wide
  <1>4. audit' = Append(audit, [new |-> x, status |-> s])
    BY DEF Price!Record
  <1>5. audit' \in Seq(Wide)
    BY <1>2, <1>3, <1>4
  <1>6. AuditShape'
    <2>1. audit' \in Seq([new : W, status : Statuses])
      BY <1>5 DEF Wide
    <2> HIDE DEF W
    <2> QED BY <2>1 DEF AuditShape
  <1> QED BY <1>2, <1>3, <1>4, <1>6

\* A row of the audit gets its outcome.
LEMMA RowMarked ==
    ASSUME AuditShape, NEW a \in DOMAIN audit, NEW s \in Statuses,
           audit' = [audit EXCEPT ![a].status = s]
    PROVE  /\ AuditShape' /\ DOMAIN audit' = DOMAIN audit
           /\ \A i \in DOMAIN audit : /\ audit'[i].new = audit[i].new
                                      /\ audit'[i].status = IF i = a THEN s ELSE audit[i].status
  <1>1. PICK V : audit \in Seq([new : V, status : Statuses])
    BY DEF AuditShape
  <1>2. \A i \in DOMAIN audit : audit[i] \in [new : V, status : Statuses]
    <2> DEFINE R == [new : V, status : Statuses]
    <2>1. audit \in Seq(R)
      BY <1>1
    <2> HIDE DEF R
    <2>2. \A i \in DOMAIN audit : audit[i] \in R
      BY <2>1, ElementOfSeq, LenProperties
    <2> QED BY <2>2 DEF R
  <1>3. [audit[a] EXCEPT !.status = s] \in [new : V, status : Statuses]
    BY <1>2
  <1>4. audit' = [audit EXCEPT ![a] = [audit[a] EXCEPT !.status = s]]
    OBVIOUS
  <1>5. audit' \in Seq([new : V, status : Statuses])
    BY <1>1, <1>3, <1>4
  <1> QED BY <1>1, <1>2, <1>4, <1>5 DEF AuditShape

\* What a rate of the program's is known by stays, whatever rows are added or get an outcome.
LEMMA RowsStand ==
    ASSUME RowsKept,
           \/ UNCHANGED audit
           \/ \E x, s : s \in Statuses /\ Price!Record(x, s)
           \/ \E j \in PriceJobs, s \in {"applied", "failed"} :
                  stage[j] \in {"put", "mark"} /\ audit' = [audit EXCEPT ![action[j]].status = s]
    PROVE  /\ AuditShape' /\ DOMAIN audit \subseteq DOMAIN audit'
           /\ \A i, rate : Stands(i, rate) =>
                  /\ i \in DOMAIN audit' /\ audit'[i].new = rate
                  /\ audit'[i].status \in {"pending", "applied", "failed"}
  <1>1. CASE UNCHANGED audit
    BY <1>1 DEF RowsKept, AuditShape, Stands
  <1>2. ASSUME NEW x, NEW s \in Statuses, Price!Record(x, s)
        PROVE  /\ AuditShape' /\ DOMAIN audit \subseteq DOMAIN audit'
               /\ \A i \in DOMAIN audit : audit'[i] = audit[i]
    BY <1>2, RowAdded DEF RowsKept
  <1>3. ASSUME NEW j \in PriceJobs, NEW s \in {"applied", "failed"}, stage[j] \in {"put", "mark"},
               audit' = [audit EXCEPT ![action[j]].status = s]
        PROVE  /\ AuditShape' /\ DOMAIN audit' = DOMAIN audit
               /\ \A i \in DOMAIN audit : /\ audit'[i].new = audit[i].new
                                          /\ \/ audit'[i].status = audit[i].status
                                             \/ audit'[i].status \in {"applied", "failed"}
    <2>1. action[j] \in DOMAIN audit /\ s \in Statuses
      BY <1>3 DEF RowsKept, Stands, Statuses
    <2>2. /\ AuditShape' /\ DOMAIN audit' = DOMAIN audit
          /\ \A i \in DOMAIN audit :
                 /\ audit'[i].new = audit[i].new
                 /\ audit'[i].status = IF i = action[j] THEN s ELSE audit[i].status
      BY <1>3, <2>1, RowMarked DEF RowsKept
    <2> QED BY <2>2
  <1> QED BY <1>1, <1>2, <1>3 DEF Stands

\* While the jobs are apart, those beside the one that applies the rule have not read it.
LEMMA OthersWait ==
    ASSUME PriceShape, OneByOne, ~doubled, NEW j \in Price!Applying, NEW i \in PriceJobs, i # j
    PROVE  stage[i] \in {"idle", "match", "rule"}
  BY DEF PriceShape, Stages, OneByOne, Price!Applying

\* What the one that applies the rule does touches nobody else.
LEMMA BaseAlone ==
    ASSUME PriceShape, OneByOne, ~doubled, NEW j \in Price!Applying,
           \A i \in PriceJobs : i # j => stage'[i] = stage[i],
           Holds(j)', stage'[j] \notin {"mark", "base"} => lastApplied' = wrote'
    PROVE  Base'
  <1>1. \A i \in PriceJobs : i # j => stage'[i] \in {"idle", "match", "rule"}
    BY OthersWait
  <1>2. \A i \in PriceJobs : i # j => Holds(i)'
    BY <1>1 DEF Holds
  <1> QED BY <1>2 DEF Base, Price!Applying

\* What a job does before it has read the rule touches nobody.
LEMMA BaseBefore ==
    ASSUME PriceShape, Base, NEW j \in PriceJobs, stage[j] \notin {"mark", "base"},
           stage'[j] \in {"idle", "match", "rule"}, UNCHANGED <<lastApplied, wrote, site>>,
           \A i \in PriceJobs : i # j =>
               /\ stage'[i] = stage[i] /\ current'[i] = current[i] /\ saw'[i] = saw[i]
               /\ since'[i] = since[i] /\ byHand'[i] = byHand[i]
    PROVE  Base'
  <1>1. Holds(j)'
    BY DEF Holds
  <1>2. \A i \in PriceJobs : i # j => Holds(i)'
    BY DEF Base, Holds, Price!Conflicting
  <1>3. (\A i \in PriceJobs : stage'[i] \notin {"mark", "base"}) => lastApplied' = wrote'
    BY DEF Base
  <1> QED BY <1>1, <1>2, <1>3 DEF Base

\* While nothing fails and the jobs are apart, what they know stays true: the steps of a job.
LEMMA BaseOfSteps ==
    ASSUME PriceInv, losts = 0, ~doubled, ~doubled', NEW j \in PriceJobs, Price!Steps(j)
    PROVE  Base'
  <1>1. PriceShape /\ OneByOne /\ Base /\ Covered /\ Holds(j) /\ DOMAIN stage = PriceJobs
    BY DEF PriceInv, Base, PriceShape
  <1>2. ASSUME NEW s, Price!Goto(j, s)
        PROVE  stage'[j] = s /\ \A i \in PriceJobs : i # j => stage'[i] = stage[i]
    BY <1>1, <1>2 DEF Price!Goto
  <1>3. ASSUME Price!Done(j), UNCHANGED <<lastApplied, wrote, site, since>>,
               stage[j] \in {"match", "rule"}
        PROVE  Base'
    <2>1. /\ stage'[j] = "idle"
          /\ \A i \in PriceJobs : i # j =>
                 /\ stage'[i] = stage[i] /\ current'[i] = current[i] /\ saw'[i] = saw[i]
                 /\ since'[i] = since[i] /\ byHand'[i] = byHand[i]
      BY <1>1, <1>2, <1>3 DEF Price!Done
    <2> QED BY <1>1, <1>3, <2>1, BaseBefore
  <1>4. CASE Price!Match(j)
    <2>1. stage[j] = "match" /\ UNCHANGED <<lastApplied, wrote, site, since>>
      BY <1>4 DEF Price!Match, Price!history
    <2>2. CASE Price!Done(j)
      BY <1>3, <2>1, <2>2
    <2>3. CASE Price!Goto(j, "rule") /\ UNCHANGED <<byHand, event, current, new, saw, action>>
      BY <1>1, <1>2, <2>1, <2>3, BaseBefore
    <2> QED BY <1>4, <2>2, <2>3 DEF Price!Match
  <1>5. CASE Price!ReadRule(j)
    <2>1. stage[j] = "rule" /\ UNCHANGED <<lastApplied, wrote, site, since>>
      BY <1>5 DEF Price!ReadRule, Price!ruleVars
    <2>2. CASE Price!Done(j)
      BY <1>3, <2>1, <2>2
    <2>3. CASE /\ current' = [current EXCEPT ![j] = Price!Row] /\ Price!Goto(j, "rates")
               /\ doubled' = (doubled \/ Price!Applying # {})
      <3>1. \A i \in PriceJobs : stage[i] \in {"idle", "match", "rule"}
        BY <1>1, <2>3 DEF Price!Applying, PriceShape, Stages
      <3>2. lastApplied' = wrote'
        BY <1>1, <2>1, <3>1 DEF Base
      <3>3. stage'[j] = "rates" /\ \A i \in PriceJobs : i # j => stage'[i] = stage[i]
        BY <1>2, <2>3
      <3>4. current'[j].base = lastApplied'
        BY <1>1, <2>1, <2>3 DEF PriceShape, Price!Row
      <3>5. Holds(j)'
        BY <3>3, <3>4 DEF Holds
      <3>6. \A i \in PriceJobs : i # j => Holds(i)'
        BY <3>1, <3>3 DEF Holds
      <3> QED BY <3>2, <3>5, <3>6 DEF Base
    <2> QED BY <1>5, <2>2, <2>3 DEF Price!ReadRule
  <1>6. CASE \/ Price!ReadRates(j) \/ Price!GetGroup(j) \/ Price!ConflictFound(j)
             \/ Price!NothingToWrite(j) \/ Price!InsertPending(j) \/ Price!Put(j)
             \/ Price!MarkApplied(j) \/ Price!SetApplied(j)
    <2>1. j \in Price!Applying
      BY <1>6 DEF Price!ReadRates, Price!GetGroup, Price!ConflictFound, Price!NothingToWrite,
         Price!InsertPending, Price!Put, Price!MarkApplied, Price!SetApplied, Price!Applying
    <2>2. \A i \in PriceJobs : i # j => stage[i] \notin {"mark", "base"}
      BY <1>1, <2>1, OthersWait
    <2>3. stage[j] \notin {"mark", "base"} => lastApplied = wrote
      BY <1>1, <2>2 DEF Base
    <2>4. \A i \in PriceJobs : i # j => stage'[i] = stage[i]
      <3>1. \E s : Price!Goto(j, s)
        BY <1>6 DEF Price!ReadRates, Price!GetGroup, Price!ConflictFound, Price!NothingToWrite,
           Price!InsertPending, Price!Put, Price!MarkApplied, Price!SetApplied, Price!Done
      <3> QED BY <1>2, <3>1
    <2>5. Holds(j)' /\ (stage'[j] \notin {"mark", "base"} => lastApplied' = wrote')
      <3>1. CASE Price!ReadRates(j)
        <4>1. UNCHANGED <<lastApplied, wrote>> /\ stage[j] = "rates"
          BY <3>1 DEF Price!ReadRates, Price!history, Price!ruleVars
        <4>2. stage'[j] = "idle" \/ (stage'[j] = "get" /\ current' = current)
          BY <1>2, <3>1 DEF Price!ReadRates, Price!Done
        <4> QED BY <1>1, <2>3, <4>1, <4>2 DEF Holds
      <3>2. CASE Price!GetGroup(j)
        BY <1>1, <2>3, <3>2 DEF Holds, Price!GetGroup, Price!Goto, PriceShape, Price!ruleVars
      <3>3. CASE Price!ConflictFound(j)
        BY <1>1, <2>3, <3>3 DEF Holds, Price!ConflictFound, Price!Goto, Price!Done
      <3>4. CASE Price!NothingToWrite(j)
        BY <1>1, <2>3, <3>4 DEF Holds, Price!NothingToWrite, Price!Goto, Price!Done
      <3>5. CASE Price!InsertPending(j)
        BY <1>1, <2>3, <3>5 DEF Holds, Price!InsertPending, Price!Goto, Price!Conflicting,
           Price!history
      <3>6. CASE Price!Put(j)
        BY <1>1, <3>6 DEF Holds, Price!Put, Price!Goto
      <3>7. CASE Price!MarkApplied(j)
        BY <1>1, <3>7 DEF Holds, Price!MarkApplied, Price!Goto, Price!history
      <3>8. CASE Price!SetApplied(j)
        <4>1. /\ stage[j] = "base" /\ lastApplied' = new[j] /\ wrote' = wrote
              /\ stage'[j] = "idle"
          BY <1>2, <3>8 DEF Price!SetApplied, Price!Done, Price!history
        <4>2. wrote = new[j]
          BY <1>1, <4>1 DEF Covered
        <4> QED BY <4>1, <4>2 DEF Holds
      <3> QED BY <1>6, <3>1, <3>2, <3>3, <3>4, <3>5, <3>6, <3>7, <3>8
    <2> QED BY <1>1, <2>1, <2>4, <2>5, BaseAlone
  <1> QED BY <1>4, <1>5, <1>6 DEF Price!Steps

\* The same of every step.
LEMMA BaseStep ==
    ASSUME PriceInv, [Price!Next]_(Price!vars), losts' = 0, ~doubled'
    PROVE  Base'
  <1>1. PriceShape /\ losts = 0 /\ ~doubled /\ Base
    BY FailuresStay, OneByOneStep DEF PriceInv
  <1>2. CASE UNCHANGED Price!vars
    <2>1. UNCHANGED <<lastApplied, wrote, site, stage, current, saw, since, byHand>>
      BY <1>2 DEF Price!vars, Price!ruleVars, Price!jobVars, Price!history
    <2> QED BY <1>1, <2>1 DEF Base, Holds, Price!Conflicting
  <1>3. ASSUME NEW j \in PriceJobs, Price!UpstreamChanges(j) \/ Price!ApplyByHand(j)
        PROVE  Base'
    <2>1. /\ UNCHANGED <<lastApplied, wrote, site, current, saw, since>>
          /\ stage[j] = "idle" /\ stage'[j] \in {"idle", "match", "rule"}
          /\ \A i \in PriceJobs : i # j => stage'[i] = stage[i] /\ byHand'[i] = byHand[i]
      <3>1. CASE Price!UpstreamChanges(j)
        BY <1>1, <3>1 DEF Price!UpstreamChanges, Price!Goto, Price!history, PriceShape
      <3>2. CASE Price!ApplyByHand(j)
        <4>1. PICK how \in {"manual", "force"} : byHand' = [byHand EXCEPT ![j] = how]
          BY <3>2 DEF Price!ApplyByHand
        <4>2. \A i \in PriceJobs : i # j => byHand'[i] = byHand[i]
          BY <1>1, <4>1 DEF PriceShape
        <4> QED BY <1>1, <3>2, <4>2 DEF Price!ApplyByHand, Price!Goto, Price!history,
                   Price!ruleVars, PriceShape
      <3> QED BY <1>3, <3>1, <3>2
    <2> QED BY <1>1, <2>1, BaseBefore
  <1>4. ASSUME NEW j \in PriceJobs, Price!Steps(j) PROVE Base'
    BY <1>1, <1>4, BaseOfSteps
  <1>5. CASE Price!UpstreamGone \/ Price!SaveRule \/ Price!ResolveConflict
    <2>1. UNCHANGED <<lastApplied, wrote, site, stage, current, saw, since, byHand>>
      BY <1>5 DEF Price!UpstreamGone, Price!SaveRule, Price!ResolveConflict,
         Price!ResolveUpdate, Price!jobVars, Price!history
    <2> QED BY <1>1, <2>1 DEF Base, Holds, Price!Conflicting
  <1>6. CASE Price!PersonEdits
    <2>1. /\ UNCHANGED <<lastApplied, wrote, stage, current, saw, byHand>>
          /\ \A j \in PriceJobs : since'[j] = TRUE
      BY <1>6 DEF Price!PersonEdits, Price!jobVars
    <2> QED BY <1>1, <2>1 DEF Base, Holds, Price!Conflicting
  <1>7. /\ \A j \in PriceJobs :
               ~Price!PutFails(j) /\ ~Price!PutAnswerLost(j) /\ ~Price!JobFails(j)
        /\ ~Price!Crash
    BY <1>1, FailuresStay
  <1> QED BY <1>2, <1>3, <1>4, <1>5, <1>6, <1>7 DEF Price!Next

\* A step of a job is its own.
LEMMA JobsOwn ==
    ASSUME PriceShape, NEW j \in PriceJobs,
           \/ Price!UpstreamChanges(j) \/ Price!ApplyByHand(j) \/ Price!Steps(j)
           \/ Price!PutFails(j) \/ Price!PutAnswerLost(j) \/ Price!JobFails(j)
    PROVE  \A i \in PriceJobs : i # j =>
               stage'[i] = stage[i] /\ action'[i] = action[i] /\ new'[i] = new[i]
  <1> DEFINE Own == \A i \in PriceJobs : i # j =>
                        stage'[i] = stage[i] /\ action'[i] = action[i] /\ new'[i] = new[i]
  <1>1. ASSUME Price!Done(j) PROVE Own
    BY <1>1 DEF Price!Done, Price!Goto, PriceShape
  <1>2. ASSUME NEW s, Price!Goto(j, s), UNCHANGED <<action, new>> PROVE Own
    BY <1>2 DEF Price!Goto, PriceShape
  <1>3. CASE \/ Price!PutFails(j) \/ Price!PutAnswerLost(j) \/ Price!JobFails(j)
             \/ Price!ConflictFound(j) \/ Price!NothingToWrite(j) \/ Price!SetApplied(j)
    BY <1>1, <1>3 DEF Price!PutFails, Price!PutAnswerLost, Price!JobFails,
       Price!ConflictFound, Price!NothingToWrite, Price!SetApplied
  <1>4. CASE Price!ApplyByHand(j) \/ Price!GetGroup(j) \/ Price!Put(j) \/ Price!MarkApplied(j)
    BY <1>2, <1>4 DEF Price!ApplyByHand, Price!GetGroup, Price!Put, Price!MarkApplied
  <1>5. CASE Price!UpstreamChanges(j)
    BY <1>5 DEF Price!UpstreamChanges, Price!Goto, PriceShape
  <1>6. CASE Price!Match(j)
    BY <1>1, <1>2, <1>6 DEF Price!Match
  <1>7. CASE Price!ReadRule(j)
    BY <1>1, <1>2, <1>7 DEF Price!ReadRule
  <1>8. CASE Price!ReadRates(j)
    <2>1. CASE Price!Done(j)
      BY <1>1, <2>1
    <2>2. CASE Price!Goto(j, "get") /\ UNCHANGED action
               /\ \E x : new' = [new EXCEPT ![j] = x]
      BY <2>2 DEF Price!Goto, PriceShape
    <2> QED BY <1>8, <2>1, <2>2 DEF Price!ReadRates
  <1>9. CASE Price!InsertPending(j)
    BY <1>9 DEF Price!InsertPending, Price!Goto, PriceShape
  <1> QED BY <1>3, <1>4, <1>5, <1>6, <1>7, <1>8, <1>9 DEF Price!Steps

\* What a step does to the audit: nothing, a row more, or the outcome of the job's own row.
AuditMoves(j) ==
    \/ UNCHANGED audit
    \/ \E x, s : s \in Statuses /\ Price!Record(x, s)
    \/ \E s \in {"applied", "failed"} :
           stage[j] \in {"put", "mark"} /\ audit' = [audit EXCEPT ![action[j]].status = s]

\* Those are the steps of a job.
LEMMA AuditMoved ==
    ASSUME NEW j \in PriceJobs,
           \/ Price!UpstreamChanges(j) \/ Price!ApplyByHand(j) \/ Price!Steps(j)
           \/ Price!PutFails(j) \/ Price!PutAnswerLost(j) \/ Price!JobFails(j)
    PROVE  AuditMoves(j)
  <1>1. CASE \/ Price!UpstreamChanges(j) \/ Price!ApplyByHand(j) \/ Price!ReadRule(j)
             \/ Price!ReadRates(j) \/ Price!GetGroup(j) \/ Price!NothingToWrite(j)
             \/ Price!Put(j) \/ Price!SetApplied(j) \/ Price!JobFails(j)
    BY <1>1 DEF AuditMoves, Price!UpstreamChanges, Price!ApplyByHand, Price!ReadRule,
       Price!ReadRates, Price!GetGroup, Price!NothingToWrite, Price!Put, Price!SetApplied,
       Price!JobFails, Price!ruleVars
  <1>2. CASE Price!Match(j) \/ Price!ConflictFound(j)
    <2>1. UNCHANGED audit \/ \E x, s : s \in Statuses /\ Price!Record(x, s)
      BY <1>2 DEF Price!Match, Price!ConflictFound, Statuses
    <2> QED BY <2>1 DEF AuditMoves
  <1>3. CASE Price!InsertPending(j)
    BY <1>3 DEF AuditMoves, Price!InsertPending, Statuses
  <1>4. CASE Price!PutFails(j) \/ Price!PutAnswerLost(j) \/ Price!MarkApplied(j)
    BY <1>4 DEF AuditMoves, Price!PutFails, Price!PutAnswerLost, Price!MarkApplied
  <1> QED BY <1>1, <1>2, <1>3, <1>4 DEF Price!Steps

\* The row of a rate stays, whoever moves; and so do the rows of the other jobs.
LEMMA RowsOfJob ==
    ASSUME PriceShape, RowsKept, NEW j \in PriceJobs,
           \/ Price!UpstreamChanges(j) \/ Price!ApplyByHand(j) \/ Price!Steps(j)
           \/ Price!PutFails(j) \/ Price!PutAnswerLost(j) \/ Price!JobFails(j)
    PROVE  RowsKept' /\ \A i, rate : Stands(i, rate) =>
                            /\ i \in DOMAIN audit' /\ audit'[i].new = rate
                            /\ audit'[i].status \in {"pending", "applied", "failed"}
  <1>1. /\ AuditShape'
        /\ \A i, rate : Stands(i, rate) =>
               /\ i \in DOMAIN audit' /\ audit'[i].new = rate
               /\ audit'[i].status \in {"pending", "applied", "failed"}
    BY AuditMoved, RowsStand DEF AuditMoves
  <1>2. \A i \in PriceJobs : i # j =>
            stage'[i] = stage[i] /\ action'[i] = action[i] /\ new'[i] = new[i]
    BY JobsOwn
  <1>3. \A i \in PriceJobs : i # j /\ stage'[i] \in {"put", "mark"} => Stands(action[i], new[i])'
    BY <1>1, <1>2 DEF RowsKept, Stands
  <1>4. DOMAIN stage = PriceJobs /\ DOMAIN action = PriceJobs
    BY DEF PriceShape
  <1>5. ASSUME stage'[j] \in {"put", "mark"} PROVE Stands(action[j], new[j])'
    <2>1. ASSUME NEW s, Price!Goto(j, s) PROVE s \in {"put", "mark"}
      BY <1>4, <1>5, <2>1 DEF Price!Goto
    <2>2. ~Price!Done(j)
      BY <2>1 DEF Price!Done
    <2>3. ~Price!PutFails(j) /\ ~Price!PutAnswerLost(j) /\ ~Price!JobFails(j)
      BY <2>2 DEF Price!PutFails, Price!PutAnswerLost, Price!JobFails
    <2>4. ~Price!Match(j) /\ ~Price!ReadRule(j) /\ ~Price!ReadRates(j)
      BY <2>1, <2>2 DEF Price!Match, Price!ReadRule, Price!ReadRates
    <2>5. ~Price!ConflictFound(j) /\ ~Price!NothingToWrite(j) /\ ~Price!SetApplied(j)
      BY <2>2 DEF Price!ConflictFound, Price!NothingToWrite, Price!SetApplied
    <2>6. ~Price!GetGroup(j) /\ ~Price!MarkApplied(j) /\ ~Price!ApplyByHand(j)
      BY <2>1 DEF Price!GetGroup, Price!MarkApplied, Price!ApplyByHand
    <2>7. ~Price!UpstreamChanges(j)
      <3>1. ASSUME Price!UpstreamChanges(j) PROVE FALSE
        <4>1. Price!Goto(j, "match") \/ (stage' = stage /\ stage[j] = "idle")
          BY <3>1 DEF Price!UpstreamChanges
        <4> QED BY <1>5, <2>1, <4>1
      <3> QED BY <3>1
    <2>8. CASE Price!Put(j)
      <3>1. stage[j] = "put" /\ UNCHANGED <<action, new>>
        BY <2>8 DEF Price!Put
      <3> QED BY <1>1, <3>1 DEF RowsKept, Stands
    <2>9. CASE Price!InsertPending(j)
      <3>1. /\ Price!Record(new[j], "pending") /\ "pending" \in Statuses
            /\ action'[j] = Len(audit') /\ new' = new
        BY <1>4, <2>9 DEF Price!InsertPending, Statuses
      <3>2. /\ Len(audit') \in DOMAIN audit'
            /\ audit'[Len(audit')] = [new |-> new[j], status |-> "pending"]
        BY <3>1, RowAdded DEF RowsKept
      <3> QED BY <3>1, <3>2 DEF Stands
    <2> QED BY <2>3, <2>4, <2>5, <2>6, <2>7, <2>8, <2>9 DEF Price!Steps
  <1>6. \A i \in PriceJobs : stage'[i] \in {"put", "mark"} => Stands(action[i], new[i])'
    BY <1>3, <1>5
  <1> QED BY <1>1, <1>6 DEF RowsKept

\* The same of every step.
LEMMA RowsStep ==
    ASSUME PriceShape, RowsKept, [Price!Next]_(Price!vars)
    PROVE  RowsKept'
  <1>1. CASE UNCHANGED Price!vars
    BY <1>1 DEF RowsKept, AuditShape, Stands, Price!vars, Price!ruleVars, Price!jobVars
  <1>2. CASE Price!UpstreamGone \/ Price!SaveRule \/ Price!PersonEdits \/ Price!ResolveConflict
    BY <1>2 DEF RowsKept, AuditShape, Stands, Price!UpstreamGone, Price!SaveRule,
       Price!PersonEdits, Price!ResolveConflict, Price!jobVars
  <1>3. CASE Price!Crash
    <2>1. UNCHANGED audit /\ \A j \in PriceJobs : stage'[j] = "idle"
      BY <1>3 DEF Price!Crash, Price!ruleVars
    <2> QED BY <2>1 DEF RowsKept, AuditShape
  <1> QED BY <1>1, <1>2, <1>3, RowsOfJob DEF Price!Next

\* While the jobs are apart, the rate that the program wrote last is the base, or has its row.
LEMMA CoverStep ==
    ASSUME PriceShape, OneByOne, RowsKept, Covered, ~doubled, ~doubled', [Price!Next]_(Price!vars)
    PROVE  Covered'
  <1>1. CASE UNCHANGED Price!vars
    BY <1>1 DEF Covered, Stands, Price!vars, Price!ruleVars, Price!jobVars, Price!history
  <1>2. CASE Price!UpstreamGone \/ Price!SaveRule \/ Price!PersonEdits \/ Price!ResolveConflict
    BY <1>2 DEF Covered, Stands, Price!UpstreamGone, Price!SaveRule, Price!PersonEdits,
       Price!ResolveConflict, Price!ResolveUpdate, Price!jobVars, Price!history
  <1>3. CASE Price!Crash
    <2>1. UNCHANGED <<audit, wrote, lastApplied>> /\ \A j \in PriceJobs : stage'[j] = "idle"
      BY <1>3 DEF Price!Crash, Price!ruleVars, Price!history
    <2> QED BY <2>1 DEF Covered, Stands
  <1>4. ASSUME NEW j \in PriceJobs,
               \/ Price!UpstreamChanges(j) \/ Price!ApplyByHand(j) \/ Price!Steps(j)
               \/ Price!PutFails(j) \/ Price!PutAnswerLost(j) \/ Price!JobFails(j)
        PROVE  Covered'
    <2>1. /\ \A i, rate : Stands(i, rate) =>
                 /\ i \in DOMAIN audit' /\ audit'[i].new = rate
                 /\ audit'[i].status \in {"pending", "applied", "failed"}
          /\ \A i \in PriceJobs : i # j => stage'[i] = stage[i] /\ new'[i] = new[i]
      BY <1>4, RowsOfJob, JobsOwn
    <2>2. /\ DOMAIN stage = PriceJobs /\ DOMAIN new = PriceJobs
          /\ stage[j] \in {"put", "mark"} => Stands(action[j], new[j])
          /\ stage[j] \in {"mark", "base"} => wrote = new[j]
      BY DEF PriceShape, RowsKept, Covered
    <2>3. ASSUME \/ UNCHANGED <<wrote, lastApplied>> \/ lastApplied' = wrote'
                 \/ wrote' = new[j] /\ Stands(action[j], new[j])
          PROVE  \/ wrote' = Price!NoRate \/ lastApplied' = wrote'
                 \/ \E i \in DOMAIN audit' : Stands(i, wrote)'
      BY <2>1, <2>3 DEF Covered, Stands
    <2>4. ASSUME stage'[j] \in {"mark", "base"} => wrote' = new'[j],
                 wrote' = wrote \/ j \in Price!Applying,
                 \/ UNCHANGED <<wrote, lastApplied>> \/ lastApplied' = wrote'
                 \/ wrote' = new[j] /\ Stands(action[j], new[j])
          PROVE  Covered'
      <3>1. \A i \in PriceJobs : i # j /\ stage'[i] \in {"mark", "base"} => wrote' = new'[i]
        <4>1. CASE wrote' = wrote
          BY <2>1, <4>1 DEF Covered
        <4>2. CASE j \in Price!Applying
          BY <2>1, <4>2, OthersWait
        <4> QED BY <2>4, <4>1, <4>2
      <3> QED BY <2>3, <2>4, <3>1 DEF Covered
    <2>5. ASSUME UNCHANGED <<wrote, lastApplied>>, stage'[j] \notin {"mark", "base"}
          PROVE  Covered'
      BY <2>4, <2>5
    <2>6. ASSUME Price!Done(j) PROVE stage'[j] = "idle"
      BY <2>2, <2>6 DEF Price!Done, Price!Goto
    <2>7. ASSUME NEW s, Price!Goto(j, s) PROVE stage'[j] = s
      BY <2>2, <2>7 DEF Price!Goto
    <2>8. CASE Price!UpstreamChanges(j) \/ Price!ApplyByHand(j)
      <3>1. /\ UNCHANGED <<wrote, lastApplied>> /\ stage[j] = "idle"
            /\ stage' = stage \/ \E s \in {"match", "rule"} : Price!Goto(j, s)
        BY <2>8 DEF Price!UpstreamChanges, Price!ApplyByHand, Price!ruleVars, Price!history
      <3> QED BY <2>5, <2>7, <3>1
    <2>9. CASE \/ Price!Match(j) \/ Price!ReadRule(j) \/ Price!ReadRates(j) \/ Price!GetGroup(j)
               \/ Price!ConflictFound(j) \/ Price!PutFails(j) \/ Price!JobFails(j)
               \/ Price!InsertPending(j)
      <3>1. UNCHANGED <<wrote, lastApplied>>
        BY <2>9 DEF Price!Match, Price!ReadRule, Price!ReadRates, Price!GetGroup,
           Price!ConflictFound, Price!PutFails, Price!JobFails, Price!InsertPending,
           Price!ruleVars, Price!history
      <3>2. Price!Done(j) \/ \E s \in {"rule", "rates", "get", "decide", "put"} : Price!Goto(j, s)
        BY <2>9 DEF Price!Match, Price!ReadRule, Price!ReadRates, Price!GetGroup,
           Price!ConflictFound, Price!PutFails, Price!JobFails, Price!InsertPending
      <3> QED BY <2>5, <2>6, <2>7, <3>1, <3>2
    <2>10. CASE Price!NothingToWrite(j) \/ Price!SetApplied(j)
      <3>1. lastApplied' = wrote' /\ stage'[j] = "idle" /\ j \in Price!Applying
        BY <2>2, <2>6, <2>10 DEF Price!NothingToWrite, Price!SetApplied, Price!history,
           Price!Applying
      <3> QED BY <2>4, <3>1
    <2>11. CASE Price!Put(j)
      <3>1. /\ stage[j] = "put" /\ wrote' = new[j] /\ new' = new /\ j \in Price!Applying
        BY <2>11 DEF Price!Put, Price!Written, Price!Applying
      <3> QED BY <2>2, <2>4, <3>1
    <2>12. CASE Price!PutAnswerLost(j)
      <3>1. /\ stage[j] = "put" /\ wrote' = new[j] /\ stage'[j] = "idle" /\ j \in Price!Applying
        BY <2>6, <2>12 DEF Price!PutAnswerLost, Price!Written, Price!Applying
      <3> QED BY <2>2, <2>4, <3>1
    <2>13. CASE Price!MarkApplied(j)
      <3>1. stage[j] = "mark" /\ UNCHANGED <<wrote, lastApplied, new>>
        BY <2>13 DEF Price!MarkApplied, Price!history
      <3> QED BY <2>2, <2>4, <3>1
    <2> QED BY <1>4, <2>8, <2>9, <2>10, <2>11, <2>12, <2>13 DEF Price!Steps
  <1> QED BY <1>1, <1>2, <1>3, <1>4 DEF Price!Next

\* The invariant holds for ever.
LEMMA PriceHolds == PartSpec => []PriceInv
  <1>1. PartInit => PriceInv
    BY PriceInit DEF PartInit
  <1>2. PriceInv /\ [PartNext]_<<part, vars, pelicanVars, replyVars, verdictVars, probeVars,
                                 priceVars, sessionVars, bookVars>> => PriceInv'
    <2> SUFFICES ASSUME PriceInv,
                        [PartNext]_<<part, vars, pelicanVars, replyVars, verdictVars, probeVars,
                                     priceVars, sessionVars, bookVars>>
                 PROVE  PriceInv'
      OBVIOUS
    <2>1. [Price!Next]_(Price!vars)
      BY PriceAlone
    <2>2. PriceShape' /\ RowsKept' /\ OneByOne' /\ (~doubled' => ~doubled)
      BY <2>1, ShapeKept, RowsStep, OneByOneStep DEF PriceInv
    <2>3. ASSUME ~doubled' PROVE Covered'
      BY <2>1, <2>2, <2>3, CoverStep DEF PriceInv
    <2>4. ASSUME ~doubled', losts' = 0 PROVE Base'
      BY <2>1, <2>4, BaseStep
    <2> QED BY <2>2, <2>3, <2>4 DEF PriceInv
  <1> QED BY <1>1, <1>2, PTL DEF PartSpec

\* While nothing fails and no two jobs have applied the rule at once, an automatic apply writes
\* over a person's rate only if the person set it after the job had looked, and a conflict is
\* found only where a person did edit.
THEOREM PeopleRespected == PartSpec => HumanRespected
  <1>1. ASSUME PriceInv, losts = 0, ~doubled, NEW j \in PriceJobs
        PROVE  /\ Price!Put(j) /\ Price!Automatic(j) /\ Price!Edited => since[j]
               /\ Price!ConflictFound(j) => Price!Edited \/ since[j]
    <2>1. /\ Holds(j) /\ PriceShape /\ OneByOne
          /\ (\A i \in PriceJobs : stage[i] \notin {"mark", "base"}) => lastApplied = wrote
      BY <1>1 DEF PriceInv, Base
    <2>2. ASSUME j \in Price!Applying, stage[j] \notin {"mark", "base"} PROVE lastApplied = wrote
      BY <1>1, <2>1, <2>2, OthersWait
    <2>3. ASSUME Price!Put(j), Price!Automatic(j), Price!Edited PROVE since[j]
      <3>1. stage[j] = "put" /\ lastApplied = wrote
        BY <2>2, <2>3 DEF Price!Put, Price!Applying
      <3> QED BY <2>1, <2>3, <3>1 DEF Holds, Price!Automatic, Price!Edited, Price!Conflicting
    <2>4. ASSUME Price!ConflictFound(j), ~since[j] PROVE Price!Edited
      <3>1. stage[j] = "decide" /\ lastApplied = wrote
        BY <2>2, <2>4 DEF Price!ConflictFound, Price!Applying
      <3> QED BY <2>1, <2>4, <3>1 DEF Holds, Price!ConflictFound, Price!Edited,
                 Price!Conflicting
    <2> QED BY <2>3, <2>4
  <1>2. PriceInv /\ [PartNext]_<<part, vars, pelicanVars, replyVars, verdictVars, probeVars,
                                 priceVars, sessionVars, bookVars>>
            => [\A j \in PriceJobs :
                   /\ Price!Put(j) /\ Price!Automatic(j) /\ Price!Edited
                          => since[j] \/ doubled \/ losts > 0
                   /\ Price!ConflictFound(j)
                          => Price!Edited \/ since[j] \/ doubled \/ losts > 0]_(Price!vars)
    BY <1>1 DEF PriceInv, PriceShape
  <1> QED BY <1>2, PriceHolds, PTL DEF PartSpec, HumanRespected, Price!HumanRespected

\* Whatever fails and whenever the program stops, a rate that it wrote is the base or has its row
\* in the audit, unless two jobs have applied the rule at once.
THEOREM RatesAreAudited == PartSpec => []Price!AuditCovers
  <1>1. PriceInv => Price!AuditCovers
    BY DEF PriceInv, Covered, Stands, Price!AuditCovers
  <1> QED BY <1>1, PriceHolds, PTL

(***************************************************************************)
(* The limits of a rule                                                    *)
(***************************************************************************)
Fraction(v) == v = [n |-> v.n, d |-> v.d] /\ v.n \in Int /\ v.d \in Nat \ {0}

\* What a rule says, as far as its targets go.
RuleFits(r) ==
    /\ r.fixed \in BOOLEAN /\ r.markup \in Int /\ r.min \in Nat /\ r.max \in Nat
    /\ r.min <= r.max

\* A product grows with its factors.
LEMMA ProductGrows ==
    ASSUME NEW a \in Int, NEW b \in Int, NEW d \in Nat, a <= b
    PROVE  a * d <= b * d
  OBVIOUS

\* A fraction between two numbers is rounded to one between them.
LEMMA RoundedBetween ==
    ASSUME NEW v, Fraction(v), NEW a \in Int, NEW b \in Int, a * v.d <= v.n, v.n <= b * v.d
    PROVE  Price!Rounded(v) \in a .. b
  <1> DEFINE n == v.n
             d == v.d
             q == (2 * n + d) \div (2 * d)
  <1>1. n \in Int /\ d \in Nat \ {0} /\ a * d <= n /\ n <= b * d
    BY DEF Fraction
  <1> HIDE DEF n, d
  <1>2. q \in Int /\ q * (2 * d) <= 2 * n + d /\ 2 * n + d < (q + 1) * (2 * d)
    BY <1>1
  <1> HIDE DEF q
  <1>3. ASSUME q + 1 <= a PROVE FALSE
    <2>1. (q + 1) * (2 * d) <= a * (2 * d)
      BY <1>1, <1>2, <1>3, ProductGrows
    <2>2. a * (2 * d) = 2 * (a * d)
      BY <1>1
    <2> QED BY <1>1, <1>2, <2>1, <2>2
  <1>4. ASSUME b + 1 <= q PROVE FALSE
    <2>1. (b + 1) * (2 * d) <= q * (2 * d)
      BY <1>1, <1>2, <1>4, ProductGrows
    <2>2. (b + 1) * (2 * d) = 2 * (b * d) + 2 * d
      BY <1>1
    <2> QED BY <1>1, <1>2, <2>1, <2>2
  <1>5. Price!Rounded(v) = q
    BY DEF Price!Rounded, q, n, d
  <1> QED BY <1>2, <1>3, <1>4, <1>5

\* The target is within the limits, whatever the reference.
LEMMA TargetLimited ==
    ASSUME NEW r, RuleFits(r), NEW v, Fraction(v)
    PROVE  Price!Target(r, v) \in r.min .. r.max
  <1> DEFINE m == Price!Markup(r, v)
             l == Price!AtLeast(r, m)
             c == Price!AtMost(r, l)
  <1>1. Fraction(m)
    <2>1. CASE r.fixed = TRUE
      <3>1. m = [n |-> v.n + r.markup * v.d, d |-> v.d]
        BY <2>1 DEF Price!Markup, Fraction
      <3> QED BY <3>1 DEF Fraction, RuleFits
    <2>2. CASE r.fixed = FALSE
      <3>1. m = [n |-> v.n * (100 + r.markup), d |-> v.d * 100]
        BY <2>2 DEF Price!Markup
      <3> QED BY <3>1 DEF Fraction, RuleFits
    <2> QED BY <2>1, <2>2 DEF RuleFits
  <1> HIDE DEF m
  <1>2. Fraction(l) /\ r.min * l.d <= l.n
    BY <1>1 DEF Fraction, RuleFits, Price!AtLeast, Price!Below, Price!Whole
  <1> HIDE DEF l
  <1>3. Fraction(c) /\ r.min * c.d <= c.n /\ c.n <= r.max * c.d
    BY <1>2 DEF Fraction, RuleFits, Price!AtMost, Price!Above, Price!Whole
  <1> HIDE DEF c
  <1>4. Price!Rounded(c) \in r.min .. r.max
    BY <1>3, RoundedBetween DEF RuleFits
  <1> QED BY <1>4 DEF Price!Target, Price!Clamped, c, l, m

\* The reference of a rule that has a rate at all is a fraction.
LEMMA ReferenceFits ==
    ASSUME NEW r \in Rules, NEW q \in [Sources -> Nat \cup {-1}], Price!Known(r, q) # {}
    PROVE  Fraction(Price!Reference(r, q))
  <1> DEFINE K == Price!Known(r, q)
  <1>1. /\ r.mode \in {"primary", "lowest", "highest", "average"} /\ r.primary \in Sources
        /\ r.sources \subseteq Sources /\ IsFiniteSet(r.sources)
    BY PartsAssumption DEF Price!PriceAssumption, IsFiniteSet, Price!IsFiniteSet
  <1>2. IsFiniteSet(K) /\ K # {} /\ K \subseteq Sources /\ \A s \in K : q[s] \in Nat
    <2>1. CASE r.mode = "primary"
      <3>1. K \subseteq {r.primary} /\ IsFiniteSet({r.primary})
        BY <2>1, FS_Singleton DEF Price!Known
      <3>2. IsFiniteSet(K)
        BY <3>1, FS_Subset
      <3> QED BY <1>1, <2>1, <3>2 DEF Price!Known
    <2>2. CASE r.mode # "primary"
      <3>1. K \subseteq r.sources
        BY <2>2 DEF Price!Known
      <3>2. IsFiniteSet(K)
        BY <1>1, <3>1, FS_Subset
      <3> QED BY <1>1, <2>2, <3>2 DEF Price!Known
    <2> QED BY <2>1, <2>2
  <1>3. CASE r.mode = "primary"
    <2>1. q[r.primary] \in Nat
      BY <1>2, <1>3 DEF Price!Known
    <2> QED BY <1>3, <2>1 DEF Price!Reference, Price!Whole, Fraction
  <1>4. CASE r.mode = "lowest"
    <2> DEFINE low == CHOOSE s \in K : \A t \in K : q[s] <= q[t]
    <2>1. \E s \in K : \A t \in K : q[s] <= q[t]
      BY <1>2, LeastOf
    <2>2. low \in K
      BY <2>1
    <2>3. Price!Reference(r, q) = Price!Whole(q[low])
      BY <1>4 DEF Price!Reference
    <2> HIDE DEF low
    <2> QED BY <1>2, <2>2, <2>3 DEF Price!Whole, Fraction
  <1>5. CASE r.mode = "highest"
    <2> DEFINE high == CHOOSE s \in K : \A t \in K : q[s] >= q[t]
               w == [s \in K |-> -q[s]]
    <2>1. \E s \in K : \A t \in K : q[s] >= q[t]
      <3>1. \A s \in K : w[s] \in Int
        BY <1>2
      <3>2. \E s \in K : \A t \in K : w[s] <= w[t]
        <4> HIDE DEF w
        <4> QED BY <1>2, <3>1, LeastOf
      <3> QED BY <1>2, <3>2
    <2>2. high \in K
      BY <2>1
    <2>3. Price!Reference(r, q) = Price!Whole(q[high])
      BY <1>5 DEF Price!Reference
    <2> HIDE DEF high
    <2> QED BY <1>2, <2>2, <2>3 DEF Price!Whole, Fraction
  <1>6. CASE r.mode = "average"
    <2>1. Sum(q, K) \in Int
      BY <1>2, SumIsNumber
    <2>2. Cardinality(K) \in Nat /\ Cardinality(K) # 0
      BY <1>2, FS_CardinalityType, FS_EmptySet
    <2>3. Price!Reference(r, q) = [n |-> Sum(q, K), d |-> Cardinality(K)]
      <3>1. Price!Cardinality(K) = Cardinality(K)
        BY DEF Price!Cardinality, Cardinality
      <3>2. Price!Reference(r, q) = [n |-> Sum(q, K), d |-> Price!Cardinality(K)]
        BY <1>6 DEF Price!Reference, Price!SumFunctionOnSet, Price!FoldFunctionOnSet,
                    Price!MapThenFoldSet, Sum, SumFunctionOnSet, FoldFunctionOnSet,
                    MapThenFoldSet
      <3> QED BY <3>1, <3>2
    <2> QED BY <2>1, <2>2, <2>3 DEF Fraction
  <1> QED BY <1>1, <1>3, <1>4, <1>5, <1>6

(***************************************************************************)
(* What prices are made of                                                 *)
(***************************************************************************)
AuditRow == [new : Nat, status : Statuses]
Rate == Nat \cup {-1}
Happening == [of : Sources, old : Rates \cup {-1}, new : Rates \cup {-1}]
RuleRow == [rule : Rules, base : Rate]

\* Rates, the rule, the group, and the bounds.
MarketTypes ==
    /\ rates \in [Sources -> Rates] /\ gone \subseteq Sources
    /\ rule \in Rules /\ lastApplied \in Rate /\ wrote \in Rate /\ site \in Nat
    /\ conflict \in BOOLEAN /\ flagged \in BOOLEAN
    /\ audit \in Seq(AuditRow)
    /\ changes \in 0..MaxChanges /\ hands \in 0..MaxByHand
    /\ losts \in 0..MaxFails

\* The jobs.
JobTypes ==
    /\ stage \in [PriceJobs -> Stages] /\ byHand \in [PriceJobs -> {"auto", "manual", "force"}]
    /\ event \in [PriceJobs -> Happening] /\ current \in [PriceJobs -> RuleRow]
    /\ new \in [PriceJobs -> Rate] /\ saw \in [PriceJobs -> Rate]
    /\ action \in [PriceJobs -> Nat] /\ since \in [PriceJobs -> BOOLEAN]

\* A job knows what it is to write, within the limits of its copy of the rule, from when it has
\* the rates, what the group has from when it looked, and the change that started it.
Knows(j) ==
    /\ new[j] # -1 <=> stage[j] \in {"get", "decide", "put", "mark", "base"}
    /\ new[j] # -1 => new[j] \in current[j].rule.min .. current[j].rule.max
    /\ saw[j] # -1 <=> stage[j] \in {"decide", "put", "mark", "base"}
    /\ stage[j] = "match" => event[j].new # -1
    /\ action[j] <= Len(audit)

PriceTypes == MarketTypes /\ JobTypes /\ \A j \in PriceJobs : Knows(j)

\* The bounds and sets of a rule.
LEMMA PriceConstants ==
    /\ Rates \subseteq Nat /\ Edits \subseteq Nat
    /\ MaxChanges \in Nat /\ MaxByHand \in Nat /\ MaxFails \in Nat
    /\ \A r \in Rules : RuleFits(r) /\ r.primary \in Sources
  BY PartsAssumption DEF Price!PriceAssumption, RuleFits

\* What a job is over with.
LEMMA NothingLeft ==
    ASSUME rule \in Rules
    PROVE  /\ Price!NoEvent \in Happening /\ Price!NoRow \in RuleRow /\ Price!NoRate = -1
           /\ Price!NoRate \in Rate /\ 0 \in Nat
  <1>1. Sources # {}
    BY PriceConstants
  <1> QED BY <1>1 DEF Price!NoEvent, Price!NoRow, Price!NoRate, Happening, RuleRow, Rate

\* The types hold at the start.
LEMMA PriceTypesInit == Price!Init => PriceTypes
  <1> SUFFICES ASSUME Price!Init PROVE PriceTypes
    OBVIOUS
  <1> USE NothingLeft, PriceConstants DEF Price!Init
  <1>1. MarketTypes
    <2>1. audit \in Seq(AuditRow)
      OBVIOUS
    <2>2. lastApplied \in Rate /\ wrote \in Rate /\ site \in Nat
      BY DEF Rate
    <2>3. /\ rates \in [Sources -> Rates] /\ gone \subseteq Sources /\ rule \in Rules
          /\ conflict \in BOOLEAN /\ flagged \in BOOLEAN
      BY Zenon
    <2>4. /\ changes \in 0..MaxChanges /\ hands \in 0..MaxByHand
          /\ losts \in 0..MaxFails
      OBVIOUS
    <2> QED BY <2>1, <2>2, <2>3, <2>4, Zenon DEF MarketTypes
  <1>2. JobTypes
    BY DEF JobTypes, Stages
  <1>3. \A j \in PriceJobs : Knows(j)
    <2>1. Len(audit) = 0
      OBVIOUS
    <2> QED BY <2>1 DEF Knows
  <1> QED BY <1>1, <1>2, <1>3 DEF PriceTypes

\* Whatever happens to the audit, it stays one and loses nothing.
AuditGrows == audit' \in Seq(AuditRow) /\ Len(audit') \in Nat /\ Len(audit) <= Len(audit')

\* Nothing new in the audit.
LEMMA AuditStays == ASSUME audit \in Seq(AuditRow), audit' = audit PROVE AuditGrows
  <1>1. Len(audit) \in Nat
    BY LenProperties
  <1> QED BY <1>1 DEF AuditGrows

\* A row more.
LEMMA AuditRecords ==
    ASSUME audit \in Seq(AuditRow), NEW x \in Nat, NEW s \in Statuses, Price!Record(x, s)
    PROVE  AuditGrows /\ Len(audit') = Len(audit) + 1
  <1>1. [new |-> x, status |-> s] \in AuditRow
    BY DEF AuditRow
  <1> QED BY <1>1 DEF Price!Record, AuditGrows

\* A row gets its outcome.
LEMMA AuditMarks ==
    ASSUME audit \in Seq(AuditRow), NEW a \in Nat, NEW s \in Statuses,
           audit' = [audit EXCEPT ![a].status = s]
    PROVE  AuditGrows
  <1>1. CASE a \in DOMAIN audit
    <2>1. audit[a] \in AuditRow
      BY <1>1, ElementOfSeq, LenProperties
    <2>2. [audit[a] EXCEPT !.status = s] \in AuditRow
      BY <2>1 DEF AuditRow
    <2>3. audit' = [audit EXCEPT ![a] = [audit[a] EXCEPT !.status = s]]
      OBVIOUS
    <2> QED BY <1>1, <2>2, <2>3 DEF AuditGrows
  <1>2. CASE a \notin DOMAIN audit
    <2>1. audit' = audit
      BY <1>2
    <2> QED BY <2>1, AuditStays, Zenon
  <1> QED BY <1>1, <1>2

\* A job that is over.
LEMMA OverTyped ==
    ASSUME PriceTypes, NEW j \in PriceJobs, Price!Done(j), since' \in [PriceJobs -> BOOLEAN],
           AuditGrows
    PROVE  JobTypes' /\ \A i \in PriceJobs : Knows(i)'
  <1> USE NothingLeft DEF PriceTypes, MarketTypes
  <1>1. JobTypes'
    BY DEF JobTypes, Price!Done, Price!Goto, Stages
  <1>2. Knows(j)'
    <2>1. stage'[j] = "idle" /\ new'[j] = -1 /\ saw'[j] = -1 /\ action'[j] = 0
      BY DEF JobTypes, Price!Done, Price!Goto
    <2> QED BY <2>1 DEF Knows, AuditGrows
  <1>3. ASSUME NEW i \in PriceJobs, i # j PROVE Knows(i)'
    <2>1. /\ stage'[i] = stage[i] /\ new'[i] = new[i] /\ saw'[i] = saw[i]
          /\ action'[i] = action[i] /\ current'[i] = current[i] /\ event'[i] = event[i]
      BY <1>3 DEF JobTypes, Price!Done, Price!Goto
    <2>2. Len(audit) \in Nat /\ action[i] \in Nat
      BY DEF JobTypes
    <2> QED BY <2>1, <2>2 DEF Knows, AuditGrows
  <1> QED BY <1>1, <1>2, <1>3

\* A job that goes on.
LEMMA OthersKnow ==
    ASSUME PriceTypes, AuditGrows, NEW j \in PriceJobs,
           \A i \in PriceJobs \ {j} :
               /\ stage'[i] = stage[i] /\ new'[i] = new[i] /\ saw'[i] = saw[i]
               /\ action'[i] = action[i] /\ current'[i] = current[i] /\ event'[i] = event[i]
    PROVE  \A i \in PriceJobs \ {j} : Knows(i)'
  <1> SUFFICES ASSUME NEW i \in PriceJobs \ {j} PROVE Knows(i)'
    OBVIOUS
  <1>1. Len(audit) \in Nat /\ action[i] \in Nat /\ Knows(i)
    BY DEF PriceTypes, JobTypes, MarketTypes
  <1> QED BY <1>1 DEF Knows, AuditGrows

\* What stays the same of the other jobs.
OthersStay(j) ==
    \A i \in PriceJobs \ {j} :
        /\ stage'[i] = stage[i] /\ new'[i] = new[i] /\ saw'[i] = saw[i]
        /\ action'[i] = action[i] /\ current'[i] = current[i] /\ event'[i] = event[i]

\* What starts a job keeps the types.
LEMMA StartTyped ==
    ASSUME PriceTypes, NEW j \in PriceJobs,
           Price!UpstreamChanges(j) \/ Price!ApplyByHand(j)
    PROVE  PriceTypes'
  <1> USE PriceConstants
  <1>1. Knows(j) /\ MarketTypes /\ JobTypes
    BY DEF PriceTypes
  <1>2. CASE Price!UpstreamChanges(j)
    <2>0. /\ stage[j] = "idle" /\ changes < MaxChanges /\ changes' = changes + 1
          /\ UNCHANGED <<rule, lastApplied, conflict, audit, site, byHand, current, new, saw,
                         action, hands, losts, wrote, since, flagged>>
      BY <1>2 DEF Price!UpstreamChanges, Price!history
    <2>1. PICK s \in Sources, x \in Rates :
             /\ rates' = [rates EXCEPT ![s] = x] /\ gone' = gone \ {s}
             /\ IF x # rates[s]
                THEN /\ event' = [event EXCEPT ![j] = [of |-> s, old |-> rates[s], new |-> x]]
                     /\ Price!Goto(j, "match")
                ELSE UNCHANGED <<event, stage>>
      BY <1>2 DEF Price!UpstreamChanges
    <2>2. AuditGrows
      BY <1>1, <2>0, AuditStays DEF MarketTypes
    <2>3. MarketTypes'
      BY <1>1, <2>0, <2>1 DEF MarketTypes
    <2>4. rates[s] \in Rates /\ x \in Nat
      BY <1>1 DEF MarketTypes
    <2>5. [of |-> s, old |-> rates[s], new |-> x] \in Happening
      BY <2>4 DEF Happening
    <2>6. JobTypes' /\ OthersStay(j)
      <3>1. event' \in [PriceJobs -> Happening] /\ stage' \in [PriceJobs -> Stages]
        BY <1>1, <2>1, <2>5 DEF JobTypes, Price!Goto, Stages
      <3> QED BY <1>1, <2>0, <2>1, <3>1 DEF JobTypes, OthersStay, Price!Goto
    <2>7. Knows(j)'
      <3>1. \/ stage'[j] = "idle"
            \/ stage'[j] = "match" /\ event'[j].new = x /\ x # -1
        BY <1>1, <2>0, <2>1, <2>4 DEF JobTypes, Price!Goto
      <3> QED BY <1>1, <2>0, <3>1 DEF Knows
    <2> QED BY <2>2, <2>3, <2>6, <2>7, OthersKnow DEF PriceTypes, OthersStay
  <1>3. CASE Price!ApplyByHand(j)
    <2>0. /\ stage[j] = "idle" /\ hands < MaxByHand /\ hands' = hands + 1
          /\ byHand' \in [PriceJobs -> {"auto", "manual", "force"}] /\ Price!Goto(j, "rule")
          /\ UNCHANGED <<rates, gone, rule, lastApplied, conflict, audit, site, event, current,
                         new, saw, action, changes, losts, wrote, since, flagged>>
      BY <1>1, <1>3 DEF Price!ApplyByHand, Price!Hand, Price!history, Price!ruleVars, JobTypes
    <2>1. AuditGrows
      BY <1>1, <2>0, AuditStays DEF MarketTypes
    <2>2. MarketTypes'
      BY <1>1, <2>0 DEF MarketTypes
    <2>3. JobTypes' /\ OthersStay(j)
      BY <1>1, <2>0 DEF JobTypes, OthersStay, Price!Goto, Stages
    <2>4. Knows(j)'
      BY <1>1, <2>0 DEF Knows, JobTypes, Price!Goto
    <2> QED BY <2>1, <2>2, <2>3, <2>4, OthersKnow DEF PriceTypes, OthersStay
  <1> QED BY <1>2, <1>3

\* People, the market and a restart keep the types.
LEMMA PeopleTyped ==
    ASSUME PriceTypes,
           \/ Price!UpstreamGone \/ Price!SaveRule \/ Price!PersonEdits
           \/ Price!ResolveConflict \/ Price!Crash
    PROVE  PriceTypes'
  <1> USE PriceConstants
  <1>1. MarketTypes /\ JobTypes /\ \A j \in PriceJobs : Knows(j)
    BY DEF PriceTypes
  <1>2. CASE Price!Crash
    <2>0. /\ stage' = [j \in PriceJobs |-> "idle"]
          /\ byHand' = [j \in PriceJobs |-> "auto"]
          /\ event' = [j \in PriceJobs |-> Price!NoEvent]
          /\ current' = [j \in PriceJobs |-> Price!NoRow]
          /\ new' = [j \in PriceJobs |-> -1]
          /\ saw' = [j \in PriceJobs |-> -1]
          /\ action' = [j \in PriceJobs |-> 0]
          /\ losts < MaxFails /\ losts' = losts + 1
          /\ UNCHANGED <<rates, gone, rule, lastApplied, conflict, audit, site, changes,
                         hands, wrote, since, flagged>>
      BY <1>2 DEF Price!Crash, Price!Fail, Price!NoRate, Price!ruleVars, Price!history
    <2>1. MarketTypes'
      BY <1>1, <2>0 DEF MarketTypes
    <2>2. Price!NoEvent \in Happening /\ Price!NoRow \in RuleRow /\ -1 \in Rate
      BY <1>1, NothingLeft DEF MarketTypes
    <2>3. JobTypes'
      BY <1>1, <2>0, <2>2 DEF JobTypes, Stages
    <2>4. ASSUME NEW j \in PriceJobs PROVE Knows(j)'
      <3>1. Len(audit) \in Nat
        BY <1>1, LenProperties DEF MarketTypes
      <3> QED BY <2>0, <3>1 DEF Knows
    <2> QED BY <2>1, <2>3, <2>4 DEF PriceTypes
  <1>3. CASE ~Price!Crash
    <2>1. UNCHANGED <<stage, byHand, event, current, new, saw, action>>
      BY <1>3 DEF Price!UpstreamGone, Price!SaveRule, Price!PersonEdits,
                  Price!ResolveConflict, Price!jobVars
    <2>2. audit' = audit
      BY <1>3 DEF Price!UpstreamGone, Price!SaveRule, Price!PersonEdits,
                  Price!ResolveConflict, Price!ruleVars
    <2>3. since' \in [PriceJobs -> BOOLEAN]
      BY <1>1, <1>3 DEF Price!UpstreamGone, Price!SaveRule, Price!PersonEdits,
                        Price!ResolveConflict, Price!history, JobTypes
    <2>4. MarketTypes'
      <3>1. CASE Price!UpstreamGone
        BY <1>1, <3>1 DEF Price!UpstreamGone, Price!Hand, Price!history, MarketTypes
      <3>2. CASE Price!SaveRule
        BY <1>1, <3>2 DEF Price!SaveRule, Price!Hand, Price!history, MarketTypes
      <3>3. CASE Price!PersonEdits
        BY <1>1, <3>3 DEF Price!PersonEdits, Price!Hand, MarketTypes
      <3>4. CASE Price!ResolveConflict
        <4>1. /\ hands < MaxByHand /\ hands' = hands + 1 /\ flagged' = FALSE
              /\ UNCHANGED <<rates, gone, rule, lastApplied, conflict, audit, site, changes,
                             losts, wrote>>
          BY <3>4 DEF Price!ResolveConflict, Price!ResolveUpdate, Price!Hand
        <4>2. hands' \in 0..MaxByHand
          BY <1>1, <4>1 DEF MarketTypes
        <4>3. flagged' \in BOOLEAN
          BY <4>1, Zenon
        <4> QED BY <1>1, <4>1, <4>2, <4>3, Zenon DEF MarketTypes
      <3> QED BY <1>3, <3>1, <3>2, <3>3, <3>4
    <2>5. JobTypes' /\ \A j \in PriceJobs : Knows(j)'
      BY <1>1, <2>1, <2>2, <2>3 DEF JobTypes, Knows
    <2> QED BY <2>4, <2>5 DEF PriceTypes
  <1> QED BY <1>2, <1>3

\* A job that goes on without an audit row: what is left to see is what it knows.
LEMMA GoesOn ==
    ASSUME PriceTypes, NEW j \in PriceJobs, AuditGrows, MarketTypes', JobTypes', OthersStay(j),
           Knows(j)'
    PROVE  PriceTypes'
  BY OthersKnow DEF PriceTypes, OthersStay

\* The first three steps of a job: the match, the rule, the rates.
LEMMA ReadsTyped ==
    ASSUME PriceTypes, NEW j \in PriceJobs,
           Price!Match(j) \/ Price!ReadRule(j) \/ Price!ReadRates(j) \/ Price!GetGroup(j)
    PROVE  PriceTypes'
  <1>1. Knows(j) /\ MarketTypes /\ JobTypes
    BY DEF PriceTypes
  <1>2. audit \in Seq(AuditRow) /\ rule \in Rules
    BY <1>1 DEF MarketTypes
  <1>3. CASE Price!Match(j)
    <2>0. /\ stage[j] = "match"
          /\ UNCHANGED <<rates, gone, rule, lastApplied, conflict, site, changes, hands,
                         losts, wrote, since, flagged>>
      BY <1>3 DEF Price!Match, Price!bounds, Price!history
    <2>1. AuditGrows
      <3>1. event[j].new \in Nat
        BY <1>1, <2>0, PriceConstants DEF Knows, JobTypes, Happening
      <3>2. \/ Price!Record(event[j].new, "skipped_threshold")
            \/ audit' = audit
        BY <1>3 DEF Price!Match
      <3> QED BY <1>2, <3>1, <3>2, AuditRecords, AuditStays DEF Statuses
    <2>2. MarketTypes'
      BY <1>1, <2>0, <2>1 DEF MarketTypes, AuditGrows
    <2>3. CASE Price!Done(j)
      <3>1. since' \in [PriceJobs -> BOOLEAN]
        BY <1>1, <2>0 DEF JobTypes
      <3> QED BY <2>1, <2>2, <2>3, <3>1, OverTyped DEF PriceTypes
    <2>4. CASE Price!Goto(j, "rule") /\ UNCHANGED <<byHand, event, current, new, saw, action>>
      <3>1. JobTypes' /\ OthersStay(j)
        BY <1>1, <2>0, <2>4 DEF JobTypes, OthersStay, Price!Goto, Stages
      <3>2. Knows(j)'
        <4>1. Len(audit) \in Nat /\ action[j] \in Nat
          BY <1>1, <1>2, LenProperties DEF JobTypes
        <4> QED BY <1>1, <2>0, <2>1, <2>4, <4>1 DEF Knows, JobTypes, Price!Goto, AuditGrows
      <3> QED BY <2>1, <2>2, <3>1, <3>2, GoesOn
    <2> QED BY <1>3, <2>3, <2>4 DEF Price!Match
  <1>4. CASE Price!ReadRule(j)
    <2>0. /\ stage[j] = "rule"
          /\ UNCHANGED <<rates, gone, rule, lastApplied, conflict, audit, site, changes,
                         hands, losts, wrote, since, flagged>>
      BY <1>4 DEF Price!ReadRule, Price!bounds, Price!history, Price!ruleVars
    <2>1. AuditGrows
      BY <1>2, <2>0, AuditStays
    <2>2. MarketTypes'
      BY <1>1, <2>0 DEF MarketTypes
    <2>3. CASE Price!Done(j)
      <3>1. since' \in [PriceJobs -> BOOLEAN]
        BY <1>1, <2>0 DEF JobTypes
      <3> QED BY <2>1, <2>2, <2>3, <3>1, OverTyped DEF PriceTypes
    <2>4. CASE /\ current' = [current EXCEPT ![j] = Price!Row] /\ Price!Goto(j, "rates")
               /\ UNCHANGED <<byHand, event, new, saw, action>>
      <3>1. Price!Row \in RuleRow
        BY <1>1 DEF Price!Row, RuleRow, MarketTypes
      <3>2. JobTypes' /\ OthersStay(j)
        BY <1>1, <2>0, <2>4, <3>1 DEF JobTypes, OthersStay, Price!Goto, Stages
      <3>3. Knows(j)'
        BY <1>1, <2>0, <2>4 DEF Knows, JobTypes, Price!Goto
      <3> QED BY <2>1, <2>2, <3>2, <3>3, GoesOn
    <2> QED BY <1>4, <2>3, <2>4 DEF Price!ReadRule
  <1>5. CASE Price!ReadRates(j)
    <2>0. /\ stage[j] = "rates"
          /\ UNCHANGED <<rates, gone, rule, lastApplied, conflict, audit, site, changes,
                         hands, losts, wrote, since, flagged>>
      BY <1>5 DEF Price!ReadRates, Price!bounds, Price!history, Price!ruleVars
    <2>1. AuditGrows
      BY <1>2, <2>0, AuditStays
    <2>2. MarketTypes'
      BY <1>1, <2>0 DEF MarketTypes
    <2>3. CASE Price!Done(j)
      <3>1. since' \in [PriceJobs -> BOOLEAN]
        BY <1>1, <2>0 DEF JobTypes
      <3> QED BY <2>1, <2>2, <2>3, <3>1, OverTyped DEF PriceTypes
    <2> DEFINE r == current[j].rule
               aim == Price!Target(r, Price!Reference(r, Price!Current))
    <2>4. CASE /\ Price!Known(r, Price!Current) # {}
               /\ new' = [new EXCEPT ![j] = aim] /\ Price!Goto(j, "get")
               /\ UNCHANGED <<byHand, event, current, saw, action>>
      <3>1. r \in Rules
        BY <1>1 DEF JobTypes, RuleRow
      <3>2. Price!Current \in [Sources -> Nat \cup {-1}]
        BY <1>1, PriceConstants DEF Price!Current, Price!NoRate, MarketTypes
      <3> HIDE DEF r
      <3>3. Fraction(Price!Reference(r, Price!Current))
        BY <2>4, <3>1, <3>2, ReferenceFits
      <3>4. RuleFits(r)
        BY <3>1, PriceConstants
      <3>5. aim \in r.min .. r.max /\ r.min \in Nat /\ r.max \in Nat
        <4>1. aim \in r.min .. r.max
          BY <3>3, <3>4, TargetLimited
        <4> QED BY <3>4, <4>1 DEF RuleFits
      <3> HIDE DEF aim
      <3>6. aim \in Nat
        BY <3>5
      <3>7. JobTypes' /\ OthersStay(j)
        BY <1>1, <2>0, <2>4, <3>6 DEF JobTypes, OthersStay, Price!Goto, Stages, Rate
      <3>8. Knows(j)'
        <4>1. /\ new'[j] = aim /\ stage'[j] = "get" /\ saw'[j] = saw[j] /\ saw[j] = -1
              /\ current'[j].rule = r /\ action'[j] = action[j] /\ event'[j] = event[j]
          BY <1>1, <2>0, <2>4 DEF Knows, JobTypes, Price!Goto, r
        <4> QED BY <1>1, <2>0, <3>5, <3>6, <4>1 DEF Knows
      <3> QED BY <2>1, <2>2, <3>7, <3>8, GoesOn
    <2> QED BY <1>5, <2>3, <2>4 DEF Price!ReadRates
  <1>6. CASE Price!GetGroup(j)
    <2>0. /\ stage[j] = "get"
          /\ saw' = [saw EXCEPT ![j] = site] /\ Price!Goto(j, "decide")
          /\ since' = [since EXCEPT ![j] = FALSE]
          /\ UNCHANGED <<rates, gone, rule, lastApplied, conflict, audit, site, changes,
                         hands, losts, wrote, flagged, byHand, event, current, new, action>>
      BY <1>6 DEF Price!GetGroup, Price!bounds, Price!ruleVars
    <2>1. AuditGrows
      BY <1>2, <2>0, AuditStays
    <2>2. MarketTypes'
      BY <1>1, <2>0 DEF MarketTypes
    <2>3. site \in Rate /\ site # -1
      BY <1>1 DEF MarketTypes, Rate
    <2>4. JobTypes' /\ OthersStay(j)
      BY <1>1, <2>0, <2>3 DEF JobTypes, OthersStay, Price!Goto, Stages
    <2>5. Knows(j)'
      BY <1>1, <2>0, <2>3 DEF Knows, JobTypes, Price!Goto
    <2> QED BY <2>1, <2>2, <2>4, <2>5, GoesOn
  <1> QED BY <1>3, <1>4, <1>5, <1>6

\* The decision, the write, and what ends a job keep the types.
LEMMA WritesTyped ==
    ASSUME PriceTypes, NEW j \in PriceJobs,
           \/ Price!ConflictFound(j) \/ Price!NothingToWrite(j) \/ Price!InsertPending(j)
           \/ Price!Put(j) \/ Price!MarkApplied(j) \/ Price!SetApplied(j)
           \/ Price!PutFails(j) \/ Price!PutAnswerLost(j) \/ Price!JobFails(j)
    PROVE  PriceTypes'
  <1> USE PriceConstants
  <1>1. Knows(j) /\ MarketTypes /\ JobTypes
    BY DEF PriceTypes
  <1>2. audit \in Seq(AuditRow) /\ since \in [PriceJobs -> BOOLEAN]
    BY <1>1 DEF MarketTypes, JobTypes
  <1>3. /\ stage[j] \in {"decide", "put", "mark", "base"} => new[j] \in Nat
        /\ saw[j] \in Rate /\ action[j] \in Nat /\ new[j] \in Rate
    BY <1>1 DEF Knows, JobTypes, Rate
  <1>4. CASE Price!ConflictFound(j)
    <2>0. /\ stage[j] = "decide" /\ Price!Record(new[j], "skipped_conflict") /\ flagged' = TRUE
          /\ Price!Done(j)
          /\ UNCHANGED <<rates, gone, rule, lastApplied, conflict, site, changes, hands,
                         losts, wrote, since>>
      BY <1>4 DEF Price!ConflictFound, Price!SetConflict, Price!bounds
    <2>1. AuditGrows
      BY <1>2, <1>3, <2>0, AuditRecords DEF Statuses
    <2>2. flagged' \in BOOLEAN
      BY <2>0, Zenon
    <2>3. MarketTypes'
      BY <1>1, <2>0, <2>1, <2>2, Zenon DEF MarketTypes, AuditGrows
    <2> QED BY <1>2, <2>0, <2>1, <2>3, OverTyped DEF PriceTypes
  <1>5. CASE Price!NothingToWrite(j)
    <2>0. /\ lastApplied' = saw[j] /\ wrote' = saw[j] /\ Price!Done(j)
          /\ UNCHANGED <<rates, gone, rule, conflict, audit, site, changes, hands, losts,
                         since, flagged>>
      BY <1>5 DEF Price!NothingToWrite, Price!bounds
    <2>1. AuditGrows
      BY <1>2, <2>0, AuditStays
    <2>2. MarketTypes'
      BY <1>1, <1>3, <2>0 DEF MarketTypes
    <2> QED BY <1>2, <2>0, <2>1, <2>2, OverTyped DEF PriceTypes
  <1>6. CASE Price!InsertPending(j)
    <2>0. /\ stage[j] = "decide" /\ Price!Record(new[j], "pending")
          /\ action' = [action EXCEPT ![j] = Len(audit')] /\ Price!Goto(j, "put")
          /\ UNCHANGED <<rates, gone, rule, lastApplied, conflict, site, byHand, event, current,
                         new, saw, changes, hands, losts, wrote, since, flagged>>
      BY <1>6 DEF Price!InsertPending, Price!bounds, Price!history
    <2>1. AuditGrows
      BY <1>2, <1>3, <2>0, AuditRecords DEF Statuses
    <2>2. MarketTypes'
      BY <1>1, <2>0, <2>1, Zenon DEF MarketTypes, AuditGrows
    <2>3. JobTypes' /\ OthersStay(j)
      BY <1>1, <2>0, <2>1 DEF JobTypes, OthersStay, Price!Goto, Stages, AuditGrows
    <2>4. Knows(j)'
      BY <1>1, <2>0, <2>1 DEF Knows, JobTypes, Price!Goto, AuditGrows
    <2> QED BY <2>1, <2>2, <2>3, <2>4, GoesOn
  <1>7. CASE Price!Put(j)
    <2>0. /\ stage[j] = "put" /\ site' = new[j] /\ wrote' = new[j]
          /\ flagged' = (flagged /\ byHand[j] # "force") /\ Price!Goto(j, "mark")
          /\ UNCHANGED <<rates, gone, rule, lastApplied, conflict, audit, byHand, event, current,
                         new, saw, action, changes, hands, losts, since>>
      BY <1>7 DEF Price!Put, Price!Written, Price!bounds
    <2>1. AuditGrows
      BY <1>2, <2>0, AuditStays
    <2>2. site' \in Nat /\ wrote' \in Rate
      BY <1>3, <2>0
    <2>3. flagged' \in BOOLEAN
      BY <2>0, Zenon
    <2>4. MarketTypes'
      BY <1>1, <2>0, <2>2, <2>3, Zenon DEF MarketTypes
    <2>5. JobTypes' /\ OthersStay(j)
      BY <1>1, <2>0 DEF JobTypes, OthersStay, Price!Goto, Stages
    <2>6. Knows(j)'
      BY <1>1, <2>0 DEF Knows, JobTypes, Price!Goto
    <2> QED BY <2>1, <2>4, <2>5, <2>6, GoesOn
  <1>8. CASE Price!MarkApplied(j)
    <2>0. /\ stage[j] = "mark" /\ Price!Goto(j, "base")
          /\ \/ audit' = [audit EXCEPT ![action[j]].status = "applied"] /\ losts' = losts
             \/ audit' = audit /\ losts < MaxFails /\ losts' = losts + 1
          /\ UNCHANGED <<rates, gone, rule, lastApplied, conflict, site, byHand, event, current,
                         new, saw, action, changes, hands, wrote, since, flagged>>
      BY <1>8 DEF Price!MarkApplied, Price!Fail, Price!history
    <2>1. AuditGrows
      BY <1>2, <1>3, <2>0, AuditMarks, AuditStays DEF Statuses
    <2>2. losts' \in 0..MaxFails
      BY <1>1, <2>0 DEF MarketTypes
    <2>3. MarketTypes'
      BY <1>1, <2>0, <2>1, <2>2, Zenon DEF MarketTypes, AuditGrows
    <2>4. JobTypes' /\ OthersStay(j)
      BY <1>1, <2>0 DEF JobTypes, OthersStay, Price!Goto, Stages
    <2>5. Knows(j)'
      <3>1. Len(audit) \in Nat
        BY <1>2, LenProperties
      <3>2. /\ stage'[j] = "base" /\ new'[j] = new[j] /\ saw'[j] = saw[j]
            /\ current'[j] = current[j] /\ event'[j] = event[j] /\ action'[j] = action[j]
        BY <1>1, <2>0 DEF JobTypes, Price!Goto
      <3> QED BY <1>1, <1>3, <2>0, <2>1, <3>1, <3>2 DEF Knows, AuditGrows
    <2> QED BY <2>1, <2>3, <2>4, <2>5, GoesOn
  <1>9. CASE Price!SetApplied(j)
    <2>0. /\ lastApplied' = new[j] /\ Price!Done(j)
          /\ UNCHANGED <<rates, gone, rule, conflict, audit, site, changes, hands, losts,
                         wrote, since, flagged>>
      BY <1>9 DEF Price!SetApplied, Price!bounds, Price!history
    <2>1. AuditGrows
      BY <1>2, <2>0, AuditStays
    <2>2. MarketTypes'
      BY <1>1, <1>3, <2>0 DEF MarketTypes
    <2> QED BY <1>2, <2>0, <2>1, <2>2, OverTyped DEF PriceTypes
  <1>10. CASE Price!PutFails(j)
    <2>0. /\ audit' = [audit EXCEPT ![action[j]].status = "failed"] /\ Price!Done(j)
          /\ losts < MaxFails /\ losts' = losts + 1
          /\ UNCHANGED <<rates, gone, rule, lastApplied, conflict, site, changes, hands,
                         wrote, since, flagged>>
      BY <1>10 DEF Price!PutFails, Price!Fail, Price!history
    <2>1. AuditGrows
      BY <1>2, <1>3, <2>0, AuditMarks DEF Statuses
    <2>2. losts' \in 0..MaxFails
      BY <1>1, <2>0 DEF MarketTypes
    <2>3. MarketTypes'
      BY <1>1, <2>0, <2>1, <2>2, Zenon DEF MarketTypes, AuditGrows
    <2> QED BY <1>2, <2>0, <2>1, <2>3, OverTyped DEF PriceTypes
  <1>11. CASE Price!PutAnswerLost(j)
    <2>0. /\ stage[j] = "put" /\ site' = new[j] /\ wrote' = new[j]
          /\ flagged' = (flagged /\ byHand[j] # "force")
          /\ audit' = [audit EXCEPT ![action[j]].status = "failed"] /\ Price!Done(j)
          /\ losts < MaxFails /\ losts' = losts + 1
          /\ UNCHANGED <<rates, gone, rule, lastApplied, conflict, changes, hands, since>>
      BY <1>11 DEF Price!PutAnswerLost, Price!Written, Price!Fail
    <2>1. AuditGrows
      BY <1>2, <1>3, <2>0, AuditMarks DEF Statuses
    <2>2. losts' \in 0..MaxFails
      BY <1>1, <2>0 DEF MarketTypes
    <2>3. site' \in Nat /\ wrote' \in Rate
      BY <1>3, <2>0
    <2>4. flagged' \in BOOLEAN
      BY <2>0, Zenon
    <2>5. MarketTypes'
      BY <1>1, <2>0, <2>1, <2>2, <2>3, <2>4, Zenon DEF MarketTypes, AuditGrows
    <2> QED BY <1>2, <2>0, <2>1, <2>5, OverTyped DEF PriceTypes
  <1>12. CASE Price!JobFails(j)
    <2>0. /\ Price!Done(j) /\ losts < MaxFails /\ losts' = losts + 1
          /\ UNCHANGED <<rates, gone, rule, lastApplied, conflict, audit, site, changes,
                         hands, wrote, since, flagged>>
      BY <1>12 DEF Price!JobFails, Price!Fail, Price!history, Price!ruleVars
    <2>1. AuditGrows
      BY <1>2, <2>0, AuditStays
    <2>2. MarketTypes'
      BY <1>1, <2>0 DEF MarketTypes
    <2> QED BY <1>2, <2>0, <2>1, <2>2, OverTyped DEF PriceTypes
  <1> QED BY <1>4, <1>5, <1>6, <1>7, <1>8, <1>9, <1>10, <1>11, <1>12

\* A step of the prices keeps the types.
LEMMA PriceTypesStep == PriceTypes /\ [Price!Next]_(Price!vars) => PriceTypes'
  <1> SUFFICES ASSUME PriceTypes, [Price!Next]_(Price!vars) PROVE PriceTypes'
    OBVIOUS
  <1>1. CASE UNCHANGED Price!vars
    <2>1. UNCHANGED <<rates, gone, rule, lastApplied, conflict, audit, site, stage, byHand, event,
                      current, new, saw, action, changes, hands, losts, wrote, since,
                      flagged>>
      BY <1>1 DEF Price!vars, Price!ruleVars, Price!jobVars, Price!bounds, Price!history
    <2> QED BY <2>1 DEF PriceTypes, MarketTypes, JobTypes, Knows
  <1>2. ASSUME NEW j \in PriceJobs,
               \/ Price!UpstreamChanges(j) \/ Price!ApplyByHand(j) \/ Price!Steps(j)
               \/ Price!PutFails(j) \/ Price!PutAnswerLost(j) \/ Price!JobFails(j)
        PROVE  PriceTypes'
    BY <1>2, StartTyped, ReadsTyped, WritesTyped DEF Price!Steps
  <1> QED BY <1>1, <1>2, PeopleTyped DEF Price!Next

\* The types hold throughout, for any number of jobs.
LEMMA PriceTypesHold == PartSpec => []PriceTypes
  <1>1. PartInit => PriceTypes
    BY PriceTypesInit DEF PartInit
  <1>2. PriceTypes /\ [PartNext]_<<part, vars, pelicanVars, replyVars, verdictVars, probeVars,
                                   priceVars, sessionVars, bookVars>> => PriceTypes'
    BY PriceTypesStep, PriceAlone
  <1> QED BY <1>1, <1>2, PTL DEF PartSpec

\* Whatever the mark-up, the average and the rounding make of the rates, what a job is to write
\* is within the limits of the rule it read (clampRate), for any number of jobs.
THEOREM TargetsWithin == PartSpec => []Price!WithinLimits
  <1>1. PriceTypes => Price!WithinLimits
    BY DEF PriceTypes, Knows, Price!WithinLimits, Price!NoRate
  <1> QED BY <1>1, PriceTypesHold, PTL

\* Whatever fails and whenever the program stops, a rate that it wrote is the base or has its row
\* in the audit unless two jobs have applied the rule at once; and what is to be written is within
\* the limits of the rule.
THEOREM PricesAreTrue == PartSpec => []PriceIsTrue
  <1>1. Price!AuditCovers /\ Price!WithinLimits => PriceIsTrue
    BY DEF PriceIsTrue
  <1> QED BY <1>1, RatesAreAudited, TargetsWithin, PTL

(***************************************************************************)
(* Pelican tests                                                           *)
(***************************************************************************)
PelicanRow == [status : {"none"} \cup Pelican!Open \cup Pelican!Final, doc : BOOLEAN,
               published : BOOLEAN]
PelicanCopy == [status : Pelican!Open \cup Pelican!Final, doc : BOOLEAN]

\* The types the argument uses.
PelicanTypes ==
    /\ submitted \in [Pelican!Batches -> RequestIds \cup {""}]
    /\ row \in [Pelican!Results -> PelicanRow]
    /\ asks \in [Clients -> RequestIds \cup {""}]
    /\ worker \in [Pelican!Results -> {"none", "waiting", "started", "generating", "saving"}]
    /\ mine \in [Pelican!Results -> PelicanCopy]
    /\ calls \in [Pelican!Results -> Nat]

\* Nothing is of a batch before it is committed, and two batches have two request ids.
OnlyCommitted ==
    /\ \A i \in Pelican!Results : i[1] \notin Pelican!Committed =>
           row[i].status = "none" /\ worker[i] = "none" /\ calls[i] = 0
    /\ cancelled \subseteq Pelican!Committed
    /\ \A b, d \in Pelican!Committed : submitted[b] = submitted[d] => b = d

\* A target is generated once on its way, and what it saves in the end is an outcome.
OnceOnly ==
    \A i \in Pelican!Results :
        /\ calls[i] <= 1
        /\ worker[i] \in {"waiting", "started", "generating"} => calls[i] = 0
        /\ worker[i] = "saving" => mine[i].status \in Pelican!Final

\* An open row is somebody's: of a goroutine whose context lives, or of those who are to
\* end it.
LeftTo(b) == power # "up" \/ canceller = b \/ b \in stranded
Attended ==
    \A i \in Pelican!Results : row[i].status \in Pelican!Open =>
        /\ i[1] \in cancelled => LeftTo(i[1])
        /\ worker[i] = "none" => LeftTo(i[1])

PelicanInv == PelicanTypes /\ OnlyCommitted /\ OnceOnly /\ Attended

\* One row after Update with its guard.
LEMMA RowWritten ==
    ASSUME row \in [Pelican!Results -> PelicanRow], NEW i \in Pelican!Results,
           NEW copy \in PelicanCopy, Pelican!Guarded(i, copy)
    PROVE  /\ row' \in [Pelican!Results -> PelicanRow]
           /\ \A j \in Pelican!Results :
                  row'[j].status = IF j = i /\ row[i].status \in Pelican!Open
                                   THEN copy.status ELSE row[j].status
  <1>1. CASE row[i].status \in Pelican!Open
    <2> DEFINE written == [row[i] EXCEPT !.status = copy.status, !.doc = copy.doc]
    <2>1. row' = [row EXCEPT ![i] = written]
      BY <1>1 DEF Pelican!Guarded, Pelican!Update
    <2>2. row[i] \in PelicanRow
      OBVIOUS
    <2>3. written \in PelicanRow /\ written.status = copy.status
      BY <2>2 DEF PelicanRow, PelicanCopy
    <2> HIDE DEF written
    <2> QED BY <1>1, <2>1, <2>3
  <1>2. CASE row[i].status \notin Pelican!Open
    BY <1>2 DEF Pelican!Guarded
  <1> QED BY <1>1, <1>2

\* Where a goroutine goes with its copy.
LEMMA WorkerAt ==
    ASSUME PelicanTypes, NEW i \in Pelican!Results, NEW copy \in PelicanCopy,
           NEW then \in {"none", "started", "generating", "saving"}, Pelican!At(i, then, copy)
    PROVE  /\ worker' \in [Pelican!Results ->
                               {"none", "waiting", "started", "generating", "saving"}]
           /\ mine' \in [Pelican!Results -> PelicanCopy]
           /\ \A j \in Pelican!Results : /\ worker'[j] = IF j = i THEN then ELSE worker[j]
                                         /\ mine'[j] = IF j = i THEN copy ELSE mine[j]
  BY DEF PelicanTypes, Pelican!At

\* The invariant holds at the start.
LEMMA PelicanInit == Pelican!Init => PelicanInv
  <1> SUFFICES ASSUME Pelican!Init PROVE PelicanInv
    OBVIOUS
  <1>1. Pelican!Committed = {}
    BY DEF Pelican!Init, Pelican!Committed, Pelican!NoRequest
  <1>2. Pelican!NoRow \in PelicanRow /\ Pelican!NoCopy \in PelicanCopy
    BY DEF Pelican!NoRow, Pelican!NoCopy, PelicanRow, PelicanCopy, Pelican!Open
  <1>3. Pelican!NoRow.status = "none"
    BY DEF Pelican!NoRow
  <1>4. PelicanTypes
    BY <1>2 DEF Pelican!Init, PelicanTypes, Pelican!NoRequest
  <1>5. OnlyCommitted
    BY <1>1, <1>3 DEF Pelican!Init, OnlyCommitted
  <1>6. OnceOnly
    BY DEF Pelican!Init, OnceOnly
  <1>7. Attended
    BY <1>3 DEF Pelican!Init, Attended, Pelican!Open
  <1> QED BY <1>4, <1>5, <1>6, <1>7 DEF PelicanInv

\* A batch that is committed: its rows are queued, the others stay, its request id is new.
LEMMA BatchInserted ==
    ASSUME PelicanInv, NEW c \in Clients, NEW b \in Pelican!Batches, Pelican!Inserted(c, b),
           ~Pelican!Known(c), asks[c] # ""
    PROVE  /\ b \notin Pelican!Committed
           /\ Pelican!Committed' = Pelican!Committed \cup {b}
           /\ submitted' \in [Pelican!Batches -> RequestIds \cup {""}]
           /\ \A d, e \in Pelican!Committed' : submitted'[d] = submitted'[e] => d = e
           /\ row' \in [Pelican!Results -> PelicanRow]
           /\ \A i \in Pelican!Results :
                  row'[i].status = IF i[1] = b THEN "queued" ELSE row[i].status
  <1>1. submitted' = [submitted EXCEPT ![b] = asks[c]] /\ b \notin Pelican!Committed
    BY DEF Pelican!Inserted
  <1>2. submitted \in [Pelican!Batches -> RequestIds \cup {""}]
    BY DEF PelicanInv, PelicanTypes
  <1>3. asks[c] \in RequestIds \cup {""}
    BY DEF PelicanInv, PelicanTypes
  <1>4. submitted' \in [Pelican!Batches -> RequestIds \cup {""}]
        /\ \A d \in Pelican!Batches : submitted'[d] = IF d = b THEN asks[c] ELSE submitted[d]
    BY <1>1, <1>2, <1>3
  <1>5. Pelican!Committed' = Pelican!Committed \cup {b}
    BY <1>4 DEF Pelican!Committed, Pelican!NoRequest
  <1>6. \A d \in Pelican!Committed : submitted[d] # asks[c]
    BY DEF Pelican!Known, Pelican!FindBatch
  <1>7. \A d, e \in Pelican!Committed' : submitted'[d] = submitted'[e] => d = e
    BY ZenonT(60), <1>1, <1>4, <1>5, <1>6 DEF PelicanInv, OnlyCommitted, Pelican!Committed
  <1> DEFINE queued == [Pelican!NoRow EXCEPT !.status = "queued"]
  <1>8. queued \in PelicanRow /\ queued.status = "queued"
    BY DEF Pelican!NoRow, PelicanRow, Pelican!Open
  <1>9. row' = [i \in Pelican!Results |-> IF i \in Pelican!Of(b) THEN queued ELSE row[i]]
    BY DEF Pelican!Inserted
  <1> HIDE DEF queued
  <1>10. row' \in [Pelican!Results -> PelicanRow]
    BY <1>8, <1>9 DEF PelicanInv, PelicanTypes
  <1>11. \A i \in Pelican!Results :
             row'[i].status = IF i[1] = b THEN "queued" ELSE row[i].status
    BY <1>8, <1>9 DEF Pelican!Of
  <1> QED BY <1>1, <1>4, <1>5, <1>7, <1>10, <1>11

\* Calls of Start keep the invariant.
LEMMA PelicanCalls ==
    ASSUME PelicanInv, NEW c \in Clients,
           Pelican!Ask(c) \/ Pelican!Create(c) \/ Pelican!CreateFails(c)
    PROVE  PelicanInv'
  <1> USE DEF Pelican!NoRequest, Pelican!rows, Pelican!procs
  <1>0. PelicanTypes /\ OnlyCommitted /\ OnceOnly /\ Attended
    BY DEF PelicanInv
  <1>1. asks' \in [Clients -> RequestIds \cup {""}]
    BY <1>0 DEF PelicanTypes, Pelican!Ask, Pelican!Create, Pelican!CreateFails, Pelican!Answered
  <1>2. CASE UNCHANGED <<submitted, row, power, cancelled, canceller, worker, mine, calls,
                         stranded>>
    <2>1. Pelican!Committed' = Pelican!Committed
      BY <1>2 DEF Pelican!Committed
    <2>2. PelicanTypes'
      BY <1>0, <1>1, <1>2 DEF PelicanTypes
    <2>3. OnlyCommitted' /\ OnceOnly' /\ Attended'
      BY <1>0, <1>2, <2>1 DEF OnlyCommitted, OnceOnly, Attended, LeftTo
    <2> QED BY <2>2, <2>3 DEF PelicanInv
  <1>3. ASSUME NEW b \in Pelican!Batches, Pelican!Inserted(c, b), ~Pelican!Known(c), asks[c] # "",
               UNCHANGED <<power, cancelled, canceller, calls>>,
               \/ /\ worker' = [i \in Pelican!Results |->
                                    IF i \in Pelican!Of(b) THEN "waiting" ELSE worker[i]]
                  /\ mine' = [i \in Pelican!Results |->
                                  IF i \in Pelican!Of(b) THEN Pelican!NoCopy ELSE mine[i]]
                  /\ stranded' = stranded
               \/ worker' = worker /\ mine' = mine /\ stranded' = stranded \cup {b}
        PROVE  PelicanInv'
    <2>1. /\ b \notin Pelican!Committed /\ Pelican!Committed' = Pelican!Committed \cup {b}
          /\ submitted' \in [Pelican!Batches -> RequestIds \cup {""}]
          /\ \A d, e \in Pelican!Committed' : submitted'[d] = submitted'[e] => d = e
          /\ row' \in [Pelican!Results -> PelicanRow]
          /\ \A i \in Pelican!Results :
                 row'[i].status = IF i[1] = b THEN "queued" ELSE row[i].status
      BY <1>3, BatchInserted
    <2>2. Pelican!NoCopy \in PelicanCopy
      BY DEF Pelican!NoCopy, PelicanCopy, Pelican!Open
    <2>a. power' = power /\ cancelled' = cancelled /\ canceller' = canceller /\ calls' = calls
      BY <1>3
    <2>b. /\ worker' \in [Pelican!Results ->
                               {"none", "waiting", "started", "generating", "saving"}]
          /\ mine' \in [Pelican!Results -> PelicanCopy]
      <3>1. /\ worker \in [Pelican!Results ->
                               {"none", "waiting", "started", "generating", "saving"}]
            /\ mine \in [Pelican!Results -> PelicanCopy]
        BY <1>0 DEF PelicanTypes
      <3> QED BY <1>3, <2>2, <3>1
    <2>3. \A i \in Pelican!Results :
              /\ worker'[i] \in {worker[i], "waiting"}
              /\ worker'[i] # worker[i] => i[1] = b
              /\ i[1] = b => worker'[i] = "waiting" \/ b \in stranded'
              /\ i[1] # b => mine'[i] = mine[i] /\ worker'[i] = worker[i]
      BY <1>3, <1>0 DEF Pelican!Of
    <2>4. stranded \subseteq stranded'
      BY <1>3
    <2>5. PelicanTypes'
      BY <1>0, <1>1, <2>1, <2>a, <2>b DEF PelicanTypes
    <2>6. OnlyCommitted'
      <3>1. \A i \in Pelican!Results : i[1] \notin Pelican!Committed' =>
                row'[i].status = "none" /\ worker'[i] = "none" /\ calls'[i] = 0
        <4> SUFFICES ASSUME NEW i \in Pelican!Results, i[1] \notin Pelican!Committed'
                     PROVE  row'[i].status = "none" /\ worker'[i] = "none" /\ calls'[i] = 0
          OBVIOUS
        <4>1. i[1] # b /\ i[1] \notin Pelican!Committed
          BY <2>1
        <4>2. row[i].status = "none" /\ worker[i] = "none" /\ calls[i] = 0
          BY <1>0, <4>1 DEF OnlyCommitted
        <4>3. row'[i].status = row[i].status /\ worker'[i] = worker[i]
          BY <4>1, <2>1, <2>3
        <4> QED BY <4>2, <4>3, <2>a
      <3>2. cancelled' \subseteq Pelican!Committed'
        BY <1>0, <2>1, <2>a DEF OnlyCommitted
      <3> QED BY <2>1, <3>1, <3>2 DEF OnlyCommitted
    <2>7. OnceOnly'
      <3> SUFFICES ASSUME NEW i \in Pelican!Results
                   PROVE  /\ calls'[i] <= 1
                          /\ worker'[i] \in {"waiting", "started", "generating"} => calls'[i] = 0
                          /\ worker'[i] = "saving" => mine'[i].status \in Pelican!Final
        BY DEF OnceOnly, Pelican!Final
      <3>1. CASE i[1] = b
        <4>1. worker[i] = "none" /\ calls[i] = 0
          BY <1>0, <2>1, <3>1 DEF OnlyCommitted
        <4>2. worker'[i] \in {"none", "waiting"} /\ calls'[i] = 0
          BY <4>1, <2>3, <2>a
        <4> QED BY <4>2
      <3>2. CASE i[1] # b
        BY <1>0, <1>3, <2>3, <3>2 DEF OnceOnly
      <3> QED BY <3>1, <3>2
    <2>8. Attended'
      <3> SUFFICES ASSUME NEW i \in Pelican!Results, row'[i].status \in Pelican!Open
                   PROVE  /\ i[1] \in cancelled' => LeftTo(i[1])'
                          /\ worker'[i] = "none" => LeftTo(i[1])'
        BY DEF Attended, Pelican!Open
      <3>1. CASE i[1] = b
        <4>1. i[1] \notin cancelled'
          BY <1>0, <2>1, <2>a, <3>1 DEF OnlyCommitted
        <4>2. worker'[i] = "none" => i[1] \in stranded'
          BY <2>3, <3>1
        <4> QED BY <4>1, <4>2 DEF LeftTo
      <3>2. CASE i[1] # b
        BY <1>0, <1>3, <2>1, <2>3, <2>4, <3>2 DEF Attended, LeftTo
      <3> QED BY <3>1, <3>2
    <2> QED BY <2>5, <2>6, <2>7, <2>8 DEF PelicanInv
  <1>4. CASE Pelican!Ask(c)
    BY <1>2, <1>4 DEF Pelican!Ask
  <1>5. CASE Pelican!Create(c)
    BY <1>2, <1>3, <1>5 DEF Pelican!Create
  <1>6. CASE Pelican!CreateFails(c)
    BY <1>2, <1>3, <1>6 DEF Pelican!CreateFails
  <1> QED BY <1>4, <1>5, <1>6

\* What a step of the goroutine of one result may do without disturbing the invariant.
LEMMA OneResult ==
    ASSUME PelicanInv, NEW i \in Pelican!Results, worker[i] # "none",
           submitted' = submitted, asks' = asks, power' = power, cancelled' = cancelled,
           canceller' = canceller, stranded \subseteq stranded',
           row' \in [Pelican!Results -> PelicanRow],
           worker' \in [Pelican!Results ->
                            {"none", "waiting", "started", "generating", "saving"}],
           mine' \in [Pelican!Results -> PelicanCopy], calls' \in [Pelican!Results -> Nat],
           \A j \in Pelican!Results : j # i =>
               row'[j].status = row[j].status /\ worker'[j] = worker[j] /\ mine'[j] = mine[j]
                   /\ calls'[j] = calls[j],
           row'[i].status \in Pelican!Open => row[i].status \in Pelican!Open,
           calls'[i] <= 1,
           worker'[i] \in {"waiting", "started", "generating"} => calls'[i] = 0,
           worker'[i] = "saving" => mine'[i].status \in Pelican!Final,
           worker'[i] = "none" /\ row'[i].status \in Pelican!Open => i[1] \in stranded'
    PROVE  PelicanInv'
  <1>0. PelicanTypes /\ OnlyCommitted /\ OnceOnly /\ Attended
    BY DEF PelicanInv
  <1>1. Pelican!Committed' = Pelican!Committed
    BY DEF Pelican!Committed, Pelican!NoRequest
  <1>2. i[1] \in Pelican!Committed
    BY <1>0 DEF OnlyCommitted
  <1>3. PelicanTypes'
    BY <1>0 DEF PelicanTypes
  <1>4. OnlyCommitted'
    <2>1. ASSUME NEW j \in Pelican!Results, j[1] \notin Pelican!Committed
          PROVE  row'[j].status = "none" /\ worker'[j] = "none" /\ calls'[j] = 0
      <3>1. j # i
        BY <1>2, <2>1
      <3> QED BY <1>0, <2>1, <3>1 DEF OnlyCommitted
    <2> QED BY <1>0, <1>1, <2>1 DEF OnlyCommitted
  <1>5. OnceOnly'
    <2> SUFFICES ASSUME NEW j \in Pelican!Results
                 PROVE  /\ calls'[j] <= 1
                        /\ worker'[j] \in {"waiting", "started", "generating"} => calls'[j] = 0
                        /\ worker'[j] = "saving" => mine'[j].status \in Pelican!Final
      BY DEF OnceOnly, Pelican!Final
    <2>1. CASE j = i
      BY <2>1
    <2>2. CASE j # i
      BY <1>0, <2>2 DEF OnceOnly
    <2> QED BY <2>1, <2>2
  <1>6. Attended'
    <2> SUFFICES ASSUME NEW j \in Pelican!Results, row'[j].status \in Pelican!Open
                 PROVE  /\ j[1] \in cancelled' => LeftTo(j[1])'
                        /\ worker'[j] = "none" => LeftTo(j[1])'
      BY DEF Attended, Pelican!Open
    <2>1. CASE j = i
      BY <1>0, <2>1 DEF Attended, LeftTo
    <2>2. CASE j # i
      BY <1>0, <2>2 DEF Attended, LeftTo
    <2> QED BY <2>1, <2>2
  <1> QED BY <1>3, <1>4, <1>5, <1>6 DEF PelicanInv

\* Every step of a goroutine keeps the invariant.
LEMMA PelicanWork ==
    ASSUME PelicanInv, NEW i \in Pelican!Results,
           Pelican!Work(i) \/ Pelican!MarkRunningFails(i) \/ Pelican!SaveFails(i)
    PROVE  PelicanInv'
  <1>0. PelicanTypes /\ OnlyCommitted /\ OnceOnly /\ Attended
    BY DEF PelicanInv
  <1>1. /\ row \in [Pelican!Results -> PelicanRow] /\ calls \in [Pelican!Results -> Nat]
        /\ worker \in [Pelican!Results ->
                           {"none", "waiting", "started", "generating", "saving"}]
        /\ mine \in [Pelican!Results -> PelicanCopy]
    BY <1>0 DEF PelicanTypes
  <1>2. /\ calls[i] <= 1 /\ calls[i] \in Nat
        /\ worker[i] \in {"waiting", "started", "generating"} => calls[i] = 0
        /\ worker[i] = "saving" => mine[i].status \in Pelican!Final
    BY <1>0, <1>1 DEF OnceOnly
  <1> DEFINE Copy(how, doc) == [status |-> how, doc |-> doc]
  <1>3. \A how \in Pelican!Open \cup Pelican!Final, doc \in BOOLEAN :
            Copy(how, doc) \in PelicanCopy /\ Copy(how, doc).status = how
    BY DEF PelicanCopy
  <1>4. Pelican!NoCopy \in PelicanCopy /\ Pelican!NoCopy.status = "queued"
    BY DEF Pelican!NoCopy, PelicanCopy, Pelican!Open
  <1>5. Pelican!Open \cap Pelican!Final = {}
    BY DEF Pelican!Open, Pelican!Final
  <1>6. /\ {"cancelled", "failed", "completed"} \subseteq Pelican!Final
        /\ "running" \in Pelican!Open /\ "none" \notin Pelican!Open
    BY DEF Pelican!Open, Pelican!Final
  <1> USE DEF Pelican!rows, Pelican!procs
  <1>7. CASE Pelican!Admit(i)
    <2>1. /\ worker[i] = "waiting" /\ Pelican!At(i, "started", Pelican!NoCopy)
          /\ UNCHANGED <<submitted, row, power, cancelled, canceller, asks, calls, stranded>>
      BY <1>7 DEF Pelican!Admit
    <2>2. /\ worker' \in [Pelican!Results ->
                              {"none", "waiting", "started", "generating", "saving"}]
          /\ mine' \in [Pelican!Results -> PelicanCopy]
          /\ \A j \in Pelican!Results : /\ worker'[j] = IF j = i THEN "started" ELSE worker[j]
                                        /\ mine'[j] = IF j = i THEN Pelican!NoCopy ELSE mine[j]
      BY <1>0, <1>4, <2>1, WorkerAt
    <2> QED BY <1>1, <1>2, <2>1, <2>2, OneResult
  <1>8. CASE Pelican!LeaveWaiting(i[1])
    <2>1. /\ i[1] \in cancelled
          /\ worker' = [j \in Pelican!Results |->
                            IF j \in Pelican!Of(i[1]) /\ worker[j] = "waiting" THEN "none"
                            ELSE worker[j]]
          /\ UNCHANGED <<submitted, row, power, cancelled, canceller, asks, mine, calls, stranded>>
      BY <1>8 DEF Pelican!LeaveWaiting
    <2>2. Pelican!Committed' = Pelican!Committed
      BY <2>1 DEF Pelican!Committed, Pelican!NoRequest
    <2>3. \A j \in Pelican!Results :
              worker'[j] = worker[j] \/ (j[1] = i[1] /\ worker'[j] = "none")
      BY <2>1 DEF Pelican!Of
    <2>4. PelicanTypes'
      BY <1>0, <1>1, <2>1 DEF PelicanTypes
    <2>5. OnlyCommitted'
      BY <1>0, <2>1, <2>2, <2>3 DEF OnlyCommitted
    <2>6. OnceOnly'
      BY <1>0, <2>1, <2>3 DEF OnceOnly, Pelican!Final
    <2>7. Attended'
      BY <1>0, <2>1, <2>3 DEF Attended, LeftTo, Pelican!Open
    <2> QED BY <2>4, <2>5, <2>6, <2>7 DEF PelicanInv
  <1>9. CASE Pelican!MarkRunning(i)
    <2>0. /\ worker[i] = "started"
          /\ UNCHANGED <<submitted, power, cancelled, canceller, asks, calls, stranded>>
      BY <1>9 DEF Pelican!MarkRunning
    <2>1. CASE Pelican!Stopped(i)
      <3>1. Pelican!At(i, "saving", Copy("cancelled", FALSE)) /\ row' = row
        BY <1>9, <2>1 DEF Pelican!MarkRunning
      <3>2. Copy("cancelled", FALSE) \in PelicanCopy
            /\ Copy("cancelled", FALSE).status = "cancelled"
        BY <1>3, <1>6
      <3> HIDE DEF Copy
      <3>3. /\ worker' \in [Pelican!Results ->
                                {"none", "waiting", "started", "generating", "saving"}]
            /\ mine' \in [Pelican!Results -> PelicanCopy]
            /\ \A j \in Pelican!Results :
                   /\ worker'[j] = IF j = i THEN "saving" ELSE worker[j]
                   /\ mine'[j] = IF j = i THEN Copy("cancelled", FALSE) ELSE mine[j]
        BY <1>0, <3>1, <3>2, WorkerAt
      <3> QED BY <1>1, <1>2, <1>6, <2>0, <3>1, <3>2, <3>3, OneResult
    <2>2. CASE ~Pelican!Stopped(i)
      <3>1. /\ Pelican!Guarded(i, Copy("running", FALSE))
            /\ row[i].status \in Pelican!Open =>
                   Pelican!At(i, "generating", Copy("running", FALSE))
            /\ row[i].status \notin Pelican!Open => Pelican!At(i, "none", Copy("running", FALSE))
        BY <1>9, <2>2 DEF Pelican!MarkRunning
      <3>2. Copy("running", FALSE) \in PelicanCopy /\ Copy("running", FALSE).status = "running"
        BY <1>3, <1>6
      <3> HIDE DEF Copy
      <3>3. /\ worker' \in [Pelican!Results ->
                                {"none", "waiting", "started", "generating", "saving"}]
            /\ mine' \in [Pelican!Results -> PelicanCopy]
            /\ \A j \in Pelican!Results : j # i => worker'[j] = worker[j] /\ mine'[j] = mine[j]
            /\ row[i].status \in Pelican!Open => worker'[i] = "generating"
            /\ row[i].status \notin Pelican!Open => worker'[i] = "none"
        <4>1. CASE row[i].status \in Pelican!Open
          BY <1>0, <3>1, <3>2, <4>1, WorkerAt
        <4>2. CASE row[i].status \notin Pelican!Open
          BY <1>0, <3>1, <3>2, <4>2, WorkerAt
        <4> QED BY <4>1, <4>2
      <3>4. /\ row' \in [Pelican!Results -> PelicanRow]
            /\ \A j \in Pelican!Results :
                   row'[j].status = IF j = i /\ row[i].status \in Pelican!Open
                                    THEN "running" ELSE row[j].status
        BY <1>1, <3>1, <3>2, RowWritten
      <3>5. worker[i] = "started" /\ calls'[i] = calls[i] /\ calls[i] = 0
        BY <1>2, <2>0
      <3>6. CASE row[i].status \in Pelican!Open
        BY <1>1, <1>2, <2>0, <3>3, <3>4, <3>5, <3>6, OneResult
      <3>7. CASE row[i].status \notin Pelican!Open
        BY <1>1, <1>2, <2>0, <3>3, <3>4, <3>5, <3>7, OneResult
      <3> QED BY <3>6, <3>7
    <2> QED BY <2>1, <2>2
  <1>10. CASE Pelican!MarkRunningFails(i)
    <2>0. /\ worker[i] = "started"
          /\ UNCHANGED <<submitted, power, cancelled, canceller, asks, calls, stranded>>
      BY <1>10 DEF Pelican!MarkRunningFails
    <2>1. Pelican!At(i, "saving", Copy("failed", FALSE))
          /\ (row' = row \/ Pelican!Guarded(i, Copy("running", FALSE)))
      BY <1>10 DEF Pelican!MarkRunningFails
    <2>2. /\ Copy("failed", FALSE) \in PelicanCopy /\ Copy("failed", FALSE).status = "failed"
          /\ Copy("running", FALSE) \in PelicanCopy /\ Copy("running", FALSE).status = "running"
      BY <1>3, <1>6
    <2> HIDE DEF Copy
    <2>3. /\ worker' \in [Pelican!Results ->
                              {"none", "waiting", "started", "generating", "saving"}]
          /\ mine' \in [Pelican!Results -> PelicanCopy]
          /\ \A j \in Pelican!Results :
                 /\ worker'[j] = IF j = i THEN "saving" ELSE worker[j]
                 /\ mine'[j] = IF j = i THEN Copy("failed", FALSE) ELSE mine[j]
      BY <1>0, <2>1, <2>2, WorkerAt
    <2>4. /\ row' \in [Pelican!Results -> PelicanRow]
          /\ \A j \in Pelican!Results : j # i => row'[j].status = row[j].status
          /\ row'[i].status \in Pelican!Open => row[i].status \in Pelican!Open
      BY <1>1, <2>1, <2>2, RowWritten
    <2> QED BY <1>1, <1>2, <1>6, <2>0, <2>2, <2>3, <2>4, OneResult
  <1>11. CASE Pelican!Generate(i)
    <2>0. /\ worker[i] = "generating" /\ calls' = [calls EXCEPT ![i] = @ + 1]
          /\ UNCHANGED <<submitted, row, power, cancelled, canceller, asks, stranded>>
      BY <1>11 DEF Pelican!Generate
    <2>1. PICK doc \in BOOLEAN, good \in BOOLEAN :
              Pelican!At(i, "saving", Copy(IF Pelican!Stopped(i) THEN "cancelled"
                                           ELSE IF good /\ doc THEN "completed" ELSE "failed", doc))
      BY <1>11 DEF Pelican!Generate
    <2> DEFINE outcome == IF Pelican!Stopped(i) THEN "cancelled"
                          ELSE IF good /\ doc THEN "completed" ELSE "failed"
    <2>2. outcome \in {"cancelled", "completed", "failed"}
      OBVIOUS
    <2>3. Pelican!At(i, "saving", Copy(outcome, doc))
      BY <2>1
    <2> HIDE DEF outcome
    <2>4. Copy(outcome, doc) \in PelicanCopy /\ Copy(outcome, doc).status \in Pelican!Final
      BY <1>3, <1>6, <2>2
    <2> HIDE DEF Copy
    <2>5. /\ worker' \in [Pelican!Results ->
                              {"none", "waiting", "started", "generating", "saving"}]
          /\ mine' \in [Pelican!Results -> PelicanCopy]
          /\ \A j \in Pelican!Results :
                 /\ worker'[j] = IF j = i THEN "saving" ELSE worker[j]
                 /\ mine'[j] = IF j = i THEN Copy(outcome, doc) ELSE mine[j]
      BY <1>0, <2>3, <2>4, WorkerAt
    <2>6. /\ calls' \in [Pelican!Results -> Nat] /\ calls'[i] = 1
          /\ \A j \in Pelican!Results : j # i => calls'[j] = calls[j]
      BY <1>1, <1>2, <2>0
    <2> QED BY <1>1, <1>2, <1>6, <2>0, <2>4, <2>5, <2>6, OneResult
  <1>12. CASE Pelican!Save(i)
    <2>0. /\ worker[i] = "saving" /\ Pelican!Guarded(i, mine[i]) /\ Pelican!At(i, "none", mine[i])
          /\ UNCHANGED <<submitted, power, cancelled, canceller, asks, calls, stranded>>
      BY <1>12 DEF Pelican!Save
    <2>1. mine[i] \in PelicanCopy /\ mine[i].status \in Pelican!Final
      BY <1>1, <1>2, <2>0
    <2>2. /\ worker' \in [Pelican!Results ->
                              {"none", "waiting", "started", "generating", "saving"}]
          /\ mine' \in [Pelican!Results -> PelicanCopy]
          /\ \A j \in Pelican!Results : /\ worker'[j] = IF j = i THEN "none" ELSE worker[j]
                                        /\ mine'[j] = IF j = i THEN mine[i] ELSE mine[j]
      BY <1>0, <2>0, <2>1, WorkerAt
    <2>3. /\ row' \in [Pelican!Results -> PelicanRow]
          /\ \A j \in Pelican!Results :
                 row'[j].status = IF j = i /\ row[i].status \in Pelican!Open
                                  THEN mine[i].status ELSE row[j].status
      BY <1>1, <2>0, <2>1, RowWritten
    <2>4. row'[i].status \notin Pelican!Open
      BY <1>5, <2>1, <2>3
    <2> QED BY <1>1, <1>2, <2>0, <2>2, <2>3, <2>4, OneResult
  <1>13. CASE Pelican!SaveFails(i)
    <2>0. /\ worker[i] = "saving" /\ (row' = row \/ Pelican!Guarded(i, mine[i]))
          /\ mine' = IF tries[i] = 2 THEN [mine EXCEPT ![i] = Pelican!Fallback(@)] ELSE mine
          /\ IF tries[i] < 3 THEN UNCHANGED <<worker, stranded>>
             ELSE /\ worker' = [worker EXCEPT ![i] = "none"]
                  /\ stranded' = stranded \cup {i[1]}
          /\ UNCHANGED <<submitted, power, cancelled, canceller, asks, calls>>
      BY <1>13 DEF Pelican!SaveFails
    <2>1. mine[i] \in PelicanCopy /\ mine[i].status \in Pelican!Final
      BY <1>1, <1>2, <2>0
    <2>2. Pelican!Fallback(mine[i]) \in PelicanCopy
          /\ Pelican!Fallback(mine[i]).status \in Pelican!Final
      BY <1>6 DEF Pelican!Fallback, PelicanCopy
    <2>3. /\ mine' \in [Pelican!Results -> PelicanCopy] /\ mine'[i].status \in Pelican!Final
          /\ \A j \in Pelican!Results : j # i => mine'[j] = mine[j]
      BY <1>1, <2>0, <2>1, <2>2
    <2>4. /\ row' \in [Pelican!Results -> PelicanRow]
          /\ \A j \in Pelican!Results : j # i => row'[j].status = row[j].status
          /\ row'[i].status \in Pelican!Open => row[i].status \in Pelican!Open
      <3>1. CASE row' = row
        BY <1>1, <3>1
      <3>2. CASE Pelican!Guarded(i, mine[i])
        BY <1>1, <2>1, <3>2, RowWritten
      <3> QED BY <2>0, <3>1, <3>2
    <2>5. /\ worker' \in [Pelican!Results ->
                              {"none", "waiting", "started", "generating", "saving"}]
          /\ \A j \in Pelican!Results : j # i => worker'[j] = worker[j]
          /\ stranded \subseteq stranded'
          /\ worker'[i] = "saving" \/ (worker'[i] = "none" /\ i[1] \in stranded')
      BY <1>1, <2>0
    <2> QED BY <1>1, <1>2, <2>0, <2>3, <2>4, <2>5, OneResult
  <1> QED BY <1>7, <1>8, <1>9, <1>10, <1>11, <1>12, <1>13 DEF Pelican!Work

\* Cancel, Close, death, recovery and the operators' changes keep the invariant.
LEMMA PelicanOthers ==
    ASSUME PelicanInv,
           \/ \E b \in Pelican!Batches : Pelican!Cancel(b)
           \/ Pelican!CancelRows \/ Pelican!Close \/ Pelican!CloseEnds \/ Pelican!Dies
           \/ Pelican!Recover
    PROVE  PelicanInv'
  <1>0. PelicanTypes /\ OnlyCommitted /\ OnceOnly /\ Attended
    BY DEF PelicanInv
  <1>1. /\ row \in [Pelican!Results -> PelicanRow] /\ calls \in [Pelican!Results -> Nat]
        /\ worker \in [Pelican!Results ->
                           {"none", "waiting", "started", "generating", "saving"}]
        /\ mine \in [Pelican!Results -> PelicanCopy]
    BY <1>0 DEF PelicanTypes
  <1> USE DEF Pelican!rows, Pelican!procs
  \* Rows that are open end, and nothing else about them.
  <1>e. ASSUME NEW S, NEW ended \in Pelican!Final,
               row' = [i \in Pelican!Results |-> IF i[1] \in S /\ row[i].status \in Pelican!Open
                                                 THEN [row[i] EXCEPT !.status = ended] ELSE row[i]]
        PROVE  /\ row' \in [Pelican!Results -> PelicanRow]
               /\ \A i \in Pelican!Results :
                      row'[i].status = IF i[1] \in S /\ row[i].status \in Pelican!Open
                                       THEN ended ELSE row[i].status
    <2>1. \A r \in PelicanRow : /\ [r EXCEPT !.status = ended] \in PelicanRow
                                /\ [r EXCEPT !.status = ended].status = ended
      BY DEF PelicanRow
    <2> QED BY <1>1, <1>e, <2>1
  <1>f. "cancelled" \in Pelican!Final /\ "interrupted" \in Pelican!Final
        /\ "cancelled" \notin Pelican!Open /\ "interrupted" \notin Pelican!Open
        /\ "none" \notin Pelican!Open
    BY DEF Pelican!Final, Pelican!Open
  \* What follows where the rows keep their kind and the goroutines go on or end.
  <1>g. ASSUME submitted' = submitted, calls' = calls, row' \in [Pelican!Results -> PelicanRow],
               asks' \in [Clients -> RequestIds \cup {""}],
               worker' \in [Pelican!Results ->
                                {"none", "waiting", "started", "generating", "saving"}],
               mine' \in [Pelican!Results -> PelicanCopy],
               cancelled' \subseteq Pelican!Committed,
               \A i \in Pelican!Results : \/ worker'[i] = worker[i] /\ mine'[i] = mine[i]
                                          \/ worker'[i] = "none",
               \A i \in Pelican!Results : row[i].status = "none" => row'[i].status = "none"
        PROVE  PelicanTypes' /\ OnlyCommitted' /\ OnceOnly'
    <2>1. Pelican!Committed' = Pelican!Committed
      BY <1>g DEF Pelican!Committed, Pelican!NoRequest
    <2>2. PelicanTypes'
      BY <1>0, <1>g DEF PelicanTypes
    <2>3. OnlyCommitted'
      BY <1>0, <1>g, <2>1 DEF OnlyCommitted
    <2>4. OnceOnly'
      BY <1>0, <1>g DEF OnceOnly, Pelican!Final
    <2> QED BY <2>2, <2>3, <2>4
  <1>j. Pelican!Jobs \subseteq Pelican!Committed
    <2> SUFFICES ASSUME NEW b \in Pelican!Jobs PROVE b \in Pelican!Committed
      OBVIOUS
    <2>1. PICK i \in Pelican!Of(b) : worker[i] # "none"
      BY DEF Pelican!Jobs
    <2>2. i \in Pelican!Results /\ i[1] = b
      BY DEF Pelican!Of
    <2> QED BY <1>0, <2>1, <2>2 DEF OnlyCommitted
  <1>2. ASSUME NEW b \in Pelican!Batches, Pelican!Cancel(b)
        PROVE  PelicanInv'
    <2>1. /\ b \in Pelican!Committed /\ canceller' = b /\ canceller = 0
          /\ cancelled' \subseteq cancelled \cup {b}
          /\ UNCHANGED <<submitted, row, power, asks, worker, mine, calls, stranded>>
      BY <1>2 DEF Pelican!Cancel
    <2>2. PelicanTypes' /\ OnlyCommitted' /\ OnceOnly'
      BY <1>0, <1>g, <2>1 DEF PelicanTypes, OnlyCommitted
    <2>z. \A i \in Pelican!Results : i[1] # 0
      <3>1. \A i \in Pelican!Results : i[1] \in Pelican!Batches
        BY DEF Pelican!Results
      <3>2. 0 \notin Pelican!Batches
        BY DEF Pelican!Batches
      <3> QED BY <3>1, <3>2
    <2>3. Attended'
      BY <1>0, <2>1, <2>z DEF Attended, LeftTo, Pelican!Open
    <2> QED BY <2>2, <2>3 DEF PelicanInv
  <1>3. CASE Pelican!CancelRows
    <2>1. /\ power = "up" /\ canceller # 0 /\ canceller' = 0
          /\ UNCHANGED <<submitted, power, cancelled, asks, worker, mine, calls>>
      BY <1>3 DEF Pelican!CancelRows
    <2>2. CASE Pelican!Cancelled({canceller}) /\ UNCHANGED <<stranded, mishaps>>
      <3>1. /\ row' \in [Pelican!Results -> PelicanRow]
            /\ \A i \in Pelican!Results :
                   row'[i].status = IF i[1] \in {canceller} /\ row[i].status \in Pelican!Open
                                    THEN "cancelled" ELSE row[i].status
        BY <1>e, <1>f, <2>2 DEF Pelican!Cancelled
      <3>2. PelicanTypes' /\ OnlyCommitted' /\ OnceOnly'
        BY <1>0, <1>f, <1>g, <2>1, <3>1 DEF PelicanTypes, OnlyCommitted
      <3>3. Attended'
        <4> SUFFICES ASSUME NEW i \in Pelican!Results, row'[i].status \in Pelican!Open
                     PROVE  /\ i[1] \in cancelled' => LeftTo(i[1])'
                            /\ worker'[i] = "none" => LeftTo(i[1])'
          BY DEF Attended, Pelican!Open
        <4>1. i[1] # canceller /\ row[i].status \in Pelican!Open
          BY <1>f, <3>1
        <4> QED BY <1>0, <2>1, <2>2, <4>1 DEF Attended, LeftTo
      <3> QED BY <3>2, <3>3 DEF PelicanInv
    <2>3. CASE stranded' = stranded \cup {canceller} /\ UNCHANGED row
      <3>1. PelicanTypes' /\ OnlyCommitted' /\ OnceOnly'
        BY <1>0, <1>g, <2>1, <2>3 DEF PelicanTypes, OnlyCommitted
      <3>2. Attended'
        BY <1>0, <2>1, <2>3 DEF Attended, LeftTo, Pelican!Open
      <3> QED BY <3>1, <3>2 DEF PelicanInv
    <2> QED BY <1>3, <2>2, <2>3 DEF Pelican!CancelRows
  <1>4. CASE Pelican!Close
    <2>1. PICK failing \in SUBSET Pelican!Jobs : Pelican!Cancelled(Pelican!Jobs \ failing)
      BY <1>4 DEF Pelican!Close
    <2>2. /\ power' = "closing" /\ cancelled' = cancelled \cup Pelican!Jobs
          /\ UNCHANGED <<submitted, canceller, asks, worker, mine, calls, stranded>>
      BY <1>4 DEF Pelican!Close
    <2>3. /\ row' \in [Pelican!Results -> PelicanRow]
          /\ \A i \in Pelican!Results : row'[i].status \in {row[i].status, "cancelled"}
          /\ \A i \in Pelican!Results : row[i].status = "none" => row'[i].status = "none"
      <3> DEFINE S == Pelican!Jobs \ failing
      <3>1. row' = [i \in Pelican!Results |-> IF i[1] \in S /\ row[i].status \in Pelican!Open
                                           THEN [row[i] EXCEPT !.status = "cancelled"] ELSE row[i]]
        BY <2>1 DEF Pelican!Cancelled
      <3> HIDE DEF S
      <3>2. /\ row' \in [Pelican!Results -> PelicanRow]
            /\ \A i \in Pelican!Results :
                   row'[i].status = IF i[1] \in S /\ row[i].status \in Pelican!Open
                                    THEN "cancelled" ELSE row[i].status
        BY <1>e, <1>f, <3>1
      <3> QED BY <1>f, <3>2
    <2>4. PelicanTypes' /\ OnlyCommitted' /\ OnceOnly'
      BY <1>0, <1>g, <1>j, <2>2, <2>3 DEF PelicanTypes, OnlyCommitted
    <2>5. Attended'
      BY <2>2 DEF Attended, LeftTo
    <2> QED BY <2>4, <2>5 DEF PelicanInv
  <1>5. CASE Pelican!Stop
    <2>1. /\ power' = "down" /\ cancelled' = {} /\ asks' = [c \in Clients |-> ""]
          /\ worker' = [i \in Pelican!Results |-> "none"]
          /\ mine' = [i \in Pelican!Results |-> Pelican!NoCopy]
          /\ UNCHANGED <<submitted, row, calls, stranded>>
      BY <1>5 DEF Pelican!Stop, Pelican!NoRequest
    <2>2. Pelican!NoCopy \in PelicanCopy
      BY DEF Pelican!NoCopy, PelicanCopy, Pelican!Open
    <2>3. PelicanTypes' /\ OnlyCommitted' /\ OnceOnly'
      BY <1>1, <1>g, <2>1, <2>2
    <2>4. Attended'
      BY <2>1 DEF Attended, LeftTo
    <2> QED BY <2>3, <2>4 DEF PelicanInv
  <1>6. CASE Pelican!Recover
    <2>1. /\ row' = [i \in Pelican!Results |-> Pelican!Interrupted(row[i])]
          /\ UNCHANGED <<submitted, cancelled, canceller, asks, worker, mine, calls>>
      BY <1>6 DEF Pelican!Recover
    <2>2. \A r \in PelicanRow : Pelican!Interrupted(r) \in PelicanRow
                                /\ Pelican!Interrupted(r).status \notin Pelican!Open
                                /\ (r.status = "none" => Pelican!Interrupted(r).status = "none")
      BY <1>f DEF Pelican!Interrupted, PelicanRow
    <2>3. /\ row' \in [Pelican!Results -> PelicanRow]
          /\ \A i \in Pelican!Results :
                 /\ row'[i].status \notin Pelican!Open
                 /\ row[i].status = "none" => row'[i].status = "none"
      BY <1>1, <2>1, <2>2
    <2>4. PelicanTypes' /\ OnlyCommitted' /\ OnceOnly'
      BY <1>0, <1>g, <2>1, <2>3 DEF PelicanTypes, OnlyCommitted
    <2>5. Attended'
      BY <2>3 DEF Attended, Pelican!Open
    <2> QED BY <2>4, <2>5 DEF PelicanInv
  <1> QED BY <1>2, <1>3, <1>4, <1>5, <1>6 DEF Pelican!CloseEnds, Pelican!Dies

\* Publishing, withdrawing and deleting results keep the invariant.
LEMMA PelicanMutated ==
    ASSUME PelicanInv, NEW S \in Pelican!Selections,
           Pelican!Publish(S) \/ Pelican!Unpublish(S) \/ Pelican!Delete(S)
    PROVE  /\ PelicanInv'
           /\ \A i \in Pelican!Results : row'[i].status \in {row[i].status, "none"}
  <1>0. PelicanTypes /\ OnlyCommitted /\ OnceOnly /\ Attended
    BY DEF PelicanInv
  <1>1. row \in [Pelican!Results -> PelicanRow]
    BY <1>0 DEF PelicanTypes
  <1>2. PICK how \in {"publish", "unpublish", "delete"} : Pelican!Mutated(S, how)
    BY DEF Pelican!Publish, Pelican!Unpublish, Pelican!Delete
  <1>3. \A r \in PelicanRow, p \in BOOLEAN : /\ [r EXCEPT !.published = p] \in PelicanRow
                                             /\ [r EXCEPT !.published = p].status = r.status
    BY DEF PelicanRow
  <1>4. Pelican!NoRow \in PelicanRow /\ Pelican!NoRow.status = "none"
    BY DEF Pelican!NoRow, PelicanRow
  <1>5. /\ row' \in [Pelican!Results -> PelicanRow]
        /\ \A i \in Pelican!Results : row'[i].status \in {row[i].status, "none"}
    <2>1. CASE how = "publish"
      BY <1>1, <1>2, <1>3, <2>1 DEF Pelican!Mutated
    <2>2. CASE how = "unpublish"
      BY <1>1, <1>2, <1>3, <2>2 DEF Pelican!Mutated
    <2>3. CASE how = "delete"
      BY <1>1, <1>2, <1>4, <2>3 DEF Pelican!Mutated
    <2> QED BY <2>1, <2>2, <2>3
  <1>6. UNCHANGED <<submitted, power, cancelled, canceller, asks, worker, mine, calls, stranded>>
    BY <1>2 DEF Pelican!Mutated, Pelican!procs
  <1>7. Pelican!Committed' = Pelican!Committed
    BY <1>6 DEF Pelican!Committed, Pelican!NoRequest
  <1>8. PelicanTypes'
    BY <1>0, <1>5, <1>6 DEF PelicanTypes
  <1>9. OnlyCommitted'
    BY <1>0, <1>5, <1>6, <1>7 DEF OnlyCommitted
  <1>10. OnceOnly'
    BY <1>0, <1>6 DEF OnceOnly, Pelican!Final
  <1>11. Attended'
    BY <1>0, <1>5, <1>6 DEF Attended, LeftTo, Pelican!Open
  <1> QED BY <1>5, <1>8, <1>9, <1>10, <1>11 DEF PelicanInv

\* Every step keeps the invariant.
LEMMA PelicanStep == PelicanInv /\ [Pelican!Next]_(Pelican!pelicanVars) => PelicanInv'
  <1> SUFFICES ASSUME PelicanInv, [Pelican!Next]_(Pelican!pelicanVars) PROVE PelicanInv'
    OBVIOUS
  <1>1. CASE \E c \in Clients : Pelican!Ask(c) \/ Pelican!Create(c) \/ Pelican!CreateFails(c)
    BY <1>1, PelicanCalls
  <1>2. CASE \E i \in Pelican!Results :
                 Pelican!Work(i) \/ Pelican!MarkRunningFails(i) \/ Pelican!SaveFails(i)
    BY <1>2, PelicanWork
  <1>3. CASE \/ \E b \in Pelican!Batches : Pelican!Cancel(b)
             \/ Pelican!CancelRows \/ Pelican!Close \/ Pelican!CloseEnds \/ Pelican!Dies
             \/ Pelican!Recover
    BY <1>3, PelicanOthers
  <1>4. CASE \E S \in Pelican!Selections :
                 Pelican!Publish(S) \/ Pelican!Unpublish(S) \/ Pelican!Delete(S)
    BY <1>4, PelicanMutated
  <1>5. CASE UNCHANGED Pelican!pelicanVars
    <2>1. UNCHANGED <<submitted, row, power, cancelled, canceller, asks, worker, mine, calls,
                      stranded>>
      BY <1>5 DEF Pelican!pelicanVars, Pelican!rows, Pelican!procs
    <2>2. Pelican!Committed' = Pelican!Committed
      BY <2>1 DEF Pelican!Committed, Pelican!NoRequest
    <2> QED BY <2>1, <2>2 DEF PelicanInv, PelicanTypes, OnlyCommitted, OnceOnly, Attended, LeftTo,
                              Pelican!Open, Pelican!Final
  <1> QED BY <1>1, <1>2, <1>3, <1>4, <1>5 DEF Pelican!Next

\* No step changes an outcome, except that a result may be deleted.
LEMMA OutcomeKept ==
    ASSUME PelicanInv, [Pelican!Next]_(Pelican!pelicanVars), NEW i \in Pelican!Results,
           row[i].status \in Pelican!Final
    PROVE  row'[i].status \in {row[i].status, "none"}
  <1>0. row \in [Pelican!Results -> PelicanRow]
    BY DEF PelicanInv, PelicanTypes
  <1>1. row[i].status \notin Pelican!Open /\ row[i].status # "none"
    BY DEF Pelican!Final, Pelican!Open
  <1> USE DEF Pelican!rows, Pelican!procs
  <1>2. ASSUME NEW c \in Clients, Pelican!Ask(c) \/ Pelican!Create(c) \/ Pelican!CreateFails(c)
        PROVE  row'[i].status = row[i].status
    <2>1. ASSUME NEW b \in Pelican!Batches, Pelican!Inserted(c, b)
          PROVE row'[i].status = row[i].status
      <3>1. b \notin Pelican!Committed
        BY <2>1 DEF Pelican!Inserted
      <3>2. i[1] # b
        BY <1>1, <3>1 DEF PelicanInv, OnlyCommitted
      <3> QED BY <2>1, <3>2 DEF Pelican!Inserted, Pelican!Of
    <2> QED BY <1>2, <2>1 DEF Pelican!Ask, Pelican!Create, Pelican!CreateFails
  <1>3. ASSUME NEW j \in Pelican!Results,
               Pelican!Work(j) \/ Pelican!MarkRunningFails(j) \/ Pelican!SaveFails(j)
        PROVE  row'[i].status = row[i].status
    <2>1. ASSUME NEW copy, Pelican!Guarded(j, copy) PROVE row'[i].status = row[i].status
      <3>1. CASE row[j].status \in Pelican!Open
        <4>1. i # j
          BY <1>1, <3>1
        <4> QED BY <1>0, <2>1, <3>1, <4>1 DEF Pelican!Guarded, Pelican!Update
      <3>2. CASE row[j].status \notin Pelican!Open
        BY <2>1, <3>2 DEF Pelican!Guarded
      <3> QED BY <3>1, <3>2
    <2>2. row' = row \/ \E copy : Pelican!Guarded(j, copy)
      BY <1>3 DEF Pelican!Work, Pelican!Admit, Pelican!LeaveWaiting, Pelican!MarkRunning,
                  Pelican!Generate, Pelican!Save, Pelican!MarkRunningFails, Pelican!SaveFails
    <2> QED BY <2>1, <2>2
  <1>4. CASE \/ \E b \in Pelican!Batches : Pelican!Cancel(b)
             \/ Pelican!CloseEnds \/ Pelican!Dies
    BY <1>4 DEF Pelican!Cancel, Pelican!CloseEnds, Pelican!Dies, Pelican!Stop
  <1>5. CASE Pelican!CancelRows
    BY <1>1, <1>5 DEF Pelican!CancelRows, Pelican!Cancelled
  <1>6. CASE Pelican!Close
    BY <1>1, <1>6 DEF Pelican!Close, Pelican!Cancelled
  <1>7. CASE Pelican!Recover
    BY <1>1, <1>7 DEF Pelican!Recover, Pelican!Interrupted
  <1>8. ASSUME NEW S \in Pelican!Selections,
               Pelican!Publish(S) \/ Pelican!Unpublish(S) \/ Pelican!Delete(S)
        PROVE  row'[i].status \in {row[i].status, "none"}
    BY <1>8, PelicanMutated
  <1>9. CASE UNCHANGED Pelican!pelicanVars
    BY <1>9 DEF Pelican!pelicanVars
  <1> QED BY <1>2, <1>3, <1>4, <1>5, <1>6, <1>7, <1>8, <1>9 DEF Pelican!Next

\* A step of the composition is a step of the pelican tests, or leaves them alone.
LEMMA PelicanAlone ==
    ASSUME [PartNext]_<<part, vars, pelicanVars, replyVars, verdictVars,
                        probeVars, priceVars, sessionVars, bookVars>>
    PROVE  [Pelican!Next]_(Pelican!pelicanVars)
  BY DEF PartNext, Is, pelicanVars, Pelican!pelicanVars, Pelican!rows, Pelican!procs

\* The invariant holds for ever.
LEMMA PelicanHolds == PartSpec => []PelicanInv
  <1>1. PartInit => PelicanInv
    BY PelicanInit DEF PartInit
  <1>2. PelicanInv /\ [PartNext]_<<part, vars, pelicanVars, replyVars, verdictVars, probeVars,
                                   priceVars, sessionVars, bookVars>> => PelicanInv'
    BY PelicanStep, PelicanAlone
  <1> QED BY <1>1, <1>2, PTL DEF PartSpec

\* Pairs are the same when their parts are.
LEMMA SamePair ==
    ASSUME NEW S, NEW T, NEW k \in S \X T, NEW l \in S \X T, k[1] = l[1], k[2] = l[2]
    PROVE  k = l
  OBVIOUS

\* However often a submission is repeated and whatever is lost, a target is generated once at
\* most; and a row that is open while nothing works on it is left to somebody.
THEOREM TargetsServed == PartSpec => []TargetsAreServed
  <1>1. ASSUME PelicanInv PROVE Pelican!ChargedOnce
    <2> SUFFICES ASSUME NEW i \in Pelican!Results, NEW j \in Pelican!Results,
                        submitted[i[1]] = submitted[j[1]], i[2] = j[2], submitted[i[1]] # ""
                 PROVE  IF i = j THEN calls[i] <= 1 ELSE calls[i] + calls[j] <= 1
      BY DEF Pelican!ChargedOnce, Pelican!NoRequest
    <2>1. i[1] \in Pelican!Committed /\ j[1] \in Pelican!Committed
      BY DEF Pelican!Committed, Pelican!NoRequest, Pelican!Results
    <2>2. i[1] = j[1]
      BY <1>1, <2>1 DEF PelicanInv, OnlyCommitted
    <2>3. i = j
      BY <2>2, SamePair DEF Pelican!Results
    <2> QED BY <1>1, <2>3 DEF PelicanInv, OnceOnly
  <1>2. ASSUME PelicanInv PROVE Pelican!OpenIsAttended
    BY <1>2 DEF PelicanInv, Attended, LeftTo, Pelican!OpenIsAttended
  <1>3. PelicanInv => TargetsAreServed
    BY <1>1, <1>2 DEF TargetsAreServed
  <1> QED BY <1>3, PelicanHolds, PTL

\* A result that has ended never changes its outcome, whoever saves, cancels or recovers late.
THEOREM OutcomesStand == PartSpec => FinalIsFinal
  <1>1. PelicanInv /\ [PartNext]_<<part, vars, pelicanVars, replyVars, verdictVars, probeVars,
                                   priceVars, sessionVars, bookVars>>
            => [\A i \in Pelican!Results : row[i].status \in Pelican!Final =>
                    row'[i].status \in {row[i].status, "none"}]_(Pelican!pelicanVars)
    BY PelicanAlone, OutcomeKept
  <1> QED BY <1>1, PelicanHolds, PTL DEF PartSpec, FinalIsFinal, Pelican!FinalIsFinal

(***************************************************************************)
(* An administrator's session                                              *)
(***************************************************************************)
Asking  == [at : {"asks", "found"}, snap : Nat \ {0}, seen : Nat, for : SUBSET Session!Kinds]
Replied == [at : {"answer", "waits"}, snap : Nat \ {0}, seen : Nat, for : SUBSET Session!Kinds,
            reply : Nat]
TabTypes == {Session!Idle} \cup Asking \cup Replied

SessionTypes ==
    /\ tab \in [Tabs -> TabTypes] /\ leaving \subseteq Tabs
    /\ issued \in 1..MaxPairs /\ pair \in 0..issued
    /\ DOMAIN tokens \subseteq 1..issued /\ dead \subseteq 1..issued /\ stale \subseteq 1..issued
    /\ from \in [Session!Pairs -> Nat]
    /\ out \in BOOLEAN /\ excused \in BOOLEAN /\ lostAt \in BOOLEAN

\* Where a tab is with its refresh.
Busy(t)    == tab[t].at # "idle"
Given(t)   == tab[t].at = "answer" /\ tab[t].reply # 0
Refused(t) == tab[t].at = "waits" \/ (tab[t].at = "answer" /\ tab[t].reply = 0)

\* A refresh token the server takes.
Valid(p) == p \in DOMAIN tokens /\ p \notin dead /\ tokens[p] = password

\* A token that gave a pair is gone, and gave no other.
Descent ==
    /\ \A p \in Session!Pairs : from[p] # 0 =>
           p <= issued /\ from[p] <= issued /\ from[p] \notin DOMAIN tokens
    /\ \A p, q \in Session!Pairs : from[p] = from[q] /\ from[p] # 0 => p = q

\* A pair that is on its way was never stored, and is on its way to one tab.
Flight ==
    \A t \in Tabs :
        /\ Busy(t) => tab[t].snap <= issued
        /\ Given(t) =>
               /\ tab[t].reply <= issued /\ tab[t].reply # pair /\ tab[t].reply \notin stale
               /\ \A u \in Tabs : /\ Busy(u) => tab[u].snap # tab[t].reply
                                  /\ u # t /\ Given(u) => tab[u].reply # tab[t].reply

\* No session was given up; one that is over was left or had a cause.
Accounted ==
    /\ ~lostAt /\ (out => pair = 0)
    /\ pair = 0 => excused
    /\ leaving # {} => excused

\* Before anything happened that may end the session: its pair is good, or was exchanged by a
\* tab whose answer is under way; what is under way is good; a pair stored since a refresh
\* began is fresh; and a tab was refused only what is spent.
Alive ==
    /\ Valid(pair) \/ \E t \in Tabs : Given(t) /\ tab[t].snap = pair
    /\ \A t \in Tabs :
           /\ Given(t) => Valid(tab[t].reply)
           /\ Busy(t) /\ tab[t].snap # pair => pair \notin stale
           /\ Refused(t) /\ tab[t].snap = pair => ~Valid(pair)

SessionInv == SessionTypes /\ Descent /\ Flight /\ Accounted /\ (~excused => Alive)

\* The states of a tab, one by one.
LEMMA TabState ==
    ASSUME SessionTypes, NEW t \in Tabs
    PROVE  \/ tab[t] = Session!Idle /\ tab[t].at = "idle"
           \/ tab[t] \in Asking /\ tab[t].at \in {"asks", "found"}
           \/ tab[t] \in Replied /\ tab[t].at \in {"answer", "waits"}
  BY DEF SessionTypes, TabTypes, Asking, Replied, Session!Idle

\* One tab goes on.
LEMMA TabStep ==
    ASSUME SessionTypes, NEW t \in Tabs, NEW then \in TabTypes, Session!Step(t, then)
    PROVE  /\ tab' \in [Tabs -> TabTypes] /\ tab'[t] = then
           /\ \A u \in Tabs : u # t => tab'[u] = tab[u]
  BY DEF SessionTypes, Session!Step

\* The server answers a tab.
LEMMA TabReplied ==
    ASSUME SessionTypes, NEW t \in Tabs, NEW p \in Nat, tab[t].at \in {"asks", "found"},
           Session!Reply(t, p)
    PROVE  /\ tab' \in [Tabs -> TabTypes]
           /\ tab'[t].at = "answer" /\ tab'[t].reply = p /\ tab'[t].snap = tab[t].snap
           /\ \A u \in Tabs : u # t => tab'[u] = tab[u]
  <1> DEFINE then == [at |-> "answer", snap |-> tab[t].snap, seen |-> tab[t].seen,
                      for |-> tab[t].for, reply |-> p]
  <1>1. tab[t] \in Asking
    BY TabState
  <1>2. then \in Replied
    BY <1>1 DEF Asking, Replied
  <1>3. then.at = "answer" /\ then.reply = p /\ then.snap = tab[t].snap
    OBVIOUS
  <1>4. Session!Step(t, then)
    BY DEF Session!Reply
  <1>5. then \in TabTypes
    BY <1>2 DEF TabTypes
  <1> HIDE DEF then
  <1> QED BY <1>3, <1>4, <1>5, TabStep

\* The invariant holds at the start.
LEMMA SessionInit == Session!Init => SessionInv
  <1> SUFFICES ASSUME Session!Init PROVE SessionInv
    OBVIOUS
  <1>0. MaxPairs \in Nat /\ MaxPairs >= 1
    BY PartsAssumption DEF Session!SessionAssumption
  <1>1. /\ tokens = [p \in {1} |-> 0] /\ password = 0 /\ dead = {} /\ stale = {} /\ pair = 1
        /\ tab = [t \in Tabs |-> Session!Idle] /\ leaving = {} /\ issued = 1
        /\ from = [p \in Session!Pairs |-> 0]
    BY DEF Session!Init
  <1>2. out = FALSE /\ excused = FALSE /\ lostAt = FALSE
    BY DEF Session!Init
  <1>3. \A t \in Tabs : tab[t] = Session!Idle /\ tab[t].at = "idle"
    BY <1>1 DEF Session!Idle
  <1>4. SessionTypes
    <2>1. tab \in [Tabs -> TabTypes] /\ leaving \subseteq Tabs
      BY <1>1 DEF TabTypes
    <2>2. /\ issued \in 1..MaxPairs /\ pair \in 0..issued
          /\ DOMAIN tokens \subseteq 1..issued /\ dead \subseteq 1..issued
          /\ stale \subseteq 1..issued /\ from \in [Session!Pairs -> Nat]
      BY <1>0, <1>1
    <2>3. out \in BOOLEAN /\ excused \in BOOLEAN /\ lostAt \in BOOLEAN
      BY <1>2
    <2> QED BY <2>1, <2>2, <2>3 DEF SessionTypes
  <1>5. Descent
    BY <1>1 DEF Descent
  <1>6. Flight
    BY <1>3 DEF Flight, Busy, Given
  <1>7. Accounted
    <2>1. pair # 0 /\ leaving = {}
      BY <1>1
    <2> QED BY <1>2, <2>1 DEF Accounted
  <1>8. Alive
    BY <1>1, <1>3 DEF Alive, Busy, Given, Refused, Valid
  <1> QED BY <1>4, <1>5, <1>6, <1>7, <1>8 DEF SessionInv

\* What a step may do without touching the pairs that are under way: it suffices that the
\* session stays alive, or has a cause to end.
LEMMA SessionKept ==
    ASSUME SessionInv, SessionTypes',
           issued' = issued, from' = from, lostAt' = lostAt, pair' \in {pair, 0},
           DOMAIN tokens' \subseteq DOMAIN tokens, stale' \subseteq stale \cup {pair},
           \A u \in Tabs : Given(u)' => Given(u) /\ tab'[u].reply = tab[u].reply,
           \A u \in Tabs : Busy(u)' =>
               tab'[u].snap = pair \/ (Busy(u) /\ tab'[u].snap = tab[u].snap),
           out' => out \/ pair' = 0,
           pair' = 0 => pair = 0 \/ excused',
           leaving' # {} => leaving # {} \/ excused',
           excused => excused',
           ~excused' => Alive'
    PROVE  SessionInv'
  <1>0. SessionTypes /\ Descent /\ Flight /\ Accounted
    BY DEF SessionInv
  <1>1. Descent'
    BY <1>0 DEF Descent
  <1>2. Flight'
    <2> SUFFICES ASSUME NEW t \in Tabs
                 PROVE  /\ Busy(t)' => tab'[t].snap <= issued'
                        /\ Given(t)' =>
                              /\ tab'[t].reply <= issued' /\ tab'[t].reply # pair'
                              /\ tab'[t].reply \notin stale'
                              /\ \A u \in Tabs :
                                     /\ Busy(u)' => tab'[u].snap # tab'[t].reply
                                     /\ u # t /\ Given(u)' => tab'[u].reply # tab'[t].reply
      BY DEF Flight
    <2>1. Busy(t)' => tab'[t].snap <= issued'
      BY <1>0 DEF Flight, SessionTypes
    <2>2. ASSUME Given(t)'
          PROVE  /\ tab'[t].reply <= issued' /\ tab'[t].reply # pair'
                 /\ tab'[t].reply \notin stale'
                 /\ \A u \in Tabs : /\ Busy(u)' => tab'[u].snap # tab'[t].reply
                                    /\ u # t /\ Given(u)' => tab'[u].reply # tab'[t].reply
      <3>1. Given(t) /\ tab'[t].reply = tab[t].reply /\ tab[t].reply # 0
        BY <2>2 DEF Given
      <3>2. /\ tab[t].reply <= issued /\ tab[t].reply # pair /\ tab[t].reply \notin stale
            /\ \A u \in Tabs : /\ Busy(u) => tab[u].snap # tab[t].reply
                               /\ u # t /\ Given(u) => tab[u].reply # tab[t].reply
        BY <1>0, <3>1 DEF Flight
      <3> QED BY <3>1, <3>2
    <2> QED BY <2>1, <2>2
  <1>3. Accounted'
    BY <1>0 DEF Accounted
  <1> QED BY <1>1, <1>2, <1>3 DEF SessionInv

\* A refresh begins, or a request joins it.
LEMMA BeginStep ==
    ASSUME SessionInv, NEW t \in Tabs, NEW k \in Session!Kinds, Session!Begin(t, k)
    PROVE  SessionInv'
  <1>0. SessionTypes
    BY DEF SessionInv
  <1>1. /\ pair # 0
        /\ UNCHANGED <<tokens, password, dead, stale, issued, from, pair, leaving, out, excused,
                       lostAt>>
    BY DEF Session!Begin, Session!server, Session!history
  <1>2. pair \in Nat \ {0}
    BY <1>0, <1>1 DEF SessionTypes
  <1>3. /\ tab' \in [Tabs -> TabTypes] /\ \A u \in Tabs : u # t => tab'[u] = tab[u]
        /\ \/ tab[t].at = "idle" /\ tab'[t].at = "asks" /\ tab'[t].snap = pair
           \/ /\ tab'[t].at = tab[t].at /\ tab'[t].snap = tab[t].snap
              /\ tab[t].at \in {"answer", "waits"} => tab'[t].reply = tab[t].reply
    <2>1. CASE tab[t].at = "idle"
      <3> DEFINE then == [at |-> "asks", snap |-> pair, seen |-> pair, for |-> {k}]
      <3>1. Session!Step(t, then)
        BY <2>1 DEF Session!Begin
      <3>2. then \in Asking
        BY <1>2 DEF Asking
      <3>3. then \in TabTypes /\ then.at = "asks" /\ then.snap = pair
        BY <3>2 DEF TabTypes
      <3> HIDE DEF then
      <3> QED BY <1>0, <2>1, <3>1, <3>3, TabStep
    <2>2. CASE tab[t].at # "idle"
      <3> DEFINE seen == IF k = "request" THEN pair ELSE tab[t].seen
                 kinds == tab[t].for \cup {k}
                 then == [tab[t] EXCEPT !.for = kinds, !.seen = seen]
      <3>1. Session!Step(t, then)
        BY <2>2 DEF Session!Begin
      <3>2. CASE tab[t] \in Asking
        <4>1. seen \in Nat /\ kinds \in SUBSET Session!Kinds
          BY <1>2, <3>2 DEF Asking
        <4> HIDE DEF seen, kinds
        <4>2. then \in Asking /\ then.at = tab[t].at /\ then.snap = tab[t].snap
          BY <3>2, <4>1 DEF Asking
        <4>3. then \in TabTypes /\ tab[t].at \notin {"answer", "waits"}
          BY <3>2, <4>2 DEF TabTypes, Asking
        <4> HIDE DEF then
        <4> QED BY <1>0, <3>1, <4>2, <4>3, TabStep
      <3>3. CASE tab[t] \in Replied
        <4>1. seen \in Nat /\ kinds \in SUBSET Session!Kinds
          BY <1>2, <3>3 DEF Replied
        <4> HIDE DEF seen, kinds
        <4>2. then \in Replied /\ then.at = tab[t].at /\ then.snap = tab[t].snap
              /\ then.reply = tab[t].reply
          BY <3>3, <4>1 DEF Replied
        <4>3. then \in TabTypes
          BY <4>2 DEF TabTypes
        <4> HIDE DEF then
        <4> QED BY <1>0, <3>1, <4>2, <4>3, TabStep
      <3> QED BY <1>0, <2>2, <3>2, <3>3, TabState
    <2> QED BY <2>1, <2>2
  <1>4. SessionTypes'
    BY <1>0, <1>1, <1>3 DEF SessionTypes
  <1>5. \A u \in Tabs : /\ Given(u)' <=> Given(u)
                        /\ Given(u)' => tab'[u].reply = tab[u].reply /\ tab'[u].snap = tab[u].snap
                        /\ Refused(u)' => Refused(u) /\ tab'[u].snap = tab[u].snap
                        /\ Busy(u)' => \/ tab'[u].snap = pair
                                       \/ Busy(u) /\ tab'[u].snap = tab[u].snap
    <2> SUFFICES ASSUME NEW u \in Tabs
                 PROVE  /\ Given(u)' <=> Given(u)
                        /\ Given(u)' => tab'[u].reply = tab[u].reply /\ tab'[u].snap = tab[u].snap
                        /\ Refused(u)' => Refused(u) /\ tab'[u].snap = tab[u].snap
                        /\ Busy(u)' => \/ tab'[u].snap = pair
                                       \/ Busy(u) /\ tab'[u].snap = tab[u].snap
      OBVIOUS
    <2>1. CASE u = t
      BY <1>3, <2>1 DEF Given, Refused, Busy
    <2>2. CASE u # t
      BY <1>3, <2>2 DEF Given, Refused, Busy
    <2> QED BY <2>1, <2>2
  <1>6. ASSUME ~excused' PROVE Alive'
    <2>1. Alive
      BY <1>1, <1>6 DEF SessionInv
    <2>2. \A p : Valid(p)' <=> Valid(p)
      BY <1>1 DEF Valid
    <2> QED BY <1>1, <1>5, <2>1, <2>2 DEF Alive
  <1> QED BY <1>1, <1>4, <1>5, <1>6, SessionKept

\* A row that goes leaves the others as they were.
LEMMA RowGone ==
    ASSUME NEW s, tokens' = Session!Without(tokens, s), password' = password, dead' = dead
    PROVE  /\ DOMAIN tokens' = DOMAIN tokens \ {s}
           /\ \A p : Valid(p)' <=> Valid(p) /\ p # s
  <1>1. /\ DOMAIN tokens' = DOMAIN tokens \ {s}
        /\ \A p \in DOMAIN tokens \ {s} : tokens'[p] = tokens[p]
    BY DEF Session!Without
  <1> QED BY <1>1 DEF Valid

\* A refresh is refused, for a token that is not good or with a cause.
LEMMA RefusedStep ==
    ASSUME SessionInv, NEW t \in Tabs, tab[t].at \in {"asks", "found"}, Session!Reply(t, 0),
           UNCHANGED <<password, dead, stale, issued, from, pair, leaving, out, lostAt>>,
           tokens' = tokens \/ tokens' = Session!Without(tokens, tab[t].snap),
           excused' \/ (excused' = excused /\ ~Valid(tab[t].snap)), excused' \in BOOLEAN
    PROVE  SessionInv'
  <1>0. SessionTypes
    BY DEF SessionInv
  <1>1. /\ tab' \in [Tabs -> TabTypes]
        /\ tab'[t].at = "answer" /\ tab'[t].reply = 0 /\ tab'[t].snap = tab[t].snap
        /\ \A u \in Tabs : u # t => tab'[u] = tab[u]
    BY <1>0, TabReplied
  <1>2. /\ DOMAIN tokens' \subseteq DOMAIN tokens
        /\ \A p : Valid(p)' => Valid(p)
        /\ \A p : p # tab[t].snap /\ Valid(p) => Valid(p)'
    <2>1. CASE tokens' = tokens
      BY <2>1 DEF Valid
    <2>2. CASE tokens' = Session!Without(tokens, tab[t].snap)
      BY <2>2, RowGone
    <2> QED BY <2>1, <2>2
  <1>3. SessionTypes'
    BY <1>0, <1>1, <1>2 DEF SessionTypes
  <1>4. \A u \in Tabs : /\ Given(u)' <=> Given(u)
                        /\ Given(u)' => tab'[u].reply = tab[u].reply
                        /\ tab'[u].snap = tab[u].snap
                        /\ Busy(u)' <=> Busy(u)
                        /\ Refused(u)' => Refused(u) \/ u = t
    <2> SUFFICES ASSUME NEW u \in Tabs
                 PROVE  /\ Given(u)' <=> Given(u)
                        /\ Given(u)' => tab'[u].reply = tab[u].reply
                        /\ tab'[u].snap = tab[u].snap
                        /\ Busy(u)' <=> Busy(u)
                        /\ Refused(u)' => Refused(u) \/ u = t
      OBVIOUS
    <2>1. CASE u = t
      BY <1>1, <2>1 DEF Given, Refused, Busy
    <2>2. CASE u # t
      BY <1>1, <2>2 DEF Given, Refused, Busy
    <2> QED BY <2>1, <2>2
  <1>5. ASSUME ~excused' PROVE Alive'
    <2>1. Alive /\ ~Valid(tab[t].snap)
      BY <1>5 DEF SessionInv
    <2>2. \A p : Valid(p)' <=> Valid(p)
      BY <1>2, <2>1
    <2>3. Valid(pair)' \/ \E u \in Tabs : Given(u)' /\ tab'[u].snap = pair'
      BY <1>4, <2>1, <2>2 DEF Alive
    <2>4. ASSUME NEW u \in Tabs, Busy(u)', tab'[u].snap # pair' PROVE pair' \notin stale'
      BY <1>4, <2>1, <2>4 DEF Alive
    <2>7. ASSUME NEW u \in Tabs, Refused(u)', tab'[u].snap = pair' PROVE ~Valid(pair)'
      BY <1>4, <2>1, <2>2, <2>7 DEF Alive
    <2>5. ASSUME NEW u \in Tabs, Given(u)', NEW q, q = tab'[u].reply PROVE Valid(q)'
      <3>1. Given(u) /\ q = tab[u].reply
        BY <1>4, <2>5
      <3>2. Valid(q)
        BY <2>1, <3>1 DEF Alive
      <3> QED BY <2>2, <3>2
    <2>6. \A u \in Tabs : Given(u)' => /\ tab'[u].reply \in DOMAIN tokens'
                                        /\ tab'[u].reply \notin dead'
                                        /\ tokens'[tab'[u].reply] = password'
      BY <2>5 DEF Valid
    <2> QED BY <2>3, <2>4, <2>6, <2>7 DEF Alive, Valid
  <1>6. excused => excused'
    OBVIOUS
  <1> QED BY <1>2, <1>3, <1>4, <1>5, <1>6, SessionKept

\* The server looks the token up.
LEMMA FindStep ==
    ASSUME SessionInv, NEW t \in Tabs, Session!Find(t)
    PROVE  SessionInv'
  <1>0. SessionTypes
    BY DEF SessionInv
  <1>1. /\ tab[t].at = "asks" /\ excused \in BOOLEAN
        /\ UNCHANGED <<password, dead, stale, issued, from, pair, leaving, out, excused, lostAt>>
    BY <1>0 DEF Session!Find, Session!history, SessionTypes
  <1>2. CASE ~Valid(tab[t].snap)
    <2>1. /\ Session!Reply(t, 0)
          /\ tokens' = tokens \/ tokens' = Session!Without(tokens, tab[t].snap)
      BY <1>2 DEF Session!Find, Valid
    <2> QED BY <1>1, <1>2, <2>1, RefusedStep
  <1>3. CASE Valid(tab[t].snap)
    <2> DEFINE then == [tab[t] EXCEPT !.at = "found"]
    <2>1. tokens' = tokens /\ Session!Step(t, then)
      BY <1>3 DEF Session!Find, Valid
    <2>2. tab[t] \in Asking
      BY <1>0, <1>1, TabState
    <2>3. then \in Asking /\ then.at = "found" /\ then.snap = tab[t].snap
      BY <2>2 DEF Asking
    <2>4. then \in TabTypes
      BY <2>3 DEF TabTypes
    <2> HIDE DEF then
    <2>5. /\ tab' \in [Tabs -> TabTypes] /\ tab'[t] = then
          /\ \A u \in Tabs : u # t => tab'[u] = tab[u]
      BY <1>0, <2>1, <2>4, TabStep
    <2>6. SessionTypes'
      BY <1>0, <1>1, <2>1, <2>5 DEF SessionTypes
    <2>7. \A u \in Tabs : /\ Given(u)' <=> Given(u)
                          /\ Given(u)' => tab'[u].reply = tab[u].reply
                          /\ tab'[u].snap = tab[u].snap
                          /\ Busy(u)' <=> Busy(u)
                          /\ Refused(u)' <=> Refused(u)
      <3> SUFFICES ASSUME NEW u \in Tabs
                   PROVE  /\ Given(u)' <=> Given(u)
                          /\ Given(u)' => tab'[u].reply = tab[u].reply
                          /\ tab'[u].snap = tab[u].snap
                          /\ Busy(u)' <=> Busy(u)
                          /\ Refused(u)' <=> Refused(u)
        OBVIOUS
      <3>1. CASE u = t
        BY <1>1, <2>3, <2>5, <3>1 DEF Given, Refused, Busy
      <3>2. CASE u # t
        BY <2>5, <3>2 DEF Given, Refused, Busy
      <3> QED BY <3>1, <3>2
    <2>8. ASSUME ~excused' PROVE Alive'
      <3>1. Alive
        BY <1>1, <2>8 DEF SessionInv
      <3>2. \A p : Valid(p)' <=> Valid(p)
        BY <1>1, <2>1 DEF Valid
      <3> QED BY <1>1, <2>7, <3>1, <3>2 DEF Alive
    <2> QED BY <1>1, <2>1, <2>6, <2>7, <2>8, SessionKept
  <1> QED BY <1>2, <1>3

\* A statement fails.
LEMMA BreakStep ==
    ASSUME SessionInv, NEW t \in Tabs, Session!Break(t)
    PROVE  SessionInv'
  <1>1. /\ tab[t].at \in {"asks", "found"} /\ Session!Reply(t, 0) /\ excused' = TRUE
        /\ UNCHANGED <<tokens, password, dead, stale, issued, from, pair, leaving, out, lostAt>>
    BY DEF Session!Break, Session!Excuse, Session!server
  <1> QED BY <1>1, RefusedStep

\* The token is exchanged for a pair, or another request has done that.
LEMMA RotateStep ==
    ASSUME SessionInv, NEW t \in Tabs, NEW b \in BOOLEAN, Session!Rotate(t, b)
    PROVE  SessionInv'
  <1>0. SessionTypes /\ Descent /\ Flight /\ Accounted
    BY DEF SessionInv
  <1> DEFINE s == tab[t].snap
             p == issued + 1
             r == IF b THEN 0 ELSE p
  <1>1. /\ tab[t].at = "found"
        /\ UNCHANGED <<password, dead, stale, pair, leaving, out, lostAt>>
    BY DEF Session!Rotate
  <1>2. (excused' = TRUE \/ (excused' = excused /\ ~b)) /\ excused' \in BOOLEAN
    BY <1>0 DEF Session!Rotate, Session!Excuse, SessionTypes
  <1>3. CASE ~Session!HasRow(t)
    <2>1. /\ Session!Reply(t, 0) /\ UNCHANGED <<issued, tokens, from>>
          /\ ~Valid(tab[t].snap)
      BY <1>3 DEF Session!Rotate, Session!HasRow, Valid
    <2> QED BY <1>1, <1>2, <2>1, RefusedStep
  <1>4. CASE Session!HasRow(t)
    <2>1. /\ issued < MaxPairs /\ issued' = p /\ s \in DOMAIN tokens
          /\ tokens' = Session!With(Session!Without(tokens, s), p, password)
          /\ from' = [from EXCEPT ![p] = s] /\ Session!Reply(t, r)
      BY <1>4 DEF Session!Rotate, Session!HasRow
    <2>2. /\ issued \in 1..MaxPairs /\ pair \in 0..issued /\ DOMAIN tokens \subseteq 1..issued
          /\ dead \subseteq 1..issued /\ stale \subseteq 1..issued
          /\ from \in [Session!Pairs -> Nat] /\ MaxPairs \in Nat
      BY <1>0, PartsAssumption DEF SessionTypes, Session!SessionAssumption
    <2>3. s \in 1..issued /\ p \in Session!Pairs /\ p \notin 1..issued /\ p # 0 /\ p \in Nat
          /\ p # pair /\ p # s /\ issued' \in 1..MaxPairs /\ pair' \in 0..issued' /\ r \in Nat
          /\ 1..issued \subseteq 1..issued' /\ p \in 1..issued'
      BY <1>1, <2>1, <2>2 DEF Session!Pairs
    <2>4. /\ tab' \in [Tabs -> TabTypes]
          /\ tab'[t].at = "answer" /\ tab'[t].reply = r /\ tab'[t].snap = s
          /\ \A u \in Tabs : u # t => tab'[u] = tab[u]
      BY <1>0, <1>1, <2>1, <2>3, TabReplied
    <2>5. r \in {0, p} /\ (~b => r = p)
      OBVIOUS
    <2> HIDE DEF s, p, r
    <2>6. /\ DOMAIN tokens' = (DOMAIN tokens \ {s}) \cup {p} /\ tokens'[p] = password
          /\ \A q \in DOMAIN tokens \ {s} : q # p => tokens'[q] = tokens[q]
      BY <2>1 DEF Session!With, Session!Without
    <2>7. /\ \A q : q \notin {s, p} => (Valid(q)' <=> Valid(q))
          /\ \A q : q = p => Valid(q)'
          /\ \A q : q = s => ~Valid(q)'
      <3>1. p \notin dead /\ p # s
        BY <2>2, <2>3
      <3> QED BY <1>1, <2>6, <3>1 DEF Valid
    <2>8. SessionTypes'
      <3>1. DOMAIN tokens' \subseteq 1..issued' /\ dead' \subseteq 1..issued'
            /\ stale' \subseteq 1..issued'
        BY <1>1, <2>2, <2>3, <2>6
      <3>2. from' \in [Session!Pairs -> Nat]
        BY <2>1, <2>2, <2>3
      <3> QED BY <1>0, <1>1, <1>2, <2>3, <2>4, <3>1, <3>2 DEF SessionTypes
    <2>9. Descent'
      <3>1. from'[p] = s /\ \A q \in Session!Pairs : q # p => from'[q] = from[q]
        BY <2>1, <2>2, <2>3
      <3>2. \A q \in Session!Pairs : q # p => from'[q] # s
        BY <1>0, <2>1, <2>3, <3>1 DEF Descent
      <3>3. ASSUME NEW q \in Session!Pairs, from'[q] # 0
            PROVE  q <= issued' /\ from'[q] <= issued' /\ from'[q] \notin DOMAIN tokens'
        <4>1. CASE q = p
          BY <2>1, <2>2, <2>3, <2>6, <3>1, <4>1
        <4>2. CASE q # p
          <5>1. /\ from'[q] = from[q] /\ q <= issued
                /\ from[q] <= issued /\ from[q] \notin DOMAIN tokens
            BY <1>0, <3>1, <3>3, <4>2 DEF Descent
          <5>2. q \in Nat /\ from[q] \in Nat /\ from[q] # p /\ q <= issued' /\ from[q] <= issued'
            BY <2>1, <2>2, <2>3, <5>1 DEF p, Session!Pairs
          <5> QED BY <2>6, <5>1, <5>2
        <4> QED BY <4>1, <4>2
      <3>4. ASSUME NEW q \in Session!Pairs, NEW w \in Session!Pairs,
                        from'[q] = from'[w], from'[q] # 0
            PROVE  q = w
        BY <1>0, <3>1, <3>2, <3>4 DEF Descent
      <3> QED BY <3>3, <3>4 DEF Descent
    <2>10. \A u \in Tabs : /\ tab'[u].snap = tab[u].snap
                           /\ Busy(u)' <=> Busy(u)
                           /\ u # t => /\ Given(u)' <=> Given(u)
                                       /\ Given(u)' => tab'[u].reply = tab[u].reply
                                       /\ Refused(u)' <=> Refused(u)
      <3> SUFFICES ASSUME NEW u \in Tabs
                   PROVE  /\ tab'[u].snap = tab[u].snap
                          /\ Busy(u)' <=> Busy(u)
                          /\ u # t => /\ Given(u)' <=> Given(u)
                                      /\ Given(u)' => tab'[u].reply = tab[u].reply
                                      /\ Refused(u)' <=> Refused(u)
        OBVIOUS
      <3>1. CASE u = t
        BY <1>1, <2>4, <3>1 DEF Busy, s
      <3>2. CASE u # t
        BY <2>4, <3>2 DEF Given, Refused, Busy
      <3> QED BY <3>1, <3>2
    <2>11. /\ Given(t)' <=> r # 0
           /\ Given(t)' => tab'[t].reply = p
           /\ ~b => Given(t)' /\ ~Refused(t)'
      BY <2>3, <2>4, <2>5 DEF Given, Refused
    <2>12. \A u \in Tabs : /\ Busy(u) => tab[u].snap \in 1..issued
                           /\ Given(u) => /\ tab[u].reply \in 1..issued /\ tab[u].reply # pair
                                          /\ tab[u].reply \notin stale /\ Busy(u)
                                          /\ \A w \in Tabs :
                                                /\ Busy(w) => tab[w].snap # tab[u].reply
                                                /\ w # u /\ Given(w) => tab[w].reply # tab[u].reply
      <3> SUFFICES ASSUME NEW u \in Tabs
                   PROVE  /\ Busy(u) => tab[u].snap \in 1..issued
                          /\ Given(u) => /\ tab[u].reply \in 1..issued /\ tab[u].reply # pair
                                         /\ tab[u].reply \notin stale /\ Busy(u)
                                         /\ \A w \in Tabs :
                                               /\ Busy(w) => tab[w].snap # tab[u].reply
                                               /\ w # u /\ Given(w) => tab[w].reply # tab[u].reply
        OBVIOUS
      <3>1. Busy(u) => tab[u].snap \in Nat \ {0}
        BY <1>0, TabState DEF Busy, Asking, Replied
      <3>2. Given(u) => tab[u].reply \in Nat \ {0} /\ Busy(u)
        BY <1>0, TabState DEF Given, Busy, Asking, Replied
      <3> QED BY <1>0, <2>2, <3>1, <3>2 DEF Flight
    <2>13. Flight'
      <3>1. ASSUME NEW u \in Tabs, Busy(u)' PROVE tab'[u].snap <= issued'
        BY <2>2, <2>1, <2>10, <2>12, <3>1 DEF p
      <3>2. ASSUME NEW u \in Tabs, Given(u)'
            PROVE  /\ tab'[u].reply <= issued' /\ tab'[u].reply # pair'
                   /\ tab'[u].reply \notin stale'
                   /\ \A w \in Tabs : /\ Busy(w)' => tab'[w].snap # tab'[u].reply
                                      /\ w # u /\ Given(w)' => tab'[w].reply # tab'[u].reply
        <4>1. CASE u = t
          <5>1. tab'[u].reply = p
            BY <2>11, <3>2, <4>1
          <5>2. p <= issued' /\ p # pair' /\ p \notin stale'
            BY <1>1, <2>1, <2>2, <2>3
          <5>3. \A w \in Tabs : Busy(w)' => tab'[w].snap # p
            BY <2>3, <2>10, <2>12
          <5>4. \A w \in Tabs : w # u /\ Given(w)' => tab'[w].reply # p
            BY <2>3, <2>10, <2>12, <4>1
          <5> QED BY <5>1, <5>2, <5>3, <5>4
        <4>2. CASE u # t
          <5>1. Given(u) /\ tab'[u].reply = tab[u].reply
            BY <2>10, <3>2, <4>2
          <5>2. tab'[u].reply \in 1..issued /\ tab'[u].reply # p
            BY <2>3, <2>12, <5>1
          <5>3. tab'[u].reply <= issued' /\ tab'[u].reply # pair' /\ tab'[u].reply \notin stale'
            BY <1>1, <2>1, <2>2, <2>12, <5>1, <5>2 DEF p
          <5>4. \A w \in Tabs : Busy(w)' => tab'[w].snap # tab'[u].reply
            BY <2>10, <2>12, <5>1
          <5>5. ASSUME NEW w \in Tabs, w # u, Given(w)' PROVE tab'[w].reply # tab'[u].reply
            <6>1. CASE w = t
              BY <2>11, <5>2, <5>5, <6>1
            <6>2. CASE w # t
              BY <2>10, <2>12, <5>1, <5>5, <6>2
            <6> QED BY <6>1, <6>2
          <5> QED BY <5>3, <5>4, <5>5
        <4> QED BY <4>1, <4>2
      <3> QED BY <3>1, <3>2 DEF Flight
    <2>14. Accounted'
      BY <1>0, <1>1, <1>2 DEF Accounted
    <2>15. ASSUME ~excused' PROVE Alive'
      <3>1. Alive /\ ~b
        BY <1>2, <2>15 DEF SessionInv
      <3>2. Given(t)' /\ ~Refused(t)' /\ tab'[t].reply = p /\ tab'[t].snap = s /\ Busy(t)
        BY <1>1, <2>4, <2>11, <3>1 DEF Busy
      <3>3. Valid(pair)' \/ \E u \in Tabs : Given(u)' /\ tab'[u].snap = pair'
        <4>1. CASE pair = s
          BY <1>1, <3>2, <4>1
        <4>2. CASE pair # s /\ Valid(pair)
          BY <1>1, <2>3, <2>7, <4>2
        <4>3. CASE pair # s /\ ~Valid(pair)
          <5>1. PICK u \in Tabs : Given(u) /\ tab[u].snap = pair
            BY <3>1, <4>3 DEF Alive
          <5>2. u # t
            BY <1>1, <5>1 DEF Given
          <5> QED BY <1>1, <2>10, <5>1, <5>2
        <4> QED BY <4>1, <4>2, <4>3
      <3>4. ASSUME NEW u \in Tabs, Given(u)', NEW q, q = tab'[u].reply PROVE Valid(q)'
        <4>1. CASE u = t
          BY <2>7, <3>2, <3>4, <4>1
        <4>2. CASE u # t
          <5>1. Given(u) /\ q = tab[u].reply
            BY <2>10, <3>4, <4>2
          <5>2. q \notin {s, p}
            BY <2>3, <2>10, <2>12, <2>4, <3>2, <5>1
          <5>3. Valid(q)
            BY <3>1, <5>1 DEF Alive
          <5> QED BY <2>7, <5>2, <5>3
        <4> QED BY <4>1, <4>2
      <3>5. ASSUME NEW u \in Tabs, Busy(u)', tab'[u].snap # pair' PROVE pair' \notin stale'
        BY <1>1, <2>10, <3>1, <3>5 DEF Alive
      <3>6. ASSUME NEW u \in Tabs, Refused(u)', tab'[u].snap = pair' PROVE ~Valid(pair)'
        <4>1. u # t
          BY <3>2, <3>6
        <4>2. Refused(u) /\ tab[u].snap = pair
          BY <1>1, <2>10, <3>6, <4>1
        <4>3. ~Valid(pair)
          BY <3>1, <4>2 DEF Alive
        <4> QED BY <1>1, <2>3, <2>7, <4>3
      <3>7. \A u \in Tabs : Given(u)' => /\ tab'[u].reply \in DOMAIN tokens'
                                          /\ tab'[u].reply \notin dead'
                                          /\ tokens'[tab'[u].reply] = password'
        BY <3>4 DEF Valid
      <3> QED BY <3>3, <3>5, <3>6, <3>7 DEF Alive, Valid
    <2> QED BY <2>8, <2>9, <2>13, <2>14, <2>15 DEF SessionInv
  <1> QED BY <1>3, <1>4

\* Another tab's pair is stored and taken, or nothing changes but that a tab's refresh is over:
\* the session is kept, and given up only where it may.
LEMMA RefreshOver ==
    ASSUME SessionInv, NEW t \in Tabs, tab[t].at \in {"answer", "waits"},
           Session!Step(t, Session!Idle),
           UNCHANGED <<tokens, password, dead, stale, issued, from, leaving, out>>,
           excused' \in BOOLEAN, excused => excused',
           \/ pair' = pair /\ lostAt' = lostAt
           \/ Session!GiveUpSession /\ (pair = 0 \/ excused'),
           ~excused' /\ Given(t) => tab[t].snap # pair
    PROVE  SessionInv'
  <1>0. SessionTypes /\ Accounted
    BY DEF SessionInv
  <1>1. pair' \in {pair, 0} /\ lostAt' = lostAt /\ (pair' = 0 => pair = 0 \/ excused')
    <2>1. CASE pair' = pair /\ lostAt' = lostAt
      BY <2>1
    <2>2. CASE Session!GiveUpSession /\ (pair = 0 \/ excused')
      <3>1. pair' = 0 /\ lostAt' = (lostAt \/ (pair # 0 /\ ~excused'))
        BY <2>2 DEF Session!GiveUpSession
      <3>2. lostAt \in BOOLEAN
        BY <1>0 DEF SessionTypes
      <3>3. ~(pair # 0 /\ ~excused')
        BY <2>2
      <3> QED BY <2>2, <3>1, <3>2, <3>3
    <2> QED BY <2>1, <2>2
  <1>2. /\ tab' \in [Tabs -> TabTypes] /\ tab'[t] = Session!Idle
        /\ \A u \in Tabs : u # t => tab'[u] = tab[u]
    BY <1>0, TabStep DEF TabTypes
  <1>3. tab'[t].at = "idle"
    BY <1>2 DEF Session!Idle
  <1>4. SessionTypes'
    BY <1>0, <1>1, <1>2 DEF SessionTypes
  <1>5. ~Busy(t)' /\ ~Given(t)' /\ ~Refused(t)'
    BY <1>3 DEF Busy, Given, Refused
  <1>6. \A u \in Tabs : u # t => /\ Busy(u)' <=> Busy(u)
                                 /\ Given(u)' <=> Given(u)
                                 /\ Refused(u)' <=> Refused(u)
    BY <1>2 DEF Busy, Given, Refused
  <1>7. ASSUME ~excused' PROVE Alive'
    <2>1. Alive /\ ~excused /\ pair # 0
      BY <1>0, <1>7 DEF SessionInv, Accounted
    <2>2. pair' = pair
      BY <1>1, <1>7, <2>1
    <2>3. \A p : Valid(p)' <=> Valid(p)
      BY DEF Valid
    <2>4. Valid(pair)' \/ \E u \in Tabs : Given(u)' /\ tab'[u].snap = pair'
      <3>1. CASE Valid(pair)
        BY <2>2, <2>3, <3>1
      <3>2. CASE ~Valid(pair)
        <4>1. PICK u \in Tabs : Given(u) /\ tab[u].snap = pair
          BY <2>1, <3>2 DEF Alive
        <4>2. u # t
          BY <1>7, <4>1
        <4> QED BY <1>2, <1>6, <2>2, <4>1, <4>2
      <3> QED BY <3>1, <3>2
    <2>5. ASSUME NEW u \in Tabs, Busy(u)', tab'[u].snap # pair' PROVE pair' \notin stale'
      BY <1>2, <1>5, <1>6, <2>1, <2>2, <2>5 DEF Alive
    <2>6. ASSUME NEW u \in Tabs, Refused(u)', tab'[u].snap = pair' PROVE ~Valid(pair)'
      BY <1>2, <1>5, <1>6, <2>1, <2>2, <2>3, <2>6 DEF Alive
    <2>7. ASSUME NEW u \in Tabs, Given(u)', NEW q, q = tab'[u].reply PROVE Valid(q)'
      <3>1. Given(u) /\ q = tab[u].reply
        BY <1>2, <1>5, <1>6, <2>7
      <3>2. Valid(q)
        BY <2>1, <3>1 DEF Alive
      <3> QED BY <2>3, <3>2
    <2>8. \A u \in Tabs : Given(u)' => /\ tab'[u].reply \in DOMAIN tokens'
                                       /\ tab'[u].reply \notin dead'
                                       /\ tokens'[tab'[u].reply] = password'
      BY <2>7 DEF Valid
    <2> QED BY <2>4, <2>5, <2>6, <2>8 DEF Alive, Valid
  <1>8. \A u \in Tabs : /\ Given(u)' => Given(u) /\ tab'[u].reply = tab[u].reply
                        /\ Busy(u)' => Busy(u) /\ tab'[u].snap = tab[u].snap
    BY <1>2, <1>5, <1>6
  <1>9. leaving' = leaving /\ out' = out /\ stale' = stale /\ tokens' = tokens
    OBVIOUS
  <1> QED BY <1>1, <1>4, <1>7, <1>8, <1>9, SessionKept

\* A pair arrives and is stored.
LEMMA ArrivedStep ==
    ASSUME SessionInv, NEW t \in Tabs, Given(t), tab[t].snap = pair,
           Session!Step(t, Session!Idle), pair' = tab[t].reply,
           UNCHANGED <<tokens, password, dead, stale, issued, from, leaving, out, excused, lostAt>>
    PROVE  SessionInv'
  <1>0. SessionTypes /\ Descent /\ Flight /\ Accounted
    BY DEF SessionInv
  <1>1. /\ tab' \in [Tabs -> TabTypes] /\ tab'[t] = Session!Idle
        /\ \A u \in Tabs : u # t => tab'[u] = tab[u]
    BY <1>0, TabStep DEF TabTypes
  <1>2. tab'[t].at = "idle"
    BY <1>1 DEF Session!Idle
  <1>3. ~Busy(t)' /\ ~Given(t)' /\ ~Refused(t)'
    BY <1>2 DEF Busy, Given, Refused
  <1>4. \A u \in Tabs : u # t => /\ Busy(u)' <=> Busy(u)
                                 /\ Given(u)' <=> Given(u)
                                 /\ Refused(u)' <=> Refused(u)
    BY <1>1 DEF Busy, Given, Refused
  <1>5. tab[t] \in Replied /\ Busy(t)
    BY <1>0, TabState DEF Given, Busy
  <1>6. /\ pair' \in Nat \ {0} /\ pair' <= issued /\ pair' \notin stale
        /\ \A u \in Tabs : /\ Busy(u) => tab[u].snap # pair'
                           /\ u # t /\ Given(u) => tab[u].reply # pair'
    <2>1. tab[t].reply \in Nat /\ tab[t].reply # 0
      BY <1>5 DEF Replied, Given
    <2>2. /\ tab[t].reply <= issued /\ tab[t].reply \notin stale
          /\ \A u \in Tabs : /\ Busy(u) => tab[u].snap # tab[t].reply
                             /\ u # t /\ Given(u) => tab[u].reply # tab[t].reply
      BY <1>0 DEF Flight
    <2> QED BY <2>1, <2>2
  <1>7. pair # 0
    BY <1>5 DEF Replied
  <1>8. SessionTypes'
    <2>1. pair' \in 0..issued'
      BY <1>0, <1>6 DEF SessionTypes
    <2> QED BY <1>0, <1>1, <2>1 DEF SessionTypes
  <1>9. Descent'
    BY <1>0 DEF Descent
  <1>10. Flight'
    <2>1. ASSUME NEW u \in Tabs, Busy(u)' PROVE tab'[u].snap <= issued'
      BY <1>0, <1>1, <1>3, <1>4, <2>1 DEF Flight
    <2>2. ASSUME NEW u \in Tabs, Given(u)'
          PROVE  /\ tab'[u].reply <= issued' /\ tab'[u].reply # pair' /\ tab'[u].reply \notin stale'
                 /\ \A w \in Tabs : /\ Busy(w)' => tab'[w].snap # tab'[u].reply
                                    /\ w # u /\ Given(w)' => tab'[w].reply # tab'[u].reply
      <3>1. u # t /\ Given(u) /\ tab'[u] = tab[u]
        BY <1>1, <1>3, <1>4, <2>2
      <3>2. /\ tab[u].reply <= issued /\ tab[u].reply \notin stale
            /\ \A w \in Tabs : /\ Busy(w) => tab[w].snap # tab[u].reply
                               /\ w # u /\ Given(w) => tab[w].reply # tab[u].reply
        BY <1>0, <3>1 DEF Flight
      <3> QED BY <1>1, <1>3, <1>4, <1>6, <3>1, <3>2
    <2> QED BY <2>1, <2>2 DEF Flight
  <1>11. Accounted'
    <2>1. out' = out /\ leaving' = leaving /\ excused' = excused /\ lostAt' = lostAt
      OBVIOUS
    <2> QED BY <1>0, <1>6, <1>7, <2>1 DEF Accounted
  <1>12. ASSUME ~excused' PROVE Alive'
    <2>1. Alive
      BY <1>12 DEF SessionInv
    <2>2. \A p : Valid(p)' <=> Valid(p)
      BY DEF Valid
    <2>3. \A p : p = tab[t].reply => Valid(p)
      BY <2>1 DEF Alive
    <2>4. \A p : p = pair' => Valid(p)'
      BY <2>2, <2>3
    <2>5. Valid(pair)'
      BY <2>4 DEF Valid
    <2>6. ASSUME NEW u \in Tabs, Refused(u)', tab'[u].snap = pair' PROVE FALSE
      <3>1. u # t /\ Refused(u) /\ tab[u].snap = pair'
        BY <1>1, <1>3, <1>4, <2>6
      <3>2. Busy(u)
        BY <3>1 DEF Refused, Busy
      <3> QED BY <1>6, <3>1, <3>2
    <2>7. ASSUME NEW u \in Tabs, Given(u)', NEW q, q = tab'[u].reply PROVE Valid(q)'
      <3>1. Given(u) /\ q = tab[u].reply
        BY <1>1, <1>3, <1>4, <2>7
      <3>2. Valid(q)
        BY <2>1, <3>1 DEF Alive
      <3> QED BY <2>2, <3>2
    <2>8. \A u \in Tabs : Given(u)' => /\ tab'[u].reply \in DOMAIN tokens'
                                       /\ tab'[u].reply \notin dead'
                                       /\ tokens'[tab'[u].reply] = password'
      BY <2>7 DEF Valid
    <2>9. pair' \notin stale'
      BY <1>6
    <2> QED BY <2>5, <2>6, <2>8, <2>9 DEF Alive, Valid
  <1> QED BY <1>8, <1>9, <1>10, <1>11, <1>12 DEF SessionInv

\* The answer reaches the tab, which stores the pair, takes the one another tab stored, or waits
\* for it.
LEMMA AnswerStep ==
    ASSUME SessionInv, NEW t \in Tabs, Session!Answer(t)
    PROVE  SessionInv'
  <1>0. SessionTypes /\ Flight /\ Accounted
    BY DEF SessionInv
  <1>1. /\ tab[t].at = "answer" /\ excused \in BOOLEAN /\ lostAt \in BOOLEAN
        /\ UNCHANGED <<tokens, password, dead, stale, issued, from, leaving, out, excused>>
    BY <1>0 DEF Session!Answer, Session!server, SessionTypes
  <1>2. tab[t] \in Replied /\ Busy(t)
    BY <1>0, <1>1, TabState DEF Busy
  <1>3. CASE tab[t].reply # 0 /\ Session!MayStore(t)
    <2>1. Given(t) /\ tab[t].snap = pair /\ Session!Succeed(t, tab[t].reply)
      BY <1>1, <1>3 DEF Given, Session!MayStore, Session!Answer
    <2>2. tab[t].reply \notin stale
      BY <1>0, <2>1 DEF Flight
    <2>3. Session!Step(t, Session!Idle) /\ pair' = tab[t].reply /\ lostAt' = lostAt
      BY <2>1, <2>2 DEF Session!Succeed
    <2> QED BY <1>1, <2>1, <2>3, ArrivedStep
  <1>4. CASE ~(tab[t].reply # 0 /\ Session!MayStore(t)) /\ Session!Peer(t)
    <2>1. pair # 0 /\ pair # tab[t].snap /\ Session!Succeed(t, pair)
      BY <1>4 DEF Session!Peer, Session!Answer
    <2>2. \/ pair' = pair /\ lostAt' = lostAt
          \/ Session!GiveUpSession /\ pair \in stale
      BY <2>1 DEF Session!Succeed
    <2>3. pair \in stale => excused
      BY <1>2, <2>1 DEF SessionInv, Alive
    <2>4. Session!Step(t, Session!Idle)
      BY <2>1 DEF Session!Succeed
    <2> QED BY <1>1, <2>1, <2>2, <2>3, <2>4, RefreshOver
  <1>5. CASE ~(tab[t].reply # 0 /\ Session!MayStore(t)) /\ ~Session!Peer(t)
    <2> DEFINE then == [tab[t] EXCEPT !.at = "waits"]
    <2>1. Session!Step(t, then) /\ UNCHANGED <<pair, lostAt>>
      BY <1>5 DEF Session!Answer
    <2>2. then \in Replied /\ then.at = "waits" /\ then.snap = tab[t].snap
      BY <1>2 DEF Replied
    <2>3. then \in TabTypes
      BY <2>2 DEF TabTypes
    <2> HIDE DEF then
    <2>4. /\ tab' \in [Tabs -> TabTypes] /\ tab'[t] = then
          /\ \A u \in Tabs : u # t => tab'[u] = tab[u]
      BY <1>0, <2>1, <2>3, TabStep
    <2>5. SessionTypes'
      BY <1>0, <1>1, <2>1, <2>4 DEF SessionTypes
    <2>6. ~Given(t)' /\ (Given(t) => pair = 0) /\ (tab[t].snap = pair => Refused(t))
      BY <1>1, <1>5, <2>2, <2>4 DEF Given, Refused, Session!Peer, Session!MayStore
    <2>7. \A u \in Tabs : u # t => /\ Busy(u)' <=> Busy(u)
                                   /\ Given(u)' <=> Given(u)
                                   /\ Refused(u)' <=> Refused(u)
      BY <2>4 DEF Busy, Given, Refused
    <2>8. \A u \in Tabs : /\ tab'[u].snap = tab[u].snap
                          /\ Given(u)' => Given(u) /\ tab'[u].reply = tab[u].reply
                          /\ Busy(u)' => Busy(u)
      BY <1>2, <2>2, <2>4, <2>6, <2>7
    <2>9. ASSUME ~excused' PROVE Alive'
      <3>1. Alive /\ pair # 0
        BY <1>0, <1>1, <2>9 DEF SessionInv, Accounted
      <3>2. \A p : Valid(p)' <=> Valid(p)
        BY <1>1 DEF Valid
      <3>3. Valid(pair)' \/ \E u \in Tabs : Given(u)' /\ tab'[u].snap = pair'
        <4>1. CASE Valid(pair)
          BY <2>1, <3>2, <4>1
        <4>2. CASE ~Valid(pair)
          <5>1. PICK u \in Tabs : Given(u) /\ tab[u].snap = pair
            BY <3>1, <4>2 DEF Alive
          <5>2. u # t
            BY <2>6, <3>1, <5>1
          <5> QED BY <2>1, <2>7, <2>8, <5>1, <5>2
        <4> QED BY <4>1, <4>2
      <3>4. ASSUME NEW u \in Tabs, Busy(u)', tab'[u].snap # pair' PROVE pair' \notin stale'
        BY <1>1, <2>1, <2>8, <3>1, <3>4 DEF Alive
      <3>5. ASSUME NEW u \in Tabs, Refused(u)', tab'[u].snap = pair' PROVE ~Valid(pair)'
        <4>1. Refused(u) /\ tab[u].snap = pair
          BY <2>1, <2>6, <2>7, <2>8, <3>5
        <4> QED BY <2>1, <3>1, <3>2, <4>1 DEF Alive
      <3>6. ASSUME NEW u \in Tabs, Given(u)', NEW q, q = tab'[u].reply PROVE Valid(q)'
        <4>1. Given(u) /\ q = tab[u].reply
          BY <2>8, <3>6
        <4>2. Valid(q)
          BY <3>1, <4>1 DEF Alive
        <4> QED BY <3>2, <4>2
      <3>7. \A u \in Tabs : Given(u)' => /\ tab'[u].reply \in DOMAIN tokens'
                                         /\ tab'[u].reply \notin dead'
                                         /\ tokens'[tab'[u].reply] = password'
        BY <3>6 DEF Valid
      <3> QED BY <3>3, <3>4, <3>5, <3>7 DEF Alive, Valid
    <2> QED BY <1>1, <2>1, <2>5, <2>8, <2>9, SessionKept
  <1> QED BY <1>3, <1>4, <1>5

\* A tab that waits takes the pair that came, or gives up.
LEMMA WaitStep ==
    ASSUME SessionInv, NEW t \in Tabs, Session!PeerCame(t) \/ Session!GiveUp(t)
    PROVE  SessionInv'
  <1>0. SessionTypes /\ Accounted
    BY DEF SessionInv
  <1>1. /\ tab[t].at = "waits" /\ Busy(t) /\ Refused(t) /\ ~Given(t)
        /\ excused \in BOOLEAN /\ lostAt \in BOOLEAN
        /\ UNCHANGED <<tokens, password, dead, stale, issued, from, leaving, out>>
    BY <1>0 DEF Session!PeerCame, Session!GiveUp, Session!server, SessionTypes, Busy, Refused, Given
  <1>2. CASE Session!PeerCame(t)
    <2>1. pair # 0 /\ pair # tab[t].snap /\ Session!Succeed(t, pair) /\ excused' = excused
      BY <1>2 DEF Session!Peer, Session!PeerCame
    <2>2. \/ pair' = pair /\ lostAt' = lostAt
          \/ Session!GiveUpSession /\ pair \in stale
      BY <2>1 DEF Session!Succeed
    <2>3. pair \in stale => excused
      BY <1>1, <2>1 DEF SessionInv, Alive
    <2>4. Session!Step(t, Session!Idle)
      BY <2>1 DEF Session!Succeed
    <2> QED BY <1>1, <2>1, <2>2, <2>3, <2>4, RefreshOver
  <1>3. CASE Session!GiveUp(t)
    <2>1. excused' = (excused \/ Session!Racing(t)) /\ Session!Fail(t) /\ ~Session!Peer(t)
      BY <1>3 DEF Session!GiveUp
    <2>2. \/ pair' = pair /\ lostAt' = lostAt
          \/ Session!GiveUpSession
      BY <2>1 DEF Session!Fail
    <2>3. Session!Step(t, Session!Idle) /\ excused' \in BOOLEAN /\ (excused => excused')
      BY <1>1, <2>1 DEF Session!Fail, Session!Racing
    <2>4. pair # 0 => excused'
      <3> SUFFICES ASSUME pair # 0, ~excused PROVE Session!Racing(t)
        BY <2>1
      <3>1. Alive /\ tab[t].snap = pair
        BY <2>1 DEF SessionInv, Session!Peer
      <3>2. ~Valid(pair)
        BY <1>1, <3>1 DEF Alive
      <3>3. PICK u \in Tabs : Given(u) /\ tab[u].snap = pair
        BY <3>1, <3>2 DEF Alive
      <3>4. u # t /\ tab[u].at = "answer"
        BY <1>1, <3>3 DEF Given
      <3> QED BY <3>1, <3>3, <3>4 DEF Session!Racing
    <2> QED BY <1>1, <2>2, <2>3, <2>4, RefreshOver
  <1> QED BY <1>2, <1>3

\* Somebody logs in where nobody was.
LEMMA LoginStep ==
    ASSUME SessionInv, NEW t \in Tabs, Session!Login(t)
    PROVE  SessionInv'
  <1>0. SessionTypes /\ Descent /\ Flight /\ Accounted
    BY DEF SessionInv
  <1> DEFINE p == issued + 1
  <1>1. /\ pair = 0 /\ issued < MaxPairs /\ issued' = p /\ pair' = p
        /\ tokens' = Session!With(tokens, p, password) /\ out' = FALSE
        /\ excused' = (excused /\ \E o \in Tabs : tab[o].at # "idle" \/ o \in leaving)
        /\ UNCHANGED <<password, dead, stale, tab, leaving, from, lostAt>>
    BY DEF Session!Login
  <1>2. /\ issued \in 1..MaxPairs /\ DOMAIN tokens \subseteq 1..issued
        /\ dead \subseteq 1..issued /\ stale \subseteq 1..issued
        /\ from \in [Session!Pairs -> Nat] /\ MaxPairs \in Nat
    BY <1>0, PartsAssumption DEF SessionTypes, Session!SessionAssumption
  <1>3. /\ p \notin 1..issued /\ p \in Nat \ {0} /\ issued' \in 1..MaxPairs /\ pair' \in 0..issued'
        /\ 1..issued \subseteq 1..issued' /\ p \in 1..issued'
    BY <1>1, <1>2
  <1> HIDE DEF p
  <1>4. DOMAIN tokens' = DOMAIN tokens \cup {p} /\ tokens'[p] = password
    BY <1>1 DEF Session!With
  <1>5. excused \in BOOLEAN /\ excused' \in BOOLEAN
    BY <1>0, <1>1 DEF SessionTypes
  <1>6. ~excused' => leaving = {} /\ \A u \in Tabs : tab[u].at = "idle"
    <2>1. excused /\ leaving \subseteq Tabs
      BY <1>0, <1>1 DEF Accounted, SessionTypes
    <2> QED BY <1>1, <2>1
  <1>7. SessionTypes'
    <2>1. DOMAIN tokens' \subseteq 1..issued' /\ dead' \subseteq 1..issued'
          /\ stale' \subseteq 1..issued'
      BY <1>1, <1>2, <1>3, <1>4
    <2>2. out' \in BOOLEAN
      BY <1>1
    <2> QED BY <1>0, <1>1, <1>3, <1>5, <2>1, <2>2 DEF SessionTypes
  <1>8. Descent'
    <2>1. ASSUME NEW q \in Session!Pairs, from'[q] # 0
          PROVE  q <= issued' /\ from'[q] <= issued' /\ from'[q] \notin DOMAIN tokens'
      <3>1. from'[q] = from[q] /\ q <= issued /\ from[q] <= issued /\ from[q] \notin DOMAIN tokens
        BY <1>0, <1>1, <2>1 DEF Descent
      <3>2. q \in Nat /\ from[q] \in Nat /\ from[q] # p /\ q <= issued' /\ from[q] <= issued'
        BY <1>1, <1>2, <1>3, <3>1 DEF p, Session!Pairs
      <3> QED BY <1>4, <3>1, <3>2
    <2> QED BY <1>0, <1>1, <2>1 DEF Descent
  <1>9. Flight'
    <2>1. \A u \in Tabs : /\ Busy(u) => tab[u].snap \in Nat
                          /\ Given(u) => tab[u].reply \in Nat
      BY <1>0, TabState DEF Busy, Given, Asking, Replied
    <2>2. \A u \in Tabs : /\ Busy(u)' <=> Busy(u)
                          /\ Given(u)' <=> Given(u)
      BY <1>1 DEF Busy, Given
    <2>3. ASSUME NEW u \in Tabs, Busy(u) PROVE tab[u].snap <= issued'
      BY <1>0, <1>1, <1>2, <2>1, <2>3 DEF Flight, p
    <2>4. ASSUME NEW u \in Tabs, Given(u)
          PROVE  tab[u].reply <= issued' /\ tab[u].reply # pair' /\ tab[u].reply \notin stale'
      BY <1>0, <1>1, <1>2, <2>1, <2>4 DEF Flight, p
    <2>5. ASSUME NEW u \in Tabs, Given(u), NEW w \in Tabs
          PROVE  /\ Busy(w) => tab[w].snap # tab[u].reply
                 /\ w # u /\ Given(w) => tab[w].reply # tab[u].reply
      BY <1>0, <2>5 DEF Flight
    <2>6. tab' = tab
      BY <1>1
    <2> QED BY <2>2, <2>3, <2>4, <2>5, <2>6 DEF Flight
  <1>10. Accounted'
    <2>1. pair' # 0 /\ ~out' /\ lostAt' = lostAt /\ leaving' = leaving
      BY <1>1, <1>3
    <2> QED BY <1>0, <1>6, <2>1 DEF Accounted
  <1>11. ASSUME ~excused' PROVE Alive'
    <2>1. \A u \in Tabs : ~Busy(u)' /\ ~Given(u)' /\ ~Refused(u)'
      BY <1>1, <1>6, <1>11 DEF Busy, Given, Refused
    <2>2. p \notin dead
      BY <1>2, <1>3
    <2>3. Valid(pair)'
      BY <1>1, <1>4, <2>2 DEF Valid
    <2> QED BY <2>1, <2>3 DEF Alive
  <1> QED BY <1>7, <1>8, <1>9, <1>10, <1>11 DEF SessionInv

\* Logouts, and what ends by itself.
LEMMA EndingStep ==
    ASSUME SessionInv,
           \/ \E t \in Tabs : (\E b \in BOOLEAN : Session!Logout(t, b)) \/ Session!Leave(t)
           \/ Session!AccessEnds \/ Session!RefreshEnds \/ Session!ChangePassword
           \/ UNCHANGED Session!vars
    PROVE  SessionInv'
  <1>0. SessionTypes /\ Accounted
    BY DEF SessionInv
  <1>u. \A u \in Tabs : tab' = tab => /\ Given(u)' <=> Given(u)
                                      /\ Busy(u)' <=> Busy(u)
                                      /\ Refused(u)' <=> Refused(u)
    BY DEF Given, Busy, Refused
  <1>1. ASSUME NEW t \in Tabs, NEW b \in BOOLEAN, Session!Logout(t, b) PROVE SessionInv'
    <2>1. /\ tokens' = tokens \/ tokens' = Session!Without(tokens, pair)
          /\ leaving' = leaving \cup {t} /\ excused' = TRUE
          /\ UNCHANGED <<password, dead, stale, pair, tab, issued, from, out, lostAt>>
      BY <1>1 DEF Session!Logout, Session!Excuse
    <2>2. DOMAIN tokens' \subseteq DOMAIN tokens
      BY <2>1 DEF Session!Without
    <2>3. SessionTypes'
      BY <1>0, <2>1, <2>2 DEF SessionTypes
    <2> QED BY <1>u, <2>1, <2>2, <2>3, SessionKept
  <1>2. ASSUME NEW t \in Tabs, Session!Leave(t) PROVE SessionInv'
    <2>1. /\ t \in leaving /\ leaving' \subseteq leaving /\ pair' = 0 /\ out' = TRUE
          /\ UNCHANGED <<tokens, password, dead, stale, issued, from, tab, excused, lostAt>>
      BY <1>2 DEF Session!Leave, Session!server
    <2>2. excused /\ excused'
      BY <1>0, <2>1 DEF Accounted
    <2>3. SessionTypes'
      BY <1>0, <2>1 DEF SessionTypes
    <2>4. leaving' # {} => leaving # {}
      BY <2>1
    <2> QED BY <1>u, <2>1, <2>2, <2>3, <2>4, SessionKept
  <1>3. CASE Session!AccessEnds
    <2>1. /\ pair # 0 /\ stale' = stale \cup {pair}
          /\ excused' = (excused \/ \E t \in Tabs : tab[t].at # "idle")
          /\ UNCHANGED <<tokens, password, dead, pair, tab, leaving, issued, from, out, lostAt>>
      BY <1>3 DEF Session!AccessEnds
    <2>2. pair \in 1..issued
      BY <1>0, <2>1, PartsAssumption DEF SessionTypes, Session!SessionAssumption
    <2>3. excused' \in BOOLEAN /\ (excused => excused')
      BY <2>1
    <2>4. SessionTypes'
      BY <1>0, <2>1, <2>2, <2>3 DEF SessionTypes
    <2>5. ASSUME ~excused' PROVE Alive'
      <3>1. Alive /\ \A u \in Tabs : tab[u].at = "idle"
        BY <2>1, <2>5 DEF SessionInv
      <3>2. \A u \in Tabs : ~Busy(u)' /\ ~Given(u)' /\ ~Refused(u)' /\ ~Given(u)
        BY <2>1, <3>1 DEF Busy, Given, Refused
      <3>3. Valid(pair)
        BY <3>1, <3>2 DEF Alive
      <3>4. Valid(pair)'
        BY <2>1, <3>3 DEF Valid
      <3> QED BY <3>2, <3>4 DEF Alive
    <2> QED BY <1>u, <2>1, <2>3, <2>4, <2>5, SessionKept
  <1>4. CASE Session!RefreshEnds
    <2>1. PICK p \in DOMAIN tokens \ dead : dead' = dead \cup {p}
      BY <1>4 DEF Session!RefreshEnds
    <2>2. /\ excused' = TRUE
          /\ UNCHANGED <<tokens, password, stale, pair, tab, leaving, issued, from, out, lostAt>>
      BY <1>4 DEF Session!RefreshEnds, Session!Excuse
    <2>3. SessionTypes'
      BY <1>0, <2>1, <2>2 DEF SessionTypes
    <2> QED BY <1>u, <2>2, <2>3, SessionKept
  <1>5. CASE Session!ChangePassword
    <2>1. /\ excused' = TRUE
          /\ UNCHANGED <<tokens, dead, stale, pair, leaving, issued, from, out, lostAt>>
      BY <1>5 DEF Session!ChangePassword, Session!Excuse
    <2> DEFINE Refusal(u) == [at |-> "answer", snap |-> tab[u].snap, seen |-> tab[u].seen,
                              for |-> tab[u].for, reply |-> 0]
    <2>2. tab' = [u \in Tabs |-> IF tab[u].at \in {"asks", "found"} THEN Refusal(u) ELSE tab[u]]
      BY <1>5 DEF Session!ChangePassword
    <2>3. ASSUME NEW u \in Tabs, tab[u].at \in {"asks", "found"}
          PROVE  /\ Refusal(u) \in TabTypes /\ Refusal(u).at = "answer" /\ Refusal(u).reply = 0
                 /\ Refusal(u).snap = tab[u].snap
      <3>1. tab[u] \in Asking
        BY <1>0, <2>3, TabState
      <3>2. Refusal(u) \in Replied
        BY <3>1 DEF Asking, Replied
      <3> QED BY <3>2 DEF TabTypes
    <2> HIDE DEF Refusal
    <2>4. tab' \in [Tabs -> TabTypes]
      BY <1>0, <2>2, <2>3 DEF SessionTypes
    <2>5. SessionTypes'
      BY <1>0, <2>1, <2>4 DEF SessionTypes
    <2>6. ASSUME NEW u \in Tabs
          PROVE  /\ tab'[u].snap = tab[u].snap
                 /\ Given(u)' => Given(u) /\ tab'[u].reply = tab[u].reply
                 /\ Busy(u)' => Busy(u)
      <3>1. CASE tab[u].at \in {"asks", "found"}
        BY <2>2, <2>3, <3>1 DEF Given, Busy
      <3>2. CASE tab[u].at \notin {"asks", "found"}
        BY <2>2, <3>2 DEF Given, Busy
      <3> QED BY <3>1, <3>2
    <2> QED BY <2>1, <2>5, <2>6, SessionKept
  <1>6. CASE UNCHANGED Session!vars
    <2>1. UNCHANGED <<tokens, password, dead, stale, pair, tab, leaving, issued, from, out,
                      excused, lostAt>>
      BY <1>6 DEF Session!vars
    <2>2. SessionTypes'
      BY <1>0, <2>1 DEF SessionTypes
    <2>3. ASSUME ~excused' PROVE Alive'
      BY <2>1, <2>3 DEF SessionInv, Alive, Busy, Given, Refused, Valid
    <2> QED BY <1>u, <2>1, <2>2, <2>3, SessionKept
  <1> QED BY <1>1, <1>2, <1>3, <1>4, <1>5, <1>6

\* Every step keeps the invariant.
LEMMA SessionStep == SessionInv /\ [Session!Next]_(Session!vars) => SessionInv'
  BY BeginStep, FindStep, BreakStep, RotateStep, AnswerStep, WaitStep, LoginStep, EndingStep
     DEF Session!Next

\* A step of the composition is a step of the session, or leaves it alone.
LEMMA SessionAlone ==
    ASSUME [PartNext]_<<part, vars, pelicanVars, replyVars, verdictVars,
                        probeVars, priceVars, sessionVars, bookVars>>
    PROVE  [Session!Next]_(Session!vars)
  BY DEF PartNext, Is, sessionVars, Session!vars

\* However tabs race, however answers are lost and whenever tokens end: a refresh token gives
\* one pair, a logout stands, and tabs that refresh together do not log each other out.
THEOREM SessionKeepsItsWord == PartSpec => []SessionIsTrue
  <1>1. PartInit => SessionInv
    BY SessionInit DEF PartInit
  <1>2. SessionInv /\ [PartNext]_<<part, vars, pelicanVars, replyVars, verdictVars, probeVars,
                                   priceVars, sessionVars, bookVars>> => SessionInv'
    BY SessionStep, SessionAlone
  <1>3. ASSUME SessionInv PROVE Session!SessionIsTrue
    <2>0. SessionTypes /\ Descent /\ Flight /\ Accounted
      BY <1>3 DEF SessionInv
    <2>1. Session!OnePairEach
      <3>1. \A p \in 1..issued : p \in Session!Pairs
        BY <2>0, PartsAssumption DEF SessionTypes, Session!Pairs, Session!SessionAssumption
      <3> QED BY <2>0, <3>1 DEF Descent, Session!OnePairEach
    <2>2. Session!LogoutStands
      BY <2>0 DEF Accounted, Session!LogoutStands
    <2>3. Session!SessionLasts
      <3>1. ASSUME ~excused, \A t \in Tabs : tab[t].at = "idle" PROVE pair \in DOMAIN tokens
        <4>1. Alive /\ \A t \in Tabs : ~Given(t)
          BY <1>3, <3>1 DEF SessionInv, Given
        <4> QED BY <4>1 DEF Alive, Valid
      <3> QED BY <2>0, <3>1 DEF Accounted, Session!SessionLasts
    <2> QED BY <2>1, <2>2, <2>3 DEF Session!SessionIsTrue
  <1>4. SessionInv => SessionIsTrue
    BY <1>3 DEF SessionIsTrue
  <1> QED BY <1>1, <1>2, <1>4, PTL DEF PartSpec

(***************************************************************************)
(* ProfitViews: what is in the books                                       *)
(***************************************************************************)
\* What a request is about to insert was allowed when it was checked, and a site that is not
\* one's own any more is remembered as one that was.
SavingIsExplained ==
    saving # Books!NoSpend =>
        saving \in Spends /\ (selfRun[saving.provider] \/ saving.provider \in switched)
BookTypes ==
    /\ exists \subseteq Owners /\ selfRun \in [Owners -> BOOLEAN]
    /\ links \in [Owned -> exists \cup {0}] /\ removed \subseteq Owned
    /\ usage \subseteq Uses /\ costs \subseteq CostRows /\ spend \subseteq Spends
    /\ switched \subseteq Owners /\ happened \in 0..MaxDealings
    /\ saving \in Spends \cup {Books!NoSpend}
BookInv == BookTypes /\ Books!SpendIsExplained /\ SavingIsExplained

\* What the assumption says of the rows.
LEMMA BookData ==
    /\ Owners \subseteq Nat \ {0} /\ Owned \subseteq Nat \ {0} /\ Owners # {}
    /\ \A u \in Uses : /\ u.account \in Owned /\ u.group \in Nat /\ u.user \in Nat
                       /\ u.day \in Nat /\ u.revenue \in Nat /\ u.weight \in Nat
    /\ \A c \in CostRows : /\ c.provider \in Owners /\ c.account \in Owned \cup {0}
                           /\ c.day \in Nat /\ c.amount \in Nat
    /\ \A s \in Spends : s.provider \in Owners /\ s.day \in Nat /\ s.amount \in Nat
    /\ RateOf \in [Owners -> Int] /\ Unit \in Nat \ {0} /\ MaxDealings \in Nat
  BY PartsAssumption DEF Books!BooksAssumption

\* They are finitely many.
LEMMA BookFinite ==
    /\ IsFiniteSet(Owners) /\ IsFiniteSet(Owned)
    /\ IsFiniteSet(Uses) /\ IsFiniteSet(CostRows) /\ IsFiniteSet(Spends)
  <1>1. Books!BooksAssumption
    BY PartsAssumption
  <1> QED BY <1>1 DEF Books!BooksAssumption, Books!IsFiniteSet, IsFiniteSet

\* An event is one of those that are allowed.
LEMMA BookEvent ==
    ASSUME happened \in 0..MaxDealings, Books!Event
    PROVE  happened' \in 0..MaxDealings
  BY BookData DEF Books!Event

\* Steps that leave the sites and their costs alone.
LEMMA BookRows ==
    ASSUME BookInv, \/ \E u \in Uses : Books!Serve(u)
                    \/ \E c \in CostRows : Books!UpsertCost(c)
                    \/ \E a \in Owned : Books!DeleteAccount(a)
    PROVE  BookInv'
  <1>1. /\ UNCHANGED <<exists, selfRun, links, spend, saving, switched>>
        /\ happened' \in 0..MaxDealings
    BY BookEvent DEF BookInv, BookTypes, Books!Serve, Books!UpsertCost, Books!DeleteAccount
  <1>2. usage' \subseteq Uses /\ costs' \subseteq CostRows /\ removed' \subseteq Owned
    BY DEF BookInv, BookTypes, Books!Serve, Books!UpsertCost, Books!DeleteAccount
  <1>3. BookTypes'
    BY <1>1, <1>2 DEF BookInv, BookTypes
  <1>4. Books!SpendIsExplained' /\ SavingIsExplained'
    BY <1>1 DEF BookInv, Books!SpendIsExplained, SavingIsExplained
  <1> QED BY <1>3, <1>4 DEF BookInv

\* Steps that change whose the accounts are.
LEMMA BookLinks ==
    ASSUME BookInv, \/ \E p \in Owners, ticked \in SUBSET Owned : Books!SaveLinks(p, ticked)
                    \/ \E p \in Owners, a \in Owned : Books!LinkMany(p, a)
    PROVE  BookInv'
  <1>1. /\ UNCHANGED <<exists, selfRun, removed, usage, costs, spend, saving, switched>>
        /\ happened' \in 0..MaxDealings
    BY BookEvent DEF BookInv, BookTypes, Books!SaveLinks, Books!LinkMany
  <1>2. links' \in [Owned -> exists \cup {0}]
    BY DEF BookInv, BookTypes, Books!SaveLinks, Books!LinkMany, Books!Replaced
  <1>3. BookTypes'
    BY <1>1, <1>2 DEF BookInv, BookTypes
  <1>4. Books!SpendIsExplained' /\ SavingIsExplained'
    BY <1>1 DEF BookInv, Books!SpendIsExplained, SavingIsExplained
  <1> QED BY <1>3, <1>4 DEF BookInv

\* An edit that makes a site one's own, or ends that.
LEMMA BookSwitch ==
    ASSUME BookInv, NEW p \in Owners, Books!SetSelfOperated(p)
    PROVE  BookInv'
  <1>1. /\ UNCHANGED <<exists, links, removed, usage, costs, spend, saving>>
        /\ happened' \in 0..MaxDealings
    BY BookEvent DEF BookInv, BookTypes, Books!SetSelfOperated
  <1>2. /\ selfRun' \in [Owners -> BOOLEAN] /\ switched' \subseteq Owners
        /\ switched \subseteq switched'
        /\ \A q \in Owners : selfRun[q] => selfRun'[q] \/ q \in switched'
    BY DEF BookInv, BookTypes, Books!SetSelfOperated
  <1>3. BookTypes'
    BY <1>1, <1>2 DEF BookInv, BookTypes
  <1>4. Books!SpendIsExplained'
    BY <1>1, <1>2, BookData DEF BookInv, BookTypes, Books!SpendIsExplained
  <1>5. SavingIsExplained'
    BY <1>1, <1>2, BookData DEF BookInv, SavingIsExplained
  <1> QED BY <1>3, <1>4, <1>5 DEF BookInv

\* A site goes, and what refers to it.
LEMMA BookDelete ==
    ASSUME BookInv, NEW p \in Owners, Books!DeleteProvider(p)
    PROVE  BookInv'
  <1>1. /\ UNCHANGED <<selfRun, removed, usage, saving, switched>>
        /\ happened' \in 0..MaxDealings
    BY BookEvent DEF BookInv, BookTypes, Books!DeleteProvider
  <1>2. /\ exists' = exists \ {p} /\ costs' \subseteq costs
        /\ spend' = {s \in spend : s.provider # p}
    BY DEF Books!DeleteProvider
  <1>3. links' \in [Owned -> exists' \cup {0}]
    BY <1>2 DEF BookInv, BookTypes, Books!DeleteProvider, Books!Replaced
  <1>4. BookTypes'
    BY <1>1, <1>2, <1>3 DEF BookInv, BookTypes
  <1>5. Books!SpendIsExplained' /\ SavingIsExplained'
    BY <1>1, <1>2 DEF BookInv, Books!SpendIsExplained, SavingIsExplained
  <1> QED BY <1>4, <1>5 DEF BookInv

\* Operating costs: an entry is checked, inserted, deleted.
LEMMA BookSpend ==
    ASSUME BookInv, \/ \E s \in Spends : Books!RequireSelfOperated(s) \/ Books!DeleteSpend(s)
                    \/ Books!InsertSpend
    PROVE  BookInv'
  <1>1. UNCHANGED <<exists, selfRun, links, removed, usage, costs, switched>>
    BY DEF Books!RequireSelfOperated, Books!DeleteSpend, Books!InsertSpend
  <1>2. happened' \in 0..MaxDealings
    <2>1. happened' = happened \/ Books!Event
      BY DEF Books!RequireSelfOperated, Books!DeleteSpend, Books!InsertSpend
    <2> QED BY <2>1, BookEvent DEF BookInv, BookTypes
  <1>3. spend' \subseteq Spends /\ saving' \in Spends \cup {Books!NoSpend} /\ SavingIsExplained'
    BY <1>1 DEF BookInv, BookTypes, SavingIsExplained, Books!SelfOperatedIDs,
                Books!RequireSelfOperated, Books!DeleteSpend, Books!InsertSpend
  <1>4. Books!SpendIsExplained'
    BY <1>1 DEF BookInv, BookTypes, SavingIsExplained, Books!SpendIsExplained,
                Books!RequireSelfOperated, Books!DeleteSpend, Books!InsertSpend
  <1>5. BookTypes'
    BY <1>1, <1>2, <1>3 DEF BookInv, BookTypes
  <1> QED BY <1>3, <1>4, <1>5 DEF BookInv

\* Any step of the books.
LEMMA BookStep == ASSUME BookInv, Books!Next PROVE BookInv'
  BY BookRows, BookLinks, BookSwitch, BookDelete, BookSpend DEF Books!Next

\* The books at the start.
LEMMA BookStart == ASSUME Books!Init PROVE BookInv
  BY BookData DEF Books!Init, BookInv, BookTypes, Books!SpendIsExplained, SavingIsExplained,
                  Books!NoSpend

\* The books hold what they should, however the parts are chosen.
LEMMA BooksHold == PartSpec => []BookInv
  <1>1. PartInit => BookInv
    BY BookStart DEF PartInit
  <1>2. ASSUME BookInv, PartNext \/ UNCHANGED bookVars PROVE BookInv'
    <2>1. CASE UNCHANGED bookVars
      BY <1>2, <2>1 DEF bookVars, BookInv, BookTypes, Books!SpendIsExplained, SavingIsExplained
    <2>2. CASE Books!Next
      BY <1>2, <2>2, BookStep
    <2> QED BY <1>2, <2>1, <2>2 DEF PartNext
  <1>3. BookInv /\ [PartNext]_<<part, vars, pelicanVars, replyVars, verdictVars, probeVars,
                               priceVars, sessionVars, bookVars>> => BookInv'
    BY <1>2
  <1> QED BY <1>1, <1>3, PTL DEF PartSpec

(***************************************************************************)
(* ProfitViews: sums                                                       *)
(***************************************************************************)
\* The numbers of the rows.
Revenues == [u \in Uses |-> u.revenue]
Weights  == [u \in Uses |-> u.weight]
Ones(S)  == [x \in S |-> 1]
Charges  ==
    [c \in CostRows |-> IF selfRun[c.provider] THEN 0 ELSE c.amount * Books!Rate(c.provider)]
Amounts  == [s \in Spends |-> s.amount]

\* The sum of the views is the one the lemmas are about.
LEMMA BookSum == ASSUME NEW f PROVE Books!SumFunction(f) = Sum(f, DOMAIN f)
  BY DEF Books!SumFunction, Books!SumFunctionOnSet, Books!FoldFunctionOnSet,
         Books!MapThenFoldSet, Sum, SumFunctionOnSet, FoldFunctionOnSet, MapThenFoldSet

\* The sum of a function over a set that counts as another does there.
LEMMA BookSumOf ==
    ASSUME NEW S, IsFiniteSet(S), NEW f, DOMAIN f = S, NEW w, \A s \in S : f[s] = w[s]
    PROVE  Books!SumFunction(f) = Sum(w, S)
  BY BookSum, SumSame

\* What requests brought and weighed.
LEMMA RequestSums ==
    ASSUME NEW S \in SUBSET Uses
    PROVE  /\ IsFiniteSet(S)
           /\ Books!Revenue(S) = Sum(Revenues, S) /\ Books!Revenue(S) \in Nat
           /\ Books!CostWeight(S) = Sum(Weights, S) /\ Books!CostWeight(S) \in Nat
           /\ Books!Cardinality(S) = Sum(Ones(Uses), S) /\ Books!Cardinality(S) \in Nat
           /\ Books!Cardinality(S) = 0 => S = {}
  <1>1. IsFiniteSet(S)
    BY BookFinite, FS_Subset
  <1>2. \A u \in S : Revenues[u] \in Nat /\ Weights[u] \in Nat /\ Ones(Uses)[u] = 1
    BY BookData DEF Revenues, Weights, Ones
  <1>3. Books!Revenue(S) = Sum(Revenues, S)
    <2> DEFINE f == [u \in S |-> u.revenue]
    <2>1. DOMAIN f = S /\ \A u \in S : f[u] = Revenues[u]
      BY DEF Revenues
    <2>2. Books!Revenue(S) = Books!SumFunction(f)
      BY DEF Books!Revenue
    <2> HIDE DEF f
    <2> QED BY <1>1, <2>1, <2>2, BookSumOf
  <1>4. Books!CostWeight(S) = Sum(Weights, S)
    <2> DEFINE f == [u \in S |-> u.weight]
    <2>1. DOMAIN f = S /\ \A u \in S : f[u] = Weights[u]
      BY DEF Weights
    <2>2. Books!CostWeight(S) = Books!SumFunction(f)
      BY DEF Books!CostWeight
    <2> HIDE DEF f
    <2> QED BY <1>1, <2>1, <2>2, BookSumOf
  <1>5. Books!Cardinality(S) = Cardinality(S)
    BY DEF Books!Cardinality, Cardinality
  <1>6. Cardinality(S) = Sum(Ones(Uses), S)
    BY <1>1, <1>2, SumCounts
  <1>7. Sum(Revenues, S) \in Nat /\ Sum(Weights, S) \in Nat
    BY <1>1, <1>2, SumOfNaturals
  <1>8. Cardinality(S) \in Nat /\ (Cardinality(S) = 0 => S = {})
    BY <1>1, FS_CardinalityType, FS_EmptySet
  <1> QED BY <1>1, <1>3, <1>4, <1>5, <1>6, <1>7, <1>8

\* What rows of the providers cost.
LEMMA ChargeSums ==
    ASSUME BookTypes, NEW S \in SUBSET CostRows
    PROVE  /\ IsFiniteSet(S) /\ \A c \in S : Charges[c] \in Int
           /\ Books!ActualCost(S) = Sum(Charges, S) /\ Books!ActualCost(S) \in Int
  <1>1. IsFiniteSet(S)
    BY BookFinite, FS_Subset
  <1>2. \A c \in CostRows : Charges[c] \in Int
    <2> SUFFICES ASSUME NEW c \in CostRows PROVE Charges[c] \in Int
      OBVIOUS
    <2>1. c.provider \in Owners /\ c.amount \in Int /\ RateOf \in [Owners -> Int]
      BY BookData
    <2>2. RateOf[c.provider] \in Int
      BY <2>1
    <2>3. Books!Rate(c.provider) \in Int
      BY <2>2 DEF Books!Rate
    <2> QED BY <2>1, <2>3 DEF Charges
  <1>3. Books!ActualCost(S) = Sum(Charges, S)
    <2> DEFINE f == [c \in S |-> IF selfRun[c.provider] THEN 0
                                ELSE c.amount * Books!Rate(c.provider)]
    <2>1. DOMAIN f = S /\ \A c \in S : f[c] = Charges[c]
      BY DEF Charges
    <2>2. Books!ActualCost(S) = Books!SumFunction(f)
      BY DEF Books!ActualCost
    <2> HIDE DEF f
    <2> QED BY <1>1, <2>1, <2>2, BookSumOf
  <1>4. Sum(Charges, S) \in Int
    BY <1>1, <1>2, SumIsNumber
  <1> QED BY <1>1, <1>2, <1>3, <1>4

\* What entries of operating costs come to.
LEMMA AmountSums ==
    ASSUME NEW S \in SUBSET Spends
    PROVE  /\ IsFiniteSet(S) /\ \A s \in S : Amounts[s] \in Nat
           /\ Books!Amount(S) = Sum(Amounts, S) /\ Books!Amount(S) \in Nat
  <1>1. IsFiniteSet(S)
    BY BookFinite, FS_Subset
  <1>2. \A s \in S : Amounts[s] \in Nat
    BY BookData DEF Amounts
  <1>3. Books!Amount(S) = Sum(Amounts, S)
    <2> DEFINE f == [s \in S |-> s.amount]
    <2>1. DOMAIN f = S /\ \A s \in S : f[s] = Amounts[s]
      BY DEF Amounts
    <2>2. Books!Amount(S) = Books!SumFunction(f)
      BY DEF Books!Amount
    <2> HIDE DEF f
    <2> QED BY <1>1, <2>1, <2>2, BookSumOf
  <1>4. Sum(Amounts, S) \in Nat
    BY <1>1, <1>2, SumOfNaturals
  <1> QED BY <1>1, <1>2, <1>3, <1>4

(***************************************************************************)
(* ProfitViews: the totals of a view                                       *)
(***************************************************************************)
\* A view of its columns.
Column(requests, revenue, cost, op, missing, b) ==
    [requests |-> requests[b], revenue |-> revenue[b], cost |-> cost[b], op |-> op[b],
     profit |-> revenue[b] - cost[b] - op[b], missing |-> missing[b]]
Summary(requests, revenue, cost, op, whole) ==
    [requests |-> requests, revenue |-> revenue, cost |-> cost, op |-> op,
     profit |-> revenue - cost - op, complete |-> whole]

NoneMissing(missing, D) == \A b \in D : missing[b] = 0
HasColumns(view, D, requests, revenue, cost, op, missing) ==
    \A b \in D : /\ view[b] = Column(requests, revenue, cost, op, missing, b)
                 /\ requests[b] \in Int /\ revenue[b] \in Int /\ cost[b] \in Int /\ op[b] \in Int
                 /\ missing[b] \in Nat

\* The total of a view has the sums of its columns.
LEMMA TotalOf ==
    ASSUME NEW view, NEW D, D = DOMAIN view, IsFiniteSet(D),
           NEW requests, NEW revenue, NEW cost, NEW op, NEW missing,
           HasColumns(view, D, requests, revenue, cost, op, missing)
    PROVE  Books!Total(view) =
               Summary(Sum(requests, D), Sum(revenue, D), Sum(cost, D), Sum(op, D),
                       NoneMissing(missing, D))
  <1> DEFINE f(field) == [b \in D |-> view[b][field]]
             Add(field) == Books!SumFunction(f(field))
  <1>0. \A b \in D : /\ view[b] = Column(requests, revenue, cost, op, missing, b)
                     /\ requests[b] \in Int /\ revenue[b] \in Int /\ cost[b] \in Int
                     /\ op[b] \in Int /\ missing[b] \in Nat
    BY DEF HasColumns
  <1>1. Books!Total(view) =
            [requests |-> Add("requests"), revenue |-> Add("revenue"), cost |-> Add("cost"),
             op |-> Add("op"), profit |-> Add("profit"), complete |-> Add("missing") = 0]
    BY DEF Books!Total
  <1>2. \A field : DOMAIN f(field) = D
    OBVIOUS
  <1>3. Add("requests") = Sum(requests, D)
    <2>1. \A b \in D : f("requests")[b] = requests[b]
      BY <1>0 DEF Column
    <2> HIDE DEF f
    <2> QED BY <1>2, <2>1, BookSumOf
  <1>4. Add("revenue") = Sum(revenue, D)
    <2>1. \A b \in D : f("revenue")[b] = revenue[b]
      BY <1>0 DEF Column
    <2> HIDE DEF f
    <2> QED BY <1>2, <2>1, BookSumOf
  <1>5. Add("cost") = Sum(cost, D)
    <2>1. \A b \in D : f("cost")[b] = cost[b]
      BY <1>0 DEF Column
    <2> HIDE DEF f
    <2> QED BY <1>2, <2>1, BookSumOf
  <1>6. Add("op") = Sum(op, D)
    <2>1. \A b \in D : f("op")[b] = op[b]
      BY <1>0 DEF Column
    <2> HIDE DEF f
    <2> QED BY <1>2, <2>1, BookSumOf
  <1>7. Add("missing") = Sum(missing, D)
    <2>1. \A b \in D : f("missing")[b] = missing[b]
      BY <1>0 DEF Column
    <2> HIDE DEF f
    <2> QED BY <1>2, <2>1, BookSumOf
  <1>8. Add("profit") = Sum(revenue, D) - Sum(cost, D) - Sum(op, D)
    <2> DEFINE z == f("profit")
               rest == [b \in D |-> z[b] + cost[b]]
    <2>1. \A b \in D : z[b] = revenue[b] - cost[b] - op[b]
      BY <1>0 DEF Column
    <2>2. DOMAIN z = D
      OBVIOUS
    <2>3. Add("profit") = Sum(z, D)
      <3> HIDE DEF z
      <3> QED BY <2>2, BookSumOf DEF z
    <2> HIDE DEF z
    <2>4. \A b \in D : z[b] \in Int /\ rest[b] = z[b] + cost[b] /\ rest[b] \in Int
      BY <1>0, <2>1
    <2>5. \A b \in D : revenue[b] = rest[b] + op[b]
      BY <1>0, <2>1
    <2> HIDE DEF rest
    <2>6. Sum(rest, D) = Sum(z, D) + Sum(cost, D)
      BY <1>0, <2>4, SumAdds
    <2>7. Sum(revenue, D) = Sum(rest, D) + Sum(op, D)
      BY <1>0, <2>4, <2>5, SumAdds
    <2>8. Sum(z, D) \in Int /\ Sum(cost, D) \in Int /\ Sum(op, D) \in Int
      BY <1>0, <2>4, SumIsNumber
    <2> QED BY <2>3, <2>6, <2>7, <2>8
  <1>9. (Add("missing") = 0) = NoneMissing(missing, D) /\ NoneMissing(missing, D) \in BOOLEAN
    <2>1. Sum(missing, D) = 0 <=> NoneMissing(missing, D)
      BY <1>0, SumOfNaturals DEF NoneMissing
    <2>2. NoneMissing(missing, D) \in BOOLEAN
      BY DEF NoneMissing
    <2> QED BY <1>7, <2>1, <2>2
  <1> HIDE DEF Add
  <1> QED BY <1>1, <1>3, <1>4, <1>5, <1>6, <1>8, <1>9 DEF Summary

(***************************************************************************)
(* ProfitViews: shares                                                     *)
(***************************************************************************)
\* The share of an amount that has a whole part for each of all.
LEMMA PartOf ==
    ASSUME NEW q \in Int, NEW n \in Nat \ {0}, NEW m \in Nat, NEW a, a = q * n
    PROVE  (a * m) \div n = q * m
  <1>1. (q * n) \div n = q /\ \A p \in Int : (p * n) \div n = p
    OBVIOUS
  <1>2. a * m = (q * m) * n /\ q * m \in Int
    OBVIOUS
  <1> QED BY <1>1, <1>2

\* What a row counts among those that share.
Part(r, rows) ==
    IF Books!CostWeight(UNION rows) > 0 THEN Books!CostWeight(r) ELSE Books!Cardinality(r)

Shares(amount, rows) == [r \in rows |-> Books!Share(amount, r, rows)]

\* Rows that can share: no request is in two.
Apart(rows) ==
    /\ IsFiniteSet(rows) /\ rows # {}
    /\ \A r \in rows : r \subseteq Uses /\ r # {}
    /\ \A r \in rows, s \in rows : r # s => r \cap s = {}

\* An amount that the rows can share wholly is shared wholly: each has as many of its parts as
\* it counts, and together they have all of it.
LEMMA SharesAddUp ==
    ASSUME NEW rows, Apart(rows),
           NEW q \in Int, NEW amount, amount = q * Books!Divisor(UNION rows)
    PROVE  /\ \A r \in rows : /\ Part(r, rows) \in Nat
                              /\ Books!Share(amount, r, rows) = q * Part(r, rows)
           /\ Sum(Shares(amount, rows), rows) = amount
  <1>0. /\ IsFiniteSet(rows) /\ rows # {}
        /\ \A r \in rows : r \subseteq Uses /\ r # {}
        /\ \A r \in rows, s \in rows : r # s => r \cap s = {}
    BY DEF Apart
  <1> DEFINE all == UNION rows
             n == Books!Divisor(all)
             counts(r) == Part(r, rows)
             w == IF Books!CostWeight(all) > 0 THEN Weights ELSE Ones(Uses)
  <1>1. all \in SUBSET Uses /\ all # {}
    BY <1>0
  <1>2. n \in Nat \ {0} /\ n = Sum(w, all)
    <2>1. /\ Books!CostWeight(all) \in Nat /\ Books!CostWeight(all) = Sum(Weights, all)
          /\ Books!Cardinality(all) \in Nat /\ Books!Cardinality(all) = Sum(Ones(Uses), all)
          /\ Books!Cardinality(all) # 0
      BY <1>1, RequestSums
    <2> HIDE DEF all
    <2> QED BY <2>1 DEF Books!Divisor
  <1>3. \A r \in rows : counts(r) \in Nat /\ counts(r) = Sum(w, r)
    <2> SUFFICES ASSUME NEW r \in rows PROVE counts(r) \in Nat /\ counts(r) = Sum(w, r)
      OBVIOUS
    <2>1. r \in SUBSET Uses
      BY <1>0
    <2>2. /\ Books!CostWeight(r) \in Nat /\ Books!CostWeight(r) = Sum(Weights, r)
          /\ Books!Cardinality(r) \in Nat /\ Books!Cardinality(r) = Sum(Ones(Uses), r)
      BY <2>1, RequestSums
    <2> HIDE DEF all
    <2>3. counts(r) = IF Books!CostWeight(all) > 0 THEN Books!CostWeight(r)
                      ELSE Books!Cardinality(r)
      BY DEF Part, all
    <2> QED BY <2>2, <2>3
  <1>4. ASSUME NEW r \in rows PROVE Books!Share(amount, r, rows) = q * counts(r)
    <2>1. Books!Share(amount, r, rows) = (amount * counts(r)) \div n
      BY DEF Books!Share, Part, Books!Divisor
    <2>2. counts(r) \in Nat
      BY <1>3
    <2> HIDE DEF counts, n
    <2>3. amount = q * n
      BY DEF n
    <2> QED BY <1>2, <2>1, <2>2, <2>3, PartOf
  <1> DEFINE f == [r \in rows |-> Books!Share(amount, r, rows)]
             v == [r \in rows |-> Sum(w, r)]
  <1>5. Sum(f, rows) = q * Sum(v, rows)
    <2>0. \A r \in rows : v[r] = Sum(w, r) /\ f[r] = Books!Share(amount, r, rows)
      OBVIOUS
    <2> HIDE DEF f, v, w, counts
    <2>1. ASSUME NEW r \in rows PROVE v[r] \in Int /\ f[r] = q * v[r]
      <3>1. v[r] = counts(r) /\ counts(r) \in Nat
        BY <1>3, <2>0
      <3>2. f[r] = q * counts(r)
        BY <1>4, <2>0
      <3> QED BY <3>1, <3>2
    <2> QED BY <1>0, <2>1, SumScales
  <1>6. Sum(v, rows) = Sum(w, all)
    <2> DEFINE rowOf == [u \in all |-> CHOOSE r \in rows : u \in r]
    <2>1. \A u \in all : rowOf[u] \in rows /\ u \in rowOf[u]
      BY <1>0
    <2>2. ASSUME NEW r \in rows PROVE Of(all, rowOf, r) = r
      <3>1. \A u \in r : rowOf[u] = r
        BY <1>0, <2>1
      <3> HIDE DEF rowOf
      <3> QED BY <2>1, <3>1 DEF Of
    <2> HIDE DEF rowOf
    <2>3. v = [r \in rows |-> Sum(w, Of(all, rowOf, r))]
      BY <2>2
    <2>4. \A u \in all : w[u] \in Int
      BY <1>1, BookData DEF Weights, Ones
    <2>5. IsFiniteSet(all) /\ \A u \in all : rowOf[u] \in rows
      BY <1>1, <2>1, RequestSums
    <2> HIDE DEF all, w, v
    <2>6. Sum([r \in rows |-> Sum(w, Of(all, rowOf, r))], rows) = Sum(w, all)
      BY <1>0, <2>4, <2>5, SumByKey
    <2> QED BY <2>3, <2>6
  <1>7. Sum(f, rows) = amount
    <2>1. amount = q * n
      OBVIOUS
    <2> HIDE DEF f, v, n, all, w
    <2> QED BY <1>2, <1>5, <1>6, <2>1
  <1>8. f = Shares(amount, rows)
    BY DEF Shares
  <1> QED BY <1>3, <1>4, <1>7, <1>8

\* A sum of multiples is one.
LEMMA MultiplesAddUp ==
    ASSUME NEW S, IsFiniteSet(S), NEW w, NEW n \in Int,
           \A s \in S : \E q \in Int : w[s] = n * q
    PROVE  \E q \in Int : Sum(w, S) = n * q
  <1> DEFINE v == [s \in S |-> CHOOSE q \in Int : w[s] = n * q]
  <1>1. \A s \in S : v[s] \in Int /\ w[s] = n * v[s]
    OBVIOUS
  <1> HIDE DEF v
  <1>2. Sum(w, S) = n * Sum(v, S)
    BY <1>1, SumScales
  <1>3. Sum(v, S) \in Int
    BY <1>1, SumIsNumber
  <1> QED BY <1>2, <1>3

\* What requests share their unit into.
LEMMA UnitDivides ==
    ASSUME NEW S \in SUBSET Uses, S # {}
    PROVE  Books!Divisor(S) \in Nat \ {0} /\ \E n \in Nat : Unit = n * Books!Divisor(S)
  <1>1. /\ Books!CostWeight(S) \in Nat /\ Books!Cardinality(S) \in Nat
        /\ Books!Cardinality(S) # 0
    BY RequestSums
  <1>2. Books!Divisor(S) \in Nat \ {0}
    BY <1>1 DEF Books!Divisor
  <1>3. Books!BooksAssumption
    BY PartsAssumption
  <1>4. Books!Multiple(Unit, Books!Divisor(S))
    <2>1. \A T \in (SUBSET Uses) \ {{}} : Books!Multiple(Unit, Books!Divisor(T))
      BY <1>3 DEF Books!BooksAssumption
    <2>2. S \in (SUBSET Uses) \ {{}}
      OBVIOUS
    <2> QED BY ONLY <2>1, <2>2
  <1>5. PICK n \in Nat : Unit = n * Books!Divisor(S)
    BY <1>4, BookData DEF Books!Multiple
  <1> QED BY <1>2, <1>5

\* What rows of the providers cost, and what was paid for sites, is in units.
LEMMA InUnits ==
    ASSUME BookTypes
    PROVE  /\ \A S \in SUBSET CostRows : \E q \in Int : Books!ActualCost(S) = Unit * q
           /\ \A S \in SUBSET Spends : \E q \in Int : Books!Amount(S) = (Unit * Unit) * q
  <1>0. Books!BooksAssumption
    BY PartsAssumption
  <1>1. ASSUME NEW S \in SUBSET CostRows PROVE \E q \in Int : Books!ActualCost(S) = Unit * q
    <2>1. ASSUME NEW c \in S PROVE \E q \in Int : Charges[c] = Unit * q
      <3>1. c \in CostRows /\ Books!Multiple(c.amount, Unit)
        BY <1>0 DEF Books!BooksAssumption
      <3>2. PICK n \in Int : c.amount = n * Unit
        BY <3>1, BookData DEF Books!Multiple
      <3>3. Books!Rate(c.provider) \in Int
        <4>1. c.provider \in Owners /\ RateOf \in [Owners -> Int]
          BY <3>1, BookData
        <4>2. RateOf[c.provider] \in Int
          BY <4>1
        <4> QED BY <4>2 DEF Books!Rate
      <3>4. Charges[c] = IF selfRun[c.provider] THEN 0 ELSE c.amount * Books!Rate(c.provider)
        BY <3>1 DEF Charges
      <3>5. c.amount * Books!Rate(c.provider) = Unit * (n * Books!Rate(c.provider))
            /\ n * Books!Rate(c.provider) \in Int
        BY <3>2, <3>3, BookData
      <3>6. Unit * 0 = 0
        BY BookData
      <3> QED BY <3>4, <3>5, <3>6
    <2>2. \E q \in Int : Sum(Charges, S) = Unit * q
      <3>1. IsFiniteSet(S) /\ Unit \in Int
        BY ChargeSums, BookData
      <3> QED BY <2>1, <3>1, MultiplesAddUp
    <2> QED BY <2>2, ChargeSums
  <1>2. ASSUME NEW S \in SUBSET Spends PROVE \E q \in Int : Books!Amount(S) = (Unit * Unit) * q
    <2> DEFINE n == Unit * Unit
    <2>1. n \in Int
      BY BookData
    <2>2. ASSUME NEW s \in S PROVE \E q \in Int : Amounts[s] = n * q
      <3>1. s \in Spends /\ Books!Multiple(s.amount, n)
        BY <1>0 DEF Books!BooksAssumption
      <3>2. Amounts[s] = s.amount
        BY <3>1 DEF Amounts
      <3> HIDE DEF n
      <3> QED BY <2>1, <3>1, <3>2, BookData DEF Books!Multiple
    <2> HIDE DEF n
    <2>3. \E q \in Int : Sum(Amounts, S) = n * q
      <3>1. IsFiniteSet(S)
        BY AmountSums
      <3> QED BY <2>1, <2>2, <3>1, MultiplesAddUp
    <2> QED BY <2>3, AmountSums DEF n
  <1> QED BY <1>1, <1>2

(***************************************************************************)
(* ProfitViews: the view by provider                                       *)
(***************************************************************************)
\* What the requests of a period are, and whose.
LEMMA ShownFacts ==
    ASSUME BookTypes, NEW period
    PROVE  /\ Books!Shown(period) \in SUBSET Uses /\ IsFiniteSet(Books!Shown(period))
           /\ \A u \in Books!Shown(period) :
                 u.account \in Books!Busy(period) /\ u.day \in period
           /\ Books!Busy(period) \in SUBSET Owned /\ IsFiniteSet(Books!Busy(period))
           /\ \A a \in Books!Busy(period) : links[a] \in exists \cup {0}
           /\ IsFiniteSet(exists \cup {0})
  <1>1. Books!Shown(period) \in SUBSET Uses
    BY DEF BookTypes, Books!Shown
  <1>2. \A u \in Books!Shown(period) : u.account \in Books!Busy(period) /\ u.day \in period
    BY DEF Books!Busy, Books!Shown
  <1>3. Books!Busy(period) \in SUBSET Owned
    BY <1>1, BookData DEF Books!Busy
  <1>4. IsFiniteSet(Books!Shown(period)) /\ IsFiniteSet(Books!Busy(period))
    BY <1>1, <1>3, BookFinite, FS_Subset
  <1>5. IsFiniteSet(exists \cup {0})
    <2>1. IsFiniteSet(exists)
      BY BookFinite, FS_Subset DEF BookTypes
    <2> QED BY <2>1, FS_AddElement
  <1> QED BY <1>1, <1>2, <1>3, <1>4, <1>5 DEF BookTypes

\* A sum of the requests, bucket by bucket.
LEMMA BucketSums ==
    ASSUME NEW S \in SUBSET Uses, NEW B, IsFiniteSet(B), NEW key, \A u \in S : key[u] \in B
    PROVE  /\ Sum([b \in B |-> Books!Cardinality(Of(S, key, b))], B) = Books!Cardinality(S)
           /\ Sum([b \in B |-> Books!Revenue(Of(S, key, b))], B) = Books!Revenue(S)
  <1>1. \A b \in B : Of(S, key, b) \in SUBSET Uses
    BY DEF Of
  <1>2. \A u \in S : Ones(Uses)[u] \in Int /\ Revenues[u] \in Int
    BY BookData DEF Ones, Revenues
  <1>3. IsFiniteSet(S)
    BY RequestSums
  <1>4. [b \in B |-> Books!Cardinality(Of(S, key, b))]
            = [b \in B |-> Sum(Ones(Uses), Of(S, key, b))]
    BY <1>1, RequestSums
  <1>5. [b \in B |-> Books!Revenue(Of(S, key, b))] = [b \in B |-> Sum(Revenues, Of(S, key, b))]
    BY <1>1, RequestSums
  <1>6. Sum([b \in B |-> Sum(Ones(Uses), Of(S, key, b))], B) = Sum(Ones(Uses), S)
    BY <1>2, <1>3, SumByKey
  <1>7. Sum([b \in B |-> Sum(Revenues, Of(S, key, b))], B) = Sum(Revenues, S)
    BY <1>2, <1>3, SumByKey
  <1> QED BY <1>4, <1>5, <1>6, <1>7, RequestSums

\* What an account cost in a period, and a site.
CostOf(period) == [a \in Owned |-> Books!ActualCost(Books!CostsOf(a, period))]
SiteCost(period) == [p \in exists \cup {0} |-> Books!SumByProvider(p, period)]
CostsAt(B, period) == {c \in Books!CostsOn(period) : c.account \in B}
CostsOfBusy(period) == CostsAt(Books!Busy(period), period)
SpendOn(period) == {s \in spend : s.day \in period}

\* What accounts cost together.
LEMMA AccountsAddUp ==
    ASSUME BookTypes, NEW period, NEW B \in SUBSET Owned
    PROVE  /\ \A a \in Owned : CostOf(period)[a] \in Int
           /\ CostsAt(B, period) \in SUBSET CostRows
           /\ Sum(CostOf(period), B) = Books!ActualCost(CostsAt(B, period))
  <1> DEFINE S == CostsAt(B, period)
             key == [c \in CostRows |-> c.account]
  <1>1. S \in SUBSET CostRows /\ \A a \in Owned : Books!CostsOf(a, period) \in SUBSET CostRows
    BY DEF BookTypes, CostsAt, Books!CostsOn, Books!CostsOf
  <1>2. \A a \in Owned : CostOf(period)[a] \in Int
    BY <1>1, ChargeSums DEF CostOf
  <1>3. \A c \in S : key[c] \in B /\ Charges[c] \in Int
    BY <1>1, ChargeSums DEF CostsAt
  <1>4. B \in SUBSET Owned /\ IsFiniteSet(B)
    BY BookFinite, FS_Subset
  <1>5. \A a \in B : CostOf(period)[a] = Sum(Charges, Of(S, key, a))
    <2> SUFFICES ASSUME NEW a \in B PROVE CostOf(period)[a] = Sum(Charges, Of(S, key, a))
      OBVIOUS
    <2>1. Books!CostsOf(a, period) = Of(S, key, a)
      BY DEF BookTypes, Of, CostsAt, Books!CostsOn, Books!CostsOf
    <2>2. CostOf(period)[a] = Books!ActualCost(Books!CostsOf(a, period))
      BY <1>4 DEF CostOf
    <2>3. Of(S, key, a) \in SUBSET CostRows
      BY <1>1 DEF Of
    <2> QED BY <2>1, <2>2, <2>3, ChargeSums
  <1> DEFINE v == [a \in B |-> Sum(Charges, Of(S, key, a))]
  <1>6. Sum(v, B) = Sum(Charges, S)
    <2>1. IsFiniteSet(S)
      BY <1>1, ChargeSums
    <2> HIDE DEF S, key
    <2> QED BY <1>3, <1>4, <2>1, SumByKey
  <1>7. Sum(CostOf(period), B) = Sum(v, B)
    <2>1. \A a \in B : v[a] = CostOf(period)[a]
      BY <1>5
    <2> HIDE DEF v
    <2> QED BY <1>4, <2>1, SumSame
  <1>8. Books!ActualCost(S) = Sum(Charges, S)
    BY <1>1, ChargeSums
  <1> QED BY <1>1, <1>2, <1>6, <1>7, <1>8

\* What was paid for sites, over any of them that leave out none that cost something.
LEMMA SitesAddUp ==
    ASSUME BookInv, NEW period, NEW D \in SUBSET (exists \cup {0}),
           \A p \in exists \ D : Books!SumByProvider(p, period) = 0
    PROVE  /\ \A p \in exists \cup {0} : SiteCost(period)[p] \in Nat
           /\ SiteCost(period)[0] = 0
           /\ SpendOn(period) \in SUBSET Spends
           /\ Sum(SiteCost(period), D) = Books!Amount(SpendOn(period))
  <1> DEFINE S == SpendOn(period)
             K == exists \cup {0}
             key == [s \in Spends |-> s.provider]
             v == [p \in K |-> Sum(Amounts, Of(S, key, p))]
             w == SiteCost(period)
  <1>1. S \in SUBSET Spends /\ \A s \in S : key[s] \in exists /\ key[s] # 0
    BY BookData DEF SpendOn, BookInv, BookTypes, Books!SpendIsExplained
  <1>2. \A p \in K : w[p] = v[p] /\ w[p] \in Nat
    <2> SUFFICES ASSUME NEW p \in K PROVE w[p] = v[p] /\ w[p] \in Nat
      OBVIOUS
    <2>1. {s \in spend : s.provider = p /\ s.day \in period} = Of(S, key, p)
      BY DEF SpendOn, Of, BookInv, BookTypes
    <2>2. Of(S, key, p) \in SUBSET Spends
      BY <1>1 DEF Of
    <2>3. w[p] = Books!Amount(Of(S, key, p))
      BY <2>1 DEF SiteCost, Books!SumByProvider
    <2> QED BY <2>2, <2>3, AmountSums
  <1>3. Of(S, key, 0) = {}
    BY <1>1 DEF Of
  <1>4. w[0] = 0
    BY <1>2, <1>3, SumOfNone
  <1>5. IsFiniteSet(K) /\ IsFiniteSet(S) /\ \A s \in S : Amounts[s] \in Int
    <2>1. IsFiniteSet(K)
      BY ShownFacts DEF BookInv
    <2>2. S \in SUBSET Spends
      BY <1>1
    <2> HIDE DEF S, K
    <2>3. IsFiniteSet(S) /\ \A s \in S : Amounts[s] \in Nat
      BY <2>2, AmountSums
    <2> QED BY <2>1, <2>3
  <1>6. Sum(v, K) = Sum(Amounts, S)
    <2>1. \A s \in S : key[s] \in K
      BY <1>1
    <2> HIDE DEF S, K, key
    <2> QED BY <1>5, <2>1, SumByKey
  <1>7. Sum(w, K) = Sum(v, K)
    <2> HIDE DEF v, w, K
    <2> QED BY <1>2, <1>5, SumSame
  <1>8. Sum(w, K) = Sum(w, D) + Sum(w, K \ D)
    <2>1. D \cup (K \ D) = K /\ D \cap (K \ D) = {}
      OBVIOUS
    <2>2. IsFiniteSet(D) /\ IsFiniteSet(K \ D)
      BY <1>5, FS_Subset
    <2>3. \A p \in D \cup (K \ D) : w[p] \in Int
      <3>1. \A p \in K : w[p] \in Nat
        BY <1>2
      <3> HIDE DEF w, K
      <3> QED BY <2>1, <3>1
    <2> DEFINE E == K \ D
    <2> HIDE DEF w, K, E
    <2>4. Sum(w, D \cup E) = Sum(w, D) + Sum(w, E)
      BY <2>1, <2>2, <2>3, SumJoins DEF E
    <2> QED BY <2>1, <2>4 DEF E
  <1>9. Sum(w, K \ D) = 0
    <2> DEFINE E == K \ D
    <2>1. \A p \in E : w[p] = 0
      BY <1>4 DEF SiteCost
    <2>2. IsFiniteSet(E)
      BY <1>5, FS_Subset
    <2> HIDE DEF E, w
    <2>3. Sum(w, E) = 0
      BY <2>1, <2>2, SumOfNaturals
    <2> QED BY <2>3 DEF E
  <1>10. Sum(w, D) \in Int
    <2>0. D \subseteq K /\ \A p \in K : w[p] \in Nat
      BY <1>2
    <2> HIDE DEF w, K
    <2>1. IsFiniteSet(D) /\ \A p \in D : w[p] \in Int
      BY <1>5, <2>0, FS_Subset
    <2> QED BY <2>1, SumIsNumber
  <1>11. Books!Amount(S) = Sum(Amounts, S)
    BY <1>1, AmountSums
  <1> HIDE DEF v, K
  <1> QED BY <1>1, <1>2, <1>4, <1>6, <1>7, <1>8, <1>9, <1>10, <1>11 DEF K

\* An account whose costs are known, or need not be.
Known0(a, period) == Books!costExempt(a) \/ Books!CostsOf(a, period) # {}
AllKnown(S, period) == \A a \in S : Known0(a, period)

\* A bucket misses nothing where none of its accounts does.
LEMMA MissingCounts ==
    ASSUME NEW S \in SUBSET Owned, NEW period
    PROVE  /\ Books!Missing(S, period) \in Nat
           /\ Books!Missing(S, period) = 0 <=> \A a \in S : Known0(a, period)
  <1> DEFINE T == {a \in S : ~Books!costExempt(a) /\ Books!CostsOf(a, period) = {}}
  <1>1. IsFiniteSet(T)
    BY BookFinite, FS_Subset
  <1>2. Cardinality(T) \in Nat /\ (Cardinality(T) = 0 <=> T = {})
    BY <1>1, FS_CardinalityType, FS_EmptySet
  <1>3. Books!Missing(S, period) = Cardinality(T)
    BY DEF Books!Missing, Books!Cardinality, Cardinality
  <1>4. T = {} <=> \A a \in S : Known0(a, period)
    BY DEF Known0
  <1> HIDE DEF T
  <1> QED BY <1>2, <1>3, <1>4

\* What the views agree on.
Grand(period) ==
    Summary(Books!Cardinality(Books!Shown(period)), Books!Revenue(Books!Shown(period)),
            Books!ActualCost(CostsOfBusy(period)), Books!Amount(SpendOn(period)),
            AllKnown(Books!Busy(period), period))

\* The providers add up to it.
LEMMA ProvidersAddUp ==
    ASSUME BookInv, NEW period
    PROVE  Books!Total(Books!ByProvider(period)) = Grand(period)
  <1> DEFINE view == Books!ByProvider(period)
             S == Books!Shown(period)
             B == Books!Busy(period)
             D == {links[a] : a \in B} \cup Books!SitesWithCosts(period)
             of == [u \in Uses |-> links[u.account]]
             requests == [p \in D |-> Books!Cardinality(Of(S, of, p))]
             revenue == [p \in D |-> Books!Revenue(Of(S, of, p))]
             cost == [p \in D |-> Sum(CostOf(period), Of(B, links, p))]
             op == SiteCost(period)
             missing == [p \in D |-> Books!Missing(Of(B, links, p), period)]
  <1>0. BookTypes
    BY DEF BookInv
  <1>1. /\ S \in SUBSET Uses /\ B \in SUBSET Owned /\ IsFiniteSet(B)
        /\ \A u \in S : u.account \in B
        /\ D \in SUBSET (exists \cup {0}) /\ IsFiniteSet(D)
    <2>1. D \in SUBSET (exists \cup {0})
      BY <1>0, ShownFacts DEF Books!SitesWithCosts
    <2> QED BY <1>0, <2>1, ShownFacts, FS_Subset
  <1>2. DOMAIN view = D
    BY DEF Books!ByProvider
  <1>3. ASSUME NEW p \in D
        PROVE  /\ view[p] = Column(requests, revenue, cost, op, missing, p)
               /\ requests[p] \in Int /\ revenue[p] \in Int /\ cost[p] \in Int
               /\ op[p] \in Int /\ missing[p] \in Nat
    <2> DEFINE A == Books!BusyOf(p, period)
               f == [a \in A |-> Books!ActualCost(Books!CostsOf(a, period))]
    <2>1. A = Of(B, links, p) /\ A \in SUBSET Owned /\ IsFiniteSet(A)
      <3>1. A = Of(B, links, p)
        BY DEF Books!BusyOf, Of
      <3>2. A \in SUBSET B
        BY DEF Books!BusyOf
      <3> QED BY <1>1, <3>1, <3>2, FS_Subset
    <2>2. {u \in S : u.account \in A} = Of(S, of, p)
      BY <1>1 DEF Books!BusyOf, Of
    <2>3. Books!SumFunction(f) = Sum(CostOf(period), A)
      <3>1. DOMAIN f = A /\ \A a \in A : f[a] = CostOf(period)[a]
        BY <2>1 DEF CostOf
      <3> HIDE DEF f
      <3> QED BY <2>1, <3>1, BookSumOf
    <2>4. view[p] = Books!Bucket({u \in S : u.account \in A}, Books!SumFunction(f),
                                 Books!SumByProvider(p, period), Books!Missing(A, period))
      BY DEF Books!ByProvider
    <2>5. op[p] = Books!SumByProvider(p, period)
      BY <1>1 DEF SiteCost
    <2>6. view[p] = Column(requests, revenue, cost, op, missing, p)
      <3> HIDE DEF view, S, A, f
      <3> QED BY <2>1, <2>2, <2>3, <2>4, <2>5 DEF Books!Bucket, Column
    <2>7. requests[p] \in Int /\ revenue[p] \in Int
      <3>1. Of(S, of, p) \in SUBSET Uses
        BY <1>1 DEF Of
      <3>2. Books!Cardinality(Of(S, of, p)) \in Int /\ Books!Revenue(Of(S, of, p)) \in Int
        BY <3>1, RequestSums
      <3> QED BY <3>2
    <2>8. cost[p] \in Int
      <3>1. \A a \in A : CostOf(period)[a] \in Int
        <4> HIDE DEF A
        <4> QED BY <1>0, <2>1, AccountsAddUp
      <3>2. Sum(CostOf(period), A) \in Int
        BY <2>1, <3>1, SumIsNumber
      <3> QED BY <2>1, <3>2
    <2>9. op[p] \in Int
      <3>1. \A q \in exists \ (exists \cup {0}) : Books!SumByProvider(q, period) = 0
        OBVIOUS
      <3>2. exists \cup {0} \in SUBSET (exists \cup {0})
        OBVIOUS
      <3>3. \A q \in exists \cup {0} : SiteCost(period)[q] \in Nat
        BY <3>1, <3>2, SitesAddUp
      <3> QED BY <1>1, <3>3
    <2>10. missing[p] \in Nat
      <3>1. Books!Missing(A, period) \in Nat
        BY <2>1, MissingCounts
      <3> QED BY <2>1, <3>1
    <2> QED BY <2>6, <2>7, <2>8, <2>9, <2>10
  <1>4. Books!Total(view) = Summary(Sum(requests, D), Sum(revenue, D), Sum(cost, D), Sum(op, D),
                                    NoneMissing(missing, D))
    <2>1. D = DOMAIN view /\ IsFiniteSet(D)
      BY <1>1, <1>2
    <2> HIDE DEF view, D, requests, revenue, cost, op, missing
    <2>2. HasColumns(view, D, requests, revenue, cost, op, missing)
      BY <1>3 DEF HasColumns
    <2> QED BY <2>1, <2>2, TotalOf
  <1>5. Sum(requests, D) = Books!Cardinality(S) /\ Sum(revenue, D) = Books!Revenue(S)
    <2>1. \A u \in S : of[u] \in D
      BY <1>1
    <2> HIDE DEF D, S, of
    <2> QED BY <1>1, <2>1, BucketSums
  <1>6. Sum(cost, D) = Books!ActualCost(CostsOfBusy(period))
    <2>0. /\ \A a \in Owned : CostOf(period)[a] \in Int
          /\ Sum(CostOf(period), B) = Books!ActualCost(CostsAt(B, period))
      <3> HIDE DEF B
      <3> QED BY <1>0, <1>1, AccountsAddUp
    <2>1. \A a \in B : links[a] \in D /\ CostOf(period)[a] \in Int
      BY <1>1, <2>0
    <2>2. Sum(CostOf(period), B) = Books!ActualCost(CostsOfBusy(period))
      BY <2>0 DEF CostsOfBusy
    <2> HIDE DEF D, B
    <2>3. Sum(cost, D) = Sum(CostOf(period), B)
      BY <1>1, <2>1, SumByKey
    <2> QED BY <2>2, <2>3
  <1>7. Sum(op, D) = Books!Amount(SpendOn(period))
    <2>1. \A p \in exists \ D : Books!SumByProvider(p, period) = 0
      BY DEF Books!SitesWithCosts
    <2> HIDE DEF D
    <2> QED BY <1>1, <2>1, SitesAddUp
  <1>8. NoneMissing(missing, D) = AllKnown(B, period)
    <2>1. ASSUME NEW p \in D
          PROVE  missing[p] = 0 <=> \A a \in Of(B, links, p) : Known0(a, period)
      <3>1. Of(B, links, p) \in SUBSET Owned
        BY <1>1 DEF Of
      <3> QED BY <3>1, MissingCounts
    <2>2. \A a \in B : links[a] \in D
      OBVIOUS
    <2> HIDE DEF missing, D, B
    <2>3. NoneMissing(missing, D) <=> AllKnown(B, period)
      BY <2>1, <2>2 DEF Of, NoneMissing, AllKnown
    <2>4. NoneMissing(missing, D) \in BOOLEAN /\ AllKnown(B, period) \in BOOLEAN
      BY DEF NoneMissing, AllKnown
    <2> QED BY <2>3, <2>4
  <1> HIDE DEF requests, revenue, cost, op, missing, D, S, B
  <1> QED BY <1>4, <1>5, <1>6, <1>7, <1>8 DEF Grand, S, B

(***************************************************************************)
(* ProfitViews: the views that split what an account cost                  *)
(***************************************************************************)
Siblings(r, rows) == {s \in rows : Books!AccountOf(s) = Books!AccountOf(r)}

\* The rows of an aggregation: each request is in one, with others of its account and key.
LEMMA RowsAre ==
    ASSUME BookTypes, NEW period, NEW key
    PROVE  LET R == Books!Rows(period, key)
               S == Books!Shown(period)
           IN  /\ IsFiniteSet(R) /\ UNION R = S
               /\ \A r \in R : /\ r \in SUBSET S /\ r \subseteq Uses /\ r # {}
                               /\ Books!AccountOf(r) \in Books!Busy(period)
                               /\ \A u \in r : /\ u.account = Books!AccountOf(r)
                                               /\ key[u][1] = Books!BucketOf(r, key)
               /\ \A r \in R, s \in R : r # s => r \cap s = {}
  <1> DEFINE R == Books!Rows(period, key)
             S == Books!Shown(period)
             RowAt(u) == {v \in S : v.account = u.account /\ key[v] = key[u]}
  <1>1. S \in SUBSET Uses /\ IsFiniteSet(S)
    BY ShownFacts
  <1>2. R = {RowAt(u) : u \in S}
    BY DEF Books!Rows
  <1> HIDE DEF R, S
  <1>3. IsFiniteSet(R)
    <2>1. R \subseteq SUBSET S
      BY <1>2
    <2>2. IsFiniteSet(SUBSET S)
      BY <1>1, FS_SUBSET
    <2> QED BY <2>1, <2>2, FS_Subset
  <1>4. ASSUME NEW r \in R
        PROVE  /\ r \in SUBSET S /\ r \subseteq Uses /\ r # {}
               /\ Books!AccountOf(r) \in Books!Busy(period)
               /\ \A u \in r : /\ u.account = Books!AccountOf(r)
                               /\ key[u][1] = Books!BucketOf(r, key)
    <2>1. PICK u \in S : r = RowAt(u)
      BY <1>2
    <2>2. u \in r /\ r \in SUBSET S
      BY <2>1
    <2> DEFINE c == CHOOSE x \in r : TRUE
    <2>3. c \in r
      BY <2>2
    <2>4. Books!AccountOf(r) = c.account /\ Books!BucketOf(r, key) = key[c][1]
      BY DEF Books!AccountOf, Books!BucketOf
    <2> HIDE DEF c
    <2>5. \A v \in r : v.account = c.account /\ key[v] = key[c]
      BY <2>1, <2>3
    <2>6. c.account \in Books!Busy(period)
      BY <2>2, <2>3, ShownFacts DEF S
    <2> QED BY <1>1, <2>2, <2>4, <2>5, <2>6
  <1>5. UNION R = S
    <2>1. \A u \in S : u \in RowAt(u)
      OBVIOUS
    <2>2. \A u \in S : RowAt(u) \in R
      BY <1>2
    <2> HIDE DEF RowAt
    <2>3. S \subseteq UNION R
      BY <2>1, <2>2
    <2>4. UNION R \subseteq S
      BY <1>4
    <2> QED BY <2>3, <2>4
  <1>6. ASSUME NEW r \in R, NEW s \in R, r # s PROVE r \cap s = {}
    <2>1. PICK u \in S : r = RowAt(u)
      BY <1>2
    <2>2. PICK v \in S : s = RowAt(v)
      BY <1>2
    <2>3. ASSUME NEW w \in r \cap s PROVE FALSE
      <3>1. w.account = u.account /\ key[w] = key[u] /\ w.account = v.account /\ key[w] = key[v]
        BY <2>1, <2>2, <2>3
      <3>2. RowAt(u) = RowAt(v)
        BY <3>1
      <3> QED BY <1>6, <2>1, <2>2, <3>2
    <2> QED BY <2>3
  <1> QED BY <1>3, <1>4, <1>5, <1>6 DEF R, S

\* What each account has to share in units is shared among its rows wholly.
LEMMA RowSharesAddUp ==
    ASSUME BookTypes, NEW period, NEW key,
           NEW amount, \A a \in Books!Busy(period) : \E q \in Int : amount[a] = Unit * q
    PROVE  LET R == Books!Rows(period, key)
               shared == [r \in R |-> Books!Share(amount[Books!AccountOf(r)], r, Siblings(r, R))]
           IN  /\ \A r \in R : shared[r] \in Int
               /\ Sum(shared, R) = Sum(amount, Books!Busy(period))
  <1> DEFINE R == Books!Rows(period, key)
             S == Books!Shown(period)
             B == Books!Busy(period)
             shared == [r \in R |-> Books!Share(amount[Books!AccountOf(r)], r, Siblings(r, R))]
             accountOf == [r \in R |-> Books!AccountOf(r)]
             Mine(a) == Of(R, accountOf, a)
  <1>1. /\ IsFiniteSet(R) /\ UNION R = S
        /\ \A r \in R : /\ r \in SUBSET S /\ r \subseteq Uses /\ r # {}
                        /\ Books!AccountOf(r) \in B
                        /\ \A u \in r : u.account = Books!AccountOf(r)
        /\ \A r \in R, s \in R : r # s => r \cap s = {}
    BY RowsAre
  <1>2. /\ S \in SUBSET Uses /\ IsFiniteSet(B)
        /\ \A u \in S : u.account \in B
        /\ \A a \in B : \E u \in S : u.account = a
    BY ShownFacts DEF Books!Busy
  <1>3. Unit \in Nat \ {0}
    BY BookData
  <1> HIDE DEF S, B, R
  <1>4. ASSUME NEW a \in B
        PROVE  /\ \A r \in Mine(a) : shared[r] \in Int
               /\ Sum(shared, Mine(a)) = amount[a]
    <2> DEFINE M == Mine(a)
    <2>1. IsFiniteSet(M) /\ M \subseteq R
      <3>1. M \subseteq R
        BY DEF Of
      <3> QED BY <1>1, <3>1, FS_Subset
    <2>2. M # {} /\ UNION M \in (SUBSET Uses) \ {{}}
      <3>1. PICK u \in S : u.account = a
        BY <1>2
      <3>2. PICK r \in R : u \in r
        BY <1>1
      <3>3. r \in M
        BY <1>1, <3>1, <3>2 DEF Of
      <3> QED BY <1>1, <3>2, <3>3 DEF Of
    <2>3. PICK n \in Nat : Unit = n * Books!Divisor(UNION M)
      <3> HIDE DEF M
      <3> QED BY <2>2, UnitDivides
    <2>4. Books!Divisor(UNION M) \in Nat \ {0}
      <3> HIDE DEF M
      <3> QED BY <2>2, UnitDivides
    <2>5. PICK q \in Int : amount[a] = Unit * q
      BY DEF B
    <2> DEFINE m == n * q
               n0 == Books!Divisor(UNION M)
               z == amount[a]
    <2>6. m \in Int /\ z = m * n0
      <3>1. m \in Int
        OBVIOUS
      <3>2. Unit = n * n0 /\ z = Unit * q /\ n0 \in Nat
        BY <2>3, <2>4, <2>5
      <3> HIDE DEF n0, z
      <3> QED BY <3>1, <3>2
    <2> HIDE DEF M, m, z
    <2>7. Apart(M)
      BY <1>1, <2>1, <2>2 DEF Apart
    <2>8. /\ \A r \in M : Part(r, M) \in Nat /\ Books!Share(z, r, M) = m * Part(r, M)
          /\ Sum(Shares(z, M), M) = z
      BY <2>6, <2>7, SharesAddUp
    <2> DEFINE f == Shares(z, M)
    <2>9. ASSUME NEW r \in M PROVE shared[r] = f[r] /\ shared[r] \in Int
      <3>1. r \in R /\ Books!AccountOf(r) = a
        BY <2>1 DEF M, Of
      <3>2. Siblings(r, R) = M
        BY <3>1 DEF Siblings, M, Of
      <3>3. shared[r] = Books!Share(z, r, M)
        BY <3>1, <3>2 DEF z
      <3>5. f[r] = Books!Share(z, r, M)
        BY DEF Shares
      <3>4. Part(r, M) \in Nat /\ Books!Share(z, r, M) = m * Part(r, M)
        BY <2>8
      <3> QED BY <2>6, <3>3, <3>4, <3>5
    <2>10. Sum(f, M) = z
      BY <2>8
    <2>11. Sum(shared, M) = Sum(f, M)
      <3> HIDE DEF f, shared
      <3> QED BY <2>1, <2>9, SumSame
    <2> HIDE DEF f, shared
    <2> QED BY <2>9, <2>10, <2>11 DEF M, z
  <1>5. \A r \in R : shared[r] \in Int
    <2> SUFFICES ASSUME NEW r \in R PROVE shared[r] \in Int
      OBVIOUS
    <2>1. Books!AccountOf(r) \in B /\ r \in Mine(Books!AccountOf(r))
      BY <1>1 DEF Of
    <2> HIDE DEF shared, Mine
    <2> QED BY <1>4, <2>1
  <1> DEFINE v == [a \in B |-> Sum(shared, Mine(a))]
  <1>6. Sum(v, B) = Sum(shared, R)
    <2>1. \A r \in R : accountOf[r] \in B
      BY <1>1
    <2> HIDE DEF shared, accountOf
    <2> QED BY <1>1, <1>2, <1>5, <2>1, SumByKey
  <1>7. Sum(v, B) = Sum(amount, B)
    <2>1. \A a \in B : v[a] = amount[a]
      BY <1>4
    <2> HIDE DEF v
    <2> QED BY <1>2, <2>1, SumSame
  <1> HIDE DEF shared, v
  <1> QED BY <1>5, <1>6, <1>7 DEF shared, R, B

\* What the accounts with traffic bear of what their sites cost.
OpTotals(period) == [a \in Owned |-> Books!OpCostOf(a, period)]
IdleSites(period) == {q \in exists : Books!BusyOf(q, period) = {}}

\* What a site cost is shared by its accounts with traffic, in units.
LEMMA SiteShares ==
    ASSUME BookInv, NEW period, NEW p \in exists, Books!BusyOf(p, period) # {}
    PROVE  /\ \A a \in Books!BusyOf(p, period) : \E q \in Int : OpTotals(period)[a] = Unit * q
           /\ Sum(OpTotals(period), Books!BusyOf(p, period)) = SiteCost(period)[p]
  <1> DEFINE S == Books!Shown(period)
             A == Books!BusyOf(p, period)
             z == Books!SumByProvider(p, period)
             rowOf == [a \in Owned |-> Books!RowOf(a, period)]
             R == {rowOf[a] : a \in A}
             w == OpTotals(period)
  <1>0. BookTypes /\ p # 0 /\ Unit \in Nat \ {0}
    BY BookData DEF BookInv, BookTypes
  <1>1. /\ A \in SUBSET Owned /\ IsFiniteSet(A)
        /\ \A a \in A : links[a] = p /\ a \in Books!Busy(period)
    <2>1. A \subseteq Books!Busy(period) /\ \A a \in A : links[a] = p
      BY DEF Books!BusyOf
    <2>2. Books!Busy(period) \in SUBSET Owned /\ IsFiniteSet(Books!Busy(period))
      BY <1>0, ShownFacts
    <2> QED BY <2>1, <2>2, FS_Subset
  <1>2. \A a \in A : /\ rowOf[a] \in SUBSET Uses /\ rowOf[a] # {}
                     /\ \A u \in rowOf[a] : u.account = a
    <2>1. S \in SUBSET Uses
      BY <1>0, ShownFacts
    <2> QED BY <1>1, <2>1 DEF Books!Busy, Books!RowOf
  <1>3. R = {Books!RowOf(b, period) : b \in A}
    BY <1>1
  <1> HIDE DEF A, rowOf
  <1>4. Apart(R)
    <2>1. IsFiniteSet(R)
      BY <1>1, ImageIsFinite
    <2>2. R # {}
      BY DEF A
    <2> QED BY <1>2, <2>1, <2>2 DEF Apart
  <1>5. UNION R \in SUBSET Uses /\ UNION R # {}
    BY <1>2 DEF A
  <1>6. PICK n \in Nat : Unit = n * Books!Divisor(UNION R)
    <2> HIDE DEF R
    <2> QED BY <1>5, UnitDivides
  <1>7. Books!Divisor(UNION R) \in Nat \ {0}
    <2> HIDE DEF R
    <2> QED BY <1>5, UnitDivides
  <1>8. PICK q \in Int : z = (Unit * Unit) * q
    <2>1. {s \in spend : s.provider = p /\ s.day \in period} \in SUBSET Spends
      BY DEF BookInv, BookTypes
    <2> QED BY <1>0, <2>1, InUnits DEF Books!SumByProvider
  <1> DEFINE m == Unit * (n * q)
             n0 == Books!Divisor(UNION R)
  <1>9. n * q \in Int /\ m \in Int /\ z = m * n0
    <2>1. n * q \in Int /\ m \in Int
      BY <1>0
    <2>2. Unit = n * n0 /\ n0 \in Nat /\ z = (Unit * Unit) * q
      BY <1>6, <1>7, <1>8
    <2> HIDE DEF n0, z
    <2>3. (Unit * Unit) * q = (Unit * (n * n0)) * q
      BY <2>2
    <2>4. (Unit * (n * n0)) * q = (Unit * (n * q)) * n0
      BY <1>0, <2>2
    <2> QED BY <2>1, <2>2, <2>3, <2>4
  <1> HIDE DEF R, m, z
  <1>10. /\ \A r \in R : Part(r, R) \in Nat /\ Books!Share(z, r, R) = m * Part(r, R)
         /\ Sum(Shares(z, R), R) = z
    BY <1>4, <1>9, SharesAddUp
  <1> DEFINE f == Shares(z, R)
  <1>11. ASSUME NEW a \in A
         PROVE  /\ w[a] = f[rowOf[a]] /\ w[a] \in Int
                /\ \E k \in Int : w[a] = Unit * k
    <2>1. rowOf[a] \in R /\ rowOf[a] = Books!RowOf(a, period)
      BY <1>1 DEF R, rowOf
    <2>2. w[a] = Books!OpCostOf(a, period) /\ links[a] = p
      BY <1>1 DEF OpTotals
    <2>3. Books!OpCostOf(a, period) = Books!Share(z, rowOf[a], R)
      BY <1>0, <1>3, <2>1, <2>2 DEF Books!OpCostOf, z, A
    <2>4. f[rowOf[a]] = Books!Share(z, rowOf[a], R)
      BY <2>1 DEF Shares
    <2> DEFINE k == Part(rowOf[a], R)
    <2>5. k \in Nat /\ Books!Share(z, rowOf[a], R) = m * k
      BY <1>10, <2>1
    <2> HIDE DEF k, f, w
    <2>6. w[a] = m * k /\ w[a] = f[rowOf[a]]
      BY <2>2, <2>3, <2>4, <2>5
    <2>7. m * k = Unit * ((n * q) * k) /\ (n * q) * k \in Int /\ m * k \in Int
      BY <1>0, <1>9, <2>5 DEF m
    <2> QED BY <2>6, <2>7
  <1>12. Sum(f, R) = Sum(w, A)
    <2>1. \A a \in A, b \in A : rowOf[a] = rowOf[b] => a = b
      <3> SUFFICES ASSUME NEW a \in A, NEW b \in A, rowOf[a] = rowOf[b] PROVE a = b
        OBVIOUS
      <3>1. PICK u \in rowOf[a] : TRUE
        BY <1>2
      <3>2. u.account = a /\ u.account = b
        BY <1>2
      <3> QED BY <3>2
    <2>2. \A a \in A : w[a] = f[rowOf[a]] /\ w[a] \in Int
      BY <1>11
    <2>3. R = {rowOf[a] : a \in A}
      BY DEF R
    <2> HIDE DEF f, w
    <2> QED BY <1>1, <2>1, <2>2, <2>3, SumRenames
  <1>13. Sum(w, A) = SiteCost(period)[p]
    BY <1>10, <1>12 DEF SiteCost, z
  <1> HIDE DEF w
  <1> QED BY <1>11, <1>13 DEF A, w

\* What they bear together, and what sites without traffic cost.
LEMMA OpAddsUp ==
    ASSUME BookInv, NEW period
    PROVE  /\ \A a \in Books!Busy(period) : \E q \in Int : OpTotals(period)[a] = Unit * q
           /\ Sum(OpTotals(period), Books!Busy(period)) \in Int
           /\ Books!Leftover(period) \in Nat
           /\ Sum(OpTotals(period), Books!Busy(period)) + Books!Leftover(period)
                  = Books!Amount(SpendOn(period))
  <1> DEFINE B == Books!Busy(period)
             K == exists \cup {0}
             I == IdleSites(period)
             D == K \ I
             w == OpTotals(period)
             z == SiteCost(period)
  <1>0. BookTypes /\ 0 \notin exists /\ Unit \in Nat \ {0}
    BY BookData DEF BookInv, BookTypes
  <1>1. /\ B \in SUBSET Owned /\ IsFiniteSet(B) /\ \A a \in B : links[a] \in K
        /\ IsFiniteSet(K)
    BY <1>0, ShownFacts
  <1>2. IsFiniteSet(I) /\ IsFiniteSet(D) /\ I \subseteq exists /\ 0 \notin I
    BY <1>0, <1>1, FS_Subset DEF IdleSites
  <1>3. \A a \in B : links[a] \in D
    <2> SUFFICES ASSUME NEW a \in B PROVE links[a] \notin I
      BY <1>1
    <2>1. a \in Books!BusyOf(links[a], period)
      BY DEF Books!BusyOf
    <2> QED BY <2>1 DEF IdleSites
  <1>4. ASSUME NEW a \in B, links[a] = 0 PROVE w[a] = 0
    BY <1>1, <1>4 DEF OpTotals, Books!OpCostOf
  <1>5. ASSUME NEW a \in B PROVE \E q \in Int : w[a] = Unit * q
    <2>1. CASE links[a] = 0
      <3>1. w[a] = Unit * 0
        BY <1>0, <1>4, <2>1
      <3> QED BY <3>1
    <2>2. CASE links[a] # 0
      <3> DEFINE p == links[a]
      <3>1. p \in exists /\ a \in Books!BusyOf(p, period)
        BY <1>1, <2>2 DEF Books!BusyOf
      <3>2. Books!BusyOf(p, period) # {}
        BY <3>1
      <3> HIDE DEF p
      <3> QED BY <3>1, <3>2, SiteShares
    <2> QED BY <2>1, <2>2
  <1>6. \A a \in B : w[a] \in Int
    <2> SUFFICES ASSUME NEW a \in B PROVE w[a] \in Int
      OBVIOUS
    <2>1. PICK q \in Int : w[a] = Unit * q
      BY <1>5
    <2> HIDE DEF w
    <2> QED BY <1>0, <2>1
  <1>7. /\ \A p \in K : z[p] \in Nat
        /\ z[0] = 0 /\ Sum(z, K) = Books!Amount(SpendOn(period))
    <2>1. K \in SUBSET (exists \cup {0}) /\ \A p \in exists \ K : Books!SumByProvider(p, period) = 0
      OBVIOUS
    <2> HIDE DEF K
    <2> QED BY <2>1, SitesAddUp DEF K
  <1> DEFINE v == [p \in D |-> Sum(w, Of(B, links, p))]
  <1>8. Sum(v, D) = Sum(w, B)
    <2> HIDE DEF w, B, D
    <2> QED BY <1>1, <1>2, <1>3, <1>6, SumByKey
  <1>9. ASSUME NEW p \in D PROVE v[p] = z[p]
    <2>1. Of(B, links, p) = Books!BusyOf(p, period)
      BY DEF Of, Books!BusyOf
    <2>2. CASE p = 0
      <3> DEFINE A == Of(B, links, p)
      <3>1. IsFiniteSet(A) /\ \A a \in A : w[a] = 0
        BY <1>1, <1>4, <2>2, FS_Subset DEF Of
      <3> HIDE DEF A, w
      <3>2. Sum(w, A) = 0
        BY <3>1, SumOfNaturals
      <3> QED BY <1>7, <2>2, <3>2 DEF A
    <2>3. CASE p # 0
      <3>1. p \in exists /\ Books!BusyOf(p, period) # {}
        BY <2>3 DEF IdleSites
      <3>2. Sum(w, Books!BusyOf(p, period)) = z[p]
        BY <3>1, SiteShares
      <3> QED BY <2>1, <3>2
    <2> QED BY <2>2, <2>3
  <1>10. Sum(v, D) = Sum(z, D)
    <2> HIDE DEF v, z, D
    <2> QED BY <1>2, <1>9, SumSame
  <1>11. Sum(z, K) = Sum(z, D) + Sum(z, I)
    <2>1. D \cup I = K /\ D \cap I = {}
      BY <1>2
    <2> HIDE DEF D, I, K, z
    <2>2. \A p \in D \cup I : z[p] \in Int
      BY <1>7, <2>1
    <2>3. Sum(z, D \cup I) = Sum(z, D) + Sum(z, I)
      BY <1>2, <2>1, <2>2, SumJoins
    <2> QED BY <2>1, <2>3
  <1>12. Books!Leftover(period) = Sum(z, I)
    <2> DEFINE f == [p \in I |-> Books!SumByProvider(p, period)]
    <2>1. DOMAIN f = I /\ \A p \in I : f[p] = z[p]
      BY <1>2 DEF SiteCost
    <2>2. Books!Leftover(period) = Books!SumFunction(f)
      BY DEF Books!Leftover, IdleSites
    <2> HIDE DEF f, z, I
    <2> QED BY <1>2, <2>1, <2>2, BookSumOf
  <1>13. Sum(z, I) \in Nat
    <2>1. \A p \in I : z[p] \in Nat
      BY <1>2, <1>7
    <2> HIDE DEF z, I
    <2> QED BY <1>2, <2>1, SumOfNaturals
  <1>14. Sum(w, B) \in Int
    <2> HIDE DEF w, B
    <2> QED BY <1>1, <1>6, SumIsNumber
  <1>15. \A a \in B : \E q \in Int : w[a] = Unit * q
    BY <1>5
  <1> HIDE DEF v, z, w, B, D, I, K
  <1>16. Sum(w, B) + Books!Leftover(period) = Books!Amount(SpendOn(period))
    BY <1>7, <1>8, <1>10, <1>11, <1>12, <1>13, <1>14
  <1> QED BY <1>12, <1>13, <1>14, <1>15, <1>16 DEF w, B

\* The buckets of a view that splits, and their columns, add up to what the providers do but
\* for what sites without traffic cost.
LEMMA SplitAddsUp ==
    ASSUME BookInv, NEW period, NEW key, NEW of, \A u \in Uses : key[u][1] = of[u] /\ of[u] \in Nat
    PROVE  \E D, requests, revenue, cost, op, missing :
              /\ D = DOMAIN Books!Split(period, key) /\ IsFiniteSet(D) /\ D \subseteq Nat
              /\ HasColumns(Books!Split(period, key), D, requests, revenue, cost, op, missing)
              /\ Sum(requests, D) = Books!Cardinality(Books!Shown(period))
              /\ Sum(revenue, D) = Books!Revenue(Books!Shown(period))
              /\ Sum(cost, D) = Books!ActualCost(CostsOfBusy(period))
              /\ Sum(op, D) = Sum(OpTotals(period), Books!Busy(period))
              /\ NoneMissing(missing, D) = AllKnown(Books!Busy(period), period)
  <1> DEFINE view == Books!Split(period, key)
             R == Books!Rows(period, key)
             S == Books!Shown(period)
             B == Books!Busy(period)
             bucketOf == [r \in R |-> Books!BucketOf(r, key)]
             In(b) == Of(R, bucketOf, b)
             D == {Books!BucketOf(r, key) : r \in R}
             costShare == [r \in R |-> Books!Share(CostOf(period)[Books!AccountOf(r)], r,
                                                   Siblings(r, R))]
             opShare == [r \in R |-> Books!Share(OpTotals(period)[Books!AccountOf(r)], r,
                                                 Siblings(r, R))]
             accounts(b) == {Books!AccountOf(r) : r \in In(b)}
             requests == [b \in D |-> Books!Cardinality(Of(S, of, b))]
             revenue == [b \in D |-> Books!Revenue(Of(S, of, b))]
             cost == [b \in D |-> Sum(costShare, In(b))]
             op == [b \in D |-> Sum(opShare, In(b))]
             missing == [b \in D |-> Books!Missing(accounts(b), period)]
  <1>0. BookTypes
    BY DEF BookInv
  <1>1. /\ IsFiniteSet(R) /\ UNION R = S
        /\ \A r \in R : /\ r \in SUBSET S /\ r \subseteq Uses /\ r # {}
                        /\ Books!AccountOf(r) \in B
                        /\ \A u \in r : /\ u.account = Books!AccountOf(r)
                                        /\ key[u][1] = Books!BucketOf(r, key)
    BY <1>0, RowsAre
  <1>2. S \in SUBSET Uses /\ B \in SUBSET Owned /\ IsFiniteSet(B) /\ B = {u.account : u \in S}
    BY <1>0, ShownFacts DEF Books!Busy
  <1>3. IsFiniteSet(D) /\ D \subseteq Nat /\ \A r \in R : bucketOf[r] \in D
    <2>1. D = {bucketOf[r] : r \in R}
      OBVIOUS
    <2>2. IsFiniteSet(D)
      <3> HIDE DEF bucketOf, D
      <3> QED BY <1>1, <2>1, ImageIsFinite
    <2>3. ASSUME NEW r \in R PROVE Books!BucketOf(r, key) \in Nat
      <3>1. PICK u \in r : TRUE
        BY <1>1
      <3>2. u \in Uses /\ key[u][1] = Books!BucketOf(r, key)
        BY <1>1
      <3> QED BY <3>2
    <2> QED BY <2>2, <2>3
  <1>4. ASSUME NEW b \in D PROVE UNION In(b) = Of(S, of, b)
    <2>1. ASSUME NEW u \in S PROVE u \in UNION In(b) <=> of[u] = b
      <3>1. key[u][1] = of[u]
        BY <1>2
      <3>2. \A r \in R : u \in r => Books!BucketOf(r, key) = of[u]
        BY <1>1, <3>1
      <3>3. PICK r \in R : u \in r
        BY <1>1
      <3> QED BY <3>2, <3>3 DEF Of
    <2>2. UNION In(b) \subseteq S
      BY <1>1 DEF Of
    <2> QED BY <2>1, <2>2 DEF Of
  <1>5. /\ \A r \in R : costShare[r] \in Int
        /\ Sum(costShare, R) = Books!ActualCost(CostsOfBusy(period))
    <2>1. ASSUME NEW a \in B PROVE \E q \in Int : CostOf(period)[a] = Unit * q
      <3>1. Books!CostsOf(a, period) \in SUBSET CostRows
        BY <1>0 DEF BookTypes, Books!CostsOf
      <3>2. CostOf(period)[a] = Books!ActualCost(Books!CostsOf(a, period))
        BY <1>2 DEF CostOf
      <3> QED BY <1>0, <3>1, <3>2, InUnits
    <2>2. Sum(CostOf(period), B) = Books!ActualCost(CostsOfBusy(period))
      <3> HIDE DEF B
      <3>1. Sum(CostOf(period), B) = Books!ActualCost(CostsAt(B, period))
        BY <1>0, <1>2, AccountsAddUp
      <3> QED BY <3>1 DEF B, CostsOfBusy
    <2> DEFINE amount == CostOf(period)
    <2>3. \A a \in Books!Busy(period) : \E q \in Int : amount[a] = Unit * q
      BY <2>1
    <2> HIDE DEF amount
    <2>4. LET shared == [r \in R |-> Books!Share(amount[Books!AccountOf(r)], r, Siblings(r, R))]
          IN  /\ \A r \in R : shared[r] \in Int
              /\ Sum(shared, R) = Sum(amount, Books!Busy(period))
      BY <1>0, <2>3, RowSharesAddUp
    <2> QED BY <2>2, <2>4 DEF amount
  <1>6. /\ \A r \in R : opShare[r] \in Int
        /\ Sum(opShare, R) = Sum(OpTotals(period), B)
    <2> DEFINE amount == OpTotals(period)
    <2>1. \A a \in Books!Busy(period) : \E q \in Int : amount[a] = Unit * q
      BY OpAddsUp
    <2> HIDE DEF amount
    <2>2. LET shared == [r \in R |-> Books!Share(amount[Books!AccountOf(r)], r, Siblings(r, R))]
          IN  /\ \A r \in R : shared[r] \in Int
              /\ Sum(shared, R) = Sum(amount, Books!Busy(period))
      BY <1>0, <2>1, RowSharesAddUp
    <2> QED BY <2>2 DEF amount
  <1>7. ASSUME NEW b PROVE accounts(b) \in SUBSET Owned
    <2>1. In(b) \subseteq R
      BY DEF Of
    <2>2. \A r \in R : Books!AccountOf(r) \in Owned
      BY <1>1, <1>2
    <2> HIDE DEF In, R
    <2> QED BY <2>1, <2>2
  <1>8. DOMAIN view = D
    BY DEF Books!Split
  <1> HIDE DEF costShare, opShare
  <1>9. ASSUME NEW b \in D
        PROVE  /\ view[b] = Column(requests, revenue, cost, op, missing, b)
               /\ requests[b] \in Int /\ revenue[b] \in Int /\ cost[b] \in Int
               /\ op[b] \in Int /\ missing[b] \in Nat
    <2> DEFINE I == In(b)
               f == [r \in I |->
                        Books!Share(Books!ActualCost(Books!CostsOf(Books!AccountOf(r), period)),
                                    r, Siblings(r, R))]
               g == [r \in I |-> Books!Share(Books!OpCostOf(Books!AccountOf(r), period),
                                             r, Siblings(r, R))]
    <2>1. I \subseteq R /\ IsFiniteSet(I) /\ I = {r \in R : Books!BucketOf(r, key) = b}
      <3>1. I = {r \in R : Books!BucketOf(r, key) = b}
        BY DEF Of
      <3> QED BY <1>1, <3>1, FS_Subset
    <2>2. view[b] = Books!Bucket(UNION I, Books!SumFunction(f), Books!SumFunction(g),
                                 Books!Missing(accounts(b), period))
      <3>1. view[b] =
              LET J == {r \in R : Books!BucketOf(r, key) = b}
              IN  Books!Bucket(UNION J,
                    Books!SumFunction([r \in J |->
                       Books!Share(Books!ActualCost(Books!CostsOf(Books!AccountOf(r), period)), r,
                                   Siblings(r, R))]),
                    Books!SumFunction([r \in J |->
                       Books!Share(Books!OpCostOf(Books!AccountOf(r), period), r, Siblings(r, R))]),
                    Books!Missing({Books!AccountOf(r) : r \in J}, period))
        BY DEF Books!Split, Siblings
      <3> HIDE DEF view, R
      <3> QED BY <2>1, <3>1
    <2>3. Books!SumFunction(f) = Sum(costShare, I)
      <3>1. DOMAIN f = I
        OBVIOUS
      <3>2. ASSUME NEW r \in I PROVE f[r] = costShare[r]
        <4>1. Books!AccountOf(r) \in Owned /\ r \in R
          BY <1>1, <1>2, <2>1
        <4>2. CostOf(period)[Books!AccountOf(r)]
                  = Books!ActualCost(Books!CostsOf(Books!AccountOf(r), period))
          BY <4>1 DEF CostOf
        <4>3. costShare[r] = Books!Share(CostOf(period)[Books!AccountOf(r)], r, Siblings(r, R))
          BY <4>1 DEF costShare
        <4> HIDE DEF R
        <4> QED BY <4>2, <4>3
      <3> HIDE DEF f, I
      <3> QED BY <2>1, <3>1, <3>2, BookSumOf
    <2>4. Books!SumFunction(g) = Sum(opShare, I)
      <3>1. DOMAIN g = I
        OBVIOUS
      <3>2. ASSUME NEW r \in I PROVE g[r] = opShare[r]
        <4>1. Books!AccountOf(r) \in Owned /\ r \in R
          BY <1>1, <1>2, <2>1
        <4>2. OpTotals(period)[Books!AccountOf(r)] = Books!OpCostOf(Books!AccountOf(r), period)
          BY <4>1 DEF OpTotals
        <4>3. opShare[r] = Books!Share(OpTotals(period)[Books!AccountOf(r)], r, Siblings(r, R))
          BY <4>1 DEF opShare
        <4> HIDE DEF R
        <4> QED BY <4>2, <4>3
      <3> HIDE DEF g, I
      <3> QED BY <2>1, <3>1, <3>2, BookSumOf
    <2>5. view[b] = Column(requests, revenue, cost, op, missing, b)
      <3>1. UNION I = Of(S, of, b)
        BY <1>4
      <3>2. view[b] = Books!Bucket(Of(S, of, b), Sum(costShare, I), Sum(opShare, I),
                                   Books!Missing(accounts(b), period))
        BY <2>2, <2>3, <2>4, <3>1
      <3> HIDE DEF view, f, g, S, D, accounts
      <3> QED BY <3>2 DEF Books!Bucket, Column
    <2>6. requests[b] \in Int /\ revenue[b] \in Int
      <3>1. Of(S, of, b) \in SUBSET Uses
        BY <1>2 DEF Of
      <3>2. Books!Cardinality(Of(S, of, b)) \in Int /\ Books!Revenue(Of(S, of, b)) \in Int
        BY <3>1, RequestSums
      <3> QED BY <3>2
    <2>7. cost[b] \in Int /\ op[b] \in Int
      <3>1. \A r \in I : costShare[r] \in Int /\ opShare[r] \in Int
        BY <1>5, <1>6, <2>1
      <3> HIDE DEF I
      <3>2. Sum(costShare, I) \in Int /\ Sum(opShare, I) \in Int
        BY <2>1, <3>1, SumIsNumber
      <3> QED BY <3>2 DEF I
    <2>8. missing[b] \in Nat
      <3>1. accounts(b) \in SUBSET Owned
        BY <1>7
      <3> HIDE DEF accounts
      <3>2. Books!Missing(accounts(b), period) \in Nat
        BY <3>1, MissingCounts
      <3> QED BY <3>2
    <2> QED BY <2>5, <2>6, <2>7, <2>8
  <1>10. Sum(requests, D) = Books!Cardinality(S) /\ Sum(revenue, D) = Books!Revenue(S)
    <2>1. ASSUME NEW u \in S PROVE of[u] \in D
      <3>1. PICK r \in R : u \in r
        BY <1>1
      <3>2. of[u] = Books!BucketOf(r, key)
        BY <1>1, <1>2, <3>1
      <3> QED BY <3>2
    <2> HIDE DEF D, S
    <2> QED BY <1>2, <1>3, <2>1, BucketSums
  <1>11. Sum(cost, D) = Sum(costShare, R)
    <2> HIDE DEF D, R, bucketOf
    <2> QED BY <1>1, <1>3, <1>5, SumByKey
  <1>12. Sum(op, D) = Sum(opShare, R)
    <2> HIDE DEF D, R, bucketOf
    <2> QED BY <1>1, <1>3, <1>6, SumByKey
  <1>13. NoneMissing(missing, D) = AllKnown(B, period)
    <2>1. ASSUME NEW b \in D
          PROVE  missing[b] = 0 <=> \A a \in accounts(b) : Known0(a, period)
      <3>1. accounts(b) \in SUBSET Owned
        BY <1>7
      <3> HIDE DEF accounts
      <3> QED BY <3>1, MissingCounts
    <2>2. \A b \in D : accounts(b) \subseteq B
      BY <1>1 DEF Of
    <2>3. ASSUME NEW a \in B PROVE \E b \in D : a \in accounts(b)
      <3>1. PICK u \in S : a = u.account
        BY <1>2
      <3>2. PICK r \in R : u \in r
        BY <1>1
      <3>3. a = Books!AccountOf(r) /\ bucketOf[r] \in D /\ r \in In(bucketOf[r])
        BY <1>1, <1>3, <3>1, <3>2 DEF Of
      <3> HIDE DEF bucketOf, In
      <3> QED BY <3>3
    <2> HIDE DEF missing, D, B, accounts
    <2>4. NoneMissing(missing, D) <=> AllKnown(B, period)
      BY <2>1, <2>2, <2>3 DEF NoneMissing, AllKnown
    <2>5. NoneMissing(missing, D) \in BOOLEAN /\ AllKnown(B, period) \in BOOLEAN
      BY DEF NoneMissing, AllKnown
    <2> QED BY <2>4, <2>5
  <1>14. HasColumns(view, D, requests, revenue, cost, op, missing)
    <2> HIDE DEF view, D, requests, revenue, cost, op, missing
    <2> QED BY <1>9 DEF HasColumns
  <1> HIDE DEF requests, revenue, cost, op, missing, D
  <1>15. /\ D = DOMAIN Books!Split(period, key) /\ IsFiniteSet(D) /\ D \subseteq Nat
         /\ HasColumns(Books!Split(period, key), D, requests, revenue, cost, op, missing)
         /\ Sum(requests, D) = Books!Cardinality(Books!Shown(period))
         /\ Sum(revenue, D) = Books!Revenue(Books!Shown(period))
         /\ Sum(cost, D) = Books!ActualCost(CostsOfBusy(period))
         /\ Sum(op, D) = Sum(OpTotals(period), Books!Busy(period))
         /\ NoneMissing(missing, D) = AllKnown(Books!Busy(period), period)
    BY <1>3, <1>5, <1>6, <1>8, <1>10, <1>11, <1>12, <1>13, <1>14
  <1> QED BY <1>15

\* What sites without traffic cost has a bucket of its own in such a view.
LEMMA IdleAdds ==
    ASSUME BookInv, NEW period,
           NEW view, NEW D, D = DOMAIN view, IsFiniteSet(D), D \subseteq Nat,
           NEW requests, NEW revenue, NEW cost, NEW op, NEW missing,
           HasColumns(view, D, requests, revenue, cost, op, missing)
    PROVE  Books!Total(Books!WithIdle(view, period)) =
               Summary(Sum(requests, D), Sum(revenue, D), Sum(cost, D),
                       Sum(op, D) + Books!Leftover(period), NoneMissing(missing, D))
  <1> DEFINE rest == Books!Leftover(period)
             T == D \cup {Books!Idle}
             x == Books!Idle
             wide == Books!WithIdle(view, period)
             requests2 == [b \in T |-> IF b = x THEN 0 ELSE requests[b]]
             revenue2 == [b \in T |-> IF b = x THEN 0 ELSE revenue[b]]
             cost2 == [b \in T |-> IF b = x THEN 0 ELSE cost[b]]
             op2 == [b \in T |-> IF b = x THEN rest ELSE op[b]]
             missing2 == [b \in T |-> IF b = x THEN 0 ELSE missing[b]]
  <1>1. rest \in Nat
    BY OpAddsUp
  <1>2. \A b \in D : /\ view[b] = Column(requests, revenue, cost, op, missing, b)
                     /\ requests[b] \in Int /\ revenue[b] \in Int /\ cost[b] \in Int
                     /\ op[b] \in Int /\ missing[b] \in Nat
    BY DEF HasColumns
  <1>3. /\ Sum(requests, D) \in Int /\ Sum(revenue, D) \in Int /\ Sum(cost, D) \in Int
        /\ Sum(op, D) \in Int
    BY <1>2, SumIsNumber
  <1>4. CASE rest = 0
    <2>1. wide = view
      BY <1>4 DEF Books!WithIdle
    <2>2. Books!Total(view) = Summary(Sum(requests, D), Sum(revenue, D), Sum(cost, D),
                                      Sum(op, D), NoneMissing(missing, D))
      BY TotalOf
    <2>3. Sum(op, D) + rest = Sum(op, D)
      BY <1>3, <1>4
    <2> QED BY <2>1, <2>2, <2>3
  <1>5. CASE rest # 0
    <2>1. wide = [b \in T |-> IF b = x THEN Books!Bucket({}, 0, rest, 0) ELSE view[b]]
      BY <1>5 DEF Books!WithIdle
    <2>2. x \notin D /\ IsFiniteSet(T) /\ DOMAIN wide = T
      BY <2>1, FS_AddElement DEF Books!Idle
    <2>3. Books!Cardinality({}) = 0 /\ Books!Revenue({}) = 0
      <3>1. {} \in SUBSET Uses
        OBVIOUS
      <3>2. /\ Books!Cardinality({}) = Sum(Ones(Uses), {}) /\ Books!Revenue({}) = Sum(Revenues, {})
        BY <3>1, RequestSums
      <3> QED BY <3>2, SumOfNone
    <2> HIDE DEF wide, x, rest
    <2>4. ASSUME NEW b \in T
          PROVE  /\ wide[b] = Column(requests2, revenue2, cost2, op2, missing2, b)
                 /\ requests2[b] \in Int /\ revenue2[b] \in Int /\ cost2[b] \in Int
                 /\ op2[b] \in Int /\ missing2[b] \in Nat
      <3>1. CASE b = x
        <4>1. wide[b] = Books!Bucket({}, 0, rest, 0)
          BY <2>1, <3>1
        <4>2. /\ requests2[b] = 0 /\ revenue2[b] = 0 /\ cost2[b] = 0 /\ op2[b] = rest
              /\ missing2[b] = 0
          BY <3>1
        <4> HIDE DEF requests2, revenue2, cost2, op2, missing2
        <4> QED BY <1>1, <2>3, <4>1, <4>2 DEF Books!Bucket, Column
      <3>2. CASE b # x
        <4>1. b \in D
          BY <3>2 DEF x
        <4>2. wide[b] = view[b]
          BY <2>1, <3>2
        <4>3. /\ requests2[b] = requests[b] /\ revenue2[b] = revenue[b] /\ cost2[b] = cost[b]
              /\ op2[b] = op[b] /\ missing2[b] = missing[b]
          BY <3>2
        <4> HIDE DEF requests2, revenue2, cost2, op2, missing2
        <4> QED BY <1>2, <4>1, <4>2, <4>3 DEF Column
      <3> QED BY <3>1, <3>2
    <2>5. T = D \cup {x}
      BY DEF x
    <2>6. /\ requests2[x] = 0 /\ revenue2[x] = 0 /\ cost2[x] = 0 /\ op2[x] = rest
          /\ missing2[x] = 0
      BY <2>5
    <2>7. \A b \in D : /\ requests2[b] = requests[b] /\ revenue2[b] = revenue[b]
                       /\ cost2[b] = cost[b] /\ op2[b] = op[b] /\ missing2[b] = missing[b]
      BY <2>2
    <2> HIDE DEF requests2, revenue2, cost2, op2, missing2, T
    <2>8. HasColumns(wide, T, requests2, revenue2, cost2, op2, missing2)
      BY <2>4 DEF HasColumns
    <2>9. Books!Total(wide) = Summary(Sum(requests2, T), Sum(revenue2, T), Sum(cost2, T),
                                      Sum(op2, T), NoneMissing(missing2, T))
      BY <2>2, <2>8, TotalOf
    <2>10. Sum(requests2, T) = 0 + Sum(requests, D)
      <3>1. requests2[x] \in Int /\ \A b \in D : requests2[b] = requests[b] /\ requests[b] \in Int
        BY <1>2, <2>6, <2>7
      <3>2. Sum(requests2, T) = requests2[x] + Sum(requests, D)
        BY ONLY <2>2, <2>5, <3>1, IsFiniteSet(D), SumExtends
      <3> QED BY <2>6, <3>2
    <2>11. Sum(revenue2, T) = 0 + Sum(revenue, D)
      <3>1. revenue2[x] \in Int /\ \A b \in D : revenue2[b] = revenue[b] /\ revenue[b] \in Int
        BY <1>2, <2>6, <2>7
      <3>2. Sum(revenue2, T) = revenue2[x] + Sum(revenue, D)
        BY ONLY <2>2, <2>5, <3>1, IsFiniteSet(D), SumExtends
      <3> QED BY <2>6, <3>2
    <2>12. Sum(cost2, T) = 0 + Sum(cost, D)
      <3>1. cost2[x] \in Int /\ \A b \in D : cost2[b] = cost[b] /\ cost[b] \in Int
        BY <1>2, <2>6, <2>7
      <3>2. Sum(cost2, T) = cost2[x] + Sum(cost, D)
        BY ONLY <2>2, <2>5, <3>1, IsFiniteSet(D), SumExtends
      <3> QED BY <2>6, <3>2
    <2>13. Sum(op2, T) = rest + Sum(op, D)
      <3>1. op2[x] \in Int /\ \A b \in D : op2[b] = op[b] /\ op[b] \in Int
        BY <1>1, <1>2, <2>6, <2>7
      <3>2. Sum(op2, T) = op2[x] + Sum(op, D)
        BY ONLY <2>2, <2>5, <3>1, IsFiniteSet(D), SumExtends
      <3> QED BY <2>6, <3>2
    <2>14. NoneMissing(missing2, T) = NoneMissing(missing, D)
      <3>1. NoneMissing(missing2, T) <=> NoneMissing(missing, D)
        BY <2>5, <2>6, <2>7 DEF NoneMissing
      <3>2. NoneMissing(missing2, T) \in BOOLEAN /\ NoneMissing(missing, D) \in BOOLEAN
        BY DEF NoneMissing
      <3> QED BY <3>1, <3>2
    <2>15. /\ 0 + Sum(requests, D) = Sum(requests, D) /\ 0 + Sum(revenue, D) = Sum(revenue, D)
           /\ 0 + Sum(cost, D) = Sum(cost, D) /\ rest + Sum(op, D) = Sum(op, D) + rest
      BY <1>1, <1>3
    <2> QED BY <2>9, <2>10, <2>11, <2>12, <2>13, <2>14, <2>15 DEF wide, rest
  <1> QED BY <1>4, <1>5

\* So a view that splits adds up to what the providers do.
LEMMA SplitsAgree ==
    ASSUME BookInv, NEW period, NEW key, NEW of, \A u \in Uses : key[u][1] = of[u] /\ of[u] \in Nat
    PROVE  Books!Total(Books!WithIdle(Books!Split(period, key), period)) = Grand(period)
  <1> DEFINE view == Books!Split(period, key)
  <1>1. PICK D, requests, revenue, cost, op, missing :
              /\ D = DOMAIN view /\ IsFiniteSet(D) /\ D \subseteq Nat
              /\ HasColumns(view, D, requests, revenue, cost, op, missing)
              /\ Sum(requests, D) = Books!Cardinality(Books!Shown(period))
              /\ Sum(revenue, D) = Books!Revenue(Books!Shown(period))
              /\ Sum(cost, D) = Books!ActualCost(CostsOfBusy(period))
              /\ Sum(op, D) = Sum(OpTotals(period), Books!Busy(period))
              /\ NoneMissing(missing, D) = AllKnown(Books!Busy(period), period)
    BY SplitAddsUp
  <1> HIDE DEF view
  <1>2. Books!Total(Books!WithIdle(view, period)) =
               Summary(Sum(requests, D), Sum(revenue, D), Sum(cost, D),
                       Sum(op, D) + Books!Leftover(period), NoneMissing(missing, D))
    BY <1>1, IdleAdds
  <1>3. Sum(op, D) + Books!Leftover(period) = Books!Amount(SpendOn(period))
    BY <1>1, OpAddsUp
  <1>4. Books!Total(Books!WithIdle(view, period)) = Grand(period)
    BY <1>1, <1>2, <1>3 DEF Grand
  <1> QED BY <1>4 DEF view

\* The views by group and by user agree with the providers, and so does the dashboard's
\* revenue of the groups unless their query fails.
LEMMA ViewsAddUp ==
    ASSUME BookInv, NEW period
    PROVE  Books!ViewsAgree(period, Grand(period))
  <1>1. Books!Total(Books!ByGroup(period)) = Grand(period)
    <2> DEFINE of == [u \in Uses |-> u.group]
    <2>1. \A u \in Uses : Books!ByGroupAccount[u][1] = of[u] /\ of[u] \in Nat
      BY BookData DEF Books!ByGroupAccount
    <2> HIDE DEF of
    <2> QED BY <2>1, SplitsAgree DEF Books!ByGroup
  <1>2. Books!Total(Books!ByUser(period)) = Grand(period)
    <2> DEFINE of == [u \in Uses |-> u.user]
    <2>1. \A u \in Uses : Books!ByUserGroupAccount[u][1] = of[u] /\ of[u] \in Nat
      BY BookData DEF Books!ByUserGroupAccount
    <2> HIDE DEF of
    <2> QED BY <2>1, SplitsAgree DEF Books!ByUser
  <1>3. Books!GroupTotal(period) \in {0, Grand(period).revenue}
    BY <1>1 DEF Books!GroupTotal
  <1> QED BY <1>1, <1>2, <1>3 DEF Books!ViewsAgree

(***************************************************************************)
(* ProfitViews: the trend, and the pages of a site                         *)
(***************************************************************************)
\* A period is some of finitely many days.
LEMMA PeriodsAre ==
    ASSUME NEW period \in Books!Periods
    PROVE  IsFiniteSet(period)
  <1> DEFINE dayOf == [x \in Uses \cup CostRows \cup Spends |-> x.day]
             DU == {dayOf[x] : x \in Uses}
             DC == {dayOf[x] : x \in CostRows}
             DS == {dayOf[x] : x \in Spends}
  <1>1. IsFiniteSet(DU) /\ IsFiniteSet(DC) /\ IsFiniteSet(DS)
    <2> HIDE DEF dayOf
    <2> QED BY BookFinite, ImageIsFinite
  <1>2. Books!Days = (DU \cup DC) \cup DS
    <2>1. DU = {u.day : u \in Uses} /\ DC = {c.day : c \in CostRows} /\ DS = {s.day : s \in Spends}
      OBVIOUS
    <2> HIDE DEF DU, DC, DS
    <2> QED BY <2>1 DEF Books!Days
  <1> HIDE DEF DU, DC, DS
  <1>3. IsFiniteSet(DU \cup DC)
    BY <1>1, FS_Union
  <1>4. IsFiniteSet(Books!Days)
    BY <1>1, <1>2, <1>3, FS_Union
  <1>5. period \subseteq Books!Days
    BY DEF Books!Periods, Books!DayRange
  <1> QED BY <1>4, <1>5, FS_Subset

\* The days of the trend, and what they add up to.
LEMMA TrendAddsUp ==
    ASSUME BookInv, NEW period \in Books!Periods
    PROVE  LET D == DOMAIN Books!TrendRange(period)
               costs0 == {c \in Books!CostsOn(period) : c.day \in D}
               total == Books!Total(Books!TrendRange(period))
           IN  /\ total.requests = Books!Cardinality(Books!Shown(period))
               /\ total.revenue = Books!Revenue(Books!Shown(period))
               /\ total.cost = Books!ActualCost(costs0)
               /\ total.op = Books!Amount(SpendOn(period))
               /\ total.profit = total.revenue - total.cost - total.op
  <1> DEFINE view == Books!TrendRange(period)
             S == Books!Shown(period)
             E == SpendOn(period)
             traffic == {u.day : u \in S}
             paid == {e \in period : Books!SumByDay(e) # 0}
             D == traffic \cup paid
             C == {c \in Books!CostsOn(period) : c.day \in D}
             dayOf == [u \in Uses |-> u.day]
             chargedOn == [c \in CostRows |-> c.day]
             paidOn == [s \in Spends |-> s.day]
             requests == [d \in D |-> Books!Cardinality(Of(S, dayOf, d))]
             revenue == [d \in D |-> Books!Revenue(Of(S, dayOf, d))]
             cost == [d \in D |-> Sum(Charges, Of(C, chargedOn, d))]
             op == [d \in period |-> Sum(Amounts, Of(E, paidOn, d))]
             missing == [d \in D |-> IF Books!CostsOn({d}) = {} THEN 1 ELSE 0]
  <1>0. BookTypes
    BY DEF BookInv
  <1>1. /\ S \in SUBSET Uses /\ IsFiniteSet(S) /\ \A u \in S : u.day \in period
        /\ E \in SUBSET Spends /\ C \in SUBSET CostRows
        /\ \A s \in E : s.day \in period
    BY <1>0, ShownFacts DEF BookTypes, SpendOn, Books!CostsOn
  <1>2. IsFiniteSet(period)
    BY PeriodsAre
  <1>3. D \subseteq period
    BY <1>1
  <1>4. IsFiniteSet(D)
    BY <1>2, <1>3, FS_Subset
  <1>5. DOMAIN view = D
    BY DEF Books!TrendRange
  <1>6. IsFiniteSet(C) /\ (\A c \in C : Charges[c] \in Int) /\ Books!ActualCost(C) = Sum(Charges, C)
    <2> HIDE DEF C
    <2> QED BY <1>0, <1>1, ChargeSums
  <1>7. IsFiniteSet(E) /\ (\A s \in E : Amounts[s] \in Nat) /\ Books!Amount(E) = Sum(Amounts, E)
    <2> HIDE DEF E
    <2> QED BY <1>1, AmountSums
  <1>8. ASSUME NEW d \in period PROVE Books!SumByDay(d) = op[d] /\ op[d] \in Nat
    <2> DEFINE F == Of(E, paidOn, d)
    <2>1. {s \in spend : s.day = d} = F /\ F \in SUBSET Spends
      BY <1>0 DEF SpendOn, Of, BookTypes
    <2> HIDE DEF F
    <2>2. Books!Amount(F) = Sum(Amounts, F) /\ Books!Amount(F) \in Nat
      BY <2>1, AmountSums
    <2>3. op[d] = Sum(Amounts, F)
      BY DEF F
    <2> QED BY <2>1, <2>2, <2>3 DEF Books!SumByDay
  <1>9. ASSUME NEW d \in D
        PROVE  /\ view[d] = Column(requests, revenue, cost, op, missing, d)
               /\ requests[d] \in Int /\ revenue[d] \in Int /\ cost[d] \in Int
               /\ op[d] \in Int /\ missing[d] \in Nat
    <2> DEFINE U == Of(S, dayOf, d)
               G == Of(C, chargedOn, d)
    <2>1. d \in period
      BY <1>3
    <2>2. Books!Daily(d) = U /\ U \in SUBSET Uses
      BY <1>0, <2>1 DEF Books!Daily, Books!Shown, Of, BookTypes
    <2>3. Books!CostsOn({d}) = G /\ G \in SUBSET CostRows
      BY <1>0, <2>1 DEF Books!CostsOn, Of, BookTypes
    <2>4. view[d] = Books!Bucket(Books!Daily(d), Books!ActualCost(Books!CostsOn({d})),
                                 Books!SumByDay(d), IF Books!CostsOn({d}) = {} THEN 1 ELSE 0)
      BY DEF Books!TrendRange
    <2> HIDE DEF view, U, G
    <2>5. Books!ActualCost(G) = Sum(Charges, G) /\ Books!ActualCost(G) \in Int
      BY <1>0, <2>3, ChargeSums
    <2>6. Books!Cardinality(U) \in Nat /\ Books!Revenue(U) \in Nat
      BY <2>2, RequestSums
    <2>7. /\ requests[d] = Books!Cardinality(U) /\ revenue[d] = Books!Revenue(U)
          /\ cost[d] = Sum(Charges, G)
          /\ missing[d] = (IF Books!CostsOn({d}) = {} THEN 1 ELSE 0)
      BY DEF U, G
    <2>8. Books!SumByDay(d) = op[d] /\ op[d] \in Nat
      BY <1>8, <2>1
    <2> HIDE DEF requests, revenue, cost, op, missing, D
    <2>9. view[d] = Column(requests, revenue, cost, op, missing, d)
      BY <2>2, <2>3, <2>4, <2>5, <2>7, <2>8 DEF Books!Bucket, Column
    <2>10. missing[d] \in Nat
      BY <2>7
    <2> QED BY <2>5, <2>6, <2>7, <2>8, <2>9, <2>10
  <1>10. HasColumns(view, D, requests, revenue, cost, op, missing)
    <2> HIDE DEF view, D, requests, revenue, cost, op, missing
    <2> QED BY <1>9 DEF HasColumns
  <1>11. Sum(requests, D) = Books!Cardinality(S) /\ Sum(revenue, D) = Books!Revenue(S)
    <2>1. \A u \in S : dayOf[u] \in D
      BY <1>1
    <2> HIDE DEF D, S, dayOf
    <2> QED BY <1>1, <1>4, <2>1, BucketSums
  <1>12. Sum(cost, D) = Books!ActualCost(C)
    <2>1. \A c \in C : chargedOn[c] \in D
      BY <1>1
    <2> HIDE DEF D, C, chargedOn
    <2>2. Sum(cost, D) = Sum(Charges, C)
      BY <1>4, <1>6, <2>1, SumByKey
    <2> QED BY <1>6, <2>2
  <1>13. Sum(op, D) = Books!Amount(E)
    <2>1. \A s \in E : paidOn[s] \in period
      BY <1>1
    <2>2. Sum(op, period) = Sum(Amounts, E)
      <3>1. \A s \in E : Amounts[s] \in Int
        BY <1>7
      <3> HIDE DEF E, paidOn
      <3> QED BY <1>2, <1>7, <2>1, <3>1, SumByKey
    <2> DEFINE X == period \ D
    <2>3. D \cup X = period /\ D \cap X = {} /\ IsFiniteSet(X)
      BY <1>2, <1>3, FS_Subset
    <2>4. \A d \in X : op[d] = 0
      BY <1>8
    <2>5. \A d \in D \cup X : op[d] \in Int
      <3>1. \A d \in period : op[d] \in Nat
        BY <1>8
      <3> HIDE DEF op, D, X
      <3> QED BY <2>3, <3>1
    <2> HIDE DEF X, op, D
    <2>6. Sum(op, D \cup X) = Sum(op, D) + Sum(op, X)
      BY <1>4, <2>3, <2>5, SumJoins
    <2>7. Sum(op, X) = 0
      <3>1. \A d \in X : op[d] \in Nat
        BY <2>4
      <3> QED BY <2>3, <2>4, <3>1, SumOfNaturals
    <2>8. Sum(op, D) \in Int
      BY <1>4, <2>5, SumIsNumber
    <2> QED BY <1>7, <2>2, <2>3, <2>6, <2>7, <2>8
  <1>14. Books!Total(view) = Summary(Sum(requests, D), Sum(revenue, D), Sum(cost, D),
                                     Sum(op, D), NoneMissing(missing, D))
    <2> HIDE DEF view, D, requests, revenue, cost, op, missing
    <2> QED BY <1>4, <1>5, <1>10, TotalOf
  <1> HIDE DEF view, D, requests, revenue, cost, op, missing, S, E, C
  <1>15. /\ Books!Total(view).requests = Books!Cardinality(S)
         /\ Books!Total(view).revenue = Books!Revenue(S)
         /\ Books!Total(view).cost = Books!ActualCost(C)
         /\ Books!Total(view).op = Books!Amount(E)
         /\ Books!Total(view).profit = Books!Total(view).revenue - Books!Total(view).cost
                                           - Books!Total(view).op
    BY <1>11, <1>12, <1>13, <1>14 DEF Summary
  <1> QED BY <1>5, <1>15 DEF view, S, E, C

\* The trend agrees with the providers as far as it can.
LEMMA TrendMatches ==
    ASSUME BookInv, NEW period \in Books!Periods
    PROVE  Books!TrendAgrees(period, Grand(period))
  <1> DEFINE trend == Books!Total(Books!TrendRange(period))
             D == DOMAIN Books!TrendRange(period)
             all == Grand(period)
             C == {c \in Books!CostsOn(period) : c.day \in D}
  <1>1. /\ trend.requests = Books!Cardinality(Books!Shown(period))
        /\ trend.revenue = Books!Revenue(Books!Shown(period))
        /\ trend.cost = Books!ActualCost(C)
        /\ trend.op = Books!Amount(SpendOn(period))
        /\ trend.profit = trend.revenue - trend.cost - trend.op
    BY TrendAddsUp
  <1>2. /\ all.requests = Books!Cardinality(Books!Shown(period))
        /\ all.revenue = Books!Revenue(Books!Shown(period))
        /\ all.cost = Books!ActualCost(CostsOfBusy(period))
        /\ all.op = Books!Amount(SpendOn(period))
        /\ all.profit = all.revenue - all.cost - all.op
    BY DEF Grand, Summary
  <1>3. ASSUME {c.account : c \in Books!CostsOn(period)} \subseteq Books!Busy(period),
               {c.day : c \in Books!CostsOn(period)} \subseteq D
        PROVE  C = CostsOfBusy(period)
    BY <1>3 DEF CostsOfBusy, CostsAt
  <1> HIDE DEF trend, all, D, C
  <1>4. <<trend.requests, trend.revenue, trend.op>> = <<all.requests, all.revenue, all.op>>
    BY <1>1, <1>2
  <1>5. ASSUME {c.account : c \in Books!CostsOn(period)} \subseteq Books!Busy(period),
               {c.day : c \in Books!CostsOn(period)} \subseteq D
        PROVE  trend.cost = all.cost /\ trend.profit = all.profit
    <2>1. trend.cost = all.cost
      BY <1>1, <1>2, <1>3, <1>5
    <2>2. trend.revenue = all.revenue /\ trend.op = all.op
      BY <1>1, <1>2
    <2> QED BY <1>1, <1>2, <2>1, <2>2
  <1> QED BY <1>4, <1>5 DEF Books!TrendAgrees, trend, D, all

\* What the keys of a site cost, key by key.
LEMMA KeysAddUp ==
    ASSUME BookTypes, NEW p \in Owners, NEW period, ~selfRun[p]
    PROVE  Books!KeyTotal(p, period)
               = Sum(Charges, {c \in Books!CostsOn(period) : c.provider = p})
  <1> DEFINE keyed == {c \in Books!CostsOn(period) : c.provider = p}
             keyOf == [c \in CostRows |-> <<c.key, c.account>>]
             K == {<<c.key, c.account>> : c \in keyed}
             v == [k \in K |-> Sum(Charges, Of(keyed, keyOf, k))]
  <1>1. keyed \in SUBSET CostRows
    BY DEF BookTypes, Books!CostsOn
  <1>2. IsFiniteSet(keyed) /\ \A c \in keyed : Charges[c] \in Int
    <2> HIDE DEF keyed
    <2> QED BY <1>1, ChargeSums
  <1>3. K = {keyOf[c] : c \in keyed}
    BY <1>1
  <1>4. IsFiniteSet(K)
    <2> HIDE DEF K, keyOf, keyed
    <2> QED BY <1>2, <1>3, ImageIsFinite
  <1>5. Books!KeyCosts(p, period) = v
    <2> DEFINE having(k) == {c \in keyed : <<c.key, c.account>> = k}
               f(k) == [c \in having(k) |-> c.amount * Books!Rate(p)]
    <2>1. Books!KeyCosts(p, period) = [k \in K |-> Books!SumFunction(f(k))]
      BY DEF Books!KeyCosts
    <2>2. ASSUME NEW k \in K PROVE Books!SumFunction(f(k)) = Sum(Charges, Of(keyed, keyOf, k))
      <3> DEFINE T == Of(keyed, keyOf, k)
                 g == f(k)
      <3>1. having(k) = T /\ T \subseteq keyed
        BY <1>1 DEF Of
      <3>2. DOMAIN g = T /\ \A c \in T : g[c] = Charges[c]
        <4>1. DOMAIN g = T
          BY <3>1
        <4>2. ASSUME NEW c \in T PROVE g[c] = Charges[c]
          <5>1. c \in keyed /\ c \in having(k)
            BY <3>1
          <5>2. c \in CostRows /\ c.provider = p
            BY <1>1, <5>1
          <5>3. g[c] = c.amount * Books!Rate(p)
            BY <5>1
          <5>4. Charges[c] = c.amount * Books!Rate(p)
            BY <5>2 DEF Charges
          <5> QED BY <5>3, <5>4
        <4> QED BY <4>1, <4>2
      <3>3. IsFiniteSet(T)
        BY <1>2, <3>1, FS_Subset
      <3> HIDE DEF g, T
      <3>4. Books!SumFunction(g) = Sum(Charges, T)
        BY <3>2, <3>3, BookSumOf
      <3> QED BY <3>4 DEF g, T
    <2> HIDE DEF f, K
    <2> QED BY <2>1, <2>2
  <1>6. Sum(v, K) = Sum(Charges, keyed)
    <2>1. \A c \in keyed : keyOf[c] \in K
      BY <1>1
    <2> HIDE DEF K, keyOf, keyed
    <2> QED BY <1>2, <1>4, <2>1, SumByKey
  <1>7. Books!KeyTotal(p, period) = Sum(v, K)
    <2>1. DOMAIN v = K
      OBVIOUS
    <2> HIDE DEF v, K
    <2> QED BY <1>5, <2>1, BookSum DEF Books!KeyTotal
  <1> QED BY <1>6, <1>7

\* The pages of a site say what its bucket does.
LEMMA DetailMatches ==
    ASSUME BookInv, NEW period
    PROVE  Books!DetailAgrees(period)
  <1>0. BookTypes
    BY DEF BookInv
  <1> DEFINE view == Books!ByProvider(period)
  <1>1. ASSUME NEW p \in DOMAIN view \ {0}
        PROVE  /\ view[p].op = Books!ListTotal(p, period)
               /\ Books!BusyOf(p, period) \ removed \subseteq Books!AccountsOf(p)
               /\ (/\ ~selfRun[p]
                   /\ \A c \in Books!CostsOn(period) :
                          c.provider = p <=> c.account \in Books!BusyOf(p, period))
                  => view[p].cost = Books!KeyTotal(p, period)
    <2> DEFINE A == Books!BusyOf(p, period)
               f == [a \in A |-> Books!ActualCost(Books!CostsOf(a, period))]
    <2>1. view[p].op = Books!SumByProvider(p, period) /\ view[p].cost = Books!SumFunction(f)
      BY DEF Books!ByProvider, Books!Bucket
    <2>2. Books!SumByProvider(p, period) = Books!ListTotal(p, period)
      BY DEF Books!SumByProvider, Books!ListTotal, Books!ListByProvider
    <2>3. A \in SUBSET Owned /\ \A a \in A : links[a] = p
      <3>1. A \subseteq Books!Busy(period) /\ \A a \in A : links[a] = p
        BY DEF Books!BusyOf
      <3> QED BY <1>0, <3>1, ShownFacts
    <2>4. A \ removed \subseteq Books!AccountsOf(p)
      BY <2>3 DEF Books!AccountsOf
    <2>5. p \in Owners
      <3>1. DOMAIN view = {links[a] : a \in Books!Busy(period)} \cup Books!SitesWithCosts(period)
        BY DEF Books!ByProvider
      <3>2. DOMAIN view \subseteq exists \cup {0}
        BY <1>0, <3>1, ShownFacts DEF Books!SitesWithCosts
      <3> QED BY <1>0, <3>2 DEF BookTypes
    <2>6. ASSUME ~selfRun[p],
                 \A c \in Books!CostsOn(period) : c.provider = p <=> c.account \in A
          PROVE  Books!SumFunction(f) = Books!KeyTotal(p, period)
      <3> DEFINE C == CostsAt(A, period)
      <3>1. IsFiniteSet(A)
        BY <2>3, BookFinite, FS_Subset
      <3>2. DOMAIN f = A /\ \A a \in A : f[a] = CostOf(period)[a]
        BY <2>3 DEF CostOf
      <3>3. Books!SumFunction(f) = Sum(CostOf(period), A)
        <4> HIDE DEF f, A
        <4> QED BY <3>1, <3>2, BookSumOf
      <3>4. /\ C \in SUBSET CostRows
            /\ Sum(CostOf(period), A) = Books!ActualCost(C)
        <4> HIDE DEF A
        <4> QED BY <1>0, <2>3, AccountsAddUp
      <3>5. C = {c \in Books!CostsOn(period) : c.provider = p}
        BY <2>6 DEF CostsAt
      <3>6. Books!KeyTotal(p, period) = Sum(Charges, C)
        BY <1>0, <2>5, <2>6, <3>5, KeysAddUp
      <3>7. Books!ActualCost(C) = Sum(Charges, C)
        <4> HIDE DEF C
        <4> QED BY <1>0, <3>4, ChargeSums
      <3> HIDE DEF f, A, C
      <3> QED BY <3>3, <3>4, <3>6, <3>7
    <2> HIDE DEF view, f
    <2> QED BY <2>1, <2>2, <2>4, <2>6
  <1> HIDE DEF view
  <1> QED BY <1>1 DEF Books!DetailAgrees, view

\* Nothing is lost, and everything agrees.
LEMMA BooksMatch == ASSUME BookInv PROVE BooksAgree
  <1>1. ASSUME NEW period \in Books!Periods
        PROVE  LET all == Books!Total(Books!ByProvider(period))
               IN  /\ Books!NothingIsLost(period, all) /\ Books!ViewsAgree(period, all)
                   /\ Books!TrendAgrees(period, all) /\ Books!DetailAgrees(period)
    <2>1. Books!Total(Books!ByProvider(period)) = Grand(period)
      BY ProvidersAddUp
    <2>2. Books!NothingIsLost(period, Grand(period))
      BY DEF Books!NothingIsLost, Grand, Summary, CostsOfBusy, CostsAt, SpendOn
    <2>3. Books!ViewsAgree(period, Grand(period)) /\ Books!TrendAgrees(period, Grand(period))
          /\ Books!DetailAgrees(period)
      BY ViewsAddUp, TrendMatches, DetailMatches
    <2> QED BY <2>1, <2>2, <2>3
  <1>2. Books!SpendIsExplained
    BY DEF BookInv
  <1> QED BY <1>1, <1>2 DEF BooksAgree, Books!BooksAgree

\* ProfitViews: whatever requests, costs and sites there are, and whatever was linked,
\* deleted or switched in between, over every period the views by provider, by group, by user
\* and by day add up to the same; nothing of it is lost, and the pages of a site say the same.
THEOREM BooksAddUp == PartSpec => []BooksAgree
  <1>1. BookInv => BooksAgree
    BY BooksMatch
  <1> QED BY <1>1, BooksHold, PTL

(***************************************************************************)
(* The types of every part                                                 *)
(***************************************************************************)
\* What the invariant of the detection leaves out.
JobRest ==
    /\ status \in {NotYet, "running", "completed", "cancelled"}
    /\ runs \in Nat /\ cancels \in Nat /\ everCut \subseteq Targets

\* Every step of the detection keeps it.
LEMMA JobRestStep ==
    ASSUME DetectAssumption, IInv, JobRest, [Next]_vars
    PROVE  JobRest'
  <1>1. ASSUME NEW p \in Plans, Begins(p), everCut' = everCut, cancels' = cancels
        PROVE  JobRest'
    <2>1. Load(p) \in Nat
      <3>1. {t \in Targets : p[t] # {}} \subseteq Targets /\ IsFiniteSet(Targets)
        BY DEF DetectAssumption
      <3>2. IsFiniteSet({t \in Targets : p[t] # {}})
        BY <3>1, FS_Subset
      <3> QED BY <3>2, FS_CardinalityType DEF Load
    <2>2. runs' = runs + Load(p) /\ status' = "running"
      BY <1>1 DEF Begins
    <2> QED BY <1>1, <2>1, <2>2 DEF JobRest
  <1>2. CASE Start
    <2>1. PICK s \in DOMAIN Suites : \E picked \in SUBSET Suites[s] :
              /\ selected' = ResolveSuiteCheckIDs(s, picked)
              /\ chosen' \in SUBSET Targets \ {{}}
              /\ Begins([t \in Targets |-> IF t \in chosen' THEN selected' ELSE {}])
      BY <1>2 DEF Start
    <2>2. selected' \subseteq Checks
      BY <2>1 DEF ResolveSuiteCheckIDs, ResolveCheckIDs
    <2> DEFINE p == [t \in Targets |-> IF t \in chosen' THEN selected' ELSE {}]
    <2>3. p \in Plans
      BY <2>2 DEF Plans
    <2>4. Begins(p)
      BY <2>1
    <2>5. everCut' = everCut /\ cancels' = cancels
      BY <1>2 DEF Start
    <2> HIDE DEF p
    <2> QED BY <1>1, <2>3, <2>4, <2>5
  <1>3. ASSUME NEW r \in Callers, BeginRetry(r) PROVE JobRest'
    <2>1. plan[r] \in Plans
      BY <1>3 DEF BeginRetry, IInv, Shape
    <2>2. Begins(plan[r]) /\ everCut' = everCut /\ cancels' = cancels
      BY <1>3 DEF BeginRetry
    <2> QED BY <1>1, <2>1, <2>2
  <1>4. ASSUME NEW r \in Callers, PlanRetry(r) \/ RetryBusy(r) PROVE JobRest'
    BY <1>4 DEF PlanRetry, RetryBusy, job, bounds, JobRest
  <1>5. CASE Cancel
    BY <1>5 DEF Cancel, JobRest
  <1>6. CASE EndRound
    BY <1>6 DEF EndRound, bounds, JobRest
  <1>7. ASSUME NEW t \in Targets, Work(t) PROVE JobRest'
    <2>1. status' = status /\ runs' = runs
      BY <1>7, WorkIsLocal DEF IInv
    <2>2. cancels' = cancels /\ everCut' \subseteq Targets
      <3>1. CASE StartReady(t)
        BY <3>1 DEF StartReady, bounds, JobRest
      <3>2. CASE Conclude(t)
        BY <3>2 DEF Conclude, bounds, JobRest
      <3>3. CASE Persist(t)
        BY <3>3 DEF Persist, bounds, JobRest
      <3>4. ASSUME NEW c \in Checks, Acquire(t, c) \/ Outcome(t, c) \/ NoPlace(t, c)
            PROVE  cancels' = cancels /\ everCut' \subseteq Targets
        BY <3>4 DEF Acquire, Outcome, NoPlace, bounds, JobRest
      <3> QED BY <1>7, <3>1, <3>2, <3>3, <3>4 DEF Work
    <2> QED BY <2>1, <2>2 DEF JobRest
  <1>8. CASE UNCHANGED vars
    BY <1>8 DEF vars, job, bounds, JobRest
  <1> QED BY <1>2, <1>3, <1>4, <1>5, <1>6, <1>7, <1>8 DEF Next

\* A step of the composition is a step of the detection, or leaves it alone.
LEMMA DetectAlone ==
    ASSUME [PartNext]_<<part, vars, pelicanVars, replyVars, verdictVars,
                        probeVars, priceVars, sessionVars, bookVars>>
    PROVE  [Next]_vars
  BY DEF PartNext, Is, Retrying, Sharing

\* The types of the detection.
LEMMA DetectTyped ==
    ASSUME DetectAssumption, CatalogueAssumption PROVE PartSpec => []TypeOK
  <1> DEFINE Gate == Cardinality(InFlight) <= Concurrency
  <1>1. PartInit => IInv
    BY InvInit DEF PartInit
  <1>2. IInv /\ [PartNext]_<<part, vars, pelicanVars, replyVars, verdictVars, probeVars,
                             priceVars, sessionVars, bookVars>> => IInv'
    BY InvStep, DetectAlone
  <1>3. PartInit => JobRest
    BY DEF PartInit, Init, JobRest
  <1>4. IInv /\ JobRest /\ [PartNext]_<<part, vars, pelicanVars, replyVars, verdictVars, probeVars,
                                        priceVars, sessionVars, bookVars>> => JobRest'
    BY JobRestStep, DetectAlone
  <1>5. PartInit => Gate
    <2> SUFFICES ASSUME PartInit PROVE Gate
      OBVIOUS
    <2>1. InFlight = {}
      BY DEF PartInit, Init, InFlight
    <2> QED BY <2>1, FS_EmptySet DEF DetectAssumption
  <1>6. IInv /\ Gate /\ [PartNext]_<<part, vars, pelicanVars, replyVars, verdictVars, probeVars,
                                     priceVars, sessionVars, bookVars>> => Gate'
    BY GateStep, DetectAlone
  <1>7. IInv /\ JobRest /\ Gate => TypeOK
    BY DEF IInv, Shape, Steps, Phases, JobRest, TypeOK
  <1> QED BY <1>1, <1>2, <1>3, <1>4, <1>5, <1>6, <1>7, PTL DEF PartSpec

\* What the invariant of the pelican tests leaves out.
PelicanRest ==
    /\ power \in {"up", "closing", "down"} /\ cancelled \subseteq Pelican!Batches
    /\ canceller \in {0} \cup Pelican!Batches
    /\ tries \in [Pelican!Results -> 0..3] /\ stranded \subseteq Pelican!Batches
    /\ mishaps \in 0..MaxMishaps

\* A mishap is one of those that are allowed.
LEMMA MishapCounted ==
    ASSUME PelicanRest, Pelican!Mishap
    PROVE  mishaps' \in 0..MaxMishaps
  <1>1. MaxMishaps \in Nat
    BY PartsAssumption DEF Pelican!PelicanAssumption
  <1> QED BY <1>1 DEF PelicanRest, Pelican!Mishap

\* Submissions, and what ends batches.
LEMMA RestOfBatches ==
    ASSUME PelicanRest,
           \/ \E c \in Clients : Pelican!Ask(c) \/ Pelican!Create(c) \/ Pelican!CreateFails(c)
           \/ \E b \in Pelican!Batches : Pelican!Cancel(b)
           \/ Pelican!CancelRows \/ Pelican!Close \/ Pelican!CloseEnds \/ Pelican!Dies
           \/ Pelican!Recover
    PROVE  PelicanRest'
  <1>1. CASE \E c \in Clients : Pelican!Ask(c)
    BY <1>1 DEF Pelican!Ask, PelicanRest
  <1>2. CASE \E c \in Clients : Pelican!Create(c)
    <2>1. UNCHANGED <<power, cancelled, canceller, tries, stranded, mishaps>>
      BY <1>2 DEF Pelican!Create
    <2> QED BY <2>1 DEF PelicanRest
  <1>3. CASE \E c \in Clients : Pelican!CreateFails(c)
    <2>1. Pelican!Mishap /\ UNCHANGED <<power, cancelled, canceller, tries>>
      BY <1>3 DEF Pelican!CreateFails
    <2>2. stranded' \subseteq Pelican!Batches
      BY <1>3 DEF Pelican!CreateFails, PelicanRest
    <2>3. mishaps' \in 0..MaxMishaps
      BY <2>1, MishapCounted
    <2> QED BY <2>1, <2>2, <2>3 DEF PelicanRest
  <1>4. ASSUME NEW b \in Pelican!Batches, Pelican!Cancel(b) PROVE PelicanRest'
    <2>1. Pelican!Mishap /\ UNCHANGED <<power, tries, stranded>> /\ canceller' = b
          /\ cancelled' \subseteq Pelican!Batches
      BY <1>4 DEF Pelican!Cancel, PelicanRest
    <2>2. mishaps' \in 0..MaxMishaps
      BY <2>1, MishapCounted
    <2> QED BY <2>1, <2>2 DEF PelicanRest
  <1>5. CASE Pelican!CancelRows
    <2>1. /\ UNCHANGED <<power, cancelled, tries>> /\ canceller' = 0
          /\ stranded' \subseteq Pelican!Batches
      BY <1>5 DEF Pelican!CancelRows, PelicanRest
    <2>2. mishaps' = mishaps \/ Pelican!Mishap
      BY <1>5 DEF Pelican!CancelRows
    <2>3. mishaps' \in 0..MaxMishaps
      BY <2>2, MishapCounted DEF PelicanRest
    <2> QED BY <2>1, <2>3 DEF PelicanRest
  <1>6. CASE Pelican!Close
    <2>1. /\ Pelican!Mishap /\ UNCHANGED <<canceller, tries, stranded>> /\ power' = "closing"
          /\ cancelled' = cancelled \cup Pelican!Jobs
      BY <1>6 DEF Pelican!Close
    <2>2. Pelican!Jobs \subseteq Pelican!Batches
      BY DEF Pelican!Jobs
    <2>3. mishaps' \in 0..MaxMishaps
      BY <2>1, MishapCounted
    <2> QED BY <2>1, <2>2, <2>3 DEF PelicanRest
  <1>7. CASE Pelican!CloseEnds \/ Pelican!Dies
    <2>1. Pelican!Stop /\ (mishaps' = mishaps \/ Pelican!Mishap)
      BY <1>7 DEF Pelican!CloseEnds, Pelican!Dies
    <2>2. mishaps' \in 0..MaxMishaps
      BY <2>1, MishapCounted DEF PelicanRest
    <2>3. /\ power' = "down" /\ cancelled' = {} /\ canceller' = 0 /\ stranded' = stranded
          /\ tries' \in [Pelican!Results -> 0..3]
      BY <2>1 DEF Pelican!Stop
    <2> QED BY <2>2, <2>3 DEF PelicanRest
  <1>8. CASE Pelican!Recover
    BY <1>8 DEF Pelican!Recover, PelicanRest
  <1> QED BY <1>1, <1>2, <1>3, <1>4, <1>5, <1>6, <1>7, <1>8

\* The goroutines, and what the administrator does with results.
LEMMA RestOfResults ==
    ASSUME PelicanRest,
           \/ \E i \in Pelican!Results : \/ Pelican!Work(i) \/ Pelican!MarkRunningFails(i)
                                         \/ Pelican!SaveFails(i)
           \/ \E S \in Pelican!Selections : \/ Pelican!Publish(S) \/ Pelican!Unpublish(S)
                                            \/ Pelican!Delete(S)
    PROVE  PelicanRest'
  <1>1. ASSUME NEW i \in Pelican!Results, NEW then, NEW copy, Pelican!At(i, then, copy)
        PROVE  tries' \in [Pelican!Results -> 0..3]
    BY <1>1 DEF Pelican!At, PelicanRest
  <1>2. ASSUME NEW i \in Pelican!Results, Pelican!Work(i) PROVE PelicanRest'
    <2>1. UNCHANGED <<power, cancelled, canceller, stranded, mishaps>>
      BY <1>2 DEF Pelican!Work, Pelican!Admit, Pelican!LeaveWaiting, Pelican!MarkRunning,
                  Pelican!Generate, Pelican!Save
    <2>2. tries' \in [Pelican!Results -> 0..3]
      BY <1>1, <1>2 DEF Pelican!Work, Pelican!Admit, Pelican!LeaveWaiting, Pelican!MarkRunning,
                        Pelican!Generate, Pelican!Save, PelicanRest
    <2> QED BY <2>1, <2>2 DEF PelicanRest
  <1>3. ASSUME NEW i \in Pelican!Results, Pelican!MarkRunningFails(i) PROVE PelicanRest'
    <2>1. Pelican!Mishap /\ UNCHANGED <<power, cancelled, canceller, stranded>>
      BY <1>3 DEF Pelican!MarkRunningFails
    <2>2. tries' \in [Pelican!Results -> 0..3]
      BY <1>1, <1>3 DEF Pelican!MarkRunningFails
    <2>3. mishaps' \in 0..MaxMishaps
      BY <2>1, MishapCounted
    <2> QED BY <2>1, <2>2, <2>3 DEF PelicanRest
  <1>4. ASSUME NEW i \in Pelican!Results, Pelican!SaveFails(i) PROVE PelicanRest'
    <2>1. Pelican!Mishap /\ UNCHANGED <<power, cancelled, canceller>>
          /\ tries' = [tries EXCEPT ![i] = IF @ < 3 THEN @ + 1 ELSE 0]
          /\ (stranded' = stranded \/ stranded' = stranded \cup {i[1]})
      BY <1>4 DEF Pelican!SaveFails
    <2>2. tries' \in [Pelican!Results -> 0..3]
      BY <2>1 DEF PelicanRest
    <2>3. i[1] \in Pelican!Batches
      BY DEF Pelican!Results
    <2>4. mishaps' \in 0..MaxMishaps
      BY <2>1, MishapCounted
    <2> QED BY <2>1, <2>2, <2>3, <2>4 DEF PelicanRest
  <1>5. ASSUME NEW S \in Pelican!Selections,
               Pelican!Publish(S) \/ Pelican!Unpublish(S) \/ Pelican!Delete(S)
        PROVE  PelicanRest'
    <2>1. UNCHANGED <<power, cancelled, canceller, tries, stranded, mishaps>>
      BY <1>5 DEF Pelican!Publish, Pelican!Unpublish, Pelican!Delete, Pelican!Mutated,
                  Pelican!procs
    <2> QED BY <2>1 DEF PelicanRest
  <1> QED BY <1>2, <1>3, <1>4, <1>5

\* The types of the pelican tests.
LEMMA PelicanTyped == PartSpec => []Pelican!TypeOK
  <1>1. PartInit => PelicanRest
    <2>1. MaxMishaps \in Nat
      BY PartsAssumption DEF Pelican!PelicanAssumption
    <2> QED BY <2>1 DEF PartInit, Pelican!Init, PelicanRest
  <1>2. PelicanRest /\ [PartNext]_<<part, vars, pelicanVars, replyVars, verdictVars, probeVars,
                                    priceVars, sessionVars, bookVars>> => PelicanRest'
    <2> SUFFICES ASSUME PelicanRest, [Pelican!Next]_(Pelican!pelicanVars) PROVE PelicanRest'
      BY PelicanAlone
    <2>1. CASE UNCHANGED Pelican!pelicanVars
      BY <2>1 DEF Pelican!pelicanVars, Pelican!procs, PelicanRest
    <2> QED BY <2>1, RestOfBatches, RestOfResults DEF Pelican!Next
  <1>3. PelicanInv /\ PelicanRest => Pelican!TypeOK
    BY DEF PelicanInv, PelicanTypes, PelicanRow, PelicanCopy, PelicanRest, Pelican!TypeOK,
           Pelican!NoRequest
  <1> QED BY <1>1, <1>2, <1>3, PelicanHolds, PTL DEF PartSpec

\* The types of the prices.
LEMMA PriceTyped == PartSpec => []Price!TypeOK
  <1>1. PriceTypes /\ PriceInv => Price!TypeOK
    <2> SUFFICES ASSUME PriceTypes, PriceInv PROVE Price!TypeOK
      OBVIOUS
    <2>1. /\ rates \in [Sources -> Rates] /\ gone \subseteq Sources /\ rule \in Rules
          /\ {lastApplied, site, wrote} \subseteq Price!Maybe(Nat) /\ conflict \in BOOLEAN
          /\ flagged \in BOOLEAN
      BY DEF PriceTypes, MarketTypes, Rate, Price!Maybe, Price!NoRate
    <2>2. \A i \in DOMAIN audit :
              audit[i] \in [new : Nat, status : {"pending", "applied", "failed",
                                                 "skipped_threshold", "skipped_conflict"}]
      <3>1. audit \in Seq(AuditRow)
        BY DEF PriceTypes, MarketTypes
      <3>2. \A i \in DOMAIN audit : audit[i] \in AuditRow
        BY <3>1
      <3> QED BY <3>2 DEF AuditRow, Statuses
    <2>3. /\ stage \in [PriceJobs -> {"idle", "match", "rule", "rates", "get", "decide", "put",
                                      "mark", "base"}]
          /\ byHand \in [PriceJobs -> {"auto", "manual", "force"}]
          /\ since \in [PriceJobs -> BOOLEAN]
      BY DEF PriceTypes, JobTypes, Stages
    <2>4. /\ event \in [PriceJobs -> [of : Sources, old : Price!Maybe(Rates),
                                      new : Price!Maybe(Rates)]]
          /\ current \in [PriceJobs -> [rule : Rules, base : Price!Maybe(Nat)]]
      BY DEF PriceTypes, JobTypes, Happening, RuleRow, Rate, Price!Maybe, Price!NoRate
    <2>5. {new, saw} \subseteq [PriceJobs -> Price!Maybe(Nat)]
      BY DEF PriceTypes, JobTypes, Rate, Price!Maybe, Price!NoRate
    <2>6. \A j \in PriceJobs : action[j] \in 0..Len(audit)
      <3>1. Len(audit) \in Nat
        BY DEF PriceTypes, MarketTypes
      <3>2. \A j \in PriceJobs : action[j] \in Nat /\ action[j] <= Len(audit)
        BY DEF PriceTypes, JobTypes, Knows
      <3> QED BY <3>1, <3>2
    <2>7. /\ changes \in 0..MaxChanges /\ hands \in 0..MaxByHand
          /\ losts \in 0..MaxFails
      BY DEF PriceTypes, MarketTypes
    <2>8. OneByOne
      BY DEF PriceInv
    <2>9. doubled \in BOOLEAN
      BY <2>8, Zenon DEF OneByOne
    <2>10. {flagged, doubled} \subseteq BOOLEAN
      BY <2>1, <2>9
    <2> QED BY <2>1, <2>2, <2>3, <2>4, <2>5, <2>6, <2>7, <2>10, Zenon DEF Price!TypeOK
  <1> QED BY <1>1, PriceTypesHold, PriceHolds, PTL

\* What the invariant of the session leaves out.
SessionRest ==
    /\ password \in Nat /\ incidents \in 0..MaxIncidents
    /\ \A p \in DOMAIN tokens : tokens[p] \in 0..password

\* Events are counted up to their bound.
LEMMA IncidentCounted ==
    ASSUME SessionRest, Session!Excuse \/ incidents' = incidents
                        \/ (incidents < MaxIncidents /\ incidents' = incidents + 1)
    PROVE  incidents' \in 0..MaxIncidents
  BY PartsAssumption DEF Session!SessionAssumption, Session!Excuse, SessionRest

\* A row comes under the password of the day, and goes.
LEMMA RowsFit ==
    ASSUME SessionRest, NEW f, \A p \in DOMAIN f : f[p] \in 0..password, NEW p
    PROVE  /\ \A q \in DOMAIN Session!Without(f, p) : Session!Without(f, p)[q] \in 0..password
           /\ \A q \in DOMAIN Session!With(f, p, password) :
                  Session!With(f, p, password)[q] \in 0..password
  BY DEF Session!Without, Session!With, SessionRest

\* Every step of the session keeps it.
LEMMA SessionRestStep ==
    ASSUME SessionRest, [Session!Next]_(Session!vars)
    PROVE  SessionRest'
  <1>1. ASSUME UNCHANGED <<tokens, password>>,
               Session!Excuse \/ incidents' = incidents
               \/ (incidents < MaxIncidents /\ incidents' = incidents + 1)
        PROVE  SessionRest'
    BY <1>1, IncidentCounted DEF SessionRest
  <1>2. ASSUME password' = password, \A p \in DOMAIN tokens' : tokens'[p] \in 0..password,
               Session!Excuse \/ incidents' = incidents
        PROVE  SessionRest'
    BY <1>2, IncidentCounted DEF SessionRest
  <1>3. ASSUME NEW t \in Tabs, NEW k \in Session!Kinds, Session!Begin(t, k) PROVE SessionRest'
    BY <1>1, <1>3 DEF Session!Begin, Session!server
  <1>4. ASSUME NEW t \in Tabs, NEW b \in BOOLEAN, Session!Rotate(t, b) PROVE SessionRest'
    <2>1. password' = password /\ (Session!Excuse \/ incidents' = incidents)
      BY <1>4 DEF Session!Rotate
    <2>2. \/ tokens' = tokens
          \/ tokens' = Session!With(Session!Without(tokens, tab[t].snap), issued + 1, password)
      BY <1>4 DEF Session!Rotate
    <2>3. \A p \in DOMAIN tokens' : tokens'[p] \in 0..password
      BY <2>2, RowsFit DEF SessionRest
    <2> QED BY <1>2, <2>1, <2>3
  <1>5. ASSUME NEW t \in Tabs, NEW b \in BOOLEAN, Session!Logout(t, b) PROVE SessionRest'
    <2>1. password' = password /\ Session!Excuse
          /\ (tokens' = tokens \/ tokens' = Session!Without(tokens, pair))
      BY <1>5 DEF Session!Logout
    <2>2. \A p \in DOMAIN tokens' : tokens'[p] \in 0..password
      BY <2>1, RowsFit DEF SessionRest
    <2> QED BY <1>2, <2>1, <2>2
  <1>6. ASSUME NEW t \in Tabs, \/ Session!Answer(t) \/ Session!PeerCame(t) \/ Session!GiveUp(t)
                               \/ Session!Break(t) \/ Session!Leave(t)
        PROVE  SessionRest'
    <2>1. UNCHANGED <<tokens, password>>
      BY <1>6 DEF Session!Answer, Session!PeerCame, Session!GiveUp, Session!Break, Session!Leave,
                  Session!server
    <2>2. \/ Session!Excuse \/ incidents' = incidents
          \/ (incidents < MaxIncidents /\ incidents' = incidents + 1)
      BY <1>6 DEF Session!Answer, Session!PeerCame, Session!GiveUp, Session!Break, Session!Leave
    <2> QED BY <1>1, <2>1, <2>2
  <1>7. ASSUME NEW t \in Tabs, Session!Find(t) PROVE SessionRest'
    <2>1. UNCHANGED <<password, incidents>>
          /\ (tokens' = tokens \/ tokens' = Session!Without(tokens, tab[t].snap))
      BY <1>7 DEF Session!Find
    <2>2. \A p \in DOMAIN tokens' : tokens'[p] \in 0..password
      BY <2>1, RowsFit DEF SessionRest
    <2> QED BY <1>2, <2>1, <2>2
  <1>8. ASSUME NEW t \in Tabs, Session!Login(t) PROVE SessionRest'
    <2>1. UNCHANGED <<password, incidents>> /\ tokens' = Session!With(tokens, issued + 1, password)
      BY <1>8 DEF Session!Login
    <2>2. \A p \in DOMAIN tokens' : tokens'[p] \in 0..password
      BY <2>1, RowsFit DEF SessionRest
    <2> QED BY <1>2, <2>1, <2>2
  <1>9. CASE Session!AccessEnds \/ Session!RefreshEnds
    BY <1>1, <1>9 DEF Session!AccessEnds, Session!RefreshEnds
  <1>10. CASE Session!ChangePassword
    <2>1. tokens' = tokens /\ password' = password + 1 /\ Session!Excuse
      BY <1>10 DEF Session!ChangePassword
    <2>2. incidents' \in 0..MaxIncidents
      BY <2>1, IncidentCounted
    <2> QED BY <2>1, <2>2 DEF SessionRest
  <1>11. CASE UNCHANGED Session!vars
    BY <1>1, <1>11 DEF Session!vars
  <1> QED BY <1>3, <1>4, <1>5, <1>6, <1>7, <1>8, <1>9, <1>10, <1>11 DEF Session!Next

\* The types of the session.
LEMMA SessionTyped == PartSpec => []Session!TypeOK
  <1>0. MaxPairs \in Nat /\ MaxIncidents \in Nat
    BY PartsAssumption DEF Session!SessionAssumption
  <1>1. PartInit => SessionRest
    BY <1>0 DEF PartInit, Session!Init, SessionRest
  <1>2. SessionRest /\ [PartNext]_<<part, vars, pelicanVars, replyVars, verdictVars, probeVars,
                                    priceVars, sessionVars, bookVars>> => SessionRest'
    BY SessionRestStep, SessionAlone
  <1>3. PartInit => SessionInv
    BY SessionInit DEF PartInit
  <1>4. SessionInv /\ [PartNext]_<<part, vars, pelicanVars, replyVars, verdictVars, probeVars,
                                   priceVars, sessionVars, bookVars>> => SessionInv'
    BY SessionStep, SessionAlone
  <1>5. SessionInv /\ SessionRest => Session!TypeOK
    <2> SUFFICES ASSUME SessionInv, SessionRest PROVE Session!TypeOK
      OBVIOUS
    <2>1. SessionTypes /\ Descent
      BY DEF SessionInv
    <2>2. /\ issued \in 1..MaxPairs /\ pair \in 0..issued /\ dead \subseteq 1..issued
          /\ stale \subseteq 1..issued
      BY <2>1 DEF SessionTypes
    <2>3. /\ pair \in 0..MaxPairs /\ issued \in 0..MaxPairs
          /\ dead \subseteq Session!Pairs /\ stale \subseteq Session!Pairs
      BY <1>0, <2>2 DEF Session!Pairs
    <2>4. from \in [Session!Pairs -> 0..MaxPairs]
      <3>1. \A p \in Session!Pairs : from[p] \in Nat /\ (from[p] # 0 => from[p] <= issued)
        BY <2>1 DEF SessionTypes, Descent
      <3>2. \A p \in Session!Pairs : from[p] \in 0..MaxPairs
        BY <1>0, <2>2, <3>1
      <3> QED BY <2>1, <3>2 DEF SessionTypes
    <2>5. \A t \in Tabs : tab[t].at \in {"idle", "asks", "found", "answer", "waits"}
      BY <2>1, TabState
    <2>6. {out, excused, lostAt} \subseteq BOOLEAN
      BY <2>1 DEF SessionTypes
    <2>7. /\ DOMAIN tokens \subseteq 1..issued /\ \A p \in DOMAIN tokens : tokens[p] \in 0..password
          /\ leaving \subseteq Tabs /\ incidents \in 0..MaxIncidents
      BY <2>1 DEF SessionTypes, SessionRest
    <2> QED BY <2>3, <2>4, <2>5, <2>6, <2>7 DEF Session!TypeOK
  <1> QED BY <1>1, <1>2, <1>3, <1>4, <1>5, PTL DEF PartSpec

\* The types of the books.
LEMMA BooksTyped == PartSpec => []Books!TypeOK
  <1>1. BookInv => Books!TypeOK
    BY DEF BookInv, BookTypes, Books!TypeOK
  <1> QED BY <1>1, BooksHold, PTL

\* Types: every part's variables hold what their columns and structures can hold, and the gate
\* of a detection is never over-full, whatever the interleaving.
THEOREM OperationsTypes ==
    ASSUME DetectAssumption, CatalogueAssumption PROVE PartSpec => []TypesOK
  <1>1. TypeOK /\ Pelican!TypeOK /\ Price!TypeOK /\ Session!TypeOK /\ Books!TypeOK => TypesOK
    BY DEF TypesOK
  <1> QED BY <1>1, DetectTyped, PelicanTyped, PriceTyped, SessionTyped, BooksTyped, PTL
=============================================================================

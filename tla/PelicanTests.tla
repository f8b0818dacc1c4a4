---------------------------- MODULE PelicanTests ----------------------------
(***************************************************************************)
(* Batches of generation tests: service/pelican_service.go starts them,    *)
(* runs their targets and cancels them; repository/pelican_repo.go guards  *)
(* every write by the status of the row, and publishes results.            *)
(*                                                                         *)
(* A result is one target of one batch; batches are numbered as they are   *)
(* committed.  A request_id sent again with another content is answered    *)
(* with a conflict instead of the batch, which changes nothing either.     *)
(***************************************************************************)
EXTENDS Integers, FiniteSets

CONSTANTS
    RequestIds,   \* what clients choose
    Clients,      \* overlapping calls of Start
    Width,        \* targets of a batch
    Places,       \* how many of them run at once
    MaxBatches,   \* bound: batches ever committed
    MaxMishaps    \* bound: failed or lost statements, cancels, deaths, closings

PelicanAssumption ==
    /\ "" \notin RequestIds /\ {Width, Places} \subseteq Nat \ {0}
    /\ {MaxBatches, MaxMishaps} \subseteq Nat

Batches == 1..MaxBatches
Results == Batches \X (1..Width)
Of(b)   == {i \in Results : i[1] = b}

VARIABLES
    batch,      \* pelican_batches: the request_id of each
    row,        \* pelican_results: status, document and published_at of each
    power,      \* the process: "up", "closing" (Close was called), "down"
    cancelled,  \* batches whose context is cancelled
    canceller,  \* the batch whose rows Cancel or Close, holding mu, is about to cancel
    asks,       \* per client: the submission FindBatch did not know
    worker,     \* per result: what its goroutine is at
    mine,       \* the goroutine's own copy of status and document
    tries       \* failed attempts of persistResult

VARIABLES
    calls,      \* history: generations asked for, per result
    stranded,   \* history: batches a write of which failed and is not repeated
    mishaps     \* mishaps so far

rows   == <<batch, row>>
procs  == <<power, cancelled, canceller, asks, worker, mine, tries>>
pelicanVars == <<rows, procs, calls, stranded, mishaps>>

NoRequest == ""
NoCopy  == [status |-> "queued", doc |-> FALSE]
NoRow   == [status |-> "none", doc |-> FALSE, published |-> FALSE]
Open    == {"queued", "running"}
Final   == {"completed", "failed", "cancelled", "interrupted"}

Committed == {b \in Batches : batch[b] # NoRequest}
FindBatch(req) == {b \in Committed : batch[b] = req}

\* A job is there from the commit until all its goroutines have ended.
Jobs == {b \in Batches : \E i \in Of(b) : worker[i] # "none"}

Init ==
    /\ batch = [b \in Batches |-> NoRequest]
    /\ row = [i \in Results |-> NoRow]
    /\ power = "up" /\ cancelled = {} /\ canceller = 0
    /\ asks = [c \in Clients |-> NoRequest]
    /\ worker = [i \in Results |-> "none"]
    /\ mine = [i \in Results |-> NoCopy]
    /\ tries = [i \in Results |-> 0]
    /\ calls = [i \in Results |-> 0]
    /\ stranded = {} /\ mishaps = 0

Mishap == mishaps < MaxMishaps /\ mishaps' = mishaps + 1

(***************************************************************************)
(* Start                                                                   *)
(***************************************************************************)
\* FindBatch and the checks of targets and credentials: a known request_id is
\* answered with its batch or with a conflict, and nothing changes.
Ask(c) ==
    /\ power = "up" /\ asks[c] = NoRequest
    /\ \E req \in RequestIds : FindBatch(req) = {} /\ asks' = [asks EXCEPT ![c] = req]
    /\ UNCHANGED <<rows, power, cancelled, canceller, worker, mine, tries, calls, stranded, mishaps>>

Answered(c) == asks' = [asks EXCEPT ![c] = NoRequest]

\* ON CONFLICT (request_id) DO NOTHING: the other batch or a conflict is the answer.
NotAskedAgain(c) == FALSE

Known(c) == FindBatch(asks[c]) # {}

Inserted(c, b) ==
    /\ b \notin Committed /\ \A d \in Batches : d < b => d \in Committed
    /\ batch' = [batch EXCEPT ![b] = asks[c]]
    /\ row' = [i \in Results |-> IF i \in Of(b) THEN [NoRow EXCEPT !.status = "queued"] ELSE row[i]]

\* mu is held from the test of closing to the registration of the job.
Create(c) ==
    /\ asks[c] # NoRequest /\ power # "down" /\ canceller = 0
    /\ Answered(c)
    /\ \/ /\ power = "closing" \/ Known(c)
          /\ UNCHANGED <<rows, worker, mine, stranded, mishaps>>
       \/ /\ power = "up" /\ ~Known(c)
          /\ \E b \in Batches :
                /\ Inserted(c, b)
                /\ worker' = [i \in Results |-> IF i \in Of(b) THEN "waiting" ELSE worker[i]]
                /\ mine' = [i \in Results |-> IF i \in Of(b) THEN NoCopy ELSE mine[i]]
          /\ UNCHANGED <<stranded, mishaps>>
    /\ UNCHANGED <<power, cancelled, canceller, tries, calls>>

\* The transaction fails, or it is committed and the answer is lost: Create
\* reports an error, so that no job is started either way.
CreateFails(c) ==
    /\ asks[c] # NoRequest /\ power = "up" /\ canceller = 0 /\ ~Known(c)
    /\ Mishap /\ Answered(c)
    /\ \/ UNCHANGED <<rows, stranded>>
       \/ \E b \in Batches : Inserted(c, b) /\ stranded' = stranded \cup {b}
    /\ UNCHANGED <<power, cancelled, canceller, worker, mine, tries, calls>>

(***************************************************************************)
(* One target: run, execute, persistResult                                 *)
(***************************************************************************)
Running(b) == {i \in Of(b) : worker[i] \in {"started", "generating", "saving"}}

At(i, step, copy) ==
    /\ worker' = [worker EXCEPT ![i] = step]
    /\ mine' = [mine EXCEPT ![i] = copy]
    /\ tries' = [tries EXCEPT ![i] = 0]

\* The targets of a batch get a place in their order; the select may take a
\* place although the context is cancelled.
Admit(i) ==
    /\ worker[i] = "waiting" /\ Cardinality(Running(i[1])) < Places
    /\ \A j \in Of(i[1]) : j[2] < i[2] => worker[j] # "waiting"
    /\ At(i, "started", NoCopy)
    /\ UNCHANGED <<rows, power, cancelled, canceller, asks, calls, stranded, mishaps>>

\* ctx.Done: the targets that are still waiting are left as they are.
LeaveWaiting(b) ==
    /\ b \in cancelled
    /\ \E i \in Of(b) : worker[i] = "waiting"
    /\ worker' = [i \in Results |-> IF i \in Of(b) /\ worker[i] = "waiting" THEN "none" ELSE worker[i]]
    /\ UNCHANGED <<rows, power, cancelled, canceller, asks, mine, tries, calls, stranded, mishaps>>

Stopped(i) == i[1] \in cancelled

\* Repo.Update: only an open row is written.
Update(i, copy) ==
    row' = [row EXCEPT ![i] = [@ EXCEPT !.status = copy.status, !.doc = copy.doc]]

Unguarded(i, copy) == IF row[i].status # "none" THEN Update(i, copy) ELSE UNCHANGED row

Guarded(i, copy) ==
    IF row[i].status \in Open THEN Update(i, copy) ELSE UNCHANGED row

\* A cancelled goroutine saves that it was; the others mark their row running,
\* and end when the row is not open any more.
MarkRunning(i) ==
    /\ worker[i] = "started"
    /\ IF Stopped(i) THEN At(i, "saving", [status |-> "cancelled", doc |-> FALSE]) /\ UNCHANGED row
       ELSE /\ Guarded(i, [status |-> "running", doc |-> FALSE])
            /\ At(i, IF row[i].status \in Open THEN "generating" ELSE "none",
                  [status |-> "running", doc |-> FALSE])
    /\ UNCHANGED <<batch, power, cancelled, canceller, asks, calls, stranded, mishaps>>

\* The statement fails, before or after it took effect.
MarkRunningFails(i) ==
    /\ worker[i] = "started" /\ ~Stopped(i) /\ Mishap
    /\ UNCHANGED row \/ Guarded(i, [status |-> "running", doc |-> FALSE])
    /\ At(i, "saving", [status |-> "failed", doc |-> FALSE])
    /\ UNCHANGED <<batch, power, cancelled, canceller, asks, calls, stranded>>

\* A reply with a document, one without, an error; cancellation overrides the
\* status and keeps what came.
Generate(i) ==
    /\ worker[i] = "generating"
    /\ calls' = [calls EXCEPT ![i] = @ + 1]
    /\ \E doc \in BOOLEAN, good \in BOOLEAN :
           At(i, "saving", [status |-> IF Stopped(i) THEN "cancelled"
                                       ELSE IF good /\ doc THEN "completed" ELSE "failed",
                            doc |-> doc])
    /\ UNCHANGED <<rows, power, cancelled, canceller, asks, stranded, mishaps>>

Save(i) ==
    /\ worker[i] = "saving"
    /\ Guarded(i, mine[i])
    /\ At(i, "none", mine[i])
    /\ UNCHANGED <<batch, power, cancelled, canceller, asks, calls, stranded, mishaps>>

\* After three failures the outcome alone is written, after a fourth the row
\* is left to the recovery.  A lost answer is met as a conflict the next time.
Fallback(copy) ==
    [status |-> IF copy.status = "cancelled" THEN "cancelled" ELSE "failed", doc |-> FALSE]

SaveFails(i) ==
    /\ worker[i] = "saving" /\ Mishap
    /\ UNCHANGED row \/ Guarded(i, mine[i])
    /\ tries' = [tries EXCEPT ![i] = IF @ < 3 THEN @ + 1 ELSE 0]
    /\ mine' = IF tries[i] = 2 THEN [mine EXCEPT ![i] = Fallback(@)] ELSE mine
    /\ IF tries[i] < 3 THEN UNCHANGED <<worker, stranded>>
       ELSE /\ worker' = [worker EXCEPT ![i] = "none"]
            /\ stranded' = stranded \cup {i[1]}
    /\ UNCHANGED <<batch, power, cancelled, canceller, asks, calls>>

(***************************************************************************)
(* Cancel, Close, death and recovery                                       *)
(***************************************************************************)
RunningCancelled(S) ==
    row' = [i \in Results |-> IF i[1] \in S /\ row[i].status = "running"
                              THEN [row[i] EXCEPT !.status = "cancelled"] ELSE row[i]]

Cancelled(S) ==
    row' = [i \in Results |-> IF i[1] \in S /\ row[i].status \in Open
                              THEN [row[i] EXCEPT !.status = "cancelled"] ELSE row[i]]

\* The goroutines hear of it before the rows change.
Cancel(b) ==
    /\ power = "up" /\ canceller = 0 /\ b \in Committed /\ Mishap
    /\ canceller' = b
    /\ cancelled' = IF b \in Jobs THEN cancelled \cup {b} ELSE cancelled
    /\ UNCHANGED <<rows, power, asks, worker, mine, tries, calls, stranded>>

CancelRows ==
    /\ power = "up" /\ canceller # 0 /\ canceller' = 0
    /\ \/ Cancelled({canceller}) /\ UNCHANGED <<stranded, mishaps>>
       \/ Mishap /\ stranded' = stranded \cup {canceller} /\ UNCHANGED row
    /\ UNCHANGED <<batch, power, cancelled, asks, worker, mine, tries, calls>>

\* Close cancels every job and its rows, and keeps mu meanwhile.
Close ==
    /\ power = "up" /\ canceller = 0 /\ Mishap
    /\ power' = "closing"
    /\ cancelled' = cancelled \cup Jobs
    /\ \E failing \in SUBSET Jobs : Cancelled(Jobs \ failing)
    /\ UNCHANGED <<batch, canceller, asks, worker, mine, tries, calls, stranded>>

Stop ==
    /\ power' = "down" /\ cancelled' = {} /\ canceller' = 0
    /\ asks' = [c \in Clients |-> NoRequest]
    /\ worker' = [i \in Results |-> "none"]
    /\ mine' = [i \in Results |-> NoCopy] /\ tries' = [i \in Results |-> 0]
    /\ UNCHANGED <<rows, calls, stranded>>

\* workers.Wait.
CloseEnds == power = "closing" /\ Jobs = {} /\ Stop /\ UNCHANGED mishaps

Dies == power # "down" /\ Mishap /\ Stop

RunningInterrupted(r) == IF r.status = "running" THEN [r EXCEPT !.status = "interrupted"] ELSE r

Interrupted(r) == IF r.status \in Open THEN [r EXCEPT !.status = "interrupted"] ELSE r

\* main goes on only when Recover has succeeded.
Recover ==
    /\ power = "down" /\ power' = "up"
    /\ row' = [i \in Results |-> Interrupted(row[i])]
    /\ stranded' = {}
    /\ UNCHANGED <<batch, cancelled, canceller, asks, worker, mine, tries, calls, mishaps>>

(***************************************************************************)
(* Mutate: all the selected rows or none                                   *)
(***************************************************************************)
Selections == SUBSET {i \in Results : row[i].status # "none"} \ {{}}

Mutated(S, action) ==
    /\ row' = [i \in Results |->
           IF i \notin S THEN row[i]
           ELSE CASE action = "publish"   -> [row[i] EXCEPT !.published = TRUE]
                  [] action = "unpublish" -> [row[i] EXCEPT !.published = FALSE]
                  [] action = "delete"    -> NoRow]
    /\ UNCHANGED <<batch, procs, calls, stranded, mishaps>>

Publishable(r) == r.status = "completed" /\ r.doc

Publish(S) == (\A i \in S : Publishable(row[i])) /\ Mutated(S, "publish")
Unpublish(S) == (\E i \in S : row[i].published) /\ Mutated(S, "unpublish")
Delete(S) ==
    /\ \A i \in S : ~row[i].published /\ row[i].status \notin Open
    /\ Mutated(S, "delete")

Work(i) ==
    Admit(i) \/ LeaveWaiting(i[1]) \/ MarkRunning(i) \/ Generate(i) \/ Save(i)

Next ==
    \/ \E c \in Clients : Ask(c) \/ Create(c) \/ CreateFails(c)
    \/ \E i \in Results : Work(i) \/ MarkRunningFails(i) \/ SaveFails(i)
    \/ \E b \in Batches : Cancel(b)
    \/ CancelRows \/ Close \/ CloseEnds \/ Dies \/ Recover
    \/ power = "up" /\ \E S \in Selections : Publish(S) \/ Unpublish(S) \/ Delete(S)

\* The goroutines run, every statement and every generation has a timeout, and a
\* process that died is started again.
Fair ==
    /\ WF_pelicanVars(Recover) /\ WF_pelicanVars(CloseEnds) /\ WF_pelicanVars(CancelRows)
    /\ \A i \in Results : WF_pelicanVars(Work(i))

Spec == Init /\ [][Next]_pelicanVars /\ Fair
-----------------------------------------------------------------------------
TypeOK ==
    /\ batch \in [Batches -> RequestIds \cup {NoRequest}]
    /\ row \in [Results -> [status : {"none"} \cup Open \cup Final, doc : BOOLEAN, published : BOOLEAN]]
    /\ power \in {"up", "closing", "down"}
    /\ cancelled \subseteq Batches /\ canceller \in {0} \cup Batches
    /\ asks \in [Clients -> RequestIds \cup {NoRequest}]
    /\ worker \in [Results -> {"none", "waiting", "started", "generating", "saving"}]
    /\ mine \in [Results -> [status : Open \cup Final, doc : BOOLEAN]]
    /\ tries \in [Results -> 0..3]
    /\ calls \in [Results -> Nat] /\ stranded \subseteq Batches /\ mishaps \in 0..MaxMishaps

\* However often a client repeats a submission, and whatever is lost, each of its
\* targets is generated (and charged) at most once: the request_id is unique and
\* nothing runs a row again.
ChargedOnce ==
    \A i, j \in Results :
        (batch[i[1]] = batch[j[1]] /\ i[2] = j[2] /\ batch[i[1]] # NoRequest) =>
            (IF i = j THEN calls[i] <= 1 ELSE calls[i] + calls[j] <= 1)

\* Update cannot resurrect: a result that has ended never changes its outcome.
FinalIsFinal ==
    [][\A i \in Results : row[i].status \in Final =>
           row'[i].status \in {row[i].status, "none"}]_pelicanVars

\* A row that is open while nothing works on it is left to somebody: the
\* cancellation that is under way, the next start, or nobody until then because
\* a write failed (a lost commit, a failed cancel, four failed saves).
OpenIsAttended ==
    \A i \in Results :
        (row[i].status \in Open /\ worker[i] = "none") =>
            power # "up" \/ canceller = i[1] \/ i[1] \in stranded

\* Every result ends, unless a write about its batch failed for good.
ResultsEnd ==
    \A i \in Results :
        row[i].status \in Open ~> (row[i].status \notin Open \/ i[1] \in stranded)
=============================================================================

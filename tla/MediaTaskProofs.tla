--------------------------- MODULE MediaTaskProofs ---------------------------
(***************************************************************************)
(* Proofs about MediaTask for any requests, keys, quota, slots and bounds: *)
(* a key is paid once, no spend goes without its task and can be asked     *)
(* after upstream unless its answer was lost, a stored task has its files, *)
(* and a finished video is on its way to the archive or beyond the limit   *)
(* of the last start.                                                      *)
(***************************************************************************)
EXTENDS MediaTask, FiniteSetTheorems, TLAPS

(***************************************************************************)
(* The inductive invariant                                                 *)
(***************************************************************************)
\* Ids are given once: whatever names a task names one that has been inserted.
Given ==
    /\ \A i \in DOMAIN tasks \cup DOMAIN archive \cup resume : i < nextId
    /\ \A r \in Requests : id[r] < nextId
    /\ \A i \in Ids : i >= nextId => job[i] = "none" /\ successes[i] = 0

\* The unique index on the idempotency key.
OneTaskPerKey == \A i, j \in DOMAIN tasks : tasks[i].key = tasks[j].key => i = j

\* What the place of a request says of its task.  Before the call nobody else knows
\* the task; a task is discarded only when the upstream has nothing for it, or an image
\* whose answer was lost.
AtPlace(r) ==
    /\ pc[r] \in {"count", "lookup", "insert"} => key[r] \in Keys
    /\ pc[r] \notin {"idle", "count", "lookup", "insert"} => id[r] \in Ids
    /\ pc[r] = "call" => /\ job[id[r]] = "none" /\ \A q \in Requests \ {r} : id[q] # id[r]
                         /\ There(id[r]) \/ id[r] \in removed
    /\ pc[r] = "request" => job[id[r]] # "none"
    /\ pc[r] = "discard" =>
          job[id[r]] = "none" \/ (job[id[r]] = "made" /\ id[r] \in untraced)
    /\ pc[r] = "stored" /\ There(id[r]) => id[r] \in artifacts

Submitted == \A i \in DOMAIN tasks : tasks[i].requested => job[i] # "none"

Saved == \A i \in DOMAIN archive : archive[i] = "settle" /\ There(i) => i \in artifacts

Paid ==
    /\ Given /\ OneTaskPerKey /\ Submitted /\ Saved
    /\ \A r \in Requests : AtPlace(r)
    /\ SpendTraced /\ StoredHasArtifact

\* A request that has recorded a success and has still to see to the archive.
Recorder(r) == pc[r] \in {"storage", "enqueue"}

Waiting(i) == There(i) /\ tasks[i].storage = "pending"

\* A task without a recorded success is in no hand and on no list.
Unrecorded ==
    \A i \in Ids : successes[i] = 0 =>
        /\ \A r \in Requests : Recorder(r) => id[r] # i
        /\ i \notin DOMAIN archive \cup resume /\ ~Waiting(i)

\* One success, one request that sees to the archive, and before it has asked for it
\* there is none.
OneRecorder ==
    /\ \A q, r \in Requests :
           Recorder(q) /\ Recorder(r) /\ id[q] = id[r] /\ q # r => id[r] \in Again
    /\ \A r \in Requests : pc[r] = "storage" /\ id[r] \notin Again =>
           id[r] \notin DOMAIN archive \cup resume /\ ~Waiting(id[r])

\* An archive does not leave a task that waits for it.
LeavesSettled ==
    \A i \in DOMAIN archive : archive[i] = "leaving" /\ Waiting(i) => i \in Again \cup cutShort

Archived == Unrecorded /\ OneRecorder /\ LeavesSettled /\ PendingHasArchive

IInv == TypeOK /\ Paid /\ Archived

(***************************************************************************)
(* Tasks and their fields                                                  *)
(***************************************************************************)
\* An update of one field keeps the others, and every other task.
LEMMA UpdatedIs ==
    ASSUME TypeOK, NEW i, NEW f \in {"status", "requested", "storage"}, NEW v,
           tasks' = Updated(i, f, v), f = "status" => v \in {"succeeded", "failed"},
           f = "requested" => v \in BOOLEAN, f = "storage" => v \in {"pending", "stored", "failed"}
    PROVE  /\ DOMAIN tasks' = DOMAIN tasks
           /\ \A j \in DOMAIN tasks : tasks'[j] \in Row /\ tasks'[j].key = tasks[j].key
                                      /\ tasks'[j].kind = tasks[j].kind
           /\ \A j \in DOMAIN tasks : j # i => tasks'[j] = tasks[j]
           /\ f # "status" => \A j \in DOMAIN tasks : tasks'[j].status = tasks[j].status
           /\ f # "requested" => \A j \in DOMAIN tasks : tasks'[j].requested = tasks[j].requested
           /\ f # "storage" => \A j \in DOMAIN tasks : tasks'[j].storage = tasks[j].storage
           /\ i \in DOMAIN tasks /\ f = "status" => tasks'[i].status = v
           /\ i \in DOMAIN tasks /\ f = "requested" => tasks'[i].requested = v
           /\ i \in DOMAIN tasks /\ f = "storage" => tasks'[i].storage = v
  <1>1. CASE f = "status"
    BY ZenonT(60), <1>1 DEF TypeOK, Updated, There, Row
  <1>2. CASE f = "requested"
    BY ZenonT(60), <1>2 DEF TypeOK, Updated, There, Row
  <1>3. CASE f = "storage"
    BY ZenonT(60), <1>3 DEF TypeOK, Updated, There, Row
  <1> QED BY <1>1, <1>2, <1>3

\* Tasks that go leave the others as they are.
LEMMA WithoutIs ==
    ASSUME NEW S, tasks' = Without(S)
    PROVE  /\ DOMAIN tasks' = DOMAIN tasks \ S
           /\ \A j \in DOMAIN tasks' : tasks'[j] = tasks[j]
  BY DEF Without, Restrict

\* A task is inserted as it was submitted.
LEMMA InsertedIs ==
    ASSUME TypeOK, NEW r \in Requests, nextId \in Ids, nextId \notin DOMAIN tasks, key[r] \in Keys,
           tasks' = [i \in DOMAIN tasks \cup {nextId} |->
                        IF i # nextId THEN tasks[i]
                        ELSE [key |-> key[r], kind |-> kind[r], status |-> "pending",
                              requested |-> FALSE, storage |-> ""]]
    PROVE  /\ DOMAIN tasks' = DOMAIN tasks \cup {nextId}
           /\ \A j \in DOMAIN tasks : tasks'[j] = tasks[j]
           /\ tasks'[nextId] \in Row /\ tasks'[nextId].key = key[r]
           /\ ~tasks'[nextId].requested /\ tasks'[nextId].storage = ""
           /\ tasks'[nextId].status = "pending"
  BY DEF TypeOK, Row

\* The archives after one was asked for.
LEMMA EnqueuedIs ==
    ASSUME TypeOK, NEW i \in Ids, archive' = Enqueued(i)
    PROVE  /\ DOMAIN archive' = DOMAIN archive \cup {i}
           /\ \A j \in DOMAIN archive : archive'[j] = archive[j]
           /\ i \notin DOMAIN archive => archive'[i] = "queued"
           /\ \A j \in DOMAIN archive' :
                archive'[j] \in {"queued", "fetch", "save", "settle", "failing", "leaving"}
  BY DEF TypeOK, Enqueued


\* An update of the storage touches nothing else.
LEMMA StorageIs ==
    ASSUME TypeOK, NEW i, NEW v \in {"pending", "stored", "failed"},
           tasks' = Updated(i, "storage", v)
    PROVE  /\ DOMAIN tasks' = DOMAIN tasks
           /\ \A j \in DOMAIN tasks :
                 /\ tasks'[j].key = tasks[j].key /\ tasks'[j].kind = tasks[j].kind
                 /\ tasks'[j].status = tasks[j].status
                 /\ tasks'[j].requested = tasks[j].requested
                 /\ \/ tasks'[j].storage = tasks[j].storage
                    \/ j = i /\ tasks'[j].storage = v
           /\ i \in DOMAIN tasks => tasks'[i].storage = v
  <1>1. DOMAIN tasks' = DOMAIN tasks
    BY UpdatedIs
  <1>2. \A j \in DOMAIN tasks : j # i => tasks'[j] = tasks[j]
    BY DEF Updated
  <1>3. i \in DOMAIN tasks => tasks'[i].storage = v
    BY UpdatedIs
  <1>4. \A j \in DOMAIN tasks :
          /\ tasks'[j].key = tasks[j].key /\ tasks'[j].kind = tasks[j].kind
          /\ tasks'[j].status = tasks[j].status
          /\ tasks'[j].requested = tasks[j].requested
    BY UpdatedIs
  <1> QED BY <1>1, <1>2, <1>3, <1>4

\* Nor does one of the status touch anything else.
LEMMA StatusIs ==
    ASSUME TypeOK, NEW i, NEW v \in {"succeeded", "failed"}, tasks' = Updated(i, "status", v)
    PROVE  /\ DOMAIN tasks' = DOMAIN tasks
           /\ \A j \in DOMAIN tasks :
                 /\ tasks'[j].key = tasks[j].key /\ tasks'[j].kind = tasks[j].kind
                 /\ tasks'[j].storage = tasks[j].storage
                 /\ tasks'[j].requested = tasks[j].requested
           /\ \A j \in DOMAIN tasks : j # i => tasks'[j] = tasks[j]
           /\ i \in DOMAIN tasks => tasks'[i].status = v
  <1>1. \A j \in DOMAIN tasks : j # i => tasks'[j] = tasks[j]
    BY DEF Updated
  <1> QED BY <1>1, UpdatedIs

\* An archive that moves on.
LEMMA StepIs ==
    ASSUME TypeOK, NEW i, NEW from, NEW to, Step(i, from, to)
    PROVE  /\ i \in DOMAIN archive /\ DOMAIN archive' = DOMAIN archive
           /\ archive[i] = from /\ archive'[i] = to
           /\ \A j \in DOMAIN archive : j # i => archive'[j] = archive[j]
  BY DEF TypeOK, Step
(***************************************************************************)
(* Types, group by group                                                   *)
(***************************************************************************)
TasksTyped ==
    /\ DOMAIN tasks \subseteq Ids
    /\ \A i \in DOMAIN tasks : tasks[i] \in Row
    /\ artifacts \subseteq DOMAIN tasks
    /\ nextId \in 1..(MaxTasks + 1)

RequestsTyped ==
    /\ pc \in [Requests -> {"idle", "count", "lookup", "insert", "call", "request", "discard",
                            "fail", "succeed", "images", "stored", "lost", "query", "storage",
                            "enqueue"}]
    /\ key \in [Requests -> Keys \cup {NoKey}]
    /\ kind \in [Requests -> Kinds]
    /\ id \in [Requests -> 0..MaxTasks]

ArchivesTyped ==
    /\ DOMAIN archive \subseteq Ids
    /\ \A i \in DOMAIN archive :
           archive[i] \in {"queued", "fetch", "save", "settle", "failing", "leaving"}
    /\ listing \in BOOLEAN
    /\ resume \subseteq Ids

RestTyped ==
    /\ job \in [Ids -> {"none", "running", "done", "refused", "made"}]
    /\ removed \subseteq Ids /\ cutShort \subseteq Ids
    /\ behind \subseteq Ids /\ untraced \subseteq Ids
    /\ successes \in [Ids -> 0..2]
    /\ events \in 0..MaxEvents

\* The groups are the whole type invariant.
LEMMA TypeGroups ==
    /\ TypeOK <=> TasksTyped /\ RequestsTyped /\ ArchivesTyped /\ RestTyped
    /\ TypeOK' <=> TasksTyped' /\ RequestsTyped' /\ ArchivesTyped' /\ RestTyped'
  BY DEF TypeOK, TasksTyped, RequestsTyped, ArchivesTyped, RestTyped

\* What is not touched keeps its types.
LEMMA UntouchedTypes ==
    /\ TasksTyped /\ UNCHANGED <<tasks, artifacts, nextId>> => TasksTyped'
    /\ RequestsTyped /\ UNCHANGED requests => RequestsTyped'
    /\ ArchivesTyped /\ UNCHANGED archiver => ArchivesTyped'
    /\ RestTyped /\ UNCHANGED <<job, removed, cutShort, behind, untraced, successes, events>> => RestTyped'
  BY DEF TasksTyped, RequestsTyped, ArchivesTyped, RestTyped, requests, archiver, Row, Ids

\* An update of a field, and the removal of tasks with their artifacts.
LEMMA UpdateTypes ==
    ASSUME TypeOK, NEW i, NEW f \in {"status", "requested", "storage"}, NEW v,
           tasks' = Updated(i, f, v), f = "status" => v \in {"succeeded", "failed"},
           f = "requested" => v \in BOOLEAN, f = "storage" => v \in {"pending", "stored", "failed"},
           UNCHANGED <<artifacts, nextId>>
    PROVE  TasksTyped'
  BY UpdatedIs DEF TypeOK, TasksTyped

\* Where a request may be after a step, and what it knows then.
LEMMA RequestTypes ==
    ASSUME MediaAssumption, TypeOK, \A q \in Requests : AtPlace(q),
           NEW r \in Requests, Handling(r)
    PROVE  RequestsTyped'
  <1> USE DEF TypeOK, RequestsTyped, Goto
  <1>0. MaxTasks \in Nat /\ \A S : S \in SUBSET Ids => S \in SUBSET (0..MaxTasks)
    BY DEF MediaAssumption, Ids
  <1>1. Return(r) => RequestsTyped'
    BY <1>0 DEF Return, Kinds
  <1>2. CASE Submit(r)
    BY <1>2 DEF Submit
  <1>3. CASE CountPendingVideos(r)
    BY <1>1, <1>3 DEF CountPendingVideos
  <1>4. CASE Lookup(r)
    BY <1>1, <1>4 DEF Lookup
  <1>5. CASE Insert(r)
    <2>1. CASE OfKey(key[r]) # {}
      BY <1>1, <1>5, <2>1 DEF Insert
    <2>2. CASE OfKey(key[r]) = {}
      <3>1. nextId \in 0..MaxTasks /\ InsertBlind(r)
        BY <1>0, <1>5, <2>2 DEF Insert, InsertBlind
      <3> QED BY <3>1 DEF InsertBlind
    <2> QED BY <2>1, <2>2
  <1>6. CASE Call(r)
    BY <1>6 DEF Call
  <1>7. CASE SetUpstreamRequestID(r) \/ Discard(r) \/ MarkFailed(r) \/ SetImageStorage(r)
             \/ StatementFails(r) \/ Enqueue(r)
    BY <1>1, <1>7 DEF SetUpstreamRequestID, Discard, MarkFailed, SetImageStorage, StatementFails,
                      Enqueue
  <1>8. CASE MarkSucceeded(r)
    BY <1>1, <1>8 DEF MarkSucceeded
  <1>9. CASE ArchiveImages(r)
    BY <1>9 DEF ArchiveImages
  <1>10. CASE ListTasks(r)
    <2>1. PICK i \in PendingVideos : id' = [id EXCEPT ![r] = i]
      BY <1>10 DEF ListTasks
    <2>2. i \in 0..MaxTasks
      BY <1>0, <2>1 DEF PendingVideos
    <2> QED BY <1>10, <2>1, <2>2 DEF ListTasks
  <1>11. CASE QueryVideo(r)
    BY <1>1, <1>11 DEF QueryVideo
  <1>12. CASE SetStoragePending(r)
    BY <1>1, <1>12 DEF SetStoragePending
  <1> QED BY <1>2, <1>3, <1>4, <1>5, <1>6, <1>7, <1>8, <1>9, <1>10, <1>11, <1>12 DEF Handling

\* Who is told an id of the upstream holds a task.
LEMMA HeldAreTasks ==
    ASSUME \A q \in Requests : AtPlace(q), NEW R \in SUBSET Requests
    PROVE  Holding(R) \subseteq Ids
  BY DEF Holding, AtPlace

\* A request leaves the tasks in their types, and everything else too.
LEMMA TypesOfRequests ==
    ASSUME MediaAssumption, TypeOK, \A q \in Requests : AtPlace(q),
           NEW r \in Requests, Handling(r)
    PROVE  TypeOK'
  <1>0. /\ MaxTasks \in Nat /\ MaxEvents \in Nat /\ (Event => events' \in 0..MaxEvents)
        /\ TasksTyped /\ RequestsTyped /\ ArchivesTyped /\ RestTyped
    <2>1. TasksTyped /\ RequestsTyped /\ ArchivesTyped /\ RestTyped
      BY TypeGroups
    <2> QED BY <2>1 DEF MediaAssumption, Event, RestTyped
  <1>1. RequestsTyped'
    BY RequestTypes
  <1>2. CASE Submit(r) \/ CountPendingVideos(r) \/ Lookup(r) \/ ListTasks(r) \/ QueryVideo(r)
    <2>1. UNCHANGED <<tasks, artifacts, nextId, job, archiver, removed, cutShort, behind, untraced, successes>>
          /\ events' \in 0..MaxEvents
      BY <1>0, <1>2 DEF Submit, CountPendingVideos, Lookup, ListTasks, QueryVideo, rows, history,
                        RestTyped
    <2> QED BY <1>0, <1>1, <2>1, UntouchedTypes, TypeGroups DEF RestTyped
  <1>3. CASE Insert(r)
    <2>1. CASE OfKey(key[r]) # {}
      <3>1. UNCHANGED <<tasks, artifacts, nextId, job, archiver, removed, cutShort, behind, untraced, successes,
                      events>>
        BY <1>3, <2>1 DEF Insert, rows, history
      <3> QED BY <1>0, <1>1, <3>1, UntouchedTypes, TypeGroups
    <2>2. CASE OfKey(key[r]) = {}
      <3>1. InsertBlind(r) /\ nextId \in Ids /\ key[r] \in Keys /\ kind[r] \in Kinds
        BY <1>0, <1>3, <2>2 DEF Insert, InsertBlind, AtPlace, RequestsTyped
      <3>2. UNCHANGED <<artifacts, job, archiver, removed, cutShort, behind, untraced, successes, events>>
            /\ nextId' = nextId + 1
        BY <3>1 DEF InsertBlind, history
      <3>3. DOMAIN tasks' = DOMAIN tasks \cup {nextId} /\ \A i \in DOMAIN tasks' : tasks'[i] \in Row
        BY <1>0, <3>1 DEF InsertBlind, Row, Kinds, TasksTyped
      <3>4. TasksTyped'
        BY <1>0, <3>1, <3>2, <3>3 DEF TasksTyped, Ids
      <3> QED BY <1>0, <1>1, <3>2, <3>4, UntouchedTypes, TypeGroups
    <2> QED BY <2>1, <2>2
  <1>4. CASE Call(r)
    <2>1. /\ UNCHANGED <<tasks, artifacts, nextId, archiver, removed, cutShort, behind, successes>>
          /\ events' \in 0..MaxEvents
          /\ job' \in [Ids -> {"none", "running", "done", "refused", "made"}]
      BY <1>0, <1>4 DEF Call, rows, RestTyped
    <2>2. untraced' \subseteq Ids
      BY <1>0, <1>4 DEF Call, AtPlace, RestTyped
    <2> QED BY <1>0, <1>1, <2>1, <2>2, UntouchedTypes, TypeGroups DEF RestTyped
  <1>9. CASE StatementFails(r)
    <2>1. /\ UNCHANGED <<tasks, artifacts, nextId, job, archiver, removed, cutShort, behind,
                         successes>>
          /\ events' \in 0..MaxEvents
      BY <1>0, <1>9 DEF StatementFails, rows
    <2>2. untraced' \subseteq Ids
      BY <1>0, <1>9, HeldAreTasks DEF StatementFails, RestTyped
    <2> QED BY <1>0, <1>1, <2>1, <2>2, UntouchedTypes, TypeGroups DEF RestTyped
  <1>5. CASE SetUpstreamRequestID(r) \/ MarkFailed(r) \/ SetImageStorage(r) \/ SetStoragePending(r)
    <2>1. UNCHANGED <<artifacts, nextId, job, archiver, removed, cutShort, behind, untraced, successes, events>>
      BY <1>5 DEF SetUpstreamRequestID, MarkFailed, SetImageStorage, SetStoragePending, history
    <2>2. TasksTyped'
      BY <1>5, <2>1, UpdateTypes DEF SetUpstreamRequestID, MarkFailed, SetImageStorage,
                                     SetStoragePending
    <2> QED BY <1>0, <1>1, <2>1, <2>2, UntouchedTypes, TypeGroups
  <1>6. CASE MarkSucceeded(r)
    <2>1. /\ UNCHANGED <<artifacts, nextId, job, archiver, removed, cutShort, behind, untraced,
                         events>>
          /\ successes' \in [Ids -> 0..2]
      BY <1>0, <1>6 DEF MarkSucceeded, There, RestTyped
    <2>2. TasksTyped'
      BY <1>6, <2>1, UpdateTypes DEF MarkSucceeded
    <2> QED BY <1>0, <1>1, <2>1, <2>2, UntouchedTypes, TypeGroups DEF RestTyped
  <1>7. CASE Discard(r) \/ ArchiveImages(r)
    <2>1. UNCHANGED <<nextId, job, archiver, removed, cutShort, behind, untraced, successes, events>>
      BY <1>7 DEF Discard, ArchiveImages, history
    <2>2. TasksTyped'
      BY <1>0, <1>7, WithoutIs DEF Discard, ArchiveImages, TasksTyped, There
    <2> QED BY <1>0, <1>1, <2>1, <2>2, UntouchedTypes, TypeGroups
  <1>8. CASE Enqueue(r)
    <2>1. id[r] \in Ids
      BY <1>8 DEF Enqueue, AtPlace
    <2>2. UNCHANGED <<tasks, artifacts, nextId, job, listing, resume, removed, cutShort, behind, untraced, successes,
                      events>>
      BY <1>8 DEF Enqueue, rows, history
    <2>3. ArchivesTyped'
      BY <1>0, <1>8, <2>1, <2>2, EnqueuedIs DEF Enqueue, ArchivesTyped
    <2> QED BY <1>0, <1>1, <2>2, <2>3, UntouchedTypes, TypeGroups
  <1> QED BY <1>2, <1>3, <1>4, <1>5, <1>6, <1>7, <1>8, <1>9 DEF Handling

\* So do the archives, a restart, the upstream, the user and the cleanup.
LEMMA TypesOfOthers ==
    ASSUME MediaAssumption, TypeOK, \A q \in Requests : AtPlace(q),
           \/ \E i \in Ids : Archiving(i) \/ ResumeOne(i) \/ Finish(i) \/ DeleteTask(i)
           \/ Restart \/ ListPendingStorage \/ Cleanup
    PROVE  TypeOK'
  <1>0. /\ MaxTasks \in Nat /\ MaxEvents \in Nat /\ (Event => events' \in 0..MaxEvents)
        /\ TasksTyped /\ RequestsTyped /\ ArchivesTyped /\ RestTyped
    <2>1. TasksTyped /\ RequestsTyped /\ ArchivesTyped /\ RestTyped
      BY TypeGroups
    <2> QED BY <2>1 DEF MediaAssumption, Event, RestTyped
  <1>1. ASSUME NEW i \in Ids, Archiving(i) PROVE TypeOK'
    <2>1. UNCHANGED <<nextId, job, requests, listing, resume, removed, successes, behind, untraced>>
      BY <1>1 DEF Archiving, TakeSlot, PutObject, SaveArtifact, SetStored, SetStorageFailed,
                  CutShort, Leave, rows, history
    <2>2. events' \in 0..MaxEvents /\ cutShort' \subseteq Ids
      BY <1>0, <1>1 DEF Archiving, TakeSlot, PutObject, SaveArtifact, SetStored,
                        SetStorageFailed, CutShort, Leave, history, RestTyped
    <2>3. ArchivesTyped'
      <3>1. CASE Leave(i)
        BY <1>0, <2>1, <3>1 DEF Leave, Restrict, ArchivesTyped
      <3>2. CASE ~Leave(i)
        <4>1. PICK to \in {"fetch", "save", "settle", "failing", "leaving"} :
                archive' = [archive EXCEPT ![i] = to]
          BY <1>1, <3>2 DEF Archiving, Step, TakeSlot, PutObject, SaveArtifact, SetStored,
                            SetStorageFailed, CutShort
        <4> QED BY <1>0, <2>1, <4>1 DEF ArchivesTyped
      <3> QED BY <3>1, <3>2
    <2>4. TasksTyped'
      <3>1. CASE tasks' = tasks /\ artifacts' \in {artifacts, artifacts \cup {i}}
                 /\ (artifacts' # artifacts => There(i))
        BY <1>0, <2>1, <3>1 DEF TasksTyped, There
      <3>2. CASE artifacts' = artifacts
                 /\ \/ tasks' = Updated(i, "storage", "stored")
                    \/ tasks' = Updated(i, "storage", "failed")
        BY <2>1, <3>2, UpdateTypes
      <3> QED BY <1>1, <3>1, <3>2
          DEF Archiving, TakeSlot, PutObject, SaveArtifact, SetStored, SetStorageFailed, CutShort,
              Leave, rows
    <2> QED BY <1>0, <2>1, <2>2, <2>3, <2>4, UntouchedTypes, TypeGroups DEF RestTyped
  <1>2. ASSUME NEW i \in Ids, ResumeOne(i) PROVE TypeOK'
    <2>1. UNCHANGED <<artifacts, nextId, job, requests, listing, removed, successes, cutShort, behind, untraced,
                    events>>
          /\ resume' \subseteq Ids
      BY <1>0, <1>2 DEF ResumeOne, history, ArchivesTyped
    <2>2. CASE archive' = Enqueued(i) /\ UNCHANGED tasks
      <3>1. ArchivesTyped'
        BY <1>0, <2>1, <2>2, EnqueuedIs DEF ArchivesTyped
      <3> QED BY <1>0, <2>1, <2>2, <3>1, UntouchedTypes, TypeGroups
    <2>3. CASE tasks' = Updated(i, "storage", "failed") /\ UNCHANGED archive
      <3>1. TasksTyped' /\ ArchivesTyped'
        BY <1>0, <2>1, <2>3, UpdateTypes DEF ArchivesTyped
      <3> QED BY <1>0, <2>1, <3>1, UntouchedTypes, TypeGroups
    <2> QED BY <1>2, <2>2, <2>3 DEF ResumeOne
  <1>3. ASSUME NEW i \in Ids, Finish(i) PROVE TypeOK'
    <2>1. UNCHANGED <<tasks, artifacts, nextId, requests, archiver, removed, successes, cutShort, behind, untraced,
                    events>>
          /\ job' \in [Ids -> {"none", "running", "done", "refused", "made"}]
      BY <1>0, <1>3 DEF Finish, rows, history, RestTyped
    <2> QED BY <1>0, <2>1, UntouchedTypes, TypeGroups DEF RestTyped
  <1>4. ASSUME NEW S \in SUBSET DOMAIN tasks, Remove(S) PROVE TypeOK'
    <2>1. UNCHANGED <<nextId, job, requests, archiver, successes, cutShort, behind, untraced>>
          /\ events' \in 0..MaxEvents /\ removed' \subseteq Ids
      BY <1>0, <1>4 DEF Remove, RestTyped, TasksTyped
    <2>2. TasksTyped'
      BY <1>0, <1>4, <2>1, WithoutIs DEF Remove, TasksTyped
    <2> QED BY <1>0, <2>1, <2>2, UntouchedTypes, TypeGroups DEF RestTyped
  <1>5. CASE Restart
    <2>1. UNCHANGED <<tasks, artifacts, nextId, job, removed, successes, cutShort>>
          /\ events' \in 0..MaxEvents
      BY <1>0, <1>5 DEF Restart, rows
    <2>2. behind' = {} /\ untraced' \subseteq Ids
      BY <1>0, <1>5, HeldAreTasks DEF Restart, RestTyped
    <2>3. RequestsTyped' /\ ArchivesTyped'
      BY <1>0, <1>5 DEF Restart, RequestsTyped, ArchivesTyped, Kinds
    <2> QED BY <1>0, <2>1, <2>2, <2>3, UntouchedTypes, TypeGroups DEF RestTyped
  <1>6. CASE ListPendingStorage
    <2>1. UNCHANGED <<tasks, artifacts, nextId, job, requests, archive, removed, successes, untraced>>
          /\ events' \in 0..MaxEvents
      BY <1>0, <1>6 DEF ListPendingStorage, rows, RestTyped
    <2>2. /\ Interrupted \subseteq Ids /\ listing' = FALSE
          /\ resume' \in {resume, First(Interrupted)}
          /\ behind' \in {behind, Interrupted \ First(Interrupted)}
          /\ cutShort' \in {cutShort, cutShort \cup Interrupted}
      BY <1>0, <1>6 DEF ListPendingStorage, Interrupted, TasksTyped
    <2>3. First(Interrupted) \subseteq Interrupted
      BY DEF First
    <2>4. resume' \subseteq Ids /\ cutShort' \subseteq Ids /\ behind' \subseteq Ids
      BY <1>0, <2>2, <2>3 DEF ArchivesTyped, RestTyped
    <2> QED BY <1>0, <2>1, <2>2, <2>4, UntouchedTypes, TypeGroups DEF RestTyped, ArchivesTyped
  <1>7. ASSUME NEW i \in Ids, DeleteTask(i) PROVE \E S \in SUBSET DOMAIN tasks : Remove(S)
    BY <1>7 DEF DeleteTask, There
  <1>8. ASSUME Cleanup PROVE \E S \in SUBSET DOMAIN tasks : Remove(S)
    BY <1>8 DEF Cleanup
  <1> QED BY <1>1, <1>2, <1>3, <1>4, <1>5, <1>6, <1>7, <1>8

(***************************************************************************)
(* What is paid for                                                        *)
(***************************************************************************)
\* What every step but an insertion does to tasks, artifacts and jobs.
Kept ==
    /\ nextId' = nextId /\ removed \subseteq removed'
    /\ DOMAIN tasks' \subseteq DOMAIN tasks
    /\ \A i \in DOMAIN tasks \ DOMAIN tasks' :
          \/ i \in removed'
          \/ job' = job /\ \E r \in Requests : pc[r] = "discard" /\ id[r] = i
    /\ \A i \in DOMAIN tasks' :
          /\ tasks'[i].key = tasks[i].key
          /\ tasks'[i].requested => tasks[i].requested \/ job[i] # "none"
          /\ tasks[i].requested => tasks'[i].requested
          /\ tasks'[i].storage = "stored" => tasks[i].storage = "stored" \/ i \in artifacts
          /\ i \in artifacts => i \in artifacts'

\* A job comes to run when it is called, and is never taken back.
JobsKept ==
    \A i \in Ids :
        \/ job'[i] = job[i]
        \/ job[i] = "running" /\ job'[i] \in {"done", "refused"}
        \/ /\ job[i] = "none" /\ job'[i] \in {"running", "made"}
           /\ \E r \in Requests : pc[r] = "call" /\ id[r] = i /\ pc'[r] # "call"
           /\ job'[i] = "running" => i \in Holding(Requests)' \cup untraced'

\* Who has been told the upstream's id of a task stores it, or goes on as he is, or the id
\* is lost with him.
TracesKept ==
    /\ untraced \subseteq untraced'
    /\ \A r \in Requests : pc[r] = "request" =>
          \/ pc'[r] = "request" /\ id'[r] = id[r]
          \/ id[r] \in untraced'
          \/ id[r] \in DOMAIN tasks' => tasks'[id[r]].requested

\* A request that moves is where it says; it knows its task, or one that was submitted.
Moved ==
    \A r \in Requests :
        /\ \/ id'[r] \in {id[r], 0}
           \/ id'[r] \in Ids /\ id'[r] < nextId /\ job[id'[r]] # "none"
        /\ \/ AtPlace(r)'
           \/ pc'[r] = pc[r] /\ key'[r] = key[r] /\ id'[r] = id[r]

ArchivesKept ==
    /\ \A i \in DOMAIN archive' \cup resume' : i < nextId
    /\ \A i \in DOMAIN archive' :
          archive'[i] = "settle" => \/ i \in artifacts'
                                    \/ i \in DOMAIN archive /\ archive[i] = "settle"

\* A step that is all five, and records successes only of tasks there are, keeps what is
\* paid for.
LEMMA PaidKept ==
    ASSUME MediaAssumption, TypeOK, TypeOK', Paid, Kept, JobsKept, TracesKept, Moved, ArchivesKept,
           \A i \in Ids : successes'[i] # successes[i] => i < nextId
    PROVE  Paid'
  <1>0. /\ nextId \in Nat /\ nextId' = nextId
        /\ DOMAIN tasks \subseteq Ids /\ \A r \in Requests : id[r] \in Nat
        /\ job \in [Ids -> {"none", "running", "done", "refused", "made"}]
    BY DEF Kept, TypeOK, MediaAssumption, Ids
  <1>1. Given'
    <2>1. \A r \in Requests : id'[r] < nextId
      BY <1>0 DEF Moved, Paid, Given, TypeOK
    <2>2. ASSUME NEW i \in Ids, i >= nextId PROVE job'[i] = "none" /\ successes'[i] = 0
      <3>1. job[i] = "none" /\ successes[i] = 0
        BY <2>2 DEF Paid, Given
      <3>2. successes'[i] = 0
        BY <1>0, <2>2, <3>1 DEF Ids, MediaAssumption
      <3>3. \A r \in Requests : id[r] # i
        BY <1>0, <2>2 DEF Paid, Given, Ids, MediaAssumption
      <3> QED BY <3>1, <3>2, <3>3 DEF JobsKept
    <2>3. \A i \in DOMAIN tasks' : i < nextId
      BY DEF Kept, Paid, Given
    <2> QED BY <1>0, <2>1, <2>2, <2>3 DEF Given, ArchivesKept, Ids
  <1>2. OneTaskPerKey'
    BY DEF Paid, Kept, OneTaskPerKey
  <1>3. Submitted'
    BY <1>0 DEF Paid, Kept, Submitted, JobsKept
  <1>4. Saved'
    BY DEF Paid, Kept, Saved, ArchivesKept, There
  <1>5. StoredHasArtifact'
    BY DEF Paid, Kept, StoredHasArtifact
  <1>6. SpendTraced'
    <2> DEFINE paid(j) == j \in {"running", "done", "refused"}
               asked == Holding(Requests)'
    <2> SUFFICES ASSUME NEW i \in Ids, i \notin removed'
                 PROVE  /\ paid(job'[i]) => /\ There(i)'
                                            /\ tasks'[i].requested \/ i \in asked \cup untraced'
                        /\ job'[i] = "made" => There(i)' \/ i \in untraced'
      BY DEF SpendTraced, Ids
    <2>1. i \notin removed /\ untraced \subseteq untraced'
      BY DEF Kept, TracesKept
    <2>2. There(i) /\ ~There(i)' =>
             job' = job /\ (job[i] = "none" \/ (job[i] = "made" /\ i \in untraced))
      BY DEF Kept, Paid, AtPlace, There
    <2>3. CASE paid(job[i])
      <3>1. /\ There(i) /\ There(i)' /\ paid(job'[i])
            /\ tasks[i].requested \/ i \in untraced
               \/ \E r \in Requests : pc[r] = "request" /\ id[r] = i
        BY <2>1, <2>2, <2>3 DEF Paid, SpendTraced, JobsKept, Holding
      <3>2. CASE tasks[i].requested \/ i \in untraced
        BY <2>1, <3>1, <3>2 DEF Kept, There
      <3>3. CASE \E r \in Requests : pc[r] = "request" /\ id[r] = i
        <4>1. PICK r \in Requests : pc[r] = "request" /\ id[r] = i
          BY <3>3
        <4>2. \/ pc'[r] = "request" /\ id'[r] = i
              \/ i \in untraced'
              \/ tasks'[i].requested
          BY <3>1, <4>1 DEF TracesKept, There
        <4>3. tasks'[i].requested \/ i \in asked \cup untraced'
          BY <4>2 DEF Holding
        <4> QED BY <3>1, <4>3
      <3> QED BY <3>1, <3>2, <3>3
    <2>4. CASE job[i] = "made"
      <3>1. job'[i] = "made" /\ (There(i) \/ i \in untraced)
        BY <2>1, <2>4 DEF Paid, SpendTraced, JobsKept
      <3> QED BY <2>1, <2>2, <3>1
    <2>5. CASE job[i] = "none" /\ job'[i] # "none"
      <3>1. /\ There(i) /\ job' # job /\ job'[i] \in {"running", "made"}
            /\ job'[i] = "running" => i \in asked \cup untraced'
        BY <2>1, <2>5 DEF Paid, AtPlace, JobsKept
      <3> QED BY <2>2, <3>1
    <2> QED BY <1>0, <2>3, <2>4, <2>5
  <1>7. ASSUME NEW q \in Requests, ~AtPlace(q)' PROVE FALSE
    <2>1. pc'[q] = pc[q] /\ key'[q] = key[q] /\ id'[q] = id[q] /\ AtPlace(q)
      BY <1>7 DEF Moved, Paid
    <2>2. ASSUME pc[q] = "call"
          PROVE  /\ job'[id[q]] = "none"
                 /\ \A p \in Requests \ {q} : id'[p] # id[q]
                 /\ There(id[q])' \/ id[q] \in removed'
      <3>1. /\ id[q] \in Ids /\ job[id[q]] = "none"
            /\ \A p \in Requests \ {q} : id[p] # id[q]
            /\ id[q] \in DOMAIN tasks \/ id[q] \in removed
        BY <2>1, <2>2 DEF AtPlace, There
      <3>2. job'[id[q]] = "none"
        BY <2>1, <2>2, <3>1 DEF JobsKept
      <3>3. \A p \in Requests \ {q} : id'[p] # id[q]
        BY <3>1 DEF Moved, Ids
      <3>4. id[q] \in DOMAIN tasks' \/ id[q] \in removed'
        <4>1. ~\E r \in Requests : pc[r] = "discard" /\ id[r] = id[q]
          BY <2>2, <3>1
        <4>2. CASE id[q] \in removed
          BY <4>2 DEF Kept
        <4>3. ASSUME id[q] \in DOMAIN tasks, id[q] \notin DOMAIN tasks' PROVE id[q] \in removed'
          <5>1. id[q] \in DOMAIN tasks \ DOMAIN tasks'
            BY <4>3
          <5>2. PICK i \in DOMAIN tasks \ DOMAIN tasks' : i = id[q]
            BY <5>1
          <5>3. \/ i \in removed'
                \/ job' = job /\ \E r \in Requests : pc[r] = "discard" /\ id[r] = i
            BY DEF Kept
          <5> QED BY <4>1, <5>2, <5>3
        <4> QED BY <3>1, <4>2, <4>3
      <3> QED BY <2>1, <3>2, <3>3, <3>4 DEF There
    <2>3. pc[q] = "request" => job'[id[q]] # "none"
      BY <2>1 DEF AtPlace, JobsKept
    <2>4. ASSUME pc[q] = "discard"
          PROVE  job'[id[q]] = "none" \/ (job'[id[q]] = "made" /\ id[q] \in untraced')
      <3>1. /\ id[q] \in Ids /\ untraced \subseteq untraced'
            /\ job[id[q]] = "none" \/ (job[id[q]] = "made" /\ id[q] \in untraced)
        BY <2>1, <2>4 DEF AtPlace, TracesKept
      <3>2. \A r \in Requests : pc[r] = "call" => id[r] # id[q]
        BY <2>4 DEF Paid, AtPlace
      <3> QED BY <3>1, <3>2 DEF JobsKept
    <2>5. pc[q] = "stored" /\ There(id[q])' => id[q] \in artifacts'
      BY <2>1 DEF AtPlace, There, Kept
    <2> QED BY <1>7, <2>1, <2>2, <2>3, <2>4, <2>5 DEF AtPlace, Ids
  <1> QED BY <1>1, <1>2, <1>3, <1>4, <1>5, <1>6, <1>7 DEF Paid

\* A request that returns, or goes on with the task it has, is where it says.
LEMMA ReturnMoves ==
    ASSUME TypeOK, NEW r \in Requests, Return(r)
    PROVE  /\ Moved
           /\ \A q \in Requests : pc'[q] = "idle" \/ (pc'[q] = pc[q] /\ id'[q] = id[q])
           /\ pc'[r] = "idle"
           /\ \A q \in Requests \ {r} : pc'[q] = pc[q] /\ id'[q] = id[q]
  <1>1. /\ pc'[r] = "idle" /\ id'[r] = 0
        /\ \A q \in Requests \ {r} : pc'[q] = pc[q] /\ key'[q] = key[q] /\ id'[q] = id[q]
    BY DEF TypeOK, Return, Goto
  <1>2. AtPlace(r)'
    BY <1>1 DEF AtPlace
  <1> QED BY <1>1, <1>2 DEF Moved

\* The same for a request that goes on.
LEMMA GotoMoves ==
    ASSUME TypeOK, NEW r \in Requests, NEW l, Goto(r, l), UNCHANGED <<key, id>>
    PROVE  /\ pc'[r] = l /\ AtPlace(r)' => Moved
           /\ pc'[r] = l
           /\ \A q \in Requests : id'[q] = id[q]
           /\ \A q \in Requests \ {r} : pc'[q] = pc[q]
  <1>1. pc'[r] = l /\ \A q \in Requests \ {r} : pc'[q] = pc[q]
    BY DEF TypeOK, Goto
  <1> QED BY <1>1 DEF Moved

\* A request moves alone.
LEMMA OthersStay ==
    ASSUME TypeOK, NEW r \in Requests, Handling(r)
    PROVE  \A q \in Requests \ {r} : pc'[q] = pc[q] /\ id'[q] = id[q]
  <1>1. Return(r) => \A q \in Requests \ {r} : pc'[q] = pc[q] /\ id'[q] = id[q]
    BY ReturnMoves
  <1>2. ASSUME NEW l, NEW i, Goto(r, l), id' = id \/ id' = [id EXCEPT ![r] = i]
        PROVE  \A q \in Requests \ {r} : pc'[q] = pc[q] /\ id'[q] = id[q]
    BY <1>2 DEF Goto, TypeOK
  <1>3. \/ Return(r)
        \/ \E l, i : Goto(r, l) /\ (id' = id \/ id' = [id EXCEPT ![r] = i])
    BY DEF Handling, Submit, CountPendingVideos, Lookup, Insert, InsertBlind, Call,
           SetUpstreamRequestID, Discard, MarkFailed, MarkSucceeded, ArchiveImages,
           SetImageStorage, StatementFails, ListTasks, QueryVideo, SetStoragePending, Enqueue
  <1> QED BY <1>1, <1>2, <1>3

\* It stores the id it was told, or fails to.
LEMMA RequestTraces ==
    ASSUME TypeOK, NEW r \in Requests, Handling(r)
    PROVE  TracesKept
  <1>1. \A q \in Requests \ {r} : pc'[q] = pc[q] /\ id'[q] = id[q]
    BY OthersStay
  <1>2. CASE SetUpstreamRequestID(r)
    <2>1. tasks' = Updated(id[r], "requested", TRUE) /\ untraced' = untraced
      BY <1>2 DEF SetUpstreamRequestID, history
    <2>2. id[r] \in DOMAIN tasks' => tasks'[id[r]].requested
      <3>1. /\ DOMAIN tasks' = DOMAIN tasks
            /\ id[r] \in DOMAIN tasks => tasks'[id[r]].requested = TRUE
        BY <2>1, UpdatedIs
      <3> QED BY <3>1
    <2> QED BY <1>1, <2>1, <2>2 DEF TracesKept
  <1>3. CASE StatementFails(r)
    <2>1. untraced' = untraced \cup Holding({r})
      BY <1>3 DEF StatementFails
    <2> QED BY <1>1, <2>1 DEF TracesKept, Holding
  <1>4. CASE ~SetUpstreamRequestID(r) /\ ~StatementFails(r)
    <2>1. pc[r] # "request" /\ untraced \subseteq untraced'
      BY <1>4 DEF Handling, Submit, CountPendingVideos, Lookup, Insert, InsertBlind, Call,
           Discard, MarkFailed, MarkSucceeded, ArchiveImages, SetImageStorage, ListTasks,
           QueryVideo, SetStoragePending, Enqueue, history
    <2> QED BY <1>1, <2>1 DEF TracesKept
  <1> QED BY <1>2, <1>3, <1>4

\* Every step of a request but an insertion keeps what is paid for.
LEMMA RequestKeeps ==
    ASSUME MediaAssumption, TypeOK, TypeOK', Paid, NEW r \in Requests, Handling(r),
           ~(Insert(r) /\ OfKey(key[r]) = {})
    PROVE  Paid'
  <1>0. /\ AtPlace(r) /\ id[r] < nextId /\ nextId \in Nat
        /\ \A i \in DOMAIN archive \cup resume \cup DOMAIN tasks : i < nextId
    BY DEF Paid, Given, TypeOK, MediaAssumption
  <1>a. UNCHANGED <<tasks, artifacts, nextId, removed>> => Kept
    BY DEF Kept
  <1>b. UNCHANGED archiver => ArchivesKept
    BY <1>0 DEF archiver, ArchivesKept
  <1>c. UNCHANGED job => JobsKept
    BY DEF JobsKept
  <1>d. UNCHANGED successes => \A i \in Ids : successes'[i] # successes[i] => i < nextId
    OBVIOUS
  <1>f. TracesKept
    BY RequestTraces
  <1>1. CASE Submit(r)
    <2>1. PICK k \in Keys, what \in Kinds :
            /\ key' = [key EXCEPT ![r] = k]
            /\ Goto(r, IF what = "video" THEN "count" ELSE "lookup")
      BY <1>1 DEF Submit
    <2>2. /\ key'[r] \in Keys /\ pc'[r] \in {"count", "lookup"} /\ id' = id
          /\ \A q \in Requests \ {r} : key'[q] = key[q] /\ pc'[q] = pc[q]
      BY <1>1, <2>1 DEF Submit, Goto, TypeOK
    <2>3. Moved
      BY <2>2 DEF Moved, AtPlace
    <2> QED BY <1>1, <1>a, <1>b, <1>c, <1>d, <2>3, <1>f, PaidKept DEF Submit, rows, history
  <1>2. CASE CountPendingVideos(r) \/ Lookup(r) \/ Insert(r) \/ StatementFails(r) \/ QueryVideo(r)
    <2>1. CASE Return(r)
      BY <1>2, <1>a, <1>b, <1>c, <1>d, <2>1, ReturnMoves, <1>f, PaidKept
      DEF CountPendingVideos, Lookup, Insert, StatementFails, QueryVideo, rows, history
    <2>2. ASSUME ~Return(r) PROVE Moved
      <3>1. PICK l \in {"lookup", "insert", "succeed", "fail"} :
              /\ Goto(r, l) /\ UNCHANGED <<key, id, job, artifacts>>
              /\ l \in {"lookup", "insert"} => pc[r] \in {"count", "lookup"}
              /\ l \in {"succeed", "fail"} => pc[r] = "query"
        BY <1>2, <2>2 DEF CountPendingVideos, Lookup, Insert, StatementFails, QueryVideo, rows
      <3>2. pc'[r] = l /\ key' = key /\ id' = id
        BY <3>1, GotoMoves
      <3>3. AtPlace(r)'
        BY <1>0, <3>1, <3>2 DEF AtPlace
      <3> QED BY <3>1, <3>2, <3>3, GotoMoves
    <2>3. CASE ~Return(r)
      BY <1>2, <1>a, <1>b, <1>c, <1>d, <2>2, <2>3, <1>f, PaidKept
      DEF CountPendingVideos, Lookup, Insert, StatementFails, QueryVideo, rows, history
    <2> QED BY <2>1, <2>3
  <1>3. CASE Call(r)
    <2>1. id[r] \in Ids /\ job[id[r]] = "none"
      BY <1>0, <1>3 DEF Call, AtPlace
    <2>2. PICK l \in {"request", "succeed", "fail", "discard"} :
            /\ Goto(r, l) /\ UNCHANGED <<key, id>>
            /\ l = "request" => job' = [job EXCEPT ![id[r]] = "running"]
            /\ l = "discard" => \/ job' = job
                                \/ job' = [job EXCEPT ![id[r]] = "made"] /\ id[r] \in untraced'
            /\ l # "request" /\ job' = [job EXCEPT ![id[r]] = "running"] /\ job' # job =>
                  id[r] \in untraced'
      <3>1. CASE kind[r] = "video"
        BY <1>3, <2>1, <3>1 DEF Call
      <3>2. CASE kind[r] # "video"
        <4>1. [job EXCEPT ![id[r]] = "made"] # [job EXCEPT ![id[r]] = "running"]
          BY <2>1 DEF TypeOK
        <4> QED BY <1>3, <3>2, <4>1 DEF Call
      <3> QED BY <3>1, <3>2
    <2>3. job' = job \/ job' = [job EXCEPT ![id[r]] = "running"]
                     \/ job' = [job EXCEPT ![id[r]] = "made"]
      BY <1>3 DEF Call
    <2>4. pc'[r] = l /\ id' = id /\ key' = key
      BY <2>2, GotoMoves
    <2>5. AtPlace(r)'
      BY <2>1, <2>2, <2>4 DEF AtPlace, TypeOK
    <2>6. Moved
      BY <2>2, <2>4, <2>5, GotoMoves
    <2>7. JobsKept
      <3>1. \A i \in Ids : i # id[r] => job'[i] = job[i]
        BY <2>3 DEF TypeOK
      <3>2. job'[id[r]] \in {"none", "running", "made"}
        BY <2>1, <2>3 DEF TypeOK
      <3>3. pc[r] = "call" /\ pc'[r] # "call"
        BY <1>3, <2>4 DEF Call
      <3>4. job'[id[r]] = "running" => id[r] \in Holding(Requests)' \cup untraced'
        <4>1. CASE l = "request"
          BY <2>4, <4>1 DEF Holding
        <4>2. ASSUME l # "request", job'[id[r]] = "running" PROVE id[r] \in untraced'
          <5>1. job' # job /\ job' = [job EXCEPT ![id[r]] = "running"]
            BY <2>1, <2>3, <4>2 DEF TypeOK
          <5> QED BY <2>2, <4>2, <5>1
        <4> QED BY <4>1, <4>2
      <3> QED BY <2>1, <3>1, <3>2, <3>3, <3>4 DEF JobsKept
    <2> QED BY <1>3, <1>a, <1>b, <1>d, <2>6, <2>7, <1>f, PaidKept DEF Call, rows, history
  <1>4. CASE SetUpstreamRequestID(r) \/ MarkFailed(r) \/ SetImageStorage(r)
    <2>1. Return(r) /\ UNCHANGED <<artifacts, nextId, job, archiver, removed, successes>>
      BY <1>4 DEF SetUpstreamRequestID, MarkFailed, SetImageStorage, history
    <2>2. CASE SetUpstreamRequestID(r)
      <3>1. job[id[r]] # "none" /\ tasks' = Updated(id[r], "requested", TRUE)
        BY <1>0, <2>2 DEF SetUpstreamRequestID, AtPlace
      <3>2. /\ DOMAIN tasks' = DOMAIN tasks
            /\ \A j \in DOMAIN tasks : tasks'[j].key = tasks[j].key
                                       /\ tasks'[j].storage = tasks[j].storage
            /\ \A j \in DOMAIN tasks : j # id[r] => tasks'[j] = tasks[j]
            /\ id[r] \in DOMAIN tasks => tasks'[id[r]].requested
        <4>1. \A j \in DOMAIN tasks : j # id[r] => tasks'[j] = tasks[j]
          BY <3>1 DEF Updated
        <4> QED BY <3>1, <4>1, UpdatedIs
      <3>3. Kept
        BY <2>1, <3>1, <3>2 DEF Kept
      <3> QED BY <1>b, <1>c, <1>d, <2>1, <3>3, ReturnMoves, <1>f, PaidKept
    <2>3. CASE MarkFailed(r)
      <3>1. Kept
        BY <2>1, <2>3, StatusIs DEF Kept, MarkFailed
      <3> QED BY <1>b, <1>c, <1>d, <2>1, <3>1, ReturnMoves, <1>f, PaidKept
    <2>4. CASE SetImageStorage(r)
      <3>1. CASE pc[r] = "stored"
        <4>1. tasks' = Updated(id[r], "storage", "stored")
          BY <2>4, <3>1 DEF SetImageStorage
        <4>2. id[r] \in DOMAIN tasks => id[r] \in artifacts
          BY <1>0, <3>1 DEF AtPlace, There
        <4>3. Kept
          BY <2>1, <4>1, <4>2, StorageIs DEF Kept
        <4> QED BY <1>b, <1>c, <1>d, <2>1, <4>3, ReturnMoves, <1>f, PaidKept
      <3>2. CASE pc[r] = "lost"
        <4>1. tasks' = Updated(id[r], "storage", "failed")
          BY <2>4, <3>2 DEF SetImageStorage
        <4>2. Kept
          BY <2>1, <4>1, StorageIs DEF Kept
        <4> QED BY <1>b, <1>c, <1>d, <2>1, <4>2, ReturnMoves, <1>f, PaidKept
      <3> QED BY <2>4, <3>1, <3>2 DEF SetImageStorage
    <2> QED BY <1>4, <2>2, <2>3, <2>4
  <1>5. CASE Discard(r)
    <2>1. /\ Return(r) /\ UNCHANGED <<nextId, job, archiver, removed, successes>>
          /\ tasks' = Without({id[r]}) /\ artifacts' = artifacts \ {id[r]} /\ pc[r] = "discard"
      BY <1>5 DEF Discard, history
    <2>2. DOMAIN tasks' = DOMAIN tasks \ {id[r]} /\ \A j \in DOMAIN tasks' : tasks'[j] = tasks[j]
      BY <2>1, WithoutIs
    <2>3. \A i \in DOMAIN tasks \ DOMAIN tasks' : pc[r] = "discard" /\ id[r] = i
      BY <2>1, <2>2
    <2>4. Kept
      BY <2>1, <2>2, <2>3 DEF Kept
    <2> QED BY <1>b, <1>c, <1>d, <2>1, <2>4, ReturnMoves, <1>f, PaidKept
  <1>6. CASE MarkSucceeded(r) \/ SetStoragePending(r)
    <2>1. /\ UNCHANGED <<artifacts, nextId, job, archiver, removed>>
          /\ \/ tasks' = Updated(id[r], "status", "succeeded")
             \/ tasks' = Updated(id[r], "storage", "pending")
      BY <1>6 DEF MarkSucceeded, SetStoragePending, history
    <2>2. Kept
      <3>1. CASE tasks' = Updated(id[r], "status", "succeeded")
        BY <2>1, <3>1, StatusIs DEF Kept
      <3>2. CASE tasks' = Updated(id[r], "storage", "pending")
        BY <2>1, <3>2, StorageIs DEF Kept
      <3> QED BY <2>1, <3>1, <3>2
    <2>3. \A i \in Ids : successes'[i] # successes[i] => i < nextId
      BY <1>0, <1>6 DEF MarkSucceeded, SetStoragePending, history, TypeOK
    <2>4. Moved
      <3>1. CASE Return(r)
        BY <3>1, ReturnMoves
      <3>2. ASSUME ~Return(r) PROVE Moved
        <4>1. PICK l \in {"storage", "images", "enqueue"} : Goto(r, l) /\ UNCHANGED <<key, id>>
          BY <1>6, <3>2 DEF MarkSucceeded, SetStoragePending
        <4>2. pc'[r] = l /\ id[r] \in Ids
          BY <1>0, <1>6, <4>1, GotoMoves DEF MarkSucceeded, SetStoragePending, AtPlace
        <4>3. AtPlace(r)'
          BY <4>1, <4>2 DEF AtPlace
        <4> QED BY <4>1, <4>2, <4>3, GotoMoves
      <3> QED BY <3>1, <3>2
    <2> QED BY <1>b, <1>c, <2>1, <2>2, <2>3, <2>4, <1>f, PaidKept
  <1>7. CASE ArchiveImages(r)
    <2>1. PICK l \in {"stored", "lost"} :
            /\ Goto(r, l) /\ UNCHANGED <<tasks, nextId, job, key, id, archiver, removed, successes>>
            /\ artifacts \subseteq artifacts' /\ (l = "stored" => id[r] \in artifacts')
      BY <1>7 DEF ArchiveImages, history
    <2>2. pc'[r] = l /\ id[r] \in Ids
      BY <1>0, <1>7, <2>1, GotoMoves DEF ArchiveImages, AtPlace
    <2>3. AtPlace(r)'
      BY <2>1, <2>2 DEF AtPlace
    <2>4. Moved /\ Kept
      BY <2>1, <2>2, <2>3, GotoMoves DEF Kept
    <2> QED BY <1>b, <1>c, <1>d, <2>1, <2>4, <1>f, PaidKept
  <1>8. CASE ListTasks(r)
    <2>1. PICK i \in PendingVideos : tasks[i].requested /\ id' = [id EXCEPT ![r] = i]
      BY <1>8 DEF ListTasks
    <2>2. i \in DOMAIN tasks /\ i \in Ids /\ i < nextId /\ job[i] # "none"
      BY <1>0, <2>1 DEF PendingVideos, Paid, Submitted, TypeOK
    <2>3. /\ id'[r] = i /\ pc'[r] = "query" /\ key' = key
          /\ \A q \in Requests \ {r} : id'[q] = id[q] /\ pc'[q] = pc[q]
      BY <1>8, <2>1 DEF ListTasks, Goto, TypeOK
    <2>4. AtPlace(r)'
      BY <2>2, <2>3 DEF AtPlace
    <2>5. Moved
      BY <2>2, <2>3, <2>4 DEF Moved
    <2> QED BY <1>8, <1>a, <1>b, <1>c, <1>d, <2>5, <1>f, PaidKept DEF ListTasks, rows, history
  <1>9. CASE Enqueue(r)
    <2>1. id[r] \in Ids /\ archive' = Enqueued(id[r])
      BY <1>0, <1>9 DEF Enqueue, AtPlace
    <2>2. /\ DOMAIN archive' = DOMAIN archive \cup {id[r]} /\ resume' = resume
          /\ \A j \in DOMAIN archive : archive'[j] = archive[j]
          /\ id[r] \notin DOMAIN archive => archive'[id[r]] = "queued"
      BY <1>9, <2>1, EnqueuedIs DEF Enqueue
    <2>3. ArchivesKept
      BY <1>0, <2>2 DEF ArchivesKept
    <2> QED BY <1>9, <1>a, <1>c, <1>d, <2>3, ReturnMoves, <1>f, PaidKept DEF Enqueue, rows, history
  <1> QED BY <1>1, <1>2, <1>3, <1>4, <1>5, <1>6, <1>7, <1>8, <1>9 DEF Handling

\* So does an insertion: its id is new, and nobody else has the key.
LEMMA InsertKeeps ==
    ASSUME MediaAssumption, TypeOK, TypeOK', Paid, NEW r \in Requests, Insert(r),
           OfKey(key[r]) = {}
    PROVE  Paid'
  <1>0. /\ nextId \in Nat /\ nextId \in Ids /\ nextId' = nextId + 1
        /\ pc[r] = "insert" /\ Given /\ AtPlace(r)
    <2>1. InsertBlind(r) /\ Given /\ AtPlace(r)
      BY DEF Insert, Paid
    <2>2. nextId \in Ids /\ nextId' = nextId + 1 /\ pc[r] = "insert"
      BY <2>1 DEF InsertBlind
    <2>3. nextId \in Nat
      BY <2>2 DEF Ids, MediaAssumption
    <2> QED BY <2>1, <2>2, <2>3
  <1>1. /\ UNCHANGED <<artifacts, job, key, archive, resume, removed, successes>>
        /\ id' = [id EXCEPT ![r] = nextId] /\ pc' = [pc EXCEPT ![r] = "call"]
    BY DEF Insert, InsertBlind, Goto, archiver, history
  <1>a. /\ \A q \in Requests : id[q] \in Nat /\ id[q] < nextId
        /\ \A i \in DOMAIN tasks \cup DOMAIN archive \cup resume : i \in Nat /\ i < nextId
        /\ \A i \in DOMAIN tasks \cup DOMAIN archive \cup resume \cup artifacts : i # nextId
        /\ job[nextId] = "none" /\ key[r] \in Keys
    <2>1. \A q \in Requests : id[q] \in Nat /\ id[q] < nextId
      BY <1>0 DEF Given, TypeOK, MediaAssumption
    <2>2. DOMAIN tasks \cup DOMAIN archive \cup resume \subseteq Nat
      <3>1. Ids \subseteq Nat
        BY DEF Ids, MediaAssumption
      <3> QED BY <3>1 DEF TypeOK
    <2>3. \A i \in DOMAIN tasks \cup DOMAIN archive \cup resume : i < nextId
      BY <1>0 DEF Given
    <2>4. artifacts \subseteq DOMAIN tasks
      BY DEF TypeOK
    <2>5. job[nextId] = "none" /\ key[r] \in Keys
      BY <1>0 DEF Given, AtPlace
    <2> QED BY <1>0, <2>1, <2>2, <2>3, <2>4, <2>5
  <1>2. /\ DOMAIN tasks' = DOMAIN tasks \cup {nextId}
        /\ \A j \in DOMAIN tasks : tasks'[j] = tasks[j]
        /\ tasks'[nextId].key = key[r] /\ ~tasks'[nextId].requested /\ tasks'[nextId].storage = ""
    BY <1>0, <1>a, InsertedIs DEF Insert, InsertBlind
  <1>3. /\ id'[r] = nextId /\ pc'[r] = "call"
        /\ \A q \in Requests \ {r} : id'[q] = id[q] /\ pc'[q] = pc[q]
    BY <1>1 DEF TypeOK
  <1>4. Given'
    <2>1. \A q \in Requests : id'[q] < nextId'
      BY <1>0, <1>a, <1>3
    <2>2. \A i \in DOMAIN tasks' \cup DOMAIN archive' \cup resume' : i < nextId'
      <3>1. \A i \in Nat : i < nextId => i < nextId'
        BY <1>0
      <3>2. nextId < nextId' /\ archive' = archive /\ resume' = resume
        BY <1>0, <1>1
      <3> QED BY <1>a, <1>2, <3>1, <3>2
    <2>3. \A i \in Ids : i >= nextId' => i >= nextId
      BY <1>0 DEF Ids
    <2> QED BY <1>0, <1>1, <2>1, <2>2, <2>3 DEF Given, Ids
  <1>5. OneTaskPerKey'
    <2>1. \A j \in DOMAIN tasks : tasks[j].key # key[r]
      BY DEF OfKey
    <2> QED BY <1>2, <2>1 DEF OneTaskPerKey, Paid
  <1>6. Submitted'
    BY <1>1, <1>2 DEF Submitted, Paid
  <1>7. Saved'
    BY <1>a, <1>1, <1>2 DEF Saved, Paid, There
  <1>8. SpendTraced' /\ StoredHasArtifact'
    <2>1. StoredHasArtifact'
      BY <1>1, <1>2 DEF StoredHasArtifact, Paid
    <2>2. Holding(Requests) \subseteq Holding(Requests)'
      BY <1>0, <1>3 DEF Holding
    <2>3. untraced' = untraced
      BY DEF Insert, InsertBlind, history
    <2> QED BY <1>1, <1>2, <2>1, <2>2, <2>3 DEF SpendTraced, Paid, There
  <1>9. ASSUME NEW q \in Requests PROVE AtPlace(q)'
    <2>1. CASE q = r
      <3>1. pc'[r] = "call" /\ id'[r] = nextId /\ job'[nextId] = "none"
            /\ nextId \in DOMAIN tasks'
        BY <1>a, <1>1, <1>2, <1>3
      <3>2. \A p \in Requests \ {r} : id'[p] # nextId
        BY <1>0, <1>a, <1>3
      <3> QED BY <1>0, <2>1, <3>1, <3>2 DEF AtPlace, There
    <2>2. CASE q # r
      <3>1. AtPlace(q) /\ id[q] # nextId /\ pc'[q] = pc[q] /\ id'[q] = id[q]
        BY <1>a, <1>3, <2>2 DEF Paid
      <3>2. /\ key'[q] = key[q] /\ job' = job /\ artifacts' = artifacts
            /\ removed' = removed /\ untraced' = untraced
        BY <1>1 DEF Insert, InsertBlind, history
      <3>3. There(id[q])' <=> There(id[q])
        BY <1>2, <3>1 DEF There
      <3>4. \A p \in Requests : id'[p] \in {id[p], nextId}
        BY <1>3
      <3> QED BY <3>1, <3>2, <3>3, <3>4 DEF AtPlace
    <2> QED BY <2>1, <2>2
  <1> QED BY <1>4, <1>5, <1>6, <1>7, <1>8, <1>9 DEF Paid

\* Nobody else takes an id from a request, but a restart takes them all.
LEMMA OthersTrace ==
    ASSUME \/ \E i \in Ids : Archiving(i) \/ ResumeOne(i) \/ Finish(i) \/ DeleteTask(i)
           \/ Restart \/ ListPendingStorage \/ Cleanup
    PROVE  TracesKept
  <1>1. CASE Restart
    BY <1>1 DEF Restart, TracesKept, Holding
  <1>2. CASE ~Restart
    <2>1. UNCHANGED <<pc, id, untraced>>
      BY <1>2 DEF Archiving, TakeSlot, PutObject, SaveArtifact, SetStored, SetStorageFailed,
             CutShort, Leave, ResumeOne, Finish, DeleteTask, Cleanup, Remove, ListPendingStorage,
             requests, history
    <2> QED BY <2>1 DEF TracesKept
  <1> QED BY <1>1, <1>2

\* And so does everybody else.
LEMMA OthersKeep ==
    ASSUME MediaAssumption, TypeOK, TypeOK', Paid,
           \/ \E i \in Ids : Archiving(i) \/ ResumeOne(i) \/ Finish(i) \/ DeleteTask(i)
           \/ Restart \/ ListPendingStorage \/ Cleanup
    PROVE  Paid'
  <1>0. nextId \in Nat /\ \A i \in DOMAIN archive \cup resume \cup DOMAIN tasks : i < nextId
    BY DEF Paid, Given, TypeOK, MediaAssumption
  <1>a. UNCHANGED <<tasks, artifacts, nextId, removed>> => Kept
    BY DEF Kept
  <1>b. UNCHANGED archiver => ArchivesKept
    BY <1>0 DEF archiver, ArchivesKept
  <1>c. UNCHANGED job => JobsKept
    BY DEF JobsKept
  <1>d. UNCHANGED successes => \A i \in Ids : successes'[i] # successes[i] => i < nextId
    OBVIOUS
  <1>e. UNCHANGED requests => Moved
    BY DEF requests, Moved
  <1>f. TracesKept
    BY OthersTrace
  <1>1. ASSUME NEW i \in Ids, Archiving(i) PROVE Paid'
    <2>1. /\ UNCHANGED <<nextId, job, requests, resume, removed, successes>>
          /\ i \in DOMAIN archive
      BY <1>1 DEF Archiving, TakeSlot, PutObject, SaveArtifact, SetStored, SetStorageFailed,
                  CutShort, Leave, rows, history, Step, Working
    <2>2. ArchivesKept
      <3>1. CASE Leave(i)
        BY <1>0, <2>1, <3>1 DEF Leave, Restrict, ArchivesKept
      <3>2. CASE ~Leave(i)
        <4>1. PICK to \in {"fetch", "save", "settle", "failing", "leaving"} :
                /\ archive' = [archive EXCEPT ![i] = to]
                /\ to = "settle" => i \in artifacts'
          BY <1>1, <3>2 DEF Archiving, Step, TakeSlot, PutObject, SaveArtifact, SetStored,
                            SetStorageFailed, CutShort
        <4> QED BY <1>0, <2>1, <4>1 DEF ArchivesKept
      <3> QED BY <3>1, <3>2
    <2>3. Kept
      <3>1. CASE UNCHANGED tasks /\ artifacts \subseteq artifacts'
        BY <2>1, <3>1 DEF Kept
      <3>2. CASE tasks' = Updated(i, "storage", "stored") /\ UNCHANGED artifacts
                 /\ There(i) /\ archive[i] = "settle"
        <4>1. i \in artifacts
          BY <2>1, <3>2 DEF Paid, Saved
        <4> QED BY <2>1, <3>2, <4>1, StorageIs DEF Kept
      <3>3. CASE tasks' = Updated(i, "storage", "failed") /\ UNCHANGED artifacts
        BY <2>1, <3>3, StorageIs DEF Kept
      <3> QED BY <1>1, <3>1, <3>2, <3>3
          DEF Archiving, TakeSlot, PutObject, SaveArtifact, SetStored, SetStorageFailed, CutShort,
              Leave, rows, Step
    <2> QED BY <1>c, <1>d, <1>e, <2>1, <2>2, <2>3, <1>f, PaidKept
  <1>2. ASSUME NEW i \in Ids, ResumeOne(i) PROVE Paid'
    <2>1. /\ UNCHANGED <<artifacts, nextId, job, requests, removed, successes>>
          /\ resume' = resume \ {i} /\ i \in resume
      BY <1>2 DEF ResumeOne, history
    <2>2. CASE archive' = Enqueued(i) /\ UNCHANGED tasks
      <3>1. ArchivesKept
        BY ZenonT(60), <1>0, <2>1, <2>2, EnqueuedIs DEF ArchivesKept
      <3> QED BY <1>a, <1>c, <1>d, <1>e, <2>1, <2>2, <3>1, <1>f, PaidKept
    <2>3. CASE tasks' = Updated(i, "storage", "failed") /\ UNCHANGED archive
      <3>1. ArchivesKept
        BY <1>0, <2>1, <2>3 DEF ArchivesKept
      <3>2. Kept
        BY <2>1, <2>3, StorageIs DEF Kept
      <3> QED BY <1>c, <1>d, <1>e, <2>1, <3>1, <3>2, <1>f, PaidKept
    <2> QED BY <1>2, <2>2, <2>3 DEF ResumeOne
  <1>3. ASSUME NEW i \in Ids, Finish(i) PROVE Paid'
    <2>1. JobsKept
      BY <1>3 DEF Finish, JobsKept, TypeOK
    <2> QED BY <1>3, <1>a, <1>b, <1>d, <1>e, <2>1, <1>f, PaidKept DEF Finish, rows, history
  <1>4. ASSUME NEW S \in SUBSET DOMAIN tasks, Remove(S) PROVE Paid'
    <2>1. /\ DOMAIN tasks' = DOMAIN tasks \ S /\ \A j \in DOMAIN tasks' : tasks'[j] = tasks[j]
          /\ removed' = removed \cup S /\ artifacts' = artifacts \ S /\ nextId' = nextId
      BY <1>4, WithoutIs DEF Remove
    <2>2. Kept
      BY <2>1 DEF Kept
    <2> QED BY <1>4, <1>b, <1>c, <1>d, <1>e, <2>2, <1>f, PaidKept DEF Remove
  <1>5. CASE Restart
    <2>1. \A q \in Requests : pc'[q] = "idle" /\ id'[q] = 0
      BY <1>5 DEF Restart
    <2>2. Moved
      BY <2>1 DEF Moved, AtPlace
    <2>3. ArchivesKept
      BY <1>5 DEF Restart, ArchivesKept
    <2> QED BY <1>5, <1>a, <1>c, <1>d, <2>2, <2>3, <1>f, PaidKept DEF Restart, rows, history
  <1>6. CASE ListPendingStorage
    <2>1. /\ UNCHANGED <<tasks, artifacts, nextId, job, requests, archive, removed, successes>>
          /\ resume' \in {resume, First(Interrupted)} /\ First(Interrupted) \subseteq DOMAIN tasks
      BY <1>6 DEF ListPendingStorage, rows, First, Interrupted
    <2>2. ArchivesKept
      BY <1>0, <2>1 DEF ArchivesKept
    <2> QED BY <1>a, <1>c, <1>d, <1>e, <2>1, <2>2, <1>f, PaidKept
  <1>7. ASSUME NEW i \in Ids, DeleteTask(i) PROVE \E S \in SUBSET DOMAIN tasks : Remove(S)
    BY <1>7 DEF DeleteTask, There
  <1>8. ASSUME Cleanup PROVE \E S \in SUBSET DOMAIN tasks : Remove(S)
    BY <1>8 DEF Cleanup
  <1> QED BY <1>1, <1>2, <1>3, <1>4, <1>5, <1>6, <1>7, <1>8

(***************************************************************************)
(* What is finished                                                        *)
(***************************************************************************)
\* What every step does to the recorders, archives and waiting tasks, but the ones that
\* record a success, set the storage pending or ask for an archive.
Unrecording ==
    /\ successes' = successes /\ cutShort \subseteq cutShort'
    /\ \A r \in Requests : Recorder(r)' => pc'[r] = pc[r] /\ id'[r] = id[r]
    /\ \A i \in DOMAIN archive' \cup resume' : i \in DOMAIN archive \cup resume \/ Waiting(i)
    /\ \A i \in Ids : Waiting(i)' => Waiting(i)
    /\ \A i \in DOMAIN archive' :
          archive'[i] = "leaving" /\ Waiting(i)' =>
              \/ i \in cutShort'
              \/ i \in DOMAIN archive /\ archive[i] = "leaving"

\* Has the task i, finished and waiting, somebody who sees to it?
Cared(i) ==
    \/ i \in DOMAIN archive /\ archive[i] # "leaving"
    \/ \E r \in Requests : pc[r] = "enqueue" /\ id[r] = i
    \/ listing \/ i \in resume \cup Again \cup cutShort
    \/ i \in behind /\ i > ResumeLimit

\* Such a step keeps what is finished on its way, if it leaves no task uncared for.
LEMMA ArchivedKept ==
    ASSUME TypeOK, TypeOK', Archived, Unrecording,
           \A i \in Interrupted' : i \in Ids /\ i \in Interrupted /\ Cared(i) => Cared(i)',
           Interrupted' \subseteq Interrupted
    PROVE  Archived'
  <1>1. Unrecorded'
    BY DEF Archived, Unrecorded, Unrecording, Recorder, TypeOK
  <1>2. Again' = Again
    BY DEF Again, Unrecording
  <1>3. OneRecorder'
    <2>1. \A q, r \in Requests :
            Recorder(q)' /\ Recorder(r)' /\ id'[q] = id'[r] /\ q # r => id'[r] \in Again'
      BY <1>2 DEF Archived, OneRecorder, Unrecording, Recorder
    <2>2. ASSUME NEW r \in Requests, pc'[r] = "storage", id'[r] \notin Again'
          PROVE  id'[r] \notin DOMAIN archive' \cup resume' /\ ~Waiting(id[r])'
      <3>1. pc[r] = "storage" /\ id'[r] = id[r] /\ id[r] \notin Again
        BY <1>2, <2>2 DEF Unrecording, Recorder
      <3>2. id[r] \notin DOMAIN archive \cup resume /\ ~Waiting(id[r])
        BY <3>1 DEF Archived, OneRecorder
      <3>3. Waiting(id[r])' => id'[r] \in Ids
        BY DEF Waiting, There, TypeOK
      <3> QED BY <3>1, <3>2, <3>3 DEF Unrecording, Waiting, There
    <2> QED BY <2>1, <2>2 DEF OneRecorder
  <1>4. LeavesSettled'
    BY <1>2 DEF Archived, LeavesSettled, Unrecording, TypeOK
  <1>5. PendingHasArchive'
    <2>1. Interrupted \subseteq Ids
      BY DEF Interrupted, TypeOK
    <2>2. \A i \in Interrupted : Cared(i)
      BY DEF Archived, PendingHasArchive, Cared
    <2>3. \A i \in Interrupted' : Cared(i)'
      BY <2>1, <2>2
    <2> QED BY <2>3 DEF PendingHasArchive, Cared
  <1> QED BY <1>1, <1>3, <1>4, <1>5 DEF Archived

\* A step that touches no archive, records no success and makes no task wait.
LEMMA AsideKeeps ==
    ASSUME TypeOK, TypeOK', Archived, UNCHANGED <<archive, listing, resume, successes, cutShort, behind>>,
           \A q \in Requests : Recorder(q)' => pc'[q] = pc[q] /\ id'[q] = id[q],
           \A q \in Requests : pc[q] = "enqueue" => pc'[q] = pc[q] /\ id'[q] = id[q],
           \A i \in Ids : Waiting(i)' => Waiting(i), Interrupted' \subseteq Interrupted
    PROVE  Archived'
  <1>1. Unrecording
    BY DEF Unrecording, TypeOK
  <1>2. Again' = Again
    BY DEF Again
  <1>3. \A i \in Ids : Cared(i) => Cared(i)'
    BY <1>2 DEF Cared
  <1> QED BY <1>1, <1>3, ArchivedKept

\* What the storage and the status of the tasks say of who waits.
LEMMA WhoWaits ==
    ASSUME TypeOK
    PROVE  /\ UNCHANGED tasks =>
                  /\ \A i : Waiting(i)' <=> Waiting(i)
                  /\ Interrupted' = Interrupted
           /\ \A i, v : v \in {"stored", "failed"} /\ tasks' = Updated(i, "storage", v) =>
                  /\ \A j : Waiting(j)' => Waiting(j) /\ j # i
                  /\ Interrupted' \subseteq Interrupted \ {i}
           /\ \A i : tasks' = Updated(i, "status", "failed") =>
                  /\ \A j : Waiting(j)' => Waiting(j)
                  /\ Interrupted' \subseteq Interrupted
           /\ \A S : tasks' = Without(S) =>
                  /\ \A j : Waiting(j)' => Waiting(j)
                  /\ Interrupted' \subseteq Interrupted
  <1>1. ASSUME UNCHANGED tasks
        PROVE  (\A i : Waiting(i)' <=> Waiting(i)) /\ Interrupted' = Interrupted
    BY <1>1 DEF Waiting, There, Interrupted
  <1>2. ASSUME NEW i, NEW v \in {"stored", "failed"}, tasks' = Updated(i, "storage", v)
        PROVE  /\ \A j : Waiting(j)' => Waiting(j) /\ j # i
               /\ Interrupted' \subseteq Interrupted \ {i}
    BY <1>2, StorageIs DEF Waiting, There, Interrupted
  <1>3. ASSUME NEW i, tasks' = Updated(i, "status", "failed")
        PROVE  (\A j : Waiting(j)' => Waiting(j)) /\ Interrupted' \subseteq Interrupted
    <2>1. /\ DOMAIN tasks' = DOMAIN tasks
          /\ \A j \in DOMAIN tasks : tasks'[j].storage = tasks[j].storage
          /\ \A j \in DOMAIN tasks : j # i => tasks'[j] = tasks[j]
          /\ i \in DOMAIN tasks => tasks'[i].status = "failed"
      BY <1>3, StatusIs
    <2> QED BY <2>1 DEF Waiting, There, Interrupted
  <1>4. ASSUME NEW S, tasks' = Without(S)
        PROVE  (\A j : Waiting(j)' => Waiting(j)) /\ Interrupted' \subseteq Interrupted
    BY <1>4, WithoutIs DEF Waiting, There, Interrupted
  <1> QED BY <1>1, <1>2, <1>3, <1>4

\* The steps of a request that have nothing to do with the archive of a video.
LEMMA RequestAside ==
    ASSUME MediaAssumption, TypeOK, TypeOK', Archived, Paid, NEW r \in Requests, Handling(r),
           ~MarkSucceeded(r), ~SetStoragePending(r), ~Enqueue(r)
    PROVE  Archived'
  <1>1. UNCHANGED <<archive, listing, resume, successes, cutShort, behind>>
    BY DEF Handling, Submit, CountPendingVideos, Lookup, Insert, InsertBlind, Call,
           SetUpstreamRequestID, Discard, MarkFailed, ArchiveImages, SetImageStorage,
           StatementFails, ListTasks, QueryVideo, archiver, history
  <1>2. pc[r] # "enqueue"
    BY DEF Handling, Submit, CountPendingVideos, Lookup, Insert, InsertBlind, Call,
           SetUpstreamRequestID, Discard, MarkFailed, ArchiveImages, SetImageStorage,
           StatementFails, ListTasks, QueryVideo
  <1>3. ~Recorder(r)' /\ \A q \in Requests \ {r} : pc'[q] = pc[q] /\ id'[q] = id[q]
    <2>1. CASE Return(r)
      BY <2>1, ReturnMoves DEF Recorder
    <2>2. CASE ListTasks(r)
      BY <2>2 DEF ListTasks, Goto, TypeOK, Recorder
    <2>3. CASE Insert(r) /\ OfKey(key[r]) = {}
      BY ZenonT(60), <2>3 DEF Insert, InsertBlind, Goto, TypeOK, Recorder
    <2>4. CASE ~Return(r) /\ ~ListTasks(r) /\ ~(Insert(r) /\ OfKey(key[r]) = {})
      <3>1. PICK l \in {"count", "lookup", "insert", "request", "succeed", "fail", "discard",
                        "stored", "lost"} :
              Goto(r, l) /\ UNCHANGED id
        BY <2>4 DEF Handling, Submit, CountPendingVideos, Lookup, Insert, Call,
             SetUpstreamRequestID, Discard, MarkFailed, ArchiveImages, SetImageStorage,
             StatementFails, QueryVideo
      <3> QED BY <3>1 DEF Goto, TypeOK, Recorder
    <2> QED BY <2>1, <2>2, <2>3, <2>4
  <1>4. (\A i \in Ids : Waiting(i)' => Waiting(i)) /\ Interrupted' \subseteq Interrupted
    <2>1. CASE UNCHANGED tasks
      BY <2>1, WhoWaits
    <2>2. CASE SetUpstreamRequestID(r)
      <3>1. /\ DOMAIN tasks' = DOMAIN tasks
            /\ \A j \in DOMAIN tasks : tasks'[j].storage = tasks[j].storage
                                       /\ tasks'[j].status = tasks[j].status
        BY <2>2, UpdatedIs DEF SetUpstreamRequestID
      <3> QED BY <3>1 DEF Waiting, There, Interrupted
    <2>3. CASE Discard(r) \/ MarkFailed(r)
      BY <2>3, WhoWaits DEF Discard, MarkFailed
    <2>4. CASE SetImageStorage(r)
      <3>1. PICK v \in {"stored", "failed"} : tasks' = Updated(id[r], "storage", v)
        BY <2>4 DEF SetImageStorage
      <3> QED BY <3>1, WhoWaits
    <2>5. CASE Insert(r) /\ OfKey(key[r]) = {}
      <3>1. InsertBlind(r) /\ Given /\ key[r] \in Keys
        BY <2>5 DEF Insert, InsertBlind, Paid, AtPlace
      <3>2. nextId \in Ids /\ nextId \in Nat
        <4>1. nextId \in Ids
          BY <3>1 DEF InsertBlind
        <4> QED BY <4>1 DEF Ids, MediaAssumption
      <3>3. nextId \notin DOMAIN tasks
        BY <3>1, <3>2 DEF Given
      <3>4. /\ DOMAIN tasks' = DOMAIN tasks \cup {nextId} /\ tasks'[nextId].storage = ""
            /\ \A j \in DOMAIN tasks : tasks'[j] = tasks[j]
        BY <3>1, <3>2, <3>3, InsertedIs DEF InsertBlind
      <3> QED BY <3>4 DEF Waiting, There, Interrupted
    <2> QED BY <2>1, <2>2, <2>3, <2>4, <2>5
        DEF Handling, Submit, CountPendingVideos, Lookup, Insert, Call, ArchiveImages,
            StatementFails, ListTasks, QueryVideo, rows
  <1> QED BY <1>1, <1>2, <1>3, <1>4, AsideKeeps

\* A success is recorded, for the first time or again.
LEMMA SuccessKeeps ==
    ASSUME TypeOK, TypeOK', Archived, NEW r \in Requests, MarkSucceeded(r)
    PROVE  Archived'
  <1>1. UNCHANGED <<archive, listing, resume, cutShort, behind>> /\ pc[r] = "succeed"
    BY DEF MarkSucceeded, archiver
  <1>2. /\ DOMAIN tasks' = DOMAIN tasks
        /\ \A j \in DOMAIN tasks : tasks'[j].storage = tasks[j].storage
        /\ \A j \in DOMAIN tasks : j # id[r] => tasks'[j] = tasks[j]
    BY StatusIs DEF MarkSucceeded
  <1>3. \A i : Waiting(i)' <=> Waiting(i)
    BY <1>2 DEF Waiting, There
  <1>4. CASE ~There(id[r])
    <2>1. Return(r) /\ successes' = successes /\ tasks' = tasks
      BY <1>4 DEF MarkSucceeded, Updated
    <2>2. \A q \in Requests : Recorder(q)' => pc'[q] = pc[q] /\ id'[q] = id[q]
      BY <2>1, ReturnMoves DEF Recorder
    <2>3. \A q \in Requests : pc[q] = "enqueue" => pc'[q] = pc[q] /\ id'[q] = id[q]
      BY <1>1, <2>1, ReturnMoves
    <2> QED BY <1>1, <2>1, <2>2, <2>3, WhoWaits, AsideKeeps
  <1>5. CASE There(id[r])
    <2>1. /\ successes' = [successes EXCEPT ![id[r]] = IF @ = 0 THEN 1 ELSE 2]
          /\ id' = id /\ id[r] \in Ids
          /\ pc'[r] \in {"storage", "images"}
          /\ \A q \in Requests \ {r} : pc'[q] = pc[q]
      BY <1>5 DEF MarkSucceeded, Goto, TypeOK, There
    <2>2. /\ successes'[id[r]] = IF successes[id[r]] = 0 THEN 1 ELSE 2
          /\ \A i \in Ids : i # id[r] => successes'[i] = successes[i]
          /\ \A i \in Ids : successes[i] \in 0..2
      BY <2>1 DEF TypeOK
    <2>3. Again \subseteq Again' /\ (successes[id[r]] # 0 => id[r] \in Again')
      BY <2>1, <2>2 DEF Again
    <2>4. Unrecorded'
      BY <1>1, <1>3, <2>1, <2>2 DEF Archived, Unrecorded, Recorder
    <2>5. OneRecorder'
      <3>1. ASSUME NEW p \in Requests, NEW q \in Requests, Recorder(p)', Recorder(q)',
                   id[p] = id[q], p # q
            PROVE  id[q] \in Again'
        <4>1. CASE p # r /\ q # r
          BY <2>1, <2>3, <3>1, <4>1 DEF Archived, OneRecorder, Recorder
        <4>2. CASE p = r \/ q = r
          <5>1. PICK o \in {p, q} : o # r /\ Recorder(o) /\ id[o] = id[r]
            BY <2>1, <3>1, <4>2 DEF Recorder
          <5>2. successes[id[r]] # 0
            BY <2>1, <5>1 DEF Archived, Unrecorded
          <5> QED BY <2>3, <3>1, <4>2, <5>2
        <4> QED BY <4>1, <4>2
      <3>2. ASSUME NEW q \in Requests, pc'[q] = "storage", id[q] \notin Again'
            PROVE  id[q] \notin DOMAIN archive \cup resume /\ ~Waiting(id[q])
        <4>1. CASE q = r
          <5>1. successes[id[r]] = 0
            BY <2>3, <3>2, <4>1
          <5> QED BY <2>1, <4>1, <5>1 DEF Archived, Unrecorded
        <4>2. CASE q # r
          BY <2>1, <2>3, <3>2, <4>2 DEF Archived, OneRecorder
        <4> QED BY <4>1, <4>2
      <3>3. \A q \in Requests : Waiting(id[q])' <=> Waiting(id[q])
        BY <1>2, <2>1 DEF Waiting, There
      <3> QED BY <1>1, <2>1, <3>1, <3>2, <3>3 DEF OneRecorder
    <2>6. LeavesSettled'
      BY <1>1, <1>3, <2>3 DEF Archived, LeavesSettled
    <2>7. PendingHasArchive'
      <3> SUFFICES ASSUME NEW i \in Interrupted' PROVE Cared(i)'
        BY DEF PendingHasArchive, Cared
      <3>1. CASE i = id[r]
        <4>1. Waiting(id[r])
          BY <1>2, <3>1 DEF Interrupted, Waiting, There
        <4>2. successes[id[r]] # 0
          BY <2>1, <4>1 DEF Archived, Unrecorded
        <4> QED BY <2>3, <3>1, <4>2 DEF Cared
      <3>2. CASE i # id[r]
        <4>1. i \in Interrupted
          BY <1>2, <3>2 DEF Interrupted
        <4>2. Cared(i)
          BY <4>1 DEF Archived, PendingHasArchive, Cared
        <4>3. \A q \in Requests : pc[q] = "enqueue" => pc'[q] = "enqueue" /\ id'[q] = id[q]
          BY <1>1, <2>1
        <4> QED BY <1>1, <2>3, <4>2, <4>3 DEF Cared
      <3> QED BY <3>1, <3>2
    <2> QED BY <2>4, <2>5, <2>6, <2>7 DEF Archived
  <1> QED BY <1>4, <1>5

\* The storage is set pending; who does it asks for the archive next.
LEMMA StorageKeeps ==
    ASSUME TypeOK, TypeOK', Archived, Paid, NEW r \in Requests, SetStoragePending(r)
    PROVE  Archived'
  <1>1. UNCHANGED <<archive, listing, resume, successes, cutShort, behind>> /\ pc[r] = "storage"
        /\ id[r] \in Ids
    BY DEF SetStoragePending, archiver, history, Paid, AtPlace
  <1>2. CASE ~There(id[r])
    <2>1. Return(r) /\ tasks' = tasks
      BY <1>2 DEF SetStoragePending, Updated
    <2>2. \A q \in Requests : Recorder(q)' => pc'[q] = pc[q] /\ id'[q] = id[q]
      BY <2>1, ReturnMoves DEF Recorder
    <2>3. \A q \in Requests : pc[q] = "enqueue" => pc'[q] = pc[q] /\ id'[q] = id[q]
      BY <1>1, <2>1, ReturnMoves
    <2> QED BY <1>1, <2>1, <2>2, <2>3, WhoWaits, AsideKeeps
  <1>3. CASE There(id[r])
    <2>1. /\ id' = id /\ pc'[r] = "enqueue"
          /\ \A q \in Requests \ {r} : pc'[q] = pc[q]
      BY <1>3 DEF SetStoragePending, Goto, TypeOK
    <2>2. /\ DOMAIN tasks' = DOMAIN tasks
          /\ \A j \in DOMAIN tasks :
                /\ tasks'[j].status = tasks[j].status
                /\ \/ tasks'[j].storage = tasks[j].storage
                   \/ j = id[r] /\ tasks'[j].storage = "pending"
      BY StorageIs DEF SetStoragePending
    <2>3. \A i : i # id[r] => /\ Waiting(i)' => Waiting(i)
                              /\ i \in Interrupted' => i \in Interrupted
      BY <2>2 DEF Waiting, There, Interrupted
    <2>4. Again' = Again
      BY <1>1 DEF Again
    <2>5. successes[id[r]] # 0
      BY <1>1 DEF Archived, Unrecorded, Recorder
    <2>6. \A q \in Requests : Recorder(q)' => Recorder(q)
      BY <1>1, <2>1 DEF Recorder
    <2>7. Unrecorded'
      BY <1>1, <2>1, <2>3, <2>5, <2>6 DEF Archived, Unrecorded
    <2>8. OneRecorder'
      <3>1. ASSUME NEW q \in Requests, pc'[q] = "storage", id[q] \notin Again
            PROVE  id[q] # id[r] /\ id[q] \notin DOMAIN archive \cup resume /\ ~Waiting(id[q])
        <4>1. q # r /\ pc[q] = "storage"
          BY <2>1, <3>1
        <4> QED BY <1>1, <3>1, <4>1 DEF Archived, OneRecorder, Recorder
      <3>2. \A q \in Requests : id[q] # id[r] /\ ~Waiting(id[q]) => ~Waiting(id[q])'
        BY <2>1, <2>2 DEF Waiting, There
      <3>3. \A p, q \in Requests :
              Recorder(p)' /\ Recorder(q)' /\ id'[p] = id'[q] /\ p # q => id'[q] \in Again'
        BY <2>1, <2>4, <2>6 DEF Archived, OneRecorder
      <3> QED BY <1>1, <2>1, <2>4, <3>1, <3>2, <3>3 DEF OneRecorder
    <2>9. LeavesSettled'
      <3>1. id[r] \in DOMAIN archive => id[r] \in Again
        BY <1>1 DEF Archived, OneRecorder
      <3> QED BY <1>1, <2>3, <2>4, <3>1 DEF Archived, LeavesSettled
    <2>10. PendingHasArchive'
      <3> SUFFICES ASSUME NEW i \in Interrupted' PROVE Cared(i)'
        BY DEF PendingHasArchive, Cared
      <3>1. CASE i = id[r]
        BY <2>1, <3>1 DEF Cared
      <3>2. CASE i # id[r]
        <4>1. Cared(i)
          BY <2>3, <3>2 DEF Archived, PendingHasArchive, Cared
        <4>2. \A q \in Requests : pc[q] = "enqueue" => pc'[q] = "enqueue" /\ id'[q] = id[q]
          BY <1>1, <2>1
        <4> QED BY <1>1, <2>4, <4>1, <4>2 DEF Cared
      <3> QED BY <3>1, <3>2
    <2> QED BY <2>7, <2>8, <2>9, <2>10 DEF Archived
  <1> QED BY <1>2, <1>3

\* An archive is asked for: one that leaves meanwhile leaves no task waiting.
LEMMA EnqueueKeeps ==
    ASSUME TypeOK, TypeOK', Archived, NEW i \in Ids, archive' = Enqueued(i),
           UNCHANGED <<tasks, listing, successes, cutShort, behind>>, resume' \subseteq resume,
           resume \subseteq resume' \cup {i}, successes[i] # 0,
           \A q \in Requests : Recorder(q)' => pc'[q] = pc[q] /\ id'[q] = id[q],
           \A q \in Requests : pc[q] = "storage" /\ id[q] = i => i \in Again,
           \A q \in Requests :
              pc[q] = "enqueue" => id[q] = i \/ (pc'[q] = pc[q] /\ id'[q] = id[q])
    PROVE  Archived'
  <1>1. /\ DOMAIN archive' = DOMAIN archive \cup {i}
        /\ \A j \in DOMAIN archive : archive'[j] = archive[j]
        /\ i \notin DOMAIN archive => archive'[i] = "queued"
    BY EnqueuedIs
  <1>2. Again' = Again /\ Interrupted' = Interrupted /\ \A j : Waiting(j)' <=> Waiting(j)
    BY WhoWaits DEF Again
  <1>3. Unrecorded'
    BY <1>1, <1>2 DEF Archived, Unrecorded, Recorder
  <1>4. OneRecorder'
    <2>1. \A p, q \in Requests :
            Recorder(p)' /\ Recorder(q)' /\ id'[p] = id'[q] /\ p # q => id'[q] \in Again'
      BY <1>2 DEF Archived, OneRecorder, Recorder
    <2>2. ASSUME NEW q \in Requests, pc'[q] = "storage", id'[q] \notin Again'
          PROVE  id'[q] \notin DOMAIN archive' \cup resume' /\ ~Waiting(id[q])'
      <3>1. pc[q] = "storage" /\ id'[q] = id[q] /\ id[q] # i
        BY <1>2, <2>2 DEF Recorder
      <3>2. id[q] \notin DOMAIN archive \cup resume /\ ~Waiting(id[q])
        BY <1>2, <2>2, <3>1 DEF Archived, OneRecorder
      <3> QED BY <1>1, <3>1, <3>2 DEF Waiting, There
    <2> QED BY <2>1, <2>2 DEF OneRecorder
  <1>5. LeavesSettled'
    BY <1>1, <1>2 DEF Archived, LeavesSettled
  <1>6. PendingHasArchive'
    <2> SUFFICES ASSUME NEW j \in Interrupted PROVE Cared(j)'
      BY <1>2 DEF PendingHasArchive, Cared
    <2>1. Cared(j) /\ Waiting(j)
      BY DEF Archived, PendingHasArchive, Cared, Interrupted, Waiting, There
    <2>2. j \in DOMAIN archive /\ archive[j] = "leaving" => j \in Again \cup cutShort
      BY <2>1 DEF Archived, LeavesSettled
    <2>3. CASE j = i
      <3>1. archive'[i] # "leaving" \/ i \in Again \cup cutShort
        BY <1>1, <2>2, <2>3
      <3> QED BY <1>1, <1>2, <2>3, <3>1 DEF Cared
    <2>4. CASE j # i
      BY <1>1, <1>2, <2>1, <2>4 DEF Cared
    <2> QED BY <2>3, <2>4
  <1> QED BY <1>3, <1>4, <1>5, <1>6 DEF Archived

\* What requests do keeps what is finished on its way.
LEMMA RequestsArchive ==
    ASSUME MediaAssumption, TypeOK, TypeOK', Archived, Paid, NEW r \in Requests, Handling(r)
    PROVE  Archived'
  <1>1. CASE Enqueue(r)
    <2>1. /\ pc[r] = "enqueue" /\ id[r] \in Ids /\ archive' = Enqueued(id[r]) /\ Return(r)
          /\ UNCHANGED <<tasks, listing, resume, successes, cutShort, behind>>
      BY <1>1 DEF Enqueue, rows, history, Paid, AtPlace
    <2>2. successes[id[r]] # 0
      BY <2>1 DEF Archived, Unrecorded, Recorder
    <2>3. \A q \in Requests : Recorder(q)' => pc'[q] = pc[q] /\ id'[q] = id[q]
      BY <2>1, ReturnMoves DEF Recorder
    <2>4. \A q \in Requests : pc[q] = "storage" /\ id[q] = id[r] => id[r] \in Again
      BY <2>1 DEF Archived, OneRecorder, Recorder
    <2>5. \A q \in Requests :
            pc[q] = "enqueue" => id[q] = id[r] \/ (pc'[q] = pc[q] /\ id'[q] = id[q])
      BY <2>1, ReturnMoves
    <2> QED BY <2>1, <2>2, <2>3, <2>4, <2>5, EnqueueKeeps
  <1> QED BY <1>1, RequestAside, SuccessKeeps, StorageKeeps

\* Only a task with the limit before it is left behind.
LEMMA BehindAreLate ==
    ASSUME MediaAssumption, TypeOK, NEW i \in Interrupted \ First(Interrupted)
    PROVE  i > ResumeLimit
  <1> DEFINE before == {j \in Interrupted : j < i}
  <1>1. ResumeLimit \in Nat /\ Interrupted \subseteq Nat \ {0} /\ i \in Nat \ {0}
    BY DEF MediaAssumption, Interrupted, TypeOK, Ids
  <1>2. before \subseteq 1..(i - 1)
    <2>1. ASSUME NEW j \in Interrupted, j < i PROVE j \in 1..(i - 1)
      BY <1>1, <2>1
    <2> QED BY <2>1
  <1>3. IsFiniteSet(1..(i - 1)) /\ Cardinality(1..(i - 1)) = i - 1
    <2>1. 1 \in Int /\ i - 1 \in Int
      BY <1>1
    <2> QED BY <1>1, <2>1, FS_Interval
  <1>4. Cardinality(before) \in Nat /\ Cardinality(before) <= i - 1
    <2>1. IsFiniteSet(before) /\ Cardinality(before) <= Cardinality(1..(i - 1))
      BY <1>2, <1>3, FS_Subset
    <2> QED BY <1>3, <2>1, FS_CardinalityType
  <1>5. ~(Cardinality(before) < ResumeLimit)
    BY DEF First
  <1> QED BY <1>1, <1>4, <1>5

\* So does what the archives, the start of the process, the upstream and the user do.
LEMMA OthersArchive ==
    ASSUME MediaAssumption, TypeOK, TypeOK', Archived,
           \/ \E i \in Ids : Archiving(i) \/ ResumeOne(i) \/ Finish(i) \/ DeleteTask(i)
           \/ Restart \/ ListPendingStorage \/ Cleanup
    PROVE  Archived'
  <1>a. UNCHANGED requests =>
           /\ \A q \in Requests : Recorder(q)' => pc'[q] = pc[q] /\ id'[q] = id[q]
           /\ \A q \in Requests : pc[q] = "enqueue" => pc'[q] = pc[q] /\ id'[q] = id[q]
    BY DEF requests, Recorder
  <1>b. Interrupted \subseteq Ids /\ \A i \in Interrupted : Waiting(i)
    BY DEF Interrupted, TypeOK, Waiting, There
  <1>1. ASSUME NEW i \in Ids, Archiving(i) PROVE Archived'
    <2>1. /\ UNCHANGED <<requests, listing, resume, successes, behind>> /\ cutShort \subseteq cutShort'
          /\ Again' = Again
      BY <1>1 DEF Archiving, TakeSlot, PutObject, SaveArtifact, SetStored, SetStorageFailed,
                  CutShort, Leave, history, Again
    <2>2. (\A j : Waiting(j)' => Waiting(j)) /\ Interrupted' \subseteq Interrupted
      <3>1. CASE UNCHANGED tasks
        BY <3>1, WhoWaits
      <3>2. CASE ~UNCHANGED tasks
        <4>1. PICK v \in {"stored", "failed"} : tasks' = Updated(i, "storage", v)
          BY <1>1, <3>2 DEF Archiving, TakeSlot, PutObject, SaveArtifact, SetStored,
                            SetStorageFailed, CutShort, Leave, rows
        <4> QED BY <4>1, WhoWaits
      <3> QED BY <3>1, <3>2
    <2>3. CASE Leave(i)
      <3>1. /\ DOMAIN archive' = DOMAIN archive \ {i} /\ archive[i] = "leaving"
            /\ \A j \in DOMAIN archive' : archive'[j] = archive[j]
        BY <2>3 DEF Leave, Restrict
      <3>2. Unrecording
        BY <1>a, <2>1, <2>2, <3>1 DEF Unrecording
      <3>3. \A j \in Ids : Cared(j) => Cared(j)'
        BY <2>1, <3>1 DEF Cared, requests
      <3> QED BY <2>2, <3>2, <3>3, ArchivedKept
    <2>4. CASE ~Leave(i)
      <3>1. PICK to \in {"fetch", "save", "settle", "failing", "leaving"} : Step(i, archive[i], to)
        BY <1>1, <2>4 DEF Archiving, TakeSlot, PutObject, SaveArtifact, SetStored,
                          SetStorageFailed, CutShort, Step
      <3>2. /\ i \in DOMAIN archive /\ DOMAIN archive' = DOMAIN archive /\ archive'[i] = to
            /\ \A j \in DOMAIN archive : j # i => archive'[j] = archive[j]
        BY <3>1, StepIs
      <3>3. archive'[i] = "leaving" => i \in cutShort' \/ ~Waiting(i)'
        <4>1. CASE UNCHANGED tasks
          <5>1. CASE CutShort(i)
            BY <5>1 DEF CutShort
          <5>2. ASSUME archive'[i] = "leaving", ~CutShort(i) PROVE ~Waiting(i)'
            <6>1. /\ SetStored(i) \/ SetStorageFailed(i)
                  /\ \/ tasks' = Updated(i, "storage", "stored")
                     \/ tasks' = Updated(i, "storage", "failed")
              BY <1>1, <2>4, <3>2, <5>2 DEF Archiving, TakeSlot, PutObject, SaveArtifact,
                 SetStored, SetStorageFailed, Step
            <6>2. PICK v \in {"stored", "failed"} : tasks' = Updated(i, "storage", v)
              BY <6>1
            <6> QED BY <6>2, WhoWaits
          <5> QED BY <5>1, <5>2
        <4>2. CASE ~UNCHANGED tasks
          <5>1. PICK v \in {"stored", "failed"} : tasks' = Updated(i, "storage", v)
            BY <1>1, <4>2 DEF Archiving, TakeSlot, PutObject, SaveArtifact, SetStored,
                              SetStorageFailed, CutShort, Leave, rows
          <5> QED BY <5>1, WhoWaits
        <4> QED BY <4>1, <4>2
      <3>4. Unrecording
        <4>1. \A j \in DOMAIN archive' :
                archive'[j] = "leaving" /\ Waiting(j)' =>
                    j \in cutShort' \/ (j \in DOMAIN archive /\ archive[j] = "leaving")
          BY <3>2, <3>3
        <4> QED BY <1>a, <2>1, <2>2, <3>2, <4>1 DEF Unrecording
      <3>5. \A j \in Interrupted' : Cared(j) => Cared(j)'
        <4>1. Interrupted' \subseteq Ids /\ \A j \in Interrupted' : Waiting(j)'
          BY <2>2, <1>b DEF Interrupted, Waiting, There
        <4> QED BY <2>1, <3>2, <3>3, <4>1 DEF Cared, requests
      <3> QED BY <2>2, <3>4, <3>5, ArchivedKept
    <2> QED BY <2>3, <2>4
  <1>2. ASSUME NEW i \in Ids, ResumeOne(i) PROVE Archived'
    <2>1. /\ UNCHANGED <<requests, listing, successes, cutShort, behind>> /\ i \in resume
          /\ resume' = resume \ {i}
      BY <1>2 DEF ResumeOne, history
    <2>2. successes[i] # 0 /\ \A q \in Requests : pc[q] = "storage" /\ id[q] = i => i \in Again
      BY <2>1 DEF Archived, Unrecorded, OneRecorder
    <2>3. CASE archive' = Enqueued(i) /\ UNCHANGED tasks
      BY <1>a, <2>1, <2>2, <2>3, EnqueueKeeps
    <2>4. CASE tasks' = Updated(i, "storage", "failed") /\ UNCHANGED archive
      <3>1. (\A j : Waiting(j)' => Waiting(j)) /\ Interrupted' \subseteq Interrupted \ {i}
        BY <2>4, WhoWaits
      <3>2. Unrecording
        BY <1>a, <2>1, <2>4, <3>1 DEF Unrecording
      <3>3. Again' = Again
        BY <2>1 DEF Again
      <3>4. \A j \in Interrupted' : Cared(j) => Cared(j)'
        BY <2>1, <2>4, <3>1, <3>3 DEF Cared, requests
      <3> QED BY <3>1, <3>2, <3>4, ArchivedKept
    <2> QED BY <1>2, <2>3, <2>4 DEF ResumeOne
  <1>3. ASSUME NEW i \in Ids, Finish(i) PROVE Archived'
    <2>1. UNCHANGED <<tasks, requests, archive, listing, resume, successes, cutShort, behind>>
      BY <1>3 DEF Finish, rows, archiver, history
    <2> QED BY <1>a, <2>1, WhoWaits, AsideKeeps
  <1>4. ASSUME NEW S \in SUBSET DOMAIN tasks, Remove(S) PROVE Archived'
    <2>1. /\ UNCHANGED <<requests, archive, listing, resume, successes, cutShort, behind>>
          /\ tasks' = Without(S)
      BY <1>4 DEF Remove, archiver
    <2> QED BY <1>a, <2>1, WhoWaits, AsideKeeps
  <1>5. CASE Restart
    <2>1. /\ UNCHANGED <<tasks, successes, cutShort>> /\ listing' /\ resume' = {}
          /\ DOMAIN archive' = {} /\ \A q \in Requests : pc'[q] = "idle"
      BY <1>5 DEF Restart, rows, history
    <2>2. Unrecording
      BY <2>1, WhoWaits DEF Unrecording, Recorder
    <2>3. \A i \in Ids : Cared(i)'
      BY <2>1 DEF Cared
    <2> QED BY <2>1, <2>2, <2>3, WhoWaits, ArchivedKept
  <1>6. CASE ListPendingStorage
    <2>1. /\ UNCHANGED <<tasks, requests, archive, successes>> /\ cutShort \subseteq cutShort'
          /\ resume' \in {resume, First(Interrupted)}
          /\ \/ /\ resume' = First(Interrupted)
                /\ behind' = Interrupted \ First(Interrupted)
             \/ Interrupted \subseteq cutShort'
      BY <1>6 DEF ListPendingStorage, rows
    <2>2. First(Interrupted) \subseteq Interrupted
      BY DEF First
    <2>3. Unrecording
      BY <1>a, <1>b, <2>1, <2>2, WhoWaits DEF Unrecording
    <2>4. \A i \in Interrupted : Cared(i)'
      BY <2>1, BehindAreLate DEF Cared
    <2> QED BY <2>1, <2>3, <2>4, WhoWaits, ArchivedKept
  <1>7. ASSUME NEW i \in Ids, DeleteTask(i) PROVE \E S \in SUBSET DOMAIN tasks : Remove(S)
    BY <1>7 DEF DeleteTask, There
  <1>8. ASSUME Cleanup PROVE \E S \in SUBSET DOMAIN tasks : Remove(S)
    BY <1>8 DEF Cleanup
  <1> QED BY <1>1, <1>2, <1>3, <1>4, <1>5, <1>6, <1>7, <1>8

(***************************************************************************)
(* Invariance                                                              *)
(***************************************************************************)
\* It holds at the start ...
LEMMA InitIInv == ASSUME MediaAssumption, Init PROVE IInv
  <1>1. TypeOK
    <2>1. MaxTasks \in Nat /\ MaxEvents \in Nat
      BY DEF MediaAssumption
    <2>2. TasksTyped
      BY <2>1 DEF Init, TasksTyped
    <2>3. RequestsTyped
      BY <2>1 DEF Init, RequestsTyped, Kinds
    <2>4. ArchivesTyped
      <3>1. DOMAIN archive = {} /\ resume = {} /\ listing = FALSE
        BY DEF Init
      <3> QED BY <3>1 DEF ArchivesTyped
    <2>5. RestTyped
      BY <2>1 DEF Init, RestTyped
    <2> QED BY <2>2, <2>3, <2>4, <2>5, TypeGroups
  <1>2. Paid
    BY DEF Init, Paid, Given, OneTaskPerKey, Submitted, Saved, AtPlace, SpendTraced,
           StoredHasArtifact, Ids, MediaAssumption
  <1>3. Archived
    BY DEF Init, Archived, Unrecorded, OneRecorder, LeavesSettled, PendingHasArchive, Recorder,
           Waiting, There, Interrupted
  <1> QED BY <1>1, <1>2, <1>3 DEF IInv

\* ... and every step keeps it.
LEMMA StepIInv == ASSUME MediaAssumption, IInv, [Next]_vars PROVE IInv'
  <1>0. TypeOK /\ Paid /\ Archived /\ \A q \in Requests : AtPlace(q)
    BY DEF IInv, Paid
  <1>1. ASSUME NEW r \in Requests, Handling(r) PROVE IInv'
    <2>1. TypeOK'
      BY <1>0, <1>1, TypesOfRequests
    <2>2. Paid'
      BY <1>0, <1>1, <2>1, RequestKeeps, InsertKeeps
    <2>3. Archived'
      BY <1>0, <1>1, <2>1, RequestsArchive
    <2> QED BY <2>1, <2>2, <2>3 DEF IInv
  <1>2. ASSUME \/ \E i \in Ids : Archiving(i) \/ ResumeOne(i) \/ Finish(i) \/ DeleteTask(i)
               \/ Restart \/ ListPendingStorage \/ Cleanup
        PROVE  IInv'
    <2>1. TypeOK'
      BY <1>0, <1>2, TypesOfOthers
    <2>2. Paid'
      BY <1>0, <1>2, <2>1, OthersKeep
    <2>3. Archived'
      BY <1>0, <1>2, <2>1, OthersArchive
    <2> QED BY <2>1, <2>2, <2>3 DEF IInv
  <1>3. CASE UNCHANGED vars
    BY <1>0, <1>3 DEF vars, rows, requests, archiver, history, IInv, TypeOK, Paid, Archived, Given,
       OneTaskPerKey, Submitted, Saved, AtPlace, SpendTraced, Holding, StoredHasArtifact, Unrecorded,
       OneRecorder, LeavesSettled, PendingHasArchive, Recorder, Waiting, There, Interrupted, Again
  <1> QED BY <1>1, <1>2, <1>3 DEF Next

\* So it holds always.
LEMMA Invariance == ASSUME MediaAssumption PROVE Spec => []IInv
  <1>1. Init => IInv
    BY InitIInv
  <1>2. IInv /\ [Next]_vars => IInv'
    BY StepIInv
  <1> QED BY <1>1, <1>2, PTL DEF Spec

(***************************************************************************)
(* The theorems                                                            *)
(***************************************************************************)
\* However many requests submit an idempotency key at the same time, fail, lose answers or
\* are lost in a restart: the upstream is charged once for a task that is there, and what it
\* was charged for has its task unless somebody deleted it; only a lost answer, or the lost
\* id of a video, leaves a charge one cannot ask after (Submit, Create, Discard).
THEOREM SpendIsAccounted == ASSUME MediaAssumption PROVE Spec => []SpendAccounted
  <1>1. IInv => SpendAccounted
    BY DEF IInv, Paid, OneTaskPerKey, SpendAccounted, PaidOnce
  <1> QED BY <1>1, Invariance, PTL

\* A task that says "stored" has its files; a finished video that waits has an archive, a
\* request or the restart's list that sees to it, or the next start if the last had
\* ResumeLimit before it, but where the exceptions of PendingHasArchive are met
\* (refreshVideoTask, mediaArchiver).
THEOREM ArchiveIsKept == ASSUME MediaAssumption PROVE Spec => []ArchiveKept
  <1>1. IInv => ArchiveKept
    BY DEF IInv, Paid, Archived, ArchiveKept
  <1> QED BY <1>1, Invariance, PTL

=============================================================================

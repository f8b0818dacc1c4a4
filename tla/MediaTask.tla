----------------------------- MODULE MediaTask -----------------------------
(***************************************************************************)
(* The image and video tasks of one user: service/media_service.go,        *)
(* service/media_archiver.go and repository/media_task_repo.go.            *)
(*                                                                         *)
(* A request (Requests) is one HTTP request, a submission or a refresh of  *)
(* the list, cut at every statement and upstream call.  An archive is the  *)
(* goroutine that copies a finished video to the object store.  A task is  *)
(* known by its id, the upstream's job for it by the same id; an artifact  *)
(* stands for all files of the task.  The object store is configured.      *)
(***************************************************************************)
EXTENDS Integers, FiniteSets, Functions

CONSTANTS
    Requests,
    Keys, NoKey, \* idempotency keys (client_request_id), and the lack of one
    MaxPending,  \* how many videos a user may have under way
    Slots,       \* how many archives may work at once
    ResumeLimit, \* how many archives a start takes up again (50)
    MaxTasks,    \* bound: tasks ever stored
    MaxEvents    \* bound: failed statements, lost answers, refusals out of turn,
                 \* deletions, restarts

MediaAssumption ==
    /\ Requests # {} /\ Keys # {} /\ NoKey \notin Keys
    /\ {MaxPending, Slots, ResumeLimit, MaxTasks} \subseteq Nat \ {0}
    /\ MaxEvents \in Nat

VARIABLES
    tasks,      \* media_tasks: a function on the ids there are
    artifacts,  \* media_artifacts: the tasks that have theirs
    nextId,
    job         \* what the upstream has of each task: nothing, a video that runs, is done
                \* or refused, an image made; it has charged for all but "none"

VARIABLES
    pc, key, kind, id,   \* of a request: its step, what it submits, its task
    archive,             \* inflight: a function from ids to the step of the archive
    listing, resume      \* ResumePending: has it to list, and what it has still to start

VARIABLES
    removed,    \* history: tasks the user or the cleanup deleted
    successes,  \* history: how often the success of a task was recorded, two for more
    cutShort,   \* history: tasks an archive or its restart could not settle
    behind,     \* history: tasks beyond the limit of the last start
    untraced,   \* history: tasks whose answer, or the id in it, was lost when it was charged
    events

rows     == <<tasks, artifacts, nextId>>
requests == <<pc, key, kind, id>>
archiver == <<archive, listing, resume>>
history  == <<removed, successes, cutShort, behind, untraced>>
vars     == <<rows, job, requests, archiver, history, events>>

Ids   == 1..MaxTasks
Kinds == {"video", "image"}
Row   == [key : Keys, kind : Kinds, status : {"pending", "succeeded", "failed"},
          requested : BOOLEAN,   \* is upstream_request_id stored?
          storage : {"", "pending", "stored", "failed"}]

There(i)      == i \in DOMAIN tasks
OfKey(k)      == {i \in DOMAIN tasks : tasks[i].key = k}
PendingVideos == {i \in DOMAIN tasks : tasks[i].kind = "video" /\ tasks[i].status = "pending"}

Init ==
    /\ tasks = <<>>
    /\ artifacts = {}
    /\ nextId = 1
    /\ job = [i \in Ids |-> "none"]
    /\ pc = [r \in Requests |-> "idle"]
    /\ key = [r \in Requests |-> NoKey]
    /\ kind = [r \in Requests |-> "video"]
    /\ id = [r \in Requests |-> 0]
    /\ archive = <<>>
    /\ listing = FALSE /\ resume = {}
    /\ removed = {} /\ cutShort = {} /\ behind = {} /\ untraced = {}
    /\ successes = [i \in Ids |-> 0]
    /\ events = 0

Event == events < MaxEvents /\ events' = events + 1

Goto(r, l) == pc' = [pc EXCEPT ![r] = l]

Return(r) ==
    /\ Goto(r, "idle")
    /\ key' = [key EXCEPT ![r] = NoKey]
    /\ kind' = [kind EXCEPT ![r] = "video"]
    /\ id' = [id EXCEPT ![r] = 0]

\* An UPDATE of a task that has gone changes nothing.
Updated(i, field, value) == IF There(i) THEN [tasks EXCEPT ![i][field] = value] ELSE tasks

Without(S) == Restrict(tasks, DOMAIN tasks \ S)

(***************************************************************************)
(* Submit                                                                  *)
(***************************************************************************)
Submit(r) ==
    /\ pc[r] = "idle"
    /\ \E k \in Keys, what \in Kinds :
           /\ key' = [key EXCEPT ![r] = k]
           /\ kind' = [kind EXCEPT ![r] = what]
           /\ Goto(r, IF what = "video" THEN "count" ELSE "lookup")
    /\ UNCHANGED <<rows, job, id, archiver, history, events>>

HasRoom == Cardinality(PendingVideos) < MaxPending

CountPendingVideos(r) ==
    /\ pc[r] = "count"
    /\ IF HasRoom
       THEN Goto(r, "lookup") /\ UNCHANGED <<key, kind, id>>
       ELSE Return(r)
    /\ UNCHANGED <<rows, job, archiver, history, events>>

\* GetByClientRequestID: a task with the key is returned as it is.
Lookup(r) ==
    /\ pc[r] = "lookup"
    /\ IF OfKey(key[r]) # {}
       THEN Return(r)
       ELSE Goto(r, "insert") /\ UNCHANGED <<key, kind, id>>
    /\ UNCHANGED <<rows, job, archiver, history, events>>

InsertBlind(r) ==
    /\ pc[r] = "insert"
    /\ nextId \in Ids
    /\ tasks' = [i \in DOMAIN tasks \cup {nextId} |->
                    IF i # nextId THEN tasks[i]
                    ELSE [key |-> key[r], kind |-> kind[r], status |-> "pending",
                          requested |-> FALSE, storage |-> ""]]
    /\ nextId' = nextId + 1
    /\ id' = [id EXCEPT ![r] = nextId]
    /\ Goto(r, "call")
    /\ UNCHANGED <<artifacts, job, key, kind, archiver, history, events>>

\* The unique index refuses a second task with the key; the first is returned.
Insert(r) ==
    IF OfKey(key[r]) = {} THEN InsertBlind(r)
    ELSE /\ pc[r] = "insert"
         /\ Return(r)
         /\ UNCHANGED <<rows, job, archiver, history, events>>

\* SubmitVideo, GenerateImage, EditImage: accepted and charged, its answer may get
\* lost; or refused.
Call(r) ==
    /\ pc[r] = "call"
    /\ LET video   == kind[r] = "video"
           failing == IF video THEN "fail" ELSE "discard"
           taken   == [job EXCEPT ![id[r]] = IF video THEN "running" ELSE "made"]
       IN  \/ job' = taken /\ Goto(r, IF video THEN "request" ELSE "succeed")
              /\ UNCHANGED <<untraced, events>>
           \/ job' = taken /\ Goto(r, failing) /\ Event /\ untraced' = untraced \cup {id[r]}
           \/ UNCHANGED <<job, untraced>> /\ Goto(r, failing) /\ Event
    /\ UNCHANGED <<rows, key, kind, id, archiver, removed, successes, cutShort, behind>>

SetNothing(r) ==
    /\ pc[r] = "request"
    /\ Return(r)
    /\ UNCHANGED <<rows, job, archiver, history, events>>


SetUpstreamRequestID(r) ==
    /\ pc[r] = "request"
    /\ tasks' = Updated(id[r], "requested", TRUE)
    /\ Return(r)
    /\ UNCHANGED <<artifacts, nextId, job, archiver, history, events>>

Discard(r) ==
    /\ pc[r] = "discard"
    /\ tasks' = Without({id[r]})
    /\ artifacts' = artifacts \ {id[r]}
    /\ Return(r)
    /\ UNCHANGED <<nextId, job, archiver, history, events>>

FailDiscards(r) ==
    /\ pc[r] = "fail"
    /\ tasks' = Without({id[r]})
    /\ Return(r)
    /\ UNCHANGED <<artifacts, nextId, job, archiver, history, events>>

\* failTask
MarkFailed(r) ==
    /\ pc[r] = "fail"
    /\ tasks' = Updated(id[r], "status", "failed")
    /\ Return(r)
    /\ UNCHANGED <<artifacts, nextId, job, archiver, history, events>>

\* An image is at hand, or a refresh found the video done.
MarkSucceeded(r) ==
    /\ pc[r] = "succeed"
    /\ tasks' = Updated(id[r], "status", "succeeded")
    /\ IF There(id[r])
       THEN /\ Goto(r, IF tasks[id[r]].kind = "video" THEN "storage" ELSE "images")
            /\ successes' = [successes EXCEPT ![id[r]] = IF @ = 0 THEN 1 ELSE 2]
            /\ UNCHANGED <<key, kind, id>>
       ELSE Return(r) /\ UNCHANGED successes
    /\ UNCHANGED <<artifacts, nextId, job, archiver, removed, cutShort, behind, untraced, events>>

\* ArchiveImages: every file is put and saved, or some are not.
ArchiveImages(r) ==
    /\ pc[r] = "images"
    /\ \/ There(id[r]) /\ artifacts' = artifacts \cup {id[r]} /\ Goto(r, "stored")
       \/ UNCHANGED artifacts /\ Goto(r, "lost")
    /\ UNCHANGED <<tasks, nextId, job, key, kind, id, archiver, history, events>>

SetImageStorage(r) ==
    /\ pc[r] \in {"stored", "lost"}
    /\ tasks' = Updated(id[r], "storage", IF pc[r] = "stored" THEN "stored" ELSE "failed")
    /\ Return(r)
    /\ UNCHANGED <<artifacts, nextId, job, archiver, history, events>>

(***************************************************************************)
(* ListTasks and refreshVideoTask                                          *)
(***************************************************************************)
\* The list is read once; each task in it is refreshed as it was then.
ListTasks(r) ==
    /\ pc[r] = "idle"
    /\ \E i \in PendingVideos : tasks[i].requested /\ id' = [id EXCEPT ![r] = i]
    /\ Goto(r, "query")
    /\ UNCHANGED <<rows, job, key, kind, archiver, history, events>>

\* Any 4xx answer fails the task, be it the upstream's refusal of the video, a rate
\* limit or a key without credit; any other failure, or progress, keeps it.
QueryVideo(r) ==
    /\ pc[r] = "query"
    /\ \/ job[id[r]] = "done" /\ Goto(r, "succeed") /\ UNCHANGED <<key, kind, id, events>>
       \/ job[id[r]] = "refused" /\ Goto(r, "fail") /\ UNCHANGED <<key, kind, id, events>>
       \/ Goto(r, "fail") /\ Event /\ UNCHANGED <<key, kind, id>>
       \/ Return(r) /\ UNCHANGED events
    /\ UNCHANGED <<rows, job, archiver, history>>

SetStoragePending(r) ==
    /\ pc[r] = "storage"
    /\ tasks' = Updated(id[r], "storage", "pending")
    /\ IF There(id[r])
       THEN Goto(r, "enqueue") /\ UNCHANGED <<key, kind, id>>
       ELSE Return(r)
    /\ UNCHANGED <<artifacts, nextId, job, archiver, history, events>>

\* Enqueue does nothing for a task that is in flight.
Enqueued(i) == [j \in DOMAIN archive \cup {i} |-> IF j \in DOMAIN archive THEN archive[j] ELSE "queued"]

Enqueue(r) ==
    /\ pc[r] = "enqueue"
    /\ archive' = Enqueued(id[r])
    /\ Return(r)
    /\ UNCHANGED <<rows, job, listing, resume, history, events>>

\* The tasks whose id of the upstream is known to a request of R only.
Holding(R) == {id[r] : r \in {q \in R : pc[q] = "request"}}

\* A statement fails (the database, or the request's context), be it the one that reads
\* the new task back before the call: the request ends.
StatementFails(r) ==
    /\ pc[r] \in {"count", "lookup", "insert", "call", "request", "discard", "fail", "succeed", "storage",
                  "stored", "lost"}
    /\ Event
    /\ untraced' = untraced \cup Holding({r})
    /\ Return(r)
    /\ UNCHANGED <<rows, job, archiver, removed, successes, cutShort, behind>>

(***************************************************************************)
(* The archives                                                            *)
(***************************************************************************)
Step(i, from, to) ==
    /\ i \in DOMAIN archive
    /\ archive[i] = from
    /\ archive' = [archive EXCEPT ![i] = to]

Working == {i \in DOMAIN archive : archive[i] \notin {"queued", "leaving"}}

TakeSlot(i) ==
    /\ Cardinality(Working) < Slots
    /\ Step(i, "queued", "fetch")
    /\ UNCHANGED <<rows, job, requests, listing, resume, history, events>>

PutOnly(i) ==
    /\ Step(i, "fetch", "settle") \/ Step(i, "fetch", "failing")
    /\ UNCHANGED <<rows, job, requests, listing, resume, history, events>>

\* The video is fetched and put into the object store, or one of both fails.
PutObject(i) ==
    /\ Step(i, "fetch", "save") \/ Step(i, "fetch", "failing")
    /\ UNCHANGED <<rows, job, requests, listing, resume, history, events>>

\* Save: the foreign key refuses the artifact of a task that has gone.
SaveArtifact(i) ==
    /\ \/ Step(i, "save", "settle") /\ There(i) /\ artifacts' = artifacts \cup {i} /\ UNCHANGED events
       \/ Step(i, "save", "failing") /\ ~There(i) /\ UNCHANGED <<artifacts, events>>
       \/ Step(i, "save", "failing") /\ Event /\ UNCHANGED artifacts
    /\ UNCHANGED <<tasks, nextId, job, requests, listing, resume, history>>

SetStored(i) ==
    /\ \/ Step(i, "settle", "leaving") /\ There(i) /\ UNCHANGED events
       \/ Step(i, "settle", "failing") /\ ~There(i) /\ UNCHANGED events
       \/ Step(i, "settle", "failing") /\ Event
    /\ tasks' = IF archive'[i] = "leaving" THEN Updated(i, "storage", "stored") ELSE tasks
    /\ UNCHANGED <<artifacts, nextId, job, requests, listing, resume, history>>

SetStorageFailed(i) ==
    /\ Step(i, "failing", "leaving")
    /\ tasks' = Updated(i, "storage", "failed")
    /\ UNCHANGED <<artifacts, nextId, job, requests, listing, resume, history, events>>

\* Its fifteen minutes are over (the context of the status update with them), it
\* panics, or the status update fails: it ends and the status stays.
CutShort(i) ==
    /\ i \in Working
    /\ Event
    /\ Step(i, archive[i], "leaving")
    /\ cutShort' = cutShort \cup {i}
    /\ UNCHANGED <<rows, job, requests, listing, resume, removed, successes, behind, untraced>>

Leave(i) ==
    /\ i \in DOMAIN archive
    /\ archive[i] = "leaving"
    /\ archive' = Restrict(archive, DOMAIN archive \ {i})
    /\ UNCHANGED <<rows, job, requests, listing, resume, history, events>>

(***************************************************************************)
(* The start of the process                                                *)
(***************************************************************************)
RestartForgets ==
    /\ Event
    /\ pc' = [r \in Requests |-> "idle"]
    /\ key' = [r \in Requests |-> NoKey]
    /\ kind' = [r \in Requests |-> "video"]
    /\ id' = [r \in Requests |-> 0]
    /\ archive' = <<>>
    /\ listing' = FALSE /\ resume' = {} /\ behind' = {}
    /\ untraced' = untraced \cup Holding(Requests)
    /\ UNCHANGED <<rows, job, removed, successes, cutShort>>

\* The process ends at any point; requests and archives are lost.
Restart ==
    /\ Event
    /\ pc' = [r \in Requests |-> "idle"]
    /\ key' = [r \in Requests |-> NoKey]
    /\ kind' = [r \in Requests |-> "video"]
    /\ id' = [r \in Requests |-> 0]
    /\ archive' = <<>>
    /\ listing' = TRUE /\ resume' = {} /\ behind' = {}
    /\ untraced' = untraced \cup Holding(Requests)
    /\ UNCHANGED <<rows, job, removed, successes, cutShort>>

Interrupted == {i \in DOMAIN tasks : tasks[i].storage = "pending" /\ tasks[i].status = "succeeded"}

\* ORDER BY id LIMIT: those with fewer than the limit before them.
FirstButOne(S) == {i \in S : Cardinality({j \in S : j < i}) < ResumeLimit - 1}

First(S) == {i \in S : Cardinality({j \in S : j < i}) < ResumeLimit}

\* ResumePending, in the background: the list, of which the next start takes what is
\* beyond the limit, or its failure ...
ListPendingStorage ==
    /\ listing
    /\ listing' = FALSE
    /\ \/ /\ resume' = First(Interrupted) /\ behind' = Interrupted \ First(Interrupted)
          /\ UNCHANGED <<cutShort, events>>
       \/ Event /\ UNCHANGED <<resume, behind>> /\ cutShort' = cutShort \cup Interrupted
    /\ UNCHANGED <<rows, job, requests, archive, removed, successes, untraced>>

\* ... and each task: its archive starts again, or its key cannot be found.
ResumeOne(i) ==
    /\ i \in resume
    /\ resume' = resume \ {i}
    /\ \/ archive' = Enqueued(i) /\ UNCHANGED tasks
       \/ tasks' = Updated(i, "storage", "failed") /\ UNCHANGED archive
    /\ UNCHANGED <<artifacts, nextId, job, requests, listing, history, events>>

(***************************************************************************)
(* The upstream, the user and the nightly cleanup                          *)
(***************************************************************************)
Finish(i) ==
    /\ job[i] = "running"
    /\ \E end \in {"done", "refused"} : job' = [job EXCEPT ![i] = end]
    /\ UNCHANGED <<rows, requests, archiver, history, events>>

RemoveRowsOnly(S) ==
    /\ Event
    /\ tasks' = Without(S)
    /\ removed' = removed \cup S
    /\ UNCHANGED <<artifacts, nextId, job, requests, archiver, successes, cutShort, behind, untraced>>

\* The foreign key takes the artifacts with the tasks.
Remove(S) ==
    /\ Event
    /\ tasks' = Without(S)
    /\ artifacts' = artifacts \ S
    /\ removed' = removed \cup S
    /\ UNCHANGED <<nextId, job, requests, archiver, successes, cutShort, behind, untraced>>

DeleteTask(i) == There(i) /\ Remove({i})

\* Everything created before a time goes, whatever its status.
Cleanup == \E before \in DOMAIN tasks : Remove({i \in DOMAIN tasks : i <= before})

Handling(r) ==
    \/ Submit(r) \/ CountPendingVideos(r) \/ Lookup(r) \/ Insert(r) \/ Call(r)
    \/ SetUpstreamRequestID(r) \/ Discard(r) \/ MarkFailed(r) \/ MarkSucceeded(r)
    \/ ArchiveImages(r) \/ SetImageStorage(r) \/ StatementFails(r)
    \/ ListTasks(r) \/ QueryVideo(r) \/ SetStoragePending(r) \/ Enqueue(r)

Archiving(i) ==
    \/ TakeSlot(i) \/ PutObject(i) \/ SaveArtifact(i) \/ SetStored(i) \/ SetStorageFailed(i)
    \/ CutShort(i) \/ Leave(i)

Next ==
    \/ \E r \in Requests : Handling(r)
    \/ \E i \in Ids : Archiving(i) \/ ResumeOne(i) \/ Finish(i) \/ DeleteTask(i)
    \/ Restart \/ ListPendingStorage \/ Cleanup

Spec == Init /\ [][Next]_vars

(***************************************************************************)
(* Properties                                                              *)
(***************************************************************************)
TypeOK ==
    /\ DOMAIN tasks \subseteq Ids
    /\ \A i \in DOMAIN tasks : tasks[i] \in Row
    /\ artifacts \subseteq DOMAIN tasks
    /\ nextId \in 1..(MaxTasks + 1)
    /\ job \in [Ids -> {"none", "running", "done", "refused", "made"}]
    /\ pc \in [Requests -> {"idle", "count", "lookup", "insert", "call", "request", "discard", "fail",
                            "succeed", "images", "stored", "lost", "query", "storage", "enqueue"}]
    /\ key \in [Requests -> Keys \cup {NoKey}]
    /\ kind \in [Requests -> Kinds]
    /\ id \in [Requests -> 0..MaxTasks]
    /\ DOMAIN archive \subseteq Ids
    /\ \A i \in DOMAIN archive :
           archive[i] \in {"queued", "fetch", "save", "settle", "failing", "leaving"}
    /\ listing \in BOOLEAN
    /\ resume \subseteq Ids /\ removed \subseteq Ids /\ cutShort \subseteq Ids
    /\ behind \subseteq Ids /\ untraced \subseteq Ids
    /\ successes \in [Ids -> 0..2]
    /\ events \in 0..MaxEvents

\* The upstream is charged at most once for an idempotency key whose task has not
\* been deleted, however often and at the same time it is submitted.
PaidOnce ==
    \A i, j \in DOMAIN tasks : tasks[i].key = tasks[j].key /\ i # j => job[i] = "none" \/ job[j] = "none"

\* A video that was paid for has its task, unless somebody deleted it, and the task can
\* be asked after upstream: its id there is stored, or about to be.  Only where the answer
\* of the call was lost, the write of that id failed or the process ended before it, is
\* the task that stays all there is.  An image goes without its task only if its answer
\* was lost.
SpendTraced ==
    \A i \in Ids \ removed :
        /\ job[i] \in {"running", "done", "refused"} =>
              There(i) /\ (tasks[i].requested \/ i \in Holding(Requests) \cup untraced)
        /\ job[i] = "made" => There(i) \/ i \in untraced

\* A task that says its files are stored has them.
StoredHasArtifact ==
    \A i \in DOMAIN tasks : tasks[i].storage = "stored" => i \in artifacts

Again == {i \in Ids : successes[i] = 2}

\* A video that waits for its archive has one on its way, unless its success was
\* recorded twice or its archive was cut short, or it has to wait for the next start: one
\* start takes up ResumeLimit of them, so that only a later task can be left behind.
PendingHasArchive ==
    \A i \in Interrupted :
        \/ i \in DOMAIN archive /\ archive[i] # "leaving"
        \/ \E r \in Requests : pc[r] = "enqueue" /\ id[r] = i
        \/ listing \/ i \in resume \cup Again \cup cutShort
        \/ i \in behind /\ i > ResumeLimit

\* What the upstream charges, it charges once and for a task one can find, or one whose
\* answer was lost.
SpendAccounted == PaidOnce /\ SpendTraced

\* What is finished is stored or on its way there.
ArchiveKept == StoredHasArtifact /\ PendingHasArchive
=============================================================================

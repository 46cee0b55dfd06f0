------------------------------- MODULE JobQueue -------------------------------
(***************************************************************************)
(* The daemon's jobs: Queue and Store of internal/jobs, the handlers of    *)
(* internal/server that create, delete and download jobs, the cleanup loop *)
(* and the shutdown of cmd/gorendersd.                                     *)
(*                                                                         *)
(* One attempt to render a job (renderJob) is two actions here, for its    *)
(* two outcomes; module RenderRun models what happens inside.  Time is the *)
(* retention period only: a job, and then its file, becomes old.           *)
(*                                                                         *)
(* The handlers read a job's fields without the store's lock.  A job's     *)
(* fields are single values here, so such a read is a step of its own that *)
(* sees the field's current value.                                         *)
(***************************************************************************)
EXTENDS Integers, Sequences, FiniteSets

CONSTANTS
  Job,             \* the jobs that clients may create
  Visited,         \* those that clients also delete and download
  Lasting,         \* those that are still there after the retention period
  MaxConcurrent,   \* opts.MaxConcurrentJobs
  QueueDepth,      \* capacity of q.incoming, 256 in the code
  MaxRetries,      \* maxRetries, 3 in the code
  NoJob            \* the dispatcher has no job in hand

ASSUME QueueAssumption ==
  /\ IsFiniteSet(Job)
  /\ Visited \subseteq Job /\ Lasting \subseteq Job
  /\ NoJob \notin Job
  /\ MaxConcurrent \in Nat \ {0}
  /\ QueueDepth \in Nat \ {0}
  /\ MaxRetries \in Nat \ {0}

VARIABLES
  store,        \* [Job -> its Status, "absent" while it is not in the store]
  err,          \* [Job -> Job.Error: "none", "client" or "render"]
  path,         \* [Job -> whether Job.OutputPath is set]
  oldJob,       \* [Job -> created longer ago than the retention period]
  file,         \* [Job -> its MP4: "none", "partial" or "complete"]
  oldFile,      \* [Job -> last written longer ago than the retention period]
  creator,      \* [Job -> POST handler: "none", "put" or "sent"]
  incoming,     \* the channel q.incoming
  dispatcher,   \* dispatchLoop: "select", "slot" or "returned"
  inHand,       \* the job that dispatchLoop has taken
  slots,        \* entries in q.sem
  runner,       \* [Job -> where its runJob goroutine is]
  attempt,      \* [Job -> attempts that runJob has begun]
  deleter,      \* [Job -> DELETE handler: "idle", "remove" or "mark"]
  reader,       \* [Job -> download handler: "idle" or "open"]
  served,       \* the kinds of file that downloads have streamed
  cleaner,      \* cleanupLoop: "wait" or "files"
  live          \* the daemon's context is live

jobVars == <<store, err, path, oldJob>>
fileVars == <<file, oldFile>>
dispatchVars == <<incoming, dispatcher, inHand>>
runVars == <<slots, runner, attempt>>
handlerVars == <<creator, deleter, reader, served>>
vars == <<jobVars, fileVars, dispatchVars, runVars, handlerVars, cleaner, live>>

Init ==
  /\ store = [j \in Job |-> "absent"]
  /\ err = [j \in Job |-> "none"]
  /\ path = [j \in Job |-> FALSE]
  /\ oldJob = [j \in Job |-> FALSE]
  /\ file = [j \in Job |-> "none"]
  /\ oldFile = [j \in Job |-> FALSE]
  /\ creator = [j \in Job |-> "none"]
  /\ incoming = << >>
  /\ dispatcher = "select"
  /\ inHand = NoJob
  /\ slots = 0
  /\ runner = [j \in Job |-> "off"]
  /\ attempt = [j \in Job |-> 0]
  /\ deleter = [j \in Job |-> "idle"]
  /\ reader = [j \in Job |-> "idle"]
  /\ served = {}
  /\ cleaner = "wait"
  /\ live = TRUE

-----------------------------------------------------------------------------
(* Creating a job: handleCreateJob, NewJob and Enqueue.                    *)

PutJob(j) ==
  /\ live
  /\ creator[j] = "none"
  /\ store' = [store EXCEPT ![j] = "queued"]
  /\ creator' = [creator EXCEPT ![j] = "put"]
  /\ UNCHANGED <<err, path, oldJob, fileVars, dispatchVars, runVars, deleter, reader,
                 served, cleaner, live>>

\* q.incoming <- job.ID: the handler waits while the channel is full.
SendJob(j) ==
  /\ creator[j] = "put"
  /\ Len(incoming) < QueueDepth
  /\ incoming' = Append(incoming, j)
  /\ creator' = [creator EXCEPT ![j] = "sent"]
  /\ UNCHANGED <<jobVars, fileVars, dispatcher, inHand, runVars, deleter, reader, served,
                 cleaner, live>>

-----------------------------------------------------------------------------
(* dispatchLoop.                                                           *)

DispatchTake ==
  /\ dispatcher = "select"
  /\ incoming # << >>
  /\ inHand' = Head(incoming)
  /\ incoming' = Tail(incoming)
  /\ dispatcher' = "slot"
  /\ UNCHANGED <<jobVars, fileVars, runVars, handlerVars, cleaner, live>>

\* A slot of the semaphore is free: the job's goroutine starts.
DispatchStart ==
  /\ dispatcher = "slot"
  /\ slots < MaxConcurrent
  /\ slots' = slots + 1
  /\ runner' = [runner EXCEPT ![inHand] = "get"]
  /\ dispatcher' = "select"
  /\ inHand' = NoJob
  /\ UNCHANGED <<jobVars, fileVars, incoming, attempt, handlerVars, cleaner, live>>

\* The context is done: the loop returns, and drops the job it has in hand.
DispatchStop ==
  /\ ~ live
  /\ dispatcher # "returned"
  /\ dispatcher' = "returned"
  /\ inHand' = NoJob
  /\ UNCHANGED <<jobVars, fileVars, incoming, runVars, handlerVars, cleaner, live>>

-----------------------------------------------------------------------------
(* runJob.                                                                 *)

\* A mutation of GetJob: the return for a missing job keeps the slot.
GetJobKeepingSlot(j) ==
  /\ runner[j] = "get"
  /\ runner' = [runner EXCEPT ![j] = IF store[j] = "absent" THEN "off" ELSE "begin"]
  /\ UNCHANGED <<jobVars, fileVars, dispatchVars, slots, attempt, handlerVars, cleaner, live>>

\* store.Get: a job that is gone is not run.
GetJob(j) ==
  /\ runner[j] = "get"
  /\ runner' = [runner EXCEPT ![j] = IF store[j] = "absent" THEN "return" ELSE "begin"]
  /\ UNCHANGED <<jobVars, fileVars, dispatchVars, slots, attempt, handlerVars, cleaner, live>>

\* store.Update of a job that is not in the store does nothing.
Updated(j, status) == IF store[j] = "absent" THEN store ELSE [store EXCEPT ![j] = status]

BeginJob(j) ==
  /\ runner[j] = "begin"
  /\ store' = Updated(j, "rendering")
  /\ attempt' = [attempt EXCEPT ![j] = 1]
  /\ runner' = [runner EXCEPT ![j] = "render"]
  /\ UNCHANGED <<err, path, oldJob, fileVars, dispatchVars, slots, handlerVars, cleaner, live>>

\* renderJob returns without an error: the complete video is at the job's path.
AttemptSucceeds(j) ==
  /\ runner[j] = "render"
  /\ file' = [file EXCEPT ![j] = "complete"]
  /\ oldFile' = [oldFile EXCEPT ![j] = FALSE]
  /\ runner' = [runner EXCEPT ![j] = "done"]
  /\ UNCHANGED <<jobVars, dispatchVars, slots, attempt, handlerVars, cleaner, live>>

\* A mutation of AttemptFails: renderJob does not read errc.
AttemptFailsUnnoticed(j) ==
  /\ runner[j] = "render"
  /\ file' = [file EXCEPT ![j] = "partial"]
  /\ oldFile' = [oldFile EXCEPT ![j] = FALSE]
  /\ runner' = [runner EXCEPT ![j] = "done"]
  /\ UNCHANGED <<jobVars, dispatchVars, slots, attempt, handlerVars, cleaner, live>>

\* renderJob returns an error.  When a frame failed, the video with its end
\* padded may have been published before the error was read.
AttemptFails(j) ==
  /\ runner[j] = "render"
  /\ \/ UNCHANGED fileVars
     \/ /\ file' = [file EXCEPT ![j] = "partial"]
        /\ oldFile' = [oldFile EXCEPT ![j] = FALSE]
  /\ runner' = [runner EXCEPT ![j] = IF attempt[j] < MaxRetries THEN "backoff" ELSE "failed"]
  /\ UNCHANGED <<jobVars, dispatchVars, slots, attempt, handlerVars, cleaner, live>>

\* A mutation of Retry: the job is shown as queued again.
RetryAsQueued(j) ==
  /\ runner[j] = "backoff"
  /\ store' = Updated(j, "queued")
  /\ attempt' = [attempt EXCEPT ![j] = @ + 1]
  /\ runner' = [runner EXCEPT ![j] = "render"]
  /\ UNCHANGED <<err, path, oldJob, fileVars, dispatchVars, slots, handlerVars, cleaner, live>>

\* The back-off is over.
Retry(j) ==
  /\ runner[j] = "backoff"
  /\ attempt' = [attempt EXCEPT ![j] = @ + 1]
  /\ runner' = [runner EXCEPT ![j] = "render"]
  /\ UNCHANGED <<jobVars, fileVars, dispatchVars, slots, handlerVars, cleaner, live>>

BackoffCancelled(j) ==
  /\ runner[j] = "backoff"
  /\ ~ live
  /\ runner' = [runner EXCEPT ![j] = "failed"]
  /\ UNCHANGED <<jobVars, fileVars, dispatchVars, slots, attempt, handlerVars, cleaner, live>>

MarkDone(j) ==
  /\ runner[j] = "done"
  /\ store' = Updated(j, "done")
  /\ path' = IF store[j] = "absent" THEN path ELSE [path EXCEPT ![j] = TRUE]
  /\ runner' = [runner EXCEPT ![j] = "return"]
  /\ UNCHANGED <<err, oldJob, fileVars, dispatchVars, slots, attempt, handlerVars, cleaner, live>>

\* A mutation of MarkFailed: the way out after a failure keeps the slot.
MarkFailedKeepingSlot(j) ==
  /\ runner[j] = "failed"
  /\ store' = Updated(j, "failed")
  /\ err' = IF store[j] = "absent" THEN err ELSE [err EXCEPT ![j] = "render"]
  /\ runner' = [runner EXCEPT ![j] = "off"]
  /\ UNCHANGED <<path, oldJob, fileVars, dispatchVars, slots, attempt, handlerVars, cleaner, live>>

MarkFailed(j) ==
  /\ runner[j] = "failed"
  /\ store' = Updated(j, "failed")
  /\ err' = IF store[j] = "absent" THEN err ELSE [err EXCEPT ![j] = "render"]
  /\ runner' = [runner EXCEPT ![j] = "return"]
  /\ UNCHANGED <<path, oldJob, fileVars, dispatchVars, slots, attempt, handlerVars, cleaner, live>>

\* defer func() { <-q.sem }()
FreeSlot(j) ==
  /\ runner[j] = "return"
  /\ slots' = slots - 1
  /\ runner' = [runner EXCEPT ![j] = "off"]
  /\ attempt' = [attempt EXCEPT ![j] = 0]
  /\ UNCHANGED <<jobVars, fileVars, dispatchVars, handlerVars, cleaner, live>>

RunStep(j) ==
  \/ GetJob(j) \/ BeginJob(j)
  \/ AttemptSucceeds(j) \/ AttemptFails(j)
  \/ Retry(j) \/ BackoffCancelled(j)
  \/ MarkDone(j) \/ MarkFailed(j) \/ FreeSlot(j)

-----------------------------------------------------------------------------
(* handleDeleteJob and handleDownload.                                     *)

\* The job is looked up; it answers 404 if there is none.
DeleteGet(j) ==
  /\ j \in Visited
  /\ deleter[j] = "idle"
  /\ store[j] # "absent"
  /\ deleter' = [deleter EXCEPT ![j] = "remove"]
  /\ UNCHANGED <<jobVars, fileVars, dispatchVars, runVars, creator, reader, served, cleaner, live>>

\* The file is removed if the job has an output path by now.
DeleteFile(j) ==
  /\ deleter[j] = "remove"
  /\ file' = IF path[j] THEN [file EXCEPT ![j] = "none"] ELSE file
  /\ deleter' = [deleter EXCEPT ![j] = "mark"]
  /\ UNCHANGED <<jobVars, oldFile, dispatchVars, runVars, creator, reader, served, cleaner, live>>

\* The job is marked as failed, whatever it is doing.
DeleteMark(j) ==
  /\ deleter[j] = "mark"
  /\ store' = Updated(j, "failed")
  /\ err' = IF store[j] = "absent" THEN err ELSE [err EXCEPT ![j] = "client"]
  /\ deleter' = [deleter EXCEPT ![j] = "idle"]
  /\ UNCHANGED <<path, oldJob, fileVars, dispatchVars, runVars, creator, reader, served,
                 cleaner, live>>

\* A download sees a job that is done (it answers 202 or 422 to the others).
DownloadGet(j) ==
  /\ j \in Visited
  /\ reader[j] = "idle"
  /\ store[j] = "done"
  /\ reader' = [reader EXCEPT ![j] = "open"]
  /\ UNCHANGED <<jobVars, fileVars, dispatchVars, runVars, creator, deleter, served, cleaner, live>>

\* The file is opened and streamed, or it is gone and the answer is 404.
DownloadOpen(j) ==
  /\ reader[j] = "open"
  /\ served' = served \cup ({file[j]} \ {"none"})
  /\ reader' = [reader EXCEPT ![j] = "idle"]
  /\ UNCHANGED <<jobVars, fileVars, dispatchVars, runVars, creator, deleter, cleaner, live>>

-----------------------------------------------------------------------------
(* cleanupLoop, time and shutdown.                                         *)

\* Mutations of Prune: it looks at the age only, or the cleanup ends if nothing
\* was pruned.
PruneByAge ==
  /\ live
  /\ cleaner = "wait"
  /\ store' = [j \in Job |-> IF oldJob[j] THEN "absent" ELSE store[j]]
  /\ cleaner' = "files"
  /\ UNCHANGED <<err, path, oldJob, fileVars, dispatchVars, runVars, handlerVars, live>>

PruneOnly ==
  /\ live
  /\ cleaner = "wait"
  /\ store' = [j \in Job |-> IF store[j] \in {"done", "failed"} /\ oldJob[j]
                             THEN "absent" ELSE store[j]]
  /\ cleaner' = IF store' = store THEN "wait" ELSE "files"
  /\ UNCHANGED <<err, path, oldJob, fileVars, dispatchVars, runVars, handlerVars, live>>

\* Store.Prune drops the jobs that have ended and were created long ago.
Prune ==
  /\ live
  /\ cleaner = "wait"
  /\ store' = [j \in Job |-> IF store[j] \in {"done", "failed"} /\ oldJob[j]
                             THEN "absent" ELSE store[j]]
  /\ cleaner' = "files"
  /\ UNCHANGED <<err, path, oldJob, fileVars, dispatchVars, runVars, handlerVars, live>>

\* A mutation of RemoveFiles: the age of the job counts, not that of the file.
RemoveFilesOfOldJobs ==
  /\ cleaner = "files"
  /\ file' = [j \in Job |-> IF oldJob[j] THEN "none" ELSE file[j]]
  /\ cleaner' = "wait"
  /\ UNCHANGED <<jobVars, oldFile, dispatchVars, runVars, handlerVars, live>>

\* The MP4s that were last written long ago are removed.
RemoveFiles ==
  /\ cleaner = "files"
  /\ file' = [j \in Job |-> IF oldFile[j] THEN "none" ELSE file[j]]
  /\ cleaner' = "wait"
  /\ UNCHANGED <<jobVars, oldFile, dispatchVars, runVars, handlerVars, live>>

\* The retention period passes since the job was created.
JobAges(j) ==
  /\ j \in Lasting
  /\ creator[j] # "none"
  /\ ~ oldJob[j]
  /\ oldJob' = [oldJob EXCEPT ![j] = TRUE]
  /\ UNCHANGED <<store, err, path, fileVars, dispatchVars, runVars, handlerVars, cleaner, live>>

\* The same for its file, which is younger.  No such time passes during a
\* cleanup or between the end of an attempt and the update of the job.
FileAges(j) ==
  /\ file[j] # "none" /\ ~ oldFile[j]
  /\ oldJob[j]
  /\ cleaner = "wait"
  /\ runner[j] # "done"
  /\ oldFile' = [oldFile EXCEPT ![j] = TRUE]
  /\ UNCHANGED <<jobVars, file, dispatchVars, runVars, handlerVars, cleaner, live>>

\* SIGTERM cancels the daemon's context.
Shutdown ==
  /\ live
  /\ live' = FALSE
  /\ UNCHANGED <<jobVars, fileVars, dispatchVars, runVars, handlerVars, cleaner>>

-----------------------------------------------------------------------------
DispatchStep == DispatchTake \/ DispatchStart \/ DispatchStop

HandlerStep(j) ==
  \/ PutJob(j) \/ SendJob(j)
  \/ DeleteGet(j) \/ DeleteFile(j) \/ DeleteMark(j)
  \/ DownloadGet(j) \/ DownloadOpen(j)

Next ==
  \/ DispatchStep
  \/ \E j \in Job : RunStep(j) \/ HandlerStep(j) \/ JobAges(j) \/ FileAges(j)
  \/ Prune \/ RemoveFiles
  \/ Shutdown

Spec == Init /\ [][Next]_vars

\* The goroutines are scheduled fairly; an attempt ends while the daemon lives
\* (RenderRun's RenderReturns); the cleanup ticks for ever and time passes.  A
\* select that waits to send on the semaphore or to send on the queue gets its
\* turn: Go serves the waiters of a channel in order.
Fairness ==
  /\ WF_vars(DispatchStep)
  /\ \A j \in Job : /\ SF_vars(SendJob(j))
                    /\ WF_vars((live \/ runner[j] # "render") /\ RunStep(j))
                    /\ WF_vars(DeleteFile(j) \/ DeleteMark(j))
                    /\ WF_vars(JobAges(j))
                    /\ SF_vars(FileAges(j))
  /\ WF_vars(Prune)
  /\ WF_vars(RemoveFiles)

FairSpec == Spec /\ Fairness

-----------------------------------------------------------------------------
(* Properties.                                                             *)

Status == {"absent", "queued", "rendering", "done", "failed"}
RunnerPC == {"off", "get", "begin", "render", "backoff", "done", "failed", "return"}

TypeOK ==
  /\ store \in [Job -> Status]
  /\ err \in [Job -> {"none", "client", "render"}]
  /\ path \in [Job -> BOOLEAN]
  /\ oldJob \in [Job -> BOOLEAN]
  /\ file \in [Job -> {"none", "partial", "complete"}]
  /\ oldFile \in [Job -> BOOLEAN]
  /\ creator \in [Job -> {"none", "put", "sent"}]
  /\ incoming \in Seq(Job) /\ Len(incoming) <= QueueDepth
  /\ dispatcher \in {"select", "slot", "returned"}
  /\ inHand \in Job \cup {NoJob}
  /\ slots \in 0 .. MaxConcurrent
  /\ runner \in [Job -> RunnerPC]
  /\ attempt \in [Job -> 0 .. MaxRetries]
  /\ deleter \in [Job -> {"idle", "remove", "mark"}]
  /\ reader \in [Job -> {"idle", "open"}]
  /\ served \subseteq {"partial", "complete"}
  /\ cleaner \in {"wait", "files"}
  /\ live \in BOOLEAN

\* No more than MaxConcurrentJobs jobs are under way, on whichever path each of
\* them ends, and no slot of the semaphore is lost.
ConcurrencyBound ==
  /\ Cardinality({j \in Job : runner[j] # "off"}) <= MaxConcurrent
  /\ Cardinality({j \in Job : runner[j] # "off"}) = slots

\* A job that is being rendered, and that no client has deleted, is in the store
\* and shows it: cleaning up, however old the job is, does not touch it.
RenderingIsShown ==
  \A j \in Job :
    runner[j] \in {"render", "backoff", "done", "failed"} /\ err[j] # "client" =>
      store[j] = "rendering"

\* A job that is shown as done has its complete video, unless a client is just
\* deleting it: neither a retry nor the cleanup takes the file from under it.
DoneHasVideo ==
  \A j \in Job : store[j] = "done" => file[j] = "complete" \/ deleter[j] = "mark"

\* Downloads never stream a padded video of a failed attempt.
ServesCompleteVideos == served \subseteq {"complete"}

\* A job's status goes queued, rendering, done or failed, absent, and never
\* back; only a client's DELETE gets in between.
StatusOrder ==
  [][\A j \in Job :
       \/ store'[j] = store[j]
       \/ <<store[j], store'[j]>> \in
            {<<"absent", "queued">>, <<"queued", "rendering">>, <<"rendering", "done">>,
             <<"rendering", "failed">>, <<"done", "absent">>, <<"failed", "absent">>}
       \/ err[j] = "client" \/ err'[j] = "client" ]_store

\* While the daemon lives, every job that a client has created is rendered,
\* fails or is deleted: none waits for ever.
JobsSettle ==
  \A j \in Job : creator[j] = "put" ~> store[j] \in {"done", "failed", "absent"} \/ ~ live

\* While the daemon lives, no video stays on the disk for ever, not even one that
\* a failed attempt left behind or whose job has been pruned.
VideosAreCleaned == \A j \in Lasting : file[j] # "none" ~> file[j] = "none" \/ ~ live
=============================================================================

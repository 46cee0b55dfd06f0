---------------------------- MODULE JobQueueProofs ----------------------------
(***************************************************************************)
(* Proofs about JobQueue, for every set of jobs and every bound.           *)
(***************************************************************************)
EXTENDS JobQueue, FiniteSetTheorems, TLAPS

-----------------------------------------------------------------------------
(* The inductive invariant.                                                *)

\* The jobs that have a goroutine, and with it a slot of the semaphore.
Running == {j \in Job : runner[j] # "off"}

\* The job has not been looked up by a goroutine yet, but it still may be.
Waiting(j) ==
  \/ creator[j] = "put"
  \/ inHand = j
  \/ \E i \in 1 .. Len(incoming) : incoming[i] = j
  \/ runner[j] \in {"get", "begin"}

\* The job's goroutine is over, or has only its slot to give back.
Ended(j) ==
  /\ creator[j] = "sent"
  /\ ~ Waiting(j)
  /\ runner[j] \in {"off", "return"}

\* A job's id is in one place: it is with the handler that creates the job, on
\* the channel, in the dispatcher's hand or with the job's only goroutine.
OnePlace ==
  /\ \A j \in Job : creator[j] # "sent" =>
       /\ runner[j] = "off"
       /\ inHand # j
       /\ \A i \in 1 .. Len(incoming) : incoming[i] # j
  /\ \A i, k \in 1 .. Len(incoming) : i # k => incoming[i] # incoming[k]
  /\ \A i \in 1 .. Len(incoming) : incoming[i] # inHand /\ runner[incoming[i]] = "off"
  /\ inHand # NoJob => runner[inHand] = "off"
  /\ dispatcher = "slot" => inHand # NoJob

\* The semaphore counts the goroutines.
Semaphore == Cardinality(Running) = slots

\* The back-off is only between two attempts.
Attempts == \A j \in Job : runner[j] = "backoff" => attempt[j] < MaxRetries

\* A job is in the store only after it was created.
Uncreated == \A j \in Job : creator[j] = "none" => store[j] = "absent"

\* A job that no client has deleted shows what its goroutine does.
Shown ==
  \A j \in Job : err[j] # "client" =>
    /\ Waiting(j) => store[j] = "queued"
    /\ runner[j] \in {"render", "backoff", "done", "failed"} => store[j] = "rendering"

\* The video of a job that is done stays until a DELETE removes it or the job
\* has been pruned.
Kept ==
  \A j \in Job :
    /\ store[j] = "done" \/ path[j] => Ended(j)
    /\ runner[j] = "done" => file[j] = "complete" /\ ~ oldFile[j]
    /\ store[j] = "done" =>
         file[j] = "complete" \/ (deleter[j] = "mark" /\ file[j] = "none")
    /\ cleaner = "files" /\ store[j] = "done" => ~ oldFile[j]
    /\ oldFile[j] => oldJob[j]

\* A download has only ever found complete videos.
Streamed ==
  /\ served \subseteq {"complete"}
  /\ \A j \in Job : reader[j] = "open" => Ended(j) /\ file[j] # "partial"

IInv ==
  /\ TypeOK /\ OnePlace /\ Semaphore /\ Attempts
  /\ Uncreated /\ Shown /\ Kept /\ Streamed

-----------------------------------------------------------------------------
(* Channels and the semaphore.                                             *)

\* What a send and a receive on a channel do.
LEMMA Channel ==
  ASSUME NEW S, NEW ch \in Seq(S), NEW x \in S
  PROVE  /\ Len(ch) \in Nat
         /\ \A i \in 1 .. Len(ch) : ch[i] \in S
         /\ Append(ch, x) \in Seq(S)
         /\ Len(Append(ch, x)) = Len(ch) + 1
         /\ \A i \in 1 .. Len(ch) : Append(ch, x)[i] = ch[i]
         /\ Append(ch, x)[Len(ch) + 1] = x
         /\ ch # << >> => /\ Len(ch) > 0
                          /\ Head(ch) = ch[1]
                          /\ Head(ch) \in S
                          /\ Tail(ch) \in Seq(S)
                          /\ Len(Tail(ch)) = Len(ch) - 1
                          /\ \A i \in 1 .. Len(ch) - 1 : Tail(ch)[i] = ch[i + 1]
  OBVIOUS

\* The number of running jobs is a natural number, and not 0 if there is one.
LEMMA RunningSize ==
  ASSUME TypeOK
  PROVE  /\ IsFiniteSet(Running)
         /\ Cardinality(Running) \in Nat
         /\ \A j \in Running : Cardinality(Running) # 0
  <1>1. IsFiniteSet(Job) BY QueueAssumption
  <1>2. IsFiniteSet(Running) BY <1>1, FS_Subset DEF Running
  <1> QED BY <1>2, FS_CardinalityType, FS_EmptySet

-----------------------------------------------------------------------------
LEMMA InitIInv == Init => IInv
  <1> SUFFICES ASSUME Init PROVE IInv OBVIOUS
  <1>1. << >> \in Seq(Job) /\ Len(<< >>) = 0 OBVIOUS
  <1>2. 0 <= QueueDepth /\ 0 \in 0 .. MaxConcurrent /\ 0 \in 0 .. MaxRetries
    BY QueueAssumption
  <1>3. TypeOK BY <1>1, <1>2 DEF Init, TypeOK, Status, RunnerPC
  <1>4. Running = {} BY DEF Init, Running
  <1>5. Semaphore BY <1>4, FS_EmptySet DEF Init, Semaphore
  <1>6. \A j \in Job : ~ Waiting(j) BY <1>1, QueueAssumption DEF Init, Waiting
  <1>7. OnePlace BY <1>1, QueueAssumption DEF Init, OnePlace
  <1>8. Attempts /\ Uncreated /\ Shown /\ Kept /\ Streamed
    BY <1>6 DEF Init, Attempts, Uncreated, Shown, Kept, Streamed
  <1> QED BY <1>3, <1>5, <1>7, <1>8 DEF IInv

LEMMA TypeStep ==
  ASSUME TypeOK, OnePlace, Semaphore, Attempts, [Next]_vars
  PROVE  TypeOK'
  <1> USE DEF TypeOK, Status, RunnerPC, jobVars, fileVars, dispatchVars, runVars, handlerVars
  <1>0. \A j \in Job : runner[j] # "off" => slots - 1 \in 0 .. MaxConcurrent
    BY RunningSize, QueueAssumption DEF Semaphore, Running
  <1>1. CASE DispatchStep
    <2>1. CASE DispatchTake
      <3>1. incoming \in Seq(Job) /\ incoming # << >> BY <2>1 DEF DispatchTake
      <3>2. /\ incoming' \in Seq(Job) /\ Len(incoming') <= QueueDepth
            /\ inHand' \in Job
        BY <2>1, <3>1, QueueAssumption DEF DispatchTake
      <3> QED BY <2>1, <3>2 DEF DispatchTake
    <2>2. CASE DispatchStart
      <3>1. inHand \in Job /\ slots + 1 \in 0 .. MaxConcurrent
        BY <2>2, QueueAssumption DEF DispatchStart, OnePlace
      <3> QED BY <2>2, <3>1 DEF DispatchStart
    <2>3. CASE DispatchStop BY <2>3 DEF DispatchStop
    <2> QED BY <1>1, <2>1, <2>2, <2>3 DEF DispatchStep
  <1>2. ASSUME NEW j \in Job, RunStep(j) PROVE TypeOK'
    <2>1. CASE GetJob(j) BY <2>1 DEF GetJob
    <2>2. CASE BeginJob(j)
      <3>1. 1 \in 0 .. MaxRetries BY QueueAssumption
      <3> QED BY <2>2, <3>1 DEF BeginJob, Updated
    <2>3. CASE AttemptSucceeds(j) BY <2>3 DEF AttemptSucceeds
    <2>4. CASE AttemptFails(j) BY <2>4 DEF AttemptFails
    <2>5. CASE Retry(j)
      <3>1. attempt[j] + 1 \in 0 .. MaxRetries
        BY <2>5, QueueAssumption DEF Retry, Attempts
      <3> QED BY <2>5, <3>1 DEF Retry
    <2>6. CASE BackoffCancelled(j) BY <2>6 DEF BackoffCancelled
    <2>7. CASE MarkDone(j) BY <2>7 DEF MarkDone, Updated
    <2>8. CASE MarkFailed(j) BY <2>8 DEF MarkFailed, Updated
    <2>9. CASE FreeSlot(j)
      <3>1. slots - 1 \in 0 .. MaxConcurrent /\ 0 \in 0 .. MaxRetries
        BY <1>0, <2>9, QueueAssumption DEF FreeSlot
      <3> QED BY <2>9, <3>1 DEF FreeSlot
    <2> QED BY <1>2, <2>1, <2>2, <2>3, <2>4, <2>5, <2>6, <2>7, <2>8, <2>9 DEF RunStep
  <1>3. ASSUME NEW j \in Job, HandlerStep(j) PROVE TypeOK'
    <2>1. CASE PutJob(j) BY <2>1 DEF PutJob
    <2>2. CASE SendJob(j)
      <3>1. incoming' \in Seq(Job) /\ Len(incoming') <= QueueDepth
        BY <2>2, Channel, QueueAssumption DEF SendJob
      <3> QED BY <2>2, <3>1 DEF SendJob
    <2>3. CASE DeleteGet(j) BY <2>3 DEF DeleteGet
    <2>4. CASE DeleteFile(j) BY <2>4 DEF DeleteFile
    <2>5. CASE DeleteMark(j) BY <2>5 DEF DeleteMark, Updated
    <2>6. CASE DownloadGet(j) BY <2>6 DEF DownloadGet
    <2>7. CASE DownloadOpen(j) BY <2>7 DEF DownloadOpen
    <2> QED BY <1>3, <2>1, <2>2, <2>3, <2>4, <2>5, <2>6, <2>7 DEF HandlerStep
  <1>4. ASSUME NEW j \in Job, JobAges(j) PROVE TypeOK' BY <1>4 DEF JobAges
  <1>5. ASSUME NEW j \in Job, FileAges(j) PROVE TypeOK' BY <1>5 DEF FileAges
  <1>6. CASE Prune BY <1>6 DEF Prune
  <1>7. CASE RemoveFiles BY <1>7 DEF RemoveFiles
  <1>8. CASE Shutdown BY <1>8 DEF Shutdown
  <1>9. CASE UNCHANGED vars BY <1>9 DEF vars
  <1> QED BY <1>1, <1>2, <1>3, <1>4, <1>5, <1>6, <1>7, <1>8, <1>9 DEF Next

\* How the places of a job's id, and with them its life, go on.
LEMMA OnePlaceStep ==
  ASSUME TypeOK, OnePlace, [Next]_vars
  PROVE  OnePlace'
  <1> USE DEF jobVars, fileVars, dispatchVars, runVars, handlerVars
  <1>0. incoming \in Seq(Job) BY DEF TypeOK
  <1>1. CASE DispatchTake
    <2>1. /\ inHand' = incoming[1]
          /\ Len(incoming) \in Nat \ {0}
          /\ Len(incoming') = Len(incoming) - 1
          /\ \A i \in 1 .. Len(incoming') : incoming'[i] = incoming[i + 1]
      BY <1>0, <1>1 DEF DispatchTake
    <2>2. /\ \A i \in 1 .. Len(incoming') : i + 1 \in 1 .. Len(incoming) /\ i + 1 # 1
          /\ 1 \in 1 .. Len(incoming)
      BY <2>1
    <2>3. incoming[1] \in Job /\ incoming[1] # NoJob BY <1>0, <2>2, QueueAssumption
    <2>4. dispatcher' = "slot" /\ UNCHANGED <<creator, runner>>
      BY <1>1 DEF DispatchTake
    <2>5. \A k \in Job : creator'[k] # "sent" =>
            /\ runner'[k] = "off"
            /\ inHand' # k
            /\ \A i \in 1 .. Len(incoming') : incoming'[i] # k
      BY <2>1, <2>2, <2>4 DEF OnePlace
    <2>6. \A i, k \in 1 .. Len(incoming') : i # k => incoming'[i] # incoming'[k]
      <3>1. SUFFICES ASSUME NEW i \in 1 .. Len(incoming'), NEW k \in 1 .. Len(incoming'),
                            i # k
                     PROVE  incoming[i + 1] # incoming[k + 1]
        BY <2>1
      <3> QED BY <2>2, <3>1 DEF OnePlace
    <2>7. \A i \in 1 .. Len(incoming') :
            incoming'[i] # inHand' /\ runner'[incoming'[i]] = "off"
      BY <2>1, <2>2, <2>4 DEF OnePlace
    <2>8. runner'[inHand'] = "off" /\ inHand' # NoJob
      BY <2>1, <2>2, <2>3, <2>4 DEF OnePlace
    <2> QED BY <2>5, <2>6, <2>7, <2>8 DEF OnePlace
  <1>2. CASE DispatchStart
    BY <1>2, <1>0, QueueAssumption DEF DispatchStart, OnePlace, TypeOK
  <1>3. CASE DispatchStop
    BY <1>3, <1>0, QueueAssumption DEF DispatchStop, OnePlace, TypeOK
  <1>4. ASSUME NEW j \in Job, RunStep(j) PROVE OnePlace'
    <2>1. /\ runner[j] # "off"
          /\ runner' = [runner EXCEPT ![j] = runner'[j]]
          /\ UNCHANGED <<creator, incoming, inHand, dispatcher>>
      BY <1>4 DEF RunStep, GetJob, BeginJob, AttemptSucceeds, AttemptFails, Retry,
                  BackoffCancelled, MarkDone, MarkFailed, FreeSlot, TypeOK
    <2> QED BY <1>0, <2>1 DEF OnePlace, TypeOK
  <1>5. ASSUME NEW j \in Job, PutJob(j) PROVE OnePlace'
    BY <1>5 DEF PutJob, OnePlace, TypeOK
  <1>6. ASSUME NEW j \in Job, SendJob(j) PROVE OnePlace'
    <2>1. /\ Len(incoming) \in Nat
          /\ Len(incoming') = Len(incoming) + 1
          /\ \A i \in 1 .. Len(incoming) : incoming'[i] = incoming[i]
          /\ incoming'[Len(incoming) + 1] = j
      BY <1>0, <1>6 DEF SendJob
    <2>2. /\ creator[j] = "put" /\ creator' = [creator EXCEPT ![j] = "sent"]
          /\ UNCHANGED <<runner, inHand, dispatcher>>
      BY <1>6 DEF SendJob
    <2>3. /\ runner[j] = "off" /\ inHand # j
          /\ \A i \in 1 .. Len(incoming) : incoming[i] # j
      BY <2>2 DEF OnePlace
    <2>4. \A i \in 1 .. Len(incoming') :
            \/ i \in 1 .. Len(incoming) /\ incoming'[i] = incoming[i]
            \/ i = Len(incoming) + 1 /\ incoming'[i] = j
      BY <2>1
    <2>5. \A k \in Job : creator'[k] # "sent" => k # j /\ creator[k] # "sent"
      BY <2>2 DEF TypeOK
    <2>6. \A k \in Job : creator'[k] # "sent" =>
            /\ runner'[k] = "off"
            /\ inHand' # k
            /\ \A i \in 1 .. Len(incoming') : incoming'[i] # k
      BY <2>2, <2>4, <2>5 DEF OnePlace
    <2>7. \A i, k \in 1 .. Len(incoming') : i # k => incoming'[i] # incoming'[k]
      BY <2>3, <2>4 DEF OnePlace
    <2>8. \A i \in 1 .. Len(incoming') :
            incoming'[i] # inHand' /\ runner'[incoming'[i]] = "off"
      BY <2>2, <2>3, <2>4 DEF OnePlace
    <2>9. /\ inHand' # NoJob => runner'[inHand'] = "off"
          /\ dispatcher' = "slot" => inHand' # NoJob
      BY <2>2 DEF OnePlace
    <2> QED BY <2>6, <2>7, <2>8, <2>9 DEF OnePlace
  <1>7. CASE UNCHANGED <<creator, incoming, inHand, dispatcher, runner>>
    BY <1>7 DEF OnePlace
  <1> QED
    BY <1>1, <1>2, <1>3, <1>4, <1>5, <1>6, <1>7
    DEF Next, DispatchStep, HandlerStep, DeleteGet, DeleteFile, DeleteMark, DownloadGet,
        DownloadOpen, JobAges, FileAges, Prune, RemoveFiles, Shutdown, vars

LEMMA SemaphoreStep ==
  ASSUME TypeOK, OnePlace, Semaphore, [Next]_vars
  PROVE  Semaphore'
  <1> USE DEF jobVars, fileVars, dispatchVars, runVars, handlerVars
  <1>0. IsFiniteSet(Running) BY RunningSize
  <1>1. CASE DispatchStart
    <2>1. inHand \in Job \ Running BY <1>1 DEF DispatchStart, OnePlace, Running, TypeOK
    <2>2. Running' = Running \cup {inHand}
      BY <1>1, <2>1 DEF DispatchStart, Running, TypeOK
    <2> QED BY <1>0, <1>1, <2>1, <2>2, FS_AddElement DEF DispatchStart, Semaphore
  <1>2. ASSUME NEW j \in Job, FreeSlot(j) PROVE Semaphore'
    <2>1. j \in Running /\ Running' = Running \ {j}
      BY <1>2 DEF FreeSlot, Running, TypeOK
    <2> QED BY <1>0, <1>2, <2>1, FS_RemoveElement DEF FreeSlot, Semaphore
  <1>3. ASSUME NEW j \in Job, RunStep(j), ~ FreeSlot(j) PROVE Semaphore'
    <2>1. /\ slots' = slots
          /\ runner[j] # "off"
          /\ runner'[j] # "off"
          /\ \A k \in Job : k # j => runner'[k] = runner[k]
      BY <1>3 DEF RunStep, GetJob, BeginJob, AttemptSucceeds, AttemptFails, Retry,
                  BackoffCancelled, MarkDone, MarkFailed, TypeOK
    <2> QED BY <2>1 DEF Running, Semaphore
  <1>4. CASE UNCHANGED <<runner, slots>> BY <1>4 DEF Running, Semaphore
  <1> QED
    BY <1>1, <1>2, <1>3, <1>4
    DEF Next, DispatchStep, DispatchTake, DispatchStop, HandlerStep, PutJob, SendJob,
        DeleteGet, DeleteFile, DeleteMark, DownloadGet, DownloadOpen, JobAges, FileAges,
        Prune, RemoveFiles, Shutdown, vars

LEMMA AttemptsStep ==
  ASSUME TypeOK, Attempts, [Next]_vars
  PROVE  Attempts'
  <1> USE DEF jobVars, fileVars, dispatchVars, runVars, handlerVars
  <1>1. CASE DispatchStart BY <1>1 DEF DispatchStart, Attempts, TypeOK
  <1>2. ASSUME NEW j \in Job, RunStep(j) PROVE Attempts'
    <2>1. CASE AttemptFails(j) BY <2>1 DEF AttemptFails, Attempts, TypeOK
    <2>2. CASE BeginJob(j) BY <2>2 DEF BeginJob, Attempts, TypeOK
    <2>3. CASE Retry(j) BY <2>3 DEF Retry, Attempts, TypeOK
    <2>4. CASE FreeSlot(j) BY <2>4 DEF FreeSlot, Attempts, TypeOK
    <2>5. CASE /\ runner' = [runner EXCEPT ![j] = runner'[j]]
               /\ runner'[j] # "backoff"
               /\ attempt' = attempt
      BY <2>5 DEF Attempts, TypeOK
    <2> QED BY <1>2, <2>1, <2>2, <2>3, <2>4, <2>5 DEF RunStep, GetJob, AttemptSucceeds,
      BackoffCancelled, MarkDone, MarkFailed, TypeOK
  <1>3. CASE UNCHANGED <<runner, attempt>> BY <1>3 DEF Attempts
  <1> QED
    BY <1>1, <1>2, <1>3
    DEF Next, DispatchStep, DispatchTake, DispatchStop, HandlerStep, PutJob, SendJob,
        DeleteGet, DeleteFile, DeleteMark, DownloadGet, DownloadOpen, JobAges, FileAges,
        Prune, RemoveFiles, Shutdown, vars

\* A job only becomes one that may be looked up when it is created; and once its
\* goroutine is over, it never is one again.
LEMMA WaitingStep ==
  ASSUME TypeOK, [Next]_vars, NEW j \in Job, Waiting(j)'
  PROVE  Waiting(j) \/ PutJob(j)
  <1> USE DEF jobVars, fileVars, dispatchVars, runVars, handlerVars
  <1>0. incoming \in Seq(Job) /\ Len(incoming) \in Nat BY DEF TypeOK
  <1>1. CASE DispatchTake
    <2>1. /\ inHand' = incoming[1]
          /\ 1 \in 1 .. Len(incoming)
          /\ Len(incoming') = Len(incoming) - 1
          /\ \A i \in 1 .. Len(incoming') : incoming'[i] = incoming[i + 1]
      BY <1>0, <1>1 DEF DispatchTake
    <2>2. \A i \in 1 .. Len(incoming') : i + 1 \in 1 .. Len(incoming)
      BY <1>0, <2>1
    <2> QED BY <1>1, <2>1, <2>2 DEF DispatchTake, Waiting
  <1>2. CASE DispatchStart BY <1>2, QueueAssumption DEF DispatchStart, Waiting, TypeOK
  <1>3. CASE DispatchStop BY <1>3, QueueAssumption DEF DispatchStop, Waiting
  <1>4. ASSUME NEW k \in Job, RunStep(k) PROVE Waiting(j)
    <2>1. /\ UNCHANGED <<creator, incoming, inHand>>
          /\ \A i \in Job : runner'[i] \in {"get", "begin"} => runner[i] \in {"get", "begin"}
      BY <1>4 DEF RunStep, GetJob, BeginJob, AttemptSucceeds, AttemptFails, Retry,
                  BackoffCancelled, MarkDone, MarkFailed, FreeSlot, TypeOK
    <2> QED BY <2>1 DEF Waiting
  <1>5. ASSUME NEW k \in Job, PutJob(k) PROVE Waiting(j) \/ PutJob(j)
    BY <1>5 DEF PutJob, Waiting, TypeOK
  <1>6. ASSUME NEW k \in Job, SendJob(k) PROVE Waiting(j)
    <2>1. /\ Len(incoming') = Len(incoming) + 1
          /\ \A i \in 1 .. Len(incoming) : incoming'[i] = incoming[i]
          /\ incoming'[Len(incoming) + 1] = k
      BY <1>0, <1>6 DEF SendJob
    <2>2. \A i \in 1 .. Len(incoming') :
            \/ i \in 1 .. Len(incoming) /\ incoming'[i] = incoming[i]
            \/ incoming'[i] = k
      BY <1>0, <2>1
    <2>3. creator[k] = "put" /\ UNCHANGED <<runner, inHand>>
      BY <1>6 DEF SendJob
    <2>4. \A i \in Job : creator'[i] = "put" => creator[i] = "put"
      BY <1>6 DEF SendJob, TypeOK
    <2> QED BY <2>2, <2>3, <2>4 DEF Waiting
  <1>7. CASE UNCHANGED <<creator, incoming, inHand, runner>> BY <1>7 DEF Waiting
  <1> QED
    BY <1>1, <1>2, <1>3, <1>4, <1>5, <1>6, <1>7
    DEF Next, DispatchStep, HandlerStep, DeleteGet, DeleteFile, DeleteMark, DownloadGet,
        DownloadOpen, JobAges, FileAges, Prune, RemoveFiles, Shutdown, vars

LEMMA EndedStep ==
  ASSUME TypeOK, OnePlace, [Next]_vars, NEW j \in Job, Ended(j) \/ MarkDone(j)
  PROVE  Ended(j)'
  <1> USE DEF jobVars, fileVars, dispatchVars, runVars, handlerVars
  <1>1. creator[j] = "sent" /\ ~ Waiting(j)
    BY QueueAssumption DEF Ended, MarkDone, OnePlace, Waiting
  <1>2. ~ Waiting(j)' BY <1>1, WaitingStep DEF PutJob
  <1>3. creator'[j] = "sent"
    <2>1. CASE UNCHANGED creator BY <1>1, <2>1
    <2>2. ASSUME NEW k \in Job, PutJob(k) \/ SendJob(k) PROVE creator'[j] = "sent"
      BY <1>1, <2>2 DEF PutJob, SendJob, TypeOK
    <2> QED BY <2>1, <2>2 DEF Next, DispatchStep, DispatchTake, DispatchStart, DispatchStop,
      RunStep, GetJob, BeginJob, AttemptSucceeds, AttemptFails, Retry, BackoffCancelled,
      MarkDone, MarkFailed, FreeSlot, HandlerStep, DeleteGet, DeleteFile, DeleteMark,
      DownloadGet, DownloadOpen, JobAges, FileAges, Prune, RemoveFiles, Shutdown, vars
  <1>4. runner'[j] \in {"off", "return"}
    <2>1. CASE MarkDone(j) BY <2>1 DEF MarkDone, TypeOK
    <2>2. ASSUME runner[j] \in {"off", "return"} PROVE runner'[j] \in {"off", "return"}
      <3>1. CASE UNCHANGED runner BY <2>2, <3>1
      <3>2. CASE DispatchStart
        <4>1. inHand # j BY <1>1 DEF Waiting
        <4> QED BY <2>2, <3>2, <4>1 DEF DispatchStart, TypeOK
      <3>3. ASSUME NEW k \in Job, RunStep(k) PROVE runner'[j] \in {"off", "return"}
        BY <2>2, <3>3
        DEF RunStep, GetJob, BeginJob, AttemptSucceeds, AttemptFails, Retry,
            BackoffCancelled, MarkDone, MarkFailed, FreeSlot, TypeOK
      <3> QED BY <3>1, <3>2, <3>3 DEF Next, DispatchStep, DispatchTake, DispatchStop,
        HandlerStep, PutJob, SendJob, DeleteGet, DeleteFile, DeleteMark, DownloadGet,
        DownloadOpen, JobAges, FileAges, Prune, RemoveFiles, Shutdown, vars
    <2> QED BY <2>1, <2>2 DEF Ended
  <1> QED BY <1>2, <1>3, <1>4 DEF Ended

\* Which actions change what is recorded of a job, of its goroutine and of its
\* file.
Active == {"render", "backoff", "done", "failed"}

StatusStep(j) ==
  /\ \/ store'[j] = store[j]
     \/ PutJob(j) \/ BeginJob(j) \/ MarkDone(j) \/ MarkFailed(j)
     \/ DeleteMark(j) /\ store'[j] = "failed" /\ err'[j] = "client"
     \/ store[j] \in {"done", "failed"} /\ store'[j] = "absent"
  /\ err'[j] \in {err[j], "client"} \/ MarkFailed(j)
  /\ path'[j] = path[j] \/ MarkDone(j)
  /\ oldJob[j] => oldJob'[j]
  /\ deleter[j] = "mark" /\ deleter'[j] # "mark" => DeleteMark(j)

FileStep(j) ==
  /\ runner'[j] \in Active => runner[j] \in Active \/ BeginJob(j)
  /\ runner'[j] = "done" => runner[j] = "done" \/ AttemptSucceeds(j)
  /\ \/ file'[j] = file[j]
     \/ AttemptSucceeds(j) \/ AttemptFails(j)
     \/ DeleteFile(j) /\ path[j] /\ file'[j] = "none"
     \/ RemoveFiles /\ oldFile[j] /\ file'[j] = "none"
  /\ oldFile'[j] = oldFile[j] \/ (runner[j] = "render" /\ ~ oldFile'[j]) \/ FileAges(j)
  /\ cleaner' = "files" => cleaner = "files" \/ Prune

LEMMA JobStep ==
  ASSUME TypeOK, [Next]_vars, NEW j \in Job
  PROVE  StatusStep(j) /\ FileStep(j)
  <1> USE DEF StatusStep, FileStep, Active, jobVars, fileVars, dispatchVars, runVars,
              handlerVars, TypeOK
  <1>1. CASE DispatchStep
    BY <1>1 DEF DispatchStep, DispatchTake, DispatchStart, DispatchStop
  <1>2. ASSUME NEW k \in Job, RunStep(k) PROVE StatusStep(j) /\ FileStep(j)
    <2>1. CASE GetJob(k) BY <2>1 DEF GetJob
    <2>2. CASE BeginJob(k) BY <2>2 DEF BeginJob, Updated
    <2>3. CASE AttemptSucceeds(k) BY <2>3 DEF AttemptSucceeds
    <2>4. CASE AttemptFails(k)
      <3>1. /\ UNCHANGED <<store, err, path, oldJob, deleter, cleaner>>
            /\ runner[k] = "render"
            /\ runner' = [runner EXCEPT ![k] = runner'[k]]
            /\ runner'[k] # "done"
        BY <2>4 DEF AttemptFails
      <3>2. CASE k = j
        <4>1. oldFile'[j] = oldFile[j] \/ ~ oldFile'[j] BY <2>4, <3>2 DEF AttemptFails
        <4> QED BY <2>4, <3>1, <3>2, <4>1
      <3>3. CASE k # j
        <4>1. file'[j] = file[j] /\ oldFile'[j] = oldFile[j]
          BY <2>4, <3>3 DEF AttemptFails
        <4> QED BY <3>1, <3>3, <4>1
      <3> QED BY <3>2, <3>3
    <2>5. CASE Retry(k) BY <2>5 DEF Retry
    <2>6. CASE BackoffCancelled(k) BY <2>6 DEF BackoffCancelled
    <2>7. CASE MarkDone(k) BY <2>7 DEF MarkDone, Updated
    <2>8. CASE MarkFailed(k) BY <2>8 DEF MarkFailed, Updated
    <2>9. CASE FreeSlot(k) BY <2>9 DEF FreeSlot
    <2> QED BY <1>2, <2>1, <2>2, <2>3, <2>4, <2>5, <2>6, <2>7, <2>8, <2>9 DEF RunStep
  <1>3. ASSUME NEW k \in Job, HandlerStep(k) PROVE StatusStep(j) /\ FileStep(j)
    <2>1. CASE PutJob(k) BY <2>1 DEF PutJob
    <2>2. CASE SendJob(k) BY <2>2 DEF SendJob
    <2>3. CASE DeleteGet(k) BY <2>3 DEF DeleteGet
    <2>4. CASE DeleteFile(k) BY <2>4 DEF DeleteFile
    <2>5. CASE DeleteMark(k) BY <2>5 DEF DeleteMark, Updated
    <2>6. CASE DownloadGet(k) BY <2>6 DEF DownloadGet
    <2>7. CASE DownloadOpen(k) BY <2>7 DEF DownloadOpen
    <2> QED BY <1>3, <2>1, <2>2, <2>3, <2>4, <2>5, <2>6, <2>7 DEF HandlerStep
  <1>4. ASSUME NEW k \in Job, JobAges(k) PROVE StatusStep(j) /\ FileStep(j)
    BY <1>4 DEF JobAges
  <1>5. ASSUME NEW k \in Job, FileAges(k) PROVE StatusStep(j) /\ FileStep(j)
    BY <1>5 DEF FileAges
  <1>6. CASE Prune BY <1>6 DEF Prune
  <1>7. CASE RemoveFiles BY <1>7 DEF RemoveFiles
  <1>8. CASE Shutdown BY <1>8 DEF Shutdown
  <1>9. CASE UNCHANGED vars BY <1>9 DEF vars
  <1> QED BY <1>1, <1>2, <1>3, <1>4, <1>5, <1>6, <1>7, <1>8, <1>9 DEF Next

LEMMA UncreatedStep ==
  ASSUME TypeOK, OnePlace, Uncreated, [Next]_vars
  PROVE  Uncreated'
  <1> SUFFICES ASSUME NEW j \in Job, creator'[j] = "none" PROVE store'[j] = "absent"
    BY DEF Uncreated
  <1>1. creator[j] = "none" /\ ~ PutJob(j)
    BY DEF Next, DispatchStep, DispatchTake, DispatchStart, DispatchStop, RunStep, GetJob,
           BeginJob, AttemptSucceeds, AttemptFails, Retry, BackoffCancelled, MarkDone,
           MarkFailed, FreeSlot, HandlerStep, PutJob, SendJob, DeleteGet, DeleteFile,
           DeleteMark, DownloadGet, DownloadOpen, JobAges, FileAges, Prune, RemoveFiles,
           Shutdown, vars, handlerVars, TypeOK
  <1>2. store[j] = "absent" /\ runner[j] = "off" BY <1>1 DEF Uncreated, OnePlace
  <1>3. ~ BeginJob(j) /\ ~ MarkDone(j) /\ ~ MarkFailed(j)
    BY <1>2 DEF BeginJob, MarkDone, MarkFailed
  <1>4. DeleteMark(j) => store' = store BY <1>2 DEF DeleteMark, Updated
  <1> QED BY <1>1, <1>2, <1>3, <1>4, JobStep DEF StatusStep

\* A job shows what its goroutine does: the steps of the goroutine, and a DELETE.
LEMMA ShownStep ==
  ASSUME TypeOK, OnePlace, Shown, [Next]_vars
  PROVE  Shown'
  <1> SUFFICES ASSUME NEW j \in Job, err'[j] # "client"
               PROVE  /\ Waiting(j)' => store'[j] = "queued"
                      /\ runner'[j] \in Active => store'[j] = "rendering"
    BY DEF Shown, Active
  <1>0. StatusStep(j) /\ FileStep(j) BY JobStep
  <1>1. Waiting(j)' => Waiting(j) \/ PutJob(j) BY WaitingStep
  <1>2. Ended(j) \/ MarkDone(j) => Ended(j)' BY EndedStep
  <1>3. ~ (Waiting(j) /\ runner[j] \in Active)
    BY QueueAssumption DEF OnePlace, Waiting, Active
  <1>4. CASE MarkFailed(j)
    <2>1. runner[j] = "failed" /\ runner'[j] = "return"
      BY <1>4 DEF MarkFailed, TypeOK
    <2>2. ~ Waiting(j)' BY <1>1, <1>3, <2>1 DEF Active, PutJob, OnePlace
    <2> QED BY <2>1, <2>2 DEF Active
  <1>5. CASE MarkDone(j)
    <2>1. Ended(j)' BY <1>2, <1>5
    <2> QED BY <2>1 DEF Ended, Active
  <1>6. CASE PutJob(j)
    <2>1. store'[j] = "queued" BY <1>6 DEF PutJob, TypeOK
    <2>2. runner'[j] = "off" BY <1>6 DEF PutJob, runVars, OnePlace
    <2> QED BY <2>1, <2>2 DEF Active
  <1>7. CASE BeginJob(j)
    <2>1. err[j] # "client" /\ runner[j] = "begin" /\ runner'[j] = "render"
      BY <1>7 DEF BeginJob, TypeOK
    <2>2. store[j] = "queued" BY <2>1 DEF Shown, Waiting
    <2>3. store'[j] = "rendering" BY <1>7, <2>2 DEF BeginJob, Updated, TypeOK
    <2>4. ~ Waiting(j)'
      <3>1. /\ creator[j] = "sent" /\ inHand # j
            /\ \A i \in 1 .. Len(incoming) : incoming[i] # j
        BY <2>1, QueueAssumption DEF OnePlace
      <3> QED BY <1>7, <2>1, <3>1 DEF BeginJob, Waiting, dispatchVars, handlerVars
    <2> QED BY <2>3, <2>4
  <1>8. CASE ~ (MarkFailed(j) \/ MarkDone(j) \/ PutJob(j) \/ BeginJob(j))
    <2>1. err[j] # "client" BY <1>0, <1>8 DEF StatusStep
    <2>2. Waiting(j)' => store[j] = "queued" BY <1>1, <1>8, <2>1 DEF Shown
    <2>3. runner'[j] \in Active => store[j] = "rendering"
      BY <1>0, <1>8, <2>1 DEF FileStep, Shown, Active
    <2>4. store'[j] = store[j] \/ store[j] \in {"done", "failed"}
      BY <1>0, <1>8 DEF StatusStep
    <2> QED BY <2>2, <2>3, <2>4
  <1> QED BY <1>4, <1>5, <1>6, <1>7, <1>8

\* The video of a job that is done: its attempts are over, only a DELETE takes
\* the file away, and the cleanup prunes the job before the file is old.
LEMMA KeptStep ==
  ASSUME TypeOK, OnePlace, Kept, [Next]_vars
  PROVE  Kept'
  <1> SUFFICES ASSUME NEW j \in Job
               PROVE  /\ store'[j] = "done" \/ path'[j] => Ended(j)'
                      /\ runner'[j] = "done" => file'[j] = "complete" /\ ~ oldFile'[j]
                      /\ store'[j] = "done" =>
                           file'[j] = "complete" \/ (deleter'[j] = "mark" /\ file'[j] = "none")
                      /\ cleaner' = "files" /\ store'[j] = "done" => ~ oldFile'[j]
                      /\ oldFile'[j] => oldJob'[j]
    BY DEF Kept
  <1>0. StatusStep(j) /\ FileStep(j) BY JobStep
  <1>1. Ended(j) \/ MarkDone(j) => Ended(j)' BY EndedStep
  <1>2. store'[j] = "done" => store[j] = "done" \/ MarkDone(j)
    BY <1>0 DEF StatusStep, PutJob, BeginJob, MarkFailed, Updated, TypeOK
  <1>3. store'[j] = "done" \/ path'[j] => Ended(j)'
    BY <1>0, <1>1, <1>2 DEF StatusStep, Kept
  <1>4. store[j] = "done" \/ path[j] => runner[j] \in {"off", "return"}
    BY DEF Kept, Ended
  <1>5. runner'[j] = "done" => file'[j] = "complete" /\ ~ oldFile'[j]
    <2>1. CASE AttemptSucceeds(j) BY <2>1 DEF AttemptSucceeds, TypeOK
    <2>2. CASE runner[j] = "done" /\ ~ AttemptSucceeds(j)
      <3>1. file[j] = "complete" /\ ~ oldFile[j] /\ ~ path[j] BY <1>4, <2>2 DEF Kept
      <3>2. ~ AttemptFails(j) /\ ~ FileAges(j) BY <2>2 DEF AttemptFails, FileAges
      <3> QED BY <1>0, <2>2, <3>1, <3>2 DEF FileStep
    <2> QED BY <1>0, <2>1, <2>2 DEF FileStep
  <1>6. store'[j] = "done" =>
          file'[j] = "complete" \/ (deleter'[j] = "mark" /\ file'[j] = "none")
    <2>1. CASE MarkDone(j)
      BY <2>1 DEF MarkDone, Kept, fileVars
    <2>2. CASE store[j] = "done" /\ store'[j] = "done"
      <3>1. ~ AttemptSucceeds(j) /\ ~ AttemptFails(j)
        BY <1>4, <2>2 DEF AttemptSucceeds, AttemptFails
      <3>2. ~ DeleteMark(j) BY <2>2 DEF DeleteMark, Updated, TypeOK
      <3>3. CASE DeleteFile(j)
        BY <2>2, <3>3 DEF DeleteFile, Kept, TypeOK
      <3>4. CASE RemoveFiles /\ oldFile[j]
        BY <2>2, <3>4 DEF RemoveFiles, Kept
      <3>5. CASE file'[j] = file[j]
        BY <1>0, <2>2, <3>2, <3>5 DEF StatusStep, Kept, TypeOK
      <3> QED BY <1>0, <3>1, <3>3, <3>4, <3>5 DEF FileStep
    <2> QED BY <1>2, <2>1, <2>2
  <1>7. cleaner' = "files" /\ store'[j] = "done" => ~ oldFile'[j]
    <2>1. CASE MarkDone(j) BY <2>1 DEF MarkDone, Kept, fileVars
    <2>2. CASE Prune BY <2>2 DEF Prune, Kept, fileVars, TypeOK
    <2>3. CASE cleaner = "files" /\ store[j] = "done"
      <3>1. ~ FileAges(j) BY <2>3 DEF FileAges
      <3> QED BY <1>0, <2>3, <3>1 DEF FileStep, Kept
    <2> QED BY <1>0, <1>2, <2>1, <2>2, <2>3 DEF FileStep
  <1>8. oldFile'[j] => oldJob'[j]
    <2>1. FileAges(j) => oldJob[j] BY DEF FileAges
    <2> QED BY <1>0, <2>1 DEF FileStep, StatusStep, Kept
  <1> QED BY <1>3, <1>5, <1>6, <1>7, <1>8

\* A download finds the job done, so no attempt writes the file any more.
LEMMA StreamedStep ==
  ASSUME TypeOK, OnePlace, Kept, Streamed, [Next]_vars
  PROVE  Streamed'
  <1>1. \A j \in Job : reader'[j] = "open" => reader[j] = "open" \/ DownloadGet(j)
    BY DEF Next, DispatchStep, DispatchTake, DispatchStart, DispatchStop, RunStep, GetJob,
           BeginJob, AttemptSucceeds, AttemptFails, Retry, BackoffCancelled, MarkDone,
           MarkFailed, FreeSlot, HandlerStep, PutJob, SendJob, DeleteGet, DeleteFile,
           DeleteMark, DownloadGet, DownloadOpen, JobAges, FileAges, Prune, RemoveFiles,
           Shutdown, vars, handlerVars, TypeOK
  <1>2. served' = served \/ \E j \in Job : DownloadOpen(j)
    BY DEF Next, DispatchStep, DispatchTake, DispatchStart, DispatchStop, RunStep, GetJob,
           BeginJob, AttemptSucceeds, AttemptFails, Retry, BackoffCancelled, MarkDone,
           MarkFailed, FreeSlot, HandlerStep, PutJob, SendJob, DeleteGet, DeleteFile,
           DeleteMark, DownloadGet, JobAges, FileAges, Prune, RemoveFiles,
           Shutdown, vars, handlerVars
  <1>3. served' \subseteq {"complete"}
    BY <1>2 DEF DownloadOpen, Streamed, TypeOK
  <1>4. ASSUME NEW j \in Job, reader'[j] = "open"
        PROVE  Ended(j)' /\ file'[j] # "partial"
    <2>1. Ended(j) /\ file[j] # "partial"
      BY <1>1, <1>4 DEF DownloadGet, Streamed, Kept
    <2>2. Ended(j)' BY <2>1, EndedStep
    <2>3. ~ AttemptSucceeds(j) /\ ~ AttemptFails(j)
      BY <2>1 DEF Ended, AttemptSucceeds, AttemptFails
    <2> QED BY <2>1, <2>2, <2>3, JobStep DEF FileStep
  <1> QED BY <1>3, <1>4 DEF Streamed

-----------------------------------------------------------------------------
(* The theorems.                                                           *)

LEMMA Invariance == Spec => []IInv
  <1>1. IInv /\ [Next]_vars => IInv'
    BY TypeStep, OnePlaceStep, SemaphoreStep, AttemptsStep, UncreatedStep, ShownStep,
       KeptStep, StreamedStep
    DEF IInv
  <1> QED BY InitIInv, <1>1, PTL DEF Spec

\* Every variable keeps its type; no attempt is made beyond maxRetries and no
\* id is sent into a full channel.
THEOREM TypeCorrect == Spec => []TypeOK
  BY Invariance, PTL DEF IInv

\* runJob holds one entry of the semaphore on every path it takes, so no more
\* than MaxConcurrentJobs jobs are under way, whatever clients do meanwhile.
THEOREM Concurrency == Spec => []ConcurrencyBound
  <1>1. IInv => ConcurrencyBound
    BY QueueAssumption DEF IInv, TypeOK, Semaphore, Running, ConcurrencyBound
  <1> QED BY <1>1, Invariance, PTL

\* The cleanup never drops a job that is being rendered, however long it takes.
THEOREM RenderingShown == Spec => []RenderingIsShown
  <1>1. IInv => RenderingIsShown BY DEF IInv, Shown, RenderingIsShown
  <1> QED BY <1>1, Invariance, PTL

\* A job that is done keeps its video until a client deletes it or the job is
\* pruned.
THEOREM DoneKeepsVideo == Spec => []DoneHasVideo
  <1>1. IInv => DoneHasVideo BY DEF IInv, Kept, DoneHasVideo
  <1> QED BY <1>1, Invariance, PTL

\* handleDownload reads the status without a lock, and yet streams no video that
\* a failed attempt has published.
THEOREM CompleteVideosServed == Spec => []ServesCompleteVideos
  <1>1. IInv => ServesCompleteVideos BY DEF IInv, Streamed, ServesCompleteVideos
  <1> QED BY <1>1, Invariance, PTL

\* runJob, the handlers and the cleanup change a job's status without looking at
\* it, and yet it only goes forward unless a client deletes the job.
THEOREM StatusGoesForward == Spec => StatusOrder
  <1>1. ASSUME IInv, [Next]_vars, NEW j \in Job
        PROVE  \/ store'[j] = store[j]
               \/ <<store[j], store'[j]>> \in
                    {<<"absent", "queued">>, <<"queued", "rendering">>,
                     <<"rendering", "done">>, <<"rendering", "failed">>,
                     <<"done", "absent">>, <<"failed", "absent">>}
               \/ err[j] = "client" \/ err'[j] = "client"
    <2> USE DEF IInv
    <2>1. StatusStep(j) BY <1>1, JobStep
    <2>2. CASE PutJob(j)
      <3>1. store[j] = "absent" /\ store'[j] = "queued"
        BY <1>1, <2>2 DEF PutJob, Uncreated, TypeOK
      <3> QED BY <3>1
    <2>3. CASE BeginJob(j) /\ err[j] # "client"
      <3>1. store[j] = "queued" BY <1>1, <2>3 DEF BeginJob, Shown, Waiting
      <3>2. store'[j] = "rendering" BY <1>1, <2>3, <3>1 DEF BeginJob, Updated, TypeOK
      <3> QED BY <3>1, <3>2
    <2>4. CASE MarkDone(j) /\ err[j] # "client"
      <3>1. store[j] = "rendering" BY <1>1, <2>4 DEF MarkDone, Shown
      <3>2. store'[j] = "done" BY <1>1, <2>4, <3>1 DEF MarkDone, Updated, TypeOK
      <3> QED BY <3>1, <3>2
    <2>5. CASE MarkFailed(j) /\ err[j] # "client"
      <3>1. store[j] = "rendering" BY <1>1, <2>5 DEF MarkFailed, Shown
      <3>2. store'[j] = "failed" BY <1>1, <2>5, <3>1 DEF MarkFailed, Updated, TypeOK
      <3> QED BY <3>1, <3>2
    <2> QED BY <2>1, <2>2, <2>3, <2>4, <2>5 DEF StatusStep
  <1>2. IInv /\ [Next]_vars =>
          [\A j \in Job :
             \/ store'[j] = store[j]
             \/ <<store[j], store'[j]>> \in
                  {<<"absent", "queued">>, <<"queued", "rendering">>,
                   <<"rendering", "done">>, <<"rendering", "failed">>,
                   <<"done", "absent">>, <<"failed", "absent">>}
             \/ err[j] = "client" \/ err'[j] = "client"]_store
    BY <1>1
  <1> QED BY <1>2, Invariance, PTL DEF Spec, StatusOrder

-----------------------------------------------------------------------------
(* A job goes forward only.                                                *)

OnChannel(j) == \E i \in 1 .. Len(incoming) : incoming[i] = j

\* How far a job's goroutine has come, and how far a job has come: with the handler
\* that creates it, on the channel, with the dispatcher, and with its goroutine.
StageAt(pc, n) ==
  CASE pc = "get"     -> 4
    [] pc = "begin"   -> 5
    [] pc = "render"  -> 4 + 2 * n
    [] pc = "backoff" -> 5 + 2 * n
    [] pc = "done"    -> 6 + 2 * MaxRetries
    [] pc = "failed"  -> 6 + 2 * MaxRetries
    [] pc = "return"  -> 7 + 2 * MaxRetries
    [] pc = "off"     -> 8 + 2 * MaxRetries

RunnerStage(j) == StageAt(runner[j], attempt[j])

LastStage == 8 + 2 * MaxRetries

Stage(j) ==
  IF creator[j] = "none" THEN 0
  ELSE IF creator[j] = "put" THEN 1
  ELSE IF OnChannel(j) THEN 2
  ELSE IF inHand = j THEN 3
  ELSE RunnerStage(j)

\* The steps that are taken for job j.
StepFor(j) ==
  \/ PutJob(j) \/ SendJob(j)
  \/ DispatchTake /\ inHand' = j
  \/ DispatchStart /\ inHand = j
  \/ RunStep(j)

LEMMA StageAtType ==
  ASSUME NEW pc \in RunnerPC, NEW n \in 0 .. MaxRetries
  PROVE  StageAt(pc, n) \in 4 .. LastStage
  <1>1. MaxRetries \in Nat \ {0} BY QueueAssumption
  <1> QED BY <1>1 DEF RunnerPC, StageAt, LastStage

LEMMA RunnerStageType ==
  ASSUME TypeOK, NEW j \in Job
  PROVE  RunnerStage(j) \in 4 .. LastStage
  BY StageAtType DEF TypeOK, RunnerStage

LEMMA StageType ==
  ASSUME TypeOK, NEW j \in Job
  PROVE  Stage(j) \in 0 .. LastStage
  <1>1. RunnerStage(j) \in 4 .. LastStage BY RunnerStageType
  <1>2. MaxRetries \in Nat \ {0} BY QueueAssumption
  <1> HIDE DEF RunnerStage
  <1> QED BY <1>1, <1>2 DEF Stage, LastStage

\* A job with a goroutine is nowhere else.
LEMMA RunningStage ==
  ASSUME OnePlace, NEW j \in Job, creator[j] \in {"none", "put", "sent"}, runner[j] # "off"
  PROVE  creator[j] = "sent" /\ ~ OnChannel(j) /\ inHand # j /\ Stage(j) = RunnerStage(j)
  <1>1. creator[j] = "sent" /\ ~ OnChannel(j) /\ inHand # j BY QueueAssumption DEF OnePlace, OnChannel
  <1> QED BY <1>1 DEF Stage

\* The same in the next state.
LEMMA RunningStageNow ==
  ASSUME OnePlace', NEW j \in Job, creator'[j] \in {"none", "put", "sent"}, runner'[j] # "off"
  PROVE  Stage(j)' = RunnerStage(j)'
  <1>1. creator'[j] = "sent" /\ ~ OnChannel(j)' /\ inHand' # j
    BY QueueAssumption DEF OnePlace, OnChannel
  <1> QED BY <1>1 DEF Stage

\* A job that the dispatcher had, and drops, counts as over.
LEMMA HandDropped ==
  ASSUME TypeOK, OnePlace, NEW j \in Job, inHand = j, inHand' # j,
         UNCHANGED <<creator, runner, attempt>>, OnChannel(j)' <=> OnChannel(j)
  PROVE  Stage(j)' >= Stage(j)
  <1>1. /\ creator[j] = "sent" /\ ~ OnChannel(j)
        /\ RunnerStage(j)' = RunnerStage(j)
    BY DEF TypeOK, OnePlace, OnChannel, RunnerStage
  <1>2. RunnerStage(j) \in 4 .. LastStage BY RunnerStageType
  <1>3. Stage(j) = 3 /\ Stage(j)' = RunnerStage(j) BY <1>1 DEF Stage
  <1> QED BY <1>2, <1>3

\* What is done for a job takes it further.
LEMMA StageAdvances ==
  ASSUME IInv, IInv', NEW j \in Job, StepFor(j)
  PROVE  Stage(j)' > Stage(j)
  <1> USE DEF jobVars, fileVars, dispatchVars, runVars, handlerVars
  <1>0. /\ TypeOK /\ OnePlace /\ Attempts /\ TypeOK' /\ OnePlace'
        /\ incoming \in Seq(Job) /\ MaxRetries \in Nat \ {0}
        /\ creator[j] \in {"none", "put", "sent"} /\ creator'[j] \in {"none", "put", "sent"}
    BY QueueAssumption DEF IInv, TypeOK
  <1>1. /\ RunnerStage(j) \in 4 .. LastStage /\ RunnerStage(j)' \in 4 .. LastStage
        /\ LastStage \in Nat
    <2>1. RunnerStage(j) \in 4 .. LastStage BY <1>0, RunnerStageType
    <2>2. runner'[j] \in RunnerPC /\ attempt'[j] \in 0 .. MaxRetries BY <1>0 DEF TypeOK
    <2>3. RunnerStage(j)' \in 4 .. LastStage
      BY <2>2, StageAtType DEF RunnerStage
    <2> QED BY <1>0, <2>1, <2>3 DEF LastStage
  <1>2. CASE PutJob(j)
    <2>1. creator[j] = "none" /\ creator'[j] = "put" BY <1>0, <1>2 DEF PutJob, TypeOK
    <2> QED BY <2>1 DEF Stage
  <1>3. CASE SendJob(j)
    <2>1. creator[j] = "put" /\ creator'[j] = "sent" /\ incoming' = Append(incoming, j)
      BY <1>0, <1>3 DEF SendJob, TypeOK
    <2>2. Len(incoming) + 1 \in 1 .. Len(incoming') /\ incoming'[Len(incoming) + 1] = j
      BY <1>0, <2>1
    <2>3. OnChannel(j)' BY <2>2 DEF OnChannel
    <2> QED BY <2>1, <2>3 DEF Stage
  <1>4. CASE DispatchTake /\ inHand' = j
    <2>1. incoming # << >> /\ j = Head(incoming) /\ creator' = creator
      BY <1>4 DEF DispatchTake
    <2>2. 1 \in 1 .. Len(incoming) /\ incoming[1] = j BY <1>0, <2>1
    <2>3. OnChannel(j) /\ creator[j] = "sent" BY <1>0, <2>2 DEF OnChannel, OnePlace
    <2>4. ~ OnChannel(j)' BY <1>0, <1>4 DEF OnePlace, OnChannel
    <2> QED BY <1>4, <2>1, <2>3, <2>4 DEF Stage
  <1>5. CASE DispatchStart /\ inHand = j
    <2>1. /\ runner'[j] = "get" /\ UNCHANGED <<creator, incoming>>
      BY <1>0, <1>5 DEF DispatchStart, TypeOK
    <2>2. creator[j] = "sent" /\ ~ OnChannel(j) BY <1>0, <1>5 DEF OnePlace, OnChannel
    <2>3. Stage(j) = 3 BY <1>5, <2>2 DEF Stage
    <2>4. Stage(j)' = RunnerStage(j)' BY <1>0, <2>1, RunningStageNow
    <2> QED BY <1>1, <2>3, <2>4
  <1>6. CASE RunStep(j)
    <2>1. /\ runner[j] # "off" /\ UNCHANGED <<creator, incoming, inHand>>
      BY <1>6 DEF RunStep, GetJob, BeginJob, AttemptSucceeds, AttemptFails, Retry,
                  BackoffCancelled, MarkDone, MarkFailed, FreeSlot
    <2>2. creator[j] = "sent" /\ ~ OnChannel(j) /\ inHand # j /\ Stage(j) = RunnerStage(j)
      BY <1>0, <2>1, RunningStage
    <2>3. OnChannel(j)' <=> OnChannel(j) BY <2>1 DEF OnChannel
    <2>4. Stage(j)' = RunnerStage(j)' BY <2>1, <2>2, <2>3 DEF Stage
    <2>5. /\ attempt[j] \in 0 .. MaxRetries /\ attempt'[j] \in 0 .. MaxRetries
          /\ runner[j] = "backoff" => attempt[j] < MaxRetries
      BY <1>0 DEF TypeOK, Attempts
    <2>6. \/ runner[j] = "get" /\ runner'[j] \in {"begin", "return"}
          \/ runner[j] = "begin" /\ runner'[j] = "render" /\ attempt'[j] = 1
          \/ runner[j] = "render" /\ runner'[j] \in {"done", "backoff", "failed"}
               /\ attempt'[j] = attempt[j]
          \/ runner[j] = "backoff" /\ runner'[j] = "render" /\ attempt'[j] = attempt[j] + 1
          \/ runner[j] = "backoff" /\ runner'[j] = "failed"
          \/ runner[j] \in {"done", "failed"} /\ runner'[j] = "return"
          \/ runner[j] = "return" /\ runner'[j] = "off"
      <3> USE <1>0 DEF TypeOK
      <3>1. CASE GetJob(j) BY <3>1 DEF GetJob
      <3>2. CASE BeginJob(j) BY <3>2 DEF BeginJob
      <3>3. CASE AttemptSucceeds(j) BY <3>3 DEF AttemptSucceeds
      <3>4. CASE AttemptFails(j) BY <3>4 DEF AttemptFails
      <3>5. CASE Retry(j) BY <3>5 DEF Retry
      <3>6. CASE BackoffCancelled(j) BY <3>6 DEF BackoffCancelled
      <3>7. CASE MarkDone(j) BY <3>7 DEF MarkDone
      <3>8. CASE MarkFailed(j) BY <3>8 DEF MarkFailed
      <3>9. CASE FreeSlot(j) BY <3>9 DEF FreeSlot
      <3> QED BY <1>6, <3>1, <3>2, <3>3, <3>4, <3>5, <3>6, <3>7, <3>8, <3>9 DEF RunStep
    <2>7. RunnerStage(j)' > RunnerStage(j)
      <3>1. ASSUME NEW a \in 0 .. MaxRetries
            PROVE  /\ StageAt("get", a) = 4 /\ StageAt("begin", a) = 5
                   /\ StageAt("render", a) = 4 + 2 * a /\ StageAt("backoff", a) = 5 + 2 * a
                   /\ StageAt("done", a) = 6 + 2 * MaxRetries
                   /\ StageAt("failed", a) = 6 + 2 * MaxRetries
                   /\ StageAt("return", a) = 7 + 2 * MaxRetries
                   /\ StageAt("off", a) = 8 + 2 * MaxRetries
        BY DEF StageAt
      <3> DEFINE a == attempt[j]
                 b == attempt'[j]
      <3>2. a \in 0 .. MaxRetries /\ b \in 0 .. MaxRetries BY <2>5
      <3>3. StageAt(runner'[j], b) > StageAt(runner[j], a)
        <4>1. CASE runner[j] = "get" BY <1>0, <2>6, <3>1, <3>2, <4>1
        <4>2. CASE runner[j] = "begin"
          <5>1. runner'[j] = "render" /\ b = 1 BY <2>6, <4>2
          <5> HIDE DEF a, b
          <5> QED BY <3>1, <3>2, <4>2, <5>1
        <4>3. CASE runner[j] = "render"
          <5>1. runner'[j] \in {"done", "backoff", "failed"} /\ b = a BY <2>6, <4>3
          <5> HIDE DEF a, b
          <5> QED BY <1>0, <3>1, <3>2, <4>3, <5>1
        <4>4. CASE runner[j] = "backoff"
          <5>1. a < MaxRetries BY <2>5, <4>4
          <5>2. (runner'[j] = "render" /\ b = a + 1) \/ runner'[j] = "failed" BY <2>6, <4>4
          <5> HIDE DEF a, b
          <5> QED BY <1>0, <3>1, <3>2, <4>4, <5>1, <5>2
        <4>5. CASE runner[j] \in {"done", "failed"}
          <5>1. runner'[j] = "return" BY <2>6, <4>5
          <5> HIDE DEF a, b
          <5> QED BY <1>0, <3>1, <3>2, <4>5, <5>1
        <4>6. CASE runner[j] = "return" BY <1>0, <2>6, <3>1, <3>2, <4>6
        <4> QED BY <2>6, <4>1, <4>2, <4>3, <4>4, <4>5, <4>6
      <3> QED BY <3>3 DEF RunnerStage
    <2> QED BY <2>2, <2>4, <2>7
  <1> QED BY <1>2, <1>3, <1>4, <1>5, <1>6 DEF StepFor

\* What is done for other jobs, and by clients and the cleanup, sets no job back.
LEMMA StageKept ==
  ASSUME IInv, IInv', NEW j \in Job, Next, ~ StepFor(j)
  PROVE  Stage(j)' >= Stage(j)
  <1> USE DEF jobVars, fileVars, dispatchVars, runVars, handlerVars
  <1>0. /\ TypeOK /\ OnePlace /\ TypeOK'
        /\ incoming \in Seq(Job) /\ creator[j] \in {"none", "put", "sent"}
    BY DEF IInv, TypeOK
  <1>1. Stage(j) \in Nat
    <2>1. Stage(j) \in 0 .. LastStage BY <1>0, StageType
    <2> QED BY <2>1
  <1>2. ASSUME creator'[j] = creator[j], OnChannel(j)' <=> OnChannel(j),
               inHand' = j <=> inHand = j, runner'[j] = runner[j], attempt'[j] = attempt[j]
        PROVE  Stage(j)' >= Stage(j)
    <2>1. RunnerStage(j)' = RunnerStage(j) BY <1>2 DEF RunnerStage
    <2>2. Stage(j)' = Stage(j) BY <1>2, <2>1 DEF Stage
    <2> QED BY <1>1, <2>2
  <1>3. ASSUME UNCHANGED <<creator, incoming, inHand, runner, attempt>>
        PROVE  Stage(j)' >= Stage(j)
    <2>1. OnChannel(j)' <=> OnChannel(j) BY <1>3 DEF OnChannel
    <2> QED BY <1>2, <1>3, <2>1
  <1>4. ASSUME NEW k \in Job, k # j, RunStep(k) PROVE Stage(j)' >= Stage(j)
    <2>1. /\ UNCHANGED <<creator, incoming, inHand>>
          /\ runner'[j] = runner[j] /\ attempt'[j] = attempt[j]
      BY <1>0, <1>4 DEF RunStep, GetJob, BeginJob, AttemptSucceeds, AttemptFails, Retry,
                        BackoffCancelled, MarkDone, MarkFailed, FreeSlot, TypeOK
    <2>2. OnChannel(j)' <=> OnChannel(j) BY <2>1 DEF OnChannel
    <2> QED BY <1>2, <2>1, <2>2
  <1>5. ASSUME NEW k \in Job, k # j, PutJob(k) PROVE Stage(j)' >= Stage(j)
    <2>1. UNCHANGED <<incoming, inHand, runner, attempt>> /\ creator'[j] = creator[j]
      BY <1>0, <1>5 DEF PutJob, TypeOK
    <2>2. OnChannel(j)' <=> OnChannel(j) BY <2>1 DEF OnChannel
    <2> QED BY <1>2, <2>1, <2>2
  <1>6. ASSUME NEW k \in Job, k # j, SendJob(k) PROVE Stage(j)' >= Stage(j)
    <2>1. /\ UNCHANGED <<inHand, runner, attempt>> /\ creator'[j] = creator[j]
          /\ incoming' = Append(incoming, k)
      BY <1>0, <1>6 DEF SendJob, TypeOK
    <2>2. /\ Len(incoming) \in Nat /\ Len(incoming') = Len(incoming) + 1
          /\ incoming'[Len(incoming) + 1] = k
          /\ \A i \in 1 .. Len(incoming) : incoming'[i] = incoming[i]
      BY <1>0, <2>1, Channel
    <2>3. OnChannel(j)' <=> OnChannel(j)
      <3>1. \A i \in 1 .. Len(incoming') : i \in 1 .. Len(incoming) \/ incoming'[i] = k
        BY <2>2
      <3>2. \A i \in 1 .. Len(incoming) : i \in 1 .. Len(incoming') BY <2>2
      <3> QED BY <1>6, <2>2, <3>1, <3>2 DEF OnChannel
    <2> QED BY <1>2, <2>1, <2>3
  <1>7. CASE DispatchTake
    <2>1. /\ UNCHANGED <<creator, runner, attempt>>
          /\ incoming # << >> /\ incoming' = Tail(incoming) /\ inHand' = Head(incoming)
          /\ inHand' # j
      BY <1>7 DEF DispatchTake, StepFor
    <2>2. /\ Len(incoming) \in Nat \ {0} /\ Len(incoming') = Len(incoming) - 1
          /\ Head(incoming) = incoming[1]
          /\ \A i \in 1 .. Len(incoming') : incoming'[i] = incoming[i + 1]
      BY <1>0, <2>1
    <2>3. OnChannel(j)' <=> OnChannel(j)
      <3>1. ASSUME OnChannel(j)' PROVE OnChannel(j)
        <4>1. \A i \in 1 .. Len(incoming') : i + 1 \in 1 .. Len(incoming) BY <2>2
        <4> QED BY <2>2, <3>1, <4>1 DEF OnChannel
      <3>2. ASSUME NEW i \in 1 .. Len(incoming), incoming[i] = j PROVE OnChannel(j)'
        <4>1. i # 1 BY <2>1, <2>2, <3>2
        <4>2. i - 1 \in 1 .. Len(incoming') /\ (i - 1) + 1 = i BY <2>2, <4>1
        <4>3. incoming'[i - 1] = j BY <2>2, <3>2, <4>2
        <4> QED BY <4>2, <4>3 DEF OnChannel
      <3> QED BY <3>1, <3>2 DEF OnChannel
    <2>4. CASE inHand # j BY <1>2, <2>1, <2>3, <2>4
    <2>5. CASE inHand = j BY <1>0, <2>1, <2>3, <2>5, HandDropped
    <2> QED BY <2>4, <2>5
  <1>8. CASE DispatchStart
    <2>1. /\ UNCHANGED <<creator, incoming, attempt>> /\ inHand # j /\ inHand' # j
          /\ runner'[j] = runner[j]
      BY <1>0, <1>8, QueueAssumption DEF DispatchStart, StepFor, TypeOK
    <2>2. OnChannel(j)' <=> OnChannel(j) BY <2>1 DEF OnChannel
    <2> QED BY <1>2, <2>1, <2>2
  <1>9. CASE DispatchStop
    <2>1. UNCHANGED <<creator, incoming, runner, attempt>> /\ inHand' # j
      BY <1>9, QueueAssumption DEF DispatchStop
    <2>2. OnChannel(j)' <=> OnChannel(j) BY <2>1 DEF OnChannel
    <2>3. CASE inHand # j BY <1>2, <2>1, <2>2, <2>3
    <2>4. CASE inHand = j BY <1>0, <2>1, <2>2, <2>4, HandDropped
    <2> QED BY <2>3, <2>4
  <1>10. ASSUME NEW k \in Job, DeleteGet(k) \/ DeleteFile(k) \/ DeleteMark(k) \/ DownloadGet(k)
                                 \/ DownloadOpen(k) \/ JobAges(k) \/ FileAges(k)
         PROVE  Stage(j)' >= Stage(j)
    BY <1>3, <1>10 DEF DeleteGet, DeleteFile, DeleteMark, DownloadGet, DownloadOpen, JobAges,
                       FileAges
  <1>11. CASE Prune \/ RemoveFiles \/ Shutdown
    BY <1>3, <1>11 DEF Prune, RemoveFiles, Shutdown
  <1>12. ~ RunStep(j) /\ ~ PutJob(j) /\ ~ SendJob(j) BY DEF StepFor
  <1> QED BY <1>4, <1>5, <1>6, <1>7, <1>8, <1>9, <1>10, <1>11, <1>12
          DEF Next, DispatchStep, HandlerStep

\* A job takes its way once: from the handler over the channel and the dispatcher to one
\* goroutine, through at most maxRetries attempts.  No step, of whomever, sets it back,
\* and each step that is taken for it takes it further, up to a last stage: no job is
\* rendered twice and none is retried for ever.
THEOREM JobsGoForward ==
  Spec => /\ [](\A j \in Job : Stage(j) \in 0 .. LastStage)
          /\ [][\A j \in Job : IF StepFor(j) THEN Stage(j)' > Stage(j)
                                             ELSE Stage(j)' >= Stage(j)]_vars
  <1>1. IInv => \A j \in Job : Stage(j) \in 0 .. LastStage
    BY StageType DEF IInv
  <1>2. IInv /\ IInv' /\ [Next]_vars
          => [\A j \in Job : IF StepFor(j) THEN Stage(j)' > Stage(j)
                                           ELSE Stage(j)' >= Stage(j)]_vars
    BY StageAdvances, StageKept
  <1> QED BY <1>1, <1>2, Invariance, PTL DEF Spec

-----------------------------------------------------------------------------
(* So does the file of a job that is over.                                 *)

\* How far a file is on its way from the disk: the job gets old, then the file, and
\* then the cleanup removes it, unless a client has done so before.
Rest(j) ==
  IF file[j] = "none" THEN 3 ELSE IF oldFile[j] THEN 2 ELSE IF oldJob[j] THEN 1 ELSE 0

\* The steps of time and the cleanup that concern a file on the disk.
CleanStep(j) ==
  file[j] # "none" /\ (JobAges(j) \/ FileAges(j) \/ (RemoveFiles /\ oldFile[j]))

\* A job that is over stays over, and its file only gets nearer to its removal: no
\* attempt or handler that still knows the job writes the file again or makes it look
\* young.  The cleanup relies on this: it removes files by their age and asks nobody
\* whether they are in use.
THEOREM FilesGoForward ==
  Spec => [][\A j \in Job : Ended(j) =>
               /\ Ended(j)'
               /\ IF CleanStep(j) THEN Rest(j)' > Rest(j) ELSE Rest(j)' >= Rest(j)]_vars
  <1>1. ASSUME IInv, IInv', [Next]_vars, NEW j \in Job, Ended(j)
        PROVE  /\ Ended(j)'
               /\ IF CleanStep(j) THEN Rest(j)' > Rest(j) ELSE Rest(j)' >= Rest(j)
    <2>0. TypeOK /\ OnePlace /\ Kept /\ Kept' BY <1>1 DEF IInv
    <2>1. Ended(j)' BY <1>1, <2>0, EndedStep
    <2>2. StatusStep(j) /\ FileStep(j) BY <1>1, <2>0, JobStep
    <2>3. runner[j] \in {"off", "return"} /\ (oldFile[j] => oldJob[j])
      BY <1>1, <2>0 DEF Ended, Kept
    <2>4. /\ file'[j] \in {file[j], "none"}
          /\ oldFile[j] => oldFile'[j]
          /\ oldJob[j] => oldJob'[j]
      <3>1. ~ AttemptSucceeds(j) /\ ~ AttemptFails(j)
        BY <2>3 DEF AttemptSucceeds, AttemptFails
      <3>2. FileAges(j) => oldFile'[j] BY <2>0 DEF FileAges, TypeOK
      <3> QED BY <2>2, <2>3, <3>1, <3>2 DEF StatusStep, FileStep
    <2>5. Rest(j)' >= Rest(j) BY <2>3, <2>4 DEF Rest
    <2>6. ASSUME CleanStep(j) PROVE Rest(j)' > Rest(j)
      <3>0. file[j] # "none" /\ (JobAges(j) \/ FileAges(j) \/ (RemoveFiles /\ oldFile[j]))
        BY <2>6 DEF CleanStep
      <3>1. CASE JobAges(j)
        <4>1. ~ oldJob[j] /\ oldJob'[j] BY <2>0, <3>1 DEF JobAges, TypeOK
        <4>2. Rest(j) = 0 BY <2>3, <3>0, <4>1 DEF Rest
        <4>3. Rest(j)' \in {1, 2, 3} BY <4>1 DEF Rest
        <4> QED BY <4>2, <4>3
      <3>2. CASE FileAges(j)
        <4>1. ~ oldFile[j] /\ oldFile'[j] BY <2>0, <3>2 DEF FileAges, TypeOK
        <4>2. Rest(j) \in {0, 1} BY <3>0, <4>1 DEF Rest
        <4>3. Rest(j)' \in {2, 3} BY <4>1 DEF Rest
        <4> QED BY <4>2, <4>3
      <3>3. CASE RemoveFiles /\ oldFile[j]
        <4>1. file'[j] = "none" BY <3>3 DEF RemoveFiles
        <4>2. Rest(j) = 2 BY <3>0, <3>3 DEF Rest
        <4>3. Rest(j)' = 3 BY <4>1 DEF Rest
        <4> QED BY <4>2, <4>3
      <3> QED BY <3>0, <3>1, <3>2, <3>3
    <2> QED BY <2>1, <2>5, <2>6
  <1>2. IInv /\ IInv' /\ [Next]_vars =>
          [\A j \in Job : Ended(j) =>
             /\ Ended(j)'
             /\ IF CleanStep(j) THEN Rest(j)' > Rest(j) ELSE Rest(j)' >= Rest(j)]_vars
    BY <1>1
  <1> QED BY <1>2, Invariance, PTL DEF Spec

-----------------------------------------------------------------------------
(* Nobody waits for ever.                                                  *)

\* The guards of those that take a job further: its handler, the dispatcher while the
\* daemon lives, and its goroutine, which always can.
CanSend(j) == creator[j] = "put" /\ Len(incoming) < QueueDepth

CanDispatch ==
  \/ dispatcher = "select" /\ incoming # << >>
  \/ dispatcher = "slot" /\ slots < MaxConcurrent

CanRun(j) == runner[j] \in RunnerPC \ {"off"}

\* As long as a job is under way in a daemon that lives, someone can take one further.
NeverStuck ==
  live /\ (\E j \in Job : Stage(j) \in 1 .. LastStage - 1) =>
    CanDispatch \/ \E j \in Job : CanSend(j) \/ CanRun(j)

\* The dispatcher has a job while it waits for a slot, and returns at the shutdown.
DispatcherState ==
  /\ dispatcher # "slot" => inHand = NoJob
  /\ dispatcher = "returned" => ~ live

LEMMA AlwaysDispatcherState == Spec => []DispatcherState
  <1>1. Init => DispatcherState BY DEF Init, DispatcherState
  <1>2. ASSUME DispatcherState, [Next]_vars PROVE DispatcherState'
    <2> USE DEF DispatcherState, jobVars, fileVars, dispatchVars, runVars, handlerVars
    <2>1. CASE DispatchStep
      BY <1>2, <2>1 DEF DispatchStep, DispatchTake, DispatchStart, DispatchStop
    <2>2. CASE Shutdown BY <1>2, <2>2 DEF Shutdown
    <2>3. DispatchStep \/ Shutdown \/ UNCHANGED <<dispatcher, inHand, live>>
      BY <1>2 DEF Next, RunStep, GetJob, BeginJob, AttemptSucceeds, AttemptFails, Retry,
                  BackoffCancelled, MarkDone, MarkFailed, FreeSlot, HandlerStep, PutJob, SendJob,
                  DeleteGet, DeleteFile, DeleteMark, DownloadGet, DownloadOpen, JobAges, FileAges,
                  Prune, RemoveFiles, vars
    <2> QED BY <1>2, <2>1, <2>2, <2>3
  <1> QED BY <1>1, <1>2, PTL DEF Spec

\* The handlers that wait for a place on the channel, the dispatcher that waits for a
\* slot and the goroutines that hold the slots never wait for each other in a circle:
\* no slot is lost, and no job is on its way with nobody to take it on.
THEOREM NeverDeadlocks == Spec => []NeverStuck
  <1>1. ASSUME IInv, DispatcherState PROVE NeverStuck
    <2>0. /\ TypeOK /\ Semaphore /\ MaxConcurrent \in Nat \ {0} /\ QueueDepth \in Nat \ {0}
          /\ incoming \in Seq(Job)
      BY <1>1, QueueAssumption DEF IInv, TypeOK
    <2>1. SUFFICES ASSUME live, NEW j \in Job, Stage(j) \in 1 .. LastStage - 1,
                          ~ CanDispatch, \A k \in Job : ~ CanSend(k) /\ ~ CanRun(k)
                   PROVE  FALSE
      BY DEF NeverStuck
    <2>2. \A k \in Job : runner[k] = "off" BY <2>0, <2>1 DEF CanRun, TypeOK
    <2>3. slots = 0
      <3>1. Running = {} BY <2>2 DEF Running
      <3> QED BY <2>0, <3>1, FS_EmptySet DEF Semaphore
    <2>4. dispatcher = "select" /\ incoming = << >>
      <3>1. dispatcher \in {"select", "slot"} BY <1>1, <2>0, <2>1 DEF DispatcherState, TypeOK
      <3>2. slots < MaxConcurrent BY <2>0, <2>3
      <3> QED BY <2>1, <3>1, <3>2 DEF CanDispatch
    <2>5. Len(incoming) < QueueDepth BY <2>0, <2>4
    <2>6. creator[j] # "put" BY <2>1, <2>5 DEF CanSend
    <2>7. ~ OnChannel(j) BY <2>4 DEF OnChannel
    <2>8. RunnerStage(j) = LastStage BY <2>2 DEF RunnerStage, StageAt, LastStage
    <2>9. MaxRetries \in Nat /\ creator[j] \in {"none", "put", "sent"}
      BY <2>0, QueueAssumption DEF TypeOK
    <2>10. Stage(j) = 3 /\ inHand = j
      BY <2>1, <2>6, <2>7, <2>8, <2>9 DEF Stage, LastStage
    <2> QED BY <1>1, <2>4, <2>10, QueueAssumption DEF DispatcherState
  <1> QED BY <1>1, Invariance, AlwaysDispatcherState, PTL
=============================================================================

------------------------------ MODULE Scheduler ------------------------------
(***************************************************************************)
(* Scheduler of internal/scheduler/scheduler.go: workers that take frame   *)
(* jobs from one channel and put a result for each on another, with the    *)
(* counters that Stats reads.  It is driven as its tests drive it: one     *)
(* goroutine calls Submit and then Close, another ranges over the results, *)
(* and Submit and Run get the same context.                                *)
(***************************************************************************)
EXTENDS Integers, Sequences, FiniteSets

CONSTANTS
  Worker,       \* the goroutines that Run starts
  Total,        \* jobs that BuildJobs makes, one for each frame
  QueueDepth,   \* capacity of both channels
  Faulty,       \* the frames whose workerFunc may fail
  MayCancel,    \* whether the context may be cancelled
  NoFrame       \* a worker has no job in hand

Frame == 0 .. Total - 1

ASSUME SchedulerAssumption ==
  /\ IsFiniteSet(Worker) /\ Worker # {}
  /\ Total \in Nat
  /\ QueueDepth \in Nat \ {0}
  /\ Faulty \subseteq Frame
  /\ MayCancel \in BOOLEAN
  /\ NoFrame \notin Frame

VARIABLES
  submitter,      \* "send", "count" (between the send and pending.Add), "close", "done"
  sent,           \* jobs that Submit has put on the channel
  jobs,           \* the channel s.jobs
  jobsClosed,
  wpc,            \* [Worker -> where runWorker is]
  job,            \* [Worker -> the job in hand, or NoFrame]
  err,            \* [Worker -> Err of the result to be sent]
  pending,        \* the counters of Stats
  rendered,
  failed,
  results,        \* the channel s.results
  resultsClosed,
  received,       \* results that the caller has taken from the channel
  ctxDone

submitVars == <<submitter, sent>>
jobsVars == <<jobs, jobsClosed>>
workerVars == <<wpc, job, err>>
statsVars == <<pending, rendered, failed>>
resultsVars == <<results, resultsClosed>>
vars == <<submitVars, jobsVars, workerVars, statsVars, resultsVars, received, ctxDone>>

Init ==
  /\ submitter = "send"
  /\ sent = 0
  /\ jobs = << >>
  /\ jobsClosed = FALSE
  /\ wpc = [w \in Worker |-> "range"]
  /\ job = [w \in Worker |-> NoFrame]
  /\ err = [w \in Worker |-> "none"]
  /\ pending = 0
  /\ rendered = 0
  /\ failed = 0
  /\ results = << >>
  /\ resultsClosed = FALSE
  /\ received = {}
  /\ ctxDone = FALSE

-----------------------------------------------------------------------------
(* Submit and Close.                                                       *)

\* s.jobs <- job
SubmitSend ==
  /\ submitter = "send"
  /\ sent < Total
  /\ Len(jobs) < QueueDepth
  /\ jobs' = Append(jobs, sent)
  /\ sent' = sent + 1
  /\ submitter' = "count"
  /\ UNCHANGED <<jobsClosed, workerVars, statsVars, resultsVars, received, ctxDone>>

\* s.pending.Add(1): the job may be done by now.
SubmitCount ==
  /\ submitter = "count"
  /\ pending' = pending + 1
  /\ submitter' = "send"
  /\ UNCHANGED <<sent, jobsVars, workerVars, rendered, failed, resultsVars, received, ctxDone>>

\* A mutation of SubmitReturns: Submit does not watch its context.
SubmitReturnsAtEnd ==
  /\ submitter = "send"
  /\ sent = Total
  /\ submitter' = "close"
  /\ UNCHANGED <<sent, jobsVars, workerVars, statsVars, resultsVars, received, ctxDone>>

\* Submit returns: after the last job, or because the context is done, which
\* select may prefer to a free place on the channel.
SubmitReturns ==
  /\ submitter = "send"
  /\ sent = Total \/ ctxDone
  /\ submitter' = "close"
  /\ UNCHANGED <<sent, jobsVars, workerVars, statsVars, resultsVars, received, ctxDone>>

Close ==
  /\ submitter = "close"
  /\ jobsClosed' = TRUE
  /\ submitter' = "done"
  /\ UNCHANGED <<sent, jobs, workerVars, statsVars, resultsVars, received, ctxDone>>

SubmitStep == SubmitSend \/ SubmitCount \/ SubmitReturns \/ Close

-----------------------------------------------------------------------------
(* runWorker.                                                              *)

\* for job := range s.jobs
Take(w) ==
  /\ wpc[w] = "range"
  /\ jobs # << >>
  /\ job' = [job EXCEPT ![w] = Head(jobs)]
  /\ jobs' = Tail(jobs)
  /\ wpc' = [wpc EXCEPT ![w] = "check"]
  /\ UNCHANGED <<jobsClosed, err, submitVars, statsVars, resultsVars, received, ctxDone>>

\* A mutation of RangeEnds: the worker stops at the close, jobs left or not.
RangeEndsEarly(w) ==
  /\ wpc[w] = "range"
  /\ jobsClosed
  /\ wpc' = [wpc EXCEPT ![w] = "returned"]
  /\ UNCHANGED <<job, err, submitVars, jobsVars, statsVars, resultsVars, received, ctxDone>>

RangeEnds(w) ==
  /\ wpc[w] = "range"
  /\ jobs = << >> /\ jobsClosed
  /\ wpc' = [wpc EXCEPT ![w] = "returned"]
  /\ UNCHANGED <<job, err, submitVars, jobsVars, statsVars, resultsVars, received, ctxDone>>

\* The context is looked at once for each job: if it is done, the job is
\* answered with an error, and no counter changes.
CheckContext(w) ==
  /\ wpc[w] = "check"
  /\ wpc' = [wpc EXCEPT ![w] = IF ctxDone THEN "quit" ELSE "work"]
  /\ UNCHANGED <<job, err, submitVars, jobsVars, statsVars, resultsVars, received, ctxDone>>

\* workerFunc returns nil, and the frame is counted as rendered ...
WorkSucceeds(w) ==
  /\ wpc[w] = "work"
  /\ err' = [err EXCEPT ![w] = "none"]
  /\ rendered' = rendered + 1
  /\ wpc' = [wpc EXCEPT ![w] = "settle"]
  /\ UNCHANGED <<job, submitVars, jobsVars, pending, failed, resultsVars, received, ctxDone>>

\* ... or an error, which a cancelled context may be the reason of.
WorkFails(w) ==
  /\ wpc[w] = "work"
  /\ job[w] \in Faulty \/ ctxDone
  /\ err' = [err EXCEPT ![w] = "failed"]
  /\ failed' = failed + 1
  /\ wpc' = [wpc EXCEPT ![w] = "settle"]
  /\ UNCHANGED <<job, submitVars, jobsVars, pending, rendered, resultsVars, received, ctxDone>>

\* A mutation of Settle: only a rendered frame is no longer pending.
SettleRendered(w) ==
  /\ wpc[w] = "settle"
  /\ pending' = IF err[w] = "none" THEN pending - 1 ELSE pending
  /\ wpc' = [wpc EXCEPT ![w] = "send"]
  /\ UNCHANGED <<job, err, submitVars, jobsVars, rendered, failed, resultsVars, received, ctxDone>>

\* s.pending.Add(-1)
Settle(w) ==
  /\ wpc[w] = "settle"
  /\ pending' = pending - 1
  /\ wpc' = [wpc EXCEPT ![w] = "send"]
  /\ UNCHANGED <<job, err, submitVars, jobsVars, rendered, failed, resultsVars, received, ctxDone>>

\* A mutation of SendResult: a failed job also goes back on the channel, for another try.
SendResultRetrying(w) ==
  /\ wpc[w] = "send"
  /\ Len(results) < QueueDepth
  /\ results' = Append(results, [frame |-> job[w], err |-> err[w]])
  /\ jobs' = IF err[w] = "failed" /\ ~ jobsClosed /\ Len(jobs) < QueueDepth
               THEN Append(jobs, job[w]) ELSE jobs
  /\ job' = [job EXCEPT ![w] = NoFrame]
  /\ wpc' = [wpc EXCEPT ![w] = "range"]
  /\ UNCHANGED <<err, jobsClosed, resultsClosed, submitVars, statsVars, received, ctxDone>>

\* s.results <- result, and on to the next job.
SendResult(w) ==
  /\ wpc[w] = "send"
  /\ Len(results) < QueueDepth
  /\ results' = Append(results, [frame |-> job[w], err |-> err[w]])
  /\ job' = [job EXCEPT ![w] = NoFrame]
  /\ wpc' = [wpc EXCEPT ![w] = "range"]
  /\ UNCHANGED <<err, resultsClosed, submitVars, jobsVars, statsVars, received, ctxDone>>

\* The result of a cancelled worker, its last one.
SendCancelled(w) ==
  /\ wpc[w] = "quit"
  /\ Len(results) < QueueDepth
  /\ results' = Append(results, [frame |-> job[w], err |-> "cancelled"])
  /\ job' = [job EXCEPT ![w] = NoFrame]
  /\ wpc' = [wpc EXCEPT ![w] = "returned"]
  /\ UNCHANGED <<err, resultsClosed, submitVars, jobsVars, statsVars, received, ctxDone>>

WorkerStep(w) ==
  \/ Take(w) \/ RangeEnds(w) \/ CheckContext(w)
  \/ WorkSucceeds(w) \/ WorkFails(w) \/ Settle(w)
  \/ SendResult(w) \/ SendCancelled(w)

-----------------------------------------------------------------------------
\* wg.Wait, close(s.results)
CloseResults ==
  /\ \A w \in Worker : wpc[w] = "returned"
  /\ ~ resultsClosed
  /\ resultsClosed' = TRUE
  /\ UNCHANGED <<results, submitVars, jobsVars, workerVars, statsVars, received, ctxDone>>

\* The caller drains the channel, as the comment on Run asks.
Receive ==
  /\ results # << >>
  /\ received' = received \cup {Head(results)}
  /\ results' = Tail(results)
  /\ UNCHANGED <<resultsClosed, submitVars, jobsVars, workerVars, statsVars, ctxDone>>

Cancel ==
  /\ MayCancel
  /\ ~ ctxDone
  /\ ctxDone' = TRUE
  /\ UNCHANGED <<submitVars, jobsVars, workerVars, statsVars, resultsVars, received>>

Next ==
  \/ SubmitStep
  \/ \E w \in Worker : WorkerStep(w)
  \/ CloseResults \/ Receive \/ Cancel

Spec == Init /\ [][Next]_vars

\* The goroutines are scheduled fairly and workerFunc returns; nobody has to
\* cancel.
Fairness ==
  /\ WF_vars(SubmitStep)
  /\ \A w \in Worker : WF_vars(WorkerStep(w))
  /\ WF_vars(CloseResults)
  /\ WF_vars(Receive)

FairSpec == Spec /\ Fairness

-----------------------------------------------------------------------------
(* Properties.                                                             *)

Result == [frame : Frame, err : {"none", "failed", "cancelled"}]

\* Every variable keeps its type, and no channel holds more than its capacity.
TypeOK ==
  /\ submitter \in {"send", "count", "close", "done"}
  /\ sent \in 0 .. Total
  /\ jobs \in Seq(Frame) /\ Len(jobs) <= QueueDepth
  /\ jobsClosed \in BOOLEAN
  /\ wpc \in [Worker -> {"range", "check", "work", "settle", "send", "quit", "returned"}]
  /\ job \in [Worker -> Frame \cup {NoFrame}]
  /\ err \in [Worker -> {"none", "failed"}]
  /\ pending \in Int
  /\ rendered \in Nat
  /\ failed \in Nat
  /\ results \in Seq(Result) /\ Len(results) <= QueueDepth
  /\ resultsClosed \in BOOLEAN
  /\ received \subseteq Result
  /\ ctxDone \in BOOLEAN

\* Where frame f can be.
Queued(f) == \E i \in 1 .. Len(jobs) : jobs[i] = f
InHand(f) == \E w \in Worker : job[w] = f
Answered(f) ==
  \/ \E i \in 1 .. Len(results) : results[i].frame = f
  \/ \E r \in received : r.frame = f

\* Workers that take jobs from one channel while it is filled, and stop at the
\* close or at a cancellation, lose none and render none twice: a submitted job
\* waits, is in one worker's hand or has its one result.
JobConservation ==
  /\ \A f \in Frame : Queued(f) \/ InHand(f) \/ Answered(f) <=> f < sent
  /\ \A f \in Frame : ~ (Queued(f) /\ InHand(f)) /\ ~ (InHand(f) /\ Answered(f))
                      /\ ~ (Queued(f) /\ Answered(f))
  /\ \A v, w \in Worker : v # w /\ job[v] # NoFrame => job[v] # job[w]
  /\ \A i, j \in 1 .. Len(jobs) : i # j => jobs[i] # jobs[j]
  /\ \A i, j \in 1 .. Len(results) : i # j => results[i].frame # results[j].frame
  /\ \A i \in 1 .. Len(results) : \A r \in received : results[i].frame # r.frame
  /\ \A q, r \in received : q.frame = r.frame => q = r

\* A job that workerFunc has not answered: it waits, a worker has it and has not
\* lowered the counter, or a cancelled worker gave it up.
GivenUp(f) ==
  \/ \E i \in 1 .. Len(results) : results[i] = [frame |-> f, err |-> "cancelled"]
  \/ [frame |-> f, err |-> "cancelled"] \in received
Unsettled ==
  {f \in Frame : \/ Queued(f)
                 \/ \E w \in Worker : job[w] = f /\ wpc[w] # "send"
                 \/ GivenUp(f)}

\* scheduler.go:115: Stats' pending is the number of submitted jobs that
\* have no outcome, and one less, so perhaps -1, while Submit has sent a job and
\* not counted it.  A job that a cancelled worker gave up stays pending for ever.
PendingCountsJobs ==
  pending = Cardinality(Unsettled) - IF submitter = "count" THEN 1 ELSE 0

\* scheduler.go:110, Close stops the workers "after draining remaining jobs": a
\* caller that has ranged over the results of a run that was not cancelled has one
\* for every job.
ResultsComplete ==
  resultsClosed /\ ~ ctxDone =>
    /\ sent = Total
    /\ \A f \in Frame : Answered(f)
    /\ pending = 0

\* Submit and the range over the results end, cancelled or not, although the
\* workers that see the cancellation leave jobs on the channel.
SchedulerEnds == <>(submitter = "done" /\ resultsClosed /\ results = << >>)
=============================================================================

--------------------------- MODULE SchedulerProofs ---------------------------
(***************************************************************************)
(* Proofs about Scheduler, for every set of workers, number of jobs and    *)
(* depth of the channels.                                                  *)
(***************************************************************************)
EXTENDS Scheduler, FiniteSetTheorems, TLAPS

-----------------------------------------------------------------------------
(* Type correctness.                                                       *)

\* Sending on a channel and receiving from one.
LEMMA Channel ==
  ASSUME NEW S, NEW ch \in Seq(S), NEW x \in S
  PROVE  /\ Append(ch, x) \in Seq(S)
         /\ Len(Append(ch, x)) = Len(ch) + 1
         /\ Append(ch, x)[Len(ch) + 1] = x
         /\ \A i \in 1 .. Len(ch) : Append(ch, x)[i] = ch[i]
  OBVIOUS

LEMMA ChannelTail ==
  ASSUME NEW S, NEW ch \in Seq(S), ch # << >>
  PROVE  /\ Tail(ch) \in Seq(S)
         /\ Len(Tail(ch)) = Len(ch) - 1
         /\ Head(ch) = ch[1] /\ 1 \in 1 .. Len(ch) /\ Head(ch) \in S
         /\ \A i \in 1 .. Len(Tail(ch)) : Tail(ch)[i] = ch[i + 1]
  OBVIOUS

WorkerPC == {"range", "check", "work", "settle", "send", "quit", "returned"}

LEMMA InitType == Init => TypeOK
  <1> SUFFICES ASSUME Init PROVE TypeOK OBVIOUS
  <1>1. wpc \in [Worker -> WorkerPC] /\ job \in [Worker -> Frame \cup {NoFrame}]
        /\ err \in [Worker -> {"none", "failed"}]
    BY DEF Init, WorkerPC
  <1>2. 0 \in 0 .. Total /\ 0 <= QueueDepth BY SchedulerAssumption
  <1>3. jobs \in Seq(Frame) /\ Len(jobs) = 0 /\ results \in Seq(Result) /\ Len(results) = 0
    BY DEF Init
  <1>4. /\ submitter = "send" /\ sent = 0 /\ pending = 0 /\ rendered = 0 /\ failed = 0
        /\ ~ jobsClosed /\ ~ resultsClosed /\ ~ ctxDone /\ received = {}
        /\ jobsClosed \in BOOLEAN /\ resultsClosed \in BOOLEAN /\ ctxDone \in BOOLEAN
    BY DEF Init
  <1> QED BY <1>1, <1>2, <1>3, <1>4 DEF TypeOK, WorkerPC

\* What a worker sends is a result.
LEMMA ResultType ==
  ASSUME NEW f \in Frame, NEW e \in {"none", "failed", "cancelled"}
  PROVE  [frame |-> f, err |-> e] \in Result
  BY DEF Result

\* A worker has a job in hand from Take until its result is sent.
HandProtocol ==
  \A w \in Worker : job[w] = NoFrame <=> wpc[w] \in {"range", "returned"}

LEMMA InitHand == Init => HandProtocol
  BY SchedulerAssumption DEF Init, HandProtocol

LEMMA NextType ==
  ASSUME TypeOK, HandProtocol, [Next]_vars
  PROVE  TypeOK' /\ HandProtocol'
  <1> USE DEF TypeOK, submitVars, jobsVars, workerVars, statsVars, resultsVars
  <1>0. /\ Total \in Nat /\ QueueDepth \in Nat /\ NoFrame \notin Frame
        /\ jobs \in Seq(Frame) /\ results \in Seq(Result)
        /\ Len(jobs) \in Nat /\ Len(results) \in Nat
    BY SchedulerAssumption
  <1>1. CASE SubmitSend
    <2>1. sent \in Frame /\ sent' \in 0 .. Total BY <1>0, <1>1 DEF SubmitSend, Frame
    <2>2. jobs' \in Seq(Frame) /\ Len(jobs') <= QueueDepth
      BY <1>0, <1>1, <2>1, Channel DEF SubmitSend
    <2> QED BY <1>1, <2>1, <2>2 DEF SubmitSend, HandProtocol
  <1>2. CASE SubmitCount BY <1>2 DEF SubmitCount, HandProtocol
  <1>3. CASE SubmitReturns BY <1>3 DEF SubmitReturns, HandProtocol
  <1>4. CASE Close BY <1>4 DEF Close, HandProtocol
  <1>5. ASSUME NEW w \in Worker, WorkerStep(w) PROVE TypeOK' /\ HandProtocol'
    <2>1. CASE Take(w)
      <3>1. Head(jobs) \in Frame /\ jobs' \in Seq(Frame) /\ Len(jobs') <= QueueDepth
        BY <1>0, <2>1, ChannelTail DEF Take
      <3> QED BY <1>0, <2>1, <3>1 DEF Take, HandProtocol
    <2>2. CASE RangeEnds(w) BY <2>2 DEF RangeEnds, HandProtocol
    <2>3. CASE CheckContext(w) BY <2>3 DEF CheckContext, HandProtocol
    <2>4. CASE WorkSucceeds(w) BY <2>4 DEF WorkSucceeds, HandProtocol
    <2>5. CASE WorkFails(w) BY <2>5 DEF WorkFails, HandProtocol
    <2>6. CASE Settle(w) BY <2>6 DEF Settle, HandProtocol
    <2>7. CASE SendResult(w)
      <3>1. job[w] \in Frame BY <2>7 DEF SendResult, HandProtocol
      <3>2. [frame |-> job[w], err |-> err[w]] \in Result BY <3>1, ResultType
      <3>3. results' \in Seq(Result) /\ Len(results') <= QueueDepth
        BY <1>0, <2>7, <3>2, Channel DEF SendResult
      <3>4. TypeOK' BY <2>7, <3>3 DEF SendResult
      <3>5. HandProtocol' BY <2>7 DEF SendResult, HandProtocol
      <3> QED BY <3>4, <3>5
    <2>8. CASE SendCancelled(w)
      <3>1. job[w] \in Frame BY <2>8 DEF SendCancelled, HandProtocol
      <3>2. [frame |-> job[w], err |-> "cancelled"] \in Result BY <3>1, ResultType
      <3>3. results' \in Seq(Result) /\ Len(results') <= QueueDepth
        BY <1>0, <2>8, <3>2, Channel DEF SendCancelled
      <3>4. TypeOK' BY <2>8, <3>3 DEF SendCancelled
      <3>5. HandProtocol' BY <2>8 DEF SendCancelled, HandProtocol
      <3> QED BY <3>4, <3>5
    <2> QED BY <1>5, <2>1, <2>2, <2>3, <2>4, <2>5, <2>6, <2>7, <2>8 DEF WorkerStep
  <1>6. CASE CloseResults BY <1>6 DEF CloseResults, HandProtocol
  <1>7. CASE Receive
    <2>1. Head(results) \in Result /\ results' \in Seq(Result) /\ Len(results') <= QueueDepth
      BY <1>0, <1>7, ChannelTail DEF Receive
    <2> QED BY <1>7, <2>1 DEF Receive, HandProtocol
  <1>8. CASE Cancel BY <1>8 DEF Cancel, HandProtocol
  <1>9. CASE UNCHANGED vars BY <1>9 DEF vars, HandProtocol
  <1> QED BY <1>1, <1>2, <1>3, <1>4, <1>5, <1>6, <1>7, <1>8, <1>9 DEF Next, SubmitStep

-----------------------------------------------------------------------------
(* No job is lost and none is done twice.                                  *)

LEMMA InitConservation == Init => JobConservation
  <1> SUFFICES ASSUME Init PROVE JobConservation OBVIOUS
  <1>1. /\ jobs = << >> /\ results = << >> /\ received = {} /\ sent = 0
        /\ \A w \in Worker : job[w] = NoFrame
    BY DEF Init
  <1>2. \A f \in Frame : ~ Queued(f) /\ ~ InHand(f) /\ ~ Answered(f) /\ ~ (f < sent)
    BY <1>1, SchedulerAssumption DEF Queued, InHand, Answered, Frame
  <1> QED BY <1>1, <1>2 DEF JobConservation

\* Submit puts the next job behind those that wait.
LEMMA SubmitEffect ==
  ASSUME TypeOK, SubmitSend
  PROVE  /\ sent \in Frame /\ sent' = sent + 1
         /\ \A f : Queued(f)' <=> Queued(f) \/ f = sent
         /\ Len(jobs') = Len(jobs) + 1 /\ jobs'[Len(jobs) + 1] = sent
         /\ \A i \in 1 .. Len(jobs) : jobs'[i] = jobs[i]
         /\ \A i \in 1 .. Len(jobs') : i \in 1 .. Len(jobs) \/ i = Len(jobs) + 1
  <1>0. Total \in Nat /\ sent \in 0 .. Total /\ jobs \in Seq(Frame) /\ Len(jobs) \in Nat
    BY SchedulerAssumption DEF TypeOK
  <1>1. /\ sent \in Frame /\ sent' = sent + 1
        /\ Len(jobs') = Len(jobs) + 1 /\ jobs'[Len(jobs) + 1] = sent
        /\ \A i \in 1 .. Len(jobs) : jobs'[i] = jobs[i]
    BY <1>0, Channel DEF SubmitSend, Frame
  <1>2. \A i \in 1 .. Len(jobs') : i \in 1 .. Len(jobs) \/ i = Len(jobs) + 1
    BY <1>0, <1>1
  <1>3. \A f : Queued(f)' <=> Queued(f) \/ f = sent
    BY <1>0, <1>1, <1>2 DEF Queued
  <1> QED BY <1>1, <1>2, <1>3

\* A worker takes the first job of those that wait, and no other waits less.
LEMMA TakeEffect ==
  ASSUME TypeOK, HandProtocol, JobConservation, NEW w \in Worker, Take(w)
  PROVE  /\ jobs[1] \in Frame /\ Queued(jobs[1]) /\ job[w] = NoFrame
         /\ \A v \in Worker : job'[v] = IF v = w THEN jobs[1] ELSE job[v]
         /\ \A f : Queued(f)' <=> Queued(f) /\ f # jobs[1]
         /\ \A i \in 1 .. Len(jobs') :
              i + 1 \in 1 .. Len(jobs) /\ i + 1 # 1 /\ jobs'[i] = jobs[i + 1]
  <1>0. jobs \in Seq(Frame) /\ Len(jobs) \in Nat /\ job \in [Worker -> Frame \cup {NoFrame}]
    BY DEF TypeOK
  <1>1. /\ jobs # << >> /\ jobs' = Tail(jobs) /\ job' = [job EXCEPT ![w] = Head(jobs)]
        /\ job[w] = NoFrame
    BY DEF Take, HandProtocol
  <1>2. /\ Len(jobs') = Len(jobs) - 1 /\ Head(jobs) = jobs[1] /\ 1 \in 1 .. Len(jobs)
        /\ \A i \in 1 .. Len(jobs') : jobs'[i] = jobs[i + 1]
        /\ jobs[1] \in Frame
    BY <1>0, <1>1, ChannelTail
  <1>3. \A i \in 1 .. Len(jobs') : i + 1 \in 1 .. Len(jobs) /\ i + 1 # 1 BY <1>0, <1>2
  <1>4. \A i \in 1 .. Len(jobs) : i = 1 \/ (i - 1 \in 1 .. Len(jobs') /\ (i - 1) + 1 = i)
    BY <1>0, <1>2
  <1>5. ASSUME NEW f, Queued(f)' PROVE Queued(f) /\ f # jobs[1]
    BY <1>5, <1>2, <1>3 DEF Queued, JobConservation
  <1>6. ASSUME NEW f, Queued(f), f # jobs[1] PROVE Queued(f)'
    BY <1>6, <1>2, <1>4 DEF Queued
  <1>7. Queued(jobs[1]) BY <1>2 DEF Queued
  <1>8. \A v \in Worker : job'[v] = IF v = w THEN jobs[1] ELSE job[v]
    BY <1>0, <1>1, <1>2
  <1> QED BY <1>1, <1>2, <1>3, <1>5, <1>6, <1>7, <1>8

\* How the steps move a job: from the submitter to the channel, to a worker, to the
\* results, and to the caller.
LEMMA ConservationStep ==
  ASSUME TypeOK, HandProtocol, JobConservation, [Next]_vars
  PROVE  JobConservation'
  <1> USE DEF submitVars, jobsVars, workerVars, statsVars, resultsVars
  <1>0. /\ Total \in Nat /\ NoFrame \notin Frame /\ sent \in 0 .. Total
        /\ jobs \in Seq(Frame) /\ results \in Seq(Result)
        /\ Len(jobs) \in Nat /\ Len(results) \in Nat
        /\ job \in [Worker -> Frame \cup {NoFrame}]
    BY SchedulerAssumption DEF TypeOK
  <1>1. CASE UNCHANGED <<sent, jobs, job, results, received>>
    BY <1>1 DEF JobConservation, Queued, InHand, Answered
  <1>2. CASE SubmitSend
    <2>1. UNCHANGED <<job, results, received>> BY <1>2 DEF SubmitSend
    <2>2. /\ sent \in Frame /\ sent' = sent + 1
          /\ Len(jobs') = Len(jobs) + 1 /\ jobs'[Len(jobs) + 1] = sent
          /\ \A i \in 1 .. Len(jobs) : jobs'[i] = jobs[i]
          /\ \A i \in 1 .. Len(jobs') : i \in 1 .. Len(jobs) \/ i = Len(jobs) + 1
      BY <1>2, SubmitEffect
    <2>3. \A f : Queued(f)' <=> Queued(f) \/ f = sent BY <1>2, SubmitEffect
    <2>4. \A f : (InHand(f)' <=> InHand(f)) /\ (Answered(f)' <=> Answered(f))
      BY <2>1 DEF InHand, Answered
    <2>5. ~ Queued(sent) /\ ~ InHand(sent) /\ ~ Answered(sent)
      BY <1>0, <2>2 DEF JobConservation
    <2>6. \A f \in Frame : f < sent' <=> f < sent \/ f = sent BY <1>0, <2>2 DEF Frame
    <2>7. \A i, j \in 1 .. Len(jobs') : i # j => jobs'[i] # jobs'[j]
      BY <2>2, <2>5 DEF JobConservation, Queued
    <2> QED BY <2>1, <2>3, <2>4, <2>5, <2>6, <2>7 DEF JobConservation
  <1>3. ASSUME NEW w \in Worker, Take(w) PROVE JobConservation'
    <2>1. UNCHANGED <<sent, results, received>> BY <1>3 DEF Take
    <2>2. /\ jobs[1] \in Frame /\ Queued(jobs[1]) /\ job[w] = NoFrame
          /\ \A v \in Worker : job'[v] = IF v = w THEN jobs[1] ELSE job[v]
          /\ \A i \in 1 .. Len(jobs') :
               i + 1 \in 1 .. Len(jobs) /\ i + 1 # 1 /\ jobs'[i] = jobs[i + 1]
      BY <1>3, TakeEffect
    <2>5. \A f : Queued(f)' <=> Queued(f) /\ f # jobs[1] BY <1>3, TakeEffect
    <2>6. \A f \in Frame : InHand(f)' <=> InHand(f) \/ f = jobs[1]
      BY <1>0, <2>2 DEF InHand
    <2>7. \A f : Answered(f)' <=> Answered(f) BY <2>1 DEF Answered
    <2>8. Queued(jobs[1]) /\ ~ InHand(jobs[1]) BY <2>2 DEF JobConservation
    <2>9. \A i, j \in 1 .. Len(jobs') : i # j => jobs'[i] # jobs'[j]
      <3>1. ASSUME NEW i \in 1 .. Len(jobs'), NEW j \in 1 .. Len(jobs'), i # j
            PROVE  jobs'[i] # jobs'[j]
        <4>1. i + 1 # j + 1 BY <3>1
        <4> QED BY <2>2, <4>1 DEF JobConservation
      <3> QED BY <3>1
    <2>10. \A u, v \in Worker : u # v /\ job'[u] # NoFrame => job'[u] # job'[v]
      BY <2>8, <2>2, <1>0 DEF InHand, JobConservation
    <2>11. /\ \A i, j \in 1 .. Len(results) : i # j => results[i].frame # results[j].frame
           /\ \A i \in 1 .. Len(results) : \A r \in received : results[i].frame # r.frame
           /\ \A q, r \in received : q.frame = r.frame => q = r
      BY DEF JobConservation
    <2>12. /\ \A f \in Frame : Queued(f)' \/ InHand(f)' \/ Answered(f)' <=> f < sent
           /\ \A f \in Frame : /\ ~ (Queued(f)' /\ InHand(f)') /\ ~ (InHand(f)' /\ Answered(f)')
                               /\ ~ (Queued(f)' /\ Answered(f)')
      BY <2>2, <2>5, <2>6, <2>7, <2>8 DEF JobConservation
    <2> QED BY <2>1, <2>9, <2>10, <2>11, <2>12 DEF JobConservation
  <1>4. ASSUME NEW w \in Worker, SendResult(w) \/ SendCancelled(w) PROVE JobConservation'
    <2>1. PICK e \in {"none", "failed", "cancelled"} :
            /\ results' = Append(results, [frame |-> job[w], err |-> e])
            /\ job' = [job EXCEPT ![w] = NoFrame]
            /\ UNCHANGED <<sent, jobs, received>>
            /\ job[w] \in Frame
      BY <1>4 DEF SendResult, SendCancelled, HandProtocol, TypeOK
    <2>2. /\ Len(results') = Len(results) + 1
          /\ results'[Len(results) + 1].frame = job[w]
          /\ \A i \in 1 .. Len(results) : results'[i] = results[i]
      <3>1. [frame |-> job[w], err |-> e] \in Result BY <2>1, ResultType
      <3>2. results'[Len(results) + 1] = [frame |-> job[w], err |-> e]
        BY <1>0, <2>1, <3>1, Channel
      <3> QED BY <1>0, <2>1, <3>1, <3>2, Channel
    <2>3. /\ \A i \in 1 .. Len(results') : i \in 1 .. Len(results) \/ i = Len(results) + 1
          /\ Len(results) + 1 \in 1 .. Len(results')
          /\ \A i \in 1 .. Len(results) : i \in 1 .. Len(results')
      BY <1>0, <2>2
    <2>4. \A f : Queued(f)' <=> Queued(f) BY <2>1 DEF Queued
    <2>5. /\ \A v \in Worker : job'[v] = IF v = w THEN NoFrame ELSE job[v]
          /\ \A f \in Frame : InHand(f)' <=> InHand(f) /\ f # job[w]
      <3>1. \A v \in Worker : job'[v] = IF v = w THEN NoFrame ELSE job[v] BY <1>0, <2>1
      <3>2. \A v \in Worker : v # w => job[v] # job[w]
        BY <1>0, <2>1 DEF JobConservation
      <3> QED BY <1>0, <2>1, <3>1, <3>2 DEF InHand
    <2>6. \A f : Answered(f)' <=> Answered(f) \/ f = job[w]
      <3>1. ASSUME NEW f, Answered(f)' PROVE Answered(f) \/ f = job[w]
        BY <3>1, <2>1, <2>2, <2>3 DEF Answered
      <3>2. ASSUME NEW f, Answered(f) \/ f = job[w] PROVE Answered(f)'
        BY <3>2, <2>1, <2>2, <2>3 DEF Answered
      <3> QED BY <3>1, <3>2
    <2>7. InHand(job[w]) /\ ~ Answered(job[w]) /\ ~ Queued(job[w])
      BY <2>1 DEF InHand, JobConservation
    <2>8. \A i, j \in 1 .. Len(results') : i # j => results'[i].frame # results'[j].frame
      BY <2>2, <2>3, <2>7 DEF Answered, JobConservation
    <2>9. \A i \in 1 .. Len(results') : \A r \in received : results'[i].frame # r.frame
      BY <2>2, <2>3, <2>7 DEF Answered, JobConservation
    <2>10. \A u, v \in Worker : u # v /\ job'[u] # NoFrame => job'[u] # job'[v]
      BY <2>5, <1>0 DEF JobConservation
    <2>11. /\ \A i, j \in 1 .. Len(jobs) : i # j => jobs[i] # jobs[j]
           /\ \A q, r \in received : q.frame = r.frame => q = r
      BY DEF JobConservation
    <2>12. /\ \A f \in Frame : Queued(f)' \/ InHand(f)' \/ Answered(f)' <=> f < sent
           /\ \A f \in Frame : /\ ~ (Queued(f)' /\ InHand(f)') /\ ~ (InHand(f)' /\ Answered(f)')
                               /\ ~ (Queued(f)' /\ Answered(f)')
      BY <2>4, <2>5, <2>6, <2>7 DEF JobConservation
    <2> QED BY <2>1, <2>8, <2>9, <2>10, <2>11, <2>12 DEF JobConservation
  <1>5. CASE Receive
    <2>1. /\ results # << >> /\ results' = Tail(results)
          /\ received' = received \cup {Head(results)}
          /\ UNCHANGED <<sent, jobs, job>>
      BY <1>5 DEF Receive
    <2>2. /\ Len(results') = Len(results) - 1 /\ Head(results) = results[1]
          /\ 1 \in 1 .. Len(results)
          /\ \A i \in 1 .. Len(results') : results'[i] = results[i + 1]
      BY <1>0, <2>1, ChannelTail
    <2>3. \A i \in 1 .. Len(results') : i + 1 \in 1 .. Len(results) /\ i + 1 # 1
      BY <1>0, <2>2
    <2>4. \A i \in 1 .. Len(results) :
            i = 1 \/ (i - 1 \in 1 .. Len(results') /\ (i - 1) + 1 = i)
      BY <1>0, <2>2
    <2>5. \A f : (Queued(f)' <=> Queued(f)) /\ (InHand(f)' <=> InHand(f))
      BY <2>1 DEF Queued, InHand
    <2>6. \A f : Answered(f)' <=> Answered(f)
      <3>1. ASSUME NEW f, Answered(f)' PROVE Answered(f)
        BY <3>1, <2>1, <2>2, <2>3 DEF Answered
      <3>2. ASSUME NEW f, Answered(f) PROVE Answered(f)'
        <4>1. CASE \E r \in received : r.frame = f BY <4>1, <2>1 DEF Answered
        <4>2. ASSUME NEW i \in 1 .. Len(results), results[i].frame = f PROVE Answered(f)'
          <5>1. CASE i = 1 BY <5>1, <4>2, <2>1, <2>2 DEF Answered
          <5>2. CASE i # 1
            <6>1. results'[i - 1] = results[i] BY <5>2, <2>2, <2>4
            <6> QED BY <6>1, <5>2, <4>2, <2>4 DEF Answered
          <5> QED BY <5>1, <5>2
        <4> QED BY <3>2, <4>1, <4>2 DEF Answered
      <3> QED BY <3>1, <3>2
    <2>7. \A i, j \in 1 .. Len(results') : i # j => results'[i].frame # results'[j].frame
      <3>1. ASSUME NEW i \in 1 .. Len(results'), NEW j \in 1 .. Len(results'), i # j
            PROVE  results'[i].frame # results'[j].frame
        <4>1. i + 1 # j + 1 BY <3>1
        <4> QED BY <2>2, <2>3, <4>1 DEF JobConservation
      <3> QED BY <3>1
    <2>8. /\ \A i \in 1 .. Len(results') : \A r \in received' : results'[i].frame # r.frame
          /\ \A q, r \in received' : q.frame = r.frame => q = r
      BY <2>1, <2>2, <2>3 DEF JobConservation
    <2>9. /\ \A i, j \in 1 .. Len(jobs) : i # j => jobs[i] # jobs[j]
          /\ \A v, w \in Worker : v # w /\ job[v] # NoFrame => job[v] # job[w]
      BY DEF JobConservation
    <2>10. /\ \A f \in Frame : Queued(f)' \/ InHand(f)' \/ Answered(f)' <=> f < sent
           /\ \A f \in Frame : /\ ~ (Queued(f)' /\ InHand(f)') /\ ~ (InHand(f)' /\ Answered(f)')
                               /\ ~ (Queued(f)' /\ Answered(f)')
      BY <2>5, <2>6 DEF JobConservation
    <2> QED BY <2>1, <2>7, <2>8, <2>9, <2>10 DEF JobConservation
  <1>6. ASSUME NEW w \in Worker, WorkerStep(w)
        PROVE  \/ Take(w) \/ SendResult(w) \/ SendCancelled(w)
               \/ UNCHANGED <<sent, jobs, job, results, received>>
    BY <1>6 DEF WorkerStep, RangeEnds, CheckContext, WorkSucceeds, WorkFails, Settle
  <1>7. \/ SubmitSend \/ Receive
        \/ \E w \in Worker : WorkerStep(w)
        \/ UNCHANGED <<sent, jobs, job, results, received>>
    BY DEF Next, SubmitStep, SubmitCount, SubmitReturns, Close, CloseResults, Cancel, vars
  <1> QED BY <1>1, <1>2, <1>3, <1>4, <1>5, <1>6, <1>7

BaseInv == TypeOK /\ HandProtocol /\ JobConservation

LEMMA BaseInvariance == Spec => []BaseInv
  <1>1. Init => BaseInv BY InitType, InitHand, InitConservation DEF BaseInv
  <1>2. BaseInv /\ [Next]_vars => BaseInv' BY NextType, ConservationStep DEF BaseInv
  <1> QED BY <1>1, <1>2, PTL DEF Spec

\* Every variable keeps its type, and no channel exceeds its capacity.
THEOREM TypeCorrect == Spec => []TypeOK
  <1>1. BaseInv => TypeOK BY DEF BaseInv
  <1> QED BY <1>1, BaseInvariance, PTL

\* For every number of workers and jobs: no job is lost on its way to the caller, and
\* none is done twice.
THEOREM JobsConserved == Spec => []JobConservation
  <1>1. BaseInv => JobConservation BY DEF BaseInv
  <1> QED BY <1>1, BaseInvariance, PTL

-----------------------------------------------------------------------------
(* The end of a run.                                                       *)

\* The order in which the run ends: the submitter, the workers, the channel of the
\* results.  What only a cancelled worker does is a sign of the cancellation.
Ends ==
  /\ submitter \in {"close", "done"} /\ ~ ctxDone => sent = Total
  /\ jobsClosed => submitter = "done"
  /\ \A w \in Worker :
       /\ wpc[w] = "returned" /\ ~ ctxDone => jobs = << >> /\ jobsClosed
       /\ wpc[w] = "quit" => ctxDone
  /\ resultsClosed => \A w \in Worker : wpc[w] = "returned"
  /\ \A f \in Frame : GivenUp(f) => ctxDone

LEMMA InitEnds == Init => Ends
  BY DEF Init, Ends, GivenUp

\* Who gave a job up: nobody but a cancelled worker that answers with that.
LEMMA GivenUpStep ==
  ASSUME BaseInv, [Next]_vars
  PROVE  /\ \A w \in Worker :
              SendCancelled(w) => \A f : GivenUp(f)' <=> GivenUp(f) \/ f = job[w]
         /\ \/ \A f : GivenUp(f)' <=> GivenUp(f)
            \/ \E w \in Worker : SendCancelled(w)
  <1> USE DEF submitVars, jobsVars, workerVars, statsVars, resultsVars
  <1>0. /\ results \in Seq(Result) /\ Len(results) \in Nat
        /\ \A w \in Worker : err[w] \in {"none", "failed"}
    BY DEF BaseInv, TypeOK
  <1>1. ASSUME UNCHANGED <<results, received>> PROVE \A f : GivenUp(f)' <=> GivenUp(f)
    BY <1>1 DEF GivenUp
  <1>2. ASSUME NEW w \in Worker, NEW e \in {"none", "failed", "cancelled"},
               results' = Append(results, [frame |-> job[w], err |-> e]),
               job[w] \in Frame, UNCHANGED received
        PROVE  \A f : GivenUp(f)' <=> GivenUp(f) \/ (f = job[w] /\ e = "cancelled")
    <2>1. /\ Len(results') = Len(results) + 1
          /\ results'[Len(results) + 1] = [frame |-> job[w], err |-> e]
          /\ \A i \in 1 .. Len(results) : results'[i] = results[i]
      <3> DEFINE m == [frame |-> job[w], err |-> e]
      <3>1. m \in Result BY <1>2, ResultType
      <3>2. results' = Append(results, m) BY <1>2
      <3> HIDE DEF m
      <3>3. /\ Len(results') = Len(results) + 1
            /\ results'[Len(results) + 1] = m
            /\ \A i \in 1 .. Len(results) : results'[i] = results[i]
        BY <1>0, <3>1, <3>2, Channel
      <3> QED BY <3>3 DEF m
    <2>2. /\ \A i \in 1 .. Len(results') : i \in 1 .. Len(results) \/ i = Len(results) + 1
          /\ Len(results) + 1 \in 1 .. Len(results')
          /\ \A i \in 1 .. Len(results) : i \in 1 .. Len(results')
      BY <1>0, <2>1
    <2>3. \A f : [frame |-> job[w], err |-> e] = [frame |-> f, err |-> "cancelled"]
                   <=> f = job[w] /\ e = "cancelled"
      OBVIOUS
    <2> QED BY <1>2, <2>1, <2>2, <2>3 DEF GivenUp
  <1>3. ASSUME NEW w \in Worker, SendResult(w) PROVE \A f : GivenUp(f)' <=> GivenUp(f)
    <2>1. /\ results' = Append(results, [frame |-> job[w], err |-> err[w]])
          /\ UNCHANGED received /\ job[w] \in Frame
          /\ err[w] \in {"none", "failed", "cancelled"} /\ err[w] # "cancelled"
      BY <1>3, <1>0 DEF SendResult, BaseInv, HandProtocol, TypeOK
    <2> QED BY <1>2, <2>1
  <1>4. ASSUME NEW w \in Worker, SendCancelled(w)
        PROVE  \A f : GivenUp(f)' <=> GivenUp(f) \/ f = job[w]
    <2>1. /\ results' = Append(results, [frame |-> job[w], err |-> "cancelled"])
          /\ UNCHANGED received /\ job[w] \in Frame
      BY <1>4, <1>0 DEF SendCancelled, BaseInv, HandProtocol, TypeOK
    <2> QED BY <1>2, <2>1
  <1>5. ASSUME Receive PROVE \A f : GivenUp(f)' <=> GivenUp(f)
    <2>1. /\ results # << >> /\ results' = Tail(results)
          /\ received' = received \cup {Head(results)}
      BY <1>5 DEF Receive
    <2>2. /\ Len(results') = Len(results) - 1 /\ Head(results) = results[1]
          /\ 1 \in 1 .. Len(results)
          /\ \A i \in 1 .. Len(results') : results'[i] = results[i + 1]
      BY <1>0, <2>1, ChannelTail
    <2>3. \A i \in 1 .. Len(results') : i + 1 \in 1 .. Len(results) BY <1>0, <2>2
    <2>4. \A i \in 1 .. Len(results) :
            i = 1 \/ (i - 1 \in 1 .. Len(results') /\ (i - 1) + 1 = i)
      BY <1>0, <2>2
    <2>5. ASSUME NEW m
          PROVE  (\E i \in 1 .. Len(results') : results'[i] = m) \/ m \in received'
                   <=> (\E i \in 1 .. Len(results) : results[i] = m) \/ m \in received
      <3>1. ASSUME NEW i \in 1 .. Len(results), results[i] = m
            PROVE  (\E j \in 1 .. Len(results') : results'[j] = m) \/ m \in received'
        <4>1. CASE i = 1 BY <4>1, <3>1, <2>1, <2>2
        <4>2. CASE i # 1
          <5>1. i - 1 \in 1 .. Len(results') /\ results'[i - 1] = results[i]
            BY <4>2, <2>2, <2>4
          <5> QED BY <5>1, <3>1
        <4> QED BY <4>1, <4>2
      <3>2. ASSUME NEW i \in 1 .. Len(results'), results'[i] = m
            PROVE  \E j \in 1 .. Len(results) : results[j] = m
        BY <3>2, <2>2, <2>3
      <3> QED BY <3>1, <3>2, <2>1, <2>2
    <2> QED BY <2>5 DEF GivenUp
  <1>6. ASSUME NEW w \in Worker, WorkerStep(w)
        PROVE  SendResult(w) \/ SendCancelled(w) \/ UNCHANGED <<results, received>>
    BY <1>6 DEF WorkerStep, Take, RangeEnds, CheckContext, WorkSucceeds, WorkFails, Settle
  <1>7. \/ Receive \/ \E w \in Worker : WorkerStep(w)
        \/ UNCHANGED <<results, received>>
    BY DEF Next, SubmitStep, SubmitSend, SubmitCount, SubmitReturns, Close, CloseResults,
           Cancel, vars
  <1> QED BY <1>1, <1>3, <1>4, <1>5, <1>6, <1>7

LEMMA EndsStep ==
  ASSUME BaseInv, Ends, [Next]_vars
  PROVE  Ends'
  <1> USE DEF submitVars, jobsVars, workerVars, statsVars, resultsVars
  <1>0. TypeOK /\ HandProtocol BY DEF BaseInv
  <1>1. ctxDone => ctxDone'
    BY <1>0 DEF Next, SubmitStep, SubmitSend, SubmitCount, SubmitReturns, Close, WorkerStep,
           Take, RangeEnds, CheckContext, WorkSucceeds, WorkFails, Settle, SendResult,
           SendCancelled, CloseResults, Receive, Cancel, vars
  <1>2. \A f \in Frame : GivenUp(f)' => ctxDone'
    <2>1. \A w \in Worker : SendCancelled(w) => ctxDone BY DEF SendCancelled, Ends
    <2> QED BY <2>1, <1>1, GivenUpStep DEF Ends
  <1> DEFINE E == /\ submitter \in {"close", "done"} /\ ~ ctxDone => sent = Total
                  /\ jobsClosed => submitter = "done"
                  /\ \A w \in Worker :
                       /\ wpc[w] = "returned" /\ ~ ctxDone => jobs = << >> /\ jobsClosed
                       /\ wpc[w] = "quit" => ctxDone
                  /\ resultsClosed => \A w \in Worker : wpc[w] = "returned"
  <1>3. E'
    <2>0. E BY DEF Ends
    <2> USE <1>0
    <2>1. CASE SubmitSend BY <2>0, <2>1 DEF SubmitSend
    <2>2. CASE SubmitCount BY <2>0, <2>2 DEF SubmitCount
    <2>3. CASE SubmitReturns BY <2>0, <2>3 DEF SubmitReturns
    <2>4. CASE Close BY <2>0, <2>4 DEF Close
    <2>5. ASSUME NEW w \in Worker, WorkerStep(w) PROVE E'
      <3> USE DEF TypeOK
      <3>1. CASE Take(w) BY <2>0, <3>1 DEF Take
      <3>2. CASE RangeEnds(w) BY <2>0, <3>2 DEF RangeEnds
      <3>3. CASE CheckContext(w) BY <2>0, <3>3 DEF CheckContext
      <3>4. CASE WorkSucceeds(w) BY <2>0, <3>4 DEF WorkSucceeds
      <3>5. CASE WorkFails(w) BY <2>0, <3>5 DEF WorkFails
      <3>6. CASE Settle(w) BY <2>0, <3>6 DEF Settle
      <3>7. CASE SendResult(w) BY <2>0, <3>7 DEF SendResult
      <3>8. CASE SendCancelled(w) BY <2>0, <3>8 DEF SendCancelled
      <3> QED BY <2>5, <3>1, <3>2, <3>3, <3>4, <3>5, <3>6, <3>7, <3>8 DEF WorkerStep
    <2>6. CASE CloseResults BY <2>0, <2>6 DEF CloseResults
    <2>7. CASE Receive BY <2>0, <2>7 DEF Receive
    <2>8. CASE Cancel BY <2>0, <2>8 DEF Cancel
    <2>9. CASE UNCHANGED vars BY <2>0, <2>9 DEF vars
    <2> QED BY <2>1, <2>2, <2>3, <2>4, <2>5, <2>6, <2>7, <2>8, <2>9 DEF Next, SubmitStep
  <1> QED BY <1>2, <1>3 DEF Ends

-----------------------------------------------------------------------------
(* The counter of pending jobs.                                            *)

LEMMA UnsettledFinite == IsFiniteSet(Unsettled) /\ IsFiniteSet(Unsettled')
  <1>1. IsFiniteSet(Frame) BY SchedulerAssumption, FS_Interval DEF Frame
  <1>2. Unsettled \subseteq Frame BY DEF Unsettled
  <1>3. Unsettled' \subseteq Frame BY DEF Unsettled, Frame
  <1> QED BY <1>1, <1>2, <1>3, FS_Subset

\* One more or one less unsettled job.
LEMMA CountOne ==
  ASSUME NEW f
  PROVE  /\ Unsettled' = Unsettled \cup {f} /\ f \notin Unsettled =>
              Cardinality(Unsettled') = Cardinality(Unsettled) + 1
         /\ Unsettled' = Unsettled \ {f} /\ f \in Unsettled =>
              Cardinality(Unsettled') = Cardinality(Unsettled) - 1
         /\ Cardinality(Unsettled) \in Nat /\ Cardinality(Unsettled') \in Nat
  BY UnsettledFinite, FS_AddElement, FS_RemoveElement, FS_CardinalityType

LEMMA InitPending == Init => PendingCountsJobs
  <1> SUFFICES ASSUME Init PROVE PendingCountsJobs OBVIOUS
  <1>1. Unsettled = {}
    <2>1. \A f \in Frame : ~ Queued(f) /\ ~ GivenUp(f) /\ \A w \in Worker : job[w] # f
      BY SchedulerAssumption DEF Init, Queued, GivenUp
    <2> QED BY <2>1 DEF Unsettled
  <1>2. Cardinality(Unsettled) = 0 BY <1>1, FS_EmptySet
  <1> QED BY <1>2 DEF Init, PendingCountsJobs

\* A step moves a job into the unsettled ones when Submit sends it, and out of them
\* when its worker lowers the counter; what a worker takes, answers or gives up and
\* what the caller receives stays on its side.
LEMMA PendingStep ==
  ASSUME BaseInv, PendingCountsJobs, [Next]_vars
  PROVE  PendingCountsJobs'
  <1> USE DEF submitVars, jobsVars, workerVars, statsVars, resultsVars
  <1> DEFINE Busy(f) == \E w \in Worker : job[w] = f /\ wpc[w] # "send"
  <1>0. /\ TypeOK /\ HandProtocol /\ JobConservation /\ pending \in Int
        /\ Cardinality(Unsettled) \in Nat
    BY CountOne DEF BaseInv, TypeOK
  <1>1. /\ Unsettled = {f \in Frame : Queued(f) \/ Busy(f) \/ GivenUp(f)}
        /\ Unsettled' = {f \in Frame : Queued(f)' \/ Busy(f)' \/ GivenUp(f)'}
    BY DEF Unsettled, Frame
  <1>2. ASSUME pending' = pending, submitter' = "count" <=> submitter = "count",
               \A f \in Frame : Queued(f)' \/ Busy(f)' \/ GivenUp(f)'
                                  <=> Queued(f) \/ Busy(f) \/ GivenUp(f)
        PROVE  PendingCountsJobs'
    <2>1. Unsettled' = Unsettled BY <1>1, <1>2
    <2> QED BY <2>1, <1>2 DEF PendingCountsJobs
  <1>3. UNCHANGED jobs => \A f : Queued(f)' <=> Queued(f) BY DEF Queued
  <1>4. /\ \A w \in Worker :
             SendCancelled(w) => \A f : GivenUp(f)' <=> GivenUp(f) \/ f = job[w]
        /\ \/ \A f : GivenUp(f)' <=> GivenUp(f)
           \/ \E w \in Worker : SendCancelled(w)
    BY GivenUpStep
  <1>5. CASE SubmitSend
    <2>1. /\ \A f : Queued(f)' <=> Queued(f) \/ f = sent
          /\ sent \in Frame
      BY <1>0, <1>5, SubmitEffect
    <2>2. /\ \A f : (Busy(f)' <=> Busy(f)) /\ (GivenUp(f)' <=> GivenUp(f))
          /\ pending' = pending /\ submitter = "send" /\ submitter' = "count"
      BY <1>5 DEF SubmitSend, GivenUp
    <2>3. ~ Queued(sent) /\ ~ InHand(sent) /\ ~ Answered(sent)
      <3>1. ~ (sent < sent) BY <1>0 DEF TypeOK
      <3> QED BY <3>1, <2>1, <1>0 DEF JobConservation
    <2>4. ~ Busy(sent) /\ ~ GivenUp(sent)
      BY <2>3 DEF InHand, Answered, GivenUp
    <2>5. Unsettled' = Unsettled \cup {sent} /\ sent \notin Unsettled
      <3>1. \A f \in Frame : Queued(f)' \/ Busy(f)' \/ GivenUp(f)'
                               <=> Queued(f) \/ Busy(f) \/ GivenUp(f) \/ f = sent
        BY <2>1, <2>2
      <3> HIDE DEF Busy
      <3> QED BY <1>1, <2>1, <2>3, <2>4, <3>1
    <2>6. Cardinality(Unsettled') = Cardinality(Unsettled) + 1 BY <2>5, CountOne
    <2> QED BY <2>2, <2>6, <1>0 DEF PendingCountsJobs
  <1>6. CASE SubmitCount
    <2>1. /\ \A f : (Busy(f)' <=> Busy(f)) /\ (GivenUp(f)' <=> GivenUp(f))
          /\ pending' = pending + 1 /\ submitter = "count" /\ submitter' = "send"
      BY <1>6 DEF SubmitCount, GivenUp
    <2>2. Unsettled' = Unsettled BY <1>1, <1>3, <1>6, <2>1 DEF SubmitCount
    <2> QED BY <2>1, <2>2, <1>0 DEF PendingCountsJobs
  <1>7. ASSUME NEW w \in Worker, Take(w) PROVE PendingCountsJobs'
    <2>1. /\ jobs[1] \in Frame /\ Queued(jobs[1]) /\ job[w] = NoFrame
          /\ \A v \in Worker : job'[v] = IF v = w THEN jobs[1] ELSE job[v]
          /\ \A f : Queued(f)' <=> Queued(f) /\ f # jobs[1]
      BY <1>0, <1>7, TakeEffect
    <2>2. /\ wpc'[w] = "check" /\ \A v \in Worker : v # w => wpc'[v] = wpc[v]
          /\ UNCHANGED <<pending, submitter>>
          /\ \A f : GivenUp(f)' <=> GivenUp(f)
      BY <1>7, <1>0 DEF Take, TypeOK, GivenUp
    <2>3. \A f \in Frame : Busy(f)' <=> Busy(f) \/ f = jobs[1]
      BY <2>1, <2>2, SchedulerAssumption
    <2> QED BY <1>2, <2>1, <2>2, <2>3
  <1>8. ASSUME NEW w \in Worker, Settle(w) PROVE PendingCountsJobs'
    <2>1. /\ wpc[w] = "settle" /\ wpc'[w] = "send" /\ job[w] \in Frame
          /\ \A v \in Worker : v # w => wpc'[v] = wpc[v]
          /\ UNCHANGED <<job, submitter>> /\ pending' = pending - 1
      BY <1>8, <1>0 DEF Settle, TypeOK, HandProtocol
    <2>2. \A f : (Queued(f)' <=> Queued(f)) /\ (GivenUp(f)' <=> GivenUp(f))
      BY <1>8 DEF Settle, Queued, GivenUp
    <2>3. \A v \in Worker : v # w => job[v] # job[w]
      BY <2>1, <1>0, SchedulerAssumption DEF JobConservation
    <2>4. \A f \in Frame : Busy(f)' <=> Busy(f) /\ f # job[w] BY <2>1, <2>3
    <2>5. Busy(job[w]) /\ ~ Queued(job[w]) /\ ~ GivenUp(job[w])
      BY <2>1, <1>0 DEF JobConservation, InHand, Answered, GivenUp
    <2>6. Unsettled' = Unsettled \ {job[w]} /\ job[w] \in Unsettled
      BY <1>1, <2>1, <2>2, <2>4, <2>5
    <2>7. Cardinality(Unsettled') = Cardinality(Unsettled) - 1 BY <2>6, CountOne
    <2> QED BY <2>1, <2>7, <1>0 DEF PendingCountsJobs
  <1>9. ASSUME NEW w \in Worker, SendResult(w) PROVE PendingCountsJobs'
    <2>1. /\ wpc[w] = "send" /\ job' = [job EXCEPT ![w] = NoFrame]
          /\ \A v \in Worker : v # w => wpc'[v] = wpc[v]
          /\ UNCHANGED <<jobs, pending, submitter>>
      BY <1>9, <1>0 DEF SendResult, TypeOK
    <2>2. \A f : GivenUp(f)' <=> GivenUp(f)
      <3>1. ASSUME NEW v \in Worker PROVE ~ SendCancelled(v)
        <4>1. SUFFICES ASSUME SendCancelled(v) PROVE FALSE OBVIOUS
        <4>2. wpc[v] = "quit" /\ wpc'[v] = "returned" /\ wpc'[w] = "range"
          BY <4>1, <1>9, <1>0 DEF SendCancelled, SendResult, TypeOK
        <4> QED BY <4>2, <2>1
      <3> QED BY <3>1, <1>4
    <2>3. \A f \in Frame : Busy(f)' <=> Busy(f)
      BY <2>1, <1>0, SchedulerAssumption DEF TypeOK
    <2> QED BY <1>2, <1>3, <2>1, <2>2, <2>3
  <1>10. ASSUME NEW w \in Worker, SendCancelled(w) PROVE PendingCountsJobs'
    <2>1. /\ wpc[w] = "quit" /\ job' = [job EXCEPT ![w] = NoFrame] /\ job[w] \in Frame
          /\ \A v \in Worker : v # w => wpc'[v] = wpc[v]
          /\ UNCHANGED <<jobs, pending, submitter>>
      BY <1>10, <1>0 DEF SendCancelled, TypeOK, HandProtocol
    <2>2. \A f : GivenUp(f)' <=> GivenUp(f) \/ f = job[w] BY <1>4, <1>10
    <2>3. \A v \in Worker : v # w => job[v] # job[w]
      BY <2>1, <1>0, SchedulerAssumption DEF JobConservation
    <2>4. \A f \in Frame : Busy(f)' <=> Busy(f) /\ f # job[w]
      BY <2>1, <2>3, <1>0, SchedulerAssumption DEF TypeOK
    <2>5. Busy(job[w]) BY <2>1
    <2> QED BY <1>2, <1>3, <2>1, <2>2, <2>4, <2>5
  <1>11. ASSUME UNCHANGED <<jobs, job, pending>>, submitter' = "count" <=> submitter = "count",
                \A w \in Worker : wpc'[w] = "send" <=> wpc[w] = "send",
                \A f : GivenUp(f)' <=> GivenUp(f)
         PROVE  PendingCountsJobs'
    <2>1. \A f : Busy(f)' <=> Busy(f) BY <1>11
    <2> QED BY <1>2, <1>3, <1>11, <2>1
  <1>12. CASE Receive
    <2>1. \A f : GivenUp(f)' <=> GivenUp(f)
      <3>1. ASSUME NEW v \in Worker PROVE ~ SendCancelled(v)
        <4>1. SUFFICES ASSUME SendCancelled(v) PROVE FALSE OBVIOUS
        <4>2. wpc[v] = "quit" /\ wpc'[v] = "returned" /\ wpc' = wpc
          BY <4>1, <1>12, <1>0 DEF SendCancelled, Receive, TypeOK
        <4> QED BY <4>2
      <3> QED BY <3>1, <1>4
    <2> QED BY <2>1, <1>11, <1>12 DEF Receive
  <1>13. ASSUME NEW w \in Worker,
                RangeEnds(w) \/ CheckContext(w) \/ WorkSucceeds(w) \/ WorkFails(w)
         PROVE  PendingCountsJobs'
    <2>1. /\ UNCHANGED <<jobs, job, pending, submitter, results, received>>
          /\ \A v \in Worker : wpc'[v] = "send" <=> wpc[v] = "send"
      BY <1>13, <1>0 DEF RangeEnds, CheckContext, WorkSucceeds, WorkFails, TypeOK
    <2>2. \A f : GivenUp(f)' <=> GivenUp(f) BY <2>1 DEF GivenUp
    <2> QED BY <2>1, <2>2, <1>11
  <1>14. CASE SubmitReturns \/ Close \/ CloseResults \/ Cancel \/ UNCHANGED vars
    <2>1. /\ UNCHANGED <<jobs, job, wpc, pending, results, received>>
          /\ submitter' = "count" <=> submitter = "count"
      BY <1>14 DEF SubmitReturns, Close, CloseResults, Cancel, vars
    <2>2. \A f : GivenUp(f)' <=> GivenUp(f) BY <2>1 DEF GivenUp
    <2> QED BY <2>1, <2>2, <1>11
  <1> QED BY <1>5, <1>6, <1>7, <1>8, <1>9, <1>10, <1>12, <1>13, <1>14
          DEF Next, SubmitStep, WorkerStep

IInv == BaseInv /\ Ends /\ PendingCountsJobs

LEMMA Invariance == Spec => []IInv
  <1>1. Init => Ends /\ PendingCountsJobs BY InitEnds, InitPending
  <1>2. BaseInv /\ Ends /\ PendingCountsJobs /\ [Next]_vars
          => Ends' /\ PendingCountsJobs'
    BY EndsStep, PendingStep
  <1>3. BaseInv /\ Ends /\ PendingCountsJobs <=> IInv BY DEF IInv
  <1> QED BY <1>1, <1>2, <1>3, BaseInvariance, PTL DEF Spec

\* For every number of workers and jobs: Stats' pending is the number of jobs that
\* have no outcome, but for the job that Submit has sent and not counted.
THEOREM PendingAlwaysCounts == Spec => []PendingCountsJobs
  <1>1. IInv => PendingCountsJobs BY DEF IInv
  <1> QED BY <1>1, Invariance, PTL

\* A caller that has ranged over the results of a run that was not cancelled has a
\* result for every job, and nothing is pending.
THEOREM ResultsAlwaysComplete == Spec => []ResultsComplete
  <1>1. ASSUME IInv PROVE ResultsComplete
    <2>1. SUFFICES ASSUME resultsClosed, ~ ctxDone
                   PROVE  sent = Total /\ (\A f \in Frame : Answered(f)) /\ pending = 0
      BY DEF ResultsComplete
    <2>2. TypeOK /\ HandProtocol /\ JobConservation /\ Ends /\ PendingCountsJobs
      BY <1>1 DEF IInv, BaseInv
    <2>3. \A w \in Worker : wpc[w] = "returned" /\ job[w] = NoFrame
      BY <2>1, <2>2 DEF Ends, HandProtocol
    <2>4. jobs = << >> /\ submitter = "done" /\ sent = Total
      BY <2>1, <2>2, <2>3, SchedulerAssumption DEF Ends
    <2>5. \A f \in Frame : ~ Queued(f) /\ ~ InHand(f) /\ ~ GivenUp(f)
      BY <2>1, <2>2, <2>3, <2>4, SchedulerAssumption DEF Queued, InHand, Ends
    <2>6. \A f \in Frame : f < sent BY <2>4, SchedulerAssumption DEF Frame
    <2>7. \A f \in Frame : Answered(f) BY <2>2, <2>5, <2>6 DEF JobConservation
    <2>8. Unsettled = {} BY <2>5 DEF Unsettled, InHand
    <2>9. Cardinality(Unsettled) = 0 BY <2>8, FS_EmptySet
    <2>10. pending = 0 BY <2>2, <2>4, <2>9 DEF PendingCountsJobs
    <2> QED BY <2>4, <2>7, <2>10
  <1> QED BY <1>1, Invariance, PTL

-----------------------------------------------------------------------------
(* A run of the scheduler has finitely many steps.                         *)

\* Submit counts a job after it has sent it, and Close closes the channel.
SubmitProtocol ==
  /\ jobsClosed <=> submitter = "done"
  /\ submitter = "count" => sent > 0

LEMMA AlwaysSubmitProtocol == Spec => []SubmitProtocol
  <1>1. Init => SubmitProtocol BY DEF Init, SubmitProtocol
  <1>2. ASSUME TypeOK, SubmitProtocol, [Next]_vars PROVE SubmitProtocol'
    <2> USE DEF SubmitProtocol, submitVars, jobsVars, workerVars, statsVars, resultsVars
    <2>1. CASE SubmitSend
      <3>1. sent \in Int /\ sent >= 0 BY <1>2, SchedulerAssumption DEF TypeOK
      <3> QED BY <1>2, <2>1, <3>1 DEF SubmitSend
    <2>2. CASE SubmitCount \/ SubmitReturns \/ Close
      BY <1>2, <2>2 DEF SubmitCount, SubmitReturns, Close, TypeOK
    <2>3. CASE UNCHANGED <<jobsClosed, submitVars>> BY <1>2, <2>3
    <2>4. SubmitStep \/ UNCHANGED <<jobsClosed, submitVars>>
      BY <1>2 DEF Next, WorkerStep, Take, RangeEnds, CheckContext, WorkSucceeds, WorkFails,
                  Settle, SendResult, SendCancelled, CloseResults, Receive, Cancel, vars
    <2> QED BY <2>1, <2>2, <2>3, <2>4 DEF SubmitStep
  <1>3. BaseInv => TypeOK BY DEF BaseInv
  <1> QED BY <1>1, <1>2, <1>3, BaseInvariance, PTL DEF Spec

\* What happens to a job, and which of it has happened to the job of frame f.
Milestone ==
  {"sent", "counted", "taken", "checked", "worked", "settled", "answered", "received"}

HeldAt(f, pc) == \E w \in Worker : job[w] = f /\ wpc[w] = pc

Reached(f, m) ==
  \/ m = "sent"     /\ f < sent
  \/ m = "counted"  /\ f < sent /\ ~ (submitter = "count" /\ f = sent - 1)
  \/ m = "taken"    /\ f < sent /\ ~ Queued(f)
  \/ m = "checked"  /\ f < sent /\ ~ Queued(f) /\ ~ HeldAt(f, "check")
  \/ m = "worked"   /\ f < sent /\ ~ Queued(f) /\ ~ HeldAt(f, "check") /\ ~ HeldAt(f, "work")
  \/ m = "settled"  /\ f < sent /\ ~ Queued(f) /\ ~ HeldAt(f, "check") /\ ~ HeldAt(f, "work")
                    /\ ~ HeldAt(f, "settle")
  \/ m = "answered" /\ Answered(f)
  \/ m = "received" /\ \E r \in received : r.frame = f

\* What is left: of the jobs, of the workers, of the submitter and of the rest.
JobsLeft == {x \in Frame \X Milestone : ~ Reached(x[1], x[2])}
WorkersLeft == {w \in Worker : wpc[w] # "returned"}
OthersLeft ==
  (CASE submitter \in {"send", "count"} -> 2 [] submitter = "close" -> 1 [] submitter = "done" -> 0)
    + (IF resultsClosed THEN 0 ELSE 1)
    + (IF ctxDone THEN 0 ELSE 1)

\* How many steps the scheduler, its caller and the context can still take, at most.
StepsLeft == Cardinality(JobsLeft) + Cardinality(WorkersLeft) + OthersLeft

\* A finite set that loses elements, and gets none, gets smaller.
LEMMA Shrinks ==
  ASSUME NEW S, IsFiniteSet(S), NEW T, T \subseteq S
  PROVE  /\ Cardinality(S) \in Nat /\ Cardinality(T) \in Nat
         /\ Cardinality(T) <= Cardinality(S)
         /\ T # S => Cardinality(T) < Cardinality(S)
  <1>1. /\ IsFiniteSet(T) /\ Cardinality(T) <= Cardinality(S)
        /\ T # S => Cardinality(T) # Cardinality(S)
    BY FS_Subset
  <1> QED BY <1>1, FS_CardinalityType

LEMMA LeftFinite ==
  ASSUME TypeOK
  PROVE  /\ IsFiniteSet(JobsLeft) /\ IsFiniteSet(WorkersLeft)
         /\ OthersLeft \in Nat
  <1>1. IsFiniteSet(Frame)
    <2>1. 0 \in Int /\ Total - 1 \in Int BY SchedulerAssumption
    <2> QED BY <2>1, FS_Interval DEF Frame
  <1>2. IsFiniteSet(Milestone)
    <2>1. Milestone = {"sent"} \cup {"counted"} \cup {"taken"} \cup {"checked"} \cup {"worked"}
                        \cup {"settled"} \cup {"answered"} \cup {"received"}
      BY DEF Milestone
    <2> QED BY <2>1, FS_Singleton, FS_Union
  <1>3. IsFiniteSet(Frame \X Milestone) BY <1>1, <1>2, FS_Product
  <1>4. IsFiniteSet(JobsLeft) BY <1>3, FS_Subset DEF JobsLeft
  <1>5. IsFiniteSet(WorkersLeft) BY SchedulerAssumption, FS_Subset DEF WorkersLeft
  <1>6. OthersLeft \in Nat BY DEF TypeOK, OthersLeft
  <1> QED BY <1>4, <1>5, <1>6

\* What a step does to the jobs' milestones suffices: none is lost, and one is new or
\* one of the others has less left.
Progress ==
  /\ \A f \in Frame, m \in Milestone : Reached(f, m) => Reached(f, m)'
  /\ \A w \in Worker : wpc[w] = "returned" => wpc'[w] = "returned"
  /\ OthersLeft' <= OthersLeft
  /\ \/ \E f \in Frame, m \in Milestone : ~ Reached(f, m) /\ Reached(f, m)'
     \/ \E w \in Worker : wpc[w] # "returned" /\ wpc'[w] = "returned"
     \/ OthersLeft' < OthersLeft

LEMMA ProgressCounts ==
  ASSUME TypeOK, TypeOK', Progress
  PROVE  StepsLeft' < StepsLeft
  <1>1. IsFiniteSet(JobsLeft) /\ IsFiniteSet(WorkersLeft) /\ OthersLeft \in Nat
    BY LeftFinite
  <1>2. OthersLeft' \in Nat BY DEF TypeOK, OthersLeft
  <1>3. JobsLeft' = {x \in Frame \X Milestone : ~ Reached(x[1], x[2])'}
    BY DEF JobsLeft, Frame, Milestone
  <1>4. JobsLeft' \subseteq JobsLeft
    <2> HIDE DEF Milestone, Frame
    <2> QED BY <1>3 DEF JobsLeft, Progress
  <1>5. WorkersLeft' \subseteq WorkersLeft BY DEF WorkersLeft, Progress
  <1>6. ASSUME NEW f \in Frame, NEW m \in Milestone, ~ Reached(f, m), Reached(f, m)'
        PROVE  JobsLeft' # JobsLeft
    <2> HIDE DEF Milestone, Frame, Reached
    <2>1. <<f, m>> \in JobsLeft BY <1>6 DEF JobsLeft
    <2>2. <<f, m>> \notin JobsLeft' BY <1>3, <1>6
    <2> QED BY <2>1, <2>2
  <1>7. ASSUME NEW w \in Worker, wpc[w] # "returned", wpc'[w] = "returned"
        PROVE  WorkersLeft' # WorkersLeft
    BY <1>7 DEF WorkersLeft
  <1>8. JobsLeft' # JobsLeft \/ WorkersLeft' # WorkersLeft \/ OthersLeft' < OthersLeft
    BY <1>6, <1>7 DEF Progress
  <1>9. OthersLeft' <= OthersLeft BY DEF Progress
  <1>10. /\ Cardinality(JobsLeft) \in Nat /\ Cardinality(JobsLeft') \in Nat
         /\ Cardinality(JobsLeft') <= Cardinality(JobsLeft)
         /\ JobsLeft' # JobsLeft => Cardinality(JobsLeft') < Cardinality(JobsLeft)
    BY <1>1, <1>4, Shrinks
  <1>11. /\ Cardinality(WorkersLeft) \in Nat /\ Cardinality(WorkersLeft') \in Nat
         /\ Cardinality(WorkersLeft') <= Cardinality(WorkersLeft)
         /\ WorkersLeft' # WorkersLeft => Cardinality(WorkersLeft') < Cardinality(WorkersLeft)
    BY <1>1, <1>5, Shrinks
  <1>12. StepsLeft' = Cardinality(JobsLeft') + Cardinality(WorkersLeft') + OthersLeft'
    BY DEF StepsLeft
  <1> HIDE DEF JobsLeft, WorkersLeft, OthersLeft
  <1> QED BY <1>1, <1>2, <1>8, <1>9, <1>10, <1>11, <1>12 DEF StepsLeft

\* A worker's step on the job in its hand, which stays there: the milestone that it
\* has reached is new.
LEMMA WorkProgress ==
  ASSUME BaseInv, NEW w \in Worker,
         CheckContext(w) \/ WorkSucceeds(w) \/ WorkFails(w) \/ Settle(w)
  PROVE  Progress
  <1> USE DEF submitVars, jobsVars, workerVars, statsVars, resultsVars
  <1>0. TypeOK /\ HandProtocol /\ JobConservation BY DEF BaseInv
  <1>1. /\ UNCHANGED <<submitter, sent, jobs, job, results, received, resultsClosed, ctxDone>>
        /\ \A v \in Worker : v # w => wpc'[v] = wpc[v]
        /\ \/ wpc[w] = "check" /\ wpc'[w] \in {"quit", "work"}
           \/ wpc[w] = "work" /\ wpc'[w] = "settle"
           \/ wpc[w] = "settle" /\ wpc'[w] = "send"
    BY <1>0 DEF CheckContext, WorkSucceeds, WorkFails, Settle, TypeOK
  <1>b. PICK f0 \in Frame : f0 = job[w] BY <1>0, <1>1 DEF HandProtocol, TypeOK
  <1>2. f0 < sent /\ ~ Queued(f0) /\ \A v \in Worker : v # w => job[v] # f0
    <2>1. job[w] # NoFrame BY <1>0, <1>1 DEF HandProtocol
    <2>2. InHand(f0) BY <1>b DEF InHand
    <2> QED BY <1>0, <1>b, <2>1, <2>2 DEF JobConservation
  <1>3. \A f, pc : f # f0 => (HeldAt(f, pc)' <=> HeldAt(f, pc))
    BY <1>1, <1>b DEF HeldAt
  <1>4. \A pc : /\ HeldAt(f0, pc) <=> wpc[w] = pc
                /\ HeldAt(f0, pc)' <=> wpc'[w] = pc
    BY <1>1, <1>2, <1>b DEF HeldAt
  <1>5. /\ \A f : (Queued(f)' <=> Queued(f)) /\ (Answered(f)' <=> Answered(f))
        /\ OthersLeft' = OthersLeft
    BY <1>1 DEF Queued, Answered, OthersLeft
  <1>6. ASSUME NEW f \in Frame, NEW m \in Milestone, Reached(f, m) PROVE Reached(f, m)'
    <2>1. CASE f # f0 BY <1>1, <1>3, <1>5, <1>6, <2>1 DEF Reached
    <2>2. CASE f = f0 BY <1>1, <1>4, <1>5, <1>6, <2>2 DEF Reached
    <2> QED BY <2>1, <2>2
  <1>7. \E m \in Milestone : ~ Reached(f0, m) /\ Reached(f0, m)'
    <2>1. CASE wpc[w] = "check"
      <3>1. ~ Reached(f0, "checked") /\ Reached(f0, "checked")'
        BY <1>1, <1>2, <1>4, <1>5, <2>1 DEF Reached
      <3> QED BY <3>1 DEF Milestone
    <2>2. CASE wpc[w] = "work"
      <3>1. ~ Reached(f0, "worked") /\ Reached(f0, "worked")'
        BY <1>1, <1>2, <1>4, <1>5, <2>2 DEF Reached
      <3> QED BY <3>1 DEF Milestone
    <2>3. CASE wpc[w] = "settle"
      <3>1. ~ Reached(f0, "settled") /\ Reached(f0, "settled")'
        BY <1>1, <1>2, <1>4, <1>5, <2>3 DEF Reached
      <3> QED BY <3>1 DEF Milestone
    <2> QED BY <1>1, <2>1, <2>2, <2>3
  <1>8. OthersLeft' <= OthersLeft
    BY <1>0, <1>5, LeftFinite
  <1>9. \A v \in Worker : wpc[v] = "returned" => wpc'[v] = "returned" BY <1>1
  <1> QED BY <1>2, <1>6, <1>7, <1>8, <1>9 DEF Progress

\* The result of the job in hand is sent: the job is answered.
LEMMA SendProgress ==
  ASSUME BaseInv, NEW w \in Worker, SendResult(w) \/ SendCancelled(w)
  PROVE  Progress
  <1> USE DEF submitVars, jobsVars, workerVars, statsVars, resultsVars
  <1>0. TypeOK /\ HandProtocol /\ JobConservation BY DEF BaseInv
  <1>1. /\ UNCHANGED <<submitter, sent, jobs, received, resultsClosed, ctxDone>>
        /\ \A v \in Worker : v # w => wpc'[v] = wpc[v] /\ job'[v] = job[v]
        /\ wpc[w] \in {"send", "quit"} /\ job'[w] = NoFrame
    BY <1>0 DEF SendResult, SendCancelled, TypeOK
  <1>b. PICK f0 \in Frame : f0 = job[w] BY <1>0, <1>1 DEF HandProtocol, TypeOK
  <1>2. ~ Answered(f0)
    <2>1. InHand(f0) BY <1>b DEF InHand
    <2> QED BY <1>0, <2>1 DEF JobConservation
  <1>3. PICK e \in {"none", "failed", "cancelled"} :
          results' = Append(results, [frame |-> f0, err |-> e])
    BY <1>0, <1>b DEF SendResult, SendCancelled, TypeOK
  <1>4. \A f \in Frame : \A pc : HeldAt(f, pc)' => HeldAt(f, pc)
    BY <1>1, SchedulerAssumption DEF HeldAt
  <1>5. /\ Len(results) \in Nat /\ Len(results') = Len(results) + 1
        /\ results'[Len(results) + 1] = [frame |-> f0, err |-> e]
        /\ \A i \in 1 .. Len(results) : results'[i] = results[i]
    <2>1. results \in Seq(Result) /\ [frame |-> f0, err |-> e] \in Result
      BY <1>0, <1>2 DEF TypeOK, Result
    <2> QED BY <1>3, <2>1, Channel
  <1>6. Answered(f0)'
    <2>1. Len(results) + 1 \in 1 .. Len(results') /\ results'[Len(results) + 1].frame = f0
      BY <1>5
    <2> QED BY <2>1 DEF Answered
  <1>7. \A f : Answered(f) => Answered(f)'
    <2>1. \A i \in 1 .. Len(results) : i \in 1 .. Len(results') BY <1>5
    <2> QED BY <1>1, <1>5, <2>1 DEF Answered
  <1>8. /\ \A f : Queued(f)' <=> Queued(f)
        /\ OthersLeft' = OthersLeft
    BY <1>1 DEF Queued, OthersLeft
  <1>9. ASSUME NEW f \in Frame, NEW m \in Milestone, Reached(f, m) PROVE Reached(f, m)'
    BY <1>1, <1>4, <1>7, <1>8, <1>9 DEF Reached
  <1>10. "answered" \in Milestone /\ ~ Reached(f0, "answered") /\ Reached(f0, "answered")'
    BY <1>2, <1>6 DEF Reached, Milestone
  <1>11. OthersLeft' <= OthersLeft BY <1>0, <1>8, LeftFinite
  <1>12. \A v \in Worker : wpc[v] = "returned" => wpc'[v] = "returned" BY <1>1
  <1> QED BY <1>2, <1>9, <1>10, <1>11, <1>12 DEF Progress

\* A worker takes a job.
LEMMA TakeProgress ==
  ASSUME BaseInv, NEW w \in Worker, Take(w)
  PROVE  Progress
  <1> USE DEF submitVars, jobsVars, workerVars, statsVars, resultsVars
  <1>0. TypeOK /\ HandProtocol /\ JobConservation BY DEF BaseInv
  <1>1. /\ UNCHANGED <<submitter, sent, results, received, resultsClosed, ctxDone>>
        /\ \A v \in Worker : v # w => wpc'[v] = wpc[v]
        /\ wpc[w] = "range"
    BY <1>0 DEF Take, TypeOK
  <1>2. /\ jobs[1] \in Frame /\ Queued(jobs[1])
        /\ \A v \in Worker : job'[v] = IF v = w THEN jobs[1] ELSE job[v]
        /\ \A f : Queued(f)' <=> Queued(f) /\ f # jobs[1]
    BY <1>0, TakeEffect
  <1>b. PICK f0 \in Frame : f0 = jobs[1] BY <1>2
  <1>3. f0 < sent BY <1>0, <1>2, <1>b DEF JobConservation
  <1>4. \A f, pc : f # f0 /\ HeldAt(f, pc)' => HeldAt(f, pc)
    BY <1>1, <1>2, <1>b DEF HeldAt
  <1>5. /\ \A f : Answered(f)' <=> Answered(f)
        /\ OthersLeft' = OthersLeft
    BY <1>1 DEF Answered, OthersLeft
  <1>6. ASSUME NEW f \in Frame, NEW m \in Milestone, Reached(f, m) PROVE Reached(f, m)'
    <2>1. CASE f # f0 BY <1>1, <1>2, <1>b, <1>4, <1>5, <1>6, <2>1 DEF Reached
    <2>2. CASE f = f0 BY <1>1, <1>2, <1>b, <1>3, <1>5, <1>6, <2>2 DEF Reached
    <2> QED BY <2>1, <2>2
  <1>7. "taken" \in Milestone /\ ~ Reached(f0, "taken") /\ Reached(f0, "taken")'
    BY <1>1, <1>2, <1>b, <1>3 DEF Reached, Milestone
  <1>8. OthersLeft' <= OthersLeft BY <1>0, <1>5, LeftFinite
  <1>9. \A v \in Worker : wpc[v] = "returned" => wpc'[v] = "returned" BY <1>1
  <1> QED BY <1>2, <1>6, <1>7, <1>8, <1>9 DEF Progress

\* The caller takes a result.
LEMMA ReceiveProgress ==
  ASSUME BaseInv, Receive
  PROVE  Progress
  <1> USE DEF submitVars, jobsVars, workerVars, statsVars, resultsVars
  <1>0. TypeOK /\ JobConservation BY DEF BaseInv
  <1>1. /\ UNCHANGED <<submitter, sent, jobs, job, wpc, resultsClosed, ctxDone>>
        /\ results # << >> /\ results' = Tail(results) /\ received' = received \cup {Head(results)}
    BY DEF Receive
  <1>2. /\ Len(results') = Len(results) - 1 /\ Len(results) \in Nat
        /\ Head(results) = results[1] /\ 1 \in 1 .. Len(results) /\ results[1] \in Result
        /\ \A i \in 1 .. Len(results') : results'[i] = results[i + 1]
    BY <1>0, <1>1, ChannelTail DEF TypeOK
  <1>b. PICK f0 \in Frame : f0 = results[1].frame BY <1>2 DEF Result
  <1>3. ~ (\E r \in received : r.frame = f0) BY <1>0, <1>2, <1>b DEF JobConservation
  <1>4. \E r \in received' : r.frame = f0 BY <1>1, <1>2, <1>b
  <1>5. ASSUME NEW f, Answered(f) PROVE Answered(f)'
    <2>1. CASE \E r \in received : r.frame = f BY <1>1, <2>1 DEF Answered
    <2>2. ASSUME NEW i \in 1 .. Len(results), results[i].frame = f PROVE Answered(f)'
      <3>1. CASE i = 1 BY <1>1, <1>2, <2>2, <3>1 DEF Answered
      <3>2. CASE i # 1
        <4>1. i - 1 \in 1 .. Len(results') /\ (i - 1) + 1 = i BY <1>2, <3>2
        <4>2. results'[i - 1] = results[i] BY <1>2, <4>1
        <4> QED BY <2>2, <4>1, <4>2 DEF Answered
      <3> QED BY <3>1, <3>2
    <2> QED BY <1>5, <2>1, <2>2 DEF Answered
  <1>6. /\ \A f : Queued(f)' <=> Queued(f)
        /\ \A f, pc : HeldAt(f, pc)' <=> HeldAt(f, pc)
        /\ OthersLeft' = OthersLeft
    BY <1>1 DEF Queued, HeldAt, OthersLeft
  <1>7. ASSUME NEW f \in Frame, NEW m \in Milestone, Reached(f, m) PROVE Reached(f, m)'
    BY <1>1, <1>5, <1>6, <1>7 DEF Reached
  <1>8. "received" \in Milestone /\ ~ Reached(f0, "received") /\ Reached(f0, "received")'
    BY <1>3, <1>4 DEF Reached, Milestone
  <1>9. OthersLeft' <= OthersLeft BY <1>0, <1>6, LeftFinite
  <1> QED BY <1>1, <1>3, <1>7, <1>8, <1>9 DEF Progress

\* A job is sent, or is counted.
LEMMA SubmitProgress ==
  ASSUME BaseInv, SubmitProtocol, SubmitSend \/ SubmitCount
  PROVE  Progress
  <1> USE DEF submitVars, jobsVars, workerVars, statsVars, resultsVars
  <1>0. /\ TypeOK /\ JobConservation /\ Total \in Nat /\ sent \in 0 .. Total
        /\ \A f \in Frame : f \in Int
    BY SchedulerAssumption DEF BaseInv, TypeOK, Frame
  <1>1. UNCHANGED <<job, wpc, results, received, resultsClosed, ctxDone>>
    BY DEF SubmitSend, SubmitCount
  <1>2. /\ \A f : Answered(f)' <=> Answered(f)
        /\ \A f, pc : HeldAt(f, pc)' <=> HeldAt(f, pc)
    BY <1>1 DEF Answered, HeldAt
  <1>3. OthersLeft' = OthersLeft
    BY <1>1 DEF OthersLeft, SubmitSend, SubmitCount
  <1>4. OthersLeft' <= OthersLeft BY <1>0, <1>3, LeftFinite
  <1>5. CASE SubmitSend
    <2>1. /\ sent \in Frame /\ sent' = sent + 1
          /\ \A f : Queued(f)' <=> Queued(f) \/ f = sent
          /\ submitter = "send"
      BY <1>0, <1>5, SubmitEffect DEF SubmitSend
    <2>2. ASSUME NEW f \in Frame, NEW m \in Milestone, Reached(f, m) PROVE Reached(f, m)'
      <3>1. f < sent \/ Answered(f) \/ \E r \in received : r.frame = f BY <2>2 DEF Reached
      <3>2. f < sent BY <1>0, <3>1 DEF Answered, JobConservation
      <3>3. f # sent /\ f < sent' /\ f # sent' - 1 BY <1>0, <2>1, <3>2
      <3> QED BY <1>1, <1>2, <2>1, <2>2, <3>3 DEF Reached
    <2>3. "sent" \in Milestone /\ ~ Reached(sent, "sent") /\ sent < sent'
      BY <1>0, <2>1 DEF Reached, Milestone
    <2>4. PICK f \in Frame : f = sent BY <2>1
    <2>5. ~ Reached(f, "sent") /\ Reached(f, "sent")'
      BY <2>3, <2>4 DEF Reached
    <2> QED BY <1>1, <1>4, <2>2, <2>3, <2>5 DEF Progress
  <1>6. CASE SubmitCount
    <2>1. UNCHANGED <<sent, jobs>> /\ submitter = "count" /\ submitter' = "send" /\ sent > 0
      BY <1>6 DEF SubmitCount, SubmitProtocol
    <2>2. \A f : Queued(f)' <=> Queued(f) BY <2>1 DEF Queued
    <2>3. ASSUME NEW f \in Frame, NEW m \in Milestone, Reached(f, m) PROVE Reached(f, m)'
      BY <1>1, <1>2, <2>1, <2>2, <2>3 DEF Reached
    <2>4. PICK f \in Frame : f = sent - 1 BY <1>0, <2>1 DEF Frame
    <2>5. "counted" \in Milestone /\ ~ Reached(f, "counted") /\ Reached(f, "counted")'
      BY <1>0, <2>1, <2>4 DEF Reached, Milestone
    <2> QED BY <1>1, <1>4, <2>3, <2>5 DEF Progress
  <1> QED BY <1>5, <1>6

\* Every step is progress.
LEMMA StepProgress ==
  ASSUME BaseInv, SubmitProtocol, Next
  PROVE  Progress
  <1> USE DEF submitVars, jobsVars, workerVars, statsVars, resultsVars
  <1>0. TypeOK BY DEF BaseInv
  <1>1. ASSUME UNCHANGED <<sent, jobs, job, results, received>>,
               submitter' = "count" <=> submitter = "count",
               \A v \in Worker : wpc'[v] = wpc[v] \/ (wpc[v] = "range" /\ wpc'[v] = "returned")
        PROVE  /\ \A f \in Frame, m \in Milestone : Reached(f, m) => Reached(f, m)'
               /\ \A w \in Worker : wpc[w] = "returned" => wpc'[w] = "returned"
    <2>1. \A f : (Queued(f)' <=> Queued(f)) /\ (Answered(f)' <=> Answered(f))
      BY <1>1 DEF Queued, Answered
    <2>2. \A f, pc : pc # "returned" /\ HeldAt(f, pc)' => HeldAt(f, pc)
      BY <1>1 DEF HeldAt
    <2> QED BY <1>1, <2>1, <2>2 DEF Reached
  <1>2. ASSUME NEW w \in Worker, RangeEnds(w) PROVE Progress
    <2>1. /\ UNCHANGED <<submitter, sent, jobs, job, results, received, resultsClosed, ctxDone>>
          /\ wpc[w] = "range" /\ wpc'[w] = "returned"
          /\ \A v \in Worker : v # w => wpc'[v] = wpc[v]
      BY <1>0, <1>2 DEF RangeEnds, TypeOK
    <2>2. OthersLeft' = OthersLeft BY <2>1 DEF OthersLeft
    <2>3. OthersLeft' <= OthersLeft BY <1>0, <2>2, LeftFinite
    <2> QED BY <1>1, <2>1, <2>3 DEF Progress
  <1>3. CASE SubmitReturns \/ Close \/ CloseResults \/ Cancel
    <2>1. /\ UNCHANGED <<sent, jobs, job, wpc, results, received>>
          /\ submitter' = "count" <=> submitter = "count"
      BY <1>3 DEF SubmitReturns, Close, CloseResults, Cancel
    <2>2. OthersLeft' < OthersLeft
      BY <1>0, <1>3 DEF SubmitReturns, Close, CloseResults, Cancel, OthersLeft, TypeOK
    <2>3. OthersLeft \in Nat /\ OthersLeft' \in Nat
      BY <1>0, <1>3 DEF SubmitReturns, Close, CloseResults, Cancel, OthersLeft, TypeOK
    <2> QED BY <1>1, <2>1, <2>2, <2>3 DEF Progress
  <1> QED BY <1>2, <1>3, WorkProgress, SendProgress, TakeProgress, ReceiveProgress, SubmitProgress
          DEF Next, SubmitStep, WorkerStep

\* A run of the scheduler takes finitely many steps, cancelled or not: what is left
\* to do is a number, and every step of every goroutine makes it smaller.
THEOREM SchedulerIsFinite == Spec => [](StepsLeft \in Nat) /\ [][StepsLeft' < StepsLeft]_vars
  <1>1. BaseInv => TypeOK BY DEF BaseInv
  <1>2. TypeOK => StepsLeft \in Nat
    <2>1. SUFFICES ASSUME TypeOK PROVE StepsLeft \in Nat OBVIOUS
    <2>2. /\ Cardinality(JobsLeft) \in Nat /\ Cardinality(WorkersLeft) \in Nat
          /\ OthersLeft \in Nat
      BY <2>1, LeftFinite, FS_CardinalityType
    <2> QED BY <2>2 DEF StepsLeft
  <1>3. BaseInv /\ SubmitProtocol /\ TypeOK /\ TypeOK' /\ [Next]_vars
          => [StepsLeft' < StepsLeft]_vars
    BY StepProgress, ProgressCounts
  <1> QED BY <1>1, <1>2, <1>3, BaseInvariance, AlwaysSubmitProtocol, PTL DEF Spec

-----------------------------------------------------------------------------
(* Nobody waits for ever.                                                  *)

\* The guards of the actions of each goroutine.
CanSubmit ==
  \/ submitter = "send" /\ sent < Total /\ Len(jobs) < QueueDepth
  \/ submitter = "send" /\ (sent = Total \/ ctxDone)
  \/ submitter \in {"count", "close"}

CanWork(w) ==
  \/ wpc[w] = "range" /\ (jobs # << >> \/ jobsClosed)
  \/ wpc[w] \in {"check", "work", "settle"}
  \/ wpc[w] \in {"send", "quit"} /\ Len(results) < QueueDepth

CanCloseResults == ~ resultsClosed /\ \A w \in Worker : wpc[w] = "returned"

CanReceive == results # << >>

\* The run has come to its end, or someone can go on.
NeverStuck ==
  \/ submitter = "done" /\ resultsClosed /\ results = << >>
  \/ CanSubmit \/ (\E w \in Worker : CanWork(w)) \/ CanCloseResults \/ CanReceive

\* The submitter that waits for room, the workers that wait for jobs or for room for
\* their results and the caller never wait for each other in a circle, although the
\* workers that see a cancellation return and leave jobs on a full channel.  With
\* SchedulerIsFinite this is why Submit and the range over the results end.
THEOREM NeverDeadlocks == Spec => []NeverStuck
  <1>1. ASSUME IInv, SubmitProtocol PROVE NeverStuck
    <2>0. TypeOK /\ Ends /\ QueueDepth \in Nat \ {0} /\ Total \in Nat /\ Worker # {}
      BY <1>1, SchedulerAssumption DEF IInv, BaseInv
    <2>1. SUFFICES ASSUME ~ CanSubmit, \A w \in Worker : ~ CanWork(w), ~ CanCloseResults,
                          ~ CanReceive
                   PROVE  submitter = "done" /\ resultsClosed /\ results = << >>
      BY DEF NeverStuck
    <2>2. results = << >> /\ Len(results) < QueueDepth BY <2>0, <2>1 DEF CanReceive
    <2>3. \A w \in Worker :
            wpc[w] = "returned" \/ (wpc[w] = "range" /\ jobs = << >> /\ ~ jobsClosed)
      BY <2>0, <2>1, <2>2 DEF CanWork, TypeOK
    <2>4. submitter = "done" \/ (submitter = "send" /\ ~ ctxDone /\ ~ (Len(jobs) < QueueDepth))
      <3>1. submitter \in {"send", "done"} BY <2>0, <2>1 DEF CanSubmit, TypeOK
      <3>2. CASE submitter = "send"
        <4>1. sent # Total /\ ~ ctxDone BY <2>1, <3>2 DEF CanSubmit
        <4>2. sent < Total BY <2>0, <4>1 DEF TypeOK
        <4> QED BY <2>1, <3>2, <4>1, <4>2 DEF CanSubmit
      <3> QED BY <3>1, <3>2
    <2>5. ASSUME NEW w \in Worker, wpc[w] = "range" PROVE FALSE
      <3>1. jobs = << >> /\ ~ jobsClosed BY <2>3, <2>5
      <3>2. Len(jobs) < QueueDepth BY <2>0, <3>1
      <3> QED BY <1>1, <2>4, <3>1, <3>2 DEF SubmitProtocol
    <2>6. \A w \in Worker : wpc[w] = "returned" BY <2>3, <2>5
    <2>7. resultsClosed BY <2>1, <2>6 DEF CanCloseResults
    <2>8. submitter = "done" BY <1>1, <2>0, <2>4, <2>6 DEF Ends, SubmitProtocol
    <2> QED BY <2>2, <2>7, <2>8
  <1> QED BY <1>1, Invariance, AlwaysSubmitProtocol, PTL
=============================================================================

------------------------ MODULE RenderPipelineProofs ------------------------
(***************************************************************************)
(* Proofs about RenderPipeline, for every number of workers and frames.    *)
(***************************************************************************)
EXTENDS RenderPipeline, FiniteSetTheorems, TLAPS

-----------------------------------------------------------------------------
(* The division of the frames.                                             *)

\* The quotient and remainder of naturals are naturals, and the remainder is
\* smaller than the divisor.
LEMMA DivMod ==
  ASSUME NEW a \in Nat, NEW b \in Nat \ {0}
  PROVE  /\ a \div b \in Nat
         /\ a % b \in Nat
         /\ a % b < b
         /\ a = b * (a \div b) + (a % b)
  OBVIOUS

\* A render has at least one frame to produce.
LEMMA TotalType == Total \in Nat \ {0}
  <1>1. /\ (DurationFrames + FrameStep - 1) \div FrameStep \in Nat
        /\ FrameStep * ((DurationFrames + FrameStep - 1) \div FrameStep)
             > DurationFrames - 1
    BY PipelineAssumption, DivMod
  <1>2. (DurationFrames + FrameStep - 1) \div FrameStep # 0
    BY <1>1, PipelineAssumption
  <1> QED BY <1>1, <1>2 DEF Total

\* Chunks begin at a natural number and have a natural length.
LEMMA ChunkType ==
  ASSUME NEW w \in Worker
  PROVE  ChunkSize(w) \in Nat /\ Offset(w) \in Nat
  <1>1. /\ Total \div NumWorkers \in Nat
        /\ Total % NumWorkers \in Nat
    BY TotalType, PipelineAssumption, DivMod
  <1>2. w \in Nat BY PipelineAssumption DEF Worker
  <1>3. w * (Total \div NumWorkers) \in Nat BY <1>1, <1>2
  <1> QED BY <1>1, <1>2, <1>3 DEF ChunkSize, Offset

LEMMA CapType == Cap \in Nat \ {0}
  BY PipelineAssumption DEF Cap

\* The chunks cover the frames: every sequence number belongs to some worker.
\* The longer chunks come first, so a number below r * (q + 1) is found by
\* dividing it by q + 1, and the others by dividing what is left by q.
LEMMA ChunksCover ==
  ASSUME NEW s \in 0 .. Total - 1
  PROVE  \E w \in Worker : s \in Chunk(w)
  <1> DEFINE q == Total \div NumWorkers
             r == Total % NumWorkers
  <1>1. /\ q \in Nat /\ r \in Nat /\ r < NumWorkers
        /\ Total = NumWorkers * q + r
    BY TotalType, PipelineAssumption, DivMod
  <1>2. s \in Nat /\ s < Total BY TotalType
  <1>3. CASE s < r * (q + 1)
    <2> DEFINE w == s \div (q + 1)
    <2>1. w \in Nat /\ s % (q + 1) \in Nat /\ s % (q + 1) < q + 1
          /\ s = (q + 1) * w + (s % (q + 1))
      <3>1. q + 1 \in Nat \ {0} BY <1>1
      <3> HIDE DEF q
      <3> QED BY <3>1, <1>2, DivMod
    <2> HIDE DEF w
    <2>2. w < r
      <3>1. SUFFICES ASSUME w >= r PROVE FALSE BY <1>1, <2>1
      <3>2. (q + 1) * w >= (q + 1) * r
        <4> DEFINE d == w - r
        <4>1. d \in Nat /\ w = r + d BY <3>1, <1>1, <2>1
        <4> HIDE DEF d
        <4>2. (q + 1) * w = (q + 1) * r + (q + 1) * d BY <4>1, <1>1
        <4>3. (q + 1) * d \in Nat
          <5>1. q + 1 \in Nat BY <1>1
          <5> HIDE DEF q
          <5> QED BY <5>1, <4>1
        <4> QED BY <4>2, <4>3, <1>1
      <3>3. (q + 1) * r = r * (q + 1) BY <1>1
      <3> QED BY <3>2, <3>3, <1>3, <2>1, <1>1, <1>2
    <2>3. w \in Worker BY <2>1, <2>2, <1>1, PipelineAssumption DEF Worker
    <2>4. Offset(w) = w * q + w /\ ChunkSize(w) = q + 1
      BY <2>2 DEF Offset, ChunkSize
    <2>5. (q + 1) * w = w * q + w BY <1>1, <2>1
    <2>6. s \in Chunk(w)
      <3>1. w * q \in Nat BY <1>1, <2>1
      <3>2. Offset(w) <= s /\ s <= Offset(w) + ChunkSize(w) - 1
        BY <2>1, <2>4, <2>5, <3>1, <1>1, <1>2
      <3> QED BY <3>1, <3>2, <2>1, <2>4, <1>1, <1>2 DEF Chunk
    <2> QED BY <2>3, <2>6
  <1>4. CASE s >= r * (q + 1)
    <2>0. r * (q + 1) \in Nat /\ r * (q + 1) = r * q + r /\ r * q \in Nat BY <1>1
    <2>1. q # 0
      <3>1. SUFFICES ASSUME q = 0 PROVE FALSE OBVIOUS
      <3>2. r * (q + 1) = r /\ NumWorkers * q = 0 BY <3>1, <1>1, PipelineAssumption
      <3> QED BY <3>2, <1>1, <1>2, <1>4
    <2> DEFINE t == s - r * (q + 1)
               v == t \div q
               w == r + v
    <2>2. t \in Nat BY <2>0, <1>2, <1>4
    <2>3. v \in Nat /\ t % q \in Nat /\ t % q < q /\ t = q * v + (t % q)
      BY <2>1, <2>2, <1>1, DivMod
    <2> HIDE DEF v
    <2>4. w < NumWorkers
      <3>1. SUFFICES ASSUME w >= NumWorkers PROVE FALSE
        BY <2>3, <1>1, PipelineAssumption
      <3> DEFINE d == v - (NumWorkers - r)
      <3>2. d \in Nat /\ v = (NumWorkers - r) + d
        BY <3>1, <2>3, <1>1, PipelineAssumption
      <3> HIDE DEF d
      <3>3. q * v = q * (NumWorkers - r) + q * d /\ q * d \in Nat
        BY <3>2, <1>1, PipelineAssumption
      <3>4. q * (NumWorkers - r) = NumWorkers * q - r * q
        BY <1>1, PipelineAssumption
      <3>5. NumWorkers * q \in Nat /\ q * v \in Nat BY <1>1, <2>3, PipelineAssumption
      <3> HIDE DEF q, r
      <3>6. t >= NumWorkers * q - r * q BY <3>3, <3>4, <3>5, <2>3, <2>0, <2>2
      <3> QED BY <3>5, <3>6, <2>0, <1>1, <1>2
    <2>5. w \in Worker BY <2>3, <2>4, <1>1, PipelineAssumption DEF Worker
    <2>6. Offset(w) = w * q + r /\ ChunkSize(w) = q
      BY <2>3, <1>1 DEF Offset, ChunkSize
    <2>7. w * q = r * q + q * v /\ q * v \in Nat BY <1>1, <2>3
    <2>8. Offset(w) <= s /\ s <= Offset(w) + ChunkSize(w) - 1
      <3> HIDE DEF q, r, w
      <3> QED BY <2>0, <2>3, <2>6, <2>7, <1>1, <1>2
    <2>9. s \in Chunk(w)
      <3>1. Offset(w) \in Nat /\ ChunkSize(w) \in Nat BY <2>5, ChunkType
      <3> QED BY <3>1, <2>8, <1>2 DEF Chunk
    <2> QED BY <2>5, <2>9
  <1> QED
    <2>1. r * (q + 1) \in Nat BY <1>1
    <2> QED BY <1>3, <1>4, <1>2, <2>1

\* No chunk reaches past the last frame.
LEMMA ChunkEnd ==
  ASSUME NEW w \in Worker
  PROVE  Offset(w) + ChunkSize(w) <= Total
  <1> DEFINE q == Total \div NumWorkers
             r == Total % NumWorkers
  <1>1. /\ q \in Nat /\ r \in Nat /\ r < NumWorkers
        /\ Total = NumWorkers * q + r
    BY TotalType, PipelineAssumption, DivMod
  <1>2. w \in Nat /\ NumWorkers \in Nat /\ w + 1 <= NumWorkers
    BY PipelineAssumption DEF Worker
  <1>3. Offset(w) + ChunkSize(w) <= (w + 1) * q + r
    <2>1. (w + 1) * q = w * q + q /\ w * q \in Nat BY <1>1, <1>2
    <2>2. CASE w < r
      <3>1. Offset(w) = w * q + w /\ ChunkSize(w) = q + 1 BY <2>2 DEF Offset, ChunkSize
      <3> HIDE DEF q, r
      <3> QED BY <3>1, <2>1, <2>2, <1>1, <1>2
    <2>3. CASE ~ (w < r)
      <3>1. Offset(w) = w * q + r /\ ChunkSize(w) = q
        BY <2>3, <1>1 DEF Offset, ChunkSize
      <3> HIDE DEF q, r
      <3> QED BY <3>1, <2>1, <2>3, <1>1, <1>2
    <2> QED BY <2>2, <2>3
  <1>4. (w + 1) * q <= NumWorkers * q
    <2> DEFINE d == NumWorkers - (w + 1)
    <2>1. d \in Nat /\ NumWorkers = (w + 1) + d BY <1>2
    <2> HIDE DEF d, q
    <2>2. NumWorkers * q = (w + 1) * q + d * q /\ d * q \in Nat BY <2>1, <1>1, <1>2
    <2>3. (w + 1) * q \in Nat BY <1>1, <1>2
    <2> QED BY <2>2, <2>3
  <1>5. (w + 1) * q \in Nat /\ NumWorkers * q \in Nat BY <1>1, <1>2
  <1>6. Offset(w) + ChunkSize(w) \in Nat BY ChunkType
  <1> HIDE DEF q, r
  <1> QED BY <1>1, <1>3, <1>4, <1>5, <1>6

-----------------------------------------------------------------------------
(* Type correctness.                                                       *)

\* Sending on a channel and receiving from one keep its type; a receive makes
\* it one item shorter.
LEMMA ChannelType ==
  ASSUME NEW S, NEW ch \in Seq(S), NEW x \in S
  PROVE  /\ Append(ch, x) \in Seq(S)
         /\ Len(Append(ch, x)) = Len(ch) + 1
         /\ ch # << >> => /\ Head(ch) \in S
                          /\ Tail(ch) \in Seq(S)
                          /\ Len(Tail(ch)) = Len(ch) - 1
  OBVIOUS

LEMMA InitType == Init => TypeOK
  <1>1. \A S : << >> \in Seq(S) /\ Len(<< >>) = 0 OBVIOUS
  <1>2. 0 <= Cap BY CapType
  <1>3. SUFFICES ASSUME Init PROVE TypeOK OBVIOUS
  <1>4. wpc \in [Worker -> WorkerPC] BY <1>3 DEF Init, WorkerPC
  <1>5. done \in [Worker -> Nat] /\ failed \in [Worker -> BOOLEAN] BY <1>3 DEF Init
  <1> QED BY <1>1, <1>2, <1>3, <1>4, <1>5 DEF Init, TypeOK, CollectorPC

\* The steps of a worker keep the types.
LEMMA WorkerType ==
  ASSUME TypeOK, NEW w \in Worker, WorkerStep(w)
  PROVE  TypeOK'
  <1> USE DEF TypeOK, WorkerPC, workerVars, reorderVars, collectorVars, resultsVars, ctxVars
  <1>1. CASE WorkerReturn(w) BY <1>1 DEF WorkerReturn
  <1>2. CASE BeginFrame(w) BY <1>2 DEF BeginFrame
  <1>3. CASE AcquireBrowser(w) BY <1>3 DEF AcquireBrowser
  <1>4. CASE AcquireFails(w) BY <1>4 DEF AcquireFails
  <1>5. CASE CaptureFrame(w) BY <1>5 DEF CaptureFrame
  <1>6. CASE CaptureFails(w) BY <1>6 DEF CaptureFails
  <1>7. CASE WriteFile(w) BY <1>7 DEF WriteFile
  <1>8. CASE SendResult(w)
    <2> DEFINE msg == [seq |-> Current(w), err |-> failed[w]]
    <2>1. Current(w) \in Nat BY ChunkType DEF Current
    <2>2. msg \in Result BY <2>1 DEF Result
    <2>3. /\ Append(results, msg) \in Seq(Result)
          /\ Len(Append(results, msg)) = Len(results) + 1
      <3> HIDE DEF msg
      <3> QED BY <2>2, ChannelType
    <2>4. results' \in Seq(Result) /\ Len(results') <= Cap
      BY <1>8, <2>3, CapType DEF SendResult
    <2>5. done' \in [Worker -> Nat] BY <1>8 DEF SendResult
    <2>6. wpc' \in [Worker -> WorkerPC] BY <1>8 DEF SendResult
    <2>7. UNCHANGED <<failed, held, reorderVars, collectorVars, resultsClosed, ctxVars>>
      BY <1>8 DEF SendResult
    <2> QED BY <2>4, <2>5, <2>6, <2>7
  <1> QED BY <1>1, <1>2, <1>3, <1>4, <1>5, <1>6, <1>7, <1>8 DEF WorkerStep

\* The steps of the collector keep the types.
LEMMA CollectorType ==
  ASSUME TypeOK, CollectorStep
  PROVE  TypeOK'
  <1> USE DEF TypeOK, CollectorPC, workerVars, reorderVars, collectorVars, resultsVars, ctxVars
  <1>0. results # << >> => /\ Head(results) \in Result
                           /\ Tail(results) \in Seq(Result)
                           /\ Len(Tail(results)) <= Cap
    BY CapType
  <1>1. CASE ReceiveFrame
    <2>1. Head(results).seq \in Nat BY <1>0, <1>1 DEF ReceiveFrame, Result
    <2>2. results' \in Seq(Result) /\ Len(results') <= Cap
      BY <1>0, <1>1 DEF ReceiveFrame
    <2>3. buf' \subseteq Nat /\ cpc' \in CollectorPC BY <2>1, <1>1 DEF ReceiveFrame
    <2> QED BY <2>2, <2>3, <1>1 DEF ReceiveFrame
  <1>2. CASE ReceiveError
    <2>1. results' \in Seq(Result) /\ Len(results') <= Cap
      BY <1>0, <1>2 DEF ReceiveError
    <2> QED BY <2>1, <1>2 DEF ReceiveError
  <1>3. CASE Emit
    <2>1. out' \in Seq(Nat) /\ Len(out') <= Cap
      BY <1>3, CapType DEF Emit
    <2> QED BY <2>1, <1>3 DEF Emit
  <1>4. CASE EndPush BY <1>4 DEF EndPush
  <1>5. CASE EndCollect BY <1>5 DEF EndCollect
  <1>6. CASE CloseRenderer BY <1>6 DEF CloseRenderer
  <1>7. CASE Finish BY <1>7 DEF Finish
  <1> QED BY <1>1, <1>2, <1>3, <1>4, <1>5, <1>6, <1>7 DEF CollectorStep

LEMMA NextType ==
  ASSUME TypeOK, [Next]_vars
  PROVE  TypeOK'
  <1>1. CASE \E w \in Worker : WorkerStep(w) BY <1>1, WorkerType
  <1>2. CASE CollectorStep BY <1>2, CollectorType
  <1> USE DEF TypeOK, workerVars, reorderVars, collectorVars, resultsVars, ctxVars
  <1>3. CASE CloseResults BY <1>3 DEF CloseResults
  <1>4. CASE CancelContext BY <1>4 DEF CancelContext
  <1>5. CASE Consume
    <2>1. out' \in Seq(Nat) /\ Len(out') <= Cap
      BY <1>5, CapType DEF Consume
    <2> QED BY <2>1, <1>5 DEF Consume
  <1>6. CASE UNCHANGED vars BY <1>6 DEF vars
  <1> QED BY <1>1, <1>2, <1>3, <1>4, <1>5, <1>6 DEF Next, PipelineStep

\* In every reachable state the variables of the pipeline have their types and
\* no channel is over its capacity.
THEOREM TypeCorrect == Spec => []TypeOK
  BY InitType, NextType, PTL DEF Spec

-----------------------------------------------------------------------------
(* The inductive invariant.                                                *)

\* A worker never goes beyond its chunk, and has a frame left while it is in
\* the middle of one.
InChunk ==
  \A w \in Worker :
    /\ done[w] <= ChunkSize(w)
    /\ wpc[w] \in {"acquire", "capture", "write", "send"} => done[w] < ChunkSize(w)

\* Every sequence number under way is one of the render's, and so rb.next
\* cannot jump over the value at which Push closes "out".
InRange ==
  /\ \A i \in 1 .. Len(results) : results[i].seq < Total
  /\ \A s \in buf : s < Total
  /\ next <= Total

\* The collector is in Push only while "out" is open; between two calls the
\* buffer is drained and "out" is closed if everything is out.
PushProtocol ==
  /\ cpc = "push" => ~ closed
  /\ cpc \in {"receive", "release", "finish", "ended"} /\ ~ closed => next \notin buf /\ next # Total
  /\ firstErr => closed /\ renderDone

\* While "out" is open no reported frame is lost: the half of FrameConservation
\* that the end of the stream depends on.
Kept ==
  ~ closed =>
    \A w \in Worker : \A s \in Offset(w) .. Offset(w) + done[w] - 1 :
      s < next \/ s \in buf \/ \E i \in 1 .. Len(results) : results[i].seq = s

\* Why a worker returned: its chunk is done, the context is, or it failed and
\* the collector has yet to see that.
ReturnReason ==
  /\ \A w \in Worker : wpc[w] = "returned" =>
       \/ done[w] = ChunkSize(w)
       \/ renderDone
       \/ \E i \in 1 .. Len(results) : results[i].err
  /\ renderDone => firstErr \/ ctxDone \/ cpc = "ended"

\* The order of the end: workers, "results", the renderer's browsers, "errc".
Shutdown ==
  /\ resultsClosed => \A w \in Worker : wpc[w] = "returned"
  /\ cpc \in {"release", "finish", "ended"} => resultsClosed /\ results = << >>
  /\ cpc \in {"finish", "ended"} => held = {}
  /\ errcClosed => cpc = "ended"

IInv ==
  /\ TypeOK
  /\ InOrderDelivery
  /\ ClosedIsCompleteOrFailed
  /\ InChunk
  /\ InRange
  /\ PushProtocol
  /\ Kept
  /\ ReturnReason
  /\ Shutdown
  /\ StreamEnds

LEMMA InitIInv == Init => IInv
  <1> SUFFICES ASSUME Init PROVE IInv OBVIOUS
  <1>1. TypeOK BY InitType
  <1>2. Total # 0 /\ Total \in Nat BY TotalType
  <1>3. \A w \in Worker : ChunkSize(w) \in Nat /\ Offset(w) \in Nat BY ChunkType
  <1>4. InOrderDelivery BY DEF Init, InOrderDelivery
  <1>5. InChunk BY <1>3 DEF Init, InChunk
  <1>6. InRange BY <1>2 DEF Init, InRange
  <1>7. PushProtocol BY <1>2 DEF Init, PushProtocol
  <1>8. Kept
    <2>1. \A w \in Worker : Offset(w) .. Offset(w) + done[w] - 1 = {}
      BY <1>3 DEF Init
    <2> QED BY <2>1 DEF Kept
  <1>9. ReturnReason BY DEF Init, ReturnReason
  <1>10. Shutdown BY DEF Init, Shutdown
  <1>11. ClosedIsCompleteOrFailed /\ StreamEnds
    BY DEF Init, ClosedIsCompleteOrFailed, StreamEnds
  <1> QED BY <1>1, <1>4, <1>5, <1>6, <1>7, <1>8, <1>9, <1>10, <1>11 DEF IInv

\* Only Emit and Consume touch what the reader sees.
LEMMA InOrderStep ==
  ASSUME TypeOK, InOrderDelivery, [Next]_vars
  PROVE  InOrderDelivery'
  <1> USE DEF workerVars, reorderVars, collectorVars, resultsVars, ctxVars
  <1>1. CASE Emit
    <2>1. out' = Append(out, next) /\ next' = next + 1 /\ taken' = taken BY <1>1 DEF Emit
    <2>2. out \in Seq(Nat) /\ next \in Nat /\ taken \in Nat BY DEF TypeOK
    <2>3. Len(out') = Len(out) + 1 BY <2>1, <2>2
    <2>4. \A i \in 1 .. Len(out') : out'[i] = IF i <= Len(out) THEN out[i] ELSE next
      BY <2>1, <2>2, <2>3
    <2> QED BY <2>1, <2>2, <2>3, <2>4 DEF InOrderDelivery
  <1>2. CASE Consume
    <2>1. out # << >> /\ out' = Tail(out) /\ taken' = taken + 1 /\ next' = next
      BY <1>2 DEF Consume
    <2>2. out \in Seq(Nat) /\ next \in Nat /\ taken \in Nat BY DEF TypeOK
    <2>3. Len(out') = Len(out) - 1 /\ Len(out) \in Nat BY <2>1, <2>2
    <2>4. \A i \in 1 .. Len(out') : out'[i] = out[i + 1] BY <2>1, <2>2, <2>3
    <2>5. \A i \in 1 .. Len(out') : i \in Nat /\ i + 1 \in 1 .. Len(out) BY <2>3
    <2>6. ASSUME NEW i \in 1 .. Len(out') PROVE out'[i] = taken' + i - 1
      BY <2>1, <2>2, <2>4, <2>5 DEF InOrderDelivery
    <2> QED BY <2>1, <2>2, <2>3, <2>6 DEF InOrderDelivery
  <1>3. CASE UNCHANGED <<next, out, taken>> BY <1>3 DEF InOrderDelivery
  <1>4. ASSUME NEW w \in Worker, WorkerStep(w) PROVE UNCHANGED <<next, out, taken>>
    BY <1>4 DEF WorkerStep, WorkerReturn, BeginFrame, AcquireBrowser, AcquireFails,
                CaptureFrame, CaptureFails, WriteFile, SendResult
  <1>5. CollectorStep => Emit \/ UNCHANGED <<next, out, taken>>
    BY DEF CollectorStep, ReceiveFrame, ReceiveError, EndPush, EndCollect,
           CloseRenderer, Finish
  <1> QED BY <1>1, <1>2, <1>3, <1>4, <1>5
          DEF Next, PipelineStep, CloseResults, CancelContext, vars

\* "out" is closed by EndPush after the last frame, and by ReceiveError.
LEMMA ClosedStep ==
  ASSUME IInv, [Next]_vars
  PROVE  ClosedIsCompleteOrFailed'
  <1> USE DEF IInv, ClosedIsCompleteOrFailed, PushProtocol,
          workerVars, reorderVars, collectorVars, resultsVars, ctxVars
  <1>1. Total' = Total BY DEF Total
  <1>2. ASSUME NEW w \in Worker, WorkerStep(w) PROVE UNCHANGED <<closed, next, firstErr>>
    BY <1>2 DEF WorkerStep, WorkerReturn, BeginFrame, AcquireBrowser, AcquireFails,
                CaptureFrame, CaptureFails, WriteFile, SendResult
  <1>3. CASE CollectorStep
    BY <1>1, <1>3 DEF CollectorStep, ReceiveFrame, ReceiveError, Emit, EndPush, EndCollect,
           CloseRenderer, Finish
  <1>4. CASE UNCHANGED <<closed, next, firstErr>> BY <1>1, <1>4
  <1> QED BY <1>2, <1>3, <1>4
          DEF Next, PipelineStep, CloseResults, CancelContext, Consume, vars

LEMMA InChunkStep ==
  ASSUME IInv, [Next]_vars
  PROVE  InChunk'
  <1> USE DEF IInv, InChunk, TypeOK, WorkerPC,
          workerVars, reorderVars, collectorVars, resultsVars, ctxVars
  <1>1. \A v \in Worker : ChunkSize(v) \in Nat /\ ChunkSize(v)' = ChunkSize(v)
    BY ChunkType DEF ChunkSize, Total
  <1>2. ASSUME NEW w \in Worker, WorkerStep(w) PROVE InChunk'
    <2>1. CASE WorkerReturn(w) BY <1>1, <2>1 DEF WorkerReturn
    <2>2. CASE BeginFrame(w) BY <1>1, <2>2 DEF BeginFrame
    <2>3. CASE AcquireBrowser(w) BY <1>1, <2>3 DEF AcquireBrowser
    <2>4. CASE AcquireFails(w) BY <1>1, <2>4 DEF AcquireFails
    <2>5. CASE CaptureFrame(w) BY <1>1, <2>5 DEF CaptureFrame
    <2>6. CASE CaptureFails(w) BY <1>1, <2>6 DEF CaptureFails
    <2>7. CASE WriteFile(w) BY <1>1, <2>7 DEF WriteFile
    <2>8. CASE SendResult(w) BY <1>1, <2>8 DEF SendResult
    <2> QED BY <1>2, <2>1, <2>2, <2>3, <2>4, <2>5, <2>6, <2>7, <2>8 DEF WorkerStep
  <1>3. CASE UNCHANGED <<wpc, done>> BY <1>1, <1>3
  <1>4. CollectorStep => UNCHANGED <<wpc, done>>
    BY DEF CollectorStep, ReceiveFrame, ReceiveError, Emit, EndPush, EndCollect,
           CloseRenderer, Finish
  <1> QED BY <1>2, <1>3, <1>4
          DEF Next, PipelineStep, CloseResults, CancelContext, Consume, vars

\* What the steps do to "results": a send appends the worker's current frame,
\* a receive takes the head, nothing else touches the channel.
LEMMA ResultsStep ==
  ASSUME TypeOK, [Next]_vars
  PROVE  \/ UNCHANGED results
         \/ \E w \in Worker :
              /\ SendResult(w)
              /\ Len(results') = Len(results) + 1
              /\ results'[Len(results) + 1] = [seq |-> Current(w), err |-> failed[w]]
              /\ \A i \in 1 .. Len(results) : results'[i] = results[i]
         \/ /\ ReceiveFrame \/ ReceiveError
            /\ results # << >>
            /\ Len(results') = Len(results) - 1
            /\ \A i \in 1 .. Len(results') : results'[i] = results[i + 1]
            /\ Head(results) = results[1]
  <1> USE DEF workerVars, reorderVars, collectorVars, resultsVars, ctxVars
  <1>0. results \in Seq(Result) BY DEF TypeOK
  <1>1. ASSUME NEW w \in Worker, SendResult(w)
        PROVE  /\ Len(results') = Len(results) + 1
               /\ results'[Len(results) + 1] = [seq |-> Current(w), err |-> failed[w]]
               /\ \A i \in 1 .. Len(results) : results'[i] = results[i]
    <2> DEFINE msg == [seq |-> Current(w), err |-> failed[w]]
    <2>1. results' = Append(results, msg) BY <1>1 DEF SendResult
    <2> HIDE DEF msg
    <2>2. /\ Len(results') = Len(results) + 1
          /\ results'[Len(results) + 1] = msg
          /\ \A i \in 1 .. Len(results) : results'[i] = results[i]
      BY <1>0, <2>1
    <2> QED BY <2>2 DEF msg
  <1>2. ASSUME ReceiveFrame \/ ReceiveError
        PROVE  /\ results # << >>
               /\ Len(results') = Len(results) - 1
               /\ \A i \in 1 .. Len(results') : results'[i] = results[i + 1]
               /\ Head(results) = results[1]
    <2>1. results # << >> /\ results' = Tail(results)
      BY <1>2 DEF ReceiveFrame, ReceiveError
    <2> QED BY <1>0, <2>1
  <1>3. ASSUME NEW w \in Worker, WorkerStep(w) PROVE SendResult(w) \/ UNCHANGED results
    BY <1>3 DEF WorkerStep, WorkerReturn, BeginFrame, AcquireBrowser, AcquireFails,
                CaptureFrame, CaptureFails, WriteFile
  <1>4. CollectorStep => ReceiveFrame \/ ReceiveError \/ UNCHANGED results
    BY DEF CollectorStep, Emit, EndPush, EndCollect, CloseRenderer, Finish
  <1> QED BY <1>1, <1>2, <1>3, <1>4
          DEF Next, PipelineStep, CloseResults, CancelContext, Consume, vars

LEMMA InRangeStep ==
  ASSUME IInv, [Next]_vars
  PROVE  InRange'
  <1> USE DEF workerVars, reorderVars, collectorVars, resultsVars, ctxVars
  <1>0. Total' = Total /\ Total \in Nat BY TotalType DEF Total
  <1>1. TypeOK /\ InRange /\ InChunk BY DEF IInv
  <1>2. results \in Seq(Result) /\ Len(results) \in Nat BY <1>1 DEF TypeOK
  <1>3. \A i \in 1 .. Len(results') : results'[i].seq < Total
    <2>1. CASE UNCHANGED results BY <2>1, <1>1 DEF InRange
    <2>2. ASSUME NEW w \in Worker, SendResult(w),
                 Len(results') = Len(results) + 1,
                 results'[Len(results) + 1] = [seq |-> Current(w), err |-> failed[w]],
                 \A i \in 1 .. Len(results) : results'[i] = results[i]
          PROVE  \A i \in 1 .. Len(results') : results'[i].seq < Total
      <3>1. done[w] \in Nat /\ done[w] < ChunkSize(w)
        BY <2>2, <1>1 DEF SendResult, InChunk, TypeOK
      <3>2. Current(w) < Total
        BY <3>1, ChunkEnd, ChunkType, <1>0 DEF Current
      <3> QED BY <3>2, <2>2, <1>1, <1>2 DEF InRange
    <2>3. CASE /\ results # << >>
               /\ Len(results') = Len(results) - 1
               /\ \A i \in 1 .. Len(results') : results'[i] = results[i + 1]
      <3>1. \A i \in 1 .. Len(results') : i + 1 \in 1 .. Len(results) BY <2>3, <1>2
      <3> QED BY <2>3, <3>1, <1>1 DEF InRange
    <2> QED BY <2>1, <2>2, <2>3, <1>1, ResultsStep
  <1>4. CASE ReceiveFrame
    <2>1. results # << >> => Head(results) = results[1] /\ 1 \in 1 .. Len(results)
      BY <1>2
    <2>2. buf' \subseteq buf \cup {results[1].seq} /\ next' = next
      BY <2>1, <1>4 DEF ReceiveFrame
    <2>3. results[1].seq < Total BY <2>1, <1>1, <1>4 DEF InRange, ReceiveFrame
    <2> QED BY <2>2, <2>3, <1>0, <1>1, <1>3 DEF InRange
  <1>5. CASE Emit
    <2>1. next \in buf /\ buf' \subseteq buf /\ next' = next + 1 BY <1>5 DEF Emit
    <2>2. next \in Nat BY <1>1 DEF TypeOK
    <2> QED BY <2>1, <2>2, <1>0, <1>1, <1>3 DEF InRange
  <1>6. CASE UNCHANGED <<buf, next>> BY <1>6, <1>0, <1>1, <1>3 DEF InRange
  <1>7. ASSUME NEW w \in Worker, WorkerStep(w) PROVE UNCHANGED <<buf, next>>
    BY <1>7 DEF WorkerStep, WorkerReturn, BeginFrame, AcquireBrowser, AcquireFails,
                CaptureFrame, CaptureFails, WriteFile, SendResult
  <1>8. CollectorStep => ReceiveFrame \/ Emit \/ UNCHANGED <<buf, next>>
    BY DEF CollectorStep, ReceiveError, EndPush, EndCollect, CloseRenderer, Finish
  <1> QED BY <1>4, <1>5, <1>6, <1>7, <1>8
          DEF Next, PipelineStep, CloseResults, CancelContext, Consume, vars

LEMMA PushProtocolStep ==
  ASSUME IInv, [Next]_vars
  PROVE  PushProtocol'
  <1> USE DEF IInv, PushProtocol, TypeOK, CollectorPC,
          workerVars, reorderVars, collectorVars, resultsVars, ctxVars
  <1>1. Total' = Total BY DEF Total
  <1>2. ASSUME NEW w \in Worker, WorkerStep(w)
        PROVE UNCHANGED <<reorderVars, collectorVars, ctxVars>>
    BY <1>2 DEF WorkerStep, WorkerReturn, BeginFrame, AcquireBrowser, AcquireFails,
                CaptureFrame, CaptureFails, WriteFile, SendResult
  <1>3. CASE CollectorStep
    <2>1. CASE ReceiveFrame BY <2>1, <1>1 DEF ReceiveFrame
    <2>2. CASE ReceiveError BY <2>2, <1>1 DEF ReceiveError
    <2>3. CASE Emit BY <2>3, <1>1 DEF Emit
    <2>4. CASE EndPush BY <2>4, <1>1 DEF EndPush
    <2>5. CASE EndCollect BY <2>5, <1>1 DEF EndCollect
    <2>6. CASE CloseRenderer BY <2>6, <1>1 DEF CloseRenderer
    <2>7. CASE Finish BY <2>7, <1>1 DEF Finish
    <2> QED BY <1>3, <2>1, <2>2, <2>3, <2>4, <2>5, <2>6, <2>7 DEF CollectorStep
  <1>4. CASE UNCHANGED <<buf, next, closed, cpc, firstErr, renderDone>> BY <1>1, <1>4
  <1>5. CASE CancelContext BY <1>1, <1>5 DEF CancelContext
  <1> QED BY <1>2, <1>3, <1>4, <1>5
          DEF Next, PipelineStep, CloseResults, Consume, vars

\* A reported frame moves from "results" into the buffer and from there below
\* rb.next, and never out of the three.
LEMMA KeptStep ==
  ASSUME IInv, [Next]_vars
  PROVE  Kept'
  <1> USE DEF workerVars, reorderVars, collectorVars, resultsVars, ctxVars
  <1>0. TypeOK /\ Kept /\ PushProtocol BY DEF IInv
  <1>1. \A w \in Worker : /\ Offset(w)' = Offset(w) /\ Offset(w) \in Nat
                          /\ done[w] \in Nat
    BY <1>0, ChunkType DEF Offset, Total, TypeOK
  <1>2. /\ results \in Seq(Result) /\ Len(results) \in Nat /\ next \in Nat
        /\ results # << >> => 1 \in 1 .. Len(results) /\ Head(results) = results[1]
    BY <1>0 DEF TypeOK
  <1>3. CASE UNCHANGED <<done, buf, next, results>> /\ (closed => closed')
    BY <1>0, <1>1, <1>3 DEF Kept
  <1>4. ASSUME NEW w \in Worker, WorkerStep(w) PROVE Kept'
    <2>1. CASE SendResult(w)
      <3>1. /\ Len(results') = Len(results) + 1
            /\ results'[Len(results) + 1].seq = Current(w)
            /\ \A i \in 1 .. Len(results) : results'[i] = results[i]
        <4> DEFINE msg == [seq |-> Current(w), err |-> failed[w]]
        <4>1. results' = Append(results, msg) /\ msg.seq = Current(w)
          BY <2>1 DEF SendResult
        <4> HIDE DEF msg
        <4> QED BY <4>1, <1>2
      <3>2. /\ UNCHANGED <<buf, next, closed>>
            /\ done' = [done EXCEPT ![w] = @ + 1]
        BY <2>1 DEF SendResult
      <3>3. SUFFICES ASSUME ~ closed, NEW v \in Worker,
                            NEW s \in Offset(v) .. Offset(v) + done'[v] - 1
                     PROVE  s < next \/ s \in buf
                              \/ \E i \in 1 .. Len(results') : results'[i].seq = s
        BY <1>1, <3>2 DEF Kept
      <3>4. CASE s \in Offset(v) .. Offset(v) + done[v] - 1
        BY <3>1, <3>3, <3>4, <1>0, <1>2 DEF Kept
      <3>5. CASE s \notin Offset(v) .. Offset(v) + done[v] - 1
        <4>0. done'[v] = IF v = w THEN done[w] + 1 ELSE done[v]
          BY <3>2, <1>0 DEF TypeOK
        <4>1. v = w /\ s = Offset(w) + done[w]
          <5>1. /\ Offset(v) \in Nat /\ Offset(w) \in Nat
                /\ done[v] \in Nat /\ done[w] \in Nat
            BY <1>1
          <5>2. v = w BY <3>3, <3>5, <4>0
          <5>3. s \in Offset(w) .. Offset(w) + (done[w] + 1) - 1 BY <3>3, <4>0, <5>2
          <5>4. s \notin Offset(w) .. Offset(w) + done[w] - 1 BY <3>5, <5>2
          <5> QED BY <5>1, <5>2, <5>3, <5>4
        <4>2. Len(results) + 1 \in 1 .. Len(results') BY <3>1, <1>2
        <4> QED BY <4>1, <4>2, <3>1 DEF Current
      <3> QED BY <3>4, <3>5
    <2>2. CASE ~ SendResult(w)
      <3>1. UNCHANGED <<done, buf, next, results, closed>>
        BY <1>4, <2>2 DEF WorkerStep, WorkerReturn, BeginFrame, AcquireBrowser,
                          AcquireFails, CaptureFrame, CaptureFails, WriteFile
      <3> QED BY <3>1, <1>3
    <2> QED BY <2>1, <2>2
  <1>5. CASE ReceiveFrame
    <2>1. SUFFICES ASSUME ~ closed PROVE Kept'
      BY <1>5 DEF ReceiveFrame, Kept
    <2>2. /\ results # << >> /\ results' = Tail(results)
          /\ buf' = buf \cup {results[1].seq}
          /\ UNCHANGED <<done, next, closed>>
      BY <1>2, <1>5, <2>1 DEF ReceiveFrame
    <2>3. /\ Len(results') = Len(results) - 1
          /\ \A i \in 1 .. Len(results') : results'[i] = results[i + 1]
      BY <1>2, <2>2
    <2>4. ASSUME NEW i \in 1 .. Len(results)
          PROVE  results[i].seq \in buf'
                   \/ \E j \in 1 .. Len(results') : results'[j].seq = results[i].seq
      <3>1. CASE i = 1 BY <3>1, <2>2
      <3>2. CASE i # 1
        <4>1. i - 1 \in 1 .. Len(results') /\ (i - 1) + 1 = i BY <3>2, <2>3, <1>2
        <4>2. results'[i - 1] = results[i] BY <4>1, <2>3
        <4> QED BY <4>1, <4>2
      <3> QED BY <3>1, <3>2
    <2>5. SUFFICES ASSUME NEW v \in Worker,
                          NEW s \in Offset(v) .. Offset(v) + done[v] - 1
                   PROVE  s < next \/ s \in buf'
                            \/ \E j \in 1 .. Len(results') : results'[j].seq = s
      BY <1>1, <2>2 DEF Kept
    <2>6. s < next \/ s \in buf \/ \E i \in 1 .. Len(results) : results[i].seq = s
      BY <2>1, <2>5, <1>0 DEF Kept
    <2> QED BY <2>2, <2>4, <2>6
  <1>6. CASE ReceiveError
    BY <1>0, <1>6 DEF ReceiveError, Kept, PushProtocol
  <1>7. CASE Emit
    <2>1. buf' = buf \ {next} /\ next' = next + 1 /\ UNCHANGED <<done, results, closed>>
      BY <1>7 DEF Emit
    <2>2. SUFFICES ASSUME ~ closed, NEW v \in Worker,
                          NEW s \in Offset(v) .. Offset(v) + done[v] - 1
                   PROVE  s < next' \/ s \in buf'
                            \/ \E i \in 1 .. Len(results') : results'[i].seq = s
      BY <1>1, <2>1 DEF Kept
    <2>3. s < next \/ s \in buf \/ \E i \in 1 .. Len(results) : results[i].seq = s
      BY <2>2, <1>0 DEF Kept
    <2>4. s \in Int BY <2>2, <1>1
    <2>5. CASE s < next \/ s = next
      <3>1. next' = next + 1 /\ next \in Nat BY <2>1, <1>2
      <3>2. s < next' BY <2>4, <2>5, <3>1
      <3> QED BY <3>2
    <2>6. CASE s \in buf /\ s # next
      <3>1. s \in buf' BY <2>1, <2>6
      <3> QED BY <3>1
    <2>7. CASE \E i \in 1 .. Len(results) : results[i].seq = s
      <3>1. results' = results BY <2>1
      <3> QED BY <2>7, <3>1
    <2> QED BY <2>3, <2>5, <2>6, <2>7
  <1>8. CollectorStep => \/ ReceiveFrame \/ ReceiveError \/ Emit
                         \/ UNCHANGED <<done, buf, next, results>> /\ (closed => closed')
    <2>1. EndPush => UNCHANGED <<done, buf, next, results>> /\ (closed => closed')
      BY DEF EndPush
    <2>2. EndCollect \/ CloseRenderer \/ Finish
            => UNCHANGED <<done, buf, next, results>> /\ (closed => closed')
      BY DEF EndCollect, CloseRenderer, Finish
    <2> QED BY <2>1, <2>2 DEF CollectorStep
  <1> QED BY <1>3, <1>4, <1>5, <1>6, <1>7, <1>8
          DEF Next, PipelineStep, CloseResults, CancelContext, Consume, vars

LEMMA ReturnReasonStep ==
  ASSUME IInv, [Next]_vars
  PROVE  ReturnReason'
  <1> USE DEF workerVars, reorderVars, collectorVars, resultsVars, ctxVars
  <1>0. TypeOK /\ ReturnReason /\ PushProtocol BY DEF IInv
  <1>1. \A w \in Worker : ChunkSize(w)' = ChunkSize(w) BY DEF ChunkSize, Total
  <1>2. results \in Seq(Result) /\ Len(results) \in Nat BY <1>0 DEF TypeOK
  <1>3. CASE UNCHANGED <<wpc, done, results, renderDone, firstErr, ctxDone>>
             /\ (cpc = "ended" => cpc' = "ended")
    BY <1>0, <1>1, <1>3 DEF ReturnReason
  <1>4. ASSUME NEW w \in Worker, WorkerStep(w) PROVE ReturnReason'
    <2>0. UNCHANGED <<renderDone, firstErr, ctxDone, cpc>>
      BY <1>4 DEF WorkerStep, WorkerReturn, BeginFrame, AcquireBrowser, AcquireFails,
                  CaptureFrame, CaptureFails, WriteFile, SendResult
    <2>1. CASE SendResult(w)
      <3>1. /\ Len(results') = Len(results) + 1
            /\ results'[Len(results) + 1].err = failed[w]
            /\ \A i \in 1 .. Len(results) : results'[i] = results[i]
        <4> DEFINE msg == [seq |-> Current(w), err |-> failed[w]]
        <4>1. results' = Append(results, msg) /\ msg.err = failed[w]
          BY <2>1 DEF SendResult
        <4> HIDE DEF msg
        <4> QED BY <4>1, <1>2
      <3>2. \A i \in 1 .. Len(results) : i \in 1 .. Len(results') BY <3>1, <1>2
      <3>3. Len(results) + 1 \in 1 .. Len(results') BY <3>1, <1>2
      <3>4. wpc[w] = "send" /\ wpc'[w] = "returned" => failed[w]
        BY <2>1, <1>0 DEF SendResult, TypeOK
      <3>5. \A v \in Worker : v # w => wpc'[v] = wpc[v] /\ done'[v] = done[v]
        BY <2>1, <1>0 DEF SendResult, TypeOK
      <3>6. wpc[w] = "send" BY <2>1 DEF SendResult
      <3>7. \A v \in Worker : wpc'[v] = "returned" =>
              done'[v] = ChunkSize(v) \/ renderDone
                \/ \E i \in 1 .. Len(results') : results'[i].err
        <4>1. wpc'[w] = "returned" => \E i \in 1 .. Len(results') : results'[i].err
          BY <3>1, <3>3, <3>4, <3>6
        <4>2. ASSUME NEW v \in Worker, v # w, wpc'[v] = "returned"
              PROVE  done'[v] = ChunkSize(v) \/ renderDone
                       \/ \E i \in 1 .. Len(results') : results'[i].err
          BY <4>2, <3>1, <3>2, <3>5, <1>0 DEF ReturnReason
        <4> QED BY <4>1, <4>2
      <3> QED BY <2>0, <3>7, <1>0, <1>1 DEF ReturnReason
    <2>2. CASE WorkerReturn(w)
      BY <2>0, <2>2, <1>0, <1>1 DEF WorkerReturn, ReturnReason, TypeOK
    <2>3. CASE ~ SendResult(w) /\ ~ WorkerReturn(w)
      <3>1. wpc[w] # "returned" /\ wpc'[w] # "returned"
        BY <1>4, <2>3, <1>0 DEF WorkerStep, BeginFrame, AcquireBrowser, AcquireFails,
                                CaptureFrame, CaptureFails, WriteFile, TypeOK
      <3>2. /\ UNCHANGED <<done, results>>
            /\ \A v \in Worker : v # w => wpc'[v] = wpc[v]
        BY <1>4, <2>3, <1>0 DEF WorkerStep, BeginFrame, AcquireBrowser, AcquireFails,
                                CaptureFrame, CaptureFails, WriteFile, TypeOK
      <3> QED BY <2>0, <3>1, <3>2, <1>0, <1>1 DEF ReturnReason
    <2> QED BY <2>1, <2>2, <2>3
  <1>5. CASE ReceiveFrame
    <2>1. /\ results # << >> /\ results' = Tail(results) /\ ~ results[1].err
          /\ UNCHANGED <<wpc, done, renderDone, firstErr, ctxDone>>
          /\ cpc # "ended"
      BY <1>2, <1>5 DEF ReceiveFrame
    <2>2. /\ Len(results') = Len(results) - 1
          /\ \A i \in 1 .. Len(results') : results'[i] = results[i + 1]
      BY <1>2, <2>1
    <2>3. ASSUME NEW i \in 1 .. Len(results), results[i].err
          PROVE  \E j \in 1 .. Len(results') : results'[j].err
      <3>1. i # 1 BY <2>1, <2>3
      <3>2. i - 1 \in 1 .. Len(results') /\ (i - 1) + 1 = i BY <3>1, <2>2, <1>2
      <3> QED BY <3>2, <2>2, <2>3
    <2> QED BY <2>1, <2>3, <1>0, <1>1 DEF ReturnReason
  <1>6. CASE ReceiveError
    <2>1. renderDone' /\ firstErr'
      BY <1>0, <1>6 DEF ReceiveError, PushProtocol, TypeOK
    <2> QED BY <2>1 DEF ReturnReason
  <1>7. CASE Finish BY <1>7 DEF Finish, ReturnReason
  <1>8. CASE CancelContext BY <1>8 DEF CancelContext, ReturnReason
  <1>9. CASE Emit \/ EndPush \/ EndCollect \/ CloseRenderer
    <2>1. UNCHANGED <<wpc, done, results, renderDone, firstErr, ctxDone>> /\ cpc # "ended"
      BY <1>9 DEF Emit, EndPush, EndCollect, CloseRenderer
    <2> QED BY <2>1, <1>3
  <1> QED BY <1>3, <1>4, <1>5, <1>6, <1>7, <1>8, <1>9
          DEF Next, PipelineStep, CollectorStep, CloseResults, Consume, vars

LEMMA ShutdownStep ==
  ASSUME IInv, [Next]_vars
  PROVE  Shutdown'
  <1> USE DEF workerVars, reorderVars, collectorVars, resultsVars, ctxVars
  <1>0. TypeOK /\ Shutdown BY DEF IInv
  <1>1. ASSUME NEW w \in Worker, WorkerStep(w) PROVE Shutdown'
    <2>1. wpc[w] # "returned" /\ UNCHANGED <<resultsClosed, cpc, errcClosed>>
      BY <1>1 DEF WorkerStep, WorkerReturn, BeginFrame, AcquireBrowser, AcquireFails,
                  CaptureFrame, CaptureFails, WriteFile, SendResult
    <2>2. ~ resultsClosed /\ cpc \notin {"release", "finish", "ended"}
      BY <2>1, <1>0 DEF Shutdown
    <2> QED BY <2>1, <2>2, <1>0 DEF Shutdown
  <1>2. CASE CloseResults BY <1>2, <1>0 DEF CloseResults, Shutdown
  <1>3. CASE ReceiveFrame BY <1>3, <1>0 DEF ReceiveFrame, Shutdown
  <1>4. CASE ReceiveError BY <1>4, <1>0 DEF ReceiveError, Shutdown
  <1>5. CASE Emit BY <1>5, <1>0 DEF Emit, Shutdown
  <1>6. CASE EndPush BY <1>6, <1>0 DEF EndPush, Shutdown
  <1>7. CASE EndCollect BY <1>7, <1>0 DEF EndCollect, Shutdown
  <1>8. CASE CloseRenderer BY <1>8, <1>0 DEF CloseRenderer, Shutdown
  <1>9. CASE Finish BY <1>9, <1>0 DEF Finish, Shutdown
  <1>10. CASE UNCHANGED <<wpc, held, results, resultsClosed, cpc, errcClosed>>
    BY <1>10, <1>0 DEF Shutdown
  <1> QED BY <1>1, <1>2, <1>3, <1>4, <1>5, <1>6, <1>7, <1>8, <1>9, <1>10
          DEF Next, PipelineStep, CollectorStep, CancelContext, Consume, vars

\* The end of the collector's loop is the step that matters: with no error and
\* no cancellation every worker has finished its chunk, the chunks cover the
\* frames, and so a frame that "out" still lacks would be in the buffer.
LEMMA StreamEndsStep ==
  ASSUME IInv, [Next]_vars
  PROVE  StreamEnds'
  <1> USE DEF workerVars, reorderVars, collectorVars, resultsVars, ctxVars
  <1>0. TypeOK /\ StreamEnds BY DEF IInv
  <1>1. CASE EndCollect
    <2>1. SUFFICES ASSUME ~ firstErr, ~ ctxDone, ~ closed PROVE FALSE
      BY <1>1 DEF EndCollect, StreamEnds
    <2>2. cpc = "receive" /\ results = << >> /\ resultsClosed BY <1>1 DEF EndCollect
    <2>3. ~ renderDone BY <2>1, <2>2 DEF IInv, ReturnReason
    <2>4. \A w \in Worker : done[w] = ChunkSize(w)
      <3>1. Len(results) = 0 BY <2>2
      <3>2. \A i \in 1 .. Len(results) : FALSE BY <3>1
      <3> QED BY <2>2, <2>3, <3>2 DEF IInv, ReturnReason, Shutdown
    <2>5. next \in Nat /\ next < Total
      BY <2>1, <2>2, <1>0, TotalType DEF IInv, InRange, PushProtocol, TypeOK
    <2>6. PICK w \in Worker : next \in Chunk(w)
      BY <2>5, ChunksCover, TotalType
    <2>7. next < next \/ next \in buf \/ \E i \in 1 .. Len(results) : results[i].seq = next
      BY <2>1, <2>4, <2>6 DEF Chunk, IInv, Kept
    <2>8. next \notin buf BY <2>1, <2>2 DEF IInv, PushProtocol
    <2>9. \A i \in 1 .. Len(results) : FALSE BY <2>2
    <2> QED BY <2>5, <2>7, <2>8, <2>9
  <1>2. ASSUME NEW w \in Worker, WorkerStep(w) PROVE UNCHANGED <<cpc, firstErr, ctxDone, closed>>
    BY <1>2 DEF WorkerStep, WorkerReturn, BeginFrame, AcquireBrowser, AcquireFails,
                CaptureFrame, CaptureFails, WriteFile, SendResult
  <1>3. CASE ReceiveFrame \/ ReceiveError \/ Emit \/ EndPush
    <2>1. cpc' \in {"receive", "push"}
      BY <1>3 DEF ReceiveFrame, ReceiveError, Emit, EndPush
    <2> QED BY <2>1 DEF StreamEnds
  <1>4. CASE CloseRenderer \/ Finish
    BY <1>0, <1>4 DEF CloseRenderer, Finish, StreamEnds
  <1>5. CASE UNCHANGED <<cpc, firstErr, ctxDone, closed>> BY <1>0, <1>5 DEF StreamEnds
  <1>6. CASE CancelContext BY <1>6 DEF CancelContext, StreamEnds
  <1> QED BY <1>1, <1>2, <1>3, <1>4, <1>5, <1>6
          DEF Next, PipelineStep, CollectorStep, CloseResults, Consume, vars

LEMMA NextIInv == IInv /\ [Next]_vars => IInv'
  <1> SUFFICES ASSUME IInv, [Next]_vars PROVE IInv' OBVIOUS
  <1>1. TypeOK' BY NextType DEF IInv
  <1>2. InOrderDelivery' BY InOrderStep DEF IInv
  <1>3. ClosedIsCompleteOrFailed' BY ClosedStep
  <1>4. InChunk' /\ InRange' BY InChunkStep, InRangeStep
  <1>5. PushProtocol' /\ Kept' BY PushProtocolStep, KeptStep
  <1>6. ReturnReason' /\ Shutdown' BY ReturnReasonStep, ShutdownStep
  <1>7. StreamEnds' BY StreamEndsStep
  <1> QED BY <1>1, <1>2, <1>3, <1>4, <1>5, <1>6, <1>7 DEF IInv

THEOREM Invariance == Spec => []IInv
  BY InitIInv, NextIInv, PTL DEF Spec

-----------------------------------------------------------------------------
(* Where a frame is.                                                       *)

\* The chunks follow each other without overlapping.
LEMMA ChunksApart ==
  ASSUME NEW v \in Worker, NEW w \in Worker, v < w
  PROVE  Offset(v) + ChunkSize(v) <= Offset(w)
  <1> DEFINE q == Total \div NumWorkers
             r == Total % NumWorkers
             d == w - (v + 1)
  <1>1. q \in Nat /\ r \in Nat BY TotalType, PipelineAssumption, DivMod
  <1>2. v \in Nat /\ w \in Nat BY PipelineAssumption DEF Worker
  <1>3. d \in Nat /\ w = (v + 1) + d BY <1>2
  <1> HIDE DEF d
  <1>4. w * q = v * q + q + d * q /\ v * q \in Nat /\ d * q \in Nat BY <1>1, <1>2, <1>3
  <1>5. /\ Offset(w) = w * q + (IF w < r THEN w ELSE r)
        /\ Offset(v) = v * q + (IF v < r THEN v ELSE r)
        /\ ChunkSize(v) = q + (IF v < r THEN 1 ELSE 0)
    BY DEF Offset, ChunkSize
  <1> HIDE DEF q, r
  <1> QED BY <1>1, <1>2, <1>3, <1>4, <1>5

\* The frames that some worker has reported.
Reported == UNION {Offset(w) .. Offset(w) + done[w] - 1 : w \in Worker}

\* Everything that is under way or released has been reported, and is in one
\* place only.
Placed ==
  /\ \A i \in 1 .. Len(results) : results[i].seq \in Reported
  /\ \A s \in buf : s \in Reported
  /\ \A s \in Nat : s < next => s \in Reported
  /\ \A s \in buf : s > next \/ (s = next /\ cpc = "push")
  /\ \A i, j \in 1 .. Len(results) : i # j => results[i].seq # results[j].seq
  /\ \A i \in 1 .. Len(results) : results[i].seq >= next /\ results[i].seq \notin buf

LEMMA InitPlaced == Init => Placed
  BY DEF Init, Placed

\* The frame in a worker's hands is not yet reported by anybody.
LEMMA CurrentIsNew ==
  ASSUME IInv, NEW w \in Worker, wpc[w] = "send"
  PROVE  Current(w) \in Nat /\ Current(w) \notin Reported
  <1>1. TypeOK /\ InChunk BY DEF IInv
  <1>2. done[w] \in Nat /\ done[w] < ChunkSize(w) BY <1>1 DEF TypeOK, InChunk
  <1>3. Offset(w) \in Nat /\ ChunkSize(w) \in Nat BY ChunkType
  <1>4. ASSUME NEW v \in Worker, Current(w) \in Offset(v) .. Offset(v) + done[v] - 1
        PROVE  FALSE
    <2>1. done[v] \in Nat /\ done[v] <= ChunkSize(v) BY <1>1 DEF TypeOK, InChunk
    <2>2. Offset(v) \in Nat /\ ChunkSize(v) \in Nat BY ChunkType
    <2>3. v \in Nat /\ w \in Nat BY PipelineAssumption DEF Worker
    <2>4. CASE v = w BY <1>2, <1>3, <1>4, <2>4 DEF Current
    <2>5. CASE v < w
      <3>1. Offset(v) + ChunkSize(v) <= Offset(w) BY <2>5, ChunksApart
      <3> QED BY <3>1, <1>2, <1>3, <1>4, <2>1, <2>2 DEF Current
    <2>6. CASE w < v
      <3>1. Offset(w) + ChunkSize(w) <= Offset(v) BY <2>6, ChunksApart
      <3> QED BY <3>1, <1>2, <1>3, <1>4, <2>1, <2>2 DEF Current
    <2> QED BY <2>3, <2>4, <2>5, <2>6
  <1> QED BY <1>2, <1>3, <1>4 DEF Reported, Current

\* A step other than a send reports nothing, and none takes a report back.
LEMMA ReportedStep ==
  ASSUME TypeOK, [Next]_vars
  PROVE  /\ Reported \subseteq Reported'
         /\ \A w \in Worker : SendResult(w) => Current(w) \in Reported'
  <1> USE DEF workerVars, reorderVars, collectorVars, resultsVars, ctxVars
  <1>0. /\ \A v \in Worker : Offset(v)' = Offset(v) /\ Offset(v) \in Nat
        /\ \A v \in Worker : done[v] \in Nat
    BY ChunkType DEF Offset, Total, TypeOK
  <1>1. ASSUME NEW w \in Worker, SendResult(w)
        PROVE  done'[w] = done[w] + 1 /\ \A v \in Worker : v # w => done'[v] = done[v]
    BY <1>1 DEF SendResult, TypeOK
  <1>2. ASSUME NEW w \in Worker, WorkerStep(w) PROVE SendResult(w) \/ UNCHANGED done
    BY <1>2 DEF WorkerStep, WorkerReturn, BeginFrame, AcquireBrowser, AcquireFails,
                CaptureFrame, CaptureFails, WriteFile
  <1>3. CollectorStep => UNCHANGED done
    BY DEF CollectorStep, ReceiveFrame, ReceiveError, Emit, EndPush, EndCollect,
           CloseRenderer, Finish
  <1>4. (\E w \in Worker : SendResult(w)) \/ UNCHANGED done
    BY <1>2, <1>3 DEF Next, PipelineStep, CloseResults, CancelContext, Consume, vars
  <1>5. \A v \in Worker : done'[v] \in Nat /\ done'[v] >= done[v]
    BY <1>0, <1>1, <1>4
  <1>6. ASSUME NEW s \in Reported PROVE s \in Reported'
    <2>1. PICK v \in Worker : s \in Offset(v) .. Offset(v) + done[v] - 1
      BY <1>6 DEF Reported
    <2>2. s \in Offset(v) .. Offset(v) + done'[v] - 1 BY <2>1, <1>0, <1>5
    <2> QED BY <2>2, <1>0 DEF Reported
  <1>7. ASSUME NEW w \in Worker, SendResult(w) PROVE Current(w) \in Reported'
    <2>1. Offset(w) + done[w] \in Offset(w) .. Offset(w) + done'[w] - 1
      BY <1>0, <1>1, <1>7
    <2>2. Current(w) = Offset(w) + done[w] BY DEF Current
    <2> QED BY <2>1, <2>2, <1>0 DEF Reported
  <1> QED BY <1>6, <1>7

LEMMA PlacedStep ==
  ASSUME IInv, Placed, [Next]_vars
  PROVE  Placed'
  <1> USE DEF workerVars, reorderVars, collectorVars, resultsVars, ctxVars
  <1>0. TypeOK BY DEF IInv
  <1>1. /\ Reported \subseteq Reported'
        /\ \A w \in Worker : SendResult(w) => Current(w) \in Reported'
    BY <1>0, ReportedStep
  <1>2. /\ next \in Nat /\ buf \subseteq Nat /\ Len(results) \in Nat
        /\ results # << >> => 1 \in 1 .. Len(results) /\ Head(results) = results[1]
        /\ \A i \in 1 .. Len(results) : results[i].seq \in Nat
    <2>1. results \in Seq(Result) /\ next \in Nat /\ buf \subseteq Nat BY <1>0 DEF TypeOK
    <2>2. Len(results) \in Nat /\ \A i \in 1 .. Len(results) : results[i] \in Result BY <2>1
    <2>3. results # << >> => 1 \in 1 .. Len(results) /\ Head(results) = results[1] BY <2>1
    <2>4. \A i \in 1 .. Len(results) : results[i].seq \in Nat BY <2>2 DEF Result
    <2> QED BY <2>1, <2>2, <2>3, <2>4
  <1>3. CASE UNCHANGED <<results, buf, next>> /\ (cpc' # cpc => next \notin buf \/ cpc # "push")
    BY <1>1, <1>2, <1>3 DEF Placed
  <1>4. ASSUME NEW w \in Worker, SendResult(w) PROVE Placed'
    <2>1. /\ Len(results') = Len(results) + 1
          /\ results'[Len(results) + 1].seq = Current(w)
          /\ \A i \in 1 .. Len(results) : results'[i] = results[i]
      <3> DEFINE msg == [seq |-> Current(w), err |-> failed[w]]
      <3>1. results' = Append(results, msg) /\ msg.seq = Current(w)
        BY <1>4 DEF SendResult
      <3>2. results \in Seq(Result) BY <1>0 DEF TypeOK
      <3> HIDE DEF msg
      <3> QED BY <3>1, <3>2
    <2>2. UNCHANGED <<buf, next, cpc>> BY <1>4 DEF SendResult
    <2>3. Current(w) \in Nat /\ Current(w) \notin Reported BY <1>4, CurrentIsNew DEF SendResult
    <2>4. Current(w) \in Reported' BY <1>1, <1>4
    <2>5. \A i \in 1 .. Len(results') :
            \/ i \in 1 .. Len(results) /\ results'[i] = results[i]
            \/ i = Len(results) + 1 /\ results'[i].seq = Current(w)
      BY <1>2, <2>1
    <2>6. \A i \in 1 .. Len(results) : results[i].seq # Current(w) BY <2>3 DEF Placed
    <2>7. Current(w) \notin buf /\ Current(w) >= next BY <1>2, <2>3 DEF Placed
    <2>8. \A i \in 1 .. Len(results') : results'[i].seq \in Reported'
      <3>1. \A i \in 1 .. Len(results) : results[i].seq \in Reported' BY <1>1 DEF Placed
      <3> QED BY <3>1, <2>4, <2>5
    <2>9. \A i \in 1 .. Len(results') : results'[i].seq >= next /\ results'[i].seq \notin buf
      BY <2>5, <2>7 DEF Placed
    <2>10. \A i, j \in 1 .. Len(results') : i # j => results'[i].seq # results'[j].seq
      BY <2>5, <2>6 DEF Placed
    <2> QED BY <1>1, <2>2, <2>8, <2>9, <2>10 DEF Placed
  <1>5. ASSUME results # << >>, Len(results') = Len(results) - 1,
               \A i \in 1 .. Len(results') : results'[i] = results[i + 1],
               ReceiveFrame \/ ReceiveError
        PROVE  Placed'
    <2>1. \A i \in 1 .. Len(results') :
            i + 1 \in 1 .. Len(results) /\ i + 1 # 1 /\ results'[i] = results[i + 1]
      BY <1>2, <1>5
    <2>2. /\ next' = next /\ (cpc' = cpc \/ cpc' = "push") /\ cpc = "receive"
          /\ \/ UNCHANGED buf
             \/ buf' = buf \cup {results[1].seq} /\ cpc' = "push"
      BY <1>2, <1>5 DEF ReceiveFrame, ReceiveError
    <2>3. results[1].seq >= next /\ results[1].seq \in Reported /\ results[1].seq \in Nat
      BY <1>2, <1>5 DEF Placed
    <2>4. \A i \in 1 .. Len(results') : results'[i].seq # results[1].seq
      BY <2>1, <1>2, <1>5 DEF Placed
    <2>5. \A i, j \in 1 .. Len(results') : i # j => results'[i].seq # results'[j].seq
      <3>1. ASSUME NEW i \in 1 .. Len(results'), NEW j \in 1 .. Len(results'), i # j
            PROVE  results'[i].seq # results'[j].seq
        <4>1. i + 1 # j + 1 BY <3>1
        <4> QED BY <2>1, <4>1 DEF Placed
      <3> QED BY <3>1
    <2>6. \A i \in 1 .. Len(results') : results'[i].seq >= next' /\ results'[i].seq \notin buf'
      BY <2>1, <2>2, <2>4 DEF Placed
    <2>7. \A i \in 1 .. Len(results') : results'[i].seq \in Reported'
      <3>1. \A i \in 1 .. Len(results) : results[i].seq \in Reported' BY <1>1 DEF Placed
      <3> QED BY <3>1, <2>1
    <2>8. \A s \in buf' : s \in Reported'
      <3>1. \A s \in buf' : s \in Reported BY <2>2, <2>3 DEF Placed
      <3> QED BY <3>1, <1>1
    <2>9. \A s \in buf' : s > next' \/ (s = next' /\ cpc' = "push")
      <3>1. \A s \in buf : s > next BY <2>2 DEF Placed
      <3>2. results[1].seq > next \/ results[1].seq = next BY <2>3, <1>2
      <3> QED BY <3>1, <3>2, <2>2
    <2>10. \A s \in Nat : s < next' => s \in Reported' BY <2>2, <1>1 DEF Placed
    <2> QED BY <2>5, <2>6, <2>7, <2>8, <2>9, <2>10 DEF Placed
  <1>6. CASE Emit
    <2>1. /\ next \in buf /\ buf' = buf \ {next} /\ next' = next + 1
          /\ UNCHANGED <<results, cpc>> /\ cpc = "push"
      BY <1>6 DEF Emit
    <2>2. \A s \in Nat : s < next' => s < next \/ s = next BY <2>1, <1>2
    <2>3. \A s \in Nat : s < next' => s \in Reported BY <2>1, <2>2 DEF Placed
    <2>4. \A s \in buf' : s > next' \/ s = next'
      <3>1. ASSUME NEW s \in buf' PROVE s > next' \/ s = next'
        <4>1. s \in Nat /\ s > next BY <2>1, <1>2 DEF Placed
        <4> QED BY <4>1, <2>1, <1>2
      <3> QED BY <3>1
    <2>5. \A i \in 1 .. Len(results) : results[i].seq >= next' /\ results[i].seq \notin buf'
      <3>1. ASSUME NEW i \in 1 .. Len(results)
            PROVE  results[i].seq >= next' /\ results[i].seq \notin buf'
        <4>1. /\ results[i].seq >= next /\ results[i].seq \notin buf /\ results[i].seq # next
              /\ results[i].seq \in Nat
          BY <2>1, <1>2 DEF Placed
        <4> QED BY <4>1, <2>1, <1>2
      <3> QED BY <3>1
    <2>6. \A s \in buf' : s \in Reported BY <2>1 DEF Placed
    <2> QED BY <1>1, <2>1, <2>3, <2>4, <2>5, <2>6 DEF Placed
  <1>7. ASSUME NEW w \in Worker, WorkerStep(w)
        PROVE  SendResult(w) \/ UNCHANGED <<results, buf, next, cpc>>
    BY <1>7 DEF WorkerStep, WorkerReturn, BeginFrame, AcquireBrowser, AcquireFails,
                CaptureFrame, CaptureFails, WriteFile
  <1>8. CollectorStep =>
          \/ ReceiveFrame \/ ReceiveError \/ Emit
          \/ UNCHANGED <<results, buf, next>> /\ (cpc' # cpc => next \notin buf \/ cpc # "push")
    BY DEF CollectorStep, EndPush, EndCollect, CloseRenderer, Finish
  <1>9. ReceiveFrame \/ ReceiveError =>
          /\ results # << >>
          /\ Len(results') = Len(results) - 1
          /\ \A i \in 1 .. Len(results') : results'[i] = results[i + 1]
    <2>1. ReceiveFrame \/ ReceiveError => results # << >> /\ results' = Tail(results)
      BY DEF ReceiveFrame, ReceiveError
    <2>2. results \in Seq(Result) BY <1>0 DEF TypeOK
    <2> QED BY <2>1, <2>2
  <1>10. CASE UNCHANGED <<results, buf, next, cpc>> BY <1>3, <1>10
  <1> QED BY <1>3, <1>4, <1>5, <1>6, <1>7, <1>8, <1>9, <1>10
          DEF Next, PipelineStep, CloseResults, CancelContext, Consume, vars

LEMMA AlwaysPlaced == Spec => [](IInv /\ Placed)
  <1>1. IInv /\ Placed /\ [Next]_vars => Placed' BY PlacedStep
  <1> QED BY <1>1, InitPlaced, Invariance, PTL DEF Spec

\* A reported frame is never lost on its way to the reader and never in two
\* places: for every number of frames and workers.
THEOREM FramesConserved == Spec => []FrameConservation
  <1>1. IInv /\ Placed => FrameConservation
    <2>1. ASSUME IInv, Placed PROVE FrameConservation
      <3>1. ~ closed =>
              \A w \in Worker : \A s \in Offset(w) .. Offset(w) + done[w] - 1 :
                s < next \/ s \in buf \/ s \in {results[i].seq : i \in 1 .. Len(results)}
        BY <2>1 DEF IInv, Kept
      <3>2. \A s \in {results[i].seq : i \in 1 .. Len(results)} : s >= next /\ s \notin buf
        BY <2>1 DEF Placed
      <3> QED BY <2>1, <3>1, <3>2 DEF Placed, FrameConservation
    <2> QED BY <2>1
  <1> QED BY <1>1, AlwaysPlaced, PTL

-----------------------------------------------------------------------------
(* A pool that is too small.                                               *)

\* An error is known, or is on its way to the collector.
ErrorOnTheWay == firstErr \/ \E i \in 1 .. Len(results) : results[i].err

\* A worker that has got as far as a picture holds its browser until the collector
\* takes it away, unless it has failed, and then an error is on its way.
HoldsOn ==
  /\ Cardinality(held) <= browsers
  /\ \A w \in Worker :
       /\ wpc[w] \in {"check", "acquire", "capture", "write"} => ~ failed[w]
       /\ ~ failed[w] /\ (wpc[w] \in {"capture", "write", "send"} \/ done[w] > 0)
            => w \in held \/ cpc \in {"finish", "ended"}
       /\ failed[w] /\ wpc[w] # "send" => ErrorOnTheWay
  /\ ShortPoolFails

LEMMA HeldFinite ==
  ASSUME TypeOK
  PROVE  IsFiniteSet(held) /\ Cardinality(held) \in Nat /\ browsers \in Nat \ {0}
  <1>1. NumWorkers - 1 \in Int BY PipelineAssumption
  <1>2. IsFiniteSet(Worker) BY <1>1, FS_Interval DEF Worker
  <1>3. IsFiniteSet(held) BY <1>2, FS_Subset DEF TypeOK
  <1>4. browsers \in Nat \ {0}
    <2>1. PoolSize \in Nat \ {0} BY PipelineAssumption
    <2>2. PoolSize >= 2 => PoolSize \div 2 \in Nat \ {0} BY <2>1
    <2> QED BY <2>1, <2>2 DEF TypeOK, WarmedSizes
  <1> QED BY <1>3, <1>4, FS_CardinalityType

LEMMA InitHoldsOn == Init => HoldsOn
  <1> SUFFICES ASSUME Init PROVE HoldsOn OBVIOUS
  <1>1. Cardinality(held) = 0 BY FS_EmptySet DEF Init
  <1>2. browsers \in Nat BY InitType, HeldFinite
  <1> QED BY <1>1, <1>2 DEF Init, HoldsOn, ShortPoolFails

\* An error stays on its way until the collector has seen it.
LEMMA ErrorStep ==
  ASSUME IInv, [Next]_vars, ErrorOnTheWay
  PROVE  ErrorOnTheWay'
  <1> USE DEF workerVars, reorderVars, collectorVars, resultsVars, ctxVars
  <1>1. TypeOK /\ results \in Seq(Result) /\ Len(results) \in Nat BY DEF IInv, TypeOK
  <1>2. CASE UNCHANGED <<firstErr, results>> BY <1>2 DEF ErrorOnTheWay
  <1>3. ASSUME NEW w \in Worker, SendResult(w) PROVE ErrorOnTheWay'
    <2> DEFINE msg == [seq |-> Current(w), err |-> failed[w]]
    <2>1. results' = Append(results, msg) /\ firstErr' = firstErr BY <1>3 DEF SendResult
    <2> HIDE DEF msg
    <2>2. /\ Len(results') = Len(results) + 1
          /\ \A i \in 1 .. Len(results) : results'[i] = results[i]
      BY <2>1, <1>1
    <2>3. \A i \in 1 .. Len(results) : i \in 1 .. Len(results') BY <2>2, <1>1
    <2> QED BY <2>1, <2>2, <2>3 DEF ErrorOnTheWay
  <1>4. CASE ReceiveFrame
    <2>1. /\ results # << >> /\ results' = Tail(results) /\ ~ results[1].err
          /\ UNCHANGED firstErr
      BY <1>1, <1>4 DEF ReceiveFrame
    <2>2. /\ Len(results') = Len(results) - 1
          /\ \A i \in 1 .. Len(results') : results'[i] = results[i + 1]
      BY <1>1, <2>1
    <2>3. ASSUME NEW i \in 1 .. Len(results), results[i].err
          PROVE  \E j \in 1 .. Len(results') : results'[j].err
      <3>1. i # 1 BY <2>1, <2>3
      <3>2. i - 1 \in 1 .. Len(results') /\ (i - 1) + 1 = i BY <3>1, <2>2, <1>1
      <3> QED BY <3>2, <2>2, <2>3
    <2> QED BY <2>1, <2>3 DEF ErrorOnTheWay
  <1>5. CASE ReceiveError BY <1>5 DEF ReceiveError, ErrorOnTheWay
  <1>6. ASSUME NEW w \in Worker, WorkerStep(w), ~ SendResult(w) PROVE UNCHANGED <<firstErr, results>>
    BY <1>6 DEF WorkerStep, WorkerReturn, BeginFrame, AcquireBrowser, AcquireFails,
                CaptureFrame, CaptureFails, WriteFile
  <1>7. CASE Emit \/ EndPush \/ EndCollect \/ CloseRenderer \/ Finish
    BY <1>2, <1>7 DEF Emit, EndPush, EndCollect, CloseRenderer, Finish
  <1> QED BY <1>2, <1>3, <1>4, <1>5, <1>6, <1>7
          DEF Next, PipelineStep, CollectorStep, CloseResults, CancelContext, Consume, vars

\* A worker's step keeps its own browser in order and leaves the others theirs.
LEMMA HoldsOnWorker ==
  ASSUME IInv, HoldsOn, NEW w \in Worker, WorkerStep(w)
  PROVE  HoldsOn'
  <1> USE DEF workerVars, reorderVars, collectorVars, resultsVars, ctxVars
  <1>0. /\ TypeOK /\ wpc \in [Worker -> WorkerPC] /\ done \in [Worker -> Nat]
        /\ failed \in [Worker -> BOOLEAN]
    BY DEF IInv, TypeOK
  <1>1. UNCHANGED <<cpc, firstErr, ctxDone, browsers>> /\ WorkerStep(w)
    BY DEF WorkerStep, WorkerReturn, BeginFrame, AcquireBrowser, AcquireFails,
           CaptureFrame, CaptureFails, WriteFile, SendResult
  <1>2. ShortPoolFails' BY <1>1 DEF HoldsOn, ShortPoolFails, ChunkSize, Total
  <1>3. ErrorOnTheWay => ErrorOnTheWay'
    BY ErrorStep DEF Next, PipelineStep
  <1>4. /\ Cardinality(held') <= browsers
        /\ \A v \in Worker \ {w} : v \in held => v \in held'
    <2>1. /\ IsFiniteSet(held) /\ Cardinality(held) \in Nat /\ browsers \in Nat
          /\ Cardinality(held) <= browsers
      BY <1>0, HeldFinite DEF HoldsOn
    <2>2. CASE AcquireBrowser(w)
      <3>1. held' = held \cup {w} /\ Cardinality(held) < browsers
        BY <2>2 DEF AcquireBrowser
      <3>2. Cardinality(held \cup {w}) =
              IF w \in held THEN Cardinality(held) ELSE Cardinality(held) + 1
        BY <2>1, FS_AddElement
      <3>3. Cardinality(held') <= browsers BY <3>1, <3>2, <2>1
      <3> QED BY <3>1, <3>3
    <2>3. CASE CaptureFails(w)
      <3>1. held' = held \ {w} BY <2>3 DEF CaptureFails
      <3>2. Cardinality(held \ {w}) =
              IF w \in held THEN Cardinality(held) - 1 ELSE Cardinality(held)
        BY <2>1, FS_RemoveElement
      <3> QED BY <3>1, <3>2, <2>1
    <2>4. CASE ~ AcquireBrowser(w) /\ ~ CaptureFails(w)
      <3>1. held' = held
        BY <2>4 DEF WorkerStep, WorkerReturn, BeginFrame, AcquireFails, CaptureFrame,
                    WriteFile, SendResult
      <3> QED BY <3>1, <2>1
    <2> QED BY <2>2, <2>3, <2>4
  <1>5. \A v \in Worker \ {w} : wpc'[v] = wpc[v] /\ done'[v] = done[v] /\ failed'[v] = failed[v]
    BY <1>0 DEF WorkerStep, WorkerReturn, BeginFrame, AcquireBrowser, AcquireFails,
                CaptureFrame, CaptureFails, WriteFile, SendResult
  <1> DEFINE Good(v) ==
        /\ wpc[v] \in {"check", "acquire", "capture", "write"} => ~ failed[v]
        /\ ~ failed[v] /\ (wpc[v] \in {"capture", "write", "send"} \/ done[v] > 0)
             => v \in held \/ cpc \in {"finish", "ended"}
        /\ failed[v] /\ wpc[v] # "send" => ErrorOnTheWay
  <1>6. \A v \in Worker : Good(v) BY DEF HoldsOn
  <1>7. ASSUME NEW v \in Worker \ {w} PROVE Good(v)'
    BY <1>1, <1>3, <1>4, <1>5, <1>6
  <1>8. Good(w)'
    <2>1. CASE WorkerReturn(w) \/ BeginFrame(w)
      BY <2>1, <1>0, <1>1, <1>6 DEF WorkerReturn, BeginFrame
    <2>2. CASE AcquireBrowser(w) BY <2>2, <1>0, <1>1, <1>6 DEF AcquireBrowser
    <2>3. CASE AcquireFails(w) \/ CaptureFails(w)
      BY <2>3, <1>0, <1>1 DEF AcquireFails, CaptureFails
    <2>4. CASE CaptureFrame(w) \/ WriteFile(w)
      BY <2>4, <1>0, <1>1, <1>6 DEF CaptureFrame, WriteFile
    <2>5. CASE SendResult(w)
      <3>1. UNCHANGED <<held, failed>> /\ wpc[w] = "send"
            /\ wpc'[w] = (IF failed[w] THEN "returned" ELSE "check")
        BY <2>5, <1>0 DEF SendResult
      <3>2. failed[w] => ErrorOnTheWay'
        <4> DEFINE msg == [seq |-> Current(w), err |-> failed[w]]
        <4>1. results' = Append(results, msg) /\ msg.err = failed[w]
          BY <2>5 DEF SendResult
        <4>2. results \in Seq(Result) BY <1>0 DEF TypeOK
        <4> HIDE DEF msg
        <4>3. Len(results) + 1 \in 1 .. Len(results') /\ results'[Len(results) + 1] = msg
          BY <4>1, <4>2
        <4> QED BY <4>1, <4>3 DEF ErrorOnTheWay
      <3> QED BY <3>1, <3>2, <1>0, <1>1, <1>6
    <2> QED BY <2>1, <2>2, <2>3, <2>4, <2>5 DEF WorkerStep
  <1> QED BY <1>1, <1>2, <1>4, <1>7, <1>8 DEF HoldsOn

LEMMA HoldsOnStep ==
  ASSUME IInv, HoldsOn, [Next]_vars
  PROVE  HoldsOn'
  <1> USE DEF workerVars, reorderVars, collectorVars, resultsVars, ctxVars
  <1>0. TypeOK /\ ReturnReason /\ Shutdown BY DEF IInv
  <1>1. ErrorOnTheWay => ErrorOnTheWay' BY ErrorStep
  <1>2. ASSUME UNCHANGED <<wpc, done, failed, held, browsers>>,
               cpc \in {"finish", "ended"} => cpc' \in {"finish", "ended"},
               ShortPoolFails'
        PROVE  HoldsOn'
    BY <1>1, <1>2 DEF HoldsOn
  <1>3. ASSUME NEW w \in Worker, WorkerStep(w) PROVE HoldsOn'
    BY <1>3, HoldsOnWorker
  <1>4. CASE EndCollect
    <2>1. /\ cpc = "receive" /\ results = << >> /\ resultsClosed
          /\ UNCHANGED <<wpc, done, failed, held, browsers, firstErr, ctxDone>>
      BY <1>4 DEF EndCollect
    <2>2. ASSUME ~ firstErr, ~ ctxDone
          PROVE  Cardinality({w \in Worker : ChunkSize(w) > 0}) <= browsers
      <3> DEFINE Started == {w \in Worker : ChunkSize(w) > 0}
      <3>1. ~ renderDone BY <2>1, <2>2, <1>0 DEF ReturnReason
      <3>2. ~ \E i \in 1 .. Len(results) : results[i].err
        <4>1. Len(results) = 0 BY <2>1
        <4> QED BY <4>1
      <3>3. \A w \in Worker : wpc[w] = "returned" /\ done[w] = ChunkSize(w)
        BY <2>1, <3>1, <3>2, <1>0 DEF ReturnReason, Shutdown
      <3>4. ~ ErrorOnTheWay BY <2>2, <3>2 DEF ErrorOnTheWay
      <3>5. \A w \in Worker : ~ failed[w] BY <3>3, <3>4 DEF HoldsOn
      <3>6. Started \in SUBSET held BY <2>1, <3>3, <3>5 DEF HoldsOn
      <3>7. Cardinality(held) <= browsers BY DEF HoldsOn
      <3>8. /\ IsFiniteSet(held) /\ Cardinality(held) \in Nat /\ browsers \in Nat
        BY <1>0, HeldFinite
      <3> HIDE DEF Started
      <3>9. Cardinality(Started) <= Cardinality(held) /\ Cardinality(Started) \in Nat
        BY <3>6, <3>8, FS_Subset, FS_CardinalityType
      <3>10. Cardinality(Started) <= browsers BY <3>7, <3>8, <3>9
      <3> QED BY <3>10 DEF Started
    <2>3. ShortPoolFails' BY <2>1, <2>2 DEF ShortPoolFails, ChunkSize, Total
    <2> QED BY <1>2, <2>1, <2>3
  <1>5. CASE CloseRenderer
    <2>1. /\ cpc = "release" /\ cpc' = "finish" /\ held' = {}
          /\ UNCHANGED <<wpc, done, failed, browsers, firstErr, ctxDone>>
      BY <1>5 DEF CloseRenderer
    <2>2. ShortPoolFails' BY <2>1 DEF HoldsOn, ShortPoolFails, ChunkSize, Total
    <2>3. Cardinality(held') <= browsers'
      <3>1. Cardinality(held') = 0 BY <2>1, FS_EmptySet
      <3> QED BY <2>1, <3>1, <1>0, HeldFinite
    <2> QED BY <1>1, <2>1, <2>2, <2>3 DEF HoldsOn
  <1>6. CASE ReceiveFrame \/ ReceiveError \/ Emit \/ EndPush
    <2>1. /\ cpc \in {"receive", "push"} /\ cpc' \in {"receive", "push"}
          /\ UNCHANGED <<wpc, done, failed, held, browsers>>
      BY <1>6 DEF ReceiveFrame, ReceiveError, Emit, EndPush
    <2> QED BY <1>2, <2>1 DEF ShortPoolFails
  <1>7. CASE Finish \/ CloseResults \/ CancelContext \/ Consume \/ UNCHANGED vars
    <2>1. /\ UNCHANGED <<wpc, done, failed, held, browsers, firstErr>>
          /\ ctxDone => ctxDone'
          /\ cpc' = cpc \/ (cpc = "finish" /\ cpc' = "ended")
      BY <1>7 DEF Finish, CloseResults, CancelContext, Consume, vars
    <2>2. ShortPoolFails' BY <2>1 DEF HoldsOn, ShortPoolFails, ChunkSize, Total
    <2> QED BY <1>2, <2>1, <2>2
  <1> QED BY <1>3, <1>4, <1>5, <1>6, <1>7 DEF Next, PipelineStep, CollectorStep

-----------------------------------------------------------------------------
(* The properties.                                                         *)

\* Whatever the number of workers and the order in which they finish, the
\* reader of "out" gets the frames in sequence order, each exactly once.
THEOREM InOrder == Spec => []InOrderDelivery
  <1>1. IInv => InOrderDelivery BY DEF IInv
  <1> QED BY <1>1, Invariance, PTL

\* A reader that sees the end of "out" has every frame, or an error follows.
THEOREM ClosedComplete == Spec => []ClosedIsCompleteOrFailed
  <1>1. IInv => ClosedIsCompleteOrFailed BY DEF IInv
  <1> QED BY <1>1, Invariance, PTL

\* A render with no error and no cancellation never ends with "out" open: for
\* every number of frames and workers the chunks cover all the frames.
THEOREM StreamAlwaysEnds == Spec => []StreamEnds
  <1>1. IInv => StreamEnds BY DEF IInv
  <1> QED BY <1>1, Invariance, PTL

\* With fewer browsers in the pool than started workers no render succeeds, for every
\* number of workers and frames.
THEOREM ShortPoolAlwaysFails == Spec => []ShortPoolFails
  <1>1. HoldsOn => ShortPoolFails BY DEF HoldsOn
  <1>2. IInv /\ HoldsOn /\ [Next]_vars => HoldsOn' BY HoldsOnStep
  <1> QED BY <1>1, <1>2, InitHoldsOn, Invariance, PTL DEF Spec

\* When Run reports its end, every browser is back in the pool, and no worker
\* is left to take another.
THEOREM BrowsersAlwaysReturned == Spec => []BrowsersReturned
  <1>1. IInv => BrowsersReturned BY DEF IInv, Shutdown, BrowsersReturned
  <1> QED BY <1>1, Invariance, PTL

\* No worker sends on "results" after the closer closed it, and Push never sends
\* on "out" after it is closed: neither can panic.
THEOREM NeverSendsOnClosed == Spec => NoSendOnClosedChannel
  <1> USE DEF workerVars, reorderVars, collectorVars, resultsVars, ctxVars
  <1> DEFINE A == /\ closed => Len(out') <= Len(out)
                  /\ resultsClosed => Len(results') <= Len(results)
  <1>1. ASSUME IInv, [Next]_vars PROVE A
    <2>1. TypeOK /\ PushProtocol /\ Shutdown BY <1>1 DEF IInv
    <2>2. out \in Seq(Nat) /\ results \in Seq(Result) BY <2>1 DEF TypeOK
    <2>3. closed => Len(out') <= Len(out)
      <3>1. Emit => ~ closed BY <2>1 DEF Emit, PushProtocol
      <3>2. Consume => Len(out') <= Len(out) BY <2>2 DEF Consume
      <3>3. ASSUME NEW w \in Worker, WorkerStep(w) PROVE UNCHANGED out
        BY <3>3 DEF WorkerStep, WorkerReturn, BeginFrame, AcquireBrowser, AcquireFails,
                    CaptureFrame, CaptureFails, WriteFile, SendResult
      <3>4. CollectorStep => Emit \/ UNCHANGED out
        BY DEF CollectorStep, ReceiveFrame, ReceiveError, EndPush, EndCollect,
               CloseRenderer, Finish
      <3>5. Len(out) \in Nat BY <2>2
      <3>6. UNCHANGED out => Len(out') <= Len(out) BY <3>5
      <3> QED BY <1>1, <3>1, <3>2, <3>3, <3>4, <3>6
              DEF Next, PipelineStep, CloseResults, CancelContext, vars
    <2>4. resultsClosed => Len(results') <= Len(results)
      <3>1. \A w \in Worker : SendResult(w) => ~ resultsClosed
        BY <2>1 DEF SendResult, Shutdown
      <3>2. Len(results) \in Nat BY <2>2
      <3>3. CASE UNCHANGED results
        <4>1. Len(results') = Len(results) BY <3>3
        <4> QED BY <4>1, <3>2
      <3>4. CASE \E w \in Worker : SendResult(w) BY <3>4, <3>1
      <3>5. CASE Len(results') = Len(results) - 1 BY <3>5, <3>2
      <3>6. \/ UNCHANGED results
            \/ \E w \in Worker : SendResult(w)
            \/ Len(results') = Len(results) - 1
        BY <1>1, <2>1, ResultsStep
      <3> QED BY <3>3, <3>4, <3>5, <3>6
    <2> QED BY <2>3, <2>4
  <1>2. IInv /\ [Next]_vars => [A]_<<out, results>> BY <1>1
  <1> QED BY <1>2, Invariance, PTL DEF Spec, NoSendOnClosedChannel

-----------------------------------------------------------------------------
(* Nothing goes on for ever.                                               *)

\* The frames whose result the collector has received.
Collected == Reported \ {results[i].seq : i \in 1 .. Len(results)}

\* How far a worker and the collector have come.
WorkerClock(w) ==
  IF wpc[w] = "returned"
    THEN 5 * ChunkSize(w) + 1
    ELSE 5 * done[w] + (CASE wpc[w] = "check"   -> 0
                          [] wpc[w] = "acquire" -> 1
                          [] wpc[w] = "capture" -> 2
                          [] wpc[w] = "write"   -> 3
                          [] wpc[w] = "send"    -> 4)

CollectorClock ==
  2 * Cardinality(Collected) + (CASE cpc = "push"    -> 0
                                  [] cpc = "receive" -> 1
                                  [] cpc = "release" -> 2
                                  [] cpc = "finish"  -> 3
                                  [] cpc = "ended"   -> 4)

\* The workers, and those who close "results", collect, release frames, read them
\* and cancel the render: how far each has come, and how far anybody can come.
Part == -5 .. NumWorkers - 1

Clock ==
  [p \in Part |->
     CASE p \in Worker -> WorkerClock(p)
       [] p = -1 -> IF resultsClosed THEN 1 ELSE 0
       [] p = -2 -> CollectorClock
       [] p = -3 -> next
       [] p = -4 -> taken
       [] p = -5 -> IF ctxDone THEN 1 ELSE 0]

Horizon == 5 * Total + 5

\* What is still ahead of the parts P with clocks c that go up to n.
Ahead(P, n, c) == {x \in P \X (0 .. n) : c[x[1]] <= x[2]}

\* How many steps the render can still take, at most.
StepsLeft == Cardinality(Ahead(Part, Horizon, Clock))

\* When some clock goes forward and none back, less is ahead.
LEMMA LessAhead ==
  ASSUME NEW P, IsFiniteSet(P), NEW n \in Nat, NEW c, NEW d,
         \A p \in P : c[p] \in 0 .. n /\ d[p] \in 0 .. n /\ c[p] <= d[p],
         \E p \in P : c[p] < d[p]
  PROVE  /\ Cardinality(Ahead(P, n, c)) \in Nat
         /\ Cardinality(Ahead(P, n, d)) \in Nat
         /\ Cardinality(Ahead(P, n, d)) < Cardinality(Ahead(P, n, c))
  <1>0. IsFiniteSet(0 .. n)
    <2>1. 0 \in Int /\ n \in Int OBVIOUS
    <2> QED BY <2>1, FS_Interval
  <1>1. IsFiniteSet(P \X (0 .. n)) BY <1>0, FS_Product
  <1>2. Ahead(P, n, c) \subseteq P \X (0 .. n) BY DEF Ahead
  <1>3. IsFiniteSet(Ahead(P, n, c)) BY <1>1, <1>2, FS_Subset
  <1>4. Ahead(P, n, d) \subseteq Ahead(P, n, c)
    <2>1. ASSUME NEW x \in P \X (0 .. n), d[x[1]] <= x[2] PROVE c[x[1]] <= x[2]
      <3>1. x[1] \in P /\ x[2] \in 0 .. n BY <2>1
      <3> DEFINE p == x[1]
                 m == x[2]
      <3>2. p \in P /\ m \in 0 .. n /\ d[p] <= m BY <2>1, <3>1
      <3> HIDE DEF p, m
      <3>3. c[p] \in 0 .. n /\ d[p] \in 0 .. n /\ c[p] <= d[p] BY <3>2
      <3>4. c[p] <= m BY <3>2, <3>3
      <3> QED BY <3>4 DEF p, m
    <2> QED BY <2>1 DEF Ahead
  <1>5. PICK q \in P : c[q] < d[q] OBVIOUS
  <1>6. Ahead(P, n, d) # Ahead(P, n, c)
    <2>1. c[q] \in 0 .. n /\ d[q] \in 0 .. n BY <1>5
    <2>2. <<q, c[q]>> \in P \X (0 .. n) /\ c[q] <= c[q] /\ ~ (d[q] <= c[q])
      BY <1>5, <2>1
    <2>3. <<q, c[q]>> \in Ahead(P, n, c) /\ <<q, c[q]>> \notin Ahead(P, n, d)
      BY <2>2 DEF Ahead
    <2> QED BY <2>3
  <1>7. /\ IsFiniteSet(Ahead(P, n, d))
        /\ Cardinality(Ahead(P, n, d)) <= Cardinality(Ahead(P, n, c))
        /\ Cardinality(Ahead(P, n, c)) # Cardinality(Ahead(P, n, d))
    BY <1>3, <1>4, <1>6, FS_Subset
  <1>8. Cardinality(Ahead(P, n, c)) \in Nat /\ Cardinality(Ahead(P, n, d)) \in Nat
    BY <1>3, <1>7, FS_CardinalityType
  <1> QED BY <1>7, <1>8

\* Only frames of the render are reported.
LEMMA CollectedType ==
  ASSUME IInv
  PROVE  /\ Reported \subseteq 0 .. Total - 1
         /\ IsFiniteSet(Collected)
         /\ Cardinality(Collected) \in 0 .. Total
  <1>1. Total \in Nat BY TotalType
  <1>2. ASSUME NEW w \in Worker, NEW s \in Offset(w) .. Offset(w) + done[w] - 1
        PROVE  s \in 0 .. Total - 1
    <2>1. Offset(w) \in Nat /\ ChunkSize(w) \in Nat /\ Offset(w) + ChunkSize(w) <= Total
      BY ChunkType, ChunkEnd
    <2>2. done[w] \in Nat /\ done[w] <= ChunkSize(w) BY DEF IInv, TypeOK, InChunk
    <2> QED BY <1>1, <2>1, <2>2
  <1>3. Reported \subseteq 0 .. Total - 1 BY <1>2 DEF Reported
  <1>4. IsFiniteSet(0 .. Total - 1) /\ Cardinality(0 .. Total - 1) = Total
    BY <1>1, FS_Interval
  <1>5. Collected \subseteq 0 .. Total - 1 BY <1>3 DEF Collected
  <1>6. IsFiniteSet(Collected) /\ Cardinality(Collected) <= Total
    BY <1>4, <1>5, FS_Subset
  <1> QED BY <1>1, <1>3, <1>6, FS_CardinalityType

\* The collector receives each frame's result once.
LEMMA CollectedStep ==
  ASSUME IInv, Placed, Next
  PROVE  IF ReceiveFrame \/ ReceiveError
           THEN Cardinality(Collected') = Cardinality(Collected) + 1
           ELSE Collected' = Collected
  <1> USE DEF workerVars, reorderVars, collectorVars, resultsVars, ctxVars
  <1>0. TypeOK /\ results \in Seq(Result) /\ Len(results) \in Nat BY DEF IInv, TypeOK
  <1>1. \A v \in Worker : Offset(v)' = Offset(v) /\ Offset(v) \in Nat
    BY ChunkType DEF Offset, Total
  <1>2. UNCHANGED done => Reported' = Reported
    BY <1>1 DEF Reported
  <1>3. ASSUME NEW w \in Worker, SendResult(w) PROVE Collected' = Collected
    <2> DEFINE msg == [seq |-> Current(w), err |-> failed[w]]
    <2>1. results' = Append(results, msg) /\ msg.seq = Current(w) BY <1>3 DEF SendResult
    <2> HIDE DEF msg
    <2>2. /\ Len(results') = Len(results) + 1
          /\ results'[Len(results) + 1].seq = Current(w)
          /\ \A i \in 1 .. Len(results) : results'[i] = results[i]
      BY <1>0, <2>1
    <2>3. {results'[i].seq : i \in 1 .. Len(results')}
            = {results[i].seq : i \in 1 .. Len(results)} \cup {Current(w)}
      <3>1. 1 .. Len(results') = (1 .. Len(results)) \cup {Len(results) + 1} BY <1>0, <2>2
      <3> QED BY <2>2, <3>1
    <2>4. Current(w) \notin Reported BY <1>3, CurrentIsNew DEF SendResult
    <2>5. Reported' = Reported \cup {Current(w)}
      <3>1. /\ done'[w] = done[w] + 1 /\ done[w] \in Nat
            /\ \A v \in Worker : v # w => done'[v] = done[v]
        BY <1>0, <1>3 DEF SendResult, TypeOK
      <3>2. Offset(w) .. Offset(w) + done'[w] - 1
              = (Offset(w) .. Offset(w) + done[w] - 1) \cup {Current(w)}
        BY <1>1, <3>1 DEF Current
      <3> DEFINE reported(v) == Offset(v) .. Offset(v) + done[v] - 1
                 reportedNow(v) == Offset(v) .. Offset(v) + done'[v] - 1
      <3>3. \A v \in Worker : v # w => reportedNow(v) = reported(v) BY <3>1
      <3>4. reportedNow(w) = reported(w) \cup {Current(w)} BY <3>2
      <3>5. Reported = UNION {reported(v) : v \in Worker} BY DEF Reported
      <3>6. Reported' = UNION {reportedNow(v) : v \in Worker} BY <1>1 DEF Reported
      <3> HIDE DEF reported, reportedNow
      <3> QED BY <3>3, <3>4, <3>5, <3>6
    <2> QED BY <2>3, <2>4, <2>5 DEF Collected
  <1>4. ASSUME ReceiveFrame \/ ReceiveError
        PROVE  Cardinality(Collected') = Cardinality(Collected) + 1
    <2>1. UNCHANGED done /\ results # << >> /\ results' = Tail(results)
      BY <1>4 DEF ReceiveFrame, ReceiveError
    <2>2. /\ Len(results) >= 1
          /\ Len(results') = Len(results) - 1
          /\ \A i \in 1 .. Len(results') : results'[i] = results[i + 1]
      BY <1>0, <2>1
    <2> DEFINE before == {results[i].seq : i \in 1 .. Len(results)}
               after  == {results'[i].seq : i \in 1 .. Len(results')}
               h == results[1].seq
    <2>3. after \subseteq before \ {h}
      <3>1. ASSUME NEW i \in 1 .. Len(results') PROVE results'[i].seq \in before \ {h}
        <4>1. i + 1 \in 1 .. Len(results) /\ 1 \in 1 .. Len(results) /\ i + 1 # 1
          BY <2>2, <1>0
        <4> QED BY <2>2, <4>1 DEF Placed
      <3> QED BY <3>1
    <2>4. before \ {h} \subseteq after
      <3>1. ASSUME NEW i \in 1 .. Len(results), results[i].seq # h
            PROVE  results[i].seq \in after
        <4>1. i # 1 BY <3>1
        <4>2. i - 1 \in 1 .. Len(results') /\ (i - 1) + 1 = i BY <4>1, <2>2, <1>0
        <4>3. results'[i - 1] = results[i] BY <2>2, <4>2
        <4> QED BY <4>2, <4>3
      <3> QED BY <3>1
    <2>5. h \in before /\ h \in Reported
      <3>1. 1 \in 1 .. Len(results) BY <2>2, <1>0
      <3> QED BY <3>1 DEF Placed
    <2>6. Collected = Reported \ before /\ Collected' = Reported \ after
      BY <2>1, <1>2 DEF Collected
    <2> HIDE DEF before, after, h
    <2>7. Collected' = Collected \cup {h} /\ h \notin Collected BY <2>3, <2>4, <2>5, <2>6
    <2>8. IsFiniteSet(Collected) BY CollectedType
    <2>9. Cardinality(Collected \cup {h}) = IF h \in Collected THEN Cardinality(Collected)
                                                             ELSE Cardinality(Collected) + 1
      BY <2>8, FS_AddElement
    <2> QED BY <2>7, <2>9
  <1>5. UNCHANGED <<done, results>> => Collected' = Collected BY <1>2 DEF Collected
  <1>6. ASSUME NEW w \in Worker, WorkerStep(w)
        PROVE  SendResult(w) \/ UNCHANGED <<done, results>>
    BY <1>6 DEF WorkerStep, WorkerReturn, BeginFrame, AcquireBrowser, AcquireFails,
                CaptureFrame, CaptureFails, WriteFile
  <1>7. CollectorStep => ReceiveFrame \/ ReceiveError \/ UNCHANGED <<done, results>>
    BY DEF CollectorStep, Emit, EndPush, EndCollect, CloseRenderer, Finish
  <1>8. ReceiveFrame \/ ReceiveError => cpc = "receive" /\ results # << >> /\ results' = Tail(results)
    BY DEF ReceiveFrame, ReceiveError
  <1>9. ~ (ReceiveFrame \/ ReceiveError) => Collected' = Collected
    BY <1>3, <1>5, <1>6, <1>7 DEF Next, PipelineStep, CloseResults, CancelContext, Consume
  <1> QED BY <1>4, <1>9

\* Every clock stays below the horizon.
LEMMA ClockType ==
  ASSUME IInv
  PROVE  /\ \A w \in Worker : WorkerClock(w) \in 0 .. Horizon
         /\ CollectorClock \in 0 .. Horizon
         /\ \A p \in Part : Clock[p] \in 0 .. Horizon
  <1>0. TypeOK /\ InChunk /\ InRange /\ InOrderDelivery BY DEF IInv
  <1>1. Total \in Nat \ {0} BY TotalType
  <1>2. ASSUME NEW w \in Worker PROVE WorkerClock(w) \in 0 .. Horizon
    <2>1. /\ Offset(w) \in Nat /\ ChunkSize(w) \in Nat /\ Offset(w) + ChunkSize(w) <= Total
          /\ done[w] \in Nat /\ done[w] <= ChunkSize(w)
          /\ wpc[w] \in WorkerPC
      BY <1>0, ChunkType, ChunkEnd DEF TypeOK, InChunk
    <2> QED BY <1>1, <2>1 DEF WorkerClock, WorkerPC, Horizon
  <1>3. CollectorClock \in 0 .. Horizon
    <2>1. Cardinality(Collected) \in 0 .. Total BY CollectedType
    <2>2. cpc \in CollectorPC BY <1>0 DEF TypeOK
    <2> QED BY <1>1, <2>1, <2>2 DEF CollectorClock, CollectorPC, Horizon
  <1>4. next \in 0 .. Horizon /\ taken \in 0 .. Horizon
    <2>1. next \in Nat /\ taken \in Nat /\ next <= Total /\ Len(out) \in Nat
      BY <1>0 DEF TypeOK, InRange
    <2>2. taken + Len(out) = next BY <1>0 DEF InOrderDelivery
    <2> QED BY <1>1, <2>1, <2>2 DEF Horizon
  <1>5. 0 \in 0 .. Horizon /\ 1 \in 0 .. Horizon BY <1>1 DEF Horizon
  <1>6. ASSUME NEW p \in Part PROVE Clock[p] \in 0 .. Horizon
    <2>1. p \in Worker \/ p \in {-1, -2, -3, -4, -5}
      BY PipelineAssumption DEF Part, Worker
    <2>2. p \in {-1, -2, -3, -4, -5} => p \notin Worker
      BY PipelineAssumption DEF Worker
    <2> HIDE DEF Worker, Part, Horizon
    <2> QED BY <1>2, <1>3, <1>4, <1>5, <2>1, <2>2 DEF Clock
  <1> QED BY <1>2, <1>3, <1>6

\* A worker's step moves its own clock forward and no other worker's.
LEMMA WorkerClockStep ==
  ASSUME IInv, NEW w \in Worker, WorkerStep(w)
  PROVE  /\ WorkerClock(w)' \in Int /\ WorkerClock(w)' > WorkerClock(w)
         /\ \A v \in Worker : v # w => WorkerClock(v)' = WorkerClock(v)
         /\ UNCHANGED <<resultsClosed, cpc, next, taken, ctxDone>>
  <1> USE DEF workerVars, reorderVars, collectorVars, resultsVars, ctxVars
  <1>0. TypeOK /\ InChunk BY DEF IInv
  <1>1. \A v \in Worker : ChunkSize(v)' = ChunkSize(v) /\ ChunkSize(v) \in Nat
    BY ChunkType DEF ChunkSize, Total
  <1>2. /\ wpc \in [Worker -> WorkerPC] /\ done \in [Worker -> Nat]
        /\ done[w] \in Nat /\ done[w] <= ChunkSize(w)
        /\ wpc[w] \in {"acquire", "capture", "write", "send"} => done[w] < ChunkSize(w)
    BY <1>0 DEF TypeOK, InChunk
  <1>3. UNCHANGED <<resultsClosed, cpc, next, taken, ctxDone>>
    BY DEF WorkerStep, WorkerReturn, BeginFrame, AcquireBrowser, AcquireFails,
           CaptureFrame, CaptureFails, WriteFile, SendResult
  <1>4. /\ \A v \in Worker : v # w => wpc'[v] = wpc[v] /\ done'[v] = done[v]
        /\ \/ wpc[w] = "check" /\ wpc'[w] = "returned"
           \/ /\ done'[w] = done[w]
              /\ \/ wpc[w] = "check" /\ wpc'[w] \in {"acquire", "capture"}
                 \/ wpc[w] = "acquire" /\ wpc'[w] \in {"capture", "send"}
                 \/ wpc[w] = "capture" /\ wpc'[w] \in {"write", "send"}
                 \/ wpc[w] = "write" /\ wpc'[w] = "send"
           \/ wpc[w] = "send" /\ done'[w] = done[w] + 1 /\ wpc'[w] \in {"check", "returned"}
    <2>1. CASE WorkerReturn(w) BY <1>2, <2>1 DEF WorkerReturn
    <2>2. CASE BeginFrame(w) BY <1>2, <2>2 DEF BeginFrame
    <2>3. CASE AcquireBrowser(w) BY <1>2, <2>3 DEF AcquireBrowser
    <2>4. CASE AcquireFails(w) BY <1>2, <2>4 DEF AcquireFails
    <2>5. CASE CaptureFrame(w) BY <1>2, <2>5 DEF CaptureFrame
    <2>6. CASE CaptureFails(w) BY <1>2, <2>6 DEF CaptureFails
    <2>7. CASE WriteFile(w) BY <1>2, <2>7 DEF WriteFile
    <2>8. CASE SendResult(w) BY <1>2, <2>8 DEF SendResult
    <2> QED BY <2>1, <2>2, <2>3, <2>4, <2>5, <2>6, <2>7, <2>8 DEF WorkerStep
  <1>5. \A v \in Worker : v # w => WorkerClock(v)' = WorkerClock(v)
    <2>1. \A v \in Worker : wpc[v] \in WorkerPC BY <1>2
    <2> QED BY <1>1, <1>4, <2>1 DEF WorkerClock, WorkerPC
  <1>6. WorkerClock(w)' =
          IF wpc'[w] = "returned"
            THEN 5 * ChunkSize(w) + 1
            ELSE 5 * done'[w] + (CASE wpc'[w] = "check"   -> 0
                                   [] wpc'[w] = "acquire" -> 1
                                   [] wpc'[w] = "capture" -> 2
                                   [] wpc'[w] = "write"   -> 3
                                   [] wpc'[w] = "send"    -> 4)
    BY <1>1 DEF WorkerClock
  <1>7. WorkerClock(w)' \in Int /\ WorkerClock(w)' > WorkerClock(w)
    BY <1>1, <1>2, <1>4, <1>6 DEF WorkerClock
  <1> QED BY <1>3, <1>5, <1>7

\* A step of the collector moves its clock or that of the released frames.
LEMMA CollectorClockStep ==
  ASSUME IInv, Placed, CollectorStep
  PROVE  /\ CollectorClock' \in Int /\ next' \in Int
         /\ \/ CollectorClock' > CollectorClock /\ next' = next
            \/ CollectorClock' = CollectorClock /\ next' > next
         /\ UNCHANGED <<wpc, done, resultsClosed, taken, ctxDone>>
  <1> USE DEF workerVars, reorderVars, collectorVars, resultsVars, ctxVars
  <1>1. UNCHANGED <<wpc, done, resultsClosed, taken, ctxDone>>
    BY DEF CollectorStep, ReceiveFrame, ReceiveError, Emit, EndPush, EndCollect,
           CloseRenderer, Finish
  <1>2. Cardinality(Collected) \in Nat BY CollectedType
  <1>3. IF ReceiveFrame \/ ReceiveError
          THEN Cardinality(Collected') = Cardinality(Collected) + 1
          ELSE Collected' = Collected
    BY CollectedStep DEF Next, PipelineStep
  <1>4. next \in Nat BY DEF IInv, TypeOK
  <1> DEFINE stage(pc) == CASE pc = "push"    -> 0
                            [] pc = "receive" -> 1
                            [] pc = "release" -> 2
                            [] pc = "finish"  -> 3
                            [] pc = "ended"   -> 4
             n == Cardinality(Collected)
             m == Cardinality(Collected')
  <1>5. CollectorClock = 2 * n + stage(cpc) /\ CollectorClock' = 2 * m + stage(cpc')
    BY DEF CollectorClock
  <1>6. /\ stage("push") = 0 /\ stage("receive") = 1 /\ stage("release") = 2
        /\ stage("finish") = 3 /\ stage("ended") = 4
    OBVIOUS
  <1>7. \/ m = n + 1 /\ cpc = "receive" /\ cpc' \in {"receive", "push"} /\ next' = next
        \/ m = n /\ cpc = "push" /\ cpc' = "push" /\ next' = next + 1
        \/ /\ m = n /\ next' = next
           /\ <<cpc, cpc'>> \in {<<"push", "receive">>, <<"receive", "release">>,
                                 <<"release", "finish">>, <<"finish", "ended">>}
    <2>1. CASE ReceiveFrame \/ ReceiveError
      <3>1. cpc = "receive" /\ cpc' \in {"receive", "push"} /\ next' = next
        BY <2>1 DEF ReceiveFrame, ReceiveError
      <3> QED BY <1>3, <2>1, <3>1
    <2>2. CASE ~ (ReceiveFrame \/ ReceiveError)
      <3>1. m = n BY <1>3, <2>2
      <3> HIDE DEF m, n
      <3>2. CASE Emit BY <3>1, <3>2 DEF Emit
      <3>3. CASE EndPush BY <3>1, <3>3 DEF EndPush
      <3>4. CASE EndCollect BY <3>1, <3>4 DEF EndCollect
      <3>5. CASE CloseRenderer BY <3>1, <3>5 DEF CloseRenderer
      <3>6. CASE Finish BY <3>1, <3>6 DEF Finish
      <3> QED BY <2>2, <3>2, <3>3, <3>4, <3>5, <3>6 DEF CollectorStep
    <2> QED BY <2>1, <2>2
  <1>8. n \in Nat BY <1>2
  <1> HIDE DEF m, n, stage
  <1> QED BY <1>1, <1>4, <1>5, <1>6, <1>7, <1>8

\* Every step moves one clock forward and none back.
LEMMA ClockStep ==
  ASSUME IInv, Placed, Next
  PROVE  /\ \A p \in Part : Clock[p] <= Clock'[p]
         /\ \E p \in Part : Clock[p] < Clock'[p]
  <1>0. /\ \A w \in Worker : w \in Part /\ Clock[w] = WorkerClock(w)
        /\ \A p \in Part : p \in Worker \/ p \in {-1, -2, -3, -4, -5}
        /\ \A p \in {-1, -2, -3, -4, -5} : p \in Part /\ p \notin Worker
    BY PipelineAssumption DEF Part, Worker, Clock
  <1>1. /\ Clock[-1] = IF resultsClosed THEN 1 ELSE 0
        /\ Clock[-2] = CollectorClock
        /\ Clock[-3] = next
        /\ Clock[-4] = taken
        /\ Clock[-5] = IF ctxDone THEN 1 ELSE 0
    <2> HIDE DEF Part, Worker
    <2> QED BY <1>0 DEF Clock
  <1>2. /\ \A w \in Worker : Clock'[w] = WorkerClock(w)'
        /\ Clock'[-1] = IF resultsClosed' THEN 1 ELSE 0
        /\ Clock'[-2] = CollectorClock'
        /\ Clock'[-3] = next'
        /\ Clock'[-4] = taken'
        /\ Clock'[-5] = IF ctxDone' THEN 1 ELSE 0
    <2>1. Clock' =
            [p \in Part |->
               CASE p \in Worker -> WorkerClock(p)'
                 [] p = -1 -> IF resultsClosed' THEN 1 ELSE 0
                 [] p = -2 -> CollectorClock'
                 [] p = -3 -> next'
                 [] p = -4 -> taken'
                 [] p = -5 -> IF ctxDone' THEN 1 ELSE 0]
      BY DEF Clock, Part, Worker
    <2>2. -1 \in Part /\ -2 \in Part /\ -3 \in Part /\ -4 \in Part /\ -5 \in Part
      BY <1>0
    <2>3. -1 \notin Worker /\ -2 \notin Worker /\ -3 \notin Worker
          /\ -4 \notin Worker /\ -5 \notin Worker
      BY <1>0
    <2> HIDE DEF Part, Worker, Clock, WorkerClock, CollectorClock
    <2>4. \A w \in Worker : w \in Part /\ w \notin {-1, -2, -3, -4, -5} BY <1>0, <2>3
    <2>5. \A w \in Worker : Clock'[w] = WorkerClock(w)'
      BY <2>1, <2>4
    <2>6. Clock'[-1] = IF resultsClosed' THEN 1 ELSE 0 BY <2>1, <2>2, <2>3
    <2>7. Clock'[-2] = CollectorClock' BY <2>1, <2>2, <2>3
    <2>8. Clock'[-3] = next' BY <2>1, <2>2, <2>3
    <2>9. Clock'[-4] = taken' BY <2>1, <2>2, <2>3
    <2>10. Clock'[-5] = IF ctxDone' THEN 1 ELSE 0 BY <2>1, <2>2, <2>3
    <2> QED BY <2>5, <2>6, <2>7, <2>8, <2>9, <2>10
  <1>3. /\ \A w \in Worker : WorkerClock(w) \in Int
        /\ CollectorClock \in Int /\ next \in Int /\ taken \in Int
        /\ resultsClosed \in BOOLEAN /\ ctxDone \in BOOLEAN
    <2>1. \A w \in Worker : WorkerClock(w) \in 0 .. Horizon BY ClockType
    <2>2. CollectorClock \in 0 .. Horizon BY ClockType
    <2>3. Horizon \in Nat BY TotalType DEF Horizon
    <2> QED BY <2>1, <2>2, <2>3 DEF IInv, TypeOK
  <1> HIDE DEF Part, Worker
  <1>4. ASSUME NEW w \in Worker, WorkerStep(w)
        PROVE  /\ \A p \in Part : Clock[p] <= Clock'[p]
               /\ \E p \in Part : Clock[p] < Clock'[p]
    <2>1. /\ WorkerClock(w)' \in Int /\ WorkerClock(w)' > WorkerClock(w)
          /\ \A v \in Worker : v # w => WorkerClock(v)' = WorkerClock(v)
          /\ UNCHANGED <<resultsClosed, cpc, next, taken, ctxDone>>
      BY <1>4, WorkerClockStep
    <2>2. CollectorClock' = CollectorClock
      <3>1. ~ (ReceiveFrame \/ ReceiveError)
        <4>1. SendResult(w) \/ UNCHANGED results
          BY <1>4 DEF WorkerStep, WorkerReturn, BeginFrame, AcquireBrowser, AcquireFails,
                      CaptureFrame, CaptureFails, WriteFile, resultsVars
        <4>2. results \in Seq(Result) BY DEF IInv, TypeOK
        <4>3. ReceiveFrame \/ ReceiveError => results # << >> /\ results' = Tail(results)
          BY DEF ReceiveFrame, ReceiveError
        <4>4. results # << >> => Len(Tail(results)) < Len(results) BY <4>2
        <4>5. SendResult(w) => Len(results') = Len(results) + 1
          BY <4>2 DEF SendResult
        <4> QED BY <4>1, <4>2, <4>3, <4>4, <4>5
      <3>2. Next BY <1>4 DEF Next, PipelineStep
      <3>3. Collected' = Collected BY <3>1, <3>2, CollectedStep
      <3> QED BY <2>1, <3>3 DEF CollectorClock
    <2>3. \A v \in Worker : WorkerClock(v) <= WorkerClock(v)' BY <1>3, <2>1
    <2> QED BY <1>0, <1>1, <1>2, <1>3, <2>1, <2>2, <2>3
  <1>5. ASSUME ~ (\E w \in Worker : WorkerStep(w))
        PROVE  /\ \A p \in Part : Clock[p] <= Clock'[p]
               /\ \E p \in Part : Clock[p] < Clock'[p]
    <2> USE DEF workerVars, reorderVars, collectorVars, resultsVars, ctxVars
    <2>1. UNCHANGED <<wpc, done>>
      BY <1>5 DEF Next, PipelineStep, CollectorStep, CloseResults, CancelContext, Consume,
                  ReceiveFrame, ReceiveError, Emit, EndPush, EndCollect, CloseRenderer, Finish
    <2>2. \A w \in Worker : WorkerClock(w)' = WorkerClock(w)
      BY <2>1 DEF WorkerClock, ChunkSize, Total
    <2>3. CASE CollectorStep
      <3>1. /\ CollectorClock' \in Int /\ next' \in Int
            /\ \/ CollectorClock' > CollectorClock /\ next' = next
               \/ CollectorClock' = CollectorClock /\ next' > next
            /\ UNCHANGED <<resultsClosed, taken, ctxDone>>
        BY <2>3, CollectorClockStep
      <3> QED BY <1>0, <1>1, <1>2, <1>3, <2>2, <3>1
    <2>4. CASE ~ CollectorStep
      <3>1. CloseResults \/ CancelContext \/ Consume BY <1>5, <2>4 DEF Next, PipelineStep
      <3>2. CollectorClock' = CollectorClock
        <4>1. Collected' = Collected BY <2>4, CollectedStep DEF CollectorStep
        <4>2. UNCHANGED cpc BY <3>1 DEF CloseResults, CancelContext, Consume
        <4> QED BY <4>1, <4>2 DEF CollectorClock
      <3>3. CASE CloseResults
        <4>1. ~ resultsClosed /\ resultsClosed' /\ UNCHANGED <<next, taken, ctxDone>>
          BY <3>3 DEF CloseResults
        <4> QED BY <1>0, <1>1, <1>2, <1>3, <2>2, <3>2, <4>1
      <3>4. CASE CancelContext
        <4>1. ~ ctxDone /\ ctxDone' /\ UNCHANGED <<next, taken, resultsClosed>>
          BY <3>4 DEF CancelContext
        <4> QED BY <1>0, <1>1, <1>2, <1>3, <2>2, <3>2, <4>1
      <3>5. CASE Consume
        <4>1. taken' = taken + 1 /\ UNCHANGED <<next, ctxDone, resultsClosed>>
          BY <3>5 DEF Consume
        <4> QED BY <1>0, <1>1, <1>2, <1>3, <2>2, <3>2, <4>1
      <3> QED BY <3>1, <3>3, <3>4, <3>5
    <2> QED BY <2>3, <2>4
  <1> QED BY <1>4, <1>5

ClocksBounded == \A p \in Part : Clock[p] \in 0 .. Horizon

LEMMA StepsLeftStep ==
  ASSUME IInv, Placed, ClocksBounded, ClocksBounded', Next
  PROVE  StepsLeft' < StepsLeft
  <1>1. /\ \A p \in Part : Clock[p] <= Clock'[p]
        /\ \E p \in Part : Clock[p] < Clock'[p]
    BY ClockStep
  <1>2. Horizon \in Nat /\ Horizon' = Horizon /\ Part' = Part
    BY TotalType DEF Horizon, Part, Total
  <1>3. \A p \in Part : Clock[p] \in 0 .. Horizon /\ Clock'[p] \in 0 .. Horizon
    BY <1>2 DEF ClocksBounded
  <1>4. IsFiniteSet(Part)
    <2>1. -5 \in Int /\ NumWorkers - 1 \in Int BY PipelineAssumption
    <2> QED BY <2>1, FS_Interval DEF Part
  <1>5. StepsLeft' = Cardinality(Ahead(Part, Horizon, Clock'))
    BY <1>2 DEF StepsLeft, Ahead
  <1> HIDE DEF Part, Horizon, Clock
  <1> QED BY <1>1, <1>2, <1>3, <1>4, <1>5, LessAhead DEF StepsLeft

\* Run takes finitely many steps, whatever fails and whenever the caller cancels:
\* a number that depends on the number of frames and workers only gets smaller with
\* every step of every goroutine and of the reader, so that none of them loops or
\* does its work twice.
THEOREM RunIsFinite == Spec => [](StepsLeft \in Nat) /\ [][StepsLeft' < StepsLeft]_vars
  <1>1. IInv => ClocksBounded BY ClockType DEF ClocksBounded
  <1>2. ClocksBounded => StepsLeft \in Nat
    <2>1. IsFiniteSet(Part) /\ IsFiniteSet(0 .. Horizon)
      <3>1. -5 \in Int /\ NumWorkers - 1 \in Int /\ 0 \in Int /\ Horizon \in Int
        BY PipelineAssumption, TotalType DEF Horizon
      <3> QED BY <3>1, FS_Interval DEF Part
    <2>2. IsFiniteSet(Part \X (0 .. Horizon)) BY <2>1, FS_Product
    <2>3. Ahead(Part, Horizon, Clock) \subseteq Part \X (0 .. Horizon) BY DEF Ahead
    <2>4. IsFiniteSet(Ahead(Part, Horizon, Clock)) BY <2>2, <2>3, FS_Subset
    <2> QED BY <2>4, FS_CardinalityType DEF StepsLeft
  <1>3. IInv /\ Placed /\ ClocksBounded /\ ClocksBounded' /\ [Next]_vars
          => [StepsLeft' < StepsLeft]_vars
    BY StepsLeftStep
  <1> QED BY <1>1, <1>2, <1>3, AlwaysPlaced, PTL DEF Spec

-----------------------------------------------------------------------------
(* Nobody waits for ever.                                                  *)

\* The guards of the goroutines' actions: when each of them can take a step.
CanWork(w) ==
  \/ wpc[w] = "check" /\ (done[w] = ChunkSize(w) \/ renderDone)
  \/ wpc[w] = "check" /\ done[w] < ChunkSize(w) /\ ~ renderDone
  \/ wpc[w] = "acquire" /\ Cardinality(held) < browsers
  \/ wpc[w] = "acquire" /\ (Cardinality(held) >= browsers \/ renderDone \/ Current(w) \in Faulty)
  \/ wpc[w] \in {"capture", "write"}
  \/ wpc[w] = "send" /\ Len(results) < Cap

CanClose == ~ resultsClosed /\ \A w \in Worker : wpc[w] = "returned"

CanCollect ==
  \/ cpc = "receive" /\ results # << >>
  \/ cpc = "receive" /\ results = << >> /\ resultsClosed
  \/ cpc = "push" /\ next \in buf /\ Len(out) < Cap
  \/ cpc = "push" /\ next \notin buf
  \/ cpc \in {"release", "finish"}

CanRead == out # << >>

\* Until the collector has come to its end, someone can go on.
NeverStuck ==
  cpc # "ended" => (\E w \in Worker : CanWork(w)) \/ CanClose \/ CanCollect \/ CanRead

\* The goroutines of a render never wait for each other in a circle: as long as the
\* collector has not come to its end, a worker, the closer or the collector can take
\* a step, or a frame is there for the reader.  With RunIsFinite, this is why the
\* run ends: there are finitely many steps, and no last one before the end.
THEOREM NeverDeadlocks == Spec => []NeverStuck
  <1>1. ASSUME IInv PROVE NeverStuck
    <2> SUFFICES ASSUME cpc # "ended"
                 PROVE  (\E w \in Worker : CanWork(w)) \/ CanClose \/ CanCollect \/ CanRead
      BY DEF NeverStuck
    <2>1. TypeOK /\ InChunk BY <1>1 DEF IInv
    <2>2. cpc \in {"receive", "push", "release", "finish"} BY <2>1 DEF TypeOK, CollectorPC
    <2>3. CASE cpc \in {"release", "finish"} BY <2>3 DEF CanCollect
    <2>4. CASE cpc = "push"
      <3>1. out \in Seq(Nat) /\ Len(out) <= Cap /\ Cap \in Nat \ {0}
        BY <2>1, CapType DEF TypeOK
      <3>2. Len(out) < Cap \/ out # << >> BY <3>1
      <3> QED BY <2>4, <3>2 DEF CanCollect, CanRead
    <2>5. CASE cpc = "receive"
      <3>1. CASE results # << >> \/ resultsClosed BY <2>5, <3>1 DEF CanCollect
      <3>2. CASE results = << >> /\ ~ resultsClosed
        <4>1. CASE \A w \in Worker : wpc[w] = "returned" BY <3>2, <4>1 DEF CanClose
        <4>2. ASSUME NEW w \in Worker, wpc[w] # "returned" PROVE CanWork(w)
          <5>1. wpc[w] \in {"check", "acquire", "capture", "write", "send"}
            BY <2>1, <4>2 DEF TypeOK, WorkerPC
          <5>2. done[w] \in Nat /\ ChunkSize(w) \in Nat /\ done[w] <= ChunkSize(w)
            BY <2>1, ChunkType DEF TypeOK, InChunk
          <5>3. Cardinality(held) \in Nat /\ browsers \in Nat BY <2>1, HeldFinite
          <5>4. Len(results) = 0 /\ Cap \in Nat \ {0} BY <3>2, CapType
          <5> QED BY <2>1, <5>1, <5>2, <5>3, <5>4 DEF CanWork, TypeOK
        <4> QED BY <4>1, <4>2
      <3> QED BY <3>1, <3>2
    <2> QED BY <2>2, <2>3, <2>4, <2>5
  <1> QED BY <1>1, Invariance, PTL

-----------------------------------------------------------------------------
(* Refinement.                                                             *)

LEMMA StreamInit == Init => Stream!Init
  BY TotalType DEF Init, Stream!Init

LEMMA StreamNext ==
  ASSUME IInv, [Next]_vars
  PROVE  [Stream!Next]_Stream!streamVars
  <1> USE DEF workerVars, reorderVars, collectorVars, resultsVars, ctxVars
  <1>0. /\ TypeOK /\ InOrderDelivery /\ ClosedIsCompleteOrFailed /\ InRange
        /\ PushProtocol
    BY DEF IInv
  <1>1. Total' = Total /\ Total \in Nat BY TotalType DEF Total
  <1>2. /\ next \in Nat /\ taken \in Nat /\ Len(out) \in Nat
        /\ taken + Len(out) = next
    BY <1>0 DEF TypeOK, InOrderDelivery
  <1>3. CASE UNCHANGED <<next, taken, closed>>
    BY <1>1, <1>3 DEF Stream!streamVars
  <1>4. ASSUME NEW w \in Worker, WorkerStep(w) PROVE UNCHANGED <<next, taken, closed>>
    BY <1>4 DEF WorkerStep, WorkerReturn, BeginFrame, AcquireBrowser, AcquireFails,
                CaptureFrame, CaptureFails, WriteFile, SendResult
  <1>5. CASE Emit
    <2>1. next \in buf /\ next < Total BY <1>0, <1>5 DEF Emit, InRange
    <2>2. ~ closed /\ ~ closed' BY <1>0, <1>5 DEF Emit, PushProtocol
    <2>3. next - taken < Cap BY <1>2, <1>5, CapType DEF Emit
    <2>4. next' = next + 1 /\ taken' = taken BY <1>5 DEF Emit
    <2>5. Stream!Send BY <2>1, <2>2, <2>3, <2>4 DEF Stream!Send
    <2> QED BY <2>5 DEF Stream!Next
  <1>6. CASE Consume
    <2>1. out # << >> /\ UNCHANGED <<next, closed>> /\ taken' = taken + 1
      BY <1>6 DEF Consume
    <2>2. Len(out) # 0 BY <1>0, <2>1 DEF TypeOK
    <2>3. Stream!Read BY <1>1, <1>2, <2>1, <2>2 DEF Stream!Read
    <2> QED BY <2>3 DEF Stream!Next
  <1>7. CASE EndPush
    <2>1. ~ closed /\ UNCHANGED <<next, taken>> BY <1>0, <1>7 DEF EndPush, PushProtocol
    <2>2. CASE next = Total
      <3>1. closed' BY <1>7, <2>2 DEF EndPush
      <3>2. Stream!Complete BY <1>1, <2>1, <2>2, <3>1 DEF Stream!Complete
      <3> QED BY <3>2 DEF Stream!Next
    <2>3. CASE next # Total
      <3>1. ~ closed' BY <1>7, <2>1, <2>3 DEF EndPush
      <3> QED BY <1>1, <2>1, <3>1 DEF Stream!streamVars
    <2> QED BY <2>2, <2>3
  <1>8. CASE ReceiveError
    <2>1. UNCHANGED <<next, taken>> /\ cpc = "receive" BY <1>8 DEF ReceiveError
    <2>2. closed' BY <1>0, <1>8 DEF ReceiveError, PushProtocol
    <2>3. CASE closed BY <1>1, <2>1, <2>2, <2>3 DEF Stream!streamVars
    <2>4. CASE ~ closed
      <3>1. next # Total BY <1>0, <2>1, <2>4 DEF PushProtocol
      <3>2. Stream!Abort BY <1>1, <2>1, <2>2, <2>4, <3>1 DEF Stream!Abort
      <3> QED BY <3>2 DEF Stream!Next
    <2> QED BY <2>3, <2>4
  <1>9. CASE ReceiveFrame \/ EndCollect \/ CloseRenderer \/ Finish
    BY <1>3, <1>9 DEF ReceiveFrame, EndCollect, CloseRenderer, Finish
  <1> QED BY <1>3, <1>4, <1>5, <1>6, <1>7, <1>8, <1>9
          DEF Next, PipelineStep, CollectorStep, CloseResults, CancelContext, vars

\* The channel that Run returns is an ordered stream: every step of the workers,
\* the collector and the reader is a step of OrderedStream or invisible to it.
THEOREM ImplementsStream == Spec => StreamSpec
  BY StreamInit, StreamNext, Invariance, PTL DEF Spec, StreamSpec, Stream!Spec
=============================================================================

--------------------------- MODULE RenderRunProofs ---------------------------
(***************************************************************************)
(* Proofs about RenderRun, for every number of workers and frames, every   *)
(* frame step and every relay.  What RenderPipelineProofs shows of the     *)
(* pipeline is used here: a render run is a behaviour of the pipeline.     *)
(***************************************************************************)
EXTENDS RenderRun, RenderPipelineProofs

-----------------------------------------------------------------------------
(* The frames of the render and the positions of the video.                *)

\* A number between k * b and (k + 1) * b leaves what is above k * b.
LEMMA ModUnique ==
  ASSUME NEW a \in Nat, NEW b \in Nat \ {0}, NEW k \in Nat,
         k * b <= a, a < k * b + b
  PROVE  a % b = a - k * b
  <1> DEFINE d == a \div b
             m == a % b
  <1>1. d \in Nat /\ m \in Nat /\ m < b /\ a = b * d + m BY DivMod
  <1> HIDE DEF d, m
  <1>2. k * b \in Nat /\ b * d \in Nat BY <1>1
  <1>3. ~ (d > k)
    <2>1. SUFFICES ASSUME d > k PROVE FALSE OBVIOUS
    <2> DEFINE e == d - (k + 1)
    <2>2. e \in Nat /\ d = k + 1 + e BY <2>1, <1>1
    <2> HIDE DEF e
    <2>3. b * d = k * b + b + b * e /\ b * e \in Nat BY <2>2
    <2> QED BY <2>3, <1>1, <1>2
  <1>4. ~ (d < k)
    <2>1. SUFFICES ASSUME d < k PROVE FALSE OBVIOUS
    <2> DEFINE e == k - (d + 1)
    <2>2. e \in Nat /\ k = d + 1 + e BY <2>1, <1>1
    <2> HIDE DEF e
    <2>3. k * b = b * d + b + b * e /\ b * e \in Nat BY <2>2, <1>1
    <2> QED BY <2>3, <1>1, <1>2
  <1>5. d = k BY <1>1, <1>3, <1>4
  <1>6. b * d = k * b BY <1>5
  <1>7. m = a - k * b BY <1>1, <1>2, <1>6
  <1> QED BY <1>7 DEF m

\* Every frame but the last one is a multiple of the step, and lies before the
\* last frame of the composition.
LEMMA StridedFrames ==
  /\ \A s \in 0 .. Total - 2 : s * FrameStep \in Nat /\ s * FrameStep < DurationFrames - 1
  /\ FrameOf(Total - 1) = DurationFrames - 1
  /\ (Total - 1) * FrameStep >= DurationFrames - 1
  <1> DEFINE D == DurationFrames
             S == FrameStep
             q == (D + S - 1) \div S
             r == (D + S - 1) % S
  <1>1. D \in Nat \ {0} /\ S \in Nat \ {0} BY PipelineAssumption
  <1>2. q \in Nat /\ r \in Nat /\ r < S /\ D + S - 1 = S * q + r
    BY <1>1, DivMod
  <1>3. Total = IF (D - 1) % S # 0 THEN q + 1 ELSE q BY DEF Total
  <1>4. Total \in Nat \ {0} BY TotalType
  <1> HIDE DEF q, r
  <1>5. S * q \in Nat /\ S * q >= D /\ S * q - S <= D - 1 BY <1>1, <1>2
  <1>6. ASSUME NEW k \in Nat, NEW s \in 0 .. k
        PROVE  s * S \in Nat /\ k * S \in Nat /\ s * S <= k * S
    <2> DEFINE e == k - s
    <2>1. e \in Nat /\ s \in Nat /\ k = s + e BY <1>6
    <2> HIDE DEF e
    <2>2. k * S = s * S + e * S /\ e * S \in Nat /\ s * S \in Nat BY <2>1, <1>1
    <2> QED BY <2>2
  <1>7. CASE (D - 1) % S # 0
    <2>1. Total = q + 1 BY <1>3, <1>7
    <2>2. q # 0
      <3>1. SUFFICES ASSUME q = 0 PROVE FALSE OBVIOUS
      <3>2. S * q = 0 BY <3>1, <1>1
      <3> QED BY <3>2, <1>1, <1>5
    <2>3. (q - 1) * S = S * q - S BY <1>1, <1>2
    <2>4. (q - 1) * S # D - 1
      <3>1. SUFFICES ASSUME (q - 1) * S = D - 1 PROVE FALSE OBVIOUS
      <3>2. q - 1 \in Nat /\ D - 1 \in Nat BY <2>2, <1>1, <1>2
      <3>3. (D - 1) % S = (D - 1) - (q - 1) * S BY <3>1, <3>2, <1>1, ModUnique
      <3> QED BY <3>1, <3>3, <1>7, <1>1
    <2>5. \A s \in 0 .. Total - 2 : s * S \in Nat /\ s * S < D - 1
      <3>1. ASSUME NEW s \in 0 .. Total - 2 PROVE s * S \in Nat /\ s * S < D - 1
        <4>1. q - 1 \in Nat /\ s \in 0 .. q - 1 BY <2>1, <2>2, <1>2
        <4>2. s * S \in Nat /\ s * S <= (q - 1) * S /\ (q - 1) * S \in Nat BY <4>1, <1>6
        <4> QED BY <4>2, <2>3, <2>4, <1>1, <1>5
      <3> QED BY <3>1
    <2>6. (Total - 1) * S = S * q BY <2>1, <1>1, <1>2
    <2>7. ~ ((Total - 1) * S < D) BY <2>6, <1>1, <1>5
    <2> QED BY <2>5, <2>6, <2>7, <1>1, <1>5 DEF FrameOf
  <1>8. CASE (D - 1) % S = 0
    <2>1. Total = q BY <1>3, <1>8
    <2> DEFINE k == (D - 1) \div S
    <2>2. k \in Nat /\ D - 1 = S * k
      <3>1. D - 1 \in Nat BY <1>1
      <3> QED BY <3>1, <1>1, <1>8, DivMod
    <2> HIDE DEF k
    <2>3. q = k + 1
      <3>1. ~ (q > k + 1)
        <4>1. SUFFICES ASSUME q > k + 1 PROVE FALSE OBVIOUS
        <4> DEFINE e == q - (k + 2)
        <4>2. e \in Nat /\ q = k + 2 + e BY <4>1, <1>2, <2>2
        <4> HIDE DEF e
        <4>3. S * q = S * k + S + S + S * e /\ S * e \in Nat BY <4>2, <1>1, <2>2
        <4> QED BY <4>3, <1>1, <1>5, <2>2
      <3>2. ~ (q < k + 1)
        <4>1. SUFFICES ASSUME q < k + 1 PROVE FALSE OBVIOUS
        <4> DEFINE e == k - q
        <4>2. e \in Nat /\ k = q + e BY <4>1, <1>2, <2>2
        <4> HIDE DEF e
        <4>3. S * k = S * q + S * e /\ S * e \in Nat BY <4>2, <1>1, <1>2
        <4> QED BY <4>3, <1>1, <1>5, <2>2
      <3> QED BY <3>1, <3>2, <1>2, <2>2
    <2>4. (Total - 1) * S = D - 1 BY <2>1, <2>2, <2>3, <1>1
    <2>5. \A s \in 0 .. Total - 2 : s * S \in Nat /\ s * S < D - 1
      <3>1. ASSUME NEW s \in 0 .. Total - 2 PROVE s * S \in Nat /\ s * S < D - 1
        <4>1. s + 1 \in 0 .. k /\ s \in Nat BY <2>1, <2>2, <2>3
        <4>2. (s + 1) * S <= k * S /\ k * S \in Nat BY <4>1, <1>6, <2>2
        <4>3. (s + 1) * S = s * S + S /\ s * S \in Nat BY <4>1, <1>1
        <4>4. k * S = S * k BY <2>2, <1>1
        <4> QED BY <4>2, <4>3, <4>4, <2>2, <1>1
      <3> QED BY <3>1
    <2>6. (Total - 1) * S < D BY <2>4, <1>1
    <2> QED BY <2>4, <2>5, <2>6, <1>1 DEF FrameOf
  <1> QED BY <1>7, <1>8

\* Between a frame and the next one, the video shows the frame.
LEMMA FrameSeq ==
  ASSUME NEW s \in 0 .. Total - 1
  PROVE  /\ FrameOf(s) \in 0 .. DurationFrames - 1
         /\ FrameOf(0) = 0
         /\ Shown(FrameOf(s)) = FrameOf(s)
         /\ s < Total - 1 =>
              /\ FrameOf(s) < FrameOf(s + 1)
              /\ \A p \in FrameOf(s) .. FrameOf(s + 1) - 1 : Shown(p) = FrameOf(s)
  <1> DEFINE D == DurationFrames
             S == FrameStep
  <1>1. D \in Nat \ {0} /\ S \in Nat \ {0} /\ Total \in Nat \ {0} /\ s \in Nat
    BY PipelineAssumption, TotalType
  <1>2. FrameOf(0) = 0
    <2>1. 0 * S = 0 /\ 0 < D BY <1>1
    <2> QED BY <2>1 DEF FrameOf
  <1>3. CASE s = Total - 1
    <2>1. FrameOf(s) = D - 1 BY <1>3, StridedFrames
    <2>2. Shown(D - 1) = D - 1 BY DEF Shown
    <2> QED BY <1>1, <1>2, <1>3, <2>1, <2>2
  <1>4. CASE s < Total - 1
    <2>1. s \in 0 .. Total - 2 BY <1>1, <1>4
    <2>2. s * S \in Nat /\ s * S < D - 1 BY <2>1, StridedFrames
    <2>3. FrameOf(s) = s * S BY <2>2, <1>1 DEF FrameOf
    <2>4. /\ FrameOf(s + 1) \in Nat /\ FrameOf(s + 1) <= D - 1
          /\ FrameOf(s + 1) <= s * S + S /\ FrameOf(s) < FrameOf(s + 1)
      <3>1. (s + 1) * S = s * S + S BY <1>1
      <3>2. CASE s + 1 = Total - 1
        <4>1. FrameOf(s + 1) = D - 1 /\ (s + 1) * S >= D - 1 BY <3>2, StridedFrames
        <4> QED BY <4>1, <3>1, <2>2, <2>3, <1>1
      <3>3. CASE s + 1 # Total - 1
        <4>1. s + 1 \in 0 .. Total - 2 BY <3>3, <1>1, <1>4
        <4>2. (s + 1) * S \in Nat /\ (s + 1) * S < D - 1 BY <4>1, StridedFrames
        <4>3. FrameOf(s + 1) = (s + 1) * S BY <4>2, <1>1 DEF FrameOf
        <4> QED BY <4>2, <4>3, <3>1, <2>2, <2>3, <1>1
      <3> QED BY <3>2, <3>3
    <2>5. ASSUME NEW p \in FrameOf(s) .. FrameOf(s + 1) - 1 PROVE Shown(p) = FrameOf(s)
      <3>1. p \in Nat /\ s * S <= p /\ p < s * S + S /\ p # D - 1 BY <2>2, <2>3, <2>4, <1>1
      <3>2. p % S = p - s * S BY <3>1, <1>1, ModUnique
      <3>3. p - (p % S) = s * S BY <3>1, <3>2, <2>2
      <3> QED BY <3>1, <3>3, <2>3 DEF Shown
    <2>6. Shown(FrameOf(s)) = FrameOf(s)
      <3>1. FrameOf(s) \in FrameOf(s) .. FrameOf(s + 1) - 1 BY <2>2, <2>3, <2>4
      <3> QED BY <3>1, <2>5
    <2> QED BY <1>1, <1>2, <2>2, <2>3, <2>4, <2>5, <2>6
  <1> QED BY <1>1, <1>3, <1>4

-----------------------------------------------------------------------------
(* A render run is a behaviour of the pipeline, whose reader it is.        *)

LEMMA RunStepIsNext ==
  ASSUME [RunNext]_runVars
  PROVE  [Next]_vars
  BY DEF RunNext, RelayStep, RelayTake, RelaySend, RelayEnds, RelayCancelled, WriterStep,
         StartFfmpeg, StartFails, WriterTake, EndStream, WriteFails, Publish, ReadErrc,
         FfmpegDies, Next, runVars

\* The relay and the writer read the channel as the pipeline's specification lets its
\* reader, so that all that is proved of RenderPipeline holds in a render.
THEOREM RunIsPipeline == RunSpec => Spec
  <1>1. RunInit => Init BY DEF RunInit
  <1>2. [RunNext]_runVars => [Next]_vars BY RunStepIsNext
  <1> QED BY <1>1, <1>2, PTL DEF RunSpec, Spec

LEMMA RunInvariance == RunSpec => []IInv
  BY RunIsPipeline, Invariance, PTL

\* What the goroutines of the pipeline leave alone or only take forward.
LEMMA PipelineFacts ==
  ASSUME IInv, PipelineStep
  PROVE  /\ taken' = taken
         /\ closed => closed'
         /\ closed /\ out = << >> => out' = << >>
         /\ ctxDone => ctxDone'
         /\ cpc = "ended" => cpc' = "ended" /\ firstErr' = firstErr
  <1> USE DEF workerVars, reorderVars, collectorVars, resultsVars, ctxVars
  <1>0. TypeOK /\ PushProtocol /\ Shutdown BY DEF IInv
  <1>1. ASSUME NEW w \in Worker, WorkerStep(w)
        PROVE  UNCHANGED <<taken, closed, out, ctxDone, cpc, firstErr>>
    BY <1>1 DEF WorkerStep, WorkerReturn, BeginFrame, AcquireBrowser, AcquireFails,
                CaptureFrame, CaptureFails, WriteFile, SendResult
  <1>2. CASE CollectorStep
    <2>1. CASE ReceiveFrame BY <2>1 DEF ReceiveFrame
    <2>2. CASE ReceiveError BY <2>2, <1>0 DEF ReceiveError, PushProtocol, TypeOK
    <2>3. CASE Emit BY <2>3, <1>0 DEF Emit, PushProtocol
    <2>4. CASE EndPush BY <2>4 DEF EndPush
    <2>5. CASE EndCollect BY <2>5 DEF EndCollect
    <2>6. CASE CloseRenderer BY <2>6 DEF CloseRenderer
    <2>7. CASE Finish BY <2>7 DEF Finish
    <2> QED BY <1>2, <2>1, <2>2, <2>3, <2>4, <2>5, <2>6, <2>7 DEF CollectorStep
  <1>3. CASE CloseResults BY <1>3 DEF CloseResults
  <1>4. CASE CancelContext BY <1>4 DEF CancelContext
  <1> QED BY <1>1, <1>2, <1>3, <1>4 DEF PipelineStep

\* Run's error is on errc before the collector closes the channel.
ErrorSent == cpc \in {"release", "finish", "ended"} /\ firstErr => errc = "error"

LEMMA ErrorSentStep ==
  ASSUME ErrorSent, [Next]_vars
  PROVE  ErrorSent'
  <1> USE DEF workerVars, reorderVars, collectorVars, resultsVars, ctxVars, ErrorSent
  <1>1. ASSUME NEW w \in Worker, WorkerStep(w) PROVE UNCHANGED <<cpc, firstErr, errc>>
    BY <1>1 DEF WorkerStep, WorkerReturn, BeginFrame, AcquireBrowser, AcquireFails,
                CaptureFrame, CaptureFails, WriteFile, SendResult
  <1>2. CASE CollectorStep
    BY <1>2 DEF CollectorStep, ReceiveFrame, ReceiveError, Emit, EndPush, EndCollect,
                CloseRenderer, Finish
  <1> QED BY <1>1, <1>2 DEF Next, PipelineStep, CloseResults, CancelContext, Consume, vars

-----------------------------------------------------------------------------
(* The relay.                                                              *)

\* The frames that the writer has received, and those of a video that shows them.
Received == taken - Len(relayed) - Len(hand)
VideoLen(n) == IF n = 0 THEN 0 ELSE FrameOf(n - 1) + 1

\* withProgress has ended the stream early, because the context is cancelled.
EndedEarly == relay = "progress" /\ ctxDone

\* The relay passes the frames on one by one: what it has in hand and what waits in its
\* channel are the last ones that were read from the pipeline, in order.
RelayOrder ==
  /\ relay \in Relays
  /\ relayPC \in {"range", "hold", "returned"}
  /\ hand = IF relayPC = "hold" THEN <<taken - 1>> ELSE << >>
  /\ relayed \in Seq(Nat) /\ Len(relayed) <= Cap
  /\ Received \in Nat
  /\ \A i \in 1 .. Len(relayed) : relayed[i] = Received + i - 1
  /\ relay = "none" => relayPC = "returned" /\ relayed = << >>
  /\ relay # "none" /\ relayPC = "returned" /\ ~ EndedEarly => closed /\ out = << >>

\* What the relay does to the frames on their way.
LEMMA RelayFrames ==
  ASSUME IInv, RelayOrder
  PROVE  /\ taken \in Nat /\ out \in Seq(Nat) /\ Len(relayed) \in Nat /\ Len(hand) \in {0, 1}
         /\ Received = taken - Len(relayed) - Len(hand)
         /\ out # << >> => Head(out) = taken
         /\ relayed # << >> => Head(relayed) = Received
  <1>1. taken \in Nat /\ out \in Seq(Nat) BY DEF IInv, TypeOK
  <1>2. Len(relayed) \in Nat /\ (hand = << >> \/ hand = <<taken - 1>>) BY DEF RelayOrder
  <1>3. Len(hand) \in {0, 1} BY <1>2
  <1>4. out # << >> => Head(out) = taken
    <2>1. SUFFICES ASSUME out # << >> PROVE Head(out) = taken OBVIOUS
    <2>2. 1 \in 1 .. Len(out) /\ Head(out) = out[1] BY <1>1, <2>1
    <2>3. out[1] = taken + 1 - 1 BY <2>2 DEF IInv, InOrderDelivery
    <2> QED BY <1>1, <2>2, <2>3
  <1>5. relayed # << >> => Head(relayed) = Received
    <2>1. SUFFICES ASSUME relayed # << >> PROVE Head(relayed) = Received OBVIOUS
    <2>2. relayed \in Seq(Nat) /\ Received \in Nat BY DEF RelayOrder
    <2>3. 1 \in 1 .. Len(relayed) /\ Head(relayed) = relayed[1] BY <2>1, <2>2
    <2>4. relayed[1] = Received + 1 - 1 BY <2>3 DEF RelayOrder
    <2> QED BY <2>2, <2>3, <2>4
  <1> QED BY <1>1, <1>2, <1>3, <1>4, <1>5 DEF Received

LEMMA InitRelay == RunInit => RelayOrder
  <1>1. Cap \in Nat BY CapType
  <1> QED BY <1>1 DEF RunInit, Init, RelayOrder, Received

\* The writer receives one frame in a WriterTake, and the relay's steps leave what it
\* has received as it is.
LEMMA ReceivedStep ==
  ASSUME IInv, RelayOrder
  PROVE  /\ RelayTake \/ RelaySend => Received' = Received
         /\ WriterTake => Received' = Received + 1
  <1> USE DEF relayVars, writerVars
  <1>0. /\ taken \in Nat /\ out \in Seq(Nat) /\ Len(relayed) \in Nat /\ Len(hand) \in {0, 1}
        /\ Received = taken - Len(relayed) - Len(hand)
        /\ Received' = taken' - Len(relayed') - Len(hand')
        /\ relayed \in Seq(Nat)
    BY RelayFrames DEF RelayOrder, Received
  <1>1. CASE RelayTake
    <2>1. taken' = taken + 1 /\ relayed' = relayed /\ hand' = <<Head(out)>>
      BY <1>1 DEF RelayTake, Consume
    <2>2. Len(hand) = 0 BY <1>1 DEF RelayTake, RelayOrder
    <2>3. Len(hand') = 1 BY <2>1
    <2>4. Received' = Received BY <2>1, <2>2, <2>3, <1>0
    <2>5. ~ WriterTake BY <1>1 DEF RelayTake, WriterTake
    <2> QED BY <2>4, <2>5
  <1>2. CASE RelaySend
    <2>1. taken' = taken /\ relayed' = relayed \o hand /\ hand' = << >>
      BY <1>2 DEF RelaySend, vars, reorderVars
    <2>2. hand = <<taken - 1>> BY <1>2 DEF RelaySend, RelayOrder
    <2>3. Len(hand) = 1 /\ Len(hand') = 0 BY <2>1, <2>2
    <2>4. taken - 1 \in Int BY <1>0
    <2>5. Len(relayed') = Len(relayed) + 1
      <3>1. relayed \in Seq(Int) BY <1>0
      <3> QED BY <2>1, <2>2, <2>4, <3>1
    <2>6. Received' = Received BY <2>1, <2>3, <2>5, <1>0
    <2>7. ~ WriterTake BY <1>2 DEF RelaySend, WriterTake
    <2> QED BY <2>6, <2>7
  <1>3. CASE WriterTake
    <2>1. hand' = hand BY <1>3 DEF WriterTake
    <2>2. \/ taken' = taken + 1 /\ relayed' = relayed
          \/ taken' = taken /\ relayed # << >> /\ relayed' = Tail(relayed)
      BY <1>3 DEF WriterTake, Consume, vars, reorderVars
    <2>3. relayed # << >> => Len(Tail(relayed)) = Len(relayed) - 1 BY <1>0
    <2>4. Received' = Received + 1 BY <2>1, <2>2, <2>3, <1>0
    <2>5. ~ RelayTake /\ ~ RelaySend BY <1>3 DEF RelayTake, RelaySend, WriterTake
    <2> QED BY <2>4, <2>5
  <1> QED BY <1>1, <1>2, <1>3

LEMMA RelayOrderStep ==
  ASSUME IInv, RelayOrder, [RunNext]_runVars
  PROVE  RelayOrder'
  <1> USE DEF relayVars, writerVars
  <1>0. /\ taken \in Nat /\ out \in Seq(Nat) /\ Len(relayed) \in Nat /\ Len(hand) \in {0, 1}
        /\ Received = taken - Len(relayed) - Len(hand)
        /\ out # << >> => Head(out) = taken
        /\ relayed \in Seq(Nat) /\ Received \in Nat /\ Cap \in Nat /\ Cap' = Cap
    BY RelayFrames, CapType DEF RelayOrder, Received, Cap
  <1>1. ASSUME UNCHANGED <<taken, relayed, hand, relay, relayPC>>,
               closed /\ out = << >> => closed' /\ out' = << >>,
               ctxDone => ctxDone'
        PROVE  RelayOrder'
    <2>1. Received' = Received BY <1>1 DEF Received
    <2> QED BY <1>1, <2>1, <1>0 DEF RelayOrder, EndedEarly
  <1>2. CASE PipelineStep /\ UNCHANGED <<relayVars, writerVars>>
    BY <1>1, <1>2, PipelineFacts
  <1>3. CASE RelayTake
    <2>1. /\ out # << >> /\ taken' = taken + 1 /\ hand' = <<Head(out)>> /\ relayPC' = "hold"
          /\ UNCHANGED <<relay, relayed>> /\ relayPC = "range"
      BY <1>3 DEF RelayTake, Consume
    <2>2. Received' = Received BY <1>3, ReceivedStep
    <2>3. hand' = <<taken' - 1>> BY <2>1, <1>0
    <2> QED BY <2>1, <2>2, <2>3, <1>0 DEF RelayOrder
  <1>4. CASE RelaySend
    <2>1. /\ relayed' = relayed \o hand /\ hand = <<taken - 1>> /\ Len(relayed) < Cap
          /\ hand' = << >> /\ relayPC' = "range"
          /\ UNCHANGED <<relay, taken, closed, out, ctxDone>> /\ relayPC = "hold"
      BY <1>4 DEF RelaySend, RelayOrder, vars, reorderVars, ctxVars
    <2>2. Received' = Received BY <1>4, ReceivedStep
    <2>3. taken - 1 \in Nat /\ taken - 1 = Received + Len(relayed)
      <3>1. Len(hand) = 1 BY <2>1
      <3> QED BY <3>1, <1>0
    <2>4. /\ relayed' \in Seq(Nat) /\ Len(relayed') = Len(relayed) + 1
          /\ \A i \in 1 .. Len(relayed) : relayed'[i] = relayed[i]
          /\ relayed'[Len(relayed) + 1] = taken - 1
      BY <2>1, <2>3, <1>0
    <2>5. \A i \in 1 .. Len(relayed') : i \in 1 .. Len(relayed) \/ i = Len(relayed) + 1
      BY <2>4, <1>0
    <2>6. \A i \in 1 .. Len(relayed') : relayed'[i] = Received' + i - 1
      <3>1. \A i \in 1 .. Len(relayed) : relayed[i] = Received + i - 1 BY DEF RelayOrder
      <3>2. ASSUME NEW i \in 1 .. Len(relayed') PROVE relayed'[i] = Received + i - 1
        <4>1. CASE i \in 1 .. Len(relayed) BY <4>1, <3>1, <2>4
        <4>2. CASE i = Len(relayed) + 1
          <5>1. relayed'[i] = Received + Len(relayed) BY <4>2, <2>3, <2>4
          <5> QED BY <5>1, <4>2, <1>0
        <4> QED BY <4>1, <4>2, <2>5
      <3> QED BY <3>2, <2>2
    <2> QED BY <2>1, <2>2, <2>4, <2>6, <1>0 DEF RelayOrder
  <1>5. CASE RelayEnds
    <2>1. Received' = Received BY <1>5 DEF RelayEnds, Received, vars, reorderVars
    <2> QED BY <1>5, <2>1, <1>0 DEF RelayEnds, RelayOrder, vars, reorderVars
  <1>6. CASE RelayCancelled
    <2>1. Received' = Received BY <1>6 DEF RelayCancelled, Received, vars, reorderVars
    <2> QED BY <1>6, <2>1, <1>0
            DEF RelayCancelled, RelayOrder, EndedEarly, vars, reorderVars, ctxVars
  <1>7. CASE WriterTake
    <2>1. UNCHANGED <<relay, relayPC, hand>> /\ Received' = Received + 1
      BY <1>7, ReceivedStep DEF WriterTake
    <2>2. CASE relay = "none"
      <3>1. relayed' = relayed /\ relayed = << >> /\ relayPC = "returned"
        BY <1>7, <2>2 DEF WriterTake, RelayOrder
      <3>2. hand = << >> /\ hand' = << >> BY <2>1, <3>1 DEF RelayOrder
      <3> QED BY <2>1, <2>2, <3>1, <3>2, <1>0 DEF RelayOrder
    <2>3. CASE relay # "none"
      <3>1. relayed # << >> /\ relayed' = Tail(relayed) /\ UNCHANGED vars
        BY <1>7, <2>3 DEF WriterTake
      <3>2. /\ relayed' \in Seq(Nat) /\ Len(relayed') = Len(relayed) - 1
            /\ \A i \in 1 .. Len(relayed') : relayed'[i] = relayed[i + 1]
        BY <3>1, <1>0
      <3>3. \A i \in 1 .. Len(relayed') : i + 1 \in 1 .. Len(relayed) BY <3>2, <1>0
      <3>4. \A i \in 1 .. Len(relayed') : relayed'[i] = Received' + i - 1
        <4>1. ASSUME NEW i \in 1 .. Len(relayed') PROVE relayed'[i] = Received + 1 + i - 1
          <5>1. relayed'[i] = relayed[i + 1] /\ i + 1 \in 1 .. Len(relayed) BY <3>2, <3>3
          <5>2. relayed'[i] = Received + (i + 1) - 1 BY <5>1 DEF RelayOrder
          <5>3. i \in Nat BY <3>2, <1>0
          <5> QED BY <5>2, <5>3, <1>0
        <4> QED BY <4>1, <2>1
      <3>5. UNCHANGED <<taken, closed, out, ctxDone>>
        BY <3>1 DEF vars, reorderVars, ctxVars
      <3> QED BY <2>1, <2>3, <3>2, <3>4, <3>5, <1>0 DEF RelayOrder, EndedEarly
    <2> QED BY <2>2, <2>3
  <1>8. CASE \/ StartFfmpeg \/ StartFails \/ EndStream \/ WriteFails \/ Publish \/ ReadErrc
             \/ FfmpegDies \/ UNCHANGED runVars
    <2>1. UNCHANGED relayVars /\ UNCHANGED vars
      BY <1>8 DEF StartFfmpeg, StartFails, EndStream, WriteFails, Publish, ReadErrc,
                  FfmpegDies, runVars
    <2> QED BY <1>1, <2>1 DEF vars, reorderVars, ctxVars
  <1> QED BY <1>2, <1>3, <1>4, <1>5, <1>6, <1>7, <1>8 DEF RunNext, RelayStep, WriterStep

-----------------------------------------------------------------------------
(* The video.                                                              *)

\* Every position of a video shows what it should.
ShowsAll == \A p \in 0 .. Len(video) - 1 : video[p + 1] = Shown(p)

\* The writer has seen the end of the stream of a render that may still succeed.
AtEnd == writerPC \in {"wait", "errc"} \/ outcome = "ok"

WriterTypes ==
  /\ writerPC \in {"start", "stream", "wait", "errc", "returned"}
  /\ ffmpeg \in {"off", "up", "dead"}
  /\ video \in Seq(0 .. DurationFrames - 1) /\ Len(video) <= DurationFrames
  /\ writeErr \in BOOLEAN
  /\ published \in BOOLEAN
  /\ outcome \in {"running", "ok", "error"}
  /\ writerPC # "returned" => outcome = "running"

\* While frames come, the video reaches as far as the last frame received; at the end
\* it has its full length, and is right if all the frames were received.
VideoOrder ==
  /\ writerPC = "start" => video = << >> /\ Received = 0 /\ ~ writeErr
  /\ writerPC \in {"start", "stream"} =>
       ShowsAll /\ (~ writeErr => Len(video) = VideoLen(Received))
  /\ AtEnd =>
       /\ relayPC = "returned" /\ relayed = << >>
       /\ ~ EndedEarly => closed /\ out = << >>
       /\ ~ writeErr /\ video # << >> =>
            Len(video) = DurationFrames /\ (Received = Total => ShowsAll)

\* What Publish and ReadErrc have found when they let the render go on.
OutcomeOrder ==
  /\ writerPC = "errc" \/ outcome = "ok" =>
       published /\ ffmpeg = "off" /\ ~ writeErr /\ video # << >>
  /\ outcome = "ok" => cpc = "ended" /\ ~ firstErr

RunIInv == RelayOrder /\ ErrorSent /\ WriterTypes /\ VideoOrder /\ OutcomeOrder

LEMMA InitRunIInv == RunInit => RunIInv
  <1> SUFFICES ASSUME RunInit PROVE RunIInv OBVIOUS
  <1>1. RelayOrder BY InitRelay
  <1>2. video = << >> /\ relayed = << >> /\ hand = << >> /\ taken = 0 /\ ~ writeErr
    BY DEF RunInit, Init
  <1>3. Received = 0 /\ Len(video) = 0 /\ DurationFrames \in Nat
    <2>1. Len(video) = 0 /\ Len(relayed) = 0 /\ Len(hand) = 0 BY <1>2
    <2>2. taken = 0 BY <1>2
    <2> QED BY <2>1, <2>2, PipelineAssumption DEF Received
  <1>4. ErrorSent BY DEF RunInit, Init, ErrorSent
  <1>5. WriterTypes
    <2>1. video \in Seq(0 .. DurationFrames - 1) /\ Len(video) <= DurationFrames
      BY <1>2, <1>3
    <2> QED BY <2>1 DEF RunInit, WriterTypes
  <1>6. VideoOrder
    <2>1. 0 .. Len(video) - 1 = {} BY <1>3
    <2> QED BY <1>2, <1>3, <2>1 DEF RunInit, VideoOrder, VideoLen, ShowsAll, AtEnd
  <1>7. OutcomeOrder BY DEF RunInit, OutcomeOrder
  <1> QED BY <1>1, <1>4, <1>5, <1>6, <1>7 DEF RunIInv

\* No more frames are received than the render has.
LEMMA ReceivedBound ==
  ASSUME IInv, RelayOrder
  PROVE  /\ Received \in Nat /\ Received <= Total
         /\ relay = "none" /\ out # << >> => Head(out) = Received /\ Received < Total
         /\ relayed # << >> => Head(relayed) = Received /\ Received < Total
         /\ closed /\ ~ firstErr /\ out = << >> /\ relayed = << >> /\ hand = << >>
              => Received = Total
  <1>1. /\ taken \in Nat /\ out \in Seq(Nat) /\ Len(relayed) \in Nat /\ Len(hand) \in {0, 1}
        /\ Received = taken - Len(relayed) - Len(hand) /\ Received \in Nat
        /\ out # << >> => Head(out) = taken
        /\ relayed # << >> => Head(relayed) = Received
        /\ relayed \in Seq(Nat)
    BY RelayFrames DEF RelayOrder
  <1>2. /\ taken + Len(out) = next /\ next <= Total /\ Total \in Nat /\ next \in Nat
        /\ Len(out) \in Nat
        /\ closed => next = Total \/ firstErr
    BY <1>1, TotalType DEF IInv, InOrderDelivery, InRange, ClosedIsCompleteOrFailed, TypeOK
  <1>3. out # << >> => Len(out) # 0 BY <1>1
  <1>4. relayed # << >> => Len(relayed) # 0 BY <1>1
  <1>5. relay = "none" => Received = taken
    <2>1. SUFFICES ASSUME relay = "none" PROVE Received = taken OBVIOUS
    <2>2. relayed = << >> /\ hand = << >> BY <2>1 DEF RelayOrder
    <2>3. Len(relayed) = 0 /\ Len(hand) = 0 BY <2>2
    <2> QED BY <2>3, <1>1
  <1>6. out = << >> /\ relayed = << >> /\ hand = << >> => Received = next
    <2>1. SUFFICES ASSUME out = << >>, relayed = << >>, hand = << >> PROVE Received = next
      OBVIOUS
    <2>2. Len(out) = 0 /\ Len(relayed) = 0 /\ Len(hand) = 0 BY <2>1
    <2> QED BY <2>2, <1>1, <1>2
  <1> QED BY <1>1, <1>2, <1>3, <1>4, <1>5, <1>6

\* A video filled up with copies of a frame.
LEMMA Filled ==
  ASSUME NEW T, NEW v \in Seq(T), NEW x \in T, NEW n \in Nat
  PROVE  LET f == v \o [i \in 1 .. n |-> x]
         IN /\ f \in Seq(T) /\ Len(f) = Len(v) + n
            /\ \A i \in 1 .. Len(v) : f[i] = v[i]
            /\ \A i \in Len(v) + 1 .. Len(v) + n : f[i] = x
  <1> DEFINE c == [i \in 1 .. n |-> x]
  <1>1. c \in Seq(T) /\ Len(c) = n /\ \A i \in 1 .. n : c[i] = x OBVIOUS
  <1> HIDE DEF c
  <1>2. /\ v \o c \in Seq(T) /\ Len(v \o c) = Len(v) + Len(c)
        /\ \A i \in 1 .. Len(v) : (v \o c)[i] = v[i]
        /\ \A i \in Len(v) + 1 .. Len(v) + Len(c) : (v \o c)[i] = c[i - Len(v)]
    BY <1>1
  <1>3. \A i \in Len(v) + 1 .. Len(v) + n : i - Len(v) \in 1 .. n OBVIOUS
  <1>4. \A i \in Len(v) + 1 .. Len(v) + n : (v \o c)[i] = x BY <1>1, <1>2, <1>3
  <1> QED BY <1>1, <1>2, <1>4 DEF c
\* A turn of the loop that writes frame s makes the video reach as far as that frame.
LEMMA EncodeStep ==
  ASSUME WriterTypes, ShowsAll, NEW s \in 0 .. Total - 1,
         ~ writeErr => Len(video) = VideoLen(s), Encode(s)
  PROVE  /\ video' \in Seq(0 .. DurationFrames - 1) /\ Len(video') <= DurationFrames
         /\ writeErr' \in BOOLEAN
         /\ ShowsAll'
         /\ ~ writeErr' => ~ writeErr /\ Len(video') = VideoLen(s + 1)
  <1> DEFINE D == DurationFrames
             f == FrameOf(s)
             gap == f - Len(video)
             x == IF s = 0 THEN 0 ELSE FrameOf(s - 1)
             filled == video \o [i \in 1 .. gap |-> x]
  <1>1. /\ video \in Seq(0 .. D - 1) /\ Len(video) <= D /\ writeErr \in BOOLEAN
        /\ D \in Nat \ {0} /\ s \in Nat /\ Total \in Nat
    BY PipelineAssumption, TotalType DEF WriterTypes
  <1>2. f \in 0 .. D - 1 /\ Shown(f) = f /\ (s = 0 => f = 0) BY FrameSeq
  <1>0. writeErr' \in BOOLEAN
    <2>1. writeErr' = writeErr \/ writeErr' = TRUE BY Zenon DEF Encode
    <2> QED BY <2>1, <1>1
  <1>3. CASE UNCHANGED video /\ writeErr'
    BY <1>0, <1>1, <1>3 DEF ShowsAll
  <1>4. CASE ~ writeErr /\ ~ writeErr' /\ video' = Append(video \o Repeat(gap), f)
    <2>1. /\ Len(video) \in Nat /\ gap \in Nat /\ x \in 0 .. D - 1
          /\ gap # 0 => video # << >> /\ video[Len(video)] = x
          /\ \A p \in Len(video) .. f - 1 : Shown(p) = x
      <3>1. CASE s = 0
        <4>1. Len(video) = 0 BY <3>1, <1>4 DEF VideoLen
        <4> QED BY <3>1, <4>1, <1>1, <1>2
      <3>2. CASE s # 0
        <4>1. s - 1 \in 0 .. Total - 1 /\ s - 1 < Total - 1 /\ (s - 1) + 1 = s
          BY <3>2, <1>1
        <4>2. /\ x \in 0 .. D - 1 /\ Shown(x) = x /\ x < f
              /\ \A p \in x .. f - 1 : Shown(p) = x
          BY <3>2, <4>1, FrameSeq
        <4>3. Len(video) = x + 1 BY <3>2, <1>4 DEF VideoLen
        <4> HIDE DEF x, f
        <4>4. x \in 0 .. Len(video) - 1 BY <4>2, <4>3
        <4>5. video[x + 1] = Shown(x) BY <4>4 DEF ShowsAll
        <4>6. \A p \in Len(video) .. f - 1 : p \in x .. f - 1 BY <4>2, <4>3, <1>1, <1>2
        <4>7. video # << >> BY <4>2, <4>3
        <4> QED BY <4>2, <4>3, <4>5, <4>6, <4>7, <1>1, <1>2
      <3> QED BY <3>1, <3>2
    <2>2. Repeat(gap) = [i \in 1 .. gap |-> x]
      <3>1. CASE gap = 0
        <4>1. 1 .. gap = {} BY <3>1
        <4> HIDE DEF gap, x
        <4> QED BY <4>1 DEF Repeat
      <3>2. CASE gap # 0 BY <3>2, <2>1 DEF Repeat
      <3> QED BY <3>1, <3>2
    <2>3. /\ filled \in Seq(0 .. D - 1) /\ Len(filled) = Len(video) + gap
          /\ \A i \in 1 .. Len(video) : filled[i] = video[i]
          /\ \A i \in Len(video) + 1 .. Len(video) + gap : filled[i] = x
      <3> HIDE DEF gap, x
      <3> QED BY <1>1, <2>1, Filled
    <2>4. video' = Append(filled, f) BY <1>4, <2>2
    <2> HIDE DEF filled, x
    <2>5. Len(filled) = f BY <2>1, <2>3, <1>1, <1>2
    <2>6. /\ video' \in Seq(0 .. D - 1) /\ Len(video') = f + 1 /\ video'[f + 1] = f
          /\ \A i \in 1 .. f : video'[i] = filled[i]
      BY <2>3, <2>4, <2>5, <1>2
    <2>7. ASSUME NEW p \in 0 .. f PROVE video'[p + 1] = Shown(p)
      <3>1. CASE p = f BY <3>1, <2>6, <1>2
      <3>2. CASE p # f /\ p < Len(video)
        <4>1. p \in 0 .. Len(video) - 1 /\ p + 1 \in 1 .. Len(video) /\ p + 1 \in 1 .. f
          BY <3>2, <2>1, <1>2
        <4> QED BY <4>1, <2>3, <2>6 DEF ShowsAll
      <3>3. CASE p # f /\ ~ (p < Len(video))
        <4>1. /\ p \in Len(video) .. f - 1 /\ p + 1 \in 1 .. f
              /\ p + 1 \in Len(video) + 1 .. Len(video) + gap
          BY <3>3, <2>1, <1>2
        <4> QED BY <4>1, <2>1, <2>3, <2>6
      <3> QED BY <3>1, <3>2, <3>3
    <2>8. ShowsAll'
      <3>1. Len(video') - 1 = f BY <2>6, <1>2
      <3> QED BY <3>1, <2>7 DEF ShowsAll, Shown
    <2>9. Len(video') = VideoLen(s + 1)
      <3>1. s + 1 # 0 /\ (s + 1) - 1 = s BY <1>1
      <3> QED BY <3>1, <2>6 DEF VideoLen
    <2>10. Len(video') <= D BY <2>6, <1>1, <1>2
    <2> QED BY <1>0, <1>4, <2>6, <2>8, <2>9, <2>10
  <1>5. \/ UNCHANGED video /\ writeErr'
        \/ ~ writeErr /\ ~ writeErr' /\ video' = Append(video \o Repeat(gap), f)
    <2>1. CASE writeErr BY <2>1, Zenon DEF Encode
    <2>2. CASE ~ writeErr /\ (ffmpeg = "dead" \/ (gap > 0 /\ video = << >>))
      BY <2>2, Zenon DEF Encode
    <2>3. CASE ~ writeErr /\ ~ (ffmpeg = "dead" \/ (gap > 0 /\ video = << >>))
      BY <2>3, Zenon DEF Encode
    <2> QED BY <2>1, <2>2, <2>3
  <1> QED BY <1>3, <1>4, <1>5
\* The steps of the pipeline and of the relay do not disturb the writer's part.
LEMMA WriterUndisturbed ==
  ASSUME IInv, RunIInv, (PipelineStep /\ UNCHANGED <<relayVars, writerVars>>) \/ RelayStep
  PROVE  WriterTypes' /\ VideoOrder' /\ OutcomeOrder'
  <1> USE DEF relayVars, writerVars
  <1>1. RelayOrder /\ WriterTypes /\ VideoOrder /\ OutcomeOrder BY DEF RunIInv
  <1>2. UNCHANGED <<writerPC, ffmpeg, video, writeErr, published, outcome, relay>>
    BY DEF RelayStep, RelayTake, RelaySend, RelayEnds, RelayCancelled
  <1>3. Received' = Received
    <2>1. CASE PipelineStep /\ UNCHANGED <<relayVars, writerVars>>
      <3>1. UNCHANGED <<taken, relayed, hand>> BY <2>1, PipelineFacts
      <3> QED BY <3>1 DEF Received
    <2>2. CASE RelayTake \/ RelaySend BY <2>2, <1>1, ReceivedStep
    <2>3. CASE RelayEnds \/ RelayCancelled
      <3>1. UNCHANGED <<taken, relayed, hand>>
        BY <2>3 DEF RelayEnds, RelayCancelled, vars, reorderVars
      <3> QED BY <3>1 DEF Received
    <2> QED BY <2>1, <2>2, <2>3 DEF RelayStep
  <1>4. /\ ctxDone => ctxDone'
        /\ cpc = "ended" => cpc' = "ended" /\ firstErr' = firstErr
    <2>1. CASE PipelineStep BY <2>1, PipelineFacts
    <2>2. CASE RelayStep
      BY <2>2 DEF RelayStep, RelayTake, RelaySend, RelayEnds, RelayCancelled, Consume, vars,
                  collectorVars, ctxVars
    <2> QED BY <2>1, <2>2
  <1>5. AtEnd => /\ UNCHANGED <<relayPC, relayed>>
                 /\ closed /\ out = << >> => closed' /\ out' = << >>
    <2>1. CASE PipelineStep /\ UNCHANGED <<relayVars, writerVars>> BY <2>1, PipelineFacts
    <2>2. CASE RelayStep
      <3>1. relayPC # "returned"
        BY <2>2 DEF RelayStep, RelayTake, RelaySend, RelayEnds, RelayCancelled
      <3> QED BY <3>1, <1>1 DEF VideoOrder
    <2> QED BY <2>1, <2>2
  <1>6. WriterTypes' BY <1>1, <1>2 DEF WriterTypes
  <1>7. ShowsAll' = ShowsAll /\ AtEnd' = AtEnd BY <1>2 DEF ShowsAll, Shown, AtEnd
  <1>8. VideoOrder'
    <2>1. EndedEarly => EndedEarly' BY <1>2, <1>4 DEF EndedEarly
    <2>2. VideoLen(Received)' = VideoLen(Received) BY <1>3 DEF VideoLen, FrameOf
    <2> HIDE DEF relayVars, writerVars
    <2> QED BY <1>1, <1>2, <1>3, <1>5, <1>7, <2>1, <2>2 DEF VideoOrder
  <1>9. OutcomeOrder' BY <1>1, <1>2, <1>4 DEF OutcomeOrder
  <1> QED BY <1>6, <1>8, <1>9

LEMMA WriterTakeStep ==
  ASSUME IInv, RunIInv, WriterTake
  PROVE  WriterTypes' /\ VideoOrder' /\ OutcomeOrder'
  <1>1. RelayOrder /\ WriterTypes /\ VideoOrder /\ OutcomeOrder BY DEF RunIInv
  <1>2. /\ UNCHANGED <<writerPC, ffmpeg, published, outcome>>
        /\ writerPC = "stream" /\ outcome = "running"
    BY <1>1 DEF WriterTake, WriterTypes
  <1>3. Received' = Received + 1 /\ Received \in 0 .. Total - 1 /\ Encode(Received)
    <2>1. Received' = Received + 1 BY <1>1, ReceivedStep
    <2>2. CASE relay = "none" /\ out # << >> /\ Encode(Head(out))
      <3>1. Received \in Nat /\ Head(out) = Received /\ Received < Total
        BY <2>2, <1>1, ReceivedBound
      <3> QED BY <2>1, <2>2, <3>1, TotalType
    <2>3. CASE relayed # << >> /\ Encode(Head(relayed))
      <3>1. Received \in Nat /\ Head(relayed) = Received /\ Received < Total
        BY <2>3, <1>1, ReceivedBound
      <3> QED BY <2>1, <2>3, <3>1, TotalType
    <2> QED BY <2>2, <2>3 DEF WriterTake
  <1>4. ShowsAll /\ (~ writeErr => Len(video) = VideoLen(Received))
    BY <1>1, <1>2 DEF VideoOrder
  <1>5. /\ video' \in Seq(0 .. DurationFrames - 1) /\ Len(video') <= DurationFrames
        /\ writeErr' \in BOOLEAN
        /\ ShowsAll'
        /\ ~ writeErr' => Len(video') = VideoLen(Received + 1)
    BY <1>1, <1>3, <1>4, EncodeStep
  <1>6. WriterTypes' BY <1>1, <1>2, <1>5 DEF WriterTypes
  <1>7. VideoOrder'
    <2>1. writerPC' = "stream" /\ ~ AtEnd' BY <1>2 DEF AtEnd
    <2>2. VideoLen(Received)' = VideoLen(Received + 1) BY <1>3 DEF VideoLen, FrameOf
    <2> QED BY <1>5, <2>1, <2>2 DEF VideoOrder
  <1>8. OutcomeOrder' BY <1>2 DEF OutcomeOrder
  <1> QED BY <1>6, <1>7, <1>8
\* At the end of the stream the last frame fills the video up.  Nothing is left to fill
\* when all the frames were received.
LEMMA EndStreamStep ==
  ASSUME IInv, RunIInv, EndStream
  PROVE  WriterTypes' /\ VideoOrder' /\ OutcomeOrder'
  <1> DEFINE D == DurationFrames
             n == D - Len(video)
             x == video[Len(video)]
             filled == video \o [i \in 1 .. n |-> x]
  <1>1. RelayOrder /\ WriterTypes /\ VideoOrder /\ OutcomeOrder BY DEF RunIInv
  <1>2. /\ writerPC = "stream" /\ writerPC' = "wait" /\ outcome = "running"
        /\ UNCHANGED <<ffmpeg, published, outcome, relay, relayPC, hand, relayed>>
        /\ UNCHANGED <<taken, out, closed, ctxDone>>
    BY <1>1 DEF EndStream, WriterTypes, relayVars, vars, reorderVars, ctxVars
  <1>3. Received' = Received BY <1>2 DEF Received
  <1>4. /\ relayPC = "returned" /\ relayed = << >>
        /\ ~ EndedEarly => closed /\ out = << >>
    BY <1>1 DEF EndStream, RelayOrder
  <1>5. /\ ShowsAll /\ (~ writeErr => Len(video) = VideoLen(Received))
        /\ video \in Seq(0 .. D - 1) /\ Len(video) <= D /\ writeErr \in BOOLEAN
        /\ D \in Nat /\ Len(video) \in Nat
    BY <1>1, <1>2, PipelineAssumption DEF VideoOrder, WriterTypes
  <1>6. /\ writeErr' = writeErr \/ writeErr' = TRUE
        /\ writeErr => writeErr'
    BY Zenon DEF EndStream
  <1>7. Received = Total /\ ~ writeErr => Len(video) = D
    <2>1. Total # 0 BY TotalType
    <2>2. Received = Total => VideoLen(Received) = (D - 1) + 1
      BY <2>1, StridedFrames DEF VideoLen
    <2> QED BY <1>5, <2>2
  <1>8. /\ video' \in Seq(0 .. D - 1) /\ Len(video') <= D
        /\ ~ writeErr' /\ video' # << >> =>
             Len(video') = D /\ (Received = Total => video' = video)
    <2>1. CASE video' = video /\ (writeErr' \/ writeErr \/ video = << >> \/ Len(video) >= D)
      BY <2>1, <1>5, <1>6
    <2>2. CASE ~ writeErr /\ video # << >> /\ ~ (Len(video) >= D) /\ video' = video \o Repeat(n)
      <3>1. n \in Nat /\ x \in 0 .. D - 1 BY <2>2, <1>5
      <3>2. filled \in Seq(0 .. D - 1) /\ Len(filled) = Len(video) + n
        <4> HIDE DEF n, x
        <4> QED BY <3>1, <1>5, Filled
      <3>3. video' = filled BY <2>2 DEF Repeat
      <3>4. Len(filled) = D BY <2>2, <3>2, <1>5
      <3>5. Received # Total BY <2>2, <1>5, <1>7
      <3> HIDE DEF filled
      <3>6. video' \in Seq(0 .. D - 1) /\ Len(video') = D BY <3>2, <3>3, <3>4
      <3> QED BY <3>5, <3>6, <1>5
    <2>3. CASE writeErr \/ video = << >> \/ Len(video) >= D
      BY <2>1, <2>3 DEF EndStream
    <2>4. CASE ~ (writeErr \/ video = << >> \/ Len(video) >= D)
      BY <2>1, <2>2, <2>4 DEF EndStream
    <2> QED BY <2>3, <2>4
  <1>9. WriterTypes' BY <1>1, <1>2, <1>5, <1>6, <1>8 DEF WriterTypes
  <1>10. VideoOrder'
    <2>1. EndedEarly' = EndedEarly BY <1>2 DEF EndedEarly
    <2>2. video' = video => ShowsAll' BY <1>5 DEF ShowsAll, Shown
    <2>3. /\ relayPC' = "returned" /\ relayed' = << >>
          /\ ~ EndedEarly' => closed' /\ out' = << >>
      BY <1>2, <1>4, <2>1
    <2> QED BY <1>2, <1>3, <1>8, <2>2, <2>3 DEF VideoOrder
  <1>11. OutcomeOrder' BY <1>2 DEF OutcomeOrder
  <1> QED BY <1>9, <1>10, <1>11

\* The other steps of the writer leave the video as it is, and ReadErrc lets the render
\* succeed only when the pipeline has ended without an error.
LEMMA WriterOtherStep ==
  ASSUME IInv, RunIInv,
         \/ StartFfmpeg \/ StartFails \/ WriteFails \/ Publish \/ ReadErrc \/ FfmpegDies
         \/ UNCHANGED runVars
  PROVE  WriterTypes' /\ VideoOrder' /\ OutcomeOrder'
  <1>1. RelayOrder /\ ErrorSent /\ WriterTypes /\ VideoOrder /\ OutcomeOrder BY DEF RunIInv
  <1>2. /\ UNCHANGED <<video, writeErr, relay, relayPC, hand, relayed>>
        /\ UNCHANGED <<taken, out, closed, ctxDone, cpc, firstErr, errc, errcClosed>>
    BY DEF StartFfmpeg, StartFails, WriteFails, Publish, ReadErrc, FfmpegDies, runVars,
           relayVars, writerVars, vars, reorderVars, collectorVars, ctxVars
  <1>3. /\ Received' = Received /\ ShowsAll' = ShowsAll /\ EndedEarly' = EndedEarly
        /\ VideoLen(Received)' = VideoLen(Received)
    BY <1>2 DEF Received, ShowsAll, Shown, EndedEarly, VideoLen, FrameOf
  <1>4. WriterTypes'
    BY <1>1, <1>2 DEF WriterTypes, StartFfmpeg, StartFails, WriteFails, Publish, ReadErrc,
                      FfmpegDies, runVars, writerVars
  <1>5. /\ AtEnd' => AtEnd
        /\ writerPC' \in {"start", "stream"} => writerPC \in {"start", "stream"}
        /\ writerPC' = "start" => writerPC = "start"
    BY <1>1 DEF AtEnd, WriterTypes, StartFfmpeg, StartFails, WriteFails, Publish, ReadErrc,
                FfmpegDies, runVars, writerVars
  <1>7. VideoOrder' BY <1>1, <1>2, <1>3, <1>5 DEF VideoOrder
  <1>8. OutcomeOrder'
    <2>1. CASE Publish
      BY <2>1, <1>1, <1>2 DEF Publish, OutcomeOrder, WriterTypes
    <2>2. CASE ReadErrc
      <3>1. errcClosed => cpc = "ended" BY DEF IInv, Shutdown
      <3>2. cpc = "ended" /\ errc # "error" => ~ firstErr BY <1>1 DEF ErrorSent
      <3> QED BY <2>2, <3>1, <3>2, <1>1, <1>2 DEF ReadErrc, OutcomeOrder, WriterTypes
    <2>3. CASE \/ StartFfmpeg \/ StartFails \/ WriteFails \/ FfmpegDies
               \/ UNCHANGED runVars
      BY <2>3, <1>1, <1>2 DEF StartFfmpeg, StartFails, WriteFails, FfmpegDies, runVars,
                              writerVars, OutcomeOrder, WriterTypes
    <2> QED BY <2>1, <2>2, <2>3
  <1> QED BY <1>4, <1>7, <1>8
LEMMA NextRunIInv == IInv /\ RunIInv /\ [RunNext]_runVars => RunIInv'
  <1> SUFFICES ASSUME IInv, RunIInv, [RunNext]_runVars PROVE RunIInv' OBVIOUS
  <1>1. RelayOrder' BY RelayOrderStep DEF RunIInv
  <1>2. ErrorSent' BY RunStepIsNext, ErrorSentStep DEF RunIInv
  <1>3. WriterTypes' /\ VideoOrder' /\ OutcomeOrder'
    <2>1. CASE (PipelineStep /\ UNCHANGED <<relayVars, writerVars>>) \/ RelayStep
      BY <2>1, WriterUndisturbed
    <2>2. CASE WriterTake BY <2>2, WriterTakeStep
    <2>3. CASE EndStream BY <2>3, EndStreamStep
    <2>4. CASE \/ StartFfmpeg \/ StartFails \/ WriteFails \/ Publish \/ ReadErrc \/ FfmpegDies
               \/ UNCHANGED runVars
      BY <2>4, WriterOtherStep
    <2> QED BY <2>1, <2>2, <2>3, <2>4 DEF RunNext, WriterStep
  <1> QED BY <1>1, <1>2, <1>3 DEF RunIInv

LEMMA AlwaysRunIInv == RunSpec => [](IInv /\ RunIInv)
  <1>1. RunInit => RunIInv BY InitRunIInv
  <1>2. IInv /\ RunIInv /\ [RunNext]_runVars => RunIInv' BY NextRunIInv
  <1> QED BY <1>1, <1>2, RunInvariance, PTL DEF RunSpec

-----------------------------------------------------------------------------
(* What a render promises.                                                 *)

\* The relay and the writer keep their types, and no video is longer than the composition.
THEOREM RunTypeCorrect == RunSpec => []RunTypeOK
  <1>1. IInv /\ RunIInv => RunTypeOK
    <2> SUFFICES ASSUME IInv, RunIInv PROVE RunTypeOK OBVIOUS
    <2>1. TypeOK /\ RelayOrder /\ WriterTypes BY DEF IInv, RunIInv
    <2>2. /\ taken \in Nat /\ Len(relayed) \in Nat /\ Received = taken - Len(relayed) - Len(hand)
          /\ Received \in Nat /\ relayed \in Seq(Nat)
      BY <2>1, RelayFrames DEF RelayOrder
    <2>3. taken <= Total /\ Total \in Nat
      <3>1. taken + Len(out) = next /\ next <= Total /\ Len(out) \in Nat
        BY <2>1 DEF IInv, InOrderDelivery, InRange, TypeOK
      <3> QED BY <3>1, <2>2, TotalType
    <2>4. hand \in Seq(0 .. Total - 1) /\ Len(hand) = (IF relayPC = "hold" THEN 1 ELSE 0)
      <3>1. CASE relayPC = "hold"
        <4>1. hand = <<taken - 1>> /\ Len(hand) = 1 BY <2>1, <3>1 DEF RelayOrder
        <4>2. taken - 1 \in 0 .. Total - 1 BY <4>1, <2>2, <2>3
        <4> QED BY <3>1, <4>1, <4>2
      <3>2. CASE relayPC # "hold" BY <2>1, <3>2 DEF RelayOrder
      <3> QED BY <3>1, <3>2
    <2>5. relayed \in Seq(0 .. Total - 1)
      <3>1. ASSUME NEW i \in 1 .. Len(relayed) PROVE relayed[i] \in 0 .. Total - 1
        <4>1. relayed[i] = Received + i - 1 BY <2>1 DEF RelayOrder
        <4>2. Len(hand) \in Nat BY <2>4
        <4>3. i \in Nat /\ i <= Len(relayed) /\ 1 <= i BY <2>2
        <4> HIDE DEF Received
        <4> QED BY <4>1, <4>2, <4>3, <2>2, <2>3
      <3> DEFINE n == Len(relayed)
      <3>2. n \in Nat /\ relayed \in [1 .. n -> Nat] BY <2>2
      <3>3. relayed \in [1 .. n -> 0 .. Total - 1] BY <3>1, <3>2
      <3>4. \A S : [1 .. n -> S] \subseteq Seq(S) BY <3>2
      <3> QED BY <3>3, <3>4
    <2> QED BY <2>1, <2>4, <2>5 DEF RelayOrder, WriterTypes, RunTypeOK
  <1> QED BY <1>1, AlwaysRunIInv, PTL

\* No frame is dropped, repeated or reordered between the pipeline and ffmpeg.
THEOREM VideoAlwaysPrefix == RunSpec => []VideoIsPrefix
  <1>1. RunIInv => VideoIsPrefix BY DEF RunIInv, VideoOrder, ShowsAll, VideoIsPrefix
  <1> QED BY <1>1, AlwaysRunIInv, PTL

\* A render in which a frame has failed, ffmpeg did not start or has died, or a write to it
\* has failed returns an error, for every relay, number of workers and stride.
THEOREM FailureAlwaysReported == RunSpec => []FailureIsReported
  <1>1. RunIInv => FailureIsReported BY DEF RunIInv, OutcomeOrder, FailureIsReported
  <1> QED BY <1>1, AlwaysRunIInv, PTL

\* A render that returns no error has published a complete video, unless withProgress
\* cut its stream short.
THEOREM SuccessAlwaysComplete == RunSpec => []SuccessMeansComplete
  <1>1. IInv /\ RunIInv => SuccessMeansComplete
    <2> SUFFICES ASSUME IInv, RunIInv, outcome = "ok", ~ EndedEarly
                 PROVE  /\ published
                        /\ Len(video) = DurationFrames
                        /\ \A p \in 0 .. DurationFrames - 1 : video[p + 1] = Shown(p)
      BY DEF SuccessMeansComplete, EndedEarly
    <2>1. RelayOrder /\ VideoOrder /\ OutcomeOrder BY DEF RunIInv
    <2>2. published /\ ~ writeErr /\ video # << >> /\ ~ firstErr BY <2>1 DEF OutcomeOrder
    <2>3. /\ relayPC = "returned" /\ relayed = << >> /\ closed /\ out = << >>
          /\ Len(video) = DurationFrames /\ (Received = Total => ShowsAll)
      BY <2>1, <2>2 DEF VideoOrder, AtEnd
    <2>4. hand = << >> BY <2>1, <2>3 DEF RelayOrder
    <2>5. Received = Total BY <2>1, <2>2, <2>3, <2>4, ReceivedBound
    <2> QED BY <2>2, <2>3, <2>5 DEF ShowsAll
  <1> QED BY <1>1, AlwaysRunIInv, PTL
-----------------------------------------------------------------------------
(* No render goes on for ever.                                             *)

\* The parts of the pipeline, and: the frames that the relay has passed on, whether it
\* has returned, the frames that the writer has received, its place, ffmpeg's death.
RunPart == -10 .. NumWorkers - 1

RelayClock == taken - Len(hand)

WriterClock ==
  CASE writerPC = "start"    -> 0
    [] writerPC = "stream"   -> 1
    [] writerPC = "wait"     -> 2
    [] writerPC = "errc"     -> 3
    [] writerPC = "returned" -> 4

RunClock ==
  [p \in RunPart |->
     CASE p \in Part -> Clock[p]
       [] p = -6  -> RelayClock
       [] p = -7  -> IF relayPC = "returned" THEN 1 ELSE 0
       [] p = -8  -> Received
       [] p = -9  -> WriterClock
       [] p = -10 -> IF ffmpeg = "dead" THEN 1 ELSE 0]

\* How many steps the whole render can still take, at most.
RunStepsLeft == Cardinality(Ahead(RunPart, Horizon, RunClock))

\* What the writer's place says of ffmpeg and of the outcome, and the collector's of errc.
RunOrder ==
  /\ writerPC = "start" => ffmpeg = "off"
  /\ writerPC \in {"stream", "wait"} => ffmpeg # "off"
  /\ writerPC = "returned" => outcome # "running"
  /\ cpc = "ended" => errcClosed

\* The guards of the relay's and the writer's actions.
CanRelay ==
  \/ relayPC = "range" /\ out # << >>
  \/ relayPC = "hold" /\ Len(relayed) < Cap
  \/ relayPC = "range" /\ out = << >> /\ closed
  \/ relay = "progress" /\ relayPC = "range" /\ ctxDone

CanWrite ==
  \/ writerPC = "start"
  \/ writerPC = "stream" /\ relay = "none" /\ out # << >>
  \/ writerPC = "stream" /\ relayed # << >>
  \/ /\ writerPC = "stream"
     /\ IF relay = "none" THEN out = << >> /\ closed
                          ELSE relayed = << >> /\ relayPC = "returned"
  \/ /\ writerPC = "wait"
     /\ ffmpeg = "dead" \/ writeErr \/ video = << >> \/ FfmpegMayFail \/ ctxDone
  \/ writerPC = "wait" /\ ffmpeg = "up" /\ ~ writeErr /\ video # << >>
  \/ writerPC = "errc" /\ (errc = "error" \/ errcClosed)

\* Until the render has returned or been cancelled, someone can go on.
RenderNeverStuck ==
  outcome = "running" /\ ~ ctxDone =>
    (\E w \in Worker : CanWork(w)) \/ CanClose \/ CanCollect \/ CanRelay \/ CanWrite

LEMMA InitRunOrder == RunInit => RunOrder
  BY DEF RunInit, Init, RunOrder

LEMMA RunOrderStep ==
  ASSUME RunOrder, [RunNext]_runVars
  PROVE  RunOrder'
  <1> USE DEF RunOrder, relayVars, writerVars
  <1>1. cpc' = "ended" => errcClosed'
    <2> USE DEF workerVars, reorderVars, collectorVars, resultsVars, ctxVars
    <2>1. ASSUME NEW w \in Worker, WorkerStep(w) PROVE UNCHANGED <<cpc, errcClosed>>
      BY <2>1 DEF WorkerStep, WorkerReturn, BeginFrame, AcquireBrowser, AcquireFails,
                  CaptureFrame, CaptureFails, WriteFile, SendResult
    <2>2. CollectorStep => (cpc' = "ended" => errcClosed')
      BY DEF CollectorStep, ReceiveFrame, ReceiveError, Emit, EndPush, EndCollect,
             CloseRenderer, Finish
    <2> QED BY <2>1, <2>2, RunStepIsNext
            DEF Next, PipelineStep, CloseResults, CancelContext, Consume, vars
  <1>2. CASE (PipelineStep /\ UNCHANGED <<relayVars, writerVars>>) \/ RelayStep
    BY <1>1, <1>2 DEF RelayStep, RelayTake, RelaySend, RelayEnds, RelayCancelled
  <1>3. CASE WriterStep
    BY <1>1, <1>3 DEF WriterStep, StartFfmpeg, StartFails, WriterTake, EndStream,
                      WriteFails, Publish, ReadErrc
  <1>4. CASE FfmpegDies \/ UNCHANGED runVars BY <1>1, <1>4 DEF FfmpegDies, runVars
  <1> QED BY <1>2, <1>3, <1>4 DEF RunNext

LEMMA AlwaysRunOrder == RunSpec => [](IInv /\ Placed /\ RunIInv /\ RunOrder)
  <1>1. RunSpec => [](IInv /\ Placed) BY RunIsPipeline, AlwaysPlaced, PTL
  <1>2. RunOrder /\ [RunNext]_runVars => RunOrder' BY RunOrderStep
  <1> QED BY <1>1, <1>2, InitRunOrder, AlwaysRunIInv, PTL DEF RunSpec

\* The clocks of the relay and the writer: a step that leaves the pipeline alone moves
\* one of them, and no step moves one back.
LEMMA RelayWriterClocks ==
  ASSUME IInv, RunIInv, RunOrder, RunNext
  PROVE  /\ RelayClock \in Nat /\ RelayClock' \in Int /\ RelayClock <= RelayClock'
         /\ Received \in Nat /\ Received' \in Int /\ Received <= Received'
         /\ WriterClock \in 0 .. 4 /\ WriterClock' \in 0 .. 4 /\ WriterClock <= WriterClock'
         /\ relayPC = "returned" => relayPC' = "returned"
         /\ ffmpeg = "dead" => ffmpeg' = "dead"
         /\ \/ Next
            \/ /\ UNCHANGED vars
               /\ \/ RelayClock < RelayClock'
                  \/ Received < Received'
                  \/ WriterClock < WriterClock'
                  \/ relayPC # "returned" /\ relayPC' = "returned"
                  \/ ffmpeg # "dead" /\ ffmpeg' = "dead"
  <1> USE DEF relayVars, writerVars
  <1>0. RelayOrder /\ WriterTypes BY DEF RunIInv
  <1>1. /\ taken \in Nat /\ Len(relayed) \in Nat /\ Len(hand) \in {0, 1}
        /\ Received = taken - Len(relayed) - Len(hand)
        /\ Received' = taken' - Len(relayed') - Len(hand')
        /\ Received \in Nat
    BY <1>0, RelayFrames DEF RelayOrder, Received
  <1>2. RelayClock = taken - Len(hand) /\ RelayClock' = taken' - Len(hand')
    BY DEF RelayClock
  <1>3. RelayClock \in Nat
    <2>1. RelayClock = Received + Len(relayed) BY <1>1, <1>2
    <2> QED BY <1>1, <2>1
  <1>4. /\ WriterClock \in 0 .. 4
        /\ WriterClock' = CASE writerPC' = "start"    -> 0
                            [] writerPC' = "stream"   -> 1
                            [] writerPC' = "wait"     -> 2
                            [] writerPC' = "errc"     -> 3
                            [] writerPC' = "returned" -> 4
    BY <1>0 DEF WriterClock, WriterTypes
  <1>4a. RelayClock \in Nat /\ Received \in Nat /\ WriterClock \in 0 .. 4 BY <1>1, <1>3, <1>4
  <1> HIDE DEF Received, RelayClock
  <1>5. CASE PipelineStep /\ UNCHANGED <<relayVars, writerVars>>
    <2>1. taken' = taken BY <1>5, PipelineFacts
    <2>2. RelayClock' = RelayClock /\ Received' = Received BY <1>1, <1>2, <1>5, <2>1
    <2>3. WriterClock' = WriterClock BY <1>5 DEF WriterClock
    <2> QED BY <1>4a, <1>5, <2>2, <2>3 DEF Next
  <1>6. CASE RelayTake
    <2>1. /\ taken' = taken + 1 /\ hand' = <<Head(out)>> /\ relayPC = "range"
          /\ relayPC' = "hold" /\ Consume /\ UNCHANGED writerVars
      BY <1>6 DEF RelayTake, Consume
    <2>2. Len(hand) = 0 /\ Len(hand') = 1 BY <1>0, <2>1 DEF RelayOrder
    <2>3. RelayClock' = RelayClock BY <1>1, <1>2, <2>1, <2>2
    <2>4. Received' = Received BY <1>0, <1>6, ReceivedStep
    <2>5. WriterClock' = WriterClock BY <2>1 DEF WriterClock
    <2> QED BY <1>4a, <2>1, <2>3, <2>4, <2>5 DEF Next
  <1>7. CASE RelaySend
    <2>1. /\ taken' = taken /\ hand' = << >> /\ relayPC = "hold" /\ relayPC' = "range"
          /\ UNCHANGED <<vars, writerVars>>
      BY <1>7 DEF RelaySend, vars, reorderVars
    <2>2. Len(hand) = 1 /\ Len(hand') = 0 BY <1>0, <2>1 DEF RelayOrder
    <2>3. RelayClock' = RelayClock + 1 BY <1>1, <1>2, <2>1, <2>2
    <2>4. Received' = Received BY <1>0, <1>7, ReceivedStep
    <2>5. WriterClock' = WriterClock BY <2>1 DEF WriterClock
    <2> QED BY <1>4a, <2>1, <2>3, <2>4, <2>5
  <1>8. CASE RelayEnds \/ RelayCancelled
    <2>1. /\ relayPC = "range" /\ relayPC' = "returned"
          /\ UNCHANGED <<taken, hand, relayed, vars, writerVars>>
      BY <1>8 DEF RelayEnds, RelayCancelled, vars, reorderVars
    <2>2. RelayClock' = RelayClock /\ Received' = Received BY <1>1, <1>2, <2>1
    <2>3. WriterClock' = WriterClock BY <2>1 DEF WriterClock
    <2> QED BY <1>4a, <2>1, <2>2, <2>3
  <1>9. CASE WriterTake
    <2>1. Received' = Received + 1 BY <1>0, <1>9, ReceivedStep
    <2>2. /\ UNCHANGED <<relayPC, hand, writerPC, ffmpeg>>
          /\ \/ Consume /\ taken' = taken + 1
             \/ UNCHANGED vars /\ taken' = taken
      BY <1>9 DEF WriterTake, Consume, vars, reorderVars
    <2>3. RelayClock' = RelayClock + 1 \/ RelayClock' = RelayClock BY <1>1, <1>2, <2>2
    <2>4. WriterClock' = WriterClock BY <2>2 DEF WriterClock
    <2> QED BY <1>4a, <2>1, <2>2, <2>3, <2>4 DEF Next
  <1>10. ASSUME StartFfmpeg \/ StartFails \/ EndStream \/ WriteFails \/ Publish \/ ReadErrc
         PROVE  /\ WriterClock' \in 0 .. 4 /\ WriterClock < WriterClock'
                /\ ffmpeg = "dead" => ffmpeg' = "dead"
                /\ UNCHANGED <<relayVars, vars, taken>>
    <2>1. /\ <<writerPC, writerPC'>> \in {<<"start", "stream">>, <<"start", "returned">>,
             <<"stream", "wait">>, <<"wait", "errc">>, <<"wait", "returned">>, <<"errc", "returned">>}
          /\ ffmpeg = "dead" => ffmpeg' = "dead"
          /\ UNCHANGED <<relayVars, vars, taken>>
      BY <1>10 DEF StartFfmpeg, StartFails, EndStream, WriteFails, Publish, ReadErrc, RunOrder,
                   vars, reorderVars
    <2> QED BY <1>4, <2>1 DEF WriterClock
  <1>11. CASE StartFfmpeg \/ StartFails \/ EndStream \/ WriteFails \/ Publish \/ ReadErrc
    <2>1. RelayClock' = RelayClock /\ Received' = Received BY <1>1, <1>2, <1>10, <1>11
    <2> QED BY <1>4a, <1>10, <1>11, <2>1
  <1>12. CASE FfmpegDies
    <2>1. /\ ffmpeg # "dead" /\ ffmpeg' = "dead"
          /\ UNCHANGED <<relayVars, vars, taken, writerPC>>
      BY <1>12 DEF FfmpegDies, vars, reorderVars
    <2>2. RelayClock' = RelayClock /\ Received' = Received BY <1>1, <1>2, <2>1
    <2>3. WriterClock' = WriterClock BY <2>1 DEF WriterClock
    <2> QED BY <1>4a, <2>1, <2>2, <2>3
  <1> QED BY <1>5, <1>6, <1>7, <1>8, <1>9, <1>11, <1>12 DEF RunNext, RelayStep, WriterStep

\* A step of the render that leaves the pipeline alone leaves its clocks.
LEMMA ClockStill == UNCHANGED vars => UNCHANGED Clock
  BY DEF vars, workerVars, reorderVars, collectorVars, resultsVars, ctxVars,
         Clock, Part, Worker, WorkerClock, CollectorClock, Collected, Reported, Offset,
         ChunkSize, Total

RunClocksBounded ==
  /\ \A p \in RunPart : RunClock[p] \in 0 .. Horizon
  /\ ClocksBounded

LEMMA RunClockType ==
  ASSUME IInv, RunIInv
  PROVE  RunClocksBounded
  <1>1. Total \in Nat \ {0} BY TotalType
  <1>2. ClocksBounded BY ClockType DEF ClocksBounded
  <1>3. RelayClock \in 0 .. Total /\ Received \in 0 .. Total
    <2>1. RelayOrder BY DEF RunIInv
    <2>2. /\ taken \in Nat /\ Len(relayed) \in Nat /\ Len(hand) \in {0, 1}
          /\ Received = taken - Len(relayed) - Len(hand) /\ Received \in Nat
      BY <2>1, RelayFrames DEF RelayOrder
    <2>3. taken <= Total
      <3>1. taken + Len(out) = next /\ next <= Total /\ Len(out) \in Nat /\ next \in Nat
        BY DEF IInv, InOrderDelivery, InRange, TypeOK
      <3> QED BY <3>1, <2>2, <1>1
    <2> HIDE DEF Received
    <2>4. taken - Len(hand) \in 0 .. Total BY <2>2, <2>3, <1>1
    <2>5. Received \in 0 .. Total BY <2>2, <2>3, <1>1
    <2> QED BY <2>4, <2>5 DEF RelayClock
  <1>4. WriterClock \in 0 .. 4 BY DEF WriterClock, RunIInv, WriterTypes
  <1>5. /\ RelayClock \in 0 .. Horizon /\ Received \in 0 .. Horizon
        /\ WriterClock \in 0 .. Horizon /\ 0 \in 0 .. Horizon /\ 1 \in 0 .. Horizon
    BY <1>1, <1>3, <1>4 DEF Horizon
  <1>6. ASSUME NEW p \in RunPart PROVE RunClock[p] \in 0 .. Horizon
    <2>1. p \in Part \/ p \in {-6, -7, -8, -9, -10}
      BY PipelineAssumption DEF RunPart, Part
    <2>2. p \in {-6, -7, -8, -9, -10} => p \notin Part
      BY DEF Part
    <2> HIDE DEF RunPart, Part, Horizon, Clock, RelayClock, WriterClock, Received
    <2> QED BY <1>2, <1>5, <2>1, <2>2 DEF RunClock, ClocksBounded
  <1> QED BY <1>2, <1>6 DEF RunClocksBounded

\* Every step of the render moves one clock forward and none back.
LEMMA RunClockStep ==
  ASSUME IInv, Placed, RunIInv, RunOrder, ClocksBounded, ClocksBounded', RunNext
  PROVE  /\ \A p \in RunPart : RunClock[p] <= RunClock'[p]
         /\ \E p \in RunPart : RunClock[p] < RunClock'[p]
  <1>0. /\ \A p \in Part : p \in RunPart /\ p \notin {-6, -7, -8, -9, -10}
        /\ \A p \in RunPart : p \in Part \/ p \in {-6, -7, -8, -9, -10}
        /\ -6 \in RunPart /\ -7 \in RunPart /\ -8 \in RunPart /\ -9 \in RunPart
        /\ -10 \in RunPart
        /\ -6 \notin Part /\ -7 \notin Part /\ -8 \notin Part /\ -9 \notin Part
        /\ -10 \notin Part
    BY PipelineAssumption DEF RunPart, Part
  <1>1. Part' = Part /\ RunPart' = RunPart /\ Horizon' = Horizon
    BY DEF Part, RunPart, Horizon, Total
  <1>2. RunClock' =
          [p \in RunPart |->
             CASE p \in Part -> Clock'[p]
               [] p = -6  -> RelayClock'
               [] p = -7  -> IF relayPC' = "returned" THEN 1 ELSE 0
               [] p = -8  -> Received'
               [] p = -9  -> WriterClock'
               [] p = -10 -> IF ffmpeg' = "dead" THEN 1 ELSE 0]
    BY <1>1 DEF RunClock
  <1>3. /\ RelayClock \in Nat /\ RelayClock' \in Int /\ RelayClock <= RelayClock'
        /\ Received \in Nat /\ Received' \in Int /\ Received <= Received'
        /\ WriterClock \in 0 .. 4 /\ WriterClock' \in 0 .. 4 /\ WriterClock <= WriterClock'
        /\ relayPC = "returned" => relayPC' = "returned"
        /\ ffmpeg = "dead" => ffmpeg' = "dead"
        /\ \/ Next
           \/ /\ UNCHANGED vars
              /\ \/ RelayClock < RelayClock'
                 \/ Received < Received'
                 \/ WriterClock < WriterClock'
                 \/ relayPC # "returned" /\ relayPC' = "returned"
                 \/ ffmpeg # "dead" /\ ffmpeg' = "dead"
    BY RelayWriterClocks
  <1>4. \A p \in Part : Clock[p] \in Int /\ Clock'[p] \in Int
    <2>1. Horizon \in Nat BY TotalType DEF Horizon
    <2> HIDE DEF Horizon, Clock
    <2> QED BY <1>1, <2>1 DEF ClocksBounded
  <1>5. /\ \A p \in Part : Clock[p] <= Clock'[p]
        /\ Next => \E p \in Part : Clock[p] < Clock'[p]
    <2>1. CASE Next BY <2>1, ClockStep
    <2>2. CASE UNCHANGED vars /\ ~ Next
      <3>1. Clock' = Clock BY <2>2, ClockStill
      <3> HIDE DEF Clock
      <3> QED BY <2>2, <3>1, <1>4
    <2> QED BY <1>3, <2>1, <2>2
  <1> HIDE DEF Part, RunPart, Clock, RelayClock, WriterClock, Received
  <1>6. \A p \in Part : RunClock[p] = Clock[p] /\ RunClock'[p] = Clock'[p]
    <2>1. \A p \in Part : RunClock[p] = Clock[p] BY <1>0 DEF RunClock
    <2> HIDE DEF RunClock
    <2>2. \A p \in Part : RunClock'[p] = Clock'[p] BY <1>0, <1>2
    <2> QED BY <2>1, <2>2
  <1>7. /\ RunClock[-6] = RelayClock
        /\ RunClock[-7] = IF relayPC = "returned" THEN 1 ELSE 0
        /\ RunClock[-8] = Received
        /\ RunClock[-9] = WriterClock
        /\ RunClock[-10] = IF ffmpeg = "dead" THEN 1 ELSE 0
    <2>1. RunClock[-6] = RelayClock BY <1>0 DEF RunClock
    <2>2. RunClock[-7] = IF relayPC = "returned" THEN 1 ELSE 0 BY <1>0 DEF RunClock
    <2>3. RunClock[-8] = Received BY <1>0 DEF RunClock
    <2>4. RunClock[-9] = WriterClock BY <1>0 DEF RunClock
    <2>5. RunClock[-10] = IF ffmpeg = "dead" THEN 1 ELSE 0 BY <1>0 DEF RunClock
    <2> QED BY <2>1, <2>2, <2>3, <2>4, <2>5
  <1> HIDE DEF RunClock
  <1>8. /\ RunClock'[-6] = RelayClock'
        /\ RunClock'[-7] = IF relayPC' = "returned" THEN 1 ELSE 0
        /\ RunClock'[-8] = Received'
        /\ RunClock'[-9] = WriterClock'
        /\ RunClock'[-10] = IF ffmpeg' = "dead" THEN 1 ELSE 0
    <2>1. RunClock'[-6] = RelayClock' BY <1>0, <1>2
    <2>2. RunClock'[-7] = IF relayPC' = "returned" THEN 1 ELSE 0 BY <1>0, <1>2
    <2>3. RunClock'[-8] = Received' BY <1>0, <1>2
    <2>4. RunClock'[-9] = WriterClock' BY <1>0, <1>2
    <2>5. RunClock'[-10] = IF ffmpeg' = "dead" THEN 1 ELSE 0 BY <1>0, <1>2
    <2> QED BY <2>1, <2>2, <2>3, <2>4, <2>5
  <1>9. \A p \in {-6, -7, -8, -9, -10} : RunClock[p] <= RunClock'[p]
    BY <1>3, <1>7, <1>8
  <1>10. \A p \in RunPart : RunClock[p] <= RunClock'[p] BY <1>0, <1>5, <1>6, <1>9
  <1>11. \E p \in RunPart : RunClock[p] < RunClock'[p]
    <2>1. CASE Next BY <1>0, <1>5, <1>6, <2>1
    <2>2. CASE ~ Next BY <1>0, <1>3, <1>7, <1>8, <2>2
    <2> QED BY <2>1, <2>2
  <1> QED BY <1>10, <1>11

\* A whole render takes finitely many steps, whatever fails and whenever it is
\* cancelled: none of its goroutines loops, and one that does not come to its end is
\* blocked, as in the runs cancelled_render and render_leak.
THEOREM RenderIsFinite ==
  RunSpec => [](RunStepsLeft \in Nat) /\ [][RunStepsLeft' < RunStepsLeft]_runVars
  <1>1. Horizon \in Nat /\ Horizon' = Horizon /\ RunPart' = RunPart /\ IsFiniteSet(RunPart)
    <2>1. -10 \in Int /\ NumWorkers - 1 \in Int BY PipelineAssumption
    <2>2. IsFiniteSet(RunPart) BY <2>1, FS_Interval DEF RunPart
    <2> QED BY <2>2, TotalType DEF Horizon, RunPart, Total
  <1>2. IInv /\ RunIInv => RunClocksBounded BY RunClockType
  <1>3. RunClocksBounded => RunStepsLeft \in Nat
    <2>1. IsFiniteSet(0 .. Horizon)
      <3>1. 0 \in Int /\ Horizon \in Int BY <1>1
      <3> QED BY <3>1, FS_Interval
    <2>2. IsFiniteSet(RunPart \X (0 .. Horizon)) BY <1>1, <2>1, FS_Product
    <2>3. Ahead(RunPart, Horizon, RunClock) \subseteq RunPart \X (0 .. Horizon) BY DEF Ahead
    <2>4. IsFiniteSet(Ahead(RunPart, Horizon, RunClock)) BY <2>2, <2>3, FS_Subset
    <2> QED BY <2>4, FS_CardinalityType DEF RunStepsLeft
  <1>4. ASSUME IInv, Placed, RunIInv, RunOrder, RunClocksBounded, RunClocksBounded', RunNext
        PROVE  RunStepsLeft' < RunStepsLeft
    <2>1. /\ \A p \in RunPart : RunClock[p] <= RunClock'[p]
          /\ \E p \in RunPart : RunClock[p] < RunClock'[p]
      BY <1>4, RunClockStep DEF RunClocksBounded
    <2>2. \A p \in RunPart : RunClock[p] \in 0 .. Horizon /\ RunClock'[p] \in 0 .. Horizon
      BY <1>1, <1>4 DEF RunClocksBounded
    <2>3. RunStepsLeft' = Cardinality(Ahead(RunPart, Horizon, RunClock'))
      BY <1>1 DEF RunStepsLeft, Ahead
    <2> HIDE DEF RunPart, Horizon, RunClock
    <2> QED BY <1>1, <2>1, <2>2, <2>3, LessAhead DEF RunStepsLeft
  <1>5. IInv /\ Placed /\ RunIInv /\ RunOrder /\ RunClocksBounded /\ RunClocksBounded'
          /\ [RunNext]_runVars => [RunStepsLeft' < RunStepsLeft]_runVars
    BY <1>4
  <1> QED BY <1>2, <1>3, <1>5, AlwaysRunOrder, PTL DEF RunSpec

\* No render that is not cancelled waits for ever, with any relay, any failure of a
\* frame or of ffmpeg, and any size of the pool: until it has returned, one of its
\* goroutines can take a step.  With RenderIsFinite, this is why Render returns.
THEOREM RenderNeverDeadlocks == RunSpec => []RenderNeverStuck
  <1>1. ASSUME IInv, RunIInv, RunOrder, NeverStuck PROVE RenderNeverStuck
    <2> SUFFICES ASSUME outcome = "running", ~ ctxDone,
                        ~ (\E w \in Worker : CanWork(w)), ~ CanClose, ~ CanCollect
                 PROVE  CanRelay \/ CanWrite
      BY DEF RenderNeverStuck
    <2>1. RelayOrder /\ WriterTypes /\ VideoOrder BY <1>1 DEF RunIInv
    <2>2. cpc = "ended" \/ out # << >> BY <1>1 DEF NeverStuck, CanRead
    <2>3. cpc = "ended" => closed
      BY <1>1 DEF IInv, StreamEnds, PushProtocol
    <2>4. writerPC \in {"start", "stream", "wait", "errc"}
      BY <1>1, <2>1 DEF WriterTypes, RunOrder
    <2>5. CASE writerPC \in {"start", "wait"}
      BY <1>1, <2>1, <2>5 DEF WriterTypes, RunOrder, CanWrite
    <2>6. CASE writerPC = "errc"
      <3>1. out = << >>
        BY <2>1, <2>6 DEF VideoOrder, AtEnd, EndedEarly
      <3> QED BY <1>1, <2>2, <2>6, <3>1 DEF RunOrder, CanWrite
    <2>7. CASE writerPC = "stream"
      <3>1. CASE relay = "none" BY <2>2, <2>3, <2>7, <3>1 DEF CanWrite
      <3>2. CASE relay # "none" /\ relayed # << >> BY <2>7, <3>2 DEF CanWrite
      <3>3. CASE relay # "none" /\ relayed = << >>
        <4>1. relayPC \in {"range", "hold", "returned"} BY <2>1 DEF RelayOrder
        <4>2. CASE relayPC = "returned" BY <2>7, <3>3, <4>2 DEF CanWrite
        <4>3. CASE relayPC = "hold"
          <5>1. Len(relayed) = 0 /\ Cap \in Nat \ {0} BY <3>3, CapType
          <5> QED BY <4>3, <5>1 DEF CanRelay
        <4>4. CASE relayPC = "range" BY <2>2, <2>3, <4>4 DEF CanRelay
        <4> QED BY <4>1, <4>2, <4>3, <4>4
      <3> QED BY <3>1, <3>2, <3>3
    <2> QED BY <2>4, <2>5, <2>6, <2>7
  <1>2. RunSpec => []NeverStuck BY RunIsPipeline, NeverDeadlocks, PTL
  <1> QED BY <1>1, <1>2, AlwaysRunOrder, PTL

=============================================================================

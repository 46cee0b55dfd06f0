--------------------------- MODULE RenderPipeline ---------------------------
(***************************************************************************)
(* RenderPipeline.Run of internal/pipeline/renderer.go: the goroutines it  *)
(* starts for one render and the ReorderBuffer between them and the reader *)
(* of the frames.                                                          *)
(*                                                                         *)
(*   worker w   renders its own contiguous chunk of the sequence numbers   *)
(*              0 .. Total-1 and sends one result per frame on "results";  *)
(*   closer     closes "results" when every worker has returned;           *)
(*   collector  feeds the results to the reorder buffer, which releases    *)
(*              them on "out" in sequence order, and at the end reports    *)
(*              the first error on "errc".                                 *)
(*                                                                         *)
(* A frame is its sequence number; pixels, paths and logging are left out. *)
(* The reader of "out" is the action Consume: module RenderRun replaces it *)
(* by the goroutines that read the channel in the program.                 *)
(***************************************************************************)
EXTENDS Integers, Sequences, FiniteSets

CONSTANTS
  NumWorkers,      \* the workers argument of Run
  DurationFrames,  \* comp.DurationFrames
  FrameStep,       \* rp.frameStep: every FrameStep-th frame is rendered
  PoolSize,        \* browsers asked of the pool
  KeepFrames,      \* rp.keepFrames: each frame is also written to disk
  Faulty,          \* sequence numbers whose rendering may fail
  MayCancel        \* whether the caller's context may be cancelled

ASSUME PipelineAssumption ==
  /\ NumWorkers \in Nat \ {0}
  /\ DurationFrames \in Nat \ {0}  \* the callers reject 0 and less
  /\ FrameStep \in Nat \ {0}
  /\ PoolSize \in Nat \ {0}
  /\ KeepFrames \in BOOLEAN
  /\ Faulty \subseteq Nat
  /\ MayCancel \in BOOLEAN

-----------------------------------------------------------------------------
(* The frames of a render and their division among the workers.            *)

Worker == 0 .. NumWorkers - 1

\* A mutation of Total: the last frame is forgotten when the stride misses it.
TotalStridedOnly == (DurationFrames + FrameStep - 1) \div FrameStep

\* countFramesToRender: every FrameStep-th frame, and the last one if the
\* stride misses it.
Total ==
  LET strided == (DurationFrames + FrameStep - 1) \div FrameStep
      missed  == (DurationFrames - 1) % FrameStep # 0
  IN  IF missed THEN strided + 1 ELSE strided

\* The frame that has sequence number s.
FrameOf(s) ==
  IF s * FrameStep < DurationFrames THEN s * FrameStep ELSE DurationFrames - 1

\* A mutation of ChunkSize: the remainder of the division is rendered by nobody.
ChunkSizeTruncated(w) == Total \div NumWorkers

\* buildWorkerChunks: contiguous chunks, the first Total % NumWorkers of them
\* one frame longer.
ChunkSize(w) ==
  Total \div NumWorkers + (IF w < Total % NumWorkers THEN 1 ELSE 0)

Offset(w) ==
  w * (Total \div NumWorkers)
    + (IF w < Total % NumWorkers THEN w ELSE Total % NumWorkers)

\* The sequence numbers that worker w renders.
Chunk(w) == Offset(w) .. Offset(w) + ChunkSize(w) - 1

\* Capacity of the channels "results" and "out".
Cap == 2 * NumWorkers

\* warmBrowserPoolWithFallback: the sizes that the daemon's pool may end up with.
WarmedSizes == {PoolSize, IF PoolSize < 2 THEN 1 ELSE PoolSize \div 2, 1}

-----------------------------------------------------------------------------
VARIABLES
  wpc,           \* [Worker -> where the worker's goroutine is]
  done,          \* [Worker -> results of its chunk that it has sent]
  failed,        \* [Worker -> whether the frame in hand ended in an error]
  held,          \* workers that hold a browser (Renderer.sessions)
  results,       \* the channel "results": records [seq, err]
  resultsClosed,
  cpc,           \* where the collector goroutine is
  firstErr,      \* whether the collector has seen an error
  buf,           \* rb.buf: sequence numbers waiting for their turn
  next,          \* rb.next
  out,           \* the channel rb.out
  closed,        \* rb.closed: "out" is closed
  taken,         \* items read from "out" so far
  errc,          \* the channel "errc": "empty" or "error"
  errcClosed,
  browsers,      \* the size of the pool
  ctxDone,       \* the caller's context is cancelled
  renderDone     \* renderCtx is cancelled

workerVars == <<wpc, done, failed, held>>
reorderVars == <<buf, next, out, closed, taken>>
collectorVars == <<cpc, firstErr, errc, errcClosed>>
resultsVars == <<results, resultsClosed>>
ctxVars == <<browsers, ctxDone, renderDone>>
vars == <<workerVars, reorderVars, collectorVars, resultsVars, ctxVars>>

\* The frame that worker w has in hand.
Current(w) == Offset(w) + done[w]

Init ==
  \* a worker whose chunk is empty is not started
  /\ wpc = [w \in Worker |-> IF ChunkSize(w) = 0 THEN "returned" ELSE "check"]
  /\ done = [w \in Worker |-> 0]
  /\ failed = [w \in Worker |-> FALSE]
  /\ held = {}
  /\ results = << >>
  /\ resultsClosed = FALSE
  /\ cpc = "receive"
  /\ firstErr = FALSE
  /\ buf = {}
  /\ next = 0
  /\ out = << >>
  /\ closed = FALSE
  /\ taken = 0
  /\ errc = "empty"
  /\ errcClosed = FALSE
  /\ browsers \in WarmedSizes
  /\ ctxDone = FALSE
  /\ renderDone = FALSE

-----------------------------------------------------------------------------
(* A worker's goroutine.                                                   *)

\* The loop is over: every frame of the chunk is done, or the context is.
\* Nothing is sent on "results" in either case.
WorkerReturn(w) ==
  /\ wpc[w] = "check"
  /\ done[w] = ChunkSize(w) \/ renderDone
  /\ wpc' = [wpc EXCEPT ![w] = "returned"]
  /\ UNCHANGED <<done, failed, held, reorderVars, collectorVars, resultsVars, ctxVars>>

\* RenderFrame begins: the worker's session, if it has one, is used again.
BeginFrame(w) ==
  /\ wpc[w] = "check"
  /\ done[w] < ChunkSize(w)
  /\ ~ renderDone
  /\ wpc' = [wpc EXCEPT ![w] = IF w \in held THEN "capture" ELSE "acquire"]
  /\ UNCHANGED <<done, failed, held, reorderVars, collectorVars, resultsVars, ctxVars>>

\* ensureSession checks a browser out of the pool and sets its viewport.
AcquireBrowser(w) ==
  /\ wpc[w] = "acquire"
  /\ Cardinality(held) < browsers
  /\ held' = held \cup {w}
  /\ wpc' = [wpc EXCEPT ![w] = "capture"]
  /\ UNCHANGED <<done, failed, reorderVars, collectorVars, resultsVars, ctxVars>>

\* A mutation of AcquireFails: the worker returns without a word.
AcquireFailsQuietly(w) ==
  /\ wpc[w] = "acquire"
  /\ Cardinality(held) >= browsers \/ renderDone \/ Current(w) \in Faulty
  /\ wpc' = [wpc EXCEPT ![w] = "returned"]
  /\ UNCHANGED <<done, failed, held, reorderVars, collectorVars, resultsVars, ctxVars>>

\* ensureSession fails: Acquire's timeout elapses with every browser taken or
\* its context is cancelled, or the viewport cannot be set (and the browser
\* goes back).
AcquireFails(w) ==
  /\ wpc[w] = "acquire"
  /\ \/ Cardinality(held) >= browsers
     \/ renderDone
     \/ Current(w) \in Faulty
  /\ failed' = [failed EXCEPT ![w] = TRUE]
  /\ wpc' = [wpc EXCEPT ![w] = "send"]
  /\ UNCHANGED <<done, held, reorderVars, collectorVars, resultsVars, ctxVars>>

\* Seek, ready signal and screenshot succeed.
CaptureFrame(w) ==
  /\ wpc[w] = "capture"
  /\ wpc' = [wpc EXCEPT ![w] = IF KeepFrames THEN "write" ELSE "send"]
  /\ UNCHANGED <<done, failed, held, reorderVars, collectorVars, resultsVars, ctxVars>>

\* One of them fails, by itself or because the browser's context is done (it
\* descends from the caller's, and from renderCtx when Acquire launched it in
\* this render): the session is dropped and its browser goes back to the pool.
CaptureFails(w) ==
  /\ wpc[w] = "capture"
  /\ renderDone \/ Current(w) \in Faulty
  /\ held' = held \ {w}
  /\ failed' = [failed EXCEPT ![w] = TRUE]
  /\ wpc' = [wpc EXCEPT ![w] = "send"]
  /\ UNCHANGED <<done, reorderVars, collectorVars, resultsVars, ctxVars>>

\* keepFrames: the frame's file is written, or that fails and the session stays.
WriteFile(w) ==
  /\ wpc[w] = "write"
  /\ \/ UNCHANGED failed
     \/ /\ Current(w) \in Faulty
        /\ failed' = [failed EXCEPT ![w] = TRUE]
  /\ wpc' = [wpc EXCEPT ![w] = "send"]
  /\ UNCHANGED <<done, held, reorderVars, collectorVars, resultsVars, ctxVars>>

\* The result goes on "results"; after an error the worker returns.
SendResult(w) ==
  /\ wpc[w] = "send"
  /\ Len(results) < Cap
  /\ results' = Append(results, [seq |-> Current(w), err |-> failed[w]])
  /\ done' = [done EXCEPT ![w] = @ + 1]
  /\ wpc' = [wpc EXCEPT ![w] = IF failed[w] THEN "returned" ELSE "check"]
  /\ UNCHANGED <<failed, held, reorderVars, collectorVars, resultsClosed, ctxVars>>

WorkerStep(w) ==
  \/ WorkerReturn(w)
  \/ BeginFrame(w)
  \/ AcquireBrowser(w)
  \/ AcquireFails(w)
  \/ CaptureFrame(w)
  \/ CaptureFails(w)
  \/ WriteFile(w)
  \/ SendResult(w)

\* A mutation of CloseResults: the closer counts finished chunks, which a worker
\* that stopped on an error or on the context never reports.
CloseResultsWhenAllSent ==
  /\ ~ resultsClosed
  /\ \A w \in Worker : done[w] = ChunkSize(w)
  /\ resultsClosed' = TRUE
  /\ UNCHANGED <<results, workerVars, reorderVars, collectorVars, ctxVars>>

\* wg.Wait(); close(results)
CloseResults ==
  /\ ~ resultsClosed
  /\ \A w \in Worker : wpc[w] = "returned"
  /\ resultsClosed' = TRUE
  /\ UNCHANGED <<results, workerVars, reorderVars, collectorVars, ctxVars>>

-----------------------------------------------------------------------------
(* The collector's goroutine: the loop over "results", ReorderBuffer.Push   *)
(* (which may block on "out") and the deferred calls at the end.            *)

\* A mutation of ReceiveFrame: Push does not look at rb.closed.
ReceiveFrameUnchecked ==
  /\ cpc = "receive"
  /\ results # << >>
  /\ ~ Head(results).err
  /\ results' = Tail(results)
  /\ buf' = buf \cup {Head(results).seq}
  /\ cpc' = "push"
  /\ UNCHANGED <<next, out, closed, taken, firstErr, errc, errcClosed,
                 resultsClosed, workerVars, ctxVars>>

\* A frame is pushed: ignored if the buffer is closed, else stored.
ReceiveFrame ==
  /\ cpc = "receive"
  /\ results # << >>
  /\ ~ Head(results).err
  /\ results' = Tail(results)
  /\ IF closed
       THEN UNCHANGED <<buf, cpc>>
       ELSE /\ buf' = buf \cup {Head(results).seq}
            /\ cpc' = "push"
  /\ UNCHANGED <<next, out, closed, taken, firstErr, errc, errcClosed,
                 resultsClosed, workerVars, ctxVars>>

\* Mutations of ReceiveError: the collector leaves its loop at the first error
\* with workers still running, or it does not force the reorder buffer closed.
ReceiveErrorAndBreak ==
  /\ cpc = "receive"
  /\ results # << >>
  /\ Head(results).err
  /\ results' = Tail(results)
  /\ firstErr' = TRUE
  /\ renderDone' = TRUE
  /\ closed' = TRUE
  /\ errc' = "error"
  /\ cpc' = "release"
  /\ UNCHANGED <<buf, next, out, taken, errcClosed, resultsClosed, workerVars, browsers, ctxDone>>

ReceiveErrorLeftOpen ==
  /\ cpc = "receive"
  /\ results # << >>
  /\ Head(results).err
  /\ results' = Tail(results)
  /\ firstErr' = TRUE
  /\ renderDone' = TRUE
  /\ UNCHANGED <<buf, next, out, closed, taken, cpc, errc, errcClosed, resultsClosed,
                 workerVars, browsers, ctxDone>>

\* The first error stops the render: renderCtx is cancelled, ForceClose.
ReceiveError ==
  /\ cpc = "receive"
  /\ results # << >>
  /\ Head(results).err
  /\ results' = Tail(results)
  /\ firstErr' = TRUE
  /\ IF firstErr
       THEN UNCHANGED <<closed, renderDone>>
       ELSE /\ renderDone' = TRUE
            /\ closed' = TRUE
  /\ UNCHANGED <<buf, next, out, taken, cpc, errc, errcClosed, resultsClosed,
                 workerVars, browsers, ctxDone>>

\* Mutations of Emit: any buffered frame goes out, the smallest one goes out
\* although earlier ones are missing, a frame stays in rb.buf.
EmitAny ==
  /\ cpc = "push"
  /\ next \in buf
  /\ Len(out) < Cap
  /\ \E s \in buf : out' = Append(out, s) /\ buf' = buf \ {s}
  /\ next' = next + 1
  /\ UNCHANGED <<closed, taken, collectorVars, resultsVars, workerVars, ctxVars>>

EmitSkipping ==
  /\ cpc = "push"
  /\ Len(out) < Cap
  /\ \E s \in buf :
       /\ \A t \in buf : s <= t
       /\ out' = Append(out, s)
       /\ buf' = buf \ {s}
       /\ next' = s + 1
  /\ UNCHANGED <<closed, taken, collectorVars, resultsVars, workerVars, ctxVars>>

EmitKeeping ==
  /\ cpc = "push"
  /\ next \in buf
  /\ Len(out) < Cap
  /\ out' = Append(out, next)
  /\ next' = next + 1
  /\ UNCHANGED <<buf, closed, taken, collectorVars, resultsVars, workerVars, ctxVars>>

\* Push's loop: the next frame in order is here and goes out.
Emit ==
  /\ cpc = "push"
  /\ next \in buf
  /\ Len(out) < Cap
  /\ out' = Append(out, next)
  /\ buf' = buf \ {next}
  /\ next' = next + 1
  /\ UNCHANGED <<closed, taken, collectorVars, resultsVars, workerVars, ctxVars>>

\* Push ends; after the last frame it closes "out".
EndPush ==
  /\ cpc = "push"
  /\ next \notin buf
  /\ closed' = (closed \/ next = Total)
  /\ cpc' = "receive"
  /\ UNCHANGED <<buf, next, out, taken, firstErr, errc, errcClosed, resultsVars,
                 workerVars, ctxVars>>

\* A mutation of EndCollect: the error is not reported.
EndCollectSilently ==
  /\ cpc = "receive"
  /\ results = << >>
  /\ resultsClosed
  /\ cpc' = "release"
  /\ UNCHANGED <<firstErr, errc, errcClosed, reorderVars, resultsVars, workerVars, ctxVars>>

\* "results" is drained and closed: the first error, if any, goes on "errc".
EndCollect ==
  /\ cpc = "receive"
  /\ results = << >>
  /\ resultsClosed
  /\ errc' = IF firstErr THEN "error" ELSE "empty"
  /\ cpc' = "release"
  /\ UNCHANGED <<firstErr, errcClosed, reorderVars, resultsVars, workerVars, ctxVars>>

\* defer rp.renderer.Close(): every session's browser goes back to the pool.
CloseRenderer ==
  /\ cpc = "release"
  /\ held' = {}
  /\ cpc' = "finish"
  /\ UNCHANGED <<wpc, done, failed, firstErr, errc, errcClosed, reorderVars,
                 resultsVars, ctxVars>>

\* defer cancel(); defer close(errc)
Finish ==
  /\ cpc = "finish"
  /\ renderDone' = TRUE
  /\ errcClosed' = TRUE
  /\ cpc' = "ended"
  /\ UNCHANGED <<firstErr, errc, browsers, ctxDone, reorderVars, resultsVars, workerVars>>

CollectorStep ==
  \/ ReceiveFrame
  \/ ReceiveError
  \/ Emit
  \/ EndPush
  \/ EndCollect
  \/ CloseRenderer
  \/ Finish

-----------------------------------------------------------------------------
(* The surroundings.                                                       *)

\* The caller's context, the parent of renderCtx, is cancelled.
CancelContext ==
  /\ MayCancel
  /\ ~ ctxDone
  /\ ctxDone' = TRUE
  /\ renderDone' = TRUE
  /\ UNCHANGED <<browsers, workerVars, reorderVars, collectorVars, resultsVars>>

\* A receive on "out".
Consume ==
  /\ out # << >>
  /\ out' = Tail(out)
  /\ taken' = taken + 1
  /\ UNCHANGED <<buf, next, closed, workerVars, collectorVars, resultsVars, ctxVars>>

PipelineStep ==
  \/ \E w \in Worker : WorkerStep(w)
  \/ CloseResults
  \/ CollectorStep
  \/ CancelContext

Next == PipelineStep \/ Consume

Spec == Init /\ [][Next]_vars

\* Goroutines are scheduled fairly, rendering a frame ends and the reader keeps
\* reading.  The waits for a browser and for readiness have timeouts; Navigate and
\* Evaluate have none: it is assumed that they end.  Nothing makes the caller cancel.
PipelineFairness ==
  /\ \A w \in Worker : WF_vars(WorkerStep(w))
  /\ WF_vars(CloseResults)
  /\ WF_vars(CollectorStep)

FairSpec == Spec /\ PipelineFairness /\ WF_vars(Consume)

-----------------------------------------------------------------------------
(* Properties.                                                             *)

WorkerPC == {"check", "acquire", "capture", "write", "send", "returned"}
CollectorPC == {"receive", "push", "release", "finish", "ended"}
Result == [seq : Nat, err : BOOLEAN]

\* Every variable keeps the type that the declarations in Run give it, and no
\* channel holds more than its capacity.
TypeOK ==
  /\ wpc \in [Worker -> WorkerPC]
  /\ done \in [Worker -> Nat]
  /\ failed \in [Worker -> BOOLEAN]
  /\ held \subseteq Worker
  /\ results \in Seq(Result)
  /\ Len(results) <= Cap
  /\ resultsClosed \in BOOLEAN
  /\ cpc \in CollectorPC
  /\ firstErr \in BOOLEAN
  /\ buf \subseteq Nat
  /\ next \in Nat
  /\ out \in Seq(Nat)
  /\ Len(out) <= Cap
  /\ closed \in BOOLEAN
  /\ taken \in Nat
  /\ errc \in {"empty", "error"}
  /\ errcClosed \in BOOLEAN
  /\ browsers \in WarmedSizes
  /\ ctxDone \in BOOLEAN
  /\ renderDone \in BOOLEAN

\* The reader of "out" gets the frames in sequence order, each exactly once,
\* whatever order the workers finish them in: what it has read and what still
\* waits in the channel are the numbers below rb.next, in order.
InOrderDelivery ==
  /\ taken + Len(out) = next
  /\ \A i \in 1 .. Len(out) : out[i] = taken + i - 1

\* "out" is closed only after the last frame or after an error: a reader that
\* sees the end of the stream of a render that reports no error has every frame.
ClosedIsCompleteOrFailed == closed => next = Total \/ firstErr

\* A frame that a worker has reported is never lost on the way: until "out" is
\* closed it is in "results", in the reorder buffer or already released, and in
\* one of them only.
FrameConservation ==
  LET reported(w) == Offset(w) .. Offset(w) + done[w] - 1
      inResults   == {results[i].seq : i \in 1 .. Len(results)}
  IN  /\ ~ closed =>
           \A w \in Worker : \A s \in reported(w) :
             s < next \/ s \in buf \/ s \in inResults
      /\ \A s \in buf : s > next \/ (s = next /\ cpc = "push")
      /\ \A i, j \in 1 .. Len(results) :
           i # j => results[i].seq # results[j].seq
      /\ \A s \in inResults : s >= next /\ s \notin buf

\* When the collector is done with a render that met no error and was not
\* cancelled, it has closed "out": the reader is not left waiting for frames
\* that nobody will send.
StreamEnds ==
  cpc \in {"release", "finish", "ended"} /\ ~ firstErr /\ ~ ctxDone => closed

\* A worker keeps its browser until Run ends: a pool that the fallback has made
\* smaller than the number of started workers fails the render, which no
\* waiting for the others could save.
ShortPoolFails ==
  cpc \in {"release", "finish", "ended"} /\ ~ firstErr /\ ~ ctxDone =>
    Cardinality({w \in Worker : ChunkSize(w) > 0}) <= browsers

\* Once Run has reported its end on "errc", the render holds no browser: no
\* worker is left that could check one out after Renderer.Close.
BrowsersReturned ==
  /\ errcClosed => held = {}
  /\ cpc \in {"release", "finish", "ended"} => \A w \in Worker : wpc[w] = "returned"

\* Neither channel is sent on after it is closed (Go panics if that happens).
NoSendOnClosedChannel ==
  [][ /\ closed => Len(out') <= Len(out)
      /\ resultsClosed => Len(results') <= Len(results) ]_<<out, results>>

\* The channel returned by Run carries an ordered stream, see OrderedStream.
Stream == INSTANCE OrderedStream WITH
  Total    <- Total,
  Capacity <- Cap,
  sent     <- next,
  read     <- taken,
  status   <- IF ~ closed THEN "open"
              ELSE IF next = Total THEN "complete" ELSE "aborted"

StreamSpec == Stream!Spec

\* With a reader that keeps reading, Run comes to its end: the collector closes
\* "errc", whether frames fail or the caller cancels.
RunEnds == <>(cpc = "ended")
=============================================================================

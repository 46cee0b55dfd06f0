------------------------------ MODULE RenderRun ------------------------------
(***************************************************************************)
(* One whole render, as Render (render.go) and Queue.renderJob             *)
(* (internal/jobs/queue.go) run it: the pipeline of RenderPipeline, an     *)
(* optional relay goroutine that counts the frames, and Writer.Write       *)
(* (internal/ffmpeg/writer.go), which pipes the frames into ffmpeg.        *)
(*                                                                         *)
(*   pipeline --out--> relay --relayed--> writer --stdin--> ffmpeg         *)
(*                                                                         *)
(* The relay is trackProgress for the daemon's jobs, withProgress for the  *)
(* render command, and absent for the bench and parity commands, whose     *)
(* writer reads "out" itself.                                              *)
(***************************************************************************)
EXTENDS RenderPipeline

CONSTANTS
  Relays,         \* the relays to consider: "none", "track", "progress"
  FfmpegMayFail   \* whether ffmpeg may fail to start, crash, or the steps
                  \* after the encoding fail

ASSUME RunAssumption == /\ Relays \subseteq {"none", "track", "progress"}
                        /\ FfmpegMayFail \in BOOLEAN

VARIABLES
  relay,       \* which relay this render has
  relayPC,     \* "range", "hold" (a frame in hand) or "returned"
  hand,        \* the frame that the relay holds, in a sequence of length <= 1
  relayed,     \* the relay's output channel
  writerPC,    \* where Write and its caller are
  ffmpeg,      \* "off", "up" or "dead"
  video,       \* for each video frame written, the rendered frame it shows
  writeErr,    \* encodeVideo's writeErr is set
  published,   \* the video is at comp.Output.Path
  outcome      \* "running", and then what Render or renderJob returned

relayVars == <<relay, relayPC, hand, relayed>>
writerVars == <<writerPC, ffmpeg, video, writeErr, published, outcome>>
runVars == <<vars, relayVars, writerVars>>

RunInit ==
  /\ Init
  /\ relay \in Relays
  /\ relayPC = IF relay = "none" THEN "returned" ELSE "range"
  /\ hand = << >>
  /\ relayed = << >>
  /\ writerPC = "start"
  /\ ffmpeg = "off"
  /\ video = << >>
  /\ writeErr = FALSE
  /\ published = FALSE
  /\ outcome = "running"

-----------------------------------------------------------------------------
(* The relay's goroutine.                                                  *)

\* A frame arrives: progress is counted, the frame is in hand.
RelayTake ==
  /\ relayPC = "range"
  /\ Consume
  /\ hand' = <<Head(out)>>
  /\ relayPC' = "hold"
  /\ UNCHANGED <<relay, relayed, writerVars>>

\* out <- frame
RelaySend ==
  /\ relayPC = "hold"
  /\ Len(relayed) < Cap
  /\ relayed' = relayed \o hand
  /\ hand' = << >>
  /\ relayPC' = "range"
  /\ UNCHANGED <<relay, vars, writerVars>>

\* The end of "out": the relay closes its own channel.
RelayEnds ==
  /\ relayPC = "range"
  /\ out = << >> /\ closed
  /\ relayPC' = "returned"
  /\ UNCHANGED <<relay, hand, relayed, vars, writerVars>>

\* withProgress also selects on the caller's context, and stops reading "out".
RelayCancelled ==
  /\ relay = "progress"
  /\ relayPC = "range"
  /\ ctxDone
  /\ relayPC' = "returned"
  /\ UNCHANGED <<relay, hand, relayed, vars, writerVars>>

RelayStep == RelayTake \/ RelaySend \/ RelayEnds \/ RelayCancelled

-----------------------------------------------------------------------------
(* Writer.Write and its caller.                                            *)

\* n copies of the last frame written.
Repeat(n) == [i \in 1 .. n |-> video[Len(video)]]

\* encodeVideo starts ffmpeg.
StartFfmpeg ==
  /\ writerPC = "start"
  /\ ffmpeg' = "up"
  /\ writerPC' = "stream"
  /\ UNCHANGED <<video, writeErr, published, outcome, relayVars, vars>>

\* ffmpeg does not start: Write returns and nobody reads the frames.
StartFails ==
  /\ writerPC = "start"
  /\ FfmpegMayFail \/ ctxDone
  /\ outcome' = "error"
  /\ writerPC' = "returned"
  /\ UNCHANGED <<ffmpeg, video, writeErr, published, relayVars, vars>>

\* ffmpeg crashes, or is killed because the caller's context is done.
FfmpegDies ==
  /\ ffmpeg = "up"
  /\ FfmpegMayFail \/ ctxDone
  /\ ffmpeg' = "dead"
  /\ UNCHANGED <<writerPC, video, writeErr, published, outcome, relayVars, vars>>

\* A mutation of Encode: skipped positions are not filled.
EncodeUnfilled(s) ==
  IF writeErr \/ ffmpeg = "dead"
    THEN writeErr' = TRUE /\ UNCHANGED video
    ELSE video' = Append(video, FrameOf(s)) /\ UNCHANGED writeErr

\* One turn of encodeVideo's loop with frame sequence number s: the gap since
\* the last video frame is filled with it, then the frame is written.  After
\* a failed write the loop only drains.
Encode(s) ==
  LET frame == FrameOf(s)
      gap   == frame - Len(video)
  IN  IF writeErr
        THEN UNCHANGED <<video, writeErr>>
        ELSE IF ffmpeg = "dead" \/ (gap > 0 /\ video = << >>)
          THEN /\ writeErr' = TRUE
               /\ UNCHANGED video
          ELSE /\ video' = Append(video \o Repeat(gap), frame)
               /\ UNCHANGED writeErr

\* The writer receives a frame, from the relay or from the pipeline.
WriterTake ==
  /\ writerPC = "stream"
  /\ \/ /\ relay = "none"
        /\ out # << >>
        /\ Encode(Head(out))
        /\ Consume
        /\ UNCHANGED relayed
     \/ /\ relayed # << >>
        /\ Encode(Head(relayed))
        /\ relayed' = Tail(relayed)
        /\ UNCHANGED vars
  /\ UNCHANGED <<relay, relayPC, hand, writerPC, ffmpeg, published, outcome>>

\* The end of the stream: the last frame fills the video up to its duration,
\* and ffmpeg's stdin is closed.
EndStream ==
  /\ writerPC = "stream"
  /\ IF relay = "none" THEN out = << >> /\ closed
                       ELSE relayed = << >> /\ relayPC = "returned"
  /\ IF writeErr \/ video = << >> \/ Len(video) >= DurationFrames
       THEN UNCHANGED <<video, writeErr>>
       ELSE IF ffmpeg = "dead"
         THEN /\ writeErr' = TRUE
              /\ UNCHANGED video
         ELSE /\ video' = video \o Repeat(DurationFrames - Len(video))
              /\ UNCHANGED writeErr
  /\ writerPC' = "wait"
  /\ UNCHANGED <<ffmpeg, published, outcome, relayVars, vars>>

\* cmd.Wait and the checks after it: encodeVideo or a later step of Write fails.
WriteFails ==
  /\ writerPC = "wait"
  /\ ffmpeg = "dead" \/ writeErr \/ video = << >> \/ FfmpegMayFail \/ ctxDone
  /\ outcome' = "error"
  /\ writerPC' = "returned"
  /\ UNCHANGED <<ffmpeg, video, writeErr, published, relayVars, vars>>

\* ffmpeg exits well, and the video is moved (or muxed) to the output path.
Publish ==
  /\ writerPC = "wait"
  /\ ffmpeg = "up" /\ ~ writeErr /\ video # << >>
  /\ published' = TRUE
  /\ ffmpeg' = "off"
  /\ writerPC' = "errc"
  /\ UNCHANGED <<video, writeErr, outcome, relayVars, vars>>

\* err := <-errc
ReadErrc ==
  /\ writerPC = "errc"
  /\ errc = "error" \/ errcClosed
  /\ outcome' = IF errc = "error" THEN "error" ELSE "ok"
  /\ writerPC' = "returned"
  /\ UNCHANGED <<ffmpeg, video, writeErr, published, relayVars, vars>>

WriterStep ==
  StartFfmpeg \/ StartFails \/ WriterTake \/ EndStream \/ WriteFails \/ Publish \/ ReadErrc

-----------------------------------------------------------------------------
RunNext ==
  \/ PipelineStep /\ UNCHANGED <<relayVars, writerVars>>
  \/ RelayStep
  \/ WriterStep
  \/ FfmpegDies

RunSpec == RunInit /\ [][RunNext]_runVars

\* The pipeline's fairness and that of the two goroutines added here.  ffmpeg
\* need not crash, but a cancelled context does kill it.
RunFairness ==
  /\ \A w \in Worker : WF_runVars(WorkerStep(w) /\ UNCHANGED <<relayVars, writerVars>>)
  /\ WF_runVars(CloseResults /\ UNCHANGED <<relayVars, writerVars>>)
  /\ WF_runVars(CollectorStep /\ UNCHANGED <<relayVars, writerVars>>)
  /\ WF_runVars(RelayStep)
  /\ WF_runVars(WriterStep)
  /\ WF_runVars(ctxDone /\ FfmpegDies)

FairRunSpec == RunSpec /\ RunFairness

-----------------------------------------------------------------------------
(* Properties.                                                             *)

\* Every variable added to the pipeline's keeps its type; no video is longer
\* than the composition.
RunTypeOK ==
  /\ TypeOK
  /\ relay \in Relays
  /\ relayPC \in {"range", "hold", "returned"}
  /\ hand \in Seq(0 .. Total - 1) /\ Len(hand) = (IF relayPC = "hold" THEN 1 ELSE 0)
  /\ relayed \in Seq(0 .. Total - 1) /\ Len(relayed) <= Cap
  /\ writerPC \in {"start", "stream", "wait", "errc", "returned"}
  /\ ffmpeg \in {"off", "up", "dead"}
  /\ video \in Seq(0 .. DurationFrames - 1) /\ Len(video) <= DurationFrames
  /\ writeErr \in BOOLEAN
  /\ published \in BOOLEAN
  /\ outcome \in {"running", "ok", "error"}

\* The frame shown at video position p (from 0) when nothing is missing: the
\* last rendered frame at or before p.
Shown(p) == IF p = DurationFrames - 1 THEN p ELSE p - (p % FrameStep)

\* A render that returns no error has a video of the full duration in which
\* every position shows the last rendered frame at or before it, although a
\* video is also published when frames are missing at its end.  Excepted is
\* withProgress, which ends the stream early when the context is cancelled.
SuccessMeansComplete ==
  outcome = "ok" /\ ~ (relay = "progress" /\ ctxDone) =>
    /\ published
    /\ Len(video) = DurationFrames
    /\ \A p \in 0 .. DurationFrames - 1 : video[p + 1] = Shown(p)

\* While frames are still coming, the video is a prefix of the complete one: no
\* frame is dropped, repeated or reordered between the pipeline and ffmpeg.
VideoIsPrefix ==
  writerPC = "stream" =>
    \A p \in 0 .. Len(video) - 1 : video[p + 1] = Shown(p)

\* A render in which a frame has failed, ffmpeg did not start or has died, or a write to
\* it has failed never returns without an error, although the pipeline's error is
\* read only after the video is published.
FailureIsReported ==
  outcome = "ok" => ~ firstErr /\ ~ writeErr /\ ffmpeg # "dead" /\ published

\* Render returns, unless its context is cancelled.
RenderReturns == <>(outcome # "running" \/ ctxDone)

\* internal/jobs/queue.go:173, "In-flight jobs will fail.": when the daemon's
\* context is cancelled, a render in flight comes to an end.
InFlightRenderEnds == ctxDone ~> outcome # "running"

\* internal/browser/pool.go:36, browsers are "reused across render jobs": when
\* a render has returned, the browsers it held come back to the pool.
BrowsersComeBack == outcome # "running" ~> held = {}
=============================================================================

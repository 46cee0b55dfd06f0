------------------------------ MODULE FrameMath ------------------------------
(***************************************************************************)
(* The arithmetic that decides which frames a video has and what time a    *)
(* frame shows: opensource/engine/timeline/timeline.go, durations.go and   *)
(* timeline_adapter.go of internal/composition, resolveDurationFrames of   *)
(* render.go, and internal/distributed/shards.go.                          *)
(*                                                                         *)
(* Durations are milliseconds.  The code computes in float64; its results  *)
(* are rounded quotients of integers far below 2^53, so that integer       *)
(* division gives the same.                                                *)
(***************************************************************************)
EXTENDS Integers, Sequences

CeilDiv(a, b) == (a + b - 1) \div b

\* math.Round of a quotient that is not negative: halves go up.
RoundDiv(a, b) == (2 * a + b) \div (2 * b)

Least(a, b) == IF a < b THEN a ELSE b

-----------------------------------------------------------------------------
(* A timeline: the durations of the slides, none empty.                    *)

IsTimeline(durations) ==
  durations # << >> /\ \A i \in DOMAIN durations : durations[i] > 0

\* Timeline.startMs, with the end of the last slide as one more entry
StartMs(durations) ==
  LET start[i \in 1 .. Len(durations) + 1] ==
        IF i = 1 THEN 0 ELSE start[i - 1] + durations[i - 1]
  IN start

TotalMs(durations) == StartMs(durations)[Len(durations) + 1]

TotalFrames(durations, fps) == CeilDiv(TotalMs(durations) * fps, 1000)

\* A mutation of GlobalMs: the clamp lets the end itself pass.
GlobalMsToEnd(durations, fps, frame) ==
  Least(RoundDiv(frame * 1000, fps), TotalMs(durations))

\* The time of a frame, kept before the end of the last slide.
GlobalMs(durations, fps, frame) ==
  Least(RoundDiv(frame * 1000, fps), TotalMs(durations) - 1)

\* The first slide that is not over at a time; the last one if all are.
SlideOf(durations, ms) ==
  CHOOSE i \in DOMAIN durations :
    /\ i = Len(durations) \/ ms < StartMs(durations)[i] + durations[i]
    /\ \A j \in 1 .. i - 1 : ms >= StartMs(durations)[j] + durations[j]

\* LocateFrame.  SlideT is inMs / durMs.
LocateFrame(durations, fps, frame) ==
  LET ms == GlobalMs(durations, fps, frame)
      i == SlideOf(durations, ms)
  IN [slide |-> i, startMs |-> StartMs(durations)[i], durMs |-> durations[i],
      inMs |-> ms - StartMs(durations)[i], globalMs |-> ms]

-----------------------------------------------------------------------------
(* Where the durations and the number of frames come from.  A request is a *)
(* record with the fields of Composition and RenderOptions that matter.    *)

\* The default of a slide's duration, DefaultSlideMs of Render.
DefaultMs(request) == IF request.defaultMs <= 0 THEN 5000 ELSE request.defaultMs

\* NormalizeDurationsMs
Normalized(durations, fallback) ==
  [i \in DOMAIN durations |-> IF durations[i] > 0 THEN durations[i] ELSE fallback]

\* buildFixedDurationsMs, with the default of SecondsPerSlide in Render.
FixedDurations(request) ==
  [i \in 1 .. request.slides |->
    IF request.perSlideMs > 0 THEN request.perSlideMs ELSE DefaultMs(request)]

\* discoverRenderMeta keeps the positive durations that the page announces.
Announced(request) ==
  LET kept[i \in 0 .. Len(request.metaMs)] ==
        IF i = 0 THEN << >>
        ELSE IF request.metaMs[i] > 0 THEN Append(kept[i - 1], request.metaMs[i])
        ELSE kept[i - 1]
  IN kept[Len(request.metaMs)]

Unresolved == [frames |-> 0, durations |-> << >>]

\* ComputeTotalFramesFromDurationsMs refuses no slides and a rate that is not positive.
FromDurations(durations, fps) ==
  IF durations = << >> \/ fps <= 0 THEN Unresolved
  ELSE [frames |-> TotalFrames(durations, fps), durations |-> durations]

\* A mutation of ResolveDuration: manual durations are taken as they are.
ResolveRaw(request) ==
  CASE request.frames > 0 -> [frames |-> request.frames, durations |-> request.ownMs]
    [] request.frames <= 0 -> FromDurations(request.manualMs, request.fps)

\* resolveDurationFrames.  A given number of frames wins, and the composition
\* keeps the durations of its own file; what a page announces wins over its total,
\* and that over slides of a fixed length.  An unknown source is refused.
ResolveDuration(request) ==
  CASE request.frames > 0 ->
         [frames |-> request.frames, durations |-> request.ownMs]
    [] request.frames <= 0 /\ request.source \notin {"manual", "fixed", "auto"} -> Unresolved
    [] request.frames <= 0 /\ request.source = "manual" ->
         FromDurations(Normalized(request.manualMs, DefaultMs(request)), request.fps)
    [] request.frames <= 0 /\ request.source = "fixed" ->
         FromDurations(FixedDurations(request), request.fps)
    [] request.frames <= 0 /\ request.source = "auto" ->
         CASE Announced(request) # << >> -> FromDurations(Announced(request), request.fps)
           [] Announced(request) = << >> /\ request.metaTotal > 0 ->
                FromDurations(<<request.metaTotal>>, request.fps)
           [] Announced(request) = << >> /\ request.metaTotal <= 0 ->
                FromDurations(FixedDurations(request), request.fps)

-----------------------------------------------------------------------------
(* Shards.                                                                 *)

\* A mutation of ShardCount: more shards than frames.
ShardCountAsked(total, asked) == asked

\* BuildShards makes no more shards than frames.
ShardCount(total, asked) == Least(asked, total)

\* A mutation of ShardStart: the frames that are left over all go to the end.
ShardStartEven(total, count, i) == i * (total \div count)

\* The start of shard i, counted from 0: the loop has added the base size i times,
\* and one for each earlier shard that got one of the frames left over.
ShardStart(total, count, i) ==
  i * (total \div count) + Least(i, total % count)

\* The shards, with both ends.
BuildShards(total, asked) ==
  LET count == ShardCount(total, asked)
  IN [i \in 0 .. count - 1 |->
       [start |-> ShardStart(total, count, i),
        end |-> ShardStart(total, count, i + 1) - 1]]

FrameCount(shard) == IF shard.end < shard.start THEN 0 ELSE shard.end - shard.start + 1
=============================================================================

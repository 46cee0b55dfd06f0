---------------------------- MODULE ShardedRender ----------------------------
(***************************************************************************)
(* A video that is rendered in shards, as                                  *)
(* opensource/docs/distributed-render-mvp.md has it: shard-plan of the     *)
(* command line divides the frames, each shard is rendered by a "render"   *)
(* process of its own with its number of frames and its offset, in any     *)
(* order and more than once if need be, and concat joins the files.        *)
(* A frame of a video is the absolute frame that it shows; what happens    *)
(* inside a render is RenderRun, whose writer holds the last rendered      *)
(* frame until the next one and up to the end.                             *)
(***************************************************************************)
EXTENDS FrameMath, SequencesExt

CONSTANTS
  Requests,   \* what may be asked for
  MaxShards,  \* shards asked for, at most
  MaxStep     \* frame steps, at most

\* What a composition file, the flags and a page can say: any rate, of which Render
\* checks nothing, and any durations.
Request ==
  [frames : Int, source : STRING, fps : Int, ownMs : Seq(Int), manualMs : Seq(Int),
   metaMs : Seq(Int), defaultMs : Int, slides : Int, perSlideMs : Int, metaTotal : Int]

ASSUME ShardAssumption ==
  /\ Requests \subseteq Request
  /\ MaxShards \in Nat
  /\ MaxStep \in Nat

VARIABLES
  request,    \* what is asked for
  asked,      \* the number of shards asked for
  step,       \* --frame-step of the renders
  stage,      \* "new", "resolved", "planned", "joined" or "failed"
  whole,      \* the frames and durations of the whole video
  files,      \* the shards' videos by number, NoFile where there is none
  video       \* the joined video

vars == <<request, asked, step, stage, whole, files, video>>

NoFile == << >>

Plan == BuildShards(whole.frames, asked)

Init ==
  /\ request \in Requests
  /\ asked \in 1 .. MaxShards
  /\ step \in 1 .. MaxStep
  /\ stage = "new"
  /\ whole = Unresolved
  /\ files = << >>
  /\ video = << >>

\* A mutation of Resolve: a render without a duration goes on.
ResolveAnyway ==
  /\ stage = "new"
  /\ whole' = ResolveDuration(request)
  /\ stage' = "resolved"
  /\ UNCHANGED <<request, asked, step, files, video>>

\* The frames of the whole video are resolved; without a duration Render fails.
Resolve ==
  /\ stage = "new"
  /\ whole' = ResolveDuration(request)
  /\ stage' = IF whole'.frames > 0 THEN "resolved" ELSE "failed"
  /\ UNCHANGED <<request, asked, step, files, video>>

\* shard-plan
MakePlan ==
  /\ stage = "resolved"
  /\ files' = [i \in DOMAIN Plan |-> NoFile]
  /\ stage' = "planned"
  /\ UNCHANGED <<request, asked, step, whole, video>>

\* The frame that is shown at place n of a render: every step-th frame is
\* rendered, and the last one.
Held(frames, n) == IF n = frames - 1 THEN n ELSE (n \div step) * step

\* render --frames <count> --frame-offset <start>: the number of frames goes
\* through ResolveDuration like any other, which takes 0 for not given.
RenderShard(i) ==
  /\ stage = "planned"
  /\ LET shard == Plan[i]
         frames == ResolveDuration([request EXCEPT !.frames = FrameCount(shard)]).frames
     IN files' = [files EXCEPT ![i] =
                    [n \in 1 .. frames |-> shard.start + Held(frames, n - 1)]]
  /\ UNCHANGED <<request, asked, step, stage, whole, video>>

Joined == FlattenSeq([i \in 1 .. Cardinality(DOMAIN files) |-> files[i - 1]])

\* concat needs two inputs or more, which all have to be there.
Concat ==
  /\ stage = "planned"
  /\ Cardinality(DOMAIN files) >= 2
  /\ \A i \in DOMAIN files : files[i] # NoFile
  /\ video' = Joined
  /\ stage' = "joined"
  /\ UNCHANGED <<request, asked, step, whole, files>>

Next == Resolve \/ MakePlan \/ (\E i \in DOMAIN files : RenderShard(i)) \/ Concat

Spec == Init /\ [][Next]_vars

-----------------------------------------------------------------------------
(* Properties.                                                             *)

TypeOK ==
  /\ stage \in {"new", "resolved", "planned", "joined", "failed"}
  /\ whole.frames \in Nat
  /\ stage \in {"resolved", "planned", "joined"} => whole.frames > 0
  /\ stage \in {"planned", "joined"} => \A i \in DOMAIN files : files[i] \in Seq(Nat)
  /\ video \in Seq(Nat)

\* A resolved duration that was not given as a number of frames has slides, none of
\* them empty, and is the least number of frames that lasts as long as they do.
FramesFitSlides ==
  stage \notin {"new", "failed"} /\ request.frames <= 0 =>
    /\ IsTimeline(whole.durations)
    /\ whole.frames * 1000 >= TotalMs(whole.durations) * request.fps
    /\ (whole.frames - 1) * 1000 < TotalMs(whole.durations) * request.fps

\* No shard is empty, which "render" would take for a whole video without a given
\* length: a shard's file has exactly the shard's frames.
ShardsAreShards ==
  stage \in {"planned", "joined"} =>
    \A i \in DOMAIN files : files[i] # NoFile => Len(files[i]) = FrameCount(Plan[i])

\* The joined video is as long as the whole one, and each place shows a frame that
\* is not later and less than a step earlier; without a frame step it is the whole
\* video frame by frame, however the frames were divided.
JoinedIsWhole ==
  stage = "joined" =>
    /\ Len(video) = whole.frames
    /\ \A n \in DOMAIN video : video[n] < n /\ video[n] >= n - step
    /\ video[Len(video)] = whole.frames - 1

Located(n) == LocateFrame(whole.durations, request.fps, n)

\* LocateFrame, which the renderer asks only at a positive rate: the time of a frame
\* lies in its slide, time does not go backwards, and the first frame is the first
\* slide's beginning, for frames beyond the end too.
FramesInOrder ==
  stage \notin {"new", "failed"} /\ IsTimeline(whole.durations) /\ request.fps > 0 =>
    /\ Located(0).slide = 1 /\ Located(0).inMs = 0
    /\ \A n \in 0 .. whole.frames - 1 :
         /\ Located(n).inMs >= 0 /\ Located(n).inMs < Located(n).durMs
         /\ n > 0 => /\ Located(n - 1).globalMs <= Located(n).globalMs
                     /\ Located(n - 1).slide <= Located(n).slide
=============================================================================

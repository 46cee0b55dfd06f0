----------------------------- MODULE PageSession -----------------------------
(***************************************************************************)
(* One browser and the page in it, over the renders that use it one after  *)
(* the other: what RenderFrame of internal/pipeline/renderer.go does with  *)
(* the page (seekOrNavigate, setRuntimeTimelineContext, waitForFrameReady, *)
(* captureFrame) and, in the library, what discoverAudioTracks of          *)
(* render.go did with it before.  That a browser has one user at a time is *)
(* Exclusive of BrowserPool.                                               *)
(*                                                                         *)
(* The page is outside the program.  It follows the frontend contract: it  *)
(* paints the newest frame it was asked for, and answers every request,    *)
(* when it gets to it, by raising __READY__ and, if it marks frames, by    *)
(* writing the frame into __FRAME_READY__.  The answer to a request that a *)
(* newer one has overtaken comes all the same, like a promise that was     *)
(* made before; it may come late or never.                                 *)
(***************************************************************************)
EXTENDS Integers

CONSTANTS
  Comp,       \* compositions: the pages that renders are asked for
  Seekable,   \* those whose page defines __GORENDER_SEEK_FRAME__
  Marking,    \* those whose page writes __FRAME_READY__
  NumFrames,  \* frames of a composition, counted from the offset
  Offsets,    \* frame offsets of the library's renders
  Blank       \* the page of a browser that was just launched

ASSUME PageAssumption ==
  /\ Seekable \subseteq Comp /\ Marking \subseteq Comp
  /\ Blank \notin Comp
  /\ NumFrames \in Nat \ {0}
  /\ Offsets \subseteq Nat

NoFrame == -1

Frame == 0 .. NumFrames - 1

\* What a page may be asked for: the daemon's renders have no offset.
Absolute == {n + o : n \in Frame, o \in Offsets \cup {0}}

VARIABLES
  daemon,   \* the pool is the daemon's, shared by all renders
  page,     \* the page in the browser, see Page
  healthy,  \* Browser.healthy
  pc,       \* where the render's worker is
  render,   \* what the worker renders, see Render
  frame,    \* the frame the worker is at
  own,      \* whether this render's worker has loaded the page
  placed,   \* whether the timeline object of the frame was placed in it
  shot      \* the last screenshot of a frame, or NoShot

vars == <<daemon, page, healthy, pc, render, frame, own, placed, shot>>

Page == [comp : Comp \cup {Blank},
         shown : Absolute \cup {NoFrame},          \* the frame that is painted
         asked : Absolute \cup {NoFrame},          \* the newest request
         waiting : SUBSET Absolute,                \* requests without an answer
         ready : BOOLEAN,                          \* window.__READY__
         frameReady : Absolute \cup {NoFrame},     \* window.__FRAME_READY__
         timeline : Absolute \cup {NoFrame}]       \* the frame of __GORENDER_TIMELINE__

\* A worker's chunk is a range of frames of a composition.
Render == [comp : Comp, last : Frame, offset : Offsets \cup {0}, timeline : BOOLEAN]

\* What was asked for, what was on the screen, and the timeline object.
Shot == [own : BOOLEAN, comp : Comp, frame : Absolute, timelineOn : BOOLEAN,
         placed : BOOLEAN,
         gotComp : Comp \cup {Blank}, gotFrame : Absolute \cup {NoFrame},
         timeline : Absolute \cup {NoFrame}]
NoShot == [own |-> FALSE]

\* The document that a navigation to frame f of composition c loads.
Loaded(c, f) ==
  [comp |-> c, shown |-> NoFrame, asked |-> f,
   waiting |-> IF f = NoFrame THEN {} ELSE {f},
   ready |-> FALSE, frameReady |-> NoFrame, timeline |-> NoFrame]

BlankPage == Loaded(Blank, NoFrame)

Init ==
  /\ daemon \in BOOLEAN
  /\ page = BlankPage
  /\ healthy = TRUE
  /\ pc = "idle"
  /\ render \in [comp : Comp, last : {0}, offset : {0}, timeline : {FALSE}]
  /\ frame = 0
  /\ own = FALSE
  /\ placed = FALSE
  /\ shot = NoShot

\* absoluteFrame of RenderFrame
Wanted == frame + render.offset

-----------------------------------------------------------------------------
(* The render around the frames.                                           *)

\* A worker gets a chunk to render.  The library launches a pool of its own;
\* the daemon's browser still has the page that the last render left in it, and no
\* job of the daemon has a timeline.
\* The library may first look for audio in a page.
StartRender ==
  /\ pc = "idle"
  /\ \E r \in Render, first \in Frame :
       /\ first <= r.last
       /\ daemon => r.offset = 0 /\ ~ r.timeline
       /\ render' = r
       /\ frame' = first
  /\ own' = FALSE
  /\ placed' = FALSE
  /\ shot' = NoShot
  /\ IF daemon
       THEN pc' = "acquire" /\ UNCHANGED <<page, healthy>>
       ELSE pc' \in {"discover", "acquire"} /\ page' = BlankPage /\ healthy' = TRUE
  /\ UNCHANGED daemon

\* discoverAudioTracks: navigate to frame 0, whatever the offset is.
Discover ==
  /\ pc = "discover"
  /\ page' = Loaded(render.comp, 0)
  /\ pc' = "discovering"
  /\ UNCHANGED <<daemon, healthy, render, frame, own, placed, shot>>

\* It waits for the ready signal alone, or gives up; the navigation may fail as
\* well.  In each case the browser is released as it is.
DiscoverEnds ==
  /\ pc \in {"discover", "discovering"}
  /\ pc' = "acquire"
  /\ UNCHANGED <<daemon, page, healthy, render, frame, own, placed, shot>>

\* ensureSession: Acquire replaces an unhealthy browser.
EnsureSession ==
  /\ pc = "acquire"
  /\ healthy' = TRUE
  /\ page' = IF healthy THEN page ELSE BlankPage
  /\ pc' = "seek"
  /\ UNCHANGED <<daemon, render, frame, own, placed, shot>>

\* Acquire times out, or the viewport cannot be set in the browser that it gave.
SessionFails ==
  /\ pc = "acquire"
  /\ \/ UNCHANGED <<page, healthy>>
     \/ healthy' = TRUE /\ page' = IF healthy THEN page ELSE BlankPage
  /\ pc' = "idle"
  /\ UNCHANGED <<daemon, render, frame, own, placed, shot>>

\* The worker goes on to the next frame of its chunk.
NextFrame ==
  /\ pc = "captured"
  /\ frame < render.last
  /\ frame' = frame + 1
  /\ pc' = "seek"
  /\ UNCHANGED <<daemon, page, healthy, render, own, placed, shot>>

\* The chunk is done, or the render was cancelled: Close releases the browser.
EndRender ==
  /\ pc = "captured"
  /\ pc' = "idle"
  /\ UNCHANGED <<daemon, page, healthy, render, frame, own, placed, shot>>

-----------------------------------------------------------------------------
(* RenderFrame.                                                            *)

\* A mutation of Sought: the seek script leaves __READY__ as it is.
SoughtStillReady(f) == [page EXCEPT !.asked = f, !.waiting = @ \cup {f}]

\* The page after the seek script: __READY__ is reset, __FRAME_READY__ is not.
Sought(f) == [page EXCEPT !.asked = f, !.waiting = @ \cup {f}, !.ready = FALSE]

\* seekOrNavigate: a session is always seekReady, so the page is asked to seek
\* if it can, whatever page it is.
Seek ==
  /\ pc = "seek"
  /\ page.comp \in Seekable
  /\ page' = Sought(Wanted)
  /\ pc' = "context"
  /\ UNCHANGED <<daemon, healthy, render, frame, own, placed, shot>>

\* It cannot, or its function throws: the frame's URL is loaded.
Navigate ==
  /\ pc = "seek"
  /\ page' = Loaded(render.comp, Wanted)
  /\ own' = TRUE
  /\ pc' = "context"
  /\ UNCHANGED <<daemon, healthy, render, frame, placed, shot>>

\* A mutation of SetContext: the timeline is located at the local frame.
SetLocalContext ==
  /\ pc = "context"
  /\ placed' \in {FALSE, render.timeline}
  /\ page' = IF placed' THEN [page EXCEPT !.timeline = frame] ELSE page
  /\ pc' = "ready"
  /\ UNCHANGED <<daemon, healthy, render, frame, own, shot>>

\* setRuntimeTimelineContext, if the render has a timeline; RenderFrame logs its
\* failure and goes on.
SetContext ==
  /\ pc = "context"
  /\ placed' \in {FALSE, render.timeline}
  /\ page' = IF placed' THEN [page EXCEPT !.timeline = Wanted] ELSE page
  /\ pc' = "ready"
  /\ UNCHANGED <<daemon, healthy, render, frame, own, shot>>

\* waitForFrameReady polls the mark of the frame and the ready signal.
FrameReady ==
  /\ pc = "ready"
  /\ page.frameReady = Wanted \/ page.ready
  /\ pc' = "capture"
  /\ UNCHANGED <<daemon, page, healthy, render, frame, own, placed, shot>>

\* captureFrame
Capture ==
  /\ pc = "capture"
  /\ shot' = [own |-> own, comp |-> render.comp, frame |-> Wanted,
              timelineOn |-> render.timeline, placed |-> placed,
              gotComp |-> page.comp, gotFrame |-> page.shown,
              timeline |-> page.timeline]
  /\ pc' = "captured"
  /\ UNCHANGED <<daemon, page, healthy, render, frame, own, placed>>

\* A mutation of FrameFails: the browser is not marked unhealthy.
FrameFailsHealthy ==
  /\ pc \in {"seek", "ready", "capture"}
  /\ pc' = "idle"
  /\ UNCHANGED <<daemon, page, healthy, render, frame, own, placed, shot>>

\* The page cannot be seeked or loaded, is not ready in time, or cannot be
\* captured: MarkUnhealthy, dropSession, and the worker returns the error.
FrameFails ==
  /\ pc \in {"seek", "ready", "capture"}
  /\ healthy' = FALSE
  /\ pc' = "idle"
  /\ UNCHANGED <<daemon, page, render, frame, own, placed, shot>>

-----------------------------------------------------------------------------
(* The page.                                                               *)

Answer(f) ==
  /\ f \in page.waiting
  /\ page' = [page EXCEPT
       !.waiting = @ \ {f},
       !.shown = IF f = page.asked THEN f ELSE @,
       !.ready = TRUE,
       !.frameReady = IF page.comp \in Marking THEN f ELSE @]
  /\ UNCHANGED <<daemon, healthy, pc, render, frame, own, placed, shot>>

RenderFrame ==
  \/ Seek \/ Navigate \/ SetContext \/ FrameReady \/ Capture \/ FrameFails

Next ==
  \/ StartRender \/ Discover \/ DiscoverEnds
  \/ EnsureSession \/ SessionFails \/ NextFrame \/ EndRender
  \/ RenderFrame
  \/ \E f \in Absolute : Answer(f)

Spec == Init /\ [][Next]_vars

-----------------------------------------------------------------------------
(* Properties.                                                             *)

TypeOK ==
  /\ daemon \in BOOLEAN
  /\ page \in Page
  /\ healthy \in BOOLEAN
  /\ pc \in {"idle", "discover", "discovering", "acquire", "seek", "context", "ready",
             "capture", "captured"}
  /\ render \in Render
  /\ frame \in Frame /\ (pc # "idle" => frame <= render.last)
  /\ own \in BOOLEAN /\ placed \in BOOLEAN
  /\ shot \in Shot \cup {NoShot}

\* The screenshot shows the frame that was asked for, of the right composition.
ShowsWanted == shot.gotComp = shot.comp /\ shot.gotFrame = shot.frame

\* On a page that the render has loaded itself, every screenshot shows its frame,
\* fully painted: the signals of one frame are never taken for the next one's,
\* although only one of the two is reset and the page answers when it likes.
OwnPageShowsFrame == shot # NoShot /\ shot.own => ShowsWanted

\* In the daemon, a page that the same composition's earlier render has left shows
\* the right frame too, if it signals by __READY__ alone: a page that still owes an
\* answer is never handed on, because a render that gave up on it has marked its
\* browser unhealthy.
LeftPageShowsFrame ==
  /\ shot # NoShot
  /\ daemon
  /\ shot.gotComp = shot.comp
  /\ shot.comp \notin Marking
  => ShowsWanted

\* The timeline object that is there when the screenshot is taken is that of the
\* frame, counted from the start of the whole video, unless it could not be placed;
\* a render without a timeline shows none to the page it has loaded.
TimelineOfFrame ==
  shot # NoShot =>
    /\ shot.placed => shot.timeline = shot.frame
    /\ shot.own /\ ~ shot.timelineOn => shot.timeline = NoFrame

\* configs/frontend-contract.js:13, "Navigate to your URL with ?frame=N for each
\* frame": a screenshot is one of the composition that is rendered.
ShowsOwnComposition == shot # NoShot => shot.gotComp = shot.comp
=============================================================================

-------------------------- MODULE PageSessionProofs --------------------------
(* Proofs about PageSession: what a screenshot shows. *)
EXTENDS PageSession, TLAPS

\* The worker has asked the page for its frame and has not gone on.
Asking == pc \in {"context", "ready", "capture", "captured"}

\* The page owes no answer but that to the newest request, and raises its signals
\* for nothing else.
Clean ==
  /\ page.waiting \subseteq {page.asked}
  /\ page.ready => page.waiting = {} /\ page.shown = page.asked

\* The worker has seen the signals.
Seen == pc \in {"capture", "captured"}

\* A page that the render has loaded itself: it marks no frame to come.
OwnPage ==
  own /\ pc # "idle" =>
    /\ pc \notin {"discover", "discovering", "acquire"}
    /\ page.comp = render.comp
    /\ Clean
    /\ Asking => page.asked = Wanted
    /\ page.frameReady <= Wanted
    /\ page.frameReady = Wanted => page.waiting = {} /\ page.shown = Wanted
    /\ pc = "seek" => page.waiting = {} /\ page.frameReady < Wanted
    /\ Seen => page.waiting = {} /\ page.shown = Wanted

\* A page of a composition that does not mark frames, in the daemon.
LeftPage ==
  daemon /\ healthy /\ page.comp \notin Marking =>
    /\ Clean
    /\ page.frameReady = NoFrame
    /\ page.comp = Blank => page.waiting = {} /\ page.shown = page.asked
    /\ ~ Asking => page.waiting = {}
    /\ Asking => page.asked = Wanted
    /\ Seen => page.waiting = {} /\ page.shown = Wanted

\* Where the render can be, and what the timeline object is there.
Control ==
  /\ daemon => pc \notin {"discover", "discovering"}
  /\ ~ healthy => pc \in {"idle", "acquire"}
  /\ Asking => page.comp \in Comp
  /\ pc \in {"ready", "capture", "captured"} /\ placed => page.timeline = Wanted
  /\ own /\ pc # "idle" /\ ~ render.timeline => page.timeline = NoFrame

IInv ==
  /\ TypeOK
  /\ OwnPage
  /\ LeftPage
  /\ Control
  /\ OwnPageShowsFrame
  /\ LeftPageShowsFrame
  /\ TimelineOfFrame

-----------------------------------------------------------------------------
\* Pages stay pages, whatever is loaded, seeked or answered.
LEMMA PageTypes ==
  /\ BlankPage \in Page
  /\ \A c \in Comp, f \in Absolute : Loaded(c, f) \in Page
  /\ page \in Page => \A f \in Absolute : Sought(f) \in Page
  BY PageAssumption DEF Page, BlankPage, Loaded, Sought, NoFrame

\* Frames and offsets are numbers.
LEMMA AreNaturals ==
  /\ Frame \subseteq Nat
  /\ Offsets \cup {0} \subseteq Nat
  /\ Absolute \subseteq Nat
<1>1. Frame \subseteq Nat /\ Offsets \cup {0} \subseteq Nat
  BY PageAssumption DEF Frame
<1> QED
  BY <1>1 DEF Absolute

\* So is the mark of no frame.
LEMMA FramesAreInts == \A f \in Absolute \cup {NoFrame} : f \in Int
<1>1. Absolute \subseteq Int
  BY AreNaturals
<1>2. NoFrame \in Int
  BY DEF NoFrame
<1> QED
  BY <1>1, <1>2

\* The frame that RenderFrame asks for is one that the page may be asked for.
LEMMA WantedType == TypeOK => Wanted \in Absolute /\ Wanted \in Nat
<1> SUFFICES ASSUME TypeOK PROVE Wanted \in Absolute /\ Wanted \in Nat
  OBVIOUS
<1>1. frame \in Frame /\ render.offset \in Offsets \cup {0}
  BY DEF TypeOK, Render
<1>2. Wanted \in Absolute
  BY <1>1 DEF Wanted, Absolute
<1>3. frame \in Nat /\ render.offset \in Nat
  BY <1>1, AreNaturals
<1>4. Wanted \in Nat
  BY <1>3 DEF Wanted
<1> QED
  BY <1>2, <1>4

\* The initial page is blank and no frame has been asked for.
LEMMA InitIInv == Init => IInv
<1> SUFFICES ASSUME Init PROVE IInv
  OBVIOUS
<1> USE PageAssumption DEF Init
<1>1. TypeOK
  <2>1. page \in Page
    BY PageTypes
  <2>2. 0 \in Frame /\ 0 \in Offsets \cup {0}
    BY DEF Frame
  <2>3. render \in Render
    BY <2>2 DEF Render
  <2> QED
    BY <2>1, <2>2, <2>3 DEF TypeOK, Render
<1>2. OwnPage /\ LeftPage /\ Control
  BY DEF OwnPage, LeftPage, Control, Clean, Asking, Seen, BlankPage, Loaded, NoFrame
<1>3. OwnPageShowsFrame /\ LeftPageShowsFrame /\ TimelineOfFrame
  BY DEF OwnPageShowsFrame, LeftPageShowsFrame, TimelineOfFrame
<1> QED
  BY <1>1, <1>2, <1>3 DEF IInv

\* Every step keeps the types.
LEMMA TypeStep == TypeOK /\ [Next]_vars => TypeOK'
<1> SUFFICES ASSUME TypeOK, [Next]_vars PROVE TypeOK'
  OBVIOUS
<1> USE PageAssumption
<1>0. Wanted \in Absolute /\ Wanted \in Nat
  BY WantedType
<1>1. CASE StartRender
  BY <1>1, PageTypes DEF StartRender, TypeOK, NoShot
<1>2. CASE Discover \/ DiscoverEnds
  <2>1. 0 \in Absolute
    BY DEF Absolute, Frame
  <2> QED
    BY <1>2, <2>1, PageTypes DEF Discover, DiscoverEnds, TypeOK, Render
<1>3. CASE EnsureSession \/ SessionFails \/ EndRender
  BY <1>3, PageTypes DEF EnsureSession, SessionFails, EndRender, TypeOK
<1>4. CASE NextFrame
  BY <1>4 DEF NextFrame, TypeOK, Render, Frame
<1>5. CASE Seek \/ Navigate
  BY <1>0, <1>5, PageTypes DEF Seek, Navigate, TypeOK, Render
<1>6. CASE SetContext
  <2>1. placed' \in BOOLEAN
    <3>1. render.timeline \in BOOLEAN
      BY DEF TypeOK, Render
    <3>2. placed' \in {FALSE, render.timeline}
      BY <1>6 DEF SetContext
    <3> QED
      BY <3>1, <3>2, Zenon
  <2>2. page' \in {page, [page EXCEPT !.timeline = Wanted]}
    BY <1>6 DEF SetContext
  <2>3. page' \in Page
    BY <1>0, <2>2 DEF TypeOK, Page
  <2> QED
    BY <1>6, <2>1, <2>3 DEF SetContext, TypeOK
<1>7. CASE FrameReady \/ FrameFails
  BY <1>7 DEF FrameReady, FrameFails, TypeOK
<1>8. CASE Capture
  <2>1. placed \in BOOLEAN /\ own \in BOOLEAN
    BY DEF TypeOK
  <2>2. render.timeline \in BOOLEAN /\ render.comp \in Comp
    BY DEF TypeOK, Render
  <2>3. /\ page.comp \in Comp \cup {Blank} /\ page.shown \in Absolute \cup {NoFrame}
        /\ page.timeline \in Absolute \cup {NoFrame}
    BY DEF TypeOK, Page
  <2>4. shot' \in Shot
    <3>1. shot' = [own |-> own, comp |-> render.comp, frame |-> Wanted,
                   timelineOn |-> render.timeline, placed |-> placed,
                   gotComp |-> page.comp, gotFrame |-> page.shown,
                   timeline |-> page.timeline]
      BY <1>8 DEF Capture
    <3> QED
      BY <1>0, <2>1, <2>2, <2>3, <3>1, Zenon DEF Shot
  <2>5. UNCHANGED <<daemon, page, healthy, render, frame, own, placed>>
    BY <1>8 DEF Capture
  <2>6. pc' = "captured" /\ pc = "capture"
    BY <1>8 DEF Capture
  <2>7. TypeOK' <=> daemon \in BOOLEAN /\ page \in Page /\ healthy \in BOOLEAN
                    /\ render \in Render
                    /\ frame \in Frame /\ frame <= render.last
                    /\ own \in BOOLEAN /\ placed \in BOOLEAN /\ shot' \in Shot \cup {NoShot}
    BY <2>5, <2>6 DEF TypeOK
  <2>8. frame <= render.last
    BY <2>6 DEF TypeOK
  <2>9. shot' \in Shot \cup {NoShot}
    BY <2>4
  <2> QED
    BY <2>7, <2>8, <2>9, Zenon DEF TypeOK
<1>9. ASSUME NEW f \in Absolute, Answer(f) PROVE TypeOK'
  <2>1. page' \in Page
    BY <1>9 DEF Answer, TypeOK, Page
  <2>2. UNCHANGED <<daemon, healthy, pc, render, frame, own, placed, shot>>
    BY <1>9 DEF Answer
  <2> QED
    BY <2>1, <2>2 DEF TypeOK
<1>10. CASE UNCHANGED vars
  BY <1>10 DEF vars, TypeOK
<1> QED
  BY <1>1, <1>2, <1>3, <1>4, <1>5, <1>6, <1>7, <1>8, <1>9, <1>10 DEF Next, RenderFrame

-----------------------------------------------------------------------------
\* What each step does to the page that the render has loaded itself.
LEMMA OwnPageStep == IInv /\ [Next]_vars => OwnPage'
<1> SUFFICES ASSUME IInv, [Next]_vars PROVE OwnPage'
  OBVIOUS
<1> USE PageAssumption DEF IInv
<1>0. Wanted \in Nat /\ page \in Page
  BY WantedType DEF TypeOK
<1>1. CASE StartRender
  BY <1>1 DEF StartRender, OwnPage
<1>2. CASE Discover \/ DiscoverEnds
  BY <1>2 DEF Discover, DiscoverEnds, OwnPage
<1>3. CASE EnsureSession \/ SessionFails \/ EndRender \/ FrameFails
  BY <1>3 DEF EnsureSession, SessionFails, EndRender, FrameFails, OwnPage
<1>4. CASE NextFrame
  <2>0. frame \in Nat /\ render.offset \in Nat
    BY AreNaturals DEF TypeOK, Render
  <2>1. page.frameReady \in Int /\ Wanted' = Wanted + 1
    <3>1. page.frameReady \in Absolute \cup {NoFrame}
      BY <1>0 DEF Page
    <3>2. page.frameReady \in Int
      BY <3>1, FramesAreInts
    <3>3. Wanted' = Wanted + 1
      BY <1>4, <2>0 DEF NextFrame, Wanted
    <3> QED
      BY <3>2, <3>3
  <2>2. page.frameReady <= Wanted => page.frameReady < Wanted + 1
    BY <1>0, <2>1
  <2> QED
    BY <1>0, <1>4, <2>1, <2>2 DEF NextFrame, OwnPage, Clean, Asking, Seen
<1>5. CASE Seek
  BY <1>0, <1>5 DEF Seek, Sought, OwnPage, Clean, Asking, Seen, Wanted, Page
<1>6. CASE Navigate
  BY <1>0, <1>6 DEF Navigate, Loaded, OwnPage, Clean, Asking, Seen, Wanted, NoFrame
<1>7. CASE SetContext
  BY <1>0, <1>7 DEF SetContext, OwnPage, Clean, Asking, Seen, Wanted, Page
<1>8. CASE FrameReady
  BY <1>0, <1>8 DEF FrameReady, OwnPage, Clean, Asking, Seen, Wanted
<1>9. CASE Capture
  BY <1>0, <1>9 DEF Capture, OwnPage, Clean, Asking, Seen, Wanted
<1>10. ASSUME NEW f \in Absolute, Answer(f) PROVE OwnPage'
  BY <1>0, <1>10 DEF Answer, TypeOK, OwnPage, Clean, Asking, Seen, Wanted, Page
<1>11. CASE UNCHANGED vars
  BY <1>11 DEF vars, OwnPage, Clean, Asking, Seen, Wanted
<1> QED
  BY <1>1, <1>2, <1>3, <1>4, <1>5, <1>6, <1>7, <1>8, <1>9, <1>10, <1>11 DEF Next, RenderFrame

\* What each step does to a page that marks no frames.
LEMMA LeftPageStep == IInv /\ [Next]_vars => LeftPage'
<1> SUFFICES ASSUME IInv, [Next]_vars PROVE LeftPage'
  OBVIOUS
<1> USE PageAssumption DEF IInv
<1>0. Wanted \in Absolute /\ Wanted \in Nat /\ page \in Page
  BY WantedType DEF TypeOK
<1>1. CASE StartRender
  BY <1>1 DEF StartRender, LeftPage, Clean, Asking, Seen
<1>2. CASE Discover \/ DiscoverEnds
  BY <1>2 DEF Discover, DiscoverEnds, LeftPage, Control
<1>3. CASE EnsureSession
  BY <1>3 DEF EnsureSession, LeftPage, Clean, Asking, Seen, BlankPage, Loaded
<1>4. CASE EndRender \/ FrameFails \/ NextFrame
  BY <1>4 DEF EndRender, FrameFails, NextFrame, LeftPage, Clean, Asking, Seen
<1>12. CASE SessionFails
  <2>1. CASE UNCHANGED <<page, healthy>>
    BY <1>12, <2>1 DEF SessionFails, LeftPage, Clean, Asking, Seen
  <2>2. CASE healthy' = TRUE /\ page' = IF healthy THEN page ELSE BlankPage
    BY <1>12, <2>2 DEF SessionFails, LeftPage, Clean, Asking, Seen, BlankPage, Loaded
  <2> QED
    BY <1>12, <2>1, <2>2 DEF SessionFails
<1>5. CASE Seek
  BY <1>0, <1>5 DEF Seek, Sought, LeftPage, Clean, Asking, Seen, Wanted, Page
<1>6. CASE Navigate
  BY <1>0, <1>6 DEF Navigate, Loaded, LeftPage, Clean, Asking, Seen, Wanted, TypeOK, Render
<1>7. CASE SetContext
  BY <1>0, <1>7 DEF SetContext, LeftPage, Clean, Asking, Seen, Wanted, Page
<1>8. CASE FrameReady
  BY <1>0, <1>8 DEF FrameReady, LeftPage, Clean, Asking, Seen, Wanted, NoFrame
<1>9. CASE Capture
  BY <1>0, <1>9 DEF Capture, LeftPage, Clean, Asking, Seen, Wanted
<1>10. ASSUME NEW f \in Absolute, Answer(f) PROVE LeftPage'
  BY <1>0, <1>10 DEF Answer, LeftPage, Clean, Asking, Seen, Wanted, Page
<1>11. CASE UNCHANGED vars
  BY <1>11 DEF vars, LeftPage, Clean, Asking, Seen, Wanted
<1> QED
  BY <1>1, <1>2, <1>3, <1>4, <1>5, <1>6, <1>7, <1>8, <1>9, <1>10, <1>11, <1>12 DEF Next, RenderFrame

\* Where the browser is healthy and the timeline object is the frame's.
LEMMA ControlStep == IInv /\ [Next]_vars => Control'
<1> SUFFICES ASSUME IInv, [Next]_vars PROVE Control'
  OBVIOUS
<1> USE PageAssumption DEF IInv
<1>0. Wanted \in Absolute /\ page \in Page /\ render \in Render
  BY WantedType DEF TypeOK
<1>1. CASE StartRender \/ Discover \/ DiscoverEnds \/ EnsureSession
  BY <1>1 DEF StartRender, Discover, DiscoverEnds, EnsureSession, Control, OwnPage, Asking
<1>2. CASE SessionFails \/ EndRender \/ FrameFails \/ NextFrame
  BY <1>2 DEF SessionFails, EndRender, FrameFails, NextFrame, Control, OwnPage, Asking
<1>3. CASE Seek
  BY <1>0, <1>3 DEF Seek, Sought, Control, Asking, Page
<1>4. CASE Navigate
  BY <1>0, <1>4 DEF Navigate, Loaded, Control, Asking, Render
<1>5. CASE SetContext
  <2>1. placed' => page'.timeline = Wanted
    BY <1>0, <1>5 DEF SetContext, Page
  <2>2. own /\ ~ render.timeline => ~ placed'
    BY <1>5 DEF SetContext
  <2>3. page' \in {page, [page EXCEPT !.timeline = Wanted]} /\ (~ placed' => page' = page)
    BY <1>5 DEF SetContext
  <2>4. page'.comp = page.comp
    BY <1>0, <2>3 DEF Page
  <2> QED
    BY <1>5, <2>1, <2>2, <2>3, <2>4 DEF SetContext, Control, Asking, Wanted
<1>6. CASE FrameReady \/ Capture
  BY <1>6 DEF FrameReady, Capture, Control, Asking, Wanted
<1>7. ASSUME NEW f \in Absolute, Answer(f) PROVE Control'
  BY <1>0, <1>7 DEF Answer, Control, Asking, Wanted, Page
<1>8. CASE UNCHANGED vars
  BY <1>8 DEF vars, Control, Asking, Wanted
<1> QED
  BY <1>1, <1>2, <1>3, <1>4, <1>5, <1>6, <1>7, <1>8 DEF Next, RenderFrame

-----------------------------------------------------------------------------
\* A screenshot is taken of a page that has answered, and no other step changes
\* the record of it but to forget it.
LEMMA ShotStep ==
  IInv /\ [Next]_vars => OwnPageShowsFrame' /\ LeftPageShowsFrame' /\ TimelineOfFrame'
<1> SUFFICES ASSUME IInv, [Next]_vars
             PROVE  OwnPageShowsFrame' /\ LeftPageShowsFrame' /\ TimelineOfFrame'
  OBVIOUS
<1> USE DEF IInv, OwnPageShowsFrame, LeftPageShowsFrame, TimelineOfFrame, ShowsWanted
<1>1. CASE StartRender
  BY <1>1 DEF StartRender
<1>2. CASE Capture
  <2>1. OwnPageShowsFrame'
    BY <1>2 DEF Capture, OwnPage, Seen
  <2>2. LeftPageShowsFrame'
    BY <1>2 DEF Capture, LeftPage, Control, Seen
  <2>3. TimelineOfFrame'
    BY <1>2 DEF Capture, Control
  <2> QED
    BY <2>1, <2>2, <2>3
<1>3. CASE UNCHANGED <<daemon, shot>>
  BY <1>3
<1>4. StartRender \/ Capture \/ UNCHANGED <<daemon, shot>>
  BY DEF Next, RenderFrame, Discover, DiscoverEnds, EnsureSession, SessionFails,
         NextFrame, EndRender, Seek, Navigate, SetContext, FrameReady, FrameFails,
         Answer, vars
<1> QED
  BY <1>1, <1>2, <1>3, <1>4

\* The invariant is inductive.
LEMMA IInvStep == IInv /\ [Next]_vars => IInv'
  BY TypeStep, OwnPageStep, LeftPageStep, ControlStep, ShotStep DEF IInv

\* What the worker, the page and the record of the screenshot can be.
THEOREM TypeCorrect == Spec => []TypeOK
<1>1. IInv => TypeOK
  BY DEF IInv
<1> QED
  BY InitIInv, IInvStep, <1>1, PTL DEF Spec

\* RenderFrame, on a page that it has loaded: the screenshot is of the frame, for
\* every number of frames, kind of page and order of its answers.
THEOREM OwnPageCorrect == Spec => []OwnPageShowsFrame
<1>1. IInv => OwnPageShowsFrame
  BY DEF IInv
<1> QED
  BY InitIInv, IInvStep, <1>1, PTL DEF Spec

\* RenderFrame, on a page that an earlier job of the same composition has left.
THEOREM LeftPageCorrect == Spec => []LeftPageShowsFrame
<1>1. IInv => LeftPageShowsFrame
  BY DEF IInv
<1> QED
  BY InitIInv, IInvStep, <1>1, PTL DEF Spec

\* setRuntimeTimelineContext: the timeline object belongs to the screenshot.
THEOREM TimelineCorrect == Spec => []TimelineOfFrame
<1>1. IInv => TimelineOfFrame
  BY DEF IInv
<1> QED
  BY InitIInv, IInvStep, <1>1, PTL DEF Spec
=============================================================================

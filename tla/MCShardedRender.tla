--------------------------- MODULE MCShardedRender ---------------------------
(* ShardedRender for TLC: the sources of a duration, with slides that are     *)
(* shorter and longer than a frame.                                           *)
EXTENDS ShardedRender

Lengths == {0, 1, 33, 34, 70}

Slides == UNION {[1 .. n -> Lengths] : n \in 0 .. 3}

Rates == {24, 30, 60}

Asked(frames, source, fps, ownMs, manualMs, slides, perSlideMs, metaMs, metaTotal) ==
  [frames |-> frames, source |-> source, fps |-> fps, ownMs |-> ownMs,
   manualMs |-> manualMs, defaultMs |-> 40, slides |-> slides,
   perSlideMs |-> perSlideMs, metaMs |-> metaMs, metaTotal |-> metaTotal]

Manual == {Asked(0, "manual", fps, << >>, ms, 0, 0, << >>, 0) : fps \in Rates, ms \in Slides}
Fixed == {Asked(0, "fixed", fps, << >>, << >>, slides, ms, << >>, 0) :
            fps \in Rates, slides \in 0 .. 2, ms \in {0, 50}}
Auto == {Asked(0, "auto", 30, << >>, << >>, slides, 50, ms, total) :
           slides \in {0, 2}, ms \in {<< >>, <<0>>, <<34, -1, 70>>}, total \in {0, 101}}
Given == {Asked(frames, "auto", 30, ms, << >>, 0, 0, << >>, 0) :
            frames \in 1 .. 7, ms \in {<< >>, <<34, 70>>, <<34, 0>>}}
Refused == {Asked(frames, source, fps, << >>, <<34, 70>>, 2, 50, <<34>>, 101) :
              frames \in {0, 3}, source \in {"manual", "auto", "other"}, fps \in {-1, 30}}

AnyRequest == Manual \cup Fixed \cup Auto \cup Given \cup Refused
=============================================================================

------------------------- MODULE ShardedRenderProofs -------------------------
(* Proofs about FrameMath and ShardedRender, for every request, every number   *)
(* of frames and shards, and every frame step.                                 *)
EXTENDS ShardedRender, TLAPS, FiniteSetTheorems, WellFoundedInduction

-----------------------------------------------------------------------------
(* Induction.  A recursive definition is reasoned about by the least           *)
(* counterexample: what fails for some number fails for a least one.           *)

\* A set of natural numbers that is not empty has a least element.
LEMMA LeastElement ==
  ASSUME NEW S, S \subseteq Nat, S # {}
  PROVE  \E m \in S : \A n \in S : m <= n
<1>1. PICK m \in S : \A n \in S : ~(<<n, m>> \in OpToRel(<, Nat))
  BY NatLessThanWellFounded, WFMin
<1>2. \A n \in S : ~(n < m)
  BY <1>1 DEF OpToRel
<1> QED
  BY <1>2

\* The quotient and the remainder of naturals.
LEMMA Division ==
  ASSUME NEW a \in Nat, NEW b \in Nat \ {0}
  PROVE  /\ a \div b \in Nat
         /\ a % b \in Nat
         /\ a % b < b
         /\ a = b * (a \div b) + (a % b)
  OBVIOUS

-----------------------------------------------------------------------------
(* The timeline: where its slides begin.                                       *)

\* The recursive definition of StartMs defines a function.
LEMMA StartMsExists ==
  ASSUME NEW d \in Seq(Int), NEW n \in Nat
  PROVE  \E g : g = [i \in 1 .. n + 1 |-> IF i = 1 THEN 0 ELSE g[i - 1] + d[i - 1]]
<1> DEFINE Fits(g, k) ==
      g = [i \in 1 .. k + 1 |-> IF i = 1 THEN 0 ELSE g[i - 1] + d[i - 1]]
<1> DEFINE Bad == {k \in Nat : ~ \E g : Fits(g, k)}
<1> SUFFICES ASSUME Bad # {} PROVE FALSE
  OBVIOUS
<1>1. PICK k \in Bad : \A j \in Bad : k <= j
  BY LeastElement
<1>2. k \in Nat
  OBVIOUS
<1>3. k # 0
  <2>1. Fits([i \in 1 .. 1 |-> 0], 0)
    OBVIOUS
  <2> QED
    BY <2>1
<1>4. k - 1 \in Nat /\ k - 1 \notin Bad
  <2> HIDE DEF Bad
  <2> QED
    BY <1>1, <1>2, <1>3
<1>5. PICK g : Fits(g, k - 1)
  BY <1>4
<1>6. Fits([i \in 1 .. k + 1 |-> IF i = k + 1 THEN g[k] + d[k] ELSE g[i]], k)
  BY <1>2, <1>3, <1>5
<1> QED
  BY <1>6

\* The first slide begins at 0 and each one where the one before ends.
LEMMA StartMsSteps ==
  ASSUME NEW d \in Seq(Int)
  PROVE  /\ StartMs(d)[1] = 0
         /\ \A i \in 1 .. Len(d) : StartMs(d)[i + 1] = StartMs(d)[i] + d[i]
<1> DEFINE S == StartMs(d)
<1>0. \E g : g = [i \in 1 .. Len(d) + 1 |-> IF i = 1 THEN 0 ELSE g[i - 1] + d[i - 1]]
  BY StartMsExists
<1>1. S = [i \in 1 .. Len(d) + 1 |-> IF i = 1 THEN 0 ELSE S[i - 1] + d[i - 1]]
  BY <1>0 DEF StartMs
<1> HIDE DEF S
<1>2. S[1] = 0
  BY <1>1
<1>3. ASSUME NEW i \in 1 .. Len(d) PROVE S[i + 1] = S[i] + d[i]
  <2>1. i + 1 \in 1 .. Len(d) + 1 /\ i + 1 # 1 /\ (i + 1) - 1 = i
    OBVIOUS
  <2> QED
    BY <1>1, <2>1
<1> QED
  BY <1>2, <1>3 DEF S

\* The starts are integers.
LEMMA StartMsType ==
  ASSUME NEW d \in Seq(Int), NEW i \in 1 .. Len(d) + 1
  PROVE  StartMs(d)[i] \in Int
<1> DEFINE Bad == {k \in 1 .. Len(d) + 1 : StartMs(d)[k] \notin Int}
<1> SUFFICES ASSUME Bad # {} PROVE FALSE
  OBVIOUS
<1>0. Bad \subseteq Nat
  OBVIOUS
<1>1. PICK k \in Bad : \A j \in Bad : k <= j
  BY <1>0, LeastElement
<1>2. k \in 1 .. Len(d) + 1 /\ StartMs(d)[k] \notin Int
  OBVIOUS
<1>3. k # 1
  BY <1>2, StartMsSteps
<1>4. k - 1 \in 1 .. Len(d) /\ k - 1 \notin Bad
  <2> HIDE DEF Bad
  <2> QED
    BY <1>1, <1>2, <1>3
<1>5. StartMs(d)[(k - 1) + 1] = StartMs(d)[k - 1] + d[k - 1]
  BY <1>4, StartMsSteps
<1>6. StartMs(d)[k - 1] \in Int /\ d[k - 1] \in Int
  BY <1>4
<1> QED
  BY <1>2, <1>5, <1>6

\* Of slides that are not empty, a later one begins later.
LEMMA StartMsGrows ==
  ASSUME NEW d \in Seq(Int), IsTimeline(d),
         NEW i \in 1 .. Len(d) + 1, NEW j \in 1 .. Len(d) + 1, i < j
  PROVE  StartMs(d)[i] < StartMs(d)[j]
<1> DEFINE Bad == {k \in 1 .. Len(d) + 1 : i < k /\ ~(StartMs(d)[i] < StartMs(d)[k])}
<1> SUFFICES ASSUME Bad # {} PROVE FALSE
  OBVIOUS
<1>0. Bad \subseteq Nat
  OBVIOUS
<1>1. PICK k \in Bad : \A m \in Bad : k <= m
  BY <1>0, LeastElement
<1>2. k \in 1 .. Len(d) + 1 /\ i < k /\ ~(StartMs(d)[i] < StartMs(d)[k])
  OBVIOUS
<1>3. k - 1 \in 1 .. Len(d) /\ k - 1 \notin Bad
  <2> HIDE DEF Bad
  <2> QED
    BY <1>1, <1>2
<1>4. StartMs(d)[(k - 1) + 1] = StartMs(d)[k - 1] + d[k - 1]
  BY <1>3, StartMsSteps
<1>5. d[k - 1] > 0 /\ d[k - 1] \in Int
  BY <1>3 DEF IsTimeline
<1>6. StartMs(d)[i] \in Int /\ StartMs(d)[k - 1] \in Int
  BY <1>3, StartMsType
<1>7. i = k - 1 \/ StartMs(d)[i] < StartMs(d)[k - 1]
  BY <1>2, <1>3
<1> QED
  BY <1>2, <1>4, <1>5, <1>6, <1>7

\* A timeline lasts.
LEMMA TotalMsPositive ==
  ASSUME NEW d \in Seq(Int), IsTimeline(d)
  PROVE  TotalMs(d) \in Nat \ {0}
<1>1. Len(d) \in Nat \ {0}
  BY DEF IsTimeline
<1> QED
  BY <1>1, StartMsSteps, StartMsType, StartMsGrows DEF TotalMs

-----------------------------------------------------------------------------
(* Where a frame lies.                                                         *)

\* The greater number has the greater quotient.
LEMMA DivGrows ==
  ASSUME NEW a \in Nat, NEW b \in Nat, a <= b, NEW c \in Nat \ {0}
  PROVE  a \div c <= b \div c
<1> DEFINE p == a \div c
           q == b \div c
<1>1. p \in Nat /\ q \in Nat /\ c * p <= a /\ b < c * q + c
  BY Division
<1> HIDE DEF p, q
<1>2. ASSUME q + 1 <= p PROVE FALSE
  <2>1. p - (q + 1) \in Nat
    BY <1>1, <1>2
  <2>2. c * (p - (q + 1)) >= 0
    BY <2>1
  <2>3. c * p = c * (p - (q + 1)) + c * q + c
    BY <1>1
  <2>4. c * p \in Nat /\ c * q \in Nat /\ c * (p - (q + 1)) \in Int
    BY <1>1, <2>1
  <2> QED
    BY <1>1, <2>2, <2>3, <2>4
<1> QED
  BY <1>1, <1>2 DEF p, q

\* math.Round of frame * 1000 / fps: 0 for the first frame, and never less for a
\* later frame than for an earlier one.
LEMMA RoundDivGrows ==
  ASSUME NEW a \in Nat, NEW b \in Nat, a <= b, NEW c \in Nat \ {0}
  PROVE  /\ RoundDiv(a, c) \in Nat
         /\ RoundDiv(a, c) <= RoundDiv(b, c)
         /\ RoundDiv(0, c) = 0
<1>1. 2 * a + c \in Nat /\ 2 * b + c \in Nat /\ 2 * a + c <= 2 * b + c /\ 2 * c \in Nat \ {0}
  OBVIOUS
<1>2. (2 * a + c) \div (2 * c) \in Nat /\ (2 * a + c) \div (2 * c) <= (2 * b + c) \div (2 * c)
  BY <1>1, Division, DivGrows
<1>3. RoundDiv(0, c) = 0
  <2>1. 2 * 0 + c = c
    OBVIOUS
  <2>2. c \div (2 * c) \in Nat /\ c % (2 * c) \in Nat
        /\ c = 2 * c * (c \div (2 * c)) + (c % (2 * c))
    BY <1>1, Division
  <2>3. c \div (2 * c) = 0
    BY <2>2
  <2> QED
    BY <2>1, <2>3 DEF RoundDiv
<1> QED
  BY <1>2, <1>3 DEF RoundDiv

\* The times of the frames: before the end, and not going backwards.
LEMMA GlobalMsGrows ==
  ASSUME NEW d \in Seq(Int), IsTimeline(d), NEW fps \in Nat \ {0},
         NEW m \in Nat, NEW n \in Nat, m <= n
  PROVE  /\ GlobalMs(d, fps, m) \in Nat
         /\ GlobalMs(d, fps, m) < TotalMs(d)
         /\ GlobalMs(d, fps, m) <= GlobalMs(d, fps, n)
         /\ GlobalMs(d, fps, 0) = 0
<1>1. TotalMs(d) \in Nat \ {0}
  BY TotalMsPositive
<1>2. m * 1000 \in Nat /\ n * 1000 \in Nat /\ m * 1000 <= n * 1000 /\ 0 * 1000 = 0
  OBVIOUS
<1>3. RoundDiv(m * 1000, fps) \in Nat /\ RoundDiv(n * 1000, fps) \in Nat
  BY <1>2, RoundDivGrows
<1>4. RoundDiv(m * 1000, fps) <= RoundDiv(n * 1000, fps) /\ RoundDiv(0 * 1000, fps) = 0
  BY <1>2, RoundDivGrows
<1> QED
  BY <1>1, <1>3, <1>4 DEF GlobalMs, Least

\* SlideOf finds the first slide that is not over, or the last one.
LEMMA SlideOfIs ==
  ASSUME NEW d \in Seq(Int), IsTimeline(d), NEW ms \in Nat
  PROVE  /\ SlideOf(d, ms) \in 1 .. Len(d)
         /\ SlideOf(d, ms) = Len(d) \/ ms < StartMs(d)[SlideOf(d, ms) + 1]
         /\ \A j \in 1 .. SlideOf(d, ms) - 1 : ms >= StartMs(d)[j + 1]
<1> DEFINE Open(i) == i = Len(d) \/ ms < StartMs(d)[i] + d[i]
           Found(i) == Open(i) /\ \A j \in 1 .. i - 1 : ms >= StartMs(d)[j] + d[j]
           Slides == {i \in 1 .. Len(d) : Open(i)}
<1>1. Len(d) \in Nat \ {0} /\ DOMAIN d = 1 .. Len(d)
  BY DEF IsTimeline
<1>2. PICK i \in Slides : \A j \in Slides : i <= j
  <2>1. Len(d) \in Slides /\ Slides \subseteq Nat
    BY <1>1
  <2> QED
    BY <2>1, LeastElement
<1>3. i \in DOMAIN d /\ Open(i)
  BY <1>1
<1>4. ASSUME NEW j \in 1 .. i - 1 PROVE ms >= StartMs(d)[j] + d[j]
  <2>1. j \in 1 .. Len(d) /\ j < i
    BY <1>1, <1>3
  <2>2. j \notin Slides
    <3> HIDE DEF Slides
    <3> QED
      BY <1>1, <1>2, <1>3, <2>1
  <2>3. j \in 1 .. Len(d) + 1
    <3> HIDE DEF Slides
    <3> QED
      BY <1>1, <2>1
  <2>4. StartMs(d)[j] \in Int /\ d[j] \in Int
    BY <2>1, <2>3, StartMsType
  <2> QED
    BY <2>1, <2>2, <2>4
<1>5. SlideOf(d, ms) \in DOMAIN d /\ Found(SlideOf(d, ms))
  <2>1. \E k \in DOMAIN d : Found(k)
    BY <1>3, <1>4
  <2>2. SlideOf(d, ms) = CHOOSE k \in DOMAIN d : Found(k)
    BY DEF SlideOf
  <2> HIDE DEF Found
  <2> QED
    BY <2>1, <2>2
<1> DEFINE s == SlideOf(d, ms)
<1>6. s \in 1 .. Len(d)
  BY <1>1, <1>5
<1>7. Found(s)
  BY <1>5
<1> HIDE DEF s
<1>8. \A j \in 1 .. s - 1 : j \in 1 .. Len(d)
  <2> HIDE DEF Slides, Found
  <2> QED
    BY <1>1, <1>6
<1> QED
  BY <1>6, <1>7, <1>8, StartMsSteps DEF s

\* A time before the end lies in its slide, which is no later than that of a later
\* time; 0 lies in the first slide.
LEMMA SlideOfOrdered ==
  ASSUME NEW d \in Seq(Int), IsTimeline(d),
         NEW s \in Nat, NEW t \in Nat, s <= t, t < TotalMs(d)
  PROVE  /\ StartMs(d)[SlideOf(d, s)] <= s
         /\ s < StartMs(d)[SlideOf(d, s)] + d[SlideOf(d, s)]
         /\ SlideOf(d, s) <= SlideOf(d, t)
         /\ SlideOf(d, 0) = 1
<1> DEFINE i == SlideOf(d, s)
           j == SlideOf(d, t)
           z == SlideOf(d, 0)
           S == StartMs(d)
<1>1. Len(d) \in Nat \ {0}
  BY DEF IsTimeline
<1>2. /\ i \in 1 .. Len(d)
      /\ j \in 1 .. Len(d)
      /\ z \in 1 .. Len(d)
  <2>1. 0 \in Nat
    OBVIOUS
  <2> QED
    BY <2>1, SlideOfIs
<1>3. /\ i = Len(d) \/ s < S[i + 1]
      /\ \A k \in 1 .. i - 1 : s >= S[k + 1]
  BY SlideOfIs
<1>4. j = Len(d) \/ t < S[j + 1]
  BY SlideOfIs
<1>5. \A k \in 1 .. z - 1 : 0 >= S[k + 1]
  BY SlideOfIs
<1>6. S[1] = 0 /\ \A k \in 1 .. Len(d) : S[k + 1] = S[k] + d[k]
  BY StartMsSteps
<1>7. \A k \in 1 .. Len(d) + 1 : S[k] \in Int
  BY StartMsType
<1>8. TotalMs(d) = S[Len(d) + 1]
  BY DEF TotalMs
<1>9. \A k \in 1 .. Len(d) : S[1] < S[k + 1]
  <2> TAKE k \in 1 .. Len(d)
  <2>1. k + 1 \in 1 .. Len(d) + 1 /\ 1 \in 1 .. Len(d) + 1 /\ 1 < k + 1
    BY <1>1
  <2> QED
    BY <2>1, StartMsGrows
<1> HIDE DEF i, j, z, S
<1>10. S[i] <= s
  <2>1. CASE i = 1
    BY <1>6, <2>1
  <2>2. CASE i # 1
    <3>1. i - 1 \in 1 .. i - 1 /\ (i - 1) + 1 = i
      BY <1>1, <1>2, <2>2
    <3> QED
      BY <1>2, <1>3, <1>7, <3>1
  <2> QED
    BY <2>1, <2>2
<1>11. s < S[i] + d[i]
  <2>1. S[i + 1] = S[i] + d[i]
    BY <1>2, <1>6
  <2>2. CASE i = Len(d)
    <3>1. s < TotalMs(d)
      BY TotalMsPositive
    <3> QED
      BY <1>8, <2>1, <2>2, <3>1
  <2> QED
    BY <1>3, <2>1, <2>2
<1>12. ASSUME ~(i <= j) PROVE FALSE
  <2>1. j \in 1 .. i - 1 /\ j # Len(d)
    BY <1>1, <1>2, <1>12
  <2>2. j + 1 \in 1 .. Len(d) + 1
    BY <1>1, <1>2
  <2>3. s >= S[j + 1] /\ t < S[j + 1] /\ S[j + 1] \in Int
    BY <1>3, <1>4, <1>7, <2>1, <2>2
  <2> QED
    BY <2>3
<1>13. ASSUME z # 1 PROVE FALSE
  <2>1. z - 1 \in 1 .. z - 1 /\ z - 1 \in 1 .. Len(d) /\ (z - 1) + 1 = z
        /\ z \in 1 .. Len(d) + 1
    BY <1>1, <1>2, <1>13
  <2>2. 0 >= S[z] /\ S[1] < S[z] /\ S[z] \in Int
    BY <1>5, <1>7, <1>9, <2>1
  <2> QED
    BY <1>6, <2>2
<1>14. i <= j /\ z = 1
  BY <1>2, <1>12, <1>13
<1> QED
  BY <1>10, <1>11, <1>14 DEF i, j, z, S

\* LocateFrame at a positive rate: what FramesInOrder says, for every two frames.
THEOREM LocateFrameInOrder ==
  ASSUME NEW d \in Seq(Int), IsTimeline(d), NEW fps \in Nat \ {0},
         NEW m \in Nat, NEW n \in Nat, m <= n
  PROVE  /\ LocateFrame(d, fps, 0).slide = 1 /\ LocateFrame(d, fps, 0).inMs = 0
         /\ LocateFrame(d, fps, m).inMs >= 0
         /\ LocateFrame(d, fps, m).inMs < LocateFrame(d, fps, m).durMs
         /\ LocateFrame(d, fps, m).globalMs <= LocateFrame(d, fps, n).globalMs
         /\ LocateFrame(d, fps, m).slide <= LocateFrame(d, fps, n).slide
<1> DEFINE s == GlobalMs(d, fps, m)
           t == GlobalMs(d, fps, n)
           i == SlideOf(d, s)
<1>1. s \in Nat /\ t \in Nat /\ s <= t /\ t < TotalMs(d) /\ GlobalMs(d, fps, 0) = 0
  <2>1. s \in Nat /\ s <= t /\ GlobalMs(d, fps, 0) = 0
    BY GlobalMsGrows
  <2>2. n <= n
    OBVIOUS
  <2>3. t \in Nat /\ t < TotalMs(d)
    BY <2>2, GlobalMsGrows
  <2> QED
    BY <2>1, <2>3
<1> HIDE DEF s, t
<1>2. i \in 1 .. Len(d) /\ d[i] \in Int
  <2>1. i \in 1 .. Len(d)
    BY <1>1, SlideOfIs
  <2> HIDE DEF i
  <2> QED
    BY <2>1
<1>3. /\ StartMs(d)[i] <= s /\ s < StartMs(d)[i] + d[i]
      /\ i <= SlideOf(d, t) /\ SlideOf(d, 0) = 1
  BY <1>1, SlideOfOrdered
<1> HIDE DEF i
<1>4. StartMs(d)[i] \in Int
  <2>1. i \in 1 .. Len(d) + 1
    BY <1>2
  <2> QED
    BY <2>1, StartMsType
<1>5. s - StartMs(d)[i] >= 0 /\ s - StartMs(d)[i] < d[i]
  BY <1>1, <1>2, <1>3, <1>4
<1>6. /\ LocateFrame(d, fps, m).slide = i /\ LocateFrame(d, fps, m).globalMs = s
      /\ LocateFrame(d, fps, m).inMs = s - StartMs(d)[i]
      /\ LocateFrame(d, fps, m).durMs = d[i]
  BY DEF LocateFrame, s, i
<1>7. LocateFrame(d, fps, n).slide = SlideOf(d, t) /\ LocateFrame(d, fps, n).globalMs = t
  BY DEF LocateFrame, t
<1>8. LocateFrame(d, fps, 0).slide = 1 /\ LocateFrame(d, fps, 0).inMs = 0
  <2>1. /\ LocateFrame(d, fps, 0).slide = SlideOf(d, GlobalMs(d, fps, 0))
        /\ LocateFrame(d, fps, 0).inMs =
             GlobalMs(d, fps, 0) - StartMs(d)[SlideOf(d, GlobalMs(d, fps, 0))]
    BY DEF LocateFrame
  <2> QED
    BY <1>1, <1>3, <2>1, StartMsSteps
<1> QED
  BY <1>1, <1>3, <1>5, <1>6, <1>7, <1>8

-----------------------------------------------------------------------------
(* How a request is resolved.                                                  *)

\* TotalFrames is the least number of frames that lasts as long as the slides.
LEMMA TotalFramesFit ==
  ASSUME NEW d \in Seq(Int), IsTimeline(d), NEW fps \in Nat \ {0}
  PROVE  /\ TotalFrames(d, fps) \in Nat \ {0}
         /\ TotalFrames(d, fps) * 1000 >= TotalMs(d) * fps
         /\ (TotalFrames(d, fps) - 1) * 1000 < TotalMs(d) * fps
<1> DEFINE a == TotalMs(d) * fps
<1>1. a \in Nat /\ a > 0
  BY TotalMsPositive
<1>2. TotalFrames(d, fps) = (a + 1000 - 1) \div 1000
  BY DEF TotalFrames, CeilDiv
<1> HIDE DEF a
<1> QED
  BY <1>1, <1>2 DEF a

\* The recursive definition of Announced defines a function.
LEMMA KeptExists ==
  ASSUME NEW ms \in Seq(Int), NEW n \in Nat
  PROVE  \E g : g = [i \in 0 .. n |->
                       IF i = 0 THEN << >>
                       ELSE IF ms[i] > 0 THEN Append(g[i - 1], ms[i])
                       ELSE g[i - 1]]
<1> DEFINE Fits(g, k) ==
      g = [i \in 0 .. k |->
             IF i = 0 THEN << >>
             ELSE IF ms[i] > 0 THEN Append(g[i - 1], ms[i])
             ELSE g[i - 1]]
<1> DEFINE Bad == {k \in Nat : ~ \E g : Fits(g, k)}
<1> SUFFICES ASSUME Bad # {} PROVE FALSE
  OBVIOUS
<1>1. PICK k \in Bad : \A j \in Bad : k <= j
  BY LeastElement
<1>2. k \in Nat
  OBVIOUS
<1>3. k # 0
  <2>1. Fits([i \in 0 .. 0 |-> << >>], 0)
    OBVIOUS
  <2> QED
    BY <2>1
<1>4. k - 1 \in Nat /\ k - 1 \notin Bad
  <2> HIDE DEF Bad
  <2> QED
    BY <1>1, <1>2, <1>3
<1>5. PICK g : Fits(g, k - 1)
  BY <1>4
<1> DEFINE h == [i \in 0 .. k |->
                   IF i < k THEN g[i]
                   ELSE IF ms[k] > 0 THEN Append(g[k - 1], ms[k])
                   ELSE g[k - 1]]
<1>6. ASSUME NEW i \in 0 .. k
      PROVE  h[i] = IF i = 0 THEN << >>
                    ELSE IF ms[i] > 0 THEN Append(h[i - 1], ms[i])
                    ELSE h[i - 1]
  <2>1. CASE i = 0
    BY <1>2, <1>3, <1>5, <2>1
  <2>2. CASE i # 0
    <3>1. i - 1 \in 0 .. k /\ i - 1 < k
      BY <1>2, <2>2
    <3>2. h[i - 1] = g[i - 1]
      BY <3>1
    <3>3. CASE i < k
      <4>1. i \in 0 .. k - 1 /\ h[i] = g[i]
        BY <1>2, <3>3
      <4>2. g[i] = IF ms[i] > 0 THEN Append(g[i - 1], ms[i]) ELSE g[i - 1]
        BY <1>5, <2>2, <4>1
      <4> HIDE DEF h
      <4> QED
        BY <2>2, <3>2, <4>1, <4>2
    <3>4. CASE i = k
      BY <1>2, <2>2, <3>2, <3>4
    <3> QED
      BY <1>2, <3>3, <3>4
  <2> QED
    BY <2>1, <2>2
<1>7. Fits(h, k)
  BY <1>6
<1> QED
  BY <1>7

\* What is kept of the durations that a page announces are positive integers.
LEMMA AnnouncedPositive ==
  ASSUME NEW r \in Request
  PROVE  /\ Announced(r) \in Seq(Int)
         /\ \A i \in DOMAIN Announced(r) : Announced(r)[i] > 0
<1> DEFINE ms == r.metaMs
           n == Len(ms)
           Fits(g) == g = [i \in 0 .. n |->
                             IF i = 0 THEN << >>
                             ELSE IF ms[i] > 0 THEN Append(g[i - 1], ms[i])
                             ELSE g[i - 1]]
           Positive == {x \in Int : x > 0}
<1>1. ms \in Seq(Int) /\ n \in Nat
  BY DEF Request
<1>2. \E g : Fits(g)
  BY <1>1, KeptExists
<1>3. PICK g : Fits(g) /\ Announced(r) = g[n]
  <2>1. Announced(r) = (CHOOSE g : Fits(g))[n]
    BY DEF Announced
  <2> QED
    BY <1>2, <2>1
<1> HIDE DEF ms, n
<1> DEFINE Bad == {k \in 0 .. n : g[k] \notin Seq(Positive)}
<1>4. ASSUME Bad # {} PROVE FALSE
  <2>0. Bad \subseteq Nat
    BY <1>1
  <2>1. PICK k \in Bad : \A j \in Bad : k <= j
    BY <1>4, <2>0, LeastElement
  <2>2. k \in 0 .. n /\ g[k] \notin Seq(Positive)
    OBVIOUS
  <2>3. k # 0
    BY <1>1, <1>3, <2>2
  <2>4. k - 1 \in 0 .. n /\ k - 1 \notin Bad
    <3> HIDE DEF Bad
    <3> QED
      BY <1>1, <2>1, <2>2, <2>3
  <2>5. g[k - 1] \in Seq(Positive)
    BY <2>4
  <2>6. ms[k] \in Int
    <3> HIDE DEF Bad, Fits
    <3>1. k \in 1 .. Len(ms)
      BY <1>1, <2>2, <2>3 DEF n
    <3> QED
      BY <1>1, <3>1
  <2>7. g[k] = IF ms[k] > 0 THEN Append(g[k - 1], ms[k]) ELSE g[k - 1]
    BY <1>1, <1>3, <2>2, <2>3, <2>6
  <2> QED
    BY <2>2, <2>5, <2>6, <2>7
<1>5. g[n] \in Seq(Positive)
  BY <1>1, <1>4
<1> HIDE DEF Fits, Bad
<1>6. g[n] \in Seq(Int) /\ \A i \in DOMAIN g[n] : g[n][i] \in Positive
  BY <1>5
<1> QED
  BY <1>3, <1>6

\* Without a given number of frames a request is resolved from a timeline, at a
\* positive rate, or not at all; a given number of frames is kept.
LEMMA ResolveDurationIs ==
  ASSUME NEW r \in Request
  PROVE  \/ /\ r.frames > 0
            /\ ResolveDuration(r) = [frames |-> r.frames, durations |-> r.ownMs]
         \/ r.frames <= 0 /\ ResolveDuration(r) = Unresolved
         \/ /\ r.frames <= 0
            /\ r.fps > 0
            /\ \E d \in Seq(Int) :
                 /\ IsTimeline(d)
                 /\ ResolveDuration(r) = [frames |-> TotalFrames(d, r.fps), durations |-> d]
<1> DEFINE Slides(d) == d \in Seq(Int) /\ \A i \in DOMAIN d : d[i] > 0
           Goal(x) == \/ x = Unresolved
                      \/ /\ r.fps > 0
                         /\ \E d \in Seq(Int) :
                              /\ IsTimeline(d)
                              /\ x = [frames |-> TotalFrames(d, r.fps), durations |-> d]
<1>1. /\ r.frames \in Int /\ r.fps \in Int /\ r.manualMs \in Seq(Int) /\ r.defaultMs \in Int
      /\ r.slides \in Int /\ r.perSlideMs \in Int /\ r.metaTotal \in Int
  BY DEF Request
<1>2. ASSUME NEW d, Slides(d) PROVE Goal(FromDurations(d, r.fps))
  <2>1. CASE d = << >> \/ r.fps <= 0
    BY <2>1 DEF FromDurations
  <2>2. CASE ~(d = << >> \/ r.fps <= 0)
    <3>1. IsTimeline(d) /\ r.fps > 0
      BY <1>1, <1>2, <2>2 DEF IsTimeline
    <3>2. FromDurations(d, r.fps) = [frames |-> TotalFrames(d, r.fps), durations |-> d]
      BY <2>2 DEF FromDurations
    <3> QED
      BY <1>2, <3>1, <3>2
  <2> QED
    BY <2>1, <2>2
<1>3. DefaultMs(r) \in Int /\ DefaultMs(r) > 0
  BY <1>1 DEF DefaultMs
<1>4. Slides(Normalized(r.manualMs, DefaultMs(r)))
  <2> DEFINE m == r.manualMs
             p == Normalized(m, DefaultMs(r))
  <2>1. p = [i \in 1 .. Len(m) |-> IF m[i] > 0 THEN m[i] ELSE DefaultMs(r)]
    BY <1>1 DEF Normalized
  <2>2. \A i \in 1 .. Len(m) : m[i] \in Int
    BY <1>1
  <2>3. Len(m) \in Nat
    BY <1>1
  <2> HIDE DEF m, p
  <2>4. p \in [1 .. Len(m) -> Int]
    BY <1>3, <2>1, <2>2
  <2> QED
    BY <1>3, <2>1, <2>2, <2>3, <2>4 DEF p, m
<1>5. Slides(FixedDurations(r))
  <2> DEFINE m == IF r.perSlideMs > 0 THEN r.perSlideMs ELSE DefaultMs(r)
             n == IF r.slides > 0 THEN r.slides ELSE 0
  <2>1. m \in Int /\ m > 0 /\ n \in Nat /\ 1 .. r.slides = 1 .. n
    BY <1>1, <1>3
  <2>2. FixedDurations(r) = [i \in 1 .. r.slides |-> m]
    BY DEF FixedDurations
  <2> HIDE DEF m, n
  <2>3. FixedDurations(r) = [i \in 1 .. n |-> m]
    BY <2>1, <2>2
  <2> QED
    BY <2>1, <2>3
<1>6. Slides(Announced(r))
  BY AnnouncedPositive
<1>7. r.metaTotal > 0 => Slides(<<r.metaTotal>>)
  BY <1>1
<1> HIDE DEF Slides, Goal
<1>8. CASE r.frames > 0
  BY <1>1, <1>8 DEF ResolveDuration
<1>9. CASE r.frames <= 0
  <2> SUFFICES Goal(ResolveDuration(r))
    BY <1>9 DEF Goal
  <2>1. CASE r.source \notin {"manual", "fixed", "auto"}
    BY <1>1, <1>9, <2>1 DEF ResolveDuration, Goal
  <2>2. CASE r.source = "manual"
    <3>1. ResolveDuration(r) = FromDurations(Normalized(r.manualMs, DefaultMs(r)), r.fps)
      BY <1>1, <1>9, <2>2 DEF ResolveDuration
    <3> QED
      BY <1>2, <1>4, <3>1
  <2>3. CASE r.source = "fixed"
    <3>1. ResolveDuration(r) = FromDurations(FixedDurations(r), r.fps)
      BY <1>1, <1>9, <2>3 DEF ResolveDuration
    <3> QED
      BY <1>2, <1>5, <3>1
  <2>4. CASE r.source = "auto"
    <3>1. \/ ResolveDuration(r) = FromDurations(Announced(r), r.fps)
          \/ r.metaTotal > 0 /\ ResolveDuration(r) = FromDurations(<<r.metaTotal>>, r.fps)
          \/ ResolveDuration(r) = FromDurations(FixedDurations(r), r.fps)
      BY <1>1, <1>9, <2>4 DEF ResolveDuration
    <3> QED
      BY <1>2, <1>5, <1>6, <1>7, <3>1
  <2> QED
    BY <2>1, <2>2, <2>3, <2>4
<1> QED
  BY <1>1, <1>8, <1>9

-----------------------------------------------------------------------------
(* Shards. *)

\* There is a shard, and none has to be empty.
LEMMA CountType ==
  ASSUME NEW total \in Nat \ {0}, NEW wanted \in Nat \ {0}
  PROVE  /\ ShardCount(total, wanted) \in Nat \ {0}
         /\ ShardCount(total, wanted) <= total
         /\ ShardCount(total, wanted) <= wanted
  BY DEF ShardCount, Least

\* A shard has the base size or, if it is one of the first, one frame more: what
\* the loop of BuildShards adds to start.
LEMMA ShardSize ==
  ASSUME NEW total \in Nat \ {0}, NEW count \in Nat \ {0}, NEW i \in Nat
  PROVE  /\ ShardStart(total, count, i) \in Nat
         /\ ShardStart(total, count, i + 1) =
              ShardStart(total, count, i) + (total \div count)
                + (IF i < total % count THEN 1 ELSE 0)
<1> DEFINE base == total \div count
           extra == total % count
<1>1. base \in Nat /\ extra \in Nat
  BY Division
<1> HIDE DEF base, extra
<1>2. i * base \in Nat /\ (i + 1) * base = i * base + base
  BY <1>1
<1>3. Least(i + 1, extra) = Least(i, extra) + (IF i < extra THEN 1 ELSE 0)
  BY <1>1 DEF Least
<1>4. Least(i, extra) \in Nat
  BY <1>1 DEF Least
<1>5. /\ ShardStart(total, count, i) = i * base + Least(i, extra)
      /\ ShardStart(total, count, i + 1) = (i + 1) * base + Least(i + 1, extra)
  BY DEF ShardStart, base, extra
<1>6. ShardStart(total, count, i) \in Nat
  BY <1>2, <1>4, <1>5
<1>7. ShardStart(total, count, i + 1) =
        ShardStart(total, count, i) + base + (IF i < extra THEN 1 ELSE 0)
  BY <1>1, <1>2, <1>3, <1>4, <1>5
<1> QED
  BY <1>6, <1>7 DEF base, extra

\* The loop begins at the first frame and ends behind the last one.
LEMMA ShardEnds ==
  ASSUME NEW total \in Nat \ {0}, NEW count \in Nat \ {0}
  PROVE  /\ ShardStart(total, count, 0) = 0
         /\ ShardStart(total, count, count) = total
<1> DEFINE base == total \div count
           extra == total % count
<1>1. base \in Nat /\ extra \in Nat /\ extra < count /\ total = count * base + extra
  BY Division
<1> HIDE DEF base, extra
<1>2. Least(0, extra) = 0 /\ Least(count, extra) = extra
  BY <1>1 DEF Least
<1>3. /\ ShardStart(total, count, 0) = 0 * base + Least(0, extra)
      /\ ShardStart(total, count, count) = count * base + Least(count, extra)
  BY DEF ShardStart, base, extra
<1> QED
  BY <1>1, <1>2, <1>3

\* With no more shards than frames, the base size is positive.
LEMMA BasePositive ==
  ASSUME NEW total \in Nat \ {0}, NEW count \in Nat \ {0}, count <= total
  PROVE  total \div count \in Nat \ {0}
<1>1. /\ total \div count \in Nat
      /\ total % count < count /\ total % count \in Nat
      /\ total = count * (total \div count) + (total % count)
  BY Division
<1>2. total \div count # 0
  <2> SUFFICES ASSUME total \div count = 0 PROVE FALSE
    OBVIOUS
  <2>1. count * (total \div count) = 0
    OBVIOUS
  <2> QED
    BY <1>1, <2>1
<1> QED
  BY <1>1, <1>2

\* BuildShards of internal/distributed/shards.go: the shards begin at frame 0, each
\* begins where the one before ends, the last one ends at the last frame, and none
\* is empty or more than a frame longer than another; they are at most as many as
\* were asked for.
THEOREM ShardsTile ==
  ASSUME NEW total \in Nat \ {0}, NEW wanted \in Nat \ {0}
  PROVE  LET shards == BuildShards(total, wanted)
             count == ShardCount(total, wanted)
         IN /\ count \in 1 .. wanted
            /\ shards[0].start = 0
            /\ shards[count - 1].end = total - 1
            /\ \A i \in 1 .. count - 1 : shards[i].start = shards[i - 1].end + 1
            /\ \A i \in 0 .. count - 1 :
                 FrameCount(shards[i]) \in {total \div count, total \div count + 1} \ {0}
<1> DEFINE count == ShardCount(total, wanted)
           shards == BuildShards(total, wanted)
           start(i) == ShardStart(total, count, i)
<1>1. count \in Nat \ {0} /\ count <= total /\ count <= wanted
  BY CountType
<1> HIDE DEF count
<1>2. \A i \in 0 .. count - 1 :
        shards[i].start = start(i) /\ shards[i].end = start(i + 1) - 1
  BY DEF BuildShards, count
<1>3. start(0) = 0 /\ start(count) = total
  BY <1>1, ShardEnds
<1>4. \A i \in Nat :
        /\ start(i) \in Nat
        /\ start(i + 1) = start(i) + (total \div count)
                            + (IF i < total % count THEN 1 ELSE 0)
  BY <1>1, ShardSize
<1>5. total \div count \in Nat \ {0}
  BY <1>1, BasePositive
<1> HIDE DEF shards, start
<1>6. shards[0].start = 0
  BY <1>1, <1>2, <1>3
<1>7. shards[count - 1].end = total - 1
  <2>1. count - 1 \in 0 .. count - 1 /\ (count - 1) + 1 = count
    BY <1>1
  <2> QED
    BY <1>2, <1>3, <2>1
<1>8. ASSUME NEW i \in 1 .. count - 1
      PROVE  shards[i].start = shards[i - 1].end + 1
  <2>1. i \in 0 .. count - 1 /\ i - 1 \in 0 .. count - 1 /\ (i - 1) + 1 = i /\ i \in Nat
    BY <1>1
  <2>2. shards[i].start = start(i) /\ shards[i - 1].end = start(i) - 1
    BY <1>2, <2>1
  <2> QED
    BY <1>4, <2>1, <2>2
<1>9. ASSUME NEW i \in 0 .. count - 1
      PROVE  FrameCount(shards[i]) \in {total \div count, total \div count + 1} \ {0}
  <2>1. i \in Nat /\ shards[i].start = start(i) /\ shards[i].end = start(i + 1) - 1
    BY <1>1, <1>2
  <2>2. start(i) \in Nat /\ start(i + 1) \in Nat /\ start(i + 1) - 1 >= start(i)
    BY <1>4, <1>5, <2>1
  <2>3. FrameCount(shards[i]) = start(i + 1) - start(i)
    BY <2>1, <2>2 DEF FrameCount
  <2> QED
    BY <1>4, <1>5, <2>1, <2>3
<1> QED
  BY <1>1, <1>6, <1>7, <1>8, <1>9 DEF shards, count

-----------------------------------------------------------------------------
(* What the videos show.                                                       *)

\* A place of a render shows a frame that is not later and less than a step earlier;
\* the last place shows the last frame.
LEMMA HeldBounds ==
  ASSUME NEW frames \in Nat \ {0}, NEW n \in 0 .. frames - 1, step \in Nat \ {0}
  PROVE  /\ Held(frames, n) \in Nat
         /\ Held(frames, n) <= n
         /\ Held(frames, n) > n - step
         /\ Held(frames, frames - 1) = frames - 1
<1>1. /\ n \div step \in Nat /\ n % step \in Nat /\ n % step < step
      /\ n = step * (n \div step) + (n % step)
  BY Division
<1>2. (n \div step) * step = step * (n \div step) /\ (n \div step) * step \in Nat
  BY <1>1
<1> QED
  BY <1>1, <1>2 DEF Held

\* The video of shard i.
ShardVideo(i) ==
  [n \in 1 .. FrameCount(Plan[i]) |-> Plan[i].start + Held(FrameCount(Plan[i]), n - 1)]

\* The numbers of frames before shard i, and of shards.
Begin(i) == ShardStart(whole.frames, ShardCount(whole.frames, asked), i)
Shards == ShardCount(whole.frames, asked)

\* The plan, by the starts of its shards.
LEMMA PlanIs ==
  ASSUME whole.frames \in Nat \ {0}, asked \in Nat \ {0}
  PROVE  /\ Shards \in Nat \ {0}
         /\ DOMAIN Plan = 0 .. Shards - 1
         /\ Begin(0) = 0
         /\ Begin(Shards) = whole.frames
         /\ \A i \in 0 .. Shards - 1 :
              /\ Begin(i) \in Nat /\ Begin(i + 1) \in Nat
              /\ Plan[i].start = Begin(i)
              /\ FrameCount(Plan[i]) = Begin(i + 1) - Begin(i)
              /\ FrameCount(Plan[i]) \in Nat \ {0}
<1>1. Shards \in Nat \ {0} /\ Shards <= whole.frames
  BY CountType DEF Shards
<1>2. Begin(0) = 0 /\ Begin(Shards) = whole.frames
  BY <1>1, ShardEnds DEF Begin, Shards
<1>3. whole.frames \div Shards \in Nat \ {0}
  BY <1>1, BasePositive
<1>4. ASSUME NEW i \in 0 .. Shards - 1
      PROVE  Begin(i) \in Nat /\ Begin(i + 1) \in Nat /\ Begin(i) < Begin(i + 1)
  <2>1. i \in Nat /\ i + 1 \in Nat
    BY <1>1
  <2>2. /\ Begin(i) \in Nat /\ Begin(i + 1) \in Nat
        /\ Begin(i + 1) = Begin(i) + (whole.frames \div Shards)
                            + (IF i < whole.frames % Shards THEN 1 ELSE 0)
    BY <1>1, <2>1, ShardSize DEF Begin, Shards
  <2> QED
    BY <1>3, <2>2
<1>5. Plan = [i \in 0 .. Shards - 1 |-> [start |-> Begin(i), end |-> Begin(i + 1) - 1]]
  BY DEF Plan, BuildShards, Begin, Shards
<1>6. ASSUME NEW i \in 0 .. Shards - 1
      PROVE  /\ Plan[i].start = Begin(i)
             /\ FrameCount(Plan[i]) = Begin(i + 1) - Begin(i)
  <2>1. Plan[i].start = Begin(i) /\ Plan[i].end = Begin(i + 1) - 1
    BY <1>5
  <2> QED
    BY <1>4, <2>1 DEF FrameCount
<1> QED
  BY <1>1, <1>2, <1>4, <1>5, <1>6

\* A shard's video has the shard's frames and is a sequence that is not empty.
LEMMA ShardVideoIs ==
  ASSUME whole.frames \in Nat \ {0}, asked \in Nat \ {0}, step \in Nat \ {0},
         NEW i \in 0 .. Shards - 1
  PROVE  /\ ShardVideo(i) \in Seq(Nat)
         /\ Len(ShardVideo(i)) = Begin(i + 1) - Begin(i)
         /\ ShardVideo(i) # NoFile
         /\ \A n \in 1 .. Begin(i + 1) - Begin(i) :
              /\ ShardVideo(i)[n] < Begin(i) + n
              /\ ShardVideo(i)[n] >= Begin(i) + n - step
         /\ ShardVideo(i)[Begin(i + 1) - Begin(i)] = Begin(i + 1) - 1
<1> DEFINE len == FrameCount(Plan[i])
           b == Begin(i)
           v == ShardVideo(i)
<1>1. b \in Nat /\ Begin(i + 1) = b + len /\ len \in Nat \ {0} /\ Plan[i].start = b
  BY PlanIs
<1>2. v = [n \in 1 .. len |-> b + Held(len, n - 1)]
  BY <1>1 DEF ShardVideo
<1> HIDE DEF len, b, v
<1>3. ASSUME NEW n \in 1 .. len
      PROVE  v[n] \in Nat /\ v[n] < b + n /\ v[n] >= b + n - step
  <2>1. n - 1 \in 0 .. len - 1
    BY <1>1
  <2>2. Held(len, n - 1) \in Nat /\ Held(len, n - 1) <= n - 1 /\ Held(len, n - 1) > n - 1 - step
    BY <1>1, <2>1, HeldBounds
  <2> QED
    BY <1>1, <1>2, <2>2
<1>4. v[len] = b + len - 1
  <2>1. len - 1 \in 0 .. len - 1 /\ len \in 1 .. len
    BY <1>1
  <2>2. Held(len, len - 1) = len - 1
    BY <1>1, <2>1, HeldBounds
  <2> QED
    BY <1>1, <1>2, <2>1, <2>2
<1>5. v \in [1 .. len -> Nat]
  BY <1>2, <1>3
<1>6. v \in Seq(Nat) /\ Len(v) = len
  BY <1>1, <1>5
<1>7. v # NoFile
  BY <1>1, <1>6 DEF NoFile
<1>8. Begin(i + 1) - Begin(i) = len /\ Begin(i + 1) - 1 = b + len - 1
  BY <1>1 DEF b
<1> QED
  BY <1>3, <1>4, <1>6, <1>7, <1>8 DEF v, b

\* The recursive definition of FlattenSeq defines a function.
LEMMA FlattenExists ==
  ASSUME NEW s, NEW n \in Nat
  PROVE  \E g : g = [i \in 1 .. n |-> IF i = 1 THEN s[i] ELSE g[i - 1] \o s[i]]
<1> DEFINE Fits(g, k) == g = [i \in 1 .. k |-> IF i = 1 THEN s[i] ELSE g[i - 1] \o s[i]]
<1> DEFINE Bad == {k \in Nat : ~ \E g : Fits(g, k)}
<1> SUFFICES ASSUME Bad # {} PROVE FALSE
  OBVIOUS
<1>1. PICK k \in Bad : \A j \in Bad : k <= j
  BY LeastElement
<1>2. k \in Nat
  OBVIOUS
<1>3. k # 0
  <2>1. Fits(<< >>, 0)
    OBVIOUS
  <2> QED
    BY <2>1
<1>4. k - 1 \in Nat /\ k - 1 \notin Bad
  <2> HIDE DEF Bad
  <2> QED
    BY <1>1, <1>2, <1>3
<1>5. PICK g : Fits(g, k - 1)
  BY <1>4
<1> DEFINE h == [i \in 1 .. k |-> IF i < k THEN g[i]
                                  ELSE IF i = 1 THEN s[i] ELSE g[i - 1] \o s[i]]
<1>6. ASSUME NEW i \in 1 .. k
      PROVE  h[i] = IF i = 1 THEN s[i] ELSE h[i - 1] \o s[i]
  <2>1. i # 1 => i - 1 \in 1 .. k /\ i - 1 < k
    BY <1>2
  <2>2. i # 1 => h[i - 1] = g[i - 1]
    BY <2>1
  <2>3. CASE i < k
    <3>1. i \in 1 .. k - 1 /\ h[i] = g[i]
      BY <1>2, <2>3
    <3>2. g[i] = IF i = 1 THEN s[i] ELSE g[i - 1] \o s[i]
      BY <1>5, <3>1
    <3> HIDE DEF h
    <3> QED
      BY <2>2, <3>1, <3>2
  <2>4. CASE i = k
    <3>1. h[i] = IF i = 1 THEN s[i] ELSE g[i - 1] \o s[i]
      BY <1>2, <2>4
    <3> HIDE DEF h
    <3> QED
      BY <2>2, <3>1
  <2> QED
    BY <1>2, <2>3, <2>4
<1>7. Fits(h, k)
  BY <1>6
<1> QED
  BY <1>7

\* FlattenSeq joins one sequence after the other.
LEMMA FlattenSteps ==
  ASSUME NEW s, Len(s) \in Nat \ {0}
  PROVE  \E f : /\ FlattenSeq(s) = f[Len(s)]
                /\ f[1] = s[1]
                /\ \A i \in 2 .. Len(s) : f[i] = f[i - 1] \o s[i]
<1> DEFINE Fits(g) == g = [i \in 1 .. Len(s) |-> IF i = 1 THEN s[i] ELSE g[i - 1] \o s[i]]
           f == CHOOSE g : Fits(g)
<1>1. Fits(f)
  <2>1. \E g : Fits(g)
    BY FlattenExists
  <2> QED
    BY <2>1
<1>2. FlattenSeq(s) = f[Len(s)]
  BY DEF FlattenSeq
<1> HIDE DEF f
<1>3. f[1] = s[1]
  BY <1>1
<1>4. ASSUME NEW i \in 2 .. Len(s) PROVE f[i] = f[i - 1] \o s[i]
  <2>1. i \in 1 .. Len(s) /\ i # 1
    OBVIOUS
  <2> QED
    BY <1>1, <2>1
<1> QED
  BY <1>2, <1>3, <1>4

\* A video that shows what it should up to some frame.
Shows(v, n) ==
  /\ v \in Seq(Nat)
  /\ Len(v) = n
  /\ \A k \in 1 .. n : v[k] < k /\ v[k] >= k - step
  /\ v[n] = n - 1

\* What a joined sequence consists of.
LEMMA Concatenation ==
  ASSUME NEW v \in Seq(Nat), NEW w \in Seq(Nat)
  PROVE  /\ v \o w \in Seq(Nat)
         /\ Len(v \o w) = Len(v) + Len(w)
         /\ \A k \in 1 .. Len(v) : (v \o w)[k] = v[k]
         /\ \A n \in 1 .. Len(w) : (v \o w)[Len(v) + n] = w[n]
  OBVIOUS

\* Joining a shard's video to what shows the frames before it shows the frames up
\* to the shard's end.
LEMMA ShardAppended ==
  ASSUME whole.frames \in Nat \ {0}, asked \in Nat \ {0}, step \in Nat \ {0},
         NEW i \in 0 .. Shards - 1, NEW v, Shows(v, Begin(i))
  PROVE  Shows(v \o ShardVideo(i), Begin(i + 1))
<1> DEFINE a == Begin(i)
           b == Begin(i + 1)
           w == ShardVideo(i)
<1>1. a \in Nat /\ b \in Nat /\ b - a \in Nat \ {0}
  BY PlanIs
<1>2. /\ w \in Seq(Nat) /\ Len(w) = b - a
      /\ \A n \in 1 .. b - a : w[n] < a + n /\ w[n] >= a + n - step
      /\ w[b - a] = b - 1
  BY ShardVideoIs
<1>3. /\ v \in Seq(Nat) /\ Len(v) = a
      /\ \A k \in 1 .. a : v[k] < k /\ v[k] >= k - step
  BY DEF Shows
<1> HIDE DEF a, b, w
<1>4. /\ v \o w \in Seq(Nat) /\ Len(v \o w) = a + (b - a)
      /\ \A k \in 1 .. a : (v \o w)[k] = v[k]
      /\ \A n \in 1 .. b - a : (v \o w)[a + n] = w[n]
  <2>1. /\ v \o w \in Seq(Nat) /\ Len(v \o w) = Len(v) + Len(w)
        /\ \A k \in 1 .. Len(v) : (v \o w)[k] = v[k]
        /\ \A n \in 1 .. Len(w) : (v \o w)[Len(v) + n] = w[n]
    BY <1>2, <1>3, Concatenation
  <2>2. Len(v) = a /\ Len(w) = b - a
    BY <1>2, <1>3
  <2> QED
    BY <2>1, <2>2, Zenon
<1> DEFINE u == v \o w
<1> HIDE DEF u
<1>5. ASSUME NEW k \in 1 .. b PROVE u[k] < k /\ u[k] >= k - step
  <2>1. CASE k <= a
    <3>1. u[k] = v[k] /\ k \in 1 .. a
      BY <1>1, <1>4, <2>1 DEF u
    <3> QED
      BY <1>3, <3>1
  <2>2. CASE k > a
    <3>1. PICK n \in 1 .. b - a : k = a + n
      <4>1. k - a \in 1 .. b - a /\ k = a + (k - a)
        BY <1>1, <2>2
      <4> QED
        BY <4>1
    <3>2. u[a + n] = w[n] /\ w[n] < a + n /\ w[n] >= a + n - step
      BY <1>2, <1>4 DEF u
    <3>3. u[k] = w[n]
      BY <3>1, <3>2, Zenon
    <3>4. n \in 1 .. Len(w) /\ k \in Nat
      BY <1>1, <1>2
    <3>5. w[n] \in Nat
      BY <1>2, <3>4
    <3> QED
      BY <1>1, <3>1, <3>2, <3>3, <3>4, <3>5
  <2> QED
    BY <1>1, <2>1, <2>2
<1>6. u[b] = b - 1
  <2>1. b - a \in 1 .. b - a /\ a + (b - a) = b
    BY <1>1
  <2>2. u[a + (b - a)] = w[b - a]
    BY <1>4, <2>1 DEF u
  <2> QED
    BY <1>2, <2>1, <2>2
<1>7. u \in Seq(Nat) /\ Len(u) = b
  BY <1>1, <1>4 DEF u
<1>8. Shows(u, b)
  BY <1>5, <1>6, <1>7 DEF Shows
<1> QED
  BY <1>8 DEF u, a, b, w

\* The shards' videos, joined, show the whole video.
LEMMA JoinedShows ==
  ASSUME whole.frames \in Nat \ {0}, asked \in Nat \ {0}, step \in Nat \ {0},
         DOMAIN files = DOMAIN Plan,
         \A i \in DOMAIN Plan : files[i] = ShardVideo(i)
  PROVE  Shows(Joined, whole.frames)
<1> DEFINE s == [i \in 1 .. Cardinality(DOMAIN files) |-> files[i - 1]]
<1>1. Shards \in Nat \ {0} /\ DOMAIN files = 0 .. Shards - 1
  BY PlanIs
<1>2. Cardinality(DOMAIN files) = Shards
  BY <1>1, FS_Interval
<1>3. Len(s) = Shards /\ \A i \in 1 .. Shards : s[i] = ShardVideo(i - 1)
  <2>1. s = [i \in 1 .. Shards |-> files[i - 1]]
    BY <1>2
  <2>2. \A i \in 1 .. Shards : i - 1 \in DOMAIN Plan
    BY <1>1
  <2> HIDE DEF s
  <2> QED
    BY <1>1, <2>1, <2>2
<1>4. Joined = FlattenSeq(s)
  BY DEF Joined
<1> HIDE DEF s
<1>5. PICK f : /\ FlattenSeq(s) = f[Len(s)]
               /\ f[1] = s[1]
               /\ \A i \in 2 .. Len(s) : f[i] = f[i - 1] \o s[i]
  <2>1. Len(s) \in Nat \ {0}
    BY <1>1, <1>3
  <2> QED
    BY <2>1, FlattenSteps
<1> DEFINE Bad == {i \in 1 .. Shards : ~Shows(f[i], Begin(i))}
<1>6. ASSUME Bad # {} PROVE FALSE
  <2>0. Bad \subseteq Nat
    BY <1>1
  <2>1. PICK k \in Bad : \A j \in Bad : k <= j
    BY <1>6, <2>0, LeastElement
  <2>2. k \in 1 .. Shards /\ ~Shows(f[k], Begin(k))
    OBVIOUS
  <2>3. k - 1 \in 0 .. Shards - 1 /\ (k - 1) + 1 = k /\ k \in Int
    BY <1>1, <2>2
  <2>4. CASE k = 1
    <3>1. f[1] = ShardVideo(0) /\ Begin(0) = 0
      BY <1>1, <1>3, <1>5, PlanIs
    <3>2. 0 \in 0 .. Shards - 1 /\ 0 + 1 = 1
      BY <1>1
    <3>3. Begin(1) \in Nat \ {0}
      <4>1. Begin(0 + 1) - Begin(0) \in Nat \ {0} /\ Begin(0 + 1) \in Nat
        BY <3>2, PlanIs
      <4> QED
        BY <3>1, <3>2, <4>1
    <3>4. /\ ShardVideo(0) \in Seq(Nat)
          /\ Len(ShardVideo(0)) = Begin(0 + 1) - Begin(0)
          /\ \A n \in 1 .. Begin(0 + 1) - Begin(0) :
               ShardVideo(0)[n] < Begin(0) + n /\ ShardVideo(0)[n] >= Begin(0) + n - step
          /\ ShardVideo(0)[Begin(0 + 1) - Begin(0)] = Begin(0 + 1) - 1
      BY <3>2, ShardVideoIs
    <3>5. Begin(0 + 1) - Begin(0) = Begin(1) /\ \A n \in Nat : Begin(0) + n = n
      BY <3>1, <3>3
    <3>6. Shows(ShardVideo(0), Begin(1))
      BY <3>3, <3>4, <3>5 DEF Shows
    <3> QED
      BY <2>2, <2>4, <3>1, <3>6
  <2>5. CASE k # 1
    <3>1. k \in 2 .. Shards /\ k - 1 \in 1 .. Shards /\ k - 1 < k
      BY <1>1, <2>2, <2>5
    <3>2. k - 1 \notin Bad
      <4> HIDE DEF Bad
      <4> QED
        BY <2>1, <2>3, <3>1
    <3>3. Shows(f[k - 1], Begin(k - 1))
      BY <3>1, <3>2
    <3>4. f[k] = f[k - 1] \o ShardVideo(k - 1)
      BY <1>3, <1>5, <2>2, <3>1
    <3>5. Shows(f[k - 1] \o ShardVideo(k - 1), Begin((k - 1) + 1))
      BY <2>3, <3>3, ShardAppended
    <3> QED
      BY <2>2, <2>3, <3>4, <3>5
  <2> QED
    BY <2>4, <2>5
<1>7. Shows(f[Shards], Begin(Shards))
  BY <1>1, <1>6
<1>8. Begin(Shards) = whole.frames
  BY PlanIs
<1> QED
  BY <1>3, <1>4, <1>5, <1>7, <1>8

-----------------------------------------------------------------------------
(* The inductive invariant.                                                    *)

\* What was asked does not change, and is in range.
AskedOK ==
  /\ request \in Requests
  /\ asked \in 1 .. MaxShards
  /\ step \in 1 .. MaxStep
  /\ stage \in {"new", "resolved", "planned", "joined", "failed"}

\* The whole video is what its request resolves to, and has frames if all goes on.
WholeOK ==
  /\ whole = IF stage = "new" THEN Unresolved ELSE ResolveDuration(request)
  /\ stage \in {"resolved", "planned", "joined"} => whole.frames > 0

\* There is a file for every shard of the plan, and a rendered one shows the shard.
FilesOK ==
  stage \in {"planned", "joined"} =>
    /\ files \in [DOMAIN Plan -> Seq(Nat)]
    /\ \A i \in DOMAIN Plan : files[i] \in {NoFile, ShardVideo(i)}

\* The joined video is the shards' videos, which are all there.
VideoOK ==
  IF stage = "joined"
  THEN /\ video = Joined
       /\ \A i \in DOMAIN Plan : files[i] # NoFile
  ELSE video = << >>

IInv == AskedOK /\ WholeOK /\ FilesOK /\ VideoOK

\* The resolution of a request: a natural number of frames.
LEMMA ResolvedType ==
  ASSUME NEW r \in Request
  PROVE  /\ ResolveDuration(r).frames \in Nat
         /\ ResolveDuration(r).durations \in Seq(Int)
<1>1. r.frames \in Int /\ r.ownMs \in Seq(Int) /\ r.fps \in Int
  BY DEF Request
<1>2. CASE /\ r.frames > 0
           /\ ResolveDuration(r) = [frames |-> r.frames, durations |-> r.ownMs]
  BY <1>1, <1>2
<1>3. CASE ResolveDuration(r) = Unresolved
  BY <1>3 DEF Unresolved
<1>4. ASSUME r.fps > 0, NEW d \in Seq(Int), IsTimeline(d),
             ResolveDuration(r) = [frames |-> TotalFrames(d, r.fps), durations |-> d]
      PROVE  /\ ResolveDuration(r).frames \in Nat
             /\ ResolveDuration(r).durations \in Seq(Int)
  <2>1. TotalFrames(d, r.fps) \in Nat
    BY <1>1, <1>4, TotalFramesFit
  <2> QED
    BY <1>4, <2>1
<1> QED
  BY <1>2, <1>3, <1>4, ResolveDurationIs

\* What the steps start from.
LEMMA Ranges ==
  ASSUME IInv
  PROVE  /\ request \in Request
         /\ asked \in Nat \ {0}
         /\ step \in Nat \ {0}
         /\ whole.frames \in Nat
         /\ whole.durations \in Seq(Int)
         /\ stage \in {"resolved", "planned", "joined"} => whole.frames \in Nat \ {0}
<1>1. request \in Request
  BY ShardAssumption DEF IInv, AskedOK
<1>2. asked \in Nat \ {0} /\ step \in Nat \ {0}
  BY ShardAssumption DEF IInv, AskedOK
<1>3. whole = Unresolved \/ whole = ResolveDuration(request)
  BY DEF IInv, WholeOK
<1>4. whole.frames \in Nat /\ whole.durations \in Seq(Int)
  <2>1. CASE whole = Unresolved
    BY <2>1 DEF Unresolved
  <2>2. CASE whole = ResolveDuration(request)
    BY <1>1, <2>2, ResolvedType
  <2> QED
    BY <1>3, <2>1, <2>2
<1>5. stage \in {"resolved", "planned", "joined"} => whole.frames > 0
  BY DEF IInv, WholeOK
<1> QED
  BY <1>1, <1>2, <1>4, <1>5

\* A shard's number of frames is never 0, so that "render" renders the shard.
LEMMA RenderedVideo ==
  ASSUME IInv, stage = "planned", NEW i \in DOMAIN Plan
  PROVE  /\ ResolveDuration([request EXCEPT !.frames = FrameCount(Plan[i])]).frames
              = FrameCount(Plan[i])
         /\ ShardVideo(i) \in Seq(Nat)
<1>1. /\ request \in Request /\ whole.frames \in Nat \ {0}
      /\ asked \in Nat \ {0} /\ step \in Nat \ {0}
  BY Ranges
<1>2. i \in 0 .. Shards - 1 /\ FrameCount(Plan[i]) \in Nat \ {0}
  BY <1>1, PlanIs
<1> DEFINE r == [request EXCEPT !.frames = FrameCount(Plan[i])]
<1>3. r \in Request /\ r.frames = FrameCount(Plan[i])
  <2> DEFINE n == FrameCount(Plan[i])
  <2>1. n \in Int
    BY <1>2
  <2> HIDE DEF n
  <2>2. [request EXCEPT !.frames = n] \in Request
        /\ [request EXCEPT !.frames = n].frames = n
    BY <1>1, <2>1 DEF Request
  <2> QED
    BY <2>2 DEF n
<1> HIDE DEF r
<1>4. ResolveDuration(r).frames = r.frames
  BY <1>2, <1>3, ResolveDurationIs
<1>5. ShardVideo(i) \in Seq(Nat)
  BY <1>1, <1>2, ShardVideoIs
<1> QED
  BY <1>3, <1>4, <1>5 DEF r

LEMMA InitIInv == Init => IInv
  BY DEF Init, IInv, AskedOK, WholeOK, FilesOK, VideoOK

LEMMA NextIInv == IInv /\ [Next]_vars => IInv'
<1> SUFFICES ASSUME IInv, [Next]_vars PROVE IInv'
  OBVIOUS
<1>0. AskedOK /\ WholeOK /\ FilesOK /\ VideoOK
  BY DEF IInv
<1>1. CASE Resolve
  <2>1. stage = "new" /\ stage' \in {"resolved", "failed"} /\ video' = << >>
    BY <1>0, <1>1 DEF Resolve, VideoOK
  <2>2. AskedOK'
    BY <1>0, <1>1, <2>1 DEF AskedOK, Resolve
  <2>3. WholeOK'
    BY <1>1, <2>1 DEF WholeOK, Resolve
  <2> QED
    BY <2>1, <2>2, <2>3 DEF IInv, FilesOK, VideoOK
<1>2. CASE MakePlan
  <2>1. stage = "resolved" /\ stage' = "planned" /\ video' = << >> /\ Plan' = Plan
    BY <1>0, <1>2 DEF MakePlan, VideoOK, Plan
  <2>2. AskedOK' /\ WholeOK'
    BY <1>0, <1>2, <2>1 DEF AskedOK, WholeOK, MakePlan
  <2>3. FilesOK'
    <3>1. files' = [i \in DOMAIN Plan |-> NoFile]
      BY <1>2 DEF MakePlan
    <3>2. NoFile \in Seq(Nat)
      BY DEF NoFile
    <3> QED
      BY <2>1, <3>1, <3>2 DEF FilesOK
  <2> QED
    BY <2>1, <2>2, <2>3 DEF IInv, VideoOK
<1>3. ASSUME NEW i \in DOMAIN files, RenderShard(i) PROVE IInv'
  <2>1. /\ stage = "planned" /\ stage' = "planned" /\ video' = << >> /\ Plan' = Plan
        /\ \A k \in DOMAIN Plan : ShardVideo(k)' = ShardVideo(k)
    BY <1>0, <1>3 DEF RenderShard, VideoOK, Plan, ShardVideo, Held
  <2>2. AskedOK' /\ WholeOK'
    BY <1>0, <1>3, <2>1 DEF AskedOK, WholeOK, RenderShard
  <2>3. FilesOK'
    <3>1. /\ files \in [DOMAIN Plan -> Seq(Nat)]
          /\ \A k \in DOMAIN Plan : files[k] \in {NoFile, ShardVideo(k)}
      BY <1>0, <2>1 DEF FilesOK
    <3>2. i \in DOMAIN Plan
      BY <1>3, <3>1
    <3>3. /\ ResolveDuration([request EXCEPT !.frames = FrameCount(Plan[i])]).frames
               = FrameCount(Plan[i])
          /\ ShardVideo(i) \in Seq(Nat)
      BY <2>1, <3>2, RenderedVideo
    <3>4. files' = [files EXCEPT ![i] = ShardVideo(i)]
      BY <1>3, <3>3 DEF RenderShard, ShardVideo
    <3> QED
      BY <2>1, <3>1, <3>2, <3>3, <3>4 DEF FilesOK
  <2> QED
    BY <2>1, <2>2, <2>3 DEF IInv, VideoOK
<1>4. CASE Concat
  <2>1. /\ stage = "planned" /\ stage' = "joined" /\ Plan' = Plan /\ files' = files
        /\ \A k \in DOMAIN Plan : ShardVideo(k)' = ShardVideo(k)
    BY <1>4 DEF Concat, Plan, ShardVideo, Held
  <2>2. AskedOK' /\ WholeOK'
    BY <1>0, <1>4, <2>1 DEF AskedOK, WholeOK, Concat
  <2>3. FilesOK'
    BY <1>0, <2>1 DEF FilesOK
  <2>4. DOMAIN files = DOMAIN Plan
    BY <1>0, <2>1 DEF FilesOK
  <2>5. VideoOK'
    BY <1>4, <2>1, <2>4 DEF VideoOK, Concat, Joined
  <2> QED
    BY <2>2, <2>3, <2>5 DEF IInv
<1>5. CASE UNCHANGED vars
  BY <1>0, <1>5 DEF vars, IInv, AskedOK, WholeOK, FilesOK, VideoOK, Plan, ShardVideo, Held, Joined
<1> QED
  BY <1>1, <1>2, <1>3, <1>4, <1>5 DEF Next

THEOREM Invariance == Spec => []IInv
  BY InitIInv, NextIInv, PTL DEF Spec

-----------------------------------------------------------------------------
(* The properties.                                                             *)

\* The types of TypeOK; Render refuses a video without frames, so that nothing is
\* planned for one.
THEOREM TypeCorrect == Spec => []TypeOK
<1>1. ASSUME IInv PROVE TypeOK
  <2>1. /\ asked \in Nat \ {0} /\ step \in Nat \ {0} /\ whole.frames \in Nat
        /\ stage \in {"resolved", "planned", "joined"} => whole.frames \in Nat \ {0}
    BY <1>1, Ranges
  <2>2. ASSUME stage \in {"planned", "joined"}
        PROVE  \A i \in DOMAIN files : files[i] \in Seq(Nat)
    BY <1>1, <2>2 DEF IInv, FilesOK
  <2>3. video \in Seq(Nat)
    <3>1. CASE stage = "joined"
      <4>1. /\ video = Joined /\ DOMAIN files = DOMAIN Plan
            /\ \A i \in DOMAIN Plan : files[i] = ShardVideo(i)
        BY <1>1, <3>1 DEF IInv, FilesOK, VideoOK
      <4> QED
        BY <2>1, <3>1, <4>1, JoinedShows DEF Shows
    <3>2. CASE stage # "joined"
      <4>1. video = << >>
        BY <1>1, <3>2 DEF IInv, VideoOK
      <4> QED
        BY <4>1
    <3> QED
      BY <3>1, <3>2
  <2>4. stage \in {"new", "resolved", "planned", "joined", "failed"}
    BY <1>1 DEF IInv, AskedOK
  <2> QED
    BY <2>1, <2>2, <2>3, <2>4 DEF TypeOK
<1> QED
  BY <1>1, Invariance, PTL

\* A request that does not give a number of frames gets the least number of frames
\* that lasts as long as its slides, of which there are some and none is empty:
\* resolveDurationFrames with ComputeTotalFramesFromDurationsMs.
THEOREM FramesAlwaysFit == Spec => []FramesFitSlides
<1>1. ASSUME IInv PROVE FramesFitSlides
  <2> SUFFICES ASSUME stage \notin {"new", "failed"}, request.frames <= 0
               PROVE  /\ IsTimeline(whole.durations)
                      /\ whole.frames * 1000 >= TotalMs(whole.durations) * request.fps
                      /\ (whole.frames - 1) * 1000 < TotalMs(whole.durations) * request.fps
    BY DEF FramesFitSlides
  <2>1. request \in Request /\ request.frames \in Int /\ request.fps \in Int
    BY <1>1, Ranges DEF Request
  <2>2. whole = ResolveDuration(request) /\ whole.frames > 0
    BY <1>1 DEF IInv, AskedOK, WholeOK
  <2>3. whole # Unresolved
    BY <2>2 DEF Unresolved
  <2>4. PICK d \in Seq(Int) : /\ IsTimeline(d) /\ request.fps > 0
                              /\ whole = [frames |-> TotalFrames(d, request.fps), durations |-> d]
    BY <2>1, <2>2, <2>3, ResolveDurationIs
  <2>5. request.fps \in Nat \ {0}
    BY <2>1, <2>4
  <2>6. whole.frames = TotalFrames(d, request.fps) /\ whole.durations = d
    BY <2>4
  <2> QED
    BY <2>4, <2>5, <2>6, TotalFramesFit
<1> QED
  BY <1>1, Invariance, PTL

\* A rendered shard has exactly the frames of the plan: FrameCount is never the 0 that
\* "render" takes for a video without a given length.
THEOREM ShardsAlwaysShards == Spec => []ShardsAreShards
<1>1. ASSUME IInv PROVE ShardsAreShards
  <2> SUFFICES ASSUME stage \in {"planned", "joined"}, NEW i \in DOMAIN files,
                      files[i] # NoFile
               PROVE  Len(files[i]) = FrameCount(Plan[i])
    BY DEF ShardsAreShards
  <2>1. /\ asked \in Nat \ {0} /\ step \in Nat \ {0} /\ whole.frames \in Nat \ {0}
    BY <1>1, Ranges
  <2>2. i \in DOMAIN Plan /\ files[i] = ShardVideo(i)
    BY <1>1 DEF IInv, FilesOK
  <2>3. i \in 0 .. Shards - 1 /\ FrameCount(Plan[i]) = Begin(i + 1) - Begin(i)
    BY <2>1, <2>2, PlanIs
  <2> QED
    BY <2>1, <2>2, <2>3, ShardVideoIs
<1> QED
  BY <1>1, Invariance, PTL

\* However many shards are asked for, in whatever order and however often they are
\* rendered: what concat joins is as long as the whole video, ends with its last frame,
\* and holds a frame for less than a step.
THEOREM AlwaysWhole == Spec => []JoinedIsWhole
<1>1. ASSUME IInv PROVE JoinedIsWhole
  <2> SUFFICES ASSUME stage = "joined"
               PROVE  /\ Len(video) = whole.frames
                      /\ \A n \in DOMAIN video : video[n] < n /\ video[n] >= n - step
                      /\ video[Len(video)] = whole.frames - 1
    BY DEF JoinedIsWhole
  <2>1. /\ asked \in Nat \ {0} /\ step \in Nat \ {0} /\ whole.frames \in Nat \ {0}
    BY <1>1, Ranges
  <2>2. /\ video = Joined /\ DOMAIN files = DOMAIN Plan
        /\ \A i \in DOMAIN Plan : files[i] = ShardVideo(i)
    BY <1>1 DEF IInv, FilesOK, VideoOK
  <2>3. Shows(video, whole.frames)
    BY <2>1, <2>2, JoinedShows
  <2> QED
    BY <2>3 DEF Shows
<1> QED
  BY <1>1, Invariance, PTL

\* The frames of a video lie in their slides, the first one at the beginning, and time
\* and slides never go backwards from one frame to the next: Timeline.LocateFrame.
THEOREM FramesAlwaysInOrder == Spec => []FramesInOrder
<1>1. ASSUME IInv PROVE FramesInOrder
  <2> SUFFICES ASSUME IsTimeline(whole.durations), request.fps > 0
               PROVE  /\ Located(0).slide = 1 /\ Located(0).inMs = 0
                      /\ \A n \in 0 .. whole.frames - 1 :
                           /\ Located(n).inMs >= 0 /\ Located(n).inMs < Located(n).durMs
                           /\ n > 0 => /\ Located(n - 1).globalMs <= Located(n).globalMs
                                       /\ Located(n - 1).slide <= Located(n).slide
    BY DEF FramesInOrder
  <2>1. /\ whole.durations \in Seq(Int) /\ request.fps \in Nat \ {0} /\ whole.frames \in Nat
    BY <1>1, Ranges DEF Request
  <2>2. Located(0).slide = 1 /\ Located(0).inMs = 0
    BY <2>1, LocateFrameInOrder DEF Located
  <2>3. ASSUME NEW n \in 0 .. whole.frames - 1
        PROVE  /\ Located(n).inMs >= 0 /\ Located(n).inMs < Located(n).durMs
               /\ n > 0 => /\ Located(n - 1).globalMs <= Located(n).globalMs
                           /\ Located(n - 1).slide <= Located(n).slide
    <3>1. n \in Nat /\ n <= n
      BY <2>1
    <3>2. Located(n).inMs >= 0 /\ Located(n).inMs < Located(n).durMs
      BY <2>1, <3>1, LocateFrameInOrder DEF Located
    <3>3. ASSUME n > 0
          PROVE  /\ Located(n - 1).globalMs <= Located(n).globalMs
                 /\ Located(n - 1).slide <= Located(n).slide
      <4>1. n - 1 \in Nat /\ n - 1 <= n
        BY <3>1, <3>3
      <4> QED
        BY <2>1, <3>1, <4>1, LocateFrameInOrder DEF Located
    <3> QED
      BY <3>2, <3>3
  <2> QED
    BY <2>2, <2>3
<1> QED
  BY <1>1, Invariance, PTL
=============================================================================

-------------------------- MODULE BrowserPoolProofs --------------------------
(***************************************************************************)
(* Proofs about BrowserPool, for every size of the pool, every set of      *)
(* renders and workers, and whatever fails.                                *)
(***************************************************************************)
EXTENDS BrowserPool, FiniteSetTheorems, TLAPS

-----------------------------------------------------------------------------
(* The inductive invariant.                                                *)

\* A worker has a browser exactly from the moment Acquire takes it from the
\* channel to the moment it is given back; between two renders it is idle.
Holding ==
  /\ \A u \in User : has[u] # NoSlot <=> pc[u] \in {"launch", "viewport", "frames", "returned"}
  /\ \A u \in User : render[u[1]] = "off" => pc[u] = "idle"

\* The types, except that the channel may be of any length.
Typed ==
  /\ available \in Seq(Slot)
  /\ healthy \in [Slot -> BOOLEAN]
  /\ alive \in [Slot -> BOOLEAN]
  /\ parent \in [Slot -> Render \cup {Pooled}]
  /\ intercepted \in [Slot -> BOOLEAN]
  /\ setUp \in 0 .. Size
  /\ pc \in [User -> {"idle", "acquire", "launch", "viewport", "frames", "returned"}]
  /\ has \in [User -> Slot \cup {NoSlot}]
  /\ render \in [Render -> {"off", "running", "closing"}]
  /\ ctx \in [Render -> BOOLEAN]
  /\ daemon \in BOOLEAN
  /\ closed \in BOOLEAN
  /\ walk \in 0 .. Size

\* NewQueue's loop has set up the first browsers, and the channel has turned by
\* as many places; until the loop is through, nobody else uses the pool.
Rotated ==
  /\ setUp < Size => \A u \in User : pc[u] = "idle"
  /\ setUp < Size /\ ~ closed =>
       /\ Len(available) = Size
       /\ \A i \in 1 .. Size :
            available[i] = IF setUp + i - 1 < Size THEN setUp + i - 1 ELSE setUp + i - 1 - Size
       /\ \A s \in Slot : s < setUp => intercepted[s]

\* A browser runs under a live context.
Rooted ==
  /\ \A s \in Slot : alive[s] => \/ parent[s] = Pooled /\ daemon
                                 \/ parent[s] \in Render /\ ctx[parent[s]]
  /\ ~ daemon => \A r \in Render : ~ ctx[r]
  /\ \A s \in Slot : s < walk /\ alive[s] => parent[s] # Pooled

IInv ==
  /\ Typed
  /\ Holding
  /\ Exclusive
  /\ NoneLost
  /\ Rotated
  /\ SetUpReachesEveryBrowser
  /\ Rooted

-----------------------------------------------------------------------------
(* The channel.                                                            *)

\* A send, a receive, and a receive whose item is sent back.
LEMMA Channel ==
  ASSUME NEW S, NEW ch \in Seq(S), NEW x \in S
  PROVE  /\ Len(ch) \in Nat
         /\ \A i \in 1 .. Len(ch) : ch[i] \in S
         /\ Append(ch, x) \in Seq(S)
         /\ Len(Append(ch, x)) = Len(ch) + 1
         /\ \A i \in 1 .. Len(ch) : Append(ch, x)[i] = ch[i]
         /\ Append(ch, x)[Len(ch) + 1] = x
  OBVIOUS

LEMMA Receive ==
  ASSUME NEW S, NEW ch \in Seq(S), ch # << >>
  PROVE  /\ Len(ch) \in Nat \ {0}
         /\ Head(ch) = ch[1]
         /\ Head(ch) \in S
         /\ Tail(ch) \in Seq(S)
         /\ Len(Tail(ch)) = Len(ch) - 1
         /\ \A i \in 1 .. Len(ch) - 1 : Tail(ch)[i] = ch[i + 1]
  OBVIOUS

LEMMA Turn ==
  ASSUME NEW S, NEW ch \in Seq(S), ch # << >>
  PROVE  /\ Append(Tail(ch), Head(ch)) \in Seq(S)
         /\ Len(Append(Tail(ch), Head(ch))) = Len(ch)
         /\ \A i \in 1 .. Len(ch) - 1 : Append(Tail(ch), Head(ch))[i] = ch[i + 1]
         /\ Append(Tail(ch), Head(ch))[Len(ch)] = ch[1]
  BY Receive

LEMMA SlotsAreSize == IsFiniteSet(Slot) /\ Cardinality(Slot) = Size
  <1>1. 0 \in Int /\ Size - 1 \in Int BY PoolAssumption
  <1>2. /\ IsFiniteSet(0 .. Size - 1)
        /\ Cardinality(0 .. Size - 1) = IF 0 > Size - 1 THEN 0 ELSE (Size - 1) - 0 + 1
    BY <1>1, FS_Interval
  <1> QED BY <1>2, PoolAssumption DEF Slot

\* A channel without duplicates never needs more room than there are browsers.
LEMMA Fits ==
  ASSUME NEW ch \in Seq(Slot),
         \A i, j \in 1 .. Len(ch) : i # j => ch[i] # ch[j]
  PROVE  Len(ch) <= Size
  <1> DEFINE f == [i \in 1 .. Len(ch) |-> ch[i]]
  <1>1. Len(ch) \in Nat /\ \A i \in 1 .. Len(ch) : ch[i] \in Slot OBVIOUS
  <1>2. f \in Injection(1 .. Len(ch), Slot)
    BY <1>1 DEF Injection, IsInjective
  <1>3. IsFiniteSet(Slot) /\ Cardinality(Slot) = Size BY SlotsAreSize
  <1>4. Cardinality(1 .. Len(ch)) = Len(ch)
    <2>1. Cardinality(1 .. Len(ch)) = IF 1 > Len(ch) THEN 0 ELSE Len(ch) - 1 + 1
      BY <1>1, FS_Interval
    <2> QED BY <2>1, <1>1
  <1>5. Cardinality(1 .. Len(ch)) <= Cardinality(Slot)
    BY <1>2, <1>3, FS_Injection
  <1> QED BY <1>3, <1>4, <1>5

-----------------------------------------------------------------------------
LEMMA InitIInv == Init => IInv
  <1> SUFFICES ASSUME Init PROVE IInv OBVIOUS
  <1>1. /\ available \in Seq(Slot) /\ Len(available) = Size
        /\ \A i \in 1 .. Size : available[i] = i - 1
    <2>1. Size \in Nat /\ \A i \in 1 .. Size : i - 1 \in Slot BY PoolAssumption DEF Slot
    <2> QED BY <2>1 DEF Init
  <1>2. 0 \in 0 .. Size /\ 0 < Size BY PoolAssumption
  <1>3. Typed BY <1>1, <1>2 DEF Init, Typed
  <1>4. Holding BY DEF Init, Holding
  <1>5. Exclusive
    <2>1. \A i \in 1 .. Size : available[i] # NoSlot
      BY <1>1, PoolAssumption DEF Slot
    <2> QED BY <1>1, <2>1, PoolAssumption DEF Init, Exclusive
  <1>6. NoneLost
    <2>1. \A s \in Slot : s + 1 \in 1 .. Size /\ available[s + 1] = s
      BY <1>1, PoolAssumption DEF Slot
    <2> QED BY <1>1, <2>1 DEF NoneLost
  <1>7. Rotated
    <2>1. \A s \in Slot : ~ (s < 0) BY PoolAssumption DEF Slot
    <2> QED BY <1>1, <2>1, PoolAssumption DEF Init, Rotated
  <1>8. SetUpReachesEveryBrowser BY <1>2, PoolAssumption DEF Init, SetUpReachesEveryBrowser
  <1>9. Rooted
    <2>1. \A s \in Slot : ~ (s < 0) BY PoolAssumption DEF Slot
    <2> QED BY <2>1 DEF Init, Rooted
  <1> QED BY <1>3, <1>4, <1>5, <1>6, <1>7, <1>8, <1>9 DEF IInv

LEMMA TypedStep ==
  ASSUME Typed, Holding, Rotated, [Next]_vars
  PROVE  Typed'
  <1> USE DEF Typed, poolVars, userVars, renderVars, closeVars
  <1>0. setUp < Size /\ ~ closed => available # << >>
    BY PoolAssumption DEF Rotated
  <1>1. CASE SetUpNext
    <2>1. /\ available' \in Seq(Slot)
          /\ Head(available) \in Slot
          /\ setUp + 1 \in 0 .. Size
      BY <1>0, <1>1, Turn, Receive, PoolAssumption DEF SetUpNext
    <2> QED BY <1>1, <2>1 DEF SetUpNext
  <1>2. CASE SetUpFails
    <2>1. available' \in Seq(Slot) BY <1>0, <1>2, Turn DEF SetUpFails
    <2> QED BY <1>2, <2>1 DEF SetUpFails
  <1>3. ASSUME NEW u \in User, UserStep(u) PROVE Typed'
    <2>0. u[1] \in Render BY PoolAssumption
    <2>1. CASE TakeHealthy(u)
      <3>1. available' \in Seq(Slot) /\ Head(available) \in Slot
        BY <2>1, Receive DEF TakeHealthy
      <3> QED BY <2>1, <3>1 DEF TakeHealthy
    <2>2. CASE TakeUnhealthy(u)
      <3>1. available' \in Seq(Slot) /\ Head(available) \in Slot
        BY <2>2, Receive DEF TakeUnhealthy
      <3> QED BY <2>2, <3>1 DEF TakeUnhealthy
    <2>3. CASE LaunchSucceeds(u) BY <2>0, <2>3 DEF LaunchSucceeds
    <2>4. CASE LaunchFails(u)
      <3>1. has[u] \in Slot BY <2>4 DEF LaunchFails, Holding
      <3>2. available' \in Seq(Slot) BY <2>4, <3>1 DEF LaunchFails
      <3> QED BY <2>4, <3>2 DEF LaunchFails
    <2>5. CASE AcquireGivesUp(u) BY <2>5 DEF AcquireGivesUp
    <2>6. CASE ViewportSet(u) BY <2>6 DEF ViewportSet
    <2>7. CASE ViewportFails(u)
      <3>1. has[u] \in Slot BY <2>7 DEF ViewportFails, Holding
      <3>2. available' \in Seq(Slot) BY <2>7, <3>1 DEF ViewportFails, GiveBack, Released
      <3> QED BY <2>7, <3>2 DEF ViewportFails, GiveBack
    <2>8. CASE FrameFails(u)
      <3>1. has[u] \in Slot BY <2>8 DEF FrameFails, Holding
      <3>2. available' \in Seq(Slot) BY <2>8, <3>1 DEF FrameFails, GiveBack, Released
      <3> QED BY <2>8, <3>2 DEF FrameFails, GiveBack
    <2>9. CASE ReleaseSession(u)
      <3>1. has[u] \in Slot BY <2>9 DEF ReleaseSession, Holding
      <3>2. available' \in Seq(Slot) BY <2>9, <3>1 DEF ReleaseSession, GiveBack, Released
      <3> QED BY <2>9, <3>2 DEF ReleaseSession, GiveBack
    <2> QED BY <1>3, <2>1, <2>2, <2>3, <2>4, <2>5, <2>6, <2>7, <2>8, <2>9
            DEF UserStep, AcquireStep, SessionStep
  <1>4. ASSUME NEW r \in Render, RenderStep(r) PROVE Typed'
    <2>1. CASE StartRender(r) BY <2>1 DEF StartRender
    <2>2. CASE CancelRender(r) BY <2>2 DEF CancelRender, KillUnder
    <2>3. CASE BeginClose(r) BY <2>3 DEF BeginClose
    <2>4. CASE EndRender(r) BY <2>4 DEF EndRender, KillUnder
    <2> QED BY <1>4, <2>1, <2>2, <2>3, <2>4 DEF RenderStep
  <1>5. ASSUME NEW s \in Slot, ChromeCrashes(s) PROVE Typed'
    BY <1>5 DEF ChromeCrashes
  <1>6. CASE Shutdown BY <1>6 DEF Shutdown, KillUnder
  <1>7. CASE ClosePool BY <1>7 DEF ClosePool
  <1>8. CASE CloseNext
    <2>1. walk + 1 \in 0 .. Size BY <1>8, PoolAssumption DEF CloseNext
    <2> QED BY <1>8, <2>1 DEF CloseNext
  <1>9. CASE UNCHANGED vars BY <1>9 DEF vars
  <1> QED BY <1>1, <1>2, <1>3, <1>4, <1>5, <1>6, <1>7, <1>8, <1>9 DEF Next

-----------------------------------------------------------------------------
(* Where the browsers are.                                                 *)

\* The three ways in which a step moves a browser.
Take(u) ==
  /\ pc[u] = "acquire"
  /\ available # << >>
  /\ available' = Tail(available)
  /\ has' = [has EXCEPT ![u] = Head(available)]

Give(u) ==
  /\ pc[u] \in {"launch", "viewport", "frames", "returned"}
  /\ available' = Append(available, has[u]) \/ (closed /\ available' = available)
  /\ has' = [has EXCEPT ![u] = NoSlot]

TurnRound ==
  /\ available # << >>
  /\ available' = Append(Tail(available), Head(available))
  /\ UNCHANGED has

LEMMA PlaceStep ==
  ASSUME Rotated, [Next]_vars
  PROVE  \/ \E u \in User : Take(u) \/ Give(u)
         \/ TurnRound
         \/ UNCHANGED <<available, has>>
  <1> USE DEF poolVars, userVars, renderVars, closeVars
  <1>1. setUp < Size /\ ~ closed => available # << >>
    BY PoolAssumption DEF Rotated
  <1>2. SetUpNext \/ SetUpFails => TurnRound
    BY <1>1 DEF SetUpNext, SetUpFails, TurnRound
  <1>3. ASSUME NEW u \in User, UserStep(u)
        PROVE  Take(u) \/ Give(u) \/ UNCHANGED <<available, has>>
    BY <1>3 DEF UserStep, AcquireStep, SessionStep, TakeHealthy, TakeUnhealthy,
      LaunchSucceeds, LaunchFails, AcquireGivesUp, ViewportSet, ViewportFails, FrameFails,
      ReleaseSession, GiveBack, Released, Take, Give
  <1>4. ASSUME NEW r \in Render, RenderStep(r) PROVE UNCHANGED <<available, has>>
    BY <1>4 DEF RenderStep, StartRender, CancelRender, BeginClose, EndRender
  <1>5. CASE UNCHANGED vars BY <1>5 DEF vars
  <1> QED
    BY <1>2, <1>3, <1>4, <1>5 DEF Next, ChromeCrashes, Shutdown, ClosePool, CloseNext

LEMMA HoldingStep ==
  ASSUME Typed, Holding, [Next]_vars
  PROVE  Holding'
  <1> USE DEF Typed, Holding, poolVars, userVars, renderVars, closeVars
  <1>1. ASSUME NEW u \in User, UserStep(u) PROVE Holding'
    <2>1. available # << >> => Head(available) # NoSlot
      BY Receive, PoolAssumption DEF Slot
    <2>2. CASE TakeHealthy(u) BY <2>1, <2>2 DEF TakeHealthy
    <2>3. CASE TakeUnhealthy(u) BY <2>1, <2>3 DEF TakeUnhealthy
    <2>4. CASE LaunchSucceeds(u) BY <2>4 DEF LaunchSucceeds
    <2>5. CASE LaunchFails(u) BY <2>5 DEF LaunchFails
    <2>6. CASE AcquireGivesUp(u) BY <2>6 DEF AcquireGivesUp
    <2>7. CASE ViewportSet(u) BY <2>7 DEF ViewportSet
    <2>8. CASE GiveBack(u) /\ UNCHANGED render BY <2>8 DEF GiveBack
    <2> QED BY <1>1, <2>2, <2>3, <2>4, <2>5, <2>6, <2>7, <2>8
            DEF UserStep, AcquireStep, SessionStep, ViewportFails, FrameFails, ReleaseSession
  <1>2. ASSUME NEW r \in Render, RenderStep(r) PROVE Holding'
    <2>0. \A u \in User : u[1] \in Render BY PoolAssumption
    <2>1. CASE StartRender(r) BY <2>0, <2>1 DEF StartRender
    <2>2. CASE CancelRender(r) BY <2>2 DEF CancelRender
    <2>3. CASE BeginClose(r) BY <2>0, <2>3 DEF BeginClose
    <2>4. CASE EndRender(r) BY <2>0, <2>4 DEF EndRender
    <2> QED BY <1>2, <2>1, <2>2, <2>3, <2>4 DEF RenderStep
  <1>3. CASE UNCHANGED <<pc, has, render>> BY <1>3
  <1> QED BY <1>1, <1>2, <1>3
    DEF Next, SetUpNext, SetUpFails, ChromeCrashes, Shutdown, ClosePool, CloseNext, vars

LEMMA ExclusiveStep ==
  ASSUME Typed, Holding, Exclusive, Rotated, [Next]_vars
  PROVE  Exclusive'
  <1>0. available \in Seq(Slot) /\ has \in [User -> Slot \cup {NoSlot}] BY DEF Typed
  <1>1. ASSUME NEW u \in User, Take(u) PROVE Exclusive'
    <2>1. /\ Len(available) \in Nat \ {0}
          /\ Len(available') = Len(available) - 1
          /\ \A i \in 1 .. Len(available') :
               available'[i] = available[i + 1] /\ i + 1 \in 1 .. Len(available) /\ i + 1 # 1
          /\ 1 \in 1 .. Len(available)
      BY <1>0, <1>1, Receive DEF Take
    <2>2. /\ has'[u] = available[1]
          /\ \A v \in User : v # u => has'[v] = has[v]
      BY <1>0, <1>1, Receive DEF Take
    <2>3. \A i, j \in 1 .. Len(available') : i # j => available'[i] # available'[j]
      <3> SUFFICES ASSUME NEW i \in 1 .. Len(available'), NEW j \in 1 .. Len(available'),
                          i # j
                   PROVE  available[i + 1] # available[j + 1]
        BY <2>1
      <3> QED BY <2>1 DEF Exclusive
    <2>4. \A v, w \in User : v # w /\ has'[v] # NoSlot => has'[v] # has'[w]
      BY <2>1, <2>2 DEF Exclusive
    <2>5. \A v \in User, i \in 1 .. Len(available') : has'[v] # available'[i]
      BY <2>1, <2>2 DEF Exclusive
    <2> QED BY <2>3, <2>4, <2>5 DEF Exclusive
  <1>2. ASSUME NEW u \in User, Give(u) PROVE Exclusive'
    <2>1. has[u] \in Slot /\ has[u] # NoSlot BY <1>0, <1>2, PoolAssumption DEF Give, Holding, Slot
    <2>2. /\ has'[u] = NoSlot
          /\ \A v \in User : v # u => has'[v] = has[v]
      BY <1>0, <1>2 DEF Give
    <2>3. \A i \in 1 .. Len(available') :
            \/ i \in 1 .. Len(available) /\ available'[i] = available[i]
            \/ i = Len(available) + 1 /\ available'[i] = has[u]
      <3>1. CASE available' = available BY <3>1
      <3>2. CASE available' = Append(available, has[u]) BY <1>0, <2>1, <3>2, Channel
      <3> QED BY <1>2, <3>1, <3>2 DEF Give
    <2>4. \A i \in 1 .. Len(available') : available'[i] # NoSlot
      BY <1>0, <2>1, <2>3, PoolAssumption DEF Slot
    <2>5. \A i, j \in 1 .. Len(available') : i # j => available'[i] # available'[j]
      BY <2>3 DEF Exclusive
    <2>6. \A v, w \in User : v # w /\ has'[v] # NoSlot => has'[v] # has'[w]
      BY <2>2 DEF Exclusive
    <2>7. \A v \in User, i \in 1 .. Len(available') : has'[v] # available'[i]
      BY <2>1, <2>2, <2>3, <2>4 DEF Exclusive
    <2> QED BY <2>5, <2>6, <2>7 DEF Exclusive
  <1>3. CASE TurnRound
    <2>1. /\ Len(available) \in Nat \ {0}
          /\ Len(available') = Len(available)
          /\ \A i \in 1 .. Len(available) - 1 : available'[i] = available[i + 1]
          /\ available'[Len(available)] = available[1]
      BY <1>0, <1>3, Turn, Receive DEF TurnRound
    <2> DEFINE old(i) == IF i = Len(available) THEN 1 ELSE i + 1
    <2>2. \A i \in 1 .. Len(available') :
            old(i) \in 1 .. Len(available) /\ available'[i] = available[old(i)]
      BY <2>1
    <2>3. \A i, j \in 1 .. Len(available') : i # j => old(i) # old(j)
      BY <2>1
    <2> HIDE DEF old
    <2>4. \A i, j \in 1 .. Len(available') : i # j => available'[i] # available'[j]
      <3> SUFFICES ASSUME NEW i \in 1 .. Len(available'), NEW j \in 1 .. Len(available'),
                          i # j
                   PROVE  available[old(i)] # available[old(j)]
        BY <2>2
      <3> QED BY <2>2, <2>3 DEF Exclusive
    <2>5. has' = has BY <1>3 DEF TurnRound
    <2>6. \A v \in User, i \in 1 .. Len(available') : has'[v] # available'[i]
      BY <2>2, <2>5 DEF Exclusive
    <2> QED BY <2>4, <2>5, <2>6 DEF Exclusive
  <1>4. CASE UNCHANGED <<available, has>> BY <1>4 DEF Exclusive
  <1> QED BY <1>1, <1>2, <1>3, <1>4, PlaceStep

LEMMA NoneLostStep ==
  ASSUME Typed, Holding, NoneLost, Rotated, [Next]_vars
  PROVE  NoneLost'
  <1>0. available \in Seq(Slot) /\ has \in [User -> Slot \cup {NoSlot}] BY DEF Typed
  <1>1. closed => closed'
    BY DEF Next, SetUpNext, SetUpFails, UserStep, AcquireStep, SessionStep, TakeHealthy,
      TakeUnhealthy, LaunchSucceeds, LaunchFails, AcquireGivesUp, ViewportSet, ViewportFails,
      FrameFails, ReleaseSession, RenderStep, StartRender, CancelRender, BeginClose, EndRender,
      ChromeCrashes, Shutdown, ClosePool, CloseNext, vars, closeVars
  <1> SUFFICES ASSUME ~ closed, NEW s \in Slot
               PROVE  \/ \E i \in 1 .. Len(available') : available'[i] = s
                      \/ \E u \in User : has'[u] = s
    BY <1>1 DEF NoneLost
  <1>2. \/ \E i \in 1 .. Len(available) : available[i] = s
        \/ \E u \in User : has[u] = s
    BY DEF NoneLost
  <1>3. s # NoSlot BY PoolAssumption DEF Slot
  <1>4. ASSUME NEW u \in User, Take(u)
        PROVE  \/ \E i \in 1 .. Len(available') : available'[i] = s
               \/ \E v \in User : has'[v] = s
    <2>1. /\ Len(available) \in Nat \ {0}
          /\ Len(available') = Len(available) - 1
          /\ \A i \in 1 .. Len(available') : available'[i] = available[i + 1]
          /\ has'[u] = available[1]
          /\ \A v \in User : v # u => has'[v] = has[v]
          /\ has[u] = NoSlot
      BY <1>0, <1>4, Receive DEF Take, Holding
    <2>2. CASE \E v \in User : has[v] = s BY <1>3, <2>1, <2>2
    <2>3. ASSUME NEW i \in 1 .. Len(available), available[i] = s
          PROVE  \/ \E j \in 1 .. Len(available') : available'[j] = s
                 \/ \E v \in User : has'[v] = s
      <3>1. CASE i = 1 BY <2>1, <2>3, <3>1
      <3>2. CASE i # 1
        <4>1. i - 1 \in 1 .. Len(available') /\ (i - 1) + 1 = i BY <2>1, <3>2
        <4> QED BY <2>1, <2>3, <4>1
      <3> QED BY <3>1, <3>2
    <2> QED BY <1>2, <2>2, <2>3
  <1>5. ASSUME NEW u \in User, Give(u)
        PROVE  \/ \E i \in 1 .. Len(available') : available'[i] = s
               \/ \E v \in User : has'[v] = s
    <2>1. has[u] \in Slot BY <1>0, <1>5 DEF Give, Holding
    <2>2. /\ Len(available) \in Nat
          /\ Len(available') = Len(available) + 1
          /\ \A i \in 1 .. Len(available) : available'[i] = available[i]
          /\ available'[Len(available) + 1] = has[u]
      BY <1>0, <1>5, <2>1, Channel DEF Give
    <2>3. /\ \A i \in 1 .. Len(available) : i \in 1 .. Len(available')
          /\ Len(available) + 1 \in 1 .. Len(available')
      BY <2>2
    <2>4. \A v \in User : v # u => has'[v] = has[v] BY <1>0, <1>5 DEF Give
    <2> QED BY <1>2, <2>2, <2>3, <2>4
  <1>6. CASE TurnRound
    <2>1. /\ Len(available) \in Nat \ {0}
          /\ Len(available') = Len(available)
          /\ \A i \in 1 .. Len(available) - 1 : available'[i] = available[i + 1]
          /\ available'[Len(available)] = available[1]
      BY <1>0, <1>6, Turn, Receive DEF TurnRound
    <2>2. CASE \E v \in User : has[v] = s BY <1>6, <2>2 DEF TurnRound
    <2>3. ASSUME NEW i \in 1 .. Len(available), available[i] = s
          PROVE  \E j \in 1 .. Len(available') : available'[j] = s
      <3>1. CASE i = 1
        <4>1. Len(available) \in 1 .. Len(available') BY <2>1
        <4> QED BY <2>1, <2>3, <3>1, <4>1
      <3>2. CASE i # 1
        <4>1. /\ i - 1 \in 1 .. Len(available') /\ i - 1 \in 1 .. Len(available) - 1
              /\ (i - 1) + 1 = i
          BY <2>1, <3>2
        <4> QED BY <2>1, <2>3, <4>1
      <3> QED BY <3>1, <3>2
    <2> QED BY <1>2, <2>2, <2>3
  <1>7. CASE UNCHANGED <<available, has>> BY <1>2, <1>7
  <1> QED BY <1>4, <1>5, <1>6, <1>7, PlaceStep

-----------------------------------------------------------------------------
(* The set-up loop, and the contexts.                                      *)

LEMMA RotatedStep ==
  ASSUME Typed, Holding, Rotated, SetUpReachesEveryBrowser, [Next]_vars
  PROVE  Rotated' /\ SetUpReachesEveryBrowser'
  <1> USE DEF poolVars, userVars, renderVars, closeVars
  <1>1. CASE SetUpNext
    <2>1. /\ setUp < Size /\ ~ closed /\ setUp \in Nat /\ Size \in Nat
          /\ setUp' = setUp + 1
          /\ UNCHANGED <<pc, parent, closed>>
      BY <1>1, PoolAssumption DEF SetUpNext, Typed
    <2>2. /\ Len(available) = Size
          /\ \A i \in 1 .. Size :
               available[i] = IF setUp + i - 1 < Size THEN setUp + i - 1 ELSE setUp + i - 1 - Size
          /\ \A s \in Slot : s < setUp => intercepted[s]
      BY <2>1 DEF Rotated
    <2>3. available \in Seq(Slot) /\ available # << >>
      BY <2>1, <2>2 DEF Typed
    <2>4. /\ Head(available) = available[1]
          /\ 1 \in 1 .. Size
          /\ Len(available') = Size
          /\ \A i \in 1 .. Size - 1 : available'[i] = available[i + 1]
          /\ available'[Size] = available[1]
      BY <1>1, <2>1, <2>2, <2>3, Turn, Receive DEF SetUpNext
    <2>5. Head(available) = setUp BY <2>1, <2>2, <2>4
    <2>6. \A i \in 1 .. Size :
            available'[i] = IF setUp' + i - 1 < Size THEN setUp' + i - 1
                                                     ELSE setUp' + i - 1 - Size
      <3> SUFFICES ASSUME NEW i \in 1 .. Size
                   PROVE  available'[i] = IF setUp' + i - 1 < Size THEN setUp' + i - 1
                                                                   ELSE setUp' + i - 1 - Size
        OBVIOUS
      <3>1. CASE i = Size BY <2>1, <2>4, <2>5, <3>1
      <3>2. CASE i # Size
        <4>1. i \in 1 .. Size - 1 /\ i + 1 \in 1 .. Size BY <2>1, <3>2
        <4> QED BY <2>1, <2>2, <2>4, <4>1
      <3> QED BY <3>1, <3>2
    <2>7. \A s \in Slot : s < setUp' => intercepted'[s]
      BY <1>1, <2>1, <2>2, <2>5 DEF SetUpNext, Typed, Slot
    <2>8. Rotated' BY <2>1, <2>4, <2>6, <2>7 DEF Rotated
    <2>9. SetUpReachesEveryBrowser'
      BY <2>1, <2>7 DEF SetUpReachesEveryBrowser, Slot
    <2> QED BY <2>8, <2>9
  <1>2. CASE SetUpFails
    BY <1>2, PoolAssumption DEF SetUpFails, Rotated, SetUpReachesEveryBrowser, Typed
  <1>3. ASSUME NEW u \in User, UserStep(u) PROVE Rotated' /\ SetUpReachesEveryBrowser'
    <2>1. pc[u] # "idle" /\ setUp' = setUp
      BY <1>3 DEF UserStep, AcquireStep, SessionStep, TakeHealthy, TakeUnhealthy,
        LaunchSucceeds, LaunchFails, AcquireGivesUp, ViewportSet, ViewportFails, FrameFails,
        ReleaseSession
    <2>2. setUp = Size BY <2>1, PoolAssumption DEF Rotated, Typed
    <2>3. Rotated' BY <2>1, <2>2, PoolAssumption DEF Rotated
    <2>4. CASE LaunchSucceeds(u)
      <3>1. u[1] # Pooled /\ has[u] \in Slot
        BY <2>4, PoolAssumption DEF LaunchSucceeds, Holding, Typed
      <3> QED BY <2>2, <2>3, <2>4, <3>1
              DEF LaunchSucceeds, SetUpReachesEveryBrowser, Typed
    <2>5. CASE UNCHANGED <<parent, intercepted>>
      BY <2>1, <2>3, <2>5 DEF SetUpReachesEveryBrowser
    <2> QED BY <1>3, <2>4, <2>5
      DEF UserStep, AcquireStep, SessionStep, TakeHealthy, TakeUnhealthy, LaunchFails,
          AcquireGivesUp, ViewportSet, ViewportFails, FrameFails, ReleaseSession
  <1>4. ASSUME NEW r \in Render, RenderStep(r) PROVE Rotated' /\ SetUpReachesEveryBrowser'
    <2>1. UNCHANGED <<available, parent, intercepted, setUp, closed>>
      BY <1>4 DEF RenderStep, StartRender, CancelRender, BeginClose, EndRender
    <2>2. setUp < Size => \A u \in User : pc'[u] = "idle"
      BY <1>4, PoolAssumption
      DEF RenderStep, StartRender, CancelRender, BeginClose, EndRender, Rotated, Typed
    <2> QED BY <2>1, <2>2 DEF Rotated, SetUpReachesEveryBrowser
  <1>5. CASE ClosePool
    BY <1>5, PoolAssumption DEF ClosePool, Rotated, SetUpReachesEveryBrowser
  <1>6. CASE UNCHANGED <<available, parent, intercepted, setUp, pc, closed>>
    BY <1>6 DEF Rotated, SetUpReachesEveryBrowser
  <1> QED BY <1>1, <1>2, <1>3, <1>4, <1>5, <1>6
    DEF Next, ChromeCrashes, Shutdown, CloseNext, vars

LEMMA RootedStep ==
  ASSUME Typed, Holding, Rooted, [Next]_vars
  PROVE  Rooted'
  <1> USE DEF Typed, Rooted, poolVars, userVars, renderVars, closeVars
  <1>1. ASSUME NEW u \in User, LaunchSucceeds(u) PROVE Rooted'
    <2>1. has[u] \in Slot /\ u[1] \in Render /\ u[1] # Pooled
      BY <1>1, PoolAssumption DEF LaunchSucceeds, Holding
    <2> QED BY <1>1, <2>1 DEF LaunchSucceeds
  <1>2. ASSUME NEW u \in User, TakeUnhealthy(u) PROVE Rooted'
    BY <1>2 DEF TakeUnhealthy
  <1>3. ASSUME NEW r \in Render, RenderStep(r) PROVE Rooted'
    <2>1. CASE StartRender(r) BY <2>1 DEF StartRender
    <2>2. CASE CancelRender(r) BY <2>2 DEF CancelRender, KillUnder
    <2>3. CASE BeginClose(r) BY <2>3 DEF BeginClose
    <2>4. CASE EndRender(r) BY <2>4 DEF EndRender, KillUnder
    <2> QED BY <1>3, <2>1, <2>2, <2>3, <2>4 DEF RenderStep
  <1>4. ASSUME NEW s \in Slot, ChromeCrashes(s) PROVE Rooted'
    BY <1>4 DEF ChromeCrashes
  <1>5. CASE Shutdown BY <1>5 DEF Shutdown, KillUnder
  <1>6. CASE CloseNext
    <2>1. \A s \in Slot : s < walk + 1 => s < walk \/ s = walk
      BY PoolAssumption DEF Slot
    <2>2. walk \in Slot BY <1>6, PoolAssumption DEF CloseNext, Slot
    <2> QED BY <1>6, <2>1, <2>2 DEF CloseNext
  <1>7. CASE UNCHANGED <<alive, parent, ctx, daemon, walk>> BY <1>7
  <1> QED BY <1>1, <1>2, <1>3, <1>4, <1>5, <1>6, <1>7
    DEF Next, SetUpNext, SetUpFails, UserStep, AcquireStep, SessionStep, TakeHealthy,
        LaunchFails, AcquireGivesUp, ViewportSet, ViewportFails, FrameFails, ReleaseSession,
        ClosePool, vars

-----------------------------------------------------------------------------
(* The theorems.                                                           *)

LEMMA Invariance == Spec => []IInv
  <1>1. IInv /\ [Next]_vars => IInv'
    BY TypedStep, HoldingStep, ExclusiveStep, NoneLostStep, RotatedStep, RootedStep DEF IInv
  <1> QED BY InitIInv, <1>1, PTL DEF Spec

\* Every variable keeps its type and p.available never holds more than its
\* capacity: neither Release, with the pool's lock held, nor Acquire, which puts
\* a dead browser back, ever blocks in its send.
THEOREM TypeCorrect == Spec => []TypeOK
  <1>1. IInv => TypeOK
    <2> SUFFICES ASSUME IInv PROVE TypeOK OBVIOUS
    <2>1. Len(available) <= Size BY Fits DEF IInv, Typed, Exclusive
    <2> QED BY <2>1 DEF IInv, Typed, TypeOK
  <1> QED BY <1>1, Invariance, PTL

\* No browser has two users, whatever fails in whichever order.
THEOREM BrowsersAreExclusive == Spec => []Exclusive
  BY Invariance, PTL DEF IInv

\* No path through Acquire, ensureSession, dropSession and Close loses a browser.
THEOREM NoBrowserIsLost == Spec => []NoneLost
  BY Invariance, PTL DEF IInv

\* NewQueue's loop over the channel reaches every browser of the pool.
THEOREM EveryBrowserIsSetUp == Spec => []SetUpReachesEveryBrowser
  BY Invariance, PTL DEF IInv

\* Close stops all but the replacements that it races with, and these end with
\* the daemon's context.
THEOREM NoChromeOutlivesTheDaemon == Spec => []ShutdownStopsChrome
  <1>1. IInv => ShutdownStopsChrome
    <2> SUFFICES ASSUME IInv PROVE ShutdownStopsChrome OBVIOUS
    <2>1. walk = Size => \A s \in Slot : s < walk BY PoolAssumption DEF Slot
    <2> QED BY <2>1 DEF IInv, Rooted, ShutdownStopsChrome
  <1> QED BY <1>1, Invariance, PTL

-----------------------------------------------------------------------------
(* Nobody waits for ever.                                                  *)

\* Workers that are in a render: they hold a browser or want one.
Busy == {u \in User : pc[u] # "idle"}

\* Nobody waits for a browser in vain while there are enough for all.
EnoughForAll ==
  ~ closed /\ Cardinality(Busy) <= Size =>
    \A u \in User : pc[u] = "acquire" => available # << >>

\* A worker that holds a browser wants no other, and no browser is lost: so the timer
\* of Acquire is there for a pool that is too small or closed, and for nothing else.
\* A render of the library, whose pool has a browser for each worker unless its warm-up
\* fell back to fewer, never needs it.
THEOREM AcquireFindsBrowser == Spec => []EnoughForAll
  <1>1. ASSUME IInv PROVE EnoughForAll
    <2>1. SUFFICES ASSUME ~ closed, Cardinality(Busy) <= Size,
                          NEW u \in User, pc[u] = "acquire", available = << >>
                   PROVE  FALSE
      BY DEF EnoughForAll
    <2>2. \A s \in Slot : \E v \in User : has[v] = s
      BY <1>1, <2>1 DEF IInv, NoneLost
    <2> DEFINE holder == [s \in Slot |-> CHOOSE v \in User : has[v] = s]
    <2>3. \A s \in Slot : holder[s] \in User /\ has[holder[s]] = s BY <2>2
    <2>4. \A s \in Slot : s # NoSlot BY PoolAssumption DEF Slot
    <2>5. \A s \in Slot : holder[s] \in Busy \ {u}
      <3>1. \A v \in User : has[v] # NoSlot => pc[v] \notin {"idle", "acquire"}
        BY <1>1 DEF IInv, Holding
      <3> HIDE DEF holder
      <3> QED BY <2>1, <2>3, <2>4, <3>1 DEF Busy
    <2>6. IsFiniteSet(Busy) /\ u \in Busy BY <2>1, UserAssumption, FS_Subset DEF Busy
    <2>7. /\ IsFiniteSet(Busy \ {u}) /\ Cardinality(Busy \ {u}) = Cardinality(Busy) - 1
          /\ Cardinality(Busy) \in Nat
      BY <2>6, FS_RemoveElement, FS_CardinalityType
    <2>8. IsFiniteSet(Slot) /\ Cardinality(Slot) = Size /\ Size \in Nat
      BY SlotsAreSize, PoolAssumption
    <2>9. Cardinality(Busy \ {u}) < Cardinality(Slot) BY <2>1, <2>7, <2>8
    <2>10. holder \in [Slot -> Busy \ {u}]
      <3>1. holder \in [Slot -> User] BY <2>3
      <3> QED BY <2>5, <3>1
    <2>11. PICK s, t \in Slot : s # t /\ holder[s] = holder[t]
      <3> HIDE DEF holder
      <3> QED BY <2>7, <2>8, <2>9, <2>10, FS_PigeonHole
    <2> HIDE DEF holder
    <2> QED BY <2>3, <2>11
  <1> QED BY <1>1, Invariance, PTL

\* When Renderer.Close runs, the workers have returned; their sessions are left for
\* it alone.
Closing ==
  \A u \in User : IF render[u[1]] = "closing" THEN pc[u] \in {"idle", "returned"}
                                              ELSE pc[u] # "returned"

LEMMA AlwaysClosing == Spec => []Closing
  <1> USE DEF Closing, poolVars, userVars, renderVars, closeVars
  <1>0. \A u \in User : u[1] \in Render BY PoolAssumption
  <1>1. Init => Closing
    BY <1>0 DEF Init
  <1>2. ASSUME Typed, Holding, Closing, [Next]_vars PROVE Closing'
    <2> USE DEF Typed
    <2>1. ASSUME NEW u \in User, UserStep(u) PROVE Closing'
      <3>1. PICK x \in {"idle", "acquire", "launch", "viewport", "frames"} :
              /\ pc' = [pc EXCEPT ![u] = x] /\ render' = render
              /\ x = "idle" \/ pc[u] \notin {"idle", "returned"}
        BY <2>1 DEF UserStep, AcquireStep, SessionStep, TakeHealthy, TakeUnhealthy,
                    LaunchSucceeds, LaunchFails, AcquireGivesUp, ViewportSet, ViewportFails,
                    FrameFails, ReleaseSession, GiveBack
      <3> QED BY <1>2, <3>1
    <2>2. ASSUME NEW r \in Render, RenderStep(r) PROVE Closing'
      <3>1. CASE StartRender(r) BY <1>0, <1>2, <3>1 DEF StartRender, Holding
      <3>2. CASE CancelRender(r) BY <1>2, <3>2 DEF CancelRender
      <3>3. CASE BeginClose(r) BY <1>0, <1>2, <3>3 DEF BeginClose
      <3>4. CASE EndRender(r) BY <1>0, <1>2, <3>4 DEF EndRender
      <3> QED BY <2>2, <3>1, <3>2, <3>3, <3>4 DEF RenderStep
    <2>3. CASE UNCHANGED <<pc, render>> BY <1>2, <2>3
    <2> QED BY <1>2, <2>1, <2>2, <2>3
        DEF Next, SetUpNext, SetUpFails, ChromeCrashes, Shutdown, ClosePool, CloseNext, vars
  <1>3. IInv => Typed /\ Holding BY DEF IInv
  <1> QED BY <1>1, <1>2, <1>3, Invariance, PTL DEF Spec

\* The guards of what a render's workers and its collector do next.
CanWork(u) ==
  \/ pc[u] = "acquire" /\ available # << >>
  \/ pc[u] \in {"launch", "viewport", "returned"}

CanCollect(r) ==
  \/ /\ render[r] = "running" /\ ctx[r]
     /\ \E u \in User : u[1] = r /\ pc[u] = "idle"
  \/ /\ render[r] = "running"
     /\ \A u \in User : u[1] = r => pc[u] = "frames" \/ (pc[u] = "idle" /\ ~ ctx[r])
  \/ /\ render[r] = "closing"
     /\ \A u \in User : u[1] = r => pc[u] = "idle"

\* A render under way can go on, or waits for a browser that others hold.
NeverStuck ==
  \A r \in Render :
    render[r] # "off" =>
      \/ CanCollect(r)
      \/ \E u \in User : u[1] = r /\ CanWork(u)
      \/ /\ closed \/ Cardinality(Busy) > Size
         /\ \E u \in User : u[1] = r /\ pc[u] = "acquire"

\* A render under way is never stuck, whatever has failed, died or been cancelled: only
\* a worker without a browser waits, for Acquire's timer at the longest, and only if the
\* pool is closed or the renders have more workers than there are browsers.
THEOREM NeverDeadlocks == Spec => []NeverStuck
  <1>1. ASSUME IInv, Closing, EnoughForAll PROVE NeverStuck
    <2>1. SUFFICES ASSUME NEW r \in Render, render[r] # "off", ~ CanCollect(r),
                          \A u \in User : u[1] = r => ~ CanWork(u)
                   PROVE  /\ closed \/ Cardinality(Busy) > Size
                          /\ \E u \in User : u[1] = r /\ pc[u] = "acquire"
      BY DEF NeverStuck
    <2>2. /\ \A u \in User : pc[u] \in {"idle", "acquire", "launch", "viewport", "frames", "returned"}
          /\ render[r] \in {"running", "closing"}
      BY <1>1, <2>1 DEF IInv, Typed
    <2>3. \E u \in User : u[1] = r /\ pc[u] = "acquire"
      <3>1. SUFFICES ASSUME \A u \in User : u[1] = r => pc[u] # "acquire" PROVE FALSE
        OBVIOUS
      <3>2. \A u \in User : u[1] = r => pc[u] \in {"idle", "frames"}
        BY <2>1, <2>2, <3>1 DEF CanWork
      <3>3. CASE render[r] = "closing" BY <1>1, <2>1, <3>2, <3>3 DEF Closing, CanCollect
      <3>4. CASE render[r] = "running" BY <2>1, <3>2, <3>4 DEF CanCollect
      <3> QED BY <2>2, <3>3, <3>4
    <2>4. available = << >> BY <2>1, <2>3 DEF CanWork
    <2>5. IsFiniteSet(Busy) BY UserAssumption, FS_Subset DEF Busy
    <2>6. Cardinality(Busy) \in Nat /\ Size \in Nat
      BY <2>5, FS_CardinalityType, PoolAssumption
    <2> QED BY <1>1, <2>3, <2>4, <2>6 DEF EnoughForAll
  <1> QED BY <1>1, Invariance, AlwaysClosing, AcquireFindsBrowser, PTL
=============================================================================

----------------------------- MODULE BrowserPool -----------------------------
(***************************************************************************)
(* Pool of internal/browser/pool.go and everybody who uses it: NewQueue,   *)
(* which turns request interception on in every browser at startup, the    *)
(* workers of the renders that share the pool (ensureSession, dropSession  *)
(* and Close of internal/pipeline/renderer.go), and the daemon's shutdown. *)
(*                                                                         *)
(* A slot is a browser id.  A slot has one instance at a time: the Browser *)
(* that Acquire launches in place of an unhealthy one takes over its id.   *)
(* Two facts about an instance are kept apart: "healthy" is the flag the   *)
(* program looks at, "alive" says whether Chrome runs, which the program   *)
(* only notices when an operation on the browser fails.  An instance dies  *)
(* with the context it was launched under.                                 *)
(***************************************************************************)
EXTENDS Integers, Sequences, FiniteSets

CONSTANTS
  Size,           \* browsers in the pool
  Render,         \* the renders that run side by side
  User,           \* their workers: pairs of a render and a worker's number
  Pooled,         \* the context of the pool itself, none of the renders
  NoSlot,         \* a worker holds no browser
  Flaky,          \* an operation on a living browser may fail
  Crashes,        \* Chrome may crash
  LaunchMayFail   \* Chrome may fail to start

ASSUME PoolAssumption ==
  /\ Size \in Nat \ {0}
  /\ User \subseteq Render \X Nat
  /\ Pooled \notin Render
  /\ NoSlot \notin 0 .. Size - 1
  /\ Flaky \in BOOLEAN /\ Crashes \in BOOLEAN /\ LaunchMayFail \in BOOLEAN

\* A render has finitely many workers, and finitely many renders run at a time.
ASSUME UserAssumption == IsFiniteSet(User)

Slot == 0 .. Size - 1

VARIABLES
  available,     \* the channel p.available
  healthy,       \* [Slot -> Browser.healthy]
  alive,         \* [Slot -> whether the instance's Chrome runs]
  parent,        \* [Slot -> the context that the instance was launched under]
  intercepted,   \* [Slot -> whether the instance has request interception on]
  setUp,         \* browsers that NewQueue has set up
  pc,            \* [User -> where the worker is]
  has,           \* [User -> the slot it holds, or NoSlot]
  render,        \* [Render -> "off", "running", "closing" or "cancelling"]
  ctx,           \* [Render -> whether renderCtx is live]
  daemon,        \* whether the daemon's context is live
  closed,        \* p.closed
  walk           \* slots that Close has cancelled so far

poolVars == <<available, healthy, alive, parent, intercepted>>
userVars == <<pc, has>>
renderVars == <<render, ctx>>
closeVars == <<closed, walk>>
vars == <<poolVars, setUp, userVars, renderVars, daemon, closeVars>>

Init ==
  \* NewPool has launched every browser under the daemon's context
  /\ available = [i \in 1 .. Size |-> i - 1]
  /\ healthy = [s \in Slot |-> TRUE]
  /\ alive = [s \in Slot |-> TRUE]
  /\ parent = [s \in Slot |-> Pooled]
  /\ intercepted = [s \in Slot |-> FALSE]
  /\ setUp = 0
  /\ pc = [u \in User |-> "idle"]
  /\ has = [u \in User |-> NoSlot]
  /\ render = [r \in Render |-> "off"]
  /\ ctx = [r \in Render |-> FALSE]
  /\ daemon = TRUE
  /\ closed = FALSE
  /\ walk = 0

-----------------------------------------------------------------------------
(* Pool's operations.                                                      *)

\* Release: the browser goes back, unless the pool is closed.
Released(s) == IF closed THEN available ELSE Append(available, s)

\* The instances whose context descends from one of the contexts C die.
KillUnder(C) == [s \in Slot |-> alive[s] /\ parent[s] \notin C]

\* A mutation of SetUpNext: the channel is a stack.
SetUpLast ==
  /\ setUp < Size /\ ~ closed
  /\ alive[Head(available)]
  /\ intercepted' = [intercepted EXCEPT ![Head(available)] = TRUE]
  /\ setUp' = setUp + 1
  /\ UNCHANGED <<available, healthy, alive, parent, userVars, renderVars, daemon, closeVars>>

\* NewQueue's loop: acquire a browser, enable interception, release it.
SetUpNext ==
  /\ setUp < Size /\ ~ closed
  /\ alive[Head(available)]
  /\ LET s == Head(available) IN
       /\ intercepted' = [intercepted EXCEPT ![s] = TRUE]
       /\ available' = Append(Tail(available), s)
  /\ setUp' = setUp + 1
  /\ UNCHANGED <<healthy, alive, parent, userVars, renderVars, daemon, closeVars>>

\* Interception cannot be enabled: NewQueue releases the browser, closes the
\* pool and returns the error.
SetUpFails ==
  /\ setUp < Size /\ ~ closed
  /\ Flaky \/ ~ alive[Head(available)]
  /\ available' = Append(Tail(available), Head(available))
  /\ closed' = TRUE
  /\ UNCHANGED <<healthy, alive, parent, intercepted, setUp, userVars, renderVars, daemon, walk>>

\* Acquire receives a healthy browser.
TakeHealthy(u) ==
  /\ pc[u] = "acquire"
  /\ available # << >>
  /\ healthy[Head(available)]
  /\ available' = Tail(available)
  /\ has' = [has EXCEPT ![u] = Head(available)]
  /\ pc' = [pc EXCEPT ![u] = "viewport"]
  /\ UNCHANGED <<healthy, alive, parent, intercepted, setUp, renderVars, daemon, closeVars>>

\* Acquire receives an unhealthy one: it is cancelled, to be replaced.
TakeUnhealthy(u) ==
  /\ pc[u] = "acquire"
  /\ available # << >>
  /\ ~ healthy[Head(available)]
  /\ available' = Tail(available)
  /\ has' = [has EXCEPT ![u] = Head(available)]
  /\ alive' = [alive EXCEPT ![Head(available)] = FALSE]
  /\ pc' = [pc EXCEPT ![u] = "launch"]
  /\ UNCHANGED <<healthy, parent, intercepted, setUp, renderVars, daemon, closeVars>>

\* A mutation of LaunchSucceeds: the replacement is launched under a context of
\* its own, context.Background().
LaunchInBackground(u) ==
  /\ pc[u] = "launch"
  /\ healthy' = [healthy EXCEPT ![has[u]] = TRUE]
  /\ alive' = [alive EXCEPT ![has[u]] = TRUE]
  /\ parent' = [parent EXCEPT ![has[u]] = Pooled]
  /\ intercepted' = [intercepted EXCEPT ![has[u]] = FALSE]
  /\ pc' = [pc EXCEPT ![u] = "viewport"]
  /\ UNCHANGED <<available, setUp, has, renderVars, daemon, closeVars>>

\* The replacement is launched under the context that was given to Acquire.
LaunchSucceeds(u) ==
  /\ pc[u] = "launch"
  /\ ctx[u[1]]
  /\ healthy' = [healthy EXCEPT ![has[u]] = TRUE]
  /\ alive' = [alive EXCEPT ![has[u]] = TRUE]
  /\ parent' = [parent EXCEPT ![has[u]] = u[1]]
  /\ intercepted' = [intercepted EXCEPT ![has[u]] = FALSE]
  /\ pc' = [pc EXCEPT ![u] = "viewport"]
  /\ UNCHANGED <<available, setUp, has, renderVars, daemon, closeVars>>

\* A mutation of LaunchFails: the browser is not put back.
LaunchFailsDropping(u) ==
  /\ pc[u] = "launch"
  /\ LaunchMayFail \/ ~ ctx[u[1]]
  /\ has' = [has EXCEPT ![u] = NoSlot]
  /\ pc' = [pc EXCEPT ![u] = "acquire"]
  /\ UNCHANGED <<poolVars, setUp, renderVars, daemon, closeVars>>

\* The launch fails: the dead browser goes back on the channel, whether or not
\* the pool is closed, and Acquire's loop goes round again.
LaunchFails(u) ==
  /\ pc[u] = "launch"
  /\ LaunchMayFail \/ ~ ctx[u[1]]
  /\ available' = Append(available, has[u])
  /\ has' = [has EXCEPT ![u] = NoSlot]
  /\ pc' = [pc EXCEPT ![u] = "acquire"]
  /\ UNCHANGED <<healthy, alive, parent, intercepted, setUp, renderVars, daemon, closeVars>>

\* A mutation of AcquireGivesUp: Acquire has no timeout.
AcquireGivesUpOnCancel(u) ==
  /\ pc[u] = "acquire"
  /\ ~ ctx[u[1]]
  /\ pc' = [pc EXCEPT ![u] = "idle"]
  /\ UNCHANGED <<poolVars, setUp, has, renderVars, daemon, closeVars>>

\* Acquire's timer fires or its context is done; which ready case of the select
\* is taken is open.
AcquireGivesUp(u) ==
  /\ pc[u] = "acquire"
  /\ pc' = [pc EXCEPT ![u] = "idle"]
  /\ UNCHANGED <<poolVars, setUp, has, renderVars, daemon, closeVars>>

-----------------------------------------------------------------------------
(* The workers of a render.                                                *)

\* A render begins with a context of its own, and its workers want browsers.
StartRender(r) ==
  /\ setUp = Size
  /\ daemon
  /\ render[r] = "off"
  /\ render' = [render EXCEPT ![r] = "running"]
  /\ ctx' = [ctx EXCEPT ![r] = TRUE]
  /\ pc' = [u \in User |-> IF u[1] = r THEN "acquire" ELSE pc[u]]
  /\ UNCHANGED <<poolVars, setUp, has, daemon, closeVars>>

\* ensureSession sets the viewport, and the worker renders its frames.
ViewportSet(u) ==
  /\ pc[u] = "viewport"
  /\ alive[has[u]]
  /\ pc' = [pc EXCEPT ![u] = "frames"]
  /\ UNCHANGED <<poolVars, setUp, has, renderVars, daemon, closeVars>>

\* The worker gives its browser back and returns.
GiveBack(u) ==
  /\ available' = Released(has[u])
  /\ has' = [has EXCEPT ![u] = NoSlot]
  /\ pc' = [pc EXCEPT ![u] = "idle"]

\* The viewport cannot be set: the browser is released as it is.
ViewportFails(u) ==
  /\ pc[u] = "viewport"
  /\ Flaky \/ ~ alive[has[u]]
  /\ GiveBack(u)
  /\ UNCHANGED <<healthy, alive, parent, intercepted, setUp, renderVars, daemon, closeVars>>

\* A mutation of FrameFails: the session stays in Renderer.sessions after its
\* browser was released, and Renderer.Close releases it again.
FrameFailsKeepingSession(u) ==
  /\ pc[u] = "frames"
  /\ Flaky \/ ~ alive[has[u]]
  /\ healthy' = [healthy EXCEPT ![has[u]] = FALSE]
  /\ available' = Released(has[u])
  /\ pc' = [pc EXCEPT ![u] = "returned"]
  /\ UNCHANGED <<alive, parent, intercepted, setUp, has, renderVars, daemon, closeVars>>

\* A frame fails: MarkUnhealthy and dropSession.
FrameFails(u) ==
  /\ pc[u] = "frames"
  /\ Flaky \/ ~ alive[has[u]]
  /\ healthy' = [healthy EXCEPT ![has[u]] = FALSE]
  /\ GiveBack(u)
  /\ UNCHANGED <<alive, parent, intercepted, setUp, renderVars, daemon, closeVars>>

\* The collector cancels renderCtx at the first error, or the caller does.
CancelRender(r) ==
  /\ render[r] = "running"
  /\ ctx[r]
  /\ ctx' = [ctx EXCEPT ![r] = FALSE]
  /\ alive' = KillUnder({r})
  /\ UNCHANGED <<available, healthy, parent, intercepted, setUp, userVars, render,
                 daemon, closeVars>>

\* Every worker has returned.  Those that met no error left their session; if
\* one did, the collector has cancelled renderCtx.
BeginClose(r) ==
  /\ render[r] = "running"
  /\ \A u \in User : u[1] = r => pc[u] = "frames" \/ (pc[u] = "idle" /\ ~ ctx[r])
  /\ render' = [render EXCEPT ![r] = "closing"]
  /\ pc' = [u \in User |-> IF u[1] = r /\ pc[u] = "frames" THEN "returned" ELSE pc[u]]
  /\ UNCHANGED <<poolVars, setUp, has, ctx, daemon, closeVars>>

\* Renderer.Close releases the sessions one by one, in no fixed order.
ReleaseSession(u) ==
  /\ pc[u] = "returned"
  /\ GiveBack(u)
  /\ UNCHANGED <<healthy, alive, parent, intercepted, setUp, renderVars, daemon, closeVars>>

\* The deferred cancel, after Renderer.Close.
EndRender(r) ==
  /\ render[r] = "closing"
  /\ \A u \in User : u[1] = r => pc[u] = "idle"
  /\ render' = [render EXCEPT ![r] = "off"]
  /\ ctx' = [ctx EXCEPT ![r] = FALSE]
  /\ alive' = KillUnder({r})
  /\ UNCHANGED <<available, healthy, parent, intercepted, setUp, userVars, daemon, closeVars>>

-----------------------------------------------------------------------------
(* Chrome and the daemon.                                                  *)

ChromeCrashes(s) ==
  /\ Crashes
  /\ alive[s]
  /\ alive' = [alive EXCEPT ![s] = FALSE]
  /\ UNCHANGED <<available, healthy, parent, intercepted, setUp, userVars, renderVars,
                 daemon, closeVars>>

\* SIGTERM: the daemon's context, the parent of all others, is cancelled.
Shutdown ==
  /\ daemon
  /\ daemon' = FALSE
  /\ ctx' = [r \in Render |-> FALSE]
  /\ alive' = KillUnder(Render \cup {Pooled})
  /\ UNCHANGED <<available, healthy, parent, intercepted, setUp, userVars, render, closeVars>>

\* run returns, after a signal or because the HTTP server failed; its deferred
\* Stop calls Pool.Close, and in the second case the context is cancelled later.
ClosePool ==
  /\ setUp = Size
  /\ ~ closed
  /\ closed' = TRUE
  /\ UNCHANGED <<poolVars, setUp, userVars, renderVars, daemon, walk>>

\* Close cancels the instances of p.all one after the other, without the lock.
CloseNext ==
  /\ closed
  /\ walk < Size
  /\ alive' = [alive EXCEPT ![walk] = FALSE]
  /\ walk' = walk + 1
  /\ UNCHANGED <<available, healthy, parent, intercepted, setUp, userVars, renderVars,
                 daemon, closed>>

-----------------------------------------------------------------------------
AcquireStep(u) ==
  \/ TakeHealthy(u) \/ TakeUnhealthy(u)
  \/ LaunchSucceeds(u) \/ LaunchFails(u)

SessionStep(u) ==
  \/ ViewportSet(u) \/ ViewportFails(u)
  \/ FrameFails(u) \/ ReleaseSession(u)

UserStep(u) == AcquireStep(u) \/ AcquireGivesUp(u) \/ SessionStep(u)

RenderStep(r) == StartRender(r) \/ CancelRender(r) \/ BeginClose(r) \/ EndRender(r)

Next ==
  \/ SetUpNext \/ SetUpFails
  \/ \E u \in User : UserStep(u)
  \/ \E r \in Render : RenderStep(r)
  \/ \E s \in Slot : ChromeCrashes(s)
  \/ Shutdown \/ ClosePool \/ CloseNext

Spec == Init /\ [][Next]_vars

\* What a worker does next, a failing frame and giving up excepted.
WorkStep(u) == AcquireStep(u) \/ ViewportSet(u) \/ ViewportFails(u) \/ ReleaseSession(u)

\* What a render's collector does next: it cancels a render in which a worker
\* failed, and it ends the render.
CollectorStep(r) ==
  \/ (\E u \in User : u[1] = r /\ pc[u] = "idle") /\ CancelRender(r)
  \/ BeginClose(r)
  \/ EndRender(r)

\* The goroutines of a render are scheduled: its workers and its collector go on,
\* one of them at least.  A fired timer stays ready and select picks among the
\* ready cases at random, so an Acquire that keeps coming back to its select gives
\* up at last (strong fairness).  No frame has to fail, no job has to come and
\* nobody has to cancel.
Fairness ==
  \A r \in Render :
    /\ WF_vars((\E u \in User : u[1] = r /\ WorkStep(u)) \/ CollectorStep(r))
    /\ SF_vars(\E u \in User : u[1] = r /\ AcquireGivesUp(u))

FairSpec == Spec /\ Fairness

\* Every chance for the program: each goroutine is scheduled fairly, the daemon
\* keeps getting jobs, their workers do not give up for ever while browsers are
\* there, and a worker whose browser is dead notices.
BusySpec ==
  /\ Spec
  /\ WF_vars(SetUpNext \/ CloseNext)
  /\ \A r \in Render : WF_vars(CollectorStep(r)) /\ WF_vars(StartRender(r))
  /\ \A u \in User : /\ WF_vars(WorkStep(u)) /\ SF_vars(AcquireGivesUp(u))
                     /\ SF_vars(TakeHealthy(u) \/ TakeUnhealthy(u))
                     /\ WF_vars(FrameFails(u) /\ ~ alive[has[u]])

-----------------------------------------------------------------------------
(* Properties.                                                             *)

TypeOK ==
  /\ available \in Seq(Slot) /\ Len(available) <= Size
  /\ healthy \in [Slot -> BOOLEAN]
  /\ alive \in [Slot -> BOOLEAN]
  /\ parent \in [Slot -> Render \cup {Pooled}]
  /\ intercepted \in [Slot -> BOOLEAN]
  /\ setUp \in 0 .. Size
  /\ pc \in [User -> {"idle", "acquire", "launch", "viewport", "frames", "returned"}]
  /\ has \in [User -> Slot \cup {NoSlot}]
  /\ render \in [Render -> {"off", "running", "closing"}]
  /\ ctx \in [Render -> BOOLEAN]
  /\ daemon \in BOOLEAN
  /\ closed \in BOOLEAN
  /\ walk \in 0 .. Size

\* No browser is handed to two workers, and none that a worker holds waits in
\* the channel as well: two renders never drive the same page, and the channel
\* never overflows, so that Release cannot block with the pool's lock held.
Exclusive ==
  /\ \A i, j \in 1 .. Len(available) : i # j => available[i] # available[j]
  /\ \A u, v \in User : u # v /\ has[u] # NoSlot => has[u] # has[v]
  /\ \A u \in User, i \in 1 .. Len(available) : has[u] # available[i]

\* Failures, timeouts and replacements lose no browser: until the pool is
\* closed each one waits in the channel or is in some worker's hands.
NoneLost ==
  ~ closed =>
    \A s \in Slot : \/ \E i \in 1 .. Len(available) : available[i] = s
                   \/ \E u \in User : has[u] = s

\* internal/jobs/queue.go:115: NewQueue's loop over the pool, which takes one
\* browser after the other from a channel that they return to, turns interception
\* on in every warm browser.
SetUpReachesEveryBrowser ==
  setUp = Size => \A s \in Slot : parent[s] = Pooled => intercepted[s]

\* Close does not wait for an Acquire that is launching a replacement, and so does
\* not stop that Chrome; but it stops every other one, and no Chrome is left
\* running when the daemon's context is cancelled.
ShutdownStopsChrome ==
  /\ walk = Size => \A s \in Slot : alive[s] => parent[s] \in Render /\ ctx[parent[s]]
  /\ ~ daemon => \A s \in Slot : ~ alive[s]

\* No render goes on for ever, although its workers hold browsers while others
\* wait for them, browsers die, and launches may keep failing: again and again
\* each render is over.
RendersEnd == \A r \in Render : []<>(render[r] = "off")

\* pool.go:33, "IsHealthy reports whether the browser is alive.": the flag may
\* lag behind, but a dead browser does not stay healthy while jobs use the pool.
HealthCatchesUp ==
  \A s \in Slot : []<>(healthy[s] => alive[s] \/ ~ daemon \/ closed)
=============================================================================

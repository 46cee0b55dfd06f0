# Verification of gorender

gorender renders a web page to an MP4: workers drive headless Chrome instances,
seek the page to each frame and take a screenshot; the screenshots are put back
in order and piped into ffmpeg. `cmd/gorender` renders once, `cmd/gorendersd`
is a daemon that renders jobs submitted over HTTP. This directory holds TLA+
models of the program's concurrent core, the TLC configurations that check
them, and machine-checked proofs of the properties that matter most.

    tlc -config RenderPipeline.cfg MCRenderPipeline      # one run
    tlapm RenderPipelineProofs.tla                       # one module of proofs

`PROJECT.json` lists the runs, for each property a mutation of the model that
breaks it, the source lines of every definition, the hazards of the code with
the properties that cover them, and the theorems.

## The system

| Component | State | Operations | Interacts with |
|---|---|---|---|
| Render pipeline, `internal/pipeline/renderer.go` | workers' positions, `results`, `ReorderBuffer` (pending, next, `out`), `errc`, `renderCtx`, `Renderer.sessions` | `Run`, `RenderFrame`, `Push`, `ForceClose`, `Close` | takes browsers from the pool; its `out` is read by a relay or the writer |
| Frame relays, `trackProgress` (`internal/jobs/queue.go`), `withProgress` (`render.go`) | frames counted, one frame in hand | receive, count, send on | between the pipeline and the writer |
| FFmpeg writer, `internal/ffmpeg/writer.go` | ffmpeg process, `lastWritten`, `writeErr`, output file | `Write`, `encodeVideo` | reads the frames; its caller reads `errc` afterwards |
| Browser pool, `internal/browser/pool.go` | `available`, `all`, `closed`; per browser `healthy` and a context | `Acquire`, `Release`, `MarkUnhealthy`, `Close` | used by the workers of all renders and by `NewQueue` |
| Job queue and store, `internal/jobs` | `jobs` map, `incoming`, `sem`, one goroutine per job, files on disk | `Enqueue`, `dispatchLoop`, `runJob`, `markDone`, `markFailed`, `cleanup`, `Prune` | runs pipeline and writer (`renderJob`); shared with the handlers |
| HTTP server, `internal/server` | none of its own | create, list, get, download, delete | reads and writes jobs, removes and opens files |
| Daemon, `cmd/gorendersd` | the signal context | start, shutdown | cancels everything, closes the pool |
| Page session, `RenderFrame` of `renderer.go` | in the page: document, `__READY__`, `__FRAME_READY__`, `__GORENDER_TIMELINE__`; in the program: the frame, the session | seek, navigate, place the timeline, poll, capture | one per worker; the page stays in the browser for its next user |
| Asset cache, `internal/cache` | entries by URL without query; no record of what is being fetched | `Prefetch`, `EnableInterception` and its listener, `Get`, `Put` | filled by `Render` and `Warmup`, put between browsers and network by these and `NewQueue` |
| Scheduler, `internal/scheduler` | `jobs` and `results`, counters `pending`, `rendered`, `failed` | `Submit`, `Run`, `runWorker`, `Close`, `Stats` | its tests; no program of the repository uses it |
| Frame arithmetic, `opensource/engine/timeline`, `internal/composition`, `resolveDurationFrames` | none | resolve durations, count frames, locate a frame | chooses what is rendered |
| Shards, `internal/distributed`, `shard-plan` and `concat` of `cmd/gorender` | files | plan, render a shard, join | each shard is a render of its own |
| Presets, interpolation, command line | none | tables, easing, flags | - |

The hard behaviours are the interleavings of one render's goroutines (workers,
closer, collector, relay, writer) with failures and cancellation in the middle;
browsers that are shared by renders, crash, and are replaced under the context
of whoever asks; and job records that handlers, the job's goroutine and the
cleanup read and write at the same time, the handlers without the store's lock.

What makes each part correct:

* pipeline: the reader gets every frame once and in order; a channel that is
  closed without an error was complete; no send on a closed channel; no browser
  is kept when the end is reported; the end is reported at all.
* whole render: success means a complete video with each frame in its place;
  failures are reported; the call returns.
* pool: a browser has one user, none is lost, none outlives the daemon, a dead
  one is replaced, and no render waits for ever; a render that the pool is too small
  for is reported as failed.
* page session: a screenshot shows the frame and the composition that were asked
  for, although the page answers when it likes and may be somebody else's.
* frame arithmetic: the frames last as long as the slides, every frame lies in one
  slide, and shards joined are the whole video.
* asset cache: all browsers of a render that are served from the cache get the same
  response, a prefetch that succeeded saves every later fetch, and no page waits for
  ever but for a request of its own that was lost.
* scheduler: every job has one outcome, the counter of pending jobs counts them,
  and who drains the results comes to their end.
* jobs: the concurrency bound, statuses that only go forward, videos that are
  there while their job is done and do not stay for ever, and jobs that settle.

## Modules

| Module | Models | Checked by |
|---|---|---|
| `OrderedStream` | abstract specification: an ordered finite stream over a bounded channel that ends completely or is aborted | refined by `RenderPipeline` |
| `RenderPipeline` | `RenderPipeline.Run`, `Renderer.RenderFrame/ensureSession/dropSession/Close`, `ReorderBuffer`, `buildWorkerChunks`, and the sizes `warmBrowserPoolWithFallback` leaves | `pipeline` |
| `RenderRun` | `RenderPipeline` composed with a relay, `Writer.Write` and the caller that reads `errc` | `render`, `cancelled_render`, `render_leak` |
| `BrowserPool` | `Pool`, `NewQueue`'s loop over it, the workers that use it, shutdown | `pool`, `stale_health` |
| `PageSession` | what `RenderFrame` and audio discovery do with one browser's page, over successive renders | `page`, `leftover_page` |
| `FrameMath` | the timeline, the resolution of durations, `BuildShards`, as operators | through `ShardedRender` |
| `ShardedRender` | a video on its way through duration resolution, `shard-plan`, the renders of the shards and `concat` | `shards` |
| `JobQueue` | `Queue`, `Store`, the handlers that change or open things, cleanup, shutdown | `jobs` |
| `AssetCache` | `AssetCache` and the set-up loops of `Render`, `Warmup` and `NewQueue` | `assets` |
| `Scheduler` | `Scheduler` as its tests drive it | `scheduler` |
| `MC...` | values of the constants | |
| `RenderPipelineProofs`, `RenderRunProofs`, `BrowserPoolProofs`, `PageSessionProofs`, `ShardedRenderProofs`, `JobQueueProofs`, `AssetCacheProofs`, `SchedulerProofs` | proofs | `tlapm` |

`RenderRun` extends `RenderPipeline` and replaces its reader (`Consume`) by the
goroutines that read the channel in the program. `BrowserPool` and `JobQueue`
stand for themselves: in `BrowserPool` a render is reduced to what it does with
browsers, in `JobQueue` an attempt is one step with two outcomes. The outcomes
are those `RenderRun` has: complete video, or an error with or without a padded
video at the output path. `AssetCache` and `Scheduler` stand for themselves too:
the first keeps of a pool the browsers that are set up and those that are replaced, the
second shares nothing with the rest of the program.

### RenderPipeline

A frame is its sequence number. `wpc[w]` is the place of worker `w` in its loop
(`check` the `select` on `renderCtx.Done`, `acquire`/`capture` inside
`RenderFrame`, `write` the optional `os.WriteFile`, `send`), `done[w]` the
results it has sent. `results`, `out`, `errc` are the channels; `buf` and `next`
the reorder buffer; `cpc` the collector. `held` is `Renderer.sessions`, `browsers` the
browsers in the pool: `PoolSize` is what was asked for, and warm-up falls back to half
of it and to one (`WarmedSizes`). A worker keeps its browser until the collector
closes the sessions, so a render with more workers than browsers cannot succeed
(`ShortPoolFails`); each attempt of such a job of the daemon fails the same way. Any frame
in `Faulty` may fail at any of the stages, and each stage may fail once the
context is done. `Total`, `FrameOf`, `ChunkSize` and `Offset` are the arithmetic of
`countFramesToRender` and `buildWorkerChunks`, the last frame that the stride
misses included. Pixels, cloning of buffers, paths and logs are left out; what a
page shows is `PageSession`.

### RenderRun

Three kinds of relay: `track` (daemon), `progress` (library, which also watches
the caller's context) and `none` (bench and parity commands). The writer is
`encodeVideo` frame by frame: gaps are filled with the last frame, after a write
error it only drains, at the end the last frame fills the video to its duration.
ffmpeg may fail to start, die, or exit with an error; the upscale and mux steps
after it are one step that may fail.

### BrowserPool

A slot is a browser id, and has one instance at a time. The program's flag
(`healthy`) and the truth (`alive`) are separate variables, because the program
only learns the truth when an operation fails. `parent` is the context that an
instance was launched under: `NewPool`'s, or that of the render whose `Acquire`
replaced an unhealthy browser; an instance dies with it. Constants say whether
operations on a living browser may fail, Chrome may crash and launches may fail.
`Size` may be smaller than the number of workers, which is what the fallback of
`warmBrowserPoolWithFallback` leads to. `Close` walks the slots step by step,
without the lock, while renders go on.

### PageSession

`BrowserPool` shows that a browser has one user at a time (`Exclusive`), so one
browser with one worker is enough here; the worker's chunk is a range of frames, and
one render follows the other. `page` is the document: its composition, the frame it
shows, the newest request (`asked`), the requests it has not answered (`waiting`)
and the three variables that it shares with the program. The worker's steps are
those of `RenderFrame`: `Seek` or `Navigate`, `SetContext` (whose failure is logged
and ignored), `FrameReady`, `Capture`, or `FrameFails`, which marks the browser
unhealthy. In the library a render has a browser of its own, an offset, a timeline,
and may have looked for audio in the page before; in the daemon it has none of these
and gets the page that the last job left.

The page is not in this repository. It is assumed to follow the frontend contract:
it paints the newest frame it was asked for and then raises `__READY__` and, if it
marks frames, writes `__FRAME_READY__`. An answer may be late, and the answer to a
request that a newer one has overtaken still comes. The ready signal is the default
one. A page that answers before it has painted is beyond what the program can know.

### FrameMath and ShardedRender

Durations are integers in milliseconds; the rounded float quotients of the code are
integer quotients. A rate of frames may be anything: `Render` checks none, a rate that is
not positive gives no frames by a formula of its own, and `LocateFrame` is asked at positive
rates only. `Announced` keeps, in their order, the durations that the page announces and that
are positive. A source that is not known is refused. `ShardedRender` is the procedure of
`opensource/docs/distributed-render-mvp.md`, in which a frame of a video is the
absolute frame that it shows: `Held` says which one a render with a frame step shows
at each place (`RenderRun` shows that its writer does). A shard may be rendered again
at any time before the files are joined. The clause that a shard's number of frames
goes through the same resolution as any other matters: an empty shard would be
taken for a whole video.

### JobQueue

`store[j]` is the job's status, `absent` when it is not in the map; `runner[j]`
is the place of its goroutine in `runJob`. Ids are fresh in the code, so a job is
created once. A handler is as many actions as it has accesses to shared state:
DELETE looks the job up, removes the file of a job that has an output path, and
writes the status; a download looks the status up and later opens the file. Time
is the retention period only: `oldJob` (creation time, read by `Prune`) and
`oldFile` (modification time, read by `cleanup`).

### AssetCache

`caller` says which of the three set-ups is modelled: `Render` and `Warmup` call
`Prefetch` with a list, `NewQueue` does not, and `Warmup` loads a page in each browser
before it sets up the next. A URL is its path, its query and whether one of
`isStaticAsset`'s extensions occurs in it, and a response is named by the URL it
answers; the cache's key is the path. `fetch` holds the goroutines of `Prefetch`,
`errs` the errors on their channel. `EnableInterception` returns before its goroutine
has registered the listener: `enabled` and `listening` are separate, and a request that
Chrome pauses in between is `unheard` and never answered. When Chrome does not take the
answer to a request, the code logs it and leaves the request paused: `unanswered`, an
outcome of `Serve` and of `Continue` at any time. Either way the request is lost and its
page never loads (`Lost`). `bare` holds browsers
that an `Acquire` of the daemon has launched in place of unhealthy ones, without
interception. Only the request stage is intercepted, so no response is ever captured:
the branch for it cannot be reached, and the daemon's cache stays empty. What Chrome does (a page requests
itself first and the rest when it is answered; a load event when all is answered) is
external.

### Scheduler

One goroutine calls `Submit` and `Close`, one drains the results, and `Submit` and `Run`
share a context, as in `scheduler_test.go`. `submitter = "count"` is the moment between
the send of a job and `pending.Add(1)`, in which a worker may already have finished it.
A worker that sees the cancellation answers the job it has taken, lowers no counter and
stops; jobs may stay on the channel.

## What the runs show

| Run | Instance | Shows |
|---|---|---|
| `pipeline` | 2 workers, 16 frames at stride 2 (9 rendered, the last one off the stride, uneven chunks), each may fail, caller may cancel, frames kept on disk, 2 browsers or 1 left by the fallback | `InOrderDelivery`, `FrameConservation`, `StreamEnds`, `BrowsersReturned`, `ShortPoolFails`; `NoSendOnClosedChannel`; it implements `OrderedStream`; `RunEnds` |
| `render` | 2 workers, 8 frames at stride 2 (5 rendered), every relay, failing frames and ffmpeg, cancellation | success means a complete video, the video is always a prefix of it, failures of frames, of ffmpeg and of writes are reported, Render returns |
| `pool` | 2 browsers, two renders of 2 workers, Chrome may crash, launches may fail | a browser has one user, none is lost, every warm one is set up, shutdown leaves none; every render ends although each may hold one browser and wait for the other's |
| `page` | 3 kinds of page (plain, seekable, seekable and marking), 3 frames, offsets 0 and 2 | a screenshot shows its frame on a page that the render has loaded, and in the daemon on one that the same composition left; the timeline object is that of the frame |
| `shards` | up to 3 slides of 0 to 70 ms at 24, 30 and 60 fps from every source, what is refused (an unknown source, a negative rate), up to 4 shards, frame steps 1 and 2 | resolved frames fit the slides, no empty shard, the joined video is the whole one, time goes forward |
| `jobs` | 2 jobs, 1 slot, channel of 1, 2 attempts; one job is also deleted, downloaded and grows old | concurrency bound, statuses, videos, `JobsSettle`, `VideosAreCleaned` |
| `assets` | 2 browsers, each caller, a page with a font and two versions of an image that share a key, four lists to prefetch, fetches, set-ups and answers that fail, replaced browsers | a successful prefetch pays off, all browsers that are served an entry get the same response, set-up and page loads end unless a page has lost a request of its own |
| `scheduler` | 2 workers, 5 jobs, channels of 2, frames that fail, a cancellation at any time | jobs are conserved, `pending` counts them, the results are complete and end |

Why these bounds are enough: nine frames are more than the capacity of `out` (4) and
of `results` (4) together, so both fill and every sender blocks; with two workers,
one chunk's frames all wait in the reorder buffer for the other's. Two renders of two
workers with two browsers between them are the least in which each can hold a browser
and wait for the other's; operations on a living browser do not fail in `pool`
(`Flaky`), since crashes and cancellations lead to the same steps, and the proofs
leave that open. Three frames give a first, a middle and a last one, and offset 2 tells a
local frame from an absolute one and from the frame 0 that audio discovery loads.
Slides of 33 and 34 ms lie on both sides of a frame at 30 fps, those of 1 ms below
any, and a zero stands for the default; up to thirteen frames over four shards leave
every remainder. One slot and a channel of one entry make the second job wait at
each place where a job can wait; two attempts have a first, a last and a back-off
between them. Two URLs of one key and one of another are the least in which fetches
race for an entry and others do not; the lists hold every order that matters: none,
one, the racing pair with another asset, and a page that is never served from the
cache. Five jobs are more than the two channels hold together, so that submitter and
workers block on each of them.

Four runs end in a violation. Each states what a comment or the README says and
shows a behaviour of the code that differs:

* `cancelled_render`: a cancelled worker sends no result, so nothing closes the
  frame channel and `trackProgress` and `Write` wait for ever. The comment on
  `Queue.Stop` says that jobs in flight fail.
* `render_leak`: when ffmpeg does not start nobody drains the frames, the
  collector blocks, and the job's browsers never come back to the pool.
* `stale_health`: a replacement browser dies with the render it was launched for
  and stays in the pool, marked healthy, for ever: each job that gets it fails to
  set the viewport and releases it as it is.
* `leftover_page`: a session is always taken for ready to seek, so a job of the daemon
  seeks and captures the page that another composition's job has left in the browser,
  if that page can be seeked; the contract says that it navigates to the job's URL.

One more disagreement needs no run to be seen. The comments in `asset_cache.go` (141-143
and 197-200) say that a miss is fetched, captured and stored, and served from then on.
`EnableInterception` calls `fetch.Enable()` without patterns, which pauses requests only and
never responses, so `ResponseStatusCode` is always 0 at line 201 and `captureResponse` is
dead code: no action of `AssetCache` can store a response but `Store`, and a missing asset is
continued every time. `OneResponsePerKey` speaks of what is served from the cache and would
have to hold if misses were stored too; `LoadsEnd` says that a miss is continued and not left
to the stage that never comes. The same comment says "All network requests from that browser
will be served": the lost requests are not, and the properties except them.

## Fairness

Goroutines are weakly fair. Rendering a frame ends: the waits for a browser and for
readiness have timeouts; navigation and evaluation have none in the code, so it is
assumed that page loads end or that Chrome reports their failure. The reader of the
frames keeps reading in `pipeline`; in `render` it is the real one. No caller has to
cancel, no frame to fail, no Chrome to crash and no client to come. In `BrowserPool`
it is enough for `RendersEnd` that of each render's goroutines one goes on, and that
giving up is strongly fair: `Acquire` comes back to its `select` again and again, a
fired timer stays ready and `select` chooses among the ready cases at random. In
`JobQueue` the send into the queue is strongly fair since Go serves the waiters of a
channel in order; an attempt ends while the daemon lives (`RenderReturns` of
`RenderRun`; the same module shows that after a cancellation it need not), the
cleanup ticks, and time passes. `BusySpec` of `BrowserPool`, for `stale_health`
only, is fair to every goroutine and adds that jobs keep coming and that a worker
notices a dead browser: the violation needs the program to have every chance. In
`AssetCache` goroutines run, fetches end by the client's timeout and a page that is
loaded requests what it needs. An answer that is due is given or fails; which of them is
left open. `SetUpEnds` and `LoadsEnd` except a page that has lost a request, unheard or
unanswered, which the code does allow: `LoadsEnd` for that very browser only, `SetUpEnds` for
the page that `Warmup` waits for, without a timeout of its own, only. In `Scheduler` the goroutines run, the
caller drains the results, as the comment on `Run` asks, and `workerFunc` returns.

## Proofs

All theorems but `ShardsTile` and `LocateFrameInOrder` are about `Spec` (`RunSpec` in
`RenderRunProofs`); they hold for every value of the constants that satisfies the module's
assumption (positive numbers of workers, frames and stride, finite sets of jobs, of workers
that share a pool and of URLs that a page requests, positive bounds; in `ShardedRender` any
integers, sequences of them and any source in a request). Every safety property of every
passing run is stated by a theorem.

Liveness is out of the provers' reach, but most of its argument is not: that nobody works for
ever, and that nobody waits for ever. The first is a number that every step makes
smaller (`StepsLeft`; for jobs, a stage that every step raises), the second an invariant that
says that until the end the guard of some action holds (`NeverStuck`; the `Can...` operators
repeat the guards, since the prover does not know `ENABLED`, and TLC finds them equal to it
on the runs' instances). Together they leave for fairness only that somebody who can go on
does. Each of the proof modules of a part with a liveness property has such theorems:

| Module | Finite | Never stuck |
|---|---|---|
| `RenderPipelineProofs` | `RunIsFinite` | `NeverDeadlocks`, until the collector has ended |
| `RenderRunProofs` | `RenderIsFinite`, after a cancellation too | `RenderNeverDeadlocks`, until Render has returned, if it is not cancelled |
| `SchedulerProofs` | `SchedulerIsFinite`, cancelled or not | `NeverDeadlocks`, until the results are read and closed |
| `JobQueueProofs` | `JobsGoForward`, for each job | `NeverDeadlocks`, in a daemon that lives |
| `AssetCacheProofs` | `SetUpIsFinite`, until the last browser is set up | `NeverDeadlocks`, unless a page has lost a request of its own |
| `BrowserPoolProofs` | none: launches may fail again and again until the timer of `Acquire` fires | `NeverDeadlocks`, but for workers that wait for that timer |

`RenderPipelineProofs` proves `TypeOK`, `InOrderDelivery`, `FrameConservation`,
`ClosedIsCompleteOrFailed` (no run checks it: `StreamSpec` says as much), `StreamEnds`,
`ShortPoolFails`, `BrowsersReturned`, `NoSendOnClosedChannel` and that the pipeline implements `OrderedStream`.
The inductive invariant `IInv` adds to these the position of every worker in its
chunk (`InChunk`), the protocol between the collector and the reorder buffer
(`PushProtocol`), where a reported frame is (`Kept`), why a worker returned
(`ReturnReason`) and the order of the end (`Shutdown`). They are needed for
`StreamEnds`: when all workers have returned without an error, every chunk is done
and `Kept` leaves `next` no value but `Total`. `ChunksCover` is the arithmetic behind
it: the chunks of `buildWorkerChunks` cover `0 .. Total-1` for every stride and
every number of workers. For `FrameConservation` the invariant is `Placed`: what is
under way or released has been reported, and is in one place; that a frame about to be
reported is nowhere yet follows because chunks are disjoint. For `ShortPoolFails` it is
`HoldsOn`: no more browsers are held than there are, a worker that has rendered a frame
holds one until the sessions are closed, and a worker that failed has its error on the
way, so that at the end of a render without errors every worker with frames was a
holder at once.

`RunIsFinite` and `NeverDeadlocks` are the part of `RunEnds` that needs no fairness. Every step
makes the number `StepsLeft` smaller. Each participant has a clock (a worker its place in
its chunk, the collector the results that it has received, and so on), every step moves
one clock forward and none back (`ClockStep`), and no clock passes a horizon that depends on the
number of frames; `StepsLeft` counts what is ahead of them. It needs `Placed`: a result is
received once. Until the collector has ended, one of the guards `CanWork`, `CanClose`,
`CanCollect` and `CanRead` holds. So a fair run cannot stop before the end and cannot go on
for ever, whatever the constants; this last step is what the provers cannot take, and TLC does.

`RenderRunProofs` first shows that a render run is a behaviour of the pipeline
(`RunIsPipeline`), so that the pipeline's invariants hold in it, and then proves
`RunTypeOK`, `VideoIsPrefix`, `FailureIsReported` and `SuccessMeansComplete`.
`RelayOrder` says that the frames in the relay are the last ones read from the
pipeline, in order; `VideoOrder` that the video reaches exactly to the last frame
received (`VideoLen`), and at the end to its full length; `OutcomeOrder` what the
caller has found before it returns success: no failed frame, no failed write, and an ffmpeg
that has exited well, which `FailureIsReported` turns round. `StridedFrames` is the arithmetic: which
frames are rendered, and which one each position shows. `RenderIsFinite` adds the clocks
of relay and writer to those of the pipeline, and `RenderNeverDeadlocks` says that a
render that is not cancelled can go on until it has returned: together the part of
`RenderReturns` that needs no fairness. The first holds after a cancellation too, so that
what hangs in `cancelled_render` and `render_leak` is blocked and burns no time.

`BrowserPoolProofs` proves all five invariants of the run `pool`. A step moves a
browser in one of three ways only (`Take`, `Give`, `TurnRound`), and `PlaceStep` says
so; `Exclusive` and `NoneLost` are proved over these three. That the channel is long
enough (in `TypeOK`) follows from `Exclusive` by counting (`Fits`), which is why the
induction runs over `Typed`, without the length. `Rotated` describes the channel
during `NewQueue`'s loop and `Rooted` ties every running Chrome to a live context.
`AcquireFindsBrowser` is a pigeonhole argument over `NoneLost`: a worker that waits holds no
browser, so if the channel is empty, more workers are in a render than there are browsers.
`NeverDeadlocks` builds on it: a render goes on without the timer of `Acquire`, unless the
pool is closed or the renders have more workers than browsers. That the timer is needed
otherwise is no weakness of the proof: two renders may each hold what the other waits for,
and the mutant of `RendersEnd`, an `Acquire` without a timer, shows it.

`PageSessionProofs` proves all four invariants of the run `page`. `OwnPage` is the
inductive core: on a page that the render has loaded, the only unanswered request is
the newest one (`Clean`), it is for the wanted frame while the worker waits, and
`__FRAME_READY__`, which nobody resets, never runs ahead of that frame. This last
part needs that a chunk's frames go upwards, which is why `NextFrame` steps by one.
`LeftPage` is its counterpart for the daemon's pages, which holds only while the
browser is healthy; `Control` keeps the timeline object and the worker's place
together.

`ShardedRenderProofs` proves all five invariants of the run `shards`. What is proved by
induction over slides, shards or milliseconds is proved by least counterexample
(`LeastElement`, from the well-foundedness of the naturals). A recursive function is first
unfolded: `KeptExists` and `FlattenExists` show that a function satisfying the recursive
equation exists, so that `Announced` and `FlattenSeq` do satisfy it. `LocateFrameInOrder`
is the theorem on the timeline: at every positive rate, a later frame is in the same slide
further on, or in a later slide. `TotalFramesFit` says that the frames of resolved durations
last as long as the slides, rounded up. `ShardsTile` says of `BuildShards` that its ranges
follow each other from the first frame to the last, none empty, for every number of frames
and shards, and `HeldBounds` that a shard's video has one place for each of its frames. From
these `JoinedShows` follows shard by shard: what has been joined shows frames `0 .. n`.
`IInv` says when the durations are resolved (`WholeOK`), which files can exist
(`FilesOK`: a shard's file is its video, whenever it was rendered, and none before the plan)
and that a video is there only when it is joined (`VideoOK`).

`JobQueueProofs` proves `TypeOK`, `ConcurrencyBound`, `RenderingIsShown`,
`DoneHasVideo`, `ServesCompleteVideos` and `StatusOrder`. The key is `OnePlace`: an id
is with the handler that creates the job, on the channel, in the dispatcher's hand,
or with one goroutine, and nowhere twice. It makes `Semaphore` (the number of
goroutines is the number of slots) inductive. `Ended` (the id is in none of these
places and never comes back: `EndedStep`) is what a job that is done satisfies, so
that no attempt writes its file any more; `Kept` and `Streamed` follow from that. For
a video that cleanup must not remove, `Kept` also needs that an old file belongs to
an old job: `Prune` then drops the job before the file goes. `JobsGoForward` gives each job
a stage: with the handler, on the channel, with the dispatcher, and then the place and the
attempt of its goroutine. Every step taken for a job raises its stage and no other step lowers
it (`StepFor`, `StageKept`), so that it is rendered by one goroutine, at most `maxRetries`
times; this rests on `OnePlace`. `NeverDeadlocks` rests on `Semaphore`: when no goroutine
runs, no slot is taken, and handlers and dispatcher can go on. `FilesGoForward` is for
`VideosAreCleaned` what `JobsGoForward` is for `JobsSettle`: once a job is over, its file only
gets older and is removed, and never comes back; that rests on `EndedStep` again.

`AssetCacheProofs` proves `TypeOK`, `PrefetchPaysOff` and `OneResponsePerKey`.
`Phases` separates the prefetch from the loading of pages: while pages load nothing is
stored any more. With that, `Answers` (what a browser was answered agrees with the cache
of now) is inductive and makes the browsers that are served agree. `DaemonEmpty` is why
browsers without interception do not break `Answers`: they occur in the daemon only, whose
cache is empty.
`SetUpIsFinite` counts what fetches, browsers and requests have ahead of them. It needs
`InTurn`: before the last browser is set up, no page is left for another one. For
`NeverDeadlocks`, `ErrorsFit` counts the errors on `errs` by the fetches that have ended, so
that a failed fetch always finds room, and `InTurn` says that the page `Warmup` waits for is
the newest one, which is loading or can be loaded. It excepts a page with a request that
nobody heard or whose answer failed (`Lost`), and the set-up only when that is the page
`Warmup` waits for (`SetUpHangs`).

`SchedulerProofs` proves `TypeOK`, `JobConservation`, `PendingCountsJobs` and
`ResultsComplete`. `JobConservation` is inductive with the link between a worker's place
and the job in its hand (`HandProtocol`); `Ends` is the order in which submitter,
workers and channels stop. The counter's proof is over the set of jobs without an
outcome, which every step changes by at most one (`CountOne`). `SchedulerIsFinite` counts
the milestones that the jobs have not reached (`Reached`), the workers that have not returned
and what submitter and channels have left. `NeverDeadlocks` covers a cancelled run
too: its workers leave jobs on a full channel, where a submitter would wait for room, but
that submitter sees the cancellation.

Only model-checked: the liveness properties (`RunEnds`, `RenderReturns`,
`RendersEnd`, `JobsSettle`, `VideosAreCleaned`, `SetUpEnds`, `LoadsEnd`,
`SchedulerEnds`), because fairness speaks of `ENABLED`, which the prover does not know, and
because a well-founded argument over time is an induction with a temporal formula; and the
four properties that the code violates. The type invariants are proved and not checked
again by the runs, but for that of `ShardedRender`, which is both.

## Not modelled

Pixels, encodings and ffmpeg's arguments; what is printed, logged and answered;
authentication and input validation; progress and ETA (the scheduler's
`Progress.String` calls `ETA` while it holds the mutex that `ETA` takes, and hangs at
every call; nothing calls it); presets, easing, the
command line but for shards (`--quick`, which caps the frames at 60, is for
previews). `LeftPageShowsFrame` excepts pages that mark frames: one that was left at
the very frame number that the next job asks for is captured before it has painted
again. The first use of a page by audio discovery is in `PageSession`, its result is
not. `BrowserPool` starts with the pool that `NewPool` has launched. Of the asset cache,
`captureResponse`, which is never reached, `PrefetchDir`, which has no caller, and
the statistics; an error page that `Prefetch` has stored is served as a success, which
the model keeps (`Store`) and no property judges. A job that a client deletes while it
waits is rendered all the same: `JobQueue` has these steps, and `StatusOrder` excepts
the deleted job. The upscale and mux passes are one step of `RenderRun`. `JobQueue` does
not model torn reads: a handler's unlocked read of a field sees its current value.
Between `Prune` and the removal of files, and between the end of an attempt and
`markDone`, no retention period passes (`FileAges`); the default is 24 hours. That
`withProgress` may end a stream early when its context is cancelled is left out of
`SuccessMeansComplete`, where it says so.

## Plan

The modules cover the pipeline, the whole render, the pool, pages, shards, jobs, the
asset cache and the scheduler. What is left:

1. `PageSession` composed with `BrowserPool`, so that a page goes with a browser from
   worker to worker, and with `AssetCache`, so that a page that has lost a request makes
   its frame fail or hang.
2. The upscale and mux passes of the writer step by step, with their temporary files.

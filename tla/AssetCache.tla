----------------------------- MODULE AssetCache ------------------------------
(***************************************************************************)
(* AssetCache of internal/cache/asset_cache.go and the three callers that  *)
(* put it between Chrome and the network: Render and Warmup of render.go   *)
(* and NewQueue of internal/jobs/queue.go.  Each fills the cache with      *)
(* Prefetch (NewQueue does not), turns interception on in one browser of   *)
(* its pool after the other, and then the browsers load pages.             *)
(*                                                                         *)
(* EnableInterception returns when Chrome has the fetch domain on; the     *)
(* listener is registered by a goroutine.  A request that Chrome pauses    *)
(* before that is heard by nobody, and one whose answer Chrome does not    *)
(* take stays paused.  Only the request stage is intercepted, so no event  *)
(* carries a response status and captureResponse, which would store the    *)
(* response to a miss, is never called: it has no action here.             *)
(***************************************************************************)
EXTENDS Naturals, Sequences, FiniteSets

CONSTANTS
  Url,         \* what a page requests: [path, query, extension] with extension
               \* TRUE if one of isStaticAsset's extensions occurs in the URL
  Page,        \* of these, the page itself: the others follow its answer
  Lists,       \* the prefetch lists to consider, sequences of URLs
  Size,        \* browsers in the pool
  NoData       \* a key without an entry

Browser == 0 .. Size - 1
Caller == {"Render", "Warmup", "NewQueue"}

\* normalizeURL: the key of an entry is the URL without query and fragment.
KeyOf(u) == u.path
Key == {KeyOf(u) : u \in Url}

\* isStaticAsset
Static == {u \in Url : u.extension}

ASSUME CacheAssumption ==
  /\ Page \in Url
  /\ Lists \subseteq Seq(Url) /\ << >> \in Lists
  /\ Size \in Nat \ {0}
  /\ NoData \notin Url

\* The pages of one render request finitely many assets.
ASSUME UrlAssumption == IsFiniteSet(Url)

VARIABLES
  caller,
  list,        \* the URLs to prefetch
  entries,     \* [Key -> the URL whose response is stored, or NoData]
  scanned,     \* URLs that Prefetch's loop has passed
  fetch,       \* for each URL passed: "skipped", "flying", "failing" or "ended"
  errs,        \* errors on the channel errs
  prefetch,    \* "running", and then what Prefetch returned
  enabled,     \* browsers with the fetch domain on: those below this number
  setUpFailed, \* the caller has returned the error of EnableInterception
  listening,   \* browsers whose listener is registered
  bare,        \* browsers that Acquire has launched in place of unhealthy ones
  loading,     \* browsers that load a page, or have loaded it
  request,     \* [Browser -> [Url -> the state of the request]]
  got          \* [Browser -> [Url -> the cached data it was answered with]]

prefetchVars == <<entries, scanned, fetch, errs, prefetch>>
browserVars == <<enabled, setUpFailed, listening, bare, loading>>
requestVars == <<request, got>>
vars == <<caller, list, prefetchVars, browserVars, requestVars>>

Init ==
  /\ caller \in Caller
  /\ list \in IF caller = "NewQueue" THEN {<< >>} ELSE Lists
  /\ entries = [k \in Key |-> NoData]
  /\ scanned = 0
  /\ fetch = << >>
  /\ errs = 0
  \* without a list Prefetch is not called
  /\ prefetch = IF list = << >> THEN "ok" ELSE "running"
  /\ enabled = 0
  /\ setUpFailed = FALSE
  /\ listening = {}
  /\ bare = {}
  /\ loading = {}
  /\ request = [b \in Browser |-> [u \in Url |-> "none"]]
  /\ got = [b \in Browser |-> [u \in Url |-> NoData]]

-----------------------------------------------------------------------------
(* Prefetch: one goroutine for each URL that is not cached.                *)

Cached(u) == entries[KeyOf(u)] # NoData

Scan ==
  /\ prefetch = "running"
  /\ scanned < Len(list)
  /\ scanned' = scanned + 1
  /\ fetch' = Append(fetch, IF Cached(list[scanned + 1]) THEN "skipped" ELSE "flying")
  /\ UNCHANGED <<caller, list, entries, errs, prefetch, browserVars, requestVars>>

Put(u) == entries' = [entries EXCEPT ![KeyOf(u)] = u]

\* fetchAndStore: whatever the server answers is stored, error pages too.
Store(i) ==
  /\ i \in 1 .. scanned /\ fetch[i] = "flying"
  /\ Put(list[i])
  /\ fetch' = [fetch EXCEPT ![i] = "ended"]
  /\ UNCHANGED <<caller, list, scanned, errs, prefetch, browserVars, requestVars>>

\* A mutation of FetchFails: the error is dropped.
FetchFailsSilently(i) ==
  /\ i \in 1 .. scanned /\ fetch[i] = "flying"
  /\ fetch' = [fetch EXCEPT ![i] = "ended"]
  /\ UNCHANGED <<caller, list, entries, scanned, errs, prefetch, browserVars, requestVars>>

\* No answer within the client's timeout, or a body that breaks off.
FetchFails(i) ==
  /\ i \in 1 .. scanned /\ fetch[i] = "flying"
  /\ fetch' = [fetch EXCEPT ![i] = "failing"]
  /\ UNCHANGED <<caller, list, entries, scanned, errs, prefetch, browserVars, requestVars>>

\* A mutation of SendError: the channel has room for one error, and Prefetch reads
\* it after wg.Wait.
SendErrorToOne(i) ==
  /\ i \in 1 .. scanned /\ fetch[i] = "failing"
  /\ errs < 1
  /\ errs' = errs + 1
  /\ fetch' = [fetch EXCEPT ![i] = "ended"]
  /\ UNCHANGED <<caller, list, entries, scanned, prefetch, browserVars, requestVars>>

\* errs <- err, on a channel with room for one error of every URL.
SendError(i) ==
  /\ i \in 1 .. scanned /\ fetch[i] = "failing"
  /\ errs < Len(list)
  /\ errs' = errs + 1
  /\ fetch' = [fetch EXCEPT ![i] = "ended"]
  /\ UNCHANGED <<caller, list, entries, scanned, prefetch, browserVars, requestVars>>

\* A mutation of PrefetchReturns: it does not wait for the goroutines.
PrefetchReturnsAtOnce ==
  /\ prefetch = "running"
  /\ scanned = Len(list)
  /\ prefetch' = IF errs = 0 THEN "ok" ELSE "failed"
  /\ UNCHANGED <<caller, list, entries, scanned, fetch, errs, browserVars, requestVars>>

\* wg.Wait, and the errors are combined.  The callers log them and go on.
PrefetchReturns ==
  /\ prefetch = "running"
  /\ scanned = Len(list)
  /\ \A i \in 1 .. scanned : fetch[i] \in {"skipped", "ended"}
  /\ prefetch' = IF errs = 0 THEN "ok" ELSE "failed"
  /\ UNCHANGED <<caller, list, entries, scanned, fetch, errs, browserVars, requestVars>>

Fetch(i) == Store(i) \/ FetchFails(i) \/ SendError(i)

-----------------------------------------------------------------------------
(* Interception.                                                           *)

Answered == {"served", "continued"}

\* The load event of b's page: all it requested has been answered.
Loaded(b) == b \in loading /\ \A u \in Url : request[b][u] \in Answered

\* EnableInterception on the next browser of the pool.  Warmup loads a page in
\* each browser before it takes the next.
Enable ==
  /\ prefetch # "running"
  /\ enabled < Size /\ ~ setUpFailed
  /\ caller = "Warmup" => \A b \in 0 .. enabled - 1 : Loaded(b)
  /\ enabled' = enabled + 1
  /\ UNCHANGED <<caller, list, prefetchVars, setUpFailed, listening, bare, loading, requestVars>>

\* The fetch domain cannot be turned on, or a page of Warmup does not load or get
\* ready: the caller returns the error.
SetUpFails ==
  /\ prefetch # "running"
  /\ ~ setUpFailed
  /\ enabled < Size \/ caller = "Warmup"
  /\ setUpFailed' = TRUE
  /\ UNCHANGED <<caller, list, prefetchVars, enabled, listening, bare, loading, requestVars>>

\* go c.handleInterceptions(browserCtx): the listener is registered.
Listen(b) ==
  /\ b < enabled
  /\ b \notin listening
  /\ listening' = listening \cup {b}
  /\ UNCHANGED <<caller, list, prefetchVars, enabled, setUpFailed, bare, loading, requestVars>>

\* A page is loaded: by Warmup right after Enable, by the others when every
\* browser is set up.
Load(b) ==
  /\ enabled = (IF caller = "Warmup" THEN b + 1 ELSE Size)
  /\ ~ setUpFailed
  /\ b \notin loading
  /\ loading' = loading \cup {b}
  /\ UNCHANGED <<caller, list, prefetchVars, enabled, setUpFailed, listening, bare, requestVars>>

\* The requests of b's page are forgotten.
Forget(b) ==
  /\ request' = [request EXCEPT ![b] = [u \in Url |-> "none"]]
  /\ got' = [got EXCEPT ![b] = [u \in Url |-> NoData]]
  /\ loading' = loading \ {b}

\* The page of a browser gives way to the next one, of the next frame, worker or
\* job.
Leave(b) ==
  /\ caller # "Warmup"
  /\ Loaded(b)
  /\ Forget(b)
  /\ UNCHANGED <<caller, list, prefetchVars, enabled, setUpFailed, listening, bare>>

\* In the daemon the pool outlives the render that made a browser unhealthy: the
\* next Acquire replaces the browser, and nobody turns interception on in the new
\* one.  In the library each worker acquires once and there is a browser for each,
\* so none is replaced.
Replace(b) ==
  /\ caller = "NewQueue"
  /\ enabled = Size
  /\ bare' = bare \cup {b}
  /\ Forget(b)
  /\ UNCHANGED <<caller, list, prefetchVars, enabled, setUpFailed, listening>>

\* The page requests u.  Chrome pauses the request and tells the listener, if there
\* is one by now.
Request(b, u) ==
  /\ b \in loading
  /\ request[b][u] = "none"
  /\ u # Page => request[b][Page] \in Answered
  /\ request' = [request EXCEPT ![b][u] =
                   IF b \in bare THEN "continued"
                   ELSE IF b \in listening THEN "heard" ELSE "unheard"]
  /\ UNCHANGED <<caller, list, prefetchVars, browserVars, got>>

\* Chrome does not take the answer, or the browser's context is done: chromedp.Run
\* returns an error, which is logged, and the request stays paused.
AnswerFails(b, u) ==
  /\ request' = [request EXCEPT ![b][u] = "unanswered"]
  /\ UNCHANGED got

\* The event's goroutine: an asset that is cached is served from the cache ...
Serve(b, u) ==
  /\ request[b][u] = "heard"
  /\ u \in Static /\ Cached(u)
  /\ \/ /\ request' = [request EXCEPT ![b][u] = "served"]
        /\ got' = [got EXCEPT ![b][u] = entries[KeyOf(u)]]
     \/ AnswerFails(b, u)
  /\ UNCHANGED <<caller, list, prefetchVars, browserVars>>

\* A mutation of Continue: a missing asset is left for the response stage.
ContinueOthers(b, u) ==
  /\ request[b][u] = "heard"
  /\ u \notin Static
  /\ \/ /\ request' = [request EXCEPT ![b][u] = "continued"]
        /\ UNCHANGED got
     \/ AnswerFails(b, u)
  /\ UNCHANGED <<caller, list, prefetchVars, browserVars>>

\* ... and every other request goes on to the network.
Continue(b, u) ==
  /\ request[b][u] = "heard"
  /\ ~ (u \in Static /\ Cached(u))
  /\ \/ /\ request' = [request EXCEPT ![b][u] = "continued"]
        /\ UNCHANGED got
     \/ AnswerFails(b, u)
  /\ UNCHANGED <<caller, list, prefetchVars, browserVars>>

RequestStep(b, u) == Request(b, u) \/ Serve(b, u) \/ Continue(b, u)

-----------------------------------------------------------------------------
Next ==
  \/ Scan \/ PrefetchReturns \/ \E i \in 1 .. Len(list) : Fetch(i)
  \/ Enable \/ SetUpFails
  \/ \E b \in Browser : Listen(b) \/ Load(b) \/ Leave(b) \/ Replace(b)
  \/ \E b \in Browser, u \in Url : RequestStep(b, u)

Spec == Init /\ [][Next]_vars

\* Goroutines are scheduled fairly, fetches end by their timeout, and a page that
\* is being loaded requests what it needs.
Fairness ==
  /\ WF_vars(Scan \/ PrefetchReturns)
  /\ WF_vars(\E i \in 1 .. Len(list) : Fetch(i))
  /\ WF_vars(Enable)
  /\ \A b \in Browser : WF_vars(Listen(b)) /\ WF_vars(caller = "Warmup" /\ Load(b))
  /\ \A b \in Browser, u \in Url : WF_vars(RequestStep(b, u))

FairSpec == Spec /\ Fairness

-----------------------------------------------------------------------------
(* Properties.                                                             *)

TypeOK ==
  /\ caller \in Caller
  /\ list \in Lists
  /\ entries \in [Key -> Url \cup {NoData}]
  /\ scanned \in 0 .. Len(list)
  /\ fetch \in Seq({"skipped", "flying", "failing", "ended"}) /\ Len(fetch) = scanned
  /\ errs \in 0 .. Len(list)
  /\ prefetch \in {"running", "ok", "failed"}
  /\ enabled \in 0 .. Size
  /\ setUpFailed \in BOOLEAN
  /\ listening \subseteq Browser
  /\ bare \subseteq Browser
  /\ loading \subseteq Browser
  /\ request \in [Browser -> [Url -> {"none", "heard", "unheard", "unanswered", "served", "continued"}]]
  /\ got \in [Browser -> [Url -> Url \cup {NoData}]]

Listed(u) == \E i \in 1 .. Len(list) : list[i] = u

\* When Prefetch has reported no error, no browser of the render fetches a listed
\* asset again: each page gets a response that Prefetch has stored under the
\* asset's key, although URLs that share a key are fetched side by side.
PrefetchPaysOff ==
  prefetch = "ok" =>
    \A b \in Browser, u \in Static :
      Listed(u) =>
        /\ request[b][u] # "continued"
        /\ request[b][u] = "served" =>
             Listed(got[b][u]) /\ KeyOf(got[b][u]) = KeyOf(u)

\* URLs that differ in the query share an entry, and the fetch that ends last decides
\* what is in it.  It never changes under the pages: the frames of a video come from
\* several browsers, and all that are served the entry get the same response.
OneResponsePerKey ==
  \A b, c \in Browser, u, v \in Url :
    /\ request[b][u] = "served" /\ request[c][v] = "served"
    /\ KeyOf(u) = KeyOf(v)
    => got[b][u] = got[c][v]

\* A request of b's page was paused before the listener was registered, or its answer
\* failed: it is never answered, and the page never loads.
Lost(b) == \E u \in Url : request[b][u] \in {"unheard", "unanswered"}

\* Warmup waits, without a timeout, for the page of the browser that it has set up last;
\* that page has lost a request.
SetUpHangs == caller = "Warmup" /\ enabled > 0 /\ Lost(enabled - 1)

\* Every caller gets to the end of its set-up, however many fetches fail at once and
\* although Warmup waits for a page of each browser; excepted is that this very page
\* hangs, which the code allows.
SetUpEnds == <>(enabled = Size \/ setUpFailed \/ SetUpHangs)

\* A page waits for ever only for a request of its own that was lost: it never waits for
\* another browser's page or for the caller, and no missing asset is left to the response
\* stage, which is not intercepted.
LoadsEnd == \A b \in Browser : []<>(b \notin loading \/ Loaded(b) \/ Lost(b))
=============================================================================

--------------------------- MODULE AssetCacheProofs ---------------------------
(***************************************************************************)
(* Proofs about AssetCache, for every set of URLs and keys, every list to  *)
(* prefetch and every number of browsers.                                  *)
(***************************************************************************)
EXTENDS AssetCache, FiniteSetTheorems, TLAPS

-----------------------------------------------------------------------------
(* Type correctness.                                                       *)

LEMMA InitType == Init => TypeOK
  <1> SUFFICES ASSUME Init PROVE TypeOK OBVIOUS
  <1>1. list \in Lists /\ list \in Seq(Url) BY CacheAssumption DEF Init
  <1>2. entries \in [Key -> Url \cup {NoData}] BY DEF Init
  <1>3. 0 \in 0 .. Len(list) BY <1>1
  <1>4. fetch \in Seq({"skipped", "flying", "failing", "ended"}) /\ Len(fetch) = scanned
    BY DEF Init
  <1>5. 0 \in 0 .. Size BY CacheAssumption
  <1>6. request \in [Browser -> [Url -> {"none", "heard", "unheard", "unanswered", "served", "continued"}]]
    BY DEF Init
  <1>7. got \in [Browser -> [Url -> Url \cup {NoData}]] BY DEF Init
  <1> QED BY <1>1, <1>2, <1>3, <1>4, <1>5, <1>6, <1>7 DEF Init, TypeOK

LEMMA KeyType == \A u \in Url : KeyOf(u) \in Key
  BY DEF Key

\* What the tables of fetches and requests are, in the form the steps use.
LEMMA TypeFacts ==
  ASSUME TypeOK
  PROVE  /\ list \in Seq(Url) /\ Len(list) \in Nat /\ Size \in Nat
         /\ \A i \in 1 .. Len(list) : list[i] \in Url
         /\ \A u \in Url : KeyOf(u) \in Key
         /\ \A k \in Key : entries[k] \in Url \cup {NoData}
  <1>1. list \in Seq(Url) /\ Size \in Nat BY CacheAssumption DEF TypeOK
  <1> QED BY <1>1, CacheAssumption, KeyType DEF TypeOK

\* Changing the state of a fetch keeps the sequence's type and length.
LEMMA ChangedType ==
  ASSUME NEW S, NEW s \in Seq(S), NEW i \in 1 .. Len(s), NEW x \in S
  PROVE  [s EXCEPT ![i] = x] \in Seq(S) /\ Len([s EXCEPT ![i] = x]) = Len(s)
  OBVIOUS

LEMMA NextType ==
  ASSUME TypeOK, [Next]_vars
  PROVE  TypeOK'
  <1> USE DEF TypeOK, prefetchVars, browserVars, requestVars
  <1>0. list \in Seq(Url) /\ Len(list) \in Nat /\ Size \in Nat
    BY TypeFacts
  <1>1. CASE Scan
    <2>1. scanned' \in 0 .. Len(list) BY <1>0, <1>1 DEF Scan
    <2>2. fetch' \in Seq({"skipped", "flying", "failing", "ended"}) /\ Len(fetch') = scanned'
      <3> DEFINE x == IF Cached(list[scanned + 1]) THEN "skipped" ELSE "flying"
      <3>1. x \in {"skipped", "flying", "failing", "ended"} OBVIOUS
      <3>2. fetch' = Append(fetch, x) /\ scanned' = scanned + 1 BY <1>1 DEF Scan
      <3> HIDE DEF x
      <3> QED BY <3>1, <3>2
    <2> QED BY <1>1, <2>1, <2>2 DEF Scan
  <1>2. ASSUME NEW i \in 1 .. Len(list), Fetch(i) PROVE TypeOK'
    <2>0. /\ fetch' \in Seq({"skipped", "flying", "failing", "ended"})
          /\ Len(fetch') = scanned /\ scanned' = scanned /\ list' = list
      <3>1. PICK x \in {"failing", "ended"} :
              /\ i \in 1 .. scanned /\ fetch' = [fetch EXCEPT ![i] = x]
              /\ UNCHANGED <<scanned, list>>
        BY <1>2 DEF Fetch, Store, Put, FetchFails, SendError
      <3>2. i \in 1 .. Len(fetch) BY <3>1
      <3> QED BY <3>1, <3>2, ChangedType
    <2>1. CASE Store(i)
      <3>1. entries' \in [Key -> Url \cup {NoData}]
        <4>1. list[i] \in Url BY <1>0, <1>2
        <4> QED BY <2>1, <4>1 DEF Store, Put
      <3> QED BY <2>0, <2>1, <3>1 DEF Store, Put
    <2>2. CASE FetchFails(i) BY <2>0, <2>2 DEF FetchFails
    <2>3. CASE SendError(i)
      <3>1. errs' \in 0 .. Len(list) BY <1>0, <2>3 DEF SendError
      <3> QED BY <2>0, <2>3, <3>1 DEF SendError
    <2> QED BY <1>2, <2>1, <2>2, <2>3 DEF Fetch
  <1>3. CASE PrefetchReturns BY <1>3 DEF PrefetchReturns
  <1>4. CASE Enable
    <2>1. enabled' \in 0 .. Size BY <1>0, <1>4 DEF Enable
    <2> QED BY <1>4, <2>1 DEF Enable
  <1>5. CASE SetUpFails BY <1>5 DEF SetUpFails
  <1>6. ASSUME NEW b \in Browser, Listen(b) PROVE TypeOK' BY <1>6 DEF Listen
  <1>7. ASSUME NEW b \in Browser, Load(b) PROVE TypeOK' BY <1>7 DEF Load
  <1>8. ASSUME NEW b \in Browser, Forget(b)
        PROVE  /\ request' \in [Browser -> [Url -> {"none", "heard", "unheard", "unanswered", "served", "continued"}]]
               /\ got' \in [Browser -> [Url -> Url \cup {NoData}]]
               /\ loading' \subseteq Browser
    BY <1>8 DEF Forget
  <1>9. ASSUME NEW b \in Browser, Leave(b) PROVE TypeOK' BY <1>8, <1>9 DEF Leave
  <1>10. ASSUME NEW b \in Browser, Replace(b) PROVE TypeOK' BY <1>8, <1>10 DEF Replace
  <1>11. ASSUME NEW b \in Browser, NEW u \in Url, RequestStep(b, u) PROVE TypeOK'
    <2>1. CASE Request(b, u) BY <2>1 DEF Request
    <2>2. CASE Serve(b, u) \/ Continue(b, u)
      <3>1. PICK x \in {"served", "continued", "unanswered"},
                 d \in {entries[KeyOf(u)], got[b][u]} :
              /\ request' = [request EXCEPT ![b][u] = x]
              /\ got' = got \/ got' = [got EXCEPT ![b][u] = d]
        BY <2>2 DEF Serve, Continue, AnswerFails
      <3>2. entries[KeyOf(u)] \in Url \cup {NoData} /\ got[b][u] \in Url \cup {NoData}
        BY TypeFacts
      <3>3. request' \in [Browser ->
                [Url -> {"none", "heard", "unheard", "unanswered", "served", "continued"}]]
        BY <3>1
      <3>4. got' \in [Browser -> [Url -> Url \cup {NoData}]]
        <4>1. CASE got' = got BY <4>1
        <4>2. CASE got' = [got EXCEPT ![b][u] = d]
          <5>1. d \in Url \cup {NoData} BY <3>2
          <5> HIDE DEF prefetchVars, browserVars, requestVars
          <5> QED BY <4>2, <5>1
        <4> QED BY <3>1, <4>1, <4>2
      <3> QED BY <2>2, <3>3, <3>4 DEF Serve, Continue
    <2> QED BY <1>11, <2>1, <2>2 DEF RequestStep
  <1>12. CASE UNCHANGED vars BY <1>12 DEF vars
  <1> QED BY <1>1, <1>2, <1>3, <1>4, <1>5, <1>6, <1>7, <1>9, <1>10, <1>11, <1>12 DEF Next

\* Every variable keeps its type, and errs never holds more errors than its
\* capacity, whatever the list.
THEOREM TypeCorrect == Spec => []TypeOK
  BY InitType, NextType, PTL DEF Spec

-----------------------------------------------------------------------------
(* The inductive invariant.                                                *)

\* While Prefetch runs no browser is set up, and none loads a page; when it has
\* returned, no goroutine of it is left that could still store a response.
Phases ==
  /\ prefetch = "running" =>
       /\ enabled = 0 /\ loading = {}
       /\ \A b \in Browser : \A u \in Url : request[b][u] = "none"
  /\ prefetch # "running" =>
       scanned = Len(list) /\ \A i \in 1 .. scanned : fetch[i] \in {"skipped", "ended"}
  /\ prefetch = "ok" => errs = 0

\* A fetch that was skipped or has ended without any error has left its URL
\* in the cache.
Fetched ==
  \A i \in 1 .. scanned :
    fetch[i] = "skipped" \/ (fetch[i] = "ended" /\ errs = 0) => Cached(list[i])

\* An entry is the response to a listed URL with the entry's key.
Stored ==
  \A k \in Key : entries[k] # NoData => Listed(entries[k]) /\ KeyOf(entries[k]) = k

\* What a browser was answered agrees with the cache of now.
Answers ==
  \A b \in Browser : \A u \in Url :
    /\ request[b][u] = "served" =>
         u \in Static /\ Cached(u) /\ got[b][u] = entries[KeyOf(u)]
    /\ request[b][u] # "served" => got[b][u] = NoData
    /\ request[b][u] = "continued" => ~ (u \in Static /\ Cached(u))

\* Only the daemon's browsers are replaced, and its cache stays empty.
DaemonEmpty ==
  /\ bare # {} => caller = "NewQueue"
  /\ caller = "NewQueue" => list = << >>

IInv == TypeOK /\ Phases /\ Fetched /\ Stored /\ Answers /\ DaemonEmpty

LEMMA InitIInv == Init => IInv
  <1> SUFFICES ASSUME Init PROVE IInv OBVIOUS
  <1>1. TypeOK BY InitType
  <1>2. Phases
    <2>1. prefetch # "running" => list = << >> BY DEF Init
    <2>2. enabled = 0 /\ loading = {} /\ \A b \in Browser : \A u \in Url : request[b][u] = "none"
      BY DEF Init
    <2>3. scanned = 0 /\ errs = 0 BY DEF Init
    <2> QED BY <2>1, <2>2, <2>3 DEF Phases
  <1>3. Fetched /\ Stored BY DEF Init, Fetched, Stored
  <1>4. Answers BY DEF Init, Answers
  <1>5. DaemonEmpty BY DEF Init, DaemonEmpty
  <1> QED BY <1>1, <1>2, <1>3, <1>4, <1>5 DEF IInv

\* A step of Prefetch: no browser has requested anything, so that only the
\* entries and the fetches matter.
LEMMA PrefetchStep ==
  ASSUME IInv, Scan \/ PrefetchReturns \/ \E i \in 1 .. Len(list) : Fetch(i)
  PROVE  Phases' /\ Fetched' /\ Stored' /\ Answers' /\ DaemonEmpty'
  <1> USE DEF prefetchVars, browserVars, requestVars
  <1>0. TypeOK /\ Phases /\ Fetched /\ Stored /\ Answers /\ DaemonEmpty BY DEF IInv
  <1>1. /\ Len(list) \in Nat /\ scanned \in 0 .. Len(list)
        /\ \A i \in 1 .. Len(list) : list[i] \in Url
        /\ \A u \in Url : KeyOf(u) \in Key
        /\ Len(fetch) = scanned /\ errs \in Nat
    BY <1>0, TypeFacts DEF TypeOK
  <1>2. /\ UNCHANGED <<caller, list, browserVars, requestVars>>
        /\ prefetch = "running"
    <2>1. ASSUME NEW i \in 1 .. Len(list), Fetch(i)
          PROVE  /\ UNCHANGED <<caller, list, browserVars, requestVars>>
                 /\ prefetch = "running"
      <3>1. i \in 1 .. scanned /\ fetch[i] \in {"flying", "failing"}
        BY <2>1 DEF Fetch, Store, Put, FetchFails, SendError
      <3>2. prefetch = "running" BY <3>1, <1>0 DEF Phases
      <3> QED BY <2>1, <3>2 DEF Fetch, Store, Put, FetchFails, SendError
    <2> QED BY <2>1 DEF Scan, PrefetchReturns
  <1>3. DaemonEmpty' BY <1>0, <1>2 DEF DaemonEmpty
  <1>4. Answers'
    <2>1. \A b \in Browser : \A u \in Url : request'[b][u] = "none" /\ got'[b][u] = NoData
      BY <1>0, <1>2 DEF Phases, Answers
    <2> QED BY <2>1 DEF Answers
  <1>5. CASE Scan
    <2>1. /\ UNCHANGED <<entries, errs, prefetch>> /\ scanned' = scanned + 1
          /\ fetch' = Append(fetch, IF Cached(list[scanned + 1]) THEN "skipped" ELSE "flying")
      BY <1>5 DEF Scan
    <2>2. /\ \A i \in 1 .. scanned : fetch'[i] = fetch[i]
          /\ fetch'[scanned + 1] = IF Cached(list[scanned + 1]) THEN "skipped" ELSE "flying"
      BY <2>1, <1>1, <1>0 DEF TypeOK
    <2>3. \A i \in 1 .. scanned' : i \in 1 .. scanned \/ i = scanned + 1 BY <2>1, <1>1
    <2>4. Fetched' BY <2>1, <2>2, <2>3, <1>0, <1>2 DEF Fetched, Cached
    <2>5. Stored' BY <2>1, <1>0, <1>2 DEF Stored, Listed
    <2>6. Phases' BY <2>1, <1>0, <1>2 DEF Phases
    <2> QED BY <2>4, <2>5, <2>6, <1>3, <1>4
  <1>6. CASE PrefetchReturns
    <2>1. /\ UNCHANGED <<entries, errs, scanned, fetch>> /\ scanned = Len(list)
          /\ \A i \in 1 .. scanned : fetch[i] \in {"skipped", "ended"}
          /\ prefetch' = IF errs = 0 THEN "ok" ELSE "failed"
      BY <1>6 DEF PrefetchReturns
    <2>2. Fetched' /\ Stored' BY <2>1, <1>0, <1>2 DEF Fetched, Stored, Cached, Listed
    <2>3. Phases' BY <2>1, <1>2 DEF Phases
    <2> QED BY <2>2, <2>3, <1>3, <1>4
  <1>7. ASSUME NEW i \in 1 .. Len(list), Fetch(i) PROVE Phases' /\ Fetched' /\ Stored'
    <2>1. /\ i \in 1 .. scanned /\ UNCHANGED <<scanned, prefetch>>
          /\ fetch[i] \in {"flying", "failing"}
          /\ \A j \in 1 .. scanned : j # i => fetch'[j] = fetch[j]
      <3>1. PICK x \in {"failing", "ended"} : fetch' = [fetch EXCEPT ![i] = x]
        BY <1>7 DEF Fetch, Store, Put, FetchFails, SendError
      <3>2. /\ i \in 1 .. scanned /\ UNCHANGED <<scanned, prefetch>>
            /\ fetch[i] \in {"flying", "failing"}
        BY <1>7 DEF Fetch, Store, Put, FetchFails, SendError
      <3>3. \A j \in 1 .. scanned : j # i => fetch'[j] = fetch[j]
        BY <3>1, <1>0, <1>1 DEF TypeOK
      <3> QED BY <3>2, <3>3
    <2>2. Phases' BY <2>1, <1>0, <1>2 DEF Phases
    <2>3. CASE Store(i)
      <3>1. /\ \A k \in Key : entries'[k] = IF k = KeyOf(list[i]) THEN list[i] ELSE entries[k]
            /\ UNCHANGED errs
        BY <2>3, <1>0, <1>1 DEF Store, Put, TypeOK
      <3>2. list[i] # NoData BY <1>1, CacheAssumption
      <3>3. \A u \in Url : Cached(u) => Cached(u)' BY <3>1, <3>2, <1>1 DEF Cached
      <3>4. Cached(list[i])' BY <3>1, <3>2, <1>1, <1>2 DEF Cached
      <3>5. Fetched'
        <4>1. ASSUME NEW j \in 1 .. scanned,
                     fetch'[j] = "skipped" \/ (fetch'[j] = "ended" /\ errs' = 0)
              PROVE  Cached(list[j])'
          <5>1. CASE j = i BY <5>1, <3>4
          <5>2. CASE j # i
            <6>1. list[j] \in Url BY <1>1
            <6>2. entries[KeyOf(list[j])] # NoData
              BY <5>2, <4>1, <2>1, <3>1, <1>0 DEF Fetched, Cached
            <6>3. entries'[KeyOf(list[j])] # NoData BY <6>1, <6>2, <3>1, <3>2, <1>1
            <6> QED BY <6>3, <1>2 DEF Cached
          <5> QED BY <5>1, <5>2
        <4> QED BY <4>1, <2>1 DEF Fetched
      <3>6. Stored'
        <4>1. ASSUME NEW k \in Key, entries'[k] # NoData
              PROVE  Listed(entries'[k]) /\ KeyOf(entries'[k]) = k
          <5>1. CASE k = KeyOf(list[i])
            <6>1. entries'[k] = list[i] BY <5>1, <3>1
            <6> QED BY <6>1, <5>1, <1>7 DEF Listed
          <5>2. CASE k # KeyOf(list[i])
            <6>1. entries'[k] = entries[k] BY <5>2, <3>1
            <6> QED BY <6>1, <4>1, <1>0 DEF Stored
          <5> QED BY <5>1, <5>2
        <4> QED BY <4>1, <1>2 DEF Stored, Listed
      <3> QED BY <2>2, <3>5, <3>6
    <2>4. CASE FetchFails(i)
      <3>1. fetch'[i] = "failing" /\ UNCHANGED <<entries, errs>>
        BY <2>4, <1>0, <1>1 DEF FetchFails, TypeOK
      <3>2. Fetched' BY <3>1, <2>1, <1>0, <1>2 DEF Fetched, Cached
      <3>3. Stored' BY <3>1, <1>0, <1>2 DEF Stored, Listed
      <3> QED BY <2>2, <3>2, <3>3
    <2>5. CASE SendError(i)
      <3>1. errs' # 0 /\ UNCHANGED entries /\ fetch'[i] = "ended"
        BY <2>5, <1>0, <1>1 DEF SendError, TypeOK
      <3>2. Fetched' BY <3>1, <2>1, <1>0, <1>2 DEF Fetched, Cached
      <3>3. Stored' BY <3>1, <1>0, <1>2 DEF Stored, Listed
      <3> QED BY <2>2, <3>2, <3>3
    <2> QED BY <1>7, <2>3, <2>4, <2>5 DEF Fetch
  <1> QED BY <1>3, <1>4, <1>5, <1>6, <1>7

\* A step of the browsers: Prefetch has returned and the cache is as it stays.
LEMMA BrowserStep ==
  ASSUME IInv,
         \/ Enable \/ SetUpFails
         \/ \E b \in Browser : Listen(b) \/ Load(b) \/ Leave(b) \/ Replace(b)
  PROVE  Phases' /\ Fetched' /\ Stored' /\ Answers' /\ DaemonEmpty'
  <1> USE DEF prefetchVars, browserVars, requestVars
  <1>0. TypeOK /\ Phases /\ Fetched /\ Stored /\ Answers /\ DaemonEmpty BY DEF IInv
  <1>1. UNCHANGED <<caller, list, prefetchVars>>
    BY DEF Enable, SetUpFails, Listen, Load, Leave, Replace
  <1>2. Fetched' /\ Stored' BY <1>0, <1>1 DEF Fetched, Stored, Cached, Listed
  <1>3. prefetch # "running"
    <2>1. SUFFICES ASSUME prefetch = "running" PROVE FALSE OBVIOUS
    <2>2. enabled = 0 /\ loading = {} BY <2>1, <1>0 DEF Phases
    <2>3. \A b \in Browser : b \in Nat /\ b + 1 # 0 BY CacheAssumption DEF Browser
    <2>4. \A b \in Browser : ~ Listen(b) /\ ~ Load(b) /\ ~ Leave(b) /\ ~ Replace(b)
      BY <2>2, <2>3, CacheAssumption DEF Listen, Load, Leave, Replace, Loaded
    <2> QED BY <2>1, <2>4 DEF Enable, SetUpFails
  <1>4. ASSUME NEW b \in Browser, Forget(b)
        PROVE  /\ \A c \in Browser : \A u \in Url :
                    \/ request'[c][u] = "none" /\ got'[c][u] = NoData
                    \/ request'[c][u] = request[c][u] /\ got'[c][u] = got[c][u]
    BY <1>4, <1>0 DEF Forget, TypeOK
  <1>5. Phases' BY <1>0, <1>1, <1>3 DEF Phases
  <1>6. Answers'
    <2>1. (\E b \in Browser : Forget(b)) \/ UNCHANGED requestVars
      BY DEF Enable, SetUpFails, Listen, Load, Leave, Replace
    <2>2. CASE UNCHANGED requestVars BY <2>2, <1>0, <1>1 DEF Answers, Cached
    <2>3. ASSUME NEW b \in Browser, Forget(b) PROVE Answers'
      <3>1. \A u : Cached(u)' = Cached(u) BY <1>1 DEF Cached
      <3> QED BY <2>3, <3>1, <1>0, <1>1, <1>4 DEF Answers
    <2> QED BY <2>1, <2>2, <2>3
  <1>7. DaemonEmpty'
    <2>1. (\E b \in Browser : Replace(b)) \/ UNCHANGED bare
      BY DEF Enable, SetUpFails, Listen, Load, Leave
    <2>2. (\E b \in Browser : Replace(b)) => caller = "NewQueue" BY DEF Replace
    <2> QED BY <2>1, <2>2, <1>0, <1>1 DEF DaemonEmpty
  <1> QED BY <1>2, <1>5, <1>6, <1>7

\* A step of a request.  A browser that nobody listens to is the daemon's, where
\* nothing is cached.
LEMMA AnswerStep ==
  ASSUME IInv, NEW b \in Browser, NEW u \in Url, RequestStep(b, u)
  PROVE  Phases' /\ Fetched' /\ Stored' /\ Answers' /\ DaemonEmpty'
  <1> USE DEF prefetchVars, browserVars, requestVars
  <1>0. TypeOK /\ Phases /\ Fetched /\ Stored /\ Answers /\ DaemonEmpty BY DEF IInv
  <1>1. UNCHANGED <<caller, list, prefetchVars, browserVars>>
    BY DEF RequestStep, Request, Serve, Continue, AnswerFails
  <1>2. Fetched' /\ Stored' /\ DaemonEmpty'
    BY <1>0, <1>1 DEF Fetched, Stored, Cached, Listed, DaemonEmpty
  <1>3. Phases'
    <2>1. prefetch # "running"
      BY <1>0 DEF RequestStep, Request, Serve, Continue, AnswerFails, Phases
    <2> QED BY <2>1, <1>0, <1>1 DEF Phases
  <1>4. /\ \A v : Cached(v)' = Cached(v)
        /\ \A c \in Browser : \A v \in Url : c # b \/ v # u =>
             request'[c][v] = request[c][v] /\ got'[c][v] = got[c][v]
    BY <1>0, <1>1 DEF Cached, RequestStep, Request, Serve, Continue, AnswerFails, TypeOK
  <1>5. /\ request'[b][u] = "served" =>
             u \in Static /\ Cached(u) /\ got'[b][u] = entries[KeyOf(u)]
        /\ request'[b][u] # "served" => got'[b][u] = NoData
        /\ request'[b][u] = "continued" => ~ (u \in Static /\ Cached(u))
    <2>1. CASE Request(b, u)
      <3>1. got'[b][u] = NoData /\ request'[b][u] # "served"
        BY <2>1, <1>0 DEF Request, Answers, TypeOK
      <3>2. request'[b][u] = "continued" => b \in bare
        BY <2>1, <1>0 DEF Request, TypeOK
      <3>3. b \in bare => list = << >> BY <1>0 DEF DaemonEmpty
      <3>4. list = << >> => ~ Cached(u)
        BY <1>0, CacheAssumption, KeyType DEF Stored, Listed, Cached
      <3> QED BY <3>1, <3>2, <3>3, <3>4
    <2>2. CASE Serve(b, u) BY <2>2, <1>0 DEF Serve, AnswerFails, Answers, TypeOK
    <2>3. CASE Continue(b, u) BY <2>3, <1>0 DEF Continue, AnswerFails, Answers, TypeOK
    <2> QED BY <2>1, <2>2, <2>3 DEF RequestStep
  <1>6. Answers' BY <1>0, <1>1, <1>4, <1>5 DEF Answers
  <1> QED BY <1>2, <1>3, <1>6

LEMMA NextIInv == IInv /\ [Next]_vars => IInv'
  <1> SUFFICES ASSUME IInv, [Next]_vars PROVE IInv' OBVIOUS
  <1>1. TypeOK' BY NextType DEF IInv
  <1>2. CASE UNCHANGED vars
    BY <1>1, <1>2 DEF IInv, vars, prefetchVars, browserVars, requestVars, Phases, Fetched,
                      Stored, Answers, DaemonEmpty, Cached, Listed
  <1>3. CASE Scan \/ PrefetchReturns \/ \E i \in 1 .. Len(list) : Fetch(i)
    BY <1>1, <1>3, PrefetchStep DEF IInv
  <1>4. CASE \/ Enable \/ SetUpFails
             \/ \E b \in Browser : Listen(b) \/ Load(b) \/ Leave(b) \/ Replace(b)
    BY <1>1, <1>4, BrowserStep DEF IInv
  <1>5. CASE \E b \in Browser, u \in Url : RequestStep(b, u)
    BY <1>1, <1>5, AnswerStep DEF IInv
  <1> QED BY <1>2, <1>3, <1>4, <1>5 DEF Next

THEOREM Invariance == Spec => []IInv
  BY InitIInv, NextIInv, PTL DEF Spec

-----------------------------------------------------------------------------
(* The properties.                                                         *)

\* A Prefetch without an error pays off for every list: no browser fetches a listed
\* asset again, and what it gets instead is a listed response of the same key.
THEOREM PrefetchAlwaysPaysOff == Spec => []PrefetchPaysOff
  <1>1. ASSUME IInv PROVE PrefetchPaysOff
    <2>0. TypeOK /\ Phases /\ Fetched /\ Stored /\ Answers BY <1>1 DEF IInv
    <2>1. SUFFICES ASSUME prefetch = "ok", NEW b \in Browser, NEW u \in Static, Listed(u)
                   PROVE  /\ request[b][u] # "continued"
                          /\ request[b][u] = "served" =>
                               Listed(got[b][u]) /\ KeyOf(got[b][u]) = KeyOf(u)
      BY DEF PrefetchPaysOff
    <2>2. u \in Url /\ KeyOf(u) \in Key BY KeyType DEF Static
    <2>3. PICK i \in 1 .. Len(list) : list[i] = u BY <2>1 DEF Listed
    <2>4. i \in 1 .. scanned /\ fetch[i] \in {"skipped", "ended"} /\ errs = 0
      BY <2>0, <2>1, <2>3 DEF Phases
    <2>5. Cached(u) BY <2>0, <2>3, <2>4 DEF Fetched
    <2>6. Listed(entries[KeyOf(u)]) /\ KeyOf(entries[KeyOf(u)]) = KeyOf(u)
      BY <2>0, <2>2, <2>5 DEF Stored, Cached
    <2> QED BY <2>0, <2>2, <2>5, <2>6 DEF Answers
  <1> QED BY <1>1, Invariance, PTL

\* However many URLs share a key and whichever fetch ends last, all browsers that are
\* served the entry get the same response, for every list and number of browsers.
THEOREM AlwaysOneResponse == Spec => []OneResponsePerKey
  <1>1. ASSUME IInv PROVE OneResponsePerKey
    BY <1>1 DEF IInv, Answers, OneResponsePerKey
  <1> QED BY <1>1, Invariance, PTL

-----------------------------------------------------------------------------
(* The set-up has finitely many steps.                                     *)

\* A page is loaded by Warmup before it takes the next browser, by the others when
\* every browser is set up.
InTurn ==
  /\ caller = "Warmup" => \A b \in Browser : b + 1 < enabled => Loaded(b)
  /\ caller # "Warmup" /\ enabled < Size => loading = {}

LEMMA AlwaysInTurn == Spec => []InTurn
  <1>1. Init => InTurn
    <2> SUFFICES ASSUME Init PROVE InTurn OBVIOUS
    <2>1. enabled = 0 /\ loading = {} BY DEF Init
    <2>2. \A b \in Browser : ~ (b + 1 < enabled) BY <2>1, CacheAssumption DEF Browser
    <2> QED BY <2>1, <2>2 DEF InTurn
  <1>2. ASSUME TypeOK, InTurn, [Next]_vars PROVE InTurn'
    <2> USE DEF InTurn, prefetchVars, browserVars, requestVars
    <2>0. enabled \in Nat /\ Size \in Nat /\ \A b \in Browser : b \in Nat
      BY <1>2, CacheAssumption DEF TypeOK, Browser
    <2>1. CASE UNCHANGED <<caller, enabled, loading, request>>
      BY <1>2, <2>1 DEF Loaded, Answered
    <2>2. CASE Enable
      <3>1. UNCHANGED <<caller, loading, request>> /\ enabled' = enabled + 1 /\ enabled < Size
        BY <2>2 DEF Enable
      <3>2. \A b : Loaded(b)' <=> Loaded(b) BY <3>1 DEF Loaded, Answered
      <3>3. ASSUME caller = "Warmup", NEW b \in Browser, b + 1 < enabled' PROVE Loaded(b)
        <4>1. b \in 0 .. enabled - 1 BY <2>0, <3>1, <3>3
        <4> QED BY <2>2, <3>3, <4>1 DEF Enable
      <3> QED BY <1>2, <2>0, <3>1, <3>2, <3>3
    <2>3. ASSUME NEW b \in Browser, Load(b) PROVE InTurn'
      <3>1. /\ UNCHANGED <<caller, enabled, request>> /\ loading \subseteq loading'
            /\ caller # "Warmup" => enabled = Size
        BY <2>3 DEF Load
      <3>2. \A c : Loaded(c) => Loaded(c)' BY <3>1 DEF Loaded, Answered
      <3> QED BY <1>2, <2>0, <3>1, <3>2
    <2>4. ASSUME NEW b \in Browser, Leave(b) \/ Replace(b) PROVE InTurn'
      <3>1. UNCHANGED <<caller, enabled>> /\ caller # "Warmup" /\ loading' \subseteq loading
        BY <2>4 DEF Leave, Replace, Forget
      <3> QED BY <1>2, <3>1
    <2>5. ASSUME NEW b \in Browser, NEW u \in Url, RequestStep(b, u) PROVE InTurn'
      <3>1. UNCHANGED <<caller, enabled, loading>>
        BY <2>5 DEF RequestStep, Request, Serve, Continue, AnswerFails
      <3>2. \A c \in Browser, v \in Url :
              request[c][v] \in Answered => request'[c][v] \in Answered
        <4>1. \A c \in Browser, v \in Url :
                c # b \/ v # u => request'[c][v] = request[c][v]
          BY <1>2, <2>5 DEF RequestStep, Request, Serve, Continue, AnswerFails, TypeOK
        <4>2. request[b][u] \notin Answered
          BY <2>5 DEF RequestStep, Request, Serve, Continue, AnswerFails, Answered
        <4> QED BY <4>1, <4>2
      <3>3. \A c \in Browser : Loaded(c) => Loaded(c)' BY <3>1, <3>2 DEF Loaded, Answered
      <3> QED BY <1>2, <3>1, <3>3
    <2>6. \/ UNCHANGED <<caller, enabled, loading, request>> \/ Enable
          \/ \E b \in Browser : Load(b) \/ Leave(b) \/ Replace(b)
          \/ \E b \in Browser, u \in Url : RequestStep(b, u)
      BY <1>2 DEF Next, vars, Scan, PrefetchReturns, Fetch, Store, FetchFails, SendError,
                  SetUpFails, Listen
    <2> QED BY <2>1, <2>2, <2>3, <2>4, <2>5, <2>6
  <1> QED BY <1>1, <1>2, TypeCorrect, PTL DEF Spec

\* What a fetch, a browser and a request have behind them.
FetchStage == {"scanned", "fetched", "ended"}
BrowserStage == {"enabled", "listening", "loading"}
RequestStage == {"made", "settled"}

FetchAt(i, m) ==
  /\ i <= scanned
  /\ m = "fetched" => fetch[i] # "flying"
  /\ m = "ended" => fetch[i] \in {"skipped", "ended"}

BrowserAt(b, m) ==
  \/ m = "enabled"   /\ b < enabled
  \/ m = "listening" /\ b \in listening
  \/ m = "loading"   /\ b \in loading

RequestAt(x, m) ==
  /\ request[x[1]][x[2]] # "none"
  /\ m = "settled" => request[x[1]][x[2]] # "heard"

FetchesLeft == {x \in (1 .. Len(list)) \X FetchStage : ~ FetchAt(x[1], x[2])}
BrowsersLeft == {x \in Browser \X BrowserStage : ~ BrowserAt(x[1], x[2])}
RequestsLeft == {x \in (Browser \X Url) \X RequestStage : ~ RequestAt(x[1], x[2])}
CallerLeft == (IF prefetch = "running" THEN 1 ELSE 0) + (IF setUpFailed THEN 0 ELSE 1)

\* How many steps the caller, its goroutines and the browsers can still take, at most,
\* until a page gives way to the next one.
StepsLeft ==
  Cardinality(FetchesLeft) + Cardinality(BrowsersLeft) + Cardinality(RequestsLeft) + CallerLeft

LEMMA LeftFinite ==
  ASSUME TypeOK
  PROVE  /\ IsFiniteSet(FetchesLeft) /\ IsFiniteSet(BrowsersLeft) /\ IsFiniteSet(RequestsLeft)
         /\ CallerLeft \in Nat
  <1>1. IsFiniteSet(FetchStage) /\ IsFiniteSet(BrowserStage) /\ IsFiniteSet(RequestStage)
    <2>1. /\ FetchStage = {"scanned"} \cup {"fetched"} \cup {"ended"}
          /\ BrowserStage = {"enabled"} \cup {"listening"} \cup {"loading"}
          /\ RequestStage = {"made"} \cup {"settled"}
      BY DEF FetchStage, BrowserStage, RequestStage
    <2> QED BY <2>1, FS_Singleton, FS_Union
  <1>2. IsFiniteSet(1 .. Len(list))
    <2>1. 1 \in Int /\ Len(list) \in Int BY TypeFacts
    <2> QED BY <2>1, FS_Interval
  <1>3. IsFiniteSet(Browser)
    <2>1. 0 \in Int /\ Size - 1 \in Int BY CacheAssumption
    <2> QED BY <2>1, FS_Interval DEF Browser
  <1>4. IsFiniteSet(FetchesLeft)
    <2>1. IsFiniteSet((1 .. Len(list)) \X FetchStage) BY <1>1, <1>2, FS_Product
    <2> QED BY <2>1, FS_Subset DEF FetchesLeft
  <1>5. IsFiniteSet(BrowsersLeft)
    <2>1. IsFiniteSet(Browser \X BrowserStage) BY <1>1, <1>3, FS_Product
    <2> QED BY <2>1, FS_Subset DEF BrowsersLeft
  <1>6. IsFiniteSet(RequestsLeft)
    <2>1. IsFiniteSet(Browser \X Url) BY <1>3, UrlAssumption, FS_Product
    <2>2. IsFiniteSet((Browser \X Url) \X RequestStage) BY <1>1, <2>1, FS_Product
    <2> QED BY <2>2, FS_Subset DEF RequestsLeft
  <1>7. CallerLeft \in Nat BY DEF CallerLeft
  <1> QED BY <1>4, <1>5, <1>6, <1>7

\* A finite set that loses elements, and gets none, gets smaller.
LEMMA Shrinks ==
  ASSUME NEW S, IsFiniteSet(S), NEW T, T \subseteq S
  PROVE  /\ Cardinality(S) \in Nat /\ Cardinality(T) \in Nat
         /\ Cardinality(T) <= Cardinality(S)
         /\ T # S => Cardinality(T) < Cardinality(S)
  <1>1. /\ IsFiniteSet(T) /\ Cardinality(T) <= Cardinality(S)
        /\ T # S => Cardinality(T) # Cardinality(S)
    BY FS_Subset
  <1> QED BY <1>1, FS_CardinalityType

\* Nothing that is behind a fetch, a browser or a request comes back, and of one of
\* them, or of the caller, less is left.
Progress ==
  /\ list' = list
  /\ \A i \in 1 .. Len(list), m \in FetchStage : FetchAt(i, m) => FetchAt(i, m)'
  /\ \A b \in Browser, m \in BrowserStage : BrowserAt(b, m) => BrowserAt(b, m)'
  /\ \A x \in Browser \X Url, m \in RequestStage : RequestAt(x, m) => RequestAt(x, m)'
  /\ CallerLeft' <= CallerLeft
  /\ \/ \E i \in 1 .. Len(list), m \in FetchStage : ~ FetchAt(i, m) /\ FetchAt(i, m)'
     \/ \E b \in Browser, m \in BrowserStage : ~ BrowserAt(b, m) /\ BrowserAt(b, m)'
     \/ \E x \in Browser \X Url, m \in RequestStage : ~ RequestAt(x, m) /\ RequestAt(x, m)'
     \/ CallerLeft' < CallerLeft

LEMMA ProgressCounts ==
  ASSUME TypeOK, TypeOK', Progress
  PROVE  StepsLeft' < StepsLeft
  <1>1. /\ IsFiniteSet(FetchesLeft) /\ IsFiniteSet(BrowsersLeft) /\ IsFiniteSet(RequestsLeft)
        /\ CallerLeft \in Nat
    BY LeftFinite
  <1>2. CallerLeft' \in Nat BY DEF CallerLeft
  <1>3. /\ FetchesLeft' = {x \in (1 .. Len(list)) \X FetchStage : ~ FetchAt(x[1], x[2])'}
        /\ BrowsersLeft' = {x \in Browser \X BrowserStage : ~ BrowserAt(x[1], x[2])'}
        /\ RequestsLeft' = {x \in (Browser \X Url) \X RequestStage : ~ RequestAt(x[1], x[2])'}
    BY DEF FetchesLeft, BrowsersLeft, RequestsLeft, Progress, Browser,
           FetchStage, BrowserStage, RequestStage
  <1> DEFINE I == 1 .. Len(list)
             P == Browser \X Url
  <1>4. /\ FetchesLeft = {x \in I \X FetchStage : ~ FetchAt(x[1], x[2])}
        /\ RequestsLeft = {x \in P \X RequestStage : ~ RequestAt(x[1], x[2])}
    BY DEF FetchesLeft, RequestsLeft
  <1>5. /\ FetchesLeft' \subseteq FetchesLeft
        /\ (\E i \in I, m \in FetchStage : ~ FetchAt(i, m) /\ FetchAt(i, m)')
             => FetchesLeft' # FetchesLeft
    <2>1. \A i \in I, m \in FetchStage :
            /\ <<i, m>> \in FetchesLeft <=> ~ FetchAt(i, m)
            /\ <<i, m>> \in FetchesLeft' <=> ~ FetchAt(i, m)'
      <3> HIDE DEF I, FetchStage, FetchAt
      <3> QED BY <1>3, <1>4 DEF I
    <2>2. \A x \in FetchesLeft' : \E i \in I, m \in FetchStage : x = <<i, m>>
      <3> HIDE DEF I, FetchStage, FetchAt
      <3> QED BY <1>3 DEF I
    <2>3. \A i \in I, m \in FetchStage : FetchAt(i, m) => FetchAt(i, m)' BY DEF Progress
    <2> HIDE DEF I, FetchStage, FetchAt, FetchesLeft
    <2> QED BY <2>1, <2>2, <2>3
  <1>6. /\ BrowsersLeft' \subseteq BrowsersLeft
        /\ (\E b \in Browser, m \in BrowserStage : ~ BrowserAt(b, m) /\ BrowserAt(b, m)')
             => BrowsersLeft' # BrowsersLeft
    <2>1. \A b \in Browser, m \in BrowserStage :
            /\ <<b, m>> \in BrowsersLeft <=> ~ BrowserAt(b, m)
            /\ <<b, m>> \in BrowsersLeft' <=> ~ BrowserAt(b, m)'
      BY <1>3 DEF BrowsersLeft
    <2>2. \A x \in BrowsersLeft' : \E b \in Browser, m \in BrowserStage : x = <<b, m>>
      BY <1>3
    <2> QED BY <2>1, <2>2 DEF Progress
  <1>7. /\ RequestsLeft' \subseteq RequestsLeft
        /\ (\E x \in P, m \in RequestStage : ~ RequestAt(x, m) /\ RequestAt(x, m)')
             => RequestsLeft' # RequestsLeft
    <2>1. \A x \in P, m \in RequestStage :
            /\ <<x, m>> \in RequestsLeft <=> ~ RequestAt(x, m)
            /\ <<x, m>> \in RequestsLeft' <=> ~ RequestAt(x, m)'
      <3> HIDE DEF P, RequestStage, RequestAt
      <3> QED BY <1>3, <1>4 DEF P
    <2>2. \A y \in RequestsLeft' : \E x \in P, m \in RequestStage : y = <<x, m>>
      <3> HIDE DEF P, RequestStage, RequestAt
      <3> QED BY <1>3 DEF P
    <2>3. \A x \in P, m \in RequestStage : RequestAt(x, m) => RequestAt(x, m)' BY DEF Progress
    <2> HIDE DEF P, RequestStage, RequestAt, RequestsLeft
    <2> QED BY <2>1, <2>2, <2>3
  <1>8. \/ FetchesLeft' # FetchesLeft \/ BrowsersLeft' # BrowsersLeft
        \/ RequestsLeft' # RequestsLeft \/ CallerLeft' < CallerLeft
    BY <1>5, <1>6, <1>7 DEF Progress
  <1>9. CallerLeft' <= CallerLeft BY DEF Progress
  <1>10. /\ Cardinality(FetchesLeft) \in Nat /\ Cardinality(FetchesLeft') \in Nat
         /\ Cardinality(FetchesLeft') <= Cardinality(FetchesLeft)
         /\ FetchesLeft' # FetchesLeft => Cardinality(FetchesLeft') < Cardinality(FetchesLeft)
    BY <1>1, <1>5, Shrinks
  <1>11. /\ Cardinality(BrowsersLeft) \in Nat /\ Cardinality(BrowsersLeft') \in Nat
         /\ Cardinality(BrowsersLeft') <= Cardinality(BrowsersLeft)
         /\ BrowsersLeft' # BrowsersLeft
              => Cardinality(BrowsersLeft') < Cardinality(BrowsersLeft)
    BY <1>1, <1>6, Shrinks
  <1>12. /\ Cardinality(RequestsLeft) \in Nat /\ Cardinality(RequestsLeft') \in Nat
         /\ Cardinality(RequestsLeft') <= Cardinality(RequestsLeft)
         /\ RequestsLeft' # RequestsLeft
              => Cardinality(RequestsLeft') < Cardinality(RequestsLeft)
    BY <1>1, <1>7, Shrinks
  <1>13. StepsLeft' = Cardinality(FetchesLeft') + Cardinality(BrowsersLeft')
                        + Cardinality(RequestsLeft') + CallerLeft'
    BY DEF StepsLeft
  <1> HIDE DEF FetchesLeft, BrowsersLeft, RequestsLeft, CallerLeft
  <1> QED BY <1>1, <1>2, <1>8, <1>9, <1>10, <1>11, <1>12, <1>13 DEF StepsLeft

\* A goroutine of Prefetch goes on, or Prefetch itself does.
LEMMA PrefetchProgress ==
  ASSUME TypeOK, Scan \/ PrefetchReturns \/ \E i \in 1 .. Len(list) : Fetch(i)
  PROVE  Progress
  <1> USE DEF prefetchVars, browserVars, requestVars
  <1>0. Len(list) \in Nat /\ scanned \in 0 .. Len(list) /\ Len(fetch) = scanned
    BY TypeFacts DEF TypeOK
  <1>1. UNCHANGED <<list, browserVars, requestVars>>
    BY DEF Scan, PrefetchReturns, Fetch, Store, FetchFails, SendError
  <1>2. /\ \A b \in Browser, m \in BrowserStage : BrowserAt(b, m) => BrowserAt(b, m)'
        /\ \A x \in Browser \X Url, m \in RequestStage : RequestAt(x, m) => RequestAt(x, m)'
    BY <1>1 DEF BrowserAt, RequestAt
  <1>3. CASE Scan
    <2>1. /\ scanned' = scanned + 1 /\ scanned + 1 \in 1 .. Len(list) /\ prefetch' = prefetch
          /\ \A i \in 1 .. scanned : fetch'[i] = fetch[i]
      BY <1>0, <1>3 DEF Scan, TypeOK
    <2>2. ASSUME NEW i \in 1 .. Len(list), NEW m \in FetchStage, FetchAt(i, m)
          PROVE  FetchAt(i, m)'
      <3>1. i \in 1 .. scanned /\ i <= scanned' BY <1>0, <2>1, <2>2 DEF FetchAt
      <3>2. fetch'[i] = fetch[i] BY <2>1, <3>1
      <3> QED BY <2>2, <3>1, <3>2 DEF FetchAt
    <2>3. \E i \in 1 .. Len(list), m \in FetchStage : ~ FetchAt(i, m) /\ FetchAt(i, m)'
      <3>1. PICK i \in 1 .. Len(list) : i = scanned + 1 BY <2>1
      <3>2. ~ (i <= scanned) /\ i <= scanned' BY <1>0, <2>1, <3>1
      <3>3. ~ FetchAt(i, "scanned") /\ FetchAt(i, "scanned")' BY <3>2 DEF FetchAt
      <3> QED BY <3>3 DEF FetchStage
    <2>4. CallerLeft' <= CallerLeft BY <1>1, <2>1 DEF CallerLeft
    <2> QED BY <1>1, <1>2, <2>1, <2>2, <2>3, <2>4 DEF Progress
  <1>4. ASSUME NEW i \in 1 .. Len(list), Fetch(i) PROVE Progress
    <2>1. PICK x \in {"failing", "ended"} :
            /\ fetch' = [fetch EXCEPT ![i] = x] /\ i \in 1 .. scanned
            /\ UNCHANGED <<scanned, prefetch>>
            /\ fetch[i] = "flying" \/ (fetch[i] = "failing" /\ x = "ended")
      BY <1>4 DEF Fetch, Store, FetchFails, SendError
    <2>2. fetch'[i] = x /\ \A j \in 1 .. scanned : j # i => fetch'[j] = fetch[j]
      BY <1>0, <2>1 DEF TypeOK
    <2>3. ASSUME NEW j \in 1 .. Len(list), NEW m \in FetchStage, FetchAt(j, m)
          PROVE  FetchAt(j, m)'
      <3>1. j \in 1 .. scanned BY <1>0, <2>3 DEF FetchAt
      <3>2. CASE j # i BY <2>1, <2>2, <2>3, <3>1, <3>2 DEF FetchAt
      <3>3. CASE j = i BY <2>1, <2>2, <2>3, <3>3 DEF FetchAt
      <3> QED BY <3>2, <3>3
    <2>4. \E m \in FetchStage : ~ FetchAt(i, m) /\ FetchAt(i, m)'
      <3>1. CASE fetch[i] = "flying"
        <4>1. ~ FetchAt(i, "fetched") /\ FetchAt(i, "fetched")'
          BY <1>0, <2>1, <2>2, <3>1 DEF FetchAt
        <4> QED BY <4>1 DEF FetchStage
      <3>2. CASE fetch[i] = "failing" /\ x = "ended"
        <4>1. ~ FetchAt(i, "ended") /\ FetchAt(i, "ended")'
          BY <1>0, <2>1, <2>2, <3>2 DEF FetchAt
        <4> QED BY <4>1 DEF FetchStage
      <3> QED BY <2>1, <3>1, <3>2
    <2>5. CallerLeft' <= CallerLeft BY <1>1, <2>1 DEF CallerLeft
    <2> QED BY <1>1, <1>2, <2>3, <2>4, <2>5 DEF Progress
  <1>5. CASE PrefetchReturns
    <2>1. UNCHANGED <<scanned, fetch>> /\ CallerLeft' < CallerLeft /\ CallerLeft' <= CallerLeft
      BY <1>1, <1>5 DEF PrefetchReturns, CallerLeft
    <2>2. \A i \in 1 .. Len(list), m \in FetchStage : FetchAt(i, m) => FetchAt(i, m)'
      BY <2>1 DEF FetchAt
    <2> QED BY <1>1, <1>2, <2>1, <2>2 DEF Progress
  <1> QED BY <1>3, <1>4, <1>5

\* A browser is set up, or the set-up fails.
LEMMA BrowserProgress ==
  ASSUME TypeOK, Enable \/ SetUpFails \/ \E b \in Browser : Listen(b) \/ Load(b)
  PROVE  Progress
  <1> USE DEF prefetchVars, browserVars, requestVars
  <1>0. enabled \in 0 .. Size /\ Size \in Nat BY TypeFacts DEF TypeOK
  <1>1. UNCHANGED <<list, prefetchVars, requestVars>>
    BY DEF Enable, SetUpFails, Listen, Load
  <1>2. /\ \A i \in 1 .. Len(list), m \in FetchStage : FetchAt(i, m) => FetchAt(i, m)'
        /\ \A x \in Browser \X Url, m \in RequestStage : RequestAt(x, m) => RequestAt(x, m)'
    BY <1>1 DEF FetchAt, RequestAt
  <1>3. CASE SetUpFails
    <2>1. UNCHANGED <<enabled, listening, loading>>
          /\ CallerLeft' < CallerLeft /\ CallerLeft' <= CallerLeft
      BY <1>1, <1>3 DEF SetUpFails, CallerLeft
    <2>2. \A b \in Browser, m \in BrowserStage : BrowserAt(b, m) => BrowserAt(b, m)'
      BY <2>1 DEF BrowserAt
    <2> QED BY <1>1, <1>2, <2>1, <2>2 DEF Progress
  <1>4. ASSUME setUpFailed' = setUpFailed PROVE CallerLeft' <= CallerLeft
    BY <1>1, <1>4 DEF CallerLeft
  <1>5. CASE Enable
    <2>1. /\ enabled' = enabled + 1 /\ enabled \in Browser
          /\ UNCHANGED <<setUpFailed, listening, loading>>
      BY <1>0, <1>5 DEF Enable, Browser
    <2>2. \A b \in Browser, m \in BrowserStage : BrowserAt(b, m) => BrowserAt(b, m)'
      BY <1>0, <2>1 DEF BrowserAt, Browser
    <2>3. PICK b \in Browser : b = enabled BY <2>1
    <2>4. "enabled" \in BrowserStage /\ ~ BrowserAt(b, "enabled") /\ BrowserAt(b, "enabled")'
      BY <1>0, <2>1, <2>3 DEF BrowserAt, BrowserStage
    <2> QED BY <1>1, <1>2, <1>4, <2>1, <2>2, <2>4 DEF Progress
  <1>6. ASSUME NEW b \in Browser, Listen(b) \/ Load(b) PROVE Progress
    <2>1. \/ /\ b \notin listening /\ listening' = listening \cup {b}
             /\ UNCHANGED <<enabled, setUpFailed, loading>>
          \/ /\ b \notin loading /\ loading' = loading \cup {b}
             /\ UNCHANGED <<enabled, setUpFailed, listening>>
      BY <1>6 DEF Listen, Load
    <2>2. \A c \in Browser, m \in BrowserStage : BrowserAt(c, m) => BrowserAt(c, m)'
      BY <2>1 DEF BrowserAt
    <2>3. \E m \in BrowserStage : ~ BrowserAt(b, m) /\ BrowserAt(b, m)'
      <3>1. \/ ~ BrowserAt(b, "listening") /\ BrowserAt(b, "listening")'
            \/ ~ BrowserAt(b, "loading") /\ BrowserAt(b, "loading")'
        BY <2>1 DEF BrowserAt
      <3> QED BY <3>1 DEF BrowserStage
    <2> QED BY <1>1, <1>2, <1>4, <2>1, <2>2, <2>3 DEF Progress
  <1> QED BY <1>3, <1>5, <1>6

\* A request is made or answered.
LEMMA RequestProgress ==
  ASSUME TypeOK, NEW b \in Browser, NEW u \in Url, RequestStep(b, u)
  PROVE  Progress
  <1> USE DEF prefetchVars, browserVars, requestVars
  <1>1. UNCHANGED <<list, prefetchVars, browserVars>>
    BY DEF RequestStep, Request, Serve, Continue, AnswerFails
  <1>2. /\ \A i \in 1 .. Len(list), m \in FetchStage : FetchAt(i, m) => FetchAt(i, m)'
        /\ \A c \in Browser, m \in BrowserStage : BrowserAt(c, m) => BrowserAt(c, m)'
    BY <1>1 DEF FetchAt, BrowserAt
  <1>3. /\ \A c \in Browser, v \in Url : c # b \/ v # u => request'[c][v] = request[c][v]
        /\ \/ request[b][u] = "none" /\ request'[b][u] # "none"
           \/ request[b][u] = "heard" /\ request'[b][u] \in {"served", "continued", "unanswered"}
    <2>1. CASE Request(b, u) BY <2>1 DEF Request, TypeOK
    <2>2. CASE Serve(b, u) \/ Continue(b, u) BY <2>2 DEF Serve, Continue, AnswerFails, TypeOK
    <2> QED BY <2>1, <2>2 DEF RequestStep
  <1>4. ASSUME NEW x \in Browser \X Url, NEW m \in RequestStage, RequestAt(x, m)
        PROVE  RequestAt(x, m)'
    <2>1. x[1] \in Browser /\ x[2] \in Url BY <1>4
    <2>2. CASE x[1] # b \/ x[2] # u BY <1>3, <1>4, <2>1, <2>2 DEF RequestAt
    <2>3. CASE x[1] = b /\ x[2] = u BY <1>3, <1>4, <2>3 DEF RequestAt, RequestStage
    <2> QED BY <2>2, <2>3
  <1>5. \E x \in Browser \X Url, m \in RequestStage : ~ RequestAt(x, m) /\ RequestAt(x, m)'
    <2>1. <<b, u>> \in Browser \X Url /\ <<b, u>>[1] = b /\ <<b, u>>[2] = u OBVIOUS
    <2>2. "made" \in RequestStage /\ "settled" \in RequestStage BY DEF RequestStage
    <2>3. CASE request[b][u] = "none"
      <3>1. ~ RequestAt(<<b, u>>, "made") /\ RequestAt(<<b, u>>, "made")'
        BY <1>3, <2>1, <2>3 DEF RequestAt
      <3> QED BY <2>1, <2>2, <3>1
    <2>4. CASE request[b][u] = "heard"
      <3>1. ~ RequestAt(<<b, u>>, "settled") /\ RequestAt(<<b, u>>, "settled")'
        BY <1>3, <2>1, <2>4 DEF RequestAt
      <3> QED BY <2>1, <2>2, <3>1
    <2> QED BY <1>3, <2>3, <2>4
  <1>6. CallerLeft' <= CallerLeft BY <1>1 DEF CallerLeft
  <1> QED BY <1>1, <1>2, <1>4, <1>5, <1>6 DEF Progress

\* The set-up of a caller takes finitely many steps, for every list and every number
\* of browsers: until the last browser is set up no page gives way to another, and
\* every step makes what is left to do smaller.
THEOREM SetUpIsFinite ==
  Spec => [](StepsLeft \in Nat) /\ [][enabled < Size => StepsLeft' < StepsLeft]_vars
  <1>1. TypeOK => StepsLeft \in Nat
    <2>1. SUFFICES ASSUME TypeOK PROVE StepsLeft \in Nat OBVIOUS
    <2>2. /\ Cardinality(FetchesLeft) \in Nat /\ Cardinality(BrowsersLeft) \in Nat
          /\ Cardinality(RequestsLeft) \in Nat /\ CallerLeft \in Nat
      BY <2>1, LeftFinite, FS_CardinalityType
    <2> QED BY <2>2 DEF StepsLeft
  <1>2. ASSUME TypeOK, InTurn, enabled < Size, Next PROVE Progress
    <2>1. ASSUME NEW b \in Browser, Leave(b) \/ Replace(b) PROVE FALSE
      <3>1. enabled # Size BY <1>2, CacheAssumption DEF TypeOK
      <3>2. Leave(b) /\ loading = {} BY <1>2, <2>1, <3>1 DEF Leave, Replace, InTurn
      <3> QED BY <3>2 DEF Leave, Loaded
    <2> QED BY <1>2, <2>1, PrefetchProgress, BrowserProgress, RequestProgress DEF Next
  <1>3. TypeOK /\ TypeOK' /\ InTurn /\ [Next]_vars
          => [enabled < Size => StepsLeft' < StepsLeft]_vars
    BY <1>2, ProgressCounts
  <1> QED BY <1>1, <1>3, TypeCorrect, AlwaysInTurn, PTL DEF Spec

-----------------------------------------------------------------------------
(* Nobody waits for ever.                                                  *)

Ended == {i \in 1 .. scanned : fetch[i] = "ended"}

\* The channel errs holds at most one error of each fetch that has ended.
ErrorsFit == errs <= Cardinality(Ended)

LEMMA AlwaysErrorsFit == Spec => []ErrorsFit
  <1> USE DEF ErrorsFit, prefetchVars, browserVars, requestVars
  <1>1. Init => ErrorsFit
    <2> SUFFICES ASSUME Init PROVE ErrorsFit OBVIOUS
    <2>1. Ended = {} /\ errs = 0 BY DEF Init, Ended
    <2> QED BY <2>1, FS_EmptySet
  <1>2. ASSUME TypeOK, TypeOK', ErrorsFit, [Next]_vars PROVE ErrorsFit'
    <2>0. /\ scanned \in Nat /\ scanned' \in Nat /\ errs \in Nat /\ Len(fetch) = scanned
      BY <1>2, TypeFacts DEF TypeOK
    <2>1. IsFiniteSet(Ended) /\ IsFiniteSet(Ended')
      <3>1. IsFiniteSet(1 .. scanned) /\ IsFiniteSet(1 .. scanned')
        BY <2>0, FS_Interval
      <3> QED BY <3>1, FS_Subset DEF Ended
    <2>2. ASSUME Ended \subseteq Ended', errs' = errs PROVE ErrorsFit'
      <3>1. Cardinality(Ended) <= Cardinality(Ended') BY <2>1, <2>2, FS_Subset
      <3>2. Cardinality(Ended) \in Nat /\ Cardinality(Ended') \in Nat
        BY <2>1, FS_CardinalityType
      <3> QED BY <1>2, <2>0, <2>2, <3>1, <3>2
    <2>3. CASE Scan
      <3>1. /\ scanned' = scanned + 1 /\ errs' = errs
            /\ \A i \in 1 .. scanned : fetch'[i] = fetch[i]
        BY <1>2, <2>0, <2>3 DEF Scan, TypeOK
      <3>2. \A i \in 1 .. scanned : i \in 1 .. scanned' BY <2>0, <3>1
      <3>3. Ended \subseteq Ended' BY <3>1, <3>2 DEF Ended
      <3> QED BY <2>2, <3>1, <3>3
    <2>4. ASSUME NEW i \in 1 .. Len(list), Store(i) \/ FetchFails(i) PROVE ErrorsFit'
      <3>1. /\ scanned' = scanned /\ errs' = errs /\ i \in 1 .. scanned /\ fetch[i] = "flying"
            /\ \A j \in 1 .. scanned : j # i => fetch'[j] = fetch[j]
        <4>1. PICK x \in {"failing", "ended"} :
                /\ fetch' = [fetch EXCEPT ![i] = x] /\ scanned' = scanned /\ errs' = errs
                /\ i \in 1 .. scanned /\ fetch[i] = "flying"
          BY <2>4 DEF Store, FetchFails
        <4> QED BY <1>2, <2>0, <4>1 DEF TypeOK
      <3>2. Ended \subseteq Ended' BY <3>1 DEF Ended
      <3> QED BY <2>2, <3>1, <3>2
    <2>5. ASSUME NEW i \in 1 .. Len(list), SendError(i) PROVE ErrorsFit'
      <3>1. /\ scanned' = scanned /\ errs' = errs + 1 /\ i \in 1 .. scanned
            /\ fetch[i] = "failing" /\ fetch'[i] = "ended"
            /\ \A j \in 1 .. scanned : j # i => fetch'[j] = fetch[j]
        BY <1>2, <2>0, <2>5 DEF SendError, TypeOK
      <3>2. i \notin Ended /\ Ended' = Ended \cup {i} BY <3>1 DEF Ended
      <3>3. Cardinality(Ended') = Cardinality(Ended) + 1
        BY <2>1, <3>2, FS_AddElement
      <3>4. Cardinality(Ended) \in Nat BY <2>1, FS_CardinalityType
      <3> QED BY <1>2, <2>0, <3>1, <3>3, <3>4
    <2>6. CASE UNCHANGED <<scanned, fetch, errs>>
      <3>1. Ended' = Ended BY <2>6 DEF Ended
      <3> QED BY <2>2, <2>6, <3>1
    <2>7. \/ UNCHANGED <<scanned, fetch, errs>> \/ Scan
          \/ \E i \in 1 .. Len(list) : Store(i) \/ FetchFails(i) \/ SendError(i)
      BY <1>2 DEF Next, vars, PrefetchReturns, Fetch, Enable, SetUpFails, Listen, Load, Leave,
                  Replace, RequestStep, Request, Serve, Continue, AnswerFails
    <2> QED BY <2>3, <2>4, <2>5, <2>6, <2>7
  <1> QED BY <1>1, <1>2, TypeCorrect, PTL DEF Spec

\* The guards of the actions that the set-up and a page wait for.
CanScan == prefetch = "running" /\ scanned < Len(list)

CanFetch(i) ==
  i \in 1 .. scanned /\ (fetch[i] = "flying" \/ (fetch[i] = "failing" /\ errs < Len(list)))

CanReturn ==
  /\ prefetch = "running" /\ scanned = Len(list)
  /\ \A i \in 1 .. scanned : fetch[i] \in {"skipped", "ended"}

CanEnable ==
  /\ prefetch # "running" /\ enabled < Size /\ ~ setUpFailed
  /\ caller = "Warmup" => \A b \in 0 .. enabled - 1 : Loaded(b)

CanLoad(b) ==
  enabled = (IF caller = "Warmup" THEN b + 1 ELSE Size) /\ ~ setUpFailed /\ b \notin loading

CanRequest(b, u) ==
  \/ /\ b \in loading /\ request[b][u] = "none"
     /\ u # Page => request[b][Page] \in Answered
  \/ request[b][u] = "heard"

\* A page that is being loaded can make a request or gets an answer, and a set-up that
\* has not come to its end can go on; excepted is a page that has lost a request of its own.
NeverStuck ==
  /\ \A b \in loading : Loaded(b) \/ Lost(b) \/ \E u \in Url : CanRequest(b, u)
  /\ \/ enabled = Size \/ setUpFailed \/ SetUpHangs
     \/ CanScan \/ CanReturn \/ CanEnable
     \/ \E i \in 1 .. Len(list) : CanFetch(i)
     \/ \E b \in Browser : caller = "Warmup" /\ CanLoad(b)
     \/ \E b \in loading : \E u \in Url : CanRequest(b, u)

\* However many fetches fail, each finds room for its error, so that wg.Wait ends; and
\* the page that Warmup waits for is never one that waits for Warmup.  With
\* SetUpIsFinite this is why every caller gets to the end of its set-up, unless that page
\* has lost a request: one that nobody heard, or whose answer failed.
THEOREM NeverDeadlocks == Spec => []NeverStuck
  <1>1. ASSUME IInv, ErrorsFit, InTurn PROVE NeverStuck
    <2>0. /\ TypeOK /\ Len(list) \in Nat /\ scanned \in 0 .. Len(list) /\ errs \in Nat
          /\ enabled \in 0 .. Size /\ Size \in Nat /\ Page \in Url
      BY <1>1, TypeFacts, CacheAssumption DEF IInv, TypeOK
    <2>1. ASSUME NEW b \in loading, ~ Loaded(b), ~ Lost(b)
          PROVE  \E u \in Url : CanRequest(b, u)
      <3>1. b \in Browser BY <2>0 DEF TypeOK
      <3>2. PICK u \in Url : request[b][u] \notin Answered BY <2>1 DEF Loaded
      <3>3. \A v \in Url : request[b][v] \in {"none", "heard"} \/ request[b][v] \in Answered
        BY <2>0, <2>1, <3>1 DEF TypeOK, Answered, Lost
      <3>4. CASE request[b][Page] \in Answered BY <3>2, <3>3, <3>4 DEF CanRequest
      <3>5. CASE request[b][Page] \notin Answered BY <2>0, <3>3, <3>5 DEF CanRequest
      <3> QED BY <3>4, <3>5
    <2>2. SUFFICES ASSUME enabled # Size, ~ setUpFailed, ~ SetUpHangs,
                          ~ CanScan, ~ CanReturn, ~ CanEnable,
                          \A i \in 1 .. Len(list) : ~ CanFetch(i),
                          \A b \in Browser : ~ (caller = "Warmup" /\ CanLoad(b)),
                          ~ \E b \in loading : \E u \in Url : CanRequest(b, u)
                   PROVE  FALSE
      BY <2>1 DEF NeverStuck
    <2>3. ASSUME prefetch = "running" PROVE FALSE
      <3>1. scanned = Len(list) BY <2>0, <2>2, <2>3 DEF CanScan
      <3>2. PICK i \in 1 .. scanned : fetch[i] \notin {"skipped", "ended"}
        BY <2>2, <2>3, <3>1 DEF CanReturn
      <3>3. fetch[i] \in {"flying", "failing"} BY <2>0, <3>2 DEF TypeOK
      <3>4. Cardinality(Ended) < Len(list)
        <4>1. IsFiniteSet(1 .. scanned) /\ Cardinality(1 .. scanned) = scanned
          BY <2>0, FS_Interval
        <4>2. Ended \subseteq 1 .. scanned /\ i \notin Ended BY <3>2 DEF Ended
        <4>3. Ended # 1 .. scanned BY <3>2, <4>2
        <4> QED BY <3>1, <4>1, <4>2, <4>3, Shrinks
      <3>5. Cardinality(Ended) \in Nat
        <4>1. IsFiniteSet(1 .. scanned) BY <2>0, FS_Interval
        <4> QED BY <4>1, FS_Subset, FS_CardinalityType DEF Ended
      <3>6. errs < Len(list) BY <1>1, <2>0, <3>4, <3>5 DEF ErrorsFit
      <3> QED BY <2>2, <3>1, <3>3, <3>6 DEF CanFetch
    <2>4. enabled < Size BY <2>0, <2>2
    <2>5. caller = "Warmup" /\ ~ \A b \in 0 .. enabled - 1 : Loaded(b)
      BY <2>2, <2>3, <2>4 DEF CanEnable
    <2>6. PICK b \in Browser : b < enabled /\ ~ Loaded(b)
      BY <2>0, <2>4, <2>5 DEF Browser
    <2>7. b + 1 = enabled
      <3>1. ~ (b + 1 < enabled) BY <1>1, <2>5, <2>6 DEF InTurn
      <3> QED BY <2>0, <2>6, <3>1 DEF Browser
    <2>8. b \in loading BY <2>2, <2>5, <2>7 DEF CanLoad
    <2>9. ~ Lost(b)
      <3>1. b = enabled - 1 /\ enabled > 0 BY <2>0, <2>6, <2>7 DEF Browser
      <3> QED BY <2>2, <2>5, <3>1 DEF SetUpHangs
    <2> QED BY <2>1, <2>2, <2>6, <2>8, <2>9
  <1> QED BY <1>1, Invariance, AlwaysErrorsFit, AlwaysInTurn, PTL
=============================================================================

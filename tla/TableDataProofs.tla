-------------------------- MODULE TableDataProofs ---------------------------
(***************************************************************************)
(* Theorems about TableData, for every set of filters, sizes and slots and *)
(* every bound. The invariant is a conjunction over the four things a      *)
(* fetch works on: the rows shown, the cache, the requests, the guard of   *)
(* the page change. A fetch first marks the request that is out and then   *)
(* replaces it, so its lemma starts from requests that need not be in      *)
(* order yet: the one the controller belongs to may still hold an old      *)
(* answer (RequestsBefore).                                                *)
(***************************************************************************)
EXTENDS TableData, FiniteSetTheorems, TLAPS

RowsOK(sh) == sh \in Answers \cup {NoData} /\ (sh # NoData => ~sh.old)

CacheOK(c) ==
    /\ DOMAIN c \subseteq Params
    /\ \A k \in DOMAIN c : c[k] \in Answers /\ KeyOf(c[k]) = k /\ ~c[k].old

\* Requests between the marks of a reload and the cancelling that follows.
RequestsBefore(rq, act) ==
    /\ rq \in [Slots -> Request]
    /\ act \in Slots \cup {NoSlot}
    /\ act # NoSlot => rq[act].phase # "free"
    /\ \A i \in Slots :
          /\ rq[i].phase # "free" /\ ~rq[i].aborted => i = act
          /\ rq[i].phase = "free" => rq[i] = FreeRequest
          /\ rq[i].phase = "answered" => rq[i].ans \in Answers
          /\ rq[i].ans # NoData => KeyOf(rq[i].ans) = rq[i].key
          /\ rq[i].ans # NoData /\ rq[i].ans.old => rq[i].aborted \/ i = act

\* An old answer belongs to a cancelled request.
OldIsAborted(rq) == \A i \in Slots : rq[i].ans # NoData /\ rq[i].ans.old => rq[i].aborted

RequestsOK(rq, act) == RequestsBefore(rq, act) /\ OldIsAborted(rq)

Waits(rq, i) == rq[i].phase # "free" /\ rq[i].then = "page"

GuardOK(rq, ch) ==
    /\ ch \in BOOLEAN
    /\ ch <=> \E i \in Slots : Waits(rq, i)
    /\ \A i, j \in Slots : Waits(rq, i) /\ Waits(rq, j) => i = j

PagesOK(se, pg) ==
    /\ se \in Params /\ pg \in [p : Pages, s : Sizes, total : 0 .. MaxRows]
    /\ se.p = pg.p /\ se.s = pg.s

RestOK ==
    /\ rows \in 0 .. MaxRows
    /\ loading \in {"idle", "loading", "success", "error"}
    /\ timer \in BOOLEAN /\ orphans \in 0 .. MaxOrphans
    /\ life \in {"new", "mounted", "left"}
    /\ sent \in 0 .. MaxRequests

TableInv ==
    /\ RestOK
    /\ RowsOK(shown)
    /\ CacheOK(cache)
    /\ RequestsOK(req, active)
    /\ GuardOK(req, changing)
    /\ PagesOK(search, pagination)

-----------------------------------------------------------------------------
(* Numbers and records *)

\* The last page of a list that is not empty is at least the first.
LEMMA QuotientPositive ==
    ASSUME NEW a \in Nat, NEW b \in Nat, b > 0, a >= b
    PROVE  a \div b \in Nat /\ a \div b >= 1
OBVIOUS

LEMMA LastPageBounds ==
    ASSUME NEW t \in 0 .. MaxRows, NEW s \in Sizes
    PROVE  LastPage(t, s) \in Nat /\ LastPage(t, s) >= 1
<1>1. s \in Nat /\ s > 0 /\ t \in Nat
  BY TableAssumption
<1>2. CASE t = 0
  BY <1>2 DEF LastPage
<1>3. CASE t # 0
  <2>1. t + s - 1 \in Nat /\ t + s - 1 >= s
    BY <1>1, <1>3
  <2> QED BY <2>1, <1>1, <1>3, QuotientPositive DEF LastPage
<1> QED BY <1>2, <1>3

\* A page number stays a page number when it is brought back into the list.
LEMMA ClampPage ==
    ASSUME NEW p \in Pages, NEW t \in 0 .. MaxRows, NEW s \in Sizes
    PROVE  Clamp(p, t, s) \in Pages
BY LastPageBounds, TableAssumption DEF Clamp, Pages

\* The pagination and the search parameters after an answer agree.
LEMMA FollowAnswer ==
    ASSUME NEW a \in Answers, NEW se \in Params
    PROVE  PagesOK(Follow(se, PaginationOf(a)), PaginationOf(a))
<1>1. a.p \in Pages /\ a.s \in Sizes /\ a.total \in 0 .. MaxRows
  BY DEF Answers
<1>2. Clamp(a.p, a.total, a.s) \in Pages
  BY <1>1, ClampPage
<1> QED BY <1>1, <1>2 DEF PagesOK, Follow, PaginationOf, Params

LEMMA FreeIsRequest == FreeRequest \in Request /\ FreeRequest.phase = "free"
                          /\ FreeRequest.ans = NoData /\ ~FreeRequest.aborted
BY TableAssumption DEF FreeRequest, Request, Phases, Params, Then, Pages

-----------------------------------------------------------------------------
(* fetchData *)

\* Cancelling the request that is out puts the requests in order.
LEMMA AbortRequests ==
    ASSUME NEW rq, NEW act, RequestsBefore(rq, act)
    PROVE  /\ RequestsOK(Abort(rq, act), NoSlot)
           /\ \A i \in Slots : Waits(Abort(rq, act), i) <=> Waits(rq, i)
<1> DEFINE ab == Abort(rq, act)
<1>1. \A i \in Slots : ab[i] = IF i = act THEN [rq[i] EXCEPT !.aborted = TRUE] ELSE rq[i]
  BY DEF Abort
<1>2. \A i \in Slots : rq[i] \in Request
  BY DEF RequestsBefore
<1>3. \A i \in Slots : /\ ab[i] \in Request
                       /\ ab[i].phase = rq[i].phase /\ ab[i].key = rq[i].key
                       /\ ab[i].ans = rq[i].ans /\ ab[i].then = rq[i].then
                       /\ ab[i].aborted <=> (rq[i].aborted \/ i = act)
  <2> HIDE DEF ab
  <2> TAKE i \in Slots
  <2>1. rq[i] \in Request
    BY <1>2
  <2>2. CASE i = act
    <3>1. ab[i] = [rq[i] EXCEPT !.aborted = TRUE]
      BY <1>1, <2>2
    <3> QED BY <2>1, <2>2, <3>1 DEF Request
  <2>3. CASE i # act
    <3>1. ab[i] = rq[i]
      BY <1>1, <2>3
    <3> QED BY <2>1, <2>3, <3>1 DEF Request
  <2> QED BY <2>2, <2>3
<1>4. ab \in [Slots -> Request]
  BY <1>3 DEF Abort
<1>5. ASSUME NEW i \in Slots, rq[i].phase = "free" PROVE ab[i] = FreeRequest
  BY <1>1, <1>5, TableAssumption DEF RequestsBefore
<1>6. RequestsBefore(ab, NoSlot)
  <2> HIDE DEF ab
  <2>1. \A i \in Slots : ab[i].phase # "free" => ab[i].aborted
    BY <1>3 DEF RequestsBefore
  <2>2. \A i \in Slots : ab[i].phase = "free" => ab[i] = FreeRequest
    BY <1>3, <1>5
  <2>3. \A i \in Slots : ab[i].phase = "answered" => ab[i].ans \in Answers
    BY <1>3 DEF RequestsBefore
  <2>4. \A i \in Slots : ab[i].ans # NoData => KeyOf(ab[i].ans) = ab[i].key
    BY <1>3 DEF RequestsBefore
  <2>5. \A i \in Slots : ab[i].ans # NoData /\ ab[i].ans.old => ab[i].aborted
    BY <1>3 DEF RequestsBefore
  <2> QED BY <1>4, <2>1, <2>2, <2>3, <2>4, <2>5 DEF RequestsBefore
<1>7. OldIsAborted(ab)
  <2> HIDE DEF ab
  <2> QED BY <1>3 DEF RequestsBefore, OldIsAborted
<1>8. \A i \in Slots : Waits(ab, i) <=> Waits(rq, i)
  <2> HIDE DEF ab
  <2> QED BY <1>3 DEF Waits
<1> QED BY <1>6, <1>7, <1>8 DEF RequestsOK

\* A fetch, from whatever rows, cache, pagination and requests its handler left, restores the
\* invariant: at once with what the cache holds, or by a request of its own.
LEMMA FetchKeepsInv ==
    ASSUME NEW se, NEW pg, NEW c, NEW rq, NEW act, NEW sh, NEW useCache \in BOOLEAN,
           NEW then \in Then, NEW from \in Pages,
           PagesOK(se, pg), CacheOK(c), RowsOK(sh), RequestsBefore(rq, act),
           GuardOK(rq, changing), then = "page" => ~changing,
           sent \in 0 .. MaxRequests,
           Fetch(se, pg, c, useCache, rq, act, sh, then, from)
    PROVE  /\ RowsOK(shown)' /\ CacheOK(cache)' /\ RequestsOK(req, active)'
           /\ GuardOK(req, changing)' /\ PagesOK(search, pagination)'
           /\ loading' \in {"idle", "loading", "success", "error"}
           /\ sent' \in 0 .. MaxRequests
<1> DEFINE k == [f |-> se.f, p |-> pg.p, s |-> pg.s]
           ab == Abort(rq, act)
<1>1. CacheOK(cache)'
  BY DEF Fetch, CacheOK
<1>2. /\ RequestsOK(ab, NoSlot)
      /\ \A i \in Slots : Waits(ab, i) <=> Waits(rq, i)
  BY AbortRequests
<1>3. k \in Params
  BY DEF PagesOK, Params
<1>4. CASE FetchHit(k, c, rq, act, se) /\ k \in DOMAIN c
  <2>1. c[k] \in Answers /\ ~c[k].old
    BY <1>4 DEF CacheOK
  <2>2. RowsOK(shown)'
    BY <2>1, <1>4 DEF FetchHit, RowsOK
  <2>3. PagesOK(search, pagination)'
    <3>1. PagesOK(Follow(se, PaginationOf(c[k])), PaginationOf(c[k]))
      BY <2>1, FollowAnswer DEF PagesOK
    <3>2. search' = Follow(se, PaginationOf(c[k])) /\ pagination' = PaginationOf(c[k])
      BY <1>4 DEF FetchHit
    <3> QED BY <3>1, <3>2 DEF PagesOK
  <2>4. RequestsOK(req, active)'
    BY <1>2, <1>4 DEF FetchHit, RequestsOK, RequestsBefore, OldIsAborted
  <2>5. GuardOK(req, changing)'
    BY <1>2, <1>4 DEF FetchHit, GuardOK, Waits
  <2>6. loading' = "success" /\ sent' = sent
    BY <1>4 DEF FetchHit
  <2> QED BY <1>1, <2>2, <2>3, <2>4, <2>5, <2>6
<1>5. ASSUME NEW i \in Slots, FetchSend(i, k, useCache, rq, act, se, pg, sh, then, from)
      PROVE  /\ RowsOK(shown)' /\ RequestsOK(req, active)'
             /\ GuardOK(req, changing)' /\ PagesOK(search, pagination)'
             /\ loading' \in {"idle", "loading", "success", "error"}
             /\ sent' \in 0 .. MaxRequests
  <2> DEFINE r == [FreeRequest EXCEPT !.phase = "sent", !.key = k, !.useCache = useCache,
                                      !.then = then, !.from = from]
  <2>1. /\ r \in Request /\ r.phase = "sent" /\ r.ans = NoData /\ r.then = then
    BY <1>3, FreeIsRequest DEF Request, Phases, FreeRequest
  <2>2. ab[i].phase = "free"
    BY <1>2, <1>5 DEF FetchSend, Abort, RequestsBefore, RequestsOK
  <2>3. req' = [ab EXCEPT ![i] = r] /\ active' = i
    BY <1>5 DEF FetchSend
  <2> HIDE DEF r, ab
  <2>4. ab \in [Slots -> Request]
    BY <1>2 DEF RequestsOK, RequestsBefore
  <2>5. \A j \in Slots : req'[j] = IF j = i THEN r ELSE ab[j]
    BY <2>3, <2>4
  <2>6. RequestsOK(req, active)'
    <3>1. req' \in [Slots -> Request]
      BY <2>1, <2>3, <2>4
    <3>2. \A j \in Slots : j # i /\ ab[j].phase # "free" => ab[j].aborted
      BY <1>2, TableAssumption DEF RequestsOK, RequestsBefore
    <3>3. RequestsBefore(req', i)
      <4>1. i # NoSlot /\ req'[i] = r
        BY <2>5, TableAssumption
      <4>2. \A j \in Slots : j # i => req'[j] = ab[j]
        BY <2>5
      <4>3. ASSUME NEW j \in Slots
            PROVE  /\ req'[j].phase # "free" /\ ~req'[j].aborted => j = i
                   /\ req'[j].phase = "free" => req'[j] = FreeRequest
                   /\ req'[j].phase = "answered" => req'[j].ans \in Answers
                   /\ req'[j].ans # NoData => KeyOf(req'[j].ans) = req'[j].key
                   /\ req'[j].ans # NoData /\ req'[j].ans.old => req'[j].aborted \/ j = i
        <5>1. CASE j = i
          BY <5>1, <4>1, <2>1
        <5>2. CASE j # i
          BY <5>2, <4>2, <3>2, <1>2 DEF RequestsOK, RequestsBefore, OldIsAborted
        <5> QED BY <5>1, <5>2
      <4> QED BY <2>1, <3>1, <4>1, <4>3 DEF RequestsBefore
    <3>4. OldIsAborted(req')
      BY <1>2, <2>1, <2>5 DEF RequestsOK, OldIsAborted
    <3> QED BY <2>3, <3>3, <3>4 DEF RequestsOK, RequestsBefore, OldIsAborted
  <2>7. GuardOK(req, changing)'
    <3>1. changing' \in BOOLEAN /\ (changing' <=> changing \/ then = "page")
      BY <1>5 DEF FetchSend, GuardOK
    <3>2. ~Waits(ab, i)
      BY <2>2 DEF Waits
    <3>3. \A j \in Slots : Waits(req', j) <=> (Waits(rq, j) \/ (j = i /\ then = "page"))
      BY <1>2, <2>1, <2>5, <3>2 DEF Waits
    <3>5. changing' <=> \E j \in Slots : Waits(req', j)
      BY <3>1, <3>3 DEF GuardOK
    <3>6. ASSUME NEW j \in Slots, NEW l \in Slots, Waits(req', j), Waits(req', l) PROVE j = l
      BY <3>3, <3>6 DEF GuardOK
    <3>7. GuardOK(req', changing')
      BY <3>1, <3>5, <3>6 DEF GuardOK
    <3> QED BY <3>7 DEF GuardOK, Waits
  <2>8. /\ shown' = sh /\ search' = se /\ pagination' = pg /\ loading' = "loading"
        /\ sent < MaxRequests /\ sent' = sent + 1
    BY <1>5 DEF FetchSend
  <2>9. sent' \in 0 .. MaxRequests
    BY <2>8, TableAssumption
  <2> QED BY <2>6, <2>7, <2>8, <2>9 DEF RowsOK, PagesOK
<1>6. \/ FetchHit(k, c, rq, act, se) /\ k \in DOMAIN c
      \/ \E i \in Slots : FetchSend(i, k, useCache, rq, act, se, pg, sh, then, from)
  BY DEF Fetch
<1> QED BY <1>1, <1>4, <1>5, <1>6

\* Marking answers as old changes neither their key nor what they answer.
LEMMA AgedAnswer ==
    ASSUME NEW a \in Answers, NEW ks
    PROVE  /\ Aged(a, ks) \in Answers /\ KeyOf(Aged(a, ks)) = KeyOf(a)
           /\ a # NoData /\ KeyOf(a) \notin ks /\ ~a.old => ~Aged(a, ks).old
BY DEF Aged, Answers, KeyOf

\* A handler that clears the keys ks and fetches: what the cache still holds is not among
\* them, and only the request that is out may hold an old answer that is not cancelled yet.
LEMMA ReloadKeepsInv ==
    ASSUME TableInv, NEW se, NEW pg, NEW ks, NEW c,
           NEW useCache \in BOOLEAN, NEW then \in {"nothing", "remove", "debounced"},
           PagesOK(se, pg), CacheOK(c), DOMAIN c \cap ks = {},
           Reload(se, pg, ks, c, useCache, then)
    PROVE  /\ RowsOK(shown)' /\ CacheOK(cache)' /\ RequestsOK(req, active)'
           /\ GuardOK(req, changing)' /\ PagesOK(search, pagination)'
           /\ loading' \in {"idle", "loading", "success", "error"}
           /\ sent' \in 0 .. MaxRequests
<1> DEFINE mc == [k \in DOMAIN c |-> Aged(c[k], ks)]
           mr == [i \in Slots |-> [req[i] EXCEPT !.ans = Aged(@, ks)]]
<1>1. CacheOK(mc)
  <2>1. ASSUME NEW k \in DOMAIN c
        PROVE  mc[k] \in Answers /\ KeyOf(mc[k]) = k /\ ~mc[k].old
    <3>1. c[k] \in Answers /\ KeyOf(c[k]) = k /\ ~c[k].old /\ k \notin ks
      BY DEF CacheOK
    <3> QED BY <3>1, AgedAnswer, NoDataAssumption
  <2> QED BY <2>1 DEF CacheOK
<1>2. RequestsBefore(req, active) /\ OldIsAborted(req)
  BY DEF TableInv, RequestsOK
<1>3. \A i \in Slots : /\ req[i] \in Request
                       /\ mr[i] = [req[i] EXCEPT !.ans = Aged(req[i].ans, ks)]
  BY <1>2 DEF RequestsBefore
<1>4. ASSUME NEW i \in Slots
      PROVE  /\ mr[i] \in Request
             /\ mr[i].phase = req[i].phase /\ mr[i].key = req[i].key
             /\ mr[i].then = req[i].then /\ (mr[i].aborted <=> req[i].aborted)
             /\ mr[i].ans = Aged(req[i].ans, ks)
  <2>1. Aged(req[i].ans, ks) \in Answers \cup {NoData}
    BY <1>3, AgedAnswer DEF Request, Aged
  <2> QED BY <1>3, <2>1 DEF Request
<1>5. \A i \in Slots : req[i].ans = NoData => mr[i] = req[i]
  BY <1>3 DEF Aged, Request
<1>6. mr \in [Slots -> Request]
  BY <1>4
<1>7. RequestsBefore(mr, active)
  <2> HIDE DEF mr
  <2>1. active # NoSlot => mr[active].phase # "free"
    BY <1>2, <1>4 DEF RequestsBefore
  <2>2. ASSUME NEW i \in Slots
        PROVE  /\ mr[i].phase # "free" /\ ~mr[i].aborted => i = active
               /\ mr[i].phase = "free" => mr[i] = FreeRequest
               /\ mr[i].phase = "answered" => mr[i].ans \in Answers
               /\ mr[i].ans # NoData => KeyOf(mr[i].ans) = mr[i].key
               /\ mr[i].ans # NoData /\ mr[i].ans.old => mr[i].aborted \/ i = active
    <3>1. mr[i].phase # "free" /\ ~mr[i].aborted => i = active
      BY <1>2, <1>4 DEF RequestsBefore
    <3>2. mr[i].phase = "free" => mr[i] = FreeRequest
      BY <1>2, <1>4, <1>5, FreeIsRequest DEF RequestsBefore
    <3>3. mr[i].phase = "answered" => mr[i].ans \in Answers
      BY <1>2, <1>4, AgedAnswer DEF RequestsBefore
    <3>4. CASE req[i].ans = NoData
      BY <3>1, <3>2, <3>3, <3>4, <1>5
    <3>5. CASE req[i].ans # NoData
      <4>1. req[i].ans \in Answers /\ KeyOf(req[i].ans) = req[i].key
        BY <3>5, <1>2, <1>3 DEF RequestsBefore, Request
      <4>2. KeyOf(mr[i].ans) = mr[i].key
        BY <4>1, <1>4, AgedAnswer
      <4>3. mr[i].phase # "free"
        BY <3>5, <1>2, <1>4, FreeIsRequest DEF RequestsBefore
      <4> QED BY <3>1, <3>2, <3>3, <4>2, <4>3
    <3> QED BY <3>4, <3>5
  <2> QED BY <1>2, <1>6, <2>1, <2>2 DEF RequestsBefore
<1>8. \A i \in Slots : Waits(mr, i) <=> Waits(req, i)
  BY <1>4 DEF Waits
<1>9. GuardOK(mr, changing)
  BY <1>8 DEF TableInv, GuardOK
<1>10. Fetch(se, pg, mc, useCache, mr, active, shown, then, pg.p)
  BY DEF Reload
<1> HIDE DEF mc, mr
<1>11. RowsOK(shown) /\ sent \in 0 .. MaxRequests /\ pg.p \in Pages /\ then \in Then
       /\ then # "page"
  BY DEF TableInv, RestOK, PagesOK, Then
<1> QED BY <1>1, <1>7, <1>9, <1>10, <1>11, FetchKeepsInv

-----------------------------------------------------------------------------
(* The handlers *)

FetchResult ==
    /\ RowsOK(shown)' /\ CacheOK(cache)' /\ RequestsOK(req, active)'
    /\ GuardOK(req, changing)' /\ PagesOK(search, pagination)'
    /\ loading' \in {"idle", "loading", "success", "error"}
    /\ sent' \in 0 .. MaxRequests

LEMMA FirstIsPage == 1 \in Pages
BY TableAssumption DEF Pages

LEMMA FirstPages ==
    ASSUME TableInv
    PROVE  /\ PagesOK(FirstPage(search), FirstPage(pagination))
           /\ FirstPage(search) \in Params
BY TableAssumption DEF TableInv, PagesOK, FirstPage, Params, Pages

\* The cache without the keys ks is a cache, and holds none of them.
LEMMA ClearedCache ==
    ASSUME CacheOK(cache), NEW ks
    PROVE  /\ CacheOK(WithoutKeys(cache, ks))
           /\ DOMAIN WithoutKeys(cache, ks) \cap ks = {}
BY DEF CacheOK, WithoutKeys

LEMMA EmptyIsCache == CacheOK(EmptyCache) /\ DOMAIN EmptyCache = {}
BY DEF CacheOK, EmptyCache

LEMMA SearchResult ==
    ASSUME TableInv, NEW then \in {"nothing", "debounced"}, SearchNow(then)
    PROVE  FetchResult
<1> DEFINE se == FirstPage(search)
<1>1. Reload(se, FirstPage(pagination), {se}, ClearCurrent(se), FALSE, then)
  BY DEF SearchNow
<1>2. CacheOK(ClearCurrent(se)) /\ DOMAIN ClearCurrent(se) \cap {se} = {}
  BY ClearedCache DEF ClearCurrent, TableInv
<1>3. PagesOK(se, FirstPage(pagination))
  BY FirstPages
<1> HIDE DEF se
<1> QED BY <1>1, <1>2, <1>3, ReloadKeepsInv DEF FetchResult

LEMMA GetDataResult ==
    ASSUME TableInv, NEW se, NEW pg, NEW then \in {"nothing", "page"}, PagesOK(se, pg),
           then = "page" => ~changing, GetData(se, pg, then)
    PROVE  FetchResult
<1>1. /\ CacheOK(cache) /\ RowsOK(shown) /\ RequestsBefore(req, active)
      /\ GuardOK(req, changing) /\ sent \in 0 .. MaxRequests /\ pg.p \in Pages /\ then \in Then
  BY DEF TableInv, RestOK, RequestsOK, PagesOK, Then
<1> QED BY <1>1, FetchKeepsInv DEF GetData, FetchResult

LEMMA WholeReload ==
    ASSUME TableInv, NEW se, NEW pg, NEW c, PagesOK(se, pg), c = EmptyCache,
           Reload(se, pg, Params, c, TRUE, "nothing")
    PROVE  FetchResult
<1>1. CacheOK(c) /\ DOMAIN c \cap Params = {}
  BY EmptyIsCache
<1> QED BY <1>1, ReloadKeepsInv DEF FetchResult

\* refreshCreate clears every entry: each of them carries the tag.
LEMMA PaginationClearsAll == ASSUME CacheOK(cache) PROVE ClearPagination(cache) = EmptyCache
<1>1. DOMAIN cache \ DOMAIN cache = {}
  OBVIOUS
<1> QED BY <1>1 DEF ClearPagination, WithoutKeys, EmptyCache

LEMMA KeyReload ==
    ASSUME TableInv, NEW se, NEW pg, NEW then \in {"nothing", "remove"}, PagesOK(se, pg),
           Reload(se, pg, {se}, ClearCurrent(se), TRUE, then)
    PROVE  FetchResult
<1>1. CacheOK(ClearCurrent(se)) /\ DOMAIN ClearCurrent(se) \cap {se} = {}
  BY ClearedCache DEF ClearCurrent, TableInv
<1> QED BY <1>1, ReloadKeepsInv DEF FetchResult

\* What a handler does besides its fetch.
LEMMA HandlerRest ==
    ASSUME TableInv, FetchResult, rows' \in 0 .. MaxRows, timer' \in BOOLEAN,
           orphans' \in 0 .. MaxOrphans, life' \in {"new", "mounted", "left"}
    PROVE  TableInv'
BY DEF TableInv, FetchResult, RestOK

\* Cancelling the request that is out, without another one.
LEMMA CancelResult ==
    ASSUME TableInv, req' = Abort(req, active), UNCHANGED <<active, changing>>
    PROVE  RequestsOK(req, active)' /\ GuardOK(req, changing)'
<1>1. /\ RequestsOK(Abort(req, active), NoSlot)
      /\ \A i \in Slots : Waits(Abort(req, active), i) <=> Waits(req, i)
  BY AbortRequests DEF TableInv, RequestsOK
<1>2. active # NoSlot => Abort(req, active)[active].phase # "free"
  <2>1. ASSUME active # NoSlot PROVE active \in Slots /\ req[active].phase # "free"
                                     /\ req[active] \in Request
    BY <2>1 DEF TableInv, RequestsOK, RequestsBefore
  <2> QED BY <2>1 DEF Abort, Request
<1>3. active \in Slots \cup {NoSlot} /\ active' = active /\ changing' = changing
  BY DEF TableInv, RequestsOK, RequestsBefore
<1>4. RequestsOK(req', active)
  BY <1>1, <1>2, <1>3, TableAssumption DEF RequestsOK, RequestsBefore, OldIsAborted
<1>5. GuardOK(req', changing)
  BY <1>1 DEF TableInv, GuardOK
<1> QED BY <1>3, <1>4, <1>5 DEF RequestsOK, RequestsBefore, OldIsAborted, GuardOK, Waits

LEMMA HandlersKeepInv == TableInv /\ Handlers => TableInv'
<1> SUFFICES ASSUME TableInv, Handlers PROVE TableInv'
  OBVIOUS
<1>0. RestOK /\ PagesOK(search, pagination) /\ CacheOK(cache)
  BY DEF TableInv
<1>1. CASE Mount
  <2>1. FetchResult
    BY <1>1, <1>0, GetDataResult DEF Mount
  <2> QED BY <2>1, <1>0, <1>1, HandlerRest DEF Mount, RestOK
<1>2. CASE Search
  <2>1. FetchResult
    BY <1>2, SearchResult DEF Search
  <2> QED BY <2>1, <1>0, <1>2, HandlerRest DEF Search, RestOK
<1>3. CASE SearchLater
  BY <1>3 DEF SearchLater, TableInv, RestOK, RowsOK, CacheOK, RequestsOK, RequestsBefore,
              OldIsAborted, GuardOK, Waits, PagesOK
<1>4. CASE TimerFires
  <2>1. FetchResult
    BY <1>4, SearchResult DEF TimerFires
  <2>2. timer' \in BOOLEAN /\ orphans' \in 0 .. MaxOrphans
    <3>1. timer' \in BOOLEAN
      BY <1>0, <1>4, Zenon DEF TimerFires, RestOK
    <3>2. orphans' = orphans \/ (orphans > 0 /\ orphans' = orphans - 1)
      BY <1>4, Zenon DEF TimerFires
    <3>3. orphans' \in 0 .. MaxOrphans
      BY <1>0, <3>2, TableAssumption DEF RestOK
    <3> QED BY <3>1, <3>3
  <2> QED BY <2>1, <2>2, <1>0, <1>4, HandlerRest DEF TimerFires, RestOK
<1>5. CASE Reset
  <2>1. PagesOK([f |-> NoFilter, p |-> 1, s |-> search.s],
                [pagination EXCEPT !.p = 1, !.s = search.s])
    BY <1>0, FirstIsPage, TableAssumption DEF PagesOK, Params
  <2>2. FetchResult
    BY <1>5, <2>1, WholeReload DEF Reset
  <2> QED BY <2>2, <1>0, <1>5, HandlerRest DEF Reset, CancelDebounce, RestOK
<1>6. ASSUME NEW f \in Filters, EditFilter(f) PROVE TableInv'
  BY <1>6 DEF EditFilter, TableInv, RestOK, RowsOK, CacheOK, RequestsOK, RequestsBefore,
              OldIsAborted, GuardOK, Waits, PagesOK, Params
<1>7. ASSUME NEW s \in Sizes, SizeChange(s) PROVE TableInv'
  <2>1. PagesOK([search EXCEPT !.p = 1, !.s = s], [pagination EXCEPT !.p = 1, !.s = s])
    BY <1>0, FirstIsPage DEF PagesOK, Params
  <2>2. FetchResult
    BY <1>7, <2>1, KeyReload DEF SizeChange
  <2> QED BY <2>2, <1>0, <1>7, HandlerRest DEF SizeChange, CancelDebounce, RestOK
<1>8. ASSUME NEW p \in Pages, PageChange(p) PROVE TableInv'
  <2>1. PagesOK([search EXCEPT !.p = p], [pagination EXCEPT !.p = p])
    BY <1>0 DEF PagesOK, Params
  <2>2. FetchResult
    BY <1>8, <2>1, GetDataResult DEF PageChange
  <2> QED BY <2>2, <1>0, <1>8, HandlerRest DEF PageChange, RestOK
<1>9. CASE RefreshCreate
  <2>1. FetchResult
    BY <1>0, <1>9, FirstPages, PaginationClearsAll, WholeReload DEF RefreshCreate
  <2> QED BY <2>1, <1>0, <1>9, HandlerRest DEF RefreshCreate, CancelDebounce, RestOK
<1>10. CASE RefreshUpdate
  <2>1. FetchResult
    BY <1>0, <1>10, KeyReload DEF RefreshUpdate
  <2> QED BY <2>1, <1>0, <1>10, HandlerRest DEF RefreshUpdate, RestOK
<1>11. CASE RefreshRemove
  <2>1. FetchResult
    BY <1>0, <1>11, KeyReload DEF RefreshRemove
  <2> QED BY <2>1, <1>0, <1>11, HandlerRest DEF RefreshRemove, RestOK
<1>12. CASE RefreshData
  <2>1. FetchResult
    BY <1>0, <1>12, WholeReload DEF RefreshData
  <2> QED BY <2>1, <1>0, <1>12, HandlerRest DEF RefreshData, CancelDebounce, RestOK
<1>13. CASE CancelRequest
  <2>1. RequestsOK(req, active)' /\ GuardOK(req, changing)'
    BY <1>13, CancelResult DEF CancelRequest
  <2> QED BY <2>1, <1>13 DEF CancelRequest, CancelDebounce, TableInv, RestOK, RowsOK, CacheOK,
                             PagesOK
<1>14. CASE ClearData
  BY <1>14, EmptyIsCache DEF ClearData, TableInv, RestOK, RowsOK, CacheOK, RequestsOK,
              RequestsBefore, OldIsAborted, GuardOK, Waits, PagesOK
<1>15. CASE Unmount
  <2>1. RequestsOK(req, active)' /\ GuardOK(req, changing)'
    BY <1>15, CancelResult DEF Unmount
  <2> QED BY <2>1, <1>15, EmptyIsCache DEF Unmount, CancelDebounce, TableInv, RestOK, RowsOK,
                             CacheOK, PagesOK
<1> QED BY <1>1, <1>2, <1>3, <1>4, <1>5, <1>6, <1>7, <1>8, <1>9, <1>10, <1>11, <1>12, <1>13,
           <1>14, <1>15 DEF Handlers

-----------------------------------------------------------------------------
(* The network *)

\* A request whose phase, and perhaps whose answer, changes where it stands.
LEMMA RequestMoves ==
    ASSUME TableInv, NEW i \in Slots, req[i].phase = "sent", NEW r \in Request,
           r.phase \in {"answered", "failed"}, r.then = req[i].then, r.key = req[i].key,
           r.aborted <=> req[i].aborted, r.ans \in Answers \/ (r.phase = "failed" /\ r.ans = req[i].ans),
           r.ans # NoData => KeyOf(r.ans) = r.key /\ (r.ans.old => r.aborted),
           req' = [req EXCEPT ![i] = r],
           UNCHANGED <<rows, search, pagination, shown, loading, cache, active, changing, timer,
                       orphans, life, sent>>
    PROVE  TableInv'
<1>1. RequestsBefore(req, active) /\ OldIsAborted(req)
  BY DEF TableInv, RequestsOK
<1>2. /\ req' \in [Slots -> Request] /\ req'[i] = r
      /\ \A j \in Slots : j # i => req'[j] = req[j]
  BY <1>1 DEF RequestsBefore
<1>3. RequestsBefore(req', active)
  <2>1. active # NoSlot => req'[active].phase # "free"
    BY <1>1, <1>2 DEF RequestsBefore
  <2>2. ASSUME NEW j \in Slots
        PROVE  /\ req'[j].phase # "free" /\ ~req'[j].aborted => j = active
               /\ req'[j].phase = "free" => req'[j] = FreeRequest
               /\ req'[j].phase = "answered" => req'[j].ans \in Answers
               /\ req'[j].ans # NoData => KeyOf(req'[j].ans) = req'[j].key
               /\ req'[j].ans # NoData /\ req'[j].ans.old => req'[j].aborted \/ j = active
    <3>1. CASE j = i
      BY <3>1, <1>1, <1>2 DEF RequestsBefore
    <3>2. CASE j # i
      BY <3>2, <1>1, <1>2 DEF RequestsBefore
    <3> QED BY <3>1, <3>2
  <2> QED BY <1>1, <1>2, <2>1, <2>2 DEF RequestsBefore
<1>4. OldIsAborted(req')
  BY <1>1, <1>2 DEF OldIsAborted
<1>5. \A j \in Slots : Waits(req', j) <=> Waits(req, j)
  BY <1>2 DEF Waits
<1>6. GuardOK(req', changing)
  BY <1>5 DEF TableInv, GuardOK
<1> QED BY <1>3, <1>4, <1>6 DEF TableInv, RestOK, RowsOK, CacheOK, RequestsOK, RequestsBefore,
                                OldIsAborted, GuardOK, Waits, PagesOK

LEMMA ServerKeepsInv ==
    ASSUME TableInv, NEW i \in Slots, ServerAnswers(i) \/ ServerFails(i)
    PROVE  TableInv'
<1>1. /\ req \in [Slots -> Request] /\ req[i] \in Request
      /\ req[i].ans # NoData => KeyOf(req[i].ans) = req[i].key /\ (req[i].ans.old => req[i].aborted)
  BY DEF TableInv, RequestsOK, RequestsBefore, OldIsAborted
<1>2. CASE ServerAnswers(i)
  <2> DEFINE k == req[i].key
             a == [f |-> k.f, p |-> k.p, s |-> k.s, total |-> rows, old |-> FALSE]
             r == [req[i] EXCEPT !.phase = "answered", !.ans = a]
  <2>1. k \in Params
    BY <1>1 DEF Request
  <2>2. a \in Answers /\ KeyOf(a) = k /\ ~a.old
    BY <2>1 DEF Params, Answers, KeyOf, TableInv, RestOK
  <2>3. req' = [req EXCEPT ![i] = r]
    BY <1>2, <1>1 DEF ServerAnswers
  <2>4. r \in Request /\ r.phase = "answered" /\ r.then = req[i].then /\ r.key = req[i].key
        /\ (r.aborted <=> req[i].aborted) /\ r.ans = a
    BY <1>1, <2>2 DEF Request, Phases
  <2>5. req[i].phase = "sent"
    BY <1>2 DEF ServerAnswers
  <2>6. UNCHANGED <<rows, search, pagination, shown, loading, cache, active, changing, timer,
                    orphans, life, sent>>
    BY <1>2 DEF ServerAnswers
  <2> HIDE DEF r, a, k
  <2>7. KeyOf(r.ans) = r.key /\ r.ans \in Answers /\ ~r.ans.old
    BY <2>2, <2>4 DEF k
  <2> QED BY <2>3, <2>4, <2>5, <2>6, <2>7, RequestMoves
<1>3. CASE ServerFails(i)
  <2> DEFINE r == [req[i] EXCEPT !.phase = "failed"]
  <2>1. req' = [req EXCEPT ![i] = r]
    BY <1>3, <1>1 DEF ServerFails
  <2>2. r \in Request /\ r.phase = "failed" /\ r.then = req[i].then /\ r.key = req[i].key
        /\ (r.aborted <=> req[i].aborted) /\ r.ans = req[i].ans
    BY <1>1 DEF Request, Phases
  <2>3. /\ req[i].phase = "sent"
        /\ UNCHANGED <<rows, search, pagination, shown, loading, cache, active, changing, timer,
                       orphans, life, sent>>
    BY <1>3 DEF ServerFails
  <2> HIDE DEF r
  <2> QED BY <1>1, <2>1, <2>2, <2>3, RequestMoves
<1> QED BY <1>2, <1>3

\* The states the outcome of a fetch leaves, before a follow-up.
LEMMA OutcomeOK ==
    ASSUME TableInv, NEW i \in Slots, req[i].phase \in {"answered", "failed"}
    PROVE  /\ RowsOK(RowsAfter(i))
           /\ PagesOK(Follow(search, PagesAfter(i)), PagesAfter(i))
           /\ \A c \in CachesAfter(i) : CacheOK(c)
           /\ LoadingAfter(i) \in {"idle", "loading", "success", "error"}
           /\ RequestsOK(ReqAfter(i), ActiveAfter(i))
           /\ \A j \in Slots : Waits(ReqAfter(i), j) <=> Waits(req, j) /\ j # i
<1>1. /\ RequestsBefore(req, active) /\ OldIsAborted(req) /\ PagesOK(search, pagination)
      /\ CacheOK(cache) /\ RowsOK(shown)
  BY DEF TableInv, RequestsOK
<1>2. req[i] \in Request
  BY <1>1 DEF RequestsBefore
<1>3. ASSUME Accepted(i)
      PROVE  /\ req[i].ans \in Answers /\ KeyOf(req[i].ans) = req[i].key /\ ~req[i].ans.old
             /\ req[i].ans # NoData
  BY <1>1, <1>3, NoDataAssumption DEF Accepted, RequestsBefore, OldIsAborted
<1>4. RowsOK(RowsAfter(i))
  <2>1. CASE Accepted(i)
    BY <2>1, <1>3 DEF RowsAfter, RowsOK
  <2>2. CASE ~Accepted(i) /\ Dropped(i)
    BY <2>2, <1>1 DEF RowsAfter
  <2>3. CASE ~Accepted(i) /\ ~Dropped(i)
    BY <2>3 DEF RowsAfter, RowsOK
  <2> QED BY <2>1, <2>2, <2>3
<1>5. PagesOK(Follow(search, PagesAfter(i)), PagesAfter(i))
  <2>1. CASE Accepted(i)
    BY <2>1, <1>1, <1>3, FollowAnswer DEF PagesAfter, PagesOK
  <2>2. CASE ~Accepted(i)
    BY <2>2, <1>1 DEF PagesAfter, PagesOK, Follow, Params
  <2> QED BY <2>1, <2>2
<1>6. ASSUME NEW c \in CachesAfter(i) PROVE CacheOK(c)
  <2>1. CASE Accepted(i) /\ req[i].useCache /\ CacheOn
    <3>1. c \in CacheSets(cache, req[i].key, req[i].ans)
      BY <2>1, <1>6 DEF CachesAfter
    <3>2. PICK g \in SUBSET DOMAIN cache :
             c = [x \in (DOMAIN cache \ g) \cup {req[i].key} |->
                     IF x = req[i].key THEN req[i].ans ELSE cache[x]]
      BY <3>1 DEF CacheSets
    <3>3. req[i].key \in Params
      BY <1>2 DEF Request
    <3> QED BY <3>2, <3>3, <1>1, <1>3, <2>1 DEF CacheOK
  <2>2. CASE ~(Accepted(i) /\ req[i].useCache /\ CacheOn)
    BY <2>2, <1>1, <1>6 DEF CachesAfter
  <2> QED BY <2>1, <2>2
<1>7. LoadingAfter(i) \in {"idle", "loading", "success", "error"}
  BY DEF LoadingAfter
<1>8. /\ ReqAfter(i) \in [Slots -> Request] /\ ReqAfter(i)[i] = FreeRequest
      /\ \A j \in Slots : j # i => ReqAfter(i)[j] = req[j]
  BY <1>1, FreeIsRequest DEF ReqAfter, RequestsBefore
<1>9. RequestsBefore(ReqAfter(i), ActiveAfter(i))
  <2>1. /\ ActiveAfter(i) \in Slots \cup {NoSlot}
        /\ \A j \in Slots : j # i => (j = active => j = ActiveAfter(i))
        /\ ActiveAfter(i) # NoSlot => ReqAfter(i)[ActiveAfter(i)].phase # "free"
    BY <1>1, <1>8 DEF RequestsBefore, ActiveAfter
  <2>2. ASSUME NEW j \in Slots
        PROVE  LET rq == ReqAfter(i) IN
               /\ rq[j].phase # "free" /\ ~rq[j].aborted => j = ActiveAfter(i)
               /\ rq[j].phase = "free" => rq[j] = FreeRequest
               /\ rq[j].phase = "answered" => rq[j].ans \in Answers
               /\ rq[j].ans # NoData => KeyOf(rq[j].ans) = rq[j].key
               /\ rq[j].ans # NoData /\ rq[j].ans.old => rq[j].aborted \/ j = ActiveAfter(i)
    <3>1. CASE j = i
      BY <3>1, <1>8, FreeIsRequest
    <3>2. CASE j # i
      BY <3>2, <1>1, <1>8, <2>1 DEF RequestsBefore
    <3> QED BY <3>1, <3>2
  <2> QED BY <1>8, <2>1, <2>2 DEF RequestsBefore
<1>10. OldIsAborted(ReqAfter(i))
  BY <1>1, <1>8, FreeIsRequest DEF OldIsAborted
<1>11. \A j \in Slots : Waits(ReqAfter(i), j) <=> Waits(req, j) /\ j # i
  BY <1>8, FreeIsRequest DEF Waits
<1> QED BY <1>4, <1>5, <1>6, <1>7, <1>9, <1>10, <1>11 DEF RequestsOK

LEMMA DeliverKeepsInv ==
    ASSUME TableInv, NEW i \in Slots, Deliver(i)
    PROVE  TableInv'
<1>1. req[i].phase \in {"answered", "failed"}
  BY DEF Deliver
<1>2. /\ shown' = RowsAfter(i) /\ pagination' = PagesAfter(i)
      /\ search' = Follow(search, PagesAfter(i)) /\ cache' \in CachesAfter(i)
      /\ loading' = LoadingAfter(i) /\ active' = ActiveAfter(i) /\ req' = ReqAfter(i)
      /\ changing' = (changing /\ req[i].then # "page")
      /\ rows' = rows /\ life' = life /\ sent' = sent
  BY DEF Deliver
<1>3. RowsOK(shown)' /\ PagesOK(search, pagination)'
  BY <1>1, <1>2, OutcomeOK DEF RowsOK, PagesOK
<1>4. CacheOK(cache)'
  <2>1. CacheOK(cache')
    BY <1>1, <1>2, OutcomeOK
  <2> QED BY <2>1 DEF CacheOK
<1>5. RequestsOK(req, active)'
  <2>1. RequestsOK(req', active')
    BY <1>1, <1>2, OutcomeOK
  <2> QED BY <2>1 DEF RequestsOK, RequestsBefore, OldIsAborted
<1>6. GuardOK(req, changing)'
  <2>1. \A j \in Slots : Waits(req', j) <=> Waits(req, j) /\ j # i
    BY <1>1, <1>2, OutcomeOK
  <2>2. GuardOK(req, changing)
    BY DEF TableInv
  <2>3. Waits(req, i) <=> req[i].then = "page"
    BY <1>1 DEF Waits
  <2>4. changing' \in BOOLEAN /\ (changing' <=> changing /\ ~Waits(req, i))
    BY <1>2, <2>2, <2>3 DEF GuardOK
  <2>5. (changing /\ ~Waits(req, i)) <=> \E j \in Slots : Waits(req', j)
    BY <2>1, <2>2 DEF GuardOK
  <2>6. \A j, l \in Slots : Waits(req', j) /\ Waits(req', l) => j = l
    BY <2>1, <2>2 DEF GuardOK
  <2>7. GuardOK(req', changing')
    BY <2>4, <2>5, <2>6 DEF GuardOK
  <2> QED BY <2>7 DEF GuardOK, Waits
<1>7. RestOK'
  <2>1. timer' \in BOOLEAN
    BY Zenon DEF Deliver, TableInv, RestOK
  <2>2. \/ orphans' = orphans
        \/ orphans < MaxOrphans /\ orphans' = orphans + 1
    BY Zenon DEF Deliver
  <2>3. orphans' \in 0 .. MaxOrphans
    BY <2>2, TableAssumption DEF TableInv, RestOK
  <2>4. loading' \in {"idle", "loading", "success", "error"}
    BY <1>1, <1>2, OutcomeOK
  <2> QED BY <1>2, <2>1, <2>3, <2>4 DEF TableInv, RestOK
<1> QED BY <1>3, <1>4, <1>5, <1>6, <1>7 DEF TableInv

LEMMA GoesBackKeepsInv ==
    ASSUME TableInv, NEW i \in Slots, DeliverGoesBack(i)
    PROVE  TableInv'
<1>1. req[i].phase \in {"answered", "failed"} /\ GoesBack(i)
  BY DEF DeliverGoesBack
<1> DEFINE se == [search EXCEPT !.p = req[i].from - 1, !.s = PagesAfter(i).s]
           pg == [PagesAfter(i) EXCEPT !.p = req[i].from - 1]
<1>2. PICK c \in CachesAfter(i) :
         Fetch(se, pg, c, TRUE, ReqAfter(i), ActiveAfter(i), RowsAfter(i), "nothing", 1)
  BY DEF DeliverGoesBack
<1>3. /\ RowsOK(RowsAfter(i)) /\ CacheOK(c) /\ RequestsOK(ReqAfter(i), ActiveAfter(i))
      /\ PagesOK(Follow(search, PagesAfter(i)), PagesAfter(i))
      /\ \A j \in Slots : Waits(ReqAfter(i), j) <=> Waits(req, j) /\ j # i
  BY <1>1, OutcomeOK
<1>4. req[i].from - 1 \in Pages
  <2>1. req[i].from \in Pages /\ req[i].from > 1
    BY <1>1 DEF TableInv, RequestsOK, RequestsBefore, Request, GoesBack
  <2> QED BY <2>1, TableAssumption DEF Pages
<1>5. PagesOK(se, pg)
  <2>1. search \in Params /\ PagesAfter(i) \in [p : Pages, s : Sizes, total : 0 .. MaxRows]
    BY <1>3 DEF PagesOK, TableInv
  <2> QED BY <2>1, <1>4 DEF PagesOK, Params
<1>6. GuardOK(ReqAfter(i), changing)
  <2>1. GuardOK(req, changing) /\ ~Waits(req, i)
    BY <1>1 DEF TableInv, GoesBack, Waits
  <2> QED BY <2>1, <1>3 DEF GuardOK
<1>7. sent \in 0 .. MaxRequests /\ "nothing" \in Then
  BY DEF TableInv, RestOK, Then
<1> HIDE DEF se, pg
<1>8. FetchResult
  BY <1>2, <1>3, <1>5, <1>6, <1>7, FirstIsPage, FetchKeepsInv DEF RequestsOK, FetchResult
<1>9. UNCHANGED <<rows, timer, orphans, life>>
  BY DEF DeliverGoesBack
<1> QED BY <1>8, <1>9, HandlerRest DEF TableInv, RestOK

LEMMA StutterKeepsInv == TableInv /\ UNCHANGED vars => TableInv'
<1> SUFFICES ASSUME TableInv, UNCHANGED vars PROVE TableInv'
  OBVIOUS
<1>1. RestOK' /\ RowsOK(shown)' /\ CacheOK(cache)'
  BY DEF TableInv, RestOK, RowsOK, CacheOK, vars
<1>2. RequestsOK(req, active)'
  BY DEF TableInv, RequestsOK, RequestsBefore, OldIsAborted, vars
<1>3. GuardOK(req, changing)' /\ PagesOK(search, pagination)'
  BY DEF TableInv, GuardOK, Waits, PagesOK, vars
<1> QED BY <1>1, <1>2, <1>3 DEF TableInv

LEMMA OthersKeepInv ==
    ASSUME TableInv,
           \/ \E k \in Params : Expire(k)
           \/ \E n \in 0 .. MaxRows : n # rows /\ ServerChanges(n)
    PROVE  TableInv'
<1>1. ASSUME NEW k \in Params, Expire(k) PROVE TableInv'
  <2>1. /\ cache' = WithoutKeys(cache, {k})
        /\ UNCHANGED <<rows, search, pagination, shown, loading, req, active, changing, timer,
                       orphans, life, sent>>
    BY <1>1 DEF Expire
  <2>2. CacheOK(cache')
    BY <2>1, ClearedCache DEF TableInv
  <2>3. RestOK' /\ RowsOK(shown)' /\ CacheOK(cache)'
    BY <2>1, <2>2 DEF TableInv, RestOK, RowsOK, CacheOK
  <2>4. RequestsOK(req, active)'
    BY <2>1 DEF TableInv, RequestsOK, RequestsBefore, OldIsAborted
  <2>5. GuardOK(req, changing)' /\ PagesOK(search, pagination)'
    BY <2>1 DEF TableInv, GuardOK, Waits, PagesOK
  <2> QED BY <2>3, <2>4, <2>5 DEF TableInv
<1>2. ASSUME NEW n \in 0 .. MaxRows, ServerChanges(n) PROVE TableInv'
  <2>1. /\ rows' = n
        /\ UNCHANGED <<search, pagination, shown, loading, cache, req, active, changing, timer,
                       orphans, life, sent>>
    BY <1>2 DEF ServerChanges
  <2>2. RestOK' /\ RowsOK(shown)' /\ CacheOK(cache)'
    BY <2>1 DEF TableInv, RestOK, RowsOK, CacheOK
  <2>3. RequestsOK(req, active)'
    BY <2>1 DEF TableInv, RequestsOK, RequestsBefore, OldIsAborted
  <2>4. GuardOK(req, changing)' /\ PagesOK(search, pagination)'
    BY <2>1 DEF TableInv, GuardOK, Waits, PagesOK
  <2> QED BY <2>2, <2>3, <2>4 DEF TableInv
<1> QED BY <1>1, <1>2

LEMMA InitInv == Init => TableInv
<1> SUFFICES ASSUME Init PROVE TableInv
  OBVIOUS
<1>1. RestOK
  <2>1. /\ rows \in 0 .. MaxRows /\ loading = "idle" /\ timer = FALSE /\ orphans = 0
        /\ life = "new" /\ sent = 0
    BY DEF Init
  <2>2. 0 \in 0 .. MaxOrphans /\ 0 \in 0 .. MaxRequests
    BY TableAssumption
  <2> QED BY <2>1, <2>2 DEF RestOK
<1>6. RowsOK(shown)
  BY DEF Init, RowsOK
<1>7. CacheOK(cache)
  BY EmptyIsCache DEF Init
<1>2. req \in [Slots -> Request] /\ \A i \in Slots : req[i] = FreeRequest
  BY FreeIsRequest DEF Init
<1>3. RequestsOK(req, active)
  BY <1>2, FreeIsRequest DEF Init, RequestsOK, RequestsBefore, OldIsAborted
<1>4. GuardOK(req, changing)
  BY <1>2, FreeIsRequest DEF Init, GuardOK, Waits
<1>5. PagesOK(search, pagination)
  BY TableAssumption, FirstIsPage DEF Init, PagesOK, Params
<1> QED BY <1>1, <1>6, <1>7, <1>3, <1>4, <1>5 DEF TableInv

LEMMA NextKeepsInv == TableInv /\ [Next]_vars => TableInv'
<1> SUFFICES ASSUME TableInv, [Next]_vars PROVE TableInv'
  OBVIOUS
<1>1. CASE Handlers
  BY <1>1, HandlersKeepInv
<1>2. ASSUME NEW i \in Slots,
             ServerAnswers(i) \/ ServerFails(i) \/ Deliver(i) \/ DeliverGoesBack(i)
      PROVE  TableInv'
  BY <1>2, ServerKeepsInv, DeliverKeepsInv, GoesBackKeepsInv
<1>3. CASE \/ \E k \in Params : Expire(k)
           \/ \E n \in 0 .. MaxRows : n # rows /\ ServerChanges(n)
  BY <1>3, OthersKeepInv
<1>4. CASE UNCHANGED vars
  BY <1>4, StutterKeepsInv
<1> QED BY <1>1, <1>2, <1>3, <1>4 DEF Next, Network

\* The invariant behind the theorems below: it holds for whatever is answered, fails, is
\* cancelled or cleared, in any order.
THEOREM TableInvariant == Spec => []TableInv
BY InitInv, NextKeepsInv, PTL DEF Spec

-----------------------------------------------------------------------------
(* The theorems *)

\* Every variable of the table keeps its type (useTable.ts).
THEOREM TableTypes == Spec => []TypeOK
<1>1. TableInv => TypeOK
  BY DEF TableInv, TypeOK, RestOK, RowsOK, CacheOK, RequestsOK, RequestsBefore, GuardOK, PagesOK
<1> QED BY <1>1, TableInvariant, PTL

\* An older answer is never taken for the newest one (fetchData), with any number of
\* requests out.
THEOREM NewestOnly == Spec => []OnlyNewestIsLive
<1>1. TableInv => OnlyNewestIsLive
  BY DEF TableInv, OnlyNewestIsLive, RequestsOK, RequestsBefore, Out
<1> QED BY <1>1, TableInvariant, PTL

\* Under a key the cache holds an answer to that key (TableCache.set after the await).
THEOREM CacheKeys == Spec => []CacheAnswersItsKey
<1>1. TableInv => CacheAnswersItsKey
  BY DEF TableInv, CacheAnswersItsKey, CacheOK
<1> QED BY <1>1, TableInvariant, PTL

\* After a reload nothing older comes back under the keys it cleared.
THEOREM FreshReload == Spec => []ReloadIsFresh
<1>1. TableInv => ReloadIsFresh
  BY DEF TableInv, ReloadIsFresh, CacheOK, RowsOK
<1> QED BY <1>1, TableInvariant, PTL

\* isCurrentChanging belongs to one request that is out.
THEOREM PageGuard == Spec => []PageGuardIsHeld
<1>1. TableInv => PageGuardIsHeld
  BY DEF TableInv, PageGuardIsHeld, GuardOK, Waits, Out
<1> QED BY <1>1, TableInvariant, PTL

\* The page the pager shows is the page that is searched for.
THEOREM OnePage == Spec => []PagesAgree
<1>1. TableInv => PagesAgree
  BY DEF TableInv, PagesAgree, PagesOK
<1> QED BY <1>1, TableInvariant, PTL
=============================================================================

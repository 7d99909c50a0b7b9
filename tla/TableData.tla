----------------------------- MODULE TableData ------------------------------
(***************************************************************************)
(* The table of a Vue page (hooks/core/useTable.ts) with its cache         *)
(* (utils/table/tableCache.ts) and its debounced search                    *)
(* (utils/table/tableUtils.ts).                                            *)
(*                                                                         *)
(* A handler runs up to `await apiFn(...)` in one step; the server answers *)
(* the request in a later one, and the answer reaches the page in a third. *)
(* The AbortController only marks a request: the request itself goes on,   *)
(* so its answer, or its failure, still comes back.                        *)
(***************************************************************************)
EXTENDS Integers, FiniteSets

CONSTANTS
    Filters,        \* values of the search form
    NoFilter,       \* the form when it is empty (apiParams)
    Sizes,          \* page sizes
    InitSize,       \* size of a page at first
    MaxRows,        \* bound: rows the server holds
    Slots,          \* bound: requests out at the same time
    MaxRequests,    \* bound: requests the page sends in all
    MaxOrphans,     \* bound: timers of the debounce nobody refers to
    CacheOn,        \* performance.enableCache
    MaxCacheSize,   \* performance.maxCacheSize
    NoSlot, NoData

ASSUME TableAssumption ==
    /\ NoFilter \in Filters
    /\ Sizes \subseteq Nat \ {0} /\ InitSize \in Sizes
    /\ MaxRows \in Nat \ {0} /\ MaxOrphans \in Nat /\ MaxRequests \in Nat
    /\ IsFiniteSet(Slots) /\ NoSlot \notin Slots
    /\ CacheOn \in BOOLEAN /\ MaxCacheSize \in Nat \ {0}

VARIABLES
    rows,       \* rows the server holds
    search,     \* searchParams: [f, p, s]
    pagination, \* [p, s, total]
    shown,      \* data: the answer the page shows, or NoData
    loading,    \* loadingState
    cache,      \* TableCache.cache: from a key to the answer it holds
    req,        \* the requests, one per slot
    active,     \* abortController: the slot of the request it belongs to
    changing,   \* isCurrentChanging
    timer,      \* timeoutId refers to a timer that has not fired
    orphans,    \* timers that have not fired and that timeoutId does not refer to
    life,       \* new, mounted, left
    sent        \* requests sent so far

vars == <<rows, search, pagination, shown, loading, cache, req, active, changing, timer,
          orphans, life, sent>>

-----------------------------------------------------------------------------
(* Data *)

Pages == 1 .. MaxRows
Params == [f : Filters, p : Pages, s : Sizes]

\* A page of the server's list and the total of that list. History: the answer is old once
\* the page clears its key in order to load it anew.
Answers == [f : Filters, p : Pages, s : Sizes, total : 0 .. MaxRows, old : BOOLEAN]

ASSUME NoDataAssumption == NoData \notin Answers

\* The key of the request an answer answers.
KeyOf(a) == [f |-> a.f, p |-> a.p, s |-> a.s]

\* The last page of a list, and a page number brought back into it.
LastPage(total, s) == IF total = 0 THEN 1 ELSE (total + s - 1) \div s
Clamp(p, total, s) == IF p > LastPage(total, s) THEN LastPage(total, s) ELSE p

\* An answer holds rows iff its page begins within the list.
IsEmpty(a) == (a.p - 1) * a.s >= a.total
NoRows(sh) == IF sh = NoData THEN TRUE ELSE IsEmpty(sh)

\* What a handler does once its getData is over.
Then == {"nothing", "page", "remove", "debounced"}

Phases == {"free", "sent", "answered", "failed"}

Request == [phase : Phases, key : Params, useCache : BOOLEAN, aborted : BOOLEAN,
            then : Then, from : Pages, ans : Answers \cup {NoData}]

FreeRequest == [phase |-> "free", key |-> [f |-> NoFilter, p |-> 1, s |-> InitSize],
                useCache |-> FALSE, aborted |-> FALSE, then |-> "nothing", from |-> 1,
                ans |-> NoData]

TypeOK ==
    /\ rows \in 0 .. MaxRows
    /\ search \in Params
    /\ pagination \in [p : Pages, s : Sizes, total : 0 .. MaxRows]
    /\ shown \in Answers \cup {NoData}
    /\ loading \in {"idle", "loading", "success", "error"}
    /\ DOMAIN cache \subseteq Params
    /\ \A k \in DOMAIN cache : cache[k] \in Answers
    /\ req \in [Slots -> Request]
    /\ active \in Slots \cup {NoSlot}
    /\ changing \in BOOLEAN
    /\ timer \in BOOLEAN
    /\ orphans \in 0 .. MaxOrphans
    /\ life \in {"new", "mounted", "left"}
    /\ sent \in 0 .. MaxRequests

Out(i) == req[i].phase # "free"

-----------------------------------------------------------------------------
(* TableCache *)

EmptyCache == [k \in {} |-> NoData]

WithoutKeys(c, ks) == [k \in DOMAIN c \ ks |-> c[k]]

\* TableCache.set: when the cache holds more than maxSize entries one leaves (the least
\* used: which one it is depends on the use and is left open), then the entry is written.
CacheSets(c, k, a) ==
    LET gone == IF Cardinality(DOMAIN c) <= MaxCacheSize THEN {{}} ELSE {{x} : x \in DOMAIN c}
    IN  {[x \in (DOMAIN c \ g) \cup {k} |-> IF x = k THEN a ELSE c[x]] : g \in gone}

\* clearCurrentSearch: the entry of the search parameters se.
ClearCurrent(se) == WithoutKeys(cache, {se})

\* clearPagination: every entry carries the tag "pagination".
ClearPagination(c) == WithoutKeys(c, DOMAIN c)


-----------------------------------------------------------------------------
(* fetchData *)

\* Mutant: the previous request stays alive.
AbortNothing(rq, act) == rq

\* The previous request is marked as cancelled.
Abort(rq, act) == [i \in Slots |-> IF i = act THEN [rq[i] EXCEPT !.aborted = TRUE] ELSE rq[i]]

\* updatePaginationFromResponse, then the page and size of searchParams follow.
PaginationOf(a) == [p |-> Clamp(a.p, a.total, a.s), s |-> a.s, total |-> a.total]
Follow(se, pg) == [se EXCEPT !.p = pg.p, !.s = pg.s]

\* A hit in the cache is shown at once and nothing is requested.
FetchHit(k, c, rq, act, se) ==
    /\ shown' = c[k]
    /\ pagination' = PaginationOf(c[k])
    /\ search' = Follow(se, PaginationOf(c[k]))
    /\ loading' = "success"
    /\ req' = Abort(rq, act)
    /\ active' = NoSlot
    /\ UNCHANGED <<changing, sent>>

\* A request goes out.
FetchSend(i, k, useCache, rq, act, se, pg, sh, then, from) ==
    /\ rq[i].phase = "free" /\ sent < MaxRequests
    /\ sent' = sent + 1
    /\ req' = [Abort(rq, act) EXCEPT ![i] =
                  [FreeRequest EXCEPT !.phase = "sent", !.key = k, !.useCache = useCache,
                                      !.then = then, !.from = from]]
    /\ active' = i
    /\ loading' = "loading"
    /\ search' = se
    /\ pagination' = pg
    /\ shown' = sh
    /\ changing' = (changing \/ then = "page")

\* fetchData, from the search parameters se, the pagination pg, the cache c, the requests
\* rq and the rows sh that the handler left.
Fetch(se, pg, c, useCache, rq, act, sh, then, from) ==
    LET k == [f |-> se.f, p |-> pg.p, s |-> pg.s] IN
    /\ cache' = c
    /\ \/ /\ useCache /\ CacheOn /\ k \in DOMAIN c
          /\ FetchHit(k, c, rq, act, se)
       \/ /\ ~ (useCache /\ CacheOn /\ k \in DOMAIN c)
          /\ \E i \in Slots : FetchSend(i, k, useCache, rq, act, se, pg, sh, then, from)

\* getData by a handler that left the rows and the requests alone.
GetData(se, pg, then) == Fetch(se, pg, cache, TRUE, req, active, shown, then, pg.p)

\* History: what was answered for the keys ks is old from here on.
Aged(a, ks) == IF a = NoData THEN a ELSE [a EXCEPT !.old = a.old \/ KeyOf(a) \in ks]

\* getData after the keys ks were cleared, which left the cache c.
Reload(se, pg, ks, c, useCache, then) ==
    Fetch(se, pg, [k \in DOMAIN c |-> Aged(c[k], ks)], useCache,
          [i \in Slots |-> [req[i] EXCEPT !.ans = Aged(@, ks)]], active, shown, then, pg.p)

-----------------------------------------------------------------------------
(* The handlers of the page *)

FirstPage(se) == [se EXCEPT !.p = 1]

\* The debounce forgets the timer it refers to.
CancelDebounce == timer' = FALSE /\ UNCHANGED orphans

\* The page is mounted and loads at once.
Mount ==
    /\ life = "new" /\ life' = "mounted"
    /\ UNCHANGED <<rows, timer, orphans>>
    /\ GetData(search, pagination, "nothing")

\* The user fills in the search form.
EditFilter(f) ==
    /\ life = "mounted" /\ search' = [search EXCEPT !.f = f]
    /\ UNCHANGED <<rows, pagination, shown, loading, cache, req, active, changing, timer,
                   orphans, life, sent>>

\* getDataByPage: the first page, past the cache.
SearchNow(then) ==
    LET se == FirstPage(search)
    IN  Reload(se, FirstPage(pagination), {se}, ClearCurrent(se), FALSE, then)

Search ==
    /\ life = "mounted" /\ SearchNow("nothing")
    /\ UNCHANGED <<rows, timer, orphans, life>>

\* getDataDebounced: the timer it refers to is replaced.
SearchLater ==
    /\ life = "mounted" /\ timer' = TRUE
    /\ UNCHANGED <<rows, search, pagination, shown, loading, cache, req, active, changing,
                   orphans, life, sent>>

\* A timer of the debounce fires.
TimerFires ==
    /\ \/ timer /\ timer' = FALSE /\ UNCHANGED orphans
       \/ orphans > 0 /\ orphans' = orphans - 1 /\ UNCHANGED timer
    /\ SearchNow("debounced")
    /\ UNCHANGED <<rows, life>>

\* resetSearchParams
Reset ==
    /\ life = "mounted" /\ CancelDebounce
    /\ Reload([f |-> NoFilter, p |-> 1, s |-> search.s],
              [pagination EXCEPT !.p = 1, !.s = search.s], Params, EmptyCache, TRUE, "nothing")
    /\ UNCHANGED <<rows, life>>

\* handleSizeChange
SizeChange(s) ==
    /\ life = "mounted" /\ CancelDebounce
    /\ LET se == [search EXCEPT !.p = 1, !.s = s] IN
       Reload(se, [pagination EXCEPT !.p = 1, !.s = s], {se}, ClearCurrent(se), TRUE, "nothing")
    /\ UNCHANGED <<rows, life>>

\* Mutant: the guard is not looked at.
PageChangeUnguarded(p) ==
    /\ life = "mounted" /\ pagination.p # p
    /\ UNCHANGED <<rows, timer, orphans, life>>
    /\ GetData([search EXCEPT !.p = p], [pagination EXCEPT !.p = p], "page")

\* handleCurrentChange: ignored while another one waits, and when the page stays.
PageChange(p) ==
    /\ life = "mounted" /\ ~changing /\ pagination.p # p
    /\ UNCHANGED <<rows, timer, orphans, life>>
    /\ GetData([search EXCEPT !.p = p], [pagination EXCEPT !.p = p], "page")

\* refreshCreate
RefreshCreate ==
    /\ life = "mounted" /\ CancelDebounce
    /\ Reload(FirstPage(search), FirstPage(pagination), Params, ClearPagination(cache), TRUE,
              "nothing")
    /\ UNCHANGED <<rows, life>>

\* refreshUpdate and refreshSoft: the entry of the current page only.
RefreshUpdate ==
    /\ life = "mounted"
    /\ Reload(search, pagination, {search}, ClearCurrent(search), TRUE, "nothing")
    /\ UNCHANGED <<rows, timer, orphans, life>>

\* refreshRemove: when the page is empty afterwards, the page before it.
RefreshRemove ==
    /\ life = "mounted"
    /\ Reload(search, pagination, {search}, ClearCurrent(search), TRUE, "remove")
    /\ UNCHANGED <<rows, timer, orphans, life>>

\* refreshData
RefreshData ==
    /\ life = "mounted" /\ CancelDebounce
    /\ Reload(search, pagination, Params, EmptyCache, TRUE, "nothing")
    /\ UNCHANGED <<rows, life>>

\* cancelRequest
CancelRequest ==
    /\ life = "mounted" /\ CancelDebounce
    /\ req' = Abort(req, active)
    /\ UNCHANGED <<rows, search, pagination, shown, loading, cache, active, changing,
                   life, sent>>

\* clearData: the rows and the cache; a request that is out is not cancelled.
ClearData ==
    /\ life = "mounted" /\ shown' = NoData /\ cache' = EmptyCache
    /\ UNCHANGED <<rows, search, pagination, loading, req, active, changing, timer, orphans,
                   life, sent>>

\* An entry grows too old: `get` does not serve it, the sweep drops it.
Expire(k) ==
    /\ k \in DOMAIN cache /\ cache' = WithoutKeys(cache, {k})
    /\ UNCHANGED <<rows, search, pagination, shown, loading, req, active, changing, timer,
                   orphans, life, sent>>

\* The page is left.
Unmount ==
    /\ life = "mounted" /\ life' = "left"
    /\ CancelDebounce
    /\ req' = Abort(req, active)
    /\ cache' = EmptyCache
    /\ UNCHANGED <<rows, search, pagination, shown, loading, active, changing, sent>>

-----------------------------------------------------------------------------
(* The server *)

\* Somebody changes the table.
ServerChanges(n) ==
    /\ rows' = n
    /\ UNCHANGED <<search, pagination, shown, loading, cache, req, active, changing, timer,
                   orphans, life, sent>>

ServerAnswers(i) ==
    /\ req[i].phase = "sent"
    /\ LET k == req[i].key IN
       req' = [req EXCEPT ![i].phase = "answered",
                          ![i].ans = [f |-> k.f, p |-> k.p, s |-> k.s,
                                      total |-> rows, old |-> FALSE]]
    /\ UNCHANGED <<rows, search, pagination, shown, loading, cache, active, changing, timer,
                   orphans, life, sent>>

\* The request fails, or the server refuses it.
ServerFails(i) ==
    /\ req[i].phase = "sent"
    /\ req' = [req EXCEPT ![i].phase = "failed"]
    /\ UNCHANGED <<rows, search, pagination, shown, loading, cache, active, changing, timer,
                   orphans, life, sent>>

-----------------------------------------------------------------------------
(* The answer of request i reaches the page *)

\* Marked as cancelled: fetchData gives up after the answer came (mutant: it goes on).
Dropped(i) == req[i].phase = "answered" /\ req[i].aborted
AcceptedUnchecked(i) == req[i].phase = "answered"
Accepted(i) == req[i].phase = "answered" /\ ~req[i].aborted

\* The rows, the pagination and the caches the fetch leaves. A failure empties the rows,
\* whether the request had been cancelled or not. Mutant: the key is made after the await.
RowsAfter(i) == IF Accepted(i) THEN req[i].ans ELSE IF Dropped(i) THEN shown ELSE NoData
PagesAfter(i) == IF Accepted(i) THEN PaginationOf(req[i].ans) ELSE pagination
CachesAfterUnderForm(i) == IF Accepted(i) /\ req[i].useCache /\ CacheOn
                           THEN CacheSets(cache, search, req[i].ans)
                           ELSE {cache}
CachesAfter(i) == IF Accepted(i) /\ req[i].useCache /\ CacheOn
                  THEN CacheSets(cache, req[i].key, req[i].ans)
                  ELSE {cache}
LoadingAfter(i) ==
    CASE Accepted(i) -> "success"
      [] Dropped(i)  -> "idle"
      [] OTHER       -> "error"

ActiveAfter(i) == IF active = i THEN NoSlot ELSE active
ReqAfter(i) == [req EXCEPT ![i] = FreeRequest]

\* refreshRemove goes on to the page before.
GoesBack(i) ==
    /\ req[i].then = "remove" /\ req[i].from > 1
    /\ NoRows(RowsAfter(i))

Deliver(i) ==
    /\ req[i].phase \in {"answered", "failed"}
    /\ ~GoesBack(i)
    /\ shown' = RowsAfter(i)
    /\ pagination' = PagesAfter(i)
    /\ search' = Follow(search, PagesAfter(i))
    /\ cache' \in CachesAfter(i)
    /\ loading' = LoadingAfter(i)
    /\ active' = ActiveAfter(i)
    /\ req' = ReqAfter(i)
    /\ changing' = (changing /\ req[i].then # "page")
    \* the debounce forgets its timer, which may be a newer one
    /\ IF req[i].then = "debounced" /\ timer
       THEN orphans < MaxOrphans /\ orphans' = orphans + 1 /\ timer' = FALSE
       ELSE UNCHANGED <<timer, orphans>>
    /\ UNCHANGED <<rows, life, sent>>

DeliverGoesBack(i) ==
    /\ req[i].phase \in {"answered", "failed"}
    /\ GoesBack(i)
    /\ UNCHANGED <<rows, timer, orphans, life>>
    /\ \E c \in CachesAfter(i) :
          Fetch([search EXCEPT !.p = req[i].from - 1, !.s = PagesAfter(i).s],
                [PagesAfter(i) EXCEPT !.p = req[i].from - 1],
                c, TRUE, ReqAfter(i), ActiveAfter(i), RowsAfter(i), "nothing", 1)

-----------------------------------------------------------------------------

Init ==
    /\ rows \in 0 .. MaxRows
    /\ search = [f |-> NoFilter, p |-> 1, s |-> InitSize]
    /\ pagination = [p |-> 1, s |-> InitSize, total |-> 0]
    /\ shown = NoData /\ loading = "idle"
    /\ cache = EmptyCache
    /\ req = [i \in Slots |-> FreeRequest] /\ active = NoSlot
    /\ changing = FALSE
    /\ timer = FALSE /\ orphans = 0
    /\ life = "new" /\ sent = 0

Handlers ==
    \/ Mount \/ Search \/ SearchLater \/ TimerFires \/ Reset
    \/ \E f \in Filters : EditFilter(f)
    \/ \E s \in Sizes : SizeChange(s)
    \/ \E p \in Pages : p <= LastPage(pagination.total, pagination.s) /\ PageChange(p)
    \/ RefreshCreate \/ RefreshUpdate \/ RefreshRemove \/ RefreshData
    \/ CancelRequest \/ ClearData \/ Unmount

Network ==
    \E i \in Slots : ServerAnswers(i) \/ ServerFails(i) \/ Deliver(i) \/ DeliverGoesBack(i)

Next ==
    \/ Handlers
    \/ \E k \in Params : Expire(k)
    \/ \E n \in 0 .. MaxRows : n # rows /\ ServerChanges(n)
    \/ Network

Spec == Init /\ [][Next]_vars

-----------------------------------------------------------------------------
(* Properties *)

\* Of the requests that are out, only the one the AbortController belongs to is not
\* cancelled: an older answer can never be taken for the newest one (fetchData).
OnlyNewestIsLive == \A i \in Slots : Out(i) /\ ~req[i].aborted => i = active

\* The cache holds under a key an answer to that very key, although filter, page and size
\* may have changed while the answer was on its way (fetchData, TableCache.set).
CacheAnswersItsKey == \A k \in DOMAIN cache : KeyOf(cache[k]) = k

\* Once a reload cleared a key, nothing the server had answered before comes back into the
\* cache or onto the page under that key, in whatever order the answers arrive.
ReloadIsFresh ==
    /\ \A k \in DOMAIN cache : ~cache[k].old
    /\ shown # NoData => ~shown.old

\* The guard of the page change is held by a request that is out, so that it always opens
\* again, and by one only (isCurrentChanging).
PageGuardIsHeld ==
    /\ changing <=> \E i \in Slots : Out(i) /\ req[i].then = "page"
    /\ \A i, j \in Slots : Out(i) /\ req[i].then = "page" /\ Out(j) /\ req[j].then = "page" => i = j

\* The page number shown in the pagination and the one of the search parameters, which
\* clearCurrentSearch makes its key of, are the same, whatever comes back in between.
PagesAgree == search.p = pagination.p /\ search.s = pagination.s

-----------------------------------------------------------------------------
(* What the code does not keep *)

\* A cancelled request leaves the rows alone.
CancelledIsSilent ==
    [][\A i \in Slots : Out(i) /\ req[i].aborted /\ req'[i] = FreeRequest => shown' = shown]_vars

\* A page that stands still on a page of its list shows the rows of that page.
ShowsItsPage ==
    loading = "success" /\ shown # NoData /\ (\A i \in Slots : ~Out(i))
       => (IsEmpty(shown) => pagination.total = 0)
=============================================================================

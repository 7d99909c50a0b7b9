----------------------------- MODULE WorkTabs -----------------------------
(***************************************************************************)
(* The tab bar of the Vue front end (static/src): the tab store            *)
(* (store/modules/worktab.ts), the bar and its context menu                *)
(* (art-work-tab/index.vue), the guard that opens a tab for a navigation   *)
(* (utils/navigation/worktab.ts, router/guards/beforeEach.ts), the page    *)
(* cache (KeepAlive in art-page-content/index.vue) and the router, of      *)
(* which only what they use is modelled.                                   *)
(*                                                                         *)
(* The first guard of a start registers the routes of the menu, or fails,  *)
(* and with it every later one until the page is loaded again.  After that *)
(* a navigation passes its guard first, which asks the server for the user's *)
(* information; navigations that start while a question is out share its   *)
(* answer.  Then the page's code is loaded, then the page is shown.  A     *)
(* newer navigation replaces an older one, whose guard still runs to its   *)
(* end and opens its tab.                                                  *)
(***************************************************************************)
EXTENDS Naturals, Sequences, SequencesExt, FiniteSets

CONSTANTS
    Pages,          \* paths a user can visit, as model values
    NameOf,         \* the route name of a path
    CompOf,         \* the name of the component the route shows
    KeptAlive,      \* paths whose route says keepAlive
    PinnedPages,    \* paths whose route says fixedTab
    HiddenPages,    \* paths whose route says isHideTab
    Setup,          \* /characters: its guard asks nobody
    Error,          \* Exception500, the page outside the layout (so is the 404 page)
    Home,           \* the first page of the menu
    NoPage,
    MaxWaiting      \* bound: navigations that wait for one answer

Names == {NameOf[p] : p \in Pages} \cup {CompOf[p] : p \in Pages}

ASSUME PagesAssumption ==
    /\ {Setup, Error, Home} \subseteq Pages /\ NoPage \notin Pages
    /\ Setup # Error /\ Error \in HiddenPages \ KeptAlive /\ Home # Error
    /\ Setup \notin HiddenPages /\ Home \notin HiddenPages
    /\ DOMAIN NameOf = Pages /\ DOMAIN CompOf = Pages
    /\ KeptAlive \subseteq Pages /\ PinnedPages \subseteq Pages /\ HiddenPages \subseteq Pages
    /\ \A p, q \in Pages : NameOf[p] = NameOf[q] => /\ CompOf[p] = CompOf[q]
                                                    /\ p \in KeptAlive <=> q \in KeptAlive
                                                    /\ p \in HiddenPages <=> q \in HiddenPages
    /\ MaxWaiting \in Nat \ {0}

VARIABLES
    routes,    \* of the menu: "none" while the application starts, "registered", "failed"
    tabs,      \* [opened: sequence of tabs, current, excluded: names KeepAlive must drop]
    nav,       \* [pending: where the router is going, loading: its guard has passed,
               \*  waiting: paths whose guards wait for the answer,
               \*  again: flips when the error page's own question fails]
    shown,     \* the page on the screen, NoPage while the application starts
    cached,    \* paths whose pages KeepAlive holds
    clicked    \* the tab the context menu was opened on

vars == <<routes, tabs, nav, shown, cached, clicked>>

Tab == [path : Pages, fixed : BOOLEAN]
NoTab == [path |-> NoPage, fixed |-> FALSE]

TypeOK ==
    /\ routes \in {"none", "registered", "failed"}
    /\ tabs.opened \in Seq(Tab) /\ tabs.current \in Tab \cup {NoTab} /\ tabs.excluded \subseteq Names
    /\ nav.pending \in Pages \cup {NoPage} /\ nav.loading \in BOOLEAN /\ nav.waiting \in Seq(Pages)
    /\ nav.again \in BOOLEAN
    /\ shown \in Pages \cup {NoPage} /\ cached \subseteq KeptAlive /\ clicked \in Pages \cup {NoPage}

-----------------------------------------------------------------------------
(* The store *)

IndexOf(ts, p) == SelectInSeq(ts.opened, LAMBDA t : t.path = p)
IndexOfName(ts, n) == SelectInSeq(ts.opened, LAMBDA t : NameOf[t.path] = n)
IsOpen(ts, p) == IndexOf(ts, p) # 0
TabAt(ts, p) == ts.opened[IndexOf(ts, p)]

(* findFixedTabInsertIndex: behind the pinned tabs at the front *)
FixedFront(opened) == LET i == SelectInSeq(opened, LAMBDA t : ~t.fixed)
                      IN  IF i = 0 THEN Len(opened) + 1 ELSE i

(* mutants of the store *)
OpenTabByPath(ts, p) ==
    LET tab == [path |-> p, fixed |-> (p \in PinnedPages)]
    IN [opened |-> IF IsOpen(ts, p) THEN ts.opened ELSE Append(ts.opened, tab),
        current |-> IF IsOpen(ts, p) THEN TabAt(ts, p) ELSE tab,
        excluded |-> ts.excluded \ {NameOf[p]}]

OpenTabStillExcluded(ts, p) ==
    LET i == IndexOfName(ts, NameOf[p])
        tab == [path |-> p, fixed |-> (p \in PinnedPages \/ (i # 0 /\ ts.opened[i].fixed))]
    IN [ts EXCEPT !.opened = IF i # 0 THEN [@ EXCEPT ![i] = tab] ELSE Append(@, tab), !.current = tab]

(* a tab that is opened under the name of an open one takes its place; the *)
(* route can pin it but not unpin it                                       *)
OpenTab(ts, p) ==
    LET i == IndexOfName(ts, NameOf[p])
        tab == [path |-> p, fixed |-> (p \in PinnedPages \/ (i # 0 /\ ts.opened[i].fixed))]
    IN [opened |-> IF i # 0 THEN [ts.opened EXCEPT ![i] = tab]
                   ELSE IF p \in PinnedPages THEN InsertAt(ts.opened, FixedFront(ts.opened), tab)
                   ELSE Append(ts.opened, tab),
        current |-> tab,
        excluded |-> ts.excluded \ {NameOf[p]}]

(* setWorktab *)
SetWorktab(ts, p) == IF p \in HiddenPages THEN ts ELSE OpenTab(ts, p)

(* removed tabs leave the cache: markTabsToRemove, addKeepAliveExclude *)
Without(opened, gone) ==
    FoldLeft(LAMBDA left, t : IF t \in gone THEN left ELSE Append(left, t), <<>>, opened)

Drop(ts, gone) ==
    [ts EXCEPT !.opened = Without(@, gone),
               !.excluded = @ \cup {NameOf[t.path] : t \in {u \in gone : u.path \in KeptAlive}}]

RemoveTabStaysCached(ts, p) ==
    LET left == [ts EXCEPT !.opened = RemoveAt(@, IndexOf(ts, p))]
    IN [left EXCEPT !.current = IF @.path = p THEN left.opened[1] ELSE @]

RemoveTab(ts, p) ==
    LET i == IndexOf(ts, p)
        left == Drop(ts, {TabAt(ts, p)})
        next == IF i > Len(left.opened) THEN Len(left.opened) ELSE i
    IN [left EXCEPT !.current = IF @.path = p THEN left.opened[next] ELSE @]

(* removeLeft, removeRight, removeOthers close what is not pinned and      *)
(* activate the tab they were asked for                                    *)
CloseBeside(ts, p, beside) ==
    LET gone == {t \in beside : ~t.fixed}
    IN  IF IsOpen(ts, p) /\ gone # {} THEN [Drop(ts, gone) EXCEPT !.current = TabAt(ts, p)] ELSE ts

RemoveLeftPinned(ts, p) ==
    IF IsOpen(ts, p) THEN [ts EXCEPT !.opened = SubSeq(@, IndexOf(ts, p), Len(@)), !.current = TabAt(ts, p)]
    ELSE ts

(* slice(0, index): where p has no tab, index is -1, which spares the last *)
LeftOf(ts, p) == LET i == IF IsOpen(ts, p) THEN IndexOf(ts, p) ELSE Len(ts.opened)
                 IN  {ts.opened[j] : j \in 1 .. i - 1}
RightOf(ts, p) == {ts.opened[i] : i \in IndexOf(ts, p) + 1 .. Len(ts.opened)}
OthersThan(ts, p) == {t \in ToSet(ts.opened) : t.path # p}

RemoveLeft(ts, p) == CloseBeside(ts, p, LeftOf(ts, p))
RemoveRight(ts, p) == CloseBeside(ts, p, RightOf(ts, p))
RemoveOthers(ts, p) == CloseBeside(ts, p, OthersThan(ts, p))

(* removeAll keeps the pinned tabs, or the home tab when none is pinned *)
ClosedByAll(ts) ==
    LET anyFixed == \E u \in ToSet(ts.opened) : u.fixed
    IN  {t \in ToSet(ts.opened) : ~t.fixed /\ (anyFixed \/ t.path # Home)}

RemoveAll(ts) ==
    LET left == Drop(ts, ClosedByAll(ts))
    IN [left EXCEPT !.current = IF left.opened = <<>> THEN NoTab
                                ELSE IF IsOpen(left, Home) THEN TabAt(left, Home) ELSE left.opened[1]]

ToggleFixedTabOnly(ts, p) ==
    [ts EXCEPT !.opened = [@ EXCEPT ![IndexOf(ts, p)].fixed = ~@]]

ToggleFixedTab(ts, p) ==
    LET tab == [TabAt(ts, p) EXCEPT !.fixed = ~@]
        rest == RemoveAt(ts.opened, IndexOf(ts, p))
        place == IF tab.fixed THEN FixedFront(rest)
                 ELSE Cardinality({i \in 1 .. Len(rest) : rest[i].fixed}) + 1
    IN [ts EXCEPT !.opened = InsertAt(rest, place, tab),
                  !.current = IF @.path = p THEN tab ELSE @]

(* validateWorktabs: every path matches the 404 route, so only a current   *)
(* tab that is missing is replaced                                         *)
ValidateWorktabs(ts) ==
    [ts EXCEPT !.current = IF @ = NoTab /\ ts.opened # <<>> THEN ts.opened[1] ELSE @]

-----------------------------------------------------------------------------
(* The router *)

(* KeepAlive after a change: excluded pages leave it, the shown page joins *)
InLayout == shown \notin {NoPage, Error}

CacheWith(pages, excluded) == {p \in pages \cap KeptAlive : CompOf[p] \notin excluded}

Nav(p, passed, waiting) == [pending |-> p, loading |-> passed, waiting |-> waiting, again |-> FALSE]

(* push(p) with the tabs as ts: a push to the shown page only cancels what *)
(* is pending; the guard of Setup passes at once, other guards wait for    *)
(* the answer                                                              *)
Push(p, ts) ==
    /\ tabs' = IF p = Setup /\ p # shown THEN SetWorktab(ts, p) ELSE ts
    /\ IF p = shown \/ p = Setup
       THEN nav' = Nav(IF p = shown THEN NoPage ELSE p, p # shown, nav.waiting)
       ELSE /\ Len(nav.waiting) < MaxWaiting
            /\ nav' = Nav(p, FALSE, Append(nav.waiting, p))

Stay(ts) == tabs' = ts /\ UNCHANGED nav

Rendered == cached' = IF InLayout THEN CacheWith(cached \cup {shown}, tabs'.excluded) ELSE {}

(* menu entry, link, address bar, Back; when the start has failed every    *)
(* guard passes, and any address is a page outside the layout              *)
Navigate(p) ==
    /\ shown # NoPage /\ p # Error /\ routes = "registered"
    /\ Push(p, tabs)
    /\ Rendered /\ UNCHANGED <<routes, shown, clicked>>

ClickTab(p) ==
    /\ InLayout /\ IsOpen(tabs, p)
    /\ Push(p, tabs)
    /\ Rendered /\ UNCHANGED <<routes, shown, clicked>>

(* the cross on a tab: there are other tabs and this one is not pinned *)
CloseTab(p) ==
    /\ InLayout /\ IsOpen(tabs, p)
    /\ Len(tabs.opened) > 1 /\ ~TabAt(tabs, p).fixed
    /\ LET left == RemoveTab(tabs, p)
       IN  IF tabs.current.path = p THEN Push(left.current.path, left) ELSE Stay(left)
    /\ Rendered /\ UNCHANGED <<routes, shown, clicked>>

ShowMenu(p) ==
    /\ InLayout /\ (IsOpen(tabs, p) \/ p = shown)
    /\ clicked' = p
    /\ UNCHANGED <<routes, tabs, nav, shown, cached>>

(* an entry of the context menu; the clicked tab may have gone meanwhile   *)
AllFixed(beside) == beside # {} /\ \A t \in beside : t.fixed
Clicked == IndexOf(tabs, clicked)
Active == IndexOf(tabs, shown)

SelectFixed ==
    /\ InLayout /\ clicked # NoPage /\ Clicked # 0
    /\ Stay(ToggleFixedTab(tabs, clicked))
    /\ Rendered /\ UNCHANGED <<routes, shown, clicked>>

SelectLeft ==
    /\ InLayout /\ clicked # NoPage /\ Clicked # 1
    /\ ~AllFixed(LeftOf(tabs, clicked))
    /\ LET left == RemoveLeft(tabs, clicked)
       IN  IF Active < Clicked THEN Push(clicked, left) ELSE Stay(left)
    /\ Rendered /\ UNCHANGED <<routes, shown, clicked>>

SelectRight ==
    /\ InLayout /\ clicked # NoPage /\ Clicked # Len(tabs.opened)
    /\ ~AllFixed(RightOf(tabs, clicked))
    /\ LET left == RemoveRight(tabs, clicked)
       IN  IF Active > Clicked THEN Push(clicked, left) ELSE Stay(left)
    /\ Rendered /\ UNCHANGED <<routes, shown, clicked>>

SelectOther ==
    /\ InLayout /\ clicked # NoPage /\ Len(tabs.opened) # 1
    /\ ~AllFixed(OthersThan(tabs, clicked))
    /\ Push(clicked, RemoveOthers(tabs, clicked))
    /\ Rendered /\ UNCHANGED <<routes, shown, clicked>>

SelectAll ==
    /\ InLayout /\ clicked # NoPage /\ Len(tabs.opened) # 1
    /\ ClosedByAll(tabs) # {}
    /\ LET left == RemoveAll(tabs)
       IN  Push(IF left.opened = <<>> THEN Home ELSE left.current.path, left)
    /\ Rendered /\ UNCHANGED <<routes, shown, clicked>>

(* the start: routes are registered and the tabs validated, then the guard *)
(* goes to the page again, to Home when it is not in the menu, or to Setup *)
RoutesRegistered ==
    /\ routes = "none" /\ routes' = "registered"
    /\ \E p \in {nav.pending, Home, Setup} : Push(p, ValidateWorktabs(tabs))
    /\ Rendered /\ UNCHANGED <<shown, clicked>>

(* routeInitFailed: the error page passes its guard without a question     *)
RoutesFail ==
    /\ routes = "none" /\ routes' = "failed"
    /\ nav' = Nav(Error, TRUE, <<>>)
    /\ UNCHANGED <<tabs, shown, cached, clicked>>

Asking == routes = "registered" /\ nav.waiting # <<>>

(* the answer lets every waiting guard pass, in their order: each opens    *)
(* its tab, also when its navigation has been replaced                     *)
GuardsPass ==
    /\ Asking
    /\ tabs' = FoldLeft(SetWorktab, tabs, nav.waiting)
    /\ nav' = Nav(nav.pending, nav.loading \/ nav.pending \in ToSet(nav.waiting), <<>>)
    /\ Rendered /\ UNCHANGED <<routes, shown, clicked>>

(* the account must bind a character or complete its profile first: every  *)
(* waiting guard redirects to Setup, also when its navigation has been     *)
(* replaced                                                                *)
GuardsRedirect ==
    /\ Asking
    /\ IF shown = Setup
       THEN nav' = Nav(NoPage, FALSE, <<>>) /\ UNCHANGED tabs
       ELSE /\ nav' = Nav(Setup, TRUE, <<>>)
            /\ tabs' = SetWorktab(tabs, Setup)
    /\ Rendered /\ UNCHANGED <<routes, shown, clicked>>

(* the question fails: every waiting guard redirects to the error page,    *)
(* whose guard asks again                                                  *)
GuardsFail ==
    /\ Asking
    /\ nav' = IF shown = Error THEN Nav(NoPage, FALSE, <<>>)
              ELSE [Nav(Error, FALSE, <<Error>>) EXCEPT !.again = (nav.pending = Error /\ ~nav.again)]
    /\ UNCHANGED <<routes, tabs, shown, cached, clicked>>

(* the code of the page has been loaded: the navigation ends; the layout,  *)
(* with its bar and its cache, is left for the error page                  *)
Arrive ==
    /\ nav.pending # NoPage /\ nav.loading
    /\ shown' = nav.pending
    /\ nav' = Nav(NoPage, FALSE, nav.waiting)
    /\ IF nav.pending = Error
       THEN cached' = {} /\ clicked' = NoPage
       ELSE /\ cached' = CacheWith(cached \cup {shown, nav.pending}, tabs.excluded)
            /\ UNCHANGED clicked
    /\ UNCHANGED <<routes, tabs>>

(* the code of the page cannot be loaded: the router stays where it is *)
LoadFails ==
    /\ nav.pending # NoPage /\ nav.loading /\ shown # NoPage
    /\ nav' = Nav(NoPage, FALSE, nav.waiting)
    /\ UNCHANGED <<routes, tabs, shown, cached, clicked>>

(* "refresh" of the context menu of the shown page, reload() of its view:  *)
(* the view is built anew with an empty cache                              *)
SelectRefresh ==
    /\ InLayout /\ clicked = shown
    /\ cached' = CacheWith({shown}, tabs.excluded)
    /\ UNCHANGED <<routes, tabs, nav, shown, clicked>>

(* the browser loads the page again: the tabs come from localStorage, and  *)
(* the address, after a failed start whatever it is, is visited            *)
ReloadApp ==
    /\ shown # NoPage
    /\ \E p \in IF routes = "failed" THEN Pages ELSE {shown} : nav' = Nav(p, FALSE, <<>>)
    /\ routes' = "none" /\ shown' = NoPage /\ cached' = {} /\ clicked' = NoPage
    /\ UNCHANGED tabs

Init ==
    /\ routes = "none"
    /\ tabs = [opened |-> <<>>, current |-> NoTab, excluded |-> {}]
    /\ nav = Nav(Home, FALSE, <<>>)
    /\ shown = NoPage /\ cached = {} /\ clicked = NoPage

UserActs ==
    \/ \E p \in Pages : Navigate(p) \/ ClickTab(p) \/ CloseTab(p) \/ ShowMenu(p)
    \/ SelectFixed \/ SelectLeft \/ SelectRight \/ SelectOther \/ SelectAll \/ SelectRefresh
    \/ ReloadApp

Next ==
    \/ UserActs \/ RoutesRegistered \/ RoutesFail \/ GuardsPass \/ GuardsRedirect \/ GuardsFail
    \/ Arrive \/ LoadFails

Spec == Init /\ [][Next]_vars

-----------------------------------------------------------------------------
(* Properties *)

(* A page has one tab: no two tabs have the same path or the same route    *)
(* name (openTab looks for the name first), so a dynamic route is one tab. *)
UniqueTabs ==
    \A i, j \in 1 .. Len(tabs.opened) :
        NameOf[tabs.opened[i].path] = NameOf[tabs.opened[j].path] => i = j

(* Whatever closes, moves, pins or renames tabs, the store's current tab   *)
(* is one of the open tabs, with the same path and pin, and there is a     *)
(* current tab as long as there are tabs.                                  *)
CurrentIsOpen ==
    IF tabs.opened = <<>> THEN tabs.current = NoTab ELSE tabs.current \in ToSet(tabs.opened)

(* A tab that is open is never on the list of pages KeepAlive must drop:   *)
(* a page the user comes back to is found as it was left.                  *)
OpenIsNotExcluded == \A t \in ToSet(tabs.opened) : NameOf[t.path] \notin tabs.excluded

(* A page that is cached has a tab, also the one that is shown (pages      *)
(* without tabs aside): a closed page is not found again with its old      *)
(* contents.  It needs the component to have the name of its route.        *)
ClosedIsForgotten ==
    \A p \in cached \ HiddenPages :
        CompOf[p] = NameOf[p] => IndexOfName(tabs, NameOf[p]) # 0

(* Pinned tabs are never closed, by whatever entry of the menu: only their *)
(* place and their pin change.                                             *)
PinnedStay ==
    [][\A t \in ToSet(tabs.opened) :
           t.fixed => \E u \in ToSet(tabs'.opened) : NameOf[u.path] = NameOf[t.path]]_tabs

-----------------------------------------------------------------------------
(* What the code does not keep.                                            *)

(* "if the active tab is closed, another one is activated": when the       *)
(* router rests, the page on the screen has its tab.                       *)
ShownHasTab ==
    nav.pending = NoPage /\ nav.waiting = <<>> /\ shown \notin HiddenPages => IsOpen(tabs, shown)

(* Pinned tabs come before the others.                                     *)
PinnedFirst ==
    \A i, j \in 1 .. Len(tabs.opened) : i < j /\ tabs.opened[j].fixed => tabs.opened[i].fixed

(* A closed page is forgotten, whatever its component is called.           *)
EveryClosedIsForgotten ==
    \A p \in cached \ HiddenPages : p = shown \/ IndexOfName(tabs, NameOf[p]) # 0

(* When the user waits, the router comes to rest, at the page, at Setup or *)
(* at the error page ("go to the 500 page"), whatever the server answers.  *)
FairSpec ==
    /\ Spec /\ WF_vars(Arrive \/ LoadFails)
    /\ WF_vars(RoutesRegistered \/ RoutesFail \/ GuardsPass \/ GuardsRedirect \/ GuardsFail)
RouterRests == <>[][~UserActs]_vars => []<>(nav.pending = NoPage)
=============================================================================

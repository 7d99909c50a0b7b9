---------------------------- MODULE ReactSession ----------------------------
(***************************************************************************)
(* The session of the React front end: the persisted session store, the    *)
(* bootstrap that asks /me again when the app starts, the access gate of   *)
(* the routes, the 401 bridge, SSO callback, impersonation, the characters *)
(* page, and the badge counts (stores/, auth/, components/badge-bootstrap, *)
(* pages/auth-callback-page, system-user-page, dashboard-characters-page). *)
(*                                                                         *)
(* Requests are answered in any order and long after they were sent; a     *)
(* request carries the token the store held when it was sent.  An effect   *)
(* of React runs in the step that changes what it depends on, and so does  *)
(* a redirect of the gate.                                                 *)
(***************************************************************************)
EXTENDS Naturals, FiniteSets

CONSTANTS
    Tokens,     \* access tokens the server may issue
    Users,
    UserOf,     \* the user a token is of
    Admins,     \* users whose roles admit the user administration
    Locked,     \* users who have to complete their profile first
    None,       \* no token, no user
    MaxCalls    \* bound: requests in flight when the user goes on

ASSUME SessionAssumption ==
    /\ UserOf \in [Tokens -> Users] /\ Admins \subseteq Users /\ Locked \subseteq Users
    /\ None \notin Tokens \cup Users /\ MaxCalls \in Nat

VARIABLES
    s,          \* the session store: [login, token, who, boot]; all but boot is persisted
    path,       \* where the user is
    arriving,   \* the token in the address of the callback page, while the user is there
    redirecting,    \* the callback page has set its timer to go on to a page
    calls,      \* requests in flight
    badge,      \* the badge store: [loadingFor, loadedFor, counts]
    valid,      \* tokens the server accepts
    issued,     \* tokens the server has issued
    landed,     \* tokens that came in an address, which the browser remembers
    fresh,      \* history: /me was answered since the app started
    swapped,    \* history: the token was replaced since the app started, without a page load
    strayed     \* history: the callback page was left since the app started, before /me answered

tokenVars == <<valid, issued, landed>>
historyVars == <<fresh, swapped, strayed>>
sessionVars == <<s, path, arriving, redirecting, calls, badge, tokenVars, historyVars>>

-----------------------------------------------------------------------------
(* The stores *)

Cleared == [login |-> FALSE, token |-> None, who |-> None, boot |-> FALSE]

\* setSessionSnapshot keeps what the snapshot does not name, and ends the bootstrap. The
\* snapshot of /me always names the character: 0 for a user without any.
WithToken(t) == [login |-> TRUE, token |-> t, who |-> s.who, boot |-> FALSE]
WithInfo(t, u) == [login |-> TRUE, token |-> t, who |-> u, boot |-> FALSE]

NoBadges == [loadingFor |-> None, loadedFor |-> None, counts |-> None]

\* use: what the answer is for; token: what the request carried; for: the token asked for, or
\* the user whose badges are loaded; alive: the effect that sent it has not been cleaned up.
Call(use, t, x) == [use |-> use, token |-> t, for |-> x, alive |-> TRUE]

\* BadgeBootstrap after a step to the session next: logged out clears, while booting waits, and
\* load(who) does nothing when who is loading or loaded.
Loads(next) == next.login /\ next.who # None /\ ~next.boot
               /\ next.who \notin {badge.loadingFor, badge.loadedFor}

BadgesAfter(next) ==
    IF ~next.login \/ next.who = None THEN NoBadges
    ELSE IF Loads(next) THEN [badge EXCEPT !.loadingFor = next.who] ELSE badge

BadgeCalls(next) == IF Loads(next) THEN {Call("badge", next.token, next.who)} ELSE {}

-----------------------------------------------------------------------------
(* Where the user is: RouteAccessGate, around the shell and around each page; the shell
   asks for a login only, so a lock of the profile comes before the rights of the page *)

Business == {"home", "users", "characters"}

Gate(p, next) ==
    IF p \notin Business \/ next.boot THEN p
    ELSE IF ~next.login THEN "login"
    ELSE IF p # "characters" /\ next.who \in Locked THEN "characters"
    ELSE IF p = "users" /\ next.who \notin Admins THEN "403"
    ELSE p

PageRendered == path \in Business /\ ~s.boot

Waiting(cs) == \E c \in cs : c.use = "callback" /\ c.alive

\* A page that is left cleans up its effects.
Cleanup(cs, p) ==
    {IF \/ c.use = "callback" /\ p # "callback"
        \/ c.use = "page" /\ p # "characters"
     THEN [c EXCEPT !.alive = FALSE] ELSE c : c \in cs}

\* The characters page asks /me when it is mounted.
MountCalls(p, next) ==
    IF p = "characters" /\ ~next.boot /\ ~(path = "characters" /\ ~s.boot)
    THEN {Call("page", next.token, None)} ELSE {}

\* The session becomes next and the user is at p; cs are the requests that stay in flight.
Become(next, p, cs) ==
    LET q == Gate(p, next) IN
    /\ s' = next
    /\ path' = q
    /\ arriving' = IF q = "callback" THEN arriving ELSE None
    /\ badge' = BadgesAfter(next)
    /\ calls' = Cleanup(cs, q) \cup BadgeCalls(next) \cup MountCalls(q, next)
    /\ strayed' = (strayed \/ (q # "callback" /\ Waiting(cs)))

SessionInit ==
    /\ s = Cleared /\ path = "login" /\ arriving = None /\ redirecting = FALSE
    /\ calls = {} /\ badge = NoBadges
    /\ valid = {} /\ issued = {} /\ landed = {}
    /\ fresh = FALSE /\ swapped = FALSE /\ strayed = FALSE

-----------------------------------------------------------------------------
(* The app starts, the user moves *)

\* A page load drops all but the persisted session; with a token the bootstrap asks /me. The
\* effects run in the order bootstrap, badges, page: on the callback page, which replaces the
\* token, the badges of a session without one are asked for without one.
Load(stored, p, t) ==
    LET next == [stored EXCEPT !.boot = stored.token # None]
        now == IF t = None THEN next
               ELSE [login |-> TRUE, token |-> t, who |-> stored.who, boot |-> FALSE]
        q == Gate(p, now)
        loads == now.login /\ now.who # None /\ ~now.boot
        carried == IF stored.token = None THEN None ELSE now.token
    IN
    /\ s' = now /\ path' = q /\ arriving' = t /\ redirecting' = FALSE
    /\ fresh' = FALSE /\ swapped' = FALSE /\ strayed' = FALSE
    /\ badge' = [NoBadges EXCEPT !.loadingFor = IF loads THEN now.who ELSE None]
    /\ calls' = (IF next.boot THEN {Call("boot", stored.token, None)} ELSE {})
                \cup (IF t # None THEN {Call("callback", t, t)} ELSE {})
                \cup (IF loads THEN {Call("badge", carried, now.who)} ELSE {})
                \cup (IF q = "characters" /\ ~now.boot THEN {Call("page", now.token, None)} ELSE {})

Reload ==
    /\ \E p \in Business \cup {"login"} : Load(s, p, None)
    /\ UNCHANGED tokenVars

\* EVE SSO ends at the callback page with a new token, whatever session is still stored; the
\* page is reloaded, or its address is opened again.
SsoReturns ==
    \E t \in (Tokens \ issued) \cup landed :
        /\ issued' = issued \cup {t} /\ landed' = landed \cup {t}
        /\ valid' = IF t \in issued THEN valid ELSE valid \cup {t}
        /\ Load(s, "callback", t)

\* The bound: the user does nothing more while that many requests are in flight.
Room == Cardinality(calls) < MaxCalls

\* Links of the pages, the button of a failed callback, the notification of an overdue system,
\* or another hash in the address bar: the running app goes to a page.
Open ==
    /\ Room /\ \E p \in (Business \cup {"login"}) \ {path} : Become(s, p, calls)
    /\ UNCHANGED <<redirecting, tokenVars, fresh, swapped>>

\* The browser goes back to a callback page without a page load: its effect runs once more.
Revisit ==
    \E t \in landed \ {arriving} :
        /\ Room
        /\ s' = WithToken(t)
        /\ path' = "callback" /\ arriving' = t
        /\ badge' = BadgesAfter(WithToken(t))
        /\ calls' = Cleanup(calls, "none") \cup BadgeCalls(WithToken(t)) \cup {Call("callback", t, t)}
        /\ swapped' = TRUE
        /\ UNCHANGED <<redirecting, tokenVars, fresh, strayed>>

\* The timer of the callback page, which leaving the page does not stop.
Redirect ==
    /\ redirecting /\ Room /\ redirecting' = FALSE
    /\ \E p \in Business : Become(s, p, calls)
    /\ UNCHANGED <<tokenVars, fresh, swapped>>

LogOut ==
    /\ PageRendered
    /\ Become(Cleared, path, calls)
    /\ UNCHANGED <<redirecting, tokenVars, fresh, swapped>>

-----------------------------------------------------------------------------
(* Requests of the pages *)

Send(c) ==
    /\ Room
    /\ calls' = calls \cup {c}
    /\ UNCHANGED <<s, path, arriving, redirecting, badge, tokenVars, historyVars>>

\* The characters page asks /me again after it saved something; nothing cancels that.
SyncUserInfo == PageRendered /\ path = "characters" /\ Send(Call("sync", s.token, None))

Impersonate ==
    /\ PageRendered /\ path = "users"
    /\ \E t \in Tokens \ issued : Send(Call("ask", s.token, t))

-----------------------------------------------------------------------------
(* Answers *)

Handles(c) ==
    CASE c.use = "boot" -> s.boot
      [] c.use \in {"callback", "page"} -> c.alive
      [] OTHER -> TRUE

\* Mutant: any answer is kept.
LoadBadgesAnyway(c) ==
    /\ badge' = [loadingFor |-> None, loadedFor |-> c.for, counts |-> UserOf[c.token]]
    /\ calls' = calls \ {c}
    /\ UNCHANGED <<s, path, arriving, redirecting, tokenVars, historyVars>>

\* The badge store keeps an answer only while it waits for that character.
LoadBadges(c) ==
    /\ badge' = IF badge.loadingFor = c.for
                THEN [loadingFor |-> None, loadedFor |-> c.for, counts |-> UserOf[c.token]] ELSE badge
    /\ calls' = calls \ {c}
    /\ UNCHANGED <<s, path, arriving, redirecting, tokenVars, historyVars>>

TakeInfo(c, next) ==
    /\ Become(next, path, calls \ {c})
    /\ fresh' = TRUE
    /\ UNCHANGED <<redirecting, tokenVars, swapped>>

Answered(c) ==
    /\ c \in calls /\ c.token \in valid /\ Handles(c)
    /\ \/ c.use = "badge" /\ LoadBadges(c)
       \/ c.use \in {"boot", "page", "sync"} /\ TakeInfo(c, WithInfo(s.token, UserOf[c.token]))
       \/ /\ c.use = "callback"
          /\ s' = WithInfo(c.for, UserOf[c.token]) /\ redirecting' = TRUE /\ fresh' = TRUE
          /\ badge' = BadgesAfter(WithInfo(c.for, UserOf[c.token]))
          /\ calls' = (calls \ {c}) \cup BadgeCalls(WithInfo(c.for, UserOf[c.token]))
          /\ UNCHANGED <<path, arriving, tokenVars, swapped, strayed>>
       \/ /\ c.use = "ask" /\ c.for \notin issued
          /\ issued' = issued \cup {c.for} /\ valid' = valid \cup {c.for}
          /\ Become(WithToken(c.for), path,
                    (calls \ {c}) \cup {Call("impersonate", c.for, c.for)})
          /\ swapped' = TRUE /\ UNCHANGED <<redirecting, landed, fresh>>
       \/ /\ c.use = "impersonate"
          /\ Load(WithInfo(c.for, UserOf[c.token]), "home", None)
          /\ UNCHANGED tokenVars

\* Mutants: a failed bootstrap goes on with the persisted session; it is not handled at all.
SessionKeptAfterFailure(c) ==
    IF c.use = "boot" /\ Handles(c) THEN [s EXCEPT !.boot = FALSE]
    ELSE IF c.use = "callback" /\ Handles(c) THEN Cleared ELSE s

SessionUnhandled(c) == IF c.use = "callback" /\ Handles(c) THEN Cleared ELSE s

\* What the caller does with a failure: the bootstrap and the callback end the session.
SessionAfterFailure(c) ==
    IF c.use \in {"boot", "callback"} /\ Handles(c) THEN Cleared ELSE s

BadgeFailed(c) == c.use = "badge" /\ badge.loadingFor = c.for

\* No answer, or an error of the server.
Fails(c) ==
    /\ c \in calls
    /\ LET next == SessionAfterFailure(c) IN
       IF next = s
       THEN /\ badge' = IF BadgeFailed(c) THEN [badge EXCEPT !.loadingFor = None] ELSE badge
            /\ calls' = calls \ {c}
            /\ UNCHANGED <<s, path>>
       ELSE /\ s' = next /\ path' = Gate(path, next)
            /\ badge' = NoBadges
            /\ calls' = Cleanup(calls \ {c}, Gate(path, next))
    /\ UNCHANGED <<arriving, redirecting, tokenVars, historyVars>>

\* 401: the bridge ends the session and shows the login page, unless that is where the user is.
Unauthorized(c) ==
    /\ c \in calls /\ c.token \notin valid /\ path # "login"
    /\ s' = Cleared /\ path' = "login" /\ arriving' = None
    /\ badge' = NoBadges
    /\ calls' = Cleanup(calls \ {c}, "login")
    /\ UNCHANGED <<redirecting, tokenVars, historyVars>>

\* An answer nobody waits for any more.
Ignored(c) ==
    /\ c \in calls /\ c.token \in valid /\ ~Handles(c)
    /\ calls' = calls \ {c}
    /\ UNCHANGED <<s, path, arriving, redirecting, badge, tokenVars, historyVars>>

Expire ==
    /\ \E t \in valid : valid' = valid \ {t}
    /\ UNCHANGED <<s, path, arriving, redirecting, calls, badge, issued, landed, historyVars>>

-----------------------------------------------------------------------------

Answer(c) == Answered(c) \/ Fails(c) \/ Unauthorized(c) \/ Ignored(c)

AnyCall == [use : {"boot", "callback", "page", "sync", "ask", "impersonate", "badge"},
            token : Tokens \cup {None}, for : Tokens \cup Users \cup {None}, alive : BOOLEAN]

SessionNext ==
    \/ Reload \/ SsoReturns \/ Open \/ Revisit \/ Redirect \/ LogOut
    \/ SyncUserInfo \/ Impersonate
    \/ \E c \in calls : Answer(c)
    \/ Expire

SessionSpec == SessionInit /\ [][SessionNext]_sessionVars

\* Every request ends: fetch settles, at the latest with a failure.
FairSessionSpec == SessionSpec /\ WF_sessionVars(\E c \in calls : c.use = "boot" /\ Answer(c))

-----------------------------------------------------------------------------
(* Properties *)

SessionTypeOK ==
    /\ s \in [login : BOOLEAN, token : Tokens \cup {None}, who : Users \cup {None}, boot : BOOLEAN]
    /\ path \in Business \cup {"login", "callback", "403"}
    /\ arriving \in Tokens \cup {None} /\ redirecting \in BOOLEAN
    /\ calls \subseteq AnyCall
    /\ badge \in [loadingFor : Users \cup {None}, loadedFor : Users \cup {None},
                  counts : Users \cup {None}]
    /\ valid \subseteq issued /\ issued \subseteq Tokens /\ landed \subseteq issued
    /\ fresh \in BOOLEAN /\ swapped \in BOOLEAN /\ strayed \in BOOLEAN

\* With a token no business page is rendered before /me was answered since the app started,
\* unless the callback page was left while it waited for that answer: roles persisted by an
\* earlier start are not used in any other way (SessionBootstrap, RouteAccessGate).
FreshUnlessStrayed == PageRendered /\ s.token # None /\ ~strayed => fresh

\* What the code does not keep: the same without the exception, and without a token
\* (docs/architecture/auth-and-permissions.md:45).
FreshWithToken == PageRendered /\ s.token # None => fresh
FreshAlways == PageRendered => fresh

\* After a logout no badges come back, however late their answer is; and as long as the token
\* was not replaced under the running app, the counts that are shown are those of the token's
\* user, whoever the persisted session was of (badge-store.ts, badge-bootstrap.tsx).
BadgesAreTheirs ==
    /\ ~s.login => badge = NoBadges
    /\ ~swapped /\ s.token # None /\ badge.loadedFor # None => badge.counts = UserOf[s.token]

\* What the code does not keep: the counts shown as the user's are the user's.  Two
\* impersonations in flight at once, neither of which reloads the app in time, break it.
BadgesAreAlwaysTheirs ==
    s.token # None /\ badge.loadedFor = s.who /\ s.who = UserOf[s.token] => badge.counts = s.who

\* The placeholder of the start is not for ever: the bootstrap ends with /me or with a logout.
BootSettles == s.boot ~> ~s.boot
=============================================================================

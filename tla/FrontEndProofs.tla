---------------------------- MODULE FrontEndProofs ----------------------------
(***************************************************************************)
(* Proofs about the two front ends: the session of the React application   *)
(* (ReactSession) and the tab bar of the Vue application (WorkTabs).       *)
(***************************************************************************)
EXTENDS ReactSession, WorkTabs, FiniteSetTheorems, SequenceTheorems, WellFoundedInduction,
        TLAPS

-----------------------------------------------------------------------------
(* The session: what holds of the requests in flight *)

Sessions == [login : BOOLEAN, token : Tokens \cup {None}, who : Users \cup {None}, boot : BOOLEAN]
Places == Business \cup {"login", "callback", "403"}

\* A request asks for a token, for badges of a user, or for nothing.
CallShape ==
    \A c \in calls : /\ c.use = "badge" => c.for \in Users
                     /\ c.use \in {"ask", "impersonate", "callback"} => c.for \in Tokens

\* While /me was not answered the bootstrap waits, or there is no token, or the callback page
\* waits, unless it was left; an administrator who asks with a token has been answered or left it.
FreshOrWaiting ==
    /\ ~fresh /\ ~strayed => s.boot \/ s.token = None \/ Waiting(calls)
    /\ \A c \in calls : c.use = "ask" /\ c.token # None => fresh \/ strayed

\* The callback page waits for its token, which is that of the session until it is replaced.
CallbackSettles ==
    /\ path = "callback" => ~s.boot
    /\ \A c \in calls : c.use = "callback" /\ c.alive =>
          path = "callback" /\ c.token = c.for /\ (~swapped => s.token = c.for)

\* Until an impersonation replaces the token, badges are asked for with the token of the session.
BadgeCallsAreOurs ==
    s.token # None /\ ~swapped =>
        \A c \in calls : c.use = "badge" /\ c.token # None => c.token = s.token

SessionInv ==
    /\ SessionTypeOK /\ CallShape /\ FreshOrWaiting /\ CallbackSettles
    /\ BadgeCallsAreOurs /\ BadgesAreTheirs

\* A request after a step is one of cs, perhaps cleaned up, or was sent in the step to the session
\* next at the place q.
FromBefore(cs, next, q) ==
    \A d \in calls' :
        \/ \E c \in cs : /\ d.use = c.use /\ d.token = c.token /\ d.for = c.for
                         /\ d.alive => c.alive
                         /\ d.use = "callback" /\ d.alive => q = "callback"
        \/ d.use = "badge" /\ d.token = next.token /\ d.for \in Users
        \/ d.use = "page" /\ q = "characters"

\* The badges after a step to the session next.
BadgesKept(next) ==
    /\ badge' \in [loadingFor : Users \cup {None}, loadedFor : Users \cup {None},
                   counts : Users \cup {None}]
    /\ ~next.login => badge' = NoBadges
    /\ badge'.loadedFor = None \/ (badge'.loadedFor = badge.loadedFor /\ badge'.counts = badge.counts)

LEMMA GatePlaces ==
    ASSUME NEW p \in Places, NEW next \in Sessions
    PROVE  /\ Gate(p, next) \in Places
           /\ Gate(p, next) = "callback" <=> p = "callback"
  BY DEF Gate, Places, Business

LEMMA CleanupShape ==
    ASSUME NEW cs, cs \subseteq AnyCall, NEW q, NEW d \in Cleanup(cs, q)
    PROVE  /\ d \in AnyCall
           /\ \E c \in cs : /\ d.use = c.use /\ d.token = c.token /\ d.for = c.for
                            /\ d.alive => c.alive
                            /\ d.use = "callback" /\ d.alive => q = "callback"
  <1>1. PICK c \in cs : d = IF \/ c.use = "callback" /\ q # "callback"
                               \/ c.use = "page" /\ q # "characters"
                            THEN [c EXCEPT !.alive = FALSE] ELSE c
    BY DEF Cleanup
  <1>2. c \in AnyCall
    OBVIOUS
  <1>3. d \in AnyCall /\ d.use = c.use /\ d.token = c.token /\ d.for = c.for
    BY <1>1, <1>2 DEF AnyCall
  <1>4. (d.alive => c.alive) /\ (d.use = "callback" /\ d.alive => q = "callback")
    BY <1>1, <1>2 DEF AnyCall
  <1> QED BY <1>3, <1>4

LEMMA BadgesAfterShape ==
    ASSUME SessionTypeOK, NEW next \in Sessions, badge' = BadgesAfter(next)
    PROVE  BadgesKept(next)
  BY DEF SessionTypeOK, Sessions, BadgesAfter, BadgesKept, NoBadges, Loads

LEMMA SentCalls ==
    ASSUME NEW next \in Sessions, NEW p
    PROVE  /\ \A d \in BadgeCalls(next) : /\ d \in AnyCall /\ d.use = "badge"
                                          /\ d.token = next.token /\ d.for \in Users
           /\ \A d \in MountCalls(p, next) : d \in AnyCall /\ d.use = "page" /\ p = "characters"
  <1>1. ASSUME NEW d \in BadgeCalls(next)
        PROVE  /\ d \in AnyCall /\ d.use = "badge" /\ d.token = next.token /\ d.for \in Users
    <2>1. d = Call("badge", next.token, next.who) /\ next.who # None
      BY <1>1 DEF BadgeCalls, Loads
    <2>2. next.token \in Tokens \cup {None} /\ next.who \in Users
      BY <2>1 DEF Sessions
    <2> QED BY <2>1, <2>2 DEF Call, AnyCall
  <1>2. ASSUME NEW d \in MountCalls(p, next)
        PROVE  d \in AnyCall /\ d.use = "page" /\ p = "characters"
    <2>1. d = Call("page", next.token, None) /\ p = "characters"
      BY <1>2 DEF MountCalls
    <2>2. next.token \in Tokens \cup {None}
      BY DEF Sessions
    <2> QED BY <2>1, <2>2 DEF Call, AnyCall
  <1> QED BY <1>1, <1>2

LEMMA BecomeShape ==
    ASSUME SessionTypeOK, NEW next \in Sessions, NEW p \in Places,
           NEW cs, cs \subseteq AnyCall, Become(next, p, cs)
    PROVE  /\ s' = next /\ path' \in Places /\ (path' = "callback" <=> p = "callback")
           /\ arriving' = (IF p = "callback" THEN arriving ELSE None)
           /\ calls' \subseteq AnyCall /\ FromBefore(cs, next, path') /\ BadgesKept(next)
           /\ Waiting(cs) => strayed' \/ Waiting(calls')
           /\ strayed' \in BOOLEAN /\ (strayed => strayed')
  <1> DEFINE q == Gate(p, next)
  <1>1. /\ s' = next /\ path' = q /\ arriving' = (IF q = "callback" THEN arriving ELSE None)
        /\ badge' = BadgesAfter(next)
        /\ calls' = Cleanup(cs, q) \cup BadgeCalls(next) \cup MountCalls(q, next)
        /\ strayed' = (strayed \/ (q # "callback" /\ Waiting(cs)))
    BY DEF Become
  <1>2. q \in Places /\ (q = "callback" <=> p = "callback")
    BY GatePlaces
  <1>3. BadgesKept(next)
    BY <1>1, BadgesAfterShape
  <1>4. ASSUME NEW d \in calls'
        PROVE  /\ d \in AnyCall
               /\ \/ \E c \in cs : /\ d.use = c.use /\ d.token = c.token /\ d.for = c.for
                                   /\ d.alive => c.alive
                                   /\ d.use = "callback" /\ d.alive => q = "callback"
                  \/ d.use = "badge" /\ d.token = next.token /\ d.for \in Users
                  \/ d.use = "page" /\ q = "characters"
    <2>1. CASE d \in Cleanup(cs, q)
      BY <2>1, CleanupShape
    <2>2. CASE d \in BadgeCalls(next)
      BY <2>2, SentCalls
    <2>3. CASE d \in MountCalls(q, next)
      BY <2>3, SentCalls
    <2> QED BY <1>1, <2>1, <2>2, <2>3
  <1>5. FromBefore(cs, next, q)
    BY <1>4 DEF FromBefore
  <1>6. ASSUME Waiting(cs), q = "callback"
        PROVE  Waiting(calls')
    <2>1. PICK c \in cs : c.use = "callback" /\ c.alive
      BY <1>6 DEF Waiting
    <2>2. c \in Cleanup(cs, q)
      BY <1>6, <2>1 DEF Cleanup
    <2> QED BY <1>1, <2>1, <2>2 DEF Waiting
  <1>7. strayed \in BOOLEAN
    BY DEF SessionTypeOK
  <1>8. (Waiting(cs) => strayed' \/ Waiting(calls')) /\ strayed' \in BOOLEAN /\ (strayed => strayed')
    <2>1. (q # "callback" /\ Waiting(cs)) \in BOOLEAN
      OBVIOUS
    <2> QED BY <1>1, <1>6, <1>7, <2>1
  <1> QED BY <1>1, <1>2, <1>3, <1>4, <1>5, <1>8

\* A page load with a typed session gives a state of the invariant, whatever went before.
LEMMA LoadGood ==
    ASSUME NEW stored \in Sessions, NEW p \in Places, NEW t \in Tokens \cup {None},
           p = "callback" <=> t # None, Load(stored, p, t),
           valid' \subseteq issued', issued' \subseteq Tokens, landed' \subseteq issued'
    PROVE  SessionInv'
  <1> DEFINE next == [stored EXCEPT !.boot = stored.token # None]
             now == IF t = None THEN next
                    ELSE [login |-> TRUE, token |-> t, who |-> stored.who, boot |-> FALSE]
             q == Gate(p, now)
             loads == now.login /\ now.who # None /\ ~now.boot
             carried == IF stored.token = None THEN None ELSE now.token
  <1>1. next \in Sessions /\ now \in Sessions
    BY DEF Sessions
  <1>2. /\ s' = now /\ path' = q /\ arriving' = t /\ redirecting' = FALSE
        /\ fresh' = FALSE /\ swapped' = FALSE /\ strayed' = FALSE
        /\ badge' = [NoBadges EXCEPT !.loadingFor = IF loads THEN now.who ELSE None]
        /\ calls' = (IF next.boot THEN {Call("boot", stored.token, None)} ELSE {})
                    \cup (IF t # None THEN {Call("callback", t, t)} ELSE {})
                    \cup (IF loads THEN {Call("badge", carried, now.who)} ELSE {})
                    \cup (IF q = "characters" /\ ~now.boot THEN {Call("page", now.token, None)} ELSE {})
    BY DEF Load
  <1>3. q \in Places /\ (q = "callback" <=> t # None)
    BY <1>1, GatePlaces
  <1>4. ASSUME NEW d \in calls'
        PROVE  \/ d = Call("boot", stored.token, None)
               \/ t # None /\ d = Call("callback", t, t)
               \/ loads /\ d = Call("badge", carried, now.who)
               \/ q = "characters" /\ d = Call("page", now.token, None)
    BY <1>2
  <1>5. stored.token \in Tokens \cup {None} /\ now.token \in Tokens \cup {None}
        /\ (loads => now.who \in Users) /\ carried \in {None, now.token}
    BY <1>1 DEF Sessions
  <1> HIDE DEF q, loads, carried
  <1>6. ASSUME NEW d \in calls'
        PROVE  /\ d \in AnyCall
               /\ d.use = "badge" => d.for \in Users /\ d.token \in {None, now.token}
               /\ d.use = "callback" => q = "callback" /\ d.for = t /\ d.token = t /\ t \in Tokens
               /\ d.use \in {"boot", "badge", "callback", "page"}
               /\ d.use = "page" => q = "characters"
    <2> HIDE DEF now, next
    <2>1. CASE d = Call("boot", stored.token, None)
      BY <1>5, <2>1 DEF Call, AnyCall
    <2>2. CASE t # None /\ d = Call("callback", t, t)
      BY <1>3, <2>2 DEF Call, AnyCall
    <2>3. CASE loads /\ d = Call("badge", carried, now.who)
      BY <1>5, <2>3 DEF Call, AnyCall
    <2>4. CASE q = "characters" /\ d = Call("page", now.token, None)
      BY <1>5, <2>4 DEF Call, AnyCall
    <2> QED BY <1>4, <1>6, <2>1, <2>2, <2>3, <2>4
  <1>7. /\ badge' \in [loadingFor : Users \cup {None}, loadedFor : Users \cup {None},
                       counts : Users \cup {None}]
        /\ badge'.loadedFor = None
        /\ ~now.login => badge' = NoBadges
    BY <1>2, <1>5 DEF NoBadges, loads
  <1>8. SessionTypeOK'
    BY <1>1, <1>2, <1>3, <1>6, <1>7 DEF SessionTypeOK, Sessions, Places
  <1>9. CallShape'
    BY <1>6 DEF CallShape
  <1>10. FreshOrWaiting'
    <2>1. now.boot \/ now.token = None \/ t # None
      BY DEF Sessions
    <2>2. t # None => Waiting(calls')
      <3>1. Call("callback", t, t).use = "callback" /\ Call("callback", t, t).alive
        BY DEF Call
      <3>2. t # None => Call("callback", t, t) \in calls'
        BY <1>2
      <3> QED BY <3>1, <3>2 DEF Waiting
    <2> QED BY <1>2, <1>6, <2>1, <2>2 DEF FreshOrWaiting
  <1>11. CallbackSettles'
    <2>1. t # None => ~now.boot /\ now.token = t
      OBVIOUS
    <2> QED BY <1>2, <1>3, <1>6, <2>1 DEF CallbackSettles
  <1>12. BadgeCallsAreOurs'
    BY <1>2, <1>6 DEF BadgeCallsAreOurs
  <1>13. BadgesAreTheirs'
    BY <1>2, <1>7 DEF BadgesAreTheirs
  <1> QED BY <1>8, <1>9, <1>10, <1>11, <1>12, <1>13 DEF SessionInv

\* A step to the session next, at p or where its gate leads: what has to be known of next.
LEMMA BecomeGood ==
    ASSUME SessionInv, NEW next \in Sessions, NEW p \in Places, p = "callback" => path = "callback",
           NEW cs, cs \subseteq AnyCall, Become(next, p, cs), Waiting(calls) => Waiting(cs),
           \A c \in cs : c \in calls \/ (c.use = "impersonate" /\ c.for \in Tokens),
           next.token = s.token \/ (next.token = None /\ p # "callback") \/ swapped',
           next.boot = s.boot \/ ~next.boot,
           fresh' \/ strayed \/ next.token = None \/ (next.token = s.token /\ next.boot = s.boot),
           swapped => swapped', fresh => fresh', redirecting' \in BOOLEAN,
           valid' \subseteq issued', issued' \subseteq Tokens, landed' \subseteq issued',
           fresh' \in BOOLEAN, swapped' \in BOOLEAN
    PROVE  SessionInv'
  <1>1. SessionTypeOK /\ CallShape /\ FreshOrWaiting /\ CallbackSettles
        /\ BadgeCallsAreOurs /\ BadgesAreTheirs
    BY DEF SessionInv
  <1>2. /\ s' = next /\ path' \in Places /\ (path' = "callback" <=> p = "callback")
        /\ arriving' = (IF p = "callback" THEN arriving ELSE None)
        /\ calls' \subseteq AnyCall /\ FromBefore(cs, next, path') /\ BadgesKept(next)
        /\ Waiting(cs) => strayed' \/ Waiting(calls')
        /\ strayed' \in BOOLEAN /\ (strayed => strayed')
    BY <1>1, BecomeShape
  <1>3. SessionTypeOK'
    BY <1>1, <1>2 DEF SessionTypeOK, Sessions, Places, BadgesKept
  <1>4. CallShape'
    BY <1>1, <1>2 DEF CallShape, FromBefore
  <1>5. FreshOrWaiting'
    <2>1. ~fresh' /\ ~strayed' => next.boot \/ next.token = None \/ Waiting(calls')
      BY <1>1, <1>2 DEF FreshOrWaiting
    <2>2. ASSUME NEW d \in calls', d.use = "ask", d.token # None
          PROVE  fresh' \/ strayed'
      BY <1>1, <1>2, <2>2 DEF FreshOrWaiting, FromBefore
    <2> QED BY <1>2, <2>1, <2>2 DEF FreshOrWaiting
  <1>6. CallbackSettles'
    <2>1. path' = "callback" => ~s'.boot
      BY <1>1, <1>2 DEF CallbackSettles
    <2>2. ASSUME NEW d \in calls', d.use = "callback", d.alive
          PROVE  path' = "callback" /\ d.token = d.for /\ (~swapped' => s'.token = d.for)
      <3>1. PICK c \in cs : /\ d.use = c.use /\ d.token = c.token /\ d.for = c.for
                            /\ c.alive /\ path' = "callback"
        BY <1>2, <2>2 DEF FromBefore
      <3>2. c \in calls
        BY <2>2, <3>1
      <3> QED BY <1>1, <1>2, <2>2, <3>1, <3>2 DEF CallbackSettles
    <2> QED BY <2>1, <2>2 DEF CallbackSettles
  <1>7. BadgeCallsAreOurs'
    BY <1>1, <1>2 DEF BadgeCallsAreOurs, FromBefore
  <1>8. BadgesAreTheirs'
    BY <1>1, <1>2 DEF BadgesAreTheirs, BadgesKept
  <1> QED BY <1>3, <1>4, <1>5, <1>6, <1>7, <1>8 DEF SessionInv

\* A step that leaves the session where it is and takes requests away or sends one.
LEMMA CallsGood ==
    ASSUME SessionInv, calls' \subseteq AnyCall, NEW c \in AnyCall,
           \A d \in calls' : d \in calls \/ d = c,
           c \in calls \/ c.use \in {"sync", "ask"}, Waiting(calls) => Waiting(calls') \/ s.token = None,
           c.use = "ask" => c.for \in Tokens /\ (c.token # None => fresh \/ strayed),
           UNCHANGED <<s, path, arriving, redirecting, tokenVars, historyVars>>,
           badge' \in [loadingFor : Users \cup {None}, loadedFor : Users \cup {None},
                       counts : Users \cup {None}],
           ~s.login => badge' = NoBadges,
           \/ badge'.loadedFor = badge.loadedFor /\ badge'.counts = badge.counts
           \/ s.token # None /\ ~swapped => badge'.counts = UserOf[s.token]
    PROVE  SessionInv'
  <1>1. SessionTypeOK /\ CallShape /\ FreshOrWaiting /\ CallbackSettles
        /\ BadgeCallsAreOurs /\ BadgesAreTheirs
        /\ UNCHANGED <<s, path, arriving, redirecting, valid, issued, landed, fresh, swapped, strayed>>
    BY DEF SessionInv, tokenVars, historyVars
  <1>2. SessionTypeOK' /\ CallShape'
    BY <1>1 DEF SessionTypeOK, CallShape
  <1>3. FreshOrWaiting'
    BY <1>1 DEF FreshOrWaiting
  <1>4. CallbackSettles'
    BY <1>1 DEF CallbackSettles
  <1>5. BadgeCallsAreOurs'
    BY <1>1 DEF BadgeCallsAreOurs
  <1>6. BadgesAreTheirs'
    BY <1>1 DEF BadgesAreTheirs
  <1> QED BY <1>2, <1>3, <1>4, <1>5, <1>6 DEF SessionInv

\* A step that ends the session and leads to the login page, or stays at the callback page with
\* nothing left to settle.
LEMMA EndGood ==
    ASSUME SessionInv, s' = Cleared, badge' = NoBadges, arriving' \in {arriving, None},
           path' \in Places, path' = "callback" => path = "callback",
           NEW cs, cs \subseteq calls, calls' = Cleanup(cs, path'),
           swapped \/ \A c \in cs : ~(c.use = "callback" /\ c.alive) \/ path' # "callback",
           UNCHANGED <<redirecting, tokenVars, historyVars>>
    PROVE  SessionInv'
  <1>1. SessionTypeOK /\ CallShape /\ FreshOrWaiting /\ CallbackSettles
        /\ BadgeCallsAreOurs /\ BadgesAreTheirs
        /\ UNCHANGED <<redirecting, valid, issued, landed, fresh, swapped, strayed>>
    BY DEF SessionInv, tokenVars, historyVars
  <1>2. cs \subseteq AnyCall
    BY <1>1 DEF SessionTypeOK
  <1>3. ASSUME NEW d \in calls'
        PROVE  /\ d \in AnyCall
               /\ \E c \in calls : d.use = c.use /\ d.token = c.token /\ d.for = c.for
    BY <1>2, <1>3, CleanupShape
  <1>4. ASSUME NEW d \in calls', d.use = "callback", d.alive
        PROVE  path' = "callback" /\ d.token = d.for /\ swapped
    <2>1. PICK c \in cs : /\ d.use = c.use /\ d.token = c.token /\ d.for = c.for
                          /\ c.alive /\ path' = "callback"
      BY <1>2, <1>4, CleanupShape
    <2> QED BY <1>1, <1>4, <2>1 DEF CallbackSettles
  <1>5. SessionTypeOK'
    BY <1>1, <1>3 DEF SessionTypeOK, Cleared, NoBadges, Places
  <1>6. CallShape'
    BY <1>1, <1>3 DEF CallShape
  <1>7. FreshOrWaiting'
    BY <1>1, <1>3 DEF FreshOrWaiting, Cleared
  <1>8. CallbackSettles'
    BY <1>1, <1>4 DEF CallbackSettles, Cleared
  <1>9. BadgeCallsAreOurs' /\ BadgesAreTheirs'
    BY DEF BadgeCallsAreOurs, BadgesAreTheirs, Cleared
  <1> QED BY <1>5, <1>6, <1>7, <1>8, <1>9 DEF SessionInv

LEMMA AnsweredGood ==
    ASSUME SessionInv, NEW c, Answered(c)
    PROVE  SessionInv'
  <1>1. SessionTypeOK /\ CallShape /\ FreshOrWaiting /\ CallbackSettles
        /\ BadgeCallsAreOurs /\ BadgesAreTheirs
    BY DEF SessionInv
  <1>2. c \in calls /\ c \in AnyCall /\ c.token \in valid /\ c.token \in Tokens /\ c.token # None
        /\ Handles(c) /\ UserOf[c.token] \in Users
    BY <1>1, SessionAssumption DEF Answered, SessionTypeOK
  <1>3. s \in Sessions /\ path \in Places /\ calls \subseteq AnyCall
        /\ valid \subseteq issued /\ issued \subseteq Tokens /\ landed \subseteq issued
        /\ fresh \in BOOLEAN /\ swapped \in BOOLEAN /\ strayed \in BOOLEAN /\ redirecting \in BOOLEAN
    BY <1>1 DEF SessionTypeOK, Sessions, Places
  <1>4. CASE c.use = "badge" /\ LoadBadges(c)
    <2>1. c.for \in Users
      BY <1>1, <1>2, <1>4 DEF CallShape
    <2>2. s.token # None /\ ~swapped => c.token = s.token
      BY <1>1, <1>2, <1>4 DEF BadgeCallsAreOurs
    <2>3. badge \in [loadingFor : Users \cup {None}, loadedFor : Users \cup {None},
                     counts : Users \cup {None}]
      BY <1>1 DEF SessionTypeOK
    <2>4. /\ badge' \in [loadingFor : Users \cup {None}, loadedFor : Users \cup {None},
                         counts : Users \cup {None}]
          /\ ~s.login => badge' = NoBadges
          /\ \/ badge'.loadedFor = badge.loadedFor /\ badge'.counts = badge.counts
             \/ s.token # None /\ ~swapped => badge'.counts = UserOf[s.token]
      <3>1. CASE badge.loadingFor = c.for
        <4>1. badge' = [loadingFor |-> None, loadedFor |-> c.for, counts |-> UserOf[c.token]]
          BY <1>4, <3>1 DEF LoadBadges
        <4>2. s.login
          BY <1>1, <2>1, <3>1, SessionAssumption DEF BadgesAreTheirs, NoBadges
        <4> QED BY <1>2, <2>1, <2>2, <4>1, <4>2
      <3>2. CASE badge.loadingFor # c.for
        <4>1. badge' = badge
          BY <1>4, <3>2 DEF LoadBadges
        <4> QED BY <1>1, <2>3, <4>1 DEF BadgesAreTheirs
      <3> QED BY <3>1, <3>2
    <2>5. /\ calls' = calls \ {c}
          /\ UNCHANGED <<s, path, arriving, redirecting, tokenVars, historyVars>>
      BY <1>4 DEF LoadBadges
    <2>6. Waiting(calls) => Waiting(calls')
      BY <1>4, <2>5 DEF Waiting
    <2> QED BY <1>2, <1>3, <1>4, <2>4, <2>5, <2>6, CallsGood
  <1>5. CASE c.use \in {"boot", "page", "sync"} /\ TakeInfo(c, WithInfo(s.token, UserOf[c.token]))
    <2> DEFINE next == WithInfo(s.token, UserOf[c.token])
    <2>1. next \in Sessions /\ next.token = s.token
      BY <1>2, <1>3 DEF WithInfo, Sessions
    <2>2. Waiting(calls) => Waiting(calls \ {c})
      BY <1>5 DEF Waiting
    <2>3. /\ Become(next, path, calls \ {c}) /\ fresh' = TRUE
          /\ UNCHANGED <<redirecting, valid, issued, landed, swapped>> /\ ~next.boot
      BY <1>5 DEF TakeInfo, tokenVars, WithInfo
    <2> HIDE DEF next
    <2> QED BY <1>3, <2>1, <2>2, <2>3, BecomeGood
  <1>6. CASE /\ c.use = "callback"
             /\ s' = WithInfo(c.for, UserOf[c.token]) /\ redirecting' = TRUE /\ fresh' = TRUE
             /\ badge' = BadgesAfter(WithInfo(c.for, UserOf[c.token]))
             /\ calls' = (calls \ {c}) \cup BadgeCalls(WithInfo(c.for, UserOf[c.token]))
             /\ UNCHANGED <<path, arriving, tokenVars, swapped, strayed>>
    <2> DEFINE next == WithInfo(c.for, UserOf[c.token])
    <2>1. c.alive /\ path = "callback" /\ c.token = c.for /\ (~swapped => s.token = c.for)
      BY <1>1, <1>2, <1>6 DEF CallbackSettles, Handles
    <2>2. next \in Sessions /\ (~swapped => next.token = s.token) /\ next.login /\ ~next.boot
      BY <1>2, <2>1 DEF WithInfo, Sessions
    <2>3. s' = next /\ badge' = BadgesAfter(next) /\ calls' = (calls \ {c}) \cup BadgeCalls(next)
          /\ UNCHANGED <<path, arriving, valid, issued, landed, swapped, strayed>>
      BY <1>6 DEF tokenVars
    <2> HIDE DEF next
    <2>4. BadgesKept(next)
      BY <1>1, <2>2, <2>3, BadgesAfterShape
    <2>5. ASSUME NEW d \in calls'
          PROVE  /\ d \in AnyCall
                 /\ d \in calls \/ (d.use = "badge" /\ d.token = next.token /\ d.for \in Users)
      BY <1>3, <2>2, <2>3, SentCalls
    <2>6. SessionTypeOK'
      BY <1>1, <1>6, <2>2, <2>3, <2>4, <2>5 DEF SessionTypeOK, Sessions, BadgesKept
    <2>7. CallShape' /\ BadgeCallsAreOurs' /\ BadgesAreTheirs'
      BY <1>1, <1>6, <2>2, <2>3, <2>4, <2>5
      DEF CallShape, BadgeCallsAreOurs, BadgesAreTheirs, BadgesKept
    <2>8. FreshOrWaiting'
      BY <1>6 DEF FreshOrWaiting
    <2>9. CallbackSettles'
      BY <1>1, <1>6, <2>1, <2>2, <2>3, <2>5 DEF CallbackSettles
    <2> QED BY <2>6, <2>7, <2>8, <2>9 DEF SessionInv
  <1>7. CASE /\ c.use = "ask" /\ c.for \notin issued
             /\ issued' = issued \cup {c.for} /\ valid' = valid \cup {c.for}
             /\ Become(WithToken(c.for), path,
                       (calls \ {c}) \cup {Call("impersonate", c.for, c.for)})
             /\ swapped' = TRUE /\ UNCHANGED <<redirecting, landed, fresh>>
    <2> DEFINE next == WithToken(c.for)
               sent == Call("impersonate", c.for, c.for)
    <2>1. c.for \in Tokens /\ (fresh \/ strayed)
      BY <1>1, <1>2, <1>7 DEF CallShape, FreshOrWaiting
    <2>2. next \in Sessions /\ ~next.boot
      BY <1>3, <2>1 DEF WithToken, Sessions
    <2>3. Waiting(calls) => Waiting((calls \ {c}) \cup {sent})
      BY <1>7 DEF Waiting
    <2>4. sent \in AnyCall /\ sent.use = "impersonate" /\ sent.for \in Tokens
      BY <2>1 DEF Call, AnyCall
    <2>5. Become(next, path, (calls \ {c}) \cup {sent})
      BY <1>7
    <2>6. /\ (calls \ {c}) \cup {sent} \subseteq AnyCall
          /\ \A d \in (calls \ {c}) \cup {sent} :
                d \in calls \/ (d.use = "impersonate" /\ d.for \in Tokens)
      BY <1>3, <2>4
    <2>7. valid' \subseteq issued' /\ issued' \subseteq Tokens /\ landed' \subseteq issued'
      BY <1>3, <1>7, <2>1
    <2> HIDE DEF next, sent
    <2> QED BY <1>3, <1>7, <2>1, <2>2, <2>3, <2>5, <2>6, <2>7, BecomeGood
  <1>8. CASE /\ c.use = "impersonate"
             /\ Load(WithInfo(c.for, UserOf[c.token]), "home", None)
             /\ UNCHANGED tokenVars
    <2>1. WithInfo(c.for, UserOf[c.token]) \in Sessions
      BY <1>1, <1>2, <1>8 DEF WithInfo, Sessions, CallShape
    <2>2. "home" \in Places
      BY DEF Places, Business
    <2> QED BY <1>3, <1>8, <2>1, <2>2, LoadGood DEF tokenVars
  <1> QED BY <1>4, <1>5, <1>6, <1>7, <1>8 DEF Answered

LEMMA FailsGood ==
    ASSUME SessionInv, NEW c, Fails(c)
    PROVE  SessionInv'
  <1>1. SessionTypeOK /\ CallShape /\ FreshOrWaiting /\ CallbackSettles
        /\ BadgeCallsAreOurs /\ BadgesAreTheirs
    BY DEF SessionInv
  <1>2. c \in calls /\ c \in AnyCall
        /\ UNCHANGED <<arriving, redirecting, tokenVars, historyVars>>
    BY <1>1 DEF Fails, SessionTypeOK
  <1>3. s \in Sessions /\ path \in Places /\ calls \subseteq AnyCall
        /\ valid \subseteq issued /\ issued \subseteq Tokens
        /\ badge \in [loadingFor : Users \cup {None}, loadedFor : Users \cup {None},
                      counts : Users \cup {None}]
    BY <1>1 DEF SessionTypeOK, Sessions, Places
  <1>4. CASE SessionAfterFailure(c) = s
    <2>1. /\ badge' = IF BadgeFailed(c) THEN [badge EXCEPT !.loadingFor = None] ELSE badge
          /\ calls' = calls \ {c} /\ UNCHANGED <<s, path>>
      BY <1>4 DEF Fails
    <2>2. /\ badge' \in [loadingFor : Users \cup {None}, loadedFor : Users \cup {None},
                         counts : Users \cup {None}]
          /\ ~s.login => badge' = NoBadges
          /\ badge'.loadedFor = badge.loadedFor /\ badge'.counts = badge.counts
      BY <1>1, <1>3, <2>1 DEF BadgesAreTheirs, NoBadges
    <2>3. c.use = "ask" => c.for \in Tokens /\ (c.token # None => fresh \/ strayed)
      BY <1>1, <1>2 DEF CallShape, FreshOrWaiting
    <2>4. Waiting(calls) => Waiting(calls') \/ s.token = None
      <3>1. CASE c.use = "callback" /\ c.alive
        BY <1>4, <3>1 DEF SessionAfterFailure, Handles, Cleared
      <3>2. CASE ~(c.use = "callback" /\ c.alive)
        BY <2>1, <3>2 DEF Waiting
      <3> QED BY <3>1, <3>2
    <2> QED BY <1>2, <1>3, <2>1, <2>2, <2>3, <2>4, CallsGood
  <1>5. CASE SessionAfterFailure(c) # s
    <2>1. SessionAfterFailure(c) = Cleared /\ c.use \in {"boot", "callback"} /\ Handles(c)
      BY <1>5 DEF SessionAfterFailure
    <2>2. /\ s' = Cleared /\ path' = Gate(path, Cleared)
          /\ badge' = NoBadges
          /\ calls' = Cleanup(calls \ {c}, Gate(path, Cleared))
      BY <1>5, <2>1 DEF Fails
    <2>3. path' \in Places /\ (path' = "callback" <=> path = "callback")
      BY <1>3, <2>2, GatePlaces DEF Cleared, Sessions
    <2>4. swapped \/ \A d \in calls \ {c} : ~(d.use = "callback" /\ d.alive) \/ path' # "callback"
      <3> SUFFICES ASSUME ~swapped, NEW d \in calls \ {c}, d.use = "callback", d.alive,
                          path' = "callback"
                   PROVE  FALSE
        OBVIOUS
      <3>1. d.token = s.token /\ d.for = s.token
        BY <1>1 DEF CallbackSettles
      <3>2. c.use = "callback" /\ c.alive
        BY <1>1, <2>1, <2>3 DEF CallbackSettles, Handles
      <3>3. c.token = s.token /\ c.for = s.token
        BY <1>1, <1>2, <3>2 DEF CallbackSettles
      <3>4. d \in AnyCall
        BY <1>3
      <3> QED BY <1>2, <3>1, <3>2, <3>3, <3>4 DEF AnyCall
    <2> QED BY <1>2, <2>2, <2>3, <2>4, EndGood
  <1> QED BY <1>4, <1>5

\* Going back to a callback page: the token is that of its address, and it waits for /me.
LEMMA RevisitGood ==
    ASSUME SessionInv, Revisit
    PROVE  SessionInv'
  <1>1. SessionTypeOK /\ CallShape /\ FreshOrWaiting /\ CallbackSettles
        /\ BadgeCallsAreOurs /\ BadgesAreTheirs
    BY DEF SessionInv
  <1>2. PICK t \in landed :
            /\ s' = WithToken(t) /\ path' = "callback" /\ arriving' = t
            /\ badge' = BadgesAfter(WithToken(t))
            /\ calls' = Cleanup(calls, "none") \cup BadgeCalls(WithToken(t))
                        \cup {Call("callback", t, t)}
            /\ swapped' = TRUE
            /\ UNCHANGED <<redirecting, valid, issued, landed, fresh, strayed>>
    BY DEF Revisit, tokenVars
  <1> DEFINE next == WithToken(t)
             sent == Call("callback", t, t)
  <1>3. t \in Tokens /\ s \in Sessions /\ calls \subseteq AnyCall
    BY <1>1 DEF SessionTypeOK, Sessions
  <1>4. next \in Sessions /\ next.login /\ ~next.boot
    BY <1>3 DEF WithToken, Sessions
  <1>5. sent \in AnyCall /\ sent.use = "callback" /\ sent.token = t /\ sent.for = t /\ sent.alive
    BY <1>3 DEF Call, AnyCall
  <1>6. s' = next /\ BadgesKept(next) /\ sent \in calls'
    BY <1>1, <1>2, <1>4, BadgesAfterShape
  <1> HIDE DEF next, sent
  <1>7. ASSUME NEW d \in calls'
        PROVE  /\ d \in AnyCall
               /\ \/ d = sent
                  \/ d.use = "badge" /\ d.for \in Users
                  \/ /\ \E c \in calls : d.use = c.use /\ d.token = c.token /\ d.for = c.for
                     /\ ~(d.use = "callback" /\ d.alive)
    <2>1. CASE d \in Cleanup(calls, "none")
      BY <1>3, <2>1, CleanupShape
    <2>2. CASE d \in BadgeCalls(next)
      BY <1>4, <2>2, SentCalls
    <2>3. CASE d = sent
      BY <1>5, <2>3
    <2> QED BY <1>2, <1>7, <2>1, <2>2, <2>3 DEF next, sent
  <1>8. SessionTypeOK'
    BY <1>1, <1>2, <1>3, <1>4, <1>6, <1>7 DEF SessionTypeOK, Sessions, BadgesKept
  <1>9. CallShape'
    BY <1>1, <1>3, <1>5, <1>7 DEF CallShape
  <1>10. FreshOrWaiting'
    <2>1. Waiting(calls')
      BY <1>5, <1>6 DEF Waiting
    <2> QED BY <1>1, <1>2, <1>5, <1>7, <2>1 DEF FreshOrWaiting
  <1>11. CallbackSettles'
    BY <1>2, <1>4, <1>5, <1>6, <1>7 DEF CallbackSettles
  <1>12. BadgeCallsAreOurs' /\ BadgesAreTheirs'
    BY <1>2, <1>4, <1>6 DEF BadgeCallsAreOurs, BadgesAreTheirs
  <1> QED BY <1>8, <1>9, <1>10, <1>11, <1>12 DEF SessionInv

LEMMA SessionStep ==
    ASSUME SessionInv, [SessionNext]_sessionVars
    PROVE  SessionInv'
  <1>1. SessionTypeOK /\ CallShape /\ FreshOrWaiting /\ CallbackSettles
        /\ BadgeCallsAreOurs /\ BadgesAreTheirs
    BY DEF SessionInv
  <1>2. s \in Sessions /\ path \in Places /\ calls \subseteq AnyCall
        /\ valid \subseteq issued /\ issued \subseteq Tokens /\ landed \subseteq issued
        /\ fresh \in BOOLEAN /\ swapped \in BOOLEAN /\ strayed \in BOOLEAN /\ redirecting \in BOOLEAN
        /\ badge \in [loadingFor : Users \cup {None}, loadedFor : Users \cup {None},
                      counts : Users \cup {None}]
    BY <1>1 DEF SessionTypeOK, Sessions, Places
  <1>3. CASE Reload
    <2>1. PICK p \in Business \cup {"login"} : Load(s, p, None)
      BY <1>3 DEF Reload
    <2>2. p \in Places /\ p # "callback"
      BY DEF Places, Business
    <2> QED BY <1>2, <1>3, <2>1, <2>2, LoadGood DEF Reload, tokenVars
  <1>4. CASE SsoReturns
    <2>1. PICK t \in (Tokens \ issued) \cup landed :
                /\ issued' = issued \cup {t} /\ landed' = landed \cup {t}
                /\ valid' = IF t \in issued THEN valid ELSE valid \cup {t}
                /\ Load(s, "callback", t)
      BY <1>4 DEF SsoReturns
    <2>2. "callback" \in Places /\ t \in Tokens /\ t # None
      BY <1>2, SessionAssumption DEF Places
    <2>3. valid' \subseteq issued' /\ issued' \subseteq Tokens /\ landed' \subseteq issued'
      BY <1>2, <2>1, <2>2
    <2> QED BY <1>2, <2>1, <2>2, <2>3, LoadGood
  <1>5. CASE Open
    <2>1. PICK p \in (Business \cup {"login"}) \ {path} : Become(s, p, calls)
      BY <1>5 DEF Open
    <2>2. p \in Places /\ p # "callback"
      BY DEF Places, Business
    <2>3. UNCHANGED <<redirecting, valid, issued, landed, fresh, swapped>>
      BY <1>5 DEF Open, tokenVars
    <2> QED BY <1>2, <2>1, <2>2, <2>3, BecomeGood
  <1>6. CASE Revisit \/ Redirect
    <2>1. CASE Revisit
      BY <2>1, RevisitGood
    <2>2. CASE Redirect
      <3>1. PICK p \in Business : Become(s, p, calls)
        BY <2>2 DEF Redirect
      <3>2. p \in Places /\ p # "callback"
        BY DEF Places, Business
      <3>3. UNCHANGED <<valid, issued, landed, fresh, swapped>> /\ redirecting' = FALSE
        BY <2>2 DEF Redirect, tokenVars
      <3> QED BY <1>2, <3>1, <3>2, <3>3, BecomeGood
    <2> QED BY <1>6, <2>1, <2>2
  <1>7. CASE LogOut
    <2>1. path # "callback" /\ Become(Cleared, path, calls)
          /\ UNCHANGED <<redirecting, valid, issued, landed, fresh, swapped>>
      BY <1>7 DEF LogOut, PageRendered, Business, tokenVars
    <2>2. Cleared \in Sessions /\ Cleared.token = None /\ ~Cleared.boot
      BY DEF Cleared, Sessions
    <2> QED BY <1>2, <2>1, <2>2, BecomeGood
  <1>8. CASE SyncUserInfo
    <2> DEFINE c == Call("sync", s.token, None)
    <2>1. c \in AnyCall /\ c.use = "sync"
      BY <1>2 DEF Call, AnyCall, Sessions
    <2>2. /\ path = "characters" /\ calls' = calls \cup {c}
          /\ UNCHANGED <<s, path, arriving, redirecting, badge, tokenVars, historyVars>>
      BY <1>8 DEF SyncUserInfo, Send
    <2> HIDE DEF c
    <2>3. ~s.login => badge' = NoBadges
      BY <1>1, <2>2 DEF BadgesAreTheirs
    <2>4. Waiting(calls) => Waiting(calls')
      BY <2>2 DEF Waiting
    <2> QED BY <1>2, <2>1, <2>2, <2>3, <2>4, CallsGood
  <1>9. CASE Impersonate
    <2>1. PICK t \in Tokens \ issued : Send(Call("ask", s.token, t))
      BY <1>9 DEF Impersonate
    <2> DEFINE c == Call("ask", s.token, t)
    <2>2. c \in AnyCall /\ c.use = "ask" /\ c.for = t /\ c.token = s.token
      BY <1>2 DEF Call, AnyCall, Sessions
    <2>3. /\ path = "users" /\ ~s.boot /\ calls' = calls \cup {c}
          /\ UNCHANGED <<s, path, arriving, redirecting, badge, tokenVars, historyVars>>
      BY <1>9, <2>1 DEF Impersonate, Send, PageRendered
    <2> HIDE DEF c
    <2>4. c.token # None => fresh \/ strayed
      BY <1>1, <2>2, <2>3 DEF FreshOrWaiting, CallbackSettles, Waiting
    <2>5. ~s.login => badge' = NoBadges
      BY <1>1, <2>3 DEF BadgesAreTheirs
    <2>6. Waiting(calls) => Waiting(calls')
      BY <2>3 DEF Waiting
    <2> QED BY <1>2, <2>2, <2>3, <2>4, <2>5, <2>6, CallsGood
  <1>10. ASSUME NEW c \in calls, Answer(c)
         PROVE  SessionInv'
    <2>1. CASE Answered(c)
      BY <2>1, AnsweredGood
    <2>2. CASE Fails(c)
      BY <2>2, FailsGood
    <2>3. CASE Unauthorized(c)
      BY <2>3, EndGood DEF Unauthorized, Places
    <2>4. CASE Ignored(c)
      <3>1. /\ c \in AnyCall /\ calls' = calls \ {c}
            /\ UNCHANGED <<s, path, arriving, redirecting, badge, tokenVars, historyVars>>
        BY <1>2, <2>4 DEF Ignored
      <3>2. ~s.login => badge' = NoBadges
        BY <1>1, <3>1 DEF BadgesAreTheirs
      <3>3. c.use = "ask" => c.for \in Tokens /\ (c.token # None => fresh \/ strayed)
        BY <1>1, <1>10 DEF CallShape, FreshOrWaiting
      <3>4. Waiting(calls) => Waiting(calls')
        BY <2>4, <3>1 DEF Ignored, Handles, Waiting
      <3> QED BY <1>2, <3>1, <3>2, <3>3, <3>4, CallsGood
    <2> QED BY <1>10, <2>1, <2>2, <2>3, <2>4 DEF Answer
  <1>11. CASE Expire
    <2>1. /\ UNCHANGED <<s, path, arriving, redirecting, calls, badge, issued, landed>>
          /\ UNCHANGED <<fresh, swapped, strayed>> /\ valid' \subseteq valid
      BY <1>11 DEF Expire, historyVars
    <2> QED BY <1>1, <2>1
        DEF SessionInv, SessionTypeOK, CallShape, FreshOrWaiting, CallbackSettles,
            BadgeCallsAreOurs, BadgesAreTheirs, Waiting
  <1>12. CASE UNCHANGED sessionVars
    BY <1>1, <1>12
    DEF SessionInv, SessionTypeOK, CallShape, FreshOrWaiting, CallbackSettles,
        BadgeCallsAreOurs, BadgesAreTheirs, Waiting, sessionVars, tokenVars, historyVars
  <1> QED BY <1>3, <1>4, <1>5, <1>6, <1>7, <1>8, <1>9, <1>10, <1>11, <1>12 DEF SessionNext

LEMMA SessionStart == SessionInit => SessionInv
  <1> SUFFICES ASSUME SessionInit PROVE SessionInv
    OBVIOUS
  <1>1. /\ s = Cleared /\ path = "login" /\ arriving = None /\ calls = {} /\ badge = NoBadges
        /\ redirecting = FALSE /\ valid = {} /\ issued = {} /\ landed = {}
        /\ fresh = FALSE /\ swapped = FALSE /\ strayed = FALSE
    BY DEF SessionInit
  <1>2. Cleared \in Sessions /\ Cleared.token = None /\ ~Cleared.boot
    BY DEF Cleared, Sessions
  <1>3. NoBadges \in [loadingFor : Users \cup {None}, loadedFor : Users \cup {None},
                      counts : Users \cup {None}]
    BY DEF NoBadges
  <1>4. SessionTypeOK
    BY <1>1, <1>2, <1>3 DEF SessionTypeOK, Sessions
  <1>5. CallShape /\ FreshOrWaiting /\ CallbackSettles /\ BadgeCallsAreOurs /\ BadgesAreTheirs
    BY <1>1, <1>2 DEF CallShape, FreshOrWaiting, CallbackSettles, BadgeCallsAreOurs, BadgesAreTheirs
  <1> QED BY <1>4, <1>5 DEF SessionInv

LEMMA SessionAlways == SessionSpec => []SessionInv
  BY SessionStart, SessionStep, PTL DEF SessionSpec

\* The session, its requests and the badges keep their shape (session-store.ts, badge-store.ts,
\* http-client.ts).
THEOREM SessionTypes == SessionSpec => []SessionTypeOK
  <1>1. SessionInv => SessionTypeOK
    BY DEF SessionInv
  <1> QED BY <1>1, SessionAlways, PTL

\* Whatever the order of answers, SSO returns, impersonations, reloads and moves in the app: with a
\* token no page is rendered from persisted roles before /me answered, unless the callback page
\* was left while it waited (session-store.ts:99, session-bootstrap.tsx, RouteAccessGate).
THEOREM PagesWaitForMe == SessionSpec => []FreshUnlessStrayed
  <1>1. SessionInv => FreshUnlessStrayed
    BY DEF SessionInv, FreshOrWaiting, CallbackSettles, Waiting, FreshUnlessStrayed, PageRendered,
           Business
  <1> QED BY <1>1, SessionAlways, PTL

\* Badges end with the session, and until an impersonation replaces the token of the running app
\* those shown are of its user, for any number of tokens and requests (badge-store.ts:31).
THEOREM BadgesOfTheSession == SessionSpec => []BadgesAreTheirs
  <1>1. SessionInv => BadgesAreTheirs
    BY DEF SessionInv
  <1> QED BY <1>1, SessionAlways, PTL

-----------------------------------------------------------------------------
(* Folds over a sequence.  The induction is by least counterexample, since *)
(* no prover here takes an induction theorem with an operator in it.       *)

LEMMA LeastNumber ==
    ASSUME NEW T \in SUBSET Nat, T # {}
    PROVE  \E n \in T : \A m \in T : n <= m
  <1>1. PICK n \in T : \A m \in T : <<m, n>> \notin OpToRel(<, Nat)
    BY WFMin, NatLessThanWellFounded
  <1>2. \A m \in T : ~(m < n)
    BY <1>1 DEF OpToRel
  <1> QED BY <1>2

LEMMA MaxIs ==
    ASSUME NEW k \in Nat, NEW T \in SUBSET (1 .. k), k \in T
    PROVE  Max(T) = k
  <1>1. \A x \in T : k >= x
    OBVIOUS
  <1>2. \A x \in T : (\A y \in T : x >= y) => x = k
    OBVIOUS
  <1> QED BY <1>1, <1>2 DEF Max

\* What holds of a fold of nothing and is passed on by each element holds of every fold.
LEMMA FoldsInduction ==
    ASSUME NEW n \in Nat, NEW P, NEW g, g[{}] \in P[{}],
           \A T \in SUBSET (1 .. n) : \A k \in 1 .. n :
               k \in T /\ T \in SUBSET (1 .. k) /\ g[T \ {k}] \in P[T \ {k}] => g[T] \in P[T]
    PROVE  \A T \in SUBSET (1 .. n) : g[T] \in P[T]
  <1> DEFINE Good(k) == \A T \in SUBSET (1 .. k) : g[T] \in P[T]
             Bad == {k \in 0 .. n : ~Good(k)}
  <1>1. Bad = {}
    <2> SUFFICES ASSUME Bad # {} PROVE FALSE
      OBVIOUS
    <2>0. Bad \in SUBSET Nat
      OBVIOUS
    <2>1. PICK k \in Bad : \A m \in Bad : k <= m
      <3> HIDE DEF Bad
      <3> QED BY <2>0, LeastNumber
    <2>2. k # 0
      <3>1. \A T \in SUBSET (1 .. 0) : T = {}
        OBVIOUS
      <3> QED BY <3>1
    <2>3. k \in 1 .. n /\ k - 1 \in 0 .. n
      BY <2>2
    <2>4. Good(k - 1)
      <3>1. k - 1 \notin Bad
        <4> HIDE DEF Bad
        <4> QED BY <2>0, <2>1
      <3> HIDE DEF Good
      <3> QED BY <2>3, <3>1
    <2>5. ASSUME NEW T \in SUBSET (1 .. k) PROVE g[T] \in P[T]
      <3>1. CASE k \in T
        <4>1. T \ {k} \in SUBSET (1 .. (k - 1)) /\ T \in SUBSET (1 .. n)
          BY <2>3
        <4> QED BY <2>3, <2>4, <3>1, <4>1
      <3>2. CASE k \notin T
        <4>1. T \in SUBSET (1 .. (k - 1))
          BY <2>3, <3>2
        <4> QED BY <2>4, <4>1
      <3> QED BY <3>1, <3>2
    <2> QED BY <2>5
  <1>2. Good(n)
    BY <1>1
  <1> QED BY <1>2

FoldOf(g, n, base, step) ==
    g = [T \in SUBSET (1 .. n) |-> IF T = {} THEN base ELSE step[Max(T)][g[T \ {Max(T)}]]]

\* The function that FoldLeft chooses exists.
LEMMA FoldExists ==
    ASSUME NEW n \in Nat, NEW X, NEW base \in X, NEW step \in [1 .. n -> [X -> X]]
    PROVE  \E g \in [SUBSET (1 .. n) -> X] : FoldOf(g, n, base, step)
  <1> DEFINE Has(k) == \E g \in [SUBSET (1 .. k) -> X] : FoldOf(g, k, base, step)
             Bad == {k \in 0 .. n : ~Has(k)}
  <1>1. Bad = {}
    <2> SUFFICES ASSUME Bad # {} PROVE FALSE
      OBVIOUS
    <2>0. Bad \in SUBSET Nat
      OBVIOUS
    <2>1. PICK k \in Bad : \A m \in Bad : k <= m
      <3> HIDE DEF Bad
      <3> QED BY <2>0, LeastNumber
    <2>2. k # 0
      <3> DEFINE g == [T \in SUBSET (1 .. 0) |-> base]
      <3>1. \A T \in SUBSET (1 .. 0) : T = {}
        OBVIOUS
      <3>2. g \in [SUBSET (1 .. 0) -> X]
        OBVIOUS
      <3>3. FoldOf(g, 0, base, step)
        BY <3>1 DEF FoldOf
      <3> QED BY <3>2, <3>3
    <2>3. k \in 1 .. n /\ k - 1 \in 0 .. n
      BY <2>2
    <2>4. Has(k - 1)
      <3>1. k - 1 \notin Bad
        <4> HIDE DEF Bad
        <4> QED BY <2>0, <2>1
      <3> HIDE DEF Has
      <3> QED BY <2>3, <3>1
    <2>5. PICK g \in [SUBSET (1 .. (k - 1)) -> X] : FoldOf(g, k - 1, base, step)
      BY <2>4
    <2> DEFINE h == [T \in SUBSET (1 .. k) |-> IF k \in T THEN step[k][g[T \ {k}]] ELSE g[T]]
    <2>6. ASSUME NEW T \in SUBSET (1 .. k)
          PROVE  /\ k \in T => T \ {k} \in SUBSET (1 .. (k - 1))
                 /\ k \notin T => T \in SUBSET (1 .. (k - 1))
      BY <2>3
    <2>7. h \in [SUBSET (1 .. k) -> X]
      <3>1. ASSUME NEW T \in SUBSET (1 .. k)
            PROVE  (IF k \in T THEN step[k][g[T \ {k}]] ELSE g[T]) \in X
        BY <2>3, <2>6
      <3> QED BY <3>1
    <2>8. ASSUME NEW T \in SUBSET (1 .. k)
          PROVE  h[T] = IF T = {} THEN base ELSE step[Max(T)][h[T \ {Max(T)}]]
      <3>1. CASE k \in T
        <4>1. Max(T) = k /\ T # {}
          BY <2>3, <3>1, MaxIs
        <4>2. T \ {k} \in SUBSET (1 .. k) /\ k \notin T \ {k}
          OBVIOUS
        <4>3. h[T \ {k}] = g[T \ {k}]
          BY <4>2
        <4> QED BY <3>1, <4>1, <4>3
      <3>2. CASE k \notin T
        <4>1. T \in SUBSET (1 .. (k - 1))
          BY <2>6, <3>2
        <4>2. h[T] = g[T]
          BY <3>2
        <4>3. g[T] = IF T = {} THEN base ELSE step[Max(T)][g[T \ {Max(T)}]]
          BY <2>5, <4>1 DEF FoldOf
        <4>4. k \notin T \ {Max(T)} /\ T \ {Max(T)} \in SUBSET (1 .. k)
          BY <3>2
        <4>5. h[T \ {Max(T)}] = g[T \ {Max(T)}]
          BY <4>4
        <4> HIDE DEF h
        <4> QED BY <4>2, <4>3, <4>5
      <3> QED BY <3>1, <3>2
    <2>9. FoldOf(h, k, base, step)
      <3>1. h = [T \in SUBSET (1 .. k) |-> h[T]]
        OBVIOUS
      <3> HIDE DEF h
      <3> QED BY <2>8, <3>1 DEF FoldOf
    <2> HIDE DEF h
    <2>10. Has(k)
      BY <2>7, <2>9
    <2> QED BY <2>10
  <1>2. Has(n)
    <2> HIDE DEF Has
    <2> QED BY <1>1
  <1> QED BY <1>2

-----------------------------------------------------------------------------
(* The tab bar: what its operators on sequences of tabs return *)

OneTabPerName(o) ==
    \A i, j \in 1 .. Len(o) : NameOf[o[i].path] = NameOf[o[j].path] => i = j

LEMMA MinIn ==
    ASSUME NEW T \in SUBSET Nat, T # {}
    PROVE  Min(T) \in T
  <1>1. \E n \in T : \A m \in T : n <= m
    BY LeastNumber
  <1> QED BY <1>1 DEF Min

LEMMA ToSetIs ==
    ASSUME NEW S, NEW o \in Seq(S)
    PROVE  /\ ToSet(o) = {o[i] : i \in 1 .. Len(o)} /\ ToSet(o) \subseteq S
           /\ o = <<>> <=> ToSet(o) = {}
           /\ Len(o) \in Nat
  <1>1. DOMAIN o = 1 .. Len(o) /\ Len(o) \in Nat /\ \A i \in 1 .. Len(o) : o[i] \in S
    OBVIOUS
  <1>2. o = <<>> <=> Len(o) = 0
    OBVIOUS
  <1>3. ToSet(o) = {o[i] : i \in 1 .. Len(o)}
    BY <1>1 DEF ToSet
  <1>4. Len(o) # 0 => o[1] \in ToSet(o)
    BY <1>1, <1>3
  <1>5. Len(o) = 0 => ToSet(o) = {}
    BY <1>3
  <1> QED BY <1>1, <1>2, <1>3, <1>4, <1>5

LEMMA IndexOfIs ==
    ASSUME NEW ts, ts.opened \in Seq(Tab), NEW p
    PROVE  /\ IndexOf(ts, p) \in 0 .. Len(ts.opened)
           /\ IndexOf(ts, p) # 0 => ts.opened[IndexOf(ts, p)].path = p
           /\ IndexOf(ts, p) = 0 => \A i \in 1 .. Len(ts.opened) : ts.opened[i].path # p
  <1> DEFINE I == {i \in 1 .. Len(ts.opened) : ts.opened[i].path = p}
  <1>1. IndexOf(ts, p) = IF I # {} THEN Min(I) ELSE 0
    BY DEF IndexOf, SelectInSeq
  <1>2. Len(ts.opened) \in Nat
    OBVIOUS
  <1>3. I # {} => Min(I) \in I
    <2>1. I \in SUBSET Nat
      OBVIOUS
    <2> HIDE DEF I
    <2> QED BY <2>1, MinIn
  <1> QED BY <1>1, <1>2, <1>3

LEMMA IndexOfNameIs ==
    ASSUME NEW ts, ts.opened \in Seq(Tab), NEW n
    PROVE  /\ IndexOfName(ts, n) \in 0 .. Len(ts.opened)
           /\ IndexOfName(ts, n) # 0 => NameOf[ts.opened[IndexOfName(ts, n)].path] = n
           /\ IndexOfName(ts, n) = 0 => \A i \in 1 .. Len(ts.opened) : NameOf[ts.opened[i].path] # n
  <1> DEFINE I == {i \in 1 .. Len(ts.opened) : NameOf[ts.opened[i].path] = n}
  <1>1. IndexOfName(ts, n) = IF I # {} THEN Min(I) ELSE 0
    BY DEF IndexOfName, SelectInSeq
  <1>2. Len(ts.opened) \in Nat
    OBVIOUS
  <1>3. I # {} => Min(I) \in I
    <2>1. I \in SUBSET Nat
      OBVIOUS
    <2> HIDE DEF I
    <2> QED BY <2>1, MinIn
  <1>4. CASE I = {}
    <2>1. \A i \in 1 .. Len(ts.opened) : NameOf[ts.opened[i].path] # n
      BY <1>4
    <2>2. IndexOfName(ts, n) = 0
      <3> HIDE DEF I
      <3> QED BY <1>1, <1>4
    <2> QED BY <1>2, <2>1, <2>2
  <1>5. CASE I # {}
    <2>1. IndexOfName(ts, n) \in I
      BY <1>1, <1>3, <1>5
    <2>2. IndexOfName(ts, n) \in 1 .. Len(ts.opened)
          /\ NameOf[ts.opened[IndexOfName(ts, n)].path] = n
      BY <2>1
    <2> QED BY <1>2, <2>2
  <1> QED BY <1>4, <1>5

LEMMA FixedFrontIs ==
    ASSUME NEW o \in Seq(Tab)
    PROVE  FixedFront(o) \in 1 .. Len(o) + 1
  <1> DEFINE I == {i \in 1 .. Len(o) : ~o[i].fixed}
             k == SelectInSeq(o, LAMBDA t : ~t.fixed)
  <1>1. k = IF I # {} THEN Min(I) ELSE 0
    BY DEF SelectInSeq
  <1>2. Len(o) \in Nat
    OBVIOUS
  <1>3. I # {} => Min(I) \in I
    <2>1. I \in SUBSET Nat
      OBVIOUS
    <2> HIDE DEF I
    <2> QED BY <2>1, MinIn
  <1>4. k \in 0 .. Len(o)
    BY <1>1, <1>2, <1>3
  <1>5. FixedFront(o) = IF k = 0 THEN Len(o) + 1 ELSE k
    BY DEF FixedFront
  <1> HIDE DEF k
  <1> QED BY <1>2, <1>4, <1>5

\* One tab in the place of another, behind the last, at a place, and away from its place.

LEMMA ReplaceTab ==
    ASSUME NEW o \in Seq(Tab), OneTabPerName(o), NEW i \in 1 .. Len(o), NEW tab \in Tab,
           NameOf[o[i].path] = NameOf[tab.path]
    PROVE  LET r == [o EXCEPT ![i] = tab] IN
           /\ r \in Seq(Tab) /\ OneTabPerName(r)
           /\ ToSet(r) = {tab} \cup {t \in ToSet(o) : NameOf[t.path] # NameOf[tab.path]}
  <1> DEFINE r == [o EXCEPT ![i] = tab]
  <1>1. r \in Seq(Tab) /\ Len(r) = Len(o) /\ Len(o) \in Nat
    OBVIOUS
  <1>2. \A j \in 1 .. Len(o) : r[j] = IF j = i THEN tab ELSE o[j]
    OBVIOUS
  <1> HIDE DEF r
  <1>3. OneTabPerName(r)
    BY <1>1, <1>2 DEF OneTabPerName
  <1>4. ToSet(r) = {r[j] : j \in 1 .. Len(o)} /\ ToSet(o) = {o[j] : j \in 1 .. Len(o)}
    BY <1>1, ToSetIs
  <1>5. ToSet(r) = {tab} \cup {t \in ToSet(o) : NameOf[t.path] # NameOf[tab.path]}
    BY <1>2, <1>4 DEF OneTabPerName
  <1> QED BY <1>1, <1>3, <1>5 DEF r

LEMMA AppendTab ==
    ASSUME NEW o \in Seq(Tab), OneTabPerName(o), NEW tab \in Tab,
           \A t \in ToSet(o) : NameOf[t.path] # NameOf[tab.path]
    PROVE  /\ Append(o, tab) \in Seq(Tab) /\ OneTabPerName(Append(o, tab))
           /\ ToSet(Append(o, tab)) = {tab} \cup ToSet(o)
  <1> DEFINE r == Append(o, tab)
  <1>1. r \in Seq(Tab) /\ Len(r) = Len(o) + 1 /\ Len(o) \in Nat
    OBVIOUS
  <1>2. \A j \in 1 .. Len(o) + 1 : r[j] = IF j = Len(o) + 1 THEN tab ELSE o[j]
    OBVIOUS
  <1> HIDE DEF r
  <1>4. ToSet(r) = {r[j] : j \in 1 .. Len(o) + 1} /\ ToSet(o) = {o[j] : j \in 1 .. Len(o)}
    BY <1>1, ToSetIs
  <1>3. OneTabPerName(r)
    BY <1>1, <1>2, <1>4 DEF OneTabPerName
  <1>5. ToSet(r) = {tab} \cup ToSet(o)
    BY <1>1, <1>2, <1>4
  <1> QED BY <1>1, <1>3, <1>5 DEF r

LEMMA JoinTabs ==
    ASSUME NEW a \in Seq(Tab), NEW b \in Seq(Tab)
    PROVE  /\ a \o b \in Seq(Tab) /\ Len(a \o b) = Len(a) + Len(b)
           /\ \A j \in 1 .. Len(a) + Len(b) :
                 (a \o b)[j] = IF j <= Len(a) THEN a[j] ELSE b[j - Len(a)]
  BY ConcatProperties

LEMMA InsertTab ==
    ASSUME NEW o \in Seq(Tab), OneTabPerName(o), NEW i \in 1 .. Len(o) + 1, NEW tab \in Tab,
           \A t \in ToSet(o) : NameOf[t.path] # NameOf[tab.path]
    PROVE  /\ InsertAt(o, i, tab) \in Seq(Tab) /\ OneTabPerName(InsertAt(o, i, tab))
           /\ ToSet(InsertAt(o, i, tab)) = {tab} \cup ToSet(o)
  <1> DEFINE r == InsertAt(o, i, tab)
             front == SubSeq(o, 1, i - 1)
             back == SubSeq(o, i, Len(o))
  <1>0. Len(o) \in Nat /\ i \in Int
    OBVIOUS
  <1>1. /\ front \in Seq(Tab) /\ Len(front) = i - 1 /\ \A j \in 1 .. i - 1 : front[j] = o[j]
        /\ back \in Seq(Tab) /\ Len(back) = Len(o) - i + 1
        /\ \A j \in 1 .. Len(o) - i + 1 : back[j] = o[i + j - 1]
    BY <1>0
  <1>2. r = front \o <<tab>> \o back
    BY DEF InsertAt
  <1> HIDE DEF r, front, back
  <1> DEFINE most == front \o <<tab>>
  <1>8. /\ most \in Seq(Tab) /\ Len(most) = i /\ \A j \in 1 .. i - 1 : most[j] = front[j]
        /\ most[i] = tab
    <2>1. <<tab>> \in Seq(Tab) /\ Len(<<tab>>) = 1 /\ <<tab>>[1] = tab
      OBVIOUS
    <2> QED BY <1>0, <1>1, <2>1, JoinTabs
  <1> HIDE DEF most
  <1>9. r = most \o back
    BY <1>2 DEF most
  <1>3. r \in Seq(Tab) /\ Len(r) = Len(o) + 1
    <2>1. r \in Seq(Tab) /\ Len(r) = Len(most) + Len(back)
      BY <1>1, <1>8, <1>9, JoinTabs
    <2> QED BY <1>0, <1>1, <1>8, <2>1
  <1>10. ASSUME NEW j \in 1 .. Len(o) + 1
         PROVE  r[j] = IF j <= i THEN most[j] ELSE back[j - i]
    BY <1>0, <1>1, <1>8, <1>9, <1>3, JoinTabs
  <1>4. ASSUME NEW j \in 1 .. Len(o) + 1
        PROVE  r[j] = IF j < i THEN o[j] ELSE IF j = i THEN tab ELSE o[j - 1]
    <2>1. CASE j < i
      BY <1>0, <1>1, <1>8, <1>10, <2>1
    <2>2. CASE j = i
      BY <1>0, <1>8, <1>10, <2>2
    <2>3. CASE j > i
      <3>1. j - i \in 1 .. Len(o) - i + 1 /\ i + (j - i) - 1 = j - 1
        BY <1>0, <2>3
      <3> QED BY <1>0, <1>1, <1>10, <2>3, <3>1
    <2> QED BY <1>0, <2>1, <2>2, <2>3
  <1>5. ToSet(r) = {r[j] : j \in 1 .. Len(o) + 1} /\ ToSet(o) = {o[j] : j \in 1 .. Len(o)}
    BY <1>3, ToSetIs
  <1>6. OneTabPerName(r)
    <2> SUFFICES ASSUME NEW j \in 1 .. Len(o) + 1, NEW k \in 1 .. Len(o) + 1,
                        NameOf[r[j].path] = NameOf[r[k].path]
                 PROVE  j = k
      BY <1>3 DEF OneTabPerName
    <2> DEFINE old(m) == IF m < i THEN m ELSE m - 1
    <2>1. ASSUME NEW m \in 1 .. Len(o) + 1, m # i
          PROVE  old(m) \in 1 .. Len(o) /\ r[m] = o[old(m)] /\ r[m] \in ToSet(o)
      BY <1>0, <1>4, <1>5, <2>1
    <2>2. r[i] = tab
      BY <1>0, <1>4
    <2>3. CASE j # i /\ k # i
      <3>1. old(j) = old(k)
        <4> HIDE DEF old
        <4> QED BY <2>1, <2>3 DEF OneTabPerName
      <3> QED BY <1>0, <2>3, <3>1
    <2> HIDE DEF old
    <2>4. CASE j = i \/ k = i
      BY <2>1, <2>2, <2>4
    <2> QED BY <2>3, <2>4
  <1>7. ToSet(r) = {tab} \cup ToSet(o)
    <2>1. \A j \in 1 .. Len(o) : o[j] \in ToSet(r)
      <3> SUFFICES ASSUME NEW j \in 1 .. Len(o) PROVE o[j] \in ToSet(r)
        OBVIOUS
      <3>1. CASE j < i
        BY <1>0, <1>4, <1>5, <3>1
      <3>2. CASE ~(j < i)
        <4>1. j + 1 \in 1 .. Len(o) + 1 /\ r[j + 1] = o[j]
          BY <1>0, <1>4, <3>2
        <4> QED BY <1>5, <4>1
      <3> QED BY <3>1, <3>2
    <2>2. tab \in ToSet(r)
      BY <1>0, <1>4, <1>5
    <2>3. \A j \in 1 .. Len(o) + 1 : r[j] \in {tab} \cup ToSet(o)
      BY <1>0, <1>4, <1>5
    <2> QED BY <1>5, <2>1, <2>2, <2>3
  <1> QED BY <1>3, <1>6, <1>7 DEF r

LEMMA RemoveTabAt ==
    ASSUME NEW o \in Seq(Tab), OneTabPerName(o), NEW i \in 1 .. Len(o)
    PROVE  /\ RemoveAt(o, i) \in Seq(Tab) /\ OneTabPerName(RemoveAt(o, i))
           /\ ToSet(RemoveAt(o, i)) = {t \in ToSet(o) : NameOf[t.path] # NameOf[o[i].path]}
  <1> DEFINE r == RemoveAt(o, i)
             front == SubSeq(o, 1, i - 1)
             back == SubSeq(o, i + 1, Len(o))
  <1>0. Len(o) \in Nat /\ i \in Int
    OBVIOUS
  <1>1. /\ front \in Seq(Tab) /\ Len(front) = i - 1 /\ \A j \in 1 .. i - 1 : front[j] = o[j]
        /\ back \in Seq(Tab) /\ Len(back) = Len(o) - i
        /\ \A j \in 1 .. Len(o) - i : back[j] = o[i + j]
    BY <1>0
  <1>2. r = front \o back
    BY DEF RemoveAt
  <1> HIDE DEF r, front, back
  <1>3. r \in Seq(Tab) /\ Len(r) = Len(o) - 1
    <2>1. r \in Seq(Tab) /\ Len(r) = Len(front) + Len(back)
      BY <1>1, <1>2, JoinTabs
    <2> QED BY <1>0, <1>1, <2>1
  <1>8. ASSUME NEW j \in 1 .. Len(o) - 1
        PROVE  r[j] = IF j <= i - 1 THEN front[j] ELSE back[j - (i - 1)]
    BY <1>0, <1>1, <1>2, <1>3, JoinTabs
  <1>4. ASSUME NEW j \in 1 .. Len(o) - 1
        PROVE  r[j] = IF j < i THEN o[j] ELSE o[j + 1]
    <2>1. CASE j < i
      BY <1>0, <1>1, <1>8, <2>1
    <2>2. CASE j >= i
      <3>1. j - (i - 1) \in 1 .. Len(o) - i /\ i + (j - (i - 1)) = j + 1
        BY <1>0, <2>2
      <3> QED BY <1>0, <1>1, <1>8, <2>2, <3>1
    <2> QED BY <1>0, <2>1, <2>2
  <1>5. ToSet(r) = {r[j] : j \in 1 .. Len(o) - 1} /\ ToSet(o) = {o[j] : j \in 1 .. Len(o)}
    BY <1>3, ToSetIs
  <1> DEFINE old(m) == IF m < i THEN m ELSE m + 1
  <1>9. ASSUME NEW m \in 1 .. Len(o) - 1
        PROVE  old(m) \in 1 .. Len(o) /\ old(m) # i /\ r[m] = o[old(m)]
    BY <1>0, <1>4
  <1>6. OneTabPerName(r)
    <2> SUFFICES ASSUME NEW j \in 1 .. Len(o) - 1, NEW k \in 1 .. Len(o) - 1,
                        NameOf[r[j].path] = NameOf[r[k].path]
                 PROVE  j = k
      BY <1>3 DEF OneTabPerName
    <2>1. old(j) = old(k)
      <3> HIDE DEF old
      <3> QED BY <1>9 DEF OneTabPerName
    <2> QED BY <1>0, <2>1
  <1>7. ASSUME NEW t
        PROVE  t \in ToSet(r) <=> t \in ToSet(o) /\ NameOf[t.path] # NameOf[o[i].path]
    <2>1. ASSUME NEW j \in 1 .. Len(o) - 1
          PROVE  r[j] \in ToSet(o) /\ NameOf[r[j].path] # NameOf[o[i].path]
      <3> HIDE DEF old
      <3> QED BY <1>5, <1>9 DEF OneTabPerName
    <2>2. ASSUME NEW j \in 1 .. Len(o), j # i
          PROVE  o[j] \in ToSet(r)
      <3>1. CASE j < i
        BY <1>0, <1>4, <1>5, <3>1
      <3>2. CASE j > i
        <4>1. j - 1 \in 1 .. Len(o) - 1 /\ r[j - 1] = o[j]
          BY <1>0, <1>4, <3>2
        <4> QED BY <1>5, <4>1
      <3> QED BY <1>0, <2>2, <3>1, <3>2
    <2> QED BY <1>5, <2>1, <2>2
  <1> QED BY <1>3, <1>6, <1>7 DEF r

LEMMA MaxIn ==
    ASSUME NEW n \in Nat, NEW T \in SUBSET (1 .. n), T # {}
    PROVE  Max(T) \in T
  <1> DEFINE D == {n - x : x \in T}
  <1>1. D \in SUBSET Nat /\ D # {}
    <2>1. \A x \in T : n - x \in Nat
      OBVIOUS
    <2> QED BY <2>1
  <1>2. \E d \in D : \A e \in D : d <= e
    <2> HIDE DEF D
    <2> QED BY <1>1, LeastNumber
  <1>3. PICK x \in T : \A y \in T : n - x <= n - y
    BY <1>2
  <1>4. x \in T /\ \A y \in T : x >= y
    BY <1>3
  <1> QED BY <1>4 DEF Max

IsWithout(g, o, gone) ==
    g = [T \in SUBSET (1 .. Len(o)) |->
            IF T = {} THEN <<>>
            ELSE IF o[Max(T)] \in gone THEN g[T \ {Max(T)}] ELSE Append(g[T \ {Max(T)}], o[Max(T)])]

LEMMA WithoutExists ==
    ASSUME NEW o \in Seq(Tab), NEW gone
    PROVE  \E g : IsWithout(g, o, gone)
  <1> DEFINE n == Len(o)
             step == [i \in 1 .. n |-> [x \in Seq(Tab) |-> IF o[i] \in gone THEN x ELSE Append(x, o[i])]]
  <1>1. n \in Nat /\ <<>> \in Seq(Tab)
    OBVIOUS
  <1>2. step \in [1 .. n -> [Seq(Tab) -> Seq(Tab)]]
    OBVIOUS
  <1>3. PICK g \in [SUBSET (1 .. n) -> Seq(Tab)] : FoldOf(g, n, <<>>, step)
    <2> HIDE DEF n, step
    <2> QED BY <1>1, <1>2, FoldExists
  <1>4. ASSUME NEW T \in SUBSET (1 .. n), T # {}
        PROVE  g[T] = IF o[Max(T)] \in gone THEN g[T \ {Max(T)}] ELSE Append(g[T \ {Max(T)}], o[Max(T)])
    <2>1. g[T] = step[Max(T)][g[T \ {Max(T)}]]
      <3> HIDE DEF step, n
      <3> QED BY <1>3, <1>4 DEF FoldOf
    <2>2. Max(T) \in 1 .. n
      <3> HIDE DEF step, n
      <3> QED BY <1>1, <1>4, MaxIn
    <2>3. T \ {Max(T)} \in SUBSET (1 .. n)
      OBVIOUS
    <2>4. g[T \ {Max(T)}] \in Seq(Tab)
      BY <2>3
    <2> QED BY <2>1, <2>2, <2>4
  <1>5. g[{}] = <<>>
    <2> HIDE DEF step, n
    <2> QED BY <1>3 DEF FoldOf
  <1>6. g = [T \in SUBSET (1 .. n) |-> g[T]]
    OBVIOUS
  <1> QED BY <1>4, <1>5, <1>6 DEF IsWithout

\* The tabs that are left: all but those that go, each once.
LEMMA WithoutTabs ==
    ASSUME NEW o \in Seq(Tab), OneTabPerName(o), NEW gone
    PROVE  /\ Without(o, gone) \in Seq(Tab) /\ OneTabPerName(Without(o, gone))
           /\ ToSet(Without(o, gone)) = ToSet(o) \ gone
  <1> DEFINE n == Len(o)
             g == CHOOSE h : IsWithout(h, o, gone)
             Left(T) == {x \in Seq(Tab) : /\ OneTabPerName(x)
                                          /\ ToSet(x) = {o[i] : i \in T} \ gone}
             P == [T \in SUBSET (1 .. n) |-> Left(T)]
  <1>1. IsWithout(g, o, gone)
    BY WithoutExists
  <1>2. DOMAIN o = 1 .. n /\ n \in Nat
    OBVIOUS
  <1>3. Without(o, gone) = g[1 .. n]
    BY <1>2 DEF Without, FoldLeft, MapThenFoldSet, IsWithout
  <1> HIDE DEF g
  <1>4. g[{}] \in P[{}]
    <2>1. g[{}] = <<>>
      BY <1>1 DEF IsWithout
    <2>2. <<>> \in Seq(Tab) /\ Len(<<>>) = 0
      OBVIOUS
    <2>3. OneTabPerName(<<>>)
      BY <2>2 DEF OneTabPerName
    <2>4. ToSet(<<>>) = {}
      BY <2>2, ToSetIs
    <2> QED BY <2>1, <2>2, <2>3, <2>4
  <1>5. ASSUME NEW T \in SUBSET (1 .. n), NEW k \in 1 .. n, k \in T, T \in SUBSET (1 .. k),
               g[T \ {k}] \in P[T \ {k}]
        PROVE  g[T] \in P[T]
    <2> DEFINE R == T \ {k}
               x == g[R]
    <2>1. Max(T) = k
      BY <1>5, MaxIs
    <2>2. g[T] = IF o[k] \in gone THEN x ELSE Append(x, o[k])
      BY <1>1, <1>5, <2>1 DEF IsWithout
    <2>3. R \in SUBSET (1 .. n) /\ k \notin R /\ T = R \cup {k}
      BY <1>5
    <2>4. x \in Seq(Tab) /\ OneTabPerName(x) /\ ToSet(x) = {o[i] : i \in R} \ gone
      BY <1>5, <2>3
    <2> HIDE DEF x, R
    <2>5. {o[i] : i \in T} = {o[i] : i \in R} \cup {o[k]}
      BY <2>3
    <2>6. CASE o[k] \in gone
      BY <2>2, <2>4, <2>5, <2>6
    <2>7. CASE o[k] \notin gone
      <3>1. o[k] \in Tab
        OBVIOUS
      <3>2. \A t \in ToSet(x) : NameOf[t.path] # NameOf[o[k].path]
        BY <2>3, <2>4 DEF OneTabPerName
      <3>3. /\ Append(x, o[k]) \in Seq(Tab) /\ OneTabPerName(Append(x, o[k]))
            /\ ToSet(Append(x, o[k])) = {o[k]} \cup ToSet(x)
        BY <2>4, <3>1, <3>2, AppendTab
      <3>4. ToSet(Append(x, o[k])) = {o[i] : i \in T} \ gone
        BY <2>4, <2>5, <2>7, <3>3
      <3> QED BY <2>2, <2>7, <3>3, <3>4
    <2> QED BY <2>6, <2>7
  <1>6. g[1 .. n] \in P[1 .. n]
    <2>1. \A T \in SUBSET (1 .. n) : g[T] \in P[T]
      <3> HIDE DEF P, n
      <3> QED BY <1>2, <1>4, <1>5, FoldsInduction
    <2> QED BY <2>1
  <1>7. ToSet(o) = {o[i] : i \in 1 .. n}
    BY ToSetIs
  <1> QED BY <1>3, <1>6, <1>7

-----------------------------------------------------------------------------
(* The tab store: what each operation keeps *)

TabStores == [opened : Seq(Tab), current : Tab \cup {NoTab}, excluded : SUBSET Names]

Sound(ts) ==
    /\ ts \in TabStores /\ OneTabPerName(ts.opened)
    /\ IF ts.opened = <<>> THEN ts.current = NoTab ELSE ts.current \in ToSet(ts.opened)
    /\ \A t \in ToSet(ts.opened) : NameOf[t.path] \notin ts.excluded

HasName(ts, n) == \E t \in ToSet(ts.opened) : NameOf[t.path] = n

\* The cache is told about pages of this name: they have a tab or are to be dropped.
IsTracked(ts, n) == n \in ts.excluded \/ HasName(ts, n)

\* From ts to us tabs are opened only.
Opens(ts, us) ==
    /\ Sound(us)
    /\ \A n : HasName(ts, n) => HasName(us, n)
    /\ \A n : IsTracked(ts, n) => IsTracked(us, n)

\* From ts to us no pinned tab is closed, and the cache is told of those that are.
KeepsPinned(ts, us) ==
    /\ Sound(us)
    /\ \A t \in ToSet(ts.opened) : t.fixed => HasName(us, NameOf[t.path])
    /\ \A q \in KeptAlive : IsTracked(ts, NameOf[q]) => IsTracked(us, NameOf[q])

LEMMA OpensKeepPinned ==
    ASSUME NEW ts, NEW us, Opens(ts, us)
    PROVE  KeepsPinned(ts, us)
  BY DEF Opens, KeepsPinned, HasName

LEMMA PinnedThenOpen ==
    ASSUME NEW ts, NEW us, NEW vs, KeepsPinned(ts, us), Opens(us, vs)
    PROVE  KeepsPinned(ts, vs)
  BY DEF Opens, KeepsPinned

LEMMA OpenThenOpen ==
    ASSUME NEW ts, NEW us, NEW vs, Opens(ts, us), Opens(us, vs)
    PROVE  Opens(ts, vs)
  BY DEF Opens

LEMMA SoundShape ==
    ASSUME NEW ts, Sound(ts)
    PROVE  /\ ts.opened \in Seq(Tab) /\ ts.current \in Tab \cup {NoTab} /\ ts.excluded \subseteq Names
           /\ ToSet(ts.opened) = {ts.opened[i] : i \in 1 .. Len(ts.opened)}
           /\ ToSet(ts.opened) \subseteq Tab /\ Len(ts.opened) \in Nat
           /\ \A t, u \in ToSet(ts.opened) : NameOf[t.path] = NameOf[u.path] => t = u
  <1>1. ts.opened \in Seq(Tab) /\ ts.current \in Tab \cup {NoTab} /\ ts.excluded \subseteq Names
    BY DEF Sound, TabStores
  <1>2. /\ ToSet(ts.opened) = {ts.opened[i] : i \in 1 .. Len(ts.opened)}
        /\ ToSet(ts.opened) \subseteq Tab /\ Len(ts.opened) \in Nat
    BY <1>1, ToSetIs
  <1>3. \A t, u \in ToSet(ts.opened) : NameOf[t.path] = NameOf[u.path] => t = u
    BY <1>2 DEF Sound, OneTabPerName
  <1> QED BY <1>1, <1>2, <1>3

LEMMA NamesOfPages ==
    /\ \A p \in Pages : NameOf[p] \in Names
    /\ \A t \in Tab : t.path \in Pages /\ NameOf[t.path] \in Names /\ t.fixed \in BOOLEAN
    /\ NoTab \notin Tab
  BY PagesAssumption DEF Names, Tab, NoTab

LEMMA TabAtIs ==
    ASSUME NEW ts, Sound(ts), NEW p, IsOpen(ts, p)
    PROVE  /\ IndexOf(ts, p) \in 1 .. Len(ts.opened)
           /\ TabAt(ts, p) \in ToSet(ts.opened) /\ TabAt(ts, p) \in Tab /\ TabAt(ts, p).path = p
           /\ TabAt(ts, p) = ts.opened[IndexOf(ts, p)]
           /\ \A t \in ToSet(ts.opened) : t.path = p => t = TabAt(ts, p)
  <1>1. IndexOf(ts, p) \in 1 .. Len(ts.opened) /\ ts.opened[IndexOf(ts, p)].path = p
    BY SoundShape, IndexOfIs DEF IsOpen
  <1>2. TabAt(ts, p) = ts.opened[IndexOf(ts, p)]
    BY DEF TabAt
  <1>3. TabAt(ts, p) \in ToSet(ts.opened) /\ TabAt(ts, p).path = p
    <2>1. ToSet(ts.opened) = {ts.opened[i] : i \in 1 .. Len(ts.opened)}
      BY SoundShape
    <2> QED BY <1>1, <1>2, <2>1
  <1>4. TabAt(ts, p) \in Tab
    BY <1>3, SoundShape
  <1>5. \A t \in ToSet(ts.opened) : t.path = p => t = TabAt(ts, p)
    BY <1>3, SoundShape
  <1> QED BY <1>1, <1>2, <1>3, <1>4, <1>5

\* OpenTab: the tab takes the place of the one of its name, or a new place.
LEMMA TabOpened ==
    ASSUME NEW ts, Sound(ts), NEW p \in Pages
    PROVE  Opens(ts, OpenTab(ts, p)) /\ HasName(OpenTab(ts, p), NameOf[p])
  <1> DEFINE o == ts.opened
             k == IndexOfName(ts, NameOf[p])
             tab == [path |-> p, fixed |-> (p \in PinnedPages \/ (k # 0 /\ o[k].fixed))]
             r == IF k # 0 THEN [o EXCEPT ![k] = tab]
                  ELSE IF p \in PinnedPages THEN InsertAt(o, FixedFront(o), tab) ELSE Append(o, tab)
  <1>1. OpenTab(ts, p) = [opened |-> r, current |-> tab, excluded |-> ts.excluded \ {NameOf[p]}]
    BY DEF OpenTab
  <1>2. o \in Seq(Tab) /\ Len(o) \in Nat /\ ToSet(o) = {o[j] : j \in 1 .. Len(o)} /\ OneTabPerName(o)
        /\ ts.excluded \subseteq Names
    BY SoundShape DEF Sound
  <1>3. /\ k \in 0 .. Len(o) /\ (k # 0 => NameOf[o[k].path] = NameOf[p])
        /\ (k = 0 => \A j \in 1 .. Len(o) : NameOf[o[j].path] # NameOf[p])
    BY <1>2, IndexOfNameIs
  <1>4. tab \in Tab /\ tab.path = p
    <2>1. (p \in PinnedPages \/ (k # 0 /\ o[k].fixed)) \in BOOLEAN
      OBVIOUS
    <2> QED BY <2>1 DEF Tab
  <1>5. NameOf[p] \in Names
    BY NamesOfPages
  <1> HIDE DEF o, k, tab
  <1>6. /\ r \in Seq(Tab) /\ OneTabPerName(r)
        /\ ToSet(r) = {tab} \cup {t \in ToSet(o) : NameOf[t.path] # NameOf[p]}
    <2>0. /\ k # 0 => r = [o EXCEPT ![k] = tab]
          /\ k = 0 /\ p \in PinnedPages => r = InsertAt(o, FixedFront(o), tab)
          /\ k = 0 /\ p \notin PinnedPages => r = Append(o, tab)
      OBVIOUS
    <2> HIDE DEF r
    <2>1. CASE k # 0
      <3>1. k \in 1 .. Len(o) /\ NameOf[o[k].path] = NameOf[tab.path]
        BY <1>2, <1>3, <1>4, <2>1
      <3> DEFINE q == [o EXCEPT ![k] = tab]
      <3>2. /\ q \in Seq(Tab) /\ OneTabPerName(q)
            /\ ToSet(q) = {tab} \cup {t \in ToSet(o) : NameOf[t.path] # NameOf[tab.path]}
        <4>1. o \in Seq(Tab) /\ OneTabPerName(o) /\ tab \in Tab
          BY <1>2, <1>4
        <4>2. k \in 1 .. Len(o)
          BY <3>1
        <4>3. NameOf[o[k].path] = NameOf[tab.path]
          BY <3>1
        <4> QED BY ONLY <4>1, <4>2, <4>3, ReplaceTab
      <3>3. r = q
        BY <2>0, <2>1
      <3> HIDE DEF q
      <3> QED BY <1>4, <3>2, <3>3
    <2>2. CASE k = 0
      <3>1. \A t \in ToSet(o) : NameOf[t.path] # NameOf[p]
        BY <1>2, <1>3, <2>2
      <3>2. FixedFront(o) \in 1 .. Len(o) + 1
        BY <1>2, FixedFrontIs
      <3>3. r \in Seq(Tab) /\ OneTabPerName(r) /\ ToSet(r) = {tab} \cup ToSet(o)
        <4>1. \A t \in ToSet(o) : NameOf[t.path] # NameOf[tab.path]
          BY <1>4, <3>1
        <4>2. CASE p \in PinnedPages
          BY <1>2, <1>4, <2>0, <2>2, <3>2, <4>1, <4>2, InsertTab
        <4>3. CASE p \notin PinnedPages
          BY <1>2, <1>4, <2>0, <2>2, <4>1, <4>3, AppendTab
        <4> QED BY <4>2, <4>3
      <3> QED BY <3>1, <3>3
    <2> QED BY <2>1, <2>2
  <1> HIDE DEF r
  <1> DEFINE us == [opened |-> r, current |-> tab, excluded |-> ts.excluded \ {NameOf[p]}]
  <1>7. us \in TabStores /\ us.opened = r /\ us.current = tab
        /\ us.excluded = ts.excluded \ {NameOf[p]}
    BY <1>2, <1>4, <1>6 DEF TabStores
  <1>8. HasName(us, NameOf[p])
    BY <1>4, <1>6, <1>7 DEF HasName
  <1>9. \A t \in ToSet(ts.opened) : NameOf[t.path] \notin ts.excluded
    BY DEF Sound
  <1>10. Sound(us)
    <2>1. r # <<>>
      BY <1>6, ToSetIs
    <2>2. \A t \in ToSet(r) : NameOf[t.path] \notin ts.excluded \ {NameOf[p]}
      BY <1>4, <1>6, <1>9 DEF o
    <2> QED BY <1>6, <1>7, <2>1, <2>2 DEF Sound
  <1>11. \A n : HasName(ts, n) => HasName(us, n)
    BY <1>4, <1>6, <1>7 DEF HasName, o
  <1>12. \A n : IsTracked(ts, n) => IsTracked(us, n)
    BY <1>7, <1>8, <1>11 DEF IsTracked
  <1> HIDE DEF us
  <1>13. OpenTab(ts, p) = us
    BY <1>1 DEF us
  <1> QED BY <1>8, <1>10, <1>11, <1>12, <1>13 DEF Opens

LEMMA TabSet ==
    ASSUME NEW ts, Sound(ts), NEW p \in Pages
    PROVE  /\ Opens(ts, SetWorktab(ts, p))
           /\ p \notin HiddenPages => HasName(SetWorktab(ts, p), NameOf[p])
  <1>1. Opens(ts, ts)
    BY DEF Opens
  <1> QED BY <1>1, TabOpened DEF SetWorktab

\* Drop, with the tab c made the current one.
LEMMA TabsDropped ==
    ASSUME NEW ts, Sound(ts), NEW gone \in SUBSET ToSet(ts.opened), \A t \in gone : ~t.fixed,
           NEW c, IF ToSet(ts.opened) \ gone = {} THEN c = NoTab ELSE c \in ToSet(ts.opened) \ gone
    PROVE  KeepsPinned(ts, [Drop(ts, gone) EXCEPT !.current = c])
  <1> DEFINE o == ts.opened
             more == {NameOf[t.path] : t \in {u \in gone : u.path \in KeptAlive}}
             r == Without(o, gone)
             us == [opened |-> r, current |-> c, excluded |-> ts.excluded \cup more]
  <1>1. [Drop(ts, gone) EXCEPT !.current = c] = us
    <2>1. Drop(ts, gone) = [ts EXCEPT !.opened = r, !.excluded = ts.excluded \cup more]
      BY DEF Drop
    <2>2. ts \in TabStores
      BY DEF Sound
    <2> HIDE DEF r, more
    <2>3. ts = [opened |-> ts.opened, current |-> ts.current, excluded |-> ts.excluded]
      BY <2>2 DEF TabStores
    <2>4. Drop(ts, gone)
             = [opened |-> r, current |-> ts.current, excluded |-> ts.excluded \cup more]
      BY <2>1, <2>3
    <2> QED BY <2>4
  <1>2. o \in Seq(Tab) /\ ToSet(o) \subseteq Tab /\ OneTabPerName(o) /\ ts.excluded \subseteq Names
    BY SoundShape DEF Sound
  <1>3. r \in Seq(Tab) /\ OneTabPerName(r) /\ ToSet(r) = ToSet(o) \ gone
    BY <1>2, WithoutTabs
  <1>4. more \subseteq Names
    BY <1>2, NamesOfPages
  <1>5. c \in Tab \cup {NoTab}
    BY <1>2
  <1> HIDE DEF r
  <1>6. us \in TabStores /\ us.opened = r /\ us.current = c /\ us.excluded = ts.excluded \cup more
    BY <1>2, <1>3, <1>4, <1>5 DEF TabStores
  <1> HIDE DEF us
  <1>7. Sound(us)
    <2>1. IF r = <<>> THEN c = NoTab ELSE c \in ToSet(r)
      BY <1>3, ToSetIs
    <2>2. ASSUME NEW t \in ToSet(r)
          PROVE  NameOf[t.path] \notin ts.excluded \cup more
      <3>1. NameOf[t.path] \notin ts.excluded
        BY <1>3 DEF Sound
      <3>2. NameOf[t.path] \notin more
        BY <1>3, SoundShape
      <3> QED BY <3>1, <3>2
    <2> QED BY <1>3, <1>6, <2>1, <2>2 DEF Sound
  <1>8. ASSUME NEW t \in ToSet(o), t.fixed
        PROVE  HasName(us, NameOf[t.path])
    BY <1>3, <1>6, <1>8 DEF HasName
  <1>9. ASSUME NEW q \in KeptAlive, IsTracked(ts, NameOf[q])
        PROVE  IsTracked(us, NameOf[q])
    <2>1. CASE NameOf[q] \in ts.excluded
      BY <1>6, <2>1 DEF IsTracked
    <2>2. CASE \E t \in ToSet(o) : NameOf[t.path] = NameOf[q]
      <3>1. PICK t \in ToSet(o) : NameOf[t.path] = NameOf[q]
        BY <2>2
      <3>2. t.path \in KeptAlive
        BY <1>2, <3>1, NamesOfPages, PagesAssumption
      <3>3. CASE t \in gone
        BY <1>6, <3>1, <3>2, <3>3 DEF IsTracked
      <3>4. CASE t \notin gone
        BY <1>3, <1>6, <3>1, <3>4 DEF IsTracked, HasName
      <3> QED BY <3>3, <3>4
    <2> QED BY <1>9, <2>1, <2>2 DEF IsTracked, HasName
  <1> QED BY <1>1, <1>7, <1>8, <1>9 DEF KeepsPinned

LEMMA DropIs ==
    ASSUME NEW ts, Sound(ts), NEW gone
    PROVE  Drop(ts, gone).opened = Without(ts.opened, gone) /\ Drop(ts, gone).current = ts.current
           /\ Drop(ts, gone).excluded
                = ts.excluded \cup {NameOf[t.path] : t \in {u \in gone : u.path \in KeptAlive}}
  BY DEF Drop, Sound, TabStores

\* The cross on a tab, with other tabs open.
LEMMA TabClosed ==
    ASSUME NEW ts, Sound(ts), NEW p, IsOpen(ts, p), Len(ts.opened) > 1, ~TabAt(ts, p).fixed
    PROVE  KeepsPinned(ts, RemoveTab(ts, p)) /\ RemoveTab(ts, p).opened # <<>>
  <1> DEFINE o == ts.opened
             i == IndexOf(ts, p)
             gone == {TabAt(ts, p)}
             left == Drop(ts, gone)
             r == left.opened
             next == IF i > Len(r) THEN Len(r) ELSE i
             c == IF ts.current.path = p THEN r[next] ELSE ts.current
  <1>1. r = Without(o, gone) /\ left.current = ts.current
    BY DropIs
  <1>2. /\ o \in Seq(Tab) /\ OneTabPerName(o) /\ ToSet(o) = {o[j] : j \in 1 .. Len(o)} /\ Len(o) \in Nat
        /\ \A t, u \in ToSet(o) : NameOf[t.path] = NameOf[u.path] => t = u
    BY SoundShape DEF Sound
  <1>3. /\ i \in 1 .. Len(o) /\ gone \in SUBSET ToSet(o) /\ \A t \in gone : ~t.fixed
        /\ TabAt(ts, p) = o[i] /\ TabAt(ts, p).path = p
    BY TabAtIs
  <1>4. r \in Seq(Tab) /\ ToSet(r) = ToSet(o) \ gone
    <2> HIDE DEF r, gone
    <2> QED BY <1>1, <1>2, WithoutTabs
  <1>5. RemoveTab(ts, p) = [left EXCEPT !.current = IF @.path = p THEN r[next] ELSE @]
    BY DEF RemoveTab
  <1>6. RemoveTab(ts, p) = [left EXCEPT !.current = c]
    BY <1>1, <1>5
  <1> HIDE DEF r, i, left
  <1>7. ToSet(o) \ gone # {}
    <2>1. PICK j \in 1 .. Len(o) : j # i
      <3>1. 1 \in 1 .. Len(o) /\ 2 \in 1 .. Len(o)
        BY <1>2
      <3> QED BY <3>1
    <2>2. o[j] # o[i]
      BY <1>2, <1>3, <2>1 DEF OneTabPerName
    <2> QED BY <1>2, <1>3, <2>2
  <1>8. r # <<>> /\ Len(r) \in Nat /\ ToSet(r) = {r[j] : j \in 1 .. Len(r)} /\ Len(r) # 0
    BY <1>4, <1>7, ToSetIs
  <1>9. c \in ToSet(o) \ gone
    <2>1. CASE ts.current.path = p
      <3>1. next \in 1 .. Len(r)
        BY <1>2, <1>3, <1>8
      <3> QED BY <1>4, <1>8, <2>1, <3>1
    <2>2. CASE ts.current.path # p
      <3>1. ts.current \in ToSet(o)
        BY <1>7, ToSetIs, <1>2 DEF Sound
      <3> QED BY <1>3, <2>2, <3>1
    <2> QED BY <2>1, <2>2
  <1> HIDE DEF c, gone, next
  <1>10. KeepsPinned(ts, [left EXCEPT !.current = c])
    BY <1>3, <1>7, <1>9, TabsDropped DEF left
  <1>11. [left EXCEPT !.current = c].opened = r
    BY DEF r, left, Drop, Sound, TabStores
  <1> QED BY <1>6, <1>8, <1>10, <1>11

\* The entries that close the tabs beside the one they were asked for.
LEMMA BesideClosed ==
    ASSUME NEW ts, Sound(ts), NEW p, NEW beside \in SUBSET ToSet(ts.opened),
           IsOpen(ts, p) => TabAt(ts, p) \notin beside
    PROVE  KeepsPinned(ts, CloseBeside(ts, p, beside))
  <1> DEFINE gone == {t \in beside : ~t.fixed}
  <1>1. CASE IsOpen(ts, p) /\ gone # {}
    <2>1. CloseBeside(ts, p, beside) = [Drop(ts, gone) EXCEPT !.current = TabAt(ts, p)]
      BY <1>1 DEF CloseBeside
    <2>2. TabAt(ts, p) \in ToSet(ts.opened) \ gone
      BY <1>1, TabAtIs
    <2> QED BY <2>1, <2>2, TabsDropped
  <1>2. CASE ~(IsOpen(ts, p) /\ gone # {})
    BY <1>2 DEF CloseBeside, KeepsPinned, HasName
  <1> QED BY <1>1, <1>2

LEMMA BesideOf ==
    ASSUME NEW ts, Sound(ts), NEW p,
           NEW beside \in {LeftOf(ts, p), RightOf(ts, p), OthersThan(ts, p)}
    PROVE  KeepsPinned(ts, CloseBeside(ts, p, beside))
  <1>1. /\ ts.opened \in Seq(Tab) /\ OneTabPerName(ts.opened) /\ Len(ts.opened) \in Nat
        /\ ToSet(ts.opened) = {ts.opened[i] : i \in 1 .. Len(ts.opened)}
    BY SoundShape DEF Sound
  <1>2. IndexOf(ts, p) \in 0 .. Len(ts.opened)
    BY <1>1, IndexOfIs
  <1>3. beside \in SUBSET ToSet(ts.opened)
    <2>1. LeftOf(ts, p) \in SUBSET ToSet(ts.opened)
      BY <1>1, <1>2 DEF LeftOf
    <2>2. RightOf(ts, p) \in SUBSET ToSet(ts.opened)
      BY <1>1, <1>2 DEF RightOf
    <2>3. OthersThan(ts, p) \in SUBSET ToSet(ts.opened)
      BY DEF OthersThan
    <2> QED BY <2>1, <2>2, <2>3
  <1>4. ASSUME IsOpen(ts, p)
        PROVE  TabAt(ts, p) \notin beside
    <2>1. /\ IndexOf(ts, p) \in 1 .. Len(ts.opened) /\ TabAt(ts, p) = ts.opened[IndexOf(ts, p)]
          /\ TabAt(ts, p).path = p
      BY <1>4, TabAtIs
    <2>2. \A j \in 1 .. Len(ts.opened) : ts.opened[j] = TabAt(ts, p) => j = IndexOf(ts, p)
      BY <1>1, <2>1 DEF OneTabPerName
    <2>3. TabAt(ts, p) \notin LeftOf(ts, p)
      BY <1>1, <1>4, <2>1, <2>2 DEF LeftOf
    <2>4. TabAt(ts, p) \notin RightOf(ts, p)
      BY <1>1, <2>1, <2>2 DEF RightOf
    <2>5. TabAt(ts, p) \notin OthersThan(ts, p)
      BY <2>1 DEF OthersThan
    <2> QED BY <2>3, <2>4, <2>5
  <1> QED BY <1>3, <1>4, BesideClosed

\* "Close all".
LEMMA AllClosed ==
    ASSUME NEW ts, Sound(ts)
    PROVE  KeepsPinned(ts, RemoveAll(ts))
  <1> DEFINE o == ts.opened
             gone == ClosedByAll(ts)
             left == Drop(ts, gone)
             c == IF left.opened = <<>> THEN NoTab
                  ELSE IF IsOpen(left, Home) THEN TabAt(left, Home) ELSE left.opened[1]
  <1>1. RemoveAll(ts) = [left EXCEPT !.current = c]
    BY DEF RemoveAll
  <1>2. o \in Seq(Tab) /\ OneTabPerName(o)
    BY SoundShape DEF Sound
  <1>3. gone \in SUBSET ToSet(o) /\ \A t \in gone : ~t.fixed
    BY DEF ClosedByAll
  <1>4. left.opened \in Seq(Tab) /\ ToSet(left.opened) = ToSet(o) \ gone
    BY <1>2, DropIs, WithoutTabs
  <1> HIDE DEF left, gone
  <1>5. /\ left.opened = <<>> <=> ToSet(o) \ gone = {}
        /\ ToSet(left.opened) = {left.opened[i] : i \in 1 .. Len(left.opened)}
        /\ Len(left.opened) \in Nat
    BY <1>4, ToSetIs
  <1>6. IF ToSet(o) \ gone = {} THEN c = NoTab ELSE c \in ToSet(o) \ gone
    <2>1. CASE left.opened = <<>>
      BY <1>5, <2>1
    <2>2. CASE left.opened # <<>> /\ IsOpen(left, Home)
      <3>1. IndexOf(left, Home) \in 1 .. Len(left.opened)
        BY <1>4, <1>5, <2>2, IndexOfIs DEF IsOpen
      <3>2. c \in ToSet(left.opened)
        BY <1>5, <2>2, <3>1 DEF TabAt
      <3> QED BY <1>4, <1>5, <2>2, <3>2
    <2>3. CASE left.opened # <<>> /\ ~IsOpen(left, Home)
      <3>1. 1 \in 1 .. Len(left.opened)
        BY <1>4, <1>5, <2>3
      <3> QED BY <1>4, <1>5, <2>3, <3>1
    <2> QED BY <2>1, <2>2, <2>3
  <1> HIDE DEF c
  <1> QED BY <1>1, <1>3, <1>6, TabsDropped DEF left

LEMMA FirstNumbers ==
    ASSUME NEW m \in Nat
    PROVE  IsFiniteSet(1 .. m) /\ Cardinality(1 .. m) = m
  <1>1. /\ IsFiniteSet(1 .. m)
        /\ Cardinality(1 .. m) = IF 1 > m THEN 0 ELSE m - 1 + 1
    BY FS_Interval
  <1>2. (IF 1 > m THEN 0 ELSE m - 1 + 1) = m
    OBVIOUS
  <1> QED BY <1>1, <1>2

\* Pinning a tab or taking its pin moves it.
LEMMA TabToggled ==
    ASSUME NEW ts, Sound(ts), NEW p, IsOpen(ts, p)
    PROVE  KeepsPinned(ts, ToggleFixedTab(ts, p))
  <1> DEFINE o == ts.opened
             i == IndexOf(ts, p)
             old == TabAt(ts, p)
             tab == [old EXCEPT !.fixed = ~@]
             rest == RemoveAt(o, i)
             pinned == {j \in 1 .. Len(rest) : rest[j].fixed}
             place == IF tab.fixed THEN FixedFront(rest) ELSE Cardinality(pinned) + 1
             r == InsertAt(rest, place, tab)
             c == IF ts.current.path = p THEN tab ELSE ts.current
             us == [opened |-> r, current |-> c, excluded |-> ts.excluded]
  <1>0. ts = [opened |-> o, current |-> ts.current, excluded |-> ts.excluded]
    BY DEF Sound, TabStores
  <1>1. ToggleFixedTab(ts, p) = us
    <2>1. ToggleFixedTab(ts, p) = [ts EXCEPT !.opened = r, !.current = IF @.path = p THEN tab ELSE @]
      BY DEF ToggleFixedTab
    <2> HIDE DEF r, tab
    <2> QED BY <1>0, <2>1
  <1>2. /\ o \in Seq(Tab) /\ OneTabPerName(o) /\ ts.excluded \subseteq Names
        /\ ToSet(o) = {o[j] : j \in 1 .. Len(o)}
        /\ \A t, u \in ToSet(o) : NameOf[t.path] = NameOf[u.path] => t = u
        /\ ts.current \in Tab \cup {NoTab}
    BY SoundShape DEF Sound
  <1>3. i \in 1 .. Len(o) /\ old = o[i] /\ old \in ToSet(o) /\ old \in Tab /\ old.path = p
        /\ \A t \in ToSet(o) : t.path = p => t = old
    BY TabAtIs
  <1> HIDE DEF i, old
  <1>4. tab \in Tab /\ tab.path = p
    BY <1>3 DEF Tab
  <1> HIDE DEF tab
  <1>5. /\ rest \in Seq(Tab) /\ OneTabPerName(rest)
        /\ ToSet(rest) = {t \in ToSet(o) : NameOf[t.path] # NameOf[p]}
    <2>1. /\ rest \in Seq(Tab) /\ OneTabPerName(rest)
          /\ ToSet(rest) = {t \in ToSet(o) : NameOf[t.path] # NameOf[o[i].path]}
      BY <1>2, <1>3, RemoveTabAt
    <2> HIDE DEF rest
    <2> QED BY <1>3, <2>1
  <1> HIDE DEF rest
  <1>6. place \in 1 .. Len(rest) + 1
    <2>1. Len(rest) \in Nat
      BY <1>5
    <2>2. FixedFront(rest) \in 1 .. Len(rest) + 1
      BY <1>5, FixedFrontIs
    <2>3. IsFiniteSet(1 .. Len(rest)) /\ Cardinality(1 .. Len(rest)) = Len(rest)
      BY <2>1, FirstNumbers
    <2>4. Cardinality(pinned) \in Nat /\ Cardinality(pinned) <= Len(rest)
      <3>1. pinned \in SUBSET (1 .. Len(rest))
        OBVIOUS
      <3> HIDE DEF pinned
      <3> QED BY <2>3, <3>1, FS_Subset, FS_CardinalityType
    <2> HIDE DEF pinned
    <2> QED BY <2>1, <2>2, <2>4
  <1> HIDE DEF place
  <1>7. r \in Seq(Tab) /\ OneTabPerName(r) /\ ToSet(r) = {tab} \cup ToSet(rest)
    BY <1>4, <1>5, <1>6, InsertTab
  <1> HIDE DEF r
  <1>8. \A t \in ToSet(o) : \E u \in ToSet(r) : NameOf[u.path] = NameOf[t.path]
    BY <1>4, <1>5, <1>7
  <1>9. us \in TabStores /\ us.opened = r /\ us.current = c /\ us.excluded = ts.excluded
    BY <1>2, <1>4, <1>7 DEF TabStores
  <1>10. c \in ToSet(r)
    <2>1. ts.current \in ToSet(o)
      <3>1. o # <<>>
        BY <1>2, <1>3, ToSetIs
      <3> QED BY <3>1 DEF Sound
    <2>2. CASE ts.current.path = p
      BY <1>7, <2>2
    <2>3. CASE ts.current.path # p
      <3>1. NameOf[ts.current.path] # NameOf[p]
        BY <1>2, <1>3, <2>1, <2>3
      <3> QED BY <1>5, <1>7, <2>1, <2>3, <3>1
    <2> QED BY <2>2, <2>3
  <1>11. \A t \in ToSet(r) : NameOf[t.path] \notin ts.excluded
    BY <1>3, <1>4, <1>5, <1>7 DEF Sound
  <1> HIDE DEF us, c
  <1>12. Sound(us)
    <2>1. r # <<>>
      BY <1>7, ToSetIs
    <2> QED BY <1>7, <1>9, <1>10, <1>11, <2>1 DEF Sound
  <1>13. \A n : HasName(ts, n) => HasName(us, n)
    BY <1>8, <1>9 DEF HasName
  <1>14. \A n : IsTracked(ts, n) => IsTracked(us, n)
    BY <1>9, <1>13 DEF IsTracked
  <1> QED BY <1>1, <1>12, <1>13, <1>14, OpensKeepPinned DEF Opens

LEMMA TabsValidated ==
    ASSUME NEW ts, Sound(ts)
    PROVE  ValidateWorktabs(ts) = ts
  <1>1. ~(ts.current = NoTab /\ ts.opened # <<>>)
    BY SoundShape, NamesOfPages DEF Sound
  <1>2. ts = [opened |-> ts.opened, current |-> ts.current, excluded |-> ts.excluded]
    BY DEF Sound, TabStores
  <1> QED BY <1>1, <1>2 DEF ValidateWorktabs

IsOpening(g, ts, w) ==
    g = [T \in SUBSET (1 .. Len(w)) |->
            IF T = {} THEN ts ELSE SetWorktab(g[T \ {Max(T)}], w[Max(T)])]

LEMMA OpeningExists ==
    ASSUME NEW ts, Sound(ts), NEW w \in Seq(Pages)
    PROVE  \E g : IsOpening(g, ts, w)
  <1> DEFINE n == Len(w)
             X == {us \in TabStores : Sound(us)}
             step == [i \in 1 .. n |-> [x \in X |-> SetWorktab(x, w[i])]]
  <1>1. n \in Nat /\ ts \in X
    BY DEF Sound
  <1>2. step \in [1 .. n -> [X -> X]]
    <2>1. ASSUME NEW i \in 1 .. n, NEW x \in X
          PROVE  SetWorktab(x, w[i]) \in X
      <3>1. w[i] \in Pages /\ Sound(x)
        OBVIOUS
      <3>2. Sound(SetWorktab(x, w[i]))
        BY <3>1, TabSet DEF Opens
      <3> QED BY <3>2 DEF Sound
    <2> HIDE DEF X
    <2> QED BY <2>1
  <1> HIDE DEF X
  <1>3. PICK g \in [SUBSET (1 .. n) -> X] : FoldOf(g, n, ts, step)
    <2> HIDE DEF n, step
    <2> QED BY <1>1, <1>2, FoldExists
  <1>4. ASSUME NEW T \in SUBSET (1 .. n), T # {}
        PROVE  g[T] = SetWorktab(g[T \ {Max(T)}], w[Max(T)])
    <2>1. g[T] = step[Max(T)][g[T \ {Max(T)}]]
      <3> HIDE DEF step, n
      <3> QED BY <1>3, <1>4 DEF FoldOf
    <2>2. Max(T) \in 1 .. n
      <3> HIDE DEF step, n
      <3> QED BY <1>1, <1>4, MaxIn
    <2>3. T \ {Max(T)} \in SUBSET (1 .. n)
      OBVIOUS
    <2>4. g[T \ {Max(T)}] \in X
      BY <2>3
    <2> QED BY <2>1, <2>2, <2>4
  <1>5. g[{}] = ts
    <2> HIDE DEF step, n
    <2> QED BY <1>3 DEF FoldOf
  <1>6. g = [T \in SUBSET (1 .. n) |-> g[T]]
    OBVIOUS
  <1> QED BY <1>4, <1>5, <1>6 DEF IsOpening

\* The guards that waited for one answer open their tabs, one after the other.
LEMMA WaitingOpened ==
    ASSUME NEW ts, Sound(ts), NEW w \in Seq(Pages)
    PROVE  /\ Opens(ts, FoldLeft(SetWorktab, ts, w))
           /\ \A i \in 1 .. Len(w) :
                 w[i] \notin HiddenPages => HasName(FoldLeft(SetWorktab, ts, w), NameOf[w[i]])
  <1> DEFINE n == Len(w)
             g == CHOOSE h : IsOpening(h, ts, w)
             After(T) == {us \in TabStores :
                             /\ Opens(ts, us)
                             /\ \A i \in T : w[i] \notin HiddenPages => HasName(us, NameOf[w[i]])}
             P == [T \in SUBSET (1 .. n) |-> After(T)]
  <1>1. IsOpening(g, ts, w)
    BY OpeningExists
  <1>2. DOMAIN w = 1 .. n /\ n \in Nat
    OBVIOUS
  <1>3. FoldLeft(SetWorktab, ts, w) = g[1 .. n]
    BY <1>2 DEF FoldLeft, MapThenFoldSet, IsOpening
  <1> HIDE DEF g
  <1>4. g[{}] \in P[{}]
    <2>1. g[{}] = ts
      BY <1>1 DEF IsOpening
    <2>2. Opens(ts, ts) /\ ts \in TabStores
      BY DEF Opens, Sound
    <2> QED BY <2>1, <2>2
  <1>5. ASSUME NEW T \in SUBSET (1 .. n), NEW k \in 1 .. n, k \in T, T \in SUBSET (1 .. k),
               g[T \ {k}] \in P[T \ {k}]
        PROVE  g[T] \in P[T]
    <2> DEFINE R == T \ {k}
               x == g[R]
    <2>1. Max(T) = k
      <3>1. k \in Nat
        BY <1>2
      <3>2. k \in T /\ T \in SUBSET (1 .. k)
        BY <1>5
      <3> QED BY ONLY <3>1, <3>2, MaxIs
    <2>2. g[T] = SetWorktab(x, w[k])
      BY <1>1, <1>5, <2>1 DEF IsOpening
    <2>3. R \in SUBSET (1 .. n) /\ T = R \cup {k}
      BY <1>5
    <2>4. x \in After(R)
      BY <1>5, <2>3
    <2> HIDE DEF x, R
    <2>5. /\ Opens(ts, x) /\ Sound(x)
          /\ \A i \in R : w[i] \notin HiddenPages => HasName(x, NameOf[w[i]])
      BY <2>4 DEF Opens
    <2>6. w[k] \in Pages
      OBVIOUS
    <2>7. /\ Opens(x, g[T])
          /\ w[k] \notin HiddenPages => HasName(g[T], NameOf[w[k]])
      BY <2>2, <2>5, <2>6, TabSet
    <2>8. Opens(ts, g[T])
      BY <2>5, <2>7, OpenThenOpen
    <2>9. \A i \in R : w[i] \notin HiddenPages => HasName(g[T], NameOf[w[i]])
      BY <2>5, <2>7 DEF Opens
    <2>10. g[T] \in TabStores
      BY <2>8 DEF Opens, Sound
    <2> QED BY <2>3, <2>7, <2>8, <2>9, <2>10
  <1>6. g[1 .. n] \in P[1 .. n]
    <2>1. \A T \in SUBSET (1 .. n) : g[T] \in P[T]
      <3> HIDE DEF P, n
      <3> QED BY <1>2, <1>4, <1>5, FoldsInduction
    <2> QED BY <2>1
  <1> QED BY <1>3, <1>6

-----------------------------------------------------------------------------
(* The tab bar, the page cache and the router *)

Navs == [pending : Pages \cup {NoPage}, loading : BOOLEAN, waiting : Seq(Pages), again : BOOLEAN]

\* The pages that are cached, shown or about to be shown have a tab or are to be dropped, those
\* without tabs aside; none that is to be dropped is cached.
Followed(q) == q \in cached \/ q = shown \/ (nav.loading /\ q = nav.pending)

\* While the routes are not registered no page of the layout is shown or waited for.
StartInv ==
    /\ routes \in {"none", "registered", "failed"}
    /\ routes = "none" => shown = NoPage /\ nav.pending \in Pages /\ nav.waiting = <<>> /\ ~nav.loading
    /\ routes = "failed" => shown \in {NoPage, Error} /\ nav.pending \in {NoPage, Error} /\ nav.waiting = <<>>

TabsInv ==
    /\ Sound(tabs) /\ nav \in Navs /\ StartInv
    /\ shown \in Pages \cup {NoPage} /\ cached \subseteq KeptAlive /\ clicked \in Pages \cup {NoPage}
    /\ shown = NoPage => cached = {}
    /\ \A q \in KeptAlive \ HiddenPages : Followed(q) => IsTracked(tabs, NameOf[q])
    /\ \A q \in cached : CompOf[q] \notin tabs.excluded

LEMMA NavIs ==
    ASSUME NEW p \in Pages \cup {NoPage}, NEW b \in BOOLEAN, NEW w \in Seq(Pages)
    PROVE  /\ Nav(p, b, w) \in Navs
           /\ Nav(p, b, w).pending = p /\ Nav(p, b, w).loading = b /\ Nav(p, b, w).waiting = w
  BY DEF Nav, Navs

LEMMA CacheIs ==
    ASSUME NEW S, NEW x
    PROVE  \A q : q \in CacheWith(S, x) => q \in S /\ q \in KeptAlive /\ CompOf[q] \notin x
  BY DEF CacheWith

\* A step that shows no other page and closes tabs at most the way the menu does.
LEMMA SamePageGood ==
    ASSUME TabsInv, KeepsPinned(tabs, tabs'), nav' \in Navs, UNCHANGED <<shown, clicked>>,
           Rendered, routes' = "registered" \/ StartInv',
           \A q \in KeptAlive \ HiddenPages :
               nav'.loading /\ q = nav'.pending => IsTracked(tabs', NameOf[q])
    PROVE  TabsInv'
  <1>1. /\ Sound(tabs')
        /\ \A q \in KeptAlive : IsTracked(tabs, NameOf[q]) => IsTracked(tabs', NameOf[q])
    BY DEF KeepsPinned
  <1>2. \A q \in cached' : q \in KeptAlive /\ (q \in cached \/ q = shown) /\ CompOf[q] \notin tabs'.excluded
    BY CacheIs DEF Rendered
  <1>3. /\ shown = NoPage => cached' = {}
        /\ StartInv'
    BY DEF Rendered, InLayout, TabsInv, StartInv
  <1>4. \A q \in KeptAlive \ HiddenPages : Followed(q)' => IsTracked(tabs', NameOf[q])
    BY <1>1, <1>2 DEF TabsInv, Followed
  <1>5. shown' \in Pages \cup {NoPage} /\ clicked' \in Pages \cup {NoPage}
    BY DEF TabsInv
  <1> QED BY <1>1, <1>2, <1>3, <1>4, <1>5 DEF TabsInv

LEMMA PushGood ==
    ASSUME TabsInv, NEW ts, KeepsPinned(tabs, ts), NEW p \in Pages, Push(p, ts),
           Rendered, routes' = "registered", UNCHANGED <<shown, clicked>>
    PROVE  TabsInv' /\ KeepsPinned(tabs, tabs')
  <1>1. Sound(ts)
    BY DEF KeepsPinned
  <1>2. nav \in Navs /\ nav.waiting \in Seq(Pages)
    BY DEF TabsInv, Navs
  <1>3. KeepsPinned(tabs, tabs')
    <2>1. CASE p = Setup /\ p # shown
      <3>1. tabs' = SetWorktab(ts, p)
        BY <2>1 DEF Push
      <3> QED BY <1>1, <3>1, TabSet, PinnedThenOpen
    <2>2. CASE ~(p = Setup /\ p # shown)
      BY <2>2 DEF Push
    <2> QED BY <2>1, <2>2
  <1>4. /\ nav' \in Navs
        /\ nav'.loading => p = Setup /\ p # shown /\ nav'.pending = p
    <2>1. CASE p = shown \/ p = Setup
      <3> DEFINE to == IF p = shown THEN NoPage ELSE p
                 moves == p # shown
      <3>1. nav' = Nav(to, moves, nav.waiting)
        BY <2>1 DEF Push
      <3>2. to \in Pages \cup {NoPage} /\ moves \in BOOLEAN
        OBVIOUS
      <3>3. moves => p # shown /\ to = p
        OBVIOUS
      <3> HIDE DEF to, moves
      <3>4. nav' \in Navs /\ nav'.pending = to /\ nav'.loading = moves
        BY <1>2, <3>1, <3>2, NavIs
      <3> QED BY <2>1, <3>3, <3>4
    <2>2. CASE ~(p = shown \/ p = Setup)
      <3>1. nav' = Nav(p, FALSE, Append(nav.waiting, p))
        BY <2>2 DEF Push
      <3>2. Append(nav.waiting, p) \in Seq(Pages)
        BY <1>2
      <3>3. nav' \in Navs /\ nav'.loading = FALSE
        <4>1. p \in Pages \cup {NoPage} /\ FALSE \in BOOLEAN
          OBVIOUS
        <4> DEFINE w == Append(nav.waiting, p)
        <4> HIDE DEF w
        <4>2. Nav(p, FALSE, w) \in Navs /\ Nav(p, FALSE, w).loading = FALSE
          <5>1. w \in Seq(Pages)
            BY <3>2 DEF w
          <5> QED BY <4>1, <5>1 DEF Nav, Navs
        <4> QED BY <3>1, <4>2 DEF w
      <3> QED BY <3>3
    <2> QED BY <2>1, <2>2
  <1>5. ASSUME NEW q \in KeptAlive \ HiddenPages, nav'.loading, q = nav'.pending
        PROVE  IsTracked(tabs', NameOf[q])
    <2>1. q = p /\ tabs' = SetWorktab(ts, p)
      BY <1>4, <1>5 DEF Push
    <2> QED BY <1>1, <1>5, <2>1, TabSet DEF IsTracked
  <1> QED BY <1>3, <1>4, <1>5, SamePageGood

LEMMA StayGood ==
    ASSUME TabsInv, NEW ts, KeepsPinned(tabs, ts), Stay(ts), Rendered,
           routes' = "registered", UNCHANGED <<shown, clicked>>
    PROVE  TabsInv' /\ KeepsPinned(tabs, tabs')
  <1>1. tabs' = ts /\ nav' = nav /\ nav \in Navs
    BY DEF Stay, TabsInv
  <1>2. \A q \in KeptAlive \ HiddenPages :
            nav'.loading /\ q = nav'.pending => IsTracked(tabs', NameOf[q])
    BY <1>1 DEF TabsInv, Followed, KeepsPinned
  <1> QED BY <1>1, <1>2, SamePageGood

LEMMA SameTabs ==
    ASSUME NEW ts, Sound(ts)
    PROVE  KeepsPinned(ts, ts)
  BY DEF KeepsPinned, HasName

LEMMA MenuGood ==
    ASSUME TabsInv, SelectFixed \/ SelectLeft \/ SelectRight \/ SelectOther \/ SelectAll
    PROVE  TabsInv' /\ KeepsPinned(tabs, tabs')
  <1>1. Sound(tabs) /\ clicked \in Pages /\ Rendered /\ UNCHANGED <<shown, clicked>>
        /\ routes' = "registered"
    BY DEF TabsInv, StartInv, InLayout, SelectFixed, SelectLeft, SelectRight, SelectOther, SelectAll
  <1>2. CASE SelectFixed
    <2>1. IsOpen(tabs, clicked) /\ Stay(ToggleFixedTab(tabs, clicked))
      BY <1>2 DEF SelectFixed, IsOpen, Clicked
    <2> QED BY <1>1, <2>1, TabToggled, StayGood
  <1>3. CASE SelectLeft
    <2>1. KeepsPinned(tabs, RemoveLeft(tabs, clicked))
      BY <1>1, BesideOf DEF RemoveLeft
    <2>2. Push(clicked, RemoveLeft(tabs, clicked)) \/ Stay(RemoveLeft(tabs, clicked))
      BY <1>3 DEF SelectLeft
    <2> QED BY <1>1, <2>1, <2>2, PushGood, StayGood
  <1>4. CASE SelectRight
    <2>1. KeepsPinned(tabs, RemoveRight(tabs, clicked))
      BY <1>1, BesideOf DEF RemoveRight
    <2>2. Push(clicked, RemoveRight(tabs, clicked)) \/ Stay(RemoveRight(tabs, clicked))
      BY <1>4 DEF SelectRight
    <2> QED BY <1>1, <2>1, <2>2, PushGood, StayGood
  <1>5. CASE SelectOther
    <2>1. KeepsPinned(tabs, RemoveOthers(tabs, clicked))
      BY <1>1, BesideOf DEF RemoveOthers
    <2>2. Push(clicked, RemoveOthers(tabs, clicked))
      BY <1>5 DEF SelectOther
    <2> QED BY <1>1, <2>1, <2>2, PushGood
  <1>6. CASE SelectAll
    <2> DEFINE left == RemoveAll(tabs)
               p == IF left.opened = <<>> THEN Home ELSE left.current.path
    <2>1. KeepsPinned(tabs, left) /\ Push(p, left)
      BY <1>1, <1>6, AllClosed DEF SelectAll
    <2> HIDE DEF left
    <2>2. p \in Pages
      <3>1. CASE left.opened = <<>>
        BY <3>1, PagesAssumption
      <3>2. CASE left.opened # <<>>
        <4>1. left.current \in Tab
          BY <2>1, <3>2, SoundShape DEF KeepsPinned, Sound
        <4> QED BY <3>2, <4>1, NamesOfPages
      <3> QED BY <3>1, <3>2
    <2> HIDE DEF p
    <2> QED BY <1>1, <2>1, <2>2, PushGood
  <1> QED BY <1>2, <1>3, <1>4, <1>5, <1>6

LEMMA VisitGood ==
    ASSUME TabsInv, NEW p \in Pages, Navigate(p) \/ ClickTab(p) \/ CloseTab(p) \/ ShowMenu(p)
    PROVE  TabsInv' /\ KeepsPinned(tabs, tabs')
  <1>1. Sound(tabs) /\ KeepsPinned(tabs, tabs)
    BY SameTabs DEF TabsInv
  <1>2. CASE Navigate(p)
    BY <1>1, <1>2, PushGood DEF Navigate, TabsInv
  <1>3. CASE ClickTab(p)
    BY <1>1, <1>3, PushGood DEF ClickTab, InLayout, TabsInv, StartInv
  <1>4. CASE CloseTab(p)
    <2> DEFINE left == RemoveTab(tabs, p)
    <2>1. KeepsPinned(tabs, left) /\ left.opened # <<>>
      BY <1>1, <1>4, TabClosed DEF CloseTab
    <2>2. Push(left.current.path, left) \/ Stay(left)
      BY <1>4 DEF CloseTab
    <2>3. Rendered /\ routes' = "registered" /\ UNCHANGED <<shown, clicked>>
      BY <1>4 DEF CloseTab, InLayout, TabsInv, StartInv
    <2> HIDE DEF left
    <2>4. left.current.path \in Pages
      <3>1. left.current \in Tab
        BY <2>1, SoundShape DEF KeepsPinned, Sound
      <3> QED BY <3>1, NamesOfPages
    <2> QED BY <2>1, <2>2, <2>3, <2>4, PushGood, StayGood
  <1>5. CASE ShowMenu(p)
    <2>1. UNCHANGED <<routes, tabs, nav, shown, cached>> /\ clicked' = p
      BY <1>5 DEF ShowMenu
    <2> QED BY <1>1, <2>1 DEF TabsInv, Followed, StartInv
  <1> QED BY <1>2, <1>3, <1>4, <1>5

LEMMA RouterGood ==
    ASSUME TabsInv, GuardsPass \/ GuardsRedirect \/ GuardsFail \/ Arrive \/ LoadFails
    PROVE  TabsInv' /\ KeepsPinned(tabs, tabs')
  <1>1. /\ Sound(tabs) /\ KeepsPinned(tabs, tabs) /\ nav \in Navs
        /\ nav.waiting \in Seq(Pages) /\ nav.pending \in Pages \cup {NoPage} /\ nav.loading \in BOOLEAN
    BY SameTabs DEF TabsInv, Navs
  <1>2. CASE GuardsPass
    <2>1. tabs' = FoldLeft(SetWorktab, tabs, nav.waiting)
          /\ nav' = Nav(nav.pending, nav.loading \/ nav.pending \in ToSet(nav.waiting), <<>>)
          /\ Rendered /\ routes' = "registered" /\ UNCHANGED <<shown, clicked>>
      BY <1>2 DEF GuardsPass, Asking
    <2>2. /\ Opens(tabs, tabs')
          /\ \A i \in 1 .. Len(nav.waiting) :
                nav.waiting[i] \notin HiddenPages => HasName(tabs', NameOf[nav.waiting[i]])
      BY <1>1, <2>1, WaitingOpened
    <2>3. KeepsPinned(tabs, tabs')
      BY <2>2, OpensKeepPinned
    <2>4. /\ nav' \in Navs /\ nav'.pending = nav.pending
          /\ nav'.loading => nav.loading \/ nav.pending \in ToSet(nav.waiting)
      <3> DEFINE passed == nav.loading \/ nav.pending \in ToSet(nav.waiting)
      <3>1. <<>> \in Seq(Pages) /\ passed \in BOOLEAN
        OBVIOUS
      <3>2. nav' = Nav(nav.pending, passed, <<>>)
        BY <2>1
      <3> HIDE DEF passed
      <3>3. nav' \in Navs /\ nav'.pending = nav.pending /\ nav'.loading = passed
        <4>1. /\ Nav(nav.pending, passed, <<>>) \in Navs
              /\ Nav(nav.pending, passed, <<>>).pending = nav.pending
              /\ Nav(nav.pending, passed, <<>>).loading = passed
          BY <1>1, <3>1 DEF Nav, Navs
        <4> QED BY <3>2, <4>1
      <3> QED BY <3>3 DEF passed
    <2>5. ASSUME NEW q \in KeptAlive \ HiddenPages, nav'.loading, q = nav'.pending
          PROVE  IsTracked(tabs', NameOf[q])
      <3>1. CASE nav.loading
        BY <2>3, <2>4, <2>5, <3>1 DEF TabsInv, Followed, KeepsPinned
      <3>2. CASE q \in ToSet(nav.waiting)
        <4>1. PICK i \in 1 .. Len(nav.waiting) : q = nav.waiting[i]
          BY <1>1, <3>2, ToSetIs
        <4> QED BY <2>2, <2>5, <4>1 DEF IsTracked
      <3> QED BY <2>4, <2>5, <3>1, <3>2
    <2> QED BY <2>1, <2>3, <2>4, <2>5, SamePageGood
  <1>3. CASE GuardsRedirect
    <2>1. Setup \in Pages /\ Setup \notin HiddenPages /\ <<>> \in Seq(Pages)
      BY PagesAssumption
    <2>2. Rendered /\ routes' = "registered" /\ UNCHANGED <<shown, clicked>>
      BY <1>3 DEF GuardsRedirect, Asking
    <2>3. CASE shown = Setup
      <3>1. nav' = Nav(NoPage, FALSE, <<>>) /\ tabs' = tabs
        BY <1>3, <2>3 DEF GuardsRedirect
      <3>2. nav' \in Navs /\ ~nav'.loading
        BY <2>1, <3>1, NavIs
      <3> QED BY <1>1, <2>2, <3>1, <3>2, SamePageGood
    <2>4. CASE shown # Setup
      <3>1. nav' = Nav(Setup, TRUE, <<>>) /\ tabs' = SetWorktab(tabs, Setup)
        BY <1>3, <2>4 DEF GuardsRedirect
      <3>2. nav' \in Navs /\ nav'.pending = Setup
        <4>1. TRUE \in BOOLEAN /\ Setup \in Pages \cup {NoPage}
          BY <2>1
        <4> QED BY <2>1, <3>1, <4>1, NavIs
      <3>3. Opens(tabs, tabs') /\ HasName(tabs', NameOf[Setup])
        BY <1>1, <2>1, <3>1, TabSet
      <3>4. KeepsPinned(tabs, tabs')
        BY <3>3, OpensKeepPinned
      <3> QED BY <2>2, <3>2, <3>3, <3>4, SamePageGood DEF IsTracked
    <2> QED BY <2>3, <2>4
  <1>4. CASE GuardsFail
    <2>1. routes = "registered" /\ UNCHANGED <<routes, tabs, shown, cached, clicked>>
      BY <1>4 DEF GuardsFail, Asking
    <2>2. nav' \in Navs /\ ~nav'.loading
      <3>1. Error \in Pages /\ <<>> \in Seq(Pages) /\ <<Error>> \in Seq(Pages)
        BY PagesAssumption
      <3>2. CASE shown = Error
        BY <1>4, <3>1, <3>2, NavIs DEF GuardsFail
      <3>3. CASE shown # Error
        <4> DEFINE b == nav.pending = Error /\ ~nav.again
        <4>1. nav' = [Nav(Error, FALSE, <<Error>>) EXCEPT !.again = b]
          BY <1>4, <3>3 DEF GuardsFail
        <4>2. b \in BOOLEAN
          OBVIOUS
        <4> HIDE DEF b
        <4> QED BY <3>1, <4>1, <4>2 DEF Nav, Navs
      <3> QED BY <3>2, <3>3
    <2> QED BY <1>1, <2>1, <2>2 DEF TabsInv, Followed, StartInv
  <1>5. CASE Arrive
    <2>1. /\ nav.pending # NoPage /\ nav.loading /\ shown' = nav.pending
          /\ nav' = Nav(NoPage, FALSE, nav.waiting) /\ clicked' \in {clicked, NoPage}
          /\ cached' \in {{}, CacheWith(cached \cup {shown, nav.pending}, tabs.excluded)}
          /\ UNCHANGED <<routes, tabs>>
      BY <1>5 DEF Arrive
    <2>2. nav' \in Navs /\ ~nav'.loading /\ nav'.waiting = nav.waiting /\ nav'.pending = NoPage
      <3>1. NoPage \in Pages \cup {NoPage} /\ FALSE \in BOOLEAN /\ nav.waiting \in Seq(Pages)
        BY <1>1
      <3>2. nav' = Nav(NoPage, FALSE, nav.waiting)
        BY <2>1
      <3> QED BY ONLY <3>1, <3>2, NavIs
    <2>3. \A q \in cached' : /\ q \in KeptAlive /\ CompOf[q] \notin tabs.excluded
                             /\ q \in cached \/ q = shown \/ q = nav.pending
      BY <2>1, CacheIs
    <2>4. shown' \in Pages
      BY <1>1, <2>1
    <2>5. \A q \in KeptAlive \ HiddenPages : Followed(q)' => IsTracked(tabs', NameOf[q])
      BY <2>1, <2>2, <2>3 DEF TabsInv, Followed
    <2>6. shown' # NoPage
      BY <2>4, PagesAssumption
    <2>7. StartInv' /\ clicked' \in Pages \cup {NoPage}
      BY <2>1, <2>2 DEF TabsInv, StartInv
    <2> QED BY <1>1, <2>1, <2>2, <2>3, <2>4, <2>5, <2>6, <2>7 DEF TabsInv
  <1>6. CASE LoadFails
    <2>1. /\ nav' = Nav(NoPage, FALSE, nav.waiting) /\ shown # NoPage
          /\ UNCHANGED <<routes, tabs, shown, cached, clicked>>
      BY <1>6 DEF LoadFails
    <2>2. nav' \in Navs /\ ~nav'.loading /\ nav'.waiting = nav.waiting /\ nav'.pending = NoPage
      <3>1. NoPage \in Pages \cup {NoPage} /\ FALSE \in BOOLEAN /\ nav.waiting \in Seq(Pages)
        BY <1>1
      <3>2. nav' = Nav(NoPage, FALSE, nav.waiting)
        BY <2>1
      <3> QED BY ONLY <3>1, <3>2, NavIs
    <2>3. StartInv'
      BY <2>1, <2>2 DEF TabsInv, StartInv
    <2> QED BY <1>1, <2>1, <2>2, <2>3 DEF TabsInv, Followed
  <1> QED BY <1>2, <1>3, <1>4, <1>5, <1>6

LEMMA StartGood ==
    ASSUME TabsInv, RoutesRegistered \/ RoutesFail
    PROVE  TabsInv' /\ KeepsPinned(tabs, tabs')
  <1>1. Sound(tabs) /\ KeepsPinned(tabs, tabs) /\ nav \in Navs /\ nav.pending \in Pages
    BY SameTabs DEF TabsInv, StartInv, RoutesRegistered, RoutesFail
  <1>2. CASE RoutesRegistered
    <2>1. PICK p \in {nav.pending, Home, Setup} : Push(p, ValidateWorktabs(tabs))
      BY <1>2 DEF RoutesRegistered
    <2>2. ValidateWorktabs(tabs) = tabs /\ p \in Pages
      BY <1>1, TabsValidated, PagesAssumption
    <2>3. Rendered /\ routes' = "registered" /\ UNCHANGED <<shown, clicked>>
      BY <1>2 DEF RoutesRegistered
    <2> QED BY <1>1, <2>1, <2>2, <2>3, PushGood
  <1>3. CASE RoutesFail
    <2>1. /\ routes' = "failed" /\ nav' = Nav(Error, TRUE, <<>>) /\ shown = NoPage
          /\ UNCHANGED <<tabs, shown, cached, clicked>>
      BY <1>3 DEF RoutesFail, TabsInv, StartInv
    <2>2. <<>> \in Seq(Pages) /\ Error \in Pages \cup {NoPage} /\ TRUE \in BOOLEAN
      BY PagesAssumption
    <2>3. nav' \in Navs /\ nav'.pending = Error /\ nav'.waiting = <<>>
      BY <2>1, <2>2, NavIs
    <2>4. StartInv' /\ Error \notin KeptAlive
      BY <2>1, <2>3, PagesAssumption DEF StartInv
    <2> QED BY <1>1, <2>1, <2>3, <2>4 DEF TabsInv, Followed
  <1> QED BY <1>2, <1>3

LEMMA TabsStep ==
    ASSUME TabsInv, [Next]_vars
    PROVE  TabsInv' /\ KeepsPinned(tabs, tabs')
  <1>1. Sound(tabs) /\ KeepsPinned(tabs, tabs)
    BY SameTabs DEF TabsInv
  <1>2. CASE SelectRefresh
    <2>1. /\ cached' = CacheWith({shown}, tabs.excluded) /\ shown # NoPage
          /\ UNCHANGED <<routes, tabs, nav, shown, clicked>>
      BY <1>2 DEF SelectRefresh, InLayout
    <2>2. \A q \in cached' : q \in KeptAlive /\ q = shown /\ CompOf[q] \notin tabs.excluded
      BY <2>1, CacheIs
    <2> QED BY <1>1, <2>1, <2>2 DEF TabsInv, Followed, StartInv
  <1>3. CASE ReloadApp
    <2>1. PICK p \in Pages : nav' = Nav(p, FALSE, <<>>)
      BY <1>3 DEF ReloadApp, TabsInv
    <2>2. /\ routes' = "none" /\ tabs' = tabs
          /\ shown' = NoPage /\ cached' = {} /\ clicked' = NoPage
      BY <1>3 DEF ReloadApp
    <2>3. <<>> \in Seq(Pages) /\ FALSE \in BOOLEAN
      OBVIOUS
    <2>4. nav' \in Navs /\ ~nav'.loading /\ nav'.pending = p /\ nav'.waiting = <<>>
      BY <2>1, <2>3, NavIs
    <2>5. NoPage \notin KeptAlive
      BY PagesAssumption
    <2>6. StartInv'
      BY <2>2, <2>4 DEF StartInv
    <2> QED BY <1>1, <2>2, <2>4, <2>5, <2>6 DEF TabsInv, Followed
  <1>4. CASE UNCHANGED vars
    BY <1>1, <1>4 DEF TabsInv, Followed, StartInv, vars
  <1> QED BY <1>2, <1>3, <1>4, VisitGood, MenuGood, RouterGood, StartGood DEF Next, UserActs

LEMMA TabsStart == Init => TabsInv
  <1> SUFFICES ASSUME Init PROVE TabsInv
    OBVIOUS
  <1> DEFINE ts == [opened |-> <<>>, current |-> NoTab, excluded |-> {}]
  <1>1. <<>> \in Seq(Tab) /\ Len(<<>>) = 0
    OBVIOUS
  <1>2. ts \in TabStores /\ ts.opened = <<>> /\ ts.current = NoTab /\ ts.excluded = {}
    BY <1>1 DEF TabStores
  <1>3. /\ routes = "none" /\ tabs = ts /\ nav = Nav(Home, FALSE, <<>>)
        /\ shown = NoPage /\ cached = {} /\ clicked = NoPage
    BY DEF Init
  <1> HIDE DEF ts
  <1>4. Sound(ts)
    BY <1>1, <1>2 DEF Sound, OneTabPerName
  <1>5. Home \in Pages /\ NoPage \notin KeptAlive
    BY PagesAssumption
  <1>6. <<>> \in Seq(Pages)
    OBVIOUS
  <1>7. nav \in Navs /\ ~nav.loading /\ nav.pending = Home /\ nav.waiting = <<>>
    BY <1>3, <1>5, <1>6, NavIs
  <1>8. StartInv
    BY <1>3, <1>5, <1>7 DEF StartInv
  <1> QED BY <1>3, <1>4, <1>5, <1>7, <1>8 DEF TabsInv, Followed

LEMMA TabsAlways == Spec => []TabsInv
  BY TabsStart, TabsStep, PTL DEF Spec

\* The tab store, the router and the cache keep their shape (worktab.ts, art-work-tab/index.vue).
THEOREM TabsTyped == Spec => []TypeOK
  <1>1. TabsInv => TypeOK
    BY SoundShape DEF TabsInv, StartInv, TypeOK, Navs
  <1> QED BY <1>1, TabsAlways, PTL

\* However tabs are opened, closed, moved and pinned, and however many guards open theirs at
\* once, no two tabs have the same route name (worktab.ts, openTab and toggleFixedTab).
THEOREM OneTabPerRoute == Spec => []UniqueTabs
  <1>1. TabsInv => UniqueTabs
    BY DEF TabsInv, Sound, OneTabPerName, UniqueTabs
  <1> QED BY <1>1, TabsAlways, PTL

\* After every entry of the menu, cross and late guard the current tab of the store is one of its
\* tabs, with the same path and pin, and there is one as long as there are tabs (worktab.ts).
THEOREM CurrentTabIsOpen == Spec => []CurrentIsOpen
  <1>1. TabsInv => CurrentIsOpen
    BY DEF TabsInv, Sound, CurrentIsOpen
  <1> QED BY <1>1, TabsAlways, PTL

\* A tab that is open is never on the list of names the cache must drop, whatever was closed and
\* opened again in between (worktab.ts, keepAliveExclude).
THEOREM OpenTabsStayCached == Spec => []OpenIsNotExcluded
  <1>1. TabsInv => OpenIsNotExcluded
    BY DEF TabsInv, Sound, OpenIsNotExcluded
  <1> QED BY <1>1, TabsAlways, PTL

\* Whatever guards, answers, failures and reloads come in between, a page that is cached has a
\* tab: a closed page is not found again with its old contents (art-page-content/index.vue).
THEOREM ClosedPagesAreForgotten == Spec => []ClosedIsForgotten
  <1>1. TabsInv => ClosedIsForgotten
    <2> SUFFICES ASSUME TabsInv, NEW q \in cached \ HiddenPages, CompOf[q] = NameOf[q]
                 PROVE  IndexOfName(tabs, NameOf[q]) # 0
      BY DEF ClosedIsForgotten
    <2>1. HasName(tabs, NameOf[q])
      BY DEF TabsInv, Followed, IsTracked
    <2>2. PICK t \in ToSet(tabs.opened) : NameOf[t.path] = NameOf[q]
      BY <2>1 DEF HasName
    <2>3. tabs.opened \in Seq(Tab) /\ ToSet(tabs.opened) = {tabs.opened[i] : i \in 1 .. Len(tabs.opened)}
      BY SoundShape DEF TabsInv
    <2> QED BY <2>2, <2>3, IndexOfNameIs
  <1> QED BY <1>1, TabsAlways, PTL

\* No entry of the menu, no cross, no guard and no start closes a pinned tab (worktab.ts).
THEOREM PinnedTabsStay == Spec => PinnedStay
  <1>1. TabsInv /\ [Next]_vars =>
            [\A t \in ToSet(tabs.opened) :
                t.fixed => \E u \in ToSet(tabs'.opened) : NameOf[u.path] = NameOf[t.path]]_tabs
    BY TabsStep DEF KeepsPinned, HasName
  <1> QED BY <1>1, TabsAlways, PTL DEF Spec, PinnedStay
=============================================================================

----------------------------- MODULE PageAccess -----------------------------
(***************************************************************************)
(* Which pages a user may open: the two web front ends side by side.       *)
(*                                                                         *)
(* The Vue application (static/) and the React application (static-react/) *)
(* each keep a table of their pages and the rule of each page; nothing in  *)
(* the build compares the two, and they apply their rules differently.     *)
(*                                                                         *)
(*   Vue    asks /me once, at the start, filters its route tree by what it *)
(*          was told, and registers what is left with the router; later it *)
(*          asks /me on each navigation, but only for the profile lock;    *)
(*   React  keeps all pages registered, and asks the rule of a page on     *)
(*          each visit, with the rights it was told at its start or on its *)
(*          last visit of the characters page.                             *)
(*                                                                         *)
(* The same user follows the same links in both.  Load(p) enters page p in *)
(* the address bar (both applications start anew), Open(p) follows a link  *)
(* to p inside them, Change is the server giving the user other rights.    *)
(* A page is a pair <<group, name>>; a page at the top level is the only   *)
(* page of a group of its own.                                             *)
(***************************************************************************)
EXTENDS Naturals

CONSTANTS
    Rights,      \* what /me may say of the user: roles, capabilities, marks
    Later,       \* what it may say after a change
    MaxChanges   \* bound: changes of the user's rights

(* newbro and mentee are the eligibility marks; locked says that the        *)
(* profile is incomplete or a character's ESI token is invalid.             *)
ASSUME RightsAssumption ==
    /\ \A r \in Rights : /\ DOMAIN r = {"roles", "caps", "newbro", "mentee", "locked"}
                         /\ {r.newbro, r.mentee, r.locked} \subseteq BOOLEAN
    /\ Later \subseteq Rights

ASSUME MaxChangesAssumption == MaxChanges \in Nat

VARIABLES
    rights,      \* what the server would answer to /me now
    vue,         \* [base: the rights the routes were registered with, at: the page]
    react,       \* [known: the rights in the session store, at: the page]
    changes      \* changes so far

vars == <<rights, vue, react, changes>>

-----------------------------------------------------------------------------
(* The rules.                                                              *)

(* A route's meta: it needs a role that is not guest (login), one of the   *)
(* roles, all and one of the capabilities, a mark; a hidden page has no    *)
(* menu entry.  No roles and no capabilities mean no such demand.          *)
Rule(login, roles, all, any) ==
    [login |-> login, roles |-> roles, all |-> all, any |-> any,
     newbro |-> FALSE, mentee |-> FALSE, hidden |-> FALSE]

Free == Rule(FALSE, {}, {}, {})
LoginOnly == Rule(TRUE, {}, {}, {})
Hidden(m) == [m EXCEPT !.hidden = TRUE]

Administrators == {"super_admin", "admin"}
SystemCapabilities ==
    {"system.audit.read", "system.basic_config.read", "system.manage",
     "system.task.read", "system.wallet.read"}

HasNonGuestRole(r) == \E x \in r.roles : x # "guest"

HasCapability(r, m) ==
    \/ "super_admin" \in r.roles
    \/ /\ m.all \subseteq r.caps
       /\ m.any = {} \/ \E c \in m.any : c \in r.caps

(* React: evaluateRouteAccess of a user who is logged in.                  *)
Satisfies(r, m) ==
    /\ m.login => HasNonGuestRole(r)
    /\ m.roles = {} \/ \E x \in m.roles : x \in r.roles
    /\ HasCapability(r, m)
    /\ m.newbro => r.newbro
    /\ m.mentee => r.mentee

(* Vue: the test of applyMenuAccessFilter for one node of the route tree.  *)
ItemVisible(r, m) ==
    /\ m.roles = {} \/ \E x \in m.roles : x \in r.roles
    /\ HasCapability(r, m)
    /\ m.login => HasNonGuestRole(r)
    /\ m.newbro => r.newbro
    /\ m.mentee => r.mentee

-----------------------------------------------------------------------------
(* React's table: one rule for each page.                                  *)

ReactCharacters ==
    [characters |-> Free]

ReactDashboard ==
    [console                 |-> Rule(TRUE, {}, {}, {"menu.dashboard"}),
     npc_kills               |-> Rule(TRUE, Administrators,
                                      {"dashboard.npc_kills.corp", "info.npc_kills.corp", "menu.dashboard"}, {}),
     corporation_structures  |-> Rule(TRUE, Administrators, {}, {"menu.dashboard"}),
     fuel_officer_structures |-> Rule(TRUE,
                                      {"fuel_officer", "super_admin"}, {}, {"menu.dashboard"}),
     galaxy_registry         |-> Rule(TRUE, Administrators \cup {"captain", "user"},
                                      {}, {"menu.dashboard"})]

ReactFuxiHall ==
    [leadership   |-> Rule(TRUE, {}, {}, {"menu.fuxi_hall"}),
     contributors |-> Rule(TRUE, {}, {}, {"menu.fuxi_hall"}),
     manage       |-> Rule(TRUE, Administrators, {}, {"menu.fuxi_hall"})]

ReactInfo ==
    [wallet         |-> Rule(TRUE, {}, {"info.wallet.read", "menu.info"}, {}),
     skill          |-> Rule(TRUE, {}, {"info.skills.read", "menu.info"}, {}),
     npc_kills      |-> Rule(TRUE, {}, {"info.npc_kills.self", "menu.info"}, {}),
     ships          |-> Rule(TRUE, {}, {}, {"menu.info"}),
     implants       |-> Rule(TRUE, {}, {}, {"menu.info"}),
     fittings       |-> Rule(TRUE, {}, {"info.fittings.manage", "menu.info"}, {}),
     assets         |-> Rule(TRUE, {}, {"info.assets.read", "menu.info"}, {}),
     contracts      |-> Rule(TRUE, {}, {"info.contracts.read", "menu.info"}, {}),
     esi_check      |-> Rule(TRUE, {}, {}, {"menu.info"}),
     tool_bookmarks |-> Rule(TRUE, {}, {}, {"menu.info"})]

ReactOperation ==
    [fleets          |-> Rule(TRUE, Administrators \cup {"fc", "senior_fc"},
                              {}, {"menu.operation"}),
     fleet_configs   |-> Rule(TRUE, {}, {}, {"menu.operation"}),
     fleet_detail    |-> Hidden(Rule(TRUE, Administrators \cup {"fc", "senior_fc"},
                                {}, {"menu.operation"})),
     corporation_pap |-> Rule(TRUE, {}, {}, {"menu.operation"}),
     pap             |-> Rule(TRUE, {}, {}, {"menu.operation"}),
     join            |-> Hidden(Rule(TRUE, {}, {}, {"menu.operation"}))]

\* Mutant: a page added without the capability of its menu.
ReactSkillPlanningUngated ==
    [completion_check     |-> LoginOnly,
     skill_plans          |-> Rule(TRUE, {}, {}, {"menu.skill_planning"}),
     personal_skill_plans |-> Rule(TRUE, {}, {}, {"menu.skill_planning"})]

ReactSkillPlanning ==
    [completion_check     |-> Rule(TRUE, {}, {}, {"menu.skill_planning"}),
     skill_plans          |-> Rule(TRUE, {}, {}, {"menu.skill_planning"}),
     personal_skill_plans |-> Rule(TRUE, {}, {}, {"menu.skill_planning"})]

ReactWelfare ==
    [my       |-> Rule(TRUE, {}, {}, {"welfare.user"}),
     approval |-> Rule(TRUE, Administrators \cup {"welfare"}, {}, {"welfare.approval"}),
     settings |-> Rule(TRUE, Administrators \cup {"welfare"}, {}, {"welfare.settings"})]

ReactNewbro ==
    [select_captain |-> [Rule(TRUE, {}, {}, {"menu.newbro"}) EXCEPT !.newbro = TRUE],
     select_mentor  |-> [Rule(TRUE, {}, {}, {"menu.newbro"}) EXCEPT !.mentee = TRUE],
     captain        |-> Rule(TRUE, {"captain", "super_admin"}, {}, {"menu.newbro"}),
     mentor         |-> Rule(TRUE, {"mentor", "super_admin"}, {}, {"menu.newbro"}),
     manage         |-> Rule(TRUE, Administrators \cup {"captain"}, {}, {"menu.newbro"}),
     mentor_manage  |-> Rule(TRUE, Administrators, {}, {"menu.newbro"}),
     recruit_link   |-> Rule(TRUE, {}, {}, {"menu.newbro"})]

ReactShop ==
    [browse       |-> Rule(TRUE, {}, {"menu.shop", "shop.order.read_self"}, {}),
     manage       |-> Rule(TRUE, Administrators,
                           {"menu.shop", "shop.admin.product.manage", "shop.manage"}, {}),
     order_manage |-> Rule(TRUE, Administrators \cup {"shop_order_manage"},
                           {"menu.shop", "shop.admin.order.manage", "shop.manage"}, {}),
     wallet       |-> Rule(TRUE, {}, {"menu.shop", "shop.wallet.read"}, {})]

ReactSrp ==
    [srp_apply  |-> Rule(TRUE, {}, {}, {"srp.user"}),
     srp_manage |-> Rule(TRUE, Administrators \cup {"senior_fc", "srp"}, {}, {"srp.manage"}),
     srp_prices |-> Rule(TRUE, Administrators \cup {"senior_fc", "srp"}, {}, {"srp.manage"})]

ReactTicket ==
    [my_tickets   |-> Rule(TRUE, {}, {}, {"menu.ticket"}),
     create       |-> Rule(TRUE, {}, {"menu.ticket", "ticket.user.create"}, {}),
     detail       |-> Hidden(Rule(TRUE, {}, {}, {"menu.ticket"})),
     management   |-> Rule(TRUE, Administrators,
                           {"menu.ticket", "ticket.admin.read", "ticket.manage"}, {}),
     categories   |-> Rule(TRUE, Administrators,
                           {"menu.ticket", "ticket.admin.read", "ticket.manage"}, {}),
     statistics   |-> Rule(TRUE, Administrators,
                           {"menu.ticket", "ticket.admin.read", "ticket.manage"}, {}),
     admin_detail |-> Hidden(Rule(TRUE, Administrators,
                             {"menu.ticket", "ticket.admin.read", "ticket.manage"}, {}))]

ReactSystem ==
    [user          |-> Rule(TRUE, Administrators, {}, {"system.manage"}),
     task_manager  |-> Rule(TRUE, Administrators, {}, {"system.task.read"}),
     wallet        |-> Rule(TRUE, Administrators, {}, {"system.wallet.read"}),
     audit         |-> Rule(TRUE, Administrators, {}, {"system.audit.read"}),
     pap_exchange  |-> Rule(TRUE, Administrators, {}, {"system.manage"}),
     pap           |-> Rule(TRUE, Administrators, {}, {"system.manage"}),
     auto_role     |-> Rule(FALSE, {"super_admin"}, {}, {}),
     user_center   |-> Hidden(Rule(FALSE, Administrators, {}, SystemCapabilities)),
     webhook       |-> Rule(TRUE, {"super_admin"}, {}, {"system.manage"}),
     basic_config  |-> Rule(TRUE, {"super_admin"}, {}, {"system.basic_config.read"}),
     qq_governance |-> Rule(TRUE, {"super_admin"}, {}, {"system.manage"})]

ReactRoutes ==
    [characters     |-> ReactCharacters,
     dashboard      |-> ReactDashboard,
     fuxi_hall      |-> ReactFuxiHall,
     info           |-> ReactInfo,
     operation      |-> ReactOperation,
     skill_planning |-> ReactSkillPlanning,
     welfare        |-> ReactWelfare,
     newbro         |-> ReactNewbro,
     shop           |-> ReactShop,
     srp            |-> ReactSrp,
     ticket         |-> ReactTicket,
     system         |-> ReactSystem]

-----------------------------------------------------------------------------
(* Vue's tree: a rule for each group and one for each page of it.          *)

VueCharacters == [rule |-> Free, pages |-> [characters |-> Free]]

VueDashboard ==
    [rule  |-> Rule(TRUE, {}, {}, {"menu.dashboard"}),
     pages |->
      [console                 |-> Free,
       npc_kills               |-> Rule(FALSE, Administrators,
                                        {"dashboard.npc_kills.corp", "info.npc_kills.corp"}, {}),
       corporation_structures  |-> Rule(FALSE, Administrators, {}, {}),
       fuel_officer_structures |-> Rule(FALSE, {"fuel_officer", "super_admin"}, {}, {}),
       galaxy_registry         |-> Rule(FALSE, Administrators \cup {"captain", "user"}, {}, {})]]

VueFuxiHall ==
    [rule  |-> Rule(TRUE, {}, {}, {"menu.fuxi_hall"}),
     pages |->
      [leadership   |-> LoginOnly,
       contributors |-> LoginOnly,
       manage       |-> Rule(FALSE, Administrators, {}, {})]]

VueInfo ==
    [rule  |-> Rule(TRUE, {}, {}, {"menu.info"}),
     pages |->
      [wallet         |-> Rule(TRUE, {}, {}, {"info.wallet.read"}),
       skill          |-> Rule(TRUE, {}, {}, {"info.skills.read"}),
       npc_kills      |-> Rule(TRUE, {}, {}, {"info.npc_kills.self"}),
       ships          |-> LoginOnly,
       implants       |-> LoginOnly,
       fittings       |-> Rule(TRUE, {}, {}, {"info.fittings.manage"}),
       assets         |-> Rule(TRUE, {}, {}, {"info.assets.read"}),
       contracts      |-> Rule(TRUE, {}, {}, {"info.contracts.read"}),
       esi_check      |-> LoginOnly,
       tool_bookmarks |-> LoginOnly]]

VueOperation ==
    [rule  |-> Rule(TRUE, {}, {}, {"menu.operation"}),
     pages |->
      [fleets          |-> Rule(FALSE, Administrators \cup {"fc", "senior_fc"}, {}, {}),
       fleet_configs   |-> LoginOnly,
       fleet_detail    |-> Hidden(Rule(FALSE, Administrators \cup {"fc", "senior_fc"}, {}, {})),
       corporation_pap |-> LoginOnly,
       pap             |-> LoginOnly,
       join            |-> Hidden(LoginOnly)]]

VueSkillPlanning ==
    [rule  |-> Rule(TRUE, {}, {}, {"menu.skill_planning"}),
     pages |->
      [completion_check     |-> LoginOnly,
       skill_plans          |-> LoginOnly,
       personal_skill_plans |-> LoginOnly]]

VueWelfare ==
    [rule  |-> Rule(TRUE, {}, {}, {"welfare.approval", "welfare.settings", "welfare.user"}),
     pages |->
      [my       |-> Rule(TRUE, {}, {}, {"welfare.user"}),
       approval |-> Rule(FALSE, Administrators \cup {"welfare"}, {}, {"welfare.approval"}),
       settings |-> Rule(FALSE, Administrators \cup {"welfare"}, {}, {"welfare.settings"})]]

VueNewbro ==
    [rule  |-> Rule(TRUE, {}, {}, {"menu.newbro"}),
     pages |->
      [select_captain |-> [LoginOnly EXCEPT !.newbro = TRUE],
       select_mentor  |-> [LoginOnly EXCEPT !.mentee = TRUE],
       captain        |-> Rule(FALSE, {"captain", "super_admin"}, {}, {}),
       mentor         |-> Rule(FALSE, {"mentor", "super_admin"}, {}, {}),
       manage         |-> Rule(FALSE, Administrators \cup {"captain"}, {}, {}),
       mentor_manage  |-> Rule(FALSE, Administrators, {}, {}),
       recruit_link   |-> LoginOnly]]

VueShop ==
    [rule  |-> Rule(TRUE, {}, {}, {"menu.shop"}),
     pages |->
      [browse       |-> Rule(FALSE, {}, {}, {"shop.order.read_self"}),
       manage       |-> Rule(FALSE, Administrators, {"shop.admin.product.manage", "shop.manage"}, {}),
       order_manage |-> Rule(FALSE, Administrators \cup {"shop_order_manage"},
                             {"shop.admin.order.manage", "shop.manage"}, {}),
       wallet       |-> Rule(FALSE, {}, {}, {"shop.wallet.read"})]]

VueSrp ==
    [rule  |-> Rule(TRUE, {}, {}, {"srp.manage", "srp.user"}),
     pages |->
      [srp_apply  |-> Rule(TRUE, {}, {}, {"srp.user"}),
       srp_manage |-> Rule(FALSE, Administrators \cup {"senior_fc", "srp"}, {}, {"srp.manage"}),
       srp_prices |-> Rule(FALSE, Administrators \cup {"senior_fc", "srp"}, {}, {"srp.manage"})]]

VueTicket ==
    [rule  |-> Rule(TRUE, {}, {}, {"menu.ticket"}),
     pages |->
      [my_tickets   |-> LoginOnly,
       create       |-> Rule(TRUE, {}, {}, {"ticket.user.create"}),
       detail       |-> Hidden(LoginOnly),
       management   |-> Rule(FALSE, Administrators, {"ticket.admin.read", "ticket.manage"}, {}),
       categories   |-> Rule(FALSE, Administrators, {"ticket.admin.read", "ticket.manage"}, {}),
       statistics   |-> Rule(FALSE, Administrators, {"ticket.admin.read", "ticket.manage"}, {}),
       admin_detail |-> Hidden(Rule(FALSE, Administrators,
                               {"ticket.admin.read", "ticket.manage"}, {}))]]

VueSystem ==
    [rule  |-> Rule(FALSE, Administrators, {}, SystemCapabilities),
     pages |->
      [user          |-> Rule(FALSE, Administrators, {}, {"system.manage"}),
       task_manager  |-> Rule(FALSE, Administrators, {}, {"system.task.read"}),
       wallet        |-> Rule(FALSE, Administrators, {}, {"system.wallet.read"}),
       audit         |-> Rule(FALSE, Administrators, {}, {"system.audit.read"}),
       pap_exchange  |-> Rule(FALSE, Administrators, {}, {"system.manage"}),
       pap           |-> Rule(FALSE, Administrators, {}, {"system.manage"}),
       auto_role     |-> Rule(FALSE, {"super_admin"}, {}, {}),
       user_center   |-> Hidden(Free),
       webhook       |-> Rule(FALSE, {"super_admin"}, {}, {"system.manage"}),
       basic_config  |-> Rule(FALSE, {"super_admin"}, {}, {"system.basic_config.read"}),
       qq_governance |-> Rule(FALSE, {"super_admin"}, {}, {"system.manage"})]]

VueRoutes ==
    [characters     |-> VueCharacters,
     dashboard      |-> VueDashboard,
     fuxi_hall      |-> VueFuxiHall,
     info           |-> VueInfo,
     operation      |-> VueOperation,
     skill_planning |-> VueSkillPlanning,
     welfare        |-> VueWelfare,
     newbro         |-> VueNewbro,
     shop           |-> VueShop,
     srp            |-> VueSrp,
     ticket         |-> VueTicket,
     system         |-> VueSystem]

-----------------------------------------------------------------------------
(* What the rights r give in each application.                             *)

ReactPages == UNION {{<<g, c>> : c \in DOMAIN ReactRoutes[g]} : g \in DOMAIN ReactRoutes}
VuePages == UNION {{<<g, c>> : c \in DOMAIN VueRoutes[g].pages} : g \in DOMAIN VueRoutes}

Pages == ReactPages \cup VuePages
Characters == <<"characters", "characters">>
NotFound == <<"exception", "404">>
Forbidden == <<"exception", "403">>

ReactRule(p) == ReactRoutes[p[1]][p[2]]
VueRule(p) == VueRoutes[p[1]].pages[p[2]]

(* RouteAccessGate lets r into page p; the entries of the side menu.       *)
ReactGrants(r, p) == p \in ReactPages /\ Satisfies(r, ReactRule(p))

\* Mutant: hidden pages are listed.
ReactMenuWithHidden(r) == {p \in ReactPages : ReactGrants(r, p)}

ReactMenu(r) == {p \in ReactPages : ReactGrants(r, p) /\ ~ReactRule(p).hidden}

(* Page p is left of the tree: the group and the page are visible (a group *)
(* without a visible page is pruned); the entries of the menu.             *)
VueGrants(r, p) ==
    /\ p \in VuePages
    /\ ItemVisible(r, VueRoutes[p[1]].rule)
    /\ ItemVisible(r, VueRule(p))
VueMenu(r) == {p \in VuePages : VueGrants(r, p) /\ ~VueRule(p).hidden}

(* RoutePermissionValidator.validatePath: p is an entry of the menu, or    *)
(* its path begins with that of an entry, which the groups are too.        *)
HasPermissionExactly(r, p) == VueGrants(r, p) /\ ~VueRule(p).hidden   \* mutant: the prefix is not tried

HasPermission(r, p) ==
    \/ VueGrants(r, p) /\ ~VueRule(p).hidden
    \/ \E q \in VuePages : q[1] = p[1] /\ VueGrants(r, q)

(* The home page is the first entry of the menu (menu.ts), which is the    *)
(* characters page for every user.                                         *)
Home == Characters

-----------------------------------------------------------------------------
(* The applications.                                                       *)

(* React's gates for page p when the session store holds known: the shell's *)
(* (the profile lock), then the page's.  The characters page asks /me.     *)
ReactAt(known, p) ==
    LET q == IF known.locked THEN Characters
             ELSE IF ReactGrants(known, p) THEN p ELSE Forbidden IN
    [known |-> IF q = Characters THEN rights ELSE known, at |-> q]

(* Vue's router at p: registered, or the catch-all page.                   *)
VueAt(base, p) == [base |-> base, at |-> IF VueGrants(base, p) THEN p ELSE NotFound]

(* handleDynamicRoutes: a locked user is sent to the characters page, one  *)
(* without permission for p to the home page.                              *)
VueStart(p) ==
    VueAt(rights, IF rights.locked THEN Characters
                  ELSE IF HasPermission(rights, p) THEN p ELSE Home)

(* The guard on a later navigation: the lock is asked for again, except on *)
(* the way to the characters page; a link to the page shown does nothing.  *)
\* Mutant: the lock as it was at the start.
VueFollowRemembering(p) ==
    IF vue.at = p THEN vue
    ELSE VueAt(vue.base, IF vue.base.locked THEN Characters ELSE p)

VueFollow(p) ==
    IF vue.at = p THEN vue
    ELSE VueAt(vue.base, IF rights.locked THEN Characters ELSE p)

ReactFollow(p) == IF react.at = p THEN react ELSE ReactAt(react.known, p)

Init ==
    /\ rights \in Rights
    /\ vue = [base |-> rights, at |-> Characters]
    /\ react = [known |-> rights, at |-> Characters]
    /\ changes = 0

Load(p) ==
    /\ vue' = VueStart(p)
    /\ react' = ReactAt(rights, p)
    /\ UNCHANGED <<rights, changes>>

Open(p) ==
    /\ vue' = VueFollow(p)
    /\ react' = ReactFollow(p)
    /\ UNCHANGED <<rights, changes>>

Change ==
    /\ changes < MaxChanges
    /\ rights' \in Later \ {rights}
    /\ changes' = changes + 1
    /\ UNCHANGED <<vue, react>>

Next ==
    \/ \E p \in Pages : Load(p) \/ Open(p)
    \/ Change

Spec == Init /\ [][Next]_vars

-----------------------------------------------------------------------------
(* Properties.                                                             *)

(* The rights of each application are rights the server gives at some time, *)
(* and each shows a page of its own table or one of its error pages.       *)
TypeOK ==
    /\ rights \in Rights
    /\ vue.base \in Rights /\ vue.at \in VuePages \cup {NotFound}
    /\ react.known \in Rights /\ react.at \in ReactPages \cup {Forbidden}
    /\ changes \in 0..MaxChanges

(* Neither application works with rights the user no longer has.           *)
Settled == vue.base = rights /\ react.known = rights

Visit(p) == Load(p) \/ Open(p)

(* As long as neither application is behind the server, every page that    *)
(* can be reached by its address or by a link in one can be reached in the *)
(* other (no visit ends at its page in only one of them): the rules of the *)
(* two tables, of Vue's groups and of the prefix test come to the same for *)
(* every user.                                                             *)
SameAccess ==
    [][\A p \in Pages : Settled /\ (vue'.at = p) # (react'.at = p) => ~Visit(p)]_vars

(* Two applications that were told the same offer the same menu entries:   *)
(* the tables hide the same pages and neither rule set shows one more.     *)
SameMenu == vue.base = react.known => VueMenu(vue.base) = ReactMenu(react.known)

(* A page that is open stays when its address is loaded again, hidden      *)
(* pages (a ticket, a fleet) included: Vue's test at the start, which      *)
(* knows menu entries only, must not turn them away.                       *)
ReloadReturns ==
    [][\A p \in Pages :
            /\ Settled /\ ~rights.locked /\ p \in {vue.at, react.at}
            /\ Load(p)
            => /\ vue.at = p => vue'.at = p
               /\ react.at = p => react'.at = p]_vars

(* The profile lock wins over every other rule: a locked user who moves in *)
(* Vue ends on the characters page, by an address or by a link, whatever   *)
(* the routes were registered with; and React shows no other page once it  *)
(* was told of the lock (both land on /characters).                        *)
LockedLandOnCharacters ==
    [][rights.locked => /\ vue' # vue => vue'.at = Characters
                        /\ react'.known.locked => react'.at = Characters]_vars
=============================================================================

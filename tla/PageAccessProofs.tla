-------------------------- MODULE PageAccessProofs --------------------------
(***************************************************************************)
(* The two front ends agree on the pages of every user, whatever roles and *)
(* capabilities there are: the tables are compared page by page, and what  *)
(* the applications do with them from there on by an inductive invariant.  *)
(***************************************************************************)
EXTENDS PageAccess, TLAPS

-----------------------------------------------------------------------------
(* The tables.                                                             *)

(* Rule s of a React page comes to the same as the rules g and v of Vue's  *)
(* group and page, and both hide the page or neither.                      *)
Match(r, g, v, s) ==
    /\ v.hidden = s.hidden
    /\ Satisfies(r, s) <=> ItemVisible(r, g) /\ ItemVisible(r, v)

Agree(r, vueGroup, reactGroup) ==
    /\ DOMAIN vueGroup.pages = DOMAIN reactGroup
    /\ \A c \in DOMAIN reactGroup : Match(r, vueGroup.rule, vueGroup.pages[c], reactGroup[c])

(* One capability asked by the group and one by the page are two asked by  *)
(* the page.                                                               *)
LEMMA BothCapabilities ==
    ASSUME NEW r, NEW a, NEW b
    PROVE  Match(r, Rule(TRUE, {}, {}, {b}), Rule(TRUE, {}, {}, {a}), Rule(TRUE, {}, {a, b}, {}))
BY DEF Match, Satisfies, ItemVisible, HasCapability, Rule

(* The rules of the Characters group. *)
LEMMA CharactersAgrees == ASSUME NEW r PROVE Agree(r, VueCharacters, ReactCharacters)
<1>1. /\ DOMAIN ReactCharacters = {"characters"}
      /\ DOMAIN VueCharacters.pages = DOMAIN ReactCharacters
  BY DEF VueCharacters, ReactCharacters
<1>2. Match(r, VueCharacters.rule, VueCharacters.pages.characters,
            ReactCharacters.characters)
  BY DEF VueCharacters, ReactCharacters, Free,
         Match, ItemVisible, Satisfies, HasCapability, HasNonGuestRole, Rule
<1> QED BY <1>1, <1>2 DEF Agree

(* The rules of the Dashboard group. *)
LEMMA DashboardAgrees == ASSUME NEW r PROVE Agree(r, VueDashboard, ReactDashboard)
<1>1. /\ DOMAIN ReactDashboard = {"console", "npc_kills", "corporation_structures",
                               "fuel_officer_structures", "galaxy_registry"}
      /\ DOMAIN VueDashboard.pages = DOMAIN ReactDashboard
  BY DEF VueDashboard, ReactDashboard
<1>2. Match(r, VueDashboard.rule, VueDashboard.pages.console, ReactDashboard.console)
  BY DEF VueDashboard, ReactDashboard, Free,
         Match, ItemVisible, Satisfies, HasCapability, HasNonGuestRole, Rule
<1>3. Match(r, VueDashboard.rule, VueDashboard.pages.npc_kills,
            ReactDashboard.npc_kills)
  BY DEF VueDashboard, ReactDashboard, Administrators,
         Match, ItemVisible, Satisfies, HasCapability, HasNonGuestRole, Rule
<1>4. Match(r, VueDashboard.rule, VueDashboard.pages.corporation_structures,
            ReactDashboard.corporation_structures)
  BY DEF VueDashboard, ReactDashboard, Administrators,
         Match, ItemVisible, Satisfies, HasCapability, HasNonGuestRole, Rule
<1>5. Match(r, VueDashboard.rule, VueDashboard.pages.fuel_officer_structures,
            ReactDashboard.fuel_officer_structures)
  BY DEF VueDashboard, ReactDashboard,
         Match, ItemVisible, Satisfies, HasCapability, HasNonGuestRole, Rule
<1>6. Match(r, VueDashboard.rule, VueDashboard.pages.galaxy_registry,
            ReactDashboard.galaxy_registry)
  BY DEF VueDashboard, ReactDashboard, Administrators,
         Match, ItemVisible, Satisfies, HasCapability, HasNonGuestRole, Rule
<1> QED BY <1>1, <1>2, <1>3, <1>4, <1>5, <1>6 DEF Agree

(* The rules of the FuxiHall group. *)
LEMMA FuxiHallAgrees == ASSUME NEW r PROVE Agree(r, VueFuxiHall, ReactFuxiHall)
<1>1. /\ DOMAIN ReactFuxiHall = {"leadership", "contributors", "manage"}
      /\ DOMAIN VueFuxiHall.pages = DOMAIN ReactFuxiHall
  BY DEF VueFuxiHall, ReactFuxiHall
<1>2. Match(r, VueFuxiHall.rule, VueFuxiHall.pages.leadership, ReactFuxiHall.leadership)
  BY DEF VueFuxiHall, ReactFuxiHall, LoginOnly,
         Match, ItemVisible, Satisfies, HasCapability, HasNonGuestRole, Rule
<1>3. Match(r, VueFuxiHall.rule, VueFuxiHall.pages.contributors,
            ReactFuxiHall.contributors)
  BY DEF VueFuxiHall, ReactFuxiHall, LoginOnly,
         Match, ItemVisible, Satisfies, HasCapability, HasNonGuestRole, Rule
<1>4. Match(r, VueFuxiHall.rule, VueFuxiHall.pages.manage, ReactFuxiHall.manage)
  BY DEF VueFuxiHall, ReactFuxiHall, Administrators,
         Match, ItemVisible, Satisfies, HasCapability, HasNonGuestRole, Rule
<1> QED BY <1>1, <1>2, <1>3, <1>4 DEF Agree

(* The rules of the Info group. *)
LEMMA InfoAgrees == ASSUME NEW r PROVE Agree(r, VueInfo, ReactInfo)
<1>1. /\ DOMAIN ReactInfo = {"wallet", "skill", "npc_kills", "ships", "implants",
                               "fittings", "assets", "contracts", "esi_check", "tool_bookmarks"}
      /\ DOMAIN VueInfo.pages = DOMAIN ReactInfo
  BY DEF VueInfo, ReactInfo
<1>2. Match(r, VueInfo.rule, VueInfo.pages.wallet, ReactInfo.wallet)
  BY BothCapabilities DEF VueInfo, ReactInfo
<1>3. Match(r, VueInfo.rule, VueInfo.pages.skill, ReactInfo.skill)
  BY BothCapabilities DEF VueInfo, ReactInfo
<1>4. Match(r, VueInfo.rule, VueInfo.pages.npc_kills, ReactInfo.npc_kills)
  BY BothCapabilities DEF VueInfo, ReactInfo
<1>5. Match(r, VueInfo.rule, VueInfo.pages.ships, ReactInfo.ships)
  BY DEF VueInfo, ReactInfo, LoginOnly,
         Match, ItemVisible, Satisfies, HasCapability, HasNonGuestRole, Rule
<1>6. Match(r, VueInfo.rule, VueInfo.pages.implants, ReactInfo.implants)
  BY DEF VueInfo, ReactInfo, LoginOnly,
         Match, ItemVisible, Satisfies, HasCapability, HasNonGuestRole, Rule
<1>7. Match(r, VueInfo.rule, VueInfo.pages.fittings, ReactInfo.fittings)
  BY BothCapabilities DEF VueInfo, ReactInfo
<1>8. Match(r, VueInfo.rule, VueInfo.pages.assets, ReactInfo.assets)
  BY BothCapabilities DEF VueInfo, ReactInfo
<1>9. Match(r, VueInfo.rule, VueInfo.pages.contracts, ReactInfo.contracts)
  BY BothCapabilities DEF VueInfo, ReactInfo
<1>10. Match(r, VueInfo.rule, VueInfo.pages.esi_check, ReactInfo.esi_check)
  BY DEF VueInfo, ReactInfo, LoginOnly,
         Match, ItemVisible, Satisfies, HasCapability, HasNonGuestRole, Rule
<1>11. Match(r, VueInfo.rule, VueInfo.pages.tool_bookmarks, ReactInfo.tool_bookmarks)
  BY DEF VueInfo, ReactInfo, LoginOnly,
         Match, ItemVisible, Satisfies, HasCapability, HasNonGuestRole, Rule
<1> QED BY <1>1, <1>2, <1>3, <1>4, <1>5, <1>6, <1>7, <1>8, <1>9, <1>10, <1>11 DEF Agree

(* The rules of the Operation group. *)
LEMMA OperationAgrees == ASSUME NEW r PROVE Agree(r, VueOperation, ReactOperation)
<1>1. /\ DOMAIN ReactOperation = {"fleets", "fleet_configs", "fleet_detail",
                               "corporation_pap", "pap", "join"}
      /\ DOMAIN VueOperation.pages = DOMAIN ReactOperation
  BY DEF VueOperation, ReactOperation
<1>2. Match(r, VueOperation.rule, VueOperation.pages.fleets, ReactOperation.fleets)
  BY DEF VueOperation, ReactOperation, Administrators,
         Match, ItemVisible, Satisfies, HasCapability, HasNonGuestRole, Rule
<1>3. Match(r, VueOperation.rule, VueOperation.pages.fleet_configs,
            ReactOperation.fleet_configs)
  BY DEF VueOperation, ReactOperation, LoginOnly,
         Match, ItemVisible, Satisfies, HasCapability, HasNonGuestRole, Rule
<1>4. Match(r, VueOperation.rule, VueOperation.pages.fleet_detail,
            ReactOperation.fleet_detail)
  BY DEF VueOperation, ReactOperation, Hidden, Administrators,
         Match, ItemVisible, Satisfies, HasCapability, HasNonGuestRole, Rule
<1>5. Match(r, VueOperation.rule, VueOperation.pages.corporation_pap,
            ReactOperation.corporation_pap)
  BY DEF VueOperation, ReactOperation, LoginOnly,
         Match, ItemVisible, Satisfies, HasCapability, HasNonGuestRole, Rule
<1>6. Match(r, VueOperation.rule, VueOperation.pages.pap, ReactOperation.pap)
  BY DEF VueOperation, ReactOperation, LoginOnly,
         Match, ItemVisible, Satisfies, HasCapability, HasNonGuestRole, Rule
<1>7. Match(r, VueOperation.rule, VueOperation.pages.join, ReactOperation.join)
  BY DEF VueOperation, ReactOperation, Hidden, LoginOnly,
         Match, ItemVisible, Satisfies, HasCapability, HasNonGuestRole, Rule
<1> QED BY <1>1, <1>2, <1>3, <1>4, <1>5, <1>6, <1>7 DEF Agree

(* The rules of the SkillPlanning group. *)
LEMMA SkillPlanningAgrees == ASSUME NEW r PROVE Agree(r, VueSkillPlanning, ReactSkillPlanning)
<1>1. /\ DOMAIN ReactSkillPlanning = {"completion_check", "skill_plans", "personal_skill_plans"}
      /\ DOMAIN VueSkillPlanning.pages = DOMAIN ReactSkillPlanning
  BY DEF VueSkillPlanning, ReactSkillPlanning
<1>2. Match(r, VueSkillPlanning.rule, VueSkillPlanning.pages.completion_check,
            ReactSkillPlanning.completion_check)
  BY DEF VueSkillPlanning, ReactSkillPlanning, LoginOnly,
         Match, ItemVisible, Satisfies, HasCapability, HasNonGuestRole, Rule
<1>3. Match(r, VueSkillPlanning.rule, VueSkillPlanning.pages.skill_plans,
            ReactSkillPlanning.skill_plans)
  BY DEF VueSkillPlanning, ReactSkillPlanning, LoginOnly,
         Match, ItemVisible, Satisfies, HasCapability, HasNonGuestRole, Rule
<1>4. Match(r, VueSkillPlanning.rule, VueSkillPlanning.pages.personal_skill_plans,
            ReactSkillPlanning.personal_skill_plans)
  BY DEF VueSkillPlanning, ReactSkillPlanning, LoginOnly,
         Match, ItemVisible, Satisfies, HasCapability, HasNonGuestRole, Rule
<1> QED BY <1>1, <1>2, <1>3, <1>4 DEF Agree

(* The rules of the Welfare group. *)
LEMMA WelfareAgrees == ASSUME NEW r PROVE Agree(r, VueWelfare, ReactWelfare)
<1>1. /\ DOMAIN ReactWelfare = {"my", "approval", "settings"}
      /\ DOMAIN VueWelfare.pages = DOMAIN ReactWelfare
  BY DEF VueWelfare, ReactWelfare
<1>2. Match(r, VueWelfare.rule, VueWelfare.pages.my, ReactWelfare.my)
  BY DEF VueWelfare, ReactWelfare,
         Match, ItemVisible, Satisfies, HasCapability, HasNonGuestRole, Rule
<1>3. Match(r, VueWelfare.rule, VueWelfare.pages.approval, ReactWelfare.approval)
  BY DEF VueWelfare, ReactWelfare, Administrators,
         Match, ItemVisible, Satisfies, HasCapability, HasNonGuestRole, Rule
<1>4. Match(r, VueWelfare.rule, VueWelfare.pages.settings, ReactWelfare.settings)
  BY DEF VueWelfare, ReactWelfare, Administrators,
         Match, ItemVisible, Satisfies, HasCapability, HasNonGuestRole, Rule
<1> QED BY <1>1, <1>2, <1>3, <1>4 DEF Agree

(* The rules of the Newbro group. *)
LEMMA NewbroAgrees == ASSUME NEW r PROVE Agree(r, VueNewbro, ReactNewbro)
<1>1. /\ DOMAIN ReactNewbro = {"select_captain", "select_mentor", "captain", "mentor",
                               "manage", "mentor_manage", "recruit_link"}
      /\ DOMAIN VueNewbro.pages = DOMAIN ReactNewbro
  BY DEF VueNewbro, ReactNewbro
<1>2. Match(r, VueNewbro.rule, VueNewbro.pages.select_captain,
            ReactNewbro.select_captain)
  BY DEF VueNewbro, ReactNewbro, LoginOnly,
         Match, ItemVisible, Satisfies, HasCapability, HasNonGuestRole, Rule
<1>3. Match(r, VueNewbro.rule, VueNewbro.pages.select_mentor, ReactNewbro.select_mentor)
  BY DEF VueNewbro, ReactNewbro, LoginOnly,
         Match, ItemVisible, Satisfies, HasCapability, HasNonGuestRole, Rule
<1>4. Match(r, VueNewbro.rule, VueNewbro.pages.captain, ReactNewbro.captain)
  BY DEF VueNewbro, ReactNewbro,
         Match, ItemVisible, Satisfies, HasCapability, HasNonGuestRole, Rule
<1>5. Match(r, VueNewbro.rule, VueNewbro.pages.mentor, ReactNewbro.mentor)
  BY DEF VueNewbro, ReactNewbro,
         Match, ItemVisible, Satisfies, HasCapability, HasNonGuestRole, Rule
<1>6. Match(r, VueNewbro.rule, VueNewbro.pages.manage, ReactNewbro.manage)
  BY DEF VueNewbro, ReactNewbro, Administrators,
         Match, ItemVisible, Satisfies, HasCapability, HasNonGuestRole, Rule
<1>7. Match(r, VueNewbro.rule, VueNewbro.pages.mentor_manage, ReactNewbro.mentor_manage)
  BY DEF VueNewbro, ReactNewbro, Administrators,
         Match, ItemVisible, Satisfies, HasCapability, HasNonGuestRole, Rule
<1>8. Match(r, VueNewbro.rule, VueNewbro.pages.recruit_link, ReactNewbro.recruit_link)
  BY DEF VueNewbro, ReactNewbro, LoginOnly,
         Match, ItemVisible, Satisfies, HasCapability, HasNonGuestRole, Rule
<1> QED BY <1>1, <1>2, <1>3, <1>4, <1>5, <1>6, <1>7, <1>8 DEF Agree

(* The rules of the Shop group. *)
LEMMA ShopAgrees == ASSUME NEW r PROVE Agree(r, VueShop, ReactShop)
<1>1. /\ DOMAIN ReactShop = {"browse", "manage", "order_manage", "wallet"}
      /\ DOMAIN VueShop.pages = DOMAIN ReactShop
  BY DEF VueShop, ReactShop
<1>2. Match(r, VueShop.rule, VueShop.pages.browse, ReactShop.browse)
  BY DEF VueShop, ReactShop,
         Match, ItemVisible, Satisfies, HasCapability, HasNonGuestRole, Rule
<1>3. Match(r, VueShop.rule, VueShop.pages.manage, ReactShop.manage)
  BY DEF VueShop, ReactShop, Administrators,
         Match, ItemVisible, Satisfies, HasCapability, HasNonGuestRole, Rule
<1>4. Match(r, VueShop.rule, VueShop.pages.order_manage, ReactShop.order_manage)
  BY DEF VueShop, ReactShop, Administrators,
         Match, ItemVisible, Satisfies, HasCapability, HasNonGuestRole, Rule
<1>5. Match(r, VueShop.rule, VueShop.pages.wallet, ReactShop.wallet)
  BY DEF VueShop, ReactShop,
         Match, ItemVisible, Satisfies, HasCapability, HasNonGuestRole, Rule
<1> QED BY <1>1, <1>2, <1>3, <1>4, <1>5 DEF Agree

(* The rules of the Srp group. *)
LEMMA SrpAgrees == ASSUME NEW r PROVE Agree(r, VueSrp, ReactSrp)
<1>1. /\ DOMAIN ReactSrp = {"srp_apply", "srp_manage", "srp_prices"}
      /\ DOMAIN VueSrp.pages = DOMAIN ReactSrp
  BY DEF VueSrp, ReactSrp
<1>2. Match(r, VueSrp.rule, VueSrp.pages.srp_apply, ReactSrp.srp_apply)
  BY DEF VueSrp, ReactSrp,
         Match, ItemVisible, Satisfies, HasCapability, HasNonGuestRole, Rule
<1>3. Match(r, VueSrp.rule, VueSrp.pages.srp_manage, ReactSrp.srp_manage)
  BY DEF VueSrp, ReactSrp, Administrators,
         Match, ItemVisible, Satisfies, HasCapability, HasNonGuestRole, Rule
<1>4. Match(r, VueSrp.rule, VueSrp.pages.srp_prices, ReactSrp.srp_prices)
  BY DEF VueSrp, ReactSrp, Administrators,
         Match, ItemVisible, Satisfies, HasCapability, HasNonGuestRole, Rule
<1> QED BY <1>1, <1>2, <1>3, <1>4 DEF Agree

(* The rules of the Ticket group. *)
LEMMA TicketAgrees == ASSUME NEW r PROVE Agree(r, VueTicket, ReactTicket)
<1>1. /\ DOMAIN ReactTicket = {"my_tickets", "create", "detail", "management",
                               "categories", "statistics", "admin_detail"}
      /\ DOMAIN VueTicket.pages = DOMAIN ReactTicket
  BY DEF VueTicket, ReactTicket
<1>2. Match(r, VueTicket.rule, VueTicket.pages.my_tickets, ReactTicket.my_tickets)
  BY DEF VueTicket, ReactTicket, LoginOnly,
         Match, ItemVisible, Satisfies, HasCapability, HasNonGuestRole, Rule
<1>3. Match(r, VueTicket.rule, VueTicket.pages.create, ReactTicket.create)
  BY DEF VueTicket, ReactTicket,
         Match, ItemVisible, Satisfies, HasCapability, HasNonGuestRole, Rule
<1>4. Match(r, VueTicket.rule, VueTicket.pages.detail, ReactTicket.detail)
  BY DEF VueTicket, ReactTicket, Hidden, LoginOnly,
         Match, ItemVisible, Satisfies, HasCapability, HasNonGuestRole, Rule
<1>5. Match(r, VueTicket.rule, VueTicket.pages.management, ReactTicket.management)
  BY DEF VueTicket, ReactTicket, Administrators,
         Match, ItemVisible, Satisfies, HasCapability, HasNonGuestRole, Rule
<1>6. Match(r, VueTicket.rule, VueTicket.pages.categories, ReactTicket.categories)
  BY DEF VueTicket, ReactTicket, Administrators,
         Match, ItemVisible, Satisfies, HasCapability, HasNonGuestRole, Rule
<1>7. Match(r, VueTicket.rule, VueTicket.pages.statistics, ReactTicket.statistics)
  BY DEF VueTicket, ReactTicket, Administrators,
         Match, ItemVisible, Satisfies, HasCapability, HasNonGuestRole, Rule
<1>8. Match(r, VueTicket.rule, VueTicket.pages.admin_detail, ReactTicket.admin_detail)
  BY DEF VueTicket, ReactTicket, Hidden, Administrators,
         Match, ItemVisible, Satisfies, HasCapability, HasNonGuestRole, Rule
<1> QED BY <1>1, <1>2, <1>3, <1>4, <1>5, <1>6, <1>7, <1>8 DEF Agree

(* The rules of the System group. *)
LEMMA SystemAgrees == ASSUME NEW r PROVE Agree(r, VueSystem, ReactSystem)
<1>1. /\ DOMAIN ReactSystem = {"user", "task_manager", "wallet", "audit", "pap_exchange",
                               "pap", "auto_role", "user_center", "webhook", "basic_config", "qq_governance"}
      /\ DOMAIN VueSystem.pages = DOMAIN ReactSystem
  BY DEF VueSystem, ReactSystem
<1>2. Match(r, VueSystem.rule, VueSystem.pages.user, ReactSystem.user)
  BY DEF VueSystem, ReactSystem, Administrators, SystemCapabilities,
         Match, ItemVisible, Satisfies, HasCapability, HasNonGuestRole, Rule
<1>3. Match(r, VueSystem.rule, VueSystem.pages.task_manager, ReactSystem.task_manager)
  BY DEF VueSystem, ReactSystem, Administrators, SystemCapabilities,
         Match, ItemVisible, Satisfies, HasCapability, HasNonGuestRole, Rule
<1>4. Match(r, VueSystem.rule, VueSystem.pages.wallet, ReactSystem.wallet)
  BY DEF VueSystem, ReactSystem, Administrators, SystemCapabilities,
         Match, ItemVisible, Satisfies, HasCapability, HasNonGuestRole, Rule
<1>5. Match(r, VueSystem.rule, VueSystem.pages.audit, ReactSystem.audit)
  BY DEF VueSystem, ReactSystem, Administrators, SystemCapabilities,
         Match, ItemVisible, Satisfies, HasCapability, HasNonGuestRole, Rule
<1>6. Match(r, VueSystem.rule, VueSystem.pages.pap_exchange, ReactSystem.pap_exchange)
  BY DEF VueSystem, ReactSystem, Administrators, SystemCapabilities,
         Match, ItemVisible, Satisfies, HasCapability, HasNonGuestRole, Rule
<1>7. Match(r, VueSystem.rule, VueSystem.pages.pap, ReactSystem.pap)
  BY DEF VueSystem, ReactSystem, Administrators, SystemCapabilities,
         Match, ItemVisible, Satisfies, HasCapability, HasNonGuestRole, Rule
<1>8. Match(r, VueSystem.rule, VueSystem.pages.auto_role, ReactSystem.auto_role)
  BY DEF VueSystem, ReactSystem, Administrators, SystemCapabilities,
         Match, ItemVisible, Satisfies, HasCapability, HasNonGuestRole, Rule
<1>9. Match(r, VueSystem.rule, VueSystem.pages.user_center, ReactSystem.user_center)
  BY DEF VueSystem, ReactSystem, Hidden, Free, Administrators, SystemCapabilities,
         Match, ItemVisible, Satisfies, HasCapability, HasNonGuestRole, Rule
<1>10. Match(r, VueSystem.rule, VueSystem.pages.webhook, ReactSystem.webhook)
  BY DEF VueSystem, ReactSystem, Administrators, SystemCapabilities,
         Match, ItemVisible, Satisfies, HasCapability, HasNonGuestRole, Rule
<1>11. Match(r, VueSystem.rule, VueSystem.pages.basic_config, ReactSystem.basic_config)
  BY DEF VueSystem, ReactSystem, Administrators, SystemCapabilities,
         Match, ItemVisible, Satisfies, HasCapability, HasNonGuestRole, Rule
<1>12. Match(r, VueSystem.rule, VueSystem.pages.qq_governance,
             ReactSystem.qq_governance)
  BY DEF VueSystem, ReactSystem, Administrators, SystemCapabilities,
         Match, ItemVisible, Satisfies, HasCapability, HasNonGuestRole, Rule
<1> QED BY <1>1, <1>2, <1>3, <1>4, <1>5, <1>6, <1>7, <1>8, <1>9, <1>10, <1>11, <1>12 DEF Agree
(* The groups are the same and agree.                                      *)
LEMMA GroupsAgree ==
    ASSUME NEW r
    PROVE  /\ DOMAIN VueRoutes = DOMAIN ReactRoutes
           /\ \A g \in DOMAIN ReactRoutes : Agree(r, VueRoutes[g], ReactRoutes[g])
<1>1. /\ DOMAIN ReactRoutes = {"characters", "dashboard", "fuxi_hall", "info", "operation",
                               "skill_planning", "welfare", "newbro", "shop", "srp",
                               "ticket", "system"}
      /\ DOMAIN VueRoutes = DOMAIN ReactRoutes
  BY DEF ReactRoutes, VueRoutes
<1>2. /\ Agree(r, VueRoutes.characters, ReactRoutes.characters)
      /\ Agree(r, VueRoutes.dashboard, ReactRoutes.dashboard)
      /\ Agree(r, VueRoutes.fuxi_hall, ReactRoutes.fuxi_hall)
      /\ Agree(r, VueRoutes.info, ReactRoutes.info)
      /\ Agree(r, VueRoutes.operation, ReactRoutes.operation)
      /\ Agree(r, VueRoutes.skill_planning, ReactRoutes.skill_planning)
      /\ Agree(r, VueRoutes.welfare, ReactRoutes.welfare)
      /\ Agree(r, VueRoutes.newbro, ReactRoutes.newbro)
      /\ Agree(r, VueRoutes.shop, ReactRoutes.shop)
      /\ Agree(r, VueRoutes.srp, ReactRoutes.srp)
      /\ Agree(r, VueRoutes.ticket, ReactRoutes.ticket)
      /\ Agree(r, VueRoutes.system, ReactRoutes.system)
  BY CharactersAgrees, DashboardAgrees, FuxiHallAgrees, InfoAgrees, OperationAgrees,
     SkillPlanningAgrees, WelfareAgrees, NewbroAgrees, ShopAgrees, SrpAgrees, TicketAgrees,
     SystemAgrees DEF ReactRoutes, VueRoutes
<1> QED BY <1>1, <1>2

(* The same pages, open to the same users and hidden in the same menus.    *)
THEOREM GrantsAgree ==
    /\ VuePages = ReactPages
    /\ \A r : \A p \in Pages : /\ VueGrants(r, p) <=> ReactGrants(r, p)
                               /\ VueRule(p).hidden = ReactRule(p).hidden
<1>1. VuePages = ReactPages
  BY GroupsAgree DEF VuePages, ReactPages, Agree
<1>2. ASSUME NEW r, NEW p \in Pages
      PROVE  /\ VueGrants(r, p) <=> ReactGrants(r, p)
             /\ VueRule(p).hidden = ReactRule(p).hidden
  <2>1. p \in ReactPages /\ p \in VuePages
    BY <1>1 DEF Pages
  <2>2. PICK g \in DOMAIN ReactRoutes : p \in {<<g, c>> : c \in DOMAIN ReactRoutes[g]}
    BY <2>1 DEF ReactPages
  <2>3. PICK c \in DOMAIN ReactRoutes[g] : p = <<g, c>>
    BY <2>2
  <2>4. Match(r, VueRoutes[g].rule, VueRoutes[g].pages[c], ReactRoutes[g][c])
    BY GroupsAgree, <2>2, <2>3 DEF Agree
  <2>5. p[1] = g /\ p[2] = c
    BY <2>3
  <2>6. Match(r, VueRoutes[p[1]].rule, VueRule(p), ReactRule(p))
    BY <2>4, <2>5 DEF VueRule, ReactRule
  <2> QED BY <2>1, <2>6 DEF Match, VueGrants, ReactGrants
<1> QED BY <1>1, <1>2

(* The characters page is open to everyone; the error pages are no pages   *)
(* of the tables.                                                          *)
LEMMA CharactersIsOpen ==
    /\ Characters \in VuePages /\ Characters \in ReactPages
    /\ \A r : VueGrants(r, Characters) /\ ReactGrants(r, Characters)
<1>1. /\ "characters" \in DOMAIN ReactRoutes
      /\ ReactRoutes.characters = ReactCharacters
      /\ DOMAIN ReactCharacters = {"characters"}
      /\ ReactCharacters.characters = Free
  BY DEF ReactRoutes, ReactCharacters
<1>2. Characters \in ReactPages
  BY <1>1 DEF ReactPages, Characters
<1>3. ReactRule(Characters) = Free
  BY <1>1 DEF ReactRule, Characters
<1>4. \A r : Satisfies(r, Free)
  BY DEF Satisfies, Free, Rule, HasCapability
<1> QED BY <1>2, <1>3, <1>4, GrantsAgree DEF ReactGrants, Pages

LEMMA ErrorsAreNoPages == NotFound \notin Pages /\ Forbidden \notin Pages
<1>1. DOMAIN ReactRoutes = {"characters", "dashboard", "fuxi_hall", "info", "operation",
                            "skill_planning", "welfare", "newbro", "shop", "srp",
                            "ticket", "system"}
  BY DEF ReactRoutes
<1>2. \A p \in ReactPages : p[1] \in DOMAIN ReactRoutes
  BY DEF ReactPages
<1>3. NotFound[1] = "exception" /\ Forbidden[1] = "exception"
  BY DEF NotFound, Forbidden
<1> QED BY <1>1, <1>2, <1>3, GrantsAgree DEF Pages

(* A page that is registered passes the test at the start.                 *)
LEMMA GrantedHasPermission ==
    ASSUME NEW r, NEW p, VueGrants(r, p) PROVE HasPermission(r, p)
BY DEF HasPermission, VueGrants

-----------------------------------------------------------------------------
(* The applications.                                                       *)

(* Each application shows a page its own rights open; and while React      *)
(* knows of the lock, both are on the characters page, since the step that *)
(* leads away from it in Vue asks /me again in React.                      *)
ShowsGranted ==
    /\ vue.at = NotFound \/ VueGrants(vue.base, vue.at)
    /\ react.at = Forbidden \/ ReactGrants(react.known, react.at)
    /\ react.known.locked => react.at = Characters /\ vue.at = Characters

IInv == TypeOK /\ ShowsGranted

(* What the two routers answer.                                            *)
LEMMA VueAtIs ==
    ASSUME NEW base, NEW p
    PROVE  /\ VueAt(base, p).base = base
           /\ VueGrants(base, p) => VueAt(base, p).at = p
           /\ ~VueGrants(base, p) => VueAt(base, p).at = NotFound
BY DEF VueAt

LEMMA ReactAtIs ==
    ASSUME NEW known, NEW p
    PROVE  /\ known.locked => ReactAt(known, p).at = Characters
           /\ ~known.locked /\ ReactGrants(known, p) => ReactAt(known, p).at = p
           /\ ~known.locked /\ ~ReactGrants(known, p) => ReactAt(known, p).at = Forbidden
           /\ ReactAt(known, p).at = Characters => ReactAt(known, p).known = rights
           /\ ReactAt(known, p).at # Characters => ReactAt(known, p).known = known
BY DEF ReactAt

(* Every user starts on the characters page.                               *)
LEMMA InitInv == Init => IInv
BY CharactersIsOpen, MaxChangesAssumption DEF Init, IInv, TypeOK, ShowsGranted

(* An address that is loaded, a link that is followed, a change of rights. *)
LEMMA LoadInv ==
    ASSUME NEW p \in Pages, IInv, Load(p) PROVE IInv'
<1>1. PICK q : vue' = VueAt(rights, q) /\ (rights.locked => q = Characters)
  BY DEF Load, VueStart
<1>2. vue'.base = rights /\ (vue'.at = NotFound \/ VueGrants(rights, vue'.at))
  BY <1>1, VueAtIs
<1>3. rights.locked => vue'.at = Characters
  BY <1>1, VueAtIs, CharactersIsOpen
<1>4. react' = ReactAt(rights, p)
  BY DEF Load
<1>5. /\ react'.known = rights
      /\ react'.at = Forbidden \/ ReactGrants(rights, react'.at)
      /\ rights.locked => react'.at = Characters
  BY <1>4, ReactAtIs, CharactersIsOpen
<1>6. UNCHANGED <<rights, changes>>
  BY DEF Load
<1> QED BY <1>2, <1>3, <1>5, <1>6 DEF IInv, TypeOK, ShowsGranted, VueGrants, ReactGrants

LEMMA OpenInv ==
    ASSUME NEW p \in Pages, IInv, Open(p) PROVE IInv'
<1>1. UNCHANGED <<rights, changes>>
  BY DEF Open
<1>2. /\ vue'.base = vue.base
      /\ vue'.at = NotFound \/ VueGrants(vue.base, vue'.at)
  BY VueAtIs DEF Open, VueFollow, IInv, ShowsGranted
<1>3. vue.at # p /\ rights.locked => vue'.at = Characters
  BY VueAtIs, CharactersIsOpen DEF Open, VueFollow
<1>4. p = Characters => vue'.at = Characters
  BY VueAtIs, CharactersIsOpen DEF Open, VueFollow
<1>5. CASE react.at = p
  <2>1. react' = react
    BY <1>5 DEF Open, ReactFollow
  <2>2. react.known.locked => vue'.at = Characters
    BY <1>4, <1>5 DEF IInv, ShowsGranted
  <2> QED BY <1>1, <1>2, <2>1, <2>2 DEF IInv, TypeOK, ShowsGranted, VueGrants
<1>6. CASE react.at # p
  <2>1. react' = ReactAt(react.known, p)
    BY <1>6 DEF Open, ReactFollow
  <2>2. /\ react'.known \in {rights, react.known}
        /\ react'.at = Forbidden \/ ReactGrants(react'.known, react'.at)
    BY <2>1, ReactAtIs, CharactersIsOpen
  <2>3. react'.known.locked => react'.at = Characters /\ vue'.at = Characters
    <3>1. CASE react.known.locked
      <4>1. react'.at = Characters /\ react'.known = rights
        BY <2>1, <3>1, ReactAtIs
      <4>2. vue.at = Characters /\ p # Characters
        BY <1>6, <3>1 DEF IInv, ShowsGranted
      <4> QED BY <1>3, <4>1, <4>2
    <3>2. CASE ~react.known.locked
      <4>1. react'.at # Characters => react'.known = react.known
        BY <2>1, ReactAtIs
      <4>2. react'.at = Characters => p = Characters
        BY <2>1, <3>2, ReactAtIs, ErrorsAreNoPages, CharactersIsOpen DEF Pages
      <4> QED BY <1>4, <3>2, <4>1, <4>2
    <3> QED BY <3>1, <3>2
  <2> QED BY <1>1, <1>2, <2>2, <2>3 DEF IInv, TypeOK, ShowsGranted, VueGrants, ReactGrants
<1> QED BY <1>5, <1>6

LEMMA ChangeInv ==
    ASSUME IInv, Change PROVE IInv'
BY RightsAssumption, MaxChangesAssumption
   DEF Change, IInv, TypeOK, ShowsGranted, VueGrants, ReactGrants, RightsAssumption

(* Every step keeps it.                                                   *)
LEMMA NextInv == IInv /\ [Next]_vars => IInv'
<1> SUFFICES ASSUME IInv, [Next]_vars PROVE IInv'
  OBVIOUS
<1>1. CASE \E p \in Pages : Load(p)
  BY <1>1, LoadInv
<1>2. CASE \E p \in Pages : Open(p)
  BY <1>2, OpenInv
<1>3. CASE Change
  BY <1>3, ChangeInv
<1>4. CASE UNCHANGED vars
  BY <1>4 DEF vars, IInv, TypeOK, ShowsGranted, VueGrants, ReactGrants
<1> QED BY <1>1, <1>2, <1>3, <1>4 DEF Next

(* What every state satisfies.                                             *)
THEOREM Invariance == Spec => []IInv
BY InitInv, NextInv, PTL DEF Spec

(* The applications work with rights the server gave, on pages they have.  *)
THEOREM TypeCorrect == Spec => []TypeOK
<1>1. IInv => TypeOK
  BY DEF IInv
<1> QED BY <1>1, Invariance, PTL

(* An application never shows a page that the rights it knows do not open. *)
THEOREM PagesAreGranted == Spec => []ShowsGranted
<1>1. IInv => ShowsGranted
  BY DEF IInv
<1> QED BY <1>1, Invariance, PTL

-----------------------------------------------------------------------------
(* The menus of applications that know the same have the same entries.     *)
THEOREM MenusAgree == Spec => []SameMenu
<1>1. \A r : VueMenu(r) = ReactMenu(r)
  BY GrantsAgree DEF VueMenu, ReactMenu, Pages
<1>2. SameMenu
  BY <1>1 DEF SameMenu
<1> QED BY <1>2, PTL

(* An address that is loaded leads both applications to the same page.     *)
LEMMA LoadAgrees ==
    ASSUME NEW p \in Pages, Load(p) PROVE vue'.at = p <=> react'.at = p
<1>1. react' = ReactAt(rights, p) /\ vue' = VueStart(p)
  BY DEF Load
<1>2. CASE rights.locked
  BY <1>1, <1>2, VueAtIs, ReactAtIs, CharactersIsOpen DEF VueStart
<1>3. CASE ~rights.locked /\ VueGrants(rights, p)
  <2>1. ReactGrants(rights, p) /\ HasPermission(rights, p)
    BY <1>3, GrantsAgree, GrantedHasPermission
  <2> QED BY <1>1, <1>3, <2>1, VueAtIs, ReactAtIs DEF VueStart
<1>4. CASE ~rights.locked /\ ~VueGrants(rights, p)
  <2>1. ~ReactGrants(rights, p) /\ p # Characters
    BY <1>4, GrantsAgree, CharactersIsOpen
  <2>2. react'.at = Forbidden
    BY <1>1, <1>4, <2>1, ReactAtIs
  <2>3. vue'.at \in {NotFound, Home}
    BY <1>1, <1>4, VueAtIs, CharactersIsOpen DEF VueStart, Home
  <2> QED BY <2>1, <2>2, <2>3, ErrorsAreNoPages DEF Home
<1> QED BY <1>2, <1>3, <1>4

(* A link that is followed leads both to the same page, if both know the   *)
(* rights of the moment.                                                   *)
LEMMA OpenAgrees ==
    ASSUME NEW p \in Pages, IInv, Settled, Open(p) PROVE vue'.at = p <=> react'.at = p
<1>1. react' = ReactFollow(p) /\ vue' = VueFollow(p)
  BY DEF Open
<1>2. vue.base = rights /\ react.known = rights
  BY DEF Settled
<1>3. VueGrants(rights, p) <=> ReactGrants(rights, p)
  BY GrantsAgree
<1>4. p # NotFound /\ p # Forbidden
  BY ErrorsAreNoPages
<1>5. CASE rights.locked
  <2>1. react.at = Characters /\ vue.at = Characters
    BY <1>2, <1>5 DEF IInv, ShowsGranted
  <2>2. CASE p = Characters
    BY <1>1, <2>1, <2>2 DEF VueFollow, ReactFollow
  <2>3. CASE p # Characters
    <3>1. vue'.at = Characters
      BY <1>1, <1>5, <2>1, <2>3, VueAtIs, CharactersIsOpen DEF VueFollow
    <3>2. react'.at = Characters
      BY <1>1, <1>2, <1>5, <2>1, <2>3, ReactAtIs DEF ReactFollow
    <3> QED BY <2>3, <3>1, <3>2
  <2> QED BY <2>2, <2>3
<1>6. CASE ~rights.locked
  <2>1. vue'.at = p <=> VueGrants(rights, p)
    BY <1>1, <1>2, <1>4, <1>6, VueAtIs DEF VueFollow, IInv, ShowsGranted
  <2>2. react'.at = p <=> ReactGrants(rights, p)
    BY <1>1, <1>2, <1>4, <1>6, ReactAtIs DEF ReactFollow, IInv, ShowsGranted
  <2> QED BY <1>3, <2>1, <2>2
<1> QED BY <1>5, <1>6

(* The two front ends open the same pages to every user, for all roles and *)
(* capabilities a user may have and any sequence of changes of them.       *)
THEOREM AccessAgrees == Spec => SameAccess
<1>1. ASSUME IInv, [Next]_vars
      PROVE  [\A p \in Pages : Settled /\ (vue'.at = p) # (react'.at = p) => ~Visit(p)]_vars
  <2>1. ASSUME NEW p \in Pages, Settled, Visit(p) PROVE vue'.at = p <=> react'.at = p
    BY <1>1, <2>1, LoadAgrees, OpenAgrees DEF Visit
  <2> QED BY <2>1
<1> QED BY <1>1, Invariance, PTL DEF Spec, SameAccess

(* Loading the address of the page that is shown shows it again.           *)
THEOREM ReloadsReturn == Spec => ReloadReturns
<1>1. ASSUME IInv, [Next]_vars
      PROVE  [\A p \in Pages :
                 /\ Settled /\ ~rights.locked /\ p \in {vue.at, react.at}
                 /\ Load(p)
                 => /\ vue.at = p => vue'.at = p
                    /\ react.at = p => react'.at = p]_vars
  <2>1. ASSUME NEW p \in Pages, Settled, ~rights.locked, Load(p), vue.at = p
        PROVE  vue'.at = p
    <3>1. VueGrants(rights, p)
      BY <1>1, <2>1, ErrorsAreNoPages DEF IInv, ShowsGranted, Settled
    <3> QED BY <2>1, <3>1, GrantedHasPermission, VueAtIs DEF Load, VueStart
  <2>2. ASSUME NEW p \in Pages, Settled, ~rights.locked, Load(p), react.at = p
        PROVE  react'.at = p
    <3>1. ReactGrants(rights, p)
      BY <1>1, <2>2, ErrorsAreNoPages DEF IInv, ShowsGranted, Settled
    <3> QED BY <2>2, <3>1, ReactAtIs DEF Load
  <2> QED BY <2>1, <2>2
<1> QED BY <1>1, Invariance, PTL DEF Spec, ReloadReturns

(* No move leads a locked user anywhere but to the characters page.        *)
THEOREM LockWins == Spec => LockedLandOnCharacters
<1>1. ASSUME IInv, IInv', [Next]_vars
      PROVE  [rights.locked => /\ vue' # vue => vue'.at = Characters
                               /\ react'.known.locked => react'.at = Characters]_vars
  <2>1. react'.known.locked => react'.at = Characters
    BY <1>1 DEF IInv, ShowsGranted
  <2>2. ASSUME NEW p \in Pages, Load(p), rights.locked PROVE vue'.at = Characters
    BY <2>2, VueAtIs, CharactersIsOpen DEF Load, VueStart
  <2>3. ASSUME NEW p \in Pages, Open(p), rights.locked, vue' # vue PROVE vue'.at = Characters
    BY <2>3, VueAtIs, CharactersIsOpen DEF Open, VueFollow
  <2>4. Change => vue' = vue
    BY DEF Change
  <2> QED BY <1>1, <2>1, <2>2, <2>3, <2>4 DEF Next, vars
<1> QED BY <1>1, Invariance, PTL DEF Spec, LockedLandOnCharacters
=============================================================================

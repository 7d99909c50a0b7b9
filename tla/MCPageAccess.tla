---------------------------- MODULE MCPageAccess ----------------------------
(* Users of one role with every capability, with none and with all but one, *)
(* each mark and the lock; the server may make them guests, or             *)
(* administrators whose profile is locked.                                 *)
EXTENDS PageAccess

MCRoles ==
    {"guest", "user", "admin", "super_admin", "fc", "senior_fc", "captain", "mentor",
     "fuel_officer", "welfare", "shop_order_manage", "srp"}

Demanded(m) == m.all \cup m.any

(* every capability a rule of either table names *)
MCCaps ==
    UNION ({Demanded(ReactRule(p)) : p \in ReactPages}
           \cup {Demanded(VueRule(p)) : p \in VuePages}
           \cup {Demanded(VueRoutes[g].rule) : g \in DOMAIN VueRoutes})

MCUser(role, caps, marked, locked) ==
    [roles |-> {role}, caps |-> caps, newbro |-> marked, mentee |-> marked, locked |-> locked]

MCLater ==
    {MCUser("guest", {}, FALSE, FALSE), MCUser("admin", MCCaps, FALSE, TRUE)}

MCRights ==
    {MCUser(x, caps, FALSE, FALSE) : x \in MCRoles, caps \in {{}, MCCaps}}
        \cup {MCUser(x, MCCaps \ {c}, FALSE, FALSE) : x \in {"admin", "user"}, c \in MCCaps}
        \cup {MCUser("user", MCCaps, TRUE, l) : l \in BOOLEAN}
        \cup MCLater
=============================================================================

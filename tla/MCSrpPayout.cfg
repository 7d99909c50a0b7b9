CONSTANTS
    a1 = a1
    a2 = a2
    u1 = u1
    c1 = c1
    c2 = c2
    Apps = {a1, a2}
    Users = {u1}
    Owner <- OneOwner
    Callers = {c1, c2}
    Limited = {c1}
    Amounts = {0, 4000, 20000}
    Limit = 10000
    MaxOps = 5
SYMMETRY Symmetry
SPECIFICATION Spec
INVARIANTS
    PaidIsApproved
    PaidOnceUnlessTorn
PROPERTIES
    ImplementsBook
CHECK_DEADLOCK FALSE

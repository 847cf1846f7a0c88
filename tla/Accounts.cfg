SPECIFICATION Spec
CONSTANTS
    u1 = u1
    u2 = u2
    u3 = u3
    u4 = u4
    t1 = t1
    t2 = t2
    Users = {u1, u2, u3, u4}
    Procs = {p1, p2}
    Tokens = {t1, t2}
    MaxMembers = 2
SYMMETRY Interchangeable
CONSTRAINT Bounded
INVARIANTS
    TypeOK
    PurgeTakesDeals
    MembersBounded
PROPERTIES
    WorkIsKept
CHECK_DEADLOCK FALSE

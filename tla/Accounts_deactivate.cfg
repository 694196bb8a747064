SPECIFICATION Spec
CONSTANTS
    Requests = {q1, q2}
    Admins = {a1}
    Workers = {w1}
    Manager <- MCManager
    AdminCodes = {k1}
    Uses <- MCUses
    JoinCodes = {c1}
    Emails = {e1, e2}
    Kinds = {"login", "status"}
    TTL = 1
    MaxTime = 0
    Nobody = Nobody
    w1 = w1
    k1 = k1
    k2 = k2
    a1 = a1
SYMMETRY Symmetry
INVARIANTS
    DeactivationEndsSessions
CHECK_DEADLOCK FALSE

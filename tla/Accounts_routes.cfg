SPECIFICATION FairSpec
CONSTANTS
    Requests = {q1, q2}
    Admins = {a1, a2}
    Workers = {w1}
    Manager <- MCManager
    AdminCodes = {k1, k2}
    Uses <- MCTwoUses
    JoinCodes = {c1}
    Emails = {e1, e2}
    Kinds = {"login", "logout", "me", "status", "register", "issue", "revoke"}
    TTL = 1
    MaxTime = 1
    Nobody = Nobody
    w1 = w1
    k1 = k1
    k2 = k2
    a1 = a1
INVARIANTS
    TypeOK
    EmailsAreUnique
PROPERTIES
    EveryRequestEnds
CHECK_DEADLOCK FALSE

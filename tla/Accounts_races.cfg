SPECIFICATION Spec
CONSTANTS
    Requests = {q1, q2, q3}
    Admins = {a1}
    Workers = {w1}
    Manager <- MCManager
    AdminCodes = {k1}
    Uses <- MCUses
    JoinCodes = {c1}
    Emails = {e1, e2, e3, e4}
    Kinds = {"login", "logout", "me", "status", "register", "issue", "revoke"}
    TTL = 1
    MaxTime = 0
    Nobody = Nobody
    w1 = w1
    k1 = k1
    k2 = k2
    a1 = a1
SYMMETRY Symmetry
INVARIANTS
    NoEntryAfterExit
    OldTokenIsOver
    RegistrationIsWhole
PROPERTIES
    ImplementsCodeLedger
CHECK_DEADLOCK FALSE

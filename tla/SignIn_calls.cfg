SPECIFICATION Spec
CONSTANTS
    Accounts = {ann, wes}
    Admins = {ann}
    Paths <- MCPaths
    Calls = {c1, c2}
    Tokens = {t1, t2}
    MaxClears = 2
    MaxActs = 3
    None = None
    Anyone = Anyone
INVARIANTS
    TypeOK
    LastIntentDecides
    BrowserAgreesWithServer
    EveryWaitHasItsAnswer
PROPERTIES
    SignInLandsForGood
CHECK_DEADLOCK FALSE

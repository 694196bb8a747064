SPECIFICATION Spec
CONSTANTS
    Builders = {b1}
    Templates = {t1}
    Existing = {t1}
    Seed <- MCFirst
    Reports = {r1}
    None = None
    MaxSections = 2
    MaxFields = 2
    MaxOptions = 2
    MaxActs = 2
    MaxSaves = 1
    MaxViews = 1
INVARIANT
    CleanIsStored
CHECK_DEADLOCK FALSE

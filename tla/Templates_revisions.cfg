SPECIFICATION Spec
CONSTANTS
    Builders = {b1}
    Templates = {t1, t2}
    Existing = {t1}
    Seed <- MCFirst
    Reports = {r1}
    None = None
    MaxSections = 2
    MaxFields = 2
    MaxOptions = 2
    MaxActs = 3
    MaxSaves = 1
    MaxViews = 1
INVARIANTS
    TypeOK
    IdsAreUnique
    SnapshotIsPinned
    FreshRowsMatchColumns
PROPERTIES
    RearrangingKeepsFields
CHECK_DEADLOCK FALSE

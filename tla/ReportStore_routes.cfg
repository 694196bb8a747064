SPECIFICATION FairSpec
CONSTANTS
    Reports = {r1, r2}
    Existing = {r1}
    Requests = {q1, q2}
    None = None
    Unstorable = Unstorable
    Missing = Missing
    Partial = Partial
    Nobody = Nobody
    Kinds = {"create", "get", "update", "export", "agent", "fetch"}
    PowerFails = FALSE
    f1 = f1
    v1 = v1
    v2 = v2
    bad = bad
    zero = zero
    blank = blank
    huge = huge
    Fields <- OneField
    Required <- OneField
    Values <- MCValues
    Malformed <- MCMalformed
    PartRows <- MCPartRows
    AsNumeric <- MCAsNumeric
    Bodies <- AllBodies
INVARIANTS
    TypeOK
    AnswersAreTrue
    ExportedHasArtifact
    FetchServesAnExport
PROPERTIES
    ImplementsLedger
    EveryRequestEnds
CHECK_DEADLOCK FALSE

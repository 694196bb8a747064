SPECIFICATION Spec
CONSTANTS
    Reports = {r1}
    Existing = {r1}
    Requests = {q1, q2, q3}
    None = None
    Unstorable = Unstorable
    Missing = Missing
    Partial = Partial
    Nobody = Nobody
    Kinds = {"update", "export", "fetch"}
    PowerFails = TRUE
    f1 = f1
    v1 = v1
    v2 = v2
    bad = bad
    zero = zero
    blank = blank
    huge = huge
    Fields <- OneField
    Required <- OneField
    Values <- MCValues
    Malformed <- MCMalformed
    PartRows <- MCPartRows
    AsNumeric <- MCAsNumeric
    Bodies <- TwoBodies
SYMMETRY Symmetry
INVARIANTS
    PartsInStep
PROPERTIES
    ExportIsOneStep
CHECK_DEADLOCK FALSE

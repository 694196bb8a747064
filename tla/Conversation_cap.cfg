SPECIFICATION Spec
CONSTANTS
    Fields = {n}
    TypeOf <- MCOne
    n = n
    c = c
    Proposals <- MCProposals
    Configs <- MCWide
    PanelCap = 6
    MaxIters = 2
    MaxSends = 3
    MaxEdits = 0
    MaxSaves = 0
INVARIANTS
    TurnsWithinCap
CHECK_DEADLOCK FALSE

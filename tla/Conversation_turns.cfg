SPECIFICATION FairSpec
CONSTANTS
    Fields = {n}
    TypeOf <- MCOne
    n = n
    c = c
    Proposals <- MCProposals
    Configs <- MCConfigs
    PanelCap = 2
    MaxIters = 2
    MaxSends = 2
    MaxEdits = 1
    MaxSaves = 1
INVARIANTS
    TypeOK
    NothingIsRejected
    QuestionsWithinCap
    TranscriptIsTheConversation
    FilledByIsHonest
PROPERTIES
    AgentWritesItsFills
    EveryRequestEnds
CHECK_DEADLOCK FALSE

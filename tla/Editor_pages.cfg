SPECIFICATION FairSpec
CHECK_DEADLOCK FALSE
CONSTANTS
    MaxWords = 2
    MaxQuestions = 1
    Existing = 1
    MaxIds = 2
    MaxTexts = 2
    MaxActs = 5
INVARIANTS TypeOK PageIsTrue DictationIsKept
PROPERTY Settles

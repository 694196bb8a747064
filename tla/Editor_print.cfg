SPECIFICATION Spec
CHECK_DEADLOCK FALSE
CONSTANTS
    MaxWords = 0
    MaxQuestions = 0
    Existing = 1
    MaxIds = 2
    MaxTexts = 2
    MaxActs = 4
INVARIANT PrintsWhatItExported

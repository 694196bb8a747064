SPECIFICATION FairSpec
CONSTANTS
    MaxReports = 3
    PageSize = 2
    Searches = {"leak"}
    Finds <- MCFinds
    Initial <- MCInitial
    Addresses <- MCAddresses
    Requests = {r1, r2}
    MaxPast = 2
    MaxDownloads = 1
    MaxActs = 4
    None = None
INVARIANTS
    TypeOK
    TableAnswersTheUrl
    EmptyMeansNone
PROPERTIES
    Settles
CHECK_DEADLOCK FALSE

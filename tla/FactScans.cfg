\* The pruner against a request; every store call may fail.
CONSTANTS
    Keys <- TwoVersions
    Family <- MCFamily
    Version <- MCVersion
    RootFamily = ""
    NoKey = NoKey
    NoFact = NoFact
    Keep = Keep
    Slots = {c1}
    Ops = {"post", "put", "delete"}
    Edits <- ScanEdits
    Ttls = {"live"}
    Untils = {"none"}
    Confs = {"low"}
    Id <- MCId
    Configs <- TwoScans
    PageSize = 2
    ScrollLimit = 1
    StoreFaults = TRUE
    ReadFaults = TRUE
    ImportanceFilter = TRUE
    MaxRequests = 1
    MaxCrashes = 0
SPECIFICATION Spec
INVARIANTS FlagIsJustified ContradictionsGrow SupersessionIsJustified
CHECK_DEADLOCK FALSE

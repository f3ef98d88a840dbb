\* The stale scan alone over Qdrant: does an expired fact get flagged?
CONSTANTS
    Keys <- TwoVersions
    Family <- MCFamily
    Version <- MCVersion
    RootFamily = ""
    NoKey = NoKey
    NoFact = NoFact
    Keep = Keep
    Slots = {c1}
    Ops = {}
    Edits <- PlainEdits
    Ttls = {"live"}
    Untils = {"none"}
    Confs = {"high"}
    Id <- MCId
    Configs <- StaleOnly
    PageSize = 2
    ScrollLimit = 10
    StoreFaults = FALSE
    ReadFaults = FALSE
    ImportanceFilter = FALSE
    MaxRequests = 0
    MaxCrashes = 0
SPECIFICATION FairSpec
PROPERTIES StaleFactsLeave
CHECK_DEADLOCK FALSE

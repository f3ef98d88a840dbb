\* Racing writers: every request kind, the goroutine of a versioned POST,
\* failing store calls and a crash; no scans.
CONSTANTS
    Keys <- TwoVersions
    Family <- MCFamily
    Version <- MCVersion
    RootFamily = ""
    NoKey = NoKey
    NoFact = NoFact
    Keep = Keep
    Slots = {c1, c2}
    Ops = {"post", "upsert", "put", "patch", "delete", "review"}
    Edits <- StatusEdits
    Ttls = {"none"}
    Untils = {"none"}
    Confs = {"high"}
    Id <- MCId
    Configs <- NoScans
    PageSize = 2
    ScrollLimit = 10
    StoreFaults = TRUE
    ReadFaults = FALSE
    ImportanceFilter = FALSE
    MaxRequests = 3
    MaxCrashes = 1
SPECIFICATION Spec
INVARIANTS TypeOK UpsertKeepsLifecycle ReplacementExists
CHECK_DEADLOCK FALSE

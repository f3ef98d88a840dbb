\* Two files of one name, both watchers, nothing fails.
CONSTANTS
    Paths <- TwoFiles
    Root <- MCRoot
    Sources = {}
    NoPath = NoPath
    Modes = {"poll", "inotify"}
    Initial <- OneFile
    Batches <- MCBatches
    MaxBatch = 2
    RawCap = 1
    IdxCap = 1
    RetryCap = 1
    Requesters = {r1}
    Faults = FALSE
    MaxChanges = 2
    MaxReindexes = 1
    MaxIngests = 0
    MaxRestarts = 0
SPECIFICATION FairSpec
PROPERTIES CatchesUp ReindexHappens IndexingEnds
CHECK_DEADLOCK FALSE

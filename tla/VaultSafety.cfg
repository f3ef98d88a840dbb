\* One file, both watchers, two requests, a restart, and failing calls.
CONSTANTS
    Paths = {"a"}
    Root <- MCRoot
    Sources = {"a"}
    NoPath = NoPath
    Modes = {"poll", "inotify"}
    Initial <- OneFile
    Batches <- MCBatches
    MaxBatch = 2
    RawCap = 1
    IdxCap = 1
    RetryCap = 1
    Requesters = {r1, r2}
    Faults = TRUE
    MaxChanges = 1
    MaxReindexes = 0
    MaxIngests = 2
    MaxRestarts = 1
SPECIFICATION Spec
INVARIANTS TypeOK NothingForgotten NoMixture StatsAddUp
SYMMETRY Symmetry
CHECK_DEADLOCK FALSE

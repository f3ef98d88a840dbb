\* Two sessions and two turns for indexing and for one finalizing request; three
\* sessions, replayed two at a time, one of them an old one, and a turn for the
\* worker.
CONSTANTS
    Session = {s1, s2, s3}
    Finalizer = {f1}
    Turn <- MCTurn
    IdleWindow = 1
    BatchSize = 2
    OldCount = 1
    None = None
    Parts <- MCParts
    MaxTime = 1
SPECIFICATION Spec
INVARIANTS TypeOK SessionsAddUp
PROPERTIES NoGistOfDeleted BatchesAreFair SweepsFinish
CHECK_DEADLOCK FALSE

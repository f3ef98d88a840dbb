\* Three requests, two at a time, and one crash.
SPECIFICATION Spec
CONSTANTS
    v1 = v1
    v2 = v2
    r1 = r1
    r2 = r2
    None = None
    Closed = Closed
    Shared = Shared
    Primary = v1
    Vaults <- MCVaults
    Boot <- MCBoot
    AgentVaults <- MCAgents
    Chunks <- MCChunks
    Sources = {"note.md"}
    Source <- MCSource
    Requests <- MCRequests
    AutoProvision = TRUE
    PageSize = 1
    MaxRequests = 3
    MaxRestarts = 1
INVARIANTS
    TypeOK
    IndexedIsConfigured
    MergeCopiesFirst
    RemovalsStayHome
SYMMETRY RequestSymmetry

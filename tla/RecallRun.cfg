\* Every kind of request, one after the other, over four chunks of two vaults that
\* come and go; top_k 2; three queries in a batch compete for one slot.
CONSTANTS
    Vault = {"main", "other"}
    Unlisted = {"unknown"}
    Default = "main"
    Chunk <- MCChunk
    Moving = {"a1", "b1"}
    Home <- MCHome
    File <- MCFile
    Query = {"query", "rewrite"}
    Original = "query"
    Score <- MCScore
    Bm25 <- MCBm25
    Fact = {"fact"}
    FactScore <- MCFactScore
    Filters <- MCFilters
    AutoThreshold = 8500000
    BatchSlots = 1
    None = None
    Kinds = {"recall", "mcp", "hybrid", "rag", "auto", "full", "cited", "vaults", "batch"}
    NameLists <- MCNameLists
    Limit = {2}
    MaxBatch = 3
SPECIFICATION Spec
INVARIANTS TypeOK AnswersAreSound EveryGoroutineCounts
PROPERTIES RankingIsKept RequestsEnd

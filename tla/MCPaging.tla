------------------------------ MODULE MCPaging ------------------------------
(* Small instances of Paging: one loop of each kind. *)
EXTENDS Paging

AllLoops == {handleExport, doGraphFull, handleChunksListGET, scrollAllFacts,
             scrollAllFilteredFacts, handleContradictions, ensureFactIndexes,
             migrateFacts, handleReviewGet, handleFactsGet}
=============================================================================

------------------------------ MODULE MCRecall ------------------------------
(* A small instance of Recall for TLC: two vaults, the first of them the       *)
(* default; two files and three chunks in it, one chunk in the other.          *)
EXTENDS Recall, TLC

MCChunk == {"a1", "a2", "b1", "x1"}
MCHome  == "a1" :> "main" @@ "a2" :> "main" @@ "b1" :> "main" @@ "x1" :> "other"
MCFile  == "a1" :> "a" @@ "a2" :> "a" @@ "b1" :> "b" @@ "x1" :> "a"

\* The rewrite is nearest to what the query is furthest from.
MCScore ==
    "query" :> ("a1" :> 9000000 @@ "x1" :> 8000000 @@ "b1" :> 6000000 @@ "a2" :> 5000000) @@
    "rewrite" :> ("a1" :> 4000000 @@ "x1" :> 5500000 @@ "b1" :> 6500000 @@ "a2" :> 7500000)

MCBm25      == "a1" :> -1 @@ "a2" :> 0 @@ "b1" :> 3 @@ "x1" :> 1
MCNameLists == {<<"main", "main">>, <<"unknown", "main", "other">>, <<"other">>}
MCFactScore == "fact" :> 7000000
MCFilters   == {MCChunk, {"a1", "b1"}}
=============================================================================

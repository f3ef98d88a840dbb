------------------------------- MODULE Recall -------------------------------
(* Recall and what is built on it: POST /recall over one vault or several,    *)
(* /batch/recall, /hybrid, /ask and the MCP tools (server/handlers.go,        *)
(* service.go, hybrid.go, citations.go), with query rewriting, rank fusion,   *)
(* re-ranking and the cached lexical index (internal/retrieval).              *)
(*                                                                            *)
(* The requests of one kind follow each other while chunks come and go and    *)
(* the lexical index is dropped. An embedding is its query, a similarity an   *)
(* integer in units of 1/Unit; no two chunks are equally similar to a query.  *)
EXTENDS Integers, FiniteSets, Sequences, SequencesExt, FiniteSetsExt

CONSTANTS
    Vault,
    Unlisted,       \* names of no vault
    Default,        \* the vault the server-wide client serves
    Chunk,
    Moving,         \* bound: the chunks that come and go; the others stay
    Home, File,     \* the vault and the source file of every chunk
    Query,          \* what is embedded: the query as asked and its rewrites
    Original,
    Score,          \* Score[q][c]: similarity of query and chunk
    Bm25,           \* lexical score of every chunk for Original, -1 for no match
    Fact, FactScore,
    Filters,        \* the sets of chunks a filter or threshold may select
    AutoThreshold,
    BatchSlots,     \* capacity of handleBatchRecall's semaphore
    None,
    Kinds,          \* bound: the kinds of request to consider
    NameLists,      \* bound: the lists of names a request over several vaults gives
    Limit,          \* bound: top_k, and handleHybrid's limit
    MaxBatch        \* bound: queries in a batch

Unit == 10000000
K == 60             \* the constant of reciprocal rank fusion

Injective(f, S) == \A a, b \in S : f[a] = f[b] => a = b

ASSUME RecallAssumption ==
    /\ IsFiniteSet(Chunk) /\ IsFiniteSet(Fact) /\ Chunk \cap Fact = {}
    /\ Default \in Vault /\ Home \in [Chunk -> Vault]
    /\ Original \in Query /\ Moving \subseteq Chunk
    /\ Score \in [Query -> [Chunk -> Int]] /\ FactScore \in [Fact -> Int]
    /\ \A q \in Query : Injective(Score[q], Chunk)
    /\ Injective(FactScore, Fact)
    /\ Bm25 \in [Chunk -> Nat \cup {-1}] /\ Filters \subseteq SUBSET Chunk
    /\ NameLists \subseteq Seq(Vault \cup Unlisted)
    /\ Limit \subseteq Nat \ {0} /\ MaxBatch \in Nat \ {0} /\ BatchSlots \in Nat \ {0}
    /\ Vault \cap Unlisted = {} /\ None \notin Vault \cup Unlisted \cup Query \cup Chunk
    /\ None \notin [index : Nat, results : Nat]

\* The unit tells the shares of any two ranks apart, as the code's floats do.
ASSUME UnitAssumption == \A n \in Limit : (K + 2 * n) * (K + 2 * n) <= Unit

VARIABLES
    kind,           \* the kind of request in this behaviour
    stored,         \* chunks in the collections
    lexical,        \* Server.lexical: chunks in the index of every vault, {} for none
    r,              \* the request in progress
    seen,           \* history: chunks stored at some time during the request
    workers,        \* goroutines of a request over several vaults, one for each name
    queries,        \* goroutines of a batch
    slots,          \* len(sem) of a batch
    entries         \* the entries of a batch response

vars == <<kind, stored, lexical, r, seen, workers, queries, slots, entries>>

Idle ==
    [pc |-> "idle", vault |-> None, mode |-> None, rewrite |-> "off", filter |-> {},
     limit |-> 0, more |-> 0, asks |-> <<>>, lists |-> <<>>, index |-> {}, out |-> <<>>,
     top |-> 0, files |-> <<>>, sources |-> <<>>, context |-> {}, stamped |-> 0]

Init ==
    /\ kind \in Kinds
    /\ stored = Chunk \ Moving
    /\ lexical = [v \in Vault |-> {}]
    /\ r = Idle
    /\ seen = {}
    /\ workers = <<>>
    /\ queries = <<>>
    /\ slots = 0
    /\ entries = <<>>

\* Indexing, ingestion and deletion as recall sees them. None of them touches
\* the lexical index.
Insert(c) ==
    /\ stored' = stored \cup {c}
    /\ seen' = IF r.pc = "idle" THEN seen ELSE seen \cup {c}
    /\ UNCHANGED <<kind, lexical, r, workers, queries, slots, entries>>

Delete(c) ==
    /\ stored' = stored \ {c}
    /\ UNCHANGED <<kind, lexical, r, seen, workers, queries, slots, entries>>

\* InvalidateLexicalIndex, by an accepted handleReindex. (Only POST /recall uses
\* the index.)
Invalidate(v) ==
    /\ kind = "recall"
    /\ lexical' = [lexical EXCEPT ![v] = {}]
    /\ UNCHANGED <<kind, stored, r, seen, workers, queries, slots, entries>>

-----------------------------------------------------------------------------
(* Ranked lists: sequences of entries, best first.                            *)

FirstOf(s, n) == SubSeq(s, 1, IF Len(s) < n THEN Len(s) ELSE n)
Ids(s) == [i \in DOMAIN s |-> s[i].id]

\* sort.Slice by descending score; equal scores in some order.
Sorted(S) ==
    LET Best(T) == CHOOSE e \in T : \A x \in T : x.score <= e.score
        sorted[T \in SUBSET S] ==
            IF T = {} THEN <<>> ELSE <<Best(T)>> \o sorted[T \ {Best(T)}]
    IN  sorted[S]

\* Places of a sequence in order, and what is there.
Ascending(S) == Ids(Sorted({[id |-> i, score |-> -i] : i \in S}))
At(s, places) == [i \in DOMAIN places |-> s[places[i]]]
Taken(s, S) == At(s, Ascending(S))

\* sort.Slice of a list by descending score.
ByScore(s) == At(s, Ids(Sorted({[id |-> i, score |-> s[i].score] : i \in DOMAIN s})))

\* qdrantFor: a name of no vault means the server-wide client.
Client(v) == IF v \in Vault THEN v ELSE Default

\* Client.Search: the n points most similar among those the filter selects.
Search(v, q, filter, n) ==
    FirstOf(Sorted({[id |-> c, score |-> Score[q][c], vault |-> v] :
                        c \in {c \in stored \cap filter : Home[c] = Client(v)}}), n)

\* LexicalIndex.Search. A match may score 0: its terms are in most texts.
LexicalSearch(index, v, n) ==
    FirstOf(Sorted({[id |-> c, score |-> Bm25[c], vault |-> v] :
                        c \in {c \in index : Bm25[c] >= 0}}), n)

\* The share of a list in the score of a document: 1 / (K + rank).
Share(list, c) ==
    IF c \in ToSet(list) THEN Unit \div (K + (CHOOSE i \in DOMAIN list : list[i] = c))
    ELSE 0

Fuse(lists, v) ==
    Sorted({[id |-> c, vault |-> v,
             score |-> SumFunction([i \in DOMAIN lists |-> Share(lists[i], c)])] :
                c \in UNION {ToSet(lists[i]) : i \in DOMAIN lists}})

\* The facts collection's answer.
FactSearch(n) ==
    FirstOf(Sorted({[id |-> f, score |-> FactScore[f], vault |-> None] : f \in Fact}), n)

\* queryHybridFacts: facts by key, prefix and tag, each once, in the order of three
\* scrolls. They have no score.
FactsByName(n) ==
    {[i \in DOMAIN s |-> [id |-> s[i], score |-> 0, vault |-> None]] :
        s \in {s \in BoundedSeq(Fact, n) : IsInjective(s)}}

-----------------------------------------------------------------------------
(* The requests that call doRecall, as far as they differ.                    *)

Modes    == {"dense", "sparse", "hybrid"}
Rewrites == {"off", "hyde", "stepback", "multiquery"}

handleRecall ==
    [vault : Vault, mode : Modes, rewrite : Rewrites, filter : Filters, limit : Limit,
     more : {0}]

\* The server's defaults decide on rewriting; always dense.
mcpRecall ==
    [vault : Vault, mode : {"dense"}, rewrite : Rewrites, filter : Filters, limit : Limit,
     more : {0}]

\* The others take a query and a limit, and no filter.
Plain ==
    [vault : Vault, mode : {"dense"}, rewrite : Rewrites, filter : {Chunk}, limit : Limit,
     more : {0}]

\* top_k bounds the chunks and the facts near the query, limit the facts by name;
\* without key, prefix and tag there are none of these.
handleHybrid ==
    [vault : Vault, mode : {"dense"}, rewrite : Rewrites, filter : {Chunk}, limit : Limit,
     more : Limit \cup {0}]

mcpHybridSearch  == Plain
mcpContextBundle == Plain
handleAsk        == Plain
mcpAsk           == Plain

Requests ==
    CASE kind = "recall" -> handleRecall
      [] kind = "mcp"    -> mcpRecall \cup mcpHybridSearch \cup mcpContextBundle
      [] kind = "hybrid" -> handleHybrid
      [] kind \in {"rag", "auto", "full"} -> handleAsk \cup mcpAsk
      [] OTHER -> {}

Begin(q) ==
    /\ r.pc = "idle"
    /\ r' = [Idle EXCEPT !.pc = IF kind = "full" THEN "full" ELSE "rewrite",
                         !.vault = q.vault, !.mode = q.mode, !.rewrite = q.rewrite,
                         !.filter = q.filter, !.limit = q.limit, !.more = q.more]
    /\ seen' = stored
    /\ UNCHANGED <<kind, stored, lexical, workers, queries, slots, entries>>

Step(s) ==
    /\ r' = s
    /\ UNCHANGED <<kind, stored, lexical, seen, workers, queries, slots, entries>>

Fail == Step([r EXCEPT !.pc = "failed", !.asks = <<>>, !.lists = <<>>, !.index = {}])

-----------------------------------------------------------------------------
(* doRecall.                                                                  *)

\* retrieval.Rewrite: what to embed; any error leaves the query as asked.
Rewrite(mode) ==
    {<<Original>>} \cup
    CASE mode = "off"        -> {}
      [] mode = "hyde"       -> {<<q>> : q \in Query}
      [] mode = "stepback"   -> {<<q, Original>> : q \in Query \ {Original}}
      [] mode = "multiquery" -> {<<q, Original>> : q \in Query \ {Original}}

\* useMultiQueryFanout: a dense search for each of several rewrites.
FansOut(asks) == r.rewrite = "multiquery" /\ Len(asks) > 1 /\ r.mode = "dense"

RewriteQuery ==
    /\ r.pc = "rewrite"
    /\ \E asks \in Rewrite(r.rewrite) :
          IF FansOut(asks) THEN Step([r EXCEPT !.pc = "fan", !.rewrite = "off", !.asks = asks])
          ELSE Step([r EXCEPT !.pc = "search", !.rewrite = "off", !.asks = <<asks[1]>>])

\* The embedding failed. (A request that fans out passes over the query.)
EmbeddingFails ==
    /\ r.pc = "search"
    /\ Fail

Ranked(out, top) ==
    [r EXCEPT !.pc = "rank", !.out = out, !.top = top, !.asks = <<>>, !.index = {}]

TopOf(out) == IF out = <<>> THEN 0 ELSE out[1].score

denseRecall ==
    /\ r.pc = "search" /\ r.mode = "dense"
    /\ LET out == Search(r.vault, r.asks[1], r.filter, r.limit)
       IN  Step(Ranked(out, TopOf(out)))

\* multiQueryRecall: one search per query; those that fail are passed over ...
FanSearch ==
    /\ r.pc = "fan" /\ r.asks # <<>>
    /\ \/ Step([r EXCEPT !.asks = Tail(@), !.lists = Append(@,
                    Ids(Search(r.vault, r.asks[1], r.filter, 2 * r.limit)))])
       \/ Step([r EXCEPT !.asks = Tail(@)])

\* ... and the lists are fused.
FanFuse ==
    /\ r.pc = "fan" /\ r.asks = <<>>
    /\ IF r.lists = <<>> THEN Step(Ranked(<<>>, 0))
       ELSE Step([r EXCEPT !.pc = "fetch",
                           !.out = FirstOf(Fuse(r.lists, r.vault), r.limit)])

\* hybridRecall begins with the dense search.
HybridSearch ==
    /\ r.pc = "search" /\ r.mode = "hybrid"
    /\ Step([r EXCEPT !.pc = "lexical", !.asks = <<>>,
                      !.lists = <<Ids(Search(r.vault, r.asks[1], r.filter, 2 * r.limit))>>])

SparseSearch ==
    /\ r.pc = "search" /\ r.mode = "sparse"
    /\ Step([r EXCEPT !.pc = "lexical", !.asks = <<>>])

\* The vector store cannot be searched.
SearchFails ==
    /\ r.pc = "search" /\ r.mode \in {"dense", "hybrid"}
    /\ Fail

-----------------------------------------------------------------------------
(* lexicalIndexFor.                                                           *)

\* A cached index that is not empty is used.
UseCached ==
    /\ r.pc = "lexical" /\ lexical[r.vault] # {}
    /\ Step([r EXCEPT !.pc = "fuse", !.index = lexical[r.vault]])

\* buildLexicalIndex scrolls without the lock and with a context of its own,
\* which names no vault: the default collection is read.
Build ==
    /\ r.pc = "lexical" /\ lexical[r.vault] = {}
    /\ Step([r EXCEPT !.pc = "cache", !.index = {c \in stored : Home[c] = Default}])

\* Sparse retrieval is switched off, or the scroll failed.
NoIndex ==
    /\ r.pc = "lexical" /\ lexical[r.vault] = {}
    /\ Step([r EXCEPT !.pc = "fuse"])

\* The lock again: the index built is stored, whatever happened meanwhile.
Cache ==
    /\ r.pc = "cache"
    /\ lexical' = [lexical EXCEPT ![r.vault] = r.index]
    /\ r' = [r EXCEPT !.pc = "fuse"]
    /\ UNCHANGED <<kind, stored, seen, workers, queries, slots, entries>>

\* sparseRecall: no index is an error; the ranking is not cut to top_k.
SparseRank ==
    /\ r.pc = "fuse" /\ r.mode = "sparse"
    /\ LET found == LexicalSearch(r.index, r.vault, 2 * r.limit) IN
       CASE r.index = {} -> Fail
         [] r.index # {} /\ found = <<>> -> Step(Ranked(<<>>, 0))
         [] OTHER -> Step([r EXCEPT !.pc = "fetch", !.index = {},
                                    !.out = found, !.lists = <<Ids(found)>>])

\* hybridRecall: fuse the dense and the lexical ranking.
HybridFuse ==
    /\ r.pc = "fuse" /\ r.mode = "hybrid"
    /\ LET lists == Append(r.lists, Ids(LexicalSearch(r.index, r.vault, 2 * r.limit)))
           fused == Fuse(lists, r.vault)
       IN  IF fused = <<>> THEN Step(Ranked(<<>>, 0))
           ELSE Step([r EXCEPT !.pc = "fetch", !.index = {}, !.lists = lists,
                               !.out = FirstOf(fused, r.limit)])

\* Mutant of Fetched: the points are not looked up.
FetchedBlindly(out) == out

\* Mutant of Fetched: the points in the order GetPoints happens to return them.
FetchedUnsorted(out) ==
    Reverse(Taken(out, {i \in DOMAIN out : out[i].id \in stored /\ Home[out[i].id] = r.vault}))

\* GetPoints returns the points that still are in the vault's collection; their
\* order is restored. The filter is not asked again.
Fetched(out) ==
    Taken(out, {i \in DOMAIN out : out[i].id \in stored /\ Home[out[i].id] = r.vault})

recallByIDs ==
    /\ r.pc = "fetch"
    /\ LET out == Fetched(r.out) IN Step(Ranked(out, TopOf(out)))

FetchFails ==
    /\ r.pc = "fetch"
    /\ Fail

-----------------------------------------------------------------------------
(* rerankIfRequested.                                                         *)

\* The places of the first occurrences in a sequence of numbers.
Firsts(order) == {i \in DOMAIN order : \A j \in DOMAIN order : j < i => order[j] # order[i]}

\* Mutant of Rerank: what the model left out of its list is dropped.
RerankListed(out, order) == At(out, Taken(order, Firsts(order)))

\* Rerank, applyRerankOrder: the model's list without repetitions, then what it
\* left out.
Rerank(out, order) ==
    At(out, Taken(order, Firsts(order)) \o Ascending(DOMAIN out \ ToSet(order)))

Respond(out) ==
    Step([r EXCEPT !.pc = IF kind \in {"rag", "auto"} THEN "context" ELSE "use",
                   !.out = out, !.lists = <<>>])

\* The model's answer is a list of numbers in range, of any length.
RerankResults ==
    /\ r.pc = "rank" /\ Len(r.out) >= 2
    /\ \E order \in BoundedSeq(DOMAIN r.out, Len(r.out)) :
          order # <<>> /\ Respond(Rerank(r.out, order))

\* Not requested, not allowed, no model, an error or an unreadable answer.
KeepOrder ==
    /\ r.pc = "rank"
    /\ Respond(r.out)

-----------------------------------------------------------------------------
(* What the callers do with the results.                                      *)

End ==
    /\ r' = Idle
    /\ seen' = {}
    /\ workers' = <<>>
    /\ queries' = <<>>
    /\ entries' = <<>>
    /\ UNCHANGED <<kind, stored, lexical, slots>>

\* The response is written; it is looked at while pc = "done".
RecallAnswers ==
    /\ r.pc = "use" /\ kind # "hybrid"
    /\ Step([r EXCEPT !.pc = "done"])

\* /recall with expand: facts are merged in by score. (Not when all vaults are
\* searched.)
Expand ==
    /\ r.pc = "use" /\ kind \in {"recall", "vaults"} /\ Fact # {}
    /\ LET out == FirstOf(ByScore(r.out \o FactSearch(r.limit)), r.limit)
       IN  Step([r EXCEPT !.pc = "done", !.out = out, !.top = TopOf(out)])

\* handleHybrid: after the chunks the facts near the query, then those by name. A
\* failed recall leaves the facts alone; a failed search finds none.
HybridAnswers ==
    /\ kind = "hybrid" /\ r.pc \in {"use", "failed"}
    /\ \E near \in {<<>>, FactSearch(r.limit)}, named \in FactsByName(r.more) :
          Step([r EXCEPT !.pc = "done",
                         !.out = (IF r.pc = "failed" THEN <<>> ELSE @) \o near \o named])

RecallFails ==
    /\ r.pc = "failed" /\ kind # "hybrid"
    /\ End

Done ==
    /\ r.pc = "done"
    /\ End

-----------------------------------------------------------------------------
(* /ask.                                                                      *)

\* The files of a list of chunks, each once, in order.
FilesOf(out) ==
    LET files == [i \in DOMAIN out |-> File[out[i].id]] IN Taken(files, Firsts(files))

\* appendFactContext: relevant facts join a context that is not empty and are
\* stamped as recalled.
Stamps(context) == {r.stamped} \cup (IF context # {} /\ Fact # {} THEN {r.stamped + 1} ELSE {})

\* queryContext: the chunks recalled are the context; in mode auto a poor best
\* score discards them, but not the sources.
UseChunks ==
    /\ r.pc = "context"
    /\ LET chunks == {r.out[i].id : i \in DOMAIN r.out} IN
       \E n \in Stamps(chunks) :
          IF kind = "auto" /\ r.top < AutoThreshold
          THEN Step([r EXCEPT !.pc = "full", !.out = <<>>, !.sources = FilesOf(r.out),
                              !.stamped = n])
          ELSE Step([r EXCEPT !.pc = "answer", !.sources = FilesOf(r.out),
                              !.out = <<>>, !.context = chunks, !.stamped = n])

\* The full mode: the files of the 50 nearest chunks ...
FindFiles ==
    /\ r.pc = "full"
    /\ \/ Step([r EXCEPT !.pc = "load",
                         !.files = FilesOf(Search(r.vault, Original, Chunk, 50))])
       \/ Fail

\* Mutant of Named: a file that the first phase named is taken for listed.
NamedOnce(found) == SelectSeq(FilesOf(found), LAMBDA f : f \notin {File[c] : c \in seen})

\* The files of the chunks loaded.
Named(found) == FilesOf(found)

\* ... are loaded one search at a time; a failed one is passed over.
LoadFile ==
    /\ r.pc = "load" /\ r.files # <<>>
    /\ LET found == Search(r.vault, Original, {c \in Chunk : File[c] = r.files[1]}, 100) IN
       \/ Step([r EXCEPT !.files = Tail(@), !.sources = @ \o Named(found),
                         !.context = @ \cup {found[i].id : i \in DOMAIN found}])
       \/ Step([r EXCEPT !.files = Tail(@)])

\* All files are loaded, or the context is long enough.
Loaded ==
    /\ r.pc = "load" /\ (r.files = <<>> \/ r.context # {})
    /\ \E n \in Stamps(r.context) :
          Step([r EXCEPT !.pc = "answer", !.files = <<>>, !.stamped = n])

\* doAsk: Synthesize answers or fails.
Synthesize ==
    /\ r.pc = "answer"
    /\ Step([r EXCEPT !.pc = "explain"]) \/ Fail

\* doAskWithExplanation searches again to explain the answer, if it can.
Explain ==
    /\ r.pc = "explain"
    /\ \E out \in {<<>>, Search(r.vault, Original, Chunk, r.limit)} :
          Step([r EXCEPT !.pc = "done", !.out = out])

\* What an answer cites of what was found, each chunk once.
Cited(cites, found) ==
    LET cited == Taken(cites, {i \in Firsts(cites) :
                                  \E j \in DOMAIN found : found[j].id = cites[i]})
    IN  [i \in DOMAIN cited |-> CHOOSE e \in ToSet(found) : e.id = cited[i]]

\* doAskCited: chunks, and the citations the model's answer makes of them.
AskCited ==
    /\ kind = "cited" /\ r.pc = "idle"
    /\ \E v \in Vault, n \in Limit :
       LET found == Search(v, Original, Chunk, n) IN
       \E cites \in BoundedSeq(Chunk, 2) :
          r' = [Idle EXCEPT
                !.pc = "done", !.vault = v, !.mode = "dense", !.limit = n,
                !.sources = FilesOf(found),
                !.context = {found[i].id : i \in DOMAIN found},
                !.out = Cited(cites, found)]
    /\ seen' = stored
    /\ UNCHANGED <<kind, stored, lexical, workers, queries, slots, entries>>

-----------------------------------------------------------------------------
(* /recall over several vaults: a goroutine each.                             *)

Waiting(v) == [pc |-> "search", vault |-> v, found |-> <<>>]

\* The vaults are those of the manager or a list of names: some perhaps unknown, some
\* given twice.
CrossVault(names, n, filter) ==
    /\ kind = "vaults" /\ r.pc = "idle"
    /\ r' = [Idle EXCEPT !.pc = "vaults", !.mode = "dense", !.limit = n, !.filter = filter]
    /\ workers' = [g \in DOMAIN names |-> Waiting(names[g])]
    /\ seen' = stored
    /\ UNCHANGED <<kind, stored, lexical, queries, slots, entries>>

SearchVault(g) ==
    /\ workers[g].pc = "search"
    /\ workers' = [workers EXCEPT ![g] =
          [@ EXCEPT !.pc = "append",
                    !.found = Search(workers[g].vault, Original, r.filter, r.limit)]]
    /\ UNCHANGED <<kind, stored, lexical, r, seen, queries, slots, entries>>

\* Its error goes to the channel that has room for all of them.
VaultFails(g) ==
    /\ workers[g].pc = "search"
    /\ workers' = [workers EXCEPT ![g].pc = "done"]
    /\ UNCHANGED <<kind, stored, lexical, r, seen, queries, slots, entries>>

\* Mutant of Appended: the append of a goroutine without the lock is lost.
AppendedUnlocked(found) == found

Appended(found) == r.out \o found

AppendVault(g) ==
    /\ workers[g].pc = "append"
    /\ workers' = [workers EXCEPT ![g].pc = "done"]
    /\ r' = [r EXCEPT !.out = Appended(workers[g].found)]
    /\ UNCHANGED <<kind, stored, lexical, seen, queries, slots, entries>>

\* wg.Wait, the sort by score and the cut.
Merge ==
    /\ r.pc = "vaults" /\ \A g \in DOMAIN workers : workers[g].pc = "done"
    /\ LET out == FirstOf(ByScore(r.out), r.limit)
       IN  Step([r EXCEPT !.pc = "use", !.out = out, !.top = TopOf(out)])

-----------------------------------------------------------------------------
(* /batch/recall: a goroutine per query, BatchSlots at a time.                *)

Batch(n, limit) ==
    /\ kind = "batch" /\ r.pc = "idle"
    /\ r' = [Idle EXCEPT !.pc = "batch", !.limit = limit]
    /\ \E v \in [1 .. n -> Vault] :
          queries' = [i \in 1 .. n |-> [pc |-> "queued", vault |-> v[i]]]
    /\ entries' = [i \in 1 .. n |-> None]
    /\ seen' = stored
    /\ UNCHANGED <<kind, stored, lexical, workers, slots>>

Acquire(i) ==
    /\ queries[i].pc = "queued" /\ slots < BatchSlots
    /\ slots' = slots + 1
    /\ queries' = [queries EXCEPT ![i].pc = "running"]
    /\ UNCHANGED <<kind, stored, lexical, r, seen, workers, entries>>

\* Every way out writes the query's own entry and, deferred, frees the slot.
Leave(i, entry) ==
    /\ queries[i].pc = "running"
    /\ entries' = [entries EXCEPT ![i] = entry]
    /\ slots' = slots - 1
    /\ queries' = [queries EXCEPT ![i].pc = "done"]
    /\ UNCHANGED <<kind, stored, lexical, r, seen, workers>>

QueryAnswers(i) ==
    Leave(i, [index |-> i, results |-> Len(Search(queries[i].vault, Original, Chunk, r.limit))])

\* Mutant of QueryFails: an early return without the deferred release.
QueryFailsKeepingSlot(i) ==
    /\ queries[i].pc = "running"
    /\ entries' = [entries EXCEPT ![i] = [index |-> i, results |-> 0]]
    /\ queries' = [queries EXCEPT ![i].pc = "done"]
    /\ UNCHANGED <<kind, stored, lexical, r, seen, workers, slots>>

\* Mutant of QueryFails: the slot is freed there and by the deferred release.
QueryFailsFreeingTwice(i) ==
    /\ queries[i].pc = "running"
    /\ entries' = [entries EXCEPT ![i] = [index |-> i, results |-> 0]]
    /\ queries' = [queries EXCEPT ![i].pc = "done"]
    /\ slots' = slots - 2
    /\ UNCHANGED <<kind, stored, lexical, r, seen, workers>>

\* The embedding or the search failed.
QueryFails(i) == Leave(i, [index |-> i, results |-> 0])

\* wg.Wait.
BatchAnswers ==
    /\ r.pc = "batch" /\ \A i \in DOMAIN queries : queries[i].pc = "done"
    /\ Step([r EXCEPT !.pc = "done"])

-----------------------------------------------------------------------------
doRecall ==
    \/ RewriteQuery \/ EmbeddingFails \/ denseRecall \/ FanSearch \/ FanFuse
    \/ HybridSearch \/ SparseSearch \/ SearchFails
    \/ UseCached \/ Build \/ NoIndex \/ Cache \/ SparseRank \/ HybridFuse
    \/ recallByIDs \/ FetchFails \/ RerankResults \/ KeepOrder

Progress ==
    \/ doRecall
    \/ RecallAnswers \/ Expand \/ HybridAnswers \/ RecallFails \/ Done
    \/ UseChunks \/ FindFiles \/ LoadFile \/ Loaded \/ Synthesize \/ Explain
    \/ \E g \in DOMAIN workers : SearchVault(g) \/ VaultFails(g) \/ AppendVault(g)
    \/ Merge
    \/ \E i \in DOMAIN queries : Acquire(i) \/ QueryAnswers(i) \/ QueryFails(i)
    \/ BatchAnswers

Next ==
    \/ \E c \in Moving : Insert(c) \/ Delete(c)
    \/ \E v \in Vault : Invalidate(v)
    \/ \E q \in Requests : Begin(q)
    \/ AskCited
    \/ \E names \in NameLists, n \in Limit, f \in Filters : CrossVault(names, n, f)
    \/ \E n \in 1 .. MaxBatch, limit \in Limit : Batch(n, limit)
    \/ Progress

\* Handlers and their goroutines run; calls to the stores and models have
\* deadlines.
Spec == Init /\ [][Next]_vars /\ WF_vars(Progress)

-----------------------------------------------------------------------------
Entries == [id : Chunk \cup Fact, score : Int, vault : Vault \cup Unlisted \cup {None}]

Phases ==
    {"idle", "rewrite", "search", "fan", "lexical", "cache", "fuse", "fetch", "rank", "use",
     "context", "full", "load", "answer", "explain", "vaults", "batch", "done", "failed"}

Files == {File[c] : c \in Chunk}

\* The variables keep their types; of a batch, slots are held by the queries that
\* run and no others.
TypeOK ==
    /\ kind \in Kinds
    /\ stored \subseteq Chunk /\ seen \subseteq Chunk
    /\ lexical \in [Vault -> SUBSET Chunk]
    /\ r \in [pc : Phases, vault : Vault \cup {None}, mode : Modes \cup {None},
              rewrite : Rewrites, filter : SUBSET Chunk, limit : Limit \cup {0},
              more : Limit \cup {0}, asks : Seq(Query), lists : Seq(Seq(Chunk)), index : SUBSET Chunk,
              out : Seq(Entries), top : Int, files : Seq(Files), sources : Seq(Files),
              context : SUBSET Chunk, stamped : 0 .. 2]
    /\ \A g \in DOMAIN workers :
          workers[g] \in [pc : {"search", "append", "done"}, vault : Vault \cup Unlisted,
                          found : Seq(Entries)]
    /\ IsFiniteSet(DOMAIN queries)
    /\ \A i \in DOMAIN queries :
          queries[i] \in [pc : {"queued", "running", "done"}, vault : Vault]
    /\ slots \in 0 .. BatchSlots
    /\ slots = Cardinality({i \in DOMAIN queries : queries[i].pc = "running"})

\* Two goroutines search vault v.
SearchedTwice(v) ==
    \E g, h \in DOMAIN workers :
        g # h /\ Client(workers[g].vault) = v /\ Client(workers[h].vault) = v

\* What a response may hold twice: a chunk of a vault that was searched twice, and a
\* fact that is near the query and was asked for by name.
MayRepeat(id) ==
    \/ kind = "vaults" /\ id \in Chunk /\ SearchedTwice(Home[id])
    \/ kind = "hybrid" /\ id \in Fact

\* The most results: top_k, of sparse recall twice that; handleHybrid adds as many
\* facts again and those by name.
Most ==
    (IF r.mode = "sparse" \/ kind = "hybrid" THEN 2 ELSE 1) * r.limit + r.more

\* A response names nothing else twice, keeps to its limits, and shows no chunk
\* that was gone before the request began, nor one of another vault than it says,
\* though the lexical index may be older than any chunk (recallByIDs).
ResultsExist ==
    r.pc = "done" =>
        /\ \A i, j \in DOMAIN r.out :
              i # j /\ r.out[i].id = r.out[j].id => MayRepeat(r.out[i].id)
        /\ kind # "cited" => Len(r.out) <= Most
        /\ \A e \in ToSet(r.out) :
              e.id \in Chunk => e.id \in seen /\ Home[e.id] = Client(e.vault)

\* Every chunk in the context of an answer has its file among the sources
\* returned, also when the first context was discarded (queryContext).
SourcesCoverContext ==
    r.pc \in {"answer", "explain", "done"} =>
        \A c \in r.context : File[c] \in ToSet(r.sources)

AnswersAreSound == ResultsExist /\ SourcesCoverContext

Place(list, c) ==
    IF c \in ToSet(list) THEN CHOOSE i \in DOMAIN list : list[i] = c ELSE Len(list) + 1

\* No ranking puts b before a, and one puts a before b.
Ahead(a, b) ==
    /\ \A i \in DOMAIN r.lists : Place(r.lists[i], a) <= Place(r.lists[i], b)
    /\ \E i \in DOMAIN r.lists : Place(r.lists[i], a) < Place(r.lists[i], b)

\* Of two results on whose order all rankings agree, the better one comes first,
\* although points vanish between the rankings and the look-up and the store
\* returns them in its own order (Fuse, recallByIDs) ...
FusionAgrees ==
    r.pc = "fetch" /\ r'.pc = "rank" =>
        \A i, j \in DOMAIN r'.out : i < j => ~Ahead(r'.out[j].id, r'.out[i].id)

\* ... and re-ranking, whatever the model answers, loses and repeats nothing.
RerankPermutes ==
    r.pc = "rank" /\ r'.pc \in {"use", "context"} =>
        Len(r'.out) = Len(r.out) /\ ToSet(r'.out) = ToSet(r.out)

RankingIsKept == [][FusionAgrees /\ RerankPermutes]_vars

\* No goroutine's work is lost: a response over several vaults shows the best of
\* all that the vaults that answered have found, and a batch has for every
\* query its own entry (handleRecall, handleBatchRecall).
EveryGoroutineCounts ==
    /\ kind = "vaults" /\ r.pc = "use" =>
          LET found == UNION {ToSet(workers[g].found) : g \in DOMAIN workers} IN
          /\ ToSet(r.out) \subseteq found
          /\ Len(r.out) < r.limit => found \subseteq ToSet(r.out)
          /\ \A e \in found, i \in DOMAIN r.out :
                e \notin ToSet(r.out) => e.score <= r.out[i].score
    /\ kind = "batch" /\ r.pc = "done" =>
          \A i \in DOMAIN entries : entries[i] # None /\ entries[i].index = i

\* Every request is answered, whatever fails and however chunks come and go; no
\* batch waits for a slot that is never freed (handleBatchRecall).
RequestsEnd == []<>(r.pc = "idle")

-----------------------------------------------------------------------------
(* What the code does not keep (see PROJECT.json, findings).                  *)

\* No result is named twice.
ResultsAreDistinct == r.pc = "done" => IsInjective(Ids(r.out))

\* Results satisfy the request's filter.
FiltersAreHonoured ==
    r.pc = "done" => \A e \in ToSet(r.out) : e.id \in Chunk => e.id \in r.filter

\* A chunk that matches and was there all along is found by sparse recall.
SparseRecallIsComplete ==
    r.pc = "rank" /\ r.mode = "sparse" /\ Len(r.out) < 2 * r.limit =>
        \A c \in stored : Home[c] = r.vault /\ Bm25[c] >= 0 => c \in ToSet(Ids(r.out))

\* The sources of an answer are distinct ...
SourcesAreDistinct == r.pc = "done" => IsInjective(r.sources)

\* ... and each has a chunk in the context.
SourcesAreUsed ==
    r.pc = "answer" => \A i \in DOMAIN r.sources : \E c \in r.context : File[c] = r.sources[i]

\* A question stamps the facts it recalls once.
FactsStampedOnce == r.stamped <= 1

\* The original query is among those searched.
AsksTheOriginal ==
    [][r.pc = "rewrite" /\ r.rewrite \in {"stepback", "multiquery"} =>
          Original \in ToSet(r'.asks)]_vars
=============================================================================

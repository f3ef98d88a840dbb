# TLA+ verification of ragamuffin

ragamuffin is a memory server for agents. It indexes the files of one or more
*vaults* into vector collections, keeps a collection of *facts* with a review
life cycle, stores session transcripts, extracts facts and procedures from
them, and prunes what has gone stale. It is a Go process of many goroutines in
front of a vector store (Qdrant or an embedded SQL store); almost every
operation on a stored point is a read and, in a separate call, a write.

That is where the interesting questions are. A unit test runs a handler alone
against a mock store. It does not show what happens when a pruner scan acts on
a page it read a minute ago, when a review and a POST write the same fact, when
a walk of the vault races the edits it is looking for, or when the process dies
between two store calls. The modules here model these interleavings.

Contents:

1. Components of the system
2. The modules and how they correspond to the code
3. What is checked: runs, bounds, fairness
4. What is proved
5. Where the code and its documentation differ
6. What is not modelled
7. Plan

## 1. Components of the system

Paths are relative to `src/internal`. "Hard" is what concurrency, failure or
ordering make difficult; "correct if" is what the properties are for.

| Component | State | Operations | Hard | Correct if |
|---|---|---|---|---|
| Facts API (`server/facts.go`, `service.go`, MCP handlers) | the facts collection, one payload per key | POST, PUT, PATCH, DELETE, MCP upsert, supersede older versions (goroutine) | every write is read, then upsert; PATCH is up to three writes | server-managed fields survive a POST; one active version per family |
| Review queue (`server/review.go`) | status of facts | confirm, update, reject, supersede (with a replacement) | supersede is two upserts | a retired fact has its replacement |
| Pruner (`pruner/`) | one goroutine per scan, shared counters | stale, expired, low confidence, conflict, supersede scans; decay, re-embedding | acts on a snapshot, one write per point, any of which may fail | flags and supersessions are justified, contradictions are not lost |
| Watchers (`watcher/`) | mtimes seen | poll: walk, compare, send; inotify: read, debounce, send | the vault changes during the walk; a lossy send | a change it has seen is sent |
| Ingress (`ingress/`) | bounded channels, retry goroutines | fan-out to indexer, pruner, ingest consumers; close | full channels, overtaking retries, closing under senders | bounded; nothing is lost without a full channel; nothing is sent on a closed one |
| Indexer (`indexer/`) | statistics, re-index request | events, full re-index, ingest | read, delete, several upserts per file, while others write | the collection reflects the vault; no mixture of texts |
| Vaults (`server/server.go`, `handlers.go`, `mcp_handlers.go`, `indexer/manager.go`) | `cfg.Vaults`, the manager's maps, directories, collections | create, provision, delete, clear, archive, merge, ingest, look up | two maps under two locks, several steps with partial failure, concurrent requests | no half-created vault; what is removed belongs to the vault named; no deadlock |
| Loops over a collection (`qdrant/`, `embeddedstore/`, all callers of Scroll) | cursor, cap | list, count, export, graph, scans, migration | two stores with different cursors, writes between pages | nothing that stays is missed, nothing shown twice, every loop ends |
| Sessions (`server/sessions.go`, `service.go`, `logstore/`) | session rows, turns, counters | create, batch, append, finalise, delete, purge | goroutines that index behind a request, two finalisations, purge under writers | counters agree with turns; nothing outlives its session |
| Consolidation (`consolidation/`) | flag Running | sweep: list, gate, schedule, read, write a gist | sessions change between the steps of a sweep | deleted sessions get no gist; sweeps end |
| Fact extraction (`extraction/`, `server/conversation.go`) | cooldown map, semaphore | admit, ask, deduplicate, write | check-then-write, many early returns | slots come back, cooldown holds, a repeated claim is stored few times |
| Recall and ask (`server/handlers.go`, `service.go`, `hybrid.go`, `citations.go`, `retrieval/`) | the cached lexical index | dense, sparse, hybrid recall; ask; several vaults; batches | stale index, partial failure, one goroutine per vault or query | results exist and belong to the vault; agreed rankings are kept; nothing hangs |
| Start and stop (`cmd/ragamuffin/main.go`) | contexts, channels | SIGTERM, drain, close | every component stops in its own time | no send on a closed channel, handlers drained |
| Knowledge graph (`graph/`), events (`events/`), rate limiter, procedural memory | edges, subscribers, buckets, procedures | | see section 6 | |
| Auth, config, LLM, embedding, git, MCP transport | none that changes after start | | | |

How they interact: watchers send to the ingress driver over `rawEvents`; the
driver fans out to the indexer and the pruner; the indexer, the API handlers and
the pruner share the collections and no lock; the API asks the indexer for a
full re-index over a channel of capacity one; every turn appended to a session
may start an indexing goroutine and an extraction; extraction, finalisation and
consolidation write facts that the pruner then scans; recall reads the
collections all of them write; the events emitter hears of all of them by
callback.

`PROJECT.json` lists every component with its status, and every hazard with its
line and the properties that would catch it going wrong.

## 2. The modules

| Module | Models | Proofs | Runs |
|---|---|---|---|
| `FactLifecycle` | the facts collection and all of its writers | `FactLifecycleProofs` | `MCFactLifecycle`, `Fact*.cfg` |
| `VaultIndex` | files, watchers, fan-out, indexer, ingest requests of one vault | `VaultIndexProofs` | `MCVaultIndex`, `Vault{Safety,Live}.cfg` |
| `VaultRegistry` | the vaults of a server under the handlers that make, fill, merge and remove them | `VaultRegistryProofs` | `MCVaultRegistry`, `RegistrySafety.cfg` |
| `VaultLocks` | the two locks those handlers take | | `MCVaultLocks`, `VaultGridlock.cfg` |
| `Listing` | what a reader of a whole collection relies on (abstract) | | |
| `Paging` | the loops that read a collection page by page, over either store; implements `Listing` | `PagingProofs` | `MCPaging`, `PagingComplete.cfg` |
| `Extraction` | turns into facts: cooldown, semaphore, LLM, deduplication, and the scan that acts on the result | `ExtractionProofs` | `MCExtraction`, `ExtractionRun.cfg` |
| `Sessions` | the log of turns, what indexes and finalises it, the consolidation sweep | `SessionsProofs` | `MCSessions`, `SessionsRun.cfg` |
| `Recall` | recall, ask, hybrid search, several vaults and batches | `RecallProofs` | `MCRecall`, `RecallRun.cfg` |
| `Shutdown` | the orderly stop of the process | | `MCShutdown`, `ShutdownSends.cfg` |
| `CollectionLemmas` | nothing of the program: sums over finite sets and sorted sequences, for the proofs of `VaultIndex`, `Sessions` and `Recall` | itself | |

`FactLifecycle` and `VaultIndex` are the two halves of the memory proper: facts
and indexed files. `VaultRegistry` looks at many vaults from further away: a
collection is a set of chunks, and the steps of `VaultIndex` appear as
`IndexFile`. `Extraction` sees the facts collection where keys repeat, as points
with ids of their own, which `FactLifecycle` (one payload per key) cannot show.

### FactLifecycle

`facts[k]` is the payload stored under key `k`, reduced to the fields that some
writer reads or that the life cycle is about: `status`, `supersedes`,
`contradicts`, `links`, `resolved`, and the deadlines `ttl` and `until`, which are
"none", "live" or "past"; `conf` is above or below the threshold. A
point id is a hash of the key, so the collection is a function of keys.

A request occupies a *slot* from its first store call until its last: `op[c]` is
what it does next, `plan[c]` the payload it is about to store. The first step of a
request is its read (`PostRead`, `UpsertRead`, `PutRead`, `ReviewRead`,
`PatchBegin`), with the handler's guards; the later ones are its writes (`Write`,
`ReviewCreate`, `ReviewRetire`, `PatchStep`), each of which may fail
(`WriteFails`). A versioned POST goes on to `AutoQuery` and `AutoMark`: the
goroutine of `supersedeOlderVersions`, with its single page of `ScrollLimit`
points.

A scan collects the answer to its query page by page (`FlagPage`, `RefsPage`,
`ConflictPage`, `CrossPage`, `PatternPage`), each page starting at `offset[s]`,
the last point of the page before. When a page is empty the query is over
(`FlagQueryEnds`, `StaleChoice`, `ConflictChoice`, `CrossQueryEnds`,
`PatternQueryEnds`), and one write per collected point follows (`FlagMark`,
`ConflictRead` and `ConflictWrite`, `CrossRead` and `CrossMark`, `PatternMark`).
Any of these reads may fail: a page that fails ends the scan (`QueryFails`), a
point that cannot be read is passed over. `Lapse` is time passing; `Restart` is
a crash: slots and scans are lost, the collection stays.

`config`, chosen from `Configs` at start, says which store the process runs with
and which scans have an interval. The two stores differ in what a scan gets and
can do. Qdrant starts a page AT the offset, so the last point comes again as
long as it matches, and a query ends only when nothing matches or someone takes
that point out of it; `again[s]` are the points that came more than once. The
embedded store starts after the offset, so its queries end, but it ignores
ranges and the MustNot conditions (`Selects`) and refuses every `SetPayload`: a
scan there selects too much and writes nothing.

History variables, read by no guard: `fresh` (slots whose key nobody has written
since their read), `moved` (keys written since a scan last read them),
`replaced` and `deleted`.

### VaultIndex

The content of a file is the number of the change that wrote it, which is also
its mtime. `disk` is the vault. Five kinds of process run:

- the watcher, `watcher` being its position. Poll: `Tick`, `WalkFile` per file,
  `Compare`, `Emit` per difference, `ScanEnds`. inotify: after its first scan
  `AddWatches`, then `Notice` per notification, with the debounce interval
  (`hot`, `Cool`), the lookup of the bare name at the vault's root (`Root`), and
  the send that is dropped when the channel is full;
- the fan-out, `FanOut` and the retry goroutines, `Retry`;
- the indexer: `Startup`, the full re-index (`ListFile`, `Listed`, `PickFile`),
  the event loop (`TakeReindex`, `TakeEvent`), and a file's `ReadFile`,
  `DeleteOld`, `IndexBatch` (embed and upsert of twenty chunks), or `IndexFails`;
- ingest requests, `IngestBegins` and `IngestBatch`;
- whoever edits the vault, `WriteFile` and `RemoveFile`.

`points[s][b]` is the content whose batch `b` is stored for source `s`: point
ids are a hash of source and chunk number, so a batch overwrites the same batch of an
earlier text and leaves longer ones' tails alone. `Batches[v]` is the number of
batches the chunker makes of content `v`, possibly none. History variables: `late`
(files last changed when the watcher was going to notice), `excused` (files that
a failed call, a full channel, the debounce or a request hit since their last
change), `clashed` (sources with overlapping writers or a failed delete since they
were last emptied), `synced` and `ingested` (what the counters took from
elsewhere).

### VaultRegistry and VaultLocks

`cfg` is `s.cfg.Vaults`; `client`, `factClient` and `owned` are the maps of the
indexer manager; `Closed`, `Shared` and `None` are what a client can be besides
one of its own. A request `req[r]` holds its operation, its vault, what it has
resolved and `pc`, the step it takes next. One step is one locked section, one
directory call or one call of the store: `CreateCheck`, `MakeDirectory`,
`CreateRegister`, `RemoveDirectory`; `ProvisionOpen`, `ProvisionAdd`,
`ProvisionConfigure`; `WipeResolve`, `WipeChunks`, `WipeFacts`, `Unconfigure`,
`Remove`; `MergeFrom`, `MergeInto`, `MergeRead`, `MergeWrite`, `MergePurge`,
`MergeUnregister`, `MergeForget`; and the handlers that only look a vault up and
use it (`RecallSearch`, `FactUpsert`, `ChunksDelete`, `Import`, `Reindex`).
`EnsureAgentVault` registers an agent's vault with the client of the call, the
server-wide one. `Restart` forgets everything but the configured vaults,
directories and collections.

Every chunk has a `Source`. A text that is ingested, uploaded or pushed takes the
place of the chunks its source had: `IngestReplace` deletes them, or fails to,
and `IngestBatch` upserts the new ones batch by batch (`DocumentLookup` comes
before it for an upload, `NextText` after it for a push, `IngestStops` where a
call fails). The goroutine of a vault configured at boot does the same to a file,
`UnindexFile` and `IndexFile`, without any request.

A merge keeps in `base` the chunks it owes its destination: those its source
held when the merge began, without those that have left either collection since
(`Shed`). The history variables `aliased` and `merged` are the vaults registered
with the server-wide client and those a merge has removed.

`VaultLocks` asks one question of the same handlers, whether they can wait for
each other for ever, and needs nothing but their lock operations: a handler is
a sequence over `S s` (the server's mutex), `R r` (the manager's lock, for
reading) and `W X w` (announcing a writer, waiting, releasing), as
`sync.RWMutex` keeps new readers out once a writer waits.

### Listing and Paging

In `Listing` points come and go, a listing starts, shows points not shown
before, and may end as complete only when all that stayed have been shown.
`Paging` has the store (`backend`: embedded, where an offset is exclusive, or
qdrant, where it is inclusive) and, for each reader, its cursor and one of the
`Loop` records. A loop is not a program of its own but the choices the source
makes: what it passes as the next offset (`advance`), whether its caller learns
of a page that failed (`told`), whether the store filters (`only`), whether the
loop drops points itself (`drops`), whether it stops at a cap, and what it
writes back. `Write`, `Upsert`, `SetPayload` and `Delete` happen between pages. `L(r)`
is `Listing` with the points the loop is meant to show, and
`ListingsAreComplete` says that each reader with a `Suited` pair of loop and
store implements it; the unsuited pairs are in section 5.

### Extraction

A turn is the one claim it makes, a key and a value. `AppendTurn` starts a job;
`TryAcquire` or `Refuse` is the cooldown with its lazy eviction, `TakeSlot` or
`Drop` the semaphore, `Ask` the LLM (any list of claims it was shown), `Skip`,
`Keep` or `KeepBlindly` the duplicate check, then `WriteFact` and `Return`. Each
may fail. `Converse` and `StoreClaim` are the conversation endpoint, which checks
nothing. `CrossReference`, `FindTarget`, `RetireTarget` are the pruner's scan,
here over several points of one key in the order of their random ids. History
variables: `admitted` (when the cooldown let a session through), `blind` (failed
duplicate checks of each key).

The scan here reaches its end and `RetireTarget` writes. With today's stores it
does neither (`FactLifecycle` has both, and section 5 says so), and the duplicate
check finds something only where `Vectors` says that the store returns them:
`KeysStayKnown` is about the scan over a store that serves it.

### Sessions

A transaction of the log store is one step on `row`, `count`, `updated`,
`finalized` and `turns`. A request is one such step (`Create`, `Say`, `Delete`,
`PurgeVault`, `FinalizeOverRest`), or opens a session and goes on
(`Open`, `InitialTurn`, `BatchTurn`, `BatchIngest`). Behind it run the indexing
goroutines (`FindVault`, `IngestTurn`), `doFinalizeSession` (`ReadSession`,
`WriteSummary`, `WriteDecisions`, `MarkFinalized`) and the consolidation worker
(`StartSweep` with its idle gate and `ScheduleReplay`, `ReadTranscript`,
`WriteGist` or `NoGist`, `EndSweep`). `parts` chooses which of the three kinds of
background work a behaviour has, with bounds of its own, so that one run covers
each of them among the same requests. History: `gone`, the sessions deleted before the
worker read them.

### Recall

One request runs at a time, of one of nine kinds, while chunks `Insert` and
`Delete` themselves and `Invalidate` drops the lexical index. A dense recall is
`RewriteQuery`, a search per rewrite (`FanSearch`), `FanFuse`; a sparse one
`UseCached` or `Build` and `Cache`, then `SparseRank`; a hybrid one both and
`HybridFuse`. `Fetched` is the look-up by id, which drops what is gone and returns the
points in the store's order. `RerankResults` follows the model's list of
places, whatever it is. `UseChunks`, `FindFiles`, `LoadFile`, `Synthesize` and
`AskCited` are the modes of `/ask`. A hybrid question (`HybridAnswers`) gets the
chunks, the facts near it, and the facts it names by key, prefix or tag
(`FactsByName`), which are not compared with the others. `SearchVault`,
`AppendVault` and `Merge` are the goroutines of a recall over several vaults, one
for each place in the request's list of names: a name may be there twice, or be
the name of no vault, which means the default one, and `Merge` sorts and cuts
without comparing ids. `Acquire`, `QueryAnswers` and `QueryFails` are those of a
batch. Similarities are integers with the constants'
order; rank fusion is integer arithmetic in units of 1/`Unit`, a unit small
enough (`UnitAssumption`) that two ranks never have the same share. The code's
32-bit floats keep sums of shares apart up to ranks of some 20000; POST /recall
cuts `top_k` to 100.

### Shutdown

The signal goroutine's `stage`, main's `process`, and what they stop: the watcher, the
fan-out blocked in a send or not, retry goroutines, the consumers, the API driver
and uploads in progress. Channels are their lengths; `closed` those that are
closed; `late` who sent on one.

## 3. What is checked

Every run is exhaustive for its constants.

| Run | Shows |
|---|---|
| `FactRequests` | `UpsertKeepsLifecycle`: a POST or MCP upsert carries every server-managed field forward as stored, unless another writer came between. `ReplacementExists`: a fact retired for a replacement has it. Two slots, three requests of all six kinds, failing writes, one crash. |
| `FactScans` | `FlagIsJustified`, `ContradictionsGrow`, `SupersessionIsJustified`: what a scan is about to write is still warranted unless the fact was written since the scan's read. Over the embedded store `FlagIsJustified` asks for active facts only, as the store leaves out the deadline. Two versions of one family; over Qdrant each pair of the stale, conflict and supersede scans, over the embedded store the stale beside the supersede scan and the conflict scan, over both the other two flagging scans; a POST, PUT or DELETE; every call failing at will, pages of two points, the importance filter on. |
| `FactSettling` | violation of `StaleFactsLeave`, see section 5: the stale scan alone over Qdrant |
| `VaultSafety` | `NothingForgotten`: what the watcher takes as known is stored or on its way. `NoMixture`: a source holds one text. `StatsAddUp`: the counters agree with the indexer's map. One file, both watchers, two ingest requests for the same path, failing calls, one restart. |
| `VaultLive` | `CatchesUp`, `ReindexHappens`, `IndexingEnds`: what the watcher noticed reaches the collection, an accepted re-index walks the vault after it was asked for, and reports its end. Two files of one name (in the root and in a directory), two changes and a re-index. |
| `RegistrySafety` | `IndexedIsConfigured`: the two maps agree except inside a request. `MergeCopiesFirst`: a merge that gets as far as its purge has copied what its source held at the start and nobody removed or replaced since. `RemovalsStayHome`: clear, delete and merge empty the vault they name. Two handlers at once, three in all, every kind; one vault configured at boot, one that is also an agent's; two chunks of one source, read in pages of one and replaced by ingest and indexing at any moment; one crash. Deadlock is checked. |
| `VaultGridlock` | violation of `NoGridlock`, see section 5 |
| `PagingComplete` | `ListingsAreComplete`: the refinement of `Listing`. `ListingsEnd`: suited loops end. `EmbeddingsSurvive`: the migration over the embedded store keeps vectors. Ten loops, both stores, four ids, pages of two, a cap of three, one write anywhere between pages. |
| `ExtractionRun` | `SlotsAreCounted`, `SlotsComeBack`: the semaphore leaks no slot and empties again. `CooldownHolds`: admissions of a session keep their distance. `RepeatsAreSkipped`: a claim repeated has no more active points than extractions may run at once, and one for each failed lookup, while its key has no more points than the ten the duplicate check reads and the store returns vectors. `KeysStayKnown`: the scan retires no key's last active point. Two sessions (one of them deleted), two turns, one key with two values, one or two slots, time for an entry to be evicted. |
| `SessionsRun` | `SessionsAddUp`: counters agree with turns. `NoGistOfDeleted`, `BatchesAreFair`, `SweepsFinish` of the consolidation worker. Two sessions with two turns beside indexing or a finalisation, three sessions with one turn beside the sweep, whose batch is two, one of them from the older sessions. |
| `RecallRun` | `AnswersAreSound`: results repeat only a chunk of a vault searched twice and a fact both near and named (`MayRepeat`), keep to their bound (`Most`), were stored during the request and belong to the vault, and the sources named cover what the answer used. `RankingIsKept`: where all lists agree on two chunks so does the answer, and re-ranking permutes. `EveryGoroutineCounts`, `RequestsEnd`: no vault's or query's result is lost, no request hangs. Nine kinds of request; two vaults, four chunks of which two come and go; a list with one vault twice, one with a name of no vault; three queries in a batch for one slot. Deadlock is checked. |
| `ShutdownSends` | violation of `NoSendOnClosed`, see section 5 |

**Bounds.** Two keys are enough for the fact properties: each relates a fact to at most
one other. Two versions of one family make the version logic act, and a key
without version takes the other paths. Two slots make every pair of handlers
overlap; the third request of `FactRequests` lets a later request read what an
overlap left. `ScrollLimit` is what Qdrant answers a scroll without limit with, 10
by default; `FactScans` has 1, which cuts the goroutine's single page. Its scans
read pages of two, the least with which a page has a last point and another.
Three scans at once are left out: they share nothing but the facts, and each pair
shows what one does to another. In VaultIndex, channels and the retry semaphore have
capacity one instead of 10000 and 1000, so that a second event already meets a
full channel; two batches make an upsert interruptible; texts of two, one and no
batches occur, so that a shorter text follows a longer one. Two changes are what
a lost update needs (one in the walk, one after it). In VaultRegistry two
requests at once make every pair of handlers overlap, the third comes after one
has ended; two vaults are what a merge needs; two chunks with a page of one make
it read twice, and being of one source they are replaced together between the pages. Four ids with pages of two put a page's end before, at and behind
the cap and let a write fall on either side of a cursor. In Extraction two
points of one key are the least among which the scan's and the duplicate
check's choice of the first point matters; a clock of three passes both the
cooldown and twice the cooldown. A batch of two from three sessions makes
`ScheduleReplay` choose. In Recall two of the first vault's three chunks come and go, so that every
list can have a gap, and the other vault's chunk tells answers from the wrong
collection. `NameLists` holds a list with a name given twice, one that mixes a
name of no vault with two others, and one of a single name. Deadlock checking is off where the
model stops because its bounded requests are used up, and on in `RegistrySafety` and
`RecallRun`.

**Fairness.** Only weak fairness, and only of what the code schedules by itself:
each request in a slot and each scan (`FactLifecycle`); the watcher, the
fan-out, retries, the indexer and running ingest requests (`VaultIndex`); a
page's turn of each reader (`Paging`); the extraction goroutines together, whose
LLM call has a deadline of 60 s (`Extraction`); the consolidation sweep's own
steps, with the same deadline (`Sessions`); the goroutines of the request in
progress (`Recall`). Users edit, request and crash without any obligation. Go's
`select` picks at random among ready cases; requests and changes being bounded, none
of them stays ready and passed over for ever, so weak fairness of the indexer's
loop is enough. The liveness run of `VaultIndex` has no
failing calls and no restarts, the code making no promise after one: a failed
embedding is not tried again. Nor has `FactSettling`, which fails without them. `SlotsComeBack`, `SweepsFinish` and `RequestsEnd`
hold with calls failing at will.

**Mutants.** Every property of every passing run is paired in `PROJECT.json` with
a mutant of a modelled definition: an operator in the module, marked
`\* Mutant of`, which changes the code the way a plausible bug would. TLC finds
the property violated when the mutant replaces the original.

## 4. What is proved

For all values of the constants (any number of files, keys, vaults, requests,
crashes, any capacities and page sizes) subject to each module's named
assumption:

| Theorem | Statement | Argument |
|---|---|---|
| `FactLifecycleProofs!TypeCorrectness` | `Spec => []TypeOK` | `TypeOK` ties `op`, `phase` to what slots and scans hold, and is inductive as it stands; one lemma per process |
| `FactLifecycleProofs!UpsertsPreserveLifecycle` | `~ReadFaults => (Spec => []UpsertKeepsLifecycle)` | inductive relative to `TypeOK`: a step that writes a key removes its readers from `fresh`. The assumption is needed: when the read fails the code stores the fact as new |
| `FactLifecycleProofs!ReplacementsExist` | `Spec => []ReplacementExists` | strengthened to `ReplacementInv`: a slot that is about to retire a fact already has a stored replacement (`Safe`), which only a DELETE takes away |
| `FactLifecycleProofs!FlagsAreJustified`, `ContradictionsAreKept`, `SupersessionsAreJustified` | `Spec => []FlagIsJustified`, `[]ContradictionsGrow`, `[]SupersessionIsJustified` | the first two inductive beside `TypeOK`, whether or not the query ends: what a page brings is as stored, what came before is as stored or in `moved`. The third is strengthened by what the second query has collected so far, facts active or in `moved`. `Undisturbed(s)` says that a step leaves scan `s` and every fact outside `moved[s]` alone; one lemma each shows it of requests, of the other scans and of time, so that only a scan's own steps remain |
| `VaultIndexProofs!TypeCorrectness` | `Spec => []TypeOK` | one lemma per part; gives the bounds of channels and retry goroutines |
| `VaultIndexProofs!TextsNeverMix` | `Spec => []NoMixture` | strengthened to `SoleWriter`: who writes a source that is not clashed found it empty, has put nothing but its own text there, and is its only writer |
| `VaultIndexProofs!NothingIsForgotten` | `Spec => []NothingForgotten` | `Accounted`: of a file the watcher owes nothing more, either the walk or a notification is about to send, or the last event on its way (outbox, then rawEvents, then idxEvents) says what the file is, or no event is on its way and the indexer works on that very content or has stored it. Beside it `Bookkeeping`: contents only grow and nobody knows of a later one than the disk has (`Orderly`); the watcher's variables fit its position (`Walking`); retried events and running requests are of excused files (`Excuses`); the batches stored so far are those of what was read (`Progress`) |
| `VaultIndexProofs!StatisticsAddUp` | `Spec => []StatsAddUp` | beside `TypeOK`: one file's entry changes at a time and the counters by the difference (`SumChange`), and before `Startup` the indexer knows of no file, so that the count it takes over from the store is the whole sum |
| `VaultRegistryProofs!TypeCorrectness` | `Spec => []TypeOK` | one lemma per handler |
| `VaultRegistryProofs!RegisteredIsConfigured` | `Spec => []IndexedIsConfigured` | the exceptions the property names (a request between the maps, agents' vaults, merged ones) are what each step that touches a map creates or ends |
| `VaultRegistryProofs!MergeCopiesBeforePurge` | `Spec => []MergeCopiesFirst` | strengthened to `MergeOK`: until the purge all of `base` is still in the source, and what lies before the merge's offset is in the destination or in the page about to be written. A chunk that is deleted or replaced in either collection is shed from `base` by that very step (`Shed`), the merge's own writes add to the destination only |
| `VaultRegistryProofs!RemovalsAreLocal` | `Spec => []RemovalsStayHome` | with the invariant that a registered client is the vault's own unless the vault is an agent's, which the look-up then hands to the request |
| `PagingProofs!TypeCorrectness` | `Spec => []TypeOK` | with the cap on what a capped loop has shown |
| `PagingProofs!ListingsAreListings` | `Spec => ListingsAreComplete` | the refinement: initial states map to initial states, and `Page`, `PageFails`, writes and write-backs to `Show`, `Change`, `Start` or a stutter. The invariant: all points shown lie before the cursor and every point kept and not yet shown lies behind it |
| `PagingProofs!NoEmbeddingIsLost` | `Spec => EmbeddingsSurvive` | `AllBear`: over the embedded store every stored point carries its embedding, and so does every point a scan has still to write back |
| `ExtractionProofs!SlotsAreAlwaysCounted` | `Spec => []SlotsAreCounted` | strengthened to `JobsInv`: finitely many jobs, at most one per stored turn, so that a job that changes its position does not coincide with another |
| `ExtractionProofs!ExtractionsKeepTheirDistance` | `Spec => CooldownHolds` | `CooldownInv`: what the map remembers is the last admission, and what it forgot is older than twice the interval |
| `ExtractionProofs!TypeCorrectness` | `Spec => []TypeOK` | with `slots <= limit`, which follows from the same count |
| `ExtractionProofs!KnownKeysStayKnown` | `Spec => KeysStayKnown` | `SpareInv`: behind every point the scan still means to retire, and behind every mark, stands an active point of the same key; new points only add such, and the target is the key's least id, so never the one kept |
| `ExtractionProofs!RepeatsAreAlwaysSkipped` | `Spec => []RepeatsAreSkipped` | for any limit and any failures. `HeardInv`: every active point was said, and the key's active points and the jobs that are about to write one (`Writers`) are together at most `limit + blind[k]` (`Few`). A job whose lookup succeeded writes only when the key had no active point, so all it shares the key with are other jobs past the semaphore, and of these there are at most `limit` |
| `SessionsProofs!SessionsAlwaysAddUp` | `Spec => []SessionsAddUp` | inductive with the types of the log |
| `SessionsProofs!DeletedGetNoGist` | `Spec => NoGistOfDeleted` | invariant: no session in `gone` is readable again, and the one whose gist is about to be written is not in it |
| `SessionsProofs!SessionTypes` | `Spec => []TypeOK` | the bound on the turns of all sessions is a sum, which a step of the log changes in one session or lowers in those of a vault; every copy of a transcript is as long as the log at some time, and the log shrinks only with its session |
| `SessionsProofs!BatchesStayFair` | `Spec => BatchesAreFair` | only `StartSweep` fills a batch. A sorted order of the pool exists (`SortedRow`), so the choice `ScheduleReplay` makes is one; the recent part and the part from the older sessions are disjoint, and the newest session heads the first |
| `RecallProofs!RecallTypes` | `Spec => []TypeOK` | from `Inv`, the inductive invariant of all theorems about `Recall` (below) |
| `RecallProofs!RecallIsSound` | `Spec => []AnswersAreSound` | part `Good` of `Inv`: which phases a kind of request has, what its rankings and results may name in each (`Placed`, `Results`), that before they are put together they have no repetitions (`Once`) and afterwards only those of `MayRepeat` (`Fair`), and that the files of the context are among the sources from the moment a chunk joins it |
| `RecallProofs!GoroutinesCount` | `Spec => []EveryGoroutineCounts` | parts `Goroutines` (the response holds exactly what the goroutines that are done have found), `Merged`, and `Batched` (a query that is done has written its entry, one that runs holds a slot) |
| `RecallProofs!RankingsAreKept` | `Spec => RankingIsKept` | `Inv` and `Agreed`: what is about to be looked up has no two results against a common order of the rankings it was fused from. A share falls strictly with the rank (`QuotientsFall`, from `UnitAssumption`), so a sum of shares falls when no rank rises and one falls; the look-up keeps the order of what it keeps, and a re-ranking names every place once |

`NoMixture` alone is not inductive: the next upsert would have to know that what
it finds is its own text. `ReplacementExists` alone is not inductive: retiring a
fact must know that the earlier upsert succeeded and nobody deleted its result.
`SlotsAreCounted` alone is not: two equal jobs would be one element of the set.
`NothingForgotten` alone is not: an event on its way need not say what the file is.

`StatsAddUp` alone is not: the start-up count must find nothing counted. And of
`AnswersAreSound`, a response says nothing of the rankings, goroutines and
files it is going to be made from. `Inv` of `RecallProofs` has a part for each:
`Stores` (what is stored has been `seen` by the request in progress), `Good`,
`Goroutines`, `Merged`, `Batched`; one lemma per action shows what it keeps.

**Data of any size.** Sums over files and sessions, sorted rankings and replay
orders are loops in the code and recursive here, and the library's induction theorems
are beyond the provers. `CollectionLemmas` argues from a smallest
counterexample instead: of a set of subsets of a finite set some member contains no
other (`SmallestSet`), and a non-empty set of numbers has a least one
(`LeastNumber`). That yields that the equations defining a sum have a solution and what
it does when one summand changes (`SumType`, `SumChange`, `SumMonotone`,
`SumOfZeros`, `SumBounds`), and that the members of a finite set can be listed
in order (`RowExists`, `SortedRow`). `RecallProofs` proves of `Sorted`, a recursive
function, in the same way that it lists every member once, best first.

**Assumptions.** Those named in the modules, which TLC evaluates for each run:
constants have their types and sets that the code holds in memory are finite.
`RecallAssumption` has no two chunks equally similar to a query, which the code
would order in either way; `UnitAssumption` is explained in section 2.

Only model-checked: the liveness properties (`CatchesUp`, `ReindexHappens`,
`IndexingEnds`, `ListingsEnd`, `SlotsComeBack`, `SweepsFinish`, `RequestsEnd`). They rest on fairness, which is beyond the provers. Every invariant
and every action property that a passing run checks is also a theorem, `Paging`'s
refinement of `Listing` included.

## 5. Where the code and its documentation differ

Each is listed with the lines quoted under `findings` in `PROJECT.json`. Three
have a run of their own that TLC ends with a counterexample; the others name a
definition of the module that TLC refutes when it is checked in place of the
run's properties.

| Definition | What happens |
|---|---|
| `VaultLocks!NoGridlock` (run `VaultGridlock`) | listing the vaults, creating one and registering another wait for each other for ever |
| `Shutdown!NoSendOnClosed` (run `ShutdownSends`) | an upload in progress at SIGTERM sends on a channel its driver has closed |
| `Shutdown!RetriesAreHarmless` | so do retry goroutines of the fan-out, and that panic ends the process |
| `Shutdown!DrainedBeforeExit` | main returns while the signal goroutine still drains requests |
| `FactLifecycle!StaleFactsLeave` (run `FactSettling`) | over Qdrant the query of a scan that finds a fact never ends, so the fact is never flagged; over the embedded store the filter takes every active fact for expired, and the flag is refused |
| `FactLifecycle!ReplacementStaysInForce` | a review supersede stores the new key in the old fact's `supersedes` field; the supersede scan reads it the other way round and retires the replacement |
| `FactLifecycle!OnlyLowerVersionsAreSuperseded` | `supersedeOlderVersions` marks every other active version, higher ones too |
| `FactLifecycle!OnlyActiveFactsAreFlagged` | a fact rejected after a scan's query is taken back to `needs_review` |
| `VaultIndex!NoFalseEntries` | a file a full re-index saw and the watcher did not is never removed |
| `VaultIndex!IndexingIsReportedOnlyMeanwhile` | the re-index of an empty vault leaves `indexing` set |
| `VaultRegistry!NothingIsLost` | what is stored in a vault, or replaced in it, after the merge read it is purged with the rest |
| `VaultRegistry!QueriesStayHome` | a vault without a client of its own is answered from the first vault's collection |
| `VaultRegistry!ConfiguredHasDirectory` | the loser of a creation race removes the winner's directory |
| `Paging!ScansEnd` | over Qdrant the loops that pass the last point they saw never see an empty page |
| `Paging!PrefixListingsAreComplete` | a listing by prefix filters one page and says nothing of the rest |
| `Paging!VectorsArePreserved` | over Qdrant the migration writes zero vectors back |
| `Sessions!SummariesGrow` | of two finalisations the one that read less may write last |
| `Sessions!RejectedGistsStayRejected` | the next sweep stores a rejected gist as active |
| `Sessions!DeletedSessionsTakeNoTurns` | a deleted session accepts turns nobody will see |
| `Sessions!NoOrphanChunks` | a turn is indexed into a vault whose data has just been purged |
| `Recall!FiltersAreHonoured` | sparse and hybrid recall return chunks the filter excludes |
| `Recall!SparseRecallIsComplete` | the lexical index is built once, from the first vault, and not refreshed by writes |
| `Recall!AsksTheOriginal` | recall searches the first rewrite only, the step-back question without the original |
| `Extraction!FewRepeats` | Qdrant returns no vectors, so the duplicate check finds nothing and every repetition is another active fact |
| `Recall!ResultsAreDistinct` | `vaults=main,main` returns each chunk twice; a hybrid question returns a fact near it and asked for by name twice |
| `Recall!SourcesAreDistinct`, `SourcesAreUsed`, `FactsStampedOnce` | mode auto keeps the sources and the recall stamps of the context it discards |

Met while reading, without a property:

- Two provisionings of one vault: the loser overwrites the winner's facts client.
- DELETE of a vault configured at boot leaves its facts (SPEC.md:1408 promises
  all data), and the watcher of a deleted vault goes on writing.
- Export leaves out the vectors SPEC.md:1417 speaks of.
- A re-index request to a provisioned vault is accepted and never carried out; no
  goroutine reads it.
- Vaults created at run time are unknown after a restart.
- `doStore` provisions whatever `AutoProvision` says.
- The goroutine in main that merges the vaults' channels spins once they are closed.
- A job refused by the full semaphore has used up its session's cooldown.
- The conversation endpoint's `FactCount` counts upserts that failed.
- With several rewrites the fused top score lies below every threshold, and mode auto
  always loads whole files.
- The MCP tool `recall` passes on any `top_k` (mcp_handlers.go:568), although its
  schema says 1 to 100; POST /recall cuts it to 100.
- `source_filter` compares exactly where README.md:382 says prefix.

## 6. What is not modelled

- Embeddings, scores and LLM answers as values: an answer is any answer, a
  similarity a constant. Their failures are choices.
- In `VaultIndex`: links between files (written beside the chunks), directories
  created after the inotify watches, mtimes that go back, an indexer without
  embedder (it indexes nothing). An older mtime (`watcher/poll.go:95`) is a hazard
  no property covers: contents carry ever larger mtimes.
- In `FactLifecycle`: recall stamps and reconsolidation chains, tags,
  provenance links.
- In `Sessions`: the log rows of `logs.go`, links, the resolutions table.
- In `Recall`: detail levels, formatting, the encoder of sparse vectors, which
  the server does not use; similarity search inside the stores.
- In `Paging`: the vector index and payload conversion.
- In `VaultRegistry`: the log of vaults that the handlers only read, and start-up
  from the environment.
- `pruner/decay.go` and `importance.go`: floating-point scores; stale sources and
  re-embedding repeat the modelled pattern of read, then write.
- Knowledge graph, procedural memory, events and webhooks, rate limiter, chunker,
  inbox, audit, briefing, export, snapshots, draft, verify and pull requests: each with
  its reason in `PROJECT.json`.
- Authentication, configuration, git, MCP framing, adapters, plugins, SDKs, the
  web interface and benchmarks: wiring, pure functions or clients.

## 7. Plan

1. `VaultIndex` with a content whose mtime may go back, a hazard no property covers.
2. The knowledge graph's intervals of validity, where two expiries meet.
3. Procedural memory, where two extractions meet one procedure.
4. The events broker: publication against unsubscription and close.

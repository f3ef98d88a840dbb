----------------------------- MODULE VaultIndex -----------------------------
(***************************************************************************)
(* From the files of a vault to the points of its collection: the watcher  *)
(* (internal/watcher), the driver's fan-out (internal/ingress), and the    *)
(* indexer (internal/indexer), with the API requests that index text under *)
(* a source of their own.                                                  *)
(*                                                                         *)
(* Watcher, fan-out, retry goroutines, indexer and requests each run in a  *)
(* goroutine; channels are bounded.  A directory walk visits the files one *)
(* by one while they change; indexing a file is a read, a delete and one   *)
(* upsert per batch of chunks.                                             *)
(*                                                                         *)
(* The content of a file, and its mtime, is the number of the change that  *)
(* wrote it.                                                               *)
(***************************************************************************)
EXTENDS Integers, Sequences, FiniteSets, SequencesExt

CONSTANTS
    Paths,       \* indexable files, as paths relative to the vault
    Root,        \* Root[p]: the path at the vault's root with p's file name
    Sources,     \* sources that API requests index under
    NoPath,      \* no file
    Modes,       \* watcher modes: "poll", "inotify"
    Initial,     \* Initial[p]: content of p when the vault is first served
    Batches,     \* Batches[v]: number of batches content v is split into
    MaxBatch,    \* bound on the number of batches
    RawCap, IdxCap,    \* capacity of rawEvents and of idxEvents (10000)
    RetryCap,          \* retry goroutines at a time (fanoutSemCap, 1000)
    Requesters,  \* API requests that can be in progress at once
    Faults,      \* whether store and embedding calls may fail
    MaxChanges, MaxReindexes, MaxIngests, MaxRestarts   \* bounds

VARIABLES
    disk,        \* disk[p]: content of file p, 0 if there is no such file
    clock,       \* changes and ingested texts so far
    mode,        \* the configured watcher mode
    watcher,     \* what the watcher does next
    walked,      \* files the current walk has visited
    current,     \* current[p]: currentFiles, mtimes found by the walk
    seen,        \* seen[p]: the watcher's state, mtimes it knows of
    outbox,      \* events the scan has yet to send
    notes,       \* names with an unread inotify notification
    hot,         \* names within their debounce interval
    raw,         \* rawEvents
    idx,         \* idxEvents
    retries,     \* events held by retry goroutines
    doing,       \* what the indexer does next
    path,        \* the file the indexer is working on
    content,     \* the content it has read
    batch,       \* the batch it embeds and upserts next
    files,       \* files a full re-index has yet to finish
    unlisted,    \* files its walk has yet to visit
    queued,      \* whether reindexCh holds a request
    indexing, total,             \* what /health reports
    known, fileCount, chunkCount, \* what the stats report
    points,      \* points[s][b]: content of batch b stored for source s
    ingest,      \* ingest[r]: the text request r is indexing
    late,        \* history: files last changed under the watcher's eyes
    excused,     \* history: files a fault, a full queue or a request hit
    clashed,     \* history: sources with overlapping or uncleaned writes
    synced, ingested,   \* history: counts the stats took from elsewhere
    reindexes, ingests, restarts

vaultVars   == <<disk, clock, mode>>
watchVars   == <<watcher, walked, current, seen, outbox, notes, hot>>
channelVars == <<raw, idx, retries>>
jobVars     == <<doing, path, content, batch, files, unlisted>>
statVars    == <<indexing, total, known, fileCount, chunkCount, synced, ingested>>
storeVars   == <<points, clashed>>
requestVars == <<queued, ingest, reindexes, ingests, restarts>>
vars == <<vaultVars, watchVars, channelVars, jobVars, statVars, storeVars,
          requestVars, late, excused>>

AllSources == Paths \cup Sources
Contents   == 0 .. MaxChanges + MaxIngests + Cardinality(Paths)
Empty      == [b \in 1 .. MaxBatch |-> 0]
Event      == [path : Paths, action : {"index", "delete"}]

Indexed(p) == [path |-> p, action |-> "index"]
Deleted(p) == [path |-> p, action |-> "delete"]

ASSUME ConstantsAssumption ==
    /\ IsFiniteSet(Paths) /\ IsFiniteSet(Sources) /\ NoPath \notin AllSources
    /\ Root \in [Paths -> Paths]
    /\ Modes \subseteq {"poll", "inotify"} /\ Modes # {}
    /\ Initial \in [Paths -> 0 .. Cardinality(Paths)]
    /\ MaxBatch \in Nat /\ Batches \in [Contents -> 0 .. MaxBatch]
    /\ {RawCap, IdxCap, RetryCap} \subseteq Nat \ {0}
    /\ Faults \in BOOLEAN
    /\ {MaxChanges, MaxReindexes, MaxIngests, MaxRestarts} \subseteq Nat

\* What a complete, undisturbed indexing of content v stores.
Whole(v) == [b \in 1 .. MaxBatch |-> IF b <= Batches[v] THEN v ELSE 0]

\* The points of p are those of the file as it is.
Reflected(p) == points[p] = Whole(disk[p])

-----------------------------------------------------------------------------
(* The files change under everybody's eyes. *)

\* What the watcher has compared p with, or will when its walk is over.
LastSeen(p) ==
    IF watcher \in {"first", "walk", "emit"} /\ p \in walked THEN current[p]
    ELSE seen[p]

\* The watcher will notice that p changes to v now.  In poll mode its first
\* walk must have passed p, and a removal shows only if the file was seen
\* before; in inotify mode the watches must be in place, and a notification,
\* which has a file name without directory, is looked up at the vault's root.
Noticed(p, v) ==
    IF mode = "poll"
    THEN /\ \/ watcher \in {"rest", "walk", "emit"}
            \/ watcher = "first" /\ p \in walked
         /\ v = 0 => LastSeen(p) # 0
    ELSE watcher = "watch" /\ Root[p] = p

Change(p, v) ==
    /\ disk[p] # v
    /\ clock < MaxChanges + MaxIngests
    /\ clock' = clock + 1
    /\ disk' = [disk EXCEPT ![p] = v]
    /\ notes' = IF watcher = "watch" THEN notes \cup {Root[p]} ELSE notes
    /\ late' = IF Noticed(p, v) THEN late \cup {p} ELSE late \ {p}
    /\ excused' = IF \/ \E i \in DOMAIN retries : retries[i].path = p
                     \/ \E r \in Requesters : ingest[r].source = p
                  THEN excused ELSE excused \ {p}
    /\ UNCHANGED <<mode, watcher, walked, current, seen, outbox, hot,
                   channelVars, jobVars, statVars, storeVars, requestVars>>

\* A file is written (created or modified) or removed.
WriteFile(p) == Change(p, Cardinality(Paths) + clock + 1)
RemoveFile(p) == Change(p, 0)

-----------------------------------------------------------------------------
(* pollWatcher.  The first scan only records what it finds. *)

StartWalk(from, to) ==
    /\ watcher = from
    /\ watcher' = to
    /\ walked' = {}
    /\ current' = [p \in Paths |-> 0]
    /\ UNCHANGED <<vaultVars, seen, outbox, notes, hot, channelVars, jobVars,
                   statVars, storeVars, requestVars, late, excused>>

WatchStarts == StartWalk("off", "first")
Tick        == StartWalk("rest", "walk")

WalkFile(p) ==
    /\ watcher \in {"first", "walk"} /\ p \notin walked
    /\ walked' = walked \cup {p}
    /\ current' = [current EXCEPT ![p] = disk[p]]
    /\ UNCHANGED <<vaultVars, watcher, seen, outbox, notes, hot, channelVars,
                   jobVars, statVars, storeVars, requestVars, late, excused>>

FirstScanEnds ==
    /\ watcher = "first" /\ walked = Paths
    /\ watcher' = IF mode = "poll" THEN "rest" ELSE "gap"
    /\ seen' = current
    /\ UNCHANGED <<vaultVars, walked, current, outbox, notes, hot, channelVars,
                   jobVars, statVars, storeVars, requestVars, late, excused>>

\* Mutant of Differences: a deletion is not noticed.
DifferencesButDeletions(old, new) ==
    {Indexed(p) : p \in {q \in Paths : new[q] > old[q]}}

\* Files new or with a later mtime, and files that are gone.
Differences(old, new) ==
    {Indexed(p) : p \in {q \in Paths : new[q] > old[q]}}
       \cup {Deleted(p) : p \in {q \in Paths : old[q] # 0 /\ new[q] = 0}}

Compare ==
    /\ watcher = "walk" /\ walked = Paths
    /\ outbox' = Differences(seen, current)
    /\ watcher' = "emit"
    /\ UNCHANGED <<vaultVars, walked, current, seen, notes, hot, channelVars,
                   jobVars, statVars, storeVars, requestVars, late, excused>>

\* The send blocks while rawEvents is full.
Emit(e) ==
    /\ watcher = "emit" /\ e \in outbox
    /\ Len(raw) < RawCap
    /\ raw' = Append(raw, e)
    /\ outbox' = outbox \ {e}
    /\ UNCHANGED <<vaultVars, watcher, walked, current, seen, notes, hot, idx,
                   retries, jobVars, statVars, storeVars, requestVars, late, excused>>

\* Mutant of ScanEnds: the state is taken anew instead of from the walk.
ScanEndsAnew ==
    /\ watcher = "emit" /\ outbox = {}
    /\ seen' = disk
    /\ watcher' = "rest"
    /\ UNCHANGED <<vaultVars, walked, current, outbox, notes, hot, channelVars,
                   jobVars, statVars, storeVars, requestVars, late, excused>>

ScanEnds ==
    /\ watcher = "emit" /\ outbox = {}
    /\ seen' = current
    /\ watcher' = "rest"
    /\ UNCHANGED <<vaultVars, walked, current, outbox, notes, hot, channelVars,
                   jobVars, statVars, storeVars, requestVars, late, excused>>

-----------------------------------------------------------------------------
(* inotifyWatcher. *)

\* The watches are set after the first scan.
AddWatches ==
    /\ watcher = "gap"
    /\ watcher' = "watch"
    /\ UNCHANGED <<vaultVars, walked, current, seen, outbox, notes, hot,
                   channelVars, jobVars, statVars, storeVars, requestVars,
                   late, excused>>

\* A notification within the debounce interval of an earlier one is dropped;
\* otherwise the file is looked at, and an event is dropped if the channel is
\* full.  The state is updated in any case.
Notice(p) ==
    /\ watcher = "watch" /\ p \in notes
    /\ notes' = notes \ {p}
    /\ hot' = hot \cup {p}
    /\ LET changed == disk[p] = 0 \/ disk[p] > seen[p]
           dropped == p \in hot \/ (changed /\ Len(raw) = RawCap)
       IN  /\ seen' = IF p \in hot THEN seen ELSE [seen EXCEPT ![p] = disk[p]]
           /\ raw' = IF dropped \/ ~changed THEN raw
                     ELSE Append(raw, IF disk[p] = 0 THEN Deleted(p)
                                      ELSE Indexed(p))
           /\ excused' = IF dropped THEN excused \cup {p} ELSE excused
    /\ UNCHANGED <<vaultVars, watcher, walked, current, outbox, idx, retries,
                   jobVars, statVars, storeVars, requestVars, late>>

\* 500 ms pass.
Cool(p) ==
    /\ p \in hot
    /\ hot' = hot \ {p}
    /\ UNCHANGED <<vaultVars, watcher, walked, current, seen, outbox, notes,
                   channelVars, jobVars, statVars, storeVars, requestVars,
                   late, excused>>

-----------------------------------------------------------------------------
(* FileWatcherDriver.Run and fanoutEvent, for the indexer's channel. *)

\* Mutant of FanOut: off by one in the number of retry goroutines.
FanOutOneMore ==
    /\ raw # <<>>
    /\ LET e == Head(raw) IN
       IF Len(idx) < IdxCap
       THEN idx' = Append(idx, e) /\ UNCHANGED <<retries, excused>>
       ELSE /\ retries' = IF Len(retries) <= RetryCap THEN Append(retries, e)
                          ELSE retries
            /\ excused' = excused \cup {e.path}
            /\ UNCHANGED idx
    /\ raw' = Tail(raw)
    /\ UNCHANGED <<vaultVars, watchVars, jobVars, statVars, storeVars,
                   requestVars, late>>

FanOut ==
    /\ raw # <<>>
    /\ LET e == Head(raw) IN
       IF Len(idx) < IdxCap
       THEN idx' = Append(idx, e) /\ UNCHANGED <<retries, excused>>
       ELSE /\ retries' = IF Len(retries) < RetryCap THEN Append(retries, e)
                          ELSE retries
            /\ excused' = excused \cup {e.path}
            /\ UNCHANGED idx
    /\ raw' = Tail(raw)
    /\ UNCHANGED <<vaultVars, watchVars, jobVars, statVars, storeVars,
                   requestVars, late>>

\* A retry goroutine gets its event in, or gives up after 30 seconds.
Retry(i) ==
    /\ i \in DOMAIN retries
    /\ \/ Len(idx) < IdxCap /\ idx' = Append(idx, retries[i])
       \/ Len(idx) = IdxCap /\ UNCHANGED idx
    /\ retries' = RemoveAt(retries, i)
    /\ UNCHANGED <<vaultVars, watchVars, raw, jobVars, statVars, storeVars,
                   requestVars, late, excused>>

-----------------------------------------------------------------------------
(* Indexer. *)

\* Requests that are writing points of source s.
WritersOf(s) == {r \in Requesters : ingest[r].source = s}
IndexerWrites(s) == doing = "embed" /\ path = s

\* DeleteBySource, as the first step of a rewrite of s by one of its writers.
\* A failure is logged and the rewrite goes on.
Purge(s, others) ==
    \/ /\ points' = [points EXCEPT ![s] = Empty]
       /\ clashed' = IF others THEN clashed \cup {s} ELSE clashed \ {s}
    \/ /\ Faults
       /\ clashed' = clashed \cup {s}
       /\ UNCHANGED points

\* fullReindex resets the statistics and walks the vault.
BeginReindex ==
    /\ indexing' = TRUE
    /\ known' = [p \in Paths |-> 0]
    /\ fileCount' = 0 /\ chunkCount' = 0
    /\ synced' = 0 /\ ingested' = 0
    /\ doing' = "list"
    /\ files' = {}
    /\ unlisted' = Paths
    /\ UNCHANGED <<total, path, content, batch>>

\* ProcessEvents looks at the collection first: empty, not empty, or the
\* count failed.
Startup ==
    /\ doing = "start"
    /\ LET held == {s \in AllSources : points[s] # Empty} IN
       \/ held = {} /\ BeginReindex
       \/ /\ held # {}
          /\ \/ fileCount' = Cardinality(held)
             \/ Faults /\ UNCHANGED fileCount
          /\ synced' = fileCount'
          /\ doing' = "loop"
          /\ UNCHANGED <<path, content, batch, files, unlisted, indexing, total,
                         known, chunkCount, ingested>>
       \/ /\ Faults
          /\ doing' = "loop"
          /\ UNCHANGED <<path, content, batch, files, unlisted, statVars>>
    /\ UNCHANGED <<vaultVars, watchVars, channelVars, storeVars, requestVars,
                   late, excused>>

ListFile(p) ==
    /\ doing = "list" /\ p \in unlisted
    /\ unlisted' = unlisted \ {p}
    /\ files' = IF disk[p] # 0 THEN files \cup {p} ELSE files
    /\ UNCHANGED <<vaultVars, watchVars, channelVars, doing, path, content,
                   batch, statVars, storeVars, requestVars, late, excused>>

\* With nothing to index fullReindex returns at once.
Listed ==
    /\ doing = "list" /\ unlisted = {}
    /\ total' = Cardinality(files)
    /\ doing' = IF files = {} THEN "loop" ELSE "pick"
    /\ UNCHANGED <<vaultVars, watchVars, channelVars, path, content, batch,
                   files, unlisted, indexing, known, fileCount, chunkCount,
                   synced, ingested, storeVars, requestVars, late, excused>>

PickFile(p) ==
    /\ doing = "pick" /\ p \in files
    /\ path' = p
    /\ doing' = "read"
    /\ UNCHANGED <<vaultVars, watchVars, channelVars, content, batch, files,
                   unlisted, statVars, storeVars, requestVars, late, excused>>

\* Mutant of TakeReindex: like at start, only an empty collection is indexed.
TakeReindexIfEmpty ==
    /\ doing = "loop" /\ queued
    /\ queued' = FALSE
    /\ IF \A s \in AllSources : points[s] = Empty THEN BeginReindex
       ELSE UNCHANGED <<jobVars, statVars>>
    /\ UNCHANGED <<vaultVars, watchVars, channelVars, storeVars, ingest,
                   reindexes, ingests, restarts, late, excused>>

TakeReindex ==
    /\ doing = "loop" /\ queued
    /\ queued' = FALSE
    /\ BeginReindex
    /\ UNCHANGED <<vaultVars, watchVars, channelVars, storeVars, ingest,
                   reindexes, ingests, restarts, late, excused>>

TakeEvent ==
    /\ doing = "loop" /\ idx # <<>>
    /\ idx' = Tail(idx)
    /\ LET e == Head(idx) IN
       \/ /\ e.action = "index"
          /\ path' = e.path /\ doing' = "read"
          /\ UNCHANGED <<storeVars, excused>>
       \/ /\ e.action = "delete"
          /\ \/ points' = [points EXCEPT ![e.path] = Empty] /\ UNCHANGED excused
             \/ Faults /\ excused' = excused \cup {e.path} /\ UNCHANGED points
          /\ UNCHANGED <<path, doing, clashed>>
    /\ UNCHANGED <<vaultVars, watchVars, raw, retries, content, batch, files,
                   unlisted, statVars, requestVars, late>>

\* indexFile returns to the event loop or to the full re-index it is part of.
FileDone ==
    /\ files' = files \ {path}
    /\ doing' = IF files' = {} THEN "loop" ELSE "pick"
    /\ indexing' = IF files # {} /\ files' = {} THEN FALSE ELSE indexing
    /\ path' = NoPath /\ content' = 0 /\ batch' = 0
    /\ UNCHANGED unlisted

\* Mutant of ReadFile: a file that has vanished ends the full re-index.
ReadFileOrStop ==
    /\ doing = "read"
    /\ \/ /\ disk[path] # 0
          /\ content' = disk[path]
          /\ doing' = "purge"
          /\ UNCHANGED <<path, batch, files>>
       \/ /\ disk[path] = 0
          /\ doing' = "loop" /\ files' = {}
          /\ path' = NoPath /\ content' = 0 /\ batch' = 0
    /\ UNCHANGED <<vaultVars, watchVars, channelVars, unlisted, statVars,
                   storeVars, requestVars, late, excused>>

ReadFile ==
    /\ doing = "read"
    /\ \/ /\ disk[path] # 0
          /\ content' = disk[path]
          /\ doing' = "purge"
          /\ UNCHANGED <<path, batch, files, unlisted, indexing>>
       \/ disk[path] = 0 /\ FileDone
    /\ UNCHANGED <<vaultVars, watchVars, channelVars, total, known, fileCount,
                   chunkCount, synced, ingested, storeVars, requestVars, late,
                   excused>>

\* Mutant of DeleteOld: the new batches are trusted to overwrite the old ones.
DeleteOldSkipped ==
    /\ doing = "purge"
    /\ \/ /\ Batches[content] # 0
          /\ doing' = "embed" /\ batch' = 1
          /\ UNCHANGED <<path, content, files, unlisted, indexing>>
       \/ Batches[content] = 0 /\ FileDone
    /\ UNCHANGED <<vaultVars, watchVars, channelVars, total, known, fileCount,
                   chunkCount, synced, ingested, storeVars, requestVars, late,
                   excused>>

\* A file without chunks is done when its old chunks are gone.
DeleteOld ==
    /\ doing = "purge"
    /\ Purge(path, WritersOf(path) # {})
    /\ excused' = IF points'[path] # Empty THEN excused \cup {path} ELSE excused
    /\ \/ /\ Batches[content] # 0
          /\ doing' = "embed" /\ batch' = 1
          /\ UNCHANGED <<path, content, files, unlisted, indexing>>
       \/ Batches[content] = 0 /\ FileDone
    /\ UNCHANGED <<vaultVars, watchVars, channelVars, total, known, fileCount,
                   chunkCount, synced, ingested, requestVars, late>>

\* Mutant of Account: every indexed file counts as a new one.
AccountAgain ==
    /\ fileCount' = fileCount + 1
    /\ chunkCount' = chunkCount + Batches[content] - known[path]
    /\ known' = [known EXCEPT ![path] = Batches[content]]

\* The bookkeeping at the end of indexFile.
Account ==
    /\ fileCount' = IF known[path] = 0 THEN fileCount + 1 ELSE fileCount
    /\ chunkCount' = chunkCount + Batches[content] - known[path]
    /\ known' = [known EXCEPT ![path] = Batches[content]]

\* Embed and upsert one batch; point ids are a function of source and index.
IndexBatch ==
    /\ doing = "embed"
    /\ points' = [points EXCEPT ![path][batch] = content]
    /\ IF batch < Batches[content]
       THEN /\ batch' = batch + 1
            /\ UNCHANGED <<doing, path, content, files, unlisted, indexing,
                           known, fileCount, chunkCount>>
       ELSE Account /\ FileDone
    /\ UNCHANGED <<vaultVars, watchVars, channelVars, total, synced, ingested,
                   clashed, requestVars, late, excused>>

\* An embedding or upsert error leaves the file as far as it got; the event
\* is not tried again.
IndexFails ==
    /\ Faults /\ doing \in {"read", "embed"}
    /\ excused' = excused \cup {path}
    /\ FileDone
    /\ UNCHANGED <<vaultVars, watchVars, channelVars, total, known, fileCount,
                   chunkCount, synced, ingested, storeVars, requestVars, late>>

-----------------------------------------------------------------------------
(* API requests. *)

\* POST /reindex: refused if reindexCh is full.
RequestReindex ==
    /\ reindexes < MaxReindexes
    /\ reindexes' = reindexes + 1
    /\ queued' = TRUE
    /\ UNCHANGED <<vaultVars, watchVars, channelVars, jobVars, statVars,
                   storeVars, ingest, ingests, restarts, late, excused>>

Idle == [source |-> NoPath, content |-> 0, batch |-> 0]

\* Ingest deletes what earlier requests stored under the source ...
IngestBegins(r, s) ==
    /\ ingest[r] = Idle /\ ingests < MaxIngests
    /\ clock < MaxChanges + MaxIngests
    /\ LET v == Cardinality(Paths) + clock + 1 IN
       /\ Batches[v] # 0
       /\ ingest' = [ingest EXCEPT ![r] = [source |-> s, content |-> v, batch |-> 1]]
    /\ clock' = clock + 1
    /\ ingests' = ingests + 1
    /\ Purge(s, WritersOf(s) # {} \/ IndexerWrites(s))
    /\ excused' = excused \cup ({s} \cap Paths)
    /\ UNCHANGED <<disk, mode, watchVars, channelVars, jobVars, statVars,
                   queued, reindexes, restarts, late>>

\* ... and stores its batches.
IngestBatch(r) ==
    LET i == ingest[r] IN
    /\ i # Idle
    /\ \/ /\ points' = [points EXCEPT ![i.source][i.batch] = i.content]
          /\ IF i.batch < Batches[i.content]
             THEN /\ ingest' = [ingest EXCEPT ![r].batch = @ + 1]
                  /\ UNCHANGED <<chunkCount, ingested>>
             ELSE /\ ingest' = [ingest EXCEPT ![r] = Idle]
                  /\ chunkCount' = chunkCount + Batches[i.content]
                  /\ ingested' = ingested + Batches[i.content]
       \/ /\ Faults
          /\ ingest' = [ingest EXCEPT ![r] = Idle]
          /\ UNCHANGED <<points, chunkCount, ingested>>
    /\ UNCHANGED <<vaultVars, watchVars, channelVars, jobVars, indexing, total,
                   known, fileCount, synced, clashed, queued, reindexes,
                   ingests, restarts, late, excused>>

-----------------------------------------------------------------------------

\* The process starts on a vault and a collection left by an earlier one.
Init ==
    /\ disk = Initial /\ clock = 0
    /\ mode \in Modes
    /\ points = [s \in AllSources |-> Empty] /\ clashed = {}
    /\ watcher = "off" /\ walked = {} /\ outbox = {} /\ notes = {} /\ hot = {}
    /\ current = [p \in Paths |-> 0] /\ seen = [p \in Paths |-> 0]
    /\ raw = <<>> /\ idx = <<>> /\ retries = <<>>
    /\ doing = "start" /\ path = NoPath /\ content = 0 /\ batch = 0
    /\ files = {} /\ unlisted = {}
    /\ indexing = FALSE /\ total = 0
    /\ known = [p \in Paths |-> 0] /\ fileCount = 0 /\ chunkCount = 0
    /\ synced = 0 /\ ingested = 0
    /\ queued = FALSE /\ ingest = [r \in Requesters |-> Idle]
    /\ reindexes = 0 /\ ingests = 0 /\ restarts = 0
    /\ late = {} /\ excused = {}

\* Only the files and the collection survive the process.
Restart ==
    /\ restarts < MaxRestarts
    /\ restarts' = restarts + 1
    /\ watcher' = "off" /\ walked' = {} /\ outbox' = {} /\ notes' = {} /\ hot' = {}
    /\ current' = [p \in Paths |-> 0] /\ seen' = [p \in Paths |-> 0]
    /\ raw' = <<>> /\ idx' = <<>> /\ retries' = <<>>
    /\ doing' = "start" /\ path' = NoPath /\ content' = 0 /\ batch' = 0
    /\ files' = {} /\ unlisted' = {}
    /\ indexing' = FALSE /\ total' = 0
    /\ known' = [p \in Paths |-> 0] /\ fileCount' = 0 /\ chunkCount' = 0
    /\ synced' = 0 /\ ingested' = 0
    /\ queued' = FALSE /\ ingest' = [r \in Requesters |-> Idle]
    /\ late' = {}
    /\ UNCHANGED <<vaultVars, storeVars, reindexes, ingests, excused>>

WatcherStep ==
    \/ WatchStarts \/ Tick \/ FirstScanEnds \/ Compare \/ ScanEnds \/ AddWatches
    \/ \E p \in Paths : WalkFile(p) \/ Notice(p)
    \/ \E e \in outbox : Emit(e)

IndexerStep ==
    \/ Startup \/ Listed \/ TakeReindex \/ TakeEvent
    \/ ReadFile \/ DeleteOld \/ IndexBatch \/ IndexFails
    \/ \E p \in Paths : ListFile(p) \/ PickFile(p)

Next ==
    \/ \E p \in Paths : WriteFile(p) \/ RemoveFile(p) \/ Cool(p)
    \/ WatcherStep
    \/ FanOut
    \/ \E i \in 1 .. RetryCap : Retry(i)
    \/ IndexerStep
    \/ RequestReindex
    \/ \E r \in Requesters : IngestBatch(r) \/ \E s \in AllSources : IngestBegins(r, s)
    \/ Restart

Spec == Init /\ [][Next]_vars

\* Every goroutine keeps running and the tickers fire.  A select takes any of
\* its ready cases; as requests and changes are bounded, none is passed over
\* for ever.
Fairness ==
    /\ WF_vars(WatcherStep) /\ WF_vars(FanOut)
    /\ WF_vars(\E i \in 1 .. RetryCap : Retry(i))
    /\ WF_vars(IndexerStep)
    /\ \A r \in Requesters : WF_vars(IngestBatch(r))

FairSpec == Spec /\ Fairness

-----------------------------------------------------------------------------
(* Properties. *)

VaultType ==
    /\ disk \in [Paths -> Contents] /\ clock \in 0 .. MaxChanges + MaxIngests
    /\ mode \in Modes
    /\ late \subseteq Paths /\ excused \subseteq Paths

WatchType ==
    /\ watcher \in {"off", "first", "rest", "walk", "emit", "gap", "watch"}
    /\ walked \subseteq Paths /\ notes \subseteq Paths /\ hot \subseteq Paths
    /\ current \in [Paths -> Contents] /\ seen \in [Paths -> Contents]
    /\ outbox \subseteq Event

ChannelType ==
    /\ raw \in Seq(Event) /\ Len(raw) <= RawCap
    /\ idx \in Seq(Event) /\ Len(idx) <= IdxCap
    /\ retries \in Seq(Event) /\ Len(retries) <= RetryCap

\* What the indexer holds agrees with what it does next.
JobType ==
    /\ doing \in {"start", "list", "pick", "loop", "read", "purge", "embed"}
    /\ path \in Paths \cup {NoPath} /\ content \in Contents
    /\ (doing \in {"read", "purge", "embed"}) = (path # NoPath)
    /\ batch \in 0 .. MaxBatch
    /\ doing = "embed" => batch \in 1 .. Batches[content]
    /\ files \subseteq Paths /\ unlisted \subseteq Paths
    /\ doing \in {"start", "loop"} => files = {}
    /\ doing \in {"read", "purge", "embed"} => files = {} \/ path \in files

StatType ==
    /\ queued \in BOOLEAN /\ indexing \in BOOLEAN
    /\ total \in Nat /\ fileCount \in Nat /\ synced \in Nat /\ ingested \in Nat
    /\ chunkCount \in Int
    /\ known \in [Paths -> 0 .. MaxBatch]

StoreType ==
    /\ points \in [AllSources -> [1 .. MaxBatch -> Contents]]
    /\ ingest \in [Requesters -> [source : AllSources \cup {NoPath},
                                  content : Contents, batch : 0 .. MaxBatch]]
    /\ clashed \subseteq AllSources

\* The typing invariant: bounds of the channels and of the retry goroutines,
\* and the agreement of the indexer's variables with its position.
TypeOK ==
    /\ VaultType /\ WatchType /\ ChannelType /\ JobType /\ StatType /\ StoreType

\* An event for p is on its way, or the indexer has yet to read p.
Pending(p) ==
    \/ watcher = "walk" /\ p \in walked /\ current[p] # seen[p]
    \/ p \in notes
    \/ \E e \in outbox \cup Range(raw) \cup Range(idx) : e.path = p
    \/ doing = "read" /\ path = p
    \/ doing \in {"purge", "embed"} /\ path = p /\ content = disk[p]

\* No change gets lost between the watcher and the collection: when the
\* watcher takes a file as known, its points are those of the file as it is,
\* or an event or the indexer is on its way to it.  Not promised where a
\* store or embedding call failed, a queue overflowed, a notification was
\* debounced or a request used the path as its source.
NothingForgotten ==
    \A p \in late \ excused :
       LastSeen(p) = disk[p] => Reflected(p) \/ Pending(p)

\* The points of a source never mix two texts, whatever fails and wherever
\* the process dies, unless two writers of the source overlapped or its old
\* points could not be deleted.
NoMixture ==
    \A s \in AllSources \ clashed :
       \A b, d \in 1 .. MaxBatch :
          points[s][b] # 0 /\ points[s][d] # 0 => points[s][b] = points[s][d]

\* The statistics add up: files and chunks counted are those the indexer
\* knows of, plus what was counted at start and what requests added.
StatsAddUp ==
    /\ fileCount = synced + Cardinality({p \in Paths : known[p] # 0})
    /\ chunkCount = ingested + SumFunction(known)

\* Once the files stop changing, the points of every file that changed under
\* the watcher's eyes are those of the file as it is; a deleted file has none.
CatchesUp == <>[](\A p \in late \ excused : Reflected(p))

\* An accepted re-index request is followed by a walk of the vault that starts
\* after it, also when it comes while a full re-index is running.
ReindexHappens == queued ~> doing = "list" /\ ~queued

\* A full re-index reaches its end, whichever files vanish meanwhile; only that
\* of an empty vault does not take back the flag that /health reports.
IndexingEnds == indexing ~> (~indexing \/ total = 0)

-----------------------------------------------------------------------------
(* What the documentation says and the code does not do. *)

\* SPEC.md: "Files added then deleted before the next poll are never indexed
\* (no false entries)".  A file that is gone for good has no points.
NoFalseEntries == \A p \in Paths : <>[](disk[p] = 0 => points[p] = Empty)

\* README.md: /health reports "indexing" during the initial re-index.
IndexingIsReportedOnlyMeanwhile == indexing ~> ~indexing

=============================================================================

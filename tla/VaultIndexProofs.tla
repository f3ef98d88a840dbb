-------------------------- MODULE VaultIndexProofs --------------------------
(***************************************************************************)
(* Proofs about VaultIndex, for any set of files, any number of ingest     *)
(* requests, any capacities and any bounds.                                *)
(***************************************************************************)
EXTENDS VaultIndex, CollectionLemmas

(* Actions, by the variables they write. *)

WatcherOnly ==
    \/ WatchStarts \/ Tick \/ FirstScanEnds \/ Compare \/ ScanEnds \/ AddWatches
    \/ \E p \in Paths : WalkFile(p) \/ Cool(p)

\* The sizes and bounds are numbers, and NoPath is not a file.
LEMMA ConstantsType ==
    /\ Cardinality(Paths) \in Nat
    /\ Contents = 0 .. MaxChanges + MaxIngests + Cardinality(Paths)
    /\ {MaxChanges, MaxReindexes, MaxIngests, MaxRestarts} \subseteq Nat
    /\ NoPath \notin Paths /\ Paths \subseteq AllSources /\ NoPath \notin AllSources
    /\ MaxBatch \in Nat /\ Batches \in [Contents -> 0 .. MaxBatch]
    /\ {RawCap, IdxCap, RetryCap} \subseteq Nat \ {0}
    /\ 0 \in Contents
<1>1. Cardinality(Paths) \in Nat
  BY ConstantsAssumption, FS_CardinalityType
<1>2. Contents = 0 .. MaxChanges + MaxIngests + Cardinality(Paths)
  BY DEF Contents
<1>3. Paths \subseteq AllSources
  BY DEF AllSources
<1>. QED
  BY <1>1, <1>2, <1>3, ConstantsAssumption

\* There are finitely many sources.
LEMMA FiniteSources == IsFiniteSet(AllSources)
BY ConstantsAssumption, FS_Union DEF AllSources

\* A text written or ingested now is a content.
LEMMA NextContent ==
    ASSUME VaultType, clock < MaxChanges + MaxIngests
    PROVE  /\ Cardinality(Paths) + clock + 1 \in Contents
           /\ clock + 1 \in 0 .. MaxChanges + MaxIngests
BY ConstantsType DEF VaultType

\* Taking out an element leaves a shorter sequence over the same set.
LEMMA RemoveAtType ==
    ASSUME NEW S, NEW s \in Seq(S), NEW i \in DOMAIN s
    PROVE  RemoveAt(s, i) \in Seq(S) /\ Len(RemoveAt(s, i)) <= Len(s)
<1>1. i \in 1 .. Len(s) /\ Len(s) \in Nat
  OBVIOUS
<1>2. SubSeq(s, 1, i - 1) \in Seq(S) /\ Len(SubSeq(s, 1, i - 1)) = i - 1
  BY <1>1
<1>3. SubSeq(s, i + 1, Len(s)) \in Seq(S) /\ Len(SubSeq(s, i + 1, Len(s))) = Len(s) - i
  BY <1>1
<1>. QED
  BY <1>1, <1>2, <1>3 DEF RemoveAt

\* A channel below its capacity takes one more element.
LEMMA AppendType ==
    ASSUME NEW S, NEW s \in Seq(S), NEW e \in S, NEW cap \in Nat, Len(s) < cap
    PROVE  Append(s, e) \in Seq(S) /\ Len(Append(s, e)) <= cap
OBVIOUS

-----------------------------------------------------------------------------
(* The typing invariant. *)

LEMMA InitType == Init => TypeOK
<1>. SUFFICES ASSUME Init PROVE TypeOK
  OBVIOUS
<1>. USE DEF Init
<1>1. VaultType
  BY ConstantsType, ConstantsAssumption DEF VaultType
<1>2. WatchType
  BY ConstantsType DEF WatchType
<1>3. ChannelType
  BY ConstantsType DEF ChannelType
<1>4. JobType
  BY ConstantsType DEF JobType
<1>5. StatType
  <2>1. queued \in BOOLEAN /\ indexing \in BOOLEAN
    BY Zenon
  <2>. QED
    BY <2>1, ConstantsType DEF StatType
<1>6. StoreType
  BY ConstantsType DEF StoreType, Empty, Idle
<1>. QED
  BY <1>1, <1>2, <1>3, <1>4, <1>5, <1>6 DEF TypeOK

\* Vault: changes are bounded; the histories name files.
LEMMA VaultStep ==
    ASSUME TypeOK, [Next]_vars
    PROVE  VaultType'
<1>. USE ConstantsType DEF VaultType
<1>. VaultType
  BY DEF TypeOK
<1>1. ASSUME NEW p \in Paths, WriteFile(p) \/ RemoveFile(p)
      PROVE  VaultType'
  BY <1>1, NextContent DEF WriteFile, RemoveFile, Change
<1>2. CASE WatcherOnly
  BY <1>2 DEF WatcherOnly, WatchStarts, Tick, StartWalk, FirstScanEnds, Compare,
       ScanEnds, AddWatches, WalkFile, Cool, vaultVars
<1>3. ASSUME NEW p \in Paths, Notice(p)
      PROVE  VaultType'
  BY <1>3 DEF Notice, vaultVars
<1>4. ASSUME NEW e \in outbox, Emit(e)
      PROVE  VaultType'
  BY <1>4 DEF Emit, vaultVars
<1>5. CASE FanOut
  <2>1. Head(raw) \in Event
    BY <1>5 DEF FanOut, TypeOK, ChannelType
  <2>. QED
    BY <1>5, <2>1 DEF FanOut, vaultVars, Event
<1>6. ASSUME NEW i \in 1 .. RetryCap, Retry(i)
      PROVE  VaultType'
  BY <1>6 DEF Retry, vaultVars
<1>7. CASE Startup \/ Listed \/ TakeReindex \/ ReadFile \/ IndexBatch \/ RequestReindex
  BY <1>7 DEF Startup, Listed, TakeReindex, ReadFile, IndexBatch,
       RequestReindex, vaultVars
<1>8. ASSUME NEW p \in Paths, ListFile(p) \/ PickFile(p)
      PROVE  VaultType'
  BY <1>8 DEF ListFile, PickFile, vaultVars
<1>9. CASE TakeEvent
  <2>1. Head(idx) \in Event
    BY <1>9 DEF TakeEvent, TypeOK, ChannelType
  <2>. QED
    BY <1>9, <2>1 DEF TakeEvent, vaultVars, Event
<1>10. CASE DeleteOld
  BY <1>10 DEF DeleteOld, vaultVars, TypeOK, JobType
<1>11. CASE IndexFails
  BY <1>11 DEF IndexFails, vaultVars, TypeOK, JobType
<1>12. ASSUME NEW r \in Requesters, IngestBatch(r)
       PROVE  VaultType'
  BY <1>12 DEF IngestBatch, vaultVars
<1>13. ASSUME NEW r \in Requesters, NEW s \in AllSources, IngestBegins(r, s)
       PROVE  VaultType'
  BY <1>13, NextContent DEF IngestBegins
<1>14. CASE Restart
  BY <1>14 DEF Restart, vaultVars
<1>15. CASE UNCHANGED vars
  BY <1>15 DEF vars, vaultVars
<1>. QED
  BY <1>1, <1>2, <1>3, <1>4, <1>5, <1>6, <1>7, <1>8, <1>9, <1>10, <1>11,
     <1>12, <1>13, <1>14, <1>15 DEF Next, WatcherStep, IndexerStep, WatcherOnly

\* Watcher: what it has seen are contents, what it sends are events.
LEMMA WatchStep ==
    ASSUME TypeOK, [Next]_vars
    PROVE  WatchType'
<1>. USE ConstantsType DEF WatchType
<1>. WatchType /\ disk \in [Paths -> Contents] /\ Root \in [Paths -> Paths]
  BY ConstantsAssumption DEF TypeOK, VaultType
<1>1. ASSUME NEW p \in Paths, WriteFile(p) \/ RemoveFile(p)
      PROVE  WatchType'
  <2>1. /\ UNCHANGED <<watcher, walked, current, seen, outbox, hot>>
        /\ notes' = notes \/ notes' = notes \cup {Root[p]}
    BY <1>1 DEF WriteFile, RemoveFile, Change
  <2>. QED
    BY <2>1
<1>2. CASE WatchStarts \/ Tick \/ FirstScanEnds \/ ScanEnds \/ AddWatches
  BY <1>2 DEF WatchStarts, Tick, StartWalk, FirstScanEnds, ScanEnds, AddWatches
<1>3. CASE Compare
  <2>1. Differences(seen, current) \subseteq Event
    BY DEF Differences, Indexed, Deleted, Event
  <2>. QED
    BY <1>3, <2>1 DEF Compare
<1>4. ASSUME NEW p \in Paths, WalkFile(p) \/ Notice(p) \/ Cool(p)
      PROVE  WatchType'
  <2>1. CASE WalkFile(p)
    BY <2>1 DEF WalkFile
  <2>2. CASE Notice(p)
    BY <2>2 DEF Notice
  <2>3. CASE Cool(p)
    BY <2>3 DEF Cool
  <2>. QED
    BY <1>4, <2>1, <2>2, <2>3
<1>5. ASSUME NEW e \in outbox, Emit(e)
      PROVE  WatchType'
  BY <1>5 DEF Emit
<1>6. ASSUME UNCHANGED watchVars
      PROVE  WatchType'
  BY <1>6 DEF watchVars
<1>7. CASE FanOut \/ Startup \/ Listed \/ TakeReindex \/ TakeEvent \/ ReadFile
           \/ DeleteOld \/ IndexBatch \/ IndexFails \/ RequestReindex
  BY <1>6, <1>7 DEF FanOut, Startup, Listed, TakeReindex, TakeEvent, ReadFile,
       DeleteOld, IndexBatch, IndexFails, RequestReindex
<1>8. ASSUME NEW i \in 1 .. RetryCap, Retry(i)
      PROVE  WatchType'
  BY <1>6, <1>8 DEF Retry
<1>9. ASSUME NEW p \in Paths, ListFile(p) \/ PickFile(p)
      PROVE  WatchType'
  BY <1>6, <1>9 DEF ListFile, PickFile
<1>10. ASSUME NEW r \in Requesters, IngestBatch(r)
       PROVE  WatchType'
  BY <1>6, <1>10 DEF IngestBatch
<1>11. ASSUME NEW r \in Requesters, NEW s \in AllSources, IngestBegins(r, s)
       PROVE  WatchType'
  BY <1>6, <1>11 DEF IngestBegins
<1>12. CASE Restart
  BY <1>12 DEF Restart
<1>13. CASE UNCHANGED vars
  BY <1>6, <1>13 DEF vars
<1>. QED
  BY <1>1, <1>2, <1>3, <1>4, <1>5, <1>7, <1>8, <1>9, <1>10, <1>11, <1>12, <1>13
     DEF Next, WatcherStep, IndexerStep

\* Channels: sequences of events, within their capacities; at most RetryCap
\* retry goroutines.
LEMMA ChannelStep ==
    ASSUME TypeOK, [Next]_vars
    PROVE  ChannelType'
<1>. USE ConstantsType DEF ChannelType
<1>. ChannelType /\ outbox \subseteq Event
  BY DEF TypeOK, WatchType
<1>1. ASSUME UNCHANGED channelVars
      PROVE  ChannelType'
  BY <1>1 DEF channelVars
<1>2. ASSUME NEW p \in Paths, WriteFile(p) \/ RemoveFile(p)
      PROVE  ChannelType'
  BY <1>1, <1>2 DEF WriteFile, RemoveFile, Change
<1>3. CASE WatcherOnly
  BY <1>1, <1>3 DEF WatcherOnly, WatchStarts, Tick, StartWalk, FirstScanEnds,
       Compare, ScanEnds, AddWatches, WalkFile, Cool
<1>4. ASSUME NEW p \in Paths, Notice(p)
      PROVE  ChannelType'
  <2>1. Indexed(p) \in Event /\ Deleted(p) \in Event
    BY DEF Indexed, Deleted, Event
  <2>2. \/ raw' = raw
        \/ /\ Len(raw) # RawCap
           /\ raw' = Append(raw, IF disk[p] = 0 THEN Deleted(p) ELSE Indexed(p))
    BY <1>4 DEF Notice
  <2>3. CASE raw' = raw
    BY <1>4, <2>3 DEF Notice
  <2>4. CASE raw' # raw
    <3>1. PICK e \in Event : Len(raw) < RawCap /\ raw' = Append(raw, e)
      BY <2>1, <2>2, <2>4
    <3>2. raw' \in Seq(Event) /\ Len(raw') <= RawCap
      BY <3>1, AppendType
    <3>. QED
      BY <1>4, <3>2 DEF Notice
  <2>. QED
    BY <2>3, <2>4
<1>5. ASSUME NEW e \in outbox, Emit(e)
      PROVE  ChannelType'
  BY <1>5 DEF Emit
<1>6. CASE FanOut
  <2>1. /\ Head(raw) \in Event /\ Tail(raw) \in Seq(Event)
        /\ Len(Tail(raw)) <= RawCap
    BY <1>6 DEF FanOut
  <2>2. \/ Len(idx) < IdxCap /\ idx' = Append(idx, Head(raw)) /\ retries' = retries
        \/ /\ idx' = idx
           /\ \/ retries' = retries
              \/ Len(retries) < RetryCap /\ retries' = Append(retries, Head(raw))
    BY <1>6 DEF FanOut
  <2>3. raw' = Tail(raw)
    BY <1>6 DEF FanOut
  <2>4. idx' \in Seq(Event) /\ Len(idx') <= IdxCap
    BY <2>1, <2>2, AppendType
  <2>5. retries' \in Seq(Event) /\ Len(retries') <= RetryCap
    BY <2>1, <2>2, AppendType
  <2>. QED
    BY <2>1, <2>3, <2>4, <2>5
<1>7. ASSUME NEW i \in 1 .. RetryCap, Retry(i)
      PROVE  ChannelType'
  <2>1. i \in DOMAIN retries
    BY <1>7 DEF Retry
  <2>2. /\ RemoveAt(retries, i) \in Seq(Event)
        /\ Len(RemoveAt(retries, i)) <= Len(retries)
    BY <2>1, RemoveAtType
  <2>3. retries[i] \in Event
    BY <2>1
  <2>4. /\ raw' = raw /\ retries' = RemoveAt(retries, i)
        /\ idx' = idx \/ (Len(idx) < IdxCap /\ idx' = Append(idx, retries[i]))
    BY <1>7 DEF Retry
  <2>5. idx' \in Seq(Event) /\ Len(idx') <= IdxCap
    <3>1. CASE idx' = idx
      BY <3>1
    <3>2. CASE Len(idx) < IdxCap /\ idx' = Append(idx, retries[i])
      BY <2>3, <3>2, AppendType
    <3>. QED
      BY <2>4, <3>1, <3>2
  <2>6. Len(RemoveAt(retries, i)) \in Nat /\ Len(retries) \in Nat
    BY <2>2
  <2>7. Len(RemoveAt(retries, i)) <= RetryCap
    BY <2>2, <2>6
  <2>. QED
    BY <2>2, <2>4, <2>5, <2>7
<1>8. CASE TakeEvent
  <2>1. idx # <<>> /\ idx' = Tail(idx) /\ raw' = raw /\ retries' = retries
    BY <1>8 DEF TakeEvent
  <2>. QED
    BY <2>1
<1>9. CASE Startup \/ Listed \/ TakeReindex \/ ReadFile \/ DeleteOld
           \/ IndexBatch \/ IndexFails \/ RequestReindex
  BY <1>1, <1>9 DEF Startup, Listed, TakeReindex, ReadFile, DeleteOld,
       IndexBatch, IndexFails, RequestReindex
<1>10. ASSUME NEW p \in Paths, ListFile(p) \/ PickFile(p)
       PROVE  ChannelType'
  BY <1>1, <1>10 DEF ListFile, PickFile
<1>11. ASSUME NEW r \in Requesters, IngestBatch(r)
       PROVE  ChannelType'
  BY <1>1, <1>11 DEF IngestBatch
<1>12. ASSUME NEW r \in Requesters, NEW s \in AllSources, IngestBegins(r, s)
       PROVE  ChannelType'
  BY <1>1, <1>12 DEF IngestBegins, channelVars
<1>13. CASE Restart
  BY <1>13 DEF Restart
<1>14. CASE UNCHANGED vars
  BY <1>1, <1>14 DEF vars
<1>. QED
  BY <1>2, <1>3, <1>4, <1>5, <1>6, <1>7, <1>8, <1>9, <1>10, <1>11, <1>12,
     <1>13, <1>14 DEF Next, WatcherStep, IndexerStep, WatcherOnly

\* The file whose indexing ends was the one the indexer worked on.
LEMMA FileDoneType ==
    ASSUME JobType, FileDone
    PROVE  JobType'
<1>. USE ConstantsType DEF JobType, FileDone
<1>1. CASE files' = {}
  BY <1>1
<1>2. CASE files' # {}
  BY <1>2
<1>. QED
  BY <1>1, <1>2

\* A full re-index starts with the walk.
LEMMA BeginReindexType ==
    ASSUME JobType, doing \in {"start", "loop"}, BeginReindex
    PROVE  JobType'
BY ConstantsType DEF JobType, BeginReindex

\* Indexer: what it holds agrees with what it does next.
LEMMA JobStep ==
    ASSUME TypeOK, [Next]_vars
    PROVE  JobType'
<1>. USE ConstantsType
<1>. JobType /\ disk \in [Paths -> Contents]
  BY DEF TypeOK, VaultType
<1>1. ASSUME UNCHANGED jobVars
      PROVE  JobType'
  BY <1>1 DEF jobVars, JobType
<1>2. ASSUME NEW p \in Paths, WriteFile(p) \/ RemoveFile(p) \/ Notice(p)
      PROVE  JobType'
  BY <1>1, <1>2 DEF WriteFile, RemoveFile, Change, Notice
<1>3. CASE WatcherOnly
  BY <1>1, <1>3 DEF WatcherOnly, WatchStarts, Tick, StartWalk, FirstScanEnds,
       Compare, ScanEnds, AddWatches, WalkFile, Cool
<1>4. ASSUME NEW e \in outbox, Emit(e)
      PROVE  JobType'
  BY <1>1, <1>4 DEF Emit
<1>5. CASE FanOut \/ RequestReindex
  BY <1>1, <1>5 DEF FanOut, RequestReindex
<1>6. ASSUME NEW i \in 1 .. RetryCap, Retry(i)
      PROVE  JobType'
  BY <1>1, <1>6 DEF Retry
<1>7. CASE Startup
  <2>1. doing = "start" /\ (BeginReindex
          \/ (doing' = "loop" /\ UNCHANGED <<path, content, batch, files, unlisted>>))
    BY <1>7 DEF Startup
  <2>. QED
    BY <2>1, BeginReindexType DEF JobType
<1>8. ASSUME NEW p \in Paths, ListFile(p)
      PROVE  JobType'
  BY <1>8 DEF ListFile, JobType
<1>9. CASE Listed
  BY <1>9 DEF Listed, JobType
<1>10. ASSUME NEW p \in Paths, PickFile(p)
       PROVE  JobType'
  BY <1>10 DEF PickFile, JobType
<1>11. CASE TakeReindex
  BY <1>11, BeginReindexType DEF TakeReindex
<1>12. CASE TakeEvent
  <2>1. Head(idx) \in Event
    BY <1>12 DEF TakeEvent, TypeOK, ChannelType
  <2>. QED
    BY <1>12, <2>1 DEF TakeEvent, JobType, Event
<1>13. CASE ReadFile
  <2>1. CASE disk[path] # 0 /\ content' = disk[path]
    BY <1>13, <2>1 DEF ReadFile, JobType
  <2>. QED
    BY <1>13, <2>1, FileDoneType DEF ReadFile, FileDone
<1>14. CASE DeleteOld
  <2>1. CASE Batches[content] # 0 /\ doing' = "embed" /\ batch' = 1
    <3>1. Batches[content] \in 0 .. MaxBatch
      BY DEF JobType
    <3>. QED
      BY <1>14, <2>1, <3>1 DEF DeleteOld, JobType
  <2>2. CASE FileDone
    BY <2>2, FileDoneType
  <2>. QED
    BY <1>14, <2>1, <2>2 DEF DeleteOld
<1>15. CASE IndexBatch
  <2>1. CASE batch < Batches[content]
    <3>1. Batches[content] \in 0 .. MaxBatch
      BY DEF JobType
    <3>. QED
      BY <1>15, <2>1, <3>1 DEF IndexBatch, JobType
  <2>2. CASE ~(batch < Batches[content])
    BY <1>15, <2>2, FileDoneType DEF IndexBatch
  <2>. QED
    BY <2>1, <2>2
<1>16. CASE IndexFails
  BY <1>16, FileDoneType DEF IndexFails
<1>17. ASSUME NEW r \in Requesters, IngestBatch(r)
       PROVE  JobType'
  BY <1>1, <1>17 DEF IngestBatch
<1>18. ASSUME NEW r \in Requesters, NEW s \in AllSources, IngestBegins(r, s)
       PROVE  JobType'
  BY <1>1, <1>18 DEF IngestBegins
<1>19. CASE Restart
  BY <1>19 DEF Restart, JobType
<1>20. CASE UNCHANGED vars
  BY <1>1, <1>20 DEF vars
<1>. QED
  BY <1>2, <1>3, <1>4, <1>5, <1>6, <1>7, <1>8, <1>9, <1>10, <1>11, <1>12, <1>13,
     <1>14, <1>15, <1>16, <1>17, <1>18, <1>19, <1>20
     DEF Next, WatcherStep, IndexerStep, WatcherOnly

\* Statistics: counts are numbers.
LEMMA StatStep ==
    ASSUME TypeOK, [Next]_vars
    PROVE  StatType'
<1>. USE ConstantsType
<1>. StatType /\ JobType /\ StoreType
  BY DEF TypeOK
<1>1. ASSUME UNCHANGED <<queued, statVars>>
      PROVE  StatType'
  BY <1>1 DEF statVars, StatType
<1>2. ASSUME NEW p \in Paths, WriteFile(p) \/ RemoveFile(p) \/ Notice(p)
      PROVE  StatType'
  BY <1>1, <1>2 DEF WriteFile, RemoveFile, Change, Notice, requestVars
<1>3. CASE WatcherOnly
  BY <1>1, <1>3 DEF WatcherOnly, WatchStarts, Tick, StartWalk, FirstScanEnds,
       Compare, ScanEnds, AddWatches, WalkFile, Cool, requestVars
<1>4. ASSUME NEW e \in outbox, Emit(e)
      PROVE  StatType'
  BY <1>1, <1>4 DEF Emit, requestVars
<1>5. CASE FanOut
  BY <1>1, <1>5 DEF FanOut, requestVars
<1>6. ASSUME NEW i \in 1 .. RetryCap, Retry(i)
      PROVE  StatType'
  BY <1>1, <1>6 DEF Retry, requestVars
<1>7. ASSUME BeginReindex, queued' \in BOOLEAN
      PROVE  StatType'
  <2>1. indexing' \in BOOLEAN
    BY <1>7, Zenon DEF BeginReindex
  <2>. QED
    BY <1>7, <2>1 DEF BeginReindex, StatType
<1>8. CASE Startup
  <2>. DEFINE held == {s \in AllSources : points[s] # Empty}
  <2>1. queued' = queued /\ queued \in BOOLEAN
    BY <1>8 DEF Startup, requestVars, StatType
  <2>2. CASE BeginReindex
    BY <1>7, <2>1, <2>2
  <2>3. CASE /\ fileCount' = Cardinality(held) \/ fileCount' = fileCount
             /\ held # {} /\ synced' = fileCount'
             /\ UNCHANGED <<indexing, total, known, chunkCount, ingested>>
    <3>1. IsFiniteSet(held)
      BY FiniteSources, FS_Subset
    <3>2. Cardinality(held) \in Nat
      BY <3>1, FS_CardinalityType
    <3>. QED
      BY <2>1, <2>3, <3>2 DEF StatType
  <2>4. CASE UNCHANGED statVars
    BY <1>1, <2>1, <2>4
  <2>. QED
    BY <1>8, <2>2, <2>3, <2>4 DEF Startup
<1>9. ASSUME NEW p \in Paths, ListFile(p) \/ PickFile(p)
      PROVE  StatType'
  BY <1>1, <1>9 DEF ListFile, PickFile, requestVars
<1>10. CASE Listed
  <2>1. IsFiniteSet(files)
    BY ConstantsAssumption, FS_Subset DEF JobType
  <2>2. Cardinality(files) \in Nat
    BY <2>1, FS_CardinalityType
  <2>. QED
    BY <1>10, <2>2 DEF Listed, StatType, requestVars
<1>11. CASE TakeReindex
  <2>1. queued' \in BOOLEAN
    BY <1>11, Zenon DEF TakeReindex
  <2>. QED
    BY <1>7, <1>11, <2>1 DEF TakeReindex
<1>12. CASE TakeEvent
  BY <1>1, <1>12 DEF TakeEvent, requestVars
<1>13. ASSUME FileDone
       PROVE  indexing' \in BOOLEAN
  <2>1. indexing \in BOOLEAN
    BY DEF StatType
  <2>2. indexing' = FALSE \/ indexing' = indexing
    BY <1>13, Zenon DEF FileDone
  <2>. QED
    BY <2>1, <2>2, Zenon
<1>14. CASE ReadFile \/ DeleteOld \/ IndexFails
  <2>1. indexing' \in BOOLEAN
    <3>1. indexing' = indexing \/ FileDone
      BY <1>14, Zenon DEF ReadFile, DeleteOld, IndexFails
    <3>2. indexing \in BOOLEAN
      BY DEF StatType
    <3>. QED
      BY <1>13, <3>1, <3>2, Zenon
  <2>2. UNCHANGED <<queued, total, known, fileCount, chunkCount, synced, ingested>>
    BY <1>14 DEF ReadFile, DeleteOld, IndexFails, requestVars
  <2>. QED
    BY <2>1, <2>2 DEF StatType
<1>15. CASE IndexBatch
  <2>1. indexing' \in BOOLEAN
    <3>1. indexing' = indexing \/ FileDone
      BY <1>15, Zenon DEF IndexBatch
    <3>2. indexing \in BOOLEAN
      BY DEF StatType
    <3>. QED
      BY <1>13, <3>1, <3>2, Zenon
  <2>2. /\ UNCHANGED <<queued, total, synced, ingested>>
        /\ Account \/ UNCHANGED <<known, fileCount, chunkCount>>
        /\ doing = "embed"
    BY <1>15 DEF IndexBatch, requestVars
  <2>3. /\ Batches[content] \in 0 .. MaxBatch
        /\ path \in Paths
    BY <2>2 DEF JobType
  <2>4. known[path] \in 0 .. MaxBatch
    BY <2>3 DEF StatType
  <2>5. known' \in [Paths -> 0 .. MaxBatch]
    BY <2>2, <2>3 DEF Account, StatType
  <2>6. fileCount' \in Nat
    BY <2>2 DEF Account, StatType
  <2>7. chunkCount' \in Int
    <3>1. chunkCount \in Int /\ Batches[content] \in Int /\ known[path] \in Int
      BY <2>3, <2>4 DEF StatType
    <3>2. chunkCount + Batches[content] - known[path] \in Int
      BY <3>1
    <3>. QED
      BY <2>2, <3>1, <3>2 DEF Account
  <2>. QED
    BY <2>1, <2>2, <2>5, <2>6, <2>7 DEF StatType
<1>16. CASE RequestReindex
  <2>1. queued' \in BOOLEAN
    BY <1>16, Zenon DEF RequestReindex
  <2>. QED
    BY <1>16, <2>1 DEF RequestReindex, StatType, statVars
<1>17. ASSUME NEW r \in Requesters, IngestBatch(r)
       PROVE  StatType'
  <2>1. ingest[r].content \in Contents
    BY DEF StoreType
  <2>2. Batches[ingest[r].content] \in 0 .. MaxBatch
    BY <2>1
  <2>3. /\ UNCHANGED <<queued, indexing, total, known, fileCount, synced>>
        /\ \/ UNCHANGED <<chunkCount, ingested>>
           \/ /\ chunkCount' = chunkCount + Batches[ingest[r].content]
              /\ ingested' = ingested + Batches[ingest[r].content]
    BY <1>17 DEF IngestBatch
  <2>4. Batches[ingest[r].content] \in Nat /\ chunkCount \in Int /\ ingested \in Nat
    BY <2>2 DEF StatType
  <2>5. chunkCount' \in Int /\ ingested' \in Nat
    <3>. DEFINE n == Batches[ingest[r].content]
    <3>1. /\ n \in Nat
          /\ \/ chunkCount' = chunkCount /\ ingested' = ingested
             \/ chunkCount' = chunkCount + n /\ ingested' = ingested + n
      BY <2>3, <2>4
    <3>. HIDE DEF n
    <3>. QED
      BY <2>4, <3>1
  <2>. QED
    BY <2>3, <2>5 DEF StatType
<1>18. ASSUME NEW r \in Requesters, NEW s \in AllSources, IngestBegins(r, s)
       PROVE  StatType'
  BY <1>1, <1>18 DEF IngestBegins
<1>19. CASE Restart
  <2>1. queued' \in BOOLEAN /\ indexing' \in BOOLEAN
    BY <1>19, Zenon DEF Restart
  <2>. QED
    BY <1>19, <2>1 DEF Restart, StatType
<1>20. CASE UNCHANGED vars
  BY <1>1, <1>20 DEF vars, requestVars
<1>. QED
  BY <1>2, <1>3, <1>4, <1>5, <1>6, <1>8, <1>9, <1>10, <1>11, <1>12,
     <1>14, <1>15, <1>16, <1>17, <1>18, <1>19, <1>20
     DEF Next, WatcherStep, IndexerStep, WatcherOnly

\* Collection and requests: a write stays within a source's points.
LEMMA PurgeType ==
    ASSUME NEW s, NEW others, StoreType, s \in AllSources, Purge(s, others)
    PROVE  /\ points' \in [AllSources -> [1 .. MaxBatch -> Contents]]
           /\ clashed' \subseteq AllSources
<1>1. Empty \in [1 .. MaxBatch -> Contents]
  BY ConstantsType DEF Empty
<1>. QED
  BY <1>1 DEF Purge, StoreType

LEMMA WriteType ==
    ASSUME NEW f \in [AllSources -> [1 .. MaxBatch -> Contents]],
           NEW s, NEW b, NEW v \in Contents
    PROVE  [f EXCEPT ![s][b] = v] \in [AllSources -> [1 .. MaxBatch -> Contents]]
<1>. DEFINE g == [f EXCEPT ![s][b] = v]
<1>1. g = [f EXCEPT ![s] = [f[s] EXCEPT ![b] = v]]
  OBVIOUS
<1>2. ASSUME NEW t \in AllSources
      PROVE  g[t] \in [1 .. MaxBatch -> Contents]
  <2>1. f[t] \in [1 .. MaxBatch -> Contents]
    OBVIOUS
  <2>2. CASE t = s
    <3>1. g[t] = [f[t] EXCEPT ![b] = v]
      BY <2>2
    <3>. QED
      BY <2>1, <3>1
  <2>3. CASE t # s
    BY <2>1, <2>3
  <2>. QED
    BY <2>2, <2>3
<1>3. g = [t \in AllSources |-> g[t]]
  OBVIOUS
<1>. QED
  BY <1>2, <1>3

LEMMA StoreStep ==
    ASSUME TypeOK, [Next]_vars
    PROVE  StoreType'
<1>. USE ConstantsType
<1>. StoreType /\ JobType
  BY DEF TypeOK
<1>1. ASSUME UNCHANGED <<storeVars, ingest>>
      PROVE  StoreType'
  BY <1>1 DEF storeVars, StoreType
<1>2. ASSUME NEW p \in Paths, WriteFile(p) \/ RemoveFile(p) \/ Notice(p)
      PROVE  StoreType'
  BY <1>1, <1>2 DEF WriteFile, RemoveFile, Change, Notice, requestVars
<1>3. CASE WatcherOnly
  BY <1>1, <1>3 DEF WatcherOnly, WatchStarts, Tick, StartWalk, FirstScanEnds,
       Compare, ScanEnds, AddWatches, WalkFile, Cool, requestVars
<1>4. ASSUME NEW e \in outbox, Emit(e)
      PROVE  StoreType'
  BY <1>1, <1>4 DEF Emit, requestVars
<1>5. CASE FanOut \/ Startup \/ Listed \/ TakeReindex \/ ReadFile \/ IndexFails
           \/ RequestReindex
  BY <1>1, <1>5 DEF FanOut, Startup, Listed, TakeReindex, ReadFile, IndexFails,
       RequestReindex, requestVars
<1>6. ASSUME NEW i \in 1 .. RetryCap, Retry(i)
      PROVE  StoreType'
  BY <1>1, <1>6 DEF Retry, requestVars
<1>7. ASSUME NEW p \in Paths, ListFile(p) \/ PickFile(p)
      PROVE  StoreType'
  BY <1>1, <1>7 DEF ListFile, PickFile, requestVars
<1>8. CASE TakeEvent
  <2>1. Empty \in [1 .. MaxBatch -> Contents]
    BY DEF Empty
  <2>2. /\ UNCHANGED <<clashed, ingest>>
        /\ points' = points \/ points' = [points EXCEPT ![Head(idx).path] = Empty]
    BY <1>8 DEF TakeEvent, storeVars, requestVars
  <2>3. points' \in [AllSources -> [1 .. MaxBatch -> Contents]]
    <3>1. points \in [AllSources -> [1 .. MaxBatch -> Contents]]
      BY DEF StoreType
    <3>2. CASE points' = points
      BY <3>1, <3>2
    <3>3. CASE points' = [points EXCEPT ![Head(idx).path] = Empty]
      <4>. DEFINE s == Head(idx).path
      <4>1. points' = [points EXCEPT ![s] = Empty]
        BY <3>3
      <4>. HIDE DEF s
      <4>. QED
        BY <2>1, <3>1, <4>1
    <3>. QED
      BY <2>2, <3>2, <3>3
  <2>. QED
    BY <2>2, <2>3 DEF StoreType
<1>9. CASE DeleteOld
  <2>1. path \in AllSources /\ Purge(path, WritersOf(path) # {}) /\ UNCHANGED ingest
    BY <1>9 DEF DeleteOld, JobType, requestVars
  <2>. QED
    BY <2>1, PurgeType DEF StoreType
<1>10. CASE IndexBatch
  <2>1. points' = [points EXCEPT ![path][batch] = content] /\ content \in Contents
    BY <1>10 DEF IndexBatch, JobType
  <2>2. points' \in [AllSources -> [1 .. MaxBatch -> Contents]]
    BY <2>1, WriteType DEF StoreType
  <2>. QED
    BY <1>10, <2>2 DEF IndexBatch, requestVars, StoreType
<1>11. Idle \in [source : AllSources \cup {NoPath}, content : Contents, batch : 0 .. MaxBatch]
  BY DEF Idle
<1>12. ASSUME NEW r \in Requesters, IngestBatch(r)
       PROVE  StoreType'
  <2>. DEFINE i == ingest[r]
  <2>1. /\ i \in [source : AllSources \cup {NoPath}, content : Contents, batch : 0 .. MaxBatch]
        /\ Batches[i.content] \in 0 .. MaxBatch
    BY DEF StoreType
  <2>2. /\ clashed' = clashed
        /\ \/ points' = points
           \/ points' = [points EXCEPT ![i.source][i.batch] = i.content]
        /\ \/ i.batch < Batches[i.content] /\ ingest' = [ingest EXCEPT ![r].batch = @ + 1]
           \/ ingest' = [ingest EXCEPT ![r] = Idle]
    BY <1>12 DEF IngestBatch
  <2>3. points' \in [AllSources -> [1 .. MaxBatch -> Contents]]
    <3>1. points \in [AllSources -> [1 .. MaxBatch -> Contents]]
      BY DEF StoreType
    <3>2. i.content \in Contents
      BY <2>1
    <3>3. [points EXCEPT ![i.source][i.batch] = i.content]
              \in [AllSources -> [1 .. MaxBatch -> Contents]]
      BY <3>1, <3>2, WriteType
    <3>. QED
      BY <2>2, <3>1, <3>3
  <2>4. CASE ingest' = [ingest EXCEPT ![r] = Idle]
    BY <1>11, <2>2, <2>3, <2>4 DEF StoreType
  <2>5. CASE i.batch < Batches[i.content] /\ ingest' = [ingest EXCEPT ![r].batch = @ + 1]
    <3>1. i.batch + 1 \in 0 .. MaxBatch
      BY <2>1, <2>5
    <3>2. ingest' = [ingest EXCEPT ![r] = [i EXCEPT !.batch = @ + 1]]
      BY <2>5 DEF StoreType
    <3>3. [i EXCEPT !.batch = @ + 1] \in
              [source : AllSources \cup {NoPath}, content : Contents, batch : 0 .. MaxBatch]
      BY <2>1, <3>1
    <3>. QED
      BY <2>2, <2>3, <3>2, <3>3 DEF StoreType
  <2>. QED
    BY <2>2, <2>4, <2>5
<1>13. ASSUME NEW r \in Requesters, NEW s \in AllSources, IngestBegins(r, s)
       PROVE  StoreType'
  <2>. DEFINE v == Cardinality(Paths) + clock + 1
  <2>1. v \in Contents /\ Batches[v] \in 0 .. MaxBatch /\ Batches[v] # 0
    BY <1>13, NextContent DEF IngestBegins, TypeOK
  <2>2. /\ ingest' = [ingest EXCEPT ![r] = [source |-> s, content |-> v, batch |-> 1]]
        /\ Purge(s, WritersOf(s) # {} \/ IndexerWrites(s))
    BY <1>13 DEF IngestBegins
  <2>3. 1 \in 0 .. MaxBatch
    BY <2>1
  <2>4. ingest' \in [Requesters -> [source : AllSources \cup {NoPath},
                                    content : Contents, batch : 0 .. MaxBatch]]
    BY <2>1, <2>2, <2>3 DEF StoreType
  <2>. QED
    BY <2>2, <2>4, PurgeType DEF StoreType
<1>14. CASE Restart
  BY <1>11, <1>14 DEF Restart, storeVars, StoreType
<1>15. CASE UNCHANGED vars
  BY <1>1, <1>15 DEF vars, requestVars
<1>. QED
  BY <1>2, <1>3, <1>4, <1>5, <1>6, <1>7, <1>8, <1>9, <1>10, <1>12, <1>13,
     <1>14, <1>15 DEF Next, WatcherStep, IndexerStep, WatcherOnly

\* Channels never hold more than their capacities, the fan-out never runs more
\* than RetryCap retry goroutines, and what the indexer holds agrees with what
\* it does next.
THEOREM TypeCorrectness == Spec => []TypeOK
<1>1. Init => TypeOK
  BY InitType
<1>2. TypeOK /\ [Next]_vars => TypeOK'
  BY VaultStep, WatchStep, ChannelStep, JobStep, StatStep, StoreStep DEF TypeOK
<1>. QED
  BY <1>1, <1>2, PTL DEF Spec

-----------------------------------------------------------------------------
(* One text per source.                                                    *)
(*                                                                         *)
(* NoMixture is not inductive: the next batch must find nothing but points *)
(* of its own text.  Whoever writes a source that is not clashed has       *)
(* emptied it and is its only writer.                                      *)

\* Source s holds nothing but points of text v.
Uniform(s, v) == \A b \in 1 .. MaxBatch : points[s][b] = 0 \/ points[s][b] = v

OneText(s) == \E v \in Contents : Uniform(s, v)

IndexerAlone(s) ==
    IndexerWrites(s) => /\ Uniform(s, content)
                        /\ \A r \in Requesters : ingest[r].source # s

RequestAlone(s) ==
    \A r \in Requesters :
       ingest[r].source = s => /\ Uniform(s, ingest[r].content)
                               /\ \A q \in Requesters : ingest[q].source = s => q = r

SoleWriter ==
    \A s \in AllSources \ clashed : OneText(s) /\ IndexerAlone(s) /\ RequestAlone(s)

LEMMA SoleWriterNoMixture == SoleWriter => NoMixture
BY DEF SoleWriter, OneText, Uniform, NoMixture

LEMMA InitSoleWriter == Init => SoleWriter
<1>. SUFFICES ASSUME Init, NEW s \in AllSources
             PROVE  OneText(s) /\ IndexerAlone(s) /\ RequestAlone(s)
  BY DEF SoleWriter
<1>. USE ConstantsType DEF Init
<1>1. Uniform(s, 0)
  BY DEF Uniform, Empty
<1>2. \A r \in Requesters : ingest[r].source # s
  BY DEF Idle
<1>. QED
  BY <1>1, <1>2 DEF OneText, IndexerAlone, RequestAlone, IndexerWrites

\* A step that touches neither the collection nor the requests, and that does
\* not let the indexer begin to write.
LEMMA QuietStep ==
    ASSUME SoleWriter, UNCHANGED <<storeVars, ingest>>,
           doing' = "embed" => doing = "embed" /\ path' = path /\ content' = content
    PROVE  SoleWriter'
<1>. SUFFICES ASSUME NEW s \in AllSources \ clashed
             PROVE  (OneText(s) /\ IndexerAlone(s) /\ RequestAlone(s))'
  BY DEF SoleWriter, storeVars
<1>1. OneText(s) /\ IndexerAlone(s) /\ RequestAlone(s)
  BY DEF SoleWriter
<1>. QED
  BY <1>1 DEF OneText, IndexerAlone, RequestAlone, IndexerWrites, Uniform, storeVars

LEMMA SoleWriterStep ==
    ASSUME TypeOK, SoleWriter, [Next]_vars
    PROVE  SoleWriter'
<1>. USE ConstantsType
<1>. StoreType /\ JobType
  BY DEF TypeOK
<1>. DEFINE quiet == /\ UNCHANGED <<storeVars, ingest>>
                     /\ doing' = "embed" => doing = "embed" /\ path' = path /\ content' = content
<1>1. quiet => SoleWriter'
  BY QuietStep
<1>2. ASSUME NEW p \in Paths, WriteFile(p) \/ RemoveFile(p) \/ Notice(p)
      PROVE  quiet
  BY <1>2 DEF WriteFile, RemoveFile, Change, Notice, requestVars, jobVars
<1>3. CASE WatcherOnly
  <2>1. quiet
    BY <1>3 DEF WatcherOnly, WatchStarts, Tick, StartWalk, FirstScanEnds,
         Compare, ScanEnds, AddWatches, WalkFile, Cool, requestVars, jobVars
  <2>. QED
    BY <1>1, <2>1
<1>4. ASSUME NEW e \in outbox, Emit(e)
      PROVE  quiet
  BY <1>4 DEF Emit, requestVars, jobVars
<1>5. CASE FanOut \/ RequestReindex
  <2>1. quiet
    BY <1>5 DEF FanOut, RequestReindex, requestVars, jobVars
  <2>. QED
    BY <1>1, <2>1
<1>6. ASSUME NEW i \in 1 .. RetryCap, Retry(i)
      PROVE  quiet
  BY <1>6 DEF Retry, requestVars, jobVars
<1>7. CASE Startup \/ Listed \/ TakeReindex \/ ReadFile \/ IndexFails
  <2>1. quiet
    BY <1>7 DEF Startup, BeginReindex, Listed, TakeReindex, ReadFile, IndexFails,
         FileDone, requestVars, jobVars
  <2>. QED
    BY <1>1, <2>1
<1>8. ASSUME NEW p \in Paths, ListFile(p) \/ PickFile(p)
      PROVE  quiet
  BY <1>8 DEF ListFile, PickFile, requestVars
<1>9. CASE TakeEvent
  <2>1. CASE points' = points
    <3>1. quiet
      BY <1>9, <2>1 DEF TakeEvent, storeVars, requestVars
    <3>. QED
      BY <1>1, <3>1
  <2>2. CASE points' # points
    <3>. DEFINE d == Head(idx).path
    <3>1. /\ points' = [points EXCEPT ![d] = Empty]
          /\ UNCHANGED <<clashed, ingest, path, doing, content>>
      BY <1>9, <2>2 DEF TakeEvent, storeVars, requestVars
    <3>. HIDE DEF d
    <3>2. \A s \in AllSources, b \in 1 .. MaxBatch :
              points'[s][b] = points[s][b] \/ points'[s][b] = 0
      BY <3>1 DEF StoreType, Empty
    <3>3. ASSUME NEW s \in AllSources \ clashed
          PROVE  (OneText(s) /\ IndexerAlone(s) /\ RequestAlone(s))'
      <4>1. OneText(s) /\ IndexerAlone(s) /\ RequestAlone(s)
        BY DEF SoleWriter
      <4>2. \A v : Uniform(s, v) => Uniform(s, v)'
        BY <3>2 DEF Uniform
      <4>3. OneText(s)'
        BY <4>1, <4>2 DEF OneText
      <4>4. IndexerAlone(s)'
        BY <3>1, <4>1, <4>2 DEF IndexerAlone, IndexerWrites, Uniform
      <4>5. RequestAlone(s)'
        <5>1. ASSUME NEW r \in Requesters, ingest[r].source = s
              PROVE  /\ \A b \in 1 .. MaxBatch :
                           points'[s][b] = 0 \/ points'[s][b] = ingest[r].content
                     /\ \A q \in Requesters : ingest[q].source = s => q = r
          BY <3>2, <4>1, <5>1 DEF RequestAlone, Uniform
        <5>. QED
          BY <3>1, <5>1 DEF RequestAlone, Uniform
      <4>. QED
        BY <4>3, <4>4, <4>5
    <3>. QED
      BY <3>1, <3>3 DEF SoleWriter
  <2>. QED
    BY <2>1, <2>2
<1>10. CASE DeleteOld
  <2>2. Purge(path, WritersOf(path) # {}) /\ ingest' = ingest /\ path \in Paths
    BY <1>10 DEF DeleteOld, JobType, requestVars
  <2>3. doing' = "embed" => path' = path /\ content' = content
    BY <1>10 DEF DeleteOld, FileDone
  <2>4. SUFFICES ASSUME NEW s \in AllSources \ clashed'
                 PROVE  (OneText(s) /\ IndexerAlone(s) /\ RequestAlone(s))'
    BY DEF SoleWriter
  <2>5. CASE s = path
    <3>1. points' = [points EXCEPT ![path] = Empty] /\ WritersOf(path) = {}
      BY <2>2, <2>5 DEF Purge
    <3>2. \A b \in 1 .. MaxBatch : points'[s][b] = 0
      BY <2>2, <2>5, <3>1 DEF StoreType, Empty
    <3>3. \A r \in Requesters : ingest'[r].source # s
      BY <2>2, <2>5, <3>1 DEF WritersOf
    <3>. QED
      BY <3>2, <3>3 DEF OneText, IndexerAlone, RequestAlone, Uniform
  <2>6. CASE s # path
    <3>1. s \notin clashed /\ points'[s] = points[s]
      BY <2>2, <2>6 DEF Purge, StoreType
    <3>2. OneText(s) /\ RequestAlone(s)
      BY <3>1 DEF SoleWriter
    <3>3. ~IndexerWrites(s)'
      BY <2>3, <2>6 DEF IndexerWrites
    <3>. QED
      BY <2>2, <3>1, <3>2, <3>3 DEF OneText, IndexerAlone, RequestAlone, Uniform
  <2>. QED
    BY <2>5, <2>6
<1>11. CASE IndexBatch
  <2>1. /\ doing = "embed" /\ path \in Paths /\ content \in Contents
        /\ points' = [points EXCEPT ![path][batch] = content]
        /\ UNCHANGED <<clashed, ingest>>
    BY <1>11 DEF IndexBatch, JobType, requestVars
  <2>2. doing' = "embed" => path' = path /\ content' = content
    BY <1>11 DEF IndexBatch, FileDone
  <2>3. SUFFICES ASSUME NEW s \in AllSources \ clashed
                 PROVE  (OneText(s) /\ IndexerAlone(s) /\ RequestAlone(s))'
    BY <2>1 DEF SoleWriter
  <2>4. OneText(s) /\ IndexerAlone(s) /\ RequestAlone(s)
    BY DEF SoleWriter
  <2>5. CASE s = path
    <3>1. Uniform(s, content) /\ \A r \in Requesters : ingest[r].source # s
      BY <2>1, <2>4, <2>5 DEF IndexerAlone, IndexerWrites
    <3>2. \A b \in 1 .. MaxBatch : points'[s][b] = 0 \/ points'[s][b] = content
      BY <2>1, <2>5, <3>1 DEF Uniform, StoreType
    <3>. QED
      BY <2>1, <2>2, <3>1, <3>2 DEF OneText, IndexerAlone, RequestAlone, IndexerWrites, Uniform
  <2>6. CASE s # path
    <3>1. points'[s] = points[s]
      BY <2>1, <2>6 DEF StoreType
    <3>2. ~IndexerWrites(s)'
      BY <2>2, <2>6 DEF IndexerWrites
    <3>3. OneText(s)'
      BY <2>4, <3>1 DEF OneText, Uniform
    <3>4. RequestAlone(s)'
      BY <2>1, <2>4, <3>1 DEF RequestAlone, Uniform
    <3>. QED
      BY <3>2, <3>3, <3>4 DEF IndexerAlone
  <2>. QED
    BY <2>5, <2>6
<1>12. ASSUME NEW r \in Requesters, IngestBatch(r)
       PROVE  SoleWriter'
  <2>. DEFINE i == ingest[r]
  <2>1. /\ UNCHANGED <<clashed, doing, path, content>>
        /\ \/ points' = points
           \/ points' = [points EXCEPT ![i.source][i.batch] = i.content]
        /\ \/ ingest' = [ingest EXCEPT ![r].batch = @ + 1]
           \/ ingest' = [ingest EXCEPT ![r] = Idle]
    BY <1>12 DEF IngestBatch, jobVars
  <2>2. \A q \in Requesters : /\ ingest'[q].source \in {ingest[q].source, NoPath}
                              /\ ingest'[q].source # NoPath =>
                                   ingest'[q].content = ingest[q].content
    <3>1. CASE ingest' = [ingest EXCEPT ![r] = Idle]
      BY <3>1 DEF StoreType, Idle
    <3>2. CASE ingest' = [ingest EXCEPT ![r].batch = @ + 1]
      <4>1. i \in [source : AllSources \cup {NoPath}, content : Contents, batch : 0 .. MaxBatch]
        BY DEF StoreType
      <4>2. ingest' = [ingest EXCEPT ![r] = [i EXCEPT !.batch = @ + 1]]
        BY <3>2 DEF StoreType
      <4>3. [i EXCEPT !.batch = @ + 1].source = i.source
              /\ [i EXCEPT !.batch = @ + 1].content = i.content
        BY <4>1
      <4>. QED
        BY <4>2, <4>3 DEF StoreType
    <3>. QED
      BY <2>1, <3>1, <3>2
  <2>3. SUFFICES ASSUME NEW s \in AllSources \ clashed
                 PROVE  (OneText(s) /\ IndexerAlone(s) /\ RequestAlone(s))'
    BY <2>1 DEF SoleWriter
  <2>4. OneText(s) /\ IndexerAlone(s) /\ RequestAlone(s)
    BY DEF SoleWriter
  <2>5. CASE s = i.source
    <3>1. /\ Uniform(s, i.content) /\ i.content \in Contents
          /\ \A q \in Requesters : ingest[q].source = s => q = r
      BY <2>4, <2>5 DEF RequestAlone, StoreType
    <3>2. \A b \in 1 .. MaxBatch : points'[s][b] = 0 \/ points'[s][b] = i.content
      <4>1. CASE points' = points
        BY <3>1, <4>1 DEF Uniform
      <4>2. CASE points' = [points EXCEPT ![s][i.batch] = i.content]
        BY <3>1, <4>2 DEF Uniform, StoreType
      <4>. QED
        BY <2>1, <2>5, <4>1, <4>2
    <3>3. ~IndexerWrites(s)'
      BY <2>1, <2>4, <2>5 DEF IndexerAlone, IndexerWrites
    <3>4. OneText(s)'
      BY <3>1, <3>2 DEF OneText, Uniform
    <3>5. RequestAlone(s)'
      BY <2>2, <3>1, <3>2 DEF RequestAlone, Uniform
    <3>. QED
      BY <3>3, <3>4, <3>5 DEF IndexerAlone
  <2>6. CASE s # i.source
    <3>1. points'[s] = points[s]
      BY <2>1, <2>6 DEF StoreType
    <3>2. \A v : Uniform(s, v) => Uniform(s, v)'
      BY <3>1 DEF Uniform
    <3>3. OneText(s)'
      BY <2>4, <3>1 DEF OneText, Uniform
    <3>4. IndexerAlone(s)'
      BY <2>1, <2>2, <2>4, <3>1 DEF IndexerAlone, IndexerWrites, Uniform
    <3>5. RequestAlone(s)'
      BY <2>2, <2>4, <3>1 DEF RequestAlone, Uniform
    <3>. QED
      BY <3>3, <3>4, <3>5
  <2>. QED
    BY <2>5, <2>6
<1>13. ASSUME NEW r \in Requesters, NEW t \in AllSources, IngestBegins(r, t)
       PROVE  SoleWriter'
  <2>. DEFINE v == Cardinality(Paths) + clock + 1
  <2>1. /\ ingest[r] = Idle
        /\ ingest' = [ingest EXCEPT ![r] = [source |-> t, content |-> v, batch |-> 1]]
        /\ Purge(t, WritersOf(t) # {} \/ IndexerWrites(t))
        /\ UNCHANGED <<doing, path, content>>
    BY <1>13 DEF IngestBegins, jobVars
  <2>2. \A q \in Requesters : q # r => ingest'[q] = ingest[q]
    BY <2>1 DEF StoreType
  <2>3. ingest'[r].source = t
    BY <2>1 DEF StoreType
  <2>4. SUFFICES ASSUME NEW s \in AllSources \ clashed'
                 PROVE  (OneText(s) /\ IndexerAlone(s) /\ RequestAlone(s))'
    BY DEF SoleWriter
  <2>5. CASE s = t
    <3>1. points' = [points EXCEPT ![t] = Empty] /\ WritersOf(t) = {} /\ ~IndexerWrites(t)
      BY <2>1, <2>5 DEF Purge
    <3>2. \A b \in 1 .. MaxBatch : points'[s][b] = 0
      BY <2>5, <3>1 DEF StoreType, Empty
    <3>3. \A q \in Requesters : ingest'[q].source = s => q = r
      BY <2>2, <2>5, <3>1 DEF WritersOf
    <3>4. ~IndexerWrites(s)'
      BY <2>1, <2>5, <3>1 DEF IndexerWrites
    <3>. QED
      BY <3>2, <3>3, <3>4 DEF OneText, IndexerAlone, RequestAlone, Uniform
  <2>6. CASE s # t
    <3>1. s \notin clashed /\ points'[s] = points[s]
      BY <2>1, <2>6 DEF Purge, StoreType
    <3>2. OneText(s) /\ IndexerAlone(s) /\ RequestAlone(s)
      BY <3>1 DEF SoleWriter
    <3>3. \A q \in Requesters : ingest'[q].source = s => q # r /\ ingest'[q] = ingest[q]
      BY <2>2, <2>3, <2>6
    <3>4. OneText(s)'
      BY <3>1, <3>2 DEF OneText, Uniform
    <3>5. IndexerAlone(s)'
      BY <2>1, <3>1, <3>2, <3>3 DEF IndexerAlone, IndexerWrites, Uniform
    <3>6. RequestAlone(s)'
      BY <3>1, <3>2, <3>3 DEF RequestAlone, Uniform
    <3>. QED
      BY <3>4, <3>5, <3>6
  <2>. QED
    BY <2>5, <2>6
<1>14. CASE Restart
  <2>1. /\ UNCHANGED <<points, clashed>> /\ doing' = "start"
        /\ \A r \in Requesters : ingest'[r].source = NoPath
    BY <1>14 DEF Restart, storeVars, Idle
  <2>2. SUFFICES ASSUME NEW s \in AllSources \ clashed
                 PROVE  (OneText(s) /\ IndexerAlone(s) /\ RequestAlone(s))'
    BY <2>1 DEF SoleWriter
  <2>3. OneText(s)
    BY DEF SoleWriter
  <2>. QED
    BY <2>1, <2>3 DEF OneText, IndexerAlone, RequestAlone, IndexerWrites, Uniform
<1>15. CASE UNCHANGED vars
  <2>1. quiet
    BY <1>15 DEF vars, requestVars, jobVars
  <2>. QED
    BY <1>1, <2>1
<1>. QED
  BY <1>1, <1>2, <1>3, <1>4, <1>5, <1>6, <1>7, <1>8, <1>9, <1>10, <1>11, <1>12,
     <1>13, <1>14, <1>15 DEF Next, WatcherStep, IndexerStep, WatcherOnly

\* The points of a source never mix two texts, unless two of its writers
\* overlapped or a delete failed since it was last emptied: through failing
\* embeddings and upserts, restarts, and any interleaving of the indexer with
\* requests for other sources.
THEOREM TextsNeverMix == Spec => []NoMixture
<1>1. Init => SoleWriter
  BY InitSoleWriter
<1>2. TypeOK /\ SoleWriter /\ [Next]_vars => SoleWriter'
  BY SoleWriterStep
<1>3. SoleWriter => NoMixture
  BY SoleWriterNoMixture
<1>. QED
  BY <1>1, <1>2, <1>3, TypeCorrectness, PTL DEF Spec
-----------------------------------------------------------------------------
(* The statistics. *)

\* The counters add up, and a process that has just started knows no file.
Tallied == StatsAddUp /\ (doing = "start" => known = [p \in Paths |-> 0])

Counted == {p \in Paths : known[p] # 0}

\* Nothing is known, nothing is counted.
LEMMA NothingKnown ==
    ASSUME known = [p \in Paths |-> 0]
    PROVE  SumFunction(known) = 0 /\ Cardinality(Counted) = 0
<1>1. Counted = {}
  BY DEF Counted
<1>2. Cardinality(Counted) = 0
  BY <1>1, FS_EmptySet
<1>. QED
  BY <1>2, ConstantsAssumption, SumOfZeros

LEMMA InitTallied == Init => Tallied
<1>. SUFFICES ASSUME Init PROVE Tallied
  OBVIOUS
<1>1. known = [p \in Paths |-> 0] /\ fileCount = 0 /\ chunkCount = 0 /\ synced = 0 /\ ingested = 0
  BY DEF Init
<1>2. SumFunction(known) = 0 /\ Cardinality(Counted) = 0
  BY <1>1, NothingKnown
<1>. QED
  BY <1>1, <1>2 DEF Tallied, StatsAddUp, Counted

\* What a reset of the statistics leaves adds up.
LEMMA TalliedAfterReset ==
    ASSUME known' = [p \in Paths |-> 0], fileCount' = 0, chunkCount' = 0,
           synced' = 0, ingested' = 0
    PROVE  Tallied'
<1>. DEFINE none == [p \in Paths |-> 0]
            held == {p \in Paths : known'[p] # 0}
<1>1. SumFunction(none) = 0
  BY ConstantsAssumption, SumOfZeros
<1>2. held = {}
  OBVIOUS
<1>3. Cardinality(held) = 0
  BY <1>2, FS_EmptySet
<1>. QED
  BY <1>1, <1>3 DEF Tallied, StatsAddUp

\* Steps that leave the counters alone, or add the same to both sides.
LEMMA TalliedElsewhere ==
    ASSUME Tallied, TypeOK, UNCHANGED <<known, fileCount, synced>>,
           doing' = "start" => doing = "start", NEW n \in Int,
           chunkCount' = chunkCount + n, ingested' = ingested + n
    PROVE  Tallied'
<1>1. SumFunction(known) \in Int /\ chunkCount \in Int /\ ingested \in Int
  <2>1. known \in [Paths -> Int]
    BY ConstantsType DEF TypeOK, StatType
  <2>. QED
    BY <2>1, ConstantsAssumption, SumType DEF TypeOK, StatType
<1>. QED
  BY <1>1 DEF Tallied, StatsAddUp

\* The file the indexer has finished counts with the chunks it now has, instead
\* of those it had.
LEMMA TalliedByAccount ==
    ASSUME Tallied, TypeOK, Account, doing = "embed", UNCHANGED <<synced, ingested>>,
           doing' # "start"
    PROVE  Tallied'
<1>1. path \in Paths /\ Batches[content] \in 1 .. MaxBatch
  <2>1. path \in Paths /\ batch \in 1 .. Batches[content] /\ content \in Contents
    BY ConstantsType DEF TypeOK, JobType
  <2>. QED
    BY <2>1, ConstantsType
<1>2. /\ known \in [Paths -> 0 .. MaxBatch] /\ chunkCount \in Int /\ ingested \in Int
      /\ fileCount \in Nat /\ synced \in Nat /\ MaxBatch \in Nat
  BY ConstantsType DEF TypeOK, StatType
<1>3. known' = [known EXCEPT ![path] = Batches[content]]
  BY DEF Account
<1>4. SumFunction(known') = SumFunction(known) + Batches[content] - known[path]
  <2>. DEFINE k == [known EXCEPT ![path] = Batches[content]]
  <2>1. known \in [Paths -> Int] /\ k \in [Paths -> Int] /\ k[path] = Batches[content]
        /\ \A x \in Paths \ {path} : known[x] = k[x]
    BY <1>1, <1>2
  <2>. HIDE DEF k
  <2>2. IsFiniteSet(Paths)
    BY ConstantsAssumption
  <2>3. SumFunction(k) = SumFunction(known) + k[path] - known[path]
    BY <1>1, <2>1, <2>2, SumChange
  <2>. QED
    BY <1>3, <2>1, <2>3 DEF k
<1>5. SumFunction(known) \in Int /\ known[path] \in Int /\ Batches[content] \in Int
  <2>1. known \in [Paths -> Int]
    BY <1>2
  <2>. QED
    BY <1>1, <1>2, <2>1, ConstantsAssumption, SumType
<1>6. chunkCount' = ingested' + SumFunction(known')
  <2>1. chunkCount' = chunkCount + Batches[content] - known[path]
    BY DEF Account
  <2>2. chunkCount = ingested + SumFunction(known) /\ ingested' = ingested
    BY DEF Tallied, StatsAddUp
  <2>. DEFINE old == SumFunction(known)
              new == SumFunction(known')
  <2>3. new = old + Batches[content] - known[path] /\ old \in Int
    BY <1>4, <1>5
  <2>4. chunkCount = ingested + old
    BY <2>2
  <2>. HIDE DEF old, new
  <2>5. chunkCount' = ingested + new
    BY <1>2, <1>5, <2>1, <2>3, <2>4
  <2>. QED
    BY <2>2, <2>5 DEF new
<1>7. Counted' = Counted \cup {path}
  BY <1>1, <1>2, <1>3 DEF Counted
<1>8. IsFiniteSet(Counted)
  BY ConstantsAssumption, FS_Subset DEF Counted
<1>9. Cardinality(Counted') = IF path \in Counted THEN Cardinality(Counted)
                              ELSE Cardinality(Counted) + 1
  BY <1>7, <1>8, FS_AddElement
<1>10. path \in Counted <=> known[path] # 0
  BY <1>1 DEF Counted
<1>11. fileCount = synced + Cardinality(Counted)
  BY DEF Tallied, StatsAddUp, Counted
<1>12. fileCount' = synced' + Cardinality(Counted')
  <2>1. Cardinality(Counted) \in Nat
    BY <1>8, FS_CardinalityType
  <2>2. fileCount' = IF known[path] = 0 THEN fileCount + 1 ELSE fileCount
    BY DEF Account
  <2>. DEFINE old == Cardinality(Counted)
              new == Cardinality(Counted')
  <2>3. new = (IF known[path] = 0 THEN old + 1 ELSE old) /\ old \in Nat /\ fileCount = synced + old
    BY <1>9, <1>10, <1>11, <2>1
  <2>. HIDE DEF old, new
  <2>4. fileCount' = synced + new
    BY <1>2, <2>2, <2>3
  <2>. QED
    BY <2>4 DEF new
<1>. QED
  BY <1>6, <1>12 DEF Tallied, StatsAddUp, Counted

LEMMA TalliedStep ==
    ASSUME TypeOK, Tallied, [Next]_vars
    PROVE  Tallied'
<1>1. ASSUME UNCHANGED <<known, fileCount, synced, chunkCount, ingested>>,
             doing' = "start" => doing = "start"
      PROVE  Tallied'
  <2>1. chunkCount \in Int /\ ingested \in Int
    BY DEF TypeOK, StatType
  <2>. QED
    BY <1>1, <2>1, TalliedElsewhere
<1>2. ASSUME NEW p \in Paths, WriteFile(p) \/ RemoveFile(p) \/ Notice(p)
      PROVE  Tallied'
  BY <1>1, <1>2 DEF WriteFile, RemoveFile, Change, Notice, statVars, jobVars
<1>3. CASE WatcherOnly
  BY <1>1, <1>3 DEF WatcherOnly, WatchStarts, Tick, StartWalk, FirstScanEnds,
       Compare, ScanEnds, AddWatches, WalkFile, Cool, statVars, jobVars
<1>4. ASSUME NEW e \in outbox, Emit(e)
      PROVE  Tallied'
  BY <1>1, <1>4 DEF Emit, statVars, jobVars
<1>5. CASE FanOut
  BY <1>1, <1>5 DEF FanOut, statVars, jobVars
<1>6. ASSUME NEW i \in 1 .. RetryCap, Retry(i)
      PROVE  Tallied'
  BY <1>1, <1>6 DEF Retry, statVars, jobVars
<1>7. CASE BeginReindex
  BY <1>7, TalliedAfterReset DEF BeginReindex
<1>8. CASE Startup
  <2>. DEFINE held == {s \in AllSources : points[s] # Empty}
  <2>1. CASE BeginReindex
    BY <1>7, <2>1
  <2>2. CASE /\ synced' = fileCount' /\ doing' = "loop" /\ doing = "start"
             /\ fileCount' \in Nat
             /\ UNCHANGED <<known, chunkCount, ingested>>
    <3>1. known = [p \in Paths |-> 0]
      BY <2>2 DEF Tallied
    <3>2. Cardinality(Counted) = 0
      BY <3>1, NothingKnown
    <3>3. Cardinality(Counted') = 0
      BY <2>2, <3>2 DEF Counted
    <3>4. fileCount' = synced' + Cardinality(Counted')
      <4>1. \A k \in Nat : k = k + 0
        OBVIOUS
      <4>. QED
        BY <2>2, <3>3, <4>1, Zenon
    <3>5. chunkCount' = ingested' + SumFunction(known')
      BY <2>2 DEF Tallied, StatsAddUp
    <3>. QED
      BY <2>2, <3>4, <3>5 DEF Tallied, StatsAddUp, Counted
  <2>3. CASE doing' = "loop" /\ UNCHANGED statVars
    BY <1>1, <2>3 DEF statVars
  <2>4. ASSUME doing = "start", held # {}, fileCount' = Cardinality(held) \/ fileCount' = fileCount
        PROVE  fileCount' \in Nat
    <3>1. IsFiniteSet(held)
      BY FiniteSources, FS_Subset
    <3>2. Cardinality(held) \in Nat
      BY <3>1, FS_CardinalityType
    <3>. QED
      BY <2>4, <3>2 DEF TypeOK, StatType
  <2>. QED
    BY <1>8, <2>1, <2>2, <2>3, <2>4 DEF Startup
<1>9. ASSUME NEW p \in Paths, ListFile(p) \/ PickFile(p)
      PROVE  Tallied'
  BY <1>1, <1>9 DEF ListFile, PickFile, statVars
<1>10. CASE Listed
  BY <1>1, <1>10 DEF Listed
<1>11. CASE TakeReindex
  BY <1>7, <1>11 DEF TakeReindex
<1>12. CASE TakeEvent
  BY <1>1, <1>12 DEF TakeEvent, statVars
<1>13. FileDone => doing' # "start"
  BY DEF FileDone
<1>14. CASE ReadFile \/ DeleteOld \/ IndexFails
  BY <1>1, <1>13, <1>14 DEF ReadFile, DeleteOld, IndexFails
<1>15. CASE IndexBatch
  <2>1. CASE Account /\ FileDone
    BY <1>13, <1>15, <2>1, TalliedByAccount DEF IndexBatch
  <2>2. CASE UNCHANGED <<doing, known, fileCount, chunkCount>>
    BY <1>1, <1>15, <2>2 DEF IndexBatch
  <2>. QED
    BY <1>15, <2>1, <2>2 DEF IndexBatch
<1>16. CASE RequestReindex
  BY <1>1, <1>16 DEF RequestReindex, statVars, jobVars
<1>17. ASSUME NEW r \in Requesters, IngestBatch(r)
       PROVE  Tallied'
  <2>1. Batches[ingest[r].content] \in Int
    BY ConstantsType DEF TypeOK, StoreType
  <2>2. UNCHANGED <<known, fileCount, synced, doing>>
    BY <1>17 DEF IngestBatch, jobVars
  <2>3. CASE UNCHANGED <<chunkCount, ingested>>
    BY <1>1, <2>2, <2>3
  <2>4. CASE /\ chunkCount' = chunkCount + Batches[ingest[r].content]
             /\ ingested' = ingested + Batches[ingest[r].content]
    BY <2>1, <2>2, <2>4, TalliedElsewhere
  <2>. QED
    BY <1>17, <2>3, <2>4 DEF IngestBatch
<1>18. ASSUME NEW r \in Requesters, NEW s \in AllSources, IngestBegins(r, s)
       PROVE  Tallied'
  BY <1>1, <1>18 DEF IngestBegins, statVars, jobVars
<1>19. CASE Restart
  BY <1>19, TalliedAfterReset DEF Restart
<1>20. CASE UNCHANGED vars
  BY <1>1, <1>20 DEF vars, statVars, jobVars
<1>. QED
  BY <1>2, <1>3, <1>4, <1>5, <1>6, <1>8, <1>9, <1>10, <1>11, <1>12,
     <1>14, <1>15, <1>16, <1>17, <1>18, <1>19, <1>20
     DEF Next, WatcherStep, IndexerStep, WatcherOnly

\* The counters that /stats and /health report agree with what the indexer
\* knows of each file (indexFile, fullReindex, SyncFileCount, Ingest).
THEOREM StatisticsAddUp == Spec => []StatsAddUp
<1>1. TypeOK /\ Tallied /\ [Next]_vars => Tallied'
  BY TalliedStep
<1>2. Tallied => StatsAddUp
  BY DEF Tallied
<1>. QED
  BY <1>1, <1>2, InitTallied, TypeCorrectness, PTL DEF Spec

-----------------------------------------------------------------------------
(***************************************************************************)
(* No change of a file gets lost between the watcher and the collection.   *)
(*                                                                         *)
(* NothingForgotten is not inductive: an event that says less than the     *)
(* file as it is may be pending.  What is: the last event of a file on its *)
(* way agrees with what the watcher takes the file for, and where none is  *)
(* on its way, the indexer works on that very content or has stored it.    *)
(***************************************************************************)

(* Events in a channel. *)

Has(q, p) == \E i \in DOMAIN q : q[i].path = p

\* The last event of p in a channel has action a.
LastIs(q, p, a) == \E i \in DOMAIN q : /\ q[i].path = p /\ q[i].action = a
                                       /\ \A j \in DOMAIN q : j > i => q[j].path # p


LEMMA AppendHas ==
    ASSUME NEW q \in Seq(Event), NEW e \in Event, NEW p
    PROVE  Has(Append(q, e), p) <=> Has(q, p) \/ e.path = p
<1>1. /\ Len(q) \in Nat /\ DOMAIN q = 1 .. Len(q)
      /\ DOMAIN Append(q, e) = 1 .. Len(q) + 1
      /\ Append(q, e)[Len(q) + 1] = e
      /\ \A i \in 1 .. Len(q) : Append(q, e)[i] = q[i]
  OBVIOUS
<1>. QED
  BY <1>1 DEF Has

LEMMA AppendLast ==
    ASSUME NEW q \in Seq(Event), NEW e \in Event, NEW p, NEW a
    PROVE  LastIs(Append(q, e), p, a) <=> IF e.path = p THEN e.action = a ELSE LastIs(q, p, a)
<1>1. /\ Len(q) \in Nat /\ DOMAIN q = 1 .. Len(q)
      /\ DOMAIN Append(q, e) = 1 .. Len(q) + 1
      /\ Append(q, e)[Len(q) + 1] = e
      /\ \A i \in 1 .. Len(q) : Append(q, e)[i] = q[i]
  OBVIOUS
<1>2. CASE e.path = p
  <2>1. LastIs(Append(q, e), p, a) => e.action = a
    BY <1>1, <1>2 DEF LastIs
  <2>2. e.action = a => LastIs(Append(q, e), p, a)
    BY <1>1, <1>2 DEF LastIs
  <2>. QED
    BY <1>2, <2>1, <2>2
<1>3. CASE e.path # p
  BY <1>1, <1>3 DEF LastIs
<1>. QED
  BY <1>2, <1>3

LEMMA TailHas ==
    ASSUME NEW q \in Seq(Event), q # <<>>, NEW p
    PROVE  Has(q, p) <=> Head(q).path = p \/ Has(Tail(q), p)
<1>1. /\ Len(q) \in Nat \ {0} /\ DOMAIN q = 1 .. Len(q)
      /\ DOMAIN Tail(q) = 1 .. Len(q) - 1
      /\ Head(q) = q[1]
      /\ \A i \in 1 .. Len(q) - 1 : Tail(q)[i] = q[i + 1]
  OBVIOUS
<1>2. ASSUME NEW i \in DOMAIN q, q[i].path = p, i # 1
      PROVE  Has(Tail(q), p)
  <2>1. i - 1 \in 1 .. Len(q) - 1 /\ Tail(q)[i - 1] = q[i]
    BY <1>1, <1>2
  <2>. QED
    BY <1>1, <1>2, <2>1 DEF Has
<1>3. ASSUME NEW i \in DOMAIN Tail(q), Tail(q)[i].path = p
      PROVE  Has(q, p)
  BY <1>1, <1>3 DEF Has
<1>. QED
  BY <1>1, <1>2, <1>3 DEF Has

LEMMA TailLast ==
    ASSUME NEW q \in Seq(Event), q # <<>>, NEW p, NEW a
    PROVE  LastIs(q, p, a) <=>
              \/ LastIs(Tail(q), p, a)
              \/ Head(q).path = p /\ Head(q).action = a /\ ~Has(Tail(q), p)
<1>1. /\ Len(q) \in Nat \ {0} /\ DOMAIN q = 1 .. Len(q)
      /\ DOMAIN Tail(q) = 1 .. Len(q) - 1
      /\ Head(q) = q[1]
      /\ \A i \in 1 .. Len(q) - 1 : Tail(q)[i] = q[i + 1]
  OBVIOUS
<1>2. ASSUME NEW i \in DOMAIN q, q[i].path = p, q[i].action = a,
             \A j \in DOMAIN q : j > i => q[j].path # p
      PROVE  \/ LastIs(Tail(q), p, a)
             \/ Head(q).path = p /\ Head(q).action = a /\ ~Has(Tail(q), p)
  <2>1. CASE i = 1
    BY <1>1, <1>2, <2>1 DEF Has
  <2>2. CASE i # 1
    <3>1. i - 1 \in 1 .. Len(q) - 1 /\ Tail(q)[i - 1] = q[i]
      BY <1>1, <2>2
    <3>2. \A j \in 1 .. Len(q) - 1 : j > i - 1 => Tail(q)[j].path # p
      BY <1>1, <1>2
    <3>. QED
      BY <1>1, <1>2, <3>1, <3>2 DEF LastIs
  <2>. QED
    BY <2>1, <2>2
<1>3. ASSUME NEW i \in DOMAIN Tail(q), Tail(q)[i].path = p, Tail(q)[i].action = a,
             \A j \in DOMAIN Tail(q) : j > i => Tail(q)[j].path # p
      PROVE  LastIs(q, p, a)
  <2>1. i + 1 \in DOMAIN q /\ q[i + 1] = Tail(q)[i]
    BY <1>1
  <2>2. ASSUME NEW j \in DOMAIN q, j > i + 1 PROVE q[j].path # p
    <3>1. j - 1 \in DOMAIN Tail(q) /\ j - 1 > i /\ Tail(q)[j - 1] = q[j]
      BY <1>1, <2>2
    <3>. QED
      BY <1>3, <3>1
  <2>. QED
    BY <1>3, <2>1, <2>2 DEF LastIs
<1>4. ASSUME Head(q).path = p, Head(q).action = a, ~Has(Tail(q), p)
      PROVE  LastIs(q, p, a)
  <2>1. ASSUME NEW j \in DOMAIN q, j > 1 PROVE q[j].path # p
    <3>1. j - 1 \in DOMAIN Tail(q) /\ Tail(q)[j - 1] = q[j]
      BY <1>1, <2>1
    <3>. QED
      BY <1>4, <3>1 DEF Has
  <2>. QED
    BY <1>1, <1>4, <2>1 DEF LastIs
<1>. QED
  BY <1>2, <1>3, <1>4 DEF LastIs

LEMMA ConcatKeeps ==
    ASSUME NEW f \in Seq(Event), NEW g \in Seq(Event), NEW j \in DOMAIN (f \o g)
    PROVE  \/ \E k \in DOMAIN f : (f \o g)[j] = f[k]
           \/ \E k \in DOMAIN g : (f \o g)[j] = g[k]
<1>1. /\ Len(f) \in Nat /\ DOMAIN f = 1 .. Len(f)
      /\ Len(g) \in Nat /\ DOMAIN g = 1 .. Len(g)
      /\ DOMAIN (f \o g) = 1 .. Len(f) + Len(g)
  OBVIOUS
<1>2. CASE j <= Len(f)
  BY <1>1, <1>2
<1>3. CASE j > Len(f)
  <2>1. (f \o g)[j] = g[j - Len(f)] /\ j - Len(f) \in DOMAIN g
    BY <1>1, <1>3
  <2>. QED
    BY <2>1
<1>. QED
  BY <1>1, <1>2, <1>3

LEMMA RemoveAtKeeps ==
    ASSUME NEW q \in Seq(Event), NEW i \in DOMAIN q
    PROVE  \A j \in DOMAIN RemoveAt(q, i) : \E k \in DOMAIN q : RemoveAt(q, i)[j] = q[k]
<1>1. i \in 1 .. Len(q) /\ Len(q) \in Nat /\ DOMAIN q = 1 .. Len(q)
  OBVIOUS
<1>. DEFINE front == SubSeq(q, 1, i - 1)
            back  == SubSeq(q, i + 1, Len(q))
<1>2. front \in Seq(Event) /\ \A k \in DOMAIN front : k \in DOMAIN q /\ front[k] = q[k]
  BY <1>1
<1>3. back \in Seq(Event) /\ \A k \in DOMAIN back : i + k \in DOMAIN q /\ back[k] = q[i + k]
  BY <1>1
<1>. HIDE DEF front, back
<1>4. \A j \in DOMAIN (front \o back) : \/ \E k \in DOMAIN front : (front \o back)[j] = front[k]
                                       \/ \E k \in DOMAIN back : (front \o back)[j] = back[k]
  BY <1>2, <1>3, ConcatKeeps
<1>5. \A j \in DOMAIN (front \o back) : \E k \in DOMAIN q : (front \o back)[j] = q[k]
  BY <1>2, <1>3, <1>4
<1>. QED
  BY <1>5 DEF RemoveAt, front, back

-----------------------------------------------------------------------------
(* The invariant. *)

ActionFor(p) == IF disk[p] = 0 THEN "delete" ELSE "index"

\* The watcher owes p nothing more than it has seen of it.
Owed(p) == p \in late \ excused /\ LastSeen(p) = disk[p]

\* The watcher has yet to send an event of p.
Unsent(p) == \/ watcher = "walk" /\ p \in walked /\ current[p] # seen[p]
             \/ p \in notes /\ disk[p] = 0

\* The last event of p on its way tells what p is.
Told(p) == \/ \E e \in outbox : e.path = p
           \/ LastIs(raw, p, ActionFor(p))
           \/ ~Has(raw, p) /\ LastIs(idx, p, ActionFor(p))

\* The indexer works on p as it is, or has.
Settled(p) == \/ doing = "read" /\ path = p /\ disk[p] # 0
              \/ doing \in {"purge", "embed"} /\ path = p /\ content = disk[p]
              \/ ~(doing \in {"purge", "embed"} /\ path = p) /\ Reflected(p)

Silent(p) == /\ \A e \in outbox : e.path # p
             /\ ~Has(raw, p) /\ ~Has(idx, p)
             /\ Settled(p)

Covered(p) == Owed(p) => Unsent(p) \/ Told(p) \/ Silent(p)
Accounted == \A p \in Paths : Covered(p)

\* Contents only grow, and nobody knows of a later one than the file has.
Orderly ==
    /\ \A p \in Paths :
          /\ disk[p] <= Cardinality(Paths) + clock
          /\ seen[p] <= Cardinality(Paths) + clock
          /\ current[p] <= Cardinality(Paths) + clock
          /\ disk[p] = 0 \/ (seen[p] <= disk[p] /\ current[p] <= disk[p])
          /\ watcher \in {"walk", "emit"} /\ p \in walked
               => current[p] = 0 \/ seen[p] <= current[p]
    /\ content <= Cardinality(Paths) + clock

\* What the watcher's position says of its variables.
Walking ==
    /\ watcher = "off" => late = {}
    /\ watcher = "first" => late \subseteq walked
    /\ watcher = "emit" => walked = Paths /\ outbox \subseteq Differences(seen, current)
    /\ watcher # "emit" => outbox = {}

\* Retried events and requests excuse what they are about.
Excuses ==
    /\ \A i \in DOMAIN retries : retries[i].path \in excused
    /\ \A r \in Requesters : ingest[r].source \in Paths => ingest[r].source \in excused

\* As long as the file stays what was read of it, its points are the batches
\* stored so far.
Progress ==
    /\ doing \in {"purge", "embed"} => content # 0
    /\ doing = "embed" /\ content = disk[path] /\ path \notin excused =>
          \A b \in 1 .. MaxBatch : points[path][b] = IF b < batch THEN content ELSE 0

Bookkeeping == Orderly /\ Walking /\ Excuses /\ Progress


LEMMA OrderlyAtFirst == Init => Orderly
<1>. SUFFICES ASSUME Init PROVE Orderly
  OBVIOUS
<1>1. \A p \in Paths : disk[p] \in 0 .. Cardinality(Paths)
  BY ConstantsAssumption DEF Init
<1>. QED
  BY <1>1, ConstantsType DEF Init, Orderly

\* Contents and clock are numbers.
LEMMA ContentsAreNumbers ==
    ASSUME TypeOK
    PROVE  /\ Cardinality(Paths) \in Nat /\ clock \in Nat /\ content \in Nat
           /\ \A p \in Paths : disk[p] \in Nat /\ seen[p] \in Nat /\ current[p] \in Nat
BY ConstantsType DEF TypeOK, VaultType, WatchType, JobType

\* A step of somebody else's.
LEMMA OrderlyElsewhere ==
    ASSUME TypeOK, Orderly, UNCHANGED <<disk, seen, current, watcher, walked>>,
           clock' \in {clock, clock + 1}, content' \in {content, 0}
    PROVE  Orderly'
BY ContentsAreNumbers DEF Orderly

LEMMA OrderlyStep ==
    ASSUME TypeOK, Orderly, [Next]_vars
    PROVE  Orderly'
<1>. USE ContentsAreNumbers
<1>. DEFINE elsewhere == /\ UNCHANGED <<disk, seen, current, watcher, walked>>
                         /\ clock' \in {clock, clock + 1} /\ content' \in {content, 0}
<1>0. elsewhere => Orderly'
  BY OrderlyElsewhere
<1>1. ASSUME NEW p \in Paths, WriteFile(p) \/ RemoveFile(p)
      PROVE  Orderly'
  <2>1. PICK v \in {0, Cardinality(Paths) + clock + 1} : Change(p, v)
    BY <1>1 DEF WriteFile, RemoveFile
  <2>2. /\ disk' = [disk EXCEPT ![p] = v] /\ clock' = clock + 1
        /\ UNCHANGED <<seen, current, watcher, walked, content>>
    BY <2>1 DEF Change, jobVars
  <2>3. \A q \in Paths : disk'[q] = IF q = p THEN v ELSE disk[q]
    BY <2>2 DEF TypeOK, VaultType
  <2>. QED
    BY <2>2, <2>3 DEF Orderly
<1>2. CASE WatchStarts \/ Tick
  <2>1. /\ UNCHANGED <<disk, seen, clock, content>>
        /\ current' = [p \in Paths |-> 0] /\ walked' = {}
    BY <1>2 DEF WatchStarts, Tick, StartWalk, vaultVars, jobVars
  <2>. QED
    BY <2>1 DEF Orderly
<1>3. CASE FirstScanEnds
  BY <1>3 DEF FirstScanEnds, Orderly, vaultVars, jobVars
<1>4. CASE Compare
  BY <1>4 DEF Compare, Orderly, vaultVars, jobVars
<1>5. CASE ScanEnds
  BY <1>5 DEF ScanEnds, Orderly, vaultVars, jobVars
<1>6. CASE AddWatches
  BY <1>6 DEF AddWatches, Orderly, vaultVars, jobVars
<1>7. ASSUME NEW p \in Paths, WalkFile(p)
      PROVE  Orderly'
  <2>1. /\ UNCHANGED <<disk, seen, clock, content, watcher>>
        /\ current' = [current EXCEPT ![p] = disk[p]] /\ walked' = walked \cup {p}
    BY <1>7 DEF WalkFile, vaultVars, jobVars
  <2>2. \A q \in Paths : current'[q] = IF q = p THEN disk[p] ELSE current[q]
    BY <2>1 DEF TypeOK, WatchType
  <2>. QED
    BY <2>1, <2>2 DEF Orderly
<1>8. ASSUME NEW p \in Paths, Notice(p)
      PROVE  Orderly'
  <2>1. /\ UNCHANGED <<disk, current, clock, content, watcher, walked>>
        /\ watcher = "watch"
        /\ seen' = seen \/ seen' = [seen EXCEPT ![p] = disk[p]]
    BY <1>8 DEF Notice, vaultVars, jobVars
  <2>2. \A q \in Paths : seen'[q] = seen[q] \/ seen'[q] = disk[q]
    BY <2>1 DEF TypeOK, WatchType
  <2>. QED
    BY <2>1, <2>2 DEF Orderly
<1>9. ASSUME NEW p \in Paths, Cool(p) \/ ListFile(p) \/ PickFile(p)
      PROVE  elsewhere
  BY <1>9 DEF Cool, ListFile, PickFile, vaultVars, watchVars, jobVars
<1>10. ASSUME NEW e \in outbox, Emit(e)
       PROVE  elsewhere
  BY <1>10 DEF Emit, vaultVars, jobVars
<1>11. CASE FanOut \/ RequestReindex
  <2>1. elsewhere
    BY <1>11 DEF FanOut, RequestReindex, vaultVars, watchVars, jobVars
  <2>. QED
    BY <1>0, <2>1
<1>12. ASSUME NEW i \in 1 .. RetryCap, Retry(i)
       PROVE  elsewhere
  BY <1>12 DEF Retry, vaultVars, watchVars, jobVars
<1>13. CASE Startup \/ Listed \/ TakeReindex \/ TakeEvent \/ DeleteOld
            \/ IndexBatch \/ IndexFails
  <2>1. elsewhere
    BY <1>13 DEF Startup, BeginReindex, Listed, TakeReindex, TakeEvent, DeleteOld,
         IndexBatch, IndexFails, FileDone, vaultVars, watchVars
  <2>. QED
    BY <1>0, <2>1
<1>14. CASE ReadFile
  <2>1. /\ UNCHANGED <<disk, seen, current, clock, watcher, walked>>
        /\ content' = 0 \/ (content' = disk[path] /\ path \in Paths)
    BY <1>14 DEF ReadFile, FileDone, vaultVars, watchVars, TypeOK, JobType
  <2>. QED
    BY <2>1 DEF Orderly
<1>15. ASSUME NEW r \in Requesters, IngestBatch(r)
       PROVE  elsewhere
  BY <1>15 DEF IngestBatch, vaultVars, watchVars, jobVars
<1>16. ASSUME NEW r \in Requesters, NEW s \in AllSources, IngestBegins(r, s)
       PROVE  elsewhere
  BY <1>16 DEF IngestBegins, watchVars, jobVars
<1>17. CASE Restart
  <2>1. /\ UNCHANGED <<disk, clock>> /\ content' = 0 /\ walked' = {}
        /\ current' = [p \in Paths |-> 0] /\ seen' = [p \in Paths |-> 0]
    BY <1>17 DEF Restart, vaultVars
  <2>. QED
    BY <2>1 DEF Orderly
<1>18. CASE UNCHANGED vars
  <2>1. elsewhere
    BY <1>18 DEF vars, vaultVars, watchVars, jobVars
  <2>. QED
    BY <1>0, <2>1
<1>. QED
  BY <1>0, <1>1, <1>2, <1>3, <1>4, <1>5, <1>6, <1>7, <1>8, <1>9, <1>10, <1>11, <1>12,
     <1>13, <1>14, <1>15, <1>16, <1>17, <1>18 DEF Next, WatcherStep, IndexerStep

-----------------------------------------------------------------------------

LEMMA WalkingAtFirst == Init => Walking
BY DEF Init, Walking

LEMMA WalkingStep ==
    ASSUME TypeOK, Walking, [Next]_vars
    PROVE  Walking'
<1>. DEFINE still == /\ UNCHANGED <<watcher, walked, outbox, seen, current>>
                     /\ late' \subseteq late
<1>0. still => Walking'
  BY DEF Walking, Differences
<1>1. ASSUME NEW p \in Paths, WriteFile(p) \/ RemoveFile(p)
      PROVE  Walking'
  <2>1. PICK v : Change(p, v)
    BY <1>1 DEF WriteFile, RemoveFile
  <2>2. /\ late' = IF Noticed(p, v) THEN late \cup {p} ELSE late \ {p}
        /\ UNCHANGED <<watcher, walked, outbox, seen, current>>
    BY <2>1 DEF Change
  <2>3. Noticed(p, v) => watcher # "off" /\ (watcher = "first" => p \in walked)
    BY DEF Noticed
  <2>. QED
    BY <2>2, <2>3 DEF Walking, Differences
<1>2. CASE WatchStarts
  BY <1>2 DEF WatchStarts, StartWalk, Walking
<1>3. CASE Tick
  BY <1>3 DEF Tick, StartWalk, Walking
<1>4. CASE FirstScanEnds
  BY <1>4 DEF FirstScanEnds, Walking
<1>5. CASE Compare
  BY <1>5 DEF Compare, Walking, Differences
<1>6. CASE ScanEnds
  BY <1>6 DEF ScanEnds, Walking
<1>7. CASE AddWatches
  BY <1>7 DEF AddWatches, Walking
<1>8. ASSUME NEW p \in Paths, WalkFile(p)
      PROVE  Walking'
  BY <1>8 DEF WalkFile, Walking
<1>9. ASSUME NEW p \in Paths, Notice(p)
      PROVE  Walking'
  BY <1>9 DEF Notice, Walking
<1>10. ASSUME NEW e \in outbox, Emit(e)
       PROVE  Walking'
  BY <1>10 DEF Emit, Walking, Differences
<1>11. ASSUME NEW p \in Paths, Cool(p) \/ ListFile(p) \/ PickFile(p)
       PROVE  still
  BY <1>11 DEF Cool, ListFile, PickFile, watchVars
<1>12. CASE FanOut \/ RequestReindex
  <2>1. still
    BY <1>12 DEF FanOut, RequestReindex, watchVars
  <2>. QED
    BY <1>0, <2>1
<1>13. ASSUME NEW i \in 1 .. RetryCap, Retry(i)
       PROVE  still
  BY <1>13 DEF Retry, watchVars
<1>14. CASE Startup \/ Listed \/ TakeReindex \/ TakeEvent \/ ReadFile \/ DeleteOld
            \/ IndexBatch \/ IndexFails
  <2>1. still
    BY <1>14 DEF Startup, Listed, TakeReindex, TakeEvent, ReadFile, DeleteOld,
         IndexBatch, IndexFails, watchVars
  <2>. QED
    BY <1>0, <2>1
<1>15. ASSUME NEW r \in Requesters, IngestBatch(r)
       PROVE  still
  BY <1>15 DEF IngestBatch, watchVars
<1>16. ASSUME NEW r \in Requesters, NEW s \in AllSources, IngestBegins(r, s)
       PROVE  still
  BY <1>16 DEF IngestBegins, watchVars
<1>17. CASE Restart
  BY <1>17 DEF Restart, Walking
<1>18. CASE UNCHANGED vars
  <2>1. still
    BY <1>18 DEF vars, watchVars
  <2>. QED
    BY <1>0, <2>1
<1>. QED
  BY <1>0, <1>1, <1>2, <1>3, <1>4, <1>5, <1>6, <1>7, <1>8, <1>9, <1>10, <1>11, <1>12,
     <1>13, <1>14, <1>15, <1>16, <1>17, <1>18 DEF Next, WatcherStep, IndexerStep

-----------------------------------------------------------------------------

LEMMA ExcusesAtFirst == Init => Excuses
BY ConstantsType DEF Init, Excuses, Idle

LEMMA ExcusesStep ==
    ASSUME TypeOK, Excuses, [Next]_vars
    PROVE  Excuses'
<1>. DEFINE still == UNCHANGED <<retries, ingest>> /\ excused \subseteq excused'
<1>0. still => Excuses'
  BY DEF Excuses
<1>1. ASSUME NEW p \in Paths, WriteFile(p) \/ RemoveFile(p)
      PROVE  Excuses'
  <2>1. PICK v : Change(p, v)
    BY <1>1 DEF WriteFile, RemoveFile
  <2>2. /\ UNCHANGED <<retries, ingest>>
        /\ excused' = IF \/ \E i \in DOMAIN retries : retries[i].path = p
                         \/ \E r \in Requesters : ingest[r].source = p
                      THEN excused ELSE excused \ {p}
    BY <2>1 DEF Change, channelVars, requestVars
  <2>. QED
    BY <2>2 DEF Excuses
<1>2. CASE WatcherOnly
  <2>1. still
    BY <1>2 DEF WatcherOnly, WatchStarts, Tick, StartWalk, FirstScanEnds, Compare,
         ScanEnds, AddWatches, WalkFile, Cool, channelVars, requestVars
  <2>. QED
    BY <1>0, <2>1
<1>3. ASSUME NEW p \in Paths, Notice(p) \/ ListFile(p) \/ PickFile(p)
      PROVE  still
  BY <1>3 DEF Notice, ListFile, PickFile, channelVars, requestVars
<1>4. ASSUME NEW e \in outbox, Emit(e)
      PROVE  still
  BY <1>4 DEF Emit, requestVars
<1>5. CASE FanOut
  <2>1. /\ excused \subseteq excused' /\ ingest' = ingest
        /\ \/ retries' = retries
           \/ retries' = Append(retries, Head(raw)) /\ Head(raw).path \in excused'
    BY <1>5 DEF FanOut, requestVars
  <2>2. CASE retries' = retries
    BY <2>1, <2>2 DEF Excuses
  <2>3. CASE retries' = Append(retries, Head(raw)) /\ Head(raw).path \in excused'
    <3>1. retries \in Seq(Event)
      BY DEF TypeOK, ChannelType
    <3>2. \A i \in DOMAIN retries' : \/ i \in DOMAIN retries /\ retries'[i] = retries[i]
                                     \/ retries'[i] = Head(raw)
      BY <2>3, <3>1
    <3>. QED
      BY <2>1, <2>3, <3>2 DEF Excuses
  <2>. QED
    BY <2>1, <2>2, <2>3
<1>6. ASSUME NEW i \in 1 .. RetryCap, Retry(i)
      PROVE  Excuses'
  <2>1. /\ UNCHANGED <<excused, ingest>> /\ i \in DOMAIN retries
        /\ retries' = RemoveAt(retries, i)
    BY <1>6 DEF Retry, requestVars
  <2>2. retries \in Seq(Event)
    BY DEF TypeOK, ChannelType
  <2>3. \A j \in DOMAIN retries' : \E k \in DOMAIN retries : retries'[j] = retries[k]
    BY <2>1, <2>2, RemoveAtKeeps
  <2>. QED
    BY <2>1, <2>3 DEF Excuses
<1>7. CASE Startup \/ Listed \/ TakeReindex \/ TakeEvent \/ ReadFile \/ DeleteOld
           \/ IndexBatch \/ IndexFails \/ RequestReindex
  <2>1. still
    BY <1>7 DEF Startup, Listed, TakeReindex, TakeEvent, ReadFile, DeleteOld,
         IndexBatch, IndexFails, RequestReindex, channelVars, requestVars
  <2>. QED
    BY <1>0, <2>1
<1>8. ASSUME NEW r \in Requesters, IngestBatch(r)
      PROVE  Excuses'
  <2>1. /\ UNCHANGED <<excused, retries>>
        /\ \/ ingest' = [ingest EXCEPT ![r].batch = @ + 1]
           \/ ingest' = [ingest EXCEPT ![r] = Idle]
    BY <1>8 DEF IngestBatch, channelVars
  <2>2. \A q \in Requesters : ingest'[q].source \in {ingest[q].source, NoPath}
    <3>1. /\ ingest \in [Requesters -> [source : AllSources \cup {NoPath},
                                        content : Contents, batch : 0 .. MaxBatch]]
      BY DEF TypeOK, StoreType
    <3>2. CASE ingest' = [ingest EXCEPT ![r] = Idle]
      BY <3>1, <3>2 DEF Idle
    <3>3. CASE ingest' = [ingest EXCEPT ![r].batch = @ + 1]
      BY <3>1, <3>3
    <3>. QED
      BY <2>1, <3>2, <3>3
  <2>. QED
    BY <2>1, <2>2, ConstantsType DEF Excuses
<1>9. ASSUME NEW r \in Requesters, NEW s \in AllSources, IngestBegins(r, s)
      PROVE  Excuses'
  <2>1. /\ retries' = retries /\ excused' = excused \cup ({s} \cap Paths)
        /\ \E v : ingest' = [ingest EXCEPT ![r] = [source |-> s, content |-> v, batch |-> 1]]
    BY <1>9 DEF IngestBegins, channelVars
  <2>2. \A q \in Requesters : ingest'[q].source \in {ingest[q].source, s}
    BY <2>1 DEF TypeOK, StoreType
  <2>. QED
    BY <2>1, <2>2 DEF Excuses
<1>10. CASE Restart
  BY <1>10, ConstantsType DEF Restart, Excuses, Idle
<1>11. CASE UNCHANGED vars
  <2>1. still
    BY <1>11 DEF vars, channelVars, requestVars
  <2>. QED
    BY <1>0, <2>1
<1>. QED
  BY <1>0, <1>1, <1>2, <1>3, <1>4, <1>5, <1>6, <1>7, <1>8, <1>9, <1>10, <1>11
     DEF Next, WatcherStep, IndexerStep, WatcherOnly

-----------------------------------------------------------------------------

LEMMA ProgressAtFirst == Init => Progress
BY DEF Init, Progress

LEMMA ProgressStep ==
    ASSUME TypeOK, Orderly, Excuses, Progress, [Next]_vars
    PROVE  Progress'
<1>. USE ConstantsType
<1>. JobType /\ StoreType /\ VaultType
  BY DEF TypeOK
<1>. DEFINE still == /\ UNCHANGED <<doing, path, content, batch, disk, points>>
                     /\ excused \subseteq excused'
            away  == doing' \notin {"purge", "embed"}
<1>0. still \/ away => Progress'
  BY DEF Progress
<1>1. ASSUME NEW p \in Paths, WriteFile(p) \/ RemoveFile(p)
      PROVE  Progress'
  <2>1. PICK v \in {0, Cardinality(Paths) + clock + 1} : Change(p, v)
    BY <1>1 DEF WriteFile, RemoveFile
  <2>2. /\ disk' = [disk EXCEPT ![p] = v]
        /\ UNCHANGED <<doing, path, content, batch, points>>
        /\ excused \ {p} \subseteq excused'
    BY <2>1 DEF Change, jobVars, storeVars
  <2>3. CASE path = p
    <3>1. disk'[p] = v
      BY <2>2 DEF VaultType
    <3>2. doing = "embed" => content # v
      BY ContentsAreNumbers DEF Progress, Orderly
    <3>. QED
      BY <2>2, <2>3, <3>1, <3>2 DEF Progress
  <2>4. CASE path # p
    <3>1. disk'[path] = disk[path]
      BY <2>2, <2>4 DEF VaultType
    <3>. QED
      BY <2>2, <2>4, <3>1 DEF Progress
  <2>. QED
    BY <2>3, <2>4
<1>2. CASE WatcherOnly
  <2>1. still
    BY <1>2 DEF WatcherOnly, WatchStarts, Tick, StartWalk, FirstScanEnds, Compare,
         ScanEnds, AddWatches, WalkFile, Cool, jobVars, storeVars, vaultVars
  <2>. QED
    BY <1>0, <2>1
<1>3. ASSUME NEW p \in Paths, Notice(p) \/ ListFile(p)
      PROVE  still
  BY <1>3 DEF Notice, ListFile, jobVars, storeVars, vaultVars
<1>4. ASSUME NEW e \in outbox, Emit(e)
      PROVE  still
  BY <1>4 DEF Emit, jobVars, storeVars, vaultVars
<1>5. CASE FanOut \/ RequestReindex
  <2>1. still
    BY <1>5 DEF FanOut, RequestReindex, jobVars, storeVars, vaultVars
  <2>. QED
    BY <1>0, <2>1
<1>6. ASSUME NEW i \in 1 .. RetryCap, Retry(i)
      PROVE  still
  BY <1>6 DEF Retry, jobVars, storeVars, vaultVars
<1>7. CASE Startup \/ Listed \/ TakeReindex \/ TakeEvent \/ IndexFails
  <2>1. away
    BY <1>7 DEF Startup, BeginReindex, Listed, TakeReindex, TakeEvent, IndexFails, FileDone
  <2>. QED
    BY <1>0, <2>1
<1>8. ASSUME NEW p \in Paths, PickFile(p)
      PROVE  away
  BY <1>8 DEF PickFile
<1>9. CASE ReadFile
  <2>1. away \/ (doing' = "purge" /\ content' # 0)
    BY <1>9 DEF ReadFile, FileDone
  <2>. QED
    BY <1>0, <2>1 DEF Progress
<1>10. CASE DeleteOld
  <2>1. \/ away
        \/ doing' = "embed" /\ batch' = 1 /\ UNCHANGED <<path, content>>
    BY <1>10 DEF DeleteOld, FileDone
  <2>2. CASE doing' = "embed" /\ batch' = 1 /\ UNCHANGED <<path, content>>
    <3>1. content # 0
      BY <1>10 DEF DeleteOld, Progress
    <3>2. path \notin excused' => points'[path] = Empty
      BY <1>10 DEF DeleteOld
    <3>3. \A b \in 1 .. MaxBatch : Empty[b] = IF b < 1 THEN content ELSE 0
      BY DEF Empty
    <3>. QED
      BY <2>2, <3>1, <3>2, <3>3 DEF Progress
  <2>. QED
    BY <1>0, <2>1, <2>2
<1>11. CASE IndexBatch
  <2>1. doing = "embed" /\ path \in Paths /\ batch \in 1 .. Batches[content]
        /\ content \in Contents
    BY <1>11 DEF IndexBatch, JobType
  <2>2. /\ points' = [points EXCEPT ![path][batch] = content]
        /\ UNCHANGED <<disk, excused>>
    BY <1>11 DEF IndexBatch, vaultVars
  <2>3. \/ away
        \/ doing' = "embed" /\ batch' = batch + 1 /\ UNCHANGED <<path, content>>
    BY <1>11, <2>1 DEF IndexBatch, FileDone
  <2>4. CASE doing' = "embed" /\ batch' = batch + 1 /\ UNCHANGED <<path, content>>
    <3>1. content # 0
      BY <2>1 DEF Progress
    <3>2. ASSUME content = disk[path], path \notin excused, NEW b \in 1 .. MaxBatch
          PROVE  points'[path][b] = IF b < batch + 1 THEN content ELSE 0
      <4>1. points[path][b] = IF b < batch THEN content ELSE 0
        BY <2>1, <3>2 DEF Progress
      <4>2. points'[path][b] = IF b = batch THEN content ELSE points[path][b]
        BY <2>1, <2>2 DEF StoreType
      <4>3. batch \in Int
        BY <2>1
      <4>. QED
        BY <4>1, <4>2, <4>3
    <3>. QED
      BY <2>2, <2>4, <3>1, <3>2 DEF Progress
  <2>. QED
    BY <1>0, <2>3, <2>4
<1>12. ASSUME NEW r \in Requesters, IngestBatch(r)
       PROVE  Progress'
  <2>1. /\ UNCHANGED <<doing, path, content, batch, disk, excused>>
        /\ \/ points' = points
           \/ points' = [points EXCEPT ![ingest[r].source][ingest[r].batch] = ingest[r].content]
    BY <1>12 DEF IngestBatch, jobVars, vaultVars
  <2>2. doing = "embed" /\ path \notin excused => points'[path] = points[path]
    <3>1. doing = "embed" => path \in Paths
      BY DEF JobType
    <3>2. path \in Paths /\ path \notin excused => path # ingest[r].source
      BY DEF Excuses
    <3>. QED
      BY <2>1, <3>1, <3>2 DEF StoreType
  <2>. QED
    BY <2>1, <2>2 DEF Progress
<1>13. ASSUME NEW r \in Requesters, NEW s \in AllSources, IngestBegins(r, s)
       PROVE  Progress'
  <2>1. /\ UNCHANGED <<doing, path, content, batch, disk>>
        /\ excused' = excused \cup ({s} \cap Paths)
        /\ points' = points \/ points' = [points EXCEPT ![s] = Empty]
    BY <1>13 DEF IngestBegins, Purge, jobVars
  <2>2. doing = "embed" /\ path \notin excused' => points'[path] = points[path]
    <3>1. doing = "embed" => path \in Paths
      BY DEF JobType
    <3>. QED
      BY <2>1, <3>1 DEF StoreType
  <2>. QED
    BY <2>1, <2>2 DEF Progress
<1>14. CASE Restart
  <2>1. away
    BY <1>14 DEF Restart
  <2>. QED
    BY <1>0, <2>1
<1>15. CASE UNCHANGED vars
  <2>1. still
    BY <1>15 DEF vars, jobVars, storeVars, vaultVars
  <2>. QED
    BY <1>0, <2>1
<1>. QED
  BY <1>0, <1>1, <1>2, <1>3, <1>4, <1>5, <1>6, <1>7, <1>8, <1>9, <1>10, <1>11, <1>12,
     <1>13, <1>14, <1>15 DEF Next, WatcherStep, IndexerStep, WatcherOnly

LEMMA BookkeepingStep ==
    TypeOK /\ Bookkeeping /\ [Next]_vars => Bookkeeping'
BY OrderlyStep, WalkingStep, ExcusesStep, ProgressStep DEF Bookkeeping

-----------------------------------------------------------------------------
(* The indexer and the requests: the events stay, and p stays settled. *)

LEMMA CoveredBySettling ==
    ASSUME NEW p \in Paths, Covered(p),
           UNCHANGED <<disk, watcher, walked, current, seen, outbox, notes, raw, idx, late>>,
           excused \subseteq excused',
           Owed(p)' /\ Settled(p) => Settled(p)'
    PROVE  Covered(p)'
<1>1. Owed(p)' => Owed(p)
  BY DEF Owed, LastSeen
<1>2. (Unsent(p) <=> Unsent(p)') /\ (Told(p) <=> Told(p)')
  BY DEF Unsent, Told, ActionFor
<1>3. Silent(p) /\ Settled(p)' => Silent(p)'
  BY DEF Silent
<1>4. Silent(p) => Settled(p)
  BY DEF Silent
<1>. QED
  BY <1>1, <1>2, <1>3, <1>4 DEF Covered

\* What these steps leave alone.
LEMMA IndexerTouches ==
    ASSUME \/ Startup \/ Listed \/ TakeReindex \/ ReadFile \/ DeleteOld \/ IndexBatch
           \/ IndexFails \/ RequestReindex
           \/ \E q \in Paths : ListFile(q) \/ PickFile(q)
           \/ \E r \in Requesters : IngestBatch(r) \/ \E s \in AllSources : IngestBegins(r, s)
    PROVE  /\ UNCHANGED <<disk, watcher, walked, current, seen, outbox, notes, raw, idx, late>>
           /\ excused \subseteq excused'
BY DEF Startup, Listed, TakeReindex, ReadFile, DeleteOld, IndexBatch, IndexFails,
   RequestReindex, ListFile, PickFile, IngestBatch, IngestBegins, vaultVars, watchVars,
   channelVars

\* A step of the indexer that indexes another file than p, or none.
LEMMA SettledElsewhere ==
    ASSUME TypeOK, NEW p \in Paths, Settled(p), path # p,
           UNCHANGED disk, points'[p] = points[p],
           doing' \in {"purge", "embed"} => path' # p
    PROVE  Settled(p)'
BY DEF Settled, Reflected

LEMMA SettledByRead ==
    ASSUME TypeOK, NEW p \in Paths, ReadFile, Settled(p)
    PROVE  Settled(p)'
<1>1. doing = "read" /\ UNCHANGED <<disk, points>>
  BY DEF ReadFile, vaultVars, storeVars
<1>2. CASE disk[path] # 0
  <2>1. content' = disk[path] /\ doing' = "purge" /\ path' = path
    BY <1>2 DEF ReadFile
  <2>2. CASE path = p
    BY <1>1, <2>1, <2>2 DEF Settled
  <2>3. CASE path # p
    BY <1>1, <2>1, <2>3 DEF Settled, Reflected
  <2>. QED
    BY <2>2, <2>3
<1>3. CASE disk[path] = 0
  <2>1. doing' \notin {"purge", "embed"}
    BY <1>3 DEF ReadFile, FileDone
  <2>2. Reflected(p)
    BY <1>1, <1>3 DEF Settled
  <2>. QED
    BY <1>1, <2>1, <2>2 DEF Settled, Reflected
<1>. QED
  BY <1>2, <1>3

LEMMA SettledByDelete ==
    ASSUME TypeOK, NEW p \in Paths, DeleteOld, p \notin excused', Settled(p)
    PROVE  Settled(p)'
<1>. USE ConstantsType
<1>1. /\ doing = "purge" /\ disk' = disk
      /\ points' = points \/ points' = [points EXCEPT ![path] = Empty]
      /\ path \in excused' \/ points'[path] = Empty
      /\ \/ doing' = "embed" /\ UNCHANGED <<path, content>>
         \/ Batches[content] = 0 /\ doing' \notin {"purge", "embed"} /\ path' = NoPath
  BY DEF DeleteOld, Purge, FileDone, vaultVars
<1>2. CASE path = p
  <2>1. content = disk[p]
    BY <1>1, <1>2 DEF Settled
  <2>2. CASE doing' = "embed" /\ UNCHANGED <<path, content>>
    BY <1>1, <1>2, <2>1, <2>2 DEF Settled
  <2>3. CASE Batches[content] = 0 /\ doing' \notin {"purge", "embed"}
    <3>1. Whole(content) = Empty
      BY <2>3 DEF Whole, Empty
    <3>. QED
      BY <1>1, <1>2, <2>1, <2>3, <3>1 DEF Settled, Reflected, Whole
  <2>. QED
    BY <1>1, <2>2, <2>3
<1>3. CASE path # p
  <2>1. points'[p] = points[p]
    BY <1>1, <1>3 DEF TypeOK, StoreType
  <2>. QED
    BY <1>1, <1>3, <2>1, SettledElsewhere
<1>. QED
  BY <1>2, <1>3

LEMMA SettledByBatch ==
    ASSUME TypeOK, Progress, NEW p \in Paths, IndexBatch, p \notin excused', Settled(p)
    PROVE  Settled(p)'
<1>. USE ConstantsType
<1>. StoreType /\ JobType
  BY DEF TypeOK
<1>1. /\ doing = "embed" /\ UNCHANGED <<disk, excused>>
      /\ points' = [points EXCEPT ![path][batch] = content]
      /\ \/ doing' = "embed" /\ UNCHANGED <<path, content>>
         \/ ~(batch < Batches[content]) /\ doing' \notin {"purge", "embed"} /\ path' = NoPath
  BY DEF IndexBatch, FileDone, vaultVars
<1>2. path \in Paths /\ batch \in 1 .. Batches[content] /\ content \in Contents
      /\ Batches[content] \in 0 .. MaxBatch
  BY <1>1 DEF JobType
<1>3. CASE path = p
  <2>1. content = disk[p]
    BY <1>1, <1>3 DEF Settled
  <2>2. CASE doing' = "embed" /\ UNCHANGED <<path, content>>
    BY <1>1, <1>3, <2>1, <2>2 DEF Settled
  <2>3. CASE ~(batch < Batches[content]) /\ doing' \notin {"purge", "embed"}
    <3>1. batch = Batches[content]
      BY <1>2, <2>3
    <3>2. ASSUME NEW b \in 1 .. MaxBatch
          PROVE  points'[p][b] = Whole(content)[b]
      <4>1. points[p][b] = IF b < batch THEN content ELSE 0
        BY <1>1, <1>3, <2>1 DEF Progress
      <4>2. points'[p][b] = IF b = batch THEN content ELSE points[p][b]
        BY <1>1, <1>2, <1>3 DEF StoreType
      <4>3. Whole(content)[b] = IF b <= batch THEN content ELSE 0
        BY <3>1 DEF Whole
      <4>. QED
        BY <1>2, <4>1, <4>2, <4>3
    <3>3. points'[p] \in [1 .. MaxBatch -> Contents]
      BY <1>1, <1>2, <1>3 DEF StoreType
    <3>4. Whole(content) = [b \in 1 .. MaxBatch |-> Whole(content)[b]]
      BY DEF Whole
    <3>5. points'[p] = Whole(content)
      BY <3>2, <3>3, <3>4
    <3>. QED
      BY <1>1, <2>1, <2>3, <3>5 DEF Settled, Reflected, Whole
  <2>. QED
    BY <1>1, <2>2, <2>3
<1>4. CASE path # p
  <2>1. points'[p] = points[p]
    BY <1>1, <1>2, <1>4 DEF StoreType
  <2>. QED
    BY <1>1, <1>4, <2>1, SettledElsewhere
<1>. QED
  BY <1>3, <1>4

LEMMA CoveredByIndexer ==
    ASSUME TypeOK, Bookkeeping, NEW p \in Paths, Covered(p),
           \/ Startup \/ Listed \/ TakeReindex \/ ReadFile \/ DeleteOld \/ IndexBatch
           \/ IndexFails \/ RequestReindex
           \/ \E q \in Paths : ListFile(q) \/ PickFile(q)
           \/ \E r \in Requesters : IngestBatch(r) \/ \E s \in AllSources : IngestBegins(r, s)
    PROVE  Covered(p)'
<1>. USE ConstantsType
<1>. JobType /\ StoreType
  BY DEF TypeOK
<1>. SUFFICES ASSUME p \notin excused', Settled(p) PROVE Settled(p)'
  BY IndexerTouches, CoveredBySettling DEF Owed
<1>1. UNCHANGED disk /\ p \notin excused
  BY IndexerTouches
<1>2. CASE Startup \/ Listed \/ TakeReindex
  <2>1. /\ doing \notin {"read", "purge", "embed"} /\ doing' \notin {"purge", "embed"}
        /\ points' = points
    BY <1>2 DEF Startup, BeginReindex, Listed, TakeReindex, storeVars
  <2>. QED
    BY <1>1, <2>1 DEF Settled, Reflected
<1>3. CASE ReadFile
  BY <1>3, SettledByRead
<1>4. CASE DeleteOld
  BY <1>4, SettledByDelete
<1>5. CASE IndexBatch
  BY <1>5, SettledByBatch DEF Bookkeeping
<1>6. CASE IndexFails
  <2>1. path # p /\ path' # p /\ points' = points
    BY <1>6 DEF IndexFails, FileDone, storeVars
  <2>. QED
    BY <1>1, <2>1, SettledElsewhere
<1>7. CASE RequestReindex \/ \E q \in Paths : ListFile(q)
  <2>1. UNCHANGED <<doing, path, content, points>>
    BY <1>7 DEF RequestReindex, ListFile, jobVars, storeVars
  <2>. QED
    BY <1>1, <2>1 DEF Settled, Reflected
<1>8. CASE \E q \in Paths : PickFile(q)
  <2>1. doing = "pick" /\ doing' = "read" /\ points' = points
    BY <1>8 DEF PickFile, storeVars
  <2>. QED
    BY <1>1, <2>1 DEF Settled, Reflected
<1>9. ASSUME NEW r \in Requesters, IngestBatch(r)
      PROVE  Settled(p)'
  <2>1. /\ UNCHANGED <<doing, path, content>>
        /\ \/ points' = points
           \/ points' = [points EXCEPT ![ingest[r].source][ingest[r].batch] = ingest[r].content]
    BY <1>9 DEF IngestBatch, jobVars
  <2>2. ingest[r].source # p
    BY <1>1 DEF Bookkeeping, Excuses
  <2>3. points'[p] = points[p]
    BY <2>1, <2>2 DEF StoreType
  <2>. QED
    BY <1>1, <2>1, <2>3 DEF Settled, Reflected
<1>10. ASSUME NEW r \in Requesters, NEW s \in AllSources, IngestBegins(r, s)
       PROVE  Settled(p)'
  <2>1. /\ UNCHANGED <<doing, path, content>>
        /\ points' = points \/ points' = [points EXCEPT ![s] = Empty]
        /\ s # p
    BY <1>10 DEF IngestBegins, Purge, jobVars
  <2>2. points'[p] = points[p]
    BY <2>1 DEF StoreType
  <2>. QED
    BY <1>1, <2>1, <2>2 DEF Settled, Reflected
<1>. QED
  BY <1>2, <1>3, <1>4, <1>5, <1>6, <1>7, <1>8, <1>9, <1>10

-----------------------------------------------------------------------------
(* The watcher: the indexer's position and the points stay. *)

\* A step that sends nothing and sees nothing new of p.
LEMMA CoveredUnseen ==
    ASSUME NEW p \in Paths, Covered(p),
           UNCHANGED <<doing, path, content, raw, idx>>,
           disk'[p] = disk[p], points'[p] = points[p], LastSeen(p)' = LastSeen(p),
           {e \in outbox' : e.path = p} = {e \in outbox : e.path = p},
           p \in late' \ excused' => p \in late \ excused,
           Unsent(p) => Unsent(p)'
    PROVE  Covered(p)'
<1>1. Owed(p)' => Owed(p)
  BY DEF Owed
<1>2. Told(p) => Told(p)'
  BY DEF Told, ActionFor
<1>3. Silent(p) => Silent(p)'
  BY DEF Silent, Settled, Reflected
<1>. QED
  BY <1>1, <1>2, <1>3 DEF Covered

LEMMA CoveredByScan ==
    ASSUME TypeOK, Bookkeeping, NEW p \in Paths, Covered(p),
           WatchStarts \/ Tick \/ FirstScanEnds \/ ScanEnds \/ AddWatches
             \/ \E q \in Paths : Cool(q)
    PROVE  Covered(p)'
<1>1. /\ UNCHANGED <<doing, path, content, raw, idx, disk, points, outbox, late, excused, notes>>
  BY DEF WatchStarts, Tick, StartWalk, FirstScanEnds, ScanEnds, AddWatches, Cool,
     jobVars, channelVars, vaultVars, storeVars
<1>2. Unsent(p) => Unsent(p)'
  BY <1>1 DEF Unsent, WatchStarts, Tick, StartWalk, FirstScanEnds, ScanEnds, AddWatches, Cool
<1>3. LastSeen(p)' = LastSeen(p)
  <2>1. CASE WatchStarts \/ Tick
    BY <2>1 DEF WatchStarts, Tick, StartWalk, LastSeen
  <2>2. CASE FirstScanEnds
    BY <2>2 DEF FirstScanEnds, LastSeen
  <2>3. CASE ScanEnds
    BY <2>3 DEF ScanEnds, LastSeen, Bookkeeping, Walking
  <2>4. CASE AddWatches
    BY <2>4 DEF AddWatches, LastSeen
  <2>5. CASE \E q \in Paths : Cool(q)
    BY <2>5 DEF Cool, LastSeen
  <2>. QED
    BY <2>1, <2>2, <2>3, <2>4, <2>5
<1>. QED
  BY <1>1, <1>2, <1>3, CoveredUnseen

LEMMA CoveredByWalk ==
    ASSUME TypeOK, Bookkeeping, NEW p \in Paths, Covered(p), NEW q \in Paths, WalkFile(q)
    PROVE  Covered(p)'
<1>1. /\ UNCHANGED <<doing, path, content, raw, idx, disk, points, outbox, late, excused,
                     notes, watcher, seen>>
      /\ walked' = walked \cup {q} /\ q \notin walked /\ watcher \in {"first", "walk"}
      /\ current' = [current EXCEPT ![q] = disk[q]]
  BY DEF WalkFile, jobVars, channelVars, vaultVars, storeVars
<1>2. \A f \in Paths : current'[f] = IF f = q THEN disk[q] ELSE current[f]
  BY <1>1 DEF TypeOK, WatchType
<1>3. CASE p # q
  <2>1. LastSeen(p)' = LastSeen(p) /\ (Unsent(p) => Unsent(p)')
    BY <1>1, <1>2, <1>3 DEF LastSeen, Unsent
  <2>. QED
    BY <1>1, <2>1, CoveredUnseen
<1>4. CASE p = q /\ watcher = "first"
  <2>1. p \notin late'
    BY <1>1, <1>4 DEF Bookkeeping, Walking
  <2>. QED
    BY <2>1 DEF Covered, Owed
<1>5. CASE p = q /\ watcher = "walk" /\ disk[p] # seen[p]
  <2>1. Unsent(p)'
    BY <1>1, <1>2, <1>5 DEF Unsent
  <2>. QED
    BY <2>1 DEF Covered
<1>6. CASE p = q /\ watcher = "walk" /\ disk[p] = seen[p]
  <2>1. LastSeen(p)' = LastSeen(p) /\ (Unsent(p) => Unsent(p)')
    BY <1>1, <1>2, <1>6 DEF LastSeen, Unsent
  <2>. QED
    BY <1>1, <2>1, CoveredUnseen
<1>. QED
  BY <1>1, <1>3, <1>4, <1>5, <1>6

\* The comparison finds every file that is not what the watcher knew.
LEMMA CoveredByCompare ==
    ASSUME TypeOK, Bookkeeping, NEW p \in Paths, Covered(p), Compare
    PROVE  Covered(p)'
<1>1. /\ UNCHANGED <<doing, path, content, raw, idx, disk, points, late, excused, notes,
                     walked, current, seen>>
      /\ watcher = "walk" /\ walked = Paths /\ watcher' = "emit"
      /\ outbox' = Differences(seen, current) /\ outbox = {}
  BY DEF Compare, Bookkeeping, Walking, jobVars, channelVars, vaultVars, storeVars
<1>2. LastSeen(p)' = LastSeen(p) /\ LastSeen(p) = current[p]
  BY <1>1 DEF LastSeen
<1>3. CASE \E e \in outbox' : e.path = p
  BY <1>3 DEF Covered, Told
<1>4. CASE ~\E e \in outbox' : e.path = p
  <2>1. current[p] = seen[p]
    <3>1. Indexed(p).path = p /\ Deleted(p).path = p
      BY DEF Indexed, Deleted
    <3>2. ~(current[p] > seen[p]) /\ ~(seen[p] # 0 /\ current[p] = 0)
      BY <1>1, <1>4, <3>1 DEF Differences
    <3>3. current[p] = 0 \/ seen[p] <= current[p]
      BY <1>1 DEF Bookkeeping, Orderly
    <3>. QED
      BY <3>2, <3>3, ContentsAreNumbers
  <2>2. Unsent(p) => Unsent(p)'
    BY <1>1, <2>1 DEF Unsent
  <2>. QED
    BY <1>1, <1>2, <1>4, <2>2, CoveredUnseen
<1>. QED
  BY <1>3, <1>4

\* An event with what p is, at the end of rawEvents.
LEMMA CoveredByEvent ==
    ASSUME TypeOK, NEW p \in Paths, NEW e \in Event, e.path = p,
           raw' = Append(raw, e), Owed(p)' => e.action = ActionFor(p)'
    PROVE  Covered(p)'
<1>1. raw \in Seq(Event)
  BY DEF TypeOK, ChannelType
<1>2. Owed(p)' => LastIs(raw', p, ActionFor(p)')
  BY <1>1, AppendLast
<1>. QED
  BY <1>2 DEF Covered, Told

\* The end of rawEvents is of no concern to other files.
LEMMA CoveredBesideEvent ==
    ASSUME TypeOK, NEW p \in Paths, Covered(p), NEW e \in Event, e.path # p,
           raw' = Append(raw, e), UNCHANGED <<doing, path, content, idx, disk, points>>,
           LastSeen(p)' = LastSeen(p),
           {x \in outbox' : x.path = p} = {x \in outbox : x.path = p},
           p \in late' \ excused' => p \in late \ excused,
           Unsent(p) => Unsent(p)'
    PROVE  Covered(p)'
<1>1. raw \in Seq(Event)
  BY DEF TypeOK, ChannelType
<1>2. /\ Has(raw', p) <=> Has(raw, p)
      /\ LastIs(raw', p, ActionFor(p)) <=> LastIs(raw, p, ActionFor(p))
  BY <1>1, AppendHas, AppendLast
<1>3. Owed(p)' => Owed(p)
  BY DEF Owed
<1>4. Told(p) => Told(p)'
  BY <1>2 DEF Told, ActionFor
<1>5. Silent(p) => Silent(p)'
  BY <1>2 DEF Silent, Settled, Reflected
<1>. QED
  BY <1>3, <1>4, <1>5 DEF Covered

LEMMA CoveredByEmit ==
    ASSUME TypeOK, Bookkeeping, NEW p \in Paths, Covered(p), NEW e \in outbox, Emit(e)
    PROVE  Covered(p)'
<1>1. /\ UNCHANGED <<doing, path, content, idx, disk, points, late, excused, notes,
                     walked, current, seen, watcher>>
      /\ watcher = "emit" /\ raw' = Append(raw, e) /\ outbox' = outbox \ {e}
  BY DEF Emit, jobVars, vaultVars, storeVars
<1>2. e \in Event /\ e \in Differences(seen, current) /\ walked = Paths
  BY <1>1 DEF TypeOK, WatchType, Bookkeeping, Walking
<1>3. LastSeen(p)' = LastSeen(p) /\ LastSeen(p) = current[p] /\ (Unsent(p) => Unsent(p)')
  BY <1>1, <1>2 DEF LastSeen, Unsent
<1>4. CASE e.path = p
  <2>1. Owed(p)' => current[p] = disk[p]
    BY <1>1, <1>3 DEF Owed
  <2>2. \/ e.action = "index" /\ current[p] # 0
        \/ e.action = "delete" /\ current[p] = 0
    <3>1. CASE e \in {Indexed(f) : f \in {q \in Paths : current[q] > seen[q]}}
      <4>1. e.action = "index" /\ current[p] > seen[p]
        BY <1>4, <3>1 DEF Indexed
      <4>. QED
        BY <4>1, ContentsAreNumbers
    <3>2. CASE e \in {Deleted(f) : f \in {q \in Paths : seen[q] # 0 /\ current[q] = 0}}
      BY <1>4, <3>2 DEF Deleted
    <3>. QED
      BY <1>2, <3>1, <3>2 DEF Differences
  <2>3. Owed(p)' => e.action = ActionFor(p)'
    BY <1>1, <2>1, <2>2 DEF ActionFor
  <2>. QED
    BY <1>1, <1>2, <1>4, <2>3, CoveredByEvent
<1>5. CASE e.path # p
  <2>1. {x \in outbox' : x.path = p} = {x \in outbox : x.path = p}
    BY <1>1, <1>5
  <2>. QED
    BY <1>1, <1>2, <1>3, <1>5, <2>1, CoveredBesideEvent
<1>. QED
  BY <1>4, <1>5

LEMMA CoveredByNotice ==
    ASSUME TypeOK, Bookkeeping, NEW p \in Paths, Covered(p), NEW q \in Paths, Notice(q)
    PROVE  Covered(p)'
<1>. DEFINE changed == disk[q] = 0 \/ disk[q] > seen[q]
            dropped == q \in hot \/ (changed /\ Len(raw) = RawCap)
            e == IF disk[q] = 0 THEN Deleted(q) ELSE Indexed(q)
<1>1. /\ UNCHANGED <<doing, path, content, idx, disk, points, late, walked, current,
                     watcher, outbox>>
      /\ watcher = "watch" /\ notes' = notes \ {q}
      /\ seen' = IF q \in hot THEN seen ELSE [seen EXCEPT ![q] = disk[q]]
      /\ raw' = IF dropped \/ ~changed THEN raw ELSE Append(raw, e)
      /\ excused' = IF dropped THEN excused \cup {q} ELSE excused
  BY DEF Notice, jobVars, vaultVars, storeVars
<1>2. e \in Event /\ e.path = q /\ e.action = ActionFor(q)
  BY DEF Event, Deleted, Indexed, ActionFor
<1>3. \A f \in Paths : seen'[f] = IF f = q /\ q \notin hot THEN disk[q] ELSE seen[f]
  BY <1>1 DEF TypeOK, WatchType
<1>4. CASE p # q
  <2>1. LastSeen(p)' = LastSeen(p) /\ (Unsent(p) => Unsent(p)')
    BY <1>1, <1>3, <1>4 DEF LastSeen, Unsent
  <2>2. p \in late' \ excused' => p \in late \ excused
    BY <1>1
  <2>3. CASE raw' = raw
    BY <1>1, <2>1, <2>2, <2>3, CoveredUnseen
  <2>4. CASE raw' = Append(raw, e)
    <3>. HIDE DEF e
    <3>. QED
      BY <1>1, <1>2, <1>4, <2>1, <2>2, <2>4, CoveredBesideEvent
  <2>. QED
    BY <1>1, <2>3, <2>4
<1>5. CASE p = q /\ dropped
  BY <1>1, <1>5 DEF Covered, Owed
<1>6. CASE p = q /\ ~dropped /\ changed
  <2>1. ActionFor(p)' = ActionFor(p)
    BY <1>1 DEF ActionFor
  <2>2. raw' = Append(raw, e)
    BY <1>1, <1>6
  <2>. HIDE DEF e, dropped, changed
  <2>. QED
    BY <1>2, <1>6, <2>1, <2>2, CoveredByEvent
<1>7. CASE p = q /\ ~dropped /\ ~changed
  <2>1. seen[p] = disk[p] /\ disk[p] # 0
    BY <1>7, ContentsAreNumbers DEF Bookkeeping, Orderly
  <2>2. LastSeen(p)' = LastSeen(p) /\ ~Unsent(p)
    BY <1>1, <1>3, <1>7, <2>1 DEF LastSeen, Unsent
  <2>3. raw' = raw /\ excused' = excused
    BY <1>1, <1>7
  <2>. QED
    BY <1>1, <2>2, <2>3, CoveredUnseen
<1>. QED
  BY <1>4, <1>5, <1>6, <1>7

-----------------------------------------------------------------------------
(* The files, the channels, and the theorem. *)

\* A change the watcher will notice is one it has not seen.
LEMMA CoveredByChange ==
    ASSUME TypeOK, Bookkeeping, NEW p \in Paths, Covered(p), NEW q \in Paths,
           WriteFile(q) \/ RemoveFile(q)
    PROVE  Covered(p)'
<1>1. PICK v \in {0, Cardinality(Paths) + clock + 1} : Change(q, v)
  BY DEF WriteFile, RemoveFile
<1>2. /\ UNCHANGED <<doing, path, content, raw, idx, points, outbox, walked, current, seen,
                     watcher>>
      /\ disk' = [disk EXCEPT ![q] = v] /\ disk[q] # v
      /\ notes' = IF watcher = "watch" THEN notes \cup {Root[q]} ELSE notes
      /\ late' = IF Noticed(q, v) THEN late \cup {q} ELSE late \ {q}
      /\ excused \ {q} \subseteq excused'
  BY <1>1 DEF Change, jobVars, channelVars, storeVars
<1>3. \A f \in Paths : disk'[f] = IF f = q THEN v ELSE disk[f]
  BY <1>2 DEF TypeOK, VaultType
<1>4. LastSeen(p)' = LastSeen(p)
  BY <1>2 DEF LastSeen
<1>5. CASE p # q
  <2>1. Unsent(p) => Unsent(p)'
    BY <1>2, <1>3, <1>5 DEF Unsent
  <2>2. p \in late' \ excused' => p \in late \ excused
    BY <1>2, <1>5
  <2>. QED
    BY <1>2, <1>3, <1>4, <1>5, <2>1, <2>2, CoveredUnseen
<1>6. CASE p = q
  <2>. SUFFICES ASSUME Owed(p)' PROVE Unsent(p)'
    BY DEF Covered
  <2>1. Noticed(p, v) /\ LastSeen(p) = v
    BY <1>2, <1>3, <1>4, <1>6 DEF Owed
  <2>2. v = 0
    <3>1. LastSeen(p) <= Cardinality(Paths) + clock
      BY DEF LastSeen, Bookkeeping, Orderly
    <3>. QED
      BY <2>1, <3>1, ContentsAreNumbers
  <2>3. watcher = "watch" /\ Root[p] = p
    BY <2>1, <2>2 DEF Noticed
  <2>. QED
    BY <1>2, <1>3, <1>6, <2>2, <2>3 DEF Unsent
<1>. QED
  BY <1>5, <1>6

\* The fan-out keeps the order, or excuses the file whose event waits.
LEMMA CoveredByFanOut ==
    ASSUME TypeOK, NEW p \in Paths, Covered(p), FanOut
    PROVE  Covered(p)'
<1>. DEFINE e == Head(raw)
<1>1. /\ UNCHANGED <<disk, watcher, walked, current, seen, outbox, notes, late,
                     doing, path, content, points>>
      /\ raw # <<>> /\ raw' = Tail(raw) /\ excused \subseteq excused'
      /\ \/ idx' = Append(idx, e)
         \/ idx' = idx /\ e.path \in excused'
  BY DEF FanOut, jobVars, vaultVars, watchVars, storeVars
<1>2. raw \in Seq(Event) /\ idx \in Seq(Event) /\ e \in Event
  BY <1>1 DEF TypeOK, ChannelType
<1>. HIDE DEF e
<1>3. Owed(p)' => Owed(p)
  BY <1>1 DEF Owed, LastSeen
<1>4. Unsent(p) => Unsent(p)'
  BY <1>1 DEF Unsent
<1>5. ActionFor(p)' = ActionFor(p)
  BY <1>1 DEF ActionFor
<1>. DEFINE a == ActionFor(p)
<1>6. /\ Has(raw, p) <=> e.path = p \/ Has(raw', p)
      /\ LastIs(raw, p, a) <=> \/ LastIs(raw', p, a)
                               \/ e.path = p /\ e.action = a /\ ~Has(raw', p)
  BY <1>1, <1>2, TailHas, TailLast DEF e
<1>7. CASE idx' = Append(idx, e)
  <2>1. /\ Has(idx', p) <=> Has(idx, p) \/ e.path = p
        /\ LastIs(idx', p, a) <=> IF e.path = p THEN e.action = a ELSE LastIs(idx, p, a)
    BY <1>2, <1>7, AppendHas, AppendLast
  <2>. HIDE DEF a
  <2>2. Told(p) => Told(p)'
    BY <1>1, <1>5, <1>6, <2>1 DEF Told, a
  <2>3. Silent(p) => Silent(p)'
    BY <1>1, <1>6, <2>1 DEF Silent, Settled, Reflected
  <2>. QED
    BY <1>3, <1>4, <2>2, <2>3 DEF Covered
<1>8. CASE idx' = idx /\ e.path \in excused'
  <2>. SUFFICES ASSUME Owed(p)' PROVE Unsent(p)' \/ Told(p)' \/ Silent(p)'
    BY DEF Covered
  <2>1. e.path # p
    BY <1>8 DEF Owed
  <2>. HIDE DEF a
  <2>2. Told(p) => Told(p)'
    BY <1>1, <1>5, <1>6, <1>8, <2>1 DEF Told, a
  <2>3. Silent(p) => Silent(p)'
    BY <1>1, <1>6, <1>8 DEF Silent, Settled, Reflected
  <2>. QED
    BY <1>3, <1>4, <2>2, <2>3 DEF Covered
<1>. QED
  BY <1>1, <1>7, <1>8

\* A late event is of a file that is excused.
LEMMA CoveredByRetry ==
    ASSUME TypeOK, Bookkeeping, NEW p \in Paths, Covered(p), NEW i \in 1 .. RetryCap, Retry(i)
    PROVE  Covered(p)'
<1>. DEFINE e == retries[i]
<1>1. /\ UNCHANGED <<disk, watcher, walked, current, seen, outbox, notes, late, excused,
                     raw, doing, path, content, points>>
      /\ i \in DOMAIN retries
      /\ idx' = Append(idx, e) \/ idx' = idx
  BY DEF Retry, jobVars, vaultVars, watchVars, storeVars
<1>2. idx \in Seq(Event) /\ e \in Event /\ e.path \in excused
  BY <1>1 DEF TypeOK, ChannelType, Bookkeeping, Excuses
<1>. HIDE DEF e
<1>. SUFFICES ASSUME Owed(p)' PROVE Unsent(p)' \/ Told(p)' \/ Silent(p)'
  BY DEF Covered
<1>3. e.path # p
  BY <1>1, <1>2 DEF Owed
<1>4. /\ Has(idx', p) <=> Has(idx, p)
      /\ LastIs(idx', p, ActionFor(p)) <=> LastIs(idx, p, ActionFor(p))
  <2>1. CASE idx' = Append(idx, e)
    <3>1. Has(Append(idx, e), p) <=> Has(idx, p)
      BY <1>2, <1>3, AppendHas
    <3>2. \A a : LastIs(Append(idx, e), p, a) <=> LastIs(idx, p, a)
      BY <1>2, <1>3, AppendLast
    <3>. QED
      BY <2>1, <3>1, <3>2
  <2>2. CASE idx' = idx
    BY <2>2
  <2>. QED
    BY <1>1, <2>1, <2>2
<1>5. Owed(p) /\ (Unsent(p) => Unsent(p)')
  BY <1>1 DEF Owed, LastSeen, Unsent
<1>6. Told(p) => Told(p)'
  BY <1>1, <1>4 DEF Told, ActionFor
<1>7. Silent(p) => Silent(p)'
  BY <1>1, <1>4 DEF Silent, Settled, Reflected
<1>. QED
  BY <1>5, <1>6, <1>7 DEF Covered

\* The last event of a file makes the indexer read it as it is, or empties it.
LEMMA CoveredByTake ==
    ASSUME TypeOK, NEW p \in Paths, Covered(p), TakeEvent
    PROVE  Covered(p)'
<1>. DEFINE e == Head(idx)
            a == ActionFor(p)
<1>1. /\ UNCHANGED <<disk, watcher, walked, current, seen, outbox, notes, late, raw>>
      /\ doing = "loop" /\ idx # <<>> /\ idx' = Tail(idx) /\ excused \subseteq excused'
      /\ \/ /\ e.action = "index" /\ points' = points
            /\ path' = e.path /\ doing' = "read"
         \/ /\ e.action = "delete" /\ doing' = "loop"
            /\ \/ points' = [points EXCEPT ![e.path] = Empty]
               \/ points' = points /\ e.path \in excused'
  BY DEF TakeEvent, vaultVars, watchVars, storeVars
<1>2. idx \in Seq(Event) /\ e \in Event
  BY <1>1 DEF TypeOK, ChannelType
<1>. HIDE DEF e
<1>3. /\ Has(idx, p) <=> e.path = p \/ Has(idx', p)
      /\ LastIs(idx, p, a) <=> \/ LastIs(idx', p, a)
                               \/ e.path = p /\ e.action = a /\ ~Has(idx', p)
  BY <1>1, <1>2, TailHas, TailLast DEF e
<1>4. ActionFor(p)' = a
  BY <1>1 DEF ActionFor
<1>5. doing' \notin {"purge", "embed"}
  BY <1>1
<1>. SUFFICES ASSUME Owed(p)' PROVE Unsent(p)' \/ Told(p)' \/ Silent(p)'
  BY DEF Covered
<1>6. Owed(p) /\ (Unsent(p) => Unsent(p)')
  BY <1>1 DEF Owed, LastSeen, Unsent
<1>7. CASE Told(p)
  <2>1. CASE Told(p)'
    BY <2>1
  <2>2. CASE ~Told(p)'
    <3>1. /\ \A x \in outbox' : x.path # p
          /\ ~Has(raw', p) /\ ~Has(idx', p) /\ e.path = p /\ e.action = a
      BY <1>1, <1>3, <1>4, <1>7, <2>2, Zenon DEF Told, a
    <3>2. Settled(p)'
      <4>1. CASE e.action = "index"
        <5>1. disk[p] # 0
          BY <3>1, <4>1 DEF ActionFor
        <5>. QED
          BY <1>1, <3>1, <4>1, <5>1 DEF Settled
      <4>2. CASE e.action = "delete"
        <5>1. disk'[p] = 0
          BY <1>1, <3>1, <4>2 DEF ActionFor
        <5>2. points'[p] = Empty
          BY <1>1, <3>1, <4>2, ConstantsType DEF Owed, TypeOK, StoreType
        <5>3. Whole(0) = Empty
          BY DEF Whole, Empty
        <5>. QED
          BY <1>5, <5>1, <5>2, <5>3 DEF Settled, Reflected, Whole
      <4>. QED
        BY <1>1, <4>1, <4>2
    <3>. QED
      BY <3>1, <3>2 DEF Silent
  <2>. QED
    BY <2>1, <2>2
<1>8. CASE Silent(p)
  <2>1. e.path # p /\ ~Has(idx', p)
    BY <1>3, <1>8 DEF Silent
  <2>2. points'[p] = points[p]
    BY <1>1, <2>1, ConstantsType DEF TypeOK, StoreType
  <2>3. Settled(p)'
    BY <1>1, <1>5, <1>8, <2>2 DEF Silent, Settled, Reflected
  <2>. QED
    BY <1>1, <1>8, <2>1, <2>3 DEF Silent
<1>. QED
  BY <1>6, <1>7, <1>8 DEF Covered

LEMMA AccountedAtFirst == Init => Accounted
BY DEF Init, Accounted, Covered, Owed

LEMMA AccountedStep ==
    ASSUME TypeOK, Bookkeeping, Accounted, [Next]_vars
    PROVE  Accounted'
<1>. SUFFICES ASSUME NEW p \in Paths PROVE Covered(p)'
  BY DEF Accounted
<1>1. Covered(p)
  BY DEF Accounted
<1>2. ASSUME NEW q \in Paths, WriteFile(q) \/ RemoveFile(q)
      PROVE  Covered(p)'
  BY <1>1, <1>2, CoveredByChange
<1>3. CASE WatchStarts \/ Tick \/ FirstScanEnds \/ ScanEnds \/ AddWatches
             \/ \E q \in Paths : Cool(q)
  BY <1>1, <1>3, CoveredByScan
<1>4. ASSUME NEW q \in Paths, WalkFile(q) PROVE Covered(p)'
  BY <1>1, <1>4, CoveredByWalk
<1>5. ASSUME NEW q \in Paths, Notice(q) PROVE Covered(p)'
  BY <1>1, <1>5, CoveredByNotice
<1>6. CASE Compare
  BY <1>1, <1>6, CoveredByCompare
<1>7. ASSUME NEW e \in outbox, Emit(e) PROVE Covered(p)'
  BY <1>1, <1>7, CoveredByEmit
<1>8. CASE FanOut
  BY <1>1, <1>8, CoveredByFanOut
<1>9. ASSUME NEW i \in 1 .. RetryCap, Retry(i) PROVE Covered(p)'
  BY <1>1, <1>9, CoveredByRetry
<1>10. CASE TakeEvent
  BY <1>1, <1>10, CoveredByTake
<1>11. CASE \/ Startup \/ Listed \/ TakeReindex \/ ReadFile \/ DeleteOld \/ IndexBatch
            \/ IndexFails \/ RequestReindex
            \/ \E q \in Paths : ListFile(q) \/ PickFile(q)
            \/ \E r \in Requesters : IngestBatch(r) \/ \E s \in AllSources : IngestBegins(r, s)
  BY <1>1, <1>11, CoveredByIndexer
<1>12. CASE Restart
  BY <1>12 DEF Restart, Covered, Owed
<1>13. CASE UNCHANGED vars
  BY <1>1, <1>13, CoveredUnseen
     DEF vars, vaultVars, watchVars, channelVars, jobVars, storeVars, LastSeen, Unsent
<1>. QED
  BY <1>2, <1>3, <1>4, <1>5, <1>6, <1>7, <1>8, <1>9, <1>10, <1>11, <1>12, <1>13
     DEF Next, WatcherStep, IndexerStep

LEMMA AccountedIsEnough == TypeOK /\ Accounted => NothingForgotten
<1>. SUFFICES ASSUME Accounted, NEW p \in Paths, p \in late \ excused, LastSeen(p) = disk[p]
              PROVE  Reflected(p) \/ Pending(p)
  BY DEF NothingForgotten, TypeOK, VaultType
<1>1. Unsent(p) \/ Told(p) \/ Silent(p)
  BY DEF Accounted, Covered, Owed
<1>2. Unsent(p) => Pending(p)
  BY DEF Unsent, Pending
<1>3. Told(p) => Pending(p)
  BY DEF Told, LastIs, Pending, Range
<1>4. Silent(p) => Reflected(p) \/ Pending(p)
  BY DEF Silent, Settled, Pending
<1>. QED
  BY <1>1, <1>2, <1>3, <1>4

\* For any files, channel capacities, numbers of requests, failures and
\* restarts: what the watcher takes a file for is stored, or an event or the
\* indexer is on its way to it.
THEOREM NothingIsForgotten == Spec => []NothingForgotten
<1>1. Init => Bookkeeping /\ Accounted
  BY OrderlyAtFirst, WalkingAtFirst, ExcusesAtFirst, ProgressAtFirst, AccountedAtFirst
     DEF Bookkeeping
<1>2. TypeOK /\ Bookkeeping /\ Accounted /\ [Next]_vars => (Bookkeeping /\ Accounted)'
  BY BookkeepingStep, AccountedStep
<1>. QED
  BY <1>1, <1>2, AccountedIsEnough, TypeCorrectness, PTL DEF Spec
=============================================================================

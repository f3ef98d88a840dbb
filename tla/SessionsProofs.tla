--------------------------- MODULE SessionsProofs ----------------------------
(***************************************************************************)
(* Theorems about Sessions, for any sessions, turns, batch sizes and       *)
(* bounds: the counters of the log agree with its turns, and a deleted     *)
(* session gets no gist.                                                   *)
(***************************************************************************)
EXTENDS Sessions, CollectionLemmas

Rows == {"none", "open", "archived", "purged"}

\* The log is a log: SessionsAddUp, and the types it rests on.
LogInv ==
    /\ row \in [Session -> Rows]
    /\ turns \in [Session -> Seq(Turn)]
    /\ count \in [Session -> Nat]
    /\ SessionsAddUp

\* A deleted session stays unreadable, and the worker is not about to write its
\* gist: it read the transcript of a session that was open then, and Delete
\* does not count the session it is about to write.
GistInv ==
    /\ DOMAIN gist = Session
    /\ \A s \in Session : gist[s] # None => DOMAIN gist[s] = {"turns", "status"}
    /\ DOMAIN sweep = {"pc", "batch", "seen"}
    /\ \A s \in gone : s \in Session /\ row[s] \in {"archived", "purged"}
    /\ sweep.pc = "write" => Head(sweep.batch) \notin gone

Inv == LogInv /\ GistInv

-----------------------------------------------------------------------------
(* The transactions of the log store.                                         *)

LEMMA LogUntouched ==
  ASSUME LogInv, UNCHANGED <<row, turns, count>>
  PROVE  LogInv'
  BY DEF LogInv, SessionsAddUp

LEMMA AppendKeepsLog ==
  ASSUME LogInv, NEW s, NEW t \in Turn, AppendTurn(s, t)
  PROVE  LogInv'
  <1>1. /\ turns' = [turns EXCEPT ![s] = Append(@, t)]
        /\ count' = [count EXCEPT ![s] = @ + 1]
        /\ row' = row /\ row[s] \in {"open", "archived"}
      BY DEF AppendTurn
  <1>2. turns' \in [Session -> Seq(Turn)] /\ count' \in [Session -> Nat]
      <2>1. turns \in [Session -> Seq(Turn)] /\ count \in [Session -> Nat]
          BY DEF LogInv
      <2>2. s \in Session => Append(turns[s], t) \in Seq(Turn) /\ count[s] + 1 \in Nat
          BY <2>1
      <2> QED  BY <1>1, <2>1, <2>2
  <1>3. ASSUME NEW r \in Session
        PROVE  /\ count'[r] = Len(turns'[r])
               /\ row'[r] \in {"none", "purged"} => turns'[r] = <<>>
      <2>1. turns[r] \in Seq(Turn) /\ count[r] \in Nat /\ count[r] = Len(turns[r])
            /\ (row[r] \in {"none", "purged"} => turns[r] = <<>>)
          BY DEF LogInv, SessionsAddUp
      <2>2. CASE r = s
          <3>1. turns'[r] = Append(turns[r], t) /\ count'[r] = count[r] + 1
              BY <1>1, <2>2 DEF LogInv
          <3>2. Len(Append(turns[r], t)) = Len(turns[r]) + 1
              BY <2>1
          <3> QED  BY <1>1, <2>1, <2>2, <3>1, <3>2
      <2>3. CASE r # s
          BY <1>1, <2>1, <2>3 DEF LogInv
      <2> QED  BY <2>2, <2>3
  <1> QED  BY <1>1, <1>2, <1>3 DEF LogInv, SessionsAddUp

LEMMA CreateKeepsLog ==
  ASSUME LogInv, NEW s \in Session, CreateSession(s)
  PROVE  LogInv'
  BY DEF LogInv, SessionsAddUp, CreateSession, Rows

LEMMA DeleteKeepsLog ==
  ASSUME LogInv, NEW s \in Session, DeleteSession(s)
  PROVE  LogInv'
  BY DEF LogInv, SessionsAddUp, DeleteSession, Rows

LEMMA PurgeKeepsLog ==
  ASSUME LogInv, DeleteSessionsByVault
  PROVE  LogInv'
  <1>1. /\ row' \in [Session -> Rows]
        /\ turns' = [s \in Session |-> <<>>] /\ count' = [s \in Session |-> 0]
      BY DEF DeleteSessionsByVault, LogInv, Rows
  <1> QED  BY <1>1 DEF LogInv, SessionsAddUp

LEMMA FinalizeKeepsLog ==
  ASSUME LogInv, NEW s, FinalizeSession(s)
  PROVE  LogInv'
  BY LogUntouched DEF FinalizeSession

LEMMA LogStep ==
  ASSUME LogInv, [Next]_vars
  PROVE  LogInv'
  <1>1. CASE UNCHANGED log
      BY <1>1, LogUntouched DEF log
  <1>2. ASSUME NEW s \in Session, CreateSession(s) \/ DeleteSession(s) \/ FinalizeSession(s)
        PROVE  LogInv'
      BY <1>2, CreateKeepsLog, DeleteKeepsLog, FinalizeKeepsLog
  <1>3. ASSUME NEW s, NEW t \in Turn, AppendTurn(s, t)
        PROVE  LogInv'
      BY <1>3, AppendKeepsLog
  <1>4. CASE DeleteSessionsByVault
      BY <1>4, PurgeKeepsLog
  <1>5. ASSUME NEW f \in Finalizer, MarkFinalized(f)
        PROVE  LogInv'
      BY <1>1, <1>5, FinalizeKeepsLog DEF MarkFinalized
  <1>6. ASSUME NEW s \in Session,
               \/ Create(s) \/ Delete(s) \/ FinalizeOverRest(s) \/ RejectGist(s)
               \/ \E how \in {"rest", "mcp", "batch"} : Open(s, how)
               \/ \E t \in Turn : Say(s, t)
               \/ \E f \in Finalizer : ReadSession(f, s)
        PROVE  LogInv'
      BY <1>1, <1>2, <1>3, <1>6 DEF Create, Delete, FinalizeOverRest, RejectGist, Open,
                                    Say, ReadSession
  <1>7. ASSUME NEW t \in Turn, InitialTurn(t) \/ BatchTurn(t)
        PROVE  LogInv'
      BY <1>1, <1>3, <1>7 DEF InitialTurn, BatchTurn
  <1>8. CASE Tick \/ BatchIngest \/ Sweep
      BY <1>1, <1>8 DEF Tick, BatchIngest, Sweep, StartSweep, ReadTranscript, NoGist,
                        WriteGist, EndSweep
  <1>9. ASSUME NEW j \in jobs, FindVault(j) \/ IngestTurn(j)
        PROVE  LogInv'
      BY <1>1, <1>9 DEF FindVault, IngestTurn
  <1>10. ASSUME NEW f \in Finalizer, WriteSummary(f) \/ WriteDecisions(f)
         PROVE  LogInv'
      BY <1>1, <1>10 DEF WriteSummary, WriteDecisions
  <1>11. CASE PurgeVault
      BY <1>4, <1>11 DEF PurgeVault
  <1>12. CASE UNCHANGED vars
      BY <1>1, <1>12 DEF vars
  <1> QED  BY <1>5, <1>6, <1>7, <1>8, <1>9, <1>10, <1>11, <1>12 DEF Next

-----------------------------------------------------------------------------
(* Gists.                                                                     *)

LEMMA GistsUntouched ==
  ASSUME GistInv, UNCHANGED <<gist, sweep, gone, row>>
  PROVE  GistInv'
  BY DEF GistInv

\* A row that is archived or purged never opens again.
LEMMA RowsOnlyClose ==
  ASSUME GistInv, UNCHANGED <<gist, sweep, gone>>,
         \A s \in gone : row'[s] = row[s] \/ row'[s] \in {"archived", "purged"}
  PROVE  GistInv'
  BY DEF GistInv

LEMMA CreateKeepsGists ==
  ASSUME LogInv, GistInv, NEW s \in Session, CreateSession(s), UNCHANGED <<gist, sweep, gone>>
  PROVE  GistInv'
  <1>1. \A r \in gone : row'[r] = row[r]
      BY DEF CreateSession, GistInv, LogInv
  <1> QED  BY <1>1, RowsOnlyClose

LEMMA DeleteKeepsGists ==
  ASSUME LogInv, GistInv, NEW s \in Session, Delete(s)
  PROVE  GistInv'
  <1>1. /\ row' = [row EXCEPT ![s] = "archived"] /\ UNCHANGED <<gist, sweep>>
        /\ gone' = gone \cup ({s} \ AboutToWrite)
      BY DEF Delete, DeleteSession
  <1>2. \A r \in gone' : r \in Session /\ row'[r] \in {"archived", "purged"}
      BY <1>1 DEF GistInv, LogInv
  <1>3. sweep.pc = "write" => Head(sweep.batch) \notin gone'
      BY <1>1 DEF GistInv, AboutToWrite
  <1> QED  BY <1>1, <1>2, <1>3 DEF GistInv

LEMMA PurgeKeepsGists ==
  ASSUME LogInv, GistInv, PurgeVault
  PROVE  GistInv'
  <1>1. /\ row' = [s \in Session |-> IF row[s] = "none" THEN "none" ELSE "purged"]
        /\ UNCHANGED <<gist, sweep>>
        /\ gone' = gone \cup ({s \in Session : row[s] # "none"} \ AboutToWrite)
      BY DEF PurgeVault, DeleteSessionsByVault
  <1>2. \A r \in gone' : r \in Session /\ row'[r] \in {"archived", "purged"}
      BY <1>1 DEF GistInv, LogInv
  <1>3. sweep.pc = "write" => Head(sweep.batch) \notin gone'
      BY <1>1 DEF GistInv, AboutToWrite
  <1> QED  BY <1>1, <1>2, <1>3 DEF GistInv

\* The worker reads the transcript of a session that is open.
LEMMA ReadKeepsGists ==
  ASSUME GistInv, ReadTranscript
  PROVE  GistInv'
  <1>1. UNCHANGED <<gist, gone, row>>
      BY DEF ReadTranscript, log
  <1>2. /\ DOMAIN sweep' = {"pc", "batch", "seen"}
        /\ sweep'.pc = "write" => Head(sweep'.batch) \notin gone'
      <2>1. CASE sweep' = Skipped
          BY <2>1 DEF Skipped
      <2>2. CASE /\ Readable(Head(sweep.batch))
                 /\ sweep' = [sweep EXCEPT !.pc = "write",
                                           !.seen = Len(turns[Head(sweep.batch)])]
          <3>1. DOMAIN sweep = {"pc", "batch", "seen"}
              BY DEF GistInv
          <3>2. DOMAIN sweep' = {"pc", "batch", "seen"} /\ sweep'.batch = sweep.batch
              BY <2>2, <3>1
          <3>3. Head(sweep.batch) \notin gone
              BY <2>2 DEF GistInv, Readable
          <3> QED  BY <1>1, <3>2, <3>3
      <2> QED  BY <2>1, <2>2 DEF ReadTranscript
  <1> QED  BY <1>1, <1>2 DEF GistInv

LEMMA SweepKeepsGists ==
  ASSUME GistInv, Sweep
  PROVE  GistInv'
  <1>1. CASE StartSweep
      <2>1. PICK b : sweep' = [pc |-> "read", batch |-> b, seen |-> 0]
          BY <1>1 DEF StartSweep
      <2> QED  BY <1>1, <2>1 DEF StartSweep, GistInv, log
  <1>2. CASE NoGist
      BY <1>2 DEF NoGist, Skipped, GistInv, log
  <1>3. CASE WriteGist
      <2>1. /\ gist' = [gist EXCEPT ![Head(sweep.batch)] =
                                     [turns |-> sweep.seen, status |-> "active"]]
            /\ sweep' = Skipped /\ UNCHANGED <<gone, row>>
          BY <1>3 DEF WriteGist, log
      <2>2. /\ DOMAIN gist' = Session
            /\ \A s \in Session : gist'[s] # None => DOMAIN gist'[s] = {"turns", "status"}
          BY <2>1 DEF GistInv
      <2> QED  BY <2>1, <2>2 DEF GistInv, Skipped
  <1>4. CASE EndSweep
      BY <1>4 DEF EndSweep, Asleep, GistInv, log
  <1> QED  BY <1>1, <1>2, <1>3, <1>4, ReadKeepsGists DEF Sweep

LEMMA GistStep ==
  ASSUME Inv, [Next]_vars
  PROVE  GistInv'
  <1>1. LogInv /\ GistInv
      BY DEF Inv
  <1>2. CASE UNCHANGED <<gist, sweep, gone, row>>
      BY <1>1, <1>2, GistsUntouched
  <1>3. ASSUME NEW s \in Session, Create(s) \/ \E how \in {"rest", "mcp", "batch"} : Open(s, how)
        PROVE  GistInv'
      BY <1>1, <1>3, CreateKeepsGists DEF Create, Open
  <1>4. ASSUME NEW s \in Session, RejectGist(s)
        PROVE  GistInv'
      <2>1. /\ gist[s] # None /\ gist' = [gist EXCEPT ![s].status = "archived"]
            /\ UNCHANGED <<sweep, gone, row>>
          BY <1>4 DEF RejectGist, log
      <2>2. /\ DOMAIN gist' = Session
            /\ \A r \in Session : gist'[r] # None => DOMAIN gist'[r] = {"turns", "status"}
          BY <1>1, <2>1 DEF GistInv
      <2> QED  BY <1>1, <2>1, <2>2 DEF GistInv
  <1>5. ASSUME NEW s \in Session, NEW t \in Turn, Say(s, t)
        PROVE  GistInv'
      BY <1>2, <1>5 DEF Say, AppendTurn
  <1>6. ASSUME NEW t \in Turn, InitialTurn(t) \/ BatchTurn(t)
        PROVE  GistInv'
      BY <1>2, <1>6 DEF InitialTurn, BatchTurn, AppendTurn, log
  <1>7. ASSUME NEW s \in Session, NEW f \in Finalizer, ReadSession(f, s)
        PROVE  GistInv'
      BY <1>2, <1>7 DEF ReadSession, log
  <1>8. ASSUME NEW f \in Finalizer, WriteSummary(f) \/ WriteDecisions(f) \/ MarkFinalized(f)
        PROVE  GistInv'
      BY <1>2, <1>8 DEF FinalizeSession, WriteSummary, WriteDecisions, MarkFinalized, log
  <1>9. ASSUME NEW s \in Session, FinalizeOverRest(s)
        PROVE  GistInv'
      BY <1>2, <1>9 DEF FinalizeOverRest, FinalizeSession
  <1>10. ASSUME NEW j \in jobs, FindVault(j) \/ IngestTurn(j)
         PROVE  GistInv'
      BY <1>2, <1>10 DEF FindVault, IngestTurn, log
  <1>11. CASE Tick \/ BatchIngest \/ UNCHANGED vars
      BY <1>2, <1>11 DEF Tick, BatchIngest, vars, log
  <1> QED  BY <1>1, <1>3, <1>4, <1>5, <1>6, <1>7, <1>8, <1>9, <1>10, <1>11,
              DeleteKeepsGists, PurgeKeepsGists, SweepKeepsGists DEF Next

-----------------------------------------------------------------------------
LEMMA InvAtFirst == Init => Inv
  BY DEF Init, Inv, LogInv, GistInv, SessionsAddUp, Rows, Asleep

LEMMA InvAlways == Spec => []Inv
  <1>1. Inv /\ [Next]_vars => Inv'
      BY LogStep, GistStep DEF Inv
  <1> QED  BY <1>1, InvAtFirst, PTL DEF Spec

\* The counter of a session is the number of its turns, and a session that was
\* never created or is purged has none (the transactions of logstore.go).
THEOREM SessionsAlwaysAddUp == Spec => []SessionsAddUp
  <1>1. Inv => SessionsAddUp
      BY DEF Inv, LogInv
  <1> QED  BY <1>1, InvAlways, PTL

\* A gist of a deleted session changes only by being rejected.
LEMMA WritesSpareDeleted ==
  ASSUME Inv, [Next]_vars, NEW s \in Session, s \in gone, gist'[s] # gist[s]
  PROVE  gist'[s].status = "archived"
  <1>1. GistInv
      BY DEF Inv
  <1>2. gist' # gist
      OBVIOUS
  <1>3. CASE WriteGist
      <2>1. Head(sweep.batch) # s
          BY <1>1, <1>3 DEF WriteGist, GistInv
      <2>2. gist'[s] = gist[s]
          BY <1>1, <1>3, <2>1 DEF WriteGist, GistInv
      <2> QED  BY <2>2
  <1>4. ASSUME NEW r \in Session, RejectGist(r)
        PROVE  gist'[s].status = "archived"
      <2>1. /\ gist[r] # None /\ gist' = [gist EXCEPT ![r].status = "archived"]
          BY <1>4 DEF RejectGist
      <2>2. r = s
          BY <1>1, <2>1 DEF GistInv
      <2> QED  BY <1>1, <2>1, <2>2 DEF GistInv
  <1>5. WriteGist \/ \E r \in Session : RejectGist(r)
      BY <1>2 DEF Next, vars, Tick, Create, Delete, FinalizeOverRest, Open, Say, ReadSession,
                  InitialTurn, BatchTurn, BatchIngest, PurgeVault, FindVault, IngestTurn,
                  WriteSummary, WriteDecisions, MarkFinalized, Sweep, StartSweep,
                  ReadTranscript, NoGist, EndSweep
  <1> QED  BY <1>3, <1>4, <1>5

\* A session deleted before the worker reads its transcript gets no gist
\* (Consolidator.consolidateVault).
THEOREM DeletedGetNoGist == Spec => NoGistOfDeleted
  <1> DEFINE Spared == \A s \in Session :
               gist'[s] # gist[s] /\ s \in gone => gist'[s].status = "archived"
  <1>1. Inv /\ [Next]_vars => [Spared]_vars
      BY WritesSpareDeleted
  <1> HIDE DEF Spared
  <1>2. Spec => [][Spared]_vars
      BY <1>1, InvAlways, PTL DEF Spec
  <1> QED  BY <1>2 DEF Spared, NoGistOfDeleted
-----------------------------------------------------------------------------
(* The types. TypeOK is its own inductive invariant, with the log's: a counter *)
(* is bounded because it is the length of a sequence whose lengths add up to   *)
(* no more than the bound.                                                     *)

LogTypes ==
    /\ parts \in Parts
    /\ row \in [Session -> Rows]
    /\ updated \in [Session -> 0 .. MaxTime]
    /\ finalized \in [Session -> BOOLEAN]
    /\ turns \in [Session -> Seq(Turn)]
    /\ clock \in 0 .. MaxTime
    /\ TurnsStored <= parts.turns

JobTypes ==
    /\ opening = None \/ opening \in [session : Session, how : {"rest", "mcp", "batch"}]
    /\ jobs \subseteq [session : Session, turn : 1 .. parts.turns, pc : {"find", "ingest"}]
    /\ chunks \subseteq Session \X (0 .. parts.turns)

FinTypes ==
    /\ fin \in [Finalizer -> [pc : {"idle", "summary", "decisions", "mark"},
                             session : Session \cup {None}, seen : Seq(Turn)]]
    /\ \A f \in Finalizer : /\ fin[f].pc # "idle" => fin[f].session # None
                            /\ Len(fin[f].seen) <= parts.turns
    /\ summary \in [Session -> 0 .. parts.turns \cup {None}]
    /\ decisions \subseteq Session \X (1 .. parts.turns)

SweepTypes ==
    /\ sweep \in [pc : {"off", "read", "write"}, batch : Seq(Session), seen : 0 .. parts.turns]
    /\ sweep.pc = "write" => sweep.batch # <<>>
    /\ gist \in [Session -> {None} \cup [turns : 0 .. parts.turns,
                                         status : {"active", "archived"}]]
    /\ gone \subseteq Session

Types == LogTypes /\ JobTypes /\ FinTypes /\ SweepTypes

LEMMA PartsTypes ==
  ASSUME parts \in Parts
  PROVE  parts.turns \in Nat
  BY SessionsAssumption

\* A session has no more turns than all of them together.
LEMMA TurnsBounded ==
  ASSUME LogTypes
  PROVE  TurnsStored \in Nat /\ \A s \in Session : Len(turns[s]) \in 0 .. parts.turns
  <1> DEFINE lens == [s \in Session |-> Len(turns[s])]
  <1>1. lens \in [Session -> Nat] /\ \A s \in Session : lens[s] = Len(turns[s])
      BY DEF LogTypes
  <1>2. IsFiniteSet(Session)
      BY SessionsAssumption
  <1>3. TurnsStored = SumFunction(lens)
      BY DEF TurnsStored
  <1> HIDE DEF lens
  <1>4. SumFunction(lens) \in Nat /\ \A s \in Session : lens[s] <= SumFunction(lens)
      BY <1>1, <1>2, SumBounds
  <1>5. parts.turns \in Nat /\ TurnsStored <= parts.turns
      BY PartsTypes DEF LogTypes
  <1>6. ASSUME NEW s \in Session
        PROVE  Len(turns[s]) \in 0 .. parts.turns
      <2>1. lens[s] \in Nat /\ lens[s] <= TurnsStored /\ TurnsStored \in Nat
          BY <1>1, <1>3, <1>4
      <2> QED  BY <1>1, <1>5, <2>1
  <1> QED  BY <1>3, <1>4, <1>6

LEMMA CountsBounded ==
  LogTypes /\ LogInv => count \in [Session -> 0 .. parts.turns]
  BY TurnsBounded DEF LogInv, SessionsAddUp

\* One more turn is one more turn stored; a purge leaves none.
LEMMA StoredAfterAppend ==
  ASSUME LogTypes, NEW s \in Session, NEW t \in Turn, turns' = [turns EXCEPT ![s] = Append(@, t)]
  PROVE  TurnsStored' = TurnsStored + 1
  <1> DEFINE f == [r \in Session |-> Len(turns[r])]
             g == [r \in Session |-> Len(turns'[r])]
  <1>1. turns \in [Session -> Seq(Turn)]
      BY DEF LogTypes
  <1>2. turns' \in [Session -> Seq(Turn)] /\ turns'[s] = Append(turns[s], t)
      BY <1>1
  <1>3. f \in [Session -> Int] /\ g \in [Session -> Int]
      BY <1>1, <1>2
  <1>4. \A r \in Session \ {s} : f[r] = g[r]
      BY <1>1
  <1>5. g[s] = f[s] + 1
      <2>1. Len(Append(turns[s], t)) = Len(turns[s]) + 1
          BY <1>1
      <2> QED  BY <1>2, <2>1
  <1>6. TurnsStored = SumFunction(f) /\ TurnsStored' = SumFunction(g)
      BY DEF TurnsStored
  <1>7. IsFiniteSet(Session)
      BY SessionsAssumption
  <1> HIDE DEF f, g
  <1>8. SumFunction(g) = SumFunction(f) + g[s] - f[s]
      BY <1>3, <1>4, <1>7, SumChange
  <1>9. SumFunction(f) \in Int /\ f[s] \in Int
      BY <1>3, <1>7, SumType
  <1> QED  BY <1>5, <1>6, <1>8, <1>9

LEMMA StoredAfterPurge ==
  ASSUME turns' = [s \in Session |-> <<>>]
  PROVE  TurnsStored' = 0
  <1>1. [s \in Session |-> Len(turns'[s])] = [s \in Session |-> 0]
      OBVIOUS
  <1>2. SumFunction([s \in Session |-> 0]) = 0
      BY SessionsAssumption, SumOfZeros
  <1> QED  BY <1>1, <1>2 DEF TurnsStored

-----------------------------------------------------------------------------
(* The log's types.                                                           *)

LEMMA LogTypesKept ==
  ASSUME LogTypes, UNCHANGED <<parts, turns>>, row' \in [Session -> Rows],
         updated' \in [Session -> 0 .. MaxTime], finalized' \in [Session -> BOOLEAN],
         clock' \in 0 .. MaxTime
  PROVE  LogTypes'
  BY DEF LogTypes, TurnsStored

LEMMA AppendKeepsTypes ==
  ASSUME LogTypes, LogInv, NEW s, NEW t \in Turn, AppendTurn(s, t), TurnsStored < parts.turns,
         clock' = clock
  PROVE  LogTypes'
  <1>1. /\ turns' = [turns EXCEPT ![s] = Append(@, t)] /\ updated' = [updated EXCEPT ![s] = clock]
        /\ UNCHANGED <<parts, row, finalized>>
      BY DEF AppendTurn
  <1>2. CASE s \in Session
      <2>1. TurnsStored' = TurnsStored + 1
          BY <1>1, <1>2, StoredAfterAppend
      <2>2. TurnsStored \in Nat /\ parts.turns \in Nat
          BY TurnsBounded, PartsTypes DEF LogTypes
      <2>3. TurnsStored' <= parts'.turns
          BY <1>1, <2>1, <2>2
      <2>4. turns' \in [Session -> Seq(Turn)] /\ updated' \in [Session -> 0 .. MaxTime]
          BY <1>1, <1>2 DEF LogTypes
      <2> QED  BY <1>1, <2>3, <2>4 DEF LogTypes
  <1>3. CASE s \notin Session
      <2>1. turns' = turns /\ updated' = updated
          BY <1>1, <1>3 DEF LogTypes
      <2> QED  BY <1>1, <2>1 DEF LogTypes, TurnsStored
  <1> QED  BY <1>2, <1>3

LEMMA CreateKeepsTypes ==
  ASSUME LogTypes, NEW s \in Session, CreateSession(s), clock' = clock
  PROVE  LogTypes'
  BY LogTypesKept DEF LogTypes, CreateSession, Rows

LEMMA DeleteKeepsTypes ==
  ASSUME LogTypes, NEW s \in Session, DeleteSession(s), clock' = clock
  PROVE  LogTypes'
  BY LogTypesKept DEF LogTypes, DeleteSession, Rows

LEMMA FinalizeKeepsTypes ==
  ASSUME LogTypes, NEW s, FinalizeSession(s), clock' = clock
  PROVE  LogTypes'
  BY LogTypesKept DEF LogTypes, FinalizeSession

LEMMA PurgeKeepsTypes ==
  ASSUME LogTypes, DeleteSessionsByVault, clock' = clock
  PROVE  LogTypes'
  <1>1. /\ row' = [s \in Session |-> IF row[s] = "none" THEN "none" ELSE "purged"]
        /\ turns' = [s \in Session |-> <<>>] /\ UNCHANGED <<parts, updated, finalized>>
      BY DEF DeleteSessionsByVault
  <1>2. TurnsStored' = 0 /\ parts.turns \in Nat
      BY <1>1, StoredAfterPurge, PartsTypes DEF LogTypes
  <1>3. row' \in [Session -> Rows] /\ turns' \in [Session -> Seq(Turn)]
      BY <1>1 DEF LogTypes, Rows
  <1> QED  BY <1>1, <1>2, <1>3 DEF LogTypes

LEMMA LogTypesStep ==
  ASSUME LogTypes, LogInv, [Next]_vars
  PROVE  LogTypes'
  <1>1. CASE UNCHANGED <<log, clock>>
      BY <1>1, LogTypesKept DEF log, LogTypes
  <1>2. ASSUME NEW s \in Session, CreateSession(s) \/ DeleteSession(s) \/ FinalizeSession(s),
               clock' = clock
        PROVE  LogTypes'
      BY <1>2, CreateKeepsTypes, DeleteKeepsTypes, FinalizeKeepsTypes
  <1>3. ASSUME NEW s, NEW t \in Turn, AppendTurn(s, t), TurnsStored < parts.turns,
               clock' = clock
        PROVE  LogTypes'
      BY <1>3, AppendKeepsTypes
  <1>4. ASSUME NEW f \in Finalizer, MarkFinalized(f)
        PROVE  LogTypes'
      BY <1>1, <1>4, FinalizeKeepsTypes DEF MarkFinalized
  <1>5. ASSUME NEW s \in Session,
               \/ Create(s) \/ Delete(s) \/ FinalizeOverRest(s) \/ RejectGist(s)
               \/ \E how \in {"rest", "mcp", "batch"} : Open(s, how)
               \/ \E t \in Turn : Say(s, t)
               \/ \E f \in Finalizer : ReadSession(f, s)
        PROVE  LogTypes'
      BY <1>1, <1>2, <1>3, <1>5 DEF Create, Delete, FinalizeOverRest, RejectGist, Open,
                                    Say, ReadSession
  <1>6. ASSUME NEW t \in Turn, InitialTurn(t) \/ BatchTurn(t)
        PROVE  LogTypes'
      BY <1>1, <1>3, <1>6 DEF InitialTurn, BatchTurn
  <1>7. CASE Tick
      <2>1. clock' \in 0 .. MaxTime
          BY <1>7, SessionsAssumption DEF Tick, LogTypes
      <2> QED  BY <1>7, <2>1, LogTypesKept DEF Tick, log, LogTypes
  <1>8. CASE BatchIngest \/ Sweep
      BY <1>1, <1>8 DEF BatchIngest, Sweep, StartSweep, ReadTranscript, NoGist, WriteGist,
                        EndSweep
  <1>9. ASSUME NEW j \in jobs, FindVault(j) \/ IngestTurn(j)
        PROVE  LogTypes'
      BY <1>1, <1>9 DEF FindVault, IngestTurn
  <1>10. ASSUME NEW f \in Finalizer, WriteSummary(f) \/ WriteDecisions(f)
         PROVE  LogTypes'
      BY <1>1, <1>10 DEF WriteSummary, WriteDecisions
  <1>11. CASE PurgeVault
      BY <1>11, PurgeKeepsTypes DEF PurgeVault
  <1>12. CASE UNCHANGED vars
      BY <1>1, <1>12 DEF vars
  <1> QED  BY <1>4, <1>5, <1>6, <1>7, <1>8, <1>9, <1>10, <1>11, <1>12 DEF Next
-----------------------------------------------------------------------------
(* The other types.                                                           *)

LEMMA PartsKept ==
  ASSUME [Next]_vars
  PROVE  parts' = parts
  BY DEF Next, vars, log, Tick, Create, CreateSession, Delete, DeleteSession,
         FinalizeOverRest, FinalizeSession, RejectGist, Open, Say, AppendTurn, ReadSession,
         InitialTurn, BatchTurn, BatchIngest, PurgeVault, DeleteSessionsByVault, FindVault,
         IngestTurn, WriteSummary, WriteDecisions, MarkFinalized, Sweep, StartSweep,
         ReadTranscript, NoGist, WriteGist, EndSweep

\* A turn just appended has a number within the bound.
LEMMA TurnNumber ==
  ASSUME LogTypes', LogInv', LogInv, NEW s \in Session, NEW t, AppendTurn(s, t)
  PROVE  count'[s] \in 1 .. parts'.turns
  <1>1. count'[s] \in 0 .. parts'.turns
      <2>1. (count \in [Session -> 0 .. parts.turns])'
          BY CountsBounded, PTL
      <2> QED  BY <2>1
  <1>2. count'[s] = count[s] + 1 /\ count[s] \in Nat
      BY DEF AppendTurn, LogInv
  <1> QED  BY <1>1, <1>2

LEMMA IndexJobTypes ==
  ASSUME NEW s \in Session, NEW n \in 1 .. parts.turns, NEW pc \in {"find", "ingest"}
  PROVE  IndexJob(s, n, pc) \subseteq
            [session : Session, turn : 1 .. parts.turns, pc : {"find", "ingest"}]
  BY DEF IndexJob

LEMMA JobTypesStep ==
  ASSUME LogTypes, LogInv, LogTypes', LogInv', JobTypes, [Next]_vars
  PROVE  JobTypes'
  <1>1. parts' = parts
      BY PartsKept
  <1>2. CASE UNCHANGED <<opening, jobs, chunks>>
      BY <1>1, <1>2 DEF JobTypes
  <1>3. ASSUME NEW s \in Session, NEW how \in {"rest", "mcp", "batch"}, Open(s, how)
        PROVE  JobTypes'
      BY <1>1, <1>3 DEF Open, JobTypes
  <1>4. ASSUME NEW s \in Session, NEW t \in Turn, AppendTurn(s, t),
               NEW pc \in {"find", "ingest"}, jobs' = jobs \cup IndexJob(s, count'[s], pc),
               opening' \in {opening, None}, chunks' = chunks
        PROVE  JobTypes'
      <2>1. count'[s] \in 1 .. parts.turns
          BY <1>1, <1>4, TurnNumber
      <2>2. IndexJob(s, count'[s], pc) \subseteq
               [session : Session, turn : 1 .. parts.turns, pc : {"find", "ingest"}]
          BY <2>1, IndexJobTypes
      <2> QED  BY <1>1, <1>4, <2>2 DEF JobTypes
  <1>5. ASSUME NEW s \in Session, NEW t \in Turn, Say(s, t)
        PROVE  JobTypes'
      BY <1>4, <1>5 DEF Say
  <1>6. ASSUME NEW t \in Turn, InitialTurn(t)
        PROVE  JobTypes'
      <2>1. opening.session \in Session /\ opening' = None /\ chunks' = chunks
          BY <1>6 DEF InitialTurn, JobTypes
      <2>2. CASE jobs' = jobs
          BY <1>1, <2>1, <2>2 DEF JobTypes
      <2>3. CASE /\ AppendTurn(opening.session, t)
                 /\ jobs' = jobs \cup IndexJob(opening.session, count'[opening.session],
                                      IF opening.how = "rest" THEN "ingest" ELSE "find")
          BY <1>4, <2>1, <2>3
      <2> QED  BY <1>6, <2>2, <2>3 DEF InitialTurn
  <1>7. ASSUME NEW t \in Turn, BatchTurn(t)
        PROVE  JobTypes'
      BY <1>2, <1>7 DEF BatchTurn
  <1>8. CASE BatchIngest
      <2>1. opening.session \in Session /\ parts.turns \in Nat
          BY <1>8, PartsTypes DEF BatchIngest, JobTypes, LogTypes
      <2>2. <<opening.session, 0>> \in Session \X (0 .. parts.turns)
          BY <2>1
      <2> QED  BY <1>1, <1>8, <2>2 DEF BatchIngest, JobTypes
  <1>9. ASSUME NEW j \in jobs, FindVault(j)
        PROVE  JobTypes'
      <2>1. [j EXCEPT !.pc = "ingest"] \in
               [session : Session, turn : 1 .. parts.turns, pc : {"find", "ingest"}]
          BY DEF JobTypes
      <2> QED  BY <1>1, <1>9, <2>1 DEF FindVault, JobTypes
  <1>10. ASSUME NEW j \in jobs, IngestTurn(j)
         PROVE  JobTypes'
      <2>1. j.session \in Session /\ j.turn \in 1 .. parts.turns
          BY DEF JobTypes
      <2>2. <<j.session, j.turn>> \in Session \X (0 .. parts.turns)
          BY <2>1
      <2> QED  BY <1>1, <1>10, <2>2 DEF IngestTurn, JobTypes
  <1>11. CASE PurgeVault
      BY <1>1, <1>11 DEF PurgeVault, JobTypes
  <1>12. ASSUME NEW s \in Session,
                \/ Create(s) \/ Delete(s) \/ FinalizeOverRest(s) \/ RejectGist(s)
                \/ \E f \in Finalizer : ReadSession(f, s)
         PROVE  JobTypes'
      BY <1>2, <1>12 DEF Create, Delete, FinalizeOverRest, RejectGist, ReadSession
  <1>13. CASE Tick \/ Sweep \/ UNCHANGED vars
      BY <1>2, <1>13 DEF Tick, Sweep, StartSweep, ReadTranscript, NoGist, WriteGist, EndSweep,
                         vars
  <1>14. ASSUME NEW f \in Finalizer, WriteSummary(f) \/ WriteDecisions(f) \/ MarkFinalized(f)
         PROVE  JobTypes'
      BY <1>2, <1>14 DEF WriteSummary, WriteDecisions, MarkFinalized
  <1> QED  BY <1>3, <1>5, <1>6, <1>7, <1>8, <1>9, <1>10, <1>11, <1>12, <1>13, <1>14 DEF Next

LEMMA FinTypesStep ==
  ASSUME LogTypes, FinTypes, [Next]_vars
  PROVE  FinTypes'
  <1>1. parts' = parts /\ parts.turns \in Nat
      BY PartsKept, PartsTypes DEF LogTypes
  <1>2. CASE UNCHANGED <<fin, summary, decisions>>
      BY <1>1, <1>2 DEF FinTypes
  <1>3. ASSUME NEW s \in Session, NEW f \in Finalizer, ReadSession(f, s)
        PROVE  FinTypes'
      <2>1. /\ fin' = [fin EXCEPT ![f] = [pc |-> "summary", session |-> s, seen |-> turns[s]]]
            /\ UNCHANGED <<summary, decisions>>
          BY <1>3 DEF ReadSession
      <2>2. turns[s] \in Seq(Turn) /\ Len(turns[s]) <= parts.turns /\ s # None
          BY TurnsBounded, SessionsAssumption DEF LogTypes
      <2> QED  BY <1>1, <2>1, <2>2 DEF FinTypes
  <1>4. ASSUME NEW f \in Finalizer, fin[f].pc # "idle", NEW pc \in {"decisions", "mark"},
               Advance(f, pc)
        PROVE  /\ fin' \in [Finalizer -> [pc : {"idle", "summary", "decisions", "mark"},
                                         session : Session \cup {None}, seen : Seq(Turn)]]
               /\ \A g \in Finalizer : /\ fin'[g].pc # "idle" => fin'[g].session # None
                                       /\ Len(fin'[g].seen) <= parts.turns
      BY <1>4 DEF Advance, FinTypes
  <1>5. ASSUME NEW f \in Finalizer, fin[f].pc # "idle"
        PROVE  /\ fin[f].session \in Session /\ fin[f].seen \in Seq(Turn)
               /\ Len(fin[f].seen) \in 0 .. parts.turns
      BY <1>1, <1>5 DEF FinTypes
  <1>6. ASSUME NEW f \in Finalizer, WriteSummary(f)
        PROVE  FinTypes'
      <2>1. fin[f].pc = "summary" /\ Advance(f, "decisions") /\ decisions' = decisions
          BY <1>6 DEF WriteSummary
      <2>2. summary' \in [Session -> 0 .. parts.turns \cup {None}]
          BY <1>5, <1>6, <2>1 DEF WriteSummary, FinTypes
      <2> QED  BY <1>1, <1>4, <2>1, <2>2 DEF FinTypes
  <1>7. ASSUME NEW f \in Finalizer, WriteDecisions(f)
        PROVE  FinTypes'
      <2>1. fin[f].pc = "decisions" /\ Advance(f, "mark") /\ summary' = summary
          BY <1>7 DEF WriteDecisions
      <2>2. PICK stored \in SUBSET (DOMAIN fin[f].seen) :
               decisions' = decisions \cup {<<fin[f].session, i>> : i \in stored}
          BY <1>7 DEF WriteDecisions
      <2>3. \A i \in stored : <<fin[f].session, i>> \in Session \X (1 .. parts.turns)
          BY <1>1, <1>5, <2>1
      <2>4. decisions' \subseteq Session \X (1 .. parts.turns)
          BY <2>2, <2>3 DEF FinTypes
      <2> QED  BY <1>1, <1>4, <2>1, <2>4 DEF FinTypes
  <1>8. ASSUME NEW f \in Finalizer, MarkFinalized(f)
        PROVE  FinTypes'
      <2>1. fin' = [fin EXCEPT ![f] = Idle] /\ UNCHANGED <<summary, decisions>>
          BY <1>8 DEF MarkFinalized
      <2>2. Idle \in [pc : {"idle", "summary", "decisions", "mark"},
                      session : Session \cup {None}, seen : Seq(Turn)]
            /\ Idle.pc = "idle" /\ Len(Idle.seen) = 0
          BY DEF Idle
      <2> QED  BY <1>1, <2>1, <2>2 DEF FinTypes
  <1>9. ASSUME NEW s \in Session,
               \/ Create(s) \/ Delete(s) \/ FinalizeOverRest(s) \/ RejectGist(s)
               \/ \E how \in {"rest", "mcp", "batch"} : Open(s, how)
               \/ \E t \in Turn : Say(s, t)
        PROVE  FinTypes'
      BY <1>2, <1>9 DEF Create, Delete, FinalizeOverRest, RejectGist, Open, Say
  <1>10. ASSUME NEW t \in Turn, InitialTurn(t) \/ BatchTurn(t)
         PROVE  FinTypes'
      BY <1>2, <1>10 DEF InitialTurn, BatchTurn
  <1>11. ASSUME NEW j \in jobs, FindVault(j) \/ IngestTurn(j)
         PROVE  FinTypes'
      BY <1>2, <1>11 DEF FindVault, IngestTurn
  <1>12. CASE Tick \/ BatchIngest \/ PurgeVault \/ Sweep \/ UNCHANGED vars
      BY <1>2, <1>12 DEF Tick, BatchIngest, PurgeVault, Sweep, StartSweep, ReadTranscript,
                         NoGist, WriteGist, EndSweep, vars
  <1> QED  BY <1>3, <1>6, <1>7, <1>8, <1>9, <1>10, <1>11, <1>12 DEF Next
-----------------------------------------------------------------------------
(* What a sweep takes up.                                                     *)

OpenSessions == {s \in Session : row[s] = "open"}

LEMMA OpenAreFinite == IsFiniteSet(OpenSessions) /\ OpenSessions \subseteq Session
  BY SessionsAssumption, FS_Subset DEF OpenSessions

\* A pool holds sessions, each once, and begins with the most recent of all.
LEMMA PoolFacts ==
  ASSUME LogTypes, NEW p \in Listings, NEW q, q = Pool(p), q # <<>>
  PROVE  /\ q \in Seq(Session) /\ 1 \in DOMAIN q
         /\ \A i, j \in DOMAIN q : q[i] = q[j] => i = j
         /\ \A t \in OpenSessions : updated[q[1]] >= updated[t]
  <1>1. p \in SetToSeqs(OpenSessions) /\ \A i, j \in DOMAIN p : i < j => updated[p[i]] >= updated[p[j]]
      BY DEF Listings, OpenSessions
  <1>2. /\ p \in Seq(OpenSessions) /\ DOMAIN p = 1 .. Len(p) /\ Len(p) \in Nat
        /\ \A i, j \in DOMAIN p : p[i] = p[j] => i = j
        /\ \A s \in OpenSessions : \E i \in DOMAIN p : p[i] = s
      BY <1>1, OpenAreFinite, RowOfAll
  <1> DEFINE n == IF Len(p) < 4 * BatchSize THEN Len(p) ELSE 4 * BatchSize
  <1>3. n \in 0 .. Len(p)
      BY <1>2, SessionsAssumption
  <1>4. q = SubSeq(p, 1, n)
      BY DEF Pool
  <1> HIDE DEF n
  <1>5. q \in Seq(OpenSessions) /\ Len(q) = n /\ DOMAIN q = 1 .. n /\ \A i \in 1 .. n : q[i] = p[i]
      BY <1>2, <1>3, <1>4
  <1>6. 1 \in DOMAIN q
      BY <1>3, <1>5
  <1>7. ASSUME NEW t \in OpenSessions
        PROVE  updated[q[1]] >= updated[t]
      <2>1. PICK i \in DOMAIN p : p[i] = t
          BY <1>2
      <2>2. 1 \in DOMAIN p /\ q[1] = p[1] /\ i \in Nat /\ i >= 1
          BY <1>2, <1>3, <1>5, <1>6
      <2>3. updated[t] \in Nat
          BY OpenAreFinite, SessionsAssumption DEF LogTypes
      <2>4. CASE i = 1
          BY <2>1, <2>2, <2>3, <2>4
      <2>5. CASE i # 1
          BY <1>1, <2>1, <2>2, <2>5
      <2> QED  BY <2>4, <2>5
  <1>8. q \in Seq(Session)
      BY <1>5, OpenAreFinite
  <1> QED  BY <1>2, <1>3, <1>5, <1>6, <1>7, <1>8

\* mostRecentUpdate is no earlier than any update in the pool.
LEMMA NewestIsLatest ==
  ASSUME LogTypes, NEW q \in Seq(Session), 1 \in DOMAIN q,
         \A i \in DOMAIN q : updated[q[1]] >= updated[q[i]]
  PROVE  Newest(q) = updated[q[1]] /\ Newest(q) \in Nat
  <1> DEFINE S == {updated[q[i]] : i \in DOMAIN q}
  <1>1. \A i \in DOMAIN q : q[i] \in Session /\ updated[q[i]] \in Nat
      BY SessionsAssumption DEF LogTypes
  <1>2. updated[q[1]] \in S /\ \A y \in S : updated[q[1]] >= y /\ y \in Nat
      BY <1>1
  <1>3. Newest(q) = CHOOSE x \in S : \A y \in S : x >= y
      BY DEF Newest, Max
  <1> HIDE DEF S
  <1>4. Newest(q) \in S /\ \A y \in S : Newest(q) >= y
      BY <1>2, <1>3
  <1> QED  BY <1>2, <1>4

\* The sessions with most turns can be put first.
LEMMA RicherFirst ==
  ASSUME LogTypes, LogInv, NEW q \in Seq(Session), NEW m \in Nat, NEW rest, rest = m .. Len(q),
         m >= 1
  PROVE  \E o \in SetToSeqs(rest) : \A i, j \in DOMAIN o : i < j =>
            \/ count[q[o[i]]] > count[q[o[j]]]
            \/ count[q[o[i]]] = count[q[o[j]]] /\ o[i] < o[j]
  <1> DEFINE Rel == {e \in rest \X rest : \/ count[q[e[1]]] > count[q[e[2]]]
                                          \/ count[q[e[1]]] = count[q[e[2]]] /\ e[1] <= e[2]}
  <1>1. \A i \in rest : i \in Int /\ q[i] \in Session /\ count[q[i]] \in Nat
      BY DEF LogInv
  <1>2. \A a, b \in rest : <<a, b>> \in Rel <=>
           (count[q[a]] > count[q[b]] \/ (count[q[a]] = count[q[b]] /\ a <= b))
      OBVIOUS
  <1>3. IsFiniteSet(rest)
      BY FS_Interval
  <1> HIDE DEF Rel
  <1>4. Ranks(Rel, rest)
      <2>1. ASSUME NEW a \in rest, NEW b \in rest
            PROVE  <<a, b>> \in Rel \/ <<b, a>> \in Rel
          <3> DEFINE x == count[q[a]]
                     y == count[q[b]]
          <3>1. x \in Nat /\ y \in Nat /\ a \in Int /\ b \in Int
              BY <1>1
          <3>2. /\ <<a, b>> \in Rel <=> x > y \/ (x = y /\ a <= b)
                /\ <<b, a>> \in Rel <=> y > x \/ (y = x /\ b <= a)
              BY <1>2
          <3> HIDE DEF x, y
          <3> QED  BY <3>1, <3>2
      <2>2. ASSUME NEW a \in rest, NEW b \in rest, NEW c \in rest,
                   <<a, b>> \in Rel, <<b, c>> \in Rel
            PROVE  <<a, c>> \in Rel
          <3> DEFINE x == count[q[a]]
                     y == count[q[b]]
                     z == count[q[c]]
          <3>1. x \in Nat /\ y \in Nat /\ z \in Nat /\ a \in Int /\ b \in Int /\ c \in Int
              BY <1>1
          <3>2. /\ x > y \/ (x = y /\ a <= b)
                /\ y > z \/ (y = z /\ b <= c)
                /\ <<a, c>> \in Rel <=> x > z \/ (x = z /\ a <= c)
              BY <1>2, <2>2
          <3> HIDE DEF x, y, z
          <3> QED  BY <3>1, <3>2
      <2> QED  BY <2>1, <2>2 DEF Ranks
  <1>5. PICK o \in SetToSeqs(rest) : \A i, j \in DOMAIN o : i < j => <<o[i], o[j]>> \in Rel
      BY <1>3, <1>4, SortedRow
  <1>6. \A i \in DOMAIN o : o[i] \in rest /\ i \in Int
      BY <1>3, <1>5, RowOfAll
  <1>7. \A i, j \in DOMAIN o : o[i] = o[j] => i = j
      BY <1>3, <1>5, RowOfAll
  <1>8. ASSUME NEW i \in DOMAIN o, NEW j \in DOMAIN o, i < j
        PROVE  \/ count[q[o[i]]] > count[q[o[j]]]
               \/ count[q[o[i]]] = count[q[o[j]]] /\ o[i] < o[j]
      <2>1. <<o[i], o[j]>> \in Rel /\ o[i] # o[j]
          BY <1>5, <1>6, <1>7, <1>8
      <2>2. o[i] \in rest /\ o[j] \in rest
          BY <1>6
      <2> QED  BY <1>1, <1>2, <2>1, <2>2
  <1> QED  BY <1>5, <1>8

\* A batch: sessions of the pool, each once, no more than BatchSize, and the
\* first of the pool among them.
LEMMA ReplayFacts ==
  ASSUME LogTypes, LogInv, NEW q \in Seq(Session), 1 \in DOMAIN q,
         \A i, j \in DOMAIN q : q[i] = q[j] => i = j,
         NEW b, b = ScheduleReplay(q)
  PROVE  /\ b \in Seq(Session) /\ Len(b) <= BatchSize
         /\ \A i, j \in DOMAIN b : b[i] = b[j] => i = j
         /\ OldCount < BatchSize => 1 \in DOMAIN b /\ b[1] = q[1]
  <1>1. CASE Len(q) <= BatchSize
      BY <1>1 DEF ScheduleReplay
  <1>2. CASE ~(Len(q) <= BatchSize)
      <2> DEFINE new  == BatchSize - OldCount
                 rest == new + 1 .. Len(q)
                 Richer(i, j) == \/ count[q[i]] > count[q[j]]
                                 \/ count[q[i]] = count[q[j]] /\ i < j
                 old  == CHOOSE o \in SetToSeqs(rest) :
                             \A i, j \in DOMAIN o : i < j => Richer(o[i], o[j])
                 tail == [i \in 1 .. OldCount |-> q[old[i]]]
                 head == SubSeq(q, 1, new)
      <2>1. /\ new \in Nat /\ OldCount \in Nat /\ BatchSize \in Nat /\ Len(q) \in Nat
            /\ new + OldCount = BatchSize /\ BatchSize < Len(q) /\ DOMAIN q = 1 .. Len(q)
          BY <1>2, SessionsAssumption
      <2>2. b = head \o tail
          BY <1>2 DEF ScheduleReplay
      <2>3. \E o \in SetToSeqs(rest) : \A i, j \in DOMAIN o : i < j => Richer(o[i], o[j])
          BY <2>1, RicherFirst
      <2>4. old \in SetToSeqs(rest)
          <3> HIDE DEF rest, Richer
          <3> QED  BY <2>3
      <2>5. IsFiniteSet(rest) /\ Cardinality(rest) = Len(q) - new
          <3> HIDE DEF new
          <3>1. new + 1 \in Int /\ Len(q) \in Int /\ ~(new + 1 > Len(q))
              BY <2>1
          <3> QED  BY <2>1, <3>1, FS_Interval
      <2> HIDE DEF old
      <2>6. /\ DOMAIN old = 1 .. Len(q) - new
            /\ \A i \in DOMAIN old : old[i] \in rest
            /\ \A i, j \in DOMAIN old : old[i] = old[j] => i = j
          <3> HIDE DEF rest, new
          <3> QED  BY <2>4, <2>5, RowOfAll
      <2> HIDE DEF new
      <2>7. 1 .. OldCount \subseteq DOMAIN old
          BY <2>1, <2>6
      <2>8. \A i \in 1 .. OldCount : old[i] \in Int /\ old[i] > new /\ old[i] \in DOMAIN q
          BY <2>1, <2>6, <2>7
      <2>9. tail \in Seq(Session) /\ Len(tail) = OldCount
            /\ \A i \in 1 .. OldCount : tail[i] = q[old[i]]
          BY <2>1, <2>8
      <2>10. head \in Seq(Session) /\ Len(head) = new /\ \A i \in 1 .. new : head[i] = q[i]
          BY <2>1
      <2> HIDE DEF tail, head
      <2>11. b \in Seq(Session) /\ Len(b) = BatchSize /\ DOMAIN b = 1 .. BatchSize
          <3>1. b \in Seq(Session) /\ Len(b) = Len(head) + Len(tail)
              BY <2>2, <2>9, <2>10
          <3>2. Len(b) = BatchSize
              BY <2>1, <2>9, <2>10, <3>1
          <3> QED  BY <3>1, <3>2
      <2>12. /\ \A i \in 1 .. new : b[i] = q[i]
             /\ \A i \in 1 .. BatchSize : i > new => i - new \in 1 .. OldCount /\ b[i] = q[old[i - new]]
          BY <2>1, <2>2, <2>9, <2>10
      <2>13. ASSUME NEW i \in 1 .. BatchSize, NEW j \in 1 .. BatchSize, b[i] = b[j]
             PROVE  i = j
          <3>1. CASE i <= new /\ j <= new
              <4>1. i \in 1 .. new /\ j \in 1 .. new /\ i \in DOMAIN q /\ j \in DOMAIN q
                  BY <2>1, <3>1
              <4> QED  BY <2>12, <2>13, <4>1
          <3>2. CASE i > new /\ j > new
              <4>1. /\ i - new \in 1 .. OldCount /\ j - new \in 1 .. OldCount
                    /\ q[old[i - new]] = q[old[j - new]]
                  BY <2>12, <2>13, <3>2
              <4>2. old[i - new] = old[j - new]
                  BY <2>8, <4>1
              <4>3. i - new = j - new
                  BY <2>6, <2>7, <4>1, <4>2
              <4> QED  BY <2>1, <4>3
          <3>3. ASSUME NEW k \in 1 .. BatchSize, NEW l \in 1 .. BatchSize, k <= new, l > new
                PROVE  b[k] # b[l]
              <4>1. k \in 1 .. new /\ k \in DOMAIN q /\ l - new \in 1 .. OldCount
                  BY <2>1, <2>12, <3>3
              <4>2. old[l - new] \in DOMAIN q /\ old[l - new] # k
                  BY <2>1, <2>8, <4>1
              <4> QED  BY <2>12, <3>3, <4>1, <4>2
          <3> QED  BY <2>1, <2>13, <3>1, <3>2, <3>3
      <2>14. OldCount < BatchSize => 1 \in DOMAIN b /\ b[1] = q[1]
          BY <2>1, <2>11, <2>12
      <2>15. Len(b) <= BatchSize
          BY <2>1, <2>11
      <2> QED  BY <2>11, <2>13, <2>14, <2>15
  <1> QED  BY <1>1, <1>2
-----------------------------------------------------------------------------
(* The worker's types, and the theorems.                                      *)

\* Where a sweep begins.
LEMMA SweepBegins ==
  ASSUME LogTypes, LogInv, StartSweep
  PROVE  \E q \in Seq(Session) :
            /\ 1 \in DOMAIN q
            /\ \A i, j \in DOMAIN q : q[i] = q[j] => i = j
            /\ \A t \in OpenSessions : updated[q[1]] >= updated[t]
            /\ \A i \in DOMAIN q : updated[q[1]] >= updated[q[i]]
            /\ IdleWindow = 0 \/ clock - Newest(q) >= IdleWindow
            /\ sweep' = [pc |-> "read", batch |-> ScheduleReplay(q), seen |-> 0]
  <1>1. PICK p \in Listings :
           /\ Pool(p) # <<>>
           /\ IdleWindow = 0 \/ clock - Newest(Pool(p)) >= IdleWindow
           /\ sweep' = [pc |-> "read", batch |-> ScheduleReplay(Pool(p)), seen |-> 0]
      BY DEF StartSweep
  <1>2. PICK q : q = Pool(p)
      OBVIOUS
  <1>3. /\ q \in Seq(Session) /\ 1 \in DOMAIN q
        /\ \A i, j \in DOMAIN q : q[i] = q[j] => i = j
        /\ \A t \in OpenSessions : updated[q[1]] >= updated[t]
      BY <1>1, <1>2, PoolFacts
  <1>4. \A i \in DOMAIN q : q[i] \in OpenSessions
      <2>1. p \in SetToSeqs(OpenSessions)
          BY DEF Listings, OpenSessions
      <2>2. p \in Seq(OpenSessions)
          BY <2>1, OpenAreFinite, RowOfAll
      <2> DEFINE n == IF Len(p) < 4 * BatchSize THEN Len(p) ELSE 4 * BatchSize
      <2>3. n \in 0 .. Len(p)
          BY <2>2, SessionsAssumption
      <2>4. q = SubSeq(p, 1, n)
          BY <1>2 DEF Pool
      <2> HIDE DEF n
      <2>5. q \in Seq(OpenSessions)
          BY <2>2, <2>3, <2>4
      <2> QED  BY <2>5
  <1>5. \A i \in DOMAIN q : updated[q[1]] >= updated[q[i]]
      BY <1>3, <1>4
  <1> QED  BY <1>1, <1>2, <1>3, <1>5

LEMMA StartKeepsTypes ==
  ASSUME LogTypes, LogInv, SweepTypes, StartSweep
  PROVE  SweepTypes'
  <1>1. PICK q \in Seq(Session) :
           /\ 1 \in DOMAIN q
           /\ \A i, j \in DOMAIN q : q[i] = q[j] => i = j
           /\ sweep' = [pc |-> "read", batch |-> ScheduleReplay(q), seen |-> 0]
      BY SweepBegins
  <1>2. ScheduleReplay(q) \in Seq(Session)
      BY <1>1, ReplayFacts
  <1>3. parts' = parts /\ UNCHANGED <<gist, gone>> /\ parts.turns \in Nat
      BY PartsTypes DEF StartSweep, log, LogTypes
  <1> QED  BY <1>1, <1>2, <1>3 DEF SweepTypes

LEMMA SkippedTypes ==
  ASSUME LogTypes, SweepTypes, sweep.batch # <<>>
  PROVE  /\ Skipped \in [pc : {"off", "read", "write"}, batch : Seq(Session), seen : 0 .. parts.turns]
         /\ Skipped.pc = "read"
  <1>1. sweep.batch \in Seq(Session) /\ parts.turns \in Nat
      BY PartsTypes DEF SweepTypes, LogTypes
  <1>2. Tail(sweep.batch) \in Seq(Session)
      BY <1>1
  <1> QED  BY <1>1, <1>2 DEF Skipped

LEMMA SweepTypesStep ==
  ASSUME LogTypes, LogInv, SweepTypes, [Next]_vars
  PROVE  SweepTypes'
  <1>1. parts' = parts /\ parts.turns \in Nat
      BY PartsKept, PartsTypes DEF LogTypes
  <1>2. CASE UNCHANGED <<sweep, gist, gone>>
      BY <1>1, <1>2 DEF SweepTypes
  <1>3. ASSUME NEW s \in Session, Delete(s)
        PROVE  SweepTypes'
      BY <1>1, <1>3 DEF Delete, SweepTypes
  <1>4. CASE PurgeVault
      BY <1>1, <1>4 DEF PurgeVault, SweepTypes
  <1>5. ASSUME NEW s \in Session, RejectGist(s)
        PROVE  SweepTypes'
      <2>1. gist[s] \in [turns : 0 .. parts.turns, status : {"active", "archived"}]
          BY <1>5 DEF RejectGist, SweepTypes
      <2>2. [gist[s] EXCEPT !.status = "archived"] \in
               [turns : 0 .. parts.turns, status : {"active", "archived"}]
          BY <2>1
      <2>3. gist' = [gist EXCEPT ![s] = [gist[s] EXCEPT !.status = "archived"]]
          BY <1>5 DEF RejectGist
      <2> QED  BY <1>1, <1>5, <2>2, <2>3 DEF RejectGist, SweepTypes
  <1>6. CASE StartSweep
      BY <1>6, StartKeepsTypes
  <1>7. CASE ReadTranscript
      <2>1. sweep.batch # <<>> /\ Head(sweep.batch) \in Session /\ UNCHANGED <<gist, gone>>
          BY <1>7 DEF ReadTranscript, SweepTypes
      <2>2. CASE sweep' = Skipped
          BY <1>1, <2>1, <2>2, SkippedTypes DEF SweepTypes
      <2>3. CASE sweep' = [sweep EXCEPT !.pc = "write", !.seen = Len(turns[Head(sweep.batch)])]
          <3>1. Len(turns[Head(sweep.batch)]) \in 0 .. parts.turns
              BY <2>1, TurnsBounded
          <3> QED  BY <1>1, <2>1, <2>3, <3>1 DEF SweepTypes
      <2> QED  BY <1>7, <2>2, <2>3 DEF ReadTranscript
  <1>8. CASE NoGist
      <2>1. sweep.batch # <<>> /\ sweep' = Skipped /\ UNCHANGED <<gist, gone>>
          BY <1>8 DEF NoGist, SweepTypes
      <2> QED  BY <1>1, <2>1, SkippedTypes DEF SweepTypes
  <1>9. CASE WriteGist
      <2>1. /\ sweep.batch # <<>> /\ sweep' = Skipped /\ gone' = gone
            /\ gist' = [gist EXCEPT ![Head(sweep.batch)] =
                                     [turns |-> sweep.seen, status |-> "active"]]
          BY <1>9 DEF WriteGist, SweepTypes
      <2>2. [turns |-> sweep.seen, status |-> "active"] \in
               [turns : 0 .. parts.turns, status : {"active", "archived"}]
          BY DEF SweepTypes
      <2>3. gist' \in [Session -> {None} \cup [turns : 0 .. parts.turns,
                                              status : {"active", "archived"}]]
          BY <2>1, <2>2 DEF SweepTypes
      <2> QED  BY <1>1, <2>1, <2>3, SkippedTypes DEF SweepTypes
  <1>10. CASE EndSweep
      <2>1. sweep' = Asleep /\ UNCHANGED <<gist, gone>>
          BY <1>10 DEF EndSweep
      <2> QED  BY <1>1, <2>1 DEF SweepTypes, Asleep
  <1>11. ASSUME NEW s \in Session,
                \/ Create(s) \/ FinalizeOverRest(s)
                \/ \E how \in {"rest", "mcp", "batch"} : Open(s, how)
                \/ \E t \in Turn : Say(s, t)
                \/ \E f \in Finalizer : ReadSession(f, s)
         PROVE  SweepTypes'
      BY <1>2, <1>11 DEF Create, FinalizeOverRest, Open, Say, ReadSession
  <1>12. ASSUME NEW t \in Turn, InitialTurn(t) \/ BatchTurn(t)
         PROVE  SweepTypes'
      BY <1>2, <1>12 DEF InitialTurn, BatchTurn
  <1>13. ASSUME NEW j \in jobs, FindVault(j) \/ IngestTurn(j)
         PROVE  SweepTypes'
      BY <1>2, <1>13 DEF FindVault, IngestTurn
  <1>14. ASSUME NEW f \in Finalizer, WriteSummary(f) \/ WriteDecisions(f) \/ MarkFinalized(f)
         PROVE  SweepTypes'
      BY <1>2, <1>14 DEF WriteSummary, WriteDecisions, MarkFinalized
  <1>15. CASE Tick \/ BatchIngest \/ UNCHANGED vars
      BY <1>2, <1>15 DEF Tick, BatchIngest, vars
  <1> QED  BY <1>3, <1>4, <1>5, <1>6, <1>7, <1>8, <1>9, <1>10, <1>11, <1>12, <1>13, <1>14,
              <1>15 DEF Next, Sweep

LEMMA TypesAtFirst == Init => Types
  <1> SUFFICES ASSUME Init PROVE Types
      OBVIOUS
  <1>1. parts.turns \in Nat /\ parts \in Parts
      BY PartsTypes DEF Init
  <1>2. turns = [s \in Session |-> <<>>] /\ TurnsStored = 0
      <2>1. turns = [s \in Session |-> <<>>]
          BY DEF Init
      <2>2. [s \in Session |-> Len(turns[s])] = [s \in Session |-> 0]
          BY <2>1
      <2>3. SumFunction([s \in Session |-> 0]) = 0
          BY SessionsAssumption, SumOfZeros
      <2> QED  BY <2>1, <2>2, <2>3 DEF TurnsStored
  <1>3. LogTypes
      BY <1>1, <1>2, SessionsAssumption DEF Init, LogTypes, Rows
  <1>4. JobTypes
      BY DEF Init, JobTypes
  <1>5. FinTypes
      BY <1>1 DEF Init, FinTypes, Idle
  <1>6. SweepTypes
      BY <1>1 DEF Init, SweepTypes, Asleep
  <1> QED  BY <1>3, <1>4, <1>5, <1>6 DEF Types

LEMMA TypesAlways == Spec => [](Types /\ Inv)
  <1>1. Types /\ Inv /\ [Next]_vars => Inv'
      BY LogStep, GistStep DEF Inv
  <1>2. Types /\ Inv /\ [Next]_vars => LogTypes'
      BY LogTypesStep DEF Types, Inv
  <1>3. Types /\ Inv /\ Inv' /\ LogTypes' /\ [Next]_vars => JobTypes'
      BY JobTypesStep DEF Types, Inv
  <1>4. Types /\ Inv /\ [Next]_vars => FinTypes' /\ SweepTypes'
      BY FinTypesStep, SweepTypesStep DEF Types, Inv
  <1>5. Types /\ Inv /\ [Next]_vars => (Types /\ Inv)'
      BY <1>1, <1>2, <1>3, <1>4 DEF Types
  <1> QED  BY <1>5, TypesAtFirst, InvAtFirst, PTL DEF Spec

\* The variables keep their types: no session and no summary, gist, job or chunk
\* counts more turns than the log holds (the transactions of logstore.go).
THEOREM SessionTypes == Spec => []TypeOK
  <1>1. Types /\ Inv => TypeOK
      BY CountsBounded DEF Types, Inv, LogTypes, JobTypes, FinTypes, SweepTypes, TypeOK, Rows
  <1> QED  BY <1>1, TypesAlways, PTL

\* What a sweep takes up is fair.
LEMMA StartIsFair ==
  ASSUME LogTypes, LogInv, StartSweep
  PROVE  /\ IsInjective(sweep'.batch)
         /\ Len(sweep'.batch) <= BatchSize
         /\ OldCount < BatchSize => \E s \in ToSet(sweep'.batch) :
               \A t \in Session : row[t] = "open" => updated[s] >= updated[t]
         /\ IdleWindow > 0 =>
               \A t \in Session : row[t] = "open" => clock - updated[t] >= IdleWindow
  <1>1. PICK q \in Seq(Session) :
           /\ 1 \in DOMAIN q
           /\ \A i, j \in DOMAIN q : q[i] = q[j] => i = j
           /\ \A t \in OpenSessions : updated[q[1]] >= updated[t]
           /\ \A i \in DOMAIN q : updated[q[1]] >= updated[q[i]]
           /\ IdleWindow = 0 \/ clock - Newest(q) >= IdleWindow
           /\ sweep' = [pc |-> "read", batch |-> ScheduleReplay(q), seen |-> 0]
      BY SweepBegins
  <1>2. PICK b : b = ScheduleReplay(q)
      OBVIOUS
  <1>3. /\ Len(b) <= BatchSize
        /\ \A i, j \in DOMAIN b : b[i] = b[j] => i = j
        /\ OldCount < BatchSize => 1 \in DOMAIN b /\ b[1] = q[1]
      BY <1>1, <1>2, ReplayFacts
  <1>4. sweep'.batch = b
      BY <1>1, <1>2
  <1>5. \A t \in Session : row[t] = "open" => updated[q[1]] >= updated[t]
      BY <1>1 DEF OpenSessions
  <1>6. OldCount < BatchSize => q[1] \in ToSet(b)
      BY <1>3 DEF ToSet
  <1>7. ASSUME IdleWindow > 0, NEW t \in Session, row[t] = "open"
        PROVE  clock - updated[t] >= IdleWindow
      <2>1. Newest(q) = updated[q[1]] /\ Newest(q) \in Nat
          BY <1>1, NewestIsLatest
      <2>2. updated[q[1]] >= updated[t] /\ updated[t] \in Nat /\ clock \in Nat /\ IdleWindow \in Nat
          BY <1>5, <1>7, SessionsAssumption DEF LogTypes
      <2>3. clock - Newest(q) >= IdleWindow
          BY <1>1, <1>7, <2>2
      <2> QED  BY <2>1, <2>2, <2>3
  <1>8. IsInjective(b)
      BY <1>3 DEF IsInjective
  <1> QED  BY <1>3, <1>4, <1>5, <1>6, <1>7, <1>8

\* Only StartSweep wakes the worker.
LEMMA OnlyStartWakes ==
  ASSUME [Next]_vars, sweep.pc = "off", sweep'.pc = "read"
  PROVE  StartSweep
  BY DEF Next, vars, Tick, Create, Delete, FinalizeOverRest, RejectGist, Open, Say, ReadSession,
         InitialTurn, BatchTurn, BatchIngest, PurgeVault, FindVault, IngestTurn, WriteSummary,
         WriteDecisions, MarkFinalized, Sweep, ReadTranscript, NoGist, WriteGist, EndSweep,
         Asleep

\* A batch holds no session twice, no more than BatchSize, always the most recent
\* one, and none while any session is in use, for any pool of sessions and any
\* mixture of new and old ones (consolidateVault, scheduleReplay).
THEOREM BatchesStayFair == Spec => BatchesAreFair
  <1> DEFINE Fair ==
        sweep.pc = "off" /\ sweep'.pc = "read" =>
          /\ IsInjective(sweep'.batch)
          /\ Len(sweep'.batch) <= BatchSize
          /\ OldCount < BatchSize => \E s \in ToSet(sweep'.batch) :
                \A t \in Session : row[t] = "open" => updated[s] >= updated[t]
          /\ IdleWindow > 0 =>
                \A t \in Session : row[t] = "open" => clock - updated[t] >= IdleWindow
  <1>1. Types /\ Inv /\ [Next]_vars => [Fair]_vars
      BY OnlyStartWakes, StartIsFair DEF Types, Inv
  <1> HIDE DEF Fair
  <1>2. Spec => [][Fair]_vars
      BY <1>1, TypesAlways, PTL DEF Spec
  <1> QED  BY <1>2 DEF Fair, BatchesAreFair
=============================================================================

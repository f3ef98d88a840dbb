------------------------------ MODULE Sessions ------------------------------
(* Conversation sessions: the SQLite log of turns (internal/logstore), the    *)
(* REST and MCP operations on it (server/sessions.go, service.go), the        *)
(* goroutines that index turns, the finalization that turns a session into    *)
(* facts, and the consolidation worker that distils idle sessions into gists  *)
(* (internal/consolidation). One vault.                                       *)
(*                                                                            *)
(* A transaction of the log store is one step. A turn is its role and whether *)
(* it announces a decision; a summary or a gist is the number of turns it was *)
(* made from.                                                                 *)
EXTENDS Integers, FiniteSets, Sequences, SequencesExt, FiniteSetsExt

CONSTANTS
    Session,
    Finalizer,      \* concurrent notifications/session_end requests
    Turn,           \* the turns clients append
    IdleWindow,     \* Config.IdleWindow of the consolidator
    BatchSize,      \* Config.BatchSize
    OldCount,       \* int(BatchSize * InterleaveRatio)
    None,           \* no summary, no gist, no session
    Parts,          \* bound: the background work to run together ("index",
                    \* "finalize", "consolidate"), each with the numbers of
                    \* sessions and turns to run it on
    MaxTime         \* bound: the clock, which only the worker reads

ASSUME SessionsAssumption ==
    /\ IsFiniteSet(Session)
    /\ Turn \subseteq [role : {"user", "assistant"}, decision : BOOLEAN]
    /\ Parts \subseteq [work : SUBSET {"index", "finalize", "consolidate"},
                        sessions : Nat, turns : Nat]
    /\ IdleWindow \in Nat /\ BatchSize \in Nat \ {0}
    /\ OldCount \in 0 .. BatchSize
    /\ MaxTime \in Nat
    /\ None \notin Session \cup Nat

VARIABLES
    parts,          \* the bounds of this behaviour
    row,            \* the row of a session: none, open, archived, purged
    count,          \* turn_count
    updated,        \* updated_at
    finalized,      \* finalized_at is set
    turns,          \* session_turns
    clock,
    opening,        \* the session a creating request is still filling, or None
    jobs,           \* turns still to be indexed
    chunks,         \* turns in the vault's collection
    fin,            \* progress of every finalizing request
    summary,        \* the fact session/<id>/summary
    decisions,      \* the facts house/decision/...
    sweep,          \* progress of Consolidator.RunOnce
    gist,           \* the facts gist:<id>
    gone            \* history: sessions deleted while the sweep was not about
                    \* to write their gist

log  == <<parts, row, count, updated, finalized, turns>>
vars == <<log, clock, opening, jobs, chunks, fin, summary, decisions, sweep, gist, gone>>

Idle   == [pc |-> "idle", session |-> None, seen |-> <<>>]
Asleep == [pc |-> "off", batch |-> <<>>, seen |-> 0]

Init ==
    /\ parts \in Parts
    /\ row = [s \in Session |-> "none"]
    /\ count = [s \in Session |-> 0]
    /\ updated = [s \in Session |-> 0]
    /\ finalized = [s \in Session |-> FALSE]
    /\ turns = [s \in Session |-> <<>>]
    /\ clock = 0
    /\ opening = None
    /\ jobs = {}
    /\ chunks = {}
    /\ fin = [f \in Finalizer |-> Idle]
    /\ summary = [s \in Session |-> None]
    /\ decisions = {}
    /\ sweep = Asleep
    /\ gist = [s \in Session |-> None]
    /\ gone = {}

Tick ==
    /\ "consolidate" \in parts.work /\ clock < MaxTime
    /\ clock' = clock + 1
    /\ UNCHANGED <<log, opening, jobs, chunks, fin, summary, decisions, sweep, gist, gone>>

TurnsStored == SumFunction([s \in Session |-> Len(turns[s])])

-----------------------------------------------------------------------------
(* The log store.                                                             *)

\* CreateSession under a fresh id.
CreateSession(s) ==
    /\ row[s] = "none"
    /\ Cardinality({r \in Session : row[r] # "none"}) < parts.sessions
    /\ row' = [row EXCEPT ![s] = "open"]
    /\ updated' = [updated EXCEPT ![s] = clock]
    /\ UNCHANGED <<parts, count, finalized, turns>>

\* Mutant of AppendTurn: the existence check is dropped.
AppendTurnBlindly(s, t) ==
    /\ turns' = [turns EXCEPT ![s] = Append(@, t)]
    /\ count' = [count EXCEPT ![s] = @ + 1]
    /\ updated' = [updated EXCEPT ![s] = clock]
    /\ UNCHANGED <<parts, row, finalized>>

\* AppendTurn: the insert and the counters, for a row that exists, archived or
\* not.
AppendTurn(s, t) ==
    /\ row[s] \in {"open", "archived"}
    /\ turns' = [turns EXCEPT ![s] = Append(@, t)]
    /\ count' = [count EXCEPT ![s] = @ + 1]
    /\ updated' = [updated EXCEPT ![s] = clock]
    /\ UNCHANGED <<parts, row, finalized>>

\* Mutant of Readable: GetSession forgets archived = 0.
ReadableArchived(s) == row[s] \in {"open", "archived"}

\* GetSession finds only sessions that are not archived.
Readable(s) == row[s] = "open"

\* ListSessions: most recently updated first; equal times in any order.
Listings ==
    {q \in SetToSeqs({s \in Session : row[s] = "open"}) :
        \A i, j \in DOMAIN q : i < j => updated[q[i]] >= updated[q[j]]}

\* DeleteSession sets archived = 1.
DeleteSession(s) ==
    /\ row[s] \in {"open", "archived"}
    /\ row' = [row EXCEPT ![s] = "archived"]
    /\ UNCHANGED <<parts, count, updated, finalized, turns>>

\* DeleteSessionsByVault removes turns and rows in one transaction.
DeleteSessionsByVault ==
    /\ row' = [s \in Session |-> IF row[s] = "none" THEN "none" ELSE "purged"]
    /\ turns' = [s \in Session |-> <<>>]
    /\ count' = [s \in Session |-> 0]
    /\ UNCHANGED <<parts, updated, finalized>>

\* FinalizeSession: not for archived sessions.
FinalizeSession(s) ==
    /\ row[s] = "open"
    /\ finalized' = [finalized EXCEPT ![s] = TRUE]
    /\ updated' = [updated EXCEPT ![s] = clock]
    /\ UNCHANGED <<parts, row, count, turns>>

-----------------------------------------------------------------------------
(* Requests.                                                                  *)

\* handleSessionCreate, doCreateSession without initial content.
Create(s) ==
    /\ CreateSession(s)
    /\ UNCHANGED <<clock, opening, jobs, chunks, fin, summary, decisions, sweep, gist, gone>>

\* A session whose request goes on to store turns.
Open(s, how) ==
    /\ "index" \in parts.work
    /\ opening = None
    /\ CreateSession(s)
    /\ opening' = [session |-> s, how |-> how]
    /\ UNCHANGED <<clock, jobs, chunks, fin, summary, decisions, sweep, gist, gone>>

\* A turn waits to be indexed: in the request itself or in a goroutine.
IndexJob(s, n, pc) ==
    IF "index" \in parts.work THEN {[session |-> s, turn |-> n, pc |-> pc]} ELSE {}

\* The initial turn is the user's. The REST handler has the vault's indexer at
\* hand, doCreateSession starts indexSessionTurn; a failed append is logged.
InitialTurn(t) ==
    /\ opening # None /\ opening.how # "batch"
    /\ opening' = None
    /\ \/ /\ TurnsStored < parts.turns
          /\ t.role = "user"
          /\ AppendTurn(opening.session, t)
          /\ jobs' = jobs \cup IndexJob(opening.session, count'[opening.session],
                                      IF opening.how = "rest" THEN "ingest" ELSE "find")
       \/ UNCHANGED <<log, jobs>>
    /\ UNCHANGED <<clock, chunks, fin, summary, decisions, sweep, gist, gone>>

\* handleTurnAppend, doAppendTurn: the turn is stored, then indexed, in the
\* request itself (REST) or in a goroutine (MCP).
Say(s, t) ==
    /\ TurnsStored < parts.turns
    /\ ~(opening # None /\ opening.session = s)
    /\ AppendTurn(s, t)
    /\ jobs' = jobs \cup IndexJob(s, count'[s], "find")
    /\ UNCHANGED <<clock, opening, chunks, fin, summary, decisions, sweep, gist, gone>>

\* indexSessionTurn, and the same steps inline: look the session up ...
FindVault(j) ==
    /\ j.pc = "find"
    /\ jobs' = (jobs \ {j}) \cup
               (IF Readable(j.session) THEN {[j EXCEPT !.pc = "ingest"]} ELSE {})
    /\ UNCHANGED <<log, clock, opening, chunks, fin, summary, decisions, sweep, gist, gone>>

\* ... and ingest the turn into its vault, which may fail.
IngestTurn(j) ==
    /\ j.pc = "ingest"
    /\ jobs' = jobs \ {j}
    /\ chunks' = chunks \cup {<<j.session, j.turn>>} \/ UNCHANGED chunks
    /\ UNCHANGED <<log, clock, opening, fin, summary, decisions, sweep, gist, gone>>

\* handleBatchSessions: a session, its turns one transaction at a time, each of
\* which may fail alone ...
BatchTurn(t) ==
    /\ opening # None /\ opening.how = "batch"
    /\ TurnsStored < parts.turns
    /\ AppendTurn(opening.session, t)
    /\ UNCHANGED <<clock, opening, jobs, chunks, fin, summary, decisions, sweep, gist, gone>>

\* ... and the whole conversation as one source; turn 0 stands for it.
BatchIngest ==
    /\ opening # None /\ opening.how = "batch"
    /\ chunks' = chunks \cup {<<opening.session, 0>>} \/ UNCHANGED chunks
    /\ opening' = None
    /\ UNCHANGED <<log, clock, jobs, fin, summary, decisions, sweep, gist, gone>>

AboutToWrite == IF sweep.pc = "write" THEN {Head(sweep.batch)} ELSE {}

\* handleSessionDelete.
Delete(s) ==
    /\ DeleteSession(s)
    /\ gone' = gone \cup ({s} \ AboutToWrite)
    /\ UNCHANGED <<clock, opening, jobs, chunks, fin, summary, decisions, sweep, gist>>

\* A vault is cleared or deleted with its sessions; its collection goes first.
PurgeVault ==
    /\ DeleteSessionsByVault
    /\ chunks' = {}
    /\ gone' = gone \cup ({s \in Session : row[s] # "none"} \ AboutToWrite)
    /\ UNCHANGED <<clock, opening, jobs, fin, summary, decisions, sweep, gist>>

\* handleSessionFinalize only marks the session.
FinalizeOverRest(s) ==
    /\ FinalizeSession(s)
    /\ UNCHANGED <<clock, opening, jobs, chunks, fin, summary, decisions, sweep, gist, gone>>

-----------------------------------------------------------------------------
(* doFinalizeSession: read everything, then write, then mark.                 *)

Advance(f, pc) == fin' = [fin EXCEPT ![f].pc = pc]

ReadSession(f, s) ==
    /\ "finalize" \in parts.work
    /\ fin[f].pc = "idle"
    /\ Readable(s)
    /\ fin' = [fin EXCEPT ![f] = [pc |-> "summary", session |-> s, seen |-> turns[s]]]
    /\ UNCHANGED <<log, clock, opening, jobs, chunks, summary, decisions, sweep, gist, gone>>

\* The summary fact replaces the one before it, or its upsert fails.
WriteSummary(f) ==
    /\ fin[f].pc = "summary"
    /\ \/ summary' = [summary EXCEPT ![fin[f].session] = Len(fin[f].seen)]
       \/ UNCHANGED summary
    /\ Advance(f, "decisions")
    /\ UNCHANGED <<log, clock, opening, jobs, chunks, decisions, sweep, gist, gone>>

\* The assistant's turns that announce a decision; some upserts may fail.
WriteDecisions(f) ==
    /\ fin[f].pc = "decisions"
    /\ LET seen == fin[f].seen
           made == {i \in DOMAIN seen : seen[i].role = "assistant" /\ seen[i].decision}
       IN  \E stored \in SUBSET made :
              decisions' = decisions \cup {<<fin[f].session, i>> : i \in stored}
    /\ Advance(f, "mark")
    /\ UNCHANGED <<log, clock, opening, jobs, chunks, summary, sweep, gist, gone>>

\* A session deleted meanwhile is not marked; only a warning tells.
MarkFinalized(f) ==
    /\ fin[f].pc = "mark"
    /\ \/ FinalizeSession(fin[f].session)
       \/ row[fin[f].session] # "open" /\ UNCHANGED log
    /\ fin' = [fin EXCEPT ![f] = Idle]
    /\ UNCHANGED <<clock, opening, jobs, chunks, summary, decisions, sweep, gist, gone>>

-----------------------------------------------------------------------------
(* The consolidation worker.                                                  *)

\* The pool of consolidateVault: the sessions listed first.
Pool(q) == SubSeq(q, 1, IF Len(q) < 4 * BatchSize THEN Len(q) ELSE 4 * BatchSize)

\* Mutant of Newest: the time of the session listed last.
Oldest(q) == updated[Last(q)]

\* mostRecentUpdate: the latest update in the pool.
Newest(q) == Max({updated[q[i]] : i \in DOMAIN q})

\* scheduleReplay: all of a small pool; otherwise the newest sessions and, of
\* the others, those with most turns, recency deciding between equals.
ScheduleReplay(q) ==
    IF Len(q) <= BatchSize THEN q
    ELSE LET new  == BatchSize - OldCount
             rest == new + 1 .. Len(q)
             Richer(i, j) == \/ count[q[i]] > count[q[j]]
                             \/ count[q[i]] = count[q[j]] /\ i < j
             old  == CHOOSE o \in SetToSeqs(rest) :
                         \A i, j \in DOMAIN o : i < j => Richer(o[i], o[j])
         IN  SubSeq(q, 1, new) \o [i \in 1 .. OldCount |-> q[old[i]]]

\* RunOnce takes up a batch; the flag Running is sweep.pc # "off".
StartSweep ==
    /\ "consolidate" \in parts.work
    /\ sweep.pc = "off"
    /\ \E q \in {Pool(p) : p \in Listings} :
          /\ q # <<>>
          /\ IdleWindow = 0 \/ clock - Newest(q) >= IdleWindow
          /\ sweep' = [pc |-> "read", batch |-> ScheduleReplay(q), seen |-> 0]
    /\ UNCHANGED <<log, clock, opening, jobs, chunks, fin, summary, decisions, gist, gone>>

Skipped == [pc |-> "read", batch |-> Tail(sweep.batch), seen |-> 0]

\* Transcript: an archived session cannot be read and an empty one is skipped.
ReadTranscript ==
    /\ sweep.pc = "read" /\ sweep.batch # <<>>
    /\ LET s == Head(sweep.batch) IN
       \/ /\ Readable(s) /\ turns[s] # <<>>
          /\ sweep' = [sweep EXCEPT !.pc = "write", !.seen = Len(turns[s])]
       \/ /\ ~Readable(s) \/ turns[s] = <<>>
          /\ sweep' = Skipped
    /\ UNCHANGED <<log, clock, opening, jobs, chunks, fin, summary, decisions, gist, gone>>

\* Mutant of NoGist: an error ends the sweep without clearing Running.
NoGistKeepsRunning ==
    /\ sweep.pc = "write"
    /\ sweep' = [sweep EXCEPT !.pc = "stuck"]
    /\ UNCHANGED <<log, clock, opening, jobs, chunks, fin, summary, decisions, gist, gone>>

\* summarize failed or found nothing durable, or the gist could not be written.
NoGist ==
    /\ sweep.pc = "write"
    /\ sweep' = Skipped
    /\ UNCHANGED <<log, clock, opening, jobs, chunks, fin, summary, decisions, gist, gone>>

\* writeGist: an upsert under the id derived from the session.
WriteGist ==
    /\ sweep.pc = "write"
    /\ gist' = [gist EXCEPT ![Head(sweep.batch)] =
                            [turns |-> sweep.seen, status |-> "active"]]
    /\ sweep' = Skipped
    /\ UNCHANGED <<log, clock, opening, jobs, chunks, fin, summary, decisions, gone>>

\* The deferred reset of Running.
EndSweep ==
    /\ sweep.pc = "read" /\ sweep.batch = <<>>
    /\ sweep' = Asleep
    /\ UNCHANGED <<log, clock, opening, jobs, chunks, fin, summary, decisions, gist, gone>>

Sweep == StartSweep \/ ReadTranscript \/ NoGist \/ WriteGist \/ EndSweep

\* A reviewer rejects a gist: handleReviewAction archives the fact.
RejectGist(s) ==
    /\ gist[s] # None
    /\ gist' = [gist EXCEPT ![s].status = "archived"]
    /\ UNCHANGED <<log, clock, opening, jobs, chunks, fin, summary, decisions, sweep, gone>>

-----------------------------------------------------------------------------
Next ==
    \/ Tick
    \/ \E s \in Session :
          \/ Create(s) \/ Delete(s) \/ FinalizeOverRest(s)
          \/ RejectGist(s)
          \/ \E how \in {"rest", "mcp", "batch"} : Open(s, how)
          \/ \E t \in Turn : Say(s, t)
          \/ \E f \in Finalizer : ReadSession(f, s)
    \/ \E t \in Turn : InitialTurn(t) \/ BatchTurn(t)
    \/ BatchIngest
    \/ PurgeVault
    \/ \E j \in jobs : FindVault(j) \/ IngestTurn(j)
    \/ \E f \in Finalizer : WriteSummary(f) \/ WriteDecisions(f) \/ MarkFinalized(f)
    \/ Sweep

\* The worker's goroutine runs, and its LLM call has a deadline of 60 s.
Fairness == WF_vars(ReadTranscript \/ NoGist \/ WriteGist \/ EndSweep)

Spec == Init /\ [][Next]_vars /\ Fairness

-----------------------------------------------------------------------------
\* The variables keep their types.
TypeOK ==
    /\ parts \in Parts
    /\ row \in [Session -> {"none", "open", "archived", "purged"}]
    /\ count \in [Session -> 0 .. parts.turns]
    /\ updated \in [Session -> 0 .. MaxTime]
    /\ finalized \in [Session -> BOOLEAN]
    /\ turns \in [Session -> Seq(Turn)]
    /\ clock \in 0 .. MaxTime
    /\ opening = None \/ opening \in [session : Session, how : {"rest", "mcp", "batch"}]
    /\ jobs \subseteq [session : Session, turn : 1 .. parts.turns, pc : {"find", "ingest"}]
    /\ chunks \subseteq Session \X (0 .. parts.turns)
    /\ fin \in [Finalizer -> [pc : {"idle", "summary", "decisions", "mark"},
                             session : Session \cup {None}, seen : Seq(Turn)]]
    /\ \A f \in Finalizer : /\ fin[f].pc # "idle" => fin[f].session # None
                            /\ Len(fin[f].seen) <= parts.turns
    /\ summary \in [Session -> 0 .. parts.turns \cup {None}]
    /\ decisions \subseteq Session \X (1 .. parts.turns)
    /\ sweep \in [pc : {"off", "read", "write"}, batch : Seq(Session), seen : 0 .. parts.turns]
    /\ sweep.pc = "write" => sweep.batch # <<>>
    /\ gist \in [Session -> {None} \cup [turns : 0 .. parts.turns,
                                         status : {"active", "archived"}]]
    /\ TurnsStored <= parts.turns
    /\ gone \subseteq Session

\* The log never holds a turn without its session, and a session's counter is
\* the number of its turns, however appends, batches, deletions and purges of
\* the vault interleave (the transactions of logstore.go).
SessionsAddUp ==
    \A s \in Session :
        /\ count[s] = Len(turns[s])
        /\ row[s] \in {"none", "purged"} => turns[s] = <<>>

\* A session deleted before the worker reads its transcript gets no gist, though
\* the worker listed it before the deletion (consolidateVault).
NoGistOfDeleted ==
    [][\A s \in Session :
          gist'[s] # gist[s] /\ s \in gone => gist'[s].status = "archived"]_vars

\* A batch holds no session twice, no more than BatchSize of them and, unless old
\* ones fill it, one than which none is more recent (scheduleReplay); none is
\* begun while a session was in use within the idle window (consolidateVault).
BatchesAreFair ==
    [][sweep.pc = "off" /\ sweep'.pc = "read" =>
          /\ IsInjective(sweep'.batch)
          /\ Len(sweep'.batch) <= BatchSize
          /\ OldCount < BatchSize => \E s \in ToSet(sweep'.batch) :
                \A t \in Session : row[t] = "open" => updated[s] >= updated[t]
          /\ IdleWindow > 0 =>
                \A t \in Session : row[t] = "open" => clock - updated[t] >= IdleWindow]_vars

\* Every sweep ends, whatever fails in it: the flag Running cannot stay set and
\* refuse all later sweeps (RunOnce).
SweepsFinish == []<>(sweep.pc = "off")

-----------------------------------------------------------------------------
(* What the code does not keep (see PROJECT.json, findings).                  *)

\* doFinalizeSession is called idempotent: a summary never gets shorter.
SummariesGrow ==
    [][\A s \in Session : summary[s] # None => summary'[s] >= summary[s]]_vars

\* A rejected gist stays archived.
RejectedGistsStayRejected ==
    [][\A s \in Session : gist[s] # None /\ gist[s].status = "archived" =>
          gist'[s].status = "archived"]_vars

\* A deleted session takes no turns.
DeletedSessionsTakeNoTurns ==
    [][\A s \in Session : row[s] = "archived" /\ row'[s] = "archived" =>
          turns'[s] = turns[s]]_vars

\* The collection of a vault without sessions holds no turns.
NoOrphanChunks == \A c \in chunks : row[c[1]] # "purged"
=============================================================================

----------------------------- MODULE Extraction -----------------------------
(* From conversation to facts: the extraction pipeline that runs behind       *)
(* every appended turn (internal/extraction), the conversation endpoint that  *)
(* shares its store (server/conversation.go), and the pruner's                *)
(* cross-reference scan, which acts on the supersedes marks both leave.       *)
(*                                                                            *)
(* A turn is the one claim it makes: a key and a value. A job is one          *)
(* goroutine of Extractor.Extract. Points have random ids, so a new point     *)
(* takes any free place in the order in which the store scrolls.              *)
EXTENDS Integers, FiniteSets, Sequences, SequencesExt, FiniteSetsExt

CONSTANTS
    Session, Key, Value,
    Similar,        \* pairs of values whose embeddings pass DedupThreshold
    Limits,         \* values of Config.Concurrency to consider
    Interval,       \* Config.PerSessionCooldown
    Window,         \* Config.Window
    Vectors,        \* does ScrollFiltered return the stored vectors?
    NoKey,          \* the empty supersedes field
    Never,          \* no entry in a map of times
    Deletable,      \* bound: the sessions that get deleted
    MaxFacts,       \* bound: facts in one answer of the LLM
    MaxTurns,       \* bound: turns over all sessions
    MaxPoints,      \* bound: points stored
    MaxReviews,     \* bound: points of the conversation endpoint among them
    MaxTime         \* bound: the clock

Claim == [key : Key, value : Value]
Time  == 0 .. MaxTime
Id    == 1 .. MaxPoints

ASSUME ExtractionAssumption ==
    /\ Deletable \subseteq Session
    /\ \A v \in Value : <<v, v>> \in Similar
    /\ Limits \subseteq Nat \ {0}
    /\ Interval \in Nat /\ Window \in Nat
    /\ Vectors \in BOOLEAN
    /\ NoKey \notin Key
    /\ Never \notin Time
    /\ MaxTime \in Nat /\ MaxPoints \in Nat

VARIABLES
    turns,          \* session_turns of every session
    deleted,        \* sessions with archived = 1
    clock,
    last,           \* CooldownTracker.last
    admitted,       \* history: when each session was last let through
    jobs,           \* running goroutines of Extract
    limit,          \* cap(e.sem)
    slots,          \* len(e.sem)
    conv,           \* facts handleIngestConversation still has to store
    points,         \* the facts collection
    scan,           \* supersedeCrossReference: points still to visit, as pairs
                    \* of an id and the supersedes mark it had
    mark,           \* the target it found active, or 0
    blind           \* history: failed dedup lookups of every key

vars == <<turns, deleted, clock, last, admitted, jobs, limit, slots, conv,
          points, scan, mark, blind>>

Statuses == {"active", "needs_review", "superseded"}
Job ==
    [session : Session, turn : Nat,
     pc : {"spawned", "cooled", "asking", "next", "write"},
     facts : Seq(Claim), over : Key \cup {NoKey}]
Point ==
    [id : Id, key : Key, value : Value, status : Statuses,
     supersedes : Key \cup {NoKey}]

Init ==
    /\ turns = [s \in Session |-> <<>>]
    /\ deleted = {}
    /\ clock = 0
    /\ last = [s \in Session |-> Never]
    /\ admitted = [s \in Session |-> Never]
    /\ jobs = {}
    /\ limit \in Limits
    /\ slots = 0
    /\ conv = <<>>
    /\ points = {}
    /\ scan = {}
    /\ mark = 0
    /\ blind = [k \in Key |-> 0]

Said == UNION {ToSet(turns[s]) : s \in Session}
TurnsSaid == FoldSet(LAMBDA s, n : n + Len(turns[s]), 0, Session)

-----------------------------------------------------------------------------
(* Sessions, as far as extraction sees them.                                  *)

\* handleTurnAppend, doAppendTurn: store the turn and, when auto_extract is on,
\* start a job. AppendTurn asks only whether the row exists, so an archived
\* session still accepts turns.
AppendTurn(s, c, extract) ==
    /\ TurnsSaid < MaxTurns
    /\ turns' = [turns EXCEPT ![s] = Append(@, c)]
    /\ jobs' = IF extract
               THEN jobs \cup {[session |-> s, turn |-> Len(turns[s]) + 1,
                                pc |-> "spawned", facts |-> <<>>, over |-> NoKey]}
               ELSE jobs
    /\ UNCHANGED <<deleted, clock, last, admitted, limit, slots, conv, points,
                   scan, mark, blind>>

\* handleSessionDelete: running jobs are not told.
DeleteSession(s) ==
    /\ s \in Deletable \ deleted
    /\ deleted' = deleted \cup {s}
    /\ UNCHANGED <<turns, clock, last, admitted, jobs, limit, slots, conv, points,
                   scan, mark, blind>>

Tick ==
    /\ clock < MaxTime
    /\ clock' = clock + 1
    /\ UNCHANGED <<turns, deleted, last, admitted, jobs, limit, slots, conv, points,
                   scan, mark, blind>>

-----------------------------------------------------------------------------
(* Admission: the cooldown, then a slot of the semaphore.                     *)

Become(j, k) == jobs' = (jobs \ {j}) \cup {k}

\* Mutant of Stale: evictBefore lies in the future, so that the lazy eviction
\* forgets sessions still cooling down.
StaleEarly == {s \in Session : last[s] # Never /\ last[s] < clock + 2 * Interval}

\* TryAcquire's lazy eviction: entries older than twice the interval.
Stale == {s \in Session : last[s] # Never /\ last[s] < clock - 2 * Interval}

Remembered == [s \in Session |-> IF s \in Stale THEN Never ELSE last[s]]

CoolingDown(s) == Remembered[s] # Never /\ clock - Remembered[s] < Interval

\* TryAcquire refuses: the goroutine returns.
Refuse(j) ==
    /\ j.pc = "spawned"
    /\ Interval > 0 /\ CoolingDown(j.session)
    /\ last' = Remembered
    /\ jobs' = jobs \ {j}
    /\ UNCHANGED <<turns, deleted, clock, admitted, limit, slots, conv, points,
                   scan, mark, blind>>

\* TryAcquire lets the session through. A zero interval evicts nothing.
TryAcquire(j) ==
    /\ j.pc = "spawned"
    /\ Interval = 0 \/ ~CoolingDown(j.session)
    /\ last' = [(IF Interval = 0 THEN last ELSE Remembered)
                  EXCEPT ![j.session] = clock]
    /\ admitted' = [admitted EXCEPT ![j.session] = clock]
    /\ Become(j, [j EXCEPT !.pc = "cooled"])
    /\ UNCHANGED <<turns, deleted, clock, limit, slots, conv, points, scan, mark, blind>>

\* The non-blocking send on e.sem: with no slot free the job is dropped, and the
\* cooldown it has just started stays.
Drop(j) ==
    /\ j.pc = "cooled"
    /\ slots = limit
    /\ jobs' = jobs \ {j}
    /\ UNCHANGED <<turns, deleted, clock, last, admitted, limit, slots, conv, points,
                   scan, mark, blind>>

TakeSlot(j) ==
    /\ j.pc = "cooled"
    /\ slots < limit
    /\ slots' = slots + 1
    /\ Become(j, [j EXCEPT !.pc = "asking"])
    /\ UNCHANGED <<turns, deleted, clock, last, admitted, limit, conv, points,
                   scan, mark, blind>>

-----------------------------------------------------------------------------
(* The pipeline proper.                                                       *)

\* RecentTurnsFn fails for an archived session, and the job goes on with the
\* content it was given.
Content(j) ==
    LET own    == turns[j.session][j.turn]
        recent == turns[j.session]
    IN  IF j.session \in deleted \/ Window = 0
        THEN {own}
        ELSE {own} \cup {recent[i] : i \in {i \in DOMAIN recent :
                                              i > Len(recent) - Window}}

\* extractFacts: the LLM's answer is some list of the claims it was shown.
Ask(j) ==
    /\ j.pc = "asking"
    /\ \E facts \in BoundedSeq(Content(j), MaxFacts) :
          Become(j, [j EXCEPT !.pc = "next", !.facts = facts])
    /\ UNCHANGED <<turns, deleted, clock, last, admitted, limit, slots, conv, points,
                   scan, mark, blind>>

\* Mutant of AskFails: the error return comes before the deferred release.
AskFailsKeepingSlot(j) ==
    /\ j.pc = "asking"
    /\ jobs' = jobs \ {j}
    /\ UNCHANGED <<turns, deleted, clock, last, admitted, limit, slots, conv, points,
                   scan, mark, blind>>

\* The call or the parse failed: the goroutine returns and frees its slot.
AskFails(j) ==
    /\ j.pc = "asking"
    /\ jobs' = jobs \ {j}
    /\ slots' = slots - 1
    /\ UNCHANGED <<turns, deleted, clock, last, admitted, limit, conv, points,
                   scan, mark, blind>>

IdsOf(k) == {p.id : p \in {p \in points : p.key = k}}

\* The first n points of a key, in the order of their ids.
OfKey(k, n) ==
    {p \in points : p.key = k /\ Cardinality({i \in IdsOf(k) : i < p.id}) < n}

\* dedupCheck walks the points until one is similar (a duplicate) or active (a
\* value to supersede); points that came without a vector are passed over.
Deciding(c) ==
    LET seen == IF Vectors THEN OfKey(c.key, 10) ELSE {} IN
    {p \in seen : /\ <<c.value, p.value>> \in Similar \/ p.status = "active"
                  /\ \A q \in seen : q.id < p.id =>
                        <<c.value, q.value>> \notin Similar /\ q.status # "active"}

\* Mutant of IsDuplicate: every value is new.
IsNeverDuplicate(c) == FALSE

IsDuplicate(c) == \E p \in Deciding(c) : <<c.value, p.value>> \in Similar

\* A duplicate is skipped.
Skip(j) ==
    /\ j.pc = "next" /\ j.facts # <<>>
    /\ IsDuplicate(Head(j.facts))
    /\ Become(j, [j EXCEPT !.facts = Tail(@)])
    /\ UNCHANGED <<turns, deleted, clock, last, admitted, limit, slots, conv, points,
                   scan, mark, blind>>

\* A new value: to be written, over the key if an active point decided.
Keep(j) ==
    /\ j.pc = "next" /\ j.facts # <<>>
    /\ ~IsDuplicate(Head(j.facts))
    /\ Become(j, [j EXCEPT !.pc = "write",
                           !.over = IF Deciding(Head(j.facts)) = {} THEN NoKey
                                    ELSE Head(j.facts).key])
    /\ UNCHANGED <<turns, deleted, clock, last, admitted, limit, slots, conv, points,
                   scan, mark, blind>>

\* The scroll or the embedding failed: "dedup error, writing anyway".
KeepBlindly(j) ==
    /\ j.pc = "next" /\ j.facts # <<>>
    /\ Become(j, [j EXCEPT !.pc = "write", !.over = NoKey])
    /\ blind' = [blind EXCEPT ![Head(j.facts).key] = @ + 1]
    /\ UNCHANGED <<turns, deleted, clock, last, admitted, limit, slots, conv, points,
                   scan, mark>>

NewPoint(c, status, over) ==
    \E i \in Id \ {p.id : p \in points} :
        points' = points \cup {[id |-> i, key |-> c.key, value |-> c.value,
                                status |-> status, supersedes |-> over]}

\* writeFact: an active point under a fresh random id.
WriteFact(j) ==
    /\ j.pc = "write"
    /\ NewPoint(Head(j.facts), "active", j.over)
    /\ Become(j, [j EXCEPT !.pc = "next", !.facts = Tail(@), !.over = NoKey])
    /\ UNCHANGED <<turns, deleted, clock, last, admitted, limit, slots, conv,
                   scan, mark, blind>>

\* The embedding or the upsert failed: counted as rejected, on to the next.
WriteFails(j) ==
    /\ j.pc = "write"
    /\ Become(j, [j EXCEPT !.pc = "next", !.facts = Tail(@), !.over = NoKey])
    /\ UNCHANGED <<turns, deleted, clock, last, admitted, limit, slots, conv, points,
                   scan, mark, blind>>

\* Mutant of Return: the slot is given back while facts remain to be written.
ReturnEarly(j) ==
    /\ j.pc = "next"
    /\ slots > 0
    /\ jobs' = IF j.facts = <<>> THEN jobs \ {j} ELSE jobs
    /\ slots' = slots - 1
    /\ UNCHANGED <<turns, deleted, clock, last, admitted, limit, conv, points,
                   scan, mark, blind>>

\* All facts processed: the deferred release of the slot.
Return(j) ==
    /\ j.pc = "next" /\ j.facts = <<>>
    /\ jobs' = jobs \ {j}
    /\ slots' = slots - 1
    /\ UNCHANGED <<turns, deleted, clock, last, admitted, limit, conv, points,
                   scan, mark, blind>>

Extract(j) ==
    \/ Refuse(j) \/ TryAcquire(j) \/ Drop(j) \/ TakeSlot(j)
    \/ Ask(j) \/ AskFails(j) \/ Skip(j) \/ Keep(j) \/ KeepBlindly(j)
    \/ WriteFact(j) \/ WriteFails(j) \/ Return(j)

-----------------------------------------------------------------------------
(* handleIngestConversation: no cooldown, no semaphore, no dedup.             *)

Converse ==
    /\ conv = <<>>
    /\ Cardinality({p \in points : p.status = "needs_review"}) < MaxReviews
    /\ \E facts \in BoundedSeq(Claim, 1) : conv' = facts
    /\ UNCHANGED <<turns, deleted, clock, last, admitted, jobs, limit, slots, points,
                   scan, mark, blind>>

\* Every fact becomes a point of its own, to be reviewed; a failed embedding is
\* replaced by a zero vector, a failed upsert is logged and skipped.
StoreClaim ==
    /\ conv # <<>>
    /\ NewPoint(Head(conv), "needs_review", NoKey) \/ UNCHANGED points
    /\ conv' = Tail(conv)
    /\ UNCHANGED <<turns, deleted, clock, last, admitted, jobs, limit, slots,
                   scan, mark, blind>>

-----------------------------------------------------------------------------
(* supersedeCrossReference, over points whose keys repeat.                    *)

\* The points that carry a mark.
CrossReference ==
    /\ scan = {} /\ mark = 0
    /\ scan' = {<<p.id, p.supersedes>> : p \in {p \in points : p.supersedes # NoKey}}
    /\ UNCHANGED <<turns, deleted, clock, last, admitted, jobs, limit, slots, conv,
                   points, mark, blind>>

\* They are visited in the order of their ids. The scroll for the target asks
\* for one point, so it sees the key's first.
FindTarget ==
    /\ mark = 0
    /\ \E e \in scan :
          /\ \A f \in scan : e[1] <= f[1]
          /\ mark' = LET hit == {p \in OfKey(e[2], 1) : p.status = "active"} IN
                     IF hit = {} THEN 0 ELSE (CHOOSE p \in hit : TRUE).id
          /\ scan' = scan \ {e}
    /\ UNCHANGED <<turns, deleted, clock, last, admitted, jobs, limit, slots, conv,
                   points, blind>>

\* Mutant of Retired: every active point of the key is retired with the target.
RetiredAll(i) ==
    {p \in points : p.status = "active" /\ \E q \in points : q.id = i /\ q.key = p.key}

Retired(i) == {p \in points : p.id = i}

\* updateFactStatus on the target found, or its failure.
RetireTarget ==
    /\ mark # 0
    /\ \/ points' = (points \ Retired(mark))
                      \cup {[p EXCEPT !.status = "superseded"] : p \in Retired(mark)}
       \/ UNCHANGED points
    /\ mark' = 0
    /\ UNCHANGED <<turns, deleted, clock, last, admitted, jobs, limit, slots, conv,
                   scan, blind>>

-----------------------------------------------------------------------------
Next ==
    \/ \E s \in Session, c \in Claim, extract \in BOOLEAN : AppendTurn(s, c, extract)
    \/ \E s \in Session : DeleteSession(s)
    \/ Tick
    \/ \E j \in jobs : Extract(j)
    \/ Converse \/ StoreClaim
    \/ CrossReference \/ FindTarget \/ RetireTarget

\* The scheduler runs every goroutine, and the LLM call has a deadline of 60 s.
Fairness == WF_vars(\E j \in jobs : Extract(j))

Spec == Init /\ [][Next]_vars /\ Fairness

-----------------------------------------------------------------------------
\* The variables keep their types.
TypeOK ==
    /\ turns \in [Session -> Seq(Claim)]
    /\ deleted \subseteq Session
    /\ clock \in Time
    /\ last \in [Session -> Time \cup {Never}]
    /\ admitted \in [Session -> Time \cup {Never}]
    /\ jobs \subseteq Job
    /\ limit \in Limits
    /\ slots \in 0 .. limit
    /\ conv \in Seq(Claim)
    /\ points \subseteq Point
    /\ scan \subseteq Id \X Key
    /\ mark \in Id \cup {0}
    /\ blind \in [Key -> Nat]

\* The tokens in the semaphore are those of the jobs past admission: no path
\* through Extract returns a slot it did not take, or returns it twice, or early
\* (the deferred receive of Extractor.Extract).
SlotsAreCounted ==
    slots = Cardinality({j \in jobs : j.pc \in {"asking", "next", "write"}})

\* Two extractions of a session start at least the cooldown apart, although the
\* map forgets old entries while it is looked at (CooldownTracker.TryAcquire).
CooldownHolds ==
    [][\A j \in jobs :
          (/\ j.pc = "spawned" /\ [j EXCEPT !.pc = "cooled"] \in jobs'
           /\ admitted[j.session] # Never)
          => clock - admitted[j.session] >= Interval]_vars

\* Hearing the same thing again and again adds little: a key of which one value was
\* ever said has no more active points than extractions run at once, and one for
\* each failed lookup, as long as its points fit in the lookup. Extractions that
\* run together may each find nothing and write (dedupCheck before writeFact).
FewRepeats ==
    \A k \in Key :
        /\ \A c, d \in Said : c.key = k /\ d.key = k => c = d
        /\ Cardinality(IdsOf(k)) <= 10
        => Cardinality({p \in points : p.key = k /\ p.status = "active"}) <= limit + blind[k]

\* It needs a store that returns the vectors it holds, as the embedded one does.
RepeatsAreSkipped == Vectors => FewRepeats

Known(k) == \E p \in points : p.key = k /\ p.status = "active"

\* Superseding never leaves a key without any active fact: the scan retires
\* points one at a time while jobs keep adding new ones at random places of the
\* order it reads in (supersedeCrossReference over the extractor's points).
KeysStayKnown == [][\A k \in Key : Known(k) => Known(k)']_vars

\* The pipeline never clogs: whatever fails, the semaphore becomes empty again,
\* so later turns can still be extracted (Extract's deferred release).
SlotsComeBack == []<>(slots = 0)
=============================================================================

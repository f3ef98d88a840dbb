------------------------------- MODULE Paging -------------------------------
(***************************************************************************)
(* Reading a whole collection page by page: internal/embeddedstore,        *)
(* internal/qdrant, and every loop over Scroll or ScrollFiltered.          *)
(*                                                                         *)
(* Points come in the order of their ids.  The two stores disagree on an   *)
(* offset: SQLite returns the ids after it, Qdrant those from it on.  The  *)
(* loops disagree on what to pass: the cursor the store handed back, the   *)
(* last point of the page, or the first point of the page they did not     *)
(* use.  Points are written and deleted between pages.                     *)
(***************************************************************************)
EXTENDS Integers, FiniteSets

CONSTANTS Last,        \* the ids are 1..Last
          Reader,      \* concurrent callers
          Loops,       \* the loops a reader may run
          Limit,       \* points per page
          Cap,         \* points at which a capped loop stops
          MaxWrites    \* bound on the writes between pages

ASSUME PagingAssumption == /\ Last \in Nat /\ MaxWrites \in Nat
                           /\ Limit \in Nat \ {0} /\ Cap \in Nat \ {0}

VARIABLES backend,     \* the store this process was configured with
          rows,        \* for each id: a point, or Absent
          reader,      \* for each caller: its loop and where it is
          writes       \* number of writes so far

vars == <<backend, rows, reader, writes>>

Id == 1 .. Last
-----------------------------------------------------------------------------
(* The loops.  advance: what is passed as the next offset; told: whether   *)
(* the caller learns that a page could not be read; only: whether the      *)
(* store filters; drops: whether the loop itself passes over some points   *)
(* of a page; cap: whether it stops at Cap points; write: what it writes   *)
(* for the points of a page before it reads the next one.                  *)

Loop == [advance : {"next", "last", "spare"}, told : BOOLEAN, only : BOOLEAN,
         drops : BOOLEAN, cap : BOOLEAN, write : {"none", "point", "vector"}]

\* Only the listings of facts keep a spare point or pass over some; only
\* scans write.
ASSUME LoopsAssumption ==
    /\ Loops \subseteq Loop
    /\ \A l \in Loops : l.cap => l.advance # "spare"
    /\ \A l \in Loops : l.drops => l.advance = "spare"
    /\ \A l \in Loops : l.write # "none" => l.advance = "last" /\ ~l.cap

Plain == [advance |-> "next", told |-> TRUE, only |-> FALSE, drops |-> FALSE,
          cap |-> FALSE, write |-> "none"]

handleExport        == Plain
handleEmbedProject  == Plain
buildLexicalIndex   == Plain
CountFiles          == Plain
doGraphFull         == [Plain EXCEPT !.told = FALSE, !.cap = TRUE]
fullGraph           == [Plain EXCEPT !.told = FALSE, !.cap = TRUE]
doGraphEntity       == [Plain EXCEPT !.told = FALSE]
entityGraph         == [Plain EXCEPT !.told = FALSE]
handleChunksListGET == [Plain EXCEPT !.cap = TRUE]

scrollAllFacts         == [Plain EXCEPT !.advance = "last"]
scrollAllFilteredFacts == [scrollAllFacts EXCEPT !.only = TRUE]
handleReviewStats      == [scrollAllFacts EXCEPT !.only = TRUE]
handleAgentStats       == [scrollAllFacts EXCEPT !.told = FALSE]
handleContradictions   == [scrollAllFacts EXCEPT !.told = FALSE, !.cap = TRUE]
ensureFactIndexes      == [scrollAllFacts EXCEPT !.told = FALSE, !.write = "vector"]
migrateFacts           == [scrollAllFacts EXCEPT !.write = "point"]

handleReviewGet == [Plain EXCEPT !.advance = "spare", !.only = TRUE]
\* A key prefix is compared in Go, after the page has been read.
handleFactsGet  == [Plain EXCEPT !.advance = "spare", !.drops = TRUE]
-----------------------------------------------------------------------------
(* A point: whether the filter and the prefix accept it, and whether it    *)
(* carries an embedding or the zero vector.                                *)

Row    == [here : BOOLEAN, matches : BOOLEAN, embedded : BOOLEAN]
Absent == [here |-> FALSE, matches |-> FALSE, embedded |-> FALSE]
NewPoint(m) == [here |-> TRUE, matches |-> m, embedded |-> TRUE]

Stored(rs)   == {i \in Id : rs[i].here}
Matching(rs) == {i \in Stored(rs) : rs[i].matches}

\* The points a loop means to show, and those the store goes through.
Wanted(l, rs)  == IF l.only \/ l.drops THEN Matching(rs) ELSE Stored(rs)
Scanned(l, rs) == IF l.only THEN Matching(rs) ELSE Stored(rs)

\* A mutation: WHERE id_key >= offset.
FromInclusive(l, cursor) == {i \in Scanned(l, rows) : i >= cursor}

\* SQLite: WHERE id_key > offset.  Qdrant: from the offset on.
From(l, cursor) == {i \in Scanned(l, rows) : i > cursor \/ (backend = "qdrant" /\ i = cursor)}

\* pg is the first n points of from, or all of it.
FirstOf(pg, from, n) == /\ pg \subseteq from
                        /\ Cardinality(pg) <= n
                        /\ pg # from => Cardinality(pg) = n
                        /\ \A p \in pg, q \in from \ pg : p < q

IsLeast(n, S)    == n \in S /\ \A i \in S : n <= i
IsGreatest(n, S) == n \in S /\ \A i \in S : i <= n
-----------------------------------------------------------------------------
Blank(l) == [loop |-> l, phase |-> "idle", cursor |-> 0, kept |-> {}, shown |-> {},
             again |-> FALSE, pending |-> {}]

ReaderType == [loop : Loops, phase : {"idle", "listing", "complete", "partial", "failed"},
               cursor : 0 .. Last, kept : SUBSET Id, shown : SUBSET Id,
               again : BOOLEAN, pending : SUBSET [id : Id, row : Row]]

\* The types, and that a capped loop shows no more points than its cap.
TypeOK ==
    /\ backend \in {"embedded", "qdrant"}
    /\ rows \in [Id -> Row]
    /\ writes \in 0 .. MaxWrites
    /\ reader \in [Reader -> ReaderType]
    /\ \A r \in Reader : reader[r].loop.cap => Cardinality(reader[r].shown) <= Cap

Init == /\ backend \in {"embedded", "qdrant"}
        /\ rows \in [Id -> {NewPoint(TRUE), NewPoint(FALSE), Absent}]
        /\ \E l \in [Reader -> Loops] : reader = [r \in Reader |-> Blank(l[r])]
        /\ writes = 0

Listing(r) == reader[r].phase = "listing"

\* New migrates the facts before it serves requests; the scan for zero
\* vectors it started earlier runs beside it.
Starting == \E r \in Reader : Listing(r) /\ reader[r].loop.write = "point"
-----------------------------------------------------------------------------
\* What of a listing's points has been there all along.
Keep(after) == [r \in Reader |-> IF Listing(r)
                  THEN [reader[r] EXCEPT !.kept = @ \cap Wanted(reader[r].loop, after)]
                  ELSE reader[r]]

Write(after) == /\ ~Starting /\ writes < MaxWrites
                /\ writes' = writes + 1
                /\ rows' = after
                /\ reader' = Keep(after)
                /\ UNCHANGED backend

\* One transaction, or one call with wait, replaces payloads and vectors.
Upsert == \E S \in SUBSET Id \ {{}}, m \in BOOLEAN :
             Write([i \in Id |-> IF i \in S THEN NewPoint(m) ELSE rows[i]])

\* Fields of a stored point; the embedded store refuses.
SetPayload == \E i \in Stored(rows) : /\ backend = "qdrant"
                                      /\ Write([rows EXCEPT ![i].matches = ~@])

\* By source file or by filter; without one, everything.
Delete == \E S \in SUBSET Stored(rows) \ {{}} :
             Write([i \in Id |-> IF i \in S THEN Absent ELSE rows[i]])
-----------------------------------------------------------------------------
Begin(r) ==
    /\ ~Listing(r)
    /\ reader[r].loop.write = "point" => writes = 0 /\ \A s \in Reader : reader[s].loop.write = "none" => ~Listing(s)
    /\ reader[r].loop.write = "none" => ~Starting
    /\ reader' = [reader EXCEPT ![r] =
         [Blank(@.loop) EXCEPT !.phase = "listing", !.kept = Wanted(reader[r].loop, rows), !.again = reader[r].again]]
    /\ UNCHANGED <<backend, rows, writes>>

\* A mutation: a capped loop asks for full pages.
AskedInFull(q) == IF q.loop.advance = "spare" THEN Limit + 1 ELSE Limit

\* One more than is wanted tells whether there is another page; a capped
\* loop asks for no more than it still lacks.
Asked(q) == IF q.loop.advance = "spare" THEN Limit + 1
            ELSE IF q.loop.cap /\ Cap - Cardinality(q.shown) < Limit
                 THEN Cap - Cardinality(q.shown) ELSE Limit

\* The points of a page the loop uses.
Accepted(q, pg) == IF q.loop.drops THEN pg \cap Matching(rows) ELSE pg
Uses(q, pg, used) == IF q.loop.advance = "spare" THEN FirstOf(used, Accepted(q, pg), Limit)
                     ELSE used = pg

\* A mutation: the store hands back the first row it did not return.
AdvancesPastSpare(q, pg, used, next) ==
    LET unread == From(q.loop, q.cursor) \ pg IN
    IF unread = {} THEN next = 0 ELSE IsLeast(next, unread)

\* The offset of the next page; 0 when this was the last one.
Advances(q, pg, used, next) ==
    LET unread == From(q.loop, q.cursor) \ pg
        spare  == Accepted(q, pg) \ used IN
    \/ /\ q.loop.advance = "last"
       /\ IF pg = {} THEN next = 0 ELSE IsGreatest(next, pg)
    \/ /\ q.loop.advance = "spare"
       /\ IF spare = {} THEN next = 0 ELSE IsLeast(next, spare)
    \/ /\ q.loop.advance = "next"
       /\ IF unread = {} THEN next = 0
          ELSE IF backend = "qdrant" THEN IsLeast(next, unread) ELSE IsGreatest(next, pg)

PhaseAfter(q, next, shown) ==
    IF next = 0 THEN "complete"
    ELSE IF q.loop.cap /\ Cardinality(shown) >= Cap THEN "partial" ELSE "listing"

\* A mutation: the migration does not look for the page's vectors.
RememberedBare(i) == [id |-> i, row |-> [rows[i] EXCEPT !.embedded = FALSE]]

\* Only the embedded store's pages carry vectors.
Remembered(i) == [id |-> i, row |-> [rows[i] EXCEPT !.embedded = @ /\ backend = "embedded"]]

\* The reader after a page of which it used some points.
Turned(q, used, next) ==
    [q EXCEPT !.cursor = IF next = 0 THEN @ ELSE next,
              !.shown = @ \cup used,
              !.again = @ \/ used \cap q.shown # {},
              !.pending = IF q.loop.write = "none" THEN {} ELSE {Remembered(i) : i \in used},
              !.phase = PhaseAfter(q, next, q.shown \cup used)]

\* One page is read and used.
Page(r) ==
    LET q == reader[r] IN
    /\ Listing(r) /\ q.pending = {}
    /\ \E pg \in SUBSET From(q.loop, q.cursor), next \in 0 .. Last :
       /\ FirstOf(pg, From(q.loop, q.cursor), Asked(q))
       /\ \E used \in SUBSET pg :
          /\ Uses(q, pg, used)
          /\ Advances(q, pg, used, next)
          /\ reader' = [reader EXCEPT ![r] = Turned(q, used, next)]
    /\ UNCHANGED <<backend, rows, writes>>

\* A page cannot be read: the caller is told, or answered with less.
PageFails(r) == /\ Listing(r) /\ reader[r].pending = {}
                /\ reader' = [reader EXCEPT ![r].phase = IF reader[r].loop.told THEN "failed" ELSE "partial"]
                /\ UNCHANGED <<backend, rows, writes>>

\* migrateFacts writes the whole point as it was on the page, if a default is
\* missing; the scan for zero vectors stores an embedding if it saw none.
WriteBack(r) ==
    \E p \in reader[r].pending :
      /\ reader' = [reader EXCEPT ![r].pending = @ \ {p}]
      /\ \/ UNCHANGED rows
         \/ /\ reader[r].loop.write = "point"
            /\ rows' = [rows EXCEPT ![p.id] = p.row]
         \/ /\ reader[r].loop.write = "vector" /\ ~p.row.embedded
            /\ backend = "qdrant" /\ rows[p.id].here
            /\ rows' = [rows EXCEPT ![p.id].embedded = TRUE]
      /\ UNCHANGED <<backend, writes>>
-----------------------------------------------------------------------------
Writer == Upsert \/ SetPayload \/ Delete

Next == Writer \/ \E r \in Reader : Begin(r) \/ Page(r) \/ PageFails(r) \/ WriteBack(r)

Spec == Init /\ [][Next]_vars

\* A request's goroutine goes on until it answers.
FairSpec == Spec /\ \A r \in Reader : WF_vars(Page(r)) /\ WF_vars(WriteBack(r))
-----------------------------------------------------------------------------
(* Properties. *)

AbstractPhase(p) == IF p \in {"partial", "failed"} THEN "incomplete" ELSE p

L(r) == INSTANCE Listing WITH
          Point  <- Id,
          stored <- Wanted(reader[r].loop, rows),
          phase  <- AbstractPhase(reader[r].phase),
          kept   <- reader[r].kept,
          shown  <- reader[r].shown,
          again  <- reader[r].again

\* The loops that pass an offset the way their store takes it.
Suited(r) == IF backend = "embedded" THEN reader[r].loop.advance # "spare"
             ELSE reader[r].loop.advance # "last" /\ ~reader[r].loop.drops

\* Every listing by a suited loop is one of module Listing: whatever is
\* written between its pages, it shows no point twice, and if it answers
\* without having stopped early it has shown every point that was there
\* throughout.  (The cursors of internal/embeddedstore and internal/qdrant
\* and the offsets the loops pass.)
ListingsAreComplete == /\ \A r \in Reader : L(r)!LInit
                       /\ [][\A r \in Reader : Suited(r) => [L(r)!LNext]_(L(r)!lvars)]_vars

\* A suited loop ends, however many points are written while it runs.
ListingsEnd == \A r \in Reader : Listing(r) /\ Suited(r) ~> ~Listing(r)

\* Over the embedded store nothing but a delete takes an embedding away:
\* migrateFacts writes each point back with the vector of the page.
EmbeddingsSurvive ==
    [][backend = "embedded" =>
         \A i \in Id : rows[i].embedded /\ rows'[i].here => rows'[i].embedded]_vars

\* What the comments of the code say of every loop and both stores; false of
\* some (see the README): each listing is complete, each loop ends, and the
\* migration preserves existing vectors.
PrefixListingsAreComplete ==
    \A r \in Reader : reader[r].loop = handleFactsGet /\ reader[r].phase = "complete"
                        => reader[r].kept \subseteq reader[r].shown
ScansEnd == \A r \in Reader : Listing(r) ~> ~Listing(r)
VectorsArePreserved ==
    [][\A i \in Id : rows[i].embedded /\ rows'[i].here => rows'[i].embedded]_vars
=============================================================================

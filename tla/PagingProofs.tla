---------------------------- MODULE PagingProofs ----------------------------
(***************************************************************************)
(* Theorems about Paging, for any ids, readers, loops, page sizes and      *)
(* caps: its types, that every listing by a loop suited to its store is a  *)
(* listing of module Listing, and that the embedded store loses no         *)
(* embedding.                                                              *)
(***************************************************************************)
EXTENDS Paging, FiniteSetTheorems, TLAPS

LEMMA IdFinite == IsFiniteSet(Id)
  <1>1. Last \in Int  BY PagingAssumption
  <1> QED  BY <1>1, FS_Interval DEF Id

\* What the type invariant says of one reader.
LEMMA ReaderFields ==
  ASSUME TypeOK, NEW r \in Reader
  PROVE  /\ reader[r] \in ReaderType
         /\ reader[r].loop \in Loops /\ reader[r].loop \in Loop
         /\ reader[r].cursor \in 0 .. Last
         /\ reader[r].kept \subseteq Id /\ reader[r].shown \subseteq Id
         /\ reader[r].again \in BOOLEAN
         /\ reader[r].pending \subseteq [id : Id, row : Row]
         /\ reader[r].phase \in {"idle", "listing", "complete", "partial", "failed"}
  BY LoopsAssumption DEF TypeOK, ReaderType

LEMMA CapOfNothing == Cardinality({}) = 0
  BY FS_EmptySet

LEMMA TypesAtFirst == Init => TypeOK
  <1> SUFFICES ASSUME Init PROVE TypeOK
      OBVIOUS
  <1>1. PICK l \in [Reader -> Loops] : reader = [r \in Reader |-> Blank(l[r])]
      BY DEF Init
  <1>2. \A r \in Reader : Blank(l[r]) \in ReaderType
      BY <1>1, PagingAssumption DEF Blank, ReaderType
  <1>3. reader \in [Reader -> ReaderType]
      BY <1>1, <1>2
  <1>4. \A r \in Reader : Cardinality(reader[r].shown) <= Cap
      <2>1. \A r \in Reader : reader[r].shown = {}
          BY <1>1 DEF Blank
      <2>2. Cap \in Nat
          BY PagingAssumption
      <2>3. Cardinality({}) <= Cap
          BY <2>2, CapOfNothing
      <2> QED  BY <2>1, <2>3
  <1>5. rows \in [Id -> Row]
      <2>1. {NewPoint(TRUE), NewPoint(FALSE), Absent} \subseteq Row
          BY DEF NewPoint, Absent, Row
      <2>2. rows \in [Id -> {NewPoint(TRUE), NewPoint(FALSE), Absent}]
          BY Zenon DEF Init
      <2> QED  BY <2>1, <2>2
  <1> QED  BY <1>3, <1>4, <1>5, PagingAssumption DEF Init, TypeOK

\* A write replaces rows and takes points out of what is owed.
LEMMA TypesAfterWrite ==
  ASSUME TypeOK, NEW after \in [Id -> Row], Write(after)
  PROVE  TypeOK'
  <1>1. reader' = Keep(after) /\ rows' = after /\ writes' = writes + 1 /\ writes < MaxWrites
        /\ UNCHANGED backend
      BY DEF Write
  <1>2. ASSUME NEW r \in Reader
        PROVE  /\ reader'[r] \in ReaderType
               /\ reader'[r].loop = reader[r].loop /\ reader'[r].shown = reader[r].shown
      <2>1. reader[r] \in ReaderType  BY DEF TypeOK
      <2>2. reader'[r] = IF Listing(r)
                           THEN [reader[r] EXCEPT !.kept = @ \cap Wanted(reader[r].loop, after)]
                           ELSE reader[r]
          BY <1>1 DEF Keep
      <2> QED  BY <2>1, <2>2 DEF ReaderType
  <1>3. reader' \in [Reader -> ReaderType]
      BY <1>1, <1>2 DEF Keep
  <1>4. writes' \in 0 .. MaxWrites
      BY <1>1, PagingAssumption DEF TypeOK
  <1> QED  BY <1>1, <1>2, <1>3, <1>4 DEF TypeOK

\* The rows a writer leaves are rows.
LEMMA WriterWrites ==
  ASSUME TypeOK, Writer
  PROVE  \E after \in [Id -> Row] : Write(after)
  <1>1. CASE Upsert
      <2>1. PICK S \in SUBSET Id, m \in BOOLEAN :
              Write([i \in Id |-> IF i \in S THEN NewPoint(m) ELSE rows[i]])
          BY <1>1 DEF Upsert
      <2>2. [i \in Id |-> IF i \in S THEN NewPoint(m) ELSE rows[i]] \in [Id -> Row]
          BY DEF TypeOK, NewPoint, Row
      <2> QED  BY <2>1, <2>2
  <1>2. CASE SetPayload
      <2>1. PICK i \in Stored(rows) : Write([rows EXCEPT ![i].matches = ~@])
          BY <1>2 DEF SetPayload
      <2>2. i \in Id /\ rows[i] \in Row  BY DEF Stored, TypeOK
      <2>3. [rows[i] EXCEPT !.matches = ~@] \in Row  BY <2>2 DEF Row
      <2>4. [rows EXCEPT ![i].matches = ~@] \in [Id -> Row]
          BY <2>2, <2>3 DEF TypeOK
      <2> QED  BY <2>1, <2>4
  <1>3. CASE Delete
      <2>1. PICK S \in SUBSET Stored(rows) :
              Write([i \in Id |-> IF i \in S THEN Absent ELSE rows[i]])
          BY <1>3 DEF Delete
      <2>2. [i \in Id |-> IF i \in S THEN Absent ELSE rows[i]] \in [Id -> Row]
          BY DEF TypeOK, Absent, Row
      <2> QED  BY <2>1, <2>2
  <1> QED  BY <1>1, <1>2, <1>3 DEF Writer

\* One reader moves and stays well-typed.
LEMMA TypesAfterMove ==
  ASSUME TypeOK, NEW r \in Reader, NEW q \in ReaderType,
         reader' = [reader EXCEPT ![r] = q],
         q.loop.cap => Cardinality(q.shown) <= Cap,
         rows' \in [Id -> Row], UNCHANGED <<backend, writes>>
  PROVE  TypeOK'
  BY DEF TypeOK

LEMMA TypesAfterBegin ==
  ASSUME TypeOK, NEW r \in Reader, Begin(r)
  PROVE  TypeOK'
  <1> DEFINE q == [Blank(reader[r].loop) EXCEPT !.phase = "listing",
                     !.kept = Wanted(reader[r].loop, rows), !.again = reader[r].again]
  <1>1. Wanted(reader[r].loop, rows) \subseteq Id
      BY DEF Wanted, Matching, Stored
  <1>2. q \in ReaderType
      <2>1. Blank(reader[r].loop) \in ReaderType
          BY ReaderFields, PagingAssumption DEF Blank, ReaderType
      <2>2. reader[r].again \in BOOLEAN  BY ReaderFields
      <2> QED  BY <1>1, <2>1, <2>2 DEF ReaderType
  <1>3. Cardinality(q.shown) <= Cap  BY CapOfNothing, PagingAssumption DEF Blank
  <1>4. reader' = [reader EXCEPT ![r] = q]  BY DEF Begin
  <1>5. rows' \in [Id -> Row] /\ UNCHANGED <<backend, writes>>  BY DEF Begin, TypeOK
  <1> HIDE DEF q
  <1> QED  BY <1>2, <1>3, <1>4, <1>5, TypesAfterMove

LEMMA TypesAfterFailure ==
  ASSUME TypeOK, NEW r \in Reader, PageFails(r)
  PROVE  TypeOK'
  <1> DEFINE q == [reader[r] EXCEPT !.phase = IF reader[r].loop.told THEN "failed" ELSE "partial"]
  <1>1. q \in ReaderType  BY ReaderFields DEF ReaderType
  <1>2. q.shown = reader[r].shown /\ q.loop = reader[r].loop  BY ReaderFields DEF ReaderType
  <1>3. reader' = [reader EXCEPT ![r] = q]  BY DEF PageFails
  <1>4. rows' \in [Id -> Row] /\ UNCHANGED <<backend, writes>>  BY DEF PageFails, TypeOK
  <1>5. q.loop.cap => Cardinality(q.shown) <= Cap  BY <1>2 DEF TypeOK
  <1> HIDE DEF q
  <1> QED  BY <1>1, <1>3, <1>4, <1>5, TypesAfterMove

\* The fields of a reader after a page.
LEMMA TurnedFields ==
  ASSUME TypeOK, NEW q \in ReaderType, NEW used \in SUBSET Id, NEW next \in 0 .. Last
  PROVE  /\ Turned(q, used, next) \in ReaderType
         /\ Turned(q, used, next).loop = q.loop
         /\ Turned(q, used, next).kept = q.kept
         /\ Turned(q, used, next).shown = q.shown \cup used
         /\ Turned(q, used, next).cursor = (IF next = 0 THEN q.cursor ELSE next)
         /\ Turned(q, used, next).phase = PhaseAfter(q, next, q.shown \cup used)
         /\ Turned(q, used, next).again => q.again \/ used \cap q.shown # {}
  <1> DEFINE t == Turned(q, used, next)
             pend == IF q.loop.write = "none" THEN {} ELSE {Remembered(i) : i \in used}
             ph == PhaseAfter(q, next, q.shown \cup used)
             ag == (q.again \/ used \cap q.shown # {})
  <1>2. pend \subseteq [id : Id, row : Row]
      <2>1. ASSUME NEW i \in Id PROVE Remembered(i) \in [id : Id, row : Row]
          <3>1. rows[i] \in Row  BY DEF TypeOK
          <3>2. [rows[i] EXCEPT !.embedded = @ /\ backend = "embedded"] \in Row
              BY <3>1 DEF Row
          <3> QED  BY <3>2 DEF Remembered
      <2> QED  BY <2>1
  <1>3. ph \in {"idle", "listing", "complete", "partial", "failed"}
      BY DEF PhaseAfter
  <1>4. ag \in BOOLEAN  BY Zenon
  <1>5. t = [q EXCEPT !.cursor = IF next = 0 THEN @ ELSE next, !.shown = @ \cup used,
                      !.again = ag, !.pending = pend, !.phase = ph]
      BY DEF Turned
  <1>6. q.shown \subseteq Id /\ q.cursor \in 0 .. Last  BY DEF ReaderType
  <1> HIDE DEF t, pend, ph, ag
  <1>7. t \in ReaderType
      BY <1>2, <1>3, <1>4, <1>5, <1>6 DEF ReaderType
  <1>8. /\ t.loop = q.loop /\ t.kept = q.kept /\ t.shown = q.shown \cup used
        /\ t.cursor = (IF next = 0 THEN q.cursor ELSE next)
        /\ t.phase = ph
      BY <1>5 DEF ReaderType
  <1>9. t.again = ag
      BY <1>5 DEF ReaderType
  <1> QED  BY <1>7, <1>8, <1>9 DEF t, pend, ph, ag

\* A page, by the lemma above.
LEMMA PageTurns ==
  ASSUME TypeOK, NEW r \in Reader, Page(r)
  PROVE  LET q == reader[r] IN
         \E pg \in SUBSET From(q.loop, q.cursor), next \in 0 .. Last, used \in SUBSET Id :
            /\ used \subseteq pg
            /\ FirstOf(pg, From(q.loop, q.cursor), Asked(q))
            /\ Uses(q, pg, used)
            /\ Advances(q, pg, used, next)
            /\ reader' = [reader EXCEPT ![r] = Turned(q, used, next)]
  <1> DEFINE q == reader[r]
  <1>1. PICK pg \in SUBSET From(q.loop, q.cursor), next \in 0 .. Last :
          /\ FirstOf(pg, From(q.loop, q.cursor), Asked(q))
          /\ \E used \in SUBSET pg :
               /\ Uses(q, pg, used) /\ Advances(q, pg, used, next)
               /\ reader' = [reader EXCEPT ![r] = Turned(q, used, next)]
      BY DEF Page
  <1>2. From(q.loop, q.cursor) \subseteq Id
      BY DEF From, Scanned, Matching, Stored
  <1> QED  BY <1>1, <1>2

LEMMA TypesAfterPage ==
  ASSUME TypeOK, NEW r \in Reader, Page(r)
  PROVE  TypeOK'
  <1> DEFINE q == reader[r]
  <1>1. PICK pg \in SUBSET From(q.loop, q.cursor), next \in 0 .. Last, used \in SUBSET Id :
            /\ used \subseteq pg
            /\ FirstOf(pg, From(q.loop, q.cursor), Asked(q))
            /\ Uses(q, pg, used)
            /\ reader' = [reader EXCEPT ![r] = Turned(q, used, next)]
      BY PageTurns
  <1>2. Turned(q, used, next) \in ReaderType /\ Turned(q, used, next).loop = q.loop
        /\ Turned(q, used, next).shown = q.shown \cup used
      <2>1. q \in ReaderType  BY ReaderFields
      <2>2. used \in SUBSET Id /\ next \in 0 .. Last  OBVIOUS
      <2> HIDE DEF q
      <2>3. Turned(q, used, next) \in ReaderType  BY <2>1, <2>2, TurnedFields
      <2>4. Turned(q, used, next).loop = q.loop  BY <2>1 DEF Turned, ReaderType
      <2>5. Turned(q, used, next).shown = q.shown \cup used  BY <2>1 DEF Turned, ReaderType
      <2> QED  BY <2>3, <2>4, <2>5
  <1>3. q.loop.cap => Cardinality(q.shown \cup used) <= Cap
      <2> SUFFICES ASSUME q.loop.cap PROVE Cardinality(q.shown \cup used) <= Cap
          OBVIOUS
      <2>1. q.loop \in Loops /\ q.shown \subseteq Id /\ Cardinality(q.shown) <= Cap
          BY ReaderFields DEF TypeOK
      <2>2. q.loop.advance # "spare"  BY <2>1, LoopsAssumption, Zenon
      <2>3. used = pg  BY <1>1, <2>2 DEF Uses
      <2>4. IsFiniteSet(q.shown) /\ IsFiniteSet(used)  BY <2>1, IdFinite, FS_Subset
      <2>5. /\ Cardinality(q.shown) \in Nat /\ Cardinality(used) \in Nat
            /\ Cardinality(q.shown \cap used) \in Nat
          BY <2>4, FS_CardinalityType, FS_Intersection
      <2>6. Cardinality(q.shown \cup used)
              = Cardinality(q.shown) + Cardinality(used) - Cardinality(q.shown \cap used)
          BY <2>4, FS_Union
      <2>7. Cardinality(used) <= Asked(q)  BY <1>1, <2>3 DEF FirstOf
      <2>8. Asked(q) <= Cap - Cardinality(q.shown)
          BY <2>2, <2>5, <2>1, PagingAssumption DEF Asked
      <2>9. Asked(q) \in Int
          BY <2>2, <2>5, PagingAssumption DEF Asked
      <2> QED  BY <2>5, <2>6, <2>7, <2>8, <2>9, PagingAssumption
  <1>4. rows' \in [Id -> Row] /\ UNCHANGED <<backend, writes>>  BY DEF Page, TypeOK
  <1> QED  BY <1>1, <1>2, <1>3, <1>4, TypesAfterMove

LEMMA TypesAfterWriteBack ==
  ASSUME TypeOK, NEW r \in Reader, WriteBack(r)
  PROVE  TypeOK'
  <1>1. PICK p \in reader[r].pending :
          /\ reader' = [reader EXCEPT ![r].pending = @ \ {p}]
          /\ \/ UNCHANGED rows
             \/ rows' = [rows EXCEPT ![p.id] = p.row]
             \/ rows' = [rows EXCEPT ![p.id].embedded = TRUE]
          /\ UNCHANGED <<backend, writes>>
      BY DEF WriteBack
  <1>2. p.id \in Id /\ p.row \in Row  BY ReaderFields
  <1>3. rows' \in [Id -> Row]
      <2>1. rows \in [Id -> Row]  BY DEF TypeOK
      <2>2. rows[p.id] \in Row  BY <1>2, <2>1
      <2>3. [rows[p.id] EXCEPT !.embedded = TRUE] \in Row  BY <2>2 DEF Row
      <2> QED  BY <1>1, <1>2, <2>1, <2>3
  <1> DEFINE q == [reader[r] EXCEPT !.pending = @ \ {p}]
  <1>4. q \in ReaderType /\ q.loop = reader[r].loop /\ q.shown = reader[r].shown
      BY ReaderFields DEF ReaderType
  <1>5. reader' = [reader EXCEPT ![r] = q]  BY <1>1
  <1>6. q.loop.cap => Cardinality(q.shown) <= Cap  BY <1>4 DEF TypeOK
  <1> HIDE DEF q
  <1> QED  BY <1>1, <1>3, <1>4, <1>5, <1>6, TypesAfterMove

LEMMA TypesAfterStep == TypeOK /\ [Next]_vars => TypeOK'
  <1> SUFFICES ASSUME TypeOK, [Next]_vars PROVE TypeOK'
      OBVIOUS
  <1>1. CASE UNCHANGED vars  BY <1>1 DEF vars, TypeOK
  <1>2. CASE Writer  BY <1>2, WriterWrites, TypesAfterWrite
  <1>3. ASSUME NEW r \in Reader, Begin(r) PROVE TypeOK'  BY <1>3, TypesAfterBegin
  <1>4. ASSUME NEW r \in Reader, Page(r) PROVE TypeOK'  BY <1>4, TypesAfterPage
  <1>5. ASSUME NEW r \in Reader, PageFails(r) PROVE TypeOK'  BY <1>5, TypesAfterFailure
  <1>6. ASSUME NEW r \in Reader, WriteBack(r) PROVE TypeOK'  BY <1>6, TypesAfterWriteBack
  <1> QED  BY <1>1, <1>2, <1>3, <1>4, <1>5, <1>6 DEF Next

\* The types of the pager, and no capped loop (the chunk list, the graphs)
\* ever shows more points than its cap.
THEOREM TypeCorrectness == Spec => []TypeOK
  BY TypesAtFirst, TypesAfterStep, PTL DEF Spec

-----------------------------------------------------------------------------
(* The refinement.  A listing has shown exactly what it owes of the part   *)
(* of the collection its cursor has passed, and nothing of the rest.       *)

Passed(r) == {i \in Id : i < reader[r].cursor \/ (backend = "embedded" /\ i = reader[r].cursor)}

\* Points a scan is about to write back are still what it read of them, as
\* far as any listing can tell.
PendingIsCurrent(r) ==
    reader[r].loop.write = "point" =>
       \A p \in reader[r].pending : /\ Listing(r)
                                    /\ rows[p.id].here = p.row.here
                                    /\ rows[p.id].matches = p.row.matches

Behind(r) ==
    Listing(r) => /\ reader[r].shown \subseteq Passed(r)
                  /\ reader[r].kept \subseteq Wanted(reader[r].loop, rows)
                  /\ reader[r].kept \cap Passed(r) \subseteq reader[r].shown
                  /\ reader[r].loop.cap => Cardinality(reader[r].shown) < Cap

Keeps(r) == Suited(r) => Behind(r) /\ ~reader[r].again

Inv == /\ TypeOK
       /\ \A r \in Reader : PendingIsCurrent(r) /\ Keeps(r)

\* Two rows arrays a listing cannot tell apart.
Alike(rs) == \A i \in Id : rs[i].here = rows[i].here /\ rs[i].matches = rows[i].matches

LEMMA AlikeIsWanted ==
  ASSUME NEW l, NEW rs, Alike(rs)
  PROVE  Wanted(l, rs) = Wanted(l, rows)
  BY DEF Alike, Wanted, Matching, Stored

LEMMA InvAtFirst == Init => Inv
  <1> SUFFICES ASSUME Init PROVE Inv
      OBVIOUS
  <1>1. TypeOK  BY TypesAtFirst
  <1>2. PICK l \in [Reader -> Loops] : reader = [r \in Reader |-> Blank(l[r])]
      BY DEF Init
  <1>3. ASSUME NEW r \in Reader PROVE PendingIsCurrent(r) /\ Keeps(r)
      <2>1. reader[r] = Blank(l[r])  BY <1>2
      <2>2. reader[r].phase = "idle" /\ reader[r].pending = {} /\ reader[r].again = FALSE
          BY <2>1 DEF Blank
      <2> QED  BY <2>2 DEF PendingIsCurrent, Keeps, Behind, Listing
  <1> QED  BY <1>1, <1>3 DEF Inv

\* Writing back changes nothing a listing could tell.
LEMMA WriteBackAlike ==
  ASSUME Inv, NEW r \in Reader, WriteBack(r)
  PROVE  Alike(rows')
  <1>1. PICK p \in reader[r].pending :
          \/ UNCHANGED rows
          \/ reader[r].loop.write = "point" /\ rows' = [rows EXCEPT ![p.id] = p.row]
          \/ rows' = [rows EXCEPT ![p.id].embedded = TRUE]
      BY DEF WriteBack
  <1>2. p.id \in Id /\ p.row \in Row /\ rows \in [Id -> Row]
      BY ReaderFields DEF TypeOK, Inv
  <1>3. CASE UNCHANGED rows  BY <1>3 DEF Alike
  <1>4. CASE reader[r].loop.write = "point" /\ rows' = [rows EXCEPT ![p.id] = p.row]
      <2>1. rows[p.id].here = p.row.here /\ rows[p.id].matches = p.row.matches
          BY <1>4 DEF Inv, PendingIsCurrent
      <2> QED  BY <1>2, <1>4, <2>1 DEF Alike
  <1>5. CASE rows' = [rows EXCEPT ![p.id].embedded = TRUE]
      <2>1. rows[p.id] \in Row  BY <1>2
      <2> QED  BY <1>2, <1>5, <2>1 DEF Alike, Row
  <1> QED  BY <1>1, <1>3, <1>4, <1>5

\* A reader that does not move itself, under rows that look the same.
LEMMA Unmoved ==
  ASSUME Inv, NEW s \in Reader, reader'[s] = reader[s], Alike(rows'), UNCHANGED backend
  PROVE  PendingIsCurrent(s)' /\ Keeps(s)'
  <1>1. Wanted(reader[s].loop, rows') = Wanted(reader[s].loop, rows)
      BY AlikeIsWanted
  <1>2. PendingIsCurrent(s)'
      <2>1. ASSUME NEW p \in reader[s].pending PROVE p.id \in Id
          BY <2>1, ReaderFields DEF Inv
      <2> QED  BY <2>1 DEF Inv, PendingIsCurrent, Listing, Alike
  <1>3. Keeps(s)'
      BY <1>1 DEF Inv, Keeps, Behind, Suited, Listing, Passed
  <1> QED  BY <1>2, <1>3

\* While a point loop has points to write back nobody else writes.
LEMMA InvAfterWrite ==
  ASSUME Inv, NEW after \in [Id -> Row], Write(after), NEW s \in Reader
  PROVE  PendingIsCurrent(s)' /\ Keeps(s)'
  <1>1. reader' = Keep(after) /\ rows' = after /\ ~Starting /\ UNCHANGED backend
      BY DEF Write
  <1>2. reader[s] \in ReaderType  BY ReaderFields DEF Inv
  <1>3. reader'[s] = IF Listing(s)
                       THEN [reader[s] EXCEPT !.kept = @ \cap Wanted(reader[s].loop, after)]
                       ELSE reader[s]
      BY <1>1 DEF Keep
  <1>4. /\ reader'[s].loop = reader[s].loop /\ reader'[s].phase = reader[s].phase
        /\ reader'[s].cursor = reader[s].cursor /\ reader'[s].shown = reader[s].shown
        /\ reader'[s].again = reader[s].again /\ reader'[s].pending = reader[s].pending
        /\ Listing(s) => reader'[s].kept = reader[s].kept \cap Wanted(reader[s].loop, after)
      BY <1>2, <1>3 DEF ReaderType
  <1>5. PendingIsCurrent(s)'
      <2>1. reader[s].loop.write = "point" => reader[s].pending = {}
          BY <1>1 DEF Starting, Inv, PendingIsCurrent
      <2> QED  BY <1>4, <2>1 DEF PendingIsCurrent
  <1>6. Keeps(s)'
      <2> SUFFICES ASSUME Suited(s)' PROVE Behind(s)' /\ ~reader'[s].again
          BY DEF Keeps
      <2>1. Suited(s)  BY <1>1, <1>4 DEF Suited
      <2>2. Behind(s) /\ ~reader[s].again  BY <2>1 DEF Inv, Keeps
      <2>3. Passed(s)' = Passed(s)  BY <1>1, <1>4 DEF Passed
      <2>4. Behind(s)'  BY <1>1, <1>4, <2>2, <2>3 DEF Behind, Listing
      <2> QED  BY <1>4, <2>2, <2>4
  <1> QED  BY <1>5, <1>6

LEMMA InvAfterBegin ==
  ASSUME Inv, NEW r \in Reader, Begin(r)
  PROVE  PendingIsCurrent(r)' /\ Keeps(r)'
  <1>1. reader[r] \in ReaderType /\ reader \in [Reader -> ReaderType]
      BY ReaderFields DEF Inv, TypeOK
  <1>2. /\ reader'[r].loop = reader[r].loop /\ reader'[r].cursor = 0
        /\ reader'[r].shown = {} /\ reader'[r].pending = {}
        /\ reader'[r].again = reader[r].again
        /\ reader'[r].kept = Wanted(reader[r].loop, rows)
        /\ UNCHANGED <<backend, rows>>
      BY <1>1 DEF Begin, Blank
  <1>3. PendingIsCurrent(r)'  BY <1>2 DEF PendingIsCurrent
  <1>4. Passed(r)' = {}  BY <1>2, PagingAssumption DEF Passed, Id
  <1>5. Suited(r)' => Suited(r)  BY <1>2 DEF Suited
  <1>6. Behind(r)'  BY <1>2, <1>4, CapOfNothing, PagingAssumption DEF Behind
  <1>7. Keeps(r)'  BY <1>2, <1>5, <1>6 DEF Keeps, Inv
  <1> QED  BY <1>3, <1>7

\* A page takes a suited loop past exactly the points it has used.
LEMMA PageOfSuited ==
  ASSUME Inv, NEW r \in Reader, Suited(r), Listing(r),
         NEW pg \in SUBSET From(reader[r].loop, reader[r].cursor),
         NEW next \in 0 .. Last, NEW used \in SUBSET pg,
         FirstOf(pg, From(reader[r].loop, reader[r].cursor), Asked(reader[r])),
         Uses(reader[r], pg, used), Advances(reader[r], pg, used, next)
  PROVE  /\ used \subseteq Wanted(reader[r].loop, rows)
         /\ used \cap reader[r].shown = {}
         /\ next = 0 => Wanted(reader[r].loop, rows) \ Passed(r) \subseteq used
         /\ next # 0 => \A i \in Wanted(reader[r].loop, rows) \ Passed(r) :
               i \in used <=> (i < next \/ (backend = "embedded" /\ i = next))
         /\ next # 0 => reader[r].cursor <= next
  <1> DEFINE q == reader[r]
             all == From(q.loop, q.cursor)
  <1>1. q.loop \in Loops /\ q.loop \in Loop /\ q.cursor \in 0 .. Last /\ q.shown \subseteq Id
        /\ backend \in {"embedded", "qdrant"}
      BY ReaderFields DEF Inv, TypeOK
  <1>2. q.loop.drops => q.loop.advance = "spare"
      BY <1>1, LoopsAssumption, Zenon
  <1>3. ~q.loop.drops
      BY <1>2, <1>1 DEF Suited
  <1>4. Wanted(q.loop, rows) = Scanned(q.loop, rows)
      BY <1>3 DEF Wanted, Scanned
  <1>5. Wanted(q.loop, rows) \subseteq Id
      BY DEF Wanted, Matching, Stored
  <1>6. all = Wanted(q.loop, rows) \ Passed(r)
      BY <1>1, <1>4, <1>5 DEF From, Passed, Id
  <1>7. all \subseteq Id /\ Id \subseteq Nat \ {0}
      BY <1>5, <1>6 DEF Id
  <1>8. q.shown \subseteq Passed(r)
      BY DEF Inv, Keeps, Behind
  <1>9. Accepted(q, pg) = pg
      BY <1>3 DEF Accepted
  <1>10. pg \subseteq all /\ (pg # all => Cardinality(pg) = Asked(q))
         /\ \A i \in pg, j \in all \ pg : i < j
      BY DEF FirstOf
  <1>11. q.loop.advance \in {"last", "spare", "next"}
      BY <1>1 DEF Loop
  <1>12. q.loop.advance # "spare" => used = pg
      BY DEF Uses
  <1>13. used \subseteq Wanted(q.loop, rows) /\ used \cap q.shown = {}
      BY <1>6, <1>8
  <1>14. CASE q.loop.advance = "last" /\ pg = {}
      <2>1. next = 0  BY <1>14 DEF Advances
      <2>2. Cardinality(q.shown) \in Nat
          BY <1>1, IdFinite, FS_Subset, FS_CardinalityType
      <2>3. q.loop.cap => Cardinality(q.shown) < Cap
          BY DEF Inv, Keeps, Behind
      <2>4. Asked(q) # 0
          BY <1>14, <2>2, <2>3, PagingAssumption DEF Asked
      <2>5. pg = all  BY <1>10, <1>14, <2>4, CapOfNothing
      <2> QED  BY <1>6, <1>13, <1>14, <2>1, <2>5
  <1>15. CASE \/ q.loop.advance = "last" /\ pg # {}
              \/ q.loop.advance = "next" /\ all \ pg # {} /\ backend # "qdrant"
      <2>1. backend = "embedded"  BY <1>15, <1>1 DEF Suited
      <2>2. next \in pg /\ \A i \in pg : i <= next
          BY <1>15, <2>1 DEF Advances, IsGreatest
      <2>3. used = pg  BY <1>12, <1>15
      <2>4. next \in all /\ next # 0  BY <1>7, <2>2
      <2>5. \A i \in all : i \in pg <=> (i < next \/ i = next)
          BY <1>7, <1>10, <2>2
      <2>6. q.cursor <= next  BY <2>4, <1>1, <1>7 DEF From
      <2> QED  BY <1>6, <1>13, <2>1, <2>3, <2>4, <2>5, <2>6
  <1>16. CASE q.loop.advance = "next" /\ all \ pg = {}
      <2>1. next = 0  BY <1>16 DEF Advances
      <2> QED  BY <1>6, <1>12, <1>13, <1>16, <2>1
  <1>17. CASE q.loop.advance = "next" /\ all \ pg # {} /\ backend = "qdrant"
      <2>1. next \in all \ pg /\ \A i \in all \ pg : next <= i
          BY <1>17 DEF Advances, IsLeast
      <2>2. used = pg  BY <1>12, <1>17
      <2>3. next # 0  BY <1>7, <2>1
      <2>4. \A i \in all : i \in pg <=> i < next
          BY <1>7, <1>10, <2>1
      <2>5. q.cursor <= next  BY <2>1, <1>1, <1>7 DEF From
      <2> QED  BY <1>6, <1>13, <1>17, <2>2, <2>3, <2>4, <2>5
  <1>18. CASE q.loop.advance = "spare"
      <2>1. backend = "qdrant"  BY <1>1, <1>18 DEF Suited
      <2>2. /\ used \subseteq pg /\ Cardinality(used) <= Limit
            /\ \A i \in used, j \in pg \ used : i < j
          BY <1>9, <1>18 DEF Uses, FirstOf
      <2>3. CASE pg \ used = {}
          <3>1. next = 0  BY <1>9, <1>18, <2>3 DEF Advances
          <3>2. used = pg  BY <2>2, <2>3
          <3>3. Cardinality(pg) # Asked(q)
              BY <1>18, <2>2, <3>2, PagingAssumption DEF Asked
          <3>4. pg = all  BY <1>10, <3>3
          <3> QED  BY <1>6, <1>13, <3>1, <3>2, <3>4
      <2>4. CASE pg \ used # {}
          <3>1. next \in pg \ used /\ \A j \in pg \ used : next <= j
              BY <1>9, <1>18, <2>4 DEF Advances, IsLeast
          <3>2. next # 0 /\ next \in all  BY <1>7, <3>1
          <3>3. \A i \in all : i \in used <=> i < next
              BY <1>7, <1>10, <2>2, <3>1
          <3>4. q.cursor <= next  BY <3>2, <1>1, <1>7 DEF From
          <3> QED  BY <1>6, <1>13, <2>1, <3>2, <3>3, <3>4
      <2> QED  BY <2>3, <2>4
  <1> QED
      <2>1. CASE q.loop.advance = "last"  BY <2>1, <1>14, <1>15
      <2>2. CASE q.loop.advance = "next"  BY <2>2, <1>15, <1>16, <1>17
      <2> QED  BY <1>11, <1>18, <2>1, <2>2

\* A mover: what is left to show about the other readers and the rows.
LEMMA InvAfterMove ==
  ASSUME Inv, TypeOK', NEW r \in Reader, Alike(rows'), UNCHANGED backend,
         \A s \in Reader \ {r} : reader'[s] = reader[s],
         PendingIsCurrent(r)', Keeps(r)'
  PROVE  Inv'
  <1>1. ASSUME NEW s \in Reader PROVE PendingIsCurrent(s)' /\ Keeps(s)'
      <2>1. CASE s = r  BY <2>1
      <2>2. CASE s # r
          <3>1. reader'[s] = reader[s]  BY <2>2
          <3> QED  BY <3>1, Unmoved
      <2> QED  BY <2>1, <2>2
  <1> QED  BY <1>1 DEF Inv

LEMMA SameRowsAlike == rows' = rows => Alike(rows')
  BY DEF Alike

LEMMA KeepsAfterPage ==
  ASSUME Inv, NEW r \in Reader, Page(r)
  PROVE  PendingIsCurrent(r)' /\ Keeps(r)'
  <1> DEFINE q == reader[r]
  <1>1. PICK pg \in SUBSET From(q.loop, q.cursor), next \in 0 .. Last, used \in SUBSET Id :
            /\ used \subseteq pg
            /\ FirstOf(pg, From(q.loop, q.cursor), Asked(q))
            /\ Uses(q, pg, used)
            /\ Advances(q, pg, used, next)
            /\ reader' = [reader EXCEPT ![r] = Turned(q, used, next)]
      BY PageTurns DEF Inv
  <1>2. q \in ReaderType /\ reader \in [Reader -> ReaderType] /\ q.loop \in Loops /\ q.loop \in Loop
      BY ReaderFields DEF Inv, TypeOK
  <1>3. reader'[r] = Turned(q, used, next)  BY <1>1, <1>2
  <1>4. /\ reader'[r].loop = q.loop /\ reader'[r].kept = q.kept
        /\ reader'[r].shown = q.shown \cup used
        /\ reader'[r].cursor = IF next = 0 THEN q.cursor ELSE next
        /\ reader'[r].phase = PhaseAfter(q, next, q.shown \cup used)
        /\ reader'[r].pending = IF q.loop.write = "none" THEN {} ELSE {Remembered(i) : i \in used}
      BY <1>2, <1>3 DEF Turned, ReaderType
  <1>5. reader'[r].again => q.again \/ used \cap q.shown # {}
      <2>1. reader'[r].again = (q.again \/ used \cap q.shown # {})
          BY <1>2, <1>3 DEF Turned, ReaderType
      <2> QED  BY <2>1, Zenon
  <1>6. Listing(r) /\ UNCHANGED <<backend, rows, writes>>
      BY DEF Page
  <1>7. PendingIsCurrent(r)'
      <2> SUFFICES ASSUME q.loop.write = "point", NEW p \in reader'[r].pending
                   PROVE  /\ Listing(r)'
                          /\ rows'[p.id].here = p.row.here /\ rows'[p.id].matches = p.row.matches
          BY <1>4 DEF PendingIsCurrent
      <2>1. PICK i \in used : p = Remembered(i)  BY <1>4
      <2>2. rows[i] \in Row /\ i \in Id  BY <1>1 DEF Inv, TypeOK
      <2>3. p.id = i /\ p.row.here = rows[i].here /\ p.row.matches = rows[i].matches
          BY <2>1, <2>2 DEF Remembered, Row
      <2>4. q.loop.advance = "last"  BY <1>2, LoopsAssumption
      <2>5. q.loop.cap = FALSE
          <3>1. ~q.loop.cap  BY <1>2, LoopsAssumption
          <3>2. q.loop.cap \in BOOLEAN  BY <1>2 DEF Loop
          <3> QED  BY <3>1, <3>2
      <2>6. next # 0
          <3>1. i \in pg /\ pg \subseteq Id
              BY <1>1, <2>1 DEF From, Scanned, Matching, Stored
          <3>2. next \in pg  BY <1>1, <2>4, <3>1 DEF Advances, IsGreatest
          <3> QED  BY <3>1, <3>2 DEF Id
      <2>7. Listing(r)'
          BY <1>4, <2>5, <2>6 DEF Listing, PhaseAfter
      <2> QED  BY <1>6, <2>3, <2>7
  <1>8. Keeps(r)'
      <2> SUFFICES ASSUME Suited(r)' PROVE Behind(r)' /\ ~reader'[r].again
          BY DEF Keeps
      <2>1. Suited(r)  BY <1>4, <1>6 DEF Suited
      <2>2. Behind(r) /\ ~q.again  BY <2>1 DEF Inv, Keeps
      <2>3. /\ used \subseteq Wanted(q.loop, rows)
            /\ used \cap q.shown = {}
            /\ next # 0 => \A i \in Wanted(q.loop, rows) \ Passed(r) :
                  i \in used <=> (i < next \/ (backend = "embedded" /\ i = next))
            /\ next # 0 => q.cursor <= next
          <3>1. used \in SUBSET pg  BY <1>1
          <3> QED  BY <1>1, <1>6, <2>1, <3>1, PageOfSuited
      <2>4. ~reader'[r].again  BY <1>5, <2>2, <2>3
      <2>5. ASSUME Listing(r)' PROVE Behind(r)'
          <3>1. next # 0 /\ (q.loop.cap => Cardinality(q.shown \cup used) < Cap)
              <4>1. PhaseAfter(q, next, q.shown \cup used) = "listing"  BY <1>4, <2>5 DEF Listing
              <4>2. next # 0 /\ (q.loop.cap => ~(Cardinality(q.shown \cup used) >= Cap))
                  BY <4>1 DEF PhaseAfter
              <4>3. Cardinality(q.shown \cup used) \in Nat
                  BY <1>2, IdFinite, FS_Subset, FS_CardinalityType DEF ReaderType
              <4> QED  BY <4>2, <4>3, PagingAssumption
          <3>2. Passed(r)' = {i \in Id : i < next \/ (backend = "embedded" /\ i = next)}
              BY <1>4, <1>6, <3>1 DEF Passed
          <3>3. Passed(r) \subseteq Passed(r)'
              <4>1. q.cursor \in 0 .. Last  BY <1>2 DEF ReaderType
              <4> QED  BY <2>3, <3>1, <3>2, <4>1 DEF Passed, Id
          <3>4. /\ q.shown \subseteq Passed(r) /\ q.kept \subseteq Wanted(q.loop, rows)
                /\ q.kept \cap Passed(r) \subseteq q.shown
              BY <1>6, <2>2 DEF Behind
          <3>5. \A i \in used : i \in Passed(r)'
              BY <1>1, <2>3, <3>1, <3>2, <3>3
          <3>6. q.kept \cap Passed(r)' \subseteq q.shown \cup used
              <4>1. ASSUME NEW i \in q.kept, i \in Passed(r)', i \notin Passed(r) PROVE i \in used
                  BY <2>3, <3>1, <3>2, <3>4, <4>1
              <4> QED  BY <3>4, <4>1
          <3> QED  BY <1>4, <1>6, <3>1, <3>3, <3>4, <3>5, <3>6 DEF Behind
      <2> QED  BY <2>4, <2>5 DEF Behind
  <1> QED  BY <1>7, <1>8

LEMMA KeepsAfterFailure ==
  ASSUME Inv, NEW r \in Reader, PageFails(r)
  PROVE  PendingIsCurrent(r)' /\ Keeps(r)'
  <1>1. reader[r] \in ReaderType /\ reader \in [Reader -> ReaderType]
      BY ReaderFields DEF Inv, TypeOK
  <1>2. /\ reader'[r].loop = reader[r].loop /\ reader'[r].pending = {}
        /\ reader'[r].again = reader[r].again /\ reader'[r].phase # "listing"
        /\ UNCHANGED backend
      BY <1>1 DEF PageFails, ReaderType
  <1>3. Suited(r)' => Suited(r)  BY <1>2 DEF Suited
  <1> QED  BY <1>2, <1>3 DEF PendingIsCurrent, Keeps, Behind, Listing, Inv

LEMMA KeepsAfterWriteBack ==
  ASSUME Inv, NEW r \in Reader, WriteBack(r)
  PROVE  PendingIsCurrent(r)' /\ Keeps(r)'
  <1>1. reader[r] \in ReaderType /\ reader \in [Reader -> ReaderType]
      BY ReaderFields DEF Inv, TypeOK
  <1>2. PICK p \in reader[r].pending : reader' = [reader EXCEPT ![r].pending = @ \ {p}]
      BY DEF WriteBack
  <1>3. /\ reader'[r].loop = reader[r].loop /\ reader'[r].phase = reader[r].phase
        /\ reader'[r].cursor = reader[r].cursor /\ reader'[r].shown = reader[r].shown
        /\ reader'[r].again = reader[r].again /\ reader'[r].kept = reader[r].kept
        /\ reader'[r].pending \subseteq reader[r].pending
      BY <1>1, <1>2 DEF ReaderType
  <1>4. Alike(rows') /\ UNCHANGED backend  BY WriteBackAlike DEF WriteBack
  <1>5. Wanted(reader[r].loop, rows') = Wanted(reader[r].loop, rows)
      BY <1>4, AlikeIsWanted
  <1>6. PendingIsCurrent(r)'
      <2>1. \A x \in reader[r].pending : x.id \in Id  BY ReaderFields DEF Inv
      <2> QED  BY <1>3, <1>4, <2>1 DEF Inv, PendingIsCurrent, Listing, Alike
  <1>7. Keeps(r)'
      BY <1>3, <1>4, <1>5 DEF Inv, Keeps, Behind, Suited, Listing, Passed
  <1> QED  BY <1>6, <1>7

\* The rest of the readers stand still.
LEMMA OnlyOneMoves ==
  ASSUME TypeOK, NEW r \in Reader, Begin(r) \/ Page(r) \/ PageFails(r) \/ WriteBack(r)
  PROVE  (\A s \in Reader \ {r} : reader'[s] = reader[s]) /\ UNCHANGED backend
  <1>1. \E q : reader' = [reader EXCEPT ![r] = q]
      BY DEF Begin, Page, PageFails, WriteBack
  <1> QED  BY <1>1 DEF TypeOK, Begin, Page, PageFails, WriteBack

LEMMA InvAfterStep == Inv /\ [Next]_vars => Inv'
  <1> SUFFICES ASSUME Inv, [Next]_vars PROVE Inv'
      OBVIOUS
  <1>1. TypeOK' /\ TypeOK  BY TypesAfterStep DEF Inv
  <1>2. CASE UNCHANGED vars
      <2>1. Alike(rows') /\ UNCHANGED <<reader, backend>>  BY <1>2 DEF vars, Alike
      <2>2. ASSUME NEW s \in Reader PROVE PendingIsCurrent(s)' /\ Keeps(s)'
          BY <2>1, Unmoved
      <2> QED  BY <1>1, <2>2 DEF Inv
  <1>3. CASE Writer
      <2>1. \E after \in [Id -> Row] : Write(after)
          BY <1>1, <1>3, WriterWrites
      <2> QED  BY <1>1, <2>1, InvAfterWrite DEF Inv
  <1>4. ASSUME NEW r \in Reader, Begin(r) PROVE Inv'
      <2>1. Alike(rows')  BY <1>4, SameRowsAlike DEF Begin
      <2>2. (\A s \in Reader \ {r} : reader'[s] = reader[s]) /\ UNCHANGED backend
          BY <1>1, <1>4, OnlyOneMoves
      <2>3. PendingIsCurrent(r)' /\ Keeps(r)'  BY <1>4, InvAfterBegin
      <2> QED  BY <1>1, <2>1, <2>2, <2>3, InvAfterMove
  <1>5. ASSUME NEW r \in Reader, Page(r) PROVE Inv'
      <2>1. Alike(rows')  BY <1>5, SameRowsAlike DEF Page
      <2>2. (\A s \in Reader \ {r} : reader'[s] = reader[s]) /\ UNCHANGED backend
          BY <1>1, <1>5, OnlyOneMoves
      <2>3. PendingIsCurrent(r)' /\ Keeps(r)'  BY <1>5, KeepsAfterPage
      <2> QED  BY <1>1, <2>1, <2>2, <2>3, InvAfterMove
  <1>6. ASSUME NEW r \in Reader, PageFails(r) PROVE Inv'
      <2>1. Alike(rows')  BY <1>6, SameRowsAlike DEF PageFails
      <2>2. (\A s \in Reader \ {r} : reader'[s] = reader[s]) /\ UNCHANGED backend
          BY <1>1, <1>6, OnlyOneMoves
      <2>3. PendingIsCurrent(r)' /\ Keeps(r)'  BY <1>6, KeepsAfterFailure
      <2> QED  BY <1>1, <2>1, <2>2, <2>3, InvAfterMove
  <1>7. ASSUME NEW r \in Reader, WriteBack(r) PROVE Inv'
      <2>1. Alike(rows')  BY <1>7, WriteBackAlike
      <2>2. (\A s \in Reader \ {r} : reader'[s] = reader[s]) /\ UNCHANGED backend
          BY <1>1, <1>7, OnlyOneMoves
      <2>3. PendingIsCurrent(r)' /\ Keeps(r)'  BY <1>7, KeepsAfterWriteBack
      <2> QED  BY <1>1, <2>1, <2>2, <2>3, InvAfterMove
  <1> QED  BY <1>2, <1>3, <1>4, <1>5, <1>6, <1>7 DEF Next

-----------------------------------------------------------------------------
(* Each step of the pager is a step of Listing, for every suited reader.   *)

LEMMA ListingsAtFirst == Init => \A r \in Reader : L(r)!LInit
  <1> SUFFICES ASSUME Init, NEW r \in Reader PROVE L(r)!LInit
      OBVIOUS
  <1>1. PICK l \in [Reader -> Loops] : reader = [s \in Reader |-> Blank(l[s])]
      BY DEF Init
  <1>2. /\ reader[r].phase = "idle" /\ reader[r].kept = {} /\ reader[r].shown = {}
        /\ reader[r].again = FALSE
      BY <1>1 DEF Blank
  <1>3. AbstractPhase(reader[r].phase) = "idle"  BY <1>2 DEF AbstractPhase
  <1>4. Wanted(reader[r].loop, rows) \in SUBSET Id  BY DEF Wanted, Matching, Stored
  <1> QED  BY <1>2, <1>3, <1>4 DEF L!LInit

\* The abstract variables of a reader that stands still, rows being alike.
LEMMA Stutters ==
  ASSUME NEW r \in Reader, Alike(rows'), reader'[r] = reader[r]
  PROVE  UNCHANGED L(r)!lvars
  <1>1. Wanted(reader[r].loop, rows') = Wanted(reader[r].loop, rows)
      BY AlikeIsWanted
  <1> QED  BY <1>1 DEF L!lvars

LEMMA WriteIsChange ==
  ASSUME TypeOK, NEW after \in [Id -> Row], Write(after), NEW r \in Reader
  PROVE  L(r)!Change
  <1>1. rows' = after /\ reader' = Keep(after)  BY DEF Write
  <1>2. reader[r] \in ReaderType  BY DEF TypeOK
  <1>3. reader'[r] = IF Listing(r)
                       THEN [reader[r] EXCEPT !.kept = @ \cap Wanted(reader[r].loop, after)]
                       ELSE reader[r]
      BY <1>1 DEF Keep
  <1>4. /\ reader'[r].loop = reader[r].loop /\ reader'[r].phase = reader[r].phase
        /\ reader'[r].shown = reader[r].shown /\ reader'[r].again = reader[r].again
        /\ reader'[r].kept = IF Listing(r) THEN reader[r].kept \cap Wanted(reader[r].loop, after)
                             ELSE reader[r].kept
      BY <1>2, <1>3 DEF ReaderType
  <1>5. AbstractPhase(reader[r].phase) = "listing" <=> Listing(r)
      BY DEF AbstractPhase, Listing
  <1>6. Wanted(reader[r].loop, after) \in SUBSET Id  BY DEF Wanted, Matching, Stored
  <1> QED  BY <1>1, <1>4, <1>5, <1>6 DEF L!Change

LEMMA BeginIsStart ==
  ASSUME TypeOK, NEW r \in Reader, Begin(r)
  PROVE  L(r)!Start
  <1>1. reader[r] \in ReaderType /\ reader \in [Reader -> ReaderType]  BY DEF TypeOK
  <1>2. /\ reader'[r].loop = reader[r].loop /\ reader'[r].phase = "listing"
        /\ reader'[r].shown = {} /\ reader'[r].again = reader[r].again
        /\ reader'[r].kept = Wanted(reader[r].loop, rows)
        /\ rows' = rows
      BY <1>1 DEF Begin, Blank
  <1>3. reader[r].phase # "listing"  BY DEF Begin, Listing
  <1>4. AbstractPhase(reader[r].phase) # "listing"  BY <1>3 DEF AbstractPhase
  <1>5. AbstractPhase(reader'[r].phase) = "listing"  BY <1>2 DEF AbstractPhase
  <1> QED  BY <1>2, <1>4, <1>5 DEF L!Start

LEMMA PageIsShow ==
  ASSUME Inv, NEW r \in Reader, Suited(r), Page(r)
  PROVE  L(r)!Show
  <1> DEFINE q == reader[r]
  <1>1. PICK pg \in SUBSET From(q.loop, q.cursor), next \in 0 .. Last, used \in SUBSET Id :
            /\ used \subseteq pg
            /\ FirstOf(pg, From(q.loop, q.cursor), Asked(q))
            /\ Uses(q, pg, used)
            /\ Advances(q, pg, used, next)
            /\ reader' = [reader EXCEPT ![r] = Turned(q, used, next)]
      BY PageTurns DEF Inv
  <1>2. q \in ReaderType /\ reader \in [Reader -> ReaderType]
      BY DEF Inv, TypeOK
  <1>3. reader'[r] = Turned(q, used, next)  BY <1>1, <1>2
  <1>4. /\ reader'[r].loop = q.loop /\ reader'[r].kept = q.kept
        /\ reader'[r].shown = q.shown \cup used
        /\ reader'[r].phase = PhaseAfter(q, next, q.shown \cup used)
      BY <1>2, <1>3 DEF Turned, ReaderType
  <1>5. reader'[r].again = (q.again \/ used \cap q.shown # {})
      BY <1>2, <1>3 DEF Turned, ReaderType
  <1>6. Listing(r) /\ UNCHANGED <<backend, rows, writes>>  BY DEF Page
  <1>7. used \in SUBSET pg  BY <1>1
  <1>8. /\ used \subseteq Wanted(q.loop, rows)
        /\ used \cap q.shown = {}
        /\ next = 0 => Wanted(q.loop, rows) \ Passed(r) \subseteq used
      BY <1>1, <1>6, <1>7, PageOfSuited
  <1>9. ~q.again /\ q.kept \subseteq Wanted(q.loop, rows) /\ q.kept \cap Passed(r) \subseteq q.shown
      BY <1>6 DEF Inv, Keeps, Behind
  <1>10. reader'[r].again = q.again
      <2>1. ~reader'[r].again  BY <1>5, <1>8, <1>9, Zenon
      <2>2. reader'[r].again \in BOOLEAN /\ q.again \in BOOLEAN
          BY <1>2, <1>5, Zenon DEF ReaderType
      <2> QED  BY <1>9, <2>1, <2>2
  <1>11. AbstractPhase(reader'[r].phase) \in {"listing", "complete", "incomplete"}
      BY <1>4 DEF AbstractPhase, PhaseAfter
  <1>12. AbstractPhase(reader'[r].phase) = "complete" => reader[r].kept \subseteq reader'[r].shown
      <2> SUFFICES ASSUME AbstractPhase(reader'[r].phase) = "complete"
                   PROVE  q.kept \subseteq q.shown \cup used
          BY <1>4
      <2>1. next = 0  BY <1>4 DEF AbstractPhase, PhaseAfter
      <2> QED  BY <1>8, <1>9, <2>1
  <1>13. AbstractPhase(reader[r].phase) = "listing"  BY <1>6 DEF Listing, AbstractPhase
  <1>14. used \in SUBSET (Wanted(reader[r].loop, rows) \ reader[r].shown)
      BY <1>8
  <1> QED  BY <1>4, <1>6, <1>10, <1>11, <1>12, <1>13, <1>14 DEF L!Show

LEMMA FailureIsShow ==
  ASSUME TypeOK, NEW r \in Reader, PageFails(r)
  PROVE  L(r)!Show
  <1>1. reader[r] \in ReaderType /\ reader \in [Reader -> ReaderType]  BY DEF TypeOK
  <1>2. /\ reader'[r].loop = reader[r].loop /\ reader'[r].shown = reader[r].shown
        /\ reader'[r].again = reader[r].again /\ reader'[r].kept = reader[r].kept
        /\ reader'[r].phase \in {"failed", "partial"}
        /\ rows' = rows
      BY <1>1 DEF PageFails, ReaderType
  <1>3. AbstractPhase(reader'[r].phase) = "incomplete"  BY <1>2 DEF AbstractPhase
  <1>4. AbstractPhase(reader[r].phase) = "listing"  BY DEF PageFails, Listing, AbstractPhase
  <1>5. {} \in SUBSET (Wanted(reader[r].loop, rows) \ reader[r].shown)
        /\ reader'[r].shown = reader[r].shown \cup {}
      BY <1>2
  <1> QED  BY <1>2, <1>3, <1>4, <1>5 DEF L!Show

LEMMA WriteBackStutters ==
  ASSUME TypeOK, NEW r \in Reader, WriteBack(r), Alike(rows')
  PROVE  UNCHANGED L(r)!lvars
  <1>1. reader[r] \in ReaderType /\ reader \in [Reader -> ReaderType]  BY DEF TypeOK
  <1>2. PICK p \in reader[r].pending : reader' = [reader EXCEPT ![r].pending = @ \ {p}]
      BY DEF WriteBack
  <1>3. /\ reader'[r].loop = reader[r].loop /\ reader'[r].phase = reader[r].phase
        /\ reader'[r].shown = reader[r].shown /\ reader'[r].again = reader[r].again
        /\ reader'[r].kept = reader[r].kept
      BY <1>1, <1>2 DEF ReaderType
  <1>4. Wanted(reader[r].loop, rows') = Wanted(reader[r].loop, rows)
      BY AlikeIsWanted
  <1> QED  BY <1>3, <1>4 DEF L!lvars

LEMMA StepOfListing ==
  ASSUME Inv, [Next]_vars, NEW r \in Reader, Suited(r)
  PROVE  [L(r)!LNext]_(L(r)!lvars)
  <1>1. TypeOK  BY DEF Inv
  <1>2. CASE UNCHANGED vars
      <2>1. Alike(rows') /\ reader'[r] = reader[r]  BY <1>2 DEF vars, Alike
      <2> QED  BY <2>1, Stutters
  <1>3. CASE Writer
      <2>1. PICK after \in [Id -> Row] : Write(after)  BY <1>1, <1>3, WriterWrites
      <2>2. L(r)!Change  BY <1>1, <2>1, WriteIsChange
      <2> QED  BY <2>2 DEF L!LNext
  <1>4. ASSUME NEW s \in Reader, Begin(s) \/ Page(s) \/ PageFails(s) \/ WriteBack(s), s # r
        PROVE  UNCHANGED L(r)!lvars
      <2>1. reader'[r] = reader[r]  BY <1>1, <1>4, OnlyOneMoves
      <2>2. Alike(rows')
          BY <1>4, SameRowsAlike, WriteBackAlike DEF Begin, Page, PageFails
      <2> QED  BY <2>1, <2>2, Stutters
  <1>5. CASE Begin(r)
      <2>1. L(r)!Start  BY <1>1, <1>5, BeginIsStart
      <2> QED  BY <2>1 DEF L!LNext
  <1>6. CASE Page(r)
      <2>1. L(r)!Show  BY <1>6, PageIsShow
      <2> QED  BY <2>1 DEF L!LNext
  <1>7. CASE PageFails(r)
      <2>1. L(r)!Show  BY <1>1, <1>7, FailureIsShow
      <2> QED  BY <2>1 DEF L!LNext
  <1>8. CASE WriteBack(r)
      BY <1>1, <1>8, WriteBackAlike, WriteBackStutters
  <1> QED  BY <1>2, <1>3, <1>4, <1>5, <1>6, <1>7, <1>8 DEF Next

\* Whatever loops run over whichever store, each listing by a loop that
\* passes offsets the way its store takes them is a listing: it shows no
\* point twice, and one that answers as complete has shown every point that
\* was there throughout.
THEOREM ListingsAreListings == Spec => ListingsAreComplete
  <1>1. Spec => []Inv
      BY InvAtFirst, InvAfterStep, PTL DEF Spec
  <1>2. Inv /\ [Next]_vars
          => [\A r \in Reader : Suited(r) => [L(r)!LNext]_(L(r)!lvars)]_vars
      BY StepOfListing
  <1>3. Spec => [][\A r \in Reader : Suited(r) => [L(r)!LNext]_(L(r)!lvars)]_vars
      BY <1>1, <1>2, PTL DEF Spec
  <1>4. Spec => \A r \in Reader : L(r)!LInit
      BY ListingsAtFirst DEF Spec
  <1> QED  BY <1>3, <1>4 DEF ListingsAreComplete

-----------------------------------------------------------------------------
(* Embeddings.  Over the embedded store every stored point carries its     *)
(* embedding, and so does every point a scan still has to write back.      *)

Bears(row) == row.here => row.embedded

AllBear == backend = "embedded" =>
              /\ \A i \in Id : Bears(rows[i])
              /\ \A r \in Reader : \A p \in reader[r].pending : Bears(p.row)

LEMMA AllBearAtFirst == Init => AllBear
  <1> SUFFICES ASSUME Init PROVE AllBear
      OBVIOUS
  <1>1. PICK l \in [Reader -> Loops] : reader = [r \in Reader |-> Blank(l[r])]
      BY DEF Init
  <1>2. \A r \in Reader : reader[r].pending = {}
      BY <1>1 DEF Blank
  <1>3. rows \in [Id -> {NewPoint(TRUE), NewPoint(FALSE), Absent}]
      BY Zenon DEF Init
  <1>4. \A i \in Id : Bears(rows[i])
      BY <1>3 DEF Bears, NewPoint, Absent
  <1> QED  BY <1>2, <1>4 DEF AllBear

\* What is written is a whole point or none, except for the payloads that
\* only Qdrant replaces.
LEMMA WriterBears ==
  ASSUME TypeOK, AllBear, Writer, backend = "embedded"
  PROVE  /\ \A i \in Id : Bears(rows'[i])
         /\ \A r \in Reader : reader'[r].pending = reader[r].pending
  <1>1. ASSUME NEW after, Write(after)
        PROVE  rows' = after /\ \A r \in Reader : reader'[r].pending = reader[r].pending
      <2>1. rows' = after /\ reader' = Keep(after)  BY <1>1 DEF Write
      <2>2. ASSUME NEW r \in Reader PROVE reader'[r].pending = reader[r].pending
          <3>1. reader[r] \in ReaderType  BY DEF TypeOK
          <3>2. reader'[r] = IF Listing(r)
                               THEN [reader[r] EXCEPT !.kept = @ \cap Wanted(reader[r].loop, after)]
                               ELSE reader[r]
              BY <2>1 DEF Keep
          <3> QED  BY <3>1, <3>2 DEF ReaderType
      <2> QED  BY <2>1, <2>2
  <1>2. \A i \in Id : Bears(rows[i])  BY DEF AllBear
  <1>3. CASE Upsert
      <2>1. PICK S \in SUBSET Id, m \in BOOLEAN :
              Write([i \in Id |-> IF i \in S THEN NewPoint(m) ELSE rows[i]])
          BY <1>3 DEF Upsert
      <2>2. rows' = [i \in Id |-> IF i \in S THEN NewPoint(m) ELSE rows[i]]
          BY <1>1, <2>1
      <2>3. Bears(NewPoint(m))  BY DEF Bears, NewPoint
      <2>4. \A i \in Id : Bears(rows'[i])  BY <1>2, <2>2, <2>3
      <2> QED  BY <1>1, <2>1, <2>4
  <1>4. CASE SetPayload
      BY <1>4 DEF SetPayload
  <1>5. CASE Delete
      <2>1. PICK S \in SUBSET Stored(rows) :
              Write([i \in Id |-> IF i \in S THEN Absent ELSE rows[i]])
          BY <1>5 DEF Delete
      <2>2. rows' = [i \in Id |-> IF i \in S THEN Absent ELSE rows[i]]
          BY <1>1, <2>1
      <2>3. Bears(Absent)  BY DEF Bears, Absent
      <2>4. \A i \in Id : Bears(rows'[i])  BY <1>2, <2>2, <2>3
      <2> QED  BY <1>1, <2>1, <2>4
  <1> QED  BY <1>3, <1>4, <1>5 DEF Writer

\* A page of the embedded store carries the vectors of its points.
LEMMA PageBears ==
  ASSUME TypeOK, AllBear, backend = "embedded", NEW r \in Reader, Page(r)
  PROVE  \A p \in reader'[r].pending : Bears(p.row)
  <1> DEFINE q == reader[r]
  <1>1. PICK next \in 0 .. Last, used \in SUBSET Id :
            reader' = [reader EXCEPT ![r] = Turned(q, used, next)]
      BY PageTurns
  <1>2. q \in ReaderType /\ reader \in [Reader -> ReaderType]
      BY DEF TypeOK
  <1>3. reader'[r] = Turned(q, used, next)  BY <1>1, <1>2
  <1>4. reader'[r].pending = IF q.loop.write = "none" THEN {} ELSE {Remembered(i) : i \in used}
      BY <1>2, <1>3 DEF Turned, ReaderType
  <1>5. ASSUME NEW i \in Id PROVE Bears(Remembered(i).row)
      <2>1. rows[i] \in Row /\ Bears(rows[i])  BY DEF TypeOK, AllBear
      <2>2. Remembered(i).row.here = rows[i].here
          BY <2>1 DEF Remembered, Row
      <2>3. Remembered(i).row.embedded = (rows[i].embedded /\ backend = "embedded")
          BY <2>1 DEF Remembered, Row
      <2> QED  BY <2>1, <2>2, <2>3 DEF Bears
  <1> QED  BY <1>4, <1>5

LEMMA AllBearAfterStep == TypeOK /\ AllBear /\ [Next]_vars => AllBear' /\ backend' = backend
  <1> SUFFICES ASSUME TypeOK, AllBear, [Next]_vars PROVE AllBear' /\ backend' = backend
      OBVIOUS
  <1>1. CASE UNCHANGED vars  BY <1>1 DEF vars, AllBear, Bears
  <1>2. CASE Writer
      <2>1. backend' = backend  BY <1>2, WriterWrites DEF Write
      <2> QED  BY <1>2, <2>1, WriterBears DEF AllBear
  <1>3. ASSUME NEW r \in Reader, Begin(r) \/ Page(r) \/ PageFails(r) \/ WriteBack(r)
        PROVE  AllBear' /\ backend' = backend
      <2>1. backend' = backend /\ \A s \in Reader \ {r} : reader'[s] = reader[s]
          BY <1>3, OnlyOneMoves
      <2>2. reader[r] \in ReaderType /\ reader \in [Reader -> ReaderType]
          BY DEF TypeOK
      <2> SUFFICES ASSUME backend = "embedded"
                   PROVE  /\ \A i \in Id : Bears(rows'[i])
                          /\ \A p \in reader'[r].pending : Bears(p.row)
          BY <2>1 DEF AllBear, Bears
      <2>3. CASE Begin(r)
          <3>1. rows' = rows /\ reader'[r].pending = {}
              BY <2>2, <2>3 DEF Begin, Blank
          <3> QED  BY <3>1 DEF AllBear
      <2>4. CASE Page(r)
          <3>1. rows' = rows  BY <2>4 DEF Page
          <3> QED  BY <2>4, <3>1, PageBears DEF AllBear
      <2>5. CASE PageFails(r)
          <3>1. rows' = rows /\ reader'[r].pending = {}
              BY <2>2, <2>5 DEF PageFails, ReaderType
          <3> QED  BY <3>1 DEF AllBear
      <2>6. CASE WriteBack(r)
          <3>1. PICK p \in reader[r].pending :
                  /\ reader' = [reader EXCEPT ![r].pending = @ \ {p}]
                  /\ rows' = rows \/ rows' = [rows EXCEPT ![p.id] = p.row]
              BY <2>6 DEF WriteBack
          <3>2. Bears(p.row) /\ \A i \in Id : Bears(rows[i])  BY DEF AllBear
          <3>3. \A i \in Id : Bears(rows'[i])
              <4>1. rows \in [Id -> Row]  BY DEF TypeOK
              <4> QED  BY <3>1, <3>2, <4>1
          <3>4. reader'[r].pending \subseteq reader[r].pending
              BY <2>2, <3>1 DEF ReaderType
          <3> QED  BY <3>3, <3>4 DEF AllBear
      <2> QED  BY <1>3, <2>3, <2>4, <2>5, <2>6
  <1> QED  BY <1>1, <1>2, <1>3 DEF Next

\* Over the embedded store no listing, write or migration leaves a point
\* without the embedding it had: migrateFacts writes back what its page
\* held, vector included, however the scans interleave.
THEOREM NoEmbeddingIsLost == Spec => EmbeddingsSurvive
  <1>1. Spec => [](TypeOK /\ AllBear)
      BY TypesAtFirst, TypesAfterStep, AllBearAtFirst, AllBearAfterStep, PTL DEF Spec
  <1>2. TypeOK /\ AllBear /\ [Next]_vars
          => [backend = "embedded" =>
                \A i \in Id : rows[i].embedded /\ rows'[i].here => rows'[i].embedded]_vars
      BY AllBearAfterStep DEF AllBear, Bears
  <1> QED  BY <1>1, <1>2, PTL DEF Spec, EmbeddingsSurvive
=============================================================================

------------------------ MODULE FactLifecycleProofs ------------------------
(***************************************************************************)
(* Proofs about FactLifecycle, for any set of keys, any number of          *)
(* concurrent requests and any bounds.                                     *)
(***************************************************************************)
EXTENDS FactLifecycle, TLAPS

(* Payloads. *)

\* Applying a request body to a payload gives a payload.
LEMMA ApplyType ==
    ASSUME NEW e \in Edit, NEW f \in Fact
    PROVE  Apply(e, f) \in Fact
<1>1. Pick(e.status, f.status) \in Statuses
  BY ConstantsAssumption DEF Pick, Edit, Fact
<1>2. Pick(e.supersedes, f.supersedes) \in Keys \cup {NoKey}
  BY ConstantsAssumption DEF Pick, Edit, Fact
<1>3. Pick(e.links, f.links) \in SUBSET Keys
  BY ConstantsAssumption DEF Pick, Edit, Fact
<1>4. Pick(e.resolved, f.resolved) \in BOOLEAN
  BY ConstantsAssumption DEF Pick, Edit, Fact
<1>5. Pick(e.ttl, f.ttl) \in Deadline
  BY ConstantsAssumption DEF Pick, Edit, Fact, Deadline
<1>6. Pick(e.until, f.until) \in Deadline
  BY ConstantsAssumption DEF Pick, Edit, Fact
<1>7. Pick(e.conf, f.conf) \in {"high", "low"}
  BY ConstantsAssumption DEF Pick, Edit, Fact
<1>8. f.contradicts \in SUBSET Keys
  BY DEF Fact
<1>. QED
  BY <1>1, <1>2, <1>3, <1>4, <1>5, <1>6, <1>7, <1>8 DEF Apply, Fact

\* A new fact is a payload.
LEMMA NewFactType ==
    ASSUME NEW t \in Deadline, NEW u \in Deadline, NEW c \in {"high", "low"}
    PROVE  NewFact(t, u, c) \in Fact
BY DEF NewFact, Fact, Statuses

\* What POST stores is a payload.
LEMMA PostPayloadType ==
    ASSUME NEW old \in Fact \cup {NoFact},
           NEW t \in Deadline, NEW u \in Deadline, NEW c \in {"high", "low"}
    PROVE  PostPayload(old, t, u, c) \in Fact
BY NewFactType DEF PostPayload, Fact

\* A review changes a payload the way a request body does.
LEMMA ReviewEditType ==
    ASSUME NEW a \in ReviewActions, NEW e \in Edit, NEW n \in Keys \cup {NoKey}
    PROVE  ReviewEdit(a, e, n) \in Edit
BY DEF ReviewEdit, Edit, ReviewActions, Statuses

\* The replacement of a fact is a payload.
LEMMA ReplacementType ==
    ASSUME NEW f \in Fact
    PROVE  Replacement(f) \in Fact
BY DEF Replacement, NewFact, Fact, Statuses, Deadline

\* Only the status is edited by the scans and by supersedeOlderVersions.
LEMMA StatusEditType ==
    ASSUME NEW f \in Fact, NEW st \in Statuses
    PROVE  [f EXCEPT !.status = st] \in Fact
BY DEF Fact

-----------------------------------------------------------------------------
(* Typing. *)

\* One upsert keeps the types of the collection and of its history.
LEMMA UpsertType ==
    ASSUME StoreType, NEW k \in Keys, NEW f \in Fact \cup {NoFact},
           Upsert(k, f), UNCHANGED history
    PROVE  StoreType'
BY DEF StoreType, Upsert, Touch, history

\* So does a field-level update of what is stored.
LEMMA SetPayloadType ==
    ASSUME StoreType, NEW k \in Keys, NEW f,
           facts[k] # NoFact => f \in Fact,
           SetPayload(k, f), UNCHANGED history
    PROVE  StoreType'
<1>1. CASE UNCHANGED <<facts, fresh, moved>>
  BY <1>1 DEF StoreType, history
<1>2. CASE facts[k] # NoFact /\ Upsert(k, f)
  BY <1>2, UpsertType
<1>. QED
  BY <1>1, <1>2 DEF SetPayload

\* The update of a status is one.
LEMMA StatusWriteType ==
    ASSUME StoreType, NEW k \in Keys, NEW st \in Statuses,
           SetPayload(k, [facts[k] EXCEPT !.status = st]),
           UNCHANGED history
    PROVE  StoreType'
<1>1. facts[k] # NoFact => [facts[k] EXCEPT !.status = st] \in Fact
  BY StatusEditType DEF StoreType
<1>. QED
  BY <1>1, SetPayloadType

\* What a request needs in order to enter a slot.
LEMMA EnterType ==
    ASSUME SlotType, NEW c \in Slots,
           NEW next \in WriteOps \cup {"idle", "autoQuery", "autoMark"},
           NEW k \in Keys \cup {NoKey}, NEW f \in Fact \cup {NoFact},
           NEW n \in Keys \cup {NoKey},
           next # "idle" => k \in Keys,
           next \in WriteOps => f \in Fact,
           next \in {"create", "retire"} => n \in Keys,
           Enter(c, next, k, f, n),
           todo' \in [Slots -> SUBSET Keys]
    PROVE  SlotType'
BY DEF SlotType, Enter, WriteOps

\* A slot can always be left.
LEMMA LeaveType ==
    ASSUME SlotType, NEW c \in Slots, Leave(c), todo' \in [Slots -> SUBSET Keys]
    PROVE  SlotType'
BY EnterType DEF Leave, WriteOps

\* The initial states are typed.
LEMMA InitType == Init => TypeOK
<1> SUFFICES ASSUME Init PROVE TypeOK
  OBVIOUS
<1>1. StoreType
  <2>1. \A t \in Ttls, u \in Untils, c \in Confs : NewFact(t, u, c) \in Fact
    BY ConstantsAssumption, NewFactType DEF Deadline
  <2>. DEFINE posted == {NewFact(t, u, c) : t \in Ttls, u \in Untils, c \in Confs}
  <2>2. {Apply(e, f) : e \in Edits, f \in posted} \subseteq Fact
    BY <2>1, ApplyType, ConstantsAssumption
  <2>3. facts \in [Keys -> {NoFact} \cup posted
                            \cup {Apply(e, f) : e \in Edits, f \in posted}]
    BY DEF Init
  <2>4. facts \in [Keys -> Fact \cup {NoFact}]
    BY <2>1, <2>2, <2>3
  <2>. QED
    BY <2>4 DEF Init, StoreType, AllScans
<1>2. SlotType
  BY DEF Init, SlotType, WriteOps
<1>3. ScanType
  BY DEF Init, ScanType, AllScans, FlagScans
<1>4. BudgetType
  BY ConstantsAssumption DEF Init, BudgetType
<1>. QED
  BY <1>1, <1>2, <1>3, <1>4 DEF TypeOK

\* A request that begins is counted.
LEMMA BeginType ==
    ASSUME BudgetType, NEW c, NEW kind, Begin(c, kind)
    PROVE  BudgetType'
BY ConstantsAssumption DEF BudgetType, Begin

\* A step that leaves the scans alone keeps their types.
LEMMA ScansUnchanged ==
    ASSUME ScanType, UNCHANGED scans
    PROVE  ScanType'
BY DEF ScanType, scans

\* A step that leaves the slots alone keeps their types.
LEMMA SlotsUnchanged ==
    ASSUME SlotType, UNCHANGED slots
    PROVE  SlotType'
BY DEF SlotType, slots

\* Requests that begin by reading a fact keep the types.
LEMMA RequestType ==
    ASSUME TypeOK, NEW c \in Slots, Request(c)
    PROVE  TypeOK'
<1>. USE DEF TypeOK
<1> PICK k \in Keys :
       \/ \E t \in Ttls, f \in Confs :
             \/ \E u \in Untils : PostRead(c, k, t, u, f)
             \/ UpsertRead(c, k, t, f)
       \/ \E e \in Edits :
             \/ PutRead(c, k, e)
             \/ \E a \in ReviewActions, n \in Keys \cup {NoKey}, v \in BOOLEAN :
                   ReviewRead(c, k, a, e, n, v)
       \/ Delete(c, k)
  BY DEF Request
<1>0. /\ facts[k] \in Fact \cup {NoFact}
      /\ todo \in [Slots -> SUBSET Keys]
  BY DEF StoreType, SlotType
<1>1. ASSUME NEW t \in Ttls, NEW u \in Untils, NEW f \in Confs,
             PostRead(c, k, t, u, f)
      PROVE  TypeOK'
  <2>1. PICK old \in {facts[k], NoFact} :
           Enter(c, "post", k, PostPayload(old, t, u, f), NoKey)
    BY <1>1 DEF PostRead
  <2>2. PostPayload(old, t, u, f) \in Fact
    BY <1>0, <2>1, ConstantsAssumption, PostPayloadType DEF Deadline
  <2>3. SlotType'
    BY <1>1, <2>1, <2>2, <1>0, EnterType DEF PostRead, WriteOps
  <2>. QED
    BY <1>1, <2>3, BeginType, ScansUnchanged DEF PostRead, StoreType, history
<1>2. ASSUME NEW t \in Ttls, NEW f \in Confs, UpsertRead(c, k, t, f)
      PROVE  TypeOK'
  <2>1. PICK old \in {facts[k], NoFact} :
           Enter(c, "upsert", k, PostPayload(old, t, "none", f), NoKey)
    BY <1>2 DEF UpsertRead
  <2>2. PostPayload(old, t, "none", f) \in Fact
    BY <1>0, <2>1, ConstantsAssumption, PostPayloadType DEF Deadline
  <2>3. SlotType'
    BY <1>2, <2>1, <2>2, <1>0, EnterType DEF UpsertRead, WriteOps
  <2>. QED
    BY <1>2, <2>3, BeginType, ScansUnchanged DEF UpsertRead, StoreType, history
<1>3. ASSUME NEW e \in Edits, PutRead(c, k, e)
      PROVE  TypeOK'
  <2>1. Apply(e, facts[k]) \in Fact
    BY <1>0, <1>3, ApplyType, ConstantsAssumption DEF PutRead
  <2>2. SlotType'
    BY <1>3, <2>1, <1>0, EnterType DEF PutRead, WriteOps
  <2>. QED
    BY <1>3, <2>2, BeginType, ScansUnchanged DEF PutRead, StoreType, history
<1>4. ASSUME NEW e \in Edits, NEW a \in ReviewActions,
             NEW n \in Keys \cup {NoKey}, NEW v \in BOOLEAN,
             ReviewRead(c, k, a, e, n, v)
      PROVE  TypeOK'
  <2>1. Apply(ReviewEdit(a, e, n), facts[k]) \in Fact
    <3>1. ReviewEdit(a, e, n) \in Edit
      BY ReviewEditType, ConstantsAssumption
    <3>. QED
      BY <1>0, <1>4, <3>1, ApplyType DEF ReviewRead
  <2>2. SlotType'
    <3>1. CASE v
      BY <1>4, <2>1, <3>1, <1>0, EnterType DEF ReviewRead, WriteOps
    <3>2. CASE ~v
      BY <1>4, <2>1, <3>2, <1>0, EnterType DEF ReviewRead, WriteOps
    <3>. QED
      BY <3>1, <3>2
  <2>. QED
    BY <1>4, <2>2, BeginType, ScansUnchanged DEF ReviewRead, StoreType, history
<1>5. ASSUME Delete(c, k)
      PROVE  TypeOK'
  <2>1. StoreType'
    BY <1>5 DEF Delete, Upsert, Touch, StoreType
  <2>. QED
    BY <1>5, <2>1, BeginType, SlotsUnchanged, ScansUnchanged DEF Delete
<1>. QED
  BY <1>1, <1>2, <1>3, <1>4, <1>5

\* A PATCH that begins keeps the types.
LEMMA PatchType ==
    ASSUME TypeOK, NEW c \in Slots, Patch(c)
    PROVE  TypeOK'
<1> PICK ks \in SUBSET Keys, e \in Edits : PatchBegin(c, ks, e)
  BY DEF Patch
<1>1. PatchEdit(e) \in Edit
  BY ConstantsAssumption DEF PatchEdit, Edit
<1>2. SlotType'
  BY <1>1 DEF TypeOK, SlotType, PatchBegin, WriteOps
<1>. QED
  BY <1>2, BeginType, ScansUnchanged
  DEF TypeOK, PatchBegin, StoreType, store, history

\* The steps of a request and of its goroutine keep the types.
LEMMA SlotStepType ==
    ASSUME TypeOK, NEW c \in Slots, SlotStep(c)
    PROVE  TypeOK'
<1>0. /\ todo \in [Slots -> SUBSET Keys]
      /\ facts \in [Keys -> Fact \cup {NoFact}]
  BY DEF TypeOK, SlotType, StoreType
<1>1. CASE Write(c)
  <2>1. key[c] \in Keys /\ plan[c] \in Fact
    BY <1>1 DEF TypeOK, SlotType, Write, WriteOps
  <2>2. StoreType'
    BY <1>1, <2>1, UpsertType DEF TypeOK, Write
  <2>3. SlotType'
    <3>1. CASE NextAfterWrite(op[c], key[c]) = "idle"
      BY <1>0, <1>1, <3>1, LeaveType DEF TypeOK, Write
    <3>2. CASE NextAfterWrite(op[c], key[c]) # "idle"
      BY <1>0, <1>1, <2>1, <3>2, EnterType DEF TypeOK, Write, WriteOps
    <3>. QED
      BY <3>1, <3>2
  <2>. QED
    BY <1>1, <2>2, <2>3, ScansUnchanged DEF TypeOK, Write, budget, BudgetType
<1>2. CASE ReviewCreate(c)
  <2>1. /\ newKey[c] \in Keys /\ key[c] \in Keys
        /\ plan[c] \in Fact /\ Replacement(plan[c]) \in Fact
    BY <1>2, ReplacementType DEF TypeOK, SlotType, ReviewCreate, WriteOps
  <2>2. StoreType'
    BY <1>2, <2>1, UpsertType DEF TypeOK, ReviewCreate
  <2>3. SlotType'
    BY <1>2, <2>1 DEF TypeOK, SlotType, ReviewCreate, WriteOps
  <2>. QED
    BY <1>2, <2>2, <2>3, ScansUnchanged
    DEF TypeOK, ReviewCreate, budget, BudgetType
<1>3. CASE ReviewRetire(c)
  <2>1. key[c] \in Keys /\ plan[c] \in Fact /\ newKey[c] \in Keys
    BY <1>3 DEF TypeOK, SlotType, ReviewRetire, WriteOps
  <2>2. StoreType'
    BY <1>3, <2>1 DEF TypeOK, ReviewRetire, Upsert, Touch, StoreType
  <2>3. SlotType'
    BY <1>0, <1>3, LeaveType DEF TypeOK, ReviewRetire
  <2>. QED
    BY <1>3, <2>2, <2>3, ScansUnchanged
    DEF TypeOK, ReviewRetire, budget, BudgetType
<1>4. CASE WriteFails(c)
  <2>1. SlotType'
    BY <1>0, <1>4, LeaveType DEF TypeOK, WriteFails
  <2>. QED
    BY <1>4, <2>1, ScansUnchanged
    DEF TypeOK, WriteFails, StoreType, history, budget, BudgetType
<1>5. CASE AutoQuery(c)
  <2>1. PICK page \in SUBSET OlderVersions(key[c]) :
           /\ todo' = [todo EXCEPT ![c] = page]
           /\ IF page = {} THEN Leave(c)
              ELSE Enter(c, "autoMark", key[c], NoFact, NoKey)
    BY <1>5 DEF AutoQuery
  <2>2. todo' \in [Slots -> SUBSET Keys]
    BY <1>0, <2>1 DEF OlderVersions, Active, Stored
  <2>3. key[c] \in Keys
    BY <1>5 DEF TypeOK, SlotType, AutoQuery
  <2>4. SlotType'
    <3>1. CASE page = {}
      BY <2>1, <2>2, <3>1, LeaveType DEF TypeOK
    <3>2. CASE page # {}
      BY <2>1, <2>2, <2>3, <3>2, EnterType DEF TypeOK, WriteOps
    <3>. QED
      BY <3>1, <3>2
  <2>. QED
    BY <1>5, <2>4, ScansUnchanged
    DEF TypeOK, AutoQuery, StoreType, store, history, budget, BudgetType
<1>6. ASSUME NEW k \in Keys, PatchStep(c, k)
      PROVE  TypeOK'
  <2>1. facts[k] # NoFact => Apply(plan[c], facts[k]) \in Fact
    BY <1>0, <1>6, ApplyType DEF TypeOK, SlotType, PatchStep
  <2>2. StoreType'
    BY <1>6, <2>1, SetPayloadType DEF TypeOK, PatchStep
  <2>3. todo' \in [Slots -> SUBSET Keys]
    BY <1>0, <1>6 DEF PatchStep
  <2>4. SlotType'
    <3>1. CASE todo[c] = {k}
      BY <1>6, <2>3, <3>1, LeaveType DEF TypeOK, PatchStep
    <3>2. CASE todo[c] # {k}
      BY <1>6, <2>3, <3>2 DEF TypeOK, PatchStep, SlotType
    <3>. QED
      BY <3>1, <3>2
  <2>. QED
    BY <1>6, <2>2, <2>4, ScansUnchanged
    DEF TypeOK, PatchStep, budget, BudgetType
<1>7. ASSUME NEW k \in Keys, AutoMark(c, k)
      PROVE  TypeOK'
  <2>1. StoreType'
    BY <1>7, StatusWriteType DEF TypeOK, AutoMark, Statuses
  <2>2. todo' \in [Slots -> SUBSET Keys]
    BY <1>0, <1>7 DEF AutoMark
  <2>3. SlotType'
    <3>1. CASE todo[c] = {k}
      BY <1>7, <2>2, <3>1, LeaveType DEF TypeOK, AutoMark
    <3>2. CASE todo[c] # {k}
      BY <1>7, <2>2, <3>2 DEF TypeOK, AutoMark, SlotType
    <3>. QED
      BY <3>1, <3>2
  <2>. QED
    BY <1>7, <2>1, <2>3, ScansUnchanged
    DEF TypeOK, AutoMark, budget, BudgetType
<1>. QED
  BY <1>1, <1>2, <1>3, <1>4, <1>5, <1>6, <1>7 DEF SlotStep

\* A query finds keys.
LEMMA PageKeys ==
    ASSUME NEW s
    PROVE  /\ Page(s, Selected(s)) \in SUBSET Selected(s)
           /\ Page(s, Active) \in SUBSET Active
           /\ Selected(s) \in SUBSET Stored /\ Active \in SUBSET Stored
           /\ Stored \in SUBSET Keys
BY DEF Page, Selected, Active, Stored

\* The stale scan goes on with some of the facts it has collected.
LEMMA StaleChoiceGoesOn ==
    ASSUME StaleChoice
    PROVE  \E rest \in SUBSET work["StaleScan"] :
              GoOn("StaleScan", IF rest = {} THEN "idle" ELSE "flag", rest)
<1>1. PICK refs \in (IF Page("StaleScan", Active) = {} THEN {curSet["StaleScan"]}
                     ELSE {}) \cup (IF StoreFaults THEN {{}} ELSE {}),
           important \in IF ImportanceFilter THEN SUBSET Keys ELSE {{}} :
         LET rest == {p \in work["StaleScan"] : p[1] \notin refs \cup important}
         IN  GoOn("StaleScan", IF rest = {} THEN "idle" ELSE "flag", rest)
  BY Zenon DEF StaleChoice
<1> DEFINE rest == {p \in work["StaleScan"] : p[1] \notin refs \cup important}
<1>2. rest \in SUBSET work["StaleScan"]
  OBVIOUS
<1>3. GoOn("StaleScan", IF rest = {} THEN "idle" ELSE "flag", rest)
  BY <1>1
<1> HIDE DEF rest
<1>. QED
  BY <1>2, <1>3, Zenon

\* The offset moves to a point of the page.
LEMMA AdvanceType ==
    ASSUME ScanType, NEW s \in AllScans, NEW page \in SUBSET Keys,
           Advance(s, page)
    PROVE  /\ offset' \in [AllScans -> Nat]
           /\ offset'[s] # 0
           /\ \A t \in AllScans : t # s => offset'[t] = offset[t]
<1>1. PICK last \in page : offset' = [offset EXCEPT ![s] = Id[last]]
  BY DEF Advance
<1>2. Id[last] \in Nat \ {0}
  BY ConstantsAssumption
<1>. QED
  BY <1>1, <1>2 DEF ScanType

\* Collecting a page keeps the types.
LEMMA CollectType ==
    ASSUME TypeOK, NEW s \in AllScans, NEW page \in SUBSET Keys, NEW seen,
           NEW pairs \in SUBSET Pairs, Collect(s, page, seen, pairs),
           NEW next \in {"query", "pattern"},
           phase' = [phase EXCEPT ![s] = next]
    PROVE  TypeOK'
<1>1. /\ offset' \in [AllScans -> Nat]
      /\ offset'[s] # 0
      /\ \A t \in AllScans : t # s => offset'[t] = offset[t]
  BY AdvanceType DEF Collect, TypeOK
<1>2. ScanType'
  BY <1>1 DEF TypeOK, ScanType, Collect, AllScans, FlagScans
<1>3. StoreType'
  BY DEF TypeOK, StoreType, Collect, history
<1>. QED
  BY <1>2, <1>3, SlotsUnchanged DEF TypeOK, Collect, budget, BudgetType

\* So does the end of a query.
LEMMA GoOnType ==
    ASSUME TypeOK, NEW s \in AllScans,
           NEW next \in {"idle", "done", "refs", "flag", "read", "cross",
                         "pattern", "retire"},
           NEW rest \in SUBSET Pairs, GoOn(s, next, rest),
           next \in {"idle", "done", "pattern"} => rest = {},
           next = "read" => rest \subseteq Keys \X Keys,
           curSet' \in [AllScans -> SUBSET Keys]
    PROVE  TypeOK'
<1>1. ScanType'
  BY DEF TypeOK, ScanType, GoOn, AllScans, FlagScans
<1>2. StoreType'
  BY DEF TypeOK, StoreType, GoOn, history
<1>. QED
  BY <1>1, <1>2, SlotsUnchanged DEF TypeOK, GoOn, budget, BudgetType

\* And the handling of one pair.
LEMMA HandledType ==
    ASSUME ScanType, NEW s \in AllScans, NEW p,
           NEW loop \in {"flag", "read", "cross", "retire"}, NEW repeats,
           Handled(s, p, loop, repeats),
           phase[s] \notin {"query", "refs", "pattern"},
           loop = "read" => work[s] \subseteq Keys \X Keys,
           cur' \in [AllScans -> Pairs \cup {<<NoKey, NoKey>>}],
           \A t \in AllScans : t # s => cur'[t] = cur[t],
           curSet' \in [AllScans -> SUBSET Keys],
           UNCHANGED offset
    PROVE  ScanType'
<1>1. PICK rest \in {work[s] \ {p}} \cup (IF repeats THEN {work[s]} ELSE {}) :
         /\ work' = [work EXCEPT ![s] = rest]
         /\ again' = [again EXCEPT ![s] = IF rest = {} THEN {} ELSE @]
         /\ phase' = [phase EXCEPT ![s] = IF rest # {} THEN loop
                                          ELSE IF loop = "cross" THEN "pattern"
                                          ELSE Rest(s)]
  BY DEF Handled
<1>2. rest \subseteq work[s] /\ rest \in SUBSET Pairs
  BY <1>1 DEF ScanType
<1>3. Rest(s) \in {"idle", "done"}
  BY DEF Rest
<1>. QED
  BY <1>1, <1>2, <1>3 DEF ScanType, AllScans, FlagScans

\* Every step of a scan keeps the types.
LEMMA ScanStepType ==
    ASSUME TypeOK, NEW s \in AllScans, ScanStep(s)
    PROVE  TypeOK'
<1>0. /\ ScanType /\ StoreType
      /\ facts \in [Keys -> Fact \cup {NoFact}]
      /\ work \in [AllScans -> SUBSET Pairs]
      /\ curSet \in [AllScans -> SUBSET Keys]
      /\ \A k \in Stored : facts[k] \in Fact
      /\ "StaleScan" \in AllScans /\ "ConflictScan" \in AllScans
      /\ "SupersedeScan" \in AllScans /\ FlagScans \subseteq AllScans
      /\ Rest(s) \in {"idle", "done"}
  BY ConstantsAssumption
  DEF TypeOK, StoreType, ScanType, AllScans, FlagScans, Rest, Stored
<1>1. CASE QueryFails(s)
  BY <1>0, <1>1, GoOnType DEF QueryFails
<1>2. CASE FlagPage(s)
  <2>1. /\ Page(s, Selected(s)) \in SUBSET Keys
        /\ Page(s, Selected(s)) \X {NoKey} \in SUBSET Pairs
    BY PageKeys DEF Pairs
  <2>. QED
    BY <1>0, <1>2, <2>1, CollectType DEF FlagPage
<1>3. CASE FlagQueryEnds(s)
  BY <1>0, <1>3, GoOnType DEF FlagQueryEnds
<1>4. ASSUME NEW p \in work[s], FlagMark(s, p)
      PROVE  TypeOK'
  <2>1. p[1] \in Keys
    BY <1>0 DEF Pairs
  <2>2. StoreType'
    BY <1>4, <2>1, StatusWriteType DEF TypeOK, FlagMark, Statuses
  <2>3. ScanType'
    BY <1>0, <1>4, HandledType DEF FlagMark, ScanType
  <2>. QED
    BY <1>4, <2>2, <2>3, SlotsUnchanged
    DEF TypeOK, FlagMark, budget, BudgetType
<1>5. CASE s = "StaleScan" /\ RefsPage
  <2>1. Page("StaleScan", Active) \in SUBSET Keys
    BY PageKeys
  <2>2. /\ offset' \in [AllScans -> Nat]
        /\ \A t \in AllScans : t # "StaleScan" => offset'[t] = offset[t]
    BY <1>0, <1>5, <2>1, AdvanceType DEF RefsPage
  <2>3. ReferencedKeys(Page("StaleScan", Active)) \in SUBSET Keys
    <3>1. ReferencedKeys(Page("StaleScan", Active)) \subseteq Keys
      BY DEF ReferencedKeys
    <3>. QED
      BY <3>1
  <2>4. ScanType'
    BY <1>0, <1>5, <2>2, <2>3 DEF ScanType, RefsPage
  <2>. QED
    BY <1>5, <2>4, SlotsUnchanged
    DEF TypeOK, RefsPage, StoreType, store, history, budget, BudgetType
<1>6. CASE s = "StaleScan" /\ StaleChoice
  <2>1. \E rest \in SUBSET work[s] :
           GoOn(s, IF rest = {} THEN "idle" ELSE "flag", rest)
    BY <1>6, StaleChoiceGoesOn
  <2>2. curSet' \in [AllScans -> SUBSET Keys]
    BY <1>0, <1>6 DEF StaleChoice
  <2>. QED
    BY <1>0, <2>1, <2>2, GoOnType
<1>7. CASE s = "ConflictScan" /\ ConflictPage
  <2>1. /\ Page(s, Selected(s)) \in SUBSET Keys
        /\ Page(s, Selected(s)) \X {NoKey} \in SUBSET Pairs
    BY PageKeys DEF Pairs
  <2>. QED
    BY <1>0, <1>7, <2>1, CollectType DEF ConflictPage
<1>8. CASE s = "ConflictScan" /\ ConflictChoice
  <2>1. PICK similar :
           /\ similar \subseteq {p[1] : p \in work[s]} \X {p[1] : p \in work[s]}
           /\ GoOn(s, IF similar = {} THEN "idle" ELSE "read", similar)
    BY <1>8 DEF ConflictChoice
  <2>2. \A p \in work[s] : p[1] \in Keys
    BY <1>0 DEF Pairs
  <2>3. similar \subseteq Keys \X Keys /\ similar \in SUBSET Pairs
    BY <2>1, <2>2 DEF Pairs
  <2>. QED
    BY <1>0, <1>8, <2>1, <2>3, GoOnType DEF ConflictChoice
<1>9. ASSUME s = "ConflictScan", NEW p \in work["ConflictScan"], ConflictRead(p)
      PROVE  TypeOK'
  <2>1. p \in Keys \X Keys /\ p \in Pairs
    BY <1>0, <1>9 DEF ScanType, Pairs, ConflictRead
  <2>2. CASE facts[p[1]] # NoFact /\ phase' = [phase EXCEPT ![s] = "write"]
             /\ cur' = [cur EXCEPT ![s] = p]
             /\ curSet' = [curSet EXCEPT
                             ![s] = facts[p[1]].contradicts \cup {p[2]}]
             /\ moved' = [moved EXCEPT ![s] = @ \ {p[1]}]
             /\ UNCHANGED <<work, again>>
    <3>1. facts[p[1]].contradicts \cup {p[2]} \in SUBSET Keys
      BY <1>0, <2>1, <2>2 DEF Fact
    <3>2. ScanType'
      BY <1>0, <1>9, <2>1, <2>2, <3>1 DEF ScanType, ConflictRead
    <3>3. StoreType'
      BY <1>0, <1>9, <2>2 DEF StoreType, ConflictRead, history
    <3>. QED
      BY <1>9, <3>2, <3>3, SlotsUnchanged
      DEF TypeOK, ConflictRead, budget, BudgetType
  <2>3. CASE Handled(s, p, "read", Copied(s, p)) /\ UNCHANGED <<cur, curSet, moved>>
    <3>1. phase[s] = "read" /\ work[s] \subseteq Keys \X Keys /\ offset' = offset
      BY <1>0, <1>9 DEF ScanType, ConflictRead
    <3>2. ScanType'
      BY <1>0, <2>3, <3>1, HandledType DEF ScanType
    <3>. QED
      BY <1>9, <2>3, <3>2, SlotsUnchanged
      DEF TypeOK, ConflictRead, StoreType, history, budget, BudgetType
  <2>. QED
    BY <1>9, <2>2, <2>3 DEF ConflictRead
<1>10. CASE s = "ConflictScan" /\ ConflictWrite
  <2>0. /\ cur[s][1] \in Keys /\ curSet[s] \in SUBSET Keys
        /\ work[s] \subseteq Keys \X Keys
    BY <1>0, <1>10 DEF ScanType, ConflictWrite, Pairs
  <2>1. StoreType'
    <3>1. facts[cur[s][1]] # NoFact =>
             [facts[cur[s][1]] EXCEPT
                 !.contradicts = curSet[s],
                 !.resolved = FALSE, !.status = "needs_review"] \in Fact
      <4>. SUFFICES ASSUME facts[cur[s][1]] # NoFact
                    PROVE  [facts[cur[s][1]] EXCEPT
                              !.contradicts = curSet[s],
                              !.resolved = FALSE, !.status = "needs_review"] \in Fact
        OBVIOUS
      <4>1. facts[cur[s][1]] \in Fact /\ curSet[s] \in SUBSET Keys
        BY <1>0, <2>0 DEF StoreType
      <4>. QED
        BY <4>1 DEF Fact, Statuses
    <3>. QED
      BY <1>0, <1>10, <2>0, <3>1, SetPayloadType DEF ConflictWrite
  <2>2. ScanType'
    <3>1. /\ cur' \in [AllScans -> Pairs \cup {<<NoKey, NoKey>>}]
          /\ \A t \in AllScans : t # s => cur'[t] = cur[t]
          /\ curSet' \in [AllScans -> SUBSET Keys]
      BY <1>0, <1>10 DEF ScanType, ConflictWrite
    <3>. QED
      BY <1>0, <1>10, <2>0, <3>1, HandledType DEF ConflictWrite
  <2>. QED
    BY <1>10, <2>1, <2>2, SlotsUnchanged
    DEF TypeOK, ConflictWrite, budget, BudgetType
<1>11. CASE s = "SupersedeScan" /\ CrossPage
  <2>1. Page(s, Selected(s)) \in SUBSET Keys
    BY PageKeys
  <2>2. {<<facts[k].supersedes, k>> : k \in Page(s, Selected(s)) \cap Superseders}
           \in SUBSET Pairs
    BY <1>0, <2>1 DEF Superseders, Pairs, Fact
  <2>. QED
    BY <1>0, <1>11, <2>1, <2>2, CollectType DEF CrossPage
<1>12. CASE s = "SupersedeScan" /\ CrossQueryEnds
  BY <1>0, <1>12, GoOnType DEF CrossQueryEnds
<1>13. ASSUME s = "SupersedeScan", NEW p \in work["SupersedeScan"], CrossRead(p)
      PROVE  TypeOK'
  <2>1. p \in Pairs
    BY <1>0
  <2>2. CASE Handled(s, p, "cross", p[2] \in again[s]) /\ UNCHANGED <<cur, moved>>
    <3>1. ScanType'
      BY <1>0, <1>13, <2>2, HandledType DEF ScanType, CrossRead
    <3>. QED
      BY <1>13, <2>2, <3>1, SlotsUnchanged
      DEF TypeOK, CrossRead, StoreType, history, budget, BudgetType
  <2>3. CASE /\ cur' = [cur EXCEPT ![s] = p]
             /\ phase' = [phase EXCEPT ![s] = "crossMark"]
             /\ moved' = [moved EXCEPT ![s] = @ \ {p[1]}]
             /\ UNCHANGED <<work, again>>
    <3>1. ScanType'
      BY <1>0, <1>13, <2>1, <2>3 DEF ScanType, CrossRead
    <3>2. StoreType'
      BY <1>0, <1>13, <2>3 DEF StoreType, CrossRead, history
    <3>. QED
      BY <1>13, <3>1, <3>2, SlotsUnchanged
      DEF TypeOK, CrossRead, budget, BudgetType
  <2>. QED
    BY <1>13, <2>2, <2>3 DEF CrossRead
<1>14. CASE s = "SupersedeScan" /\ CrossMark
  <2>1. cur[s][1] \in Keys
    BY <1>0, <1>14 DEF ScanType, CrossMark, Pairs
  <2>2. StoreType'
    BY <1>0, <1>14, <2>1, StatusWriteType DEF CrossMark, Statuses
  <2>3. ScanType'
    <3>1. /\ cur' \in [AllScans -> Pairs \cup {<<NoKey, NoKey>>}]
          /\ \A t \in AllScans : t # s => cur'[t] = cur[t]
      BY <1>0, <1>14 DEF ScanType, CrossMark
    <3>. QED
      BY <1>0, <1>14, <3>1, HandledType DEF CrossMark
  <2>. QED
    BY <1>14, <2>2, <2>3, SlotsUnchanged
    DEF TypeOK, CrossMark, budget, BudgetType
<1>15. CASE s = "SupersedeScan" /\ PatternPage
  <2>1. /\ Page(s, Active) \in SUBSET Keys
        /\ Page(s, Active) \X {NoKey} \in SUBSET Pairs
    BY PageKeys DEF Pairs
  <2>2. phase' = [phase EXCEPT ![s] = "pattern"]
    BY <1>0, <1>15 DEF PatternPage, ScanType
  <2>. QED
    BY <1>0, <1>15, <2>1, <2>2, CollectType DEF PatternPage
<1>16. CASE s = "SupersedeScan" /\ PatternQueryEnds
  <2> DEFINE old == Outdated({p[1] : p \in work[s]})
  <2>1. old \X {NoKey} \in SUBSET Pairs
    <3>1. \A p \in work[s] : p[1] \in Keys
      BY <1>0 DEF Pairs
    <3>. QED
      BY <3>1 DEF Outdated, Pairs
  <2>2. /\ GoOn(s, IF old = {} THEN "idle" ELSE "retire", old \X {NoKey})
        /\ old = {} => old \X {NoKey} = {}
        /\ curSet' = curSet
    BY <1>16 DEF PatternQueryEnds
  <2> HIDE DEF old
  <2>. QED
    BY <1>0, <2>1, <2>2, GoOnType
<1>17. ASSUME s = "SupersedeScan", NEW p \in work["SupersedeScan"], PatternMark(p)
       PROVE  TypeOK'
  <2>1. p[1] \in Keys
    BY <1>0 DEF Pairs
  <2>2. StoreType'
    BY <1>0, <1>17, <2>1, StatusWriteType DEF PatternMark, Statuses
  <2>3. ScanType'
    BY <1>0, <1>17, HandledType DEF ScanType, PatternMark
  <2>. QED
    BY <1>17, <2>2, <2>3, SlotsUnchanged
    DEF TypeOK, PatternMark, budget, BudgetType
<1>. QED
  BY <1>1, <1>2, <1>3, <1>4, <1>5, <1>6, <1>7, <1>8, <1>9, <1>10, <1>11,
     <1>12, <1>13, <1>14, <1>15, <1>16, <1>17
  DEF ScanStep

\* Time and restarts keep the types.
LEMMA EnvironmentType ==
    ASSUME TypeOK, (\E k \in Keys : Lapse(k)) \/ Restart
    PROVE  TypeOK'
<1>1. ASSUME NEW k \in Keys, Lapse(k)
      PROVE  TypeOK'
  <2>1. StoreType'
    <3>1. /\ facts[k] \in Fact
          /\ [facts[k] EXCEPT !.ttl = "past"] \in Fact
          /\ [facts[k] EXCEPT !.until = "past"] \in Fact
      BY <1>1 DEF TypeOK, StoreType, Lapse, Fact, Deadline
    <3>2. \/ facts' = [facts EXCEPT ![k] = [facts[k] EXCEPT !.ttl = "past"]]
          \/ facts' = [facts EXCEPT ![k] = [facts[k] EXCEPT !.until = "past"]]
      BY <1>1 DEF Lapse
    <3>. QED
      BY <1>1, <3>1, <3>2 DEF TypeOK, StoreType, Lapse, history
  <2>. QED
    BY <1>1, <2>1, SlotsUnchanged, ScansUnchanged
    DEF TypeOK, Lapse, budget, BudgetType
<1>2. CASE Restart
  <2>1. SlotType'
    BY <1>2 DEF Restart, SlotType, WriteOps
  <2>2. ScanType'
    BY <1>2 DEF Restart, ScanType, AllScans, FlagScans
  <2>3. StoreType'
    BY <1>2 DEF TypeOK, Restart, StoreType, history
  <2>. QED
    BY <1>2, <2>1, <2>2, <2>3, ConstantsAssumption
    DEF TypeOK, Restart, BudgetType
<1>. QED
  BY <1>1, <1>2

\* TypeOK is inductive, and so an invariant.
THEOREM TypeCorrectness == Spec => []TypeOK
<1>1. TypeOK /\ [Next]_vars => TypeOK'
  <2> SUFFICES ASSUME TypeOK, [Next]_vars PROVE TypeOK'
    OBVIOUS
  <2>1. CASE UNCHANGED vars
    BY <2>1, SlotsUnchanged, ScansUnchanged
    DEF vars, store, history, budget, TypeOK, StoreType, BudgetType
  <2>2. CASE Next
    BY <2>2, RequestType, PatchType, SlotStepType, ScanStepType, EnvironmentType
    DEF Next
  <2>. QED
    BY <2>1, <2>2
<1>. QED
  BY <1>1, InitType, PTL DEF Spec

-----------------------------------------------------------------------------
(* What a request writes back is what it read (UpsertKeepsLifecycle).  It    *)
(* holds when the read that precedes the write does not fail.               *)

\* UpsertKeepsLifecycle for one slot.
Kept(c) ==
    (op[c] \in {"post", "upsert"} /\ c \in fresh /\ facts[key[c]] # NoFact)
       => Lifecycle(plan[c]) = Lifecycle(facts[key[c]])

\* A store call of anyone else either leaves the fact alone or makes the
\* request's reading of it outdated.
LEMMA KeptByOthers ==
    ASSUME TypeOK, NEW c \in Slots, Kept(c),
           op'[c] = op[c], key'[c] = key[c], plan'[c] = plan[c],
           \/ \E k \in Keys : \E f : Upsert(k, f)
           \/ facts' = facts /\ (c \in fresh' => c \in fresh)
    PROVE  Kept(c)'
<1>1. CASE facts' = facts /\ (c \in fresh' => c \in fresh)
  BY <1>1 DEF Kept, Lifecycle
<1>2. CASE \E k \in Keys : \E f : Upsert(k, f)
  <2>. PICK k \in Keys : \E f : Upsert(k, f)
    BY <1>2
  <2>1. c \in fresh' => c \in fresh /\ key[c] # k
    BY DEF Upsert, Touch
  <2>2. key[c] # k => facts'[key[c]] = facts[key[c]]
    BY DEF Upsert, TypeOK, StoreType
  <2>. QED
    BY <2>1, <2>2 DEF Kept, Lifecycle
<1>. QED
  BY <1>1, <1>2

\* A field-level update is an upsert or changes nothing.
LEMMA SetPayloadIsUpsert ==
    ASSUME NEW k \in Keys, NEW f, SetPayload(k, f)
    PROVE  (\E j \in Keys : \E g : Upsert(j, g)) \/ UNCHANGED <<facts, fresh, moved>>
BY DEF SetPayload

\* POST carries over every field that Lifecycle names.
LEMMA PostPayloadKeeps ==
    ASSUME NEW f \in Fact, NEW t, NEW u, NEW c
    PROVE  Lifecycle(PostPayload(f, t, u, c)) = Lifecycle(f)
BY ConstantsAssumption DEF Lifecycle, PostPayload, Fact

\* The steps of a slot keep the payloads of all slots faithful.
LEMMA KeptBySlots ==
    ASSUME TypeOK, UpsertKeepsLifecycle, ReadFaults = FALSE,
           NEW d \in Slots, Request(d) \/ Patch(d) \/ SlotStep(d)
    PROVE  UpsertKeepsLifecycle'
<1>0. \A c \in Slots : Kept(c)
  BY DEF UpsertKeepsLifecycle, Kept
<1> SUFFICES ASSUME NEW c \in Slots PROVE Kept(c)'
  BY DEF UpsertKeepsLifecycle, Kept
<1>1. ASSUME NEW k \in Keys, NEW t \in Ttls, NEW u \in Untils, NEW f \in Confs,
             PostRead(d, k, t, u, f)
      PROVE  Kept(c)'
  <2>1. facts' = facts /\ fresh' = fresh \cup {d}
        /\ Enter(d, "post", k, PostPayload(facts[k], t, u, f), NoKey)
    BY <1>1 DEF PostRead
  <2>2. CASE c = d
    <3>1. key'[c] = k /\ plan'[c] = PostPayload(facts[k], t, u, f)
      BY <2>1, <2>2 DEF Enter, TypeOK, SlotType
    <3>. QED
      BY <2>1, <3>1, PostPayloadKeeps DEF Kept, TypeOK, StoreType, Lifecycle
  <2>3. CASE c # d
    BY <1>0, <2>1, <2>3, KeptByOthers DEF Enter, TypeOK, SlotType
  <2>. QED
    BY <2>2, <2>3
<1>2. ASSUME NEW k \in Keys, NEW t \in Ttls, NEW f \in Confs,
             UpsertRead(d, k, t, f)
      PROVE  Kept(c)'
  <2>1. facts' = facts /\ fresh' = fresh \cup {d}
        /\ Enter(d, "upsert", k, PostPayload(facts[k], t, "none", f), NoKey)
    BY <1>2 DEF UpsertRead
  <2>2. CASE c = d
    <3>1. key'[c] = k /\ plan'[c] = PostPayload(facts[k], t, "none", f)
      BY <2>1, <2>2 DEF Enter, TypeOK, SlotType
    <3>. QED
      BY <2>1, <3>1, PostPayloadKeeps DEF Kept, TypeOK, StoreType, Lifecycle
  <2>3. CASE c # d
    BY <1>0, <2>1, <2>3, KeptByOthers DEF Enter, TypeOK, SlotType
  <2>. QED
    BY <2>2, <2>3
<1>3. ASSUME NEW k \in Keys, NEW e \in Edits, PutRead(d, k, e)
      PROVE  Kept(c)'
  <2>1. CASE c = d
    BY <1>3, <2>1 DEF PutRead, Enter, Kept, TypeOK, SlotType
  <2>2. CASE c # d
    BY <1>0, <1>3, <2>2, KeptByOthers DEF PutRead, Enter, TypeOK, SlotType
  <2>. QED
    BY <2>1, <2>2
<1>4. ASSUME NEW k \in Keys, NEW e \in Edits, NEW a \in ReviewActions,
             NEW n \in Keys \cup {NoKey}, NEW v \in BOOLEAN,
             ReviewRead(d, k, a, e, n, v)
      PROVE  Kept(c)'
  <2>1. CASE c = d
    BY <1>4, <2>1 DEF ReviewRead, Enter, Kept, TypeOK, SlotType
  <2>2. CASE c # d
    BY <1>0, <1>4, <2>2, KeptByOthers DEF ReviewRead, Enter, TypeOK, SlotType
  <2>. QED
    BY <2>1, <2>2
<1>5. ASSUME NEW k \in Keys, Delete(d, k)
      PROVE  Kept(c)'
  BY <1>0, <1>5, KeptByOthers DEF Delete, slots
<1>6. ASSUME NEW ks \in SUBSET Keys, NEW e \in Edits, PatchBegin(d, ks, e)
      PROVE  Kept(c)'
  <2>1. CASE c = d
    BY <1>6, <2>1 DEF PatchBegin, Kept, TypeOK, SlotType
  <2>2. CASE c # d
    BY <1>0, <1>6, <2>2, KeptByOthers DEF PatchBegin, store, TypeOK, SlotType
  <2>. QED
    BY <2>1, <2>2
<1>7. CASE SlotStep(d)
  <2> DEFINE Quiet ==
        /\ \/ \E k \in Keys : \E f : Upsert(k, f)
           \/ facts' = facts /\ (c \in fresh' => c \in fresh)
        /\ op'[d] \notin {"post", "upsert"}
        /\ c # d => op'[c] = op[c] /\ key'[c] = key[c] /\ plan'[c] = plan[c]
  <2>1. Quiet
    <3>1. CASE Write(d)
      BY <3>1 DEF Write, Enter, Leave, TypeOK, SlotType, WriteOps
    <3>2. CASE ReviewCreate(d)
      BY <3>2 DEF ReviewCreate, TypeOK, SlotType, WriteOps
    <3>3. CASE ReviewRetire(d)
      BY <3>3 DEF ReviewRetire, Enter, Leave, TypeOK, SlotType, WriteOps
    <3>4. CASE WriteFails(d)
      BY <3>4 DEF WriteFails, Leave, Enter, TypeOK, SlotType
    <3>5. CASE AutoQuery(d)
      <4>1. UNCHANGED store
        BY <3>5 DEF AutoQuery
      <4>2. \E next \in {"idle", "autoMark"}, k \in Keys \cup {NoKey} :
               Enter(d, next, k, NoFact, NoKey)
        BY <3>5 DEF AutoQuery, Leave, TypeOK, SlotType
      <4>. QED
        BY <4>1, <4>2 DEF store, Enter, TypeOK, SlotType
    <3>6. ASSUME NEW k \in Keys, PatchStep(d, k)
          PROVE  Quiet
      BY <3>6, SetPayloadIsUpsert
      DEF PatchStep, Enter, Leave, TypeOK, SlotType
    <3>7. ASSUME NEW k \in Keys, AutoMark(d, k)
          PROVE  Quiet
      BY <3>7, SetPayloadIsUpsert
      DEF AutoMark, Enter, Leave, TypeOK, SlotType
    <3>. QED
      BY <1>7, <3>1, <3>2, <3>3, <3>4, <3>5, <3>6, <3>7 DEF SlotStep
  <2>. QED
    BY <1>0, <2>1, KeptByOthers DEF Kept
<1>. QED
  BY <1>1, <1>2, <1>3, <1>4, <1>5, <1>6, <1>7 DEF Request, Patch

\* A field-level update with a payload stores a payload.
LEMMA SetPayloadStores ==
    ASSUME NEW k \in Keys, NEW f, facts[k] # NoFact => f \in Fact,
           SetPayload(k, f)
    PROVE  (\E j \in Keys, g \in Fact : Upsert(j, g)) \/ UNCHANGED <<facts, fresh>>
BY DEF SetPayload

\* So does an update of the status alone.
LEMMA StatusWriteStores ==
    ASSUME StoreType, NEW k \in Keys, NEW st \in Statuses,
           SetPayload(k, [facts[k] EXCEPT !.status = st])
    PROVE  (\E j \in Keys, g \in Fact : Upsert(j, g)) \/ UNCHANGED <<facts, fresh>>
<1>1. facts[k] # NoFact => [facts[k] EXCEPT !.status = st] \in Fact
  BY StatusEditType DEF StoreType
<1>. QED
  BY <1>1, SetPayloadStores

\* What a scan does to the collection: one upsert at most.
ScanWrite ==
    /\ UNCHANGED <<slots, history>>
    /\ \/ \E k \in Keys, f \in Fact : Upsert(k, f)
       \/ UNCHANGED <<facts, fresh>>

LEMMA ScanWrites ==
    ASSUME NEW s \in AllScans, ScanStep(s), TypeOK
    PROVE  ScanWrite
<1>0. /\ \A t \in AllScans : \A p \in work[t] : p[1] \in Keys
      /\ StoreType
      /\ {"needs_review", "superseded"} \subseteq Statuses
  BY DEF TypeOK, ScanType, Pairs, Statuses
<1>1. CASE QueryFails(s) \/ FlagPage(s) \/ FlagQueryEnds(s)
  BY <1>1 DEF QueryFails, FlagPage, FlagQueryEnds, Collect, GoOn, ScanWrite
<1>2. CASE RefsPage \/ StaleChoice
  BY <1>2 DEF RefsPage, StaleChoice, GoOn, store, ScanWrite
<1>3. ASSUME NEW p \in work[s], FlagMark(s, p)
      PROVE  ScanWrite
  <2>1. p[1] \in Keys
    BY <1>0, <1>3 DEF FlagMark, AllScans
  <2>. QED
    BY <1>0, <1>3, <2>1, StatusWriteStores DEF FlagMark, ScanWrite
<1>4. CASE ConflictPage \/ ConflictChoice
  BY <1>4 DEF ConflictPage, ConflictChoice, Collect, GoOn, ScanWrite
<1>5. CASE ConflictWrite
  <2>1. cur["ConflictScan"][1] \in Keys /\ curSet["ConflictScan"] \in SUBSET Keys
    BY <1>5 DEF ConflictWrite, TypeOK, ScanType, AllScans, Pairs
  <2>2. facts[cur["ConflictScan"][1]] # NoFact =>
           [facts[cur["ConflictScan"][1]] EXCEPT
               !.contradicts = curSet["ConflictScan"],
               !.resolved = FALSE, !.status = "needs_review"] \in Fact
    BY <1>0, <2>1 DEF StoreType, Fact, Statuses
  <2>. QED
    BY <1>5, <2>1, <2>2, SetPayloadStores DEF ConflictWrite, ScanWrite
<1>6. ASSUME NEW p, ConflictRead(p)
      PROVE  ScanWrite
  BY <1>6 DEF ConflictRead, ScanWrite
<1>7. CASE CrossPage \/ CrossQueryEnds
  BY <1>7 DEF CrossPage, CrossQueryEnds, Collect, GoOn, ScanWrite
<1>8. CASE CrossMark
  <2>1. cur["SupersedeScan"][1] \in Keys
    BY <1>8 DEF CrossMark, TypeOK, ScanType, AllScans, Pairs
  <2>. QED
    BY <1>0, <1>8, <2>1, StatusWriteStores DEF CrossMark, ScanWrite
<1>9. CASE PatternPage \/ PatternQueryEnds
  BY <1>9 DEF PatternPage, PatternQueryEnds, Collect, GoOn, ScanWrite
<1>10. ASSUME NEW p, CrossRead(p)
       PROVE  ScanWrite
  BY <1>10 DEF CrossRead, ScanWrite
<1>11. ASSUME NEW p \in work["SupersedeScan"], PatternMark(p)
       PROVE  ScanWrite
  <2>1. p[1] \in Keys
    BY <1>0, <1>11 DEF AllScans
  <2>. QED
    BY <1>0, <1>11, <2>1, StatusWriteStores DEF PatternMark, ScanWrite
<1>. QED
  BY <1>1, <1>2, <1>3, <1>4, <1>5, <1>6, <1>7, <1>8, <1>9, <1>10, <1>11
  DEF ScanStep

\* Time and restarts leave the payloads in progress faithful: a deadline is
\* no lifecycle field, and a restart drops every request.
LEMMA KeptByEnvironment ==
    ASSUME TypeOK, UpsertKeepsLifecycle,
           (\E k \in Keys : Lapse(k)) \/ Restart
    PROVE  UpsertKeepsLifecycle'
<1>1. ASSUME NEW k \in Keys, Lapse(k)
      PROVE  UpsertKeepsLifecycle'
  <2>1. \A j \in Keys : /\ facts'[j] # NoFact => facts[j] # NoFact
                        /\ facts[j] # NoFact => Lifecycle(facts'[j]) = Lifecycle(facts[j])
    <3>. SUFFICES ASSUME NEW j \in Keys
                  PROVE  /\ facts'[j] # NoFact => facts[j] # NoFact
                         /\ facts[j] # NoFact => Lifecycle(facts'[j]) = Lifecycle(facts[j])
      OBVIOUS
    <3>1. CASE j # k
      BY <1>1, <3>1 DEF Lapse, TypeOK, StoreType
    <3>2. CASE j = k
      <4>1. facts[k] \in Fact
        BY <1>1 DEF Lapse, TypeOK, StoreType
      <4>2. \/ facts'[k] = [facts[k] EXCEPT !.ttl = "past"]
            \/ facts'[k] = [facts[k] EXCEPT !.until = "past"]
        BY <1>1 DEF Lapse, TypeOK, StoreType
      <4>3. /\ Lifecycle([facts[k] EXCEPT !.ttl = "past"]) = Lifecycle(facts[k])
            /\ Lifecycle([facts[k] EXCEPT !.until = "past"]) = Lifecycle(facts[k])
        BY <4>1 DEF Lifecycle, Fact
      <4>. QED
        BY <1>1, <3>2, <4>2, <4>3 DEF Lapse
    <3>. QED
      BY <3>1, <3>2
  <2>2. fresh' = fresh /\ op' = op /\ key' = key /\ plan' = plan
    BY <1>1 DEF Lapse, slots
  <2>3. \A c \in Slots : op[c] \in {"post", "upsert"} => key[c] \in Keys
    BY DEF TypeOK, SlotType, WriteOps
  <2>. QED
    BY <2>1, <2>2, <2>3 DEF UpsertKeepsLifecycle
<1>2. CASE Restart
  BY <1>2 DEF Restart, UpsertKeepsLifecycle
<1>. QED
  BY <1>1, <1>2

\* When store reads do not fail, a POST or MCP upsert never writes back
\* lifecycle fields other than the stored ones, unless another writer came
\* between its read and its write.
THEOREM UpsertsPreserveLifecycle ==
    ASSUME ReadFaults = FALSE
    PROVE  Spec => []UpsertKeepsLifecycle
<1>1. Init => UpsertKeepsLifecycle
  BY DEF Init, UpsertKeepsLifecycle
<1>2. TypeOK /\ UpsertKeepsLifecycle /\ [Next]_vars => UpsertKeepsLifecycle'
  <2> SUFFICES ASSUME TypeOK, UpsertKeepsLifecycle, [Next]_vars
               PROVE  UpsertKeepsLifecycle'
    OBVIOUS
  <2>1. CASE UNCHANGED vars
    BY <2>1 DEF vars, store, slots, UpsertKeepsLifecycle, Lifecycle
  <2>2. ASSUME NEW c \in Slots, Request(c) \/ Patch(c) \/ SlotStep(c)
        PROVE  UpsertKeepsLifecycle'
    BY <2>2, KeptBySlots
  <2>3. ASSUME NEW s \in AllScans, ScanStep(s)
        PROVE  UpsertKeepsLifecycle'
    <3>1. \A c \in Slots : Kept(c)
      BY DEF UpsertKeepsLifecycle, Kept
    <3>2. \A c \in Slots : op'[c] = op[c] /\ key'[c] = key[c] /\ plan'[c] = plan[c]
      BY <2>3, ScanWrites DEF ScanWrite, slots
    <3>3. \A c \in Slots : Kept(c)'
      BY <2>3, <3>1, <3>2, ScanWrites, KeptByOthers DEF ScanWrite
    <3>. QED
      BY <3>3 DEF UpsertKeepsLifecycle, Kept
  <2>4. CASE (\E k \in Keys : Lapse(k)) \/ Restart
    BY <2>4, KeptByEnvironment
  <2>. QED
    BY <2>1, <2>2, <2>3, <2>4 DEF Next
<1>. QED
  BY <1>1, <1>2, TypeCorrectness, PTL DEF Spec
-----------------------------------------------------------------------------
(* A replaced fact has its replacement (ReplacementExists).  Inductive with  *)
(* the same statement about reviews that have stored the replacement and not *)
(* yet retired the old fact.                                                 *)

\* k is stored unless a DELETE was served for it.
Safe(k) == facts[k] # NoFact \/ k \in deleted

ReplacementInv ==
    /\ \A p \in replaced : Safe(p[2])
    /\ \A c \in Slots : op[c] = "retire" => Safe(newKey[c])

\* Storing a payload loses no other one.
LEMMA SafeKept ==
    ASSUME StoreType, NEW k \in Keys, Safe(k), deleted \subseteq deleted',
           \/ \E j \in Keys, f \in Fact : Upsert(j, f)
           \/ facts' = facts
    PROVE  Safe(k)'
BY ConstantsAssumption DEF Safe, StoreType, Upsert

\* Storing payloads and starting nothing keeps the invariant.
LEMMA ReplacementKept ==
    ASSUME TypeOK, ReplacementInv,
           replaced' = replaced, deleted \subseteq deleted',
           \A c \in Slots : op'[c] = "retire" =>
              op[c] = "retire" /\ newKey'[c] = newKey[c],
           \/ \E j \in Keys, f \in Fact : Upsert(j, f)
           \/ facts' = facts
    PROVE  ReplacementInv'
<1>1. \A p \in replaced : p[2] \in Keys
  BY DEF TypeOK, StoreType
<1>2. \A c \in Slots : op[c] = "retire" => newKey[c] \in Keys
  BY DEF TypeOK, SlotType
<1>3. \A k \in Keys : Safe(k) => Safe(k)'
  BY SafeKept DEF TypeOK
<1>4. \A p \in replaced' : Safe(p[2])'
  BY <1>1, <1>3 DEF ReplacementInv
<1>5. \A c \in Slots : op'[c] = "retire" => Safe(newKey[c])' /\ newKey'[c] = newKey[c]
  BY <1>2, <1>3 DEF ReplacementInv
<1>. QED
  BY <1>4, <1>5 DEF ReplacementInv, Safe

\* The steps of a slot keep the invariant.
LEMMA ReplacementBySlots ==
    ASSUME TypeOK, ReplacementInv, NEW c \in Slots, SlotStep(c)
    PROVE  ReplacementInv'
<1>0. StoreType /\ SlotType
  BY DEF TypeOK
<1>1. CASE Write(c)
  <2>1. key[c] \in Keys /\ plan[c] \in Fact
    BY <1>1 DEF TypeOK, SlotType, Write, WriteOps
  <2>. QED
    BY <1>0, <1>1, <2>1, ReplacementKept DEF Write, Enter, Leave, SlotType, history
<1>2. CASE ReviewCreate(c)
  <2>1. newKey[c] \in Keys /\ Replacement(plan[c]) \in Fact
    BY <1>2, ReplacementType DEF TypeOK, SlotType, ReviewCreate, WriteOps
  <2>2. Safe(newKey[c])'
    BY <1>0, <1>2, <2>1, ConstantsAssumption
    DEF ReviewCreate, Upsert, Safe, StoreType
  <2>3. \A k \in Keys : Safe(k) => Safe(k)'
    BY <1>0, <1>2, <2>1, SafeKept DEF ReviewCreate, history
  <2>4. /\ \A p \in replaced : p[2] \in Keys
        /\ \A d \in Slots : op[d] = "retire" => newKey[d] \in Keys
    BY DEF TypeOK, StoreType, SlotType
  <2>5. \A p \in replaced' : Safe(p[2])'
    BY <1>2, <2>3, <2>4 DEF ReviewCreate, history, ReplacementInv
  <2>6. \A d \in Slots : op'[d] = "retire" => Safe(newKey[d])'
    BY <1>0, <1>2, <2>2, <2>3, <2>4 DEF ReviewCreate, ReplacementInv, SlotType
  <2>7. newKey' = newKey
    BY <1>2 DEF ReviewCreate
  <2>. QED
    BY <2>5, <2>6, <2>7 DEF ReplacementInv, Safe
<1>3. CASE ReviewRetire(c)
  <2>1. key[c] \in Keys /\ plan[c] \in Fact /\ newKey[c] \in Keys
    BY <1>3 DEF TypeOK, SlotType, ReviewRetire, WriteOps
  <2>2. \A k \in Keys : Safe(k) => Safe(k)'
    BY <1>0, <1>3, <2>1, SafeKept DEF ReviewRetire
  <2>. PICK n \in Keys : n = newKey[c]
    BY <2>1
  <2>3. Safe(n)' /\ replaced' = replaced \cup {<<key[c], n>>}
    BY <1>3, <2>1, <2>2 DEF ReviewRetire, ReplacementInv
  <2>4. /\ \A p \in replaced : p[2] \in Keys
        /\ \A d \in Slots : op[d] = "retire" => newKey[d] \in Keys
    BY DEF TypeOK, StoreType, SlotType
  <2>5. \A p \in replaced' : Safe(p[2])'
    BY <2>2, <2>3, <2>4 DEF ReplacementInv
  <2>6. \A d \in Slots : op'[d] = "retire" =>
           Safe(newKey[d])' /\ newKey'[d] = newKey[d]
    BY <1>0, <1>3, <2>2, <2>4
    DEF ReviewRetire, Leave, Enter, ReplacementInv, SlotType
  <2>. QED
    BY <2>5, <2>6 DEF ReplacementInv, Safe
<1>4. CASE WriteFails(c)
  BY <1>0, <1>4, ReplacementKept DEF WriteFails, Leave, Enter, SlotType, history
<1>5. CASE AutoQuery(c)
  BY <1>0, <1>5, ReplacementKept
  DEF AutoQuery, Leave, Enter, SlotType, store, history
<1>6. ASSUME NEW k \in Keys, PatchStep(c, k)
      PROVE  ReplacementInv'
  <2>1. facts[k] # NoFact => Apply(plan[c], facts[k]) \in Fact
    BY <1>0, <1>6, ApplyType DEF StoreType, SlotType, PatchStep
  <2>2. (\E j \in Keys, g \in Fact : Upsert(j, g)) \/ UNCHANGED <<facts, fresh>>
    BY <1>6, <2>1, SetPayloadStores DEF PatchStep
  <2>. QED
    BY <1>0, <1>6, <2>2, ReplacementKept
    DEF PatchStep, Leave, Enter, SlotType, history
<1>7. ASSUME NEW k \in Keys, AutoMark(c, k)
      PROVE  ReplacementInv'
  <2>1. (\E j \in Keys, g \in Fact : Upsert(j, g)) \/ UNCHANGED <<facts, fresh>>
    BY <1>0, <1>7, StatusWriteStores DEF AutoMark, Statuses
  <2>. QED
    BY <1>0, <1>7, <2>1, ReplacementKept
    DEF AutoMark, Leave, Enter, SlotType, history
<1>. QED
  BY <1>1, <1>2, <1>3, <1>4, <1>5, <1>6, <1>7 DEF SlotStep

\* Requests that begin keep it, a DELETE because it is recorded.
LEMMA ReplacementByRequests ==
    ASSUME TypeOK, ReplacementInv, NEW c \in Slots, Request(c) \/ Patch(c)
    PROVE  ReplacementInv'
<1>0. SlotType /\ StoreType
  BY DEF TypeOK
<1>1. ASSUME NEW next, NEW k, NEW f, NEW n, Enter(c, next, k, f, n),
             next # "retire", facts' = facts, UNCHANGED history
      PROVE  ReplacementInv'
  BY <1>0, <1>1, ReplacementKept DEF Enter, SlotType, history
<1>2. ASSUME NEW k \in Keys, NEW t \in Ttls, NEW f \in Confs,
             (\E u \in Untils : PostRead(c, k, t, u, f)) \/ UpsertRead(c, k, t, f)
      PROVE  ReplacementInv'
  BY <1>1, <1>2 DEF PostRead, UpsertRead
<1>3. ASSUME NEW k \in Keys, NEW e \in Edits, PutRead(c, k, e)
      PROVE  ReplacementInv'
  BY <1>1, <1>3 DEF PutRead
<1>4. ASSUME NEW k \in Keys, NEW e \in Edits, NEW a \in ReviewActions,
             NEW n \in Keys \cup {NoKey}, NEW v \in BOOLEAN,
             ReviewRead(c, k, a, e, n, v)
      PROVE  ReplacementInv'
  BY <1>1, <1>4 DEF ReviewRead
<1>5. ASSUME NEW k \in Keys, Delete(c, k)
      PROVE  ReplacementInv'
  <2>1. \A j : Safe(j) => Safe(j)'
    BY <1>0, <1>5 DEF Delete, Upsert, Safe, StoreType
  <2>2. op' = op /\ newKey' = newKey /\ replaced' = replaced
    BY <1>5 DEF Delete, slots
  <2>. QED
    BY <2>1, <2>2 DEF ReplacementInv, Safe
<1>6. CASE Patch(c)
  BY <1>0, <1>6, ReplacementKept DEF Patch, PatchBegin, store, SlotType, history
<1>. QED
  BY <1>2, <1>3, <1>4, <1>5, <1>6 DEF Request

\* However requests, scans, failing store calls and restarts interleave, a
\* fact retired by a review in favour of a replacement has one, unless that
\* was deleted.
THEOREM ReplacementsExist == Spec => []ReplacementExists
<1>1. Init => ReplacementInv
  BY DEF Init, ReplacementInv
<1>2. TypeOK /\ ReplacementInv /\ [Next]_vars => ReplacementInv'
  <2> SUFFICES ASSUME TypeOK, ReplacementInv, [Next]_vars
               PROVE  ReplacementInv'
    OBVIOUS
  <2>1. CASE UNCHANGED vars
    BY <2>1 DEF vars, store, history, slots, ReplacementInv, Safe
  <2>2. ASSUME NEW c \in Slots, Request(c) \/ Patch(c) \/ SlotStep(c)
        PROVE  ReplacementInv'
    BY <2>2, ReplacementBySlots, ReplacementByRequests
  <2>3. ASSUME NEW s \in AllScans, ScanStep(s)
        PROVE  ReplacementInv'
    BY <2>3, ScanWrites, ReplacementKept DEF ScanWrite, slots, history
  <2>4. ASSUME NEW k \in Keys, Lapse(k)
        PROVE  ReplacementInv'
    <3>1. /\ [facts[k] EXCEPT !.ttl = "past"] \in Fact
          /\ [facts[k] EXCEPT !.until = "past"] \in Fact
      BY <2>4 DEF Lapse, TypeOK, StoreType, Fact, Deadline
    <3>2. \A j \in Keys : facts[j] # NoFact => facts'[j] # NoFact
      BY <2>4, <3>1, ConstantsAssumption DEF Lapse, TypeOK, StoreType
    <3>3. /\ \A p \in replaced : p[2] \in Keys
          /\ \A d \in Slots : op[d] = "retire" => newKey[d] \in Keys
      BY DEF TypeOK, StoreType, SlotType
    <3>4. UNCHANGED <<op, newKey, history>>
      BY <2>4 DEF Lapse, slots
    <3>. QED
      BY <3>2, <3>3, <3>4 DEF ReplacementInv, Safe, history
  <2>5. CASE Restart
    BY <2>5, ReplacementKept DEF Restart, history
  <2>. QED
    BY <2>1, <2>2, <2>3, <2>4, <2>5 DEF Next
<1>3. ReplacementInv => ReplacementExists
  BY DEF ReplacementInv, ReplacementExists, Safe
<1>. QED
  BY <1>1, <1>2, <1>3, TypeCorrectness, PTL DEF Spec
-----------------------------------------------------------------------------
(* What a scan holds is justified (FlagIsJustified, ContradictionsGrow,     *)
(* SupersessionIsJustified).  Each is inductive beside TypeOK, because who- *)
(* ever writes a fact adds its key to moved[s] for every scan s at work.    *)

\* A fact that nobody writes stays what the scans saw: its deadlines may pass,
\* but that makes no fact less due.
Persists(k) ==
    /\ facts[k] # NoFact => facts'[k] # NoFact
    /\ facts'[k].status = facts[k].status
    /\ facts'[k].contradicts = facts[k].contradicts
    /\ \A s \in FlagScans : Due(s, facts[k]) => Due(s, facts'[k])

\* What a step of someone else means to scan s.
Undisturbed(s) ==
    /\ UNCHANGED <<phase[s], work[s], cur[s], curSet[s], config>>
    /\ phase[s] \notin {"idle", "done"} =>
          /\ moved[s] \subseteq moved'[s]
          /\ \A k \in Keys \ moved'[s] : k \notin moved[s] /\ Persists(k)

\* One upsert, or none, of someone else does not disturb a scan.
LEMMA WriteDoesNotDisturb ==
    ASSUME TypeOK, NEW s \in AllScans,
           UNCHANGED <<phase[s], work[s], cur[s], curSet[s], config>>,
           \/ \E k \in Keys : \E f : Upsert(k, f)
           \/ facts' = facts /\ moved'[s] = moved[s]
    PROVE  Undisturbed(s)
<1>1. CASE facts' = facts /\ moved'[s] = moved[s]
  BY <1>1 DEF Undisturbed, Persists
<1>2. ASSUME NEW k \in Keys, NEW f, Upsert(k, f)
      PROVE  Undisturbed(s)
  <2>1. phase[s] \notin {"idle", "done"} => moved'[s] = moved[s] \cup {k}
    BY <1>2 DEF Upsert, Touch
  <2>2. \A j \in Keys : j # k => facts'[j] = facts[j]
    BY <1>2 DEF Upsert, TypeOK, StoreType
  <2>3. \A j \in Keys : j # k => Persists(j)
    BY <2>2 DEF Persists
  <2>. QED
    BY <2>1, <2>3 DEF Undisturbed
<1>. QED
  BY <1>1, <1>2

\* Requests disturb no scan.
LEMMA SlotsDoNotDisturb ==
    ASSUME TypeOK, NEW c \in Slots, Request(c) \/ Patch(c) \/ SlotStep(c),
           NEW s \in AllScans
    PROVE  Undisturbed(s)
<1> DEFINE Quiet == /\ UNCHANGED <<scans, config>>
                    /\ \/ \E k \in Keys : \E f : Upsert(k, f)
                       \/ UNCHANGED <<facts, moved>>
<1>0. /\ op[c] \in WriteOps => key[c] \in Keys
      /\ op[c] \in {"create", "retire"} => newKey[c] \in Keys
  BY DEF TypeOK, SlotType
<1>1. Request(c) => Quiet
  BY DEF Request, PostRead, UpsertRead, PutRead, ReviewRead, Delete, history
<1>2. Patch(c) => Quiet
  BY DEF Patch, PatchBegin, store, history
<1>3. Write(c) \/ ReviewCreate(c) \/ ReviewRetire(c) \/ WriteFails(c) => Quiet
  BY <1>0 DEF Write, ReviewCreate, ReviewRetire, WriteFails, WriteOps, history
<1>4. AutoQuery(c) => Quiet
  BY DEF AutoQuery, store, history
<1>5. ASSUME NEW k \in Keys, PatchStep(c, k) \/ AutoMark(c, k)
      PROVE  Quiet
  BY <1>5, SetPayloadIsUpsert DEF PatchStep, AutoMark, history
<1>6. Quiet
  BY <1>1, <1>2, <1>3, <1>4, <1>5 DEF SlotStep
<1>. QED
  BY <1>6, WriteDoesNotDisturb DEF scans

\* Nor does a scan disturb another one.
LEMMA ScansDoNotDisturb ==
    ASSUME TypeOK, NEW t \in AllScans, ScanStep(t), NEW s \in AllScans, s # t
    PROVE  Undisturbed(s)
<1> DEFINE Quiet == /\ UNCHANGED <<phase[s], work[s], cur[s], curSet[s], config>>
                    /\ \/ \E k \in Keys : \E f : Upsert(k, f)
                       \/ facts' = facts /\ moved'[s] = moved[s]
<1>0. /\ ScanType /\ StoreType
      /\ \A r \in AllScans : \A p \in work[r] : p[1] \in Keys
  BY ConstantsAssumption DEF TypeOK, ScanType, Pairs
<1>1. QueryFails(t) => Quiet
  BY <1>0 DEF QueryFails, GoOn, ScanType, StoreType, history
<1>2. FlagPage(t) \/ FlagQueryEnds(t) => Quiet
  BY <1>0 DEF FlagPage, FlagQueryEnds, Collect, GoOn, ScanType, StoreType, history
<1>3. ASSUME NEW p \in work[t], FlagMark(t, p)
      PROVE  Quiet
  <2>1. p[1] \in Keys
    BY <1>0
  <2>. QED
    BY <1>0, <1>3, <2>1, SetPayloadIsUpsert DEF FlagMark, Handled, ScanType, history
<1>4. t = "StaleScan" /\ (RefsPage \/ StaleChoice) => Quiet
  BY <1>0 DEF RefsPage, StaleChoice, GoOn, ScanType, StoreType, store, history
<1>5. t = "ConflictScan" /\ (ConflictPage \/ ConflictChoice) => Quiet
  <2>1. t = "ConflictScan" /\ ConflictPage => Quiet
    BY <1>0 DEF ConflictPage, Collect, ScanType, StoreType, history
  <2>2. ASSUME t = "ConflictScan", ConflictChoice PROVE Quiet
    <3>1. PICK similar :
             GoOn(t, IF similar = {} THEN "idle" ELSE "read", similar)
      BY <2>2 DEF ConflictChoice
    <3>. QED
      BY <1>0, <2>2, <3>1 DEF ConflictChoice, GoOn, ScanType, StoreType, history
  <2>. QED
    BY <2>1, <2>2
<1>6. t = "ConflictScan" /\ ConflictWrite => Quiet
  <2>. SUFFICES ASSUME t = "ConflictScan", ConflictWrite PROVE Quiet
    OBVIOUS
  <2>1. cur[t][1] \in Keys
    BY <1>0 DEF ConflictWrite, ScanType, Pairs
  <2>. QED
    BY <1>0, <2>1, SetPayloadIsUpsert DEF ConflictWrite, Handled, ScanType, history
<1>7. ASSUME NEW p, t = "ConflictScan", ConflictRead(p)
      PROVE  Quiet
  BY <1>0, <1>7 DEF ConflictRead, Handled, ScanType, StoreType, history
<1>8. t = "SupersedeScan" /\ (CrossPage \/ CrossQueryEnds) => Quiet
  BY <1>0 DEF CrossPage, CrossQueryEnds, Collect, GoOn, ScanType, StoreType,
     history
<1>9. t = "SupersedeScan" /\ (PatternPage \/ PatternQueryEnds) => Quiet
  BY <1>0 DEF PatternPage, PatternQueryEnds, Collect, GoOn, ScanType, StoreType,
     history
<1>10. t = "SupersedeScan" /\ CrossMark => Quiet
  <2>. SUFFICES ASSUME t = "SupersedeScan", CrossMark PROVE Quiet
    OBVIOUS
  <2>1. cur[t][1] \in Keys
    BY <1>0 DEF CrossMark, ScanType, Pairs
  <2>. QED
    BY <1>0, <2>1, SetPayloadIsUpsert DEF CrossMark, Handled, ScanType, history
<1>11. ASSUME NEW p, t = "SupersedeScan", CrossRead(p)
      PROVE  Quiet
  BY <1>0, <1>11 DEF CrossRead, Handled, ScanType, StoreType, history
<1>12. ASSUME NEW p \in work[t], t = "SupersedeScan", PatternMark(p)
       PROVE  Quiet
  <2>1. p[1] \in Keys
    BY <1>0
  <2>. QED
    BY <1>0, <1>12, <2>1, SetPayloadIsUpsert DEF PatternMark, Handled, ScanType,
       history
<1>13. Quiet
  BY <1>1, <1>2, <1>3, <1>4, <1>5, <1>6, <1>7, <1>8, <1>9, <1>10, <1>11, <1>12
  DEF ScanStep
<1>. QED
  BY <1>13, WriteDoesNotDisturb

\* Nor does time.
LEMMA TimeDoesNotDisturb ==
    ASSUME TypeOK, NEW k \in Keys, Lapse(k), NEW s \in AllScans
    PROVE  Undisturbed(s)
<1>1. UNCHANGED <<phase, work, cur, curSet, moved, config>>
  BY DEF Lapse, scans, history
<1>2. \A j \in Keys : j # k => Persists(j)
  BY DEF Lapse, TypeOK, StoreType, Persists
<1>3. Persists(k)
  <2>1. facts[k] \in Fact
    BY DEF Lapse, TypeOK, StoreType
  <2>2. \/ /\ facts[k].ttl = "live"
           /\ facts'[k] = [facts[k] EXCEPT !.ttl = "past"]
        \/ /\ facts[k].until = "live"
           /\ facts'[k] = [facts[k] EXCEPT !.until = "past"]
    BY DEF Lapse, TypeOK, StoreType
  <2>3. /\ facts'[k].status = facts[k].status
        /\ facts'[k].contradicts = facts[k].contradicts
        /\ facts'[k].conf = facts[k].conf
        /\ facts[k].ttl = "past" => facts'[k].ttl = "past"
        /\ facts[k].until = "past" => facts'[k].until = "past"
        /\ facts'[k] \in Fact
    BY <2>1, <2>2 DEF Fact, Deadline
  <2>4. facts'[k] # NoFact
    BY <2>3, ConstantsAssumption
  <2>. QED
    BY <2>3, <2>4 DEF Persists, Due, FlagScans
<1>. QED
  BY <1>1, <1>2, <1>3 DEF Undisturbed

\* What a flagging scan may hold: an active fact, over Qdrant one that is due.
Flaggable(s, k) ==
    /\ facts[k] # NoFact
    /\ facts[k].status = "active"
    /\ config.store = "qdrant" => Due(s, facts[k])

\* FlagIsJustified for one scan.
Justified(s) ==
    \A p \in work[s] : p[1] \notin moved[s] => Flaggable(s, p[1])

\* The scan's own steps: a page holds facts that are active and due, the
\* choice among them and the marks only shorten the list.
LEMMA FlagSteps ==
    ASSUME TypeOK, NEW s \in FlagScans, Justified(s), ScanStep(s)
    PROVE  Justified(s)'
<1>0. /\ s \in AllScans /\ ScanType /\ StoreType
      /\ s # "ConflictScan" /\ s # "SupersedeScan"
      /\ \A p \in work[s] : p[1] \in Keys
  BY DEF TypeOK, ScanType, Pairs, AllScans, FlagScans
<1>1. ASSUME NEW next, NEW rest \in SUBSET work[s], GoOn(s, next, rest)
      PROVE  Justified(s)'
  <2>1. /\ work'[s] = rest /\ facts' = facts /\ config' = config
        /\ rest # {} => moved'[s] = moved[s]
    BY <1>0, <1>1 DEF GoOn, ScanType, StoreType, history
  <2>. QED
    BY <2>1 DEF Justified, Flaggable
<1>2. CASE QueryFails(s)
  BY <1>1, <1>2 DEF QueryFails
<1>3. CASE FlagQueryEnds(s)
  BY <1>1, <1>3 DEF FlagQueryEnds
<1>4. CASE s = "StaleScan" /\ RefsPage
  BY <1>4 DEF RefsPage, store, history, Justified, Flaggable
<1>5. CASE s = "StaleScan" /\ StaleChoice
  BY <1>1, <1>5, StaleChoiceGoesOn
<1>6. CASE FlagPage(s)
  <2> DEFINE page == Page(s, Selected(s))
  <2>1. /\ facts' = facts /\ config' = config
        /\ work'[s] = work[s] \cup (page \X {NoKey})
        /\ moved'[s] = IF offset[s] = 0 THEN {} ELSE moved[s] \ page
    BY <1>0, <1>6 DEF FlagPage, Collect, ScanType, StoreType, history
  <2>2. offset[s] = 0 => work[s] = {}
    BY <1>0, <1>6 DEF FlagPage, ScanType
  <2>3. \A k \in page : Flaggable(s, k)
    <3>. SUFFICES ASSUME NEW k \in page PROVE Flaggable(s, k)
      OBVIOUS
    <3>1. k \in Selected(s)
      BY PageKeys
    <3>2. facts[k] # NoFact /\ Selects(s, facts[k])
      BY <3>1 DEF Selected, Stored
    <3>3. /\ facts[k].status = "active"
          /\ config.store = "qdrant" => Due(s, facts[k])
      <4>1. s \in FlagScans /\ s # "ConflictScan" /\ s # "SupersedeScan"
        BY <1>0
      <4>. QED
        BY <3>2, <4>1 DEF Selects
    <3>. QED
      BY <3>2, <3>3 DEF Flaggable
  <2> HIDE DEF page
  <2>4. \A p \in work'[s] : p[1] \notin moved'[s] => Flaggable(s, p[1])
    BY <2>1, <2>2, <2>3 DEF Justified
  <2>. QED
    BY <2>1, <2>4 DEF Justified, Flaggable
<1>7. ASSUME NEW p \in work[s], FlagMark(s, p)
      PROVE  Justified(s)'
  <2>1. work'[s] \subseteq work[s] /\ config' = config
    BY <1>0, <1>7 DEF FlagMark, Handled, ScanType, history
  <2>2. CASE UNCHANGED <<facts, fresh, moved>>
    BY <2>1, <2>2 DEF Justified, Flaggable
  <2>3. CASE \E k \in Keys : \E f : Upsert(k, f)
    <3>. PICK k \in Keys : \E f : Upsert(k, f)
      BY <2>3
    <3>1. moved'[s] = moved[s] \cup {k}
      BY <1>0, <1>7 DEF FlagMark, Upsert, Touch
    <3>2. \A j \in Keys : j # k => facts'[j] = facts[j]
      BY <1>0 DEF Upsert, StoreType
    <3>. QED
      BY <1>0, <2>1, <3>1, <3>2 DEF Justified, Flaggable
  <2>. QED
    BY <1>0, <1>7, <2>2, <2>3, SetPayloadIsUpsert DEF FlagMark
<1>. QED
  BY <1>0, <1>2, <1>3, <1>4, <1>5, <1>6, <1>7 DEF ScanStep

\* A flagging scan only ever holds facts that are active and, over Qdrant,
\* due, unless they were written since the scan last read them: however the
\* pages of its query, failing calls and other writers interleave.
THEOREM FlagsAreJustified == Spec => []FlagIsJustified
<1>1. Init => FlagIsJustified
  BY DEF Init, FlagIsJustified, FlagScans, AllScans
<1>2. TypeOK /\ FlagIsJustified /\ [Next]_vars => FlagIsJustified'
  <2> SUFFICES ASSUME TypeOK, FlagIsJustified, [Next]_vars,
                      NEW s \in FlagScans
               PROVE  Justified(s)'
    BY DEF FlagIsJustified, Justified, Flaggable
  <2>0. /\ Justified(s) /\ s \in AllScans
        /\ \A p \in work[s] : p[1] \in Keys
        /\ work[s] # {} => phase[s] \notin {"idle", "done"}
    BY DEF FlagIsJustified, Justified, Flaggable, AllScans, TypeOK, ScanType, Pairs
  <2>1. CASE UNCHANGED vars
    BY <2>0, <2>1 DEF vars, store, history, scans, Justified, Flaggable
  <2>2. CASE Undisturbed(s)
    BY <2>0, <2>2 DEF Undisturbed, Persists, Justified, Flaggable
  <2>3. CASE ScanStep(s)
    BY <2>0, <2>3, FlagSteps
  <2>4. CASE Restart
    BY <2>0, <2>4 DEF Restart, Justified
  <2>. QED
    BY <2>0, <2>1, <2>2, <2>3, <2>4, SlotsDoNotDisturb, ScansDoNotDisturb,
       TimeDoesNotDisturb DEF Next
<1>. QED
  BY <1>1, <1>2, TypeCorrectness, PTL DEF Spec

\* The pair and the list markContradiction is about to write come from the
\* fact as it is.
LEMMA ContradictionSteps ==
    ASSUME TypeOK, ContradictionsGrow, ScanStep("ConflictScan")
    PROVE  ContradictionsGrow'
<1> DEFINE s == "ConflictScan"
<1>0. /\ s \in AllScans /\ s \notin FlagScans /\ ScanType /\ StoreType
      /\ Rest(s) # "write"
  BY DEF TypeOK, AllScans, FlagScans, Rest
<1>1. phase'[s] # "write" => ContradictionsGrow'
  BY DEF ContradictionsGrow
<1>2. QueryFails(s) \/ ConflictPage \/ ConflictChoice \/ ConflictWrite
         => phase'[s] # "write"
  BY <1>0 DEF QueryFails, ConflictPage, ConflictChoice, ConflictWrite, Handled,
     GoOn, ScanType
<1>3. ASSUME NEW p \in work[s], ConflictRead(p)
      PROVE  ContradictionsGrow'
  <2>1. CASE Handled(s, p, "read", Copied(s, p))
    <3>1. phase'[s] # "write"
      BY <1>0, <2>1 DEF Handled, ScanType
    <3>. QED
      BY <1>1, <3>1
  <2>2. CASE /\ facts[p[1]] # NoFact /\ NewContradiction(facts[p[1]], p[2])
             /\ cur' = [cur EXCEPT ![s] = p]
             /\ curSet' = [curSet EXCEPT
                             ![s] = facts[p[1]].contradicts \cup {p[2]}]
    <3>1. /\ cur'[s] = p /\ curSet'[s] = facts[p[1]].contradicts \cup {p[2]}
          /\ facts' = facts
      BY <1>0, <1>3, <2>2 DEF ConflictRead, ScanType
    <3>. QED
      BY <2>2, <3>1 DEF ContradictionsGrow, NewContradiction
  <2>. QED
    BY <1>3, <2>1, <2>2 DEF ConflictRead
<1>. QED
  BY <1>0, <1>1, <1>2, <1>3 DEF ScanStep, FlagPage, FlagQueryEnds, FlagMark

\* The conflict scan loses no contradiction that is on record and records
\* none twice, unless the fact was written since it read it.
THEOREM ContradictionsAreKept == Spec => []ContradictionsGrow
<1>1. Init => ContradictionsGrow
  BY DEF Init, ContradictionsGrow, AllScans
<1>2. TypeOK /\ ContradictionsGrow /\ [Next]_vars => ContradictionsGrow'
  <2> SUFFICES ASSUME TypeOK, ContradictionsGrow, [Next]_vars
               PROVE  ContradictionsGrow'
    OBVIOUS
  <2> DEFINE s == "ConflictScan"
  <2>0. /\ s \in AllScans
        /\ phase[s] = "write" => cur[s][1] \in Keys
    BY DEF AllScans, TypeOK, ScanType, Pairs
  <2>1. CASE UNCHANGED vars
    BY <2>1 DEF vars, store, scans, ContradictionsGrow
  <2>2. CASE Undisturbed(s)
    BY <2>0, <2>2 DEF Undisturbed, Persists, ContradictionsGrow
  <2>3. CASE ScanStep(s)
    BY <2>3, ContradictionSteps
  <2>4. CASE Restart
    BY <2>0, <2>4 DEF Restart, ContradictionsGrow
  <2>. QED
    BY <2>0, <2>1, <2>2, <2>3, <2>4, SlotsDoNotDisturb, ScansDoNotDisturb,
       TimeDoesNotDisturb DEF Next
<1>. QED
  BY <1>1, <1>2, TypeCorrectness, PTL DEF Spec

\* h is active or was written since the supersede scan's query.
ActiveOrMoved(h) == h \in Active \cup moved["SupersedeScan"]

\* A higher version justifies that the supersede scan retires key k.
HigherVersion(k) ==
    \E h \in Keys : /\ Family[h] = Family[k] /\ Version[h] > Version[k]
                    /\ ActiveOrMoved(h)

\* A step that touches no key without recording it keeps higher versions.
LEMMA HigherVersionKept ==
    ASSUME TypeOK, moved["SupersedeScan"] \subseteq moved'["SupersedeScan"],
           \A j \in Keys \ moved'["SupersedeScan"] : Persists(j),
           NEW k, HigherVersion(k)
    PROVE  HigherVersion(k)'
<1>1. PICK h \in Keys : /\ Family[h] = Family[k] /\ Version[h] > Version[k]
                        /\ ActiveOrMoved(h)
  BY DEF HigherVersion
<1>2. ActiveOrMoved(h)'
  BY <1>1 DEF ActiveOrMoved, Active, Stored, Persists
<1>. QED
  BY <1>1, <1>2 DEF HigherVersion

\* The two halves of SupersessionIsJustified; the second one also for what
\* the query of supersedeKeyPattern has collected so far.
TargetIsActive ==
    (phase["SupersedeScan"] = "crossMark"
       /\ cur["SupersedeScan"][1] \notin moved["SupersedeScan"])
    => cur["SupersedeScan"][1] \in Active

RetiredAreLower ==
    phase["SupersedeScan"] = "retire" =>
       \A p \in work["SupersedeScan"] : HigherVersion(p[1])

CollectedAreActive ==
    phase["SupersedeScan"] = "pattern" =>
       \A p \in work["SupersedeScan"] : ActiveOrMoved(p[1])

SupersedeInv == TargetIsActive /\ RetiredAreLower /\ CollectedAreActive

\* What was active or moved stays so in a step of someone else.
LEMMA ActiveOrMovedKept ==
    ASSUME TypeOK, moved["SupersedeScan"] \subseteq moved'["SupersedeScan"],
           \A j \in Keys \ moved'["SupersedeScan"] : Persists(j),
           NEW k \in Keys, ActiveOrMoved(k)
    PROVE  ActiveOrMoved(k)'
BY DEF ActiveOrMoved, Active, Stored, Persists

\* The supersede scan's own steps: a pair is kept for marking only when its
\* target is active, and the list of versions to retire only gets shorter.
LEMMA SupersedeSteps ==
    ASSUME TypeOK, SupersedeInv, ScanStep("SupersedeScan")
    PROVE  SupersedeInv'
<1> DEFINE s == "SupersedeScan"
<1>0. /\ s \in AllScans /\ s \notin FlagScans /\ ScanType /\ StoreType
      /\ Rest(s) = "idle"
      /\ \A p \in work[s] : p[1] \in Keys
  BY DEF TypeOK, AllScans, FlagScans, Rest, ScanType, Pairs
<1>1. ASSUME phase'[s] \notin {"crossMark", "retire"},
             phase'[s] = "pattern" => work'[s] = {}
      PROVE  SupersedeInv'
  BY <1>1 DEF SupersedeInv, TargetIsActive, RetiredAreLower, CollectedAreActive
<1>2. CASE QueryFails(s) \/ CrossPage \/ CrossQueryEnds
  <2>1. /\ phase'[s] \notin {"crossMark", "retire"}
        /\ phase'[s] = "pattern" => work'[s] = {}
    BY <1>0, <1>2
    DEF QueryFails, CrossPage, CrossQueryEnds, GoOn, ScanType
  <2>. QED
    BY <1>1, <2>1
<1>3. CASE CrossMark
  <2>1. /\ phase'[s] \notin {"crossMark", "retire"}
        /\ phase'[s] = "pattern" => work'[s] = {}
    BY <1>0, <1>3 DEF CrossMark, Handled, ScanType
  <2>. QED
    BY <1>1, <2>1
<1>4. ASSUME NEW p \in work[s], CrossRead(p)
      PROVE  SupersedeInv'
  <2>1. CASE Handled(s, p, "cross", p[2] \in again[s])
    <3>1. /\ phase'[s] \notin {"crossMark", "retire"}
          /\ phase'[s] = "pattern" => work'[s] = {}
      BY <1>0, <2>1 DEF Handled, ScanType
    <3>. QED
      BY <1>1, <3>1
  <2>2. CASE /\ p[1] \in Active /\ cur' = [cur EXCEPT ![s] = p]
             /\ phase' = [phase EXCEPT ![s] = "crossMark"]
    <3>1. /\ phase'[s] = "crossMark" /\ cur'[s] = p /\ facts' = facts
      BY <1>0, <1>4, <2>2 DEF CrossRead, ScanType
    <3>. QED
      BY <2>2, <3>1 DEF SupersedeInv, TargetIsActive, RetiredAreLower,
         CollectedAreActive, Active, Stored
  <2>. QED
    BY <1>4, <2>1, <2>2 DEF CrossRead
<1>5. CASE PatternPage
  <2> DEFINE page == Page(s, Active)
  <2>1. /\ facts' = facts /\ phase'[s] = "pattern"
        /\ work'[s] = work[s] \cup (page \X {NoKey})
        /\ moved'[s] = IF offset[s] = 0 THEN {} ELSE moved[s] \ page
        /\ offset[s] = 0 => work[s] = {}
    BY <1>0, <1>5 DEF PatternPage, Collect, ScanType, StoreType
  <2>2. page \subseteq Active
    BY PageKeys
  <2>3. \A p \in work[s] : ActiveOrMoved(p[1])
    BY <1>5 DEF PatternPage, SupersedeInv, CollectedAreActive
  <2>4. Active' = Active
    BY <2>1 DEF Active, Stored
  <2> HIDE DEF page
  <2>5. \A p \in work'[s] : p[1] \in Active' \cup moved'[s]
    BY <2>1, <2>2, <2>3, <2>4 DEF ActiveOrMoved
  <2>. QED
    BY <2>1, <2>5 DEF SupersedeInv, TargetIsActive, RetiredAreLower,
       CollectedAreActive, ActiveOrMoved
<1>6. CASE PatternQueryEnds
  <2> DEFINE found == {p[1] : p \in work[s]}
  <2>1. /\ phase'[s] \notin {"crossMark", "pattern"} /\ facts' = facts
        /\ work'[s] = Outdated(found) \X {NoKey}
        /\ Outdated(found) # {} => moved'[s] = moved[s]
    <3> DEFINE old == Outdated(found)
    <3>1. GoOn(s, IF old = {} THEN "idle" ELSE "retire", old \X {NoKey})
      BY <1>6 DEF PatternQueryEnds
    <3> HIDE DEF old
    <3>2. old \X {NoKey} = {} <=> old = {}
      <4>1. \A k \in old : <<k, NoKey>> \in old \X {NoKey}
        OBVIOUS
      <4>2. old = {} => old \X {NoKey} = {}
        OBVIOUS
      <4>. QED
        BY <4>1, <4>2
    <3>3. /\ phase'[s] = IF old = {} THEN "idle" ELSE "retire"
          /\ facts' = facts /\ work'[s] = old \X {NoKey}
          /\ old # {} => moved'[s] = moved[s]
      BY <1>0, <3>1, <3>2 DEF GoOn, ScanType, StoreType
    <3>. QED
      BY <3>3 DEF old
  <2>2. \A h \in found : h \in Keys /\ ActiveOrMoved(h)
    BY <1>0, <1>6 DEF PatternQueryEnds, SupersedeInv, CollectedAreActive
  <2>3. \A k \in Outdated(found) : HigherVersion(k)'
    <3>. SUFFICES ASSUME NEW k \in Outdated(found) PROVE HigherVersion(k)'
      OBVIOUS
    <3>1. PICK h \in found : Family[h] = Family[k] /\ Version[h] > Version[k]
      BY DEF Outdated
    <3>2. ActiveOrMoved(h)' /\ h \in Keys
      BY <2>1, <2>2 DEF ActiveOrMoved, Active, Stored
    <3>. QED
      BY <3>1, <3>2 DEF HigherVersion
  <2>. QED
    BY <2>1, <2>3 DEF SupersedeInv, TargetIsActive, RetiredAreLower,
       CollectedAreActive
<1>7. ASSUME NEW p \in work[s], PatternMark(p)
      PROVE  SupersedeInv'
  <2>1. /\ phase[s] = "retire" /\ phase'[s] \notin {"crossMark", "pattern"}
        /\ work'[s] \subseteq work[s] /\ p[1] \in Keys
    BY <1>0, <1>7 DEF PatternMark, Handled, ScanType
  <2>2. (\A q \in work[s] : HigherVersion(q[1])') => SupersedeInv'
    BY <2>1 DEF SupersedeInv, TargetIsActive, RetiredAreLower, CollectedAreActive
  <2>3. \A q \in work[s] : HigherVersion(q[1])
    BY <2>1 DEF SupersedeInv, RetiredAreLower
  <2>4. CASE UNCHANGED <<facts, fresh, moved>>
    BY <2>2, <2>3, <2>4 DEF HigherVersion, ActiveOrMoved, Active, Stored
  <2>5. ASSUME NEW k \in Keys, NEW f, Upsert(k, f)
        PROVE  SupersedeInv'
    <3>1. moved'[s] = moved[s] \cup {k}
      BY <1>0, <2>1, <2>5 DEF Upsert, Touch
    <3>2. \A j \in Keys \ {k} : facts'[j] = facts[j]
      BY <1>0, <2>5 DEF Upsert, StoreType
    <3>3. \A j \in Keys \ moved'[s] : Persists(j)
      BY <3>1, <3>2 DEF Persists
    <3>4. \A q \in work[s] : HigherVersion(q[1])'
      BY <2>3, <3>1, <3>3, HigherVersionKept
    <3>. QED
      BY <2>2, <3>4
  <2>. QED
    BY <1>7, <2>1, <2>4, <2>5, SetPayloadIsUpsert DEF PatternMark
<1>. QED
  BY <1>0, <1>2, <1>3, <1>4, <1>5, <1>6, <1>7
  DEF ScanStep, FlagPage, FlagQueryEnds, FlagMark

\* The supersede scan marks a target it saw active, and a version only
\* because of a higher one, unless the fact in question was written since.
THEOREM SupersessionsAreJustified == Spec => []SupersessionIsJustified
<1>1. Init => SupersedeInv
  BY DEF Init, SupersedeInv, TargetIsActive, RetiredAreLower,
     CollectedAreActive, AllScans
<1>2. TypeOK /\ SupersedeInv /\ [Next]_vars => SupersedeInv'
  <2> SUFFICES ASSUME TypeOK, SupersedeInv, [Next]_vars
               PROVE  SupersedeInv'
    OBVIOUS
  <2> DEFINE s == "SupersedeScan"
  <2>0. /\ s \in AllScans
        /\ phase[s] = "crossMark" => cur[s][1] \in Keys
        /\ \A p \in work[s] : p[1] \in Keys
    BY DEF AllScans, TypeOK, ScanType, Pairs
  <2>1. CASE UNCHANGED vars
    BY <2>1 DEF vars, store, scans, SupersedeInv, TargetIsActive,
       RetiredAreLower, CollectedAreActive, HigherVersion, ActiveOrMoved,
       Active, Stored
  <2>2. CASE Undisturbed(s)
    <3>1. TargetIsActive'
      BY <2>0, <2>2
      DEF Undisturbed, Persists, SupersedeInv, TargetIsActive, Active, Stored
    <3>2. CASE phase[s] \in {"retire", "pattern"}
      <4>1. /\ moved[s] \subseteq moved'[s]
            /\ \A j \in Keys \ moved'[s] : Persists(j)
            /\ work'[s] = work[s] /\ phase'[s] = phase[s]
        BY <2>2, <3>2 DEF Undisturbed
      <4>2. phase[s] = "retire" => \A q \in work[s] : HigherVersion(q[1])'
        BY <4>1, HigherVersionKept DEF SupersedeInv, RetiredAreLower
      <4>3. phase[s] = "pattern" => \A q \in work[s] : ActiveOrMoved(q[1])'
        BY <2>0, <4>1, ActiveOrMovedKept DEF SupersedeInv, CollectedAreActive
      <4>. QED
        BY <3>1, <4>1, <4>2, <4>3
        DEF SupersedeInv, RetiredAreLower, CollectedAreActive
    <3>3. CASE phase[s] \notin {"retire", "pattern"}
      BY <2>2, <3>1, <3>3
      DEF Undisturbed, SupersedeInv, RetiredAreLower, CollectedAreActive
    <3>. QED
      BY <3>2, <3>3
  <2>3. CASE ScanStep(s)
    BY <2>3, SupersedeSteps
  <2>4. CASE Restart
    BY <2>0, <2>4 DEF Restart, SupersedeInv, TargetIsActive, RetiredAreLower,
       CollectedAreActive
  <2>. QED
    BY <2>0, <2>1, <2>2, <2>3, <2>4, SlotsDoNotDisturb, ScansDoNotDisturb,
       TimeDoesNotDisturb DEF Next
<1>3. SupersedeInv => SupersessionIsJustified
  BY DEF SupersedeInv, TargetIsActive, RetiredAreLower, HigherVersion,
     ActiveOrMoved, SupersessionIsJustified
<1>. QED
  BY <1>1, <1>2, <1>3, TypeCorrectness, PTL DEF Spec
=============================================================================

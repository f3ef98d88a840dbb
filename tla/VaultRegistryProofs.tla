-------------------------- MODULE VaultRegistryProofs --------------------------
(***************************************************************************)
(* Theorems about VaultRegistry, for every set of vaults and requests.     *)
(***************************************************************************)
EXTENDS VaultRegistry, FiniteSetTheorems, TLAPS

USE VaultAssumption

LEMMA FreshType ==
    ASSUME NEW op \in Ops, NEW v \in Vaults, NEW pc \in Steps
    PROVE  /\ Fresh(op, v, pc) \in Request
           /\ Fresh(op, v, pc).op = op /\ Fresh(op, v, pc).v = v
           /\ Fresh(op, v, pc).pc = pc /\ Fresh(op, v, pc).src = None
           /\ Fresh(op, v, pc).base = {}
BY DEF Fresh, Idle, Request

LEMMA IdleType ==
    Idle \in Request /\ Idle.op = "none" /\ Idle.pc = "idle" /\ Names(Idle)
BY DEF Idle, Request, Ops, Steps, Fillers, Names

(* A step of a handler leaves its operation and its vaults alone. *)
KeepsNames(q, p) == q.op = p.op /\ q.v = p.v /\ q.w = p.w

LEMMA NamesKept ==
    ASSUME NEW q, NEW p, KeepsNames(q, p), Names(p)
    PROVE  Names(q)
BY DEF KeepsNames, Names

(* A field of a request is replaced by a value of its type. *)
LEMMA FieldType ==
    ASSUME NEW q \in Request
    PROVE  /\ \A x \in Steps : [q EXCEPT !.pc = x] \in Request
           /\ \A x \in Vaults \cup {None} : [q EXCEPT !.src = x] \in Request
           /\ \A x \in Vaults \cup {None} : [q EXCEPT !.dst = x] \in Request
           /\ \A x \in Vaults \cup {None} : [q EXCEPT !.w = x] \in Request
           /\ \A x \in Nat : [q EXCEPT !.from = x] \in Request
           /\ \A x \in Nat : [q EXCEPT !.next = x] \in Request
           /\ \A x \in SUBSET Chunks : [q EXCEPT !.page = x] \in Request
           /\ \A x \in SUBSET Chunks : [q EXCEPT !.base = x] \in Request
BY DEF Request

(* What a start, a step and a return do to the table of requests. *)
LEMMA BeginType ==
    ASSUME TypeOK, NEW r \in Requests, NEW q \in Request, Begin(r, q), Names(q)
    PROVE  /\ req' \in [Requests -> Request] /\ started' \in 0..MaxRequests
           /\ \A p \in Requests : Names(req'[p])
           /\ req'[r] = q /\ \A p \in Requests \ {r} : req'[p] = req[p]
BY DEF TypeOK, Begin

LEMMA GotoType ==
    ASSUME TypeOK, NEW r \in Requests, NEW pc \in Steps, Goto(r, pc)
    PROVE  /\ req' \in [Requests -> Request]
           /\ \A p \in Requests : Names(req'[p])
           /\ req'[r] = [req[r] EXCEPT !.pc = pc]
           /\ \A p \in Requests \ {r} : req'[p] = req[p]
<1>1. [req[r] EXCEPT !.pc = pc] \in Request /\ req[r] \in Request
  BY FieldType DEF TypeOK
<1>2. KeepsNames([req[r] EXCEPT !.pc = pc], req[r])
  BY <1>1 DEF Request, KeepsNames
<1>3. Names([req[r] EXCEPT !.pc = pc])
  BY <1>2, NamesKept DEF TypeOK
<1>. QED
  BY <1>1, <1>3 DEF TypeOK, Goto

LEMMA ReturnType ==
    ASSUME TypeOK, NEW r \in Requests, Return(r)
    PROVE  /\ req' \in [Requests -> Request]
           /\ \A p \in Requests : Names(req'[p])
           /\ req'[r] = Idle /\ \A p \in Requests \ {r} : req'[p] = req[p]
BY IdleType DEF TypeOK, Return

(* Shedding touches only the base of other merges, and only shrinks it. *)
KeepsAllButBase(q, p) ==
    /\ KeepsNames(q, p) /\ q.pc = p.pc /\ q.src = p.src /\ q.dst = p.dst
    /\ q.from = p.from /\ q.next = p.next /\ q.page = p.page

LEMMA ShedType ==
    ASSUME TypeOK, NEW r, NEW coll, NEW S
    PROVE  /\ Shed(req, r, coll, S) \in [Requests -> Request]
           /\ \A p \in Requests : KeepsAllButBase(Shed(req, r, coll, S)[p], req[p])
           /\ \A p \in Requests : Shed(req, r, coll, S)[p].base =
                IF p # r /\ req[p].op = "merge" /\ coll \in {req[p].src, req[p].dst}
                THEN req[p].base \ S ELSE req[p].base
<1> SUFFICES ASSUME NEW p \in Requests
             PROVE  /\ Shed(req, r, coll, S)[p] \in Request
                    /\ KeepsAllButBase(Shed(req, r, coll, S)[p], req[p])
                    /\ Shed(req, r, coll, S)[p].base =
                        IF /\ p # r /\ req[p].op = "merge"
                           /\ coll \in {req[p].src, req[p].dst}
                        THEN req[p].base \ S ELSE req[p].base
  BY DEF Shed
<1>1. req[p] \in Request /\ req[p].base \ S \in SUBSET Chunks
  BY DEF TypeOK, Request
<1>2. [req[p] EXCEPT !.base = @ \ S] \in Request
  BY <1>1, FieldType
<1>. QED
  BY <1>1, <1>2 DEF Shed, Request, KeepsAllButBase, KeepsNames

(* The same, with a step of the handler r that sheds: its request becomes q. *)
KeepsHome(q, p) == KeepsNames(q, p) /\ q.src = p.src /\ q.dst = p.dst

Sheds(r, coll, S, pc) ==
    /\ req' \in [Requests -> Request] /\ req'[r].pc = pc
    /\ \A p \in Requests : Names(req'[p]) /\ KeepsHome(req'[p], req[p])
    /\ \A p \in Requests \ {r} : req'[p] = Shed(req, r, coll, S)[p]

LEMMA ShedStepType ==
    ASSUME TypeOK, NEW r \in Requests, NEW coll, NEW S, NEW q \in Request,
           KeepsHome(q, req[r]),
           req' = [Shed(req, r, coll, S) EXCEPT ![r] = q]
    PROVE  Sheds(r, coll, S, q.pc)
<1>1. Shed(req, r, coll, S) \in [Requests -> Request]
  BY ShedType
<1>2. req' \in [Requests -> Request] /\ req'[r] = q
      /\ \A p \in Requests \ {r} : req'[p] = Shed(req, r, coll, S)[p]
  BY <1>1
<1>3. ASSUME NEW p \in Requests
      PROVE  Names(req'[p]) /\ KeepsHome(req'[p], req[p])
  <2>1. KeepsHome(req'[p], req[p])
    <3>1. CASE p = r
      BY <3>1, <1>2
    <3>2. CASE p # r
      <4>1. KeepsAllButBase(Shed(req, r, coll, S)[p], req[p])
        BY ShedType
      <4>. QED
        BY <3>2, <1>2, <4>1 DEF KeepsAllButBase, KeepsHome
    <3>. QED
      BY <3>1, <3>2
  <2>. QED
    BY <2>1, NamesKept DEF TypeOK, KeepsHome
<1>. QED
  BY <1>2, <1>3 DEF Sheds

(* The steps that shed: a collection is emptied, or a source is replaced. *)
LEMMA ShedGotoType ==
    ASSUME TypeOK, NEW r \in Requests, NEW coll, NEW S, NEW pc \in Steps,
           req' = [Shed(req, r, coll, S) EXCEPT ![r].pc = pc]
    PROVE  Sheds(r, coll, S, pc)
<1>. DEFINE q == [req[r] EXCEPT !.pc = pc]
<1>1. Shed(req, r, coll, S)[r] = req[r] /\ req[r] \in Request
  BY DEF Shed, TypeOK
<1>2. q \in Request /\ KeepsHome(q, req[r]) /\ q.pc = pc
  BY <1>1, FieldType DEF Request, KeepsHome, KeepsNames
<1>3. req' = [Shed(req, r, coll, S) EXCEPT ![r] = q]
  BY <1>1
<1>. HIDE DEF q
<1>4. Sheds(r, coll, S, q.pc)
  BY <1>2, <1>3, ShedStepType
<1>. QED
  BY <1>2, <1>4

LEMMA ShedPageType ==
    ASSUME TypeOK, NEW r \in Requests, NEW coll, NEW S, NEW P \in SUBSET Chunks,
           NEW pc \in Steps,
           req' = [Shed(req, r, coll, S) EXCEPT ![r].page = P, ![r].pc = pc]
    PROVE  Sheds(r, coll, S, pc)
<1>. DEFINE F  == Shed(req, r, coll, S)
            q1 == [req[r] EXCEPT !.page = P]
            q2 == [q1 EXCEPT !.pc = pc]
<1>0. F \in [Requests -> Request]
  BY ShedType
<1>1. F[r] = req[r] /\ req[r] \in Request
  BY DEF Shed, TypeOK
<1>2. q1 \in Request /\ KeepsHome(q1, req[r])
  BY <1>1, FieldType DEF Request, KeepsHome, KeepsNames
<1>3. q2 \in Request /\ KeepsHome(q2, req[r]) /\ q2.pc = pc
  <2>. HIDE DEF q1
  <2>. QED
    BY <1>2, FieldType DEF Request, KeepsHome, KeepsNames
<1>4. req' = [F EXCEPT ![r] = q2]
  <2>1. req' = [F EXCEPT ![r].page = P, ![r].pc = pc]
    OBVIOUS
  <2>. HIDE DEF F
  <2>. QED
    BY <1>0, <1>1, <2>1
<1>. HIDE DEF q2
<1>5. Sheds(r, coll, S, q2.pc)
  BY <1>3, <1>4, ShedStepType
<1>. QED
  BY <1>3, <1>5

LEMMA StoreType ==
    ASSUME TypeOK, NEW coll, NEW S, NEW form \in {"absent", "whole", "bare"},
           Store(coll, S, form)
    PROVE  /\ chunks' \in [Vaults -> [Chunks -> {"absent", "whole", "bare"}]]
           /\ \A v \in Vaults, c \in Chunks :
                chunks'[v][c] = IF v = coll /\ c \in S THEN form ELSE chunks[v][c]
<1>1. ASSUME NEW v \in Vaults
      PROVE  /\ chunks'[v] \in [Chunks -> {"absent", "whole", "bare"}]
             /\ \A c \in Chunks :
                  chunks'[v][c] = IF v = coll /\ c \in S THEN form ELSE chunks[v][c]
  BY DEF TypeOK, Store
<1>2. DOMAIN chunks' = Vaults /\ chunks' = [v \in Vaults |-> chunks'[v]]
  BY DEF TypeOK, Store
<1>. QED
  BY <1>1, <1>2

(***************************************************************************)
(* Type correctness.                                                       *)
(***************************************************************************)
LEMMA TypeInit == Init => TypeOK
<1> SUFFICES ASSUME Init PROVE TypeOK
  OBVIOUS
<1>1. req \in [Requests -> Request] /\ \A r \in Requests : Names(req[r])
  BY IdleType DEF Init
<1>. QED
  BY <1>1 DEF Init, TypeOK, AtBoot, NoFactClients

(* Every start begins a request that is well formed, and nothing else. *)
StartsWith(r, q) ==
    /\ Begin(r, q) /\ UNCHANGED <<registry, stored, restarts, ghosts>>
    /\ q \in Request /\ q.op # "none" /\ Names(q)

LEMMA Starts ==
    ASSUME TypeOK, NEW r \in Requests, RequestStart(r)
    PROVE  \E q \in Request : StartsWith(r, q)
<1>. DEFINE Goal == \E q \in Request : StartsWith(r, q)
<1>1. PICK v \in Vaults :
        \/ CreateCheck(r, v)
        \/ handleIngest(r, v) \/ handleDocuments(r, v) \/ handleWebhookGit(r, v)
        \/ doStore(r, v)
        \/ \E op \in {"clear", "delete", "archive"} : WipeResolve(r, op, v)
        \/ \E w \in Vaults : MergeFrom(r, v, w)
        \/ WithVault(r, "recall", v, "search") \/ WithVault(r, "fact", v, "upsert")
  BY DEF RequestStart
<1>. client[v] \in Vaults \cup {None}
  BY DEF TypeOK
<1>2. ASSUME NEW op \in Ops \ {"none", "merge"}, NEW pc \in Steps
      PROVE  /\ Fresh(op, v, pc) \in Request /\ Fresh(op, v, pc).op # "none"
             /\ Names(Fresh(op, v, pc))
  BY FreshType DEF Names
<1>3. ASSUME NEW op \in Ops \ {"none", "merge"}, NEW pc \in Steps,
             NEW x \in Vaults \cup {None}
      PROVE  LET q == [Fresh(op, v, pc) EXCEPT !.src = x]
             IN  q \in Request /\ q.op # "none" /\ Names(q)
  BY <1>2, FieldType DEF Request, Names
<1>4. ASSUME NEW op \in Fillers, NEW may \in BOOLEAN, Resolve(r, op, v, may)
      PROVE  Goal
  <2>1. op \in Ops \ {"none", "merge"} /\ "mkdir" \in Steps /\ "put" \in Steps
    BY DEF Fillers, Ops, Steps
  <2>. QED
    BY <1>2, <1>3, <1>4, <2>1 DEF Resolve, StartsWith
<1>5. CASE CreateCheck(r, v)
  BY <1>5, <1>2 DEF CreateCheck, StartsWith, Ops, Steps
<1>6. CASE handleIngest(r, v) \/ handleDocuments(r, v) \/ handleWebhookGit(r, v)
           \/ doStore(r, v)
  BY <1>6, <1>4 DEF handleIngest, handleDocuments, handleWebhookGit, doStore, Fillers
<1>7. ASSUME NEW op \in {"clear", "delete", "archive"}, WipeResolve(r, op, v)
      PROVE  Goal
  <2>1. op \in Ops \ {"none", "merge"} /\ "unconfigure" \in Steps /\ "chunks" \in Steps
    BY DEF Ops, Steps
  <2>. QED
    BY <1>2, <1>3, <1>7, <2>1 DEF WipeResolve, StartsWith
<1>8. ASSUME NEW w \in Vaults, MergeFrom(r, v, w)
      PROVE  Goal
  <2>. DEFINE q0 == Fresh("merge", v, "into")
              q1 == [q0 EXCEPT !.w = w]
              q2 == [q1 EXCEPT !.src = client[v]]
  <2>0. "merge" \in Ops /\ "into" \in Steps /\ v # w
    BY <1>8 DEF Ops, Steps, MergeFrom
  <2>1. q0 \in Request /\ q0.op = "merge" /\ q0.v = v
    BY <2>0, FreshType
  <2>. HIDE DEF q0
  <2>2. q1 \in Request /\ q1.op = "merge" /\ q1.v = v /\ q1.w = w
    BY <2>1, FieldType DEF Request
  <2>. HIDE DEF q1
  <2>3. q2 \in Request /\ q2.op = "merge" /\ q2.v = v /\ q2.w = w
    BY <2>2, FieldType DEF Request
  <2>. USE DEF q0, q1
  <2>4. Begin(r, q2) /\ UNCHANGED <<registry, stored, restarts, ghosts>>
    BY <1>8 DEF MergeFrom
  <2>. HIDE DEF q2
  <2>. QED
    BY <2>0, <2>3, <2>4 DEF StartsWith, Names
<1>9. CASE WithVault(r, "recall", v, "search") \/ WithVault(r, "fact", v, "upsert")
  BY <1>9, <1>2 DEF WithVault, StartsWith, Ops, Steps
<1>. QED
  BY <1>1, <1>5, <1>6, <1>7, <1>8, <1>9

(* The part of TypeOK about requests, and the part about everything else. *)
ReqOK(table) ==
    /\ table \in [Requests -> Request]
    /\ \A r \in Requests : Names(table[r])

LEMMA TypeStart ==
    ASSUME TypeOK, NEW r \in Requests, RequestStart(r)
    PROVE  TypeOK'
<1>1. PICK q \in Request : StartsWith(r, q)
  BY Starts
<1>2. ReqOK(req)' /\ started' \in 0..MaxRequests
  BY <1>1, BeginType DEF StartsWith, ReqOK
<1>. QED
  BY <1>1, <1>2 DEF TypeOK, StartsWith, registry, stored, ghosts, ReqOK

(* The steps of a request that puts texts or documents into a collection    *)
(* touch its own request only, except the one that replaces a source.       *)
FillStep(r) ==
    \/ DocumentLookup(r) \/ IngestStops(r)
    \/ \E S \in SUBSET Chunks : IngestBatch(r, S)

Filling(q) ==
    /\ q \in Request /\ Names(q) /\ q.op \in Fillers \cup {"none"}
    /\ q.pc \in {"idle", "put", "replace", "batch"}

LEMMA FillType ==
    ASSUME TypeOK, NEW r \in Requests, FillStep(r)
    PROVE  /\ req[r].op \in Fillers
           /\ \E q : Filling(q) /\ req' = [req EXCEPT ![r] = q]
<1>1. req[r].op \in Fillers /\ req[r].pc \in {"put", "batch"}
  BY DEF FillStep, DocumentLookup, IngestStops, IngestBatch, At, Fillers
<1>2. req[r] \in Request /\ Names(req[r]) /\ req \in [Requests -> Request]
  BY DEF TypeOK
<1>3. {"put", "replace", "batch"} \subseteq Steps
  BY DEF Steps
<1>4. ASSUME NEW q \in Request, KeepsNames(q, req[r]),
             q.pc \in {"put", "replace", "batch"}
      PROVE  Filling(q)
  BY <1>1, <1>2, <1>4, NamesKept DEF Filling, KeepsNames
<1>5. CASE Return(r)
  <2>1. Filling(Idle)
    BY IdleType DEF Filling
  <2>. QED
    BY <1>5, <1>1, <2>1 DEF Return
<1>6. CASE NextText(r)
  <2>1. CASE req' = [req EXCEPT ![r].page = {}, ![r].pc = "put"]
    <3>. DEFINE q1 == [req[r] EXCEPT !.page = {}]
                q2 == [q1 EXCEPT !.pc = "put"]
    <3>1. q1 \in Request /\ KeepsNames(q1, req[r])
      BY <1>2, FieldType DEF Request, KeepsNames
    <3>2. req' = [req EXCEPT ![r] = q2]
      BY <1>2, <2>1
    <3>3. q2 \in Request /\ KeepsNames(q2, req[r]) /\ q2.pc = "put"
      <4>. HIDE DEF q1
      <4>. QED BY <1>3, <3>1, FieldType DEF Request, KeepsNames
    <3>. HIDE DEF q2
    <3>. QED
      BY <1>1, <3>2, <3>3, <1>4
  <2>. QED
    BY <1>5, <1>6, <2>1 DEF NextText
<1>7. CASE DocumentLookup(r)
  <2>1. CASE req' = [req EXCEPT ![r].src = client[req[r].v], ![r].pc = "replace"]
    <3>. DEFINE q1 == [req[r] EXCEPT !.src = client[req[r].v]]
                q2 == [q1 EXCEPT !.pc = "replace"]
    <3>0. client[req[r].v] \in Vaults \cup {None}
      BY <1>1, <1>2 DEF TypeOK, Names, Fillers
    <3>1. q1 \in Request /\ KeepsNames(q1, req[r])
      BY <1>2, <3>0, FieldType DEF Request, KeepsNames
    <3>2. req' = [req EXCEPT ![r] = q2]
      BY <1>2, <2>1
    <3>3. q2 \in Request /\ KeepsNames(q2, req[r]) /\ q2.pc = "replace"
      <4>. HIDE DEF q1
      <4>. QED BY <1>3, <3>1, FieldType DEF Request, KeepsNames
    <3>. HIDE DEF q2
    <3>. QED
      BY <1>1, <3>2, <3>3, <1>4
  <2>. QED
    BY <1>5, <1>7, <2>1 DEF DocumentLookup
<1>8. ASSUME NEW S \in SUBSET Chunks, IngestBatch(r, S)
      PROVE  \E q : Filling(q) /\ req' = [req EXCEPT ![r] = q]
  <2>1. CASE req' = [req EXCEPT ![r].page = @ \ S]
    <3>. DEFINE q1 == [req[r] EXCEPT !.page = req[r].page \ S]
    <3>1. q1 \in Request /\ KeepsNames(q1, req[r]) /\ q1.pc = req[r].pc
      BY <1>2, FieldType DEF Request, KeepsNames
    <3>2. req' = [req EXCEPT ![r] = q1]
      BY <1>2, <2>1
    <3>3. Filling(q1)
      <4>. HIDE DEF q1
      <4>. QED BY <1>1, <1>2, <3>1, NamesKept DEF Filling, KeepsNames
    <3>. QED
      BY <3>2, <3>3
  <2>. QED
    BY <1>6, <1>8, <2>1 DEF IngestBatch
<1>. QED
  BY <1>1, <1>6, <1>7, <1>8 DEF FillStep, IngestStops

LEMMA ReplaceType ==
    ASSUME TypeOK, NEW r \in Requests, NEW s \in Sources, NEW S \in SUBSET Chunks,
           IngestReplace(r, s, S)
    PROVE  /\ req[r].op \in Fillers
           /\ \E old \in SUBSET Chunks : /\ Store(req[r].src, old, "absent")
                                        /\ Sheds(r, req[r].src, old, "batch")
<1>1. PICK old \in {OfSource(s), {}} :
         /\ Store(req[r].src, old, "absent")
         /\ req' = [Shed(req, r, req[r].src, old) EXCEPT ![r].page = S, ![r].pc = "batch"]
  BY DEF IngestReplace
<1>2. "batch" \in Steps /\ old \in SUBSET Chunks /\ req[r].op \in Fillers
  BY DEF Steps, OfSource, IngestReplace, At, Fillers
<1>3. Sheds(r, req[r].src, old, "batch")
  BY <1>1, <1>2, ShedPageType
<1>. QED
  BY <1>1, <1>2, <1>3

LEMMA TypeStep ==
    ASSUME TypeOK, NEW r \in Requests, RequestStep(r)
    PROVE  TypeOK'
<1>. USE DEF registry, stored, ghosts, Running
<1>0. /\ req[r].op # "none" => req[r].v \in Vaults
      /\ req[r].op = "merge" => req[r].w \in Vaults
  BY DEF TypeOK, Names
<1>. DEFINE Rest == /\ cfg' \subseteq Vaults
                    /\ client' \in [Vaults -> Vaults \cup {None}]
                    /\ factClient' \in [Vaults -> Requests \cup {None, Closed}]
                    /\ owned' \subseteq Boot /\ queued' \subseteq Vaults
                    /\ dirs' \subseteq Vaults
                    /\ chunks' \in [Vaults -> [Chunks -> {"absent", "whole", "bare"}]]
                    /\ facts' \in [Vaults \cup {Shared} -> SUBSET Vaults]
                    /\ started' \in 0..MaxRequests /\ restarts' \in 0..MaxRestarts
                    /\ aliased' \subseteq Vaults /\ merged' \subseteq Vaults
<1>1. SUFFICES ReqOK(req)' /\ Rest
  BY DEF ReqOK, TypeOK
<1>2. ASSUME NEW pc \in Steps, Goto(r, pc) PROVE ReqOK(req)'
  BY <1>2, GotoType DEF ReqOK
<1>3. ASSUME Return(r) PROVE ReqOK(req)'
  BY <1>3, ReturnType DEF ReqOK
<1>4. ASSUME NEW coll, NEW S, NEW pc \in Steps,
             req' = [Shed(req, r, coll, S) EXCEPT ![r].pc = pc]
      PROVE  ReqOK(req)'
  BY <1>4, ShedGotoType DEF Sheds, ReqOK
<1>5. ASSUME NEW q \in Request, KeepsNames(q, req[r]),
             req' = [req EXCEPT ![r] = q]
      PROVE  ReqOK(req)'
  BY <1>5, NamesKept DEF ReqOK, TypeOK
<1>6. req[r] \in Request /\ \A coll : Present(coll) \subseteq Chunks
  BY DEF TypeOK, Present
<1>a. CASE MakeDirectory(r)
  <2>1. req[r].v \in Vaults
    BY <1>a, <1>0 DEF MakeDirectory, At, Fillers
  <2>. QED
    BY <1>a, <2>1, <1>2 DEF MakeDirectory, TypeOK, Steps
<1>b. CASE CreateRegister(r)
  <2>1. req[r].v \in Vaults
    BY <1>b, <1>0 DEF CreateRegister, At
  <2>. QED
    BY <1>b, <2>1, <1>2, <1>3 DEF CreateRegister, TypeOK, Steps
<1>c. CASE RemoveDirectory(r)
  BY <1>c, <1>3 DEF RemoveDirectory, TypeOK
<1>d. CASE ProvisionOpen(r)
  BY <1>d, <1>2 DEF ProvisionOpen, TypeOK, Steps
<1>e. CASE ProvisionAdd(r)
  <2>1. req[r].v \in Vaults
    BY <1>e, <1>0 DEF ProvisionAdd, At, Fillers
  <2>. QED
    BY <1>e, <2>1, <1>2 DEF ProvisionAdd, TypeOK, Steps
<1>f. CASE ProvisionConfigure(r)
  <2>1. req[r].v \in Vaults
    BY <1>f, <1>0 DEF ProvisionConfigure, At, Fillers
  <2>. DEFINE q1 == [req[r] EXCEPT !.pc = "put"]
              q2 == [q1 EXCEPT !.src = req[r].v]
  <2>0. "put" \in Steps
    BY DEF Steps
  <2>2. q1 \in Request /\ KeepsNames(q1, req[r])
    BY <1>6, <2>0, FieldType DEF Request, KeepsNames
  <2>3. q2 \in Request /\ KeepsNames(q2, req[r])
    <3>. HIDE DEF q1
    <3>. QED BY <2>1, <2>2, FieldType DEF Request, KeepsNames
  <2>4. req' = [req EXCEPT ![r] = q2]
    BY <1>f DEF ProvisionConfigure, TypeOK
  <2>5. ReqOK(req)'
    <3>. HIDE DEF q2
    <3>. QED BY <2>3, <2>4, <1>5
  <2>. QED
    BY <1>f, <2>1, <2>5 DEF ProvisionConfigure, TypeOK
<1>g. CASE FillStep(r)
  <2>1. ReqOK(req)'
    BY <1>g, FillType DEF Filling, ReqOK, TypeOK
  <2>2. chunks' \in [Vaults -> [Chunks -> {"absent", "whole", "bare"}]]
    BY <1>g, StoreType DEF FillStep, DocumentLookup, IngestStops, IngestBatch, TypeOK
  <2>. QED
    BY <1>g, <2>1, <2>2 DEF FillStep, DocumentLookup, IngestStops, IngestBatch, TypeOK
<1>h. ASSUME NEW s \in Sources, NEW S \in SUBSET Chunks, IngestReplace(r, s, S)
      PROVE  ReqOK(req)' /\ Rest
  <2>1. PICK old \in SUBSET Chunks : /\ Store(req[r].src, old, "absent")
                                     /\ Sheds(r, req[r].src, old, "batch")
    BY <1>h, ReplaceType
  <2>2. ReqOK(req)'
    BY <2>1 DEF Sheds, ReqOK
  <2>3. chunks' \in [Vaults -> [Chunks -> {"absent", "whole", "bare"}]]
    BY <2>1, StoreType DEF TypeOK
  <2>. QED
    BY <1>h, <2>2, <2>3 DEF IngestReplace, TypeOK
<1>w. CASE MergeInto(r)
  <2>1. req[r].w \in Vaults
    BY <1>w, <1>0 DEF MergeInto, At
  <2>. DEFINE q1 == [req[r] EXCEPT !.dst = client[req[r].w]]
              q2 == [q1 EXCEPT !.base = Present(req[r].src)]
              q3 == [q2 EXCEPT !.pc = "read"]
  <2>2. q1 \in Request /\ KeepsNames(q1, req[r])
    BY <1>6, <2>1, FieldType DEF Request, KeepsNames, TypeOK
  <2>3. q2 \in Request /\ KeepsNames(q2, req[r])
    <3>. HIDE DEF q1
    <3>1. Present(req[r].src) \in SUBSET Chunks
      BY <1>6
    <3>. QED BY <2>2, <3>1, FieldType DEF Request, KeepsNames
  <2>4. q3 \in Request /\ KeepsNames(q3, req[r])
    <3>. HIDE DEF q2
    <3>1. "read" \in Steps
      BY DEF Steps
    <3>. QED BY <2>3, <3>1, FieldType DEF Request, KeepsNames
  <2>5. CASE req' = [req EXCEPT ![r].dst = client[req[r].w],
                                ![r].base = Present(req[r].src), ![r].pc = "read"]
    <3>1. req' = [req EXCEPT ![r] = q3]
      BY <2>5 DEF TypeOK
    <3>2. ReqOK(req)'
      <4>. HIDE DEF q3
      <4>. QED BY <2>4, <3>1, <1>5
    <3>. QED
      BY <1>w, <3>2 DEF MergeInto, TypeOK
  <2>. QED
    BY <1>w, <2>5, <1>3 DEF MergeInto, TypeOK
<1>i. CASE WipeChunks(r)
  <2>1. CASE Store(req[r].src, Chunks, "absent")
             /\ req' = [Shed(req, r, req[r].src, Chunks) EXCEPT ![r].pc = "facts"]
    <3>1. chunks' \in [Vaults -> [Chunks -> {"absent", "whole", "bare"}]]
      BY <2>1, StoreType DEF TypeOK
    <3>2. "facts" \in Steps
      BY DEF Steps
    <3>3. ReqOK(req)'
      BY <2>1, <3>2, <1>4
    <3>. QED
      BY <1>i, <3>1, <3>3 DEF WipeChunks, TypeOK
  <2>2. CASE /\ IF req[r].op = "clear" THEN Return(r) ELSE Goto(r, "facts")
             /\ UNCHANGED chunks
    BY <1>i, <2>2, <1>2, <1>3 DEF WipeChunks, TypeOK, Steps
  <2>. QED
    BY <1>i, <2>1, <2>2 DEF WipeChunks
<1>j. CASE WipeFacts(r)
  BY <1>j, <1>2, <1>3 DEF WipeFacts, TypeOK, Steps
<1>k. CASE Unconfigure(r)
  BY <1>k, <1>2 DEF Unconfigure, TypeOK, Steps
<1>l. CASE Remove(r)
  BY <1>l, <1>3 DEF Remove, Unregister, TypeOK
<1>m. CASE MergeRead(r)
  <2>1. CASE Return(r)
    BY <1>m, <2>1, <1>3 DEF MergeRead, TypeOK
  <2>2. ASSUME NEW P \in SUBSET Chunks, NEW n \in Chunks \cup {0}, NEW pc \in Steps,
               req' = [req EXCEPT ![r].page = P, ![r].next = n, ![r].pc = pc]
        PROVE  ReqOK(req)'
    <3>. DEFINE q1 == [req[r] EXCEPT !.page = P]
                q2 == [q1 EXCEPT !.next = n]
                q3 == [q2 EXCEPT !.pc = pc]
    <3>1. q1 \in Request /\ KeepsNames(q1, req[r])
      BY <1>6, FieldType DEF Request, KeepsNames
    <3>. HIDE DEF q1
    <3>2. q2 \in Request /\ KeepsNames(q2, req[r])
      BY <3>1, FieldType DEF Request, KeepsNames
    <3>. HIDE DEF q2
    <3>3. q3 \in Request /\ KeepsNames(q3, req[r])
      BY <3>2, FieldType DEF Request, KeepsNames
    <3>4. req' = [req EXCEPT ![r] = q3]
      BY <2>2 DEF TypeOK, q1, q2, q3
    <3>. QED
      BY <3>3, <3>4, <1>5
  <2>. QED
    BY <1>m, <2>1, <2>2 DEF MergeRead, TypeOK, Steps
<1>n. CASE MergeWrite(r)
  <2>1. CASE Return(r) /\ UNCHANGED chunks
    BY <1>n, <2>1, <1>3 DEF MergeWrite, TypeOK
  <2>2. ASSUME NEW pc \in Steps,
               req' = [req EXCEPT ![r].page = {}, ![r].from = req[r].next, ![r].pc = pc]
        PROVE  ReqOK(req)'
    <3>. DEFINE q1 == [req[r] EXCEPT !.page = {}]
                q2 == [q1 EXCEPT !.from = req[r].next]
                q3 == [q2 EXCEPT !.pc = pc]
    <3>1. q1 \in Request /\ KeepsNames(q1, req[r])
      BY <1>6, FieldType DEF Request, KeepsNames
    <3>2. req[r].next \in Nat
      BY <1>6 DEF Request
    <3>. HIDE DEF q1
    <3>3. q2 \in Request /\ KeepsNames(q2, req[r])
      BY <3>1, <3>2, FieldType DEF Request, KeepsNames
    <3>. HIDE DEF q2
    <3>4. q3 \in Request /\ KeepsNames(q3, req[r])
      BY <3>3, FieldType DEF Request, KeepsNames
    <3>5. req' = [req EXCEPT ![r] = q3]
      BY <2>2 DEF TypeOK, q1, q2, q3
    <3>. QED
      BY <3>4, <3>5, <1>5
  <2>3. CASE /\ Store(req[r].dst, req[r].page, "bare")
             /\ req' = [req EXCEPT ![r].page = {}, ![r].from = req[r].next,
                                   ![r].pc = IF req[r].next = 0 THEN "purge" ELSE "read"]
    BY <1>n, <2>2, <2>3, StoreType DEF MergeWrite, TypeOK, Steps
  <2>. QED
    BY <1>n, <2>1, <2>3 DEF MergeWrite
<1>o. CASE MergePurge(r)
  <2>1. CASE /\ Store(req[r].src, Chunks, "absent")
             /\ req' = [Shed(req, r, req[r].src, Chunks) EXCEPT ![r].pc = "unregister"]
    <3>1. chunks' \in [Vaults -> [Chunks -> {"absent", "whole", "bare"}]]
      BY <2>1, StoreType DEF TypeOK
    <3>2. "unregister" \in Steps
      BY DEF Steps
    <3>3. ReqOK(req)'
      BY <2>1, <3>2, <1>4
    <3>. QED
      BY <1>o, <3>1, <3>3 DEF MergePurge, TypeOK
  <2>2. CASE Goto(r, "unregister") /\ UNCHANGED chunks
    BY <1>o, <2>2, <1>2 DEF MergePurge, TypeOK, Steps
  <2>. QED
    BY <1>o, <2>1, <2>2 DEF MergePurge
<1>p. CASE MergeUnregister(r)
  <2>1. req[r].v \in Vaults
    BY <1>p, <1>0 DEF MergeUnregister, At
  <2>. QED
    BY <1>p, <2>1, <1>2 DEF MergeUnregister, Unregister, TypeOK, Steps
<1>q. CASE MergeForget(r)
  BY <1>q, <1>3 DEF MergeForget, TypeOK
<1>r. CASE RecallSearch(r)
  <2>1. req[r].v \in Vaults /\ qdrantFor(req[r].v) \in Vaults
    BY <1>r, <1>0 DEF RecallSearch, At, qdrantFor, TypeOK
  <2>. DEFINE q1 == [req[r] EXCEPT !.src = qdrantFor(req[r].v)]
              q2 == [q1 EXCEPT !.pc = "answered"]
  <2>2. q1 \in Request /\ KeepsNames(q1, req[r])
    BY <1>6, <2>1, FieldType DEF Request, KeepsNames
  <2>3. q2 \in Request /\ KeepsNames(q2, req[r])
    <3>. HIDE DEF q1
    <3>1. "answered" \in Steps
      BY DEF Steps
    <3>. QED BY <2>2, <3>1, FieldType DEF Request, KeepsNames
  <2>4. req' = [req EXCEPT ![r] = q2]
    BY <1>r DEF RecallSearch, TypeOK
  <2>5. ReqOK(req)'
    <3>. HIDE DEF q2
    <3>. QED BY <2>3, <2>4, <1>5
  <2>. QED
    BY <1>r, <2>5 DEF RecallSearch, TypeOK
<1>s. CASE RecallReturn(r)
  BY <1>s, <1>3 DEF RecallReturn, TypeOK
<1>t. CASE FactUpsert(r)
  <2>1. req[r].v \in Vaults
    BY <1>t, <1>0 DEF FactUpsert, At
  <2>2. facts' \in [Vaults \cup {Shared} -> SUBSET Vaults]
    BY <1>t, <2>1 DEF FactUpsert, TypeOK
  <2>. QED
    BY <1>t, <2>2, <1>3 DEF FactUpsert, TypeOK
<1>. QED
  BY <1>a, <1>b, <1>c, <1>d, <1>e, <1>f, <1>g, <1>h, <1>i, <1>j, <1>k, <1>l, <1>m,
     <1>n, <1>o, <1>p, <1>q, <1>r, <1>s, <1>t, <1>w DEF RequestStep, FillStep

LEMMA TypeNext == TypeOK /\ [Next]_vars => TypeOK'
<1>. SUFFICES ASSUME TypeOK, [Next]_vars PROVE TypeOK'
  OBVIOUS
<1>1. ASSUME NEW r \in Requests, RequestStart(r) PROVE TypeOK'
  BY <1>1, TypeStart
<1>2. ASSUME NEW r \in Requests, RequestStep(r) PROVE TypeOK'
  BY <1>2, TypeStep
<1>3. started \in 0..MaxRequests /\ (started < MaxRequests => started + 1 \in 0..MaxRequests)
  BY VaultAssumption DEF TypeOK
<1>4. ASSUME NEW v \in Vaults, EnsureAgentVault(v) PROVE TypeOK'
  <2>1. qdrantFor(v) \in Vaults
    BY VaultAssumption DEF TypeOK, qdrantFor
  <2>. QED
    BY <1>3, <1>4, <2>1 DEF EnsureAgentVault, TypeOK, stored
<1>5. ASSUME NEW v \in Vaults, Reindex(v) PROVE TypeOK'
  BY <1>3, <1>5 DEF Reindex, TypeOK, stored, ghosts
<1>6. ASSUME NEW v \in Vaults, NEW c \in Chunks, Import(v, c) PROVE TypeOK'
  <2>1. chunks' \in [Vaults -> [Chunks -> {"absent", "whole", "bare"}]]
    BY <1>6, StoreType DEF Import, TypeOK
  <2>. QED
    BY <1>3, <1>6, <2>1 DEF Import, TypeOK, registry, ghosts
<1>7. ASSUME NEW v \in Vaults, NEW s \in Sources, NEW S \in SUBSET Chunks,
             IndexFile(v, s, S)
      PROVE  TypeOK'
  <2>1. chunks' \in [Vaults -> [Chunks -> {"absent", "whole", "bare"}]]
    BY <1>7, StoreType DEF IndexFile, TypeOK
  <2>. QED
    BY <1>7, <2>1 DEF IndexFile, TypeOK, ghosts
<1>8. ASSUME NEW v \in Vaults, NEW S \in SUBSET Chunks, ChunksDelete(v, S) PROVE TypeOK'
  <2>1. chunks' \in [Vaults -> [Chunks -> {"absent", "whole", "bare"}]]
    BY <1>8, StoreType DEF ChunksDelete, TypeOK
  <2>2. ReqOK(req)'
    BY <1>8, ShedType, NamesKept DEF ChunksDelete, ReqOK, TypeOK, KeepsAllButBase
  <2>. QED
    BY <1>3, <1>8, <2>1, <2>2 DEF ChunksDelete, TypeOK, registry, ghosts, ReqOK
<1>11. ASSUME NEW v \in Vaults, NEW s \in Sources, UnindexFile(v, s) PROVE TypeOK'
  <2>1. chunks' \in [Vaults -> [Chunks -> {"absent", "whole", "bare"}]]
    BY <1>11, StoreType DEF UnindexFile, TypeOK
  <2>2. ReqOK(req)'
    BY <1>11, ShedType, NamesKept DEF UnindexFile, ReqOK, TypeOK, KeepsAllButBase
  <2>. QED
    BY <1>11, <2>1, <2>2 DEF UnindexFile, TypeOK, ghosts, ReqOK
<1>12. \A s \in Sources : OfSource(s) \in SUBSET Chunks
  BY DEF OfSource
<1>9. CASE Restart
  <2>1. restarts' \in 0..MaxRestarts
    BY <1>9, VaultAssumption DEF Restart, TypeOK
  <2>2. /\ cfg' \subseteq Vaults /\ client' \in [Vaults -> Vaults \cup {None}]
        /\ factClient' \in [Vaults -> Requests \cup {None, Closed}]
        /\ owned' \subseteq Boot /\ queued' \subseteq Vaults
    BY <1>9, VaultAssumption DEF Restart, AtBoot, NoFactClients
  <2>3. ReqOK(req)'
    BY <1>9, IdleType DEF Restart, ReqOK
  <2>. QED
    BY <1>9, <2>1, <2>2, <2>3 DEF Restart, TypeOK, stored, ghosts, ReqOK
<1>10. CASE UNCHANGED vars
  BY <1>10 DEF vars, registry, stored, ghosts, TypeOK
<1>. QED
  BY <1>1, <1>2, <1>4, <1>5, <1>6, <1>7, <1>8, <1>9, <1>10, <1>11, <1>12 DEF Next

(* In every behaviour the variables keep their types. *)
THEOREM TypeCorrectness == Spec => []TypeOK
<1>1. Init => TypeOK
  BY TypeInit
<1>. QED
  BY <1>1, TypeNext, PTL DEF Spec

(***************************************************************************)
(* A step of one handler leaves the other handlers where they are.         *)
(***************************************************************************)
Stay(r) == \A p \in Requests \ {r} : KeepsAllButBase(req'[p], req[p])

LEMMA OthersStay ==
    ASSUME TypeOK, NEW r \in Requests, RequestStart(r) \/ RequestStep(r)
    PROVE  Stay(r)
<1>. USE DEF Stay, KeepsAllButBase, KeepsNames
<1>1. CASE \E x : req' = [req EXCEPT ![r] = x]
  BY <1>1 DEF TypeOK
<1>0. ASSUME NEW coll, NEW S, NEW pc, Sheds(r, coll, S, pc)
      PROVE  Stay(r)
  <2>1. \A p \in Requests \ {r} : req'[p] = Shed(req, r, coll, S)[p]
    BY <1>0 DEF Sheds
  <2>. QED
    BY <2>1, ShedType
<1>2. ASSUME NEW coll, NEW S, NEW pc \in Steps,
             req' = [Shed(req, r, coll, S) EXCEPT ![r].pc = pc]
      PROVE  Stay(r)
  BY <1>0, <1>2, ShedGotoType
<1>3. CASE RequestStart(r)
  <2>1. PICK q \in Request : StartsWith(r, q)
    BY <1>3, Starts
  <2>. QED
    BY <2>1, <1>1 DEF StartsWith, Begin
<1>4. CASE WipeChunks(r)
  <2>1. "facts" \in Steps
    BY DEF Steps
  <2>. QED
    BY <1>4, <2>1, <1>1, <1>2 DEF WipeChunks, Goto, Return
<1>5. CASE MergePurge(r)
  <2>1. "unregister" \in Steps
    BY DEF Steps
  <2>. QED
    BY <1>5, <2>1, <1>1, <1>2 DEF MergePurge, Goto
<1>6. CASE \/ MakeDirectory(r) \/ CreateRegister(r) \/ RemoveDirectory(r)
           \/ ProvisionOpen(r) \/ ProvisionAdd(r) \/ ProvisionConfigure(r)
  BY <1>6, <1>1 DEF MakeDirectory, CreateRegister, RemoveDirectory, ProvisionOpen,
     ProvisionAdd, ProvisionConfigure, Goto, Return, TypeOK
<1>9. CASE FillStep(r)
  BY <1>9, <1>1, FillType
<1>10. ASSUME NEW s \in Sources, NEW S \in SUBSET Chunks, IngestReplace(r, s, S)
       PROVE  Stay(r)
  BY <1>0, <1>10, ReplaceType
<1>7. CASE \/ WipeFacts(r) \/ Unconfigure(r) \/ Remove(r)
           \/ MergeUnregister(r) \/ MergeForget(r)
           \/ RecallSearch(r) \/ RecallReturn(r) \/ FactUpsert(r)
  BY <1>7, <1>1 DEF WipeFacts, Unconfigure, Remove, MergeUnregister, MergeForget,
     RecallSearch, RecallReturn, FactUpsert, Goto, Return, TypeOK
<1>8. CASE MergeInto(r) \/ MergeRead(r) \/ MergeWrite(r)
  BY <1>8 DEF MergeInto, MergeRead, MergeWrite, Return, TypeOK
<1>. QED
  BY <1>3, <1>4, <1>5, <1>6, <1>7, <1>8, <1>9, <1>10 DEF RequestStep, FillStep

(***************************************************************************)
(* A registered vault is a configured one.  The two removals of a merge    *)
(* come in the opposite order, so what the last of them removes must be    *)
(* known to be merged.                                                     *)
(***************************************************************************)
ForgetsMerged == \A r \in Requests : At(r, {"merge"}, "forget") => req[r].v \in merged
IndexInv == TypeOK /\ IndexedIsConfigured /\ ForgetsMerged

(* Where a handler that did not move still stands. *)
LEMMA StayAt ==
    ASSUME NEW r \in Requests, Stay(r), NEW p \in Requests \ {r}, NEW ops, NEW pc
    PROVE  At(p, ops, pc)' <=> At(p, ops, pc)
BY DEF Stay, KeepsAllButBase, KeepsNames, At

(* A registered vault stays accounted for unless the step took it out of    *)
(* the configuration, or moved the handler that accounted for it.           *)
LEMMA IndexKept ==
    ASSUME IndexInv, NEW r \in Requests, Stay(r), TypeOK', NEW v \in Vaults,
           client'[v] # None => client[v] # None, cfg \subseteq cfg',
           aliased \subseteq aliased', merged \subseteq merged',
           req[r].v = v =>
               \/ ~ (At(r, Fillers, "configure") \/ At(r, {"delete", "archive"}, "remove"))
               \/ client'[v] = None \/ v \in cfg'
    PROVE  client'[v] # None => v \in cfg' \/ BetweenMaps(v)' \/ v \in aliased' \/ v \in merged'
<1>. SUFFICES ASSUME client'[v] # None
              PROVE  v \in cfg' \/ BetweenMaps(v)' \/ v \in aliased' \/ v \in merged'
  OBVIOUS
<1>1. v \in cfg \/ BetweenMaps(v) \/ v \in aliased \/ v \in merged
  BY DEF IndexInv, IndexedIsConfigured
<1>2. CASE BetweenMaps(v)
  <2>1. PICK p \in Requests :
            /\ req[p].v = v
            /\ At(p, Fillers, "configure") \/ At(p, {"delete", "archive"}, "remove")
    BY <1>2 DEF BetweenMaps
  <2>2. CASE p = r
    BY <2>1, <2>2
  <2>3. CASE p # r
    <3>1. req'[p].v = v
      BY <2>1, <2>3 DEF Stay, KeepsAllButBase, KeepsNames
    <3>2. At(p, Fillers, "configure")' \/ At(p, {"delete", "archive"}, "remove")'
      BY <2>1, <2>3, StayAt
    <3>. QED
      BY <3>1, <3>2 DEF BetweenMaps
  <2>. QED
    BY <2>2, <2>3
<1>. QED
  BY <1>1, <1>2

(* The same for the merges that still have to remove the entry. *)
LEMMA ForgetKept ==
    ASSUME IndexInv, NEW r \in Requests, Stay(r), merged \subseteq merged',
           At(r, {"merge"}, "forget")' => req'[r].v \in merged'
    PROVE  ForgetsMerged'
<1>. SUFFICES ASSUME NEW p \in Requests, At(p, {"merge"}, "forget")'
              PROVE  req'[p].v \in merged'
  BY DEF ForgetsMerged
<1>1. CASE p = r
  BY <1>1
<1>2. CASE p # r
  <2>1. At(p, {"merge"}, "forget") /\ req'[p].v = req[p].v
    BY <1>2, StayAt DEF Stay, KeepsAllButBase, KeepsNames
  <2>. QED
    BY <2>1 DEF IndexInv, ForgetsMerged
<1>. QED
  BY <1>1, <1>2

LEMMA IndexStep ==
    ASSUME IndexInv, NEW r \in Requests, RequestStep(r), TypeOK'
    PROVE  IndexedIsConfigured' /\ ForgetsMerged'
<1>. USE DEF registry, stored, ghosts, Running
<1>1. Stay(r)
  BY OthersStay DEF IndexInv
<1>2. ASSUME cfg \subseteq cfg', UNCHANGED <<client, aliased, merged>>,
             \/ ~ (At(r, Fillers, "configure") \/ At(r, {"delete", "archive"}, "remove"))
             \/ req[r].v \in cfg',
             ~ At(r, {"merge"}, "forget")'
      PROVE  IndexedIsConfigured' /\ ForgetsMerged'
  <2>1. ASSUME NEW v \in Vaults
        PROVE  client'[v] # None =>
                   v \in cfg' \/ BetweenMaps(v)' \/ v \in aliased' \/ v \in merged'
    BY <1>1, <1>2, IndexKept DEF IndexInv
  <2>. QED
    BY <1>1, <1>2, <2>1, ForgetKept DEF IndexedIsConfigured
<1>3. req[r] \in Request /\ DOMAIN req = Requests
  BY DEF IndexInv, TypeOK
<1>4. ASSUME NEW x, req' = [req EXCEPT ![r] = x] PROVE req'[r] = x
  BY <1>3, <1>4
<1>5. ASSUME NEW pc, Goto(r, pc)
      PROVE  req'[r].op = req[r].op /\ req'[r].pc = pc /\ req'[r].v = req[r].v
  BY <1>3, <1>5 DEF Goto, Request
<1>6. ASSUME Return(r) PROVE req'[r].op = "none" /\ req'[r].pc = "idle"
  BY <1>3, <1>6, IdleType DEF Return
<1>a. CASE MakeDirectory(r) \/ RemoveDirectory(r) \/ ProvisionOpen(r)
  BY <1>a, <1>2, <1>5, <1>6 DEF MakeDirectory, RemoveDirectory, ProvisionOpen, At, Fillers
<1>b. CASE CreateRegister(r)
  BY <1>b, <1>2, <1>5, <1>6 DEF CreateRegister, At, Fillers
<1>c. CASE ProvisionAdd(r)
  <2>1. ~ At(r, {"merge"}, "forget")' /\ cfg' = cfg /\ aliased' = aliased /\ merged' = merged
    BY <1>c, <1>5 DEF ProvisionAdd, At
  <2>2. ASSUME NEW v \in Vaults
        PROVE  client'[v] # None =>
                   v \in cfg' \/ BetweenMaps(v)' \/ v \in aliased' \/ v \in merged'
    <3>1. CASE v = req[r].v /\ client[v] = None
      <4>1. req'[r].v = v /\ At(r, Fillers, "configure")'
        BY <1>c, <1>5, <3>1 DEF ProvisionAdd, At
      <4>. QED
        BY <4>1 DEF BetweenMaps
    <3>2. CASE ~ (v = req[r].v /\ client[v] = None)
      <4>1. client'[v] # None => client[v] # None
        BY <1>c, <3>2 DEF ProvisionAdd, IndexInv, TypeOK
      <4>2. ~ (At(r, Fillers, "configure") \/ At(r, {"delete", "archive"}, "remove"))
        BY <1>c DEF ProvisionAdd, At
      <4>. QED
        BY <1>1, <2>1, <4>1, <4>2, IndexKept
    <3>. QED
      BY <3>1, <3>2
  <2>. QED
    BY <1>1, <2>1, <2>2, ForgetKept DEF IndexedIsConfigured
<1>d. CASE ProvisionConfigure(r)
  <2>1. req'[r].pc = "put"
    BY <1>d, <1>3 DEF ProvisionConfigure
  <2>. QED
    BY <1>d, <2>1, <1>2 DEF ProvisionConfigure, At
<1>e. CASE FillStep(r)
  <2>1. PICK q : Filling(q) /\ req' = [req EXCEPT ![r] = q]
    BY <1>e, FillType DEF IndexInv
  <2>2. req'[r] = q
    BY <2>1, <1>4
  <2>. QED
    BY <1>e, <2>1, <2>2, <1>2 DEF FillStep, DocumentLookup, IngestStops, IngestBatch,
       Filling, At
<1>q. ASSUME NEW s \in Sources, NEW S \in SUBSET Chunks, IngestReplace(r, s, S)
      PROVE  IndexedIsConfigured' /\ ForgetsMerged'
  <2>1. req'[r].pc = "batch"
    BY <1>q, ReplaceType DEF Sheds, IndexInv
  <2>. QED
    BY <1>q, <2>1, <1>2 DEF IngestReplace, At
<1>r. CASE MergeInto(r)
  <2>1. ~ At(r, {"merge"}, "forget")'
    <3>1. CASE Return(r)
      BY <3>1, <1>6 DEF At
    <3>2. ASSUME NEW d, NEW b,
                 req' = [req EXCEPT ![r].dst = d, ![r].base = b, ![r].pc = "read"]
          PROVE  req'[r].pc = "read"
      BY <3>2, <1>3 DEF Request
    <3>. QED
      BY <1>r, <3>1, <3>2 DEF MergeInto, At
  <2>. QED
    BY <1>r, <2>1, <1>2 DEF MergeInto, At
<1>f. CASE WipeChunks(r)
  <2>1. ~ At(r, {"merge"}, "forget")'
    <3>1. CASE req' = [Shed(req, r, req[r].src, Chunks) EXCEPT ![r].pc = "facts"]
      <4>1. "facts" \in Steps
        BY DEF Steps
      <4>2. req'[r].pc = "facts"
        BY <3>1, <4>1, ShedGotoType DEF Sheds, IndexInv
      <4>. QED
        BY <4>2 DEF At
    <3>. QED
      BY <1>f, <3>1, <1>5, <1>6 DEF WipeChunks, At
  <2>. QED
    BY <1>f, <2>1, <1>2 DEF WipeChunks, At
<1>g. CASE WipeFacts(r)
  BY <1>g, <1>2, <1>5, <1>6 DEF WipeFacts, At
<1>h. CASE Unconfigure(r)
  <2>1. req'[r].v = req[r].v /\ At(r, {"delete", "archive"}, "remove")'
    BY <1>h, <1>5 DEF Unconfigure, At
  <2>2. ASSUME NEW v \in Vaults, client'[v] # None
        PROVE  v \in cfg' \/ BetweenMaps(v)' \/ v \in aliased' \/ v \in merged'
    <3>1. CASE v = req[r].v
      BY <2>1, <3>1 DEF BetweenMaps
    <3>2. CASE v # req[r].v
      <4>1. v \in cfg \/ BetweenMaps(v) \/ v \in aliased \/ v \in merged
        BY <1>h, <2>2 DEF Unconfigure, IndexInv, IndexedIsConfigured
      <4>2. ASSUME BetweenMaps(v) PROVE BetweenMaps(v)'
        <5>1. PICK p \in Requests :
                  /\ req[p].v = v
                  /\ At(p, Fillers, "configure") \/ At(p, {"delete", "archive"}, "remove")
          BY <4>2 DEF BetweenMaps
        <5>2. p # r
          BY <3>2, <5>1
        <5>3. req'[p].v = v
          BY <1>1, <5>1, <5>2 DEF Stay, KeepsAllButBase, KeepsNames
        <5>4. At(p, Fillers, "configure")' \/ At(p, {"delete", "archive"}, "remove")'
          BY <1>1, <5>1, <5>2, StayAt
        <5>. QED
          BY <5>3, <5>4 DEF BetweenMaps
      <4>. QED
        BY <1>h, <3>2, <4>1, <4>2 DEF Unconfigure
    <3>. QED
      BY <3>1, <3>2
  <2>3. ForgetsMerged'
    BY <1>h, <1>1, <2>1, ForgetKept DEF Unconfigure, At
  <2>. QED
    BY <2>2, <2>3 DEF IndexedIsConfigured
<1>i. CASE Remove(r)
  <2>1. ~ At(r, {"merge"}, "forget")' /\ cfg' = cfg /\ aliased' = aliased /\ merged' = merged
    BY <1>i, <1>6 DEF Remove, At
  <2>2. ASSUME NEW v \in Vaults
        PROVE  /\ client'[v] # None => client[v] # None
               /\ req[r].v = v => client'[v] = None
    BY <1>i DEF Remove, Unregister, IndexInv, TypeOK
  <2>3. ASSUME NEW v \in Vaults
        PROVE  client'[v] # None =>
                   v \in cfg' \/ BetweenMaps(v)' \/ v \in aliased' \/ v \in merged'
    BY <1>1, <2>1, <2>2, IndexKept
  <2>. QED
    BY <1>1, <2>1, <2>3, ForgetKept DEF IndexedIsConfigured
<1>j. CASE MergeRead(r)
  <2>1. ~ At(r, {"merge"}, "forget")'
    <3>1. CASE Return(r)
      BY <3>1, <1>6 DEF At
    <3>2. ASSUME NEW P, NEW n, NEW pc \in {"purge", "write"},
                 req' = [req EXCEPT ![r].page = P, ![r].next = n, ![r].pc = pc]
          PROVE  req'[r].pc = pc
      BY <3>2, <1>3 DEF Request
    <3>. QED
      BY <1>j, <3>1, <3>2 DEF MergeRead, At
  <2>. QED
    BY <1>j, <2>1, <1>2 DEF MergeRead, At
<1>k. CASE MergeWrite(r)
  <2>1. ~ At(r, {"merge"}, "forget")'
    <3>1. CASE Return(r)
      BY <3>1, <1>6 DEF At
    <3>2. ASSUME NEW n, NEW pc \in {"purge", "read"},
                 req' = [req EXCEPT ![r].page = {}, ![r].from = n, ![r].pc = pc]
          PROVE  req'[r].pc = pc
      BY <3>2, <1>3 DEF Request
    <3>. QED
      BY <1>k, <3>1, <3>2 DEF MergeWrite, At
  <2>. QED
    BY <1>k, <2>1, <1>2 DEF MergeWrite, At
<1>l. CASE MergePurge(r)
  <2>0. "unregister" \in Steps
    BY DEF Steps
  <2>1. req'[r].pc = "unregister"
    <3>1. ASSUME NEW coll, NEW S, NEW pc \in Steps,
                 req' = [Shed(req, r, coll, S) EXCEPT ![r].pc = pc]
          PROVE  req'[r].pc = pc
      <4>1. TypeOK
        BY DEF IndexInv
      <4>. DEFINE F == Shed(req, r, coll, S)
      <4>2. F \in [Requests -> Request]
        BY <4>1, ShedType
      <4>3. req' = [F EXCEPT ![r].pc = pc]
        BY <3>1
      <4>. HIDE DEF F
      <4>. QED
        BY <4>2, <4>3 DEF Request
    <3>. QED
      BY <1>l, <1>5, <2>0, <3>1 DEF MergePurge
  <2>. QED
    BY <1>l, <2>1, <1>2 DEF MergePurge, At
<1>m. CASE MergeUnregister(r)
  <2>1. req'[r].v = req[r].v /\ req[r].v \in merged' /\ cfg' = cfg /\ aliased' = aliased
        /\ merged \subseteq merged'
        /\ ~ (At(r, Fillers, "configure") \/ At(r, {"delete", "archive"}, "remove"))
    BY <1>m, <1>5 DEF MergeUnregister, At, Fillers
  <2>2. ASSUME NEW v \in Vaults PROVE client'[v] # None => client[v] # None
    BY <1>m DEF MergeUnregister, Unregister, IndexInv, TypeOK
  <2>3. ASSUME NEW v \in Vaults
        PROVE  client'[v] # None =>
                   v \in cfg' \/ BetweenMaps(v)' \/ v \in aliased' \/ v \in merged'
    BY <1>1, <2>1, <2>2, IndexKept
  <2>. QED
    BY <1>1, <2>1, <2>3, ForgetKept DEF IndexedIsConfigured
<1>n. CASE MergeForget(r)
  <2>1. req[r].v \in merged
    BY <1>n DEF MergeForget, IndexInv, ForgetsMerged
  <2>2. ~ At(r, {"merge"}, "forget")'
        /\ ~ (At(r, Fillers, "configure") \/ At(r, {"delete", "archive"}, "remove"))
    BY <1>n, <1>6 DEF MergeForget, At, Fillers
  <2>3. ASSUME NEW v \in Vaults, client'[v] # None
        PROVE  v \in cfg' \/ BetweenMaps(v)' \/ v \in aliased' \/ v \in merged'
    <3>1. v \in cfg \/ BetweenMaps(v) \/ v \in aliased \/ v \in merged
      BY <1>n, <2>3 DEF MergeForget, IndexInv, IndexedIsConfigured
    <3>2. ASSUME BetweenMaps(v) PROVE BetweenMaps(v)'
      <4>1. PICK p \in Requests :
                /\ req[p].v = v
                /\ At(p, Fillers, "configure") \/ At(p, {"delete", "archive"}, "remove")
        BY <3>2 DEF BetweenMaps
      <4>2. p # r
        BY <2>2, <4>1
      <4>3. req'[p].v = v
        BY <1>1, <4>1, <4>2 DEF Stay, KeepsAllButBase, KeepsNames
      <4>4. At(p, Fillers, "configure")' \/ At(p, {"delete", "archive"}, "remove")'
        BY <1>1, <4>1, <4>2, StayAt
      <4>. QED
        BY <4>3, <4>4 DEF BetweenMaps
    <3>. QED
      BY <1>n, <2>1, <3>1, <3>2 DEF MergeForget
  <2>4. ForgetsMerged'
    BY <1>n, <1>1, <2>2, ForgetKept DEF MergeForget
  <2>. QED
    BY <2>3, <2>4 DEF IndexedIsConfigured
<1>o. CASE RecallSearch(r)
  <2>1. req'[r].pc = "answered"
    BY <1>o, <1>3 DEF RecallSearch
  <2>. QED
    BY <1>o, <2>1, <1>2 DEF RecallSearch, At
<1>p. CASE RecallReturn(r) \/ FactUpsert(r)
  BY <1>p, <1>2, <1>6 DEF RecallReturn, FactUpsert, At
<1>. QED
  BY <1>a, <1>b, <1>c, <1>d, <1>e, <1>f, <1>g, <1>h, <1>i, <1>j, <1>k, <1>l, <1>m,
     <1>n, <1>o, <1>p, <1>q, <1>r DEF RequestStep, FillStep

LEMMA IndexNext == IndexInv /\ [Next]_vars => IndexInv'
<1>. SUFFICES ASSUME IndexInv, [Next]_vars
              PROVE  IndexedIsConfigured' /\ ForgetsMerged' /\ TypeOK'
  BY DEF IndexInv
<1>1. TypeOK'
  BY TypeNext DEF IndexInv
<1>2. ASSUME NEW r \in Requests, RequestStep(r)
      PROVE  IndexedIsConfigured' /\ ForgetsMerged'
  BY <1>1, <1>2, IndexStep
<1>3. ASSUME NEW r \in Requests, RequestStart(r)
      PROVE  IndexedIsConfigured' /\ ForgetsMerged'
  <2>1. PICK q \in Request : StartsWith(r, q)
    BY <1>3, Starts DEF IndexInv
  <2>2. req[r] = Idle /\ req'[r] = q /\ Stay(r)
    BY <1>3, <2>1, OthersStay DEF StartsWith, Begin, IndexInv, TypeOK
  <2>3. q.pc # "forget"
    <3>0. ASSUME NEW op, NEW v, NEW pc, Begin(r, Fresh(op, v, pc)) PROVE q.pc = pc
      BY <3>0, <2>2 DEF Begin, Fresh, Idle, IndexInv, TypeOK
    <3>1. ASSUME NEW op, NEW v, NEW pc, NEW x, Begin(r, [Fresh(op, v, pc) EXCEPT !.src = x])
          PROVE  q.pc = pc
      BY <3>1, <2>2 DEF Begin, Fresh, Idle, IndexInv, TypeOK
    <3>2. ASSUME NEW v, NEW w, MergeFrom(r, v, w) PROVE q.pc = "into"
      BY <3>2, <2>2 DEF MergeFrom, Begin, Fresh, Idle, IndexInv, TypeOK
    <3>3. ASSUME NEW op, NEW v, NEW may, Resolve(r, op, v, may) PROVE q.pc # "forget"
      BY <3>3, <3>0, <3>1 DEF Resolve
    <3>4. ASSUME NEW op, NEW v, WipeResolve(r, op, v) PROVE q.pc # "forget"
      BY <3>4, <3>0, <3>1 DEF WipeResolve
    <3>5. ASSUME NEW v, CreateCheck(r, v) \/ WithVault(r, "recall", v, "search")
                       \/ WithVault(r, "fact", v, "upsert")
          PROVE  q.pc # "forget"
      BY <3>5, <3>0 DEF CreateCheck, WithVault
    <3>. QED
      BY <1>3, <3>2, <3>3, <3>4, <3>5 DEF RequestStart, handleIngest, handleDocuments,
         handleWebhookGit, doStore
  <2>4. UNCHANGED <<cfg, client, aliased, merged>>
    BY <2>1 DEF StartsWith, registry, ghosts
  <2>5. ASSUME NEW v \in Vaults
        PROVE  client'[v] # None =>
                   v \in cfg' \/ BetweenMaps(v)' \/ v \in aliased' \/ v \in merged'
    <3>1. ~ (At(r, Fillers, "configure") \/ At(r, {"delete", "archive"}, "remove"))
      BY <2>2, IdleType DEF At
    <3>. QED
      BY <1>1, <2>2, <2>4, <3>1, IndexKept
  <2>. QED
    BY <2>2, <2>3, <2>4, <2>5, ForgetKept DEF IndexedIsConfigured, At
<1>4. ASSUME UNCHANGED <<cfg, merged>>, aliased \subseteq aliased',
             \A r \in Requests : KeepsAllButBase(req'[r], req[r]),
             \A v \in Vaults : client'[v] # None => client[v] # None \/ v \in aliased'
      PROVE  IndexedIsConfigured' /\ ForgetsMerged'
  <2>1. ASSUME NEW r \in Requests, NEW ops, NEW pc
        PROVE  (At(r, ops, pc)' <=> At(r, ops, pc)) /\ req'[r].v = req[r].v
    BY <1>4 DEF At, KeepsAllButBase, KeepsNames
  <2>2. ASSUME NEW v \in Vaults PROVE BetweenMaps(v) => BetweenMaps(v)'
    BY <2>1 DEF BetweenMaps
  <2>3. ForgetsMerged'
    BY <1>4, <2>1 DEF IndexInv, ForgetsMerged
  <2>4. ASSUME NEW v \in Vaults, client'[v] # None
        PROVE  v \in cfg' \/ BetweenMaps(v)' \/ v \in aliased' \/ v \in merged'
    BY <1>4, <2>2, <2>4 DEF IndexInv, IndexedIsConfigured
  <2>. QED
    BY <2>3, <2>4 DEF IndexedIsConfigured
<1>5. ASSUME NEW v \in Vaults, EnsureAgentVault(v)
      PROVE  IndexedIsConfigured' /\ ForgetsMerged'
  BY <1>4, <1>5 DEF EnsureAgentVault, KeepsAllButBase, KeepsNames, IndexInv, TypeOK
<1>6. CASE \/ \E v \in Vaults :
                \/ Reindex(v) \/ \E c \in Chunks : Import(v, c)
                \/ \E s \in Sources, S \in SUBSET Chunks : IndexFile(v, s, S)
           \/ UNCHANGED vars
  <2>1. UNCHANGED <<cfg, client, merged, aliased, req>>
    BY <1>6 DEF Reindex, Import, IndexFile, vars, registry, ghosts
  <2>2. \A r \in Requests : KeepsAllButBase(req'[r], req[r])
    BY <2>1 DEF KeepsAllButBase, KeepsNames
  <2>. QED
    BY <1>1, <1>4, <2>1, <2>2
<1>7. ASSUME NEW v \in Vaults, NEW S, ChunksDelete(v, S)
      PROVE  IndexedIsConfigured' /\ ForgetsMerged'
  <2>1. \A r \in Requests : KeepsAllButBase(req'[r], req[r])
    BY <1>7, ShedType DEF ChunksDelete, IndexInv
  <2>. QED
    BY <1>4, <1>7, <2>1 DEF ChunksDelete, registry, ghosts
<1>9. ASSUME NEW v \in Vaults, NEW s \in Sources, UnindexFile(v, s)
      PROVE  IndexedIsConfigured' /\ ForgetsMerged'
  <2>1. \A r \in Requests : KeepsAllButBase(req'[r], req[r])
    BY <1>9, ShedType DEF UnindexFile, IndexInv
  <2>. QED
    BY <1>4, <1>9, <2>1 DEF UnindexFile, ghosts
<1>8. CASE Restart
  <2>1. \A v \in Vaults : client'[v] # None => v \in cfg'
    BY <1>8 DEF Restart, AtBoot
  <2>2. \A r \in Requests : req'[r] = Idle
    BY <1>8 DEF Restart
  <2>. QED
    <3>1. IndexedIsConfigured'
      BY <2>1 DEF IndexedIsConfigured
    <3>2. Idle.pc # "forget"
      BY IdleType
    <3>3. ForgetsMerged'
      BY <2>2, <3>2 DEF ForgetsMerged, At
    <3>. QED
      BY <1>1, <3>1, <3>3
<1>. QED
  BY <1>1, <1>2, <1>3, <1>5, <1>6, <1>7, <1>8, <1>9 DEF Next

(* A vault with an indexer is in the configuration, so requests addressed   *)
(* to it are not refused (server.go, withVault), except between the two     *)
(* removals of a delete, for an agent's vault and after a merge.            *)
THEOREM RegisteredIsConfigured == Spec => []IndexedIsConfigured
<1>1. Init => IndexInv
  <2>1. ASSUME Init PROVE \A v \in Vaults : client[v] # None => v \in cfg
    BY <2>1 DEF Init, AtBoot
  <2>2. ASSUME Init PROVE \A r \in Requests : req[r].pc = "idle"
    BY <2>2, IdleType DEF Init
  <2>. QED
    BY <2>1, <2>2, TypeInit DEF IndexInv, IndexedIsConfigured, ForgetsMerged, At
<1>2. IndexInv => IndexedIsConfigured
  BY DEF IndexInv
<1>. QED
  BY <1>1, <1>2, IndexNext, PTL DEF Spec

(***************************************************************************)
(* What a merge owes.  While it reads and writes, every chunk its source   *)
(* held at the start is still there, unless somebody deleted it, and the   *)
(* ones before the offset have been copied.                                *)
(***************************************************************************)
Held(ch, coll) == {c \in Chunks : ch[coll][c] # "absent"}

MergeOK(q, ch) ==
    q.op = "merge" =>
        /\ q.src \in Vaults /\ (q.dst \in Vaults \/ q.pc = "into")
        /\ q.pc = "read" =>
             /\ q.base \subseteq Held(ch, q.src)
             /\ \A c \in q.base : c < q.from => c \in Held(ch, q.dst)
        /\ q.pc = "write" =>
             /\ q.base \subseteq Held(ch, q.src)
             /\ \A c \in q.base : q.next = 0 \/ c < q.next =>
                    c \in Held(ch, q.dst) \/ c \in q.page
        /\ q.pc = "purge" => q.base \subseteq Held(ch, q.dst)
        /\ q.pc = "into" => q.from = 0

MergeInv == TypeOK /\ \A r \in Requests : MergeOK(req[r], chunks)

(* A merge that does not move owes no more than before, provided that what  *)
(* it still owes has not left its source or its destination.                *)
LEMMA MergeKept ==
    ASSUME NEW q \in Request, NEW q1 \in Request, NEW ch, NEW ch1,
           KeepsAllButBase(q1, q), q1.base \subseteq q.base, MergeOK(q, ch),
           q.pc # "into" =>
              \A coll \in {q.src, q.dst}, c \in q1.base :
                 c \in Held(ch, coll) => c \in Held(ch1, coll)
    PROVE  MergeOK(q1, ch1)
BY DEF MergeOK, KeepsAllButBase, KeepsNames

(* Nothing leaves the collections, or what leaves is shed by the merges.    *)
LEMMA MergesStay ==
    ASSUME MergeInv, TypeOK', NEW r, NEW coll, NEW S \in SUBSET Chunks,
           \A v \in Vaults, c \in Chunks :
                c \in Held(chunks, v) => c \in Held(chunks', v) \/ (v = coll /\ c \in S),
           \A p \in Requests \ {r} : req'[p] = Shed(req, r, coll, S)[p]
    PROVE  \A p \in Requests \ {r} : MergeOK(req'[p], chunks')
<1>. SUFFICES ASSUME NEW p \in Requests \ {r} PROVE MergeOK(req'[p], chunks')
  OBVIOUS
<1>1. TypeOK /\ req[p] \in Request /\ req'[p] \in Request /\ MergeOK(req[p], chunks)
  BY DEF MergeInv, TypeOK
<1>2. /\ KeepsAllButBase(req'[p], req[p])
      /\ req'[p].base = IF req[p].op = "merge" /\ coll \in {req[p].src, req[p].dst}
                        THEN req[p].base \ S ELSE req[p].base
  <2>1. req'[p] = Shed(req, r, coll, S)[p] /\ p # r /\ p \in Requests
    OBVIOUS
  <2>2. /\ KeepsAllButBase(Shed(req, r, coll, S)[p], req[p])
        /\ Shed(req, r, coll, S)[p].base =
             IF p # r /\ req[p].op = "merge" /\ coll \in {req[p].src, req[p].dst}
             THEN req[p].base \ S ELSE req[p].base
    BY <1>1, <2>1, ShedType
  <2>. QED
    BY <2>1, <2>2
<1>3. CASE req[p].op # "merge"
  BY <1>2, <1>3 DEF MergeOK, KeepsAllButBase, KeepsNames
<1>5. CASE req[p].op = "merge" /\ req[p].pc = "into"
  <2>1. req'[p].base \subseteq req[p].base
    BY <1>2
  <2>. QED
    BY <1>1, <1>2, <1>5, <2>1, MergeKept
<1>4. CASE req[p].op = "merge" /\ req[p].pc # "into"
  <2>1. req[p].src \in Vaults /\ req[p].dst \in Vaults
    BY <1>1, <1>4 DEF MergeOK
  <2>2. req[p].base \subseteq Chunks
    BY <1>1 DEF Request
  <2>3. req'[p].base \subseteq req[p].base
    BY <1>2
  <2>4. ASSUME NEW w \in {req[p].src, req[p].dst}, NEW c \in req'[p].base,
               c \in Held(chunks, w)
        PROVE  c \in Held(chunks', w)
    BY <1>2, <1>4, <2>1, <2>2, <2>3, <2>4
  <2>. QED
    BY <1>1, <1>2, <2>3, <2>4, MergeKept
<1>. QED
  BY <1>3, <1>4, <1>5

(* A step that adds to the collections, or leaves them alone. *)
LEMMA MergesGrow ==
    ASSUME MergeInv, TypeOK', NEW r,
           \A v \in Vaults, c \in Chunks : c \in Held(chunks, v) => c \in Held(chunks', v),
           \A p \in Requests \ {r} : req'[p] = req[p]
    PROVE  \A p \in Requests \ {r} : MergeOK(req'[p], chunks')
<1>. SUFFICES ASSUME NEW p \in Requests \ {r} PROVE MergeOK(req'[p], chunks')
  OBVIOUS
<1>1. req[p] \in Request /\ req'[p] \in Request /\ MergeOK(req[p], chunks)
  BY DEF MergeInv, TypeOK
<1>2. CASE req[p].op # "merge"
  BY <1>2 DEF MergeOK
<1>3. CASE req[p].op = "merge"
  <2>1. req[p].pc # "into" => /\ req[p].src \in Vaults /\ req[p].dst \in Vaults
                              /\ req[p].base \subseteq Chunks
    BY <1>1, <1>3 DEF MergeOK, Request
  <2>. QED
    BY <1>1, <2>1, MergeKept DEF KeepsAllButBase, KeepsNames
<1>. QED
  BY <1>2, <1>3

(* The page a merge reads takes it to the next offset. *)
LEMMA MergePage ==
    ASSUME MergeInv, NEW r \in Requests, At(r, {"merge"}, "read"),
           NEW P \in SUBSET Chunks, NEW n \in Chunks \cup {0},
           Scroll(Present(req[r].src), req[r].from, P, n)
    PROVE  \A c \in req[r].base :
             /\ c \in Present(req[r].src)
             /\ n = 0 \/ c < n => c \in Present(req[r].dst) \/ c \in P
             /\ P = {} => c \in Present(req[r].dst)
<1>. DEFINE rest == {c \in Present(req[r].src) : c >= req[r].from}
<1>1. /\ req[r].from \in Nat /\ req[r].base \subseteq Chunks
      /\ req[r].base \subseteq Present(req[r].src)
      /\ \A c \in req[r].base : c < req[r].from => c \in Present(req[r].dst)
  BY DEF MergeInv, MergeOK, At, Held, Present, TypeOK, Request
<1>2. /\ P \subseteq rest /\ (P = rest \/ Cardinality(P) = PageSize)
      /\ IF P = rest THEN n = 0 ELSE n \in rest \ P /\ \A d \in rest \ P : n <= d
  BY DEF Scroll
<1>3. P = {} => P = rest
  <2>1. Cardinality({}) = 0 /\ PageSize # 0
    BY FS_EmptySet
  <2>. QED
    BY <1>2, <2>1
<1>4. Chunks \subseteq Nat /\ \A c \in Chunks : c # 0
  OBVIOUS
<1>5. ASSUME NEW c \in req[r].base
      PROVE  c \in Nat /\ (c < req[r].from \/ c \in rest)
  <2>1. c \in Present(req[r].src) /\ c \in Nat
    BY <1>1, <1>4
  <2>2. c >= req[r].from \/ c < req[r].from
    BY <1>1, <2>1
  <2>. QED
    BY <2>1, <2>2
<1>6. ASSUME NEW c \in req[r].base, n = 0 \/ c < n, c \in rest PROVE c \in P
  <2>1. CASE P = rest
    BY <1>6, <2>1
  <2>2. CASE P # rest
    <3>1. n \in rest \ P /\ \A d \in rest \ P : n <= d
      BY <1>2, <2>2
    <3>2. rest \subseteq Chunks
      BY DEF Present
    <3>. HIDE DEF rest
    <3>3. n \in Nat /\ n # 0 /\ c \in Nat
      BY <1>4, <1>5, <3>1, <3>2
    <3>. QED
      BY <1>6, <3>1, <3>3
  <2>. QED
    BY <2>1, <2>2
<1>. QED
  BY <1>1, <1>3, <1>5, <1>6

(* What a store call does to what the collections hold. *)
LEMMA StoreHeld ==
    ASSUME TypeOK, NEW coll, NEW S, NEW form \in {"absent", "whole", "bare"},
           Store(coll, S, form)
    PROVE  /\ form # "absent" =>
                \A v \in Vaults, c \in Chunks :
                    (c \in Held(chunks, v) \/ (v = coll /\ c \in S)) => c \in Held(chunks', v)
           /\ \A v \in Vaults, c \in Chunks :
                c \in Held(chunks, v) => c \in Held(chunks', v) \/ (v = coll /\ c \in S)
<1>1. \A v \in Vaults, c \in Chunks :
        chunks'[v][c] = IF v = coll /\ c \in S THEN form ELSE chunks[v][c]
  BY StoreType
<1>. QED
  BY <1>1 DEF Held

LEMMA MergeStep ==
    ASSUME MergeInv, NEW r \in Requests, RequestStep(r), TypeOK'
    PROVE  \A p \in Requests : MergeOK(req'[p], chunks')
<1>. USE DEF registry, stored, ghosts, Running
<1>0. TypeOK /\ req[r] \in Request /\ DOMAIN req = Requests /\ MergeOK(req[r], chunks)
  BY DEF MergeInv, TypeOK
<1>. DEFINE Grows == \A v \in Vaults, c \in Chunks :
                        c \in Held(chunks, v) => c \in Held(chunks', v)
<1>1. ASSUME UNCHANGED chunks PROVE Grows
  BY <1>1
<1>2. ASSUME Grows, NEW x, req' = [req EXCEPT ![r] = x], MergeOK(x, chunks')
      PROVE  \A p \in Requests : MergeOK(req'[p], chunks')
  <2>1. req'[r] = x /\ \A p \in Requests \ {r} : req'[p] = req[p]
    BY <1>0, <1>2
  <2>2. \A p \in Requests \ {r} : MergeOK(req'[p], chunks')
    BY <1>2, <2>1, MergesGrow
  <2>. QED
    BY <1>2, <2>1, <2>2
<1>3. ASSUME Grows, Return(r) PROVE \A p \in Requests : MergeOK(req'[p], chunks')
  <2>1. MergeOK(Idle, chunks')
    BY IdleType DEF MergeOK
  <2>. QED
    BY <1>2, <1>3, <2>1 DEF Return
<1>4. ASSUME Grows, NEW pc, Goto(r, pc),
             req[r].op # "merge" \/ pc \in {"unregister", "forget"}, req[r].op = "merge" =>
                req[r].src \in Vaults /\ req[r].dst \in Vaults
      PROVE  \A p \in Requests : MergeOK(req'[p], chunks')
  <2>. DEFINE x == [req[r] EXCEPT !.pc = pc]
  <2>1. MergeOK(x, chunks')
    BY <1>0, <1>4 DEF MergeOK, Request
  <2>2. req' = [req EXCEPT ![r] = x]
    BY <1>0, <1>4 DEF Goto
  <2>. HIDE DEF x
  <2>. QED
    BY <1>2, <1>4, <2>1, <2>2
<1>5. ASSUME NEW coll, NEW S \in SUBSET Chunks, Store(coll, S, "absent"),
             NEW pc, Sheds(r, coll, S, pc), MergeOK(req'[r], chunks')
      PROVE  \A p \in Requests : MergeOK(req'[p], chunks')
  <2>1. \A p \in Requests \ {r} : req'[p] = Shed(req, r, coll, S)[p]
    BY <1>5 DEF Sheds
  <2>2. \A v \in Vaults, c \in Chunks :
           c \in Held(chunks, v) => c \in Held(chunks', v) \/ (v = coll /\ c \in S)
    BY <1>0, <1>5, StoreHeld
  <2>3. \A p \in Requests \ {r} : MergeOK(req'[p], chunks')
    BY <2>1, <2>2, MergesStay
  <2>. QED
    BY <1>5, <2>3
<1>6. ASSUME NEW coll, NEW S \in SUBSET Chunks, Store(coll, S, "absent"),
             NEW pc \in {"facts", "unregister"},
             req[r].op = "merge" => req[r].dst \in Vaults,
             req' = [Shed(req, r, coll, S) EXCEPT ![r].pc = pc]
      PROVE  \A p \in Requests : MergeOK(req'[p], chunks')
  <2>1. pc \in Steps
    BY DEF Steps
  <2>2. Sheds(r, coll, S, pc)
    BY <1>0, <1>6, <2>1, ShedGotoType
  <2>3. MergeOK(req'[r], chunks')
    BY <1>0, <1>6, <2>2 DEF Sheds, MergeOK, KeepsHome, KeepsNames
  <2>. QED
    BY <1>5, <1>6, <2>2, <2>3
<1>a. CASE \/ MakeDirectory(r) \/ CreateRegister(r) \/ RemoveDirectory(r)
           \/ ProvisionOpen(r) \/ ProvisionAdd(r)
           \/ WipeFacts(r) \/ Unconfigure(r) \/ Remove(r)
           \/ RecallReturn(r) \/ FactUpsert(r)
  <2>1. req[r].op # "merge" /\ UNCHANGED chunks
    BY <1>a DEF MakeDirectory, CreateRegister, RemoveDirectory, ProvisionOpen,
       ProvisionAdd, WipeFacts, Unconfigure, Remove, RecallReturn, FactUpsert, At, Fillers
  <2>2. Return(r) \/ \E pc : Goto(r, pc)
    BY <1>a DEF MakeDirectory, CreateRegister, RemoveDirectory, ProvisionOpen,
       ProvisionAdd, WipeFacts, Unconfigure, Remove, RecallReturn, FactUpsert
  <2>. QED
    BY <1>1, <1>3, <1>4, <2>1, <2>2
<1>b. CASE ProvisionConfigure(r) \/ RecallSearch(r)
  <2>1. req[r].op # "merge" /\ UNCHANGED chunks
    BY <1>b DEF ProvisionConfigure, RecallSearch, At, Fillers
  <2>2. PICK pc, v : req' = [req EXCEPT ![r].pc = pc, ![r].src = v]
                  \/ req' = [req EXCEPT ![r].src = v, ![r].pc = pc]
    BY <1>b DEF ProvisionConfigure, RecallSearch
  <2>3. req'[r].op # "merge" /\ req' = [req EXCEPT ![r] = req'[r]]
    BY <1>0, <2>1, <2>2 DEF Request, TypeOK
  <2>. QED
    BY <1>1, <1>2, <2>1, <2>3 DEF MergeOK
<1>c. CASE FillStep(r)
  <2>1. PICK q : Filling(q) /\ req' = [req EXCEPT ![r] = q]
    BY <1>0, <1>c, FillType
  <2>2. MergeOK(q, chunks')
    BY <2>1 DEF Filling, Fillers, MergeOK
  <2>3. Grows
    <3>1. ASSUME NEW S \in SUBSET Chunks, IngestBatch(r, S) PROVE Grows
      BY <1>0, <3>1, StoreHeld DEF IngestBatch
    <3>. QED
      BY <1>1, <1>c, <3>1 DEF FillStep, DocumentLookup, IngestStops
  <2>. QED
    BY <1>2, <2>1, <2>2, <2>3
<1>i. ASSUME NEW s \in Sources, NEW S \in SUBSET Chunks, IngestReplace(r, s, S)
      PROVE  \A p \in Requests : MergeOK(req'[p], chunks')
  <2>1. PICK old \in SUBSET Chunks : /\ Store(req[r].src, old, "absent")
                                     /\ Sheds(r, req[r].src, old, "batch")
    BY <1>0, <1>i, ReplaceType
  <2>2. MergeOK(req'[r], chunks')
    BY <1>0, <1>i, <2>1, ReplaceType DEF Sheds, MergeOK, KeepsHome, KeepsNames, Fillers
  <2>. QED
    BY <1>5, <2>1, <2>2
<1>d. CASE WipeChunks(r)
  <2>1. req[r].op # "merge"
    BY <1>d DEF WipeChunks, At
  <2>. QED
    BY <1>d, <1>1, <1>3, <1>4, <1>6, <2>1 DEF WipeChunks
<1>j. CASE MergeInto(r)
  <2>1. UNCHANGED chunks /\ At(r, {"merge"}, "into")
    BY <1>j DEF MergeInto
  <2>2. CASE /\ client[req[r].w] # None
             /\ req' = [req EXCEPT ![r].dst = client[req[r].w],
                                   ![r].base = Present(req[r].src), ![r].pc = "read"]
    <3>. DEFINE x == [req[r] EXCEPT !.dst = client[req[r].w],
                                    !.base = Present(req[r].src), !.pc = "read"]
    <3>1. req[r].src \in Vaults /\ client[req[r].w] \in Vaults /\ req[r].from = 0
      BY <1>0, <2>1, <2>2 DEF MergeOK, At, TypeOK, Names
    <3>2. /\ x.op = "merge" /\ x.src = req[r].src /\ x.dst = client[req[r].w]
          /\ x.base = Present(req[r].src) /\ x.from = req[r].from /\ x.pc = "read"
      BY <1>0, <2>1 DEF Request, At
    <3>3. req' = [req EXCEPT ![r] = x]
      BY <1>0, <2>2 DEF TypeOK
    <3>4. \A c \in Present(req[r].src) : ~ (c < 0)
      BY DEF Present
    <3>. HIDE DEF x
    <3>5. MergeOK(x, chunks)
      BY <3>1, <3>2, <3>4 DEF MergeOK, Held, Present
    <3>. QED
      BY <1>1, <1>2, <2>1, <3>3, <3>5
  <2>. QED
    BY <1>j, <1>1, <1>3, <2>1, <2>2 DEF MergeInto
<1>e. CASE MergeRead(r)
  <2>1. UNCHANGED chunks /\ At(r, {"merge"}, "read")
    BY <1>e DEF MergeRead
  <2>2. ASSUME NEW P \in SUBSET Chunks, NEW n \in Chunks \cup {0},
               Scroll(Present(req[r].src), req[r].from, P, n),
               req' = [req EXCEPT ![r].page = P, ![r].next = n,
                                  ![r].pc = IF P = {} THEN "purge" ELSE "write"]
        PROVE  \A p \in Requests : MergeOK(req'[p], chunks')
    <3>. DEFINE x == [req[r] EXCEPT !.page = P, !.next = n,
                                    !.pc = IF P = {} THEN "purge" ELSE "write"]
    <3>1. \A c \in req[r].base :
             /\ c \in Present(req[r].src)
             /\ n = 0 \/ c < n => c \in Present(req[r].dst) \/ c \in P
             /\ P = {} => c \in Present(req[r].dst)
      BY <2>1, <2>2, MergePage
    <3>2. /\ x.op = "merge" /\ x.src = req[r].src /\ x.dst = req[r].dst
          /\ x.base = req[r].base /\ x.page = P /\ x.next = n
          /\ x.pc = IF P = {} THEN "purge" ELSE "write"
      BY <1>0, <2>1 DEF Request, At
    <3>3. req[r].src \in Vaults /\ req[r].dst \in Vaults
      BY <1>0, <2>1 DEF MergeOK, At
    <3>4. req' = [req EXCEPT ![r] = x]
      BY <1>0, <2>2 DEF TypeOK
    <3>. HIDE DEF x
    <3>5. MergeOK(x, chunks)
      BY <3>1, <3>2, <3>3 DEF MergeOK, Held, Present
    <3>. QED
      BY <1>1, <1>2, <2>1, <3>4, <3>5
  <2>. QED
    BY <1>e, <1>1, <1>3, <2>1, <2>2 DEF MergeRead
<1>f. CASE MergeWrite(r)
  <2>1. At(r, {"merge"}, "write")
    BY <1>f DEF MergeWrite
  <2>2. ASSUME Store(req[r].dst, req[r].page, "bare"),
               req' = [req EXCEPT ![r].page = {}, ![r].from = req[r].next,
                                  ![r].pc = IF req[r].next = 0 THEN "purge" ELSE "read"]
        PROVE  \A p \in Requests : MergeOK(req'[p], chunks')
    <3>. DEFINE x == [req[r] EXCEPT !.page = {}, !.from = req[r].next,
                                    !.pc = IF req[r].next = 0 THEN "purge" ELSE "read"]
    <3>1. /\ \A v \in Vaults, c \in Chunks :
                (c \in Held(chunks, v) \/ (v = req[r].dst /\ c \in req[r].page))
                    => c \in Held(chunks', v)
      BY <1>0, <2>2, StoreHeld
    <3>2. /\ x.op = "merge" /\ x.src = req[r].src /\ x.dst = req[r].dst
          /\ x.base = req[r].base /\ x.from = req[r].next
          /\ x.pc = IF req[r].next = 0 THEN "purge" ELSE "read"
      BY <1>0, <2>1 DEF Request, At
    <3>3. /\ req[r].src \in Vaults /\ req[r].dst \in Vaults /\ req[r].base \subseteq Chunks
          /\ req[r].base \subseteq Held(chunks, req[r].src)
          /\ \A c \in req[r].base : req[r].next = 0 \/ c < req[r].next =>
                    c \in Held(chunks, req[r].dst) \/ c \in req[r].page
      BY <1>0, <2>1 DEF MergeOK, At, Request
    <3>4. req' = [req EXCEPT ![r] = x]
      BY <1>0, <2>2 DEF TypeOK
    <3>. HIDE DEF x
    <3>5. MergeOK(x, chunks')
      BY <3>1, <3>2, <3>3 DEF MergeOK
    <3>6. Grows
      BY <3>1
    <3>. QED
      BY <1>2, <3>4, <3>5, <3>6
  <2>. QED
    BY <1>f, <1>1, <1>3, <2>2 DEF MergeWrite
<1>g. CASE MergePurge(r)
  <2>1. req[r].op = "merge" /\ req[r].src \in Vaults /\ req[r].dst \in Vaults
    BY <1>0, <1>g DEF MergePurge, At, MergeOK
  <2>. QED
    BY <1>g, <1>1, <1>4, <1>6, <2>1 DEF MergePurge
<1>h. CASE MergeUnregister(r) \/ MergeForget(r)
  <2>1. req[r].op = "merge" /\ req[r].src \in Vaults /\ req[r].dst \in Vaults
    BY <1>0, <1>h DEF MergeUnregister, MergeForget, At, MergeOK
  <2>2. UNCHANGED chunks /\ (Return(r) \/ Goto(r, "forget"))
    BY <1>h DEF MergeUnregister, MergeForget
  <2>. QED
    BY <1>1, <1>3, <1>4, <2>1, <2>2
<1>. QED
  BY <1>a, <1>b, <1>c, <1>d, <1>e, <1>f, <1>g, <1>h, <1>i, <1>j
     DEF RequestStep, FillStep

LEMMA MergeNext == MergeInv /\ [Next]_vars => MergeInv'
<1>. SUFFICES ASSUME MergeInv, [Next]_vars
              PROVE  TypeOK' /\ \A p \in Requests : MergeOK(req'[p], chunks')
  BY DEF MergeInv
<1>0. TypeOK /\ TypeOK'
  BY TypeNext DEF MergeInv
<1>1. ASSUME NEW r \in Requests, RequestStep(r)
      PROVE  \A p \in Requests : MergeOK(req'[p], chunks')
  BY <1>0, <1>1, MergeStep
<1>2. ASSUME NEW r \in Requests, RequestStart(r)
      PROVE  \A p \in Requests : MergeOK(req'[p], chunks')
  <2>1. PICK q \in Request : StartsWith(r, q)
    BY <1>0, <1>2, Starts
  <2>2. /\ req'[r] = q /\ UNCHANGED chunks /\ req[r] = Idle
        /\ \A p \in Requests \ {r} : req'[p] = req[p]
    BY <1>0, <2>1, BeginType DEF StartsWith, stored, Begin
  <2>3. \A p \in Requests \ {r} : MergeOK(req'[p], chunks')
    BY <2>2 DEF MergeInv
  <2>4. ASSUME NEW op \in Ops, NEW v, NEW pc, Begin(r, Fresh(op, v, pc)), op # "merge"
        PROVE  MergeOK(q, chunks')
    BY <1>0, <2>2, <2>4 DEF Begin, Fresh, Idle, TypeOK, MergeOK
  <2>5. ASSUME NEW op \in Ops, NEW v, NEW pc, NEW x, op # "merge",
               Begin(r, [Fresh(op, v, pc) EXCEPT !.src = x])
        PROVE  MergeOK(q, chunks')
    BY <1>0, <2>2, <2>5 DEF Begin, Fresh, Idle, TypeOK, MergeOK
  <2>6. ASSUME NEW v \in Vaults, NEW w \in Vaults, MergeFrom(r, v, w)
        PROVE  MergeOK(q, chunks')
    <3>1. q.pc = "into" /\ q.src = client[v] /\ q.from = 0
      BY <1>0, <2>2, <2>6 DEF MergeFrom, Begin, Fresh, Idle, TypeOK
    <3>2. client[v] \in Vaults
      BY <1>0, <2>6 DEF MergeFrom, TypeOK
    <3>. QED
      BY <3>1, <3>2 DEF MergeOK
  <2>7. ASSUME NEW op \in Fillers, NEW v, NEW may, Resolve(r, op, v, may)
        PROVE  MergeOK(q, chunks')
    <3>1. op \in Ops /\ op # "merge"
      BY DEF Fillers, Ops
    <3>. QED
      BY <3>1, <2>4, <2>5, <2>7 DEF Resolve
  <2>8. ASSUME NEW op \in {"clear", "delete", "archive"}, NEW v, WipeResolve(r, op, v)
        PROVE  MergeOK(q, chunks')
    <3>1. op \in Ops /\ op # "merge"
      BY DEF Ops
    <3>. QED
      BY <3>1, <2>4, <2>5, <2>8 DEF WipeResolve
  <2>9. ASSUME NEW v, CreateCheck(r, v) \/ WithVault(r, "recall", v, "search")
                      \/ WithVault(r, "fact", v, "upsert")
        PROVE  MergeOK(q, chunks')
    <3>1. {"create", "recall", "fact"} \subseteq Ops
      BY DEF Ops
    <3>. QED
      BY <3>1, <2>4, <2>9 DEF CreateCheck, WithVault
  <2>10. MergeOK(q, chunks')
    BY <1>2, <2>6, <2>7, <2>8, <2>9 DEF RequestStart, handleIngest, handleDocuments,
       handleWebhookGit, doStore, Fillers
  <2>. QED
    BY <2>2, <2>3, <2>10
<1>3. ASSUME UNCHANGED req,
             \A v \in Vaults, c \in Chunks : c \in Held(chunks, v) => c \in Held(chunks', v)
      PROVE  \A p \in Requests : MergeOK(req'[p], chunks')
  <2>. SUFFICES ASSUME NEW p \in Requests PROVE MergeOK(req'[p], chunks')
    OBVIOUS
  <2>1. p # None /\ \A q \in Requests \ {None} : req'[q] = req[q]
    BY <1>3
  <2>. QED
    BY <1>0, <1>3, <2>1, MergesGrow
<1>4. CASE \E v \in Vaults : EnsureAgentVault(v) \/ Reindex(v)
  BY <1>0, <1>3, <1>4 DEF EnsureAgentVault, Reindex, stored
<1>5. ASSUME NEW v \in Vaults,
             \/ \E c \in Chunks : Import(v, c)
             \/ \E s \in Sources, S \in SUBSET Chunks : IndexFile(v, s, S)
      PROVE  \A p \in Requests : MergeOK(req'[p], chunks')
  BY <1>0, <1>3, <1>5, StoreHeld DEF Import, IndexFile
<1>9. ASSUME NEW v \in Vaults, NEW s \in Sources, UnindexFile(v, s)
      PROVE  \A p \in Requests : MergeOK(req'[p], chunks')
  <2>0. OfSource(s) \in SUBSET Chunks
    BY DEF OfSource
  <2>1. \A p \in Requests \ {None} : req'[p] = Shed(req, None, v, OfSource(s))[p]
    BY <1>9 DEF UnindexFile
  <2>2. \A w \in Vaults, c \in Chunks :
           c \in Held(chunks, w) => c \in Held(chunks', w) \/ (w = v /\ c \in OfSource(s))
    BY <1>0, <1>9, StoreHeld DEF UnindexFile
  <2>3. \A p \in Requests \ {None} : MergeOK(req'[p], chunks')
    BY <1>0, <2>0, <2>1, <2>2, MergesStay
  <2>. QED
    BY <2>3
<1>6. ASSUME NEW v \in Vaults, NEW S \in SUBSET Chunks, ChunksDelete(v, S)
      PROVE  \A p \in Requests : MergeOK(req'[p], chunks')
  <2>1. \A p \in Requests \ {None} : req'[p] = Shed(req, None, client[v], S)[p]
    BY <1>6 DEF ChunksDelete
  <2>2. \A w \in Vaults, c \in Chunks :
           c \in Held(chunks, w) => c \in Held(chunks', w) \/ (w = client[v] /\ c \in S)
    BY <1>0, <1>6, StoreHeld DEF ChunksDelete
  <2>3. \A p \in Requests \ {None} : MergeOK(req'[p], chunks')
    BY <1>0, <2>1, <2>2, MergesStay
  <2>. QED
    BY <2>3
<1>10. \A s \in Sources : OfSource(s) \in SUBSET Chunks
  BY DEF OfSource
<1>7. CASE Restart
  <2>1. \A p \in Requests : req'[p] = Idle
    BY <1>7 DEF Restart
  <2>. QED
    BY <1>0, <2>1, IdleType DEF MergeOK
<1>8. CASE UNCHANGED vars
  BY <1>0, <1>3, <1>8 DEF vars, stored
<1>. QED
  BY <1>0, <1>1, <1>2, <1>4, <1>5, <1>6, <1>7, <1>8, <1>9, <1>10 DEF Next

(* A merge empties its source only when every chunk the source held at the  *)
(* start is in the destination, those excepted that were removed from       *)
(* either meanwhile, by a request to delete, clear or merge or because      *)
(* their source was ingested or indexed anew (server.go, the paging of      *)
(* handleVaultMerge).                                                       *)
THEOREM MergeCopiesBeforePurge == Spec => []MergeCopiesFirst
<1>1. Init => MergeInv
  <2>1. ASSUME Init PROVE \A r \in Requests : MergeOK(req[r], chunks)
    BY <2>1, IdleType DEF Init, MergeOK
  <2>. QED
    BY <2>1, TypeInit DEF MergeInv
<1>2. MergeInv => MergeCopiesFirst
  BY DEF MergeInv, MergeOK, MergeCopiesFirst, Held, Present, At
<1>. QED
  BY <1>1, <1>2, MergeNext, PTL DEF Spec

(***************************************************************************)
(* What is deleted belongs to the vault that was named.                    *)
(***************************************************************************)
HomeInv ==
    /\ TypeOK
    /\ \A v \in Vaults : client[v] \in {None, v} \/ v \in aliased
    /\ RemovalsStayHome

LEMMA HomeNext == HomeInv /\ [Next]_vars => HomeInv'
<1>. SUFFICES ASSUME HomeInv, [Next]_vars
              PROVE  TypeOK' /\ (\A v \in Vaults : client'[v] \in {None, v} \/ v \in aliased')
                     /\ RemovalsStayHome'
  BY DEF HomeInv
<1>. USE DEF registry, stored, ghosts, Running
<1>0. TypeOK /\ TypeOK'
  BY TypeNext DEF HomeInv
<1>1. \A v \in Vaults : client'[v] \in {None, v} \/ v \in aliased'
  <2>1. ASSUME UNCHANGED <<client, aliased>>
        PROVE  \A v \in Vaults : client'[v] \in {None, v} \/ v \in aliased'
    BY <2>1 DEF HomeInv
  <2>2. ASSUME NEW v \in Vaults, NEW x \in {None, v}, aliased \subseteq aliased',
               client' = [client EXCEPT ![v] = x]
        PROVE  \A w \in Vaults : client'[w] \in {None, w} \/ w \in aliased'
    BY <1>0, <2>2 DEF HomeInv, TypeOK
  <2>3. ASSUME NEW v \in Vaults, EnsureAgentVault(v)
        PROVE  \A w \in Vaults : client'[w] \in {None, w} \/ w \in aliased'
    <3>1. client' = [client EXCEPT ![v] = qdrantFor(v)] /\ aliased' = aliased \cup {v}
      BY <2>3 DEF EnsureAgentVault
    <3>. QED
      BY <1>0, <3>1 DEF HomeInv, TypeOK
  <2>4. ASSUME NEW r \in Requests, RequestStart(r)
        PROVE  UNCHANGED <<client, aliased>>
    BY <1>0, <2>4, Starts DEF StartsWith
  <2>5. ASSUME NEW r \in Requests, ProvisionAdd(r) \/ Remove(r) \/ MergeUnregister(r)
        PROVE  \A w \in Vaults : client'[w] \in {None, w} \/ w \in aliased'
    <3>1. req[r].v \in Vaults
      BY <1>0, <2>5 DEF ProvisionAdd, Remove, MergeUnregister, At, TypeOK, Names, Fillers
    <3>. QED
      BY <2>1, <2>2, <2>5, <3>1 DEF ProvisionAdd, Remove, MergeUnregister, Unregister
  <2>6. ASSUME NEW r \in Requests, RequestStep(r),
               ~ (ProvisionAdd(r) \/ Remove(r) \/ MergeUnregister(r))
        PROVE  UNCHANGED <<client, aliased>>
    BY <2>6 DEF RequestStep, MakeDirectory, CreateRegister, RemoveDirectory, ProvisionOpen,
       ProvisionConfigure, DocumentLookup, IngestReplace, IngestBatch, IngestStops,
       WipeChunks, WipeFacts, Unconfigure, MergeInto, MergeRead, MergeWrite, MergePurge,
       MergeForget, RecallSearch, RecallReturn, FactUpsert
  <2>7. CASE \/ \E v \in Vaults :
                  \/ Reindex(v) \/ \E c \in Chunks : Import(v, c)
                  \/ \E s \in Sources : \/ UnindexFile(v, s) \/ ChunksDelete(v, OfSource(s))
                                        \/ \E S \in SUBSET Chunks : IndexFile(v, s, S)
                  \/ ChunksDelete(v, Chunks)
             \/ UNCHANGED vars
    BY <2>1, <2>7 DEF Reindex, Import, UnindexFile, IndexFile, ChunksDelete, vars
  <2>8. CASE Restart
    BY <2>8 DEF Restart, AtBoot
  <2>. QED
    BY <2>1, <2>3, <2>4, <2>5, <2>6, <2>7, <2>8 DEF Next
<1>. DEFINE Home(q) == q.op \in {"clear", "delete", "merge"} =>
                            q.src = q.v \/ q.v \in aliased
<1>2. aliased \subseteq aliased'
  <2>1. ASSUME NEW r \in Requests, RequestStart(r) PROVE aliased' = aliased
    BY <1>0, <2>1, Starts DEF StartsWith
  <2>2. ASSUME NEW r \in Requests, RequestStep(r) PROVE aliased' = aliased
    BY <2>2 DEF RequestStep, MakeDirectory, CreateRegister, RemoveDirectory, ProvisionOpen,
       ProvisionAdd, ProvisionConfigure, DocumentLookup, IngestReplace, IngestBatch,
       IngestStops, WipeChunks, WipeFacts, Unconfigure, Remove, MergeInto, MergeRead,
       MergeWrite, MergePurge, MergeUnregister, MergeForget, RecallSearch, RecallReturn,
       FactUpsert
  <2>. QED
    BY <2>1, <2>2 DEF Next, EnsureAgentVault, Reindex, Import, UnindexFile, IndexFile,
       ChunksDelete, Restart, vars
<1>3. ASSUME \A r \in Requests : Home(req'[r]) PROVE RemovalsStayHome'
  BY <1>2, <1>3 DEF RemovalsStayHome
<1>4. \A r \in Requests : Home(req[r])
  BY DEF HomeInv, RemovalsStayHome
<1>5. ASSUME NEW r \in Requests, Stay(r), Home(req'[r]) PROVE RemovalsStayHome'
  BY <1>3, <1>4, <1>5 DEF Stay, KeepsAllButBase, KeepsNames
<1>6. ASSUME NEW r \in Requests, RequestStart(r) PROVE RemovalsStayHome'
  <2>1. PICK q \in Request : StartsWith(r, q)
    BY <1>0, <1>6, Starts
  <2>2. req'[r] = q /\ Stay(r)
    BY <1>0, <1>6, <2>1, OthersStay, BeginType DEF StartsWith
  <2>3. ASSUME NEW op, NEW v, NEW pc, Begin(r, Fresh(op, v, pc)),
               op \notin {"clear", "delete", "merge"}
        PROVE  Home(q)
    BY <1>0, <2>2, <2>3 DEF Begin, Fresh, Idle, TypeOK
  <2>4. ASSUME NEW op, NEW v \in Vaults, NEW pc, client[v] # None,
               Begin(r, [Fresh(op, v, pc) EXCEPT !.src = client[v]])
        PROVE  Home(q)
    BY <1>0, <2>2, <2>4 DEF Begin, Fresh, Idle, TypeOK, HomeInv
  <2>5. ASSUME NEW v \in Vaults, NEW w \in Vaults, MergeFrom(r, v, w)
        PROVE  Home(q)
    <3>1. q.src = client[v] /\ q.v = v
      BY <1>0, <2>2, <2>5 DEF MergeFrom, Begin, Fresh, Idle, TypeOK
    <3>. QED
      BY <2>5, <3>1 DEF MergeFrom, HomeInv
  <2>6. ASSUME NEW op \in Fillers, NEW v \in Vaults, NEW may, Resolve(r, op, v, may)
        PROVE  Home(q)
    BY <2>3, <2>4, <2>6 DEF Resolve, Fillers
  <2>7. ASSUME NEW op \in {"clear", "delete", "archive"}, NEW v \in Vaults,
               WipeResolve(r, op, v)
        PROVE  Home(q)
    BY <2>3, <2>4, <2>7 DEF WipeResolve
  <2>8. ASSUME NEW v, CreateCheck(r, v) \/ WithVault(r, "recall", v, "search")
                      \/ WithVault(r, "fact", v, "upsert")
        PROVE  Home(q)
    BY <2>3, <2>8 DEF CreateCheck, WithVault
  <2>9. Home(q)
    BY <1>6, <2>5, <2>6, <2>7, <2>8 DEF RequestStart, handleIngest, handleDocuments,
       handleWebhookGit, doStore, Fillers
  <2>. QED
    BY <1>5, <2>2, <2>9
<1>7. ASSUME NEW r \in Requests, RequestStep(r) PROVE RemovalsStayHome'
  <2>1. Stay(r) /\ req[r] \in Request /\ DOMAIN req = Requests
    BY <1>0, <1>7, OthersStay DEF TypeOK
  <2>2. ASSUME req'[r].op = req[r].op, req'[r].src = req[r].src, req'[r].v = req[r].v
        PROVE  Home(req'[r])
    BY <1>4, <2>2
  <2>3. ASSUME req'[r].op \notin {"clear", "delete", "merge"} PROVE Home(req'[r])
    BY <2>3
  <2>4. ASSUME Return(r) PROVE Home(req'[r])
    BY <2>1, <2>3, <2>4, IdleType DEF Return
  <2>5. ASSUME NEW pc, Goto(r, pc) PROVE Home(req'[r])
    BY <2>1, <2>2, <2>5 DEF Goto, Request
  <2>6. ASSUME NEW coll, NEW S, NEW pc,
               req' = [Shed(req, r, coll, S) EXCEPT ![r].pc = pc]
        PROVE  Home(req'[r])
    <3>. DEFINE F == Shed(req, r, coll, S)
    <3>1. F \in [Requests -> Request]
      BY <1>0, ShedType
    <3>2. F[r] = req[r] /\ req' = [F EXCEPT ![r].pc = pc]
      BY <2>6 DEF Shed
    <3>. HIDE DEF F
    <3>3. req'[r].op = req[r].op /\ req'[r].src = req[r].src /\ req'[r].v = req[r].v
      BY <3>1, <3>2 DEF Request
    <3>. QED
      BY <2>2, <3>3
  <2>7. CASE ProvisionConfigure(r) \/ RecallSearch(r)
    <3>1. req[r].op \notin {"clear", "delete", "merge"} /\ req'[r].op = req[r].op
      BY <2>1, <2>7 DEF ProvisionConfigure, RecallSearch, At, Fillers, Request
    <3>. QED
      BY <1>5, <2>1, <2>3, <3>1
  <2>8. CASE MergeInto(r) \/ MergeRead(r) \/ MergeWrite(r)
    <3>1. ASSUME ~ Return(r)
          PROVE  req'[r].op = req[r].op /\ req'[r].src = req[r].src /\ req'[r].v = req[r].v
      <4>1. ASSUME NEW P, NEW n, NEW pc,
                   \/ req' = [req EXCEPT ![r].page = P, ![r].next = n, ![r].pc = pc]
                   \/ req' = [req EXCEPT ![r].page = P, ![r].from = n, ![r].pc = pc]
                   \/ req' = [req EXCEPT ![r].dst = P, ![r].base = n, ![r].pc = pc]
            PROVE  req'[r].op = req[r].op /\ req'[r].src = req[r].src /\ req'[r].v = req[r].v
        BY <2>1, <4>1 DEF Request
      <4>. QED
        BY <2>8, <3>1, <4>1 DEF MergeInto, MergeRead, MergeWrite
    <3>. QED
      BY <1>5, <2>1, <2>2, <2>4, <3>1
  <2>9. CASE WipeChunks(r) \/ MergePurge(r)
    BY <1>5, <2>1, <2>4, <2>5, <2>6, <2>9 DEF WipeChunks, MergePurge
  <2>10. CASE FillStep(r)
    <3>1. PICK q : Filling(q) /\ req' = [req EXCEPT ![r] = q]
      BY <1>0, <2>10, FillType
    <3>2. req'[r].op \notin {"clear", "delete", "merge"}
      BY <2>1, <3>1 DEF Filling, Fillers
    <3>. QED
      BY <1>5, <2>1, <2>3, <3>2
  <2>12. ASSUME NEW s \in Sources, NEW S \in SUBSET Chunks, IngestReplace(r, s, S)
         PROVE  RemovalsStayHome'
    <3>1. KeepsHome(req'[r], req[r])
      BY <1>0, <2>12, ReplaceType DEF Sheds
    <3>. QED
      BY <1>5, <2>1, <2>2, <3>1 DEF KeepsHome, KeepsNames
  <2>11. CASE \/ MakeDirectory(r) \/ CreateRegister(r) \/ RemoveDirectory(r)
              \/ ProvisionOpen(r) \/ ProvisionAdd(r) \/ WipeFacts(r) \/ Unconfigure(r)
              \/ Remove(r) \/ MergeUnregister(r) \/ MergeForget(r)
              \/ RecallReturn(r) \/ FactUpsert(r)
    <3>1. Return(r) \/ \E pc : Goto(r, pc)
      BY <2>11 DEF MakeDirectory, CreateRegister, RemoveDirectory, ProvisionOpen,
         ProvisionAdd, WipeFacts, Unconfigure, Remove, MergeUnregister, MergeForget,
         RecallReturn, FactUpsert
    <3>. QED
      BY <1>5, <2>1, <2>4, <2>5, <3>1
  <2>. QED
    BY <1>7, <2>7, <2>8, <2>9, <2>10, <2>11, <2>12 DEF RequestStep, FillStep
<1>8. ASSUME \A r \in Requests : KeepsAllButBase(req'[r], req[r]) PROVE RemovalsStayHome'
  BY <1>3, <1>4, <1>8 DEF KeepsAllButBase, KeepsNames
<1>9. ASSUME NEW v \in Vaults, NEW S, ChunksDelete(v, S) PROVE RemovalsStayHome'
  <2>1. \A r \in Requests : KeepsAllButBase(req'[r], req[r])
    BY <1>0, <1>9, ShedType DEF ChunksDelete
  <2>. QED
    BY <1>8, <2>1
<1>13. ASSUME NEW v \in Vaults, NEW s \in Sources, UnindexFile(v, s)
       PROVE  RemovalsStayHome'
  <2>1. \A r \in Requests : KeepsAllButBase(req'[r], req[r])
    BY <1>0, <1>13, ShedType DEF UnindexFile
  <2>. QED
    BY <1>8, <2>1
<1>10. CASE \/ \E v \in Vaults :
                 \/ EnsureAgentVault(v) \/ Reindex(v) \/ \E c \in Chunks : Import(v, c)
                 \/ \E s \in Sources, S \in SUBSET Chunks : IndexFile(v, s, S)
            \/ UNCHANGED vars
  <2>1. UNCHANGED req
    BY <1>10 DEF EnsureAgentVault, Reindex, Import, IndexFile, vars
  <2>. QED
    BY <1>0, <1>1, <1>8, <2>1 DEF KeepsAllButBase, KeepsNames
<1>11. CASE Restart
  <2>1. \A r \in Requests : req'[r] = Idle
    BY <1>11 DEF Restart
  <2>2. \A r \in Requests : Home(req'[r])
    BY <2>1, IdleType
  <2>. QED
    BY <1>0, <1>1, <1>3, <2>2
<1>12. RemovalsStayHome'
  BY <1>6, <1>7, <1>9, <1>10, <1>11, <1>13 DEF Next
<1>. QED
  BY <1>0, <1>1, <1>12

(* The handlers that empty a collection take the client from the manager,   *)
(* and the manager only ever gives a vault a client of another for an       *)
(* agent's vault (server.go, handleVaultDelete and its like).               *)
THEOREM RemovalsAreLocal == Spec => []RemovalsStayHome
<1>1. Init => HomeInv
  <2>1. ASSUME Init PROVE \A v \in Vaults : client[v] \in {None, v}
    BY <2>1 DEF Init, AtBoot
  <2>2. ASSUME Init PROVE RemovalsStayHome
    BY <2>2, IdleType DEF Init, RemovalsStayHome
  <2>. QED
    BY <2>1, <2>2, TypeInit DEF HomeInv
<1>2. HomeInv => RemovalsStayHome
  BY DEF HomeInv
<1>. QED
  BY <1>1, <1>2, HomeNext, PTL DEF Spec
=============================================================================

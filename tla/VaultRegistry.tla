---------------------------- MODULE VaultRegistry ----------------------------
(***************************************************************************)
(* The vaults of a multi-tenant server: the configuration map cfg.Vaults,  *)
(* the indexer manager's maps, the vault directories and the chunk and     *)
(* fact collections, under the HTTP handlers that create, provision, fill, *)
(* empty, merge, archive and delete vaults.  The handlers run              *)
(* concurrently; each step below is one locked section, one directory call *)
(* or one call of the vector store.                                        *)
(*                                                                         *)
(* A chunk is the number its point id has in the store's scroll order; the *)
(* id is a hash of the chunk's source and of its place in that.            *)
(* The collection of a vault has the vault's name.                         *)
(***************************************************************************)
EXTENDS Integers, FiniteSets

CONSTANTS
    Vaults,         \* vault names
    Boot,           \* the vaults configured when the process starts
    Primary,        \* the vault whose client is the server-wide one (s.qdrant)
    AgentVaults,    \* names with a colon, provisioned by the first MCP call
    Chunks,         \* point ids
    Sources,        \* source_file values: file paths, names of ingested texts
    Source,         \* Source[c]: the source of chunk c
    Requests,       \* handlers that may be running at once
    AutoProvision,  \* RAGAMUFFIN_AUTO_PROVISION_VAULTS
    PageSize,       \* points of one scroll page
    MaxRequests,    \* bound: requests started in a behaviour
    MaxRestarts,    \* bound: crashes of the process
    None, Closed, Shared

ASSUME VaultAssumption ==
    /\ Boot \subseteq Vaults /\ Primary \in Boot /\ AgentVaults \subseteq Vaults
    /\ Chunks \subseteq Nat \ {0} /\ Source \in [Chunks -> Sources]
    /\ AutoProvision \in BOOLEAN
    /\ PageSize \in Nat \ {0} /\ MaxRequests \in Nat /\ MaxRestarts \in Nat
    /\ None \notin Vaults /\ Shared \notin Vaults
    /\ None \notin Requests /\ Closed \notin Requests /\ None # Closed

VARIABLES
    cfg,        \* names in s.cfg.Vaults
    client,     \* manager: the collection a vault's indexer and client address
    factClient, \* manager: who opened the vault's facts client
    owned,      \* registered indexers with a ProcessEvents goroutine
    queued,     \* registered indexers with a re-index request in their channel
    dirs,       \* vault directories on disk
    chunks,     \* collection -> point id -> stored with a vector, without, or not
    facts,      \* facts collection -> vaults whose facts it holds
    req,        \* the running handlers
    started, restarts,  \* counters of the bounds
    aliased,    \* history: vaults ensureAgentVault has registered
    merged      \* history: vaults a merge has removed

registry == <<cfg, client, factClient, owned, queued>>
stored   == <<dirs, chunks, facts>>
ghosts   == <<aliased, merged>>
vars     == <<registry, stored, req, started, restarts, ghosts>>

Fillers == {"ingest", "document", "push"}
Ops == Fillers \cup {"none", "create", "clear", "delete",
                          "archive", "merge", "recall", "fact"}
Steps == {"idle", "mkdir", "register", "rmdir", "open", "add", "configure",
          "put", "replace", "batch", "chunks", "facts", "unconfigure", "remove",
          "into", "read", "write", "purge", "unregister", "forget", "search",
          "answered", "upsert"}

(* page: the chunks to be upserted; base: those a merge owes its destination. *)
Request ==
    [op : Ops, pc : Steps, v : Vaults \cup {None}, w : Vaults \cup {None},
     src : Vaults \cup {None}, dst : Vaults \cup {None},
     from : Nat, next : Nat, page : SUBSET Chunks, base : SUBSET Chunks]

Idle == [op |-> "none", pc |-> "idle", v |-> None, w |-> None, src |-> None,
         dst |-> None, from |-> 0, next |-> 0, page |-> {}, base |-> {}]

Fresh(op, v, pc) == [Idle EXCEPT !.op = op, !.v = v, !.pc = pc]

Present(coll) == {c \in Chunks : chunks[coll][c] # "absent"}
OfSource(s)   == {c \in Chunks : Source[c] = s}

(* A running request names a vault, a merge a second one. *)
Names(q) ==
    /\ q.op # "none" => q.v \in Vaults
    /\ q.op = "merge" => q.w \in Vaults \ {q.v}

TypeOK ==
    /\ cfg \subseteq Vaults
    /\ client \in [Vaults -> Vaults \cup {None}]
    /\ factClient \in [Vaults -> Requests \cup {None, Closed}]
    /\ owned \subseteq Boot /\ queued \subseteq Vaults
    /\ dirs \subseteq Vaults
    /\ chunks \in [Vaults -> [Chunks -> {"absent", "whole", "bare"}]]
    /\ facts \in [Vaults \cup {Shared} -> SUBSET Vaults]
    /\ req \in [Requests -> Request]
    /\ \A r \in Requests : Names(req[r])
    /\ started \in 0..MaxRequests /\ restarts \in 0..MaxRestarts
    /\ aliased \subseteq Vaults /\ merged \subseteq Vaults

-----------------------------------------------------------------------------

AtBoot == [v \in Vaults |-> IF v \in Boot THEN v ELSE None]
NoFactClients == [v \in Vaults |-> None]

Init ==
    /\ cfg = Boot /\ client = AtBoot /\ factClient = NoFactClients
    /\ owned = Boot /\ queued = {} /\ dirs = Boot
    /\ chunks = [v \in Vaults |-> [c \in Chunks |-> "absent"]]
    /\ facts = [v \in Vaults \cup {Shared} |-> {}]
    /\ req = [r \in Requests |-> Idle]
    /\ started = 0 /\ restarts = 0
    /\ aliased = {} /\ merged = {}

(* A handler starts in state q, moves to another step, or returns. *)
Begin(r, q) ==
    /\ req[r] = Idle /\ started < MaxRequests
    /\ req' = [req EXCEPT ![r] = q] /\ started' = started + 1
At(r, ops, pc) == req[r].op \in ops /\ req[r].pc = pc
Goto(r, pc)    == req' = [req EXCEPT ![r].pc = pc]
Return(r)      == req' = [req EXCEPT ![r] = Idle]
Running        == UNCHANGED <<started, restarts>>

-----------------------------------------------------------------------------
(* POST /vaults: both maps are checked in one locked section, the directory *)
(* is made outside it, the name is entered in another; a loser of that race *)
(* removes the directory.                                                   *)
CreateCheck(r, v) ==
    /\ v \notin cfg /\ client[v] = None
    /\ Begin(r, Fresh("create", v, "mkdir"))
    /\ UNCHANGED <<registry, stored, restarts, ghosts>>

MakeDirectory(r) ==
    /\ At(r, {"create"} \cup Fillers, "mkdir")
    /\ dirs' = dirs \cup {req[r].v}
    /\ Goto(r, IF req[r].op = "create" THEN "register" ELSE "open")
    /\ Running /\ UNCHANGED <<registry, chunks, facts, ghosts>>

CreateRegister(r) ==
    /\ At(r, {"create"}, "register")
    /\ IF req[r].v \in cfg
       THEN Goto(r, "rmdir") /\ UNCHANGED cfg
       ELSE Return(r) /\ cfg' = cfg \cup {req[r].v}
    /\ Running /\ UNCHANGED <<client, factClient, owned, queued, stored, ghosts>>

RemoveDirectory(r) ==
    /\ At(r, {"create"} \cup Fillers, "rmdir")
    /\ dirs' = dirs \ {req[r].v} /\ Return(r)
    /\ Running /\ UNCHANGED <<registry, chunks, facts, ghosts>>

(* A request that fills a vault looks its indexer up and, when it is missing *)
(* and the request may, provisions the vault.                                *)
Resolve(r, op, v, may) ==
    /\ client[v] = None => may
    /\ Begin(r, IF client[v] = None
                THEN Fresh(op, v, "mkdir")
                ELSE [Fresh(op, v, "put") EXCEPT !.src = client[v]])
    /\ UNCHANGED <<registry, stored, restarts, ghosts>>

handleIngest(r, v)     == Resolve(r, "ingest", v, AutoProvision)
handleDocuments(r, v)  == Resolve(r, "document", v, AutoProvision)
handleWebhookGit(r, v) == Resolve(r, "push", v, AutoProvision)
doStore(r, v)          == Resolve(r, "ingest", v, TRUE)   \* whatever AutoProvision

(* newProvisionedStore twice, then AddFactClient: it overwrites the entry.  *)
ProvisionOpen(r) ==
    /\ At(r, Fillers, "open")
    /\ \/ Goto(r, "rmdir") /\ UNCHANGED factClient
       \/ Goto(r, "add") /\ factClient' = [factClient EXCEPT ![req[r].v] = r]
    /\ Running /\ UNCHANGED <<cfg, client, owned, queued, stored, ghosts>>

(* Manager.Add refuses a name that is registered; the loser closes its      *)
(* stores, its facts client staying in the manager if it is the last added. *)
ProvisionAdd(r) ==
    LET v == req[r].v IN
    /\ At(r, Fillers, "add")
    /\ IF client[v] = None
       THEN /\ client' = [client EXCEPT ![v] = v]
            /\ Goto(r, "configure") /\ UNCHANGED factClient
       ELSE /\ factClient' = [factClient EXCEPT ![v] = IF @ = r THEN Closed ELSE @]
            /\ Goto(r, "rmdir") /\ UNCHANGED client
    /\ Running /\ UNCHANGED <<cfg, owned, queued, stored, ghosts>>

ProvisionConfigure(r) ==
    /\ At(r, Fillers, "configure")
    /\ cfg' = cfg \cup {req[r].v}
    /\ req' = [req EXCEPT ![r].pc = "put", ![r].src = req[r].v]
    /\ Running /\ UNCHANGED <<client, factClient, owned, queued, stored, ghosts>>

Store(coll, S, form) ==
    chunks' = [chunks EXCEPT ![coll] = [c \in Chunks |-> IF c \in S THEN form ELSE @[c]]]

(* Points leave a collection.  The chunks that go are no longer owed by the *)
(* merges of other handlers that read or write this collection.             *)
Shed(rq, r, coll, S) ==
    [q \in Requests |->
        IF q # r /\ rq[q].op = "merge" /\ coll \in {rq[q].src, rq[q].dst}
        THEN [rq[q] EXCEPT !.base = @ \ S] ELSE rq[q]]

(* A document goes through the API driver, which looks the indexer up again. *)
DocumentLookup(r) ==
    /\ At(r, {"document"}, "put")
    /\ IF client[req[r].v] = None THEN Return(r)
       ELSE req' = [req EXCEPT ![r].src = client[req[r].v], ![r].pc = "replace"]
    /\ Running /\ UNCHANGED <<registry, stored, ghosts>>

(* Indexer.Ingest of a text that has the chunks S of source s: the chunks   *)
(* the source had before go first; a failure to delete them is only logged. *)
(* The indexer found earlier is used, registered or not by now.             *)
IngestReplace(r, s, S) ==
    LET coll == req[r].src IN
    /\ At(r, {"ingest", "push"}, "put") \/ At(r, {"document"}, "replace")
    /\ S \subseteq OfSource(s) /\ S # {}
    /\ \E old \in {OfSource(s), {}} :
          /\ Store(coll, old, "absent")
          /\ req' = [Shed(req, r, coll, old) EXCEPT ![r].page = S, ![r].pc = "batch"]
    /\ Running /\ UNCHANGED <<registry, dirs, facts, ghosts>>

(* One text is done with; a push carries several. *)
NextText(r) ==
    \/ Return(r)
    \/ /\ req[r].op = "push"
       /\ req' = [req EXCEPT ![r].page = {}, ![r].pc = "put"]

(* The chunks are embedded and upserted batch by batch. *)
IngestBatch(r, S) ==
    /\ At(r, Fillers, "batch") /\ S \subseteq req[r].page /\ S # {}
    /\ Store(req[r].src, S, "whole")
    /\ IF S = req[r].page THEN NextText(r)
       ELSE req' = [req EXCEPT ![r].page = @ \ S]
    /\ Running /\ UNCHANGED <<registry, dirs, facts, ghosts>>

(* Nothing to ingest, a download, an embedding or an upsert that fails. *)
IngestStops(r) ==
    /\ At(r, {"ingest", "push"}, "put") \/ At(r, Fillers, "batch")
    /\ NextText(r)
    /\ Running /\ UNCHANGED <<registry, stored, ghosts>>

(* qdrantFor falls back on the server-wide client. *)
qdrantFor(v) == IF client[v] = None THEN Primary ELSE client[v]

(* ensureAgentVault: the indexer of the vault the call names gets qdrantFor *)
(* of the call, and the vault has no client of its own yet.                 *)
EnsureAgentVault(v) ==
    /\ v \in AgentVaults /\ client[v] = None /\ started < MaxRequests
    /\ client' = [client EXCEPT ![v] = qdrantFor(v)]
    /\ aliased' = aliased \cup {v} /\ started' = started + 1
    /\ UNCHANGED <<cfg, factClient, owned, queued, stored, req, restarts, merged>>

(* POST /v1/vaults/{name}/import: points get new ids and keep only the     *)
(* vectors the export wrote, which are none.                               *)
Import(v, c) ==
    /\ client[v] # None /\ started < MaxRequests
    /\ chunks[client[v]][c] = "absent"
    /\ Store(client[v], {c}, "bare") /\ started' = started + 1
    /\ UNCHANGED <<registry, dirs, facts, req, restarts, ghosts>>

-----------------------------------------------------------------------------
(* DELETE /vault/{name}/v1/chunks, of one source file or of all. *)
ChunksDelete(v, S) ==
    /\ client[v] # None /\ started < MaxRequests
    /\ Store(client[v], S, "absent")
    /\ req' = Shed(req, None, client[v], S) /\ started' = started + 1
    /\ UNCHANGED <<registry, dirs, facts, restarts, ghosts>>

(* Clear, delete and archive look the indexer up and, archive excepted, then *)
(* its client: a vault removed between the two answers as one not found.     *)
WipeResolve(r, op, v) ==
    /\ client[v] # None
    /\ Begin(r, IF op = "archive"
                THEN Fresh(op, v, "unconfigure")
                ELSE [Fresh(op, v, "chunks") EXCEPT !.src = client[v]])
    /\ UNCHANGED <<registry, stored, restarts, ghosts>>

(* A failure of the store ends a clear and is only logged by a delete. *)
WipeChunks(r) ==
    LET coll == req[r].src IN
    /\ At(r, {"clear", "delete"}, "chunks")
    /\ \/ /\ Store(coll, Chunks, "absent")
          /\ req' = [Shed(req, r, coll, Chunks) EXCEPT ![r].pc = "facts"]
       \/ /\ IF req[r].op = "clear" THEN Return(r) ELSE Goto(r, "facts")
          /\ UNCHANGED chunks
    /\ Running /\ UNCHANGED <<registry, dirs, facts, ghosts>>

(* Only a vault provisioned at run time has a facts client of its own. *)
WipeFacts(r) ==
    LET v == req[r].v IN
    /\ At(r, {"clear", "delete"}, "facts")
    /\ \/ factClient[v] \in Requests /\ facts' = [facts EXCEPT ![v] = {}]
       \/ UNCHANGED facts
    /\ IF req[r].op = "clear" THEN Return(r) ELSE Goto(r, "unconfigure")
    /\ Running /\ UNCHANGED <<registry, dirs, chunks, ghosts>>

Unconfigure(r) ==
    /\ At(r, {"delete", "archive"}, "unconfigure")
    /\ cfg' = cfg \ {req[r].v} /\ Goto(r, "remove")
    /\ Running /\ UNCHANGED <<client, factClient, owned, queued, stored, ghosts>>

(* Mutant: archiving keeps the indexer of a vault whose entry is gone. *)
RemoveUnlessArchived(r) ==
    /\ At(r, {"delete", "archive"}, "remove")
    /\ IF req[r].op = "archive"
       THEN UNCHANGED <<client, factClient, owned, queued>>
       ELSE /\ client' = [client EXCEPT ![req[r].v] = None]
            /\ factClient' = [factClient EXCEPT ![req[r].v] = None]
            /\ owned' = owned \ {req[r].v} /\ queued' = queued \ {req[r].v}
    /\ Return(r)
    /\ Running /\ UNCHANGED <<cfg, stored, ghosts>>

(* Manager.Remove: the goroutine of a boot vault's indexer is not stopped. *)
Unregister(v) ==
    /\ client' = [client EXCEPT ![v] = None]
    /\ factClient' = [factClient EXCEPT ![v] = None]
    /\ owned' = owned \ {v} /\ queued' = queued \ {v}

Remove(r) ==
    /\ At(r, {"delete", "archive"}, "remove")
    /\ Unregister(req[r].v) /\ Return(r)
    /\ Running /\ UNCHANGED <<cfg, stored, ghosts>>

-----------------------------------------------------------------------------
(* POST /v1/vaults/{from}/merge/{into}: pages of the source are upserted    *)
(* into the destination, then the source is emptied and unregistered.       *)
(* A page P of the points S from offset o on, and the id n of the first      *)
(* point after it, 0 when there is none.                                     *)
Scroll(S, o, P, n) ==
    LET rest == {c \in S : c >= o} IN
    /\ P \subseteq rest /\ \A c \in P, d \in rest : d < c => d \in P
    /\ P = rest \/ Cardinality(P) = PageSize
    /\ IF P = rest THEN n = 0 ELSE n \in rest \ P /\ \A d \in rest \ P : n <= d

MergeFromShared(r, v, w) ==   \* mutant: the client of a search, never nil
    /\ v # w
    /\ Begin(r, [Fresh("merge", v, "into") EXCEPT !.w = w, !.src = qdrantFor(v)])
    /\ UNCHANGED <<registry, stored, restarts, ghosts>>
MergeFromAny(r, v, w) ==      \* mutant: a vault may be merged into itself
    /\ client[v] # None
    /\ Begin(r, [Fresh("merge", v, "into") EXCEPT !.w = w, !.src = client[v]])
    /\ UNCHANGED <<registry, stored, restarts, ghosts>>

(* The client of the source is looked up, then that of the destination. *)
MergeFrom(r, v, w) ==
    /\ v # w /\ client[v] # None
    /\ Begin(r, [Fresh("merge", v, "into") EXCEPT !.w = w, !.src = client[v]])
    /\ UNCHANGED <<registry, stored, restarts, ghosts>>

MergeInto(r) ==
    /\ At(r, {"merge"}, "into")
    /\ IF client[req[r].w] = None THEN Return(r)          \* 404 NOT_FOUND
       ELSE req' = [req EXCEPT ![r].dst = client[req[r].w],
                               ![r].base = Present(req[r].src), ![r].pc = "read"]
    /\ Running /\ UNCHANGED <<registry, stored, ghosts>>

MergeRead(r) ==
    /\ At(r, {"merge"}, "read")
    /\ \/ \E P \in SUBSET Chunks, n \in Chunks \cup {0} :
          /\ Scroll(Present(req[r].src), req[r].from, P, n)
          /\ req' = [req EXCEPT ![r].page = P, ![r].next = n,
                                ![r].pc = IF P = {} THEN "purge" ELSE "write"]
       \/ Return(r)                                    \* 502 SCROLL_FAILED
    /\ Running /\ UNCHANGED <<registry, stored, ghosts>>

(* Scroll returns no vectors, so the copies have none. *)
MergeWriteSkips(r) ==         \* mutant: the next page starts after the offset
    /\ At(r, {"merge"}, "write")
    /\ \/ /\ Store(req[r].dst, req[r].page, "bare")
          /\ req' = [req EXCEPT ![r].page = {}, ![r].from = req[r].next + 1,
                                ![r].pc = IF req[r].next = 0 THEN "purge" ELSE "read"]
       \/ Return(r) /\ UNCHANGED chunks
    /\ Running /\ UNCHANGED <<registry, dirs, facts, ghosts>>

MergeWrite(r) ==
    /\ At(r, {"merge"}, "write")
    /\ \/ /\ Store(req[r].dst, req[r].page, "bare")
          /\ req' = [req EXCEPT ![r].page = {}, ![r].from = req[r].next,
                                ![r].pc = IF req[r].next = 0 THEN "purge" ELSE "read"]
       \/ Return(r) /\ UNCHANGED chunks                \* 502 UPSERT_FAILED
    /\ Running /\ UNCHANGED <<registry, dirs, facts, ghosts>>

MergePurge(r) ==
    LET coll == req[r].src IN
    /\ At(r, {"merge"}, "purge")
    /\ \/ /\ Store(coll, Chunks, "absent")
          /\ req' = [Shed(req, r, coll, Chunks) EXCEPT ![r].pc = "unregister"]
       \/ Goto(r, "unregister") /\ UNCHANGED chunks    \* logged only
    /\ Running /\ UNCHANGED <<registry, dirs, facts, ghosts>>

MergeUnregister(r) ==
    /\ At(r, {"merge"}, "unregister")
    /\ Unregister(req[r].v) /\ merged' = merged \cup {req[r].v}
    /\ Goto(r, "forget")
    /\ Running /\ UNCHANGED <<cfg, stored, aliased>>

(* The entry is deleted last, and without the lock. *)
MergeForget(r) ==
    /\ At(r, {"merge"}, "forget")
    /\ cfg' = cfg \ {req[r].v} /\ Return(r)
    /\ Running /\ UNCHANGED <<client, factClient, owned, queued, stored, ghosts>>

-----------------------------------------------------------------------------
(* Requests under /vault/{name}: withVault looks the name up in cfg.Vaults, *)
(* the handler looks the client up in the manager afterwards.               *)
WithVault(r, op, v, pc) ==
    /\ v \in cfg /\ Begin(r, Fresh(op, v, pc))
    /\ UNCHANGED <<registry, stored, restarts, ghosts>>

RecallSearch(r) ==
    /\ At(r, {"recall"}, "search")
    /\ req' = [req EXCEPT ![r].src = qdrantFor(req[r].v), ![r].pc = "answered"]
    /\ Running /\ UNCHANGED <<registry, stored, ghosts>>

RecallReturn(r) ==
    /\ At(r, {"recall"}, "answered") /\ Return(r)
    /\ Running /\ UNCHANGED <<registry, stored, ghosts>>

(* factsQdrantFor falls back on the server-wide facts client, which upserts *)
(* into its own collection; a closed client fails the request.              *)
FactUpsert(r) ==
    LET v == req[r].v  fc == factClient[v]
        coll == IF fc = None THEN Shared ELSE v
    IN
    /\ At(r, {"fact"}, "upsert")
    /\ facts' = IF fc = Closed THEN facts ELSE [facts EXCEPT ![coll] = @ \cup {v}]
    /\ Return(r)
    /\ Running /\ UNCHANGED <<registry, dirs, chunks, ghosts>>

(* POST /reindex and /v1/refresh: a channel of one request per indexer. *)
Reindex(v) ==
    /\ client[v] # None /\ v \notin queued /\ started < MaxRequests
    /\ queued' = queued \cup {v} /\ started' = started + 1
    /\ UNCHANGED <<cfg, client, factClient, owned, stored, req, restarts, ghosts>>

(* The ProcessEvents goroutine of a boot vault: it serves re-index requests *)
(* while its indexer is registered, and file events for ever.  The chunks   *)
(* of a file that is gone are deleted, and those of one to be indexed       *)
(* before the new ones are upserted, unless the delete fails.               *)
UnindexFile(v, s) ==
    /\ v \in Boot /\ Store(v, OfSource(s), "absent")
    /\ req' = Shed(req, None, v, OfSource(s))
    /\ queued' \in {queued, queued \ (owned \cap {v})}
    /\ UNCHANGED <<cfg, client, factClient, owned, dirs, facts, started,
                   restarts, ghosts>>

IndexFile(v, s, S) ==
    /\ v \in Boot /\ S \subseteq OfSource(s) /\ S # {}
    /\ Store(v, S, "whole")
    /\ queued' \in {queued, queued \ (owned \cap {v})}
    /\ UNCHANGED <<cfg, client, factClient, owned, dirs, facts, req, started,
                   restarts, ghosts>>

(* The process dies and starts again; only disk and store survive. *)
Restart ==
    /\ restarts < MaxRestarts /\ restarts' = restarts + 1
    /\ cfg' = Boot /\ client' = AtBoot /\ factClient' = NoFactClients
    /\ owned' = Boot /\ queued' = {}
    /\ req' = [r \in Requests |-> Idle]
    /\ UNCHANGED <<stored, started, ghosts>>

RequestStep(r) ==
    \/ MakeDirectory(r) \/ CreateRegister(r) \/ RemoveDirectory(r)
    \/ ProvisionOpen(r) \/ ProvisionAdd(r) \/ ProvisionConfigure(r)
    \/ DocumentLookup(r) \/ IngestStops(r)
    \/ \E S \in SUBSET Chunks :
          IngestBatch(r, S) \/ \E s \in Sources : IngestReplace(r, s, S)
    \/ WipeChunks(r) \/ WipeFacts(r) \/ Unconfigure(r) \/ Remove(r)
    \/ MergeInto(r) \/ MergeRead(r) \/ MergeWrite(r) \/ MergePurge(r)
    \/ MergeUnregister(r) \/ MergeForget(r)
    \/ RecallSearch(r) \/ RecallReturn(r) \/ FactUpsert(r)

RequestStart(r) ==
    \E v \in Vaults :
        \/ CreateCheck(r, v)
        \/ handleIngest(r, v) \/ handleDocuments(r, v) \/ handleWebhookGit(r, v)
        \/ doStore(r, v)
        \/ \E op \in {"clear", "delete", "archive"} : WipeResolve(r, op, v)
        \/ \E w \in Vaults : MergeFrom(r, v, w)
        \/ WithVault(r, "recall", v, "search") \/ WithVault(r, "fact", v, "upsert")

Next ==
    \/ \E r \in Requests : RequestStart(r) \/ RequestStep(r)
    \/ \E v \in Vaults :
        \/ EnsureAgentVault(v) \/ Reindex(v)
        \/ \E c \in Chunks : Import(v, c)
        \/ \E s \in Sources : \/ UnindexFile(v, s) \/ ChunksDelete(v, OfSource(s))
                              \/ \E S \in SUBSET Chunks : IndexFile(v, s, S)
        \/ ChunksDelete(v, Chunks)
    \/ Restart

Spec == Init /\ [][Next]_vars

-----------------------------------------------------------------------------
(* A registered vault can be addressed: it is in cfg.Vaults unless a        *)
(* request is between the two maps, the vault is an agent's, or a merge out *)
(* of it has run, whose two removals come in the opposite order (server.go, *)
(* handleVaultMerge).                                                       *)
BetweenMaps(v) ==
    \E r \in Requests :
        /\ req[r].v = v
        /\ At(r, Fillers, "configure") \/ At(r, {"delete", "archive"}, "remove")

IndexedIsConfigured ==
    \A v \in Vaults : client[v] # None =>
        v \in cfg \/ BetweenMaps(v) \/ v \in aliased \/ v \in merged

(* A merge that gets as far as emptying its source has copied every chunk   *)
(* that was in the source when it began, unless the chunk was removed from  *)
(* the source or the destination meanwhile: by a request to delete, clear   *)
(* or merge, or because its source was ingested or indexed anew, which      *)
(* deletes the old chunks first (server.go, the paging of handleVaultMerge).*)
MergeCopiesFirst ==
    \A r \in Requests :
        At(r, {"merge"}, "purge") => req[r].base \subseteq Present(req[r].dst)

(* A request that empties a collection empties the one of the vault it      *)
(* names, an agent's vault excepted: the handlers that delete take the      *)
(* client from the manager, never the server-wide one.                      *)
RemovalsStayHome ==
    \A r \in Requests :
        req[r].op \in {"clear", "delete", "merge"} =>
            req[r].src = req[r].v \/ req[r].v \in aliased

(* What a merge deletes has been copied (server.go:1325, "Delete source     *)
(* vault after successful merge").                                          *)
NothingIsLost ==
    \A r \in Requests :
        At(r, {"merge"}, "purge") => Present(req[r].src) \subseteq Present(req[r].dst)

(* A search of one vault reads that vault's collection                      *)
(* (docs/REACHLOCK-VAULT-CONVENTIONS.md:44-46).                             *)
QueriesStayHome ==
    \A r \in Requests : At(r, {"recall"}, "answered") => req[r].src = req[r].v

(* The directory of a configured vault exists (README.md:489, "Creates a    *)
(* vault on disk"): the directory a loser removes is not the winner's.      *)
ConfiguredHasDirectory == cfg \subseteq dirs
=============================================================================

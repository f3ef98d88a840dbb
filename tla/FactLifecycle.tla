--------------------------- MODULE FactLifecycle ---------------------------
(***************************************************************************)
(* The facts collection and everything that writes to it: the REST and MCP *)
(* handlers (internal/server/facts.go, review.go, service.go), the         *)
(* goroutine POST starts for a versioned key, and the pruner's scans       *)
(* (internal/pruner).                                                      *)
(*                                                                         *)
(* There is no lock around the collection.  A handler reads a point, edits *)
(* the payload in memory and upserts ALL of it; a scan reads a page of     *)
(* points and then writes to them one by one.  Each store call (scroll,    *)
(* upsert, set-payload, delete) is atomic, and everything between two      *)
(* calls interleaves: one action below is one store call together with the *)
(* computation that leads to it.                                           *)
(*                                                                         *)
(* A request occupies a slot from its first store call until its last one, *)
(* the goroutine it started included.                                      *)
(***************************************************************************)
EXTENDS Integers, FiniteSets

CONSTANTS
    Keys,        \* fact keys; a key determines its point id (factKeyHash)
    NoKey,       \* the empty string in a key-valued field
    NoFact,      \* no point is stored under the key
    Keep,        \* a field that an update request leaves out (nil pointer)
    Family,      \* Family[k]: what precedes the version segment of k
    RootFamily,  \* the empty prefix, as of v2/limits or of an unversioned key
    Version,     \* Version[k]: the number in the version segment, 0 if none
    Id,          \* Id[k]: where the point of k stands in the store's order
    Slots,       \* requests that can be in progress at once
    Ops,         \* request kinds the environment issues
    Edits,       \* bodies of PUT, PATCH and review requests
    Ttls, Untils, Confs,  \* POST inputs: TTL, valid_until and confidence
    Configs,          \* configurations: the store, the scans with an interval
    ScrollLimit,      \* what Qdrant answers a scroll with limit 0 with, at most
    PageSize,         \* page size of the pruner's scrolls, 200 in the code
    StoreFaults,      \* whether writes and the pruner's reads may fail
    ReadFaults,       \* whether the read before a POST or MCP upsert may fail
    ImportanceFilter, \* whether pruner.importance_threshold > 0
    MaxRequests,      \* bound: requests issued in a behaviour
    MaxCrashes        \* bound: process restarts in a behaviour

VARIABLES
    facts,     \* facts[k]: the payload stored under k, or NoFact
    op,        \* op[c]: what slot c does next
    key,       \* key[c]: the fact the request in c is about
    plan,      \* plan[c]: the payload c is about to upsert under key[c]
    newKey,    \* newKey[c]: the replacement's key in a review supersede
    todo,      \* todo[c]: keys still to be handled by a PATCH or a goroutine
    phase,     \* phase[s]: what scan s does next
    offset,    \* offset[s]: the last point of the last page, 0 for none
    work,      \* work[s]: <<target, other>> pairs collected, not yet handled
    again,     \* again[s]: keys that came on more than one page of the query
    cur,       \* cur[s]: the pair scan s has just read
    curSet,    \* curSet[s]: the contradicts list to be written for cur[s], or
               \* the references collected by the stale scan
    fresh,     \* history: slots whose fact was not written since they read it
    moved,     \* history: keys written since scan s read them
    replaced,  \* history: <<old, new>> of completed review replacements
    deleted,   \* history: keys a DELETE was served for
    config,    \* the configuration the process runs with
    requests, crashes

history == <<replaced, deleted, config>>
store   == <<facts, fresh, moved, history>>
slots   == <<op, key, plan, newKey, todo>>
scans   == <<phase, offset, work, again, cur, curSet>>
budget  == <<requests, crashes>>
vars    == <<store, slots, scans, budget>>

Statuses == {"active", "needs_review", "superseded", "rejected"}
Deadline == {"none", "live", "past"}   \* unset, in the future, in the past

Fact == [status      : Statuses,
         supersedes  : Keys \cup {NoKey},
         contradicts : SUBSET Keys,
         links       : SUBSET Keys,      \* refines and supports
         resolved    : BOOLEAN,          \* conflict_resolved
         ttl         : Deadline,         \* expires_at_unix against now
         until       : Deadline,         \* valid_until_unix against now
         conf        : {"high", "low"}]  \* low: confidence <= threshold

Edit == [status     : Statuses \cup {Keep},
         supersedes : Keys \cup {NoKey, Keep},
         links      : {Keep} \cup SUBSET Keys,
         resolved   : BOOLEAN \cup {Keep},
         ttl        : {"none", "live", Keep},
         until      : Deadline \cup {Keep},
         conf       : {"high", "low", Keep}]

FlagScans == {"StaleScan", "ExpiredScan", "LowConfidenceScan"}
AllScans  == FlagScans \cup {"ConflictScan", "SupersedeScan"}
WriteOps  == {"post", "upsert", "put", "review", "create", "retire"}
AllOps    == {"post", "upsert", "put", "patch", "delete", "review"}

ASSUME ConstantsAssumption ==
    /\ NoKey \notin Keys /\ Keep \notin Keys /\ Keep # NoKey
    /\ NoFact \notin Fact
    /\ Keep \notin Statuses \cup Deadline \cup {"high", "low"}
    /\ Keep \notin BOOLEAN /\ \A S \in SUBSET Keys : Keep # S
    /\ Edits \subseteq Edit
    /\ Version \in [Keys -> Nat]
    /\ Id \in [Keys -> Nat \ {0}]
    /\ \A j, k \in Keys : Id[j] = Id[k] => j = k
    /\ Configs \subseteq [store : {"qdrant", "embedded"}, scans : SUBSET AllScans]
    /\ PageSize \in Nat
    /\ Ops \subseteq AllOps
    /\ Ttls \subseteq {"none", "live"}
    /\ Untils \subseteq Deadline
    /\ Confs \subseteq {"high", "low"}
    /\ ScrollLimit \in Nat
    /\ {StoreFaults, ReadFaults, ImportanceFilter} \subseteq BOOLEAN
    /\ MaxRequests \in Nat /\ MaxCrashes \in Nat
    /\ Slots \cap AllScans = {}

Stored == {k \in Keys : facts[k] # NoFact}
Active == {k \in Stored : facts[k].status = "active"}

-----------------------------------------------------------------------------
(* Payloads the handlers build. *)

\* Mutant of Pick: a field left out overwrites the stored one all the same.
PickAlways(new, old) == new

\* A field of the request overrides the stored one unless it was left out.
Pick(new, old) == IF new = Keep THEN old ELSE new

\* handleFactsPut on the payload it read (applyFieldUpdate and the ifs after).
Apply(e, f) ==
    [status      |-> Pick(e.status, f.status),
     supersedes  |-> Pick(e.supersedes, f.supersedes),
     contradicts |-> f.contradicts,
     links       |-> Pick(e.links, f.links),
     resolved    |-> Pick(e.resolved, f.resolved),
     ttl         |-> Pick(e.ttl, f.ttl),
     until       |-> Pick(e.until, f.until),
     conf        |-> Pick(e.conf, f.conf)]

\* The payload of a fact POSTed under a key that holds none.
NewFact(t, u, c) ==
    [status |-> "active", supersedes |-> NoKey, contradicts |-> {},
     links |-> {}, resolved |-> FALSE, ttl |-> t, until |-> u, conf |-> c]

\* Mutant of PostPayload: the stored status is not carried forward.
PostPayloadResetsStatus(old, t, u, c) ==
    IF old = NoFact THEN NewFact(t, u, c)
    ELSE [old EXCEPT !.status = "active", !.ttl = t, !.until = u, !.conf = c]

\* POST over an existing fact carries its lifecycle fields forward and takes
\* TTL, validity and confidence from the request.
PostPayload(old, t, u, c) ==
    IF old = NoFact THEN NewFact(t, u, c)
    ELSE [old EXCEPT !.ttl = t, !.until = u, !.conf = c]

\* buildPatchUpdates writes valid_until but not valid_until_unix, the field
\* the expiry filter looks at.
PatchEdit(e) == [e EXCEPT !.until = Keep]

\* The payload changes of the four review actions, n the request's new_key.
ReviewEdit(action, e, n) ==
    LET nothing == [status |-> Keep, supersedes |-> Keep, links |-> Keep,
                    resolved |-> Keep, ttl |-> Keep, until |-> Keep,
                    conf |-> Keep]
    IN  CASE action = "confirm" ->
               [nothing EXCEPT !.status = "active", !.conf = e.conf,
                               !.resolved = e.resolved]
          [] action = "reclassify" ->
               [nothing EXCEPT !.status = "active", !.conf = e.conf,
                               !.resolved = e.resolved, !.ttl = e.ttl]
          [] action = "reject" -> [nothing EXCEPT !.status = "rejected"]
          [] action = "supersede" ->
               [nothing EXCEPT !.status = "superseded",
                               !.supersedes = IF n = NoKey THEN Keep ELSE n]

\* reviewSupersedeCreate: the replacement inherits the old confidence only.
Replacement(old) ==
    [NewFact("none", "none", old.conf) EXCEPT !.resolved = TRUE]

-----------------------------------------------------------------------------
(* Store calls.  A failed call changes nothing. *)

\* Whoever has read k before now holds an outdated payload.
Touch(k) ==
    /\ fresh' = {c \in fresh : key[c] # k}
    /\ moved' = [s \in AllScans |-> IF phase[s] \in {"idle", "done"} THEN {}
                                    ELSE moved[s] \cup {k}]

Upsert(k, f) ==
    /\ facts' = [facts EXCEPT ![k] = f]
    /\ Touch(k)

\* Qdrant ignores a missing point; the embedded store implements no partial
\* update and answers every SetPayload with an error.  No caller gives up.
SetPayload(k, f) ==
    \/ config.store = "qdrant" /\ facts[k] # NoFact /\ Upsert(k, f)
    \/ /\ config.store = "embedded" \/ facts[k] = NoFact \/ StoreFaults
       /\ UNCHANGED <<facts, fresh, moved>>

-----------------------------------------------------------------------------
(* Requests. *)

Begin(c, kind) ==
    /\ op[c] = "idle" /\ kind \in Ops /\ requests < MaxRequests
    /\ requests' = requests + 1
    /\ UNCHANGED crashes

Enter(c, next, k, f, n) ==
    /\ op' = [op EXCEPT ![c] = next]
    /\ key' = [key EXCEPT ![c] = k]
    /\ plan' = [plan EXCEPT ![c] = f]
    /\ newKey' = [newKey EXCEPT ![c] = n]

Leave(c) == Enter(c, "idle", NoKey, NoFact, NoKey)

\* POST /v1/facts: the existence check and the read of the stored fields, two
\* scrolls whose outcome is that of one (the first when it finds nothing, the
\* second otherwise).  When the second fails the handler logs the error and goes on as if the
\* fact did not exist.
PostRead(c, k, t, u, f) ==
    /\ Begin(c, "post")
    /\ \E old \in {facts[k]} \cup (IF ReadFaults THEN {NoFact} ELSE {}) :
          Enter(c, "post", k, PostPayload(old, t, u, f), NoKey)
    /\ fresh' = fresh \cup {c}
    /\ UNCHANGED <<facts, moved, history, todo, scans>>

\* The MCP upsert reads the same way; it has no valid_until.
UpsertRead(c, k, t, f) ==
    /\ Begin(c, "upsert")
    /\ \E old \in {facts[k]} \cup (IF ReadFaults THEN {NoFact} ELSE {}) :
          Enter(c, "upsert", k, PostPayload(old, t, "none", f), NoKey)
    /\ fresh' = fresh \cup {c}
    /\ UNCHANGED <<facts, moved, history, todo, scans>>

\* PUT /v1/facts?key=k; 404 when nothing is stored under k.
PutRead(c, k, e) ==
    /\ Begin(c, "put")
    /\ facts[k] # NoFact
    /\ Enter(c, "put", k, Apply(e, facts[k]), NoKey)
    /\ fresh' = fresh \cup {c}
    /\ UNCHANGED <<facts, moved, history, todo, scans>>

\* POST /v1/review?key=k.  No status is required of the fact.  A supersede
\* that carries a value creates the replacement first ("create").
ReviewRead(c, k, action, e, n, hasValue) ==
    /\ Begin(c, "review")
    /\ facts[k] # NoFact
    /\ hasValue => action = "supersede" /\ n # NoKey
    /\ Enter(c, IF hasValue THEN "create" ELSE "review", k,
             Apply(ReviewEdit(action, e, n), facts[k]), n)
    /\ fresh' = fresh \cup {c}
    /\ UNCHANGED <<facts, moved, history, todo, scans>>

\* A POST under a key with a version and a prefix starts
\* supersedeOlderVersions, which runs after the answer was sent.
NextAfterWrite(kind, k) ==
    IF kind = "post" /\ Family[k] # RootFamily THEN "autoQuery" ELSE "idle"

\* The upsert that ends a POST, MCP upsert, PUT or review without new value.
Write(c) ==
    /\ op[c] \in {"post", "upsert", "put", "review"}
    /\ Upsert(key[c], plan[c])
    /\ IF NextAfterWrite(op[c], key[c]) = "idle" THEN Leave(c)
       ELSE Enter(c, "autoQuery", key[c], NoFact, NoKey)
    /\ UNCHANGED <<history, todo, scans, budget>>

\* Mutant of ReviewCreate: the error of the first upsert is not looked at.
ReviewCreateGoesOn(c) ==
    /\ op[c] = "create"
    /\ \/ Upsert(newKey[c], Replacement(plan[c]))
       \/ UNCHANGED <<facts, fresh, moved>>
    /\ op' = [op EXCEPT ![c] = "retire"]
    /\ UNCHANGED <<history, key, plan, newKey, todo, scans, budget>>

\* A review supersede with a value: the replacement is stored first and the
\* old fact is marked in a second upsert.
ReviewCreate(c) ==
    /\ op[c] = "create"
    /\ Upsert(newKey[c], Replacement(plan[c]))
    /\ op' = [op EXCEPT ![c] = "retire"]
    /\ UNCHANGED <<history, key, plan, newKey, todo, scans, budget>>

ReviewRetire(c) ==
    /\ op[c] = "retire"
    /\ Upsert(key[c], plan[c])
    /\ replaced' = replaced \cup {<<key[c], newKey[c]>>}
    /\ Leave(c)
    /\ UNCHANGED <<deleted, config, todo, scans, budget>>

\* A failed upsert ends the request with an error; what an earlier upsert of
\* the same request stored stays.
WriteFails(c) ==
    /\ StoreFaults
    /\ op[c] \in WriteOps
    /\ Leave(c)
    /\ fresh' = fresh \ {c}
    /\ UNCHANGED <<facts, moved, history, todo, scans, budget>>

\* PATCH /v1/facts handles its keys one after the other; SetPayload merges
\* the given fields into the stored payload in the store.
PatchBegin(c, ks, e) ==
    /\ Begin(c, "patch")
    /\ ks # {}
    /\ op' = [op EXCEPT ![c] = "patch"]
    /\ todo' = [todo EXCEPT ![c] = ks]
    /\ plan' = [plan EXCEPT ![c] = PatchEdit(e)]
    /\ UNCHANGED <<store, key, newKey, scans>>

PatchStep(c, k) ==
    /\ op[c] = "patch" /\ k \in todo[c]
    /\ SetPayload(k, Apply(plan[c], facts[k]))
    /\ todo' = [todo EXCEPT ![c] = @ \ {k}]
    /\ IF todo[c] = {k} THEN Leave(c) ELSE UNCHANGED <<op, key, plan, newKey>>
    /\ UNCHANGED <<history, scans, budget>>

\* DELETE /v1/facts?key=k is a single filtered delete.
Delete(c, k) ==
    /\ Begin(c, "delete")
    /\ facts[k] # NoFact
    /\ Upsert(k, NoFact)
    /\ deleted' = deleted \cup {k}
    /\ UNCHANGED <<replaced, config, slots, scans>>

-----------------------------------------------------------------------------
(* supersedeOlderVersions. *)

\* Active facts of the family, the new fact itself excepted.  The version is
\* not compared.
OlderVersions(k) ==
    {j \in Active : j # k /\ Family[j] = Family[k]}

\* One scroll with limit 0, which Qdrant answers with at most ScrollLimit
\* points and the embedded store with all.  Which ones Qdrant picks is open: a
\* point stored without key_prefix (by the MCP upsert or as a review
\* replacement) may or may not match, and when it matches it takes up a place
\* whatever its family.
AutoQuery(c) ==
    /\ op[c] = "autoQuery"
    /\ \E page \in SUBSET OlderVersions(key[c]) :
          /\ IF config.store = "qdrant" THEN Cardinality(page) <= ScrollLimit
             ELSE page = OlderVersions(key[c])
          /\ todo' = [todo EXCEPT ![c] = page]
          /\ IF page = {} THEN Leave(c)
             ELSE Enter(c, "autoMark", key[c], NoFact, NoKey)
    /\ UNCHANGED <<store, scans, budget>>

AutoMark(c, k) ==
    /\ op[c] = "autoMark" /\ k \in todo[c]
    /\ SetPayload(k, [facts[k] EXCEPT !.status = "superseded"])
    /\ todo' = [todo EXCEPT ![c] = @ \ {k}]
    /\ IF todo[c] = {k} THEN Leave(c) ELSE UNCHANGED <<op, key, plan, newKey>>
    /\ UNCHANGED <<history, scans, budget>>

-----------------------------------------------------------------------------
(* Pruner scans.  Each scan is one goroutine that repeats on a ticker: it   *)
(* queries page by page, then handles the points it has collected.          *)

\* The range conditions in the filters of the three scans that only flag.  The
\* code reads the clock once per scan, here every page is read at its own time.
Due(s, f) ==
    CASE s = "StaleScan"         -> f.ttl = "past"
      [] s = "ExpiredScan"       -> f.until = "past"
      [] s = "LowConfidenceScan" -> f.conf = "low"

\* Mutant of Selects: the flagging filters have no condition on the status.
SelectsAnyStatus(s, f) ==
    CASE s \in FlagScans     -> config.store = "qdrant" => Due(s, f)
      [] s = "ConflictScan"  -> f.status = "active"
      [] s = "SupersedeScan" -> TRUE

\* Whether the filter of the scan's (first) query lets f through.  Of the
\* conditions the scans use, the embedded store knows equality in Must only:
\* it ignores the ranges and the MustNot of the other two scans.
Selects(s, f) ==
    CASE s \in FlagScans ->
            f.status = "active" /\ (config.store = "qdrant" => Due(s, f))
      [] s = "ConflictScan" ->
            f.status = "active" /\ (config.store = "qdrant" => ~f.resolved)
      [] s = "SupersedeScan" ->
            config.store = "qdrant" => f.supersedes # NoKey

Selected(s) == {k \in Stored : Selects(s, facts[k])}

\* scrollAllFilteredFacts passes the last point of a page as the offset of
\* the next.  Qdrant starts at the offset, so the last point comes again as
\* long as it matches; the embedded store starts after it.
Page(s, matching) ==
    LET rest == {k \in matching : IF config.store = "qdrant" THEN Id[k] >= offset[s]
                                  ELSE Id[k] > offset[s]}
    IN  {k \in rest : Cardinality({j \in rest : Id[j] < Id[k]}) < PageSize}

Advance(s, page) ==
    \E last \in page :
       /\ \A k \in page : Id[k] <= Id[last]
       /\ offset' = [offset EXCEPT ![s] = Id[last]]

\* A page that is not empty is collected, and the next one asked for.  seen
\* are the keys collected before; the first page finds none.
Collect(s, page, seen, pairs) ==
    /\ Advance(s, page)
    /\ work' = [work EXCEPT ![s] = @ \cup pairs]
    /\ moved' = [moved EXCEPT ![s] = IF offset[s] = 0 THEN {} ELSE @ \ page]
    /\ again' = [again EXCEPT ![s] = IF offset[s] = 0 THEN {}
                                     ELSE @ \cup (page \cap seen)]
    /\ UNCHANGED <<facts, fresh, history, slots, cur, curSet, budget>>

\* The query is over: the scan goes on to phase next with the pairs in rest.
GoOn(s, next, rest) ==
    /\ phase' = [phase EXCEPT ![s] = next]
    /\ work' = [work EXCEPT ![s] = rest]
    /\ offset' = [offset EXCEPT ![s] = 0]
    /\ again' = [again EXCEPT ![s] = IF rest = {} THEN {} ELSE @]
    /\ moved' = [moved EXCEPT ![s] = IF rest = {} THEN {} ELSE @]
    /\ UNCHANGED <<facts, fresh, history, slots, cur, budget>>

\* The low-confidence scan runs once per process, the others repeat.
Rest(s) == IF s = "LowConfidenceScan" THEN "done" ELSE "idle"

\* A page that cannot be read ends the scan, and what it has collected is lost;
\* the supersede scan goes on with its second half.
QueryFails(s) ==
    /\ StoreFaults
    /\ s \in config.scans /\ phase[s] \in {"idle", "query", "pattern"}
    /\ GoOn(s, IF s = "SupersedeScan" /\ phase[s] # "pattern" THEN "pattern"
               ELSE Rest(s), {})
    /\ UNCHANGED curSet

\* Scan s has handled pair p and goes on, in phase loop, with the rest of its
\* work.  A point that came on several pages is handled as often; how often is
\* left open.
Handled(s, p, loop, repeats) ==
    \E rest \in {work[s] \ {p}} \cup (IF repeats THEN {work[s]} ELSE {}) :
       /\ work' = [work EXCEPT ![s] = rest]
       /\ again' = [again EXCEPT ![s] = IF rest = {} THEN {} ELSE @]
       /\ phase' = [phase EXCEPT ![s] = IF rest # {} THEN loop
                                        ELSE IF loop = "cross" THEN "pattern"
                                        ELSE Rest(s)]

FlagPage(s) ==
    LET page == Page(s, Selected(s)) IN
    /\ s \in FlagScans \cap config.scans /\ phase[s] \in {"idle", "query"}
    /\ Collect(s, page, {p[1] : p \in work[s]}, page \X {NoKey})
    /\ phase' = [phase EXCEPT ![s] = "query"]

FlagQueryEnds(s) ==
    /\ s \in FlagScans \cap config.scans /\ phase[s] \in {"idle", "query"}
    /\ Page(s, Selected(s)) = {}
    /\ GoOn(s, IF work[s] = {} THEN Rest(s)
               ELSE IF s = "StaleScan" THEN "refs" ELSE "flag", work[s])
    /\ UNCHANGED curSet

\* collectReferencedKeys: keys an active fact supersedes, refines, supports
\* or contradicts.
ReferencedKeys(S) ==
    Keys \cap UNION {{facts[k].supersedes} \cup facts[k].contradicts
                        \cup facts[k].links : k \in S}

\* The second query of staleScan reads the active facts page by page ...
RefsPage ==
    LET s    == "StaleScan"
        page == Page(s, Active)
    IN
    /\ phase[s] = "refs"
    /\ Advance(s, page)
    /\ curSet' = [curSet EXCEPT ![s] = @ \cup ReferencedKeys(page)]
    /\ UNCHANGED <<store, slots, phase, work, again, cur, budget>>

\* ... and when it is over the facts to flag are chosen.  A failed query means
\* that no reference protects a fact; importance is an opaque score, so any
\* of the facts may be above the threshold.
StaleChoice ==
    LET s == "StaleScan" IN
    /\ phase[s] = "refs"
    /\ \E refs \in (IF Page(s, Active) = {} THEN {curSet[s]} ELSE {})
                      \cup (IF StoreFaults THEN {{}} ELSE {}),
          important \in IF ImportanceFilter THEN SUBSET Keys ELSE {{}} :
          LET rest == {p \in work[s] : p[1] \notin refs \cup important}
          IN  GoOn(s, IF rest = {} THEN "idle" ELSE "flag", rest)
    /\ curSet' = [curSet EXCEPT ![s] = {}]

\* updateFactStatus writes without looking at the status again.
FlagMark(s, p) ==
    /\ s \in FlagScans /\ phase[s] = "flag" /\ p \in work[s]
    /\ SetPayload(p[1], [facts[p[1]] EXCEPT !.status = "needs_review"])
    /\ Handled(s, p, "flag", p[1] \in again[s])
    /\ UNCHANGED <<history, slots, offset, cur, curSet, budget>>

ConflictPage ==
    LET s    == "ConflictScan"
        page == Page(s, Selected(s))
    IN
    /\ s \in config.scans /\ phase[s] \in {"idle", "query"}
    /\ Collect(s, page, {p[1] : p \in work[s]}, page \X {NoKey})
    /\ phase' = [phase EXCEPT ![s] = "query"]

\* conflictScan: a shuffled sample of the facts collected; the fact that comes
\* later in the sample is to be marked.  A fact that was collected twice comes
\* at two places and may be compared with itself.  Which pairs are similar is
\* up to the embeddings.
ConflictChoice ==
    LET s    == "ConflictScan"
        pool == {p[1] : p \in work[s]}
    IN
    /\ s \in config.scans /\ phase[s] \in {"idle", "query"}
    /\ Page(s, Selected(s)) = {}
    /\ \E rank \in [pool -> 1 .. Cardinality(pool)] :
          /\ \A i, j \in pool : rank[i] = rank[j] => i = j
          /\ \E similar \in SUBSET {p \in pool \X pool :
                   \/ rank[p[2]] < rank[p[1]]
                   \/ {p[1], p[2]} \cap again[s] # {}} :
                GoOn(s, IF similar = {} THEN "idle" ELSE "read", similar)
    /\ UNCHANGED curSet

\* Mutant of NewContradiction: a listed contradiction is flagged again.
AnyContradiction(f, other) == TRUE

\* A contradiction that is already listed is left alone, whatever the status.
NewContradiction(f, other) == other \notin f.contradicts

Copied(s, p) == {p[1], p[2]} \cap again[s] # {}

\* markContradiction reads the contradicts list; a pair whose fact is gone or
\* cannot be read is passed over ...
ConflictRead(p) ==
    LET s == "ConflictScan" IN
    /\ phase[s] = "read" /\ p \in work[s]
    /\ \/ /\ facts[p[1]] # NoFact /\ NewContradiction(facts[p[1]], p[2])
          /\ cur' = [cur EXCEPT ![s] = p]
          /\ curSet' = [curSet EXCEPT ![s] = facts[p[1]].contradicts \cup {p[2]}]
          /\ phase' = [phase EXCEPT ![s] = "write"]
          /\ moved' = [moved EXCEPT ![s] = @ \ {p[1]}]
          /\ UNCHANGED <<work, again>>
       \/ /\ (facts[p[1]] # NoFact /\ NewContradiction(facts[p[1]], p[2]))
                => StoreFaults
          /\ Handled(s, p, "read", Copied(s, p))
          /\ UNCHANGED <<cur, curSet, moved>>
    /\ UNCHANGED <<facts, fresh, history, slots, offset, budget>>

\* ... and writes it back with the new entry, together with the status.
ConflictWrite ==
    LET s == "ConflictScan"
        p == cur[s]
    IN
    /\ phase[s] = "write"
    /\ SetPayload(p[1], [facts[p[1]] EXCEPT !.contradicts = curSet[s],
                                            !.resolved = FALSE,
                                            !.status = "needs_review"])
    /\ Handled(s, p, "read", Copied(s, p))
    /\ cur' = [cur EXCEPT ![s] = <<NoKey, NoKey>>]
    /\ curSet' = [curSet EXCEPT ![s] = {}]
    /\ UNCHANGED <<history, slots, offset, budget>>

\* supersedeCrossReference: every fact with a supersedes value, of whatever
\* status, names a target.
Superseders == {k \in Stored : facts[k].supersedes # NoKey}

CrossPage ==
    LET s    == "SupersedeScan"
        page == Page(s, Selected(s))
    IN
    /\ s \in config.scans /\ phase[s] \in {"idle", "query"}
    /\ Collect(s, page, {p[2] : p \in work[s]},
               {<<facts[k].supersedes, k>> : k \in page \cap Superseders})
    /\ phase' = [phase EXCEPT ![s] = "query"]

CrossQueryEnds ==
    LET s == "SupersedeScan" IN
    /\ s \in config.scans /\ phase[s] \in {"idle", "query"}
    /\ Page(s, Selected(s)) = {}
    /\ GoOn(s, IF work[s] = {} THEN "pattern" ELSE "cross", work[s])
    /\ UNCHANGED curSet

\* A target that is gone, not active or cannot be read is passed over.
CrossRead(p) ==
    LET s == "SupersedeScan" IN
    /\ phase[s] = "cross" /\ p \in work[s]
    /\ \/ /\ p[1] \in Active
          /\ cur' = [cur EXCEPT ![s] = p]
          /\ phase' = [phase EXCEPT ![s] = "crossMark"]
          /\ moved' = [moved EXCEPT ![s] = @ \ {p[1]}]
          /\ UNCHANGED <<work, again>>
       \/ /\ p[1] \in Active => StoreFaults
          /\ Handled(s, p, "cross", p[2] \in again[s])
          /\ UNCHANGED <<cur, moved>>
    /\ UNCHANGED <<facts, fresh, history, slots, offset, curSet, budget>>

CrossMark ==
    LET s == "SupersedeScan"
        p == cur[s]
    IN
    /\ phase[s] = "crossMark"
    /\ SetPayload(p[1], [facts[p[1]] EXCEPT !.status = "superseded"])
    /\ Handled(s, p, "cross", p[2] \in again[s])
    /\ cur' = [cur EXCEPT ![s] = <<NoKey, NoKey>>]
    /\ UNCHANGED <<history, slots, offset, curSet, budget>>

\* Mutant of Outdated: the highest version is marked, too.
OutdatedAll(S) ==
    {k \in S : Version[k] >= 1 /\ \E h \in S \ {k} : Family[h] = Family[k]
                                               /\ Version[h] >= 1}

\* supersedeKeyPattern: the active facts below the highest active version of
\* their family, the root family included.
Outdated(S) ==
    {k \in S : Version[k] >= 1 /\ \E h \in S : Family[h] = Family[k]
                                         /\ Version[h] > Version[k]}

\* supersedeKeyPattern works from a query of its own.
PatternPage ==
    LET s    == "SupersedeScan"
        page == Page(s, Active)
    IN
    /\ phase[s] = "pattern"
    /\ Collect(s, page, {p[1] : p \in work[s]}, page \X {NoKey})
    /\ UNCHANGED phase

PatternQueryEnds ==
    LET s   == "SupersedeScan"
        old == Outdated({p[1] : p \in work[s]})
    IN
    /\ phase[s] = "pattern"
    /\ Page(s, Active) = {}
    /\ GoOn(s, IF old = {} THEN "idle" ELSE "retire", old \X {NoKey})
    /\ UNCHANGED curSet

PatternMark(p) ==
    LET s == "SupersedeScan" IN
    /\ phase[s] = "retire" /\ p \in work[s]
    /\ SetPayload(p[1], [facts[p[1]] EXCEPT !.status = "superseded"])
    /\ Handled(s, p, "retire", p[1] \in again[s])
    /\ UNCHANGED <<history, slots, offset, cur, curSet, budget>>

-----------------------------------------------------------------------------
(* Environment. *)

\* Time passes a fact's deadline.
Lapse(k) ==
    /\ facts[k] # NoFact
    /\ \/ facts[k].ttl = "live" /\ facts' = [facts EXCEPT ![k].ttl = "past"]
       \/ facts[k].until = "live" /\ facts' = [facts EXCEPT ![k].until = "past"]
    /\ UNCHANGED <<fresh, moved, history, slots, scans, budget>>

\* The process dies and starts again: the collection survives, requests,
\* goroutines and scans do not.
Restart ==
    /\ crashes < MaxCrashes
    /\ crashes' = crashes + 1
    /\ op' = [c \in Slots |-> "idle"]
    /\ key' = [c \in Slots |-> NoKey]
    /\ plan' = [c \in Slots |-> NoFact]
    /\ newKey' = [c \in Slots |-> NoKey]
    /\ todo' = [c \in Slots |-> {}]
    /\ phase' = [s \in AllScans |-> "idle"]
    /\ offset' = [s \in AllScans |-> 0]
    /\ work' = [s \in AllScans |-> {}]
    /\ again' = [s \in AllScans |-> {}]
    /\ cur' = [s \in AllScans |-> <<NoKey, NoKey>>]
    /\ curSet' = [s \in AllScans |-> {}]
    /\ fresh' = {}
    /\ moved' = [s \in AllScans |-> {}]
    /\ UNCHANGED <<facts, history, requests>>

-----------------------------------------------------------------------------

\* The process starts on a collection that holds facts POSTed earlier, some
\* of them edited since.
Init ==
    /\ config \in Configs
    /\ LET posted == {NewFact(t, u, c) : t \in Ttls, u \in Untils, c \in Confs}
       IN  facts \in [Keys -> {NoFact} \cup posted
                                \cup {Apply(e, f) : e \in Edits, f \in posted}]
    /\ op = [c \in Slots |-> "idle"]
    /\ key = [c \in Slots |-> NoKey]
    /\ plan = [c \in Slots |-> NoFact]
    /\ newKey = [c \in Slots |-> NoKey]
    /\ todo = [c \in Slots |-> {}]
    /\ phase = [s \in AllScans |-> "idle"]
    /\ offset = [s \in AllScans |-> 0]
    /\ work = [s \in AllScans |-> {}]
    /\ again = [s \in AllScans |-> {}]
    /\ cur = [s \in AllScans |-> <<NoKey, NoKey>>]
    /\ curSet = [s \in AllScans |-> {}]
    /\ fresh = {}
    /\ moved = [s \in AllScans |-> {}]
    /\ replaced = {} /\ deleted = {}
    /\ requests = 0
    /\ crashes = 0

ReviewActions == {"confirm", "reject", "supersede", "reclassify"}

SlotStep(c) ==
    \/ Write(c) \/ ReviewCreate(c) \/ ReviewRetire(c) \/ WriteFails(c)
    \/ AutoQuery(c)
    \/ \E k \in Keys : PatchStep(c, k) \/ AutoMark(c, k)

Request(c) ==
    \E k \in Keys :
       \/ \E t \in Ttls, f \in Confs :
             \/ \E u \in Untils : PostRead(c, k, t, u, f)
             \/ UpsertRead(c, k, t, f)
       \/ \E e \in Edits :
             \/ PutRead(c, k, e)
             \/ \E a \in ReviewActions, n \in Keys \cup {NoKey}, v \in BOOLEAN :
                   ReviewRead(c, k, a, e, n, v)
       \/ Delete(c, k)

Patch(c) == \E ks \in SUBSET Keys, e \in Edits : PatchBegin(c, ks, e)

ScanStep(s) ==
    \/ QueryFails(s) \/ FlagPage(s) \/ FlagQueryEnds(s)
    \/ \E p \in work[s] : FlagMark(s, p)
    \/ s = "StaleScan" /\ (RefsPage \/ StaleChoice)
    \/ s = "ConflictScan" /\ (\/ ConflictPage \/ ConflictChoice \/ ConflictWrite
                              \/ \E p \in work[s] : ConflictRead(p))
    \/ s = "SupersedeScan" /\ (\/ CrossPage \/ CrossQueryEnds \/ CrossMark
                               \/ PatternPage \/ PatternQueryEnds
                               \/ \E p \in work[s] : CrossRead(p) \/ PatternMark(p))

Next ==
    \/ \E c \in Slots : Request(c) \/ Patch(c) \/ SlotStep(c)
    \/ \E s \in AllScans : ScanStep(s)
    \/ \E k \in Keys : Lapse(k)
    \/ Restart

Spec == Init /\ [][Next]_vars

\* Handlers, goroutines and tickers keep running; requests, deadlines and
\* crashes come as they please.
Fairness ==
    /\ \A c \in Slots : WF_vars(SlotStep(c))
    /\ \A s \in AllScans : WF_vars(ScanStep(s))

FairSpec == Spec /\ Fairness

-----------------------------------------------------------------------------
(* Properties. *)

Pairs == Keys \X (Keys \cup {NoKey})

StoreType ==
    /\ facts \in [Keys -> Fact \cup {NoFact}]
    /\ fresh \in SUBSET Slots
    /\ moved \in [AllScans -> SUBSET Keys]
    /\ replaced \in SUBSET (Keys \X Keys)
    /\ deleted \in SUBSET Keys
    /\ config \in Configs

SlotType ==
    /\ op \in [Slots -> WriteOps \cup {"idle", "patch", "autoQuery", "autoMark"}]
    /\ key \in [Slots -> Keys \cup {NoKey}]
    /\ plan \in [Slots -> {NoFact} \cup Fact \cup Edit]
    /\ newKey \in [Slots -> Keys \cup {NoKey}]
    /\ todo \in [Slots -> SUBSET Keys]
    /\ \A c \in Slots :
          /\ op[c] \in WriteOps => key[c] \in Keys /\ plan[c] \in Fact
          /\ op[c] \in {"create", "retire"} => newKey[c] \in Keys
          /\ op[c] = "patch" => plan[c] \in Edit
          /\ op[c] \in {"autoQuery", "autoMark"} => key[c] \in Keys

ScanType ==
    /\ phase \in [AllScans -> {"idle", "done", "query", "refs", "flag", "read",
                               "write", "cross", "crossMark", "pattern", "retire"}]
    /\ offset \in [AllScans -> Nat]
    /\ work \in [AllScans -> SUBSET Pairs]
    /\ again \in [AllScans -> SUBSET Keys]
    /\ cur \in [AllScans -> Pairs \cup {<<NoKey, NoKey>>}]
    /\ curSet \in [AllScans -> SUBSET Keys]
    /\ \A s \in AllScans :
          /\ phase[s] \in {"write", "crossMark"} => cur[s] \in Pairs
          /\ phase[s] \in {"idle", "done"} => work[s] = {}
          /\ phase[s] \notin {"query", "refs", "pattern"} => offset[s] = 0
          /\ phase[s] = "query" => offset[s] # 0
          /\ (phase[s] = "pattern" /\ offset[s] = 0) => work[s] = {}
    /\ phase["ConflictScan"] \in {"read", "write"} =>
          work["ConflictScan"] \subseteq Keys \X Keys

BudgetType == requests \in 0 .. MaxRequests /\ crashes \in 0 .. MaxCrashes

\* The typing invariant: every field has its type, and what a slot or a scan
\* holds agrees with what it does next.
TypeOK == StoreType /\ SlotType /\ ScanType /\ BudgetType

\* The fields POST calls server-managed and promises to carry forward.
Lifecycle(f) == <<f.status, f.supersedes, f.contradicts, f.links, f.resolved>>

\* While no other writer has come between, a POST or an MCP upsert is about to
\* store every server-managed field as it is stored now, so that it neither
\* revives a retired fact nor drops a contradiction (handleFactsPost and
\* doFactsUpsert: "preserve server-managed lifecycle fields").
UpsertKeepsLifecycle ==
    \A c \in Slots :
       (op[c] \in {"post", "upsert"} /\ c \in fresh /\ facts[key[c]] # NoFact)
          => Lifecycle(plan[c]) = Lifecycle(facts[key[c]])

\* A scan that only flags (staleScan, expiredScan, lowConfidenceScan) holds
\* only facts that are still active and, over Qdrant, still due, except those
\* someone has written since the scan last read them.  The embedded store
\* leaves the range conditions out of its filters.
FlagIsJustified ==
    \A s \in FlagScans : \A p \in work[s] :
       p[1] \notin moved[s] =>
          /\ facts[p[1]] # NoFact
          /\ facts[p[1]].status = "active"
          /\ config.store = "qdrant" => Due(s, facts[p[1]])

\* markContradiction writes back exactly the stored contradicts list and one
\* new key, unless someone has written the fact since it read the list: no
\* recorded contradiction is lost and none is flagged a second time.
ContradictionsGrow ==
    LET s == "ConflictScan"
        k == cur[s][1]
    IN  (phase[s] = "write" /\ k \notin moved[s]) =>
          /\ facts[k] # NoFact
          /\ curSet[s] = facts[k].contradicts \cup {cur[s][2]}
          /\ cur[s][2] \notin facts[k].contradicts

\* supersedeCrossReference marks a target it saw active, and supersedeKeyPattern
\* marks a version only because of a higher one that is still active, unless
\* the fact in question was written since.
SupersessionIsJustified ==
    LET s == "SupersedeScan" IN
    /\ (phase[s] = "crossMark" /\ cur[s][1] \notin moved[s]) => cur[s][1] \in Active
    /\ phase[s] = "retire" =>
         \A p \in work[s] :
            \E h \in Keys : /\ Family[h] = Family[p[1]]
                            /\ Version[h] > Version[p[1]]
                            /\ h \in Active \cup moved[s]

\* A fact that was retired in favour of a replacement has one: whatever fails,
\* whoever interferes and whenever the process dies, the replacement is
\* stored unless a DELETE was served for it (handleReviewPost stores it
\* before it retires the old fact).
ReplacementExists ==
    \A p \in replaced : facts[p[2]] # NoFact \/ p[2] \in deleted

-----------------------------------------------------------------------------
(* What comments and documents say and the code does not do. *)

\* README.md: "Pruner StaleScan marks expired facts as needs_review".  Every
\* fact past its TTL ends up out of the active set, or is protected by a
\* reference from an active fact.
StaleFactsLeave ==
    <>[](\A k \in Active : facts[k].ttl = "past" =>
            \E j \in Active : \/ facts[j].supersedes = k
                              \/ k \in facts[j].contradicts \cup facts[j].links)

\* docs/fact-lifecycle.md: a scan flags active facts.  No scan ever takes a
\* fact that is not active to needs_review.
OnlyActiveFactsAreFlagged ==
    [][\A k \in Keys :
          (/\ facts[k] # NoFact /\ facts'[k] # NoFact
           /\ facts'[k].status = "needs_review"
           /\ facts[k].status \in {"rejected", "superseded"})
          => \E c \in Slots : op'[c] # op[c]]_vars

\* supersedeOlderVersions: "the same prefix and a lower version".
OnlyLowerVersionsAreSuperseded ==
    \A c \in Slots : op[c] = "autoMark" =>
       \A k \in todo[c] : Version[k] < Version[key[c]]

\* A review supersede leaves its replacement in force: no scan supersedes it
\* on account of the fact it replaced.
ReplacementStaysInForce ==
    LET s == "SupersedeScan" IN
    phase[s] = "crossMark" => <<cur[s][2], cur[s][1]>> \notin replaced

=============================================================================

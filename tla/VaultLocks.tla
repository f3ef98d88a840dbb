----------------------------- MODULE VaultLocks ------------------------------
(***************************************************************************)
(* The two locks the vault handlers share: the server's mutex s.mu and the *)
(* indexer manager's read-write lock m.mu.  A handler is the sequence of   *)
(* its lock operations.  A writer that waits for m.mu keeps new readers    *)
(* out (sync.RWMutex), which is what lets a reader wait for another one.   *)
(***************************************************************************)
EXTENDS Integers, Sequences, FiniteSets

CONSTANTS Requests, Kinds, RegisteredVaults

VARIABLES
    kind,    \* the handler a request runs, "none" before it starts
    done,    \* lock operations the request has completed
    pending  \* writers that have announced themselves on m.mu

vars == <<kind, done, pending>>

(* "S" and "s" lock and unlock s.mu, "R" and "r" read-lock and release m.mu, *)
(* "W" announces a writer of m.mu, "X" waits for the lock, "w" releases it.  *)
Peek  == <<"R", "r">>
Write == <<"W", "X", "w">>
Entry == <<"S", "s">>

(* Manager.ForEach holds m.mu while its callback takes s.mu for each vault. *)
handleListVaults ==
    LET inner == [i \in 1..2 * RegisteredVaults |-> IF i % 2 = 1 THEN "S" ELSE "s"]
    IN  <<"R">> \o inner \o <<"r">>
(* The existence checks ask the manager inside the locked section. *)
handleCreateVault  == <<"S", "R", "r", "s">> \o Entry
handleVaultDelete  == Peek \o Peek \o Peek \o Entry \o Write
handleVaultMerge   == Peek \o Peek \o Write
handleVaultArchive == Peek \o Entry \o Write
provisionVault     == Peek \o Write \o Write \o Entry
countRequest       == Entry

Program(k) ==
    CASE k = "list" -> handleListVaults  [] k = "create" -> handleCreateVault
      [] k = "delete" -> handleVaultDelete  [] k = "merge" -> handleVaultMerge
      [] k = "archive" -> handleVaultArchive  [] k = "provision" -> provisionVault
      [] k = "count" -> countRequest  [] OTHER -> <<>>

TypeOK ==
    /\ kind \in [Requests -> Kinds \cup {"none"}]
    /\ done \in [Requests -> Nat]
    /\ \A r \in Requests : done[r] \in 0..Len(Program(kind[r]))
    /\ pending \subseteq Requests

Done(r, op) == Cardinality({i \in 1..done[r] : Program(kind[r])[i] = op})
Holds(r, acquire, release) == Done(r, acquire) > Done(r, release)

Finished(r) == kind[r] # "none" /\ done[r] = Len(Program(kind[r]))
NextOp(r)   == Program(kind[r])[done[r] + 1]

(* May the next operation of r complete? *)
CanProceed(r) ==
    CASE NextOp(r) = "S" -> \A q \in Requests : ~Holds(q, "S", "s")
      [] NextOp(r) = "R" -> pending = {} /\ \A q \in Requests : ~Holds(q, "X", "w")
      [] NextOp(r) = "X" -> /\ \A q \in Requests : ~Holds(q, "R", "r")
                            /\ \A q \in Requests : ~Holds(q, "X", "w")
      [] NextOp(r) = "W" -> pending = {}    \* writers queue behind each other
      [] OTHER -> TRUE

Init ==
    /\ kind = [r \in Requests |-> "none"]
    /\ done = [r \in Requests |-> 0] /\ pending = {}

Start(r) ==
    /\ kind[r] = "none"
    /\ \E k \in Kinds : kind' = [kind EXCEPT ![r] = k]
    /\ UNCHANGED <<done, pending>>

LockOperation(r) ==
    /\ kind[r] # "none" /\ ~Finished(r) /\ CanProceed(r)
    /\ done' = [done EXCEPT ![r] = @ + 1]
    /\ pending' = CASE NextOp(r) = "W" -> pending \cup {r}
                    [] NextOp(r) = "w" -> pending \ {r}
                    [] OTHER -> pending
    /\ UNCHANGED kind

AllFinished == (\A r \in Requests : Finished(r)) /\ UNCHANGED vars

Next == (\E r \in Requests : Start(r) \/ LockOperation(r)) \/ AllFinished

Spec == Init /\ [][Next]_vars

(* Handlers that have taken a lock get to their end: they never wait for   *)
(* each other in a circle (manager_test.go:178, "timeout waiting for       *)
(* concurrent access"; SPEC.md:1868, "Concurrency without bugs").          *)
NoGridlock ==
    LET active == {r \in Requests : kind[r] # "none" /\ ~Finished(r)}
    IN  active # {} => \E r \in active : CanProceed(r)
=============================================================================

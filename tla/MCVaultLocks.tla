----------------------------- MODULE MCVaultLocks ----------------------------
(* Three requests, any handler each, over two registered vaults. *)
EXTENDS VaultLocks, TLC

CONSTANTS r1, r2, r3

MCRequests == {r1, r2, r3}
MCKinds    == {"list", "create", "delete", "merge", "archive", "provision", "count"}

RequestSymmetry == Permutations(MCRequests)
=============================================================================

--------------------------- MODULE MCVaultIndex ---------------------------
(* Small instances of VaultIndex for TLC. *)
EXTENDS VaultIndex, TLC

\* A file at the vault's root and one of the same name in a directory.
TwoFiles   == {"a", "sub/a"}
MCRoot     == [p \in Paths |-> "a"]

OneFile    == [p \in Paths |-> IF p = "a" THEN 1 ELSE 0]
NoFile     == [p \in Paths |-> 0]

\* Contents of two batches, of one, and of none.
MCBatches  == [v \in Contents |-> IF v = 0 THEN 0
                                  ELSE CASE v % 3 = 0 -> 1
                                         [] v % 3 = 1 -> 2
                                         [] v % 3 = 2 -> IF v = 5 THEN 0 ELSE 1]

\* Requests are interchangeable.
Symmetry == Permutations(Requesters)
=============================================================================

--------------------------- MODULE MCVaultRegistry ---------------------------
(* Two vaults, one of them configured at start, two concurrent requests, and *)
(* two chunks of one source.                                                 *)
EXTENDS VaultRegistry, TLC

CONSTANTS v1, v2, r1, r2

MCVaults == {v1, v2}
MCBoot   == {v1}
MCAgents == {v2}
MCChunks == 1..2
MCSource == [c \in MCChunks |-> "note.md"]
MCRequests == {r1, r2}

RequestSymmetry == Permutations(MCRequests)
=============================================================================

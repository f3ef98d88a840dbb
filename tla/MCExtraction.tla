---------------------------- MODULE MCExtraction ----------------------------
(* A small instance of Extraction for TLC. *)
EXTENDS Extraction

\* Values are similar to themselves only.
Same == {<<v, v>> : v \in Value}
=============================================================================

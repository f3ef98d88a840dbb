----------------------------- MODULE MCSessions -----------------------------
(* A small instance of Sessions for TLC. *)
EXTENDS Sessions, TLC

\* A user's turn, and an assistant's that announces a decision.
MCTurn == {[role |-> "user", decision |-> FALSE], [role |-> "assistant", decision |-> TRUE]}

MCParts ==
    {[work |-> {"index"}, sessions |-> 2, turns |-> 2],
     [work |-> {"finalize"}, sessions |-> 2, turns |-> 2],
     [work |-> {"consolidate"}, sessions |-> 3, turns |-> 1]}
=============================================================================

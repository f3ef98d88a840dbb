------------------------------ MODULE Listing ------------------------------
(***************************************************************************)
(* What the reader of a whole collection relies on, whatever store holds   *)
(* it: points come and go while the listing is under way; it shows a point *)
(* once; and if it ends as complete it has shown every point that was      *)
(* there all along.  Reading page by page (module Paging) implements this  *)
(* for some pairs of a store and a loop, and not for others.               *)
(***************************************************************************)
EXTENDS Naturals

CONSTANT Point

VARIABLES stored,    \* the points the listing is meant to show
          phase,
          kept,      \* those of them that have been there since it began
          shown,     \* those it has shown
          again      \* whether it has shown one a second time

lvars == <<stored, phase, kept, shown, again>>

LInit == /\ stored \in SUBSET Point
         /\ phase = "idle" /\ kept = {} /\ shown = {} /\ again = FALSE

\* Writers replace what is stored; the listing owes only what stays.
Change == /\ stored' \in SUBSET Point
          /\ kept' = IF phase = "listing" THEN kept \cap stored' ELSE kept
          /\ UNCHANGED <<phase, shown, again>>

Start == /\ phase # "listing"
         /\ phase' = "listing" /\ kept' = stored /\ shown' = {}
         /\ UNCHANGED <<stored, again>>

\* A page shows points that are there and have not been shown.
Show == /\ phase = "listing"
        /\ \E page \in SUBSET (stored \ shown) : shown' = shown \cup page
        /\ phase' \in {"listing", "complete", "incomplete"}
        /\ phase' = "complete" => kept \subseteq shown'
        /\ UNCHANGED <<stored, kept, again>>

LNext == Change \/ Start \/ Show

LSpec == LInit /\ [][LNext]_lvars
=============================================================================

----------------------------- MODULE MCShutdown ------------------------------
(* One upload, and more file events than the channels hold. *)
EXTENDS Shutdown

CONSTANT r1

Uploads == {r1}
=============================================================================

------------------------------ MODULE MCCapture ------------------------------
(* Capture on small instances; the constants are in the .cfg files. *)
EXTENDS Capture
=============================================================================

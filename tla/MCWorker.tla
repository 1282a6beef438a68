------------------------------ MODULE MCWorker ------------------------------
(* Worker on small instances; the constants are in the .cfg files. *)
EXTENDS Worker
=============================================================================

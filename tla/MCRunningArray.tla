--------------------------- MODULE MCRunningArray ---------------------------
(* RunningArray on small instances; the constants are in the .cfg file. *)
EXTENDS RunningArray, TLC

AddressSymmetry == Permutations(Address)
=============================================================================

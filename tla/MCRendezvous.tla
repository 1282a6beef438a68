---------------------------- MODULE MCRendezvous ----------------------------
(* Rendezvous on small instances. *)
EXTENDS Rendezvous, TLC

\* Processes are only ever compared for equality.
ProcessSymmetry == Permutations(Client) \cup Permutations(Daemon)
=============================================================================

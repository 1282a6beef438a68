----------------------------- MODULE MCSaturnd -----------------------------
(* Saturnd on small instances; the constants are in the .cfg files. *)
EXTENDS SaturndInv
=============================================================================

--------------------------- MODULE MCPersistentLOB ---------------------------
(* Instances of PersistentLOB for TLC; the bounds are in the .cfg files. *)
EXTENDS PersistentLOB
=============================================================================

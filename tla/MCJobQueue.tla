----------------------------- MODULE MCJobQueue -----------------------------
(* Model-checking instances of JobQueue: workers, runs and cores are model  *)
(* values of the cfg files.                                                 *)
EXTENDS JobQueue
=============================================================================

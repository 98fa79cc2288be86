--------------------------- MODULE MCTelemetryRing ---------------------------
(* Model-checking instances of TelemetryRing: the constants are in the cfg  *)
(* files.                                                                   *)
EXTENDS TelemetryRing
=============================================================================

---------------------------- MODULE MCRendezvous ----------------------------
(* Instances of Rendezvous for TLC; the bounds are in the .cfg files. *)
EXTENDS Rendezvous
=============================================================================

---------------------------- MODULE MCReplicator ----------------------------
(* Small instances of Replicator for TLC.                                  *)
EXTENDS Replicator
=============================================================================

-------------------------- MODULE MCLeaderFollower --------------------------
(* Small instances of LeaderFollower for TLC.                              *)
EXTENDS LeaderFollower, TLC

Permuted == Permutations(Writes)
=============================================================================

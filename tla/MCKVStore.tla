----------------------------- MODULE MCKVStore -----------------------------
(* Small instances of KVStore for TLC.                                     *)
EXTENDS KVStore, TLC

Permuted == Permutations(Threads)
=============================================================================

-------------------------------- MODULE LWW --------------------------------
(***************************************************************************)
(* The version order of common/models.py and what KVStore.put of           *)
(* common/storage.py makes of it: last write wins, decided by wall-clock   *)
(* timestamp and, on an exact tie, by node_id.                             *)
(*                                                                         *)
(* Timestamps are naturals (only their order matters).  A node_id is the   *)
(* natural number that ranks it in Python's string order, so ">" on ranks  *)
(* is ">" on the strings.                                                  *)
(***************************************************************************)
EXTENDS Integers

CONSTANT NoEntry      \* dict.get's None: the key is not in the store

\* The records a store can hold for writes of payloads V made by nodes N.
VersionedValue(V, N) == [value : V, timestamp : Nat, node_id : N]

\* Mutant of is_newer_than: no tie-break on node_id.
ByTimestampOnly(a, b) == a.timestamp > b.timestamp

\* VersionedValue.is_newer_than: a wins over b.
is_newer_than(a, b) ==
    IF a.timestamp # b.timestamp
    THEN a.timestamp > b.timestamp
    ELSE a.node_id > b.node_id

\* KVStore.put's return value: FALSE means "rejected as stale".
Applies(current, incoming) ==
    current = NoEntry \/ is_newer_than(incoming, current)

\* Mutant of Put: the last write to arrive wins.
LastArrivalWins(current, incoming) == incoming

\* The entry KVStore.put leaves at the key.
Put(current, incoming) ==
    IF Applies(current, incoming) THEN incoming ELSE current

\* The entry is v or something that beats v: v is not lost at this store.
Holds(entry, v) == entry # NoEntry /\ ~is_newer_than(v, entry)
=============================================================================

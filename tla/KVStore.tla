------------------------------ MODULE KVStore ------------------------------
(***************************************************************************)
(* common/storage.py's KVStore under the handlers of common/server.py.     *)
(* FastAPI runs the plain "def" handlers on a thread pool, so several      *)
(* threads are inside the store's methods at once; a thread can be         *)
(* preempted between any two of the steps below, also while it holds the   *)
(* lock.                                                                   *)
(***************************************************************************)
EXTENDS LWW, FiniteSets

CONSTANTS
    Threads,        \* the thread pool
    Keys,
    NodeId,         \* this node's own rank (see LWW)
    PeerId,         \* rank of the node whose writes arrive by /internal/replicate
    Timestamps,     \* bound: what time.time() may return
    NoThread,       \* the lock is free
    NoRequest       \* the thread is serving no request

VARIABLES
    data,           \* self._data
    lock,           \* self._lock: its holder
    clock,          \* the last reading of time.time()
    pc,             \* [Threads -> where in the operation the thread is]
    op,             \* [Threads -> the request being served]
    current,        \* [Threads -> what the method read under the lock]
    ret             \* [Threads -> the method's return value]

vars == <<data, lock, clock, pc, op, current, ret>>

Payloads == {"x"}
Version  == VersionedValue(Payloads, {NodeId, PeerId})
Entry    == Version \cup {NoEntry}
Requests == [kind : {"put"}, key : Keys,
             version : [value : Payloads, timestamp : Timestamps, node_id : {NodeId, PeerId}]]
            \cup [kind : {"get", "delete", "count"}, key : Keys, version : {NoEntry}]

ASSUME RanksAssumption == NodeId \in Nat /\ PeerId \in Nat /\ NodeId # PeerId
ASSUME ClockAssumption == Timestamps \subseteq Nat
ASSUME ThreadsAssumption == NoThread \notin Threads /\ IsFiniteSet(Keys) /\ NoRequest \notin Requests
ASSUME AbsentAssumption == NoEntry \notin Version

TypeOK ==
    /\ data \in [Keys -> Entry]
    /\ lock \in Threads \cup {NoThread}
    /\ clock \in Nat
    /\ pc \in [Threads -> {"idle", "entry", "locked", "read", "leaving"}]
    /\ current \in [Threads -> Entry]
    /\ \A t \in Threads : pc[t] # "idle" =>
         /\ op[t].kind \in {"put", "get", "delete", "count"}
         /\ op[t].key \in Keys
         /\ op[t].kind = "put" => op[t].version \in Version

Init ==
    /\ data = [k \in Keys |-> NoEntry]
    /\ lock = NoThread
    /\ clock = 0
    /\ pc = [t \in Threads |-> "idle"]
    /\ op = [t \in Threads |-> NoRequest]
    /\ current = [t \in Threads |-> NoEntry]
    /\ ret = [t \in Threads |-> NoEntry]

Enter(t, request) ==
    /\ pc[t] = "idle"
    /\ pc' = [pc EXCEPT ![t] = "entry"]
    /\ op' = [op EXCEPT ![t] = request]
    /\ UNCHANGED <<data, lock, current, ret>>

\* put_key: the timestamp is taken before the store's lock is.
put_key(t, k, ts) ==
    /\ ts >= clock
    /\ clock' = ts
    /\ Enter(t, [kind |-> "put", key |-> k,
                 version |-> [value |-> "x", timestamp |-> ts, node_id |-> NodeId]])

\* replicate: the version comes with the request, as old or new as it may be.
replicate(t, k, ts) ==
    /\ UNCHANGED clock
    /\ Enter(t, [kind |-> "put", key |-> k,
                 version |-> [value |-> "x", timestamp |-> ts, node_id |-> PeerId]])

\* get_key, delete_key and health.
Request(t, kind, k) ==
    /\ UNCHANGED clock
    /\ Enter(t, [kind |-> kind, key |-> k, version |-> NoEntry])

\* Mutant of Acquire: the with block is missing.
EnterUnlocked(t) ==
    /\ pc[t] = "entry"
    /\ lock' = t
    /\ pc' = [pc EXCEPT ![t] = "locked"]
    /\ UNCHANGED <<data, clock, op, current, ret>>

\* "with self._lock": one thread at a time.
Acquire(t) ==
    /\ pc[t] = "entry"
    /\ lock = NoThread
    /\ lock' = t
    /\ pc' = [pc EXCEPT ![t] = "locked"]
    /\ UNCHANGED <<data, clock, op, current, ret>>

\* self._data.get(key), "key in self._data"
ReadCurrent(t) ==
    /\ pc[t] = "locked"
    /\ op[t].kind # "count"
    /\ current' = [current EXCEPT ![t] = data[op[t].key]]
    /\ pc' = [pc EXCEPT ![t] = "read"]
    /\ UNCHANGED <<data, lock, clock, op, ret>>

Finish(t, value) ==
    /\ pc' = [pc EXCEPT ![t] = "leaving"]
    /\ ret' = [ret EXCEPT ![t] = value]
    /\ UNCHANGED <<lock, clock, op, current>>

\* Mutant of put: an equal version is applied again.
PutOnTie(t) ==
    /\ pc[t] = "read"
    /\ op[t].kind = "put"
    /\ IF current[t] # NoEntry /\ is_newer_than(current[t], op[t].version)
       THEN Finish(t, FALSE) /\ UNCHANGED data
       ELSE /\ data' = [data EXCEPT ![op[t].key] = op[t].version]
            /\ Finish(t, TRUE)

\* Mutant of put: the version loses its writer.
PutAnonymous(t) ==
    /\ pc[t] = "read"
    /\ op[t].kind = "put"
    /\ data' = [data EXCEPT ![op[t].key] = [op[t].version EXCEPT !.node_id = 0]]
    /\ Finish(t, TRUE)

\* KVStore.put: compare with what was read, store or reject as stale.
put(t) ==
    /\ pc[t] = "read"
    /\ op[t].kind = "put"
    /\ IF current[t] # NoEntry /\ ~is_newer_than(op[t].version, current[t])
       THEN Finish(t, FALSE) /\ UNCHANGED data
       ELSE /\ data' = [data EXCEPT ![op[t].key] = op[t].version]
            /\ Finish(t, TRUE)

\* KVStore.get
get(t) ==
    /\ pc[t] = "read"
    /\ op[t].kind = "get"
    /\ Finish(t, current[t])
    /\ UNCHANGED data

\* KVStore.delete
delete(t) ==
    /\ pc[t] = "read"
    /\ op[t].kind = "delete"
    /\ data' = IF current[t] # NoEntry THEN [data EXCEPT ![op[t].key] = NoEntry] ELSE data
    /\ Finish(t, current[t] # NoEntry)

\* KVStore.key_count
key_count(t) ==
    /\ pc[t] = "locked"
    /\ op[t].kind = "count"
    /\ Finish(t, Cardinality({k \in Keys : data[k] # NoEntry}))
    /\ UNCHANGED data

\* Leaving the with block; the handler builds its response from ret and the
\* method's locals are gone.
Release(t) ==
    /\ pc[t] = "leaving"
    /\ lock' = NoThread
    /\ pc' = [pc EXCEPT ![t] = "idle"]
    /\ op' = [op EXCEPT ![t] = NoRequest]
    /\ current' = [current EXCEPT ![t] = NoEntry]
    /\ ret' = [ret EXCEPT ![t] = NoEntry]
    /\ UNCHANGED <<data, clock>>

Next ==
    \E t \in Threads :
        \/ \E k \in Keys, ts \in Timestamps : put_key(t, k, ts) \/ replicate(t, k, ts)
        \/ \E k \in Keys, kind \in {"get", "delete", "count"} : Request(t, kind, k)
        \/ Acquire(t)
        \/ ReadCurrent(t)
        \/ put(t) \/ get(t) \/ delete(t) \/ key_count(t)
        \/ Release(t)

Spec == Init /\ [][Next]_vars

-----------------------------------------------------------------------------
(* Properties                                                              *)

\* The refinement mapping: an operation takes effect when it decides what to
\* return, and it is done from then until the lock is released.
AtomicState(t) ==
    IF pc[t] = "idle" THEN "idle" ELSE IF pc[t] = "leaving" THEN "done" ELSE "called"

Atomic == INSTANCE AtomicStore WITH state <- [t \in Threads |-> AtomicState(t)]

\* storage.py's class comment, "operations are atomic with respect to each
\* other": every interleaving of the threads' steps is one of the atomic store.
ImplementsAtomicStore == Atomic!ASpec

\* Only one thread is between acquiring and releasing the lock, and what a put
\* compares against is what the store still holds when it decides.
NoStaleCompare ==
    \A t \in Threads : pc[t] = "read" => lock = t /\ current[t] = data[op[t].key]
=============================================================================

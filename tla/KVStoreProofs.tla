--------------------------- MODULE KVStoreProofs ---------------------------
(***************************************************************************)
(* Machine-checked proofs about KVStore, for any number of threads, keys   *)
(* and timestamps: the store's methods are atomic.                         *)
(***************************************************************************)
EXTENDS KVStore, TLAPS

\* The threads serve requests of the kinds the handlers make.
OpsAreRequests ==
    /\ op \in [Threads -> Requests \cup {NoRequest}]
    /\ \A t \in Threads : pc[t] # "idle" => op[t] \in Requests

\* A thread inside the with block is the lock's holder.
HoldersHaveLock ==
    \A t \in Threads : pc[t] \in {"locked", "read", "leaving"} => lock = t

\* The inductive invariant.
KVInv == TypeOK /\ OpsAreRequests /\ HoldersHaveLock /\ NoStaleCompare

\* A request of a put carries a version.
LEMMA RequestFields ==
    ASSUME NEW r \in Requests
    PROVE  /\ r.kind \in {"put", "get", "delete", "count"}
           /\ r.key \in Keys
           /\ r.kind = "put" => r.version \in Version
  BY ClockAssumption DEF Requests, Version, VersionedValue, Payloads

\* The store starts empty, with the lock free and no thread inside.
LEMMA KVInit == Init => KVInv
  BY DEF Init, KVInv, TypeOK, OpsAreRequests, HoldersHaveLock, NoStaleCompare, Entry

\* A thread that takes up a request is not inside the with block yet.
LEMMA KVEnter ==
    ASSUME KVInv, NEW t \in Threads, NEW r \in Requests, Enter(t, r), clock' \in Nat
    PROVE  KVInv'
  <1> USE DEF KVInv, TypeOK, OpsAreRequests, HoldersHaveLock, NoStaleCompare
  <1>1. r.kind \in {"put", "get", "delete", "count"} /\ r.key \in Keys
        /\ (r.kind = "put" => r.version \in Version)
    BY RequestFields
  <1>2. OpsAreRequests' /\ HoldersHaveLock' /\ NoStaleCompare'
    BY DEF Enter
  <1>3. TypeOK'
    BY <1>1 DEF Enter
  <1> QED BY <1>2, <1>3

\* The requests that the four handlers make.
LEMMA HandlersMakeRequests ==
    ASSUME NEW k \in Keys, NEW ts \in Timestamps, NEW kind \in {"get", "delete", "count"}
    PROVE  /\ \A n \in {NodeId, PeerId} :
                [kind |-> "put", key |-> k,
                 version |-> [value |-> "x", timestamp |-> ts, node_id |-> n]] \in Requests
           /\ [kind |-> kind, key |-> k, version |-> NoEntry] \in Requests
  BY DEF Requests, Payloads

\* The holder of the lock may write the store as it decides what to return: no
\* other thread is about to use something it has read.
LEMMA KVFinish ==
    ASSUME KVInv, NEW t \in Threads, pc[t] = "read", data' \in [Keys -> Entry],
           UNCHANGED <<lock, clock, op, current>>, pc' = [pc EXCEPT ![t] = "leaving"]
    PROVE  KVInv'
  <1> USE DEF KVInv
  <1>1. lock = t /\ \A u \in Threads \ {t} : pc[u] # "read"
    BY DEF NoStaleCompare
  <1>2. TypeOK'
    BY DEF TypeOK
  <1>3. OpsAreRequests'
    BY DEF OpsAreRequests, TypeOK
  <1>4. HoldersHaveLock'
    BY DEF HoldersHaveLock, TypeOK
  <1>5. NoStaleCompare'
    BY <1>1 DEF NoStaleCompare, TypeOK
  <1> QED BY <1>2, <1>3, <1>4, <1>5

\* Every step of every thread keeps the invariant.
LEMMA KVNext == KVInv /\ [Next]_vars => KVInv'
  <1> SUFFICES ASSUME KVInv, [Next]_vars PROVE KVInv'
    OBVIOUS
  <1> USE DEF KVInv, TypeOK, OpsAreRequests, HoldersHaveLock, NoStaleCompare
  <1>1. ASSUME NEW t \in Threads, NEW k \in Keys, NEW ts \in Timestamps, put_key(t, k, ts)
        PROVE  KVInv'
    <2>1. clock' \in Nat
      BY <1>1, ClockAssumption DEF put_key
    <2> QED BY <1>1, <2>1, KVEnter, HandlersMakeRequests DEF put_key
  <1>2. ASSUME NEW t \in Threads, NEW k \in Keys, NEW ts \in Timestamps, replicate(t, k, ts)
        PROVE  KVInv'
    <2>1. clock' \in Nat
      BY <1>2 DEF replicate
    <2> QED BY <1>2, <2>1, KVEnter, HandlersMakeRequests DEF replicate
  <1>3. ASSUME NEW t \in Threads, NEW k \in Keys, NEW kind \in {"get", "delete", "count"},
               Request(t, kind, k)
        PROVE  KVInv'
    <2>1. clock' \in Nat
      BY <1>3 DEF Request
    <2>2. [kind |-> kind, key |-> k, version |-> NoEntry] \in Requests
      BY DEF Requests
    <2> QED BY <1>3, <2>1, <2>2, KVEnter DEF Request
  <1>4. ASSUME NEW t \in Threads, Acquire(t) PROVE KVInv'
    BY <1>4, ThreadsAssumption DEF Acquire
  <1>5. ASSUME NEW t \in Threads, ReadCurrent(t) PROVE KVInv'
    BY <1>5 DEF ReadCurrent
  <1>6. ASSUME NEW t \in Threads, put(t) PROVE KVInv'
    <2>1. op[t].version \in Version /\ op[t].key \in Keys /\ pc[t] = "read"
      BY <1>6 DEF put
    <2>2. data' \in [Keys -> Entry] /\ UNCHANGED <<lock, clock, op, current>>
          /\ pc' = [pc EXCEPT ![t] = "leaving"]
      BY <1>6, <2>1 DEF put, Finish, Entry
    <2> QED BY <2>1, <2>2, KVFinish
  <1>7. ASSUME NEW t \in Threads, get(t) PROVE KVInv'
    BY <1>7 DEF get, Finish
  <1>8. ASSUME NEW t \in Threads, delete(t) PROVE KVInv'
    <2>1. pc[t] = "read"
      BY <1>8 DEF delete
    <2>2. data' \in [Keys -> Entry] /\ UNCHANGED <<lock, clock, op, current>>
          /\ pc' = [pc EXCEPT ![t] = "leaving"]
      BY <1>8 DEF delete, Finish, Entry
    <2> QED BY <2>1, <2>2, KVFinish
  <1>9. ASSUME NEW t \in Threads, key_count(t) PROVE KVInv'
    BY <1>9 DEF key_count, Finish
  <1>10. ASSUME NEW t \in Threads, Release(t) PROVE KVInv'
    BY <1>10 DEF Release, Entry
  <1>11. CASE UNCHANGED vars
    BY <1>11 DEF vars
  <1> QED BY <1>1, <1>2, <1>3, <1>4, <1>5, <1>6, <1>7, <1>8, <1>9, <1>10, <1>11 DEF Next

\* The invariant holds throughout.
LEMMA KVInvariant == Spec => []KVInv
  BY KVInit, KVNext, PTL DEF Spec

\* The store's state is well typed, whatever the threads do.
THEOREM TypeCorrect == Spec => []TypeOK
  <1>1. KVInv => TypeOK
    BY DEF KVInv
  <1> QED BY <1>1, KVInvariant, PTL

\* What KVStore.put compares against is what the store holds when it decides.
THEOREM ComparesAreFresh == Spec => []NoStaleCompare
  <1>1. KVInv => NoStaleCompare
    BY DEF KVInv
  <1> QED BY <1>1, KVInvariant, PTL

-----------------------------------------------------------------------------
(* The store implements the atomic one                                     *)

\* What a put decides from a fresh comparison is the atomic store's decision.
LEMMA PutTakesEffect ==
    ASSUME KVInv, NEW t \in Threads, put(t)
    PROVE  /\ ret' = [ret EXCEPT ![t] = Atomic!Returned(data, op[t])]
           /\ data' = Atomic!Effect(data, op[t])
  <1>1. /\ op[t].kind = "put" /\ op[t].key \in Keys
        /\ current[t] = data[op[t].key] /\ data \in [Keys -> Entry]
    BY DEF put, KVInv, NoStaleCompare, TypeOK
  <1> DEFINE old == data[op[t].key]
             new == op[t].version
  <1>2. Atomic!Returned(data, op[t]) = Applies(old, new)
    <2>1. Atomic!Applies(old, new) = Applies(old, new)
      BY DEF Atomic!Applies, Applies, Atomic!is_newer_than, is_newer_than
    <2>2. Atomic!Returned(data, op[t]) = Atomic!Applies(old, new)
      BY <1>1 DEF Atomic!Returned
    <2> QED BY <2>1, <2>2
  <1>3. Atomic!Effect(data, op[t]) = [data EXCEPT ![op[t].key] = Put(old, new)]
    <2>1. Atomic!Put(old, new) = Put(old, new)
      BY DEF Atomic!Put, Put, Atomic!Applies, Applies, Atomic!is_newer_than, is_newer_than
    <2>2. Atomic!Effect(data, op[t]) = [data EXCEPT ![op[t].key] = Atomic!Put(old, new)]
      BY <1>1 DEF Atomic!Effect
    <2> QED BY <2>1, <2>2
  <1>4. CASE Applies(old, new)
    <2>1. data' = [data EXCEPT ![op[t].key] = new] /\ ret' = [ret EXCEPT ![t] = TRUE]
      BY <1>1, <1>4 DEF put, Finish, Applies
    <2>2. Put(old, new) = new /\ Applies(old, new) = TRUE
      BY <1>4 DEF Put, Applies
    <2> QED BY <1>2, <1>3, <2>1, <2>2
  <1>5. CASE ~Applies(old, new)
    <2>1. data' = data /\ ret' = [ret EXCEPT ![t] = FALSE]
      BY <1>1, <1>5 DEF put, Finish, Applies
    <2>2. Put(old, new) = old /\ Applies(old, new) = FALSE
      BY <1>5 DEF Put, Applies
    <2>3. data = [data EXCEPT ![op[t].key] = old]
      BY <1>1
    <2> QED BY <1>2, <1>3, <2>1, <2>2, <2>3
  <1> QED BY <1>4, <1>5

\* A delete removes what it found, and what it did not find was not there.
LEMMA DeleteTakesEffect ==
    ASSUME KVInv, NEW t \in Threads, delete(t)
    PROVE  /\ ret' = [ret EXCEPT ![t] = Atomic!Returned(data, op[t])]
           /\ data' = Atomic!Effect(data, op[t])
  <1>1. /\ op[t].kind = "delete" /\ op[t].key \in Keys
        /\ current[t] = data[op[t].key] /\ data \in [Keys -> Entry]
    BY DEF delete, KVInv, NoStaleCompare, TypeOK
  <1>2. Atomic!Returned(data, op[t]) = (data[op[t].key] # NoEntry)
    BY <1>1 DEF Atomic!Returned
  <1>3. Atomic!Effect(data, op[t]) = [data EXCEPT ![op[t].key] = NoEntry]
    BY <1>1 DEF Atomic!Effect
  <1>4. data' = [data EXCEPT ![op[t].key] = NoEntry]
    BY <1>1 DEF delete
  <1>5. ret' = [ret EXCEPT ![t] = (data[op[t].key] # NoEntry)]
    BY <1>1 DEF delete, Finish
  <1> QED BY <1>2, <1>3, <1>4, <1>5

\* A get and a count return what the store holds and leave it alone.
LEMMA ReadTakesEffect ==
    ASSUME KVInv, NEW t \in Threads, get(t) \/ key_count(t)
    PROVE  /\ ret' = [ret EXCEPT ![t] = Atomic!Returned(data, op[t])]
           /\ data' = Atomic!Effect(data, op[t])
  <1>1. CASE get(t)
    <2>1. op[t].kind = "get" /\ current[t] = data[op[t].key]
      BY <1>1 DEF get, KVInv, NoStaleCompare
    <2>2. Atomic!Returned(data, op[t]) = current[t] /\ Atomic!Effect(data, op[t]) = data
      BY <2>1 DEF Atomic!Returned, Atomic!Effect
    <2> QED BY <1>1, <2>2 DEF get, Finish
  <1>2. CASE key_count(t)
    <2>1. op[t].kind = "count"
      BY <1>2 DEF key_count
    <2>2. /\ Atomic!Returned(data, op[t]) = Cardinality({k \in Keys : data[k] # NoEntry})
          /\ Atomic!Effect(data, op[t]) = data
      <3>1. Atomic!Cardinality(Atomic!PresentKeys(data)) = Cardinality({k \in Keys : data[k] # NoEntry})
        BY DEF Atomic!Cardinality, Cardinality, Atomic!PresentKeys
      <3>2. Atomic!Returned(data, op[t]) = Atomic!Cardinality(Atomic!PresentKeys(data))
        BY <2>1 DEF Atomic!Returned
      <3>3. Atomic!Effect(data, op[t]) = data
        BY <2>1 DEF Atomic!Effect
      <3> QED BY <3>1, <3>2, <3>3
    <2> QED BY <1>2, <2>2 DEF key_count, Finish
  <1> QED BY <1>1, <1>2

\* The mapped state of a thread changes as its program counter does.
LEMMA MappedState ==
    ASSUME KVInv, NEW t \in Threads, NEW to, pc' = [pc EXCEPT ![t] = to]
    PROVE  [u \in Threads |-> AtomicState(u)]' =
             [[u \in Threads |-> AtomicState(u)] EXCEPT ![t] =
                IF to = "idle" THEN "idle" ELSE IF to = "leaving" THEN "done" ELSE "called"]
  BY DEF AtomicState, KVInv, TypeOK

\* A handler that takes up a request calls the atomic store.
LEMMA EnterCalls ==
    ASSUME KVInv, NEW t \in Threads, NEW r \in Requests, Enter(t, r)
    PROVE  Atomic!ANext
  <1>1. Atomic!Call(t, r)
    BY MappedState DEF Enter, Atomic!Call, AtomicState
  <1> QED BY <1>1 DEF Atomic!ANext

\* Every step of a thread is a step of the atomic store or leaves it as it is.
LEMMA StoreStepRefines == KVInv /\ [Next]_vars => [Atomic!ANext]_(Atomic!avars)
  <1> SUFFICES ASSUME KVInv, [Next]_vars PROVE [Atomic!ANext]_(Atomic!avars)
    OBVIOUS
  <1>1. ASSUME NEW t \in Threads, NEW k \in Keys, NEW ts \in Timestamps,
               put_key(t, k, ts) \/ replicate(t, k, ts)
        PROVE  Atomic!ANext
    BY <1>1, EnterCalls, HandlersMakeRequests DEF put_key, replicate
  <1>2. ASSUME NEW t \in Threads, NEW k \in Keys, NEW kind \in {"get", "delete", "count"},
               Request(t, kind, k)
        PROVE  Atomic!ANext
    <2>1. [kind |-> kind, key |-> k, version |-> NoEntry] \in Requests
      BY DEF Requests
    <2> QED BY <1>2, <2>1, EnterCalls DEF Request
  <1>3. ASSUME NEW t \in Threads, Acquire(t) \/ ReadCurrent(t)
        PROVE  UNCHANGED Atomic!avars
    <2>1. [u \in Threads |-> AtomicState(u)]' = [u \in Threads |-> AtomicState(u)]
      BY <1>3 DEF Acquire, ReadCurrent, AtomicState, KVInv, TypeOK
    <2> QED BY <1>3, <2>1 DEF Acquire, ReadCurrent, Atomic!avars
  <1>4. ASSUME NEW t \in Threads, put(t) \/ get(t) \/ delete(t) \/ key_count(t)
        PROVE  Atomic!ANext
    <2>1. /\ ret' = [ret EXCEPT ![t] = Atomic!Returned(data, op[t])]
          /\ data' = Atomic!Effect(data, op[t])
      BY <1>4, PutTakesEffect, DeleteTakesEffect, ReadTakesEffect
    <2>2. pc[t] \in {"read", "locked"} /\ pc' = [pc EXCEPT ![t] = "leaving"] /\ op' = op
      BY <1>4 DEF put, get, delete, key_count, Finish
    <2>3. Atomic!TakeEffect(t)
      BY <2>1, <2>2, MappedState DEF Atomic!TakeEffect, AtomicState
    <2> QED BY <2>3 DEF Atomic!ANext
  <1>5. ASSUME NEW t \in Threads, Release(t) PROVE Atomic!ANext
    <2>1. Atomic!Return(t)
      BY <1>5, MappedState DEF Release, Atomic!Return, AtomicState
    <2> QED BY <2>1 DEF Atomic!ANext
  <1>6. CASE UNCHANGED vars
    BY <1>6 DEF vars, Atomic!avars, AtomicState
  <1> QED BY <1>1, <1>2, <1>3, <1>4, <1>5, <1>6 DEF Next

\* storage.py's "operations are atomic with respect to each other": whatever the
\* threads' interleaving, the store behaves as the one whose operations take
\* effect in a single step.
THEOREM StoreIsAtomic == Spec => ImplementsAtomicStore
  <1>1. Init => Atomic!AInit
    BY DEF Init, Atomic!AInit, AtomicState
  <1> QED BY <1>1, KVInvariant, StoreStepRefines, PTL DEF Spec, ImplementsAtomicStore, Atomic!ASpec
=============================================================================

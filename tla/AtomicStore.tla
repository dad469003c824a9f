---------------------------- MODULE AtomicStore ----------------------------
(***************************************************************************)
(* What common/storage.py promises its callers: every operation takes      *)
(* effect in one indivisible step between its call and its return, and a   *)
(* put takes effect only if it is newer than what is stored.               *)
(***************************************************************************)
EXTENDS LWW, FiniteSets

CONSTANTS
    Threads,        \* threads that call the store
    Keys,
    NoRequest,
    Requests        \* records [kind, key, version] a caller may issue

VARIABLES
    data,           \* [Keys -> VersionedValue or NoEntry]
    op,             \* [Threads -> the request the thread is serving]
    state,          \* [Threads -> {"idle", "called", "done"}]
    ret             \* [Threads -> what the operation returned]

avars == <<data, op, state, ret>>

PresentKeys(d) == {k \in Keys : d[k] # NoEntry}

\* Return value and effect of each operation on the store's contents.
Returned(d, r) ==
    CASE r.kind = "put"    -> Applies(d[r.key], r.version)
      [] r.kind = "get"    -> d[r.key]
      [] r.kind = "delete" -> d[r.key] # NoEntry
      [] r.kind = "count"  -> Cardinality(PresentKeys(d))

Effect(d, r) ==
    CASE r.kind = "put"    -> [d EXCEPT ![r.key] = Put(@, r.version)]
      [] r.kind = "delete" -> [d EXCEPT ![r.key] = NoEntry]
      [] OTHER             -> d

AInit ==
    /\ data = [k \in Keys |-> NoEntry]
    /\ op = [t \in Threads |-> NoRequest]
    /\ state = [t \in Threads |-> "idle"]
    /\ ret = [t \in Threads |-> NoEntry]

Call(t, r) ==
    /\ state[t] = "idle"
    /\ state' = [state EXCEPT ![t] = "called"]
    /\ op' = [op EXCEPT ![t] = r]
    /\ UNCHANGED <<data, ret>>

TakeEffect(t) ==
    /\ state[t] = "called"
    /\ state' = [state EXCEPT ![t] = "done"]
    /\ ret' = [ret EXCEPT ![t] = Returned(data, op[t])]
    /\ data' = Effect(data, op[t])
    /\ UNCHANGED op

Return(t) ==
    /\ state[t] = "done"
    /\ state' = [state EXCEPT ![t] = "idle"]
    /\ op' = [op EXCEPT ![t] = NoRequest]
    /\ ret' = [ret EXCEPT ![t] = NoEntry]
    /\ UNCHANGED data

ANext == \E t \in Threads : (\E r \in Requests : Call(t, r)) \/ TakeEffect(t) \/ Return(t)

ASpec == AInit /\ [][ANext]_avars
=============================================================================

-------------------------- MODULE LeaderlessProofs --------------------------
(***************************************************************************)
(* Machine-checked proofs about Leaderless, for every cluster size, every  *)
(* number of concurrent requests and every choice of W and R.              *)
(***************************************************************************)
EXTENDS Leaderless, LWWProofs, FiniteSetTheorems, TLAPS

-----------------------------------------------------------------------------
(* The version order.                                                      *)

\* A stamped version has a natural timestamp and rank, so is_newer_than compares numbers.
LEMMA VersionFields ==
    ASSUME NEW v \in Version
    PROVE  v.timestamp \in Int /\ v.node_id \in Int /\ v.node_id \in Nodes /\ v # NoEntry
  <1>1. v # NoEntry
    BY NoEntryAssumption DEF Version
  <1>2. v.timestamp \in Nat /\ v.node_id \in Nodes
    BY DEF Version, VersionedValue
  <1>3. v.node_id \in Nat
    BY <1>2, NodesAssumption
  <1> QED BY <1>1, <1>2, <1>3

\* KVStore.put leaves a version, and one that holds what it was given.
LEMMA PutHolds ==
    ASSUME NEW e \in Entry, NEW v \in Version
    PROVE  /\ Put(e, v) \in Version
           /\ Holds(Put(e, v), v)
  <1>1. Stamped(v) /\ (e = NoEntry \/ Stamped(e))
    BY VersionFields DEF Entry, Stamped
  <1>2. Put(e, v) \in Version
    BY DEF Put, Applies, Entry
  <1> QED BY <1>1, <1>2, LWWPutHolds

\* Storing another version never loses one that is held: LWW does not regress.
LEMMA PutKeeps ==
    ASSUME NEW e \in Entry, NEW u \in Version, NEW v \in Version, Holds(e, u)
    PROVE  Holds(Put(e, v), u)
  <1>1. Stamped(u) /\ Stamped(v) /\ (e = NoEntry \/ Stamped(e))
    BY VersionFields DEF Entry, Stamped
  <1> QED BY <1>1, LWWPutKeeps

\* Holding is transitive.
LEMMA HoldsTransitive ==
    ASSUME NEW e \in Entry, NEW u \in Version, NEW v \in Version,
           Holds(e, u), Holds(u, v)
    PROVE  Holds(e, v)
  <1>1. Stamped(u) /\ Stamped(v) /\ (e = NoEntry \/ Stamped(e))
    BY VersionFields DEF Entry, Stamped
  <1> QED BY <1>1, LWWHoldsTransitive

-----------------------------------------------------------------------------
(* Type correctness.                                                       *)

\* The cluster starts well typed.
LEMMA TypeInit == Init => TypeOK
  <1> SUFFICES ASSUME Init PROVE TypeOK
    OBVIOUS
  <1>1. (CHOOSE n \in Nodes : TRUE) \in Nodes
    BY NodesAssumption
  <1> QED BY <1>1 DEF Init, TypeOK, Entry

\* _gather's hand-off keeps pending and _background well typed.
LEMMA HandOffType ==
    ASSUME TypeOK, NEW o \in Writes \cup Reads, NEW running \in SUBSET Nodes, HandOff(o, running)
    PROVE  /\ pending' \in [Writes \cup Reads -> SUBSET Nodes]
           /\ background' \subseteq (Writes \cup Reads) \X Nodes
  <1>1. pending' \in [Writes \cup Reads -> SUBSET Nodes]
    BY DEF TypeOK, HandOff
  <1>2. background' \subseteq (Writes \cup Reads) \X Nodes
    <2>1. {o} \X running \subseteq (Writes \cup Reads) \X Nodes
      OBVIOUS
    <2> QED BY <2>1 DEF TypeOK, HandOff
  <1> QED BY <1>1, <1>2

\* The answer of a GET is a known status and an entry.
LEMMA AnswerGetType ==
    ASSUME TypeOK, NEW r \in Reads, NEW q \in Int, NEW local \in Entry,
           NEW collected \in SUBSET Nodes, AnswerGet(r, q, local, collected)
    PROVE  /\ rstate' \in [Reads -> {"idle", "waiting", "found", "missing", "unavailable", "cancelled", "invalid"}]
           /\ result' \in [Reads -> Entry]
  <1> DEFINE fromPeers == {seen[r][p] : p \in collected}
  <1>1. fromPeers \subseteq Entry
    BY DEF TypeOK
  <1>2. Winners(local, fromPeers) \subseteq Entry
    BY <1>1 DEF Winners, Candidates
  <1>3. rstate' \in [Reads -> {"idle", "waiting", "found", "missing", "unavailable", "cancelled", "invalid"}]
    BY DEF AnswerGet, TypeOK
  <1>4. result' = result \/ \E e \in Winners(local, fromPeers) : result' = [result EXCEPT ![r] = e]
    BY DEF AnswerGet
  <1> QED BY <1>2, <1>3, <1>4 DEF TypeOK

\* Every handler step keeps the state well typed.
LEMMA TypeNext == TypeOK /\ [Next]_vars => TypeOK'
  <1> SUFFICES ASSUME TypeOK, [Next]_vars PROVE TypeOK'
    OBVIOUS
  <1> USE DEF TypeOK
  <1>1. ASSUME NEW w \in Writes, NEW q \in WriteParams, RejectPut(w, q) PROVE TypeOK'
    BY <1>1 DEF RejectPut, readVars
  <1>2. ASSUME NEW w \in Writes, NEW n \in PutNodes, NEW q \in WriteParams, NEW ts \in Timestamps,
               put_key_coordinator(w, n, q, ts)
        PROVE TypeOK'
    <2> n \in Nodes /\ q \in Int /\ ts \in Nat
      BY TargetsAssumption, ParamsAssumption, TimestampsAssumption
    <2>1. version' \in [Writes -> Entry] /\ store' \in [Nodes -> Entry]
      <3> DEFINE v == [value |-> w, timestamp |-> ts, node_id |-> n]
      <3>1. v \in Version
        BY DEF Version, VersionedValue
      <3>2. Put(store[n], v) \in Entry
        BY <3>1, PutHolds DEF Entry
      <3> QED BY <1>2, <3>1, <3>2 DEF put_key_coordinator, Entry
    <2>2. send' \in [Writes -> [Nodes -> {"none", "sent", "applied", "ok", "gaveup", "failed"}]]
      BY <1>2 DEF put_key_coordinator
    <2>3. /\ clock' \in [Nodes -> Nat]
          /\ wparam' \in [Writes -> Int]
          /\ acked' \in [Writes -> SUBSET Nodes]
      BY <1>2 DEF put_key_coordinator
    <2>4. wstate' \in [Writes -> {"idle", "waiting", "ok", "unavailable", "cancelled", "invalid"}]
      BY <1>2 DEF put_key_coordinator, PutOutcome
    <2>5. /\ pending' \in [Writes \cup Reads -> SUBSET Nodes]
          /\ background' \subseteq (Writes \cup Reads) \X Nodes
      <3> Peers(n) \subseteq Nodes
        BY DEF Peers
      <3> w \in Writes \cup Reads
        OBVIOUS
      <3>1. CASE KeepWaiting(Peers(n), {}, q - 1)
        <4>1. pending' = [pending EXCEPT ![w] = Peers(n)] /\ background' = background
          BY <1>2, <3>1 DEF put_key_coordinator
        <4> QED BY <4>1
      <3>2. CASE ~KeepWaiting(Peers(n), {}, q - 1)
        <4>1. HandOff(w, Peers(n))
          BY <1>2, <3>2 DEF put_key_coordinator
        <4> QED BY <4>1, HandOffType
      <3> QED BY <3>1, <3>2
    <2> QED BY <1>2, <2>1, <2>2, <2>3, <2>4, <2>5 DEF put_key_coordinator, readVars
  <1>3. ASSUME NEW w \in Writes, NEW p \in Nodes, Deliver(w, p) PROVE TypeOK'
    <2>1. Put(store[p], version[w]) \in Entry
      BY DEF Put
    <2> QED BY <1>3, <2>1 DEF Deliver, readVars
  <1>4. ASSUME NEW w \in Writes, NEW p \in Nodes, SendAcked(w, p) PROVE TypeOK'
    BY <1>4 DEF SendAcked, Discard, readVars
  <1>5. ASSUME NEW w \in Writes, NEW p \in Nodes, SendFails(w, p) PROVE TypeOK'
    BY <1>5 DEF SendFails, Discard, readVars
  <1>6. ASSUME NEW w \in Writes, CollectAcks(w) PROVE TypeOK'
    <2> DEFINE collected == acked[w] \cup {p \in DoneSends(w) : send[w][p] = "ok"}
               remaining == pending[w] \ DoneSends(w)
    <2>1. collected \in SUBSET Nodes /\ remaining \in SUBSET Nodes
      BY DEF DoneSends
    <2>2. /\ acked' \in [Writes -> SUBSET Nodes]
          /\ wstate' \in [Writes -> {"idle", "waiting", "ok", "unavailable", "cancelled", "invalid"}]
      BY <1>6, <2>1 DEF CollectAcks, PutOutcome
    <2>3. /\ pending' \in [Writes \cup Reads -> SUBSET Nodes]
          /\ background' \subseteq (Writes \cup Reads) \X Nodes
      <3>1. \/ pending' = [pending EXCEPT ![w] = remaining] /\ background' = background
            \/ HandOff(w, remaining)
        BY <1>6 DEF CollectAcks
      <3>2. CASE pending' = [pending EXCEPT ![w] = remaining] /\ background' = background
        BY <2>1, <3>2
      <3>3. CASE HandOff(w, remaining)
        BY <2>1, <3>3, HandOffType
      <3> QED BY <3>1, <3>2, <3>3
    <2> QED BY <1>6, <2>2, <2>3 DEF CollectAcks, readVars
  <1>7. ASSUME NEW w \in Writes, PutTimeout(w) PROVE TypeOK'
    <2>1. pending[w] \ DoneSends(w) \in SUBSET Nodes
      BY DEF DoneSends
    <2>2. wstate' \in [Writes -> {"idle", "waiting", "ok", "unavailable", "cancelled", "invalid"}]
      BY <1>7 DEF PutTimeout, PutOutcome
    <2> QED BY <1>7, <2>1, <2>2, HandOffType DEF PutTimeout, readVars
  <1>8. ASSUME NEW w \in Writes, PutCancelled(w) PROVE TypeOK'
    <2>1. pending[w] \ DoneSends(w) \in SUBSET Nodes
      BY DEF DoneSends
    <2> QED BY <1>8, <2>1, HandOffType DEF PutCancelled, readVars
  <1>9. ASSUME NEW r \in Reads, NEW q \in ReadParams, RejectGet(r, q) PROVE TypeOK'
    BY <1>9 DEF RejectGet, writeVars
  <1>10. ASSUME NEW r \in Reads, NEW n \in GetNodes, NEW q \in ReadParams, NEW S \in SUBSET Nodes,
                get_key_coordinator(r, n, q, S)
         PROVE TypeOK'
    <2> n \in Nodes /\ q \in Int
      BY TargetsAssumption, ParamsAssumption
    <2>1. /\ rparam' \in [Reads -> Int]
          /\ rcoord' \in [Reads -> Nodes]
          /\ answered' \in [Reads -> SUBSET Nodes]
          /\ fetch' \in [Reads -> [Nodes -> {"none", "sent", "served", "ok", "failed"}]]
          /\ seen' \in [Reads -> [Nodes -> Entry]]
          /\ before' \in [Reads -> SUBSET Writes]
      BY <1>10 DEF get_key_coordinator
    <2>2. CASE KeepWaiting(S, {}, q - 1)
      <3>1. /\ rstate' = [rstate EXCEPT ![r] = "waiting"]
            /\ pending' = [pending EXCEPT ![r] = S]
            /\ background' = background
            /\ result' = result
        BY <1>10, <2>2 DEF get_key_coordinator
      <3>2. pending' \in [Writes \cup Reads -> SUBSET Nodes]
        BY <3>1
      <3> QED BY <1>10, <2>1, <3>1, <3>2 DEF get_key_coordinator, writeVars
    <2>3. CASE ~KeepWaiting(S, {}, q - 1)
      <3>1. AnswerGet(r, q, store[n], {}) /\ HandOff(r, S)
        BY <1>10, <2>3 DEF get_key_coordinator
      <3>2. /\ rstate' \in [Reads -> {"idle", "waiting", "found", "missing", "unavailable", "cancelled", "invalid"}]
            /\ result' \in [Reads -> Entry]
        BY <3>1, AnswerGetType
      <3> QED BY <1>10, <2>1, <3>1, <3>2, HandOffType DEF get_key_coordinator, writeVars
    <2> QED BY <2>2, <2>3
  <1>11. ASSUME NEW r \in Reads, NEW p \in Nodes, ServeRead(r, p) PROVE TypeOK'
    BY <1>11 DEF ServeRead, writeVars
  <1>12. ASSUME NEW r \in Reads, NEW p \in Nodes, FetchAnswered(r, p) PROVE TypeOK'
    BY <1>12 DEF FetchAnswered, Discard, writeVars
  <1>13. ASSUME NEW r \in Reads, NEW p \in Nodes, FetchFails(r, p) PROVE TypeOK'
    BY <1>13 DEF FetchFails, Discard, writeVars
  <1>14. ASSUME NEW r \in Reads, CollectReplies(r) PROVE TypeOK'
    <2> DEFINE collected == answered[r] \cup {p \in DoneFetches(r) : fetch[r][p] = "ok"}
               remaining == pending[r] \ DoneFetches(r)
    <2>1. collected \in SUBSET Nodes /\ remaining \in SUBSET Nodes
      BY DEF DoneFetches
    <2>2. answered' \in [Reads -> SUBSET Nodes]
      BY <1>14, <2>1 DEF CollectReplies
    <2>3. CASE KeepWaiting(remaining, collected, rparam[r] - 1)
      <3>1. pending' = [pending EXCEPT ![r] = remaining] /\ UNCHANGED <<rstate, result, background>>
        BY <1>14, <2>3 DEF CollectReplies
      <3>2. pending' \in [Writes \cup Reads -> SUBSET Nodes]
        BY <2>1, <3>1
      <3> QED BY <1>14, <2>2, <3>1, <3>2 DEF CollectReplies, writeVars
    <2>4. CASE ~KeepWaiting(remaining, collected, rparam[r] - 1)
      <3>1. AnswerGet(r, rparam[r], seen[r][rcoord[r]], collected) /\ HandOff(r, remaining)
        BY <1>14, <2>4 DEF CollectReplies
      <3>2. /\ rstate' \in [Reads -> {"idle", "waiting", "found", "missing", "unavailable", "cancelled", "invalid"}]
            /\ result' \in [Reads -> Entry]
        BY <2>1, <3>1, AnswerGetType
      <3> QED BY <1>14, <2>1, <2>2, <3>1, <3>2, HandOffType DEF CollectReplies, writeVars
    <2> QED BY <2>3, <2>4
  <1>15. ASSUME NEW r \in Reads, GetTimeout(r) PROVE TypeOK'
    <2>1. pending[r] \ DoneFetches(r) \in SUBSET Nodes
      BY DEF DoneFetches
    <2>2. AnswerGet(r, rparam[r], seen[r][rcoord[r]], answered[r])
      BY <1>15 DEF GetTimeout
    <2>3. /\ rstate' \in [Reads -> {"idle", "waiting", "found", "missing", "unavailable", "cancelled", "invalid"}]
          /\ result' \in [Reads -> Entry]
      BY <2>2, AnswerGetType
    <2> QED BY <1>15, <2>1, <2>3, HandOffType DEF GetTimeout, writeVars
  <1>16. ASSUME NEW r \in Reads, GetCancelled(r) PROVE TypeOK'
    <2>1. pending[r] \ DoneFetches(r) \in SUBSET Nodes
      BY DEF DoneFetches
    <2> QED BY <1>16, <2>1, HandOffType DEF GetCancelled, writeVars
  <1>17. ASSUME NEW n \in Nodes, delete_key(n) PROVE TypeOK'
    BY <1>17 DEF delete_key, writeVars, readVars, Entry
  <1>18. CASE UNCHANGED vars
    BY <1>18 DEF vars, writeVars, readVars
  <1> QED BY <1>1, <1>2, <1>3, <1>4, <1>5, <1>6, <1>7, <1>8, <1>9, <1>10, <1>11, <1>12, <1>13,
             <1>14, <1>15, <1>16, <1>17, <1>18
          DEF Next, WriteStep, ReadStep

\* Every reachable state is well typed.
THEOREM TypeCorrect == Spec => []TypeOK
  BY TypeInit, TypeNext, PTL DEF Spec

-----------------------------------------------------------------------------
(* The inductive invariant behind the quorum guarantees, in two layers: what *)
(* is true of the writes, and what is true of the reads given the writes.    *)

\* A started PUT is held by its coordinator (the local write is 1 of W).
CoordinatorHolds ==
    \A w \in Writes : Started(w) =>
        version[w] \in Version /\ Holds(store[Coordinator(w)], version[w])

\* Replicate calls exist only for started PUTs and only to peers.
SendsToPeers ==
    \A w \in Writes, p \in Nodes : send[w][p] # "none" => Started(w) /\ p # Coordinator(w)

\* A peer that carried out a replicate call holds the version.
PeersHold ==
    \A w \in Writes, p \in Nodes :
        send[w][p] \in {"applied", "ok"} => Holds(store[p], version[w])

\* _gather counts only calls that returned TRUE.
AcksAreReal ==
    \A w \in Writes : \A p \in acked[w] : send[w][p] = "ok"

\* 200 means the coordinator and W-1 collected acks.
QuorumCounted ==
    \A w \in Writes : wstate[w] = "ok" => 1 + Cardinality(acked[w]) >= wparam[w]

WInv == CoordinatorHolds /\ SendsToPeers /\ PeersHold /\ AcksAreReal /\ QuorumCounted

\* The nodes known to hold w when it was answered.
Quorum(w) == {Coordinator(w)} \cup acked[w]

Replied(r, n) == n = rcoord[r] \/ fetch[r][n] \in {"served", "ok"}

\* Internal reads belong to started GETs, go to peers, and are counted only
\* when answered; the recorded history is of PUTs answered 200.
ReadBookkeeping ==
    \A r \in Reads :
        /\ \A w \in before[r] : wstate[w] = "ok"
        /\ \A p \in Nodes : fetch[r][p] # "none" =>
             rstate[r] \notin {"idle", "invalid"} /\ p # rcoord[r]
        /\ \A p \in answered[r] : fetch[r][p] = "ok"

\* What a member of w's quorum showed to a later GET is at least as new as w.
SnapshotsFresh ==
    \A r \in Reads : rstate[r] \notin {"idle", "invalid"} =>
        \A w \in before[r], n \in Nodes :
            n \in Quorum(w) /\ Replied(r, n) => Holds(seen[r][n], version[w])

\* The answer is at least as new as every entry that was looked at.
ResultIsNewest ==
    \A r \in Reads : rstate[r] \in {"found", "missing"} =>
        /\ 1 + Cardinality(answered[r]) >= rparam[r]
        /\ \A n \in {rcoord[r]} \cup answered[r] :
             seen[r][n] # NoEntry => Holds(result[r], seen[r][n])

RInv == ReadBookkeeping /\ SnapshotsFresh /\ ResultIsNewest

\* Before any PUT the write invariant holds.
LEMMA WInvInit == Init => WInv
  BY DEF Init, WInv, CoordinatorHolds, SendsToPeers, PeersHold, AcksAreReal, QuorumCounted, Started

\* Steps of GETs leave the write invariant alone.
LEMMA WInvFrame ==
    ASSUME WInv, UNCHANGED <<store, wstate, wparam, version, acked, send>> PROVE WInv'
  BY DEF WInv, CoordinatorHolds, SendsToPeers, PeersHold, AcksAreReal, QuorumCounted,
         Started, Coordinator

\* put_key_coordinator stamps, stores and starts its sends.
LEMMA WInvPut ==
    ASSUME TypeOK, WInv, NEW w \in Writes, NEW n \in PutNodes, NEW q \in WriteParams,
           NEW ts \in Timestamps, put_key_coordinator(w, n, q, ts)
    PROVE  WInv'
  <1> DEFINE v == [value |-> w, timestamp |-> ts, node_id |-> n]
  <1>0. n \in Nodes /\ q \in Int /\ ts \in Nat
    BY TargetsAssumption, ParamsAssumption, TimestampsAssumption
  <1>1. v \in Version /\ v.node_id = n
    BY <1>0 DEF Version, VersionedValue
  <1>2. /\ version' = [version EXCEPT ![w] = v]
        /\ store' = [store EXCEPT ![n] = Put(store[n], v)]
        /\ acked' = acked
        /\ wparam' = [wparam EXCEPT ![w] = q]
        /\ send' = [send EXCEPT ![w] = [p \in Nodes |-> IF p \in Peers(n) THEN "sent" ELSE "none"]]
        /\ wstate[w] = "idle"
    BY DEF put_key_coordinator
  <1>3. /\ wstate'[w] \in {"waiting", "ok", "unavailable"}
        /\ \A u \in Writes : u # w => wstate'[u] = wstate[u]
        /\ wstate'[w] = "ok" => 1 + Cardinality({}) >= q
    BY DEF put_key_coordinator, PutOutcome, TypeOK
  <1>4. \A u \in Writes : u # w => version'[u] = version[u] /\ send'[u] = send[u] /\ wparam'[u] = wparam[u]
    BY <1>2 DEF TypeOK
  <1>5. version'[w] = v /\ wparam'[w] = q /\ store'[n] = Put(store[n], v)
    BY <1>0, <1>2 DEF TypeOK
  <1>6. \A m \in Nodes, u \in Version : Holds(store[m], u) => Holds(store'[m], u)
    BY <1>0, <1>1, <1>2, PutKeeps DEF TypeOK
  <1>7. acked[w] = {}
    BY <1>2 DEF WInv, AcksAreReal, SendsToPeers, Started, TypeOK
  <1>8. CoordinatorHolds'
    <2> SUFFICES ASSUME NEW u \in Writes, Started(u)'
                 PROVE  version'[u] \in Version /\ Holds(store'[version'[u].node_id], version'[u])
      BY DEF CoordinatorHolds, Coordinator
    <2>1. CASE u = w
      BY <1>0, <1>1, <1>5, <2>1, PutHolds DEF TypeOK
    <2>2. CASE u # w
      <3>1. Started(u)
        BY <1>3, <2>2 DEF Started
      <3>2. version[u] \in Version /\ version[u].node_id \in Nodes /\ Holds(store[version[u].node_id], version[u])
        BY <3>1, VersionFields DEF WInv, CoordinatorHolds, Coordinator
      <3> QED BY <1>4, <1>6, <2>2, <3>2
    <2> QED BY <2>1, <2>2
  <1>9. SendsToPeers'
    <2> SUFFICES ASSUME NEW u \in Writes, NEW p \in Nodes, send'[u][p] # "none"
                 PROVE  Started(u)' /\ p # version'[u].node_id
      BY DEF SendsToPeers, Coordinator
    <2>1. CASE u = w
      <3>1. send'[w][p] = IF p \in Peers(n) THEN "sent" ELSE "none"
        BY <1>2 DEF TypeOK
      <3> QED BY <1>1, <1>3, <1>5, <2>1, <3>1 DEF Peers, Started
    <2>2. CASE u # w
      BY <1>3, <1>4, <2>2 DEF WInv, SendsToPeers, Started, Coordinator
    <2> QED BY <2>1, <2>2
  <1>10. PeersHold'
    <2> SUFFICES ASSUME NEW u \in Writes, NEW p \in Nodes, send'[u][p] \in {"applied", "ok"}
                 PROVE  Holds(store'[p], version'[u])
      BY DEF PeersHold
    <2>1. u # w
      <3>1. send'[w][p] = IF p \in Peers(n) THEN "sent" ELSE "none"
        BY <1>2 DEF TypeOK
      <3> QED BY <3>1
    <2>2. Started(u) /\ Holds(store[p], version[u])
      BY <1>4, <2>1 DEF WInv, SendsToPeers, PeersHold
    <2>3. version[u] \in Version
      BY <2>2 DEF WInv, CoordinatorHolds
    <2> QED BY <1>4, <1>6, <2>1, <2>2, <2>3
  <1>11. AcksAreReal'
    BY <1>2, <1>4, <1>7 DEF WInv, AcksAreReal
  <1>12. QuorumCounted'
    BY <1>2, <1>3, <1>4, <1>5, <1>7 DEF WInv, QuorumCounted
  <1> QED BY <1>8, <1>9, <1>10, <1>11, <1>12 DEF WInv

\* /internal/replicate at a peer, early or late.
LEMMA WInvDeliver ==
    ASSUME TypeOK, WInv, NEW w \in Writes, NEW p \in Nodes, Deliver(w, p)
    PROVE  WInv'
  <1>1. /\ send[w][p] \in {"sent", "gaveup"}
        /\ store' = [store EXCEPT ![p] = Put(store[p], version[w])]
        /\ send' = [send EXCEPT ![w][p] = IF send[w][p] = "sent" THEN "applied" ELSE "failed"]
        /\ UNCHANGED <<wstate, wparam, version, acked>>
    BY DEF Deliver, TypeOK
  <1>2. Started(w) /\ p # Coordinator(w) /\ version[w] \in Version
    BY <1>1 DEF WInv, SendsToPeers, CoordinatorHolds
  <1>3. \A m \in Nodes, u \in Version : Holds(store[m], u) => Holds(store'[m], u)
    BY <1>1, <1>2, PutKeeps DEF TypeOK
  <1>4. Holds(store'[p], version[w])
    BY <1>1, <1>2, PutHolds DEF TypeOK
  <1>5. \A u \in Writes, m \in Nodes : \/ send'[u][m] = send[u][m]
                                       \/ u = w /\ m = p /\ send'[u][m] \in {"applied", "failed"}
    BY <1>1 DEF TypeOK
  <1>6. CoordinatorHolds'
    BY <1>1, <1>3, VersionFields DEF WInv, CoordinatorHolds, Coordinator, Started
  <1>7. SendsToPeers'
    BY <1>1, <1>2, <1>5 DEF WInv, SendsToPeers, Coordinator, Started
  <1>8. PeersHold'
    <2> SUFFICES ASSUME NEW u \in Writes, NEW m \in Nodes, send'[u][m] \in {"applied", "ok"}
                 PROVE  Holds(store'[m], version[u])
      BY <1>1 DEF PeersHold
    <2>1. CASE u = w /\ m = p
      BY <1>4, <2>1
    <2>2. CASE send'[u][m] = send[u][m]
      <3>1. Holds(store[m], version[u]) /\ version[u] \in Version
        BY <2>2 DEF WInv, PeersHold, SendsToPeers, CoordinatorHolds
      <3> QED BY <1>3, <3>1
    <2> QED BY <1>5, <2>1, <2>2
  <1>9. AcksAreReal'
    <2>1. \A u \in Writes, m \in Nodes : send[u][m] = "ok" => send'[u][m] = "ok"
      BY <1>1 DEF TypeOK
    <2> QED BY <1>1, <2>1 DEF WInv, AcksAreReal, TypeOK
  <1>10. QuorumCounted'
    BY <1>1 DEF WInv, QuorumCounted
  <1> QED BY <1>6, <1>7, <1>8, <1>9, <1>10 DEF WInv

\* A replicate call returns, with or without an ack.
LEMMA WInvReturn ==
    ASSUME TypeOK, WInv, NEW w \in Writes, NEW p \in Nodes, SendAcked(w, p) \/ SendFails(w, p)
    PROVE  WInv'
  <1>1. /\ send[w][p] \in {"sent", "applied"}
        /\ UNCHANGED <<store, wstate, wparam, version, acked>>
        /\ \A u \in Writes, m \in Nodes :
             \/ send'[u][m] = send[u][m]
             \/ /\ u = w /\ m = p
                /\ \/ send'[u][m] = "ok" /\ send[u][m] = "applied"
                   \/ send'[u][m] \in {"gaveup", "failed"}
    BY DEF SendAcked, SendFails, TypeOK
  <1>2. CoordinatorHolds' /\ QuorumCounted'
    BY <1>1 DEF WInv, CoordinatorHolds, QuorumCounted, Coordinator, Started
  <1>3. SendsToPeers'
    BY <1>1 DEF WInv, SendsToPeers, Coordinator, Started
  <1>4. PeersHold'
    BY <1>1 DEF WInv, PeersHold
  <1>5. AcksAreReal'
    <2>1. \A u \in Writes, m \in Nodes : send[u][m] = "ok" => send'[u][m] = "ok"
      BY <1>1
    <2> QED BY <1>1, <2>1 DEF WInv, AcksAreReal, TypeOK
  <1> QED BY <1>2, <1>3, <1>4, <1>5 DEF WInv

\* A PUT's _gather turns its loop, times out or is cancelled.
LEMMA WInvGather ==
    ASSUME TypeOK, WInv, NEW w \in Writes, CollectAcks(w) \/ PutTimeout(w) \/ PutCancelled(w)
    PROVE  WInv'
  <1>1. /\ wstate[w] = "waiting"
        /\ UNCHANGED <<store, wparam, version, send>>
        /\ \A u \in Writes : u # w => wstate'[u] = wstate[u] /\ acked'[u] = acked[u]
        /\ wstate'[w] \in {"waiting", "ok", "unavailable", "cancelled"}
        /\ wstate'[w] = "ok" => 1 + Cardinality(acked'[w]) >= wparam[w]
    BY DEF CollectAcks, PutTimeout, PutCancelled, PutOutcome, TypeOK
  <1>2. \A p \in acked'[w] : send[w][p] = "ok"
    BY DEF CollectAcks, PutTimeout, PutCancelled, TypeOK, WInv, AcksAreReal
  <1>3. \A u \in Writes : Started(u)' <=> Started(u)
    BY <1>1 DEF Started
  <1>4. CoordinatorHolds' /\ SendsToPeers' /\ PeersHold'
    BY <1>1, <1>3 DEF WInv, CoordinatorHolds, SendsToPeers, PeersHold, Coordinator
  <1>5. AcksAreReal'
    BY <1>1, <1>2 DEF WInv, AcksAreReal
  <1>6. QuorumCounted'
    BY <1>1 DEF WInv, QuorumCounted
  <1> QED BY <1>4, <1>5, <1>6 DEF WInv

\* Without DELETE, every step preserves the write invariant.
LEMMA WInvNext == ~Deletes /\ TypeOK /\ WInv /\ [Next]_vars => WInv'
  <1> SUFFICES ASSUME ~Deletes, TypeOK, WInv, [Next]_vars PROVE WInv'
    OBVIOUS
  <1>1. ASSUME NEW w \in Writes, NEW q \in WriteParams, RejectPut(w, q) PROVE WInv'
    <2>1. /\ \A u \in Writes : wstate'[u] = wstate[u] \/ (u = w /\ wstate[u] = "idle" /\ wstate'[u] = "invalid")
          /\ UNCHANGED <<store, wparam, version, acked, send>>
      BY <1>1 DEF RejectPut, TypeOK
    <2>2. \A u \in Writes : Started(u)' <=> Started(u)
      BY <2>1 DEF Started
    <2> QED BY <2>1, <2>2 DEF WInv, CoordinatorHolds, SendsToPeers, PeersHold, AcksAreReal,
                              QuorumCounted, Coordinator
  <1>2. ASSUME NEW w \in Writes, WriteStep(w) PROVE WInv'
    BY <1>1, <1>2, WInvPut, WInvDeliver, WInvReturn, WInvGather DEF WriteStep
  <1>3. ASSUME NEW r \in Reads, ReadStep(r) PROVE WInv'
    <2>1. UNCHANGED <<store, wstate, wparam, version, acked, send>>
      BY <1>3 DEF ReadStep, RejectGet, get_key_coordinator, ServeRead, FetchAnswered, FetchFails,
                  CollectReplies, GetTimeout, GetCancelled, writeVars
    <2> QED BY <2>1, WInvFrame
  <1>4. CASE UNCHANGED vars
    BY <1>4, WInvFrame DEF vars, writeVars
  <1> QED BY <1>2, <1>3, <1>4 DEF Next, delete_key

\* Before any GET the read invariant holds.
LEMMA RInvInit == Init => RInv
  BY DEF Init, RInv, ReadBookkeeping, SnapshotsFresh, ResultIsNewest

\* A PUT that was answered 200 keeps its version and its quorum.
LEMMA AnsweredIsFinal ==
    ASSUME TypeOK, [Next]_vars, NEW w \in Writes, wstate[w] = "ok"
    PROVE  wstate'[w] = "ok" /\ version'[w] = version[w] /\ acked'[w] = acked[w] /\ wparam'[w] = wparam[w]
  <1>1. ASSUME NEW u \in Writes, WriteStep(u)
        PROVE wstate'[w] = "ok" /\ version'[w] = version[w] /\ acked'[w] = acked[w] /\ wparam'[w] = wparam[w]
    <2>1. CASE \E p \in Nodes : Deliver(u, p) \/ SendAcked(u, p) \/ SendFails(u, p)
      BY <2>1 DEF Deliver, SendAcked, SendFails
    <2>2. CASE \E q \in WriteParams : RejectPut(u, q)
      BY <2>2 DEF RejectPut, TypeOK
    <2>3. ASSUME NEW n \in PutNodes, NEW q \in WriteParams, NEW ts \in Timestamps,
                 put_key_coordinator(u, n, q, ts)
          PROVE u # w /\ wstate'[w] = "ok" /\ version'[w] = version[w] /\ acked'[w] = acked[w] /\ wparam'[w] = wparam[w]
      <3>1. u # w
        BY <2>3 DEF put_key_coordinator
      <3>2. wstate'[w] = wstate[w]
        BY <2>3, <3>1 DEF put_key_coordinator, TypeOK
      <3> QED BY <2>3, <3>1, <3>2 DEF put_key_coordinator, TypeOK
    <2>4. CASE CollectAcks(u) \/ PutTimeout(u) \/ PutCancelled(u)
      BY <2>4 DEF CollectAcks, PutTimeout, PutCancelled, TypeOK
    <2> QED BY <1>1, <2>1, <2>2, <2>3, <2>4 DEF WriteStep
  <1>2. ASSUME NEW r \in Reads, ReadStep(r) PROVE UNCHANGED <<wstate, version, acked, wparam>>
    BY <1>2 DEF ReadStep, RejectGet, get_key_coordinator, ServeRead, FetchAnswered, FetchFails,
                CollectReplies, GetTimeout, GetCancelled, writeVars
  <1>3. ASSUME NEW n \in Nodes, delete_key(n) PROVE UNCHANGED <<wstate, version, acked, wparam>>
    BY <1>3 DEF delete_key, writeVars
  <1>4. CASE UNCHANGED vars
    BY <1>4 DEF vars, writeVars
  <1> QED BY <1>1, <1>2, <1>3, <1>4 DEF Next

\* Steps of PUTs and deletions leave the reads alone.
LEMMA RInvFrame ==
    ASSUME TypeOK, RInv, [Next]_vars, UNCHANGED readVars PROVE RInv'
  <1>1. \A r \in Reads : \A w \in before[r] :
            wstate[w] = "ok" /\ wstate'[w] = "ok" /\ version'[w] = version[w] /\ acked'[w] = acked[w]
    BY AnsweredIsFinal DEF RInv, ReadBookkeeping, TypeOK
  <1>2. ReadBookkeeping'
    BY <1>1 DEF RInv, ReadBookkeeping, readVars
  <1>3. SnapshotsFresh'
    <2>1. \A r \in Reads : \A w \in before[r] : Quorum(w)' = Quorum(w)
      BY <1>1 DEF Quorum, Coordinator
    <2> QED BY <1>1, <2>1 DEF RInv, SnapshotsFresh, readVars, Replied
  <1>4. ResultIsNewest'
    BY DEF RInv, ResultIsNewest, readVars
  <1> QED BY <1>2, <1>3, <1>4 DEF RInv

\* The members of an answered PUT's quorum still hold it.
LEMMA QuorumHolds ==
    ASSUME TypeOK, WInv, NEW w \in Writes, wstate[w] = "ok"
    PROVE  /\ version[w] \in Version
           /\ Quorum(w) \subseteq Nodes
           /\ \A n \in Quorum(w) : Holds(store[n], version[w])
  <1>1. version[w] \in Version /\ Holds(store[Coordinator(w)], version[w])
    BY DEF WInv, CoordinatorHolds, Started
  <1>2. Coordinator(w) \in Nodes
    BY <1>1, VersionFields DEF Coordinator
  <1>3. \A p \in acked[w] : p \in Nodes /\ Holds(store[p], version[w])
    BY DEF WInv, AcksAreReal, PeersHold, TypeOK
  <1> QED BY <1>1, <1>2, <1>3 DEF Quorum

\* What AnswerGet returns is not beaten by anything it looked at.
LEMMA AnswerIsNewest ==
    ASSUME TypeOK, NEW r \in Reads, NEW q \in Int, NEW local \in Entry,
           NEW collected \in SUBSET Nodes, AnswerGet(r, q, local, collected)
    PROVE  /\ rstate'[r] \in {"found", "missing", "unavailable"}
           /\ \A x \in Reads : x # r => rstate'[x] = rstate[x] /\ result'[x] = result[x]
           /\ rstate'[r] \in {"found", "missing"} =>
                /\ 1 + Cardinality(collected) >= q
                /\ local # NoEntry => Holds(result'[r], local)
                /\ \A p \in collected : seen[r][p] # NoEntry => Holds(result'[r], seen[r][p])
  <1> DEFINE fromPeers == {seen[r][p] : p \in collected}
  <1>1. /\ rstate'[r] \in {"found", "missing", "unavailable"}
        /\ \A x \in Reads : x # r => rstate'[x] = rstate[x] /\ result'[x] = result[x]
    BY DEF AnswerGet, TypeOK
  <1>2. CASE rstate'[r] = "missing"
    <2>1. 1 + Cardinality(collected) >= q /\ Candidates(local, fromPeers) = {}
      BY <1>2 DEF AnswerGet, TypeOK
    <2> QED BY <1>1, <1>2, <2>1 DEF Candidates
  <1>3. CASE rstate'[r] = "found"
    <2>1. /\ 1 + Cardinality(collected) >= q
          /\ result'[r] \in Winners(local, fromPeers)
      BY <1>3 DEF AnswerGet, TypeOK
    <2>2. /\ result'[r] \in Candidates(local, fromPeers)
          /\ \A c \in Candidates(local, fromPeers) : ~is_newer_than(c, result'[r])
      BY <2>1 DEF Winners
    <2>3. \A c \in Candidates(local, fromPeers) : Holds(result'[r], c)
      BY <2>2 DEF Holds, Candidates
    <2> QED BY <1>1, <1>3, <2>1, <2>3 DEF Candidates
  <1>4. CASE rstate'[r] = "unavailable"
    BY <1>1, <1>4
  <1> QED BY <1>1, <1>2, <1>3, <1>4

\* get_key_coordinator reads locally, starts its fetches and may answer at once.
LEMMA RInvGet ==
    ASSUME TypeOK, WInv, RInv, [Next]_vars, NEW r \in Reads, NEW n \in GetNodes, NEW q \in ReadParams,
           NEW S \in SUBSET Nodes, get_key_coordinator(r, n, q, S)
    PROVE  RInv'
  <1>0. n \in Nodes /\ q \in Int
    BY TargetsAssumption, ParamsAssumption
  <1>1. /\ rstate[r] = "idle"
        /\ rparam' = [rparam EXCEPT ![r] = q]
        /\ rcoord' = [rcoord EXCEPT ![r] = n]
        /\ seen' = [seen EXCEPT ![r][n] = store[n]]
        /\ before' = [before EXCEPT ![r] = {w \in Writes : wstate[w] = "ok"}]
        /\ fetch' = [fetch EXCEPT ![r] = [p \in Nodes |-> IF p \in S THEN "sent" ELSE "none"]]
        /\ UNCHANGED <<store, wstate, version, acked, answered>>
    BY DEF get_key_coordinator, writeVars
  <1>2. S \subseteq Peers(n)
    BY DEF get_key_coordinator, ReadPeers
  <1>3. answered[r] = {}
    BY <1>1 DEF RInv, ReadBookkeeping, TypeOK
  <1>4. /\ rparam'[r] = q /\ rcoord'[r] = n /\ seen'[r][n] = store[n]
        /\ before'[r] = {w \in Writes : wstate[w] = "ok"}
        /\ \A p \in Nodes : fetch'[r][p] = IF p \in S THEN "sent" ELSE "none"
    BY <1>0, <1>1 DEF TypeOK
  <1>5. \A x \in Reads : x # r => /\ rparam'[x] = rparam[x] /\ rcoord'[x] = rcoord[x]
                                  /\ seen'[x] = seen[x] /\ before'[x] = before[x] /\ fetch'[x] = fetch[x]
    BY <1>1 DEF TypeOK
  <1>6. /\ rstate'[r] \in {"waiting", "found", "missing", "unavailable"}
        /\ \A x \in Reads : x # r => rstate'[x] = rstate[x] /\ result'[x] = result[x]
        /\ rstate'[r] \in {"found", "missing"} =>
             /\ 1 + Cardinality({}) >= q
             /\ store[n] # NoEntry => Holds(result'[r], store[n])
    <2>1. CASE KeepWaiting(S, {}, q - 1)
      BY <2>1 DEF get_key_coordinator, TypeOK
    <2>2. CASE ~KeepWaiting(S, {}, q - 1)
      <3>1. AnswerGet(r, q, store[n], {})
        BY <2>2 DEF get_key_coordinator
      <3>2. store[n] \in Entry
        BY <1>0 DEF TypeOK
      <3> QED BY <1>0, <3>1, <3>2, AnswerIsNewest
    <2> QED BY <2>1, <2>2
  <1>7. ReadBookkeeping'
    <2> SUFFICES ASSUME NEW x \in Reads
                 PROVE  /\ \A w \in before'[x] : wstate'[w] = "ok"
                        /\ \A p \in Nodes : fetch'[x][p] # "none" =>
                             rstate'[x] \notin {"idle", "invalid"} /\ p # rcoord'[x]
                        /\ \A p \in answered'[x] : fetch'[x][p] = "ok"
      BY DEF ReadBookkeeping
    <2>1. CASE x = r
      BY <1>1, <1>2, <1>3, <1>4, <1>6, <2>1 DEF Peers
    <2>2. CASE x # r
      BY <1>1, <1>5, <1>6, <2>2 DEF RInv, ReadBookkeeping
    <2> QED BY <2>1, <2>2
  <1>8. SnapshotsFresh'
    <2> SUFFICES ASSUME NEW x \in Reads, rstate'[x] \notin {"idle", "invalid"},
                        NEW w \in before'[x], NEW m \in Nodes, m \in Quorum(w)', Replied(x, m)'
                 PROVE  Holds(seen'[x][m], version'[w])
      BY DEF SnapshotsFresh
    <2>0. Quorum(w)' = Quorum(w)
      BY <1>1 DEF Quorum, Coordinator
    <2>1. CASE x = r
      <3>1. m = n
        BY <1>4, <2>1 DEF Replied
      <3>2. w \in Writes /\ wstate[w] = "ok"
        BY <1>4, <2>1
      <3> QED BY <1>1, <1>4, <2>0, <2>1, <3>1, <3>2, QuorumHolds
    <2>2. CASE x # r
      <3>1. Replied(x, m) /\ w \in before[x] /\ rstate[x] \notin {"idle", "invalid"}
        BY <1>5, <1>6, <2>2 DEF Replied
      <3> QED BY <1>1, <1>5, <2>0, <2>2, <3>1 DEF RInv, SnapshotsFresh
    <2> QED BY <2>1, <2>2
  <1>9. ResultIsNewest'
    <2> SUFFICES ASSUME NEW x \in Reads, rstate'[x] \in {"found", "missing"}
                 PROVE  /\ 1 + Cardinality(answered'[x]) >= rparam'[x]
                        /\ \A m \in {rcoord'[x]} \cup answered'[x] :
                             seen'[x][m] # NoEntry => Holds(result'[x], seen'[x][m])
      BY DEF ResultIsNewest
    <2>1. CASE x = r
      BY <1>1, <1>3, <1>4, <1>6, <2>1
    <2>2. CASE x # r
      BY <1>1, <1>5, <1>6, <2>2 DEF RInv, ResultIsNewest
    <2> QED BY <2>1, <2>2
  <1> QED BY <1>7, <1>8, <1>9 DEF RInv

\* An internal read is served at the peer, or its call returns.
LEMMA RInvFetch ==
    ASSUME TypeOK, WInv, RInv, NEW r \in Reads, NEW p \in Nodes,
           ServeRead(r, p) \/ FetchAnswered(r, p) \/ FetchFails(r, p)
    PROVE  RInv'
  <1>1. /\ fetch[r][p] \in {"sent", "served"}
        /\ UNCHANGED <<store, wstate, version, acked, rstate, rparam, rcoord, answered, result, before>>
    BY DEF ServeRead, FetchAnswered, FetchFails, writeVars
  <1>2. \A x \in Reads, m \in Nodes :
          \/ fetch'[x][m] = fetch[x][m] /\ seen'[x][m] = seen[x][m]
          \/ /\ x = r /\ m = p
             /\ \/ fetch'[x][m] = "served" /\ seen'[x][m] = store[m]
                \/ fetch'[x][m] = "ok" /\ fetch[x][m] = "served" /\ seen'[x][m] = seen[x][m]
                \/ fetch'[x][m] = "failed" /\ seen'[x][m] = seen[x][m]
    BY DEF ServeRead, FetchAnswered, FetchFails, TypeOK
  <1>3. p # rcoord[r] /\ p \notin answered[r]
    BY <1>1 DEF RInv, ReadBookkeeping
  <1>4. ReadBookkeeping'
    <2>1. \A x \in Reads : \A m \in answered[x] : m \in Nodes /\ fetch[x][m] = "ok"
      BY DEF RInv, ReadBookkeeping, TypeOK
    <2>2. \A x \in Reads : \A m \in answered[x] : fetch'[x][m] = "ok"
      BY <1>2, <1>3, <2>1
    <2> QED BY <1>1, <1>2, <2>2 DEF RInv, ReadBookkeeping
  <1>5. SnapshotsFresh'
    <2> SUFFICES ASSUME NEW x \in Reads, rstate[x] \notin {"idle", "invalid"},
                        NEW w \in before[x], NEW m \in Nodes, m \in Quorum(w), Replied(x, m)'
                 PROVE  Holds(seen'[x][m], version[w])
      BY <1>1 DEF SnapshotsFresh, Quorum, Coordinator
    <2>1. w \in Writes /\ wstate[w] = "ok"
      BY DEF RInv, ReadBookkeeping, TypeOK
    <2>2. CASE x = r /\ m = p /\ seen'[x][m] = store[m]
      BY <2>1, <2>2, QuorumHolds
    <2>3. CASE seen'[x][m] = seen[x][m] /\ Replied(x, m)
      BY <2>3 DEF RInv, SnapshotsFresh
    <2> QED BY <1>1, <1>2, <2>2, <2>3 DEF Replied
  <1>6. ResultIsNewest'
    <2>1. \A x \in Reads : \A m \in {rcoord[x]} \cup answered[x] : seen'[x][m] = seen[x][m]
      <3>1. \A x \in Reads : \A m \in {rcoord[x]} \cup answered[x] : m \in Nodes
        BY DEF TypeOK
      <3>2. \A x \in Reads, m \in Nodes : seen'[x][m] = seen[x][m] \/ (x = r /\ m = p)
        BY <1>2
      <3> QED BY <1>3, <3>1, <3>2
    <2> QED BY <1>1, <2>1 DEF RInv, ResultIsNewest
  <1> QED BY <1>4, <1>5, <1>6 DEF RInv

\* A GET's _gather turns its loop, times out or is cancelled.
LEMMA RInvGather ==
    ASSUME TypeOK, RInv, NEW r \in Reads, CollectReplies(r) \/ GetTimeout(r) \/ GetCancelled(r)
    PROVE  RInv'
  <1>1. /\ rstate[r] = "waiting"
        /\ UNCHANGED <<store, wstate, version, acked, rparam, rcoord, fetch, seen, before>>
        /\ \A x \in Reads : x # r => answered'[x] = answered[x]
    BY DEF CollectReplies, GetTimeout, GetCancelled, writeVars, TypeOK
  <1>2. answered'[r] \in SUBSET Nodes /\ \A p \in answered'[r] : fetch[r][p] = "ok"
    BY DEF CollectReplies, GetTimeout, GetCancelled, DoneFetches, TypeOK, RInv, ReadBookkeeping
  <1>3. /\ \A x \in Reads : x # r => rstate'[x] = rstate[x] /\ result'[x] = result[x]
        /\ \/ rstate'[r] \in {"waiting", "cancelled"}
           \/ AnswerGet(r, rparam[r], seen[r][rcoord[r]], answered'[r])
    <2>1. CASE CollectReplies(r)
      <3> DEFINE collected == answered[r] \cup {p \in DoneFetches(r) : fetch[r][p] = "ok"}
      <3>1. answered'[r] = collected
        BY <2>1 DEF CollectReplies, TypeOK
      <3>2. \/ rstate' = rstate /\ result' = result
            \/ AnswerGet(r, rparam[r], seen[r][rcoord[r]], collected)
        BY <2>1 DEF CollectReplies
      <3>3. CASE rstate' = rstate /\ result' = result
        BY <1>1, <3>3
      <3>4. CASE AnswerGet(r, rparam[r], seen[r][rcoord[r]], collected)
        <4>1. rparam[r] \in Int /\ seen[r][rcoord[r]] \in Entry
          BY DEF TypeOK
        <4> QED BY <1>2, <3>1, <3>4, <4>1, AnswerIsNewest
      <3> QED BY <3>2, <3>3, <3>4
    <2>2. CASE GetTimeout(r)
      <3>1. answered' = answered /\ AnswerGet(r, rparam[r], seen[r][rcoord[r]], answered[r])
        BY <2>2 DEF GetTimeout
      <3>2. rparam[r] \in Int /\ seen[r][rcoord[r]] \in Entry
        BY DEF TypeOK
      <3> QED BY <1>2, <3>1, <3>2, AnswerIsNewest
    <2>3. CASE GetCancelled(r)
      BY <2>3 DEF GetCancelled, TypeOK
    <2> QED BY <2>1, <2>2, <2>3
  <1>4. /\ rstate'[r] \in {"waiting", "cancelled", "found", "missing", "unavailable"}
        /\ rstate'[r] \in {"found", "missing"} =>
             /\ 1 + Cardinality(answered'[r]) >= rparam[r]
             /\ \A n \in {rcoord[r]} \cup answered'[r] :
                  seen[r][n] # NoEntry => Holds(result'[r], seen[r][n])
    <2>1. CASE rstate'[r] \in {"waiting", "cancelled"}
      BY <2>1
    <2>2. CASE AnswerGet(r, rparam[r], seen[r][rcoord[r]], answered'[r])
      <3>1. rparam[r] \in Int /\ seen[r][rcoord[r]] \in Entry
        BY DEF TypeOK
      <3> QED BY <1>2, <2>2, <3>1, AnswerIsNewest
    <2> QED BY <1>3, <2>1, <2>2
  <1>5. ReadBookkeeping'
    BY <1>1, <1>2, <1>3, <1>4 DEF RInv, ReadBookkeeping
  <1>6. SnapshotsFresh'
    <2>1. \A w \in Writes : Quorum(w)' = Quorum(w)
      BY <1>1 DEF Quorum, Coordinator
    <2>2. \A x \in Reads : rstate'[x] \notin {"idle", "invalid"} => rstate[x] \notin {"idle", "invalid"}
      BY <1>1, <1>3
    <2> QED BY <1>1, <2>1, <2>2 DEF RInv, SnapshotsFresh, Replied, TypeOK
  <1>7. ResultIsNewest'
    BY <1>1, <1>3, <1>4 DEF RInv, ResultIsNewest
  <1> QED BY <1>5, <1>6, <1>7 DEF RInv

\* Every step preserves the read invariant.
LEMMA RInvNext == TypeOK /\ WInv /\ RInv /\ [Next]_vars => RInv'
  <1> SUFFICES ASSUME TypeOK, WInv, RInv, [Next]_vars PROVE RInv'
    OBVIOUS
  <1>1. ASSUME NEW w \in Writes, WriteStep(w) PROVE RInv'
    <2>1. UNCHANGED readVars
      BY <1>1 DEF WriteStep, RejectPut, put_key_coordinator, Deliver, SendAcked, SendFails,
                  CollectAcks, PutTimeout, PutCancelled
    <2> QED BY <2>1, RInvFrame
  <1>2. ASSUME NEW r \in Reads, NEW q \in ReadParams, RejectGet(r, q) PROVE RInv'
    <2>1. /\ \A x \in Reads : rstate'[x] = rstate[x] \/ (x = r /\ rstate[x] = "idle" /\ rstate'[x] = "invalid")
          /\ UNCHANGED <<wstate, version, acked, rparam, rcoord, answered, fetch, seen, result, before>>
      BY <1>2 DEF RejectGet, TypeOK, writeVars
    <2>2. ReadBookkeeping'
      BY <2>1 DEF RInv, ReadBookkeeping
    <2>3. SnapshotsFresh'
      BY <2>1 DEF RInv, SnapshotsFresh, Quorum, Coordinator, Replied
    <2>4. ResultIsNewest'
      BY <2>1 DEF RInv, ResultIsNewest
    <2> QED BY <2>2, <2>3, <2>4 DEF RInv
  <1>3. ASSUME NEW r \in Reads, ReadStep(r) PROVE RInv'
    BY <1>2, <1>3, RInvGet, RInvFetch, RInvGather DEF ReadStep
  <1>4. ASSUME NEW n \in Nodes, delete_key(n) PROVE RInv'
    BY <1>4, RInvFrame DEF delete_key
  <1>5. CASE UNCHANGED vars
    BY <1>5, RInvFrame DEF vars
  <1> QED BY <1>1, <1>3, <1>4, <1>5 DEF Next

-----------------------------------------------------------------------------
(* From the invariant to the guarantees.                                   *)

\* Two sets of nodes that together outnumber the cluster share a node.
LEMMA Pigeonhole ==
    ASSUME NEW A \in SUBSET Nodes, NEW B \in SUBSET Nodes,
           Cardinality(A) + Cardinality(B) > N
    PROVE  \E n \in A : n \in B
  <1>1. IsFiniteSet(Nodes) /\ IsFiniteSet(A) /\ IsFiniteSet(B) /\ IsFiniteSet(A \cup B)
    BY NodesAssumption, FS_Subset
  <1>2. Cardinality(A \cup B) <= N
    BY <1>1, FS_Subset DEF N
  <1>3. Cardinality(A \cup B) = Cardinality(A) + Cardinality(B) - Cardinality(A \cap B)
    BY <1>1, FS_Union
  <1>4. /\ Cardinality(A) \in Nat /\ Cardinality(B) \in Nat /\ N \in Nat
        /\ Cardinality(A \cap B) \in Nat /\ Cardinality(A \cup B) \in Nat
    BY <1>1, FS_Subset, FS_CardinalityType DEF N
  <1>5. Cardinality(A \cap B) # 0
    BY <1>2, <1>3, <1>4
  <1>6. A \cap B # {}
    BY <1>5, FS_EmptySet
  <1> QED BY <1>6

\* A collector that is not among those it collected makes one more.
LEMMA OneMore ==
    ASSUME NEW n \in Nodes, NEW A \in SUBSET Nodes, n \notin A
    PROVE  /\ {n} \cup A \in SUBSET Nodes
           /\ Cardinality({n} \cup A) = 1 + Cardinality(A)
           /\ Cardinality(A) \in Nat
  <1>1. IsFiniteSet(A) /\ A \cup {n} = {n} \cup A
    BY NodesAssumption, FS_Subset
  <1>2. Cardinality(A \cup {n}) = Cardinality(A) + 1
    BY <1>1, FS_AddElement
  <1>3. Cardinality(A) \in Nat
    BY <1>1, FS_CardinalityType
  <1> QED BY <1>1, <1>2, <1>3

\* A PUT answered 200 has W holders in its quorum: its coordinator and W-1 acked peers.
LEMMA QuorumSize ==
    ASSUME TypeOK, WInv, NEW w \in Writes, wstate[w] = "ok"
    PROVE  Quorum(w) \in SUBSET Nodes /\ Cardinality(Quorum(w)) >= wparam[w]
  <1>1. Coordinator(w) \in Nodes /\ acked[w] \in SUBSET Nodes
    BY QuorumHolds DEF Quorum, TypeOK
  <1>2. Coordinator(w) \notin acked[w]
    BY <1>1 DEF WInv, AcksAreReal, SendsToPeers
  <1>3. 1 + Cardinality(acked[w]) >= wparam[w]
    BY DEF WInv, QuorumCounted
  <1>4. /\ Quorum(w) \in SUBSET Nodes
        /\ Cardinality(Quorum(w)) = 1 + Cardinality(acked[w])
    BY <1>1, <1>2, OneMore DEF Quorum
  <1> QED BY <1>3, <1>4

\* The write invariant implies durability of acknowledged PUTs.
LEMMA DurableFromInv == TypeOK /\ WInv => AckedWriteDurable
  <1> SUFFICES ASSUME TypeOK, WInv, NEW w \in Writes, wstate[w] = "ok"
               PROVE  Cardinality(Holders(w)) >= wparam[w]
    BY DEF AckedWriteDurable
  <1>1. Quorum(w) \subseteq Holders(w)
    BY QuorumHolds DEF Holders
  <1>2. IsFiniteSet(Holders(w))
    BY NodesAssumption, FS_Subset DEF Holders
  <1>3. Cardinality(Quorum(w)) <= Cardinality(Holders(w))
    BY <1>1, <1>2, FS_Subset
  <1>4. Cardinality(Quorum(w)) \in Nat /\ Cardinality(Holders(w)) \in Nat /\ wparam[w] \in Int
    BY <1>1, <1>2, FS_Subset, FS_CardinalityType DEF TypeOK
  <1> QED BY <1>3, <1>4, QuorumSize

\* The two invariants and the overlap of quorums imply that reads are fresh.
LEMMA FreshFromInv == TypeOK /\ WInv /\ RInv => ReadSeesAckedWrites
  <1> SUFFICES ASSUME TypeOK, WInv, RInv,
                      NEW r \in Reads, rstate[r] \in {"found", "missing"},
                      NEW w \in before[r], wparam[w] + rparam[r] > N
               PROVE  Holds(result[r], version[w])
    BY DEF ReadSeesAckedWrites
  <1> DEFINE looked == {rcoord[r]} \cup answered[r]
  <1>1. w \in Writes /\ wstate[w] = "ok"
    BY DEF RInv, ReadBookkeeping, TypeOK
  <1>2. Quorum(w) \in SUBSET Nodes /\ Cardinality(Quorum(w)) >= wparam[w]
    BY <1>1, QuorumSize
  <1>3. rcoord[r] \in Nodes /\ answered[r] \in SUBSET Nodes /\ rcoord[r] \notin answered[r]
    BY DEF RInv, ReadBookkeeping, TypeOK
  <1>4. looked \in SUBSET Nodes /\ Cardinality(looked) >= rparam[r]
    <2>1. 1 + Cardinality(answered[r]) >= rparam[r]
      BY DEF RInv, ResultIsNewest
    <2> QED BY <1>3, <2>1, OneMore
  <1>5. PICK n \in looked : n \in Quorum(w)
    <2>1. Cardinality(looked) \in Nat /\ Cardinality(Quorum(w)) \in Nat /\ N \in Nat
      BY <1>2, <1>4, NodesAssumption, FS_Subset, FS_CardinalityType DEF N
    <2>2. wparam[w] \in Int /\ rparam[r] \in Int
      BY <1>1 DEF TypeOK
    <2>3. Cardinality(looked) + Cardinality(Quorum(w)) > N
      BY <1>2, <1>4, <2>1, <2>2
    <2> QED BY <1>2, <1>4, <2>3, Pigeonhole
  <1>6. n \in Nodes /\ Replied(r, n)
    BY <1>3, <1>5 DEF Replied, RInv, ReadBookkeeping
  <1>7. Holds(seen[r][n], version[w])
    BY <1>5, <1>6 DEF RInv, SnapshotsFresh
  <1>8. Holds(result[r], seen[r][n])
    BY <1>5, <1>7 DEF RInv, ResultIsNewest, Holds
  <1>9. result[r] \in Entry /\ seen[r][n] \in Version /\ version[w] \in Version
    BY <1>1, <1>6, <1>7, QuorumHolds DEF TypeOK, Entry, Holds
  <1> QED BY <1>7, <1>8, <1>9, HoldsTransitive

\* Without DELETE, a PUT answered 200 stays at W nodes or more, however many
\* requests interleave and whatever is slow, lost or late.
THEOREM DurableWrites ==
    ASSUME ~Deletes PROVE Spec => []AckedWriteDurable
  <1>1. Init => TypeOK /\ WInv
    BY TypeInit, WInvInit
  <1>2. TypeOK /\ WInv /\ [Next]_vars => (TypeOK /\ WInv)'
    BY TypeNext, WInvNext
  <1> QED BY <1>1, <1>2, DurableFromInv, PTL DEF Spec

\* Without DELETE, W+R>N makes every GET see every PUT answered before it.
THEOREM QuorumOverlap ==
    ASSUME ~Deletes PROVE Spec => []ReadSeesAckedWrites
  <1>1. Init => TypeOK /\ WInv /\ RInv
    BY TypeInit, WInvInit, RInvInit
  <1>2. TypeOK /\ WInv /\ RInv /\ [Next]_vars => (TypeOK /\ WInv /\ RInv)'
    BY TypeNext, WInvNext, RInvNext
  <1> QED BY <1>1, <1>2, FreshFromInv, PTL DEF Spec

\* No handler step makes a node's entry regress: LWW at every store.
LEMMA StepNeverRegresses ==
    ASSUME ~Deletes, TypeOK, [Next]_vars, NEW n \in Nodes
    PROVE  \/ store'[n] = store[n]
           \/ store[n] = NoEntry
           \/ is_newer_than(store'[n], store[n])
<1>1. CASE UNCHANGED store
  BY <1>1
<1>2. ASSUME NEW m \in Nodes, NEW v, store' = [store EXCEPT ![m] = Put(@, v)]
      PROVE  \/ store'[n] = store[n]
             \/ store[n] = NoEntry
             \/ is_newer_than(store'[n], store[n])
  <2>1. store \in [Nodes -> Entry]
    BY DEF TypeOK
  <2>2. store'[n] = store[n] \/ (n = m /\ store'[n] = Put(store[n], v))
    BY <1>2, <2>1
  <2>3. QED  BY <2>2 DEF Put, Applies
<1>3. UNCHANGED store \/ \E m \in Nodes : \E v : store' = [store EXCEPT ![m] = Put(@, v)]
  <2>1. CASE UNCHANGED vars
    BY <2>1 DEF vars
  <2>2. ASSUME NEW w \in Writes, WriteStep(w)
        PROVE  UNCHANGED store \/ \E m \in Nodes : \E v : store' = [store EXCEPT ![m] = Put(@, v)]
    <3>1. ASSUME NEW q, RejectPut(w, q) PROVE UNCHANGED store
      BY <3>1 DEF RejectPut
    <3>2. ASSUME NEW m \in PutNodes, NEW q, NEW ts, put_key_coordinator(w, m, q, ts)
          PROVE  \E v : store' = [store EXCEPT ![m] = Put(@, v)]
      BY <3>2 DEF put_key_coordinator
    <3>3. ASSUME NEW p \in Nodes, Deliver(w, p)
          PROVE  \E v : store' = [store EXCEPT ![p] = Put(@, v)]
      BY <3>3 DEF Deliver
    <3>4. ASSUME NEW p \in Nodes, SendAcked(w, p) \/ SendFails(w, p) PROVE UNCHANGED store
      BY <3>4 DEF SendAcked, SendFails
    <3>5. CASE CollectAcks(w) \/ PutTimeout(w) \/ PutCancelled(w)
      BY <3>5 DEF CollectAcks, PutTimeout, PutCancelled
    <3>6. QED  BY <2>2, <3>1, <3>2, <3>3, <3>4, <3>5, TargetsAssumption DEF WriteStep
  <2>3. ASSUME NEW r \in Reads, ReadStep(r) PROVE UNCHANGED store
    BY <2>3 DEF ReadStep, RejectGet, get_key_coordinator, ServeRead, FetchAnswered, FetchFails,
                CollectReplies, GetTimeout, GetCancelled
  <2>4. \A m \in Nodes : ~delete_key(m)
    BY DEF delete_key
  <2>5. QED  BY <2>1, <2>2, <2>3, <2>4 DEF Next
<1>4. QED  BY <1>1, <1>2, <1>3

\* Without DELETE, no node ever replaces its entry by one that does not beat it.
THEOREM NeverRegresses ==
    ASSUME ~Deletes
    PROVE  Spec => NodeNeverRegresses
<1>1. TypeOK /\ [Next]_vars =>
        [\A n \in Nodes : \/ store'[n] = store[n]
                          \/ store[n] = NoEntry
                          \/ is_newer_than(store'[n], store[n])]_vars
  BY StepNeverRegresses
<1>2. QED  BY <1>1, TypeCorrect, PTL DEF Spec, NodeNeverRegresses

-----------------------------------------------------------------------------
(* Replicas converge                                                       *)

\* What a node holds is the version of a PUT that some node took up.
EntriesFromWrites ==
    \A n \in Nodes : store[n] # NoEntry => \E w \in Writes : Started(w) /\ store[n] = version[w]

\* A node's clock is not behind any version it has stamped, and no two PUTs were
\* stamped alike: at one node the readings differ, at two the node_ids do.
StampsDistinct ==
    /\ \A w \in Writes : Started(w) => version[w].timestamp <= clock[Coordinator(w)]
    /\ \A u, w \in Writes : Started(u) /\ Started(w) /\ u # w => ~SameStamp(version[u], version[w])

\* A step takes up a PUT, or leaves clocks, versions and the PUTs taken up alone.
LEMMA StampingSteps ==
    ASSUME TypeOK, [Next]_vars
    PROVE  \/ \E w \in Writes, n \in PutNodes, q \in WriteParams, ts \in Timestamps :
                 put_key_coordinator(w, n, q, ts)
           \/ UNCHANGED <<clock, version>> /\ \A w \in Writes : Started(w)' <=> Started(w)
  <1> USE DEF TypeOK
  <1>1. ASSUME NEW w \in Writes, NEW q \in WriteParams, RejectPut(w, q)
        PROVE  UNCHANGED <<clock, version>> /\ \A u \in Writes : Started(u)' <=> Started(u)
    BY <1>1 DEF RejectPut, Started
  <1>2. ASSUME NEW w \in Writes, NEW p \in Nodes, Deliver(w, p) \/ SendAcked(w, p) \/ SendFails(w, p)
        PROVE  UNCHANGED <<clock, version, wstate>>
    BY <1>2 DEF Deliver, SendAcked, SendFails
  <1>3. ASSUME NEW w \in Writes, CollectAcks(w) \/ PutTimeout(w) \/ PutCancelled(w)
        PROVE  UNCHANGED <<clock, version>> /\ \A u \in Writes : Started(u)' <=> Started(u)
    <2>1. UNCHANGED <<clock, version>> /\ wstate[w] = "waiting"
      BY <1>3 DEF CollectAcks, PutTimeout, PutCancelled
    <2>2. /\ wstate'[w] \in {"waiting", "ok", "unavailable", "cancelled"}
          /\ \A u \in Writes : u # w => wstate'[u] = wstate[u]
      <3>1. CASE CollectAcks(w)
        BY <3>1 DEF CollectAcks, PutOutcome
      <3>2. CASE PutTimeout(w)
        BY <3>2 DEF PutTimeout, PutOutcome
      <3>3. CASE PutCancelled(w)
        BY <3>3 DEF PutCancelled
      <3> QED BY <1>3, <3>1, <3>2, <3>3
    <2> QED BY <2>1, <2>2 DEF Started
  <1>4. ASSUME NEW r \in Reads, ReadStep(r) PROVE UNCHANGED <<clock, version, wstate>>
    BY <1>4 DEF ReadStep, RejectGet, get_key_coordinator, ServeRead, FetchAnswered, FetchFails,
                CollectReplies, GetTimeout, GetCancelled, writeVars
  <1>5. ASSUME NEW n \in Nodes, delete_key(n) PROVE UNCHANGED <<clock, version, wstate>>
    BY <1>5 DEF delete_key, writeVars
  <1>6. CASE UNCHANGED vars
    BY <1>6 DEF vars, writeVars, Started
  <1>7. CASE UNCHANGED <<clock, version, wstate>>
    BY <1>7 DEF Started
  <1> QED BY <1>1, <1>2, <1>3, <1>4, <1>5, <1>6, <1>7 DEF Next, WriteStep

\* What put_key_coordinator does to versions: w's is new, the others stay.
LEMMA StampFacts ==
    ASSUME TypeOK, NEW w \in Writes, NEW n \in PutNodes, NEW q \in WriteParams, NEW ts \in Timestamps,
           put_key_coordinator(w, n, q, ts)
    PROVE  /\ n \in Nodes /\ ts \in Nat
           /\ version'[w] = [value |-> w, timestamp |-> ts, node_id |-> n]
           /\ version'[w].timestamp = ts /\ version'[w].node_id = n
           /\ ~Started(w) /\ Started(w)'
           /\ \A u \in Writes : u # w => version'[u] = version[u] /\ (Started(u)' <=> Started(u))
           /\ clock'[n] = ts /\ \A m \in Nodes : m # n => clock'[m] = clock[m]
  <1> USE DEF TypeOK
  <1>1. n \in Nodes /\ ts \in Nat
    BY TargetsAssumption, TimestampsAssumption
  <1>2. /\ version'[w] = [value |-> w, timestamp |-> ts, node_id |-> n]
        /\ \A u \in Writes : u # w => version'[u] = version[u]
    BY DEF put_key_coordinator
  <1>3. version'[w].timestamp = ts /\ version'[w].node_id = n
    BY <1>2
  <1>4. /\ wstate[w] = "idle" /\ wstate'[w] \in {"waiting", "ok", "unavailable"}
        /\ \A u \in Writes : u # w => wstate'[u] = wstate[u]
    BY DEF put_key_coordinator, PutOutcome
  <1>5. clock'[n] = ts /\ \A m \in Nodes : m # n => clock'[m] = clock[m]
    BY <1>1 DEF put_key_coordinator
  <1> QED BY <1>1, <1>2, <1>3, <1>4, <1>5 DEF Started

\* A step leaves a node's entry, removes it, or stores a version that was taken up.
LEMMA EntriesNext == TypeOK /\ WInv /\ EntriesFromWrites /\ [Next]_vars => EntriesFromWrites'
  <1> SUFFICES ASSUME TypeOK, WInv, EntriesFromWrites, [Next]_vars, NEW n \in Nodes, store'[n] # NoEntry
               PROVE  \E w \in Writes : Started(w)' /\ store'[n] = version'[w]
    BY DEF EntriesFromWrites
  <1>1. ASSUME NEW w \in Writes, Started(w) PROVE Started(w)' /\ version'[w] = version[w]
    <2>1. ASSUME NEW u \in Writes, NEW m \in PutNodes, NEW q \in WriteParams, NEW ts \in Timestamps,
                 put_key_coordinator(u, m, q, ts)
          PROVE  Started(w)' /\ version'[w] = version[w]
      BY <1>1, <2>1, StampFacts
    <2> QED BY <1>1, <2>1, StampingSteps
  <1>2. CASE store'[n] = store[n]
    <2>1. PICK w \in Writes : Started(w) /\ store[n] = version[w]
      BY <1>2 DEF EntriesFromWrites
    <2> QED BY <1>1, <1>2, <2>1
  <1>3. CASE store'[n] # store[n]
    <2>1. ASSUME NEW w \in Writes, NEW m \in PutNodes, NEW q \in WriteParams, NEW ts \in Timestamps,
                 put_key_coordinator(w, m, q, ts)
          PROVE  Started(w)' /\ store'[n] = version'[w]
      <3>1. version'[w] = [value |-> w, timestamp |-> ts, node_id |-> m] /\ Started(w)' /\ m \in Nodes
        BY <2>1, StampFacts
      <3>2. store' = [store EXCEPT ![m] = Put(@, version'[w])]
        BY <2>1, <3>1 DEF put_key_coordinator
      <3> QED BY <1>3, <3>1, <3>2 DEF Put, TypeOK
    <2>2. ASSUME NEW w \in Writes, NEW p \in Nodes, Deliver(w, p)
          PROVE  Started(w) /\ store'[n] = version[w]
      <3>1. Started(w)
        BY <2>2 DEF Deliver, WInv, SendsToPeers
      <3> QED BY <1>3, <2>2, <3>1 DEF Deliver, Put, TypeOK
    <2>3. ASSUME NEW w \in Writes,
                 \/ \E q \in WriteParams : RejectPut(w, q)
                 \/ CollectAcks(w) \/ PutTimeout(w) \/ PutCancelled(w)
                 \/ \E p \in Nodes : SendAcked(w, p) \/ SendFails(w, p)
          PROVE  FALSE
      BY <1>3, <2>3 DEF RejectPut, CollectAcks, PutTimeout, PutCancelled, SendAcked, SendFails
    <2>4. ASSUME NEW r \in Reads, ReadStep(r) PROVE FALSE
      BY <1>3, <2>4 DEF ReadStep, RejectGet, get_key_coordinator, ServeRead, FetchAnswered, FetchFails,
                  CollectReplies, GetTimeout, GetCancelled
    <2>5. ASSUME NEW m \in Nodes, delete_key(m) PROVE FALSE
      BY <1>3, <2>5 DEF delete_key, TypeOK
    <2>6. ~UNCHANGED vars
      BY <1>3 DEF vars
    <2> QED BY <1>1, <2>1, <2>2, <2>3, <2>4, <2>5, <2>6 DEF Next, WriteStep
  <1> QED BY <1>2, <1>3

\* Clocks that never repeat a reading never stamp two PUTs alike.
LEMMA StampsNext ==
    StrictClock /\ TypeOK /\ WInv /\ StampsDistinct /\ [Next]_vars => StampsDistinct'
  <1> SUFFICES ASSUME StrictClock, TypeOK, WInv, StampsDistinct, [Next]_vars PROVE StampsDistinct'
    OBVIOUS
  <1>1. ASSUME NEW w \in Writes, NEW n \in PutNodes, NEW q \in WriteParams, NEW ts \in Timestamps,
               put_key_coordinator(w, n, q, ts)
        PROVE  StampsDistinct'
    <2>1. /\ n \in Nodes /\ ts \in Nat
          /\ version'[w].timestamp = ts /\ version'[w].node_id = n
          /\ \A u \in Writes : u # w => version'[u] = version[u] /\ (Started(u)' <=> Started(u))
          /\ clock'[n] = ts /\ \A m \in Nodes : m # n => clock'[m] = clock[m]
      BY <1>1, StampFacts
    <2>2. clock[n] \in Nat /\ ts > clock[n]
      BY <1>1, <2>1 DEF put_key_coordinator, TypeOK
    <2>3. ASSUME NEW u \in Writes, u # w, Started(u)'
          PROVE  /\ Started(u) /\ version'[u] = version[u]
                 /\ version[u].timestamp \in Nat /\ version[u].node_id \in Nodes
                 /\ version[u].timestamp <= clock[version[u].node_id]
      <3>1. Started(u) /\ version'[u] = version[u]
        BY <2>1, <2>3
      <3>2. version[u] \in Version
        BY <3>1 DEF WInv, CoordinatorHolds
      <3>3. version[u].timestamp \in Nat /\ version[u].node_id \in Nodes
        BY <3>2 DEF Version, VersionedValue
      <3> QED BY <3>1, <3>3 DEF StampsDistinct, Coordinator
    <2>4. ASSUME NEW u \in Writes, Started(u)' PROVE version'[u].timestamp <= clock'[Coordinator(u)']
      <3>1. CASE u = w
        BY <2>1, <3>1 DEF Coordinator
      <3>2. CASE u # w
        <4>1. /\ version'[u] = version[u] /\ version[u].timestamp \in Nat /\ version[u].node_id \in Nodes
              /\ version[u].timestamp <= clock[version[u].node_id]
          BY <2>3, <2>4, <3>2
        <4>2. \A m \in Nodes : clock[m] \in Nat /\ clock'[m] \in Nat /\ clock[m] <= clock'[m]
          <5>1. \A m \in Nodes : clock[m] \in Nat
            BY DEF TypeOK
          <5> QED BY <2>1, <2>2, <5>1
        <4>3. Coordinator(u)' = version[u].node_id
          BY <4>1 DEF Coordinator
        <4> QED BY <4>1, <4>2, <4>3
      <3> QED BY <3>1, <3>2
    <2>5. ASSUME NEW u \in Writes, u # w, Started(u)' PROVE ~SameStamp(version'[u], version'[w])
      <3>1. /\ version'[u] = version[u] /\ version[u].timestamp \in Nat /\ version[u].node_id \in Nodes
            /\ version[u].timestamp <= clock[version[u].node_id]
        BY <2>3, <2>5
      <3> QED BY <2>1, <2>2, <3>1 DEF SameStamp
    <2>6. ASSUME NEW u \in Writes, NEW x \in Writes, Started(u)', Started(x)', u # x
          PROVE  ~SameStamp(version'[u], version'[x])
      <3>1. CASE u # w /\ x # w
        <4>1. Started(u) /\ Started(x) /\ version'[u] = version[u] /\ version'[x] = version[x]
          BY <2>3, <2>6, <3>1
        <4> QED BY <2>6, <4>1 DEF StampsDistinct
      <3>2. CASE x = w
        BY <2>5, <2>6, <3>2
      <3>3. CASE u = w
        BY <2>5, <2>6, <3>3 DEF SameStamp
      <3> QED BY <3>1, <3>2, <3>3
    <2> QED BY <2>4, <2>6 DEF StampsDistinct
  <1>2. CASE UNCHANGED <<clock, version>> /\ \A w \in Writes : Started(w)' <=> Started(w)
    <2>1. ASSUME NEW w \in Writes, Started(w)' PROVE version'[w].timestamp <= clock'[Coordinator(w)']
      BY <1>2, <2>1 DEF StampsDistinct, Coordinator
    <2>2. ASSUME NEW u \in Writes, NEW x \in Writes, Started(u)', Started(x)', u # x
          PROVE  ~SameStamp(version'[u], version'[x])
      BY <1>2, <2>2 DEF StampsDistinct
    <2> QED BY <2>1, <2>2 DEF StampsDistinct
  <1> QED BY <1>1, <1>2, StampingSteps

\* Nodes that all writes have reached hold the same entry.
LEMMA ConvergedFromInv ==
    TypeOK /\ WInv /\ EntriesFromWrites /\ StampsDistinct => ReplicasConverge
  <1> SUFFICES ASSUME TypeOK, WInv, EntriesFromWrites, StampsDistinct,
                      \A w \in Writes : Started(w) =>
                          \A p \in Peers(Coordinator(w)) : send[w][p] \in {"applied", "ok"},
                      NEW m \in Nodes, NEW n \in Nodes
               PROVE  store[m] = store[n]
    BY DEF ReplicasConverge
  <1>1. ASSUME NEW w \in Writes, Started(w), NEW x \in Nodes PROVE Holds(store[x], version[w])
    <2>1. CASE x = Coordinator(w)
      BY <1>1, <2>1 DEF WInv, CoordinatorHolds
    <2>2. CASE x # Coordinator(w)
      BY <1>1, <2>2 DEF WInv, PeersHold, Peers
    <2> QED BY <2>1, <2>2
  <1>2. \A x \in Nodes, y \in Nodes : store[y] # NoEntry => Holds(store[x], store[y])
    BY <1>1 DEF EntriesFromWrites
  <1>3. CASE store[m] = NoEntry \/ store[n] = NoEntry
    BY <1>2, <1>3 DEF Holds
  <1>4. CASE store[m] # NoEntry /\ store[n] # NoEntry
    <2>1. PICK u \in Writes : Started(u) /\ store[m] = version[u]
      BY <1>4 DEF EntriesFromWrites
    <2>2. PICK w \in Writes : Started(w) /\ store[n] = version[w]
      BY <1>4 DEF EntriesFromWrites
    <2>3. Stamped(store[m]) /\ Stamped(store[n])
      BY <1>4, VersionFields DEF TypeOK, Entry, Stamped
    <2>4. SameStamp(store[m], store[n])
      BY <1>2, <1>4, <2>3, LWWHoldsAntisymmetric
    <2> QED BY <2>1, <2>2, <2>4 DEF StampsDistinct
  <1> QED BY <1>3, <1>4

\* common/models.py: "every node comparing the same two versions must land on the
\* same winner".  With clocks that never repeat a reading and without DELETE,
\* nodes that have received every write agree, whatever the order of arrival and
\* whichever nodes coordinated.
THEOREM ReplicasAgree ==
    ASSUME ~Deletes, StrictClock PROVE Spec => []ReplicasConverge
  <1>1. Init => TypeOK /\ WInv /\ EntriesFromWrites /\ StampsDistinct
    <2>1. Init => EntriesFromWrites /\ StampsDistinct
      BY DEF Init, EntriesFromWrites, StampsDistinct, Started
    <2> QED BY <2>1, TypeInit, WInvInit
  <1>2. TypeOK /\ WInv /\ EntriesFromWrites /\ StampsDistinct /\ [Next]_vars
        => (TypeOK /\ WInv /\ EntriesFromWrites /\ StampsDistinct)'
    BY TypeNext, WInvNext, EntriesNext, StampsNext
  <1> QED BY <1>1, <1>2, ConvergedFromInv, PTL DEF Spec

-----------------------------------------------------------------------------
(* Every running call is referenced                                        *)

\* Someone holds a reference to the task of operation o at peer p.
Referenced(o, p) == p \in pending[o] \/ <<o, p>> \in background

\* A running replicate call, a running internal read.
RunningSend(w, p)  == send[w][p] \in {"sent", "applied"}
RunningFetch(r, p) == fetch[r][p] \in {"sent", "served"}

\* _gather's hand-off loses no reference but to the calls that are not running.
LEMMA HandOffReferences ==
    ASSUME TypeOK, NEW o \in Writes \cup Reads, NEW running \in SUBSET Nodes, HandOff(o, running),
           NEW x \in Writes \cup Reads, NEW p \in Nodes,
           IF x = o THEN p \in running \/ <<o, p>> \in background ELSE Referenced(x, p)
    PROVE  Referenced(x, p)'
  BY DEF HandOff, Referenced, TypeOK

\* A done callback drops the reference to its own task alone.
LEMMA DiscardReferences ==
    ASSUME NEW o \in Writes \cup Reads, NEW q \in Nodes, Discard(o, q), UNCHANGED pending,
           NEW x \in Writes \cup Reads, NEW p \in Nodes, Referenced(x, p), <<x, p>> # <<o, q>>
    PROVE  Referenced(x, p)'
  BY DEF Discard, Referenced

\* put_key_coordinator references every call it starts.
LEMMA OrphanPut ==
    ASSUME TypeOK, NoOrphanTask, NEW w \in Writes, NEW n \in Nodes, NEW q, NEW ts,
           put_key_coordinator(w, n, q, ts)
    PROVE  NoOrphanTask'
<1>1. \A x \in Writes, p \in Nodes : RunningSend(x, p)' => Referenced(x, p)'
  <2> SUFFICES ASSUME NEW x \in Writes, NEW p \in Nodes, RunningSend(x, p)'
               PROVE  Referenced(x, p)'
    OBVIOUS
  <2>1. IF x = w THEN p \in Peers(n) ELSE Referenced(x, p)
    BY DEF put_key_coordinator, RunningSend, Referenced, NoOrphanTask, TypeOK
  <2>2. CASE HandOff(w, Peers(n))
    BY <2>1, <2>2, HandOffReferences DEF Peers
  <2>3. CASE pending' = [pending EXCEPT ![w] = Peers(n)] /\ UNCHANGED background
    BY <2>1, <2>3 DEF Referenced, TypeOK
  <2> QED BY <2>2, <2>3 DEF put_key_coordinator
<1>2. \A r \in Reads, p \in Nodes : RunningFetch(r, p)' => Referenced(r, p)'
  <2> SUFFICES ASSUME NEW r \in Reads, NEW p \in Nodes, RunningFetch(r, p)'
               PROVE  Referenced(r, p)'
    OBVIOUS
  <2>1. r # w /\ Referenced(r, p)
    BY OperationsAssumption
       DEF put_key_coordinator, readVars, RunningFetch, Referenced, NoOrphanTask
  <2>2. CASE HandOff(w, Peers(n))
    BY <2>1, <2>2, HandOffReferences DEF Peers
  <2>3. CASE pending' = [pending EXCEPT ![w] = Peers(n)] /\ UNCHANGED background
    BY <2>1, <2>3 DEF Referenced, TypeOK
  <2> QED BY <2>2, <2>3 DEF put_key_coordinator
<1> QED BY <1>1, <1>2 DEF NoOrphanTask, RunningSend, RunningFetch, Referenced

\* get_key_coordinator references every call it starts.
LEMMA OrphanGet ==
    ASSUME TypeOK, NoOrphanTask, NEW r \in Reads, NEW n \in Nodes, NEW q, NEW S \in SUBSET Nodes,
           get_key_coordinator(r, n, q, S)
    PROVE  NoOrphanTask'
<1>1. \A x \in Reads, p \in Nodes : RunningFetch(x, p)' => Referenced(x, p)'
  <2> SUFFICES ASSUME NEW x \in Reads, NEW p \in Nodes, RunningFetch(x, p)'
               PROVE  Referenced(x, p)'
    OBVIOUS
  <2>1. IF x = r THEN p \in S ELSE Referenced(x, p)
    BY DEF get_key_coordinator, RunningFetch, Referenced, NoOrphanTask, TypeOK
  <2>2. CASE HandOff(r, S)
    BY <2>1, <2>2, HandOffReferences
  <2>3. CASE pending' = [pending EXCEPT ![r] = S] /\ UNCHANGED background
    BY <2>1, <2>3 DEF Referenced, TypeOK
  <2> QED BY <2>2, <2>3 DEF get_key_coordinator
<1>2. \A w \in Writes, p \in Nodes : RunningSend(w, p)' => Referenced(w, p)'
  <2> SUFFICES ASSUME NEW w \in Writes, NEW p \in Nodes, RunningSend(w, p)'
               PROVE  Referenced(w, p)'
    OBVIOUS
  <2>1. r # w /\ Referenced(w, p)
    BY OperationsAssumption
       DEF get_key_coordinator, writeVars, RunningSend, Referenced, NoOrphanTask
  <2>2. CASE HandOff(r, S)
    BY <2>1, <2>2, HandOffReferences
  <2>3. CASE pending' = [pending EXCEPT ![r] = S] /\ UNCHANGED background
    BY <2>1, <2>3 DEF Referenced, TypeOK
  <2> QED BY <2>2, <2>3 DEF get_key_coordinator
<1> QED BY <1>1, <1>2 DEF NoOrphanTask, RunningSend, RunningFetch, Referenced

\* A turn, a timeout or the cancellation of _gather keeps what still runs.
LEMMA OrphanGather ==
    ASSUME TypeOK, NoOrphanTask, NEW o \in Writes \cup Reads, NEW done \in SUBSET Nodes,
           UNCHANGED <<send, fetch>>,
           \/ HandOff(o, pending[o] \ done)
           \/ pending' = [pending EXCEPT ![o] = @ \ done] /\ UNCHANGED background,
           o \in Writes => \A p \in done : ~RunningSend(o, p),
           o \in Reads => \A p \in done : ~RunningFetch(o, p)
    PROVE  NoOrphanTask'
<1>1. ASSUME NEW x \in Writes \cup Reads, NEW p \in Nodes, Referenced(x, p), x # o \/ p \notin done
      PROVE  Referenced(x, p)'
  <2>1. CASE HandOff(o, pending[o] \ done)
    <3>1. pending[o] \ done \in SUBSET Nodes
      BY DEF TypeOK
    <3>2. IF x = o THEN p \in pending[o] \ done \/ <<o, p>> \in background ELSE Referenced(x, p)
      BY <1>1 DEF Referenced
    <3> QED BY <2>1, <3>1, <3>2, HandOffReferences
  <2>2. CASE pending' = [pending EXCEPT ![o] = @ \ done] /\ UNCHANGED background
    BY <1>1, <2>2 DEF Referenced, TypeOK
  <2> QED BY <2>1, <2>2
<1>2. \A w \in Writes, p \in Nodes : RunningSend(w, p)' => Referenced(w, p)'
  BY <1>1 DEF RunningSend, NoOrphanTask, Referenced
<1>3. \A r \in Reads, p \in Nodes : RunningFetch(r, p)' => Referenced(r, p)'
  BY <1>1 DEF RunningFetch, NoOrphanTask, Referenced
<1> QED BY <1>2, <1>3 DEF NoOrphanTask, RunningSend, RunningFetch, Referenced

\* A call that returns is no longer running when its reference goes.
LEMMA OrphanReturn ==
    ASSUME TypeOK, NoOrphanTask, NEW p \in Nodes,
           \/ \E w \in Writes : SendAcked(w, p) \/ SendFails(w, p)
           \/ \E r \in Reads : FetchAnswered(r, p) \/ FetchFails(r, p)
    PROVE  NoOrphanTask'
<1>1. ASSUME NEW w \in Writes, SendAcked(w, p) \/ SendFails(w, p)
      PROVE  NoOrphanTask'
  <2>1. Discard(w, p) /\ UNCHANGED <<pending, fetch>>
    BY <1>1 DEF SendAcked, SendFails, readVars
  <2>2. \A x \in Writes, n \in Nodes :
          RunningSend(x, n)' => RunningSend(x, n) /\ <<x, n>> # <<w, p>>
    BY <1>1 DEF SendAcked, SendFails, RunningSend, TypeOK
  <2>3. \A x \in Writes, n \in Nodes : RunningSend(x, n)' => Referenced(x, n)'
    BY <2>1, <2>2, DiscardReferences DEF NoOrphanTask, RunningSend, Referenced
  <2>4. \A r \in Reads, n \in Nodes : RunningFetch(r, n)' => Referenced(r, n)'
    BY <2>1, DiscardReferences, OperationsAssumption DEF NoOrphanTask, RunningFetch, Referenced
  <2> QED BY <2>3, <2>4 DEF NoOrphanTask, RunningSend, RunningFetch, Referenced
<1>2. ASSUME NEW r \in Reads, FetchAnswered(r, p) \/ FetchFails(r, p)
      PROVE  NoOrphanTask'
  <2>1. Discard(r, p) /\ UNCHANGED <<pending, send>>
    BY <1>2 DEF FetchAnswered, FetchFails, writeVars
  <2>2. \A x \in Reads, n \in Nodes :
          RunningFetch(x, n)' => RunningFetch(x, n) /\ <<x, n>> # <<r, p>>
    BY <1>2 DEF FetchAnswered, FetchFails, RunningFetch, TypeOK
  <2>3. \A x \in Reads, n \in Nodes : RunningFetch(x, n)' => Referenced(x, n)'
    BY <2>1, <2>2, DiscardReferences DEF NoOrphanTask, RunningFetch, Referenced
  <2>4. \A w \in Writes, n \in Nodes : RunningSend(w, n)' => Referenced(w, n)'
    BY <2>1, DiscardReferences, OperationsAssumption DEF NoOrphanTask, RunningSend, Referenced
  <2> QED BY <2>3, <2>4 DEF NoOrphanTask, RunningSend, RunningFetch, Referenced
<1> QED BY <1>1, <1>2

\* Every step keeps every running call referenced.
LEMMA OrphanNext == TypeOK /\ NoOrphanTask /\ [Next]_vars => NoOrphanTask'
<1> SUFFICES ASSUME TypeOK, NoOrphanTask, [Next]_vars PROVE NoOrphanTask'
  OBVIOUS
<1>1. CASE UNCHANGED <<send, fetch, pending, background>>
  BY <1>1 DEF NoOrphanTask
<1>2. ASSUME NEW w \in Writes, WriteStep(w) PROVE NoOrphanTask'
  <2>1. ASSUME NEW q, RejectPut(w, q) PROVE NoOrphanTask'
    BY <1>1, <2>1 DEF RejectPut, readVars
  <2>2. ASSUME NEW n \in PutNodes, NEW q, NEW ts, put_key_coordinator(w, n, q, ts)
        PROVE  NoOrphanTask'
    BY <2>2, OrphanPut, TargetsAssumption
  <2>3. ASSUME NEW p \in Nodes, Deliver(w, p) PROVE NoOrphanTask'
    BY <2>3 DEF Deliver, readVars, NoOrphanTask, TypeOK
  <2>4. ASSUME NEW p \in Nodes, SendAcked(w, p) \/ SendFails(w, p) PROVE NoOrphanTask'
    BY <2>4, OrphanReturn
  <2>5. CASE CollectAcks(w) \/ PutTimeout(w) \/ PutCancelled(w)
    <3>1. DoneSends(w) \in SUBSET Nodes /\ \A p \in DoneSends(w) : ~RunningSend(w, p)
      BY DEF DoneSends, SendOver, RunningSend, TypeOK
    <3>2. UNCHANGED <<send, fetch>>
      BY <2>5 DEF CollectAcks, PutTimeout, PutCancelled, readVars
    <3>3. \/ HandOff(w, pending[w] \ DoneSends(w))
          \/ pending' = [pending EXCEPT ![w] = @ \ DoneSends(w)] /\ UNCHANGED background
      BY <2>5 DEF CollectAcks, PutTimeout, PutCancelled, TypeOK
    <3> QED BY <3>1, <3>2, <3>3, OrphanGather, OperationsAssumption
  <2> QED BY <1>2, <2>1, <2>2, <2>3, <2>4, <2>5 DEF WriteStep
<1>3. ASSUME NEW r \in Reads, ReadStep(r) PROVE NoOrphanTask'
  <2>1. ASSUME NEW q, RejectGet(r, q) PROVE NoOrphanTask'
    BY <1>1, <2>1 DEF RejectGet, writeVars
  <2>2. ASSUME NEW n \in GetNodes, NEW q, NEW S \in SUBSET Nodes, get_key_coordinator(r, n, q, S)
        PROVE  NoOrphanTask'
    BY <2>2, OrphanGet, TargetsAssumption
  <2>3. ASSUME NEW p \in Nodes, ServeRead(r, p) PROVE NoOrphanTask'
    BY <2>3 DEF ServeRead, writeVars, NoOrphanTask, TypeOK
  <2>4. ASSUME NEW p \in Nodes, FetchAnswered(r, p) \/ FetchFails(r, p) PROVE NoOrphanTask'
    BY <2>4, OrphanReturn
  <2>5. CASE CollectReplies(r) \/ GetTimeout(r) \/ GetCancelled(r)
    <3>1. DoneFetches(r) \in SUBSET Nodes /\ \A p \in DoneFetches(r) : ~RunningFetch(r, p)
      BY DEF DoneFetches, FetchOver, RunningFetch, TypeOK
    <3>2. UNCHANGED <<send, fetch>>
      BY <2>5 DEF CollectReplies, GetTimeout, GetCancelled, writeVars
    <3>3. \/ HandOff(r, pending[r] \ DoneFetches(r))
          \/ pending' = [pending EXCEPT ![r] = @ \ DoneFetches(r)] /\ UNCHANGED background
      BY <2>5 DEF CollectReplies, GetTimeout, GetCancelled, TypeOK
    <3> QED BY <3>1, <3>2, <3>3, OrphanGather, OperationsAssumption
  <2> QED BY <1>3, <2>1, <2>2, <2>3, <2>4, <2>5 DEF ReadStep
<1>4. ASSUME NEW n \in Nodes, delete_key(n) PROVE NoOrphanTask'
  BY <1>1, <1>4 DEF delete_key, writeVars, readVars
<1>5. CASE UNCHANGED vars
  BY <1>1, <1>5 DEF vars, writeVars, readVars
<1> QED BY <1>2, <1>3, <1>4, <1>5 DEF Next

\* Every running peer call is referenced in every reachable state, with DELETE
\* or without, whatever times out or is cancelled.
THEOREM TasksReferenced == Spec => []NoOrphanTask
<1>1. Init => NoOrphanTask
  BY DEF Init, NoOrphanTask
<1> QED BY <1>1, OrphanNext, TypeCorrect, PTL DEF Spec
=============================================================================

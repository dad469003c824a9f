------------------------ MODULE LeaderFollowerProofs ------------------------
(***************************************************************************)
(* Machine-checked proofs about LeaderFollower, for any number of          *)
(* followers and concurrent PUTs and every ack_required.                   *)
(***************************************************************************)
EXTENDS LeaderFollower, LWWProofs, FiniteSetTheorems, TLAPS

-----------------------------------------------------------------------------
(* Versions                                                                *)

\* A version can be compared, and the entry of a store if there is one.
LEMMA EntriesStamped ==
    /\ \A v \in Version : Stamped(v) /\ v.timestamp \in Nat /\ v.node_id \in Nodes
    /\ \A e \in Entry : e = NoEntry \/ Stamped(e)
  <1>1. ASSUME NEW v \in Version PROVE Stamped(v) /\ v.timestamp \in Nat /\ v.node_id \in Nodes
    <2>1. v # NoEntry
      BY AbsentAssumption DEF Version
    <2>2. v.timestamp \in Nat /\ v.node_id \in Nodes
      BY DEF Version, VersionedValue
    <2>3. v.node_id \in Nat
      BY <2>2, ClusterAssumption
    <2> QED BY <2>1, <2>2, <2>3 DEF Stamped
  <1> QED BY <1>1 DEF Entry

\* KVStore.put leaves a version that holds what it was given and what was held.
LEMMA PutHolds ==
    ASSUME NEW e \in Entry, NEW v \in Version
    PROVE  /\ Put(e, v) \in Version
           /\ Holds(Put(e, v), v)
           /\ \A u \in Version : Holds(e, u) => Holds(Put(e, v), u)
  <1>1. Put(e, v) \in Version
    BY DEF Put, Applies, Entry
  <1>2. Holds(Put(e, v), v)
    BY EntriesStamped, LWWPutHolds
  <1>3. ASSUME NEW u \in Version, Holds(e, u) PROVE Holds(Put(e, v), u)
    BY <1>3, EntriesStamped, LWWPutKeeps
  <1> QED BY <1>1, <1>2, <1>3

\* The version that a node stamps.
LEMMA StampIsVersion ==
    ASSUME NEW w \in Writes, NEW n \in Nodes, NEW ts \in Timestamps
    PROVE  [value |-> w, timestamp |-> ts, node_id |-> n] \in Version
  BY ReadingsAssumption DEF Version, VersionedValue

-----------------------------------------------------------------------------
(* Type correctness                                                        *)

\* The end of replicate() leaves its state well typed.
LEMMA StopWaitingType ==
    ASSUME TypeOK, NEW w \in Writes, NEW counted, NEW running \in SUBSET Followers,
           StopWaiting(w, counted, running)
    PROVE  /\ wstate' \in [Writes -> {"idle", "waiting", "ok", "unavailable", "cancelled", "local"}]
           /\ pending' \in [Writes -> SUBSET Followers]
           /\ background' \subseteq Writes \X Followers
  <1>1. wstate' \in [Writes -> {"idle", "waiting", "ok", "unavailable", "cancelled", "local"}]
    BY DEF TypeOK, StopWaiting, PutOutcome
  <1>2. pending' \in [Writes -> SUBSET Followers]
    BY DEF TypeOK, StopWaiting
  <1>3. background' \subseteq Writes \X Followers
    <2>1. {w} \X running \subseteq Writes \X Followers
      OBVIOUS
    <2> QED BY <2>1 DEF TypeOK, StopWaiting
  <1> QED BY <1>1, <1>2, <1>3

\* Every step of the leader, of a follower and of a call keeps the types.
LEMMA TypeNext == TypeOK /\ [Next]_vars => TypeOK'
  <1> SUFFICES ASSUME TypeOK, [Next]_vars PROVE TypeOK'
    OBVIOUS
  <1> USE DEF TypeOK
  <1>1. ASSUME NEW w \in Writes, NEW ts \in Timestamps, put_key_leader(w, ts) PROVE TypeOK'
    <2>1. Leader \in Nodes /\ ts \in Nat
      BY ReadingsAssumption DEF Nodes
    <2>2. version' \in [Writes -> Entry] /\ store' \in [Nodes -> Entry]
      <3> DEFINE v == [value |-> w, timestamp |-> ts, node_id |-> Leader]
      <3>1. v \in Version /\ Put(store[Leader], v) \in Version
        BY <2>1, StampIsVersion, PutHolds
      <3> QED BY <1>1, <3>1 DEF put_key_leader, Entry
    <2>3. send' \in [Writes -> [Nodes -> {"none", "sent", "applied", "ok", "gaveup", "lost", "failed"}]]
      BY <1>1 DEF put_key_leader
    <2>4. /\ wstate' \in [Writes -> {"idle", "waiting", "ok", "unavailable", "cancelled", "local"}]
          /\ pending' \in [Writes -> SUBSET Followers]
          /\ background' \subseteq Writes \X Followers
      <3>1. CASE KeepWaiting(Followers, {})
        BY <1>1, <3>1 DEF put_key_leader
      <3>2. CASE ~KeepWaiting(Followers, {})
        BY <1>1, <3>2, StopWaitingType DEF put_key_leader
      <3> QED BY <3>1, <3>2
    <2> QED BY <1>1, <2>1, <2>2, <2>3, <2>4 DEF put_key_leader
  <1>2. ASSUME NEW w \in Writes, NEW f \in Followers, Deliver(w, f) PROVE TypeOK'
    <2>1. Put(store[f], version[w]) \in Entry
      BY DEF Put, Nodes
    <2>2. store' \in [Nodes -> Entry]
      BY <1>2, <2>1 DEF Deliver
    <2>3. send' \in [Writes -> [Nodes -> {"none", "sent", "applied", "ok", "gaveup", "lost", "failed"}]]
      BY <1>2 DEF Deliver
    <2> QED BY <1>2, <2>2, <2>3 DEF Deliver
  <1>3. ASSUME NEW w \in Writes, NEW f \in Followers, SendAcked(w, f) \/ SendFails(w, f) PROVE TypeOK'
    <2>1. PICK s \in {"ok", "gaveup", "lost", "failed"} : SendReturns(w, f, s)
      BY <1>3 DEF SendAcked, SendFails
    <2> QED BY <2>1 DEF SendReturns
  <1>4. ASSUME NEW w \in Writes, CollectAcks(w) PROVE TypeOK'
    <2> DEFINE counted == acked[w] \cup {f \in DoneSends(w) : send[w][f] = "ok"}
               remaining == pending[w] \ DoneSends(w)
    <2>1. counted \in SUBSET Followers /\ remaining \in SUBSET Followers
      BY DEF DoneSends
    <2>2. acked' \in [Writes -> SUBSET Followers]
      BY <1>4, <2>1 DEF CollectAcks
    <2>3. /\ wstate' \in [Writes -> {"idle", "waiting", "ok", "unavailable", "cancelled", "local"}]
          /\ pending' \in [Writes -> SUBSET Followers]
          /\ background' \subseteq Writes \X Followers
      <3>1. CASE KeepWaiting(remaining, counted)
        <4>1. pending' = [pending EXCEPT ![w] = remaining] /\ UNCHANGED <<wstate, background>>
          BY <1>4, <3>1 DEF CollectAcks
        <4> QED BY <2>1, <4>1
      <3>2. CASE ~KeepWaiting(remaining, counted)
        <4>1. StopWaiting(w, counted, remaining)
          BY <1>4, <3>2 DEF CollectAcks
        <4> QED BY <2>1, <4>1, StopWaitingType
      <3> QED BY <3>1, <3>2
    <2> QED BY <1>4, <2>2, <2>3 DEF CollectAcks
  <1>5. ASSUME NEW w \in Writes, PutTimeout(w) PROVE TypeOK'
    <2>1. pending[w] \ DoneSends(w) \in SUBSET Followers
      BY DEF DoneSends
    <2> QED BY <1>5, <2>1, StopWaitingType DEF PutTimeout
  <1>6. ASSUME NEW w \in Writes, PutCancelled(w) PROVE TypeOK'
    BY <1>6 DEF PutCancelled
  <1>7. ASSUME NEW w \in Writes, NEW f \in Followers, NEW ts \in Timestamps, put_key(w, f, ts)
        PROVE  TypeOK'
    <2> DEFINE v == [value |-> w, timestamp |-> ts, node_id |-> f]
    <2>1. v \in Version /\ Put(store[f], v) \in Version
      BY StampIsVersion, PutHolds DEF Nodes
    <2> QED BY <1>7, <2>1 DEF put_key, Entry
  <1>8. ASSUME NEW n \in Nodes, delete_key(n) PROVE TypeOK'
    BY <1>8 DEF delete_key, Entry
  <1>9. CASE UNCHANGED vars
    BY <1>9 DEF vars
  <1> QED BY <1>1, <1>2, <1>3, <1>4, <1>5, <1>6, <1>7, <1>8, <1>9 DEF Next

\* Every reachable state is well typed.
THEOREM TypeCorrect == Spec => []TypeOK
  <1>1. Init => TypeOK
    BY DEF Init, TypeOK, Entry
  <1> QED BY <1>1, TypeNext, PTL DEF Spec

-----------------------------------------------------------------------------
(* The inductive invariant behind the durability of an answered PUT        *)

\* A PUT that a node has taken up has its version.
WritesStamped == \A w \in Writes : wstate[w] # "idle" => version[w] \in Version

\* Replicate calls exist only for PUTs that the leader took up.
SendsStarted == \A w \in Writes, n \in Nodes : send[w][n] # "none" => Started(w)

\* The leader holds every write it has taken up (the local write comes first).
LeaderHolds == \A w \in Writes : Started(w) => Holds(store[Leader], version[w])

\* A follower that carried out a replicate call holds the version, whether or
\* not the leader ever heard of it.
FollowersHold ==
    \A w \in Writes, f \in Followers :
        send[w][f] \in {"applied", "ok", "failed"} => Holds(store[f], version[w])

\* replicate() counts only calls that returned TRUE.
AcksAreReal == \A w \in Writes : \A f \in acked[w] : send[w][f] = "ok"

\* 200 means ack_required counted acks.
QuorumCounted == \A w \in Writes : wstate[w] = "ok" => Cardinality(acked[w]) >= AckRequired

\* What is true whatever clients send.
CallInv == TypeOK /\ WritesStamped /\ SendsStarted /\ AcksAreReal /\ QuorumCounted

\* What is true as long as no client sends DELETE.
HoldInv == LeaderHolds /\ FollowersHold

\* A version is never stamped twice, and a write once taken up stays so.
LEMMA VersionsAreFinal ==
    ASSUME TypeOK, [Next]_vars, NEW w \in Writes, wstate[w] # "idle"
    PROVE  /\ version'[w] = version[w]
           /\ wstate'[w] # "idle"
           /\ Started(w)' <=> Started(w)
  <1> USE DEF TypeOK, Started
  <1>1. ASSUME NEW u \in Writes, NEW ts \in Timestamps, put_key_leader(u, ts)
        PROVE  version'[w] = version[w] /\ wstate'[w] = wstate[w]
    <2>1. u # w
      BY <1>1 DEF put_key_leader
    <2> QED BY <1>1, <2>1 DEF put_key_leader, StopWaiting
  <1>2. ASSUME NEW u \in Writes, NEW f \in Followers, NEW ts \in Timestamps, put_key(u, f, ts)
        PROVE  version'[w] = version[w] /\ wstate'[w] = wstate[w]
    BY <1>2 DEF put_key
  <1>3. ASSUME NEW u \in Writes, CollectAcks(u) \/ PutTimeout(u) \/ PutCancelled(u)
        PROVE  /\ version' = version
               /\ \/ wstate'[w] = wstate[w]
                  \/ wstate[w] = "waiting" /\ wstate'[w] \in {"ok", "unavailable", "cancelled"}
    BY <1>3 DEF CollectAcks, PutTimeout, PutCancelled, StopWaiting, PutOutcome
  <1>4. ASSUME NEW u \in Writes, NEW f \in Followers, Deliver(u, f) \/ SendAcked(u, f) \/ SendFails(u, f)
        PROVE  UNCHANGED <<version, wstate>>
    BY <1>4 DEF Deliver, SendAcked, SendFails, SendReturns
  <1>5. ASSUME NEW n \in Nodes, delete_key(n) PROVE UNCHANGED <<version, wstate>>
    BY <1>5 DEF delete_key
  <1>6. CASE UNCHANGED vars
    BY <1>6 DEF vars
  <1> QED BY <1>1, <1>2, <1>3, <1>4, <1>5, <1>6 DEF Next

\* What a step can do to a replicate call.
LEMMA SendSteps ==
    ASSUME TypeOK, [Next]_vars, NEW w \in Writes, NEW n \in Nodes
    PROVE  \/ send'[w][n] = send[w][n]
           \/ wstate[w] = "idle" /\ Started(w)' /\ send'[w][n] \in {"none", "sent"}
           \/ send[w][n] \in {"sent", "gaveup"} /\ send'[w][n] \in {"applied", "failed"} /\ Deliver(w, n)
           \/ send[w][n] = "applied" /\ send'[w][n] \in {"ok", "failed"}
           \/ send[w][n] = "sent" /\ send'[w][n] \in {"gaveup", "lost"}
  <1> USE DEF TypeOK
  <1>1. ASSUME NEW u \in Writes, NEW ts \in Timestamps, put_key_leader(u, ts)
        PROVE  \/ send'[w][n] = send[w][n]
               \/ wstate[w] = "idle" /\ Started(w)' /\ send'[w][n] \in {"none", "sent"}
    <2>1. wstate[u] = "idle" /\ wstate'[u] \in {"waiting", "ok", "unavailable"}
      BY <1>1 DEF put_key_leader, StopWaiting, PutOutcome
    <2> QED BY <1>1, <2>1 DEF put_key_leader, Started
  <1>2. ASSUME NEW u \in Writes, NEW f \in Followers, Deliver(u, f)
        PROVE  \/ send'[w][n] = send[w][n]
               \/ /\ u = w /\ f = n
                  /\ send[w][n] \in {"sent", "gaveup"} /\ send'[w][n] \in {"applied", "failed"}
    BY <1>2 DEF Deliver
  <1>3. ASSUME NEW u \in Writes, NEW f \in Followers, SendAcked(u, f) \/ SendFails(u, f)
        PROVE  \/ send'[w][n] = send[w][n]
               \/ send[w][n] = "applied" /\ send'[w][n] \in {"ok", "failed"}
               \/ send[w][n] = "sent" /\ send'[w][n] \in {"gaveup", "lost"}
    BY <1>3 DEF SendAcked, SendFails, SendReturns
  <1>4. ASSUME NEW u \in Writes, CollectAcks(u) \/ PutTimeout(u) \/ PutCancelled(u) PROVE send' = send
    BY <1>4 DEF CollectAcks, PutTimeout, PutCancelled
  <1>5. ASSUME NEW u \in Writes, NEW f \in Followers, NEW ts \in Timestamps, put_key(u, f, ts)
        PROVE  send' = send
    BY <1>5 DEF put_key
  <1>6. ASSUME NEW m \in Nodes, delete_key(m) PROVE send' = send
    BY <1>6 DEF delete_key
  <1>7. CASE UNCHANGED vars
    BY <1>7 DEF vars
  <1> QED BY <1>1, <1>2, <1>3, <1>4, <1>5, <1>6, <1>7 DEF Next

\* What a step can do to the counted acks and the answer.
LEMMA AnswerSteps ==
    ASSUME CallInv, [Next]_vars, NEW w \in Writes
    PROVE  /\ \A f \in acked'[w] : f \in acked[w] \/ send[w][f] = "ok"
           /\ wstate[w] = "ok" => acked'[w] = acked[w]
           /\ wstate'[w] = "ok" => wstate[w] = "ok" \/ ~(Cardinality(acked'[w]) < AckRequired)
  <1> DEFINE P == /\ \A f \in acked'[w] : f \in acked[w] \/ send[w][f] = "ok"
                  /\ wstate[w] = "ok" => acked'[w] = acked[w]
                  /\ wstate'[w] = "ok" => wstate[w] = "ok" \/ ~(Cardinality(acked'[w]) < AckRequired)
  <1> USE DEF CallInv, TypeOK
  <1>1. ASSUME NEW u \in Writes, NEW ts \in Timestamps, put_key_leader(u, ts) PROVE P
    <2>1. acked[u] = {}
      BY <1>1 DEF put_key_leader, AcksAreReal, SendsStarted, Started, Nodes
    <2> QED BY <1>1, <2>1 DEF put_key_leader, StopWaiting, PutOutcome
  <1>2. ASSUME NEW u \in Writes, CollectAcks(u) PROVE P
    <2> DEFINE counted == acked[u] \cup {f \in DoneSends(u) : send[u][f] = "ok"}
               remaining == pending[u] \ DoneSends(u)
    <2>1. wstate[u] = "waiting" /\ acked' = [acked EXCEPT ![u] = counted]
      BY <1>2 DEF CollectAcks
    <2>2. wstate' = wstate \/ wstate' = [wstate EXCEPT ![u] = PutOutcome(counted)]
      BY <1>2 DEF CollectAcks, StopWaiting
    <2>3. CASE u = w
      BY <2>1, <2>2, <2>3 DEF PutOutcome
    <2>4. CASE u # w
      BY <2>1, <2>2, <2>4
    <2> QED BY <2>3, <2>4
  <1>3. ASSUME NEW u \in Writes, PutTimeout(u) PROVE P
    BY <1>3 DEF PutTimeout, StopWaiting, PutOutcome
  <1>4. ASSUME NEW u \in Writes, PutCancelled(u) PROVE P
    BY <1>4 DEF PutCancelled
  <1>5. ASSUME NEW u \in Writes, NEW f \in Followers, Deliver(u, f) \/ SendAcked(u, f) \/ SendFails(u, f)
        PROVE  P
    BY <1>5 DEF Deliver, SendAcked, SendFails, SendReturns
  <1>6. ASSUME NEW u \in Writes, NEW f \in Followers, NEW ts \in Timestamps, put_key(u, f, ts) PROVE P
    BY <1>6 DEF put_key
  <1>7. ASSUME NEW n \in Nodes, delete_key(n) PROVE P
    BY <1>7 DEF delete_key
  <1>8. CASE UNCHANGED vars
    BY <1>8 DEF vars
  <1> QED BY <1>1, <1>2, <1>3, <1>4, <1>5, <1>6, <1>7, <1>8 DEF Next

\* A PUT becomes other than idle by being stamped.
LEMMA StampingSteps ==
    ASSUME TypeOK, [Next]_vars, NEW w \in Writes, wstate[w] = "idle", wstate'[w] # "idle"
    PROVE  /\ version'[w] \in Version
           /\ \/ \E ts \in Timestamps : put_key_leader(w, ts)
              \/ \E f \in Followers, ts \in Timestamps : put_key(w, f, ts)
  <1> USE DEF TypeOK
  <1>1. \/ \E ts \in Timestamps : put_key_leader(w, ts)
        \/ \E f \in Followers, ts \in Timestamps : put_key(w, f, ts)
    <2>1. ASSUME NEW u \in Writes, NEW ts \in Timestamps, put_key_leader(u, ts) PROVE u = w
      BY <2>1 DEF put_key_leader, StopWaiting
    <2>2. ASSUME NEW u \in Writes, NEW f \in Followers, NEW ts \in Timestamps, put_key(u, f, ts)
          PROVE  u = w
      BY <2>2 DEF put_key
    <2>3. ASSUME NEW u \in Writes, CollectAcks(u) \/ PutTimeout(u) \/ PutCancelled(u) PROVE FALSE
      BY <2>3 DEF CollectAcks, PutTimeout, PutCancelled, StopWaiting
    <2>4. ASSUME NEW u \in Writes, NEW f \in Followers,
                 Deliver(u, f) \/ SendAcked(u, f) \/ SendFails(u, f)
          PROVE  FALSE
      BY <2>4 DEF Deliver, SendAcked, SendFails, SendReturns
    <2>5. ASSUME NEW n \in Nodes, delete_key(n) PROVE FALSE
      BY <2>5 DEF delete_key
    <2>6. ~UNCHANGED vars
      BY DEF vars
    <2> QED BY <2>1, <2>2, <2>3, <2>4, <2>5, <2>6 DEF Next
  <1>2. version'[w] \in Version
    <2>1. ASSUME NEW ts \in Timestamps, put_key_leader(w, ts) PROVE version'[w] \in Version
      BY <2>1, StampIsVersion DEF put_key_leader, Nodes
    <2>2. ASSUME NEW f \in Followers, NEW ts \in Timestamps, put_key(w, f, ts) PROVE version'[w] \in Version
      BY <2>2, StampIsVersion DEF put_key, Nodes
    <2> QED BY <1>1, <2>1, <2>2
  <1> QED BY <1>1, <1>2

\* Every step, a DELETE and a PUT at a follower included, keeps the invariant
\* of the replicate calls.
LEMMA CallInvNext == CallInv /\ [Next]_vars => CallInv'
  <1> SUFFICES ASSUME CallInv, [Next]_vars PROVE CallInv'
    OBVIOUS
  <1>0. TypeOK /\ TypeOK'
    BY TypeNext DEF CallInv
  <1>1. WritesStamped'
    BY <1>0, VersionsAreFinal, StampingSteps DEF CallInv, WritesStamped
  <1>2. SendsStarted'
    <2> SUFFICES ASSUME NEW w \in Writes, NEW n \in Nodes, send'[w][n] # "none" PROVE Started(w)'
      BY DEF SendsStarted
    <2>1. CASE send[w][n] # "none"
      BY <1>0, <2>1, VersionsAreFinal DEF CallInv, SendsStarted, Started
    <2>2. CASE send[w][n] = "none"
      BY <1>0, <2>2, SendSteps
    <2> QED BY <2>1, <2>2
  <1>3. AcksAreReal'
    <2> SUFFICES ASSUME NEW w \in Writes, NEW f \in acked'[w] PROVE send'[w][f] = "ok"
      BY DEF AcksAreReal
    <2>1. f \in Nodes
      BY <1>0 DEF TypeOK, Nodes
    <2>2. send[w][f] = "ok"
      BY AnswerSteps DEF CallInv, AcksAreReal
    <2>3. wstate[w] # "idle"
      BY <2>1, <2>2 DEF CallInv, SendsStarted, Started
    <2> QED BY <1>0, <2>1, <2>2, <2>3, SendSteps
  <1>4. QuorumCounted'
    <2> SUFFICES ASSUME NEW w \in Writes, wstate'[w] = "ok" PROVE Cardinality(acked'[w]) >= AckRequired
      BY DEF QuorumCounted
    <2>1. CASE wstate[w] = "ok"
      BY <2>1, AnswerSteps DEF CallInv, QuorumCounted
    <2>2. CASE wstate[w] # "ok"
      <3>1. ~(Cardinality(acked'[w]) < AckRequired)
        BY <2>2, AnswerSteps
      <3>2. acked'[w] \in SUBSET Followers
        BY <1>0 DEF TypeOK
      <3>3. IsFiniteSet(acked'[w])
        BY <3>2, ClusterAssumption, FS_Subset
      <3>4. Cardinality(acked'[w]) \in Nat /\ AckRequired \in Int
        BY <3>3, FS_CardinalityType, AckAssumption
      <3> QED BY <3>1, <3>4
    <2> QED BY <2>1, <2>2
  <1> QED BY <1>0, <1>1, <1>2, <1>3, <1>4 DEF CallInv

\* Without DELETE no step makes any node lose what it holds.
LEMMA StoresKeep ==
    ASSUME ~Deletes, CallInv, [Next]_vars, NEW n \in Nodes, NEW v \in Version, Holds(store[n], v)
    PROVE  Holds(store'[n], v)
  <1> USE DEF CallInv, TypeOK
  <1>1. ASSUME NEW m \in Nodes, NEW u \in Version, store' = [store EXCEPT ![m] = Put(store[m], u)]
        PROVE  Holds(store'[n], v)
    BY <1>1, PutHolds
  <1>2. ASSUME NEW w \in Writes, NEW ts \in Timestamps, put_key_leader(w, ts) PROVE Holds(store'[n], v)
    <2>1. Leader \in Nodes
      BY DEF Nodes
    <2> QED BY <1>1, <1>2, <2>1, StampIsVersion DEF put_key_leader
  <1>3. ASSUME NEW w \in Writes, NEW f \in Followers, Deliver(w, f) PROVE Holds(store'[n], v)
    <2>1. f \in Nodes
      BY DEF Nodes
    <2>2. version[w] \in Version
      BY <1>3, <2>1 DEF Deliver, SendsStarted, WritesStamped, Started
    <2> QED BY <1>1, <1>3, <2>1, <2>2 DEF Deliver
  <1>4. ASSUME NEW w \in Writes, NEW f \in Followers, NEW ts \in Timestamps, put_key(w, f, ts)
        PROVE  Holds(store'[n], v)
    <2>1. f \in Nodes
      BY DEF Nodes
    <2> QED BY <1>1, <1>4, <2>1, StampIsVersion DEF put_key
  <1>5. ASSUME NEW w \in Writes, CollectAcks(w) \/ PutTimeout(w) \/ PutCancelled(w) PROVE store' = store
    BY <1>5 DEF CollectAcks, PutTimeout, PutCancelled
  <1>6. ASSUME NEW w \in Writes, NEW f \in Followers, SendAcked(w, f) \/ SendFails(w, f)
        PROVE  store' = store
    BY <1>6 DEF SendAcked, SendFails, SendReturns
  <1>7. CASE UNCHANGED vars
    BY <1>7 DEF vars
  <1> QED BY <1>2, <1>3, <1>4, <1>5, <1>6, <1>7 DEF Next, delete_key

\* Without DELETE, the leader goes on holding its writes and a follower what
\* was delivered to it.
LEMMA HoldInvNext == ~Deletes /\ CallInv /\ HoldInv /\ [Next]_vars => HoldInv'
  <1> SUFFICES ASSUME ~Deletes, CallInv, HoldInv, [Next]_vars PROVE HoldInv'
    OBVIOUS
  <1> USE DEF CallInv
  <1>0. Leader \in Nodes /\ Followers \subseteq Nodes
    BY DEF Nodes
  <1>1. LeaderHolds'
    <2> SUFFICES ASSUME NEW w \in Writes, Started(w)' PROVE Holds(store'[Leader], version'[w])
      BY DEF LeaderHolds
    <2>1. CASE wstate[w] # "idle"
      <3>1. Started(w) /\ version'[w] = version[w] /\ version[w] \in Version
        BY <2>1, VersionsAreFinal DEF WritesStamped
      <3> QED BY <1>0, <3>1, StoresKeep DEF HoldInv, LeaderHolds
    <2>2. CASE wstate[w] = "idle"
      <3>1. wstate'[w] \notin {"idle", "local"}
        BY DEF Started
      <3>2. PICK ts \in Timestamps : put_key_leader(w, ts)
        BY <2>2, <3>1, StampingSteps DEF put_key, TypeOK
      <3> DEFINE v == [value |-> w, timestamp |-> ts, node_id |-> Leader]
      <3>3. v \in Version
        BY <1>0, StampIsVersion
      <3>4. version'[w] = v /\ store'[Leader] = Put(store[Leader], v)
        BY <1>0, <3>2 DEF put_key_leader, TypeOK
      <3> QED BY <1>0, <3>3, <3>4, PutHolds DEF TypeOK
    <2> QED BY <2>1, <2>2
  <1>2. FollowersHold'
    <2> SUFFICES ASSUME NEW w \in Writes, NEW f \in Followers, send'[w][f] \in {"applied", "ok", "failed"}
                 PROVE  Holds(store'[f], version'[w])
      BY DEF FollowersHold
    <2>1. send[w][f] # "none" /\ f \in Nodes
      BY <1>0, SendSteps
    <2>2. version'[w] = version[w] /\ version[w] \in Version
      BY <2>1, VersionsAreFinal DEF SendsStarted, Started, WritesStamped
    <2>3. CASE send[w][f] \in {"applied", "ok", "failed"}
      BY <2>1, <2>2, <2>3, StoresKeep DEF HoldInv, FollowersHold
    <2>4. CASE send[w][f] \notin {"applied", "ok", "failed"}
      <3>1. Deliver(w, f)
        BY <2>1, <2>4, SendSteps
      <3>2. store'[f] = Put(store[f], version[w])
        BY <2>1, <3>1 DEF Deliver, TypeOK
      <3> QED BY <2>1, <2>2, <3>2, PutHolds DEF TypeOK
    <2> QED BY <2>3, <2>4
  <1> QED BY <1>1, <1>2 DEF HoldInv

\* The invariant of the calls holds throughout.
LEMMA CallInvariant == Spec => []CallInv
  <1>1. Init => CallInv
    BY DEF Init, CallInv, TypeOK, Entry, WritesStamped, SendsStarted, AcksAreReal, QuorumCounted
  <1> QED BY <1>1, CallInvNext, PTL DEF Spec

\* Without DELETE, so does the invariant of the stores.
LEMMA HoldInvariant ==
    ASSUME ~Deletes PROVE Spec => [](CallInv /\ HoldInv)
  <1>1. Init => HoldInv
    BY DEF Init, HoldInv, LeaderHolds, FollowersHold, Started, Nodes
  <1>2. CallInv /\ HoldInv /\ [Next]_vars => HoldInv'
    BY HoldInvNext
  <1> QED BY <1>1, <1>2, CallInvariant, PTL DEF Spec

\* leader_follower's ack guarantee: without DELETE, a PUT answered 200 is held or
\* superseded at the leader and at ack_required followers from then on.
THEOREM AckedWritesDurable ==
    ASSUME ~Deletes PROVE Spec => []AckedWriteDurable
  <1>1. CallInv /\ HoldInv => AckedWriteDurable
    <2> SUFFICES ASSUME CallInv, HoldInv, NEW w \in Writes, wstate[w] = "ok"
                 PROVE  /\ Holds(store[Leader], version[w])
                        /\ Cardinality({f \in Followers : Holds(store[f], version[w])}) >= AckRequired
      BY DEF AckedWriteDurable
    <2> DEFINE holders == {f \in Followers : Holds(store[f], version[w])}
    <2>1. Holds(store[Leader], version[w])
      BY DEF HoldInv, LeaderHolds, Started
    <2>2. acked[w] \subseteq holders
      BY DEF CallInv, TypeOK, AcksAreReal, HoldInv, FollowersHold
    <2>3. IsFiniteSet(holders)
      BY ClusterAssumption, FS_Subset
    <2>4. /\ Cardinality(acked[w]) <= Cardinality(holders)
          /\ Cardinality(acked[w]) \in Nat /\ Cardinality(holders) \in Nat
      <3>1. IsFiniteSet(acked[w]) /\ Cardinality(acked[w]) <= Cardinality(holders)
        BY <2>2, <2>3, FS_Subset
      <3> QED BY <2>3, <3>1, FS_CardinalityType
    <2>5. Cardinality(acked[w]) >= AckRequired /\ AckRequired \in Int
      BY AckAssumption DEF CallInv, QuorumCounted
    <2> QED BY <2>1, <2>4, <2>5
  <1>2. Spec => [](CallInv /\ HoldInv)
    BY HoldInvariant
  <1> QED BY <1>1, <1>2, PTL

\* No replicate call is retried, yet without DELETE a follower that missed a
\* write catches up with it as soon as any newer write is carried out there, and
\* no overtaken call that arrives later undoes that.
THEOREM MissedWritesRepaired ==
    ASSUME ~Deletes PROVE Spec => []LaterWriteRepairs
  <1>1. CallInv /\ HoldInv => LaterWriteRepairs
    <2> SUFFICES ASSUME CallInv, HoldInv, NEW w \in Writes, NEW x \in Writes, NEW f \in Followers,
                        Started(w), Started(x), send[x][f] \in {"applied", "ok", "failed"},
                        ~is_newer_than(version[w], version[x])
                 PROVE  Holds(store[f], version[w])
      BY DEF LaterWriteRepairs
    <2>1. version[w] \in Version /\ version[x] \in Version /\ store[f] \in Entry
      BY DEF CallInv, TypeOK, WritesStamped, Started, Nodes
    <2>2. Stamped(version[w]) /\ Stamped(version[x]) /\ (store[f] = NoEntry \/ Stamped(store[f]))
      BY <2>1, EntriesStamped
    <2>3. Holds(store[f], version[x])
      BY DEF HoldInv, FollowersHold
    <2>4. Holds(version[x], version[w])
      BY <2>2 DEF Holds, Stamped
    <2> QED BY <2>2, <2>3, <2>4, LWWHoldsTransitive
  <1>2. Spec => [](CallInv /\ HoldInv)
    BY HoldInvariant
  <1> QED BY <1>1, <1>2, PTL

-----------------------------------------------------------------------------
(* Followers trail the leader, and replicas converge                       *)

\* What a node holds is the version of a PUT that the leader took up.
EntriesFromWrites ==
    \A n \in Nodes : store[n] # NoEntry => \E w \in Writes : Started(w) /\ store[n] = version[w]

\* Without PUTs at followers, no entry comes from anywhere but the leader.
LEMMA EntriesNext ==
    ~DirectPuts /\ CallInv /\ EntriesFromWrites /\ [Next]_vars => EntriesFromWrites'
  <1> SUFFICES ASSUME ~DirectPuts, CallInv, EntriesFromWrites, [Next]_vars,
                      NEW n \in Nodes, store'[n] # NoEntry
               PROVE  \E w \in Writes : Started(w)' /\ store'[n] = version'[w]
    BY DEF EntriesFromWrites
  <1> USE DEF CallInv
  <1>1. CASE store'[n] = store[n]
    <2>1. PICK w \in Writes : Started(w) /\ store[n] = version[w]
      BY <1>1 DEF EntriesFromWrites
    <2>2. Started(w)' /\ version'[w] = version[w]
      BY <2>1, VersionsAreFinal DEF Started
    <2> QED BY <1>1, <2>1, <2>2
  <1>2. CASE store'[n] # store[n]
    <2>1. ASSUME NEW w \in Writes, NEW ts \in Timestamps, put_key_leader(w, ts)
          PROVE  Started(w)' /\ store'[n] = version'[w]
      <3>1. wstate'[w] \in {"waiting", "ok", "unavailable"}
        BY <2>1 DEF put_key_leader, StopWaiting, PutOutcome, TypeOK
      <3>2. store'[n] = version'[w]
        BY <1>2, <2>1 DEF put_key_leader, Put, TypeOK
      <3> QED BY <3>1, <3>2 DEF Started
    <2>2. ASSUME NEW w \in Writes, NEW f \in Followers, Deliver(w, f)
          PROVE  Started(w)' /\ store'[n] = version'[w]
      <3>1. Started(w)
        BY <2>2 DEF Deliver, SendsStarted, Nodes
      <3> QED BY <1>2, <2>2, <3>1 DEF Deliver, Put, TypeOK, Started
    <2>3. ASSUME NEW w \in Writes,
                 \/ CollectAcks(w) \/ PutTimeout(w) \/ PutCancelled(w)
                 \/ \E f \in Followers : SendAcked(w, f) \/ SendFails(w, f)
          PROVE  FALSE
      BY <1>2, <2>3 DEF CollectAcks, PutTimeout, PutCancelled, SendAcked, SendFails, SendReturns
    <2>4. ASSUME NEW m \in Nodes, delete_key(m) PROVE FALSE
      BY <1>2, <2>4 DEF delete_key, TypeOK
    <2>5. ~UNCHANGED vars
      BY <1>2 DEF vars
    <2> QED BY <2>1, <2>2, <2>3, <2>4, <2>5 DEF Next, put_key
  <1> QED BY <1>1, <1>2

\* Unless clients delete or write at followers, no follower is ever ahead of the
\* leader, however late a replicate call arrives.
THEOREM LeaderIsNeverBehind ==
    ASSUME ~Deletes, ~DirectPuts PROVE Spec => []FollowersNeverAhead
  <1>1. Init => EntriesFromWrites
    BY DEF Init, EntriesFromWrites
  <1>2. CallInv /\ EntriesFromWrites /\ [Next]_vars => EntriesFromWrites'
    BY EntriesNext
  <1>3. Spec => [](CallInv /\ HoldInv)
    BY HoldInvariant
  <1>4. HoldInv /\ EntriesFromWrites => FollowersNeverAhead
    BY DEF HoldInv, LeaderHolds, EntriesFromWrites, FollowersNeverAhead, Nodes
  <1> QED BY <1>1, <1>2, <1>3, <1>4, PTL DEF Spec

\* The leader's clock is not behind any version it has stamped, and no two PUTs
\* were stamped alike.
StampsDistinct ==
    /\ \A w \in Writes : Started(w) => version[w].timestamp <= clock
    /\ \A u, w \in Writes : Started(u) /\ Started(w) /\ u # w =>
         version[u].timestamp # version[w].timestamp

\* A clock that never repeats a reading never stamps two PUTs alike.
LEMMA StampsNext ==
    StrictClock /\ CallInv /\ StampsDistinct /\ [Next]_vars => StampsDistinct'
  <1> SUFFICES ASSUME StrictClock, CallInv, StampsDistinct, [Next]_vars PROVE StampsDistinct'
    OBVIOUS
  <1> USE DEF CallInv
  <1>1. ASSUME NEW w \in Writes, NEW ts \in Timestamps, put_key_leader(w, ts) PROVE StampsDistinct'
    <2>1. /\ ts \in Nat /\ clock \in Nat /\ ts > clock /\ clock' = ts
          /\ version'[w].timestamp = ts
      BY <1>1, ReadingsAssumption DEF put_key_leader, TypeOK
    <2>2. ASSUME NEW u \in Writes, u # w, Started(u)'
          PROVE  Started(u) /\ version'[u] = version[u] /\ version[u].timestamp \in Nat
      <3>1. wstate'[u] = wstate[u] /\ version'[u] = version[u]
        BY <1>1, <2>2 DEF put_key_leader, StopWaiting, TypeOK
      <3>2. Started(u)
        BY <2>2, <3>1 DEF Started
      <3> QED BY <3>1, <3>2, EntriesStamped DEF WritesStamped, Started
    <2>3. \A u \in Writes : u # w /\ Started(u)' => version'[u].timestamp <= clock /\ version'[u].timestamp \in Nat
      BY <2>2 DEF StampsDistinct
    <2>4. \A u, x \in Writes : u # w /\ x # w /\ Started(u)' /\ Started(x)' /\ u # x =>
            version'[u].timestamp # version'[x].timestamp
      BY <2>2 DEF StampsDistinct
    <2>5. \A u \in Writes : Started(u)' => version'[u].timestamp <= clock'
      BY <2>1, <2>3
    <2>6. \A u, x \in Writes : Started(u)' /\ Started(x)' /\ u # x =>
            version'[u].timestamp # version'[x].timestamp
      BY <2>1, <2>3, <2>4
    <2> QED BY <2>5, <2>6 DEF StampsDistinct
  <1>2. CASE ~\E w \in Writes, ts \in Timestamps : put_key_leader(w, ts)
    <2>1. clock' = clock
      BY <1>2 DEF Next, Deliver, SendAcked, SendFails, SendReturns, CollectAcks, PutTimeout, PutCancelled,
                  put_key, delete_key, vars
    <2>2. ASSUME NEW w \in Writes, Started(w)' PROVE Started(w) /\ version'[w] = version[w]
      <3>1. CASE wstate[w] # "idle"
        BY <2>2, <3>1, VersionsAreFinal
      <3>2. CASE wstate[w] = "idle"
        <4>1. wstate'[w] \notin {"idle", "local"}
          BY <2>2 DEF Started
        <4> QED BY <1>2, <3>2, <4>1, StampingSteps DEF put_key, TypeOK
      <3> QED BY <3>1, <3>2
    <2> QED BY <2>1, <2>2 DEF StampsDistinct
  <1> QED BY <1>1, <1>2

\* Two nodes that have all the leader's writes hold the same entry.
LEMMA ConvergedFromInv ==
    CallInv /\ HoldInv /\ EntriesFromWrites /\ StampsDistinct => ReplicasConverge
  <1> SUFFICES ASSUME CallInv, HoldInv, EntriesFromWrites, StampsDistinct,
                      \A w \in Writes : Started(w) => \A f \in Followers : send[w][f] \in {"applied", "ok"},
                      NEW m \in Nodes, NEW n \in Nodes
               PROVE  store[m] = store[n]
    BY DEF ReplicasConverge
  <1>1. ASSUME NEW w \in Writes, Started(w), NEW x \in Nodes PROVE Holds(store[x], version[w])
    BY <1>1 DEF HoldInv, LeaderHolds, FollowersHold, Nodes
  <1>2. \A x \in Nodes, y \in Nodes : store[y] # NoEntry => Holds(store[x], store[y])
    BY <1>1 DEF EntriesFromWrites
  <1>3. CASE store[m] = NoEntry \/ store[n] = NoEntry
    BY <1>2, <1>3 DEF Holds
  <1>4. CASE store[m] # NoEntry /\ store[n] # NoEntry
    <2>1. PICK u \in Writes : Started(u) /\ store[m] = version[u]
      BY <1>4 DEF EntriesFromWrites
    <2>2. PICK w \in Writes : Started(w) /\ store[n] = version[w]
      BY <1>4 DEF EntriesFromWrites
    <2>3. Stamped(store[m]) /\ Stamped(store[n])
      BY <1>4, EntriesStamped DEF CallInv, TypeOK
    <2>4. store[m].timestamp = store[n].timestamp
      BY <1>2, <1>4, <2>3, LWWHoldsAntisymmetric DEF SameStamp
    <2> QED BY <2>1, <2>2, <2>4 DEF StampsDistinct
  <1> QED BY <1>3, <1>4

\* With a clock that never repeats a reading, and no DELETE and no PUT at a
\* follower, replicas that have received every write agree.
THEOREM ReplicasAgree ==
    ASSUME ~Deletes, ~DirectPuts, StrictClock PROVE Spec => []ReplicasConverge
  <1>1. Init => EntriesFromWrites /\ StampsDistinct
    BY DEF Init, EntriesFromWrites, StampsDistinct, Started
  <1>2. CallInv /\ EntriesFromWrites /\ StampsDistinct /\ [Next]_vars => (EntriesFromWrites /\ StampsDistinct)'
    BY EntriesNext, StampsNext
  <1>3. Spec => [](CallInv /\ HoldInv)
    BY HoldInvariant
  <1> QED BY <1>1, <1>2, <1>3, ConvergedFromInv, PTL DEF Spec

-----------------------------------------------------------------------------
(* Every running call is referenced                                        *)

\* The end of replicate() hands over exactly the calls that are still running.
LEMMA OrphanNext == ~Cancellations /\ CallInv /\ NoOrphanTask /\ [Next]_vars => NoOrphanTask'
  <1> SUFFICES ASSUME ~Cancellations, CallInv, NoOrphanTask, [Next]_vars,
                      NEW w \in Writes, NEW f \in Followers, send'[w][f] \in {"sent", "applied"}
               PROVE  f \in pending'[w] \/ <<w, f>> \in background'
    BY DEF NoOrphanTask
  <1> USE DEF CallInv, TypeOK
  <1>0. f \in Nodes
    BY DEF Nodes
  <1>1. ASSUME NEW u \in Writes, NEW ts \in Timestamps, put_key_leader(u, ts)
        PROVE  f \in pending'[w] \/ <<w, f>> \in background'
    <2>1. CASE u = w
      <3>1. CASE KeepWaiting(Followers, {})
        BY <1>1, <2>1, <3>1 DEF put_key_leader
      <3>2. CASE ~KeepWaiting(Followers, {})
        BY <1>1, <2>1, <3>2 DEF put_key_leader, StopWaiting
      <3> QED BY <3>1, <3>2
    <2>2. CASE u # w
      <3>1. send'[w] = send[w] /\ pending'[w] = pending[w] /\ background \subseteq background'
        BY <1>1, <2>2 DEF put_key_leader, StopWaiting
      <3> QED BY <3>1 DEF NoOrphanTask
    <2> QED BY <2>1, <2>2
  <1>2. ASSUME NEW u \in Writes, NEW p \in Followers, Deliver(u, p)
        PROVE  f \in pending'[w] \/ <<w, f>> \in background'
    <2>1. send[w][f] \in {"sent", "applied"}
      BY <1>0, <1>2 DEF Deliver
    <2> QED BY <1>2, <2>1 DEF Deliver, NoOrphanTask
  <1>3. ASSUME NEW u \in Writes, NEW p \in Followers, SendAcked(u, p) \/ SendFails(u, p)
        PROVE  f \in pending'[w] \/ <<w, f>> \in background'
    <2>1. PICK s \in {"ok", "gaveup", "lost", "failed"} : SendReturns(u, p, s)
      BY <1>3 DEF SendAcked, SendFails
    <2>2. <<u, p>> # <<w, f>> /\ send'[w][f] = send[w][f]
      BY <1>0, <2>1 DEF SendReturns
    <2> QED BY <2>1, <2>2 DEF SendReturns, NoOrphanTask
  <1>4. ASSUME NEW u \in Writes, CollectAcks(u) \/ PutTimeout(u)
        PROVE  f \in pending'[w] \/ <<w, f>> \in background'
    <2>1. send' = send /\ f \notin DoneSends(w)
      BY <1>4 DEF CollectAcks, PutTimeout, DoneSends, SendOver
    <2>2. background \subseteq background' /\ (u # w => pending'[w] = pending[w])
      BY <1>4 DEF CollectAcks, PutTimeout, StopWaiting
    <2>3. CASE f \in pending[w] /\ u = w
      BY <1>4, <2>1, <2>3 DEF CollectAcks, PutTimeout, StopWaiting
    <2> QED BY <2>1, <2>2, <2>3 DEF NoOrphanTask
  <1>5. ASSUME NEW u \in Writes, NEW p \in Followers, NEW ts \in Timestamps, put_key(u, p, ts)
        PROVE  f \in pending'[w] \/ <<w, f>> \in background'
    BY <1>5 DEF put_key, NoOrphanTask
  <1>6. ASSUME NEW n \in Nodes, delete_key(n) PROVE f \in pending'[w] \/ <<w, f>> \in background'
    BY <1>6 DEF delete_key, NoOrphanTask
  <1>7. CASE UNCHANGED vars
    BY <1>7 DEF vars, NoOrphanTask
  <1> QED BY <1>1, <1>2, <1>3, <1>4, <1>5, <1>6, <1>7 DEF Next, PutCancelled

\* leader.py: "must keep a strong reference to background tasks".  Unless a PUT
\* handler is cancelled, every replicate call that is still running is referenced.
THEOREM TasksReferenced ==
    ASSUME ~Cancellations PROVE Spec => []NoOrphanTask
  <1>1. Init => NoOrphanTask
    BY DEF Init, NoOrphanTask, Nodes
  <1>2. CallInv /\ NoOrphanTask /\ [Next]_vars => NoOrphanTask'
    BY OrphanNext
  <1> QED BY <1>1, <1>2, CallInvariant, PTL DEF Spec

-----------------------------------------------------------------------------
(* The leader's write path is the leaderless one                           *)

\* The mapped clocks, W parameters and calls.
MappedClock  == [n \in Nodes |-> IF n = Leader THEN clock ELSE 0]
MappedParam  == [w \in Writes |-> IF Started(w) THEN AckRequired + 1 ELSE 0]
MappedSend   == [w \in Writes |-> [n \in Nodes |-> IF send[w][n] = "lost" THEN "gaveup" ELSE send[w][n]]]

\* The instance's own copies of LWW and of cardinality are the module's.
LEMMA SameOperators ==
    /\ \A e, v : AsLeaderless!Put(e, v) = Put(e, v)
    /\ \A S : AsLeaderless!Cardinality(S) = Cardinality(S)
  <1>1. \A e, v : AsLeaderless!Put(e, v) = Put(e, v)
    BY DEF AsLeaderless!Put, Put, AsLeaderless!Applies, Applies, AsLeaderless!is_newer_than, is_newer_than
  <1>2. \A S : AsLeaderless!Cardinality(S) = Cardinality(S)
    BY DEF AsLeaderless!Cardinality, Cardinality
  <1> QED BY <1>1, <1>2

\* The followers are the leader's peers, and W = ack_required + 1 is valid.
LEMMA PeersAndParam ==
    /\ AsLeaderless!Peers(Leader) = Followers
    /\ AsLeaderless!ValidParam(AckRequired + 1)
    /\ AckRequired \in Nat
  <1>1. AsLeaderless!Peers(Leader) = Followers
    BY ClusterAssumption DEF AsLeaderless!Peers, Nodes
  <1>2. Cardinality(Nodes) = Cardinality(Followers) + 1 /\ Cardinality(Followers) \in Nat
    <2>1. Nodes = Followers \cup {Leader}
      BY DEF Nodes
    <2> QED BY <2>1, ClusterAssumption, FS_AddElement, FS_CardinalityType
  <1>3. AckRequired \in Nat /\ AckRequired <= Cardinality(Followers)
    BY <1>2, AckAssumption
  <1>4. AsLeaderless!N = Cardinality(Nodes)
    BY SameOperators DEF AsLeaderless!N
  <1>5. AsLeaderless!ValidParam(AckRequired + 1)
    BY <1>2, <1>3, <1>4 DEF AsLeaderless!ValidParam
  <1> QED BY <1>1, <1>3, <1>5

\* The loop condition and the outcome are the same decisions.
LEMMA SameDecisions ==
    ASSUME NEW counted \in SUBSET Followers, NEW waitingFor
    PROVE  /\ AsLeaderless!KeepWaiting(waitingFor, counted, (AckRequired + 1) - 1) <=> KeepWaiting(waitingFor, counted)
           /\ AsLeaderless!PutOutcome(AckRequired + 1, counted) = PutOutcome(counted)
  <1>1. Cardinality(counted) \in Nat /\ AckRequired \in Nat
    BY ClusterAssumption, FS_Subset, FS_CardinalityType, PeersAndParam
  <1>2. AsLeaderless!KeepWaiting(waitingFor, counted, (AckRequired + 1) - 1) <=> KeepWaiting(waitingFor, counted)
    BY <1>1, SameOperators DEF AsLeaderless!KeepWaiting, KeepWaiting
  <1>3. AsLeaderless!PutOutcome(AckRequired + 1, counted) = PutOutcome(counted)
    BY <1>1, SameOperators DEF AsLeaderless!PutOutcome, PutOutcome
  <1> QED BY <1>2, <1>3

\* put_key_leader is put_key_coordinator at the leader.
LEMMA PutRefines ==
    ASSUME CallInv, NEW w \in Writes, NEW ts \in Timestamps, put_key_leader(w, ts)
    PROVE  AsLeaderless!put_key_coordinator(w, Leader, AckRequired + 1, ts)
  <1> USE DEF CallInv, TypeOK
  <1>0. Leader \in Nodes
    BY DEF Nodes
  <1> DEFINE v == [value |-> w, timestamp |-> ts, node_id |-> Leader]
  <1>1. MappedClock' = [MappedClock EXCEPT ![Leader] = ts] /\ MappedClock[Leader] = clock
    BY <1>0 DEF put_key_leader, MappedClock
  <1>2. MappedParam' = [MappedParam EXCEPT ![w] = AckRequired + 1]
    <2>1. Started(w)' /\ \A u \in Writes : u # w => (Started(u)' <=> Started(u))
      BY DEF put_key_leader, StopWaiting, PutOutcome, Started
    <2> QED BY <2>1 DEF MappedParam
  <1>3. MappedSend' = [MappedSend EXCEPT ![w] =
                         [p \in Nodes |-> IF p \in AsLeaderless!Peers(Leader) THEN "sent" ELSE "none"]]
    BY PeersAndParam DEF put_key_leader, MappedSend
  <1>4. store' = [store EXCEPT ![Leader] = AsLeaderless!Put(@, v)]
    BY SameOperators DEF put_key_leader
  <1>5. IF AsLeaderless!KeepWaiting(AsLeaderless!Peers(Leader), {}, (AckRequired + 1) - 1)
        THEN /\ wstate' = [wstate EXCEPT ![w] = "waiting"]
             /\ pending' = [pending EXCEPT ![w] = AsLeaderless!Peers(Leader)]
             /\ UNCHANGED background
        ELSE /\ wstate' = [wstate EXCEPT ![w] = AsLeaderless!PutOutcome(AckRequired + 1, {})]
             /\ AsLeaderless!HandOff(w, AsLeaderless!Peers(Leader))
    BY PeersAndParam, SameDecisions DEF put_key_leader, StopWaiting, AsLeaderless!HandOff
  <1> QED BY <1>1, <1>2, <1>3, <1>4, <1>5, PeersAndParam
          DEF put_key_leader, AsLeaderless!put_key_coordinator, AsLeaderless!readVars,
              MappedClock, MappedParam, MappedSend

\* Nothing but a PUT's first step changes its mapped W.
LEMMA ParamKept ==
    ASSUME TypeOK, \A w \in Writes : Started(w)' <=> Started(w) PROVE MappedParam' = MappedParam
  BY DEF MappedParam

\* /internal/replicate is the same handler.
LEMMA DeliverRefines ==
    ASSUME CallInv, NEW w \in Writes, NEW f \in Followers, Deliver(w, f)
    PROVE  AsLeaderless!Deliver(w, f)
  <1> USE DEF CallInv, TypeOK
  <1>0. f \in Nodes
    BY DEF Nodes
  <1>1. MappedSend[w][f] = send[w][f] /\ send[w][f] \in {"sent", "gaveup"}
    BY <1>0 DEF Deliver, MappedSend
  <1>2. MappedSend' = [MappedSend EXCEPT ![w][f] = IF @ = "sent" THEN "applied" ELSE "failed"]
    BY <1>0, <1>1 DEF Deliver, MappedSend
  <1>3. store' = [store EXCEPT ![f] = AsLeaderless!Put(@, version[w])]
    BY SameOperators DEF Deliver
  <1>4. MappedParam' = MappedParam /\ MappedClock' = MappedClock
    BY ParamKept DEF Deliver, MappedClock, Started
  <1> QED BY <1>1, <1>2, <1>3, <1>4
          DEF Deliver, AsLeaderless!Deliver, AsLeaderless!readVars, MappedClock, MappedParam, MappedSend

\* A lost request is, to the leaderless cluster, one that was given up on.
LEMMA SendRefines ==
    ASSUME CallInv, NEW w \in Writes, NEW f \in Followers
    PROVE  /\ SendAcked(w, f) => AsLeaderless!SendAcked(w, f)
           /\ SendFails(w, f) => AsLeaderless!SendFails(w, f)
  <1> USE DEF CallInv, TypeOK
  <1>0. f \in Nodes
    BY DEF Nodes
  <1>1. ASSUME NEW s \in {"ok", "gaveup", "lost", "failed"}, SendReturns(w, f, s)
        PROVE  /\ MappedSend' = [MappedSend EXCEPT ![w][f] = IF s = "lost" THEN "gaveup" ELSE s]
               /\ AsLeaderless!Discard(w, f)
               /\ MappedParam' = MappedParam /\ MappedClock' = MappedClock
               /\ UNCHANGED <<store, wstate, version, acked, pending>>
    <2>1. MappedSend' = [MappedSend EXCEPT ![w][f] = IF s = "lost" THEN "gaveup" ELSE s]
      BY <1>0, <1>1 DEF SendReturns, MappedSend
    <2>2. MappedParam' = MappedParam /\ MappedClock' = MappedClock
      BY <1>1, ParamKept DEF SendReturns, MappedClock, Started
    <2> QED BY <1>1, <2>1, <2>2 DEF SendReturns, AsLeaderless!Discard
  <1>2. send[w][f] # "lost" => MappedSend[w][f] = send[w][f]
    BY <1>0 DEF MappedSend
  <1>3. ASSUME SendAcked(w, f) PROVE AsLeaderless!SendAcked(w, f)
    <2>1. send[w][f] = "applied" /\ SendReturns(w, f, "ok")
      BY <1>3 DEF SendAcked
    <2>2. MappedSend' = [MappedSend EXCEPT ![w][f] = "ok"]
      BY <1>1, <2>1
    <2> QED BY <1>1, <1>2, <2>1, <2>2
            DEF AsLeaderless!SendAcked, AsLeaderless!readVars, MappedClock, MappedParam, MappedSend
  <1>4. ASSUME SendFails(w, f) PROVE AsLeaderless!SendFails(w, f)
    <2>1. \/ send[w][f] = "sent" /\ SendReturns(w, f, "gaveup")
          \/ send[w][f] = "sent" /\ SendReturns(w, f, "lost")
          \/ send[w][f] = "applied" /\ SendReturns(w, f, "failed")
      BY <1>4 DEF SendFails
    <2>2. MappedSend[w][f] \in {"sent", "applied"}
      BY <1>2, <2>1
    <2>3. MappedSend' = [MappedSend EXCEPT ![w][f] = IF @ = "sent" THEN "gaveup" ELSE "failed"]
      BY <1>1, <1>2, <2>1
    <2>4. /\ AsLeaderless!Discard(w, f)
          /\ MappedParam' = MappedParam /\ MappedClock' = MappedClock
          /\ UNCHANGED <<store, wstate, version, acked, pending>>
      BY <1>1, <2>1
    <2> QED BY <2>2, <2>3, <2>4
            DEF AsLeaderless!SendFails, AsLeaderless!readVars, MappedClock, MappedParam, MappedSend
  <1> QED BY <1>3, <1>4

\* replicate()'s loop and deadline are _gather's.
LEMMA GatherRefines ==
    ASSUME CallInv, NEW w \in Writes
    PROVE  /\ CollectAcks(w) => AsLeaderless!CollectAcks(w)
           /\ PutTimeout(w) => AsLeaderless!PutTimeout(w)
  <1> USE DEF CallInv, TypeOK
  <1>1. \A p \in Followers : /\ AsLeaderless!SendOver(MappedSend[w][p]) <=> SendOver(send[w][p])
                             /\ MappedSend[w][p] = "ok" <=> send[w][p] = "ok"
    BY DEF AsLeaderless!SendOver, SendOver, MappedSend, Nodes
  <1>2. AsLeaderless!DoneSends(w) = DoneSends(w)
    BY <1>1 DEF AsLeaderless!DoneSends, DoneSends, MappedSend
  <1>3. wstate[w] = "waiting" => MappedParam[w] = AckRequired + 1
    BY DEF MappedParam, Started
  <1>4. ASSUME CollectAcks(w) PROVE AsLeaderless!CollectAcks(w)
    <2> DEFINE counted == acked[w] \cup {p \in DoneSends(w) : send[w][p] = "ok"}
               remaining == pending[w] \ DoneSends(w)
    <2>1. counted \in SUBSET Followers
      BY DEF DoneSends
    <2>2. acked[w] \cup {p \in AsLeaderless!DoneSends(w) : MappedSend[w][p] = "ok"} = counted
      BY <1>1, <1>2 DEF DoneSends
    <2>3. /\ wstate[w] = "waiting" /\ DoneSends(w) # {}
          /\ acked' = [acked EXCEPT ![w] = counted]
          /\ UNCHANGED <<store, clock, version, send>>
      BY <1>4 DEF CollectAcks
    <2>4. IF KeepWaiting(remaining, counted)
          THEN pending' = [pending EXCEPT ![w] = remaining] /\ UNCHANGED <<wstate, background>>
          ELSE StopWaiting(w, counted, remaining)
      BY <1>4 DEF CollectAcks
    <2>5. IF AsLeaderless!KeepWaiting(remaining, counted, MappedParam[w] - 1)
          THEN pending' = [pending EXCEPT ![w] = remaining] /\ UNCHANGED <<wstate, background>>
          ELSE /\ wstate' = [wstate EXCEPT ![w] = AsLeaderless!PutOutcome(MappedParam[w], counted)]
               /\ AsLeaderless!HandOff(w, remaining)
      <3>1. AsLeaderless!KeepWaiting(remaining, counted, MappedParam[w] - 1) <=> KeepWaiting(remaining, counted)
        BY <1>3, <2>1, <2>3, SameDecisions
      <3>2. AsLeaderless!PutOutcome(MappedParam[w], counted) = PutOutcome(counted)
        BY <1>3, <2>1, <2>3, SameDecisions
      <3> QED BY <2>4, <3>1, <3>2 DEF StopWaiting, AsLeaderless!HandOff
    <2>6. \A u \in Writes : Started(u)' <=> Started(u)
      BY <2>3, <2>4 DEF StopWaiting, PutOutcome, Started
    <2>7. MappedParam' = MappedParam /\ MappedClock' = MappedClock /\ MappedSend' = MappedSend
      BY <2>3, <2>6, ParamKept DEF MappedClock, MappedSend
    <2> HIDE DEF counted, remaining
    <2>8. /\ wstate[w] = "waiting"
          /\ AsLeaderless!DoneSends(w) # {}
          /\ acked' = [acked EXCEPT ![w] = acked[w] \cup {p \in AsLeaderless!DoneSends(w) : MappedSend[w][p] = "ok"}]
      BY <1>2, <2>2, <2>3
    <2>9. remaining = pending[w] \ AsLeaderless!DoneSends(w)
      BY <1>2 DEF remaining
    <2> QED BY <2>2, <2>3, <2>5, <2>7, <2>8, <2>9
            DEF AsLeaderless!CollectAcks, AsLeaderless!readVars, MappedClock, MappedParam, MappedSend
  <1>5. ASSUME PutTimeout(w) PROVE AsLeaderless!PutTimeout(w)
    <2>1. /\ wstate[w] = "waiting"
          /\ StopWaiting(w, acked[w], pending[w] \ DoneSends(w))
          /\ UNCHANGED <<store, clock, version, acked, send>>
      BY <1>5 DEF PutTimeout
    <2>2. /\ wstate' = [wstate EXCEPT ![w] = AsLeaderless!PutOutcome(MappedParam[w], acked[w])]
          /\ AsLeaderless!HandOff(w, pending[w] \ AsLeaderless!DoneSends(w))
      BY <1>2, <1>3, <2>1, SameDecisions DEF StopWaiting, AsLeaderless!HandOff
    <2>3. \A u \in Writes : Started(u)' <=> Started(u)
      BY <2>1 DEF StopWaiting, PutOutcome, Started
    <2>4. MappedParam' = MappedParam /\ MappedClock' = MappedClock /\ MappedSend' = MappedSend
      BY <2>1, <2>3, ParamKept DEF MappedClock, MappedSend
    <2> QED BY <2>1, <2>2, <2>4
            DEF AsLeaderless!PutTimeout, AsLeaderless!readVars, MappedClock, MappedParam, MappedSend
  <1> QED BY <1>4, <1>5

\* Every step of the leader-follower cluster is one of the leaderless cluster.
LEMMA StepRefines ==
    ~Cancellations /\ ~DirectPuts /\ CallInv /\ [Next]_vars => [AsLeaderless!Next]_(AsLeaderless!vars)
  <1> SUFFICES ASSUME ~Cancellations, ~DirectPuts, CallInv, [Next]_vars
               PROVE  [AsLeaderless!Next]_(AsLeaderless!vars)
    OBVIOUS
  <1>1. ASSUME NEW w \in Writes, NEW ts \in Timestamps, put_key_leader(w, ts) PROVE AsLeaderless!WriteStep(w)
    BY <1>1, PutRefines DEF AsLeaderless!WriteStep
  <1>2. ASSUME NEW w \in Writes, NEW f \in Followers, Deliver(w, f) \/ SendAcked(w, f) \/ SendFails(w, f)
        PROVE  AsLeaderless!WriteStep(w)
    <2>1. f \in Nodes
      BY DEF Nodes
    <2>2. AsLeaderless!Deliver(w, f) \/ AsLeaderless!SendAcked(w, f) \/ AsLeaderless!SendFails(w, f)
      BY <1>2, DeliverRefines, SendRefines
    <2> QED BY <2>1, <2>2 DEF AsLeaderless!WriteStep
  <1>3. ASSUME NEW w \in Writes, CollectAcks(w) \/ PutTimeout(w) PROVE AsLeaderless!WriteStep(w)
    BY <1>3, GatherRefines DEF AsLeaderless!WriteStep
  <1>4. ASSUME NEW n \in Nodes, delete_key(n) PROVE AsLeaderless!delete_key(n)
    <2>1. MappedParam' = MappedParam
      BY <1>4, ParamKept DEF delete_key, Started, CallInv
    <2> QED BY <1>4, <2>1 DEF delete_key, AsLeaderless!delete_key, AsLeaderless!writeVars,
                              AsLeaderless!readVars, MappedParam
  <1>5. CASE UNCHANGED vars
    <2>1. MappedParam' = MappedParam
      BY <1>5, ParamKept DEF vars, Started, CallInv
    <2> QED BY <1>5, <2>1 DEF vars, AsLeaderless!vars, AsLeaderless!writeVars, AsLeaderless!readVars,
                              MappedParam
  <1> QED BY <1>1, <1>2, <1>3, <1>4, <1>5 DEF Next, AsLeaderless!Next, PutCancelled, put_key

\* leaderless/node.py's "same policy as leader-follower": unless a handler is
\* cancelled or a client writes at a follower, every behaviour of the leader's
\* write path is one of the leaderless write path with the leader as the only
\* coordinator and W = ack_required + 1.
THEOREM SameWritePolicy ==
    ASSUME ~Cancellations, ~DirectPuts PROVE Spec => ImplementsLeaderless
  <1>1. Init => AsLeaderless!Init
    BY DEF Init, AsLeaderless!Init, Started
  <1>2. CallInv /\ [Next]_vars => [AsLeaderless!Next]_(AsLeaderless!vars)
    BY StepRefines
  <1> QED BY <1>1, <1>2, CallInvariant, PTL DEF Spec, ImplementsLeaderless, AsLeaderless!Spec
=============================================================================

------------------------- MODULE MessageQueueProofs -------------------------
(***************************************************************************)
(* Machine-checked proofs about MessageQueue, for any number of followers, *)
(* partitions, keys, PUTs, retried appends, malformed messages and         *)
(* restarts.                                                               *)
(***************************************************************************)
EXTENDS MessageQueue, LWWProofs, FiniteSetTheorems, SequenceTheorems, TLAPS

-----------------------------------------------------------------------------
(* The inductive invariants                                                *)

\* A PUT that a node has taken up has its version, with its own payload.
WritesStamped ==
    \A w \in Writes : wstate[w] # "idle" => version[w] \in Version /\ version[w].value = w

\* A message is in the log for every append, and only the producer's PUTs are.
AppendsLogged ==
    \A w \in Writes :
        /\ wstate[w] \in {"idle", "local"} => appends[w] = 0
        /\ wstate[w] = "ok" => appends[w] > 0
        /\ appends[w] > 0 => \E i \in 1 .. Len(log[PartitionFor(w)]) : log[PartitionFor(w)][i] = version[w]

\* How a follower's offset in a partition and the group's committed one are
\* related: they differ by the message between apply and commit, while the loop
\* runs and if it ended there.
OffsetsInStep ==
    \A f \in Followers :
        /\ process[f] # "consuming" => inflight[f] = NoMessage
        /\ \A p \in Partitions :
             /\ base[f][p] <= committed[f][p]
             /\ committed[f][p] <= position[f][p]
             /\ position[f][p] <= committed[f][p] + 1
             /\ position[f][p] <= Len(log[p])
             /\ process[f] = "consuming" =>
                  IF inflight[f] # NoMessage /\ inflight[f][1] = p
                  THEN inflight[f][2] = committed[f][p] /\ position[f][p] = committed[f][p] + 1
                  ELSE position[f][p] = committed[f][p]

MQInv == TypeOK /\ WritesStamped /\ AppendsLogged /\ OffsetsInStep

\* Kafka's partitioning by key: a partition has only messages of its own keys.
LoggedInPlace ==
    \A p \in Partitions : \A i \in 1 .. Len(log[p]) :
        log[p][i] # Bad => KeyOf[log[p][i].value] \in KeysIn(p)

\* A follower that has not been assigned a partition has nothing.
FreshStore ==
    \A f \in Followers : process[f] = "joining" => \A k \in Keys : store[f][k] = NoEntry

Span(f, p) == base[f][p] + 1 .. position[f][p]
OfKey(p, k, i) == log[p][i] # Bad /\ KeyOf[log[p][i].value] = k

\* The message at i beats those of its key before it in the span, and none after
\* it beats it.
Wins(f, p, k, i) ==
    /\ i \in Span(f, p) /\ OfKey(p, k, i)
    /\ \A j \in Span(f, p) : OfKey(p, k, j) =>
         /\ ~is_newer_than(log[p][j], log[p][i])
         /\ j < i => is_newer_than(log[p][i], log[p][j])

\* What _apply_message makes of the part of the log a follower consumed, without
\* replaying it: a key has the first of its newest messages in the span, and no
\* entry if there is none.
StoreIsLogWinner ==
    \A f \in Followers, p \in Partitions : \A k \in KeysIn(p) :
        process[f] \in {"consuming", "dead"} =>
            \/ store[f][k] = NoEntry /\ \A i \in Span(f, p) : ~OfKey(p, k, i)
            \/ \E i \in Span(f, p) : Wins(f, p, k, i) /\ store[f][k] = log[p][i]

StoreInv == LoggedInPlace /\ FreshStore /\ StoreIsLogWinner

\* Followers that consumed the same part of a partition hold the same entries,
\* payloads included, however timestamps were tied.
SameSpanSameEntries ==
    \A f, g \in Followers, p \in Partitions :
        /\ process[f] \in {"consuming", "dead"} /\ process[g] \in {"consuming", "dead"}
        /\ base[f][p] = base[g][p] /\ position[f][p] = position[g][p]
        => \A k \in KeysIn(p) : store[f][k] = store[g][k]

\* A GET /internal/lag under way: what it has read so far was no more than the
\* follower was missing when it began.
Query == [stage : {"asking", "answered"}, end : Offsets, first : Offsets, per : Seq(Int)]
LagInv ==
    /\ lag \in [Followers -> Query \cup {NoQuery}]
    /\ \A f \in Followers : lag[f] # NoQuery =>
         /\ lag[f].stage = "asking" => Len(lag[f].per) < Cardinality(Partitions)
         /\ Len(lag[f].per) <= Cardinality(Partitions)
         /\ \A p \in Partitions : lag[f].first[p] <= committed[f][p]
         /\ \A i \in 1 .. Len(lag[f].per) :
              lag[f].per[i] <= lag[f].end[PartitionOrder[i]] - lag[f].first[PartitionOrder[i]]

-----------------------------------------------------------------------------
(* Versions and logs                                                       *)

\* A version can be compared, and the entry of a store if there is one.
LEMMA EntriesStamped ==
    /\ \A v \in Version : Stamped(v) /\ v.value \in Writes
    /\ \A e \in Entry : e = NoEntry \/ Stamped(e)
  <1>1. ASSUME NEW v \in Version PROVE Stamped(v) /\ v.value \in Writes
    <2>1. v # NoEntry
      BY MarkersAssumption
    <2>2. v.timestamp \in Nat /\ v.node_id \in {Producer, FollowerRank} /\ v.value \in Writes
      BY DEF Version, VersionedValue
    <2>3. v.node_id \in Nat
      BY <2>2, RankAssumption
    <2> QED BY <2>1, <2>2, <2>3 DEF Stamped
  <1> QED BY <1>1 DEF Entry

\* What the producer and a follower stamp.
LEMMA StampIsVersion ==
    ASSUME NEW w \in Writes, NEW n \in {Producer, FollowerRank}, NEW ts \in Timestamps
    PROVE  /\ [value |-> w, timestamp |-> ts, node_id |-> n] \in Version
           /\ [value |-> w, timestamp |-> ts, node_id |-> n].value = w
  BY RankAssumption DEF Version, VersionedValue

\* _apply_message leaves a store, and touches only the message's key.
LEMMA ApplyType ==
    ASSUME NEW s \in [Keys -> Entry], NEW m \in Message
    PROVE  /\ ApplyTo(s, m) \in [Keys -> Entry]
           /\ m = Bad => ApplyTo(s, m) = s
           /\ m # Bad => /\ m \in Version /\ KeyOf[m.value] \in Keys
                         /\ ApplyTo(s, m)[KeyOf[m.value]] = Put(s[KeyOf[m.value]], m)
                         /\ \A k \in Keys : k # KeyOf[m.value] => ApplyTo(s, m)[k] = s[k]
  <1>1. CASE m = Bad
    BY <1>1 DEF ApplyTo
  <1>2. CASE m # Bad
    <2>1. m \in Version
      BY <1>2 DEF Message
    <2>2. KeyOf[m.value] \in Keys
      BY <2>1, EntriesStamped, TopicAssumption
    <2>3. Put(s[KeyOf[m.value]], m) \in Entry
      BY <2>1, <2>2 DEF Put, Entry
    <2> QED BY <1>2, <2>1, <2>2, <2>3 DEF ApplyTo
  <1> QED BY <1>1, <1>2

\* The partitions' logs are sequences.
LEMMA LogFacts ==
    ASSUME TypeOK, NEW p \in Partitions
    PROVE  /\ log[p] \in Seq(Message) /\ Len(log[p]) \in Nat /\ DOMAIN log[p] = 1 .. Len(log[p])
           /\ \A i \in 1 .. Len(log[p]) : log[p][i] \in Message
  <1>1. log[p] \in Seq(Message)
    BY DEF TypeOK
  <1> QED BY <1>1, LenProperties, ElementOfSeq

\* No message is taken out of a log, moved or altered.
LogKept ==
    \A p \in Partitions :
        /\ Len(log[p]) <= Len(log'[p])
        /\ \A i \in 1 .. Len(log[p]) : log'[p][i] = log[p][i]

\* Kafka appends one message to one partition.
LEMMA AppendFacts ==
    ASSUME TypeOK, NEW p \in Partitions, NEW m \in Message, log' = [log EXCEPT ![p] = Append(@, m)]
    PROVE  /\ log' \in [Partitions -> Seq(Message)]
           /\ LogKept
           /\ \A q \in Partitions : Len(log'[q]) \in Nat
           /\ Len(log[p]) + 1 \in 1 .. Len(log'[p])
           /\ log'[p][Len(log[p]) + 1] = m
           /\ \A q \in Partitions : \A i \in 1 .. Len(log'[q]) :
                i \in 1 .. Len(log[q]) \/ (q = p /\ i = Len(log[p]) + 1)
  <1> DEFINE a == Append(log[p], m)
  <1>1. log \in [Partitions -> Seq(Message)] /\ \A q \in Partitions : Len(log[q]) \in Nat
    BY LogFacts DEF TypeOK
  <1>2. /\ a \in Seq(Message) /\ Len(a) = Len(log[p]) + 1
        /\ \A i \in 1 .. Len(log[p]) : a[i] = log[p][i]
        /\ a[Len(log[p]) + 1] = m
    BY <1>1, AppendProperties
  <1>3. log'[p] = a /\ \A q \in Partitions : q # p => log'[q] = log[q]
    BY <1>1
  <1>4. log' \in [Partitions -> Seq(Message)]
    BY <1>1, <1>2
  <1> HIDE DEF a
  <1>5. ASSUME NEW q \in Partitions
        PROVE  /\ Len(log'[q]) \in Nat /\ Len(log[q]) <= Len(log'[q])
               /\ \A i \in 1 .. Len(log[q]) : log'[q][i] = log[q][i]
               /\ \A i \in 1 .. Len(log'[q]) : i \in 1 .. Len(log[q]) \/ (q = p /\ i = Len(log[p]) + 1)
    <2>1. CASE q = p
      BY <1>1, <1>2, <1>3, <2>1
    <2>2. CASE q # p
      BY <1>1, <1>3, <2>2
    <2> QED BY <2>1, <2>2
  <1> QED BY <1>1, <1>2, <1>3, <1>4, <1>5 DEF LogKept

\* A step that appends nothing.
LEMMA SameLog ==
    ASSUME TypeOK, log' = log
    PROVE  LogKept
  BY LogFacts DEF LogKept

\* Once a commit has been served, the group's offsets are the consumer's.
LEMMA CommitFacts ==
    ASSUME TypeOK, OffsetsInStep, NEW f \in Followers, inflight[f] # NoMessage
    PROVE  /\ CommitOffset(f) \in [Followers -> Offsets]
           /\ \A q \in Partitions : CommitOffset(f)[f][q] = position[f][q]
           /\ \A g \in Followers : g # f => CommitOffset(f)[g] = committed[g]
  <1> DEFINE p == inflight[f][1]
             o == inflight[f][2]
  <1>1. p \in Partitions /\ o \in Nat
    <2>1. inflight[f] \in Partitions \X Nat
      BY DEF TypeOK
    <2> QED BY <2>1
  <1>2. process[f] = "consuming"
    BY DEF OffsetsInStep
  <1>3. o = committed[f][p] /\ position[f][p] = committed[f][p] + 1
    BY <1>1, <1>2 DEF OffsetsInStep
  <1>4. \A q \in Partitions : q # p => position[f][q] = committed[f][q]
    BY <1>1, <1>2 DEF OffsetsInStep
  <1>5. committed \in [Followers -> [Partitions -> Nat]]
    BY DEF TypeOK, Offsets
  <1>6. CommitOffset(f) = [committed EXCEPT ![f] = [committed[f] EXCEPT ![p] = o + 1]]
    BY <1>5 DEF CommitOffset
  <1> HIDE DEF p, o
  <1>7. [committed[f] EXCEPT ![p] = o + 1] \in [Partitions -> Nat]
    BY <1>1, <1>5
  <1> QED BY <1>1, <1>3, <1>4, <1>5, <1>6, <1>7 DEF Offsets

\* However the loop ends, the offset is committed or is not.
LEMMA LoopEndsFacts ==
    ASSUME TypeOK, OffsetsInStep, NEW f \in Followers, LoopEnds(f)
    PROVE  /\ committed' \in [Followers -> Offsets]
           /\ inflight' \in [Followers -> (Partitions \X Nat) \cup {NoMessage}]
           /\ inflight'[f] = NoMessage
           /\ \A g \in Followers : g # f => inflight'[g] = inflight[g] /\ committed'[g] = committed[g]
           /\ \A q \in Partitions : committed'[f][q] \in {committed[f][q], position[f][q]}
  <1>1. /\ inflight' \in [Followers -> (Partitions \X Nat) \cup {NoMessage}]
        /\ inflight'[f] = NoMessage
        /\ \A g \in Followers : g # f => inflight'[g] = inflight[g]
    BY DEF TypeOK, LoopEnds
  <1>2. CASE committed' = committed
    BY <1>1, <1>2 DEF TypeOK
  <1>3. CASE inflight[f] # NoMessage /\ committed' = CommitOffset(f)
    BY <1>1, <1>3, CommitFacts
  <1> QED BY <1>2, <1>3 DEF LoopEnds

-----------------------------------------------------------------------------
(* Types, stamps and offsets                                               *)

\* Types hold at the start, and so do the invariants.
LEMMA MQInit == Init => MQInv
  <1> SUFFICES ASSUME Init PROVE MQInv
    OBVIOUS
  <1>0. <<>> \in Seq(Message) /\ Len(<<>>) = 0
    BY EmptySeq
  <1>1. TypeOK
    BY <1>0, BoundsAssumption DEF Init, TypeOK, Offsets, Entry
  <1>2. WritesStamped /\ AppendsLogged
    BY DEF Init, WritesStamped, AppendsLogged
  <1>3. OffsetsInStep
    BY <1>0 DEF Init, OffsetsInStep
  <1> QED BY <1>1, <1>2, <1>3 DEF MQInv

\* GET /internal/lag changes nothing but its own answer.
LEMMA LagReadsOnly ==
    ASSUME NEW f \in Followers, EndOffsets(f) \/ Committed(f) \/ LagRead(f)
    PROVE  UNCHANGED <<kafkaVars, producerVars, followerVars>>
  <1>1. CASE EndOffsets(f)
    BY <1>1, Zenon DEF EndOffsets
  <1>2. CASE Committed(f)
    BY <1>2, Zenon DEF Committed
  <1>3. CASE LagRead(f)
    BY <1>3, Zenon DEF LagRead
  <1> QED BY <1>1, <1>2, <1>3

\* A follower's steps write nothing of the producer's, nor messages.
LEMMA FollowerKeepsProducer ==
    ASSUME NEW f \in Followers, FollowerStep(f)
    PROVE  UNCHANGED <<log, producerVars>>
  <1>1. CASE on_startup(f) \/ Assigned(f) \/ commit(f) \/ LoopFails(f) \/ Stop(f)
    BY <1>1 DEF on_startup, Assigned, commit, LoopFails, Stop, kafkaVars
  <1>2. CASE \E p \in Partitions : apply_message(f, p)
    BY <1>2 DEF apply_message, kafkaVars
  <1>3. CASE \E k \in Keys : delete_key_follower(f, k)
    BY <1>3 DEF delete_key_follower, kafkaVars
  <1>4. CASE EndOffsets(f) \/ Committed(f) \/ LagRead(f)
    BY <1>4, LagReadsOnly DEF kafkaVars
  <1> QED BY <1>1, <1>2, <1>3, <1>4 DEF FollowerStep

\* Every step keeps the variables' types.
LEMMA TypeNext == TypeOK /\ WritesStamped /\ OffsetsInStep /\ [Next]_vars => TypeOK'
  <1> SUFFICES ASSUME TypeOK, WritesStamped, OffsetsInStep, [Next]_vars PROVE TypeOK'
    OBVIOUS
  <1>1. ASSUME NEW w \in Writes, NEW ts \in Timestamps, put_key(w, ts) PROVE TypeOK'
    <2>1. ts \in Nat /\ [value |-> w, timestamp |-> ts, node_id |-> Producer] \in Entry
      BY RankAssumption, StampIsVersion DEF Entry
    <2> QED BY <1>1, <2>1 DEF put_key, TypeOK, kafkaVars, followerVars
  <1>2. ASSUME NEW w \in Writes, Append_(w) PROVE TypeOK'
    <2>1. version[w] \in Message /\ PartitionFor(w) \in Partitions
      BY <1>2, TopicAssumption DEF Append_, WritesStamped, Message, PartitionFor
    <2>2. log' \in [Partitions -> Seq(Message)]
      BY <1>2, <2>1, AppendFacts DEF Append_
    <2>3. appends' \in [Writes -> Nat]
      BY <1>2 DEF Append_, TypeOK
    <2> QED BY <1>2, <2>2, <2>3 DEF Append_, TypeOK, followerVars
  <1>3. ASSUME NEW w \in Writes, Confirmed(w) \/ NotConfirmed(w) PROVE TypeOK'
    BY <1>3 DEF Confirmed, NotConfirmed, TypeOK, kafkaVars, followerVars
  <1>4. ASSUME NEW w \in Writes, NEW f \in Followers, NEW ts \in Timestamps, put_key_follower(w, f, ts)
        PROVE  TypeOK'
    <2> DEFINE v == [value |-> w, timestamp |-> ts, node_id |-> FollowerRank]
    <2>1. v \in Entry /\ v \in Message
      BY StampIsVersion DEF Entry, Message
    <2>2. ApplyTo(store[f], v) \in [Keys -> Entry]
      BY <2>1, ApplyType DEF TypeOK
    <2> HIDE DEF v
    <2>3. version' = [version EXCEPT ![w] = v] /\ store' = [store EXCEPT ![f] = ApplyTo(@, v)]
      BY <1>4 DEF put_key_follower, v
    <2>4. version' \in [Writes -> Entry] /\ store' \in [Followers -> [Keys -> Entry]]
      BY <2>1, <2>2, <2>3 DEF TypeOK
    <2> QED BY <1>4, <2>4 DEF put_key_follower, TypeOK, kafkaVars
  <1>5. ASSUME NEW p \in Partitions, ForeignMessage(p) PROVE TypeOK'
    <2>1. log' \in [Partitions -> Seq(Message)]
      BY <1>5, AppendFacts DEF ForeignMessage, Message
    <2> QED BY <1>5, <2>1 DEF ForeignMessage, TypeOK, producerVars, followerVars
  <1>6. ASSUME NEW f \in Followers, on_startup(f) PROVE TypeOK'
    BY <1>6 DEF on_startup, TypeOK, kafkaVars, producerVars, Entry
  <1>7. ASSUME NEW f \in Followers, Assigned(f) PROVE TypeOK'
    BY <1>7 DEF Assigned, TypeOK, kafkaVars, producerVars
  <1>8. ASSUME NEW f \in Followers, NEW p \in Partitions, apply_message(f, p) PROVE TypeOK'
    <2> DEFINE m == log[p][position[f][p] + 1]
    <2>0. position[f] \in [Partitions -> Nat] /\ position[f][p] \in Nat
      BY DEF TypeOK, Offsets
    <2>1. m \in Message
      BY <1>8, <2>0, LogFacts DEF apply_message
    <2>2. ApplyTo(store[f], m) \in [Keys -> Entry]
      BY <2>1, ApplyType DEF TypeOK
    <2> HIDE DEF m
    <2>3. store' = [store EXCEPT ![f] = ApplyTo(@, m)]
      BY <1>8 DEF apply_message, m
    <2>4. store' \in [Followers -> [Keys -> Entry]]
      BY <2>2, <2>3 DEF TypeOK
    <2>5. inflight' \in [Followers -> (Partitions \X Nat) \cup {NoMessage}]
      BY <1>8, <2>0 DEF apply_message, TypeOK
    <2>6. position' \in [Followers -> Offsets]
      BY <1>8, <2>0 DEF apply_message, TypeOK, Offsets
    <2> QED BY <1>8, <2>4, <2>5, <2>6 DEF apply_message, TypeOK, kafkaVars, producerVars
  <1>9. ASSUME NEW f \in Followers, commit(f) PROVE TypeOK'
    <2>1. committed' \in [Followers -> Offsets]
      BY <1>9, CommitFacts DEF commit
    <2> QED BY <1>9, <2>1 DEF commit, TypeOK, producerVars
  <1>10. ASSUME NEW f \in Followers, LoopFails(f) \/ Stop(f) PROVE TypeOK'
    <2>1. LoopEnds(f)
      BY <1>10 DEF LoopFails, Stop
    <2>2. /\ committed' \in [Followers -> Offsets]
          /\ inflight' \in [Followers -> (Partitions \X Nat) \cup {NoMessage}]
      BY <2>1, LoopEndsFacts
    <2>3. restarts' \in 0 .. Restarts
      BY <1>10, BoundsAssumption DEF LoopFails, Stop, TypeOK
    <2>4. process' \in [Followers -> {"down", "joining", "consuming", "dead"}]
      BY <1>10 DEF LoopFails, Stop, TypeOK
    <2> QED BY <1>10, <2>2, <2>3, <2>4 DEF LoopFails, Stop, TypeOK, producerVars
  <1>11. ASSUME NEW f \in Followers, NEW k \in Keys, delete_key_follower(f, k) PROVE TypeOK'
    BY <1>11 DEF delete_key_follower, TypeOK, Entry, kafkaVars, producerVars
  <1>12. ASSUME NEW f \in Followers, EndOffsets(f) \/ Committed(f) \/ LagRead(f) PROVE TypeOK'
    <2>1. UNCHANGED <<kafkaVars, producerVars, followerVars>>
      BY <1>12, LagReadsOnly
    <2> QED BY <2>1 DEF TypeOK, kafkaVars, producerVars, followerVars
  <1>13. CASE UNCHANGED vars
    BY <1>13 DEF vars, TypeOK, kafkaVars, producerVars, followerVars
  <1> QED BY <1>1, <1>2, <1>3, <1>4, <1>5, <1>6, <1>7, <1>8, <1>9, <1>10, <1>11, <1>12, <1>13
           DEF Next, FollowerStep

\* A PUT gets its version when it is taken up, and keeps it.
LEMMA WritesNext == TypeOK /\ WritesStamped /\ [Next]_vars => WritesStamped'
  <1> SUFFICES ASSUME TypeOK, WritesStamped, [Next]_vars PROVE WritesStamped'
    OBVIOUS
  <1> USE DEF WritesStamped
  <1>1. ASSUME NEW w \in Writes, NEW ts \in Timestamps, put_key(w, ts) PROVE WritesStamped'
    <2> DEFINE v == [value |-> w, timestamp |-> ts, node_id |-> Producer]
    <2>1. v \in Version /\ v.value = w
      BY StampIsVersion
    <2>2. version' = [version EXCEPT ![w] = v] /\ wstate' = [wstate EXCEPT ![w] = "sending"]
      BY <1>1 DEF put_key
    <2> HIDE DEF v
    <2> QED BY <2>1, <2>2 DEF TypeOK
  <1>2. ASSUME NEW w \in Writes, Append_(w) PROVE WritesStamped'
    BY <1>2 DEF Append_
  <1>3. ASSUME NEW w \in Writes, Confirmed(w) \/ NotConfirmed(w) PROVE WritesStamped'
    BY <1>3 DEF Confirmed, NotConfirmed, TypeOK
  <1>4. ASSUME NEW w \in Writes, NEW f \in Followers, NEW ts \in Timestamps, put_key_follower(w, f, ts)
        PROVE  WritesStamped'
    <2> DEFINE v == [value |-> w, timestamp |-> ts, node_id |-> FollowerRank]
    <2>1. v \in Version /\ v.value = w
      BY StampIsVersion
    <2>2. version' = [version EXCEPT ![w] = v] /\ wstate' = [wstate EXCEPT ![w] = "local"]
      BY <1>4 DEF put_key_follower
    <2> HIDE DEF v
    <2> QED BY <2>1, <2>2 DEF TypeOK
  <1>5. ASSUME NEW p \in Partitions, ForeignMessage(p) PROVE WritesStamped'
    BY <1>5 DEF ForeignMessage, producerVars
  <1>6. ASSUME NEW f \in Followers, FollowerStep(f) PROVE WritesStamped'
    <2>1. UNCHANGED producerVars
      BY <1>6, FollowerKeepsProducer
    <2> QED BY <2>1 DEF producerVars
  <1>7. CASE UNCHANGED vars
    BY <1>7 DEF vars, producerVars
  <1> QED BY <1>1, <1>2, <1>3, <1>4, <1>5, <1>6, <1>7 DEF Next

\* Logs only grow.
LEMMA LogNext == TypeOK /\ WritesStamped /\ [Next]_vars => LogKept
  <1> SUFFICES ASSUME TypeOK, WritesStamped, [Next]_vars PROVE LogKept
    OBVIOUS
  <1>1. ASSUME NEW w \in Writes, Append_(w) PROVE LogKept
    <2>1. version[w] \in Message /\ PartitionFor(w) \in Partitions
      BY <1>1, TopicAssumption DEF Append_, WritesStamped, Message, PartitionFor
    <2> QED BY <1>1, <2>1, AppendFacts DEF Append_
  <1>2. ASSUME NEW p \in Partitions, ForeignMessage(p) PROVE LogKept
    BY <1>2, AppendFacts DEF ForeignMessage, Message
  <1>3. ASSUME NEW w \in Writes,
               \/ \E ts \in Timestamps : put_key(w, ts)
               \/ Confirmed(w) \/ NotConfirmed(w)
               \/ \E f \in Followers, ts \in Timestamps : put_key_follower(w, f, ts)
        PROVE  LogKept
    <2>1. log' = log
      BY <1>3 DEF put_key, Confirmed, NotConfirmed, put_key_follower, kafkaVars
    <2> QED BY <2>1, SameLog
  <1>4. ASSUME NEW f \in Followers, FollowerStep(f) PROVE LogKept
    BY <1>4, FollowerKeepsProducer, SameLog
  <1>5. CASE UNCHANGED vars
    BY <1>5, SameLog DEF vars, kafkaVars
  <1> QED BY <1>1, <1>2, <1>3, <1>4, <1>5 DEF Next

\* What was appended stays in its partition, and only what was is confirmed.
LEMMA AppendsNext == MQInv /\ [Next]_vars => AppendsLogged'
  <1> SUFFICES ASSUME MQInv, [Next]_vars, NEW w \in Writes
               PROVE  /\ wstate'[w] \in {"idle", "local"} => appends'[w] = 0
                      /\ wstate'[w] = "ok" => appends'[w] > 0
                      /\ appends'[w] > 0 => \E i \in 1 .. Len(log'[PartitionFor(w)]) :
                                               log'[PartitionFor(w)][i] = version'[w]
    BY DEF AppendsLogged, PartitionFor
  <1> DEFINE p == PartitionFor(w)
             In(l, v) == \E i \in 1 .. Len(l) : l[i] = v
             Kept == wstate'[w] = wstate[w] /\ appends'[w] = appends[w] /\ version'[w] = version[w]
  <1>1. TypeOK /\ p \in Partitions /\ appends[w] \in Nat /\ Len(log[p]) \in Nat /\ Len(log'[p]) \in Nat
    <2>1. p \in Partitions
      BY TopicAssumption DEF PartitionFor
    <2>2. TypeOK /\ TypeOK'
      BY TypeNext DEF MQInv
    <2>3. log[p] \in Seq(Message) /\ log'[p] \in Seq(Message)
      BY <2>1, <2>2 DEF TypeOK
    <2>4. Len(log[p]) \in Nat /\ Len(log'[p]) \in Nat
      BY <2>3, LenProperties
    <2> QED BY <2>1, <2>2, <2>4 DEF TypeOK
  <1>2. \A v : In(log[p], v) => In(log'[p], v)
    <2>1. LogKept
      BY LogNext DEF MQInv
    <2> QED BY <1>1, <2>1 DEF LogKept
  <1>3. /\ wstate[w] \in {"idle", "local"} => appends[w] = 0
        /\ wstate[w] = "ok" => appends[w] > 0
        /\ appends[w] > 0 => In(log[p], version[w])
    BY DEF MQInv, AppendsLogged
  <1> HIDE DEF p, In
  <1> SUFFICES /\ wstate'[w] \in {"idle", "local"} => appends'[w] = 0
               /\ wstate'[w] = "ok" => appends'[w] > 0
               /\ appends'[w] > 0 => In(log'[p], version'[w])
    BY DEF p, In
  <1>4. CASE Kept
    BY <1>2, <1>3, <1>4
  <1> HIDE DEF Kept
  <1>5. ASSUME NEW u \in Writes, u # w,
               \/ \E ts \in Timestamps : put_key(u, ts)
               \/ Append_(u) \/ Confirmed(u) \/ NotConfirmed(u)
               \/ \E f \in Followers, ts \in Timestamps : put_key_follower(u, f, ts)
        PROVE  Kept
    BY <1>1, <1>5 DEF TypeOK, put_key, Append_, Confirmed, NotConfirmed, put_key_follower, Kept
  <1>6. ASSUME NEW ts \in Timestamps, put_key(w, ts)
        PROVE  wstate'[w] = "sending" /\ appends'[w] = 0
    BY <1>1, <1>3, <1>6 DEF TypeOK, put_key
  <1>7. CASE Append_(w)
    <2>1. wstate'[w] = wstate[w] /\ wstate[w] \notin {"idle", "local", "ok"} /\ version'[w] = version[w]
      BY <1>1, <1>7 DEF Append_, TypeOK
    <2>2. version[w] \in Message /\ log' = [log EXCEPT ![p] = Append(@, version[w])]
      BY <1>7 DEF MQInv, Append_, WritesStamped, Message, p
    <2>3. In(log'[p], version'[w])
      BY <1>1, <2>1, <2>2, AppendFacts DEF In
    <2> QED BY <2>1, <2>3
  <1>8. CASE Confirmed(w)
    <2>1. wstate'[w] = "ok" /\ appends[w] > 0 /\ appends' = appends /\ version' = version
      BY <1>1, <1>8 DEF Confirmed, TypeOK
    <2> QED BY <1>2, <1>3, <2>1
  <1>9. CASE NotConfirmed(w)
    <2>1. wstate'[w] = "unavailable" /\ appends' = appends /\ version' = version
      BY <1>1, <1>9 DEF NotConfirmed, TypeOK
    <2> QED BY <1>2, <1>3, <2>1
  <1>10. ASSUME NEW f \in Followers, NEW ts \in Timestamps, put_key_follower(w, f, ts)
         PROVE  wstate'[w] = "local" /\ appends'[w] = 0
    BY <1>1, <1>3, <1>10 DEF TypeOK, put_key_follower
  <1>11. ASSUME NEW q \in Partitions, ForeignMessage(q) PROVE Kept
    BY <1>11 DEF ForeignMessage, producerVars, Kept
  <1>12. ASSUME NEW f \in Followers, FollowerStep(f) PROVE Kept
    BY <1>12, FollowerKeepsProducer DEF producerVars, Kept
  <1>13. CASE UNCHANGED vars
    BY <1>4, <1>13 DEF vars, producerVars, Kept
  <1>14. CASE wstate'[w] \in {"sending", "local"} /\ appends'[w] = 0
    BY <1>14
  <1> QED BY <1>4, <1>5, <1>6, <1>7, <1>8, <1>9, <1>10, <1>11, <1>12, <1>13, <1>14 DEF Next

\* Every step keeps a follower's offsets in step.
LEMMA OffsetsNext == MQInv /\ [Next]_vars => OffsetsInStep'
  <1> SUFFICES ASSUME MQInv, [Next]_vars PROVE OffsetsInStep'
    OBVIOUS
  <1> DEFINE Sync(f) ==
               /\ process[f] # "consuming" => inflight[f] = NoMessage
               /\ \A p \in Partitions :
                    /\ base[f][p] <= committed[f][p]
                    /\ committed[f][p] <= position[f][p]
                    /\ position[f][p] <= committed[f][p] + 1
                    /\ position[f][p] <= Len(log[p])
                    /\ process[f] = "consuming" =>
                         IF inflight[f] # NoMessage /\ inflight[f][1] = p
                         THEN inflight[f][2] = committed[f][p] /\ position[f][p] = committed[f][p] + 1
                         ELSE position[f][p] = committed[f][p]
             Same(f) == /\ process'[f] = process[f] /\ inflight'[f] = inflight[f]
                        /\ base'[f] = base[f] /\ committed'[f] = committed[f] /\ position'[f] = position[f]
  <1>1. TypeOK /\ OffsetsInStep /\ \A f \in Followers : Sync(f)
    BY DEF MQInv, OffsetsInStep
  <1>2. ASSUME NEW f \in Followers, NEW p \in Partitions
        PROVE  /\ committed[f][p] \in Nat /\ position[f][p] \in Nat /\ base[f][p] \in Nat
               /\ Len(log[p]) \in Nat /\ Len(log'[p]) \in Nat /\ Len(log[p]) <= Len(log'[p])
    <2>1. TypeOK' /\ LogKept
      BY TypeNext, LogNext DEF MQInv
    <2>2. log[p] \in Seq(Message) /\ log'[p] \in Seq(Message)
      BY <1>1, <2>1 DEF TypeOK
    <2>3. Len(log[p]) \in Nat /\ Len(log'[p]) \in Nat
      BY <2>2, LenProperties
    <2>4. committed[f] \in [Partitions -> Nat] /\ position[f] \in [Partitions -> Nat] /\ base[f] \in [Partitions -> Nat]
      BY <1>1 DEF TypeOK, Offsets
    <2> QED BY <2>1, <2>3, <2>4 DEF LogKept
  <1>3. ASSUME NEW f \in Followers, Same(f) PROVE Sync(f)'
    BY <1>1, <1>2, <1>3
  <1>4. ASSUME NEW f \in Followers, on_startup(f), NEW g \in Followers PROVE Sync(g)'
    <2>1. UNCHANGED <<committed, position, base, inflight>>
      BY <1>4 DEF on_startup, kafkaVars
    <2>2. CASE g # f
      BY <1>1, <1>3, <1>4, <2>1, <2>2 DEF on_startup, TypeOK
    <2>3. CASE g = f
      <3>1. process[f] = "down" /\ process'[f] = "joining"
        BY <1>1, <1>4 DEF on_startup, TypeOK
      <3> QED BY <1>1, <1>2, <2>1, <2>3, <3>1
    <2> QED BY <2>2, <2>3
  <1>5. ASSUME NEW f \in Followers, Assigned(f), NEW g \in Followers PROVE Sync(g)'
    <2>1. UNCHANGED <<committed, inflight>>
      BY <1>5 DEF Assigned, kafkaVars
    <2>2. CASE g # f
      BY <1>1, <1>3, <1>5, <2>1, <2>2 DEF Assigned, TypeOK
    <2>3. CASE g = f
      <3>1. /\ process[f] = "joining" /\ process'[f] = "consuming"
            /\ position'[f] = committed[f] /\ base'[f] = committed[f]
        BY <1>1, <1>5 DEF Assigned, TypeOK
      <3>2. inflight[f] = NoMessage
        BY <1>1, <3>1
      <3> QED BY <1>1, <1>2, <2>1, <2>3, <3>1, <3>2
    <2> QED BY <2>2, <2>3
  <1>6. ASSUME NEW f \in Followers, NEW p \in Partitions, apply_message(f, p), NEW g \in Followers PROVE Sync(g)'
    <2>1. UNCHANGED <<log, committed, process, base>>
      BY <1>6 DEF apply_message, kafkaVars
    <2>2. CASE g # f
      BY <1>1, <1>3, <1>6, <2>1, <2>2 DEF apply_message, TypeOK
    <2>3. CASE g = f
      <3>1. /\ process[f] = "consuming" /\ inflight[f] = NoMessage /\ position[f][p] < Len(log[p])
            /\ inflight'[f] = <<p, position[f][p]>>
        BY <1>1, <1>6 DEF apply_message, TypeOK
      <3>2. position'[f][p] = position[f][p] + 1 /\ \A q \in Partitions : q # p => position'[f][q] = position[f][q]
        BY <1>1, <1>6 DEF apply_message, TypeOK, Offsets
      <3>3. inflight'[f] # NoMessage /\ inflight'[f][1] = p /\ inflight'[f][2] = position[f][p]
        BY <1>2, <3>1, MarkersAssumption
      <3> QED BY <1>1, <1>2, <2>1, <2>3, <3>1, <3>2, <3>3
    <2> QED BY <2>2, <2>3
  <1>7. ASSUME NEW f \in Followers, commit(f), NEW g \in Followers PROVE Sync(g)'
    <2>1. UNCHANGED <<log, position, process, base>>
      BY <1>7 DEF commit
    <2>2. /\ \A q \in Partitions : committed'[f][q] = position[f][q]
          /\ \A h \in Followers : h # f => committed'[h] = committed[h]
      BY <1>1, <1>7, CommitFacts DEF commit
    <2>3. inflight'[f] = NoMessage /\ \A h \in Followers : h # f => inflight'[h] = inflight[h]
      BY <1>1, <1>7 DEF commit, TypeOK
    <2>4. CASE g # f
      BY <1>3, <2>1, <2>2, <2>3, <2>4
    <2>5. CASE g = f
      BY <1>1, <1>2, <2>1, <2>2, <2>3, <2>5
    <2> QED BY <2>4, <2>5
  <1>8. ASSUME NEW f \in Followers, LoopFails(f) \/ Stop(f), NEW g \in Followers PROVE Sync(g)'
    <2>1. UNCHANGED <<log, position, base>> /\ LoopEnds(f)
      BY <1>8 DEF LoopFails, Stop
    <2>2. process'[f] # "consuming" /\ \A h \in Followers : h # f => process'[h] = process[h]
      BY <1>1, <1>8 DEF LoopFails, Stop, TypeOK
    <2>3. /\ inflight'[f] = NoMessage
          /\ \A h \in Followers : h # f => inflight'[h] = inflight[h] /\ committed'[h] = committed[h]
          /\ \A q \in Partitions : committed'[f][q] \in {committed[f][q], position[f][q]}
      BY <1>1, <2>1, LoopEndsFacts
    <2>4. CASE g # f
      BY <1>3, <2>1, <2>2, <2>3, <2>4
    <2>5. CASE g = f
      BY <1>1, <1>2, <2>1, <2>2, <2>3, <2>5
    <2> QED BY <2>4, <2>5
  <1>9. ASSUME NEW w \in Writes,
               \/ \E ts \in Timestamps : put_key(w, ts)
               \/ Append_(w) \/ Confirmed(w) \/ NotConfirmed(w)
               \/ \E f \in Followers, ts \in Timestamps : put_key_follower(w, f, ts),
               NEW g \in Followers
        PROVE  Same(g)
    BY <1>9 DEF put_key, Append_, Confirmed, NotConfirmed, put_key_follower, kafkaVars, followerVars
  <1>10. ASSUME NEW p \in Partitions, ForeignMessage(p), NEW g \in Followers PROVE Same(g)
    BY <1>10 DEF ForeignMessage, followerVars
  <1>11. ASSUME NEW f \in Followers,
                (\E k \in Keys : delete_key_follower(f, k)) \/ EndOffsets(f) \/ Committed(f) \/ LagRead(f),
                NEW g \in Followers
         PROVE  Same(g)
    <2>1. CASE \E k \in Keys : delete_key_follower(f, k)
      BY <2>1 DEF delete_key_follower, kafkaVars
    <2>2. CASE EndOffsets(f) \/ Committed(f) \/ LagRead(f)
      BY <2>2, LagReadsOnly DEF kafkaVars, followerVars
    <2> QED BY <1>11, <2>1, <2>2
  <1>12. ASSUME UNCHANGED vars, NEW g \in Followers PROVE Same(g)
    BY <1>12 DEF vars, kafkaVars, followerVars
  <1> HIDE DEF Same
  <1>13. ASSUME NEW g \in Followers PROVE Sync(g)'
    <2> HIDE DEF Sync
    <2> QED BY <1>3, <1>4, <1>5, <1>6, <1>7, <1>8, <1>9, <1>10, <1>11, <1>12 DEF Next, FollowerStep
  <1> QED BY <1>13 DEF OffsetsInStep

\* The invariant holds in every reachable state.
LEMMA MQInvariant == Spec => []MQInv
  <1>1. MQInv /\ [Next]_vars => MQInv'
    BY TypeNext, WritesNext, AppendsNext, OffsetsNext DEF MQInv
  <1> QED BY <1>1, MQInit, PTL DEF Spec

\* Type correctness, whatever clients, Kafka and processes do.
THEOREM TypeCorrect == Spec => []TypeOK
  BY MQInvariant, PTL DEF MQInv

\* consumer.commit comes after _apply_message: in no order of stops, failed
\* loops and commits that did or did not reach Kafka does a group's offset pass
\* a message that the follower has not applied.
THEOREM NothingSkipped == Spec => []CommitFollowsApply
  <1>1. MQInv => CommitFollowsApply
    BY DEF MQInv, OffsetsInStep, CommitFollowsApply
  <1> QED BY <1>1, MQInvariant, PTL

-----------------------------------------------------------------------------
(* Offsets and lag                                                         *)

CommitsAdvance == \A f \in Followers, p \in Partitions : committed[f][p] <= committed'[f][p]

\* No step takes a group's offset back.
LEMMA CommitsNext == MQInv /\ [Next]_vars => CommitsAdvance
  <1> SUFFICES ASSUME MQInv, [Next]_vars, NEW f \in Followers, NEW p \in Partitions
               PROVE  committed[f][p] <= committed'[f][p]
    BY DEF CommitsAdvance
  <1>1. TypeOK /\ OffsetsInStep
    BY DEF MQInv
  <1>2. committed[f][p] \in Nat /\ position[f][p] \in Nat /\ committed[f][p] <= position[f][p]
    <2>1. committed[f] \in [Partitions -> Nat] /\ position[f] \in [Partitions -> Nat]
      BY <1>1 DEF TypeOK, Offsets
    <2> QED BY <1>1, <2>1 DEF OffsetsInStep
  <1> SUFFICES committed'[f][p] \in {committed[f][p], position[f][p]}
    BY <1>2
  <1>3. ASSUME NEW g \in Followers, commit(g) PROVE committed'[f][p] \in {committed[f][p], position[f][p]}
    <2>1. /\ \A q \in Partitions : committed'[g][q] = position[g][q]
          /\ \A h \in Followers : h # g => committed'[h] = committed[h]
      BY <1>1, <1>3, CommitFacts DEF commit
    <2> QED BY <2>1
  <1>4. ASSUME NEW g \in Followers, LoopFails(g) \/ Stop(g)
        PROVE  committed'[f][p] \in {committed[f][p], position[f][p]}
    <2>1. LoopEnds(g)
      BY <1>4 DEF LoopFails, Stop
    <2>2. /\ \A q \in Partitions : committed'[g][q] \in {committed[g][q], position[g][q]}
          /\ \A h \in Followers : h # g => committed'[h] = committed[h]
      BY <1>1, <2>1, LoopEndsFacts
    <2> QED BY <2>2
  <1>5. ASSUME NEW w \in Writes,
               \/ \E ts \in Timestamps : put_key(w, ts)
               \/ Append_(w) \/ Confirmed(w) \/ NotConfirmed(w)
               \/ \E g \in Followers, ts \in Timestamps : put_key_follower(w, g, ts)
        PROVE  committed' = committed
    BY <1>5 DEF put_key, Append_, Confirmed, NotConfirmed, put_key_follower, kafkaVars
  <1>6. ASSUME NEW q \in Partitions, ForeignMessage(q) PROVE committed' = committed
    BY <1>6 DEF ForeignMessage
  <1>7. ASSUME NEW g \in Followers,
               \/ on_startup(g) \/ Assigned(g)
               \/ \E q \in Partitions : apply_message(g, q)
               \/ \E k \in Keys : delete_key_follower(g, k)
        PROVE  committed' = committed
    BY <1>7 DEF on_startup, Assigned, apply_message, delete_key_follower, kafkaVars
  <1>8. ASSUME NEW g \in Followers, EndOffsets(g) \/ Committed(g) \/ LagRead(g) PROVE committed' = committed
    BY <1>8, LagReadsOnly DEF kafkaVars
  <1>9. CASE UNCHANGED vars
    BY <1>9 DEF vars, kafkaVars
  <1> QED BY <1>3, <1>4, <1>5, <1>6, <1>7, <1>8, <1>9 DEF Next, FollowerStep

\* A consumer group never goes back, whichever commits reached Kafka before the
\* loop ended: the restarted follower repeats at most the message it was at.
THEOREM CommitsNeverGoBack == Spec => [][CommitsAdvance]_vars
  <1>1. MQInv /\ [Next]_vars => [CommitsAdvance]_vars
    BY CommitsNext
  <1> QED BY <1>1, MQInvariant, PTL DEF Spec

\* The record after a committed offset has been read.
LEMMA QueryUpdate ==
    ASSUME NEW l \in Query, NEW per \in Seq(Int), NEW stage \in {"asking", "answered"}
    PROVE  [[l EXCEPT !.per = per] EXCEPT !.stage = stage] =
              [stage |-> stage, end |-> l.end, first |-> l.first, per |-> per]
  <1>1. l = [stage |-> l.stage, end |-> l.end, first |-> l.first, per |-> l.per]
    BY DEF Query
  <1>2. PICK m : m = [l EXCEPT !.per = per]
    OBVIOUS
  <1>3. m = [stage |-> l.stage, end |-> l.end, first |-> l.first, per |-> per]
    BY <1>1, <1>2
  <1>4. [m EXCEPT !.stage = stage] = [stage |-> stage, end |-> l.end, first |-> l.first, per |-> per]
    BY <1>3
  <1> QED BY <1>2, <1>4, Zenon

\* A lag query reads offsets that only advance.
LEMMA LagNext == MQInv /\ LagInv /\ [Next]_vars => LagInv'
  <1> SUFFICES ASSUME MQInv, LagInv, [Next]_vars PROVE LagInv'
    OBVIOUS
  <1> DEFINE Below(l, c) ==
               /\ l.stage = "asking" => Len(l.per) < Cardinality(Partitions)
               /\ Len(l.per) <= Cardinality(Partitions)
               /\ \A p \in Partitions : l.first[p] <= c[p]
               /\ \A i \in 1 .. Len(l.per) : l.per[i] <= l.end[PartitionOrder[i]] - l.first[PartitionOrder[i]]
  <1>1. TypeOK /\ TypeOK' /\ CommitsAdvance /\ LagInv
    BY TypeNext, CommitsNext DEF MQInv
  <1>2. Cardinality(Partitions) \in Nat /\ 0 < Cardinality(Partitions)
    <2>1. Cardinality(Partitions) \in Nat /\ Cardinality(Partitions) # 0
      BY OrderAssumption, FS_CardinalityType, FS_EmptySet
    <2> QED BY <2>1
  <1>3. ASSUME NEW f \in Followers, lag[f] # NoQuery PROVE lag[f] \in Query /\ Below(lag[f], committed[f])
    BY <1>1, <1>3 DEF LagInv
  <1>4. ASSUME NEW f \in Followers
        PROVE  committed[f] \in [Partitions -> Nat] /\ committed'[f] \in [Partitions -> Nat]
    BY <1>1 DEF TypeOK, Offsets
  <1>5. ASSUME NEW f \in Followers, NEW l \in Query, Below(l, committed[f]) PROVE Below(l, committed'[f])
    <2>1. l.first \in [Partitions -> Nat]
      BY DEF Query, Offsets
    <2> QED BY <1>1, <1>4, <1>5, <2>1 DEF CommitsAdvance
  <1> HIDE DEF Below
  <1>6. ASSUME lag' \in [Followers -> Query \cup {NoQuery}],
               \A f \in Followers : lag'[f] = NoQuery \/ lag'[f] = lag[f] \/ Below(lag'[f], committed'[f])
        PROVE  LagInv'
    <2>1. ASSUME NEW f \in Followers, lag'[f] # NoQuery PROVE Below(lag'[f], committed'[f])
      BY <1>3, <1>5, <1>6, <2>1
    <2> QED BY <1>6, <2>1 DEF LagInv, Below
  <1>7. CASE UNCHANGED lag
    BY <1>1, <1>6, <1>7 DEF LagInv
  <1>8. ASSUME NEW f \in Followers, EndOffsets(f) PROVE LagInv'
    <2> DEFINE q == [stage |-> IF process[f] = "joining" THEN "answered" ELSE "asking",
                     end   |-> [p \in Partitions |-> Len(log[p])],
                     first |-> committed[f],
                     per   |-> <<>>]
    <2>1. [p \in Partitions |-> Len(log[p])] \in Offsets
      BY <1>1, LogFacts DEF Offsets
    <2>2. <<>> \in Seq(Int) /\ Len(<<>>) = 0
      BY EmptySeq
    <2>3. q \in Query
      BY <1>4, <2>1, <2>2 DEF Query, Offsets
    <2>4. Below(q, committed[f])
      BY <1>2, <1>4, <2>2 DEF Below
    <2>5. lag' = [lag EXCEPT ![f] = q]
      BY <1>8 DEF EndOffsets
    <2> HIDE DEF q
    <2> QED BY <1>1, <1>5, <1>6, <2>3, <2>4, <2>5 DEF LagInv
  <1>9. ASSUME NEW f \in Followers, Committed(f) PROVE LagInv'
    <2> DEFINE l == lag[f]
               p == PartitionOrder[Len(l.per) + 1]
               x == l.end[p] - committed[f][p]
               per == Append(l.per, x)
               stage == IF Len(per) = Cardinality(Partitions) THEN "answered" ELSE "asking"
               q == [stage |-> stage, end |-> l.end, first |-> l.first, per |-> per]
    <2>1. l.stage = "asking"
      BY <1>9 DEF Committed
    <2>2. l \in Query /\ Below(l, committed[f])
      BY <1>3, <2>1 DEF NoQuery
    <2>3. /\ l.end \in [Partitions -> Nat] /\ l.first \in [Partitions -> Nat] /\ l.per \in Seq(Int)
          /\ l = [stage |-> l.stage, end |-> l.end, first |-> l.first, per |-> l.per]
      BY <2>2 DEF Query, Offsets
    <2>4. Len(l.per) \in Nat /\ Len(l.per) < Cardinality(Partitions)
      BY <2>1, <2>2, <2>3, LenProperties DEF Below
    <2>5. p \in Partitions /\ x \in Int
      <3>1. Len(l.per) + 1 \in 1 .. Cardinality(Partitions)
        BY <1>2, <2>4
      <3>2. p \in Partitions
        BY <3>1, OrderAssumption
      <3> QED BY <1>4, <2>3, <3>2
    <2>6. /\ per \in Seq(Int) /\ Len(per) = Len(l.per) + 1
          /\ \A i \in 1 .. Len(l.per) : per[i] = l.per[i]
          /\ per[Len(l.per) + 1] = x
      BY <2>3, <2>5, AppendProperties
    <2>7. x <= l.end[p] - l.first[p]
      BY <1>4, <2>2, <2>3, <2>5 DEF Below
    <2>8. lag' = [lag EXCEPT ![f] = q]
      <3>1. [[l EXCEPT !.per = per] EXCEPT !.stage = stage] = q
        <4>1. stage \in {"asking", "answered"}
          OBVIOUS
        <4> HIDE DEF l, per, stage
        <4> QED BY <2>2, <2>6, <4>1, QueryUpdate DEF q
      <3>2. lag \in [Followers -> Query \cup {NoQuery}]
        BY <1>1 DEF LagInv
      <3>3. lag' = [lag EXCEPT ![f] = [[lag[f] EXCEPT !.per = per] EXCEPT !.stage = stage]]
        BY <1>9, <3>2, Zenon DEF Committed
      <3> QED BY <3>1, <3>3
    <2>9. q \in Query
      BY <2>3, <2>6 DEF Query, Offsets
    <2>10. Below(q, committed[f])
      <3> HIDE DEF per, x, l
      <3>1. \A i \in 1 .. Len(per) : per[i] <= l.end[PartitionOrder[i]] - l.first[PartitionOrder[i]]
        <4> SUFFICES ASSUME NEW i \in 1 .. Len(per)
                     PROVE  per[i] <= l.end[PartitionOrder[i]] - l.first[PartitionOrder[i]]
          OBVIOUS
        <4>1. CASE i \in 1 .. Len(l.per)
          BY <2>2, <2>6, <4>1 DEF Below
        <4>2. CASE i = Len(l.per) + 1
          BY <2>6, <2>7, <4>2
        <4> QED BY <2>4, <2>6, <4>1, <4>2
      <3>2. \A r \in Partitions : l.first[r] <= committed[f][r]
        BY <2>2 DEF Below
      <3>3. Len(per) <= Cardinality(Partitions) /\ (stage = "asking" => Len(per) < Cardinality(Partitions))
        BY <1>2, <2>4, <2>6
      <3> QED BY <3>1, <3>2, <3>3 DEF Below
    <2> HIDE DEF q
    <2> QED BY <1>1, <1>5, <1>6, <2>8, <2>9, <2>10 DEF LagInv
  <1>10. ASSUME NEW f \in Followers, LagRead(f) \/ Stop(f) PROVE LagInv'
    <2>1. lag' = [lag EXCEPT ![f] = NoQuery]
      BY <1>10 DEF LagRead, Stop
    <2> QED BY <1>1, <1>6, <2>1 DEF LagInv
  <1>11. ASSUME NEW w \in Writes,
                \/ \E ts \in Timestamps : put_key(w, ts)
                \/ Append_(w) \/ Confirmed(w) \/ NotConfirmed(w)
                \/ \E f \in Followers, ts \in Timestamps : put_key_follower(w, f, ts)
         PROVE  UNCHANGED lag
    BY <1>11 DEF put_key, Append_, Confirmed, NotConfirmed, put_key_follower
  <1>12. ASSUME NEW p \in Partitions, ForeignMessage(p) PROVE UNCHANGED lag
    BY <1>12 DEF ForeignMessage
  <1>13. ASSUME NEW f \in Followers,
                \/ on_startup(f) \/ Assigned(f) \/ commit(f) \/ LoopFails(f)
                \/ \E p \in Partitions : apply_message(f, p)
                \/ \E k \in Keys : delete_key_follower(f, k)
         PROVE  UNCHANGED lag
    BY <1>13 DEF on_startup, Assigned, commit, LoopFails, apply_message, delete_key_follower
  <1>14. CASE UNCHANGED vars
    BY <1>7, <1>14 DEF vars
  <1> QED BY <1>7, <1>8, <1>9, <1>10, <1>11, <1>12, <1>13, <1>14 DEF Next, FollowerStep

\* get_lag takes the log's ends first and the committed offsets one by one
\* later, while the loop commits and processes restart: the answer may be too
\* small, never more than the follower was missing when the query began.
THEOREM LagIsNoOverestimate == Spec => []LagNeverOverstates
  <1>1. Init => LagInv
    BY DEF Init, LagInv
  <1>2. LagInv => LagNeverOverstates
    <2> SUFFICES ASSUME LagInv, NEW f \in Followers, lag[f].stage = "answered",
                        NEW i \in 1 .. Len(lag[f].per)
                 PROVE  lag[f].per[i] <= lag[f].end[PartitionOrder[i]] - lag[f].first[PartitionOrder[i]]
      BY DEF LagNeverOverstates
    <2>1. lag[f] # NoQuery
      BY DEF NoQuery
    <2> QED BY <2>1 DEF LagInv
  <1> QED BY <1>1, <1>2, LagNext, MQInvariant, PTL DEF Spec

-----------------------------------------------------------------------------
(* What a follower's store says about the log                              *)

\* A partition gets only messages of its keys.
LEMMA InPlaceNext == MQInv /\ LoggedInPlace /\ [Next]_vars => LoggedInPlace'
  <1> SUFFICES ASSUME MQInv, LoggedInPlace, [Next]_vars PROVE LoggedInPlace'
    OBVIOUS
  <1>1. TypeOK /\ WritesStamped
    BY DEF MQInv
  <1>2. ASSUME NEW p \in Partitions, NEW m \in Message, log' = [log EXCEPT ![p] = Append(@, m)],
               m # Bad => KeyOf[m.value] \in KeysIn(p)
        PROVE  LoggedInPlace'
    <2>1. /\ LogKept
          /\ log'[p][Len(log[p]) + 1] = m
          /\ \A q \in Partitions : \A i \in 1 .. Len(log'[q]) :
                i \in 1 .. Len(log[q]) \/ (q = p /\ i = Len(log[p]) + 1)
      BY <1>1, <1>2, AppendFacts
    <2> SUFFICES ASSUME NEW q \in Partitions, NEW i \in 1 .. Len(log'[q]), log'[q][i] # Bad
                 PROVE  KeyOf[log'[q][i].value] \in KeysIn(q)
      BY DEF LoggedInPlace, KeysIn
    <2>2. CASE i \in 1 .. Len(log[q])
      BY <2>1, <2>2 DEF LogKept, LoggedInPlace
    <2>3. CASE q = p /\ i = Len(log[p]) + 1
      BY <1>2, <2>1, <2>3
    <2> QED BY <2>1, <2>2, <2>3
  <1>3. ASSUME NEW w \in Writes, Append_(w) PROVE LoggedInPlace'
    <2>1. version[w] \in Message /\ version[w].value = w /\ PartitionFor(w) \in Partitions
      BY <1>1, <1>3, TopicAssumption DEF Append_, WritesStamped, Message, PartitionFor
    <2>2. KeyOf[w] \in KeysIn(PartitionFor(w))
      BY TopicAssumption DEF KeysIn, PartitionFor
    <2> QED BY <1>2, <1>3, <2>1, <2>2 DEF Append_
  <1>4. ASSUME NEW p \in Partitions, ForeignMessage(p) PROVE LoggedInPlace'
    BY <1>2, <1>4 DEF ForeignMessage, Message
  <1>5. CASE UNCHANGED log
    BY <1>5 DEF LoggedInPlace, KeysIn
  <1>6. ASSUME NEW w \in Writes,
               \/ \E ts \in Timestamps : put_key(w, ts)
               \/ Confirmed(w) \/ NotConfirmed(w)
               \/ \E f \in Followers, ts \in Timestamps : put_key_follower(w, f, ts)
        PROVE  UNCHANGED log
    BY <1>6 DEF put_key, Confirmed, NotConfirmed, put_key_follower, kafkaVars
  <1>7. ASSUME NEW f \in Followers, FollowerStep(f) PROVE UNCHANGED log
    BY <1>7, FollowerKeepsProducer
  <1>8. CASE UNCHANGED vars
    BY <1>5, <1>8 DEF vars, kafkaVars
  <1> QED BY <1>3, <1>4, <1>5, <1>6, <1>7, <1>8 DEF Next

\* Without clients that write to followers, a follower's store changes when its
\* process starts and when a message is applied.
LEMMA StoreSteps ==
    ASSUME ~DirectWrites, [Next]_vars
    PROVE  \/ UNCHANGED <<process, store, base, position>>
           \/ \E f \in Followers : on_startup(f) \/ Assigned(f) \/ \E p \in Partitions : apply_message(f, p)
           \/ \E f \in Followers : LoopFails(f) \/ Stop(f)
  <1>1. ASSUME NEW w \in Writes,
               \/ \E ts \in Timestamps : put_key(w, ts)
               \/ Append_(w) \/ Confirmed(w) \/ NotConfirmed(w)
               \/ \E f \in Followers, ts \in Timestamps : put_key_follower(w, f, ts)
        PROVE  UNCHANGED <<process, store, base, position>>
    BY <1>1 DEF put_key, Append_, Confirmed, NotConfirmed, put_key_follower, followerVars
  <1>2. ASSUME NEW p \in Partitions, ForeignMessage(p) PROVE UNCHANGED <<process, store, base, position>>
    BY <1>2 DEF ForeignMessage, followerVars
  <1>3. ASSUME NEW f \in Followers, EndOffsets(f) \/ Committed(f) \/ LagRead(f)
        PROVE  UNCHANGED <<process, store, base, position>>
    BY <1>3, LagReadsOnly DEF followerVars
  <1>4. ASSUME NEW f \in Followers, commit(f) \/ \E k \in Keys : delete_key_follower(f, k)
        PROVE  UNCHANGED <<process, store, base, position>>
    BY <1>4 DEF commit, delete_key_follower
  <1>5. CASE UNCHANGED vars
    BY <1>5 DEF vars, followerVars
  <1> QED BY <1>1, <1>2, <1>3, <1>4, <1>5 DEF Next, FollowerStep

\* e is the first of the newest versions of L at places of S from a + 1 to b.
FirstNewest(L, S, a, b, e) ==
    \E i \in a + 1 .. b :
        /\ i \in S /\ e = L[i]
        /\ \A j \in a + 1 .. b : j \in S =>
             ~is_newer_than(L[j], L[i]) /\ (j < i => is_newer_than(L[i], L[j]))
NoneOf(S, a, b) == \A i \in a + 1 .. b : i \notin S

\* The entry after one more message of the key: the first of the newest again.
LEMMA WinnerStep ==
    ASSUME NEW a \in Nat, NEW b \in Nat, a <= b, NEW e, NEW L, NEW S,
           \A i \in S : Stamped(L[i]),
           (e = NoEntry /\ NoneOf(S, a, b)) \/ FirstNewest(L, S, a, b, e),
           b + 1 \in S
    PROVE  FirstNewest(L, S, a, b + 1, Put(e, L[b + 1]))
  <1> USE DEF FirstNewest, NoneOf
  <1>1. b + 1 \in a + 1 .. b + 1 /\ \A j \in a + 1 .. b + 1 : j \in a + 1 .. b \/ j = b + 1
    OBVIOUS
  <1>2. (a + 1 .. b) \subseteq (a + 1 .. b + 1)
    OBVIOUS
  <1>3. Stamped(L[b + 1]) /\ ~is_newer_than(L[b + 1], L[b + 1])
    BY <1>1 DEF Stamped, is_newer_than
  <1>4. CASE e = NoEntry /\ NoneOf(S, a, b)
    <2>1. Put(e, L[b + 1]) = L[b + 1]
      BY <1>4 DEF Put, Applies
    <2>2. \A j \in a + 1 .. b + 1 : j \in S => j = b + 1
      BY <1>1, <1>4
    <2>3. ~(b + 1 < b + 1)
      OBVIOUS
    <2> QED BY <1>1, <1>3, <2>1, <2>2, <2>3
  <1>5. ASSUME NEW i \in a + 1 .. b, i \in S, e = L[i],
               \A j \in a + 1 .. b : j \in S =>
                     ~is_newer_than(L[j], L[i]) /\ (j < i => is_newer_than(L[i], L[j]))
        PROVE  FirstNewest(L, S, a, b + 1, Put(e, L[b + 1]))
    <2>1. Stamped(L[i]) /\ i \in a + 1 .. b + 1 /\ i < b + 1
      BY <1>2, <1>5
    <2>2. CASE is_newer_than(L[b + 1], L[i])
      <3>1. Put(e, L[b + 1]) = L[b + 1]
        BY <1>5, <2>2 DEF Put, Applies
      <3>2. ASSUME NEW j \in a + 1 .. b, j \in S
            PROVE  ~is_newer_than(L[j], L[b + 1]) /\ is_newer_than(L[b + 1], L[j])
        <4>1. Stamped(L[j]) /\ ~is_newer_than(L[j], L[i])
          BY <1>2, <1>5, <3>2
        <4> QED BY <1>3, <2>1, <2>2, <4>1 DEF Stamped, is_newer_than
      <3>3. ~(b + 1 < b + 1)
        OBVIOUS
      <3> QED BY <1>1, <1>3, <3>1, <3>2, <3>3
    <2>3. CASE ~is_newer_than(L[b + 1], L[i])
      <3>1. Put(e, L[b + 1]) = L[i]
        BY <1>5, <2>1, <2>3 DEF Put, Applies, Stamped
      <3>2. ~(b + 1 < i)
        BY <2>1
      <3> QED BY <1>1, <1>5, <2>1, <2>3, <3>1, <3>2
    <2> QED BY <2>2, <2>3
  <1> QED BY <1>4, <1>5

\* Every step keeps the store the winner of what was consumed.
LEMMA StoreNext ==
    ASSUME ~DirectWrites PROVE MQInv /\ StoreInv /\ [Next]_vars => StoreInv'
  <1> SUFFICES ASSUME MQInv, StoreInv, [Next]_vars PROVE StoreInv'
    OBVIOUS
  <1> DEFINE Key(l, k, i) == l[i] # Bad /\ KeyOf[l[i].value] = k
             Best(l, k, a, b, e) ==
               \/ e = NoEntry /\ \A i \in a + 1 .. b : ~Key(l, k, i)
               \/ \E i \in a + 1 .. b :
                    /\ Key(l, k, i) /\ e = l[i]
                    /\ \A j \in a + 1 .. b : Key(l, k, j) =>
                         ~is_newer_than(l[j], l[i]) /\ (j < i => is_newer_than(l[i], l[j]))
             Live == {"consuming", "dead"}
  <1>1. TypeOK /\ TypeOK' /\ OffsetsInStep /\ LogKept /\ FreshStore /\ LoggedInPlace
    BY TypeNext, LogNext DEF MQInv, StoreInv
  <1>2. ASSUME NEW f \in Followers, NEW p \in Partitions
        PROVE  /\ base[f][p] \in Nat /\ position[f][p] \in Nat /\ Len(log[p]) \in Nat
               /\ position[f][p] <= Len(log[p]) /\ base[f][p] <= position[f][p]
    <2>1. base[f] \in [Partitions -> Nat] /\ position[f] \in [Partitions -> Nat] /\ committed[f] \in [Partitions -> Nat]
      BY <1>1 DEF TypeOK, Offsets
    <2> QED BY <1>1, <2>1, LogFacts DEF OffsetsInStep
  <1>3. ASSUME NEW f \in Followers, NEW p \in Partitions, NEW k \in KeysIn(p), process[f] \in Live
        PROVE  Best(log[p], k, base[f][p], position[f][p], store[f][k])
    <2>1. \/ store[f][k] = NoEntry /\ \A i \in Span(f, p) : ~OfKey(p, k, i)
          \/ \E i \in Span(f, p) : Wins(f, p, k, i) /\ store[f][k] = log[p][i]
      BY <1>3 DEF StoreInv, StoreIsLogWinner
    <2> QED BY <2>1 DEF Span, OfKey, Wins
  <1>4. ASSUME NEW f \in Followers, NEW p \in Partitions, NEW k \in KeysIn(p), NEW e,
               Best(log[p], k, base[f][p], position[f][p], e)
        PROVE  Best(log'[p], k, base[f][p], position[f][p], e)
    <2>1. \A i \in base[f][p] + 1 .. position[f][p] : log'[p][i] = log[p][i]
      BY <1>1, <1>2 DEF LogKept
    <2> QED BY <1>4, <2>1
  <1> HIDE DEF Best
  <1>5. ASSUME \A f \in Followers, p \in Partitions : \A k \in KeysIn(p) :
                  process'[f] \in Live => Best(log'[p], k, base'[f][p], position'[f][p], store'[f][k]),
               FreshStore'
        PROVE  StoreInv'
    <2>1. LoggedInPlace'
      BY <1>1, InPlaceNext DEF MQInv
    <2>2. StoreIsLogWinner'
      <3> SUFFICES ASSUME NEW f \in Followers, NEW p \in Partitions, NEW k \in KeysIn(p), process'[f] \in Live
                   PROVE  \/ store'[f][k] = NoEntry /\ \A i \in Span(f, p)' : ~OfKey(p, k, i)'
                          \/ \E i \in Span(f, p)' : Wins(f, p, k, i)' /\ store'[f][k] = log'[p][i]
        BY DEF StoreIsLogWinner, KeysIn
      <3>1. Best(log'[p], k, base'[f][p], position'[f][p], store'[f][k])
        BY <1>5
      <3> QED BY <3>1 DEF Best, Span, OfKey, Wins
    <2> QED BY <1>5, <2>1, <2>2 DEF StoreInv
  <1>6. CASE UNCHANGED <<process, store, base, position>>
    <2>1. FreshStore'
      BY <1>1, <1>6 DEF FreshStore
    <2> QED BY <1>3, <1>4, <1>5, <1>6, <2>1
  <1>7. ASSUME NEW f \in Followers, LoopFails(f) \/ Stop(f) PROVE StoreInv'
    <2>1. UNCHANGED <<store, base, position>>
      BY <1>7 DEF LoopFails, Stop
    <2>2. /\ \A g \in Followers : g # f => process'[g] = process[g]
          /\ process'[f] = "down" \/ (process[f] = "consuming" /\ process'[f] = "dead")
      BY <1>1, <1>7 DEF LoopFails, Stop, TypeOK
    <2>3. FreshStore'
      BY <1>1, <2>1, <2>2 DEF FreshStore
    <2>4. \A g \in Followers : process'[g] \in Live => process[g] \in Live
      BY <2>2
    <2> QED BY <1>3, <1>4, <1>5, <2>1, <2>3, <2>4
  <1>8. ASSUME NEW f \in Followers, on_startup(f) PROVE StoreInv'
    <2>1. UNCHANGED <<base, position>>
      BY <1>8 DEF on_startup
    <2>2. /\ \A g \in Followers : g # f => process'[g] = process[g] /\ store'[g] = store[g]
          /\ process'[f] = "joining" /\ \A k \in Keys : store'[f][k] = NoEntry
      BY <1>1, <1>8 DEF on_startup, TypeOK
    <2>3. FreshStore'
      BY <1>1, <2>2 DEF FreshStore
    <2>4. \A g \in Followers : process'[g] \in Live => process[g] \in Live /\ store'[g] = store[g]
      BY <2>2
    <2> QED BY <1>3, <1>4, <1>5, <2>1, <2>3, <2>4
  <1>9. ASSUME NEW f \in Followers, Assigned(f) PROVE StoreInv'
    <2>1. /\ store' = store /\ process[f] = "joining"
          /\ \A g \in Followers : g # f => process'[g] = process[g] /\ base'[g] = base[g] /\ position'[g] = position[g]
          /\ process'[f] = "consuming" /\ base'[f] = committed[f] /\ position'[f] = committed[f]
      BY <1>1, <1>9 DEF Assigned, TypeOK
    <2>2. FreshStore'
      BY <1>1, <2>1 DEF FreshStore
    <2>3. ASSUME NEW p \in Partitions, NEW k \in KeysIn(p)
          PROVE  Best(log'[p], k, base'[f][p], position'[f][p], store'[f][k])
      <3>1. committed[f][p] \in Nat
        BY <1>1 DEF TypeOK, Offsets
      <3>2. \A i \in committed[f][p] + 1 .. committed[f][p] : FALSE
        BY <3>1
      <3>3. store'[f][k] = NoEntry
        BY <1>1, <2>1 DEF FreshStore, KeysIn
      <3> QED BY <2>1, <3>2, <3>3 DEF Best
    <2> QED BY <1>3, <1>4, <1>5, <2>1, <2>2, <2>3
  <1>10. ASSUME NEW f \in Followers, NEW p \in Partitions, apply_message(f, p) PROVE StoreInv'
    <2> DEFINE b == position[f][p]
               m == log[p][b + 1]
    <2>1. /\ UNCHANGED <<log, process, base>> /\ process[f] = "consuming" /\ b < Len(log[p])
          /\ store' = [store EXCEPT ![f] = ApplyTo(@, m)]
      BY <1>10 DEF apply_message, kafkaVars
    <2>2. /\ position'[f][p] = b + 1 /\ \A q \in Partitions : q # p => position'[f][q] = position[f][q]
          /\ \A g \in Followers : g # f => position'[g] = position[g]
      BY <1>1, <1>10 DEF apply_message, TypeOK, Offsets
    <2>3. b + 1 \in 1 .. Len(log[p]) /\ m \in Message
      BY <1>1, <1>2, <2>1, LogFacts
    <2> HIDE DEF m, b
    <2>4. store'[f] = ApplyTo(store[f], m) /\ \A g \in Followers : g # f => store'[g] = store[g]
      BY <1>1, <2>1 DEF TypeOK
    <2>5. /\ m = Bad => store'[f] = store[f]
          /\ m # Bad => /\ m \in Version /\ store'[f][KeyOf[m.value]] = Put(store[f][KeyOf[m.value]], m)
                        /\ \A k \in Keys : k # KeyOf[m.value] => store'[f][k] = store[f][k]
      <3>1. store[f] \in [Keys -> Entry]
        BY <1>1 DEF TypeOK
      <3> QED BY <2>3, <2>4, <3>1, ApplyType
    <2>6. m # Bad => KeyOf[m.value] \in KeysIn(p)
      BY <1>1, <2>3 DEF LoggedInPlace, m
    <2>7. FreshStore'
      BY <1>1, <2>1, <2>4 DEF FreshStore
    <2>8. ASSUME NEW q \in Partitions, NEW k \in KeysIn(q), q # p
          PROVE  position'[f][q] = position[f][q] /\ store'[f][k] = store[f][k]
      BY <2>2, <2>5, <2>6, <2>8 DEF KeysIn
    <2>9. ASSUME NEW k \in KeysIn(p)
          PROVE  Best(log[p], k, base[f][p], b + 1, store'[f][k])
      <3> DEFINE a == base[f][p]
                 S == {i \in a + 1 .. b + 1 : Key(log[p], k, i)}
      <3>1. a \in Nat /\ b \in Nat /\ a <= b
        BY <1>2 DEF b
      <3>2. Best(log[p], k, a, b, store[f][k])
        BY <1>3, <2>1 DEF b
      <3>3. CASE m = Bad \/ KeyOf[m.value] # k
        <4>1. store'[f][k] = store[f][k]
          BY <2>5, <3>3 DEF KeysIn
        <4>2. ~Key(log[p], k, b + 1)
          BY <3>3 DEF m
        <4>3. \A i \in a + 1 .. b + 1 : i \in a + 1 .. b \/ i = b + 1
          BY <3>1
        <4>4. (a + 1 .. b) \subseteq a + 1 .. b + 1
          BY <3>1
        <4> HIDE DEF Key
        <4> QED BY <3>2, <4>1, <4>2, <4>3, <4>4 DEF Best
      <3>4. CASE m # Bad /\ KeyOf[m.value] = k
        <4>1. store'[f][k] = Put(store[f][k], log[p][b + 1])
          BY <2>5, <3>4 DEF m
        <4>2. \A i \in a + 1 .. b + 1 : i \in S <=> Key(log[p], k, i)
          OBVIOUS
        <4>3. (a + 1 .. b) \subseteq a + 1 .. b + 1 /\ b + 1 \in a + 1 .. b + 1
          BY <3>1
        <4>4. b + 1 \in S
          BY <3>4, <4>2, <4>3 DEF m
        <4>5. \A i \in S : Stamped(log[p][i])
          <5>1. ASSUME NEW i \in S PROVE i \in 1 .. Len(log[p])
            BY <1>2, <2>3, <3>1
          <5>2. ASSUME NEW i \in S PROVE log[p][i] \in Version
            BY <1>1, <5>1, <5>2, LogFacts DEF Message
          <5> QED BY <5>2, EntriesStamped
        <4> HIDE DEF S, Key, a
        <4>6. (store[f][k] = NoEntry /\ NoneOf(S, a, b)) \/ FirstNewest(log[p], S, a, b, store[f][k])
          BY <3>2, <4>2, <4>3 DEF Best, NoneOf, FirstNewest
        <4>7. FirstNewest(log[p], S, a, b + 1, Put(store[f][k], log[p][b + 1]))
          BY <3>1, <4>4, <4>5, <4>6, WinnerStep
        <4>8. Best(log[p], k, a, b + 1, store'[f][k])
          BY <4>1, <4>2, <4>7 DEF Best, FirstNewest
        <4> QED BY <4>8 DEF a
      <3> QED BY <3>3, <3>4
    <2>10. ASSUME NEW q \in Partitions, NEW k \in KeysIn(q)
           PROVE  Best(log'[q], k, base'[f][q], position'[f][q], store'[f][k])
      <3>1. CASE q = p
        BY <2>1, <2>2, <2>9, <3>1
      <3>2. CASE q # p
        BY <1>3, <2>1, <2>8, <3>2
      <3> QED BY <3>1, <3>2
    <2>11. \A g \in Followers : g # f => process'[g] = process[g] /\ base'[g] = base[g]
      BY <2>1
    <2> QED BY <1>3, <1>4, <1>5, <2>2, <2>4, <2>7, <2>10, <2>11
  <1> QED BY <1>6, <1>7, <1>8, <1>9, <1>10, StoreSteps

\* The invariants hold in every reachable state.
LEMMA StoreInvariant ==
    ASSUME ~DirectWrites PROVE Spec => [](MQInv /\ StoreInv)
  <1>1. Init => StoreInv
    <2> SUFFICES ASSUME Init PROVE StoreInv
      OBVIOUS
    <2>1. \A p \in Partitions : Len(log[p]) = 0
      BY EmptySeq DEF Init
    <2> QED BY <2>1 DEF Init, StoreInv, LoggedInPlace, FreshStore, StoreIsLogWinner
  <1>2. MQInv /\ StoreInv /\ [Next]_vars => StoreInv'
    BY StoreNext
  <1> QED BY <1>1, <1>2, MQInvariant, PTL DEF Spec

\* What a follower holds is decided by the part of the log it consumed alone:
\* the first of the key's newest messages in it, whatever was repeated,
\* malformed, tied or stamped in another order than appended.
THEOREM StoreIsWinnerOfLog ==
    ASSUME ~DirectWrites PROVE Spec => []StoreIsLogWinner
  <1>1. StoreInv => StoreIsLogWinner
    BY DEF StoreInv
  <1> QED BY <1>1, StoreInvariant, PTL

\* Two followers at the same place in a partition are replicas of each other.
THEOREM FollowersAreReplicas ==
    ASSUME ~DirectWrites PROVE Spec => []SameSpanSameEntries
  <1>1. MQInv /\ StoreInv => SameSpanSameEntries
    <2> SUFFICES ASSUME MQInv, StoreInv, NEW f \in Followers, NEW g \in Followers, NEW p \in Partitions,
                        process[f] \in {"consuming", "dead"}, process[g] \in {"consuming", "dead"},
                        base[f][p] = base[g][p], position[f][p] = position[g][p], NEW k \in KeysIn(p)
                 PROVE  store[f][k] = store[g][k]
      BY DEF SameSpanSameEntries
    <2>1. Span(f, p) = Span(g, p) /\ Span(f, p) \subseteq Nat
      <3>1. base[f] \in [Partitions -> Nat] /\ position[f] \in [Partitions -> Nat]
        BY DEF MQInv, TypeOK, Offsets
      <3> QED BY <3>1 DEF Span
    <2>2. ASSUME NEW h \in {f, g}
          PROVE  \/ store[h][k] = NoEntry /\ \A i \in Span(h, p) : ~OfKey(p, k, i)
                 \/ \E i \in Span(h, p) : Wins(h, p, k, i) /\ store[h][k] = log[p][i]
      BY DEF StoreInv, StoreIsLogWinner
    <2>3. ASSUME NEW i \in Span(f, p), NEW j \in Span(f, p), Wins(f, p, k, i), Wins(g, p, k, j) PROVE i = j
      <3>1. ~(j < i)
        BY <2>1, <2>3 DEF Wins
      <3>2. ~(i < j)
        BY <2>1, <2>3 DEF Wins
      <3> QED BY <2>1, <3>1, <3>2
    <2>4. \A i \in Span(f, p) : (Wins(f, p, k, i) \/ Wins(g, p, k, i)) => OfKey(p, k, i)
      BY DEF Wins
    <2> QED BY <2>1, <2>2, <2>3, <2>4
  <1> QED BY <1>1, StoreInvariant, PTL

\* A follower that consumed the whole topic holds the newest version of every
\* key: nothing acknowledged is missing at any of them.
THEOREM CaughtUpIsComplete ==
    ASSUME ~DirectWrites PROVE Spec => []CaughtUpFollowersAgree
  <1>1. MQInv /\ StoreInv => CaughtUpFollowersAgree
    <2> SUFFICES ASSUME MQInv, StoreInv, NEW f \in Followers, NEW p \in Partitions,
                        process[f] \in {"consuming", "dead"}, base[f][p] = 0, position[f][p] = Len(log[p]),
                        NEW v \in Logged(p)
                 PROVE  Holds(store[f][KeyOf[v.value]], v)
      BY DEF CaughtUpFollowersAgree
    <2>1. TypeOK /\ Len(log[p]) \in Nat /\ DOMAIN log[p] = 1 .. Len(log[p])
      BY LogFacts DEF MQInv
    <2>2. PICK n \in 1 .. Len(log[p]) : log[p][n] = v
      BY <2>1 DEF Logged, ToSet
    <2>3. v # Bad /\ KeyOf[v.value] \in KeysIn(p)
      BY <2>2 DEF Logged, StoreInv, LoggedInPlace
    <2> DEFINE k == KeyOf[v.value]
    <2>4. n \in Span(f, p) /\ OfKey(p, k, n)
      BY <2>1, <2>2, <2>3 DEF Span, OfKey
    <2>5. PICK i \in Span(f, p) : Wins(f, p, k, i) /\ store[f][k] = log[p][i]
      BY <2>3, <2>4 DEF StoreInv, StoreIsLogWinner
    <2>6. ~is_newer_than(v, store[f][k])
      BY <2>2, <2>4, <2>5 DEF Wins
    <2>7. store[f][k] # NoEntry
      <3>1. i \in 1 .. Len(log[p]) /\ log[p][i] # Bad
        BY <2>1, <2>5 DEF Span, Wins, OfKey
      <3>2. log[p][i] \in Version
        BY <2>1, <3>1, LogFacts DEF Message
      <3> QED BY <2>5, <3>2, MarkersAssumption
    <2> QED BY <2>6, <2>7 DEF Holds
  <1> QED BY <1>1, StoreInvariant, PTL

\* What put_key's 200 is worth to the readers of a follower: unless clients write
\* at followers, an acknowledged write is in the log for good and no running
\* follower has passed its message without holding it or a newer version, except
\* for the messages that an incarnation before the last restart consumed.
THEOREM AckedWritesReachFollowers ==
    ASSUME ~DirectWrites PROVE Spec => []AckedWriteNotLost
  <1>1. MQInv /\ StoreInv => AckedWriteNotLost
    <2> SUFFICES ASSUME MQInv, StoreInv, NEW w \in Writes, NEW f \in Followers,
                        wstate[w] = "ok", process[f] \in {"consuming", "dead"}
                 PROVE  \E n \in 1 .. Len(log[PartitionFor(w)]) :
                            /\ log[PartitionFor(w)][n] = version[w]
                            /\ \/ n > position[f][PartitionFor(w)]
                               \/ n <= base[f][PartitionFor(w)]
                               \/ Holds(store[f][KeyOf[w]], version[w])
      BY DEF AckedWriteNotLost
    <2> DEFINE p == PartitionFor(w)
               k == KeyOf[w]
    <2>1. p \in Partitions /\ k \in KeysIn(p)
      BY TopicAssumption DEF PartitionFor, KeysIn
    <2>2. /\ TypeOK /\ Len(log[p]) \in Nat
          /\ base[f][p] \in Nat /\ position[f][p] \in Nat /\ position[f][p] <= Len(log[p])
      BY <2>1, LogFacts DEF MQInv, TypeOK, Offsets, OffsetsInStep
    <2>3. version[w] \in Version /\ version[w].value = w /\ version[w] # Bad
      BY MarkersAssumption DEF MQInv, WritesStamped
    <2>4. PICK n \in 1 .. Len(log[p]) : log[p][n] = version[w]
      BY DEF MQInv, AppendsLogged
    <2> HIDE DEF p, k
    <2>5. ASSUME n \in Span(f, p) PROVE Holds(store[f][k], version[w])
      <3>1. OfKey(p, k, n)
        BY <2>3, <2>4 DEF OfKey, k
      <3>2. PICK i \in Span(f, p) : Wins(f, p, k, i) /\ store[f][k] = log[p][i]
        BY <2>1, <2>5, <3>1 DEF StoreInv, StoreIsLogWinner
      <3>3. ~is_newer_than(version[w], store[f][k])
        BY <2>4, <2>5, <3>1, <3>2 DEF Wins
      <3>4. i \in 1 .. Len(log[p]) /\ log[p][i] # Bad
        BY <2>2, <3>2 DEF Span, Wins, OfKey
      <3>5. log[p][i] \in Version
        BY <2>1, <2>2, <3>4, LogFacts DEF Message
      <3> QED BY <3>2, <3>3, <3>5, MarkersAssumption DEF Holds
    <2>6. n > position[f][p] \/ n <= base[f][p] \/ n \in Span(f, p)
      BY <2>2 DEF Span
    <2> QED BY <2>4, <2>5, <2>6 DEF p, k
  <1> QED BY <1>1, StoreInvariant, PTL

-----------------------------------------------------------------------------
(* A follower's store as a replay of the log                               *)

NoEntries == [k \in Keys |-> NoEntry]

\* The stores after 0, 1, 2 ... messages of L from offset a on.
Applied(L, a) ==
    LET applied[n \in Nat] == IF n = 0 THEN NoEntries ELSE ApplyTo(applied[n - 1], L[a + n])
    IN  applied

\* Each is the one before it with one message applied.
LEMMA AppliedSteps ==
    ASSUME NEW L, NEW a \in Nat
    PROVE  /\ Applied(L, a)[0] = NoEntries
           /\ \A n \in Nat : Applied(L, a)[n + 1] = ApplyTo(Applied(L, a)[n], L[a + (n + 1)])
           /\ \E W : \A n \in Nat : Applied(L, a)[n] \in [Keys -> W]
  <1>1. PICK W : W = {NoEntry} \cup {L[a + n] : n \in Nat}
    OBVIOUS
  <1>2. PICK V : V = [Keys -> W]
    OBVIOUS
  <1>3. NoEntries \in V
    BY <1>1, <1>2 DEF NoEntries
  <1>4. ASSUME NEW s \in V, NEW n \in Nat
        PROVE  ApplyTo(s, L[a + n]) \in V
    <2>1. PICK m \in W : m = L[a + n]
      BY <1>1
    <2>2. \A k \in Keys : Put(s[k], m) \in W
      BY <1>2 DEF Put
    <2>3. ApplyTo(s, m) \in V
      BY <1>2, <2>2 DEF ApplyTo
    <2> QED BY <2>1, <2>3
  <1>5. PICK F : F = [x \in Nat \X V |-> ApplyTo(x[2], L[a + (x[1] + 1)])]
    OBVIOUS
  <1>6. F \in [Nat \X V -> V] /\ \A n \in Nat, s \in V : F[<<n, s>>] = ApplyTo(s, L[a + (n + 1)])
    BY <1>4, <1>5
  <1>7. PICK g \in [Nat -> V] : g[0] = NoEntries /\ \A n \in Nat : g[n + 1] = F[<<n, g[n]>>]
    <2>1. F \in [Nat \X V -> V]
      BY <1>6
    <2>2. PICK g \in [Nat -> V] : \A n \in Nat : Unfolds(g, n, NoEntries, F)
      BY <1>3, <2>1, RecursionExists
    <2>3. g[0] = NoEntries
      BY <2>2 DEF Unfolds
    <2>4. ASSUME NEW n \in Nat PROVE g[n + 1] = F[<<n, g[n]>>]
      <3>1. Unfolds(g, n + 1, NoEntries, F) /\ n < n + 1
        BY <2>2
      <3> QED BY <3>1 DEF Unfolds
    <2> QED BY <2>3, <2>4
  <1>8. \A n \in Nat : g[n] = IF n = 0 THEN NoEntries ELSE ApplyTo(g[n - 1], L[a + n])
    <2> SUFFICES ASSUME NEW n \in Nat, n # 0 PROVE g[n] = ApplyTo(g[n - 1], L[a + n])
      BY <1>7
    <2>1. PICK m \in Nat : m + 1 = n /\ m = n - 1
      <3>1. n - 1 \in Nat /\ (n - 1) + 1 = n
        OBVIOUS
      <3> QED BY <3>1
    <2> QED BY <1>6, <1>7, <2>1
  <1>9. g = [n \in Nat |-> IF n = 0 THEN NoEntries ELSE ApplyTo(g[n - 1], L[a + n])]
    BY <1>8
  <1>10. PICK h : h = Applied(L, a)
    OBVIOUS
  <1>11. h = [n \in Nat |-> IF n = 0 THEN NoEntries ELSE ApplyTo(h[n - 1], L[a + n])]
    BY <1>9, <1>10 DEF Applied
  <1>12. h[0] = NoEntries
    BY <1>11
  <1>13. ASSUME NEW n \in Nat PROVE h[n + 1] = ApplyTo(h[n], L[a + (n + 1)])
    <2>1. n + 1 \in Nat /\ n + 1 # 0 /\ (n + 1) - 1 = n
      OBVIOUS
    <2> QED BY <1>11, <2>1
  <1>14. PICK E : E = {n \in Nat : h[n] \in V}
    OBVIOUS
  <1>15. 0 \in E
    BY <1>3, <1>12, <1>14
  <1>17. ASSUME NEW n \in Nat, n \in E PROVE n + 1 \in E
    <2>1. n + 1 \in Nat /\ h[n] \in V
      BY <1>14, <1>17
    <2>2. ApplyTo(h[n], L[a + (n + 1)]) \in V
      BY <1>4, <2>1
    <2> QED BY <1>13, <1>14, <2>1, <2>2
  <1>16. Nat \subseteq E
    BY <1>15, <1>17, AllNats
  <1> QED BY <1>2, <1>10, <1>12, <1>13, <1>14, <1>16

\* They depend on those messages alone.
LEMMA AppliedAgree ==
    ASSUME NEW L, NEW M, NEW a \in Nat, NEW n \in Nat, \A i \in a + 1 .. a + n : L[i] = M[i]
    PROVE  Applied(L, a)[n] = Applied(M, a)[n]
  <1>1. PICK g, h : g = Applied(L, a) /\ h = Applied(M, a)
    OBVIOUS
  <1>2. /\ g[0] = NoEntries /\ \A i \in Nat : g[i + 1] = ApplyTo(g[i], L[a + (i + 1)])
        /\ h[0] = NoEntries /\ \A i \in Nat : h[i + 1] = ApplyTo(h[i], M[a + (i + 1)])
    BY <1>1, AppliedSteps
  <1>3. PICK E : E = {i \in Nat : i <= n => g[i] = h[i]}
    OBVIOUS
  <1>4. 0 \in E
    BY <1>2, <1>3
  <1>5. ASSUME NEW i \in Nat, i \in E PROVE i + 1 \in E
    <2> SUFFICES ASSUME i + 1 <= n PROVE g[i + 1] = h[i + 1]
      BY <1>3
    <2>1. i <= n /\ a + (i + 1) \in a + 1 .. a + n
      OBVIOUS
    <2>2. g[i] = h[i] /\ L[a + (i + 1)] = M[a + (i + 1)]
      BY <1>3, <1>5, <2>1
    <2> QED BY <1>2, <2>2
  <1>6. Nat \subseteq E
    BY <1>4, <1>5, AllNats
  <1> QED BY <1>1, <1>3, <1>6

\* Every step keeps the store equal to the replay.
LEMMA MatchesNext ==
    ASSUME ~DirectWrites PROVE MQInv /\ StoreInv /\ StoreMatchesLog /\ [Next]_vars => StoreMatchesLog'
  <1> SUFFICES ASSUME MQInv, StoreInv, StoreMatchesLog, [Next]_vars PROVE StoreMatchesLog'
    OBVIOUS
  <1> DEFINE Live == {"consuming", "dead"}
             Says(L, k, a, b, e) == e = Applied(L, a)[b - a][k]
  <1>1. TypeOK /\ OffsetsInStep /\ LogKept /\ FreshStore /\ LoggedInPlace
    BY LogNext DEF MQInv, StoreInv
  <1>2. ASSUME NEW f \in Followers, NEW p \in Partitions
        PROVE  /\ base[f][p] \in Nat /\ position[f][p] \in Nat /\ Len(log[p]) \in Nat
               /\ position[f][p] <= Len(log[p]) /\ base[f][p] <= position[f][p]
    <2>1. base[f] \in [Partitions -> Nat] /\ position[f] \in [Partitions -> Nat] /\ committed[f] \in [Partitions -> Nat]
      BY <1>1 DEF TypeOK, Offsets
    <2> QED BY <1>1, <2>1, LogFacts DEF OffsetsInStep
  <1>3. ASSUME NEW f \in Followers, NEW p \in Partitions, NEW k \in KeysIn(p), process[f] \in Live
        PROVE  Says(log[p], k, base[f][p], position[f][p], store[f][k])
    BY <1>3 DEF StoreMatchesLog, Replay, Applied, NoEntries
  <1>4. ASSUME NEW f \in Followers, NEW p \in Partitions, NEW k \in KeysIn(p), NEW e,
               Says(log[p], k, base[f][p], position[f][p], e)
        PROVE  Says(log'[p], k, base[f][p], position[f][p], e)
    <2>1. PICK a, n : a = base[f][p] /\ n = position[f][p] - base[f][p]
      OBVIOUS
    <2>2. a \in Nat /\ n \in Nat /\ \A i \in a + 1 .. a + n : i \in 1 .. Len(log[p])
      BY <1>2, <2>1
    <2>3. \A i \in a + 1 .. a + n : log[p][i] = log'[p][i]
      BY <1>1, <2>2 DEF LogKept
    <2>4. PICK L, M : L = log[p] /\ M = log'[p]
      OBVIOUS
    <2>5. Applied(L, a)[n] = Applied(M, a)[n]
      BY <2>2, <2>3, <2>4, AppliedAgree
    <2> QED BY <1>4, <2>1, <2>4, <2>5
  <1>5. ASSUME \A f \in Followers, p \in Partitions : \A k \in KeysIn(p) :
                  process'[f] \in Live => Says(log'[p], k, base'[f][p], position'[f][p], store'[f][k])
        PROVE  StoreMatchesLog'
    BY <1>5 DEF StoreMatchesLog, Replay, Applied, NoEntries, KeysIn
  <1> HIDE DEF Says
  <1>6. CASE UNCHANGED <<process, store, base, position>>
    BY <1>3, <1>4, <1>5, <1>6
  <1>7. ASSUME NEW f \in Followers, LoopFails(f) \/ Stop(f) PROVE StoreMatchesLog'
    <2>1. UNCHANGED <<store, base, position>>
      BY <1>7 DEF LoopFails, Stop
    <2>2. \A g \in Followers : process'[g] \in Live => process[g] \in Live
      BY <1>1, <1>7 DEF LoopFails, Stop, TypeOK
    <2> QED BY <1>3, <1>4, <1>5, <2>1, <2>2
  <1>8. ASSUME NEW f \in Followers, on_startup(f) PROVE StoreMatchesLog'
    <2>1. UNCHANGED <<base, position>>
      BY <1>8 DEF on_startup
    <2>2. \A g \in Followers : process'[g] \in Live => process[g] \in Live /\ store'[g] = store[g]
      BY <1>1, <1>8 DEF on_startup, TypeOK
    <2> QED BY <1>3, <1>4, <1>5, <2>1, <2>2
  <1>9. ASSUME NEW f \in Followers, Assigned(f) PROVE StoreMatchesLog'
    <2>1. /\ store' = store /\ process[f] = "joining"
          /\ \A g \in Followers : g # f => process'[g] = process[g] /\ base'[g] = base[g] /\ position'[g] = position[g]
          /\ process'[f] = "consuming" /\ base'[f] = committed[f] /\ position'[f] = committed[f]
      BY <1>1, <1>9 DEF Assigned, TypeOK
    <2>2. ASSUME NEW p \in Partitions, NEW k \in KeysIn(p)
          PROVE  Says(log'[p], k, base'[f][p], position'[f][p], store'[f][k])
      <3>1. PICK L, a : L = log'[p] /\ a = committed[f][p]
        OBVIOUS
      <3>2. a \in Nat /\ a - a = 0
        BY <1>1, <3>1 DEF TypeOK, Offsets
      <3>3. Applied(L, a)[0] = NoEntries
        BY <3>2, AppliedSteps
      <3>4. store'[f][k] = NoEntry /\ k \in Keys
        BY <1>1, <2>1 DEF FreshStore, KeysIn
      <3> QED BY <2>1, <3>1, <3>2, <3>3, <3>4 DEF Says, NoEntries
    <2> QED BY <1>3, <1>4, <1>5, <2>1, <2>2
  <1>10. ASSUME NEW f \in Followers, NEW p \in Partitions, apply_message(f, p) PROVE StoreMatchesLog'
    <2>1. PICK b, m : b = position[f][p] /\ m = log[p][b + 1]
      OBVIOUS
    <2>2. /\ UNCHANGED <<log, process, base>> /\ process[f] = "consuming" /\ b < Len(log[p])
          /\ store' = [store EXCEPT ![f] = ApplyTo(@, m)]
      BY <1>10, <2>1 DEF apply_message, kafkaVars
    <2>3. /\ position'[f][p] = b + 1 /\ \A q \in Partitions : q # p => position'[f][q] = position[f][q]
          /\ \A g \in Followers : g # f => position'[g] = position[g]
      BY <1>1, <1>10, <2>1 DEF apply_message, TypeOK, Offsets
    <2>4. b + 1 \in 1 .. Len(log[p]) /\ m \in Message
      BY <1>1, <1>2, <2>1, <2>2, LogFacts
    <2>5. store'[f] = ApplyTo(store[f], m) /\ \A g \in Followers : g # f => store'[g] = store[g]
      BY <1>1, <2>2 DEF TypeOK
    <2>6. store[f] \in [Keys -> Entry]
      BY <1>1 DEF TypeOK
    <2>7. m # Bad => KeyOf[m.value] \in KeysIn(p)
      BY <1>1, <2>1, <2>4 DEF LoggedInPlace
    <2>8. ASSUME NEW q \in Partitions, NEW k \in KeysIn(q), q # p
          PROVE  position'[f][q] = position[f][q] /\ store'[f][k] = store[f][k]
      <3>1. /\ m = Bad => store'[f] = store[f]
            /\ m # Bad => \A j \in Keys : j # KeyOf[m.value] => store'[f][j] = store[f][j]
        BY <2>4, <2>5, <2>6, ApplyType
      <3> QED BY <2>3, <2>7, <2>8, <3>1 DEF KeysIn
    <2>9. ASSUME NEW k \in KeysIn(p)
          PROVE  Says(log[p], k, base[f][p], b + 1, store'[f][k])
      <3>1. PICK L, a, n : L = log[p] /\ a = base[f][p] /\ n = b - a
        OBVIOUS
      <3>2. a \in Nat /\ n \in Nat /\ (b + 1) - a = n + 1 /\ a + (n + 1) = b + 1
        BY <1>2, <2>1, <3>1
      <3>3. PICK s, t : s = Applied(L, a)[n] /\ t = Applied(L, a)[n + 1]
        OBVIOUS
      <3>4. t = ApplyTo(s, m) /\ \E W : s \in [Keys -> W]
        <4>1. t = ApplyTo(s, L[a + (n + 1)]) /\ \E W : s \in [Keys -> W]
          BY <3>2, <3>3, AppliedSteps
        <4>2. L[a + (n + 1)] = m
          BY <2>1, <3>1, <3>2
        <4> QED BY <4>1, <4>2
      <3>5. k \in Keys /\ store[f][k] = s[k]
        BY <1>3, <2>1, <2>2, <3>1, <3>3 DEF Says, KeysIn
      <3>6. PICK W : s \in [Keys -> W]
        BY <3>4
      <3>7. store'[f][k] = t[k]
        BY <2>5, <2>6, <3>4, <3>5, <3>6 DEF ApplyTo
      <3> QED BY <3>1, <3>2, <3>3, <3>7 DEF Says
    <2>10. ASSUME NEW q \in Partitions, NEW k \in KeysIn(q)
           PROVE  Says(log'[q], k, base'[f][q], position'[f][q], store'[f][k])
      <3>1. CASE q = p
        BY <2>2, <2>3, <2>9, <3>1
      <3>2. CASE q # p
        BY <1>3, <2>2, <2>8, <3>2
      <3> QED BY <3>1, <3>2
    <2>11. \A g \in Followers : g # f => process'[g] = process[g] /\ base'[g] = base[g]
      BY <2>2
    <2> QED BY <1>3, <1>4, <1>5, <2>3, <2>5, <2>10, <2>11
  <1> QED BY <1>6, <1>7, <1>8, <1>9, <1>10, StoreSteps

\* follower.py, _consume_loop and _apply_message: without clients that write to
\* followers, a follower's store is the replay of what it consumed, message by
\* message in log order.
THEOREM StoreIsReplayOfLog ==
    ASSUME ~DirectWrites PROVE Spec => []StoreMatchesLog
  <1>1. Init => StoreMatchesLog
    BY DEF Init, StoreMatchesLog
  <1>2. MQInv /\ StoreInv /\ StoreMatchesLog /\ [Next]_vars => StoreMatchesLog'
    BY MatchesNext
  <1> QED BY <1>1, <1>2, StoreInvariant, PTL DEF Spec
=============================================================================

--------------------------- MODULE LoadTestProofs ---------------------------
(***************************************************************************)
(* Machine-checked proofs about LoadTest, for any number of workers, nodes, *)
(* keys and planned requests and every configuration of the cluster.       *)
(***************************************************************************)
EXTENDS LoadTest, LWWProofs, FiniteSetTheorems, SequenceTheorems, TLAPS

-----------------------------------------------------------------------------
(* The inductive invariants                                                *)

Nodes   == {Leader} \cup Targets
Version == VersionedValue(Nat, Nodes)
Entry   == Version \cup {NoEntry}
Known   == [value : Nat, timestamp : Nat] \cup {NoEntry}
Event   == [key : Keys, node : Targets, expected : Nat, actual : SUBSET Nat, lag_from : SUBSET Targets]
Stats   == [total_requests : Nat, total_reads : Nat, total_writes : Nat,
            comparable_reads : Nat, stale_reads : Nat, stale_events : Seq(Event),
            failed_reads : Nat, failed_writes : Nat]
Request == [at : Nodes, value : Nat, version : Entry, expected : Known,
            before : SUBSET Nat, asked : SUBSET Targets, best : Entry]

TypeOK ==
    /\ config \in Configs
    /\ plan_chunks \in [Workers -> Seq(RequestPlan)]
    /\ pc \in [Workers -> {"next", "put", "applied", "rejected", "get", "lag"}]
    /\ pos \in [Workers -> Nat]
    /\ req \in [Workers -> Request]
    /\ counter \in Nat /\ index \in Nat
    /\ truth \in [Keys -> Known]
    /\ stats \in [Workers -> Stats]
    /\ store \in [Nodes -> [Keys -> Entry]]
    /\ inflight \subseteq Targets \X Keys \X Version
    /\ recorded \subseteq Keys \X Nat

\* A worker in the middle of a request is at an item of its chunk, a read or a
\* write as the request is; a coordinator's answer is about a version.
AtItsItem(wk) ==
    /\ pos[wk] <= Len(plan_chunks[wk])
    /\ pc[wk] # "next" =>
         pos[wk] \in 1 .. Len(plan_chunks[wk]) /\ (Item(wk).is_read <=> pc[wk] \in {"get", "lag"})
    /\ pc[wk] \in {"applied", "rejected"} => req[wk].version \in Version

\* The message-queue script writes at the producer only, which has no store.
ProducerOnly(wk) == config.strategy = "message_queue" => req[wk].at = Leader

\* The source of truth has the newest of what was recorded for a key.
TruthIsNewest ==
    \A k \in Keys :
        IF truth[k] = NoEntry THEN \A x \in recorded : x[1] # k
        ELSE /\ <<k, truth[k].timestamp>> \in recorded
             /\ \A x \in recorded : x[1] = k => x[2] <= truth[k].timestamp

\* A read under way is judged by the newest of what was recorded before it.
SnapshotIsNewest(wk) ==
    pc[wk] = "get" =>
        /\ req[wk].expected # NoEntry
        /\ req[wk].expected.timestamp \in req[wk].before
        /\ \A t \in req[wk].before : t <= req[wk].expected.timestamp

\* Node n has an entry of key k at least as new as t.
Has(n, k, t) == store[n][k] # NoEntry /\ t <= store[n][k].timestamp

\* A node that took over its copy of a PUT has it or something newer.
CopiesTaken(wk) ==
    pc[wk] \in {"applied", "rejected"} =>
        \A n \in Targets : \/ <<n, Item(wk).key, req[wk].version>> \in inflight
                           \/ Has(n, Item(wk).key, req[wk].version.timestamp)

\* What was recorded is at w nodes.
RecordedIsHeld ==
    \A x \in recorded : \E Q \in SUBSET Targets :
        Cardinality(Q) >= config.w /\ \A n \in Q : Has(n, x[1], x[2])

\* The entry a read is judged by has been at w nodes since before the read, and
\* those of them that were asked have shown it or something newer.
ReadMeetsQuorum(wk) ==
    pc[wk] = "get" =>
        \E Q \in SUBSET Targets :
            /\ Cardinality(Q) >= config.w
            /\ \A n \in Q :
                 /\ Has(n, Item(wk).key, req[wk].expected.timestamp)
                 /\ n \in req[wk].asked =>
                      req[wk].best # NoEntry /\ req[wk].expected.timestamp <= req[wk].best.timestamp

\* No read of the worker was stale, if quorums overlap.
NeverStale(wk) == config.w + config.r > N => stats[wk].stale_reads = 0

\* The lag query under way is for the last event of its worker.
QueryIsForLast(wk) ==
    pc[wk] = "lag" =>
        /\ config.strategy = "message_queue"
        /\ Len(stats[wk].stale_events) > 0
        /\ stats[wk].stale_events[Len(stats[wk].stale_events)].node = Item(wk).target

\* LagBelongsToItsRead, of one worker.
LagIsOwn(wk) ==
    \A i \in 1 .. Len(stats[wk].stale_events) :
        stats[wk].stale_events[i].lag_from =
            IF \/ config.strategy # "message_queue"
               \/ pc[wk] = "lag" /\ i = Len(stats[wk].stale_events)
            THEN {}
            ELSE {stats[wk].stale_events[i].node}

WorkerInv(wk) ==
    /\ AtItsItem(wk) /\ ProducerOnly(wk) /\ SnapshotIsNewest(wk) /\ CopiesTaken(wk)
    /\ ReadMeetsQuorum(wk) /\ NeverStale(wk) /\ QueryIsForLast(wk) /\ LagIsOwn(wk)

LTInv == TypeOK /\ TruthIsNewest /\ RecordedIsHeld /\ \A wk \in Workers : WorkerInv(wk)

-----------------------------------------------------------------------------
(* The plan, versions and statistics                                       *)

\* The requests of the plan that split_plan gives to the first n workers.
Before(n) ==
    LET base == Total \div NumWorkers
        remainder == Total % NumWorkers
    IN  n * base + (IF n < remainder THEN n ELSE remainder)

\* A chunk begins where the one before it ends.
LEMMA ChunkPlace ==
    ASSUME NEW p \in generate_request_plan, NEW i \in Workers
    PROVE  /\ split_plan(p, i) \in Seq(RequestPlan)
           /\ Before(i - 1) \in Nat /\ Before(i) \in Nat
           /\ Before(i - 1) <= Before(i) /\ Before(i) <= Total
           /\ Len(split_plan(p, i)) = Before(i) - Before(i - 1)
           /\ \A j \in 1 .. Len(split_plan(p, i)) : split_plan(p, i)[j] = p[Before(i - 1) + j]
  <1> DEFINE base == Total \div NumWorkers
             remainder == Total % NumWorkers
             start == (i - 1) * base + (IF i - 1 < remainder THEN i - 1 ELSE remainder)
             size == base + (IF i <= remainder THEN 1 ELSE 0)
  <1>1. NumWorkers \in Nat /\ NumWorkers > 0 /\ Total \in Nat /\ i \in Nat /\ i >= 1 /\ i <= NumWorkers
    BY SizeAssumption DEF Workers
  <1>2. /\ base \in Nat /\ remainder \in Nat /\ remainder < NumWorkers
        /\ Total = base * NumWorkers + remainder
    BY <1>1
  <1>3. /\ Before(i - 1) = start
        /\ Before(i) = i * base + (IF i < remainder THEN i ELSE remainder)
    BY DEF Before
  <1> HIDE DEF base, remainder
  <1>4. (i - 1) * base \in Nat /\ (i - 1) * base + base = i * base /\ i * base <= base * NumWorkers
        /\ i * base \in Nat /\ base * NumWorkers \in Nat
    BY <1>1, <1>2
  <1>5. /\ start \in Nat /\ size \in Nat /\ start + size <= Total
        /\ Before(i) = start + size
    <2> DEFINE a == (i - 1) * base
               b == i * base
               c == base * NumWorkers
    <2>1. a \in Nat /\ b \in Nat /\ c \in Nat /\ a + base = b /\ b <= c /\ Total = c + remainder
      BY <1>2, <1>4
    <2>2. /\ start = a + (IF i - 1 < remainder THEN i - 1 ELSE remainder)
          /\ Before(i) = b + (IF i < remainder THEN i ELSE remainder)
      BY <1>3 DEF a, b
    <2> HIDE DEF a, b, c, start
    <2> QED BY <1>1, <1>2, <2>1, <2>2
  <1> HIDE DEF start, size
  <1>6. \A j \in start + 1 .. start + size : p[j] \in RequestPlan
    BY <1>1, <1>5 DEF generate_request_plan
  <1>7. split_plan(p, i) = SubSeq(p, start + 1, start + size)
    BY DEF split_plan, start, size, base, remainder
  <1>8. /\ SubSeq(p, start + 1, start + size) \in Seq(RequestPlan)
        /\ Len(SubSeq(p, start + 1, start + size)) = size
        /\ \A j \in 1 .. size : SubSeq(p, start + 1, start + size)[j] = p[start + j]
    <2>1. PICK m, n \in Int : m = start + 1 /\ n = start + size
      BY <1>5
    <2>2. /\ SubSeq(p, m, n) \in Seq(RequestPlan)
          /\ Len(SubSeq(p, m, n)) = (IF m <= n THEN n - m + 1 ELSE 0)
          /\ \A j \in 1 .. n - m + 1 : SubSeq(p, m, n)[j] = p[m + j - 1]
      BY <1>6, <2>1, SubSeqProperties
    <2>3. Len(SubSeq(p, m, n)) = size /\ n - m + 1 = size /\ \A j \in 1 .. size : m + j - 1 = start + j
      BY <1>5, <2>1, <2>2
    <2> QED BY <2>1, <2>2, <2>3
  <1> QED BY <1>3, <1>5, <1>7, <1>8

\* A version can be compared, and the entry of a store if there is one.
LEMMA EntriesStamped ==
    /\ \A v \in Version : Stamped(v) /\ v.timestamp \in Nat /\ v.value \in Nat
    /\ \A e \in Entry : e = NoEntry \/ (Stamped(e) /\ e \in Version)
    /\ \A e \in Known : e # NoEntry => e.timestamp \in Nat
  <1>1. ASSUME NEW v \in Version PROVE Stamped(v) /\ v.timestamp \in Nat /\ v.value \in Nat
    <2>1. v # NoEntry
      BY NoEntryAssumption DEF Version, Nodes
    <2>2. v.timestamp \in Nat /\ v.node_id \in Nodes /\ v.value \in Nat
      BY DEF Version, VersionedValue
    <2>3. v.node_id \in Nat
      BY <2>2, SizeAssumption DEF Nodes, Leader, Targets
    <2> QED BY <2>1, <2>2, <2>3 DEF Stamped
  <1>2. \A e \in Known : e # NoEntry => e.timestamp \in Nat
    BY DEF Known
  <1> QED BY <1>1, <1>2 DEF Entry

\* A node's entry is never replaced by an older one.
LEMMA PutIsNewer ==
    ASSUME NEW e \in Entry, NEW v \in Version
    PROVE  /\ Put(e, v) \in Version /\ Put(e, v) # NoEntry
           /\ v.timestamp <= Put(e, v).timestamp
           /\ e # NoEntry => e.timestamp <= Put(e, v).timestamp
  <1>1. Stamped(v) /\ (e = NoEntry \/ (Stamped(e) /\ e \in Version))
    BY EntriesStamped
  <1>2. Put(e, v) \in Version
    BY <1>1 DEF Put, Applies
  <1> QED BY <1>1, <1>2, EntriesStamped DEF Put, Applies, is_newer_than, Stamped

\* The coordinator's stamp.
LEMMA StampIsVersion ==
    ASSUME NEW x \in Nat, NEW t \in Timestamps, NEW n \in Nodes
    PROVE  [value |-> x, timestamp |-> t, node_id |-> n] \in Version
  BY ReadingsAssumption DEF Version, VersionedValue

\* Who answers to a read quorum of r and a write quorum of w.
LEMMA ConfigFacts ==
    ASSUME NEW c \in Configs
    PROVE  /\ c.w \in Nat /\ c.r \in Nat \ {0}
           /\ c.strategy \in {"leader_follower", "leaderless", "message_queue"}
           /\ c.w + c.r > N => c.strategy # "message_queue"
  <1>1. N \in Nat /\ N >= 1
    BY SizeAssumption
  <1>2. CASE c \in [strategy : {"leader_follower"}, w : 0 .. N, r : {1}]
    BY <1>1, <1>2
  <1>3. CASE c \in [strategy : {"leaderless"}, w : 1 .. N, r : 1 .. N]
    BY <1>1, <1>3
  <1>4. CASE c \in [strategy : {"message_queue"}, w : {0}, r : {1}]
    BY <1>1, <1>4
  <1> QED BY <1>2, <1>3, <1>4 DEF Configs

\* The nodes a read asks are as many as N, so finitely many.
LEMMA TargetsFinite == IsFiniteSet(Targets) /\ Cardinality(Targets) = N
  BY SizeAssumption, FS_Interval DEF Targets

\* Two sets of nodes that are too large together have a node in common.
LEMMA QuorumsMeet ==
    ASSUME NEW P \in SUBSET Targets, NEW Q \in SUBSET Targets, NEW w \in Nat, NEW r \in Nat,
           Cardinality(P) >= r, Cardinality(Q) >= w, w + r > N
    PROVE  P \cap Q # {}
  <1> SUFFICES ASSUME P \cap Q = {} PROVE FALSE
    OBVIOUS
  <1>1. IsFiniteSet(P) /\ IsFiniteSet(Q) /\ IsFiniteSet(P \cup Q)
    BY TargetsFinite, FS_Subset
  <1>2. Cardinality(P \cup Q) <= N
    BY TargetsFinite, FS_Subset
  <1>3. Cardinality(P \cup Q) = Cardinality(P) + Cardinality(Q)
    <2>1. Cardinality(P \cup Q) = Cardinality(P) + Cardinality(Q) - Cardinality(P \cap Q)
      BY <1>1, FS_Union
    <2>2. Cardinality(P \cap Q) = 0
      BY FS_EmptySet
    <2>3. Cardinality(P) \in Nat /\ Cardinality(Q) \in Nat
      BY <1>1, FS_CardinalityType
    <2> QED BY <2>1, <2>2, <2>3
  <1>4. Cardinality(P) \in Nat /\ Cardinality(Q) \in Nat /\ N \in Nat
    BY <1>1, FS_CardinalityType, SizeAssumption
  <1> QED BY <1>2, <1>3, <1>4

-----------------------------------------------------------------------------
(* The statistics                                                          *)

\* No read is judged.
NoVerdict ==
    \A u \in Workers : /\ stats'[u].comparable_reads = stats[u].comparable_reads
                       /\ stats'[u].stale_reads = stats[u].stale_reads
                       /\ stats'[u].stale_events = stats[u].stale_events

\* A counter that no verdict is read from.
LEMMA CountUp ==
    ASSUME NEW s \in Stats, NEW d \in Nat, NEW m,
           \/ m = [s EXCEPT !.total_requests = s.total_requests + d]
           \/ m = [s EXCEPT !.total_reads = s.total_reads + d]
           \/ m = [s EXCEPT !.total_writes = s.total_writes + d]
           \/ m = [s EXCEPT !.failed_reads = s.failed_reads + d]
           \/ m = [s EXCEPT !.failed_writes = s.failed_writes + d]
    PROVE  /\ m \in Stats
           /\ m.comparable_reads = s.comparable_reads
           /\ m.stale_reads = s.stale_reads
           /\ m.stale_events = s.stale_events
  <1>1. /\ s.total_requests + d \in Nat /\ s.total_reads + d \in Nat /\ s.total_writes + d \in Nat
        /\ s.failed_reads + d \in Nat /\ s.failed_writes + d \in Nat
    BY DEF Stats
  <1>2. CASE m = [s EXCEPT !.total_requests = s.total_requests + d]
    BY <1>1, <1>2 DEF Stats
  <1>3. CASE m = [s EXCEPT !.total_reads = s.total_reads + d]
    BY <1>1, <1>3 DEF Stats
  <1>4. CASE m = [s EXCEPT !.total_writes = s.total_writes + d]
    BY <1>1, <1>4 DEF Stats
  <1>5. CASE m = [s EXCEPT !.failed_reads = s.failed_reads + d]
    BY <1>1, <1>5 DEF Stats
  <1>6. CASE m = [s EXCEPT !.failed_writes = s.failed_writes + d]
    BY <1>1, <1>6 DEF Stats
  <1> QED BY <1>2, <1>3, <1>4, <1>5, <1>6

\* The counters that no verdict is read from.
Counts(s, requests, reads, writes, no_read, no_write) ==
    /\ s.total_requests = requests /\ s.total_reads = reads /\ s.total_writes = writes
    /\ s.failed_reads = no_read /\ s.failed_writes = no_write

SameCounts(s, t) ==
    Counts(s, t.total_requests, t.total_reads, t.total_writes, t.failed_reads, t.failed_writes)

\* One of them moves.
LEMMA OneCounts ==
    ASSUME NEW s \in Stats, NEW n
    PROVE  /\ Counts([s EXCEPT !.total_requests = n],
                     n, s.total_reads, s.total_writes, s.failed_reads, s.failed_writes)
           /\ Counts([s EXCEPT !.total_reads = n],
                     s.total_requests, n, s.total_writes, s.failed_reads, s.failed_writes)
           /\ Counts([s EXCEPT !.total_writes = n],
                     s.total_requests, s.total_reads, n, s.failed_reads, s.failed_writes)
           /\ Counts([s EXCEPT !.failed_reads = n],
                     s.total_requests, s.total_reads, s.total_writes, n, s.failed_writes)
           /\ Counts([s EXCEPT !.failed_writes = n],
                     s.total_requests, s.total_reads, s.total_writes, s.failed_reads, n)
  BY DEF Stats, Counts

\* Taking an item counts a request, and judges none.
LEMMA TakeItemStats ==
    ASSUME stats \in [Workers -> Stats], NEW wk \in Workers, NEW b \in BOOLEAN, TakeItem(wk, b)
    PROVE  /\ stats' \in [Workers -> Stats]
           /\ NoVerdict
           /\ \A u \in Workers : u # wk => stats'[u] = stats[u]
           /\ Counts(stats'[wk], stats[wk].total_requests + 1,
                     stats[wk].total_reads + (IF b THEN 1 ELSE 0),
                     stats[wk].total_writes + (IF b THEN 0 ELSE 1),
                     stats[wk].failed_reads, stats[wk].failed_writes)
  <1> DEFINE s  == stats[wk]
             d  == IF b THEN 1 ELSE 0
             c  == IF b THEN 0 ELSE 1
             m1 == [s EXCEPT !.total_requests = s.total_requests + 1]
             m2 == [m1 EXCEPT !.total_reads = m1.total_reads + d]
             m3 == [m2 EXCEPT !.total_writes = m2.total_writes + c]
  <1>1. stats' = [stats EXCEPT ![wk] = m3]
    <2> DEFINE f1 == [stats EXCEPT ![wk].total_requests = @ + 1]
               f2 == [f1 EXCEPT ![wk].total_reads = @ + d]
               f3 == [f2 EXCEPT ![wk].total_writes = @ + c]
    <2>1. stats' = f3
      BY Zenon DEF TakeItem
    <2>2. f1 = [stats EXCEPT ![wk] = m1]
      BY Zenon
    <2>3. f2 = [f1 EXCEPT ![wk] = [f1[wk] EXCEPT !.total_reads = f1[wk].total_reads + d]]
      BY Zenon
    <2>4. f3 = [f2 EXCEPT ![wk] = [f2[wk] EXCEPT !.total_writes = f2[wk].total_writes + c]]
      BY Zenon
    <2> HIDE DEF m1, m2, m3, f1, f2, f3
    <2>5. f1[wk] = m1
      BY <2>2
    <2>6. f2 = [stats EXCEPT ![wk] = m2]
      BY <2>5, <2>3, <2>2 DEF m2
    <2>7. f2[wk] = m2
      BY <2>6
    <2>8. f3 = [stats EXCEPT ![wk] = m3]
      BY <2>7, <2>4, <2>6 DEF m3
    <2> QED BY <2>1, <2>8
  <1>2. d \in Nat /\ c \in Nat /\ s \in Stats
    OBVIOUS
  <1> HIDE DEF d, c
  <1>3. /\ m1 \in Stats /\ m1.comparable_reads = s.comparable_reads
        /\ m1.stale_reads = s.stale_reads /\ m1.stale_events = s.stale_events
    BY <1>2, CountUp
  <1>6. Counts(m1, s.total_requests + 1, s.total_reads, s.total_writes, s.failed_reads, s.failed_writes)
    BY <1>2, OneCounts
  <1> HIDE DEF m1
  <1>4. /\ m2 \in Stats /\ m2.comparable_reads = m1.comparable_reads
        /\ m2.stale_reads = m1.stale_reads /\ m2.stale_events = m1.stale_events
    BY <1>2, <1>3, CountUp
  <1>7. Counts(m2, m1.total_requests, m1.total_reads + d, m1.total_writes, m1.failed_reads, m1.failed_writes)
    BY <1>3, OneCounts
  <1> HIDE DEF m2
  <1>5. /\ m3 \in Stats /\ m3.comparable_reads = m2.comparable_reads
        /\ m3.stale_reads = m2.stale_reads /\ m3.stale_events = m2.stale_events
    BY <1>2, <1>4, CountUp
  <1>8. Counts(m3, m2.total_requests, m2.total_reads, m2.total_writes + c, m2.failed_reads, m2.failed_writes)
    BY <1>4, OneCounts
  <1> HIDE DEF m3
  <1>9. stats'[wk] = m3
    BY <1>1
  <1>10. Counts(stats'[wk], s.total_requests + 1, s.total_reads + d, s.total_writes + c,
                s.failed_reads, s.failed_writes)
    BY <1>6, <1>7, <1>8, <1>9 DEF Counts
  <1>11. /\ stats' \in [Workers -> Stats] /\ NoVerdict
         /\ \A u \in Workers : u # wk => stats'[u] = stats[u]
    BY <1>1, <1>3, <1>4, <1>5 DEF NoVerdict
  <1> QED BY <1>10, <1>11 DEF d, c

\* A failure is counted, and judges no read.
LEMMA FailureStats ==
    ASSUME stats \in [Workers -> Stats], NEW wk \in Workers,
           \/ stats' = [stats EXCEPT ![wk].failed_writes = @ + 1]
           \/ stats' = [stats EXCEPT ![wk].failed_reads = @ + 1]
    PROVE  /\ stats' \in [Workers -> Stats]
           /\ NoVerdict
           /\ \A u \in Workers : u # wk => stats'[u] = stats[u]
  <1> DEFINE s == stats[wk]
             m1 == [s EXCEPT !.failed_writes = s.failed_writes + 1]
             m2 == [s EXCEPT !.failed_reads = s.failed_reads + 1]
  <1>1. \/ stats' = [stats EXCEPT ![wk] = m1]
        \/ stats' = [stats EXCEPT ![wk] = m2]
    BY Zenon
  <1>2. PICK m : stats' = [stats EXCEPT ![wk] = m] /\ (m = m1 \/ m = m2)
    BY <1>1, Zenon
  <1>3. /\ m \in Stats /\ m.comparable_reads = s.comparable_reads
        /\ m.stale_reads = s.stale_reads /\ m.stale_events = s.stale_events
    BY <1>2, CountUp
  <1> QED BY <1>2, <1>3 DEF NoVerdict

\* The event a stale read leaves.
EventOf(wk) ==
    [key |-> Item(wk).key, node |-> Item(wk).target, expected |-> req[wk].expected.timestamp,
     actual |-> IF req[wk].best = NoEntry THEN {} ELSE {req[wk].best.timestamp}, lag_from |-> {}]

\* A verdict: the read is counted, and as stale, with its event, if it is.
LEMMA VerdictStats ==
    ASSUME stats \in [Workers -> Stats], NEW wk \in Workers, EventOf(wk) \in Event,
           stats' = Compared(wk, req[wk].expected)
    PROVE  /\ stats' \in [Workers -> Stats]
           /\ \A u \in Workers : u # wk => stats'[u] = stats[u]
           /\ stats'[wk].comparable_reads = stats[wk].comparable_reads + 1
           /\ IF IsStale(req[wk].best, req[wk].expected)
              THEN /\ stats'[wk].stale_reads = stats[wk].stale_reads + 1
                   /\ stats'[wk].stale_events = Append(stats[wk].stale_events, EventOf(wk))
              ELSE /\ stats'[wk].stale_reads = stats[wk].stale_reads
                   /\ stats'[wk].stale_events = stats[wk].stale_events
           /\ SameCounts(stats'[wk], stats[wk])
  <1> DEFINE s == [stats[wk] EXCEPT !.comparable_reads = @ + 1]
             t == [s EXCEPT !.stale_reads = @ + 1]
             z == [t EXCEPT !.stale_events = Append(@, EventOf(wk))]
             stale == IsStale(req[wk].best, req[wk].expected)
  <1>1. stats' = [stats EXCEPT ![wk] = IF stale THEN z ELSE s]
    BY Zenon DEF Compared, record_stale, EventOf
  <1> HIDE DEF stale
  <1>2. /\ s \in Stats /\ s.comparable_reads = stats[wk].comparable_reads + 1
        /\ s.stale_reads = stats[wk].stale_reads /\ s.stale_events = stats[wk].stale_events
        /\ SameCounts(s, stats[wk])
    <2>1. PICK old : old = stats[wk]
      OBVIOUS
    <2>2. old \in Stats /\ old.comparable_reads + 1 \in Nat
      BY <2>1 DEF Stats
    <2>3. s = [old EXCEPT !.comparable_reads = old.comparable_reads + 1]
      BY <2>1
    <2> HIDE DEF s
    <2> QED BY <2>1, <2>2, <2>3 DEF Stats, SameCounts, Counts
  <1> HIDE DEF s
  <1>3. /\ t \in Stats /\ t.comparable_reads = s.comparable_reads
        /\ t.stale_reads = s.stale_reads + 1 /\ t.stale_events = s.stale_events
        /\ SameCounts(t, s)
    <2>1. s.stale_reads + 1 \in Nat
      BY <1>2 DEF Stats
    <2>2. t = [s EXCEPT !.stale_reads = s.stale_reads + 1]
      OBVIOUS
    <2> HIDE DEF t
    <2> QED BY <1>2, <2>1, <2>2 DEF Stats, SameCounts, Counts
  <1> HIDE DEF t
  <1>4. /\ z \in Stats /\ z.comparable_reads = t.comparable_reads
        /\ z.stale_reads = t.stale_reads /\ z.stale_events = Append(t.stale_events, EventOf(wk))
        /\ SameCounts(z, t)
    <2>1. t.stale_events \in Seq(Event) /\ Append(t.stale_events, EventOf(wk)) \in Seq(Event)
      BY <1>3, AppendProperties DEF Stats
    <2> DEFINE longer == Append(t.stale_events, EventOf(wk))
    <2>2. z = [t EXCEPT !.stale_events = longer]
      OBVIOUS
    <2>3. longer \in Seq(Event)
      BY <2>1
    <2> HIDE DEF longer, z
    <2>4. /\ z \in Stats /\ z.comparable_reads = t.comparable_reads
          /\ z.stale_reads = t.stale_reads /\ z.stale_events = longer
          /\ SameCounts(z, t)
      BY <1>3, <2>2, <2>3 DEF Stats, SameCounts, Counts
    <2> QED BY <2>4 DEF longer
  <1> HIDE DEF z
  <1>7. SameCounts(z, stats[wk])
    BY <1>2, <1>3, <1>4 DEF SameCounts, Counts
  <1>5. CASE stale
    BY <1>1, <1>2, <1>3, <1>4, <1>5, <1>7 DEF stale
  <1>6. CASE ~stale
    BY <1>1, <1>2, <1>6 DEF stale
  <1> QED BY <1>5, <1>6

\* A lag sample changes nothing but the lag of the worker's last event.
LEMMA SampleStats ==
    ASSUME stats \in [Workers -> Stats], NEW wk \in Workers, Len(stats[wk].stale_events) > 0,
           Item(wk).target \in Targets, query_lag(wk)
    PROVE  LET old == stats[wk].stale_events
               new == stats'[wk].stale_events
           IN  /\ stats' \in [Workers -> Stats]
               /\ \A u \in Workers : u # wk => stats'[u] = stats[u]
               /\ stats'[wk].comparable_reads = stats[wk].comparable_reads
               /\ stats'[wk].stale_reads = stats[wk].stale_reads
               /\ SameCounts(stats'[wk], stats[wk])
               /\ Len(new) = Len(old)
               /\ \A i \in 1 .. Len(old) :
                    /\ new[i].node = old[i].node
                    /\ new[i].lag_from = IF i = Len(old) THEN {Item(wk).target} ELSE old[i].lag_from
  <1> DEFINE old == stats[wk].stale_events
             last == Len(old)
             e == [old[last] EXCEPT !.lag_from = {Item(wk).target}]
             events == [old EXCEPT ![last] = e]
             s == [stats[wk] EXCEPT !.stale_events = events]
  <1>1. stats' = [stats EXCEPT ![wk] = s]
    <2>1. stats' = [stats EXCEPT ![wk].stale_events[Len(stats[wk].stale_events)].lag_from = {Item(wk).target}]
      BY DEF query_lag
    <2> QED BY <2>1, Zenon
  <1>2. old \in Seq(Event) /\ last \in 1 .. Len(old)
    BY DEF Stats
  <1>3. old[last] \in Event
    BY <1>2, ElementOfSeq
  <1> HIDE DEF old, last
  <1>4. e \in Event /\ e.node = old[last].node /\ e.lag_from = {Item(wk).target}
    BY <1>3 DEF Event
  <1> HIDE DEF e
  <1>5. /\ events \in Seq(Event) /\ Len(events) = Len(old)
        /\ \A i \in 1 .. Len(old) : events[i] = IF i = last THEN e ELSE old[i]
    BY <1>2, <1>4, ExceptSeq
  <1> HIDE DEF events
  <1>6. /\ s \in Stats /\ s.stale_events = events
        /\ s.comparable_reads = stats[wk].comparable_reads /\ s.stale_reads = stats[wk].stale_reads
        /\ SameCounts(s, stats[wk])
    BY <1>5 DEF Stats, SameCounts, Counts
  <1> HIDE DEF s
  <1>7. stats' \in [Workers -> Stats] /\ stats'[wk] = s /\ \A u \in Workers : u # wk => stats'[u] = stats[u]
    BY <1>1, <1>6
  <1> QED BY <1>4, <1>5, <1>6, <1>7 DEF old, last

-----------------------------------------------------------------------------
(* What a step leaves to the workers that do not take it                   *)

\* The step is not worker u's.
Untouched(u) ==
    pc'[u] = pc[u] /\ pos'[u] = pos[u] /\ req'[u] = req[u] /\ stats'[u] = stats[u]

\* Nodes keep what they have, or take over something newer; a copy is under way
\* until its node has it.
Grows ==
    /\ \A n \in Nodes, k \in Keys, t \in Nat : Has(n, k, t) => Has(n, k, t)'
    /\ \A c \in inflight : c \in inflight' \/ Has(c[1], c[2], c[3].timestamp)'

\* The item of a request under way.
LEMMA ItemInPlan ==
    ASSUME TypeOK, NEW wk \in Workers, AtItsItem(wk), pc[wk] # "next"
    PROVE  /\ Item(wk) \in RequestPlan /\ Item(wk).key \in Keys
           /\ pc[wk] \in {"get", "lag"} => Item(wk).target \in Targets
  <1>1. plan_chunks[wk] \in Seq(RequestPlan) /\ pos[wk] \in 1 .. Len(plan_chunks[wk])
    BY DEF TypeOK, AtItsItem
  <1>2. Item(wk) \in RequestPlan
    BY <1>1, ElementOfSeq DEF Item
  <1>3. pc[wk] \in {"get", "lag"} => Item(wk).is_read
    BY DEF AtItsItem
  <1> HIDE DEF Item
  <1> QED BY <1>2, <1>3 DEF RequestPlan

\* A step that changes no store and loses no copy.
LEMMA SameStores ==
    ASSUME store' = store, inflight \subseteq inflight'
    PROVE  Grows
  BY DEF Grows, Has

\* A node that stores a version still has what it had.
LEMMA StoreGrows ==
    ASSUME TypeOK, NEW n \in Nodes, NEW k \in Keys, NEW v \in Version,
           store' = [store EXCEPT ![n][k] = Put(@, v)]
    PROVE  /\ store' \in [Nodes -> [Keys -> Entry]]
           /\ \A m \in Nodes, l \in Keys, t \in Nat : Has(m, l, t) => Has(m, l, t)'
           /\ Has(n, k, v.timestamp)'
  <1>1. store \in [Nodes -> [Keys -> Entry]] /\ store[n] \in [Keys -> Entry] /\ store[n][k] \in Entry
    BY DEF TypeOK
  <1>2. PICK new : new = Put(store[n][k], v)
    OBVIOUS
  <1>3. /\ new \in Version /\ new # NoEntry /\ v.timestamp <= new.timestamp
        /\ store[n][k] # NoEntry => store[n][k].timestamp <= new.timestamp
    BY <1>1, <1>2, PutIsNewer
  <1>4. store' = [store EXCEPT ![n] = [store[n] EXCEPT ![k] = new]]
    BY <1>2, Zenon
  <1>5. store' \in [Nodes -> [Keys -> Entry]]
    BY <1>1, <1>3, <1>4 DEF Entry
  <1>6. Has(n, k, v.timestamp)'
    <2>1. v.timestamp' = v.timestamp /\ store'[n][k] = new
      BY <1>1, <1>4
    <2> QED BY <1>3, <2>1 DEF Has
  <1>7. ASSUME NEW m \in Nodes, NEW l \in Keys, NEW t \in Nat, Has(m, l, t) PROVE Has(m, l, t)'
    <2>1. CASE m = n /\ l = k
      <3>1. store'[m][l] = new
        BY <1>1, <1>4, <2>1
      <3>2. store[n][k] # NoEntry /\ t <= store[n][k].timestamp
        BY <1>7, <2>1 DEF Has
      <3>3. store[n][k].timestamp \in Nat /\ new.timestamp \in Nat
        BY <1>1, <1>3, <3>2, EntriesStamped
      <3> QED BY <1>3, <3>1, <3>2, <3>3 DEF Has
    <2>2. CASE ~(m = n /\ l = k)
      <3>1. store'[m][l] = store[m][l]
        BY <1>1, <1>4, <2>2
      <3> QED BY <1>7, <3>1 DEF Has
    <2> QED BY <2>1, <2>2
  <1> QED BY <1>5, <1>6, <1>7

\* A worker that does not take the step keeps its part of the invariant.
LEMMA OthersKeep ==
    ASSUME LTInv, NEW u \in Workers, Untouched(u), Grows, UNCHANGED fixed
    PROVE  WorkerInv(u)'
  <1>1. /\ WorkerInv(u) /\ TypeOK /\ req[u] \in Request
        /\ pc'[u] = pc[u] /\ pos'[u] = pos[u] /\ req'[u] = req[u] /\ stats'[u] = stats[u]
        /\ config' = config /\ plan_chunks' = plan_chunks
    BY DEF LTInv, TypeOK, Untouched, fixed
  <1>2. Item(u)' = Item(u)
    BY <1>1 DEF Item
  <1>3. AtItsItem(u)' /\ ProducerOnly(u)' /\ SnapshotIsNewest(u)' /\ NeverStale(u)'
    BY <1>1, <1>2 DEF WorkerInv, AtItsItem, ProducerOnly, SnapshotIsNewest, NeverStale
  <1>4. QueryIsForLast(u)' /\ LagIsOwn(u)'
    BY <1>1, <1>2 DEF WorkerInv, QueryIsForLast, LagIsOwn
  <1>5. CopiesTaken(u)'
    <2> SUFFICES ASSUME pc[u] \in {"applied", "rejected"}, NEW n \in Targets
                 PROVE  \/ <<n, Item(u).key, req[u].version>> \in inflight'
                        \/ Has(n, Item(u).key, req[u].version.timestamp)'
      BY <1>1, <1>2 DEF CopiesTaken, Has
    <2>1. Item(u).key \in Keys /\ n \in Nodes /\ req[u].version.timestamp \in Nat
      BY <1>1, ItemInPlan, EntriesStamped DEF WorkerInv, AtItsItem, Nodes
    <2>2. \/ <<n, Item(u).key, req[u].version>> \in inflight
          \/ Has(n, Item(u).key, req[u].version.timestamp)
      BY <1>1 DEF WorkerInv, CopiesTaken
    <2>3. CASE <<n, Item(u).key, req[u].version>> \in inflight
      <3>1. PICK c \in inflight : c = <<n, Item(u).key, req[u].version>>
        BY <2>3
      <3>2. c[1] = n /\ c[2] = Item(u).key /\ c[3] = req[u].version
        BY <3>1
      <3>3. c \in inflight' \/ Has(c[1], c[2], c[3].timestamp)'
        BY <3>1 DEF Grows
      <3> QED BY <1>1, <1>2, <3>1, <3>2, <3>3 DEF Has
    <2>4. CASE Has(n, Item(u).key, req[u].version.timestamp)
      <3> DEFINE k == Item(u).key
                 t == req[u].version.timestamp
      <3>1. \A kk \in Keys, tt \in Nat : Has(n, kk, tt) => store'[n][kk] # NoEntry /\ tt <= store'[n][kk].timestamp
        BY <2>1 DEF Grows, Has
      <3>2. store'[n][k] # NoEntry /\ t <= store'[n][k].timestamp
        BY <2>1, <2>4, <3>1
      <3> QED BY <1>1, <1>2, <3>2 DEF Has
    <2> QED BY <2>2, <2>3, <2>4
  <1>6. ReadMeetsQuorum(u)'
    <2> SUFFICES ASSUME pc[u] = "get"
                 PROVE  \E Q \in SUBSET Targets :
                          /\ Cardinality(Q) >= config.w
                          /\ \A n \in Q :
                               /\ store'[n][Item(u).key] # NoEntry
                               /\ req[u].expected.timestamp <= store'[n][Item(u).key].timestamp
                               /\ n \in req[u].asked =>
                                    req[u].best # NoEntry /\ req[u].expected.timestamp <= req[u].best.timestamp
      BY <1>1, <1>2 DEF ReadMeetsQuorum, Has
    <2>1. Item(u).key \in Keys /\ req[u].expected.timestamp \in Nat
      BY <1>1, ItemInPlan, EntriesStamped DEF WorkerInv, SnapshotIsNewest, Request
    <2>2. PICK Q \in SUBSET Targets :
            /\ Cardinality(Q) >= config.w
            /\ \A n \in Q :
                 /\ Has(n, Item(u).key, req[u].expected.timestamp)
                 /\ n \in req[u].asked =>
                      req[u].best # NoEntry /\ req[u].expected.timestamp <= req[u].best.timestamp
      BY <1>1 DEF WorkerInv, ReadMeetsQuorum
    <2>3. \A n \in Nodes, kk \in Keys, tt \in Nat :
            Has(n, kk, tt) => store'[n][kk] # NoEntry /\ tt <= store'[n][kk].timestamp
      BY DEF Grows, Has
    <2> QED BY <2>1, <2>2, <2>3 DEF Nodes
  <1> QED BY <1>3, <1>4, <1>5, <1>6 DEF WorkerInv

\* What was recorded stays at its nodes.
LEMMA RecordedKept ==
    ASSUME LTInv, Grows, UNCHANGED <<config, recorded>>
    PROVE  RecordedIsHeld'
  <1> SUFFICES ASSUME NEW x \in recorded
               PROVE  \E Q \in SUBSET Targets :
                        /\ Cardinality(Q) >= config.w
                        /\ \A n \in Q : store'[n][x[1]] # NoEntry /\ x[2] <= store'[n][x[1]].timestamp
    BY DEF RecordedIsHeld, Has
  <1>1. PICK Q \in SUBSET Targets : Cardinality(Q) >= config.w /\ \A n \in Q : Has(n, x[1], x[2])
    BY DEF LTInv, RecordedIsHeld
  <1>2. x[1] \in Keys /\ x[2] \in Nat
    BY DEF LTInv, TypeOK
  <1>3. \A n \in Nodes, kk \in Keys, tt \in Nat :
          Has(n, kk, tt) => store'[n][kk] # NoEntry /\ tt <= store'[n][kk].timestamp
    BY DEF Grows, Has
  <1> QED BY <1>1, <1>2, <1>3 DEF Nodes

-----------------------------------------------------------------------------
(* The steps                                                               *)

\* Requests as they are set up, answered and ended.
LEMMA RequestTypes ==
    /\ NoRequest \in Request /\ NoRequest.at = Leader /\ NoRequest.asked = {} /\ NoRequest.best = NoEntry
    /\ \A at \in Nodes, x \in Nat :
         LET q == [NoRequest EXCEPT !.at = at, !.value = x]
         IN  q \in Request /\ q.at = at
  <1>1. Leader \in Nodes /\ NoEntry \in Entry /\ NoEntry \in Known /\ Leader = 0
    BY DEF Nodes, Entry, Known, Leader
  <1>2. NoRequest = [at |-> 0, value |-> 0, version |-> NoEntry, expected |-> NoEntry,
                     before |-> {}, asked |-> {}, best |-> NoEntry]
    BY DEF NoRequest
  <1>3. NoRequest \in Request /\ NoRequest.at = Leader /\ NoRequest.asked = {} /\ NoRequest.best = NoEntry
    BY <1>1, <1>2 DEF Request
  <1>4. ASSUME NEW at \in Nodes, NEW x \in Nat
        PROVE  LET q == [NoRequest EXCEPT !.at = at, !.value = x]
               IN  q \in Request /\ q.at = at
    <2>1. PICK q : q = [NoRequest EXCEPT !.at = at, !.value = x]
      OBVIOUS
    <2>2. q = [at |-> at, value |-> x, version |-> NoEntry, expected |-> NoEntry,
               before |-> {}, asked |-> {}, best |-> NoEntry]
      BY <1>2, <2>1
    <2>3. q \in Request /\ q.at = at
      BY <1>1, <2>2 DEF Request
    <2> QED BY <2>1, <2>3
  <1> QED BY <1>3, <1>4

\* A read that has just been sent: the snapshot, and nobody asked yet.
LEMMA ReadRequest ==
    ASSUME NEW e \in Known, NEW B \in SUBSET Nat, NEW q,
           q = [at |-> 0, value |-> 0, version |-> NoEntry, expected |-> e,
                before |-> B, asked |-> {}, best |-> NoEntry]
    PROVE  q \in Request /\ q.at = Leader /\ q.expected = e /\ q.before = B /\ q.asked = {}
  <1>1. 0 \in Nodes /\ NoEntry \in Entry /\ Leader = 0
    BY DEF Nodes, Entry, Leader
  <1> QED BY <1>1 DEF Request

\* The parts of the invariant that a step of worker wk has to establish anew.
LEMMA StepOf ==
    ASSUME LTInv, NEW wk \in Workers, UNCHANGED fixed, Grows,
           \A u \in Workers : u # wk => Untouched(u),
           TypeOK', TruthIsNewest', RecordedIsHeld', WorkerInv(wk)'
    PROVE  LTInv'
  <1>1. \A u \in Workers : WorkerInv(u)'
    BY OthersKeep
  <1> QED BY <1>1 DEF LTInv

\* A request ends without a verdict, or with one that is not stale.
LEMMA EndsQuietly ==
    ASSUME LTInv, NEW wk \in Workers, pc[wk] # "next", pc[wk] # "lag", Finish(wk),
           UNCHANGED <<fixed, pos, counter, index, cluster, recorded, truth>>,
           stats' \in [Workers -> Stats],
           \A u \in Workers : u # wk => stats'[u] = stats[u],
           stats'[wk].stale_reads = stats[wk].stale_reads,
           stats'[wk].stale_events = stats[wk].stale_events
    PROVE  LTInv'
  <1>1. TypeOK /\ WorkerInv(wk)
    BY DEF LTInv
  <1>2. pc' = [pc EXCEPT ![wk] = "next"] /\ req' = [req EXCEPT ![wk] = NoRequest]
    BY DEF Finish
  <1>3. NoRequest \in Request /\ NoRequest.at = Leader
    BY RequestTypes
  <1>4. TypeOK'
    BY <1>1, <1>2, <1>3 DEF TypeOK, fixed, cluster
  <1>5. \A u \in Workers : u # wk => Untouched(u)
    BY <1>1, <1>2 DEF TypeOK, Untouched
  <1>6. pc'[wk] = "next" /\ req'[wk] = NoRequest
    BY <1>1, <1>2 DEF TypeOK
  <1>7. Grows
    BY SameStores DEF cluster
  <1>8. TruthIsNewest' /\ RecordedIsHeld'
    BY <1>7, RecordedKept DEF LTInv, TruthIsNewest, fixed
  <1>9. WorkerInv(wk)'
    <2>1. AtItsItem(wk)' /\ ProducerOnly(wk)' /\ SnapshotIsNewest(wk)' /\ CopiesTaken(wk)' /\ ReadMeetsQuorum(wk)'
          /\ QueryIsForLast(wk)'
      BY <1>1, <1>3, <1>6 DEF WorkerInv, AtItsItem, ProducerOnly, SnapshotIsNewest, CopiesTaken,
                               ReadMeetsQuorum, QueryIsForLast, fixed
    <2>2. NeverStale(wk)' /\ LagIsOwn(wk)'
      BY <1>1, <1>6 DEF WorkerInv, NeverStale, LagIsOwn, fixed
    <2> QED BY <2>1, <2>2 DEF WorkerInv
  <1> QED BY <1>4, <1>5, <1>7, <1>8, <1>9, StepOf

\* A failed request ends quietly.
LEMMA FailuresKeepInv ==
    ASSUME LTInv, NEW wk \in Workers, PutFails(wk) \/ GetFails(wk)
    PROVE  LTInv' /\ NoVerdict
  <1>1. /\ pc[wk] # "next" /\ pc[wk] # "lag" /\ Finish(wk)
        /\ UNCHANGED <<fixed, pos, counter, index, cluster, recorded, truth>>
    BY DEF PutFails, GetFails
  <1>2. \/ stats' = [stats EXCEPT ![wk].failed_writes = @ + 1]
        \/ stats' = [stats EXCEPT ![wk].failed_reads = @ + 1]
    BY DEF PutFails, GetFails
  <1>3. stats \in [Workers -> Stats]
    BY DEF LTInv, TypeOK
  <1>4. /\ stats' \in [Workers -> Stats] /\ NoVerdict
        /\ \A u \in Workers : u # wk => stats'[u] = stats[u]
    BY <1>2, <1>3, FailureStats
  <1> QED BY <1>1, <1>4, EndsQuietly DEF NoVerdict

\* The phases of run_load_test are none of the workers' business.
LEMMA RunKeepsInv ==
    ASSUME LTInv, Discover \/ MergeStats
    PROVE  LTInv' /\ NoVerdict
  <1>1. UNCHANGED <<fixed, pc, pos, req, counter, index, truth, stats, cluster, recorded>>
    BY DEF Discover, MergeStats
  <1>2. Grows
    BY <1>1, SameStores DEF cluster
  <1>3. \A u \in Workers : WorkerInv(u)'
    BY <1>1, <1>2, OthersKeep DEF Untouched
  <1>4. TypeOK' /\ TruthIsNewest' /\ RecordedIsHeld'
    BY <1>1, <1>2, RecordedKept DEF LTInv, TypeOK, TruthIsNewest, fixed, cluster
  <1> QED BY <1>1, <1>3, <1>4 DEF LTInv, NoVerdict

\* The next item of a worker, before and after it is taken.
LEMMA TakeItemPlace ==
    ASSUME LTInv, NEW wk \in Workers, NEW b \in BOOLEAN, TakeItem(wk, b), UNCHANGED fixed
    PROVE  /\ pos' \in [Workers -> Nat] /\ pos'[wk] = pos[wk] + 1
           /\ pos'[wk] \in 1 .. Len(plan_chunks[wk])
           /\ \A u \in Workers : u # wk => pos'[u] = pos[u]
           /\ Item(wk)' = plan_chunks[wk][pos[wk] + 1]
           /\ Item(wk)' \in RequestPlan /\ (Item(wk)').is_read = b
           /\ pc[wk] = "next"
  <1>1. /\ pc[wk] = "next" /\ pos[wk] < Len(plan_chunks[wk])
        /\ plan_chunks[wk][pos[wk] + 1].is_read = b
        /\ pos' = [pos EXCEPT ![wk] = pos[wk] + 1]
    BY DEF TakeItem
  <1>2. pos \in [Workers -> Nat] /\ plan_chunks[wk] \in Seq(RequestPlan) /\ plan_chunks' = plan_chunks
    BY DEF LTInv, TypeOK, fixed
  <1>3. Len(plan_chunks[wk]) \in Nat
    BY <1>2, LenProperties
  <1>4. pos'[wk] = pos[wk] + 1 /\ pos[wk] + 1 \in 1 .. Len(plan_chunks[wk])
    BY <1>1, <1>2, <1>3
  <1>5. Item(wk)' = plan_chunks[wk][pos[wk] + 1]
    BY <1>2, <1>4 DEF Item
  <1>6. plan_chunks[wk][pos[wk] + 1] \in RequestPlan
    BY <1>2, <1>4, ElementOfSeq
  <1>7. pos' \in [Workers -> Nat] /\ \A u \in Workers : u # wk => pos'[u] = pos[u]
    BY <1>1, <1>2
  <1> QED BY <1>1, <1>4, <1>5, <1>6, <1>7

\* A worker sends a PUT.
LEMMA IssuePutKeepsInv ==
    ASSUME LTInv, NEW wk \in Workers, NEW at \in Nodes, IssuePut(wk, at), index' \in Nat,
           config.strategy = "message_queue" => at = Leader
    PROVE  LTInv' /\ NoVerdict
  <1>1. /\ TakeItem(wk, FALSE) /\ UNCHANGED <<fixed, truth, cluster, recorded>>
        /\ counter' = counter + 1
        /\ req' = [req EXCEPT ![wk] = [NoRequest EXCEPT !.at = at, !.value = counter]]
        /\ pc' = [pc EXCEPT ![wk] = "put"]
    BY DEF IssuePut
  <1>2. TypeOK /\ WorkerInv(wk) /\ counter \in Nat /\ stats \in [Workers -> Stats]
    BY DEF LTInv, TypeOK
  <1>3. PICK q : q = [NoRequest EXCEPT !.at = at, !.value = counter]
    OBVIOUS
  <1>4. q \in Request /\ q.at = at
    BY <1>2, <1>3, RequestTypes
  <1>5. /\ stats' \in [Workers -> Stats] /\ NoVerdict
        /\ \A u \in Workers : u # wk => stats'[u] = stats[u]
    BY <1>1, <1>2, TakeItemStats
  <1>6. /\ pos' \in [Workers -> Nat] /\ pos'[wk] \in 1 .. Len(plan_chunks[wk])
        /\ \A u \in Workers : u # wk => pos'[u] = pos[u]
        /\ Item(wk)' \in RequestPlan /\ (Item(wk)').is_read = FALSE
    BY <1>1, TakeItemPlace
  <1>7. TypeOK'
    BY <1>1, <1>2, <1>3, <1>4, <1>5, <1>6 DEF TypeOK, fixed, cluster
  <1>8. \A u \in Workers : u # wk => Untouched(u)
    BY <1>1, <1>2, <1>5, <1>6 DEF TypeOK, Untouched
  <1>9. pc'[wk] = "put" /\ req'[wk] = q
    BY <1>1, <1>2, <1>3 DEF TypeOK
  <1>10. Grows
    BY <1>1, SameStores DEF cluster
  <1>11. TruthIsNewest' /\ RecordedIsHeld'
    BY <1>1, <1>10, RecordedKept DEF LTInv, TruthIsNewest, fixed
  <1>12. WorkerInv(wk)'
    <2>1. AtItsItem(wk)'
      <3>1. plan_chunks'[wk] = plan_chunks[wk] /\ Len(plan_chunks[wk]) \in Nat
        BY <1>1, <1>2, LenProperties DEF TypeOK, fixed
      <3> QED BY <1>6, <1>9, <3>1 DEF AtItsItem
    <2>2. /\ ProducerOnly(wk)' /\ SnapshotIsNewest(wk)' /\ CopiesTaken(wk)' /\ ReadMeetsQuorum(wk)'
          /\ QueryIsForLast(wk)'
      BY <1>1, <1>4, <1>9 DEF ProducerOnly, SnapshotIsNewest, CopiesTaken, ReadMeetsQuorum, QueryIsForLast, fixed
    <2>3. NeverStale(wk)' /\ LagIsOwn(wk)'
      <3>1. pc[wk] = "next"
        BY <1>1 DEF TakeItem
      <3> QED BY <1>1, <1>2, <1>5, <1>9, <3>1 DEF NoVerdict, WorkerInv, NeverStale, LagIsOwn, fixed
    <2> QED BY <2>1, <2>2, <2>3 DEF WorkerInv
  <1> QED BY <1>1, <1>5, <1>7, <1>8, <1>10, <1>11, <1>12, StepOf

\* A worker takes its snapshot and sends a GET, or skips the read.
LEMMA IssueGetKeepsInv ==
    ASSUME LTInv, NEW wk \in Workers, IssueGet(wk)
    PROVE  LTInv' /\ NoVerdict
  <1> DEFINE k == plan_chunks[wk][pos[wk] + 1].key
             B == {r[2] : r \in {x \in recorded : x[1] = k}}
  <1>1. /\ TakeItem(wk, TRUE) /\ UNCHANGED <<fixed, counter, index, truth, cluster, recorded>>
        /\ \/ truth[k] = NoEntry /\ UNCHANGED <<pc, req>>
           \/ /\ truth[k] # NoEntry /\ pc' = [pc EXCEPT ![wk] = "get"]
              /\ req' = [req EXCEPT ![wk] = [NoRequest EXCEPT !.expected = truth[k], !.before = B]]
    BY DEF IssueGet
  <1>2. TypeOK /\ WorkerInv(wk) /\ stats \in [Workers -> Stats] /\ truth \in [Keys -> Known]
        /\ recorded \subseteq Keys \X Nat
    BY DEF LTInv, TypeOK
  <1>3. /\ stats' \in [Workers -> Stats] /\ NoVerdict
        /\ \A u \in Workers : u # wk => stats'[u] = stats[u]
    BY <1>1, <1>2, TakeItemStats
  <1>4. /\ pos' \in [Workers -> Nat] /\ pos'[wk] \in 1 .. Len(plan_chunks[wk])
        /\ \A u \in Workers : u # wk => pos'[u] = pos[u]
        /\ Item(wk)' \in RequestPlan /\ (Item(wk)').is_read = TRUE
        /\ Item(wk)' = plan_chunks[wk][pos[wk] + 1] /\ pc[wk] = "next"
    BY <1>1, TakeItemPlace
  <1>5. k \in Keys /\ (Item(wk)').key = k
    BY <1>4 DEF RequestPlan
  <1>6. B \in SUBSET Nat
    BY <1>2
  <1>7. Grows
    BY <1>1, SameStores DEF cluster
  <1>8. TruthIsNewest' /\ RecordedIsHeld'
    BY <1>1, <1>7, RecordedKept DEF LTInv, TruthIsNewest, fixed
  <1>9. plan_chunks'[wk] = plan_chunks[wk] /\ Len(plan_chunks[wk]) \in Nat
    BY <1>1, <1>2, LenProperties DEF TypeOK, fixed
  <1>10. CASE UNCHANGED <<pc, req>>
    <2>1. TypeOK'
      BY <1>1, <1>2, <1>3, <1>4, <1>10 DEF TypeOK, fixed, cluster
    <2>2. \A u \in Workers : u # wk => Untouched(u)
      BY <1>3, <1>4, <1>10 DEF Untouched
    <2>3. WorkerInv(wk)'
      <3>1. /\ AtItsItem(wk)' /\ ProducerOnly(wk)' /\ SnapshotIsNewest(wk)' /\ CopiesTaken(wk)'
            /\ ReadMeetsQuorum(wk)' /\ QueryIsForLast(wk)'
        BY <1>1, <1>2, <1>4, <1>9, <1>10 DEF WorkerInv, AtItsItem, ProducerOnly, SnapshotIsNewest, CopiesTaken,
                                  ReadMeetsQuorum, QueryIsForLast, fixed
      <3>2. NeverStale(wk)' /\ LagIsOwn(wk)'
        BY <1>1, <1>2, <1>3, <1>4, <1>10 DEF NoVerdict, WorkerInv, NeverStale, LagIsOwn, fixed
      <3> QED BY <3>1, <3>2 DEF WorkerInv
    <2> QED BY <1>1, <1>3, <1>7, <1>8, <2>1, <2>2, <2>3, StepOf
  <1>11. CASE /\ truth[k] # NoEntry /\ pc' = [pc EXCEPT ![wk] = "get"]
              /\ req' = [req EXCEPT ![wk] = [NoRequest EXCEPT !.expected = truth[k], !.before = B]]
    <2>1. PICK q : q = [NoRequest EXCEPT !.expected = truth[k], !.before = B]
      OBVIOUS
    <2>2. q \in Request /\ q.at = Leader /\ q.expected = truth[k] /\ q.before = B /\ q.asked = {}
      <3>1. truth[k] \in Known
        BY <1>2, <1>5
      <3> HIDE DEF k, B
      <3>2. q = [at |-> 0, value |-> 0, version |-> NoEntry, expected |-> truth[k],
                 before |-> B, asked |-> {}, best |-> NoEntry]
        BY <2>1 DEF NoRequest
      <3> QED BY <1>6, <3>1, <3>2, ReadRequest
    <2>3. TypeOK'
      BY <1>1, <1>2, <1>3, <1>4, <1>11, <2>1, <2>2 DEF TypeOK, fixed, cluster
    <2>4. \A u \in Workers : u # wk => Untouched(u)
      BY <1>2, <1>3, <1>4, <1>11 DEF TypeOK, Untouched
    <2>5. pc'[wk] = "get" /\ req'[wk] = q
      BY <1>2, <1>11, <2>1 DEF TypeOK
    <2>6. /\ <<k, truth[k].timestamp>> \in recorded
          /\ \A x \in recorded : x[1] = k => x[2] <= truth[k].timestamp
      BY <1>5, <1>11 DEF LTInv, TruthIsNewest
    <2>7. WorkerInv(wk)'
      <3>1. AtItsItem(wk)' /\ ProducerOnly(wk)' /\ CopiesTaken(wk)' /\ QueryIsForLast(wk)'
        BY <1>4, <1>9, <2>2, <2>5 DEF AtItsItem, ProducerOnly, CopiesTaken, QueryIsForLast
      <3>2. SnapshotIsNewest(wk)'
        <4>1. truth[k].timestamp \in B
          BY <2>6
        <4>2. \A t \in B : t <= truth[k].timestamp
          BY <2>6
        <4> HIDE DEF B, k
        <4> QED BY <1>11, <2>2, <2>5, <4>1, <4>2 DEF SnapshotIsNewest
      <3>3. ReadMeetsQuorum(wk)'
        <4>1. PICK x \in recorded : x = <<k, truth[k].timestamp>>
          BY <2>6
        <4>2. x[1] = k /\ x[2] = truth[k].timestamp
          BY <4>1
        <4>3. PICK Q \in SUBSET Targets : Cardinality(Q) >= config.w /\ \A n \in Q : Has(n, x[1], x[2])
          BY DEF LTInv, RecordedIsHeld
        <4>4. \A n \in Q : store'[n][k] # NoEntry /\ truth[k].timestamp <= store'[n][k].timestamp
          BY <1>1, <4>2, <4>3 DEF Has, cluster
        <4>5. config' = config
          BY <1>1 DEF fixed
        <4> HIDE DEF k, B
        <4> QED BY <1>5, <2>2, <2>5, <4>3, <4>4, <4>5 DEF ReadMeetsQuorum, Has
      <3>4. NeverStale(wk)' /\ LagIsOwn(wk)'
        BY <1>1, <1>2, <1>3, <1>4, <2>5 DEF NoVerdict, WorkerInv, NeverStale, LagIsOwn, fixed
      <3> QED BY <3>1, <3>2, <3>3, <3>4 DEF WorkerInv
    <2> QED BY <1>1, <1>3, <1>7, <1>8, <2>3, <2>4, <2>7, StepOf
  <1> QED BY <1>1, <1>10, <1>11

\* Recording an entry of key k keeps the newest.
LEMMA RecordKeepsNewest ==
    ASSUME TypeOK, TruthIsNewest, NEW k \in Keys, NEW e \in [value : Nat, timestamp : Nat],
           truth' = record(k, e), recorded' = recorded \cup {<<k, e.timestamp>>}
    PROVE  truth' \in [Keys -> Known] /\ TruthIsNewest'
  <1>1. /\ truth \in [Keys -> Known] /\ e \in Known /\ e # NoEntry /\ e.timestamp \in Nat
        /\ truth[k] # NoEntry => truth[k].timestamp \in Nat
    BY NoEntryAssumption, EntriesStamped DEF TypeOK, Known
  <1>2. truth' \in [Keys -> Known]
    BY <1>1 DEF record
  <1>3. ASSUME NEW l \in Keys
        PROVE  IF truth'[l] = NoEntry THEN \A x \in recorded' : x[1] # l
               ELSE /\ <<l, truth'[l].timestamp>> \in recorded'
                    /\ \A x \in recorded' : x[1] = l => x[2] <= truth'[l].timestamp
    <2>1. IF truth[l] = NoEntry THEN \A x \in recorded : x[1] # l
          ELSE /\ <<l, truth[l].timestamp>> \in recorded
               /\ \A x \in recorded : x[1] = l => x[2] <= truth[l].timestamp
      BY DEF TruthIsNewest
    <2>2. \A x \in recorded : x[2] \in Nat
      BY DEF TypeOK
    <2>3. CASE l # k
      <3>1. truth'[l] = truth[l]
        BY <1>1, <2>3 DEF record
      <3> QED BY <2>1, <2>3, <3>1
    <2>4. CASE l = k /\ (truth[k] = NoEntry \/ e.timestamp > truth[k].timestamp)
      <3>1. truth'[l] = e
        BY <1>1, <2>4 DEF record
      <3>2. CASE truth[k] = NoEntry
        BY <1>1, <2>1, <2>4, <3>1, <3>2
      <3>3. CASE truth[k] # NoEntry
        BY <1>1, <2>1, <2>2, <2>4, <3>1, <3>3
      <3> QED BY <3>2, <3>3
    <2>5. CASE l = k /\ truth[k] # NoEntry /\ ~(e.timestamp > truth[k].timestamp)
      <3>1. truth'[l] = truth[l]
        BY <1>1, <2>5 DEF record
      <3> QED BY <1>1, <2>1, <2>2, <2>5, <3>1
    <2> QED BY <2>3, <2>4, <2>5
  <1> QED BY <1>2, <1>3 DEF TruthIsNewest

\* A coordinator answers 200: what it applied is recorded, and is at w nodes.
LEMMA PutAnsweredKeepsInv ==
    ASSUME LTInv, NEW wk \in Workers, PutAnswered(wk)
    PROVE  LTInv' /\ NoVerdict
  <1> DEFINE v == req[wk].version
             k == Item(wk).key
             e == [value |-> v.value, timestamp |-> v.timestamp]
  <1>1. /\ pc[wk] \in {"applied", "rejected"} /\ Acked(wk) /\ Finish(wk)
        /\ UNCHANGED <<fixed, pos, counter, index, stats, cluster>>
        /\ \/ truth' = record(k, e) /\ recorded' = recorded \cup {<<k, v.timestamp>>}
           \/ UNCHANGED <<truth, recorded>>
    BY DEF PutAnswered
  <1>2. TypeOK /\ WorkerInv(wk) /\ TruthIsNewest
    BY DEF LTInv
  <1>3. v \in Version /\ k \in Keys /\ v.timestamp \in Nat /\ v.value \in Nat
    BY <1>1, <1>2, ItemInPlan, EntriesStamped DEF WorkerInv, AtItsItem
  <1>4. NoVerdict
    BY <1>1 DEF NoVerdict
  <1>5. CASE UNCHANGED <<truth, recorded>>
    BY <1>1, <1>2, <1>4, <1>5, EndsQuietly DEF LTInv, TypeOK
  <1>6. CASE truth' = record(k, e) /\ recorded' = recorded \cup {<<k, v.timestamp>>}
    <2>1. PICK ee \in [value : Nat, timestamp : Nat] : ee = e
      BY <1>3
    <2>2. PICK kk \in Keys : kk = k
      BY <1>3
    <2>3. ee.timestamp = v.timestamp
      BY <2>1
    <2>4. truth' = record(kk, ee) /\ recorded' = recorded \cup {<<kk, ee.timestamp>>}
      BY <1>6, <2>1, <2>2, <2>3
    <2>5. truth' \in [Keys -> Known] /\ TruthIsNewest'
      BY <1>2, <2>4, RecordKeepsNewest
    <2>6. pc' = [pc EXCEPT ![wk] = "next"] /\ req' = [req EXCEPT ![wk] = NoRequest]
      BY <1>1 DEF Finish
    <2>7. NoRequest \in Request /\ NoRequest.at = Leader
      BY RequestTypes
    <2>8. recorded' \subseteq Keys \X Nat
      BY <1>2, <1>3, <1>6 DEF TypeOK
    <2>9. TypeOK'
      BY <1>1, <1>2, <2>5, <2>6, <2>7, <2>8 DEF TypeOK, fixed, cluster
    <2>10. \A u \in Workers : u # wk => Untouched(u)
      BY <1>1, <1>2, <2>6 DEF TypeOK, Untouched
    <2>11. pc'[wk] = "next" /\ req'[wk] = NoRequest
      BY <1>2, <2>6 DEF TypeOK
    <2>12. Grows
      BY <1>1, SameStores DEF cluster
    <2>13. RecordedIsHeld'
      <3> SUFFICES ASSUME NEW x \in recorded'
                   PROVE  \E Q \in SUBSET Targets :
                            /\ Cardinality(Q) >= config.w
                            /\ \A n \in Q : Has(n, x[1], x[2])
        BY <1>1 DEF RecordedIsHeld, Has, fixed, cluster
      <3>1. CASE x \in recorded
        BY <3>1 DEF LTInv, RecordedIsHeld
      <3>2. CASE x = <<k, v.timestamp>>
        <4> DEFINE Q == {n \in Targets : <<n, k, v>> \notin inflight}
        <4>1. Cardinality(Q) >= config.w
          BY <1>1 DEF Acked
        <4>2. \A n \in Q : Has(n, k, v.timestamp)
          BY <1>1, <1>2 DEF WorkerInv, CopiesTaken
        <4>3. x[1] = k /\ x[2] = v.timestamp
          BY <3>2
        <4>4. Q \in SUBSET Targets
          OBVIOUS
        <4> HIDE DEF Q, k, v
        <4> QED BY <4>1, <4>2, <4>3, <4>4
      <3> QED BY <1>6, <3>1, <3>2
    <2>14. WorkerInv(wk)'
      <3>1. /\ AtItsItem(wk)' /\ ProducerOnly(wk)' /\ SnapshotIsNewest(wk)' /\ CopiesTaken(wk)'
            /\ ReadMeetsQuorum(wk)' /\ QueryIsForLast(wk)'
        BY <1>1, <1>2, <2>7, <2>11 DEF WorkerInv, AtItsItem, ProducerOnly, SnapshotIsNewest, CopiesTaken,
                                        ReadMeetsQuorum, QueryIsForLast, fixed
      <3>2. NeverStale(wk)' /\ LagIsOwn(wk)'
        BY <1>1, <1>2, <2>11 DEF WorkerInv, NeverStale, LagIsOwn, fixed
      <3> QED BY <3>1, <3>2 DEF WorkerInv
    <2> QED BY <1>1, <1>4, <2>5, <2>9, <2>10, <2>12, <2>13, <2>14, StepOf
  <1> QED BY <1>1, <1>5, <1>6

\* A copy reaches its node.
LEMMA DeliverKeepsInv ==
    ASSUME LTInv, NEW c \in inflight, Deliver(c[1], c[2], c[3])
    PROVE  LTInv' /\ NoVerdict
  <1>1. TypeOK /\ c[1] \in Targets /\ c[2] \in Keys /\ c[3] \in Version /\ c = <<c[1], c[2], c[3]>>
    BY DEF LTInv, TypeOK
  <1>2. PICK n \in Nodes, k \in Keys, v \in Version : c[1] = n /\ c[2] = k /\ c[3] = v
    BY <1>1 DEF Nodes
  <1>3. /\ store' = [store EXCEPT ![n][k] = Put(@, v)]
        /\ inflight' = inflight \ {c}
        /\ UNCHANGED <<fixed, pc, pos, req, counter, index, truth, stats, recorded>>
    BY <1>1, <1>2 DEF Deliver
  <1>4. /\ store' \in [Nodes -> [Keys -> Entry]]
        /\ \A m \in Nodes, l \in Keys, t \in Nat : Has(m, l, t) => Has(m, l, t)'
        /\ Has(n, k, v.timestamp)'
    BY <1>1, <1>2, <1>3, StoreGrows
  <1>5. Grows
    BY <1>2, <1>3, <1>4 DEF Grows
  <1>6. \A u \in Workers : WorkerInv(u)'
    BY <1>3, <1>5, OthersKeep DEF Untouched
  <1>7. TypeOK' /\ TruthIsNewest' /\ RecordedIsHeld'
    BY <1>1, <1>3, <1>4, <1>5, RecordedKept DEF LTInv, TypeOK, TruthIsNewest, fixed
  <1> QED BY <1>3, <1>6, <1>7 DEF LTInv, NoVerdict

\* The request after its coordinator stamped it.
LEMMA StampedRequest ==
    ASSUME NEW q \in Request, NEW v \in Version, NEW m, m = [q EXCEPT !.version = v]
    PROVE  m \in Request /\ m.version = v /\ m.at = q.at
  BY DEF Request, Entry

\* A coordinator stamps a PUT, stores it and sends it on.
LEMMA PutArrivesKeepsInv ==
    ASSUME LTInv, NEW wk \in Workers, PutArrives(wk)
    PROVE  LTInv' /\ NoVerdict
  <1>1. /\ TypeOK /\ WorkerInv(wk) /\ req[wk] \in Request /\ pc[wk] = "put"
        /\ req[wk].at \in Nodes /\ req[wk].value \in Nat
    BY DEF LTInv, TypeOK, Request, PutArrives
  <1>2. Item(wk).key \in Keys
    BY <1>1, ItemInPlan DEF WorkerInv
  <1>3. PICK t \in Timestamps :
          LET v == [value |-> req[wk].value, timestamp |-> t, node_id |-> req[wk].at]
              stored == config.strategy # "message_queue"
          IN  /\ req' = [req EXCEPT ![wk].version = v]
              /\ pc' = [pc EXCEPT ![wk] =
                          IF stored /\ ~Applies(store[req[wk].at][Item(wk).key], v) THEN "rejected" ELSE "applied"]
              /\ store' = IF stored THEN [store EXCEPT ![req[wk].at][Item(wk).key] = Put(@, v)] ELSE store
              /\ inflight' = inflight \cup {<<n, Item(wk).key, v>> : n \in Targets \ {req[wk].at}}
    BY DEF PutArrives
  <1>4. UNCHANGED <<fixed, pos, counter, index, truth, stats, recorded>>
    BY DEF PutArrives
  <1>5. PICK v \in Version : v = [value |-> req[wk].value, timestamp |-> t, node_id |-> req[wk].at]
    BY <1>1, StampIsVersion
  <1>6. PICK at \in Nodes, k \in Keys : at = req[wk].at /\ k = Item(wk).key
    BY <1>1, <1>2
  <1>7. PICK m : m = [req[wk] EXCEPT !.version = v]
    OBVIOUS
  <1>8. m \in Request /\ m.version = v /\ m.at = at
    BY <1>1, <1>6, <1>7, StampedRequest
  <1>9. req' = [req EXCEPT ![wk] = m]
    BY <1>3, <1>5, <1>7, Zenon
  <1>10. PICK p \in {"applied", "rejected"} : pc' = [pc EXCEPT ![wk] = p]
    BY <1>3
  <1>11. /\ config.strategy # "message_queue" => store' = [store EXCEPT ![at][k] = Put(@, v)]
         /\ config.strategy = "message_queue" => store' = store
         /\ inflight' = inflight \cup {<<n, k, v>> : n \in Targets \ {at}}
    BY <1>3, <1>5, <1>6
  <1>12. /\ store' \in [Nodes -> [Keys -> Entry]]
         /\ \A n \in Nodes, l \in Keys, x \in Nat : Has(n, l, x) => Has(n, l, x)'
         /\ config.strategy # "message_queue" => Has(at, k, v.timestamp)'
    <2>1. CASE config.strategy # "message_queue"
      BY <1>1, <1>11, <2>1, StoreGrows
    <2>2. CASE config.strategy = "message_queue"
      BY <1>1, <1>11, <2>2 DEF Has, TypeOK
    <2> QED BY <2>1, <2>2
  <1>13. inflight' \subseteq Targets \X Keys \X Version /\ inflight \subseteq inflight'
    BY <1>1, <1>11 DEF TypeOK
  <1>14. Grows
    BY <1>12, <1>13 DEF Grows
  <1>15. TypeOK'
    BY <1>1, <1>4, <1>8, <1>9, <1>10, <1>12, <1>13 DEF TypeOK, fixed
  <1>16. \A u \in Workers : u # wk => Untouched(u)
    BY <1>1, <1>4, <1>9, <1>10 DEF TypeOK, Untouched
  <1>17. /\ pc'[wk] = p /\ req'[wk] = m /\ pos'[wk] = pos[wk] /\ stats'[wk] = stats[wk]
         /\ config' = config /\ plan_chunks' = plan_chunks
    BY <1>1, <1>4, <1>9, <1>10 DEF TypeOK, fixed
  <1>18. Item(wk)' = Item(wk) /\ (Item(wk)').key = k
    BY <1>6, <1>17 DEF Item
  <1>19. TruthIsNewest' /\ RecordedIsHeld'
    BY <1>4, <1>14, RecordedKept DEF LTInv, TruthIsNewest, fixed
  <1>20. WorkerInv(wk)'
    <2>1. AtItsItem(wk)'
      <3>1. pos[wk] <= Len(plan_chunks[wk]) /\ pos[wk] \in 1 .. Len(plan_chunks[wk]) /\ ~Item(wk).is_read
        BY <1>1 DEF WorkerInv, AtItsItem
      <3> QED BY <1>8, <1>10, <1>17, <1>18, <3>1 DEF AtItsItem
    <2>2. ProducerOnly(wk)' /\ SnapshotIsNewest(wk)' /\ ReadMeetsQuorum(wk)' /\ QueryIsForLast(wk)'
      BY <1>1, <1>6, <1>8, <1>10, <1>17 DEF WorkerInv, ProducerOnly, SnapshotIsNewest, ReadMeetsQuorum, QueryIsForLast
    <2>3. NeverStale(wk)' /\ LagIsOwn(wk)'
      BY <1>1, <1>10, <1>17 DEF WorkerInv, NeverStale, LagIsOwn
    <2>4. CopiesTaken(wk)'
      <3> SUFFICES ASSUME NEW n \in Targets
                   PROVE  \/ <<n, k, v>> \in inflight'
                          \/ Has(n, k, v.timestamp)'
        BY <1>8, <1>17, <1>18 DEF CopiesTaken, Has
      <3>1. CASE n # at
        BY <1>11, <3>1
      <3>2. CASE n = at
        <4>1. at # Leader
          BY <3>2, SizeAssumption DEF Targets, Leader
        <4>2. config.strategy # "message_queue"
          BY <1>1, <1>6, <4>1 DEF WorkerInv, ProducerOnly
        <4> QED BY <1>12, <3>2, <4>2
      <3> QED BY <3>1, <3>2
    <2> QED BY <2>1, <2>2, <2>3, <2>4 DEF WorkerInv
  <1> QED BY <1>4, <1>14, <1>15, <1>16, <1>19, <1>20, StepOf DEF NoVerdict

\* One more node of a read's quorum answers.
LEMMA ServeReadKeepsInv ==
    ASSUME LTInv, NEW wk \in Workers, NEW n \in Targets, ServeRead(wk, n)
    PROVE  LTInv' /\ NoVerdict
  <1>1. /\ TypeOK /\ WorkerInv(wk) /\ req[wk] \in Request /\ pc[wk] = "get"
        /\ n \in Nodes /\ req[wk].best \in Entry /\ req[wk].expected \in Known
    BY DEF LTInv, TypeOK, Request, ServeRead, Nodes
  <1>2. Item(wk).key \in Keys
    BY <1>1, ItemInPlan DEF WorkerInv
  <1>3. PICK entry \in Entry : entry = store[n][Item(wk).key]
    BY <1>1, <1>2 DEF TypeOK
  <1> DEFINE b == IF entry = NoEntry THEN req[wk].best ELSE Put(req[wk].best, entry)
             m1 == [req[wk] EXCEPT !.asked = req[wk].asked \cup {n}]
             m == [m1 EXCEPT !.best = b]
  <1>4. req' = [req EXCEPT ![wk] = m]
    <2> DEFINE f1 == [req EXCEPT ![wk].asked = @ \cup {n}]
               f2 == [f1 EXCEPT ![wk].best = IF entry = NoEntry THEN @ ELSE Put(@, entry)]
    <2>1. req' = f2
      BY <1>3, Zenon DEF ServeRead
    <2>2. f1 = [req EXCEPT ![wk] = m1]
      BY Zenon
    <2>3. f2 = [f1 EXCEPT ![wk] = [f1[wk] EXCEPT !.best =
                  IF entry = NoEntry THEN f1[wk].best ELSE Put(f1[wk].best, entry)]]
      BY Zenon
    <2>4. m1.best = req[wk].best
      BY <1>1 DEF Request
    <2> HIDE DEF m1, f1, f2
    <2>5. f1[wk] = m1
      BY <1>1, <2>2 DEF TypeOK
    <2>6. f2 = [f1 EXCEPT ![wk] = m]
      BY <2>3, <2>4, <2>5
    <2> HIDE DEF m
    <2> QED BY <2>1, <2>2, <2>6
  <1>5. /\ b \in Entry
        /\ entry # NoEntry => b # NoEntry /\ entry.timestamp <= b.timestamp
        /\ req[wk].best # NoEntry => b # NoEntry /\ req[wk].best.timestamp <= b.timestamp
    <2>1. CASE entry = NoEntry
      BY <1>1, <2>1, EntriesStamped
    <2>2. CASE entry # NoEntry
      <3>1. entry \in Version
        BY <2>2 DEF Entry
      <3> QED BY <1>1, <2>2, <3>1, PutIsNewer DEF Entry
    <2> QED BY <2>1, <2>2
  <1> HIDE DEF b
  <1>6. /\ m \in Request /\ m.asked = req[wk].asked \cup {n} /\ m.best = b
        /\ m.at = req[wk].at /\ m.version = req[wk].version
        /\ m.expected = req[wk].expected /\ m.before = req[wk].before
    <2>1. PICK q \in Request : q = req[wk]
      BY <1>1
    <2>2. PICK h : h = [q EXCEPT !.asked = q.asked \cup {n}]
      OBVIOUS
    <2>3. PICK g : g = [h EXCEPT !.best = b]
      OBVIOUS
    <2>4. /\ g \in Request /\ g.asked = q.asked \cup {n} /\ g.best = b
          /\ g.at = q.at /\ g.version = q.version /\ g.expected = q.expected /\ g.before = q.before
      <3>1. q.asked \cup {n} \in SUBSET Targets
        BY DEF Request
      <3>2. /\ h \in Request /\ h.asked = q.asked \cup {n} /\ h.at = q.at
            /\ h.version = q.version /\ h.expected = q.expected /\ h.before = q.before
        BY <2>2, <3>1 DEF Request
      <3> QED BY <1>5, <2>3, <3>2 DEF Request
    <2>5. g = m
      BY <2>1, <2>2, <2>3, Zenon
    <2> QED BY <2>1, <2>4, <2>5
  <1> HIDE DEF m
  <1>7. UNCHANGED <<fixed, pc, pos, counter, index, truth, stats, cluster, recorded>>
    BY DEF ServeRead
  <1>8. TypeOK'
    BY <1>1, <1>4, <1>6, <1>7 DEF TypeOK, fixed, cluster
  <1>9. \A u \in Workers : u # wk => Untouched(u)
    BY <1>1, <1>4, <1>7 DEF TypeOK, Untouched
  <1>10. req'[wk] = m /\ config' = config /\ plan_chunks' = plan_chunks
    BY <1>1, <1>4, <1>7 DEF TypeOK, fixed
  <1>11. Item(wk)' = Item(wk)
    BY <1>7, <1>10 DEF Item
  <1>12. Grows
    BY <1>7, SameStores DEF cluster
  <1>13. TruthIsNewest' /\ RecordedIsHeld'
    BY <1>7, <1>12, RecordedKept DEF LTInv, TruthIsNewest, fixed
  <1>14. WorkerInv(wk)'
    <2>1. AtItsItem(wk)' /\ ProducerOnly(wk)' /\ CopiesTaken(wk)' /\ QueryIsForLast(wk)'
      BY <1>1, <1>6, <1>7, <1>10, <1>11 DEF WorkerInv, AtItsItem, ProducerOnly, CopiesTaken, QueryIsForLast
    <2>2. SnapshotIsNewest(wk)' /\ NeverStale(wk)' /\ LagIsOwn(wk)'
      BY <1>1, <1>6, <1>7, <1>10 DEF WorkerInv, SnapshotIsNewest, NeverStale, LagIsOwn
    <2>3. ReadMeetsQuorum(wk)'
      <3>1. PICK x \in Nat : x = req[wk].expected.timestamp
        BY <1>1, EntriesStamped DEF WorkerInv, SnapshotIsNewest
      <3>2. PICK Q \in SUBSET Targets :
              /\ Cardinality(Q) >= config.w
              /\ \A l \in Q :
                   /\ Has(l, Item(wk).key, x)
                   /\ l \in req[wk].asked => req[wk].best # NoEntry /\ x <= req[wk].best.timestamp
        BY <1>1, <3>1 DEF WorkerInv, ReadMeetsQuorum
      <3>3. ASSUME NEW l \in Q, l \in m.asked PROVE m.best # NoEntry /\ x <= m.best.timestamp
        <4>1. b # NoEntry => b.timestamp \in Nat
          BY <1>5, EntriesStamped
        <4>2. CASE l = n
          <5>1. entry # NoEntry /\ x <= entry.timestamp
            BY <1>3, <3>2, <4>2 DEF Has
          <5>2. entry.timestamp \in Nat
            BY <5>1, EntriesStamped
          <5> QED BY <1>5, <1>6, <4>1, <5>1, <5>2
        <4>3. CASE l \in req[wk].asked
          <5>1. req[wk].best # NoEntry /\ x <= req[wk].best.timestamp
            BY <3>2, <4>3
          <5>2. req[wk].best.timestamp \in Nat
            BY <1>1, <5>1, EntriesStamped
          <5> QED BY <1>5, <1>6, <4>1, <5>1, <5>2
        <4> QED BY <1>6, <3>3, <4>2, <4>3
      <3>4. \A l \in Q : store'[l][Item(wk).key] # NoEntry /\ x <= store'[l][Item(wk).key].timestamp
        BY <1>7, <3>2 DEF Has, cluster
      <3>5. m.expected.timestamp = x
        BY <1>6, <3>1
      <3> QED BY <1>7, <1>10, <1>11, <3>2, <3>3, <3>4, <3>5 DEF ReadMeetsQuorum, Has
    <2> QED BY <2>1, <2>2, <2>3 DEF WorkerInv
  <1> QED BY <1>7, <1>8, <1>9, <1>12, <1>13, <1>14, StepOf DEF NoVerdict

-----------------------------------------------------------------------------
(* Verdicts                                                                *)

\* What is known of a read when it is judged.
LEMMA JudgedRead ==
    ASSUME LTInv, NEW wk \in Workers, pc[wk] = "get"
    PROVE  /\ EventOf(wk) \in Event /\ EventOf(wk).node = Item(wk).target /\ EventOf(wk).lag_from = {}
           /\ req[wk].expected.timestamp \in req[wk].before
           /\ \A t \in req[wk].before : t \in Nat /\ t <= req[wk].expected.timestamp
           /\ req[wk].best # NoEntry => req[wk].best.timestamp \in Nat
  <1>1. /\ TypeOK /\ WorkerInv(wk) /\ req[wk] \in Request /\ req[wk].best \in Entry
        /\ req[wk].expected \in Known /\ req[wk].before \in SUBSET Nat
    BY DEF LTInv, TypeOK, Request
  <1>2. Item(wk).key \in Keys /\ Item(wk).target \in Targets
    BY <1>1, ItemInPlan DEF WorkerInv
  <1>3. /\ req[wk].expected # NoEntry
        /\ req[wk].expected.timestamp \in req[wk].before
        /\ \A t \in req[wk].before : t <= req[wk].expected.timestamp
    BY <1>1 DEF WorkerInv, SnapshotIsNewest
  <1>4. /\ req[wk].expected.timestamp \in Nat
        /\ req[wk].best # NoEntry => req[wk].best.timestamp \in Nat
    BY <1>1, <1>3, EntriesStamped
  <1>5. PICK a \in SUBSET Nat : a = IF req[wk].best = NoEntry THEN {} ELSE {req[wk].best.timestamp}
    BY <1>4
  <1>6. EventOf(wk) = [key |-> Item(wk).key, node |-> Item(wk).target,
                       expected |-> req[wk].expected.timestamp, actual |-> a, lag_from |-> {}]
    BY <1>5 DEF EventOf
  <1>7. EventOf(wk) \in Event /\ EventOf(wk).node = Item(wk).target /\ EventOf(wk).lag_from = {}
    <2> HIDE DEF EventOf, Item
    <2> QED BY <1>2, <1>4, <1>6 DEF Event
  <1> QED BY <1>1, <1>3, <1>4, <1>7

\* A read of r nodes is not stale when every recorded write is at w of them and
\* the two quorums overlap.
LEMMA StrictReadIsFresh ==
    ASSUME LTInv, NEW wk \in Workers, pc[wk] = "get", Cardinality(req[wk].asked) = config.r,
           config.w + config.r > N
    PROVE  ~IsStale(req[wk].best, req[wk].expected)
  <1>1. /\ WorkerInv(wk) /\ config \in Configs /\ req[wk].asked \in SUBSET Targets
        /\ req[wk].best \in Entry /\ req[wk].expected \in Known
    BY DEF LTInv, TypeOK, Request
  <1>2. PICK Q \in SUBSET Targets :
          /\ Cardinality(Q) >= config.w
          /\ \A n \in Q : n \in req[wk].asked =>
               req[wk].best # NoEntry /\ req[wk].expected.timestamp <= req[wk].best.timestamp
    BY <1>1 DEF WorkerInv, ReadMeetsQuorum
  <1>3. config.w \in Nat /\ config.r \in Nat
    BY <1>1, ConfigFacts
  <1>4. PICK P \in SUBSET Targets, w \in Nat, r \in Nat : P = req[wk].asked /\ w = config.w /\ r = config.r
    BY <1>1, <1>3
  <1>5. P \cap Q # {}
    <2>1. Cardinality(P) >= r /\ Cardinality(Q) >= w /\ w + r > N
      BY <1>2, <1>4
    <2> QED BY <2>1, QuorumsMeet
  <1>6. req[wk].best # NoEntry /\ req[wk].expected.timestamp <= req[wk].best.timestamp
    BY <1>2, <1>4, <1>5
  <1>7. req[wk].best.timestamp \in Nat
    BY <1>1, <1>6, EntriesStamped
  <1>8. req[wk].expected.timestamp \in Nat
    BY <1>1, EntriesStamped DEF WorkerInv, SnapshotIsNewest
  <1> QED BY <1>6, <1>7, <1>8 DEF IsStale

\* A read is judged.
LEMMA JudgeKeepsInv ==
    ASSUME LTInv, NEW wk \in Workers, Judge(wk)
    PROVE  LTInv'
  <1> DEFINE stale == IsStale(req[wk].best, req[wk].expected)
             old == stats[wk].stale_events
             new == stats'[wk].stale_events
  <1>1. /\ pc[wk] = "get" /\ Cardinality(req[wk].asked) = config.r
        /\ stats' = Compared(wk, req[wk].expected)
        /\ UNCHANGED <<fixed, pos, counter, index, truth, cluster, recorded>>
        /\ \/ stale /\ SamplesLag /\ pc' = [pc EXCEPT ![wk] = "lag"] /\ UNCHANGED req
           \/ ~(stale /\ SamplesLag) /\ Finish(wk)
    BY DEF Judge
  <1>2. TypeOK /\ WorkerInv(wk) /\ stats \in [Workers -> Stats] /\ config \in Configs
    BY DEF LTInv, TypeOK
  <1>3. EventOf(wk) \in Event /\ EventOf(wk).node = Item(wk).target /\ EventOf(wk).lag_from = {}
    BY <1>1, JudgedRead
  <1>4. /\ stats' \in [Workers -> Stats]
        /\ \A u \in Workers : u # wk => stats'[u] = stats[u]
        /\ IF stale
           THEN stats'[wk].stale_reads = stats[wk].stale_reads + 1 /\ new = Append(old, EventOf(wk))
           ELSE stats'[wk].stale_reads = stats[wk].stale_reads /\ new = old
    BY <1>1, <1>2, <1>3, VerdictStats
  <1>5. config.w + config.r > N => ~stale
    BY <1>1, StrictReadIsFresh
  <1> HIDE DEF stale
  <1>6. CASE ~stale
    BY <1>1, <1>4, <1>6, EndsQuietly
  <1>7. CASE stale
    <2>1. /\ old \in Seq(Event) /\ Len(old) \in Nat /\ Len(new) = Len(old) + 1
          /\ \A i \in 1 .. Len(old) : new[i] = old[i]
          /\ new[Len(old) + 1] = EventOf(wk)
      <3>1. old \in Seq(Event)
        BY <1>2 DEF Stats
      <3>2. PICK o \in Seq(Event), e \in Event : o = old /\ e = EventOf(wk)
        BY <1>3, <3>1
      <3>3. /\ Len(o) \in Nat /\ Len(Append(o, e)) = Len(o) + 1
            /\ \A i \in 1 .. Len(o) : Append(o, e)[i] = o[i]
            /\ Append(o, e)[Len(o) + 1] = e
        BY AppendProperties, LenProperties
      <3>4. new = Append(o, e)
        BY <1>4, <1>7, <3>2
      <3> HIDE DEF old, new
      <3> QED BY <3>1, <3>2, <3>3, <3>4
    <2>2. Grows
      BY <1>1, SameStores DEF cluster
    <2>3. TruthIsNewest' /\ RecordedIsHeld'
      BY <1>1, <2>2, RecordedKept DEF LTInv, TruthIsNewest, fixed
    <2>4. NoRequest \in Request /\ NoRequest.at = Leader
      BY RequestTypes
    <2>5. /\ pc' \in [Workers -> {"next", "put", "applied", "rejected", "get", "lag"}]
          /\ req' \in [Workers -> Request]
          /\ \A u \in Workers : u # wk => pc'[u] = pc[u] /\ req'[u] = req[u]
          /\ pc'[wk] = IF SamplesLag THEN "lag" ELSE "next"
          /\ req'[wk].at = req[wk].at \/ req'[wk].at = Leader
      BY <1>1, <1>2, <1>7, <2>4 DEF TypeOK, Finish
    <2>6. TypeOK'
      BY <1>1, <1>2, <1>4, <2>5 DEF TypeOK, fixed, cluster
    <2>7. \A u \in Workers : u # wk => Untouched(u)
      BY <1>1, <1>4, <2>5 DEF Untouched
    <2>8. config' = config /\ plan_chunks' = plan_chunks /\ Item(wk)' = Item(wk) /\ pos' = pos
      BY <1>1 DEF fixed, Item
    <2>9. WorkerInv(wk)'
      <3>1. AtItsItem(wk)'
        BY <1>1, <1>2, <2>5, <2>8 DEF WorkerInv, AtItsItem
      <3>2. ProducerOnly(wk)'
        BY <1>2, <2>5, <2>8 DEF WorkerInv, ProducerOnly
      <3>3. SnapshotIsNewest(wk)' /\ CopiesTaken(wk)' /\ ReadMeetsQuorum(wk)'
        BY <2>5 DEF SnapshotIsNewest, CopiesTaken, ReadMeetsQuorum
      <3>4. NeverStale(wk)'
        BY <1>5, <1>7, <2>8 DEF NeverStale
      <3>5. QueryIsForLast(wk)'
        <4>1. pc'[wk] = "lag" => config.strategy = "message_queue"
          BY <2>5 DEF SamplesLag
        <4>2. Len(new) > 0 /\ new[Len(new)].node = Item(wk).target
          BY <1>3, <2>1
        <4> QED BY <2>8, <4>1, <4>2 DEF QueryIsForLast
      <3>6. LagIsOwn(wk)'
        <4> SUFFICES ASSUME NEW i \in 1 .. Len(new)
                     PROVE  new[i].lag_from =
                              IF \/ config.strategy # "message_queue"
                                 \/ pc'[wk] = "lag" /\ i = Len(new)
                              THEN {} ELSE {new[i].node}
          BY <2>8 DEF LagIsOwn
        <4>1. config.strategy = "message_queue" => pc'[wk] = "lag"
          BY <2>5 DEF SamplesLag
        <4>2. CASE i = Len(new)
          BY <1>3, <2>1, <4>1, <4>2
        <4>3. CASE i # Len(new)
          <5>1. i \in 1 .. Len(old) /\ new[i] = old[i]
            BY <2>1, <4>3
          <5>2. old[i].lag_from = IF config.strategy # "message_queue" THEN {} ELSE {old[i].node}
            BY <1>1, <1>2, <5>1 DEF WorkerInv, LagIsOwn
          <5> QED BY <4>3, <5>1, <5>2
        <4> QED BY <4>2, <4>3
      <3> QED BY <3>1, <3>2, <3>3, <3>4, <3>5, <3>6 DEF WorkerInv
    <2> QED BY <1>1, <2>2, <2>3, <2>6, <2>7, <2>9, StepOf
  <1> QED BY <1>6, <1>7

\* A follower's lag is attached to the read it was asked for.
LEMMA QueryKeepsInv ==
    ASSUME LTInv, NEW wk \in Workers, query_lag(wk)
    PROVE  LTInv' /\ \A u \in Workers : /\ stats'[u].comparable_reads = stats[u].comparable_reads
                                        /\ stats'[u].stale_reads = stats[u].stale_reads
  <1> DEFINE old == stats[wk].stale_events
             new == stats'[wk].stale_events
  <1>1. /\ pc[wk] = "lag" /\ Finish(wk)
        /\ UNCHANGED <<fixed, pos, counter, index, truth, cluster, recorded>>
    BY DEF query_lag
  <1>2. TypeOK /\ WorkerInv(wk) /\ stats \in [Workers -> Stats]
    BY DEF LTInv, TypeOK
  <1>3. /\ Len(old) > 0 /\ old[Len(old)].node = Item(wk).target
        /\ config.strategy = "message_queue" /\ Item(wk).target \in Targets
    BY <1>1, <1>2, ItemInPlan DEF WorkerInv, QueryIsForLast
  <1>4. /\ stats' \in [Workers -> Stats]
        /\ \A u \in Workers : u # wk => stats'[u] = stats[u]
        /\ stats'[wk].comparable_reads = stats[wk].comparable_reads
        /\ stats'[wk].stale_reads = stats[wk].stale_reads
        /\ Len(new) = Len(old)
        /\ \A i \in 1 .. Len(old) :
             /\ new[i].node = old[i].node
             /\ new[i].lag_from = IF i = Len(old) THEN {Item(wk).target} ELSE old[i].lag_from
    BY <1>2, <1>3, SampleStats
  <1>5. pc' = [pc EXCEPT ![wk] = "next"] /\ req' = [req EXCEPT ![wk] = NoRequest]
    BY <1>1 DEF Finish
  <1>6. NoRequest \in Request /\ NoRequest.at = Leader
    BY RequestTypes
  <1>7. TypeOK'
    BY <1>1, <1>2, <1>4, <1>5, <1>6 DEF TypeOK, fixed, cluster
  <1>8. \A u \in Workers : u # wk => Untouched(u)
    BY <1>1, <1>2, <1>4, <1>5 DEF TypeOK, Untouched
  <1>9. pc'[wk] = "next" /\ req'[wk] = NoRequest
    BY <1>2, <1>5 DEF TypeOK
  <1>10. Grows
    BY <1>1, SameStores DEF cluster
  <1>11. TruthIsNewest' /\ RecordedIsHeld'
    BY <1>1, <1>10, RecordedKept DEF LTInv, TruthIsNewest, fixed
  <1>12. WorkerInv(wk)'
    <2>1. /\ AtItsItem(wk)' /\ ProducerOnly(wk)' /\ SnapshotIsNewest(wk)' /\ CopiesTaken(wk)'
          /\ ReadMeetsQuorum(wk)' /\ QueryIsForLast(wk)'
      BY <1>1, <1>2, <1>6, <1>9 DEF WorkerInv, AtItsItem, ProducerOnly, SnapshotIsNewest, CopiesTaken,
                                     ReadMeetsQuorum, QueryIsForLast, fixed
    <2>2. NeverStale(wk)'
      BY <1>1, <1>2, <1>4 DEF WorkerInv, NeverStale, fixed
    <2>3. LagIsOwn(wk)'
      <3>1. ASSUME NEW i \in 1 .. Len(old) PROVE new[i].lag_from = {new[i].node}
        <4>1. CASE i = Len(old)
          BY <1>3, <1>4, <4>1
        <4>2. CASE i # Len(old)
          <5>1. old[i].lag_from = {old[i].node}
            BY <1>2, <1>3, <4>2 DEF WorkerInv, LagIsOwn
          <5> QED BY <1>4, <4>2, <5>1
        <4> QED BY <4>1, <4>2
      <3>2. config'.strategy = "message_queue"
        BY <1>1, <1>3 DEF fixed
      <3> QED BY <1>4, <1>9, <3>1, <3>2 DEF LagIsOwn
    <2> QED BY <2>1, <2>2, <2>3 DEF WorkerInv
  <1> QED BY <1>1, <1>4, <1>7, <1>8, <1>10, <1>11, <1>12, StepOf

-----------------------------------------------------------------------------
(* The theorems                                                            *)

\* A worker writes at the leader, at the producer, or at the next node in turn.
LEMMA NextCases ==
    ASSUME TypeOK, Next
    PROVE  \/ Discover \/ MergeStats
           \/ \E wk \in Workers :
                \/ \E at \in Nodes : /\ IssuePut(wk, at) /\ index' \in Nat
                                     /\ config.strategy = "message_queue" => at = Leader
                \/ PutAnswered(wk) \/ PutFails(wk) \/ IssueGet(wk) \/ GetFails(wk) \/ Judge(wk)
                \/ query_lag(wk) \/ PutArrives(wk)
                \/ \E n \in Targets : ServeRead(wk, n)
           \/ \E c \in inflight : Deliver(c[1], c[2], c[3])
  <1>1. CASE run_load_test
    BY <1>1 DEF run_load_test, leader_run_load_test, leaderless_run_load_test, mq_run_load_test
  <1>2. ASSUME NEW wk \in Workers, run_worker(wk)
        PROVE  \/ \E at \in Nodes : /\ IssuePut(wk, at) /\ index' \in Nat
                                    /\ config.strategy = "message_queue" => at = Leader
               \/ PutAnswered(wk) \/ PutFails(wk) \/ IssueGet(wk) \/ GetFails(wk) \/ Judge(wk)
               \/ query_lag(wk)
    <2>1. index \in Nat /\ Leader \in Nodes
      BY DEF TypeOK, Nodes
    <2>2. CASE leader_run_worker(wk)
      BY <2>1, <2>2 DEF leader_run_worker, leader_do_write, leader_do_read
    <2>3. CASE leaderless_run_worker(wk)
      <3>1. N \in Nat /\ N > 0
        BY SizeAssumption
      <3>2. index % N \in 0 .. N - 1
        BY <2>1, <3>1
      <3>3. next_node \in Nodes
        BY <3>1, <3>2 DEF next_node, Nodes, Targets
      <3>4. CASE IssuePut(wk, next_node) /\ index' = index + 1
        <4>1. config.strategy # "message_queue"
          BY <2>3 DEF leaderless_run_worker
        <4>2. index' \in Nat
          BY <2>1, <3>4
        <4> HIDE DEF next_node
        <4> QED BY <3>3, <3>4, <4>1, <4>2
      <3> QED BY <2>3, <3>4 DEF leaderless_run_worker, leaderless_do_write, leaderless_do_read
    <2>4. CASE mq_run_worker(wk)
      BY <2>1, <2>4 DEF mq_run_worker, mq_do_write, mq_do_read
    <2> QED BY <1>2, <2>2, <2>3, <2>4 DEF run_worker
  <1> QED BY <1>1, <1>2 DEF Next

\* The invariant holds at first: nothing was written, sent or recorded.
LEMMA LTInit == Init => LTInv
  <1> SUFFICES ASSUME Init PROVE LTInv
    OBVIOUS
  <1>1. NewStats \in Stats /\ NewStats.stale_reads = 0 /\ NewStats.stale_events = <<>>
    <2>1. <<>> \in Seq(Event)
      BY EmptySeq
    <2> QED BY <2>1 DEF NewStats, Stats
  <1>2. plan_chunks \in [Workers -> Seq(RequestPlan)]
    BY ChunkPlace DEF Init
  <1>3. NoRequest \in Request /\ NoRequest.at = Leader
    BY RequestTypes
  <1>4. TypeOK
    BY <1>1, <1>2, <1>3 DEF Init, TypeOK, Known, Entry, Nodes
  <1>5. TruthIsNewest /\ RecordedIsHeld
    BY DEF Init, TruthIsNewest, RecordedIsHeld
  <1>6. ASSUME NEW wk \in Workers PROVE WorkerInv(wk)
    <2>1. /\ pc[wk] = "next" /\ pos[wk] = 0 /\ req[wk] = NoRequest /\ stats[wk] = NewStats
      BY DEF Init
    <2>2. Len(plan_chunks[wk]) \in Nat
      BY <1>2, LenProperties
    <2>3. LagIsOwn(wk)
      <3>1. Len(stats[wk].stale_events) = 0
        BY <1>1, <2>1, EmptySeq
      <3> QED BY <3>1 DEF LagIsOwn
    <2> QED BY <1>1, <1>3, <2>1, <2>2, <2>3 DEF WorkerInv, AtItsItem, ProducerOnly, SnapshotIsNewest,
                        CopiesTaken, ReadMeetsQuorum, NeverStale, QueryIsForLast
  <1> QED BY <1>4, <1>5, <1>6 DEF LTInv

\* Every step keeps the invariant, and only Judge counts a comparison.
LEMMA LTNext ==
    ASSUME LTInv, Next
    PROVE  LTInv' /\ ((\E wk \in Workers : Judge(wk))
                        \/ \A u \in Workers : stats'[u].comparable_reads = stats[u].comparable_reads)
  <1>1. TypeOK
    BY DEF LTInv
  <1>2. CASE Discover \/ MergeStats
    BY <1>2, RunKeepsInv DEF NoVerdict
  <1>3. ASSUME NEW wk \in Workers, NEW at \in Nodes, IssuePut(wk, at), index' \in Nat,
               config.strategy = "message_queue" => at = Leader
        PROVE  LTInv' /\ NoVerdict
    BY <1>3, IssuePutKeepsInv
  <1>4. ASSUME NEW wk \in Workers,
               \/ PutAnswered(wk) \/ PutFails(wk) \/ IssueGet(wk) \/ GetFails(wk) \/ PutArrives(wk)
        PROVE  LTInv' /\ NoVerdict
    BY <1>4, PutAnsweredKeepsInv, FailuresKeepInv, IssueGetKeepsInv, PutArrivesKeepsInv
  <1>5. ASSUME NEW wk \in Workers, Judge(wk) PROVE LTInv'
    BY <1>5, JudgeKeepsInv
  <1>6. ASSUME NEW wk \in Workers, query_lag(wk)
        PROVE  LTInv' /\ \A u \in Workers : stats'[u].comparable_reads = stats[u].comparable_reads
    BY <1>6, QueryKeepsInv
  <1>7. ASSUME NEW wk \in Workers, NEW n \in Targets, ServeRead(wk, n) PROVE LTInv' /\ NoVerdict
    BY <1>7, ServeReadKeepsInv
  <1>8. ASSUME NEW c \in inflight, Deliver(c[1], c[2], c[3]) PROVE LTInv' /\ NoVerdict
    BY <1>8, DeliverKeepsInv
  <1> QED BY <1>1, <1>2, <1>3, <1>4, <1>5, <1>6, <1>7, <1>8, NextCases DEF NoVerdict

\* Nothing of it depends on a step that changes nothing.
LEMMA LTStutter ==
    ASSUME LTInv, UNCHANGED vars
    PROVE  LTInv'
  <1>1. /\ UNCHANGED <<fixed, pc, pos, req, counter, index, truth, stats, cluster, recorded>>
    BY DEF vars, fixed, cluster
  <1>2. Grows
    BY <1>1, SameStores DEF cluster
  <1>3. \A u \in Workers : WorkerInv(u)'
    BY <1>1, <1>2, OthersKeep DEF Untouched
  <1>4. TypeOK' /\ TruthIsNewest' /\ RecordedIsHeld'
    BY <1>1, <1>2, RecordedKept DEF LTInv, TypeOK, TruthIsNewest, fixed, cluster
  <1> QED BY <1>3, <1>4 DEF LTInv

\* The inductive invariant of a load test.
LEMMA LoadTestInvariant == Spec => []LTInv
  <1>1. LTInv /\ [Next]_vars => LTInv'
    BY LTNext, LTStutter
  <1> QED BY <1>1, LTInit, PTL DEF Spec

\* With overlapping quorums no load test of _load_test_common.py's scripts reports
\* a stale read, whatever the clocks read, whichever requests fail half-way,
\* whatever order copies and answers come in: what SourceOfTruth.record was told
\* is at w nodes, and one of them is among the r that a later read asks.
THEOREM StrictQuorumsAreFresh == Spec => []StrictQuorumNeverStale
  <1>1. LTInv => StrictQuorumNeverStale
    BY DEF LTInv, WorkerInv, NeverStale, StrictQuorumNeverStale
  <1> QED BY <1>1, LoadTestInvariant, PTL

\* The lag that do_read of mq_staleness_load_test.py attaches to stale_events[-1]
\* after its await is that of the follower the event is about.
THEOREM SamplesAreOwn == Spec => []LagBelongsToItsRead
  <1>1. ASSUME LTInv PROVE LagBelongsToItsRead
    <2> SUFFICES ASSUME NEW wk \in Workers, NEW i \in DOMAIN stats[wk].stale_events
                 PROVE  stats[wk].stale_events[i].lag_from =
                          IF \/ config.strategy # "message_queue"
                             \/ pc[wk] = "lag" /\ i = Len(stats[wk].stale_events)
                          THEN {} ELSE {stats[wk].stale_events[i].node}
      BY DEF LagBelongsToItsRead
    <2>1. stats[wk].stale_events \in Seq(Event)
      BY <1>1 DEF LTInv, TypeOK, Stats
    <2>2. i \in 1 .. Len(stats[wk].stale_events)
      BY <2>1, LenProperties
    <2> QED BY <1>1, <2>2 DEF LTInv, WorkerInv, LagIsOwn
  <1> QED BY <1>1, LoadTestInvariant, PTL

\* do_read's verdict is exact: it counts a read stale exactly when a write that
\* SourceOfTruth.record had been told of before the read is newer than the answer.
THEOREM VerdictsAreExact == Spec => VerdictIsExact
  <1> DEFINE Exact(wk) ==
               stats'[wk].comparable_reads > stats[wk].comparable_reads =>
                 /\ req[wk].before # {}
                 /\ stats'[wk].stale_reads > stats[wk].stale_reads
                      <=> \E t \in req[wk].before :
                            req[wk].best = NoEntry \/ t > req[wk].best.timestamp
  <1>1. ASSUME LTInv, Next, NEW wk \in Workers PROVE Exact(wk)
    <2>1. stats[wk] \in Stats /\ stats[wk].comparable_reads \in Nat /\ stats[wk].stale_reads \in Nat
      BY <1>1 DEF LTInv, TypeOK, Stats
    <2>2. CASE stats'[wk].comparable_reads = stats[wk].comparable_reads
      BY <2>1, <2>2
    <2>3. ASSUME NEW u \in Workers, Judge(u) PROVE Exact(wk)
      <3>1. /\ pc[u] = "get" /\ stats' = Compared(u, req[u].expected) /\ stats \in [Workers -> Stats]
        BY <1>1, <2>3 DEF Judge, LTInv, TypeOK
      <3>2. /\ EventOf(u) \in Event
            /\ req[u].expected.timestamp \in req[u].before
            /\ \A t \in req[u].before : t \in Nat /\ t <= req[u].expected.timestamp
            /\ req[u].best # NoEntry => req[u].best.timestamp \in Nat
        BY <1>1, <3>1, JudgedRead
      <3>3. /\ \A x \in Workers : x # u => stats'[x] = stats[x]
            /\ stats'[u].stale_reads = IF IsStale(req[u].best, req[u].expected)
                                       THEN stats[u].stale_reads + 1 ELSE stats[u].stale_reads
        BY <3>1, <3>2, VerdictStats
      <3>4. CASE wk # u
        BY <2>1, <3>3, <3>4
      <3>5. CASE wk = u
        <4>1. req[wk].before # {}
          BY <3>2, <3>5
        <4>2. stats'[wk].stale_reads > stats[wk].stale_reads <=> IsStale(req[wk].best, req[wk].expected)
          BY <2>1, <3>3, <3>5
        <4>3. IsStale(req[wk].best, req[wk].expected) <=>
                \E t \in req[wk].before : req[wk].best = NoEntry \/ t > req[wk].best.timestamp
          BY <3>2, <3>5 DEF IsStale
        <4> QED BY <4>1, <4>2, <4>3
      <3> QED BY <3>4, <3>5
    <2> QED BY <1>1, <2>2, <2>3, LTNext
  <1>2. LTInv /\ [Next]_vars => [\A wk \in Workers : Exact(wk)]_vars
    BY <1>1
  <1> QED BY <1>2, LoadTestInvariant, PTL DEF Spec, VerdictIsExact

-----------------------------------------------------------------------------
(* The merged statistics                                                   *)

\* The last chunk ends where the plan does.
LEMMA ChunksCoverPlan == Before(0) = 0 /\ Before(NumWorkers) = Total
  <1> DEFINE base == Total \div NumWorkers
             remainder == Total % NumWorkers
  <1>1. NumWorkers \in Nat /\ NumWorkers > 0 /\ Total \in Nat
    BY SizeAssumption
  <1>2. /\ base \in Nat /\ remainder \in Nat /\ remainder < NumWorkers
        /\ Total = base * NumWorkers + remainder
    BY <1>1
  <1>3. /\ Before(0) = 0 * base + (IF 0 < remainder THEN 0 ELSE remainder)
        /\ Before(NumWorkers) = NumWorkers * base + (IF NumWorkers < remainder THEN NumWorkers ELSE remainder)
    BY DEF Before
  <1> HIDE DEF base, remainder
  <1>4. 0 * base = 0 /\ NumWorkers * base = base * NumWorkers /\ base * NumWorkers \in Nat
    BY <1>1, <1>2
  <1> QED BY <1>1, <1>2, <1>3, <1>4

\* The reads among the first m requests of a plan.
Reads(p, m) == Cardinality({i \in 1 .. m : p[i].is_read})

\* One more request is one more read or none.
LEMMA ReadsCount ==
    ASSUME NEW p \in generate_request_plan
    PROVE  /\ Reads(p, 0) = 0
           /\ \A m \in Nat : Reads(p, m) \in Nat
           /\ \A m \in Nat : Reads(p, m + 1) = Reads(p, m) + (IF p[m + 1].is_read THEN 1 ELSE 0)
  <1>1. Reads(p, 0) = 0
    <2>1. {i \in 1 .. 0 : p[i].is_read} = {}
      OBVIOUS
    <2> QED BY <2>1, FS_EmptySet DEF Reads
  <1> DEFINE R(m) == {i \in 1 .. m : p[i].is_read}
  <1>2. ASSUME NEW m \in Nat PROVE IsFiniteSet(R(m)) /\ Cardinality(R(m)) \in Nat
    <2>1. IsFiniteSet(1 .. m) /\ R(m) \subseteq 1 .. m
      BY FS_Interval
    <2>2. IsFiniteSet(R(m))
      BY <2>1, FS_Subset
    <2> QED BY <2>2, FS_CardinalityType
  <1>3. ASSUME NEW m \in Nat
        PROVE  Cardinality(R(m + 1)) = Cardinality(R(m)) + (IF p[m + 1].is_read THEN 1 ELSE 0)
    <2>1. CASE p[m + 1].is_read
      <3>1. R(m + 1) = R(m) \cup {m + 1} /\ m + 1 \notin R(m)
        BY <2>1
      <3> HIDE DEF R
      <3> QED BY <1>2, <2>1, <3>1, FS_AddElement
    <2>2. CASE ~p[m + 1].is_read
      <3>1. R(m + 1) = R(m)
        BY <2>2
      <3> HIDE DEF R
      <3> QED BY <1>2, <2>2, <3>1
    <2> QED BY <2>1, <2>2
  <1> QED BY <1>1, <1>2, <1>3 DEF Reads

\* Statistics that account for `requests` requests, `reads` of them reads, of
\* which `skips` were skipped; `getting` reads and `putting` writes are under way.
Balances(s, requests, reads, skips, getting, putting) ==
    /\ s.total_requests = requests /\ s.total_reads = reads /\ s.total_writes = requests - reads
    /\ s.comparable_reads + s.failed_reads + skips + getting = reads
    /\ s.failed_writes + putting <= requests - reads
    /\ s.stale_reads <= s.comparable_reads
    /\ Len(s.stale_events) = s.stale_reads

\* The reads among the items worker wk has taken.
ReadsTaken(wk) == Reads(plan, Before(wk - 1) + pos[wk]) - Reads(plan, Before(wk - 1))

Getting(wk) == IF pc[wk] = "get" THEN 1 ELSE 0
Putting(wk) == IF pc[wk] \in {"put", "applied", "rejected"} THEN 1 ELSE 0

\* What worker wk has counted is what it has taken, less what is under way.
Accounts(wk) ==
    Balances(stats[wk], pos[wk], ReadsTaken(wk), skipped[wk], Getting(wk), Putting(wk))

\* The plan, the chunks it was split into, and the reads skipped.
PlanKept ==
    /\ plan \in generate_request_plan
    /\ plan_chunks = [wk \in Workers |-> split_plan(plan, wk)]
    /\ skipped \in [Workers -> Nat]

\* Every worker's accounts balance at every moment; after the merge none is busy.
AccountsInv ==
    /\ PlanKept
    /\ \A wk \in Workers : Accounts(wk)
    /\ phase = "done" => \A wk \in Workers : pc[wk] = "next"

\* The step touches nothing that the accounts of worker u are about.
OffTheBooks(u) ==
    pc'[u] = pc[u] /\ pos'[u] = pos[u] /\ stats'[u] = stats[u] /\ skipped'[u] = skipped[u]

\* ... so they still balance.
LEMMA OthersBalance ==
    ASSUME NEW u \in Workers, Accounts(u), plan' = plan, OffTheBooks(u)
    PROVE  Accounts(u)'
  BY DEF Accounts, ReadsTaken, Getting, Putting, OffTheBooks

\* The numbers the accounts are kept in.
LEMMA AccountNumbers ==
    ASSUME LTInv, AccountsInv, NEW wk \in Workers
    PROVE  /\ stats[wk] \in Stats /\ pos[wk] \in Nat /\ skipped[wk] \in Nat
           /\ ReadsTaken(wk) \in Int
           /\ stats[wk].total_requests \in Nat /\ stats[wk].total_reads \in Nat
           /\ stats[wk].total_writes \in Nat /\ stats[wk].comparable_reads \in Nat
           /\ stats[wk].stale_reads \in Nat /\ stats[wk].failed_reads \in Nat
           /\ stats[wk].failed_writes \in Nat
           /\ stats[wk].stale_events \in Seq(Event) /\ Len(stats[wk].stale_events) \in Nat
  <1>1. stats[wk] \in Stats /\ pos[wk] \in Nat /\ skipped[wk] \in Nat
    BY DEF LTInv, TypeOK, AccountsInv, PlanKept
  <1>2. ReadsTaken(wk) \in Int
    <2>1. plan \in generate_request_plan /\ Before(wk - 1) \in Nat
      BY ChunkPlace DEF AccountsInv, PlanKept
    <2>2. Before(wk - 1) + pos[wk] \in Nat
      BY <1>1, <2>1
    <2>3. Reads(plan, Before(wk - 1) + pos[wk]) \in Nat /\ Reads(plan, Before(wk - 1)) \in Nat
      BY <2>1, <2>2, ReadsCount
    <2> QED BY <2>3 DEF ReadsTaken
  <1> QED BY <1>1, <1>2, LenProperties DEF Stats

\* A worker's next item is the plan's.
LEMMA ReadsTakenNext ==
    ASSUME LTInv, AccountsInv, NEW wk \in Workers, NEW b \in BOOLEAN, TakeItem(wk, b), UNCHANGED fixed
    PROVE  ReadsTaken(wk)' = ReadsTaken(wk) + (IF b THEN 1 ELSE 0)
  <1>1. plan \in generate_request_plan /\ plan' = plan /\ plan_chunks[wk] = split_plan(plan, wk)
    BY DEF AccountsInv, PlanKept, fixed
  <1>2. /\ pos'[wk] = pos[wk] + 1 /\ pos'[wk] \in 1 .. Len(plan_chunks[wk])
        /\ plan_chunks[wk][pos[wk] + 1].is_read = b
    BY TakeItemPlace DEF TakeItem
  <1>3. pos[wk] \in Nat /\ Before(wk - 1) \in Nat
    BY <1>1, ChunkPlace DEF LTInv, TypeOK
  <1>4. plan_chunks[wk][pos[wk] + 1] = plan[Before(wk - 1) + (pos[wk] + 1)]
    BY <1>1, <1>2, ChunkPlace
  <1>5. PICK m \in Nat : m = Before(wk - 1) + pos[wk]
    BY <1>3
  <1>6. Before(wk - 1) + (pos[wk] + 1) = m + 1
    BY <1>3, <1>5
  <1>7. /\ Reads(plan, m + 1) = Reads(plan, m) + (IF b THEN 1 ELSE 0)
        /\ Reads(plan, m) \in Nat /\ Reads(plan, Before(wk - 1)) \in Nat
    <2>1. plan[m + 1].is_read = b
      BY <1>2, <1>4, <1>6
    <2> QED BY <1>1, <1>3, <2>1, ReadsCount
  <1>8. /\ ReadsTaken(wk) = Reads(plan, m) - Reads(plan, Before(wk - 1))
        /\ ReadsTaken(wk)' = Reads(plan, m + 1) - Reads(plan, Before(wk - 1))
    BY <1>1, <1>2, <1>5, <1>6 DEF ReadsTaken
  <1> QED BY <1>7, <1>8

\* They change only when an item is taken.
LEMMA SameReadsTaken ==
    ASSUME NEW wk \in Workers, plan' = plan, pos'[wk] = pos[wk]
    PROVE  ReadsTaken(wk)' = ReadsTaken(wk)
  BY DEF ReadsTaken

\* A request is taken up: a write, or a read that is issued or skipped.
LEMMA BalanceMoves ==
    ASSUME NEW s \in Stats, NEW t, NEW n \in Nat, NEW r \in Int, NEW k \in Nat,
           NEW read \in {0, 1}, NEW skip \in {0, 1},
           Balances(s, n, r, k, 0, 0),
           Counts(t, s.total_requests + 1, s.total_reads + read, s.total_writes + (1 - read),
                  s.failed_reads, s.failed_writes),
           t.comparable_reads = s.comparable_reads, t.stale_reads = s.stale_reads,
           t.stale_events = s.stale_events
    PROVE  Balances(t, n + 1, r + read, k + skip, read - skip, 1 - read)
  <1>1. /\ s.total_requests \in Nat /\ s.total_reads \in Nat /\ s.total_writes \in Nat
        /\ s.comparable_reads \in Nat /\ s.failed_reads \in Nat /\ s.failed_writes \in Nat
    BY DEF Stats
  <1>2. /\ t.total_requests = n + 1 /\ t.total_reads = r + read
        /\ t.total_writes = (n + 1) - (r + read)
    BY <1>1 DEF Balances, Counts
  <1>3. t.comparable_reads + t.failed_reads + (k + skip) + (read - skip) = r + read
    <2>1. PICK c, f \in Nat : c = s.comparable_reads /\ f = s.failed_reads
      BY <1>1
    <2>2. t.comparable_reads = c /\ t.failed_reads = f
      BY <2>1 DEF Counts
    <2>3. c + f + k + 0 = r
      BY <2>1 DEF Balances
    <2>4. read \in Nat /\ skip \in Nat
      OBVIOUS
    <2>5. c + f + (k + skip) + (read - skip) = r + read
      BY <2>3, <2>4
    <2> QED BY <2>2, <2>5
  <1>4. t.failed_writes + (1 - read) <= (n + 1) - (r + read)
    BY <1>1 DEF Balances, Counts
  <1>5. t.stale_reads <= t.comparable_reads /\ Len(t.stale_events) = t.stale_reads
    BY DEF Balances
  <1> QED BY <1>2, <1>3, <1>4, <1>5 DEF Balances

\* A write is taken up.
LEMMA IssuePutBalances ==
    ASSUME LTInv, AccountsInv, NEW wk \in Workers, NEW at, IssuePut(wk, at)
    PROVE  Accounts(wk)' /\ \A u \in Workers : u # wk => OffTheBooks(u)
  <1>1. TakeItem(wk, FALSE) /\ UNCHANGED fixed /\ skipped' = skipped /\ pc' = [pc EXCEPT ![wk] = "put"]
    BY DEF IssuePut
  <1>2. stats \in [Workers -> Stats] /\ pc \in [Workers -> {"next", "put", "applied", "rejected", "get", "lag"}]
    BY DEF LTInv, TypeOK
  <1>3. /\ NoVerdict /\ \A u \in Workers : u # wk => stats'[u] = stats[u]
        /\ Counts(stats'[wk], stats[wk].total_requests + 1,
                     stats[wk].total_reads + 0, stats[wk].total_writes + (1 - 0),
                     stats[wk].failed_reads, stats[wk].failed_writes)
    <2>1. FALSE \in BOOLEAN /\ 1 - 0 = 1
      OBVIOUS
    <2>2. /\ NoVerdict /\ \A u \in Workers : u # wk => stats'[u] = stats[u]
          /\ Counts(stats'[wk], stats[wk].total_requests + 1,
                    stats[wk].total_reads + 0, stats[wk].total_writes + 1,
                    stats[wk].failed_reads, stats[wk].failed_writes)
      BY <1>1, <1>2, <2>1, TakeItemStats
    <2> QED BY <2>1, <2>2
  <1>4. pos'[wk] = pos[wk] + 1 /\ pc[wk] = "next" /\ \A u \in Workers : u # wk => pos'[u] = pos[u]
    BY <1>1, TakeItemPlace
  <1>5. ReadsTaken(wk)' = ReadsTaken(wk) + 0
    BY <1>1, ReadsTakenNext
  <1>6. /\ Getting(wk) = 0 /\ Putting(wk) = 0 /\ Getting(wk)' = 0 /\ Putting(wk)' = 1
        /\ \A u \in Workers : u # wk => pc'[u] = pc[u]
    BY <1>1, <1>2, <1>4 DEF Getting, Putting
  <1>7. Balances(stats[wk], pos[wk], ReadsTaken(wk), skipped[wk], 0, 0)
    BY <1>6 DEF AccountsInv, Accounts
  <1>8. Balances(stats'[wk], pos[wk] + 1, ReadsTaken(wk) + 0, skipped[wk], 0, 1)
    <2>1. Balances(stats'[wk], pos[wk] + 1, ReadsTaken(wk) + 0, skipped[wk] + 0, 0 - 0, 1 - 0)
      BY <1>3, <1>7, AccountNumbers, BalanceMoves DEF NoVerdict
    <2>2. skipped[wk] + 0 = skipped[wk] /\ 0 - 0 = 0 /\ 1 - 0 = 1
      BY AccountNumbers
    <2> QED BY <2>1, <2>2
  <1>9. Accounts(wk)'
    BY <1>1, <1>4, <1>5, <1>6, <1>8 DEF Accounts
  <1> QED BY <1>1, <1>3, <1>4, <1>6, <1>9 DEF OffTheBooks

\* A read is taken up, or skipped.
LEMMA IssueGetBalances ==
    ASSUME LTInv, AccountsInv, NEW wk \in Workers, IssueGet(wk)
    PROVE  Accounts(wk)' /\ \A u \in Workers : u # wk => OffTheBooks(u)
  <1>1. /\ TakeItem(wk, TRUE) /\ UNCHANGED fixed
        /\ \/ skipped' = [skipped EXCEPT ![wk] = @ + 1] /\ pc' = pc
           \/ skipped' = skipped /\ pc' = [pc EXCEPT ![wk] = "get"]
    BY DEF IssueGet
  <1>2. /\ stats \in [Workers -> Stats] /\ pc \in [Workers -> {"next", "put", "applied", "rejected", "get", "lag"}]
        /\ skipped \in [Workers -> Nat]
    BY DEF LTInv, TypeOK, AccountsInv, PlanKept
  <1>3. /\ NoVerdict /\ \A u \in Workers : u # wk => stats'[u] = stats[u]
        /\ Counts(stats'[wk], stats[wk].total_requests + 1,
                     stats[wk].total_reads + 1, stats[wk].total_writes + (1 - 1),
                     stats[wk].failed_reads, stats[wk].failed_writes)
    <2>1. TRUE \in BOOLEAN /\ 1 - 1 = 0
      OBVIOUS
    <2>2. /\ NoVerdict /\ \A u \in Workers : u # wk => stats'[u] = stats[u]
          /\ Counts(stats'[wk], stats[wk].total_requests + 1,
                    stats[wk].total_reads + 1, stats[wk].total_writes + 0,
                    stats[wk].failed_reads, stats[wk].failed_writes)
      BY <1>1, <1>2, <2>1, TakeItemStats
    <2> QED BY <2>1, <2>2
  <1>4. pos'[wk] = pos[wk] + 1 /\ pc[wk] = "next" /\ \A u \in Workers : u # wk => pos'[u] = pos[u]
    BY <1>1, TakeItemPlace
  <1>5. ReadsTaken(wk)' = ReadsTaken(wk) + 1
    BY <1>1, ReadsTakenNext
  <1>6. /\ Getting(wk) = 0 /\ Putting(wk) = 0 /\ Putting(wk)' = 0
        /\ \/ Getting(wk)' = 0 /\ skipped'[wk] = skipped[wk] + 1
           \/ Getting(wk)' = 1 /\ skipped'[wk] = skipped[wk]
        /\ \A u \in Workers : u # wk => pc'[u] = pc[u] /\ skipped'[u] = skipped[u]
    BY <1>1, <1>2, <1>4 DEF Getting, Putting
  <1>7. Balances(stats[wk], pos[wk], ReadsTaken(wk), skipped[wk], 0, 0)
    BY <1>6 DEF AccountsInv, Accounts
  <1>8. /\ Balances(stats'[wk], pos[wk] + 1, ReadsTaken(wk) + 1, skipped[wk] + 1, 0, 0)
        /\ Balances(stats'[wk], pos[wk] + 1, ReadsTaken(wk) + 1, skipped[wk], 1, 0)
    <2>1. /\ Balances(stats'[wk], pos[wk] + 1, ReadsTaken(wk) + 1, skipped[wk] + 0, 1 - 0, 1 - 1)
          /\ Balances(stats'[wk], pos[wk] + 1, ReadsTaken(wk) + 1, skipped[wk] + 1, 1 - 1, 1 - 1)
      BY <1>3, <1>7, AccountNumbers, BalanceMoves DEF NoVerdict
    <2>2. skipped[wk] + 0 = skipped[wk] /\ 1 - 0 = 1 /\ 1 - 1 = 0
      BY AccountNumbers
    <2> QED BY <2>1, <2>2
  <1>9. Accounts(wk)'
    BY <1>4, <1>5, <1>6, <1>8 DEF Accounts
  <1> QED BY <1>3, <1>4, <1>6, <1>9 DEF OffTheBooks

\* A write ends, answered or failed.
LEMMA PutEndBalances ==
    ASSUME LTInv, AccountsInv, NEW wk \in Workers, PutAnswered(wk) \/ PutFails(wk)
    PROVE  Accounts(wk)' /\ \A u \in Workers : u # wk => OffTheBooks(u)
  <1>1. /\ pc[wk] \in {"put", "applied", "rejected"} /\ pc' = [pc EXCEPT ![wk] = "next"]
        /\ plan' = plan /\ pos' = pos /\ skipped' = skipped
        /\ stats' = stats \/ stats' = [stats EXCEPT ![wk].failed_writes = @ + 1]
    BY DEF PutAnswered, PutFails, Finish, fixed
  <1>2. stats \in [Workers -> Stats] /\ pc \in [Workers -> {"next", "put", "applied", "rejected", "get", "lag"}]
    BY DEF LTInv, TypeOK
  <1>3. /\ Getting(wk) = 0 /\ Putting(wk) = 1 /\ Getting(wk)' = 0 /\ Putting(wk)' = 0
        /\ \A u \in Workers : u # wk => pc'[u] = pc[u]
    BY <1>1, <1>2 DEF Getting, Putting
  <1>4. Balances(stats[wk], pos[wk], ReadsTaken(wk), skipped[wk], 0, 1)
    BY <1>3 DEF AccountsInv, Accounts
  <1>5. ReadsTaken(wk)' = ReadsTaken(wk)
    BY <1>1, SameReadsTaken
  <1>6. CASE stats' = stats
    <2>1. Balances(stats'[wk], pos[wk], ReadsTaken(wk), skipped[wk], 0, 0)
      BY <1>4, <1>6, AccountNumbers DEF Balances
    <2> QED BY <1>1, <1>3, <1>5, <1>6, <2>1 DEF Accounts, OffTheBooks
  <1>7. CASE stats' = [stats EXCEPT ![wk].failed_writes = @ + 1]
    <2>1. /\ NoVerdict /\ \A u \in Workers : u # wk => stats'[u] = stats[u]
          /\ stats'[wk] = [stats[wk] EXCEPT !.failed_writes = stats[wk].failed_writes + 1]
      BY <1>2, <1>7, FailureStats
    <2>2. Counts(stats'[wk], stats[wk].total_requests, stats[wk].total_reads, stats[wk].total_writes,
                 stats[wk].failed_reads, stats[wk].failed_writes + 1)
      BY <1>2, <2>1, OneCounts
    <2>3. Balances(stats'[wk], pos[wk], ReadsTaken(wk), skipped[wk], 0, 0)
      BY <1>4, <2>1, <2>2, AccountNumbers DEF Balances, Counts, NoVerdict
    <2> QED BY <1>1, <1>3, <1>5, <2>1, <2>3 DEF Accounts, OffTheBooks
  <1> QED BY <1>1, <1>6, <1>7

\* A read ends: it failed or was compared.
LEMMA ReadEnds ==
    ASSUME NEW s \in Stats, NEW t, NEW n \in Nat, NEW r \in Int, NEW k \in Nat, NEW failed \in {0, 1},
           Balances(s, n, r, k, 1, 0),
           Counts(t, s.total_requests, s.total_reads, s.total_writes, s.failed_reads + failed, s.failed_writes),
           t.comparable_reads = s.comparable_reads + (1 - failed),
           t.stale_reads <= t.comparable_reads, Len(t.stale_events) = t.stale_reads
    PROVE  Balances(t, n, r, k, 0, 0)
  <1>1. PICK c, f \in Nat : c = s.comparable_reads /\ f = s.failed_reads
    BY DEF Stats
  <1>2. c + f + k + 1 = r
    BY <1>1 DEF Balances
  <1>3. failed \in Nat
    OBVIOUS
  <1>4. (c + (1 - failed)) + (f + failed) + k + 0 = r
    BY <1>2, <1>3
  <1>5. t.comparable_reads + t.failed_reads + k + 0 = r
    BY <1>1, <1>4 DEF Counts
  <1> QED BY <1>5 DEF Balances, Counts

\* A read fails.
LEMMA GetFailsBalances ==
    ASSUME LTInv, AccountsInv, NEW wk \in Workers, GetFails(wk)
    PROVE  Accounts(wk)' /\ \A u \in Workers : u # wk => OffTheBooks(u)
  <1>1. /\ pc[wk] = "get" /\ pc' = [pc EXCEPT ![wk] = "next"]
        /\ plan' = plan /\ pos' = pos /\ skipped' = skipped
        /\ stats' = [stats EXCEPT ![wk].failed_reads = @ + 1]
    BY DEF GetFails, Finish, fixed
  <1>2. stats \in [Workers -> Stats] /\ pc \in [Workers -> {"next", "put", "applied", "rejected", "get", "lag"}]
    BY DEF LTInv, TypeOK
  <1>3. /\ Getting(wk) = 1 /\ Putting(wk) = 0 /\ Getting(wk)' = 0 /\ Putting(wk)' = 0
        /\ \A u \in Workers : u # wk => pc'[u] = pc[u]
    BY <1>1, <1>2 DEF Getting, Putting
  <1>4. Balances(stats[wk], pos[wk], ReadsTaken(wk), skipped[wk], 1, 0)
    BY <1>3 DEF AccountsInv, Accounts
  <1>5. ReadsTaken(wk)' = ReadsTaken(wk)
    BY <1>1, SameReadsTaken
  <1>6. /\ NoVerdict /\ \A u \in Workers : u # wk => stats'[u] = stats[u]
        /\ stats'[wk] = [stats[wk] EXCEPT !.failed_reads = stats[wk].failed_reads + 1]
    BY <1>1, <1>2, FailureStats
  <1>7. Counts(stats'[wk], stats[wk].total_requests, stats[wk].total_reads, stats[wk].total_writes,
               stats[wk].failed_reads + 1, stats[wk].failed_writes)
    <2>1. PICK s \in Stats : s = stats[wk]
      BY <1>2
    <2>2. Counts([s EXCEPT !.failed_reads = s.failed_reads + 1],
                 s.total_requests, s.total_reads, s.total_writes, s.failed_reads + 1, s.failed_writes)
      BY OneCounts
    <2> QED BY <1>6, <2>1, <2>2
  <1>8. Balances(stats'[wk], pos[wk], ReadsTaken(wk), skipped[wk], 0, 0)
    <2>1. /\ stats'[wk].comparable_reads = stats[wk].comparable_reads + (1 - 1)
          /\ stats'[wk].stale_reads <= stats'[wk].comparable_reads
          /\ Len(stats'[wk].stale_events) = stats'[wk].stale_reads
      BY <1>4, <1>6, AccountNumbers DEF NoVerdict, Balances
    <2> QED BY <1>4, <1>7, <2>1, AccountNumbers, ReadEnds
  <1> QED BY <1>1, <1>3, <1>5, <1>6, <1>8 DEF Accounts, OffTheBooks

\* A read is judged.
LEMMA JudgeBalances ==
    ASSUME LTInv, AccountsInv, NEW wk \in Workers, Judge(wk)
    PROVE  Accounts(wk)' /\ \A u \in Workers : u # wk => OffTheBooks(u)
  <1>1. /\ pc[wk] = "get" /\ \/ pc' = [pc EXCEPT ![wk] = "next"]
                             \/ pc' = [pc EXCEPT ![wk] = "lag"]
        /\ plan' = plan /\ pos' = pos /\ skipped' = skipped
        /\ stats' = Compared(wk, req[wk].expected)
    BY DEF Judge, Finish, fixed
  <1>2. stats \in [Workers -> Stats] /\ pc \in [Workers -> {"next", "put", "applied", "rejected", "get", "lag"}]
    BY DEF LTInv, TypeOK
  <1>3. /\ Getting(wk) = 1 /\ Putting(wk) = 0 /\ Getting(wk)' = 0 /\ Putting(wk)' = 0
        /\ \A u \in Workers : u # wk => pc'[u] = pc[u]
    BY <1>1, <1>2 DEF Getting, Putting
  <1>4. Balances(stats[wk], pos[wk], ReadsTaken(wk), skipped[wk], 1, 0)
    BY <1>3 DEF AccountsInv, Accounts
  <1>5. ReadsTaken(wk)' = ReadsTaken(wk)
    BY <1>1, SameReadsTaken
  <1>6. EventOf(wk) \in Event
    BY <1>1, JudgedRead
  <1>7. /\ \A u \in Workers : u # wk => stats'[u] = stats[u]
        /\ SameCounts(stats'[wk], stats[wk])
        /\ stats'[wk].comparable_reads = stats[wk].comparable_reads + 1
        /\ \/ /\ stats'[wk].stale_reads = stats[wk].stale_reads + 1
              /\ stats'[wk].stale_events = Append(stats[wk].stale_events, EventOf(wk))
           \/ /\ stats'[wk].stale_reads = stats[wk].stale_reads
              /\ stats'[wk].stale_events = stats[wk].stale_events
    BY <1>1, <1>2, <1>6, VerdictStats
  <1>8. Len(Append(stats[wk].stale_events, EventOf(wk))) = Len(stats[wk].stale_events) + 1
    BY <1>6, AccountNumbers, AppendProperties
  <1>9. /\ stats'[wk].stale_reads <= stats'[wk].comparable_reads
        /\ Len(stats'[wk].stale_events) = stats'[wk].stale_reads
    BY <1>4, <1>7, <1>8, AccountNumbers DEF Balances
  <1>10. Balances(stats'[wk], pos[wk], ReadsTaken(wk), skipped[wk], 0, 0)
    <2>1. /\ stats'[wk].comparable_reads = stats[wk].comparable_reads + (1 - 0)
          /\ Counts(stats'[wk], stats[wk].total_requests, stats[wk].total_reads, stats[wk].total_writes,
                    stats[wk].failed_reads + 0, stats[wk].failed_writes)
      BY <1>7, AccountNumbers DEF SameCounts, Counts
    <2> QED BY <1>4, <1>9, <2>1, AccountNumbers, ReadEnds
  <1> QED BY <1>1, <1>3, <1>5, <1>7, <1>10 DEF Accounts, OffTheBooks

\* A lag sample arrives.
LEMMA QueryBalances ==
    ASSUME LTInv, AccountsInv, NEW wk \in Workers, query_lag(wk)
    PROVE  Accounts(wk)' /\ \A u \in Workers : u # wk => OffTheBooks(u)
  <1>1. /\ pc[wk] = "lag" /\ pc' = [pc EXCEPT ![wk] = "next"]
        /\ plan' = plan /\ pos' = pos /\ skipped' = skipped
    BY DEF query_lag, Finish, fixed
  <1>2. stats \in [Workers -> Stats] /\ pc \in [Workers -> {"next", "put", "applied", "rejected", "get", "lag"}]
    BY DEF LTInv, TypeOK
  <1>3. /\ Getting(wk) = 0 /\ Putting(wk) = 0 /\ Getting(wk)' = 0 /\ Putting(wk)' = 0
        /\ \A u \in Workers : u # wk => pc'[u] = pc[u]
    BY <1>1, <1>2 DEF Getting, Putting
  <1>4. Balances(stats[wk], pos[wk], ReadsTaken(wk), skipped[wk], 0, 0)
    BY <1>3 DEF AccountsInv, Accounts
  <1>5. ReadsTaken(wk)' = ReadsTaken(wk)
    BY <1>1, SameReadsTaken
  <1>6. Len(stats[wk].stale_events) > 0 /\ Item(wk).target \in Targets
    BY <1>1, ItemInPlan DEF LTInv, WorkerInv, QueryIsForLast
  <1>7. /\ \A u \in Workers : u # wk => stats'[u] = stats[u]
        /\ SameCounts(stats'[wk], stats[wk])
        /\ stats'[wk].comparable_reads = stats[wk].comparable_reads
        /\ stats'[wk].stale_reads = stats[wk].stale_reads
        /\ Len(stats'[wk].stale_events) = Len(stats[wk].stale_events)
    BY <1>2, <1>6, SampleStats
  <1>8. Balances(stats'[wk], pos[wk], ReadsTaken(wk), skipped[wk], 0, 0)
    BY <1>4, <1>7 DEF Balances, SameCounts, Counts
  <1> QED BY <1>1, <1>3, <1>5, <1>7, <1>8 DEF Accounts, OffTheBooks

\* A PUT reaches its coordinator.
LEMMA PutArrivesBalances ==
    ASSUME LTInv, AccountsInv, NEW wk \in Workers, PutArrives(wk)
    PROVE  Accounts(wk)' /\ \A u \in Workers : u # wk => OffTheBooks(u)
  <1>1. /\ pc[wk] = "put" /\ \/ pc' = [pc EXCEPT ![wk] = "applied"]
                             \/ pc' = [pc EXCEPT ![wk] = "rejected"]
        /\ plan' = plan /\ pos' = pos /\ skipped' = skipped /\ stats' = stats
    BY DEF PutArrives, fixed
  <1>2. pc \in [Workers -> {"next", "put", "applied", "rejected", "get", "lag"}]
    BY DEF LTInv, TypeOK
  <1>3. /\ Getting(wk)' = Getting(wk) /\ Putting(wk)' = Putting(wk)
        /\ \A u \in Workers : u # wk => pc'[u] = pc[u]
    BY <1>1, <1>2 DEF Getting, Putting
  <1>4. Accounts(wk)'
    BY <1>1, <1>3, SameReadsTaken DEF AccountsInv, Accounts
  <1> QED BY <1>1, <1>3, <1>4 DEF OffTheBooks

\* A step of no worker's statistics.
LEMMA OtherStepsBalance ==
    ASSUME AccountsInv, UNCHANGED <<fixed, pc, pos, stats, skipped>>
    PROVE  \A u \in Workers : Accounts(u)'
  BY OthersBalance DEF AccountsInv, OffTheBooks, fixed

\* Every step keeps the accounts, and only the merge ends the test.
LEMMA AccountsNext ==
    ASSUME LTInv, AccountsInv, Next
    PROVE  AccountsInv' /\ (phase' = "done" => MergeStats)
  <1>1. TypeOK
    BY DEF LTInv
  <1>2. /\ UNCHANGED fixed
        /\ \A u \in Workers : Accounts(u)'
    <2>1. CASE Discover \/ MergeStats
      BY <2>1, OtherStepsBalance DEF Discover, MergeStats
    <2>2. ASSUME NEW wk \in Workers, NEW at \in Nodes, IssuePut(wk, at)
          PROVE  UNCHANGED fixed /\ \A u \in Workers : Accounts(u)'
      <3>1. UNCHANGED fixed
        BY <2>2 DEF IssuePut
      <3> QED BY <2>2, <3>1, IssuePutBalances, OthersBalance DEF AccountsInv, fixed
    <2>3. ASSUME NEW wk \in Workers, PutAnswered(wk) \/ PutFails(wk)
          PROVE  UNCHANGED fixed /\ \A u \in Workers : Accounts(u)'
      <3>1. UNCHANGED fixed
        BY <2>3 DEF PutAnswered, PutFails
      <3> QED BY <2>3, <3>1, PutEndBalances, OthersBalance DEF AccountsInv, fixed
    <2>4. ASSUME NEW wk \in Workers, IssueGet(wk)
          PROVE  UNCHANGED fixed /\ \A u \in Workers : Accounts(u)'
      <3>1. UNCHANGED fixed
        BY <2>4 DEF IssueGet
      <3> QED BY <2>4, <3>1, IssueGetBalances, OthersBalance DEF AccountsInv, fixed
    <2>5. ASSUME NEW wk \in Workers, GetFails(wk)
          PROVE  UNCHANGED fixed /\ \A u \in Workers : Accounts(u)'
      <3>1. UNCHANGED fixed
        BY <2>5 DEF GetFails
      <3> QED BY <2>5, <3>1, GetFailsBalances, OthersBalance DEF AccountsInv, fixed
    <2>6. ASSUME NEW wk \in Workers, Judge(wk)
          PROVE  UNCHANGED fixed /\ \A u \in Workers : Accounts(u)'
      <3>1. UNCHANGED fixed
        BY <2>6 DEF Judge
      <3> QED BY <2>6, <3>1, JudgeBalances, OthersBalance DEF AccountsInv, fixed
    <2>7. ASSUME NEW wk \in Workers, query_lag(wk)
          PROVE  UNCHANGED fixed /\ \A u \in Workers : Accounts(u)'
      <3>1. UNCHANGED fixed
        BY <2>7 DEF query_lag
      <3> QED BY <2>7, <3>1, QueryBalances, OthersBalance DEF AccountsInv, fixed
    <2>8. ASSUME NEW wk \in Workers, PutArrives(wk)
          PROVE  UNCHANGED fixed /\ \A u \in Workers : Accounts(u)'
      <3>1. UNCHANGED fixed
        BY <2>8 DEF PutArrives
      <3> QED BY <2>8, <3>1, PutArrivesBalances, OthersBalance DEF AccountsInv, fixed
    <2>9. ASSUME NEW wk \in Workers, NEW n \in Targets, ServeRead(wk, n)
          PROVE  UNCHANGED fixed /\ \A u \in Workers : Accounts(u)'
      BY <2>9, OtherStepsBalance DEF ServeRead
    <2>10. ASSUME NEW c \in inflight, Deliver(c[1], c[2], c[3])
          PROVE  UNCHANGED fixed /\ \A u \in Workers : Accounts(u)'
      BY <2>10, OtherStepsBalance DEF Deliver
    <2> QED BY <1>1, <2>1, <2>2, <2>3, <2>4, <2>5, <2>6, <2>7, <2>8, <2>9, <2>10, NextCases
  <1>3. skipped' \in [Workers -> Nat]
    <2>1. skipped \in [Workers -> Nat]
      BY DEF AccountsInv, PlanKept
    <2>2. skipped' = skipped \/ \E wk \in Workers : skipped' = [skipped EXCEPT ![wk] = skipped[wk] + 1]
      BY <1>1, NextCases DEF Discover, MergeStats, IssuePut, PutAnswered, PutFails, IssueGet, GetFails, Judge,
            query_lag, PutArrives, ServeRead, Deliver
    <2> QED BY <2>1, <2>2
  <1>4. PlanKept'
    BY <1>2, <1>3 DEF AccountsInv, PlanKept, fixed
  <1>5. phase = "done" => FALSE
    <2> SUFFICES ASSUME phase = "done" PROVE FALSE
      OBVIOUS
    <2>1. \A wk \in Workers : pc[wk] = "next"
      BY DEF AccountsInv
    <2> QED BY <1>1, <2>1, NextCases DEF Discover, MergeStats, IssuePut, IssueGet, TakeItem, PutAnswered, PutFails,
            GetFails, Judge, query_lag, PutArrives, ServeRead, Deliver
  <1>6. phase' = "done" => MergeStats
    BY <1>1, <1>5, NextCases DEF Discover, IssuePut, IssueGet, TakeItem, PutAnswered, PutFails,
            GetFails, Judge, query_lag, PutArrives, ServeRead, Deliver
  <1>7. MergeStats => \A wk \in Workers : pc'[wk] = "next"
    BY DEF MergeStats, Returned
  <1> QED BY <1>2, <1>4, <1>6, <1>7 DEF AccountsInv

\* Stats as a function of the names of its fields, as merge goes through them.
Fields == {"total_requests", "total_reads", "total_writes", "comparable_reads", "stale_reads",
           "stale_events", "failed_reads", "failed_writes"}
Sums == {g \in [Fields -> Nat \cup Seq(Event)] :
            g["stale_events"] \in Seq(Event) /\ \A f \in Fields \ {"stale_events"} : g[f] \in Nat}

\* A Stats record is one.
LEMMA StatsAreSums ==
    ASSUME NEW a \in Stats
    PROVE  a \in Sums
  <1>1. a \in [Fields -> Nat \cup Seq(Event)]
    BY DEF Fields, Stats
  <1> QED BY <1>1 DEF Sums, Stats, Fields

\* merge adds up, field by field.
LEMMA MergeAdds ==
    ASSUME NEW a \in Sums, NEW b \in Stats
    PROVE  /\ merge(a, b) \in Sums
           /\ \A f \in Fields \ {"stale_events"} : merge(a, b)[f] = a[f] + b[f]
           /\ Len(merge(a, b).stale_events) = Len(a.stale_events) + Len(b.stale_events)
  <1>1. DOMAIN a = Fields /\ \A f \in Fields \ {"stale_events"} : a[f] \in Nat /\ b[f] \in Nat
    BY StatsAreSums DEF Sums
  <1>2. PICK z : z = a.stale_events \o b.stale_events
    OBVIOUS
  <1>3. z \in Seq(Event) /\ Len(z) = Len(a.stale_events) + Len(b.stale_events)
    BY <1>2, ConcatProperties DEF Sums, Stats
  <1>4. PICK g : g = [f \in Fields |-> IF f = "stale_events" THEN z ELSE a[f] + b[f]]
    OBVIOUS
  <1>5. merge(a, b) = g
    BY <1>1, <1>2, <1>4 DEF merge
  <1>6. /\ g["stale_events"] = z
        /\ \A f \in Fields \ {"stale_events"} : g[f] = a[f] + b[f] /\ g[f] \in Nat
    BY <1>1, <1>4 DEF Fields
  <1>7. g \in [Fields -> Nat \cup Seq(Event)]
    BY <1>3, <1>4, <1>6
  <1>8. g \in Sums
    BY <1>3, <1>6, <1>7 DEF Sums
  <1> QED BY <1>3, <1>5, <1>6, <1>8

\* Accounts add up.
LEMMA BalancesAdd ==
    ASSUME NEW a \in Sums, NEW b \in Stats, NEW c,
           \A f \in Fields \ {"stale_events"} : c[f] = a[f] + b[f],
           Len(c.stale_events) = Len(a.stale_events) + Len(b.stale_events),
           NEW m \in Nat, NEW n \in Nat, NEW q \in Nat, NEW r \in Nat, NEW j \in Nat, NEW k \in Nat, NEW i,
           i = j + k, Balances(a, m, q, j, 0, 0), Balances(b, n - m, r - q, k, 0, 0)
    PROVE  Balances(c, n, r, i, 0, 0)
  <1>1. /\ c.total_requests = a.total_requests + b.total_requests
        /\ c.total_reads = a.total_reads + b.total_reads
        /\ c.total_writes = a.total_writes + b.total_writes
        /\ c.comparable_reads = a.comparable_reads + b.comparable_reads
        /\ c.stale_reads = a.stale_reads + b.stale_reads
        /\ c.failed_reads = a.failed_reads + b.failed_reads
        /\ c.failed_writes = a.failed_writes + b.failed_writes
    BY DEF Fields
  <1>2. /\ a.comparable_reads \in Nat /\ a.stale_reads \in Nat /\ a.failed_reads \in Nat /\ a.failed_writes \in Nat
        /\ b.comparable_reads \in Nat /\ b.stale_reads \in Nat /\ b.failed_reads \in Nat /\ b.failed_writes \in Nat
    BY DEF Sums, Fields, Stats
  <1>3. c.total_requests = n /\ c.total_reads = r /\ c.total_writes = n - r
    BY <1>1 DEF Balances
  <1>4. c.comparable_reads + c.failed_reads + i + 0 = r
    <2>1. PICK c1, f1, c2, f2 \in Nat : /\ c1 = a.comparable_reads /\ f1 = a.failed_reads
                                        /\ c2 = b.comparable_reads /\ f2 = b.failed_reads
      BY <1>2
    <2>2. c1 + f1 + j + 0 = q /\ c2 + f2 + k + 0 = r - q
      BY <2>1 DEF Balances
    <2>3. (c1 + c2) + (f1 + f2) + i + 0 = r
      BY <2>2
    <2> QED BY <1>1, <2>1, <2>3
  <1>5. c.failed_writes + 0 <= n - r
    BY <1>1, <1>2 DEF Balances
  <1>6. c.stale_reads <= c.comparable_reads
    <2>1. PICK c1, s1, c2, s2 \in Nat : /\ c1 = a.comparable_reads /\ s1 = a.stale_reads
                                        /\ c2 = b.comparable_reads /\ s2 = b.stale_reads
      BY <1>2
    <2>2. s1 <= c1 /\ s2 <= c2
      BY <2>1 DEF Balances
    <2>3. s1 + s2 <= c1 + c2
      BY <2>2
    <2> QED BY <1>1, <2>1, <2>3
  <1>7. Len(c.stale_events) = c.stale_reads
    <2>1. Len(a.stale_events) = a.stale_reads /\ Len(b.stale_events) = b.stale_reads
      BY DEF Balances
    <2> QED BY <1>1, <2>1
  <1> QED BY <1>3, <1>4, <1>5, <1>6, <1>7 DEF Balances

\* What Merged is, worker by worker.
LEMMA MergedSteps ==
    ASSUME stats \in [Workers -> Stats]
    PROVE  /\ Merged[0] = NewStats
           /\ \A n \in Workers : Merged[n] = merge(Merged[n - 1], stats[n])
  <1>1. NumWorkers \in Nat /\ Workers = 1 .. NumWorkers
    BY SizeAssumption DEF Workers
  <1>2. NewStats \in Sums
    <2>1. <<>> \in Seq(Event)
      BY EmptySeq
    <2>2. NewStats \in Stats
      BY <2>1 DEF NewStats, Stats
    <2> QED BY <2>2, StatsAreSums
  <1>3. PICK F : F = [x \in Nat \X Sums |-> IF x[1] + 1 \in Workers THEN merge(x[2], stats[x[1] + 1]) ELSE x[2]]
    OBVIOUS
  <1>4. ASSUME NEW n \in Nat, NEW s \in Sums
        PROVE  (IF n + 1 \in Workers THEN merge(s, stats[n + 1]) ELSE s) \in Sums
    BY MergeAdds
  <1>5. /\ F \in [Nat \X Sums -> Sums]
        /\ \A n \in Nat, s \in Sums :
              F[<<n, s>>] = IF n + 1 \in Workers THEN merge(s, stats[n + 1]) ELSE s
    BY <1>3, <1>4
  <1>6. PICK g \in [0 .. NumWorkers -> Sums] :
            g[0] = NewStats /\ \A n \in 1 .. NumWorkers : g[n] = F[<<n - 1, g[n - 1]>>]
    <2>1. NumWorkers \in Nat /\ F \in [Nat \X Sums -> Sums]
      BY <1>1, <1>5
    <2>2. PICK g \in [0 .. NumWorkers -> Sums] : UnfoldsUpTo(g, NumWorkers, NewStats, F)
      BY <1>2, <2>1, RecursionUpTo
    <2> QED BY <2>2 DEF UnfoldsUpTo
  <1>7. \A n \in 1 .. NumWorkers : g[n] = merge(g[n - 1], stats[n])
    <2> SUFFICES ASSUME NEW n \in 1 .. NumWorkers PROVE g[n] = merge(g[n - 1], stats[n])
      OBVIOUS
    <2>1. n - 1 \in Nat /\ n - 1 \in 0 .. NumWorkers /\ (n - 1) + 1 = n /\ n \in Workers
      BY <1>1
    <2>2. g[n - 1] \in Sums
      BY <1>6, <2>1
    <2>3. F[<<n - 1, g[n - 1]>>] = merge(g[n - 1], stats[n])
      BY <1>5, <2>1, <2>2
    <2> QED BY <1>6, <2>3
  <1>8. \A n \in 0 .. NumWorkers : g[n] = IF n = 0 THEN NewStats ELSE merge(g[n - 1], stats[n])
    <2> SUFFICES ASSUME NEW n \in 0 .. NumWorkers, n # 0 PROVE g[n] = merge(g[n - 1], stats[n])
      BY <1>6
    <2>1. n \in 1 .. NumWorkers
      BY <1>1
    <2> QED BY <1>7, <2>1
  <1>9. g = [n \in 0 .. NumWorkers |-> IF n = 0 THEN NewStats ELSE merge(g[n - 1], stats[n])]
    BY <1>6, <1>8
  <1>10. PICK h : h = Merged
    OBVIOUS
  <1>11. h = [n \in 0 .. NumWorkers |-> IF n = 0 THEN NewStats ELSE merge(h[n - 1], stats[n])]
    BY <1>9, <1>10 DEF Merged
  <1>12. h[0] = NewStats /\ \A n \in Workers : h[n] = merge(h[n - 1], stats[n])
    BY <1>1, <1>11
  <1> QED BY <1>10, <1>12

\* What Skipped is, for any counts.
SkippedOf(sk) ==
    LET sum[n \in 0 .. NumWorkers] == IF n = 0 THEN 0 ELSE sum[n - 1] + sk[n]
    IN  sum

\* It is a sum, worker by worker.
LEMMA SkippedSteps ==
    ASSUME NEW sk \in [Workers -> Nat]
    PROVE  /\ SkippedOf(sk)[0] = 0
           /\ \A n \in Workers : SkippedOf(sk)[n] = SkippedOf(sk)[n - 1] + sk[n]
  <1>1. NumWorkers \in Nat /\ Workers = 1 .. NumWorkers
    BY SizeAssumption DEF Workers
  <1>2. PICK F : F = [x \in Nat \X Nat |-> IF x[1] + 1 \in Workers THEN x[2] + sk[x[1] + 1] ELSE x[2]]
    OBVIOUS
  <1>3. /\ F \in [Nat \X Nat -> Nat]
        /\ \A n \in Nat, s \in Nat : F[<<n, s>>] = IF n + 1 \in Workers THEN s + sk[n + 1] ELSE s
    BY <1>2
  <1>4. PICK g \in [0 .. NumWorkers -> Nat] :
            g[0] = 0 /\ \A n \in 1 .. NumWorkers : g[n] = F[<<n - 1, g[n - 1]>>]
    <2>1. NumWorkers \in Nat /\ F \in [Nat \X Nat -> Nat] /\ 0 \in Nat
      BY <1>1, <1>3
    <2>2. PICK g \in [0 .. NumWorkers -> Nat] : UnfoldsUpTo(g, NumWorkers, 0, F)
      BY <2>1, RecursionUpTo
    <2> QED BY <2>2 DEF UnfoldsUpTo
  <1>5. \A n \in 1 .. NumWorkers : g[n] = g[n - 1] + sk[n]
    <2> SUFFICES ASSUME NEW n \in 1 .. NumWorkers PROVE g[n] = g[n - 1] + sk[n]
      OBVIOUS
    <2>1. n - 1 \in Nat /\ n - 1 \in 0 .. NumWorkers /\ (n - 1) + 1 = n /\ n \in Workers
      BY <1>1
    <2>2. g[n - 1] \in Nat
      BY <1>4, <2>1
    <2>3. F[<<n - 1, g[n - 1]>>] = g[n - 1] + sk[n]
      BY <1>3, <2>1, <2>2
    <2> QED BY <1>4, <2>3
  <1>6. \A n \in 0 .. NumWorkers : g[n] = IF n = 0 THEN 0 ELSE g[n - 1] + sk[n]
    <2> SUFFICES ASSUME NEW n \in 0 .. NumWorkers, n # 0 PROVE g[n] = g[n - 1] + sk[n]
      BY <1>4
    <2>1. n \in 1 .. NumWorkers
      BY <1>1
    <2> QED BY <1>5, <2>1
  <1>7. g = [n \in 0 .. NumWorkers |-> IF n = 0 THEN 0 ELSE g[n - 1] + sk[n]]
    BY <1>4, <1>6
  <1>8. PICK h : h = SkippedOf(sk)
    OBVIOUS
  <1>9. h = [n \in 0 .. NumWorkers |-> IF n = 0 THEN 0 ELSE h[n - 1] + sk[n]]
    BY <1>7, <1>8 DEF SkippedOf
  <1>10. h[0] = 0 /\ \A n \in Workers : h[n] = h[n - 1] + sk[n]
    BY <1>1, <1>9
  <1> QED BY <1>8, <1>10

\* The statistics of the first n workers account for the first n chunks.
LEMMA MergedBalances ==
    ASSUME LTInv, AccountsInv, \A wk \in Workers : Returned(wk)
    PROVE  /\ Merged[NumWorkers] \in Sums /\ SkippedOf(skipped)[NumWorkers] \in Nat
           /\ Balances(Merged[NumWorkers], Total, Reads(plan, Total), SkippedOf(skipped)[NumWorkers], 0, 0)
  <1>1. /\ NumWorkers \in Nat /\ Workers = 1 .. NumWorkers
        /\ stats \in [Workers -> Stats] /\ skipped \in [Workers -> Nat]
        /\ plan \in generate_request_plan
    BY SizeAssumption DEF Workers, LTInv, TypeOK, AccountsInv, PlanKept
  <1>2. /\ Merged[0] = NewStats
        /\ \A n \in Workers : Merged[n] = merge(Merged[n - 1], stats[n])
    BY <1>1, MergedSteps
  <1>3. PICK sum : sum = SkippedOf(skipped)
    OBVIOUS
  <1>4. sum[0] = 0 /\ \A n \in Workers : sum[n] = sum[n - 1] + skipped[n]
    BY <1>1, <1>3, SkippedSteps
  <1> DEFINE Ok(n) == /\ Merged[n] \in Sums /\ sum[n] \in Nat /\ Before(n) \in Nat
                      /\ Balances(Merged[n], Before(n), Reads(plan, Before(n)), sum[n], 0, 0)
  <1>5. Ok(0)
    <2>1. NewStats \in Stats /\ Len(NewStats.stale_events) = 0
      BY EmptySeq DEF NewStats, Stats
    <2>2. Before(0) = 0 /\ Reads(plan, 0) = 0
      BY <1>1, ChunksCoverPlan, ReadsCount
    <2>3. Balances(NewStats, 0, 0, 0, 0, 0)
      BY <2>1 DEF Balances, NewStats
    <2> QED BY <1>2, <1>4, <2>1, <2>2, <2>3, StatsAreSums
  <1>6. ASSUME NEW n \in Workers, Ok(n - 1) PROVE Ok(n)
    <2>1. PICK a, b, c : a = Merged[n - 1] /\ b = stats[n] /\ c = Merged[n]
      OBVIOUS
    <2>2. /\ a \in Sums /\ b \in Stats /\ c \in Sums
          /\ \A f \in Fields \ {"stale_events"} : c[f] = a[f] + b[f]
          /\ Len(c.stale_events) = Len(a.stale_events) + Len(b.stale_events)
      <3>1. a \in Sums /\ b \in Stats /\ c = merge(a, b)
        BY <1>1, <1>2, <1>6, <2>1
      <3> QED BY <3>1, MergeAdds
    <2>3. /\ plan_chunks[n] = split_plan(plan, n)
          /\ pc[n] = "next" /\ pos[n] = Len(plan_chunks[n])
      BY <1>1 DEF AccountsInv, PlanKept, Returned
    <2>4. /\ Before(n - 1) \in Nat /\ Before(n) \in Nat /\ pos[n] = Before(n) - Before(n - 1)
      BY <1>1, <2>3, ChunkPlace
    <2>5. Before(n - 1) + pos[n] = Before(n)
      BY <2>4
    <2>6. PICK q, r \in Nat : q = Reads(plan, Before(n - 1)) /\ r = Reads(plan, Before(n))
      BY <1>1, <2>4, ReadsCount
    <2>7. ReadsTaken(n) = r - q
      BY <2>5, <2>6 DEF ReadsTaken
    <2>8. Balances(b, Before(n) - Before(n - 1), r - q, skipped[n], 0, 0)
      <3>1. Getting(n) = 0 /\ Putting(n) = 0
        BY <2>3 DEF Getting, Putting
      <3> QED BY <2>1, <2>4, <2>7, <3>1 DEF AccountsInv, Accounts
    <2>9. Balances(a, Before(n - 1), q, sum[n - 1], 0, 0)
      BY <1>6, <2>1, <2>6
    <2>10. sum[n - 1] \in Nat /\ skipped[n] \in Nat /\ sum[n] = sum[n - 1] + skipped[n] /\ sum[n] \in Nat
      BY <1>1, <1>4, <1>6
    <2>11. Balances(c, Before(n), r, sum[n], 0, 0)
      <3>1. PICK m1, n1, j, k, i \in Nat : /\ m1 = Before(n - 1) /\ n1 = Before(n) /\ j = sum[n - 1]
                                           /\ k = skipped[n] /\ i = sum[n]
        BY <2>4, <2>10
      <3>2. i = j + k /\ Balances(a, m1, q, j, 0, 0) /\ Balances(b, n1 - m1, r - q, k, 0, 0)
        BY <2>8, <2>9, <2>10, <3>1
      <3>3. Balances(c, n1, r, i, 0, 0)
        BY <2>2, <3>2, BalancesAdd
      <3> QED BY <3>1, <3>3
    <2> QED BY <2>1, <2>2, <2>4, <2>6, <2>10, <2>11
  <1>7. Ok(NumWorkers)
    <2> HIDE DEF Ok
    <2>1. PICK E : E = {n \in Nat : n <= NumWorkers => Ok(n)}
      OBVIOUS
    <2>2. 0 \in E
      BY <1>5, <2>1
    <2>3. ASSUME NEW n \in Nat, n \in E PROVE n + 1 \in E
      <3>1. ASSUME n + 1 <= NumWorkers PROVE Ok(n + 1)
        <4>1. n + 1 \in Workers /\ (n + 1) - 1 = n /\ Ok(n)
          BY <1>1, <2>1, <2>3, <3>1
        <4> QED BY <1>6, <4>1
      <3> QED BY <2>1, <3>1
    <2>4. Nat \subseteq E
      BY <2>2, <2>3, AllNats
    <2> QED BY <1>1, <2>1, <2>4
  <1> QED BY <1>3, <1>7, ChunksCoverPlan

\* Of the counts there are, before and after a step.
LEMMA SkippedIs == Skipped = SkippedOf(skipped) /\ Skipped' = SkippedOf(skipped')
  BY DEF Skipped, SkippedOf

\* run_load_test's merge: nothing is lost, counted twice or left over.
LEMMA MergeBalances ==
    ASSUME LTInv, AccountsInv, MergeStats
    PROVE  AccountsBalance'
  <1>1. /\ \A wk \in Workers : Returned(wk)
        /\ result' = Merged[NumWorkers] /\ plan' = plan /\ skipped' = skipped
    BY DEF MergeStats, fixed
  <1>2. PICK c, sum : c = Merged[NumWorkers] /\ sum = SkippedOf(skipped)[NumWorkers]
    OBVIOUS
  <1>3. Balances(c, Total, Reads(plan, Total), sum, 0, 0) /\ c \in Sums /\ sum \in Nat
    BY <1>1, <1>2, MergedBalances
  <1>4. result' = c /\ Skipped'[NumWorkers] = sum /\ Reads(plan, Total) = Reads(plan', Total)
    BY <1>1, <1>2, SkippedIs
  <1>5. AccountsBalance' <=>
          (phase' = "done" =>
            /\ result'.total_requests = Total
            /\ result'.total_reads = Reads(plan', Total)
            /\ result'.total_writes = Total - Reads(plan', Total)
            /\ result'.comparable_reads + result'.failed_reads + Skipped'[NumWorkers] = result'.total_reads
            /\ result'.failed_writes <= result'.total_writes
            /\ result'.stale_reads <= result'.comparable_reads
            /\ Len(result'.stale_events) = result'.stale_reads)
    BY DEF AccountsBalance, Reads
  <1>6. c.comparable_reads \in Nat /\ c.failed_reads \in Nat /\ c.failed_writes \in Nat
    BY <1>3 DEF Sums, Fields
  <1>7. /\ c.comparable_reads + c.failed_reads + sum = c.total_reads
        /\ c.failed_writes <= c.total_writes
    <2>1. PICK x, y, z \in Nat : x = c.comparable_reads /\ y = c.failed_reads /\ z = c.failed_writes
      BY <1>6
    <2>2. x + y + sum + 0 = c.total_reads /\ z + 0 <= c.total_writes
      BY <1>3, <2>1 DEF Balances
    <2>3. x + y + sum + 0 = x + y + sum /\ z + 0 = z
      BY <1>3
    <2> QED BY <2>1, <2>2, <2>3
  <1>8. /\ c.total_requests = Total /\ c.total_reads = Reads(plan, Total)
        /\ c.total_writes = Total - Reads(plan, Total)
        /\ c.stale_reads <= c.comparable_reads /\ Len(c.stale_events) = c.stale_reads
    BY <1>3 DEF Balances
  <1> QED BY <1>4, <1>5, <1>7, <1>8

\* _load_test_common.py, split_plan and Stats.merge, and the scripts' run_worker:
\* the merged Stats account for every request of the plan exactly once, whatever
\* fails and however the workers interleave.
THEOREM StatsAccountForPlan == Spec => []AccountsBalance
  <1>1. Init => AccountsInv /\ AccountsBalance
    <2> SUFFICES ASSUME Init PROVE AccountsInv /\ AccountsBalance
      OBVIOUS
    <2>1. PlanKept /\ phase # "done"
      BY DEF Init, PlanKept
    <2>2. ASSUME NEW wk \in Workers PROVE Accounts(wk)
      <3>1. /\ stats[wk] = NewStats /\ pos[wk] = 0 /\ skipped[wk] = 0 /\ Getting(wk) = 0 /\ Putting(wk) = 0
        BY DEF Init, Getting, Putting
      <3>2. ReadsTaken(wk) = 0
        <4>1. PICK q \in Nat : q = Before(wk - 1)
          BY <2>1, ChunkPlace DEF PlanKept
        <4>2. q + 0 = q /\ Reads(plan, q) \in Nat
          BY <2>1, ReadsCount DEF PlanKept
        <4> QED BY <3>1, <4>1, <4>2 DEF ReadsTaken
      <3>3. Len(NewStats.stale_events) = 0
        BY EmptySeq DEF NewStats
      <3>4. Balances(NewStats, 0, 0, 0, 0, 0)
        BY <3>3 DEF Balances, NewStats
      <3> QED BY <3>1, <3>2, <3>4 DEF Accounts
    <2> QED BY <2>1, <2>2 DEF AccountsInv, AccountsBalance
  <1>2. LTInv /\ AccountsInv /\ AccountsBalance /\ [Next]_vars => (AccountsInv /\ AccountsBalance)'
    <2>1. ASSUME LTInv, AccountsInv, Next PROVE (AccountsInv /\ AccountsBalance)'
      <3>1. AccountsInv' /\ (phase' = "done" => MergeStats)
        BY <2>1, AccountsNext
      <3>2. CASE phase' = "done"
        BY <2>1, <3>1, <3>2, MergeBalances
      <3>3. CASE phase' # "done"
        BY <3>1, <3>3 DEF AccountsBalance
      <3> QED BY <3>2, <3>3, <3>1
    <2>2. ASSUME AccountsInv, AccountsBalance, UNCHANGED vars PROVE (AccountsInv /\ AccountsBalance)'
      <3>1. UNCHANGED <<fixed, phase, pc, pos, stats, skipped, result>>
        BY <2>2 DEF vars, fixed
      <3>2. AccountsInv'
        BY <2>2, <3>1, OtherStepsBalance DEF AccountsInv, PlanKept, fixed
      <3>3. Skipped' = Skipped
        BY <3>1, SkippedIs
      <3>4. AccountsBalance'
        BY <2>2, <3>1, <3>3 DEF AccountsBalance, fixed
      <3> QED BY <3>2, <3>4
    <2> QED BY <2>1, <2>2
  <1> QED BY <1>1, <1>2, LoadTestInvariant, PTL DEF Spec
=============================================================================

---------------------------- MODULE MessageQueue ----------------------------
(***************************************************************************)
(* The message-queue strategy of message_queue/producer.py and             *)
(* message_queue/follower.py: a producer that stamps each PUT and appends  *)
(* it to the key's partition of a Kafka topic, and followers that consume  *)
(* the whole topic, each in a consumer group of its own, applying every    *)
(* message to an in-memory KVStore and committing its offset.              *)
(*                                                                         *)
(* Kafka is external, modelled from how this code uses it: an append-only  *)
(* log per partition, a committed offset per group and partition that      *)
(* outlives the follower's process, at-least-once appends (the client      *)
(* library retries).  The message at offset i is log[p][i + 1].            *)
(***************************************************************************)
EXTENDS LWW, FiniteSets, Sequences, SequencesExt

CONSTANTS
    Producer,       \* rank of the producer's node_id
    Followers,
    Partitions,
    Writes,         \* client PUT requests; each writes its own payload
    Keys,
    KeyOf,          \* [Writes -> Keys]
    PartitionOf,    \* [Keys -> Partitions]: Kafka's partitioning by key
    Timestamps,     \* bound: what time.time() may return
    Duplicates,     \* bound: appends the client library repeats
    Restarts,       \* bound: follower process stops
    BrokerErrors,   \* can the consumer raise?
    DirectWrites,   \* do clients send PUT and DELETE /kv/{key} to followers?
    FollowerRank,   \* rank of the followers' node_ids; it matters only against Producer
    Malformed,      \* bound: messages that do not parse
    Asked,          \* bound: the followers whose lag clients ask for
    Bad,            \* such a message
    NoMessage       \* the consume loop is not between apply and commit

ASSUME TopicAssumption == KeyOf \in [Writes -> Keys] /\ PartitionOf \in [Keys -> Partitions]
ASSUME RankAssumption ==
    Producer \in Nat /\ FollowerRank \in Nat \ {Producer} /\ Timestamps \subseteq Nat
ASSUME BoundsAssumption ==
    /\ Duplicates \in Nat /\ Restarts \in Nat /\ Malformed \in Nat 
    /\ BrokerErrors \in BOOLEAN /\ DirectWrites \in BOOLEAN
    /\ Asked \subseteq Followers

VARIABLES
    log,            \* [Partitions -> Seq of versions and Bad]
    committed,      \* [Followers -> [Partitions -> Nat]]; 0 also stands for None
    clock,          \* the last reading of the producer's clock
    wstate,         \* [Writes -> how far the PUT has come]
    version,        \* [Writes -> the VersionedValue the producer stamped]
    appends,        \* [Writes -> how often the message was appended]
    process,        \* [Followers -> state of the follower process]
    store,          \* [Followers -> [Keys -> entry]]
    position,       \* [Followers -> [Partitions -> next offset to consume]]
    base,           \* history: [Followers -> [Partitions -> position at startup]]
    inflight,       \* [Followers -> message applied and not yet committed]
    restarts,       \* process stops so far
    lag             \* [Followers -> the GET /internal/lag being computed]

kafkaVars    == <<log, committed>>
producerVars == <<clock, wstate, version, appends>>
followerVars == <<process, store, position, base, inflight, restarts>>
vars == <<kafkaVars, producerVars, followerVars, lag>>

Version  == VersionedValue(Writes, {Producer, FollowerRank})
Entry    == Version \cup {NoEntry}
Message  == Version \cup {Bad}
NoQuery  == [stage |-> "none"]
Offsets  == [Partitions -> Nat]
PartitionFor(w) == PartitionOf[KeyOf[w]]

\* sorted(partitions, key=lambda tp: tp.partition)
PartitionOrder == SetToSortSeq(Partitions, <)

ASSUME OrderAssumption ==
    /\ IsFiniteSet(Partitions) /\ Partitions # {}
    /\ PartitionOrder \in [1 .. Cardinality(Partitions) -> Partitions]
ASSUME MarkersAssumption ==
    NoEntry \notin Version /\ Bad \notin Version /\ NoMessage \notin Partitions \X Nat

TypeOK ==
    /\ log \in [Partitions -> Seq(Message)]
    /\ committed \in [Followers -> Offsets]
    /\ clock \in Nat
    /\ wstate \in [Writes -> {"idle", "sending", "ok", "unavailable", "local"}]
    /\ version \in [Writes -> Entry]
    /\ appends \in [Writes -> Nat]
    /\ process \in [Followers -> {"down", "joining", "consuming", "dead"}]
    /\ store \in [Followers -> [Keys -> Entry]]
    /\ position \in [Followers -> Offsets]
    /\ base \in [Followers -> Offsets]
    /\ inflight \in [Followers -> (Partitions \X Nat) \cup {NoMessage}]
    /\ restarts \in 0 .. Restarts

Init ==
    /\ log = [p \in Partitions |-> <<>>]
    /\ committed = [f \in Followers |-> [p \in Partitions |-> 0]]
    /\ clock = 0
    /\ wstate = [w \in Writes |-> "idle"]
    /\ version = [w \in Writes |-> NoEntry]
    /\ appends = [w \in Writes |-> 0]
    /\ process = [f \in Followers |-> "down"]
    /\ store = [f \in Followers |-> [k \in Keys |-> NoEntry]]
    /\ position = [f \in Followers |-> [p \in Partitions |-> 0]]
    /\ base = [f \in Followers |-> [p \in Partitions |-> 0]]
    /\ inflight = [f \in Followers |-> NoMessage]
    /\ restarts = 0
    /\ lag = [f \in Followers |-> NoQuery]

-----------------------------------------------------------------------------
(* The producer                                                            *)

\* put_key up to its await: the timestamp is taken before Kafka orders the
\* message among those of concurrent PUTs.
put_key(w, ts) ==
    /\ wstate[w] = "idle"
    /\ ts >= clock
    /\ clock' = ts
    /\ version' = [version EXCEPT ![w] = [value |-> w, timestamp |-> ts, node_id |-> Producer]]
    /\ wstate' = [wstate EXCEPT ![w] = "sending"]
    /\ UNCHANGED <<kafkaVars, appends, followerVars, lag>>

\* How many appends were repetitions.
Repeats == MapThenSumSet(LAMBDA w : appends[w], {w \in Writes : appends[w] > 0})
             - Cardinality({w \in Writes : appends[w] > 0})

\* Kafka appends the message: once while send_and_wait waits, or later if the
\* producer gave up on a request that was on its way; a retry appends it again.
Append_(w) ==
    /\ \/ wstate[w] \in {"sending", "unavailable"} /\ appends[w] = 0
       \/ wstate[w] = "sending" /\ appends[w] > 0 /\ Repeats < Duplicates
    /\ log' = [log EXCEPT ![PartitionFor(w)] = Append(@, version[w])]
    /\ appends' = [appends EXCEPT ![w] = @ + 1]
    /\ UNCHANGED <<committed, clock, wstate, version, followerVars, lag>>

\* send_and_wait returns: 200, applied is TRUE.
Confirmed(w) ==
    /\ wstate[w] = "sending"
    /\ appends[w] > 0
    /\ wstate' = [wstate EXCEPT ![w] = "ok"]
    /\ UNCHANGED <<kafkaVars, clock, version, appends, followerVars, lag>>

\* send_and_wait raises a KafkaError: 503, whether or not Kafka has the message.
NotConfirmed(w) ==
    /\ wstate[w] = "sending"
    /\ wstate' = [wstate EXCEPT ![w] = "unavailable"]
    /\ UNCHANGED <<kafkaVars, clock, version, appends, followerVars, lag>>

\* How many messages in the topic do not parse.
Unparsable == MapThenSumSet(LAMBDA q : Len(SelectSeq(log[q], LAMBDA m : m = Bad)), Partitions)

\* Something else on the topic publishes a message that does not parse.
ForeignMessage(p) ==
    /\ Unparsable < Malformed
    /\ log' = [log EXCEPT ![p] = Append(@, Bad)]
    /\ UNCHANGED <<committed, producerVars, followerVars, lag>>

-----------------------------------------------------------------------------
(* A follower                                                              *)

\* build_app and _on_startup: a fresh KVStore, and a consumer that has not been
\* assigned a partition yet; reads and lag are served from here on.
on_startup(f) ==
    /\ process[f] = "down"
    /\ process' = [process EXCEPT ![f] = "joining"]
    /\ store' = [store EXCEPT ![f] = [k \in Keys |-> NoEntry]]
    /\ UNCHANGED <<kafkaVars, producerVars, position, base, inflight, restarts, lag>>

\* Mutant of Assigned: auto_offset_reset="latest".
AssignedLatest(f) ==
    /\ process[f] = "joining"
    /\ process' = [process EXCEPT ![f] = "consuming"]
    /\ position' = [position EXCEPT ![f] =
                      [p \in Partitions |-> IF committed[f][p] = 0 THEN Len(log[p]) ELSE committed[f][p]]]
    /\ base' = [base EXCEPT ![f] = committed[f]]
    /\ UNCHANGED <<kafkaVars, producerVars, store, inflight, restarts, lag>>

\* Mutant of Assigned: every start replays the topic from its beginning.
AssignedEarliest(f) ==
    /\ process[f] = "joining"
    /\ process' = [process EXCEPT ![f] = "consuming"]
    /\ position' = [position EXCEPT ![f] = [p \in Partitions |-> 0]]
    /\ base' = [base EXCEPT ![f] = [p \in Partitions |-> 0]]
    /\ UNCHANGED <<kafkaVars, producerVars, store, inflight, restarts, lag>>

\* Kafka assigns every partition to the group's only member, which resumes from
\* the group's committed offset, or from the earliest one if there is none.
Assigned(f) ==
    /\ process[f] = "joining"
    /\ process' = [process EXCEPT ![f] = "consuming"]
    /\ position' = [position EXCEPT ![f] = committed[f]]
    /\ base' = [base EXCEPT ![f] = committed[f]]
    /\ UNCHANGED <<kafkaVars, producerVars, store, inflight, restarts, lag>>

\* Mutant of ApplyTo: log order is trusted, the version is not compared.
TrustLogOrder(entries, m) ==
    IF m = Bad THEN entries ELSE [entries EXCEPT ![KeyOf[m.value]] = m]

\* What _apply_message makes of one message: the version goes to its key, and a
\* message that does not parse is skipped.
ApplyTo(entries, m) ==
    IF m = Bad THEN entries ELSE [entries EXCEPT ![KeyOf[m.value]] = Put(@, m)]

\* Mutant of apply_message: the loop does not move past a message it rejects.
StuckOnStale(f, p) ==
    /\ process[f] = "consuming"
    /\ inflight[f] = NoMessage
    /\ position[f][p] < Len(log[p])
    /\ store[f] # ApplyTo(store[f], log[p][position[f][p] + 1])
    /\ store' = [store EXCEPT ![f] = ApplyTo(@, log[p][position[f][p] + 1])]
    /\ inflight' = [inflight EXCEPT ![f] = <<p, position[f][p]>>]
    /\ position' = [position EXCEPT ![f][p] = @ + 1]
    /\ UNCHANGED <<kafkaVars, producerVars, process, base, restarts, lag>>

\* _consume_loop up to its commit.
apply_message(f, p) ==
    /\ process[f] = "consuming"
    /\ inflight[f] = NoMessage
    /\ position[f][p] < Len(log[p])
    /\ store' = [store EXCEPT ![f] = ApplyTo(@, log[p][position[f][p] + 1])]
    /\ inflight' = [inflight EXCEPT ![f] = <<p, position[f][p]>>]
    /\ position' = [position EXCEPT ![f][p] = @ + 1]
    /\ UNCHANGED <<kafkaVars, producerVars, process, base, restarts, lag>>

\* Mutant of CommitOffset: off by one.
CommitOneTooFar(f) ==
    [committed EXCEPT ![f][inflight[f][1]] = inflight[f][2] + 2]

\* The offsets once consumer.commit({tp: message.offset + 1}) has been served.
CommitOffset(f) ==
    [committed EXCEPT ![f][inflight[f][1]] = inflight[f][2] + 1]

\* consumer.commit returns, and the loop goes on to the next message.
commit(f) ==
    /\ process[f] = "consuming"
    /\ inflight[f] # NoMessage
    /\ committed' = CommitOffset(f)
    /\ inflight' = [inflight EXCEPT ![f] = NoMessage]
    /\ UNCHANGED <<log, producerVars, process, store, position, base, restarts, lag>>

\* The loop ends at an await.  A commit that was under way may have reached
\* Kafka or not.
LoopEnds(f) ==
    /\ \/ committed' = committed
       \/ inflight[f] # NoMessage /\ committed' = CommitOffset(f)
    /\ inflight' = [inflight EXCEPT ![f] = NoMessage]

\* The consumer raises: nothing catches it, so the background task is over while
\* the process goes on serving reads and lag.
LoopFails(f) ==
    /\ BrokerErrors
    /\ process[f] = "consuming"
    /\ process' = [process EXCEPT ![f] = "dead"]
    /\ LoopEnds(f)
    /\ UNCHANGED <<log, producerVars, store, position, base, restarts, lag>>

\* The process stops: _on_shutdown cancels the loop, or the process is killed.
Stop(f) ==
    /\ process[f] # "down"
    /\ restarts < Restarts
    /\ restarts' = restarts + 1
    /\ process' = [process EXCEPT ![f] = "down"]
    /\ LoopEnds(f)
    /\ lag' = [lag EXCEPT ![f] = NoQuery]
    /\ UNCHANGED <<log, producerVars, store, position, base>>

\* PUT /kv/{key} at a follower, a route of common.server's app that it keeps:
\* stamped by its own clock, stored, and nobody else hears of it.
put_key_follower(w, f, ts) ==
    /\ DirectWrites
    /\ wstate[w] = "idle" /\ process[f] # "down"
    /\ LET v == [value |-> w, timestamp |-> ts, node_id |-> FollowerRank] IN
        /\ version' = [version EXCEPT ![w] = v]
        /\ store' = [store EXCEPT ![f] = ApplyTo(@, v)]
    /\ wstate' = [wstate EXCEPT ![w] = "local"]
    /\ UNCHANGED <<kafkaVars, clock, appends, process, position, base, inflight, restarts, lag>>

\* DELETE /kv/{key} at a follower: the log still has the key.
delete_key_follower(f, k) ==
    /\ DirectWrites
    /\ process[f] # "down" /\ store[f][k] # NoEntry
    /\ store' = [store EXCEPT ![f][k] = NoEntry]
    /\ UNCHANGED <<kafkaVars, producerVars, process, position, base, inflight, restarts, lag>>

-----------------------------------------------------------------------------
(* GET /internal/lag                                                       *)

\* get_lag's first await: the log-end offsets of all partitions at once.  A
\* consumer without an assignment answers at once, with an empty list.
EndOffsets(f) ==
    /\ f \in Asked
    /\ process[f] # "down"
    /\ lag[f] = NoQuery
    /\ lag' = [lag EXCEPT ![f] =
                 [stage |-> IF process[f] = "joining" THEN "answered" ELSE "asking",
                  end   |-> [p \in Partitions |-> Len(log[p])],
                  first |-> committed[f],
                  per   |-> <<>>]]
    /\ UNCHANGED <<kafkaVars, producerVars, followerVars>>

\* The loop over partitions: one await per partition for the committed offset.
\* per holds the lags computed so far, in partition order; first is history, the
\* committed offsets when the query began.
Committed(f) ==
    /\ lag[f].stage = "asking"
    /\ LET p == PartitionOrder[Len(lag[f].per) + 1]
           per == Append(lag[f].per, lag[f].end[p] - committed[f][p])
       IN lag' = [lag EXCEPT ![f].per = per,
                             ![f].stage = IF Len(per) = Cardinality(Partitions) THEN "answered" ELSE "asking"]
    /\ UNCHANGED <<kafkaVars, producerVars, followerVars>>

\* The response has been read by the client.
LagRead(f) ==
    /\ lag[f].stage = "answered"
    /\ lag' = [lag EXCEPT ![f] = NoQuery]
    /\ UNCHANGED <<kafkaVars, producerVars, followerVars>>

FollowerStep(f) ==
    \/ on_startup(f)
    \/ Assigned(f)
    \/ \E p \in Partitions : apply_message(f, p)
    \/ commit(f)
    \/ LoopFails(f)
    \/ Stop(f)
    \/ \E k \in Keys : delete_key_follower(f, k)
    \/ EndOffsets(f) \/ Committed(f) \/ LagRead(f)

Next ==
    \/ \E w \in Writes :
         \/ \E ts \in Timestamps : put_key(w, ts)
         \/ Append_(w)
         \/ Confirmed(w)
         \/ NotConfirmed(w)
         \/ \E f \in Followers, ts \in Timestamps : put_key_follower(w, f, ts)
    \/ \E p \in Partitions : ForeignMessage(p)
    \/ \E f \in Followers : FollowerStep(f)

Spec == Init /\ [][Next]_vars

\* Followers are started and assigned their partitions, the consumer delivers
\* what is in the log, and Kafka answers a commit.
FairSpec ==
    /\ Spec
    /\ \A f \in Followers :
         /\ WF_vars(on_startup(f))
         /\ WF_vars(Assigned(f))
         /\ WF_vars(commit(f))
         /\ \A p \in Partitions : WF_vars(apply_message(f, p))

\* total_lag
SumSeq(s) == FoldLeft(LAMBDA a, b : a + b, 0, s)

-----------------------------------------------------------------------------
(* Properties                                                              *)

KeysIn(p) == {k \in Keys : PartitionOf[k] = p}
Logged(p) == ToSet(log[p]) \ {Bad}

\* The store a follower must have after consuming the messages of p from offset
\* a up to offset b: each applied in turn to an empty store.
Replay(p, a, b) ==
    LET applied[n \in Nat] ==
            IF n = 0 THEN [k \in Keys |-> NoEntry] ELSE ApplyTo(applied[n - 1], log[p][a + n])
    IN  applied[b - a]

\* A follower's store is exactly what the part of the log it consumed says, in
\* log order: nothing skipped, nothing applied out of order, whatever messages
\* were repeated, malformed, tied or stamped in another order than appended.
StoreMatchesLog ==
    \A f \in Followers, p \in Partitions : \A k \in KeysIn(p) :
        process[f] \in {"consuming", "dead"} => store[f][k] = Replay(p, base[f][p], position[f][p])[k]

\* The committed offset never passes a message that no incarnation of the
\* follower has applied: a stop between apply and commit repeats a message, and
\* never skips one.
CommitFollowsApply ==
    \A f \in Followers, p \in Partitions :
        /\ committed[f][p] <= position[f][p]
        /\ base[f][p] <= committed[f][p]
        /\ position[f][p] <= committed[f][p] + 1

\* No acknowledged write is lost to a running follower: its message is still
\* ahead of the follower's position, or an earlier incarnation of the follower
\* consumed it, or the follower holds it or a newer version of its key, in
\* whatever order it and the messages of concurrent PUTs were appended.
AckedWriteNotLost ==
    \A w \in Writes, f \in Followers :
        wstate[w] = "ok" /\ process[f] \in {"consuming", "dead"} =>
            LET p == PartitionFor(w)
            IN  \E i \in 1 .. Len(log[p]) :
                    /\ log[p][i] = version[w]
                    /\ \/ i > position[f][p]
                       \/ i <= base[f][p]
                       \/ Holds(store[f][KeyOf[w]], version[w])

\* A follower that consumed the whole log since its first start holds the
\* newest version of every key: at every follower, the same timestamp.
CaughtUpFollowersAgree ==
    \A f \in Followers, p \in Partitions :
        process[f] \in {"consuming", "dead"} /\ base[f][p] = 0 /\ position[f][p] = Len(log[p]) =>
            \A v \in Logged(p) : Holds(store[f][KeyOf[v.value]], v)

\* GET /internal/lag never reports more than the follower was missing when the
\* query began, whatever is appended, consumed or restarted meanwhile.
LagNeverOverstates ==
    \A f \in Followers : lag[f].stage = "answered" =>
        \A i \in 1 .. Len(lag[f].per) :
            LET p == PartitionOrder[i]
            IN  lag[f].per[i] <= lag[f].end[p] - lag[f].first[p]

\* _consume_loop applies every message "forever, until cancelled (app shutdown)":
\* every logged message is consumed and its offset committed, be it stale,
\* repeated or malformed, and however often the follower is restarted, as long
\* as the consumer itself raises nothing (BrokerErrors = FALSE).
ConsumesForever ==
    \A f \in Followers, p \in Partitions, i \in 1 .. Cardinality(Writes) + Duplicates + Malformed :
        (Len(log[p]) >= i) ~> (committed[f][p] >= i)

-----------------------------------------------------------------------------
(* What comments and docs say and the code does not do: TLC refutes these. *)

\* follower.py's docstring: "every follower ends up holding a complete copy of
\* every write"; here, when its lag is zero and its consume loop is running.
ZeroLagIsComplete ==
    \A f \in Followers, p \in Partitions :
        process[f] = "consuming" /\ committed[f][p] = Len(log[p]) /\ inflight[f] = NoMessage =>
            \A v \in Logged(p) : Holds(store[f][KeyOf[v.value]], v)

\* follower.py: /internal/lag is "an accurate, real-time measure of how many
\* applied writes is this follower missing", so never a negative number.
LagIsACount ==
    \A f \in Followers : lag[f].stage = "answered" =>
        \A i \in 1 .. Len(lag[f].per) : lag[f].per[i] >= 0

\* get_lag's comment: "fail loudly rather than report a fake 0 lag that would
\* look like fully caught up": a total of 0 means that what was in the log when
\* the query began has been consumed.
ZeroLagIsReal ==
    \A f \in Followers : lag[f].stage = "answered" /\ SumSeq(lag[f].per) = 0 =>
        \A p \in Partitions : committed[f][p] >= lag[f].end[p]
=============================================================================

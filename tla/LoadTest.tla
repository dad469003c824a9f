------------------------------ MODULE LoadTest ------------------------------
(***************************************************************************)
(* The staleness load tests of experiments/: _load_test_common.py and the   *)
(* three scripts built on it, one per strategy.  Workers, each with its     *)
(* slice of a plan drawn up front, write and read concurrently and judge    *)
(* every read against a snapshot of SourceOfTruth taken before it.          *)
(*                                                                         *)
(* The cluster under test is what the scripts see of it: a coordinator      *)
(* stamps and stores a PUT, copies of it reach the other nodes in any       *)
(* order or never, a PUT is answered once w nodes have it, a GET returns    *)
(* the newest of what r nodes hold.  The other modules model how each       *)
(* strategy comes by that.                                                  *)
(*                                                                         *)
(* A worker's step is its code between two awaits that can suspend; the     *)
(* asyncio.Locks of GlobalCounter, SourceOfTruth and NodeRotation are never *)
(* held across one, so taking them does not suspend.  Between two requests  *)
(* a worker rests in "next", which the code does not: this only adds        *)
(* interleavings.                                                           *)
(***************************************************************************)
EXTENDS LWW, Sequences, FiniteSets

CONSTANTS
    NumWorkers,     \* NUM_WORKERS
    Total,          \* TOTAL_REQUESTS
    Keys,           \* KEYS
    N,              \* read targets: followers, or all nodes of the leaderless cluster
    Timestamps      \* readings of the coordinators' clocks

ASSUME SizeAssumption == NumWorkers \in Nat \ {0} /\ Total \in Nat /\ N \in Nat \ {0}

Workers == 1 .. NumWorkers
Targets == 1 .. N
Leader == 0         \* the leader, or the producer: takes writes, serves no read of these tests

ASSUME ReadingsAssumption == Timestamps \subseteq Nat
ASSUME NoEntryAssumption ==
    NoEntry \notin VersionedValue(Nat, {Leader} \cup Targets) \cup [value : Nat, timestamp : Nat]

\* One request's decisions; a write has no read_target_index (None is 0 here).
RequestPlan ==
    [is_read : {TRUE}, key : Keys, target : Targets]
        \cup [is_read : {FALSE}, key : Keys, target : {0}]

\* Every plan that some seed yields.
generate_request_plan == [1 .. Total -> RequestPlan]

\* Mutant of split_plan: the remainder of the division is nobody's.
SplitEvenly(p, i) == LET base == Total \div NumWorkers
                     IN  SubSeq(p, (i - 1) * base + 1, i * base)

\* The i-th of NumWorkers contiguous chunks; the first ones get one extra.
split_plan(p, i) ==
    LET base == Total \div NumWorkers
        remainder == Total % NumWorkers
        start == (i - 1) * base + (IF i - 1 < remainder THEN i - 1 ELSE remainder)
        size == base + (IF i <= remainder THEN 1 ELSE 0)
    IN  SubSeq(p, start + 1, start + size)

NewStats == [total_requests |-> 0, total_reads |-> 0, total_writes |-> 0,
             comparable_reads |-> 0, stale_reads |-> 0, stale_events |-> <<>>,
             failed_reads |-> 0, failed_writes |-> 0]

\* Stats.merge; failure_counts and failure_events repeat the counters by type
\* and are left out.
merge(a, b) ==
    [f \in DOMAIN a |-> IF f = "stale_events" THEN a[f] \o b[f] ELSE a[f] + b[f]]

\* What the scripts' run_load_test can be told about acks and read quorums:
\* ack_required of the leader, w and r of the leaderless cluster, nothing for
\* the producer, which is answered by Kafka alone.
Configs ==
    [strategy : {"leader_follower"}, w : 0 .. N, r : {1}]
        \cup [strategy : {"leaderless"}, w : 1 .. N, r : 1 .. N]
        \cup [strategy : {"message_queue"}, w : {0}, r : {1}]

VARIABLES
    config, plan,   \* fixed for the run
    plan_chunks,    \* and so are the workers' shares of the plan
    phase,          \* of run_load_test
    pc, pos,        \* per worker: where it is, and at which item of its chunk
    req,            \* per worker: its request in progress
    counter,        \* GlobalCounter._counter
    index,          \* NodeRotation._index
    truth,          \* SourceOfTruth._entries
    stats, result,  \* the workers' Stats, and the merged one
    store,          \* the nodes' stores
    inflight,       \* copies on their way: <<node, key, version>>
    recorded,       \* history: <<key, timestamp>> of every call of SourceOfTruth.record
    skipped         \* history: reads skipped for want of an entry, per worker

fixed == <<config, plan, plan_chunks>>
cluster == <<store, inflight>>
vars == <<config, plan, plan_chunks, phase, pc, pos, req, counter, index, truth, stats, result,
          store, inflight, recorded, skipped>>

Item(wk) == plan_chunks[wk][pos[wk]]

NoRequest == [at |-> 0, value |-> 0, version |-> NoEntry, expected |-> NoEntry,
              before |-> {}, asked |-> {}, best |-> NoEntry]

Init ==
    /\ config \in Configs
    /\ plan \in generate_request_plan
    /\ plan_chunks = [wk \in Workers |-> split_plan(plan, wk)]
    /\ phase = "discovering"
    /\ pc = [wk \in Workers |-> "next"]
    /\ pos = [wk \in Workers |-> 0]
    /\ req = [wk \in Workers |-> NoRequest]
    /\ counter = 0 /\ index = 0
    /\ truth = [k \in Keys |-> NoEntry]
    /\ stats = [wk \in Workers |-> NewStats]
    /\ result = NewStats
    /\ store = [n \in {Leader} \cup Targets |-> [k \in Keys |-> NoEntry]]
    /\ inflight = {}
    /\ recorded = {}
    /\ skipped = [wk \in Workers |-> 0]

-----------------------------------------------------------------------------
(* The cluster under test                                                  *)

\* A PUT reaches its coordinator, which stamps it, stores it, says whether it
\* won there, and sends it to the other nodes in either case.  The producer has
\* no store: what it publishes is always "applied".
PutArrives(wk) ==
    /\ pc[wk] = "put"
    /\ \E t \in Timestamps :
        LET k == Item(wk).key
            at == req[wk].at
            v == [value |-> req[wk].value, timestamp |-> t, node_id |-> at]
            stored == config.strategy # "message_queue"
        IN  /\ req' = [req EXCEPT ![wk].version = v]
            /\ pc' = [pc EXCEPT ![wk] =
                        IF stored /\ ~Applies(store[at][k], v) THEN "rejected" ELSE "applied"]
            /\ store' = IF stored THEN [store EXCEPT ![at][k] = Put(@, v)] ELSE store
            /\ inflight' = inflight \cup {<<n, k, v>> : n \in Targets \ {at}}
    /\ UNCHANGED <<fixed, phase, pos, counter, index, truth, stats, result, recorded, skipped>>

\* A node takes over a copy; what happens once the script is over is not modelled.
Deliver(n, k, v) ==
    /\ phase = "running"
    /\ <<n, k, v>> \in inflight
    /\ store' = [store EXCEPT ![n][k] = Put(@, v)]
    /\ inflight' = inflight \ {<<n, k, v>>}
    /\ UNCHANGED <<fixed, phase, pc, pos, req, counter, index, truth, stats, result, recorded, skipped>>

\* The next of the r nodes a GET asks, its target first, adds what it holds.
ServeRead(wk, n) ==
    /\ pc[wk] = "get"
    /\ Cardinality(req[wk].asked) < config.r
    /\ n \notin req[wk].asked
    /\ req[wk].asked = {} => n = Item(wk).target
    /\ LET entry == store[n][Item(wk).key]
       IN  req' = [req EXCEPT ![wk].asked = @ \cup {n},
                              ![wk].best = IF entry = NoEntry THEN @ ELSE Put(@, entry)]
    /\ UNCHANGED <<fixed, phase, pc, pos, counter, index, truth, stats, result, cluster, recorded, skipped>>

\* Enough nodes have the PUT of worker wk for its coordinator to answer 200.
Acked(wk) ==
    Cardinality({n \in Targets : <<n, Item(wk).key, req[wk].version>> \notin inflight}) >= config.w

-----------------------------------------------------------------------------
(* What the scripts share                                                  *)

\* Mutant of record: the last completion wins.
RecordAlways(k, e) == [truth EXCEPT ![k] = e]

\* SourceOfTruth.record: the entries after it.
record(k, e) ==
    IF truth[k] = NoEntry \/ e.timestamp > truth[k].timestamp
    THEN [truth EXCEPT ![k] = e]
    ELSE truth

\* Worker wk's loop takes its next item, a read or a write.
TakeItem(wk, is_read) ==
    /\ phase = "running"
    /\ pc[wk] = "next"
    /\ pos[wk] < Len(plan_chunks[wk])
    /\ plan_chunks[wk][pos[wk] + 1].is_read = is_read
    /\ pos' = [pos EXCEPT ![wk] = @ + 1]
    /\ stats' = [stats EXCEPT ![wk].total_requests = @ + 1,
                              ![wk].total_reads = @ + (IF is_read THEN 1 ELSE 0),
                              ![wk].total_writes = @ + (IF is_read THEN 0 ELSE 1)]

\* The request of worker wk is over; stats' is left to the caller.
Finish(wk) ==
    /\ pc' = [pc EXCEPT ![wk] = "next"]
    /\ req' = [req EXCEPT ![wk] = NoRequest]

\* A write takes a value and is sent to its coordinator.
IssuePut(wk, at) ==
    /\ TakeItem(wk, FALSE)
    /\ counter' = counter + 1
    /\ req' = [req EXCEPT ![wk] = [NoRequest EXCEPT !.at = at, !.value = counter]]
    /\ pc' = [pc EXCEPT ![wk] = "put"]
    /\ UNCHANGED <<fixed, phase, truth, result, cluster, recorded, skipped>>

\* 200: what was applied is recorded, what lost its LWW race is not.
PutAnswered(wk) ==
    /\ pc[wk] \in {"applied", "rejected"}
    /\ Acked(wk)
    /\ LET v == req[wk].version
           k == Item(wk).key
           e == [value |-> v.value, timestamp |-> v.timestamp]
       IN  IF pc[wk] = "applied"
           THEN /\ truth' = record(k, e)
                /\ recorded' = recorded \cup {<<k, v.timestamp>>}
           ELSE UNCHANGED <<truth, recorded>>
    /\ Finish(wk)
    /\ UNCHANGED <<fixed, phase, pos, counter, index, stats, result, cluster, skipped>>

\* Mutant of PutFails: a stored write is recorded before its status is looked at.
RecordFailed(wk) ==
    /\ pc[wk] \in {"put", "applied", "rejected"}
    /\ stats' = [stats EXCEPT ![wk].failed_writes = @ + 1]
    /\ LET v == req[wk].version
           k == Item(wk).key
       IN  IF pc[wk] = "applied"
           THEN /\ truth' = record(k, [value |-> v.value, timestamp |-> v.timestamp])
                /\ recorded' = recorded \cup {<<k, v.timestamp>>}
           ELSE UNCHANGED <<truth, recorded>>
    /\ Finish(wk)
    /\ UNCHANGED <<fixed, phase, pos, counter, index, result, cluster, skipped>>

\* Mutant of PutFails: no REQUEST_TIMEOUT, only an answer fails a write.
FailsOnAnswer(wk) ==
    /\ pc[wk] \in {"applied", "rejected"}
    /\ stats' = [stats EXCEPT ![wk].failed_writes = @ + 1]
    /\ Finish(wk)
    /\ UNCHANGED <<fixed, phase, pos, counter, index, truth, result, cluster, recorded, skipped>>

\* An httpx.HTTPError, REQUEST_TIMEOUT included, or a 503: _record_failure.  The
\* coordinator may have stored the write, whose copies are still on their way.
PutFails(wk) ==
    /\ pc[wk] \in {"put", "applied", "rejected"}
    /\ stats' = [stats EXCEPT ![wk].failed_writes = @ + 1]
    /\ Finish(wk)
    /\ UNCHANGED <<fixed, phase, pos, counter, index, truth, result, cluster, recorded, skipped>>

\* snapshot, then a GET to the planned target; no request if there is no entry.
IssueGet(wk) ==
    /\ TakeItem(wk, TRUE)
    /\ LET k == plan_chunks[wk][pos[wk] + 1].key
       IN  IF truth[k] = NoEntry
           THEN /\ skipped' = [skipped EXCEPT ![wk] = @ + 1]
                /\ UNCHANGED <<pc, req>>
           ELSE /\ pc' = [pc EXCEPT ![wk] = "get"]
                /\ req' = [req EXCEPT ![wk] = [NoRequest EXCEPT
                             !.expected = truth[k],
                             !.before = {r[2] : r \in {x \in recorded : x[1] = k}}]]
                /\ UNCHANGED skipped
    /\ UNCHANGED <<fixed, phase, counter, index, truth, result, cluster, recorded>>

\* An httpx.HTTPError, or neither 200 nor 404: _record_failure.
GetFails(wk) ==
    /\ pc[wk] = "get"
    /\ stats' = [stats EXCEPT ![wk].failed_reads = @ + 1]
    /\ Finish(wk)
    /\ UNCHANGED <<fixed, phase, pos, counter, index, truth, result, cluster, recorded, skipped>>

\* The answer `best`, or a 404 for NoEntry, is older than the snapshot.
IsStale(best, expected) == best = NoEntry \/ best.timestamp < expected.timestamp

\* _record_stale; the gap in milliseconds is left out.
record_stale(s, item, best, expected) ==
    [s EXCEPT !.stale_reads = @ + 1,
              !.stale_events = Append(@, [key |-> item.key, node |-> item.target,
                                          expected |-> expected.timestamp,
                                          actual |-> IF best = NoEntry THEN {} ELSE {best.timestamp},
                                          lag_from |-> {}])]

\* The read's statistics when it is compared with entry e.
Compared(wk, e) ==
    LET s == [stats[wk] EXCEPT !.comparable_reads = @ + 1]
    IN  [stats EXCEPT ![wk] = IF IsStale(req[wk].best, e)
                              THEN record_stale(s, Item(wk), req[wk].best, e)
                              ELSE s]

\* Only the message-queue script asks for a follower's lag after a stale read.
SamplesLag == config.strategy = "message_queue"

\* Mutant of Judge: compared with the source of truth as it is after the answer.
JudgeLate(wk) ==
    /\ pc[wk] = "get"
    /\ Cardinality(req[wk].asked) = config.r
    /\ stats' = Compared(wk, truth[Item(wk).key])
    /\ IF IsStale(req[wk].best, truth[Item(wk).key]) /\ SamplesLag
       THEN pc' = [pc EXCEPT ![wk] = "lag"] /\ UNCHANGED req
       ELSE Finish(wk)
    /\ UNCHANGED <<fixed, phase, pos, counter, index, truth, result, cluster, recorded, skipped>>

\* A 200 or 404: the read is comparable, and stale or not.
Judge(wk) ==
    /\ pc[wk] = "get"
    /\ Cardinality(req[wk].asked) = config.r
    /\ stats' = Compared(wk, req[wk].expected)
    /\ IF IsStale(req[wk].best, req[wk].expected) /\ SamplesLag
       THEN pc' = [pc EXCEPT ![wk] = "lag"] /\ UNCHANGED req
       ELSE Finish(wk)
    /\ UNCHANGED <<fixed, phase, pos, counter, index, truth, result, cluster, recorded, skipped>>

\* The worker's loop is over: it has returned its Stats.
Returned(wk) == pc[wk] = "next" /\ pos[wk] = Len(plan_chunks[wk])

\* The /health lookups succeed and the workers start, or one fails and its
\* exception ends the script.
Discover ==
    /\ phase = "discovering"
    /\ phase' \in {"running", "aborted"}
    /\ UNCHANGED <<fixed, pc, pos, req, counter, index, truth, stats, result, cluster, recorded, skipped>>

\* The Stats of the first n workers in one.
Merged[n \in 0 .. NumWorkers] ==
    IF n = 0 THEN NewStats ELSE merge(Merged[n - 1], stats[n])

\* asyncio.gather has all workers' Stats: they are merged.
MergeStats ==
    /\ phase = "running"
    /\ \A wk \in Workers : Returned(wk)
    /\ phase' = "done"
    /\ result' = Merged[NumWorkers]
    /\ UNCHANGED <<fixed, pc, pos, req, counter, index, truth, stats, cluster, recorded, skipped>>

-----------------------------------------------------------------------------
(* staleness_load_test.py: writes at the leader, reads at a follower       *)

leader_do_write(wk) ==
    \/ IssuePut(wk, Leader) /\ UNCHANGED index
    \/ PutAnswered(wk)
    \/ PutFails(wk)

leader_do_read(wk) == IssueGet(wk) \/ GetFails(wk) \/ Judge(wk)

leader_run_worker(wk) ==
    /\ config.strategy = "leader_follower"
    /\ leader_do_write(wk) \/ leader_do_read(wk)

leader_run_load_test == config.strategy = "leader_follower" /\ (Discover \/ MergeStats)

-----------------------------------------------------------------------------
(* leaderless_staleness_load_test.py: writes at the next node in turn,     *)
(* reads through a quorum                                                  *)

\* NodeRotation.next_node
next_node == (index % N) + 1

leaderless_do_write(wk) ==
    \/ IssuePut(wk, next_node) /\ index' = index + 1
    \/ PutAnswered(wk)
    \/ PutFails(wk)

leaderless_do_read(wk) == IssueGet(wk) \/ GetFails(wk) \/ Judge(wk)

leaderless_run_worker(wk) ==
    /\ config.strategy = "leaderless"
    /\ leaderless_do_write(wk) \/ leaderless_do_read(wk)

leaderless_run_load_test == config.strategy = "leaderless" /\ (Discover \/ MergeStats)

-----------------------------------------------------------------------------
(* mq_staleness_load_test.py: writes at the producer, reads at a follower, *)
(* whose lag is asked for after a stale one                                *)

\* Mutant of query_lag: the sample goes to the worker's first event.
LagToFirst(wk) ==
    /\ pc[wk] = "lag"
    /\ stats' = [stats EXCEPT ![wk].stale_events[1].lag_from = {Item(wk).target}]
    /\ Finish(wk)
    /\ UNCHANGED <<fixed, phase, pos, counter, index, truth, result, cluster, recorded, skipped>>

\* _query_lag ends, in a number or, when it fails, in None; either is attached
\* to stale_events[-1], looked up after the await.
query_lag(wk) ==
    /\ pc[wk] = "lag"
    /\ stats' = [stats EXCEPT ![wk].stale_events[Len(stats[wk].stale_events)].lag_from = {Item(wk).target}]
    /\ Finish(wk)
    /\ UNCHANGED <<fixed, phase, pos, counter, index, truth, result, cluster, recorded, skipped>>

mq_do_write(wk) ==
    \/ IssuePut(wk, Leader) /\ UNCHANGED index
    \/ PutAnswered(wk)
    \/ PutFails(wk)

mq_do_read(wk) == IssueGet(wk) \/ GetFails(wk) \/ Judge(wk) \/ query_lag(wk)

mq_run_worker(wk) ==
    /\ config.strategy = "message_queue"
    /\ mq_do_write(wk) \/ mq_do_read(wk)

mq_run_load_test == config.strategy = "message_queue" /\ (Discover \/ MergeStats)

-----------------------------------------------------------------------------

run_worker(wk) == leader_run_worker(wk) \/ leaderless_run_worker(wk) \/ mq_run_worker(wk)
run_load_test == leader_run_load_test \/ leaderless_run_load_test \/ mq_run_load_test

Next ==
    \/ run_load_test
    \/ \E wk \in Workers :
        run_worker(wk) \/ PutArrives(wk) \/ \E n \in Targets : ServeRead(wk, n)
    \/ \E c \in inflight : Deliver(c[1], c[2], c[3])

Spec == Init /\ [][Next]_vars

\* The event loop runs every worker that can run, and REQUEST_TIMEOUT ends every
\* request.  Nothing is assumed of the cluster.
FairSpec == Spec /\ WF_vars(run_load_test) /\ \A wk \in Workers : WF_vars(run_worker(wk))

-----------------------------------------------------------------------------
(* Properties                                                              *)

\* A comparable read is counted stale exactly when a write that had been
\* recorded before the read was issued is newer than the answer: neither
\* completions out of timestamp order nor writes recorded while the read was
\* under way make or hide a stale read.
VerdictIsExact ==
    [][\A wk \in Workers :
        stats'[wk].comparable_reads > stats[wk].comparable_reads =>
            /\ req[wk].before # {}
            /\ stats'[wk].stale_reads > stats[wk].stale_reads
                 <=> \E t \in req[wk].before :
                        req[wk].best = NoEntry \/ t > req[wk].best.timestamp]_vars

\* With overlapping quorums (w + r > N; acks from every follower, for the
\* leader) no load test ever reports a stale read, whatever the clocks say,
\* whichever writes fail half-way and whatever order completions have.
StrictQuorumNeverStale ==
    config.w + config.r > N => \A wk \in Workers : stats[wk].stale_reads = 0

\* Reads skipped by the first n workers.
Skipped[n \in 0 .. NumWorkers] == IF n = 0 THEN 0 ELSE Skipped[n - 1] + skipped[n]

\* The merged statistics account for every planned request once: each read was
\* compared, failed or skipped, and every stale one has its event.
AccountsBalance ==
    phase = "done" =>
        LET reads == {i \in 1 .. Total : plan[i].is_read}
        IN  /\ result.total_requests = Total
            /\ result.total_reads = Cardinality(reads)
            /\ result.total_writes = Total - Cardinality(reads)
            /\ result.comparable_reads + result.failed_reads
                 + Skipped[NumWorkers] = result.total_reads
            /\ result.failed_writes <= result.total_writes
            /\ result.stale_reads <= result.comparable_reads
            /\ Len(result.stale_events) = result.stale_reads

\* A lag sample ends up in the event of the stale read it was taken for, though
\* the event is looked up after the await: every event but the one whose query
\* is under way carries a sample of its own follower.
LagBelongsToItsRead ==
    \A wk \in Workers : \A i \in DOMAIN stats[wk].stale_events :
        LET e == stats[wk].stale_events[i]
            pending == pc[wk] = "lag" /\ i = Len(stats[wk].stale_events)
        IN  e.lag_from = IF config.strategy # "message_queue" \/ pending THEN {} ELSE {e.node}

\* Every load test ends, also against a cluster that never answers.
EveryRunEnds == <>(phase \in {"done", "aborted"})

-----------------------------------------------------------------------------
(* What comments and docs say and the code does not do: TLC refutes these. *)

\* _load_test_common.py on Stats: a failed write never updates source_of_truth
\* because "nothing durably happened to record".  Once all requests are over,
\* what the nodes hold would then be what was recorded.
FailedWriteLeavesNoTrace ==
    (\A wk \in Workers : pc[wk] \notin {"put", "applied", "rejected"}) =>
        \A n \in Targets, k \in Keys :
            store[n][k] # NoEntry =>
                truth[k] # NoEntry /\ store[n][k].timestamp <= truth[k].timestamp
=============================================================================

# TLA+ models of kv-replication-lab

The repository compares three ways to replicate a key-value store: a leader that
pushes to followers, leaderless quorums, and followers that consume a Kafka
topic. This directory models in TLA+ the three clusters, the store they share,
the load tests that measure them and the scripts that run these tests; it checks
the models with TLC on small instances, and proves the main guarantees of the
store, the three clusters and the load tests with TLAPS for every instance.

## Inventory

| Component | State | Operations | Interaction | What is hard, and what makes it correct |
|---|---|---|---|---|
| Version order, `common/models.py` | none | `is_newer_than` | called by every store and by quorum reads | exact timestamp ties; all nodes must pick the same winner |
| `KVStore`, `common/storage.py`, under `common/server.py` | `_data`, `_lock` | put, get, delete, key_count; PUT stamps `time.time()` | shared by the threads of FastAPI's pool | threads between compare and store; timestamps taken before the lock; operations must be atomic |
| Leaderless node, `leaderless/node.py` | store, `_background`, the request handlers' locals | quorum PUT and GET, `_gather`, internal read, replicate, DELETE | HTTP between nodes, one task per peer call | late, lost and out-of-order calls, deadlines, cancelled handlers; W+R>N must give fresh reads, acknowledged writes must stay |
| Leader and followers, `leader_follower/` | store per node, `_background` | PUT at the leader with `ack_required`, replicate, inherited PUT and DELETE | HTTP from leader to followers | overtaking calls, 503 after a local write, no retry, cancellation |
| `Replicator._send` | semaphore, `is_closed` | queue for a slot, POST, shutdown | shared by all writes of a leader | slots at their limit, the client closing under waiting calls |
| Message queue, `message_queue/producer.py`, `follower.py` | Kafka log and committed offsets; in-memory store and consumer position | PUT appends, consume loop applies and commits, `GET /internal/lag` | Kafka topic, one consumer group per follower | stop between apply and commit, restart with an empty store, repeated appends, lag read in several awaits, a consume loop that dies |
| Topic administration, `message_queue/topics.py` | the topic on the broker | ensure_topic_exists, reset_topic | Kafka admin API; every node calls the first at its start, every script the second before its nodes | create/create and create/delete races, a delete that is acknowledged before it is done; nodes must find the topic as configured, load tests must find it empty |
| Load tests, `experiments/*_load_test*.py` | SourceOfTruth, Stats, counters | workers that write, read and judge staleness | HTTP to the clusters | out-of-order completions, verdicts from a snapshot taken before the read |
| Sweep and demos, `experiments/run_comparison.py`, `mq_lag_demo.py`, `leaderless_boundary_case_demo.py` | node processes, the list `nodes`, outcomes | reset the topic, spawn, wait for health and assignment, load, stop, report | OS processes, ports, HTTP, the broker, `docs/results.md` | spawns that fail halfway, nodes that hang, Ctrl-C, a stop that times out, another process on the port; nothing may be left running, a load must meet its own cluster |
| Results document, `experiments/_results_doc.py` | `docs/results.md` | replace_section | written by three scripts | each must find and replace its own section and no other |
| Configuration, command line, smoke test | files | parsing, range checks | start-up only | no concurrency |

`PROJECT.json` lists the components with their status, the hazards at their
lines, and the map from definitions to source lines.

## Modules

| Module | Models | Notes |
|---|---|---|
| `LWW` | `VersionedValue.is_newer_than`, the decision of `KVStore.put` | a node_id is its rank in string order; extended by all others |
| `AtomicStore` | what `storage.py` promises | abstract: Call, TakeEffect, Return |
| `KVStore` | the store's methods under the thread pool | `pc` per thread: entry, locked, read, leaving; refines `AtomicStore` |
| `Leaderless` | `leaderless/node.py` | see below |
| `LeaderFollower` | `leader.py`'s put_key_leader and replicate(), the followers' routes | its write path refines `Leaderless` |
| `Replicator` | `_send`: closed check, semaphore, POST; shutdown | asyncio.Semaphore is external, from CPython's behaviour |
| `MessageQueue` | producer, followers, lag endpoint | Kafka is external: append-only logs, committed offsets, at-least-once appends |
| `LoadTest` | `_load_test_common.py` and the three `*staleness_load_test.py` scripts | the cluster under test is abstract: see below |
| `TopicAdmin` | `topics.py`: a step per admin request | no Init or Next of its own: `Sweep` takes its steps |
| `ResultsDoc` | `_results_doc.py` as an operator on sequences of markers and text | with `HasSection` as its reference |
| `Sweep` | `run_comparison.py` and the two demos | composes `TopicAdmin` and `ResultsDoc` with node processes and ports |
| `LWWProofs`, `KVStoreProofs`, `LeaderlessProofs`, `LeaderFollowerProofs`, `ReplicatorProofs`, `MessageQueueProofs`, `LoadTestProofs`, `SweepProofs` | theorems about the module of that name | TLAPS; see Proofs |
| `MC*` | constants, symmetry and bounds for TLC | one per specification |

An action is the code between two awaits (asyncio handlers run without
interleaving in between); in `KVStore`, where handlers run on threads, it is one
access under the lock.

**Leaderless.** One key: no operation touches two. `store[n]` is a node's entry;
`wstate`, `wparam`, `version`, `acked`, `send` are what a PUT's handler and its
calls know, `rstate` ... `result` the same for a GET; `pending` is `_gather`'s set
and `background` is `_background`. `put_key_coordinator` and
`get_key_coordinator` run up to the first await and answer at once when nothing
has to be waited for; `CollectAcks`/`CollectReplies` are one turn of `_gather`'s
loop with the rest of the handler if it was the last; `PutTimeout`,
`GetTimeout`, `PutCancelled`, `GetCancelled` are the other ways out, all through
the `finally` block (`HandOff`). A replicate call is sent, then applied at the
peer, then acked; or its sender gives up and the request may still be carried out
later. `Deliver` also stands for the fault-injected handler, whose sleep is the
delay between send and apply. Request loss is a "gaveup" that never arrives.

**LeaderFollower.** The same, with `ack_required` fixed by the configuration, no
`finally`, and clients that may PUT and DELETE at followers, whose app is the
generic one. A failed call is "gaveup" (it may still arrive) or "lost".

**MessageQueue.** The message at offset i of partition p is `log[p][i + 1]`.
`apply_message` is one turn of `_consume_loop` up to its commit; `commit`,
`LoopFails` and `Stop` are how the await ends, and in the last two Kafka may or
may not have the commit. `LoopFails` leaves a process that serves reads and never
consumes again ("dead"). `base` is history: where this incarnation began. The
lag query is one step for the end offsets and one per partition. With
DirectWrites a client also uses the PUT and DELETE routes a follower inherits;
`follower.py:251` calls the consumer "the only writer [...] in normal operation",
and StoreMatchesLog, which needs that, is checked without them.

**LoadTest.** Each of the three scripts has its own `_do_write`, `_do_read`,
`run_worker` and `run_load_test`; the model has them under the names
`leader_do_write`, `leaderless_do_write`, `mq_do_write` and so on, put together
from the steps they share. A worker's step ends where the code awaits a response.
`store` and `inflight` are the cluster as a client sees it: the coordinator
stamps and stores a PUT (the producer has no store) and sends it on, copies
arrive in any order or never, a PUT is answered once `w` replicas have it, a GET
returns the newest of `r` replicas, the planned target first. That the real
clusters behave so is the subject of the other modules. A plan is any sequence of
decisions, since a seed only selects one of them. A PUT that times out at the
client has reached its coordinator before that or never does. `recorded`, `skipped` and a
request's `before` are history.

**Sweep.** A session is a sequence of scripts, run one after another; "by_hand" is
somebody starting a message-queue cluster in terminals. `phase` walks through the
steps of a configuration's try block (`run_leader_follower_configs` and so on are
these sequences of steps), then its finally block, in which `_stop_all` goes
through `nodes`; `BeginJob`, `SpawnFollower`, `_wait_for_all_healthy` ... are one
step each up to the next await, or the next system call where the order of spawns
and signals matters. `StepRaises` is any Exception in the try block, `Interrupt`
Ctrl-C at an await. An exception out of `_stop_all` ends the script there
(`StopAllRaises`): the second `wait` of a node times out (`KillUnanswered`), or a
second Ctrl-C comes in one of these waits (`SecondInterrupt`). `proc` holds the
processes of the current configuration, one per port, and `old` those of earlier
ones that nobody stopped (`LetGo`): until they exit they answer on their ports,
where a new process that finds its port taken exits, and those of a message queue
make a topic that is missing (`LeftoverMakesTopic`). They go on through all later
configurations and scripts of the session. `bound`, `joined` and `wrote` are
history. The broker lists a topic until its deletion is done, and
makes a missing one, with its own number of partitions, for a client that asks for
its metadata. The load is one step: `LoadTest` shows that it ends.

## Runs

| Run | Instance | Shows |
|---|---|---|
| `leaderless_quorum` | 3 nodes, 2 PUTs at different nodes with equal or different timestamps, 1 GET at the third, W=R=2, at most one failed call | AckedWriteDurable, ReadSeesAckedWrites, ReplicasConverge, NodeNeverRegresses |
| `leaderless_live` | 3 nodes, 1 PUT with w in {0,1,2,4}, 1 GET with r in {0,2,4}, DELETEs, all faults and cancellations | type, NoOrphanTask, EveryRequestEnds, BackgroundDrains, also at the refused parameters |
| `kvstore_atomic` | 3 threads, 2 keys, 2 timestamps, 2 node ids | NoStaleCompare, refinement of AtomicStore |
| `leader_safety` | 2 followers, 2 PUTs, ack_required 1, failing and late calls | durability, FollowersNeverAhead, ReplicasConverge, NoOrphanTask, LaterWriteRepairs, refinement of Leaderless |
| `leader_live` | 1 follower, 2 PUTs, everything enabled | EveryPutEnds |
| `replicator_slots` | 5 calls, 2 slots, shutdown | SlotsConserved, NoIdleSlot, OnlyWaitersRaise, EverySendEnds |
| `mq_safety` | 1 follower, 3 PUTs on 2 keys of a partition, 1 repeated append, 1 malformed message, 1 restart, consumer errors | StoreMatchesLog, CommitFollowsApply, AckedWriteNotLost, CaughtUpFollowersAgree |
| `mq_live` | 2 partitions, 1 PUT, appended up to 3 times, 1 malformed message in either partition, 2 restarts, PUTs and DELETEs at the follower, lag queries | ConsumesForever, LagNeverOverstates |
| `mq_restart` | 1 PUT, 1 restart | **violation**: a restarted follower has lag 0 and lacks the write |
| `load_test` | every plan of 3 requests over 2 workers, 2 replicas, all scripts, every w and r, 2 timestamps | VerdictIsExact, StrictQuorumNeverStale, AccountsBalance, LagBelongsToItsRead, EveryRunEnds |
| `sweep` | sessions boundary demo, sweep, boundary demo; lag demo twice; nodes by hand. 2 followers, 2 + 1 + 2 configurations, spawn failures outside the message queue, crashes, hangs, kills that are not answered, processes left running, broker errors, one and two Ctrl-C | NothingLeftRunning, ReadyBeforeLoad, CleanSlate, LostRacesTolerated, DocHoldsLastReports, EverySessionEnds |
| `sweep_leak` | 2 message-queue configurations, spawn failures there | **violation**: followers spawned before the failure are never stopped |

Bounds. Three nodes are the smallest cluster with a quorum that is neither one
node nor all; two writes are what an order needs (which came first at this node),
one read what the overlap needs; two timestamps give earlier, later and equal.
`FewFaults` keeps `leaderless_quorum` small: the faults it leaves out run without
bound in `leaderless_live`, and the theorems have no bounds and hold for every w
and r. Followers
of a message queue share nothing but the log, so the safety run has one; its
properties speak of each follower and the log. In `mq_live` one write is enough:
its repetitions are the stale messages, and no two messages of a log interact in
what ConsumesForever and LagNeverOverstates say. In `load_test` three requests over
two workers give a remainder to split, two writes that complete in the wrong
order before a read, a write recorded during a read, and two stale reads of one
worker; keys do not interact and one is enough. In `sweep` two followers are what
a spawn that fails halfway and a race to create the topic need; the sessions put
two configurations of each strategy after one another, within a script or from
one to the next, and write each kind of section twice or beside the others. The
topic may be missing or hold messages when a session begins. Symmetry permutes writes (or
threads) that differ in nothing; the properties of those runs do not tell them
apart. Deadlock is checked in `kvstore_atomic`; elsewhere the system may stop when
all requests have been served.

Fairness. The deadlines of `_gather` and `replicate()` are computed by the event
loop's own clock and passed to `asyncio.wait`, so a waiting handler is always
resumed: `DeadlineSpec` assumes this and nothing else. That a call ends
(BackgroundDrains) is a hypothesis inside the property, per call, which httpx's
timeouts justify. `Replicator!FairSpec`:
the event loop runs ready tasks and httpx ends every POST. `MessageQueue!FairSpec`:
a follower is started, assigned, receives what is logged, and Kafka answers
commits; `mq_live` has no consumer errors, since one ends the loop for good (see
"Statements the code does not meet"). `LoadTest!FairSpec`: the event loop runs the workers and REQUEST_TIMEOUT
ends every request; nothing is assumed of the cluster. `Sweep!FairSpec`: the
script goes on, since each of its waits has a deadline (HEALTH_TIMEOUT_SECONDS,
SHUTDOWN_GRACE_SECONDS, the poll of reset_topic), each request a timeout, and a
load test ends (EveryRunEnds); nothing is assumed of the nodes and the broker.

TypeOK of `Replicator`, `MessageQueue` and `LoadTest` is not among their runs'
properties: it is there for their proofs.

Assumptions worth knowing. `StrictClock` says that one node's clock never returns
the same reading twice. ReplicasConverge needs it (see below). The clocks of
different nodes are unrelated. A node's clock does not go back.

## Proofs

Every theorem holds for all values of the constants that satisfy the named
assumptions of its module: any numbers of nodes, threads, calls, workers, writes
and keys, any timestamps and quorum parameters. A hypothesis in the table is a
switch of the model that the theorem needs; what TLC finds without it is under
"Statements the code does not meet".

| Module | Theorem | States | Hypotheses |
|---|---|---|---|
| `LWWProofs` | NewerIsTotalOrder | the version order is strict, and total up to equal stamps | versions with numbers to compare |
| | ArrivalOrderIsIrrelevant | two puts commute | different stamps |
| | RedeliveryIsIdempotent | a repeated put changes nothing, also after another one | |
| `KVStoreProofs` | TypeCorrect, ComparesAreFresh | TypeOK, NoStaleCompare | |
| | StoreIsAtomic | ImplementsAtomicStore | |
| `LeaderlessProofs` | TypeCorrect, TasksReferenced | TypeOK, NoOrphanTask | |
| | DurableWrites, QuorumOverlap, NeverRegresses | AckedWriteDurable, ReadSeesAckedWrites, NodeNeverRegresses | no DELETE |
| | ReplicasAgree | ReplicasConverge | no DELETE, StrictClock |
| `LeaderFollowerProofs` | TypeCorrect | TypeOK | |
| | AckedWritesDurable | AckedWriteDurable | no DELETE |
| | MissedWritesRepaired | LaterWriteRepairs | no DELETE |
| | LeaderIsNeverBehind | FollowersNeverAhead | no DELETE, no PUT at a follower |
| | ReplicasAgree | ReplicasConverge | the same, and StrictClock |
| | TasksReferenced | NoOrphanTask | no cancellation |
| | SameWritePolicy | ImplementsLeaderless | no cancellation, no PUT at a follower |
| `ReplicatorProofs` | NoSlotLeaks, BackpressureIsTight, GuardCatchesNewcomers | SlotsConserved, NoIdleSlot, OnlyWaitersRaise | |
| `MessageQueueProofs` | TypeCorrect, NothingSkipped, LagIsNoOverestimate | TypeOK, CommitFollowsApply, LagNeverOverstates | |
| | CommitsNeverGoBack | no step moves a committed offset back | |
| | StoreIsWinnerOfLog, FollowersAreReplicas, CaughtUpIsComplete | what a follower holds is decided by the span of log it consumed; CaughtUpFollowersAgree | no PUT or DELETE at a follower |
| | AckedWritesReachFollowers, StoreIsReplayOfLog | AckedWriteNotLost, StoreMatchesLog | the same |
| `LoadTestProofs` | StrictQuorumsAreFresh, VerdictsAreExact, SamplesAreOwn | StrictQuorumNeverStale, VerdictIsExact, LagBelongsToItsRead | |
| | StatsAccountForPlan | AccountsBalance | |
| `SweepProofs` | LostRacesAreTolerated, ReadyBeforeEveryLoad | LostRacesTolerated, ReadyBeforeLoad | |
| | NothingIsLeftRunning | NothingLeftRunning | Popen does not raise among the followers of a message queue |
| | SlateIsClean | CleanSlate | nodes are started by hand only as the first of a session |
| | ReplaceKeepsOthers | what replace_section does to a text, its own section and the others | each section is whole or absent |
| | WholeSectionsStay | the first half of DocHoldsLastReports: each marker has its last report, once | each section of InitialDoc is whole or absent, as in the repository's docs/results.md |
| | DocHoldsReports | DocHoldsLastReports | InitialDoc has no markers |

The invariants behind them. TLC checked each one on the run of its module.

**KVStore.** `KVInv`: whoever is past the lock is the one that holds it, and what
a put read under the lock is still what the store has. The refinement maps a
thread that has not yet changed the store to "called" and one that has to
"done"; each step is an AtomicStore step or a stutter (`StoreStepRefines`).

**Leaderless.** AckedWriteDurable is not inductive: "ok" says nothing about where
the write is. `WInv` adds what the 200 rests on: the coordinator holds every
started write (CoordinatorHolds), calls go to peers (SendsToPeers), a peer whose
call was applied or acked holds the write (PeersHold), a counted ack is a real one
(AcksAreReal), and an answered PUT counted W-1 of them (QuorumCounted). That
holding is never lost is `PutKeeps`, from the transitivity of the version order.
ReadSeesAckedWrites needs `RInv` on top: who was asked (ReadBookkeeping), every
snapshot taken from a quorum member of an earlier acknowledged PUT holds that PUT
(SnapshotsFresh), and the result is beaten by no snapshot (ResultIsNewest). The
two meet in `Pigeonhole`: W holders and R answers share a node if W+R>N.
NoOrphanTask is inductive together with TypeOK. ReplicasConverge adds that
entries are versions of started writes (EntriesFromWrites) and that these have
different stamps (StampsDistinct, from StrictClock); then the version order is
total on them. Durability and freshness do not need StrictClock: they survive
ties.

**LeaderFollower.** The same in a smaller form: `CallInv` (stamps, calls, acks) and
`HoldInv` (the leader and every follower that carried out a call, acked or not, hold
the write). LaterWriteRepairs follows from it by the transitivity of the version
order.
SameWritePolicy maps the leader's calls to sends, with the leader as the only
coordinator and W = ack_required + 1, and shows that each step is a Leaderless
step or a stutter.

**Replicator.** `RInv`: slots are free, granted or on the wire (SlotsOwned); the
queue holds the waiting calls, each once (QueueExact); no slot idles while a call
waits unless somebody is about to hand it on (SlotsBusy).

**MessageQueue.** `MQInv`: committed <= position <= end of log for every group and
partition (OffsetsInStep), with at most one message between the first two, and an
appended write is in its log (AppendsLogged). The store is described twice. For
every key, the entry is the first of the newest messages of that key in the
consumed span (StoreIsLogWinner); a partition has only messages of its own keys
(LoggedInPlace), and a follower without assignment has nothing (FreshStore). What
is acknowledged is in its log (AppendsLogged), so a follower that has passed it
holds it or what beat it: AckedWriteNotLost.
StoreMatchesLog says it as the code does it: the store is the replay of that span.
With MQInv and StoreInv it is inductive, because a replay depends on its messages
alone (`AppliedAgree`: appends do not change it) and one message more is one
ApplyTo more (`AppliedSteps`). `LagInv` says that each number collected so far is
at most the log's end minus the offset the group had when the query began.

**LoadTest.** `LTInv`: the source of truth has the newest of what was recorded
(TruthIsNewest), a read's snapshot the newest of what was recorded before it
(SnapshotIsNewest); a copy that is not on its way has arrived (CopiesTaken), what
was recorded is at w nodes (RecordedIsHeld), and those of them that a read has
asked have shown its snapshot or something newer (ReadMeetsQuorum). If w + r > N
one of them is asked before the verdict (`QuorumsMeet`), so it is not "stale".
The worker-wise parts are kept by everybody else's steps as long as stores only
grow (`OthersKeep`). AccountsBalance says nothing before the merge; `AccountsInv`
says of each worker at each moment what its Stats will have to add up to: the items
taken so far, the reads among them counted in the plan itself, and one read or
write less while it is under way (Accounts). Chunks follow each other through the
plan without gap or overlap (`ChunkPlace`, `ChunksCoverPlan`), so the accounts of
the first n workers are those of the first n chunks (`MergedBalances`, by induction
on n).

**Sweep.** LostRacesTolerated needs only where a call can be (`AdminTypeOK`).
`SweepInv` is for the others: a process that may be alive is on the list that
`_stop_all` gets, except while a message-queue cluster's followers are collected
(AliveIsListed: the exception is why a failing Popen matters there), so that only
an exception out of `_stop_all` lets go of one (`WhoLeavesRunning`); followers are
spawned in order (SpawnedInOrder), none before the first spawn step and none while
the sweep reports (NothingSpawned); and a node no longer waited for has bound its
port and, where that was the question, has its partitions, unless a process left
running holds that port (WaitsFit). Which step
follows which is computed from the lists of steps (`StepOrder`). `TopicInv` adds
what reset_topic has achieved at each request (ResetAchieves), that the topic stays
as configured while there are processes and unused until the load (TopicStaysUp),
and that nodes started by hand find it absent or as configured (ByHandIsFirst).
They hold as long as no process of a message queue was left running (NoLeftovers):
nobody else is at the broker during a reset.
`DocInv` is about the document: each section is whole or absent (Sectioned), the
text before the first marker is what it was (PrefaceKept), what was written has no
markers in it, and every section written is there. A torn section breaks the first
part, and TLC shows what follows from that (below).

**Recursive functions.** Replay, Merged and Skipped are recursive functions. That
such a function exists, and so equals its definition, is `RecursionExists` of
`LWWProofs`; it and the inductions on natural numbers rest on `LeastNat`: a set of
natural numbers that is not empty has a least element. The sets are those of the
numbers for which the statement at hand holds.

Assumptions on constants are named and stand in the modules that declare them.
They say that the sets are finite where they are counted, that timestamps, offsets
and parameters are numbers, that targets are nodes, and that NoEntry and other
markers are no versions. `OrderAssumption` of `MessageQueue` says of `sorted(...)`,
defined there by a community operator, that it enumerates the partitions; TLC
evaluates it on every run.

Only model-checked:

- liveness and whatever needs ENABLED, which the prover does not treat:
  EveryRequestEnds, BackgroundDrains, EveryPutEnds, EverySendEnds,
  ConsumesForever, EveryRunEnds, EverySessionEnds. Every other property of a
  passing run is a theorem.

## Statements the code does not meet

Two have runs (and entries under "findings"): the restarted follower
(`mq_restart`) and the followers left running (`sweep_leak`; in the next
configuration they answer health checks meant for its own nodes and can make the
topic between its reset and its load). The
modules define more of them, below a heading of their own; adding the name to a
configuration of the module shows the counterexample.

| Statement | Where it is said | What the code does |
|---|---|---|
| `Leaderless!AckedWriteDurable` with Deletes = TRUE | `leaderless/node.py:54` "can only gain more holders over time, never lose one" | DELETE removes the entry at the node it reaches and keeps no tombstone |
| `LeaderFollower!ReplicasConverge` with StrictClock = FALSE | `common/models.py:51` "must land on the same winner" | two versions of one node with equal timestamps beat each other nowhere; the first to arrive stays |
| `LeaderFollower!LandsEverywhere` under DeadlineSpec | `leader.py:271` "so the write still lands everywhere eventually" | a call that fails is not retried: a follower that missed it has the write, or a newer one, only once a later write gets through (LaterWriteRepairs) |
| `LeaderFollower!FollowersAlwaysApply` | `leader.py:308` | replicate calls of concurrent PUTs overtake each other on a healthy network |
| `FailedWriteLeavesNoTrace` of `LeaderFollower` and of `LoadTest` | `_load_test_common.py:235` | a PUT answered 503 is stored at the leader and still replicating |
| `LeaderFollower!OnlyLeaderWrites` | `README.md:32` of the repository | a follower accepts client PUTs |
| `Replicator!QueuedSendsEndQuietly` | `leader.py:351` | is_closed is looked at before the wait for a slot; a call waiting when the client closes raises (the comment itself concedes part of the race) |
| `MessageQueue!LagIsACount` | `follower.py:63` | an append consumed during the query gives a negative lag |
| `MessageQueue!ZeroLagIsReal` | `follower.py:311` | a consumer without assignment is answered 200 with total lag 0 |
| `MessageQueue!ConsumesForever` with BrokerErrors = TRUE | `follower.py:213` "forever, until cancelled (app shutdown)" | an exception of the consumer, at the next message or at the commit, ends the background task; nothing restarts it, and the process goes on serving reads and lag until it is stopped |
| `LeaderFollower!NoOrphanTask` with Cancellations = TRUE | `leader.py:295` "Must keep a strong reference to background tasks" | `replicate()` hands its running tasks over after its loop and not in a `finally` block, as `node.py:402` does: a handler cancelled in `asyncio.wait` drops them |
| `Sweep!SweepContinues` | `run_comparison.py:55` "the rest of the sweep continues" | if a killed node is not reaped in time, the second `wait` raises out of the `finally` block and ends the sweep: its results are lost, and this node and those after it in `nodes` are left running |
| `Sweep!FullLifecycle` | `run_comparison.py:11` "owns the full lifecycle of every node process involved" | the same, and a second Ctrl-C in `_stop_all` or (`sweep_leak`) a failing spawn: the processes left hold their ports and answer for those of the next configuration |
| `Sweep!CleanSlate` with a session of lag demo, then nodes by hand | `topics.py:3` | after an interrupted reset, ensure_topic_exists finds a topic listed whose deletion is under way |
| `Sweep!DocHoldsLastReports` with InitialDoc <- TornDoc | `_results_doc.py:51` "leaving everything else in the file [...] untouched" | after a write cut off inside a section, the next report adds a second BEGIN marker; the one after that deletes all between the first BEGIN and the END |

## Not modelled

- Payloads, request and response schemas, logging, HTTP status texts.
- Connection pools and their limits (`common/replication_client.py`): their effect
  is a slow call.
- Crashes of leaderless nodes and of the leader: their stores are in memory and
  nothing recovers.
- Shutdown of a leaderless node. The server lets requests finish before it closes
  the client; what it cuts off are calls in `_background`, and for the peers these
  are calls that were lost, or carried out and not acked.
- The producer's restart (it keeps no state) and the replicate route a
  message-queue follower inherits (nothing calls it).
- Of the load tests: seeding, failure classification, percentiles, the summary and
  the JSONL logs.
- Of the sweep: two scripts at once (they would use the same ports, and
  replace_section reads and writes the file without a lock), I/O errors of
  `docs/results.md`, the terminal tables, and a second Ctrl-C elsewhere than in the
  waits of `_stop_all`.
- Configuration, the command line and the smoke test (see PROJECT.json).
- Garbage collection of unreferenced tasks: the models check the references.

## Plan

1. Done: LWW, Leaderless with proofs, KVStore and AtomicStore, LeaderFollower,
   Replicator, MessageQueue, LoadTest, TopicAdmin, ResultsDoc, Sweep.
2. Done: proofs for LWW, KVStore, Leaderless, LeaderFollower, Replicator,
   MessageQueue, LoadTest and Sweep. All safety properties of the passing runs are
   theorems.

--------------------------- MODULE LeaderFollower ---------------------------
(***************************************************************************)
(* The leader-follower cluster of leader_follower/leader.py and            *)
(* leader_follower/follower.py: clients PUT at the leader, which stores    *)
(* the write, replicates it to every follower concurrently and answers     *)
(* once ack_required of them have acked or the deadline has passed.        *)
(*                                                                         *)
(* One key, as in Leaderless.  An action is the code between two awaits.   *)
(* What Replicator._send does before its request is on the wire (the       *)
(* semaphore, the closed client) is modelled in Replicator.                *)
(***************************************************************************)
EXTENDS LWW, FiniteSets

CONSTANTS
    Leader,         \* rank of the leader's node_id
    Followers,      \* ranks of the followers' node_ids
    Writes,         \* client PUT requests; each writes its own payload
    AckRequired,    \* ClusterConfig.ack_required
    Timestamps,     \* bound: what time.time() may return
    StrictClock,    \* does the leader's clock never repeat a reading?
    Failures,       \* can replicate calls fail?
    Cancellations,  \* can the PUT handler be cancelled while it awaits?
    Deletes,        \* do clients send DELETE /kv/{key}?
    DirectPuts      \* do clients send PUT /kv/{key} to followers?

Nodes == {Leader} \cup Followers

ASSUME ClusterAssumption ==
    /\ Nodes \subseteq Nat
    /\ IsFiniteSet(Followers)
    /\ Leader \notin Followers
ASSUME AckAssumption == AckRequired \in 0 .. Cardinality(Followers)
ASSUME ReadingsAssumption == Timestamps \subseteq Nat
ASSUME SwitchesAssumption ==
    /\ StrictClock \in BOOLEAN /\ Failures \in BOOLEAN
    /\ Cancellations \in BOOLEAN /\ Deletes \in BOOLEAN /\ DirectPuts \in BOOLEAN
ASSUME AbsentAssumption == NoEntry \notin VersionedValue(Writes, Nodes)

VARIABLES
    store,          \* [Nodes -> entry]: each node's KVStore, at the one key
    clock,          \* the last reading of the leader's clock
    wstate,         \* [Writes -> how far the PUT has come]
    version,        \* [Writes -> the VersionedValue the leader stamped]
    acked,          \* [Writes -> followers whose ack replicate() has counted]
    pending,        \* [Writes -> followers replicate() still waits for]
    send,           \* [Writes -> [Nodes -> state of the replicate call]]
    background      \* Replicator._background: tasks <<write, follower>>

vars == <<store, clock, wstate, version, acked, pending, send, background>>

Version == VersionedValue(Writes, Nodes)
Entry   == Version \cup {NoEntry}

\* "gaveup": over for the leader, the request may still be carried out;
\* "lost": it never will be.
SendOver(s) == s \in {"ok", "gaveup", "lost", "failed"}

TypeOK ==
    /\ store \in [Nodes -> Entry]
    /\ clock \in Nat
    /\ wstate \in [Writes -> {"idle", "waiting", "ok", "unavailable", "cancelled", "local"}]
    /\ version \in [Writes -> Entry]
    /\ acked \in [Writes -> SUBSET Followers]
    /\ pending \in [Writes -> SUBSET Followers]
    /\ send \in [Writes -> [Nodes -> {"none", "sent", "applied", "ok", "gaveup", "lost", "failed"}]]
    /\ background \subseteq Writes \X Followers

Init ==
    /\ store = [n \in Nodes |-> NoEntry]
    /\ clock = 0
    /\ wstate = [w \in Writes |-> "idle"]
    /\ version = [w \in Writes |-> NoEntry]
    /\ acked = [w \in Writes |-> {}]
    /\ pending = [w \in Writes |-> {}]
    /\ send = [w \in Writes |-> [n \in Nodes |-> "none"]]
    /\ background = {}

\* "while pending and acked < self._config.ack_required"
KeepWaiting(waitingFor, counted) ==
    waitingFor # {} /\ Cardinality(counted) < AckRequired

\* Mutant of PutOutcome: the leader's own copy counts as an ack.
LeaderCountsItself(counted) ==
    IF Cardinality(counted) + 1 < AckRequired THEN "unavailable" ELSE "ok"

\* put_key_leader's step 4: 503 on an unmet quorum.
PutOutcome(counted) == IF Cardinality(counted) < AckRequired THEN "unavailable" ELSE "ok"

\* Mutant of StopWaiting: the running calls are not handed to _background.
StopAndForget(w, counted, running) ==
    /\ wstate' = [wstate EXCEPT ![w] = PutOutcome(counted)]
    /\ pending' = [pending EXCEPT ![w] = {}]
    /\ UNCHANGED background

\* After the loop: the calls still running are handed to _background, from
\* where their done callback discards them.
StopWaiting(w, counted, running) ==
    /\ wstate' = [wstate EXCEPT ![w] = PutOutcome(counted)]
    /\ pending' = [pending EXCEPT ![w] = {}]
    /\ background' = background \cup ({w} \X running)

\* Mutant of put_key_leader: the write is replicated and not stored locally.
ReplicateOnly(w, ts) ==
    /\ wstate[w] = "idle"
    /\ IF StrictClock THEN ts > clock ELSE ts >= clock
    /\ clock' = ts
    /\ version' = [version EXCEPT ![w] = [value |-> w, timestamp |-> ts, node_id |-> Leader]]
    /\ send' = [send EXCEPT ![w] = [n \in Nodes |-> IF n \in Followers THEN "sent" ELSE "none"]]
    /\ IF KeepWaiting(Followers, {})
       THEN /\ wstate' = [wstate EXCEPT ![w] = "waiting"]
            /\ pending' = [pending EXCEPT ![w] = Followers]
            /\ UNCHANGED background
       ELSE StopWaiting(w, {}, Followers)
    /\ UNCHANGED <<store, acked>>

\* put_key_leader up to its first await: stamp, store locally, start one task
\* per follower.  With ack_required = 0 replicate() never waits.
put_key_leader(w, ts) ==
    /\ wstate[w] = "idle"
    /\ IF StrictClock THEN ts > clock ELSE ts >= clock
    /\ clock' = ts
    /\ LET v == [value |-> w, timestamp |-> ts, node_id |-> Leader] IN
        /\ version' = [version EXCEPT ![w] = v]
        /\ store' = [store EXCEPT ![Leader] = Put(@, v)]
    /\ send' = [send EXCEPT ![w] = [n \in Nodes |-> IF n \in Followers THEN "sent" ELSE "none"]]
    /\ IF KeepWaiting(Followers, {})
       THEN /\ wstate' = [wstate EXCEPT ![w] = "waiting"]
            /\ pending' = [pending EXCEPT ![w] = Followers]
            /\ UNCHANGED background
       ELSE StopWaiting(w, {}, Followers)
    /\ UNCHANGED acked

\* Mutant of Deliver: the bare payload is stored, without its version.
DeliverPayload(w, f) ==
    /\ send[w][f] \in {"sent", "gaveup"}
    /\ store' = [store EXCEPT ![f] = version[w].value]
    /\ send' = [send EXCEPT ![w][f] = IF @ = "sent" THEN "applied" ELSE "failed"]
    /\ UNCHANGED <<clock, wstate, version, acked, pending, background>>

\* Mutant of Deliver: whatever arrives is stored, without comparing versions.
DeliverUnconditionally(w, f) ==
    /\ send[w][f] \in {"sent", "gaveup"}
    /\ store' = [store EXCEPT ![f] = version[w]]
    /\ send' = [send EXCEPT ![w][f] = IF @ = "sent" THEN "applied" ELSE "failed"]
    /\ UNCHANGED <<clock, wstate, version, acked, pending, background>>

\* /internal/replicate at follower f, perhaps after the leader gave up.
Deliver(w, f) ==
    /\ send[w][f] \in {"sent", "gaveup"}
    /\ store' = [store EXCEPT ![f] = Put(@, version[w])]
    /\ send' = [send EXCEPT ![w][f] = IF @ = "sent" THEN "applied" ELSE "failed"]
    /\ UNCHANGED <<clock, wstate, version, acked, pending, background>>

\* _send returns, and a task in _background is discarded.
SendReturns(w, f, s) ==
    /\ send' = [send EXCEPT ![w][f] = s]
    /\ background' = background \ {<<w, f>>}
    /\ UNCHANGED <<store, clock, wstate, version, acked, pending>>

\* TRUE for every well-formed 200, applied or not.
SendAcked(w, f) ==
    /\ send[w][f] = "applied"
    /\ SendReturns(w, f, "ok")

\* FALSE: timed out, unreachable, error status or malformed body.
SendFails(w, f) ==
    /\ Failures
    /\ \/ send[w][f] = "sent" /\ SendReturns(w, f, "gaveup")
       \/ send[w][f] = "sent" /\ SendReturns(w, f, "lost")
       \/ send[w][f] = "applied" /\ SendReturns(w, f, "failed")

DoneSends(w) == {f \in pending[w] : SendOver(send[w][f])}

\* Mutant of CollectAcks: a failed call counts as an ack.
CollectResults(w) ==
    /\ wstate[w] = "waiting"
    /\ DoneSends(w) # {}
    /\ LET counted == acked[w] \cup DoneSends(w)
           remaining == pending[w] \ DoneSends(w)
       IN /\ acked' = [acked EXCEPT ![w] = counted]
          /\ IF KeepWaiting(remaining, counted)
             THEN /\ pending' = [pending EXCEPT ![w] = remaining]
                  /\ UNCHANGED <<wstate, background>>
             ELSE StopWaiting(w, counted, remaining)
    /\ UNCHANGED <<store, clock, version, send>>

\* One turn of replicate()'s loop, and the answer if it was the last.
CollectAcks(w) ==
    /\ wstate[w] = "waiting"
    /\ DoneSends(w) # {}
    /\ LET counted == acked[w] \cup {f \in DoneSends(w) : send[w][f] = "ok"}
           remaining == pending[w] \ DoneSends(w)
       IN /\ acked' = [acked EXCEPT ![w] = counted]
          /\ IF KeepWaiting(remaining, counted)
             THEN /\ pending' = [pending EXCEPT ![w] = remaining]
                  /\ UNCHANGED <<wstate, background>>
             ELSE StopWaiting(w, counted, remaining)
    /\ UNCHANGED <<store, clock, version, send>>

\* Mutant of PutTimeout: the deadline is looked at only when a call is over.
TimeoutNeedsResult(w) ==
    /\ wstate[w] = "waiting"
    /\ DoneSends(w) # {}
    /\ StopWaiting(w, acked[w], pending[w] \ DoneSends(w))
    /\ UNCHANGED <<store, clock, version, acked, send>>

\* The deadline passes.
PutTimeout(w) ==
    /\ wstate[w] = "waiting"
    /\ StopWaiting(w, acked[w], pending[w] \ DoneSends(w))
    /\ UNCHANGED <<store, clock, version, acked, send>>

\* The handler is cancelled inside asyncio.wait: replicate() has no finally, so
\* the hand-off after its loop is skipped.
PutCancelled(w) ==
    /\ Cancellations
    /\ wstate[w] = "waiting"
    /\ wstate' = [wstate EXCEPT ![w] = "cancelled"]
    /\ pending' = [pending EXCEPT ![w] = {}]
    /\ UNCHANGED <<store, clock, version, acked, send, background>>

\* PUT /kv/{key} at a follower, whose app is common.server's unmodified: it
\* stamps by its own clock and stores, and nobody else hears of it.
put_key(w, f, ts) ==
    /\ DirectPuts
    /\ wstate[w] = "idle"
    /\ LET v == [value |-> w, timestamp |-> ts, node_id |-> f] IN
        /\ version' = [version EXCEPT ![w] = v]
        /\ store' = [store EXCEPT ![f] = Put(@, v)]
    /\ wstate' = [wstate EXCEPT ![w] = "local"]
    /\ UNCHANGED <<clock, acked, pending, send, background>>

\* DELETE /kv/{key} at any node: that node only, and no tombstone.
delete_key(n) ==
    /\ Deletes
    /\ store[n] # NoEntry
    /\ store' = [store EXCEPT ![n] = NoEntry]
    /\ UNCHANGED <<clock, wstate, version, acked, pending, send, background>>

Next ==
    \/ \E w \in Writes :
         \/ \E ts \in Timestamps : put_key_leader(w, ts)
         \/ \E f \in Followers : Deliver(w, f) \/ SendAcked(w, f) \/ SendFails(w, f)
         \/ CollectAcks(w)
         \/ PutTimeout(w)
         \/ PutCancelled(w)
         \/ \E f \in Followers, ts \in Timestamps : put_key(w, f, ts)
    \/ \E n \in Nodes : delete_key(n)

Spec == Init /\ [][Next]_vars

\* The deadline of replicate() always passes, whatever the followers do.
DeadlineSpec == Spec /\ \A w \in Writes : WF_vars(PutTimeout(w))

-----------------------------------------------------------------------------
(* Properties                                                              *)

Started(w) == wstate[w] \notin {"idle", "local"}

\* A PUT answered 200 is held, or superseded, by the leader and by ack_required
\* followers from then on; with ack_required = len(followers) that is every
\* node, README.md's "mathematical floor".
AckedWriteDurable ==
    \A w \in Writes : wstate[w] = "ok" =>
        /\ Holds(store[Leader], version[w])
        /\ Cardinality({f \in Followers : Holds(store[f], version[w])}) >= AckRequired

\* No follower ever holds something newer than the leader does: replication
\* never runs ahead of the local write it carries, however late it arrives.
FollowersNeverAhead ==
    \A f \in Followers : store[f] # NoEntry => Holds(store[Leader], store[f])

\* Once every write has reached every follower, all nodes hold the same entry,
\* whatever the order of arrival (common/models.py: "every node comparing the
\* same two versions must land on the same winner").
ReplicasConverge ==
    (\A w \in Writes : Started(w) => \A f \in Followers : send[w][f] \in {"applied", "ok"})
    => \A m, n \in Nodes : store[m] = store[n]

\* Every replicate call that is still running is referenced, by the replicate()
\* that waits for it or by _background (leader.py: "must keep a strong
\* reference to background tasks").
NoOrphanTask ==
    \A w \in Writes, f \in Followers :
        send[w][f] \in {"sent", "applied"} => f \in pending[w] \/ <<w, f>> \in background

\* A replicate call that failed is never retried, and nothing else brings its
\* write to the follower: what repairs it is any later write that does get
\* through.  So a follower is behind a write only while neither its call nor
\* the call of a newer write has been carried out there, and from then on it
\* never falls behind that write again, however late an overtaken call arrives.
LaterWriteRepairs ==
    \A w, x \in Writes, f \in Followers :
        /\ Started(w) /\ Started(x)
        /\ send[x][f] \in {"applied", "ok", "failed"}
        /\ ~is_newer_than(version[w], version[x])
        => Holds(store[f], version[w])

\* Every PUT ends, even if no replicate call ever returns.
EveryPutEnds == \A w \in Writes : wstate[w] = "waiting" ~> wstate[w] # "waiting"

\* With the leader as the only coordinator and W = ack_required + 1, this is
\* the write path of the leaderless cluster: a lost request is one the sender
\* gave up on and that never arrives.
AsLeaderless == INSTANCE Leaderless WITH
    Nodes <- Nodes, Reads <- {}, PutNodes <- {Leader}, GetNodes <- {},
    WriteParams <- {AckRequired + 1}, ReadParams <- {},
    clock <- [n \in Nodes |-> IF n = Leader THEN clock ELSE 0],
    wparam <- [w \in Writes |-> IF Started(w) THEN AckRequired + 1 ELSE 0],
    send <- [w \in Writes |-> [n \in Nodes |-> IF send[w][n] = "lost" THEN "gaveup" ELSE send[w][n]]],
    rstate <- [r \in {} |-> "idle"], rparam <- [r \in {} |-> 0], rcoord <- [r \in {} |-> Leader],
    answered <- [r \in {} |-> {}], fetch <- [r \in {} |-> <<>>], seen <- [r \in {} |-> <<>>],
    result <- [r \in {} |-> NoEntry], before <- [r \in {} |-> {}]

\* Unless a handler is cancelled, every behaviour of the leader's write path is
\* one of the leaderless write path (leaderless/node.py: "same policy as
\* leader-follower").
ImplementsLeaderless == AsLeaderless!Spec

-----------------------------------------------------------------------------
(* What comments and docs say and the code does not do: TLC refutes these. *)

\* leader.py's Replicator lets calls that are not finished in time run on "so
\* the write still lands everywhere eventually".  A call that failed is over and
\* is not retried, so this fails even if every call on the wire is delivered.
LandsEverywhere ==
    (\A w \in Writes, f \in Followers : WF_vars(Deliver(w, f))) =>
        \A w \in Writes, f \in Followers :
            wstate[w] = "ok" ~> Started(w) /\ Holds(store[f], version[w])

\* leader.py on what an ack reports: "followers should always apply it; a
\* follower reporting applied: False would [...] signal a real anomaly".
FollowersAlwaysApply ==
    [][\A w \in Writes, f \in Followers :
          send[w][f] = "sent" /\ send'[w][f] = "applied" => store'[f] = version[w]]_vars

\* _load_test_common.py on a write answered with an error: "nothing durably
\* happened to record".
FailedWriteLeavesNoTrace ==
    \A w \in Writes : wstate[w] = "unavailable" =>
        \A n \in Nodes : store[n] # version[w]

\* README.md: "One leader node accepts all writes": what any node holds was
\* stamped by the leader.
OnlyLeaderWrites ==
    \A n \in Nodes : store[n] # NoEntry => store[n].node_id = Leader
=============================================================================

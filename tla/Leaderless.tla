----------------------------- MODULE Leaderless -----------------------------
(***************************************************************************)
(* The leaderless cluster of leaderless/node.py: every node coordinates    *)
(* the PUTs and GETs its clients send it.  A PUT stores locally and floods *)
(* all peers, answering once W nodes hold it; a GET reads locally and asks *)
(* R-1 random peers.                                                       *)
(*                                                                         *)
(* One key is modelled: every operation names one key and reads or writes  *)
(* that key's entry alone.  A Python handler runs without interleaving     *)
(* between two awaits, and KVStore's lock makes each store operation one   *)
(* step (module KVStore), so an action is the code between two awaits.     *)
(*                                                                         *)
(* Each peer call is a task of its own.  The request can be slow, can be   *)
(* lost, and can reach the peer after its sender has given up on it (httpx *)
(* timeouts cancel nothing at the peer); nothing is ever sent twice.       *)
(***************************************************************************)
EXTENDS LWW, FiniteSets

CONSTANTS
    Nodes,          \* the cluster, as ranks of node_ids in string order
    Writes,         \* client PUT requests; each writes its own payload
    Reads,          \* client GET requests
    PutNodes,       \* bound: the nodes clients send PUTs to
    GetNodes,       \* bound: the nodes clients send GETs to
    Timestamps,     \* bound: what time.time() may return
    WriteParams,    \* values clients give the w query parameter
    ReadParams,     \* values clients give the r query parameter
    StrictClock,    \* does a node's clock never repeat a reading?
    Deletes         \* do clients send DELETE /kv/{key}?

N == Cardinality(Nodes)

ASSUME NodesAssumption == Nodes \subseteq Nat /\ IsFiniteSet(Nodes) /\ Nodes # {}
ASSUME TargetsAssumption == PutNodes \subseteq Nodes /\ GetNodes \subseteq Nodes
ASSUME TimestampsAssumption == Timestamps \subseteq Nat
ASSUME ParamsAssumption == WriteParams \subseteq Int /\ ReadParams \subseteq Int
ASSUME OperationsAssumption == Writes \cap Reads = {}
ASSUME FlagsAssumption == StrictClock \in BOOLEAN /\ Deletes \in BOOLEAN
ASSUME NoEntryAssumption == NoEntry \notin VersionedValue(Writes, Nodes)

VARIABLES
    store,          \* [Nodes -> entry]: each node's KVStore, at the one key
    clock,          \* [Nodes -> Nat]: the last reading of the node's clock
    wstate,         \* [Writes -> how far the PUT has come]
    wparam,         \* [Writes -> W]
    version,        \* [Writes -> the VersionedValue the PUT stamped]
    acked,          \* [Writes -> peers whose ack _gather has collected]
    send,           \* [Writes -> [Nodes -> state of the replicate call]]
    rstate,         \* [Reads -> how far the GET has come]
    rparam,         \* [Reads -> R]
    rcoord,         \* [Reads -> the coordinating node]
    answered,       \* [Reads -> peers whose response _gather has collected]
    fetch,          \* [Reads -> [Nodes -> state of the internal read]]
    seen,           \* [Reads -> [Nodes -> the entry that node answered with]]
    result,         \* [Reads -> the winning entry]
    before,         \* [Reads -> history: PUTs answered 200 before the GET began]
    pending,        \* [Writes \cup Reads -> peers _gather still waits for]
    background      \* QuorumCoordinator._background: tasks <<op, peer>>

writeVars == <<wstate, wparam, version, acked, send>>
readVars  == <<rstate, rparam, rcoord, answered, fetch, seen, result, before>>
vars == <<store, clock, writeVars, readVars, pending, background>>

Version == VersionedValue(Writes, Nodes)
Entry   == Version \cup {NoEntry}

\* ClusterConfig.peers_excluding: everyone but the coordinator.
Peers(n) == Nodes \ {n}

\* _validate_quorum_param: anything else is answered 422.
ValidParam(q) == q >= 1 /\ q <= N

Coordinator(w) == version[w].node_id

\* A replicate call is over once its coroutine has returned (TRUE or FALSE);
\* "gaveup" is over for the sender while the request may still be on its way.
SendOver(s)  == s \in {"ok", "gaveup", "failed"}
FetchOver(s) == s \in {"ok", "failed"}

TypeOK ==
    /\ store \in [Nodes -> Entry]
    /\ clock \in [Nodes -> Nat]
    /\ wstate \in [Writes -> {"idle", "waiting", "ok", "unavailable", "cancelled", "invalid"}]
    /\ wparam \in [Writes -> Int]
    /\ version \in [Writes -> Entry]
    /\ acked \in [Writes -> SUBSET Nodes]
    /\ send \in [Writes -> [Nodes -> {"none", "sent", "applied", "ok", "gaveup", "failed"}]]
    /\ rstate \in [Reads -> {"idle", "waiting", "found", "missing", "unavailable", "cancelled", "invalid"}]
    /\ rparam \in [Reads -> Int]
    /\ rcoord \in [Reads -> Nodes]
    /\ answered \in [Reads -> SUBSET Nodes]
    /\ fetch \in [Reads -> [Nodes -> {"none", "sent", "served", "ok", "failed"}]]
    /\ seen \in [Reads -> [Nodes -> Entry]]
    /\ result \in [Reads -> Entry]
    /\ before \in [Reads -> SUBSET Writes]
    /\ pending \in [Writes \cup Reads -> SUBSET Nodes]
    /\ background \subseteq (Writes \cup Reads) \X Nodes

Init ==
    /\ store = [n \in Nodes |-> NoEntry]
    /\ clock = [n \in Nodes |-> 0]
    /\ wstate = [w \in Writes |-> "idle"]
    /\ wparam = [w \in Writes |-> 0]
    /\ version = [w \in Writes |-> NoEntry]
    /\ acked = [w \in Writes |-> {}]
    /\ send = [w \in Writes |-> [n \in Nodes |-> "none"]]
    /\ rstate = [r \in Reads |-> "idle"]
    /\ rparam = [r \in Reads |-> 0]
    /\ rcoord = [r \in Reads |-> CHOOSE n \in Nodes : TRUE]
    /\ answered = [r \in Reads |-> {}]
    /\ fetch = [r \in Reads |-> [n \in Nodes |-> "none"]]
    /\ seen = [r \in Reads |-> [n \in Nodes |-> NoEntry]]
    /\ result = [r \in Reads |-> NoEntry]
    /\ before = [r \in Reads |-> {}]
    /\ pending = [o \in Writes \cup Reads |-> {}]
    /\ background = {}

-----------------------------------------------------------------------------
(* _gather                                                                 *)

\* Tasks that asyncio.wait reports as done: all that are over when it wakes.
DoneSends(w)   == {p \in pending[w] : SendOver(send[w][p])}
DoneFetches(r) == {p \in pending[r] : FetchOver(fetch[r][p])}

\* The loop condition "while pending and len(collected) < needed".
KeepWaiting(waitingFor, collected, needed) ==
    waitingFor # {} /\ Cardinality(collected) < needed

\* Mutant of HandOff: the running calls are dropped, not handed over.
ForgetRunning(o, running) ==
    /\ pending' = [pending EXCEPT ![o] = {}]
    /\ UNCHANGED background

\* The finally block: the calls still running go on, referenced, until their
\* done callback discards them.  (One that is over already is discarded at once.)
HandOff(o, running) ==
    /\ pending' = [pending EXCEPT ![o] = {}]
    /\ background' = background \cup ({o} \X running)

\* Mutant of Discard: no done callback.
NeverDiscard(o, p) == UNCHANGED background

\* add_done_callback(self._background.discard)
Discard(o, p) == background' = background \ {<<o, p>>}

-----------------------------------------------------------------------------
(* PUT /kv/{key}                                                           *)

\* _validate_quorum_param refuses the request before anything is stored.
RejectPut(w, q) ==
    /\ wstate[w] = "idle"
    /\ ~ValidParam(q)
    /\ wstate' = [wstate EXCEPT ![w] = "invalid"]
    /\ UNCHANGED <<store, clock, wparam, version, acked, send, readVars, pending, background>>

\* Mutant of PutOutcome: the coordinator counts itself twice.
CountsItselfTwice(q, collected) ==
    IF 2 + Cardinality(collected) >= q THEN "ok" ELSE "unavailable"

PutOutcome(q, collected) ==
    IF 1 + Cardinality(collected) >= q THEN "ok" ELSE "unavailable"

\* put_key_coordinator up to its first await: stamp, store locally, start one
\* task per peer.  With needed <= 0 (or no peer) _gather never waits.
put_key_coordinator(w, n, q, ts) ==
    /\ wstate[w] = "idle"
    /\ ValidParam(q)
    /\ IF StrictClock THEN ts > clock[n] ELSE ts >= clock[n]
    /\ clock' = [clock EXCEPT ![n] = ts]
    /\ LET v == [value |-> w, timestamp |-> ts, node_id |-> n] IN
        /\ version' = [version EXCEPT ![w] = v]
        /\ store' = [store EXCEPT ![n] = Put(@, v)]
    /\ wparam' = [wparam EXCEPT ![w] = q]
    /\ send' = [send EXCEPT ![w] = [p \in Nodes |-> IF p \in Peers(n) THEN "sent" ELSE "none"]]
    /\ IF KeepWaiting(Peers(n), {}, q - 1)
       THEN /\ wstate' = [wstate EXCEPT ![w] = "waiting"]
            /\ pending' = [pending EXCEPT ![w] = Peers(n)]
            /\ UNCHANGED background
       ELSE /\ wstate' = [wstate EXCEPT ![w] = PutOutcome(q, {})]
            /\ HandOff(w, Peers(n))
    /\ UNCHANGED <<acked, readVars>>

\* Mutant of Deliver: the bare payload is stored, without its version.
DeliverPayload(w, p) ==
    /\ send[w][p] \in {"sent", "gaveup"}
    /\ store' = [store EXCEPT ![p] = version[w].value]
    /\ send' = [send EXCEPT ![w][p] = IF @ = "sent" THEN "applied" ELSE "failed"]
    /\ UNCHANGED <<clock, wstate, wparam, version, acked, readVars, pending, background>>

\* /internal/replicate at peer p, with or without an injected delay: the
\* caller may have given up by the time the request is carried out.
Deliver(w, p) ==
    /\ send[w][p] \in {"sent", "gaveup"}
    /\ store' = [store EXCEPT ![p] = Put(@, version[w])]
    /\ send' = [send EXCEPT ![w][p] = IF @ = "sent" THEN "applied" ELSE "failed"]
    /\ UNCHANGED <<clock, wstate, wparam, version, acked, readVars, pending, background>>

\* _replicate_outcome returns TRUE: any well-formed 200, applied or not.
SendAcked(w, p) ==
    /\ send[w][p] = "applied"
    /\ send' = [send EXCEPT ![w][p] = "ok"]
    /\ Discard(w, p)
    /\ UNCHANGED <<store, clock, wstate, wparam, version, acked, readVars, pending>>

\* _replicate_outcome returns FALSE: unreachable, timed out, error status,
\* or a malformed body.
SendFails(w, p) ==
    /\ send[w][p] \in {"sent", "applied"}
    /\ send' = [send EXCEPT ![w][p] = IF @ = "sent" THEN "gaveup" ELSE "failed"]
    /\ Discard(w, p)
    /\ UNCHANGED <<store, clock, wstate, wparam, version, acked, readVars, pending>>

\* One turn of _gather's loop for a PUT, and the answer if it was the last.
CollectAcks(w) ==
    /\ wstate[w] = "waiting"
    /\ DoneSends(w) # {}
    /\ LET collected == acked[w] \cup {p \in DoneSends(w) : send[w][p] = "ok"}
           remaining == pending[w] \ DoneSends(w)
       IN /\ acked' = [acked EXCEPT ![w] = collected]
          /\ IF KeepWaiting(remaining, collected, wparam[w] - 1)
             THEN /\ pending' = [pending EXCEPT ![w] = remaining]
                  /\ UNCHANGED <<wstate, background>>
             ELSE /\ wstate' = [wstate EXCEPT ![w] = PutOutcome(wparam[w], collected)]
                  /\ HandOff(w, remaining)
    /\ UNCHANGED <<store, clock, wparam, version, send, readVars>>

\* Mutant of PutTimeout: the deadline is looked at only when a call is over.
TimeoutNeedsResult(w) ==
    /\ wstate[w] = "waiting"
    /\ DoneSends(w) # {}
    /\ wstate' = [wstate EXCEPT ![w] = PutOutcome(wparam[w], acked[w])]
    /\ HandOff(w, pending[w] \ DoneSends(w))
    /\ UNCHANGED <<store, clock, wparam, version, acked, send, readVars>>

\* The deadline passes; acks that arrived but were not collected are not counted.
PutTimeout(w) ==
    /\ wstate[w] = "waiting"
    /\ wstate' = [wstate EXCEPT ![w] = PutOutcome(wparam[w], acked[w])]
    /\ HandOff(w, pending[w] \ DoneSends(w))
    /\ UNCHANGED <<store, clock, wparam, version, acked, send, readVars>>

\* The handler is cancelled while it awaits: no answer, but finally runs.
PutCancelled(w) ==
    /\ wstate[w] = "waiting"
    /\ wstate' = [wstate EXCEPT ![w] = "cancelled"]
    /\ HandOff(w, pending[w] \ DoneSends(w))
    /\ UNCHANGED <<store, clock, wparam, version, acked, send, readVars>>

-----------------------------------------------------------------------------
(* GET /kv/{key}                                                           *)

RejectGet(r, q) ==
    /\ rstate[r] = "idle"
    /\ ~ValidParam(q)
    /\ rstate' = [rstate EXCEPT ![r] = "invalid"]
    /\ UNCHANGED <<store, clock, writeVars, rparam, rcoord, answered, fetch, seen, result, before,
                   pending, background>>

\* _select_read_peers: exactly needed peers, any of them.
ReadPeers(n, needed) ==
    IF needed >= Cardinality(Peers(n)) THEN {Peers(n)}
    ELSE {S \in SUBSET Peers(n) : Cardinality(S) = needed}

\* Responses that had an entry: "a response with no entry doesn't compete".
Candidates(local, fromPeers) == ({local} \cup fromPeers) \ {NoEntry}

\* Mutant of Winners: the coordinator prefers its own entry.
PreferLocal(local, fromPeers) ==
    IF local # NoEntry THEN {local} ELSE Candidates(local, fromPeers)

\* The loop over candidates: an entry no candidate beats; the coordinator's
\* own entry comes first, so it is kept when it ties.
Winners(local, fromPeers) ==
    LET candidates == Candidates(local, fromPeers)
        unbeaten == {e \in candidates : \A c \in candidates : ~is_newer_than(c, e)}
    IN IF local \in unbeaten THEN {local} ELSE unbeaten

\* The answer: 503 short of R responses, 404 with no candidate, else the winner.
AnswerGet(r, q, local, collected) ==
    LET fromPeers == {seen[r][p] : p \in collected} IN
    \/ /\ 1 + Cardinality(collected) < q
       /\ rstate' = [rstate EXCEPT ![r] = "unavailable"]
       /\ UNCHANGED result
    \/ /\ 1 + Cardinality(collected) >= q
       /\ Candidates(local, fromPeers) = {}
       /\ rstate' = [rstate EXCEPT ![r] = "missing"]
       /\ UNCHANGED result
    \/ /\ 1 + Cardinality(collected) >= q
       /\ rstate' = [rstate EXCEPT ![r] = "found"]
       /\ \E e \in Winners(local, fromPeers) : result' = [result EXCEPT ![r] = e]

\* get_key_coordinator up to its first await: read locally, start R-1 tasks.
get_key_coordinator(r, n, q, S) ==
    /\ rstate[r] = "idle"
    /\ ValidParam(q)
    /\ S \in ReadPeers(n, q - 1)
    /\ rparam' = [rparam EXCEPT ![r] = q]
    /\ rcoord' = [rcoord EXCEPT ![r] = n]
    /\ seen' = [seen EXCEPT ![r][n] = store[n]]
    /\ before' = [before EXCEPT ![r] = {w \in Writes : wstate[w] = "ok"}]
    /\ fetch' = [fetch EXCEPT ![r] = [p \in Nodes |-> IF p \in S THEN "sent" ELSE "none"]]
    /\ IF KeepWaiting(S, {}, q - 1)
       THEN /\ rstate' = [rstate EXCEPT ![r] = "waiting"]
            /\ pending' = [pending EXCEPT ![r] = S]
            /\ UNCHANGED <<result, background>>
       ELSE /\ AnswerGet(r, q, store[n], {})
            /\ HandOff(r, S)
    /\ UNCHANGED <<store, clock, writeVars, answered>>

\* internal_get_key at peer p: its entry at this moment, or 404.
ServeRead(r, p) ==
    /\ fetch[r][p] = "sent"
    /\ fetch' = [fetch EXCEPT ![r][p] = "served"]
    /\ seen' = [seen EXCEPT ![r][p] = store[p]]
    /\ UNCHANGED <<store, clock, writeVars, rstate, rparam, rcoord, answered, result, before,
                   pending, background>>

\* _read_outcome counts a 200 and a 404 alike.
FetchAnswered(r, p) ==
    /\ fetch[r][p] = "served"
    /\ fetch' = [fetch EXCEPT ![r][p] = "ok"]
    /\ Discard(r, p)
    /\ UNCHANGED <<store, clock, writeVars, rstate, rparam, rcoord, answered, seen, result, before,
                   pending>>

\* _read_outcome: unreachable, timed out, other status, malformed body.
FetchFails(r, p) ==
    /\ fetch[r][p] \in {"sent", "served"}
    /\ fetch' = [fetch EXCEPT ![r][p] = "failed"]
    /\ Discard(r, p)
    /\ UNCHANGED <<store, clock, writeVars, rstate, rparam, rcoord, answered, seen, result, before,
                   pending>>

CollectReplies(r) ==
    /\ rstate[r] = "waiting"
    /\ DoneFetches(r) # {}
    /\ LET collected == answered[r] \cup {p \in DoneFetches(r) : fetch[r][p] = "ok"}
           remaining == pending[r] \ DoneFetches(r)
       IN /\ answered' = [answered EXCEPT ![r] = collected]
          /\ IF KeepWaiting(remaining, collected, rparam[r] - 1)
             THEN /\ pending' = [pending EXCEPT ![r] = remaining]
                  /\ UNCHANGED <<rstate, result, background>>
             ELSE /\ AnswerGet(r, rparam[r], seen[r][rcoord[r]], collected)
                  /\ HandOff(r, remaining)
    /\ UNCHANGED <<store, clock, writeVars, rparam, rcoord, fetch, seen, before>>

GetTimeout(r) ==
    /\ rstate[r] = "waiting"
    /\ AnswerGet(r, rparam[r], seen[r][rcoord[r]], answered[r])
    /\ HandOff(r, pending[r] \ DoneFetches(r))
    /\ UNCHANGED <<store, clock, writeVars, rparam, rcoord, answered, fetch, seen, before>>

GetCancelled(r) ==
    /\ rstate[r] = "waiting"
    /\ rstate' = [rstate EXCEPT ![r] = "cancelled"]
    /\ HandOff(r, pending[r] \ DoneFetches(r))
    /\ UNCHANGED <<store, clock, writeVars, rparam, rcoord, answered, fetch, seen, result, before>>

-----------------------------------------------------------------------------
(* DELETE /kv/{key}, inherited from common/server.py: this node only.      *)
delete_key(n) ==
    /\ Deletes
    /\ store[n] # NoEntry
    /\ store' = [store EXCEPT ![n] = NoEntry]
    /\ UNCHANGED <<clock, writeVars, readVars, pending, background>>

WriteStep(w) ==
    \/ \E q \in WriteParams : RejectPut(w, q)
    \/ \E n \in PutNodes, q \in WriteParams, ts \in Timestamps : put_key_coordinator(w, n, q, ts)
    \/ \E p \in Nodes : Deliver(w, p) \/ SendAcked(w, p) \/ SendFails(w, p)
    \/ CollectAcks(w)
    \/ PutTimeout(w)
    \/ PutCancelled(w)

ReadStep(r) ==
    \/ \E q \in ReadParams : RejectGet(r, q)
    \/ \E n \in GetNodes, q \in ReadParams, S \in SUBSET Nodes : get_key_coordinator(r, n, q, S)
    \/ \E p \in Nodes : ServeRead(r, p) \/ FetchAnswered(r, p) \/ FetchFails(r, p)
    \/ CollectReplies(r)
    \/ GetTimeout(r)
    \/ GetCancelled(r)

Next ==
    \/ \E w \in Writes : WriteStep(w)
    \/ \E r \in Reads : ReadStep(r)
    \/ \E n \in Nodes : delete_key(n)

Spec == Init /\ [][Next]_vars

\* The deadline of _gather always passes, whatever the peers do.
DeadlineSpec ==
    /\ Spec
    /\ \A w \in Writes : WF_vars(PutTimeout(w))
    /\ \A r \in Reads : WF_vars(GetTimeout(r))

-----------------------------------------------------------------------------
(* Properties                                                              *)

Started(w) == wstate[w] \notin {"idle", "invalid"}

Holders(w) == {n \in Nodes : Holds(store[n], version[w])}

\* A PUT answered 200 is held, or superseded by something LWW-newer, at W nodes
\* or more from then on, whatever was slow, lost or late (leaderless/node.py's
\* "at least W nodes already hold it and can only gain more holders").
AckedWriteDurable ==
    \A w \in Writes : wstate[w] = "ok" => Cardinality(Holders(w)) >= wparam[w]

\* The W+R>N guarantee: a GET answered from R nodes returns a version at least
\* as new as every PUT that had been answered 200 before the GET began, provided
\* that PUT's W and this GET's R add up to more than N.
ReadSeesAckedWrites ==
    \A r \in Reads : rstate[r] \in {"found", "missing"} =>
        \A w \in before[r] : wparam[w] + rparam[r] > N => Holds(result[r], version[w])

\* LWW never regresses: no step of any handler replaces a node's entry by one
\* that does not beat it, and none removes it.
NodeNeverRegresses ==
    [][\A n \in Nodes : \/ store'[n] = store[n]
                        \/ store[n] = NoEntry
                        \/ is_newer_than(store'[n], store[n])]_vars

\* Every peer call that is still running is referenced, by the _gather that
\* waits for it or by _background, so asyncio cannot collect it mid-flight --
\* also after a timeout, an early quorum or a cancelled handler.
NoOrphanTask ==
    /\ \A w \in Writes, p \in Nodes :
         send[w][p] \in {"sent", "applied"} => p \in pending[w] \/ <<w, p>> \in background
    /\ \A r \in Reads, p \in Nodes :
         fetch[r][p] \in {"sent", "served"} => p \in pending[r] \/ <<r, p>> \in background

\* Once every write has reached every peer, all nodes hold the same entry,
\* whatever the order of arrival (common/models.py: "every node comparing the
\* same two versions must land on the same winner").
ReplicasConverge ==
    (\A w \in Writes : Started(w) =>
        \A p \in Peers(Coordinator(w)) : send[w][p] \in {"applied", "ok"})
    => \A m, n \in Nodes : store[m] = store[n]

\* The deadline answers every PUT and GET even if no peer call ever returns.
EveryRequestEnds ==
    /\ \A w \in Writes : wstate[w] = "waiting" ~> wstate[w] # "waiting"
    /\ \A r \in Reads : rstate[r] = "waiting" ~> rstate[r] # "waiting"

\* No call that ends (httpx's timeouts end them all) stays in _background for
\* ever, however the request that started it ended: the set does not leak.
BackgroundDrains ==
    /\ \A w \in Writes, p \in Nodes :
         WF_vars(SendAcked(w, p) \/ SendFails(w, p)) =>
             (<<w, p>> \in background ~> <<w, p>> \notin background)
    /\ \A r \in Reads, p \in Nodes :
         WF_vars(FetchAnswered(r, p) \/ FetchFails(r, p)) =>
             (<<r, p>> \in background ~> <<r, p>> \notin background)
=============================================================================

----------------------------- MODULE Replicator -----------------------------
(***************************************************************************)
(* Replicator._send of leader_follower/leader.py, one task per replicate   *)
(* call of any write: the closed-client check, the semaphore shared by all *)
(* calls, the POST, and the leader's shutdown closing the client under     *)
(* them.                                                                   *)
(*                                                                         *)
(* asyncio.Semaphore is modelled from how CPython implements it: waiters    *)
(* are served in FIFO order; a released slot is handed to the first waiter, *)
(* which resumes on a later turn of the event loop and then wakes further   *)
(* waiters for slots freed meanwhile; while one is due to resume, newcomers *)
(* queue.                                                                   *)
(***************************************************************************)
EXTENDS Integers, FiniteSets, Sequences, SequencesExt

CONSTANTS
    Sends,          \* replicate calls
    MaxConcurrent   \* _MAX_CONCURRENT_REPLICATE_CALLS

ASSUME SlotsAssumption == MaxConcurrent \in Nat \ {0}

VARIABLES
    task,           \* [Sends -> where in _send the task is]
    slots,          \* free slots of the semaphore
    waiters,        \* tasks queued behind it, in order
    closed,         \* self._client.is_closed
    waitedAtClose   \* history: the tasks waiting for a slot when the client was closed

vars == <<task, slots, waiters, closed, waitedAtClose>>

In(s) == {t \in Sends : task[t] = s}

TypeOK ==
    /\ task \in [Sends -> {"absent", "created", "queued", "granted", "posting", "true", "false", "raised"}]
    /\ slots \in 0 .. MaxConcurrent
    /\ waiters \in Seq(Sends)
    /\ closed \in BOOLEAN
    /\ waitedAtClose \subseteq Sends

Init ==
    /\ task = [t \in Sends |-> "absent"]
    /\ slots = MaxConcurrent
    /\ waiters = <<>>
    /\ closed = FALSE
    /\ waitedAtClose = {}

\* replicate(): asyncio.ensure_future(self._send(...)) schedules the task.
Create(t) ==
    /\ task[t] = "absent"
    /\ task' = [task EXCEPT ![t] = "created"]
    /\ UNCHANGED <<slots, waiters, closed, waitedAtClose>>

\* Task t goes to state s with `free` slots free, and the first k waiters are
\* given one each.
HandOut(t, s, free, k) ==
    /\ task' = [u \in Sends |-> IF u = t THEN s
                                ELSE IF u \in ToSet(SubSeq(waiters, 1, k)) THEN "granted"
                                ELSE task[u]]
    /\ waiters' = SubSeq(waiters, k + 1, Len(waiters))
    /\ slots' = free - k

Least(a, b) == IF a < b THEN a ELSE b

\* Semaphore.locked()
Locked == slots = 0 \/ waiters # <<>> \/ In("granted") # {}

\* Mutant of Start: no look at is_closed.
StartUnguarded(t) ==
    /\ task[t] = "created"
    /\ ~Locked
    /\ task' = [task EXCEPT ![t] = IF closed THEN "raised" ELSE "posting"]
    /\ slots' = IF closed THEN slots ELSE slots - 1
    /\ UNCHANGED <<waiters, closed, waitedAtClose>>

\* The task's first turn: is_closed is looked at here, and only here.  A free
\* slot is taken without suspending, so the POST goes out in the same turn.
Start(t) ==
    /\ task[t] = "created"
    /\ \/ /\ closed
          /\ task' = [task EXCEPT ![t] = "false"]
          /\ UNCHANGED <<slots, waiters>>
       \/ /\ ~closed
          /\ ~Locked
          /\ task' = [task EXCEPT ![t] = "posting"]
          /\ slots' = slots - 1
          /\ UNCHANGED waiters
       \/ /\ ~closed
          /\ Locked
          /\ task' = [task EXCEPT ![t] = "queued"]
          /\ waiters' = Append(waiters, t)
          /\ UNCHANGED slots
    /\ UNCHANGED <<closed, waitedAtClose>>

\* Mutant of Resume: a call that raises keeps its slot.
ResumeKeepsSlot(t) ==
    /\ task[t] = "granted"
    /\ \/ closed /\ HandOut(t, "raised", slots, Least(slots, Len(waiters)))
       \/ ~closed /\ HandOut(t, "posting", slots, Least(slots, Len(waiters)))
    /\ UNCHANGED <<closed, waitedAtClose>>

\* Mutant of Resume: a resuming call wakes nobody.
ResumeAlone(t) ==
    /\ task[t] = "granted"
    /\ \/ closed /\ HandOut(t, "raised", slots + 1, Least(1, Len(waiters)))
       \/ ~closed /\ HandOut(t, "posting", slots, 0)
    /\ UNCHANGED <<closed, waitedAtClose>>

\* A waiter that was given a slot resumes, wakes others while slots are free,
\* and calls client.post, which raises RuntimeError on a closed client: not an
\* httpx.HTTPError, so not caught, and the slot is released on the way out.
Resume(t) ==
    /\ task[t] = "granted"
    /\ \/ closed /\ HandOut(t, "raised", slots + 1, Least(slots + 1, Len(waiters)))
       \/ ~closed /\ HandOut(t, "posting", slots, Least(slots, Len(waiters)))
    /\ UNCHANGED <<closed, waitedAtClose>>

\* Mutant of PostEnds: leaving the semaphore wakes nobody.
ReleaseAlone(t) ==
    /\ task[t] = "posting"
    /\ \E s \in {"true", "false"} : HandOut(t, s, slots + 1, 0)
    /\ UNCHANGED <<closed, waitedAtClose>>

\* The POST ends, in a response or an httpx.HTTPError; leaving the semaphore
\* wakes one waiter, and _send returns.
PostEnds(t) ==
    /\ task[t] = "posting"
    /\ \E s \in {"true", "false"} : HandOut(t, s, slots + 1, Least(1, Len(waiters)))
    /\ UNCHANGED <<closed, waitedAtClose>>

\* The app's shutdown handler: client.aclose().
Shutdown ==
    /\ ~closed
    /\ closed' = TRUE
    /\ waitedAtClose' = In("queued") \cup In("granted")
    /\ UNCHANGED <<task, slots, waiters>>

Next ==
    \/ \E t \in Sends : Create(t) \/ Start(t) \/ Resume(t) \/ PostEnds(t)
    \/ Shutdown

Spec == Init /\ [][Next]_vars

\* The event loop runs every ready task, and httpx's timeouts end every POST.
FairSpec ==
    Spec /\ \A t \in Sends : WF_vars(Start(t)) /\ WF_vars(Resume(t)) /\ WF_vars(PostEnds(t))

-----------------------------------------------------------------------------
(* Properties                                                              *)

\* Every slot is free or owned by exactly one call, also after a call raised or
\* the client was closed; so at most MaxConcurrent POSTs are in flight, and no
\* slot is ever leaked.
SlotsConserved ==
    slots + Cardinality(In("posting")) + Cardinality(In("granted")) = MaxConcurrent

\* A slot never idles while a call waits for one, unless a resuming call is
\* about to hand it out, and the queue holds each waiting call exactly once.
NoIdleSlot ==
    /\ waiters # <<>> => slots = 0 \/ In("granted") # {}
    /\ ToSet(waiters) = In("queued")
    /\ Len(waiters) = Cardinality(In("queued"))

\* Every call that was started ends: backpressure delays, it never strands.
EverySendEnds ==
    \A t \in Sends : task[t] = "created" ~> task[t] \in {"true", "false", "raised"}

\* The is_closed guard catches every call that had not run before the client was
\* closed: only a call that was waiting for a slot by then can raise.
OnlyWaitersRaise == In("raised") \subseteq waitedAtClose

-----------------------------------------------------------------------------
(* What comments and docs say and the code does not do: TLC refutes these. *)

\* leader.py's comment on the is_closed guard: a call that "was still queued
\* behind _semaphore" when the client closed is treated "the same as any other
\* failed send rather than letting httpx's [...] RuntimeError surface".
QueuedSendsEndQuietly == waitedAtClose \cap In("raised") = {}
=============================================================================

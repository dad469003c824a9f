----------------------------- MODULE TopicAdmin -----------------------------
(* message_queue/topics.py: ensure_topic_exists and reset_topic, as steps    *)
(* of several processes against one Kafka broker.  A step is an await on an  *)
(* admin request.  The broker is external: it acknowledges a delete at once  *)
(* and lists the topic until the deletion is done.                           *)
EXTENDS Naturals

CONSTANTS
    Clients,        \* processes that call the two functions
    NumPartitions,  \* MQConfig.num_partitions
    BrokerDefault   \* partitions of a topic the broker creates on its own

ASSUME PartitionsAssumption == NumPartitions \in Nat \ {0} /\ BrokerDefault \in Nat \ {0}

VARIABLES
    topic,  \* the broker's topic; used: messages have been appended to it
    call    \* call[c]: where c's call is, what it raised, or "returned"

adminVars == <<topic, call>>

Raised == {"exists", "unknown", "other", "timeout", "unreachable"}

NoTopic == [state |-> "absent", partitions |-> 0, used |-> FALSE]
NewTopic(partitions) == [state |-> "live", partitions |-> partitions, used |-> FALSE]

\* "config.topic in await admin.list_topics()"
Listed == topic.state # "absent"

Goto(c, where) == call' = [call EXCEPT ![c] = where]

\* Mutant of _raise_on_topic_errors: every error code raises.
RaiseOnAnyError(c, code, tolerate, next) == Goto(c, IF code = "ok" THEN next ELSE code)

\* _raise_on_topic_errors, and where the call goes on if it does not raise.
_raise_on_topic_errors(c, code, tolerate, next) ==
    Goto(c, IF code \in {"ok", tolerate} THEN next ELSE code)

\* ensure_topic_exists: a topic that is listed is left alone.
EnsureLists(c) ==
    /\ call[c] = "ensure_list"
    /\ Goto(c, IF Listed THEN "returned" ELSE "ensure_create")
    /\ UNCHANGED topic

\* ensure_topic_exists: create it, unless another process has by now.
EnsureCreates(c) ==
    /\ call[c] = "ensure_create"
    /\ \E code \in {IF Listed THEN "exists" ELSE "ok", "other"} :
        /\ topic' = IF code = "ok" THEN NewTopic(NumPartitions) ELSE topic
        /\ _raise_on_topic_errors(c, code, "exists", "returned")

\* reset_topic: nothing to delete if the topic is not listed.
ResetLists(c) ==
    /\ call[c] = "reset_list"
    /\ Goto(c, IF Listed THEN "reset_delete" ELSE "ensure_list")
    /\ UNCHANGED topic

\* reset_topic: the delete request; the topic may be gone, or going, already.
ResetDeletes(c) ==
    /\ call[c] = "reset_delete"
    /\ \E code \in {IF topic.state = "live" THEN "ok" ELSE "unknown", "other"} :
        /\ topic' = IF code = "ok" THEN [topic EXCEPT !.state = "deleting"] ELSE topic
        /\ _raise_on_topic_errors(c, code, "unknown", "reset_poll")

\* Mutant of ResetPolls: the acknowledged delete is taken for a finished one.
ResetDoesNotPoll(c) ==
    /\ call[c] = "reset_poll"
    /\ Goto(c, "ensure_list")
    /\ UNCHANGED topic

\* reset_topic: poll until the topic is gone, then ensure_topic_exists; or the
\* deadline passes first.
ResetPolls(c) ==
    /\ call[c] = "reset_poll"
    /\ Goto(c, IF Listed THEN "timeout" ELSE "ensure_list")
    /\ UNCHANGED topic

\* An admin request that gets no answer raises out of either function.
BrokerUnreachable(c) ==
    /\ call[c] \notin Raised \cup {"idle", "returned"}
    /\ Goto(c, "unreachable")
    /\ UNCHANGED topic

AdminStep(c) ==
    \/ EnsureLists(c) \/ EnsureCreates(c)
    \/ ResetLists(c) \/ ResetDeletes(c) \/ ResetPolls(c)
    \/ BrokerUnreachable(c)
=============================================================================

------------------------------- MODULE Sweep --------------------------------
(* experiments/run_comparison.py and the two demos: scripts that spawn a     *)
(* cluster of node processes, wait until it is ready, load it, stop it, and  *)
(* write a report.  Scripts run one after another on one machine, as people  *)
(* run them; the nodes of a message-queue cluster can also be started by     *)
(* hand.  Node processes, ports and the broker are external.                 *)
EXTENDS TopicAdmin, ResultsDoc

CONSTANTS
    Followers,        \* followers per cluster, or leaderless nodes
    AckRequiredSweep, LeaderlessSweep, MQSweep,  \* configurations per strategy
    Sessions,         \* sequences of scripts somebody runs
    SpawnFailures,    \* strategies in which subprocess.Popen may raise
    InitialDoc        \* docs/results.md as the session finds it

Driver == 0                  \* the script, as a client of the broker
Last == Followers + 1        \* slot of the leader or producer
Slots == 1 .. Last
Strategies == {"leader_follower", "leaderless", "message_queue"}
Scripts == {"run_comparison", "boundary_demo", "lag_demo", "by_hand"}
Markers == {"header", "main-sweep", "mq-sweep", "boundary-case-demo", "mq-lag-demo"}

ASSUME ClientsAssumption == Followers \in Nat \ {0} /\ Clients = {Driver} \cup Slots
ASSUME SweepAssumption ==
    /\ AckRequiredSweep \in Nat /\ LeaderlessSweep \in Nat /\ MQSweep \in Nat
    /\ AckRequiredSweep + LeaderlessSweep + MQSweep > 0
ASSUME SessionAssumption ==
    /\ SpawnFailures \subseteq Strategies
    /\ \A s \in Sessions : s \in Seq(Scripts) /\ s # <<>>

VARIABLES
    session, run,  \* the scripts, and the one that is running
    job,           \* its configuration: an index into Jobs
    phase,         \* the step of that configuration's try block, or of its finally
    proc,          \* proc[s]: the process of slot s; a slot is a port of the strategy
    nodes,         \* the list "nodes": the slots that _stop_all will stop
    pending,       \* the slots a wait has not seen ready yet
    unwinding,     \* an exception is propagating that is no Exception
    outcomes,      \* the script's ConfigResults and ConfigErrors
    written, doc,  \* sections of the report written so far, and docs/results.md
    bound, joined, \* history: slots whose process served, resp. was assigned partitions
    old,           \* <<strategy, slot>> of processes left running by earlier configurations
    wrote          \* history: what was last reported under each marker

vars == <<adminVars, session, run, job, phase, proc, nodes, pending, unwinding,
          outcomes, written, doc, bound, joined, old, wrote>>

script == session[run]
Copies(n, x) == [i \in 1 .. n |-> x]

\* main of run_comparison: the three sweeps in this order; a demo has one job.
Jobs ==
    IF script = "run_comparison"
    THEN Copies(AckRequiredSweep, "leader_follower") \o Copies(LeaderlessSweep, "leaderless")
         \o Copies(MQSweep, "message_queue")
    ELSE IF script = "boundary_demo" THEN <<"leaderless">> ELSE <<"message_queue">>

strategy == Jobs[job]

\* The try block of each strategy's configurations, and of the demos, in steps.
run_leader_follower_configs == <<"spawn", "health", "spawn_head", "head_health", "load">>

run_leaderless_configs == <<"spawn", "health", "load">>

\* Mutant of run_mq_configs: the cluster is taken for ready when it is healthy.
MQConfigsUnassigned == <<"reset", "spawn", "health", "spawn_head", "head_health", "load">>

run_mq_configs == <<"reset", "spawn", "health", "assigned", "spawn_head", "head_health", "load">>

boundary_demo_main == run_leaderless_configs \o <<"report">>

lag_demo_main == run_mq_configs \o <<"query_lag", "report">>

Steps ==
    IF script = "boundary_demo" THEN boundary_demo_main
    ELSE IF script = "lag_demo" THEN lag_demo_main
    ELSE CASE strategy = "leader_follower" -> run_leader_follower_configs
           [] strategy = "leaderless" -> run_leaderless_configs
           [] OTHER -> run_mq_configs

\* The step after p; the finally block after the last one.
StepAfter(p) ==
    LET i == CHOOSE i \in DOMAIN Steps : Steps[i] = p
    IN  IF i = Len(Steps) THEN "stop" ELSE Steps[i + 1]

Dead(s) == proc[s] \in {"none", "exited"}
ClusterSlots == IF strategy = "leaderless" THEN 1 .. Followers ELSE Slots

Init ==
    /\ session \in Sessions
    /\ run = 1 /\ job = 1 /\ phase = "begin"
    /\ proc = [s \in Slots |-> "none"]
    /\ topic \in {NoTopic, [NewTopic(NumPartitions) EXCEPT !.used = TRUE]}
    /\ call = [c \in Clients |-> "idle"]
    /\ nodes = <<>> /\ pending = {} /\ bound = {} /\ joined = {} /\ unwinding = FALSE
    /\ outcomes = <<>> /\ written = 0 /\ old = {}
    /\ doc = InitialDoc
    /\ wrote = [m \in Markers |-> <<>>]

progress == <<session, run, job, outcomes>>
report == <<written, doc, wrote>>
history == <<bound, joined, old>>

-----------------------------------------------------------------------------
(* The scripts                                                             *)

\* The try block is entered.
BeginJob ==
    /\ phase = "begin" /\ script # "by_hand"
    /\ phase' = Steps[1]
    /\ call' = [call EXCEPT ![Driver] = IF Steps[1] = "reset" THEN "reset_list" ELSE "idle"]
    /\ UNCHANGED <<progress, report, history, topic, proc, nodes, pending, unwinding>>

\* Somebody starts a producer and followers in separate terminals.
StartByHand ==
    /\ phase = "begin" /\ script = "by_hand"
    /\ phase' = "panes"
    /\ proc' = [s \in Slots |-> "starting"]
    /\ call' = [c \in Clients |-> IF c = Driver THEN "idle" ELSE "ensure_list"]
    /\ UNCHANGED <<progress, report, history, topic, nodes, pending, unwinding>>

\* "await reset_topic(mq_config)"
ResetStep ==
    /\ phase = "reset"
    /\ AdminStep(Driver)
    /\ UNCHANGED <<progress, report, history, phase, proc, nodes, pending, unwinding>>

ResetReturns ==
    /\ phase = "reset" /\ call[Driver] = "returned"
    /\ phase' = StepAfter("reset")
    /\ call' = [call EXCEPT ![Driver] = "idle"]
    /\ UNCHANGED <<progress, report, history, topic, proc, nodes, pending, unwinding>>

\* subprocess.Popen; a message-queue node begins with ensure_topic_exists.
_spawn(s) ==
    /\ proc' = [proc EXCEPT ![s] = "starting"]
    /\ call' = [call EXCEPT ![s] = IF strategy = "message_queue" THEN "ensure_list" ELSE "idle"]

\* The list that _stop_all gets, once follower s is spawned: the message-queue
\* scripts collect their followers in a list of its own first.
Tracked(s) ==
    IF strategy # "message_queue" THEN Append(nodes, s)
    ELSE IF s = Followers THEN [i \in 1 .. Followers |-> i] ELSE nodes

SpawnFollower ==
    /\ phase = "spawn"
    /\ LET s == Cardinality({t \in Slots : proc[t] # "none"}) + 1 IN
        /\ _spawn(s)
        /\ nodes' = Tracked(s)
        /\ IF s = Followers
           THEN phase' = StepAfter("spawn") /\ pending' = 1 .. Followers
           ELSE UNCHANGED <<phase, pending>>
    /\ UNCHANGED <<progress, report, history, topic, unwinding>>

\* The leader, or the producer.
SpawnLast ==
    /\ phase = "spawn_head"
    /\ _spawn(Last)
    /\ nodes' = Append(nodes, Last)
    /\ phase' = StepAfter("spawn_head") /\ pending' = {Last}
    /\ UNCHANGED <<progress, report, history, topic, unwinding>>

\* A node is dropped from a wait's pending list; the wait returns after the last.
DropFromPending(s) ==
    /\ IF pending # {s} THEN pending' = pending \ {s} /\ UNCHANGED phase
       ELSE /\ phase' = StepAfter(phase)
            /\ pending' = IF phase' = "assigned" THEN 1 .. Followers ELSE {}
    /\ UNCHANGED <<progress, report, history, adminVars, proc, nodes, unwinding>>

\* The process has not exited, and whoever serves on its port answers 200.
_wait_for_all_healthy(s) ==
    /\ phase \in {"health", "head_health"} /\ s \in pending
    /\ proc[s] # "exited"
    /\ proc[s] = "serving" \/ <<strategy, s>> \in old
    /\ DropFromPending(s)

\* The same, and GET /internal/lag lists partitions.
_wait_for_mq_followers_assigned(s) ==
    /\ phase = "assigned" /\ s \in pending
    /\ proc[s] # "exited"
    /\ (proc[s] = "serving" /\ s \in joined) \/ <<strategy, s>> \in old
    /\ DropFromPending(s)

\* Mutant of WaitRaises: no deadline.
OnlyExitRaises == \E s \in pending : proc[s] = "exited"

\* NodeStartupError: a process has exited early, or the deadline has passed.
WaitRaises == pending # {}

\* A load test has sent its writes to the producer.
TopicAfterLoad ==
    IF phase = "load" /\ strategy = "message_queue" THEN [topic EXCEPT !.used = TRUE] ELSE topic

\* run_load_test returns: a ConfigResult, or a result the demo will report.
LoadDone ==
    /\ phase = "load"
    /\ outcomes' = Append(outcomes, "result")
    /\ phase' = StepAfter("load")
    /\ topic' = TopicAfterLoad
    /\ UNCHANGED <<session, run, job, report, history, call, proc, nodes, pending, unwinding>>

\* mq_lag_demo: _query_final_lag has got an answer from every follower.
QueryLagDone ==
    /\ phase = "query_lag"
    /\ phase' = StepAfter("query_lag")
    /\ UNCHANGED <<progress, report, history, adminVars, proc, nodes, pending, unwinding>>

\* A step of the try block raises.  The sweep turns any Exception into a
\* ConfigError; a demo gives up, and stops its nodes all the same.
StepRaises ==
    /\ \/ phase = "reset" /\ call[Driver] \in Raised
       \/ phase \in {"spawn", "spawn_head"} /\ strategy \in SpawnFailures
       \/ phase \in {"health", "head_health", "assigned"} /\ WaitRaises
       \/ phase \in {"load", "query_lag"}
    /\ outcomes' = IF script = "run_comparison" THEN Append(outcomes, "error") ELSE outcomes
    /\ phase' = "stop" /\ pending' = {}
    /\ topic' = TopicAfterLoad
    /\ call' = [call EXCEPT ![Driver] = "idle"]
    /\ UNCHANGED <<session, run, job, report, history, proc, nodes, unwinding>>

\* Ctrl-C: asyncio.run cancels main, at an await; CancelledError is no
\* Exception, so only the finally block sees it.
Interrupt ==
    /\ phase \in {"reset", "health", "head_health", "assigned", "load", "query_lag"}
    /\ phase' = "stop" /\ pending' = {} /\ unwinding' = TRUE
    /\ topic' = TopicAfterLoad
    /\ call' = [call EXCEPT ![Driver] = "idle"]
    /\ UNCHANGED <<progress, report, history, proc, nodes>>

\* Mutant of StopNode: SIGTERM, and on to the next node.
TerminateWithoutWait ==
    /\ phase = "stop" /\ nodes # <<>>
    /\ proc' = [proc EXCEPT ![Head(nodes)] = IF @ = "exited" THEN @ ELSE "terminating"]
    /\ nodes' = Tail(nodes)
    /\ UNCHANGED <<progress, report, history, adminVars, phase, pending, unwinding>>

\* _stop_node up to its wait: nothing to do if poll() sees an exit, else SIGTERM.
StopNode ==
    /\ phase = "stop" /\ nodes # <<>>
    /\ LET s == Head(nodes) IN
       IF proc[s] = "exited" THEN nodes' = Tail(nodes) /\ UNCHANGED <<proc, phase>>
       ELSE /\ proc' = [proc EXCEPT ![s] = "terminating"]
            /\ phase' = "terminated"
            /\ UNCHANGED nodes
    /\ UNCHANGED <<progress, report, history, adminVars, pending, unwinding>>

\* Either wait() returns.
StopReturns ==
    /\ phase \in {"terminated", "killed"} /\ proc[Head(nodes)] = "exited"
    /\ nodes' = Tail(nodes)
    /\ phase' = "stop"
    /\ UNCHANGED <<progress, report, history, adminVars, proc, pending, unwinding>>

\* The first wait() times out: SIGKILL.
GraceExpires ==
    /\ phase = "terminated" /\ proc[Head(nodes)] # "exited"
    /\ phase' = "killed"
    /\ UNCHANGED <<progress, report, history, adminVars, proc, nodes, pending, unwinding>>

\* The script has ended; the next one of the session is started.
NextScript ==
    /\ IF run < Len(session)
       THEN phase' = "begin" /\ run' = run + 1 /\ job' = 1 /\ outcomes' = <<>>
       ELSE phase' = "over" /\ UNCHANGED <<run, job, outcomes>>
    /\ UNCHANGED session

\* The script lets go of its processes: the ones that are alive run on.  They
\* may exit at any time, so nothing that a process of old can do has to happen.
LetGo ==
    /\ old' = old \cup {<<strategy, s>> : s \in {t \in Slots : ~Dead(t)}}
    /\ proc' = [s \in Slots |-> "none"] /\ call' = [c \in Clients |-> "idle"]
    /\ bound' = {} /\ joined' = {} /\ unwinding' = FALSE

\* The finally block is done: on to the next configuration, to the reports
\* after the last one, or out of the script.
JobEnds ==
    /\ phase = "stop" /\ nodes = <<>>
    /\ LetGo
    /\ IF script = "run_comparison" /\ ~unwinding
       THEN /\ IF job < Len(Jobs) THEN job' = job + 1 /\ phase' = "begin"
               ELSE phase' = "report" /\ UNCHANGED job
            /\ UNCHANGED <<session, run, outcomes>>
       ELSE NextScript
    /\ UNCHANGED <<report, topic, nodes, pending>>

\* An exception leaves the loop of _stop_all, the finally block and the script:
\* the node it was at and those after it are not stopped.
StopAllRaises ==
    /\ LetGo
    /\ nodes' = <<>>
    /\ NextScript
    /\ UNCHANGED <<report, topic, pending>>

\* The second wait() times out too: TimeoutExpired.
KillUnanswered ==
    /\ phase = "killed" /\ proc[Head(nodes)] # "exited"
    /\ StopAllRaises

\* Two Ctrl-C, the second of them in a wait(): KeyboardInterrupt.  (A first one
\* there only cancels main, at its next await: an Interrupt.)
SecondInterrupt ==
    /\ phase \in {"terminated", "killed"}
    /\ StopAllRaises

\* The sections that each report writes.
_write_markdown_report == <<"header", "main-sweep">>

_write_mq_markdown_report == <<"header", "mq-sweep">>

boundary_write_results_section == <<"header", "boundary-case-demo">>

lag_write_results_section == <<"header", "mq-lag-demo">>

ReportSections ==
    CASE script = "run_comparison" -> _write_markdown_report \o _write_mq_markdown_report
      [] script = "boundary_demo" -> boundary_write_results_section
      [] OTHER -> lag_write_results_section

\* What a section says: the results of its configurations, then the skipped
\* ones, and of which run.
Content(marker) ==
    LET Lines(these) == [i \in DOMAIN these |-> Text(these[i], run)]
        results(these) == Cardinality({i \in DOMAIN these : these[i] = "result"})
        Table(these) ==
            Lines([i \in DOMAIN these |-> IF i <= results(these) THEN "result" ELSE "error"])
        main == AckRequiredSweep + LeaderlessSweep
    IN  CASE marker = "header" -> <<Text("header", 0)>>
          [] marker = "main-sweep" -> Table(SubSeq(outcomes, 1, main))
          [] marker = "mq-sweep" -> Table(SubSeq(outcomes, main + 1, Len(outcomes)))
          [] OTHER -> Lines(outcomes)

\* One replace_section of the report.
WriteSection ==
    /\ phase = "report"
    /\ LET marker == ReportSections[written + 1]
           last == written + 1 = Len(ReportSections)
       IN  /\ doc' = replace_section(doc, marker, Content(marker))
           /\ wrote' = [wrote EXCEPT ![marker] = Content(marker)]
           /\ written' = IF last THEN 0 ELSE written + 1
           /\ IF ~last THEN UNCHANGED <<progress, phase>>
              ELSE IF script = "run_comparison" THEN NextScript
              ELSE phase' = "stop" /\ UNCHANGED progress
    /\ UNCHANGED <<history, adminVars, proc, nodes, pending, unwinding>>

Script ==
    \/ BeginJob \/ StartByHand \/ ResetStep \/ ResetReturns \/ SpawnFollower \/ SpawnLast
    \/ \E s \in Slots : _wait_for_all_healthy(s) \/ _wait_for_mq_followers_assigned(s)
    \/ LoadDone \/ QueryLagDone \/ StepRaises
    \/ StopNode \/ StopReturns \/ GraceExpires \/ KillUnanswered
    \/ JobEnds \/ WriteSection

-----------------------------------------------------------------------------
(* The node processes and the broker                                       *)

others == <<progress, report, phase, nodes, pending, unwinding>>

\* A node's startup handler calls ensure_topic_exists.
NodeAdmin(s) ==
    /\ proc[s] = "starting"
    /\ AdminStep(s)
    /\ UNCHANGED <<others, history, proc>>

\* After its startup handlers uvicorn binds the port, and exits if it is taken.
NodeServes(s) ==
    /\ proc[s] = "starting"
    /\ strategy = "message_queue" => call[s] = "returned"
    /\ \/ proc' = [proc EXCEPT ![s] = "serving"] /\ bound' = bound \cup {s}
       \/ <<strategy, s>> \in old /\ proc' = [proc EXCEPT ![s] = "exited"] /\ UNCHANGED bound
    /\ UNCHANGED <<others, adminVars, joined, old>>

\* A message-queue node asks for the topic's partitions, and a follower is
\* assigned them; a topic that is missing is made by the broker.
NodeFetchesMetadata(s) ==
    /\ strategy = "message_queue" /\ proc[s] = "serving"
    /\ topic' = IF Listed THEN topic ELSE NewTopic(BrokerDefault)
    /\ joined' = IF s # Last THEN joined \cup {s} ELSE joined
    /\ UNCHANGED <<others, call, proc, bound, old>>

\* One that is still running from before does the same, or is still at its
\* ensure_topic_exists.
LeftoverMakesTopic(s) ==
    /\ <<"message_queue", s>> \in old /\ ~Listed
    /\ \E partitions \in {BrokerDefault, NumPartitions} : topic' = NewTopic(partitions)
    /\ UNCHANGED <<others, history, call, proc>>

\* A failed startup, a crash, or the end of a shutdown.
NodeExits(s) ==
    /\ ~Dead(s)
    /\ proc' = [proc EXCEPT ![s] = "exited"]
    /\ call' = [call EXCEPT ![s] = "idle"]
    /\ UNCHANGED <<others, history, topic>>

DeletionEnds ==
    /\ topic.state = "deleting"
    /\ topic' = NoTopic
    /\ UNCHANGED <<others, history, call, proc>>

Next ==
    \/ Script
    \/ Interrupt \/ SecondInterrupt
    \/ \E s \in Slots : NodeAdmin(s) \/ NodeServes(s) \/ NodeFetchesMetadata(s) \/ NodeExits(s)
    \/ \E s \in Slots : LeftoverMakesTopic(s)
    \/ DeletionEnds

Spec == Init /\ [][Next]_vars

\* Every wait of a script has a deadline, every request a timeout, and a load
\* test ends (LoadTest!EveryRunEnds); nothing is assumed of the nodes.
FairSpec == Spec /\ WF_vars(Script)

-----------------------------------------------------------------------------
(* Properties                                                              *)

\* A process is left running only when an exception leaves a wait() of _stop_all:
\* no error or Ctrl-C in a try block, no hanging node and no failed configuration
\* lets one escape its own finally block (run_comparison.py: it owns "the full
\* lifecycle of every node process involved").
NothingLeftRunning == [][old' # old => phase \in {"terminated", "killed"}]_vars

\* The ports of this strategy that a process left running may hold.
Leftover == {s \in Slots : <<strategy, s>> \in old}

\* A load test starts only when every process of its own cluster has come up
\* itself, and every message-queue follower has had its partitions; the answer
\* of somebody else's process is taken for its own only on a port where one was
\* left running.
ReadyBeforeLoad ==
    phase = "load" =>
        /\ ClusterSlots \subseteq bound \cup Leftover
        /\ strategy = "message_queue" => 1 .. Followers \subseteq joined \cup Leftover

\* A message-queue node serves only with the topic there, as configured and not
\* about to disappear; a load test finds no message of an earlier one on it
\* (topics.py: "no messages and no history left over from a previous config").
\* A process left running may make the topic again in between.
CleanSlate ==
    strategy = "message_queue" /\ Leftover = {} =>
        /\ \A s \in Slots : proc[s] = "serving" =>
               topic.state = "live" /\ topic.partitions = NumPartitions
        /\ phase = "load" => ~topic.used

\* A call that loses the race to create or to delete the topic does not raise.
LostRacesTolerated == \A c \in Clients : call[c] \notin {"exists", "unknown"}

\* The document holds what was last reported under each marker, once, after what
\* it held before the session; no report disturbs another script's section
\* (_results_doc.py: "leaving everything else in the file [...] untouched").
DocHoldsLastReports ==
    /\ \A m \in Markers : wrote[m] # <<>> => HasSection(doc, m, wrote[m])
    /\ SubSeq(doc, 1, Len(InitialDoc)) = InitialDoc

\* Every session ends, whatever hangs: with all scripts over, or at the
\* terminals of the nodes started by hand.
EverySessionEnds == <>(phase \in {"panes", "over"})

-----------------------------------------------------------------------------
(* What docs say and the code does not do: TLC refutes it.                 *)

\* run_comparison.py: it owns "the full lifecycle of every node process involved".
FullLifecycle == old = {}

\* run_comparison.py: "the rest of the sweep continues rather than the whole
\* run aborting on one bad config".
SweepContinues ==
    [][script = "run_comparison" /\ ~unwinding /\ phase \notin {"report", "over"} =>
         run' = run /\ phase' # "over"]_vars
=============================================================================

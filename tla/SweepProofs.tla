---------------------------- MODULE SweepProofs -----------------------------
(***************************************************************************)
(* Machine-checked proofs about Sweep, for any number of followers and      *)
(* configurations and any session.                                          *)
(***************************************************************************)
EXTENDS Sweep, FiniteSetTheorems, SequenceTheorems, TLAPS

-----------------------------------------------------------------------------
(* The inductive invariants                                                *)

Phases == {"begin", "reset", "spawn", "health", "assigned", "spawn_head", "head_health", "load",
           "query_lag", "report", "stop", "terminated", "killed", "panes", "over"}
NodeCalls == {"idle", "ensure_list", "ensure_create", "returned", "other", "timeout", "unreachable"}
Calls == NodeCalls \cup {"reset_list", "reset_delete", "reset_poll"}

\* The broker's topic, and where the calls of topics.py are.
AdminTypeOK ==
    /\ topic \in [state : {"absent", "live", "deleting"}, partitions : Nat, used : BOOLEAN]
    /\ call \in [Clients -> Calls]

TypeOK ==
    /\ session \in Sessions /\ run \in 1 .. Len(session) /\ job \in 1 .. Len(Jobs)
    /\ phase \in Phases
    /\ proc \in [Slots -> {"none", "starting", "serving", "terminating", "exited"}]
    /\ nodes \in Seq(Slots) /\ pending \subseteq Slots
    /\ bound \subseteq Slots /\ joined \subseteq Slots

\* Which steps a configuration has depends on its strategy.
StepsFit ==
    /\ phase \in {"reset", "assigned"} => strategy = "message_queue"
    /\ phase \in {"spawn_head", "head_health"} => strategy # "leaderless"
    /\ phase = "query_lag" => script = "lag_demo"
    /\ script = "by_hand" => phase \in {"begin", "panes"}
    /\ phase = "panes" => script = "by_hand"
    /\ phase \in {"terminated", "killed"} => nodes # <<>>

\* Before its first spawn, and when the sweep reports, a script has no process.
NothingSpawned ==
    phase \in {"begin", "reset"} \/ (phase = "report" /\ script = "run_comparison") =>
        nodes = <<>> /\ \A s \in Slots : proc[s] = "none"

\* Followers are spawned one after another.
SpawnedInOrder ==
    phase = "spawn" =>
        \E k \in 0 .. Followers - 1 : \A s \in Slots : proc[s] # "none" <=> s <= k

\* The slots of a list, such as the one that _stop_all will stop.
Listing(q) == {q[i] : i \in 1 .. Len(q)}

\* A process that may still run is on the list, except while the followers of a
\* message-queue cluster are being spawned, and for those started by hand.
AliveIsListed ==
    /\ "message_queue" \notin SpawnFailures
    /\ phase # "panes" /\ ~(phase = "spawn" /\ strategy = "message_queue")
    => \A s \in Slots : ~Dead(s) => s \in Listing(nodes)

\* What a wait has seen came from the script's own process, or from a leftover.
Up == bound \cup Leftover
Assigned == joined \cup Leftover

\* How far the waits have come.
WaitsFit ==
    /\ \A s \in Slots : proc[s] = "serving" => s \in bound
    /\ phase = "health" => \A s \in 1 .. Followers : s \in pending \/ s \in Up
    /\ phase = "assigned" => /\ 1 .. Followers \subseteq Up
                             /\ \A s \in 1 .. Followers : s \in pending \/ s \in Assigned
    /\ phase \in {"spawn_head", "head_health"} =>
         /\ 1 .. Followers \subseteq Up
         /\ strategy = "message_queue" => 1 .. Followers \subseteq Assigned
    /\ phase = "head_health" => Last \in pending \/ Last \in Up

SweepInv ==
    /\ TypeOK /\ StepsFit /\ NothingSpawned /\ SpawnedInOrder /\ AliveIsListed
    /\ WaitsFit /\ ReadyBeforeLoad

\* The topic as configured.
TopicIsUp == topic.state = "live" /\ topic.partitions = NumPartitions

\* What reset_topic has achieved, by the request it is at.
ResetAchieves ==
    phase = "reset" =>
        /\ call[Driver] \in {"ensure_list", "ensure_create"} => topic.state = "absent"
        /\ call[Driver] = "returned" => TopicIsUp /\ ~topic.used

\* The phases in which a script brings its cluster up and loads it.
ClusterPhases == {"spawn", "health", "assigned", "spawn_head", "head_health", "load"}

\* The topic stays up as long as a script has message-queue processes, and is
\* unused until they are loaded.
TopicStaysUp ==
    strategy = "message_queue" /\ script # "by_hand" =>
        /\ nodes # <<>> \/ (\E s \in Slots : proc[s] # "none") => TopicIsUp
        /\ phase \in ClusterPhases => TopicIsUp /\ ~topic.used

\* Nodes started by hand find the topic as configured or make it.
ByHandIsFirst ==
    script = "by_hand" =>
        /\ topic.state = "absent" \/ TopicIsUp
        /\ \A s \in Slots : proc[s] = "serving" \/ call[s] = "returned" => TopicIsUp

\* Only a script resets the topic.
NodesOnlyEnsure == \A s \in Slots : call[s] \in NodeCalls

\* Nobody starts nodes by hand after a script, which may have left the topic on
\* its way out.
ByHandOnlyFirst == \A s \in Sessions : \A i \in 2 .. Len(s) : s[i] # "by_hand"

\* No message-queue process is left running that would make the topic again.
NoLeftovers == \A s \in Slots : <<"message_queue", s>> \notin old

TopicInv == NodesOnlyEnsure /\ ResetAchieves /\ TopicStaysUp /\ ByHandIsFirst

-----------------------------------------------------------------------------
(* Configurations and their steps                                          *)

\* The lists of configurations, one after another.
LEMMA CopiesAreSeqs ==
    ASSUME NEW n \in Nat, NEW x \in Strategies
    PROVE  Copies(n, x) \in Seq(Strategies) /\ Len(Copies(n, x)) = n
  <1>1. Copies(n, x) \in [1 .. n -> Strategies]
    BY DEF Copies
  <1>2. Copies(n, x) \in Seq(Strategies)
    BY <1>1, IsASeq DEF Copies
  <1> QED BY <1>1, <1>2, LenProperties DEF Copies

\* A script sc has configurations, each of one of the three strategies.
LEMMA JobsOfScript ==
    ASSUME NEW sc, NEW js,
           js = IF sc = "run_comparison"
                THEN Copies(AckRequiredSweep, "leader_follower") \o Copies(LeaderlessSweep, "leaderless")
                     \o Copies(MQSweep, "message_queue")
                ELSE IF sc = "boundary_demo" THEN <<"leaderless">> ELSE <<"message_queue">>
    PROVE  /\ Len(js) \in Nat \ {0}
           /\ \A i \in 1 .. Len(js) :
                /\ js[i] \in Strategies
                /\ sc = "boundary_demo" => js[i] = "leaderless"
                /\ sc # "run_comparison" /\ sc # "boundary_demo" => js[i] = "message_queue"
  <1>1. CASE sc = "run_comparison"
    <2> DEFINE a == Copies(AckRequiredSweep, "leader_follower")
               b == Copies(LeaderlessSweep, "leaderless")
               c == Copies(MQSweep, "message_queue")
    <2>1. /\ a \in Seq(Strategies) /\ Len(a) = AckRequiredSweep /\ b \in Seq(Strategies)
          /\ Len(b) = LeaderlessSweep /\ c \in Seq(Strategies) /\ Len(c) = MQSweep
      BY CopiesAreSeqs, SweepAssumption DEF Strategies
    <2>2. js = (a \o b) \o c
      BY <1>1
    <2> HIDE DEF a, b, c
    <2>3. PICK d : d = a \o b
      OBVIOUS
    <2>4. js \in Seq(Strategies) /\ Len(js) = AckRequiredSweep + LeaderlessSweep + MQSweep
      <3>1. d \in Seq(Strategies) /\ Len(d) = AckRequiredSweep + LeaderlessSweep
        BY <2>1, <2>3, ConcatProperties
      <3>2. PICK e : e = c
        OBVIOUS
      <3>3. js = d \o e
        BY <2>2, <2>3, <3>2
      <3>4. e \in Seq(Strategies) /\ Len(e) = MQSweep
        BY <2>1, <3>2
      <3>5. d \o e \in Seq(Strategies) /\ Len(d \o e) = Len(d) + Len(e)
        BY <3>1, <3>4, ConcatProperties
      <3> QED BY <3>1, <3>3, <3>4, <3>5
    <2>5. \A i \in 1 .. Len(js) : js[i] \in Strategies
      BY <2>4, ElementOfSeq
    <2> QED BY <1>1, <2>4, <2>5, SweepAssumption
  <1>2. CASE sc = "boundary_demo"
    BY <1>2 DEF Strategies
  <1>3. CASE sc # "run_comparison" /\ sc # "boundary_demo"
    BY <1>3 DEF Strategies
  <1> QED BY <1>1, <1>2, <1>3

\* The strategy of the configuration at hand.
LEMMA StrategyFacts ==
    ASSUME TypeOK
    PROVE  /\ strategy \in Strategies
           /\ script = "boundary_demo" => strategy = "leaderless"
           /\ script \in {"lag_demo", "by_hand"} => strategy = "message_queue"
           /\ script \in Scripts
  <1>1. \A i \in 1 .. Len(Jobs) :
          /\ Jobs[i] \in Strategies
          /\ script = "boundary_demo" => Jobs[i] = "leaderless"
          /\ script # "run_comparison" /\ script # "boundary_demo" => Jobs[i] = "message_queue"
    BY JobsOfScript DEF Jobs
  <1>2. script \in Scripts
    BY SessionAssumption, ElementOfSeq DEF TypeOK, script
  <1> HIDE DEF Jobs, script
  <1> QED BY <1>1, <1>2 DEF strategy, TypeOK

\* A step that is at place i only is followed by the one at i + 1.
LEMMA StepAfterIs ==
    ASSUME NEW f \in Seq(Phases), Steps = f, NEW i \in 1 .. Len(f),
           \A j \in 1 .. Len(f) : f[j] = f[i] => j = i
    PROVE  StepAfter(f[i]) = IF i = Len(f) THEN "stop" ELSE f[i + 1]
  <1>1. DOMAIN Steps = 1 .. Len(f)
    BY LenProperties
  <1>2. (CHOOSE x \in DOMAIN Steps : Steps[x] = f[i]) = i
    BY <1>1
  <1> QED BY <1>1, <1>2 DEF StepAfter

\* The steps of the leader-follower configurations.
LEMMA LeaderSteps ==
    ASSUME Steps = run_leader_follower_configs
    PROVE  /\ Steps[1] = "spawn" /\ StepAfter("spawn") = "health" /\ StepAfter("health") = "spawn_head"
           /\ StepAfter("spawn_head") = "head_health" /\ StepAfter("head_health") = "load"
           /\ StepAfter("load") = "stop"
  <1>1. PICK f : f = <<"spawn", "health", "spawn_head", "head_health", "load">>
    OBVIOUS
  <1>2. f \in Seq(Phases) /\ Len(f) = 5 /\ Steps = f
    BY <1>1 DEF run_leader_follower_configs, Phases
  <1>3. f[1] = "spawn" /\ f[2] = "health" /\ f[3] = "spawn_head" /\ f[4] = "head_health" /\ f[5] = "load"
    BY <1>1
  <1>4. \A i \in 1 .. 5 : \A j \in 1 .. 5 : f[j] = f[i] => j = i
    BY <1>3
  <1>5. \A i \in 1 .. 5 : StepAfter(f[i]) = IF i = 5 THEN "stop" ELSE f[i + 1]
    BY <1>2, <1>4, StepAfterIs
  <1> QED BY <1>2, <1>3, <1>5

\* The steps of the leaderless configurations, and of the boundary demo.
LEMMA LeaderlessSteps ==
    ASSUME Steps = run_leaderless_configs \/ Steps = boundary_demo_main
    PROVE  /\ Steps[1] = "spawn" /\ StepAfter("spawn") = "health" /\ StepAfter("health") = "load"
           /\ StepAfter("load") \in {"stop", "report"}
           /\ Steps = run_leaderless_configs => StepAfter("load") = "stop"
  <1>1. CASE Steps = run_leaderless_configs
    <2>1. PICK f : f = <<"spawn", "health", "load">>
      OBVIOUS
    <2>2. f \in Seq(Phases) /\ Len(f) = 3 /\ Steps = f
      BY <1>1, <2>1 DEF run_leaderless_configs, Phases
    <2>3. f[1] = "spawn" /\ f[2] = "health" /\ f[3] = "load"
      BY <2>1
    <2>4. \A i \in 1 .. 3 : \A j \in 1 .. 3 : f[j] = f[i] => j = i
      BY <2>3
    <2>5. \A i \in 1 .. 3 : StepAfter(f[i]) = IF i = 3 THEN "stop" ELSE f[i + 1]
      BY <2>2, <2>4, StepAfterIs
    <2> QED BY <2>2, <2>3, <2>5
  <1>2. CASE Steps = boundary_demo_main
    <2>1. PICK g, h, f : g = <<"spawn", "health", "load">> /\ h = <<"report">> /\ f = g \o h
      OBVIOUS
    <2>2. g \in Seq(Phases) /\ Len(g) = 3 /\ h \in Seq(Phases) /\ Len(h) = 1
      BY <2>1 DEF Phases
    <2>3. g[1] = "spawn" /\ g[2] = "health" /\ g[3] = "load" /\ h[1] = "report"
      BY <2>1
    <2>4. Steps = f
      BY <1>2, <2>1 DEF boundary_demo_main, run_leaderless_configs
    <2>5. /\ f \in Seq(Phases) /\ Len(f) = 4
          /\ \A i \in 1 .. 4 : f[i] = IF i <= 3 THEN g[i] ELSE h[i - 3]
      BY <2>1, <2>2, ConcatProperties
    <2>6. f[1] = "spawn" /\ f[2] = "health" /\ f[3] = "load" /\ f[4] = "report"
      BY <2>3, <2>5
    <2>7. \A i \in 1 .. 4 : \A j \in 1 .. 4 : f[j] = f[i] => j = i
      BY <2>6
    <2>8. f \in Seq(Phases) /\ Len(f) = 4
      BY <2>5
    <2>9. \A i \in 1 .. 4 : StepAfter(f[i]) = IF i = 4 THEN "stop" ELSE f[i + 1]
      BY <2>4, <2>7, <2>8, StepAfterIs
    <2>10. run_leaderless_configs = g
      BY <2>1 DEF run_leaderless_configs
    <2>11. f # g
      <3>1. Len(f) = 4 /\ Len(g) = 3 /\ 4 # 3
        BY <2>2, <2>8
      <3> QED BY <3>1, Zenon
    <2>12. Steps # run_leaderless_configs
      BY <2>4, <2>10, <2>11, Zenon
    <2> QED BY <2>4, <2>6, <2>9, <2>12
  <1> QED BY <1>1, <1>2

\* The steps of the message-queue configurations, and of the lag demo.
LEMMA MQSteps ==
    ASSUME Steps = run_mq_configs \/ Steps = lag_demo_main
    PROVE  /\ Steps[1] = "reset" /\ StepAfter("reset") = "spawn" /\ StepAfter("spawn") = "health"
           /\ StepAfter("health") = "assigned" /\ StepAfter("assigned") = "spawn_head"
           /\ StepAfter("spawn_head") = "head_health" /\ StepAfter("head_health") = "load"
           /\ Steps = run_mq_configs => StepAfter("load") = "stop"
           /\ Steps = lag_demo_main => StepAfter("load") = "query_lag" /\ StepAfter("query_lag") = "report"
  <1>1. PICK g : g = <<"reset", "spawn", "health", "assigned", "spawn_head", "head_health", "load">>
    OBVIOUS
  <1>2. g \in Seq(Phases) /\ Len(g) = 7 /\ run_mq_configs = g
    BY <1>1 DEF run_mq_configs, Phases
  <1>3. /\ g[1] = "reset" /\ g[2] = "spawn" /\ g[3] = "health" /\ g[4] = "assigned"
        /\ g[5] = "spawn_head" /\ g[6] = "head_health" /\ g[7] = "load"
    BY <1>1
  <1>4. PICK h : h = <<"query_lag", "report">>
    OBVIOUS
  <1>5. h \in Seq(Phases) /\ Len(h) = 2 /\ h[1] = "query_lag" /\ h[2] = "report"
    BY <1>4 DEF Phases
  <1>6. PICK f : f = g \o h
    OBVIOUS
  <1>7. /\ f \in Seq(Phases) /\ Len(f) = 9
        /\ \A i \in 1 .. 9 : f[i] = IF i <= 7 THEN g[i] ELSE h[i - 7]
    <2>1. g \in Seq(Phases) /\ Len(g) = 7 /\ h \in Seq(Phases) /\ Len(h) = 2
      BY <1>2, <1>5
    <2>2. /\ g \o h \in Seq(Phases)
          /\ Len(g \o h) = Len(g) + Len(h)
          /\ \A i \in 1 .. Len(g) + Len(h) : (g \o h)[i] = IF i <= Len(g) THEN g[i] ELSE h[i - Len(g)]
      BY <2>1, ConcatProperties, Zenon
    <2> QED BY <1>6, <2>1, <2>2
  <1>8. lag_demo_main = f /\ f # g
    <2>1. Len(f) = 9 /\ Len(g) = 7 /\ 9 # 7
      BY <1>2, <1>7
    <2>2. f # g
      BY <2>1, Zenon
    <2>3. lag_demo_main = g \o h
      BY <1>2, <1>4 DEF lag_demo_main
    <2>4. lag_demo_main = f
      BY <1>6, <2>3, Zenon
    <2> QED BY <2>2, <2>4
  <1>9. CASE Steps = run_mq_configs
    <2>1. \A i \in 1 .. 7 : \A j \in 1 .. 7 : g[j] = g[i] => j = i
      BY <1>3
    <2>2. \A i \in 1 .. 7 : StepAfter(g[i]) = IF i = 7 THEN "stop" ELSE g[i + 1]
      BY <1>2, <1>9, <2>1, StepAfterIs
    <2> QED BY <1>2, <1>3, <1>8, <1>9, <2>2
  <1>10. CASE Steps = lag_demo_main
    <2>1. /\ f[1] = "reset" /\ f[2] = "spawn" /\ f[3] = "health" /\ f[4] = "assigned"
          /\ f[5] = "spawn_head" /\ f[6] = "head_health" /\ f[7] = "load" /\ f[8] = "query_lag" /\ f[9] = "report"
      BY <1>3, <1>5, <1>7
    <2>2. \A i \in 1 .. 9 : \A j \in 1 .. 9 : f[j] = f[i] => j = i
      BY <2>1
    <2>3. f \in Seq(Phases) /\ Len(f) = 9 /\ Steps = f
      BY <1>7, <1>8, <1>10
    <2>4. \A i \in 1 .. 9 : StepAfter(f[i]) = IF i = 9 THEN "stop" ELSE f[i + 1]
      BY <2>2, <2>3, StepAfterIs
    <2> QED BY <1>2, <1>8, <1>10, <2>1, <2>4
  <1> QED BY <1>9, <1>10

\* The order of the steps, by strategy.
LEMMA StepOrder ==
    ASSUME TypeOK
    PROVE  /\ Steps[1] = IF strategy = "message_queue" THEN "reset" ELSE "spawn"
           /\ StepAfter("spawn") = "health"
           /\ StepAfter("health") = IF strategy = "message_queue" THEN "assigned"
                                    ELSE IF strategy = "leaderless" THEN "load" ELSE "spawn_head"
           /\ strategy = "message_queue" => StepAfter("reset") = "spawn" /\ StepAfter("assigned") = "spawn_head"
           /\ strategy # "leaderless" =>
                StepAfter("spawn_head") = "head_health" /\ StepAfter("head_health") = "load"
           /\ StepAfter("load") \in {"stop", "report", "query_lag"}
           /\ StepAfter("load") = "report" => script = "boundary_demo"
           /\ StepAfter("load") = "query_lag" => script = "lag_demo"
           /\ script = "lag_demo" => StepAfter("query_lag") = "report"
  <1>1. /\ strategy \in Strategies /\ script \in Scripts
        /\ script = "boundary_demo" => strategy = "leaderless"
        /\ script \in {"lag_demo", "by_hand"} => strategy = "message_queue"
    BY StrategyFacts
  <1> DEFINE st == strategy
             sc == script
  <1>2. /\ sc = "boundary_demo" => Steps = boundary_demo_main
        /\ sc = "lag_demo" => Steps = lag_demo_main
        /\ sc \notin {"boundary_demo", "lag_demo"} /\ st = "leader_follower" => Steps = run_leader_follower_configs
        /\ sc \notin {"boundary_demo", "lag_demo"} /\ st = "leaderless" => Steps = run_leaderless_configs
        /\ sc \notin {"boundary_demo", "lag_demo"} /\ st = "message_queue" => Steps = run_mq_configs
    <2> HIDE DEF st, sc
    <2>1. Steps = IF sc = "boundary_demo" THEN boundary_demo_main
                  ELSE IF sc = "lag_demo" THEN lag_demo_main
                  ELSE CASE st = "leader_follower" -> run_leader_follower_configs
                         [] st = "leaderless" -> run_leaderless_configs
                         [] OTHER -> run_mq_configs
      BY DEF Steps, st, sc
    <2> QED BY <2>1
  <1>3. CASE sc = "boundary_demo"
    BY <1>1, <1>2, <1>3, LeaderlessSteps
  <1>4. CASE sc = "lag_demo"
    BY <1>1, <1>2, <1>4, MQSteps
  <1>5. CASE sc \notin {"boundary_demo", "lag_demo"} /\ st = "leader_follower"
    BY <1>2, <1>5, LeaderSteps
  <1>6. CASE sc \notin {"boundary_demo", "lag_demo"} /\ st = "leaderless"
    BY <1>2, <1>6, LeaderlessSteps
  <1>7. CASE sc \notin {"boundary_demo", "lag_demo"} /\ st = "message_queue"
    BY <1>2, <1>7, MQSteps
  <1> QED BY <1>1, <1>3, <1>4, <1>5, <1>6, <1>7 DEF Strategies

-----------------------------------------------------------------------------
(* Requests to the broker                                                  *)

\* A call moves on, and the topic is left alone.
LEMMA Recall ==
    ASSUME AdminTypeOK, NEW c, NEW where \in Calls, call' = [call EXCEPT ![c] = where], topic' = topic
    PROVE  AdminTypeOK'
  BY DEF AdminTypeOK

\* An admin request keeps the types, and no error code that is tolerated is raised.
LEMMA AdminStepTypes ==
    ASSUME AdminTypeOK, NEW c \in Clients, AdminStep(c)
    PROVE  AdminTypeOK'
  <1>1. CASE EnsureLists(c)
    BY <1>1, Recall DEF EnsureLists, Goto, Calls, NodeCalls
  <1>2. CASE EnsureCreates(c)
    <2>1. PICK code \in {IF Listed THEN "exists" ELSE "ok", "other"} :
            /\ topic' = IF code = "ok" THEN NewTopic(NumPartitions) ELSE topic
            /\ _raise_on_topic_errors(c, code, "exists", "returned")
      BY <1>2 DEF EnsureCreates
    <2>2. call' \in [Clients -> Calls]
      BY <2>1 DEF _raise_on_topic_errors, Goto, AdminTypeOK, Calls, NodeCalls
    <2>3. NewTopic(NumPartitions) \in [state : {"absent", "live", "deleting"}, partitions : Nat, used : BOOLEAN]
      BY PartitionsAssumption DEF NewTopic
    <2> QED BY <2>1, <2>2, <2>3 DEF AdminTypeOK
  <1>3. CASE ResetLists(c)
    BY <1>3, Recall DEF ResetLists, Goto, Calls, NodeCalls
  <1>4. CASE ResetDeletes(c)
    <2>1. PICK code \in {IF topic.state = "live" THEN "ok" ELSE "unknown", "other"} :
            /\ topic' = IF code = "ok" THEN [topic EXCEPT !.state = "deleting"] ELSE topic
            /\ _raise_on_topic_errors(c, code, "unknown", "reset_poll")
      BY <1>4 DEF ResetDeletes
    <2>2. call' \in [Clients -> Calls]
      BY <2>1 DEF _raise_on_topic_errors, Goto, AdminTypeOK, Calls, NodeCalls
    <2> QED BY <2>1, <2>2 DEF AdminTypeOK
  <1>5. CASE ResetPolls(c)
    BY <1>5, Recall DEF ResetPolls, Goto, Calls, NodeCalls
  <1>6. CASE BrokerUnreachable(c)
    BY <1>6, Recall DEF BrokerUnreachable, Goto, Calls, NodeCalls
  <1> QED BY <1>1, <1>2, <1>3, <1>4, <1>5, <1>6 DEF AdminStep

\* So does every step of a script or of a node.
LEMMA AdminTypeOKKept ==
    ASSUME AdminTypeOK, [Next]_vars
    PROVE  AdminTypeOK'
  <1> DEFINE Topics == [state : {"absent", "live", "deleting"}, partitions : Nat, used : BOOLEAN]
  <1>1. Driver \in Clients /\ Slots \subseteq Clients
    BY ClientsAssumption
  <1>2. TopicAfterLoad \in Topics
    BY DEF AdminTypeOK, TopicAfterLoad
  <1>3. {"idle", "ensure_list", "reset_list"} \subseteq Calls
    BY DEF Calls, NodeCalls
  <1>4. CASE BeginJob
    BY <1>3, <1>4, Recall DEF BeginJob
  <1>5. CASE StartByHand
    BY <1>3, <1>5 DEF StartByHand, AdminTypeOK
  <1>6. CASE ResetStep
    BY <1>1, <1>6, AdminStepTypes DEF ResetStep
  <1>7. CASE ResetReturns
    BY <1>3, <1>7, Recall DEF ResetReturns
  <1>8. CASE SpawnFollower
    BY <1>3, <1>8, Recall DEF SpawnFollower, _spawn
  <1>9. CASE SpawnLast
    BY <1>3, <1>9, Recall DEF SpawnLast, _spawn
  <1>10. CASE \E s \in Slots : _wait_for_all_healthy(s) \/ _wait_for_mq_followers_assigned(s)
    BY <1>10 DEF _wait_for_all_healthy, _wait_for_mq_followers_assigned, DropFromPending, adminVars, AdminTypeOK
  <1>11. CASE LoadDone
    BY <1>2, <1>11 DEF LoadDone, AdminTypeOK
  <1>12. CASE QueryLagDone
    BY <1>12 DEF QueryLagDone, adminVars, AdminTypeOK
  <1>13. CASE StepRaises
    BY <1>2, <1>3, <1>13 DEF StepRaises, AdminTypeOK
  <1>14. CASE StopNode \/ StopReturns \/ GraceExpires
    BY <1>14 DEF StopNode, StopReturns, GraceExpires, adminVars, AdminTypeOK
  <1>15. CASE JobEnds \/ KillUnanswered \/ SecondInterrupt
    BY <1>3, <1>15 DEF JobEnds, KillUnanswered, SecondInterrupt, StopAllRaises, LetGo, AdminTypeOK
  <1>16. CASE WriteSection
    BY <1>16 DEF WriteSection, adminVars, AdminTypeOK
  <1>17. CASE Interrupt
    BY <1>2, <1>3, <1>17 DEF Interrupt, AdminTypeOK
  <1>18. ASSUME NEW s \in Slots, NodeAdmin(s)
         PROVE  AdminTypeOK'
    BY <1>1, <1>18, AdminStepTypes DEF NodeAdmin
  <1>19. ASSUME NEW s \in Slots, NodeServes(s)
         PROVE  AdminTypeOK'
    BY <1>19 DEF NodeServes, adminVars, AdminTypeOK
  <1>20. ASSUME NEW s \in Slots, NodeFetchesMetadata(s)
         PROVE  AdminTypeOK'
    BY <1>20, PartitionsAssumption DEF NodeFetchesMetadata, NewTopic, AdminTypeOK
  <1>21. ASSUME NEW s \in Slots, NodeExits(s)
         PROVE  AdminTypeOK'
    BY <1>3, <1>21, Recall DEF NodeExits
  <1>22. CASE DeletionEnds
    BY <1>22 DEF DeletionEnds, NoTopic, AdminTypeOK
  <1>24. ASSUME NEW s \in Slots, LeftoverMakesTopic(s)
         PROVE  AdminTypeOK'
    BY <1>24, PartitionsAssumption DEF LeftoverMakesTopic, NewTopic, AdminTypeOK
  <1>23. CASE UNCHANGED vars
    BY <1>23 DEF vars, adminVars, AdminTypeOK
  <1> QED
    BY <1>4, <1>5, <1>6, <1>7, <1>8, <1>9, <1>10, <1>11, <1>12, <1>13, <1>14, <1>15, <1>16, <1>17,
       <1>18, <1>19, <1>20, <1>21, <1>22, <1>23, <1>24 DEF Next, Script

\* The types hold at first.
LEMMA AdminTypeOKInit ==
    ASSUME Init
    PROVE  AdminTypeOK
  <1>1. topic \in [state : {"absent", "live", "deleting"}, partitions : Nat, used : BOOLEAN]
    <2>1. CASE topic = NoTopic
      BY <2>1 DEF NoTopic
    <2>2. CASE topic = [NewTopic(NumPartitions) EXCEPT !.used = TRUE]
      BY <2>2, PartitionsAssumption DEF NewTopic
    <2> QED BY <2>1, <2>2 DEF Init
  <1>2. call \in [Clients -> Calls]
    BY DEF Init, Calls, NodeCalls
  <1> QED BY <1>1, <1>2 DEF AdminTypeOK

\* topics.py: the calls of any number of nodes and of a script against one broker
\* never raise for having lost the race to create or to delete the topic.
THEOREM LostRacesAreTolerated == Spec => []LostRacesTolerated
  <1>1. Init => AdminTypeOK
    BY AdminTypeOKInit
  <1>2. AdminTypeOK /\ [Next]_vars => AdminTypeOK'
    BY AdminTypeOKKept
  <1>3. AdminTypeOK => LostRacesTolerated
    BY DEF AdminTypeOK, LostRacesTolerated, Calls, NodeCalls
  <1> QED BY <1>1, <1>2, <1>3, PTL DEF Spec

-----------------------------------------------------------------------------
(* Processes and waits                                                     *)

\* "nodes.append(...)"
LEMMA AppendLists ==
    ASSUME NEW q \in Seq(Slots), NEW s \in Slots
    PROVE  /\ Append(q, s) \in Seq(Slots)
           /\ Listing(q) \cup {s} \subseteq Listing(Append(q, s))
  <1>1. PICK r : r = Append(q, s)
    OBVIOUS
  <1>2. r \in Seq(Slots) /\ Len(r) = Len(q) + 1 /\ r[Len(q) + 1] = s /\ \A i \in 1 .. Len(q) : r[i] = q[i]
    BY <1>1, AppendProperties
  <1>3. Listing(q) \cup {s} \subseteq Listing(r)
    BY <1>2 DEF Listing
  <1> QED BY <1>1, <1>2, <1>3

\* _stop_all goes on to the next node.
LEMMA TailLists ==
    ASSUME NEW q \in Seq(Slots), q # <<>>
    PROVE  /\ Tail(q) \in Seq(Slots) /\ Head(q) \in Slots
           /\ Listing(q) \subseteq Listing(Tail(q)) \cup {Head(q)}
  <1>1. PICK r : r = Tail(q)
    OBVIOUS
  <1>2. /\ r \in Seq(Slots) /\ Len(r) = Len(q) - 1 /\ Head(q) = q[1] /\ Head(q) \in Slots
        /\ \A i \in 1 .. Len(r) : r[i] = q[i + 1]
    BY <1>1, HeadTailProperties, ElementOfSeq
  <1>3. ASSUME NEW i \in 1 .. Len(q)
        PROVE  q[i] \in Listing(r) \cup {Head(q)}
    <2>1. CASE i = 1
      BY <1>2, <2>1
    <2>2. CASE i # 1
      <3>1. i - 1 \in 1 .. Len(r) /\ r[i - 1] = q[i]
        BY <1>2, <2>2
      <3> QED BY <3>1 DEF Listing
    <2> QED BY <2>1, <2>2
  <1> QED BY <1>1, <1>2, <1>3 DEF Listing

\* The list of its own in which the message-queue scripts collect the followers.
LEMMA FollowersList ==
    /\ [i \in 1 .. Followers |-> i] \in Seq(Slots)
    /\ Listing([i \in 1 .. Followers |-> i]) = 1 .. Followers
  <1>1. PICK r : r = [i \in 1 .. Followers |-> i]
    OBVIOUS
  <1>2. r \in [1 .. Followers -> Slots]
    BY <1>1, ClientsAssumption DEF Slots, Last
  <1>3. r \in Seq(Slots) /\ Len(r) = Followers
    BY <1>1, <1>2, IsASeq, LenProperties, ClientsAssumption
  <1>4. Listing(r) = 1 .. Followers
    BY <1>1, <1>3 DEF Listing
  <1> QED BY <1>1, <1>3, <1>4

\* Most steps are within a configuration.
LEMMA SameJob ==
    ASSUME session' = session, run' = run, job' = job
    PROVE  script' = script /\ strategy' = strategy /\ Len(Jobs)' = Len(Jobs)
  BY DEF script, strategy, Jobs

\* The leftovers of its strategy stay the same.
LEMMA SameLeftover ==
    ASSUME strategy' = strategy, old' = old, bound \subseteq bound', joined \subseteq joined'
    PROVE  Leftover' = Leftover /\ Up \subseteq Up' /\ Assigned \subseteq Assigned'
  BY DEF Leftover, Up, Assigned

\* A step that may change only where processes are (within the alive states, or to exited), what they
\* have shown, and the broker.
LEMMA NodeStepKeeps ==
    ASSUME SweepInv, UNCHANGED <<others, old>>, NEW s \in Slots, NEW p \in {"starting", "serving", "exited"},
           \/ proc' = proc
           \/ ~Dead(s) /\ proc' = [proc EXCEPT ![s] = p],
           proc'[s] = "serving" => s \in bound',
           bound \subseteq bound', joined \subseteq joined', bound' \subseteq Slots, joined' \subseteq Slots
    PROVE  SweepInv'
  <1>1. /\ session' = session /\ run' = run /\ job' = job /\ phase' = phase /\ nodes' = nodes
        /\ pending' = pending /\ old' = old
    BY DEF others, progress
  <1>2. script' = script /\ strategy' = strategy /\ Len(Jobs)' = Len(Jobs)
    BY <1>1, SameJob
  <1>3. /\ \A t \in Slots : proc'[t] = "none" <=> proc[t] = "none"
        /\ \A t \in Slots : Dead(t) => Dead(t)'
        /\ \A t \in Slots : t # s => proc'[t] = proc[t]
    BY DEF SweepInv, TypeOK, Dead
  <1>4. TypeOK'
    BY <1>1, <1>2 DEF SweepInv, TypeOK
  <1>5. StepsFit' /\ NothingSpawned' /\ SpawnedInOrder'
    BY <1>1, <1>2, <1>3 DEF SweepInv, StepsFit, NothingSpawned, SpawnedInOrder
  <1>6. AliveIsListed'
    BY <1>1, <1>2, <1>3 DEF SweepInv, AliveIsListed
  <1>7. Up \subseteq Up' /\ Assigned \subseteq Assigned'
    BY <1>1, <1>2, SameLeftover
  <1>8. WaitsFit'
    BY <1>1, <1>2, <1>3, <1>7, ClientsAssumption DEF SweepInv, WaitsFit
  <1>9. ReadyBeforeLoad'
    BY <1>1, <1>2, <1>7 DEF SweepInv, ReadyBeforeLoad, ClusterSlots, Up, Assigned
  <1> QED BY <1>4, <1>5, <1>6, <1>8, <1>9 DEF SweepInv

\* The steps of a script before its first spawn.
LEMMA BeginningKeeps ==
    ASSUME SweepInv, BeginJob \/ StartByHand \/ ResetStep \/ ResetReturns
    PROVE  SweepInv'
  <1>1. /\ session' = session /\ run' = run /\ job' = job /\ nodes' = nodes
        /\ pending' = pending /\ old' = old /\ bound' = bound /\ joined' = joined
    BY DEF BeginJob, StartByHand, ResetStep, ResetReturns, progress, history
  <1>2. script' = script /\ strategy' = strategy /\ Len(Jobs)' = Len(Jobs)
    BY <1>1, SameJob
  <1>3. /\ Steps[1] = IF strategy = "message_queue" THEN "reset" ELSE "spawn"
        /\ strategy = "message_queue" => StepAfter("reset") = "spawn"
    BY StepOrder DEF SweepInv
  <1>4. CASE phase' \in {"reset", "spawn"} /\ proc' = proc /\ phase \in {"begin", "reset"} /\ script # "by_hand"
             /\ (phase' = "reset" => strategy = "message_queue")
    <2>1. TypeOK' /\ StepsFit' /\ NothingSpawned'
      BY <1>1, <1>2, <1>4 DEF SweepInv, TypeOK, Phases, StepsFit, NothingSpawned
    <2>2. SpawnedInOrder'
      <3>1. \A s \in Slots : proc[s] # "none" <=> s <= 0
        BY <1>4, ClientsAssumption DEF SweepInv, NothingSpawned, Slots, Last
      <3>2. 0 \in 0 .. Followers - 1
        BY ClientsAssumption
      <3> QED BY <1>4, <3>1, <3>2 DEF SpawnedInOrder
    <2>3. AliveIsListed' /\ WaitsFit' /\ ReadyBeforeLoad'
      BY <1>1, <1>2, <1>4 DEF SweepInv, NothingSpawned, AliveIsListed, Dead, WaitsFit, ReadyBeforeLoad
    <2> QED BY <2>1, <2>2, <2>3 DEF SweepInv
  <1>5. CASE BeginJob
    BY <1>3, <1>4, <1>5 DEF BeginJob
  <1>6. CASE StartByHand
    <2>1. phase' = "panes" /\ script = "by_hand" /\ proc' = [s \in Slots |-> "starting"]
      BY <1>6 DEF StartByHand
    <2> QED
      BY <1>1, <1>2, <2>1 DEF SweepInv, TypeOK, Phases, StepsFit, NothingSpawned, SpawnedInOrder, AliveIsListed,
         WaitsFit, ReadyBeforeLoad
  <1>7. CASE ResetStep
    BY <1>4, <1>7 DEF ResetStep, SweepInv, StepsFit
  <1>8. CASE ResetReturns
    BY <1>3, <1>4, <1>8 DEF ResetReturns, SweepInv, StepsFit
  <1> QED BY <1>5, <1>6, <1>7, <1>8

\* The followers are spawned, one in each step.
LEMMA SpawnFollowerKeeps ==
    ASSUME SweepInv, SpawnFollower
    PROVE  SweepInv'
  <1>1. /\ session' = session /\ run' = run /\ job' = job /\ old' = old /\ bound' = bound /\ joined' = joined
    BY DEF SpawnFollower, progress, history
  <1>2. script' = script /\ strategy' = strategy /\ Len(Jobs)' = Len(Jobs)
    BY <1>1, SameJob
  <1>3. phase = "spawn" /\ StepAfter("spawn") = "health"
    BY StepOrder DEF SweepInv, SpawnFollower
  <1>4. PICK k \in 0 .. Followers - 1 : \A s \in Slots : proc[s] # "none" <=> s <= k
    BY <1>3 DEF SweepInv, SpawnedInOrder
  <1>5. Cardinality({t \in Slots : proc[t] # "none"}) = k
    <2>1. {t \in Slots : proc[t] # "none"} = 1 .. k
      BY <1>4, ClientsAssumption DEF Slots, Last
    <2>2. Cardinality(1 .. k) = IF 1 > k THEN 0 ELSE k - 1 + 1
      BY <1>4, FS_Interval, ClientsAssumption
    <2>3. (IF 1 > k THEN 0 ELSE k - 1 + 1) = k
      BY <1>4, ClientsAssumption
    <2> QED BY <2>1, <2>2, <2>3, Zenon
  <1>6. PICK s : s = k + 1
    OBVIOUS
  <1>7. s \in 1 .. Followers /\ s \in Slots
    BY <1>6, ClientsAssumption DEF Slots, Last
  <1>8. /\ proc' = [proc EXCEPT ![s] = "starting"] /\ nodes' = Tracked(s)
        /\ s = Followers => phase' = "health" /\ pending' = 1 .. Followers
        /\ s # Followers => phase' = phase /\ pending' = pending
    BY <1>3, <1>5, <1>6 DEF SpawnFollower, _spawn
  <1>9. /\ nodes' \in Seq(Slots)
        /\ strategy # "message_queue" => Listing(nodes) \cup {s} \subseteq Listing(nodes')
        /\ strategy = "message_queue" /\ s = Followers => Listing(nodes') = 1 .. Followers
    BY <1>7, <1>8, AppendLists, FollowersList DEF Tracked, SweepInv, TypeOK
  <1>10. 1 .. Followers \subseteq Slots
    BY ClientsAssumption DEF Slots, Last
  <1>11. TypeOK'
    BY <1>1, <1>2, <1>3, <1>7, <1>8, <1>9, <1>10 DEF SweepInv, TypeOK, Phases
  <1>12. StepsFit' /\ NothingSpawned' /\ ReadyBeforeLoad'
    BY <1>1, <1>2, <1>3, <1>8 DEF SweepInv, StepsFit, NothingSpawned, ReadyBeforeLoad
  <1>13. \A t \in Slots : proc'[t] # "none" <=> t <= s
    BY <1>4, <1>6, <1>7, <1>8, ClientsAssumption DEF SweepInv, TypeOK, Slots, Last
  <1>14. SpawnedInOrder'
    <2>1. CASE s = Followers
      BY <1>8, <2>1 DEF SpawnedInOrder
    <2>2. CASE s # Followers
      <3>1. s \in 0 .. Followers - 1
        BY <1>7, <2>2, ClientsAssumption
      <3> QED BY <1>13, <3>1 DEF SpawnedInOrder
    <2> QED BY <2>1, <2>2
  <1>15. AliveIsListed'
    <2>1. CASE strategy # "message_queue"
      BY <1>2, <1>3, <1>7, <1>8, <1>9, <2>1 DEF SweepInv, TypeOK, AliveIsListed, Dead
    <2>2. CASE strategy = "message_queue" /\ s = Followers
      BY <1>7, <1>9, <1>13, <2>2, ClientsAssumption DEF AliveIsListed, Dead, Slots, Last
    <2>3. CASE strategy = "message_queue" /\ s # Followers
      BY <1>2, <1>3, <1>8, <2>3 DEF AliveIsListed
    <2> QED BY <2>1, <2>2, <2>3
  <1>16. WaitsFit'
    BY <1>1, <1>2, <1>3, <1>7, <1>8 DEF SweepInv, TypeOK, WaitsFit
  <1> QED BY <1>11, <1>12, <1>14, <1>15, <1>16 DEF SweepInv

\* The leader, or the producer, is spawned.
LEMMA SpawnLastKeeps ==
    ASSUME SweepInv, SpawnLast
    PROVE  SweepInv'
  <1>1. /\ session' = session /\ run' = run /\ job' = job /\ old' = old /\ bound' = bound /\ joined' = joined
    BY DEF SpawnLast, progress, history
  <1>2. script' = script /\ strategy' = strategy /\ Len(Jobs)' = Len(Jobs)
    BY <1>1, SameJob
  <1>3. Last \in Slots
    BY ClientsAssumption DEF Slots, Last
  <1>4. phase = "spawn_head" /\ strategy # "leaderless" /\ StepAfter("spawn_head") = "head_health"
    BY StepOrder DEF SweepInv, SpawnLast, StepsFit
  <1>5. /\ phase' = "head_health" /\ pending' = {Last} /\ nodes' = Append(nodes, Last)
        /\ proc' = [proc EXCEPT ![Last] = "starting"]
    BY <1>4 DEF SpawnLast, _spawn
  <1>6. nodes' \in Seq(Slots) /\ Listing(nodes) \cup {Last} \subseteq Listing(nodes')
    BY <1>3, <1>5, AppendLists DEF SweepInv, TypeOK
  <1>7. TypeOK'
    BY <1>1, <1>2, <1>3, <1>5, <1>6 DEF SweepInv, TypeOK, Phases
  <1>8. StepsFit' /\ NothingSpawned' /\ ReadyBeforeLoad' /\ SpawnedInOrder'
    BY <1>1, <1>2, <1>4, <1>5 DEF SweepInv, StepsFit, NothingSpawned, ReadyBeforeLoad,
       SpawnedInOrder
  <1>9. AliveIsListed'
    BY <1>2, <1>3, <1>4, <1>5, <1>6 DEF SweepInv, TypeOK, AliveIsListed, Dead
  <1>10. Up \subseteq Up' /\ Assigned \subseteq Assigned'
    BY <1>1, <1>2, SameLeftover
  <1>11. WaitsFit'
    BY <1>1, <1>2, <1>3, <1>4, <1>5, <1>10 DEF SweepInv, TypeOK, WaitsFit
  <1> QED BY <1>7, <1>8, <1>9, <1>11 DEF SweepInv

\* A wait sees a node ready; the wait returns after the last one.
LEMMA WaitKeeps ==
    ASSUME SweepInv, NEW s \in Slots, _wait_for_all_healthy(s) \/ _wait_for_mq_followers_assigned(s)
    PROVE  SweepInv'
  <1>1. /\ session' = session /\ run' = run /\ job' = job /\ old' = old /\ bound' = bound /\ joined' = joined
        /\ proc' = proc /\ nodes' = nodes
    BY DEF _wait_for_all_healthy, _wait_for_mq_followers_assigned, DropFromPending, progress, history
  <1>2. script' = script /\ strategy' = strategy /\ Len(Jobs)' = Len(Jobs)
    BY <1>1, SameJob
  <1>3. /\ phase \in {"health", "head_health", "assigned"} /\ s \in pending /\ s \in Up
        /\ phase = "assigned" => s \in Assigned
    BY DEF _wait_for_all_healthy, _wait_for_mq_followers_assigned, SweepInv, WaitsFit, Up, Assigned, Leftover
  <1>8. Up' = Up /\ Assigned' = Assigned
    BY <1>1, <1>2 DEF Up, Assigned, Leftover
  <1>4. /\ pending # {s} => phase' = phase /\ pending' = pending \ {s}
        /\ pending = {s} =>
             phase' = StepAfter(phase) /\ pending' = IF phase' = "assigned" THEN 1 .. Followers ELSE {}
    BY DEF _wait_for_all_healthy, _wait_for_mq_followers_assigned, DropFromPending
  <1>5. /\ strategy \in Strategies /\ script \in Scripts
        /\ script \in {"lag_demo", "by_hand"} => strategy = "message_queue"
    BY StrategyFacts DEF SweepInv
  <1>6. CASE pending # {s}
    <2>1. TypeOK' /\ StepsFit' /\ NothingSpawned' /\ SpawnedInOrder' /\ AliveIsListed'
      BY <1>1, <1>2, <1>3, <1>4, <1>6 DEF SweepInv, TypeOK, StepsFit, NothingSpawned, SpawnedInOrder, AliveIsListed, Dead
    <2>2. WaitsFit' /\ ReadyBeforeLoad'
      BY <1>1, <1>2, <1>3, <1>4, <1>6, <1>8 DEF SweepInv, WaitsFit, ReadyBeforeLoad
    <2> QED BY <2>1, <2>2 DEF SweepInv
  <1>7. CASE pending = {s}
    <2>1. /\ phase = "health" => phase' = IF strategy = "message_queue" THEN "assigned"
                                          ELSE IF strategy = "leaderless" THEN "load" ELSE "spawn_head"
          /\ phase = "assigned" => strategy = "message_queue" /\ phase' = "spawn_head"
          /\ phase = "head_health" => strategy # "leaderless" /\ phase' = "load"
      BY <1>3, <1>4, <1>7, StepOrder DEF SweepInv, StepsFit
    <2>2. pending' \subseteq Slots /\ (phase' = "assigned" => pending' = 1 .. Followers)
      BY <1>4, <1>7, ClientsAssumption DEF Slots, Last
    <2>3. TypeOK'
      BY <1>1, <1>2, <1>3, <2>1, <2>2 DEF SweepInv, TypeOK, Phases
    <2>4. StepsFit' /\ NothingSpawned' /\ SpawnedInOrder' /\ AliveIsListed'
      BY <1>1, <1>2, <1>3, <2>1 DEF SweepInv, StepsFit, NothingSpawned, SpawnedInOrder, AliveIsListed, Dead
    <2>5. /\ phase = "health" => 1 .. Followers \subseteq Up
          /\ phase = "assigned" => 1 .. Followers \subseteq Up /\ 1 .. Followers \subseteq Assigned
          /\ phase = "head_health" => /\ 1 .. Followers \subseteq Up /\ Last \in Up
                                      /\ strategy = "message_queue" => 1 .. Followers \subseteq Assigned
      BY <1>3, <1>7 DEF SweepInv, WaitsFit
    <2>6. WaitsFit'
      BY <1>1, <1>2, <1>3, <1>8, <2>1, <2>2, <2>5 DEF SweepInv, WaitsFit
    <2>7. \A t \in Slots : t = Last \/ t \in 1 .. Followers
      BY ClientsAssumption DEF Slots, Last
    <2>8. phase' = "load" =>
            /\ ClusterSlots' \subseteq Up'
            /\ strategy' = "message_queue" => 1 .. Followers \subseteq Assigned'
      BY <1>1, <1>2, <1>3, <1>8, <2>1, <2>5, <2>7 DEF ClusterSlots
    <2>9. ReadyBeforeLoad'
      BY <2>8 DEF ReadyBeforeLoad, Up, Assigned
    <2> QED BY <2>3, <2>4, <2>6, <2>9 DEF SweepInv
  <1> QED BY <1>6, <1>7

\* The load, the steps after it, and the ways out of the try block.
LEMMA TryBlockEndKeeps ==
    ASSUME SweepInv, LoadDone \/ QueryLagDone \/ StepRaises \/ Interrupt
    PROVE  SweepInv'
  <1>1. /\ session' = session /\ run' = run /\ job' = job /\ old' = old /\ bound' = bound /\ joined' = joined
        /\ proc' = proc /\ nodes' = nodes /\ pending' \subseteq pending
    BY DEF LoadDone, QueryLagDone, StepRaises, Interrupt, progress, history
  <1>2. script' = script /\ strategy' = strategy /\ Len(Jobs)' = Len(Jobs)
    BY <1>1, SameJob
  <1>3. /\ phase' \in {"stop", "report", "query_lag"}
        /\ phase' = "report" => script \in {"boundary_demo", "lag_demo"}
        /\ phase' = "query_lag" => script = "lag_demo"
    BY StepOrder DEF LoadDone, QueryLagDone, StepRaises, Interrupt, SweepInv, StepsFit
  <1>4. /\ phase # "panes" /\ script # "by_hand"
        /\ "message_queue" \notin SpawnFailures => ~(phase = "spawn" /\ strategy = "message_queue")
    BY DEF LoadDone, QueryLagDone, StepRaises, Interrupt, SweepInv, StepsFit
  <1>5. TypeOK'
    BY <1>1, <1>2, <1>3 DEF SweepInv, TypeOK, Phases
  <1> QED
    BY <1>1, <1>2, <1>3, <1>4, <1>5 DEF SweepInv, StepsFit, NothingSpawned, SpawnedInOrder,
       AliveIsListed, Dead, WaitsFit, ReadyBeforeLoad

\* _stop_all
LEMMA StoppingKeeps ==
    ASSUME SweepInv, StopNode \/ StopReturns \/ GraceExpires
    PROVE  SweepInv'
  <1>1. /\ session' = session /\ run' = run /\ job' = job /\ old' = old /\ bound' = bound /\ joined' = joined
        /\ pending' = pending
    BY DEF StopNode, StopReturns, GraceExpires, progress, history
  <1>2. script' = script /\ strategy' = strategy /\ Len(Jobs)' = Len(Jobs)
    BY <1>1, SameJob
  <1>3. phase \in {"stop", "terminated", "killed"} /\ nodes # <<>> /\ script # "by_hand"
    BY DEF StopNode, StopReturns, GraceExpires, SweepInv, StepsFit
  <1>4. PICK s, q : s = Head(nodes) /\ q = Tail(nodes)
    OBVIOUS
  <1>5. s \in Slots /\ q \in Seq(Slots) /\ Listing(nodes) \subseteq Listing(q) \cup {s}
    BY <1>3, <1>4, TailLists DEF SweepInv, TypeOK
  <1>6. /\ phase' \in {"stop", "terminated", "killed"}
        /\ \/ nodes' = nodes
           \/ nodes' = q /\ proc' = proc /\ proc[s] = "exited" /\ phase' = "stop"
        /\ \/ proc' = proc
           \/ proc[s] # "exited" /\ nodes' = nodes /\ proc' = [proc EXCEPT ![s] = "terminating"]
    BY <1>4 DEF StopNode, StopReturns, GraceExpires
  <1>7. TypeOK'
    BY <1>1, <1>2, <1>5, <1>6 DEF SweepInv, TypeOK, Phases
  <1>8. StepsFit' /\ NothingSpawned' /\ SpawnedInOrder' /\ ReadyBeforeLoad'
    BY <1>1, <1>2, <1>3, <1>6 DEF SweepInv, StepsFit, NothingSpawned, SpawnedInOrder,
       ReadyBeforeLoad
  <1>9. s \in Listing(nodes)
    <2>1. nodes \in Seq(Slots)
      BY DEF SweepInv, TypeOK
    <2>2. s = nodes[1] /\ 1 \in 1 .. Len(nodes)
      BY <1>3, <1>4, <2>1
    <2> QED BY <2>2 DEF Listing
  <1>10. AliveIsListed'
    BY <1>2, <1>3, <1>5, <1>6, <1>9 DEF SweepInv, TypeOK, AliveIsListed, Dead
  <1>11. WaitsFit'
    BY <1>1, <1>2, <1>3, <1>5, <1>6 DEF SweepInv, TypeOK, WaitsFit
  <1> QED BY <1>7, <1>8, <1>10, <1>11 DEF SweepInv

\* Between two scripts, or two configurations of one, nothing runs.
LEMMA BetweenJobs ==
    ASSUME SweepInv, nodes' = <<>>, \A s \in Slots : proc'[s] = "none",
           proc' \in [Slots -> {"none", "starting", "serving", "terminating", "exited"}],
           pending' \subseteq Slots, bound' \subseteq Slots, joined' \subseteq Slots,
           session' = session, run' \in 1 .. Len(session), job' \in 1 .. Len(Jobs)',
           phase' \in {"begin", "report", "over"}, script' = "by_hand" => phase' = "begin"
    PROVE  SweepInv'
  <1>1. TypeOK'
    <2>1. nodes' \in Seq(Slots)
      OBVIOUS
    <2> QED BY <2>1 DEF SweepInv, TypeOK, Phases
  <1> QED
    BY <1>1 DEF SweepInv, StepsFit, NothingSpawned, SpawnedInOrder, AliveIsListed, Dead,
       WaitsFit, ReadyBeforeLoad

\* Where the next script of the session starts, or the session ends.
LEMMA NextScriptFacts ==
    ASSUME SweepInv, NextScript, script # "by_hand"
    PROVE  /\ session' = session /\ run' \in 1 .. Len(session) /\ job' \in 1 .. Len(Jobs)'
           /\ phase' \in {"begin", "over"} /\ (script' = "by_hand" => phase' = "begin")
  <1>1. session' = session /\ Len(session) \in Nat /\ run \in 1 .. Len(session) /\ job \in 1 .. Len(Jobs)
    BY SessionAssumption, LenProperties DEF SweepInv, TypeOK, NextScript
  <1>2. CASE run < Len(session)
    <2>1. Len(Jobs)' \in Nat \ {0}
      BY JobsOfScript DEF Jobs
    <2>2. phase' = "begin" /\ run' = run + 1 /\ job' = 1
      BY <1>2 DEF NextScript
    <2> QED BY <1>1, <1>2, <2>1, <2>2
  <1>3. CASE ~(run < Len(session))
    <2>1. phase' = "over" /\ run' = run /\ job' = job
      BY <1>3 DEF NextScript
    <2>2. script' = script /\ Len(Jobs)' = Len(Jobs)
      BY <1>1, <2>1, SameJob
    <2> QED BY <1>1, <2>1, <2>2
  <1> QED BY <1>2, <1>3

\* The finally block is done.
LEMMA JobEndsKeeps ==
    ASSUME SweepInv, JobEnds
    PROVE  SweepInv'
  <1>1. /\ phase = "stop" /\ nodes = <<>> /\ script # "by_hand"
        /\ nodes' = nodes /\ pending' = pending /\ bound' = {} /\ joined' = {}
        /\ proc' = [s \in Slots |-> "none"]
    BY DEF JobEnds, LetGo, SweepInv, StepsFit
  <1>3. /\ session' = session /\ run' \in 1 .. Len(session) /\ job' \in 1 .. Len(Jobs)'
        /\ phase' \in {"begin", "report", "over"} /\ (script' = "by_hand" => phase' = "begin")
    <2>1. CASE script = "run_comparison" /\ ~unwinding
      <3>1. session' = session /\ run' = run
        BY <2>1 DEF JobEnds
      <3>2. script' = script /\ Len(Jobs)' = Len(Jobs)
        BY <3>1 DEF script, Jobs
      <3>3. Len(Jobs) \in Nat /\ job \in 1 .. Len(Jobs) /\ run \in 1 .. Len(session)
        BY JobsOfScript DEF Jobs, SweepInv, TypeOK
      <3>4. \/ job < Len(Jobs) /\ job' = job + 1 /\ phase' = "begin"
            \/ job' = job /\ phase' = "report"
        BY <2>1 DEF JobEnds
      <3> QED BY <2>1, <3>1, <3>2, <3>3, <3>4
    <2>2. CASE ~(script = "run_comparison" /\ ~unwinding)
      <3>1. NextScript
        BY <2>2 DEF JobEnds
      <3> QED BY <1>1, <3>1, NextScriptFacts
    <2> QED BY <2>1, <2>2
  <1> QED BY <1>1, <1>3, BetweenJobs DEF SweepInv, TypeOK

\* An exception leaves _stop_all.
LEMMA StopAllRaisesKeeps ==
    ASSUME SweepInv, KillUnanswered \/ SecondInterrupt
    PROVE  SweepInv'
  <1>1. phase \in {"terminated", "killed"} /\ script # "by_hand" /\ StopAllRaises
    BY DEF KillUnanswered, SecondInterrupt, SweepInv, StepsFit
  <1>2. /\ nodes' = <<>> /\ pending' = pending /\ bound' = {} /\ joined' = {}
        /\ proc' = [s \in Slots |-> "none"] /\ NextScript
    BY <1>1 DEF StopAllRaises, LetGo
  <1> QED BY <1>1, <1>2, NextScriptFacts, BetweenJobs DEF SweepInv, TypeOK

\* A section of the report is written.
LEMMA WriteSectionKeeps ==
    ASSUME SweepInv, WriteSection
    PROVE  SweepInv'
  <1>1. /\ phase = "report" /\ script # "by_hand"
        /\ nodes' = nodes /\ pending' = pending /\ proc' = proc
        /\ bound' = bound /\ joined' = joined /\ old' = old
    BY DEF WriteSection, SweepInv, StepsFit, history
  <1>2. \/ UNCHANGED <<progress, phase>>
        \/ script = "run_comparison" /\ NextScript
        \/ script # "run_comparison" /\ phase' = "stop" /\ UNCHANGED progress
    BY DEF WriteSection
  <1>3. CASE script = "run_comparison" /\ NextScript
    <2>1. nodes = <<>> /\ \A s \in Slots : proc[s] = "none"
      BY <1>1, <1>3 DEF SweepInv, NothingSpawned
    <2> QED BY <1>1, <1>3, <2>1, NextScriptFacts, BetweenJobs DEF SweepInv, TypeOK
  <1>4. CASE UNCHANGED progress /\ (phase' = phase \/ (phase' = "stop" /\ script # "run_comparison"))
    <2>1. session' = session /\ run' = run /\ job' = job
      BY <1>4 DEF progress
    <2>2. script' = script /\ strategy' = strategy /\ Len(Jobs)' = Len(Jobs)
      BY <2>1, SameJob
    <2> QED
      BY <1>1, <1>4, <2>1, <2>2 DEF SweepInv, TypeOK, Phases, StepsFit, NothingSpawned, SpawnedInOrder, AliveIsListed, Dead, WaitsFit, ReadyBeforeLoad
  <1> QED BY <1>2, <1>3, <1>4

\* The steps of the nodes and of the broker.
LEMMA OthersKeep ==
    ASSUME SweepInv,
           \/ \E s \in Slots : NodeAdmin(s) \/ NodeServes(s) \/ NodeFetchesMetadata(s) \/ NodeExits(s)
           \/ \E s \in Slots : LeftoverMakesTopic(s)
           \/ DeletionEnds
    PROVE  SweepInv'
  <1>1. /\ bound \subseteq Slots /\ joined \subseteq Slots
        /\ \A s \in Slots : proc[s] = "serving" => s \in bound
        /\ proc \in [Slots -> {"none", "starting", "serving", "terminating", "exited"}]
    BY DEF SweepInv, TypeOK, WaitsFit
  <1>2. ASSUME UNCHANGED <<others, history, proc>>
        PROVE  SweepInv'
    <2>1. 1 \in Slots
      BY ClientsAssumption DEF Slots, Last
    <2>2. UNCHANGED <<others, old>> /\ bound' = bound /\ joined' = joined /\ proc' = proc
      BY <1>2 DEF history
    <2> QED BY <1>1, <2>1, <2>2, NodeStepKeeps
  <1>3. ASSUME NEW s \in Slots, NodeServes(s)
        PROVE  SweepInv'
    <2>1. /\ UNCHANGED <<others, old>> /\ joined' = joined /\ ~Dead(s)
          /\ \/ proc' = [proc EXCEPT ![s] = "serving"] /\ bound' = bound \cup {s}
             \/ proc' = [proc EXCEPT ![s] = "exited"] /\ bound' = bound
      BY <1>3 DEF NodeServes, Dead
    <2> QED BY <1>1, <2>1, NodeStepKeeps
  <1>4. ASSUME NEW s \in Slots, NodeFetchesMetadata(s)
        PROVE  SweepInv'
    <2>1. /\ UNCHANGED <<others, old>> /\ proc' = proc /\ bound' = bound
          /\ joined' = joined \/ joined' = joined \cup {s}
      BY <1>4 DEF NodeFetchesMetadata
    <2> QED BY <1>1, <2>1, NodeStepKeeps
  <1>5. ASSUME NEW s \in Slots, NodeExits(s)
        PROVE  SweepInv'
    <2>1. /\ UNCHANGED <<others, old>> /\ bound' = bound /\ joined' = joined /\ ~Dead(s)
          /\ proc' = [proc EXCEPT ![s] = "exited"]
      BY <1>5 DEF NodeExits, history
    <2> QED BY <1>1, <2>1, NodeStepKeeps
  <1>6. ASSUME NEW s \in Slots, NodeAdmin(s)
        PROVE  SweepInv'
    BY <1>2, <1>6 DEF NodeAdmin
  <1>7. CASE DeletionEnds
    BY <1>2, <1>7 DEF DeletionEnds
  <1>8. ASSUME NEW s \in Slots, LeftoverMakesTopic(s)
        PROVE  SweepInv'
    BY <1>2, <1>8 DEF LeftoverMakesTopic
  <1> QED BY <1>3, <1>4, <1>5, <1>6, <1>7, <1>8

\* Every step keeps the invariant of the processes and waits.
LEMMA SweepInvKept ==
    ASSUME SweepInv, [Next]_vars
    PROVE  SweepInv'
  <1>1. CASE UNCHANGED vars
    <2>1. /\ session' = session /\ run' = run /\ job' = job /\ phase' = phase /\ proc' = proc /\ nodes' = nodes
          /\ pending' = pending /\ bound' = bound /\ joined' = joined /\ old' = old
      BY <1>1 DEF vars
    <2>2. script' = script /\ strategy' = strategy /\ Len(Jobs)' = Len(Jobs)
      BY <2>1, SameJob
    <2> QED
      BY <2>1, <2>2 DEF SweepInv, TypeOK, StepsFit, NothingSpawned, SpawnedInOrder,
         AliveIsListed, Dead, WaitsFit, ReadyBeforeLoad, ClusterSlots, Up, Assigned, Leftover
  <1>2. CASE Script \/ Interrupt \/ SecondInterrupt
    BY <1>2, BeginningKeeps, SpawnFollowerKeeps, SpawnLastKeeps, WaitKeeps, TryBlockEndKeeps, StoppingKeeps,
       JobEndsKeeps, StopAllRaisesKeeps, WriteSectionKeeps DEF Script
  <1>3. CASE ~(Script \/ Interrupt \/ SecondInterrupt) /\ Next
    BY <1>3, OthersKeep DEF Next
  <1> QED BY <1>1, <1>2, <1>3

\* It holds at first.
LEMMA SweepInvInit ==
    ASSUME Init
    PROVE  SweepInv
  <1>1. /\ session \in Sessions /\ run = 1 /\ job = 1 /\ phase = "begin" /\ nodes = <<>> /\ pending = {}
        /\ bound = {} /\ joined = {} /\ old = {} /\ proc = [s \in Slots |-> "none"]
    BY DEF Init
  <1>2. Len(session) \in Nat \ {0}
    BY <1>1, SessionAssumption, EmptySeq, LenProperties
  <1>3. Len(Jobs) \in Nat \ {0}
    BY JobsOfScript DEF Jobs
  <1>4. TypeOK
    BY <1>1, <1>2, <1>3 DEF TypeOK, Phases
  <1> QED
    BY <1>1, <1>4 DEF SweepInv, StepsFit, NothingSpawned, SpawnedInOrder, AliveIsListed, Dead,
       WaitsFit, ReadyBeforeLoad

\* It is an invariant of the specification.
LEMMA SweepInvariant == Spec => []SweepInv
  <1>1. Init => SweepInv
    BY SweepInvInit
  <1>2. SweepInv /\ [Next]_vars => SweepInv'
    BY SweepInvKept
  <1> QED BY <1>1, <1>2, PTL DEF Spec

\* Only what ends a configuration can leave a process running.
LEMMA WhoLeavesRunning ==
    ASSUME [Next]_vars
    PROVE  old' = old \/ JobEnds \/ KillUnanswered \/ SecondInterrupt
  <1>1. CASE UNCHANGED vars
    BY <1>1 DEF vars
  <1>2. CASE BeginJob \/ StartByHand \/ ResetStep \/ ResetReturns \/ SpawnFollower \/ SpawnLast
    BY <1>2 DEF BeginJob, StartByHand, ResetStep, ResetReturns, SpawnFollower, SpawnLast, history
  <1>3. CASE \E s \in Slots : _wait_for_all_healthy(s) \/ _wait_for_mq_followers_assigned(s)
    BY <1>3 DEF _wait_for_all_healthy, _wait_for_mq_followers_assigned, DropFromPending, history
  <1>4. CASE LoadDone \/ QueryLagDone \/ StepRaises \/ Interrupt
    BY <1>4 DEF LoadDone, QueryLagDone, StepRaises, Interrupt, history
  <1>5. CASE StopNode \/ StopReturns \/ GraceExpires \/ WriteSection
    BY <1>5 DEF StopNode, StopReturns, GraceExpires, WriteSection, history
  <1>6. CASE \E s \in Slots : NodeAdmin(s) \/ NodeServes(s) \/ NodeFetchesMetadata(s) \/ NodeExits(s)
    BY <1>6 DEF NodeAdmin, NodeServes, NodeFetchesMetadata, NodeExits, history
  <1>7. CASE (\E s \in Slots : LeftoverMakesTopic(s)) \/ DeletionEnds
    BY <1>7 DEF LeftoverMakesTopic, DeletionEnds, history
  <1> QED BY <1>1, <1>2, <1>3, <1>4, <1>5, <1>6, <1>7 DEF Next, Script

\* run_comparison.py and the demos, as long as Popen does not raise while the
\* followers of a message-queue cluster are collected: whatever step of a try block
\* raises, is interrupted or hangs, its processes are stopped before the next
\* configuration or script, unless an exception leaves one of the waits of
\* _stop_all itself.
THEOREM NothingIsLeftRunning ==
    ASSUME "message_queue" \notin SpawnFailures
    PROVE  Spec => NothingLeftRunning
  <1>1. ASSUME SweepInv, [Next]_vars
        PROVE  old' # old => phase \in {"terminated", "killed"}
    <2>1. CASE JobEnds
      <3>1. phase = "stop" /\ nodes = <<>> /\ old' = old \cup {<<strategy, s>> : s \in {t \in Slots : ~Dead(t)}}
        BY <2>1 DEF JobEnds, LetGo
      <3>2. Listing(nodes) = {}
        BY <3>1 DEF Listing
      <3>3. {t \in Slots : ~Dead(t)} = {}
        BY <1>1, <3>1, <3>2 DEF SweepInv, AliveIsListed
      <3> QED BY <3>1, <3>3
    <2>2. CASE KillUnanswered \/ SecondInterrupt
      BY <2>2 DEF KillUnanswered, SecondInterrupt
    <2> QED BY <1>1, <2>1, <2>2, WhoLeavesRunning
  <1> QED BY <1>1, SweepInvariant, PTL DEF Spec, NothingLeftRunning

\* run_comparison.py, _wait_for_all_healthy and _wait_for_mq_followers_assigned: a
\* cluster that is loaded is the script's own, up and, with a message queue,
\* assigned, on every port that no process left running may hold.
THEOREM ReadyBeforeEveryLoad == Spec => []ReadyBeforeLoad
  <1>1. SweepInv => ReadyBeforeLoad
    BY DEF SweepInv
  <1> QED BY <1>1, SweepInvariant, PTL

-----------------------------------------------------------------------------
(* The topic                                                               *)

\* The script is no node.
LEMMA DriverIsNoNode == Driver \in Clients /\ Driver \notin Slots /\ Slots \subseteq Clients
  BY ClientsAssumption DEF Driver, Slots, Last

\* ensure_topic_exists as a node calls it: a topic that is listed is left alone,
\* and a call returns only with the topic listed or made as configured.
LEMMA EnsureEffect ==
    ASSUME AdminTypeOK, NEW c \in Clients, call[c] \in NodeCalls, AdminStep(c)
    PROVE  \E where \in NodeCalls :
             /\ call' = [call EXCEPT ![c] = where]
             /\ topic' = topic \/ (~Listed /\ topic' = NewTopic(NumPartitions))
             /\ where = "returned" => Listed \/ topic' = NewTopic(NumPartitions)
  <1>1. CASE EnsureLists(c)
    BY <1>1 DEF EnsureLists, Goto, NodeCalls
  <1>2. CASE EnsureCreates(c)
    <2>1. PICK code \in {IF Listed THEN "exists" ELSE "ok", "other"} :
            /\ topic' = IF code = "ok" THEN NewTopic(NumPartitions) ELSE topic
            /\ _raise_on_topic_errors(c, code, "exists", "returned")
      BY <1>2 DEF EnsureCreates
    <2>2. CASE code = "ok"
      BY <2>1, <2>2 DEF _raise_on_topic_errors, Goto, NodeCalls
    <2>3. CASE code = "exists"
      BY <2>1, <2>3 DEF _raise_on_topic_errors, Goto, NodeCalls
    <2>4. CASE code = "other"
      BY <2>1, <2>4 DEF _raise_on_topic_errors, Goto, NodeCalls
    <2> QED BY <2>1, <2>2, <2>3, <2>4
  <1>3. ~ResetLists(c) /\ ~ResetDeletes(c) /\ ~ResetPolls(c)
    BY DEF ResetLists, ResetDeletes, ResetPolls, NodeCalls
  <1>4. CASE BrokerUnreachable(c)
    BY <1>4 DEF BrokerUnreachable, Goto, NodeCalls
  <1> QED BY <1>1, <1>2, <1>3, <1>4 DEF AdminStep

\* reset_topic, with nobody else at the broker: it creates the topic only after it
\* is gone, and returns only with the topic it has created.
LEMMA ResetEffect ==
    ASSUME AdminTypeOK, AdminStep(Driver),
           call[Driver] \in {"ensure_list", "ensure_create"} => topic.state = "absent"
    PROVE  /\ call'[Driver] \in {"ensure_list", "ensure_create"} => topic'.state = "absent"
           /\ call'[Driver] = "returned" => topic' = NewTopic(NumPartitions)
           /\ \A c \in Clients \ {Driver} : call'[c] = call[c]
  <1>1. Driver \in Clients /\ call \in [Clients -> Calls]
    BY ClientsAssumption DEF AdminTypeOK
  <1>2. CASE EnsureLists(Driver)
    BY <1>1, <1>2 DEF EnsureLists, Goto, Listed
  <1>3. CASE EnsureCreates(Driver)
    <2>1. PICK code \in {IF Listed THEN "exists" ELSE "ok", "other"} :
            /\ topic' = IF code = "ok" THEN NewTopic(NumPartitions) ELSE topic
            /\ _raise_on_topic_errors(Driver, code, "exists", "returned")
      BY <1>3 DEF EnsureCreates
    <2>2. ~Listed
      BY <1>3 DEF EnsureCreates, Listed
    <2>3. CASE code = "ok"
      BY <1>1, <2>1, <2>3 DEF _raise_on_topic_errors, Goto
    <2>4. CASE code = "other"
      BY <1>1, <2>1, <2>4 DEF _raise_on_topic_errors, Goto
    <2> QED BY <2>1, <2>2, <2>3, <2>4
  <1>4. CASE ResetLists(Driver)
    BY <1>1, <1>4 DEF ResetLists, Goto, Listed
  <1>5. CASE ResetDeletes(Driver)
    <2>1. PICK code \in {IF topic.state = "live" THEN "ok" ELSE "unknown", "other"} :
            _raise_on_topic_errors(Driver, code, "unknown", "reset_poll")
      BY <1>5 DEF ResetDeletes
    <2>2. CASE code \in {"ok", "unknown"}
      BY <1>1, <2>1, <2>2 DEF _raise_on_topic_errors, Goto
    <2>3. CASE code = "other"
      BY <1>1, <2>1, <2>3 DEF _raise_on_topic_errors, Goto
    <2> QED BY <2>1, <2>2, <2>3
  <1>6. CASE ResetPolls(Driver)
    BY <1>1, <1>6 DEF ResetPolls, Goto, Listed
  <1>7. CASE BrokerUnreachable(Driver)
    BY <1>1, <1>7 DEF BrokerUnreachable, Goto
  <1> QED BY <1>2, <1>3, <1>4, <1>5, <1>6, <1>7 DEF AdminStep

\* A topic that is created as configured is up.
LEMMA NewTopicIsUp ==
    ASSUME topic' = NewTopic(NumPartitions)
    PROVE  TopicIsUp' /\ ~topic'.used
  BY DEF TopicIsUp, NewTopic

\* A step of a script within its configuration that leaves the topic as it is.
LEMMA QuietStep ==
    ASSUME TopicInv, UNCHANGED <<session, run, job, topic>>, script # "by_hand", NodesOnlyEnsure',
           phase' # "reset", phase' \in ClusterPhases => phase \in ClusterPhases,
           \/ phase \in ClusterPhases \/ nodes # <<>>
           \/ nodes' = nodes /\ \A s \in Slots : proc'[s] # "none" => proc[s] # "none"
    PROVE  TopicInv'
  <1>1. script' = script /\ strategy' = strategy /\ topic' = topic
    BY SameJob
  <1>2. TopicIsUp' = TopicIsUp
    BY <1>1 DEF TopicIsUp
  <1>3. ResetAchieves' /\ ByHandIsFirst'
    BY <1>1 DEF ResetAchieves, ByHandIsFirst
  <1>4. TopicStaysUp'
    BY <1>1, <1>2 DEF TopicInv, TopicStaysUp
  <1> QED BY <1>3, <1>4 DEF TopicInv

\* A script enters its try block, or nodes are started by hand.
LEMMA TopicAtBegin ==
    ASSUME SweepInv, AdminTypeOK, TopicInv, BeginJob \/ StartByHand
    PROVE  TopicInv'
  <1>1. session' = session /\ run' = run /\ job' = job /\ topic' = topic /\ phase = "begin"
    BY DEF BeginJob, StartByHand, progress
  <1>2. script' = script /\ strategy' = strategy
    BY <1>1, SameJob
  <1>3. TopicIsUp' = TopicIsUp
    BY <1>1 DEF TopicIsUp
  <1>4. nodes = <<>> /\ \A s \in Slots : proc[s] = "none"
    BY <1>1 DEF SweepInv, NothingSpawned
  <1>5. CASE BeginJob
    <2>1. /\ proc' = proc /\ nodes' = nodes /\ script # "by_hand" /\ phase' = Steps[1]
          /\ call' = [call EXCEPT ![Driver] = IF Steps[1] = "reset" THEN "reset_list" ELSE "idle"]
      BY <1>5 DEF BeginJob
    <2>2. Steps[1] = IF strategy = "message_queue" THEN "reset" ELSE "spawn"
      BY StepOrder DEF SweepInv
    <2>3. NodesOnlyEnsure' /\ call'[Driver] \in {"reset_list", "idle"}
      BY <2>1, DriverIsNoNode DEF TopicInv, NodesOnlyEnsure, AdminTypeOK
    <2>4. ResetAchieves' /\ ByHandIsFirst'
      BY <1>2, <2>1, <2>3 DEF ResetAchieves, ByHandIsFirst
    <2>5. TopicStaysUp'
      BY <1>2, <1>4, <2>1, <2>2 DEF TopicStaysUp, ClusterPhases
    <2> QED BY <2>3, <2>4, <2>5 DEF TopicInv
  <1>6. CASE StartByHand
    <2>1. /\ phase' = "panes" /\ script = "by_hand" /\ proc' = [s \in Slots |-> "starting"]
          /\ call' = [c \in Clients |-> IF c = Driver THEN "idle" ELSE "ensure_list"]
      BY <1>6 DEF StartByHand
    <2>2. \A s \in Slots : call'[s] = "ensure_list" /\ proc'[s] = "starting"
      BY <2>1, DriverIsNoNode
    <2>3. topic.state = "absent" \/ TopicIsUp
      BY <2>1 DEF TopicInv, ByHandIsFirst
    <2>4. ByHandIsFirst'
      BY <1>1, <1>3, <2>2, <2>3 DEF ByHandIsFirst
    <2>5. NodesOnlyEnsure' /\ ResetAchieves' /\ TopicStaysUp'
      BY <1>2, <2>1, <2>2 DEF NodesOnlyEnsure, NodeCalls, ResetAchieves, TopicStaysUp
    <2> QED BY <2>4, <2>5 DEF TopicInv
  <1> QED BY <1>5, <1>6

\* "await reset_topic(mq_config)"
LEMMA TopicAtReset ==
    ASSUME SweepInv, AdminTypeOK, TopicInv, ResetStep \/ ResetReturns
    PROVE  TopicInv'
  <1>1. session' = session /\ run' = run /\ job' = job /\ phase = "reset" /\ proc' = proc /\ nodes' = nodes
    BY DEF ResetStep, ResetReturns, progress
  <1>2. script' = script /\ strategy' = strategy /\ script # "by_hand" /\ strategy = "message_queue"
    BY <1>1, SameJob DEF SweepInv, StepsFit
  <1>3. nodes' = <<>> /\ \A s \in Slots : proc'[s] = "none"
    BY <1>1 DEF SweepInv, NothingSpawned
  <1>4. CASE ResetStep
    <2>1. /\ phase' = "reset"
          /\ call'[Driver] \in {"ensure_list", "ensure_create"} => topic'.state = "absent"
          /\ call'[Driver] = "returned" => topic' = NewTopic(NumPartitions)
          /\ \A c \in Clients \ {Driver} : call'[c] = call[c]
      BY <1>1, <1>4, ResetEffect DEF ResetStep, TopicInv, ResetAchieves
    <2>2. ResetAchieves'
      BY <2>1, NewTopicIsUp DEF ResetAchieves
    <2>3. NodesOnlyEnsure'
      BY <2>1, DriverIsNoNode DEF TopicInv, NodesOnlyEnsure
    <2>4. TopicStaysUp' /\ ByHandIsFirst'
      BY <1>2, <1>3, <2>1 DEF TopicStaysUp, ByHandIsFirst, ClusterPhases
    <2> QED BY <2>2, <2>3, <2>4 DEF TopicInv
  <1>5. CASE ResetReturns
    <2>1. phase' = "spawn" /\ topic' = topic /\ call' = [call EXCEPT ![Driver] = "idle"] /\ call[Driver] = "returned"
      BY <1>2, <1>5, StepOrder DEF ResetReturns, SweepInv
    <2>2. TopicIsUp /\ ~topic.used
      BY <1>1, <2>1 DEF TopicInv, ResetAchieves
    <2>3. NodesOnlyEnsure'
      BY <2>1, DriverIsNoNode DEF TopicInv, NodesOnlyEnsure, AdminTypeOK
    <2>4. TopicIsUp' /\ ~topic'.used
      BY <2>1, <2>2 DEF TopicIsUp
    <2>5. ResetAchieves' /\ TopicStaysUp' /\ ByHandIsFirst'
      BY <1>2, <2>1, <2>4 DEF ResetAchieves, TopicStaysUp, ByHandIsFirst
    <2> QED BY <2>3, <2>5 DEF TopicInv
  <1> QED BY <1>4, <1>5

\* The steps between reset_topic and the end of the load test, and those of _stop_all.
LEMMA TopicAtQuietSteps ==
    ASSUME SweepInv, AdminTypeOK, TopicInv,
           \/ SpawnFollower \/ SpawnLast
           \/ \E s \in Slots : _wait_for_all_healthy(s) \/ _wait_for_mq_followers_assigned(s)
           \/ QueryLagDone \/ StopNode \/ StopReturns \/ GraceExpires
    PROVE  TopicInv'
  <1>1. NodesOnlyEnsure
    BY DEF TopicInv
  <1>2. ASSUME NEW s, _spawn(s)
        PROVE  NodesOnlyEnsure'
    BY <1>1, <1>2, DriverIsNoNode DEF NodesOnlyEnsure, _spawn, NodeCalls, AdminTypeOK
  <1>3. ASSUME call' = call
        PROVE  NodesOnlyEnsure'
    BY <1>1, <1>3 DEF NodesOnlyEnsure
  <1>4. CASE SpawnFollower
    <2>1. /\ UNCHANGED <<session, run, job, topic>> /\ phase = "spawn" /\ (phase' = "spawn" \/ phase' = "health")
          /\ script # "by_hand"
      BY <1>4, StepOrder DEF SpawnFollower, progress, SweepInv, StepsFit
    <2>2. NodesOnlyEnsure'
      BY <1>2, <1>4 DEF SpawnFollower
    <2> QED BY <2>1, <2>2, QuietStep DEF ClusterPhases
  <1>5. CASE SpawnLast
    <2>1. /\ UNCHANGED <<session, run, job, topic>> /\ phase = "spawn_head" /\ phase' = "head_health"
          /\ script # "by_hand"
      BY <1>5, StepOrder DEF SpawnLast, progress, SweepInv, StepsFit
    <2>2. NodesOnlyEnsure'
      BY <1>2, <1>5 DEF SpawnLast
    <2> QED BY <2>1, <2>2, QuietStep DEF ClusterPhases
  <1>6. ASSUME NEW s \in Slots, _wait_for_all_healthy(s) \/ _wait_for_mq_followers_assigned(s)
        PROVE  TopicInv'
    <2>1. /\ UNCHANGED <<session, run, job, topic>> /\ call' = call /\ phase \in {"health", "head_health", "assigned"}
          /\ phase' = phase \/ phase' = StepAfter(phase)
      BY <1>6 DEF _wait_for_all_healthy, _wait_for_mq_followers_assigned, DropFromPending, progress, adminVars
    <2>2. phase' # "reset" /\ script # "by_hand"
      BY <2>1, StepOrder DEF SweepInv, StepsFit
    <2> QED BY <1>3, <2>1, <2>2, QuietStep DEF ClusterPhases
  <1>7. CASE QueryLagDone
    <2>1. /\ UNCHANGED <<session, run, job, topic>> /\ call' = call /\ proc' = proc /\ nodes' = nodes
          /\ phase' = "report"
          /\ script # "by_hand"
      BY <1>7, StepOrder DEF QueryLagDone, progress, adminVars, SweepInv, StepsFit
    <2> QED BY <1>3, <2>1, QuietStep DEF ClusterPhases
  <1>8. CASE StopNode \/ StopReturns \/ GraceExpires
    <2>1. /\ UNCHANGED <<session, run, job, topic>> /\ call' = call /\ nodes # <<>>
          /\ phase' \in {"stop", "terminated", "killed"} /\ script # "by_hand"
      BY <1>8 DEF StopNode, StopReturns, GraceExpires, progress, adminVars, SweepInv, StepsFit
    <2> QED BY <1>3, <2>1, QuietStep DEF ClusterPhases
  <1> QED BY <1>4, <1>5, <1>6, <1>7, <1>8

\* The load test ends, or a step raises or is cancelled: the topic is used, and as up as it was.
LEMMA TopicAtTryBlockEnd ==
    ASSUME SweepInv, AdminTypeOK, TopicInv, LoadDone \/ StepRaises \/ Interrupt
    PROVE  TopicInv'
  <1>1. UNCHANGED <<session, run, job>> /\ proc' = proc /\ nodes' = nodes /\ topic' = TopicAfterLoad
    BY DEF LoadDone, StepRaises, Interrupt, progress
  <1>2. script' = script /\ strategy' = strategy
    BY <1>1, SameJob
  <1>3. phase' \notin ClusterPhases /\ phase' # "reset"
    BY StepOrder DEF LoadDone, StepRaises, Interrupt, SweepInv, ClusterPhases
  <1>4. script # "by_hand"
    BY DEF LoadDone, StepRaises, Interrupt, SweepInv, StepsFit
  <1>5. TopicIsUp => TopicIsUp'
    BY <1>1 DEF TopicIsUp, TopicAfterLoad, AdminTypeOK
  <1>6. NodesOnlyEnsure'
    <2>1. call' = call \/ call' = [call EXCEPT ![Driver] = "idle"]
      BY DEF LoadDone, StepRaises, Interrupt
    <2> QED BY <2>1, DriverIsNoNode DEF TopicInv, NodesOnlyEnsure, AdminTypeOK
  <1>7. TopicStaysUp'
    BY <1>1, <1>2, <1>3, <1>5 DEF TopicInv, TopicStaysUp
  <1> QED BY <1>2, <1>3, <1>4, <1>6, <1>7 DEF TopicInv, ResetAchieves, ByHandIsFirst

\* Between two configurations or scripts, and while a report is written.
LEMMA TopicBetweenJobs ==
    ASSUME SweepInv, TopicInv, ByHandOnlyFirst, JobEnds \/ WriteSection \/ KillUnanswered \/ SecondInterrupt
    PROVE  TopicInv'
  <1>1. /\ topic' = topic /\ script # "by_hand"
        /\ JobEnds \/ WriteSection => phase \in {"stop", "report"} /\ nodes' = nodes
    BY DEF JobEnds, WriteSection, KillUnanswered, SecondInterrupt, StopAllRaises, SweepInv, StepsFit, adminVars
  <1>2. NodesOnlyEnsure'
    <2>1. CASE JobEnds \/ KillUnanswered \/ SecondInterrupt
      BY <2>1, DriverIsNoNode DEF JobEnds, KillUnanswered, SecondInterrupt, StopAllRaises, LetGo, NodesOnlyEnsure,
         NodeCalls
    <2>2. CASE WriteSection
      BY <2>2 DEF WriteSection, adminVars, TopicInv, NodesOnlyEnsure
    <2> QED BY <2>1, <2>2
  <1>3. ASSUME NextScript
        PROVE  script' # "by_hand" /\ phase' \in {"begin", "over"}
    <2>1. session' = session /\ session \in Sessions /\ Len(session) \in Nat /\ run \in 1 .. Len(session)
      BY <1>3, SessionAssumption, LenProperties DEF NextScript, SweepInv, TypeOK
    <2>2. CASE run < Len(session)
      <3>1. run' = run + 1 /\ phase' = "begin"
        BY <1>3, <2>2 DEF NextScript
      <3>2. run + 1 \in 2 .. Len(session)
        BY <2>1, <2>2
      <3> QED BY <2>1, <3>1, <3>2 DEF script, ByHandOnlyFirst
    <2>3. CASE ~(run < Len(session))
      BY <1>1, <1>3, <2>1, <2>3 DEF NextScript, script
    <2> QED BY <2>2, <2>3
  <1>4. ASSUME nodes' = <<>>, \A s \in Slots : proc'[s] = "none",
               script' # "by_hand", phase' \in {"begin", "report", "over"}
        PROVE  TopicInv'
    BY <1>2, <1>4 DEF TopicInv, ResetAchieves, TopicStaysUp, ByHandIsFirst, ClusterPhases
  <1>5. CASE JobEnds
    <2>1. nodes' = <<>> /\ \A s \in Slots : proc'[s] = "none"
      BY <1>1, <1>5 DEF JobEnds, LetGo
    <2>2. CASE script = "run_comparison" /\ ~unwinding
      <3>1. session' = session /\ run' = run /\ phase' \in {"begin", "report"}
        BY <1>5, <2>2 DEF JobEnds
      <3>2. script' = script
        BY <3>1 DEF script
      <3> QED BY <1>1, <1>4, <2>1, <3>1, <3>2
    <2>3. CASE ~(script = "run_comparison" /\ ~unwinding)
      <3>1. NextScript
        BY <1>5, <2>3 DEF JobEnds
      <3> QED BY <1>3, <1>4, <2>1, <3>1
    <2> QED BY <2>2, <2>3
  <1>6. CASE WriteSection
    <2>1. phase = "report" /\ proc' = proc /\ nodes' = nodes
      BY <1>6 DEF WriteSection
    <2>2. CASE script = "run_comparison" /\ NextScript
      BY <1>1, <1>3, <1>4, <2>1, <2>2 DEF SweepInv, NothingSpawned
    <2>3. CASE UNCHANGED progress /\ (phase' = phase \/ phase' = "stop")
      BY <1>1, <1>2, <2>1, <2>3, QuietStep DEF progress, ClusterPhases
    <2> QED BY <1>6, <2>2, <2>3 DEF WriteSection
  <1>7. CASE KillUnanswered \/ SecondInterrupt
    <2>1. nodes' = <<>> /\ (\A s \in Slots : proc'[s] = "none") /\ NextScript
      BY <1>7 DEF KillUnanswered, SecondInterrupt, StopAllRaises, LetGo
    <2> QED BY <1>3, <1>4, <2>1
  <1> QED BY <1>5, <1>6, <1>7

\* The steps of the nodes and of the broker.
LEMMA TopicAtNodeSteps ==
    ASSUME SweepInv, AdminTypeOK, TopicInv, NoLeftovers,
           \/ \E s \in Slots : NodeAdmin(s) \/ NodeServes(s) \/ NodeFetchesMetadata(s) \/ NodeExits(s)
           \/ \E s \in Slots : LeftoverMakesTopic(s)
           \/ DeletionEnds
    PROVE  TopicInv'
  <1>1. session' = session /\ run' = run /\ job' = job /\ phase' = phase /\ nodes' = nodes
    BY DEF NodeAdmin, NodeServes, NodeFetchesMetadata, NodeExits, LeftoverMakesTopic, DeletionEnds, others, progress
  <1>2. script' = script /\ strategy' = strategy /\ (script = "by_hand" => strategy = "message_queue")
    BY <1>1, SameJob, StrategyFacts DEF SweepInv
  <1>3. ASSUME NEW s \in Slots, proc[s] # "none"
        PROVE  phase # "reset" /\ (strategy = "message_queue" /\ script # "by_hand" => TopicIsUp)
    BY <1>3 DEF SweepInv, NothingSpawned, TopicInv, TopicStaysUp
  <1>4. TopicIsUp => Listed
    BY DEF TopicIsUp, Listed
  <1>5. topic' = topic => (TopicIsUp' = TopicIsUp)
    BY DEF TopicIsUp
  <1>6. ASSUME NEW s \in Slots, NodeAdmin(s)
        PROVE  TopicInv'
    <2>1. proc[s] = "starting" /\ AdminStep(s) /\ proc' = proc
      BY <1>6 DEF NodeAdmin
    <2>2. s \in Clients /\ call[s] \in NodeCalls /\ call \in [Clients -> Calls]
      BY DriverIsNoNode DEF TopicInv, NodesOnlyEnsure, AdminTypeOK
    <2>3. PICK where \in NodeCalls :
            /\ call' = [call EXCEPT ![s] = where]
            /\ topic' = topic \/ (~Listed /\ topic' = NewTopic(NumPartitions))
            /\ where = "returned" => Listed \/ topic' = NewTopic(NumPartitions)
      BY <2>1, <2>2, EnsureEffect
    <2>4. NodesOnlyEnsure'
      BY <2>2, <2>3, DriverIsNoNode DEF TopicInv, NodesOnlyEnsure
    <2>5. ResetAchieves'
      BY <1>1, <1>3, <2>1 DEF ResetAchieves
    <2>6. TopicStaysUp'
      <3>1. strategy = "message_queue" /\ script # "by_hand" => topic' = topic
        BY <1>3, <1>4, <2>1, <2>3
      <3> QED BY <1>1, <1>2, <1>5, <2>1, <3>1 DEF TopicInv, TopicStaysUp
    <2>7. ByHandIsFirst'
      <3>1. SUFFICES ASSUME script = "by_hand"
                     PROVE  ByHandIsFirst'
        BY <1>2 DEF ByHandIsFirst
      <3>2. /\ topic.state = "absent" \/ TopicIsUp
            /\ \A t \in Slots : proc[t] = "serving" \/ call[t] = "returned" => TopicIsUp
        BY <3>1 DEF TopicInv, ByHandIsFirst
      <3>3. CASE topic' = NewTopic(NumPartitions)
        BY <3>3, NewTopicIsUp DEF ByHandIsFirst
      <3>4. CASE topic' # NewTopic(NumPartitions)
        <4>1. topic' = topic /\ (where = "returned" => Listed)
          BY <2>3, <3>4
        <4>2. Listed => TopicIsUp
          BY <3>2 DEF Listed
        <4>3. \A t \in Slots : proc'[t] = "serving" \/ call'[t] = "returned" => TopicIsUp
          BY <2>1, <2>2, <2>3, <3>2, <4>1, <4>2, DriverIsNoNode
        <4> QED BY <1>5, <3>2, <4>1, <4>3 DEF ByHandIsFirst
      <3> QED BY <3>3, <3>4
    <2> QED BY <2>4, <2>5, <2>6, <2>7 DEF TopicInv
  <1>7. ASSUME NEW s \in Slots, NodeServes(s)
        PROVE  TopicInv'
    <2>1. /\ proc[s] = "starting" /\ (strategy = "message_queue" => call[s] = "returned")
          /\ proc' = [proc EXCEPT ![s] = "serving"] \/ proc' = [proc EXCEPT ![s] = "exited"]
          /\ topic' = topic /\ call' = call
      BY <1>7 DEF NodeServes, adminVars
    <2>2. NodesOnlyEnsure' /\ ResetAchieves'
      BY <1>1, <1>5, <2>1 DEF TopicInv, NodesOnlyEnsure, ResetAchieves
    <2>3. TopicStaysUp'
      BY <1>1, <1>2, <1>3, <1>5, <2>1 DEF TopicInv, TopicStaysUp
    <2>4. ByHandIsFirst'
      BY <1>2, <1>5, <2>1 DEF TopicInv, ByHandIsFirst, SweepInv, TypeOK
    <2> QED BY <2>2, <2>3, <2>4 DEF TopicInv
  <1>8. ASSUME NEW s \in Slots, NodeFetchesMetadata(s)
        PROVE  TopicInv'
    <2>1. strategy = "message_queue" /\ proc[s] = "serving" /\ proc' = proc /\ call' = call
      BY <1>1, <1>8 DEF NodeFetchesMetadata
    <2>2. TopicIsUp
      BY <1>3, <2>1 DEF TopicInv, ByHandIsFirst
    <2>3. topic' = topic
      BY <1>4, <1>8, <2>2 DEF NodeFetchesMetadata
    <2> QED
      BY <1>1, <1>2, <1>5, <2>1, <2>3 DEF TopicInv, NodesOnlyEnsure, ResetAchieves, TopicStaysUp, ByHandIsFirst
  <1>9. ASSUME NEW s \in Slots, NodeExits(s)
        PROVE  TopicInv'
    <2>1. /\ proc[s] # "none" /\ proc' = [proc EXCEPT ![s] = "exited"] /\ topic' = topic
          /\ call' = [call EXCEPT ![s] = "idle"]
      BY <1>9 DEF NodeExits, Dead
    <2>2. NodesOnlyEnsure'
      BY <2>1, DriverIsNoNode DEF TopicInv, NodesOnlyEnsure, NodeCalls, AdminTypeOK
    <2>3. ResetAchieves' /\ TopicStaysUp'
      BY <1>1, <1>2, <1>3, <1>5, <2>1 DEF TopicInv, ResetAchieves, TopicStaysUp
    <2>4. \A t \in Slots : (proc'[t] = "serving" => proc[t] = "serving") /\ (call'[t] = "returned" => call[t] = "returned")
      BY <2>1, DriverIsNoNode DEF SweepInv, TypeOK, AdminTypeOK
    <2>5. ByHandIsFirst'
      BY <1>2, <1>5, <2>1, <2>4 DEF TopicInv, ByHandIsFirst
    <2> QED BY <2>2, <2>3, <2>5 DEF TopicInv
  <1>10. CASE DeletionEnds
    <2>1. /\ topic.state = "deleting" /\ ~TopicIsUp /\ proc' = proc /\ call' = call
      BY <1>10 DEF DeletionEnds, TopicIsUp
    <2> QED
      BY <1>1, <1>2, <2>1 DEF TopicInv, NodesOnlyEnsure, ResetAchieves, TopicStaysUp, ByHandIsFirst
  <1>11. ASSUME NEW s \in Slots, LeftoverMakesTopic(s)
         PROVE  FALSE
    BY <1>11 DEF LeftoverMakesTopic, NoLeftovers
  <1> QED BY <1>6, <1>7, <1>8, <1>9, <1>10, <1>11

\* What is left running is not forgotten.
LEMMA NoLeftoversBefore ==
    ASSUME [Next]_vars, NoLeftovers'
    PROVE  NoLeftovers
  <1>1. old \subseteq old'
    <2>1. JobEnds \/ KillUnanswered \/ SecondInterrupt => LetGo
      BY DEF JobEnds, KillUnanswered, SecondInterrupt, StopAllRaises
    <2>2. LetGo => old \subseteq old'
      BY DEF LetGo
    <2> QED BY <2>1, <2>2, WhoLeavesRunning
  <1> QED BY <1>1 DEF NoLeftovers

\* Every step keeps the invariant of the topic, as long as nothing is left running.
LEMMA TopicInvKept ==
    ASSUME SweepInv, AdminTypeOK, TopicInv, NoLeftovers, ByHandOnlyFirst, [Next]_vars
    PROVE  TopicInv'
  <1>1. CASE UNCHANGED vars
    <2>1. /\ session' = session /\ run' = run /\ job' = job /\ phase' = phase /\ proc' = proc /\ nodes' = nodes
          /\ topic' = topic /\ call' = call
      BY <1>1 DEF vars, adminVars
    <2>2. script' = script /\ strategy' = strategy
      BY <2>1, SameJob
    <2> QED
      BY <2>1, <2>2 DEF TopicInv, NodesOnlyEnsure, ResetAchieves, TopicStaysUp, ByHandIsFirst, TopicIsUp
  <1>2. CASE Script \/ Interrupt \/ SecondInterrupt
    BY <1>2, TopicAtBegin, TopicAtReset, TopicAtQuietSteps, TopicAtTryBlockEnd, TopicBetweenJobs DEF Script
  <1>3. CASE ~(Script \/ Interrupt \/ SecondInterrupt) /\ Next
    BY <1>3, TopicAtNodeSteps DEF Next
  <1> QED BY <1>1, <1>2, <1>3

\* It holds at first.
LEMMA TopicInvInit ==
    ASSUME Init
    PROVE  TopicInv
  <1>1. /\ phase = "begin" /\ nodes = <<>> /\ proc = [s \in Slots |-> "none"] /\ call = [c \in Clients |-> "idle"]
    BY DEF Init
  <1>2. \A s \in Slots : call[s] = "idle" /\ proc[s] = "none"
    BY <1>1, DriverIsNoNode
  <1>3. topic.state = "absent" \/ TopicIsUp
    <2>1. CASE topic = NoTopic
      BY <2>1 DEF NoTopic
    <2>2. CASE topic = [NewTopic(NumPartitions) EXCEPT !.used = TRUE]
      BY <2>2 DEF NewTopic, TopicIsUp
    <2> QED BY <2>1, <2>2 DEF Init
  <1> QED
    BY <1>1, <1>2, <1>3 DEF TopicInv, NodesOnlyEnsure, NodeCalls, ResetAchieves, TopicStaysUp, ByHandIsFirst,
       ClusterPhases

\* topics.py, reset_topic, and the scripts that call it: as long as nodes are not
\* started by hand after a script, and no process of a message queue was left
\* running, a message-queue node serves only with the topic there as configured,
\* and every load test starts on a topic without messages.
THEOREM SlateIsClean ==
    ASSUME ByHandOnlyFirst
    PROVE  Spec => []CleanSlate
  <1> DEFINE Inv == SweepInv /\ AdminTypeOK /\ (NoLeftovers => TopicInv)
  <1>1. Init => Inv
    BY SweepInvInit, AdminTypeOKInit, TopicInvInit
  <1>2. Inv /\ [Next]_vars => Inv'
    BY SweepInvKept, AdminTypeOKKept, TopicInvKept, NoLeftoversBefore
  <1>3. Inv => CleanSlate
    <2>1. SUFFICES ASSUME Inv, strategy = "message_queue", Leftover = {}
                   PROVE  /\ \A s \in Slots : proc[s] = "serving" => TopicIsUp
                          /\ phase = "load" => ~topic.used
      BY DEF CleanSlate, TopicIsUp
    <2>2. TopicInv
      BY <2>1 DEF Leftover, NoLeftovers
    <2>3. phase = "load" => ~topic.used
      BY <2>1, <2>2 DEF TopicInv, TopicStaysUp, ClusterPhases, SweepInv, StepsFit
    <2> QED BY <2>1, <2>2, <2>3 DEF TopicInv, TopicStaysUp, ByHandIsFirst
  <1> QED BY <1>1, <1>2, <1>3, PTL DEF Spec

-----------------------------------------------------------------------------
(* The results document, by position                                       *)

\* s has the markers b and e once each, at i and after the content c.
SectionAt(s, b, e, i, c) ==
    /\ i \in 1 .. Len(s) /\ i + Len(c) + 1 \in 1 .. Len(s)
    /\ s[i] = b /\ s[i + Len(c) + 1] = e
    /\ \A k \in 1 .. Len(s) : (s[k] = b => k = i) /\ (s[k] = e => k = i + Len(c) + 1)
    /\ \A k \in 1 .. Len(c) : s[i + k] = c[k]

\* The token t is not in s.
Without(s, t) == \A k \in 1 .. Len(s) : s[k] # t

\* n is s with what is at i .. j replaced by b, c and e.
Spliced(s, i, j, b, c, e, n) ==
    /\ Len(n) = i + Len(c) + 1 + Len(s) - j
    /\ \A k \in 1 .. i - 1 : n[k] = s[k]
    /\ n[i] = b /\ n[i + Len(c) + 1] = e
    /\ \A k \in 1 .. Len(c) : n[i + k] = c[k]
    /\ \A k \in j + 1 .. Len(s) : n[i + Len(c) + 1 + k - j] = s[k]

\* Concatenation, by position.
LEMMA ConcatAt ==
    ASSUME NEW T, NEW s \in Seq(T), NEW t \in Seq(T), NEW n, n = s \o t
    PROVE  /\ n \in Seq(T) /\ Len(s) \in Nat /\ Len(t) \in Nat /\ Len(n) = Len(s) + Len(t)
           /\ \A k \in 1 .. Len(s) : n[k] = s[k]
           /\ \A k \in 1 .. Len(t) : n[Len(s) + k] = t[k]
  <1>1. /\ n \in Seq(T) /\ Len(n) = Len(s) + Len(t)
        /\ \A k \in 1 .. Len(s) + Len(t) : n[k] = IF k <= Len(s) THEN s[k] ELSE t[k - Len(s)]
    BY ConcatProperties
  <1>2. Len(s) \in Nat /\ Len(t) \in Nat
    BY LenProperties
  <1>3. \A k \in 1 .. Len(s) : n[k] = s[k]
    BY <1>1, <1>2
  <1>4. ASSUME NEW k \in 1 .. Len(t)
        PROVE  n[Len(s) + k] = t[k]
    <2>1. Len(s) + k \in 1 .. Len(s) + Len(t) /\ ~(Len(s) + k <= Len(s)) /\ Len(s) + k - Len(s) = k
      BY <1>2
    <2> QED BY <1>1, <2>1
  <1> QED BY <1>1, <1>2, <1>3, <1>4

\* A section as a piece of text.
LEMMA SectionText ==
    ASSUME NEW T, NEW b \in T, NEW e \in T, NEW c \in Seq(T), NEW p, p = <<b>> \o c \o <<e>>
    PROVE  /\ p \in Seq(T) /\ Len(p) = Len(c) + 2 /\ p[1] = b /\ p[Len(c) + 2] = e
           /\ \A k \in 1 .. Len(c) : p[k + 1] = c[k]
  <1>1. PICK x, y : x = <<b>> /\ y = <<e>>
    OBVIOUS
  <1>2. x \in Seq(T) /\ Len(x) = 1 /\ x[1] = b /\ y \in Seq(T) /\ Len(y) = 1 /\ y[1] = e
    BY <1>1
  <1>3. PICK q : q = x \o c
    OBVIOUS
  <1>4. q \in Seq(T) /\ Len(q) = Len(x) + Len(c)
        /\ \A k \in 1 .. Len(x) + Len(c) : q[k] = IF k <= Len(x) THEN x[k] ELSE c[k - Len(x)]
    BY <1>2, <1>3, ConcatProperties
  <1>5. p = q \o y
    BY <1>1, <1>3
  <1>6. p \in Seq(T) /\ Len(p) = Len(q) + Len(y)
        /\ \A k \in 1 .. Len(q) + Len(y) : p[k] = IF k <= Len(q) THEN q[k] ELSE y[k - Len(q)]
    BY <1>2, <1>4, <1>5, ConcatProperties
  <1>7. Len(c) \in Nat
    BY LenProperties
  <1>8. q[1] = b /\ \A k \in 1 .. Len(c) : q[k + 1] = c[k]
    BY <1>2, <1>4, <1>7
  <1> QED BY <1>2, <1>4, <1>6, <1>7, <1>8

\* "text[:start_idx] + section + text[end_idx + len(end):]"
LEMMA SpliceText ==
    ASSUME NEW T, NEW b \in T, NEW e \in T, NEW c \in Seq(T), NEW s \in Seq(T),
           NEW i \in 1 .. Len(s), NEW j \in 1 .. Len(s), i < j,
           NEW n, n = SubSeq(s, 1, i - 1) \o (<<b>> \o c \o <<e>>) \o SubSeq(s, j + 1, Len(s))
    PROVE  n \in Seq(T) /\ Spliced(s, i, j, b, c, e, n)
  <1>1. PICK p : p = <<b>> \o c \o <<e>>
    OBVIOUS
  <1>2. /\ p \in Seq(T) /\ Len(p) = Len(c) + 2 /\ p[1] = b /\ p[Len(c) + 2] = e
        /\ \A k \in 1 .. Len(c) : p[k + 1] = c[k]
    BY <1>1, SectionText
  <1>3. Len(c) \in Nat /\ Len(s) \in Nat /\ \A k \in 1 .. Len(s) : s[k] \in T
    BY LenProperties, ElementOfSeq
  <1>4. PICK x, y : x = SubSeq(s, 1, i - 1) /\ y = SubSeq(s, j + 1, Len(s))
    OBVIOUS
  <1>5. x \in Seq(T) /\ Len(x) = i - 1 /\ \A k \in 1 .. i - 1 : x[k] = s[k]
    <2>1. i - 1 \in Int /\ 1 \in Int /\ \A k \in 1 .. i - 1 : s[k] \in T
      BY <1>3
    <2>2. /\ x \in Seq(T) /\ Len(x) = IF 1 <= i - 1 THEN i - 1 - 1 + 1 ELSE 0
          /\ \A k \in 1 .. i - 1 - 1 + 1 : x[k] = s[1 + k - 1]
      BY <1>4, <2>1, SubSeqProperties
    <2> QED BY <1>3, <2>2
  <1>6. y \in Seq(T) /\ Len(y) = Len(s) - j /\ \A k \in 1 .. Len(s) - j : y[k] = s[j + k]
    <2>1. j + 1 \in Int /\ Len(s) \in Int /\ \A k \in j + 1 .. Len(s) : s[k] \in T
      BY <1>3
    <2>2. /\ y \in Seq(T) /\ Len(y) = IF j + 1 <= Len(s) THEN Len(s) - (j + 1) + 1 ELSE 0
          /\ \A k \in 1 .. Len(s) - (j + 1) + 1 : y[k] = s[(j + 1) + k - 1]
      BY <1>4, <2>1, SubSeqProperties
    <2> QED BY <1>3, <2>2
  <1>7. PICK q : q = x \o p
    OBVIOUS
  <1>8. n = q \o y
    BY <1>1, <1>4, <1>7
  <1>9. x \in Seq(T) /\ p \in Seq(T) /\ y \in Seq(T)
    BY <1>2, <1>5, <1>6
  <1>10. /\ q \in Seq(T) /\ Len(q) = Len(x) + Len(p)
         /\ \A k \in 1 .. Len(x) : q[k] = x[k]
         /\ \A k \in 1 .. Len(p) : q[Len(x) + k] = p[k]
    BY <1>7, <1>9, ConcatAt
  <1>11. /\ n \in Seq(T) /\ Len(n) = Len(q) + Len(y)
         /\ \A k \in 1 .. Len(q) : n[k] = q[k]
         /\ \A k \in 1 .. Len(y) : n[Len(q) + k] = y[k]
    <2>1. q \in Seq(T) /\ y \in Seq(T)
      BY <1>9, <1>10
    <2>2. PICK z : z = q \o y
      OBVIOUS
    <2>3. /\ z \in Seq(T) /\ Len(z) = Len(q) + Len(y)
          /\ \A k \in 1 .. Len(q) : z[k] = q[k]
          /\ \A k \in 1 .. Len(y) : z[Len(q) + k] = y[k]
      BY <2>1, <2>2, ConcatAt
    <2>4. z = n
      BY <1>8, <2>2, Zenon
    <2> QED BY <2>3, <2>4, Zenon
  <1>12. Len(x) = i - 1 /\ Len(p) = Len(c) + 2 /\ Len(q) = i + Len(c) + 1 /\ Len(y) = Len(s) - j
    BY <1>2, <1>3, <1>5, <1>6, <1>10
  <1>13. ASSUME NEW k \in 1 .. i - 1
         PROVE  n[k] = s[k]
    <2>1. k \in 1 .. Len(x) /\ k \in 1 .. Len(q)
      BY <1>3, <1>12
    <2> QED BY <1>5, <1>10, <1>11, <2>1
  <1>14. ASSUME NEW k \in 1 .. Len(p)
         PROVE  n[i - 1 + k] = p[k]
    <2>1. i - 1 + k \in 1 .. Len(q) /\ i - 1 + k = Len(x) + k
      BY <1>3, <1>12
    <2>2. q[i - 1 + k] = p[k]
      BY <1>10, <2>1
    <2>3. n[i - 1 + k] = q[i - 1 + k]
      BY <1>11, <2>1
    <2> QED BY <2>2, <2>3
  <1>15. n[i] = b /\ n[i + Len(c) + 1] = e
    <2>1. 1 \in 1 .. Len(p) /\ i - 1 + 1 = i /\ Len(c) + 2 \in 1 .. Len(p) /\ i - 1 + (Len(c) + 2) = i + Len(c) + 1
      BY <1>3, <1>12
    <2>2. n[i - 1 + 1] = b /\ n[i - 1 + (Len(c) + 2)] = e
      BY <1>2, <1>14, <2>1
    <2> QED BY <2>1, <2>2
  <1>16. ASSUME NEW k \in 1 .. Len(c)
         PROVE  n[i + k] = c[k]
    <2>1. k + 1 \in 1 .. Len(p) /\ i - 1 + (k + 1) = i + k
      BY <1>3, <1>12
    <2>2. n[i - 1 + (k + 1)] = p[k + 1]
      BY <1>14, <2>1
    <2> QED BY <1>2, <2>1, <2>2
  <1>17. ASSUME NEW k \in j + 1 .. Len(s)
         PROVE  n[i + Len(c) + 1 + k - j] = s[k]
    <2>1. k - j \in 1 .. Len(y) /\ Len(q) + (k - j) = i + Len(c) + 1 + k - j /\ j + (k - j) = k
          /\ k - j \in 1 .. Len(s) - j
      BY <1>3, <1>12
    <2>2. n[Len(q) + (k - j)] = y[k - j] /\ y[k - j] = s[j + (k - j)]
      BY <1>6, <1>11, <2>1
    <2> QED BY <2>1, <2>2
  <1>18. Len(n) = i + Len(c) + 1 + Len(s) - j
    BY <1>3, <1>11, <1>12
  <1> QED BY <1>11, <1>13, <1>15, <1>16, <1>17, <1>18 DEF Spliced

\* "text + section"
LEMMA AppendText ==
    ASSUME NEW T, NEW b \in T, NEW e \in T, NEW c \in Seq(T), NEW s \in Seq(T),
           NEW n, n = s \o (<<b>> \o c \o <<e>>)
    PROVE  n \in Seq(T) /\ Spliced(s, Len(s) + 1, Len(s), b, c, e, n)
  <1>1. PICK p : p = <<b>> \o c \o <<e>>
    OBVIOUS
  <1>2. /\ p \in Seq(T) /\ Len(p) = Len(c) + 2 /\ p[1] = b /\ p[Len(c) + 2] = e
        /\ \A k \in 1 .. Len(c) : p[k + 1] = c[k]
    BY <1>1, SectionText
  <1>3. Len(c) \in Nat /\ Len(s) \in Nat
    BY LenProperties
  <1>4. n = s \o p /\ p \in Seq(T)
    BY <1>1, <1>2
  <1>5. /\ n \in Seq(T) /\ Len(n) = Len(s) + Len(p)
        /\ \A k \in 1 .. Len(s) : n[k] = s[k]
        /\ \A k \in 1 .. Len(p) : n[Len(s) + k] = p[k]
    <2>1. PICK z : z = s \o p
      OBVIOUS
    <2>2. /\ z \in Seq(T) /\ Len(z) = Len(s) + Len(p)
          /\ \A k \in 1 .. Len(s) : z[k] = s[k]
          /\ \A k \in 1 .. Len(p) : z[Len(s) + k] = p[k]
      BY <1>4, <2>1, ConcatAt
    <2>3. z = n
      BY <1>4, <2>1, Zenon
    <2> QED BY <2>2, <2>3, Zenon
  <1>6. \A k \in 1 .. (Len(s) + 1) - 1 : n[k] = s[k]
    BY <1>3, <1>5
  <1>7. n[Len(s) + 1] = b /\ n[Len(s) + 1 + Len(c) + 1] = e
    <2>1. 1 \in 1 .. Len(p) /\ Len(c) + 2 \in 1 .. Len(p) /\ Len(s) + (Len(c) + 2) = Len(s) + 1 + Len(c) + 1
      BY <1>2, <1>3
    <2>2. n[Len(s) + 1] = p[1] /\ n[Len(s) + (Len(c) + 2)] = p[Len(c) + 2]
      BY <1>5, <2>1
    <2> QED BY <1>2, <2>1, <2>2
  <1>8. ASSUME NEW k \in 1 .. Len(c)
        PROVE  n[Len(s) + 1 + k] = c[k]
    <2>1. k + 1 \in 1 .. Len(p) /\ Len(s) + (k + 1) = Len(s) + 1 + k
      BY <1>2, <1>3
    <2>2. n[Len(s) + (k + 1)] = p[k + 1]
      BY <1>5, <2>1
    <2> QED BY <1>2, <2>1, <2>2
  <1>9. Len(n) = Len(s) + 1 + Len(c) + 1 + Len(s) - Len(s)
    BY <1>2, <1>3, <1>5
  <1>10. \A k \in Len(s) + 1 .. Len(s) : n[Len(s) + 1 + Len(c) + 1 + k - Len(s)] = s[k]
    BY <1>3
  <1> QED BY <1>5, <1>6, <1>7, <1>8, <1>9, <1>10 DEF Spliced

\* The token at place p of n is one of s, of c, or b or e.
CameFrom(s, i, j, b, c, e, n, p) ==
    \/ p < i /\ p \in 1 .. Len(s) /\ n[p] = s[p]
    \/ p = i /\ n[p] = b
    \/ \E k \in 1 .. Len(c) : p = i + k /\ n[p] = c[k]
    \/ p = i + Len(c) + 1 /\ n[p] = e
    \/ \E k \in j + 1 .. Len(s) : p = i + Len(c) + 1 + k - j /\ n[p] = s[k]

\* Where the token at place p of a spliced text comes from.
LEMMA SplicedFrom ==
    ASSUME NEW T, NEW s \in Seq(T), NEW c \in Seq(T), NEW n \in Seq(T), NEW b, NEW e,
           NEW i \in 1 .. Len(s) + 1, NEW j \in i - 1 .. Len(s), Spliced(s, i, j, b, c, e, n),
           NEW p \in 1 .. Len(n)
    PROVE  CameFrom(s, i, j, b, c, e, n, p)
  <1>1. Len(s) \in Nat /\ Len(c) \in Nat /\ Len(n) \in Nat
    BY LenProperties
  <1>2. PICK ls, lc : ls = Len(s) /\ lc = Len(c) /\ ls \in Nat /\ lc \in Nat
    BY <1>1
  <1>3. Len(n) = i + lc + 1 + ls - j /\ i \in 1 .. ls + 1 /\ j \in i - 1 .. ls
    BY <1>2 DEF Spliced
  <1>4. CASE p < i
    <2>1. p \in 1 .. i - 1 /\ p \in 1 .. Len(s)
      BY <1>2, <1>3, <1>4
    <2> QED BY <1>4, <2>1 DEF Spliced, CameFrom
  <1>5. CASE p = i
    BY <1>5 DEF Spliced, CameFrom
  <1>6. CASE p > i /\ p < i + lc + 1
    <2>1. p - i \in 1 .. Len(c) /\ i + (p - i) = p
      BY <1>2, <1>3, <1>6
    <2>2. n[i + (p - i)] = c[p - i]
      BY <2>1 DEF Spliced
    <2> QED BY <2>1, <2>2 DEF CameFrom
  <1>7. CASE p = i + lc + 1
    BY <1>2, <1>7 DEF Spliced, CameFrom
  <1>8. CASE p > i + lc + 1
    <2>1. PICK k : k = p - (i + lc + 1) + j
      OBVIOUS
    <2>2. k \in j + 1 .. Len(s) /\ i + Len(c) + 1 + k - j = p
      BY <1>2, <1>3, <1>8, <2>1
    <2>3. n[i + Len(c) + 1 + k - j] = s[k]
      BY <2>2 DEF Spliced
    <2> QED BY <2>2, <2>3 DEF CameFrom
  <1>9. p < i \/ p = i \/ (p > i /\ p < i + lc + 1) \/ p = i + lc + 1 \/ p > i + lc + 1
    BY <1>2, <1>3
  <1> QED BY <1>4, <1>5, <1>6, <1>7, <1>8, <1>9

\* The section that is put in is there, once.
LEMMA SplicedHas ==
    ASSUME NEW T, NEW s \in Seq(T), NEW c \in Seq(T), NEW n \in Seq(T), NEW b, NEW e, b # e,
           NEW i \in 1 .. Len(s) + 1, NEW j \in i - 1 .. Len(s), Spliced(s, i, j, b, c, e, n),
           \A k \in 1 .. Len(s) : k < i \/ k > j => s[k] # b /\ s[k] # e,
           \A k \in 1 .. Len(c) : c[k] # b /\ c[k] # e
    PROVE  SectionAt(n, b, e, i, c)
  <1>1. Len(s) \in Nat /\ Len(c) \in Nat /\ Len(n) \in Nat
    BY LenProperties
  <1>2. /\ Len(n) = i + Len(c) + 1 + Len(s) - j /\ n[i] = b /\ n[i + Len(c) + 1] = e
        /\ \A k \in 1 .. Len(c) : n[i + k] = c[k]
    BY DEF Spliced
  <1>3. i \in 1 .. Len(n) /\ i + Len(c) + 1 \in 1 .. Len(n)
    <2>1. Len(n) = i + Len(c) + 1 + Len(s) - j
      BY <1>2
    <2> QED BY <1>1, <2>1
  <1>4. ASSUME NEW p \in 1 .. Len(n)
        PROVE  (n[p] = b => p = i) /\ (n[p] = e => p = i + Len(c) + 1)
    <2>1. CASE p < i /\ p \in 1 .. Len(s) /\ n[p] = s[p]
      BY <2>1
    <2>2. CASE p = i /\ n[p] = b
      BY <2>2
    <2>3. CASE \E k \in 1 .. Len(c) : p = i + k /\ n[p] = c[k]
      BY <2>3
    <2>4. CASE p = i + Len(c) + 1 /\ n[p] = e
      BY <2>4
    <2>5. CASE \E k \in j + 1 .. Len(s) : p = i + Len(c) + 1 + k - j /\ n[p] = s[k]
      <3>1. PICK k \in j + 1 .. Len(s) : n[p] = s[k]
        BY <2>5
      <3>2. k \in 1 .. Len(s) /\ k > j
        BY <1>1
      <3> QED BY <3>1, <3>2
    <2>6. CameFrom(s, i, j, b, c, e, n, p)
      BY SplicedFrom
    <2> QED BY <2>1, <2>2, <2>3, <2>4, <2>5, <2>6 DEF CameFrom
  <1> QED BY <1>2, <1>3, <1>4 DEF SectionAt

\* A section outside of what is replaced stays, in its place or moved.
LEMMA SplicedKeeps ==
    ASSUME NEW T, NEW s \in Seq(T), NEW c \in Seq(T), NEW n \in Seq(T), NEW b, NEW e,
           NEW i \in 1 .. Len(s) + 1, NEW j \in i - 1 .. Len(s), Spliced(s, i, j, b, c, e, n),
           NEW b2, NEW e2, {b2, e2} \cap {b, e} = {}, NEW i2, NEW c2 \in Seq(T), SectionAt(s, b2, e2, i2, c2),
           \A k \in 1 .. Len(c) : c[k] # b2 /\ c[k] # e2,
           i2 + Len(c2) + 1 < i \/ i2 > j
    PROVE  \E i3 \in 1 .. Len(n) : SectionAt(n, b2, e2, i3, c2)
  <1>1. Len(s) \in Nat /\ Len(c) \in Nat /\ Len(n) \in Nat /\ Len(c2) \in Nat
    BY LenProperties
  <1>2. PICK ls, lc, ln, l2 : /\ ls = Len(s) /\ lc = Len(c) /\ ln = Len(n) /\ l2 = Len(c2)
                              /\ ls \in Nat /\ lc \in Nat /\ ln \in Nat /\ l2 \in Nat
    BY <1>1
  <1>3. ln = i + lc + 1 + ls - j /\ i \in 1 .. ls + 1 /\ j \in i - 1 .. ls
    BY <1>2 DEF Spliced
  <1>4. i2 \in 1 .. ls /\ i2 + l2 + 1 \in 1 .. ls
    BY <1>2 DEF SectionAt
  <1>5. b2 # b /\ b2 # e /\ e2 # b /\ e2 # e
    OBVIOUS
  <1>6. \A k \in 1 .. ls : (s[k] = b2 => k = i2) /\ (s[k] = e2 => k = i2 + l2 + 1)
    BY <1>2 DEF SectionAt
  <1>7. PICK d : d = IF i2 > j THEN lc + 1 + i - j ELSE 0
    OBVIOUS
  <1>8. ASSUME NEW k \in i2 .. i2 + l2 + 1
        PROVE  k + d \in 1 .. ln /\ n[k + d] = s[k]
    <2>1. CASE i2 > j
      <3>1. k \in j + 1 .. Len(s) /\ i + Len(c) + 1 + k - j = k + d /\ k + d \in 1 .. ln
        BY <1>2, <1>3, <1>4, <1>7, <2>1
      <3>2. n[i + Len(c) + 1 + k - j] = s[k]
        BY <3>1 DEF Spliced
      <3> QED BY <3>1, <3>2
    <2>2. CASE ~(i2 > j)
      <3>1. k \in 1 .. i - 1 /\ k + d = k /\ k + d \in 1 .. ln
        BY <1>2, <1>3, <1>4, <1>7, <2>2
      <3>2. n[k] = s[k]
        BY <3>1 DEF Spliced
      <3> QED BY <3>1, <3>2
    <2> QED BY <2>1, <2>2
  <1>9. d \in Int
    BY <1>2, <1>3, <1>7
  <1>10. ASSUME NEW p \in 1 .. Len(n)
         PROVE  (n[p] = b2 => p = i2 + d) /\ (n[p] = e2 => p = (i2 + d) + l2 + 1)
    <2>1. CASE p < i /\ p \in 1 .. Len(s) /\ n[p] = s[p]
      <3>1. (n[p] = b2 => p = i2) /\ (n[p] = e2 => p = i2 + l2 + 1)
        BY <1>2, <1>6, <2>1
      <3>2. (n[p] = b2 \/ n[p] = e2) => d = 0
        BY <1>2, <1>3, <1>4, <1>7, <2>1, <3>1
      <3> QED BY <1>2, <1>4, <3>1, <3>2
    <2>2. CASE p = i /\ n[p] = b
      BY <1>5, <2>2
    <2>3. CASE \E k \in 1 .. Len(c) : p = i + k /\ n[p] = c[k]
      BY <2>3
    <2>4. CASE p = i + Len(c) + 1 /\ n[p] = e
      BY <1>5, <2>4
    <2>5. CASE \E k \in j + 1 .. Len(s) : p = i + Len(c) + 1 + k - j /\ n[p] = s[k]
      <3>1. PICK k \in j + 1 .. Len(s) : p = i + Len(c) + 1 + k - j /\ n[p] = s[k]
        BY <2>5
      <3>2. k \in 1 .. ls /\ k > j
        BY <1>2, <1>3
      <3>3. (n[p] = b2 => k = i2) /\ (n[p] = e2 => k = i2 + l2 + 1)
        BY <1>6, <3>1, <3>2
      <3>4. (n[p] = b2 \/ n[p] = e2) => i2 > j
        BY <1>2, <1>3, <1>4, <3>2, <3>3
      <3>5. (n[p] = b2 \/ n[p] = e2) => p = k + d
        BY <1>2, <1>3, <1>7, <3>1, <3>2, <3>4
      <3> QED BY <1>2, <1>4, <1>9, <3>2, <3>3, <3>5
    <2>6. CameFrom(s, i, j, b, c, e, n, p)
      BY SplicedFrom
    <2> QED BY <2>1, <2>2, <2>3, <2>4, <2>5, <2>6 DEF CameFrom
  <1>11. i2 + d \in 1 .. ln /\ (i2 + d) + l2 + 1 \in 1 .. ln /\ n[i2 + d] = b2 /\ n[(i2 + d) + l2 + 1] = e2
    <2>1. i2 \in i2 .. i2 + l2 + 1 /\ i2 + l2 + 1 \in i2 .. i2 + l2 + 1 /\ (i2 + l2 + 1) + d = (i2 + d) + l2 + 1
      BY <1>2, <1>4, <1>9
    <2>2. s[i2] = b2 /\ s[i2 + l2 + 1] = e2
      BY <1>2 DEF SectionAt
    <2> QED BY <1>8, <2>1, <2>2
  <1>12. ASSUME NEW k \in 1 .. l2
         PROVE  n[(i2 + d) + k] = c2[k]
    <2>1. i2 + k \in i2 .. i2 + l2 + 1 /\ (i2 + k) + d = (i2 + d) + k
      BY <1>2, <1>4, <1>9
    <2>2. s[i2 + k] = c2[k]
      BY <1>2 DEF SectionAt
    <2> QED BY <1>8, <2>1, <2>2
  <1>13. SectionAt(n, b2, e2, i2 + d, c2)
    BY <1>2, <1>10, <1>11, <1>12 DEF SectionAt
  <1> QED BY <1>2, <1>11, <1>13

\* Two sections whose contents hold no markers do not overlap.
LEMMA SectionsApart ==
    ASSUME NEW T, NEW s \in Seq(T), NEW b, NEW e, NEW b2, NEW e2, {b2, e2} \cap {b, e} = {},
           NEW c \in Seq(T), NEW c2 \in Seq(T), NEW i, NEW i2,
           SectionAt(s, b, e, i, c), SectionAt(s, b2, e2, i2, c2),
           Without(c, b2), Without(c, e2), Without(c2, b), Without(c2, e)
    PROVE  i2 + Len(c2) + 1 < i \/ i2 > i + Len(c) + 1
  <1>1. PICK ls, lc, l2 : /\ ls = Len(s) /\ lc = Len(c) /\ l2 = Len(c2)
                          /\ ls \in Nat /\ lc \in Nat /\ l2 \in Nat
    BY LenProperties
  <1>2. /\ i \in 1 .. ls /\ i + lc + 1 \in 1 .. ls /\ s[i] = b /\ s[i + lc + 1] = e
        /\ \A k \in 1 .. lc : s[i + k] = c[k]
    BY <1>1 DEF SectionAt
  <1>3. /\ i2 \in 1 .. ls /\ i2 + l2 + 1 \in 1 .. ls /\ s[i2] = b2 /\ s[i2 + l2 + 1] = e2
        /\ \A k \in 1 .. l2 : s[i2 + k] = c2[k]
    BY <1>1 DEF SectionAt
  <1>4. ASSUME NEW p \in i .. i + lc + 1
        PROVE  s[p] # b2 /\ s[p] # e2
    <2>1. CASE p = i \/ p = i + lc + 1
      BY <1>2, <2>1
    <2>2. CASE p # i /\ p # i + lc + 1
      <3>1. i \in Nat /\ lc \in Nat
        BY <1>1, <1>2
      <3>2. PICK k \in 1 .. lc : i + k = p
        <4>1. p - i \in 1 .. lc /\ i + (p - i) = p
          BY <2>2, <3>1
        <4> QED BY <4>1
      <3>3. s[i + k] = c[k] /\ k \in 1 .. Len(c)
        BY <1>1, <1>2, <3>2
      <3> QED BY <3>2, <3>3 DEF Without
    <2> QED BY <2>1, <2>2
  <1>5. ASSUME NEW p \in i2 .. i2 + l2 + 1
        PROVE  s[p] # b /\ s[p] # e
    <2>1. CASE p = i2 \/ p = i2 + l2 + 1
      BY <1>3, <2>1
    <2>2. CASE p # i2 /\ p # i2 + l2 + 1
      <3>1. i2 \in Nat /\ l2 \in Nat
        BY <1>1, <1>3
      <3>2. PICK k \in 1 .. l2 : i2 + k = p
        <4>1. p - i2 \in 1 .. l2 /\ i2 + (p - i2) = p
          BY <2>2, <3>1
        <4> QED BY <4>1
      <3>3. s[i2 + k] = c2[k] /\ k \in 1 .. Len(c2)
        BY <1>1, <1>3, <3>2
      <3> QED BY <3>2, <3>3 DEF Without
    <2> QED BY <2>1, <2>2
  <1>6. i \notin i2 .. i2 + l2 + 1 /\ i2 \notin i .. i + lc + 1
    BY <1>2, <1>3, <1>4, <1>5
  <1> QED BY <1>1, <1>2, <1>3, <1>6

\* A token that neither the text nor the section has is not in the result.
LEMMA SplicedLacks ==
    ASSUME NEW T, NEW s \in Seq(T), NEW c \in Seq(T), NEW n \in Seq(T), NEW b, NEW e,
           NEW i \in 1 .. Len(s) + 1, NEW j \in i - 1 .. Len(s), Spliced(s, i, j, b, c, e, n),
           NEW t, t # b, t # e, Without(s, t), Without(c, t)
    PROVE  Without(n, t)
  <1> SUFFICES ASSUME NEW p \in 1 .. Len(n)
               PROVE  n[p] # t
    BY DEF Without
  <1>1. CameFrom(s, i, j, b, c, e, n, p)
    BY SplicedFrom
  <1>2. ASSUME NEW k \in j + 1 .. Len(s)
        PROVE  k \in 1 .. Len(s)
    BY LenProperties
  <1> QED BY <1>1, <1>2 DEF CameFrom, Without

\* The reference definition of a section, by position.
LEMMA SectionIs ==
    ASSUME NEW T, NEW s \in Seq(T), NEW c \in Seq(T), NEW b, NEW e, NEW i \in 1 .. Len(s),
           NEW j, j = i + Len(c) + 1
    PROVE  SectionAt(s, b, e, i, c) <=> /\ Places(s, b) = {i} /\ Places(s, e) = {j}
                                        /\ SubSeq(s, i + 1, j - 1) = c
  <1>1. PICK ls, lc : ls = Len(s) /\ lc = Len(c) /\ ls \in Nat /\ lc \in Nat
    BY LenProperties
  <1>2. DOMAIN s = 1 .. ls /\ i \in 1 .. ls /\ j = i + lc + 1 /\ j \in Nat /\ i \in Nat
    BY <1>1, LenProperties
  <1>3. \A x, t : x \in Places(s, t) <=> x \in 1 .. ls /\ s[x] = t
    BY <1>2 DEF Places
  <1>4. ASSUME j \in 1 .. ls, NEW q, q = SubSeq(s, i + 1, j - 1)
        PROVE  q \in Seq(T) /\ Len(q) = lc /\ \A k \in 1 .. lc : q[k] = s[i + k]
    <2>1. i + 1 \in Int /\ j - 1 \in Int /\ \A k \in i + 1 .. j - 1 : k \in 1 .. ls
      BY <1>1, <1>2, <1>4
    <2>2. \A k \in i + 1 .. j - 1 : s[k] \in T
      BY <1>1, <2>1, ElementOfSeq
    <2>3. /\ q \in Seq(T) /\ Len(q) = IF i + 1 <= j - 1 THEN (j - 1) - (i + 1) + 1 ELSE 0
          /\ \A k \in 1 .. (j - 1) - (i + 1) + 1 : q[k] = s[(i + 1) + k - 1]
      BY <1>4, <2>1, <2>2, SubSeqProperties
    <2> QED BY <1>1, <1>2, <2>3
  <1>5. ASSUME SectionAt(s, b, e, i, c)
        PROVE  Places(s, b) = {i} /\ Places(s, e) = {j} /\ SubSeq(s, i + 1, j - 1) = c
    <2>1. /\ j \in 1 .. ls /\ s[i] = b /\ s[j] = e
          /\ \A k \in 1 .. ls : (s[k] = b => k = i) /\ (s[k] = e => k = j)
          /\ \A k \in 1 .. lc : s[i + k] = c[k]
      BY <1>1, <1>5 DEF SectionAt
    <2>2. PICK q : q = SubSeq(s, i + 1, j - 1)
      OBVIOUS
    <2>3. q \in Seq(T) /\ Len(q) = lc /\ \A k \in 1 .. lc : q[k] = s[i + k]
      BY <1>4, <2>1, <2>2
    <2>4. \A k \in 1 .. lc : q[k] = c[k]
      BY <2>1, <2>3
    <2>5. Len(q) = Len(c) /\ \A k \in 1 .. Len(q) : q[k] = c[k]
      BY <1>1, <2>3, <2>4
    <2>6. q = c
      BY <2>3, <2>5, SeqEqual
    <2>7. \A x : x \in Places(s, b) <=> x = i
      BY <1>2, <1>3, <2>1
    <2>8. \A x : x \in Places(s, e) <=> x = j
      BY <1>2, <1>3, <2>1
    <2> QED BY <2>2, <2>6, <2>7, <2>8
  <1>6. ASSUME Places(s, b) = {i}, Places(s, e) = {j}, SubSeq(s, i + 1, j - 1) = c
        PROVE  SectionAt(s, b, e, i, c)
    <2>1. \A x : x \in 1 .. ls /\ s[x] = b <=> x = i
      BY <1>3, <1>6
    <2>2. \A x : x \in 1 .. ls /\ s[x] = e <=> x = j
      BY <1>3, <1>6
    <2>3. j \in 1 .. ls
      BY <2>2
    <2>4. \A k \in 1 .. lc : c[k] = s[i + k]
      BY <1>4, <1>6, <2>3
    <2> QED BY <1>1, <1>2, <2>1, <2>2, <2>3, <2>4 DEF SectionAt
  <1> QED BY <1>5, <1>6

\* HasSection, by the place of the section.
LEMMA HasSectionIs ==
    ASSUME NEW T, NEW s \in Seq(T), NEW c \in Seq(T), NEW m
    PROVE  HasSection(s, m, c) <=> \E i \in 1 .. Len(s) : SectionAt(s, Begin(m), End(m), i, c)
  <1>1. DOMAIN s = 1 .. Len(s)
    BY LenProperties
  <1>2. \A i \in 1 .. Len(s) :
          SectionAt(s, Begin(m), End(m), i, c) <=>
             /\ Places(s, Begin(m)) = {i} /\ Places(s, End(m)) = {i + Len(c) + 1}
             /\ SubSeq(s, i + 1, (i + Len(c) + 1) - 1) = c
    BY SectionIs
  <1> QED BY <1>1, <1>2 DEF HasSection

\* str.find of a token that is there once, or not at all.
LEMMA FindOne ==
    ASSUME NEW s, NEW t, NEW i \in Nat, Places(s, t) = {i}
    PROVE  find(s, t) = i
  BY DEF find

\* The markers of different sections differ.
LEMMA MarkersDiffer ==
    /\ \A m : Begin(m) # End(m)
    /\ \A m, m2 : m # m2 => {Begin(m2), End(m2)} \cap {Begin(m), End(m)} = {}
    /\ \A m, w, r : Text(w, r) # Begin(m) /\ Text(w, r) # End(m)
  <1>1. \A m : Begin(m) # End(m)
    BY DEF Begin, End
  <1>2. ASSUME NEW m, NEW m2, m # m2
        PROVE  Begin(m2) # Begin(m) /\ End(m2) # End(m) /\ Begin(m2) # End(m) /\ End(m2) # Begin(m)
    <2>1. Begin(m).of = m /\ Begin(m2).of = m2 /\ End(m).of = m /\ End(m2).of = m2
      BY DEF Begin, End
    <2> QED BY <1>2, <2>1
  <1>3. \A m, w, r : Text(w, r) # Begin(m) /\ Text(w, r) # End(m)
    BY DEF Begin, End, Text
  <1> QED BY <1>1, <1>2, <1>3

\* No marker is among what a section says.
Plain(c) == \A k \in 1 .. Len(c) : \A m \in Markers : c[k] # Begin(m) /\ c[k] # End(m)

\* Neither marker of section m is in s.
Lacks(s, m) == Without(s, Begin(m)) /\ Without(s, End(m))

\* Every section is there once, with both markers and no others between them,
\* or not at all; T holds the tokens of the text.
Sectioned(T, s) ==
    \A m \in Markers : Lacks(s, m) \/ \E c \in Seq(T) : Plain(c) /\ HasSection(s, m, c)

\* What replace_section does to a text that has or lacks the section: the text
\* up to the section, or the whole text, is kept.
LEMMA ReplaceSplices ==
    ASSUME NEW T, NEW s \in Seq(T), NEW m \in Markers, Begin(m) \in T, End(m) \in T,
           NEW c \in Seq(T), NEW n, n = replace_section(s, m, c),
           Lacks(s, m) \/ \E d \in Seq(T) : Plain(d) /\ HasSection(s, m, d)
    PROVE  /\ n \in Seq(T)
           /\ \/ /\ Lacks(s, m)
                 /\ Spliced(s, Len(s) + 1, Len(s), Begin(m), c, End(m), n)
              \/ \E i \in 1 .. Len(s), d \in Seq(T) :
                   /\ Plain(d) /\ SectionAt(s, Begin(m), End(m), i, d)
                   /\ Spliced(s, i, i + Len(d) + 1, Begin(m), c, End(m), n)
  <1>1. Len(s) \in Nat /\ DOMAIN s = 1 .. Len(s)
    BY LenProperties
  <1>2. CASE Lacks(s, m)
    <2>1. Places(s, Begin(m)) = {}
      BY <1>1, <1>2 DEF Lacks, Without, Places
    <2>2. find(s, Begin(m)) = 0
      BY <2>1 DEF find
    <2>3. n = s \o (<<Begin(m)>> \o c \o <<End(m)>>)
      BY <2>2 DEF replace_section
    <2> QED BY <1>2, <2>3, AppendText
  <1>3. CASE \E d \in Seq(T) : Plain(d) /\ HasSection(s, m, d)
    <2>1. PICK d \in Seq(T) : Plain(d) /\ HasSection(s, m, d)
      BY <1>3
    <2>2. PICK i \in 1 .. Len(s) : SectionAt(s, Begin(m), End(m), i, d)
      BY <2>1, HasSectionIs
    <2>3. PICK j : j = i + Len(d) + 1
      OBVIOUS
    <2>4. Places(s, Begin(m)) = {i} /\ Places(s, End(m)) = {j}
      BY <2>2, <2>3, SectionIs
    <2>5. i \in Nat /\ j \in 1 .. Len(s) /\ i < j /\ j \in Nat /\ i # 0 /\ j # 0
      <3>1. Len(d) \in Nat
        BY LenProperties
      <3>2. j \in 1 .. Len(s)
        BY <2>2, <2>3 DEF SectionAt
      <3> QED BY <1>1, <2>3, <3>1, <3>2
    <2>6. find(s, Begin(m)) = i /\ find(s, End(m)) = j
      BY <2>4, <2>5, FindOne
    <2>7. n = SubSeq(s, 1, i - 1) \o (<<Begin(m)>> \o c \o <<End(m)>>) \o SubSeq(s, j + 1, Len(s))
      BY <2>5, <2>6 DEF replace_section, After
    <2>8. n \in Seq(T) /\ Spliced(s, i, j, Begin(m), c, End(m), n)
      BY <2>5, <2>7, SpliceText
    <2> QED BY <2>1, <2>2, <2>3, <2>8
  <1> QED BY <1>2, <1>3

\* replace_section, on a text whose sections are whole, writes the section and
\* leaves the others as they are, their number included; the text before the
\* first marker stays.
THEOREM ReplaceKeepsOthers ==
    ASSUME NEW T, NEW s \in Seq(T), Sectioned(T, s), NEW m \in Markers, Begin(m) \in T, End(m) \in T,
           NEW c \in Seq(T), Plain(c), NEW n, n = replace_section(s, m, c)
    PROVE  /\ n \in Seq(T) /\ Sectioned(T, n) /\ HasSection(n, m, c)
           /\ \A m2 \in Markers \ {m} :
                /\ Lacks(s, m2) => Lacks(n, m2)
                /\ \A c2 \in Seq(T) : Plain(c2) /\ HasSection(s, m2, c2) => HasSection(n, m2, c2)
           /\ \A l \in 0 .. Len(s) : (\A k \in 1 .. l : s[k] # Begin(m)) =>
                l \in 0 .. Len(n) /\ \A k \in 1 .. l : n[k] = s[k]
  <1>1. /\ n \in Seq(T)
        /\ \/ /\ Lacks(s, m)
              /\ Spliced(s, Len(s) + 1, Len(s), Begin(m), c, End(m), n)
           \/ \E i \in 1 .. Len(s), d \in Seq(T) :
                /\ Plain(d) /\ SectionAt(s, Begin(m), End(m), i, d)
                /\ Spliced(s, i, i + Len(d) + 1, Begin(m), c, End(m), n)
    BY ReplaceSplices DEF Sectioned
  <1>2. Len(s) \in Nat /\ Len(c) \in Nat /\ Len(n) \in Nat
    BY <1>1, LenProperties
  <1>3. PICK i, j :
          /\ i \in 1 .. Len(s) + 1 /\ j \in i - 1 .. Len(s)
          /\ Spliced(s, i, j, Begin(m), c, End(m), n)
          /\ \A k \in 1 .. Len(s) : k < i \/ k > j => s[k] # Begin(m) /\ s[k] # End(m)
          /\ i <= Len(s) => s[i] = Begin(m)
          /\ \A m2 \in Markers \ {m}, c2 \in Seq(T), i2 \in 1 .. Len(s) :
               Plain(c2) /\ SectionAt(s, Begin(m2), End(m2), i2, c2) =>
                 i2 + Len(c2) + 1 < i \/ i2 > j
    <2>1. CASE Lacks(s, m) /\ Spliced(s, Len(s) + 1, Len(s), Begin(m), c, End(m), n)
      <3>1. Len(s) + 1 \in 1 .. Len(s) + 1 /\ Len(s) \in (Len(s) + 1) - 1 .. Len(s) /\ ~(Len(s) + 1 <= Len(s))
        BY <1>2
      <3>2. \A k \in 1 .. Len(s) : s[k] # Begin(m) /\ s[k] # End(m)
        BY <2>1 DEF Lacks, Without
      <3>3. ASSUME NEW m2, NEW c2, NEW i2, SectionAt(s, Begin(m2), End(m2), i2, c2)
            PROVE  i2 + Len(c2) + 1 < Len(s) + 1
        <4>1. i2 + Len(c2) + 1 \in 1 .. Len(s)
          BY <3>3 DEF SectionAt
        <4> QED BY <1>2, <4>1
      <3> QED BY <2>1, <3>1, <3>2, <3>3
    <2>2. CASE \E i \in 1 .. Len(s), d \in Seq(T) :
                /\ Plain(d) /\ SectionAt(s, Begin(m), End(m), i, d)
                /\ Spliced(s, i, i + Len(d) + 1, Begin(m), c, End(m), n)
      <3>1. PICK i \in 1 .. Len(s), d \in Seq(T) :
                /\ Plain(d) /\ SectionAt(s, Begin(m), End(m), i, d)
                /\ Spliced(s, i, i + Len(d) + 1, Begin(m), c, End(m), n)
        BY <2>2
      <3>2. PICK j : j = i + Len(d) + 1
        OBVIOUS
      <3>3. /\ j \in 1 .. Len(s) /\ s[i] = Begin(m)
            /\ \A k \in 1 .. Len(s) : (s[k] = Begin(m) => k = i) /\ (s[k] = End(m) => k = j)
        BY <3>1, <3>2 DEF SectionAt
      <3>4. Len(d) \in Nat
        BY LenProperties
      <3>5. i \in 1 .. Len(s) + 1 /\ j \in i - 1 .. Len(s) /\ i < j /\ i \in Nat /\ j \in Nat
        BY <1>2, <3>2, <3>3, <3>4
      <3>6. ASSUME NEW k \in 1 .. Len(s), k < i \/ k > j
            PROVE  s[k] # Begin(m) /\ s[k] # End(m)
        <4>1. k # i /\ k # j
          BY <1>2, <3>5, <3>6
        <4> QED BY <3>3, <4>1
      <3>7. ASSUME NEW m2 \in Markers \ {m}, NEW c2 \in Seq(T), NEW i2 \in 1 .. Len(s),
                   Plain(c2), SectionAt(s, Begin(m2), End(m2), i2, c2)
            PROVE  i2 + Len(c2) + 1 < i \/ i2 > j
        <4>1. {Begin(m2), End(m2)} \cap {Begin(m), End(m)} = {}
          BY MarkersDiffer
        <4>2. Without(d, Begin(m2)) /\ Without(d, End(m2))
          BY <3>1 DEF Plain, Without
        <4>3. Without(c2, Begin(m)) /\ Without(c2, End(m))
          BY <3>7 DEF Plain, Without
        <4>4. SectionAt(s, Begin(m), End(m), i, d)
          BY <3>1
        <4>5. i2 + Len(c2) + 1 < i \/ i2 > i + Len(d) + 1
          BY <3>7, <4>1, <4>2, <4>3, <4>4, SectionsApart
        <4> QED BY <3>2, <4>5
      <3>8. Spliced(s, i, j, Begin(m), c, End(m), n)
        BY <3>1, <3>2
      <3> QED BY <3>3, <3>5, <3>6, <3>7, <3>8
    <2> QED BY <1>1, <2>1, <2>2
  <1>11. i \in 1 .. Len(s) + 1 /\ j \in i - 1 .. Len(s) /\ Spliced(s, i, j, Begin(m), c, End(m), n)
    BY <1>3
  <1>4. Begin(m) # End(m)
    BY MarkersDiffer
  <1>5. \A k \in 1 .. Len(c) : \A m2 \in Markers : c[k] # Begin(m2) /\ c[k] # End(m2)
    BY DEF Plain
  <1>6. HasSection(n, m, c)
    <2>1. SectionAt(n, Begin(m), End(m), i, c)
      <3>1. \A k \in 1 .. Len(s) : k < i \/ k > j => s[k] # Begin(m) /\ s[k] # End(m)
        BY <1>3
      <3>2. \A k \in 1 .. Len(c) : c[k] # Begin(m) /\ c[k] # End(m)
        BY <1>5
      <3> QED BY <1>1, <1>4, <1>11, <3>1, <3>2, SplicedHas
    <2>2. i \in 1 .. Len(n)
      BY <2>1 DEF SectionAt
    <2> QED BY <1>1, <2>1, <2>2, HasSectionIs
  <1>7. ASSUME NEW m2 \in Markers \ {m}, Lacks(s, m2)
        PROVE  Lacks(n, m2)
    <2>1. {Begin(m2), End(m2)} \cap {Begin(m), End(m)} = {}
      BY MarkersDiffer
    <2>2. ASSUME NEW t \in {Begin(m2), End(m2)}
          PROVE  Without(n, t)
      <3>1. t # Begin(m) /\ t # End(m)
        BY <2>1
      <3>2. Without(s, t)
        BY <1>7 DEF Lacks
      <3>3. Without(c, t)
        BY <1>5 DEF Without
      <3> QED BY <1>1, <1>11, <3>1, <3>2, <3>3, SplicedLacks
    <2> QED BY <2>2 DEF Lacks
  <1>8. ASSUME NEW m2 \in Markers \ {m}, NEW c2 \in Seq(T), Plain(c2), HasSection(s, m2, c2)
        PROVE  HasSection(n, m2, c2)
    <2>1. PICK i2 \in 1 .. Len(s) : SectionAt(s, Begin(m2), End(m2), i2, c2)
      BY <1>8, HasSectionIs
    <2>2. i2 + Len(c2) + 1 < i \/ i2 > j
      BY <1>3, <1>8, <2>1
    <2>3. {Begin(m2), End(m2)} \cap {Begin(m), End(m)} = {}
      BY MarkersDiffer
    <2>4. \A k \in 1 .. Len(c) : c[k] # Begin(m2) /\ c[k] # End(m2)
      BY <1>5
    <2>5. \E i3 \in 1 .. Len(n) : SectionAt(n, Begin(m2), End(m2), i3, c2)
      BY <1>1, <1>11, <2>1, <2>2, <2>3, <2>4, SplicedKeeps
    <2> QED BY <1>1, <2>5, HasSectionIs
  <1>9. Sectioned(T, n)
    <2> SUFFICES ASSUME NEW m2 \in Markers
                 PROVE  Lacks(n, m2) \/ \E d \in Seq(T) : Plain(d) /\ HasSection(n, m2, d)
      BY DEF Sectioned
    <2>1. CASE m2 = m
      BY <1>6, <2>1
    <2>2. CASE m2 # m /\ Lacks(s, m2)
      BY <1>7, <2>2
    <2>3. CASE m2 # m /\ \E d \in Seq(T) : Plain(d) /\ HasSection(s, m2, d)
      BY <1>8, <2>3
    <2> QED BY <2>1, <2>2, <2>3 DEF Sectioned
  <1>10. ASSUME NEW l \in 0 .. Len(s), \A k \in 1 .. l : s[k] # Begin(m)
         PROVE  l \in 0 .. Len(n) /\ \A k \in 1 .. l : n[k] = s[k]
    <2>1. l < i
      <3>1. CASE i <= Len(s)
        <4>1. i \notin 1 .. l
          BY <1>3, <1>10, <3>1
        <4> QED BY <1>2, <1>11, <4>1
      <3>2. CASE ~(i <= Len(s))
        BY <1>2, <1>11, <3>2
      <3> QED BY <3>1, <3>2
    <2>2. Len(n) = i + Len(c) + 1 + Len(s) - j /\ \A k \in 1 .. i - 1 : n[k] = s[k]
      BY <1>3 DEF Spliced
    <2>3. l \in 0 .. Len(n)
      <3>1. Len(n) = i + Len(c) + 1 + Len(s) - j
        BY <2>2
      <3> QED BY <1>2, <1>11, <2>1, <3>1
    <2>4. \A k \in 1 .. l : k \in 1 .. i - 1
      BY <1>2, <1>11, <2>1
    <2> QED BY <2>2, <2>3, <2>4
  <1> QED BY <1>1, <1>6, <1>7, <1>8, <1>9, <1>10

-----------------------------------------------------------------------------
(* The reports                                                             *)

\* What the document is made of: S has the tokens that it holds at first.
Tokens(S) ==
    S \cup {Begin(m) : m \in Markers} \cup {End(m) : m \in Markers}
      \cup {Text(w, r) : w \in {"header", "result", "error"}, r \in Nat}

\* How far the report has come, and what it reports.
ReportFits ==
    /\ run \in Nat /\ outcomes \in Seq({"result", "error"})
    /\ written \in 0 .. Len(ReportSections) - 1
    /\ phase # "report" => written = 0

\* The text before the first marker is what it was.
PrefaceKept ==
    \A l \in 0 .. Len(InitialDoc) :
        (\A k \in 1 .. l, m \in Markers : InitialDoc[k] # Begin(m)) =>
            l \in 0 .. Len(doc) /\ \A k \in 1 .. l : doc[k] = InitialDoc[k]

DocInv(T) ==
    /\ ReportFits
    /\ doc \in Seq(T) /\ Sectioned(T, doc) /\ PrefaceKept /\ wrote \in [Markers -> Seq(T)]
    /\ \A m \in Markers : Plain(wrote[m]) /\ (wrote[m] # <<>> => HasSection(doc, m, wrote[m]))

\* Every report writes sections of the document.
LEMMA SectionsOfReports ==
    ASSUME NEW sc, NEW rs,
           rs = CASE sc = "run_comparison" -> _write_markdown_report \o _write_mq_markdown_report
                  [] sc = "boundary_demo" -> boundary_write_results_section
                  [] OTHER -> lag_write_results_section
    PROVE  /\ Len(rs) \in Nat \ {0}
           /\ \A i \in 1 .. Len(rs) : rs[i] \in Markers
  <1>1. CASE sc = "run_comparison"
    <2>1. PICK a, b : a = <<"header", "main-sweep">> /\ b = <<"header", "mq-sweep">>
      OBVIOUS
    <2>2. a \in Seq(Markers) /\ b \in Seq(Markers) /\ Len(a) = 2 /\ Len(b) = 2
      BY <2>1 DEF Markers
    <2>3. rs = a \o b
      BY <1>1, <2>1 DEF _write_markdown_report, _write_mq_markdown_report
    <2>4. PICK z : z = a \o b
      OBVIOUS
    <2>5. z \in Seq(Markers) /\ Len(z) = 4
      <3>1. z \in Seq(Markers) /\ Len(z) = Len(a) + Len(b)
        BY <2>2, <2>4, ConcatProperties
      <3> QED BY <2>2, <3>1
    <2>6. \A i \in 1 .. Len(z) : z[i] \in Markers
      BY <2>5, ElementOfSeq
    <2>7. Len(z) \in Nat \ {0}
      BY <2>5
    <2> QED BY <2>3, <2>4, <2>6, <2>7, Zenon
  <1>2. CASE sc = "boundary_demo"
    <2>1. rs = <<"header", "boundary-case-demo">>
      BY <1>2 DEF boundary_write_results_section
    <2>2. PICK z : z = <<"header", "boundary-case-demo">>
      OBVIOUS
    <2>3. Len(z) \in Nat \ {0} /\ \A i \in 1 .. Len(z) : z[i] \in Markers
      BY <2>2 DEF Markers
    <2> QED BY <2>1, <2>2, <2>3, Zenon
  <1>3. CASE sc # "run_comparison" /\ sc # "boundary_demo"
    <2>1. rs = <<"header", "mq-lag-demo">>
      BY <1>3 DEF lag_write_results_section
    <2>2. PICK z : z = <<"header", "mq-lag-demo">>
      OBVIOUS
    <2>3. Len(z) \in Nat \ {0} /\ \A i \in 1 .. Len(z) : z[i] \in Markers
      BY <2>2 DEF Markers
    <2> QED BY <2>1, <2>2, <2>3, Zenon
  <1> QED BY <1>1, <1>2, <1>3

\* A piece of a list, wherever it is taken, has the places 1 to its length.
LEMMA PieceDomain ==
    ASSUME NEW S, NEW s \in Seq(S), NEW a \in Int, NEW b \in Int, NEW q, q = SubSeq(s, a, b)
    PROVE  Len(q) \in Nat /\ DOMAIN q = 1 .. Len(q)
  <1>1. PICK U : U = S \cup {s[i] : i \in a .. b}
    OBVIOUS
  <1>2. s \in Seq(U)
    <2>1. S \subseteq U
      BY <1>1
    <2>2. Len(s) \in Nat /\ s \in [1 .. Len(s) -> S]
      BY LenProperties
    <2>3. s \in [1 .. Len(s) -> U]
      BY <2>1, <2>2
    <2> QED BY <2>2, <2>3, IsASeq
  <1>3. \A i \in a .. b : s[i] \in U
    BY <1>1
  <1>4. q \in Seq(U)
    BY <1>2, <1>3, SubSeqProperties
  <1> QED BY <1>4, LenProperties

\* What a section says has no marker in it.
LEMMA ContentIsText ==
    ASSUME NEW S, ReportFits, NEW marker
    PROVE  Content(marker) \in Seq(Tokens(S)) /\ Plain(Content(marker))
  <1>1. ASSUME NEW k \in Nat, NEW t \in [1 .. k -> {Text("result", run), Text("error", run)}]
        PROVE  t \in Seq(Tokens(S)) /\ Plain(t)
    <2>1. {Text("result", run), Text("error", run)} \subseteq Tokens(S)
      BY DEF Tokens, ReportFits
    <2>2. t \in [1 .. k -> Tokens(S)]
      BY <2>1
    <2>3. t \in Seq(Tokens(S)) /\ DOMAIN t = 1 .. k
      BY <2>2, IsASeq
    <2>4. Len(t) = k
      BY <2>3, LenProperties
    <2>5. \A i \in 1 .. Len(t) : t[i] = Text("result", run) \/ t[i] = Text("error", run)
      BY <2>4
    <2> QED BY <2>3, <2>5, MarkersDiffer DEF Plain
  <1>3. outcomes \in Seq({"result", "error"}) /\ Len(outcomes) \in Int
    BY LenProperties DEF ReportFits
  <1>4. AckRequiredSweep + LeaderlessSweep \in Int /\ AckRequiredSweep + LeaderlessSweep + 1 \in Int
    BY SweepAssumption
  <1>5. CASE marker = "header"
    <2>1. Content(marker) = <<Text("header", 0)>>
      BY <1>5 DEF Content
    <2>2. Text("header", 0) \in Tokens(S)
      BY DEF Tokens
    <2>3. PICK x : x = Text("header", 0)
      OBVIOUS
    <2>4. <<x>> \in Seq(Tokens(S)) /\ Len(<<x>>) = 1 /\ <<x>>[1] = x
      BY <2>2, <2>3
    <2>5. \A m : x # Begin(m) /\ x # End(m)
      BY <2>3, MarkersDiffer
    <2> QED BY <2>1, <2>3, <2>4, <2>5 DEF Plain
  <1>6. CASE marker = "main-sweep"
    <2>1. PICK q : q = SubSeq(outcomes, 1, AckRequiredSweep + LeaderlessSweep)
      OBVIOUS
    <2>2. PICK n : n = Cardinality({i \in DOMAIN q : q[i] = "result"})
      OBVIOUS
    <2>3. PICK f : f = [i \in DOMAIN q |-> IF i <= n THEN "result" ELSE "error"]
      OBVIOUS
    <2>4. PICK t : t = [i \in DOMAIN f |-> Text(f[i], run)]
      OBVIOUS
    <2>5. t \in Seq(Tokens(S)) /\ Plain(t)
      <3>1. PICK k \in Nat : DOMAIN q = 1 .. k
        BY <1>3, <1>4, <2>1, PieceDomain
      <3>2. DOMAIN f = 1 .. k /\ \A i \in 1 .. k : f[i] = "result" \/ f[i] = "error"
        BY <2>3, <3>1
      <3>3. t \in [1 .. k -> {Text("result", run), Text("error", run)}]
        BY <2>4, <3>2
      <3> QED BY <1>1, <3>3
    <2>6. Content(marker) = t
      BY <1>6, <2>1, <2>2, <2>3, <2>4 DEF Content
    <2> QED BY <2>5, <2>6
  <1>7. CASE marker = "mq-sweep"
    <2>1. PICK q : q = SubSeq(outcomes, AckRequiredSweep + LeaderlessSweep + 1, Len(outcomes))
      OBVIOUS
    <2>2. PICK n : n = Cardinality({i \in DOMAIN q : q[i] = "result"})
      OBVIOUS
    <2>3. PICK f : f = [i \in DOMAIN q |-> IF i <= n THEN "result" ELSE "error"]
      OBVIOUS
    <2>4. PICK t : t = [i \in DOMAIN f |-> Text(f[i], run)]
      OBVIOUS
    <2>5. t \in Seq(Tokens(S)) /\ Plain(t)
      <3>1. PICK k \in Nat : DOMAIN q = 1 .. k
        BY <1>3, <1>4, <2>1, PieceDomain
      <3>2. DOMAIN f = 1 .. k /\ \A i \in 1 .. k : f[i] = "result" \/ f[i] = "error"
        BY <2>3, <3>1
      <3>3. t \in [1 .. k -> {Text("result", run), Text("error", run)}]
        BY <2>4, <3>2
      <3> QED BY <1>1, <3>3
    <2>6. Content(marker) = t
      BY <1>7, <2>1, <2>2, <2>3, <2>4 DEF Content
    <2> QED BY <2>5, <2>6
  <1>8. CASE marker \notin {"header", "main-sweep", "mq-sweep"}
    <2>1. Content(marker) = [i \in DOMAIN outcomes |-> Text(outcomes[i], run)]
      BY <1>8 DEF Content
    <2>2. /\ Len(outcomes) \in Nat /\ DOMAIN outcomes = 1 .. Len(outcomes)
          /\ \A i \in 1 .. Len(outcomes) : outcomes[i] \in {"result", "error"}
      BY <1>3, LenProperties, ElementOfSeq
    <2>3. Content(marker) \in [1 .. Len(outcomes) -> {Text("result", run), Text("error", run)}]
      BY <2>1, <2>2
    <2> QED BY <1>1, <2>2, <2>3
  <1> QED BY <1>5, <1>6, <1>7, <1>8

\* Only WriteSection touches the document, and while there is something to
\* write nothing else moves the script.
LEMMA OtherStepsKeepReport ==
    ASSUME Next, ~WriteSection
    PROVE  /\ doc' = doc /\ wrote' = wrote /\ written' = written
           /\ phase = "report" => phase' = "report" /\ session' = session /\ run' = run
           /\ run' = run \/ run' = run + 1
           /\ \/ outcomes' = outcomes \/ outcomes' = <<>>
              \/ outcomes' = Append(outcomes, "result") \/ outcomes' = Append(outcomes, "error")
  <1>1. CASE BeginJob \/ StartByHand \/ ResetStep \/ ResetReturns \/ SpawnFollower \/ SpawnLast
    <2>1. phase # "report"
      BY <1>1 DEF BeginJob, StartByHand, ResetStep, ResetReturns, SpawnFollower, SpawnLast
    <2>2. UNCHANGED <<progress, report>>
      BY <1>1 DEF BeginJob, StartByHand, ResetStep, ResetReturns, SpawnFollower, SpawnLast
    <2> QED BY <2>1, <2>2 DEF progress, report
  <1>2. ASSUME NEW s \in Slots, _wait_for_all_healthy(s) \/ _wait_for_mq_followers_assigned(s)
        PROVE  phase # "report" /\ UNCHANGED <<progress, report>>
    BY <1>2 DEF _wait_for_all_healthy, _wait_for_mq_followers_assigned, DropFromPending
  <1>3. CASE LoadDone \/ StepRaises
    <2>1. phase # "report" /\ UNCHANGED <<session, run, report>>
      BY <1>3 DEF LoadDone, StepRaises
    <2>2. \/ outcomes' = outcomes
          \/ outcomes' = Append(outcomes, "result") \/ outcomes' = Append(outcomes, "error")
      BY <1>3 DEF LoadDone, StepRaises
    <2> QED BY <2>1, <2>2 DEF report
  <1>4. CASE QueryLagDone \/ StopNode \/ StopReturns \/ GraceExpires \/ Interrupt
    <2>1. phase # "report"
      BY <1>4 DEF QueryLagDone, StopNode, StopReturns, GraceExpires, Interrupt
    <2>2. UNCHANGED <<progress, report>>
      BY <1>4 DEF QueryLagDone, StopNode, StopReturns, GraceExpires, Interrupt
    <2> QED BY <2>1, <2>2 DEF progress, report
  <1>5. CASE JobEnds \/ KillUnanswered \/ SecondInterrupt
    <2>1. phase # "report" /\ UNCHANGED report
      BY <1>5 DEF JobEnds, KillUnanswered, SecondInterrupt, StopAllRaises
    <2>2. (run' = run \/ run' = run + 1) /\ (outcomes' = outcomes \/ outcomes' = <<>>)
      BY <1>5 DEF JobEnds, KillUnanswered, SecondInterrupt, StopAllRaises, NextScript
    <2> QED BY <2>1, <2>2 DEF report
  <1>6. CASE ~(Script \/ Interrupt \/ SecondInterrupt)
    <2>1. UNCHANGED others
      BY <1>6 DEF Next, NodeAdmin, NodeServes, NodeFetchesMetadata, NodeExits, LeftoverMakesTopic, DeletionEnds
    <2> QED BY <2>1 DEF others, progress, report
  <1>7. CASE \E s \in Slots : _wait_for_all_healthy(s) \/ _wait_for_mq_followers_assigned(s)
    BY <1>2, <1>7 DEF progress, report
  <1> QED BY <1>1, <1>3, <1>4, <1>5, <1>6, <1>7 DEF Script

\* So they keep the invariant of the document.
LEMMA OtherStepsKeepDoc ==
    ASSUME NEW T, DocInv(T), Next, ~WriteSection
    PROVE  DocInv(T)'
  <1>1. /\ doc' = doc /\ wrote' = wrote /\ written' = written
        /\ phase = "report" => phase' = "report" /\ session' = session /\ run' = run
        /\ run' = run \/ run' = run + 1
        /\ \/ outcomes' = outcomes \/ outcomes' = <<>>
           \/ outcomes' = Append(outcomes, "result") \/ outcomes' = Append(outcomes, "error")
    BY OtherStepsKeepReport
  <1>2. run' \in Nat
    BY <1>1 DEF DocInv, ReportFits
  <1>3. outcomes' \in Seq({"result", "error"})
    <2>1. outcomes \in Seq({"result", "error"})
      BY DEF DocInv, ReportFits
    <2>2. /\ Append(outcomes, "result") \in Seq({"result", "error"})
          /\ Append(outcomes, "error") \in Seq({"result", "error"})
          /\ <<>> \in Seq({"result", "error"})
      BY <2>1, AppendProperties, EmptySeq
    <2> QED BY <1>1, <2>1, <2>2
  <1>4. written' \in 0 .. Len(ReportSections') - 1 /\ (phase' # "report" => written' = 0)
    <2>1. CASE phase = "report"
      <3>1. ReportSections' = ReportSections
        BY <1>1, <2>1 DEF ReportSections, script, _write_markdown_report, _write_mq_markdown_report,
           boundary_write_results_section, lag_write_results_section
      <3> QED BY <1>1, <2>1, <3>1 DEF DocInv, ReportFits
    <2>2. CASE phase # "report"
      <3>1. written' = 0
        BY <1>1, <2>2 DEF DocInv, ReportFits
      <3>2. Len(ReportSections') \in Nat \ {0}
        BY SectionsOfReports DEF ReportSections
      <3> QED BY <3>1, <3>2
    <2> QED BY <2>1, <2>2
  <1>5. ReportFits'
    BY <1>2, <1>3, <1>4 DEF ReportFits
  <1> QED BY <1>1, <1>5 DEF DocInv, PrefaceKept

\* One replace_section of a report.
LEMMA WriteSectionKeepsDoc ==
    ASSUME NEW S, DocInv(Tokens(S)), WriteSection
    PROVE  DocInv(Tokens(S))'
  <1>1. PICK marker, c : marker = ReportSections[written + 1] /\ c = Content(marker)
    OBVIOUS
  <1>2. PICK T : T = Tokens(S)
    OBVIOUS
  <1>3. Len(ReportSections) \in Nat /\ \A i \in 1 .. Len(ReportSections) : ReportSections[i] \in Markers
    BY SectionsOfReports DEF ReportSections
  <1>4. written \in 0 .. Len(ReportSections) - 1
    BY DEF DocInv, ReportFits
  <1>5. marker \in Markers
    BY <1>1, <1>3, <1>4
  <1>6. c \in Seq(T) /\ Plain(c)
    BY <1>1, <1>2, ContentIsText DEF DocInv
  <1>7. Begin(marker) \in T /\ End(marker) \in T
    BY <1>2, <1>5 DEF Tokens
  <1>8. doc' = replace_section(doc, marker, c) /\ wrote' = [wrote EXCEPT ![marker] = c]
    BY <1>1 DEF WriteSection
  <1>9. doc \in Seq(T) /\ Sectioned(T, doc)
    BY <1>2 DEF DocInv
  <1>10. PICK n : n = doc'
    OBVIOUS
  <1>11. /\ n \in Seq(T) /\ Sectioned(T, n) /\ HasSection(n, marker, c)
         /\ \A m2 \in Markers \ {marker} :
              /\ Lacks(doc, m2) => Lacks(n, m2)
              /\ \A c2 \in Seq(T) : Plain(c2) /\ HasSection(doc, m2, c2) => HasSection(n, m2, c2)
         /\ \A l \in 0 .. Len(doc) : (\A k \in 1 .. l : doc[k] # Begin(marker)) =>
              l \in 0 .. Len(n) /\ \A k \in 1 .. l : n[k] = doc[k]
    <2>1. n = replace_section(doc, marker, c)
      BY <1>8, <1>10
    <2> QED BY <1>5, <1>6, <1>7, <1>9, <2>1, ReplaceKeepsOthers
  <1>12. doc' \in Seq(T) /\ Sectioned(T, doc)'
    BY <1>10, <1>11 DEF Sectioned
  <1>13. PrefaceKept'
    <2> SUFFICES ASSUME NEW l \in 0 .. Len(InitialDoc), \A k \in 1 .. l, m \in Markers : InitialDoc[k] # Begin(m)
                 PROVE  l \in 0 .. Len(n) /\ \A k \in 1 .. l : n[k] = InitialDoc[k]
      BY <1>10 DEF PrefaceKept
    <2>1. l \in 0 .. Len(doc) /\ \A k \in 1 .. l : doc[k] = InitialDoc[k]
      BY DEF DocInv, PrefaceKept
    <2>2. \A k \in 1 .. l : doc[k] # Begin(marker)
      BY <1>5, <2>1
    <2>3. l \in 0 .. Len(n) /\ \A k \in 1 .. l : n[k] = doc[k]
      BY <1>11, <2>1, <2>2
    <2> QED BY <2>1, <2>3
  <1>14. ASSUME NEW m \in Markers
         PROVE  Plain(wrote'[m]) /\ (wrote'[m] # <<>> => HasSection(doc', m, wrote'[m]))
    <2>1. CASE m = marker
      <3>1. wrote'[m] = c
        BY <1>8, <2>1 DEF DocInv
      <3> QED BY <1>6, <1>10, <1>11, <2>1, <3>1
    <2>2. CASE m # marker
      <3>1. wrote'[m] = wrote[m]
        BY <1>8, <2>2 DEF DocInv
      <3>2. wrote[m] \in Seq(T) /\ Plain(wrote[m]) /\ (wrote[m] # <<>> => HasSection(doc, m, wrote[m]))
        BY <1>2 DEF DocInv
      <3>3. wrote[m] # <<>> => HasSection(n, m, wrote[m])
        BY <1>11, <2>2, <3>2
      <3> QED BY <1>10, <3>1, <3>2, <3>3
    <2> QED BY <2>1, <2>2
  <1>15. ReportFits'
    <2>1. run \in Nat /\ outcomes \in Seq({"result", "error"}) /\ phase = "report"
      BY DEF DocInv, ReportFits, WriteSection
    <2>2. CASE written + 1 = Len(ReportSections)
      <3>1. written' = 0 /\ (run' = run \/ run' = run + 1) /\ (outcomes' = outcomes \/ outcomes' = <<>>)
        BY <2>2 DEF WriteSection, NextScript, progress
      <3>2. Len(ReportSections') \in Nat \ {0}
        BY SectionsOfReports DEF ReportSections
      <3>3. <<>> \in Seq({"result", "error"})
        BY EmptySeq
      <3>4. run' \in Nat /\ outcomes' \in Seq({"result", "error"}) /\ written' \in 0 .. Len(ReportSections') - 1
        <4>1. run' \in Nat
          BY <2>1, <3>1
        <4>2. outcomes' \in Seq({"result", "error"})
          BY <2>1, <3>1, <3>3
        <4>3. written' \in 0 .. Len(ReportSections') - 1
          BY <3>1, <3>2
        <4> QED BY <4>1, <4>2, <4>3
      <3> QED BY <3>1, <3>4 DEF ReportFits
    <2>3. CASE written + 1 # Len(ReportSections)
      <3>1. written' = written + 1 /\ UNCHANGED <<progress, phase>>
        BY <2>3 DEF WriteSection
      <3>2. session' = session /\ run' = run /\ outcomes' = outcomes /\ phase' = "report"
        BY <2>1, <3>1 DEF progress
      <3>3. ReportSections' = ReportSections
        BY <3>2 DEF ReportSections, script, _write_markdown_report, _write_mq_markdown_report,
           boundary_write_results_section, lag_write_results_section
      <3>4. written + 1 \in 0 .. Len(ReportSections) - 1
        BY <1>3, <1>4, <2>3
      <3> QED BY <2>1, <3>1, <3>2, <3>3, <3>4 DEF ReportFits
    <2> QED BY <2>2, <2>3
  <1>16. wrote' \in [Markers -> Seq(T)]
    BY <1>2, <1>6, <1>8 DEF DocInv
  <1>17. DocInv(T)'
    BY <1>12, <1>13, <1>14, <1>15, <1>16 DEF DocInv
  <1> QED BY <1>2, <1>17 DEF Tokens

\* The document as the session finds it.
LEMMA DocInvInit ==
    ASSUME NEW S, InitialDoc \in Seq(S), Sectioned(Tokens(S), InitialDoc), Init
    PROVE  DocInv(Tokens(S))
  <1>1. /\ run = 1 /\ outcomes = <<>> /\ written = 0 /\ phase = "begin"
        /\ doc = InitialDoc /\ wrote = [m \in Markers |-> <<>>]
    BY DEF Init
  <1>2. PICK T : T = Tokens(S)
    OBVIOUS
  <1>3. doc \in Seq(T)
    <2>1. S \subseteq T
      BY <1>2 DEF Tokens
    <2>2. Len(InitialDoc) \in Nat /\ InitialDoc \in [1 .. Len(InitialDoc) -> S]
      BY LenProperties
    <2>3. InitialDoc \in [1 .. Len(InitialDoc) -> T]
      BY <2>1, <2>2
    <2> QED BY <1>1, <2>2, <2>3, IsASeq
  <1>4. ReportFits
    <2>1. Len(ReportSections) \in Nat \ {0}
      BY SectionsOfReports DEF ReportSections
    <2>2. <<>> \in Seq({"result", "error"})
      BY EmptySeq
    <2> QED BY <1>1, <2>1, <2>2 DEF ReportFits
  <1>5. PrefaceKept
    BY <1>1 DEF PrefaceKept
  <1>6. \A m \in Markers : wrote[m] = <<>>
    BY <1>1
  <1>7. <<>> \in Seq(T) /\ Plain(<<>>)
    <2>1. <<>> \in Seq(T) /\ Len(<<>>) = 0
      BY EmptySeq
    <2> QED BY <2>1 DEF Plain
  <1>8. Sectioned(T, doc)
    BY <1>1, <1>2
  <1>9. wrote \in [Markers -> Seq(T)]
    BY <1>1, <1>7
  <1> QED BY <1>2, <1>3, <1>4, <1>5, <1>6, <1>7, <1>8, <1>9 DEF DocInv

\* The document always.
LEMMA DocInvariant ==
    ASSUME NEW S, InitialDoc \in Seq(S), Sectioned(Tokens(S), InitialDoc)
    PROVE  Spec => []DocInv(Tokens(S))
  <1>1. Init => DocInv(Tokens(S))
    BY DocInvInit
  <1>2. DocInv(Tokens(S)) /\ [Next]_vars => DocInv(Tokens(S))'
    <2> SUFFICES ASSUME DocInv(Tokens(S)), [Next]_vars
                 PROVE  DocInv(Tokens(S))'
      OBVIOUS
    <2>1. CASE Next
      <3>1. CASE WriteSection
        BY <3>1, WriteSectionKeepsDoc
      <3>2. CASE ~WriteSection
        <4>1. PICK T : T = Tokens(S)
          OBVIOUS
        <4>2. DocInv(T)'
          BY <2>1, <3>2, <4>1, OtherStepsKeepDoc
        <4> QED BY <4>1, <4>2 DEF Tokens
      <3> QED BY <3>1, <3>2
    <2>2. CASE UNCHANGED vars
      <3>1. /\ session' = session /\ run' = run /\ outcomes' = outcomes /\ written' = written
            /\ phase' = phase /\ doc' = doc /\ wrote' = wrote
        BY <2>2 DEF vars
      <3>2. ReportSections' = ReportSections
        BY <3>1 DEF ReportSections, script, _write_markdown_report, _write_mq_markdown_report,
           boundary_write_results_section, lag_write_results_section
      <3>3. ReportFits' /\ PrefaceKept'
        BY <3>1, <3>2 DEF DocInv, ReportFits, PrefaceKept
      <3>4. PICK T : T = Tokens(S)
        OBVIOUS
      <3>5. DocInv(T)'
        BY <3>1, <3>3, <3>4 DEF DocInv
      <3> QED BY <3>4, <3>5 DEF Tokens
    <2> QED BY <2>1, <2>2
  <1> QED BY <1>1, <1>2, PTL DEF Spec

\* _results_doc.py: a document whose sections are whole, like the one in docs/,
\* holds under each marker what was last reported there, once, whatever scripts
\* ran, failed or were interrupted in between.
THEOREM WholeSectionsStay ==
    ASSUME NEW S, InitialDoc \in Seq(S), Sectioned(Tokens(S), InitialDoc)
    PROVE  Spec => [](\A m \in Markers : wrote[m] # <<>> => HasSection(doc, m, wrote[m]))
  <1>1. DocInv(Tokens(S)) => \A m \in Markers : wrote[m] # <<>> => HasSection(doc, m, wrote[m])
    BY DEF DocInv
  <1> QED BY <1>1, DocInvariant, PTL

\* If it has no markers yet, it also keeps all that it held before the session.
THEOREM DocHoldsReports ==
    ASSUME NEW S, InitialDoc \in Seq(S), \A m \in Markers : Lacks(InitialDoc, m)
    PROVE  Spec => []DocHoldsLastReports
  <1>1. Sectioned(Tokens(S), InitialDoc)
    BY DEF Sectioned
  <1>2. DocInv(Tokens(S)) => DocHoldsLastReports
    <2> SUFFICES ASSUME DocInv(Tokens(S))
                 PROVE  SubSeq(doc, 1, Len(InitialDoc)) = InitialDoc
      BY DEF DocHoldsLastReports, DocInv
    <2>1. PICK l : l = Len(InitialDoc)
      OBVIOUS
    <2>2. l \in Nat
      BY <2>1, LenProperties
    <2>3. l \in 0 .. Len(InitialDoc) /\ \A k \in 1 .. l, m \in Markers : InitialDoc[k] # Begin(m)
      BY <2>1, <2>2 DEF Lacks, Without
    <2>4. l \in 0 .. Len(doc) /\ \A k \in 1 .. l : doc[k] = InitialDoc[k]
      BY <2>3 DEF DocInv, PrefaceKept
    <2>5. PICK T : T = Tokens(S)
      OBVIOUS
    <2>6. doc \in Seq(T) /\ Len(doc) \in Nat
      BY <2>5, LenProperties DEF DocInv
    <2>7. \A k \in 1 .. l : doc[k] \in T
      BY <2>2, <2>4, <2>6, ElementOfSeq
    <2>8. PICK q : q = SubSeq(doc, 1, l)
      OBVIOUS
    <2>9. /\ q \in Seq(T) /\ Len(q) = IF 1 <= l THEN l - 1 + 1 ELSE 0
          /\ \A k \in 1 .. l - 1 + 1 : q[k] = doc[1 + k - 1]
      BY <2>2, <2>6, <2>7, <2>8, SubSeqProperties
    <2>10. Len(q) = Len(InitialDoc) /\ \A k \in 1 .. Len(q) : q[k] = InitialDoc[k]
      BY <2>1, <2>2, <2>4, <2>9
    <2>11. InitialDoc \in Seq(S \cup T) /\ q \in Seq(S \cup T)
      BY <2>9
    <2>12. q = InitialDoc
      BY <2>10, <2>11, SeqEqual
    <2> QED BY <2>1, <2>8, <2>12
  <1> QED BY <1>1, <1>2, DocInvariant, PTL
=============================================================================

------------------------------ MODULE MCSweep -------------------------------
(* Small instances of Sweep for TLC.                                       *)
EXTENDS Sweep

\* A cluster is replaced by the next of its strategy within a script and from
\* one script to the next, which may find processes of the first still running;
\* a section is written again; nodes race to create the topic.
MCSessions == {
    <<"boundary_demo", "run_comparison", "boundary_demo">>,
    <<"lag_demo", "lag_demo">>,
    <<"by_hand">>}
MQSessions == {<<"run_comparison">>}

MCClients == 0 .. Followers + 1
Preface == <<Text("preface", 0)>>

\* What an interrupted write leaves behind: the text stops inside a section.
TornDoc == <<Begin("main-sweep"), Text("result", 0)>>
=============================================================================

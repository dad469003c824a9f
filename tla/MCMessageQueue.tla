--------------------------- MODULE MCMessageQueue ---------------------------
(* Small instances of MessageQueue for TLC: two keys share partition 0, the *)
(* third one is alone in partition 1.                                       *)
EXTENDS MessageQueue

CONSTANTS k1, k2, k3, w1, w2, w3, w4

TwoPartitions == [k \in Keys |-> IF k = k3 THEN 1 ELSE 0]
TargetKey == [w \in Writes |-> CASE w = w3 -> k2 [] w = w4 -> k3 [] OTHER -> k1]

\* w1 and w2 write the same key and are alike.
Permuted == Permutations({w1, w2})
=============================================================================

---------------------------- MODULE MCLeaderless ----------------------------
(* Small instances of Leaderless for TLC.                                  *)
EXTENDS Leaderless, TLC

Permuted == Permutations(Writes)

\* Bound: at most one replicate call fails, no internal read fails and no
\* handler is cancelled (MCLeaderless_live has all of these without bound).
FewFaults ==
    /\ Cardinality({t \in Writes \X Nodes : send[t[1]][t[2]] \in {"gaveup", "failed"}}) <= 1
    /\ \A r \in Reads : rstate[r] # "cancelled" /\ \A p \in Nodes : fetch[r][p] # "failed"
    /\ \A w \in Writes : wstate[w] # "cancelled"
=============================================================================

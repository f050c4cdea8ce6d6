--------------------------- MODULE MCRemotePlans ---------------------------
\* RemotePlans on a small instance.
EXTENDS RemotePlans, TLC

CONSTANTS p1, p2, r1, r2, k1, k2, a, b

MCPlan == {p1, p2}
MCReq == {r1, r2}
MCKey == {k1, k2}
MCView == {a, b}

Alike == Permutations(MCPlan) \cup Permutations(MCReq) \cup Permutations(MCKey)
           \cup Permutations(MCView)
=============================================================================

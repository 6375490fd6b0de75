---------------------------- MODULE MCChainReads ----------------------------
EXTENDS ChainReads, TLC
CONSTANTS r1, r2, k1, c1
MCRequest == {r1, r2}
MCKey == {k1}
MCKeyOf == [r \in MCRequest |-> k1]
MCDistinctIds == [r \in MCRequest |-> r]
MCHeadIndex == [k \in MCKey |-> 0]
=============================================================================

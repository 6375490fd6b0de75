------------------------- MODULE MCCrownReplication -------------------------
EXTENDS CrownReplication, TLC
CONSTANTS r1, r2, k1, c1
MCRequest == {r1, r2}
MCKey == {k1}
MCKeyOf == [r \in MCRequest |-> k1]
MCDistinctIds == [r \in MCRequest |-> r]
\* Server 1 of three is the head and server 0 the tail.
MCHash == k1 :> 4
MCReader == {c1}
MCSymmetry == Permutations(MCRequest)
=============================================================================

------------------------- MODULE MCCraqReplication -------------------------
EXTENDS CraqReplication, TLC
CONSTANTS r1, r2, k1
MCRequest == {r1, r2}
MCKey == {k1}
MCKeyOf == [r \in MCRequest |-> k1]
\* Every client numbers its requests from 1: distinct ids, or clashing ones.
MCDistinctIds == [r \in MCRequest |-> r]
MCSameId == [r \in MCRequest |-> 1]
MCHeadIndex == [k \in MCKey |-> 0]
MCSymmetry == Permutations(MCRequest)
=============================================================================

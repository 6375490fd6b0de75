--------------------------- MODULE MCForwardQueue ---------------------------
EXTENDS ForwardQueue
CONSTANTS p1, p2, w1, w2
=============================================================================

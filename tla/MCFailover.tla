----------------------------- MODULE MCFailover -----------------------------
EXTENDS Failover
CONSTANTS a, b, c
MCRing == <<a, b, c>>
=============================================================================

----------------------------- MODULE MCClientAcks -----------------------------
EXTENDS ClientAcks
===============================================================================

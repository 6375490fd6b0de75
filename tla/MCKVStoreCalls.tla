--------------------------- MODULE MCKVStoreCalls ---------------------------
EXTENDS KVStoreCalls
CONSTANTS va, vb
MCValue == {va, vb}
=============================================================================

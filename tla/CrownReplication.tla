-------------------------- MODULE CrownReplication --------------------------
(***************************************************************************)
(* CROWN (crown_replication.cpp) is CRAQ with one chain per key around the *)
(* same ring: the head of a key is found by hashing it and the tail is the *)
(* server before the head, so that every server is the head of some keys,  *)
(* the tail of others and in the middle for the rest.  The two source      *)
(* files differ in nothing but these two indexes, and so do the modules,   *)
(* for writes and for reads: this one only says where the heads are.       *)
(***************************************************************************)
EXTENDS CraqReads

CONSTANT Hash   \* Hash[k]: the 64-bit FNV-1a hash of the key

crown_head_index == [k \in Key |-> Hash[k] % RingSize]

ASSUME CrownAssumption ==
  Hash \in [Key -> Nat] /\ HeadIndex = crown_head_index

==============================================================================

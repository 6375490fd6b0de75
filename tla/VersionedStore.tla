--------------------------- MODULE VersionedStore ---------------------------
(***************************************************************************)
(* What the replicated store promises its clients: each key is one object  *)
(* whose writes are ordered by version, a prefix of them is committed, and *)
(* a read returns the write of some version that was the committed one at  *)
(* a moment between its call and its return.                               *)
(***************************************************************************)
EXTENDS Naturals, FiniteSets

CONSTANTS Request, NoValue, Key, KeyOf, Reader

VARIABLES
  version,     \* version[r]: the place of r among the writes of its key, or 0
  committed,   \* committed[k]: how many writes of k are committed
  reads        \* reads[c]: what reader c is doing

vars == <<version, committed, reads>>

Idle == [state |-> "idle"]
Reading(k, floor) == [state |-> "reading", key |-> k, floor |-> floor]
Returned(value) == [state |-> "returned", value |-> value]

writes_of(k) == {r \in Request : KeyOf[r] = k /\ version[r] # 0}

Init ==
  /\ version = [r \in Request |-> 0]
  /\ committed = [k \in Key |-> 0]
  /\ reads = [c \in Reader |-> Idle]

\* The next version of its key goes to a write that has none.
Order(r) ==
  /\ version[r] = 0
  /\ version' = [version EXCEPT ![r] = Cardinality(writes_of(KeyOf[r])) + 1]
  /\ UNCHANGED <<committed, reads>>

\* Any longer prefix of the ordered writes becomes the committed one.
Commit(k) ==
  /\ \E r \in writes_of(k) :
       /\ version[r] > committed[k]
       /\ committed' = [committed EXCEPT ![k] = version[r]]
  /\ UNCHANGED <<version, reads>>

BeginRead(c, k) ==
  /\ reads[c] = Idle
  /\ reads' = [reads EXCEPT ![c] = Reading(k, committed[k])]
  /\ UNCHANGED <<version, committed>>

ReturnWrite(c, r) ==
  /\ reads[c].state = "reading"
  /\ r \in writes_of(reads[c].key)
  /\ version[r] \in reads[c].floor..committed[reads[c].key]
  /\ reads' = [reads EXCEPT ![c] = Returned(r)]
  /\ UNCHANGED <<version, committed>>

\* "NOT_FOUND" is an answer only if nothing was committed when the read began.
ReturnNothing(c) ==
  /\ reads[c].state = "reading"
  /\ reads[c].floor = 0
  /\ reads' = [reads EXCEPT ![c] = Returned(NoValue)]
  /\ UNCHANGED <<version, committed>>

\* The service may also give up.
FailRead(c) ==
  /\ reads[c].state = "reading"
  /\ reads' = [reads EXCEPT ![c] = [state |-> "failed"]]
  /\ UNCHANGED <<version, committed>>

Next ==
  \/ \E r \in Request : Order(r)
  \/ \E k \in Key : Commit(k)
  \/ \E c \in Reader : \/ \E k \in Key : BeginRead(c, k)
                       \/ \E r \in Request : ReturnWrite(c, r)
                       \/ ReturnNothing(c)
                       \/ FailRead(c)

Spec == Init /\ [][Next]_vars

==============================================================================

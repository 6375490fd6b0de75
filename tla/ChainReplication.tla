-------------------------- MODULE ChainReplication --------------------------
(***************************************************************************)
(* Writes under plain chain replication (chain_replication.cpp), over a    *)
(* fixed membership.  Server 0 is the head of every key.  A forwarded      *)
(* write is stale when the server has seen, committed or not, its version  *)
(* or a later one, so a write overtaken on its way is acknowledged and     *)
(* forwarded without ever being stored.  Reads are served by the tail.     *)
(***************************************************************************)
EXTENDS Replication

ASSUME ChainAssumption == \A k \in Key : HeadIndex[k] = 0

\* Mutant: the next version is taken for stale.
HandleNextAsStale(m) ==
  BeginForwardedPut(m,
    m.version <= get_latest_version(store[m.to][KeyOf[m.request]]) + 1)

HandleForwardedPut(m) ==
  BeginForwardedPut(m,
    m.version <= get_latest_version(store[m.to][KeyOf[m.request]]))

Deliver == (\E m \in forwards : HandleForwardedPut(m)) \/ HandlePut \/ HandleAck

Next ==
  \/ \E r \in Request : HandleClientPut(r)
  \/ Deliver
  \/ RetryLoop
  \/ Lose

Spec == Init /\ [][Next]_vars

\* Servers keep running; clients need not write, the network need not lose.
FairSpec == Spec /\ WF_vars(Deliver) /\ WF_vars(RetryLoop)

-----------------------------------------------------------------------------
\* A write is acknowledged to its client only when the tail holds it, or a
\* later write of the key, though perhaps not committed.
CommitAckedSeenByTail ==
  \A c \in commitAcks :
    LET k == KeyOf[c.request]
    IN  get_latest_version(store[tail_index(k)][k]) >= c.version

\* Every server ends with the last write of each key committed, nothing dirty
\* and nothing pending; so a write that was overtaken and acknowledged early
\* is covered at the tail in the end.
Converges ==
  <>[](/\ pending = {}
       /\ \A n \in Node, k \in Key :
            /\ ~ has_dirty(store[n][k])
            /\ store[n][k].clean = store[tail_index(k)][k].clean)

==============================================================================

--------------------------- MODULE CraqReplication ---------------------------
(***************************************************************************)
(* Writes under CRAQ (craq_replication.cpp), over a fixed membership.  A   *)
(* forwarded write is stale when the server has committed its version or a *)
(* later one.  With every head_index 0 this is CRAQ itself; CrownReplication*)
(* is this module with the head hashed from the key.                       *)
(***************************************************************************)
EXTENDS Replication

get_committed_state(n, k) == store[n][k].clean.version

\* Mutant: the test of plain chain replication, with the dirty records.
HandleOvertakenPut(m) ==
  BeginForwardedPut(m,
    m.version <= get_latest_version(store[m.to][KeyOf[m.request]]))

HandleForwardedPut(m) ==
  BeginForwardedPut(m,
    m.version <= get_committed_state(m.to, KeyOf[m.request]))

Deliver == (\E m \in forwards : HandleForwardedPut(m)) \/ HandlePut \/ HandleAck

Next ==
  \/ \E r \in Request : HandleClientPut(r)
  \/ Deliver
  \/ RetryLoop
  \/ Lose

Spec == Init /\ [][Next]_vars

\* Servers keep running: handlers return, workers empty the queue, the retry
\* thread wakes up.  Clients need not write and the network need not lose.
FairSpec == Spec /\ WF_vars(Deliver) /\ WF_vars(RetryLoop)

-----------------------------------------------------------------------------
\* A client that gets a CommitAck for a version finds that version, or a later
\* one, committed at the tail: whatever is reordered, lost or retried, the
\* tail never acknowledges a write it has not committed.
CommitAckedAtTail ==
  \A c \in commitAcks : tail_version(KeyOf[c.request]) >= c.version

\* No server commits ahead of the tail, so a read served from a clean record
\* never returns a write that is not committed.
CleanBelowTail ==
  \A n \in Node, k \in Key : store[n][k].clean.version <= tail_version(k)

\* replication.h:51: a forwarded write is kept in pending_acks "until you
\* receive an ack for it".  An ack says that the successor has committed the
\* write, so no entry is erased, or replaced by another request, before that.
PendingUntilAcked ==
  [][\A e \in pending :
       (\A f \in pending' : f.node = e.node => f.request # e.request)
         => store[next_index(e.node)][KeyOf[e.request]].clean.version
              >= e.version]_vars

\* A request that got a version is in the end committed by every server, and
\* no pending entry is left: the retries make up for what the network loses.
WritesCommitEverywhere ==
  \A r \in Request :
    assigned[r] # 0 ~>
      \A n \in Node : store[n][KeyOf[r]].clean.version >= assigned[r]

PendingDrains == <>[](pending = {})

==============================================================================

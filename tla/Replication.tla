----------------------------- MODULE Replication -----------------------------
(***************************************************************************)
(* What the replication protocols share (replication.h,                    *)
(* replication_common.cpp and the common text of the protocol files): the  *)
(* ring, the steps of handle_put and handle_ack, forwarding, the pending   *)
(* acks and the RetryLoop of each server.  The membership is fixed and     *)
(* every server runs the same protocol; what differs between protocols,    *)
(* the test that finds a forwarded write stale, is added by CraqReplication*)
(* and ChainReplication.                                                   *)
(*                                                                         *)
(* Handlers run on gRPC threads.  A handler is cut where it releases a     *)
(* lock and later takes one again, so other handlers of the same server    *)
(* run in between; sends go to an unordered network that can lose them.    *)
(***************************************************************************)
EXTENDS KVStore

CONSTANTS
  RingSize,        \* number of servers in the membership
  Key,
  KeyOf,           \* KeyOf[r]: the key request r writes
  IdOf,            \* IdOf[r]: request_id, chosen by the client
  HeadIndex,       \* HeadIndex[k]: the server that orders the writes of k
  MaxRetryCount,   \* kMaxRetryCount
  MaxFaults        \* bound on the faults of the network

Request == Value   \* a Put is named by the value it writes

Node == 0..(RingSize - 1)

ASSUME ReplicationAssumption ==
  /\ RingSize \in Nat \ {0}
  /\ KeyOf \in [Request -> Key]
  /\ DOMAIN IdOf = Request
  /\ HeadIndex \in [Key -> Node]
  /\ MaxRetryCount \in Nat
  /\ MaxFaults \in Nat

VARIABLES
  store,        \* store[n][k]: key k in the KVStore of server n
  pending,      \* pending_acks of every server, one entry per server and id
  forwards,     \* ForwardPut requests queued, in flight or arriving
  writeAcks,    \* WriteAcks in flight
  commitAcks,   \* history: CommitAcks sent to clients
  puts,         \* handle_put threads that have looked at the store
  acking,       \* handle_ack threads that have found their pending entry
  expired,      \* what each RetryLoop has collected and not yet re-forwarded
  assigned,     \* history: the version the head gave each request, 0 if none
  faults        \* number of messages lost, or so slow that an ack deadline
                \* passed while the write was still on its way

vars == <<store, pending, forwards, writeAcks, commitAcks, puts, acking,
          expired, assigned, faults>>

-----------------------------------------------------------------------------
\* (node_index + 1) % ring_size and (node_index + ring_size - 1) % ring_size
next_index(n) == IF n = RingSize - 1 THEN 0 ELSE n + 1
prev_index(n) == IF n = 0 THEN RingSize - 1 ELSE n - 1

head_index(k) == HeadIndex[k]

tail_index(k) == prev_index(HeadIndex[k])

Forward == [to : Node, request : Request, version : Version]
PendingEntry == [node : Node, request : Request, version : Version,
                 retries : 0..MaxRetryCount]
WriteAck == [to : Node, id : {IdOf[r] : r \in Request}]
CommitAck == [request : Request, version : Version]
PutThread == [node : Node, request : Request, version : Version,
              stale : BOOLEAN, step : {"put", "finish"}]
Job == [node : Node, request : Request, version : Version]

TypeOK ==
  /\ store \in [Node -> [Key -> Store]]
  /\ pending \subseteq PendingEntry
  /\ forwards \subseteq Forward
  /\ writeAcks \subseteq WriteAck
  /\ commitAcks \subseteq CommitAck
  /\ puts \subseteq PutThread
  /\ acking \subseteq Job
  /\ expired \subseteq Job
  /\ assigned \in [Request -> 0..MaxVersion]
  /\ faults \in 0..MaxFaults

Init ==
  /\ store = [n \in Node |-> [k \in Key |-> EmptyStore]]
  /\ pending = {}
  /\ forwards = {}
  /\ writeAcks = {}
  /\ commitAcks = {}
  /\ puts = {}
  /\ acking = {}
  /\ expired = {}
  /\ assigned = [r \in Request |-> 0]
  /\ faults = 0

-----------------------------------------------------------------------------
pending_of(n, id) == {e \in pending : e.node = n /\ IdOf[e.request] = id}

\* An entry already there under the id keeps its retry count and takes the
\* new request.
add_to_pending_acks(n, r, v) ==
  LET old     == pending_of(n, IdOf[r])
      retries == IF old = {} THEN 0 ELSE (CHOOSE e \in old : TRUE).retries
  IN  pending' = (pending \ old)
                   \cup {[node |-> n, request |-> r, version |-> v,
                          retries |-> retries]}

\* The queue and its workers keep no order: the message is just in flight.
forward_put(n, r, v) ==
  /\ add_to_pending_acks(n, r, v)
  /\ forwards' = forwards \cup
       {[to |-> next_index(n), request |-> r, version |-> v]}

write_ack(n, r) == [to |-> prev_index(n), id |-> IdOf[r]]

-----------------------------------------------------------------------------
\* handle_put of a client's request, at the head of its key: a version is
\* assigned and stored in one call of put.
HandleClientPut(r) ==
  LET k == KeyOf[r]
      n == head_index(k)
      v == get_latest_version(store[n][k]) + 1
  IN  /\ assigned[r] = 0
      /\ v <= MaxVersion
      /\ store' = [store EXCEPT ![n][k] = put_new(@, r)]
      /\ assigned' = [assigned EXCEPT ![r] = v]
      /\ puts' = puts \cup {[node |-> n, request |-> r, version |-> v,
                             stale |-> FALSE, step |-> "finish"]}
      /\ UNCHANGED <<pending, forwards, writeAcks, commitAcks, acking, expired,
                     faults>>

\* handle_put of a forwarded request: the stale test reads the store.
BeginForwardedPut(m, stale) ==
  /\ m \in forwards
  /\ forwards' = forwards \ {m}
  /\ puts' = puts \cup {[node |-> m.to, request |-> m.request,
                         version |-> m.version, stale |-> stale,
                         step |-> IF stale THEN "finish" ELSE "put"]}
  /\ UNCHANGED <<store, pending, writeAcks, commitAcks, acking, expired,
                 assigned, faults>>

\* Mutant: the write is committed as soon as it is stored.
StoreForwardedPutClean(p) ==
  /\ p \in puts
  /\ p.step = "put"
  /\ store' = [store EXCEPT ![p.node][KeyOf[p.request]] =
                 mark_clean(put(@, p.request, p.version), p.version)]
  /\ puts' = (puts \ {p}) \cup {[p EXCEPT !.step = "finish"]}
  /\ UNCHANGED <<pending, forwards, writeAcks, commitAcks, acking, expired,
                 assigned, faults>>

\* ... a write found fresh is stored in a later call, under the lock again ...
StoreForwardedPut(p) ==
  /\ p \in puts
  /\ p.step = "put"
  /\ store' = [store EXCEPT ![p.node][KeyOf[p.request]] =
                 put(@, p.request, p.version)]
  /\ puts' = (puts \ {p}) \cup {[p EXCEPT !.step = "finish"]}
  /\ UNCHANGED <<pending, forwards, writeAcks, commitAcks, acking, expired,
                 assigned, faults>>

\* Mutant: the tail drops a stale write, so a retry is not acknowledged.
FinishPutUnlessStale(p) ==
  LET k == KeyOf[p.request]
  IN  /\ p \in puts
      /\ p.step = "finish"
      /\ p.node = tail_index(k)
      /\ IF p.stale
         THEN UNCHANGED <<store, writeAcks, commitAcks>>
         ELSE /\ store' = [store EXCEPT ![p.node][k] = mark_clean(@, p.version)]
              /\ writeAcks' = writeAcks \cup {write_ack(p.node, p.request)}
              /\ commitAcks' = commitAcks \cup
                   {[request |-> p.request, version |-> p.version]}
      /\ puts' = puts \ {p}
      /\ UNCHANGED <<pending, forwards, acking, expired, assigned, faults>>

\* ... and the handler ends at the tail by committing and acknowledging,
FinishPutAtTail(p) ==
  LET k == KeyOf[p.request]
  IN  /\ p \in puts
      /\ p.step = "finish"
      /\ p.node = tail_index(k)
      /\ store' = IF p.stale
                  THEN store
                  ELSE [store EXCEPT ![p.node][k] = mark_clean(@, p.version)]
      /\ writeAcks' = IF RingSize = 1
                      THEN writeAcks
                      ELSE writeAcks \cup {write_ack(p.node, p.request)}
      /\ commitAcks' = commitAcks \cup
           {[request |-> p.request, version |-> p.version]}
      /\ puts' = puts \ {p}
      /\ UNCHANGED <<pending, forwards, acking, expired, assigned, faults>>

\* Mutant: a server that has committed the write does not pass a retry on.
FinishPutForwardFresh(p) ==
  /\ p \in puts
  /\ p.step = "finish"
  /\ p.node # tail_index(KeyOf[p.request])
  /\ IF p.stale
     THEN UNCHANGED <<pending, forwards>>
     ELSE forward_put(p.node, p.request, p.version)
  /\ puts' = puts \ {p}
  /\ UNCHANGED <<store, writeAcks, commitAcks, acking, expired, assigned,
                 faults>>

\* elsewhere by forwarding, stale or not.
FinishPutByForwarding(p) ==
  /\ p \in puts
  /\ p.step = "finish"
  /\ p.node # tail_index(KeyOf[p.request])
  /\ forward_put(p.node, p.request, p.version)
  /\ puts' = puts \ {p}
  /\ UNCHANGED <<store, writeAcks, commitAcks, acking, expired, assigned,
                 faults>>

-----------------------------------------------------------------------------
\* handle_ack copies the pending entry under the id of the ack, if any ...
BeginAck(a) ==
  /\ a \in writeAcks
  /\ writeAcks' = writeAcks \ {a}
  /\ acking' = acking \cup {[node |-> e.node, request |-> e.request,
                             version |-> e.version]
                              : e \in pending_of(a.to, a.id)}
  /\ UNCHANGED <<store, pending, forwards, commitAcks, puts, expired, assigned,
                 faults>>

\* ... commits the write here, passes the ack towards the head and erases
\* whatever is by then pending under the id.
FinishAck(j) ==
  LET k == KeyOf[j.request]
  IN  /\ j \in acking
      /\ store' = [store EXCEPT ![j.node][k] = mark_clean(@, j.version)]
      /\ writeAcks' = IF j.node = head_index(k)
                      THEN writeAcks
                      ELSE writeAcks \cup {write_ack(j.node, j.request)}
      /\ pending' = pending \ pending_of(j.node, IdOf[j.request])
      /\ acking' = acking \ {j}
      /\ UNCHANGED <<forwards, commitAcks, puts, expired, assigned, faults>>

-----------------------------------------------------------------------------
\* Something of the write is still on its way or being handled.
InFlight(r) ==
  \/ \E m \in forwards : m.request = r
  \/ \E a \in writeAcks : a.id = IdOf[r]
  \/ \E x \in puts \cup acking \cup expired : x.request = r

\* Mutant: an expired entry leaves pending_acks until it is forwarded again.
CollectAndErase(n, due) ==
  /\ ~ \E j \in expired : j.node = n
  /\ due # {}
  /\ \A e \in due : /\ e.node = n
                    /\ e.retries < MaxRetryCount
                    /\ ~ InFlight(e.request)
  /\ pending' = pending \ due
  /\ expired' = expired \cup
       {[node |-> n, request |-> e.request, version |-> e.version] : e \in due}
  /\ UNCHANGED <<store, forwards, writeAcks, commitAcks, puts, acking,
                 assigned, faults>>

\* collect_expired_requests, called by the RetryLoop of n between two rounds:
\* the entries whose deadline has passed and that have retries left.
CollectExpired(n, due) ==
  /\ ~ \E j \in expired : j.node = n
  /\ due # {}
  /\ \A e \in due : e.node = n /\ e.retries < MaxRetryCount
  /\ \/ /\ \A e \in due : ~ InFlight(e.request)
        /\ UNCHANGED faults
     \/ /\ \E e \in due : InFlight(e.request)
        /\ faults < MaxFaults
        /\ faults' = faults + 1
  /\ pending' = (pending \ due) \cup
                  {[e EXCEPT !.retries = @ + 1] : e \in due}
  /\ expired' = expired \cup
       {[node |-> n, request |-> e.request, version |-> e.version] : e \in due}
  /\ UNCHANGED <<store, forwards, writeAcks, commitAcks, puts, acking,
                 assigned>>

\* The RetryLoop forwards what it collected, whatever became of the entry
\* in the meantime.
ReForward(j) ==
  /\ j \in expired
  /\ forward_put(j.node, j.request, j.version)
  /\ expired' = expired \ {j}
  /\ UNCHANGED <<store, writeAcks, commitAcks, puts, acking, assigned, faults>>

\* An RPC fails or passes its deadline; nobody looks at the status.
LoseForward(m) ==
  /\ m \in forwards
  /\ faults < MaxFaults
  /\ faults' = faults + 1
  /\ forwards' = forwards \ {m}
  /\ UNCHANGED <<store, pending, writeAcks, commitAcks, puts, acking, expired,
                 assigned>>

LoseAck(a) ==
  /\ a \in writeAcks
  /\ faults < MaxFaults
  /\ faults' = faults + 1
  /\ writeAcks' = writeAcks \ {a}
  /\ UNCHANGED <<store, pending, forwards, commitAcks, puts, acking, expired,
                 assigned>>

-----------------------------------------------------------------------------
FinishPut(p) == FinishPutAtTail(p) \/ FinishPutByForwarding(p)

HandlePut == \E p \in puts : StoreForwardedPut(p) \/ FinishPut(p)

HandleAck ==
  \/ \E a \in writeAcks : BeginAck(a)
  \/ \E j \in acking : FinishAck(j)

RetryLoop ==
  \/ \E n \in Node, due \in SUBSET pending : CollectExpired(n, due)
  \/ \E j \in expired : ReForward(j)

Lose ==
  \/ \E m \in forwards : LoseForward(m)
  \/ \E a \in writeAcks : LoseAck(a)

-----------------------------------------------------------------------------
tail_version(k) == store[tail_index(k)][k].clean.version

tail_versions == [k \in Key |-> tail_version(k)]

\* Two servers never keep different values under one version of a key, dirty
\* or clean: each record is the write that was assigned its version.
RecordsAgree ==
  \A n \in Node, k \in Key :
    /\ \A v \in dirty_versions(store[n][k]) :
         LET r == store[n][k].dirty[v] IN KeyOf[r] = k /\ assigned[r] = v
    /\ LET c == store[n][k].clean
       IN  c.version # 0 => KeyOf[c.value] = k /\ assigned[c.value] = c.version

\* The head never gives one version of a key to two writes.
VersionsUnique ==
  \A r, s \in Request :
    r # s /\ KeyOf[r] = KeyOf[s] /\ assigned[r] # 0
      => assigned[r] # assigned[s]

\* No server's committed version of a key ever goes back, although commits of
\* a key can come in any order.
CleanNeverRollsBack ==
  [][\A n \in Node, k \in Key :
       store'[n][k].clean.version >= store[n][k].clean.version]_vars

==============================================================================

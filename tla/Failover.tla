------------------------------ MODULE Failover ------------------------------
(***************************************************************************)
(* Writes while servers crash and are removed: the RPC handlers of         *)
(* server.cpp, the writes of craq_replication.cpp and replication_common   *)
(* under them, and ApplyMembership and the RetryLoop, which send again     *)
(* what the crashed server swallowed.  One key, mode CRAQ, no server       *)
(* joins.                                                                  *)
(*                                                                         *)
(* How a configuration is made and reaches the servers is the matter of    *)
(* MetadataStore and ServerMembership; here a crashed server is in the end *)
(* removed and every server in the end learns of it.  The cuts inside a    *)
(* handler that do not concern the ring are the matter of Replication.     *)
(* New here: each server, handler and message has a ring or an epoch of    *)
(* its own.                                                                *)
(***************************************************************************)
EXTENDS KVStore, SequencesExt

CONSTANTS
  Ring,            \* the first membership: servers from head to tail
  LastPutEpoch,    \* bound on the epochs in which clients write
  MaxRetryCount,   \* kMaxRetryCount
  MaxFaults        \* bound on the faults: crashes, messages lost between
                   \* servers that run, and ack deadlines that pass while the
                   \* write is on its way

ASSUME FailoverAssumption ==
  /\ Ring \in Seq(ToSet(Ring)) /\ IsInjective(Ring) /\ Len(Ring) > 1
  /\ LastPutEpoch \in Nat /\ MaxRetryCount \in Nat /\ MaxFaults \in Nat

Request == Value   \* a Put is named by the value it writes; ids are distinct

Server == ToSet(Ring)

VARIABLES
  up,          \* the servers that run
  configs,     \* configs[e]: the membership of epoch e, as the metadata store
               \* has issued it
  epoch,       \* of each server: the epoch in its ServerState
  ring,        \* of each server: the protocol object's membership and epoch
  applying,    \* ApplyMembership threads
  store,       \* of each server: the key in its KVStore
  pending,     \* pending_acks of every server
  forwards,    \* ForwardPuts queued or in flight
  puts,        \* threads in Put or ForwardPut
  jobs,        \* requests ApplyMembership or RetryLoop has yet to forward
  writeAcks,   \* WriteAcks in flight
  commitAcks,  \* history: CommitAcks sent to clients
  assigned,    \* history: the version a head gave each request, 0 if none
  faults

membershipVars == <<up, configs, epoch, ring, applying>>
vars == <<membershipVars, store, pending, forwards, puts, jobs, writeAcks,
          commitAcks, assigned, faults>>

current == Len(configs)

Entry == [node : Server, request : Request, version : Version,
          retries : 0..MaxRetryCount]
Forward == [from : Server, to : Server, request : Request, version : Version,
            epoch : Nat]
PutThread == [node : Server, request : Request, version : 0..MaxVersion,
              step : {"accepted", "stored"}, stale : BOOLEAN,
              members : Seq(Server)]
Job == [node : Server, to : Server, request : Request, version : Version]
WriteAck == [from : Server, to : Server, request : Request]
Thread == [node : Server, epoch : Nat, step : {"ring", "epoch"}]

TypeOK ==
  /\ up \subseteq Server
  /\ configs \in Seq(Seq(Server)) /\ current \in 1..Len(Ring)
  /\ epoch \in [Server -> 1..current]
  /\ ring \in [Server -> [members : Seq(Server), epoch : 1..current]]
  /\ applying \subseteq Thread
  /\ store \in [Server -> Store]
  /\ pending \subseteq Entry
  /\ forwards \subseteq Forward
  /\ puts \subseteq PutThread
  /\ jobs \subseteq Job
  /\ writeAcks \subseteq WriteAck
  /\ commitAcks \subseteq [request : Request, version : Version]
  /\ assigned \in [Request -> 0..MaxVersion]
  /\ faults \in 0..MaxFaults

Init ==
  /\ up = Server
  /\ configs = <<Ring>>
  /\ epoch = [n \in Server |-> 1]
  /\ ring = [n \in Server |-> [members |-> Ring, epoch |-> 1]]
  /\ applying = {}
  /\ store = [n \in Server |-> EmptyStore]
  /\ pending = {} /\ forwards = {} /\ puts = {} /\ jobs = {}
  /\ writeAcks = {} /\ commitAcks = {}
  /\ assigned = [r \in Request |-> 0]
  /\ faults = 0

Fault == faults < MaxFaults /\ faults' = faults + 1

-----------------------------------------------------------------------------
node_index(members, n) == CHOOSE i \in DOMAIN members : members[i] = n

next_server(members, n) == members[(node_index(members, n) % Len(members)) + 1]

prev_server(members, n) ==
  members[((node_index(members, n) + Len(members) - 2) % Len(members)) + 1]

members_without(members, n) == RemoveAt(members, node_index(members, n))

is_head(members, n) == n = Head(members)

\* node_index == tail_index || !next_stub
is_tail(members, n) == n = Last(members)

\* forward_put: the entry is staged under the request's id, and the request
\* takes the epoch of the protocol object.
forward_put(n, to, r, v) ==
  LET old     == {e \in pending : e.node = n /\ e.request = r}
      retries == IF old = {} THEN 0 ELSE (CHOOSE e \in old : TRUE).retries
  IN  /\ pending' = (pending \ old) \cup
           {[node |-> n, request |-> r, version |-> v, retries |-> retries]}
      /\ forwards' = forwards \cup
           {[from |-> n, to |-> to, request |-> r, version |-> v,
             epoch |-> ring[n].epoch]}

write_ack(members, n, r) ==
  [from |-> n, to |-> prev_server(members, n), request |-> r]

-----------------------------------------------------------------------------
\* A server stops, with all it had in memory.  One is left.
Crash(n) ==
  /\ n \in up /\ up # {n}
  /\ Fault
  /\ up' = up \ {n}
  /\ store' = [store EXCEPT ![n] = EmptyStore]
  /\ pending' = {e \in pending : e.node # n}
  /\ puts' = {p \in puts : p.node # n}
  /\ jobs' = {j \in jobs : j.node # n}
  /\ applying' = {t \in applying : t.node # n}
  /\ UNCHANGED <<configs, epoch, ring, forwards, writeAcks, commitAcks,
                 assigned>>

\* The metadata store misses its heartbeats and removes it.
RemoveServer(n) ==
  /\ n \notin up
  /\ Contains(Last(configs), n)
  /\ configs' = Append(configs, members_without(Last(configs), n))
  /\ UNCHANGED <<up, epoch, ring, applying, store, pending, forwards, puts,
                 jobs, writeAcks, commitAcks, assigned, faults>>

\* A newer configuration reaches the ServerState, by Reconfigure, by the
\* heartbeat or by an RPC with a newer epoch.
LearnEpoch(n, e) ==
  /\ n \in up
  /\ e \in (epoch[n] + 1)..current
  /\ epoch' = [epoch EXCEPT ![n] = e]
  /\ applying' = applying \cup {[node |-> n, epoch |-> e, step |-> "ring"]}
  /\ UNCHANGED <<up, configs, ring, store, pending, forwards, puts, jobs,
                 writeAcks, commitAcks, assigned, faults>>

UpdateMembership(t) ==
  /\ t.step = "ring"
  /\ ring' = [ring EXCEPT ![t.node].members = configs[t.epoch]]
  /\ applying' = (applying \ {t}) \cup {[t EXCEPT !.step = "epoch"]}
  /\ UNCHANGED <<up, configs, epoch, store, pending, forwards, puts, jobs,
                 writeAcks, commitAcks, assigned, faults>>

\* Sent along the ring, unless the server is alone in it.
resend(n, entries) ==
  IF Len(ring[n].members) = 1 THEN {}
  ELSE {[node |-> n, to |-> next_server(ring[n].members, n),
         request |-> e.request, version |-> e.version] : e \in entries}

\* set_epoch, and then the snapshot of the pending writes.
SetEpoch(t) ==
  /\ t.step = "epoch"
  /\ ring' = [ring EXCEPT ![t.node].epoch = t.epoch]
  /\ jobs' = jobs \cup resend(t.node, {e \in pending : e.node = t.node})
  /\ applying' = applying \ {t}
  /\ UNCHANGED <<up, configs, epoch, store, pending, forwards, puts,
                 writeAcks, commitAcks, assigned, faults>>

-----------------------------------------------------------------------------
Enter(n, r, v) ==
  puts' = puts \cup {[node |-> n, request |-> r, version |-> v,
                      step |-> "accepted", stale |-> FALSE, members |-> <<>>]}

\* Put: a client that knows epoch e calls the head of that epoch, whose
\* gateway lets it pass.
Put(r, e) ==
  LET n == Head(configs[e])
  IN  /\ assigned[r] = 0 /\ \A p \in puts : p.request # r
      /\ e <= LastPutEpoch
      /\ n \in up /\ e >= epoch[n]
      /\ Enter(n, r, 0)
      /\ UNCHANGED <<membershipVars, store, pending, forwards, jobs, writeAcks,
                     commitAcks, assigned, faults>>

\* The gateway drops a forward of an older epoch.  One of a newer epoch first
\* makes the server ask for the membership, which may fail: it is handled
\* before or after the server has learnt the epoch.
ForwardPut(m) ==
  /\ m.to \in up
  /\ forwards' = forwards \ {m}
  /\ IF m.epoch < epoch[m.to]
     THEN UNCHANGED puts
     ELSE Enter(m.to, m.request, m.version)
  /\ UNCHANGED <<membershipVars, store, pending, jobs, writeAcks, commitAcks,
                 assigned, faults>>

Stored(p, v, stale, members) ==
  puts' = (puts \ {p}) \cup
    {[p EXCEPT !.version = v, !.stale = stale, !.step = "stored",
               !.members = members]}

\* handle_put copies the ring.  A client's write gets its version from the
\* head, and is refused by the others ...
AssignVersion(p) ==
  LET members == ring[p.node].members
      v       == get_latest_version(store[p.node]) + 1
  IN  /\ p.step = "accepted" /\ p.version = 0
      /\ v <= MaxVersion
      /\ IF is_head(members, p.node)
         THEN /\ store' = [store EXCEPT ![p.node] = put_new(@, p.request)]
              /\ assigned' = [assigned EXCEPT ![p.request] = v]
              /\ Stored(p, v, FALSE, members)
         ELSE /\ puts' = puts \ {p}
              /\ UNCHANGED <<store, assigned>>
      /\ UNCHANGED <<membershipVars, pending, forwards, jobs, writeAcks,
                     commitAcks, faults>>

\* Mutant: a forwarded write is committed as soon as it is stored.
StoreForwardedClean(p) ==
  /\ p.step = "accepted" /\ p.version # 0
  /\ store' = [store EXCEPT ![p.node] =
                 mark_clean(put(@, p.request, p.version), p.version)]
  /\ Stored(p, p.version, FALSE, ring[p.node].members)
  /\ UNCHANGED <<membershipVars, pending, forwards, jobs, writeAcks,
                 commitAcks, assigned, faults>>

\* ... and a forwarded write is stored unless it is stale.
StoreForwarded(p) ==
  LET stale == p.version <= store[p.node].clean.version
  IN  /\ p.step = "accepted" /\ p.version # 0
      /\ store' = IF stale THEN store
                  ELSE [store EXCEPT ![p.node] = put(@, p.request, p.version)]
      /\ Stored(p, p.version, stale, ring[p.node].members)
      /\ UNCHANGED <<membershipVars, pending, forwards, jobs, writeAcks,
                     commitAcks, assigned, faults>>

\* Mutant: the head is the one that commits.
CommitAtHead(p) ==
  /\ p.step = "stored"
  /\ is_head(p.members, p.node)
  /\ store' = [store EXCEPT ![p.node] = mark_clean(@, p.version)]
  /\ commitAcks' = commitAcks \cup
       {[request |-> p.request, version |-> p.version]}
  /\ forward_put(p.node, next_server(p.members, p.node), p.request, p.version)
  /\ puts' = puts \ {p}
  /\ UNCHANGED <<membershipVars, jobs, writeAcks, assigned, faults>>

\* What follows goes by the ring that was copied: the tail commits and
\* acknowledges,
CommitAtTail(p) ==
  /\ p.step = "stored"
  /\ is_tail(p.members, p.node)
  /\ store' = IF p.stale THEN store
              ELSE [store EXCEPT ![p.node] = mark_clean(@, p.version)]
  /\ writeAcks' = IF Len(p.members) = 1 THEN writeAcks
                  ELSE writeAcks \cup {write_ack(p.members, p.node, p.request)}
  /\ commitAcks' = commitAcks \cup
       {[request |-> p.request, version |-> p.version]}
  /\ puts' = puts \ {p}
  /\ UNCHANGED <<membershipVars, pending, forwards, jobs, assigned, faults>>

\* Mutant: whether a server is the tail is not asked.
PassOnAlways(p) ==
  /\ p.step = "stored"
  /\ forward_put(p.node, next_server(p.members, p.node), p.request, p.version)
  /\ puts' = puts \ {p}
  /\ UNCHANGED <<membershipVars, store, jobs, writeAcks, commitAcks, assigned,
                 faults>>

\* Mutant: a server that has committed the write does not pass it on.
PassOnFresh(p) ==
  /\ p.step = "stored"
  /\ ~is_tail(p.members, p.node)
  /\ IF p.stale
     THEN UNCHANGED <<pending, forwards>>
     ELSE forward_put(p.node, next_server(p.members, p.node), p.request,
                      p.version)
  /\ puts' = puts \ {p}
  /\ UNCHANGED <<membershipVars, store, jobs, writeAcks, commitAcks, assigned,
                 faults>>

\* the others forward.
PassOn(p) ==
  /\ p.step = "stored"
  /\ ~is_tail(p.members, p.node)
  /\ forward_put(p.node, next_server(p.members, p.node), p.request, p.version)
  /\ puts' = puts \ {p}
  /\ UNCHANGED <<membershipVars, store, jobs, writeAcks, commitAcks, assigned,
                 faults>>

\* The write of a pending entry is committed, and the ack passed on by the ring
\* of that moment, up to the head.
handle_ack(e, others) ==
  LET n == e.node
  IN  /\ store' = [store EXCEPT ![n] = mark_clean(@, e.version)]
      /\ writeAcks' = IF is_head(ring[n].members, n) THEN others
           ELSE others \cup {write_ack(ring[n].members, n, e.request)}
      /\ pending' = pending \ {e}

\* An ack of whatever epoch is taken; without a pending entry it ends here.
SendWriteAck(a) ==
  LET entries == {e \in pending : e.node = a.to /\ e.request = a.request}
  IN  /\ a.to \in up
      /\ \/ \E e \in entries : handle_ack(e, writeAcks \ {a})
         \/ /\ entries = {}
            /\ writeAcks' = writeAcks \ {a}
            /\ UNCHANGED <<store, pending>>
      /\ UNCHANGED <<membershipVars, forwards, puts, jobs, commitAcks, assigned,
                     faults>>

-----------------------------------------------------------------------------
\* The write is still on its way to, or handled by, a server that runs.
InFlight(r) ==
  \/ \E m \in forwards \cup writeAcks : m.request = r /\ m.to \in up
  \/ \E x \in puts \cup jobs : x.request = r

\* A crash is noticed and made known within an ack timeout (a heartbeat is
\* missed after 4 seconds, an ack after 10), so in the meantime the deadline
\* of an entry passes once.
Settling ==
  \/ \E n \in Server \ up : Contains(Last(configs), n)
  \/ \E n \in up : ring[n].epoch # current

\* Mutant: retries are not counted up to a limit.
CollectUncapped(e) ==
  /\ ~InFlight(e.request)
  /\ pending' = (pending \ {e}) \cup {[e EXCEPT !.retries = @ + 1]}
  /\ jobs' = jobs \cup resend(e.node, {e})
  /\ UNCHANGED <<membershipVars, store, forwards, puts, writeAcks, commitAcks,
                 assigned, faults>>

\* An entry's deadline passes and the RetryLoop collects it.
CollectExpired(e) ==
  /\ e.retries < MaxRetryCount
  /\ \A j \in jobs : j.node = e.node => j.request # e.request
  /\ IF InFlight(e.request) \/ (Settling /\ e.retries > 0)
     THEN Fault
     ELSE UNCHANGED faults
  /\ pending' = (pending \ {e}) \cup {[e EXCEPT !.retries = @ + 1]}
  /\ jobs' = jobs \cup resend(e.node, {e})
  /\ UNCHANGED <<membershipVars, store, forwards, puts, writeAcks, commitAcks,
                 assigned>>

ReForward(j) ==
  /\ forward_put(j.node, j.to, j.request, j.version)
  /\ jobs' = jobs \ {j}
  /\ UNCHANGED <<membershipVars, store, puts, writeAcks, commitAcks, assigned,
                 faults>>

\* A message is lost with either of its ends, or by a fault.
LossOf(m) == IF {m.from, m.to} \subseteq up THEN Fault ELSE UNCHANGED faults

Lose ==
  /\ \/ \E m \in forwards :
          forwards' = forwards \ {m} /\ LossOf(m) /\ UNCHANGED writeAcks
     \/ \E a \in writeAcks :
          writeAcks' = writeAcks \ {a} /\ LossOf(a) /\ UNCHANGED forwards
  /\ UNCHANGED <<membershipVars, store, pending, puts, jobs, commitAcks,
                 assigned>>

-----------------------------------------------------------------------------
HandlePut(p) ==
  AssignVersion(p) \/ StoreForwarded(p) \/ CommitAtTail(p) \/ PassOn(p)

Reconfiguration ==
  \/ \E n \in Server : RemoveServer(n)
  \/ \E n \in up, e \in 1..current : LearnEpoch(n, e)
  \/ \E t \in applying : UpdateMembership(t) \/ SetEpoch(t)

Replication ==
  \/ \E m \in forwards : ForwardPut(m)
  \/ \E p \in puts : HandlePut(p)
  \/ \E a \in writeAcks : SendWriteAck(a)
  \/ \E e \in pending : CollectExpired(e)
  \/ \E j \in jobs : ReForward(j)

Next ==
  \/ Reconfiguration
  \/ Replication
  \/ \E r \in Request, e \in 1..current : Put(r, e)
  \/ \E n \in Server : Crash(n)
  \/ Lose

Spec == Init /\ [][Next]_vars

\* The metadata store notices a crash and every server learns of it, while
\* handlers and loops go on.  Nothing need crash, be written or be lost.
FairSpec == Spec /\ WF_vars(Reconfiguration) /\ WF_vars(Replication)

-----------------------------------------------------------------------------
has(s, r, v) ==
  \/ s.clean.version > v
  \/ s.clean.version = v /\ s.clean.value = r
  \/ s.dirty[v] = r

\* A write whose client was told of its commit is on every server that runs,
\* whoever crashed before or since and whatever rings are in use meanwhile.
AckedSurvives ==
  \A ack \in commitAcks, n \in up : has(store[n], ack.request, ack.version)

\* Whatever a server has committed was acknowledged by the tail of some ring:
\* neither a crash nor the acks of a write sent round again commit anything
\* that no tail has.
CleanWasAcked ==
  \A n \in up : LET clean == store[n].clean
    IN clean.version # 0 =>
         [request |-> clean.value, version |-> clean.version] \in commitAcks

record(s, v) == IF s.dirty[v] = NoValue /\ s.clean.version = v
                THEN s.clean.value ELSE s.dirty[v]

\* What is said of re-forwarded writes, "version numbers carry the ordering
\* information needed by downstream replicas" (replication_common.cpp:286):
\* two servers never hold different writes under one version.
RecordsAgree ==
  \A n, m \in up, v \in Version :
    NoValue \in {record(store[n], v), record(store[m], v)}
      \/ record(store[n], v) = record(store[m], v)

\* A write that a server holds and has not committed is in the end committed
\* there, unless the server crashes too or is left alone: what the crashed
\* server swallowed is sent again, round the ring if the tail was lost.
WritesSettle ==
  \A n \in Server : (n \in up /\ has_dirty(store[n]))
                      ~> \/ n \notin up \/ Last(configs) = <<n>>
                         \/ ~has_dirty(store[n])

\* A write that goes round a ring on which the servers do not agree comes to an
\* end; a client may ask again for ever.
TrafficEnds ==
  <>[](/\ jobs = {} /\ \A p \in puts : p.version = 0
       /\ \A m \in forwards \cup writeAcks : m.to \notin up)

=============================================================================

# A verification development of crown-kv

crown-kv is a replicated key-value store in C++: servers in a ring run plain chain
replication (CHAIN), CRAQ or CROWN, a metadata store keeps the membership and detects
failures, and clients write at the head of a key and read where the mode lets them. This
directory models the replication protocols, the forward queue, the membership service,
failover and the client's bookkeeping in TLA+, checks them with TLC and proves with TLAPS,
for instances of any size, each safety property a passing run checks and both refinements
of the abstract store.

## 1. The system

| component | state | operations | interacts with |
|---|---|---|---|
| KVStore (`kv_store`) | per key a committed record and dirty records by version; two static mutexes | `put`, `mark_clean`, `get`, `get_latest_version`, `snapshot_committed`, `apply_committed_snapshot` | shared by the three protocol objects of a server |
| Replication base (`replication.h`, `replication_common`) | `pending_acks` by request id, forward queue, 16 workers | `forward_put`, `add_to_pending_acks`, `collect_expired_requests`, `send_ack`, workers | successor (ForwardPut), predecessor (WriteAck), client (CommitAck) |
| CRAQ, CROWN, CHAIN (`craq`, `crown`, `chain`) | ring position, neighbours | `handle_put`, `handle_ack`, `handle_get`, `handle_version_query`, `update_membership` | KVStore, base; the tail in reads |
| Server gateway (`server.cpp`) | epoch, mode, membership, STARTING/NORMAL | the RPC handlers, epoch checks, `RefreshMembershipAsync` | protocol objects, metadata store |
| Server membership (`server.cpp`) | the same | `Reconfigure`, `SyncFromPeer`, `ApplyMembership`, `HeartbeatLoop`, `RetryLoop` | metadata store, peers |
| Metadata store | epoch, mode, membership, last heartbeats | `GetMembership`, `SetMode`, `Heartbeat`, `MonitorFailures`, `TriggerReconfigure*` | servers, clients |
| Client (`client.cpp`) | pending and early-committed writes | routing, retries, `CommitAck`, REPL, benchmark | head and readers, metadata store |

A write goes to the head of its key, which assigns the next version, stores it dirty and
forwards it. Every server stores it dirty and forwards it; the tail commits it, sends the
client a CommitAck and its predecessor a WriteAck, which travels back to the head and
commits the write on the way. A CRAQ or CROWN read is served by any server: from the
committed record if nothing is dirty, else at the version the tail says is committed.

What is hard here: handlers run on many threads and take a lock per step, never across
steps; sixteen workers reorder forwards; RPC failures are ignored and made up for by a
retry of pending entries, which can resurrect an entry just acknowledged; acks carry only a
request id; three protocol objects share one store; after a crash every server, handler and
message goes by a ring of its own until the new one has reached all; and one condition
variable serves both ends of the forward queue. `PROJECT.json` lists these hazards
with their lines and the properties aimed at them.

What makes each part correct: the store never rolls a key back, and forgets a write put
there only below a commit that CHAIN makes without having put it; the tail acknowledges only what it has committed, no server commits ahead of it, all servers
agree on the write behind a version, an entry is retried until it is acknowledged; a read
returns a write that was the committed one while the read ran; the metadata store and the
servers move to each epoch once and end in the same ring; what a client was told is
committed survives the crash of any server but the last; every task queued is sent and no
thread sleeps for ever; a client counts no write twice, and none that was not
acknowledged under its key and version.

## 2. Modules

| module | models | code |
|---|---|---|
| `KVStore` | the store of one key, one operator per call | `kv_store.cpp` |
| `KVStoreCalls` | that store under any interleaving of calls | callers of `kv_store` |
| `Replication` | what the protocols share: ring, handler steps, pending acks, retry, network, and the properties they share | `replication_common.cpp`, the handlers' common text, `RetryLoop` |
| `CraqReplication` | CRAQ's stale test, next-state relation, fairness, properties | `craq_replication.cpp` |
| `ChainReplication` | plain chain replication's stale test and its properties | `chain_replication.cpp` |
| `ChainReads` | its `handle_get` at the tail beside the writes; refines `VersionedStore` | `chain_replication.cpp` |
| `VersionedStore` | abstract specification: what clients are promised | |
| `CraqReads` | `handle_get` and `handle_version_query` beside the writes; refines `VersionedStore` | `craq_replication.cpp` |
| `CrownReplication` | CROWN's writes and reads: CRAQ's (EXTENDS `CraqReads`) with an assumption that places the head of a key by its hash | `crown_replication.cpp`, `head_index` |
| `MetadataStore` | the metadata store: epochs, mode, membership, failure detector | `metadata_store.cpp` |
| `ServerMembership` | how the servers follow it (EXTENDS `MetadataStore`) | `server.cpp`, `update_membership` |
| `ForwardQueue` | the bounded queue, its one condition variable, producers, workers, destructor | `replication_common.cpp` |
| `Failover` | CRAQ's writes while servers crash and are removed: gateway epoch checks, handlers with a copied ring, `ApplyMembership`, `RetryLoop` | `server.cpp`, `craq_replication.cpp`, `replication_common.cpp` |
| `ClientAcks` | the client: puts with retries, `CommitAck`, `bench`, `--put-count`, refresh and mode commands | `client.cpp` |
| `KVStoreLemmas`, `KVStoreCalls_proofs` | what each store call returns, preserves and bounds; proofs | |
| `Craq_proofs`, `Chain_proofs`, `Failover_proofs`, `ServerMembership_proofs`, `ForwardQueue_proofs`, `ClientAcks_proofs` | proofs about the module named | |
| `MC*` | small instances for TLC | |

How state and steps correspond. `store[n][k]` is the pair `store_[k]`, `dirty_store_[k]`
of server n. `pending` is the `pending_acks` of every server. A call into KVStore holds
both of its locks, so it is one step. A handler is cut wherever it lets go of a lock and
later takes one again with something of the same key or entry at stake: `handle_put` of a
forwarded write is `HandleForwardedPut` (read the version), `StoreForwardedPut`,
`FinishPut` (commit and acknowledge, or forward); `handle_ack` is `BeginAck` (copy the
entry) and `FinishAck` (commit, send, erase); `handle_get` is one step per lock and one
for the RPC to the tail. Within `FinishPutAtTail` and `FinishAck` the sends are merged
with the commit before them: until the send nobody can see the difference. In the
replication modules the forward queue, its workers and the RPC are one unordered set
`forwards`, because the workers keep no order and the status of the RPC is ignored;
`ForwardQueue` shows what that set takes for granted, that what goes in comes out. A Put
is named by the value it writes, so equal values are equal requests. The sets merge two
identical messages in flight at once; a late duplicate is an `expired` job that is
forwarded after the first was handled.

Membership. A `Trigger` function or handler of the metadata store changes `cluster` in one
critical section and is one action; what it decided under an earlier lock (the mode to
change to, the server found dead) is kept in `modeThreads` and `failed` until then. A
rollout is a set of `reconfigures`, delivered in any order: each call has a deadline of five
seconds, after which the rollout goes on whether or not the handler has ended. On a server,
`Reconfigure`, `RefreshMembership` and `RefreshMembershipAsync` each change `state` in one
step, from a configuration read earlier (`refreshing`), and leave a thread in `applying`,
which runs ApplyMembership in two steps per protocol object: `update_membership` under the
object's lock, then `set_epoch`. A crash clears all of a server; a reboot reads the
membership before it listens, or fails to. `reconfig_in_progress` is set and cleared under
the lock that guards it, so no one ever finds it set, and it is left out. The initial
members have no entry in `last_heartbeat`, as `main` makes none, and `MonitorFailures`
passes over a member without one: an initial member that dies before its first heartbeat
stays in the ring for ever. That is the code's doing, no document says otherwise, and
`DeadRemoved` is stated around it. The writes re-forwarded and the records a joiner copies are not in this module.

Failover. Here the two meet, with the membership reduced to what the data can see:
`configs` is the list of memberships the metadata store has issued, and each server has an
`epoch` (of its ServerState), a `ring` (of its protocol object: members and epoch, set in two
steps by a thread of `applying`) and its store. `ForwardPut` compares the epoch of a message
with that of the server, `StoreForwarded` copies the ring later, and what follows goes by
that copy, while `handle_ack` reads the ring when it runs, so two servers can be tail at
once. A crashed server loses all it had; messages with either end crashed may be lost for
nothing, others by a fault. `SetEpoch` takes the snapshot of the pending writes that
`ApplyMembership` sends over the new ring: the predecessor of a lost tail is the new tail and
sends them to the head, from where they go round once more and are committed at the end.
That tail's own entry then stays in `pending_acks`, as no ack comes back to it, and a server
that is alone in the ring sends nothing, so that what it had pending stays dirty; both are the
code's doing, and `WritesSettle` is stated around them.

Forward queue. A step is a critical section of the mutex, a wake-up, or the RPC of a worker.
`waiting` are the threads asleep on `forward_cv_`; `notify_one` is sent after the mutex is
released and wakes any of them, and any may wake for no reason.

Client. `main` is the thread that runs commands and `CommitAck` the service beside it; both
take the client's mutex for each step. Both know a write by its key and version
(`Name`, the `PendingKey` of the code), and a version may be given twice, as
`failover_versions` shows: by the head of a later epoch at any time, and, as a fault, by a
head that restarted. `pending` therefore holds one write of each name, the last accepted, and
a CommitAck, or one kept aside, completes whichever write is there under its name. The
cluster is reduced to what the client can tell: a request is accepted, refused by its epoch
or, as a fault, for another reason, some of which end the put (`RefusedForGood`); a put or a
bench may find no member to send to (`NoRoute`, `Calls`); answers may be lost, and CommitAcks
come early, late, twice or never. The ten seconds of a put may pass at any moment; the clock
of a bench is counted in its progress ticks.

Bounds, each a CONSTANT: `MaxVersion` versions per key; `MaxRetryCount` (3 in the code
and in `Failover`, 1 or 0 elsewhere); `MaxFaults` messages lost or so slow that an ack deadline passed while they
were on their way, and in `ServerMembership` crashes, lost Reconfigures and stalled
heartbeats; in `Failover` crashes, lost messages and early ack deadlines, and in
`ClientAcks` failed RPCs, lost or repeated CommitAcks, and answers of servers that are behind,
not ready, or have restarted. In `ServerMembership` also
`MaxModeChanges` SetMode requests, `MaxNewerRpcs` RPCs that bring a server a newer epoch,
and `MaxThreads` threads that install rings on one server at once. Elsewhere `MaxTasks`
tasks for the queue, `LastPutEpoch` (the epochs in which clients write), `MaxRequests`
requests and `MaxEpoch` epochs a client sees, and `MaxBehind` versions given before that the
next head may not know of. Deadlines are not timed: an entry may expire
whenever nothing of its write is in flight, or, as a fault, while something is. `Failover`
has one assumption about time: a crash is noticed and made known (a heartbeat is missed
after 4 seconds) before the ack deadline of an entry (10 seconds) has passed more than
once; a second time is a fault. Without it an entry spends its three retries on a dead
server, and the code, too, leaves it then to the `Reconfigure`.

`Mutant` operators are variants of a definition with a plausible bug; no specification
uses them. Each shows that some property of some run would notice that bug.

## 3. Runs

| run | instance | what it shows |
|---|---|---|
| `kv_store_calls` | 1 key, 2 values, 5 versions | `NothingForgotten`, `DirtyAboveClean`, `LatestNeverDecreases` under any order of puts, commits of versions not above the latest, CHAIN's of versions never put among them, and syncs |
| `craq_writes` | 3 servers, 2 writes of 1 key, 1 retry, 1 fault | safety: `CommitAckedAtTail`, `CleanBelowTail`, `RecordsAgree`, `CleanNeverRollsBack`, `PendingUntilAcked`; liveness: `WritesCommitEverywhere`, `PendingDrains` |
| `craq_same_ids` | same, equal request ids, no fault | finding: an entry of `pending_acks` is replaced before its ack |
| `crown_reads` | CROWN, 3 servers, 2 writes of a key whose chain starts at server 1, 1 retry, 1 fault, one Get on any server | refinement of `VersionedStore` (`ImplementsVersionedStore`), `VersionFound`, `VersionNotBehindValue` |
| `chain_reads` | CHAIN, the same with the Get at the tail | refinement of `VersionedStore`, `CommitAckedSeenByTail`, `Converges` |
| `membership_failover` | 1 member and a joiner, 1 fault, reboots | `Settles`, `DeadRemoved` (of a member ever heard of) |
| `membership_safety` | a member and a server outside the ring, 2 protocols, 2 SetMode requests, 1 RPC with a newer epoch | `SameEpochSameConfig`, `RingNotAhead`, `ReforwardedOnce` |
| `membership_ring_left_behind` | 1 member and a joiner, 1 SetMode request, no fault | finding: an older ring or epoch installed over the last one, for good |
| `forward_queue` | 2 producers, 2 workers, queue of 8, 11 tasks | `OneSideWaits`, `NoLostWakeup`, `Drained`, `TasksSent`, `ShutdownEnds` |
| `client_acks` | 4 requests of 1 key, bench of 2, 2 epochs, 2 faults, up to 2 versions given again | `CountsMatch`, `ClaimsWereAcked`, `CommandsEnd`, `DrainEnds` |
| `failover` | 3 servers, 1 write, 3 retries, 2 faults | `AckedSurvives`, `CleanWasAcked`, `WritesSettle`, `TrafficEnds` |
| `failover_versions` | 3 servers, 2 writes, 1 crash | finding: two survivors hold different writes under one version |

Why the bounds are enough: three servers give a head, a middle server and a tail, the
only roles; two writes of one key give every overtaking on every hop; one lost message and
one retry give the retry of a write that was stored, of one that was committed and of one
whose ack was lost, or a retry racing its original. Under CROWN a key is a chain of its own,
and the stores, entries and messages of two keys touch nowhere, so one key that starts
elsewhere than at server 0 is what CROWN adds to CRAQ. Runs end in quiet states where every
write is done, so deadlock is not checked there; the membership runs, which never end, check
it.

Two things the read runs do not claim, because the code does not give them: the version in a
Get's answer may be that of a later write than its value (the two are read under two locks),
which is why `VersionNotBehindValue` is one-sided, and plain chain's version may even be that
of a write not committed yet; and plain chain's tail may acknowledge a
retried write that it holds and has not committed yet (`chain_replication.cpp:105` compares
dirty records too), which is why `CommitAckedSeenByTail` says seen where CRAQ's says
committed.

In `failover` two faults give every pair of crashes at any point, so head, middle and tail
are lost in any order down to one server, a crash with a lost message, and a crash with an
early retry. A queue of 8 is twice the four threads, the least the module's assumption
allows, and 11 tasks fill it, with one in the hands of each worker and one to wait.

In `client_acks` one key is enough for the puts and the bench, as writes of different keys
never share an entry; a --put-count run gives each put a key of its own, as the code does.
Four requests are a put with all its attempts and another, or two benches.

For membership, two threads on a server are what a race of two installations needs, two
changes of the cluster make two epochs in flight, and one fault makes a crash, a lost
Reconfigure or a false alarm at any point.

Fairness: weak fairness of `Deliver` (handlers return, workers drain the queue, gRPC
delivers) and of `RetryLoop` (a thread that wakes every second for ever). Clients need not
write and the network need not lose. The liveness results hold while the faults do not
exceed the retries: after `kMaxRetryCount` retries the code leaves an entry to a
Reconfigure, which only `Failover` has. There `FairSpec` asks that crashed servers are
removed and the removal reaches the survivors, and that handlers, deliveries and the
RetryLoop go on; nothing need crash, be written or be lost. In `ForwardQueue` each thread
that can run does; in `ClientAcks` the thread of the commands and its timeouts go on, and so does
the cluster, which answers, acknowledges what it accepted and delivers the acks in whatever
order; the user need not type and CommitAcks may be lost.
`FairSpec` of `ServerMembership`: the heartbeat loop of a server that runs, the monitor
thread, threads and delivered RPCs go on for ever; no boot, SetMode or join need happen.
`Settles` speaks of the state under the lock, and `membership_ring_left_behind` shows that
the rings do not follow it.

## 4. Proofs

Each safety property that a passing run checks is also a theorem about the specification
it is checked of, for every value of the constants that meets the module's assumptions and,
where said below, that request ids are distinct or that one head gives the versions. Eight
modules hold the proofs.

**Store.** `KVStoreLemmas` states what each store call returns, preserves and bounds; all
replication proofs rest on it. From it `KVStoreCalls_proofs` proves that the store keeps its
invariant under every call, with the one rule that all callers keep: `mark_clean` is asked for
no version above the latest. The rule is weak on purpose. Under CHAIN a server that holds
versions 1 and 3 dirty passes 2 on without storing it and commits 2 when it is acknowledged,
which erases 1 and promotes nothing. `NothingForgotten` says that this is the only way a
version put is lost, so never the latest one put. The invariant is
`TypeOK /\ NothingForgotten /\ DirtyAboveClean` with `DirtyWasPut`, that a dirty record has
been put here; and the latest version never decreases.

**CRAQ and CROWN.** `Craq_proofs` holds for every ring size, set of keys, requests and
readers, number of retries and faults, and for every placement of the heads, so that CROWN,
which only says where they are, is covered by the same theorems. The checked invariants are
not inductive alone: that the tail has committed what it acknowledged rests on the tail
still holding, dirty or clean, what a handler stored before a second handler committed
something else, because `mark_clean` erases whole ranges. The argument has three layers.

* `WriteInv` adds to the checked invariants: everything a server works on carries the
  version its head assigned (`Stamped`) and is held by that server (`WorkHeld`), what was
  found stale stays committed, the head holds every version it gave. It needs nothing of
  request ids, and gives `AcknowledgedIsCommitted`, `ReplicasAgree`, `NoVersionTwice`,
  `CleanIsMonotone`: these survive even the id collision of `craq_same_ids`.
* `AckInv` says that an ack on its way means a commit at the tail and at its sender. Acks
  carry only an id, so it assumes `DistinctIds`, stated in each theorem that uses it:
  `NoServerAheadOfTail`, `PendingKeptUntilAcked`. `craq_same_ids` shows that the
  assumption is needed, and that the clients do not provide it.
* `ReadInv` follows a Get through its locks. A write travels down the chain, so all servers
  hold what the tail has committed, and from the tail's answer on the asking server holds
  that version, dirty or under a clean record no older (`VersionAlwaysFound`,
  `VersionFollowsValue`, both whatever the ids). `ReadsAndWritesImplementStore` maps every
  step of writes, retries, faults and reads to a step of `VersionedStore` or to a stutter.
  It assumes `DistinctIds`, as a server that commits ahead of the tail answers with a write
  that is not committed.

**CHAIN.** `Chain_proofs` needs no assumption about ids. A server that finds a write
overtaken never stores it, so it need not hold what it works on; it only has *seen* (as its
`get_latest_version`) that version or a later one (`WorkSeen`). That is inductive because
`mark_clean` is called only for versions not later than the latest and then keeps the latest,
although the version asked for may not be there. `AcknowledgedIsSeen`, `ChainReplicasAgree`
and `ChainCleanIsMonotone` follow. For `ChainImplementsStore` the head's latest version has
also to be the number of writes it ordered (`VersionsCounted`): that is what makes the next
version the abstract one. A Get touches the tail alone, so no ack matters to it.

**Failover.** `Failover_proofs` holds for every first ring and any number of crashes, lost
messages and retries. Memberships only shrink and keep their order, so each server has a
place, its index in the first ring, that all rings agree on. A ring in use, of a server, of
a handler or of a message, lacks only crashed servers (`RingsHaveTheRunning`), so a write
passes by crashed servers only, and wherever it is, each server that runs and has an earlier
place holds its version (`HeldBefore`). At the tail of any ring that is everyone who runs:
`AckedVersionSurvives`, with any number of heads. That the record under that version is the
write acknowledged is another matter: two heads may give one version to two writes, which is
`failover_versions`. So `AckedWriteSurvives`, `CommittedWasAcked` and `OneHeadRecordsAgree`
assume `OneHead`: clients write in the first epoch only, or there is only one write. That is
what the run `failover` has (one write) and what the code does not promise; in the instance
of `failover_versions`, with two writes and puts in two epochs, TLC finds all three
properties violated.

**Membership.** `ServerMembership_proofs` holds for every set of servers and modes and any
number of faults, joins and mode changes. What is under way or installed is a configuration
the metadata store has issued, and those differ in their epochs (`EpochNamesConfig`); a
thread, and what it leaves in a protocol object, is never newer than the state of its server
(`RingsNotAhead`), so that only the thread that brings a newer epoch sends the pending
writes again (`OneReforwardPerEpoch`). `MembershipTypes` is harder than types usually are,
as it bounds the epochs. Each epoch has to be paid for, by a change of mode asked for, by
the join or by a fault; the invariant counts what is still owed, with a member that is down,
silent or about to be removed as a fault that has not been cashed in yet (`Doomed`).

**Forward queue.** `ForwardQueue_proofs` proves, for any numbers of producers, workers and
tasks, that the one condition variable is enough (`NeverBothWait`, `WakeupsReachTheirSide`,
`NothingLeftAtShutdown`), provided the queue is at least twice as long as there are
threads: with 100000 places and 16 workers that holds up to some 50000 handler threads. Why
it needs the assumption: a producer goes to sleep on a full queue only, and to find it empty
the workers must take as many tasks, each followed by a `notify_one` that wakes a sleeper. So
the inductive invariant counts: while a producer sleeps, the threads asleep and the free
places together are no more than the threads and the notifications still owed
(`RoomIsOwed`), and likewise for the tasks queued while a worker sleeps (`TasksAreOwed`). A
queue that is empty has more free places than that, so no worker finds it empty while a
producer sleeps, and no producer finds it full while a worker does.

**Client.** `ClientAcks_proofs` proves `EachWriteCountedOnce`, `ClaimsAreTrue` and
`ClientTypes` for any number of keys, requests, epochs and faults, whichever versions are
given twice. `CountsMatch` is kept because a write is recorded by one answer only: what is
awaited has a request id given out and not recorded (`MainInv`), so either the service finds
a write of its name pending and counts it, or `RecordAcceptedWrite` finds an early ack of its
name and does, never both. Between the two stands `NamesInv`: a name kept aside was
acknowledged, and a name acknowledged is kept aside or belongs to a write counted. When a
version is given twice the writes share a name, and the theorem says no more than the code
provides: one of them is counted when an ack comes, the others may never be (a later one has
taken the entry), and the ack need not be that of the write counted. So a put told
"committed" had its key and version acknowledged; that it was this very write follows only
while no version is given twice. For the bench the invariant bounds
`completed` by its value at the start plus the writes of the bench, or pending before it,
that have been counted since (`Counted`); each of those was recorded and acknowledged.

Assumptions. On constants, only the named ASSUMEs of `KVStore`, `Replication`,
`ChainReplication` (the head of every key is server 0), `CrownReplication`, `ForwardQueue`,
`Failover`, `MetadataStore`, `ServerMembership` and `ClientAcks`; TLC evaluates them on every
run. In theorems, `DistinctIds` and `OneHead` as said above. Nothing else is assumed.

Only model-checked, because TLAPS has no rules for fairness and ENABLED here: liveness, that
is `WritesCommitEverywhere`, `PendingDrains`, `Converges`, `Settles`, `DeadRemoved`,
`WritesSettle`, `TrafficEnds`, `CommandsEnd`, `DrainEnds`, `TasksSent` and `ShutdownEnds`.
The refinements are of the safety part of `VersionedStore`, which has no fairness. The three
findings are counterexamples of TLC.

## 5. Not modelled, and the plan

Left out for good: the REPL's parsing, dataset loading, statistics and printing of the
client, logging, argument parsing, the channel caches, the ack pump's completion queue (an
ack is one message), `node.h`, which nothing uses, and the RPCs of the proto file nothing
implements.

Not modelled so far, and why:

* joins with data: `SyncFromPeer` copies the committed records of a peer and the writes still
  pending are sent round the new ring. Two servers and a joiner in `Failover` made some
  500000 states without a crash and too many with one, since the joiner's old ring lets a write
  wrap around before it settles. The store's side of it is an operation of `KVStoreCalls`.
* a change of mode with writes pending: the entries of the old protocol object are never
  retried, so nothing about them could be promised.
* reads during a failover: a new tail holds what the lost one acknowledged only as dirty until
  it has gone round, so a Get may go back in time until then; no document promises otherwise.
* a restart before the missed heartbeat: the server keeps its place with an empty store. All
  data is in memory and nothing claims more.

Next, in order:

1. Failover beyond one head: how far `AckedSurvives` goes when the successor of a crashed
   head holds all the versions that head gave, which a crash between two writes leaves true.
2. A small join in `Failover` with the sync as one step.
3. Action properties of membership: a server's epoch never goes back while it runs, and an
   object that is behind is so only while a thread is under way or one was overtaken.

----------------------------- MODULE ClientAcks -----------------------------
(***************************************************************************)
(* The client (client.cpp): one thread that runs the commands of the REPL, *)
(* or the --put-count puts, and the CommitAck service, which learns of     *)
(* commits on its own threads.  Both know a write by its key and version   *)
(* (PendingKey), though a version may be given twice: another head, or a   *)
(* head that restarted, numbers from what it holds.  The cluster is what   *)
(* the client sees of it: it accepts or refuses, answers or not, and       *)
(* acknowledges accepted writes before or after its answer, once, twice or *)
(* never.                                                                  *)
(***************************************************************************)
EXTENDS Naturals, FiniteSets

CONSTANTS
  Key,          \* the keys the user of the REPL writes
  MaxRequests,  \* bound on the request ids, each attempt takes the next one
  BenchSize,    \* N of the command bench
  StallTicks,   \* kStallTimeout / kProgressTick
  MaxBehind,    \* bound on the versions that the head of a later epoch, or one
                \* that was restarted, does not know of
  MaxEpoch,     \* bound on the epochs of the cluster
  MaxFaults     \* bound on failed RPCs, on lost and duplicated CommitAcks,
                \* and on servers that are behind or number versions again

ASSUME ClientAssumption ==
  /\ {MaxRequests, BenchSize, StallTicks, MaxBehind, MaxFaults} \subseteq Nat
  /\ MaxEpoch \in Nat \ {0}

Request == 1..MaxRequests

MaxAttempts == 3

VARIABLES
  \* the cluster
  epoch,            \* of the membership in force
  status,           \* status[r]: what became of request r
  key,              \* key[r]: the key in request r, 0 before it is sent
  carried,          \* carried[r]: the epoch in request r while it is on its way
  version,          \* version[r]: the one r was accepted with, 0 before
  commits,          \* the accepted writes a CommitAck was sent for
  acks,             \* CommitAcks on their way
  faults,
  \* the client
  membership,       \* the epoch of the membership it knows
  pending, committed_early, completed, expected,   \* ClientState
  program,          \* "repl", or "batch" for --put-count
  request_id,       \* the next id
  main,             \* the thread that runs the commands
  acked,            \* history: the writes whose CommitAck has arrived
  recorded,         \* history: the writes RecordAcceptedWrite was called for
  counted,          \* history: the writes that completed was raised for
  report            \* history: what the last command told the user

requests == <<status, key, carried, version>>
cluster == <<epoch, requests, commits, acks, faults>>
counts == <<pending, committed_early, completed, expected, acked, recorded,
            counted>>
client == <<program, request_id, membership>>
vars == <<cluster, counts, client, main, report>>

\* The PendingKey of a request that was accepted.  pending holds the request
\* of each entry, for its name, committed_early the names themselves.
Name(r) == <<key[r], version[r]>>

\* What a thread is doing, the request it waits for, the calls of a bench that
\* have no answer yet, and its local variables.  writes and before are
\* history: the writes of a bench, and what was pending when it began.
Idle == [at |-> "ready", command |-> "none", key |-> 0, attempt |-> 0,
         request |-> 0, asleep |-> FALSE, calls |-> {},
         start_completed |-> 0, accepted |-> 0, last_seen |-> 0, stalled |-> 0,
         writes |-> {}, before |-> {}]

NoReport == [command |-> "none"]

TypeOK ==
  /\ program \in {"repl", "batch"} /\ request_id \in 1..(MaxRequests + 1)
  /\ epoch \in 1..MaxEpoch /\ membership \in 1..epoch
  /\ status \in [Request -> {"unused", "sent", "accepted", "refused", "failed"}]
  /\ key \in [Request -> Key \cup 0..MaxRequests]
  /\ carried \in [Request -> 0..epoch] /\ version \in [Request -> Nat]
  /\ acks \cup acked \subseteq commits
  /\ \A r \in commits \cup recorded : status[r] = "accepted"
  /\ faults \in 0..MaxFaults
  /\ pending \cup acked \cup recorded \cup counted \subseteq Request
  /\ committed_early \subseteq {Name(r) : r \in Request}
  /\ completed \in 0..expected /\ expected \in Nat
  /\ main.at \in {"ready", "call", "rpc", "refresh", "wait", "collect",
                  "tick", "drain", "done"}
  /\ main.attempt \in 0..MaxAttempts
  /\ main.calls \subseteq Request /\ main.accepted \in 0..BenchSize
  /\ main.at = "tick" => completed >= main.start_completed

Init ==
  /\ epoch = 1 /\ membership = 1
  /\ program \in {"repl", "batch"} /\ request_id = 1
  /\ status = [r \in Request |-> "unused"]
  /\ key = [r \in Request |-> 0]
  /\ carried = [r \in Request |-> 0] /\ version = [r \in Request |-> 0]
  /\ commits = {} /\ acks = {} /\ faults = 0
  /\ pending = {} /\ committed_early = {} /\ completed = 0 /\ expected = 0
  /\ main = Idle
  /\ acked = {} /\ recorded = {} /\ counted = {}
  /\ report = NoReport

-----------------------------------------------------------------------------
\* The cluster.  Another client or a failure moves it to the next epoch.
ChangeMembership ==
  /\ epoch < MaxEpoch
  /\ epoch' = epoch + 1
  /\ UNCHANGED <<requests, commits, acks, faults, counts, client, main, report>>

\* The version after those given for the key of a request.
NextVersion(r) ==
  1 + Cardinality({q \in Request : status[q] = "accepted" /\ key[q] = key[r]})

\* Put at the server the client took for the head.  The head of a later epoch
\* may give a version again.  As a fault, so does one that was restarted, and a
\* server that has missed an epoch accepts what is stale.
Accept(r) ==
  /\ status' = [status EXCEPT ![r] = "accepted"]
  /\ \E v \in 1..NextVersion(r) :
       /\ NextVersion(r) <= v + MaxBehind
       /\ version' = [version EXCEPT ![r] = v]
       /\ IF carried[r] >= epoch /\ (v = NextVersion(r) \/ epoch > 1)
          THEN UNCHANGED faults
          ELSE faults < MaxFaults /\ faults' = faults + 1

\* STALE_EPOCH; or, as faults, WRONG_NODE from a ring other than the client's
\* and the errors that end a put, SERVICE_UNAVAILABLE and WRONG_MODE.
Refuse(r) ==
  /\ \E answer \in {"refused", "failed"} :
       /\ status' = [status EXCEPT ![r] = answer]
       /\ IF carried[r] < epoch /\ answer = "refused"
          THEN UNCHANGED faults
          ELSE faults < MaxFaults /\ faults' = faults + 1
  /\ UNCHANGED version

Handle(r) ==
  /\ status[r] = "sent"
  /\ Accept(r) \/ Refuse(r)
  /\ carried' = [carried EXCEPT ![r] = 0]
  /\ UNCHANGED <<epoch, key, commits, acks, counts, client, main, report>>

SendCommitAck(r) ==
  /\ status[r] = "accepted" /\ r \notin commits
  /\ commits' = commits \cup {r}
  /\ acks' = acks \cup {r}
  /\ UNCHANGED <<epoch, requests, faults, counts, client, main, report>>

\* The tail took a retry of the write, and acknowledges it again.
SendCommitAckAgain(r) ==
  /\ r \in commits \ acks
  /\ faults < MaxFaults /\ faults' = faults + 1
  /\ acks' = acks \cup {r}
  /\ UNCHANGED <<epoch, requests, commits, counts, client, main, report>>

LoseCommitAck(r) ==
  /\ r \in acks
  /\ faults < MaxFaults /\ faults' = faults + 1
  /\ acks' = acks \ {r}
  /\ UNCHANGED <<epoch, requests, commits, counts, client, main, report>>

-----------------------------------------------------------------------------
\* cv.notify_all, when asked for: the thread that waits evaluates its
\* condition again.
Notify(condition) ==
  main' = [main EXCEPT !.asleep = main.asleep /\ ~condition]

\* The service: a commit of a write that is not known yet is kept aside.
Unknown(r) == \A q \in pending : Name(q) # Name(r)

KeepAside(r) ==
  /\ Unknown(r)
  /\ committed_early' = committed_early \cup {Name(r)}
  /\ UNCHANGED <<completed, pending, counted, main>>

\* Mutant: the condition is that of before the write was counted.
CommitAckNotifyingLate(r) ==
  /\ r \in acks
  /\ acks' = acks \ {r}
  /\ acked' = acked \cup {r}
  /\ \/ \E q \in pending :
          /\ Name(q) = Name(r)
          /\ completed' = completed + 1
          /\ pending' = pending \ {q} /\ counted' = counted \cup {q}
          /\ Notify(completed >= expected)
          /\ UNCHANGED committed_early
     \/ KeepAside(r)
  /\ UNCHANGED <<epoch, requests, commits, faults, expected, recorded, client,
                 report>>

\* Mutant: an ack that is early, or comes again, counts as well.
CommitAckCounting(r) ==
  /\ r \in acks
  /\ acks' = acks \ {r}
  /\ acked' = acked \cup {r}
  /\ completed' = completed + 1
  /\ pending' = {q \in pending : Name(q) # Name(r)}
  /\ committed_early' = committed_early
       \cup (IF Unknown(r) THEN {Name(r)} ELSE {})
  /\ counted' = counted \cup (pending \ pending')
  /\ Notify(completed' >= expected)
  /\ UNCHANGED <<epoch, requests, commits, faults, expected, recorded, client,
                 report>>

CommitAck(r) ==
  /\ r \in acks
  /\ acks' = acks \ {r}
  /\ acked' = acked \cup {r}
  /\ \/ \E q \in pending :
          /\ Name(q) = Name(r)
          /\ completed' = completed + 1
          /\ pending' = pending \ {q} /\ counted' = counted \cup {q}
          /\ Notify(completed' >= expected)
          /\ UNCHANGED committed_early
     \/ KeepAside(r)
  /\ UNCHANGED <<epoch, requests, commits, faults, expected, recorded, client,
                 report>>

\* The entry of the write, in the place of another of its name.
Entered(r) == {q \in pending : Name(q) # Name(r)} \cup {r}

\* Mutant: nobody looks for an early CommitAck.
RecordAsPending(r) ==
  /\ expected' = expected + 1
  /\ recorded' = recorded \cup {r}
  /\ pending' = Entered(r)
  /\ UNCHANGED <<completed, counted, committed_early, acked>>

RecordAcceptedWrite(r) ==
  /\ expected' = expected + 1
  /\ recorded' = recorded \cup {r}
  /\ IF Name(r) \in committed_early
     THEN /\ committed_early' = committed_early \ {Name(r)}
          /\ completed' = completed + 1 /\ counted' = counted \cup {r}
          /\ UNCHANGED <<pending, acked>>
     ELSE /\ pending' = Entered(r)
          /\ UNCHANGED <<completed, counted, committed_early, acked>>

-----------------------------------------------------------------------------
\* The commands.  Telling the user ends one.
Tell(what) == report' = what /\ main' = Idle

\* MaxRequests leaves so many ids: a command begins when the longest can end.
RoomFor(n) == request_id + n <= MaxRequests + 1

\* put or put-async; --put-count sends its puts like the latter, each with a
\* key of its own, which the next id stands for.
Begin(command, k) ==
  /\ main.at = "ready"
  /\ RoomFor(MaxAttempts)
  /\ IF program = "batch" THEN command = "put-async" /\ k = request_id
                          ELSE k \in Key
  /\ main' = [Idle EXCEPT !.at = "call", !.command = command, !.key = k]
  /\ report' = NoReport
  /\ UNCHANGED <<cluster, counts, client>>

\* Requests with the keys ks and the next ids.
Send(ids, ks) ==
  /\ request_id' = request_id + Cardinality(ids)
  /\ status' = [r \in Request |-> IF r \in ids THEN "sent" ELSE status[r]]
  /\ key' = [r \in Request |-> IF r \in ids THEN ks[r] ELSE key[r]]
  /\ carried' = [r \in Request |-> IF r \in ids THEN membership ELSE carried[r]]
  /\ UNCHANGED <<epoch, version, commits, acks, faults, counts, program,
                 membership>>

\* The next attempt of SendPutWithRetry, with a new id.
Attempt ==
  /\ main.at = "call" /\ main.attempt < MaxAttempts
  /\ main' = [main EXCEPT !.at = "rpc", !.attempt = @ + 1,
                          !.request = request_id]
  /\ Send({request_id}, [r \in {request_id} |-> main.key])
  /\ UNCHANGED report

Fail == [command |-> main.command, outcome |-> "failed", request |-> 0]

\* The membership it knows has no members.
NoRoute ==
  /\ main.at = "call" /\ main.attempt < MaxAttempts
  /\ Tell(Fail)
  /\ UNCHANGED <<cluster, counts, client>>

GiveUp ==
  /\ main.at = "call" /\ main.attempt = MaxAttempts
  /\ Tell(Fail)
  /\ UNCHANGED <<cluster, counts, client>>

\* The RPC fails, wherever the request is by then: it is tried again, at the
\* same server.
RpcFails ==
  /\ main.at = "rpc"
  /\ faults < MaxFaults /\ faults' = faults + 1
  /\ main' = [main EXCEPT !.at = "call"]
  /\ UNCHANGED <<epoch, requests, commits, acks, counts, client, report>>

\* STALE_EPOCH or WRONG_NODE.
Refused ==
  /\ main.at = "rpc" /\ status[main.request] = "refused"
  /\ main' = [main EXCEPT !.at = "refresh"]
  /\ UNCHANGED <<cluster, counts, client, report>>

\* Any other error.
RefusedForGood ==
  /\ main.at = "rpc" /\ status[main.request] = "failed"
  /\ Tell(Fail)
  /\ UNCHANGED <<cluster, counts, client>>

FetchMembership ==
  /\ main.at = "refresh"
  /\ \/ /\ membership' = epoch
        /\ main' = [main EXCEPT !.at = "call"]
        /\ UNCHANGED <<report, faults>>
     \/ /\ faults < MaxFaults /\ faults' = faults + 1
        /\ Tell(Fail)
        /\ UNCHANGED membership
  /\ UNCHANGED <<epoch, requests, commits, acks, counts, program,
                 request_id>>

\* The write is accepted: put goes on to wait for its CommitAck.
PutResponse ==
  /\ main.at = "rpc" /\ status[main.request] = "accepted"
  /\ RecordAcceptedWrite(main.request)
  /\ IF main.command = "put"
     THEN main' = [main EXCEPT !.at = "wait"] /\ UNCHANGED report
     ELSE Tell([command |-> main.command, outcome |-> "accepted",
                request |-> main.request])
  /\ UNCHANGED <<cluster, client>>

\* WaitForCommit: it sleeps until a notification or the ten seconds are over,
\* and looks at pending each time.
Committed == Unknown(main.request)

WaitForCommit ==
  /\ main.at = "wait" /\ ~main.asleep
  /\ IF Committed
     THEN Tell([command |-> "put", outcome |-> "committed",
                request |-> main.request])
     ELSE main' = [main EXCEPT !.asleep = TRUE] /\ UNCHANGED report
  /\ UNCHANGED <<cluster, counts, client>>

TimeOut ==
  /\ main.at = "wait" /\ main.asleep
  /\ Tell([command |-> "put",
           outcome |-> IF Committed THEN "committed" ELSE "pending",
           request |-> main.request])
  /\ UNCHANGED <<cluster, counts, client>>

\* refresh, and use: the mode changes with the next epoch, which the client
\* may or may not see in the second it looks.
Refresh ==
  /\ main.at = "ready" /\ program = "repl"
  /\ membership # epoch /\ membership' = epoch
  /\ UNCHANGED <<cluster, counts, program, request_id, main, report>>

SetClusterMode ==
  /\ main.at = "ready" /\ program = "repl"
  /\ epoch < MaxEpoch /\ epoch' = epoch + 1
  /\ membership' \in {epoch, epoch'}
  /\ UNCHANGED <<requests, commits, acks, faults, counts, program,
                 request_id, main, report>>

-----------------------------------------------------------------------------
\* The ids of the calls of a bench: none if there is no route.
Calls == {request_id..(request_id + BenchSize - 1), {}}

\* Mutant: what was completed before the bench counts for it.
BenchFromZero ==
  /\ main.at = "ready" /\ program = "repl"
  /\ RoomFor(BenchSize) /\ RoomFor(MaxAttempts)
  /\ \E ids \in Calls :
       /\ main' = [Idle EXCEPT !.at = "collect", !.command = "bench",
                               !.calls = ids, !.writes = ids,
                               !.before = pending]
       /\ \E ks \in [ids -> Key] : Send(ids, ks)
  /\ report' = NoReport

\* bench N: all calls are sent at once, with the membership known by then.
Bench ==
  /\ main.at = "ready" /\ program = "repl"
  /\ RoomFor(BenchSize) /\ RoomFor(MaxAttempts)
  /\ \E ids \in Calls :
       /\ main' = [Idle EXCEPT !.at = "collect", !.command = "bench",
                               !.start_completed = completed,
                               !.calls = ids, !.writes = ids,
                               !.before = pending]
       /\ \E ks \in [ids -> Key] : Send(ids, ks)
  /\ report' = NoReport

\* The answers come in any order; a call that fails is not tried again.
Collect(r) ==
  /\ main.at = "collect" /\ r \in main.calls
  /\ status[r] = "accepted"
  /\ RecordAcceptedWrite(r)
  /\ main' = [main EXCEPT !.calls = @ \ {r}, !.accepted = @ + 1]
  /\ UNCHANGED <<cluster, client, report>>

CollectFailure(r) ==
  /\ main.at = "collect" /\ r \in main.calls
  /\ \/ status[r] \in {"refused", "failed"} /\ UNCHANGED faults
     \/ faults < MaxFaults /\ faults' = faults + 1
  /\ main' = [main EXCEPT !.calls = @ \ {r}]
  /\ UNCHANGED <<epoch, requests, commits, acks, counts, client, report>>

CollectEnds ==
  /\ main.at = "collect" /\ main.calls = {}
  /\ main' = [main EXCEPT !.at = "tick", !.last_seen = completed]
  /\ UNCHANGED <<cluster, counts, client, report>>

TellBench(orphaned) ==
  Tell([command |-> "bench", committed |-> main.accepted - orphaned,
        writes |-> main.writes, before |-> main.before])

AllCompleted == completed >= main.start_completed + main.accepted

BenchWait ==
  /\ main.at = "tick" /\ ~main.asleep
  /\ IF AllCompleted
     THEN TellBench(0)
     ELSE main' = [main EXCEPT !.asleep = TRUE] /\ UNCHANGED report
  /\ UNCHANGED <<cluster, counts, client>>

\* Mutant: it never gives up.
BenchTickForEver ==
  /\ main.at = "tick" /\ main.asleep
  /\ IF AllCompleted
     THEN TellBench(0)
     ELSE main' = [main EXCEPT !.asleep = FALSE] /\ UNCHANGED report
  /\ UNCHANGED <<cluster, counts, client>>

\* Every kProgressTick: what is not acknowledged is given up for orphaned when
\* nothing has been completed for kStallTimeout.
BenchTick ==
  LET stalled == IF completed > main.last_seen THEN 0 ELSE main.stalled + 1
  IN  /\ main.at = "tick" /\ main.asleep
      /\ IF AllCompleted
         THEN TellBench(0)
         ELSE IF stalled >= StallTicks
         THEN TellBench(main.start_completed + main.accepted - completed)
         ELSE /\ main' = [main EXCEPT !.asleep = FALSE, !.stalled = stalled,
                                      !.last_seen = completed]
              /\ UNCHANGED report
      /\ UNCHANGED <<cluster, counts, client>>

\* --put-count: when the puts are sent, main waits for all of them, without a
\* time limit.
Drain ==
  /\ main.at = "ready" /\ program = "batch"
  /\ main' = [main EXCEPT !.at = "drain"]
  /\ UNCHANGED <<cluster, counts, client, report>>

DrainWait ==
  /\ main.at = "drain" /\ ~main.asleep
  /\ main' = IF completed >= expected
             THEN [main EXCEPT !.at = "done"]
             ELSE [main EXCEPT !.asleep = TRUE]
  /\ UNCHANGED <<cluster, counts, client, report>>

-----------------------------------------------------------------------------
ClusterStep(r) == Handle(r) \/ SendCommitAck(r)

Waits == WaitForCommit \/ TimeOut \/ BenchWait \/ BenchTick \/ DrainWait

Runs ==
  \/ Attempt \/ GiveUp \/ Refused \/ RefusedForGood \/ FetchMembership
  \/ PutResponse
  \/ (\E r \in Request : Collect(r) \/ CollectFailure(r)) \/ CollectEnds
  \/ Waits

Next ==
  \/ ChangeMembership
  \/ \E r \in Request : \/ ClusterStep(r) \/ CommitAck(r)
                        \/ SendCommitAckAgain(r) \/ LoseCommitAck(r)
  \/ \E command \in {"put", "put-async"}, k \in Key \cup Request :
       Begin(command, k)
  \/ Bench \/ Drain \/ Refresh \/ SetClusterMode
  \/ NoRoute \/ RpcFails \/ Runs

Spec == Init /\ [][Next]_vars

\* The client's threads run and its timers fire; servers answer, accepted
\* writes are acknowledged and the acks served, each in the end as there are no
\* more than MaxRequests.
FairSpec ==
  /\ Spec
  /\ WF_vars(Runs)
  /\ WF_vars(\E r \in Request : ClusterStep(r) \/ CommitAck(r))

-----------------------------------------------------------------------------
\* An ack of the key and version of the write has arrived.
AckedAs(r) == \E a \in acked : Name(a) = Name(r)

\* However answers and CommitAcks overtake each other, and however often an
\* ack comes, completed counts each write at most once, and none that was not
\* acknowledged under its key and version.  Of the accepted writes of one key
\* and version, which are more than one when it was given twice, one is counted
\* if such an ack has come and one is pending if not: the only write of its key
\* and version is counted when it is acknowledged, and pending till then.
CountsMatch ==
  /\ expected = Cardinality(recorded) /\ completed = Cardinality(counted)
  /\ counted \cup pending \subseteq recorded /\ counted \cap pending = {}
  /\ \A r \in counted : AckedAs(r)
  /\ \A r \in recorded :
       \E q \in (IF AckedAs(r) THEN counted ELSE pending) : Name(q) = Name(r)

\* What the user is told was committed was acknowledged.  A put is called
\* committed only when a CommitAck of the key and version it was accepted with
\* has arrived, which is that of another write only if the version was given
\* twice.  A bench claims no more writes than were acknowledged so of its own
\* and of those that were pending when it began: these it counts too, though
\* they are not its own.
Shown(S) == {r \in S \cap recorded : AckedAs(r)}

ClaimsWereAcked ==
  /\ report.command = "put" /\ report.outcome = "committed" =>
       report.request \in recorded /\ AckedAs(report.request)
  /\ report.command = "bench" =>
       report.committed <= Cardinality(Shown(report.writes \cup report.before))

\* No command hangs, whatever is lost: a put is told pending after its ten
\* seconds and a bench gives up.
CommandsEnd == main.at \notin {"ready", "drain", "done"} ~> main.at = "ready"

\* The client of --put-count ends, unless a CommitAck was lost: the last one to
\* arrive wakes it.
DrainEnds ==
  main.at = "drain" ~> main.at = "done" \/ commits \ (acks \cup acked) # {}

=============================================================================

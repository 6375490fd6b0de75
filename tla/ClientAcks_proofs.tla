------------------------- MODULE ClientAcks_proofs -------------------------
(***************************************************************************)
(* What the client counts and what it tells its user, for any number of    *)
(* requests, epochs and faults.  A write is recorded by one answer, so the *)
(* two places that count it, the service for an ack that finds its entry   *)
(* and RecordAcceptedWrite for an ack that was early, never both do, and   *)
(* of writes that share a name one is counted once the name was            *)
(* acknowledged: the ack that finds no entry leaves the name for the next. *)
(***************************************************************************)
EXTENDS ClientAcks, FiniteSetTheorems, TLAPS

Keys == Key \cup 0..MaxRequests

Main == [at : {"ready", "call", "rpc", "refresh", "wait", "collect", "tick",
               "drain", "done"},
         command : {"none", "put", "put-async", "bench"}, key : Keys,
         attempt : Nat, request : Nat, asleep : BOOLEAN,
         calls : SUBSET Request, start_completed : Nat, accepted : Nat,
         last_seen : Nat, stalled : Nat,
         writes : SUBSET Request, before : SUBSET Request]

\* The writes that can have raised completed since the bench began.
Counted == (main.writes \cup main.before) \cap counted

InBench == main.at \in {"collect", "tick"}

\* The request ids not given out yet are unknown to everyone.
Given == {r \in Request : r < request_id}

\* A request is sent with an id that was never used, so what is known of the
\* earlier ones stays true: an accepted one is accepted, with the same key and
\* version, for good.
Statuses == {"unused", "sent", "accepted", "refused", "failed"}

SentInv ==
  /\ program \in {"repl", "batch"} /\ request_id <= MaxRequests + 1
  /\ epoch \in 1..MaxEpoch /\ membership \in 1..epoch
  /\ status \in [Request -> Statuses] /\ key \in [Request -> Keys]
  /\ carried \in [Request -> 0..epoch] /\ version \in [Request -> Nat]
  /\ \A r \in Request : status[r] # "unused" => r < request_id
  /\ acks \cup acked \subseteq commits /\ commits \subseteq Request
  /\ \A r \in commits \cup recorded : status[r] = "accepted"
  /\ faults \in 0..MaxFaults

\* An early name was acknowledged; an acknowledged one is early or counted.
NamesInv ==
  /\ \A n \in committed_early : \E a \in acked : Name(a) = n
  /\ \A a \in acked : \/ Name(a) \in committed_early
                      \/ \E q \in counted : Name(q) = Name(a)

CountInv ==
  /\ request_id \in Nat \ {0}
  /\ recorded \subseteq Given /\ acked \subseteq Request
  /\ acks \subseteq Request
  /\ completed \in Nat
  /\ CountsMatch /\ NamesInv

\* What is awaited has not been recorded, and a bench is not ahead of its
\* acknowledged writes and those it found pending.
MainInv ==
  /\ main \in Main
  /\ main.at \in {"call", "rpc", "refresh"} =>
       /\ main.command # "bench"
       /\ request_id + (MaxAttempts - main.attempt) <= MaxRequests + 1
  /\ main.at = "rpc" => main.request \in Given \ recorded
  /\ main.at = "wait" => main.request \in recorded
  /\ InBench =>
       /\ main.writes \subseteq Given
       /\ main.calls \subseteq main.writes \ recorded
       /\ pending \subseteq main.writes \cup main.before
       /\ completed <= main.start_completed + Cardinality(Counted)

ReportInv ==
  /\ ClaimsWereAcked
  /\ report.command = "bench" => report.committed \in Int

AckInv == SentInv /\ CountInv /\ MainInv /\ ReportInv

-----------------------------------------------------------------------------
LEMMA RequestsFinite ==
  ASSUME NEW S, S \subseteq Request
  PROVE  IsFiniteSet(S) /\ Cardinality(S) \in Nat
<1>1. MaxRequests \in Nat
  BY ClientAssumption
<1>2. IsFiniteSet(Request)
  BY <1>1, FS_Interval DEF Request
<1> QED  BY <1>2, FS_Subset, FS_CardinalityType

LEMMA OneMore ==
  ASSUME NEW S, S \subseteq Request, NEW r \in Request, r \notin S
  PROVE  Cardinality(S \cup {r}) = Cardinality(S) + 1
BY RequestsFinite, FS_AddElement

LEMMA NotFewer ==
  ASSUME NEW S, NEW T, S \subseteq T, T \subseteq Request
  PROVE  /\ Cardinality(S) \in Nat /\ Cardinality(T) \in Nat
         /\ Cardinality(S) <= Cardinality(T)
BY RequestsFinite, FS_Subset

\* A write recorded for the first time is counted now or when its ack comes.
LEMMA RecordingCounts ==
  ASSUME CountInv, NEW r \in Given \ recorded, RecordAcceptedWrite(r),
         UNCHANGED <<request_id, acks>>, \A q \in Request : Name(q)' = Name(q)
  PROVE  CountInv'
<1>1. /\ recorded' = recorded \cup {r} /\ acked' = acked
      /\ expected' = expected + 1
  BY DEF RecordAcceptedWrite
<1>2. /\ recorded \subseteq Request /\ r \in Request /\ r \notin recorded
      /\ counted \subseteq recorded /\ pending \subseteq recorded
      /\ acked \subseteq Request
  BY DEF CountInv, CountsMatch, Given
<1>3. expected' = Cardinality(recorded')
  BY <1>1, <1>2, OneMore DEF CountInv, CountsMatch
<1>4. \A q \in Request : AckedAs(q)' <=> AckedAs(q)
  BY <1>1, <1>2 DEF AckedAs
<1>5. \A q \in recorded :
        \E p \in (IF AckedAs(q) THEN counted ELSE pending) : Name(p) = Name(q)
  BY DEF CountInv, CountsMatch
<1>6. CASE Name(r) \in committed_early
  <2>1. /\ completed' = completed + 1 /\ pending' = pending
        /\ counted' = counted \cup {r}
        /\ committed_early' = committed_early \ {Name(r)}
    BY <1>6 DEF RecordAcceptedWrite
  <2>2. AckedAs(r)
    BY <1>6 DEF CountInv, NamesInv, AckedAs
  <2>3. completed' = Cardinality(counted')
    <3>1. counted \subseteq Request /\ r \notin counted
      BY <1>2
    <3> QED  BY <1>2, <2>1, <3>1, OneMore DEF CountInv, CountsMatch
  <2>4. /\ counted' \cup pending' \subseteq recorded'
        /\ counted' \cap pending' = {}
    BY <1>1, <1>2, <2>1 DEF CountInv, CountsMatch
  <2>5. \A q \in counted' : AckedAs(q)'
    BY <1>2, <1>4, <2>1, <2>2 DEF CountInv, CountsMatch
  <2>6. \A q \in recorded' :
          \E p \in (IF AckedAs(q) THEN counted ELSE pending)' :
             Name(p)' = Name(q)'
    <3> TAKE q \in recorded'
    <3>1. CASE q = r
      BY <1>1, <1>2, <1>4, <2>1, <2>2, <3>1
    <3>2. CASE q \in recorded
      <4>1. PICK p \in (IF AckedAs(q) THEN counted ELSE pending) :
              Name(p) = Name(q)
        BY <1>5, <3>2
      <4>2. p \in (IF AckedAs(q) THEN counted ELSE pending)'
        BY <1>2, <1>4, <2>1, <3>2, <4>1
      <4> QED  BY <1>2, <3>2, <4>1, <4>2
    <3> QED  BY <1>1, <3>1, <3>2
  <2>7. NamesInv'
    BY <1>1, <1>2, <2>1 DEF CountInv, NamesInv
  <2> QED  BY <1>1, <1>2, <1>3, <2>1, <2>3, <2>4, <2>5, <2>6, <2>7
           DEF CountInv, CountsMatch, Given
<1>7. CASE Name(r) \notin committed_early
  <2>1. /\ completed' = completed /\ counted' = counted
        /\ pending' = Entered(r) /\ committed_early' = committed_early
    BY <1>7 DEF RecordAcceptedWrite
  <2>2. /\ counted' \cup pending' \subseteq recorded'
        /\ counted' \cap pending' = {}
    BY <1>1, <1>2, <2>1 DEF CountInv, CountsMatch, Entered
  <2>3. \A q \in counted' : AckedAs(q)'
    BY <1>2, <1>4, <2>1 DEF CountInv, CountsMatch
  <2>4. \A q \in recorded' :
          \E p \in (IF AckedAs(q) THEN counted ELSE pending)' :
             Name(p)' = Name(q)'
    <3> TAKE q \in recorded'
    <3>1. CASE AckedAs(q)
      <4>1. \E p \in counted : Name(p) = Name(q)
        <5>1. CASE q = r
          BY <1>7, <3>1, <5>1 DEF CountInv, NamesInv, AckedAs
        <5>2. CASE q \in recorded
          BY <1>5, <3>1, <5>2
        <5> QED  BY <1>1, <5>1, <5>2
      <4> QED  BY <1>1, <1>2, <1>4, <2>1, <3>1, <4>1
    <3>2. CASE ~AckedAs(q)
      <4>1. \E p \in pending' : Name(p) = Name(q)
        <5>1. CASE Name(q) = Name(r)
          BY <2>1, <5>1 DEF Entered
        <5>2. CASE Name(q) # Name(r)
          <6>1. q \in recorded
            BY <1>1, <5>2
          <6>2. PICK p \in pending : Name(p) = Name(q)
            BY <1>5, <3>2, <6>1
          <6> QED  BY <2>1, <5>2, <6>2 DEF Entered
        <5> QED  BY <5>1, <5>2
      <4>2. pending' \subseteq Request /\ q \in Request
        BY <1>1, <1>2, <2>1 DEF Entered
      <4> QED  BY <1>4, <3>2, <4>1, <4>2
    <3> QED  BY <3>1, <3>2
  <2>5. NamesInv'
    BY <1>1, <1>2, <2>1 DEF CountInv, NamesInv
  <2> QED  BY <1>1, <1>2, <1>3, <2>1, <2>2, <2>3, <2>4, <2>5
           DEF CountInv, CountsMatch, Given
<1> QED  BY <1>6, <1>7

\* An ack is counted if it finds the entry of a recorded write.
LEMMA AcksCount ==
  ASSUME CountInv, NEW r \in Request, CommitAck(r),
         \A q \in Request : Name(q)' = Name(q)
  PROVE  CountInv'
<1>1. /\ acked' = acked \cup {r} /\ recorded' = recorded
      /\ expected' = expected /\ request_id' = request_id
      /\ acks' \subseteq acks
  BY DEF CommitAck, client
<1>2. /\ recorded \subseteq Request /\ acked \subseteq Request
      /\ counted \subseteq recorded /\ pending \subseteq recorded
      /\ counted \cap pending = {}
  BY DEF CountInv, CountsMatch, Given
<1>3. \A q \in Request : AckedAs(q)' <=> (AckedAs(q) \/ Name(q) = Name(r))
  BY <1>1, <1>2 DEF AckedAs
<1>4. \A q \in recorded :
        \E p \in (IF AckedAs(q) THEN counted ELSE pending) : Name(p) = Name(q)
  BY DEF CountInv, CountsMatch
<1>5. CASE ~Unknown(r)
  <2>1. PICK e \in pending :
          /\ Name(e) = Name(r)
          /\ completed' = completed + 1
          /\ pending' = pending \ {e} /\ counted' = counted \cup {e}
          /\ committed_early' = committed_early
    BY <1>5 DEF CommitAck, KeepAside
  <2>2. completed' = Cardinality(counted')
    <3>1. counted \subseteq Request /\ e \in Request /\ e \notin counted
      BY <1>2
    <3> QED  BY <2>1, <3>1, OneMore DEF CountInv, CountsMatch
  <2>3. /\ counted' \cup pending' \subseteq recorded'
        /\ counted' \cap pending' = {}
    BY <1>1, <1>2, <2>1
  <2>4. \A q \in counted' : AckedAs(q)'
    BY <1>2, <1>3, <2>1 DEF CountInv, CountsMatch
  <2>5. \A q \in recorded' :
          \E p \in (IF AckedAs(q) THEN counted ELSE pending)' :
             Name(p)' = Name(q)'
    <3> TAKE q \in recorded'
    <3>1. PICK p \in (IF AckedAs(q) THEN counted ELSE pending) :
            Name(p) = Name(q)
      BY <1>1, <1>4
    <3>2. CASE Name(q) = Name(r)
      BY <1>1, <1>2, <1>3, <2>1, <3>2
    <3>3. CASE Name(q) # Name(r)
      <4>1. p \in (IF AckedAs(q) THEN counted ELSE pending)'
        BY <1>1, <1>2, <1>3, <2>1, <3>1, <3>3
      <4> QED  BY <1>1, <1>2, <3>1, <4>1
    <3> QED  BY <3>2, <3>3
  <2>6. NamesInv'
    BY <1>1, <1>2, <2>1 DEF CountInv, NamesInv
  <2> QED  BY <1>1, <1>2, <2>1, <2>2, <2>3, <2>4, <2>5, <2>6
           DEF CountInv, CountsMatch, Given
<1>6. CASE Unknown(r)
  <2>1. /\ completed' = completed /\ pending' = pending /\ counted' = counted
        /\ committed_early' = committed_early \cup {Name(r)}
    BY <1>6 DEF CommitAck, KeepAside, Unknown
  <2>2. \A q \in counted' : AckedAs(q)'
    BY <1>2, <1>3, <2>1 DEF CountInv, CountsMatch
  <2>3. \A q \in recorded' :
          \E p \in (IF AckedAs(q) THEN counted ELSE pending)' :
             Name(p)' = Name(q)'
    <3> TAKE q \in recorded'
    <3>1. PICK p \in (IF AckedAs(q) THEN counted ELSE pending) :
            Name(p) = Name(q)
      BY <1>1, <1>4
    <3>2. AckedAs(q)' <=> AckedAs(q)
      BY <1>1, <1>2, <1>3, <1>6, <3>1 DEF Unknown
    <3> QED  BY <1>1, <1>2, <2>1, <3>1, <3>2
  <2>4. NamesInv'
    BY <1>1, <1>2, <2>1 DEF CountInv, NamesInv
  <2> QED  BY <1>1, <1>2, <2>1, <2>2, <2>3, <2>4
           DEF CountInv, CountsMatch, Given
<1> QED  BY <1>5, <1>6

\* The other steps count nothing; some give out request ids.
LEMMA CountingNothing ==
  ASSUME CountInv, UNCHANGED counts, acks' \subseteq Request,
         request_id' \in Nat, request_id' >= request_id,
         \A q \in acked \cup recorded : Name(q)' = Name(q)
  PROVE  CountInv'
<1>1. Given \subseteq Given'
  BY ClientAssumption DEF Given, Request, CountInv
<1>2. /\ counted \subseteq recorded /\ pending \subseteq recorded
      /\ UNCHANGED <<acked, recorded, counted, pending, committed_early,
                     completed, expected>>
  BY DEF CountInv, CountsMatch, counts
<1>3. \A q \in recorded : AckedAs(q)' <=> AckedAs(q)
  BY <1>2 DEF AckedAs
<1>4. \A q \in counted' : AckedAs(q)'
  BY <1>2, <1>3 DEF CountInv, CountsMatch
<1>5. \A q \in recorded' :
        \E p \in (IF AckedAs(q) THEN counted ELSE pending)' :
           Name(p)' = Name(q)'
  <2> TAKE q \in recorded'
  <2>1. PICK p \in (IF AckedAs(q) THEN counted ELSE pending) :
          Name(p) = Name(q)
    BY <1>2 DEF CountInv, CountsMatch
  <2>2. p \in recorded /\ q \in recorded
    BY <1>2, <2>1
  <2> QED  BY <1>2, <1>3, <2>1, <2>2
<1>6. NamesInv'
  BY <1>2 DEF CountInv, NamesInv
<1> QED  BY <1>1, <1>2, <1>4, <1>5, <1>6 DEF CountInv, CountsMatch

\* Requests are sent with ids that were not given out before.
Sending(ids, ks) ==
  /\ Send(ids, ks)
  /\ ids \subseteq Request /\ ids \cap Given = {}
  /\ request_id' \in Nat /\ request_id <= request_id'
  /\ request_id' <= MaxRequests + 1
  /\ \A r \in ids : r < request_id' /\ ks[r] \in Keys

LEMMA AttemptSends ==
  ASSUME CountInv, MainInv, Attempt
  PROVE  /\ request_id' = request_id + 1
         /\ Sending({request_id}, [r \in {request_id} |-> main.key])
<1> USE ClientAssumption
<1>1. Cardinality({request_id}) = 1
  BY FS_Singleton
<1>2. /\ main.at = "call" /\ main.attempt < MaxAttempts
      /\ Send({request_id}, [r \in {request_id} |-> main.key])
  BY DEF Attempt
<1>3. request_id' = request_id + 1
  BY <1>1, <1>2 DEF Send
<1>4. /\ main.attempt \in Nat /\ main.key \in Keys
      /\ request_id \in Nat \ {0} /\ MaxRequests \in Nat
      /\ request_id + (MaxAttempts - main.attempt) <= MaxRequests + 1
  BY <1>2 DEF MainInv, Main, CountInv
<1>5. request_id <= MaxRequests
  BY <1>2, <1>4 DEF MaxAttempts
<1> QED  BY <1>2, <1>3, <1>4, <1>5 DEF Sending, Given, Request

LEMMA BenchSends ==
  ASSUME CountInv, Bench
  PROVE  \E ids \in SUBSET Request :
           /\ main' = [Idle EXCEPT !.at = "collect", !.command = "bench",
                                   !.start_completed = completed,
                                   !.calls = ids, !.writes = ids,
                                   !.before = pending]
           /\ Cardinality(ids) <= BenchSize
           /\ \E ks \in [ids -> Key] : Sending(ids, ks)
<1> USE ClientAssumption
<1>1. PICK ids \in Calls :
        /\ main' = [Idle EXCEPT !.at = "collect", !.command = "bench",
                                !.start_completed = completed,
                                !.calls = ids, !.writes = ids,
                                !.before = pending]
        /\ \E ks \in [ids -> Key] : Send(ids, ks)
  BY DEF Bench
<1>2. PICK ks \in [ids -> Key] : Send(ids, ks)
  BY <1>1
<1>3. /\ request_id \in Nat \ {0} /\ MaxRequests \in Nat /\ BenchSize \in Nat
      /\ request_id + BenchSize <= MaxRequests + 1
      /\ request_id + MaxAttempts <= MaxRequests + 1
  BY DEF CountInv, Bench, RoomFor
<1>4. ASSUME ids = {}
      PROVE  Cardinality(ids) <= BenchSize /\ Sending(ids, ks)
  <2>1. Cardinality(ids) = 0
    BY <1>4, FS_EmptySet
  <2>2. request_id' = request_id
    BY <1>2, <1>3, <2>1 DEF Send
  <2>3. Sending(ids, ks)
    BY <1>2, <1>3, <1>4, <2>2 DEF Sending, MaxAttempts
  <2> QED  BY <1>3, <2>1, <2>3
<1>5. ASSUME ids = request_id..(request_id + BenchSize - 1)
      PROVE  Cardinality(ids) <= BenchSize /\ Sending(ids, ks)
  <2>1. Cardinality(ids) = BenchSize
    <3>1. request_id \in Int /\ request_id + BenchSize - 1 \in Int
      BY <1>3
    <3> DEFINE last == request_id + BenchSize - 1
    <3>2. Cardinality(request_id..last)
            = IF request_id > last THEN 0 ELSE last - request_id + 1
      <4> HIDE DEF last
      <4> QED  BY <3>1, FS_Interval DEF last
    <3> QED  BY <1>3, <1>5, <3>1, <3>2
  <2>2. request_id' = request_id + BenchSize
    BY <1>2, <2>1 DEF Send
  <2>3. \A r \in ids : /\ r \in Int /\ request_id <= r
                       /\ r < request_id + BenchSize
    BY <1>3, <1>5
  <2>4. ids \subseteq Request /\ ids \cap Given = {}
    BY <1>3, <2>3 DEF Request, Given
  <2>5. Sending(ids, ks)
    <3>1. \A r \in ids : r < request_id' /\ ks[r] \in Keys
      BY <1>2, <2>2, <2>3 DEF Keys
    <3> QED  BY <1>2, <1>3, <2>2, <2>4, <3>1 DEF Sending
  <2> QED  BY <1>3, <2>1, <2>5
<1>6. Cardinality(ids) <= BenchSize /\ Sending(ids, ks)
  BY <1>4, <1>5 DEF Calls
<1>7. ids \in SUBSET Request
  BY <1>6 DEF Sending
<1>8. \E ms \in [ids -> Key] : Sending(ids, ms)
  BY <1>2, <1>6
<1> QED  BY <1>1, <1>6, <1>7, <1>8

LEMMA SendingKeepsNames ==
  ASSUME SentInv, NEW ids, NEW ks, Sending(ids, ks),
         NEW r \in Request, status[r] = "accepted"
  PROVE  Name(r)' = Name(r)
<1>1. r \in Given
  BY DEF SentInv, Given
<1>2. r \notin ids
  BY <1>1 DEF Sending
<1>3. key'[r] = key[r] /\ version' = version
  BY <1>2 DEF Sending, Send
<1> QED  BY <1>3 DEF Name

\* An accepted write keeps its key and version.
LEMMA NamesStay ==
  ASSUME SentInv, CountInv, MainInv, [Next]_vars,
         NEW r \in Request, status[r] = "accepted"
  PROVE  Name(r)' = Name(r)
<1>1. CASE UNCHANGED <<key, version>>
  BY <1>1 DEF Name
<1>2. ASSUME NEW q \in Request, Handle(q)
      PROVE  Name(r)' = Name(r)
  <2>1. /\ q # r /\ key' = key
        /\ \/ version' = version
           \/ \E v \in 1..NextVersion(q) : version' = [version EXCEPT ![q] = v]
    BY <1>2 DEF Handle, Accept, Refuse
  <2>2. version'[r] = version[r]
    BY <2>1 DEF SentInv
  <2> QED  BY <2>1, <2>2 DEF Name
<1>3. CASE Attempt
  BY <1>3, AttemptSends, SendingKeepsNames
<1>4. CASE Bench
  BY <1>4, BenchSends, SendingKeepsNames
<1>5. ASSUME NEW q \in Request, \/ SendCommitAck(q) \/ SendCommitAckAgain(q)
                                \/ LoseCommitAck(q) \/ CommitAck(q)
                                \/ Collect(q) \/ CollectFailure(q)
      PROVE  Name(r)' = Name(r)
  BY <1>1, <1>5 DEF SendCommitAck, SendCommitAckAgain, LoseCommitAck, CommitAck,
                    Collect, CollectFailure, cluster, requests
<1>6. CASE \/ ChangeMembership \/ Drain \/ Refresh \/ SetClusterMode
           \/ RpcFails \/ NoRoute \/ GiveUp \/ Refused \/ RefusedForGood
           \/ FetchMembership \/ PutResponse \/ CollectEnds \/ Waits
  BY <1>1, <1>6
     DEF ChangeMembership, Drain, Refresh, SetClusterMode, RpcFails, NoRoute,
         GiveUp, Refused, RefusedForGood, FetchMembership, PutResponse,
         CollectEnds, Waits, WaitForCommit, TimeOut, BenchWait, BenchTick,
         DrainWait, cluster, requests
<1>7. ASSUME NEW command, NEW k, Begin(command, k)
      PROVE  Name(r)' = Name(r)
  BY <1>1, <1>7 DEF Begin, cluster, requests
<1>8. CASE UNCHANGED vars
  BY <1>1, <1>8 DEF vars, cluster, requests
<1> QED
  BY <1>2, <1>3, <1>4, <1>5, <1>6, <1>7, <1>8 DEF Next, Runs, ClusterStep

LEMMA CountStep ==
  ASSUME SentInv, CountInv, MainInv, [Next]_vars
  PROVE  CountInv'
<1> DEFINE Stay == \A q \in acked \cup recorded : Name(q)' = Name(q)
<1>1. Stay
  <2>1. \A q \in acked \cup recorded : q \in Request /\ status[q] = "accepted"
    BY DEF SentInv, CountInv, Given
  <2> QED  BY <2>1, NamesStay
<1>2. ASSUME UNCHANGED <<key, version>>
      PROVE  \A q \in Request : Name(q)' = Name(q)
  BY <1>2 DEF Name
<1> HIDE DEF Stay
<1>3. ASSUME UNCHANGED counts, acks' \subseteq Request,
             request_id' \in Nat, request_id' >= request_id
      PROVE  CountInv'
  BY <1>1, <1>3, CountingNothing DEF Stay
<1>4. CASE UNCHANGED vars
  BY <1>3, <1>4 DEF vars, cluster, client, CountInv
<1>5. CASE PutResponse
  BY <1>2, <1>5, RecordingCounts
     DEF PutResponse, MainInv, cluster, requests, client
<1>6. ASSUME NEW r \in Request, Collect(r)
      PROVE  CountInv'
  <2>1. r \in Given \ recorded
    BY <1>6 DEF Collect, MainInv, InBench
  <2> QED  BY <1>2, <1>6, <2>1, RecordingCounts
           DEF Collect, cluster, requests, client
<1>7. ASSUME NEW r \in Request, CommitAck(r)
      PROVE  CountInv'
  BY <1>2, <1>7, AcksCount DEF CommitAck, requests
<1>8. CASE Attempt \/ Bench
  <2>1. \E ids, ks : Sending(ids, ks)
    BY <1>8, AttemptSends, BenchSends
  <2>2. UNCHANGED counts /\ acks' = acks
    BY <2>1 DEF Sending, Send
  <2>3. request_id' \in Nat /\ request_id' >= request_id
    BY <2>1 DEF Sending, CountInv
  <2> QED  BY <1>3, <2>2, <2>3 DEF CountInv
<1>9. ASSUME NEW r \in Request,
             \/ ClusterStep(r) \/ SendCommitAckAgain(r) \/ LoseCommitAck(r)
             \/ CollectFailure(r)
      PROVE  CountInv'
  BY <1>3, <1>9
     DEF ClusterStep, Handle, SendCommitAck, SendCommitAckAgain, LoseCommitAck,
         CollectFailure, client, CountInv
<1>10. ASSUME NEW command, NEW k, Begin(command, k)
      PROVE  CountInv'
  BY <1>3, <1>10 DEF Begin, cluster, client, CountInv
<1>11. CASE \/ ChangeMembership \/ Drain \/ Refresh \/ SetClusterMode
            \/ RpcFails \/ NoRoute \/ GiveUp \/ Refused \/ RefusedForGood
            \/ FetchMembership \/ CollectEnds
  BY <1>3, <1>11
     DEF ChangeMembership, Drain, Refresh, SetClusterMode, RpcFails, NoRoute,
         GiveUp, Refused, RefusedForGood, FetchMembership, CollectEnds, cluster,
         client, CountInv
<1>12. CASE Waits
  BY <1>3, <1>12
     DEF Waits, WaitForCommit, TimeOut, BenchWait, BenchTick, DrainWait,
         cluster, client, CountInv
<1> QED
  BY <1>4, <1>5, <1>6, <1>7, <1>8, <1>9, <1>10, <1>11, <1>12 DEF Next, Runs

-----------------------------------------------------------------------------
\* A bench is not overtaken by its own answers ...
LEMMA RecordingInBench ==
  ASSUME CountInv, MainInv, InBench, NEW r \in main.calls,
         RecordAcceptedWrite(r),
         main'.writes = main.writes, main'.before = main.before
  PROVE  /\ pending' \subseteq main.writes \cup main.before
         /\ completed' <= main.start_completed + Cardinality(Counted')
<1>1. /\ r \in main.writes /\ r \notin recorded /\ r \in Request
      /\ completed <= main.start_completed + Cardinality(Counted)
      /\ main.start_completed \in Nat /\ completed \in Nat
      /\ counted \subseteq recorded /\ recorded \subseteq Request
  BY DEF MainInv, CountInv, CountsMatch, InBench, Main, Given
<1>2. /\ pending' \subseteq pending \cup {r}
      /\ counted' = counted \/ counted' = counted \cup {r}
  BY DEF RecordAcceptedWrite, Entered
<1>3. pending' \subseteq main.writes \cup main.before
  BY <1>1, <1>2 DEF MainInv, InBench
<1>4. Counted \subseteq Request /\ Counted' \subseteq Request /\ r \notin Counted
  BY <1>1, <1>2 DEF Counted
<1>5. CASE Name(r) \in committed_early
  <2>1. counted' = counted \cup {r} /\ completed' = completed + 1
    BY <1>5 DEF RecordAcceptedWrite
  <2>2. Counted' = Counted \cup {r}
    BY <1>1, <2>1 DEF Counted
  <2> QED  BY <1>1, <1>3, <1>4, <2>1, <2>2, OneMore, RequestsFinite
<1>6. CASE Name(r) \notin committed_early
  <2>1. completed' = completed /\ Counted \subseteq Counted'
    BY <1>6 DEF Counted, RecordAcceptedWrite
  <2> QED  BY <1>1, <1>3, <1>4, <2>1, NotFewer
<1> QED  BY <1>5, <1>6

\* ... nor by the acks that come meanwhile.
LEMMA AcksInBench ==
  ASSUME CountInv, MainInv, InBench, NEW r \in Request, CommitAck(r),
         main'.writes = main.writes, main'.before = main.before
  PROVE  /\ pending' \subseteq main.writes \cup main.before
         /\ completed' <= main.start_completed + Cardinality(Counted')
<1>1. /\ pending \subseteq main.writes \cup main.before
      /\ completed <= main.start_completed + Cardinality(Counted)
      /\ main.start_completed \in Nat /\ completed \in Nat
      /\ counted \cup pending \subseteq Request /\ counted \cap pending = {}
  BY DEF MainInv, CountInv, CountsMatch, InBench, Main, Given
<1>2. CASE UNCHANGED <<completed, pending, counted>>
  <2>1. Counted' = Counted
    BY <1>2 DEF Counted
  <2> QED  BY <1>1, <1>2, <2>1
<1>3. ASSUME NEW q \in pending, completed' = completed + 1,
             pending' = pending \ {q}, counted' = counted \cup {q}
      PROVE  /\ pending' \subseteq main.writes \cup main.before
             /\ completed' <= main.start_completed + Cardinality(Counted')
  <2>1. Counted' = Counted \cup {q} /\ q \notin Counted /\ q \in Request
    BY <1>1, <1>3 DEF Counted
  <2>2. Counted \subseteq Request
    BY <1>1 DEF Counted
  <2> QED  BY <1>1, <1>3, <2>1, <2>2, OneMore, RequestsFinite
<1> QED  BY <1>2, <1>3 DEF CommitAck, KeepAside

\* The thread of the commands when it is idle again.
LEMMA IdleAgain ==
  ASSUME main' = Idle
  PROVE  MainInv'
<1>1. Idle \in Main
  BY ClientAssumption DEF Idle, Main, Keys
<1>2. main'.at = "ready"
  BY DEF Idle
<1>3. Main' = Main
  BY DEF Main, Keys, Request
<1> QED  BY <1>1, <1>2, <1>3 DEF MainInv, InBench

\* It may go on with the same bench, or a command of the same kind, if nothing
\* was counted.
LEMMA Elsewhere ==
  ASSUME CountInv, MainInv, UNCHANGED <<counts, request_id>>,
         main' \in Main,
         main'.at \in {"call", "rpc", "refresh"} =>
           /\ main.at \in {"call", "rpc", "refresh"}
           /\ main'.command = main.command /\ main'.attempt = main.attempt,
         main'.at = "rpc" => main.at = "rpc" /\ main'.request = main.request,
         main'.at = "wait" => main.at = "wait" /\ main'.request = main.request,
         InBench' =>
           /\ InBench /\ main'.writes = main.writes /\ main'.before = main.before
           /\ main'.calls \subseteq main.calls
           /\ main'.start_completed = main.start_completed
  PROVE  MainInv'
<1>1. /\ recorded' = recorded /\ pending' = pending /\ completed' = completed
      /\ counted' = counted /\ Given' = Given
  BY DEF counts, Given
<1>2. InBench' => Counted' = Counted
  BY <1>1 DEF Counted
<1>3. main'.at \in {"call", "rpc", "refresh"} =>
        /\ main'.command # "bench"
        /\ request_id' + (MaxAttempts - main'.attempt) <= MaxRequests + 1
  BY DEF MainInv
<1>4. /\ main'.at = "rpc" => main'.request \in Given' \ recorded'
      /\ main'.at = "wait" => main'.request \in recorded'
  BY <1>1 DEF MainInv
<1>5. InBench' =>
        /\ main'.writes \subseteq Given'
        /\ main'.calls \subseteq main'.writes \ recorded'
        /\ pending' \subseteq main'.writes \cup main'.before
        /\ completed' <= main'.start_completed + Cardinality(Counted')
  <2> HAVE InBench'
  <2>1. /\ main.writes \subseteq Given
        /\ main.calls \subseteq main.writes \ recorded
        /\ pending \subseteq main.writes \cup main.before
        /\ completed <= main.start_completed + Cardinality(Counted)
    BY DEF MainInv
  <2> QED  BY <1>1, <1>2, <2>1
<1> QED  BY <1>3, <1>4, <1>5 DEF MainInv

LEMMA MainStep ==
  ASSUME CountInv, MainInv, [Next]_vars
  PROVE  MainInv'
<1>1. CASE UNCHANGED <<main, counts, request_id>>
  <2>1. main' \in Main /\ (InBench' => InBench)
    BY <1>1 DEF MainInv, Main, InBench
  <2> QED  BY <1>1, <2>1, Elsewhere
<1>2. CASE PutResponse
  <2>1. CASE main.command = "put"
    <3>1. main' = [main EXCEPT !.at = "wait"]
          /\ recorded' = recorded \cup {main.request}
      BY <1>2, <2>1 DEF PutResponse, RecordAcceptedWrite
    <3>2. main' \in Main /\ main'.at = "wait" /\ main'.request \in recorded'
      BY <3>1 DEF MainInv, Main
    <3> QED  BY <3>2 DEF MainInv, InBench, Main, Keys
  <2> QED  BY <1>2, <2>1, IdleAgain DEF PutResponse, Tell
<1>3. ASSUME NEW r \in Request, Collect(r)
      PROVE  MainInv'
  <2>1. /\ main.at = "collect" /\ r \in main.calls
        /\ RecordAcceptedWrite(r)
        /\ main' = [main EXCEPT !.calls = @ \ {r}, !.accepted = @ + 1]
        /\ request_id' = request_id
    BY <1>3 DEF Collect, client
  <2>2. /\ main' \in Main /\ main'.at = "collect"
        /\ main'.calls = main.calls \ {r} /\ main'.writes = main.writes
        /\ main'.before = main.before
        /\ main'.start_completed = main.start_completed
    <3>1. main \in Main /\ Main' = Main
      BY DEF MainInv, Main, Keys, Request
    <3>2. /\ main.calls \ {r} \in SUBSET Request
          /\ main.accepted + 1 \in Nat
      BY <3>1 DEF Main
    <3> QED  BY <2>1, <3>1, <3>2 DEF Main
  <2>3. /\ pending' \subseteq main.writes \cup main.before
        /\ completed' <= main.start_completed + Cardinality(Counted')
    BY <2>1, <2>2, RecordingInBench DEF InBench
  <2>4. recorded' = recorded \cup {r} /\ Given' = Given
    BY <2>1 DEF RecordAcceptedWrite, Given
  <2>5. main.writes \subseteq Given /\ main.calls \subseteq main.writes \ recorded
    BY <2>1 DEF MainInv, InBench
  <2> QED  BY <2>2, <2>3, <2>4, <2>5 DEF MainInv, InBench, Main
<1>4. ASSUME NEW r \in Request, CommitAck(r)
      PROVE  MainInv'
  <2>1. /\ \/ main' = main
           \/ main' = [main EXCEPT !.asleep =
                         main.asleep /\ ~(completed' >= expected)]
        /\ recorded' = recorded /\ request_id' = request_id
    BY <1>4 DEF CommitAck, KeepAside, Notify, client
  <2>2. /\ main' \in Main /\ main'.at = main.at
        /\ main'.command = main.command /\ main'.attempt = main.attempt
        /\ main'.request = main.request /\ main'.calls = main.calls
        /\ main'.writes = main.writes /\ main'.before = main.before
        /\ main'.start_completed = main.start_completed
    BY <2>1 DEF MainInv, Main
  <2>3. InBench => /\ pending' \subseteq main.writes \cup main.before
                   /\ completed' <= main.start_completed + Cardinality(Counted')
    BY <1>4, <2>2, AcksInBench
  <2>4. Given' = Given
    BY <2>1 DEF Given
  <2> QED  BY <2>1, <2>2, <2>3, <2>4 DEF MainInv, InBench, Main
<1>5. CASE Attempt
  <2>1. /\ main.at = "call" /\ main.attempt < MaxAttempts
        /\ main' = [main EXCEPT !.at = "rpc", !.attempt = @ + 1,
                                !.request = request_id]
        /\ UNCHANGED counts
    BY <1>5 DEF Attempt, Send
  <2>2. request_id' = request_id + 1 /\ request_id \in Nat \ {0}
    BY <1>5, AttemptSends DEF CountInv
  <2>3. /\ main' \in Main /\ main'.at = "rpc"
        /\ main'.request = request_id /\ main'.command = main.command
        /\ main'.attempt = main.attempt + 1 /\ main.attempt \in Nat
    <3>1. main \in Main /\ Main' = Main
      BY DEF MainInv, Main, Keys, Request
    <3>2. main.attempt \in Nat /\ main.attempt + 1 \in Nat
      BY <3>1 DEF Main
    <3> QED  BY <2>1, <2>2, <3>1, <3>2 DEF Main
  <2>4. /\ main.command # "bench"
        /\ request_id + (MaxAttempts - main.attempt) <= MaxRequests + 1
    BY <2>1 DEF MainInv
  <2>5. request_id \in Given' /\ request_id \notin recorded'
    BY <2>1, <2>2, <2>3, <2>4, ClientAssumption
       DEF Given, Request, CountInv, counts, MaxAttempts
  <2>6. request_id' + (MaxAttempts - main'.attempt) <= MaxRequests + 1
    BY <2>2, <2>3, <2>4, ClientAssumption DEF MaxAttempts
  <2>7. ~InBench'
    BY <2>3 DEF InBench
  <2> QED  BY <2>3, <2>4, <2>5, <2>6, <2>7 DEF MainInv, Main
<1>6. CASE Bench
  <2>1. PICK ids \in SUBSET Request :
          /\ main' = [Idle EXCEPT !.at = "collect", !.command = "bench",
                                  !.start_completed = completed,
                                  !.calls = ids, !.writes = ids,
                                  !.before = pending]
          /\ \E ks \in [ids -> Key] : Sending(ids, ks)
    BY <1>6, BenchSends
  <2>2. UNCHANGED counts /\ ids \subseteq Given' /\ ids \cap recorded = {}
    BY <2>1 DEF Sending, Send, Given, CountInv
  <2>3. /\ pending \subseteq Request /\ pending \cap counted = {}
        /\ counted \subseteq recorded /\ completed \in Nat
    BY DEF CountInv, CountsMatch, Given
  <2>4. /\ main' \in Main /\ main'.at = "collect" /\ main'.calls = ids
        /\ main'.writes = ids /\ main'.before = pending
        /\ main'.start_completed = completed
    <3>1. 0 \in Keys
      BY ClientAssumption DEF Keys
    <3>2. pending \in SUBSET Request
      BY <2>3
    <3> QED  BY <2>1, <2>3, <3>1, <3>2 DEF Main, Idle
  <2>5. Cardinality(Counted') = 0
    <3>1. Counted' = {}
      BY <2>2, <2>3, <2>4 DEF Counted, counts
    <3> QED  BY <3>1, FS_EmptySet
  <2>6. /\ main'.writes \subseteq Given'
        /\ main'.calls \subseteq main'.writes \ recorded'
        /\ pending' \subseteq main'.writes \cup main'.before
        /\ completed' <= main'.start_completed + Cardinality(Counted')
    BY <2>2, <2>3, <2>4, <2>5 DEF counts
  <2> QED  BY <2>4, <2>6 DEF MainInv, Main
<1>7. ASSUME \/ ChangeMembership \/ Refresh \/ SetClusterMode
             \/ \E r \in Request : \/ ClusterStep(r) \/ SendCommitAckAgain(r)
                                   \/ LoseCommitAck(r)
      PROVE  MainInv'
  BY <1>1, <1>7
     DEF ChangeMembership, Refresh, SetClusterMode, ClusterStep, Handle,
         SendCommitAck, SendCommitAckAgain, LoseCommitAck, client
<1>8. CASE \E command \in {"put", "put-async"}, k \in Key \cup Request :
             Begin(command, k)
  <2>1. PICK command \in {"put", "put-async"}, k \in Key \cup Request :
          Begin(command, k)
    BY <1>8
  <2>2. /\ main' = [Idle EXCEPT !.at = "call", !.command = command, !.key = k]
        /\ request_id + MaxAttempts <= MaxRequests + 1
        /\ request_id' = request_id
    BY <2>1 DEF Begin, RoomFor, client
  <2>3. /\ main' \in Main /\ main'.at = "call" /\ main'.command = command
        /\ main'.attempt = 0
    <3>1. k \in Keys
      BY ClientAssumption DEF Keys, Request
    <3> QED  BY <2>2, <3>1 DEF Main, Idle
  <2> QED  BY <2>2, <2>3, ClientAssumption
           DEF MainInv, InBench, Main, CountInv, MaxAttempts
<1>9. CASE main' = Idle
  BY <1>9, IdleAgain
<1>10. CASE RpcFails \/ Refused \/ FetchMembership
  <2>1. CASE main' # Idle
    <3>1. /\ main.at \in {"rpc", "refresh"}
          /\ \E place \in {"call", "refresh"} : main' = [main EXCEPT !.at = place]
          /\ UNCHANGED <<counts, request_id>>
      BY <1>10, <2>1 DEF RpcFails, Refused, FetchMembership, Tell, client
    <3>2. /\ main' \in Main /\ main'.at \in {"call", "refresh"}
          /\ main'.command = main.command /\ main'.attempt = main.attempt
      BY <3>1 DEF MainInv, Main
    <3>3. ~InBench'
      BY <3>2 DEF InBench
    <3> QED  BY <3>1, <3>2, <3>3, Elsewhere
  <2> QED  BY <2>1, <1>9
<1>11. CASE \/ WaitForCommit \/ TimeOut \/ GiveUp \/ NoRoute \/ RefusedForGood
            \/ BenchWait
  <2>1. CASE main' # Idle
    <3>1. /\ main' = [main EXCEPT !.asleep = TRUE]
          /\ main.at \in {"wait", "tick"}
          /\ UNCHANGED <<counts, request_id>>
      BY <1>11, <2>1
         DEF WaitForCommit, TimeOut, GiveUp, NoRoute, RefusedForGood, BenchWait,
             TellBench, Tell, client
    <3>2. /\ main' \in Main /\ main'.at = main.at
          /\ main'.request = main.request /\ main'.calls = main.calls
          /\ main'.writes = main.writes /\ main'.before = main.before
          /\ main'.start_completed = main.start_completed
      BY <3>1 DEF MainInv, Main
    <3>3. InBench' => InBench
      BY <3>2 DEF InBench
    <3> QED  BY <3>1, <3>2, <3>3, Elsewhere
  <2> QED  BY <2>1, <1>9
<1>12. CASE BenchTick
  <2>1. CASE main' # Idle
    <3>1. \E n \in Nat :
            main' = [main EXCEPT !.asleep = FALSE, !.stalled = n,
                                 !.last_seen = completed]
      <4> DEFINE stalled == IF completed > main.last_seen THEN 0
                            ELSE main.stalled + 1
      <4>1. stalled \in Nat
        BY DEF MainInv, Main
      <4>2. main' = [main EXCEPT !.asleep = FALSE, !.stalled = stalled,
                                 !.last_seen = completed]
        BY <1>12, <2>1 DEF BenchTick, TellBench, Tell
      <4> HIDE DEF stalled
      <4> QED  BY <4>1, <4>2
    <3>2. /\ UNCHANGED <<counts, request_id>>
          /\ main.at = "tick" /\ completed \in Nat
      BY <1>12 DEF BenchTick, client, CountInv
    <3>3. /\ main' \in Main /\ main'.at = "tick" /\ main'.calls = main.calls
          /\ main'.writes = main.writes /\ main'.before = main.before
          /\ main'.start_completed = main.start_completed
      BY <3>1, <3>2 DEF MainInv, Main
    <3> QED  BY <3>2, <3>3, Elsewhere DEF InBench
  <2> QED  BY <2>1, <1>9
<1>13. CASE Drain \/ DrainWait
  <2>1. /\ \/ main' = [main EXCEPT !.at = "drain"]
           \/ main.at = "drain" /\ main' = [main EXCEPT !.at = "done"]
           \/ main.at = "drain" /\ main' = [main EXCEPT !.asleep = TRUE]
        /\ UNCHANGED <<counts, request_id>>
    BY <1>13 DEF Drain, DrainWait, client
  <2>2. main' \in Main /\ main'.at \in {"drain", "done"}
    <3>1. main \in Main
      BY DEF MainInv
    <3>2. CASE \E place \in {"drain", "done"} : main' = [main EXCEPT !.at = place]
      BY <3>1, <3>2 DEF Main
    <3>3. CASE main.at = "drain" /\ main' = [main EXCEPT !.asleep = TRUE]
      BY <3>1, <3>3 DEF Main
    <3> QED  BY <2>1, <3>2, <3>3
  <2>3. ~InBench'
    BY <2>2 DEF InBench
  <2> QED  BY <2>1, <2>2, <2>3, Elsewhere
<1>14. CASE CollectEnds \/ \E r \in Request : CollectFailure(r)
  <2>1. /\ main.at = "collect"
        /\ \/ main' = [main EXCEPT !.at = "tick", !.last_seen = completed]
           \/ \E r \in Request : main' = [main EXCEPT !.calls = @ \ {r}]
        /\ UNCHANGED <<counts, request_id>> /\ completed \in Nat
    BY <1>14 DEF CollectEnds, CollectFailure, client, CountInv
  <2>2. main \in Main /\ \A r \in Request : main.calls \ {r} \in SUBSET Request
    BY DEF MainInv, Main
  <2>3. /\ main' \in Main /\ main'.at \in {"collect", "tick"}
        /\ main'.calls \subseteq main.calls
        /\ main'.writes = main.writes /\ main'.before = main.before
        /\ main'.start_completed = main.start_completed
    <3>1. CASE main' = [main EXCEPT !.at = "tick", !.last_seen = completed]
      BY <2>1, <2>2, <3>1 DEF Main
    <3>2. ASSUME NEW r \in Request, main' = [main EXCEPT !.calls = @ \ {r}]
          PROVE  /\ main' \in Main /\ main'.at = "collect"
                 /\ main'.calls \subseteq main.calls
                 /\ main'.writes = main.writes /\ main'.before = main.before
                 /\ main'.start_completed = main.start_completed
      <4>1. main.calls \ {r} \in SUBSET Request
        BY <2>2
      <4> QED  BY <2>1, <2>2, <3>2, <4>1 DEF Main
    <3> QED  BY <2>1, <3>1, <3>2
  <2> QED  BY <2>1, <2>3, Elsewhere DEF InBench
<1> QED
  BY <1>1, <1>2, <1>3, <1>4, <1>5, <1>6, <1>7, <1>8, <1>10, <1>11, <1>12, <1>13,
     <1>14 DEF Next, Runs, Waits, vars, client

-----------------------------------------------------------------------------
\* What was told stays true: acks only come, and a recorded write keeps its
\* key and version.
Told ==
  /\ recorded \subseteq recorded' /\ acked \subseteq acked'
  /\ recorded' \subseteq Request
  /\ \A r \in recorded \cup acked : Name(r)' = Name(r)

LEMMA AckedStays ==
  ASSUME Told, NEW r \in recorded, AckedAs(r)
  PROVE  r \in recorded' /\ AckedAs(r)'
<1>1. PICK a \in acked : Name(a) = Name(r)
  BY DEF AckedAs
<1>2. a \in acked' /\ Name(a)' = Name(r)'
  BY <1>1 DEF Told
<1> QED  BY <1>2 DEF Told, AckedAs

LEMMA ShownStays ==
  ASSUME Told, recorded \subseteq Request, NEW S
  PROVE  /\ Cardinality(Shown(S)) \in Nat /\ Cardinality(Shown(S)') \in Nat
         /\ Cardinality(Shown(S)) <= Cardinality(Shown(S)')
<1>1. Shown(S) \subseteq Shown(S)'
  BY AckedStays DEF Shown
<1>2. Shown(S)' \subseteq Request
  BY DEF Shown, Told
<1> QED  BY <1>1, <1>2, NotFewer

LEMMA ToldBefore ==
  ASSUME CountInv, Told, ReportInv, report' = report
  PROVE  ReportInv'
<1>1. recorded \subseteq Request
  BY DEF CountInv, Given
<1>2. CASE report.command = "bench"
  <2>1. PICK S : S = report.writes \cup report.before
    OBVIOUS
  <2>2. /\ report.committed \in Int /\ report.committed <= Cardinality(Shown(S))
        /\ report'.committed = report.committed /\ report'.command = "bench"
    BY <1>2, <2>1 DEF ReportInv, ClaimsWereAcked
  <2>3. report'.committed <= Cardinality(Shown(S)')
    <3>1. /\ Cardinality(Shown(S)) \in Nat /\ Cardinality(Shown(S)') \in Nat
          /\ Cardinality(Shown(S)) <= Cardinality(Shown(S)')
      BY <1>1, ShownStays
    <3> QED  BY <2>2, <3>1
  <2>4. Shown(S)' = Shown(report.writes \cup report.before)'
    BY <2>1 DEF Shown
  <2> QED  BY <2>2, <2>3, <2>4 DEF ReportInv, ClaimsWereAcked
<1>3. CASE report.command = "put" /\ report.outcome = "committed"
  <2>1. report.request \in recorded /\ AckedAs(report.request)
    BY <1>3 DEF ReportInv, ClaimsWereAcked
  <2>2. PICK r \in recorded : r = report.request
    BY <2>1
  <2>3. r \in recorded' /\ AckedAs(r)'
    BY <2>1, <2>2, AckedStays
  <2>4. report'.request \in recorded' /\ AckedAs(report.request)'
    BY <2>2, <2>3 DEF AckedAs
  <2> QED  BY <1>3, <2>4 DEF ReportInv, ClaimsWereAcked
<1>4. CASE ~(report.command = "put" /\ report.outcome = "committed")
           /\ report.command # "bench"
  BY <1>4 DEF ReportInv, ClaimsWereAcked
<1> QED  BY <1>2, <1>3, <1>4

\* A bench that ends has Counted writes to show for what it claims.
LEMMA BenchTells ==
  ASSUME CountInv, MainInv, main.at = "tick", UNCHANGED counts,
         UNCHANGED <<key, version>>,
         \/ AllCompleted /\ TellBench(0)
         \/ TellBench(main.start_completed + main.accepted - completed)
  PROVE  ReportInv'
<1>1. /\ main.start_completed \in Nat /\ main.accepted \in Nat
      /\ completed \in Nat
      /\ completed <= main.start_completed + Cardinality(Counted)
  BY DEF MainInv, Main, CountInv, InBench
<1> DEFINE S == main.writes \cup main.before
<1> DEFINE shown == Shown(S)
<1>2. /\ Cardinality(Counted) \in Nat /\ Cardinality(shown) \in Nat
      /\ Cardinality(Counted) <= Cardinality(shown)
  <2>1. Counted \subseteq shown /\ shown \subseteq Request
    BY DEF Counted, CountInv, CountsMatch, Shown, Given
  <2> HIDE DEF shown
  <2> QED  BY <2>1, NotFewer
<1>3. \E n \in Int :
        /\ report' = [command |-> "bench", committed |-> n,
                      writes |-> main.writes, before |-> main.before]
        /\ n <= completed - main.start_completed
  BY <1>1 DEF AllCompleted, TellBench, Tell
<1>4. PICK n \in Int :
        /\ report' = [command |-> "bench", committed |-> n,
                      writes |-> main.writes, before |-> main.before]
        /\ n <= completed - main.start_completed
  BY <1>3
<1>5. n <= Cardinality(shown)
  BY <1>1, <1>2, <1>4
<1>6. /\ report'.command = "bench" /\ report'.committed = n
      /\ report'.writes \cup report'.before = S
  BY <1>4
<1>7. Shown(report.writes \cup report.before)' = shown
  BY <1>6 DEF Shown, AckedAs, Name, counts
<1> HIDE DEF shown, S
<1> QED  BY <1>5, <1>6, <1>7 DEF ReportInv, ClaimsWereAcked

LEMMA ReportStep ==
  ASSUME AckInv, [Next]_vars
  PROVE  ReportInv'
<1> USE DEF AckInv
<1>1. Told
  <2>1. recorded \subseteq recorded' /\ acked \subseteq acked'
    BY DEF Next, vars, cluster, counts, client, ChangeMembership, ClusterStep,
           Handle, SendCommitAck, CommitAck, KeepAside, SendCommitAckAgain,
           LoseCommitAck, Begin, Bench, Send, Drain, Refresh, SetClusterMode,
           NoRoute, RpcFails, Runs, Attempt, GiveUp, Refused, RefusedForGood,
           FetchMembership, PutResponse, Collect, CollectFailure, CollectEnds,
           RecordAcceptedWrite, Waits, WaitForCommit, TimeOut, BenchWait,
           BenchTick, DrainWait
  <2>2. recorded' \subseteq Request
    BY CountStep DEF CountInv, Given
  <2>3. \A r \in recorded \cup acked : r \in Request /\ status[r] = "accepted"
    BY DEF SentInv, CountInv, Given
  <2> QED  BY <2>1, <2>2, <2>3, NamesStay DEF Told
<1>2. CASE report' = report
  BY <1>1, <1>2, ToldBefore
<1>3. CASE report'.command # "bench" /\ report'.command # "put"
  BY <1>3 DEF ReportInv, ClaimsWereAcked
<1>4. CASE report'.command # "bench" /\ report'.outcome # "committed"
  BY <1>4 DEF ReportInv, ClaimsWereAcked
<1>5. CASE GiveUp \/ NoRoute \/ RefusedForGood \/ FetchMembership
  <2>1. CASE report' = Fail
    <3>1. main.command # "bench"
      BY <1>5 DEF GiveUp, NoRoute, RefusedForGood, FetchMembership, MainInv
    <3> QED  BY <2>1, <3>1, <1>4 DEF Fail
  <2> QED  BY <1>5, <2>1, <1>2
           DEF GiveUp, NoRoute, RefusedForGood, FetchMembership, Tell
<1>6. CASE PutResponse
  <2>1. CASE main.command # "put"
    <3>1. main.command # "bench"
      BY <1>6 DEF PutResponse, MainInv
    <3> QED  BY <1>6, <2>1, <3>1, <1>3 DEF PutResponse, Tell
  <2> QED  BY <1>6, <2>1, <1>2 DEF PutResponse
<1>7. CASE WaitForCommit \/ TimeOut
  <2>1. CASE Committed
    <3>1. main.at = "wait" /\ UNCHANGED <<recorded, acked, key, version>>
      BY <1>7 DEF WaitForCommit, TimeOut, cluster, requests, counts
    <3>2. main.request \in recorded /\ AckedAs(main.request)
      <4>1. main.request \in recorded
        BY <3>1 DEF MainInv
      <4>2. \A q \in pending : Name(q) # Name(main.request)
        BY <2>1 DEF Committed, Unknown
      <4> QED  BY <4>1, <4>2 DEF CountInv, CountsMatch
    <3>3. PICK r : r = main.request
      OBVIOUS
    <3>4. r \in recorded' /\ AckedAs(r)'
      BY <3>1, <3>2, <3>3 DEF AckedAs, Name
    <3>5. report' = [command |-> "put", outcome |-> "committed",
                     request |-> main.request]
      BY <1>7, <2>1 DEF WaitForCommit, TimeOut, Tell
    <3>6. /\ report'.command = "put" /\ report'.request = r
          /\ AckedAs(report.request)'
      BY <3>3, <3>4, <3>5 DEF AckedAs
    <3> QED  BY <3>4, <3>6 DEF ReportInv, ClaimsWereAcked
  <2>2. CASE ~Committed
    BY <1>7, <2>2, <1>2, <1>4 DEF WaitForCommit, TimeOut, Tell
  <2> QED  BY <2>1, <2>2
<1>8. CASE BenchWait \/ BenchTick
  <2>1. main.at = "tick" /\ UNCHANGED counts /\ UNCHANGED <<key, version>>
    BY <1>8 DEF BenchWait, BenchTick, cluster, requests
  <2>2. \/ report' = report
        \/ AllCompleted /\ TellBench(0)
        \/ TellBench(main.start_completed + main.accepted - completed)
    BY <1>8 DEF BenchWait, BenchTick
  <2> QED  BY <2>1, <2>2, <1>2, BenchTells
<1>9. CASE \/ Bench
           \/ \E command \in {"put", "put-async"}, k \in Key \cup Request :
                Begin(command, k)
  <2>1. report' = NoReport
    BY <1>9 DEF Bench, Begin
  <2>2. NoReport.command = "none"
    BY DEF NoReport
  <2> QED  BY <2>1, <2>2, <1>3
<1>10. CASE \/ ChangeMembership \/ Drain \/ Refresh \/ SetClusterMode \/ RpcFails
            \/ Attempt \/ Refused \/ CollectEnds \/ DrainWait
            \/ \E r \in Request :
                 \/ ClusterStep(r) \/ SendCommitAckAgain(r) \/ LoseCommitAck(r)
                 \/ CommitAck(r) \/ Collect(r) \/ CollectFailure(r)
  BY <1>10, <1>2
     DEF ChangeMembership, ClusterStep, Handle, SendCommitAck, CommitAck,
         SendCommitAckAgain, LoseCommitAck, Drain, Refresh, SetClusterMode,
         RpcFails, Attempt, Refused, Collect, CollectFailure, CollectEnds,
         DrainWait
<1> QED
  BY <1>2, <1>5, <1>6, <1>7, <1>8, <1>9, <1>10 DEF Next, Runs, Waits, vars

-----------------------------------------------------------------------------
LEMMA SendKeepsSent ==
  ASSUME CountInv, SentInv, NEW ids, NEW ks, Sending(ids, ks)
  PROVE  SentInv'
<1> USE ClientAssumption
<1>1. /\ status' = [r \in Request |-> IF r \in ids THEN "sent" ELSE status[r]]
      /\ key' = [r \in Request |-> IF r \in ids THEN ks[r] ELSE key[r]]
      /\ carried' = [r \in Request |-> IF r \in ids THEN membership
                                       ELSE carried[r]]
      /\ UNCHANGED <<epoch, version, commits, acks, faults, counts, program,
                     membership>>
  BY DEF Sending, Send
<1>2. membership \in 0..epoch /\ \A r \in ids : ks[r] \in Keys
  BY DEF SentInv, Sending
<1>3. /\ status' \in [Request -> Statuses] /\ key' \in [Request -> Keys]
      /\ carried' \in [Request -> 0..epoch]
  BY <1>1, <1>2 DEF SentInv, Statuses
<1>4. \A r \in Request : status'[r] # "unused" => r < request_id'
  <2> TAKE r \in Request
  <2>1. CASE r \in ids
    BY <2>1 DEF Sending
  <2>2. CASE r \notin ids
    <3>1. /\ r \in Nat /\ request_id \in Nat /\ request_id' \in Nat
          /\ request_id <= request_id'
      BY DEF Request, CountInv, Sending
    <3>2. status'[r] # "unused" => r < request_id
      BY <1>1, <2>2 DEF SentInv
    <3> QED  BY <3>1, <3>2
  <2> QED  BY <2>1, <2>2
<1>5. \A r \in commits \cup recorded : status'[r] = "accepted"
  <2> TAKE r \in commits \cup recorded
  <2>1. r \in Request /\ status[r] = "accepted"
    BY DEF SentInv, CountInv, Given
  <2>2. r \notin ids
    BY <2>1 DEF SentInv, Given, Sending
  <2> QED  BY <1>1, <2>1, <2>2
<1>6. request_id' <= MaxRequests + 1
  BY DEF Sending
<1> QED  BY <1>1, <1>3, <1>4, <1>5, <1>6 DEF SentInv, counts

\* The steps that send nothing and leave the epochs alone.
LEMMA SentElsewhere ==
  ASSUME SentInv, UNCHANGED <<program, request_id, epoch, membership,
                              requests>>,
         commits' \subseteq Request,
         \A r \in (commits' \cup recorded') : status[r] = "accepted",
         acks' \cup acked' \subseteq commits', faults' \in 0..MaxFaults
  PROVE  SentInv'
BY DEF SentInv, requests

LEMMA SentStep ==
  ASSUME CountInv, MainInv, SentInv, [Next]_vars
  PROVE  SentInv'
<1> USE ClientAssumption
<1>1. /\ MaxFaults \in Nat /\ MaxEpoch \in Nat /\ epoch \in Nat
      /\ membership \in Nat /\ faults \in Nat
  BY DEF SentInv
<1>2. CASE UNCHANGED <<cluster, client, acked, recorded>>
  BY <1>2 DEF SentInv, cluster, requests, client
<1>3. CASE ChangeMembership \/ SetClusterMode
  <2>1. /\ epoch < MaxEpoch /\ epoch' = epoch + 1
        /\ membership' \in {membership, epoch, epoch'}
        /\ UNCHANGED <<status, key, carried, version, commits, acks, faults,
                       acked, recorded, program, request_id>>
    BY <1>3 DEF ChangeMembership, SetClusterMode, requests, counts, client
  <2>2. epoch' \in 1..MaxEpoch /\ membership' \in 1..epoch'
    BY <1>1, <2>1 DEF SentInv
  <2>3. carried' \in [Request -> 0..epoch']
    <3>1. 0..epoch \subseteq 0..epoch'
      BY <1>1, <2>1
    <3> QED  BY <2>1, <3>1 DEF SentInv
  <2> QED  BY <2>1, <2>2, <2>3 DEF SentInv
<1>4. CASE Refresh \/ FetchMembership
  <2>1. /\ membership' \in {membership, epoch}
        /\ \/ faults' = faults
           \/ faults < MaxFaults /\ faults' = faults + 1
        /\ UNCHANGED <<epoch, status, key, carried, version, commits, acks, acked,
                       recorded, program, request_id>>
    BY <1>4 DEF Refresh, FetchMembership, requests, counts, cluster
  <2>2. membership' \in 1..epoch' /\ faults' \in 0..MaxFaults
    BY <1>1, <2>1 DEF SentInv
  <2> QED  BY <2>1, <2>2 DEF SentInv
<1>5. ASSUME NEW r \in Request, Handle(r)
      PROVE  SentInv'
  <2>1. /\ status[r] = "sent" /\ key' = key
        /\ carried' = [carried EXCEPT ![r] = 0]
        /\ UNCHANGED <<epoch, commits, acks, acked, recorded, client>>
    BY <1>5 DEF Handle, counts
  <2>2. \E s \in {"accepted", "refused", "failed"} :
           status' = [status EXCEPT ![r] = s]
    BY <1>5 DEF Handle, Accept, Refuse
  <2>3. /\ status' \in [Request -> Statuses]
        /\ \A i \in Request : i # r => status'[i] = status[i]
    BY <2>2 DEF SentInv, Statuses
  <2>4. carried' \in [Request -> 0..epoch]
    BY <1>1, <2>1 DEF SentInv
  <2>5. \A i \in Request : status'[i] # "unused" => i < request_id
    BY <2>1, <2>3 DEF SentInv
  <2>6. \A i \in (commits \cup recorded) : status'[i] = "accepted"
    BY <2>1, <2>3 DEF SentInv, CountInv, Given
  <2>7. version' \in [Request -> Nat]
    <3>1. NextVersion(r) \in Nat
      BY RequestsFinite DEF NextVersion
    <3>2. version' = version
          \/ \E v \in 1..NextVersion(r) : version' = [version EXCEPT ![r] = v]
      BY <1>5 DEF Handle, Accept, Refuse
    <3> QED  BY <3>1, <3>2 DEF SentInv
  <2>8. faults' \in 0..MaxFaults
    <3>1. faults' = faults \/ (faults < MaxFaults /\ faults' = faults + 1)
      BY <1>5 DEF Handle, Accept, Refuse
    <3> QED  BY <1>1, <3>1 DEF SentInv
  <2> QED  BY <2>1, <2>3, <2>4, <2>5, <2>6, <2>7, <2>8 DEF SentInv, client
<1>6. ASSUME NEW r \in Request,
             \/ SendCommitAck(r) \/ SendCommitAckAgain(r) \/ LoseCommitAck(r)
             \/ CommitAck(r)
      PROVE  SentInv'
  <2>1. /\ UNCHANGED <<epoch, requests, recorded, client>>
        /\ commits' \subseteq commits \cup {r} /\ status[r] = "accepted"
        /\ acks' \cup acked' \subseteq commits'
    BY <1>6 DEF SendCommitAck, SendCommitAckAgain, LoseCommitAck, CommitAck,
                KeepAside, counts, SentInv
  <2>2. faults' = faults \/ (faults < MaxFaults /\ faults' = faults + 1)
    BY <1>6 DEF SendCommitAck, SendCommitAckAgain, LoseCommitAck, CommitAck
  <2>3. faults' \in 0..MaxFaults
    BY <1>1, <2>2 DEF SentInv
  <2>4. \A i \in (commits' \cup recorded') : status[i] = "accepted"
    BY <2>1 DEF SentInv
  <2> QED  BY <2>1, <2>3, <2>4, SentElsewhere DEF client, SentInv
<1>7. ASSUME NEW r \in Request, status[r] = "accepted", RecordAcceptedWrite(r),
             UNCHANGED <<cluster, client>>
      PROVE  SentInv'
  <2>1. recorded' = recorded \cup {r} /\ acked' = acked
    BY <1>7 DEF RecordAcceptedWrite
  <2>2. \A i \in (commits' \cup recorded') : status[i] = "accepted"
    BY <1>7, <2>1 DEF SentInv, cluster
  <2> QED  BY <1>7, <2>1, <2>2, SentElsewhere DEF SentInv, cluster, client
<1>8. CASE PutResponse
  <2>1. main.request \in Request
    BY <1>8 DEF PutResponse, MainInv, Given
  <2> QED  BY <1>7, <1>8, <2>1 DEF PutResponse
<1>9. CASE RpcFails \/ \E r \in Request : Collect(r) \/ CollectFailure(r)
  <2>1. CASE \E r \in Request : Collect(r)
    BY <1>7, <2>1 DEF Collect
  <2>2. CASE RpcFails \/ \E r \in Request : CollectFailure(r)
    <3>1. /\ faults' = faults \/ (faults < MaxFaults /\ faults' = faults + 1)
          /\ UNCHANGED <<epoch, requests, commits, acks, counts, client>>
      BY <2>2 DEF RpcFails, CollectFailure
    <3>2. faults' \in 0..MaxFaults
      BY <1>1, <3>1 DEF SentInv
    <3> QED  BY <3>1, <3>2, SentElsewhere DEF SentInv, counts, client
  <2> QED  BY <1>9, <2>1, <2>2
<1>10. CASE Attempt \/ Bench
  BY <1>10, AttemptSends, BenchSends, SendKeepsSent
<1>11. CASE \/ Drain \/ NoRoute \/ GiveUp \/ Refused \/ RefusedForGood
            \/ CollectEnds \/ Waits
            \/ \E command \in {"put", "put-async"}, k \in Key \cup Request :
                 Begin(command, k)
  BY <1>2, <1>11
     DEF Drain, NoRoute, GiveUp, Refused, RefusedForGood, CollectEnds, Waits, WaitForCommit, TimeOut,
         BenchWait, BenchTick, DrainWait, Begin, counts
<1> QED
  BY <1>2, <1>3, <1>4, <1>5, <1>6, <1>8, <1>9, <1>10, <1>11
     DEF Next, ClusterStep, Runs, vars, counts

LEMMA AckInvInductive == Spec => []AckInv
<1>1. Init => AckInv
  <2> SUFFICES ASSUME Init PROVE AckInv
    OBVIOUS
  <2>1. recorded = {} /\ main = Idle /\ report = NoReport
    BY DEF Init
  <2>2. CountInv
    BY <2>1, FS_EmptySet DEF Init, CountInv, CountsMatch, NamesInv
  <2>3. Idle \in Main
    BY ClientAssumption DEF Idle, Main, Keys
  <2>4. MainInv
    BY <2>1, <2>3 DEF MainInv, Idle, InBench
  <2>5. ReportInv
    BY <2>1 DEF ReportInv, ClaimsWereAcked, NoReport
  <2>6. SentInv
    BY ClientAssumption DEF Init, SentInv, Statuses, Keys
  <2> QED  BY <2>2, <2>4, <2>5, <2>6 DEF AckInv
<1>2. AckInv /\ [Next]_vars => AckInv'
  BY SentStep, CountStep, MainStep, ReportStep DEF AckInv
<1> QED  BY <1>1, <1>2, PTL DEF Spec

\* In whatever order the answers of the head and the CommitAcks of the tail
\* arrive, and however often an ack comes, no write is counted twice; one that
\* shares its key and version with no other is counted once it is acknowledged
\* and pending before, and of those that share theirs one is.
THEOREM EachWriteCountedOnce == Spec => []CountsMatch
BY AckInvInductive, PTL DEF AckInv, CountInv

\* What the client tells its user was committed was acknowledged under the key
\* and version of the write.
THEOREM ClaimsAreTrue == Spec => []ClaimsWereAcked
BY AckInvInductive, PTL DEF AckInv, ReportInv

-----------------------------------------------------------------------------
\* A bench has a call out for each write it has not counted, and what was
\* completed before it stays so.
BenchInv ==
  /\ main.attempt <= MaxAttempts
  /\ main.accepted + Cardinality(main.calls) <= BenchSize
  /\ InBench => main.start_completed <= completed

LEMMA BenchStep ==
  ASSUME CountInv, MainInv, BenchInv, [Next]_vars
  PROVE  BenchInv'
<1> USE ClientAssumption
<1>1. /\ main \in Main /\ main.attempt \in Nat /\ main.accepted \in Nat
      /\ main.calls \subseteq Request /\ completed \in Nat /\ BenchSize \in Nat
      /\ main.start_completed \in Nat
  BY DEF MainInv, Main, CountInv
<1>2. /\ IsFiniteSet(main.calls) /\ Cardinality(main.calls) \in Nat
      /\ \A r \in main.calls :
           Cardinality(main.calls \ {r}) = Cardinality(main.calls) - 1
  BY <1>1, RequestsFinite, FS_RemoveElement
<1>3. completed' \in Nat /\ completed <= completed'
  <2>1. completed' \in {completed, completed + 1}
    BY DEF Next, vars, cluster, counts, client, ChangeMembership, ClusterStep,
           Handle, SendCommitAck, CommitAck, KeepAside, SendCommitAckAgain,
           LoseCommitAck, Begin, Bench, Send, Drain, Refresh, SetClusterMode,
           NoRoute, RpcFails, Runs, Attempt, GiveUp, Refused, RefusedForGood,
           FetchMembership, PutResponse, Collect, CollectFailure, CollectEnds,
           RecordAcceptedWrite, Waits, WaitForCommit, TimeOut, BenchWait,
           BenchTick, DrainWait
  <2> QED  BY <1>1, <2>1
<1>4. CASE /\ main'.attempt = main.attempt /\ main'.accepted = main.accepted
           /\ main'.calls = main.calls
           /\ InBench' => InBench /\ main'.start_completed = main.start_completed
  BY <1>1, <1>3, <1>4 DEF BenchInv
<1>5. CASE main' = Idle \/ \E command \in {"put", "put-async"},
                              k \in Key \cup Request : Begin(command, k)
  <2>1. /\ main'.attempt = 0 /\ main'.accepted = 0 /\ main'.calls = {}
        /\ main'.at \in {"ready", "call"}
    <3>1. main' = Idle \/ \E command \in {"put", "put-async"}, k \in Key \cup Request :
            main' = [Idle EXCEPT !.at = "call", !.command = command, !.key = k]
      BY <1>5 DEF Begin
    <3>2. CASE main' = Idle
      BY <3>2 DEF Idle
    <3>3. CASE \E command, k :
            main' = [Idle EXCEPT !.at = "call", !.command = command, !.key = k]
      BY <3>3 DEF Idle
    <3> QED  BY <3>1, <3>2, <3>3
  <2>2. Cardinality(main'.calls) = 0 /\ ~InBench'
    BY <2>1, FS_EmptySet DEF InBench
  <2> QED  BY <1>1, <2>1, <2>2 DEF BenchInv, MaxAttempts
<1>6. CASE Attempt
  <2>1. /\ main.attempt < MaxAttempts
        /\ main' = [main EXCEPT !.at = "rpc", !.attempt = @ + 1,
                                !.request = request_id]
    BY <1>6 DEF Attempt
  <2>2. /\ main'.attempt = main.attempt + 1 /\ main'.accepted = main.accepted
        /\ main'.calls = main.calls /\ main'.at = "rpc"
    BY <1>1, <2>1 DEF Main
  <2> QED  BY <1>1, <2>1, <2>2 DEF BenchInv, InBench, MaxAttempts
<1>7. CASE Bench
  <2>1. PICK ids \in SUBSET Request :
          /\ main' = [Idle EXCEPT !.at = "collect", !.command = "bench",
                                  !.start_completed = completed,
                                  !.calls = ids, !.writes = ids,
                                  !.before = pending]
          /\ Cardinality(ids) <= BenchSize
          /\ \E ks \in [ids -> Key] : Sending(ids, ks)
    BY <1>7, BenchSends
  <2>2. completed' = completed
    BY <2>1 DEF Sending, Send, counts
  <2>3. /\ main'.attempt = 0 /\ main'.accepted = 0 /\ main'.calls = ids
        /\ main'.start_completed = completed'
    BY <2>1, <2>2 DEF Idle
  <2>4. Cardinality(ids) \in Nat
    BY RequestsFinite
  <2>5. main'.accepted + Cardinality(main'.calls) <= BenchSize
    BY <1>1, <2>1, <2>3, <2>4
  <2>6. main'.attempt <= MaxAttempts /\ main'.start_completed <= completed'
    BY <1>3, <2>3 DEF MaxAttempts
  <2> QED  BY <2>5, <2>6 DEF BenchInv
<1>8. ASSUME NEW r \in Request, Collect(r)
      PROVE  BenchInv'
  <2>1. /\ r \in main.calls /\ main.at = "collect"
        /\ main' = [main EXCEPT !.calls = @ \ {r}, !.accepted = @ + 1]
    BY <1>8 DEF Collect
  <2>2. /\ main'.attempt = main.attempt /\ main'.accepted = main.accepted + 1
        /\ main'.calls = main.calls \ {r} /\ main'.at = "collect"
        /\ main'.start_completed = main.start_completed
    BY <1>1, <2>1 DEF Main
  <2>3. Cardinality(main'.calls) = Cardinality(main.calls) - 1
    BY <1>2, <2>1, <2>2
  <2>4. main'.start_completed <= completed'
    BY <1>1, <1>3, <2>1, <2>2 DEF BenchInv, InBench
  <2>5. main'.accepted + Cardinality(main'.calls) <= BenchSize
    BY <1>1, <1>2, <2>2, <2>3 DEF BenchInv
  <2> QED  BY <2>2, <2>4, <2>5 DEF BenchInv
<1>9. ASSUME NEW r \in Request, CollectFailure(r)
      PROVE  BenchInv'
  <2>1. /\ r \in main.calls /\ main.at = "collect"
        /\ main' = [main EXCEPT !.calls = @ \ {r}]
    BY <1>9 DEF CollectFailure
  <2>2. /\ main'.attempt = main.attempt /\ main'.accepted = main.accepted
        /\ main'.calls = main.calls \ {r} /\ main'.at = "collect"
        /\ main'.start_completed = main.start_completed
    BY <1>1, <2>1 DEF Main
  <2>3. Cardinality(main'.calls) = Cardinality(main.calls) - 1
    BY <1>2, <2>1, <2>2
  <2>4. main'.start_completed <= completed'
    BY <1>1, <1>3, <2>1, <2>2 DEF BenchInv, InBench
  <2>5. main'.accepted + Cardinality(main'.calls) <= BenchSize
    BY <1>1, <1>2, <2>2, <2>3 DEF BenchInv
  <2> QED  BY <2>2, <2>4, <2>5 DEF BenchInv
<1>10. ASSUME main' # Idle,
              \/ \E r \in Request : CommitAck(r)
              \/ CollectEnds \/ Drain \/ RpcFails \/ Refused \/ FetchMembership
              \/ NoRoute \/ RefusedForGood \/ PutResponse \/ WaitForCommit \/ TimeOut \/ GiveUp
              \/ BenchWait \/ BenchTick \/ DrainWait
       PROVE  BenchInv'
  <2>1. CASE \/ \E r \in Request : CommitAck(r)
             \/ WaitForCommit \/ TimeOut \/ GiveUp \/ NoRoute \/ RefusedForGood
             \/ BenchWait
    <3>1. main' = main \/ \E b \in BOOLEAN : main' = [main EXCEPT !.asleep = b]
      BY <2>1, <1>10, <1>1
         DEF CommitAck, KeepAside, Notify, WaitForCommit, TimeOut, GiveUp,
             NoRoute, RefusedForGood, BenchWait, TellBench, Tell, Main
    <3>2. /\ main'.attempt = main.attempt /\ main'.accepted = main.accepted
          /\ main'.calls = main.calls /\ main'.at = main.at
          /\ main'.start_completed = main.start_completed
      BY <1>1, <3>1 DEF Main
    <3> QED  BY <1>4, <3>2 DEF InBench
  <2>2. CASE \/ RpcFails \/ Refused \/ FetchMembership \/ PutResponse
             \/ Drain \/ DrainWait
    <3>1. \/ \E p \in {"call", "refresh", "wait", "drain", "done"} :
               main' = [main EXCEPT !.at = p]
          \/ main.at = "drain" /\ main' = [main EXCEPT !.asleep = TRUE]
      BY <2>2, <1>10
         DEF RpcFails, Refused, FetchMembership, PutResponse, Tell, Drain,
             DrainWait
    <3>2. /\ main'.attempt = main.attempt /\ main'.accepted = main.accepted
          /\ main'.calls = main.calls
          /\ main'.at \in {"call", "refresh", "wait", "drain", "done"}
      BY <1>1, <3>1 DEF Main
    <3> QED  BY <1>4, <3>2 DEF InBench
  <2>3. CASE CollectEnds \/ BenchTick
    <3>1. \/ main' = [main EXCEPT !.at = "tick", !.last_seen = completed]
          \/ \E n \in Nat : main' = [main EXCEPT !.asleep = FALSE, !.stalled = n,
                                                 !.last_seen = completed]
      <4> DEFINE stalled == IF completed > main.last_seen THEN 0
                            ELSE main.stalled + 1
      <4>1. stalled \in Nat
        BY <1>1 DEF Main
      <4>2. \/ main' = [main EXCEPT !.at = "tick", !.last_seen = completed]
            \/ main' = [main EXCEPT !.asleep = FALSE, !.stalled = stalled,
                                    !.last_seen = completed]
        BY <2>3, <1>10 DEF CollectEnds, BenchTick, TellBench, Tell
      <4> HIDE DEF stalled
      <4> QED  BY <4>1, <4>2
    <3>2. /\ main'.attempt = main.attempt /\ main'.accepted = main.accepted
          /\ main'.calls = main.calls
          /\ main'.start_completed = main.start_completed
      BY <1>1, <3>1 DEF Main
    <3>3. main.at \in {"collect", "tick"}
      BY <2>3 DEF CollectEnds, BenchTick
    <3> QED  BY <1>4, <3>2, <3>3 DEF InBench
  <2> QED  BY <1>10, <2>1, <2>2, <2>3
<1>11. CASE main' = main
  BY <1>4, <1>11 DEF InBench
<1>12. CASE \/ UNCHANGED vars
            \/ ChangeMembership \/ Refresh \/ SetClusterMode
            \/ \E r \in Request : \/ ClusterStep(r) \/ SendCommitAckAgain(r)
                                  \/ LoseCommitAck(r)
  BY <1>11, <1>12
     DEF vars, ChangeMembership, Refresh, SetClusterMode, ClusterStep, Handle,
         SendCommitAck, SendCommitAckAgain, LoseCommitAck
<1> QED
  BY <1>5, <1>6, <1>7, <1>8, <1>9, <1>10, <1>12 DEF Next, Runs, Waits

\* The client and the cluster it sees stay what their types say: request ids
\* are never given twice, a CommitAck is only ever for an accepted write, and
\* no bench counts more answers than it sent calls, nor fewer commits than
\* there were before it.
THEOREM ClientTypes == Spec => []TypeOK
<1> USE ClientAssumption
<1>1. Init => BenchInv
  <2> SUFFICES ASSUME Init PROVE BenchInv
    OBVIOUS
  <2>1. main = Idle
    BY DEF Init
  <2> QED  BY <2>1, FS_EmptySet DEF BenchInv, Idle, InBench, MaxAttempts
<1>2. AckInv /\ BenchInv /\ [Next]_vars => BenchInv'
  BY BenchStep DEF AckInv
<1>3. AckInv /\ BenchInv => TypeOK
  <2> SUFFICES ASSUME AckInv, BenchInv PROVE TypeOK
    OBVIOUS
  <2>1. /\ main \in Main /\ main.calls \subseteq Request
        /\ main.attempt \in Nat /\ main.accepted \in Nat
        /\ Cardinality(main.calls) \in Nat
        /\ BenchSize \in Nat /\ MaxRequests \in Nat
    BY RequestsFinite DEF AckInv, MainInv, Main
  <2>2. main.accepted \in 0..BenchSize /\ main.attempt \in 0..MaxAttempts
    BY <2>1 DEF BenchInv, MaxAttempts
  <2>3. /\ recorded \subseteq Request /\ acked \subseteq Request
        /\ counted \subseteq recorded /\ pending \subseteq recorded
    BY DEF AckInv, CountInv, CountsMatch, Given
  <2>4. completed \in 0..expected /\ expected \in Nat
    <3>1. /\ Cardinality(recorded) \in Nat /\ Cardinality(counted) \in Nat
          /\ Cardinality(counted) <= Cardinality(recorded)
      BY <2>3, NotFewer
    <3> QED  BY <3>1 DEF AckInv, CountInv, CountsMatch
  <2>5. /\ request_id \in 1..(MaxRequests + 1)
        /\ main.at = "tick" => completed >= main.start_completed
    BY <2>1 DEF AckInv, CountInv, SentInv, BenchInv, InBench, MainInv, Main
  <2>6. main.at \in {"ready", "call", "rpc", "refresh", "wait", "collect",
                     "tick", "drain", "done"}
    BY <2>1 DEF Main
  <2>7. committed_early \subseteq {Name(r) : r \in Request}
    BY <2>3 DEF AckInv, CountInv, NamesInv
  <2> QED  BY <2>1, <2>2, <2>3, <2>4, <2>5, <2>6, <2>7
           DEF TypeOK, AckInv, SentInv, Statuses, Keys
<1> QED  BY <1>1, <1>2, <1>3, AckInvInductive, PTL DEF Spec

=============================================================================

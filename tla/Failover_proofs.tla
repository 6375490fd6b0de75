--------------------------- MODULE Failover_proofs ---------------------------
(***************************************************************************)
(* What crashes cannot take away, for any ring, any number of crashes,     *)
(* lost messages and retries.  A server that runs is removed from no       *)
(* membership, so a write that passes a server by passes by crashed ones   *)
(* only: wherever a write is, every server that runs and comes earlier in  *)
(* the ring has it.  When the tail of some ring has it, they all have.     *)
(***************************************************************************)
EXTENDS Failover, KVStoreLemmas, SequenceTheorems

\* Where a server is in the first membership.  The later ones keep the order.
place(n) == node_index(Ring, n)

Membership(s) ==
  /\ s \in Seq(Server) /\ Len(s) > 0
  /\ \A i, j \in 1..Len(s) : i < j => place(s[i]) < place(s[j])

\* The servers that run are members of every ring in use.
RingOf(s) == Membership(s) /\ up \subseteq ToSet(s)

HeldBefore(v, n) == \A u \in up : place(u) < place(n) => holds(store[u], v)

-----------------------------------------------------------------------------
\* The rings.
LEMMA Numbers ==
  /\ MaxVersion \in Nat \ {0} /\ MaxRetryCount \in Nat /\ MaxFaults \in Nat
  /\ LastPutEpoch \in Nat
  /\ Ring \in Seq(Server) /\ Len(Ring) \in Nat /\ Len(Ring) > 1
  /\ \A v \in Version : v \in Nat /\ v # 0
BY FailoverAssumption, KVStoreAssumption, LenProperties DEF Server, Version

LEMMA Positive ==
  \A v : v \in Version <=> v \in 0..MaxVersion /\ v # 0
BY KVStoreAssumption DEF Version

LEMMA Members ==
  ASSUME NEW s \in Seq(Server)
  PROVE  /\ Len(s) \in Nat /\ ToSet(s) = {s[i] : i \in 1..Len(s)}
         /\ \A i \in 1..Len(s) : s[i] \in Server
         /\ \A n \in ToSet(s) : /\ node_index(s, n) \in 1..Len(s)
                                /\ s[node_index(s, n)] = n
<1>1. DOMAIN s = 1..Len(s) /\ Len(s) \in Nat
  BY LenProperties
<1>2. ToSet(s) = {s[i] : i \in 1..Len(s)}
  BY <1>1 DEF ToSet
<1>3. \A i \in 1..Len(s) : s[i] \in Server
  BY <1>1, ElementOfSeq
<1>4. ASSUME NEW n \in ToSet(s)
      PROVE  node_index(s, n) \in 1..Len(s) /\ s[node_index(s, n)] = n
  <2>1. \E i \in 1..Len(s) : s[i] = n
    BY <1>2
  <2> QED  BY <1>1, <2>1 DEF node_index
<1> QED  BY <1>1, <1>2, <1>3, <1>4

LEMMA Places ==
  /\ \A n \in Server : place(n) \in 1..Len(Ring) /\ Ring[place(n)] = n
  /\ \A i \in 1..Len(Ring) : place(Ring[i]) = i
  /\ Membership(Ring) /\ ToSet(Ring) = Server
<1>1. ToSet(Ring) = Server
  BY DEF Server
<1>2. \A n \in Server : place(n) \in 1..Len(Ring) /\ Ring[place(n)] = n
  BY <1>1, Numbers, Members DEF place
<1>3. \A i \in 1..Len(Ring) : place(Ring[i]) = i
  <2> TAKE i \in 1..Len(Ring)
  <2>1. Ring[i] \in Server
    BY Numbers, Members
  <2>2. DOMAIN Ring = 1..Len(Ring)
    BY Numbers, LenProperties
  <2>3. \A j, k \in 1..Len(Ring) : Ring[j] = Ring[k] => j = k
    BY <2>2, FailoverAssumption DEF IsInjective
  <2> QED  BY <1>2, <2>1, <2>3
<1> QED  BY <1>1, <1>2, <1>3, Numbers DEF Membership

LEMMA SamePlace ==
  ASSUME NEW n \in Server, NEW m \in Server, place(n) = place(m)
  PROVE  n = m
BY Places

\* Whoever runs is between the head and the tail.
LEMMA Ends ==
  ASSUME up \subseteq Server, NEW s, RingOf(s)
  PROVE  /\ Head(s) \in Server /\ Last(s) \in Server
         /\ \A u \in up : /\ ~(place(u) < place(Head(s)))
                          /\ ~(place(Last(s)) < place(u))
<1>1. s \in Seq(Server) /\ Len(s) \in Nat /\ Len(s) > 0
  BY Members DEF RingOf, Membership
<1>2. Head(s) = s[1] /\ Last(s) = s[Len(s)]
  BY <1>1 DEF Last
<1>3. s[1] \in Server /\ s[Len(s)] \in Server
  BY <1>1, Members
<1>4. ASSUME NEW u \in up
      PROVE  ~(place(u) < place(s[1])) /\ ~(place(s[Len(s)]) < place(u))
  <2>1. PICK i \in 1..Len(s) : u = s[i]
    BY <1>1, Members DEF RingOf
  <2>2. /\ i = 1 \/ place(s[1]) < place(s[i])
        /\ i = Len(s) \/ place(s[i]) < place(s[Len(s)])
    BY <1>1 DEF RingOf, Membership
  <2>3. place(u) \in Nat /\ place(s[1]) \in Nat /\ place(s[Len(s)]) \in Nat
    BY <1>3, Places
  <2> QED  BY <2>1, <2>2, <2>3
<1> QED  BY <1>2, <1>3, <1>4

LEMMA Remainder ==
  ASSUME NEW a \in Nat, NEW m \in Nat, m > 0
  PROVE  /\ a % m \in 0..(m - 1)
         /\ a < m => a % m = a
         /\ a = m => a % m = 0
OBVIOUS

\* The next server in the ring passes by none that runs; after the tail it is
\* the head.
LEMMA NextServer ==
  ASSUME up \subseteq Server, NEW s, RingOf(s), NEW n \in up
  PROVE  /\ next_server(s, n) \in Server /\ prev_server(s, n) \in Server
         /\ \A u \in up : place(u) < place(next_server(s, n)) =>
                            u = n \/ place(u) < place(n)
<1> DEFINE i == node_index(s, n)
<1>1. s \in Seq(Server) /\ Len(s) \in Nat /\ Len(s) > 0
  BY Members DEF RingOf, Membership
<1>2. i \in 1..Len(s) /\ s[i] = n
  BY <1>1, Members DEF RingOf
<1> HIDE DEF i
<1>3. next_server(s, n) = s[(i % Len(s)) + 1]
      /\ prev_server(s, n) = s[((i + Len(s) - 2) % Len(s)) + 1]
  BY DEF next_server, prev_server, i
<1>4. \A k \in Nat : (k % Len(s)) + 1 \in 1..Len(s)
  BY <1>1, Remainder
<1>5. i \in Nat /\ i + Len(s) - 2 \in Nat
  BY <1>1, <1>2
<1>6. next_server(s, n) \in Server /\ prev_server(s, n) \in Server
  BY <1>1, <1>3, <1>4, <1>5, Members
<1>7. ASSUME NEW u \in up, place(u) < place(next_server(s, n))
      PROVE  u = n \/ place(u) < place(n)
  <2>1. CASE i = Len(s)
    <3>1. i % Len(s) = 0
      BY <1>1, <2>1, Remainder
    <3>2. next_server(s, n) = Head(s)
      BY <1>1, <1>3, <3>1
    <3> QED  BY <1>7, <3>2, Ends
  <2>2. CASE i < Len(s)
    <3>1. next_server(s, n) = s[i + 1]
      BY <1>1, <1>3, <1>5, <2>2, Remainder
    <3>2. PICK j \in 1..Len(s) : u = s[j]
      BY <1>1, Members DEF RingOf
    <3>3. place(s[j]) \in Nat /\ place(s[i + 1]) \in Nat
      BY <1>1, <1>2, <2>2, Members, Places
    <3>4. j <= i
      <4> SUFFICES ASSUME i + 1 <= j PROVE FALSE
        BY <1>2
      <4>1. i + 1 = j \/ place(s[i + 1]) < place(s[j])
        BY <1>1, <1>2, <2>2 DEF RingOf, Membership
      <4> QED  BY <1>7, <3>1, <3>2, <3>3, <4>1
    <3>5. j = i \/ place(s[j]) < place(s[i])
      BY <1>1, <1>2, <3>4 DEF RingOf, Membership
    <3> QED  BY <1>2, <3>2, <3>5
  <2> QED  BY <1>1, <1>2, <2>1, <2>2
<1> QED  BY <1>6, <1>7

LEMMA Part ==
  ASSUME NEW s \in Seq(Server), NEW a \in Int, NEW b \in Int, 1 <= a, b <= Len(s)
  PROVE  /\ SubSeq(s, a, b) \in Seq(Server)
         /\ Len(SubSeq(s, a, b)) = IF a <= b THEN b - a + 1 ELSE 0
         /\ \A i \in 1..(b - a + 1) : SubSeq(s, a, b)[i] = s[a + i - 1]
<1>1. \A i \in a..b : s[i] \in Server
  BY Members
<1> QED  BY <1>1, SubSeqProperties

\* A membership without one of its servers.
LEMMA Without ==
  ASSUME NEW s, Membership(s), Len(s) > 1, NEW n \in ToSet(s)
  PROVE  /\ Membership(members_without(s, n))
         /\ ToSet(s) \ {n} \subseteq ToSet(members_without(s, n))
         /\ Len(members_without(s, n)) = Len(s) - 1
<1> DEFINE k == node_index(s, n)
           t == members_without(s, n)
           first == SubSeq(s, 1, k - 1)
           second == SubSeq(s, k + 1, Len(s))
<1>1. /\ s \in Seq(Server) /\ Len(s) \in Nat
      /\ \A i \in 1..Len(s) : s[i] \in Server
      /\ ToSet(s) = {s[i] : i \in 1..Len(s)}
  BY Members DEF Membership
<1>2. k \in 1..Len(s) /\ s[k] = n
  BY <1>1, Members
<1>3. t = first \o second
  BY DEF members_without, RemoveAt
<1> HIDE DEF k, t
<1>4. /\ first \in Seq(Server) /\ Len(first) = k - 1
      /\ \A i \in 1..(k - 1) : first[i] = s[i]
  BY <1>1, <1>2, Part
<1>5. /\ second \in Seq(Server) /\ Len(second) = Len(s) - k
      /\ \A i \in 1..(Len(s) - k) : second[i] = s[k + i]
  BY <1>1, <1>2, Part
<1> HIDE DEF first, second
<1>6. /\ t \in Seq(Server) /\ Len(t) = Len(s) - 1
      /\ \A i \in 1..(Len(s) - 1) : t[i] = IF i < k THEN s[i] ELSE s[i + 1]
  <2>1. /\ t \in Seq(Server) /\ Len(t) = Len(first) + Len(second)
        /\ \A i \in 1..(Len(first) + Len(second)) :
             t[i] = IF i <= Len(first) THEN first[i] ELSE second[i - Len(first)]
    BY <1>3, <1>4, <1>5, ConcatProperties
  <2>2. \A i \in 1..(Len(s) - 1) : t[i] = IF i < k THEN s[i] ELSE s[i + 1]
    <3> TAKE i \in 1..(Len(s) - 1)
    <3>1. CASE i < k
      <4>1. /\ i \in 1..(Len(first) + Len(second)) /\ i <= Len(first)
            /\ i \in 1..(k - 1)
        BY <1>1, <1>2, <1>4, <1>5, <3>1
      <4>2. t[i] = first[i]
        BY <2>1, <4>1
      <4> QED  BY <1>4, <3>1, <4>1, <4>2
    <3>2. CASE k <= i
      <4>1. t[i] = second[i - (k - 1)] /\ i - (k - 1) \in 1..(Len(s) - k)
        <5>1. /\ i \in 1..(Len(first) + Len(second)) /\ ~(i <= Len(first))
              /\ i - (k - 1) \in 1..(Len(s) - k)
          BY <1>1, <1>2, <1>4, <1>5, <3>2
        <5> QED  BY <1>4, <2>1, <5>1
      <4>2. second[i - (k - 1)] = s[k + (i - (k - 1))]
        BY <1>5, <4>1
      <4>3. k + (i - (k - 1)) = i + 1
        BY <1>2
      <4> QED  BY <1>2, <3>2, <4>1, <4>2, <4>3
    <3> QED  BY <1>2, <3>1, <3>2
  <2> QED  BY <1>1, <1>2, <1>4, <1>5, <2>1, <2>2
<1>7. \A i, j \in 1..Len(t) : i < j => place(t[i]) < place(t[j])
  <2> TAKE i, j \in 1..Len(t)
  <2> HAVE i < j
  <2> DEFINE i1 == IF i < k THEN i ELSE i + 1
             j1 == IF j < k THEN j ELSE j + 1
  <2>1. /\ t[i] = s[i1] /\ t[j] = s[j1]
        /\ i1 \in 1..Len(s) /\ j1 \in 1..Len(s) /\ i1 < j1
    BY <1>1, <1>2, <1>6
  <2> HIDE DEF i1, j1
  <2> QED  BY <2>1 DEF Membership
<1>8. ToSet(s) \ {n} \subseteq ToSet(t)
  <2>1. ToSet(t) = {t[i] : i \in 1..Len(t)}
    BY <1>6, Members
  <2>2. ASSUME NEW m \in ToSet(s) \ {n}
        PROVE  \E i \in 1..Len(t) : t[i] = m
    <3>1. PICK i \in 1..Len(s) : s[i] = m
      BY <1>1
    <3>2. i # k
      BY <1>2, <3>1
    <3> DEFINE i1 == IF i < k THEN i ELSE i - 1
    <3>3. i1 \in 1..Len(t) /\ t[i1] = m
      BY <1>1, <1>2, <1>6, <3>1, <3>2
    <3> QED  BY <3>3
  <2> QED  BY <2>1, <2>2
<1>9. Len(t) > 0
  BY <1>1, <1>6
<1> QED  BY <1>6, <1>7, <1>8, <1>9 DEF Membership, t

-----------------------------------------------------------------------------
\* The invariant.  Every ring in use, and every one that will be, has the
\* servers that run.
ConfigInv ==
  /\ up # {} /\ configs[1] = Ring
  /\ \A e \in 1..current : RingOf(configs[e])
  /\ Len(configs[current]) + current = Len(Ring) + 1
  /\ \A n \in Server : RingOf(ring[n].members)
  /\ \A t \in applying : t.epoch \in 1..current /\ t.node \in up

\* A write keeps its version.  Whoever has to do with it runs and has it, and
\* so has everyone earlier in the ring.
HeldBy(x) ==
  /\ x.node \in up /\ assigned[x.request] = x.version
  /\ holds(store[x.node], x.version) /\ HeldBefore(x.version, x.node)

ForwardFine(m) ==
  assigned[m.request] = m.version /\ HeldBefore(m.version, m.to)

PutFine(p) ==
  /\ p.node \in up
  /\ p.version # 0 => /\ assigned[p.request] = p.version
                      /\ HeldBefore(p.version, p.node)
  /\ p.step = "stored" => /\ p.version # 0 /\ RingOf(p.members)
                          /\ holds(store[p.node], p.version)

JobFine(j) == HeldBy(j) /\ HeldBefore(j.version, j.to)

CommitAckFine(k) ==
  /\ assigned[k.request] = k.version
  /\ \A u \in up : holds(store[u], k.version)

WriteAckFine(k) ==
  [request |-> k.request, version |-> assigned[k.request]] \in commitAcks

WriteInv ==
  /\ \A m \in forwards : ForwardFine(m)
  /\ \A p \in puts : PutFine(p)
  /\ \A e \in pending : HeldBy(e)
  /\ \A j \in jobs : JobFine(j)
  /\ \A k \in commitAcks : CommitAckFine(k)
  /\ \A k \in writeAcks : WriteAckFine(k)

\* A request that has no version yet is in one handler.
NewInv ==
  \A p \in puts : p.version = 0 =>
    /\ assigned[p.request] = 0
    /\ \A q \in puts : q.request = p.request => q = p

\* What a store has under a version is a write that was assigned it, and was
\* acknowledged if it is committed.
StoreFine(s) ==
  /\ \A v \in Version : s.dirty[v] # NoValue => assigned[s.dirty[v]] = v
  /\ s.clean.version # 0 =>
       /\ assigned[s.clean.value] = s.clean.version
       /\ \E k \in commitAcks : k.version = s.clean.version

StoreInv == \A n \in Server : StoreFine(store[n])

Inv == TypeOK /\ ConfigInv /\ WriteInv /\ NewInv /\ StoreInv

\* What no step undoes.
Grows ==
  /\ up' \subseteq up
  /\ \A u \in up', v \in Version : holds(store[u], v) => holds(store'[u], v)
  /\ \A r \in Request : assigned[r] # 0 => assigned'[r] = assigned[r]
  /\ commitAcks \subseteq commitAcks'

LEMMA StaysHeld ==
  ASSUME Grows, NEW v \in Version, NEW n, HeldBefore(v, n)
  PROVE  HeldBefore(v, n)'
BY DEF Grows, HeldBefore

LEMMA StaysRing ==
  ASSUME Grows, NEW s, RingOf(s)
  PROVE  RingOf(s)'
BY DEF Grows, RingOf

LEMMA WritesKept ==
  ASSUME TypeOK, WriteInv, Grows,
         \A x \in pending' \cup jobs' \cup puts' : x.node \in up',
         \A m \in forwards' \ forwards : ForwardFine(m)',
         \A p \in puts' \ puts : PutFine(p)',
         \A e \in pending' \ pending : HeldBy(e)',
         \A j \in jobs' \ jobs : JobFine(j)',
         \A k \in commitAcks' \ commitAcks : CommitAckFine(k)',
         \A k \in writeAcks' \ writeAcks : WriteAckFine(k)'
  PROVE  WriteInv'
<1>1. \A v \in Version : v # 0
  BY Numbers
<1>2. ASSUME NEW x, x.node \in Server, x.request \in Request,
             x.version \in Version, HeldBy(x), x.node \in up'
      PROVE  HeldBy(x)'
  <2>1. assigned'[x.request] = x.version
    BY <1>1, <1>2 DEF HeldBy, Grows
  <2>2. holds(store'[x.node], x.version)
    BY <1>2 DEF HeldBy, Grows
  <2>3. HeldBefore(x.version, x.node)'
    BY <1>2, StaysHeld DEF HeldBy
  <2> QED  BY <1>2, <2>1, <2>2, <2>3 DEF HeldBy
<1>3. ASSUME NEW m \in forwards' PROVE ForwardFine(m)'
  <2>1. CASE m \in forwards
    <3>1. m.request \in Request /\ m.version \in Version
      BY <2>1 DEF TypeOK, Forward
    <3>2. ForwardFine(m)
      BY <2>1 DEF WriteInv
    <3> QED  BY <1>1, <3>1, <3>2, StaysHeld DEF ForwardFine, Grows
  <2> QED  BY <2>1
<1>4. ASSUME NEW p \in puts' PROVE PutFine(p)'
  <2>1. CASE p \in puts
    <3>1. /\ p.request \in Request /\ p.version \in 0..MaxVersion
          /\ p.version # 0 => p.version \in Version
      <4>1. p.request \in Request /\ p.version \in 0..MaxVersion
        BY <2>1 DEF TypeOK, PutThread
      <4> QED  BY <4>1, Positive
    <3>2. PutFine(p) /\ p.node \in up'
      BY <2>1 DEF WriteInv
    <3>3. p.version # 0 => /\ assigned'[p.request] = p.version
                           /\ HeldBefore(p.version, p.node)'
      BY <3>1, <3>2, StaysHeld DEF PutFine, Grows
    <3>4. p.step = "stored" => /\ p.version # 0 /\ RingOf(p.members)'
                               /\ holds(store'[p.node], p.version)
      BY <3>1, <3>2, StaysRing DEF PutFine, Grows
    <3> QED  BY <3>2, <3>3, <3>4 DEF PutFine
  <2> QED  BY <2>1
<1>5. ASSUME NEW e \in pending' PROVE HeldBy(e)'
  <2>1. CASE e \in pending
    <3>1. e.node \in Server /\ e.request \in Request /\ e.version \in Version
      BY <2>1 DEF TypeOK, Entry
    <3> QED  BY <1>2, <2>1, <3>1 DEF WriteInv
  <2> QED  BY <2>1
<1>6. ASSUME NEW j \in jobs' PROVE JobFine(j)'
  <2>1. CASE j \in jobs
    <3>1. j.node \in Server /\ j.request \in Request /\ j.version \in Version
      BY <2>1 DEF TypeOK, Job
    <3>2. JobFine(j)
      BY <2>1 DEF WriteInv
    <3> QED  BY <1>2, <3>1, <3>2, StaysHeld DEF JobFine
  <2> QED  BY <2>1
<1>7. ASSUME NEW k \in commitAcks' PROVE CommitAckFine(k)'
  <2>1. CASE k \in commitAcks
    <3>1. k.request \in Request /\ k.version \in Version
      BY <2>1 DEF TypeOK
    <3>2. CommitAckFine(k)
      BY <2>1 DEF WriteInv
    <3> QED  BY <1>1, <3>1, <3>2 DEF CommitAckFine, Grows
  <2> QED  BY <2>1
<1>8. ASSUME NEW k \in writeAcks' PROVE WriteAckFine(k)'
  <2>1. CASE k \in writeAcks
    <3>1. k.request \in Request
      BY <2>1 DEF TypeOK, WriteAck
    <3>2. [request |-> k.request, version |-> assigned[k.request]] \in commitAcks
      BY <2>1 DEF WriteInv, WriteAckFine
    <3>3. assigned[k.request] \in Version
      BY <3>2 DEF TypeOK
    <3>4. assigned'[k.request] = assigned[k.request]
      BY <1>1, <3>1, <3>3 DEF Grows
    <3> QED  BY <3>2, <3>4 DEF WriteAckFine, Grows
  <2> QED  BY <2>1
<1> QED  BY <1>3, <1>4, <1>5, <1>6, <1>7, <1>8 DEF WriteInv

LEMMA StoresKept ==
  ASSUME TypeOK, StoreInv, Grows,
         \A n \in Server : store'[n] = store[n] \/ StoreFine(store[n])'
  PROVE  StoreInv'
<1> SUFFICES ASSUME NEW n \in Server, store'[n] = store[n]
             PROVE  StoreFine(store[n])'
  BY DEF StoreInv
<1>1. store[n] \in Store /\ StoreFine(store[n])
  BY DEF TypeOK, StoreInv
<1> DEFINE s == store[n]
<1>2. /\ s.dirty \in [Version -> Value \cup {NoValue}]
      /\ s.clean.version # 0 => s.clean.value \in Value
      /\ \A v \in Version : v # 0
  BY <1>1, Numbers DEF Store, Record
<1>3. \A v \in Version : s.dirty[v] # NoValue => assigned'[s.dirty[v]] = v
  BY <1>1, <1>2 DEF StoreFine, Grows, Request
<1>4. s.clean.version # 0 =>
       /\ assigned'[s.clean.value] = s.clean.version
       /\ \E k \in commitAcks' : k.version = s.clean.version
  BY <1>1, <1>2 DEF StoreFine, Grows, Request
<1> QED  BY <1>3, <1>4 DEF StoreFine

\* Steps that leave the stores, the history and the servers alone.
LEMMA GrowsElsewhere ==
  ASSUME UNCHANGED <<up, store, assigned, commitAcks>>
  PROVE  Grows
BY DEF Grows

LEMMA ConfigElsewhere ==
  ASSUME ConfigInv, UNCHANGED membershipVars
  PROVE  ConfigInv'
BY DEF ConfigInv, membershipVars, RingOf, current

\* Handlers and messages come and go; nobody writes anew.
LEMMA NewElsewhere ==
  ASSUME NewInv, puts' \subseteq puts, UNCHANGED assigned
  PROVE  NewInv'
BY DEF NewInv

\* The write is passed on from a server that has it.
LEMMA HeldOnwards ==
  ASSUME up \subseteq Server, NEW s, RingOf(s), NEW n \in up, NEW v,
         holds(store[n], v), HeldBefore(v, n)
  PROVE  HeldBefore(v, next_server(s, n))
BY NextServer DEF HeldBefore

-----------------------------------------------------------------------------
\* Crashes and configurations.
LEMMA CrashStep ==
  ASSUME Inv, NEW n \in Server, Crash(n)
  PROVE  Inv' /\ Grows
<1> USE DEF Inv
<1>1. /\ n \in up /\ up # {n} /\ up' = up \ {n}
      /\ faults < MaxFaults /\ faults' = faults + 1
      /\ store' = [store EXCEPT ![n] = EmptyStore]
      /\ pending' = {e \in pending : e.node # n}
      /\ puts' = {p \in puts : p.node # n}
      /\ jobs' = {j \in jobs : j.node # n}
      /\ applying' = {t \in applying : t.node # n}
      /\ UNCHANGED <<configs, epoch, ring, forwards, writeAcks, commitAcks,
                     assigned>>
  BY DEF Crash, Fault
<1>2. /\ store \in [Server -> Store] /\ up \subseteq Server
      /\ faults \in Nat /\ MaxFaults \in Nat
  BY Numbers DEF TypeOK
<1>3. /\ store' \in [Server -> Store] /\ store'[n] = EmptyStore
      /\ \A m \in Server : m # n => store'[m] = store[m]
  BY <1>1, <1>2, EmptyStoreType
<1>4. Grows
  BY <1>1, <1>2, <1>3 DEF Grows
<1>5. TypeOK'
  <2>1. faults' \in 0..MaxFaults
    BY <1>1, <1>2
  <2>2. /\ up' \subseteq Server /\ applying' \subseteq Thread
        /\ pending' \subseteq Entry /\ puts' \subseteq PutThread
        /\ jobs' \subseteq Job
    BY <1>1 DEF TypeOK
  <2> QED  BY <1>1, <1>3, <2>1, <2>2 DEF TypeOK, current
<1>6. ConfigInv'
  <2>1. up' # {}
    BY <1>1
  <2>2. \A e \in 1..current : RingOf(configs[e])'
    BY <1>1 DEF ConfigInv, RingOf
  <2>3. \A m \in Server : RingOf(ring[m].members)'
    BY <1>1 DEF ConfigInv, RingOf
  <2> QED  BY <1>1, <2>1, <2>2, <2>3 DEF ConfigInv, RingOf, current
<1>7. WriteInv'
  <2>1. /\ \A x \in pending' \cup jobs' \cup puts' : x.node \in up'
        /\ pending' \ pending = {} /\ jobs' \ jobs = {} /\ puts' \ puts = {}
    BY <1>1 DEF WriteInv, HeldBy, JobFine, PutFine
  <2> QED  BY <1>1, <1>4, <2>1, WritesKept
<1>8. NewInv'
  BY <1>1, NewElsewhere
<1>9. StoreInv'
  <2>1. StoreFine(store[n])'
    BY <1>3 DEF StoreFine, EmptyStore
  <2> QED  BY <1>3, <1>4, <2>1, StoresKept
<1> QED  BY <1>4, <1>5, <1>6, <1>7, <1>8, <1>9

\* A membership is left with at least the servers that run.
LEMMA RemoveServerStep ==
  ASSUME Inv, NEW n \in Server, RemoveServer(n)
  PROVE  Inv' /\ Grows
<1> USE DEF Inv
<1> DEFINE s == configs[current]
           t == members_without(s, n)
<1>1. /\ configs \in Seq(Seq(Server)) /\ current \in Nat /\ current > 0
      /\ Len(Ring) \in Nat
  BY Numbers DEF TypeOK
<1>2. Last(configs) = s
  BY DEF Last, current
<1>3. /\ n \notin up /\ \E i \in 1..Len(s) : s[i] = n
      /\ configs' = Append(configs, t)
      /\ UNCHANGED <<up, epoch, ring, applying, store, pending, forwards, puts,
                     jobs, writeAcks, commitAcks, assigned, faults>>
  BY <1>2 DEF RemoveServer, Contains
<1>4. /\ RingOf(s) /\ Membership(s) /\ s \in Seq(Server) /\ Len(s) \in Nat
      /\ Len(s) + current = Len(Ring) + 1
      /\ ToSet(s) = {s[i] : i \in 1..Len(s)}
  <2>1. RingOf(s) /\ Len(s) + current = Len(Ring) + 1
    <3>1. current \in 1..current
      BY <1>1
    <3>2. RingOf(s)
      BY <3>1 DEF ConfigInv
    <3>3. Len(s) + current = Len(Ring) + 1
      BY DEF ConfigInv
    <3> QED  BY <3>2, <3>3
  <2> HIDE DEF s
  <2>2. Membership(s) /\ s \in Seq(Server)
    BY <2>1 DEF RingOf, Membership
  <2> QED  BY <2>1, <2>2, Members
<1> HIDE DEF s, t
<1>5. Len(s) > 1 /\ n \in ToSet(s)
  <2>1. PICK u \in up : TRUE
    BY DEF ConfigInv
  <2>2. PICK i \in 1..Len(s) : s[i] = n
    BY <1>3
  <2>3. PICK j \in 1..Len(s) : s[j] = u
    BY <1>4, <2>1 DEF RingOf
  <2> QED  BY <1>3, <1>4, <2>1, <2>2, <2>3
<1>6. /\ Membership(t) /\ Len(t) = Len(s) - 1 /\ t \in Seq(Server)
      /\ up \subseteq ToSet(t)
  BY <1>3, <1>4, <1>5, Without DEF Membership, RingOf, t
<1>7. /\ configs' \in Seq(Seq(Server)) /\ current' = current + 1
      /\ \A e \in 1..current : configs'[e] = configs[e]
      /\ configs'[current + 1] = t
  BY <1>1, <1>3, <1>6, AppendProperties DEF current
<1>8. Grows
  BY <1>3, GrowsElsewhere
<1>9. TypeOK'
  <2>1. current' \in 1..Len(Ring) /\ 1..current \subseteq 1..current'
    BY <1>1, <1>4, <1>5, <1>7
  <2>2. /\ epoch' \in [Server -> 1..current']
        /\ ring' \in [Server -> [members : Seq(Server), epoch : 1..current']]
    BY <1>3, <2>1 DEF TypeOK
  <2> QED  BY <1>3, <1>7, <2>1, <2>2 DEF TypeOK
<1>10. ConfigInv'
  <2>1. \A e \in 1..current' : RingOf(configs'[e])
    <3>1. RingOf(t)
      BY <1>6 DEF RingOf
    <3>2. \A e \in 1..current' : e \in 1..current \/ e = current + 1
      BY <1>1, <1>7
    <3>3. \A e \in 1..current : RingOf(configs'[e])
      BY <1>7 DEF ConfigInv
    <3> QED  BY <1>7, <3>1, <3>2, <3>3
  <2>2. \A e \in 1..current' : RingOf(configs[e])'
    BY <1>3, <2>1 DEF RingOf
  <2>3. Len(configs'[current']) + current' = Len(Ring) + 1
    <3>1. configs'[current'] = t
      BY <1>7
    <3>2. Len(t) + (current + 1) = Len(Ring) + 1
      <4>1. Len(t) = Len(s) - 1 /\ Len(s) + current = Len(Ring) + 1
        BY <1>4, <1>6
      <4>2. Len(s) \in Nat /\ current \in Nat /\ Len(Ring) \in Nat
        BY <1>1, <1>4
      <4> QED  BY <4>1, <4>2
    <3> QED  BY <1>7, <3>1, <3>2
  <2>4. configs'[1] = Ring
    BY <1>1, <1>7 DEF ConfigInv
  <2>5. \A e \in applying' : e.epoch \in 1..current' /\ e.node \in up'
    <3>1. \A e \in applying' : e.epoch \in 1..current /\ e.node \in up'
      BY <1>3 DEF ConfigInv
    <3>2. 1..current \subseteq 1..current'
      BY <1>1, <1>7
    <3> QED  BY <3>1, <3>2
  <2> QED  BY <1>3, <2>2, <2>3, <2>4, <2>5 DEF ConfigInv, RingOf
<1>11. WriteInv' /\ NewInv' /\ StoreInv'
  <2>1. \A x \in pending' \cup jobs' \cup puts' : x.node \in up'
    BY <1>3 DEF WriteInv, HeldBy, JobFine, PutFine
  <2> QED  BY <1>3, <1>8, <2>1, WritesKept, NewElsewhere, StoresKept
<1> QED  BY <1>8, <1>9, <1>10, <1>11

LEMMA LearnStep ==
  ASSUME Inv, NEW n \in up, NEW e \in 1..current, LearnEpoch(n, e)
  PROVE  Inv' /\ Grows
<1> USE DEF Inv
<1>1. /\ epoch' = [epoch EXCEPT ![n] = e]
      /\ applying' = applying \cup {[node |-> n, epoch |-> e, step |-> "ring"]}
      /\ UNCHANGED <<up, configs, ring, store, pending, forwards, puts, jobs,
                     writeAcks, commitAcks, assigned, faults>>
  BY DEF LearnEpoch
<1>2. Grows
  BY <1>1, GrowsElsewhere
<1>3. n \in Server /\ e \in Nat
  BY DEF TypeOK
<1>4. TypeOK'
  <2>1. epoch' \in [Server -> 1..current] /\ applying' \subseteq Thread
    BY <1>1, <1>3 DEF TypeOK, Thread
  <2> QED  BY <1>1, <2>1 DEF TypeOK, current
<1>5. ConfigInv'
  BY <1>1 DEF ConfigInv, RingOf, current
<1>6. WriteInv' /\ NewInv' /\ StoreInv'
  <2>1. \A x \in pending' \cup jobs' \cup puts' : x.node \in up'
    BY <1>1 DEF WriteInv, HeldBy, JobFine, PutFine
  <2> QED  BY <1>1, <1>2, <2>1, WritesKept, NewElsewhere, StoresKept
<1> QED  BY <1>2, <1>4, <1>5, <1>6

LEMMA UpdateStep ==
  ASSUME Inv, NEW t \in applying, UpdateMembership(t)
  PROVE  Inv' /\ Grows
<1> USE DEF Inv
<1>1. /\ ring' = [ring EXCEPT ![t.node].members = configs[t.epoch]]
      /\ applying' = (applying \ {t}) \cup {[t EXCEPT !.step = "epoch"]}
      /\ UNCHANGED <<up, configs, epoch, store, pending, forwards, puts, jobs,
                     writeAcks, commitAcks, assigned, faults>>
  BY DEF UpdateMembership
<1>2. Grows
  BY <1>1, GrowsElsewhere
<1>3. /\ t.node \in up /\ t.node \in Server /\ t.epoch \in 1..current
      /\ t \in Thread /\ RingOf(configs[t.epoch])
  BY DEF TypeOK, ConfigInv
<1> DEFINE s == configs[t.epoch]
<1> HIDE DEF s
<1>4. s \in Seq(Server) /\ RingOf(s) /\ ring' = [ring EXCEPT ![t.node].members = s]
  BY <1>1, <1>3 DEF RingOf, Membership, s
<1>5. /\ ring \in [Server -> [members : Seq(Server), epoch : 1..current]]
      /\ ring' \in [Server -> [members : Seq(Server), epoch : 1..current]]
      /\ \A m \in Server : ring'[m].members = IF m = t.node THEN s
                                              ELSE ring[m].members
  BY <1>3, <1>4 DEF TypeOK
<1>6. /\ [t EXCEPT !.step = "epoch"] \in Thread
      /\ [t EXCEPT !.step = "epoch"].node = t.node
      /\ [t EXCEPT !.step = "epoch"].epoch = t.epoch
  BY <1>3 DEF Thread
<1>7. TypeOK'
  BY <1>1, <1>5, <1>6 DEF TypeOK, current
<1>8. ConfigInv'
  <2>1. \A m \in Server : RingOf(ring'[m].members)
    BY <1>4, <1>5 DEF ConfigInv
  <2>2. \A m \in Server : RingOf(ring[m].members)'
    BY <1>1, <2>1 DEF RingOf
  <2>3. \A x \in applying' : x.epoch \in 1..current /\ x.node \in up
    BY <1>1, <1>3, <1>6 DEF ConfigInv
  <2> QED  BY <1>1, <2>2, <2>3 DEF ConfigInv, RingOf, current
<1>9. WriteInv' /\ NewInv' /\ StoreInv'
  <2>1. \A x \in pending' \cup jobs' \cup puts' : x.node \in up'
    BY <1>1 DEF WriteInv, HeldBy, JobFine, PutFine
  <2> QED  BY <1>1, <1>2, <2>1, WritesKept, NewElsewhere, StoresKept
<1> QED  BY <1>2, <1>7, <1>8, <1>9

\* What is sent again the server has, and it is sent along its ring.
LEMMA Resends ==
  ASSUME Inv, NEW n \in up, NEW entries \in SUBSET pending,
         \A e \in entries : e.node = n
  PROVE  \A j \in resend(n, entries) : j \in Job /\ JobFine(j) /\ j.node \in up
<1> SUFFICES ASSUME NEW e \in entries,
                    NEW j, j = [node |-> n,
                                to |-> next_server(ring[n].members, n),
                                request |-> e.request, version |-> e.version]
             PROVE  j \in Job /\ JobFine(j) /\ j.node \in up
  BY DEF resend
<1>1. /\ up \subseteq Server /\ n \in Server /\ RingOf(ring[n].members)
      /\ e \in Entry /\ HeldBy(e) /\ e.node = n
  BY DEF Inv, TypeOK, ConfigInv, WriteInv
<1>2. /\ next_server(ring[n].members, n) \in Server
      /\ HeldBefore(e.version, next_server(ring[n].members, n))
  BY <1>1, NextServer, HeldOnwards DEF HeldBy
<1>3. j \in Job
  BY <1>1, <1>2 DEF Job, Entry
<1> QED  BY <1>1, <1>2, <1>3 DEF JobFine, HeldBy

LEMMA SetEpochStep ==
  ASSUME Inv, NEW t \in applying, SetEpoch(t)
  PROVE  Inv' /\ Grows
<1> USE DEF Inv
<1> DEFINE again == resend(t.node, {e \in pending : e.node = t.node})
<1>1. /\ ring' = [ring EXCEPT ![t.node].epoch = t.epoch]
      /\ jobs' = jobs \cup again
      /\ applying' = applying \ {t}
      /\ UNCHANGED <<up, configs, epoch, store, pending, forwards, puts,
                     writeAcks, commitAcks, assigned, faults>>
  BY DEF SetEpoch
<1>2. Grows
  BY <1>1, GrowsElsewhere
<1>3. /\ t.node \in up /\ t.node \in Server /\ t.epoch \in 1..current
  BY DEF TypeOK, ConfigInv
<1>4. \A j \in again : j \in Job /\ JobFine(j) /\ j.node \in up
  BY <1>3, Resends
<1> HIDE DEF again
<1>5. /\ ring \in [Server -> [members : Seq(Server), epoch : 1..current]]
      /\ ring' \in [Server -> [members : Seq(Server), epoch : 1..current]]
      /\ \A m \in Server : ring'[m].members = ring[m].members
  BY <1>1, <1>3 DEF TypeOK
<1>6. TypeOK'
  BY <1>1, <1>4, <1>5 DEF TypeOK, current
<1>7. ConfigInv'
  BY <1>1, <1>5 DEF ConfigInv, RingOf, current
<1>8. WriteInv' /\ NewInv' /\ StoreInv'
  <2>1. \A x \in pending' \cup jobs' \cup puts' : x.node \in up'
    BY <1>1, <1>4 DEF WriteInv, HeldBy, JobFine, PutFine
  <2>2. \A j \in jobs' \ jobs : JobFine(j)'
    BY <1>1, <1>4 DEF JobFine, HeldBy, HeldBefore
  <2> QED  BY <1>1, <1>2, <2>1, <2>2, WritesKept, NewElsewhere, StoresKept
<1> QED  BY <1>2, <1>6, <1>7, <1>8

-----------------------------------------------------------------------------
\* Writes on their way.
LEMMA NoMembers == <<>> \in Seq(Server)
BY EmptySeq

LEMMA PutStep ==
  ASSUME Inv, NEW r \in Request, NEW e \in 1..current, Put(r, e)
  PROVE  Inv' /\ Grows
<1> USE DEF Inv
<1> DEFINE n == Head(configs[e])
<1>0. PICK p : p = [node |-> n, request |-> r, version |-> 0,
                    step |-> "accepted", stale |-> FALSE, members |-> <<>>]
  OBVIOUS
<1>1. /\ assigned[r] = 0 /\ \A q \in puts : q.request # r
      /\ n \in up /\ puts' = puts \cup {p}
      /\ UNCHANGED <<membershipVars, store, pending, forwards, jobs, writeAcks,
                     commitAcks, assigned, faults>>
  BY <1>0 DEF Put, Enter
<1> HIDE DEF n
<1>2. up \subseteq Server /\ n \in Server
  BY <1>1 DEF TypeOK
<1>3. p \in PutThread
  BY <1>0, <1>2, NoMembers, Numbers DEF PutThread
<1>4. p.node = n /\ p.request = r /\ p.version = 0 /\ p.step = "accepted"
  BY <1>0
<1>5. Grows
  BY <1>1, GrowsElsewhere DEF membershipVars
<1>6. TypeOK'
  BY <1>1, <1>3 DEF TypeOK, membershipVars, current
<1>7. ConfigInv'
  BY <1>1, ConfigElsewhere
<1>8. WriteInv'
  <2>1. \A x \in pending' \cup jobs' \cup puts' : x.node \in up'
    BY <1>1, <1>4 DEF WriteInv, HeldBy, JobFine, PutFine, membershipVars
  <2>2. PutFine(p)'
    <3>1. p.node \in up'
      BY <1>1, <1>4 DEF membershipVars
    <3> QED  BY <1>4, <3>1 DEF PutFine
  <2> QED  BY <1>1, <1>5, <2>1, <2>2, WritesKept
<1>9. NewInv'
  BY <1>1, <1>4 DEF NewInv
<1>10. StoreInv'
  BY <1>1, <1>5, StoresKept
<1> QED  BY <1>5, <1>6, <1>7, <1>8, <1>9, <1>10

\* A message that is handled has a version already.
LEMMA ForwardStep ==
  ASSUME Inv, NEW m \in forwards, ForwardPut(m)
  PROVE  Inv' /\ Grows
<1> USE DEF Inv
<1> DEFINE p == [node |-> m.to, request |-> m.request, version |-> m.version,
                 step |-> "accepted", stale |-> FALSE, members |-> <<>>]
<1>1. /\ m.to \in up /\ forwards' = forwards \ {m}
      /\ puts' = puts \/ puts' = puts \cup {p}
      /\ UNCHANGED <<membershipVars, store, pending, jobs, writeAcks, commitAcks,
                     assigned, faults>>
  BY DEF ForwardPut, Enter
<1>2. /\ m.to \in Server /\ m.request \in Request /\ m.version \in Version
      /\ m.version # 0 /\ m.version \in 0..MaxVersion
      /\ ForwardFine(m)
  <2>1. m \in Forward /\ ForwardFine(m)
    BY DEF TypeOK, WriteInv
  <2> QED  BY <2>1, Positive DEF Forward
<1>3. p \in PutThread
  BY <1>2, NoMembers DEF PutThread
<1>4. /\ p.node = m.to /\ p.request = m.request /\ p.version = m.version
      /\ p.step = "accepted"
  OBVIOUS
<1> HIDE DEF p
<1>5. Grows
  BY <1>1, GrowsElsewhere DEF membershipVars
<1>6. TypeOK'
  BY <1>1, <1>3 DEF TypeOK, membershipVars, current
<1>7. ConfigInv'
  BY <1>1, ConfigElsewhere
<1>8. WriteInv'
  <2>1. \A x \in pending' \cup jobs' \cup puts' : x.node \in up'
    BY <1>1, <1>4 DEF WriteInv, HeldBy, JobFine, PutFine, membershipVars
  <2>2. PutFine(p)'
    <3>1. HeldBefore(p.version, p.node)'
      BY <1>1, <1>2, <1>4 DEF ForwardFine, HeldBefore, membershipVars
    <3> QED  BY <1>1, <1>2, <1>4, <3>1 DEF PutFine, ForwardFine, membershipVars
  <2> QED  BY <1>1, <1>5, <2>1, <2>2, WritesKept
<1>9. NewInv'
  BY <1>1, <1>2, <1>4 DEF NewInv, ForwardFine
<1>10. StoreInv'
  BY <1>1, <1>5, StoresKept
<1> QED  BY <1>5, <1>6, <1>7, <1>8, <1>9, <1>10

\* What forward_put leaves behind is the write.
LEMMA Forwarding ==
  ASSUME TypeOK, NEW n \in Server, NEW to \in Server, NEW r \in Request,
         NEW v \in Version, forward_put(n, to, r, v)
  PROVE  /\ pending' \subseteq Entry /\ forwards' \subseteq Forward
         /\ \A e \in pending' \ pending :
              e.node = n /\ e.request = r /\ e.version = v
         /\ \A m \in forwards' \ forwards :
              m.to = to /\ m.request = r /\ m.version = v
<1> DEFINE old == {e \in pending : e.node = n /\ e.request = r}
           retries == IF old = {} THEN 0 ELSE (CHOOSE e \in old : TRUE).retries
           entry == [node |-> n, request |-> r, version |-> v,
                     retries |-> retries]
           message == [from |-> n, to |-> to, request |-> r, version |-> v,
                       epoch |-> ring[n].epoch]
<1>1. /\ pending' = (pending \ old) \cup {entry}
      /\ forwards' = forwards \cup {message}
  BY DEF forward_put
<1>2. retries \in 0..MaxRetryCount
  <2>1. CASE old = {}
    BY <2>1, Numbers
  <2>2. CASE old # {}
    <3>1. (CHOOSE e \in old : TRUE) \in old
      BY <2>2
    <3>2. (CHOOSE e \in old : TRUE) \in Entry
      BY <3>1 DEF TypeOK
    <3> QED  BY <2>2, <3>2 DEF Entry
  <2> QED  BY <2>1, <2>2
<1>3. ring[n].epoch \in Nat
  BY DEF TypeOK
<1> HIDE DEF retries, old
<1>4. entry \in Entry /\ message \in Forward
  BY <1>2, <1>3 DEF Entry, Forward
<1>5. /\ entry.node = n /\ entry.request = r /\ entry.version = v
      /\ message.to = to /\ message.request = r /\ message.version = v
  OBVIOUS
<1> HIDE DEF entry, message
<1> QED  BY <1>1, <1>4, <1>5 DEF TypeOK

\* The part of a step that forwards a write the server has.
LEMMA PassesOn ==
  ASSUME Inv, NEW n \in up, NEW to \in Server, NEW r \in Request,
         NEW v \in Version, forward_put(n, to, r, v),
         assigned[r] = v, holds(store[n], v), HeldBefore(v, n),
         HeldBefore(v, to), puts' \subseteq puts, jobs' \subseteq jobs,
         UNCHANGED <<membershipVars, store, writeAcks, commitAcks, assigned,
                     faults>>
  PROVE  Inv' /\ Grows
<1> USE DEF Inv
<1>1. Grows
  BY GrowsElsewhere DEF membershipVars
<1>2. n \in Server
  BY DEF TypeOK
<1>3. /\ pending' \subseteq Entry /\ forwards' \subseteq Forward
      /\ \A e \in pending' \ pending :
           e.node = n /\ e.request = r /\ e.version = v
      /\ \A m \in forwards' \ forwards :
           m.to = to /\ m.request = r /\ m.version = v
  BY <1>2, Forwarding
<1>4. TypeOK'
  BY <1>3 DEF TypeOK, membershipVars, current
<1>5. ConfigInv'
  BY ConfigElsewhere
<1>6. WriteInv'
  <2>1. HeldBefore(v, n)' /\ HeldBefore(v, to)'
    BY <1>1, StaysHeld
  <2>2. \A x \in pending' \cup jobs' \cup puts' : x.node \in up'
    BY <1>3 DEF WriteInv, HeldBy, JobFine, PutFine, membershipVars
  <2>3. ASSUME NEW e \in pending' \ pending PROVE HeldBy(e)'
    <3>1. e.node = n /\ e.request = r /\ e.version = v
      BY <1>3, <2>3
    <3> QED  BY <2>1, <3>1 DEF HeldBy, membershipVars
  <2>4. ASSUME NEW m \in forwards' \ forwards PROVE ForwardFine(m)'
    <3>1. m.to = to /\ m.request = r /\ m.version = v
      BY <1>3, <2>4
    <3> QED  BY <2>1, <3>1 DEF ForwardFine
  <2> QED  BY <1>1, <2>2, <2>3, <2>4, WritesKept
<1>7. NewInv'
  BY NewElsewhere
<1>8. StoreInv'
  BY <1>1, StoresKept
<1> QED  BY <1>1, <1>4, <1>5, <1>6, <1>7, <1>8

LEMMA StoredPut ==
  ASSUME Inv, NEW p \in puts, p.step = "stored"
  PROVE  /\ up \subseteq Server /\ p.node \in up /\ RingOf(p.members)
         /\ p.request \in Request /\ p.version \in Version
         /\ assigned[p.request] = p.version /\ HeldBefore(p.version, p.node)
         /\ holds(store[p.node], p.version)
<1>1. up \subseteq Server /\ p \in PutThread /\ PutFine(p)
  BY DEF Inv, TypeOK, WriteInv
<1>2. p.version # 0 /\ RingOf(p.members) /\ holds(store[p.node], p.version)
  BY <1>1 DEF PutFine
<1>3. p.request \in Request /\ p.version \in Version
  BY <1>1, <1>2, Positive DEF PutThread
<1> QED  BY <1>1, <1>2, <1>3 DEF PutFine

LEMMA PassOnStep ==
  ASSUME Inv, NEW p \in puts, PassOn(p)
  PROVE  Inv' /\ Grows
<1> USE DEF Inv
<1>1. /\ p.step = "stored" /\ puts' = puts \ {p}
      /\ forward_put(p.node, next_server(p.members, p.node), p.request,
                     p.version)
      /\ UNCHANGED <<membershipVars, store, jobs, writeAcks, commitAcks,
                     assigned, faults>>
  BY DEF PassOn
<1>2. /\ up \subseteq Server /\ p.node \in up /\ RingOf(p.members)
      /\ p.request \in Request /\ p.version \in Version
      /\ assigned[p.request] = p.version /\ HeldBefore(p.version, p.node)
      /\ holds(store[p.node], p.version)
  BY <1>1, StoredPut
<1>3. /\ next_server(p.members, p.node) \in Server
      /\ HeldBefore(p.version, next_server(p.members, p.node))
  BY <1>2, NextServer, HeldOnwards
<1> QED  BY <1>1, <1>2, <1>3, PassesOn

LEMMA ReForwardStep ==
  ASSUME Inv, NEW j \in jobs, ReForward(j)
  PROVE  Inv' /\ Grows
<1>1. /\ forward_put(j.node, j.to, j.request, j.version) /\ jobs' = jobs \ {j}
      /\ UNCHANGED <<membershipVars, store, puts, writeAcks, commitAcks,
                     assigned, faults>>
  BY DEF ReForward
<1>2. /\ j.to \in Server /\ j.request \in Request /\ j.version \in Version
      /\ JobFine(j)
  BY DEF Inv, TypeOK, Job, WriteInv
<1> QED  BY <1>1, <1>2, PassesOn DEF JobFine, HeldBy

LEMMA CollectStep ==
  ASSUME Inv, NEW e \in pending, CollectExpired(e)
  PROVE  Inv' /\ Grows
<1> USE DEF Inv
<1> DEFINE d == [e EXCEPT !.retries = @ + 1]
           again == resend(e.node, {e})
<1>1. /\ e.retries < MaxRetryCount
      /\ pending' = (pending \ {e}) \cup {d}
      /\ jobs' = jobs \cup again
      /\ UNCHANGED <<membershipVars, store, forwards, puts, writeAcks,
                     commitAcks, assigned>>
      /\ faults' = faults \/ (faults < MaxFaults /\ faults' = faults + 1)
  BY DEF CollectExpired, Fault
<1>2. /\ e \in Entry /\ HeldBy(e) /\ e.retries \in 0..MaxRetryCount
      /\ faults \in Nat /\ MaxFaults \in Nat /\ MaxRetryCount \in Nat
  BY Numbers DEF TypeOK, Entry, WriteInv
<1>3. \A j \in again : j \in Job /\ JobFine(j) /\ j.node \in up
  BY <1>2, Resends DEF HeldBy
<1>4. /\ d \in Entry /\ d.node = e.node /\ d.request = e.request
      /\ d.version = e.version
  BY <1>1, <1>2 DEF Entry
<1> HIDE DEF d, again
<1>5. Grows
  BY <1>1, GrowsElsewhere DEF membershipVars
<1>6. TypeOK'
  <2>1. faults' \in 0..MaxFaults
    BY <1>1, <1>2 DEF TypeOK
  <2>2. pending' \subseteq Entry /\ jobs' \subseteq Job
    BY <1>1, <1>3, <1>4 DEF TypeOK
  <2> QED  BY <1>1, <2>1, <2>2 DEF TypeOK, membershipVars, current
<1>7. ConfigInv'
  BY <1>1, ConfigElsewhere
<1>8. WriteInv'
  <2>1. \A x \in pending' \cup jobs' \cup puts' : x.node \in up'
    BY <1>1, <1>2, <1>3, <1>4
       DEF WriteInv, HeldBy, JobFine, PutFine, membershipVars
  <2>2. HeldBy(d)'
    BY <1>1, <1>2, <1>4 DEF HeldBy, HeldBefore, membershipVars
  <2>3. \A j \in jobs' \ jobs : JobFine(j)'
    BY <1>1, <1>3 DEF JobFine, HeldBy, HeldBefore, membershipVars
  <2> QED  BY <1>1, <1>5, <2>1, <2>2, <2>3, WritesKept
<1>9. NewInv' /\ StoreInv'
  BY <1>1, <1>5, NewElsewhere, StoresKept
<1> QED  BY <1>5, <1>6, <1>7, <1>8, <1>9

LEMMA LoseStep ==
  ASSUME Inv, Lose
  PROVE  Inv' /\ Grows
<1> USE DEF Inv
<1>1. /\ forwards' \subseteq forwards /\ writeAcks' \subseteq writeAcks
      /\ UNCHANGED <<membershipVars, store, pending, puts, jobs, commitAcks,
                     assigned>>
      /\ faults' = faults \/ (faults < MaxFaults /\ faults' = faults + 1)
  BY DEF Lose, LossOf, Fault
<1>2. faults' \in 0..MaxFaults
  BY <1>1, Numbers DEF TypeOK
<1>3. Grows
  BY <1>1, GrowsElsewhere DEF membershipVars
<1>4. TypeOK'
  BY <1>1, <1>2 DEF TypeOK, membershipVars, current
<1>5. ConfigInv'
  BY <1>1, ConfigElsewhere
<1>6. WriteInv' /\ NewInv' /\ StoreInv'
  <2>1. \A x \in pending' \cup jobs' \cup puts' : x.node \in up'
    BY <1>1 DEF WriteInv, HeldBy, JobFine, PutFine, membershipVars
  <2> QED  BY <1>1, <1>3, <2>1, WritesKept, NewElsewhere, StoresKept
<1> QED  BY <1>3, <1>4, <1>5, <1>6

-----------------------------------------------------------------------------
\* Steps that change a store.
LEMMA StoreUpdate ==
  ASSUME TypeOK, NEW n \in Server, NEW t \in Store,
         store' = [store EXCEPT ![n] = t],
         \A v \in Version : holds(store[n], v) => holds(t, v),
         UNCHANGED up, commitAcks \subseteq commitAcks',
         \A r \in Request : assigned[r] # 0 => assigned'[r] = assigned[r]
  PROVE  /\ store' \in [Server -> Store] /\ store'[n] = t
         /\ \A m \in Server : m # n => store'[m] = store[m]
         /\ Grows
<1>1. store \in [Server -> Store] /\ up \subseteq Server
  BY DEF TypeOK
<1>2. /\ store' \in [Server -> Store] /\ store'[n] = t
      /\ \A m \in Server : m # n => store'[m] = store[m]
  BY <1>1
<1>3. \A u \in up', v \in Version : holds(store[u], v) => holds(store'[u], v)
  <2> TAKE u \in up', v \in Version
  <2>1. CASE u = n
    BY <1>2, <2>1
  <2>2. CASE u # n
    BY <1>1, <1>2, <2>2
  <2> QED  BY <2>1, <2>2
<1> QED  BY <1>2, <1>3 DEF Grows

\* A step with a put that was accepted stores it.
LEMMA AssignStep ==
  ASSUME Inv, NEW p \in puts, AssignVersion(p)
  PROVE  Inv' /\ Grows
<1> USE DEF Inv
<1> DEFINE n == p.node
           s == ring[n].members
           v == get_latest_version(store[n]) + 1
           t == put_new(store[n], p.request)
<1>1. /\ p.step = "accepted" /\ p.version = 0 /\ v <= MaxVersion
      /\ UNCHANGED <<membershipVars, pending, forwards, jobs, writeAcks,
                     commitAcks, faults>>
  BY DEF AssignVersion
<1>2. /\ up \subseteq Server /\ n \in up /\ n \in Server /\ p.request \in Request
      /\ p \in PutThread /\ store[n] \in Store /\ RingOf(s) /\ s \in Seq(Server)
      /\ assigned[p.request] = 0
      /\ \A q \in puts : q.request = p.request => q = p
  BY <1>1 DEF TypeOK, WriteInv, PutFine, PutThread, ConfigInv, RingOf,
              Membership, NewInv
<1>3. CASE ~is_head(s, n)
  <2>1. puts' \subseteq puts /\ UNCHANGED <<store, assigned>>
    BY <1>3 DEF AssignVersion
  <2>2. Grows
    BY <1>1, <2>1, GrowsElsewhere DEF membershipVars
  <2>3. TypeOK'
    BY <1>1, <2>1 DEF TypeOK, membershipVars, current
  <2>4. \A x \in pending' \cup jobs' \cup puts' : x.node \in up'
    BY <1>1, <2>1 DEF WriteInv, HeldBy, JobFine, PutFine, membershipVars
  <2> QED  BY <1>1, <2>1, <2>2, <2>3, <2>4, ConfigElsewhere, WritesKept,
              NewElsewhere, StoresKept
<1>4. CASE is_head(s, n)
  <2>0. PICK q : q = [p EXCEPT !.version = v, !.stale = FALSE,
                               !.step = "stored", !.members = s]
    OBVIOUS
  <2>1. /\ store' = [store EXCEPT ![n] = t]
        /\ assigned' = [assigned EXCEPT ![p.request] = v]
        /\ puts' = (puts \ {p}) \cup {q}
    BY <1>4, <2>0 DEF AssignVersion, Stored
  <2>2. /\ t \in Store /\ v \in Version /\ t.clean = store[n].clean
        /\ t.dirty = [store[n].dirty EXCEPT ![v] = p.request]
    BY <1>1, <1>2, PutNew DEF Request
  <2>3. holds(t, v) /\ \A w \in Version : holds(store[n], w) => holds(t, w)
    BY <1>1, <1>2, PutNewHeld DEF Request
  <2>4. n = Head(s)
    BY <1>4 DEF is_head
  <2> HIDE DEF t, v
  <2>5. /\ q \in PutThread /\ q.node = n /\ q.request = p.request
        /\ q.version = v /\ q.step = "stored" /\ q.members = s
    <3>1. v \in 0..MaxVersion /\ FALSE \in BOOLEAN
      BY <2>2, Positive
    <3> HIDE DEF s
    <3> QED  BY <1>2, <2>0, <3>1 DEF PutThread
  <2>6. /\ assigned' \in [Request -> 0..MaxVersion]
        /\ assigned'[p.request] = v
        /\ \A r \in Request : r # p.request => assigned'[r] = assigned[r]
    BY <1>2, <2>1, <2>2, Positive DEF TypeOK
  <2>7. /\ Grows /\ store' \in [Server -> Store] /\ store'[n] = t
        /\ \A m \in Server : m # n => store'[m] = store[m]
    BY <1>1, <1>2, <2>1, <2>2, <2>3, <2>6, StoreUpdate DEF membershipVars
  <2>8. TypeOK'
    <3>1. puts' \subseteq PutThread
      BY <2>1, <2>5 DEF TypeOK
    <3> QED  BY <1>1, <2>6, <2>7, <3>1 DEF TypeOK, membershipVars, current
  <2>9. ConfigInv'
    BY <1>1, ConfigElsewhere
  <2>10. WriteInv'
    <3>1. \A x \in pending' \cup jobs' \cup puts' : x.node \in up'
      BY <1>1, <1>2, <2>1, <2>5
         DEF WriteInv, HeldBy, JobFine, PutFine, membershipVars
    <3>2. \A u \in up : ~(place(u) < place(n))
      BY <1>2, <2>4, Ends
    <3>3. PutFine(q)'
      <4>1. q.node \in up' /\ assigned'[q.request] = q.version /\ q.version # 0
        BY <1>1, <1>2, <2>2, <2>5, <2>6, Positive DEF membershipVars
      <4>2. HeldBefore(q.version, q.node)'
        BY <1>1, <2>5, <3>2 DEF HeldBefore, membershipVars
      <4>3. RingOf(q.members)' /\ holds(store'[q.node], q.version)
        BY <1>1, <1>2, <2>3, <2>5, <2>7 DEF RingOf, membershipVars
      <4> QED  BY <4>1, <4>2, <4>3 DEF PutFine
    <3> QED  BY <1>1, <2>1, <2>7, <3>1, <3>3, WritesKept
  <2>11. NewInv'
    <3> SUFFICES ASSUME NEW x \in puts', x.version = 0
                 PROVE  /\ assigned'[x.request] = 0
                        /\ \A y \in puts' : y.request = x.request => y = x
      BY DEF NewInv
    <3>1. x \in puts /\ x # p
      BY <2>1, <2>2, <2>5, Positive
    <3>2. x.request # p.request /\ x.request \in Request
      BY <1>2, <3>1 DEF TypeOK, PutThread
    <3> QED  BY <2>1, <2>5, <2>6, <3>1, <3>2 DEF NewInv
  <2>12. StoreFine(store[n])'
    <3>1. /\ StoreFine(store[n])
          /\ store[n].dirty \in [Version -> Value \cup {NoValue}]
          /\ store[n].clean.version # 0 => store[n].clean.value \in Request
          /\ \A w \in Version : w # 0
      BY <1>2, VersionsOf DEF StoreInv, Store, Record, Request
    <3>2. \A w \in Version : t.dirty[w] # NoValue => assigned'[t.dirty[w]] = w
      <4> SUFFICES ASSUME NEW w \in Version, w # v, t.dirty[w] # NoValue
                   PROVE  assigned'[t.dirty[w]] = w
        BY <2>2, <2>6, <3>1
      <4>1. t.dirty[w] = store[n].dirty[w] /\ t.dirty[w] \in Request
        BY <2>2, <3>1 DEF Request
      <4>2. assigned[t.dirty[w]] = w /\ w # 0
        BY <3>1, <4>1 DEF StoreFine
      <4> QED  BY <2>7, <4>1, <4>2 DEF Grows
    <3>3. t.clean.version # 0 =>
            /\ assigned'[t.clean.value] = t.clean.version
            /\ \E k \in commitAcks' : k.version = t.clean.version
      BY <1>1, <2>2, <2>7, <3>1 DEF StoreFine, Grows
    <3> QED  BY <2>7, <3>2, <3>3 DEF StoreFine
  <2>13. StoreInv'
    BY <2>7, <2>12, StoresKept
  <2> QED  BY <2>7, <2>8, <2>9, <2>10, <2>11, <2>13
<1> QED  BY <1>3, <1>4

LEMMA StoreForwardedStep ==
  ASSUME Inv, NEW p \in puts, StoreForwarded(p)
  PROVE  Inv' /\ Grows
<1> USE DEF Inv
<1> DEFINE n == p.node
           s == ring[n].members
           stale == p.version <= store[n].clean.version
           t == put(store[n], p.request, p.version)
<1>1. /\ p.step = "accepted" /\ p.version # 0
      /\ UNCHANGED <<membershipVars, pending, forwards, jobs, writeAcks,
                     commitAcks, assigned, faults>>
  BY DEF StoreForwarded
<1>0. PICK q : q = [p EXCEPT !.version = p.version, !.stale = stale,
                             !.step = "stored", !.members = s]
  OBVIOUS
<1>2. /\ store' = IF stale THEN store ELSE [store EXCEPT ![n] = t]
      /\ puts' = (puts \ {p}) \cup {q}
  BY <1>0 DEF StoreForwarded, Stored
<1>3. /\ up \subseteq Server /\ n \in up /\ n \in Server /\ p.request \in Request
      /\ p \in PutThread /\ store[n] \in Store /\ RingOf(s) /\ s \in Seq(Server)
      /\ p.version \in Version
      /\ assigned[p.request] = p.version /\ HeldBefore(p.version, n)
      /\ store \in [Server -> Store]
  BY <1>1, Positive
     DEF TypeOK, WriteInv, PutFine, PutThread, ConfigInv, RingOf, Membership
<1>4. /\ t \in Store /\ holds(t, p.version) /\ t.clean = store[n].clean
      /\ \A w \in Version : t.dirty[w] =
           IF w = p.version /\ store[n].clean.version < p.version
           THEN p.request ELSE store[n].dirty[w]
      /\ \A w \in Version : holds(store[n], w) => holds(t, w)
  BY <1>3, ForwardedPut, ForwardedPutHeld DEF Request
<1>5. store' = [store EXCEPT ![n] = t]
  <2>1. CASE stale
    <3>1. t = store[n]
      BY <2>1 DEF put
    <3> QED  BY <1>2, <1>3, <2>1, <3>1
  <2> QED  BY <1>2, <2>1
<1>6. /\ q \in PutThread /\ q.node = n /\ q.request = p.request
      /\ q.version = p.version /\ q.step = "stored" /\ q.members = s
  <2>1. stale \in BOOLEAN
    OBVIOUS
  <2>2. p.version \in 0..MaxVersion
    BY <1>3, Positive
  <2> HIDE DEF stale, s
  <2> QED  BY <1>0, <1>3, <2>1, <2>2 DEF PutThread
<1> HIDE DEF t, stale
<1>7. /\ Grows /\ store' \in [Server -> Store] /\ store'[n] = t
      /\ \A m \in Server : m # n => store'[m] = store[m]
  BY <1>1, <1>3, <1>4, <1>5, StoreUpdate DEF membershipVars
<1>8. TypeOK'
  <2>1. puts' \subseteq PutThread
    BY <1>2, <1>6 DEF TypeOK
  <2> QED  BY <1>1, <1>7, <2>1 DEF TypeOK, membershipVars, current
<1>9. ConfigInv'
  BY <1>1, ConfigElsewhere
<1>10. WriteInv'
  <2>1. \A x \in pending' \cup jobs' \cup puts' : x.node \in up'
    BY <1>1, <1>2, <1>3, <1>6
       DEF WriteInv, HeldBy, JobFine, PutFine, membershipVars
  <2>2. PutFine(q)'
    <3>1. q.node \in up' /\ assigned'[q.request] = q.version /\ q.version # 0
      BY <1>1, <1>3, <1>6 DEF membershipVars
    <3>2. HeldBefore(q.version, q.node)'
      BY <1>3, <1>6, <1>7, StaysHeld
    <3>3. RingOf(q.members)' /\ holds(store'[q.node], q.version)
      BY <1>1, <1>3, <1>4, <1>6, <1>7 DEF RingOf, membershipVars
    <3> QED  BY <3>1, <3>2, <3>3 DEF PutFine
  <2> QED  BY <1>1, <1>2, <1>7, <2>1, <2>2, WritesKept
<1>11. NewInv'
  BY <1>1, <1>2, <1>6 DEF NewInv
<1>12. StoreFine(store[n])'
  <2>1. /\ StoreFine(store[n])
        /\ store[n].dirty \in [Version -> Value \cup {NoValue}]
    BY <1>3, VersionsOf DEF StoreInv
  <2>2. \A w \in Version : t.dirty[w] # NoValue => assigned'[t.dirty[w]] = w
    BY <1>1, <1>3, <1>4, <2>1 DEF StoreFine
  <2>3. t.clean.version # 0 =>
          /\ assigned'[t.clean.value] = t.clean.version
          /\ \E k \in commitAcks' : k.version = t.clean.version
    BY <1>1, <1>4, <2>1 DEF StoreFine
  <2> QED  BY <1>7, <2>2, <2>3 DEF StoreFine
<1>13. StoreInv'
  BY <1>7, <1>12, StoresKept
<1> QED  BY <1>7, <1>8, <1>9, <1>10, <1>11, <1>13

\* An acknowledged write is committed at a server that has it.
LEMMA Commits ==
  ASSUME Inv, NEW n \in up, NEW r \in Request, NEW v \in Version,
         assigned[r] = v, holds(store[n], v), UNCHANGED <<up, assigned>>,
         commitAcks \subseteq commitAcks',
         [request |-> r, version |-> v] \in commitAcks',
         \/ store' = store
         \/ store' = [store EXCEPT ![n] = mark_clean(@, v)]
  PROVE  store' \in [Server -> Store] /\ StoreInv' /\ Grows
<1> USE DEF Inv
<1>1. CASE store' = store
  <2>1. Grows
    BY <1>1 DEF Grows
  <2> QED  BY <1>1, <2>1, StoresKept DEF TypeOK
<1>2. CASE store' = [store EXCEPT ![n] = mark_clean(@, v)]
  <2> DEFINE t == mark_clean(store[n], v)
  <2>1. /\ n \in Server /\ store[n] \in Store /\ StoreFine(store[n])
        /\ store[n].dirty \in [Version -> Value \cup {NoValue}]
    BY VersionsOf DEF TypeOK, StoreInv
  <2>2. /\ t \in Store
        /\ \/ t.clean = store[n].clean
           \/ /\ store[n].dirty[v] # NoValue
              /\ t.clean = [version |-> v, value |-> store[n].dirty[v]]
        /\ \A w \in Version :
             t.dirty[w] = IF w <= v THEN NoValue ELSE store[n].dirty[w]
    <3>1. mark_clean(store[n], v) \in Store
      BY <2>1, MarkCleanHeld
    <3>2. \/ t.clean = store[n].clean
          \/ /\ store[n].dirty[v] # NoValue
             /\ t.clean = [version |-> v, value |-> store[n].dirty[v]]
      BY DEF mark_clean
    <3>3. \A w \in Version :
            t.dirty[w] = IF w <= v THEN NoValue ELSE store[n].dirty[w]
      BY DEF mark_clean, erase_dirty_upto
    <3> QED  BY <3>1, <3>2, <3>3
  <2>3. \A w \in Version : holds(store[n], w) => holds(t, w)
    BY <2>1, MarkCleanHeld
  <2>4. store' = [store EXCEPT ![n] = t]
    BY <1>2
  <2> HIDE DEF t
  <2>5. /\ store' \in [Server -> Store] /\ store'[n] = t
        /\ \A m \in Server : m # n => store'[m] = store[m]
        /\ Grows
    BY <2>1, <2>2, <2>3, <2>4, StoreUpdate
  <2>6. StoreFine(store[n])'
    <3>1. \A w \in Version : t.dirty[w] # NoValue => assigned'[t.dirty[w]] = w
      BY <2>1, <2>2 DEF StoreFine
    <3>2. t.clean.version # 0 =>
            /\ assigned'[t.clean.value] = t.clean.version
            /\ \E k \in commitAcks' : k.version = t.clean.version
      <4>1. CASE t.clean = store[n].clean
        BY <2>1, <4>1 DEF StoreFine
      <4>2. CASE /\ store[n].dirty[v] # NoValue
                 /\ t.clean = [version |-> v, value |-> store[n].dirty[v]]
        <5>1. assigned[store[n].dirty[v]] = v
          BY <2>1, <4>2 DEF StoreFine
        <5>2. [request |-> r, version |-> v].version = v
          OBVIOUS
        <5> QED  BY <4>2, <5>1, <5>2
      <4> QED  BY <2>2, <4>1, <4>2
    <3> QED  BY <2>5, <3>1, <3>2 DEF StoreFine
  <2> QED  BY <2>5, <2>6, StoresKept
<1> QED  BY <1>1, <1>2

\* The tail of whatever ring a write went by has it as the last of those that
\* run, so they all have it.
LEMMA CommitStep ==
  ASSUME Inv, NEW p \in puts, CommitAtTail(p)
  PROVE  Inv' /\ Grows
<1> USE DEF Inv
<1> DEFINE n == p.node
           v == p.version
           k == [request |-> p.request, version |-> p.version]
           a == write_ack(p.members, p.node, p.request)
<1>1. /\ p.step = "stored" /\ is_tail(p.members, n)
      /\ store' = store \/ store' = [store EXCEPT ![n] = mark_clean(@, v)]
      /\ writeAcks' = writeAcks \/ writeAcks' = writeAcks \cup {a}
      /\ commitAcks' = commitAcks \cup {k}
      /\ puts' = puts \ {p}
      /\ UNCHANGED <<membershipVars, pending, forwards, jobs, assigned, faults>>
  BY DEF CommitAtTail
<1>2. /\ up \subseteq Server /\ n \in up /\ RingOf(p.members)
      /\ p.request \in Request /\ v \in Version
      /\ assigned[p.request] = v /\ HeldBefore(v, n) /\ holds(store[n], v)
  BY <1>1, StoredPut
<1>3. /\ k.request = p.request /\ k.version = v
      /\ k \in [request : Request, version : Version]
  BY <1>2
<1>4. a \in WriteAck /\ a.request = p.request
  BY <1>2, NextServer DEF write_ack, WriteAck
<1>5. store' \in [Server -> Store] /\ StoreInv' /\ Grows
  BY <1>1, <1>2, Commits DEF membershipVars
<1>6. TypeOK'
  <2>1. /\ writeAcks' \subseteq WriteAck
        /\ commitAcks' \subseteq [request : Request, version : Version]
        /\ puts' \subseteq PutThread
    BY <1>1, <1>3, <1>4 DEF TypeOK
  <2> QED  BY <1>1, <1>5, <2>1 DEF TypeOK, membershipVars, current
<1>7. ConfigInv'
  BY <1>1, ConfigElsewhere
<1>8. \A u \in up : holds(store[u], v)
  <2> TAKE u \in up
  <2>1. ~(place(n) < place(u))
    BY <1>1, <1>2, Ends DEF is_tail
  <2>2. place(u) \in Nat /\ place(n) \in Nat
    BY <1>2, Places
  <2>3. CASE place(u) < place(n)
    BY <1>2, <2>3 DEF HeldBefore
  <2>4. CASE place(u) = place(n)
    BY <1>2, <2>4, SamePlace
  <2> QED  BY <2>1, <2>2, <2>3, <2>4
<1>9. WriteInv'
  <2>1. \A x \in pending' \cup jobs' \cup puts' : x.node \in up'
    BY <1>1 DEF WriteInv, HeldBy, JobFine, PutFine, membershipVars
  <2>2. CommitAckFine(k)'
    BY <1>1, <1>2, <1>3, <1>5, <1>8 DEF CommitAckFine, Grows
  <2>3. ASSUME NEW b \in writeAcks' \ writeAcks PROVE WriteAckFine(b)'
    <3>1. b.request = p.request
      BY <1>1, <1>4, <2>3
    <3>2. assigned'[b.request] = v
      BY <1>1, <1>2, <3>1
    <3> QED  BY <1>1, <3>1, <3>2 DEF WriteAckFine
  <2> HIDE DEF k
  <2> QED  BY <1>1, <1>5, <2>1, <2>2, <2>3, WritesKept
<1>10. NewInv'
  BY <1>1, NewElsewhere
<1> QED  BY <1>5, <1>6, <1>7, <1>9, <1>10

\* An ack goes against the ring, for a write that was acknowledged.
LEMMA AckStep ==
  ASSUME Inv, NEW a \in writeAcks, SendWriteAck(a)
  PROVE  Inv' /\ Grows
<1> USE DEF Inv
<1>1. UNCHANGED <<membershipVars, forwards, puts, jobs, commitAcks, assigned,
                  faults>>
  BY DEF SendWriteAck
<1>2. pending' \subseteq pending
  BY DEF SendWriteAck, handle_ack
<1>3. /\ writeAcks' \subseteq WriteAck
      /\ \A b \in writeAcks' \ writeAcks : b.request = a.request
      /\ store' \in [Server -> Store] /\ StoreInv' /\ Grows
  <2>1. CASE \E e \in pending : /\ e.node = a.to /\ e.request = a.request
                                /\ handle_ack(e, writeAcks \ {a})
    <3>1. PICK e \in pending : /\ e.node = a.to /\ e.request = a.request
                               /\ handle_ack(e, writeAcks \ {a})
      BY <2>1
    <3> DEFINE b == write_ack(ring[e.node].members, e.node, e.request)
    <3>2. /\ store' = [store EXCEPT ![e.node] = mark_clean(@, e.version)]
          /\ writeAcks' \subseteq writeAcks \cup {b}
      BY <3>1 DEF handle_ack
    <3>3. /\ up \subseteq Server /\ e.node \in up /\ e.request \in Request
          /\ e.version \in Version /\ RingOf(ring[e.node].members)
          /\ assigned[e.request] = e.version /\ holds(store[e.node], e.version)
      BY DEF TypeOK, Entry, WriteInv, HeldBy, ConfigInv
    <3>4. b \in WriteAck /\ b.request = a.request
      BY <3>1, <3>3, NextServer DEF write_ack, WriteAck
    <3>5. [request |-> e.request, version |-> e.version] \in commitAcks
      BY <3>1, <3>3 DEF WriteInv, WriteAckFine
    <3>6. store' \in [Server -> Store] /\ StoreInv' /\ Grows
      BY <1>1, <3>2, <3>3, <3>5, Commits DEF membershipVars
    <3> HIDE DEF b
    <3> QED  BY <3>2, <3>4, <3>6 DEF TypeOK
  <2>2. CASE writeAcks' = writeAcks \ {a} /\ UNCHANGED <<store, pending>>
    <3>1. Grows
      BY <1>1, <2>2, GrowsElsewhere DEF membershipVars
    <3> QED  BY <2>2, <3>1, StoresKept DEF TypeOK
  <2> QED  BY <2>1, <2>2 DEF SendWriteAck
<1>4. TypeOK'
  BY <1>1, <1>2, <1>3 DEF TypeOK, membershipVars, current
<1>5. ConfigInv'
  BY <1>1, ConfigElsewhere
<1>6. WriteInv'
  <2>1. \A x \in pending' \cup jobs' \cup puts' : x.node \in up'
    BY <1>1, <1>2 DEF WriteInv, HeldBy, JobFine, PutFine, membershipVars
  <2>2. \A b \in writeAcks' \ writeAcks : WriteAckFine(b)'
    BY <1>1, <1>3 DEF WriteInv, WriteAckFine
  <2> QED  BY <1>1, <1>2, <1>3, <2>1, <2>2, WritesKept
<1>7. NewInv'
  BY <1>1, NewElsewhere
<1> QED  BY <1>3, <1>4, <1>5, <1>6, <1>7

-----------------------------------------------------------------------------
LEMMA InitInv == Init => Inv
<1> SUFFICES ASSUME Init PROVE Inv
  OBVIOUS
<1> USE DEF Init
<1>1. /\ Membership(Ring) /\ ToSet(Ring) = Server /\ Len(Ring) \in Nat
      /\ Len(Ring) > 1 /\ Ring \in Seq(Server) /\ MaxFaults \in Nat
      /\ MaxVersion \in Nat
  BY Places, Numbers
<1>2. RingOf(Ring)
  BY <1>1 DEF RingOf
<1>3. configs \in Seq(Seq(Server)) /\ current = 1 /\ configs[1] = Ring
  BY <1>1 DEF current
<1>4. up # {}
  BY <1>1, Members
<1>5. TypeOK
  BY <1>1, <1>3, EmptyStoreType DEF TypeOK
<1>6. ConfigInv
  BY <1>1, <1>2, <1>3, <1>4 DEF ConfigInv
<1>7. StoreInv
  BY DEF StoreInv, StoreFine, EmptyStore
<1> QED  BY <1>5, <1>6, <1>7 DEF Inv, WriteInv, NewInv

LEMMA NextInv ==
  ASSUME Inv, [Next]_vars
  PROVE  Inv' /\ Grows
<1>1. CASE UNCHANGED vars
  <2> USE DEF Inv
  <2>1. Grows /\ ConfigInv' /\ NewInv'
    BY <1>1, GrowsElsewhere, ConfigElsewhere, NewElsewhere
       DEF vars, membershipVars
  <2>2. TypeOK'
    BY <1>1 DEF TypeOK, vars, membershipVars, current
  <2>3. WriteInv'
    <3>1. /\ \A x \in pending' \cup jobs' \cup puts' : x.node \in up'
          /\ forwards' = forwards /\ puts' = puts /\ pending' = pending
          /\ jobs' = jobs /\ commitAcks' = commitAcks /\ writeAcks' = writeAcks
      BY <1>1 DEF vars, membershipVars, WriteInv, HeldBy, JobFine, PutFine
    <3> QED  BY <2>1, <3>1, WritesKept
  <2>4. StoreInv'
    BY <1>1, <2>1, StoresKept DEF vars
  <2> QED  BY <2>1, <2>2, <2>3, <2>4
<1>2. CASE Reconfiguration
  BY <1>2, RemoveServerStep, LearnStep, UpdateStep, SetEpochStep
     DEF Reconfiguration
<1>3. CASE \E p \in puts : HandlePut(p)
  BY <1>3, AssignStep, StoreForwardedStep, CommitStep, PassOnStep
     DEF HandlePut
<1>4. CASE Replication
  BY <1>3, <1>4, ForwardStep, AckStep, CollectStep, ReForwardStep
     DEF Replication
<1>5. CASE \E r \in Request, e \in 1..current : Put(r, e)
  BY <1>5, PutStep
<1>6. CASE \E n \in Server : Crash(n)
  BY <1>6, CrashStep
<1>7. CASE Lose
  BY <1>7, LoseStep
<1> QED  BY <1>1, <1>2, <1>4, <1>5, <1>6, <1>7 DEF Next

LEMMA Invariant == Spec => []Inv
<1>1. Inv /\ [Next]_vars => Inv'
  BY NextInv
<1> QED  BY InitInv, <1>1, PTL DEF Spec

\* Every server's state, and every message and thread, is well formed: rings
\* stay rings of servers, and the epochs never run ahead of the metadata store.
THEOREM FailoverTypes == Spec => []TypeOK
<1>1. Inv => TypeOK
  BY DEF Inv
<1> QED  BY Invariant, <1>1, PTL

\* The version that a CommitAck was sent for is on every server that runs,
\* dirty or overtaken by a committed one: handle_put forwards only along the
\* ring, and a ring loses crashed servers only.
VersionSurvives ==
  \A ack \in commitAcks, n \in up : holds(store[n], ack.version)

\* An acknowledged version survives every sequence of crashes, whatever is
\* lost or sent again and whoever is head meanwhile.
THEOREM AckedVersionSurvives == Spec => []VersionSurvives
<1>1. Inv => VersionSurvives
  BY DEF Inv, WriteInv, CommitAckFine, VersionSurvives
<1> QED  BY Invariant, <1>1, PTL

\* A server that runs is in the ring of every other, whatever configuration
\* that one has come to: nobody is passed by but the crashed.
NobodyPassedBy == \A n \in Server : up \subseteq ToSet(ring[n].members)

THEOREM RingsHaveTheRunning == Spec => []NobodyPassedBy
<1>1. Inv => NobodyPassedBy
  BY DEF Inv, ConfigInv, RingOf, NobodyPassedBy
<1> QED  BY Invariant, <1>1, PTL

-----------------------------------------------------------------------------
(***************************************************************************)
(* A version is one write's as long as one head gives versions.  A head    *)
(* that takes over may give the version of a write that is still on its    *)
(* way: the run failover_versions shows it.                                *)
(***************************************************************************)
OneHead == LastPutEpoch <= 1 \/ \A r, s \in Request : r = s

HeadInv ==
  /\ \A r, s \in Request : assigned[r] # 0 /\ assigned[r] = assigned[s] => r = s
  /\ LastPutEpoch <= 1 =>
       /\ \A p \in puts : p.version = 0 => p.node = Head(Ring)
       /\ Head(Ring) \in up =>
            \A r \in Request :
              assigned[r] # 0 => holds(store[Head(Ring)], assigned[r])

LEMMA HeadElsewhere ==
  ASSUME Inv, HeadInv, Grows, UNCHANGED assigned,
         \A p \in puts' \ puts : p.version # 0
  PROVE  HeadInv'
<1>1. \A r \in Request : assigned[r] # 0 => assigned[r] \in Version
  BY Positive DEF Inv, TypeOK
<1> QED  BY <1>1 DEF HeadInv, Grows

LEMMA HeadAssigns ==
  ASSUME OneHead, Inv, HeadInv, Grows, NEW p \in puts, AssignVersion(p)
  PROVE  HeadInv'
<1> DEFINE n == p.node
           v == get_latest_version(store[n]) + 1
<1>1. p.version = 0 /\ v <= MaxVersion /\ UNCHANGED up
  BY DEF AssignVersion, membershipVars
<1>2. /\ n \in Server /\ p.request \in Request /\ store[n] \in Store
      /\ store \in [Server -> Store] /\ assigned \in [Request -> 0..MaxVersion]
  BY DEF Inv, TypeOK, PutThread
<1>3. CASE ~is_head(ring[n].members, n)
  BY <1>3, HeadElsewhere DEF AssignVersion
<1>4. CASE is_head(ring[n].members, n)
  <2> DEFINE t == put_new(store[n], p.request)
  <2>1. /\ v \in Version /\ t \in Store /\ holds(t, v)
        /\ \A w \in Version : holds(store[n], w) => holds(t, w)
    BY <1>1, <1>2, PutNew, PutNewHeld DEF Request
  <2>2. v # 0
    BY <2>1, Positive
  <2>3. \A w \in Version : holds(store[n], w) => w # v
    <3> TAKE w \in Version
    <3> HAVE holds(store[n], w)
    <3>1. w <= get_latest_version(store[n])
      BY <1>2, HeldUpToLatest
    <3>2. w \in Nat /\ get_latest_version(store[n]) \in Nat
      BY <1>2, LatestVersion, VersionsOf
    <3> QED  BY <3>1, <3>2
  <2>4. PICK q : q = [p EXCEPT !.version = v, !.stale = FALSE,
                               !.step = "stored", !.members = ring[n].members]
    OBVIOUS
  <2>5. /\ store' = [store EXCEPT ![n] = t]
        /\ assigned' = [assigned EXCEPT ![p.request] = v]
        /\ puts' = (puts \ {p}) \cup {q}
    BY <1>4, <2>4 DEF AssignVersion, Stored
  <2>6. q.version = v
    BY <2>4 DEF Inv, TypeOK, PutThread
  <2> HIDE DEF n, v, t
  <2>7. /\ store'[n] = t /\ assigned'[p.request] = v
        /\ \A r \in Request : r # p.request => assigned'[r] = assigned[r]
    BY <1>2, <2>5
  <2>8. \A r \in Request : assigned[r] # 0 => assigned[r] \in Version
    BY <1>2, Positive
  <2>9. LastPutEpoch <= 1 =>
          /\ n = Head(Ring) /\ n \in up
          /\ \A r \in Request : assigned[r] # 0 =>
               holds(store[n], assigned[r]) /\ assigned[r] # v
    BY <1>1, <2>3, <2>8 DEF HeadInv, Inv, WriteInv, PutFine, n
  <2>10. \A r, s \in Request :
           assigned'[r] # 0 /\ assigned'[r] = assigned'[s] => r = s
    BY <2>2, <2>7, <2>9 DEF OneHead, HeadInv
  <2>11. ASSUME LastPutEpoch <= 1
         PROVE  /\ \A x \in puts' : x.version = 0 => x.node = Head(Ring)
                /\ \A r \in Request :
                     assigned'[r] # 0 => holds(store'[n], assigned'[r])
    BY <2>1, <2>2, <2>5, <2>6, <2>7, <2>8, <2>9, <2>11 DEF HeadInv
  <2> QED  BY <2>9, <2>10, <2>11 DEF HeadInv
<1> QED  BY <1>3, <1>4

LEMMA HeadWrites ==
  ASSUME Inv, HeadInv, Grows, NEW r \in Request, NEW e \in 1..current, Put(r, e)
  PROVE  HeadInv'
<1> DEFINE p == [node |-> Head(configs[e]), request |-> r, version |-> 0,
                 step |-> "accepted", stale |-> FALSE, members |-> <<>>]
<1>1. e <= LastPutEpoch /\ puts' = puts \cup {p} /\ UNCHANGED assigned
  BY DEF Put, Enter
<1>2. LastPutEpoch <= 1 => p.node = Head(Ring)
  <2>1. e \in Nat /\ e >= 1 /\ LastPutEpoch \in Nat
    BY Numbers DEF Inv, TypeOK
  <2> QED  BY <1>1, <2>1 DEF Inv, ConfigInv
<1>3. \A s \in Request : assigned[s] # 0 => assigned[s] \in Version
  BY Positive DEF Inv, TypeOK
<1> HIDE DEF p
<1> QED  BY <1>1, <1>2, <1>3 DEF HeadInv, Grows

\* Only a head's put gives a version, and only a client's write has none.
LEMMA OtherSteps ==
  ASSUME Inv, [Next]_vars
  PROVE  \/ \E p \in puts : AssignVersion(p)
         \/ \E r \in Request, e \in 1..current : Put(r, e)
         \/ UNCHANGED assigned /\ \A p \in puts' \ puts : p.version # 0
<1> DEFINE Other == UNCHANGED assigned /\ \A p \in puts' \ puts : p.version # 0
<1>1. ASSUME NEW m \in forwards, ForwardPut(m) PROVE Other
  <2>1. m.version # 0
    BY Positive DEF Inv, TypeOK, Forward
  <2> QED  BY <1>1, <2>1 DEF ForwardPut, Enter
<1>2. ASSUME NEW p \in puts, StoreForwarded(p) PROVE Other
  <2>1. \A q \in puts' \ puts : q.version = p.version
    BY <1>2 DEF StoreForwarded, Stored, Inv, TypeOK, PutThread
  <2> QED  BY <1>2, <2>1 DEF StoreForwarded
<1>3. ASSUME NEW p \in puts, CommitAtTail(p) \/ PassOn(p) PROVE Other
  BY <1>3 DEF CommitAtTail, PassOn
<1>4. CASE UNCHANGED vars
  BY <1>4 DEF vars
<1>5. CASE Reconfiguration
  BY <1>5 DEF Reconfiguration, RemoveServer, LearnEpoch, UpdateMembership,
              SetEpoch
<1>6. ASSUME \/ \E a \in writeAcks : SendWriteAck(a)
             \/ \E e \in pending : CollectExpired(e)
             \/ \E j \in jobs : ReForward(j)
      PROVE  Other
  BY <1>6 DEF SendWriteAck, CollectExpired, ReForward
<1>7. ASSUME (\E n \in Server : Crash(n)) \/ Lose PROVE Other
  BY <1>7 DEF Crash, Lose
<1> HIDE DEF Other
<1>8. CASE Replication
  BY <1>1, <1>2, <1>3, <1>6, <1>8 DEF Replication, HandlePut, Other
<1> QED  BY <1>4, <1>5, <1>7, <1>8 DEF Next, Other

LEMMA HeadNext ==
  ASSUME OneHead, Inv, HeadInv, [Next]_vars
  PROVE  HeadInv'
<1>1. Grows
  BY NextInv
<1> QED  BY <1>1, OtherSteps, HeadAssigns, HeadWrites, HeadElsewhere

LEMMA HeadInvariant ==
  ASSUME OneHead
  PROVE  Spec => [](Inv /\ HeadInv)
<1>1. Init => HeadInv
  BY DEF Init, HeadInv
<1>2. (Inv /\ HeadInv) /\ [Next]_vars => (Inv /\ HeadInv)'
  BY NextInv, HeadNext
<1> QED  BY InitInv, <1>1, <1>2, PTL DEF Spec

\* With a version of its own, what the stores have under a version is the
\* write that was given it.
LEMMA AckedIsHeld ==
  ASSUME Inv, HeadInv
  PROVE  AckedSurvives
<1> SUFFICES ASSUME NEW k \in commitAcks, NEW n \in up
             PROVE  has(store[n], k.request, k.version)
  BY DEF AckedSurvives
<1> DEFINE s == store[n]
           v == k.version
<1>1. /\ k.request \in Request /\ v \in Version /\ v \in Nat /\ v # 0
      /\ s \in Store /\ n \in Server
      /\ assigned[k.request] = v /\ holds(s, v) /\ StoreFine(s)
  BY Numbers DEF Inv, TypeOK, WriteInv, CommitAckFine, StoreInv
<1>2. /\ s.clean.version \in Nat
      /\ s.dirty \in [Version -> Value \cup {NoValue}]
      /\ s.clean.version # 0 => s.clean.value \in Request
  BY <1>1, VersionsOf DEF Store, Record, Request
<1> HIDE DEF s, v
<1>3. \A r \in Request : assigned[r] = v => r = k.request
  BY <1>1 DEF HeadInv
<1>4. CASE s.dirty[v] # NoValue
  <2>1. s.dirty[v] \in Request /\ assigned[s.dirty[v]] = v
    BY <1>1, <1>2, <1>4 DEF StoreFine, Request
  <2> QED  BY <1>3, <2>1 DEF has, s, v
<1>5. CASE s.clean.version = v
  <2>1. s.clean.value \in Request /\ assigned[s.clean.value] = v
    BY <1>1, <1>2, <1>5 DEF StoreFine
  <2> QED  BY <1>3, <1>5, <2>1 DEF has, s, v
<1>6. CASE s.clean.version > v
  BY <1>6 DEF has, s, v
<1> QED  BY <1>1, <1>2, <1>4, <1>5, <1>6 DEF holds

LEMMA CleanIsAcked ==
  ASSUME Inv, HeadInv
  PROVE  CleanWasAcked
<1> SUFFICES ASSUME NEW n \in up, store[n].clean.version # 0
             PROVE  [request |-> store[n].clean.value,
                     version |-> store[n].clean.version] \in commitAcks
  BY DEF CleanWasAcked
<1> DEFINE c == store[n].clean
<1>1. n \in Server /\ store[n] \in Store /\ StoreFine(store[n])
  BY DEF Inv, TypeOK, StoreInv
<1>2. c.value \in Request /\ assigned[c.value] = c.version
  BY <1>1 DEF Store, Record, Request, StoreFine
<1>3. PICK k \in commitAcks : k.version = c.version
  BY <1>1 DEF StoreFine
<1>4. /\ k \in [request : Request, version : Version]
      /\ assigned[k.request] = k.version
  BY DEF Inv, TypeOK, WriteInv, CommitAckFine
<1>5. k.request = c.value
  BY <1>2, <1>3, <1>4 DEF HeadInv
<1>6. k = [request |-> c.value, version |-> c.version]
  BY <1>3, <1>4, <1>5
<1> QED  BY <1>3, <1>6

LEMMA OneRecord ==
  ASSUME Inv, HeadInv
  PROVE  RecordsAgree
<1>1. ASSUME NEW n \in up, NEW v \in Version,
             record(store[n], v) # NoValue
      PROVE  /\ record(store[n], v) \in Request
             /\ assigned[record(store[n], v)] = v
  <2> DEFINE s == store[n]
  <2>1. n \in Server /\ s \in Store /\ StoreFine(s) /\ v # 0
    BY Numbers DEF Inv, TypeOK, StoreInv
  <2>2. /\ s.dirty \in [Version -> Value \cup {NoValue}]
        /\ s.clean.version # 0 => s.clean.value \in Request
    BY <2>1, VersionsOf DEF Store, Record, Request
  <2> HIDE DEF s
  <2> QED  BY <1>1, <2>1, <2>2 DEF record, StoreFine, Request, s
<1>2. \A v \in Version : v # 0
  BY Numbers
<1> QED  BY <1>1, <1>2 DEF RecordsAgree, HeadInv

\* While one head gives the versions, a write whose client was told of its
\* commit is on every server that runs, whatever crashes, gets lost or is sent
\* again.
THEOREM AckedWriteSurvives ==
  ASSUME OneHead
  PROVE  Spec => []AckedSurvives
BY HeadInvariant, AckedIsHeld, PTL

\* While one head gives the versions, nothing is committed anywhere that the
\* tail of some ring has not acknowledged.
THEOREM CommittedWasAcked ==
  ASSUME OneHead
  PROVE  Spec => []CleanWasAcked
BY HeadInvariant, CleanIsAcked, PTL

\* While one head gives the versions, two servers never hold different writes
\* under one version: what the run failover_versions shows takes two heads.
THEOREM OneHeadRecordsAgree ==
  ASSUME OneHead
  PROVE  Spec => []RecordsAgree
BY HeadInvariant, OneRecord, PTL

==============================================================================

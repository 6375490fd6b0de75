----------------------------- MODULE Craq_proofs -----------------------------
(***************************************************************************)
(* The safety of CRAQ's and CROWN's writes and reads, for every ring size, *)
(* set of keys, of requests and of readers, placement of the heads, number *)
(* of retries and of faults.                                               *)
(*                                                                         *)
(* The argument has three layers.  The first needs nothing of request ids: *)
(* everything a server works on carries the version its head assigned and  *)
(* is held by that server, and because mark_clean is only called for a     *)
(* version held, it never forgets another one.  The second, that an ack on *)
(* its way means a commit at the tail and at the server that sent it, needs*)
(* every request to have an id of its own: acks carry nothing else.  The   *)
(* third is about the reads.                                               *)
(***************************************************************************)
EXTENDS CraqReads, KVStoreLemmas, FiniteSetTheorems

\* Whatever a server works on carries the version assigned to the request.
Stamped ==
  \A x \in forwards \cup pending \cup puts \cup acking \cup expired :
    x.version = assigned[x.request]

\* ... and is held by the server, from the moment it has stored it.
WorkHeld ==
  /\ \A x \in pending \cup acking \cup expired :
       holds(store[x.node][KeyOf[x.request]], x.version)
  /\ \A p \in puts :
       p.step = "finish" => holds(store[p.node][KeyOf[p.request]], p.version)

\* What a handler found stale stays committed.
StaleCommitted ==
  \A p \in puts :
    p.stale => store[p.node][KeyOf[p.request]].clean.version >= p.version

\* The head holds every version it has given.
HeadHolds ==
  \A r \in Request :
    assigned[r] # 0
      => holds(store[head_index(KeyOf[r])][KeyOf[r]], assigned[r])

WriteInv ==
  /\ TypeOK
  /\ Stamped
  /\ WorkHeld
  /\ StaleCommitted
  /\ HeadHolds
  /\ CommitAckedAtTail
  /\ RecordsAgree
  /\ VersionsUnique

DistinctIds == \A r, s \in Request : IdOf[r] = IdOf[s] => r = s

\* Version v of key k is committed at the tail, and at the successor of n.
CommittedBeyond(n, k, v) ==
  /\ tail_version(k) >= v
  /\ store[next_index(n)][k].clean.version >= v

AcksCommitted ==
  /\ \A a \in writeAcks, r \in Request :
       IdOf[r] = a.id =>
         /\ assigned[r] # 0
         /\ CommittedBeyond(a.to, KeyOf[r], assigned[r])
  /\ \A j \in acking : CommittedBeyond(j.node, KeyOf[j.request], j.version)

AckInv == AcksCommitted /\ CleanBelowTail

-----------------------------------------------------------------------------
LEMMA Ring ==
  /\ \A n \in Node : /\ next_index(n) \in Node
                     /\ prev_index(n) \in Node
                     /\ next_index(prev_index(n)) = n
  /\ \A k \in Key : head_index(k) \in Node /\ tail_index(k) \in Node
  /\ \A r \in Request : KeyOf[r] \in Key
<1>1. \A n \in Node : /\ next_index(n) \in Node
                      /\ prev_index(n) \in Node
                      /\ next_index(prev_index(n)) = n
  BY ReplicationAssumption DEF Node, next_index, prev_index
<1> QED
  BY <1>1, ReplicationAssumption DEF head_index, tail_index

LEMMA Numbers ==
  /\ MaxVersion \in Nat
  /\ Version \subseteq Nat
  /\ Version \subseteq 0..MaxVersion
  /\ 0 \notin Version
  /\ \A s \in Store : s.clean.version \in 0..MaxVersion
  /\ \A s \in Store : s.clean.version \in Nat
  BY KVStoreAssumption DEF Version, Store, Record

StoreType == store \in [Node -> [Key -> Store]]

LEMMA StoreUpdate ==
  ASSUME StoreType, NEW n \in Node, NEW k \in Key, NEW s \in Store,
         store' = [store EXCEPT ![n][k] = s]
  PROVE  /\ StoreType'
         /\ \A m \in Node, l \in Key :
              store'[m][l] = IF m = n /\ l = k THEN s ELSE store[m][l]
  BY DEF StoreType

\* A step's effect on the stores: committed versions do not go back and no
\* version held is forgotten.
Grows ==
  \A n \in Node, k \in Key :
    /\ store'[n][k].clean.version >= store[n][k].clean.version
    /\ \A v \in Version : holds(store[n][k], v) => holds(store'[n][k], v)

LEMMA GrowsByOne ==
  ASSUME StoreType, NEW n \in Node, NEW k \in Key, NEW s \in Store,
         store' = [store EXCEPT ![n][k] = s],
         s.clean.version >= store[n][k].clean.version,
         \A v \in Version :
           holds(store[n][k], v) => holds(s, v)
  PROVE  Grows
<1>1. \A m \in Node, l \in Key :
        store'[m][l] = IF m = n /\ l = k THEN s ELSE store[m][l]
  BY StoreUpdate
<1>2. \A m \in Node, l \in Key : store[m][l] \in Store
  BY DEF StoreType
<1> QED
  BY <1>1, <1>2, Numbers DEF Grows, holds

-----------------------------------------------------------------------------
\* What a step does to the stores, action by action.
LEMMA ClientPutGrows ==
  ASSUME TypeOK, NEW r \in Request, HandleClientPut(r)
  PROVE  /\ StoreType' /\ Grows
         /\ assigned'[r] \in Version
         /\ assigned' = [assigned EXCEPT ![r] = assigned'[r]]
         /\ puts' = puts \cup
              {[node |-> head_index(KeyOf[r]), request |-> r,
                version |-> assigned'[r], stale |-> FALSE, step |-> "finish"]}
         /\ holds(store'[head_index(KeyOf[r])][KeyOf[r]], assigned'[r])
         /\ \A v \in Version :
              holds(store[head_index(KeyOf[r])][KeyOf[r]], v)
                => v < assigned'[r]
         /\ \A m \in Node, l \in Key :
              /\ store'[m][l].clean = store[m][l].clean
              /\ store'[m][l].dirty =
                   IF m = head_index(KeyOf[r]) /\ l = KeyOf[r]
                   THEN [store[m][l].dirty EXCEPT ![assigned'[r]] = r]
                   ELSE store[m][l].dirty
<1>1. PICK k \in Key, n \in Node : k = KeyOf[r] /\ n = head_index(k)
  BY Ring
<1>2. store[n][k] \in Store
  BY DEF TypeOK
<1>3. PICK v \in Nat : v = get_latest_version(store[n][k]) + 1
  BY <1>2, LatestVersion, Numbers
<1>4. /\ v <= MaxVersion
      /\ store' = [store EXCEPT ![n][k] = put_new(store[n][k], r)]
      /\ assigned' = [assigned EXCEPT ![r] = v]
      /\ puts' = puts \cup {[node |-> n, request |-> r, version |-> v,
                             stale |-> FALSE, step |-> "finish"]}
  BY <1>1, <1>3 DEF HandleClientPut
<1>5. /\ v \in Version
      /\ put_new(store[n][k], r) \in Store
      /\ put_new(store[n][k], r).clean = store[n][k].clean
      /\ put_new(store[n][k], r).dirty = [store[n][k].dirty EXCEPT ![v] = r]
  BY <1>2, <1>3, <1>4, PutNew DEF Request
<1>6. assigned'[r] = v
  BY <1>4 DEF TypeOK
<1>7. r # NoValue /\ store[n][k].dirty \in [Version -> Value \cup {NoValue}]
  BY <1>2, KVStoreAssumption DEF Request, Store
<1>8. \A w \in Version : holds(store[n][k], w) => w < v
  <2>1. /\ get_latest_version(store[n][k]) \in Nat
        /\ store[n][k].clean.version \in Nat
        /\ store[n][k].clean.version <= get_latest_version(store[n][k])
        /\ \A w \in dirty_versions(store[n][k]) :
             w <= get_latest_version(store[n][k])
    BY <1>2, LatestVersion, Numbers
  <2> SUFFICES ASSUME NEW w \in Version, holds(store[n][k], w) PROVE w < v
    OBVIOUS
  <2>2. CASE store[n][k].clean.version >= w
    BY <2>1, <2>2, <1>3, Numbers
  <2>3. CASE w \in dirty_versions(store[n][k])
    BY <2>1, <2>3, <1>3, Numbers
  <2> QED
    BY <2>2, <2>3 DEF holds, dirty_versions
<1>9. /\ StoreType'
      /\ \A m \in Node, l \in Key :
           store'[m][l] = IF m = n /\ l = k THEN put_new(store[n][k], r)
                                            ELSE store[m][l]
  BY <1>4, <1>5, StoreUpdate DEF TypeOK, StoreType
<1>10. \A w \in Version :
         /\ store[n][k].dirty[w] # NoValue
              => put_new(store[n][k], r).dirty[w] # NoValue
         /\ put_new(store[n][k], r).dirty[v] # NoValue
  BY <1>5, <1>7
<1>11. Grows
  <2>1. put_new(store[n][k], r).clean.version >= store[n][k].clean.version
    BY <1>2, <1>5, Numbers
  <2>2. \A w \in Version :
          holds(store[n][k], w) => holds(put_new(store[n][k], r), w)
    BY <1>5, <1>10 DEF holds
  <2> QED
    BY <1>4, <1>5, <2>1, <2>2, GrowsByOne DEF TypeOK, StoreType
<1>12. holds(store'[n][k], v)
  BY <1>5, <1>9, <1>10 DEF holds
<1>13. \A m \in Node, l \in Key :
         /\ store'[m][l].clean = store[m][l].clean
         /\ store'[m][l].dirty = IF m = n /\ l = k
                                 THEN [store[m][l].dirty EXCEPT ![v] = r]
                                 ELSE store[m][l].dirty
  BY <1>5, <1>9
<1>14. v \in Version /\ assigned' = [assigned EXCEPT ![r] = assigned'[r]]
  BY <1>4, <1>5, <1>6
<1> QED
  BY <1>1, <1>4, <1>6, <1>8, <1>9, <1>11, <1>12, <1>13, <1>14

LEMMA StoreForwardedGrows ==
  ASSUME TypeOK, NEW p \in puts, StoreForwardedPut(p)
  PROVE  /\ StoreType' /\ Grows
         /\ holds(store'[p.node][KeyOf[p.request]], p.version)
         /\ \A m \in Node, l \in Key :
              /\ store'[m][l].clean = store[m][l].clean
              /\ \A w \in Version :
                   \/ store'[m][l].dirty[w] = store[m][l].dirty[w]
                   \/ /\ m = p.node /\ l = KeyOf[p.request] /\ w = p.version
                      /\ store'[m][l].dirty[w] = p.request
<1> DEFINE k == KeyOf[p.request]
           n == p.node
           v == p.version
           s == put(store[n][k], p.request, v)
<1>1. /\ p.request \in Request /\ p.request # NoValue
      /\ n \in Node /\ k \in Key /\ v \in Version
      /\ store[n][k] \in Store
  BY Ring, KVStoreAssumption DEF TypeOK, PutThread, Request
<1>2. store' = [store EXCEPT ![n][k] = s]
  BY DEF StoreForwardedPut
<1>3. /\ s \in Store
      /\ s.clean = store[n][k].clean
      /\ \A w \in Version : s.dirty[w] =
           IF w = v /\ store[n][k].clean.version < v
           THEN p.request ELSE store[n][k].dirty[w]
  BY <1>1, ForwardedPut DEF Request
<1> HIDE DEF k, n, v, s
<1>4. /\ StoreType'
      /\ \A m \in Node, l \in Key :
           store'[m][l] = IF m = n /\ l = k THEN s ELSE store[m][l]
  BY <1>1, <1>2, <1>3, StoreUpdate DEF TypeOK, StoreType
<1>5. Grows
  <2>1. s.clean.version >= store[n][k].clean.version
    BY <1>1, <1>3, Numbers
  <2>2. \A w \in Version : holds(store[n][k], w) => holds(s, w)
    BY <1>1, <1>3 DEF holds
  <2> QED
    BY <1>1, <1>2, <1>3, <2>1, <2>2, GrowsByOne DEF TypeOK, StoreType
<1>6. holds(store'[n][k], v)
  <2>1. holds(s, v)
    BY <1>1, <1>3, Numbers DEF holds
  <2> QED
    BY <1>1, <1>4, <2>1
<1>7. \A m \in Node, l \in Key :
        /\ store'[m][l].clean = store[m][l].clean
        /\ \A w \in Version :
             \/ store'[m][l].dirty[w] = store[m][l].dirty[w]
             \/ /\ m = n /\ l = k /\ w = v
                /\ store'[m][l].dirty[w] = p.request
  BY <1>3, <1>4
<1> QED
  BY <1>4, <1>5, <1>6, <1>7 DEF n, k, v

\* Both commits, the tail's and that of an ack, are a mark_clean of a version
\* held.
Commits(n, k, v) ==
  store' = [store EXCEPT ![n][k] = mark_clean(store[n][k], v)]

LEMMA CommitGrows ==
  ASSUME StoreType, NEW n \in Node, NEW k \in Key, NEW v \in Version,
         holds(store[n][k], v), Commits(n, k, v)
  PROVE  /\ StoreType' /\ Grows
         /\ store'[n][k].clean.version >= v
         /\ \A m \in Node, l \in Key :
              /\ \/ store'[m][l].clean = store[m][l].clean
                 \/ /\ m = n /\ l = k
                    /\ store[m][l].dirty[v] # NoValue
                    /\ store'[m][l].clean =
                         [version |-> v, value |-> store[m][l].dirty[v]]
              /\ \A w \in Version :
                   \/ store'[m][l].dirty[w] = store[m][l].dirty[w]
                   \/ store'[m][l].dirty[w] = NoValue
<1> DEFINE s == mark_clean(store[n][k], v)
<1>1. store[n][k] \in Store
  BY DEF StoreType
<1>2. /\ s \in Store
      /\ s.clean.version >= v
      /\ s.clean.version >= store[n][k].clean.version
      /\ \A w \in Version : holds(store[n][k], w) => holds(s, w)
  BY <1>1, MarkCleanHeld DEF holds
<1>3. /\ \/ s.clean = store[n][k].clean
         \/ /\ store[n][k].dirty[v] # NoValue
            /\ s.clean = [version |-> v, value |-> store[n][k].dirty[v]]
      /\ \A w \in Version : s.dirty[w] =
           IF w <= v THEN NoValue ELSE store[n][k].dirty[w]
  BY <1>1, MarkClean
<1> HIDE DEF s
<1>4. store' = [store EXCEPT ![n][k] = s]
  BY DEF s, Commits
<1>5. /\ StoreType'
      /\ \A m \in Node, l \in Key :
           store'[m][l] = IF m = n /\ l = k THEN s ELSE store[m][l]
  BY <1>2, <1>4, StoreUpdate DEF StoreType
<1>6. Grows
  BY <1>2, <1>4, GrowsByOne
<1> QED
  BY <1>2, <1>3, <1>5, <1>6

LEMMA SameStoreGrows ==
  ASSUME StoreType, UNCHANGED store
  PROVE  StoreType' /\ Grows
<1>1. \A n \in Node, k \in Key : store[n][k].clean.version \in Nat
  BY Numbers DEF StoreType
<1> QED
  BY <1>1 DEF StoreType, Grows, holds

-----------------------------------------------------------------------------
\* add_to_pending_acks leaves one entry of the request and touches only
\* entries of the same server under the same id.
LEMMA AddPending ==
  ASSUME pending \subseteq PendingEntry, NEW n \in Node, NEW r \in Request,
         NEW v \in Version, add_to_pending_acks(n, r, v)
  PROVE  /\ pending' \subseteq PendingEntry
         /\ \A e \in pending' :
              \/ e \in pending
              \/ e.node = n /\ e.request = r /\ e.version = v
         /\ \A e \in pending :
              \/ e \in pending'
              \/ e.node = n /\ IdOf[e.request] = IdOf[r]
         /\ \E e \in pending' : e.node = n /\ e.request = r
<1> DEFINE old == pending_of(n, IdOf[r])
           retries == IF old = {} THEN 0 ELSE (CHOOSE e \in old : TRUE).retries
           new == [node |-> n, request |-> r, version |-> v,
                   retries |-> retries]
<1>1. pending' = (pending \ old) \cup {new}
  BY DEF add_to_pending_acks
<1>2. old \subseteq PendingEntry
  BY DEF pending_of
<1>3. retries \in 0..MaxRetryCount
  <2>1. CASE old = {}
    BY <2>1, ReplicationAssumption
  <2>2. CASE old # {}
    <3>1. (CHOOSE e \in old : TRUE) \in old
      BY <2>2
    <3> QED
      BY <3>1, <2>2, <1>2 DEF PendingEntry
  <2> QED
    BY <2>1, <2>2
<1>4. new \in PendingEntry
  BY <1>3 DEF PendingEntry
<1>5. \A e \in old : e.node = n /\ IdOf[e.request] = IdOf[r]
  BY DEF pending_of
<1> HIDE DEF old, retries
<1> QED
  BY <1>1, <1>4, <1>5

LEMMA ForwardPut ==
  ASSUME TypeOK, NEW n \in Node, NEW r \in Request, NEW v \in Version,
         forward_put(n, r, v)
  PROVE  /\ pending' \subseteq PendingEntry
         /\ \A e \in pending' :
              \/ e \in pending
              \/ e.node = n /\ e.request = r /\ e.version = v
         /\ \A e \in pending :
              \/ e \in pending'
              \/ e.node = n /\ IdOf[e.request] = IdOf[r]
         /\ \E e \in pending' : e.node = n /\ e.request = r
         /\ forwards' \subseteq Forward
         /\ \A m \in forwards' :
              m \in forwards \/ (m.request = r /\ m.version = v)
<1>1. add_to_pending_acks(n, r, v)
  BY DEF forward_put
<1>2. forwards' = forwards \cup
        {[to |-> next_index(n), request |-> r, version |-> v]}
  BY DEF forward_put
<1>3. [to |-> next_index(n), request |-> r, version |-> v] \in Forward
  BY Ring DEF Forward
<1>4. pending \subseteq PendingEntry /\ forwards \subseteq Forward
  BY DEF TypeOK
<1>5. /\ pending' \subseteq PendingEntry
      /\ \A e \in pending' :
           \/ e \in pending
           \/ e.node = n /\ e.request = r /\ e.version = v
      /\ \A e \in pending :
           \/ e \in pending'
           \/ e.node = n /\ IdOf[e.request] = IdOf[r]
      /\ \E e \in pending' : e.node = n /\ e.request = r
  BY <1>1, <1>4, AddPending
<1>6. /\ forwards' \subseteq Forward
      /\ \A m \in forwards' :
           m \in forwards \/ (m.request = r /\ m.version = v)
  BY <1>2, <1>3, <1>4
<1> QED
  BY <1>5, <1>6

\* The records of the work sets, field by field.
LEMMA Fields ==
  ASSUME TypeOK
  PROVE  /\ \A x \in pending \cup acking \cup expired \cup puts :
              /\ x.node \in Node /\ x.request \in Request
              /\ x.version \in Version /\ KeyOf[x.request] \in Key
         /\ \A m \in forwards :
              /\ m.to \in Node /\ m.request \in Request
              /\ m.version \in Version /\ KeyOf[m.request] \in Key
         /\ \A c \in commitAcks :
              /\ c.request \in Request /\ c.version \in Version
              /\ KeyOf[c.request] \in Key
              /\ tail_index(KeyOf[c.request]) \in Node
         /\ \A p \in puts : p.stale \in BOOLEAN
  BY Ring DEF TypeOK, PendingEntry, Job, PutThread, Forward, CommitAck

\* What the invariant says of the work at hand survives whatever a step does
\* to the stores.
LEMMA Carried ==
  ASSUME WriteInv, StoreType', Grows
  PROVE  /\ \A x \in pending \cup acking \cup expired :
              holds(store'[x.node][KeyOf[x.request]], x.version)
         /\ \A p \in puts : p.step = "finish" =>
              holds(store'[p.node][KeyOf[p.request]], p.version)
         /\ \A p \in puts : p.stale =>
              store'[p.node][KeyOf[p.request]].clean.version >= p.version
         /\ \A r \in Request : assigned[r] # 0 =>
              holds(store'[head_index(KeyOf[r])][KeyOf[r]], assigned[r])
         /\ \A c \in commitAcks :
              store'[tail_index(KeyOf[c.request])][KeyOf[c.request]]
                .clean.version >= c.version
<1>1. TypeOK /\ StoreType
  BY DEF WriteInv, TypeOK, StoreType
<1>2. \A n \in Node, k \in Key, v \in Version :
        /\ holds(store[n][k], v) => holds(store'[n][k], v)
        /\ store[n][k].clean.version >= v => store'[n][k].clean.version >= v
  <2>1. \A n \in Node, k \in Key : /\ store[n][k].clean.version \in Nat
                                   /\ store'[n][k].clean.version \in Nat
    BY <1>1, Numbers DEF StoreType
  <2>2. \A n \in Node, k \in Key :
          store'[n][k].clean.version >= store[n][k].clean.version
    BY DEF Grows
  <2>3. \A n \in Node, k \in Key, v \in Version :
          store[n][k].clean.version >= v => store'[n][k].clean.version >= v
    BY <2>1, <2>2, Numbers
  <2> QED
    BY <2>3 DEF Grows
<1>3. \A x \in pending \cup acking \cup expired :
        holds(store'[x.node][KeyOf[x.request]], x.version)
  BY <1>1, <1>2, Fields DEF WriteInv, WorkHeld
<1>4. \A p \in puts : p.step = "finish" =>
        holds(store'[p.node][KeyOf[p.request]], p.version)
  BY <1>1, <1>2, Fields DEF WriteInv, WorkHeld
<1>5. \A p \in puts : p.stale =>
        store'[p.node][KeyOf[p.request]].clean.version >= p.version
  BY <1>1, <1>2, Fields DEF WriteInv, StaleCommitted
<1>6. \A r \in Request : assigned[r] # 0 =>
        holds(store'[head_index(KeyOf[r])][KeyOf[r]], assigned[r])
  <2>1. \A r \in Request : assigned[r] # 0 => assigned[r] \in Version
    BY <1>1, KVStoreAssumption DEF TypeOK, Version
  <2> QED
    BY <2>1, <1>2, Ring DEF WriteInv, HeadHolds
<1>7. \A c \in commitAcks :
        store'[tail_index(KeyOf[c.request])][KeyOf[c.request]]
          .clean.version >= c.version
  BY <1>1, <1>2, Fields DEF WriteInv, CommitAckedAtTail, tail_version
<1> QED
  BY <1>3, <1>4, <1>5, <1>6, <1>7

-----------------------------------------------------------------------------
\* Steps that leave stores and assigned versions alone.
LEMMA SameStore ==
  ASSUME WriteInv, UNCHANGED <<store, assigned>>
  PROVE  /\ StoreType' /\ Grows
         /\ HeadHolds' /\ RecordsAgree' /\ VersionsUnique'
<1>1. StoreType' /\ Grows
  BY SameStoreGrows DEF WriteInv, TypeOK, StoreType
<1>2. HeadHolds'
  BY DEF WriteInv, HeadHolds
<1>3. RecordsAgree'
  BY DEF WriteInv, RecordsAgree, dirty_versions
<1>4. VersionsUnique'
  BY DEF WriteInv, VersionsUnique
<1> QED
  BY <1>1, <1>2, <1>3, <1>4

\* Steps that store, promote or erase records but assign no version.
LEMMA SameVersions ==
  ASSUME WriteInv, StoreType', Grows, assigned' = assigned,
         \A m \in Node, l \in Key :
           /\ \/ store'[m][l].clean = store[m][l].clean
              \/ \E v \in Version :
                   /\ store[m][l].dirty[v] # NoValue
                   /\ store'[m][l].clean =
                        [version |-> v, value |-> store[m][l].dirty[v]]
           /\ \A w \in Version :
                \/ store'[m][l].dirty[w] \in {store[m][l].dirty[w], NoValue}
                \/ /\ KeyOf[store'[m][l].dirty[w]] = l
                   /\ assigned[store'[m][l].dirty[w]] = w
  PROVE  HeadHolds' /\ RecordsAgree' /\ VersionsUnique'
<1>1. HeadHolds'
  BY Carried DEF HeadHolds
<1>2. VersionsUnique'
  BY DEF WriteInv, VersionsUnique
<1>3. ASSUME NEW m \in Node, NEW l \in Key, NEW w \in Version,
             store'[m][l].dirty[w] # NoValue
      PROVE  /\ KeyOf[store'[m][l].dirty[w]] = l
             /\ assigned[store'[m][l].dirty[w]] = w
  BY <1>3 DEF WriteInv, RecordsAgree, dirty_versions
<1>4. ASSUME NEW m \in Node, NEW l \in Key,
             store'[m][l].clean.version # 0
      PROVE  /\ KeyOf[store'[m][l].clean.value] = l
             /\ assigned[store'[m][l].clean.value] = store'[m][l].clean.version
  <2>1. CASE store'[m][l].clean = store[m][l].clean
    BY <1>4, <2>1 DEF WriteInv, RecordsAgree
  <2>2. CASE \E v \in Version :
               /\ store[m][l].dirty[v] # NoValue
               /\ store'[m][l].clean =
                    [version |-> v, value |-> store[m][l].dirty[v]]
    <3>1. PICK v \in Version :
                 /\ store[m][l].dirty[v] # NoValue
                 /\ store'[m][l].clean =
                      [version |-> v, value |-> store[m][l].dirty[v]]
      BY <2>2
    <3> QED
      BY <3>1 DEF WriteInv, RecordsAgree, dirty_versions
  <2> QED
    BY <2>1, <2>2
<1>5. RecordsAgree'
  BY <1>3, <1>4 DEF RecordsAgree, dirty_versions
<1> QED
  BY <1>1, <1>2, <1>5

-----------------------------------------------------------------------------
\* The actions, one by one.
LEMMA ClientPutStep ==
  ASSUME WriteInv, NEW r \in Request, HandleClientPut(r)
  PROVE  WriteInv' /\ Grows
<1> DEFINE k == KeyOf[r]
           n == head_index(k)
<1>0. TypeOK
  BY DEF WriteInv
<1>1. /\ UNCHANGED <<pending, forwards, writeAcks, commitAcks, acking, expired,
                     faults>>
      /\ assigned[r] = 0
  BY DEF HandleClientPut
<1>2. PICK v \in Version : v = assigned'[r]
  BY <1>0, ClientPutGrows
<1>3. /\ StoreType' /\ Grows
      /\ assigned' = [assigned EXCEPT ![r] = v]
      /\ puts' = puts \cup
           {[node |-> n, request |-> r, version |-> v, stale |-> FALSE,
             step |-> "finish"]}
      /\ holds(store'[n][k], v)
      /\ \A w \in Version : holds(store[n][k], w) => w < v
      /\ \A m \in Node, l \in Key :
           /\ store'[m][l].clean = store[m][l].clean
           /\ store'[m][l].dirty = IF m = n /\ l = k
                                   THEN [store[m][l].dirty EXCEPT ![v] = r]
                                   ELSE store[m][l].dirty
  BY <1>0, <1>2, ClientPutGrows
<1>4. n \in Node /\ k \in Key
  BY Ring
<1> HIDE DEF k, n
<1>5. \A s \in Request : assigned'[s] = IF s = r THEN v ELSE assigned[s]
  BY <1>0, <1>3 DEF TypeOK
<1>6. TypeOK'
  <2>1. assigned' \in [Request -> 0..MaxVersion]
    BY <1>0, <1>3, Numbers DEF TypeOK
  <2>2. puts' \subseteq PutThread
    <3>1. [node |-> n, request |-> r, version |-> v, stale |-> FALSE,
           step |-> "finish"] \in PutThread
      BY <1>4 DEF PutThread
    <3> QED
      BY <3>1, <1>0, <1>3 DEF TypeOK
  <2> QED
    BY <1>0, <1>1, <1>3, <2>1, <2>2 DEF TypeOK, StoreType
<1>7. Stamped'
  \* r had no version, so nothing at hand is a message of r.
  <2>1. \A x \in forwards \cup pending \cup puts \cup acking \cup expired :
          x.request # r /\ x.request \in Request
    BY <1>0, <1>1, Fields, Numbers DEF WriteInv, Stamped
  <2> QED
    BY <2>1, <1>1, <1>3, <1>5 DEF WriteInv, Stamped
<1>8. WorkHeld'
  BY <1>1, <1>3, Carried DEF WorkHeld, k, n
<1>9. StaleCommitted'
  BY <1>3, Carried DEF StaleCommitted
<1>10. HeadHolds'
  BY <1>3, <1>5, Carried DEF HeadHolds, k, n
<1>11. CommitAckedAtTail'
  BY <1>1, <1>3, Carried DEF CommitAckedAtTail, tail_version
<1>12. RecordsAgree'
  <2>1. ASSUME NEW m \in Node, NEW l \in Key, NEW w \in Version,
               store'[m][l].dirty[w] # NoValue
        PROVE  /\ KeyOf[store'[m][l].dirty[w]] = l
               /\ assigned'[store'[m][l].dirty[w]] = w
    <3>0. /\ store[m][l].dirty \in [Version -> Value \cup {NoValue}]
          /\ store'[m][l].dirty[w] \in Request
      BY <2>1, <1>0, <1>3 DEF TypeOK, StoreType, Store, Request
    <3>1. CASE m = n /\ l = k /\ w = v
      BY <3>0, <3>1, <1>3, <1>5 DEF k
    <3>2. CASE ~ (m = n /\ l = k /\ w = v)
      <4>1. store'[m][l].dirty[w] = store[m][l].dirty[w]
        BY <3>0, <3>2, <1>3
      <4>2. /\ KeyOf[store[m][l].dirty[w]] = l
            /\ assigned[store[m][l].dirty[w]] = w
        BY <4>1, <2>1 DEF WriteInv, RecordsAgree, dirty_versions
      <4> QED
        BY <3>0, <4>1, <4>2, <1>1, <1>5, Numbers
    <3> QED
      BY <3>1, <3>2
  <2>2. ASSUME NEW m \in Node, NEW l \in Key,
               store'[m][l].clean.version # 0
        PROVE  /\ KeyOf[store'[m][l].clean.value] = l
               /\ assigned'[store'[m][l].clean.value] =
                    store'[m][l].clean.version
    <3>0. store'[m][l].clean = store[m][l].clean
      BY <1>3
    <3>1. /\ KeyOf[store[m][l].clean.value] = l
          /\ assigned[store[m][l].clean.value] = store[m][l].clean.version
      BY <2>2, <3>0 DEF WriteInv, RecordsAgree
    <3>2. store[m][l].clean.value # r
      BY <3>1, <2>2, <1>1, <1>3
    <3>3. assigned'[store[m][l].clean.value]
            = assigned[store[m][l].clean.value]
      BY <3>2, <1>0, <1>3, <1>5 DEF TypeOK
    <3> QED
      BY <3>1, <3>3, <1>3
  <2> QED
    BY <2>1, <2>2 DEF RecordsAgree, dirty_versions
<1>13. VersionsUnique'
  <2>1. \A s \in Request : s # r /\ KeyOf[s] = k => assigned[s] # v
    <3> SUFFICES ASSUME NEW s \in Request, KeyOf[s] = k, assigned[s] = v
                 PROVE  FALSE
      OBVIOUS
    <3>1. holds(store[n][k], v)
      BY Numbers DEF WriteInv, HeadHolds, n
    <3> QED
      BY <3>1, <1>3, Numbers
  <2> QED
    BY <2>1, <1>5 DEF WriteInv, VersionsUnique, k
<1> QED
  BY <1>3, <1>6, <1>7, <1>8, <1>9, <1>10, <1>11, <1>12, <1>13 DEF WriteInv

LEMMA HandleForwardedStep ==
  ASSUME WriteInv, NEW m \in forwards, HandleForwardedPut(m)
  PROVE  WriteInv' /\ Grows
<1>0. TypeOK
  BY DEF WriteInv
<1>1. /\ m.to \in Node /\ m.request \in Request /\ m.version \in Version
      /\ m.version = assigned[m.request]
  BY <1>0, Fields DEF WriteInv, Stamped
<1> DEFINE stale == m.version <= get_committed_state(m.to, KeyOf[m.request])
           p == [node |-> m.to, request |-> m.request, version |-> m.version,
                 stale |-> stale, step |-> IF stale THEN "finish" ELSE "put"]
<1>2. /\ forwards' = forwards \ {m}
      /\ puts' = puts \cup {p}
      /\ UNCHANGED <<store, pending, writeAcks, commitAcks, acking, expired,
                     assigned, faults>>
  BY DEF HandleForwardedPut, BeginForwardedPut
<1>3. stale \in BOOLEAN /\ p.step \in {"put", "finish"}
  OBVIOUS
<1>4. p \in PutThread
  BY <1>1, <1>3 DEF PutThread
\* A stale write is committed here, so it is held.
<1>5. stale => /\ store[m.to][KeyOf[m.request]].clean.version >= m.version
               /\ holds(store[m.to][KeyOf[m.request]], m.version)
  <2>1. store[m.to][KeyOf[m.request]].clean.version \in Nat
    BY <1>0, <1>1, Numbers, Ring DEF TypeOK
  <2> QED
    BY <2>1, <1>1, Numbers DEF get_committed_state, holds
<1>6. /\ p.node = m.to /\ p.request = m.request /\ p.version = m.version
      /\ p.stale = stale /\ (p.step = "finish" => stale)
  OBVIOUS
<1> HIDE DEF stale, p
<1>7. /\ StoreType' /\ Grows
      /\ HeadHolds' /\ RecordsAgree' /\ VersionsUnique'
  BY <1>2, SameStore
<1>8. TypeOK'
  BY <1>0, <1>2, <1>4 DEF TypeOK
<1>9. Stamped'
  BY <1>1, <1>2, <1>6 DEF WriteInv, Stamped
<1>10. WorkHeld'
  BY <1>2, <1>5, <1>6 DEF WriteInv, WorkHeld
<1>11. StaleCommitted'
  BY <1>2, <1>5, <1>6 DEF WriteInv, StaleCommitted
<1>12. CommitAckedAtTail'
  BY <1>2 DEF WriteInv, CommitAckedAtTail, tail_version
<1> QED
  BY <1>7, <1>8, <1>9, <1>10, <1>11, <1>12 DEF WriteInv

LEMMA StoreForwardedStep ==
  ASSUME WriteInv, NEW p \in puts, StoreForwardedPut(p)
  PROVE  WriteInv' /\ Grows
<1>0. TypeOK
  BY DEF WriteInv
<1>1. /\ p \in PutThread
      /\ p.node \in Node /\ p.request \in Request /\ p.version \in Version
      /\ p.version = assigned[p.request]
  BY <1>0, Fields DEF WriteInv, Stamped, TypeOK
<1> DEFINE q == [p EXCEPT !.step = "finish"]
<1>2. /\ puts' = (puts \ {p}) \cup {q}
      /\ UNCHANGED <<pending, forwards, writeAcks, commitAcks, acking, expired,
                     assigned, faults>>
  BY DEF StoreForwardedPut
<1>3. /\ q \in PutThread
      /\ q.node = p.node /\ q.request = p.request /\ q.version = p.version
      /\ q.stale = p.stale
  BY <1>1 DEF PutThread
<1> HIDE DEF q
<1>4. /\ StoreType' /\ Grows
      /\ holds(store'[p.node][KeyOf[p.request]], p.version)
      /\ \A m \in Node, l \in Key :
           /\ store'[m][l].clean = store[m][l].clean
           /\ \A w \in Version :
                \/ store'[m][l].dirty[w] = store[m][l].dirty[w]
                \/ /\ m = p.node /\ l = KeyOf[p.request] /\ w = p.version
                   /\ store'[m][l].dirty[w] = p.request
  BY <1>0, StoreForwardedGrows
<1>5. HeadHolds' /\ RecordsAgree' /\ VersionsUnique'
  <2>1. \A m \in Node, l \in Key : \A w \in Version :
          \/ store'[m][l].dirty[w] \in {store[m][l].dirty[w], NoValue}
          \/ /\ KeyOf[store'[m][l].dirty[w]] = l
             /\ assigned[store'[m][l].dirty[w]] = w
    BY <1>1, <1>4
  <2>2. \A m \in Node, l \in Key : store'[m][l].clean = store[m][l].clean
    BY <1>4
  <2> QED
    BY <1>2, <1>4, <2>1, <2>2, SameVersions
<1>6. TypeOK'
  BY <1>0, <1>2, <1>3, <1>4 DEF TypeOK, StoreType
<1>7. Stamped'
  BY <1>1, <1>2, <1>3 DEF WriteInv, Stamped
<1>8. WorkHeld'
  BY <1>2, <1>3, <1>4, Carried DEF WorkHeld
<1>9. StaleCommitted'
  BY <1>2, <1>3, <1>4, Carried DEF StaleCommitted
<1>10. CommitAckedAtTail'
  BY <1>2, <1>4, Carried DEF CommitAckedAtTail, tail_version
<1> QED
  BY <1>4, <1>5, <1>6, <1>7, <1>8, <1>9, <1>10 DEF WriteInv

LEMMA FinishAtTailStep ==
  ASSUME WriteInv, NEW p \in puts, FinishPutAtTail(p)
  PROVE  /\ WriteInv' /\ Grows
         /\ tail_version(KeyOf[p.request])' >= p.version
         /\ \A m \in Node, l \in Key :
              m = tail_index(l) \/ store'[m][l].clean = store[m][l].clean
<1>0. TypeOK /\ StoreType
  BY DEF WriteInv, TypeOK, StoreType
<1>a. PICK k \in Key, n \in Node, v \in Version :
        k = KeyOf[p.request] /\ n = p.node /\ v = p.version
  BY <1>0, Fields
<1>1. /\ p.request \in Request /\ p.stale \in BOOLEAN
      /\ v = assigned[p.request]
  BY <1>0, <1>a, Fields DEF WriteInv, Stamped, TypeOK
<1>2. /\ n = tail_index(k) /\ p.step = "finish"
      /\ store' = IF p.stale
                  THEN store
                  ELSE [store EXCEPT ![n][k] = mark_clean(store[n][k], v)]
      /\ writeAcks' = IF RingSize = 1
                      THEN writeAcks
                      ELSE writeAcks \cup {write_ack(n, p.request)}
      /\ commitAcks' = commitAcks \cup
           {[request |-> p.request, version |-> v]}
      /\ puts' = puts \ {p}
      /\ UNCHANGED <<pending, forwards, acking, expired, assigned, faults>>
  BY <1>a DEF FinishPutAtTail
<1>3. holds(store[n][k], v)
  BY <1>a, <1>2 DEF WriteInv, WorkHeld
\* A stale write is committed already; any other is now.
<1>4. /\ StoreType' /\ Grows
      /\ HeadHolds' /\ RecordsAgree' /\ VersionsUnique'
      /\ store'[n][k].clean.version >= v
      /\ \A m \in Node, l \in Key :
           m = tail_index(l) \/ store'[m][l].clean = store[m][l].clean
  <2>1. CASE p.stale
    <3>1. UNCHANGED <<store, assigned>>
      BY <1>2, <2>1
    <3>2. store[n][k].clean.version >= v
      BY <1>a, <2>1 DEF WriteInv, StaleCommitted
    <3> QED
      BY <3>1, <3>2, SameStore
  <2>2. CASE ~ p.stale
    <3>1. Commits(n, k, v)
      BY <1>2, <2>2 DEF Commits
    <3>2. /\ StoreType' /\ Grows
          /\ store'[n][k].clean.version >= v
          /\ \A m \in Node, l \in Key :
               /\ \/ store'[m][l].clean = store[m][l].clean
                  \/ /\ m = n /\ l = k
                     /\ store[m][l].dirty[v] # NoValue
                     /\ store'[m][l].clean =
                          [version |-> v, value |-> store[m][l].dirty[v]]
               /\ \A w \in Version :
                    \/ store'[m][l].dirty[w] = store[m][l].dirty[w]
                    \/ store'[m][l].dirty[w] = NoValue
      BY <1>0, <1>1, <1>3, <3>1, CommitGrows
    <3>3. HeadHolds' /\ RecordsAgree' /\ VersionsUnique'
      <4>1. \A m \in Node, l \in Key :
              \/ store'[m][l].clean = store[m][l].clean
              \/ \E u \in Version :
                   /\ store[m][l].dirty[u] # NoValue
                   /\ store'[m][l].clean =
                        [version |-> u, value |-> store[m][l].dirty[u]]
        BY <1>1, <3>2
      <4>2. \A m \in Node, l \in Key : \A w \in Version :
              store'[m][l].dirty[w] \in {store[m][l].dirty[w], NoValue}
        BY <3>2
      <4> QED
        BY <1>2, <3>2, <4>1, <4>2, SameVersions
    <3>4. \A m \in Node, l \in Key :
            m = tail_index(l) \/ store'[m][l].clean = store[m][l].clean
      BY <1>2, <3>2
    <3> QED
      BY <3>2, <3>3, <3>4
  <2> QED
    BY <2>1, <2>2
<1>5. TypeOK'
  <2>1. writeAcks' \subseteq WriteAck
    BY <1>0, <1>1, <1>2, Ring DEF TypeOK, WriteAck, write_ack
  <2>2. commitAcks' \subseteq CommitAck
    BY <1>0, <1>1, <1>2 DEF TypeOK, CommitAck
  <2> QED
    BY <1>0, <1>2, <1>4, <2>1, <2>2 DEF TypeOK, StoreType
<1>6. Stamped'
  BY <1>2 DEF WriteInv, Stamped
<1>7. WorkHeld'
  BY <1>2, <1>4, Carried DEF WorkHeld
<1>8. StaleCommitted'
  BY <1>2, <1>4, Carried DEF StaleCommitted
<1>9. CommitAckedAtTail'
  <2>1. \A c \in commitAcks' :
          \/ c \in commitAcks
          \/ c.request = p.request /\ c.version = v
    BY <1>2
  <2> QED
    BY <1>a, <1>2, <1>4, <2>1, Carried DEF CommitAckedAtTail, tail_version
<1>10. tail_version(k)' >= v
  BY <1>2, <1>4 DEF tail_version
<1> QED
  BY <1>4, <1>5, <1>6, <1>7, <1>8, <1>9, <1>10, <1>a DEF WriteInv

LEMMA FinishByForwardingStep ==
  ASSUME WriteInv, NEW p \in puts, FinishPutByForwarding(p)
  PROVE  WriteInv' /\ Grows
<1>0. TypeOK
  BY DEF WriteInv
<1>1. /\ p.node \in Node /\ p.request \in Request /\ p.version \in Version
      /\ p.version = assigned[p.request]
  BY <1>0, Fields DEF WriteInv, Stamped
<1>2. /\ forward_put(p.node, p.request, p.version)
      /\ p.step = "finish"
      /\ puts' = puts \ {p}
      /\ UNCHANGED <<store, writeAcks, commitAcks, acking, expired, assigned,
                     faults>>
  BY DEF FinishPutByForwarding
<1>3. /\ pending' \subseteq PendingEntry
      /\ \A e \in pending' :
           \/ e \in pending
           \/ e.node = p.node /\ e.request = p.request /\ e.version = p.version
      /\ forwards' \subseteq Forward
      /\ \A m \in forwards' :
           m \in forwards \/ (m.request = p.request /\ m.version = p.version)
  BY <1>0, <1>1, <1>2, ForwardPut
<1>4. /\ StoreType' /\ Grows
      /\ HeadHolds' /\ RecordsAgree' /\ VersionsUnique'
  BY <1>2, SameStore
<1>5. TypeOK'
  BY <1>0, <1>2, <1>3 DEF TypeOK
<1>6. Stamped'
  BY <1>1, <1>2, <1>3 DEF WriteInv, Stamped
<1>7. WorkHeld'
  BY <1>2, <1>3 DEF WriteInv, WorkHeld
<1>8. StaleCommitted'
  BY <1>2 DEF WriteInv, StaleCommitted
<1>9. CommitAckedAtTail'
  BY <1>2 DEF WriteInv, CommitAckedAtTail, tail_version
<1> QED
  BY <1>4, <1>5, <1>6, <1>7, <1>8, <1>9 DEF WriteInv

LEMMA BeginAckStep ==
  ASSUME WriteInv, NEW a \in writeAcks, BeginAck(a)
  PROVE  WriteInv' /\ Grows
<1>0. TypeOK
  BY DEF WriteInv
<1>1. /\ writeAcks' = writeAcks \ {a}
      /\ acking' = acking \cup {[node |-> e.node, request |-> e.request,
                                 version |-> e.version]
                                  : e \in pending_of(a.to, a.id)}
      /\ UNCHANGED <<store, pending, forwards, commitAcks, puts, expired,
                     assigned, faults>>
  BY DEF BeginAck
<1>2. \A j \in acking' :
        \/ j \in acking
        \/ \E e \in pending : /\ j = [node |-> e.node, request |-> e.request,
                                      version |-> e.version]
                              /\ j.node = e.node /\ j.request = e.request
                              /\ j.version = e.version
  BY <1>1 DEF pending_of
<1>3. /\ StoreType' /\ Grows
      /\ HeadHolds' /\ RecordsAgree' /\ VersionsUnique'
  BY <1>1, SameStore
<1>4. TypeOK'
  <2>1. acking' \subseteq Job
    BY <1>0, <1>2, Fields DEF TypeOK, Job
  <2> QED
    BY <1>0, <1>1, <2>1 DEF TypeOK
<1>5. Stamped'
  BY <1>1, <1>2 DEF WriteInv, Stamped
<1>6. WorkHeld'
  BY <1>1, <1>2 DEF WriteInv, WorkHeld
<1>7. StaleCommitted'
  BY <1>1 DEF WriteInv, StaleCommitted
<1>8. CommitAckedAtTail'
  BY <1>1 DEF WriteInv, CommitAckedAtTail, tail_version
<1> QED
  BY <1>3, <1>4, <1>5, <1>6, <1>7, <1>8 DEF WriteInv

LEMMA FinishAckStep ==
  ASSUME WriteInv, NEW j \in acking, FinishAck(j)
  PROVE  /\ WriteInv' /\ Grows
         /\ store'[j.node][KeyOf[j.request]].clean.version >= j.version
         /\ \A n \in Node, k \in Key :
              \/ store'[n][k].clean = store[n][k].clean
              \/ /\ k = KeyOf[j.request]
                 /\ store'[n][k].clean.version = j.version
<1>0. TypeOK /\ StoreType
  BY DEF WriteInv, TypeOK, StoreType
<1>a. PICK k \in Key, n \in Node, v \in Version :
        k = KeyOf[j.request] /\ n = j.node /\ v = j.version
  BY <1>0, Fields
<1>1. j.request \in Request /\ v = assigned[j.request]
  BY <1>0, <1>a, Fields DEF WriteInv, Stamped
<1>2. /\ Commits(n, k, v)
      /\ writeAcks' = IF n = head_index(k)
                      THEN writeAcks
                      ELSE writeAcks \cup {write_ack(n, j.request)}
      /\ pending' = pending \ pending_of(n, IdOf[j.request])
      /\ acking' = acking \ {j}
      /\ UNCHANGED <<forwards, commitAcks, puts, expired, assigned, faults>>
  BY <1>a DEF FinishAck, Commits
<1>3. holds(store[n][k], v)
  BY <1>a DEF WriteInv, WorkHeld
<1>4. /\ StoreType' /\ Grows
      /\ store'[n][k].clean.version >= v
      /\ \A m \in Node, l \in Key :
           /\ \/ store'[m][l].clean = store[m][l].clean
              \/ /\ m = n /\ l = k
                 /\ store[m][l].dirty[v] # NoValue
                 /\ store'[m][l].clean =
                      [version |-> v, value |-> store[m][l].dirty[v]]
           /\ \A w \in Version :
                \/ store'[m][l].dirty[w] = store[m][l].dirty[w]
                \/ store'[m][l].dirty[w] = NoValue
  BY <1>0, <1>1, <1>2, <1>3, CommitGrows
<1>5. HeadHolds' /\ RecordsAgree' /\ VersionsUnique'
  BY <1>1, <1>2, <1>4, SameVersions
<1>6. TypeOK'
  <2>1. writeAcks' \subseteq WriteAck
    BY <1>0, <1>1, <1>2, Ring DEF TypeOK, WriteAck, write_ack
  <2> QED
    BY <1>0, <1>2, <1>4, <2>1 DEF TypeOK, StoreType
<1>7. Stamped'
  BY <1>2 DEF WriteInv, Stamped
<1>8. WorkHeld'
  BY <1>2, <1>4, Carried DEF WorkHeld
<1>9. StaleCommitted'
  BY <1>2, <1>4, Carried DEF StaleCommitted
<1>10. CommitAckedAtTail'
  BY <1>2, <1>4, Carried DEF CommitAckedAtTail, tail_version
<1>11. \A m \in Node, l \in Key :
         \/ store'[m][l].clean = store[m][l].clean
         \/ (l = k /\ store'[m][l].clean.version = v)
  <2> SUFFICES ASSUME NEW m \in Node, NEW l \in Key,
                      store'[m][l].clean # store[m][l].clean
               PROVE  l = k /\ store'[m][l].clean.version = v
    OBVIOUS
  <2>1. /\ l = k
        /\ store'[m][l].clean =
             [version |-> v, value |-> store[m][l].dirty[v]]
    BY <1>4
  <2> QED
    BY <2>1
<1> QED
  BY <1>4, <1>5, <1>6, <1>7, <1>8, <1>9, <1>10, <1>11, <1>a DEF WriteInv

LEMMA CollectStep ==
  ASSUME WriteInv, NEW n \in Node, NEW due \in SUBSET pending,
         CollectExpired(n, due)
  PROVE  WriteInv' /\ Grows
<1>0. TypeOK
  BY DEF WriteInv
<1>1. /\ \A e \in due : e.node = n /\ e.retries < MaxRetryCount
      /\ pending' = (pending \ due) \cup
                      {[e EXCEPT !.retries = @ + 1] : e \in due}
      /\ expired' = expired \cup
           {[node |-> n, request |-> e.request, version |-> e.version]
              : e \in due}
      /\ UNCHANGED <<store, forwards, writeAcks, commitAcks, puts, acking,
                     assigned>>
      /\ faults' \in {faults, faults + 1}
      /\ faults' # faults => faults < MaxFaults
  BY DEF CollectExpired
<1>2. \A e \in due :
        LET f == [e EXCEPT !.retries = @ + 1]
        IN  /\ f \in PendingEntry
            /\ f.node = e.node /\ f.request = e.request
            /\ f.version = e.version
  BY <1>0, <1>1, ReplicationAssumption DEF TypeOK, PendingEntry
<1>3. \A e \in pending' :
        \E f \in pending : /\ e.node = f.node /\ e.request = f.request
                           /\ e.version = f.version
  <2> SUFFICES ASSUME NEW e \in pending', e \notin pending
               PROVE  \E f \in pending :
                        /\ e.node = f.node /\ e.request = f.request
                        /\ e.version = f.version
    OBVIOUS
  <2>1. PICK f \in due : e = [f EXCEPT !.retries = @ + 1]
    BY <1>1
  <2> QED
    BY <2>1, <1>2
<1>4. \A j \in expired' :
        \/ j \in expired
        \/ \E f \in pending : /\ j = [node |-> n, request |-> f.request,
                                      version |-> f.version]
                              /\ j.node = f.node /\ j.request = f.request
                              /\ j.version = f.version
  BY <1>1
<1>5. /\ StoreType' /\ Grows
      /\ HeadHolds' /\ RecordsAgree' /\ VersionsUnique'
  BY <1>1, SameStore
<1>6. TypeOK'
  <2>1. pending' \subseteq PendingEntry
    BY <1>0, <1>1, <1>2 DEF TypeOK
  <2>2. expired' \subseteq Job
    BY <1>0, <1>4, Fields DEF TypeOK, Job
  <2>3. faults' \in 0..MaxFaults
    BY <1>0, <1>1, ReplicationAssumption DEF TypeOK
  <2> QED
    BY <1>0, <1>1, <2>1, <2>2, <2>3 DEF TypeOK
<1>7. Stamped'
  BY <1>1, <1>3, <1>4 DEF WriteInv, Stamped
<1>8. WorkHeld'
  BY <1>1, <1>3, <1>4 DEF WriteInv, WorkHeld
<1>9. StaleCommitted'
  BY <1>1 DEF WriteInv, StaleCommitted
<1>10. CommitAckedAtTail'
  BY <1>1 DEF WriteInv, CommitAckedAtTail, tail_version
<1> QED
  BY <1>5, <1>6, <1>7, <1>8, <1>9, <1>10 DEF WriteInv

LEMMA ReForwardStep ==
  ASSUME WriteInv, NEW j \in expired, ReForward(j)
  PROVE  WriteInv' /\ Grows
<1>0. TypeOK
  BY DEF WriteInv
<1>1. /\ j.node \in Node /\ j.request \in Request /\ j.version \in Version
      /\ j.version = assigned[j.request]
  BY <1>0, Fields DEF WriteInv, Stamped
<1>2. /\ forward_put(j.node, j.request, j.version)
      /\ expired' = expired \ {j}
      /\ UNCHANGED <<store, writeAcks, commitAcks, puts, acking, assigned,
                     faults>>
  BY DEF ReForward
<1>3. /\ pending' \subseteq PendingEntry
      /\ \A e \in pending' :
           \/ e \in pending
           \/ e.node = j.node /\ e.request = j.request /\ e.version = j.version
      /\ forwards' \subseteq Forward
      /\ \A m \in forwards' :
           m \in forwards \/ (m.request = j.request /\ m.version = j.version)
  BY <1>0, <1>1, <1>2, ForwardPut
<1>4. /\ StoreType' /\ Grows
      /\ HeadHolds' /\ RecordsAgree' /\ VersionsUnique'
  BY <1>2, SameStore
<1>5. TypeOK'
  BY <1>0, <1>2, <1>3 DEF TypeOK
<1>6. Stamped'
  BY <1>1, <1>2, <1>3 DEF WriteInv, Stamped
<1>7. WorkHeld'
  BY <1>2, <1>3 DEF WriteInv, WorkHeld
<1>8. StaleCommitted'
  BY <1>2 DEF WriteInv, StaleCommitted
<1>9. CommitAckedAtTail'
  BY <1>2 DEF WriteInv, CommitAckedAtTail, tail_version
<1> QED
  BY <1>4, <1>5, <1>6, <1>7, <1>8, <1>9 DEF WriteInv

LEMMA LoseStep ==
  ASSUME WriteInv, Lose
  PROVE  WriteInv' /\ Grows
<1>0. TypeOK
  BY DEF WriteInv
<1>1. /\ forwards' \subseteq forwards /\ writeAcks' \subseteq writeAcks
      /\ faults < MaxFaults /\ faults' = faults + 1
      /\ UNCHANGED <<store, pending, commitAcks, puts, acking, expired,
                     assigned>>
  BY DEF Lose, LoseForward, LoseAck
<1>2. /\ StoreType' /\ Grows
      /\ HeadHolds' /\ RecordsAgree' /\ VersionsUnique'
  BY <1>1, SameStore
<1>3. TypeOK'
  BY <1>0, <1>1, ReplicationAssumption DEF TypeOK
<1>4. Stamped' /\ WorkHeld' /\ StaleCommitted' /\ CommitAckedAtTail'
  BY <1>1 DEF WriteInv, Stamped, WorkHeld, StaleCommitted, CommitAckedAtTail,
              tail_version
<1> QED
  BY <1>2, <1>3, <1>4 DEF WriteInv

-----------------------------------------------------------------------------
LEMMA WriteInit == Init => WriteInv
<1> SUFFICES ASSUME Init PROVE WriteInv
  OBVIOUS
<1>1. TypeOK
  BY EmptyStoreType, KVStoreAssumption, ReplicationAssumption DEF Init, TypeOK
<1>2. \A n \in Node, k \in Key :
        /\ store[n][k].clean.version = 0
        /\ \A v \in Version : store[n][k].dirty[v] = NoValue
  BY DEF Init, EmptyStore
<1> QED
  BY <1>1, <1>2
  DEF Init, WriteInv, Stamped, WorkHeld, StaleCommitted, HeadHolds,
      CommitAckedAtTail, RecordsAgree, VersionsUnique, dirty_versions

LEMMA WriteNext == WriteInv /\ [Next]_vars => WriteInv' /\ Grows
<1> SUFFICES ASSUME WriteInv, [Next]_vars PROVE WriteInv' /\ Grows
  OBVIOUS
<1>1. CASE \E r \in Request : HandleClientPut(r)
  BY <1>1, ClientPutStep
<1>2. CASE \E m \in forwards : HandleForwardedPut(m)
  BY <1>2, HandleForwardedStep
<1>3. CASE HandlePut
  BY <1>3, StoreForwardedStep, FinishAtTailStep, FinishByForwardingStep
  DEF HandlePut, FinishPut
<1>4. CASE HandleAck
  BY <1>4, BeginAckStep, FinishAckStep DEF HandleAck
<1>5. CASE RetryLoop
  BY <1>5, CollectStep, ReForwardStep DEF RetryLoop
<1>6. CASE Lose
  BY <1>6, LoseStep
<1>7. CASE UNCHANGED vars
  <2>1. StoreType' /\ Grows
    BY <1>7, SameStore DEF vars
  <2>2. WriteInv'
    BY <1>7 DEF vars, WriteInv, TypeOK, Stamped, WorkHeld, StaleCommitted,
                HeadHolds, CommitAckedAtTail, tail_version, RecordsAgree,
                dirty_versions, VersionsUnique
  <2> QED
    BY <2>1, <2>2
<1> QED
  BY <1>1, <1>2, <1>3, <1>4, <1>5, <1>6, <1>7 DEF Next, Deliver

LEMMA WriteInvariant == Spec => []WriteInv
<1>1. WriteInv /\ [Next]_vars => WriteInv'
  BY WriteNext
<1> QED
  BY WriteInit, <1>1, PTL DEF Spec

\* The servers' state stays well formed.
THEOREM TypeCorrect == Spec => []TypeOK
<1>1. WriteInv => TypeOK
  BY DEF WriteInv
<1> QED
  BY WriteInvariant, <1>1, PTL

\* A CommitAck goes out only for a version the tail has committed, whatever
\* ids the clients choose, and whatever is lost, retried or reordered.
THEOREM AcknowledgedIsCommitted == Spec => []CommitAckedAtTail
<1>1. WriteInv => CommitAckedAtTail
  BY DEF WriteInv
<1> QED
  BY WriteInvariant, <1>1, PTL

\* Every record, dirty or clean, on any server is the write that was assigned
\* its version.
THEOREM ReplicasAgree == Spec => []RecordsAgree
<1>1. WriteInv => RecordsAgree
  BY DEF WriteInv
<1> QED
  BY WriteInvariant, <1>1, PTL

\* No version of a key is given to two writes.
THEOREM NoVersionTwice == Spec => []VersionsUnique
<1>1. WriteInv => VersionsUnique
  BY DEF WriteInv
<1> QED
  BY WriteInvariant, <1>1, PTL

\* No server's committed version ever goes back.
THEOREM CleanIsMonotone == Spec => CleanNeverRollsBack
<1>1. WriteInv /\ [Next]_vars
        => [\A n \in Node, k \in Key :
              store'[n][k].clean.version >= store[n][k].clean.version]_vars
  BY WriteNext DEF Grows
<1> QED
  BY WriteInvariant, <1>1, PTL DEF Spec, CleanNeverRollsBack

-----------------------------------------------------------------------------
(***************************************************************************)
(* The second layer: with an id of its own for every request, an ack found *)
(* in flight says that the write is committed at its sender and at the     *)
(* tail.                                                                   *)
(***************************************************************************)
LEMMA BeyondCarried ==
  ASSUME StoreType, StoreType', Grows, NEW n \in Node, NEW k \in Key,
         NEW v \in Version, CommittedBeyond(n, k, v)
  PROVE  CommittedBeyond(n, k, v)'
<1>1. tail_index(k) \in Node /\ next_index(n) \in Node
  BY Ring
<1>2. /\ \A m \in Node : /\ store[m][k].clean.version \in Nat
                         /\ store'[m][k].clean.version \in Nat
                         /\ store'[m][k].clean.version
                              >= store[m][k].clean.version
  BY Numbers DEF StoreType, Grows
<1> QED
  BY <1>1, <1>2, Numbers DEF CommittedBeyond, tail_version

\* What AckInv says of the acks at hand survives a step that assigns no
\* version to the request of one of them.
LEMMA AcksCarried ==
  ASSUME WriteInv, AckInv, WriteInv', Grows,
         \A r \in Request : assigned[r] # 0 => assigned'[r] = assigned[r]
  PROVE  /\ \A a \in writeAcks, r \in Request :
              IdOf[r] = a.id =>
                /\ assigned'[r] # 0
                /\ CommittedBeyond(a.to, KeyOf[r], assigned[r])'
         /\ \A j \in acking :
              CommittedBeyond(j.node, KeyOf[j.request], j.version)'
<1>1. StoreType /\ StoreType' /\ TypeOK
  BY DEF WriteInv, TypeOK, StoreType
<1>2. ASSUME NEW a \in writeAcks, NEW r \in Request, IdOf[r] = a.id
      PROVE  /\ assigned'[r] # 0
             /\ CommittedBeyond(a.to, KeyOf[r], assigned[r])'
  <2>1. /\ assigned[r] # 0
        /\ CommittedBeyond(a.to, KeyOf[r], assigned[r])
    BY <1>2 DEF AckInv, AcksCommitted
  <2>2. PICK n \in Node, k \in Key, v \in Version :
          n = a.to /\ k = KeyOf[r] /\ v = assigned[r]
    BY <2>1, <1>1, Ring, KVStoreAssumption DEF TypeOK, WriteAck, Version
  <2>3. CommittedBeyond(n, k, v)'
    BY <2>1, <2>2, <1>1, BeyondCarried
  <2>4. assigned'[r] = v
    BY <2>1, <2>2
  <2> QED
    BY <2>2, <2>3, <2>4, Numbers
<1>3. ASSUME NEW j \in acking
      PROVE  CommittedBeyond(j.node, KeyOf[j.request], j.version)'
  <2>1. CommittedBeyond(j.node, KeyOf[j.request], j.version)
    BY DEF AckInv, AcksCommitted
  <2>2. j.node \in Node /\ KeyOf[j.request] \in Key /\ j.version \in Version
    BY <1>1, Fields
  <2> QED
    BY <2>1, <2>2, <1>1, BeyondCarried
<1> QED
  BY <1>2, <1>3

\* An ack sent by n to its predecessor, for a request whose version n and the
\* tail have committed.
LEMMA NewAck ==
  ASSUME DistinctIds, WriteInv', NEW n \in Node, NEW r \in Request,
         NEW v \in Version, v = assigned'[r],
         store'[n][KeyOf[r]].clean.version >= v,
         tail_version(KeyOf[r])' >= v
  PROVE  \A s \in Request :
           IdOf[s] = write_ack(n, r).id =>
             /\ assigned'[s] # 0
             /\ CommittedBeyond(write_ack(n, r).to, KeyOf[s], assigned[s])'
<1> SUFFICES ASSUME NEW s \in Request, IdOf[s] = IdOf[r]
             PROVE  /\ assigned'[s] # 0
                    /\ CommittedBeyond(prev_index(n), KeyOf[s], assigned[s])'
  BY DEF write_ack
<1>1. s = r
  BY DEF DistinctIds
<1>2. next_index(prev_index(n)) = n
  BY Ring
<1> QED
  BY <1>1, <1>2, Numbers DEF CommittedBeyond

\* A commit of a version the tail has, on any server, or of any version at
\* the tail, keeps the tail ahead.
LEMMA TailAhead ==
  ASSUME WriteInv, AckInv, WriteInv', Grows,
         \A n \in Node, k \in Key :
           \/ store'[n][k].clean = store[n][k].clean
           \/ n = tail_index(k)
           \/ store'[n][k].clean.version <= tail_version(k)
  PROVE  CleanBelowTail'
<1>1. \A n \in Node, k \in Key : /\ store[n][k].clean.version \in Nat
                                 /\ store'[n][k].clean.version \in Nat
  BY Numbers DEF WriteInv, TypeOK
<1>2. \A k \in Key : /\ tail_index(k) \in Node
                     /\ tail_version(k)' >= tail_version(k)
                     /\ tail_version(k)' \in Nat /\ tail_version(k) \in Nat
  BY <1>1, Ring DEF Grows, tail_version
<1>3. ASSUME NEW n \in Node, NEW k \in Key
      PROVE  store'[n][k].clean.version <= tail_version(k)'
  <2>1. CASE store'[n][k].clean = store[n][k].clean
    <3>1. store[n][k].clean.version <= tail_version(k)
      BY DEF AckInv, CleanBelowTail
    <3> QED
      BY <3>1, <2>1, <1>1, <1>2
  <2>2. CASE n = tail_index(k)
    BY <2>2, <1>1 DEF tail_version
  <2>3. CASE store'[n][k].clean.version <= tail_version(k)
    BY <2>3, <1>1, <1>2
  <2> QED
    BY <2>1, <2>2, <2>3
<1> QED
  BY <1>3 DEF CleanBelowTail

\* What PendingUntilAcked asks of one step.
KeptUntilAcked ==
  \A e \in pending :
    (\A f \in pending' : f.node = e.node => f.request # e.request)
      => store[next_index(e.node)][KeyOf[e.request]].clean.version >= e.version

LEMMA AckStep ==
  ASSUME DistinctIds, WriteInv, AckInv, WriteInv', Grows, Next
  PROVE  AckInv' /\ KeptUntilAcked
<1>0. TypeOK
  BY DEF WriteInv
\* Steps that neither send nor take up an ack, nor commit anything.
<1>a. ASSUME writeAcks' \subseteq writeAcks, acking' = acking,
             \A r \in Request : assigned[r] # 0 => assigned'[r] = assigned[r],
             \A n \in Node, k \in Key : store'[n][k].clean = store[n][k].clean
      PROVE  AckInv'
  <2>1. CleanBelowTail'
    BY <1>a, TailAhead
  <2>2. \A a \in writeAcks', r \in Request :
          IdOf[r] = a.id =>
            /\ assigned'[r] # 0
            /\ CommittedBeyond(a.to, KeyOf[r], assigned[r])'
    BY <1>a, AcksCarried
  <2>3. \A j \in acking' :
          CommittedBeyond(j.node, KeyOf[j.request], j.version)'
    BY <1>a, AcksCarried
  <2> QED
    BY <2>1, <2>2, <2>3 DEF AckInv, AcksCommitted
\* Steps after which every entry is still there, perhaps retried.
<1>b. ASSUME \A e \in pending : \E f \in pending' :
               f.node = e.node /\ f.request = e.request
      PROVE  KeptUntilAcked
  BY <1>b DEF KeptUntilAcked
<1>c. ASSUME NEW n \in Node, NEW r \in Request, NEW v \in Version,
             forward_put(n, r, v)
      PROVE  KeptUntilAcked
  <2>1. /\ \A e \in pending :
             \/ e \in pending'
             \/ e.node = n /\ IdOf[e.request] = IdOf[r]
        /\ \E e \in pending' : e.node = n /\ e.request = r
    BY <1>0, <1>c, ForwardPut
  <2>2. \A e \in pending : e.request \in Request
    BY <1>0, Fields
  <2> QED
    BY <2>1, <2>2, <1>b DEF DistinctIds
<1>1. ASSUME NEW r \in Request, HandleClientPut(r)
      PROVE  AckInv' /\ KeptUntilAcked
  <2>1. /\ UNCHANGED <<pending, writeAcks, acking>>
        /\ assigned[r] = 0
    BY <1>1 DEF HandleClientPut
  <2>2. /\ assigned' = [assigned EXCEPT ![r] = assigned'[r]]
        /\ \A n \in Node, k \in Key : store'[n][k].clean = store[n][k].clean
    BY <1>0, <1>1, ClientPutGrows
  <2>3. \A s \in Request : assigned[s] # 0 => assigned'[s] = assigned[s]
    BY <1>0, <2>1, <2>2 DEF TypeOK
  <2> QED
    BY <2>1, <2>2, <2>3, <1>a, <1>b
<1>2. ASSUME NEW m \in forwards, HandleForwardedPut(m)
      PROVE  AckInv' /\ KeptUntilAcked
  <2>1. UNCHANGED <<store, pending, writeAcks, acking, assigned>>
    BY <1>2 DEF HandleForwardedPut, BeginForwardedPut
  <2> QED
    BY <2>1, <1>a, <1>b
<1>3. ASSUME NEW p \in puts, StoreForwardedPut(p)
      PROVE  AckInv' /\ KeptUntilAcked
  <2>1. UNCHANGED <<pending, writeAcks, acking, assigned>>
    BY <1>3 DEF StoreForwardedPut
  <2>2. \A n \in Node, k \in Key : store'[n][k].clean = store[n][k].clean
    BY <1>0, <1>3, StoreForwardedGrows
  <2> QED
    BY <2>1, <2>2, <1>a, <1>b
<1>4. ASSUME NEW p \in puts, FinishPutAtTail(p)
      PROVE  AckInv' /\ KeptUntilAcked
  <2>1. /\ UNCHANGED <<pending, acking, assigned>>
        /\ p.node = tail_index(KeyOf[p.request])
        /\ \A a \in writeAcks' :
             a \in writeAcks \/ a = write_ack(p.node, p.request)
    BY <1>4 DEF FinishPutAtTail
  <2>2. /\ tail_version(KeyOf[p.request])' >= p.version
        /\ \A n \in Node, k \in Key :
             n = tail_index(k) \/ store'[n][k].clean = store[n][k].clean
    BY <1>4, FinishAtTailStep
  <2>3. /\ p.node \in Node /\ p.request \in Request /\ p.version \in Version
        /\ p.version = assigned'[p.request]
    BY <1>0, <2>1, Fields DEF WriteInv, Stamped
  <2>4. store'[p.node][KeyOf[p.request]].clean.version >= p.version
    BY <2>1, <2>2 DEF tail_version
  <2>5. \A s \in Request :
          IdOf[s] = write_ack(p.node, p.request).id =>
            /\ assigned'[s] # 0
            /\ CommittedBeyond(write_ack(p.node, p.request).to, KeyOf[s],
                               assigned[s])'
    BY <2>2, <2>3, <2>4, NewAck
  <2>6. AcksCommitted'
    BY <2>1, <2>5, AcksCarried DEF AcksCommitted
  <2>7. CleanBelowTail'
    BY <2>2, TailAhead
  <2> QED
    BY <2>1, <2>6, <2>7, <1>b DEF AckInv
<1>5. ASSUME NEW p \in puts, FinishPutByForwarding(p)
      PROVE  AckInv' /\ KeptUntilAcked
  <2>1. /\ UNCHANGED <<store, writeAcks, acking, assigned>>
        /\ forward_put(p.node, p.request, p.version)
    BY <1>5 DEF FinishPutByForwarding
  <2>2. p.node \in Node /\ p.request \in Request /\ p.version \in Version
    BY <1>0, Fields
  <2> QED
    BY <2>1, <2>2, <1>a, <1>c
<1>6. ASSUME NEW a \in writeAcks, BeginAck(a)
      PROVE  AckInv' /\ KeptUntilAcked
  <2>1. /\ UNCHANGED <<store, pending, assigned>>
        /\ writeAcks' \subseteq writeAcks
        /\ \A j \in acking' :
             \/ j \in acking
             \/ \E e \in pending :
                  /\ e.node = a.to /\ IdOf[e.request] = a.id
                  /\ j.node = e.node /\ j.request = e.request
                  /\ j.version = e.version
    BY <1>6 DEF BeginAck, pending_of
  <2>2. \A e \in pending : /\ e.request \in Request
                           /\ e.version = assigned[e.request]
    BY <1>0, Fields DEF WriteInv, Stamped
  <2>3. \A j \in acking' :
          CommittedBeyond(j.node, KeyOf[j.request], j.version)
    BY <2>1, <2>2 DEF AckInv, AcksCommitted
  <2>4. AcksCommitted'
    BY <2>1, <2>3
    DEF AckInv, AcksCommitted, CommittedBeyond, tail_version
  <2>5. CleanBelowTail'
    BY <2>1, TailAhead
  <2> QED
    BY <2>1, <2>4, <2>5, <1>b DEF AckInv
<1>7. ASSUME NEW j \in acking, FinishAck(j)
      PROVE  AckInv' /\ KeptUntilAcked
  <2>1. /\ UNCHANGED assigned
        /\ acking' \subseteq acking
        /\ pending' = pending \ pending_of(j.node, IdOf[j.request])
        /\ \A a \in writeAcks' :
             a \in writeAcks \/ a = write_ack(j.node, j.request)
    BY <1>7 DEF FinishAck
  <2>2. /\ store'[j.node][KeyOf[j.request]].clean.version >= j.version
        /\ \A n \in Node, k \in Key :
             \/ store'[n][k].clean = store[n][k].clean
             \/ /\ k = KeyOf[j.request]
                /\ store'[n][k].clean.version = j.version
    BY <1>7, FinishAckStep
  <2>3. /\ j.node \in Node /\ j.request \in Request /\ j.version \in Version
        /\ KeyOf[j.request] \in Key
        /\ j.version = assigned[j.request]
    BY <1>0, Fields DEF WriteInv, Stamped
  <2>4. CommittedBeyond(j.node, KeyOf[j.request], j.version)
    BY DEF AckInv, AcksCommitted
  <2>5. tail_version(KeyOf[j.request])' >= j.version
    BY AcksCarried, <2>1 DEF CommittedBeyond
  <2>6. \A s \in Request :
          IdOf[s] = write_ack(j.node, j.request).id =>
            /\ assigned'[s] # 0
            /\ CommittedBeyond(write_ack(j.node, j.request).to, KeyOf[s],
                               assigned[s])'
    BY <2>1, <2>2, <2>3, <2>5, NewAck
  <2>7. AcksCommitted'
    BY <2>1, <2>6, AcksCarried DEF AcksCommitted
  <2>8. CleanBelowTail'
    <3>1. \A n \in Node, k \in Key :
            \/ store'[n][k].clean = store[n][k].clean
            \/ store'[n][k].clean.version <= tail_version(k)
      <4>1. tail_version(KeyOf[j.request]) \in Nat
        BY <1>0, <2>3, Ring, Numbers DEF TypeOK, tail_version
      <4> QED
        BY <4>1, <2>2, <2>3, <2>4, Numbers DEF CommittedBeyond
    <3> QED
      BY <3>1, TailAhead
  \* Only entries of this very request are erased.
  <2>9. KeptUntilAcked
    <3> SUFFICES ASSUME NEW e \in pending, e \notin pending'
                 PROVE  store[next_index(e.node)][KeyOf[e.request]]
                          .clean.version >= e.version
      BY DEF KeptUntilAcked
    <3>1. e.node = j.node /\ IdOf[e.request] = IdOf[j.request]
      BY <2>1 DEF pending_of
    <3>2. e.request = j.request
      BY <1>0, <2>3, <3>1, Fields DEF DistinctIds
    <3>3. e.version = j.version
      BY <2>3, <3>2 DEF WriteInv, Stamped
    <3> QED
      BY <2>4, <3>1, <3>2, <3>3 DEF CommittedBeyond
  <2> QED
    BY <2>7, <2>8, <2>9 DEF AckInv
<1>8. ASSUME NEW n \in Node, NEW due \in SUBSET pending, CollectExpired(n, due)
      PROVE  AckInv' /\ KeptUntilAcked
  <2>1. /\ UNCHANGED <<store, writeAcks, acking, assigned>>
        /\ pending' = (pending \ due) \cup
                        {[e EXCEPT !.retries = @ + 1] : e \in due}
    BY <1>8 DEF CollectExpired
  <2>2. \A e \in due : /\ [e EXCEPT !.retries = @ + 1].node = e.node
                       /\ [e EXCEPT !.retries = @ + 1].request = e.request
    BY <1>0 DEF TypeOK, PendingEntry
  <2>3. \A e \in pending : \E f \in pending' :
          f.node = e.node /\ f.request = e.request
    BY <2>1, <2>2
  <2> QED
    BY <2>1, <2>3, <1>a, <1>b
<1>9. ASSUME NEW j \in expired, ReForward(j)
      PROVE  AckInv' /\ KeptUntilAcked
  <2>1. /\ UNCHANGED <<store, writeAcks, acking, assigned>>
        /\ forward_put(j.node, j.request, j.version)
    BY <1>9 DEF ReForward
  <2>2. j.node \in Node /\ j.request \in Request /\ j.version \in Version
    BY <1>0, Fields
  <2> QED
    BY <2>1, <2>2, <1>a, <1>c
<1>10. ASSUME Lose PROVE AckInv' /\ KeptUntilAcked
  <2>1. /\ UNCHANGED <<store, pending, acking, assigned>>
        /\ writeAcks' \subseteq writeAcks
    BY <1>10 DEF Lose, LoseForward, LoseAck
  <2> QED
    BY <2>1, <1>a, <1>b
<1> QED
  BY <1>1, <1>2, <1>3, <1>4, <1>5, <1>6, <1>7, <1>8, <1>9, <1>10
  DEF Next, Deliver, HandlePut, FinishPut, HandleAck, RetryLoop

LEMMA AckInvariant ==
  ASSUME DistinctIds
  PROVE  Spec => [](WriteInv /\ AckInv)
<1>1. Init => WriteInv /\ AckInv
  <2>1. Init => AcksCommitted
    BY DEF Init, AcksCommitted
  <2>2. Init => CleanBelowTail
    <3> SUFFICES ASSUME Init PROVE CleanBelowTail
      OBVIOUS
    <3>1. \A n \in Node, k \in Key : store[n][k].clean.version = 0
      BY DEF Init, EmptyStore
    <3> QED
      BY <3>1, Ring DEF CleanBelowTail, tail_version
  <2> QED
    BY <2>1, <2>2, WriteInit DEF AckInv
<1>2. (WriteInv /\ AckInv) /\ [Next]_vars => (WriteInv /\ AckInv)'
  <2> SUFFICES ASSUME WriteInv, AckInv, [Next]_vars
               PROVE  WriteInv' /\ AckInv'
    OBVIOUS
  <2>1. WriteInv' /\ Grows
    BY WriteNext
  <2>2. CASE Next
    BY <2>1, <2>2, AckStep
  <2>3. CASE UNCHANGED vars
    BY <2>1, <2>3
    DEF vars, AckInv, AcksCommitted, CommittedBeyond, CleanBelowTail,
        tail_version
  <2> QED
    BY <2>1, <2>2, <2>3
<1> QED
  BY <1>1, <1>2, PTL DEF Spec

\* When no two requests share an id, no server commits ahead of the tail, so
\* what a read takes from a clean record is committed.
THEOREM NoServerAheadOfTail ==
  ASSUME DistinctIds
  PROVE  Spec => []CleanBelowTail
<1>1. AckInv => CleanBelowTail
  BY DEF AckInv
<1> QED
  BY AckInvariant, <1>1, PTL

\* When no two requests share an id, a pending entry is given up only after
\* the successor has committed the write.
THEOREM PendingKeptUntilAcked ==
  ASSUME DistinctIds
  PROVE  Spec => PendingUntilAcked
<1>1. (WriteInv /\ AckInv) /\ [Next]_vars => [KeptUntilAcked]_vars
  BY WriteNext, AckStep
<1> QED
  BY AckInvariant, <1>1, PTL DEF Spec, PendingUntilAcked, KeptUntilAcked

-----------------------------------------------------------------------------
(***************************************************************************)
(* Reads while writes go on: the version the tail answers with is found by *)
(* the server that asked, and reads and writes together implement the      *)
(* abstract store.                                                         *)
(*                                                                         *)
(* Two facts are added to the invariant of the writes.  A write reaches a  *)
(* server only when every server before it on the chain of its key holds   *)
(* it, so what the tail has committed is held everywhere.  And the head has*)
(* given the versions 1..n of a key to n writes, n being the latest version*)
(* it holds.                                                               *)
(***************************************************************************)
\* How many servers come before n on the chain of k.
place(k, n) == IF n >= HeadIndex[k] THEN n - HeadIndex[k]
                                    ELSE n + RingSize - HeadIndex[k]

HeldBefore(k, n, v) ==
  \A m \in Node : place(k, m) < place(k, n) => holds(store[m][k], v)

recorded(s, v) == s.clean.version = v \/ s.dirty[v] # NoValue

\* Whatever is recorded by a server, worked on there or on its way to it is
\* held by the servers before it, and a tail sends nothing on.
PassedAlong ==
  /\ \A n \in Node, k \in Key, v \in Version :
       recorded(store[n][k], v) => HeldBefore(k, n, v)
  /\ \A x \in pending \cup expired \cup puts :
       HeldBefore(KeyOf[x.request], x.node, x.version)
  /\ \A m \in forwards : HeldBefore(KeyOf[m.request], m.to, m.version)
  /\ \A x \in pending \cup expired : x.node # tail_index(KeyOf[x.request])

writes_of(k) == {r \in Request : KeyOf[r] = k /\ assigned[r] # 0}

latest_at_head(k) == get_latest_version(store[head_index(k)][k])

VersionsCounted ==
  \A k \in Key : /\ IsFiniteSet(writes_of(k))
                 /\ Cardinality(writes_of(k)) = latest_at_head(k)

ChainInv == WriteInv /\ PassedAlong /\ VersionsCounted

\* A handle_get thread between its begin and its response.
Getting == [step : {"query", "dirty", "value", "version"}, node : Node,
            key : Key, floor : 0..MaxVersion, committed : 0..MaxVersion,
            value : Request \cup {NoValue}]
Response == [step : {"done"},
             error : {"", "NOT_FOUND", "TAIL_UNAVAILABLE",
                      "VERSION_NOT_FOUND"},
             value : Request \cup {NoValue}, version : 0..MaxVersion]

\* floor was committed when the Get began.  From the tail's answer on that
\* version, and from "value" on also floor itself, is found at the server.
GettingInv(g) ==
  /\ g.floor <= tail_version(g.key)
  /\ g.committed <= tail_version(g.key)
  /\ g.step = "query" => g.committed = 0
  /\ g.step = "dirty" => /\ g.committed \in Version
                         /\ g.floor <= g.committed
                         /\ holds(store[g.node][g.key], g.committed)
  /\ g.step \in {"value", "version"} =>
       /\ g.floor <= clean_of(g).version
       /\ g.committed <= clean_of(g).version
  /\ g.step = "version" =>
       /\ g.value \in Request
       /\ KeyOf[g.value] = g.key
       /\ assigned[g.value] # 0
       /\ g.floor <= assigned[g.value]
       /\ assigned[g.value] <= clean_of(g).version

ResponseInv(g) ==
  /\ g.error # "VERSION_NOT_FOUND"
  /\ g.error = "" => /\ g.value \in Request
                     /\ assigned[g.value] # 0
                     /\ assigned[g.value] <= g.version

GetsInv ==
  \A c \in Reader :
    \/ gets[c] = Idle
    \/ gets[c] \in Getting /\ GettingInv(gets[c])
    \/ gets[c] \in Response /\ ResponseInv(gets[c])

ReadInv ==
  /\ ChainInv
  /\ gets \in [Reader -> {Idle} \cup Getting \cup Response]
  /\ GetsInv

\* With ids of their own the value a Get has read is committed at the tail.
ValueCommitted ==
  \A c \in Reader :
    gets[c].step = "version"
      => assigned[gets[c].value] <= tail_version(gets[c].key)

-----------------------------------------------------------------------------
\* The chain of a key starts at its head and ends at its tail, and the server
\* after any but the tail is the next one on the ring.
LEMMA Places ==
  ASSUME NEW k \in Key
  PROVE  /\ \A n \in Node : /\ place(k, n) \in Nat
                            /\ place(k, head_index(k)) <= place(k, n)
                            /\ place(k, n) <= place(k, tail_index(k))
         /\ \A n, m \in Node : place(k, n) = place(k, m) => n = m
         /\ \A n \in Node :
              n # tail_index(k) => place(k, next_index(n)) = place(k, n) + 1
BY ReplicationAssumption
DEF Node, place, head_index, tail_index, prev_index, next_index

LEMMA HeldBeforeCarried ==
  ASSUME Grows, NEW k \in Key, NEW n \in Node, NEW v \in Version,
         HeldBefore(k, n, v)
  PROVE  HeldBefore(k, n, v)'
BY DEF HeldBefore, Grows

\* What a server sends on is held by the servers before its successor.
LEMMA HeldBeforeNext ==
  ASSUME NEW k \in Key, NEW n \in Node, NEW v \in Version,
         n # tail_index(k), HeldBefore(k, n, v), holds(store[n][k], v)
  PROVE  HeldBefore(k, next_index(n), v)
<1> SUFFICES ASSUME NEW m \in Node, place(k, m) < place(k, next_index(n))
             PROVE  holds(store[m][k], v)
  BY DEF HeldBefore
<1>1. place(k, m) < place(k, n) + 1
  BY Places
<1>2. place(k, m) < place(k, n) \/ m = n
  BY <1>1, Places
<1> QED
  BY <1>2 DEF HeldBefore

\* What the tail has committed is held by every server.
LEMMA HeldEverywhere ==
  ASSUME WriteInv, PassedAlong, NEW k \in Key, tail_version(k) \in Version,
         NEW n \in Node
  PROVE  holds(store[n][k], tail_version(k))
<1>1. tail_index(k) \in Node
  BY Ring
<1>2. HeldBefore(k, tail_index(k), tail_version(k))
  BY <1>1 DEF PassedAlong, recorded, tail_version
<1>3. CASE n = tail_index(k)
  BY <1>3, Numbers DEF holds, tail_version
<1>4. CASE n # tail_index(k)
  <2>1. place(k, n) < place(k, tail_index(k))
    BY <1>1, <1>4, Places
  <2> QED
    BY <2>1, <1>2 DEF HeldBefore
<1> QED
  BY <1>3, <1>4

\* The latest version is the greatest one recorded.
LEMMA LatestRecorded ==
  ASSUME NEW s \in Store
  PROVE  /\ \A v \in Version : recorded(s, v) => v <= get_latest_version(s)
         /\ \A v \in Version : holds(s, v) => v <= get_latest_version(s)
         /\ get_latest_version(s) # 0 =>
              /\ get_latest_version(s) \in Version
              /\ recorded(s, get_latest_version(s))
<1>1. /\ get_latest_version(s) \in 0..MaxVersion
      /\ get_latest_version(s) \in {s.clean.version} \cup dirty_versions(s)
      /\ s.clean.version <= get_latest_version(s)
      /\ \A w \in dirty_versions(s) : w <= get_latest_version(s)
  BY LatestVersion
<1>2. MaxVersion \in Nat /\ Version = 1..MaxVersion
      /\ s.clean.version \in 0..MaxVersion
  BY Numbers DEF Version
<1>3. \A v \in Version : recorded(s, v) => v <= get_latest_version(s)
  BY <1>1, <1>2 DEF recorded, dirty_versions
<1>4. \A v \in Version : holds(s, v) => v <= get_latest_version(s)
  BY <1>1, <1>2 DEF holds, dirty_versions
<1>5. get_latest_version(s) # 0 => get_latest_version(s) \in Version
  BY <1>1, <1>2
<1>6. get_latest_version(s) # 0 => recorded(s, get_latest_version(s))
  BY <1>1, <1>2 DEF recorded, dirty_versions
<1> QED
  BY <1>3, <1>4, <1>5, <1>6

\* A step that forgets nothing and records nothing newer keeps the latest one.
LEMMA LatestKept ==
  ASSUME NEW s \in Store, NEW t \in Store,
         \A v \in Version : holds(s, v) => holds(t, v),
         \A v \in Version : recorded(t, v) => v <= get_latest_version(s)
  PROVE  get_latest_version(t) = get_latest_version(s)
<1>1. /\ get_latest_version(s) \in Nat /\ get_latest_version(t) \in Nat
  BY LatestVersion, Numbers
<1>2. get_latest_version(t) <= get_latest_version(s)
  <2>1. CASE get_latest_version(t) = 0
    BY <1>1, <2>1
  <2>2. CASE get_latest_version(t) # 0
    BY <2>2, LatestRecorded
  <2> QED
    BY <2>1, <2>2
<1>3. get_latest_version(s) <= get_latest_version(t)
  <2>1. CASE get_latest_version(s) = 0
    BY <1>1, <2>1
  <2>2. CASE get_latest_version(s) # 0
    <3>1. /\ get_latest_version(s) \in Version
          /\ recorded(s, get_latest_version(s))
      BY <2>2, LatestRecorded
    <3>2. holds(s, get_latest_version(s))
      BY <3>1, Numbers DEF recorded, holds
    <3> QED
      BY <3>1, <3>2, LatestRecorded
  <2> QED
    BY <2>1, <2>2
<1> QED
  BY <1>1, <1>2, <1>3

-----------------------------------------------------------------------------
LEMMA PassedCarried ==
  ASSUME WriteInv', Grows,
         \A n \in Node, k \in Key, v \in Version :
           recorded(store'[n][k], v) => HeldBefore(k, n, v),
         \A x \in pending' \cup expired' \cup puts' :
           HeldBefore(KeyOf[x.request], x.node, x.version),
         \A m \in forwards' : HeldBefore(KeyOf[m.request], m.to, m.version),
         \A x \in pending' \cup expired' : x.node # tail_index(KeyOf[x.request])
  PROVE  PassedAlong'
<1>1. /\ \A x \in pending' \cup expired' \cup puts' :
           /\ x.node \in Node /\ x.version \in Version
           /\ KeyOf[x.request] \in Key
      /\ \A m \in forwards' : /\ m.to \in Node /\ m.version \in Version
                              /\ KeyOf[m.request] \in Key
  BY Ring DEF WriteInv, TypeOK, PendingEntry, Job, PutThread, Forward
<1>2. \A n \in Node, k \in Key, v \in Version :
        HeldBefore(k, n, v) => HeldBefore(k, n, v)'
  BY HeldBeforeCarried
<1>3. \A n \in Node, k \in Key, v \in Version :
        recorded(store'[n][k], v) => HeldBefore(k, n, v)'
  BY <1>2
<1>4. \A x \in pending' \cup expired' \cup puts' :
        HeldBefore(KeyOf[x.request], x.node, x.version)'
  BY <1>1, <1>2
<1>5. \A m \in forwards' : HeldBefore(KeyOf[m.request], m.to, m.version)'
  BY <1>1, <1>2
<1> QED
  BY <1>3, <1>4, <1>5 DEF PassedAlong, recorded

\* Steps that give no version: what they record was recorded by the server, or
\* comes from one of its handlers.
LEMMA RecordsKept ==
  ASSUME ChainInv, WriteInv', Grows, assigned' = assigned,
         \A n \in Node, k \in Key, v \in Version :
           recorded(store'[n][k], v) =>
             \/ recorded(store[n][k], v)
             \/ \E p \in puts : /\ p.node = n /\ KeyOf[p.request] = k
                                /\ p.version = v
  PROVE  /\ VersionsCounted'
         /\ \A n \in Node, k \in Key, v \in Version :
              recorded(store'[n][k], v) => HeldBefore(k, n, v)
<1>0. TypeOK /\ TypeOK'
  BY DEF ChainInv, WriteInv
<1>1. \A n \in Node, k \in Key, v \in Version :
        recorded(store'[n][k], v) => HeldBefore(k, n, v)
  BY DEF ChainInv, PassedAlong
<1>2. ASSUME NEW k \in Key
      PROVE  latest_at_head(k)' = latest_at_head(k)
  <2> DEFINE s == store[head_index(k)][k]
             t == store'[head_index(k)][k]
  <2>1. head_index(k) \in Node
    BY Ring
  <2>2. s \in Store /\ t \in Store
    BY <1>0, <2>1 DEF TypeOK
  <2>3. \A v \in Version : holds(s, v) => holds(t, v)
    BY <2>1 DEF Grows
  <2>4. ASSUME NEW v \in Version, recorded(t, v)
        PROVE  v <= get_latest_version(s)
    <3>1. CASE recorded(s, v)
      BY <2>2, <3>1, LatestRecorded
    \* A version on its way was given by the head, which holds it.
    <3>2. CASE \E p \in puts : /\ p.node = head_index(k)
                               /\ KeyOf[p.request] = k /\ p.version = v
      <4>1. PICK r \in Request : KeyOf[r] = k /\ assigned[r] = v
        BY <3>2, <1>0, Fields DEF ChainInv, WriteInv, Stamped
      <4>2. holds(s, v)
        BY <4>1, Numbers DEF ChainInv, WriteInv, HeadHolds
      <4> HIDE DEF s
      <4> QED
        BY <4>2, <2>2, LatestRecorded
    <3> QED
      BY <2>1, <2>4, <3>1, <3>2
  <2>5. get_latest_version(t) = get_latest_version(s)
    <3> HIDE DEF s, t
    <3> QED
      BY <2>2, <2>3, <2>4, LatestKept
  <2> QED
    BY <2>5 DEF latest_at_head
<1>3. \A k \in Key : writes_of(k)' = writes_of(k)
  BY DEF writes_of
<1>4. VersionsCounted'
  BY <1>2, <1>3 DEF ChainInv, VersionsCounted
<1> QED
  BY <1>1, <1>4

\* A commit of a version held records nothing new, and touches one server's
\* record of one key.
LEMMA CommitRecords ==
  ASSUME StoreType, NEW n \in Node, NEW k \in Key, NEW v \in Version,
         holds(store[n][k], v), Commits(n, k, v)
  PROVE  /\ \A m \in Node, l \in Key, w \in Version :
              recorded(store'[m][l], w) => recorded(store[m][l], w)
         /\ \A m \in Node, l \in Key :
              \/ store'[m][l].clean.version = store[m][l].clean.version
              \/ m = n /\ l = k
         /\ store'[n][k].clean.version \in {store[n][k].clean.version, v}
<1>1. \A m \in Node, l \in Key :
        /\ \/ store'[m][l].clean = store[m][l].clean
           \/ /\ m = n /\ l = k
              /\ store[m][l].dirty[v] # NoValue
              /\ store'[m][l].clean =
                   [version |-> v, value |-> store[m][l].dirty[v]]
        /\ \A w \in Version :
             \/ store'[m][l].dirty[w] = store[m][l].dirty[w]
             \/ store'[m][l].dirty[w] = NoValue
  BY CommitGrows
<1>2. \A m \in Node, l \in Key :
        \/ store'[m][l].clean = store[m][l].clean
        \/ /\ m = n /\ l = k
           /\ store[m][l].dirty[v] # NoValue
           /\ store'[m][l].clean.version = v
  <2> TAKE m \in Node, l \in Key
  <2> DEFINE x == [version |-> v, value |-> store[m][l].dirty[v]]
  <2>1. x.version = v
    OBVIOUS
  <2>2. \/ store'[m][l].clean = store[m][l].clean
        \/ /\ m = n /\ l = k
           /\ store[m][l].dirty[v] # NoValue
           /\ store'[m][l].clean = x
    BY <1>1
  <2> HIDE DEF x
  <2> QED
    BY <2>1, <2>2
<1>3. ASSUME NEW m \in Node, NEW l \in Key, NEW w \in Version,
             recorded(store'[m][l], w)
      PROVE  recorded(store[m][l], w)
  <2>1. CASE store'[m][l].dirty[w] # NoValue
    BY <2>1, <1>1 DEF recorded
  <2>2. CASE store'[m][l].clean.version = w
    BY <2>2, <1>2 DEF recorded
  <2> QED
    BY <1>3, <2>1, <2>2 DEF recorded
<1> QED
  BY <1>2, <1>3

-----------------------------------------------------------------------------
\* What a step of the writes is for the abstract store: a write is given the
\* next version of its key, a write that has a version becomes the committed
\* one of its key, or neither.
TailsKept == \A k \in Key : tail_version(k)' = tail_version(k)

OrderStep(r) ==
  /\ assigned[r] = 0
  /\ assigned' = [assigned EXCEPT ![r] = Cardinality(writes_of(KeyOf[r])) + 1]
  /\ TailsKept

CommitStep(r) ==
  /\ assigned[r] # 0
  /\ tail_version(KeyOf[r])' = assigned[r]
  /\ \A k \in Key : k # KeyOf[r] => tail_version(k)' = tail_version(k)
  /\ assigned' = assigned

StoreStep ==
  \/ \E r \in Request : OrderStep(r) \/ CommitStep(r)
  \/ assigned' = assigned /\ TailsKept

\* Steps that touch no store.
LEMMA ChainSameStore ==
  ASSUME ChainInv, WriteInv', Grows, UNCHANGED <<store, assigned>>
  PROVE  /\ VersionsCounted' /\ StoreStep
         /\ \A n \in Node, k \in Key, v \in Version :
              recorded(store'[n][k], v) => HeldBefore(k, n, v)
<1>1. StoreStep
  BY DEF StoreStep, TailsKept, tail_version
<1> QED
  BY <1>1, RecordsKept

\* Steps that commit a version held.
LEMMA ChainCommit ==
  ASSUME ChainInv, WriteInv', Grows, NEW n \in Node, NEW r \in Request,
         assigned[r] # 0, holds(store[n][KeyOf[r]], assigned[r]),
         Commits(n, KeyOf[r], assigned[r]), assigned' = assigned
  PROVE  /\ VersionsCounted' /\ StoreStep
         /\ \A m \in Node, k \in Key, v \in Version :
              recorded(store'[m][k], v) => HeldBefore(k, m, v)
<1> DEFINE k == KeyOf[r]
           v == assigned[r]
<1>0. TypeOK /\ StoreType
  BY DEF ChainInv, WriteInv, TypeOK, StoreType
<1>1. k \in Key /\ v \in Version /\ \A l \in Key : tail_index(l) \in Node
  BY <1>0, Ring, KVStoreAssumption DEF TypeOK, Version
<1> HIDE DEF k, v
<1>2. /\ \A m \in Node, l \in Key, w \in Version :
           recorded(store'[m][l], w) => recorded(store[m][l], w)
      /\ \A m \in Node, l \in Key :
           \/ store'[m][l].clean.version = store[m][l].clean.version
           \/ m = n /\ l = k
      /\ store'[n][k].clean.version \in {store[n][k].clean.version, v}
  BY <1>0, <1>1, CommitRecords DEF k, v
<1>3. /\ VersionsCounted'
      /\ \A m \in Node, l \in Key, w \in Version :
           recorded(store'[m][l], w) => HeldBefore(l, m, w)
  BY <1>2, RecordsKept
<1>4. \A l \in Key : l # k => tail_version(l)' = tail_version(l)
  BY <1>1, <1>2 DEF tail_version
<1>5. tail_version(k)' \in {tail_version(k), v}
  BY <1>1, <1>2 DEF tail_version
<1>6. StoreStep
  <2>1. CASE tail_version(k)' = v
    <3>1. CommitStep(r)
      BY <2>1, <1>4 DEF CommitStep, k, v
    <3> QED
      BY <3>1 DEF StoreStep
  <2>2. CASE tail_version(k)' = tail_version(k)
    <3>1. TailsKept
      BY <2>2, <1>4 DEF TailsKept
    <3> QED
      BY <3>1 DEF StoreStep
  <2> QED
    BY <1>5, <2>1, <2>2
<1> QED
  BY <1>3, <1>6

\* A write that is sent on is held up to and including its sender.
LEMMA ChainForward ==
  ASSUME ChainInv, WriteInv', Grows, NEW n \in Node, NEW r \in Request,
         NEW v \in Version, forward_put(n, r, v), UNCHANGED <<store, assigned>>,
         HeldBefore(KeyOf[r], n, v), holds(store[n][KeyOf[r]], v),
         n # tail_index(KeyOf[r]), puts' \subseteq puts, expired' \subseteq expired
  PROVE  /\ PassedAlong' /\ VersionsCounted' /\ StoreStep
<1>0. TypeOK /\ TypeOK'
  BY DEF ChainInv, WriteInv
<1>1. \A e \in pending' :
        \/ e \in pending
        \/ e.node = n /\ e.request = r /\ e.version = v
  BY <1>0, ForwardPut
<1>2. forwards' = forwards \cup
        {[to |-> next_index(n), request |-> r, version |-> v]}
  BY DEF forward_put
<1>3. HeldBefore(KeyOf[r], next_index(n), v)
  BY Ring, HeldBeforeNext
<1>4. \A x \in pending' \cup expired' \cup puts' :
        HeldBefore(KeyOf[x.request], x.node, x.version)
  BY <1>1 DEF ChainInv, PassedAlong
<1>5. \A m \in forwards' : HeldBefore(KeyOf[m.request], m.to, m.version)
  BY <1>2, <1>3 DEF ChainInv, PassedAlong
<1>6. \A x \in pending' \cup expired' : x.node # tail_index(KeyOf[x.request])
  BY <1>1 DEF ChainInv, PassedAlong
<1>7. /\ VersionsCounted' /\ StoreStep
      /\ \A m \in Node, k \in Key, w \in Version :
           recorded(store'[m][k], w) => HeldBefore(k, m, w)
  BY ChainSameStore
<1>8. PassedAlong'
  BY <1>4, <1>5, <1>6, <1>7, PassedCarried
<1> QED
  BY <1>7, <1>8

\* The head gives its key the next version.
LEMMA ChainClientPut ==
  ASSUME ChainInv, WriteInv', Grows, NEW r \in Request, HandleClientPut(r)
  PROVE  PassedAlong' /\ VersionsCounted' /\ StoreStep
<1>0. TypeOK /\ TypeOK'
  BY DEF ChainInv, WriteInv
<1> DEFINE k == KeyOf[r]
           n == head_index(k)
           v == latest_at_head(k) + 1
<1>1. /\ assigned[r] = 0
      /\ assigned' = [assigned EXCEPT ![r] = v]
      /\ UNCHANGED <<pending, forwards, expired>>
  BY DEF HandleClientPut, latest_at_head
<1>2. k \in Key /\ n \in Node /\ assigned'[r] = v
  BY <1>0, <1>1, Ring DEF TypeOK
<1>3. /\ v \in Version
      /\ puts' = puts \cup
           {[node |-> n, request |-> r, version |-> v, stale |-> FALSE,
             step |-> "finish"]}
      /\ holds(store'[n][k], v)
      /\ \A w \in Version : holds(store[n][k], w) => w < v
      /\ \A m \in Node, l \in Key :
           /\ store'[m][l].clean = store[m][l].clean
           /\ store'[m][l].dirty = IF m = n /\ l = k
                                   THEN [store[m][l].dirty EXCEPT ![v] = r]
                                   ELSE store[m][l].dirty
  <2> HIDE DEF v
  <2> QED
    BY <1>0, <1>2, ClientPutGrows
<1>4. latest_at_head(k) \in Nat
  BY <1>0, <1>2, LatestVersion, Numbers DEF TypeOK, latest_at_head
<1> HIDE DEF v
<1>5. \A m \in Node, l \in Key, w \in Version :
        recorded(store'[m][l], w) =>
          recorded(store[m][l], w) \/ (m = n /\ l = k /\ w = v)
  <2> SUFFICES ASSUME NEW m \in Node, NEW l \in Key, NEW w \in Version,
                      recorded(store'[m][l], w), ~ (m = n /\ l = k /\ w = v)
               PROVE  recorded(store[m][l], w)
    OBVIOUS
  <2>1. store[m][l].dirty \in [Version -> Value \cup {NoValue}]
    BY <1>0 DEF TypeOK, Store
  <2>2. store'[m][l].dirty[w] = store[m][l].dirty[w]
    BY <2>1, <1>3
  <2> QED
    BY <2>2, <1>3 DEF recorded
<1>6. \A w \in Version : HeldBefore(k, n, w)
  BY <1>2, Places DEF HeldBefore
<1>7. PassedAlong'
  <2>1. \A m \in Node, l \in Key, w \in Version :
          recorded(store'[m][l], w) => HeldBefore(l, m, w)
    BY <1>5, <1>6 DEF ChainInv, PassedAlong
  <2>2. \A x \in pending' \cup expired' \cup puts' :
          HeldBefore(KeyOf[x.request], x.node, x.version)
    BY <1>1, <1>3, <1>6 DEF ChainInv, PassedAlong
  <2>3. /\ \A m \in forwards' : HeldBefore(KeyOf[m.request], m.to, m.version)
        /\ \A x \in pending' \cup expired' :
             x.node # tail_index(KeyOf[x.request])
    BY <1>1 DEF ChainInv, PassedAlong
  <2> QED
    BY <2>1, <2>2, <2>3, PassedCarried
<1>8. /\ writes_of(k)' = writes_of(k) \cup {r}
      /\ r \notin writes_of(k)
      /\ \A l \in Key : l # k => writes_of(l)' = writes_of(l)
  <2>1. \A s \in Request : assigned'[s] = IF s = r THEN v ELSE assigned[s]
    BY <1>0, <1>1 DEF TypeOK
  <2>2. v # 0
    BY <1>3, Numbers
  <2> QED
    BY <1>1, <2>1, <2>2 DEF writes_of
<1>9. latest_at_head(k)' = v
  <2> DEFINE s == store[n][k]
             t == store'[n][k]
  <2>1. s \in Store /\ t \in Store
    BY <1>0, <1>2 DEF TypeOK
  <2>2. v <= get_latest_version(t)
    BY <2>1, <1>3, LatestRecorded
  <2>3. /\ get_latest_version(t) \in Version
        /\ recorded(t, get_latest_version(t))
    <3>1. get_latest_version(t) \in Nat /\ v \in Nat /\ v # 0
      BY <2>1, <1>3, LatestVersion, Numbers
    <3>2. get_latest_version(t) # 0
      BY <3>1, <2>2
    <3> QED
      BY <3>2, <2>1, LatestRecorded
  <2>4. get_latest_version(t) <= v
    <3>1. CASE recorded(s, get_latest_version(t))
      <4>1. holds(s, get_latest_version(t))
        BY <3>1, <2>3, Numbers DEF recorded, holds
      <4> QED
        BY <4>1, <2>3, <1>3, Numbers
    <3> QED
      BY <3>1, <2>3, <1>2, <1>3, <1>5, Numbers
  <2>5. latest_at_head(k)' = get_latest_version(t)
    BY DEF latest_at_head
  <2>6. get_latest_version(t) \in Nat /\ v \in Nat
    BY <2>3, <1>3, Numbers
  <2>7. get_latest_version(t) = v
    BY <2>2, <2>4, <2>6
  <2> QED
    BY <2>5, <2>7
<1>10. ASSUME NEW l \in Key, l # k
       PROVE  latest_at_head(l)' = latest_at_head(l)
  <2>1. /\ store'[head_index(l)][l].clean = store[head_index(l)][l].clean
        /\ store'[head_index(l)][l].dirty = store[head_index(l)][l].dirty
    BY <1>3, <1>10, Ring
  <2> QED
    BY <2>1 DEF latest_at_head, get_latest_version, dirty_versions
<1>11. Cardinality(writes_of(k)) + 1 = v
  BY <1>2 DEF ChainInv, VersionsCounted, v
<1>12. VersionsCounted'
  <2>1. /\ IsFiniteSet(writes_of(k))'
        /\ Cardinality(writes_of(k))' = latest_at_head(k)'
    BY <1>2, <1>8, <1>9, <1>11, FS_AddElement DEF ChainInv, VersionsCounted
  <2>2. \A l \in Key : l # k =>
          /\ IsFiniteSet(writes_of(l))'
          /\ Cardinality(writes_of(l))' = latest_at_head(l)'
    BY <1>8, <1>10 DEF ChainInv, VersionsCounted
  <2> QED
    BY <2>1, <2>2 DEF VersionsCounted
<1>13. TailsKept
  BY <1>3, Ring DEF TailsKept, tail_version
<1>14. OrderStep(r)
  BY <1>1, <1>11, <1>13 DEF OrderStep, k
<1> QED
  BY <1>7, <1>12, <1>14 DEF StoreStep

-----------------------------------------------------------------------------
LEMMA ChainStep ==
  ASSUME ChainInv, WriteInv', Grows, Next
  PROVE  PassedAlong' /\ VersionsCounted' /\ StoreStep
<1>0. /\ TypeOK /\ TypeOK' /\ StoreType
      /\ WriteInv /\ PassedAlong
  BY DEF ChainInv, WriteInv, TypeOK, StoreType
<1>1. CASE \E r \in Request : HandleClientPut(r)
  BY <1>1, ChainClientPut
<1>2. ASSUME NEW m \in forwards, HandleForwardedPut(m)
      PROVE  PassedAlong' /\ VersionsCounted' /\ StoreStep
  <2>1. /\ forwards' \subseteq forwards
        /\ UNCHANGED <<store, pending, expired, assigned>>
        /\ \A p \in puts' :
             \/ p \in puts
             \/ /\ p.node = m.to /\ p.request = m.request
                /\ p.version = m.version
    BY <1>2 DEF HandleForwardedPut, BeginForwardedPut
  <2>2. /\ VersionsCounted' /\ StoreStep
        /\ \A n \in Node, k \in Key, v \in Version :
             recorded(store'[n][k], v) => HeldBefore(k, n, v)
    BY <2>1, ChainSameStore
  <2>3. /\ \A x \in pending' \cup expired' \cup puts' :
             HeldBefore(KeyOf[x.request], x.node, x.version)
        /\ \A f \in forwards' : HeldBefore(KeyOf[f.request], f.to, f.version)
        /\ \A x \in pending' \cup expired' :
             x.node # tail_index(KeyOf[x.request])
    BY <1>0, <2>1 DEF PassedAlong
  <2> QED
    BY <2>2, <2>3, PassedCarried
\* Steps of the handlers that send nothing on: what is at hand after them was
\* at hand before.
<1>a. ASSUME VersionsCounted', StoreStep,
             \A n \in Node, k \in Key, v \in Version :
               recorded(store'[n][k], v) => HeldBefore(k, n, v),
             forwards' \subseteq forwards,
             \A x \in pending' \cup expired' :
               \E y \in pending \cup expired :
                 x.node = y.node /\ x.request = y.request
                   /\ x.version = y.version,
             \A x \in puts' :
               \E y \in puts : x.node = y.node /\ x.request = y.request
                                 /\ x.version = y.version
      PROVE  PassedAlong' /\ VersionsCounted' /\ StoreStep
  <2>1. \A x \in pending' \cup expired' \cup puts' :
          HeldBefore(KeyOf[x.request], x.node, x.version)
    <3> TAKE x \in pending' \cup expired' \cup puts'
    <3>1. PICK y \in pending \cup expired \cup puts :
            x.node = y.node /\ x.request = y.request /\ x.version = y.version
      BY <1>a
    <3> QED
      BY <3>1, <1>0 DEF PassedAlong
  <2>2. \A x \in pending' \cup expired' : x.node # tail_index(KeyOf[x.request])
    <3> TAKE x \in pending' \cup expired'
    <3>1. PICK y \in pending \cup expired :
            x.node = y.node /\ x.request = y.request /\ x.version = y.version
      BY <1>a
    <3> QED
      BY <3>1, <1>0 DEF PassedAlong
  <2>3. \A f \in forwards' : HeldBefore(KeyOf[f.request], f.to, f.version)
    BY <1>a, <1>0 DEF PassedAlong
  <2> QED
    BY <2>1, <2>2, <2>3, <1>a, PassedCarried
<1>3. ASSUME NEW p \in puts, StoreForwardedPut(p)
      PROVE  PassedAlong' /\ VersionsCounted' /\ StoreStep
  <2>1. /\ UNCHANGED <<pending, forwards, expired, assigned>>
        /\ puts' = (puts \ {p}) \cup {[p EXCEPT !.step = "finish"]}
    BY <1>3 DEF StoreForwardedPut
  <2>2. \A x \in puts' : \E y \in puts :
          x.node = y.node /\ x.request = y.request /\ x.version = y.version
    <3>1. LET q == [p EXCEPT !.step = "finish"]
          IN  q.node = p.node /\ q.request = p.request /\ q.version = p.version
      BY <1>0 DEF TypeOK, PutThread
    <3> QED
      BY <2>1, <3>1
  <2>3. \A m \in Node, l \in Key :
          /\ store'[m][l].clean = store[m][l].clean
          /\ \A w \in Version :
               \/ store'[m][l].dirty[w] = store[m][l].dirty[w]
               \/ m = p.node /\ l = KeyOf[p.request] /\ w = p.version
    BY <1>0, <1>3, StoreForwardedGrows
  <2>4. \A n \in Node, k \in Key, v \in Version :
          recorded(store'[n][k], v) =>
            \/ recorded(store[n][k], v)
            \/ \E q \in puts : /\ q.node = n /\ KeyOf[q.request] = k
                               /\ q.version = v
    BY <2>3 DEF recorded
  <2>5. /\ VersionsCounted'
        /\ \A n \in Node, k \in Key, v \in Version :
             recorded(store'[n][k], v) => HeldBefore(k, n, v)
    BY <2>1, <2>4, RecordsKept
  <2>6. StoreStep
    BY <2>1, <2>3, Ring DEF StoreStep, TailsKept, tail_version
  <2> QED
    BY <2>1, <2>2, <2>5, <2>6, <1>a
<1>4. ASSUME NEW p \in puts, FinishPutAtTail(p)
      PROVE  PassedAlong' /\ VersionsCounted' /\ StoreStep
  <2>1. /\ UNCHANGED <<pending, forwards, expired, assigned>>
        /\ puts' \subseteq puts
        /\ p.step = "finish"
        /\ \/ UNCHANGED store
           \/ Commits(p.node, KeyOf[p.request], p.version)
    BY <1>4 DEF FinishPutAtTail, Commits
  <2>2. /\ p.node \in Node /\ p.request \in Request /\ p.version \in Version
        /\ p.version = assigned[p.request]
        /\ holds(store[p.node][KeyOf[p.request]], p.version)
    BY <1>0, <2>1, Fields DEF WriteInv, Stamped, WorkHeld
  <2>3. /\ VersionsCounted' /\ StoreStep
        /\ \A n \in Node, k \in Key, v \in Version :
             recorded(store'[n][k], v) => HeldBefore(k, n, v)
    <3>1. CASE UNCHANGED store
      BY <2>1, <3>1, ChainSameStore
    <3>2. CASE Commits(p.node, KeyOf[p.request], p.version)
      BY <2>1, <2>2, <3>2, ChainCommit, Numbers
    <3> QED
      BY <2>1, <3>1, <3>2
  <2> QED
    BY <2>1, <2>3, <1>a
<1>5. ASSUME NEW p \in puts, FinishPutByForwarding(p)
      PROVE  PassedAlong' /\ VersionsCounted' /\ StoreStep
  <2>1. /\ forward_put(p.node, p.request, p.version)
        /\ UNCHANGED <<store, assigned, expired>>
        /\ puts' \subseteq puts
        /\ p.step = "finish" /\ p.node # tail_index(KeyOf[p.request])
    BY <1>5 DEF FinishPutByForwarding
  <2>2. /\ p.node \in Node /\ p.request \in Request /\ p.version \in Version
        /\ holds(store[p.node][KeyOf[p.request]], p.version)
        /\ HeldBefore(KeyOf[p.request], p.node, p.version)
    BY <1>0, <2>1, Fields DEF WriteInv, WorkHeld, PassedAlong
  <2> QED
    BY <2>1, <2>2, ChainForward
<1>6. ASSUME NEW a \in writeAcks, BeginAck(a)
      PROVE  PassedAlong' /\ VersionsCounted' /\ StoreStep
  <2>1. UNCHANGED <<store, assigned, pending, forwards, expired, puts>>
    BY <1>6 DEF BeginAck
  <2> QED
    BY <2>1, <1>a, ChainSameStore
<1>7. ASSUME NEW j \in acking, FinishAck(j)
      PROVE  PassedAlong' /\ VersionsCounted' /\ StoreStep
  <2>1. /\ UNCHANGED <<forwards, expired, puts, assigned>>
        /\ pending' \subseteq pending
        /\ Commits(j.node, KeyOf[j.request], j.version)
    BY <1>7 DEF FinishAck, Commits
  <2>2. /\ j.node \in Node /\ j.request \in Request /\ j.version \in Version
        /\ j.version = assigned[j.request]
        /\ holds(store[j.node][KeyOf[j.request]], j.version)
    BY <1>0, Fields DEF WriteInv, Stamped, WorkHeld
  <2>3. /\ VersionsCounted' /\ StoreStep
        /\ \A n \in Node, k \in Key, v \in Version :
             recorded(store'[n][k], v) => HeldBefore(k, n, v)
    BY <2>1, <2>2, ChainCommit, Numbers
  <2> QED
    BY <2>1, <2>3, <1>a
<1>8. ASSUME NEW n \in Node, NEW due \in SUBSET pending, CollectExpired(n, due)
      PROVE  PassedAlong' /\ VersionsCounted' /\ StoreStep
  <2>1. /\ UNCHANGED <<store, assigned, forwards, puts>>
        /\ \A e \in due : e.node = n
        /\ pending' = (pending \ due) \cup
                        {[e EXCEPT !.retries = @ + 1] : e \in due}
        /\ expired' = expired \cup
             {[node |-> n, request |-> e.request, version |-> e.version]
                : e \in due}
    BY <1>8 DEF CollectExpired
  <2>2. \A e \in due :
          LET f == [e EXCEPT !.retries = @ + 1]
          IN  f.node = e.node /\ f.request = e.request /\ f.version = e.version
    BY <1>0 DEF TypeOK, PendingEntry
  <2>3. \A x \in pending' : \E y \in pending :
          x.node = y.node /\ x.request = y.request /\ x.version = y.version
    <3> TAKE x \in pending'
    <3>1. CASE x \in pending
      BY <3>1
    <3>2. CASE x \notin pending
      <4>1. PICK e \in due : x = [e EXCEPT !.retries = @ + 1]
        BY <2>1, <3>2
      <4> QED
        BY <2>2, <4>1
    <3> QED
      BY <3>1, <3>2
  <2>4. \A x \in expired' : \E y \in pending \cup expired :
          x.node = y.node /\ x.request = y.request /\ x.version = y.version
    BY <2>1
  <2> QED
    BY <2>1, <2>3, <2>4, <1>a, ChainSameStore
<1>9. ASSUME NEW j \in expired, ReForward(j)
      PROVE  PassedAlong' /\ VersionsCounted' /\ StoreStep
  <2>1. /\ forward_put(j.node, j.request, j.version)
        /\ UNCHANGED <<store, assigned, puts>>
        /\ expired' \subseteq expired
    BY <1>9 DEF ReForward
  <2>2. /\ j.node \in Node /\ j.request \in Request /\ j.version \in Version
        /\ holds(store[j.node][KeyOf[j.request]], j.version)
        /\ HeldBefore(KeyOf[j.request], j.node, j.version)
        /\ j.node # tail_index(KeyOf[j.request])
    BY <1>0, Fields DEF WriteInv, WorkHeld, PassedAlong
  <2> QED
    BY <2>1, <2>2, ChainForward
<1>10. CASE Lose
  <2>1. /\ UNCHANGED <<store, assigned, pending, expired, puts>>
        /\ forwards' \subseteq forwards
    BY <1>10 DEF Lose, LoseForward, LoseAck
  <2> QED
    BY <2>1, <1>a, ChainSameStore
<1> QED
  BY <1>1, <1>2, <1>3, <1>4, <1>5, <1>6, <1>7, <1>8, <1>9, <1>10
  DEF Next, Deliver, HandlePut, FinishPut, HandleAck, RetryLoop

LEMMA ChainInit == Init => ChainInv
<1> SUFFICES ASSUME Init PROVE ChainInv
  OBVIOUS
<1>1. \A n \in Node, k \in Key :
        /\ store[n][k].clean.version = 0
        /\ \A v \in Version : store[n][k].dirty[v] = NoValue
  BY DEF Init, EmptyStore
<1>2. PassedAlong
  BY <1>1, Numbers DEF Init, PassedAlong, recorded
<1>3. ASSUME NEW k \in Key
      PROVE  /\ IsFiniteSet(writes_of(k))
             /\ Cardinality(writes_of(k)) = latest_at_head(k)
  <2>1. writes_of(k) = {}
    BY DEF Init, writes_of
  <2>2. latest_at_head(k) = 0
    <3>1. store[head_index(k)][k] \in Store
      BY WriteInit, Ring DEF WriteInv, TypeOK
    <3>2. \A v \in Version : ~ recorded(store[head_index(k)][k], v)
      BY <1>1, Ring, Numbers DEF recorded
    <3> QED
      BY <3>1, <3>2, LatestRecorded DEF latest_at_head
  <2> QED
    BY <2>1, <2>2, FS_EmptySet
<1> QED
  BY <1>2, <1>3, WriteInit DEF ChainInv, VersionsCounted

LEMMA ChainNext ==
  ASSUME ChainInv, [Next]_vars
  PROVE  ChainInv' /\ Grows /\ StoreStep
<1>1. WriteInv' /\ Grows
  BY WriteNext DEF ChainInv
<1>2. CASE Next
  BY <1>1, <1>2, ChainStep DEF ChainInv
<1>3. CASE UNCHANGED vars
  <2>1. VersionsCounted' /\ StoreStep
    BY <1>1, <1>3, ChainSameStore DEF vars
  <2>2. PassedAlong'
    BY <1>3 DEF vars, ChainInv, PassedAlong, recorded, HeldBefore
  <2> QED
    BY <1>1, <2>1, <2>2 DEF ChainInv
<1> QED
  BY <1>1, <1>2, <1>3

-----------------------------------------------------------------------------
LEMMA VersionNumbers == 0..MaxVersion \subseteq Nat
BY Numbers

LEMMA Tails ==
  ASSUME TypeOK
  PROVE  \A k \in Key : /\ tail_index(k) \in Node
                        /\ tail_version(k) \in 0..MaxVersion
                        /\ tail_version(k) \in Nat
                        /\ tail_version(k) # 0 => tail_version(k) \in Version
<1> SUFFICES ASSUME NEW k \in Key
             PROVE  /\ tail_index(k) \in Node
                    /\ tail_version(k) \in 0..MaxVersion
  BY Numbers DEF Version
<1>1. tail_index(k) \in Node
  BY Ring
<1>2. store[tail_index(k)][k] \in Store
  BY <1>1 DEF TypeOK
<1> QED
  BY <1>1, <1>2, Numbers DEF tail_version

LEMMA CleanRecords ==
  ASSUME WriteInv, NEW n \in Node, NEW k \in Key
  PROVE  LET c == store[n][k].clean
         IN  /\ c.version \in 0..MaxVersion /\ c.version \in Nat
             /\ c.version # 0 => /\ c.value \in Request
                                 /\ KeyOf[c.value] = k
                                 /\ assigned[c.value] = c.version
<1>1. store[n][k].clean \in Record
  BY DEF WriteInv, TypeOK, Store
<1> QED
  BY <1>1, KVStoreAssumption DEF WriteInv, RecordsAgree, Record, Request

\* A version is given once and for all.
LEMMA AssignedKept ==
  ASSUME TypeOK, StoreStep
  PROVE  \A r \in Request : assigned[r] # 0 => assigned'[r] = assigned[r]
BY DEF TypeOK, StoreStep, OrderStep, CommitStep

\* What is known of a Get survives the steps of the writes.
LEMMA GettingCarried ==
  ASSUME TypeOK, TypeOK', Grows, StoreStep,
         NEW g \in Getting, GettingInv(g)
  PROVE  GettingInv(g)'
<1>1. /\ g.node \in Node /\ g.key \in Key
      /\ g.floor \in Nat /\ g.committed \in Nat
  BY Numbers DEF Getting
<1>2. /\ clean_of(g).version \in Nat
      /\ clean_of(g)'.version \in Nat
      /\ clean_of(g)'.version >= clean_of(g).version
  BY <1>1, Numbers DEF TypeOK, Grows, clean_of
<1>3. /\ tail_version(g.key) \in Nat
      /\ tail_version(g.key)' \in Nat
      /\ tail_version(g.key)' >= tail_version(g.key)
  BY <1>1, Ring, Numbers DEF TypeOK, Grows, tail_version
<1>4. g.step = "dirty" => holds(store'[g.node][g.key], g.committed)
  BY <1>1 DEF GettingInv, Grows
<1>5. g.step = "version" => /\ assigned'[g.value] = assigned[g.value]
                            /\ assigned[g.value] \in Nat
  BY AssignedKept, Numbers DEF GettingInv, TypeOK
<1> HIDE DEF Getting
<1>6. /\ g.floor <= tail_version(g.key)'
      /\ g.committed <= tail_version(g.key)'
      /\ g.step \in {"value", "version"} =>
           /\ g.floor <= clean_of(g)'.version
           /\ g.committed <= clean_of(g)'.version
      /\ g.step = "version" => assigned[g.value] <= clean_of(g)'.version
  BY <1>1, <1>2, <1>3, <1>5 DEF GettingInv
<1> QED
  BY <1>4, <1>5, <1>6 DEF GettingInv, clean_of

LEMMA ResponseCarried ==
  ASSUME TypeOK, StoreStep, NEW g \in Response, ResponseInv(g)
  PROVE  ResponseInv(g)'
BY AssignedKept DEF ResponseInv

\* A step of the writes beside the Gets.
LEMMA WriteKeepsReads ==
  ASSUME ReadInv, [Next]_vars, UNCHANGED gets
  PROVE  ReadInv' /\ StoreStep
<1>1. ChainInv' /\ Grows /\ StoreStep
  BY ChainNext DEF ReadInv
<1>2. TypeOK /\ TypeOK'
  BY <1>1 DEF ReadInv, ChainInv, WriteInv
<1>3. GetsInv'
  <2> SUFFICES ASSUME NEW c \in Reader
               PROVE  (\/ gets[c] = Idle
                       \/ gets[c] \in Getting /\ GettingInv(gets[c])
                       \/ gets[c] \in Response /\ ResponseInv(gets[c]))'
    BY DEF GetsInv
  <2>1. PICK g : g = gets[c]
    OBVIOUS
  <2>2. CASE g = Idle
    BY <2>1, <2>2 DEF Idle
  <2>3. CASE g \in Getting /\ GettingInv(g)
    <3>1. GettingInv(g)'
      BY <1>1, <1>2, <2>3, GettingCarried
    <3>2. GettingInv(gets[c])'
      BY <2>1, <3>1 DEF GettingInv, clean_of, tail_version
    <3> QED
      BY <2>1, <2>3, <3>2 DEF Getting
  <2>4. CASE g \in Response /\ ResponseInv(g)
    <3>1. ResponseInv(g)'
      BY <1>1, <1>2, <2>4, ResponseCarried
    <3>2. ResponseInv(gets[c])'
      BY <2>1, <3>1 DEF ResponseInv
    <3> QED
      BY <2>1, <2>4, <3>2 DEF Response
  <2> QED
    BY <2>1, <2>2, <2>3, <2>4 DEF ReadInv, GetsInv
<1>4. (gets \in [Reader -> {Idle} \cup Getting \cup Response])'
  BY DEF ReadInv, Idle, Getting, Response
<1> QED
  BY <1>1, <1>3, <1>4 DEF ReadInv

\* A step of one Get, which leaves the servers alone.
LEMMA AdvanceKeeps ==
  ASSUME ReadInv, NEW c \in Reader, NEW g, Advance(c, g),
         \/ g \in Getting /\ GettingInv(g)
         \/ g \in Response /\ ResponseInv(g)
  PROVE  ReadInv'
<1>1. /\ gets' = [gets EXCEPT ![c] = g] /\ UNCHANGED vars
      /\ gets \in [Reader -> {Idle} \cup Getting \cup Response]
  BY DEF Advance, ReadInv
<1>2. ChainInv'
  BY <1>1, ChainNext DEF ReadInv
<1>3. UNCHANGED <<store, assigned>>
  BY <1>1 DEF vars
<1>4. (gets \in [Reader -> {Idle} \cup Getting \cup Response])'
  <2>1. gets' \in [Reader -> {Idle} \cup Getting \cup Response]
    BY <1>1
  <2> QED
    BY <2>1 DEF Idle, Getting, Response
<1>5. GetsInv'
  <2> SUFFICES ASSUME NEW d \in Reader
               PROVE  (\/ gets[d] = Idle
                       \/ gets[d] \in Getting /\ GettingInv(gets[d])
                       \/ gets[d] \in Response /\ ResponseInv(gets[d]))'
    BY DEF GetsInv
  <2>1. PICK h : h = gets'[d]
    OBVIOUS
  <2>2. \/ h = Idle
        \/ h \in Getting /\ GettingInv(h)
        \/ h \in Response /\ ResponseInv(h)
    BY <1>1, <2>1 DEF ReadInv, GetsInv
  <2>3. CASE h = Idle
    BY <2>1, <2>3 DEF Idle
  <2>4. CASE h \in Getting /\ GettingInv(h)
    <3>1. GettingInv(gets[d])'
      BY <2>1, <2>4, <1>3 DEF GettingInv, clean_of, tail_version
    <3> QED
      BY <2>1, <2>4, <3>1 DEF Getting
  <2>5. CASE h \in Response /\ ResponseInv(h)
    <3>1. ResponseInv(gets[d])'
      BY <2>1, <2>5, <1>3 DEF ResponseInv
    <3> QED
      BY <2>1, <2>5, <3>1 DEF Response
  <2> QED
    BY <2>2, <2>3, <2>4, <2>5
<1> QED
  BY <1>2, <1>4, <1>5 DEF ReadInv

-----------------------------------------------------------------------------
LEMMA Steps ==
  ASSUME ReadInv, NEW c \in Reader
  PROVE  /\ gets[c].step \in {"query", "dirty", "value", "version"}
              => gets[c] \in Getting /\ GettingInv(gets[c])
         /\ gets[c].step = "done"
              => gets[c] \in Response /\ ResponseInv(gets[c])
<1>1. CASE gets[c] = Idle
  <2>1. gets[c].step = "idle"
    BY <1>1 DEF Idle
  <2> QED
    BY <2>1
<1>2. CASE gets[c] \in Getting /\ GettingInv(gets[c])
  <2>1. gets[c].step \in {"query", "dirty", "value", "version"}
    BY <1>2 DEF Getting
  <2> QED
    BY <1>2, <2>1
<1>3. CASE gets[c] \in Response /\ ResponseInv(gets[c])
  <2>1. gets[c].step = "done"
    BY <1>3 DEF Response
  <2> QED
    BY <1>3, <2>1
<1> QED
  BY <1>1, <1>2, <1>3 DEF ReadInv, GetsInv

LEMMA BeginStep ==
  ASSUME ReadInv, NEW c \in Reader, NEW n \in Node, NEW k \in Key,
         BeginGet(c, n, k)
  PROVE  ReadInv'
<1> DEFINE step == IF has_dirty(store[n][k]) THEN "query" ELSE "value"
           g == [step |-> step, node |-> n, key |-> k,
                 floor |-> tail_version(k), committed |-> 0,
                 value |-> NoValue]
<1>0. TypeOK /\ WriteInv /\ PassedAlong
  BY DEF ReadInv, ChainInv, WriteInv
<1>1. Advance(c, g)
  BY DEF BeginGet
<1>2. step \in {"query", "dirty", "value", "version"} /\ step \in {"query", "value"}
  OBVIOUS
<1>3. g \in Getting
  <2>1. tail_version(k) \in 0..MaxVersion /\ 0 \in 0..MaxVersion
    BY <1>0, Tails, Numbers
  <2> HIDE DEF step
  <2> QED
    BY <1>2, <2>1 DEF Getting
\* Without a dirty record the server has committed what the tail has.
<1>4. step = "value" => tail_version(k) <= store[n][k].clean.version
  <2> SUFFICES ASSUME ~ has_dirty(store[n][k])
               PROVE  tail_version(k) <= store[n][k].clean.version
    OBVIOUS
  <2>1. store[n][k].clean.version \in Nat /\ tail_version(k) \in Nat
    BY <1>0, Tails, CleanRecords
  <2>2. CASE tail_version(k) = 0
    BY <2>1, <2>2
  <2>3. CASE tail_version(k) # 0
    <3>1. tail_version(k) \in Version
      BY <1>0, <2>3, Tails
    <3>2. holds(store[n][k], tail_version(k))
      BY <1>0, <3>1, HeldEverywhere
    <3>3. store[n][k].dirty[tail_version(k)] = NoValue
      BY <3>1 DEF has_dirty, dirty_versions
    <3> QED
      BY <2>1, <3>2, <3>3 DEF holds
  <2> QED
    BY <2>2, <2>3
<1>5. GettingInv(g)
  <2>1. tail_version(k) \in Nat /\ store[n][k].clean.version \in Nat
    BY <1>0, Tails, CleanRecords
  <2>2. /\ g.step = step /\ g.node = n /\ g.key = k /\ g.committed = 0
        /\ g.floor = tail_version(k)
    OBVIOUS
  <2> HIDE DEF g, step
  <2> QED
    BY <1>2, <1>4, <2>1, <2>2 DEF GettingInv, clean_of
<1> HIDE DEF g
<1> QED
  BY <1>1, <1>3, <1>5, AdvanceKeeps

LEMMA AnswerKeeps ==
  ASSUME ReadInv, NEW c \in Reader,
         NEW value \in Request, NEW version \in 0..MaxVersion,
         assigned[value] # 0, assigned[value] <= version,
         Answer(c, "", value, version)
  PROVE  ReadInv'
<1> DEFINE g == [step |-> "done", error |-> "", value |-> value,
                 version |-> version]
<1>1. Advance(c, g)
  BY DEF Answer
<1>2. g \in Response
  BY DEF Response
<1>3. ResponseInv(g)
  BY DEF ResponseInv
<1> HIDE DEF g
<1> QED
  BY <1>1, <1>2, <1>3, AdvanceKeeps

LEMMA FailureKeeps ==
  ASSUME ReadInv, NEW c \in Reader,
         NEW error \in {"NOT_FOUND", "TAIL_UNAVAILABLE"},
         Answer(c, error, NoValue, 0)
  PROVE  ReadInv'
<1>1. 0 \in 0..MaxVersion
  BY Numbers
<1>2. error # ""
  OBVIOUS
<1> DEFINE g == [step |-> "done", error |-> error, value |-> NoValue,
                 version |-> 0]
<1>3. Advance(c, g)
  BY DEF Answer
<1>4. g \in Response
  BY <1>1 DEF Response
<1>5. ResponseInv(g)
  BY <1>2 DEF ResponseInv
<1> HIDE DEF g
<1> QED
  BY <1>3, <1>4, <1>5, AdvanceKeeps

LEMMA QueryStep ==
  ASSUME ReadInv, NEW c \in Reader, QueryVersion(c)
  PROVE  ReadInv'
<1>0. TypeOK /\ WriteInv /\ PassedAlong
  BY DEF ReadInv, ChainInv, WriteInv
<1>1. PICK g \in Getting : g = gets[c] /\ GettingInv(g) /\ g.step = "query"
  BY Steps DEF QueryVersion
<1>2. g.key \in Key /\ g.node \in Node
  BY <1>1 DEF Getting
<1>3. CASE tail_version(g.key) = 0
  <2>1. Answer(c, "NOT_FOUND", NoValue, 0)
    BY <1>1, <1>3 DEF QueryVersion
  <2> QED
    BY <2>1, FailureKeeps
<1>4. CASE tail_version(g.key) # 0
  <2> DEFINE v == tail_version(g.key)
             h == [g EXCEPT !.step = "dirty", !.committed = v]
  <2>1. Advance(c, h)
    BY <1>1, <1>4 DEF QueryVersion
  <2>2. v \in Version /\ v \in 0..MaxVersion /\ v \in Nat
    BY <1>0, <1>2, <1>4, Tails
  <2>3. holds(store[g.node][g.key], v)
    BY <1>0, <1>2, <2>2, HeldEverywhere
  <2> HIDE DEF v
  <2>4. h \in Getting
    BY <2>2 DEF Getting
  <2>5. /\ h.step = "dirty" /\ h.node = g.node /\ h.key = g.key
        /\ h.committed = v /\ h.floor = g.floor
    BY DEF Getting
  <2> HIDE DEF h
  <2>6. GettingInv(h)
    BY <1>1, <2>2, <2>3, <2>5 DEF GettingInv, v
  <2> QED
    BY <2>1, <2>4, <2>6, AdvanceKeeps
<1> QED
  BY <1>3, <1>4

LEMMA LookUpStep ==
  ASSUME ReadInv, NEW c \in Reader, LookUpDirty(c)
  PROVE  ReadInv'
<1>0. TypeOK /\ WriteInv
  BY DEF ReadInv, ChainInv, WriteInv
<1>1. PICK g \in Getting : g = gets[c] /\ GettingInv(g) /\ g.step = "dirty"
  BY Steps DEF LookUpDirty
<1>2. /\ g.key \in Key /\ g.node \in Node
      /\ g.committed \in Version
      /\ g.floor \in Nat /\ g.floor <= g.committed
      /\ holds(store[g.node][g.key], g.committed)
  BY <1>1, Numbers DEF Getting, GettingInv
<1> DEFINE record == store[g.node][g.key].dirty[g.committed]
<1>3. CASE record # NoValue
  <2>1. Answer(c, "", record, g.committed)
    BY <1>1, <1>3 DEF LookUpDirty
  <2>2. record \in Request
    BY <1>0, <1>2, <1>3 DEF TypeOK, Store, Request
  <2>3. assigned[record] = g.committed
    BY <1>0, <1>2, <1>3 DEF WriteInv, RecordsAgree, dirty_versions
  <2>4. /\ g.committed \in 0..MaxVersion /\ g.committed # 0
        /\ g.committed <= g.committed
    <3>1. g.committed \in Nat \ {0} /\ g.committed \in 0..MaxVersion
      BY <1>2, Numbers DEF Version
    <3> QED
      BY <3>1
  <2> HIDE DEF record
  <2> QED
    BY <2>1, <2>2, <2>3, <2>4, AnswerKeeps
<1>4. CASE record = NoValue
  <2> DEFINE h == [g EXCEPT !.step = "value"]
  <2>1. Advance(c, h)
    BY <1>1, <1>4 DEF LookUpDirty
  <2>2. h \in Getting
    BY DEF Getting
  <2>3. /\ h.step = "value" /\ h.node = g.node /\ h.key = g.key
        /\ h.committed = g.committed /\ h.floor = g.floor
    BY DEF Getting
  <2>4. /\ store[g.node][g.key].clean.version \in Nat
        /\ store[g.node][g.key].clean.version >= g.committed
    BY <1>0, <1>2, <1>4, CleanRecords DEF holds
  <2>5. clean_of(h) = store[g.node][g.key].clean
    BY <2>3 DEF clean_of
  <2>6. g.committed \in Nat
    BY <1>2, Numbers
  <2> HIDE DEF h
  <2>7. /\ h.floor <= tail_version(h.key)
        /\ h.committed <= tail_version(h.key)
    BY <1>1, <2>3 DEF GettingInv
  <2>8. /\ h.floor <= clean_of(h).version
        /\ h.committed <= clean_of(h).version
    BY <1>2, <2>3, <2>4, <2>5, <2>6
  <2>9. GettingInv(h)
    BY <2>3, <2>7, <2>8 DEF GettingInv
  <2> QED
    BY <2>1, <2>2, <2>9, AdvanceKeeps
<1> QED
  BY <1>3, <1>4

LEMMA ReadValueStep ==
  ASSUME ReadInv, NEW c \in Reader, ReadValue(c)
  PROVE  ReadInv'
<1>0. TypeOK /\ WriteInv
  BY DEF ReadInv, ChainInv, WriteInv
<1>1. PICK g \in Getting : g = gets[c] /\ GettingInv(g) /\ g.step = "value"
  BY Steps DEF ReadValue
<1>2. /\ g.key \in Key /\ g.node \in Node
      /\ g.floor \in Nat /\ g.committed \in Nat
  BY <1>1, Numbers DEF Getting
<1>3. CASE g.committed = 0 /\ clean_of(g).version = 0
  <2>1. Answer(c, "NOT_FOUND", NoValue, 0)
    BY <1>1, <1>3 DEF ReadValue
  <2> QED
    BY <2>1, FailureKeeps
<1>4. CASE ~ (g.committed = 0 /\ clean_of(g).version = 0)
  <2> DEFINE x == clean_of(g)
             h == [g EXCEPT !.step = "version", !.value = x.value]
  <2>1. Advance(c, h)
    BY <1>1, <1>4 DEF ReadValue
  <2>2. /\ x.version \in Nat /\ g.floor <= x.version
        /\ g.committed <= x.version
    BY <1>0, <1>1, <1>2, CleanRecords DEF GettingInv, clean_of
  <2>3. x.version # 0
    BY <1>2, <1>4, <2>2
  <2>4. /\ x.value \in Request /\ KeyOf[x.value] = g.key
        /\ assigned[x.value] = x.version
    BY <1>0, <1>2, <2>3, CleanRecords DEF clean_of
  <2>5. h \in Getting
    BY <2>4 DEF Getting
  <2>6. /\ h.step = "version" /\ h.node = g.node /\ h.key = g.key
        /\ h.committed = g.committed /\ h.floor = g.floor
        /\ h.value = x.value /\ clean_of(h) = x
    BY DEF Getting, clean_of
  <2> HIDE DEF h, x
  <2>7. GettingInv(h)
    BY <1>1, <1>2, <2>2, <2>3, <2>4, <2>6 DEF GettingInv
  <2> QED
    BY <2>1, <2>5, <2>7, AdvanceKeeps
<1> QED
  BY <1>3, <1>4

\* The committed version the server finds now is no older than the one asked
\* for, nor than the one of the value.
LEMMA ReadVersionAnswers ==
  ASSUME ReadInv, NEW c \in Reader, ReadVersion(c)
  PROVE  /\ gets[c] \in Getting /\ GettingInv(gets[c])
         /\ gets[c].step = "version"
         /\ clean_of(gets[c]).version \in 0..MaxVersion
         /\ Answer(c, "", gets[c].value, clean_of(gets[c]).version)
<1>0. TypeOK /\ WriteInv
  BY DEF ReadInv, ChainInv, WriteInv
<1>1. PICK g \in Getting : g = gets[c] /\ GettingInv(g) /\ g.step = "version"
  BY Steps DEF ReadVersion
<1>2. /\ g.key \in Key /\ g.node \in Node /\ g.committed \in Nat
  BY <1>1, Numbers DEF Getting
<1>3. /\ clean_of(g).version \in 0..MaxVersion
      /\ clean_of(g).version \in Nat
  BY <1>0, <1>2, CleanRecords DEF clean_of
<1>4. g.value # NoValue /\ clean_of(g).version >= g.committed
  BY <1>1, <1>2, <1>3, KVStoreAssumption DEF GettingInv, Request
<1>5. Answer(c, "", g.value, clean_of(g).version)
  BY <1>1, <1>4 DEF ReadVersion
<1> QED
  BY <1>1, <1>3, <1>5

LEMMA ReadVersionStep ==
  ASSUME ReadInv, NEW c \in Reader, ReadVersion(c)
  PROVE  ReadInv'
<1>1. /\ gets[c] \in Getting /\ GettingInv(gets[c])
      /\ gets[c].step = "version"
      /\ clean_of(gets[c]).version \in 0..MaxVersion
      /\ Answer(c, "", gets[c].value, clean_of(gets[c]).version)
  BY ReadVersionAnswers
<1>2. /\ gets[c].value \in Request /\ assigned[gets[c].value] # 0
      /\ assigned[gets[c].value] <= clean_of(gets[c]).version
  BY <1>1 DEF GettingInv
<1> QED
  BY <1>1, <1>2, AnswerKeeps

LEMMA ReadInit == InitReads => ReadInv
<1> SUFFICES ASSUME InitReads PROVE ReadInv
  OBVIOUS
<1>1. ChainInv
  BY ChainInit DEF InitReads
<1> QED
  BY <1>1 DEF InitReads, ReadInv, GetsInv

LEMMA ReadNext == ReadInv /\ [NextReads]_readVars => ReadInv'
<1> SUFFICES ASSUME ReadInv, [NextReads]_readVars PROVE ReadInv'
  OBVIOUS
<1>1. CASE Next /\ UNCHANGED gets
  BY <1>1, WriteKeepsReads
<1>2. CASE UNCHANGED readVars
  <2>1. UNCHANGED vars /\ UNCHANGED gets
    BY <1>2 DEF readVars
  <2> QED
    BY <2>1, WriteKeepsReads
<1>3. ASSUME NEW c \in Reader, NEW n \in Node, NEW k \in Key, BeginGet(c, n, k)
      PROVE  ReadInv'
  BY <1>3, BeginStep
<1>4. ASSUME NEW c \in Reader, HandleGet(c)
      PROVE  ReadInv'
  <2>1. CASE QueryFails(c)
    <3>1. Answer(c, "TAIL_UNAVAILABLE", NoValue, 0)
      BY <2>1 DEF QueryFails
    <3> QED
      BY <3>1, FailureKeeps
  <2> QED
    BY <1>4, <2>1, QueryStep, LookUpStep, ReadValueStep, ReadVersionStep
    DEF HandleGet
<1> QED
  BY <1>1, <1>2, <1>3, <1>4 DEF NextReads

LEMMA ReadInvariant == SpecReads => []ReadInv
BY ReadInit, ReadNext, PTL DEF SpecReads

\* A server that asks the tail for the committed version finds that version,
\* dirty or committed: no Get ends in VERSION_NOT_FOUND.
THEOREM VersionAlwaysFound == SpecReads => []VersionFound
<1>1. ReadInv => VersionFound
  BY Steps DEF VersionFound, Answered, ResponseInv
<1> QED
  BY ReadInvariant, <1>1, PTL

LEMMA ResponseVersion == ReadInv => VersionNotBehindValue
<1> SUFFICES ASSUME ReadInv PROVE VersionNotBehindValue
  OBVIOUS
<1> SUFFICES ASSUME NEW c \in Reader, Answered(c), gets[c].error = ""
             PROVE  gets[c].version >= assigned[gets[c].value]
  BY DEF VersionNotBehindValue
<1>1. gets[c] \in Response /\ ResponseInv(gets[c])
  BY Steps DEF Answered
<1>2. gets[c].version \in Nat
  <2>1. gets[c].version \in 0..MaxVersion
    BY <1>1 DEF Response
  <2> QED
    BY <2>1, VersionNumbers
<1>3. /\ gets[c].value \in Request
      /\ assigned[gets[c].value] <= gets[c].version
  BY <1>1 DEF ResponseInv
<1>4. assigned[gets[c].value] \in Nat
  <2>1. assigned \in [Request -> 0..MaxVersion]
    BY DEF ReadInv, ChainInv, WriteInv, TypeOK
  <2>2. assigned[gets[c].value] \in 0..MaxVersion
    BY <1>3, <2>1
  <2> QED
    BY <2>2, VersionNumbers
<1> QED
  BY <1>2, <1>3, <1>4

\* The version in a response is that of its value or of a later write, though
\* they are read under two locks.
THEOREM VersionFollowsValue == SpecReads => []VersionNotBehindValue
  BY ReadInvariant, ResponseVersion, PTL

-----------------------------------------------------------------------------
StoreAndReadInv == ReadInv /\ AckInv /\ ValueCommitted

\* A Get comes to have read a value only from the clean record.
LEMMA ValueIsRead ==
  ASSUME ReadInv, NEW c \in Reader, [NextReads]_readVars,
         gets'[c] # gets[c], gets'[c].step = "version"
  PROVE  ReadValue(c)
<1>0. gets \in [Reader -> {Idle} \cup Getting \cup Response]
  BY DEF ReadInv
<1>1. ASSUME NEW d \in Reader, NEW g, Advance(d, g)
      PROVE  d = c /\ g.step = "version"
  BY <1>0, <1>1 DEF Advance
<1>2. ~ UNCHANGED readVars /\ ~ (Next /\ UNCHANGED gets)
  BY DEF readVars
<1>3. ASSUME NEW d \in Reader, NEW n \in Node, NEW k \in Key, BeginGet(d, n, k)
      PROVE  FALSE
  <2> DEFINE g == [step |-> IF has_dirty(store[n][k]) THEN "query" ELSE "value",
                   node |-> n, key |-> k, floor |-> tail_version(k),
                   committed |-> 0, value |-> NoValue]
  <2>1. Advance(d, g)
    BY <1>3 DEF BeginGet
  <2>2. g.step # "version"
    OBVIOUS
  <2> HIDE DEF g
  <2> QED
    BY <1>1, <2>1, <2>2
<1>4. ASSUME NEW d \in Reader, NEW e, NEW x, NEW v, Answer(d, e, x, v)
      PROVE  FALSE
  <2> DEFINE g == [step |-> "done", error |-> e, value |-> x, version |-> v]
  <2>1. Advance(d, g)
    BY <1>4 DEF Answer
  <2>2. g.step # "version"
    OBVIOUS
  <2> HIDE DEF g
  <2> QED
    BY <1>1, <2>1, <2>2
<1>5. ASSUME NEW d \in Reader, NEW s \in {"dirty", "value"}, NEW v,
             gets[d] \in Getting,
             \/ Advance(d, [gets[d] EXCEPT !.step = s])
             \/ Advance(d, [gets[d] EXCEPT !.step = s, !.committed = v])
      PROVE  FALSE
  <2>1. /\ [gets[d] EXCEPT !.step = s].step # "version"
        /\ [gets[d] EXCEPT !.step = s, !.committed = v].step # "version"
    BY <1>5 DEF Getting
  <2> QED
    BY <1>1, <1>5, <2>1
<1>6. PICK d \in Reader : HandleGet(d)
  BY <1>2, <1>3 DEF NextReads
<1>7. ~ QueryFails(d) /\ ~ ReadVersion(d)
  BY <1>4 DEF QueryFails, ReadVersion
<1>8. ~ QueryVersion(d)
  BY <1>4, <1>5, Steps DEF QueryVersion
<1>9. ~ LookUpDirty(d)
  BY <1>4, <1>5, Steps DEF LookUpDirty
<1>10. ReadValue(d)
  BY <1>6, <1>7, <1>8, <1>9 DEF HandleGet
<1> QED
  BY <1>1, <1>4, <1>10 DEF ReadValue

LEMMA ValueStep ==
  ASSUME ReadInv, AckInv, ValueCommitted, ReadInv', StoreStep, Grows,
         [NextReads]_readVars
  PROVE  ValueCommitted'
<1>0. TypeOK /\ TypeOK' /\ WriteInv
  BY DEF ReadInv, ChainInv, WriteInv
<1>1. ASSUME NEW c \in Reader, NEW g, g = gets'[c], g.step = "version"
      PROVE  assigned'[g.value] <= tail_version(g.key)'
  <2>1. CASE g = gets[c]
    <3>1. /\ g.key \in Key /\ g.value \in Request
          /\ assigned[g.value] # 0
      BY <1>1, <2>1, Steps DEF GettingInv, Getting
    <3>2. assigned'[g.value] = assigned[g.value]
      BY <1>0, <3>1, AssignedKept
    <3>3. assigned[g.value] \in Nat
      BY <1>0, <3>1, VersionNumbers DEF TypeOK
    <3>4. /\ tail_version(g.key) \in Nat
          /\ tail_version(g.key)' \in Nat
          /\ tail_version(g.key)' >= tail_version(g.key)
      BY <1>0, <3>1, Ring, Numbers DEF TypeOK, Grows, tail_version
    <3>5. assigned[g.value] <= tail_version(g.key)
      BY <1>1, <2>1 DEF ValueCommitted
    <3> QED
      BY <3>2, <3>3, <3>4, <3>5
  <2>2. CASE g # gets[c]
    <3>1. ReadValue(c)
      BY <1>1, <2>2, ValueIsRead
    <3>2. PICK h \in Getting : h = gets[c] /\ GettingInv(h) /\ h.step = "value"
      BY <3>1, Steps DEF ReadValue
    <3>3. /\ h.key \in Key /\ h.node \in Node /\ h.committed \in Nat
      BY <3>2, VersionNumbers DEF Getting
    <3> DEFINE x == store[h.node][h.key].clean
    <3>4. clean_of(h) = x
      BY DEF clean_of
    <3> HIDE DEF x
    <3>5. /\ ~ (h.committed = 0 /\ x.version = 0)
          /\ Advance(c, [h EXCEPT !.step = "version", !.value = x.value])
      <4>1. ~ (h.committed = 0 /\ x.version = 0)
        <5> SUFFICES ASSUME h.committed = 0 /\ x.version = 0
                     PROVE  FALSE
          OBVIOUS
        <5>1. Answer(c, "NOT_FOUND", NoValue, 0)
          BY <3>1, <3>2, <3>4 DEF ReadValue
        <5>2. gets'[c].step = "done"
          BY <5>1 DEF Answer, Advance, ReadInv
        <5> QED
          BY <1>1, <5>2
      <4> QED
        BY <4>1, <3>1, <3>2, <3>4 DEF ReadValue
    <3>6. g.value = x.value /\ g.key = h.key
      <4>1. g = [h EXCEPT !.step = "version", !.value = x.value]
        BY <1>1, <3>5 DEF Advance, ReadInv
      <4> QED
        BY <4>1 DEF Getting
    <3>7. x.version \in Nat /\ h.committed <= x.version
      <4>1. x.version \in Nat
        BY <1>0, <3>3, CleanRecords DEF x
      <4> QED
        BY <3>2, <3>4, <4>1 DEF GettingInv
    <3>8. assigned[x.value] = x.version /\ x.value \in Request
      <4>1. x.version # 0 => x.value \in Request /\ assigned[x.value] = x.version
        BY <1>0, <3>3, CleanRecords DEF x
      <4>2. x.version # 0
        BY <3>3, <3>5, <3>7
      <4> QED
        BY <4>1, <4>2
    <3>9. x.version <= tail_version(h.key)
      BY <3>3 DEF AckInv, CleanBelowTail, x
    <3>10. UNCHANGED <<store, assigned>>
      BY <3>5 DEF Advance, vars
    <3>11. tail_version(h.key)' = tail_version(h.key)
      BY <3>10 DEF tail_version
    <3> QED
      BY <3>6, <3>8, <3>9, <3>10, <3>11
  <2> QED
    BY <2>1, <2>2
<1>2. \A c \in Reader : gets'[c].step = "version" =>
        assigned'[gets'[c].value]
          <= store'[tail_index(gets'[c].key)][gets'[c].key].clean.version
  BY <1>1 DEF tail_version
<1> QED
  BY <1>2 DEF ValueCommitted, tail_version

\* With ids of their own, what a Get returns is committed at the tail.
LEMMA StoreAndReadStep ==
  ASSUME DistinctIds, StoreAndReadInv, [NextReads]_readVars
  PROVE  StoreAndReadInv' /\ StoreStep /\ Grows
<1>1. ReadInv'
  BY ReadNext DEF StoreAndReadInv
<1>2. [Next]_vars
  <2>1. \A c \in Reader : \A g : Advance(c, g) => UNCHANGED vars
    BY DEF Advance
  <2>2. \A c \in Reader : HandleGet(c) => UNCHANGED vars
    BY <2>1
    DEF HandleGet, QueryVersion, QueryFails, LookUpDirty, ReadValue,
        ReadVersion, Answer
  <2>3. \A c \in Reader, n \in Node, k \in Key :
          BeginGet(c, n, k) => UNCHANGED vars
    BY <2>1 DEF BeginGet
  <2> QED
    BY <2>2, <2>3 DEF NextReads, readVars
<1>3. /\ ChainInv' /\ Grows /\ StoreStep
      /\ WriteInv /\ AckInv /\ WriteInv'
  BY <1>2, ChainNext DEF StoreAndReadInv, ReadInv, ChainInv
<1>4. AckInv'
  <2>1. CASE Next
    BY <1>3, <2>1, AckStep
  <2>2. CASE UNCHANGED vars
    BY <1>3, <2>2
    DEF vars, AckInv, AcksCommitted, CommittedBeyond, CleanBelowTail,
        tail_version
  <2> QED
    BY <1>2, <2>1, <2>2
<1>5. ValueCommitted'
  BY <1>1, <1>3, ValueStep DEF StoreAndReadInv
<1> QED
  BY <1>1, <1>3, <1>4, <1>5 DEF StoreAndReadInv

LEMMA AckInit == Init => AckInv
<1> SUFFICES ASSUME Init PROVE AckInv
  OBVIOUS
<1>1. \A n \in Node, k \in Key : store[n][k].clean.version = 0
  BY DEF Init, EmptyStore
<1> QED
  BY <1>1, Ring DEF Init, AckInv, AcksCommitted, CleanBelowTail, tail_version

LEMMA StoreAndReadInit == InitReads => StoreAndReadInv
<1> SUFFICES ASSUME InitReads PROVE StoreAndReadInv
  OBVIOUS
<1>1. ReadInv /\ AckInv
  BY ReadInit, AckInit DEF InitReads
<1>2. \A c \in Reader : gets[c] = Idle
  BY DEF InitReads
<1>3. ValueCommitted
  BY <1>2 DEF ValueCommitted, Idle
<1> QED
  BY <1>1, <1>3 DEF StoreAndReadInv

-----------------------------------------------------------------------------
LEMMA ReadOf ==
  /\ read_of(Idle) = [state |-> "idle"]
  /\ \A g \in Getting :
       read_of(g) = [state |-> "reading", key |-> g.key, floor |-> g.floor]
  /\ \A g \in Response :
       read_of(g) = IF g.error = "TAIL_UNAVAILABLE"
                    THEN [state |-> "failed"]
                    ELSE [state |-> "returned", value |-> g.value]
<1>1. read_of(Idle) = [state |-> "idle"]
  <2>1. Idle.step # "done"
    BY DEF Idle
  <2> QED
    BY <2>1 DEF read_of
<1>2. ASSUME NEW g \in Getting
      PROVE  read_of(g) = [state |-> "reading", key |-> g.key,
                           floor |-> g.floor]
  <2>1. g.step # "done" /\ g.step # "idle"
    BY DEF Getting
  <2>2. g # Idle
    BY <2>1 DEF Idle
  <2> QED
    BY <2>1, <2>2 DEF read_of
<1>3. ASSUME NEW g \in Response
      PROVE  read_of(g) = IF g.error = "TAIL_UNAVAILABLE"
                          THEN [state |-> "failed"]
                          ELSE [state |-> "returned", value |-> g.value]
  <2>1. g.step = "done" /\ g.step # "idle"
    BY DEF Response
  <2>2. g # Idle
    BY <2>1 DEF Idle
  <2> QED
    BY <2>1, <2>2 DEF read_of
<1> QED
  BY <1>1, <1>2, <1>3

\* A step of one Get, seen in the abstract store.
LEMMA AdvanceSeen ==
  ASSUME ReadInv, NEW c \in Reader, NEW g, Advance(c, g)
  PROVE  /\ reads_of_gets' = [reads_of_gets EXCEPT ![c] = read_of(g)]
         /\ reads_of_gets[c] = read_of(gets[c])
         /\ assigned' = assigned
         /\ tail_versions' = tail_versions
<1>1. /\ gets' = [gets EXCEPT ![c] = g] /\ UNCHANGED vars
      /\ gets \in [Reader -> {Idle} \cup Getting \cup Response]
  BY DEF Advance, ReadInv
<1>2. reads_of_gets' = [d \in Reader |-> read_of(gets'[d])]
  BY DEF reads_of_gets, read_of, Idle
<1>3. UNCHANGED <<store, assigned>>
  BY <1>1 DEF vars
<1>4. tail_versions' = tail_versions
  BY <1>3 DEF tail_versions, tail_version
<1>5. reads_of_gets' = [reads_of_gets EXCEPT ![c] = read_of(g)]
  BY <1>1, <1>2 DEF reads_of_gets
<1> QED
  BY <1>3, <1>4, <1>5 DEF reads_of_gets

LEMMA BeginSeen ==
  ASSUME ReadInv, NEW c \in Reader, NEW n \in Node, NEW k \in Key,
         BeginGet(c, n, k)
  PROVE  Abstract!BeginRead(c, k)
<1> DEFINE g == [step |-> IF has_dirty(store[n][k]) THEN "query" ELSE "value",
                 node |-> n, key |-> k, floor |-> tail_version(k),
                 committed |-> 0, value |-> NoValue]
<1>1. Advance(c, g) /\ gets[c] = Idle
  BY DEF BeginGet
<1>2. read_of(g) = [state |-> "reading", key |-> k, floor |-> tail_version(k)]
  <2>1. g.step # "done" /\ g.step # "idle"
    OBVIOUS
  <2>2. g.key = k /\ g.floor = tail_version(k)
    OBVIOUS
  <2> HIDE DEF g
  <2>3. g # Idle
    BY <2>1 DEF Idle
  <2> QED
    BY <2>1, <2>2, <2>3 DEF read_of
<1> HIDE DEF g
<1>3. tail_versions[k] = tail_version(k)
  BY DEF tail_versions
<1>4. reads_of_gets[c] = [state |-> "idle"]
  BY <1>1, AdvanceSeen, ReadOf
<1>5. /\ reads_of_gets' = [reads_of_gets EXCEPT ![c] = read_of(g)]
      /\ assigned' = assigned /\ tail_versions' = tail_versions
  BY <1>1, AdvanceSeen
<1> QED
  BY <1>2, <1>3, <1>4, <1>5
  DEF Abstract!BeginRead, Abstract!Idle, Abstract!Reading

\* A Get that is answered, seen in the abstract store.
LEMMA AnswerSeen ==
  ASSUME ReadInv, NEW c \in Reader, gets[c] \in Getting,
         NEW error, NEW value, NEW version, Answer(c, error, value, version)
  PROVE  /\ reads_of_gets[c] = [state |-> "reading", key |-> gets[c].key,
                                floor |-> gets[c].floor]
         /\ reads_of_gets' = [reads_of_gets EXCEPT ![c] =
              IF error = "TAIL_UNAVAILABLE"
              THEN [state |-> "failed"]
              ELSE [state |-> "returned", value |-> value]]
         /\ assigned' = assigned
         /\ tail_versions' = tail_versions
<1> DEFINE g == [step |-> "done", error |-> error, value |-> value,
                 version |-> version]
<1>1. Advance(c, g)
  BY DEF Answer
<1>2. read_of(g) = IF error = "TAIL_UNAVAILABLE"
                   THEN [state |-> "failed"]
                   ELSE [state |-> "returned", value |-> value]
  <2>1. /\ g.step = "done" /\ g.step # "idle"
        /\ g.error = error /\ g.value = value
    OBVIOUS
  <2> HIDE DEF g
  <2>2. g # Idle
    BY <2>1 DEF Idle
  <2> QED
    BY <2>1, <2>2 DEF read_of
<1> HIDE DEF g
<1> QED
  BY <1>1, <1>2, AdvanceSeen, ReadOf

LEMMA NothingSeen ==
  ASSUME ReadInv, NEW c \in Reader, gets[c] \in Getting, gets[c].floor = 0,
         Answer(c, "NOT_FOUND", NoValue, 0)
  PROVE  Abstract!ReturnNothing(c)
<1>1. /\ reads_of_gets[c] = [state |-> "reading", key |-> gets[c].key,
                             floor |-> gets[c].floor]
      /\ reads_of_gets' = [reads_of_gets EXCEPT ![c] =
           IF "NOT_FOUND" = "TAIL_UNAVAILABLE"
           THEN [state |-> "failed"]
           ELSE [state |-> "returned", value |-> NoValue]]
      /\ assigned' = assigned /\ tail_versions' = tail_versions
  BY AnswerSeen
<1> QED
  BY <1>1 DEF Abstract!ReturnNothing, Abstract!Returned

LEMMA FailureSeen ==
  ASSUME ReadInv, NEW c \in Reader, gets[c] \in Getting,
         Answer(c, "TAIL_UNAVAILABLE", NoValue, 0)
  PROVE  Abstract!FailRead(c)
<1>1. /\ reads_of_gets[c] = [state |-> "reading", key |-> gets[c].key,
                             floor |-> gets[c].floor]
      /\ reads_of_gets' = [reads_of_gets EXCEPT ![c] =
           IF "TAIL_UNAVAILABLE" = "TAIL_UNAVAILABLE"
           THEN [state |-> "failed"]
           ELSE [state |-> "returned", value |-> NoValue]]
      /\ assigned' = assigned /\ tail_versions' = tail_versions
  BY AnswerSeen
<1> QED
  BY <1>1 DEF Abstract!FailRead

LEMMA ValueSeen ==
  ASSUME ReadInv, NEW c \in Reader, NEW g \in Getting, gets[c] = g,
         NEW r \in Request, NEW error, NEW version,
         KeyOf[r] = g.key, assigned[r] # 0,
         g.floor <= assigned[r], assigned[r] <= tail_version(g.key),
         error # "TAIL_UNAVAILABLE", Answer(c, error, r, version)
  PROVE  Abstract!ReturnWrite(c, r)
<1>1. g.key \in Key /\ g.floor \in Nat
  BY VersionNumbers DEF Getting
<1>2. assigned[r] \in Nat /\ tail_version(g.key) \in Nat
  BY <1>1, Tails, VersionNumbers DEF ReadInv, ChainInv, WriteInv, TypeOK
<1>3. tail_versions[g.key] = tail_version(g.key)
  BY <1>1 DEF tail_versions
<1>4. /\ reads_of_gets[c] = [state |-> "reading", key |-> gets[c].key,
                             floor |-> gets[c].floor]
      /\ reads_of_gets' = [reads_of_gets EXCEPT ![c] =
           IF error = "TAIL_UNAVAILABLE"
           THEN [state |-> "failed"]
           ELSE [state |-> "returned", value |-> r]]
      /\ assigned' = assigned
      /\ tail_versions' = tail_versions
  BY AnswerSeen
<1>5. reads_of_gets' = [reads_of_gets EXCEPT ![c] =
                          [state |-> "returned", value |-> r]]
  BY <1>4
<1>6. /\ reads_of_gets[c].state = "reading"
      /\ reads_of_gets[c].key = g.key
      /\ reads_of_gets[c].floor = g.floor
  BY <1>4
<1>7. r \in Abstract!writes_of(g.key)
  BY DEF Abstract!writes_of
<1>8. assigned[r] \in g.floor..tail_versions[g.key]
  <2>1. \A f, a, v \in Nat : f <= a /\ a <= v => a \in f..v
    OBVIOUS
  <2> QED
    BY <2>1, <1>1, <1>2, <1>3
<1> QED
  BY <1>4, <1>5, <1>6, <1>7, <1>8
  DEF Abstract!ReturnWrite, Abstract!Returned

\* The other steps of a Get go unseen.
LEMMA AskingUnseen ==
  ASSUME ReadInv, NEW c \in Reader, NEW g \in Getting, gets[c] \in Getting,
         g.key = gets[c].key, g.floor = gets[c].floor, Advance(c, g)
  PROVE  UNCHANGED Abstract!vars
<1>1. read_of(g) = read_of(gets[c])
  BY ReadOf
<1>2. /\ reads_of_gets' = [reads_of_gets EXCEPT ![c] = read_of(g)]
      /\ reads_of_gets[c] = read_of(gets[c])
      /\ assigned' = assigned
      /\ tail_versions' = tail_versions
  BY AdvanceSeen
<1>3. reads_of_gets' = reads_of_gets
  BY <1>1, <1>2 DEF reads_of_gets
<1> QED
  BY <1>2, <1>3 DEF Abstract!vars

\* Every step of a Get is one of the abstract store or unseen.
LEMMA QuerySeen ==
  ASSUME ReadInv, NEW c \in Reader, QueryVersion(c)
  PROVE  Abstract!ReturnNothing(c) \/ UNCHANGED Abstract!vars
<1>0. TypeOK
  BY DEF ReadInv, ChainInv, WriteInv
<1>1. PICK g \in Getting : g = gets[c] /\ GettingInv(g) /\ g.step = "query"
  BY Steps DEF QueryVersion
<1>2. /\ g.key \in Key /\ g.floor \in Nat
      /\ tail_version(g.key) \in 0..MaxVersion
  BY <1>0, <1>1, Tails, VersionNumbers DEF Getting
<1>3. CASE tail_version(g.key) = 0
  <2>1. Answer(c, "NOT_FOUND", NoValue, 0)
    BY <1>1, <1>3 DEF QueryVersion
  <2>2. g.floor <= 0
    BY <1>1, <1>3 DEF GettingInv
  <2>3. g.floor = 0
    BY <2>2, <1>2
  <2> QED
    BY <1>1, <2>1, <2>3, NothingSeen
<1>4. CASE tail_version(g.key) # 0
  <2> DEFINE v == tail_version(g.key)
             h == [g EXCEPT !.step = "dirty", !.committed = v]
  <2>1. Advance(c, h)
    BY <1>1, <1>4 DEF QueryVersion
  <2>2. h \in Getting /\ h.key = g.key /\ h.floor = g.floor
    BY <1>2 DEF Getting
  <2> HIDE DEF h
  <2> QED
    BY <1>1, <2>1, <2>2, AskingUnseen
<1> QED
  BY <1>3, <1>4

LEMMA LookUpSeen ==
  ASSUME ReadInv, NEW c \in Reader, LookUpDirty(c)
  PROVE  (\E r \in Request : Abstract!ReturnWrite(c, r))
           \/ UNCHANGED Abstract!vars
<1>0. TypeOK /\ WriteInv
  BY DEF ReadInv, ChainInv, WriteInv
<1>e. "" # "TAIL_UNAVAILABLE"
  OBVIOUS
<1>1. PICK g \in Getting : g = gets[c] /\ GettingInv(g) /\ g.step = "dirty"
  BY Steps DEF LookUpDirty
<1>2. /\ g.key \in Key /\ g.node \in Node
      /\ g.committed \in Version /\ g.committed # 0
      /\ g.floor <= g.committed /\ g.committed <= tail_version(g.key)
  BY <1>1, Numbers DEF Getting, GettingInv
<1> DEFINE record == store[g.node][g.key].dirty[g.committed]
<1>3. CASE record # NoValue
  <2>1. Answer(c, "", record, g.committed)
    BY <1>1, <1>3 DEF LookUpDirty
  <2>2. record \in Request
    BY <1>0, <1>2, <1>3 DEF TypeOK, Store, Request
  <2>3. assigned[record] = g.committed /\ KeyOf[record] = g.key
    BY <1>0, <1>2, <1>3 DEF WriteInv, RecordsAgree, dirty_versions
  <2> HIDE DEF record
  <2> QED
    BY <1>1, <1>2, <2>1, <2>2, <2>3, <1>e, ValueSeen
<1>4. CASE record = NoValue
  <2> DEFINE h == [g EXCEPT !.step = "value"]
  <2>1. Advance(c, h)
    BY <1>1, <1>4 DEF LookUpDirty
  <2>2. h \in Getting /\ h.key = g.key /\ h.floor = g.floor
    BY DEF Getting
  <2> HIDE DEF h
  <2> QED
    BY <1>1, <2>1, <2>2, AskingUnseen
<1> QED
  BY <1>3, <1>4

LEMMA ReadValueSeen ==
  ASSUME ReadInv, NEW c \in Reader, ReadValue(c)
  PROVE  Abstract!ReturnNothing(c) \/ UNCHANGED Abstract!vars
<1>0. TypeOK /\ WriteInv
  BY DEF ReadInv, ChainInv, WriteInv
<1>1. PICK g \in Getting : g = gets[c] /\ GettingInv(g) /\ g.step = "value"
  BY Steps DEF ReadValue
<1>2. /\ g.key \in Key /\ g.node \in Node
      /\ g.floor \in Nat /\ g.committed \in Nat
      /\ g.floor <= clean_of(g).version
  BY <1>1, VersionNumbers DEF Getting, GettingInv
<1>3. CASE g.committed = 0 /\ clean_of(g).version = 0
  <2>1. Answer(c, "NOT_FOUND", NoValue, 0)
    BY <1>1, <1>3 DEF ReadValue
  <2>2. g.floor = 0
    BY <1>2, <1>3
  <2> QED
    BY <1>1, <2>1, <2>2, NothingSeen
<1>4. CASE ~ (g.committed = 0 /\ clean_of(g).version = 0)
  <2> DEFINE x == clean_of(g).value
             h == [g EXCEPT !.step = "version", !.value = x]
  <2>1. Advance(c, h)
    BY <1>1, <1>4 DEF ReadValue
  <2>2. x \in Request \cup {NoValue}
    BY <1>0, <1>2, CleanRecords DEF clean_of, TypeOK, Store, Record, Request
  <2>3. h \in Getting /\ h.key = g.key /\ h.floor = g.floor
    BY <2>2 DEF Getting
  <2> HIDE DEF h
  <2> QED
    BY <1>1, <2>1, <2>3, AskingUnseen
<1> QED
  BY <1>3, <1>4

LEMMA ReadVersionSeen ==
  ASSUME ReadInv, ValueCommitted, NEW c \in Reader, ReadVersion(c)
  PROVE  \E r \in Request : Abstract!ReturnWrite(c, r)
<1>e. "" # "TAIL_UNAVAILABLE"
  OBVIOUS
<1>1. PICK g \in Getting : g = gets[c] /\ GettingInv(g) /\ g.step = "version"
  BY Steps DEF ReadVersion
<1>2. Answer(c, "", g.value, clean_of(g).version)
  BY <1>1, ReadVersionAnswers
<1>3. /\ g.value \in Request /\ KeyOf[g.value] = g.key
      /\ assigned[g.value] # 0 /\ g.floor <= assigned[g.value]
      /\ assigned[g.value] <= tail_version(g.key)
  BY <1>1 DEF GettingInv, ValueCommitted
<1> QED
  BY <1>1, <1>2, <1>3, <1>e, ValueSeen

\* A step of the writes orders a write, commits one, or is unseen.
LEMMA WriteSeen ==
  ASSUME ReadInv, ReadInv', StoreStep, Grows, UNCHANGED gets
  PROVE  Abstract!Next \/ UNCHANGED Abstract!vars
<1>0. TypeOK /\ TypeOK'
  BY DEF ReadInv, ChainInv, WriteInv
<1>1. reads_of_gets' = reads_of_gets
  BY DEF reads_of_gets, read_of, Idle
<1>2. ASSUME TailsKept PROVE tail_versions' = tail_versions
  BY <1>2 DEF TailsKept, tail_versions
<1>3. ASSUME NEW r \in Request, OrderStep(r)
      PROVE  Abstract!Order(r)
  <2>1. Abstract!writes_of(KeyOf[r]) = writes_of(KeyOf[r])
    BY DEF Abstract!writes_of, writes_of
  <2>2. /\ assigned[r] = 0
        /\ assigned' = [assigned EXCEPT ![r] =
                          Cardinality(writes_of(KeyOf[r])) + 1]
        /\ tail_versions' = tail_versions
    BY <1>2, <1>3 DEF OrderStep
  <2>3. \A S : Abstract!Cardinality(S) = Cardinality(S)
    BY DEF Abstract!Cardinality, Cardinality
  <2> QED
    BY <1>1, <2>1, <2>2, <2>3 DEF Abstract!Order
<1>4. ASSUME NEW r \in Request, CommitStep(r)
      PROVE  \/ \E k \in Key : Abstract!Commit(k)
             \/ UNCHANGED Abstract!vars
  <2> DEFINE k == KeyOf[r]
  <2>1. k \in Key
    BY Ring
  <2>2. /\ tail_version(k) \in Nat /\ tail_version(k)' \in Nat
        /\ tail_version(k)' >= tail_version(k)
    BY <1>0, <2>1, Ring, Numbers DEF TypeOK, Grows, tail_version
  <2>3. /\ assigned[r] # 0 /\ tail_version(k)' = assigned[r]
        /\ assigned' = assigned
        /\ \A l \in Key : l # k => tail_version(l)' = tail_version(l)
    BY <1>4 DEF CommitStep
  <2> HIDE DEF k
  <2>4. CASE tail_version(k)' = tail_version(k)
    <3>1. TailsKept
      BY <2>3, <2>4 DEF TailsKept
    <3> QED
      BY <1>1, <1>2, <2>3, <3>1 DEF Abstract!vars
  <2>5. CASE tail_version(k)' # tail_version(k)
    <3>1. assigned[r] > tail_versions[k]
      BY <2>1, <2>2, <2>3, <2>5 DEF tail_versions
    <3>2. tail_versions' = [tail_versions EXCEPT ![k] = assigned[r]]
      BY <2>1, <2>3 DEF tail_versions
    <3>3. r \in Abstract!writes_of(k)
      BY <2>3 DEF Abstract!writes_of, k
    <3>4. Abstract!Commit(k)
      BY <1>1, <2>3, <3>1, <3>2, <3>3 DEF Abstract!Commit
    <3> QED
      BY <2>1, <3>4
  <2> QED
    BY <2>4, <2>5
<1> QED
  BY <1>1, <1>2, <1>3, <1>4 DEF StoreStep, Abstract!Next, Abstract!vars

LEMMA StepSeen ==
  ASSUME DistinctIds, StoreAndReadInv, [NextReads]_readVars
  PROVE  Abstract!Next \/ UNCHANGED Abstract!vars
<1>0. /\ ReadInv /\ ValueCommitted /\ ReadInv' /\ StoreStep /\ Grows
  BY StoreAndReadStep DEF StoreAndReadInv
<1>1. CASE UNCHANGED gets
  BY <1>0, <1>1, WriteSeen
<1>2. ASSUME NEW c \in Reader, NEW n \in Node, NEW k \in Key, BeginGet(c, n, k)
      PROVE  Abstract!Next
  BY <1>0, <1>2, BeginSeen DEF Abstract!Next
<1>3. ASSUME NEW c \in Reader, HandleGet(c)
      PROVE  Abstract!Next \/ UNCHANGED Abstract!vars
  <2>1. CASE QueryFails(c)
    <3>1. gets[c] \in Getting /\ Answer(c, "TAIL_UNAVAILABLE", NoValue, 0)
      BY <1>0, <2>1, Steps DEF QueryFails
    <3>2. Abstract!FailRead(c)
      BY <1>0, <3>1, FailureSeen
    <3> QED
      BY <3>2 DEF Abstract!Next
  <2>2. CASE QueryVersion(c)
    BY <1>0, <2>2, QuerySeen DEF Abstract!Next
  <2>3. CASE LookUpDirty(c)
    BY <1>0, <2>3, LookUpSeen DEF Abstract!Next
  <2>4. CASE ReadValue(c)
    BY <1>0, <2>4, ReadValueSeen DEF Abstract!Next
  <2>5. CASE ReadVersion(c)
    BY <1>0, <2>5, ReadVersionSeen DEF Abstract!Next
  <2> QED
    BY <1>3, <2>1, <2>2, <2>3, <2>4, <2>5 DEF HandleGet
<1> QED
  BY <1>1, <1>2, <1>3 DEF NextReads, readVars

\* When no two requests share an id, reads and writes together implement the
\* abstract store: the writes of a key take its versions in order, a prefix of
\* them is committed, and a Get returns the value of a write that was the
\* committed one at some moment of the Get, and "NOT_FOUND" only if nothing
\* was committed when it began.
THEOREM ReadsAndWritesImplementStore ==
  ASSUME DistinctIds
  PROVE  SpecReads => ImplementsVersionedStore
<1>1. InitReads => StoreAndReadInv
  BY StoreAndReadInit
<1>2. StoreAndReadInv /\ [NextReads]_readVars => StoreAndReadInv'
  BY StoreAndReadStep
<1>3. InitReads => Abstract!Init
  <2> SUFFICES ASSUME InitReads PROVE Abstract!Init
    OBVIOUS
  <2>1. tail_versions = [k \in Key |-> 0]
    <3>1. \A k \in Key : tail_version(k) = 0
      BY Ring DEF InitReads, Init, EmptyStore, tail_version
    <3> QED
      BY <3>1 DEF tail_versions
  <2>2. reads_of_gets = [c \in Reader |-> [state |-> "idle"]]
    <3>1. \A c \in Reader : gets[c] = Idle
      BY DEF InitReads
    <3> QED
      BY <3>1, ReadOf DEF reads_of_gets
  <2> QED
    BY <2>1, <2>2 DEF InitReads, Init, Abstract!Init, Abstract!Idle
<1>4. StoreAndReadInv /\ [NextReads]_readVars
        => [Abstract!Next]_(Abstract!vars)
  BY StepSeen
<1> QED
  BY <1>1, <1>2, <1>3, <1>4, PTL
  DEF SpecReads, ImplementsVersionedStore, Abstract!Spec

================================================================================

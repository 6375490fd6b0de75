----------------------------- MODULE Chain_proofs -----------------------------
(***************************************************************************)
(* The safety of plain chain replication's writes and reads, for every     *)
(* ring size, set of keys, of requests and of readers, number of retries   *)
(* and of faults, and whatever ids the requests have.                      *)
(*                                                                         *)
(* A server that finds a write overtaken never stores it, so it need not   *)
(* hold what it works on, as under CRAQ: it only has seen that version or a*)
(* later one.  That survives, because the latest version of a store never  *)
(* goes back: mark_clean is called only for versions not later than it,    *)
(* and then keeps it, although the version may not be there.               *)
(***************************************************************************)
EXTENDS ChainReads, KVStoreLemmas, FiniteSetTheorems

seen(n, k) == get_latest_version(store[n][k])

\* Whatever a server works on carries the version assigned to the request ...
Stamped ==
  \A x \in forwards \cup pending \cup puts \cup acking \cup expired :
    x.version = assigned[x.request]

\* ... and from the moment it is handled no later than what the server has
\* seen.
WorkSeen ==
  /\ \A x \in pending \cup acking \cup expired :
       x.version <= seen(x.node, KeyOf[x.request])
  /\ \A p \in puts :
       p.step = "finish" => p.version <= seen(p.node, KeyOf[p.request])

writes_of(k) == {r \in Request : KeyOf[r] = k /\ assigned[r] # 0}

\* The head has seen as many versions as it has given, and all of those.
VersionsCounted ==
  /\ \A r \in Request :
       assigned[r] <= seen(head_index(KeyOf[r]), KeyOf[r])
  /\ \A k \in Key : /\ IsFiniteSet(writes_of(k))
                    /\ Cardinality(writes_of(k)) = seen(head_index(k), k)

ChainInv ==
  /\ TypeOK
  /\ Stamped
  /\ WorkSeen
  /\ VersionsCounted
  /\ CommitAckedSeenByTail
  /\ RecordsAgree
  /\ VersionsUnique

-----------------------------------------------------------------------------
LEMMA Ring ==
  /\ \A n \in Node : next_index(n) \in Node /\ prev_index(n) \in Node
  /\ \A k \in Key : head_index(k) \in Node /\ tail_index(k) \in Node
  /\ \A r \in Request : KeyOf[r] \in Key
<1>1. \A n \in Node : next_index(n) \in Node /\ prev_index(n) \in Node
  BY ReplicationAssumption DEF Node, next_index, prev_index
<1> QED
  BY <1>1, ReplicationAssumption DEF head_index, tail_index

LEMMA Numbers ==
  /\ MaxVersion \in Nat
  /\ Version \subseteq Nat
  /\ Version \subseteq 0..MaxVersion
  /\ 0..MaxVersion \subseteq Nat
  /\ 0 \notin Version
  /\ \A v \in 0..MaxVersion : v # 0 => v \in Version
BY KVStoreAssumption DEF Version

StoreType == store \in [Node -> [Key -> Store]]

\* The stores hold numbers that compare.
LEMMA Stores ==
  ASSUME StoreType, NEW n \in Node, NEW k \in Key
  PROVE  /\ store[n][k] \in Store
         /\ seen(n, k) \in Nat
         /\ store[n][k].clean.version \in 0..MaxVersion
         /\ store[n][k].clean.version \in Nat
         /\ store[n][k].clean.version <= seen(n, k)
         /\ store[n][k].dirty \in [Version -> Value \cup {NoValue}]
<1>1. store[n][k] \in Store
  BY DEF StoreType
<1>2. store[n][k].clean.version \in 0..MaxVersion
  BY <1>1 DEF Store, Record
<1> QED
  BY <1>1, <1>2, LatestVersion, VersionsOf, Numbers DEF seen

\* The records of the work sets, field by field.
LEMMA Fields ==
  ASSUME TypeOK
  PROVE  /\ \A x \in pending \cup acking \cup expired \cup puts :
              /\ x.node \in Node /\ x.request \in Request
              /\ x.version \in Version /\ KeyOf[x.request] \in Key
         /\ \A m \in forwards :
              /\ m.to \in Node /\ m.request \in Request
              /\ m.version \in Version /\ KeyOf[m.request] \in Key
         /\ \A c \in commitAcks :
              /\ c.request \in Request /\ c.version \in Version
              /\ KeyOf[c.request] \in Key
              /\ tail_index(KeyOf[c.request]) \in Node
BY Ring DEF TypeOK, PendingEntry, Job, PutThread, Forward, CommitAck

-----------------------------------------------------------------------------
\* A step's effect on the stores: neither the committed nor the latest
\* version of any goes back.
Grows ==
  \A n \in Node, k \in Key :
    /\ store'[n][k].clean.version >= store[n][k].clean.version
    /\ seen(n, k)' >= seen(n, k)

\* The only store a step touches is that of key k at server n, and there it
\* stores, promotes or erases a record; the head's latest version is as before.
Touches(n, k) ==
  /\ StoreType'
  /\ assigned' = assigned
  /\ \A m \in Node, l \in Key :
       m # n \/ l # k => store'[m][l] = store[m][l]
  /\ store'[n][k].clean.version >= store[n][k].clean.version
  /\ seen(n, k)' >= seen(n, k)
  /\ n = head_index(k) => seen(n, k)' = seen(n, k)
  /\ \/ store'[n][k].clean = store[n][k].clean
     \/ \E v \in Version :
          /\ store[n][k].dirty[v] # NoValue
          /\ store'[n][k].clean =
               [version |-> v, value |-> store[n][k].dirty[v]]
  /\ \A w \in Version :
       \/ store'[n][k].dirty[w] \in {store[n][k].dirty[w], NoValue}
       \/ /\ KeyOf[store'[n][k].dirty[w]] = k
          /\ assigned[store'[n][k].dirty[w]] = w

\* What a step is for the abstract store: a write is given the next version of
\* its key, a write that has a version becomes the committed one of its key, or
\* neither.
TailsKept == \A k \in Key : tail_version(k)' = tail_version(k)

OrderStep(r) ==
  /\ assigned[r] = 0
  /\ assigned' = [assigned EXCEPT ![r] = Cardinality(writes_of(KeyOf[r])) + 1]
  /\ TailsKept

CommitStep(r) ==
  /\ assigned[r] # 0
  /\ tail_version(KeyOf[r])' = assigned[r]
  /\ \A k \in Key : k # KeyOf[r] => tail_version(k)' = tail_version(k)
  /\ assigned' = assigned

StoreStep ==
  \/ \E r \in Request : OrderStep(r) \/ CommitStep(r)
  \/ assigned' = assigned /\ TailsKept

\* What the invariant says of the stores.
StoreInv == VersionsCounted /\ RecordsAgree /\ VersionsUnique

LEMMA StoreUpdate ==
  ASSUME StoreType, NEW n \in Node, NEW k \in Key, NEW s \in Store,
         store' = [store EXCEPT ![n][k] = s]
  PROVE  /\ StoreType'
         /\ store'[n][k] = s
         /\ \A m \in Node, l \in Key :
              m # n \/ l # k => store'[m][l] = store[m][l]
BY DEF StoreType

LEMMA SameStore ==
  ASSUME ChainInv, UNCHANGED <<store, assigned>>
  PROVE  StoreType' /\ StoreInv' /\ Grows /\ StoreStep
<1>1. StoreType /\ StoreType'
  BY DEF ChainInv, TypeOK, StoreType
<1>2. Grows
  BY <1>1, Stores DEF Grows, seen
<1>3. StoreInv'
  BY DEF ChainInv, StoreInv, VersionsCounted, RecordsAgree, VersionsUnique,
         writes_of, seen, dirty_versions
<1>4. StoreStep
  BY DEF StoreStep, TailsKept, tail_version
<1> QED
  BY <1>1, <1>2, <1>3, <1>4

LEMMA TouchedStore ==
  ASSUME ChainInv, NEW n \in Node, NEW k \in Key, Touches(n, k)
  PROVE  StoreType' /\ StoreInv' /\ Grows /\ StoreStep
<1>1. StoreType /\ StoreType' /\ assigned' = assigned
  BY DEF ChainInv, TypeOK, StoreType, Touches
<1>2. Grows
  <2> SUFFICES ASSUME NEW m \in Node, NEW l \in Key
               PROVE  /\ store'[m][l].clean.version
                            >= store[m][l].clean.version
                      /\ seen(m, l)' >= seen(m, l)
    BY DEF Grows
  <2>1. CASE m = n /\ l = k
    BY <2>1 DEF Touches
  <2>2. CASE m # n \/ l # k
    <3>1. store'[m][l] = store[m][l]
      BY <2>2 DEF Touches
    <3>2. seen(m, l) \in Nat /\ store[m][l].clean.version \in Nat
      BY <1>1, Stores
    <3> QED
      BY <3>1, <3>2 DEF seen
  <2> QED
    BY <2>1, <2>2
<1>3. VersionsCounted'
  <2>1. \A l \in Key : seen(head_index(l), l)' = seen(head_index(l), l)
    <3> TAKE l \in Key
    <3>1. head_index(l) \in Node
      BY Ring
    <3>2. CASE l = k /\ head_index(l) = n
      BY <3>2 DEF Touches
    <3>3. CASE ~ (l = k /\ head_index(l) = n)
      <4>1. store'[head_index(l)][l] = store[head_index(l)][l]
        BY <3>1, <3>3 DEF Touches
      <4> QED
        BY <4>1 DEF seen, head_index
    <3> QED
      BY <3>2, <3>3
  <2>2. \A l \in Key : writes_of(l)' = writes_of(l)
    BY <1>1 DEF writes_of
  <2>3. \A r \in Request :
          assigned'[r] <= seen(head_index(KeyOf[r]), KeyOf[r])'
    BY <1>1, <2>1, Ring DEF ChainInv, VersionsCounted
  <2> QED
    BY <2>1, <2>2, <2>3 DEF ChainInv, VersionsCounted
<1>4. ASSUME NEW m \in Node, NEW l \in Key, NEW w \in Version,
             store'[m][l].dirty[w] # NoValue
      PROVE  /\ KeyOf[store'[m][l].dirty[w]] = l
             /\ assigned[store'[m][l].dirty[w]] = w
  <2>1. CASE store'[m][l].dirty[w] = store[m][l].dirty[w]
    BY <1>4, <2>1 DEF ChainInv, RecordsAgree, dirty_versions
  <2>2. CASE store'[m][l].dirty[w] # store[m][l].dirty[w]
    <3>1. m = n /\ l = k
      BY <2>2 DEF Touches
    <3> QED
      BY <1>4, <2>2, <3>1 DEF Touches
  <2> QED
    BY <2>1, <2>2
<1>5. ASSUME NEW m \in Node, NEW l \in Key,
             store'[m][l].clean # store[m][l].clean
      PROVE  \E r \in Request :
               /\ m = n /\ l = k /\ KeyOf[r] = l
               /\ store'[m][l].clean = [version |-> assigned[r], value |-> r]
               /\ assigned[r] # 0
  <2>1. m = n /\ l = k
    BY <1>5 DEF Touches
  <2>2. PICK v \in Version :
          /\ store[n][k].dirty[v] # NoValue
          /\ store'[n][k].clean =
               [version |-> v, value |-> store[n][k].dirty[v]]
    BY <1>5, <2>1 DEF Touches
  <2>3. PICK r : r = store[n][k].dirty[v]
    OBVIOUS
  <2>4. r \in Request
    BY <1>1, <2>2, <2>3, Stores DEF Request
  <2>5. KeyOf[r] = k /\ assigned[r] = v /\ v # 0
    BY <2>2, <2>3, Numbers DEF ChainInv, RecordsAgree, dirty_versions
  <2> QED
    BY <2>1, <2>2, <2>3, <2>4, <2>5
<1>6. RecordsAgree'
  <2>1. ASSUME NEW m \in Node, NEW l \in Key,
               store'[m][l].clean.version # 0
        PROVE  /\ KeyOf[store'[m][l].clean.value] = l
               /\ assigned[store'[m][l].clean.value]
                    = store'[m][l].clean.version
    <3>1. CASE store'[m][l].clean = store[m][l].clean
      BY <2>1, <3>1 DEF ChainInv, RecordsAgree
    <3>2. CASE store'[m][l].clean # store[m][l].clean
      <4>1. PICK r \in Request :
              /\ KeyOf[r] = l
              /\ store'[m][l].clean = [version |-> assigned[r], value |-> r]
        BY <1>5, <3>2
      <4> QED
        BY <4>1
    <3> QED
      BY <3>1, <3>2
  <2> QED
    BY <1>1, <1>4, <2>1 DEF RecordsAgree, dirty_versions
<1>7. VersionsUnique'
  BY <1>1 DEF ChainInv, VersionsUnique
<1>8. StoreStep
  <2>1. CASE TailsKept
    BY <1>1, <2>1 DEF StoreStep
  <2>2. CASE ~ TailsKept
    <3>1. PICK l \in Key : tail_version(l)' # tail_version(l)
      BY <2>2 DEF TailsKept
    <3>2. tail_index(l) \in Node
      BY Ring
    <3>3. store'[tail_index(l)][l].clean # store[tail_index(l)][l].clean
      BY <3>1 DEF tail_version, tail_index
    <3>4. PICK r \in Request :
            /\ tail_index(l) = n /\ l = k /\ KeyOf[r] = l
            /\ store'[tail_index(l)][l].clean =
                 [version |-> assigned[r], value |-> r]
            /\ assigned[r] # 0
      BY <1>5, <3>2, <3>3
    <3>5. tail_version(k)' = assigned[r]
      BY <3>4 DEF tail_version, tail_index
    <3>6. \A j \in Key : j # k => tail_version(j)' = tail_version(j)
      BY Ring DEF Touches, tail_version, tail_index
    <3>7. CommitStep(r)
      BY <1>1, <3>4, <3>5, <3>6 DEF CommitStep
    <3> QED
      BY <3>7 DEF StoreStep
  <2> QED
    BY <2>1, <2>2
<1> QED
  BY <1>1, <1>2, <1>3, <1>6, <1>7, <1>8 DEF StoreInv

\* What the invariant says of the work at hand survives whatever a step does
\* to the stores.
LEMMA Carried ==
  ASSUME ChainInv, StoreType', Grows
  PROVE  /\ \A x \in pending \cup acking \cup expired :
              x.version <= seen(x.node, KeyOf[x.request])'
         /\ \A p \in puts : p.step = "finish" =>
              p.version <= seen(p.node, KeyOf[p.request])'
         /\ \A c \in commitAcks :
              seen(tail_index(KeyOf[c.request]), KeyOf[c.request])'
                >= c.version
<1>1. TypeOK /\ StoreType
  BY DEF ChainInv, TypeOK, StoreType
<1>2. \A n \in Node, k \in Key, v \in Version :
        v <= seen(n, k) => v <= seen(n, k)'
  <2> TAKE n \in Node, k \in Key, v \in Version
  <2>1. PICK a \in Nat : a = seen(n, k)
    BY <1>1, Stores
  <2>2. PICK b \in Nat : b = seen(n, k)'
    BY LatestVersion, Numbers DEF StoreType, seen
  <2>3. b >= a
    BY <2>1, <2>2 DEF Grows
  <2>4. v \in Nat
    BY Numbers
  <2> QED
    BY <2>1, <2>2, <2>3, <2>4
<1>3. \A x \in pending \cup acking \cup expired :
        x.version <= seen(x.node, KeyOf[x.request])'
  BY <1>1, <1>2, Fields DEF ChainInv, WorkSeen
<1>4. \A p \in puts : p.step = "finish" =>
        p.version <= seen(p.node, KeyOf[p.request])'
  BY <1>1, <1>2, Fields DEF ChainInv, WorkSeen
<1>5. \A c \in commitAcks :
        seen(tail_index(KeyOf[c.request]), KeyOf[c.request])' >= c.version
  <2> TAKE c \in commitAcks
  <2>1. PICK k \in Key, n \in Node, v \in Version :
          k = KeyOf[c.request] /\ n = tail_index(k) /\ v = c.version
    BY <1>1, Fields
  <2>2. seen(n, k) >= v
    BY <2>1 DEF ChainInv, CommitAckedSeenByTail, seen
  <2>3. PICK a \in Nat : a = seen(n, k)
    BY <1>1, Stores
  <2>4. PICK b \in Nat : b = seen(n, k)'
    BY LatestVersion, Numbers DEF StoreType, seen
  <2>5. b >= v
    BY <1>2, <2>2, <2>3, <2>4, Numbers
  <2> QED
    BY <2>1, <2>4, <2>5 DEF tail_index
<1> QED
  BY <1>3, <1>4, <1>5

-----------------------------------------------------------------------------
\* What the calls of the store amount to.
LEMMA ClientPutEffect ==
  ASSUME ChainInv, NEW r \in Request, HandleClientPut(r),
         NEW n \in Node, NEW k \in Key, k = KeyOf[r], n = head_index(k)
  PROVE  \E v \in Version :
           /\ v = seen(n, k) + 1
           /\ assigned[r] = 0
           /\ assigned' = [assigned EXCEPT ![r] = v]
           /\ puts' = puts \cup
                {[node |-> n, request |-> r, version |-> v, stale |-> FALSE,
                  step |-> "finish"]}
           /\ StoreType' /\ seen(n, k)' = v
           /\ \A m \in Node, l \in Key :
                m # n \/ l # k => store'[m][l] = store[m][l]
           /\ store'[n][k].clean = store[n][k].clean
           /\ \A w \in Version : store'[n][k].dirty[w] =
                IF w = v THEN r ELSE store[n][k].dirty[w]
<1>1. TypeOK /\ StoreType /\ store[n][k] \in Store /\ r \in Value
  BY Stores DEF ChainInv, TypeOK, StoreType, Request
<1>2. PICK v : v = get_latest_version(store[n][k]) + 1
  OBVIOUS
<1>3. /\ v <= MaxVersion
      /\ assigned[r] = 0
      /\ store' = [store EXCEPT ![n][k] = put_new(store[n][k], r)]
      /\ assigned' = [assigned EXCEPT ![r] = v]
      /\ puts' = puts \cup {[node |-> n, request |-> r, version |-> v,
                             stale |-> FALSE, step |-> "finish"]}
  BY <1>2 DEF HandleClientPut
<1>a. PICK s : s = put_new(store[n][k], r)
  OBVIOUS
<1>4. /\ v \in Version
      /\ s \in Store
      /\ s.clean = store[n][k].clean
      /\ s.dirty = [store[n][k].dirty EXCEPT ![v] = r]
      /\ get_latest_version(s) = v
  BY <1>1, <1>2, <1>3, <1>a, PutNew, PutNewLatest
<1>5. /\ StoreType'
      /\ store'[n][k] = s
      /\ \A m \in Node, l \in Key :
           m # n \/ l # k => store'[m][l] = store[m][l]
  <2>1. store' = [store EXCEPT ![n][k] = s]
    BY <1>3, <1>a
  <2> QED
    BY <2>1, <1>1, <1>4, StoreUpdate DEF StoreType
<1>6. \A w \in Version : store'[n][k].dirty[w] =
        IF w = v THEN r ELSE store[n][k].dirty[w]
  BY <1>1, <1>4, <1>5, Stores
<1> QED
  BY <1>2, <1>3, <1>4, <1>5, <1>6 DEF seen

LEMMA StoreForwardedEffect ==
  ASSUME ChainInv, NEW p \in puts, StoreForwardedPut(p),
         NEW n \in Node, NEW k \in Key, NEW v \in Version,
         n = p.node, k = KeyOf[p.request], v = p.version
  PROVE  Touches(n, k) /\ seen(n, k)' >= v
<1>1. TypeOK /\ StoreType /\ store[n][k] \in Store
  BY Stores DEF ChainInv, TypeOK, StoreType
<1>2. /\ p.request \in Request /\ p.request \in Value
      /\ v = assigned[p.request]
  BY <1>1, Fields DEF ChainInv, Stamped, Request
<1>3. /\ store' = [store EXCEPT ![n][k] = put(store[n][k], p.request, v)]
      /\ assigned' = assigned
  BY DEF StoreForwardedPut
<1>a. PICK s : s = put(store[n][k], p.request, v)
  OBVIOUS
<1>4. /\ s \in Store
      /\ s.clean = store[n][k].clean
      /\ \A w \in Version : s.dirty[w] =
           IF w = v /\ store[n][k].clean.version < v
           THEN p.request ELSE store[n][k].dirty[w]
  BY <1>1, <1>2, <1>a, ForwardedPut
<1>5. /\ StoreType'
      /\ store'[n][k] = s
      /\ \A m \in Node, l \in Key :
           m # n \/ l # k => store'[m][l] = store[m][l]
  <2>1. store' = [store EXCEPT ![n][k] = s]
    BY <1>3, <1>a
  <2> QED
    BY <2>1, <1>1, <1>4, StoreUpdate DEF StoreType
<1>6. /\ seen(n, k)' >= seen(n, k)
      /\ seen(n, k)' >= v
      /\ v <= seen(n, k) => seen(n, k)' = seen(n, k)
  BY <1>1, <1>2, <1>5, <1>a, ForwardedPutLatest DEF seen
\* The head has seen every version it has given.
<1>7. n = head_index(k) => v <= seen(n, k)
  BY <1>2 DEF ChainInv, VersionsCounted
<1>8. store'[n][k].clean.version >= store[n][k].clean.version
  <2>1. store[n][k].clean.version \in Nat
    BY <1>1, Stores
  <2> QED
    BY <2>1, <1>4, <1>5
<1>9. \A w \in Version :
        \/ store'[n][k].dirty[w] \in {store[n][k].dirty[w], NoValue}
        \/ /\ KeyOf[store'[n][k].dirty[w]] = k
           /\ assigned[store'[n][k].dirty[w]] = w
  BY <1>2, <1>4, <1>5
<1> QED
  BY <1>3, <1>4, <1>5, <1>6, <1>7, <1>8, <1>9 DEF Touches

\* Both commits, the tail's and that of an ack, are a mark_clean of a version
\* not later than the latest.
LEMMA CommitEffect ==
  ASSUME ChainInv, NEW n \in Node, NEW k \in Key, NEW v \in Version,
         v <= seen(n, k), assigned' = assigned,
         store' = [store EXCEPT ![n][k] = mark_clean(store[n][k], v)]
  PROVE  Touches(n, k) /\ seen(n, k)' = seen(n, k)
<1>1. StoreType /\ store[n][k] \in Store
  BY Stores DEF ChainInv, TypeOK, StoreType
<1>a. PICK s : s = mark_clean(store[n][k], v)
  OBVIOUS
<1>2. /\ s \in Store
      /\ \/ s.clean = store[n][k].clean
         \/ /\ store[n][k].dirty[v] # NoValue
            /\ s.clean = [version |-> v, value |-> store[n][k].dirty[v]]
      /\ s.clean.version >= store[n][k].clean.version
      /\ \A w \in Version : s.dirty[w] =
           IF w <= v THEN NoValue ELSE store[n][k].dirty[w]
  BY <1>1, <1>a, MarkClean
<1>3. /\ StoreType'
      /\ store'[n][k] = s
      /\ \A m \in Node, l \in Key :
           m # n \/ l # k => store'[m][l] = store[m][l]
  <2>1. store' = [store EXCEPT ![n][k] = s]
    BY <1>a
  <2> QED
    BY <2>1, <1>1, <1>2, StoreUpdate DEF StoreType
<1>4. seen(n, k)' = seen(n, k) /\ seen(n, k) \in Nat
  BY <1>1, <1>3, <1>a, MarkCleanLatest, Stores DEF seen
<1>5. seen(n, k)' >= seen(n, k)
  BY <1>4
<1>6. \/ store'[n][k].clean = store[n][k].clean
      \/ \E w \in Version :
           /\ store[n][k].dirty[w] # NoValue
           /\ store'[n][k].clean =
                [version |-> w, value |-> store[n][k].dirty[w]]
  BY <1>2, <1>3
<1>7. \A w \in Version :
        store'[n][k].dirty[w] \in {store[n][k].dirty[w], NoValue}
  BY <1>2, <1>3
<1>8. store'[n][k].clean.version >= store[n][k].clean.version
  BY <1>2, <1>3
<1> QED
  BY <1>3, <1>4, <1>5, <1>6, <1>7, <1>8 DEF Touches

-----------------------------------------------------------------------------
\* add_to_pending_acks adds at most the entry of the request.
LEMMA AddPending ==
  ASSUME pending \subseteq PendingEntry, NEW n \in Node, NEW r \in Request,
         NEW v \in Version, add_to_pending_acks(n, r, v)
  PROVE  /\ pending' \subseteq PendingEntry
         /\ \A e \in pending' :
              \/ e \in pending
              \/ e.node = n /\ e.request = r /\ e.version = v
<1> DEFINE old == pending_of(n, IdOf[r])
           retries == IF old = {} THEN 0 ELSE (CHOOSE e \in old : TRUE).retries
           new == [node |-> n, request |-> r, version |-> v,
                   retries |-> retries]
<1>1. pending' = (pending \ old) \cup {new}
  BY DEF add_to_pending_acks
<1>2. old \subseteq PendingEntry
  BY DEF pending_of
<1>3. retries \in 0..MaxRetryCount
  <2>1. CASE old = {}
    BY <2>1, ReplicationAssumption
  <2>2. CASE old # {}
    <3>1. (CHOOSE e \in old : TRUE) \in old
      BY <2>2
    <3> QED
      BY <3>1, <2>2, <1>2 DEF PendingEntry
  <2> QED
    BY <2>1, <2>2
<1>4. new \in PendingEntry
  BY <1>3 DEF PendingEntry
<1> HIDE DEF old, retries
<1> QED
  BY <1>1, <1>4

LEMMA ForwardPut ==
  ASSUME TypeOK, NEW n \in Node, NEW r \in Request, NEW v \in Version,
         forward_put(n, r, v)
  PROVE  /\ pending' \subseteq PendingEntry
         /\ \A e \in pending' :
              \/ e \in pending
              \/ e.node = n /\ e.request = r /\ e.version = v
         /\ forwards' \subseteq Forward
         /\ \A m \in forwards' :
              m \in forwards \/ (m.request = r /\ m.version = v)
<1>1. /\ add_to_pending_acks(n, r, v)
      /\ forwards' = forwards \cup
           {[to |-> next_index(n), request |-> r, version |-> v]}
  BY DEF forward_put
<1>2. [to |-> next_index(n), request |-> r, version |-> v] \in Forward
  BY Ring DEF Forward
<1>3. pending \subseteq PendingEntry /\ forwards \subseteq Forward
  BY DEF TypeOK
<1>4. /\ pending' \subseteq PendingEntry
      /\ \A e \in pending' :
           \/ e \in pending
           \/ e.node = n /\ e.request = r /\ e.version = v
  BY <1>1, <1>3, AddPending
<1>5. /\ forwards' \subseteq Forward
      /\ \A m \in forwards' :
           m \in forwards \/ (m.request = r /\ m.version = v)
  BY <1>1, <1>2, <1>3
<1> QED
  BY <1>4, <1>5

-----------------------------------------------------------------------------
\* The actions, one by one.
LEMMA ClientPutStep ==
  ASSUME ChainInv, NEW r \in Request, HandleClientPut(r)
  PROVE  ChainInv' /\ Grows /\ StoreStep
<1>0. TypeOK /\ StoreType
  BY DEF ChainInv, TypeOK, StoreType
<1>1. UNCHANGED <<pending, forwards, writeAcks, commitAcks, acking, expired,
                  faults>>
  BY DEF HandleClientPut
<1>2. PICK k \in Key, n \in Node : k = KeyOf[r] /\ n = head_index(k)
  BY Ring
<1>3. PICK v \in Version :
        /\ v = seen(n, k) + 1
        /\ assigned[r] = 0
        /\ assigned' = [assigned EXCEPT ![r] = v]
        /\ puts' = puts \cup
             {[node |-> n, request |-> r, version |-> v, stale |-> FALSE,
               step |-> "finish"]}
        /\ StoreType' /\ seen(n, k)' = v
        /\ \A m \in Node, l \in Key :
             m # n \/ l # k => store'[m][l] = store[m][l]
        /\ store'[n][k].clean = store[n][k].clean
        /\ \A w \in Version : store'[n][k].dirty[w] =
             IF w = v THEN r ELSE store[n][k].dirty[w]
  BY <1>2, ClientPutEffect
<1>4. /\ \A s \in Request : assigned'[s] = IF s = r THEN v ELSE assigned[s]
      /\ assigned' \in [Request -> 0..MaxVersion]
      /\ v \in Nat /\ v # 0
  BY <1>0, <1>3, Numbers DEF TypeOK
<1>5. \A m \in Node, l \in Key :
        /\ store'[m][l].clean = store[m][l].clean
        /\ \A w \in Version : store'[m][l].dirty[w] =
             IF m = n /\ l = k /\ w = v THEN r ELSE store[m][l].dirty[w]
  BY <1>3
<1>6. Grows
  <2> SUFFICES ASSUME NEW m \in Node, NEW l \in Key
               PROVE  /\ store'[m][l].clean.version
                            >= store[m][l].clean.version
                      /\ seen(m, l)' >= seen(m, l)
    BY DEF Grows
  <2>1. seen(m, l) \in Nat /\ store[m][l].clean.version \in Nat
    BY <1>0, Stores
  <2>2. store'[m][l].clean.version >= store[m][l].clean.version
    BY <2>1, <1>5
  <2>3. CASE m = n /\ l = k
    BY <2>1, <2>2, <2>3, <1>3
  <2>4. CASE m # n \/ l # k
    BY <2>1, <2>2, <2>4, <1>3 DEF seen
  <2> QED
    BY <2>3, <2>4
<1>7. TypeOK'
  <2>1. [node |-> n, request |-> r, version |-> v, stale |-> FALSE,
         step |-> "finish"] \in PutThread
    BY DEF PutThread
  <2> QED
    BY <2>1, <1>0, <1>1, <1>3, <1>4 DEF TypeOK, StoreType
\* r had no version, so nothing at hand is a message of r.
<1>8. Stamped'
  <2>1. \A x \in forwards \cup pending \cup puts \cup acking \cup expired :
          x.request # r /\ x.request \in Request
    BY <1>0, <1>3, Fields, Numbers DEF ChainInv, Stamped
  <2> QED
    BY <2>1, <1>1, <1>3, <1>4 DEF ChainInv, Stamped
<1>9. WorkSeen'
  <2>1. v <= seen(n, k)'
    BY <1>3, <1>4
  <2> QED
    BY <2>1, <1>1, <1>2, <1>3, <1>6, Carried DEF WorkSeen
<1>10. CommitAckedSeenByTail'
  BY <1>1, <1>3, <1>6, Carried DEF CommitAckedSeenByTail, seen
<1>11. RecordsAgree'
  <2>1. ASSUME NEW m \in Node, NEW l \in Key, NEW w \in Version,
               store'[m][l].dirty[w] # NoValue
        PROVE  /\ KeyOf[store'[m][l].dirty[w]] = l
               /\ assigned'[store'[m][l].dirty[w]] = w
    <3>1. CASE m = n /\ l = k /\ w = v
      BY <3>1, <1>2, <1>4, <1>5
    <3>2. CASE ~ (m = n /\ l = k /\ w = v)
      <4>1. store'[m][l].dirty[w] = store[m][l].dirty[w]
        BY <3>2, <1>5
      <4>2. store[m][l].dirty[w] \in Request
        BY <4>1, <2>1, <1>0, Stores DEF Request
      <4>3. /\ KeyOf[store[m][l].dirty[w]] = l
            /\ assigned[store[m][l].dirty[w]] = w
        BY <4>1, <2>1 DEF ChainInv, RecordsAgree, dirty_versions
      <4> QED
        BY <4>1, <4>2, <4>3, <1>3, <1>4, Numbers
    <3> QED
      BY <3>1, <3>2
  <2>2. ASSUME NEW m \in Node, NEW l \in Key,
               store'[m][l].clean.version # 0
        PROVE  /\ KeyOf[store'[m][l].clean.value] = l
               /\ assigned'[store'[m][l].clean.value] =
                    store'[m][l].clean.version
    <3>0. store'[m][l].clean = store[m][l].clean
      BY <1>5
    <3>1. /\ KeyOf[store[m][l].clean.value] = l
          /\ assigned[store[m][l].clean.value] = store[m][l].clean.version
      BY <2>2, <3>0 DEF ChainInv, RecordsAgree
    <3>2. store[m][l].clean.value # r
      BY <3>0, <3>1, <2>2, <1>3
    <3>3. assigned'[store[m][l].clean.value]
            = assigned[store[m][l].clean.value]
      BY <3>2, <1>0, <1>3 DEF TypeOK
    <3> QED
      BY <3>0, <3>1, <3>3
  <2> QED
    BY <2>1, <2>2 DEF RecordsAgree, dirty_versions
<1>12. VersionsUnique'
  <2>1. \A s \in Request : KeyOf[s] = k => assigned[s] # v
    <3> SUFFICES ASSUME NEW s \in Request, KeyOf[s] = k, assigned[s] = v
                 PROVE  FALSE
      OBVIOUS
    <3>1. v <= seen(n, k)
      BY <1>2 DEF ChainInv, VersionsCounted
    <3>2. seen(n, k) \in Nat
      BY <1>0, Stores
    <3> QED
      BY <3>1, <3>2, <1>3
  <2> QED
    BY <2>1, <1>2, <1>4 DEF ChainInv, VersionsUnique
<1>13. /\ writes_of(k)' = writes_of(k) \cup {r}
       /\ r \notin writes_of(k)
       /\ \A l \in Key : l # k => writes_of(l)' = writes_of(l)
  BY <1>2, <1>3, <1>4 DEF writes_of
<1>14. Cardinality(writes_of(k)) + 1 = v /\ IsFiniteSet(writes_of(k))
  BY <1>2, <1>3 DEF ChainInv, VersionsCounted
<1>15. VersionsCounted'
  <2>1. ASSUME NEW l \in Key
        PROVE  /\ IsFiniteSet(writes_of(l))'
               /\ Cardinality(writes_of(l))' = seen(head_index(l), l)'
    <3>1. CASE l = k
      <4>1. IsFiniteSet(writes_of(k))' /\ Cardinality(writes_of(k))' = v
        BY <1>13, <1>14, FS_AddElement
      <4> QED
        BY <3>1, <4>1, <1>2, <1>3
    <3>2. CASE l # k
      <4>1. store'[head_index(l)][l] = store[head_index(l)][l]
        BY <3>2, <1>3, Ring
      <4>2. seen(head_index(l), l)' = seen(head_index(l), l)
        BY <4>1 DEF seen, head_index
      <4> QED
        BY <3>2, <4>2, <1>13 DEF ChainInv, VersionsCounted
    <3> QED
      BY <3>1, <3>2
  <2>2. ASSUME NEW s \in Request
        PROVE  assigned'[s] <= seen(head_index(KeyOf[s]), KeyOf[s])'
    <3>1. PICK l \in Key, m \in Node : l = KeyOf[s] /\ m = head_index(l)
      BY Ring
    <3>2. CASE s = r
      BY <3>1, <3>2, <1>2, <1>3, <1>4
    <3>3. CASE s # r
      <4>1. assigned[s] <= seen(m, l)
        BY <3>1 DEF ChainInv, VersionsCounted
      <4>2. PICK a \in Nat, b \in Nat, c \in Nat :
              a = assigned[s] /\ b = seen(m, l) /\ c = seen(m, l)'
        <5>1. assigned[s] \in Nat /\ seen(m, l) \in Nat
          BY <1>0, Stores, Numbers DEF TypeOK
        <5>2. seen(m, l)' \in Nat
          BY <1>3, LatestVersion, Numbers DEF StoreType, seen
        <5> QED
          BY <5>1, <5>2
      <4>3. c >= b
        BY <4>2, <1>6 DEF Grows
      <4>4. a <= c
        BY <4>1, <4>2, <4>3
      <4> QED
        BY <3>1, <3>3, <4>2, <4>4, <1>4
    <3> QED
      BY <3>2, <3>3
  <2> QED
    BY <2>1, <2>2 DEF VersionsCounted
<1>16. TailsKept
  BY <1>5, Ring DEF TailsKept, tail_version, tail_index
<1>17. OrderStep(r)
  BY <1>2, <1>3, <1>14, <1>16 DEF OrderStep
<1> QED
  BY <1>6, <1>7, <1>8, <1>9, <1>10, <1>11, <1>12, <1>15, <1>17
  DEF ChainInv, StoreStep

\* A write is stale here when it is not later than what the server has seen.
LEMMA HandleForwardedStep ==
  ASSUME ChainInv, NEW m \in forwards, HandleForwardedPut(m)
  PROVE  ChainInv' /\ Grows /\ StoreStep
<1>0. TypeOK
  BY DEF ChainInv
<1>1. /\ m.to \in Node /\ m.request \in Request /\ m.version \in Version
      /\ m.version = assigned[m.request]
  BY <1>0, Fields DEF ChainInv, Stamped
<1> DEFINE stale == m.version <= get_latest_version(store[m.to][KeyOf[m.request]])
           p == [node |-> m.to, request |-> m.request, version |-> m.version,
                 stale |-> stale, step |-> IF stale THEN "finish" ELSE "put"]
<1>2. /\ forwards' = forwards \ {m}
      /\ puts' = puts \cup {p}
      /\ UNCHANGED <<store, pending, writeAcks, commitAcks, acking, expired,
                     assigned, faults>>
  BY DEF HandleForwardedPut, BeginForwardedPut
<1>3. stale \in BOOLEAN /\ p.step \in {"put", "finish"}
  OBVIOUS
<1>4. p \in PutThread
  BY <1>1, <1>3 DEF PutThread
<1>5. stale => m.version <= seen(m.to, KeyOf[m.request])
  BY DEF seen
<1>6. /\ p.node = m.to /\ p.request = m.request /\ p.version = m.version
      /\ (p.step = "finish" => stale)
  OBVIOUS
<1> HIDE DEF stale, p
<1>7. StoreType' /\ StoreInv' /\ Grows /\ StoreStep
  BY <1>2, SameStore
<1>8. TypeOK'
  BY <1>0, <1>2, <1>4 DEF TypeOK
<1>9. Stamped'
  BY <1>1, <1>2, <1>6 DEF ChainInv, Stamped
<1>10. WorkSeen'
  BY <1>2, <1>5, <1>6 DEF ChainInv, WorkSeen, seen
<1>11. CommitAckedSeenByTail'
  BY <1>2 DEF ChainInv, CommitAckedSeenByTail
<1> QED
  BY <1>7, <1>8, <1>9, <1>10, <1>11 DEF ChainInv, StoreInv

LEMMA StoreForwardedStep ==
  ASSUME ChainInv, NEW p \in puts, StoreForwardedPut(p)
  PROVE  ChainInv' /\ Grows /\ StoreStep
<1>0. TypeOK
  BY DEF ChainInv
<1>1. /\ p \in PutThread /\ p.request \in Request
      /\ p.version = assigned[p.request]
  BY <1>0, Fields DEF ChainInv, Stamped, TypeOK
<1>2. PICK n \in Node, k \in Key, v \in Version :
        n = p.node /\ k = KeyOf[p.request] /\ v = p.version
  BY <1>0, Fields
<1> DEFINE q == [p EXCEPT !.step = "finish"]
<1>3. /\ puts' = (puts \ {p}) \cup {q}
      /\ UNCHANGED <<pending, forwards, writeAcks, commitAcks, acking, expired,
                     assigned, faults>>
  BY DEF StoreForwardedPut
<1>4. /\ q \in PutThread
      /\ q.node = p.node /\ q.request = p.request /\ q.version = p.version
  BY <1>1 DEF PutThread
<1> HIDE DEF q
<1>5. Touches(n, k) /\ seen(n, k)' >= v
  BY <1>2, StoreForwardedEffect
<1>6. StoreType' /\ StoreInv' /\ Grows /\ StoreStep
  BY <1>5, TouchedStore
<1>7. TypeOK'
  BY <1>0, <1>3, <1>4, <1>6 DEF TypeOK, StoreType
<1>8. Stamped'
  BY <1>1, <1>3, <1>4 DEF ChainInv, Stamped
<1>9. WorkSeen'
  <2>1. v <= seen(n, k)'
    <3>1. seen(n, k)' \in Nat /\ v \in Nat
      BY <1>6, LatestVersion, Numbers DEF StoreType, seen
    <3> QED
      BY <3>1, <1>5
  <2> QED
    BY <2>1, <1>2, <1>3, <1>4, <1>6, Carried DEF WorkSeen
<1>10. CommitAckedSeenByTail'
  BY <1>3, <1>6, Carried DEF CommitAckedSeenByTail, seen
<1> QED
  BY <1>6, <1>7, <1>8, <1>9, <1>10 DEF ChainInv, StoreInv

LEMMA FinishAtTailStep ==
  ASSUME ChainInv, NEW p \in puts, FinishPutAtTail(p)
  PROVE  ChainInv' /\ Grows /\ StoreStep
<1>0. TypeOK
  BY DEF ChainInv
<1>1. p.request \in Request /\ p.version = assigned[p.request]
  BY <1>0, Fields DEF ChainInv, Stamped
<1>2. PICK n \in Node, k \in Key, v \in Version :
        n = p.node /\ k = KeyOf[p.request] /\ v = p.version
  BY <1>0, Fields
<1>3. /\ n = tail_index(k) /\ p.step = "finish"
      /\ store' = IF p.stale
                  THEN store
                  ELSE [store EXCEPT ![n][k] = mark_clean(store[n][k], v)]
      /\ writeAcks' = IF RingSize = 1
                      THEN writeAcks
                      ELSE writeAcks \cup {write_ack(n, p.request)}
      /\ commitAcks' = commitAcks \cup
           {[request |-> p.request, version |-> v]}
      /\ puts' = puts \ {p}
      /\ UNCHANGED <<pending, forwards, acking, expired, assigned, faults>>
  BY <1>2 DEF FinishPutAtTail
<1>4. v <= seen(n, k)
  BY <1>2, <1>3 DEF ChainInv, WorkSeen
<1>5. /\ StoreType' /\ StoreInv' /\ Grows /\ StoreStep
      /\ seen(n, k)' = seen(n, k)
  <2>1. CASE p.stale
    BY <2>1, <1>3, SameStore DEF seen
  <2>2. CASE ~ p.stale
    BY <2>2, <1>3, <1>4, CommitEffect, TouchedStore
  <2> QED
    BY <2>1, <2>2
<1>6. TypeOK'
  <2>1. writeAcks' \subseteq WriteAck
    BY <1>0, <1>1, <1>3, Ring DEF TypeOK, WriteAck, write_ack
  <2>2. commitAcks' \subseteq CommitAck
    BY <1>0, <1>1, <1>3 DEF TypeOK, CommitAck
  <2> QED
    BY <1>0, <1>3, <1>5, <2>1, <2>2 DEF TypeOK, StoreType
<1>7. Stamped'
  BY <1>3 DEF ChainInv, Stamped
<1>8. WorkSeen'
  BY <1>3, <1>5, Carried DEF WorkSeen
<1>9. CommitAckedSeenByTail'
  <2>1. seen(tail_index(k), k)' >= v
    <3>1. seen(n, k) \in Nat /\ v \in Nat
      BY <1>0, Stores, Numbers DEF TypeOK, StoreType
    <3>2. seen(n, k)' >= v
      BY <3>1, <1>4, <1>5
    <3> QED
      BY <3>2, <1>3 DEF seen, tail_index
  <2>2. \A c \in commitAcks' :
          \/ c \in commitAcks
          \/ c.request = p.request /\ c.version = v
    BY <1>3
  <2> QED
    BY <1>2, <1>5, <2>1, <2>2, Carried DEF CommitAckedSeenByTail, seen
<1> QED
  BY <1>5, <1>6, <1>7, <1>8, <1>9 DEF ChainInv, StoreInv

LEMMA FinishByForwardingStep ==
  ASSUME ChainInv, NEW p \in puts, FinishPutByForwarding(p)
  PROVE  ChainInv' /\ Grows /\ StoreStep
<1>0. TypeOK
  BY DEF ChainInv
<1>1. /\ p.node \in Node /\ p.request \in Request /\ p.version \in Version
      /\ p.version = assigned[p.request]
  BY <1>0, Fields DEF ChainInv, Stamped
<1>2. /\ forward_put(p.node, p.request, p.version)
      /\ p.step = "finish"
      /\ puts' = puts \ {p}
      /\ UNCHANGED <<store, writeAcks, commitAcks, acking, expired, assigned,
                     faults>>
  BY DEF FinishPutByForwarding
<1>3. /\ pending' \subseteq PendingEntry
      /\ \A e \in pending' :
           \/ e \in pending
           \/ e.node = p.node /\ e.request = p.request /\ e.version = p.version
      /\ forwards' \subseteq Forward
      /\ \A m \in forwards' :
           m \in forwards \/ (m.request = p.request /\ m.version = p.version)
  BY <1>0, <1>1, <1>2, ForwardPut
<1>4. StoreType' /\ StoreInv' /\ Grows /\ StoreStep
  BY <1>2, SameStore
<1>5. TypeOK'
  BY <1>0, <1>2, <1>3 DEF TypeOK
<1>6. Stamped'
  BY <1>1, <1>2, <1>3 DEF ChainInv, Stamped
<1>7. WorkSeen'
  BY <1>2, <1>3 DEF ChainInv, WorkSeen, seen
<1>8. CommitAckedSeenByTail'
  BY <1>2 DEF ChainInv, CommitAckedSeenByTail
<1> QED
  BY <1>4, <1>5, <1>6, <1>7, <1>8 DEF ChainInv, StoreInv

LEMMA BeginAckStep ==
  ASSUME ChainInv, NEW a \in writeAcks, BeginAck(a)
  PROVE  ChainInv' /\ Grows /\ StoreStep
<1>0. TypeOK
  BY DEF ChainInv
<1>1. /\ writeAcks' = writeAcks \ {a}
      /\ acking' = acking \cup {[node |-> e.node, request |-> e.request,
                                 version |-> e.version]
                                  : e \in pending_of(a.to, a.id)}
      /\ UNCHANGED <<store, pending, forwards, commitAcks, puts, expired,
                     assigned, faults>>
  BY DEF BeginAck
<1>2. \A j \in acking' :
        \/ j \in acking
        \/ \E e \in pending : /\ j = [node |-> e.node, request |-> e.request,
                                      version |-> e.version]
                              /\ j.node = e.node /\ j.request = e.request
                              /\ j.version = e.version
  BY <1>1 DEF pending_of
<1>3. StoreType' /\ StoreInv' /\ Grows /\ StoreStep
  BY <1>1, SameStore
<1>4. TypeOK'
  <2>1. acking' \subseteq Job
    BY <1>0, <1>2, Fields DEF TypeOK, Job
  <2> QED
    BY <1>0, <1>1, <2>1 DEF TypeOK
<1>5. Stamped'
  BY <1>1, <1>2 DEF ChainInv, Stamped
<1>6. WorkSeen'
  BY <1>1, <1>2 DEF ChainInv, WorkSeen, seen
<1>7. CommitAckedSeenByTail'
  BY <1>1 DEF ChainInv, CommitAckedSeenByTail
<1> QED
  BY <1>3, <1>4, <1>5, <1>6, <1>7 DEF ChainInv, StoreInv

\* The write may never have been stored here, but what has been seen is not
\* older, so mark_clean keeps the latest version.
LEMMA FinishAckStep ==
  ASSUME ChainInv, NEW j \in acking, FinishAck(j)
  PROVE  ChainInv' /\ Grows /\ StoreStep
<1>0. TypeOK
  BY DEF ChainInv
<1>1. j.request \in Request
  BY <1>0, Fields
<1>2. PICK n \in Node, k \in Key, v \in Version :
        n = j.node /\ k = KeyOf[j.request] /\ v = j.version
  BY <1>0, Fields
<1>3. /\ store' = [store EXCEPT ![n][k] = mark_clean(store[n][k], v)]
      /\ writeAcks' = IF n = head_index(k)
                      THEN writeAcks
                      ELSE writeAcks \cup {write_ack(n, j.request)}
      /\ pending' = pending \ pending_of(n, IdOf[j.request])
      /\ acking' = acking \ {j}
      /\ UNCHANGED <<forwards, commitAcks, puts, expired, assigned, faults>>
  BY <1>2 DEF FinishAck
<1>4. v <= seen(n, k)
  BY <1>2 DEF ChainInv, WorkSeen
<1>5. Touches(n, k)
  BY <1>3, <1>4, CommitEffect
<1>6. StoreType' /\ StoreInv' /\ Grows /\ StoreStep
  BY <1>5, TouchedStore
<1>7. TypeOK'
  <2>1. writeAcks' \subseteq WriteAck
    BY <1>0, <1>1, <1>3, Ring DEF TypeOK, WriteAck, write_ack
  <2> QED
    BY <1>0, <1>3, <1>6, <2>1 DEF TypeOK, StoreType
<1>8. Stamped'
  BY <1>3 DEF ChainInv, Stamped
<1>9. WorkSeen'
  BY <1>3, <1>6, Carried DEF WorkSeen
<1>10. CommitAckedSeenByTail'
  BY <1>3, <1>6, Carried DEF CommitAckedSeenByTail, seen
<1> QED
  BY <1>6, <1>7, <1>8, <1>9, <1>10 DEF ChainInv, StoreInv

LEMMA CollectStep ==
  ASSUME ChainInv, NEW n \in Node, NEW due \in SUBSET pending,
         CollectExpired(n, due)
  PROVE  ChainInv' /\ Grows /\ StoreStep
<1>0. TypeOK
  BY DEF ChainInv
<1>1. /\ \A e \in due : e.node = n /\ e.retries < MaxRetryCount
      /\ pending' = (pending \ due) \cup
                      {[e EXCEPT !.retries = @ + 1] : e \in due}
      /\ expired' = expired \cup
           {[node |-> n, request |-> e.request, version |-> e.version]
              : e \in due}
      /\ UNCHANGED <<store, forwards, writeAcks, commitAcks, puts, acking,
                     assigned>>
      /\ faults' \in {faults, faults + 1}
      /\ faults' # faults => faults < MaxFaults
  BY DEF CollectExpired
<1>2. \A e \in due :
        LET f == [e EXCEPT !.retries = @ + 1]
        IN  /\ f \in PendingEntry
            /\ f.node = e.node /\ f.request = e.request
            /\ f.version = e.version
  BY <1>0, <1>1, ReplicationAssumption DEF TypeOK, PendingEntry
<1>3. \A e \in pending' :
        \E f \in pending : /\ e.node = f.node /\ e.request = f.request
                           /\ e.version = f.version
  <2> SUFFICES ASSUME NEW e \in pending', e \notin pending
               PROVE  \E f \in pending :
                        /\ e.node = f.node /\ e.request = f.request
                        /\ e.version = f.version
    OBVIOUS
  <2>1. PICK f \in due : e = [f EXCEPT !.retries = @ + 1]
    BY <1>1
  <2> QED
    BY <2>1, <1>2
<1>4. \A j \in expired' :
        \/ j \in expired
        \/ \E f \in pending : /\ j = [node |-> n, request |-> f.request,
                                      version |-> f.version]
                              /\ j.node = f.node /\ j.request = f.request
                              /\ j.version = f.version
  BY <1>1
<1>5. StoreType' /\ StoreInv' /\ Grows /\ StoreStep
  BY <1>1, SameStore
<1>6. TypeOK'
  <2>1. pending' \subseteq PendingEntry
    BY <1>0, <1>1, <1>2 DEF TypeOK
  <2>2. expired' \subseteq Job
    BY <1>0, <1>4, Fields DEF TypeOK, Job
  <2>3. faults' \in 0..MaxFaults
    BY <1>0, <1>1, ReplicationAssumption DEF TypeOK
  <2> QED
    BY <1>0, <1>1, <2>1, <2>2, <2>3 DEF TypeOK
<1>7. Stamped'
  BY <1>1, <1>3, <1>4 DEF ChainInv, Stamped
<1>8. WorkSeen'
  BY <1>1, <1>3, <1>4 DEF ChainInv, WorkSeen, seen
<1>9. CommitAckedSeenByTail'
  BY <1>1 DEF ChainInv, CommitAckedSeenByTail
<1> QED
  BY <1>5, <1>6, <1>7, <1>8, <1>9 DEF ChainInv, StoreInv

LEMMA ReForwardStep ==
  ASSUME ChainInv, NEW j \in expired, ReForward(j)
  PROVE  ChainInv' /\ Grows /\ StoreStep
<1>0. TypeOK
  BY DEF ChainInv
<1>1. /\ j.node \in Node /\ j.request \in Request /\ j.version \in Version
      /\ j.version = assigned[j.request]
  BY <1>0, Fields DEF ChainInv, Stamped
<1>2. /\ forward_put(j.node, j.request, j.version)
      /\ expired' = expired \ {j}
      /\ UNCHANGED <<store, writeAcks, commitAcks, puts, acking, assigned,
                     faults>>
  BY DEF ReForward
<1>3. /\ pending' \subseteq PendingEntry
      /\ \A e \in pending' :
           \/ e \in pending
           \/ e.node = j.node /\ e.request = j.request /\ e.version = j.version
      /\ forwards' \subseteq Forward
      /\ \A m \in forwards' :
           m \in forwards \/ (m.request = j.request /\ m.version = j.version)
  BY <1>0, <1>1, <1>2, ForwardPut
<1>4. StoreType' /\ StoreInv' /\ Grows /\ StoreStep
  BY <1>2, SameStore
<1>5. TypeOK'
  BY <1>0, <1>2, <1>3 DEF TypeOK
<1>6. Stamped'
  BY <1>1, <1>2, <1>3 DEF ChainInv, Stamped
<1>7. WorkSeen'
  BY <1>2, <1>3 DEF ChainInv, WorkSeen, seen
<1>8. CommitAckedSeenByTail'
  BY <1>2 DEF ChainInv, CommitAckedSeenByTail
<1> QED
  BY <1>4, <1>5, <1>6, <1>7, <1>8 DEF ChainInv, StoreInv

LEMMA LoseStep ==
  ASSUME ChainInv, Lose
  PROVE  ChainInv' /\ Grows /\ StoreStep
<1>0. TypeOK
  BY DEF ChainInv
<1>1. /\ forwards' \subseteq forwards /\ writeAcks' \subseteq writeAcks
      /\ faults < MaxFaults /\ faults' = faults + 1
      /\ UNCHANGED <<store, pending, commitAcks, puts, acking, expired,
                     assigned>>
  BY DEF Lose, LoseForward, LoseAck
<1>2. StoreType' /\ StoreInv' /\ Grows /\ StoreStep
  BY <1>1, SameStore
<1>3. TypeOK'
  BY <1>0, <1>1, ReplicationAssumption DEF TypeOK
<1>4. Stamped' /\ WorkSeen' /\ CommitAckedSeenByTail'
  BY <1>1 DEF ChainInv, Stamped, WorkSeen, seen, CommitAckedSeenByTail
<1> QED
  BY <1>2, <1>3, <1>4 DEF ChainInv, StoreInv

-----------------------------------------------------------------------------
LEMMA ChainInit == Init => ChainInv
<1> SUFFICES ASSUME Init PROVE ChainInv
  OBVIOUS
<1>1. TypeOK
  BY EmptyStoreType, KVStoreAssumption, ReplicationAssumption DEF Init, TypeOK
<1>2. \A n \in Node, k \in Key :
        /\ store[n][k].clean.version = 0
        /\ \A v \in Version : store[n][k].dirty[v] = NoValue
  BY DEF Init, EmptyStore
<1>3. \A n \in Node, k \in Key : seen(n, k) = 0
  <2> TAKE n \in Node, k \in Key
  <2>1. get_latest_version(store[n][k])
          \in {store[n][k].clean.version} \cup dirty_versions(store[n][k])
    BY <1>1, LatestVersion DEF TypeOK
  <2> QED
    BY <2>1, <1>2 DEF seen, dirty_versions
<1>4. VersionsCounted
  <2>1. \A k \in Key : writes_of(k) = {}
    BY DEF Init, writes_of
  <2>2. \A k \in Key : /\ IsFiniteSet(writes_of(k))
                      /\ Cardinality(writes_of(k)) = seen(head_index(k), k)
    BY <2>1, <1>3, FS_EmptySet, Ring
  <2>3. \A r \in Request :
          assigned[r] <= seen(head_index(KeyOf[r]), KeyOf[r])
    BY <1>3, Ring DEF Init
  <2> QED
    BY <2>2, <2>3 DEF VersionsCounted
<1> QED
  BY <1>1, <1>2, <1>4
  DEF Init, ChainInv, Stamped, WorkSeen, CommitAckedSeenByTail, RecordsAgree,
      VersionsUnique, dirty_versions

LEMMA ChainNext ==
  ASSUME ChainInv, [Next]_vars
  PROVE  ChainInv' /\ Grows /\ StoreStep
<1>1. CASE \E r \in Request : HandleClientPut(r)
  BY <1>1, ClientPutStep
<1>2. CASE \E m \in forwards : HandleForwardedPut(m)
  BY <1>2, HandleForwardedStep
<1>3. CASE HandlePut
  BY <1>3, StoreForwardedStep, FinishAtTailStep, FinishByForwardingStep
  DEF HandlePut, FinishPut
<1>4. CASE HandleAck
  BY <1>4, BeginAckStep, FinishAckStep DEF HandleAck
<1>5. CASE RetryLoop
  BY <1>5, CollectStep, ReForwardStep DEF RetryLoop
<1>6. CASE Lose
  BY <1>6, LoseStep
<1>7. CASE UNCHANGED vars
  <2>1. StoreType' /\ StoreInv' /\ Grows /\ StoreStep
    BY <1>7, SameStore DEF vars
  <2>2. /\ TypeOK' /\ Stamped' /\ WorkSeen' /\ CommitAckedSeenByTail'
    BY <1>7 DEF vars, ChainInv, TypeOK, Stamped, WorkSeen, seen,
                CommitAckedSeenByTail
  <2> QED
    BY <2>1, <2>2 DEF ChainInv, StoreInv
<1> QED
  BY <1>1, <1>2, <1>3, <1>4, <1>5, <1>6, <1>7 DEF Next, Deliver

LEMMA ChainInvariant == Spec => []ChainInv
<1>1. ChainInv /\ [Next]_vars => ChainInv'
  BY ChainNext
<1> QED
  BY ChainInit, <1>1, PTL DEF Spec

\* The servers' state stays well formed.
THEOREM ChainTypes == Spec => []TypeOK
  BY ChainInvariant, PTL DEF ChainInv

\* Whatever is reordered, lost or retried, and whatever ids the requests have,
\* the tail has seen every version it sent a CommitAck for, or a later one.
THEOREM AcknowledgedIsSeen == Spec => []CommitAckedSeenByTail
  BY ChainInvariant, PTL DEF ChainInv

\* Two servers never keep different writes under one version of a key: a record
\* is the write that was assigned its version, and no version is given twice.
THEOREM ChainReplicasAgree == Spec => [](RecordsAgree /\ VersionsUnique)
  BY ChainInvariant, PTL DEF ChainInv

\* No server's committed version of a key goes back, although an overtaken
\* write may commit after a later one.
THEOREM ChainCleanIsMonotone == Spec => CleanNeverRollsBack
<1>1. ChainInv /\ [Next]_vars
        => [\A n \in Node, k \in Key :
              store'[n][k].clean.version >= store[n][k].clean.version]_vars
  BY ChainNext DEF Grows
<1> QED
  BY ChainInvariant, <1>1, PTL DEF Spec, CleanNeverRollsBack

-----------------------------------------------------------------------------
(***************************************************************************)
(* The reads.  A value read at the tail is nothing, or a write of the key  *)
(* committed there then and covered there ever after.                      *)
(***************************************************************************)
ReadAtTail(k, value) ==
  \/ value = NoValue
  \/ /\ value \in Request
     /\ KeyOf[value] = k
     /\ assigned[value] # 0
     /\ assigned[value] <= tail_version(k)

Reading(g) ==
  \E k \in Key, value \in Request \cup {NoValue} :
    /\ g = [step |-> "version", key |-> k, value |-> value]
    /\ ReadAtTail(k, value)

Returned(g) ==
  \E value, version : g = [step |-> "done", value |-> value,
                           version |-> version]

GetsInv ==
  /\ gets = [c \in Reader |-> gets[c]]
  /\ \A c \in Reader : gets[c] = Idle \/ Reading(gets[c]) \/ Returned(gets[c])

ReadInv == ChainInv /\ GetsInv

LEMMA ReadOf ==
  /\ read_of(Idle) = [state |-> "idle"]
  /\ \A k, value :
       read_of([step |-> "version", key |-> k, value |-> value])
         = [state |-> "reading", key |-> k, floor |-> version_of(value)]
  /\ \A value, version :
       read_of([step |-> "done", value |-> value, version |-> version])
         = [state |-> "returned", value |-> value]
<1>1. read_of(Idle) = [state |-> "idle"]
  <2>1. Idle.step # "version"
    BY DEF Idle
  <2> QED
    BY <2>1 DEF read_of
<1>2. ASSUME NEW k, NEW value
      PROVE  read_of([step |-> "version", key |-> k, value |-> value])
               = [state |-> "reading", key |-> k, floor |-> version_of(value)]
  <2>1. PICK g : g = [step |-> "version", key |-> k, value |-> value]
    OBVIOUS
  <2>2. g.step = "version" /\ g.key = k /\ g.value = value
    BY <2>1
  <2>3. g # Idle
    BY <2>2 DEF Idle
  <2>4. read_of(g) = [state |-> "reading", key |-> k,
                      floor |-> version_of(value)]
    BY <2>2, <2>3 DEF read_of
  <2> QED
    BY <2>1, <2>4
<1>3. ASSUME NEW value, NEW version
      PROVE  read_of([step |-> "done", value |-> value, version |-> version])
               = [state |-> "returned", value |-> value]
  <2>1. PICK g : g = [step |-> "done", value |-> value, version |-> version]
    OBVIOUS
  <2>2. g.step = "done" /\ g.value = value
    BY <2>1
  <2>3. g # Idle
    BY <2>2 DEF Idle
  <2>4. read_of(g) = [state |-> "returned", value |-> value]
    BY <2>2, <2>3 DEF read_of
  <2> QED
    BY <2>1, <2>4
<1> QED
  BY <1>1, <1>2, <1>3

\* What a server commits at the tail is a write of the key, with its version.
LEMMA TailRecord ==
  ASSUME ChainInv, NEW k \in Key
  PROVE  LET value == store[tail_index(k)][k].clean.value
         IN  /\ value \in Request \cup {NoValue}
             /\ ReadAtTail(k, value)
             /\ version_of(value) = tail_version(k)
<1>1. PICK n \in Node : n = tail_index(k)
  BY Ring
<1>2. store[n][k].clean \in Record /\ tail_version(k) \in Nat
  BY <1>1, Stores DEF ChainInv, TypeOK, StoreType, Store, tail_version
<1>3. PICK value, v : /\ value = store[n][k].clean.value
                      /\ v = store[n][k].clean.version
  OBVIOUS
<1>4. /\ value \in Request \cup {NoValue} /\ NoValue \notin Request
      /\ v = 0 <=> value = NoValue
      /\ v = tail_version(k) /\ v \in Nat
  BY <1>1, <1>2, <1>3, KVStoreAssumption DEF Record, Request, tail_version
<1>5. v # 0 => KeyOf[value] = k /\ assigned[value] = v
  BY <1>3 DEF ChainInv, RecordsAgree
<1>6. ReadAtTail(k, value) /\ version_of(value) = v
  BY <1>4, <1>5 DEF ReadAtTail, version_of
<1> QED
  BY <1>1, <1>3, <1>4, <1>6

\* A version is given once and for all.
LEMMA AssignedKept ==
  ASSUME TypeOK, StoreStep
  PROVE  \A r \in Request : assigned[r] # 0 => assigned'[r] = assigned[r]
BY DEF TypeOK, StoreStep, OrderStep, CommitStep

\* A value read stays one, and its version what it was, while writes go on.
LEMMA ReadKept ==
  ASSUME ChainInv, ChainInv', Grows, StoreStep,
         NEW k \in Key, NEW value, ReadAtTail(k, value)
  PROVE  ReadAtTail(k, value)' /\ version_of(value)' = version_of(value)
<1>1. CASE value = NoValue
  BY <1>1 DEF ReadAtTail, version_of
<1>2. CASE value # NoValue
  <2>1. /\ value \in Request /\ KeyOf[value] = k /\ assigned[value] # 0
        /\ assigned[value] <= tail_version(k)
    BY <1>2 DEF ReadAtTail
  <2>2. assigned'[value] = assigned[value]
    BY <2>1, AssignedKept DEF ChainInv
  <2>3. PICK a \in Nat, u \in Nat, w \in Nat :
          /\ a = assigned[value]
          /\ u = tail_version(k)
          /\ w = tail_version(k)'
    <3>1. assigned[value] \in Nat
      BY <2>1, Numbers DEF ChainInv, TypeOK
    <3>2. tail_version(k) \in Nat
      BY Ring, Stores DEF ChainInv, TypeOK, StoreType, tail_version
    <3>3. tail_version(k)' \in Nat
      BY Ring, VersionsOf DEF ChainInv, TypeOK, tail_version, tail_index
    <3> QED
      BY <3>1, <3>2, <3>3
  <2>4. w >= u
    BY <2>3, Ring DEF Grows, tail_version, tail_index
  <2>5. a <= w
    BY <2>1, <2>3, <2>4
  <2> QED
    BY <1>2, <2>1, <2>2, <2>3, <2>5 DEF ReadAtTail, version_of
<1> QED
  BY <1>1, <1>2

\* A step of the writes orders a write, commits one, or is unseen.
LEMMA WriteSeen ==
  ASSUME ReadInv, ChainInv', Grows, StoreStep, UNCHANGED gets
  PROVE  GetsInv' /\ (Abstract!Next \/ UNCHANGED Abstract!vars)
<1>1. ASSUME NEW c \in Reader
      PROVE  /\ gets[c] = Idle \/ Reading(gets[c])' \/ Returned(gets[c])
             /\ read_of(gets[c])' = read_of(gets[c])
  <2>1. CASE gets[c] = Idle
    <3>1. read_of(gets[c]) = [state |-> "idle"]
      BY <2>1, ReadOf
    <3>2. read_of(gets[c])' = [state |-> "idle"]
      BY <2>1 DEF read_of, Idle
    <3> QED
      BY <2>1, <3>1, <3>2
  <2>2. CASE Reading(gets[c])
    <3>1. PICK k \in Key, value \in Request \cup {NoValue} :
            /\ gets[c] = [step |-> "version", key |-> k, value |-> value]
            /\ ReadAtTail(k, value)
      BY <2>2 DEF Reading
    <3>2. /\ ReadAtTail(k, value)'
          /\ version_of(value)' = version_of(value)
      BY <3>1, ReadKept DEF ReadInv
    <3>3. read_of(gets[c]) = [state |-> "reading", key |-> k,
                              floor |-> version_of(value)]
      BY <3>1, ReadOf
    <3>4. read_of(gets[c])' = [state |-> "reading", key |-> k,
                               floor |-> version_of(value)']
      <4>1. PICK g : g = gets[c]
        OBVIOUS
      <4>2. g.step = "version" /\ g.key = k /\ g.value = value
        BY <3>1, <4>1
      <4>3. g # Idle
        BY <4>2 DEF Idle
      <4>4. gets'[c] = g
        BY <4>1
      <4> QED
        BY <4>2, <4>3, <4>4 DEF read_of, Idle
    <3>5. Reading(gets[c])'
      BY <3>1, <3>2 DEF Reading
    <3> QED
      BY <3>2, <3>3, <3>4, <3>5
  <2>3. CASE Returned(gets[c])
    <3>1. PICK value, version :
            gets[c] = [step |-> "done", value |-> value, version |-> version]
      BY <2>3 DEF Returned
    <3>2. read_of(gets[c]) = [state |-> "returned", value |-> value]
      BY <3>1, ReadOf
    <3>3. read_of(gets[c])' = [state |-> "returned", value |-> value]
      <4>1. PICK g : g = gets[c]
        OBVIOUS
      <4>2. g.step = "done" /\ g.value = value
        BY <3>1, <4>1
      <4>3. g # Idle
        BY <4>2 DEF Idle
      <4>4. gets'[c] = g
        BY <4>1
      <4> QED
        BY <4>2, <4>3, <4>4 DEF read_of, Idle
    <3> QED
      BY <2>3, <3>2, <3>3
  <2> QED
    BY <2>1, <2>2, <2>3 DEF ReadInv, GetsInv
<1>2. GetsInv'
  BY <1>1 DEF ReadInv, GetsInv, Returned, Idle
<1>3. reads_of_gets' = reads_of_gets
  BY <1>1 DEF reads_of_gets
<1>4. ASSUME TailsKept PROVE tail_versions' = tail_versions
  BY <1>4 DEF TailsKept, tail_versions
<1>5. ASSUME NEW r \in Request, OrderStep(r)
      PROVE  Abstract!Order(r)
  <2>1. Abstract!writes_of(KeyOf[r]) = writes_of(KeyOf[r])
    BY DEF Abstract!writes_of, writes_of
  <2>2. /\ assigned[r] = 0
        /\ assigned' = [assigned EXCEPT ![r] =
                          Cardinality(writes_of(KeyOf[r])) + 1]
        /\ tail_versions' = tail_versions
    BY <1>4, <1>5 DEF OrderStep
  <2>3. \A S : Abstract!Cardinality(S) = Cardinality(S)
    BY DEF Abstract!Cardinality, Cardinality
  <2> QED
    BY <1>3, <2>1, <2>2, <2>3 DEF Abstract!Order
<1>6. ASSUME NEW r \in Request, CommitStep(r)
      PROVE  \/ \E k \in Key : Abstract!Commit(k)
             \/ UNCHANGED Abstract!vars
  <2>1. PICK k \in Key : k = KeyOf[r]
    BY Ring
  <2>2. /\ assigned[r] # 0 /\ tail_version(k)' = assigned[r]
        /\ assigned' = assigned
        /\ \A l \in Key : l # k => tail_version(l)' = tail_version(l)
    BY <1>6, <2>1 DEF CommitStep
  <2>3. CASE tail_version(k)' = tail_version(k)
    <3>1. TailsKept
      BY <2>2, <2>3 DEF TailsKept
    <3> QED
      BY <1>3, <1>4, <2>2, <3>1 DEF Abstract!vars
  <2>4. CASE tail_version(k)' # tail_version(k)
    <3>1. PICK u \in Nat, w \in Nat :
            u = tail_version(k) /\ w = tail_version(k)'
      <4>1. tail_version(k) \in Nat
        BY Ring, Stores DEF ReadInv, ChainInv, TypeOK, StoreType, tail_version
      <4>2. tail_version(k)' \in Nat
        BY Ring, VersionsOf DEF ChainInv, TypeOK, tail_version, tail_index
      <4> QED
        BY <4>1, <4>2
    <3>2. w >= u
      BY <3>1, Ring DEF Grows, tail_version, tail_index
    <3>3. w > u
      BY <2>4, <3>1, <3>2
    <3>4. assigned[r] > tail_versions[k]
      BY <2>2, <3>1, <3>3 DEF tail_versions
    <3>5. tail_versions' = [tail_versions EXCEPT ![k] = assigned[r]]
      BY <2>2 DEF tail_versions
    <3>6. r \in Abstract!writes_of(k)
      BY <2>1, <2>2 DEF Abstract!writes_of
    <3>7. Abstract!Commit(k)
      BY <1>3, <2>2, <3>4, <3>5, <3>6 DEF Abstract!Commit
    <3> QED
      BY <3>7
  <2> QED
    BY <2>3, <2>4
<1>7. ASSUME assigned' = assigned, TailsKept PROVE UNCHANGED Abstract!vars
  BY <1>3, <1>4, <1>7 DEF Abstract!vars
<1> QED
  BY <1>2, <1>5, <1>6, <1>7 DEF StoreStep, Abstract!Next

\* A step of one Get, seen in the abstract store.
LEMMA AdvanceSeen ==
  ASSUME ReadInv, NEW c \in Reader, NEW g, Advance(c, g),
         Reading(g) \/ Returned(g)
  PROVE  /\ ReadInv'
         /\ reads_of_gets' = [reads_of_gets EXCEPT ![c] = read_of(g)]
         /\ reads_of_gets[c] = read_of(gets[c])
         /\ assigned' = assigned
         /\ tail_versions' = tail_versions
<1>1. /\ gets' = [gets EXCEPT ![c] = g]
      /\ UNCHANGED vars
      /\ gets = [d \in Reader |-> gets[d]]
  BY DEF Advance, ReadInv, GetsInv
<1>2. UNCHANGED <<store, assigned>>
  BY <1>1 DEF vars
<1>3. ChainInv'
  <2>1. StoreInv'
    BY <1>2, SameStore DEF ReadInv
  <2>2. TypeOK' /\ Stamped' /\ WorkSeen' /\ CommitAckedSeenByTail'
    BY <1>1 DEF vars, ReadInv, ChainInv, TypeOK, Stamped, WorkSeen, seen,
                CommitAckedSeenByTail
  <2> QED
    BY <2>1, <2>2 DEF ChainInv, StoreInv
<1>4. \A d \in Reader : gets'[d] = IF d = c THEN g ELSE gets[d]
  BY <1>1
<1>5. ASSUME NEW h, Reading(h) PROVE Reading(h)'
  <2>1. PICK k \in Key, value \in Request \cup {NoValue} :
          /\ h = [step |-> "version", key |-> k, value |-> value]
          /\ ReadAtTail(k, value)
    BY <1>5 DEF Reading
  <2>2. ReadAtTail(k, value)'
    BY <1>2, <2>1 DEF ReadAtTail, tail_version
  <2> QED
    BY <2>1, <2>2 DEF Reading
<1>6. GetsInv'
  <2>1. gets' = [d \in Reader |-> gets'[d]]
    BY <1>1
  <2>2. ASSUME NEW d \in Reader
        PROVE  gets'[d] = Idle \/ Reading(gets[d])' \/ Returned(gets'[d])
    <3>1. PICK h : h = gets'[d]
      OBVIOUS
    <3>2. h = Idle \/ Reading(h) \/ Returned(h)
      BY <1>4, <3>1 DEF ReadInv, GetsInv
    <3>3. h = Idle \/ Reading(h)' \/ Returned(h)
      BY <1>5, <3>2
    <3> QED
      BY <3>1, <3>3 DEF Reading
  <2> QED
    BY <2>1, <2>2 DEF GetsInv, Returned, Idle
<1>7. \A h : read_of(h)' = read_of(h)
  BY <1>2 DEF read_of, version_of, Idle
<1>8. reads_of_gets' = [d \in Reader |-> read_of(gets'[d])]
  BY <1>2 DEF reads_of_gets, read_of, version_of, Idle
<1>9. reads_of_gets' = [reads_of_gets EXCEPT ![c] = read_of(g)]
  BY <1>4, <1>8 DEF reads_of_gets
<1>10. tail_versions' = tail_versions
  BY <1>2 DEF tail_versions, tail_version
<1> QED
  BY <1>2, <1>3, <1>6, <1>9, <1>10 DEF ReadInv, reads_of_gets

LEMMA BeginSeen ==
  ASSUME ReadInv, NEW c \in Reader, NEW n \in Node, NEW k \in Key,
         BeginGet(c, n, k)
  PROVE  ReadInv' /\ Abstract!BeginRead(c, k)
<1>1. PICK value : value = store[tail_index(k)][k].clean.value
  OBVIOUS
<1>2. /\ gets[c] = Idle
      /\ Advance(c, [step |-> "version", key |-> k, value |-> value])
  BY <1>1 DEF BeginGet, ReadCommitted
<1>3. /\ value \in Request \cup {NoValue}
      /\ ReadAtTail(k, value)
      /\ version_of(value) = tail_version(k)
  BY <1>1, TailRecord DEF ReadInv
<1>4. Reading([step |-> "version", key |-> k, value |-> value])
  BY <1>3 DEF Reading
<1>5. /\ ReadInv'
      /\ reads_of_gets' = [reads_of_gets EXCEPT ![c] =
           read_of([step |-> "version", key |-> k, value |-> value])]
      /\ reads_of_gets[c] = read_of(gets[c])
      /\ assigned' = assigned
      /\ tail_versions' = tail_versions
  BY <1>2, <1>4, AdvanceSeen
<1>6. read_of([step |-> "version", key |-> k, value |-> value])
        = [state |-> "reading", key |-> k, floor |-> tail_versions[k]]
  BY <1>3, ReadOf DEF tail_versions
<1>7. reads_of_gets[c] = [state |-> "idle"]
  BY <1>2, <1>5, ReadOf
<1> QED
  BY <1>5, <1>6, <1>7
  DEF Abstract!BeginRead, Abstract!Idle, Abstract!Reading

LEMMA RespondSeen ==
  ASSUME ReadInv, NEW c \in Reader, RespondVersion(c)
  PROVE  /\ ReadInv'
         /\ \/ \E r \in Request : Abstract!ReturnWrite(c, r)
            \/ Abstract!ReturnNothing(c)
<1>1. Reading(gets[c])
  <2>1. gets[c].step = "version"
    BY DEF RespondVersion
  <2>2. gets[c] # Idle
    BY <2>1 DEF Idle
  <2>3. ASSUME Returned(gets[c]) PROVE FALSE
    <3>1. PICK value, version :
            gets[c] = [step |-> "done", value |-> value, version |-> version]
      BY <2>3 DEF Returned
    <3>2. gets[c].step = "done"
      BY <3>1
    <3> QED
      BY <2>1, <3>2
  <2> QED
    BY <2>2, <2>3 DEF ReadInv, GetsInv
<1>2. PICK k \in Key, value \in Request \cup {NoValue} :
        /\ gets[c] = [step |-> "version", key |-> k, value |-> value]
        /\ ReadAtTail(k, value)
  BY <1>1 DEF Reading
<1>3. gets[c].key = k /\ gets[c].value = value
  BY <1>2
<1>4. PICK version :
        Advance(c, [step |-> "done", value |-> value, version |-> version])
  BY <1>3 DEF RespondVersion
<1>5. Returned([step |-> "done", value |-> value, version |-> version])
  BY DEF Returned
<1>6. /\ ReadInv'
      /\ reads_of_gets' = [reads_of_gets EXCEPT ![c] =
           read_of([step |-> "done", value |-> value, version |-> version])]
      /\ reads_of_gets[c] = read_of(gets[c])
      /\ assigned' = assigned
      /\ tail_versions' = tail_versions
  BY <1>4, <1>5, AdvanceSeen
<1>7. /\ reads_of_gets' = [reads_of_gets EXCEPT ![c] =
                             [state |-> "returned", value |-> value]]
      /\ reads_of_gets[c] = [state |-> "reading", key |-> k,
                             floor |-> version_of(value)]
  BY <1>2, <1>6, ReadOf
<1>a. /\ reads_of_gets[c].state = "reading"
      /\ reads_of_gets[c].key = k
      /\ reads_of_gets[c].floor = version_of(value)
  BY <1>7
<1>8. CASE value = NoValue
  <2>1. version_of(value) = 0
    BY <1>8 DEF version_of
  <2>2. Abstract!ReturnNothing(c)
    BY <1>6, <1>7, <1>8, <1>a, <2>1
    DEF Abstract!ReturnNothing, Abstract!Returned
  <2> QED
    BY <1>6, <2>2
<1>9. CASE value # NoValue
  <2>1. /\ value \in Request /\ KeyOf[value] = k /\ assigned[value] # 0
        /\ assigned[value] <= tail_version(k)
    BY <1>2, <1>9 DEF ReadAtTail
  <2>2. PICK a \in Nat, u \in Nat : a = assigned[value] /\ u = tail_version(k)
    <3>1. assigned[value] \in Nat
      BY <2>1, Numbers DEF ReadInv, ChainInv, TypeOK
    <3>2. tail_version(k) \in Nat
      BY Ring, Stores DEF ReadInv, ChainInv, TypeOK, StoreType, tail_version
    <3> QED
      BY <3>1, <3>2
  <2>3. a \in a..u
    BY <2>1, <2>2
  <2>4. version_of(value) = a /\ tail_versions[k] = u
    BY <1>9, <2>2 DEF version_of, tail_versions
  <2>5. value \in Abstract!writes_of(k)
    BY <2>1 DEF Abstract!writes_of
  <2>6. Abstract!ReturnWrite(c, value)
    BY <1>6, <1>7, <1>a, <2>2, <2>3, <2>4, <2>5
    DEF Abstract!ReturnWrite, Abstract!Returned
  <2> QED
    BY <1>6, <2>1, <2>6
<1> QED
  BY <1>8, <1>9

LEMMA StepSeen ==
  ASSUME ReadInv, [NextReads]_readVars
  PROVE  ReadInv' /\ (Abstract!Next \/ UNCHANGED Abstract!vars)
<1>1. CASE [Next]_vars /\ UNCHANGED gets
  <2>1. ChainInv' /\ Grows /\ StoreStep
    BY <1>1, ChainNext DEF ReadInv
  <2> QED
    BY <1>1, <2>1, WriteSeen DEF ReadInv
<1>2. ASSUME NEW c \in Reader, NEW n \in Node, NEW k \in Key, BeginGet(c, n, k)
      PROVE  ReadInv' /\ Abstract!Next
  BY <1>2, BeginSeen DEF Abstract!Next
<1>3. ASSUME NEW c \in Reader, RespondVersion(c)
      PROVE  ReadInv' /\ Abstract!Next
  BY <1>3, RespondSeen DEF Abstract!Next
<1> QED
  BY <1>1, <1>2, <1>3 DEF NextReads, readVars

LEMMA ReadInit == InitReads => ReadInv /\ Abstract!Init
<1> SUFFICES ASSUME InitReads PROVE ReadInv /\ Abstract!Init
  OBVIOUS
<1>1. ReadInv
  BY ChainInit DEF InitReads, ReadInv, GetsInv
<1>2. tail_versions = [k \in Key |-> 0]
  BY Ring DEF InitReads, Init, EmptyStore, tail_version, tail_versions
<1>3. reads_of_gets = [c \in Reader |-> [state |-> "idle"]]
  BY ReadOf DEF InitReads, reads_of_gets
<1> QED
  BY <1>1, <1>2, <1>3 DEF InitReads, Init, Abstract!Init, Abstract!Idle

\* Reads at the tail beside the writes implement the abstract store, whatever
\* ids the requests have: the writes of a key take its versions in order, a
\* prefix of them is committed, and a Get returns the write that was the
\* committed one when the tail read it, "NOT_FOUND" only if there was none.
THEOREM ChainImplementsStore == SpecReads => ImplementsVersionedStore
<1>1. InitReads => ReadInv /\ Abstract!Init
  BY ReadInit
<1>2. ReadInv /\ [NextReads]_readVars
        => ReadInv' /\ [Abstract!Next]_(Abstract!vars)
  BY StepSeen
<1> QED
  BY <1>1, <1>2, PTL
  DEF SpecReads, ImplementsVersionedStore, Abstract!Spec

=============================================================================

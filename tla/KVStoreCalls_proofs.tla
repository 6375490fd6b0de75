------------------------- MODULE KVStoreCalls_proofs -------------------------
(***************************************************************************)
(* The theorems about the calls of one key's store, for every set of       *)
(* values and every version bound.  mark_clean(v) erases records only up   *)
(* to v: committed after, if v was held before, and else below a record of *)
(* the latest version, which was put here; so NothingForgotten is          *)
(* inductive together with the types and with where dirty records come     *)
(* from.                                                                   *)
(***************************************************************************)
EXTENDS KVStoreCalls, KVStoreLemmas

\* A dirty record is one that was put here.
DirtyWasPut == dirty_versions(store) \subseteq seen

IInv == TypeOK /\ NothingForgotten /\ DirtyAboveClean /\ DirtyWasPut

\* A version that the store has forgotten, for the one reason there is.
Forgotten(v) == \E gone \in overtaken, later \in seen : v < gone /\ gone < later

LEMMA InitInvariant == Init => IInv
<1> SUFFICES ASSUME Init PROVE IInv
  OBVIOUS
<1> QED
  BY EmptyStoreType
  DEF Init, IInv, TypeOK, NothingForgotten, DirtyAboveClean, DirtyWasPut,
      EmptyStore, dirty_versions

\* Each call keeps the invariant and does not lower the latest version.
LEMMA NextInvariant ==
  ASSUME IInv, [Next]_vars
  PROVE  IInv' /\ get_latest_version(store') >= get_latest_version(store)
<1> USE DEF IInv, TypeOK
<1>0. /\ store \in Store
      /\ store.clean.version \in 0..MaxVersion
      /\ Version \subseteq Nat
      /\ MaxVersion \in Nat
      /\ get_latest_version(store) \in Nat
      /\ seen \subseteq Nat /\ overtaken \subseteq Nat
      /\ seen \subseteq Version
  BY LatestVersion, KVStoreAssumption DEF Store, Record, Version
<1>1. ASSUME NEW x \in Value, CallPutNew(x)
      PROVE  IInv' /\ get_latest_version(store') >= get_latest_version(store)
  <2> DEFINE v == get_latest_version(store) + 1
  <2>1. /\ store' = put_new(store, x)
        /\ seen' = seen \cup {v} /\ overtaken' = overtaken
        /\ v <= MaxVersion
    BY <1>1 DEF CallPutNew
  <2>2. /\ v \in Version
        /\ store' \in Store
        /\ store'.clean = store.clean
        /\ store'.dirty = [store.dirty EXCEPT ![v] = x]
    BY <2>1, PutNew, <1>0
  <2>3. x # NoValue
    BY KVStoreAssumption
  <2>4. store'.dirty[v] = x
        /\ \A w \in Version : store'.dirty[w] =
             IF w = v THEN x ELSE store.dirty[w]
    BY <2>2, <1>0 DEF Store
  <2>5. store.clean.version < v
    BY <1>0, LatestVersion
  <2>6. get_latest_version(store') >= v
    BY <2>2, <2>3, <2>4, LatestVersion DEF dirty_versions
  <2> HIDE DEF v
  <2>7. NothingForgotten'
    BY <2>1, <2>2, <2>3, <2>4 DEF NothingForgotten, holds
  <2>8. DirtyAboveClean' /\ DirtyWasPut'
    BY <2>1, <2>2, <2>4, <2>5 DEF DirtyAboveClean, DirtyWasPut, dirty_versions
  <2>9. get_latest_version(store') >= get_latest_version(store)
    BY <2>2, <2>6, <1>0, LatestVersion DEF v
  <2> QED
    BY <2>1, <2>2, <2>7, <2>8, <2>9
<1>2. ASSUME NEW x \in Value, NEW v \in Version, CallPut(x, v)
      PROVE  IInv' /\ get_latest_version(store') >= get_latest_version(store)
  <2>1. /\ store' = put(store, x, v)
        /\ seen' = seen \cup {v} /\ overtaken' = overtaken
    BY <1>2 DEF CallPut
  <2>2. /\ store' \in Store
        /\ store'.clean = store.clean
        /\ \A w \in Version : store'.dirty[w] =
             IF w = v /\ store.clean.version < v THEN x ELSE store.dirty[w]
    BY <2>1, <1>0, ForwardedPut
  <2>3. x # NoValue
    BY KVStoreAssumption
  <2>4. NothingForgotten'
    BY <1>0, <2>1, <2>2, <2>3 DEF NothingForgotten, holds
  <2>5. DirtyAboveClean' /\ DirtyWasPut'
    BY <1>0, <2>1, <2>2 DEF DirtyAboveClean, DirtyWasPut, dirty_versions
  <2>6. get_latest_version(store') >= get_latest_version(store)
    <3>1. {store.clean.version} \cup dirty_versions(store)
            \subseteq {store'.clean.version} \cup dirty_versions(store')
      BY <2>2, <2>3 DEF dirty_versions
    <3> QED
      BY <1>0, <2>2, <3>1, LatestVersion
  <2> QED
    BY <2>1, <2>2, <2>4, <2>5, <2>6
<1>3. ASSUME NEW v \in Version, CallMarkClean(v)
      PROVE  IInv' /\ get_latest_version(store') >= get_latest_version(store)
  <2>1. /\ store' = mark_clean(store, v)
        /\ seen' = seen
        /\ overtaken' = overtaken \cup ({v} \ seen)
        /\ v <= get_latest_version(store)
    BY <1>3 DEF CallMarkClean
  <2>2. /\ store' \in Store
        /\ \/ store'.clean = store.clean
           \/ /\ store.clean.version < v
              /\ store'.clean = [version |-> v, value |-> store.dirty[v]]
        /\ store.dirty[v] # NoValue => store'.clean.version >= v
        /\ store'.clean.version >= store.clean.version
        /\ \A w \in Version : store'.dirty[w] =
             IF w <= v THEN NoValue ELSE store.dirty[w]
    BY <2>1, <1>0, MarkClean
  <2>3. store'.clean.version \in Nat
    BY <2>2, KVStoreAssumption DEF Store, Record
  <2>4. store'.clean.version >= v \/ \A w \in seen : w < v => Forgotten(w)'
    <3>1. CASE holds(store, v)
      BY <3>1, <1>0, <2>2, <2>3 DEF holds
    \* Put here, forgotten since: what lies below goes for the same reason.
    <3>2. CASE v \in seen /\ ~holds(store, v)
      <4>1. PICK gone \in overtaken, later \in seen : v < gone /\ gone < later
        BY <3>2 DEF NothingForgotten
      <4>2. \A w \in seen : w < v => w < gone
        BY <4>1, <1>0
      <4> QED  BY <4>1, <4>2, <2>1 DEF Forgotten
    \* Never put here, so the latest version is a later one, and it was.
    <3>3. CASE v \notin seen /\ ~holds(store, v)
      <4>1. get_latest_version(store) \in dirty_versions(store)
        BY <3>3, <2>1, <1>0, LatestVersion DEF holds
      <4>2. get_latest_version(store) \in seen
        BY <4>1 DEF DirtyWasPut
      <4>3. v < get_latest_version(store)
        BY <3>3, <4>2, <2>1, <1>0
      <4>4. v \in overtaken' /\ get_latest_version(store) \in seen'
        BY <3>3, <4>2, <2>1
      <4> QED  BY <4>3, <4>4 DEF Forgotten
    <3> QED  BY <3>1, <3>2, <3>3
  <2>5. NothingForgotten'
    <3>1. \A w \in seen' : holds(store, w)' \/ Forgotten(w)'
      <4> TAKE w \in seen'
      <4>1. w \in seen /\ w \in Version /\ w \in Nat /\ v \in Nat
        BY <2>1, <1>0
      <4>2. CASE w <= v
        <5>1. CASE store'.clean.version >= v
          BY <4>1, <4>2, <5>1, <2>3 DEF holds
        <5>2. CASE ~(store'.clean.version >= v) /\ w = v
          <6>1. ~holds(store, v)
            BY <4>1, <5>2, <2>2, <2>3, <1>0 DEF holds
          <6>2. PICK gone \in overtaken, later \in seen :
                  w < gone /\ gone < later
            BY <4>1, <5>2, <6>1 DEF NothingForgotten
          <6> QED  BY <6>2, <2>1 DEF Forgotten
        <5>3. CASE ~(store'.clean.version >= v) /\ w # v
          BY <4>1, <4>2, <5>3, <2>4
        <5> QED  BY <5>1, <5>2, <5>3
      <4>3. CASE ~(w <= v)
        <5>1. CASE holds(store, w)
          <6>1. store'.clean.version >= w \/ store'.dirty[w] # NoValue
            BY <4>1, <4>3, <5>1, <2>2, <2>3, <1>0 DEF holds
          <6> QED  BY <6>1 DEF holds
        <5>2. CASE ~holds(store, w)
          <6>1. PICK gone \in overtaken, later \in seen :
                  w < gone /\ gone < later
            BY <4>1, <5>2 DEF NothingForgotten
          <6> QED  BY <6>1, <2>1 DEF Forgotten
        <5> QED  BY <5>1, <5>2
      <4> QED  BY <4>2, <4>3
    <3> QED  BY <3>1 DEF NothingForgotten, Forgotten
  <2>6. DirtyAboveClean' /\ DirtyWasPut'
    <3>1. DirtyAboveClean'
      BY <1>0, <2>2, <2>3 DEF DirtyAboveClean, dirty_versions
    <3>2. DirtyWasPut'
      BY <2>1, <2>2 DEF DirtyWasPut, dirty_versions
    <3> QED  BY <3>1, <3>2
  <2>7. get_latest_version(store') >= get_latest_version(store)
    BY <1>0, <2>1, MarkCleanLatest
  <2> QED
    BY <2>1, <2>2, <2>5, <2>6, <2>7
<1>4. ASSUME NEW x \in Value, NEW u \in Version,
             CallApplySnapshot([version |-> u, value |-> x])
      PROVE  IInv' /\ get_latest_version(store') >= get_latest_version(store)
  <2> DEFINE c == [version |-> u, value |-> x]
  <2>1. /\ store' = apply_committed_snapshot(store, c)
        /\ seen' = seen /\ overtaken' = overtaken
        /\ c \in Record
        /\ c.version = u
    BY <1>4, <1>0, KVStoreAssumption DEF CallApplySnapshot, Record, Version
  <2> HIDE DEF c
  <2>2. /\ store' \in Store
        /\ store'.clean = IF u > store.clean.version THEN c ELSE store.clean
        /\ \A w \in Version : store'.dirty[w] =
             IF w <= u THEN NoValue ELSE store.dirty[w]
    BY <2>1, <1>0, ApplySnapshot
  <2>3. /\ store'.clean.version \in Nat
        /\ store'.clean.version >= u
        /\ store'.clean.version >= store.clean.version
        /\ store'.clean.version \in {u, store.clean.version}
    BY <2>1, <2>2, <1>0
  <2>4. NothingForgotten'
    <3>1. \A w \in seen : w <= u => store'.clean.version >= w
      BY <1>0, <2>3
    <3>2. \A w \in seen : ~ (w <= u) =>
            \/ store'.clean.version >= w \/ store'.dirty[w] # NoValue
            \/ Forgotten(w)
      <4> TAKE w \in seen
      <4>1. \/ store.clean.version >= w \/ store.dirty[w] # NoValue
            \/ Forgotten(w)
        BY DEF NothingForgotten, holds, Forgotten
      <4> QED
        BY <4>1, <1>0, <2>2, <2>3
    <3> QED
      BY <2>1, <3>1, <3>2 DEF NothingForgotten, holds, Forgotten
  <2>5. DirtyAboveClean' /\ DirtyWasPut'
    <3>1. \A w \in dirty_versions(store') :
            /\ w \in Version /\ ~ (w <= u)
            /\ w \in dirty_versions(store)
      BY <2>2 DEF dirty_versions
    <3>2. DirtyWasPut'
      BY <2>1, <3>1 DEF DirtyWasPut
    <3>3. \A w \in dirty_versions(store') : w > store'.clean.version
      <4> TAKE w \in dirty_versions(store')
      <4>1. w \in Nat /\ u \in Nat /\ ~ (w <= u)
        BY <3>1, <1>0
      <4>2. w > store.clean.version
        BY <3>1 DEF DirtyAboveClean
      <4> QED
        BY <4>1, <4>2, <2>3
    <3> QED
      BY <3>2, <3>3 DEF DirtyAboveClean
  <2>6. get_latest_version(store') >= get_latest_version(store)
    <3>1. /\ get_latest_version(store') \in Nat
          /\ get_latest_version(store') >= store'.clean.version
          /\ \A w \in dirty_versions(store') : get_latest_version(store') >= w
      BY <2>2, LatestVersion, KVStoreAssumption
    <3>2. CASE get_latest_version(store) = store.clean.version
      BY <3>1, <3>2, <1>0, <2>3
    <3>3. CASE get_latest_version(store) \in dirty_versions(store)
      <4>1. CASE get_latest_version(store) <= u
        BY <4>1, <3>1, <1>0, <2>3
      <4>2. CASE get_latest_version(store) > u
        <5>1. get_latest_version(store) \in dirty_versions(store')
          BY <1>0, <3>3, <4>2, <2>2 DEF dirty_versions
        <5> QED
          BY <5>1, <3>1
      <4> QED
        BY <4>1, <4>2, <1>0
    <3> QED
      BY <3>2, <3>3, <1>0, LatestVersion
  <2> QED
    BY <2>1, <2>2, <2>4, <2>5, <2>6
<1>5. CASE UNCHANGED vars
  BY <1>5, <1>0 DEF vars, NothingForgotten, holds, DirtyAboveClean, DirtyWasPut
<1> QED
  BY <1>1, <1>2, <1>3, <1>4, <1>5 DEF Next

LEMMA Invariant == Spec => []IInv
<1>1. IInv /\ [Next]_vars => IInv'
  BY NextInvariant
<1> QED
  BY InitInvariant, <1>1, PTL DEF Spec

\* The store stays a store, whatever calls are made.
THEOREM TypeCorrect == Spec => []TypeOK
  BY Invariant, PTL DEF IInv

\* However puts, commits and syncs interleave, a version put is dirty or covered
\* by the committed record, unless a later version, itself overtaken by a still
\* later one put here, was committed without having been put, as CHAIN does.
THEOREM NoWriteForgotten == Spec => []NothingForgotten
  BY Invariant, PTL DEF IInv

\* A dirty record is always newer than the committed one.
THEOREM DirtyIsNewer == Spec => []DirtyAboveClean
  BY Invariant, PTL DEF IInv

\* The version the head assigns next never goes back, so the head never gives
\* a version twice.
THEOREM LatestIsMonotone == Spec => LatestNeverDecreases
<1>1. IInv /\ [Next]_vars
        => [get_latest_version(store') >= get_latest_version(store)]_vars
  BY NextInvariant
<1> QED
  BY Invariant, <1>1, PTL DEF Spec, LatestNeverDecreases

==============================================================================

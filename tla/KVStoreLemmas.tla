---------------------------- MODULE KVStoreLemmas ----------------------------
(***************************************************************************)
(* What the calls of KVStore return, preserve and bound, for every set of  *)
(* values and every version bound.                                         *)
(***************************************************************************)
EXTENDS KVStore, WellFoundedInduction, TLAPS

\* A set of naturals with a bound and an element has a greatest element: the
\* largest distance to the bound is minimal there.
LEMMA MaxOfBounded ==
  ASSUME NEW B \in Nat, NEW S \in SUBSET (0..B), S # {}
  PROVE  Max(S) \in S /\ \A x \in S : x <= Max(S)
<1> DEFINE T == {B - x : x \in S}
<1>0. \A x \in S : x \in Nat /\ x <= B
  OBVIOUS
<1>1. T \subseteq Nat /\ T # {}
  <2>1. \A x \in S : B - x \in Nat
    BY <1>0
  <2> QED
    BY <2>1
<1>2. PICK t \in T : \A u \in T : ~ (<<u, t>> \in OpToRel(<, Nat))
  BY <1>1, WFMin, NatLessThanWellFounded
<1>3. \A u \in T : ~ (u < t)
  BY <1>1, <1>2 DEF OpToRel
<1>4. PICK m \in S : t = B - m
  BY <1>2
<1>5. \A x \in S : m >= x
  <2> TAKE x \in S
  <2>1. ~ (B - x < B - m)
    BY <1>3, <1>4
  <2>2. x \in Nat /\ m \in Nat
    BY <1>0
  <2> HIDE DEF T
  <2> QED
    BY <2>1, <2>2
<1> QED
  BY <1>4, <1>5 DEF Max

\* get_latest_version is the version of some record and no record is newer.
LEMMA LatestVersion ==
  ASSUME NEW s \in Store
  PROVE  /\ get_latest_version(s) \in 0..MaxVersion
         /\ get_latest_version(s) \in {s.clean.version} \cup dirty_versions(s)
         /\ s.clean.version <= get_latest_version(s)
         /\ \A v \in dirty_versions(s) : v <= get_latest_version(s)
<1> DEFINE S == {s.clean.version} \cup dirty_versions(s)
<1>1. S \in SUBSET (0..MaxVersion) /\ S # {} /\ MaxVersion \in Nat
  BY KVStoreAssumption DEF Store, Record, Version, dirty_versions
<1>2. Max(S) \in S /\ \A x \in S : x <= Max(S)
  BY <1>1, MaxOfBounded
<1> QED
  BY <1>1, <1>2 DEF get_latest_version

LEMMA EmptyStoreType == EmptyStore \in Store
  BY KVStoreAssumption DEF EmptyStore, Store, Record, Version

\* The head's put adds exactly the record of the next version.
LEMMA PutNew ==
  ASSUME NEW s \in Store, NEW x \in Value,
         get_latest_version(s) + 1 <= MaxVersion
  PROVE  /\ get_latest_version(s) + 1 \in Version
         /\ put_new(s, x) \in Store
         /\ put_new(s, x).clean = s.clean
         /\ s.dirty[get_latest_version(s) + 1] = NoValue
         /\ put_new(s, x).dirty =
              [s.dirty EXCEPT ![get_latest_version(s) + 1] = x]
<1> DEFINE v == get_latest_version(s) + 1
<1>1. v \in Version /\ v \notin dirty_versions(s)
  BY LatestVersion, KVStoreAssumption DEF Version
<1>2. s.dirty[v] = NoValue
  BY <1>1 DEF dirty_versions
<1> HIDE DEF v
<1>3. put_new(s, x) = [s EXCEPT !.dirty[v] = x]
  BY DEF put_new, v
<1> QED
  BY <1>1, <1>2, <1>3 DEF Store, v

\* A forwarded put leaves the committed record alone, and its version is
\* afterwards dirty or already covered by that record.
LEMMA ForwardedPut ==
  ASSUME NEW s \in Store, NEW x \in Value, NEW v \in Version
  PROVE  /\ put(s, x, v) \in Store
         /\ put(s, x, v).clean = s.clean
         /\ \A w \in Version :
              put(s, x, v).dirty[w] =
                IF w = v /\ s.clean.version < v THEN x ELSE s.dirty[w]
<1>1. s.clean.version \in Nat /\ v \in Nat
  BY KVStoreAssumption DEF Store, Record, Version
<1>2. CASE v <= s.clean.version
  BY <1>1, <1>2 DEF put
<1>3. CASE s.clean.version < v
  <2>1. put(s, x, v) = [s EXCEPT !.dirty[v] = x]
    BY <1>1, <1>3 DEF put
  <2> QED
    BY <2>1, <1>1, <1>3 DEF Store
<1> QED
  BY <1>1, <1>2, <1>3

\* mark_clean never lowers the committed version, raises it to at most the
\* version given, and does raise it when that version is dirty.
LEMMA MarkClean ==
  ASSUME NEW s \in Store, NEW v \in Version
  PROVE  /\ mark_clean(s, v) \in Store
         /\ \/ mark_clean(s, v).clean = s.clean
            \/ /\ s.clean.version < v
               /\ s.dirty[v] # NoValue
               /\ mark_clean(s, v).clean =
                    [version |-> v, value |-> s.dirty[v]]
         /\ s.dirty[v] # NoValue => mark_clean(s, v).clean.version >= v
         /\ mark_clean(s, v).clean.version >= s.clean.version
         /\ \A w \in Version :
              mark_clean(s, v).dirty[w] =
                IF w <= v THEN NoValue ELSE s.dirty[w]
<1>1. s.clean.version \in Nat /\ v \in Nat /\ v \in 0..MaxVersion
  BY KVStoreAssumption DEF Store, Record, Version
<1>2. mark_clean(s, v).dirty = erase_dirty_upto(s, v)
      /\ mark_clean(s, v).clean =
           IF s.dirty[v] # NoValue /\ v > s.clean.version
           THEN [version |-> v, value |-> s.dirty[v]]
           ELSE s.clean
  BY DEF mark_clean
<1>3. erase_dirty_upto(s, v) \in [Version -> Value \cup {NoValue}]
  BY DEF erase_dirty_upto, Store
<1>4. mark_clean(s, v) \in Store
  BY <1>1, <1>2, <1>3 DEF mark_clean, Store, Record
<1> QED
  BY <1>1, <1>2, <1>4 DEF erase_dirty_upto

\* Versions compare as numbers.
LEMMA VersionsOf ==
  ASSUME NEW s \in Store
  PROVE  /\ s.clean.version \in Nat
         /\ s.dirty \in [Version -> Value \cup {NoValue}]
         /\ \A v \in Version : v \in Nat /\ v # 0
BY KVStoreAssumption DEF Store, Record, Version

\* What the head puts it holds ...
LEMMA PutNewHeld ==
  ASSUME NEW s \in Store, NEW x \in Value,
         get_latest_version(s) + 1 <= MaxVersion
  PROVE  /\ holds(put_new(s, x), get_latest_version(s) + 1)
         /\ \A w \in Version : holds(s, w) => holds(put_new(s, x), w)
<1> DEFINE v == get_latest_version(s) + 1
           t == put_new(s, x)
<1>1. x # NoValue
  BY KVStoreAssumption
<1>2. v \in Version /\ t.clean = s.clean /\ t.dirty = [s.dirty EXCEPT ![v] = x]
  BY PutNew
<1> HIDE DEF v, t
<1>3. \A w \in Version : t.dirty[w] = IF w = v THEN x ELSE s.dirty[w]
  BY <1>2, VersionsOf
<1>4. holds(t, v) /\ \A w \in Version : holds(s, w) => holds(t, w)
  BY <1>1, <1>2, <1>3 DEF holds
<1> QED  BY <1>4 DEF v, t

\* ... and so with a forwarded write, stored or not.
LEMMA ForwardedPutHeld ==
  ASSUME NEW s \in Store, NEW x \in Value, NEW v \in Version
  PROVE  /\ holds(put(s, x, v), v)
         /\ \A w \in Version : holds(s, w) => holds(put(s, x, v), w)
<1> DEFINE t == put(s, x, v)
<1>1. x # NoValue /\ s.clean.version \in Nat /\ v \in Nat
  BY KVStoreAssumption, VersionsOf
<1>2. /\ t.clean = s.clean
      /\ \A w \in Version :
           t.dirty[w] = IF w = v /\ s.clean.version < v THEN x ELSE s.dirty[w]
  BY ForwardedPut
<1> HIDE DEF t
<1>3. holds(t, v) /\ \A w \in Version : holds(s, w) => holds(t, w)
  BY <1>1, <1>2 DEF holds
<1> QED  BY <1>3 DEF t

\* mark_clean of a version held commits it and forgets nothing.
LEMMA MarkCleanHeld ==
  ASSUME NEW s \in Store, NEW v \in Version, holds(s, v)
  PROVE  /\ mark_clean(s, v) \in Store
         /\ mark_clean(s, v).clean.version >= v
         /\ mark_clean(s, v).clean.version >= s.clean.version
         /\ \A w \in Version : holds(s, w) => holds(mark_clean(s, v), w)
<1>1. /\ mark_clean(s, v) \in Store
      /\ \/ mark_clean(s, v).clean = s.clean
         \/ /\ s.clean.version < v
            /\ s.dirty[v] # NoValue
            /\ mark_clean(s, v).clean =
                 [version |-> v, value |-> s.dirty[v]]
      /\ s.dirty[v] # NoValue => mark_clean(s, v).clean.version >= v
      /\ mark_clean(s, v).clean.version >= s.clean.version
      /\ \A w \in Version : mark_clean(s, v).dirty[w] =
           IF w <= v THEN NoValue ELSE s.dirty[w]
  BY MarkClean
<1>2. /\ mark_clean(s, v).clean.version \in Nat /\ s.clean.version \in Nat
      /\ \A w \in Version : w \in Nat
  BY <1>1, VersionsOf
<1>3. mark_clean(s, v).clean.version >= v
  BY <1>1, <1>2 DEF holds
<1> QED  BY <1>1, <1>2, <1>3 DEF holds

LEMMA HeldUpToLatest ==
  ASSUME NEW s \in Store, NEW v \in Version, holds(s, v)
  PROVE  v <= get_latest_version(s)
<1>1. /\ get_latest_version(s) \in Nat /\ s.clean.version \in Nat /\ v \in Nat
      /\ s.clean.version <= get_latest_version(s)
  BY LatestVersion, VersionsOf, KVStoreAssumption
<1>2. CASE s.clean.version >= v
  BY <1>1, <1>2
<1>3. CASE s.dirty[v] # NoValue
  BY <1>3, LatestVersion DEF dirty_versions
<1> QED  BY <1>2, <1>3 DEF holds

\* A version recorded that no record exceeds is the latest.
LEMMA LatestIs ==
  ASSUME NEW s \in Store, NEW v \in Version,
         s.clean.version <= v, \A w \in dirty_versions(s) : w <= v,
         v = s.clean.version \/ v \in dirty_versions(s)
  PROVE  get_latest_version(s) = v
<1>1. /\ get_latest_version(s) \in Nat /\ v \in Nat
      /\ get_latest_version(s) \in {s.clean.version} \cup dirty_versions(s)
      /\ s.clean.version <= get_latest_version(s)
      /\ \A w \in dirty_versions(s) : w <= get_latest_version(s)
  BY LatestVersion, VersionsOf, KVStoreAssumption
<1>2. get_latest_version(s) <= v
  BY <1>1
<1>3. v <= get_latest_version(s)
  BY <1>1
<1> QED  BY <1>1, <1>2, <1>3

\* The version the head picks becomes the latest ...
LEMMA PutNewLatest ==
  ASSUME NEW s \in Store, NEW x \in Value,
         get_latest_version(s) + 1 <= MaxVersion
  PROVE  get_latest_version(put_new(s, x)) = get_latest_version(s) + 1
<1> DEFINE v == get_latest_version(s) + 1
           t == put_new(s, x)
<1>0. x # NoValue
  BY KVStoreAssumption
<1>1. v \in Version /\ t \in Store /\ t.clean = s.clean
      /\ t.dirty = [s.dirty EXCEPT ![v] = x]
  BY PutNew
<1>2. /\ s.clean.version <= v
      /\ \A w \in dirty_versions(s) : w <= v
  BY LatestVersion, VersionsOf, KVStoreAssumption DEF dirty_versions
<1> HIDE DEF v, t
<1>3. \A w \in Version : t.dirty[w] = IF w = v THEN x ELSE s.dirty[w]
  BY <1>1, VersionsOf
<1>4. v \in dirty_versions(t) /\ \A w \in dirty_versions(t) : w <= v
  BY <1>0, <1>1, <1>2, <1>3, VersionsOf DEF dirty_versions
<1>5. get_latest_version(t) = v
  BY <1>1, <1>2, <1>4, LatestIs
<1> QED  BY <1>5 DEF v, t

\* ... a forwarded put does not lower the latest version, nor does it raise it
\* by a version that is not later ...
LEMMA ForwardedPutLatest ==
  ASSUME NEW s \in Store, NEW x \in Value, NEW v \in Version
  PROVE  LET t == put(s, x, v)
         IN  /\ get_latest_version(t) >= get_latest_version(s)
             /\ get_latest_version(t) >= v
             /\ v <= get_latest_version(s)
                  => get_latest_version(t) = get_latest_version(s)
<1> DEFINE t == put(s, x, v)
<1>0. x # NoValue
  BY KVStoreAssumption
<1>1. /\ t \in Store /\ t.clean = s.clean
      /\ \A w \in Version :
           t.dirty[w] = IF w = v /\ s.clean.version < v THEN x ELSE s.dirty[w]
  BY ForwardedPut
<1> HIDE DEF t
<1>2. /\ get_latest_version(s) \in Nat /\ get_latest_version(t) \in Nat
      /\ s.clean.version \in Nat /\ v \in Nat
  BY <1>1, LatestVersion, VersionsOf, KVStoreAssumption
<1>3. dirty_versions(s) \subseteq dirty_versions(t)
      /\ dirty_versions(t) \subseteq dirty_versions(s) \cup {v}
  BY <1>0, <1>1 DEF dirty_versions
<1>4. get_latest_version(t) >= get_latest_version(s)
  BY <1>1, <1>2, <1>3, LatestVersion
<1>5. get_latest_version(t) >= v
  <2>1. CASE s.clean.version < v
    <3>1. v \in dirty_versions(t)
      BY <2>1, <1>0, <1>1 DEF dirty_versions
    <3> QED  BY <3>1, <1>1, <1>2, LatestVersion
  <2>2. CASE ~ (s.clean.version < v)
    BY <2>2, <1>1, <1>2, LatestVersion
  <2> QED  BY <2>1, <2>2
<1>6. ASSUME v <= get_latest_version(s)
      PROVE  get_latest_version(t) = get_latest_version(s)
  <2>1. get_latest_version(t) <= get_latest_version(s)
    BY <1>1, <1>2, <1>3, <1>6, LatestVersion
  <2> QED  BY <2>1, <1>2, <1>4
<1> QED  BY <1>4, <1>5, <1>6 DEF t

\* ... and mark_clean of a version no later than the latest keeps the latest,
\* whether the version is there or not.
LEMMA MarkCleanLatest ==
  ASSUME NEW s \in Store, NEW v \in Version, v <= get_latest_version(s)
  PROVE  get_latest_version(mark_clean(s, v)) = get_latest_version(s)
<1> DEFINE t == mark_clean(s, v)
<1>1. /\ t \in Store
      /\ \/ t.clean = s.clean
         \/ /\ s.clean.version < v
            /\ s.dirty[v] # NoValue
            /\ t.clean = [version |-> v, value |-> s.dirty[v]]
      /\ s.dirty[v] # NoValue => t.clean.version >= v
      /\ t.clean.version >= s.clean.version
      /\ \A w \in Version : t.dirty[w] =
           IF w <= v THEN NoValue ELSE s.dirty[w]
  BY MarkClean
<1> HIDE DEF t
<1>2. PICK l \in Nat, m \in Nat :
        l = get_latest_version(s) /\ m = get_latest_version(t)
  BY <1>1, LatestVersion, KVStoreAssumption
<1>3. /\ l \in {s.clean.version} \cup dirty_versions(s)
      /\ s.clean.version <= l /\ \A w \in dirty_versions(s) : w <= l
      /\ m \in {t.clean.version} \cup dirty_versions(t)
      /\ t.clean.version <= m /\ \A w \in dirty_versions(t) : w <= m
      /\ s.clean.version \in Nat /\ t.clean.version \in Nat /\ v \in Nat
      /\ v <= l
  BY <1>1, <1>2, LatestVersion, VersionsOf
<1>4. t.clean.version <= l
  BY <1>1, <1>3
<1>5. dirty_versions(t) \subseteq dirty_versions(s)
  BY <1>1 DEF dirty_versions
<1>6. m <= l
  BY <1>3, <1>4, <1>5
<1>7. l <= m
  <2>1. CASE l = s.clean.version
    BY <2>1, <1>1, <1>3
  <2>2. CASE l \in dirty_versions(s)
    <3>1. CASE l = v
      <4>1. t.clean.version >= v
        BY <2>2, <3>1, <1>1 DEF dirty_versions
      <4> QED  BY <4>1, <3>1, <1>3
    <3>2. CASE l # v
      <4>1. l \in dirty_versions(t)
        BY <2>2, <3>2, <1>1, <1>3, VersionsOf DEF dirty_versions
      <4> QED  BY <4>1, <1>3
    <3> QED  BY <3>1, <3>2
  <2> QED  BY <2>1, <2>2, <1>3
<1>8. m = l
  BY <1>6, <1>7
<1> QED  BY <1>2, <1>8 DEF t

\* A sync leaves the newer of the two committed records.
LEMMA ApplySnapshot ==
  ASSUME NEW s \in Store, NEW c \in Record
  PROVE  /\ apply_committed_snapshot(s, c) \in Store
         /\ apply_committed_snapshot(s, c).clean =
              IF c.version > s.clean.version THEN c ELSE s.clean
         /\ \A w \in Version :
              apply_committed_snapshot(s, c).dirty[w] =
                IF w <= c.version THEN NoValue ELSE s.dirty[w]
<1>1. s.clean.version \in Nat /\ c.version \in Nat /\ s.clean \in Record
      /\ Version \subseteq Nat /\ \A w \in Version : w > 0
  BY KVStoreAssumption DEF Store, Record, Version
<1>2. CASE c.version = 0
  BY <1>1, <1>2 DEF apply_committed_snapshot
<1>3. CASE c.version # 0
  <2>1. erase_dirty_upto(s, c.version) \in [Version -> Value \cup {NoValue}]
    BY DEF erase_dirty_upto, Store
  <2> QED
    BY <1>1, <1>3, <2>1 DEF apply_committed_snapshot, erase_dirty_upto, Store
<1> QED
  BY <1>2, <1>3

==============================================================================

------------------------------- MODULE KVStore -------------------------------
(***************************************************************************)
(* The in-memory store of one server (kv_store.cpp), for one key: the      *)
(* committed record of store_ and the uncommitted ones of dirty_store_,    *)
(* both indexed by version.  Every operator is one KVStore call, which the *)
(* code runs under both store locks, so a call is one atomic step.         *)
(*                                                                         *)
(* Keys never interact inside the store; a component that needs several    *)
(* keys keeps a function from keys to Stores.                              *)
(***************************************************************************)
EXTENDS FiniteSetsExt

CONSTANTS
  Value,       \* what a client can write
  NoValue,     \* stands for an absent record
  MaxVersion   \* bound on the uint64 version numbers of a key

ASSUME KVStoreAssumption ==
  /\ NoValue \notin Value
  /\ MaxVersion \in Nat \ {0}

Version == 1..MaxVersion

\* The committed record of a key; version 0, and then only, means none.
Record == {c \in [version : 0..MaxVersion, value : Value \cup {NoValue}] :
             c.version = 0 <=> c.value = NoValue}

Store == [clean : Record, dirty : [Version -> Value \cup {NoValue}]]

EmptyStore == [clean |-> [version |-> 0, value |-> NoValue],
               dirty |-> [v \in Version |-> NoValue]]

dirty_versions(s) == {v \in Version : s.dirty[v] # NoValue}

has_dirty(s) == dirty_versions(s) # {}

get_latest_version(s) == Max({s.clean.version} \cup dirty_versions(s))

\* The version is not lost to the store: its record, or a committed one at
\* least as new, is there.
holds(s, version) == s.clean.version >= version \/ s.dirty[version] # NoValue

\* put(key, value, nullopt): the head's write, which picks the version itself.
put_new(s, value) ==
  [s EXCEPT !.dirty[get_latest_version(s) + 1] = value]

\* Mutant: the committed version is not compared.
put_always(s, value, version) == [s EXCEPT !.dirty[version] = value]

\* put(key, value, version): a forwarded write.  Only the committed version
\* is compared, so a dirty record of any higher version is stored.
put(s, value, version) ==
  IF version <= s.clean.version
  THEN s
  ELSE [s EXCEPT !.dirty[version] = value]

erase_dirty_upto(s, version) ==
  [v \in Version |-> IF v <= version THEN NoValue ELSE s.dirty[v]]

\* Mutant: a version that is not there is committed all the same.
mark_clean_blindly(s, version) ==
  [clean |-> [version |-> version, value |-> s.dirty[version]],
   dirty |-> erase_dirty_upto(s, version)]

\* Mutant: the newest dirty record is committed instead of the one named.
mark_newest_clean(s, version) ==
  [clean |-> IF has_dirty(s) /\ version > s.clean.version
             THEN [version |-> version,
                   value   |-> s.dirty[Max(dirty_versions(s))]]
             ELSE s.clean,
   dirty |-> erase_dirty_upto(s, version)]

\* Mutant: every dirty record is erased.
mark_clean_and_clear(s, version) ==
  [clean |-> IF s.dirty[version] # NoValue /\ version > s.clean.version
             THEN [version |-> version, value |-> s.dirty[version]]
             ELSE s.clean,
   dirty |-> EmptyStore.dirty]

\* The record is promoted when it is there and newer than the committed one;
\* the dirty records up to the version are erased in every case.
mark_clean(s, version) ==
  [clean |-> IF s.dirty[version] # NoValue /\ version > s.clean.version
             THEN [version |-> version, value |-> s.dirty[version]]
             ELSE s.clean,
   dirty |-> erase_dirty_upto(s, version)]

\* What a peer's StateDump carries of the key: its committed record, if any.
snapshot_committed(s) == s.clean

\* Mutant: the peer's record always replaces the own one.
overwrite_with_snapshot(s, record) ==
  [clean |-> record, dirty |-> erase_dirty_upto(s, record.version)]

apply_committed_snapshot(s, record) ==
  IF record.version = 0
  THEN s
  ELSE [clean |-> IF record.version > s.clean.version THEN record ELSE s.clean,
        dirty |-> erase_dirty_upto(s, record.version)]

==============================================================================

---------------------------- MODULE KVStoreCalls ----------------------------
(***************************************************************************)
(* One key's store under any interleaving of calls from the handler        *)
(* threads of the three replication objects, which share it (the maps of   *)
(* kv_store.h are static).  mark_clean is called for a version this server *)
(* has put or, under CHAIN, has found overtaken: handle_put does not store *)
(* a version below the latest, dirty ones included, yet it forwards and    *)
(* stages it, and handle_ack commits it.  So all callers keep one rule:    *)
(* the version is not above the latest one.                                *)
(***************************************************************************)
EXTENDS KVStore

VARIABLES
  store,     \* the store of the key
  seen,      \* history: the versions this server has put, in either way
  overtaken  \* history: the versions committed without having been put

vars == <<store, seen, overtaken>>

TypeOK == store \in Store /\ seen \cup overtaken \subseteq Version

Init == store = EmptyStore /\ seen = {} /\ overtaken = {}

CallPutNew(value) ==
  LET version == get_latest_version(store) + 1
  IN  /\ version <= MaxVersion
      /\ store' = put_new(store, value)
      /\ seen' = seen \cup {version}
      /\ UNCHANGED overtaken

CallPut(value, version) ==
  /\ store' = put(store, value, version)
  /\ seen' = seen \cup {version}
  /\ UNCHANGED overtaken

CallMarkClean(version) ==
  /\ version <= get_latest_version(store)
  /\ store' = mark_clean(store, version)
  /\ overtaken' = overtaken \cup ({version} \ seen)
  /\ UNCHANGED seen

\* A StateDump taken from any peer: the node syncs when it joins.
CallApplySnapshot(record) ==
  /\ store' = apply_committed_snapshot(store, record)
  /\ UNCHANGED <<seen, overtaken>>

Next ==
  \/ \E value \in Value : CallPutNew(value)
  \/ \E value \in Value, version \in Version : CallPut(value, version)
  \/ \E version \in Version : CallMarkClean(version)
  \/ \E value \in Value, version \in Version :
       CallApplySnapshot([version |-> version, value |-> value])

Spec == Init /\ [][Next]_vars

-----------------------------------------------------------------------------
\* What the store may forget, as mark_clean and the sync erase ranges of dirty
\* records: a version put is dirty or covered by the committed record, but for
\* one case, that of CHAIN.  A later version was overtaken by one put here
\* before it, and its commit, which finds no record to promote, erased what lay
\* below.  So CRAQ and CROWN, which put whatever they commit above the committed
\* record, forget no version, and nobody ever forgets the latest version put.
NothingForgotten ==
  \A version \in seen :
    \/ holds(store, version)
    \/ \E gone \in overtaken, later \in seen : version < gone /\ gone < later

\* The version the head would assign next never goes back, or a version would
\* be assigned twice.
LatestNeverDecreases ==
  [][get_latest_version(store') >= get_latest_version(store)]_vars

\* Readers take the committed record without looking further when there is no
\* dirty one: a dirty record is always newer than the committed record.
DirtyAboveClean == \A v \in dirty_versions(store) : v > store.clean.version

=============================================================================

------------------------------ MODULE CraqReads ------------------------------
(***************************************************************************)
(* Reads under CRAQ (handle_get and handle_version_query of                *)
(* craq_replication.cpp), on any server, while writes go on.  handle_get   *)
(* takes and releases a store lock for each thing it looks at, and asks the*)
(* tail in an RPC in between, so it is a thread of small steps.            *)
(***************************************************************************)
EXTENDS CraqReplication

CONSTANT Reader     \* each reader makes one Get

VARIABLE gets       \* gets[c]: the handle_get thread serving reader c

readVars == <<vars, gets>>

\* A thread of handle_get has a node and a key.  floor is history: the version
\* committed at the tail when the Get arrived.  committed is committed_version,
\* the tail's answer, 0 while not asked, and value is what was read so far.  A
\* Get that is done is its response.
Idle == [step |-> "idle"]

InitReads == Init /\ gets = [c \in Reader |-> Idle]

clean_of(g) == store[g.node][g.key].clean

Advance(c, g) == gets' = [gets EXCEPT ![c] = g] /\ UNCHANGED vars

Answer(c, error, value, version) ==
  Advance(c, [step |-> "done", error |-> error, value |-> value,
              version |-> version])

\* A Get arrives at server n: only a dirty record makes it ask the tail.
BeginGet(c, n, k) ==
  /\ gets[c] = Idle
  /\ Advance(c, [step |-> IF has_dirty(store[n][k]) THEN "query" ELSE "value",
                 node |-> n, key |-> k, floor |-> tail_version(k),
                 committed |-> 0, value |-> NoValue])

\* The tail reads its own store, any other server sends it a VersionQuery; if
\* nothing is committed the Get fails.
QueryVersion(c) ==
  LET g == gets[c]
  IN  /\ g.step = "query"
      /\ IF tail_version(g.key) = 0
         THEN Answer(c, "NOT_FOUND", NoValue, 0)
         ELSE Advance(c, [g EXCEPT !.step = "dirty",
                                   !.committed = tail_version(g.key)])

QueryFails(c) ==
  LET g == gets[c]
  IN  /\ g.step = "query"
      /\ g.node # tail_index(g.key)
      /\ Answer(c, "TAIL_UNAVAILABLE", NoValue, 0)

\* Mutant: the newest dirty record is returned, committed or not.
LookUpNewest(c) ==
  LET g == gets[c]
      s == store[g.node][g.key]
  IN  /\ g.step = "dirty"
      /\ IF has_dirty(s)
         THEN Answer(c, "", s.dirty[get_latest_version(s)],
                     get_latest_version(s))
         ELSE Advance(c, [g EXCEPT !.step = "value"])

\* The record of the committed version, if it is still a dirty one here.
LookUpDirty(c) ==
  LET g == gets[c]
      record == store[g.node][g.key].dirty[g.committed]
  IN  /\ g.step = "dirty"
      /\ IF record # NoValue
         THEN Answer(c, "", record, g.committed)
         ELSE Advance(c, [g EXCEPT !.step = "value"])

\* Otherwise the clean record: its value under one lock ...
ReadValue(c) ==
  LET g == gets[c]
  IN  /\ g.step = "value"
      /\ IF g.committed = 0 /\ clean_of(g).version = 0
         THEN Answer(c, "NOT_FOUND", NoValue, 0)
         ELSE Advance(c, [g EXCEPT !.step = "version",
                                   !.value = clean_of(g).value])

\* Mutant: the version is the tail's answer, if it was asked.
ReadVersionAsked(c) ==
  LET g == gets[c]
  IN  /\ g.step = "version"
      /\ Answer(c, "", g.value,
                IF g.committed = 0 THEN clean_of(g).version ELSE g.committed)

\* Mutant: a version newer than the tail's answer is refused.
ReadExactVersion(c) ==
  LET g == gets[c]
  IN  /\ g.step = "version"
      /\ IF g.value # NoValue /\ clean_of(g).version = g.committed
         THEN Answer(c, "", g.value, clean_of(g).version)
         ELSE Answer(c, "VERSION_NOT_FOUND", NoValue, 0)

\* ... and its version under the next.
ReadVersion(c) ==
  LET g == gets[c]
  IN  /\ g.step = "version"
      /\ IF g.value # NoValue /\ clean_of(g).version >= g.committed
         THEN Answer(c, "", g.value, clean_of(g).version)
         ELSE Answer(c, "VERSION_NOT_FOUND", NoValue, 0)

HandleGet(c) == QueryVersion(c) \/ QueryFails(c) \/ LookUpDirty(c)
                  \/ ReadValue(c) \/ ReadVersion(c)

NextReads ==
  \/ Next /\ UNCHANGED gets
  \/ \E c \in Reader : \/ \E n \in Node, k \in Key : BeginGet(c, n, k)
                       \/ HandleGet(c)

SpecReads == InitReads /\ [][NextReads]_readVars

-----------------------------------------------------------------------------
Answered(c) == gets[c].step = "done"

\* The version the tail answered with is always still to be found, as a dirty
\* record or a committed one, by the server that asked for it.
VersionFound ==
  \A c \in Reader : Answered(c) => gets[c].error # "VERSION_NOT_FOUND"

\* Value and version of a response are read under two locks: the version may
\* be that of a later write than the value (protocol_tests.cpp:104-105 expect
\* the same one), but never that of an earlier one.
VersionNotBehindValue ==
  \A c \in Reader :
    Answered(c) /\ gets[c].error = ""
      => gets[c].version >= assigned[gets[c].value]

\* What the abstract store sees of a Get.
read_of(g) ==
  CASE g = Idle -> [state |-> "idle"]
    [] g.step = "done" /\ g.error = "TAIL_UNAVAILABLE" -> [state |-> "failed"]
    [] g.step = "done" /\ g.error # "TAIL_UNAVAILABLE" ->
         [state |-> "returned", value |-> g.value]
    [] OTHER -> [state |-> "reading", key |-> g.key, floor |-> g.floor]

reads_of_gets == [c \in Reader |-> read_of(gets[c])]

Abstract == INSTANCE VersionedStore WITH version   <- assigned,
                                         committed <- tail_versions,
                                         reads     <- reads_of_gets

\* Reads and writes together behave as the abstract store: the tail's
\* committed version is the committed prefix, and every Get returns a write
\* that was the committed one at some moment during the Get.
ImplementsVersionedStore == Abstract!Spec

==============================================================================

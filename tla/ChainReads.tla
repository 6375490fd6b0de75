------------------------------ MODULE ChainReads ------------------------------
(***************************************************************************)
(* Reads under plain chain replication (handle_get of                      *)
(* chain_replication.cpp) while writes go on.  Only the tail answers, with *)
(* the committed value it reads under one lock and, under the next, the    *)
(* latest version it has seen, committed or not.                           *)
(***************************************************************************)
EXTENDS ChainReplication

CONSTANT Reader     \* each reader makes one Get

VARIABLE gets       \* gets[c]: the handle_get thread serving reader c

readVars == <<vars, gets>>

Idle == [step |-> "idle"]

InitReads == Init /\ gets = [c \in Reader |-> Idle]

Advance(c, g) == gets' = [gets EXCEPT ![c] = g] /\ UNCHANGED vars

ReadCommitted(c, n, k) ==
  Advance(c, [step |-> "version", key |-> k,
              value |-> store[n][k].clean.value])

\* Mutant: every server answers.
BeginGetAnywhere(c, n, k) == gets[c] = Idle /\ ReadCommitted(c, n, k)

\* A Get arrives: any server but the tail says WRONG_NODE, which changes
\* nothing anywhere; the tail reads the committed value, if there is one.
BeginGet(c, n, k) ==
  /\ gets[c] = Idle
  /\ n = tail_index(k)
  /\ ReadCommitted(c, n, k)

version_of(value) == IF value = NoValue THEN 0 ELSE assigned[value]

\* NOT_FOUND, or the value with the latest version under the next lock.
RespondVersion(c) ==
  LET k == gets[c].key
  IN  /\ gets[c].step = "version"
      /\ Advance(c, [step |-> "done", value |-> gets[c].value,
           version |-> IF gets[c].value = NoValue THEN 0
                       ELSE get_latest_version(store[tail_index(k)][k])])

NextReads ==
  \/ Next /\ UNCHANGED gets
  \/ \E c \in Reader : \/ \E n \in Node, k \in Key : BeginGet(c, n, k)
                       \/ RespondVersion(c)

\* As for the writes: servers keep running, clients need not come.
SpecReads ==
  /\ InitReads /\ [][NextReads]_readVars
  /\ WF_readVars(Deliver /\ UNCHANGED gets)
  /\ WF_readVars(RetryLoop /\ UNCHANGED gets)

-----------------------------------------------------------------------------
\* What the abstract store sees of a Get.
read_of(g) ==
  CASE g = Idle -> [state |-> "idle"]
    [] g.step = "version" ->
         [state |-> "reading", key |-> g.key, floor |-> version_of(g.value)]
    [] OTHER -> [state |-> "returned", value |-> g.value]

reads_of_gets == [c \in Reader |-> read_of(gets[c])]

Abstract == INSTANCE VersionedStore WITH version   <- assigned,
                                         committed <- tail_versions,
                                         reads     <- reads_of_gets

\* Plain chain replication is the same abstract store as CRAQ: a Get returns a
\* write that was the committed one at some moment during the Get.
ImplementsVersionedStore == Abstract!Spec

==============================================================================

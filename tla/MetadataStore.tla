---------------------------- MODULE MetadataStore ----------------------------
(***************************************************************************)
(* The metadata store (metadata_store.cpp): the one process that decides   *)
(* the membership, the mode and their epoch, and removes servers whose     *)
(* heartbeats stop.  Each RPC handler and each Trigger function changes    *)
(* the ClusterState in one critical section; what is decided under the     *)
(* lock and carried out under a later one is a step of its own.  The       *)
(* servers are added by ServerMembership.                                  *)
(***************************************************************************)
EXTENDS Naturals, FiniteSets, SequencesExt

CONSTANTS
  Server,
  NoServer,
  ModeOrder,        \* the protocols, in the order ApplyMembership visits them
  InitialMembers,   \* --members
  InitialMode,      \* --mode
  Joiner,           \* --add-member, or NoServer
  MaxModeChanges,   \* bound on SetMode requests
  MaxFaults         \* bound on crashes, lost messages and stalled heartbeats

Mode == Range(ModeOrder)

ASSUME MetadataAssumption ==
  /\ NoServer \notin Server
  /\ ModeOrder \in Seq(Mode)
  /\ InitialMembers \in Seq(Server) /\ IsInjective(InitialMembers)
  /\ InitialMode \in Mode
  /\ Joiner \in Server \cup {NoServer}
  /\ MaxModeChanges \in Nat
  /\ MaxFaults \in Nat

VARIABLES
  cluster,        \* epoch, mode and membership of the ClusterState
  last_heartbeat, \* of each server: none, recent, or old enough to miss it
  failed,         \* the server MonitorFailures is about to remove, or NoServer
  modeThreads,    \* how many TriggerModeChange threads wait, by mode
  setModes,       \* how many such threads SetMode has started
  joining,        \* the thread that adds the Joiner has not run yet
  reconfigures,   \* Reconfigure RPCs sent and not handled
  issued          \* history: every configuration there has been

metadataVars == <<cluster, last_heartbeat, failed, modeThreads, setModes,
                  joining, reconfigures, issued>>

Config == [epoch : Nat, mode : Mode, members : Seq(Server)]

\* Every change of the cluster is a join, a change of mode, or the removal of
\* a server after a fault or of a joiner that is not up.
MaxEpoch ==
  1 + (IF Joiner = NoServer THEN 0 ELSE 2) + MaxModeChanges + MaxFaults

MetadataTypeOK ==
  /\ cluster \in Config
  /\ last_heartbeat \in [Server -> {"none", "recent", "old"}]
  /\ failed \in Server \cup {NoServer}
  /\ modeThreads \in [Mode -> 0..MaxModeChanges]
  /\ setModes \in 0..MaxModeChanges
  /\ joining \in BOOLEAN
  /\ reconfigures \subseteq
       [to : Server, config : Config]
  /\ issued \subseteq Config
  /\ cluster.epoch \in 1..MaxEpoch

\* The initial members are members before anything has been heard of them.
InitMetadata ==
  /\ cluster = [epoch |-> 1, mode |-> InitialMode, members |-> InitialMembers]
  /\ last_heartbeat = [n \in Server |-> "none"]
  /\ failed = NoServer
  /\ modeThreads = [m \in Mode |-> 0]
  /\ setModes = 0
  /\ joining = (Joiner # NoServer)
  /\ reconfigures = {}
  /\ issued = {cluster}

-----------------------------------------------------------------------------
\* Mutant: the epoch stays.
MoveWithinEpoch(members, mode) ==
  LET config == [cluster EXCEPT !.mode = mode, !.members = members]
  IN  /\ cluster' = config
      /\ issued' = issued \cup {config}
      /\ reconfigures' = reconfigures \cup
           {[to |-> n, config |-> config] : n \in Range(members)}

\* A new epoch, and one Reconfigure to each of its members.
MoveTo(members, mode) ==
  LET config == [epoch |-> cluster.epoch + 1, mode |-> mode,
                 members |-> members]
  IN  /\ cluster' = config
      /\ issued' = issued \cup {config}
      /\ reconfigures' = reconfigures \cup
           {[to |-> n, config |-> config] : n \in Range(members)}

\* The mode is compared here and changed by a thread that does not look again.
SetMode(mode) ==
  /\ cluster.mode # mode
  /\ setModes < MaxModeChanges
  /\ setModes' = setModes + 1
  /\ modeThreads' = [modeThreads EXCEPT ![mode] = @ + 1]
  /\ UNCHANGED <<cluster, last_heartbeat, failed, joining, reconfigures, issued>>

TriggerModeChange(mode) ==
  /\ modeThreads[mode] > 0
  /\ MoveTo(cluster.members, mode)
  /\ modeThreads' = [modeThreads EXCEPT ![mode] = @ - 1]
  /\ UNCHANGED <<last_heartbeat, failed, setModes, joining>>

\* Any server is believed to be alive, member or not.
Heartbeat(n) ==
  /\ last_heartbeat' = [last_heartbeat EXCEPT ![n] = "recent"]
  /\ UNCHANGED <<cluster, failed, modeThreads, setModes, joining, reconfigures,
                 issued>>

\* Four seconds pass without a heartbeat.
HeartbeatAges(n) ==
  /\ last_heartbeat[n] = "recent"
  /\ last_heartbeat' = [last_heartbeat EXCEPT ![n] = "old"]
  /\ UNCHANGED <<cluster, failed, modeThreads, setModes, joining, reconfigures,
                 issued>>

\* Mutant: whatever the time since the last heartbeat.
heard_members ==
  {i \in DOMAIN cluster.members : last_heartbeat[cluster.members[i]] # "none"}

\* By their places in the membership.
silent_members ==
  {i \in DOMAIN cluster.members : last_heartbeat[cluster.members[i]] = "old"}

\* A round of MonitorFailures: the first silent member is chosen ...
MonitorFailures ==
  /\ failed = NoServer
  /\ \E i \in silent_members : /\ \A j \in silent_members : i <= j
                               /\ failed' = cluster.members[i]
  /\ UNCHANGED <<cluster, last_heartbeat, modeThreads, setModes, joining,
                 reconfigures, issued>>

\* A server is in a membership once.
members_without(members, n) ==
  RemoveAt(members, CHOOSE i \in DOMAIN members : members[i] = n)

\* ... and removed under a later lock, heard of again or not.
TriggerReconfigureRemove ==
  /\ failed # NoServer
  /\ failed' = NoServer
  /\ IF Contains(cluster.members, failed)
     THEN /\ MoveTo(members_without(cluster.members, failed), cluster.mode)
          /\ last_heartbeat' = [last_heartbeat EXCEPT ![failed] = "none"]
     ELSE UNCHANGED <<cluster, last_heartbeat, reconfigures, issued>>
  /\ UNCHANGED <<modeThreads, setModes, joining>>

\* Mutant: the joiner is given no first heartbeat.
AddUnheard ==
  /\ joining
  /\ joining' = FALSE
  /\ IF Contains(cluster.members, Joiner)
     THEN UNCHANGED <<cluster, reconfigures, issued>>
     ELSE MoveTo(Append(cluster.members, Joiner), cluster.mode)
  /\ UNCHANGED <<failed, modeThreads, setModes, last_heartbeat>>

TriggerReconfigureAdd ==
  /\ joining
  /\ joining' = FALSE
  /\ IF Contains(cluster.members, Joiner)
     THEN UNCHANGED <<cluster, last_heartbeat, reconfigures, issued>>
     ELSE /\ MoveTo(Append(cluster.members, Joiner), cluster.mode)
          /\ last_heartbeat' = [last_heartbeat EXCEPT ![Joiner] = "recent"]
  /\ UNCHANGED <<failed, modeThreads, setModes>>

==============================================================================

-------------------------- MODULE ServerMembership --------------------------
(***************************************************************************)
(* How the servers (server.cpp) follow the metadata store: the ServerState *)
(* under its lock, the rings of the protocol objects outside it, and the   *)
(* three ways in which a configuration arrives, the Reconfigure RPC, the   *)
(* heartbeat's RefreshMembership and, after an RPC with a newer epoch,     *)
(* RefreshMembershipAsync.  Each of them changes the ServerState in one    *)
(* critical section and then runs ApplyMembership on its own thread, which *)
(* takes a lock per protocol object.                                       *)
(***************************************************************************)
EXTENDS MetadataStore

CONSTANTS
  InitiallyUp,   \* the servers that run at the start, all members among them
  MaxNewerRpcs,  \* bound on the RPCs that bring a newer epoch
  MaxThreads     \* bound on the threads that change a server's rings at once

ASSUME MembershipAssumption ==
  /\ Range(InitialMembers) \subseteq InitiallyUp /\ InitiallyUp \subseteq Server
  /\ MaxNewerRpcs \in Nat /\ MaxThreads \in Nat

VARIABLES
  up,          \* the servers that run
  state,       \* of each server: ServerState
  ring,        \* of each server and mode: the object's membership and epoch
  refreshing,  \* configurations read with GetMembership, not yet installed
  applying,    \* threads between their critical section and their end
  reforwarded, \* history: the epochs for which a server has re-forwarded
  newerRpcs,   \* history: RPCs with a newer epoch so far
  faults       \* history: crashes, lost messages, stalls so far

serverVars == <<up, state, ring, refreshing, applying, reforwarded, newerRpcs,
                faults>>
vars == <<metadataVars, serverVars>>

NoConfig == [epoch |-> 0, mode |-> InitialMode, members |-> <<>>]

\* One server's thread with a configuration in hand.  left are the objects
\* ApplyMembership has to visit, half says that the first of them has the new
\* membership and not the new epoch.
Refresh == [node : Server, config : Config, via : {"boot", "heartbeat", "rpc"}]
Thread == [node : Server, config : Config, advanced : BOOLEAN,
           via : {"heartbeat", "rpc", "Reconfigure"},
           left : Seq(Mode), half : BOOLEAN]

TypeOK ==
  /\ MetadataTypeOK
  /\ up \subseteq Server
  /\ \A n \in Server :
       /\ state[n] \in [status : {"STARTING", "NORMAL"}, config : Config]
       /\ reforwarded[n] \subseteq 1..MaxEpoch
  /\ ring \in [Server -> [Mode -> [members : Seq(Server), epoch : Nat]]]
  /\ refreshing \subseteq Refresh
  /\ applying \subseteq Thread
  /\ newerRpcs \in 0..MaxNewerRpcs
  /\ faults \in 0..MaxFaults

epoch(n) == state[n].config.epoch
ring_of(config) == [members |-> config.members, epoch |-> config.epoch]

Init ==
  /\ InitMetadata
  /\ up = InitiallyUp
  /\ state = [n \in Server |->
       IF n \in up THEN [status |-> "NORMAL", config |-> cluster]
       ELSE [status |-> "STARTING", config |-> NoConfig]]
  /\ ring = [n \in Server |-> [m \in Mode |-> ring_of(state[n].config)]]
  /\ refreshing = {}
  /\ applying = {}
  /\ reforwarded = [n \in Server |-> {}]
  /\ newerRpcs = 0
  /\ faults = 0

Fault == faults < MaxFaults /\ faults' = faults + 1

-----------------------------------------------------------------------------
\* The metadata store's steps, beside servers that do not move.
MetadataStep ==
  /\ \/ \E mode \in Mode : SetMode(mode) \/ TriggerModeChange(mode)
     \/ MonitorFailures \/ TriggerReconfigureRemove \/ TriggerReconfigureAdd
  /\ UNCHANGED serverVars

\* Nothing is heard of a server that is down; one that runs falls silent for
\* four seconds only by a fault.
FallSilent(n) ==
  /\ HeartbeatAges(n)
  /\ IF n \in up THEN Fault ELSE UNCHANGED faults
  /\ UNCHANGED <<up, state, ring, refreshing, applying, reforwarded, newerRpcs>>

\* A Reconfigure to a server that is down fails at once, one to a server that
\* runs is lost by a fault.
LoseReconfigure ==
  \E r \in reconfigures :
    /\ reconfigures' = reconfigures \ {r}
    /\ IF r.to \in up THEN Fault ELSE UNCHANGED faults
    /\ UNCHANGED <<cluster, last_heartbeat, failed, modeThreads, setModes,
                   joining, issued>>
    /\ UNCHANGED <<up, state, ring, refreshing, applying, reforwarded, newerRpcs>>

-----------------------------------------------------------------------------
\* main reads the membership before the server listens.
BeginBoot(n) ==
  /\ n \notin up
  /\ \A r \in refreshing : r.node # n
  /\ refreshing' = refreshing \cup
       {[node |-> n, config |-> cluster, via |-> "boot"]}
  /\ UNCHANGED <<up, state, ring, applying, reforwarded, newerRpcs, faults,
                 metadataVars>>

\* Nothing else runs yet, so the rings are installed with the state, and
\* nothing is pending.
Boot(r) ==
  /\ r.via = "boot"
  /\ refreshing' = refreshing \ {r}
  /\ up' = up \cup {r.node}
  /\ state' = [state EXCEPT ![r.node] =
       [status |-> "NORMAL", config |-> r.config]]
  /\ ring' = [ring EXCEPT ![r.node] = [m \in Mode |-> ring_of(r.config)]]
  /\ UNCHANGED <<applying, reforwarded, newerRpcs, faults, metadataVars>>

\* GetMembership fails: the server listens without a configuration.
BootAlone(n) ==
  /\ n \notin up
  /\ \A r \in refreshing : r.node # n
  /\ up' = up \cup {n}
  /\ UNCHANGED <<state, ring, refreshing, applying, reforwarded, newerRpcs,
                 faults, metadataVars>>

\* All of a server is in memory, and its threads end with it.
Crash(n) ==
  /\ n \in up
  /\ Fault
  /\ up' = up \ {n}
  /\ state' = [state EXCEPT ![n] = [status |-> "STARTING", config |-> NoConfig]]
  /\ ring' = [ring EXCEPT ![n] = [m \in Mode |-> ring_of(NoConfig)]]
  /\ refreshing' = {r \in refreshing : r.node # n}
  /\ applying' = {t \in applying : t.node # n}
  /\ reforwarded' = [reforwarded EXCEPT ![n] = {}]
  /\ UNCHANGED <<newerRpcs, metadataVars>>

-----------------------------------------------------------------------------
threads(n) == {t \in applying : t.node = n}

\* Mutant: the epoch is not stored.
InstallWithoutEpoch(n, config, status, via) ==
  /\ Cardinality(threads(n)) < MaxThreads
  /\ state' = [state EXCEPT ![n] =
       [status |-> status, config |-> [config EXCEPT !.epoch = epoch(n)]]]
  /\ applying' = applying \cup
       {[node |-> n, config |-> config, advanced |-> config.epoch > epoch(n),
         via |-> via, left |-> ModeOrder, half |-> FALSE]}

\* Mutant: re-forwards whether or not the epoch is new.
InstallAdvanced(n, config, status, via) ==
  /\ Cardinality(threads(n)) < MaxThreads
  /\ state' = [state EXCEPT ![n] = [status |-> status, config |-> config]]
  /\ applying' = applying \cup
       {[node |-> n, config |-> config, advanced |-> TRUE,
         via |-> via, left |-> ModeOrder, half |-> FALSE]}

\* The critical section of the three handlers, and the thread that leaves it.
\* A join's SyncFromPeer only delays that thread here.
Install(n, config, status, via) ==
  /\ Cardinality(threads(n)) < MaxThreads
  /\ state' = [state EXCEPT ![n] = [status |-> status, config |-> config]]
  /\ applying' = applying \cup
       {[node |-> n, config |-> config, advanced |-> config.epoch > epoch(n),
         via |-> via, left |-> ModeOrder, half |-> FALSE]}

Reconfigure(r) ==
  /\ r.to \in up
  /\ reconfigures' = reconfigures \ {r}
  /\ IF r.config.epoch < epoch(r.to)
     THEN UNCHANGED <<state, applying>>
     ELSE Install(r.to, r.config, state[r.to].status, "Reconfigure")
  /\ UNCHANGED <<cluster, last_heartbeat, failed, modeThreads, setModes,
                 joining, issued>>
  /\ UNCHANGED <<up, ring, refreshing, reforwarded, newerRpcs, faults>>

\* One thread per server sends heartbeats and carries out what they bring.
heartbeat_busy(n) ==
  \E t \in refreshing \cup applying : t.node = n /\ t.via = "heartbeat"

\* Mutant: the epoch in the answer is ignored.
HeartbeatOnly(n) ==
  /\ n \in up
  /\ ~heartbeat_busy(n)
  /\ Heartbeat(n)
  /\ UNCHANGED <<serverVars>>

HeartbeatLoop(n) ==
  /\ n \in up
  /\ ~heartbeat_busy(n)
  /\ Heartbeat(n)
  /\ refreshing' = IF cluster.epoch > epoch(n)
       THEN refreshing \cup
              {[node |-> n, config |-> cluster, via |-> "heartbeat"]}
       ELSE refreshing
  /\ UNCHANGED <<up, state, ring, applying, reforwarded, newerRpcs, faults>>

RefreshMembership(r) ==
  /\ r.via = "heartbeat"
  /\ refreshing' = refreshing \ {r}
  /\ IF r.config.epoch < epoch(r.node)
     THEN UNCHANGED <<state, applying>>
     ELSE Install(r.node, r.config, "NORMAL", "heartbeat")
  /\ UNCHANGED <<up, ring, reforwarded, newerRpcs, faults, metadataVars>>

\* Some RPC carried an epoch newer than the server's.
ReadForRpc(n) ==
  /\ n \in up
  /\ cluster.epoch > epoch(n)
  /\ newerRpcs < MaxNewerRpcs /\ newerRpcs' = newerRpcs + 1
  /\ refreshing' = refreshing \cup
       {[node |-> n, config |-> cluster, via |-> "rpc"]}
  /\ UNCHANGED <<up, state, ring, applying, reforwarded, faults, metadataVars>>

RefreshMembershipAsync(r) ==
  /\ r.via = "rpc"
  /\ refreshing' = refreshing \ {r}
  /\ IF r.config.epoch <= epoch(r.node)
     THEN UNCHANGED <<state, applying>>
     ELSE Install(r.node, r.config, state[r.node].status, "rpc")
  /\ UNCHANGED <<up, ring, reforwarded, newerRpcs, faults, metadataVars>>

-----------------------------------------------------------------------------
\* A thread goes on: t is replaced by t2.
Goes(t, t2) == applying' = (applying \ {t}) \cup {t2}

update_membership(t) ==
  /\ ~t.half
  /\ ring' = [ring EXCEPT ![t.node][Head(t.left)].members = t.config.members]
  /\ Goes(t, [t EXCEPT !.half = TRUE])
  /\ UNCHANGED <<up, state, refreshing, reforwarded, newerRpcs, faults,
                 metadataVars>>

\* The end of ApplyMembership, and of Reconfigure after it: the pending
\* writes of the mode are sent along the ring.  Whether there are any, and a
\* next server to send them to, is left out.
FinishApply(t) ==
  /\ applying' = applying \ {t}
  /\ reforwarded' = IF t.advanced
       THEN [reforwarded EXCEPT ![t.node] = @ \cup {t.config.epoch}]
       ELSE reforwarded
  /\ state' = IF t.via = "Reconfigure"
       THEN [state EXCEPT ![t.node].status = "NORMAL"] ELSE state

set_epoch(t) ==
  /\ t.half
  /\ ring' = [ring EXCEPT ![t.node][Head(t.left)].epoch = t.config.epoch]
  /\ IF Len(t.left) > 1
     THEN /\ Goes(t, [t EXCEPT !.half = FALSE, !.left = Tail(@)])
          /\ UNCHANGED <<state, reforwarded>>
     ELSE FinishApply(t)
  /\ UNCHANGED <<up, refreshing, newerRpcs, faults, metadataVars>>

ThreadStep(t) == update_membership(t) \/ set_epoch(t)

FinishRefresh(r) ==
  Boot(r) \/ RefreshMembership(r) \/ RefreshMembershipAsync(r)

Next ==
  \/ MetadataStep
  \/ \E r \in reconfigures : Reconfigure(r)
  \/ \E r \in refreshing : FinishRefresh(r)
  \/ \E t \in applying : ThreadStep(t)
  \/ LoseReconfigure
  \/ \E n \in Server :
       \/ HeartbeatLoop(n) \/ ReadForRpc(n) \/ FallSilent(n)
       \/ BeginBoot(n) \/ BootAlone(n) \/ Crash(n)

Spec == Init /\ [][Next]_vars

\* Threads and RPCs come to their end, the loops of the servers and of the
\* metadata store wake up for ever.  Nothing need crash, boot or be lost.
Fairness ==
  /\ \A n \in Server :
       /\ WF_vars(HeartbeatLoop(n))
       /\ WF_vars(n \notin up /\ FallSilent(n))
       /\ WF_vars(\E r \in reconfigures : r.to = n /\ Reconfigure(r))
       /\ WF_vars(\E r \in refreshing : r.node = n /\ FinishRefresh(r))
       /\ WF_vars(\E t \in applying : t.node = n /\ ThreadStep(t))
  /\ WF_vars(MonitorFailures /\ UNCHANGED serverVars)
  /\ WF_vars(TriggerReconfigureRemove /\ UNCHANGED serverVars)

FairSpec == Spec /\ Fairness

-----------------------------------------------------------------------------
\* Servers with the same epoch have the same mode and the same ring: joins,
\* removals and changes of mode that race give epochs of their own.
SameEpochSameConfig ==
  \A a, b \in up : epoch(a) = epoch(b) => state[a].config = state[b].config

\* A protocol object is never ahead of the server's state, whatever threads
\* install their rings at once.
RingNotAhead ==
  \A n \in up, m \in Mode :
    /\ ring[n][m].epoch <= epoch(n)
    /\ ring[n][m].members # <<>> => \E config \in issued :
         config.epoch <= epoch(n) /\ config.members = ring[n][m].members

\* The pending writes are sent again by one thread per epoch, although the
\* epoch arrives by Reconfigure, by heartbeat and by RPC (the comment on
\* ApplyMembership: "We dedupe on epoch").
ReforwardedOnce ==
  \A t \in applying : t.advanced =>
    /\ t.config.epoch \notin reforwarded[t.node]
    /\ \A u \in applying :
         u.advanced /\ u.node = t.node /\ u.config.epoch = t.config.epoch => u = t

\* However Reconfigures are lost and servers crash, every server that stays up
\* ends in the last epoch, in its mode and with its membership.
Settles == <>[](\A n \in up : state[n].config = cluster)

\* A member that is down is removed, unless it comes back first.  The metadata
\* store passes over those it has never heard of: the initial members until
\* their first heartbeat, and nobody else, as a joiner's first is made up.
DeadRemoved ==
  \A n \in Server :
    (/\ n \notin up /\ Contains(cluster.members, n)
     /\ last_heartbeat[n] # "none" \/ ~Contains(InitialMembers, n))
      ~> (n \in up \/ ~Contains(cluster.members, n))

\* What is said of a server that misses a Reconfigure, "catches up via
\* heartbeat-driven RefreshMembership" (metadata_store.cpp:224), for the ring
\* of the object it serves with: when its epoch is the last one, so that
\* heartbeats bring nothing new, and nothing else is on its way to it, its
\* ring is the last one too.
RingCaughtUp ==
  \A n \in up :
    /\ epoch(n) = cluster.epoch
    /\ \A r \in reconfigures : r.to # n
    /\ \A t \in refreshing \cup applying : t.node # n
    => ring[n][cluster.mode] = ring_of(cluster)

==============================================================================

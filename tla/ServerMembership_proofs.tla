------------------------ MODULE ServerMembership_proofs ------------------------
(***************************************************************************)
(* How the servers follow the metadata store, for every set of servers and *)
(* of modes, any number of failures, joins and changes of mode: an epoch   *)
(* names one configuration, a protocol object is never ahead of its        *)
(* server, and a server sends its pending writes again once per epoch.     *)
(*                                                                         *)
(* The argument: the store gives a new epoch to every configuration, and   *)
(* all there is under way and installed are configurations it has issued.  *)
(* The threads of a server and what they leave behind never have a newer   *)
(* epoch than its state, so that the one thread that brings a newer epoch  *)
(* is the first to have it.                                                *)
(***************************************************************************)
EXTENDS ServerMembership, FiniteSetTheorems, SequenceTheorems, TLAPS

Via == {"boot", "heartbeat", "rpc", "Reconfigure"}

\* The configurations issued so far are told apart by their epochs.
IssuedInv ==
  /\ cluster \in issued
  /\ \A config \in issued : /\ config.epoch \in Nat \ {0}
                            /\ config.epoch <= cluster.epoch
  /\ \A config, other \in issued : config.epoch = other.epoch => config = other

\* Whatever is on its way, or installed, was issued.
Known == issued \cup {NoConfig}

Underway ==
  /\ \A r \in reconfigures : r.config \in issued
  /\ refreshing \subseteq [node : Server, config : issued, via : Via]
  /\ applying \subseteq [node : Server, config : issued, advanced : BOOLEAN,
                         via : Via, left : Seq(Mode) \ {<<>>}, half : BOOLEAN]
  /\ state \in [Server -> [status : {"STARTING", "NORMAL"}, config : Known]]

\* The objects of a server were given a membership and an epoch by threads
\* that its state is not behind of.
Ring == [members : {config.members : config \in Known}, epoch : Nat]

RingInv ==
  /\ ring \in [Server -> [Mode -> Ring]]
  /\ \A n \in Server, m \in Mode :
       /\ ring[n][m].epoch <= epoch(n)
       /\ \E config \in Known :
            config.epoch <= epoch(n) /\ config.members = ring[n][m].members

Booting(r) == r.via = "boot"

\* A server that is down has no state, and at most one boot on its way.
BootInv ==
  /\ up \subseteq Server
  /\ \A n \in Server : n \notin up => epoch(n) = 0
  /\ \A r \in refreshing : Booting(r) <=> r.node \notin up
  /\ \A r, q \in refreshing : Booting(r) /\ q.node = r.node => q = r

ThreadInv ==
  /\ \A t \in applying : t.node \in up /\ t.config.epoch <= epoch(t.node)
  /\ reforwarded \in [Server -> SUBSET Nat]
  /\ \A n \in Server : \A e \in reforwarded[n] : e <= epoch(n)

Inv ==
  IssuedInv /\ Underway /\ RingInv /\ BootInv /\ ThreadInv /\ ReforwardedOnce

-----------------------------------------------------------------------------
\* A new configuration has an epoch of its own.
LEMMA MoveToIssues ==
  ASSUME IssuedInv, \A r \in reconfigures : r.config \in issued,
         NEW members, NEW mode, MoveTo(members, mode)
  PROVE  /\ IssuedInv' /\ issued \subseteq issued'
         /\ \A r \in reconfigures' : r.config \in issued'
<1> DEFINE new == [epoch |-> cluster.epoch + 1, mode |-> mode,
                   members |-> members]
<1>1. /\ cluster' = new /\ issued' = issued \cup {new}
      /\ reconfigures' = reconfigures \cup
           {[to |-> n, config |-> new] : n \in Range(members)}
  BY DEF MoveTo
<1>2. cluster.epoch \in Nat \ {0} /\ new.epoch = cluster.epoch + 1
  BY DEF IssuedInv
<1> HIDE DEF new
<1>3. \A config \in issued : config.epoch # new.epoch
  BY <1>2 DEF IssuedInv
<1>4. IssuedInv'
  BY <1>1, <1>2, <1>3 DEF IssuedInv
<1>5. \A r \in reconfigures' : r.config \in issued'
  BY <1>1
<1> QED
  BY <1>1, <1>4, <1>5

\* Epochs of known configurations are numbers, and tell them apart.
LEMMA KnownEpochs ==
  ASSUME IssuedInv
  PROVE  /\ \A config \in Known : config.epoch \in Nat
         /\ \A config, other \in Known :
              config.epoch = other.epoch => config = other
<1>1. NoConfig.epoch = 0
  BY DEF NoConfig
<1> QED
  BY <1>1 DEF IssuedInv, Known

LEMMA ServerEpochs ==
  ASSUME IssuedInv, Underway
  PROVE  \A n \in Server : epoch(n) \in Nat /\ state[n].config \in Known
BY KnownEpochs DEF Underway, epoch

\* Nothing happens to the servers but a configuration read or issued.
LEMMA ServersRest ==
  ASSUME Inv, IssuedInv', issued \subseteq issued',
         \A r \in reconfigures' : r.config \in issued',
         refreshing' \subseteq [node : Server, config : issued', via : Via],
         BootInv',
         UNCHANGED <<up, state, ring, applying, reforwarded>>
  PROVE  Inv'
<1>1. Known \subseteq Known'
  BY DEF Known
<1>2. Underway'
  BY <1>1 DEF Inv, Underway
<1>3. RingInv'
  BY <1>1 DEF Inv, RingInv, Ring, epoch
<1>4. ThreadInv'
  BY DEF Inv, ThreadInv, epoch
<1>5. ReforwardedOnce'
  BY DEF Inv, ReforwardedOnce
<1> QED
  BY <1>2, <1>3, <1>4, <1>5 DEF Inv

\* A server takes a configuration no older than its own.
LEMMA InstallKeeps ==
  ASSUME Inv, NEW n \in up, n \in Server, NEW config \in issued,
         config.epoch >= epoch(n),
         NEW via \in Via, NEW status \in {"STARTING", "NORMAL"},
         Install(n, config, status, via),
         reconfigures' \subseteq reconfigures, refreshing' \subseteq refreshing,
         UNCHANGED <<cluster, issued, up, ring, reforwarded>>
  PROVE  Inv'
<1> DEFINE t == [node |-> n, config |-> config,
                 advanced |-> config.epoch > epoch(n), via |-> via,
                 left |-> ModeOrder, half |-> FALSE]
<1>0. /\ IssuedInv /\ Underway /\ RingInv
      /\ BootInv /\ ThreadInv /\ ReforwardedOnce
  BY DEF Inv
<1>1. /\ state' = [state EXCEPT ![n] = [status |-> status, config |-> config]]
      /\ applying' = applying \cup {t}
  BY DEF Install
<1>2. /\ t.node = n /\ t.config = config
      /\ t.advanced => config.epoch > epoch(n)
  OBVIOUS
<1>3. t \in [node : Server, config : issued, advanced : BOOLEAN, via : Via,
             left : Seq(Mode) \ {<<>>}, half : BOOLEAN]
  <2>1. ModeOrder \in Seq(Mode)
    BY MetadataAssumption
  <2>2. ModeOrder # <<>>
    BY MetadataAssumption DEF Mode, Range
  <2> QED
    BY <2>1, <2>2
<1> HIDE DEF t
<1>4. IssuedInv' /\ Known' = Known
  BY <1>0 DEF IssuedInv, Known
<1>5. Underway'
  <2>1. state' \in [Server -> [status : {"STARTING", "NORMAL"},
                               config : Known]]
    BY <1>0, <1>1 DEF Underway, Known
  <2> QED
    BY <1>0, <1>1, <1>3, <1>4, <2>1 DEF Underway
<1>6. /\ config.epoch \in Nat
      /\ \A m \in Server : epoch(m) \in Nat
      /\ \A u \in applying : u.config.epoch \in Nat /\ u.node \in Server
  BY <1>0, ServerEpochs DEF Underway, IssuedInv
<1>7. /\ \A m \in Server : epoch(m)' = IF m = n THEN config.epoch ELSE epoch(m)
      /\ \A m \in Server : epoch(m)' \in Nat /\ epoch(m)' >= epoch(m)
  BY <1>0, <1>1, <1>6 DEF Underway, epoch
<1>8. RingInv'
  <2>1. \A m \in Server, o \in Mode : ring[m][o].epoch \in Nat
    BY <1>0 DEF RingInv, Ring
  <2>2. \A c \in Known : c.epoch \in Nat
    BY <1>0, KnownEpochs
  <2>3. ASSUME NEW m \in Server, NEW o \in Mode
        PROVE  /\ ring[m][o].epoch <= epoch(m)'
               /\ \E c \in Known : /\ c.epoch <= epoch(m)'
                                   /\ c.members = ring[m][o].members
    BY <1>0, <1>6, <1>7, <2>1, <2>2 DEF RingInv
  <2> QED
    BY <1>0, <1>4, <2>3 DEF RingInv, Ring, epoch
<1>9. ThreadInv'
  <2>1. \A u \in applying' : u.node \in up /\ u.config.epoch <= epoch(u.node)'
    BY <1>0, <1>1, <1>2, <1>6, <1>7 DEF ThreadInv
  <2>2. \A m \in Server : \A e \in reforwarded[m] : e <= epoch(m)'
    BY <1>0, <1>6, <1>7 DEF ThreadInv
  <2>3. \A u \in applying' : u.config.epoch <= state'[u.node].config.epoch
    BY <2>1 DEF epoch
  <2> QED
    BY <1>0, <2>1, <2>2, <2>3 DEF ThreadInv, epoch
<1>11. BootInv'
  <2>1. \A m \in Server : m \notin up => epoch(m)' = 0
    BY <1>0, <1>7 DEF BootInv
  <2> QED
    BY <1>0, <2>1 DEF BootInv, epoch
\* A thread with a newer epoch is the first to have it.
<1>10. ReforwardedOnce'
  <2>1. CASE ~ t.advanced
    BY <1>0, <1>1, <2>1 DEF ReforwardedOnce
  <2>2. CASE t.advanced
    <3>1. config.epoch > epoch(n)
      BY <1>2, <2>2
    <3>2. \A u \in applying : u.node = n => u.config.epoch # config.epoch
      BY <1>0, <1>6, <3>1 DEF ThreadInv
    <3>3. config.epoch \notin reforwarded[n]
      BY <1>0, <1>6, <3>1 DEF ThreadInv
    <3> QED
      BY <1>0, <1>1, <1>2, <3>2, <3>3 DEF ReforwardedOnce
  <2> QED
    BY <2>1, <2>2
<1> QED
  BY <1>4, <1>5, <1>8, <1>9, <1>10, <1>11 DEF Inv

\* A thread goes on: what it installs was issued, and its server's state is
\* no older.
LEMMA ThreadFields ==
  ASSUME Inv, NEW t \in applying
  PROVE  /\ t.node \in Server /\ t.node \in up
         /\ t.config \in issued /\ t.config \in Known
         /\ t.config.epoch \in Nat /\ epoch(t.node) \in Nat
         /\ t.config.epoch <= epoch(t.node)
         /\ t.left \in Seq(Mode) /\ t.left # <<>> /\ Head(t.left) \in Mode
<1>1. /\ IssuedInv /\ Underway /\ ThreadInv
  BY DEF Inv
<1>2. /\ t.node \in Server /\ t.config \in issued
      /\ t.left \in Seq(Mode) /\ t.left # <<>>
  BY <1>1 DEF Underway
<1>3. Head(t.left) \in Mode
  BY <1>2
<1>4. t.config \in Known /\ t.config.epoch \in Nat /\ epoch(t.node) \in Nat
  BY <1>1, <1>2, ServerEpochs, KnownEpochs DEF Known
<1>5. t.node \in up /\ t.config.epoch <= epoch(t.node)
  BY <1>1 DEF ThreadInv
<1> QED
  BY <1>2, <1>3, <1>4, <1>5

LEMMA RingKeeps ==
  ASSUME Inv, NEW n \in Server, NEW m \in Mode, NEW config \in Known,
         config.epoch <= epoch(n),
         \/ ring' = [ring EXCEPT ![n][m].members = config.members]
         \/ ring' = [ring EXCEPT ![n][m].epoch = config.epoch],
         issued' = issued, \A o \in Server : epoch(o)' = epoch(o)
  PROVE  RingInv'
<1>1. IssuedInv /\ RingInv /\ Known' = Known
  BY DEF Inv, Known
<1>2. config.epoch \in Nat
  BY <1>1, KnownEpochs
<1>3. ring' \in [Server -> [Mode -> Ring]]
  <2>1. ring \in [Server -> [Mode -> Ring]] /\ ring[n] \in [Mode -> Ring]
    BY <1>1 DEF RingInv
  <2>2. /\ [ring[n][m] EXCEPT !.members = config.members] \in Ring
        /\ [ring[n][m] EXCEPT !.epoch = config.epoch] \in Ring
    BY <1>2, <2>1 DEF Ring
  <2> QED
    BY <2>1, <2>2
<1>4. ASSUME NEW o \in Server, NEW p \in Mode
      PROVE  /\ ring'[o][p].epoch <= epoch(o)
             /\ \E c \in Known : /\ c.epoch <= epoch(o)
                                 /\ c.members = ring'[o][p].members
  <2>1. CASE ring' = [ring EXCEPT ![n][m].members = config.members]
    <3>1. /\ ring'[o][p].epoch = ring[o][p].epoch
          /\ ring'[o][p].members = IF o = n /\ p = m THEN config.members
                                   ELSE ring[o][p].members
      BY <1>1, <2>1 DEF RingInv, Ring
    <3> QED
      BY <1>1, <3>1 DEF RingInv
  <2>2. CASE ring' = [ring EXCEPT ![n][m].epoch = config.epoch]
    <3>1. /\ ring'[o][p].members = ring[o][p].members
          /\ ring'[o][p].epoch = IF o = n /\ p = m THEN config.epoch
                                 ELSE ring[o][p].epoch
      BY <1>1, <2>2 DEF RingInv, Ring
    <3> QED
      BY <1>1, <3>1 DEF RingInv
  <2> QED
    BY <2>1, <2>2
<1>5. /\ \A o \in Server, p \in Mode : ring'[o][p].epoch <= epoch(o)'
      /\ \A o \in Server, p \in Mode : \E c \in Known :
           c.epoch <= epoch(o)' /\ c.members = ring'[o][p].members
  BY <1>4
<1> QED
  BY <1>1, <1>3, <1>5 DEF RingInv, Ring, epoch

LEMMA ThreadGoesOn ==
  ASSUME Inv, NEW t \in applying,
         NEW u \in [node : Server, config : issued, advanced : BOOLEAN,
                    via : Via, left : Seq(Mode) \ {<<>>}, half : BOOLEAN],
         u.node = t.node, u.config = t.config, u.advanced = t.advanced,
         Goes(t, u), RingInv',
         UNCHANGED <<cluster, issued, reconfigures, refreshing, up, state,
                     reforwarded>>
  PROVE  Inv'
<1>0. /\ IssuedInv /\ Underway /\ RingInv
      /\ BootInv /\ ThreadInv /\ ReforwardedOnce
  BY DEF Inv
<1>1. applying' = (applying \ {t}) \cup {u}
  BY DEF Goes
<1>2. IssuedInv' /\ Known' = Known
  BY <1>0 DEF IssuedInv, Known
<1>3. Underway'
  BY <1>0, <1>1, <1>2 DEF Underway
<1>4. BootInv' /\ ThreadInv'
  BY <1>0, <1>1 DEF BootInv, ThreadInv, epoch
<1>5. ReforwardedOnce'
  BY <1>0, <1>1 DEF ReforwardedOnce
<1> QED
  BY <1>2, <1>3, <1>4, <1>5 DEF Inv

LEMMA ThreadEnds ==
  ASSUME Inv, NEW t \in applying, FinishApply(t),
         ring' = [ring EXCEPT ![t.node][Head(t.left)].epoch = t.config.epoch],
         UNCHANGED <<cluster, issued, reconfigures, refreshing, up>>
  PROVE  Inv'
<1>0. /\ IssuedInv /\ Underway /\ RingInv
      /\ BootInv /\ ThreadInv /\ ReforwardedOnce
  BY DEF Inv
<1>a. /\ t.node \in Server /\ t.config \in Known /\ t.config.epoch \in Nat
      /\ t.config.epoch <= epoch(t.node) /\ Head(t.left) \in Mode
  BY ThreadFields
<1>1. IssuedInv' /\ Known' = Known
  BY <1>0 DEF IssuedInv, Known
<1>2. applying' = applying \ {t}
  BY DEF FinishApply
<1>3. state' = state \/ state' = [state EXCEPT ![t.node].status = "NORMAL"]
  BY DEF FinishApply
<1>4. /\ state' \in [Server -> [status : {"STARTING", "NORMAL"},
                               config : Known]]
      /\ \A n \in Server : state'[n].config = state[n].config
  <2>1. state \in [Server -> [status : {"STARTING", "NORMAL"},
                             config : Known]]
    BY <1>0 DEF Underway
  <2>2. CASE state' = state
    BY <2>1, <2>2
  <2>3. CASE state' = [state EXCEPT ![t.node].status = "NORMAL"]
    <3>1. [state[t.node] EXCEPT !.status = "NORMAL"] \in
            [status : {"STARTING", "NORMAL"}, config : Known]
      BY <2>1, <1>a
    <3>2. [state[t.node] EXCEPT !.status = "NORMAL"].config
            = state[t.node].config
      BY <2>1, <1>a
    <3> QED
      BY <2>1, <2>3, <3>1, <3>2, <1>a
  <2> QED
    BY <1>3, <2>2, <2>3
<1>5. \A n \in Server : epoch(n)' = epoch(n)
  BY <1>4 DEF epoch
<1>6. Underway'
  BY <1>0, <1>1, <1>2, <1>4 DEF Underway
<1>7. RingInv'
  BY <1>5, <1>a, RingKeeps
<1>8. BootInv'
  <2>1. \A n \in Server : n \notin up => epoch(n)' = 0
    BY <1>0, <1>5 DEF BootInv
  <2> QED
    BY <1>0, <2>1 DEF BootInv, epoch
<1>9. /\ reforwarded' \in [Server -> SUBSET Nat]
      /\ \A n \in Server : \A e \in reforwarded'[n] : e <= epoch(n)
      /\ \A n \in Server : \A e \in reforwarded'[n] :
           \/ e \in reforwarded[n]
           \/ t.advanced /\ n = t.node /\ e = t.config.epoch
  BY <1>0, <1>a DEF FinishApply, ThreadInv
<1>10. ThreadInv'
  <2>1. \A u \in applying' : u.node \in up /\ u.config.epoch <= epoch(u.node)
    BY <1>0, <1>2 DEF ThreadInv
  <2>2. \A u \in applying' : u.node \in Server
    BY <1>0, <1>2 DEF Underway
  <2>3. /\ \A u \in applying' : u.config.epoch <= epoch(u.node)'
        /\ \A n \in Server : \A e \in reforwarded'[n] : e <= epoch(n)'
    BY <1>5, <1>9, <2>1, <2>2
  <2> QED
    BY <1>9, <2>1, <2>3 DEF ThreadInv, epoch
<1>11. ReforwardedOnce'
  <2>1. \A u \in applying' : u \in applying /\ u # t /\ u.node \in Server
    BY <1>0, <1>2 DEF Underway
  <2>2. ASSUME NEW u \in applying', u.advanced
        PROVE  u.config.epoch \notin reforwarded'[u.node]
    BY <1>0, <1>9, <2>1, <2>2 DEF ReforwardedOnce
  <2> QED
    BY <1>0, <2>1, <2>2 DEF ReforwardedOnce
<1> QED
  BY <1>1, <1>6, <1>7, <1>8, <1>10, <1>11 DEF Inv

\* A server starts with a configuration, or loses everything.
LEMMA ServerReset ==
  ASSUME Inv, NEW n \in Server, NEW config \in Known,
         NEW status \in {"STARTING", "NORMAL"},
         state' = [state EXCEPT ![n] = [status |-> status, config |-> config]],
         ring' = [ring EXCEPT ![n] = [m \in Mode |-> ring_of(config)]],
         applying' = {t \in applying : t.node # n},
         refreshing' \subseteq refreshing,
         \/ reforwarded' = [reforwarded EXCEPT ![n] = {}]
         \/ n \notin up /\ reforwarded' = reforwarded,
         BootInv',
         \A m \in Server : m # n => (m \in up' <=> m \in up),
         UNCHANGED <<cluster, issued, reconfigures>>
  PROVE  Inv'
<1>0. /\ IssuedInv /\ Underway /\ RingInv
      /\ BootInv /\ ThreadInv /\ ReforwardedOnce
  BY DEF Inv
<1>1. IssuedInv' /\ Known' = Known
  BY <1>0 DEF IssuedInv, Known
<1>2. /\ state' \in [Server -> [status : {"STARTING", "NORMAL"},
                               config : Known]]
      /\ \A m \in Server : epoch(m)' = IF m = n THEN config.epoch ELSE epoch(m)
  BY <1>0 DEF Underway, epoch
<1>3. Underway'
  BY <1>0, <1>1, <1>2 DEF Underway
<1>4. /\ config.epoch \in Nat
      /\ ring_of(config).epoch = config.epoch
      /\ ring_of(config).members = config.members
  BY <1>0, KnownEpochs DEF ring_of
<1>5. RingInv'
  <2>1. ring_of(config) \in Ring
    BY <1>4 DEF ring_of, Ring
  <2>2. ring' \in [Server -> [Mode -> Ring]]
    BY <1>0, <2>1 DEF RingInv
  <2>3. \A m \in Server, o \in Mode :
          ring'[m][o] = IF m = n THEN ring_of(config) ELSE ring[m][o]
    BY <1>0 DEF RingInv
  <2>4. ASSUME NEW m \in Server, NEW o \in Mode
        PROVE  /\ ring'[m][o].epoch <= epoch(m)'
               /\ \E c \in Known : /\ c.epoch <= epoch(m)'
                                   /\ c.members = ring'[m][o].members
    <3>1. CASE m = n
      <4>1. /\ epoch(m)' = config.epoch /\ ring'[m][o] = ring_of(config)
        BY <1>2, <2>3, <3>1
      <4>2. config.epoch <= config.epoch
        BY <1>4
      <4> QED
        BY <1>0, <1>4, <4>1, <4>2
    <3>2. CASE m # n
      <4>1. epoch(m)' = epoch(m) /\ ring'[m][o] = ring[m][o]
        BY <1>2, <2>3, <3>2
      <4> QED
        BY <1>0, <4>1 DEF RingInv
    <3> QED
      BY <3>1, <3>2
  <2> QED
    BY <1>1, <2>2, <2>4 DEF RingInv, Ring, epoch
<1>6. /\ reforwarded' \in [Server -> SUBSET Nat]
      /\ \A m \in Server : \A e \in reforwarded'[m] :
           e \in reforwarded[m] /\ (m = n => e = 0 /\ n \notin up)
  BY <1>0 DEF ThreadInv, BootInv
<1>7. ThreadInv'
  <2>1. \A m \in Server : \A e \in reforwarded'[m] : e <= epoch(m)'
    BY <1>0, <1>2, <1>4, <1>6 DEF ThreadInv
  <2>2. \A t \in applying' : /\ t \in applying /\ t.node \in Server
                             /\ t.node # n
    BY <1>0 DEF Underway
  <2>3. \A t \in applying' : t.node \in up' /\ t.config.epoch <= epoch(t.node)'
    BY <1>0, <1>2, <2>2 DEF ThreadInv
  <2> QED
    BY <1>6, <2>1, <2>3 DEF ThreadInv, epoch
<1>8. ReforwardedOnce'
  <2>1. \A t \in applying' : t \in applying /\ t.node \in Server
    BY <1>0 DEF Underway
  <2> QED
    BY <1>0, <1>6, <2>1 DEF ReforwardedOnce
<1> QED
  BY <1>1, <1>3, <1>5, <1>7, <1>8 DEF Inv

-----------------------------------------------------------------------------
\* The steps of the metadata store.
LEMMA MetadataStepKeeps == Inv /\ MetadataStep => Inv'
<1> SUFFICES ASSUME Inv, MetadataStep PROVE Inv'
  OBVIOUS
<1>0. /\ IssuedInv /\ Underway /\ BootInv
      /\ UNCHANGED <<up, state, ring, refreshing, applying, reforwarded>>
  BY DEF Inv, MetadataStep, serverVars
<1>1. \/ UNCHANGED <<cluster, issued, reconfigures>>
      \/ \E members, mode : MoveTo(members, mode)
  BY DEF MetadataStep, SetMode, TriggerModeChange, MonitorFailures,
         TriggerReconfigureRemove, TriggerReconfigureAdd
<1>2. /\ IssuedInv' /\ issued \subseteq issued'
      /\ \A r \in reconfigures' : r.config \in issued'
  <2>1. CASE UNCHANGED <<cluster, issued, reconfigures>>
    BY <1>0, <2>1 DEF IssuedInv, Underway
  <2>2. CASE \E members, mode : MoveTo(members, mode)
    BY <1>0, <2>2, MoveToIssues DEF Underway
  <2> QED
    BY <1>1, <2>1, <2>2
<1>3. BootInv'
  BY <1>0 DEF BootInv, epoch
<1>4. refreshing' \subseteq [node : Server, config : issued', via : Via]
  BY <1>0, <1>2 DEF Underway
<1> QED
  BY <1>0, <1>2, <1>3, <1>4, ServersRest

\* A configuration is read, or dropped, or nothing happens to the servers.
LEMMA ReadKeeps ==
  ASSUME Inv,
         \/ refreshing' \subseteq refreshing
         \/ \E n \in Server, via \in Via :
              /\ refreshing' = refreshing \cup
                   {[node |-> n, config |-> cluster, via |-> via]}
              /\ via = "boot" => /\ n \notin up
                                 /\ \A r \in refreshing : r.node # n
              /\ via # "boot" => n \in up,
         \A r \in reconfigures' : r.config \in issued,
         UNCHANGED <<cluster, issued, up, state, ring, applying, reforwarded>>
  PROVE  Inv'
<1>0. IssuedInv /\ Underway /\ BootInv
  BY DEF Inv
<1>1. IssuedInv' /\ cluster \in issued
  BY <1>0 DEF IssuedInv
<1>2. CASE refreshing' \subseteq refreshing
  <2>1. refreshing' \subseteq [node : Server, config : issued', via : Via]
    BY <1>0, <1>2 DEF Underway
  <2>2. BootInv'
    BY <1>0, <1>2 DEF BootInv, epoch
  <2> QED
    BY <1>1, <2>1, <2>2, ServersRest
<1>3. ASSUME NEW n \in Server, NEW via \in Via,
             refreshing' = refreshing \cup
               {[node |-> n, config |-> cluster, via |-> via]},
             via = "boot" => n \notin up /\ \A r \in refreshing : r.node # n,
             via # "boot" => n \in up
      PROVE  Inv'
  <2> DEFINE new == [node |-> n, config |-> cluster, via |-> via]
  <2>1. /\ new \in [node : Server, config : issued, via : Via]
        /\ new.node = n /\ (Booting(new) <=> via = "boot")
    BY <1>1 DEF Booting
  <2>2. refreshing' = refreshing \cup {new}
    BY <1>3
  <2> HIDE DEF new
  <2>3. refreshing' \subseteq [node : Server, config : issued', via : Via]
    BY <1>0, <2>1, <2>2 DEF Underway
  <2>4. \A r \in refreshing' : Booting(r) <=> r.node \notin up
    BY <1>0, <1>3, <2>1, <2>2 DEF BootInv
  <2>5. \A r, q \in refreshing' : Booting(r) /\ q.node = r.node => q = r
    BY <1>0, <1>3, <2>1, <2>2 DEF BootInv
  <2>6. BootInv'
    BY <1>0, <2>4, <2>5 DEF BootInv, epoch, Booting
  <2> QED
    BY <1>1, <2>3, <2>6, ServersRest
<1> QED
  BY <1>2, <1>3

LEMMA BootKeeps ==
  ASSUME Inv, NEW r \in refreshing, Boot(r)
  PROVE  Inv'
<1>0. IssuedInv /\ Underway /\ BootInv /\ ThreadInv
  BY DEF Inv
<1> DEFINE n == r.node
<1>1. /\ n \in Server /\ r.config \in issued /\ r.config \in Known
      /\ Booting(r) /\ n \notin up
  BY <1>0 DEF Underway, Known, Boot, Booting, BootInv
<1>2. /\ refreshing' = refreshing \ {r} /\ up' = up \cup {n}
      /\ state' = [state EXCEPT ![n] =
                     [status |-> "NORMAL", config |-> r.config]]
      /\ ring' = [ring EXCEPT ![n] = [m \in Mode |-> ring_of(r.config)]]
      /\ UNCHANGED <<applying, reforwarded, cluster, issued, reconfigures>>
  BY DEF Boot, metadataVars
<1> HIDE DEF n
<1>3. applying' = {t \in applying : t.node # n}
  BY <1>0, <1>1, <1>2 DEF ThreadInv
<1>4. BootInv'
  <2>1. \A m \in Server : m # n => epoch(m)' = epoch(m)
    BY <1>0, <1>2 DEF Underway, epoch
  <2>2. \A q \in refreshing' : q \in refreshing /\ q.node # n
    BY <1>0, <1>1, <1>2 DEF BootInv, n
  <2>3. \A m \in Server : m \notin up' => epoch(m)' = 0
    BY <1>0, <1>2, <2>1 DEF BootInv
  <2> QED
    BY <1>0, <1>1, <1>2, <2>2, <2>3 DEF BootInv, epoch
<1> QED
  BY <1>1, <1>2, <1>3, <1>4, ServerReset

LEMMA CrashKeeps ==
  ASSUME Inv, NEW n \in Server, Crash(n)
  PROVE  Inv'
<1>0. IssuedInv /\ Underway /\ BootInv /\ ThreadInv
  BY DEF Inv
<1>1. NoConfig \in Known
  BY DEF Known
<1>2. /\ n \in up /\ up' = up \ {n}
      /\ state' = [state EXCEPT ![n] =
                     [status |-> "STARTING", config |-> NoConfig]]
      /\ ring' = [ring EXCEPT ![n] = [m \in Mode |-> ring_of(NoConfig)]]
      /\ refreshing' = {r \in refreshing : r.node # n}
      /\ applying' = {t \in applying : t.node # n}
      /\ reforwarded' = [reforwarded EXCEPT ![n] = {}]
      /\ UNCHANGED <<cluster, issued, reconfigures>>
  BY DEF Crash, metadataVars
<1>3. BootInv'
  <2>1. /\ \A m \in Server : m # n => epoch(m)' = epoch(m)
        /\ epoch(n)' = 0
    BY <1>0, <1>2 DEF Underway, epoch, NoConfig
  <2>2. \A m \in Server : m \notin up' => epoch(m)' = 0
    BY <1>0, <1>2, <2>1 DEF BootInv
  <2> QED
    BY <1>0, <1>2, <2>2 DEF BootInv, epoch
<1> QED
  BY <1>1, <1>2, <1>3, ServerReset

LEMMA BootAloneKeeps ==
  ASSUME Inv, NEW n \in Server, BootAlone(n)
  PROVE  Inv'
<1>0. /\ IssuedInv /\ Underway /\ RingInv
      /\ BootInv /\ ThreadInv /\ ReforwardedOnce
  BY DEF Inv
<1>1. /\ n \notin up /\ up' = up \cup {n}
      /\ \A r \in refreshing : r.node # n
      /\ UNCHANGED <<state, ring, refreshing, applying, reforwarded, cluster,
                     issued, reconfigures>>
  BY DEF BootAlone, metadataVars
<1>2. IssuedInv' /\ Underway' /\ RingInv' /\ ReforwardedOnce'
  BY <1>0, <1>1
  DEF IssuedInv, Underway, RingInv, Ring, ReforwardedOnce, Known, epoch
<1>3. BootInv' /\ ThreadInv'
  BY <1>0, <1>1 DEF BootInv, ThreadInv, epoch
<1> QED
  BY <1>2, <1>3 DEF Inv

LEMMA EmptyLength == Len(<<>>) = 0
OBVIOUS

LEMMA LongerTail ==
  ASSUME NEW S, NEW s \in Seq(S), Len(s) > 1
  PROVE  Tail(s) \in Seq(S) \ {<<>>}
<1>1. Tail(s) \in Seq(S) /\ Len(Tail(s)) = Len(s) - 1
  OBVIOUS
<1>2. Len(Tail(s)) # 0
  BY <1>1
<1>3. Tail(s) # <<>>
  BY <1>2, EmptyLength
<1> QED
  BY <1>1, <1>3

LEMMA ThreadStepKeeps ==
  ASSUME Inv, NEW t \in applying, ThreadStep(t)
  PROVE  Inv'
<1>0. Underway
  BY DEF Inv
<1>1. /\ t.node \in Server /\ t.config \in Known /\ Head(t.left) \in Mode
      /\ t.config.epoch <= epoch(t.node)
      /\ t.left \in Seq(Mode) /\ t.left # <<>>
  BY ThreadFields
<1>2. t \in [node : Server, config : issued, advanced : BOOLEAN,
             via : Via, left : Seq(Mode) \ {<<>>}, half : BOOLEAN]
  BY <1>0 DEF Underway
<1>3. CASE update_membership(t)
  <2> DEFINE u == [t EXCEPT !.half = TRUE]
  <2>1. /\ ring' = [ring EXCEPT ![t.node][Head(t.left)].members =
                      t.config.members]
        /\ Goes(t, u)
        /\ UNCHANGED <<up, state, refreshing, reforwarded, cluster, issued,
                       reconfigures>>
    BY <1>3 DEF update_membership, metadataVars
  <2>2. /\ u \in [node : Server, config : issued, advanced : BOOLEAN,
                  via : Via, left : Seq(Mode) \ {<<>>}, half : BOOLEAN]
        /\ u.node = t.node /\ u.config = t.config /\ u.advanced = t.advanced
    BY <1>2
  <2> HIDE DEF u
  <2>3. RingInv'
    BY <1>1, <2>1, RingKeeps DEF epoch
  <2> QED
    BY <2>1, <2>2, <2>3, ThreadGoesOn
<1>4. CASE set_epoch(t) /\ Len(t.left) > 1
  <2> DEFINE u == [t EXCEPT !.half = FALSE, !.left = Tail(@)]
  <2>1. /\ ring' = [ring EXCEPT ![t.node][Head(t.left)].epoch = t.config.epoch]
        /\ Goes(t, u)
        /\ UNCHANGED <<up, state, refreshing, reforwarded, cluster, issued,
                       reconfigures>>
    BY <1>4 DEF set_epoch, metadataVars
  <2>2. Tail(t.left) \in Seq(Mode) \ {<<>>}
    BY <1>1, <1>4, LongerTail
  <2>3. /\ u \in [node : Server, config : issued, advanced : BOOLEAN,
                  via : Via, left : Seq(Mode) \ {<<>>}, half : BOOLEAN]
        /\ u.node = t.node /\ u.config = t.config /\ u.advanced = t.advanced
    BY <1>2, <2>2
  <2> HIDE DEF u
  <2>4. RingInv'
    BY <1>1, <2>1, RingKeeps DEF epoch
  <2> QED
    BY <2>1, <2>3, <2>4, ThreadGoesOn
<1>5. CASE set_epoch(t) /\ ~ (Len(t.left) > 1)
  <2>1. /\ ring' = [ring EXCEPT ![t.node][Head(t.left)].epoch = t.config.epoch]
        /\ FinishApply(t)
        /\ UNCHANGED <<up, refreshing, cluster, issued, reconfigures>>
    BY <1>5 DEF set_epoch, metadataVars
  <2> QED
    BY <2>1, ThreadEnds
<1> QED
  BY <1>3, <1>4, <1>5 DEF ThreadStep

\* The three handlers.
LEMMA HandlersKeep ==
  ASSUME Inv,
         \/ \E r \in reconfigures : Reconfigure(r)
         \/ \E r \in refreshing : RefreshMembership(r)
         \/ \E r \in refreshing : RefreshMembershipAsync(r)
  PROVE  Inv'
<1>0. IssuedInv /\ Underway /\ BootInv
  BY DEF Inv
<1>1. ASSUME NEW n \in up, NEW config \in issued, NEW via \in Via,
             NEW status \in {"STARTING", "NORMAL"},
             \/ UNCHANGED <<state, applying>>
             \/ config.epoch >= epoch(n) /\ Install(n, config, status, via),
             reconfigures' \subseteq reconfigures,
             refreshing' \subseteq refreshing,
             UNCHANGED <<cluster, issued, up, ring, reforwarded>>
      PROVE  Inv'
  <2>1. n \in Server
    BY <1>0 DEF BootInv
  <2>2. CASE UNCHANGED <<state, applying>>
    <3>1. \A r \in reconfigures' : r.config \in issued
      BY <1>0, <1>1 DEF Underway
    <3> QED
      BY <1>1, <2>2, <3>1, ReadKeeps
  <2>3. CASE config.epoch >= epoch(n) /\ Install(n, config, status, via)
    BY <1>1, <2>1, <2>3, InstallKeeps
  <2> QED
    BY <1>1, <2>2, <2>3
<1>2. \A n \in up : n \in Server /\ epoch(n) \in Nat
  BY <1>0, ServerEpochs DEF BootInv
<1>3. \A config \in issued : config.epoch \in Nat
  BY <1>0 DEF IssuedInv
<1>4. ASSUME NEW r \in reconfigures, Reconfigure(r)
      PROVE  Inv'
  <2>1. r.to \in up /\ r.config \in issued
    BY <1>0, <1>4 DEF Reconfigure, Underway
  <2>2. /\ \/ UNCHANGED <<state, applying>>
           \/ /\ ~ (r.config.epoch < epoch(r.to))
              /\ Install(r.to, r.config, state[r.to].status, "Reconfigure")
        /\ reconfigures' \subseteq reconfigures
        /\ UNCHANGED <<cluster, issued, up, ring, reforwarded, refreshing>>
    BY <1>4 DEF Reconfigure
  <2>3. state[r.to].status \in {"STARTING", "NORMAL"}
    BY <1>0, <1>2, <2>1 DEF Underway
  <2>4. "Reconfigure" \in Via
    BY DEF Via
  <2>5. \/ UNCHANGED <<state, applying>>
        \/ /\ r.config.epoch >= epoch(r.to)
           /\ Install(r.to, r.config, state[r.to].status, "Reconfigure")
    BY <1>2, <1>3, <2>1, <2>2
  <2> QED
    BY <1>1, <2>1, <2>2, <2>3, <2>4, <2>5
<1>5. ASSUME NEW r \in refreshing, r.via # "boot"
      PROVE  r.node \in up /\ r.config \in issued
  BY <1>0, <1>5 DEF BootInv, Booting, Underway
<1>6. ASSUME NEW r \in refreshing, RefreshMembership(r)
      PROVE  Inv'
  <2>1. r.node \in up /\ r.config \in issued
    BY <1>5, <1>6 DEF RefreshMembership
  <2>2. /\ \/ UNCHANGED <<state, applying>>
           \/ /\ ~ (r.config.epoch < epoch(r.node))
              /\ Install(r.node, r.config, "NORMAL", "heartbeat")
        /\ refreshing' \subseteq refreshing
        /\ UNCHANGED <<cluster, issued, up, ring, reforwarded, reconfigures>>
    BY <1>6 DEF RefreshMembership, metadataVars
  <2>3. "heartbeat" \in Via
    BY DEF Via
  <2>4. \/ UNCHANGED <<state, applying>>
        \/ /\ r.config.epoch >= epoch(r.node)
           /\ Install(r.node, r.config, "NORMAL", "heartbeat")
    BY <1>2, <1>3, <2>1, <2>2
  <2> QED
    BY <1>1, <2>1, <2>2, <2>3, <2>4
<1>7. ASSUME NEW r \in refreshing, RefreshMembershipAsync(r)
      PROVE  Inv'
  <2>1. r.node \in up /\ r.config \in issued
    BY <1>5, <1>7 DEF RefreshMembershipAsync
  <2>2. /\ \/ UNCHANGED <<state, applying>>
           \/ /\ ~ (r.config.epoch <= epoch(r.node))
              /\ Install(r.node, r.config, state[r.node].status, "rpc")
        /\ refreshing' \subseteq refreshing
        /\ UNCHANGED <<cluster, issued, up, ring, reforwarded, reconfigures>>
    BY <1>7 DEF RefreshMembershipAsync, metadataVars
  <2>3. state[r.node].status \in {"STARTING", "NORMAL"} /\ "rpc" \in Via
    BY <1>0, <1>2, <2>1 DEF Underway, Via
  <2>4. \/ UNCHANGED <<state, applying>>
        \/ /\ r.config.epoch >= epoch(r.node)
           /\ Install(r.node, r.config, state[r.node].status, "rpc")
    BY <1>2, <1>3, <2>1, <2>2
  <2> QED
    BY <1>1, <2>1, <2>2, <2>3, <2>4
<1> QED
  BY <1>4, <1>6, <1>7

LEMMA InvNext == Inv /\ [Next]_vars => Inv'
<1> SUFFICES ASSUME Inv, [Next]_vars PROVE Inv'
  OBVIOUS
<1>0. IssuedInv /\ Underway /\ BootInv
  BY DEF Inv
<1>1. CASE UNCHANGED vars
  BY <1>1, <1>0, ReadKeeps DEF vars, metadataVars, serverVars, Underway
<1>2. CASE MetadataStep
  BY <1>2, MetadataStepKeeps
<1>3. CASE \/ \E r \in reconfigures : Reconfigure(r)
           \/ \E r \in refreshing : FinishRefresh(r)
  BY <1>3, HandlersKeep, BootKeeps DEF FinishRefresh
<1>4. CASE \E t \in applying : ThreadStep(t)
  BY <1>4, ThreadStepKeeps
<1>5. CASE LoseReconfigure \/ \E n \in Server : FallSilent(n)
  <2>1. /\ \A r \in reconfigures' : r.config \in issued
        /\ UNCHANGED <<cluster, issued, up, state, ring, refreshing, applying,
                       reforwarded>>
    BY <1>0, <1>5 DEF LoseReconfigure, FallSilent, HeartbeatAges, Underway
  <2> QED
    BY <2>1, ReadKeeps
<1>6. ASSUME NEW n \in Server, BeginBoot(n) \/ HeartbeatLoop(n) \/ ReadForRpc(n)
      PROVE  Inv'
  <2>1. /\ UNCHANGED <<cluster, issued, up, state, ring, applying,
                       reforwarded, reconfigures>>
        /\ \/ refreshing' = refreshing
           \/ /\ n \in up
              /\ refreshing' = refreshing \cup
                   {[node |-> n, config |-> cluster, via |-> "heartbeat"]}
           \/ /\ n \in up
              /\ refreshing' = refreshing \cup
                   {[node |-> n, config |-> cluster, via |-> "rpc"]}
           \/ /\ n \notin up /\ \A r \in refreshing : r.node # n
              /\ refreshing' = refreshing \cup
                   {[node |-> n, config |-> cluster, via |-> "boot"]}
    BY <1>6 DEF BeginBoot, HeartbeatLoop, ReadForRpc, Heartbeat, metadataVars
  <2>2. /\ {"heartbeat", "rpc", "boot"} \subseteq Via
        /\ "heartbeat" # "boot" /\ "rpc" # "boot"
    BY DEF Via
  <2>3. \A r \in reconfigures' : r.config \in issued
    BY <1>0, <2>1 DEF Underway
  <2>4. CASE refreshing' = refreshing
    BY <2>1, <2>3, <2>4, ReadKeeps
  <2>5. CASE refreshing' # refreshing
    BY <2>1, <2>2, <2>3, <2>5, ReadKeeps
  <2> QED
    BY <2>4, <2>5
<1>7. ASSUME NEW n \in Server, BootAlone(n) \/ Crash(n)
      PROVE  Inv'
  BY <1>7, BootAloneKeeps, CrashKeeps
<1> QED
  BY <1>1, <1>2, <1>3, <1>4, <1>5, <1>6, <1>7 DEF Next

LEMMA InvInit == Init => Inv
<1> SUFFICES ASSUME Init PROVE Inv
  OBVIOUS
<1>1. /\ cluster.epoch = 1 /\ issued = {cluster} /\ reconfigures = {}
      /\ refreshing = {} /\ applying = {} /\ up = InitiallyUp
      /\ reforwarded = [n \in Server |-> {}]
  BY DEF Init, InitMetadata
<1>2. IssuedInv /\ cluster \in Known /\ NoConfig \in Known /\ NoConfig.epoch = 0
  BY <1>1 DEF IssuedInv, Known, NoConfig
<1>3. state \in [Server -> [status : {"STARTING", "NORMAL"}, config : Known]]
  BY <1>2 DEF Init
<1>4. Underway
  BY <1>1, <1>3 DEF Underway
<1>5. \A n \in Server, m \in Mode : /\ ring[n][m] = ring_of(state[n].config)
                                    /\ state[n].config \in Known
                                    /\ state[n].config.epoch \in Nat
  BY <1>2, <1>3, KnownEpochs DEF Init
<1>6. RingInv
  <2>1. ring \in [Server -> [Mode -> Ring]]
    <3>1. \A n \in Server : /\ state[n].config \in Known
                            /\ state[n].config.epoch \in Nat
      BY <1>2, <1>3, KnownEpochs
    <3>2. \A n \in Server : ring_of(state[n].config) \in Ring
      BY <3>1 DEF ring_of, Ring
    <3> QED
      BY <3>2 DEF Init
  <2> QED
    <3>1. ASSUME NEW n \in Server, NEW m \in Mode
          PROVE  /\ ring[n][m].epoch <= state[n].config.epoch
                 /\ \E config \in Known :
                      /\ config.epoch <= state[n].config.epoch
                      /\ config.members = ring[n][m].members
      <4>1. /\ ring[n][m].epoch = state[n].config.epoch
            /\ ring[n][m].members = state[n].config.members
        <5>1. \A x : ring_of(x).epoch = x.epoch /\ ring_of(x).members = x.members
          BY DEF ring_of
        <5> QED
          BY <1>5, <5>1
      <4>2. state[n].config.epoch <= state[n].config.epoch
        BY <1>5
      <4> QED
        BY <1>5, <4>1, <4>2
    <3> QED
      BY <2>1, <3>1 DEF RingInv, epoch
<1>7. BootInv
  BY <1>1, <1>2, MembershipAssumption DEF Init, BootInv, epoch
<1>8. ThreadInv /\ ReforwardedOnce
  BY <1>1 DEF ThreadInv, ReforwardedOnce
<1> QED
  BY <1>2, <1>4, <1>6, <1>7, <1>8 DEF Inv

LEMMA Invariant == Spec => []Inv
BY InvInit, InvNext, PTL DEF Spec

-----------------------------------------------------------------------------
\* Servers that are up and in the same epoch have the same mode and the same
\* members, however joins, removals and changes of mode race.
THEOREM EpochNamesConfig == Spec => []SameEpochSameConfig
<1>1. Inv => SameEpochSameConfig
  <2> SUFFICES ASSUME Inv PROVE SameEpochSameConfig
    OBVIOUS
  <2>1. IssuedInv /\ Underway /\ BootInv
    BY DEF Inv
  <2>2. \A n \in up : state[n].config \in Known
    BY <2>1, ServerEpochs DEF BootInv
  <2> QED
    BY <2>1, <2>2, KnownEpochs DEF SameEpochSameConfig, epoch
<1> QED
  BY Invariant, <1>1, PTL

\* No thread leaves a protocol object with an epoch or a ring newer than its
\* server's state.
THEOREM RingsNotAhead == Spec => []RingNotAhead
<1>1. Inv => RingNotAhead
  <2> SUFFICES ASSUME Inv, NEW n \in up, NEW m \in Mode
               PROVE  /\ ring[n][m].epoch <= epoch(n)
                      /\ ring[n][m].members # <<>> => \E config \in issued :
                           /\ config.epoch <= epoch(n)
                           /\ config.members = ring[n][m].members
    BY DEF RingNotAhead
  <2>1. RingInv /\ n \in Server
    BY DEF Inv, BootInv
  <2>2. NoConfig.members = <<>>
    BY DEF NoConfig
  <2> QED
    BY <2>1, <2>2 DEF RingInv, Known
<1> QED
  BY Invariant, <1>1, PTL

\* The pending writes of a server are sent again by one thread per epoch,
\* whichever of the three ways brings it, and brings it again.
THEOREM OneReforwardPerEpoch == Spec => []ReforwardedOnce
BY Invariant, PTL DEF Inv

-----------------------------------------------------------------------------
(***************************************************************************)
(* The types, and with them that the epochs come to an end with what makes *)
(* them: a change of mode is asked for, a server is added once, and who is *)
(* removed has crashed, or was silent, or was never up.                    *)
(***************************************************************************)
MetadataInv ==
  /\ last_heartbeat \in [Server -> {"none", "recent", "old"}]
  /\ failed \in Server \cup {NoServer}
  /\ modeThreads \in [Mode -> Nat] /\ \A m \in Mode : modeThreads[m] <= setModes
  /\ setModes \in 0..MaxModeChanges
  /\ joining \in BOOLEAN /\ (joining => Joiner # NoServer)
  /\ \A r \in reconfigures : r \in [to : Server, config : issued]
  /\ \A config \in issued : config \in Config /\ IsInjective(config.members)

ThreadTypes ==
  /\ \A r \in refreshing : r.via \in {"boot", "heartbeat", "rpc"}
  /\ \A t \in applying : t.via \in {"heartbeat", "rpc", "Reconfigure"}
  /\ \A n \in Server : 0 \notin reforwarded[n]
  /\ newerRpcs \in 0..MaxNewerRpcs
  /\ faults \in 0..MaxFaults

\* The changes of mode that are waiting, and the members that may yet be
\* removed without another fault.
Waiting == {w \in Mode \X (Nat \ {0}) : w[2] <= modeThreads[w[1]]}

Doomed == {n \in Range(cluster.members) :
             n \notin up \/ last_heartbeat[n] = "old" \/ failed = n}

CountInv ==
  /\ IsFiniteSet(Waiting) /\ IsFiniteSet(Doomed)
  /\ cluster.epoch + Cardinality(Waiting) + Cardinality(Doomed)
       + (IF joining THEN 2 ELSE 0)
     <= 1 + (IF Joiner = NoServer THEN 0 ELSE 2) + setModes + faults

TypeInv == Inv /\ MetadataInv /\ ThreadTypes /\ CountInv

LEMMA Bounds ==
  MaxModeChanges \in Nat /\ MaxFaults \in Nat /\ MaxNewerRpcs \in Nat
BY MetadataAssumption, MembershipAssumption

LEMMA Counting ==
  ASSUME NEW S, IsFiniteSet(S), NEW T
  PROVE  /\ Cardinality(S) \in Nat
         /\ T \subseteq S =>
              /\ IsFiniteSet(T) /\ Cardinality(T) \in Nat
              /\ Cardinality(T) <= Cardinality(S)
         /\ \A x : T \subseteq S \cup {x} =>
              /\ IsFiniteSet(T) /\ Cardinality(T) \in Nat
              /\ Cardinality(T) <= Cardinality(S) + 1
         /\ \A x \in S : T \subseteq S \ {x} =>
              /\ IsFiniteSet(T) /\ Cardinality(T) \in Nat
              /\ Cardinality(T) + 1 <= Cardinality(S)
<1>1. Cardinality(S) \in Nat
  BY FS_CardinalityType
<1>2. T \subseteq S => /\ IsFiniteSet(T) /\ Cardinality(T) \in Nat
                       /\ Cardinality(T) <= Cardinality(S)
  BY FS_Subset, FS_CardinalityType
<1>3. ASSUME NEW x, T \subseteq S \cup {x}
      PROVE  /\ IsFiniteSet(T) /\ Cardinality(T) \in Nat
             /\ Cardinality(T) <= Cardinality(S) + 1
  <2> DEFINE U == S \cup {x}
  <2>1. IsFiniteSet(U) /\ Cardinality(U) \in Nat
        /\ Cardinality(U) <= Cardinality(S) + 1
    <3>1. IsFiniteSet(U) /\ (Cardinality(U) = Cardinality(S) \/
                             Cardinality(U) = Cardinality(S) + 1)
      BY FS_AddElement
    <3> QED  BY <1>1, <3>1
  <2>2. T \in SUBSET U
    BY <1>3
  <2> HIDE DEF U
  <2>3. IsFiniteSet(T) /\ Cardinality(T) <= Cardinality(U)
    BY <2>1, <2>2, FS_Subset
  <2>4. Cardinality(T) \in Nat
    BY <2>3, FS_CardinalityType
  <2> QED  BY <1>1, <2>1, <2>3, <2>4
<1>4. ASSUME NEW x \in S, T \subseteq S \ {x}
      PROVE  /\ IsFiniteSet(T) /\ Cardinality(T) \in Nat
             /\ Cardinality(T) + 1 <= Cardinality(S)
  <2> DEFINE U == S \ {x}
  <2>1. IsFiniteSet(U) /\ Cardinality(U) = Cardinality(S) - 1
    BY FS_RemoveElement
  <2>2. T \in SUBSET U
    BY <1>4
  <2> HIDE DEF U
  <2>3. IsFiniteSet(T) /\ Cardinality(T) <= Cardinality(U)
    BY <2>1, <2>2, FS_Subset
  <2>4. Cardinality(T) \in Nat /\ Cardinality(U) \in Nat
    BY <2>1, <2>3, FS_CardinalityType
  <2> QED  BY <1>1, <2>1, <2>3, <2>4
<1> QED  BY <1>1, <1>2, <1>3, <1>4

LEMMA MembersOf ==
  ASSUME NEW s \in Seq(Server)
  PROVE  /\ Len(s) \in Nat /\ DOMAIN s = 1..Len(s)
         /\ Range(s) \subseteq Server
         /\ \A i \in 1..Len(s) : s[i] \in Server /\ s[i] \in Range(s)
<1>1. Len(s) \in Nat /\ DOMAIN s = 1..Len(s)
  BY LenProperties
<1> QED  BY <1>1, ElementOfSeq DEF Range

LEMMA SubSequence ==
  ASSUME NEW s \in Seq(Server), NEW a \in Int, NEW b \in Int, 1 <= a, b <= Len(s)
  PROVE  /\ SubSeq(s, a, b) \in Seq(Server)
         /\ Len(SubSeq(s, a, b)) = IF a <= b THEN b - a + 1 ELSE 0
         /\ \A i \in 1..(b - a + 1) : SubSeq(s, a, b)[i] = s[a + i - 1]
<1>1. \A i \in a..b : s[i] \in Server
  BY MembersOf
<1> QED  BY <1>1, SubSeqProperties

\* A server removed from a membership is no longer in it.
LEMMA MembersWithout ==
  ASSUME NEW s \in Seq(Server), IsInjective(s), NEW n, Contains(s, n)
  PROVE  /\ members_without(s, n) \in Seq(Server)
         /\ IsInjective(members_without(s, n))
         /\ Range(members_without(s, n)) \subseteq Range(s) \ {n}
<1> DEFINE k == CHOOSE i \in DOMAIN s : s[i] = n
           t == members_without(s, n)
           first == SubSeq(s, 1, k - 1)
           second == SubSeq(s, k + 1, Len(s))
<1>1. Len(s) \in Nat /\ DOMAIN s = 1..Len(s)
  BY MembersOf
<1>2. k \in 1..Len(s) /\ s[k] = n
  BY <1>1 DEF Contains
<1>3. t = first \o second
  BY DEF members_without, RemoveAt
<1> HIDE DEF k, t
<1>4. /\ first \in Seq(Server) /\ Len(first) = k - 1
      /\ \A i \in 1..(k - 1) : first[i] = s[i]
  BY <1>1, <1>2, SubSequence
<1>5. /\ second \in Seq(Server) /\ Len(second) = Len(s) - k
      /\ \A i \in 1..(Len(s) - k) : second[i] = s[k + i]
  <2>1. /\ k + 1 \in Int /\ Len(s) \in Int /\ 1 <= k + 1 /\ Len(s) <= Len(s)
        /\ Len(s) - (k + 1) + 1 = Len(s) - k
        /\ ~(k + 1 <= Len(s)) => Len(s) - k = 0
        /\ \A i \in 1..(Len(s) - k) : (k + 1) + i - 1 = k + i
    <3>1. k \in Int /\ Len(s) \in Int /\ 1 <= k /\ k <= Len(s)
      BY <1>1, <1>2
    <3> HIDE DEF second, first
    <3> QED  BY <3>1
  <2>2. /\ second \in Seq(Server)
        /\ Len(second) = IF k + 1 <= Len(s) THEN Len(s) - (k + 1) + 1 ELSE 0
        /\ \A i \in 1..(Len(s) - (k + 1) + 1) : second[i] = s[(k + 1) + i - 1]
    BY <2>1, SubSequence
  <2> HIDE DEF second
  <2>3. Len(second) = Len(s) - k
    BY <2>1, <2>2
  <2>4. ASSUME NEW i \in 1..(Len(s) - k) PROVE second[i] = s[k + i]
    <3>1. i \in 1..(Len(s) - (k + 1) + 1) /\ (k + 1) + i - 1 = k + i
      BY <2>1
    <3> QED  BY <2>2, <3>1
  <2> QED  BY <2>2, <2>3, <2>4
<1> HIDE DEF first, second
<1>6. /\ t \in Seq(Server) /\ Len(t) = Len(s) - 1
      /\ \A i \in 1..(Len(s) - 1) :
           \E j \in 1..Len(s) : /\ t[i] = s[j] /\ j # k
                                /\ j = IF i < k THEN i ELSE i + 1
  <2>1. /\ t \in Seq(Server) /\ Len(t) = Len(first) + Len(second)
        /\ \A i \in 1..(Len(first) + Len(second)) :
             t[i] = IF i <= Len(first) THEN first[i] ELSE second[i - Len(first)]
    BY <1>3, <1>4, <1>5, ConcatProperties
  <2>2. ASSUME NEW i \in 1..(Len(s) - 1)
        PROVE  \E j \in 1..Len(s) : /\ t[i] = s[j] /\ j # k
                                    /\ j = IF i < k THEN i ELSE i + 1
    <3>1. CASE i < k
      <4>1. /\ i \in 1..(Len(first) + Len(second)) /\ i <= Len(first)
            /\ i \in 1..(k - 1) /\ i \in 1..Len(s) /\ i # k
        BY <1>1, <1>2, <1>4, <1>5, <3>1
      <4>2. t[i] = first[i]
        BY <2>1, <4>1
      <4>3. first[i] = s[i]
        BY <1>4, <4>1
      <4> QED  BY <3>1, <4>1, <4>2, <4>3
    <3>2. CASE k <= i
      <4>1. /\ i \in 1..(Len(first) + Len(second)) /\ ~(i <= Len(first))
            /\ i - (k - 1) \in 1..(Len(s) - k)
        BY <1>1, <1>2, <1>4, <1>5, <3>2
      <4>2. t[i] = second[i - (k - 1)]
        BY <1>4, <2>1, <4>1
      <4>3. second[i - (k - 1)] = s[k + (i - (k - 1))]
        BY <1>5, <4>1
      <4>4. k + (i - (k - 1)) = i + 1 /\ i + 1 \in 1..Len(s) /\ i + 1 # k
        BY <1>1, <1>2, <3>2
      <4> QED  BY <1>2, <3>2, <4>2, <4>3, <4>4
    <3> QED  BY <1>2, <3>1, <3>2
  <2> QED  BY <1>1, <1>2, <1>4, <1>5, <2>1, <2>2
<1>7. DOMAIN t = 1..(Len(s) - 1)
  BY <1>6, LenProperties
<1>8. \A i, j \in 1..Len(s) : s[i] = s[j] => i = j
  BY <1>1 DEF IsInjective
<1>9. IsInjective(t)
  <2> SUFFICES ASSUME NEW i \in DOMAIN t, NEW j \in DOMAIN t, t[i] = t[j]
               PROVE  i = j
    BY DEF IsInjective
  <2>1. PICK i1 \in 1..Len(s) : t[i] = s[i1] /\ i1 = IF i < k THEN i ELSE i + 1
    BY <1>6, <1>7
  <2>2. PICK j1 \in 1..Len(s) : t[j] = s[j1] /\ j1 = IF j < k THEN j ELSE j + 1
    BY <1>6, <1>7
  <2>3. i1 = j1
    BY <1>8, <2>1, <2>2
  <2> QED  BY <1>1, <1>2, <1>7, <2>1, <2>2, <2>3
<1>10. Range(t) \subseteq Range(s) \ {n}
  <2> SUFFICES ASSUME NEW i \in DOMAIN t PROVE t[i] \in Range(s) /\ t[i] # n
    BY DEF Range
  <2>1. PICK j \in 1..Len(s) : t[i] = s[j] /\ j # k
    BY <1>6, <1>7
  <2> QED  BY <1>1, <1>2, <1>8, <2>1 DEF Range
<1> QED  BY <1>6, <1>9, <1>10 DEF t

\* ... and one that is added was not in it.
LEMMA MembersWith ==
  ASSUME NEW s \in Seq(Server), IsInjective(s), NEW n \in Server,
         ~Contains(s, n)
  PROVE  /\ Append(s, n) \in Seq(Server)
         /\ IsInjective(Append(s, n))
         /\ Range(Append(s, n)) \subseteq Range(s) \cup {n}
<1> DEFINE t == Append(s, n)
<1>1. Len(s) \in Nat /\ DOMAIN s = 1..Len(s)
  BY MembersOf
<1>2. /\ t \in Seq(Server) /\ DOMAIN t = 1..(Len(s) + 1)
      /\ \A i \in 1..Len(s) : t[i] = s[i]
      /\ t[Len(s) + 1] = n
  BY <1>1, AppendProperties, LenProperties
<1>3. \A i \in 1..Len(s) : s[i] # n
  BY DEF Contains
<1>4. \A i, j \in 1..Len(s) : s[i] = s[j] => i = j
  BY <1>1 DEF IsInjective
<1> HIDE DEF t
<1>5. \A i \in 1..(Len(s) + 1) : i \in 1..Len(s) \/ i = Len(s) + 1
  BY <1>1
<1>6. IsInjective(t)
  BY <1>2, <1>3, <1>4, <1>5 DEF IsInjective
<1>7. Range(t) \subseteq Range(s) \cup {n}
  BY <1>1, <1>2, <1>5 DEF Range
<1> QED  BY <1>2, <1>6, <1>7 DEF t

-----------------------------------------------------------------------------
LEMMA Numbers ==
  ASSUME TypeInv
  PROVE  /\ cluster.epoch \in Nat \ {0} /\ setModes \in Nat /\ faults \in Nat
         /\ cluster.mode \in Mode /\ cluster.members \in Seq(Server)
         /\ IsInjective(cluster.members)
         /\ Cardinality(Waiting) \in Nat /\ Cardinality(Doomed) \in Nat
<1>1. cluster \in issued /\ cluster.epoch \in Nat \ {0}
  BY DEF TypeInv, Inv, IssuedInv
<1>2. cluster \in Config /\ IsInjective(cluster.members)
  BY <1>1 DEF TypeInv, MetadataInv
<1>3. cluster.mode \in Mode /\ cluster.members \in Seq(Server)
  BY <1>2 DEF Config
<1>4. setModes \in Nat /\ faults \in Nat
  BY Bounds DEF TypeInv, MetadataInv, ThreadTypes
<1>5. Cardinality(Waiting) \in Nat /\ Cardinality(Doomed) \in Nat
  BY FS_CardinalityType DEF TypeInv, CountInv
<1> QED  BY <1>1, <1>2, <1>3, <1>4, <1>5

\* What a step adds on the left is paid for on the right.
LEMMA Paid ==
  ASSUME TypeInv, NEW w \in Int, NEW d \in Int, NEW e \in Nat,
         NEW s2 \in Nat, NEW f2 \in Nat, NEW j2 \in Nat,
         setModes' = s2, faults' = f2, (IF joining' THEN 2 ELSE 0) = j2,
         cluster'.epoch = cluster.epoch + e,
         IsFiniteSet(Waiting'), Cardinality(Waiting') \in Nat,
         Cardinality(Waiting') <= Cardinality(Waiting) + w,
         IsFiniteSet(Doomed'), Cardinality(Doomed') \in Nat,
         Cardinality(Doomed') <= Cardinality(Doomed) + d,
         e + w + d + j2 + setModes + faults
           <= (IF joining THEN 2 ELSE 0) + s2 + f2
  PROVE  CountInv'
<1> DEFINE j == IF joining THEN 2 ELSE 0
           b == IF Joiner = NoServer THEN 0 ELSE 2
<1>1. cluster.epoch + Cardinality(Waiting) + Cardinality(Doomed) + j
        <= 1 + b + setModes + faults
  BY DEF TypeInv, CountInv
<1>2. /\ cluster.epoch \in Nat /\ setModes \in Nat /\ faults \in Nat
      /\ Cardinality(Waiting) \in Nat /\ Cardinality(Doomed) \in Nat
      /\ j \in Nat /\ b \in Nat
  BY Numbers
<1>3. e + w + d + j2 + setModes + faults <= j + s2 + f2
  OBVIOUS
<1>4. CountInv' <=>
        cluster'.epoch + Cardinality(Waiting') + Cardinality(Doomed') + j2
          <= 1 + b + s2 + f2
  BY Zenon DEF CountInv
<1> HIDE DEF j, b
<1>5. PICK p \in Nat, v \in Nat, x \in Nat, y \in Nat, z \in Nat :
        /\ cluster.epoch = p /\ Cardinality(Waiting) = v
        /\ Cardinality(Waiting') = x /\ Cardinality(Doomed) = y
        /\ Cardinality(Doomed') = z
  BY <1>2, Zenon
<1>6. /\ x <= v + w /\ z <= y + d /\ p + v + y + j <= 1 + b + setModes + faults
  BY <1>1, <1>5
<1>7. (p + e) + x + z + j2 <= 1 + b + s2 + f2
  BY <1>2, <1>3, <1>6
<1>8. cluster'.epoch = p + e
  BY <1>5
<1> QED  BY <1>4, <1>5, <1>7, <1>8, Zenon

LEMMA WaitingRests ==
  ASSUME TypeInv, modeThreads' = modeThreads
  PROVE  /\ IsFiniteSet(Waiting') /\ Cardinality(Waiting') \in Nat
         /\ Cardinality(Waiting') <= Cardinality(Waiting) + 0
<1>1. Waiting' = Waiting
  BY DEF Waiting
<1>2. IsFiniteSet(Waiting) /\ Cardinality(Waiting) \in Nat
  BY Numbers DEF TypeInv, CountInv
<1> QED  BY <1>1, <1>2

LEMMA DoomedRest ==
  ASSUME TypeInv, Doomed' \subseteq Doomed
  PROVE  /\ IsFiniteSet(Doomed') /\ Cardinality(Doomed') \in Nat
         /\ Cardinality(Doomed') <= Cardinality(Doomed) + 0
<1>1. IsFiniteSet(Doomed) /\ Cardinality(Doomed) \in Nat
  BY Numbers DEF TypeInv, CountInv
<1>2. /\ IsFiniteSet(Doomed') /\ Cardinality(Doomed') \in Nat
      /\ Cardinality(Doomed') <= Cardinality(Doomed)
  BY <1>1, Counting
<1> QED  BY <1>1, <1>2

LEMMA OneMoreDoomed ==
  ASSUME TypeInv, NEW n, Doomed' \subseteq Doomed \cup {n}
  PROVE  /\ IsFiniteSet(Doomed') /\ Cardinality(Doomed') \in Nat
         /\ Cardinality(Doomed') <= Cardinality(Doomed) + 1
<1>1. IsFiniteSet(Doomed)
  BY DEF TypeInv, CountInv
<1> QED  BY <1>1, Counting

LEMMA FaultCounts ==
  ASSUME TypeInv, Fault
  PROVE  \E f2 \in Nat : faults' = f2 /\ f2 = faults + 1
BY Numbers DEF Fault

LEMMA JoinersCount ==
  /\ (IF joining THEN 2 ELSE 0) \in Nat
  /\ joining' = joining =>
       (IF joining' THEN 2 ELSE 0) = (IF joining THEN 2 ELSE 0)
OBVIOUS

\* A step of the servers that dooms nobody, and one that spends a fault.
LEMMA CountRests ==
  ASSUME TypeInv, Doomed' \subseteq Doomed, faults' = faults \/ Fault,
         UNCHANGED <<cluster, modeThreads, setModes, joining>>
  PROVE  CountInv'
<1>1. PICK f2 \in Nat : faults' = f2 /\ (f2 = faults \/ f2 = faults + 1)
  BY Numbers, FaultCounts
<1>2. PICK j2 \in Nat : /\ (IF joining' THEN 2 ELSE 0) = j2
                        /\ (IF joining THEN 2 ELSE 0) = j2
  BY JoinersCount
<1>3. /\ cluster'.epoch = cluster.epoch + 0
      /\ setModes \in Nat /\ setModes' = setModes /\ faults \in Nat
  BY Numbers
<1>4. 0 + 0 + 0 + j2 + setModes + faults <= j2 + setModes + f2
  BY <1>1, <1>3
<1> QED  BY <1>1, <1>2, <1>3, <1>4, WaitingRests, DoomedRest, Paid

LEMMA CountFault ==
  ASSUME TypeInv, NEW n, Doomed' \subseteq Doomed \cup {n}, Fault,
         UNCHANGED <<cluster, modeThreads, setModes, joining>>
  PROVE  CountInv'
<1>1. PICK f2 \in Nat : faults' = f2 /\ f2 = faults + 1
  BY FaultCounts
<1>2. PICK j2 \in Nat : /\ (IF joining' THEN 2 ELSE 0) = j2
                        /\ (IF joining THEN 2 ELSE 0) = j2
  BY JoinersCount
<1>3. /\ cluster'.epoch = cluster.epoch + 0
      /\ setModes \in Nat /\ setModes' = setModes /\ faults \in Nat
  BY Numbers
<1>4. 0 + 0 + 1 + j2 + setModes + faults <= j2 + setModes + f2
  BY <1>1, <1>3
<1> QED  BY <1>1, <1>2, <1>3, <1>4, WaitingRests, OneMoreDoomed, Paid

\* A configuration is given an epoch, and sent to its members.
LEMMA Moved ==
  ASSUME TypeInv, NEW members \in Seq(Server), IsInjective(members),
         NEW mode \in Mode, MoveTo(members, mode)
  PROVE  /\ cluster'.epoch = cluster.epoch + 1 /\ cluster'.members = members
         /\ \A r \in reconfigures' : r \in [to : Server, config : issued']
         /\ \A config \in issued' :
              config \in Config /\ IsInjective(config.members)
<1> DEFINE new == [epoch |-> cluster.epoch + 1, mode |-> mode,
                   members |-> members]
<1>1. /\ cluster' = new /\ issued' = issued \cup {new}
      /\ reconfigures' = reconfigures \cup
           {[to |-> n, config |-> new] : n \in Range(members)}
  BY DEF MoveTo
<1>2. /\ new \in Config /\ new.members = members
      /\ new.epoch = cluster.epoch + 1
  <2>1. cluster.epoch + 1 \in Nat
    BY Numbers
  <2> QED  BY <2>1 DEF Config
<1>3. Range(members) \subseteq Server
  BY MembersOf
<1> HIDE DEF new
<1>4. MetadataInv
  BY DEF TypeInv
<1>5. \A r \in reconfigures' : r \in [to : Server, config : issued']
  BY <1>1, <1>3, <1>4 DEF MetadataInv
<1>6. \A config \in issued' : config \in Config /\ IsInjective(config.members)
  BY <1>1, <1>2, <1>4 DEF MetadataInv
<1> QED  BY <1>1, <1>2, <1>5, <1>6

LEMMA SetModeTypes ==
  ASSUME TypeInv, NEW mode \in Mode, SetMode(mode), UNCHANGED serverVars
  PROVE  MetadataInv' /\ CountInv'
<1>1. MetadataInv
  BY DEF TypeInv
<1>2. /\ setModes \in Nat /\ setModes < MaxModeChanges /\ faults \in Nat
      /\ modeThreads \in [Mode -> Nat] /\ modeThreads[mode] <= setModes
  BY <1>1, Numbers DEF SetMode, MetadataInv
<1>3. PICK s2 \in Nat : /\ setModes' = s2 /\ s2 = setModes + 1
                        /\ s2 \in 0..MaxModeChanges
  BY <1>2, Bounds DEF SetMode
<1>4. PICK k \in Nat : k = modeThreads[mode] + 1 /\ k <= s2 /\ k # 0
  BY <1>2, <1>3
<1>5. /\ modeThreads' = [modeThreads EXCEPT ![mode] = k]
      /\ UNCHANGED <<cluster, last_heartbeat, failed, joining, reconfigures,
                     issued, up, faults>>
  BY <1>4 DEF SetMode, serverVars
<1>6. \A m \in Mode : /\ modeThreads'[m] = IF m = mode THEN k ELSE modeThreads[m]
                      /\ modeThreads[m] \in Nat /\ modeThreads[m] <= setModes
  BY <1>1, <1>2, <1>5 DEF MetadataInv
<1>7. MetadataInv'
  <2>1. modeThreads' \in [Mode -> Nat]
    BY <1>2, <1>5
  <2>2. \A m \in Mode : modeThreads'[m] <= s2
    BY <1>2, <1>3, <1>4, <1>6
  <2> QED  BY <1>1, <1>3, <1>5, <2>1, <2>2 DEF MetadataInv
<1>8. Waiting' \subseteq Waiting \cup {<<mode, k>>}
  <2> SUFFICES ASSUME NEW m \in Mode, NEW i \in Nat \ {0}, i <= modeThreads'[m]
               PROVE  <<m, i>> \in Waiting \/ (m = mode /\ i = k)
    BY DEF Waiting
  <2>1. CASE m = mode
    <3>1. i <= modeThreads[mode] \/ i = k
      BY <1>2, <1>4, <1>6, <2>1
    <3> QED  BY <2>1, <3>1 DEF Waiting
  <2>2. CASE m # mode
    BY <1>6, <2>2 DEF Waiting
  <2> QED  BY <2>1, <2>2
<1>9. /\ IsFiniteSet(Waiting') /\ Cardinality(Waiting') \in Nat
      /\ Cardinality(Waiting') <= Cardinality(Waiting) + 1
  BY <1>8, Counting DEF TypeInv, CountInv
<1>10. Doomed' \subseteq Doomed
  BY <1>5 DEF Doomed
<1>11. PICK j2 \in Nat : /\ (IF joining' THEN 2 ELSE 0) = j2
                         /\ (IF joining THEN 2 ELSE 0) = j2
  BY <1>5, JoinersCount
<1>12. cluster'.epoch = cluster.epoch + 0 /\ faults' = faults
  BY <1>5, Numbers
<1>13. 0 + 1 + 0 + j2 + setModes + faults <= j2 + s2 + faults
  BY <1>2, <1>3
<1>14. CountInv'
  BY <1>2, <1>3, <1>9, <1>10, <1>11, <1>12, <1>13, DoomedRest, Paid
<1> QED  BY <1>7, <1>14

LEMMA ModeChangeTypes ==
  ASSUME TypeInv, NEW mode \in Mode, TriggerModeChange(mode),
         UNCHANGED serverVars
  PROVE  MetadataInv' /\ CountInv'
<1>1. MetadataInv
  BY DEF TypeInv
<1>2. /\ setModes \in Nat /\ faults \in Nat
      /\ modeThreads \in [Mode -> Nat] /\ modeThreads[mode] > 0
      /\ MoveTo(cluster.members, mode)
  BY <1>1, Numbers DEF TriggerModeChange, MetadataInv
<1>3. PICK k \in Nat : k = modeThreads[mode] - 1
  BY <1>2
<1>4. /\ modeThreads' = [modeThreads EXCEPT ![mode] = k]
      /\ UNCHANGED <<last_heartbeat, failed, setModes, joining, up, faults>>
  BY <1>3 DEF TriggerModeChange, serverVars
<1>5. \A m \in Mode : /\ modeThreads'[m] = IF m = mode THEN k ELSE modeThreads[m]
                      /\ modeThreads[m] \in Nat /\ modeThreads[m] <= setModes
  BY <1>1, <1>2, <1>4 DEF MetadataInv
<1>6. /\ cluster'.epoch = cluster.epoch + 1
      /\ cluster'.members = cluster.members
      /\ \A r \in reconfigures' : r \in [to : Server, config : issued']
      /\ \A config \in issued' :
           config \in Config /\ IsInjective(config.members)
  BY <1>2, Numbers, Moved
<1>7. MetadataInv'
  <2>1. modeThreads' \in [Mode -> Nat]
    BY <1>2, <1>4
  <2>2. \A m \in Mode : modeThreads'[m] <= setModes
    BY <1>2, <1>3, <1>5
  <2> QED  BY <1>1, <1>4, <1>6, <2>1, <2>2 DEF MetadataInv
<1>8. /\ <<mode, modeThreads[mode]>> \in Waiting
      /\ Waiting' \subseteq Waiting \ {<<mode, modeThreads[mode]>>}
  <2>1. <<mode, modeThreads[mode]>> \in Waiting
    BY <1>2 DEF Waiting
  <2> SUFFICES ASSUME NEW m \in Mode, NEW i \in Nat \ {0}, i <= modeThreads'[m]
               PROVE  /\ <<m, i>> \in Waiting
                      /\ ~(m = mode /\ i = modeThreads[mode])
    BY <2>1 DEF Waiting
  <2>2. i <= modeThreads[m] /\ ~(m = mode /\ i = modeThreads[mode])
    BY <1>2, <1>3, <1>5
  <2> QED  BY <2>2 DEF Waiting
<1>9. /\ IsFiniteSet(Waiting') /\ Cardinality(Waiting') \in Nat
      /\ Cardinality(Waiting') <= Cardinality(Waiting) + (-1)
  <2>1. /\ IsFiniteSet(Waiting') /\ Cardinality(Waiting') \in Nat
        /\ Cardinality(Waiting') + 1 <= Cardinality(Waiting)
    BY <1>8, Counting DEF TypeInv, CountInv
  <2>2. Cardinality(Waiting) \in Nat
    BY Numbers
  <2> QED  BY <2>1, <2>2
<1>10. Doomed' \subseteq Doomed
  BY <1>4, <1>6 DEF Doomed
<1>11. PICK j2 \in Nat : /\ (IF joining' THEN 2 ELSE 0) = j2
                         /\ (IF joining THEN 2 ELSE 0) = j2
  BY <1>4, JoinersCount
<1>12. 1 + (-1) + 0 + j2 + setModes + faults <= j2 + setModes + faults
  BY <1>2
<1>13. CountInv'
  BY <1>2, <1>4, <1>6, <1>9, <1>10, <1>11, <1>12, DoomedRest, Paid
<1> QED  BY <1>7, <1>13

\* Who is to be removed was silent already.
LEMMA MonitorTypes ==
  ASSUME TypeInv, MonitorFailures, UNCHANGED serverVars
  PROVE  MetadataInv' /\ CountInv'
<1>1. /\ failed = NoServer
      /\ UNCHANGED <<cluster, last_heartbeat, modeThreads, setModes, joining,
                     reconfigures, issued, up, faults>>
  BY DEF MonitorFailures, serverVars
<1>2. PICK i \in DOMAIN cluster.members :
        /\ last_heartbeat[cluster.members[i]] = "old"
        /\ failed' = cluster.members[i]
  BY DEF MonitorFailures, silent_members
<1>3. cluster.members[i] \in Server /\ cluster.members[i] \in Range(cluster.members)
  BY <1>2, Numbers, MembersOf
<1>4. MetadataInv'
  BY <1>1, <1>2, <1>3 DEF TypeInv, MetadataInv
<1>5. Doomed' \subseteq Doomed
  <2> SUFFICES ASSUME NEW n \in Doomed' PROVE n \in Doomed
    OBVIOUS
  <2>1. /\ n \in Range(cluster.members)
        /\ n \notin up \/ last_heartbeat[n] = "old" \/ failed' = n
    BY <1>1 DEF Doomed
  <2>2. CASE failed' = n
    BY <1>2, <2>1, <2>2 DEF Doomed
  <2>3. CASE failed' # n
    BY <2>1, <2>3 DEF Doomed
  <2> QED  BY <2>2, <2>3
<1>6. CountInv'
  BY <1>1, <1>5, CountRests
<1> QED  BY <1>4, <1>6

LEMMA RemoveTypes ==
  ASSUME TypeInv, TriggerReconfigureRemove, UNCHANGED serverVars
  PROVE  MetadataInv' /\ CountInv'
<1>1. /\ MetadataInv /\ failed \in Server /\ failed' = NoServer
      /\ UNCHANGED <<modeThreads, setModes, joining, up, faults>>
  BY DEF TypeInv, MetadataInv, TriggerReconfigureRemove, serverVars
<1>2. NoServer \notin Server
  BY MetadataAssumption
<1>3. CASE ~ Contains(cluster.members, failed)
  <2>1. UNCHANGED <<cluster, last_heartbeat, reconfigures, issued>>
    BY <1>3 DEF TriggerReconfigureRemove
  <2>2. MetadataInv'
    BY <1>1, <2>1 DEF MetadataInv
  <2>3. Range(cluster.members) \subseteq Server
    BY Numbers, MembersOf
  <2>4. Doomed' \subseteq Doomed
    BY <1>1, <1>2, <2>1, <2>3 DEF Doomed
  <2>5. CountInv'
    BY <1>1, <2>1, <2>4, CountRests
  <2> QED  BY <2>2, <2>5
<1>4. CASE Contains(cluster.members, failed)
  <2> DEFINE members == members_without(cluster.members, failed)
  <2>1. /\ MoveTo(members, cluster.mode)
        /\ last_heartbeat' = [last_heartbeat EXCEPT ![failed] = "none"]
    BY <1>4 DEF TriggerReconfigureRemove
  <2>2. /\ members \in Seq(Server) /\ IsInjective(members)
        /\ Range(members) \subseteq Range(cluster.members) \ {failed}
    BY <1>4, Numbers, MembersWithout
  <2> HIDE DEF members
  <2>3. /\ cluster'.epoch = cluster.epoch + 1 /\ cluster'.members = members
        /\ \A r \in reconfigures' : r \in [to : Server, config : issued']
        /\ \A config \in issued' :
             config \in Config /\ IsInjective(config.members)
    BY <2>1, <2>2, Numbers, Moved
  <2>4. MetadataInv'
    <3>1. last_heartbeat' \in [Server -> {"none", "recent", "old"}]
      BY <1>1, <2>1 DEF MetadataInv
    <3> QED  BY <1>1, <2>3, <3>1 DEF MetadataInv
  <2>5. failed \in Doomed /\ Doomed' \subseteq Doomed \ {failed}
    <3>1. failed \in Range(cluster.members)
      BY <1>4 DEF Contains, Range
    <3>2. \A n \in Server \ {failed} : last_heartbeat'[n] = last_heartbeat[n]
      BY <1>1, <2>1 DEF MetadataInv
    <3>3. Range(cluster.members) \subseteq Server
      BY Numbers, MembersOf
    <3> QED  BY <1>1, <1>2, <2>2, <2>3, <3>1, <3>2, <3>3 DEF Doomed
  <2>6. /\ IsFiniteSet(Doomed') /\ Cardinality(Doomed') \in Nat
        /\ Cardinality(Doomed') <= Cardinality(Doomed) + (-1)
    <3>1. /\ IsFiniteSet(Doomed') /\ Cardinality(Doomed') \in Nat
          /\ Cardinality(Doomed') + 1 <= Cardinality(Doomed)
      BY <2>5, Counting DEF TypeInv, CountInv
    <3>2. Cardinality(Doomed) \in Nat
      BY Numbers
    <3> QED  BY <3>1, <3>2
  <2>7. PICK j2 \in Nat : /\ (IF joining' THEN 2 ELSE 0) = j2
                          /\ (IF joining THEN 2 ELSE 0) = j2
    BY <1>1, JoinersCount
  <2>8. setModes \in Nat /\ faults \in Nat
    BY Numbers
  <2>9. 1 + 0 + (-1) + j2 + setModes + faults <= j2 + setModes + faults
    BY <2>8
  <2>10. CountInv'
    BY <1>1, <2>3, <2>6, <2>7, <2>8, <2>9, WaitingRests, Paid
  <2> QED  BY <2>4, <2>10
<1> QED  BY <1>3, <1>4

LEMMA AddTypes ==
  ASSUME TypeInv, TriggerReconfigureAdd, UNCHANGED serverVars
  PROVE  MetadataInv' /\ CountInv'
<1>1. /\ MetadataInv /\ joining = TRUE /\ joining' = FALSE
      /\ UNCHANGED <<modeThreads, setModes, failed, up, faults>>
  BY DEF TypeInv, MetadataInv, TriggerReconfigureAdd, serverVars
<1>2. Joiner \in Server
  BY <1>1, MetadataAssumption DEF MetadataInv
<1>3. /\ setModes \in Nat /\ faults \in Nat
      /\ (IF joining' THEN 2 ELSE 0) = 0 /\ (IF joining THEN 2 ELSE 0) = 2
  BY <1>1, Numbers
<1>4. CASE Contains(cluster.members, Joiner)
  <2>1. UNCHANGED <<cluster, last_heartbeat, reconfigures, issued>>
    BY <1>4 DEF TriggerReconfigureAdd
  <2>2. MetadataInv'
    BY <1>1, <2>1 DEF MetadataInv
  <2>3. Doomed' \subseteq Doomed
    BY <1>1, <2>1 DEF Doomed
  <2>4. 0 + 0 + 0 + 0 + setModes + faults
          <= (IF joining THEN 2 ELSE 0) + setModes + faults
    BY <1>3
  <2>5. cluster'.epoch = cluster.epoch + 0
    BY <2>1, Numbers
  <2>6. CountInv'
    BY <1>1, <1>3, <2>3, <2>4, <2>5, WaitingRests, DoomedRest, Paid
  <2> QED  BY <2>2, <2>6
<1>5. CASE ~ Contains(cluster.members, Joiner)
  <2> DEFINE members == Append(cluster.members, Joiner)
  <2>1. /\ MoveTo(members, cluster.mode)
        /\ last_heartbeat' = [last_heartbeat EXCEPT ![Joiner] = "recent"]
    BY <1>5 DEF TriggerReconfigureAdd
  <2>2. /\ members \in Seq(Server) /\ IsInjective(members)
        /\ Range(members) \subseteq Range(cluster.members) \cup {Joiner}
    BY <1>2, <1>5, Numbers, MembersWith
  <2> HIDE DEF members
  <2>3. /\ cluster'.epoch = cluster.epoch + 1 /\ cluster'.members = members
        /\ \A r \in reconfigures' : r \in [to : Server, config : issued']
        /\ \A config \in issued' :
             config \in Config /\ IsInjective(config.members)
    BY <2>1, <2>2, Numbers, Moved
  <2>4. MetadataInv'
    <3>1. last_heartbeat' \in [Server -> {"none", "recent", "old"}]
      BY <1>1, <2>1 DEF MetadataInv
    <3> QED  BY <1>1, <2>3, <3>1 DEF MetadataInv
  <2>5. Doomed' \subseteq Doomed \cup {Joiner}
    <3>1. \A n \in Server \ {Joiner} : last_heartbeat'[n] = last_heartbeat[n]
      BY <1>1, <2>1 DEF MetadataInv
    <3>2. Range(cluster.members) \subseteq Server
      BY Numbers, MembersOf
    <3> QED  BY <1>1, <2>2, <2>3, <3>1, <3>2 DEF Doomed
  <2>6. 1 + 0 + 1 + 0 + setModes + faults
          <= (IF joining THEN 2 ELSE 0) + setModes + faults
    BY <1>3
  <2>7. CountInv'
    BY <1>1, <1>3, <2>3, <2>5, <2>6, WaitingRests, OneMoreDoomed, Paid
  <2> QED  BY <2>4, <2>7
<1> QED  BY <1>4, <1>5

-----------------------------------------------------------------------------
\* The servers' steps leave the metadata store alone, but for a heartbeat or
\* a Reconfigure that is handled or lost.
LEMMA MetadataRests ==
  ASSUME TypeInv, reconfigures' \subseteq reconfigures,
         last_heartbeat' \in [Server -> {"none", "recent", "old"}],
         UNCHANGED <<failed, modeThreads, setModes, joining, issued>>
  PROVE  MetadataInv'
BY DEF TypeInv, MetadataInv

\* A server that starts, and one that runs on, dooms nobody.
LEMMA NoneDoomed ==
  ASSUME TypeInv, up \subseteq up', UNCHANGED metadataVars, UNCHANGED faults
  PROVE  MetadataInv' /\ CountInv'
<1>1. UNCHANGED <<cluster, last_heartbeat, failed, modeThreads, setModes,
                  joining, reconfigures, issued>>
  BY DEF metadataVars
<1>2. MetadataInv'
  BY <1>1, MetadataRests DEF TypeInv, MetadataInv
<1>3. Doomed' \subseteq Doomed
  BY <1>1 DEF Doomed
<1> QED  BY <1>1, <1>2, <1>3, CountRests

LEMMA ReconfiguresLess ==
  ASSUME TypeInv, up' = up, faults' = faults \/ Fault,
         reconfigures' \subseteq reconfigures,
         UNCHANGED <<cluster, last_heartbeat, failed, modeThreads, setModes,
                     joining, issued>>
  PROVE  MetadataInv' /\ CountInv'
<1>1. MetadataInv'
  BY MetadataRests DEF TypeInv, MetadataInv
<1>2. Doomed' \subseteq Doomed
  BY DEF Doomed
<1> QED  BY <1>1, <1>2, CountRests

LEMMA HeardTypes ==
  ASSUME TypeInv, NEW n \in Server, Heartbeat(n), up' = up, faults' = faults
  PROVE  MetadataInv' /\ CountInv'
<1>1. /\ last_heartbeat' = [last_heartbeat EXCEPT ![n] = "recent"]
      /\ last_heartbeat \in [Server -> {"none", "recent", "old"}]
      /\ UNCHANGED <<cluster, failed, modeThreads, setModes, joining,
                     reconfigures, issued>>
  BY DEF Heartbeat, TypeInv, MetadataInv
<1>2. MetadataInv'
  BY <1>1, MetadataRests
<1>3. Doomed' \subseteq Doomed
  <2>1. Range(cluster.members) \subseteq Server
    BY Numbers, MembersOf
  <2>2. \A m \in Server : last_heartbeat'[m] = "old" => last_heartbeat[m] = "old"
    BY <1>1
  <2> QED  BY <1>1, <2>1, <2>2 DEF Doomed
<1> QED  BY <1>1, <1>2, <1>3, CountRests

LEMMA SilentTypes ==
  ASSUME TypeInv, NEW n \in Server, FallSilent(n)
  PROVE  MetadataInv' /\ CountInv'
<1>1. /\ last_heartbeat' = [last_heartbeat EXCEPT ![n] = "old"]
      /\ last_heartbeat \in [Server -> {"none", "recent", "old"}]
      /\ IF n \in up THEN Fault ELSE faults' = faults
      /\ UNCHANGED <<cluster, failed, modeThreads, setModes, joining,
                     reconfigures, issued, up>>
  BY DEF FallSilent, HeartbeatAges, TypeInv, MetadataInv
<1>2. MetadataInv'
  BY <1>1, MetadataRests
<1>3. \A m \in Server \ {n} : last_heartbeat'[m] = last_heartbeat[m]
  BY <1>1
<1>4. Range(cluster.members) \subseteq Server
  BY Numbers, MembersOf
<1>5. CASE n \in up
  <2>1. Doomed' \subseteq Doomed \cup {n}
    BY <1>1, <1>3, <1>4 DEF Doomed
  <2> QED  BY <1>1, <1>2, <1>5, <2>1, CountFault
<1>6. CASE n \notin up
  <2>1. Doomed' \subseteq Doomed
    BY <1>1, <1>3, <1>4, <1>6 DEF Doomed
  <2> QED  BY <1>1, <1>2, <1>6, <2>1, CountRests
<1> QED  BY <1>5, <1>6

LEMMA CrashTypes ==
  ASSUME TypeInv, NEW n \in Server, Crash(n)
  PROVE  MetadataInv' /\ CountInv'
<1>1. /\ up' = up \ {n} /\ Fault
      /\ UNCHANGED <<cluster, last_heartbeat, failed, modeThreads, setModes,
                     joining, reconfigures, issued>>
  BY DEF Crash, metadataVars
<1>2. MetadataInv'
  BY <1>1, MetadataRests DEF TypeInv, MetadataInv
<1>3. Doomed' \subseteq Doomed \cup {n}
  BY <1>1 DEF Doomed
<1> QED  BY <1>1, <1>2, <1>3, CountFault

\* The store's part of every step.
LEMMA StoreTypes ==
  ASSUME TypeInv, Next
  PROVE  MetadataInv' /\ CountInv'
<1>1. CASE MetadataStep
  BY <1>1, SetModeTypes, ModeChangeTypes, MonitorTypes, RemoveTypes, AddTypes
  DEF MetadataStep
<1>2. CASE \E r \in reconfigures : Reconfigure(r)
  <2>1. /\ reconfigures' \subseteq reconfigures
        /\ UNCHANGED <<cluster, last_heartbeat, failed, modeThreads, setModes,
                       joining, issued, up, faults>>
    BY <1>2 DEF Reconfigure
  <2> QED  BY <2>1, ReconfiguresLess
<1>3. CASE LoseReconfigure
  <2>1. /\ reconfigures' \subseteq reconfigures
        /\ faults' = faults \/ Fault
        /\ UNCHANGED <<cluster, last_heartbeat, failed, modeThreads, setModes,
                       joining, issued, up>>
    BY <1>3 DEF LoseReconfigure
  <2> QED  BY <2>1, ReconfiguresLess
<1>4. CASE \E r \in refreshing : FinishRefresh(r)
  <2>1. up \subseteq up' /\ UNCHANGED metadataVars /\ UNCHANGED faults
    BY <1>4 DEF FinishRefresh, Boot, RefreshMembership, RefreshMembershipAsync
  <2> QED  BY <2>1, NoneDoomed
<1>5. CASE \E t \in applying : ThreadStep(t)
  <2>1. up \subseteq up' /\ UNCHANGED metadataVars /\ UNCHANGED faults
    BY <1>5 DEF ThreadStep, update_membership, set_epoch
  <2> QED  BY <2>1, NoneDoomed
<1>6. ASSUME NEW n \in Server, HeartbeatLoop(n)
      PROVE  MetadataInv' /\ CountInv'
  <2>1. Heartbeat(n) /\ up' = up /\ faults' = faults
    BY <1>6 DEF HeartbeatLoop
  <2> QED  BY <2>1, HeardTypes
<1>7. ASSUME NEW n \in Server, ReadForRpc(n) \/ BeginBoot(n) \/ BootAlone(n)
      PROVE  MetadataInv' /\ CountInv'
  <2>1. up \subseteq up' /\ UNCHANGED metadataVars /\ UNCHANGED faults
    BY <1>7 DEF ReadForRpc, BeginBoot, BootAlone
  <2> QED  BY <2>1, NoneDoomed
<1> QED  BY <1>1, <1>2, <1>3, <1>4, <1>5, <1>6, <1>7, SilentTypes, CrashTypes
         DEF Next

\* The servers' part.
LEMMA FaultBounded ==
  ASSUME ThreadTypes, faults' = faults \/ Fault
  PROVE  faults' \in 0..MaxFaults
<1>1. CASE Fault
  BY <1>1, Bounds DEF Fault, ThreadTypes
<1> QED  BY <1>1 DEF ThreadTypes

LEMMA InstallVia ==
  ASSUME NEW n, NEW config, NEW status,
         NEW via \in {"heartbeat", "rpc", "Reconfigure"},
         UNCHANGED <<state, applying>> \/ Install(n, config, status, via)
  PROVE  \A t \in applying' : t \in applying
                              \/ t.via \in {"heartbeat", "rpc", "Reconfigure"}
BY DEF Install

LEMMA ServerTypes ==
  ASSUME TypeInv, Next
  PROVE  ThreadTypes'
<1>0. ThreadTypes /\ Inv
  BY DEF TypeInv
<1>1. CASE MetadataStep
  <2>1. UNCHANGED <<refreshing, applying, reforwarded, newerRpcs, faults>>
    BY <1>1 DEF MetadataStep, serverVars
  <2> QED  BY <1>0, <2>1 DEF ThreadTypes
<1>2. ASSUME NEW r \in reconfigures, Reconfigure(r)
      PROVE  ThreadTypes'
  <2>1. UNCHANGED <<refreshing, reforwarded, newerRpcs, faults>>
    BY <1>2 DEF Reconfigure
  <2>2. \A t \in applying' : t \in applying
                             \/ t.via \in {"heartbeat", "rpc", "Reconfigure"}
    BY <1>2, InstallVia DEF Reconfigure
  <2> QED  BY <1>0, <2>1, <2>2 DEF ThreadTypes
<1>3. ASSUME NEW r \in refreshing, FinishRefresh(r)
      PROVE  ThreadTypes'
  <2>1. refreshing' \subseteq refreshing /\ UNCHANGED <<reforwarded, newerRpcs, faults>>
    BY <1>3 DEF FinishRefresh, Boot, RefreshMembership, RefreshMembershipAsync
  <2>2. \A t \in applying' : t \in applying
                             \/ t.via \in {"heartbeat", "rpc", "Reconfigure"}
    BY <1>3, InstallVia
    DEF FinishRefresh, Boot, RefreshMembership, RefreshMembershipAsync
  <2> QED  BY <1>0, <2>1, <2>2 DEF ThreadTypes
<1>4. ASSUME NEW t \in applying, ThreadStep(t)
      PROVE  ThreadTypes'
  <2>1. UNCHANGED <<refreshing, newerRpcs, faults>>
    BY <1>4 DEF ThreadStep, update_membership, set_epoch
  <2>2. /\ t.config.epoch # 0
        /\ t \in [node : Server, config : issued, advanced : BOOLEAN,
                  via : Via, left : Seq(Mode) \ {<<>>}, half : BOOLEAN]
        /\ reforwarded \in [Server -> SUBSET Nat]
    BY <1>0 DEF Inv, Underway, IssuedInv, ThreadInv
  <2>3. \A n \in Server : 0 \notin reforwarded'[n]
    <3>1. \/ reforwarded' = reforwarded
          \/ reforwarded' = [reforwarded EXCEPT ![t.node] =
                               @ \cup {t.config.epoch}]
      BY <1>4 DEF ThreadStep, update_membership, set_epoch, FinishApply
    <3> QED  BY <1>0, <2>2, <3>1 DEF ThreadTypes
  <2>4. \A u \in applying' : u \in applying \/ u.via = t.via
    <3>1. /\ [t EXCEPT !.half = TRUE].via = t.via
          /\ [t EXCEPT !.half = FALSE, !.left = Tail(@)].via = t.via
      BY <2>2
    <3>2. \/ applying' \subseteq applying
          \/ Goes(t, [t EXCEPT !.half = TRUE])
          \/ Goes(t, [t EXCEPT !.half = FALSE, !.left = Tail(@)])
      BY <1>4 DEF ThreadStep, update_membership, set_epoch, FinishApply
    <3> QED  BY <3>1, <3>2 DEF Goes
  <2> QED  BY <1>0, <2>1, <2>3, <2>4 DEF ThreadTypes
<1>5. CASE LoseReconfigure
  <2>1. UNCHANGED <<refreshing, applying, reforwarded, newerRpcs>>
    BY <1>5 DEF LoseReconfigure
  <2>2. faults' \in 0..MaxFaults
    BY <1>0, <1>5, FaultBounded DEF LoseReconfigure
  <2> QED  BY <1>0, <2>1, <2>2 DEF ThreadTypes
<1>6. ASSUME NEW n \in Server, FallSilent(n)
      PROVE  ThreadTypes'
  <2>1. UNCHANGED <<refreshing, applying, reforwarded, newerRpcs>>
    BY <1>6 DEF FallSilent
  <2>2. faults' \in 0..MaxFaults
    BY <1>0, <1>6, FaultBounded DEF FallSilent
  <2> QED  BY <1>0, <2>1, <2>2 DEF ThreadTypes
<1>7. ASSUME NEW n \in Server, HeartbeatLoop(n) \/ BeginBoot(n) \/ BootAlone(n)
      PROVE  ThreadTypes'
  <2>1. UNCHANGED <<applying, reforwarded, newerRpcs, faults>>
    BY <1>7 DEF HeartbeatLoop, BeginBoot, BootAlone
  <2>2. \A r \in refreshing' :
          r \in refreshing \/ r.via \in {"boot", "heartbeat", "rpc"}
    BY <1>7 DEF HeartbeatLoop, BeginBoot, BootAlone
  <2> QED  BY <1>0, <2>1, <2>2 DEF ThreadTypes
<1>8. ASSUME NEW n \in Server, ReadForRpc(n)
      PROVE  ThreadTypes'
  <2>1. UNCHANGED <<applying, reforwarded, faults>>
    BY <1>8 DEF ReadForRpc
  <2>2. \A r \in refreshing' :
          r \in refreshing \/ r.via \in {"boot", "heartbeat", "rpc"}
    BY <1>8 DEF ReadForRpc
  <2>3. newerRpcs' \in 0..MaxNewerRpcs
    BY <1>0, <1>8, Bounds DEF ReadForRpc, ThreadTypes
  <2> QED  BY <1>0, <2>1, <2>2, <2>3 DEF ThreadTypes
<1>9. ASSUME NEW n \in Server, Crash(n)
      PROVE  ThreadTypes'
  <2>1. /\ refreshing' \subseteq refreshing /\ applying' \subseteq applying
        /\ reforwarded' = [reforwarded EXCEPT ![n] = {}]
        /\ newerRpcs' = newerRpcs
    BY <1>9 DEF Crash
  <2>2. faults' \in 0..MaxFaults
    BY <1>0, <1>9, FaultBounded DEF Crash
  <2>3. \A m \in Server : 0 \notin reforwarded'[m]
    BY <1>0, <2>1 DEF Inv, ThreadInv, ThreadTypes
  <2> QED  BY <1>0, <2>1, <2>2, <2>3 DEF ThreadTypes
<1> QED  BY <1>1, <1>2, <1>3, <1>4, <1>5, <1>6, <1>7, <1>8, <1>9 DEF Next

LEMMA TypesInit == Init => TypeInv
<1> SUFFICES ASSUME Init PROVE TypeInv
  OBVIOUS
<1>1. /\ cluster = [epoch |-> 1, mode |-> InitialMode, members |-> InitialMembers]
      /\ last_heartbeat = [n \in Server |-> "none"]
      /\ failed = NoServer /\ modeThreads = [m \in Mode |-> 0] /\ setModes = 0
      /\ joining = (Joiner # NoServer) /\ reconfigures = {}
      /\ issued = {cluster} /\ up = InitiallyUp
      /\ refreshing = {} /\ applying = {} /\ newerRpcs = 0 /\ faults = 0
      /\ reforwarded = [n \in Server |-> {}]
  BY DEF Init, InitMetadata
<1>2. /\ InitialMembers \in Seq(Server) /\ IsInjective(InitialMembers)
      /\ InitialMode \in Mode
  BY MetadataAssumption
<1>3. cluster \in Config /\ cluster.members = InitialMembers /\ cluster.epoch = 1
  BY <1>1, <1>2 DEF Config
<1>4. MetadataInv
  <2>1. last_heartbeat \in [Server -> {"none", "recent", "old"}]
    BY <1>1
  <2>2. modeThreads \in [Mode -> Nat] /\ \A m \in Mode : modeThreads[m] <= setModes
    BY <1>1
  <2>3. joining \in BOOLEAN /\ (joining => Joiner # NoServer)
    BY <1>1
  <2>4. \A config \in issued : config \in Config /\ IsInjective(config.members)
    BY <1>1, <1>2, <1>3
  <2>5. failed \in Server \cup {NoServer} /\ setModes \in 0..MaxModeChanges
    BY <1>1, Bounds
  <2> QED  BY <1>1, <2>1, <2>2, <2>3, <2>4, <2>5 DEF MetadataInv
<1>5. ThreadTypes
  BY <1>1, Bounds DEF ThreadTypes
<1>6. Waiting = {}
  <2>1. \A m \in Mode, i \in Nat \ {0} : ~(i <= modeThreads[m])
    BY <1>1
  <2> QED  BY <2>1 DEF Waiting
<1>7. Doomed = {}
  <2>1. \A n \in Range(InitialMembers) : n \in Server /\ n \in up
    BY <1>1, <1>2, MembersOf, MembershipAssumption
  <2>2. \A n \in Server : last_heartbeat[n] # "old" /\ failed # n
    BY <1>1, MetadataAssumption
  <2> QED  BY <1>3, <2>1, <2>2 DEF Doomed
<1>8. CountInv
  <2>1. /\ IsFiniteSet(Waiting) /\ Cardinality(Waiting) = 0
        /\ IsFiniteSet(Doomed) /\ Cardinality(Doomed) = 0
    BY <1>6, <1>7, FS_EmptySet
  <2>2. (IF joining THEN 2 ELSE 0) = (IF Joiner = NoServer THEN 0 ELSE 2)
    BY <1>1
  <2>3. PICK b \in Nat : /\ (IF joining THEN 2 ELSE 0) = b
                         /\ (IF Joiner = NoServer THEN 0 ELSE 2) = b
    BY <2>2
  <2>4. 1 + 0 + 0 + b <= 1 + b + 0 + 0
    OBVIOUS
  <2> QED  BY <1>1, <1>3, <2>1, <2>3, <2>4, Zenon DEF CountInv
<1> QED  BY <1>4, <1>5, <1>8, InvInit DEF TypeInv

LEMMA TypesNext == TypeInv /\ [Next]_vars => TypeInv'
<1> SUFFICES ASSUME TypeInv, [Next]_vars PROVE TypeInv'
  OBVIOUS
<1>1. Inv'
  BY InvNext DEF TypeInv
<1>2. CASE Next
  BY <1>1, <1>2, StoreTypes, ServerTypes DEF TypeInv
<1>3. CASE UNCHANGED vars
  <2>1. MetadataInv' /\ ThreadTypes'
    BY <1>3 DEF TypeInv, MetadataInv, ThreadTypes, vars, metadataVars, serverVars
  <2>2. CountInv'
    BY <1>3, CountRests DEF Doomed, vars, metadataVars, serverVars
  <2> QED  BY <1>1, <2>1, <2>2 DEF TypeInv
<1> QED  BY <1>2, <1>3

\* The types, among them that no epoch comes after the last one that the
\* changes of mode, the join and the faults account for.
THEOREM MembershipTypes == Spec => []TypeOK
<1>1. TypeInv => TypeOK
  <2> SUFFICES ASSUME TypeInv PROVE TypeOK
    OBVIOUS
  <2>0. /\ MetadataInv /\ ThreadTypes /\ CountInv
        /\ IssuedInv /\ Underway /\ RingInv /\ BootInv /\ ThreadInv
    BY DEF TypeInv, Inv
  <2>1. /\ cluster \in Config /\ cluster.epoch \in Nat \ {0}
        /\ \A config \in issued : config \in Config
    BY <2>0 DEF MetadataInv, IssuedInv
  <2>2. NoConfig \in Config
    BY MetadataAssumption DEF NoConfig, Config
  <2>3. \A config \in Known : config \in Config /\ config.members \in Seq(Server)
    BY <2>1, <2>2 DEF Known, Config
  <2>4. MaxEpoch \in Nat /\ cluster.epoch <= MaxEpoch
    <3> DEFINE j == IF joining THEN 2 ELSE 0
               b == IF Joiner = NoServer THEN 0 ELSE 2
    <3>1. cluster.epoch + Cardinality(Waiting) + Cardinality(Doomed) + j
            <= 1 + b + setModes + faults
      BY <2>0 DEF CountInv
    <3>2. /\ Cardinality(Waiting) \in Nat /\ Cardinality(Doomed) \in Nat
          /\ j \in Nat /\ b \in Nat /\ cluster.epoch \in Nat
      BY <2>1, Numbers
    <3>3. /\ setModes \in Nat /\ setModes <= MaxModeChanges
          /\ faults \in Nat /\ faults <= MaxFaults
          /\ MaxModeChanges \in Nat /\ MaxFaults \in Nat
      BY <2>0, Bounds DEF MetadataInv, ThreadTypes
    <3>4. MaxEpoch = 1 + b + MaxModeChanges + MaxFaults
      BY DEF MaxEpoch
    <3> HIDE DEF j, b
    <3>5. 1 + b + setModes + faults <= 1 + b + MaxModeChanges + MaxFaults
      BY <3>2, <3>3
    <3>6. cluster.epoch <= 1 + b + setModes + faults
      BY <3>1, <3>2, <3>3
    <3> QED  BY <3>2, <3>3, <3>4, <3>5, <3>6
  <2>5. MetadataTypeOK
    <3>1. modeThreads \in [Mode -> 0..MaxModeChanges]
      <4>1. /\ modeThreads \in [Mode -> Nat] /\ setModes \in Nat
            /\ \A m \in Mode : modeThreads[m] <= setModes
            /\ setModes <= MaxModeChanges /\ MaxModeChanges \in Nat
        BY <2>0, Bounds DEF MetadataInv
      <4>2. \A m \in Mode : modeThreads[m] \in 0..MaxModeChanges
        BY <4>1
      <4> QED  BY <4>1, <4>2
    <3>2. reconfigures \subseteq [to : Server, config : Config]
      BY <2>0, <2>1 DEF MetadataInv
    <3>3. cluster.epoch \in 1..MaxEpoch
      BY <2>1, <2>4
    <3> QED  BY <2>0, <2>1, <3>1, <3>2, <3>3 DEF MetadataInv, MetadataTypeOK
  <2>6. ASSUME NEW n \in Server
        PROVE  /\ state[n] \in [status : {"STARTING", "NORMAL"}, config : Config]
               /\ reforwarded[n] \subseteq 1..MaxEpoch
    <3>1. state[n] \in [status : {"STARTING", "NORMAL"}, config : Known]
      BY <2>0 DEF Underway
    <3>2. state[n] \in [status : {"STARTING", "NORMAL"}, config : Config]
      BY <2>3, <3>1
    <3>3. epoch(n) \in Nat /\ epoch(n) <= cluster.epoch
      BY <2>0, <2>1, <3>1 DEF epoch, Known, IssuedInv, NoConfig
    <3>4. reforwarded[n] \subseteq Nat \ {0}
          /\ \A e \in reforwarded[n] : e <= epoch(n)
      BY <2>0 DEF ThreadInv, ThreadTypes
    <3>5. \A e \in reforwarded[n] : e \in 1..MaxEpoch
      BY <2>1, <2>4, <3>3, <3>4
    <3> QED  BY <3>2, <3>5
  <2>7. ring \in [Server -> [Mode -> [members : Seq(Server), epoch : Nat]]]
    <3>1. Ring \subseteq [members : Seq(Server), epoch : Nat]
      BY <2>3 DEF Ring
    <3> QED  BY <2>0, <3>1 DEF RingInv
  <2>8. refreshing \subseteq Refresh
    <3> SUFFICES ASSUME NEW r \in refreshing PROVE r \in Refresh
      OBVIOUS
    <3>1. /\ r \in [node : Server, config : issued, via : Via]
          /\ r.via \in {"boot", "heartbeat", "rpc"}
      BY <2>0 DEF Underway, ThreadTypes
    <3> QED  BY <2>1, <3>1 DEF Refresh
  <2>9. applying \subseteq Thread
    <3> SUFFICES ASSUME NEW t \in applying PROVE t \in Thread
      OBVIOUS
    <3>1. /\ t \in [node : Server, config : issued, advanced : BOOLEAN,
                    via : Via, left : Seq(Mode) \ {<<>>}, half : BOOLEAN]
          /\ t.via \in {"heartbeat", "rpc", "Reconfigure"}
      BY <2>0 DEF Underway, ThreadTypes
    <3> QED  BY <2>1, <3>1 DEF Thread
  <2> QED  BY <2>0, <2>5, <2>6, <2>7, <2>8, <2>9
           DEF BootInv, ThreadTypes, TypeOK
<1>2. Spec => []TypeInv
  BY TypesInit, TypesNext, PTL DEF Spec
<1> QED  BY <1>1, <1>2, PTL

================================================================================

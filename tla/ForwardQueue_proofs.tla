------------------------ MODULE ForwardQueue_proofs ------------------------
(***************************************************************************)
(* The forward queue for any number of producers and workers.  Everything  *)
(* rests on counting: each call since the first waiter fell asleep has     *)
(* moved the queue by one task and owes one wake-up, so with a queue of at *)
(* least twice as many tasks as threads the waiters of one side are all    *)
(* awake before the other side has a reason to wait.                       *)
(***************************************************************************)
EXTENDS ForwardQueue, FiniteSetTheorems, TLAPS

\* While a producer waits, the room in the queue is owed in wake-ups.
RoomIsOwed ==
  waiting \cap Producer # {} =>
    Cardinality(waiting) + kMaxForwardQueueSize
      <= Len(queue) + Cardinality(Thread) + Cardinality(Notifying)

\* While a worker waits, so are the tasks.
TasksAreOwed ==
  waiting \cap Worker # {} =>
    Cardinality(waiting) + Len(queue)
      <= Cardinality(Thread) + Cardinality(Notifying)

WaitInv == TypeOK /\ OneSideWaits /\ RoomIsOwed /\ TasksAreOwed

-----------------------------------------------------------------------------
LEMMA ThreadsFinite ==
  /\ IsFiniteSet(Thread) /\ Cardinality(Thread) \in Nat
  /\ IsFiniteSet(Producer) /\ IsFiniteSet(Worker)
BY QueueAssumption, FS_Union, FS_CardinalityType DEF Thread

\* Threads asleep have nobody to notify, and a thread awake elsewhere is one
\* less that could do either.
LEMMA Counts ==
  ASSUME TypeOK
  PROVE  /\ IsFiniteSet(waiting) /\ Cardinality(waiting) \in Nat
         /\ IsFiniteSet(Notifying) /\ Cardinality(Notifying) \in Nat
         /\ IsFiniteSet(Coming) /\ Cardinality(Coming) \in Nat
         /\ Cardinality(waiting) + Cardinality(Notifying) <= Cardinality(Thread)
         /\ \A t \in Thread : t \notin waiting \cup Notifying =>
              Cardinality(waiting) + Cardinality(Notifying) < Cardinality(Thread)
<1>1. /\ waiting \in SUBSET Thread /\ Notifying \in SUBSET Thread
      /\ Coming \in SUBSET Thread /\ waiting \cap Notifying = {}
  BY DEF TypeOK, Notifying, Coming, Thread
<1>2. /\ IsFiniteSet(waiting) /\ Cardinality(waiting) \in Nat
      /\ IsFiniteSet(Notifying) /\ Cardinality(Notifying) \in Nat
      /\ IsFiniteSet(Coming) /\ Cardinality(Coming) \in Nat
  BY <1>1, ThreadsFinite, FS_Subset, FS_CardinalityType
<1> DEFINE both == waiting \cup Notifying
<1>3. /\ IsFiniteSet(both)
      /\ Cardinality(both) = Cardinality(waiting) + Cardinality(Notifying)
  <2>1. Cardinality(waiting \cap Notifying) = 0
    BY <1>1, FS_EmptySet
  <2>2. /\ IsFiniteSet(both)
        /\ Cardinality(both) = Cardinality(waiting) + Cardinality(Notifying)
                                 - Cardinality(waiting \cap Notifying)
    BY <1>2, FS_Union
  <2> QED  BY <1>2, <2>1, <2>2
<1>4. Cardinality(both) <= Cardinality(Thread)
  BY <1>1, ThreadsFinite, FS_Subset
<1>5. ASSUME NEW t \in Thread, t \notin both
      PROVE  Cardinality(both) < Cardinality(Thread)
  <2>1. Cardinality(both) # Cardinality(Thread)
    BY <1>1, <1>5, ThreadsFinite, FS_Subset
  <2> QED  BY <1>2, <1>3, <1>4, <2>1, ThreadsFinite
<1> QED  BY <1>2, <1>3, <1>4, <1>5

LEMMA CountsLater ==
  TypeOK' => (Cardinality(waiting) \in Nat /\ Cardinality(Notifying) \in Nat)'
<1>1. TypeOK => Cardinality(waiting) \in Nat /\ Cardinality(Notifying) \in Nat
  BY Counts
<1> QED  BY <1>1, PTL

\* A thread that goes somewhere else to notify, or from notifying.
LEMMA GoingToNotify ==
  ASSUME TypeOK, NEW t \in Thread, GoTo(t, "notify")
  PROVE  Notifying' = Notifying \cup {t}
BY DEF TypeOK, GoTo, Notifying

LEMMA GoingElsewhere ==
  ASSUME TypeOK, NEW t \in Thread, NEW place, place # "notify", GoTo(t, place)
  PROVE  Notifying' = Notifying \ {t}
BY DEF TypeOK, GoTo, Notifying

\* The tasks that come: a producer starts with one, or it has queued it.
LEMMA Comers ==
  ASSUME TypeOK, NEW t \in Thread, NEW place, GoTo(t, place)
  PROVE  /\ Coming' = IF place = "enqueue" /\ t \in Producer
                      THEN Coming \cup {t} ELSE Coming \ {t}
BY DEF TypeOK, GoTo, Coming, Thread

-----------------------------------------------------------------------------
\* The state keeps its type; in particular the queue never exceeds its bound.
LEMMA TypeInductive == TypeOK /\ [Next]_vars => TypeOK'
<1> SUFFICES ASSUME TypeOK, [Next]_vars PROVE TypeOK'
  OBVIOUS
<1> USE QueueAssumption
<1>1. ASSUME NEW p \in Producer, ForwardPut(p) PROVE TypeOK'
  <2>1. GoTo(p, "enqueue") /\ p \in Thread
    BY <1>1 DEF ForwardPut, Thread
  <2>2. Coming' = Coming \cup {p} /\ p \notin Coming
    BY <1>1, <2>1, Comers DEF ForwardPut, Coming
  <2>3. Cardinality(Coming') = Cardinality(Coming) + 1
    BY <2>2, Counts, FS_AddElement
  <2>4. accepted' + Cardinality(Coming)' <= MaxTasks
    BY <1>1, <2>3, Counts DEF ForwardPut, TypeOK
  <2> QED  BY <1>1, <2>4 DEF ForwardPut, TypeOK, GoTo, Thread
<1>2. ASSUME NEW p \in Producer, Enqueue(p) PROVE TypeOK'
  <2>1. GoTo(p, "notify") /\ p \in Thread
    BY <1>2 DEF Enqueue, Thread
  <2>2. Coming' = Coming \ {p} /\ p \in Coming
    BY <1>2, <2>1, Comers DEF Enqueue, Coming, Awake
  <2>3. Cardinality(Coming') = Cardinality(Coming) - 1 /\ Cardinality(Coming) >= 1
    <3>1. Cardinality(Coming') = Cardinality(Coming) - 1 /\ IsFiniteSet(Coming')
      BY <2>2, Counts, FS_RemoveElement
    <3> QED  BY <3>1, Counts, FS_CardinalityType
  <2>4. accepted' + Cardinality(Coming)' <= MaxTasks /\ accepted' \in Task
    BY <1>2, <2>3, Counts DEF Enqueue, TypeOK, Task
  <2>5. queue' \in Seq(Task) /\ Len(queue') <= kMaxForwardQueueSize
    BY <1>2, <2>4 DEF Enqueue, TypeOK
  <2> QED  BY <1>2, <2>4, <2>5 DEF Enqueue, Awake, TypeOK, GoTo, Thread, Task
<1>3. ASSUME NEW p \in Producer, EnqueueDropped(p) PROVE TypeOK'
  <2>1. GoTo(p, "idle") /\ p \in Thread
    BY <1>3 DEF EnqueueDropped, Thread
  <2>2. Coming' = Coming \ {p}
    BY <2>1, Comers
  <2>3. Cardinality(Coming') <= Cardinality(Coming) /\ Cardinality(Coming') \in Nat
    BY <2>2, Counts, FS_Subset, FS_CardinalityType
  <2>4. accepted' + Cardinality(Coming)' <= MaxTasks
    BY <1>3, <2>3, Counts DEF EnqueueDropped, TypeOK
  <2> QED  BY <1>3, <2>4 DEF EnqueueDropped, Awake, TypeOK, GoTo, Thread
<1>4. ASSUME NEW w \in Worker, Get(w) PROVE TypeOK'
  <2>1. GoTo(w, "notify") /\ w \in Thread /\ w \notin Producer
    BY <1>4 DEF Get, Thread
  <2>2. Coming' = Coming
    BY <2>1, Comers DEF Coming
  <2>3. /\ Head(queue) \in 1..MaxTasks
        /\ queue' \in Seq(Task) /\ Len(queue') <= kMaxForwardQueueSize
    BY <1>4 DEF Get, TypeOK, Task
  <2>4. holds' \in [Worker -> 0..MaxTasks]
    BY <1>4, <2>3 DEF Get, TypeOK
  <2>5. accepted' + Cardinality(Coming)' <= MaxTasks
    BY <1>4, <2>2 DEF Get, TypeOK
  <2> QED  BY <1>4, <2>3, <2>4, <2>5 DEF Get, Awake, TypeOK, GoTo, Thread
<1>5. ASSUME NEW w \in Worker, End(w) PROVE TypeOK'
  <2>1. Coming' = Coming
    BY <1>5, Comers DEF End, Coming, Thread
  <2>2. accepted' + Cardinality(Coming)' <= MaxTasks
    BY <1>5, <2>1 DEF End, TypeOK
  <2> QED  BY <1>5, <2>2 DEF End, Awake, TypeOK, GoTo, Thread
<1>6. ASSUME NEW t \in Thread, NotifyOne(t) PROVE TypeOK'
  <2>1. Coming' = Coming
    BY <1>6, Comers DEF NotifyOne, Coming
  <2>2. accepted' + Cardinality(Coming)' <= MaxTasks
    BY <1>6, <2>1 DEF NotifyOne, TypeOK
  <2> QED  BY <1>6, <2>2 DEF NotifyOne, TypeOK, GoTo, Thread
<1>7. ASSUME NEW w \in Worker, Send(w) PROVE TypeOK'
  <2>1. Coming' = Coming
    BY <1>7, Comers DEF Send, Coming, Thread
  <2>2. accepted' + Cardinality(Coming)' <= MaxTasks
    BY <1>7, <2>1 DEF Send, TypeOK
  <2>3. at[w] = "send" /\ w \notin waiting
    BY <1>7 DEF Send, TypeOK
  <2>4. holds[w] \in Task
    BY <1>7, <2>3 DEF TypeOK, Task
  <2>5. /\ holds' \in [Worker -> 0..MaxTasks] /\ holds'[w] = 0
        /\ \A v \in Worker \ {w} : holds'[v] = holds[v]
    BY <1>7 DEF Send, TypeOK
  <2>6. /\ at' \in [Thread -> {"idle", "enqueue", "get", "notify", "send", "ended"}]
        /\ at'[w] = "get" /\ \A t \in Thread \ {w} : at'[t] = at[t]
    BY <1>7 DEF Send, TypeOK, GoTo, Thread
  <2>7. sent' \subseteq Task
    BY <1>7, <2>4 DEF Send, TypeOK
  <2> QED  BY <1>7, <2>2, <2>3, <2>5, <2>6, <2>7 DEF Send, TypeOK, Thread
<1>8. CASE UNCHANGED <<accepted, at>> /\ UNCHANGED vars
  BY <1>8 DEF TypeOK, vars, Coming
<1>9. ASSUME NEW t \in Thread, at[t] \in {"enqueue", "get"}, Wait(t) PROVE TypeOK'
  BY <1>9 DEF Wait, TypeOK, Coming
<1>10. ASSUME NEW t \in Thread, SpuriousWakeup(t) PROVE TypeOK'
  BY <1>10 DEF SpuriousWakeup, TypeOK, Coming
<1>11. ASSUME Shutdown \/ NotifyAll \/ Join PROVE TypeOK'
  BY <1>11 DEF Shutdown, NotifyAll, Join, TypeOK, Coming
<1> QED
  BY <1>1, <1>2, <1>3, <1>4, <1>5, <1>6, <1>7, <1>8, <1>9, <1>10, <1>11
  DEF Next, ProducerStep, WorkerStep, EnqueueWaits, GetWaits, Awake, Thread, vars

LEMMA InitTyped == Init => TypeOK
<1> SUFFICES ASSUME Init PROVE TypeOK
  OBVIOUS
<1>1. Coming = {}
  BY DEF Init, Coming, Thread
<1>2. Cardinality(Coming) = 0
  BY <1>1, FS_EmptySet
<1> QED  BY <1>2, QueueAssumption DEF Init, TypeOK, Thread, Task

\* The queue never holds more than its bound, and everything has its type.
THEOREM TypeCorrect == Spec => []TypeOK
BY InitTyped, TypeInductive, PTL DEF Spec

-----------------------------------------------------------------------------
\* A producer that finds the queue full finds no worker asleep, for those
\* would have been woken long before.
LEMMA FullQueueWorkersAwake ==
  ASSUME WaitInv, NEW p \in Producer, Awake(p, "enqueue"),
         Len(queue) >= kMaxForwardQueueSize
  PROVE  waiting \cap Worker = {}
<1> SUFFICES ASSUME waiting \cap Worker # {} PROVE FALSE
  OBVIOUS
<1>1. Cardinality(waiting) + Cardinality(Notifying) < Cardinality(Thread)
  BY Counts DEF WaitInv, Awake, Notifying, Thread
<1>2. Cardinality(waiting) + Len(queue)
        <= Cardinality(Thread) + Cardinality(Notifying)
  BY DEF WaitInv, TasksAreOwed
<1> QED
  BY <1>1, <1>2, Counts, ThreadsFinite, QueueAssumption DEF WaitInv, TypeOK

\* Nor does a worker that finds it empty find a producer asleep.
LEMMA EmptyQueueProducersAwake ==
  ASSUME WaitInv, NEW w \in Worker, Awake(w, "get"), queue = <<>>
  PROVE  waiting \cap Producer = {}
<1> SUFFICES ASSUME waiting \cap Producer # {} PROVE FALSE
  OBVIOUS
<1>1. Cardinality(waiting) + Cardinality(Notifying) < Cardinality(Thread)
  BY Counts DEF WaitInv, Awake, Notifying, Thread
<1>2. Cardinality(waiting) + kMaxForwardQueueSize
        <= Cardinality(Thread) + Cardinality(Notifying)
  BY ThreadsFinite, Counts DEF WaitInv, RoomIsOwed
<1> QED
  BY <1>1, <1>2, Counts, ThreadsFinite, QueueAssumption DEF WaitInv, TypeOK

\* A step that only puts awake, and owes no fewer wake-ups, keeps the rest.
LEMMA WakingKeeps ==
  ASSUME WaitInv, TypeOK', waiting' \subseteq waiting,
         Cardinality(waiting)' - Cardinality(Notifying)' + Len(queue)'
           <= Cardinality(waiting) - Cardinality(Notifying) + Len(queue),
         Cardinality(waiting)' - Cardinality(Notifying)' - Len(queue)'
           <= Cardinality(waiting) - Cardinality(Notifying) - Len(queue)
  PROVE  (OneSideWaits /\ RoomIsOwed /\ TasksAreOwed)'
<1>1. /\ Cardinality(waiting) \in Nat /\ Cardinality(waiting)' \in Nat
      /\ Cardinality(Notifying) \in Nat /\ Cardinality(Notifying)' \in Nat
  BY Counts, CountsLater DEF WaitInv
<1>2. Len(queue) \in Nat /\ Len(queue)' \in Nat
  BY DEF WaitInv, TypeOK
<1>3. OneSideWaits'
  BY DEF WaitInv, OneSideWaits
<1>4. RoomIsOwed'
  <2> SUFFICES ASSUME waiting' \cap Producer # {}
               PROVE  Cardinality(waiting)' + kMaxForwardQueueSize
                        <= Len(queue)' + Cardinality(Thread) + Cardinality(Notifying)'
    BY DEF RoomIsOwed
  <2>1. Cardinality(waiting) + kMaxForwardQueueSize
          <= Len(queue) + Cardinality(Thread) + Cardinality(Notifying)
    BY DEF WaitInv, RoomIsOwed
  <2>2. kMaxForwardQueueSize \in Nat /\ Cardinality(Thread) \in Nat
    BY ThreadsFinite, QueueAssumption
  <2> HIDE DEF Thread
  <2> QED  BY <2>1, <2>2, <1>1, <1>2, SMTT(60)
<1>5. TasksAreOwed'
  BY <1>1, <1>2, ThreadsFinite DEF WaitInv, TasksAreOwed
<1> QED  BY <1>3, <1>4, <1>5

\* One side waits, for wake-ups that are owed.
LEMMA WaitInductive == WaitInv /\ [Next]_vars => WaitInv'
<1> SUFFICES ASSUME WaitInv, [Next]_vars PROVE WaitInv'
  OBVIOUS
<1>t. TypeOK /\ TypeOK'
  BY TypeInductive DEF WaitInv
<1>n. /\ Cardinality(waiting) \in Nat /\ Cardinality(Notifying) \in Nat
      /\ IsFiniteSet(waiting) /\ IsFiniteSet(Notifying)
      /\ Len(queue) \in Nat
  BY <1>t, Counts DEF TypeOK
<1>1. ASSUME NEW p \in Producer, EnqueueWaits(p) PROVE WaitInv'
  <2>1. waiting \cap Worker = {}
    BY <1>1, FullQueueWorkersAwake DEF EnqueueWaits
  <2>2. waiting' \cap Worker = {} /\ waiting' = waiting \cup {p} /\ p \notin waiting
    BY <1>1, <2>1, QueueAssumption DEF EnqueueWaits, Wait, Awake
  <2>3. OneSideWaits' /\ TasksAreOwed'
    BY <2>2, <1>t DEF OneSideWaits, TasksAreOwed, TypeOK, Thread
  <2>4. Cardinality(waiting') = Cardinality(waiting) + 1
    BY <2>2, <1>n, FS_AddElement
  <2>5. Notifying' = Notifying
    BY <1>1 DEF EnqueueWaits, Wait, Notifying
  <2>6. Cardinality(waiting) + Cardinality(Notifying) < Cardinality(Thread)
    BY <1>1, <1>t, Counts DEF EnqueueWaits, Awake, Notifying, Thread
  <2>7. Len(queue') >= kMaxForwardQueueSize /\ Len(queue') \in Nat
    BY <1>1, <1>n DEF EnqueueWaits, Wait
  <2>8. RoomIsOwed'
    BY <2>4, <2>5, <2>6, <2>7, <1>n, ThreadsFinite, QueueAssumption DEF RoomIsOwed
  <2> QED  BY <1>t, <2>3, <2>8 DEF WaitInv
<1>2. ASSUME NEW w \in Worker, GetWaits(w) PROVE WaitInv'
  <2>1. waiting \cap Producer = {}
    BY <1>2, EmptyQueueProducersAwake DEF GetWaits
  <2>2. /\ waiting' \cap Producer = {}
        /\ waiting' = waiting \cup {w} /\ w \notin waiting
    BY <1>2, <2>1, QueueAssumption DEF GetWaits, Wait, Awake
  <2>3. OneSideWaits' /\ RoomIsOwed'
    BY <2>2, <1>t DEF OneSideWaits, RoomIsOwed, TypeOK, Thread
  <2>4. Cardinality(waiting') = Cardinality(waiting) + 1
    BY <2>2, <1>n, FS_AddElement
  <2>5. Notifying' = Notifying
    BY <1>2 DEF GetWaits, Wait, Notifying
  <2>6. Cardinality(waiting) + Cardinality(Notifying) < Cardinality(Thread)
    BY <1>2, <1>t, Counts DEF GetWaits, Awake, Notifying, Thread
  <2>7. Len(queue') = 0
    BY <1>2 DEF GetWaits, Wait
  <2>8. TasksAreOwed'
    BY <2>4, <2>5, <2>6, <2>7, <1>n, ThreadsFinite DEF TasksAreOwed
  <2> QED  BY <1>t, <2>3, <2>8 DEF WaitInv
<1>3. ASSUME NEW t \in Thread, t \notin Notifying, GoTo(t, "notify"),
             UNCHANGED waiting,
             \/ Len(queue') = Len(queue) + 1
             \/ Len(queue') = Len(queue) - 1
      PROVE  WaitInv'
  <2>1. Cardinality(Notifying') = Cardinality(Notifying) + 1
    BY <1>3, <1>t, <1>n, GoingToNotify, FS_AddElement
  <2> QED  BY <1>3, <2>1, <1>t, <1>n, WakingKeeps DEF WaitInv
<1>4. ASSUME NEW t \in Thread, NotifyOne(t) PROVE WaitInv'
  <2>1. Notifying' = Notifying \ {t} /\ t \in Notifying
    BY <1>4, <1>t, GoingElsewhere DEF NotifyOne, Notifying
  <2>2. Cardinality(Notifying') = Cardinality(Notifying) - 1
    BY <2>1, <1>n, FS_RemoveElement
  <2>3. CASE waiting = {}
    <3>1. waiting' = {}
      BY <1>4, <2>3 DEF NotifyOne
    <3> QED  BY <3>1, <1>t DEF WaitInv, OneSideWaits, RoomIsOwed, TasksAreOwed
  <2>4. CASE waiting # {}
    <3>1. PICK u \in waiting : waiting' = waiting \ {u}
      BY <1>4, <2>4 DEF NotifyOne
    <3>2. Cardinality(waiting') = Cardinality(waiting) - 1
      BY <3>1, <1>n, FS_RemoveElement
    <3>3. Len(queue') = Len(queue)
      BY <1>4 DEF NotifyOne
    <3> QED  BY <2>2, <3>1, <3>2, <3>3, <1>t, <1>n, WakingKeeps DEF WaitInv
  <2> QED  BY <2>3, <2>4
<1>5. ASSUME UNCHANGED queue, waiting' \subseteq waiting, Notifying' = Notifying
      PROVE  WaitInv'
  <2>1. Cardinality(waiting') <= Cardinality(waiting) /\ Cardinality(waiting') \in Nat
    BY <1>5, <1>n, FS_Subset, FS_CardinalityType
  <2> QED  BY <1>5, <2>1, <1>t, <1>n, WakingKeeps DEF WaitInv
<1>6. ASSUME NEW p \in Producer, Enqueue(p) PROVE WaitInv'
  <2>1. Len(queue') = Len(queue) + 1
    BY <1>6, <1>t DEF Enqueue, TypeOK
  <2> QED  BY <1>3, <1>6, <2>1 DEF Enqueue, Awake, Notifying, Thread
<1>7. ASSUME NEW w \in Worker, Get(w) PROVE WaitInv'
  <2>1. Len(queue') = Len(queue) - 1
    BY <1>7, <1>t DEF Get, TypeOK
  <2> QED  BY <1>3, <1>7, <2>1 DEF Get, Awake, Notifying, Thread
<1>8. ASSUME NEW t \in Thread, NEW place, place # "notify", t \notin Notifying,
             GoTo(t, place), UNCHANGED <<queue, waiting>>
      PROVE  WaitInv'
  <2>1. Notifying' = Notifying
    BY <1>8, <1>t, GoingElsewhere
  <2> QED  BY <1>5, <1>8, <2>1
<1>9. ASSUME \E p \in Producer : ForwardPut(p) \/ EnqueueDropped(p) PROVE WaitInv'
  BY <1>8, <1>9 DEF ForwardPut, EnqueueDropped, Awake, Notifying, Thread
<1>10. ASSUME \E w \in Worker : End(w) \/ Send(w) PROVE WaitInv'
  BY <1>8, <1>10 DEF End, Send, Awake, Notifying, Thread
<1>11. ASSUME \/ \E t \in Thread : SpuriousWakeup(t)
              \/ Shutdown \/ NotifyAll \/ Join \/ UNCHANGED vars
       PROVE  WaitInv'
  BY <1>5, <1>11
  DEF SpuriousWakeup, Shutdown, NotifyAll, Join, vars, Notifying
<1> QED
  BY <1>1, <1>2, <1>4, <1>6, <1>7, <1>9, <1>10, <1>11
  DEF Next, ProducerStep, WorkerStep, Thread

LEMMA WaitHolds == Spec => []WaitInv
<1>1. Init => TypeOK
  BY InitTyped
<1>2. Init => WaitInv
  BY <1>1 DEF Init, WaitInv, OneSideWaits, RoomIsOwed, TasksAreOwed
<1> QED  BY <1>2, WaitInductive, PTL DEF Spec

\* Producers and workers never wait together, as long as the queue is twice as
\* long as there are threads.
THEOREM NeverBothWait == Spec => []OneSideWaits
BY WaitHolds, PTL DEF WaitInv

-----------------------------------------------------------------------------
\* A thread that puts another awake wakes the side that waits, so that side
\* does not all wait afterwards.
LEMMA WakesItsSide ==
  ASSUME WaitInv, NEW u \in waiting, waiting' = waiting \ {u},
         NEW Side \in {Producer, Worker}
  PROVE  ~ Side \subseteq waiting'
<1>1. Producer # {} /\ Worker # {} /\ Producer \cap Worker = {} /\ u \in Thread
  BY QueueAssumption DEF WaitInv, TypeOK
<1> QED  BY <1>1 DEF WaitInv, OneSideWaits, Thread

LEMMA WakeupInductive ==
  WaitInv /\ NoLostWakeup /\ [Next]_vars => NoLostWakeup'
<1> SUFFICES ASSUME WaitInv, NoLostWakeup, [Next]_vars PROVE NoLostWakeup'
  OBVIOUS
<1>t. TypeOK
  BY DEF WaitInv
<1>e. Producer # {} /\ Worker # {} /\ Producer \cap Worker = {}
  BY QueueAssumption
<1>1. ASSUME NEW t \in Thread, GoTo(t, "notify") PROVE NoLostWakeup'
  BY <1>1, <1>t, GoingToNotify DEF NoLostWakeup
<1>2. ASSUME NEW t \in Thread, t \notin Notifying, NEW place, place # "notify",
             GoTo(t, place), UNCHANGED <<queue, waiting, dtor>>
      PROVE  NoLostWakeup'
  <2>1. Notifying' = Notifying
    BY <1>2, <1>t, GoingElsewhere
  <2> QED  BY <1>2, <2>1 DEF NoLostWakeup
<1>3. ASSUME NEW u \in waiting, waiting' = waiting \ {u} PROVE NoLostWakeup'
  BY <1>3, WakesItsSide DEF NoLostWakeup
<1>4. ASSUME waiting' = {} PROVE NoLostWakeup'
  BY <1>4, <1>e DEF NoLostWakeup
<1>5. ASSUME NEW p \in Producer, EnqueueWaits(p) PROVE NoLostWakeup'
  <2>1. Notifying' = Notifying
    BY <1>5 DEF EnqueueWaits, Wait, Notifying
  <2>2. ~ Len(queue') < kMaxForwardQueueSize
    BY <1>5, <1>t, QueueAssumption DEF EnqueueWaits, Wait, TypeOK
  <2>3. Worker \subseteq waiting' => Worker \subseteq waiting
    BY <1>5, <1>e DEF EnqueueWaits, Wait
  <2> QED  BY <1>5, <2>1, <2>2, <2>3 DEF NoLostWakeup, EnqueueWaits, Wait
<1>6. ASSUME NEW w \in Worker, GetWaits(w) PROVE NoLostWakeup'
  <2>1. Notifying' = Notifying
    BY <1>6 DEF GetWaits, Wait, Notifying
  <2>2. Producer \subseteq waiting' => Producer \subseteq waiting
    BY <1>6, <1>e DEF GetWaits, Wait
  <2> QED  BY <1>6, <2>1, <2>2 DEF NoLostWakeup, GetWaits, Wait
<1>7. ASSUME NEW t \in Thread, NotifyOne(t) PROVE NoLostWakeup'
  BY <1>7, <1>3, <1>4 DEF NotifyOne
<1>8. ASSUME \E p \in Producer : ForwardPut(p) \/ EnqueueDropped(p)
      PROVE  NoLostWakeup'
  BY <1>2, <1>8 DEF ForwardPut, EnqueueDropped, Awake, Notifying, Thread
<1>9. ASSUME \E w \in Worker : End(w) \/ Send(w) PROVE NoLostWakeup'
  BY <1>2, <1>9 DEF End, Send, Awake, Notifying, Thread
<1>10. ASSUME Shutdown PROVE NoLostWakeup'
  BY <1>10 DEF Shutdown, NoLostWakeup
<1>11. ASSUME Join \/ UNCHANGED vars PROVE NoLostWakeup'
  BY <1>11 DEF Join, vars, NoLostWakeup, Notifying
<1> QED
  BY <1>1, <1>3, <1>4, <1>5, <1>6, <1>7, <1>8, <1>9, <1>10, <1>11
  DEF Next, ProducerStep, WorkerStep, Enqueue, Get, SpuriousWakeup, NotifyAll, Thread

\* While there is something to do for one side, not all of it sleeps unless a
\* wake-up is on its way.
THEOREM WakeupsReachTheirSide == Spec => []NoLostWakeup
<1>1. Init => NoLostWakeup
  BY QueueAssumption DEF Init, NoLostWakeup
<1> QED  BY <1>1, WaitHolds, WakeupInductive, PTL DEF Spec

-----------------------------------------------------------------------------
\* Where the tasks accepted are.
Queued(k) == \E i \in 1..Len(queue) : queue[i] = k

Held(k) == \E w \in Worker : holds[w] = k

Accounted ==
  /\ \A k \in 1..accepted : k \in sent \/ Queued(k) \/ Held(k)
  /\ sent \subseteq 1..accepted
  /\ \A i \in 1..Len(queue) : queue[i] <= accepted
  /\ \A w \in Worker : holds[w] <= accepted
  /\ \A w \in Worker : at[w] = "ended" => forward_shutdown /\ queue = <<>>

LEMMA AccountInductive ==
  TypeOK /\ Accounted /\ [Next]_vars => Accounted'
<1> SUFFICES ASSUME TypeOK, Accounted, [Next]_vars PROVE Accounted'
  OBVIOUS
<1>1. ASSUME NEW p \in Producer, Enqueue(p) PROVE Accounted'
  <2>1. /\ accepted' = accepted + 1 /\ accepted \in Nat
        /\ Len(queue') = Len(queue) + 1 /\ Len(queue) \in Nat
        /\ queue'[Len(queue) + 1] = accepted'
        /\ \A i \in 1..Len(queue) : queue'[i] = queue[i] /\ queue[i] \in Task
    BY <1>1 DEF Enqueue, TypeOK
  <2>2. \A k : Queued(k) \/ k = accepted' => Queued(k)'
    BY <2>1 DEF Queued
  <2>3. \A k : Held(k)' <=> Held(k)
    BY <1>1 DEF Enqueue, Held
  <2>4. \A k \in 1..accepted' : k \in sent' \/ Queued(k)' \/ Held(k)'
    <3> TAKE k \in 1..accepted'
    <3>1. k \in 1..accepted \/ k = accepted'
      BY <2>1
    <3> QED  BY <1>1, <3>1, <2>2, <2>3 DEF Accounted, Enqueue
  <2>5. sent' \subseteq 1..accepted'
    BY <1>1, <2>1 DEF Accounted, Enqueue
  <2>6. \A i \in 1..Len(queue') : queue'[i] <= accepted'
    <3> TAKE i \in 1..Len(queue')
    <3>1. CASE i \in 1..Len(queue)
      BY <3>1, <2>1 DEF Accounted, Task
    <3>2. CASE i = Len(queue) + 1
      BY <3>2, <2>1
    <3> QED  BY <3>1, <3>2, <2>1
  <2>7. \A w \in Worker : holds'[w] <= accepted'
    BY <1>1, <2>1 DEF Accounted, Enqueue, TypeOK
  <2>8. \A w \in Worker : at'[w] # "ended"
    <3> TAKE w \in Worker
    <3>1. at[w] # "ended"
      BY <1>1 DEF Accounted, Enqueue
    <3> QED  BY <1>1, <3>1 DEF Enqueue, GoTo, TypeOK, Thread
  <2> QED  BY <2>4, <2>5, <2>6, <2>7, <2>8 DEF Accounted
<1>2. ASSUME NEW w \in Worker, Get(w) PROVE Accounted'
  <2>1. /\ Len(queue) \in Nat /\ Len(queue) > 0
        /\ queue' = Tail(queue) /\ Len(queue') = Len(queue) - 1
        /\ \A i \in 1..Len(queue) - 1 : queue'[i] = queue[i + 1]
        /\ holds' = [holds EXCEPT ![w] = queue[1]]
        /\ holds[w] = 0
    BY <1>2 DEF Get, Awake, TypeOK
  <2>2. ASSUME NEW k \in 1..accepted, Queued(k) \/ Held(k)
        PROVE  Queued(k)' \/ Held(k)'
    <3>1. CASE Held(k)
      <4>1. PICK v \in Worker : holds[v] = k
        BY <3>1 DEF Held
      <4>2. v # w
        BY <4>1, <2>1
      <4> QED  BY <4>1, <4>2, <2>1 DEF Held, TypeOK
    <3>2. CASE Queued(k)
      <4>1. PICK i \in 1..Len(queue) : queue[i] = k
        BY <3>2 DEF Queued
      <4>2. CASE i = 1
        BY <4>1, <4>2, <2>1 DEF Held, TypeOK
      <4>3. CASE i # 1
        <5>1. i - 1 \in 1..Len(queue') /\ queue'[i - 1] = k
          BY <4>1, <4>3, <2>1
        <5> QED  BY <5>1 DEF Queued
      <4> QED  BY <4>2, <4>3
    <3> QED  BY <2>2, <3>1, <3>2
  <2>3. \A k \in 1..accepted' : k \in sent' \/ Queued(k)' \/ Held(k)'
    BY <1>2, <2>2 DEF Accounted, Get
  <2>4. \A i \in 1..Len(queue') : queue'[i] <= accepted'
    BY <1>2, <2>1 DEF Accounted, Get
  <2>5. \A v \in Worker : holds'[v] <= accepted'
    BY <1>2, <2>1 DEF Accounted, Get, TypeOK
  <2>6. \A v \in Worker : at'[v] # "ended"
    <3> TAKE v \in Worker
    <3>1. at[v] # "ended"
      BY <1>2 DEF Accounted, Get
    <3> QED  BY <1>2, <3>1 DEF Get, GoTo, TypeOK, Thread
  <2> QED  BY <1>2, <2>3, <2>4, <2>5, <2>6 DEF Accounted, Get
<1>3. ASSUME NEW w \in Worker, Send(w) PROVE Accounted'
  <2>1. /\ sent' = sent \cup {holds[w]} /\ holds[w] \in 1..accepted
    BY <1>3 DEF Send, TypeOK, Accounted
  <2>2. \A v \in Worker : holds'[v] \in {0, holds[v]} /\ (v # w => holds'[v] = holds[v])
    BY <1>3 DEF Send, TypeOK
  <2>3. \A k \in 1..accepted : Held(k) => Held(k)' \/ k \in sent'
    BY <2>1, <2>2 DEF Held
  <2>4. \A v \in Worker : at'[v] = "ended" => at[v] = "ended"
    BY <1>3 DEF Send, GoTo, TypeOK, Thread
  <2>5. \A k \in 1..accepted' : k \in sent' \/ Queued(k)' \/ Held(k)'
    BY <1>3, <2>1, <2>3 DEF Accounted, Send, Queued
  <2>6. \A v \in Worker : holds'[v] <= accepted'
    BY <1>3, <2>2 DEF Accounted, Send, TypeOK
  <2>7. \A v \in Worker : at'[v] = "ended" => forward_shutdown' /\ queue' = <<>>
    BY <1>3, <2>4 DEF Accounted, Send, forward_shutdown
  <2>8. sent' \subseteq 1..accepted' /\ \A i \in 1..Len(queue') : queue'[i] <= accepted'
    BY <1>3, <2>1 DEF Accounted, Send
  <2> QED  BY <2>5, <2>6, <2>7, <2>8 DEF Accounted
<1>4. ASSUME NEW w \in Worker, End(w) PROVE Accounted'
  BY <1>4 DEF End, GoTo, Accounted, Queued, Held, TypeOK, Thread, forward_shutdown
<1>5. ASSUME UNCHANGED <<accepted, queue, holds, sent>>,
             forward_shutdown => forward_shutdown',
             \A w \in Worker : at'[w] = "ended" => at[w] = "ended"
      PROVE  Accounted'
  BY <1>5 DEF Accounted, Queued, Held
<1>6. ASSUME NEW t \in Thread, NEW place, place # "ended", GoTo(t, place)
      PROVE  \A w \in Worker : at'[w] = "ended" => at[w] = "ended"
  BY <1>6 DEF GoTo, TypeOK, Thread
<1>7. ASSUME \/ \E p \in Producer : ForwardPut(p) \/ EnqueueDropped(p)
             \/ \E t \in Thread : NotifyOne(t)
      PROVE  Accounted'
  BY <1>5, <1>6, <1>7
  DEF ForwardPut, EnqueueDropped, NotifyOne, Thread, forward_shutdown
<1>8. ASSUME \/ \E p \in Producer : EnqueueWaits(p)
             \/ \E w \in Worker : GetWaits(w)
             \/ \E t \in Thread : SpuriousWakeup(t)
             \/ Shutdown \/ NotifyAll \/ Join \/ UNCHANGED vars
      PROVE  Accounted'
  BY <1>5, <1>8
  DEF EnqueueWaits, GetWaits, Wait, SpuriousWakeup, Shutdown, NotifyAll, Join,
      vars, forward_shutdown
<1> QED
  BY <1>1, <1>2, <1>3, <1>4, <1>7, <1>8
  DEF Next, ProducerStep, WorkerStep, Thread

\* The destructor leaves nothing unsent that was accepted.
THEOREM NothingLeftAtShutdown == Spec => []Drained
<1>1. Init => Accounted
  BY QueueAssumption DEF Init, Accounted, Thread
<1>2. TypeOK /\ Accounted => Drained
  <2> SUFFICES ASSUME TypeOK, Accounted, \A w \in Worker : at[w] = "ended"
               PROVE  queue = <<>> /\ sent = 1..accepted
    BY DEF Drained
  <2>1. queue = <<>>
    BY QueueAssumption DEF Accounted
  <2>2. \A w \in Worker : holds[w] = 0
    BY DEF TypeOK
  <2>3. \A k \in 1..accepted : ~Queued(k) /\ ~Held(k)
    BY <2>1, <2>2 DEF Queued, Held
  <2> QED  BY <2>1, <2>3 DEF Accounted
<1> QED  BY <1>1, <1>2, AccountInductive, TypeCorrect, PTL DEF Spec
=============================================================================

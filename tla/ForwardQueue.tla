---------------------------- MODULE ForwardQueue ----------------------------
(***************************************************************************)
(* The queue between the handlers of a server and the workers that send    *)
(* its ForwardPuts (replication_common.cpp): bounded, with one mutex and   *)
(* one condition variable for both sides.  Producers wait on it while the  *)
(* queue is full, workers while it is empty, and whoever has changed the   *)
(* queue wakes one waiter of either side, after it has released the mutex. *)
(* A step is a critical section, a wake-up, or the RPC of a worker.        *)
(***************************************************************************)
EXTENDS Naturals, Sequences, FiniteSets

CONSTANTS
  Producer,              \* threads in forward_put: handlers, RetryLoop, ...
  Worker,                \* kForwardWorkerCount threads
  kMaxForwardQueueSize,
  MaxTasks               \* bound on the tasks that come

Thread == Producer \cup Worker

\* In the code the queue holds 100000 tasks and there are 16 workers, so this
\* allows some 50000 handler threads.
ASSUME QueueAssumption ==
  /\ IsFiniteSet(Producer) /\ Producer # {}
  /\ IsFiniteSet(Worker) /\ Worker # {}
  /\ Producer \cap Worker = {}
  /\ kMaxForwardQueueSize \in Nat
  /\ kMaxForwardQueueSize >= 2 * Cardinality(Thread)
  /\ MaxTasks \in Nat

VARIABLES
  accepted,  \* how many tasks were queued; a task is named by its number
  queue,     \* forward_queue_
  at,        \* where each thread is
  waiting,   \* the threads asleep on forward_cv_
  holds,     \* the task each worker has taken and not sent, 0 if none
  sent,      \* history: the tasks sent
  dtor       \* where ~Replication is: forward_shutdown_ is set from "set" on

vars == <<accepted, queue, at, waiting, holds, sent, dtor>>

Task == 1..MaxTasks

forward_shutdown == dtor # "no"

\* The producers whose task is not in the queue yet.
Coming == {p \in Producer : at[p] = "enqueue"}

\* The threads that have changed the queue and not told anyone yet.
Notifying == {t \in Thread : at[t] = "notify"}

\* Every variable has its type and the queue keeps its bound.
TypeOK ==
  /\ accepted \in Nat /\ accepted + Cardinality(Coming) <= MaxTasks
  /\ queue \in Seq(Task) /\ Len(queue) <= kMaxForwardQueueSize
  /\ at \in [Thread -> {"idle", "enqueue", "get", "notify", "send", "ended"}]
  /\ \A p \in Producer : at[p] \in {"idle", "enqueue", "notify"}
  /\ \A w \in Worker : at[w] \in {"get", "notify", "send", "ended"}
  /\ waiting \subseteq {t \in Thread : at[t] \in {"enqueue", "get"}}
  /\ holds \in [Worker -> 0..MaxTasks]
  /\ \A w \in Worker : holds[w] # 0 <=> at[w] \in {"notify", "send"}
  /\ sent \subseteq Task
  /\ dtor \in {"no", "set", "join", "done"}

Init ==
  /\ accepted = 0
  /\ queue = <<>>
  /\ at = [t \in Thread |-> IF t \in Worker THEN "get" ELSE "idle"]
  /\ waiting = {}
  /\ holds = [w \in Worker |-> 0]
  /\ sent = {}
  /\ dtor = "no"

-----------------------------------------------------------------------------
GoTo(t, place) == at' = [at EXCEPT ![t] = place]

Awake(t, place) == at[t] = place /\ t \notin waiting

\* cv.wait with its predicate false: asleep until woken, and then here again.
Wait(t) ==
  /\ waiting' = waiting \cup {t}
  /\ UNCHANGED <<accepted, queue, at, holds, sent, dtor>>

\* The std::condition_variable may also wake a thread for no reason.
SpuriousWakeup(t) ==
  /\ t \in waiting
  /\ waiting' = waiting \ {t}
  /\ UNCHANGED <<accepted, queue, at, holds, sent, dtor>>

\* A handler has a write to forward.
ForwardPut(p) ==
  /\ at[p] = "idle"
  /\ accepted + Cardinality(Coming) < MaxTasks
  /\ GoTo(p, "enqueue")
  /\ UNCHANGED <<accepted, queue, waiting, holds, sent, dtor>>

\* enqueue_forward_task under the mutex; after shutdown the task is dropped.
EnqueueWaits(p) ==
  /\ Awake(p, "enqueue")
  /\ ~forward_shutdown
  /\ Len(queue) >= kMaxForwardQueueSize
  /\ Wait(p)

\* Mutant: a task is queued however many there are.
EnqueueAnyway(p) ==
  /\ Awake(p, "enqueue")
  /\ ~forward_shutdown
  /\ accepted' = accepted + 1
  /\ queue' = Append(queue, accepted')
  /\ GoTo(p, "notify")
  /\ UNCHANGED <<waiting, holds, sent, dtor>>

Enqueue(p) ==
  /\ Awake(p, "enqueue")
  /\ ~forward_shutdown
  /\ Len(queue) < kMaxForwardQueueSize
  /\ accepted' = accepted + 1
  /\ queue' = Append(queue, accepted')
  /\ GoTo(p, "notify")
  /\ UNCHANGED <<waiting, holds, sent, dtor>>

EnqueueDropped(p) ==
  /\ Awake(p, "enqueue")
  /\ forward_shutdown
  /\ GoTo(p, "idle")
  /\ UNCHANGED <<accepted, queue, waiting, holds, sent, dtor>>

\* forward_worker_loop under the mutex.
GetWaits(w) ==
  /\ Awake(w, "get")
  /\ ~forward_shutdown
  /\ queue = <<>>
  /\ Wait(w)

\* Mutant: a worker leaves at shutdown whatever is queued.
EndEarly(w) ==
  /\ Awake(w, "get")
  /\ forward_shutdown
  /\ GoTo(w, "ended")
  /\ UNCHANGED <<accepted, queue, waiting, holds, sent, dtor>>

End(w) ==
  /\ Awake(w, "get")
  /\ forward_shutdown
  /\ queue = <<>>
  /\ GoTo(w, "ended")
  /\ UNCHANGED <<accepted, queue, waiting, holds, sent, dtor>>

\* Mutant: a worker that has taken a task wakes nobody.
GetQuietly(w) ==
  /\ Awake(w, "get")
  /\ queue # <<>>
  /\ holds' = [holds EXCEPT ![w] = Head(queue)]
  /\ queue' = Tail(queue)
  /\ GoTo(w, "send")
  /\ UNCHANGED <<accepted, waiting, sent, dtor>>

Get(w) ==
  /\ Awake(w, "get")
  /\ queue # <<>>
  /\ holds' = [holds EXCEPT ![w] = Head(queue)]
  /\ queue' = Tail(queue)
  /\ GoTo(w, "notify")
  /\ UNCHANGED <<accepted, waiting, sent, dtor>>

\* Mutant: the wake-up is not sent while others are awake.
NotifyIfAllWait(t) ==
  /\ at[t] = "notify"
  /\ IF \A u \in Thread \ {t} : u \in waiting
     THEN \E u \in waiting : waiting' = waiting \ {u}
     ELSE UNCHANGED waiting
  /\ GoTo(t, IF t \in Worker THEN "send" ELSE "idle")
  /\ UNCHANGED <<accepted, queue, holds, sent, dtor>>

\* notify_one, the mutex released: any thread asleep may be the one.
NotifyOne(t) ==
  /\ at[t] = "notify"
  /\ \/ waiting = {} /\ UNCHANGED waiting
     \/ \E u \in waiting : waiting' = waiting \ {u}
  /\ GoTo(t, IF t \in Worker THEN "send" ELSE "idle")
  /\ UNCHANGED <<accepted, queue, holds, sent, dtor>>

\* The RPC returns, with whatever status, and the worker starts again.
Send(w) ==
  /\ at[w] = "send"
  /\ sent' = sent \cup {holds[w]}
  /\ holds' = [holds EXCEPT ![w] = 0]
  /\ GoTo(w, "get")
  /\ UNCHANGED <<accepted, queue, waiting, dtor>>

\* ~Replication: forward_shutdown_ is set under the mutex ...
Shutdown ==
  /\ dtor = "no"
  /\ dtor' = "set"
  /\ UNCHANGED <<accepted, queue, at, waiting, holds, sent>>

\* Mutant: one waiter only.
NotifyOneAtShutdown ==
  /\ dtor = "set"
  /\ dtor' = "join"
  /\ \/ waiting = {} /\ UNCHANGED waiting
     \/ \E u \in waiting : waiting' = waiting \ {u}
  /\ UNCHANGED <<accepted, queue, at, holds, sent>>

\* ... everyone is woken, and the workers are joined.
NotifyAll ==
  /\ dtor = "set"
  /\ dtor' = "join"
  /\ waiting' = {}
  /\ UNCHANGED <<accepted, queue, at, holds, sent>>

Join ==
  /\ dtor = "join"
  /\ \A w \in Worker : at[w] = "ended"
  /\ dtor' = "done"
  /\ UNCHANGED <<accepted, queue, at, waiting, holds, sent>>

-----------------------------------------------------------------------------
ProducerStep(p) == EnqueueWaits(p) \/ Enqueue(p) \/ EnqueueDropped(p) \/ NotifyOne(p)

WorkerStep(w) == GetWaits(w) \/ Get(w) \/ End(w) \/ NotifyOne(w) \/ Send(w)

Next ==
  \/ \E p \in Producer : ForwardPut(p) \/ ProducerStep(p)
  \/ \E w \in Worker : WorkerStep(w)
  \/ \E t \in Thread : SpuriousWakeup(t)
  \/ Shutdown \/ NotifyAll \/ Join

Spec == Init /\ [][Next]_vars

\* Every thread that can run does, RPCs return by their deadline.  Handlers
\* need not come and the object need not be destroyed.
Fairness ==
  /\ \A p \in Producer : WF_vars(ProducerStep(p))
  /\ \A w \in Worker : WF_vars(WorkerStep(w))
  /\ WF_vars(NotifyAll \/ Join)

FairSpec == Spec /\ Fairness

-----------------------------------------------------------------------------
\* Producers and workers are never asleep at the same time, so the one
\* condition variable cannot wake the wrong side: a queue as long as this is
\* never emptied before all who found it full are awake, nor filled before all
\* who found it empty are.
OneSideWaits == waiting \subseteq Producer \/ waiting \subseteq Worker

\* No wake-up is lost: while there is a task in the queue some worker is
\* awake, or is about to be woken by a thread that has changed the queue, and
\* so is a producer while there is room for a task.
NoLostWakeup ==
  /\ queue # <<>> /\ (\A w \in Worker : w \in waiting)
       => dtor = "set" \/ Notifying # {}
  /\ Len(queue) < kMaxForwardQueueSize /\ (\A p \in Producer : p \in waiting)
       => dtor = "set" \/ Notifying # {}

\* The workers end only when every task accepted has been sent.
Drained ==
  (\A w \in Worker : at[w] = "ended") => queue = <<>> /\ sent = 1..accepted

\* A task accepted is sent, shutdown or not.
TasksSent == \A k \in Task : accepted >= k ~> k \in sent

\* The destructor returns.
ShutdownEnds == dtor = "set" ~> dtor = "done"

==============================================================================

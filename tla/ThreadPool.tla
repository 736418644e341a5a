----------------------------- MODULE ThreadPool ------------------------------
(****************************************************************************)
(* ThreadPool of include/ThreadPool.h: std::jthread workers that take tasks *)
(* from a std::queue guarded by queue_mutex and sleep on one condition      *)
(* variable; enqueue; the constructor, which starts the workers one by one  *)
(* and may fail half way; and the destructor.                               *)
(*                                                                          *)
(* A critical section is one step, except where something outside the mutex *)
(* can happen inside it: stop tokens are not guarded by queue_mutex, so a   *)
(* worker evaluates the predicate of condition.wait in one step and blocks  *)
(* in another, holding the mutex in between.  A task is the number of its   *)
(* push; running it makes its future ready, with a value or an exception    *)
(* (std::packaged_task stores either, so the worker's catch blocks are not  *)
(* reached).  A task's body may itself call enqueue.                        *)
(****************************************************************************)
EXTENDS Integers, Sequences, FiniteSets

CONSTANTS
  Workers,     \* the jthreads
  Clients,     \* the other threads that call enqueue
  Nobody,      \* not a thread
  MaxTasks     \* bound: how many tasks are ever enqueued

Callers == Clients \cup Workers

ASSUME ThreadPoolAssumption ==
  /\ Workers # {} /\ IsFiniteSet(Workers)
  /\ Workers \cap Clients = {} /\ Nobody \notin Callers
  /\ MaxTasks \in Nat

VARIABLES
  tasks,       \* the queue
  lock,        \* the worker that holds queue_mutex across steps, or Nobody
  wpc,         \* where each worker is in its loop
  stop,        \* stop_requested() of each worker's token
  running,     \* the task each worker has taken from the queue, or None
  epc,         \* where each caller is inside enqueue
  owner,       \* where the thread that owns the pool is
  submitted,   \* how many tasks were ever pushed
  ready,       \* the tasks whose futures are ready
  chained      \* do task bodies wait for the future of the task before?

vars == <<tasks, lock, wpc, stop, running, epc, owner, submitted, ready, chained>>

None == -1

Init ==
  /\ tasks = <<>>
  /\ lock = Nobody
  /\ wpc = [w \in Workers |-> "unborn"]
  /\ stop = [w \in Workers |-> FALSE]
  /\ running = [w \in Workers |-> None]
  /\ epc = [e \in Callers |-> "idle"]
  /\ owner = "constructing"
  /\ submitted = 0
  /\ ready = {}
  /\ chained \in BOOLEAN

Spawned == {w \in Workers : wpc[w] # "unborn"}
Waiting == {w \in Workers : wpc[w] = "waiting"}

-----------------------------------------------------------------------------
(* The constructor.                                                         *)

(* workers.emplace_back: the thread starts to run at once.                  *)
Spawn(w) ==
  /\ owner = "constructing" /\ wpc[w] = "unborn"
  /\ wpc' = [wpc EXCEPT ![w] = "acquire"]
  /\ UNCHANGED <<tasks, lock, stop, running, epc, owner, submitted, ready, chained>>

Constructed ==
  /\ owner = "constructing" /\ Spawned = Workers
  /\ owner' = "open"
  /\ UNCHANGED <<tasks, lock, wpc, stop, running, epc, submitted, ready, chained>>

(* emplace_back throws (std::system_error, std::bad_alloc): ~ThreadPool is  *)
(* not run, the members are destroyed, workers first.                       *)
SpawnFails ==
  /\ owner = "constructing" /\ Spawned # Workers
  /\ owner' = "unwinding"
  /\ UNCHANGED <<tasks, lock, wpc, stop, running, epc, submitted, ready, chained>>

(* ~jthread of one element of workers: request_stop, then join, before the  *)
(* next element is destroyed.                                               *)
UnwindWorker(w) ==
  /\ owner = "unwinding" /\ w \in Spawned /\ ~stop[w]
  /\ \A v \in Spawned : stop[v] => wpc[v] = "done"
  /\ stop' = [stop EXCEPT ![w] = TRUE]
  /\ UNCHANGED <<tasks, lock, wpc, running, epc, owner, submitted, ready, chained>>

-----------------------------------------------------------------------------
(* enqueue, called by a client or from inside a task.                       *)

MayCall(e) == IF e \in Workers THEN wpc[e] = "run" ELSE owner = "open"

Pushing == {e \in Callers : epc[e] = "push"}

CallEnqueue(e) ==
  /\ MayCall(e) /\ epc[e] = "idle"
  /\ submitted + Cardinality(Pushing) < MaxTasks
  /\ epc' = [epc EXCEPT ![e] = "push"]
  /\ UNCHANGED <<tasks, lock, wpc, stop, running, owner, submitted, ready, chained>>

(* Lock queue_mutex, push, unlock.                                          *)
Push(e) ==
  /\ epc[e] = "push" /\ lock = Nobody
  /\ tasks' = Append(tasks, submitted)
  /\ submitted' = submitted + 1
  /\ epc' = [epc EXCEPT ![e] = "notify"]
  /\ UNCHANGED <<lock, wpc, stop, running, owner, ready, chained>>

(* Variant: no notification.                                                *)
NotifyNobody(e) ==
  /\ epc[e] = "notify"
  /\ epc' = [epc EXCEPT ![e] = "idle"]
  /\ UNCHANGED <<tasks, lock, wpc, stop, running, owner, submitted, ready, chained>>

(* condition.notify_one(): any one of the workers that wait.                *)
NotifyOne(e) ==
  /\ epc[e] = "notify"
  /\ epc' = [epc EXCEPT ![e] = "idle"]
  /\ \/ Waiting = {} /\ UNCHANGED wpc
     \/ \E w \in Waiting : wpc' = [wpc EXCEPT ![w] = "acquire"]
  /\ UNCHANGED <<tasks, lock, stop, running, owner, submitted, ready, chained>>

-----------------------------------------------------------------------------
(* The loop of a worker.                                                    *)

Acquire(w) ==
  /\ wpc[w] = "acquire" /\ lock = Nobody
  /\ lock' = w
  /\ wpc' = [wpc EXCEPT ![w] = "test"]
  /\ UNCHANGED <<tasks, stop, running, epc, owner, submitted, ready, chained>>

(* The predicate is false: stop not requested, no task.  The mutex is still *)
(* held.                                                                    *)
TestFails(w) ==
  /\ wpc[w] = "test" /\ ~stop[w] /\ tasks = <<>>
  /\ wpc' = [wpc EXCEPT ![w] = "block"]
  /\ UNCHANGED <<tasks, lock, stop, running, epc, owner, submitted, ready, chained>>

(* condition.wait releases the mutex and starts to wait in one step.        *)
Block(w) ==
  /\ wpc[w] = "block"
  /\ lock' = Nobody
  /\ wpc' = [wpc EXCEPT ![w] = "waiting"]
  /\ UNCHANGED <<tasks, stop, running, epc, owner, submitted, ready, chained>>

SpuriousWakeup(w) ==
  /\ wpc[w] = "waiting"
  /\ wpc' = [wpc EXCEPT ![w] = "acquire"]
  /\ UNCHANGED <<tasks, lock, stop, running, epc, owner, submitted, ready, chained>>

(* Variant: stop_requested() alone.                                         *)
ExitAtOnce(w) ==
  /\ wpc[w] = "test" /\ stop[w]
  /\ lock' = Nobody
  /\ wpc' = [wpc EXCEPT ![w] = "done"]
  /\ UNCHANGED <<tasks, stop, running, epc, owner, submitted, ready, chained>>

(* stop_requested() && tasks.empty(): unlock and return.                    *)
Exit(w) ==
  /\ wpc[w] = "test" /\ stop[w] /\ tasks = <<>>
  /\ lock' = Nobody
  /\ wpc' = [wpc EXCEPT ![w] = "done"]
  /\ UNCHANGED <<tasks, stop, running, epc, owner, submitted, ready, chained>>

(* Variant: take the back of the queue.                                     *)
TakeNewest(w) ==
  /\ wpc[w] = "test" /\ tasks # <<>>
  /\ running' = [running EXCEPT ![w] = tasks[Len(tasks)]]
  /\ tasks' = SubSeq(tasks, 1, Len(tasks) - 1)
  /\ lock' = Nobody
  /\ wpc' = [wpc EXCEPT ![w] = "run"]
  /\ UNCHANGED <<stop, epc, owner, submitted, ready, chained>>

(* Take the front of the queue, stop requested or not; unlock.              *)
Take(w) ==
  /\ wpc[w] = "test" /\ tasks # <<>>
  /\ running' = [running EXCEPT ![w] = Head(tasks)]
  /\ tasks' = Tail(tasks)
  /\ lock' = Nobody
  /\ wpc' = [wpc EXCEPT ![w] = "run"]
  /\ UNCHANGED <<stop, epc, owner, submitted, ready, chained>>

(* What a task's body may have to wait for.                                 *)
Awaited(t) == IF chained THEN {t - 1} \cap Nat ELSE {}

(* task() returns; its future has become ready.                             *)
FinishTask(w) ==
  /\ wpc[w] = "run" /\ epc[w] = "idle" /\ Awaited(running[w]) \subseteq ready
  /\ ready' = ready \cup {running[w]}
  /\ running' = [running EXCEPT ![w] = None]
  /\ wpc' = [wpc EXCEPT ![w] = "acquire"]
  /\ UNCHANGED <<tasks, lock, stop, epc, owner, submitted, chained>>

-----------------------------------------------------------------------------
(* ~ThreadPool, called when no other thread is inside enqueue.              *)

BeginDestroy ==
  /\ owner = "open" /\ \A e \in Clients : epc[e] = "idle"
  /\ owner' = "stopping"
  /\ UNCHANGED <<tasks, lock, wpc, stop, running, epc, submitted, ready, chained>>

RequestStop(w) ==
  /\ owner = "stopping" /\ ~stop[w]
  /\ stop' = [stop EXCEPT ![w] = TRUE]
  /\ UNCHANGED <<tasks, lock, wpc, running, epc, owner, submitted, ready, chained>>

NotifyAll ==
  /\ owner = "stopping" /\ \A w \in Workers : stop[w]
  /\ wpc' = [w \in Workers |-> IF w \in Waiting THEN "acquire" ELSE wpc[w]]
  /\ owner' = "joining"
  /\ UNCHANGED <<tasks, lock, stop, running, epc, submitted, ready, chained>>

(* The elements of workers have been joined, by ~ThreadPool's member        *)
(* destruction or by the constructor's unwinding; the other members follow. *)
Joined ==
  /\ owner \in {"joining", "unwinding"}
  /\ \A w \in Spawned : stop[w] /\ wpc[w] = "done"
  /\ owner' = "gone"
  /\ UNCHANGED <<tasks, lock, wpc, stop, running, epc, submitted, ready, chained>>

-----------------------------------------------------------------------------
WorkerStep(w) ==
  TestFails(w) \/ Block(w) \/ Exit(w) \/ Take(w) \/ FinishTask(w)

OwnerStep ==
  \/ \E w \in Workers : Spawn(w) \/ UnwindWorker(w) \/ RequestStop(w)
  \/ Constructed \/ NotifyAll \/ Joined

Next ==
  \/ OwnerStep \/ SpawnFails \/ BeginDestroy
  \/ \E w \in Workers : Acquire(w) \/ WorkerStep(w) \/ SpuriousWakeup(w)
  \/ \E e \in Callers : CallEnqueue(e) \/ Push(e) \/ NotifyOne(e)

Spec == Init /\ [][Next]_vars

(* Threads keep running, a task body returns once what it waits for is      *)
(* ready, and a thread that wants the mutex gets it sooner or later if it   *)
(* keeps being released.  Nobody has to call enqueue or to destroy the      *)
(* pool, and spurious wakeups may not occur.                                *)
Fairness ==
  /\ WF_vars(OwnerStep)
  /\ \A w \in Workers : WF_vars(WorkerStep(w)) /\ SF_vars(Acquire(w))
  /\ \A e \in Callers : WF_vars(NotifyOne(e)) /\ SF_vars(Push(e))

FairSpec == Spec /\ Fairness
-----------------------------------------------------------------------------
(* Properties.                                                              *)

(* Every variable keeps its type, and the mutex is held across steps        *)
(* exactly by a worker between the two halves of condition.wait.            *)
TypeOK ==
  /\ tasks \in Seq(Nat)
  /\ lock \in Workers \cup {Nobody}
  /\ wpc \in [Workers -> {"unborn", "acquire", "test", "block", "waiting", "run", "done"}]
  /\ stop \in [Workers -> BOOLEAN]
  /\ running \in [Workers -> Nat \cup {None}]
  /\ epc \in [Callers -> {"idle", "push", "notify"}]
  /\ owner \in {"constructing", "open", "stopping", "joining", "unwinding", "gone"}
  /\ submitted \in Nat
  /\ ready \subseteq Nat
  /\ chained \in BOOLEAN
  /\ \A w \in Workers : lock = w <=> wpc[w] \in {"test", "block"}

(* Workers that will look at the queue without being woken.                 *)
Awake == {w \in Workers : wpc[w] \in {"acquire", "test"}}
Notifying == {e \in Callers : epc[e] = "notify"}

(* notify_one per push never leaves a task waiting while a worker sleeps:   *)
(* as long as anybody sleeps, each queued task has a worker on its way to   *)
(* the queue, or a notification on its way to a worker.                     *)
NoIdleWorker ==
  /\ TypeOK
  /\ Waiting # {} => Len(tasks) <= Cardinality(Awake) + Cardinality(Notifying)

(* Refinement: tasks start in order, once each; the pool goes when all of   *)
(* them have run, the ones enqueued by tasks during destruction included.   *)
TP == INSTANCE TaskPool WITH
        started <- submitted - Len(tasks),
        open <- (owner # "gone")
ImplementsTaskPool == TP!Spec

(* An enqueued task's future becomes ready.                                 *)
EveryFutureReady == \A t \in 0 .. MaxTasks - 1 : submitted > t ~> t \in ready

(* README: "Workers join automatically on destruction."                     *)
DestructorReturns == owner = "stopping" ~> owner = "gone"
=============================================================================

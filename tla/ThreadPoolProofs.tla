-------------------------- MODULE ThreadPoolProofs ---------------------------
(****************************************************************************)
(* What ThreadPool guarantees for any number of workers, of clients and of  *)
(* tasks: notify_one once per push is enough, tasks start in the order in   *)
(* which they were enqueued and run once, and the pool is gone only when    *)
(* all of them have run, even when tasks enqueue tasks during destruction.  *)
(****************************************************************************)
EXTENDS ThreadPool, FiniteSetTheorems, SequenceTheorems, TLAPS

Alive(w) == wpc[w] \notin {"unborn", "done"}

(* Which threads are about, by what the owner of the pool is doing.         *)
LifeInv ==
  /\ owner \in {"open", "stopping", "joining"} => \A w \in Workers : wpc[w] # "unborn"
  /\ owner \in {"constructing", "open"} => \A w \in Workers : ~stop[w]
  /\ owner = "gone" => \A w \in Workers : ~Alive(w)
  /\ \A w \in Workers : wpc[w] = "done" => stop[w]
  /\ \A c \in Clients : epc[c] # "idle" => owner = "open"
  /\ \A w \in Workers : epc[w] # "idle" => wpc[w] = "run"

(* The queue is not left behind: a worker that blocks has seen it empty     *)
(* under the mutex, and one that will look at it again is still there.      *)
WakeInv ==
  /\ IsFiniteSet(Notifying)
  /\ \A w \in Workers : wpc[w] = "block" => tasks = <<>>
  /\ Waiting # {} => Len(tasks) <= Cardinality(Awake) + Cardinality(Notifying)
  /\ tasks # <<>> => \E w \in Workers : Alive(w)

(* The queue holds the last tasks pushed, in order; of those before, each   *)
(* has finished or is run by one worker.                                    *)
Started == submitted - Len(tasks)

TaskInv ==
  /\ Len(tasks) <= submitted
  /\ \A i \in 1 .. Len(tasks) : tasks[i] = Started + i - 1
  /\ \A w \in Workers : wpc[w] = "run" <=> running[w] # None
  /\ \A w \in Workers : running[w] # None => running[w] < Started /\ running[w] \notin ready
  /\ \A v, w \in Workers : v # w /\ running[v] # None => running[v] # running[w]
  /\ \A t \in ready : t < Started
  /\ \A t \in 0 .. Started - 1 : t \in ready \/ \E w \in Workers : running[w] = t

(* The inductive invariant.                                                 *)
IInv == TypeOK /\ LifeInv /\ WakeInv /\ TaskInv

-----------------------------------------------------------------------------
(* Nobody is neither a worker nor a client, and no thread is both.          *)
LEMMA ThreadFacts ==
  /\ \A w \in Workers : w # Nobody /\ w \in Callers /\ w \notin Clients
  /\ \A c \in Clients : c \in Callers /\ c \notin Workers
  /\ \A e \in Callers : e \in Workers \/ e \in Clients
  BY ThreadPoolAssumption DEF Callers

(* The queue, the mutex and the threads' program counters keep their types. *)
LEMMA TypeInit == Init => TypeOK
  BY ThreadPoolAssumption DEF Init, TypeOK, Callers, None

(* A step that leaves the mutex alone moves no worker into or out of        *)
(* condition.wait's critical section.                                       *)
LEMMA LockKept ==
  ASSUME TypeOK, lock' = lock,
         \A w \in Workers : wpc'[w] \in {"test", "block"} <=> wpc[w] \in {"test", "block"}
  PROVE  \A w \in Workers : lock' = w <=> wpc'[w] \in {"test", "block"}
  BY DEF TypeOK

(* The worker that holds the mutex leaves the critical section.             *)
LEMMA LockReleased ==
  ASSUME TypeOK, NEW w \in Workers, wpc[w] \in {"test", "block"}, lock' = Nobody,
         wpc'[w] \notin {"test", "block"},
         \A v \in Workers \ {w} : wpc'[v] = wpc[v]
  PROVE  \A v \in Workers : lock' = v <=> wpc'[v] \in {"test", "block"}
<1>1. lock = w BY DEF TypeOK
<1>2. \A v \in Workers \ {w} : wpc[v] \notin {"test", "block"} BY <1>1 DEF TypeOK
<1> QED BY <1>2, ThreadFacts

(* Every step of the owner, a worker or a caller of enqueue keeps the types,*)
(* and with them the mutual exclusion of condition.wait's two halves.       *)
LEMMA TypeNext == IInv /\ [Next]_vars => TypeOK'
<1> SUFFICES ASSUME TypeOK, TaskInv, [Next]_vars PROVE TypeOK'
  BY DEF IInv
<1> USE DEF TypeOK
<1>1. ASSUME NEW w \in Workers, Spawn(w) \/ UnwindWorker(w) \/ RequestStop(w)
      PROVE  TypeOK'
  BY <1>1 DEF Spawn, UnwindWorker, RequestStop
<1>2. CASE Constructed \/ Joined \/ SpawnFails \/ BeginDestroy
  BY <1>2 DEF Constructed, Joined, SpawnFails, BeginDestroy
<1>3. CASE NotifyAll
  <2>1. \A w \in Workers : wpc'[w] = IF w \in Waiting THEN "acquire" ELSE wpc[w]
    BY <1>3 DEF NotifyAll
  <2>2. \A w \in Workers : lock' = w <=> wpc'[w] \in {"test", "block"}
    BY <1>3, <2>1, LockKept DEF NotifyAll, Waiting
  <2>3. wpc' \in [Workers -> {"unborn", "acquire", "test", "block", "waiting", "run", "done"}]
    BY <1>3 DEF NotifyAll
  <2> QED BY <1>3, <2>2, <2>3 DEF NotifyAll
<1>4. ASSUME NEW w \in Workers, Acquire(w)
      PROVE  TypeOK'
  BY <1>4, ThreadFacts DEF Acquire
<1>5. ASSUME NEW w \in Workers, TestFails(w) \/ SpuriousWakeup(w)
      PROVE  TypeOK'
  BY <1>5 DEF TestFails, SpuriousWakeup
<1>6. ASSUME NEW w \in Workers, Block(w) \/ Exit(w)
      PROVE  TypeOK'
  <2>1. \A v \in Workers : lock' = v <=> wpc'[v] \in {"test", "block"}
    BY <1>6, LockReleased DEF Block, Exit
  <2> QED BY <1>6, <2>1 DEF Block, Exit
<1>7. ASSUME NEW w \in Workers, Take(w)
      PROVE  TypeOK'
  <2>1. \A v \in Workers : lock' = v <=> wpc'[v] \in {"test", "block"}
    BY <1>7, LockReleased DEF Take
  <2>2. Head(tasks) \in Nat /\ Tail(tasks) \in Seq(Nat)
    BY <1>7, HeadTailProperties DEF Take
  <2> QED BY <1>7, <2>1, <2>2 DEF Take
<1>8. ASSUME NEW w \in Workers, FinishTask(w)
      PROVE  TypeOK'
  <2>1. \A v \in Workers : lock' = v <=> wpc'[v] \in {"test", "block"}
    BY <1>8, LockKept DEF FinishTask
  <2>2. running[w] \in Nat BY <1>8 DEF FinishTask, TaskInv
  <2> QED BY <1>8, <2>1, <2>2 DEF FinishTask, None
<1>9. ASSUME NEW e \in Callers, CallEnqueue(e)
      PROVE  TypeOK'
  BY <1>9 DEF CallEnqueue
<1>10. ASSUME NEW e \in Callers, Push(e)
       PROVE  TypeOK'
  BY <1>10, AppendProperties DEF Push
<1>11. ASSUME NEW e \in Callers, NotifyOne(e)
       PROVE  TypeOK'
  BY <1>11 DEF NotifyOne, Waiting
<1>12. CASE UNCHANGED vars BY <1>12 DEF vars
<1> QED
  BY <1>1, <1>2, <1>3, <1>4, <1>5, <1>6, <1>7, <1>8, <1>9, <1>10, <1>11, <1>12
  DEF Next, OwnerStep, WorkerStep

-----------------------------------------------------------------------------
(* The invariant holds initially.                                           *)
LEMMA InitInv == Init => IInv
<1> SUFFICES ASSUME Init PROVE IInv
  OBVIOUS
<1>1. TypeOK BY TypeInit
<1>2. tasks = <<>> /\ Len(tasks) = 0 /\ submitted = 0 /\ ready = {}
  BY EmptySeq DEF Init
<1>3. LifeInv BY DEF Init, LifeInv, Alive, Callers
<1>4. WakeInv
  <2>1. Notifying = {} /\ Waiting = {}
    BY DEF Init, Notifying, Waiting
  <2> QED BY <1>2, <2>1, FS_EmptySet DEF WakeInv
<1>5. TaskInv BY <1>2 DEF Init, TaskInv, Started
<1> QED BY <1>1, <1>3, <1>4, <1>5 DEF IInv

(* The owner comes to its next state only when the threads allow it: nobody *)
(* is inside enqueue when destruction begins, stop is requested of workers  *)
(* only then, and the pool goes when all of them are done.                  *)
LEMMA LifeNext == IInv /\ [Next]_vars => LifeInv'
<1> SUFFICES ASSUME TypeOK, LifeInv, [Next]_vars PROVE LifeInv'
  BY DEF IInv
<1> USE ThreadFacts DEF TypeOK, LifeInv, Alive
<1>1. ASSUME NEW w \in Workers, Spawn(w) \/ UnwindWorker(w) \/ RequestStop(w)
      PROVE  LifeInv'
  BY <1>1 DEF Spawn, UnwindWorker, RequestStop
<1>2. CASE Constructed \/ SpawnFails
  BY <1>2 DEF Constructed, SpawnFails, Spawned
<1>3. CASE Joined
  BY <1>3 DEF Joined, Spawned
<1>4. CASE BeginDestroy
  BY <1>4 DEF BeginDestroy
<1>5. CASE NotifyAll
  BY <1>5 DEF NotifyAll, Waiting
<1>6. ASSUME NEW w \in Workers, Acquire(w) \/ TestFails(w) \/ Block(w) \/ SpuriousWakeup(w)
      PROVE  LifeInv'
  BY <1>6 DEF Acquire, TestFails, Block, SpuriousWakeup
<1>7. ASSUME NEW w \in Workers, Exit(w) \/ Take(w) \/ FinishTask(w)
      PROVE  LifeInv'
  BY <1>7 DEF Exit, Take, FinishTask
<1>8. ASSUME NEW e \in Callers, CallEnqueue(e) \/ Push(e)
      PROVE  LifeInv'
  BY <1>8 DEF CallEnqueue, MayCall, Push
<1>9. ASSUME NEW e \in Callers, NotifyOne(e)
      PROVE  LifeInv'
  BY <1>9 DEF NotifyOne, Waiting
<1>10. CASE UNCHANGED vars BY <1>10 DEF vars
<1> QED
  BY <1>1, <1>2, <1>3, <1>4, <1>5, <1>6, <1>7, <1>8, <1>9, <1>10
  DEF Next, OwnerStep, WorkerStep

-----------------------------------------------------------------------------
(* Wakeups.                                                                 *)

(* Workers are finitely many; so are those that will look at the queue.     *)
LEMMA AwakeFacts ==
  /\ IsFiniteSet(Awake) /\ Cardinality(Awake) \in Nat
  /\ IsFiniteSet(Awake') /\ Cardinality(Awake') \in Nat
<1>1. IsFiniteSet(Awake) /\ IsFiniteSet(Awake')
  BY FS_Subset, ThreadPoolAssumption DEF Awake
<1> QED BY <1>1, FS_CardinalityType

(* Nobody starts to wait, and no task is added: nobody is missed as long as *)
(* none of those who come to the queue turns away.                          *)
LEMMA StillAwake ==
  ASSUME WakeInv, TypeOK, tasks' = tasks, Waiting' \subseteq Waiting,
         Awake \subseteq Awake', Notifying' = Notifying
  PROVE  Waiting' # {} => Len(tasks') <= Cardinality(Awake') + Cardinality(Notifying')
<1>1. Cardinality(Awake) <= Cardinality(Awake')
  BY AwakeFacts, FS_Subset
<1>2. Len(tasks) \in Nat /\ Cardinality(Notifying) \in Nat
  BY FS_CardinalityType DEF WakeInv, TypeOK
<1> QED BY <1>1, <1>2, AwakeFacts DEF WakeInv

(* A worker that finds no task turns away or leaves for good.               *)
LEMMA NoTask ==
  ASSUME WakeInv, tasks' = <<>>, Notifying' = Notifying
  PROVE  Len(tasks') <= Cardinality(Awake') + Cardinality(Notifying')
  BY AwakeFacts, FS_CardinalityType, EmptySeq DEF WakeInv

(* A push adds a task and a notification, notify_one turns a notification   *)
(* into a worker on its way, and a worker that turns away from the queue    *)
(* has taken a task or has found none.                                      *)
LEMMA WakeNext == IInv /\ TypeOK' /\ [Next]_vars => WakeInv'
<1> SUFFICES ASSUME TypeOK, TypeOK', LifeInv, WakeInv, [Next]_vars PROVE WakeInv'
  BY DEF IInv
<1> DEFINE Balance == Len(tasks) <= Cardinality(Awake) + Cardinality(Notifying)
<1>0. /\ Len(tasks) \in Nat /\ Cardinality(Notifying) \in Nat
      /\ IsFiniteSet(Notifying)
  BY FS_CardinalityType DEF WakeInv, TypeOK
<1>1. ASSUME NEW w \in Workers, Spawn(w)
      PROVE  WakeInv'
  <2>1. /\ wpc[w] = "unborn" /\ wpc'[w] = "acquire"
        /\ \A v \in Workers \ {w} : wpc'[v] = wpc[v]
        /\ tasks' = tasks /\ Notifying' = Notifying
    BY <1>1 DEF Spawn, TypeOK, Notifying
  <2>2. Waiting' \subseteq Waiting /\ Awake \subseteq Awake'
    BY <2>1 DEF Waiting, Awake
  <2> QED BY <2>1, <2>2, StillAwake DEF WakeInv, Alive
<1>2. ASSUME NEW w \in Workers, UnwindWorker(w) \/ RequestStop(w)
      PROVE  WakeInv'
  BY <1>2 DEF UnwindWorker, RequestStop, WakeInv, Waiting, Awake, Notifying, Alive
<1>3. CASE Constructed \/ SpawnFails \/ Joined \/ BeginDestroy
  BY <1>3 DEF Constructed, SpawnFails, Joined, BeginDestroy, WakeInv, Waiting, Awake,
              Notifying, Alive
<1>4. CASE NotifyAll
  <2>1. /\ \A w \in Workers : wpc'[w] = IF w \in Waiting THEN "acquire" ELSE wpc[w]
        /\ tasks' = tasks /\ Notifying' = Notifying
    BY <1>4 DEF NotifyAll, Notifying
  <2>2. Waiting' = {} BY <2>1 DEF Waiting
  <2> QED BY <2>1, <2>2 DEF WakeInv, Alive, Waiting
<1>5. ASSUME NEW w \in Workers, Acquire(w) \/ SpuriousWakeup(w) \/ FinishTask(w)
      PROVE  WakeInv'
  <2>1. /\ wpc[w] \in {"acquire", "waiting", "run"} /\ wpc'[w] \in {"acquire", "test"}
        /\ \A v \in Workers \ {w} : wpc'[v] = wpc[v]
        /\ tasks' = tasks /\ Notifying' = Notifying
    BY <1>5 DEF Acquire, SpuriousWakeup, FinishTask, TypeOK, Notifying
  <2>2. Waiting' \subseteq Waiting /\ Awake \subseteq Awake'
    BY <2>1 DEF Waiting, Awake
  <2> QED BY <2>1, <2>2, StillAwake DEF WakeInv, Alive
<1>6. ASSUME NEW w \in Workers, TestFails(w) \/ Block(w) \/ Exit(w)
      PROVE  WakeInv'
  <2>1. tasks = <<>> BY <1>6 DEF TestFails, Block, Exit, WakeInv
  <2>2. tasks' = tasks /\ Notifying' = Notifying
    BY <1>6 DEF TestFails, Block, Exit, Notifying
  <2> QED BY <1>0, <2>1, <2>2, NoTask DEF WakeInv
<1>7. ASSUME NEW w \in Workers, Take(w)
      PROVE  WakeInv'
  <2>1. /\ wpc[w] = "test" /\ wpc'[w] = "run" /\ w \in Awake
        /\ \A v \in Workers \ {w} : wpc'[v] = wpc[v]
        /\ Notifying' = Notifying
    BY <1>7 DEF Take, TypeOK, Awake, Notifying
  <2>2. Len(tasks') = Len(tasks) - 1
    BY <1>7, HeadTailProperties DEF Take, TypeOK
  <2>3. Waiting' = Waiting /\ Awake' = Awake \ {w}
    BY <2>1 DEF Waiting, Awake
  <2>4. Cardinality(Awake') = Cardinality(Awake) - 1
    BY <2>1, <2>3, AwakeFacts, FS_RemoveElement
  <2>5. Waiting' # {} => Balance'
    BY <1>0, <2>1, <2>2, <2>3, <2>4, AwakeFacts DEF WakeInv
  <2>6. \A v \in Workers : wpc'[v] # "block"
    BY <1>7, <2>1 DEF Take, TypeOK
  <2> QED BY <1>0, <2>1, <2>5, <2>6 DEF WakeInv, Alive
<1>8. ASSUME NEW e \in Callers, CallEnqueue(e)
      PROVE  WakeInv'
  <2>1. Notifying' = Notifying BY <1>8 DEF CallEnqueue, Notifying, TypeOK
  <2> QED BY <1>8, <2>1 DEF CallEnqueue, WakeInv, Waiting, Awake, Alive
<1>9. ASSUME NEW e \in Callers, Push(e)
      PROVE  WakeInv'
  <2>1. /\ Notifying' = Notifying \cup {e} /\ e \notin Notifying
        /\ Waiting' = Waiting /\ Awake' = Awake /\ wpc' = wpc
    BY <1>9 DEF Push, Notifying, Waiting, Awake, TypeOK
  <2>2. /\ IsFiniteSet(Notifying')
        /\ Cardinality(Notifying') = Cardinality(Notifying) + 1
    BY <1>0, <2>1, FS_AddElement
  <2>3. Len(tasks') = Len(tasks) + 1
    BY <1>9, AppendProperties DEF Push, TypeOK
  <2>4. Waiting' # {} => Balance'
    BY <1>0, <2>1, <2>2, <2>3, AwakeFacts DEF WakeInv
  <2>5. \A v \in Workers : wpc'[v] # "block"
    BY <1>9, ThreadFacts DEF Push, TypeOK
  <2>6. \E w \in Workers : wpc'[w] \notin {"unborn", "done"}
    <3>1. CASE e \in Workers BY <1>9, <2>1, <3>1 DEF Push, LifeInv
    <3>2. CASE e \in Clients
      <4>1. owner = "open" BY <1>9, <3>2 DEF Push, LifeInv
      <4>2. PICK w \in Workers : TRUE BY ThreadPoolAssumption
      <4> QED BY <2>1, <4>1, <4>2 DEF LifeInv
    <3> QED BY <3>1, <3>2, ThreadFacts
  <2> QED BY <2>2, <2>4, <2>5, <2>6 DEF WakeInv, Alive
<1>10. ASSUME NEW e \in Callers, NotifyOne(e)
       PROVE  WakeInv'
  <2>1. /\ Notifying' = Notifying \ {e} /\ e \in Notifying /\ tasks' = tasks
    BY <1>10 DEF NotifyOne, Notifying, TypeOK
  <2>2. /\ IsFiniteSet(Notifying')
        /\ Cardinality(Notifying') = Cardinality(Notifying) - 1
    BY <1>0, <2>1, FS_RemoveElement
  <2>3. CASE Waiting = {} /\ UNCHANGED wpc
    BY <2>1, <2>2, <2>3 DEF WakeInv, Waiting, Alive
  <2>4. ASSUME NEW w \in Waiting, wpc' = [wpc EXCEPT ![w] = "acquire"]
        PROVE  WakeInv'
    <3>1. /\ w \in Workers /\ wpc[w] = "waiting" /\ wpc'[w] = "acquire"
          /\ \A v \in Workers \ {w} : wpc'[v] = wpc[v]
      BY <2>4 DEF Waiting, TypeOK
    <3>2. Awake' = Awake \cup {w} /\ w \notin Awake
      BY <3>1 DEF Awake
    <3>3. Cardinality(Awake') = Cardinality(Awake) + 1
      BY <3>2, AwakeFacts, FS_AddElement
    <3>4. Waiting' # {} => Balance'
      BY <1>0, <2>1, <2>2, <2>4, <3>3, AwakeFacts DEF WakeInv
    <3> QED BY <2>1, <2>2, <3>1, <3>4 DEF WakeInv, Alive
  <2> QED BY <1>10, <2>3, <2>4 DEF NotifyOne
<1>11. CASE UNCHANGED vars
  BY <1>11 DEF vars, WakeInv, Waiting, Awake, Notifying, Alive
<1> QED
  BY <1>1, <1>2, <1>3, <1>4, <1>5, <1>6, <1>7, <1>8, <1>9, <1>10, <1>11
  DEF Next, OwnerStep, WorkerStep

-----------------------------------------------------------------------------
(* Tasks.                                                                   *)

(* Steps that neither push, take nor finish a task.                         *)
LEMMA TasksKept ==
  ASSUME TaskInv, tasks' = tasks, submitted' = submitted, running' = running, ready' = ready,
         \A w \in Workers : wpc'[w] = "run" <=> wpc[w] = "run"
  PROVE  TaskInv'
  BY DEF TaskInv, Started

(* A push appends the next task; what has started stays as it is.           *)
LEMMA PushTasks ==
  ASSUME TypeOK, TaskInv, NEW e \in Callers, Push(e)
  PROVE  TaskInv' /\ Started' = Started /\ submitted' = submitted + 1
<1>1. /\ Len(tasks) \in Nat /\ submitted \in Nat /\ Len(tasks') = Len(tasks) + 1
      /\ \A i \in 1 .. Len(tasks) : tasks'[i] = tasks[i]
      /\ tasks'[Len(tasks) + 1] = submitted
      /\ submitted' = submitted + 1 /\ running' = running /\ ready' = ready /\ wpc' = wpc
  BY AppendProperties DEF Push, TypeOK
<1>2. Started' = Started /\ Started \in Nat
  BY <1>1 DEF Started, TaskInv
<1>3. \A i \in 1 .. Len(tasks') : tasks'[i] = Started' + i - 1
  BY <1>1, <1>2 DEF TaskInv, Started
<1>4. Len(tasks') <= submitted' BY <1>1 DEF TaskInv
<1> QED BY <1>1, <1>2, <1>3, <1>4 DEF TaskInv

(* A worker takes the oldest task of the queue, which nobody has run.       *)
LEMMA TakeTask ==
  ASSUME TypeOK, TaskInv, NEW w \in Workers, Take(w)
  PROVE  /\ TaskInv' /\ Started' = Started + 1 /\ Started < submitted
         /\ submitted' = submitted /\ ready' = ready
<1>1. /\ Len(tasks) \in Nat /\ Len(tasks) > 0 /\ submitted \in Nat
      /\ Len(tasks') = Len(tasks) - 1
      /\ \A i \in 1 .. Len(tasks') : tasks'[i] = tasks[i + 1]
      /\ running' = [running EXCEPT ![w] = tasks[1]]
      /\ submitted' = submitted /\ ready' = ready
      /\ wpc[w] = "test" /\ wpc' = [wpc EXCEPT ![w] = "run"]
  BY HeadTailProperties, EmptySeq DEF Take, TypeOK
<1>2. /\ Started \in Nat /\ tasks[1] = Started /\ Started' = Started + 1
      /\ Started < submitted
  BY <1>1 DEF Started, TaskInv
<1>3. running[w] = None BY <1>1 DEF TaskInv
<1>4. /\ running'[w] = Started /\ wpc'[w] = "run"
      /\ \A v \in Workers \ {w} : running'[v] = running[v] /\ wpc'[v] = wpc[v]
  BY <1>1, <1>2 DEF TypeOK
<1>5. Len(tasks') <= submitted' BY <1>1 DEF TaskInv
<1>6. \A i \in 1 .. Len(tasks') : tasks'[i] = Started' + i - 1
  BY <1>1, <1>2 DEF TaskInv
<1>7. ASSUME NEW v \in Workers
      PROVE  wpc'[v] = "run" <=> running'[v] # None
  <2>1. CASE v = w BY <1>2, <1>4, <2>1 DEF None
  <2>2. CASE v # w BY <1>4, <2>2 DEF TaskInv
  <2> QED BY <2>1, <2>2
<1>8. \A v \in Workers : running[v] \in Nat \cup {None}
  BY DEF TypeOK
<1>9. \A v \in Workers : running'[v] # None => running'[v] < Started' /\ running'[v] \notin ready'
  BY <1>1, <1>2, <1>4, <1>8 DEF TaskInv, None
<1>10. \A u, v \in Workers : u # v /\ running'[u] # None => running'[u] # running'[v]
  BY <1>2, <1>4, <1>8 DEF TaskInv, None
<1>11. \A t \in ready' : t < Started'
  BY <1>1, <1>2 DEF TaskInv, TypeOK
<1>12. ASSUME NEW t \in 0 .. Started' - 1
       PROVE  t \in ready' \/ \E v \in Workers : running'[v] = t
  <2>1. CASE t = Started BY <1>4, <2>1
  <2>2. CASE t # Started
    <3>1. t \in 0 .. Started - 1 BY <1>2, <2>2
    <3>2. CASE t \in ready BY <1>1, <3>2
    <3>3. CASE \E v \in Workers : running[v] = t
      BY <1>3, <1>4, <3>1, <3>3 DEF None
    <3> QED BY <3>1, <3>2, <3>3 DEF TaskInv
  <2> QED BY <2>1, <2>2
<1> QED BY <1>1, <1>2, <1>5, <1>6, <1>7, <1>9, <1>10, <1>11, <1>12 DEF TaskInv

(* A task that finishes was started, and had not finished before.           *)
LEMMA FinishTaskTasks ==
  ASSUME TypeOK, TaskInv, NEW w \in Workers, FinishTask(w)
  PROVE  /\ TaskInv' /\ Started' = Started /\ submitted' = submitted
         /\ running[w] \in 0 .. Started - 1 /\ running[w] \notin ready
         /\ ready' = ready \cup {running[w]}
<1>1. /\ wpc[w] = "run" /\ wpc' = [wpc EXCEPT ![w] = "acquire"]
      /\ tasks' = tasks /\ submitted' = submitted /\ ready' = ready \cup {running[w]}
      /\ running' = [running EXCEPT ![w] = None]
  BY DEF FinishTask
<1>2. /\ Started' = Started /\ running[w] # None /\ running[w] \in Nat
      /\ running[w] < Started /\ running[w] \notin ready
      /\ Len(tasks) \in Nat /\ submitted \in Nat /\ Started \in Nat
  BY <1>1 DEF Started, TaskInv, TypeOK
<1>3. /\ running'[w] = None /\ wpc'[w] = "acquire"
      /\ \A v \in Workers \ {w} : running'[v] = running[v] /\ wpc'[v] = wpc[v]
  BY <1>1 DEF TypeOK
<1>4. \A v \in Workers \ {w} : running[v] # None => running[v] \notin ready'
  BY <1>1, <1>2 DEF TaskInv
<1>5. \A t \in ready' : t < Started' BY <1>1, <1>2 DEF TaskInv
<1>6. ASSUME NEW t \in 0 .. Started' - 1
      PROVE  t \in ready' \/ \E v \in Workers : running'[v] = t
  <2>1. t \in ready \/ \E v \in Workers : running[v] = t
    BY <1>2 DEF TaskInv
  <2> QED BY <1>1, <1>3, <2>1
<1>7. /\ Len(tasks') <= submitted'
      /\ \A i \in 1 .. Len(tasks') : tasks'[i] = Started' + i - 1
  BY <1>1, <1>2 DEF TaskInv
<1>8. \A v \in Workers : wpc'[v] = "run" <=> running'[v] # None
  BY <1>3 DEF TaskInv
<1>9. \A v \in Workers : running'[v] # None => running'[v] < Started' /\ running'[v] \notin ready'
  BY <1>2, <1>3, <1>4 DEF TaskInv
<1>10. ASSUME NEW u \in Workers, NEW v \in Workers, u # v, running'[u] # None
       PROVE  running'[u] # running'[v]
  <2>1. u # w /\ running'[u] = running[u] BY <1>3, <1>10
  <2>2. CASE v = w BY <1>3, <1>10, <2>2
  <2>3. CASE v # w BY <1>3, <1>10, <2>1, <2>3 DEF TaskInv
  <2> QED BY <2>2, <2>3
<1> QED BY <1>1, <1>2, <1>5, <1>6, <1>7, <1>8, <1>9, <1>10 DEF TaskInv

(* All other steps leave the tasks alone.                                   *)
LEMMA QuietStep ==
  ASSUME TypeOK, [Next]_vars,
         ~ \E e \in Callers : Push(e), ~ \E w \in Workers : Take(w) \/ FinishTask(w)
  PROVE  /\ tasks' = tasks /\ submitted' = submitted /\ running' = running /\ ready' = ready
         /\ \A w \in Workers : wpc'[w] = "run" <=> wpc[w] = "run"
<1> USE DEF TypeOK
<1>1. ASSUME NEW w \in Workers,
             \/ Spawn(w) \/ UnwindWorker(w) \/ RequestStop(w) \/ Acquire(w)
             \/ TestFails(w) \/ Block(w) \/ SpuriousWakeup(w) \/ Exit(w)
      PROVE  /\ tasks' = tasks /\ submitted' = submitted /\ running' = running /\ ready' = ready
             /\ \A v \in Workers : wpc'[v] = "run" <=> wpc[v] = "run"
  BY <1>1 DEF Spawn, UnwindWorker, RequestStop, Acquire, TestFails, Block, SpuriousWakeup, Exit
<1>2. CASE Constructed \/ Joined \/ SpawnFails \/ BeginDestroy
  BY <1>2 DEF Constructed, Joined, SpawnFails, BeginDestroy
<1>3. CASE NotifyAll BY <1>3 DEF NotifyAll, Waiting
<1>4. CASE \E e \in Callers : CallEnqueue(e) \/ NotifyOne(e)
  BY <1>4 DEF CallEnqueue, NotifyOne, Waiting
<1>5. CASE UNCHANGED vars BY <1>5 DEF vars
<1> QED BY <1>1, <1>2, <1>3, <1>4, <1>5 DEF Next, OwnerStep, WorkerStep

(* The inductive invariant, for any number of workers, clients and tasks.   *)
LEMMA NextInv == IInv /\ [Next]_vars => IInv'
<1> SUFFICES ASSUME IInv, [Next]_vars PROVE IInv'
  OBVIOUS
<1>1. TypeOK' BY TypeNext
<1>2. LifeInv' BY LifeNext
<1>3. WakeInv' BY <1>1, WakeNext
<1>4. TaskInv' BY PushTasks, TakeTask, FinishTaskTasks, QuietStep, TasksKept DEF IInv
<1> QED BY <1>1, <1>2, <1>3, <1>4 DEF IInv

(* What relates the queue, the tasks being run and the threads' program     *)
(* counters holds in every state of the pool.                               *)
THEOREM Invariance == Spec => []IInv
<1>1. Init => IInv BY InitInv
<1>2. IInv /\ [Next]_vars => IInv' BY NextInv
<1> QED BY <1>1, <1>2, PTL DEF Spec

-----------------------------------------------------------------------------
(* The safety properties of ThreadPool.                                     *)

(* One notify_one per push is enough: no task waits for a worker that       *)
(* sleeps and that nobody is about to wake.                                 *)
THEOREM WakeupSafety == Spec => []NoIdleWorker
<1>1. IInv => NoIdleWorker
  BY DEF IInv, WakeInv, NoIdleWorker
<1> QED BY <1>1, Invariance, PTL

(* A pool that is gone does nothing: its workers are done, and nobody may   *)
(* call enqueue.                                                            *)
LEMMA GoneIsQuiet ==
  ASSUME TypeOK, LifeInv, TaskInv, owner = "gone"
  PROVE  /\ \A e \in Callers : epc[e] # "push"
         /\ \A w \in Workers : wpc[w] \notin {"test", "run"}
  BY ThreadFacts DEF LifeInv, Alive

(* When the last worker has left, no task is left and all have run.         *)
LEMMA JoinedIsDrained ==
  ASSUME IInv, Joined
  PROVE  ready = 0 .. submitted - 1 /\ Started = submitted
<1>1. \A w \in Workers : ~Alive(w)
  BY DEF Joined, Spawned, Alive
<1>2. tasks = <<>> /\ Len(tasks) = 0 /\ submitted \in Nat
  BY <1>1, EmptySeq DEF IInv, WakeInv, TypeOK
<1>3. \A w \in Workers : running[w] = None
  BY <1>1 DEF Alive, IInv, TaskInv
<1>4. Started = submitted BY <1>2 DEF Started
<1>5. ASSUME NEW t \in 0 .. submitted - 1 PROVE t \in ready
  BY <1>3, <1>4 DEF IInv, TaskInv, None
<1>6. ready \subseteq 0 .. submitted - 1
  BY <1>2, <1>4 DEF IInv, TaskInv, TypeOK
<1> QED BY <1>4, <1>5, <1>6

(* owner reaches "gone" by Joined only, and never leaves it.                *)
LEMMA OwnerStepFacts ==
  ASSUME [Next]_vars, ~Joined
  PROVE  (owner' # "gone") <=> (owner # "gone")
<1>1. ASSUME NEW w \in Workers,
             \/ Spawn(w) \/ UnwindWorker(w) \/ RequestStop(w) \/ Acquire(w) \/ TestFails(w)
             \/ Block(w) \/ SpuriousWakeup(w) \/ Exit(w) \/ Take(w) \/ FinishTask(w)
      PROVE  owner' = owner
  BY <1>1 DEF Spawn, UnwindWorker, RequestStop, Acquire, TestFails, Block, SpuriousWakeup,
              Exit, Take, FinishTask
<1>2. CASE Constructed \/ SpawnFails \/ BeginDestroy \/ NotifyAll
  BY <1>2 DEF Constructed, SpawnFails, BeginDestroy, NotifyAll
<1>3. CASE \E e \in Callers : CallEnqueue(e) \/ Push(e) \/ NotifyOne(e)
  BY <1>3 DEF CallEnqueue, Push, NotifyOne
<1>4. CASE UNCHANGED vars BY <1>4 DEF vars
<1> QED BY <1>1, <1>2, <1>3, <1>4 DEF Next, OwnerStep, WorkerStep

(* Every step of the pool is a step of TaskPool or invisible there.         *)
LEMMA StepRefines ==
  ASSUME IInv, [Next]_vars
  PROVE  [TP!Next]_(TP!tvars)
<1> USE DEF Started
<1>1. CASE Joined
  <2>1. owner # "gone" /\ owner' = "gone" /\ UNCHANGED <<tasks, submitted, ready>>
    BY <1>1 DEF Joined
  <2> QED BY <1>1, <2>1, JoinedIsDrained DEF TP!Next, TP!Close
<1>2. ASSUME NEW e \in Callers, Push(e)
      PROVE  TP!Submit
  <2>1. owner # "gone" /\ owner' = owner
    BY <1>2, GoneIsQuiet DEF Push, IInv
  <2> QED BY <1>2, <2>1, PushTasks DEF IInv, Push, TP!Submit
<1>3. ASSUME NEW w \in Workers, Take(w)
      PROVE  TP!Start
  <2>1. owner # "gone" /\ owner' = owner
    BY <1>3, GoneIsQuiet DEF Take, IInv
  <2> QED BY <1>3, <2>1, TakeTask DEF IInv, TP!Start
<1>4. ASSUME NEW w \in Workers, FinishTask(w)
      PROVE  TP!Finish
  <2>1. owner # "gone" /\ owner' = owner
    BY <1>4, GoneIsQuiet DEF FinishTask, IInv
  <2> QED BY <1>4, <2>1, FinishTaskTasks DEF IInv, TP!Finish
<1>5. CASE /\ ~Joined /\ ~ \E e \in Callers : Push(e)
           /\ ~ \E w \in Workers : Take(w) \/ FinishTask(w)
  BY <1>5, QuietStep, OwnerStepFacts DEF IInv, TP!tvars
<1> QED BY <1>1, <1>2, <1>3, <1>4, <1>5 DEF TP!Next

(* Every behaviour of the pool is one of TaskPool: tasks start in order and *)
(* run once, and destruction completes only after the last of them.         *)
THEOREM Refinement == Spec => ImplementsTaskPool
<1>1. Init => TP!Init
  <2> SUFFICES ASSUME Init PROVE TP!Init
    OBVIOUS
  <2>1. submitted = 0 /\ Len(tasks) = 0 /\ ready = {}
    BY EmptySeq DEF Init
  <2>2. submitted - Len(tasks) = 0 BY <2>1
  <2>3. (owner # "gone") = TRUE BY DEF Init
  <2> QED BY <2>1, <2>2, <2>3, Zenon DEF TP!Init
<1>2. IInv /\ [Next]_vars => [TP!Next]_(TP!tvars)
  BY StepRefines
<1> QED BY <1>1, <1>2, Invariance, PTL DEF Spec, ImplementsTaskPool, TP!Spec
=============================================================================

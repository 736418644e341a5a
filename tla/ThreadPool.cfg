\* Two workers, two clients, tasks that enqueue tasks or wait for earlier ones, construction and destruction.
SPECIFICATION FairSpec
CONSTANTS
  Workers = {w1, w2}
  Clients = {m1, m2}
  Nobody = nobody
  MaxTasks = 5
INVARIANT NoIdleWorker
PROPERTIES ImplementsTaskPool EveryFutureReady
CHECK_DEADLOCK FALSE

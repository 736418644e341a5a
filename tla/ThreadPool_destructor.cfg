\* request_stop and notify_all between the two halves of condition.wait.
SPECIFICATION FairSpec
CONSTANTS
  Workers = {w1, w2}
  Clients = {m1}
  Nobody = nobody
  MaxTasks = 1
PROPERTY DestructorReturns
CHECK_DEADLOCK FALSE

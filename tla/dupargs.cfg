\* A task that passes the same object twice: handle_object_available
\* walks two cursors to one waiting node.
CONSTANTS
  t1 = t1  t2 = t2  t3 = t3
  o1 = o1  o2 = o2
  w1 = w1  w2 = w2  w3 = w3
  d1 = d1  d2 = d2
  cpu = cpu
  NoTask = NoTask
  Tasks <- MCTasks
  Objects <- MCObjects
  Workers <- MCWorkers
  Drivers <- MCDrivers
  Kinds <- MCKinds
  Args <- MCArgsRepeated
  Req <- MCReq
  DriverOf <- MCDriverOf
  Capacity <- MCCapacity
  InitialWorkers <- MCInitialWorkers
  Db = TRUE
  GlobalScheduler = TRUE
  MaxDeaths = 1
INIT Init
NEXT Next
INVARIANT
  NoDanglingCursorUse

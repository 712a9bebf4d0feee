\* Progress of the dispatch queue when a worker may die: handle_worker_removed
\* frees a reservation but does not call dispatch_tasks.
CONSTANTS
  t1 = t1  t2 = t2  t3 = t3
  o1 = o1  o2 = o2
  w1 = w1  w2 = w2  w3 = w3
  d1 = d1  d2 = d2
  cpu = cpu
  NoTask = NoTask
  Tasks <- MCTasks
  Objects <- MCObjects
  Workers <- MCWorkers
  Drivers <- MCDrivers
  Kinds <- MCKinds
  Args <- MCArgs
  Req <- MCReq
  DriverOf <- MCDriverOf
  Capacity <- MCCapacity
  InitialWorkers <- MCInitialWorkers
  Db = TRUE
  GlobalScheduler = FALSE
  MaxDeaths = 1
SPECIFICATION Spec
PROPERTY
  DispatchProgress

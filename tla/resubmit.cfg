CONSTANTS
  x0 = x0
  x1 = x1
  x2 = x2
  y0 = y0
  z0 = z0
  a1 = a1
  a2 = a2
  a3 = a3
  v0 = v0
  v1 = v1
  NoTask = NoTask
  Actors <- MCActors
  ActorOf <- MCActorOf
  Counter <- MCCounter
  Placement <- MCPlacement
  Origin <- MCOrigin
  ActorTasks <- MCActorTasksResubmit
  EarlySchedule = FALSE
SPECIFICATION Spec
INVARIANT NoAbort
CHECK_DEADLOCK FALSE

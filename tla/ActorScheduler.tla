--------------------------- MODULE ActorScheduler ---------------------------
(***************************************************************************)
(* The actor half of local_scheduler_algorithm.cc: the LocalActorInfo of   *)
(* every actor this node has heard of (task_counter, the queue sorted by   *)
(* actor_counter, the worker and its worker_available flag), the tasks     *)
(* cached while an actor's location is unknown, and the handlers that move *)
(* actor tasks.  dispatch_actor_task is the only place a task is handed to *)
(* an actor worker.  Every handler is one atomic step of the event loop.   *)
(*                                                                         *)
(* A failed CHECK aborts the process: the handler's remaining effects      *)
(* never happen, fault records which CHECK failed, and no event follows.   *)
(***************************************************************************)
EXTENDS Integers, Sequences, SequencesExt, FiniteSets, Functions

CONSTANTS
  ActorTasks,     \* actor task specs
  Actors,         \* actor ids
  ActorOf,        \* ActorOf[t]: TaskSpec_actor_id(t)
  Counter,        \* Counter[t]: TaskSpec_actor_counter(t)
  Placement,      \* Placement[a]: the node the actor lives on, "here" or "other"
  Origin,         \* Origin[t]: "local" (submitted on this node) or "remote"
                  \* (submitted elsewhere and sent here through the task table)
  EarlySchedule,  \* a task may be scheduled here before the actor creation
                  \* notification reaches this node
  NoTask          \* no actor task in progress

ASSUME /\ \A t \in ActorTasks : /\ ActorOf[t] \in Actors
                                /\ Counter[t] \in Nat
                                /\ Origin[t] \in {"local", "remote"}
       /\ \A a \in Actors : Placement[a] \in {"here", "other"}
       /\ EarlySchedule \in BOOLEAN
       /\ NoTask \notin ActorTasks

VARIABLES
  mapping,    \* actor_mapping (collaborator): "unknown", "here" or "other"
  infos,      \* local_actor_infos: actor -> LocalActorInfo
  cached,     \* cached_submitted_actor_tasks (with their sizes)
  forwarded,  \* tasks given to another local scheduler
  table,      \* task table row of each actor task: status and number of adds
  fault,      \* "none", or the CHECK that aborted the process
  worker,     \* actor worker process: "none", "starting", "connected", "gone"
  busy,       \* the actor task the worker is running (collaborator state)
  ran,        \* history: tasks handed to each actor's worker, in order
  arrived,    \* history: tasks that reached this node
  dropped     \* history: tasks freed by remove_actor

vars == <<mapping, infos, cached, forwarded, table, fault, worker, busy, ran,
          arrived, dropped>>

Info == [counter : Nat, queue : Seq(ActorTasks), worker : BOOLEAN,
         avail : BOOLEAN]

(***************************************************************************)
(* The state as one record; a handler is the composition of the helpers   *)
(* it calls, in the order it calls them.                                  *)
(***************************************************************************)
St == [mapping |-> mapping, infos |-> infos, cached |-> cached,
       forwarded |-> forwarded, table |-> table, fault |-> fault,
       worker |-> worker, busy |-> busy, ran |-> ran, arrived |-> arrived,
       dropped |-> dropped]

\* After a failed CHECK only the abort itself is visible.
Commit(s) ==
  IF s.fault = "none"
  THEN /\ mapping' = s.mapping    /\ infos' = s.infos
       /\ cached' = s.cached      /\ forwarded' = s.forwarded
       /\ table' = s.table        /\ fault' = s.fault
       /\ worker' = s.worker      /\ busy' = s.busy
       /\ ran' = s.ran            /\ arrived' = s.arrived
       /\ dropped' = s.dropped
  ELSE /\ fault' = s.fault
       /\ UNCHANGED <<mapping, infos, cached, forwarded, table, worker, busy,
                      ran, arrived, dropped>>

\* CHECK(...) failing.
Abort(s, check) == IF s.fault = "none" THEN [s EXCEPT !.fault = check] ELSE s

----------------------------------------------------------------------------
(* Helpers *)

\* create_actor: counter 0, empty queue, worker_available false; CHECK that
\* no entry exists for the actor yet.
CreateActor(s, a, hasWorker) ==
  IF a \in DOMAIN s.infos THEN Abort(s, "create_actor")
  ELSE [s EXCEPT !.infos = s.infos @@ (a :> [counter |-> 0, queue |-> <<>>,
                                              worker |-> hasWorker,
                                              avail |-> FALSE])]

\* remove_actor: free the queued tasks and erase the entry.
RemoveActor(s, a) ==
  [s EXCEPT !.dropped = @ \cup ToSet(s.infos[a].queue),
            !.infos = Restrict(s.infos, DOMAIN s.infos \ {a})]

\* Defective variant: hands out the head without comparing its counter.
DispatchActorTaskNoCounter(s, a) ==
  LET e == s.infos[a] IN
  CASE s.fault # "none" -> s
    [] s.mapping[a] # "here" -> Abort(s, "actor_mapping")
    [] e.queue = <<>> \/ ~e.avail -> s
    [] OTHER ->
         [s EXCEPT !.infos[a] = [e EXCEPT !.counter = @ + 1, !.avail = FALSE,
                                          !.queue = Tail(@)],
                   !.busy[a] = Head(e.queue),
                   !.ran[a] = Append(@, Head(e.queue))]

\* dispatch_actor_task: the CHECKs on actor_mapping, then hand the head to
\* the worker only if its counter is task_counter and the worker is free.
DispatchActorTask(s, a) ==
  LET e == s.infos[a] IN
  CASE s.fault # "none" -> s
    [] s.mapping[a] # "here" -> Abort(s, "actor_mapping")
    [] e.queue = <<>> -> s
    [] Counter[Head(e.queue)] < e.counter -> Abort(s, "actor_counter")
    [] Counter[Head(e.queue)] > e.counter \/ ~e.avail -> s
    [] OTHER ->
         [s EXCEPT !.infos[a] = [e EXCEPT !.counter = @ + 1, !.avail = FALSE,
                                          !.queue = Tail(@)],
                   !.busy[a] = Head(e.queue),
                   !.ran[a] = Append(@, Head(e.queue))]

\* Defective variant: adds a task table row even for a task from another
\* node, whose row already exists.
AddTaskToActorQueueAlwaysAdd(s, t, fromGlobal) ==
  LET a == ActorOf[t]
      s1 == IF a \in DOMAIN s.infos THEN s ELSE CreateActor(s, a, FALSE)
      q == s1.infos[a].queue
      i == SelectInSeq(q, LAMBDA u : ~(Counter[t] > Counter[u]))
  IN IF Counter[t] < s1.infos[a].counter THEN Abort(s1, "actor_counter_insert")
     ELSE [s1 EXCEPT !.infos[a].queue = InsertAt(q, IF i = 0 THEN Len(q) + 1 ELSE i, t),
                     !.table[t] = [status |-> "QUEUED", adds |-> @.adds + 1]]

\* Defective variant: appends instead of inserting in counter order.
AddTaskToActorQueueAppend(s, t, fromGlobal) ==
  LET a == ActorOf[t]
      s1 == IF a \in DOMAIN s.infos THEN s ELSE CreateActor(s, a, FALSE)
  IN IF Counter[t] < s1.infos[a].counter THEN Abort(s1, "actor_counter_insert")
     ELSE [s1 EXCEPT !.infos[a].queue = Append(@, t),
                     !.table[t] = [status |-> "QUEUED",
                                   adds |-> @.adds + (IF fromGlobal THEN 0 ELSE 1)]]

\* add_task_to_actor_queue: create the entry lazily (no worker yet), CHECK
\* the counter against task_counter, insert before the first queued task
\* whose counter is not smaller, then add or update the task table row.
AddTaskToActorQueue(s, t, fromGlobal) ==
  LET a == ActorOf[t]
      s1 == IF a \in DOMAIN s.infos THEN s ELSE CreateActor(s, a, FALSE)
      q == s1.infos[a].queue
      i == SelectInSeq(q, LAMBDA u : ~(Counter[t] > Counter[u]))
  IN IF Counter[t] < s1.infos[a].counter THEN Abort(s1, "actor_counter_insert")
     ELSE [s1 EXCEPT !.infos[a].queue = InsertAt(q, IF i = 0 THEN Len(q) + 1 ELSE i, t),
                     !.table[t] = [status |-> "QUEUED",
                                   adds |-> @.adds + (IF fromGlobal THEN 0 ELSE 1)]]

\* give_task_to_local_scheduler: a task table add, SCHEDULED on the owner.
GiveTaskToLocalScheduler(s, t) ==
  [s EXCEPT !.forwarded = @ \cup {t},
            !.table[t] = [status |-> "SCHEDULED", adds |-> @.adds + 1]]

\* Defective variant: queues every task of a known actor locally, without
\* comparing the actor's local scheduler with this one.
HandleActorTaskSubmittedNoForward(s, t) ==
  IF s.mapping[ActorOf[t]] = "unknown" THEN [s EXCEPT !.cached = Append(@, t)]
  ELSE DispatchActorTask(AddTaskToActorQueue(s, t, FALSE), ActorOf[t])

\* Defective variant: no dispatch_actor_task after queueing locally.
HandleActorTaskSubmittedNoDispatch(s, t) ==
  CASE s.mapping[ActorOf[t]] = "unknown" -> [s EXCEPT !.cached = Append(@, t)]
    [] s.mapping[ActorOf[t]] = "here" -> AddTaskToActorQueue(s, t, FALSE)
    [] OTHER -> GiveTaskToLocalScheduler(s, t)

\* handle_actor_task_submitted: cache while the location is unknown, queue
\* and dispatch if the actor is here, otherwise forward to its node.
HandleActorTaskSubmitted(s, t) ==
  CASE s.mapping[ActorOf[t]] = "unknown" -> [s EXCEPT !.cached = Append(@, t)]
    [] s.mapping[ActorOf[t]] = "here" ->
         DispatchActorTask(AddTaskToActorQueue(s, t, FALSE), ActorOf[t])
    [] OTHER -> GiveTaskToLocalScheduler(s, t)

\* The loop of handle_actor_creation_notification over indices i..n of the
\* cached array, each resubmission possibly appending to it.
RECURSIVE Replay(_, _, _)
Replay(i, n, s) ==
  IF i > n THEN s ELSE Replay(i + 1, n, HandleActorTaskSubmitted(s, s.cached[i]))

\* Defective variant: clears the whole array after the loop, dropping the
\* tasks the loop appended.
HandleActorCreationNotificationEraseAll(s) ==
  [Replay(1, Len(s.cached), s) EXCEPT !.cached = <<>>]

\* handle_actor_creation_notification: snapshot the length n, resubmit the
\* first n cached tasks, then erase exactly those n.
HandleActorCreationNotification(s) ==
  LET n == Len(s.cached)
  IN [Replay(1, n, s) EXCEPT !.cached = SubSeq(@, n + 1, Len(@))]

----------------------------------------------------------------------------
(* Actions: one per event the actor half handles *)

Alive == fault = "none"

\* handle_actor_task_submitted for a task submitted by a client of this node.
ActorTaskSubmitted(t) ==
  /\ Alive
  /\ Origin[t] = "local" /\ t \notin arrived
  /\ Commit(HandleActorTaskSubmitted([St EXCEPT !.arrived = @ \cup {t}], t))

\* handle_actor_task_scheduled: the task was sent to this node, the actor's
\* node.  Unless EarlySchedule, the creation notification arrived first.
ActorTaskScheduled(t) ==
  /\ Alive
  /\ Origin[t] = "remote" /\ t \notin arrived
  /\ Placement[ActorOf[t]] = "here"
  /\ EarlySchedule \/ mapping[ActorOf[t]] # "unknown"
  /\ Commit(DispatchActorTask(
              AddTaskToActorQueue([St EXCEPT !.arrived = @ \cup {t}], t, TRUE),
              ActorOf[t]))

\* The actor table notification: the collaborator records actor_mapping,
\* starts the actor's worker if the actor lives here (spec section 6), and
\* calls handle_actor_creation_notification.  It arrives once per actor.
ActorCreationNotification(a) ==
  /\ Alive
  /\ mapping[a] = "unknown"
  /\ Commit(HandleActorCreationNotification(
              [St EXCEPT !.mapping[a] = Placement[a],
                         !.worker[a] = IF Placement[a] = "here"
                                       THEN "starting" ELSE @]))

\* Defective variant: an entry created lazily by add_task_to_actor_queue is
\* left without its worker.
ActorWorkerConnectNoFill(a) ==
  /\ Alive
  /\ worker[a] = "starting"
  /\ LET s == [St EXCEPT !.worker[a] = "connected"]
     IN Commit(DispatchActorTask(
                 IF a \in DOMAIN infos THEN s ELSE CreateActor(s, a, TRUE), a))

\* handle_actor_worker_connect: create the entry or fill in its worker.
ActorWorkerConnect(a) ==
  /\ Alive
  /\ worker[a] = "starting"
  /\ LET s == [St EXCEPT !.worker[a] = "connected"]
     IN Commit(DispatchActorTask(
                 IF a \in DOMAIN infos
                 THEN [s EXCEPT !.infos[a].worker = TRUE]
                 ELSE CreateActor(s, a, TRUE), a))

\* handle_actor_worker_available: the worker finished its task (or has just
\* started) and asks for the next one.  CHECK(worker == entry.worker) fails
\* on an entry whose worker was never filled in; a worker never reports
\* available twice (CHECK(!entry.worker_available) is the guard).
ActorWorkerAvailable(a) ==
  /\ Alive
  /\ worker[a] = "connected" /\ ~infos[a].avail
  /\ Commit(IF ~infos[a].worker THEN Abort(St, "actor_worker")
            ELSE DispatchActorTask([St EXCEPT !.busy[a] = NoTask,
                                              !.infos[a].avail = TRUE], a))

\* handle_actor_worker_disconnect: the actor's worker died.
ActorWorkerDisconnect(a) ==
  /\ Alive
  /\ worker[a] = "connected"
  /\ Commit(RemoveActor([St EXCEPT !.worker[a] = "gone", !.busy[a] = NoTask], a))

Init ==
  /\ mapping = [a \in Actors |-> "unknown"]
  /\ infos = [a \in {} |-> [counter |-> 0, queue |-> <<>>, worker |-> FALSE,
                            avail |-> FALSE]]
  /\ cached = <<>>
  /\ forwarded = {}
  \* a remote task's row was added SCHEDULED by the node that forwarded it
  /\ table = [t \in ActorTasks |->
                IF Origin[t] = "remote" THEN [status |-> "SCHEDULED", adds |-> 1]
                ELSE [status |-> "NONE", adds |-> 0]]
  /\ fault = "none"
  /\ worker = [a \in Actors |-> "none"]
  /\ busy = [a \in Actors |-> NoTask]
  /\ ran = [a \in Actors |-> <<>>]
  /\ arrived = {}
  /\ dropped = {}

Next ==
  \/ \E t \in ActorTasks : ActorTaskSubmitted(t)
  \/ \E t \in ActorTasks : ActorTaskScheduled(t)
  \/ \E a \in Actors : ActorCreationNotification(a)
  \/ \E a \in Actors : ActorWorkerConnect(a)
  \/ \E a \in Actors : ActorWorkerAvailable(a)
  \/ \E a \in Actors : ActorWorkerDisconnect(a)

(***************************************************************************)
(* Fairness: a started actor worker eventually connects, and a connected   *)
(* worker eventually finishes its task and asks for the next one.  These   *)
(* are assumptions about worker processes; no client event is fair.        *)
(***************************************************************************)
Fairness ==
  \A a \in Actors : /\ WF_vars(ActorWorkerConnect(a))
                    /\ WF_vars(ActorWorkerAvailable(a))

Spec == Init /\ [][Next]_vars /\ Fairness

----------------------------------------------------------------------------
(* Properties *)

TypeOK ==
  /\ mapping \in [Actors -> {"unknown", "here", "other"}]
  /\ DOMAIN infos \subseteq Actors /\ \A a \in DOMAIN infos : infos[a] \in Info
  /\ cached \in Seq(ActorTasks)
  /\ forwarded \subseteq ActorTasks
  /\ table \in [ActorTasks -> [status : {"NONE", "QUEUED", "SCHEDULED"},
                               adds : 0..1]]
  /\ fault \in {"none", "actor_mapping", "actor_counter", "actor_counter_insert",
                "create_actor", "actor_worker"}
  /\ worker \in [Actors -> {"none", "starting", "connected", "gone"}]
  /\ busy \in [Actors -> ActorTasks \cup {NoTask}]
  /\ ran \in [Actors -> Seq(ActorTasks)]
  /\ arrived \subseteq ActorTasks /\ dropped \subseteq ActorTasks

\* Number of places task t is held in: the cache, an actor queue, forwarded
\* to another node, handed to a worker, or freed by remove_actor.
Occurrences(s, t) == Cardinality({i \in 1..Len(s) : s[i] = t})

Places(t) ==
  Occurrences(cached, t)
  + FoldFunction(LAMBDA e, acc : acc + Occurrences(e.queue, t), 0, infos)
  + FoldFunction(LAMBDA r, acc : acc + Occurrences(r, t), 0, ran)
  + (IF t \in forwarded THEN 1 ELSE 0) + (IF t \in dropped THEN 1 ELSE 0)

\* Every actor task that reached the node is in exactly one place, through
\* the snapshot-then-erase replay of handle_actor_creation_notification
\* included (a task re-cached during the replay survives it, once); and a
\* locally submitted task gets its task table add exactly when it leaves
\* the cache (add_task_to_actor_queue, give_task_to_local_scheduler).
ActorTaskExactlyOnce ==
  \A t \in ActorTasks :
    /\ Places(t) = IF t \in arrived THEN 1 ELSE 0
    /\ Origin[t] = "local" /\ t \in arrived =>
         table[t].adds = IF Occurrences(cached, t) = 1 THEN 0 ELSE 1

\* Spec section 8.5: each actor queue is strictly sorted by actor_counter
\* and holds no counter below task_counter (add_task_to_actor_queue's
\* insertion and dispatch_actor_task's pop keep this).
ActorQueueOrdered ==
  \A a \in DOMAIN infos :
    LET q == infos[a].queue IN
    /\ IsSorted([i \in 1..Len(q) |-> Counter[q[i]]], <)
    /\ \A i \in 1..Len(q) : Counter[q[i]] >= infos[a].counter

\* No CHECK of the actor handlers aborts the local scheduler.  Spec section
\* 7 says a task scheduled before the creation notification is tolerated,
\* and section 4.4 that a resubmitted counter is permitted.
NoAbort == fault = "none"

\* The abstract actor ordering: next is the number of tasks each actor
\* has run, done the tasks run so far.
Order == INSTANCE ActorOrder WITH
           next <- [a \in Actors |-> Len(ran[a])],
           done <- UNION {ToSet(ran[a]) : a \in Actors}

\* dispatch_actor_task hands each actor's tasks to its worker once each, in
\* counter order from 0 without gaps (refinement of ActorOrder).
ActorOrderSpec == Order!Spec

\* Task t is queued at its actor and every task of the actor with a smaller
\* counter is queued there too or has run.
Ready(t) ==
  LET a == ActorOf[t] IN
  /\ a \in DOMAIN infos /\ Contains(infos[a].queue, t)
  /\ \A u \in ActorTasks :
       ActorOf[u] = a /\ Counter[u] < Counter[t] =>
         Contains(infos[a].queue, u) \/ Contains(ran[a], u)

\* A queued actor task whose predecessors are all present is eventually run
\* by dispatch_actor_task, whichever handler made it ready, unless the
\* actor's worker disconnected (remove_actor drops the queue).
ActorProgress ==
  \A t \in ActorTasks :
    Ready(t) ~> (Contains(ran[ActorOf[t]], t) \/ worker[ActorOf[t]] = "gone")

============================================================================

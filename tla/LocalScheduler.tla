--------------------------- MODULE LocalScheduler ---------------------------
(***************************************************************************)
(* The regular-task half of local_scheduler_algorithm.cc: the waiting and  *)
(* dispatch queues, the local/remote object tables whose entries hold      *)
(* cursors into the waiting queue, the worker pool, dispatch_tasks, and    *)
(* the event handlers that drive them.  The scheduler runs on one event    *)
(* loop, so every handler is one atomic action.                            *)
(*                                                                         *)
(* A queue entry is represented by its task: a task is queued at most once *)
(* (TaskExactlyOnce), so a cursor to an entry is the task it holds, and a  *)
(* cursor is dangling exactly when its task is no longer in waiting.       *)
(***************************************************************************)
EXTENDS Integers, Sequences, SequencesExt, FiniteSets, Functions, TLC

CONSTANTS
  Tasks,           \* regular (non-actor) task specs
  Objects,         \* object ids
  Workers,         \* worker processes the node may ever start
  Drivers,         \* driver ids
  Kinds,           \* resource kinds (ResourceIndex)
  Args,            \* Args[t]: the by-reference argument ids of t, in order
  Req,             \* Req[t][k]: TaskSpec_get_required_resource(t, k)
  DriverOf,        \* DriverOf[t]: TaskSpec_driver_id(t)
  Capacity,        \* static_resources
  InitialWorkers,  \* workers started at boot, pending in child_pids
  Db,              \* state->db != NULL: the task table is reachable
  GlobalScheduler, \* config.global_scheduler_exists
  MaxDeaths,       \* bound on handle_worker_removed events
  NoTask           \* task_in_progress == NULL

ASSUME /\ Args \in [Tasks -> Seq(Objects)]
       /\ Req \in [Tasks -> [Kinds -> Nat]]
       /\ DriverOf \in [Tasks -> Drivers]
       /\ Capacity \in [Kinds -> Nat]
       /\ InitialWorkers \subseteq Workers
       /\ Db \in BOOLEAN
       /\ GlobalScheduler \in BOOLEAN
       /\ MaxDeaths \in Nat
       /\ NoTask \notin Tasks

VARIABLES
  waiting,     \* waiting_task_queue: tasks missing a by-ref argument
  dispatch,    \* dispatch_task_queue: tasks whose arguments are all local
  local,       \* keys of local_objects
  remote,      \* remote_objects: object id -> dependent_tasks (cursors)
  available,   \* available_workers
  executing,   \* executing_workers
  blocked,     \* blocked_workers
  dynamic,     \* dynamic_resources (collaborator state)
  inProgress,  \* worker->task_in_progress (collaborator state)
  proc,        \* process state of each worker: child_pids and registration
  fault,       \* "none", or the undefined behaviour the process ran into
  atGlobal,    \* tasks handed to the global scheduler, not yet scheduled back
  table,       \* task table row of each task: status and number of adds
  submitted,   \* history: tasks submitted so far
  outcome,     \* history: how a task left the node
  deaths       \* number of handle_worker_removed events so far

vars == <<waiting, dispatch, local, remote, available, executing, blocked,
          dynamic, inProgress, proc, fault, atGlobal, table, submitted, outcome,
          deaths>>

ProcStates == {"unstarted", "pending", "connected", "dead"}
Outcomes == {"none", "finished", "dropped", "lost"}
Statuses == {"NONE", "WAITING", "QUEUED"}

(***************************************************************************)
(* The algorithm state as one record, so that a handler can be written as *)
(* the composition of the helpers it calls, in the order it calls them.   *)
(***************************************************************************)
St == [waiting |-> waiting, dispatch |-> dispatch, local |-> local,
       remote |-> remote, available |-> available, executing |-> executing,
       blocked |-> blocked, dynamic |-> dynamic, inProgress |-> inProgress,
       proc |-> proc, fault |-> fault, atGlobal |-> atGlobal, table |-> table]

Commit(s) ==
  /\ waiting' = s.waiting      /\ dispatch' = s.dispatch
  /\ local' = s.local          /\ remote' = s.remote
  /\ available' = s.available  /\ executing' = s.executing
  /\ blocked' = s.blocked      /\ dynamic' = s.dynamic
  /\ inProgress' = s.inProgress /\ proc' = s.proc
  /\ fault' = s.fault          /\ atGlobal' = s.atGlobal
  /\ table' = s.table

----------------------------------------------------------------------------
(* Helpers *)

\* worker_in_vector
InVector(v, w) == Contains(v, w)

\* Defective variant: pop_back without the swap, dropping the last worker.
RemoveWorkerFromVectorNoSwap(v, w) == IF InVector(v, w) THEN Front(v) ELSE v

\* remove_worker_from_vector: swap the worker with the back, then pop_back.
RemoveWorkerFromVector(v, w) ==
  IF InVector(v, w)
  THEN Front([v EXCEPT ![SelectInSeq(v, LAMBDA x : x = w)] = Last(v)])
  ELSE v

\* can_run: every by-reference argument is in local_objects.
CanRun(t, loc) == \A i \in 1..Len(Args[t]) : Args[t][i] \in loc

\* TaskSpec_is_dependent_on
DependsOn(t, o) == \E i \in 1..Len(Args[t]) : Args[t][i] = o

\* The required resources of t fit the vector dyn componentwise.
Fits(t, dyn) == \A k \in Kinds : Req[t][k] <= dyn[k]

\* Reservation taken by assign_task_to_worker / returned when a worker
\* finishes or blocks (collaborator, spec section 6).
\* Defective variants: a reservation that is never debited, and one that
\* is credited twice.
AcquireNothing(dyn, t) == dyn

Acquire(dyn, t) == [k \in Kinds |-> dyn[k] - Req[t][k]]

ReleaseTwice(dyn, t) == [k \in Kinds |-> dyn[k] + 2 * Req[t][k]]

Release(dyn, t) == [k \in Kinds |-> dyn[k] + Req[t][k]]

\* task_table_add_task (fromGlobal FALSE) or task_table_update (TRUE) of a
\* row with the given status; nothing is written without a database.
TableWrite(tbl, t, status, fromGlobal) ==
  IF ~Db THEN tbl
  ELSE [tbl EXCEPT ![t] = [status |-> status,
                           adds |-> @.adds + (IF fromGlobal THEN 0 ELSE 1)]]

\* start_worker(state, NIL_ACTOR_ID): fork a worker and record its pid in
\* child_pids.  The model has |Workers| processes; once all are started the
\* request is a no-op (bound).
StartWorker(pr) ==
  IF \E w \in Workers : pr[w] = "unstarted"
  THEN [pr EXCEPT ![CHOOSE w \in Workers : pr[w] = "unstarted"] = "pending"]
  ELSE pr

\* fetch_missing_dependency: create the entry on first need, then append
\* the cursor.
FetchMissingDependency(rem, t, o) ==
  IF o \in DOMAIN rem
  THEN [rem EXCEPT ![o] = Append(@, t)]
  ELSE rem @@ (o :> <<t>>)

\* Defective variant: stop after the first missing argument.
FetchFirstMissingDependency(rem, t, loc) ==
  LET missing == SelectSeq(Args[t], LAMBDA o : o \notin loc)
  IN IF missing = <<>> THEN rem ELSE FetchMissingDependency(rem, t, Head(missing))

\* fetch_missing_dependencies: one cursor per by-ref argument not local.
FetchMissingDependencies(rem, t, loc) ==
  FoldLeft(LAMBDA r, o : FetchMissingDependency(r, t, o), rem,
           SelectSeq(Args[t], LAMBDA o : o \notin loc))

----------------------------------------------------------------------------
(* dispatch_tasks *)

\* Lines 607-621: hand the task at index i to the last available worker.
Assign(s, i) ==
  LET t == s.dispatch[i]
      w == Last(s.available)
  IN [s EXCEPT !.dispatch = RemoveAt(@, i),
               !.available = Front(@),
               !.executing = Append(@, w),
               !.dynamic = Acquire(@, t),
               !.inProgress = [@ EXCEPT ![w] = t]]

\* Defective variant: head-of-line blocking, stopping at a task that does
\* not fit instead of skipping it.
RECURSIVE DispatchFromBlocking(_, _)
DispatchFromBlocking(i, s) ==
  IF i > Len(s.dispatch) THEN s
  ELSE IF s.available = <<>>
       THEN IF \A w \in Workers : s.proc[w] # "pending"
            THEN [s EXCEPT !.proc = StartWorker(@)]
            ELSE s
  ELSE IF \A k \in Kinds : s.dynamic[k] <= 0 THEN s
  ELSE IF ~Fits(s.dispatch[i], s.dynamic) THEN s
  ELSE DispatchFromBlocking(i, Assign(s, i))

\* The loop of dispatch_tasks from index i of the dispatch queue.
RECURSIVE DispatchFrom(_, _)
DispatchFrom(i, s) ==
  IF i > Len(s.dispatch) THEN s
  ELSE IF s.available = <<>>
       THEN IF \A w \in Workers : s.proc[w] # "pending"
            THEN [s EXCEPT !.proc = StartWorker(@)]
            ELSE s
  ELSE IF \A k \in Kinds : s.dynamic[k] <= 0 THEN s
  ELSE IF ~Fits(s.dispatch[i], s.dynamic) THEN DispatchFrom(i + 1, s)
  ELSE DispatchFrom(i, Assign(s, i))

DispatchTasks(s) == DispatchFrom(1, s)

----------------------------------------------------------------------------
(* Queueing *)

\* Defective variant: ignore from_global_scheduler and always add the row.
QueueTaskAlwaysAdd(s, q, t, fromGlobal) ==
  [s EXCEPT ![q] = Append(@, t), !.table = TableWrite(@, t, "QUEUED", FALSE)]

\* queue_task: push_back on the queue and record the task as QUEUED.
QueueTask(s, q, t, fromGlobal) ==
  [s EXCEPT ![q] = Append(@, t), !.table = TableWrite(@, t, "QUEUED", fromGlobal)]

\* queue_waiting_task: queue_task, then fetch_missing_dependencies.
QueueWaitingTask(s, t, fromGlobal) ==
  LET s1 == QueueTask(s, "waiting", t, fromGlobal)
  IN [s1 EXCEPT !.remote = FetchMissingDependencies(@, t, s1.local)]

\* queue_dispatch_task
QueueDispatchTask(s, t, fromGlobal) == QueueTask(s, "dispatch", t, fromGlobal)

\* queue_task_locally
QueueTaskLocally(s, t, fromGlobal) ==
  IF CanRun(t, s.local) THEN QueueDispatchTask(s, t, fromGlobal)
  ELSE QueueWaitingTask(s, t, fromGlobal)

\* resource_constraints_satisfied: within both static and dynamic resources.
ResourceConstraintsSatisfied(t, s) == Fits(t, Capacity) /\ Fits(t, s.dynamic)

----------------------------------------------------------------------------
(* Object notifications *)

\* Defective variant: copy the entry to dispatch without erasing it from
\* waiting.
PromoteDependentNoErase(s, t) ==
  IF ~Contains(s.waiting, t) THEN [s EXCEPT !.fault = "dangling_cursor"]
  ELSE IF CanRun(t, s.local) THEN [s EXCEPT !.dispatch = Append(@, t)] ELSE s

\* One iteration of the loop over dependent_tasks in handle_object_available.
\* Dereferencing a cursor whose node was erased is undefined behaviour.
PromoteDependent(s, t) ==
  IF ~Contains(s.waiting, t) THEN [s EXCEPT !.fault = "dangling_cursor"]
  ELSE IF CanRun(t, s.local)
       THEN [s EXCEPT !.dispatch = Append(@, t), !.waiting = Remove(@, t)]
       ELSE s

\* Defective variant: promote the dependents without re-running dispatch.
PromoteDependentsNoDispatch(s, deps) == FoldLeft(PromoteDependent, s, deps)

\* The block of handle_object_available run when the entry had dependents:
\* promote each runnable one, then dispatch_tasks.
PromoteDependents(s, deps) ==
  IF deps = <<>> THEN s ELSE DispatchTasks(FoldLeft(PromoteDependent, s, deps))

\* handle_object_available
ObjectAvailable(o) ==
  LET deps == IF o \in DOMAIN remote THEN remote[o] ELSE <<>>
      s1 == [St EXCEPT !.local = @ \cup {o},
                       !.remote = Restrict(@, DOMAIN @ \ {o})]
  IN /\ o \notin local
     /\ Commit(PromoteDependents(s1, deps))
     /\ UNCHANGED <<submitted, outcome, deaths>>

\* The second loop of handle_object_removed: re-register the cursor of every
\* waiting task, once per by-ref argument equal to o.
RefetchRemoved(rem, q, o) ==
  FoldLeft(LAMBDA r, t :
             FoldLeft(LAMBDA r2, a : IF a = o THEN FetchMissingDependency(r2, t, o)
                                              ELSE r2, r, Args[t]),
           rem, q)

\* Defective variant: no dispatch task is demoted.
DemotedNone(q, o) == <<>>

\* Defective variant: look at the first argument only.
DemotedByFirstArg(q, o) ==
  SelectSeq(q, LAMBDA t : Len(Args[t]) > 0 /\ Args[t][1] = o)

\* The first loop of handle_object_removed: the dispatch tasks that depend
\* on o, in queue order, to be spliced onto the waiting queue.
Demoted(q, o) == SelectSeq(q, LAMBDA t : DependsOn(t, o))

\* handle_object_removed
ObjectRemoved(o) ==
  LET moved == Demoted(dispatch, o)
      q == waiting \o moved
  IN /\ o \in local
     /\ local' = local \ {o}
     /\ dispatch' = SelectSeq(dispatch, LAMBDA t : ~Contains(moved, t))
     /\ waiting' = q
     /\ remote' = RefetchRemoved(remote, q, o)
     /\ UNCHANGED <<available, executing, blocked, dynamic, inProgress, proc,
                    fault, atGlobal, table, submitted, outcome, deaths>>

----------------------------------------------------------------------------
(* Task submission *)

\* give_task_to_global_scheduler: queue locally when there is no global
\* scheduler, else add the row as WAITING for the global scheduler.
GiveTaskToGlobalScheduler(s, t) ==
  IF ~Db \/ ~GlobalScheduler THEN QueueTaskLocally(s, t, FALSE)
  ELSE [s EXCEPT !.atGlobal = @ \cup {t}, !.table = TableWrite(@, t, "WAITING", FALSE)]

\* handle_task_submitted
TaskSubmitted(t) ==
  LET direct == ResourceConstraintsSatisfied(t, St) /\ available # <<>>
                /\ CanRun(t, St.local)
      s1 == IF direct THEN QueueDispatchTask(St, t, FALSE)
                      ELSE GiveTaskToGlobalScheduler(St, t)
  IN /\ t \notin submitted
     /\ submitted' = submitted \cup {t}
     /\ Commit(DispatchTasks(s1))
     /\ UNCHANGED <<outcome, deaths>>

\* handle_task_scheduled: the global scheduler placed t on this node.
TaskScheduled(t) ==
  /\ t \in atGlobal
  /\ Commit(DispatchTasks(QueueTaskLocally([St EXCEPT !.atGlobal = @ \ {t}], t, TRUE)))
  /\ UNCHANGED <<submitted, outcome, deaths>>

----------------------------------------------------------------------------
(* Worker messages *)

\* The worker's pid registers: it leaves child_pids (local_scheduler.cc).
WorkerRegisters(w) ==
  /\ proc[w] = "pending"
  /\ proc' = [proc EXCEPT ![w] = "connected"]
  /\ UNCHANGED <<waiting, dispatch, local, remote, available, executing,
                 blocked, dynamic, inProgress, fault, atGlobal, table,
                 submitted, outcome, deaths>>

\* handle_worker_available, preceded by the collaborator finishing the
\* worker's task in progress and returning its reservation.
\* The messages a worker may send for handle_worker_available: it is
\* connected and is neither waiting for work nor blocked in a get.
CanAskForWork(w) ==
  /\ proc[w] = "connected"
  /\ ~InVector(available, w)
  /\ ~InVector(blocked, w)

WorkerAvailable(w) ==
  LET t == inProgress[w]
      s1 == IF t = NoTask THEN St
            ELSE [St EXCEPT !.dynamic = Release(@, t),
                            !.inProgress = [@ EXCEPT ![w] = NoTask]]
      s2 == [s1 EXCEPT !.executing = RemoveWorkerFromVector(@, w),
                       !.available = Append(@, w)]
  IN /\ CanAskForWork(w)
     /\ outcome' = IF t = NoTask THEN outcome ELSE [outcome EXCEPT ![t] = "finished"]
     /\ Commit(DispatchTasks(s2))
     /\ UNCHANGED <<submitted, deaths>>

\* handle_worker_blocked: the worker returns its reservation while it waits.
WorkerBlocked(w) ==
  LET s1 == [St EXCEPT !.dynamic = Release(@, inProgress[w]),
                       !.executing = RemoveWorkerFromVector(@, w),
                       !.blocked = Append(@, w)]
  IN /\ InVector(executing, w)
     /\ Commit(DispatchTasks(s1))
     /\ UNCHANGED <<submitted, outcome, deaths>>

\* handle_worker_unblocked: the worker takes its reservation back.
WorkerUnblocked(w) ==
  /\ InVector(blocked, w)
  /\ dynamic' = Acquire(dynamic, inProgress[w])
  /\ blocked' = RemoveWorkerFromVector(blocked, w)
  /\ executing' = Append(executing, w)
  /\ UNCHANGED <<waiting, dispatch, local, remote, available, inProgress, proc,
                 fault, atGlobal, table, submitted, outcome, deaths>>

\* handle_worker_removed.  The task in progress is lost; an executing worker's
\* reservation is returned by the collaborator.
WorkerRemoved(w) ==
  LET t == inProgress[w]
  IN /\ proc[w] = "connected"
     /\ deaths < MaxDeaths
     /\ deaths' = deaths + 1
     /\ proc' = [proc EXCEPT ![w] = "dead"]
     /\ available' = RemoveWorkerFromVector(available, w)
     /\ executing' = RemoveWorkerFromVector(executing, w)
     /\ blocked' = RemoveWorkerFromVector(blocked, w)
     /\ dynamic' = IF InVector(executing, w) THEN Release(dynamic, t) ELSE dynamic
     /\ inProgress' = [inProgress EXCEPT ![w] = NoTask]
     /\ outcome' = IF t = NoTask THEN outcome ELSE [outcome EXCEPT ![t] = "lost"]
     /\ UNCHANGED <<waiting, dispatch, local, remote, fault, atGlobal, table, submitted>>

----------------------------------------------------------------------------
(* Driver removal *)

\* Defective variant: purge the cursors but keep emptied entries.
PurgeDriverCursorsKeepEmpty(rem, d) ==
  [o \in DOMAIN rem |-> SelectSeq(rem[o], LAMBDA t : DriverOf[t] # d)]

\* The first loop of handle_driver_removed: purge the driver's cursors and
\* drop the entries left without dependents.
PurgeDriverCursors(rem, d) ==
  LET keep(o) == SelectSeq(rem[o], LAMBDA t : DriverOf[t] # d)
  IN [o \in {x \in DOMAIN rem : keep(x) # <<>>} |-> keep(o)]

\* handle_driver_removed
DriverRemoved(d) ==
  LET gone == {t \in Tasks : DriverOf[t] = d /\ (Contains(waiting, t) \/ Contains(dispatch, t))}
  IN /\ remote' = PurgeDriverCursors(remote, d)
     /\ waiting' = SelectSeq(waiting, LAMBDA t : DriverOf[t] # d)
     /\ dispatch' = SelectSeq(dispatch, LAMBDA t : DriverOf[t] # d)
     /\ outcome' = [t \in Tasks |-> IF t \in gone THEN "dropped" ELSE outcome[t]]
     /\ UNCHANGED <<local, available, executing, blocked, dynamic, inProgress,
                    proc, fault, atGlobal, table, submitted, deaths>>

----------------------------------------------------------------------------
(* Specification *)

Init ==
  /\ waiting = <<>>
  /\ dispatch = <<>>
  /\ local = {}
  /\ remote = [o \in {} |-> <<>>]
  /\ available = <<>>
  /\ executing = <<>>
  /\ blocked = <<>>
  /\ dynamic = Capacity
  /\ inProgress = [w \in Workers |-> NoTask]
  /\ proc = [w \in Workers |-> IF w \in InitialWorkers THEN "pending" ELSE "unstarted"]
  /\ fault = "none"
  /\ atGlobal = {}
  /\ table = [t \in Tasks |-> [status |-> "NONE", adds |-> 0]]
  /\ submitted = {}
  /\ outcome = [t \in Tasks |-> "none"]
  /\ deaths = 0

\* Once fault is set the process's behaviour is undefined; fault stays set
\* and the invariant naming it is violated in that state.
Next ==
  \/ \E t \in Tasks : TaskSubmitted(t)
  \/ \E t \in Tasks : TaskScheduled(t)
  \/ \E o \in Objects : ObjectAvailable(o)
  \/ \E o \in Objects : ObjectRemoved(o)
  \/ \E w \in Workers : WorkerRegisters(w)
  \/ \E w \in Workers : WorkerAvailable(w)
  \/ \E w \in Workers : WorkerBlocked(w)
  \/ \E w \in Workers : WorkerUnblocked(w)
  \/ \E w \in Workers : WorkerRemoved(w)
  \/ \E d \in Drivers : DriverRemoved(d)

\* Started processes connect, connected workers ask for work, running tasks
\* finish and blocked workers are unblocked: all of these are the workers'
\* own progress.  A task makes finitely many blocking gets, so a worker that
\* keeps returning to executing eventually finishes (strong fairness).
\* Submissions, object arrivals, deaths and driver exits are the
\* environment's and are not assumed to happen.
\* SF_vars(WorkerAvailable(w)), stated with the action's enabling condition
\* (CanAskForWork, as the rest of the action is deterministic) and its only
\* visible effect (w enters available_workers), which TLC checks far faster
\* than the ENABLED of the whole handler.
AsksForWorkWhenAble(w) ==
  []<>CanAskForWork(w) => []<><<~InVector(available, w) /\ InVector(available', w)>>_vars

\* A pending or blocked worker stays so until its own step, so weak fairness
\* of "some worker registers / unblocks" gives every worker its turn.
Fairness ==
  /\ WF_vars(\E w \in Workers : WorkerRegisters(w))
  /\ WF_vars(\E w \in Workers : WorkerUnblocked(w))
  /\ \A w \in Workers : AsksForWorkWhenAble(w)

Spec == Init /\ [][Next]_vars /\ Fairness

----------------------------------------------------------------------------
(* Properties *)

\* The places a task can be in: queued once in waiting or dispatch, held by
\* the global scheduler, in progress on one worker, or gone with an outcome.
Count(q, t) == Len(SelectSeq(q, LAMBDA x : x = t))
Places(t) ==
  Count(waiting, t) + Count(dispatch, t)
  + (IF t \in atGlobal THEN 1 ELSE 0)
  + Cardinality({w \in Workers : inProgress[w] = t})
  + (IF outcome[t] # "none" THEN 1 ELSE 0)

TypeOK ==
  /\ waiting \in Seq(Tasks)
  /\ dispatch \in Seq(Tasks)
  /\ local \subseteq Objects
  /\ DOMAIN remote \subseteq Objects
  /\ \A o \in DOMAIN remote : remote[o] \in Seq(Tasks)
  /\ available \in Seq(Workers)
  /\ executing \in Seq(Workers)
  /\ blocked \in Seq(Workers)
  /\ dynamic \in [Kinds -> Int]
  /\ \A k \in Kinds : dynamic[k] <= Capacity[k]
  /\ inProgress \in [Workers -> Tasks \cup {NoTask}]
  /\ proc \in [Workers -> ProcStates]
  /\ atGlobal \subseteq Tasks
  /\ table \in [Tasks -> [status : Statuses, adds : 0..2]]
  /\ submitted \subseteq Tasks
  /\ outcome \in [Tasks -> Outcomes]
  /\ deaths \in 0..MaxDeaths

\* Every submitted task is in exactly one place and an unsubmitted task in
\* none: no handler of the queues, the object tables, the pool or driver
\* removal loses or duplicates a queue entry (TaskQueueEntry ownership).
TaskExactlyOnce ==
  \A t \in Tasks : Places(t) = IF t \in submitted THEN 1 ELSE 0

\* Spec invariant 3: a task in dispatch has all its by-ref arguments in
\* local_objects, after object removal demoted the tasks that lost one.
DispatchReady ==
  \A i \in 1..Len(dispatch) : CanRun(dispatch[i], local)

\* Spec invariant 4, strengthened: a waiting task misses some argument, and
\* every argument it misses has a remote_objects entry holding a cursor to
\* it, so the arrival of that object will reconsider the task.
WaitingTracked ==
  \A i \in 1..Len(waiting) :
    LET t == waiting[i] IN
    /\ ~CanRun(t, local)
    /\ \A j \in 1..Len(Args[t]) :
         Args[t][j] \notin local =>
           /\ Args[t][j] \in DOMAIN remote
           /\ Contains(remote[Args[t][j]], t)

\* The object tables: local and remote are disjoint (spec invariant 1), and
\* every remote entry has dependents, each a cursor to a waiting task that
\* takes the object as an argument (no dangling or stale cursor).
CursorsValid ==
  /\ local \cap DOMAIN remote = {}
  /\ \A o \in DOMAIN remote :
       /\ remote[o] # <<>>
       /\ \A i \in 1..Len(remote[o]) :
            Contains(waiting, remote[o][i]) /\ DependsOn(remote[o][i], o)

\* Spec invariant 2 and the worker state machine: the three vectors are
\* duplicate free and pairwise disjoint, hold only connected workers, and a
\* worker has a task in progress exactly when it is executing or blocked.
WorkerPoolConsistent ==
  /\ \A w \in Workers :
       Count(available, w) + Count(executing, w) + Count(blocked, w) <= 1
  /\ \A w \in Workers :
       (InVector(available, w) \/ InVector(executing, w) \/ InVector(blocked, w))
         => proc[w] = "connected"
  /\ \A w \in Workers :
       (inProgress[w] # NoTask) <=> (InVector(executing, w) \/ InVector(blocked, w))

\* The node's resources are conserved across assign, finish, block, unblock
\* and worker removal: what is available plus what executing workers hold
\* equals the static capacity.
ResourcesConserved ==
  \A k \in Kinds :
    dynamic[k] + FoldLeft(LAMBDA acc, w : acc + Req[inProgress[w]][k], 0, executing)
      = Capacity[k]

\* The task table: a row is added once, when the task is first seen, and
\* later writes are updates (the from_global_scheduler flag threaded through
\* queue_task); a task queued here reads QUEUED and a task held by the
\* global scheduler reads WAITING.
TaskTableAgrees ==
  Db =>
    \A t \in Tasks :
      /\ table[t].adds = IF t \in submitted THEN 1 ELSE 0
      /\ (Contains(waiting, t) \/ Contains(dispatch, t)) => table[t].status = "QUEUED"
      /\ t \in atGlobal => table[t].status = "WAITING"

\* dispatch_tasks runs after every event that frees a worker or resources
\* (worker available, worker blocked, an object arriving, a submission), and
\* its skip rule passes over a task that does not fit: so no worker is left
\* idle while some resource is free and a dispatch task fits what is free.
WorkConserving ==
  (available # <<>> /\ \E k \in Kinds : dynamic[k] > 0) =>
    \A i \in 1..Len(dispatch) : ~Fits(dispatch[i], dynamic)

\* Spec section 5: cursors are never used after their node is erased.
NoDanglingCursorUse == fault # "dangling_cursor"

\* A task in dispatch whose requirement fits the node's capacity is
\* eventually handed to a worker (or dropped with its driver): dispatch_tasks
\* skips, never blocks on, a task that does not fit now, and is re-run when a
\* worker frees its reservation.
DispatchProgress ==
  \A t \in Tasks :
    (Contains(dispatch, t) /\ Fits(t, Capacity)) ~> ~Contains(dispatch, t)


\* Where task t is in its life, as TaskLifecycle names it.
Status(t) ==
  CASE outcome[t] # "none" -> outcome[t]
    [] \E w \in Workers : inProgress[w] = t -> "running"
    [] t \in submitted -> "queued"
    [] OTHER -> "unsubmitted"

Lifecycle == INSTANCE TaskLifecycle WITH
               status <- [t \in Tasks |-> Status(t)],
               ArgSet <- [t \in Tasks |-> ToSet(Args[t])]

\* The handlers implement TaskLifecycle: dispatch_tasks starts a task only
\* when every by-ref argument is in local_objects (object removal having
\* demoted the dispatch tasks that lost one), no task starts twice, and a
\* finished, dropped or lost task never comes back.
LifecycleSpec == Lifecycle!Spec

=============================================================================

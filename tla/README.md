# TLA+ models of the Ray local scheduling algorithm

This directory holds TLA+ models of `src/src/local_scheduler/local_scheduler_algorithm.cc`,
the scheduling core of a Ray local scheduler: the queues a task passes through on one
node, the table of objects the node holds or is fetching, the pool of workers, and the
per-actor queues. Each module is translated from the source; the lines each definition
stands for are listed under `map` in `PROJECT.json`.

## 1. Inventory

The scheduler is single-threaded: one event loop serialises every handler, and no
handler suspends. Every handler below is therefore one atomic TLA+ action, and all the
difficulty is in the *order* of handlers: object notifications, worker messages, global
scheduler callbacks and driver removal arrive in any order the outside world produces.

### Components

| Component | Source | State it keeps | Operations (handlers) |
|---|---|---|---|
| Task queue manager | `queue_task`, `queue_waiting_task`, `queue_dispatch_task`, `queue_task_locally`, `dispatch_tasks`, `give_task_to_global_scheduler`, `handle_task_submitted`, `handle_task_scheduled` (lines 554-832, 895-907) | `waiting_task_queue`, `dispatch_task_queue` (lists of `TaskQueueEntry`) | submit, scheduled-by-global, dispatch |
| Dependency tracker | `fetch_missing_dependency(ies)`, `can_run`, `handle_object_available`, `handle_object_removed`, `fetch_object_timeout_handler` (438-552, 1045-1132) | `local_objects`, `remote_objects` (object id -> `ObjectEntry` with cursors into the waiting list) | object available, object removed, fetch timer |
| Worker pool | `worker_in_vector`, `remove_worker_from_vector`, `handle_worker_available/removed/blocked/unblocked` (170-204, 940-1043) | `available_workers`, `executing_workers`, `blocked_workers` (vectors) | worker available, removed, blocked, unblocked |
| Driver removal | `handle_driver_removed` (1134-1185) | - (purges the three structures above) | driver removed |
| Actor subsystem | `create_actor`, `remove_actor`, `dispatch_actor_task`, `add_task_to_actor_queue`, `handle_actor_*`, `give_task_to_local_scheduler` (226-436, 746-770, 834-938, 999-1014) | `local_actor_infos` (per actor: `task_counter`, sorted `task_queue`, `worker`, `worker_available`), `cached_submitted_actor_tasks` | actor task submitted / scheduled, creation notification, actor worker connect / disconnect / available |
| Lifecycle and introspection | `SchedulingAlgorithmState_init/free`, `provide_scheduler_info`, `num_*_tasks`, `print_worker_info` (113-168, 206-224, 1187-1200) | - | read-only or teardown |

Collaborators that are **not** in `src/` (they live in `local_scheduler.cc` and the
state/ and plasma libraries) and that the models represent from `spec.md` §6, marked
`spec_modelled` in the map: `assign_task_to_worker` (debits `dynamic_resources`, sets the
worker's task in progress), `start_worker` (adds a pid to `child_pids`), worker
registration (removes it), the release of a reservation when a worker finishes or blocks
and its re-acquisition when it unblocks, and the global scheduler returning a task with
`handle_task_scheduled`.

### How they interact

- Every handler mutates the shared algorithm state and then calls one of the two
  drivers, `dispatch_tasks` (regular tasks) or `dispatch_actor_task` (one actor), which are
  the only places a task is handed to a worker.
- The dependency tracker holds *cursors* (list iterators) into the waiting list: a task
  in `waiting` is indexed from every `remote_objects` entry it is missing. Moving a task
  to `dispatch` erases its waiting node; nothing in `dispatch` is indexed, so
  `handle_object_removed` rescans `dispatch` to demote tasks.
- The worker pool and the resource vector are shared between `dispatch_tasks` and the
  worker messages (a blocked worker returns its reservation, an unblocked one takes it
  back, a finishing one returns it).
- Actor tasks bypass both queues. They are cached while the actor's location is
  unknown and replayed on every actor creation notification.

### What is hard

- **Cursor validity.** A cursor must point at a live node of `waiting` whenever it is
  used. A task with the same object passed twice gets two cursors in one entry; when the
  object arrives, the first moves the task and erases its node, the second is then used
  (`handle_object_available`, line 1070).
- **Demotion and re-promotion.** Object removal must turn every dispatch task that
  depends on the object back into an indexed waiting task, or the task never runs again.
- **Resource accounting** across assign / finish / block / unblock / worker death, and the
  skip-not-block rule of `dispatch_tasks`.
- **Worker pool membership** under swap-and-pop removal and messages in any order.
- **Driver removal** must purge cursors before erasing list nodes.
- **Actor ordering**: strict per-actor order by counter, cached tasks replayed with the
  snapshot-then-erase loop, tasks arriving from the global scheduler before the actor
  creation notification, and resubmitted tasks with a repeated counter.

### Properties that make each component correct

- Task queue manager: every submitted task is in exactly one place (waiting, dispatch,
  at the global scheduler, on one worker, finished, dropped, lost); a task in dispatch
  that fits the node is eventually assigned.
- Dependency tracker: every dispatch task has all arguments local; every waiting task
  is missing an argument and is indexed from every missing argument's entry; every
  cursor points at a waiting task that depends on the entry's object; local and remote
  are disjoint; no cursor is ever used after its node is erased.
- Worker pool: the three vectors are disjoint and duplicate free, hold only connected
  workers, and a worker holds a task exactly while executing or blocked; the resources
  of the node are conserved (`dynamic + held by executing workers = static`).
- Actor subsystem: tasks run on each actor in counter order without gaps; every cached
  actor task is replayed exactly once; no handler aborts on an event sequence the spec
  says is tolerated.

## 2. Plan

| Order | Module | Models | Composes | State |
|---|---|---|---|---|
| 1 | `LocalScheduler` | task queues, dependency tracker, worker pool, `dispatch_tasks`, driver removal, submission and global-scheduler paths | - | done |
| 2 | `MC_LocalScheduler` + `core.cfg`, `core_live.cfg`, `dupargs.cfg`, `death_live.cfg` | constants for TLC | instantiates `LocalScheduler` | done |
| 3 | `ActorScheduler` + `MC_ActorScheduler` | actor queues, cached tasks, actor workers, actor mapping | - | done |
| 4 | `TaskLifecycle` (abstract) | one task's life: unsubmitted -> queued -> running -> finished / dropped / lost, started only with its inputs local | refined by `LocalScheduler` through `INSTANCE ... WITH` | done |
| 5 | `ActorOrder` (abstract) | actor tasks run in counter order, once each | refined by `ActorScheduler` | done |
| 6 | `Node` | both halves together | - | dropped, see "Not modelled" |

Runs planned: `core` (safety of the queues, object tables, pool and resources),
`core_live` (dispatch progress under fair worker completion), `dupargs` (violation: a
task with a repeated by-reference argument), actor safety and ordering, actor violation
runs for a task scheduled before the creation notification and for a resubmitted
counter, and the two refinement runs.

Bounds: three tasks, two objects, three workers (two started at boot, one spare that
`start_worker` can add), one resource kind of capacity 2 and requirements 1, 2 and 1 so
that the skip rule, exhaustion and a head task that needs the whole node all occur.

## 3. What is modelled now

### `LocalScheduler.tla`

State (one VARIABLE per field of `SchedulingAlgorithmState` that the regular-task path uses):

| Variable | Code |
|---|---|
| `waiting`, `dispatch` | `waiting_task_queue`, `dispatch_task_queue`, as sequences of task ids (a task is queued at most once, so a cursor is represented by the task it points to; it dangles exactly when that task is no longer in `waiting`) |
| `local`, `remote` | `local_objects` (key set only, since no handler reads a local entry's dependents) and `remote_objects` (object -> sequence of cursors) |
| `available`, `executing`, `blocked` | the three worker vectors, with order kept: `dispatch_tasks` pops the back, `remove_worker_from_vector` swaps and pops |
| `dynamic` | `dynamic_resources` |
| `inProgress`, `proc` | the worker's task in progress, and the process states `unstarted`/`pending` (in `child_pids`)/`connected`/`dead` |
| `atGlobal`, `table` | tasks handed to the global scheduler, and the task table row (status, number of `task_table_add` calls) |
| `submitted`, `outcome`, `deaths`, `fault` | history for the properties: submission, how a task ended, the bounded number of worker deaths, and the undefined-behaviour marker (`dangling_cursor`, sticky once set) |

Actions are the handlers: `TaskSubmitted`, `TaskScheduled`, `ObjectAvailable`,
`ObjectRemoved`, `WorkerRegisters`, `WorkerAvailable`, `WorkerBlocked`,
`WorkerUnblocked`, `WorkerRemoved` and `DriverRemoved`. Each one composes the helpers in the code's call
order, trailing `dispatch_tasks` included, on the record `St` and commits it. The
`dispatch_tasks` loop is the recursive `DispatchFrom`. Using a cursor whose node is already
erased is undefined behaviour in C++. The model records it as `fault = "dangling_cursor"`
and does nothing else in that step: the rest of the handler's effect on that cursor is
left out, since the C++ behaviour from there on is undefined.

### Runs (`MC_LocalScheduler.tla`)

Bounds: tasks `t1` (argument `o1`, 1 cpu, driver `d1`), `t2` (arguments `o1,o2`, 2 cpu, `d1`), and
`t3` (no arguments, 1 cpu, `d2`). Workers `w1`, `w2` start at boot, and `w3` is what `start_worker` adds.
There is one resource kind with capacity 2. With these bounds the skip rule (t2 at the head
with 1 cpu free), exhaustion, objects arriving in either order, demotion of a
dispatch task, blocking with a task queued behind, and one death all occur.

| Run | Expect | What it shows |
|---|---|---|
| `core` | pass | Eight invariants hold over all interleavings, with the global scheduler on and one worker death: `TaskExactlyOnce`, `DispatchReady`, `WaitingTracked`, `CursorsValid`, `WorkerPoolConsistent`, `ResourcesConserved`, `TaskTableAgrees` and `TypeOK` (about 62k states). The run also checks `LifecycleSpec`, the refinement of `TaskLifecycle`. |
| `core_live` | pass | `DispatchProgress`: a dispatch task that fits the node is eventually assigned. No deaths; the global scheduler is off, so every task is queued locally. |
| `work` | pass | `WorkConserving`: no worker is left available while some resource is free and a dispatch task fits it. Global scheduler on, no deaths (29,624 states). It holds because every handler that frees a worker or a reservation ends in `dispatch_tasks`, whose skip rule passes over a task that does not fit. With one death it fails at once: `handle_worker_removed` returns the reservation without dispatching, the gap `death_live` shows as lost progress. Its mutant is head-of-line blocking in `dispatch_tasks`; dropping the `dispatch_tasks` of `handle_worker_blocked` is caught too. |
| `dupargs` | violation | `NoDanglingCursorUse` fails in 3 steps when `t1` passes `o1` twice. This is a real use-after-erase at line 1070. |
| `death_live` | violation | `DispatchProgress` fails once one worker may die. `handle_worker_removed` does not re-run `dispatch_tasks`, so in TLC's trace `t2`, which needs both CPUs, stays in `dispatch` beside the idle available worker `w1` after the death of `w2` (which held the other CPU) returned its reservation. |

Each property of the passing runs has a mutant in `PROJECT.json`. The mutant is a plausible
coding slip in the definition the property is about (no swap in `remove_worker_from_vector`,
only the first missing argument fetched, no `dispatch_tasks` after promotion, and so on),
and TLC finds the property violated under the mutant.

### Refinement of `TaskLifecycle.tla`

`TaskLifecycle` is what the regular path promises a task:
- it is submitted once;
- it is queued until it starts on a worker, and it starts only while every by-reference
  argument is in the local store;
- it then finishes, or is lost with its worker; a queued task may instead be dropped with
  its driver;
- nothing goes back.

One step may move several tasks, because `dispatch_tasks` assigns several. The detailed
module maps onto it with the `Status` operator:
- a task with an `outcome` is finished, dropped or lost;
- a task that some worker has in progress is running, whether executing or blocked;
- a submitted task is queued, whether in `waiting`, in `dispatch` or at the global scheduler.

`LifecycleSpec == Lifecycle!Spec` is checked as a PROPERTY in `core`. Its mutant is an
object removal that demotes no dispatch task. That lets a task start after one of its
inputs was evicted, which violates the refinement.

### `ActorScheduler.tla` and the refinement of `ActorOrder.tla`

State:
- `infos` is `local_actor_infos`: per actor, `task_counter`, the queue, whether `worker` is
  set, and `worker_available`.
- `cached` is `cached_submitted_actor_tasks`.
- `forwarded` holds the tasks given to another local scheduler.
- `table` holds the task table rows.
- `mapping` is the collaborator's `actor_mapping`, and `worker` is the actor worker process.
- `busy`, `ran`, `arrived` and `dropped` are history for the properties.

Actions are the six actor handlers: `ActorTaskSubmitted`, `ActorTaskScheduled`,
`ActorCreationNotification`, `ActorWorkerConnect`, `ActorWorkerAvailable` and
`ActorWorkerDisconnect`. Each is composed from `CreateActor`, `RemoveActor`,
`AddTaskToActorQueue`, `DispatchActorTask`, `GiveTaskToLocalScheduler` and the recursive
`Replay`. `Replay` is the snapshot-then-erase loop of `handle_actor_creation_notification`.

A failing `CHECK` aborts the process. `Commit` then publishes only `fault`, and no further
event is enabled.

The CHECKs modelled as aborts are:
- `actor_mapping`: lines 299-300;
- `actor_counter`: line 318;
- `actor_counter_insert`: line 406;
- `create_actor`: an entry already exists, line 250;
- `actor_worker`: `worker == entry.worker`, line 1009. It fails when an entry was created
  lazily by a task and the worker's connect never filled it in.

`NoAbort` therefore also checks that `handle_actor_worker_connect` fills in an existing
entry rather than creating one. Besides the forwarding mutant, a connect that leaves the
lazily created entry without its worker (`ActorWorkerConnectNoFill`) is caught.

The notification step also does the collaborator's share, taken from the spec: it records
`actor_mapping` and, for an actor that lives here, starts its worker. An actor worker
therefore connects only after the mapping is known.

`ActorOrder` is the abstract promise: each actor runs its tasks once each, in counter
order from 0, without gaps. `ActorScheduler` maps onto it as follows:
- `next` is the number of tasks handed to each actor's worker;
- `done` is the set of those tasks.

Bounds (`MC_ActorScheduler.tla`):
- Actor `a1` lives here and has counters 0, 1 and 2:
  - `x0` and `x2` are submitted here;
  - `x1` is submitted on another node and scheduled here.
- Actor `a2` lives elsewhere and has task `y0`, submitted here.
- Actor `a3` also lives here, with `v0` (counter 0) submitted here and `v1` (counter 1)
  scheduled here. `actor` and `actor_live` use all three actors (9,416 states);
  `early_schedule` and `resubmit` need only `a1` and `a2`.
- With this instance:
  - counters arrive out of order and through both handlers;
  - `y0` can be cached, re-cached by the replay of `a1` or `a3`, and forwarded later;
  - the cache can hold tasks of two actors when the first notification replays it;
  - two actor workers start, finish and die in any interleaving;
  - the worker can be available before a task arrives;
  - the worker can die with tasks queued, after which a late task recreates the entry.
- `z0`, used only by `resubmit`, is a resubmission of `x0`: same actor, same counter.

| Run | Expect | What it shows |
|---|---|---|
| `actor` | pass | `TypeOK`, `ActorTaskExactlyOnce` (through the replay too), `ActorQueueOrdered` (spec invariant 5), `NoAbort` (no CHECK fires without early scheduling or resubmission), and the refinement `ActorOrderSpec`. |
| `actor_live` | pass | `ActorProgress`: a queued actor task whose predecessors are present is eventually run unless the worker disconnects. |
| `early_schedule` | violation | `NoAbort`: a task scheduled here before the creation notification reaches the `CHECK` at line 299 and aborts, though spec section 7 says this case is tolerated. |
| `resubmit` | violation | `NoAbort`: a resubmitted counter fails the `CHECK` at line 406 (or line 318). Spec section 4.4 says resubmission is permitted; the TODO at lines 403-405 expects the failure. |

`actor_live` assumes that a started actor worker connects and that a connected one
eventually finishes its task and reports available. Both are weak fairness, because each
action stays enabled until it is taken. `actor` and `actor_live` say `CHECK_DEADLOCK
FALSE`: with a finite set of actor tasks the node goes idle once they have all run.
The liveness property takes the place of the deadlock check.

### `ObjectFetcher.tla`: the fetch timer and plasma connectivity

`ObjectFetcher` extends `LocalScheduler` with four variables:
- `plasma` is `plasma_manager_is_connected`;
- `armed` says the fetch timer is registered with the event loop;
- `sent` is the batch of object ids the latest step asked plasma for;
- `disconnects` counts the disconnections, bounded by `MaxDisconnects`.

Every scheduler handler becomes `SchedulerStep`. It carries the immediate fetch of
`fetch_missing_dependency` (lines 453-458), which is sent for each entry the step creates
in `remote_objects`, and only while connected. `FetchObjectTimeoutHandler` is the timer
(lines 527-549). While disconnected it logs and returns. Otherwise it fetches and
reconstructs every entry of `remote_objects`. Both branches return the period, which
re-arms the timer. `PlasmaDisconnect` and `PlasmaReconnect` are the collaborator; spec
section 7 calls the disconnection transient.

Run `fetch_live` (`MC_ObjectFetcher`, the `core_live` constants, `MaxDisconnects = 1`,
66,529 states) checks `FetchRetried`. It says that an object still in `remote_objects` is
fetched again infinitely often, whatever the scheduler's own events do. The fairness
assumed is only that the event loop fires a registered timer and that a dropped
connection returns. The mutant returns `AE_TIMER_NOMORE` from the disconnected branch. A
single disconnection then stops every later fetch.

### `ObjectRoundTrip.tla`: removal followed by availability

Spec section 8, item 7 says that `object_removed(O)` followed by `object_available(O)`
leaves `waiting`, `dispatch`, `local_objects` and `remote_objects` as if O had never been
removed. `ObjectRoundTrip` adds a history variable `last`: the object and the state just
before the latest step, when that step was a removal. The action property
`RoundTripRestores` compares the state after the next step, when that step makes the same
object available, with that snapshot.

Run `roundtrip` is a violation:
1. dispatch is `<<t1, t3>>`, and t1 uses o1;
2. removing o1 moves t1 to the tail of `waiting` (line 1101);
3. making o1 available again appends t1 to the tail of `dispatch` (line 1072);
4. dispatch is now `<<t3, t1>>`, so `dispatch_tasks` hands t3 out first.

### Fairness

`core_live` assumes the following of the outside world:

- a started worker eventually registers (weak fairness);
- a blocked worker eventually unblocks, because the object it waits for is produced (weak fairness);
- a connected, idle worker that is repeatedly able to report `worker available`
  eventually does, i.e. a task finishes (`AsksForWorkWhenAble`, a strong-fairness form).

The event loop does not guarantee any of these; they are assumptions about workers.
Nothing is assumed fair for submission, object removal or driver removal.

### Assumptions taken from `spec.md` (spec_modelled)

- `assign_task_to_worker` debits the task's requirements, and finishing or blocking credits
  them back.
- Unblocking re-debits them without any check.
- A dying worker's reservation is credited back (`WorkerRemoved`). If the collaborator did
  not do this, resources would leak and `death_live` would fail all the same.

### Not modelled

- **Teardown and introspection.** `SchedulingAlgorithmState_init` is modelled as the
  `Init` of both scheduler modules. The rest is left out:
  - `SchedulingAlgorithmState_free` runs once, at process exit. It frees what the queues,
    the actor infos and the cache hold; after it no handler runs, so no property can
    observe it.
  - `provide_scheduler_info`, `num_waiting_tasks`, `num_dispatch_tasks` and
    `print_worker_info` only read the lengths of queues and vectors the model already has.
- **A `Node` module joining the two halves (plan item 6, dropped).** The two halves share no
  algorithm state in `local_scheduler_algorithm.cc`:
  - actor workers never enter the three worker vectors;
  - actor tasks never enter `waiting` or `dispatch`;
  - driver removal explicitly leaves actors alone.

  Their only coupling would be the resource debit of the collaborator
  `assign_task_to_worker`, which is not in `src/`. A composition would therefore check
  nothing the separate modules do not.
- **Tasks of a removed driver coming back from the global scheduler.** The model reaches
  this through `TaskScheduled`, but neither the spec nor the code claims it must not
  happen.
- **Repeated actor creation notifications.** Spec section 4.4 says the notification
  arrives once per actor.

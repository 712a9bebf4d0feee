---------------------------- MODULE TaskLifecycle ----------------------------
(***************************************************************************)
(* What the local scheduler promises about one regular task (spec section  *)
(* 4.6): it is submitted once, is queued (anywhere: waiting, dispatch, or  *)
(* at the global scheduler) until it starts on a worker, and starts only   *)
(* while every object it takes by reference is in the local store.  A     *)
(* running task finishes or is lost with its worker; a queued one may be   *)
(* dropped with its driver.  Nothing goes back: no task runs twice.        *)
(* One step may move several tasks (dispatch_tasks assigns several).       *)
(***************************************************************************)
CONSTANTS
  Tasks,    \* regular task specs
  Objects,  \* object ids
  ArgSet    \* ArgSet[t]: the objects t takes by reference

VARIABLES
  status,  \* status[t]: where task t is in its life
  local    \* objects in the local store

vars == <<status, local>>

States == {"unsubmitted", "queued", "running", "finished", "dropped", "lost"}

\* The moves a task may make in one step.
Moves == {<<"unsubmitted", "queued">>, <<"unsubmitted", "running">>,
          <<"queued", "running">>, <<"queued", "dropped">>,
          <<"running", "finished">>, <<"running", "lost">>}

Init ==
  /\ status = [t \in Tasks |-> "unsubmitted"]
  /\ local = {}

Starts(t) == status[t] # "running" /\ status'[t] = "running"

Step ==
  /\ local' \subseteq Objects
  /\ \A t \in Tasks : status'[t] = status[t] \/ <<status[t], status'[t]>> \in Moves
  /\ \A t \in Tasks : Starts(t) => ArgSet[t] \subseteq local'

Spec == Init /\ [][Step]_vars

=============================================================================

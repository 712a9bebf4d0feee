--------------------------- MODULE ObjectFetcher ---------------------------
(***************************************************************************)
(* The fetch side of the dependency tracker, on top of LocalScheduler: the *)
(* immediate plasma_fetch that fetch_missing_dependency sends when it      *)
(* creates a remote_objects entry while the plasma manager is connected,   *)
(* and fetch_object_timeout_handler, the event-loop timer that re-sends a  *)
(* fetch (and a reconstruction request) for every remote_objects entry.    *)
(* The plasma manager connection comes and goes (spec section 7 calls the  *)
(* disconnection transient).  sent is the batch of object ids the latest   *)
(* step asked plasma for.                                                  *)
(***************************************************************************)
EXTENDS LocalScheduler

CONSTANTS
  MaxDisconnects  \* bound on plasma manager disconnections

ASSUME MaxDisconnects \in Nat

VARIABLES
  plasma,       \* plasma_manager_is_connected(state->plasma_conn)
  armed,        \* the fetch timer is registered with the event loop
  sent,         \* object ids fetched (and reconstructed) by the latest step
  disconnects   \* number of disconnections so far

fvars == <<vars, plasma, armed, sent, disconnects>>

\* fetch_missing_dependency: an entry it creates is fetched once at once,
\* if the plasma manager is connected.  It is the only place an entry of
\* remote_objects is created.
FetchOnCreate == IF plasma THEN DOMAIN remote' \ DOMAIN remote ELSE {}

\* Any scheduler handler, with the immediate fetches it sends.
SchedulerStep ==
  /\ Next
  /\ sent' = FetchOnCreate
  /\ UNCHANGED <<plasma, armed, disconnects>>

\* Defective variant: the disconnected branch returns AE_TIMER_NOMORE, so
\* the event loop deletes the timer.
FetchObjectTimeoutHandlerNoRearm ==
  /\ armed
  /\ sent' = IF plasma THEN DOMAIN remote ELSE {}
  /\ armed' = plasma
  /\ UNCHANGED <<vars, plasma, disconnects>>

\* fetch_object_timeout_handler: if disconnected, log and return; else
\* fetch and reconstruct every object of remote_objects.  Both branches
\* return LOCAL_SCHEDULER_FETCH_TIMEOUT_MILLISECONDS, re-arming the timer.
FetchObjectTimeoutHandler ==
  /\ armed
  /\ sent' = IF plasma THEN DOMAIN remote ELSE {}
  /\ armed' = TRUE
  /\ UNCHANGED <<vars, plasma, disconnects>>

\* The plasma manager connection drops (collaborator).
PlasmaDisconnect ==
  /\ plasma /\ disconnects < MaxDisconnects
  /\ plasma' = FALSE /\ disconnects' = disconnects + 1 /\ sent' = {}
  /\ UNCHANGED <<vars, armed>>

\* ... and comes back.
PlasmaReconnect ==
  /\ ~plasma
  /\ plasma' = TRUE /\ sent' = {}
  /\ UNCHANGED <<vars, armed, disconnects>>

FInit ==
  /\ Init
  /\ plasma = TRUE /\ armed = TRUE /\ sent = {} /\ disconnects = 0

FNext ==
  \/ SchedulerStep
  \/ FetchObjectTimeoutHandler
  \/ PlasmaDisconnect
  \/ PlasmaReconnect

\* The event loop fires a registered timer every period, and a dropped
\* plasma connection comes back (spec section 7: transient).  Nothing of
\* the scheduler's own events is assumed fair here.
FSpec ==
  /\ FInit /\ [][FNext]_fvars
  /\ WF_fvars(FetchObjectTimeoutHandler)
  /\ WF_fvars(PlasmaReconnect)

\* An object the node keeps waiting for is asked of plasma again and again
\* for as long as it stays in remote_objects: a fetch lost, refused or sent
\* while disconnected is retried by the timer, whatever else happens.
FetchRetried ==
  \A o \in Objects : []<>(o \notin DOMAIN remote \/ o \in sent)

============================================================================

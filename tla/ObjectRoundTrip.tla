-------------------------- MODULE ObjectRoundTrip --------------------------
(***************************************************************************)
(* Spec section 8, item 7: object_removed(O) followed at once by           *)
(* object_available(O) leaves (waiting, dispatch, local_objects,           *)
(* remote_objects) as if O had never been removed.  LocalScheduler with a  *)
(* history variable: last holds the object and the state just before the   *)
(* latest step, when that step was handle_object_removed.                   *)
(***************************************************************************)
EXTENDS LocalScheduler

VARIABLE last

rvars == <<vars, last>>

\* The part of the state the claim is about.
Snap == <<waiting, dispatch, local, remote>>

NoRemoval == [obj |-> NoTask, snap |-> <<>>]

RInit == Init /\ last = NoRemoval

RNext ==
  \/ \E o \in Objects : ObjectRemoved(o) /\ last' = [obj |-> o, snap |-> Snap]
  \/ Next /\ last' = NoRemoval

RSpec == RInit /\ [][RNext]_rvars

\* An object-available notification that directly follows the removal of
\* the same object (handle_object_removed, then handle_object_available)
\* restores the queues and object tables the removal changed.
RoundTripRestores ==
  [][\A o \in Objects :
       (last.obj = o /\ ObjectAvailable(o)) => Snap' = last.snap]_rvars

============================================================================

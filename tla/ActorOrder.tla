----------------------------- MODULE ActorOrder -----------------------------
(***************************************************************************)
(* What the actor half of the local scheduler promises (spec section 4.4): *)
(* the tasks of one actor are handed to its worker in strict actor_counter *)
(* order, starting at 0, without gaps, and each task at most once.  Tasks  *)
(* of different actors interleave freely.                                  *)
(***************************************************************************)
EXTENDS Naturals

CONSTANTS
  ActorTasks,  \* actor task specs
  Actors,      \* actor ids
  ActorOf,     \* ActorOf[t]: TaskSpec_actor_id(t)
  Counter      \* Counter[t]: TaskSpec_actor_counter(t)

VARIABLES
  next,  \* next[a]: the counter the actor runs next
  done   \* tasks handed to their actor's worker so far

vars == <<next, done>>

Init ==
  /\ next = [a \in Actors |-> 0]
  /\ done = {}

\* Task t is handed to the worker of its actor.
Execute(t) ==
  /\ t \notin done
  /\ Counter[t] = next[ActorOf[t]]
  /\ next' = [next EXCEPT ![ActorOf[t]] = @ + 1]
  /\ done' = done \cup {t}

Next == \E t \in ActorTasks : Execute(t)

Spec == Init /\ [][Next]_vars

\* Every actor has run exactly the counters below next.
Ordered ==
  \A a \in Actors :
    {Counter[t] : t \in {u \in done : ActorOf[u] = a}} = 0..(next[a] - 1)

=============================================================================

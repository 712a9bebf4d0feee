-------------------------- MODULE MC_ActorScheduler --------------------------
(***************************************************************************)
(* Constants for checking ActorScheduler.  Actor a1 lives on this node and *)
(* a2 on another one.  a1 has three tasks: x0 and x2 submitted here, x1    *)
(* submitted elsewhere and scheduled here, so counters can arrive out of   *)
(* order and through both handlers; y0 of a2 is submitted here and is      *)
(* forwarded, or cached and replayed by a1's notification.  z0 is a        *)
(* resubmission of x0 (same actor, same counter) sent by another node.     *)
(* The large instance adds a3, a second actor on this node, with v0        *)
(* submitted here and v1 scheduled here, so that two actor workers, two   *)
(* replays of the cache and forwarding all interleave.                     *)
(***************************************************************************)
EXTENDS ActorScheduler

CONSTANTS x0, x1, x2, y0, z0, v0, v1, a1, a2, a3

MCActorTasks == {x0, x1, x2, y0}
MCActorTasksResubmit == {x0, x1, y0, z0}
MCActors == {a1, a2}
MCActorTasksLarge == {x0, x1, x2, y0, v0, v1}
MCActorsLarge == {a1, a2, a3}
MCActorOf == (x0 :> a1) @@ (x1 :> a1) @@ (x2 :> a1) @@ (y0 :> a2) @@ (z0 :> a1)
             @@ (v0 :> a3) @@ (v1 :> a3)
MCCounter == (x0 :> 0) @@ (x1 :> 1) @@ (x2 :> 2) @@ (y0 :> 0) @@ (z0 :> 0)
             @@ (v0 :> 0) @@ (v1 :> 1)
MCPlacement == (a1 :> "here") @@ (a2 :> "other") @@ (a3 :> "here")
MCOrigin == (x0 :> "local") @@ (x1 :> "remote") @@ (x2 :> "local")
            @@ (y0 :> "local") @@ (z0 :> "remote")
            @@ (v0 :> "local") @@ (v1 :> "remote")

============================================================================

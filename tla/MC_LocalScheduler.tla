------------------------- MODULE MC_LocalScheduler -------------------------
(***************************************************************************)
(* Model-checking instance of LocalScheduler: three tasks of two drivers,  *)
(* two objects, two workers started at boot and one that start_worker can  *)
(* add, and one resource kind of capacity 2.  t2 needs the whole node, so  *)
(* it is skipped whenever t1 or t3 holds a CPU; t2 takes both objects and  *)
(* t1 one of them, so one arrival can release one task and not the other. *)
(***************************************************************************)
EXTENDS LocalScheduler

CONSTANTS t1, t2, t3, o1, o2, w1, w2, w3, d1, d2, cpu

MCTasks == {t1, t2, t3}
MCObjects == {o1, o2}
MCWorkers == {w1, w2, w3}
MCDrivers == {d1, d2}
MCKinds == {cpu}
MCInitialWorkers == {w1, w2}
MCCapacity == [k \in MCKinds |-> 2]

\* Distinct by-reference arguments (a repeated one is the subject of
\* MCArgsRepeated below).
MCArgs == (t1 :> <<o1>>) @@ (t2 :> <<o1, o2>>) @@ (t3 :> <<>>)
MCReq == (t1 :> (cpu :> 1)) @@ (t2 :> (cpu :> 2)) @@ (t3 :> (cpu :> 1))
MCDriverOf == (t1 :> d1) @@ (t2 :> d1) @@ (t3 :> d2)

\* A task that passes the same object twice, as in f.remote(x, x).
MCArgsRepeated == (t1 :> <<o1, o1>>) @@ (t2 :> <<o2>>) @@ (t3 :> <<>>)
=============================================================================

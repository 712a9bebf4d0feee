-------------------------- MODULE MC_ObjectFetcher --------------------------
(* The LocalScheduler instance of MC_LocalScheduler, with the fetch timer. *)
EXTENDS ObjectFetcher, MC_LocalScheduler

============================================================================

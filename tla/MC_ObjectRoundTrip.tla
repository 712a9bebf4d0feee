------------------------- MODULE MC_ObjectRoundTrip -------------------------
(* The LocalScheduler instance of MC_LocalScheduler, with the removal history. *)
EXTENDS ObjectRoundTrip, MC_LocalScheduler

============================================================================

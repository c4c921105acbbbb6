----------------------------- MODULE HostScenario -----------------------------
(***************************************************************************)
(* The objects through which the threads of the host talk to each other    *)
(* share no state, so a behaviour is about one of them: scenario names it  *)
(* and host is its state.  HostBuffers and HostWorkers give the objects.   *)
(***************************************************************************)
CONSTANTS
  Scenarios,    \* the objects to look at
  Null

VARIABLES scenario, host

vars == <<scenario, host>>

In(s) == scenario = s /\ UNCHANGED scenario
=============================================================================

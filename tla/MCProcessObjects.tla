--------------------------- MODULE MCProcessObjects ---------------------------
(***************************************************************************)
(* A table of three slots, with handles of four generations: the list of   *)
(* free slots gets every order, the counter wraps while handles of the     *)
(* first round are open, and the limits are too small for two mutexes.     *)
(***************************************************************************)
EXTENDS ProcessObjects, TLC

CONSTANTS
  thread, process, mutex1, mutex2, event, timer, arbiter, semaphore

MCObjects == {thread, process, mutex1, mutex2, event, timer, arbiter, semaphore}

(* A process only copies its pseudo-handles, or makes objects of one type. *)
MCPrograms == {{}, {mutex1, mutex2}, {semaphore}, {event}, {timer}, {arbiter}}

MCType ==
  (mutex1 :> "Mutex" @@ mutex2 :> "Mutex" @@ event :> "Event" @@ timer :> "Timer"
   @@ arbiter :> "AddressArbiter" @@ semaphore :> "Semaphore")
=============================================================================

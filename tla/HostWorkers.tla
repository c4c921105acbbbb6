------------------------------ MODULE HostWorkers ------------------------------
(***************************************************************************)
(* The objects by which a thread hands work to another one and waits for   *)
(* it: the linked queue of threadsafe_queue.h, the barrier between the CPU *)
(* and the Teakra thread, and the pool of ThreadWorker.                    *)
(***************************************************************************)
EXTENDS Integers, FiniteSets, HostScenario

CONSTANTS
  Writers, Pushes, Pops,       \* LinkedQueue
  MaxGenerations, MaxLoads,    \* TeakraThread
  Workers, MaxTasks            \* ThreadWorker

ASSUME QueueConstants == Pushes \in Nat /\ Null \notin Nat /\ Null \notin Writers

ASSUME PoolConstants == Workers # {} /\ IsFiniteSet(Workers)

Queue == INSTANCE LinkedQueue WITH lq <- host
Teakra == INSTANCE TeakraThread WITH dsp <- host
Pool == INSTANCE ThreadWorker WITH pool <- host

-----------------------------------------------------------------------------
(* Who calls the objects, and when, is up to the emulator. *)
WorkerCalls ==
  \/ In("queue") /\ Queue!Calls
  \/ In("teakra") /\ Teakra!Calls
  \/ In("pool") /\ Pool!Calls

(* The threads of the objects, and the calls that have begun *)
QueueWriter(w) == In("queue") /\ Queue!Push(w)
QueueReader == In("queue") /\ Queue!Reader
TeakraThread == In("teakra") /\ Teakra!Teakra
TeakraCpu == In("teakra") /\ Teakra!Cpu
PoolOwner == In("pool") /\ Pool!Owner
PoolWorker(w) == In("pool") /\ Pool!Worker(w)

WorkersInit ==
  /\ scenario \in Scenarios
  /\ \/ scenario = "queue" /\ Queue!LinkedQueueInit
     \/ scenario = "teakra" /\ Teakra!TeakraThreadInit
     \/ scenario = "pool" /\ Pool!ThreadWorkerInit

WorkersNext ==
  \/ WorkerCalls
  \/ (\E w \in Writers : QueueWriter(w)) \/ QueueReader
  \/ TeakraThread \/ TeakraCpu
  \/ PoolOwner \/ (\E w \in Workers : PoolWorker(w))

WorkersSpec == WorkersInit /\ [][WorkersNext]_vars

-----------------------------------------------------------------------------
(* No thread gets ahead of another where the code has no lock for both: the    *)
(* linked queue gives out what was pushed, once and in order, and no cell of   *)
(* it is read or freed while the other side writes it; the CPU and the DSP     *)
(* threads are never more than a slice apart; and WaitForRequests returns only *)
(* after the queued tasks have run.                                            *)
ThreadsKeepStep ==
  /\ scenario = "queue" => Queue!InOrder /\ Queue!NoRace
  /\ scenario = "teakra" => Teakra!Lockstep
  /\ scenario = "pool" => Pool!TasksAreDone
=============================================================================

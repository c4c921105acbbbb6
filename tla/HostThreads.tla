------------------------------ MODULE HostThreads ------------------------------
(***************************************************************************)
(* The threads of the host: the objects of HostBuffers and HostWorkers     *)
(* and, as one more scenario, the threads of the Vulkan renderer.  A       *)
(* thread that has begun a call is scheduled until the call ends, and a    *)
(* mutex that is given back again and again is obtained in the end by a    *)
(* thread that waits for it.                                               *)
(***************************************************************************)
EXTENDS HostBuffers, HostWorkers

CONSTANTS NumFrames, ChunkSize, GrowStep, RenderPrograms    \* VulkanThreads

Vulkan == INSTANCE VulkanThreads WITH vk <- host

VulkanCalls == In("vulkan") /\ Vulkan!Calls
VulkanRender == In("vulkan") /\ Vulkan!Render
VulkanWorker == In("vulkan") /\ Vulkan!Worker
VulkanPresent == In("vulkan") /\ Vulkan!PresentThread
VulkanGpu == In("vulkan") /\ Vulkan!Gpu
VulkanWait == In("vulkan") /\ Vulkan!WaitThread

Init ==
  \/ BuffersInit
  \/ WorkersInit
  \/ scenario \in Scenarios \cap {"vulkan"} /\ Vulkan!VulkanThreadsInit

Next ==
  \/ BuffersNext
  \/ WorkersNext
  \/ VulkanCalls
  \/ VulkanRender \/ VulkanWorker \/ VulkanPresent \/ VulkanGpu \/ VulkanWait

(* A behaviour is about one scenario, so a disjunction of threads of several    *)
(* scenarios stands for the one thread that exists.                             *)
Fairness ==
  /\ \A t \in Writers \cup Loggers \cup Workers :
       SF_vars(\/ t \in Writers /\ QueueWriter(t)
               \/ t \in Loggers /\ Logger(t)
               \/ t \in Workers /\ PoolWorker(t))
  /\ SF_vars(QueueReader \/ LogBackend \/ PoolOwner \/ VulkanWorker)
  /\ WF_vars(TeakraThread \/ PipeDsp \/ VulkanGpu)
  /\ WF_vars(TeakraCpu \/ PipeCpu \/ VulkanRender)
  /\ SF_vars(VulkanPresent)
  /\ WF_vars(VulkanWait)

Spec == Init /\ [][Next]_vars /\ Fairness

-----------------------------------------------------------------------------
(* The renderer's threads stay in step: the worker executes the commands of    *)
(* the scheduler once and in order, no command buffer is recorded while the    *)
(* GPU works on it, no frame is drawn that is still to be presented, and       *)
(* WaitWorker, Finish and WaitPresent return only after the worker, the GPU    *)
(* and the present thread are done.                                            *)
RendererInStep ==
  scenario = "vulkan" => Vulkan!InOrder /\ Vulkan!NoRace /\ Vulkan!WaitsAreLong

(* No notification is lost: whoever sleeps on a condition variable wakes once  *)
(* its condition holds, and every stop request and join comes to an end.       *)
HostWaitsEnd ==
  /\ []<>~(\/ scenario = "queue" /\ Queue!ReaderAsleep
           \/ scenario = "log" /\ Log!BackendAsleep
           \/ scenario = "teakra" /\ Teakra!CpuWaits
           \/ scenario = "pipe" /\ Pipe!CpuWaits
           \/ scenario = "pool" /\ Pool!OwnerWaits
           \/ scenario = "vulkan" /\ Vulkan!RenderWaits)
  /\ []<>~(scenario = "log" /\ Log!Stopping)
  /\ \A l \in Loggers : []<>~(scenario = "log" /\ Log!LoggerAsleep(l))
=============================================================================

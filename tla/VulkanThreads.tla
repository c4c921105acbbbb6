----------------------------- MODULE VulkanThreads -----------------------------
(***************************************************************************)
(* The threads behind the Vulkan renderer (video_core/renderer_vulkan):    *)
(* the render thread records commands into chunks (vk_scheduler), a worker *)
(* executes the chunks and submits command buffers, the present thread     *)
(* copies finished frames to the swapchain (vk_present_window), and the    *)
(* GPU works through what was submitted (vk_master_semaphore,              *)
(* vk_resource_pool).  The render thread's calls are unrolled into the     *)
(* steps other threads can see; the GPU is a queue that it takes in order. *)
(***************************************************************************)
EXTENDS Integers, Sequences

CONSTANTS
  NumFrames,      \* the frames of a window's swap_chain
  ChunkSize,      \* the commands a chunk has room for
  GrowStep,       \* the command buffers a full pool grows by
  RenderPrograms, \* what the render thread does, and the settings it does it with
  Null

VARIABLE vk

Frames == 1 .. NumFrames

FramesIn(queue) == {queue[k] : k \in DOMAIN queue}

NewChunk == [commands |-> <<>>, submit |-> FALSE, recorded |-> FALSE]

(* CommandChunk::ExecuteAll keeps recorded_counts: an old chunk is never Empty. *)
UsedChunk == [NewChunk EXCEPT !.recorded = TRUE]

-----------------------------------------------------------------------------
(* ResourcePool::CommitResource: a resource whose tick the GPU has reached, *)
(* looked for from the hint on, or a new one                                *)

(* Mutant: the pool takes a resource for free that is used until the current tick. *)
FirstFreeEarly(pool, gpu_tick, from, to) ==
  LET free == {k \in from .. to : gpu_tick + 1 >= pool.ticks[k]}
  IN  IF free = {} THEN 0 ELSE CHOOSE k \in free : \A j \in free : k <= j

FirstFree(pool, gpu_tick, from, to) ==
  LET free == {k \in from .. to : gpu_tick >= pool.ticks[k]}
  IN  IF free = {} THEN 0 ELSE CHOOSE k \in free : \A j \in free : k <= j

(* known is gpu_tick before, refreshed after a Refresh of the semaphore. *)
CommitResource(pool, known, refreshed, current_tick) ==
  LET size == Len(pool.ticks)
      first == FirstFree(pool, known, pool.hint, size)
      second == FirstFree(pool, refreshed, pool.hint, size)
      third == FirstFree(pool, refreshed, 1, pool.hint - 1)
      overflows == first = 0 /\ second = 0 /\ third = 0
      ticks == IF overflows THEN pool.ticks \o [k \in 1 .. GrowStep |-> 0] ELSE pool.ticks
      found == IF first # 0 THEN first
               ELSE IF second # 0 THEN second
               ELSE IF third # 0 THEN third ELSE size + 1
  IN  [ticks |-> [ticks EXCEPT ![found] = current_tick],
       hint |-> (found % Len(ticks)) + 1, current |-> found]

NewPool == CommitResource([ticks |-> <<>>, hint |-> 1, current |-> 0], 0, 0, 1)

VulkanThreadsInit ==
  \E program \in RenderPrograms :
    vk = [timeline |-> program.timeline, use_present_thread |-> program.use_present_thread,
          \* the render thread
          calls |-> program.calls, todo |-> <<>>, asleep |-> Null, frame |-> Null, tick |-> 0,
          chunk |-> NewChunk, awaited |-> {}, recorded |-> 0,
          \* the scheduler
          work_queue |-> <<>>, reserve |-> 0, queue_mutex |-> Null, execution_mutex |-> Null,
          current_tick |-> 1, gpu_tick |-> 0,
          \* the worker
          worker |-> "wait", work |-> NewChunk, has_submit |-> FALSE, executed |-> 0, pool |-> NewPool,
          \* the present window
          free_queue |-> [k \in 1 .. NumFrames |-> k], free_mutex |-> Null,
          present_queue |-> <<>>, present_mutex |-> Null, swapchain_mutex |-> Null,
          present |-> "wait", presented |-> Null,
          \* the GPU and the thread that waits for its fences
          gpu |-> <<>>, counter |-> 0, render_ready |-> {}, present_done |-> Frames,
          wait_queue |-> <<>>, waiter |-> "wait", waited |-> 0]

-----------------------------------------------------------------------------
(* The steps of the render thread *)

Step(op) == [op |-> op, signal |-> FALSE]

Submit(signal) == <<Step("NextTick"), [op |-> "RecordSubmit", signal |-> signal], Step("DispatchSubmit")>>

Finish == Submit(FALSE) \o <<Step("WaitTick")>>

WaitPresent ==
  IF vk.use_present_thread THEN <<Step("WaitPresentQueue"), Step("LockSwapchain")>> ELSE <<>>

WaitWorker == <<Step("Dispatch"), Step("WaitQueue"), Step("LockExecution")>>

Present ==
  IF vk.use_present_thread THEN <<Step("RecordPresent")>>
  ELSE WaitWorker \o <<Step("CopyToSwapchain"), Step("FreeFrame")>>

Calling(call) == vk.todo = <<>> /\ vk.calls # <<>> /\ Head(vk.calls) = call

(* RenderToWindow; a window whose size has changed waits until it can recreate the frame. *)
RenderToWindow(resized) ==
  /\ Calling(IF resized THEN "resize" ELSE "render")
  /\ vk' = [vk EXCEPT !.calls = Tail(@),
              !.todo = <<Step("GetRenderFrame"), Step("WaitFence")>>
                       \o (IF resized THEN WaitPresent \o Finish \o <<Step("RecreateFrame")>>
                           ELSE <<>>)
                       \o <<Step("RecordDraw")>> \o Submit(TRUE) \o Present]

(* Scheduler::Wait, with which stream buffers wait for the GPU to have read them *)
Wait ==
  /\ Calling("wait")
  /\ \E tick \in 1 .. vk.current_tick :
       vk' = [vk EXCEPT !.calls = Tail(@), !.tick = tick,
                !.todo = (IF tick >= vk.current_tick THEN Submit(FALSE) ELSE <<>>)
                         \o <<Step("WaitTick")>>]

(* Condition variables wake without a reason, too. *)
SpuriousWakeup == vk.asleep # Null /\ vk' = [vk EXCEPT !.asleep = Null]

Calls == SpuriousWakeup \/ (\E resized \in BOOLEAN : RenderToWindow(resized)) \/ Wait

Doing(op) == vk.todo # <<>> /\ Head(vk.todo).op = op /\ vk.asleep = Null /\ vk.chunk # Null

Done(state) == [state EXCEPT !.todo = Tail(@)]

(* A wait on a condition variable: its step is tried again after a notification. *)
SleepOn(cv) == vk' = [vk EXCEPT !.asleep = cv]

Awake(state, cv) == [state EXCEPT !.asleep = IF @ = cv THEN Null ELSE @]

GetRenderFrame ==
  /\ Doing("GetRenderFrame") /\ vk.free_mutex = Null
  /\ IF vk.free_queue = <<>> THEN SleepOn("free_cv")
     ELSE vk' = Done([vk EXCEPT !.frame = Head(vk.free_queue), !.free_queue = Tail(@),
                                !.free_mutex = "render"])

(* The fence of the frame's last copy, with free_mutex still held *)
WaitFence ==
  /\ Doing("WaitFence") /\ vk.frame \in vk.present_done
  /\ vk' = Done([vk EXCEPT !.present_done = @ \ {vk.frame}, !.free_mutex = Null,
                           !.awaited = FramesIn(vk.present_queue) \cup {vk.presented}])

WaitPresentQueue ==
  /\ Doing("WaitPresentQueue") /\ vk.present_mutex = Null
  /\ IF vk.present_queue # <<>> THEN SleepOn("frame_cv") ELSE vk' = Done(vk)

LockSwapchain == Doing("LockSwapchain") /\ vk.swapchain_mutex = Null /\ vk' = Done(vk)

NextTick ==
  /\ Doing("NextTick")
  /\ vk' = Done([vk EXCEPT !.tick = vk.current_tick, !.current_tick = @ + 1])

(* DispatchWork gives the chunk to the worker; the next step takes another one. *)
Dispatched(state) ==
  [state EXCEPT !.work_queue = Append(@, state.chunk), !.chunk = Null,
                !.worker = IF @ = "asleep" THEN "wait" ELSE @]

AcquireNewChunk ==
  /\ vk.chunk = Null
  /\ vk' = IF vk.reserve = 0 THEN [vk EXCEPT !.chunk = NewChunk]
           ELSE [vk EXCEPT !.chunk = UsedChunk, !.reserve = @ - 1]

Recorded(command) ==
  [vk EXCEPT !.chunk.commands = Append(@, command), !.chunk.recorded = TRUE, !.recorded = @ + 1]

(* A chunk without room is dispatched first. *)
DispatchFull ==
  /\ Doing("RecordDraw") \/ Doing("RecordSubmit") \/ Doing("RecordPresent")
  /\ Len(vk.chunk.commands) = ChunkSize /\ vk.queue_mutex = Null
  /\ vk' = Dispatched(vk)

CanRecord(op) == Doing(op) /\ Len(vk.chunk.commands) < ChunkSize

Command(kind, frame) ==
  [kind |-> kind, frame |-> frame, value |-> vk.tick, id |-> vk.recorded + 1]

RecordDraw == CanRecord("RecordDraw") /\ vk' = Done(Recorded(Command("draw", vk.frame)))

RecordPresent ==
  /\ CanRecord("RecordPresent")
  /\ vk' = Done([Recorded(Command("present", vk.frame)) EXCEPT !.frame = Null])

RecordSubmit ==
  /\ CanRecord("RecordSubmit")
  /\ vk' = Done(Recorded(Command("submit", IF Head(vk.todo).signal THEN vk.frame ELSE Null)))

Refreshed(state) ==
  [state EXCEPT !.gpu_tick = IF vk.timeline /\ vk.counter > @ THEN vk.counter ELSE @]

(* The tail of SubmitExecution *)
DispatchSubmit ==
  /\ Doing("DispatchSubmit") /\ vk.queue_mutex = Null
  /\ vk' = Done(Dispatched([Refreshed(vk) EXCEPT !.chunk.submit = TRUE]))

Dispatch ==
  /\ Doing("Dispatch")
  /\ \/ ~vk.chunk.recorded /\ vk' = Done(vk)
     \/ vk.chunk.recorded /\ vk.queue_mutex = Null /\ vk' = Done(Dispatched(vk))

(* MasterSemaphore::Wait: on the GPU's counter, or on free_cv of the fences *)
WaitTick ==
  /\ Doing("WaitTick")
  /\ IF vk.timeline THEN vk.counter >= vk.tick /\ vk' = Done(Refreshed(vk))
     ELSE IF vk.gpu_tick >= vk.tick THEN vk' = Done(vk) ELSE SleepOn("fence_cv")

WaitQueue ==
  /\ Doing("WaitQueue") /\ vk.queue_mutex = Null
  /\ IF vk.work_queue # <<>> THEN SleepOn("event_cv") ELSE vk' = Done(vk)

LockExecution == Doing("LockExecution") /\ vk.execution_mutex = Null /\ vk' = Done(vk)

Copied(state, frame) == [state EXCEPT !.gpu = Append(@, [kind |-> "copy", frame |-> frame, value |-> 0,
                                                         cmdbuf |-> 0])]

CopyToSwapchain == Doing("CopyToSwapchain") /\ vk' = Done(Copied(vk, vk.frame))

RecreateFrame == Doing("RecreateFrame") /\ vk' = Done([vk EXCEPT !.awaited = {}])

FreeFrame ==
  /\ Doing("FreeFrame")
  /\ vk' = Done([vk EXCEPT !.free_queue = Append(@, vk.frame), !.frame = Null])

Render ==
  \/ GetRenderFrame \/ WaitFence \/ WaitPresentQueue \/ LockSwapchain \/ NextTick
  \/ AcquireNewChunk \/ DispatchFull \/ RecordDraw \/ RecordSubmit \/ RecordPresent
  \/ DispatchSubmit \/ Dispatch \/ WaitTick \/ WaitQueue \/ LockExecution
  \/ RecreateFrame \/ CopyToSwapchain \/ FreeFrame

-----------------------------------------------------------------------------
(* The worker thread of the scheduler *)

PopWork ==
  /\ vk.worker = "wait" /\ vk.queue_mutex = Null
  /\ vk' = IF vk.work_queue = <<>> THEN [vk EXCEPT !.worker = "asleep"]
           ELSE Awake([vk EXCEPT !.work = Head(vk.work_queue), !.work_queue = Tail(@),
                                 !.queue_mutex = "worker", !.worker = "exchange"], "event_cv")

(* The execution lock is taken before the queue lock is given back. *)
ExchangeLocks ==
  /\ vk.worker = "exchange" /\ vk.execution_mutex = Null
  /\ vk' = [vk EXCEPT !.execution_mutex = "worker", !.queue_mutex = Null,
                      !.has_submit = vk.work.submit, !.worker = "execute"]

(* A submission hands the command buffer to the GPU, and to the waiter its fence. *)
Execute ==
  /\ vk.worker = "execute" /\ vk.work.commands # <<>>
  /\ LET command == Head(vk.work.commands)
         next == [vk EXCEPT !.work.commands = Tail(@), !.executed = @ + 1]
     IN  \/ command.kind = "draw" /\ vk' = next
         \/ /\ command.kind = "submit"
            /\ vk' = [next EXCEPT
                 !.gpu = Append(@, [kind |-> "render", frame |-> command.frame,
                                    value |-> command.value, cmdbuf |-> vk.pool.current]),
                 !.pool.current = 0,
                 !.wait_queue = IF vk.timeline THEN @ ELSE Append(@, command.value),
                 !.waiter = IF ~vk.timeline /\ @ = "asleep" THEN "wait" ELSE @]
         \/ /\ command.kind = "present" /\ vk.present_mutex = Null
            /\ LET pushed == [next EXCEPT !.present_queue = Append(@, command.frame)]
               IN  \* notify_one wakes one of the two threads that may sleep on frame_cv
                   \/ vk.present = "asleep" /\ vk' = [pushed EXCEPT !.present = "wait"]
                   \/ vk.asleep = "frame_cv" /\ vk' = Awake(pushed, "frame_cv")
                   \/ vk.present # "asleep" /\ vk.asleep # "frame_cv" /\ vk' = pushed

AllocateWorkerCommandBuffers ==
  /\ vk.worker = "execute" /\ vk.work.commands = <<>>
  /\ vk' = [IF vk.has_submit
            THEN [vk EXCEPT !.pool = CommitResource(@, vk.gpu_tick, Refreshed(vk).gpu_tick,
                                                    vk.current_tick)]
            ELSE vk
            EXCEPT !.execution_mutex = Null, !.has_submit = FALSE, !.worker = "recycle"]

Recycle ==
  /\ vk.worker = "recycle"
  /\ vk' = [vk EXCEPT !.reserve = @ + 1, !.worker = "wait"]

Worker == PopWork \/ ExchangeLocks \/ Execute \/ AllocateWorkerCommandBuffers \/ Recycle

-----------------------------------------------------------------------------
(* The present thread *)

PopFrame ==
  /\ vk.use_present_thread /\ vk.present = "wait" /\ vk.present_mutex = Null
  /\ vk' = IF vk.present_queue = <<>> THEN [vk EXCEPT !.present = "asleep"]
           ELSE Awake([vk EXCEPT !.presented = Head(vk.present_queue), !.present_queue = Tail(@),
                                 !.present_mutex = "present", !.present = "exchange"], "frame_cv")

ExchangeSwapchain ==
  /\ vk.present = "exchange" /\ vk.swapchain_mutex = Null
  /\ vk' = [vk EXCEPT !.swapchain_mutex = "present", !.present_mutex = Null, !.present = "copy"]

CopyFrame ==
  /\ vk.present = "copy"
  /\ vk' = [Copied(vk, vk.presented) EXCEPT !.present = "free"]

FreeForReuse ==
  /\ vk.present = "free" /\ vk.free_mutex = Null
  /\ vk' = Awake([vk EXCEPT !.free_queue = Append(@, vk.presented), !.presented = Null,
                            !.swapchain_mutex = Null, !.present = "wait"], "free_cv")

PresentThread == PopFrame \/ ExchangeSwapchain \/ CopyFrame \/ FreeForReuse

-----------------------------------------------------------------------------
(* The GPU, which is external, and MasterSemaphoreFence::WaitThread *)

Gpu ==
  /\ vk.gpu # <<>>
  /\ LET job == Head(vk.gpu)
         next == [vk EXCEPT !.gpu = Tail(@)]
     IN  \/ /\ job.kind = "render"
            /\ vk' = [next EXCEPT !.counter = job.value,
                                  !.render_ready = IF job.frame = Null THEN @
                                                   ELSE @ \cup {job.frame}]
         \/ /\ job.kind = "copy" /\ job.frame \in vk.render_ready
            /\ vk' = [next EXCEPT !.render_ready = @ \ {job.frame},
                                  !.present_done = @ \cup {job.frame}]

PopFence ==
  /\ ~vk.timeline /\ vk.waiter = "wait"
  /\ vk' = IF vk.wait_queue = <<>> THEN [vk EXCEPT !.waiter = "asleep"]
           ELSE [vk EXCEPT !.waited = Head(vk.wait_queue), !.wait_queue = Tail(@),
                           !.waiter = "fence"]

StoreGpuTick ==
  /\ vk.waiter = "fence" /\ vk.counter >= vk.waited
  /\ vk' = [vk EXCEPT !.gpu_tick = vk.waited, !.waited = 0, !.waiter = "notify"]

NotifyFence ==
  /\ vk.waiter = "notify"
  /\ vk' = Awake([vk EXCEPT !.waiter = "wait"], "fence_cv")

WaitThread == PopFence \/ StoreGpuTick \/ NotifyFence

-----------------------------------------------------------------------------
(* Commands are executed once, in the order they were recorded in. *)
InOrder ==
  LET chunks == <<vk.work>> \o vk.work_queue
                \o (IF vk.chunk = Null THEN <<>> ELSE <<vk.chunk>>)
      Id(p) == chunks[p[1]].commands[p[2]].id
      pending == UNION {{<<k, i>> : i \in DOMAIN chunks[k].commands} : k \in DOMAIN chunks}
  IN  /\ {Id(p) : p \in pending} = vk.executed + 1 .. vk.recorded
      /\ \A p, q \in pending : p[1] < q[1] \/ (p[1] = q[1] /\ p[2] < q[2]) => Id(p) < Id(q)

(* The worker never records into a command buffer that the GPU has not         *)
(* finished, and a frame that is drawn is neither queued, nor copied, nor free.*)
NoRace ==
  /\ \A k \in DOMAIN vk.gpu : vk.gpu[k].kind = "render" => vk.gpu[k].cmdbuf # vk.pool.current
  /\ \/ vk.frame = Null
     \/ Head(vk.todo).op \in {"WaitFence", "FreeFrame"}
     \/ /\ vk.frame \notin FramesIn(vk.present_queue) \cup FramesIn(vk.free_queue) \cup {vk.presented}
        /\ vk.frame \notin vk.present_done
        /\ \A k \in DOMAIN vk.gpu : vk.gpu[k].kind = "copy" => vk.gpu[k].frame # vk.frame

(* After a wait: WaitWorker returns when all commands were executed, Finish    *)
(* when the GPU has done so, too, and WaitPresent when the frames were copied  *)
(* that were queued when it was called.                                        *)
WaitsAreLong ==
  /\ Doing("CopyToSwapchain") \/ Doing("RecreateFrame") => vk.executed = vk.recorded
  /\ Doing("RecreateFrame") =>
       /\ vk.counter >= vk.tick
       /\ vk.awaited \cap FramesIn(vk.present_queue) = {}
       /\ vk.present \in {"exchange", "copy"} => vk.presented \notin vk.awaited

(* The render thread is in a call; it returns from every one. *)
RenderWaits == vk.todo # <<>>
=============================================================================

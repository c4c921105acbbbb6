------------------------------- MODULE RunLoop -------------------------------
(***************************************************************************)
(* System::RunLoopMultiCores and RunLoopSingleCore (core/core.cpp) with    *)
(* the clocks of the cores.  Each core has one guest thread, which         *)
(* executes blocks of instructions and may sleep until an event of its own *)
(* timer or until another host thread has done some work for it.           *)
(***************************************************************************)
EXTENDS CoreTiming, FiniteSets, FiniteSetsExt

CONSTANTS
  NumCores,
  is_new_3ds,      \* RunLoopMultiCores or RunLoopSingleCore
  min_delay,       \* a lag up to this many ticks is left alone
  Limits,          \* the settings of SetCpuUsageLimit: for each core, a shift of its slices
  Guests,          \* guest programs: for each, the ticks that its blocks of code take
  Delays,          \* the cycles that a guest thread sleeps for
  Period           \* the cycles between two events like VBlank

Cores == 0 .. NumCores - 1

ASSUME LoopAssumption ==
  /\ NumCores \in Nat \ {0} /\ is_new_3ds \in BOOLEAN
  /\ ~ is_new_3ds => NumCores = 1
  /\ min_delay \in Nat /\ Limits \subseteq [Cores -> Nat]
  /\ \A g \in Guests : g # {} /\ g \subseteq Nat \ {0}
  /\ Delays \subseteq Int
  /\ Period \in Nat \ {0}

(***************************************************************************)
(* The user_data of the periodic event and of a kernel timer that no       *)
(* thread waits for; that of a wakeup is the core of the thread.           *)
(***************************************************************************)
Periodic    == -1
KernelTimer == -2

VARIABLES
  timers,       \* timers[c]
  current_cpu,  \* KernelSystem::current_cpu; Timing::current_timer is its timer
  status,       \* status[c]: of the thread of core c, "Running", "Ready", "Wait" or "Async"
  current,      \* current[c]: whether GetCurrentThread of core c is the thread
  reschedule_pending,
  loop,         \* where the loop is, and its local variables
  downcount_hack, \* downcount_hack[c]: of the timer of core c
  blocks          \* the guest program

vars == <<timers, current_cpu, status, current, reschedule_pending, loop>>

(***************************************************************************)
(* The loop is in a phase, at a core.  In the phase "run" the core has     *)
(* executed a block or not, and may have been halted.  max_delay,          *)
(* to_execute, max_slice and start_ticks are locals of RunLoopMultiCores.  *)
(***************************************************************************)
LoopStart == IF is_new_3ds THEN "sync" ELSE "single"

Loop(phase, core) ==
  [ phase |-> phase, core |-> core, firing |-> FALSE, ran |-> FALSE, halted |-> FALSE, delay |-> 0,
    max_delay |-> 0, to_execute |-> 0, max_slice |-> MAX_SLICE_LENGTH, start_ticks |-> 0,
    fault |-> FALSE ]

(* The threads are ready, and a periodic event is scheduled on core 0. *)
Init ==
  /\ timers = [c \in Cores |-> IF c = 0 THEN ScheduleEvent(NewTimer(0), Period, Periodic)
                               ELSE NewTimer(0)]
  /\ current_cpu = 0
  /\ status = [c \in Cores |-> "Ready"]
  /\ current = [c \in Cores |-> FALSE]
  /\ reschedule_pending = TRUE
  /\ loop = Loop(LoopStart, 0)
  /\ downcount_hack \in Limits
  /\ blocks \in Guests

-----------------------------------------------------------------------------
(* The scheduler. *)

(* ThreadManager::Reschedule of the cores in S. *)
Reschedule(S) ==
  /\ current' = [c \in Cores |-> IF c \in S THEN status[c] \in {"Running", "Ready"} ELSE current[c]]
  /\ status' = [c \in Cores |-> IF c \in S /\ status[c] = "Ready" THEN "Running" ELSE status[c]]

(* The end of both loops: RescheduleMultiCores or RescheduleSingleCore. *)
Ends ==
  /\ Reschedule(IF reschedule_pending THEN Cores ELSE {})
  /\ reschedule_pending' = FALSE

(***************************************************************************)
(* Only differences of times matter, so every iteration starts with the    *)
(* times counted from the least executed_ticks: this keeps them bounded.   *)
(***************************************************************************)
Shift == IF loop.phase = "end" THEN Min({timers[c].executed_ticks : c \in Cores}) ELSE 0

Earlier(timer, ticks) ==
  LET moved(queue) == [i \in DOMAIN queue |-> [queue[i] EXCEPT !.time = @ - ticks]]
  IN  [timer EXCEPT !.executed_ticks = @ - ticks,
                    !.event_queue = moved(@), !.ts_queue = moved(@)]

Iterate ==
  /\ loop.phase = "end"
  /\ Ends
  /\ timers' = [c \in Cores |-> Earlier(timers[c], Shift)]
  /\ loop' = [Loop(LoopStart, 0) EXCEPT !.fault = loop.fault]
  /\ UNCHANGED current_cpu

-----------------------------------------------------------------------------
(* Timer::Advance: it begins, calls back for each event that is due, ends. *)

(* The callback of the first event wakes a thread, schedules the event again or does nothing. *)
Fire ==
  /\ loop.firing /\ EventIsDue(timers[loop.core])
  /\ LET event  == timers[loop.core].event_queue[1]
         popped == PopEvent(timers[loop.core])
         late   == popped.executed_ticks - event.time
     IN  /\ timers' = [timers EXCEPT ![loop.core] =
                          IF event.user_data = Periodic
                          THEN ScheduleEvent(popped, Period - late, Periodic) ELSE popped]
         /\ IF event.user_data \in Cores
            THEN status' = [status EXCEPT ![event.user_data] = "Ready"] /\ reschedule_pending' = TRUE
            ELSE UNCHANGED <<status, reschedule_pending>>
  /\ UNCHANGED <<current_cpu, current, loop>>

AllFired == loop.firing /\ ~ EventIsDue(timers[loop.core])

(* After the last core of the first loop: catch up, or advance all cores. *)
AfterSync(l) ==
  IF l.core < NumCores - 1 THEN [l EXCEPT !.core = @ + 1]
  ELSE IF l.max_delay > min_delay THEN [l EXCEPT !.phase = "catch_up", !.core = l.to_execute]
  ELSE [l EXCEPT !.phase = "advance", !.core = 0, !.max_delay = 0, !.to_execute = 0]

(* A core of the first loop that does not lag. *)
SyncSkip ==
  /\ loop.phase = "sync" /\ ~ loop.firing
  /\ \A c \in Cores : GetTicks(timers[c]) <= GetTicks(timers[loop.core])
  /\ loop' = AfterSync(loop)
  /\ UNCHANGED <<timers, current_cpu, status, current, reschedule_pending>>

(* One that does: SetRunningCPU, then Advance. *)
SyncBegin ==
  /\ loop.phase = "sync" /\ ~ loop.firing
  /\ LET delay == Max({GetTicks(timers[c]) : c \in Cores}) - GetTicks(timers[loop.core])
     IN  delay > 0 /\ loop' = [loop EXCEPT !.firing = TRUE, !.delay = delay]
  /\ current_cpu' = loop.core
  /\ timers' = [timers EXCEPT ![loop.core] = BeginAdvance(@)]
  /\ UNCHANGED <<status, current, reschedule_pending>>

SyncEnd ==
  /\ loop.phase = "sync" /\ AllFired
  /\ Reschedule({loop.core})
  /\ timers' = [timers EXCEPT ![loop.core] =
                  SetNextSlice(EndAdvance(@), loop.delay, downcount_hack[loop.core])]
  /\ loop' = AfterSync([loop EXCEPT !.firing = FALSE, !.delay = 0,
                                    !.max_delay = Max({@, loop.delay}),
                                    !.to_execute = IF loop.max_delay < loop.delay THEN loop.core ELSE @])
  /\ UNCHANGED <<current_cpu, reschedule_pending>>

(***************************************************************************)
(* The core runs, or idles if the kernel's current core has no thread; in  *)
(* that case the loop goes on with phase next.                             *)
(***************************************************************************)
RunOrIdle(c, timer, cpu, l, next) ==
  /\ current_cpu' = cpu
  /\ IF current[cpu]
     THEN /\ timers' = [timers EXCEPT ![c] = timer]
          /\ loop' = [l EXCEPT !.phase = "run", !.core = c, !.ran = FALSE, !.halted = FALSE]
          /\ UNCHANGED reschedule_pending
     ELSE /\ timers' = [timers EXCEPT ![c] = Idle(timer)]
          /\ loop' = next
          /\ reschedule_pending' = TRUE
  /\ UNCHANGED <<status, current>>

(***************************************************************************)
(* The next core of the last loop may execute as many ticks as this one    *)
(* did; after the last one, or the one that caught up, the iteration ends. *)
(***************************************************************************)
AfterRun(l, timer) ==
  IF l.max_delay > min_delay \/ l.core = NumCores - 1
  THEN [Loop("end", 0) EXCEPT !.fault = l.fault]
  ELSE [Loop("start", l.core + 1) EXCEPT !.fault = l.fault,
                                         !.max_slice = GetTicks(timer) - l.start_ticks]

(* The core that lags most runs alone; SetRunningCPU is skipped for core 0. *)
CatchUp ==
  /\ loop.phase = "catch_up"
  /\ RunOrIdle(loop.core, timers[loop.core], IF loop.core = 0 THEN current_cpu ELSE loop.core,
               loop, AfterRun(loop, timers[loop.core]))

AdvanceBegin ==
  /\ loop.phase = "advance" /\ ~ loop.firing
  /\ loop' = [loop EXCEPT !.firing = TRUE]
  /\ current_cpu' = loop.core
  /\ timers' = [timers EXCEPT ![loop.core] = BeginAdvance(@)]
  /\ UNCHANGED <<status, current, reschedule_pending>>

AdvanceEnd ==
  /\ loop.phase = "advance" /\ AllFired
  /\ Reschedule({loop.core})
  /\ timers' = [timers EXCEPT ![loop.core] = EndAdvance(@)]
  /\ loop' = [loop EXCEPT
                !.firing = FALSE,
                !.fault = @ \/ ~ NextEventIsAhead(timers[loop.core]),
                !.max_slice = Min({@, GetMaxSliceLength(timers[loop.core])}),
                !.phase = IF loop.core < NumCores - 1 THEN "advance" ELSE "start",
                !.core = IF loop.core < NumCores - 1 THEN @ + 1 ELSE 0]
  /\ UNCHANGED <<current_cpu, reschedule_pending>>

Start ==
  /\ loop.phase = "start"
  /\ LET timer == SetNextSlice(timers[loop.core], loop.max_slice, downcount_hack[loop.core])
         l     == [loop EXCEPT !.start_ticks = GetTicks(timer)]
     IN  RunOrIdle(loop.core, timer, loop.core, l, AfterRun(l, Idle(timer)))

(* RunLoopSingleCore *)
SingleIdle ==
  /\ loop.phase = "single" /\ ~ loop.firing /\ ~ current[0]
  /\ timers' = [timers EXCEPT ![0] = BeginAdvance(Idle(@))]
  /\ loop' = [loop EXCEPT !.firing = TRUE]
  /\ UNCHANGED <<current_cpu, status, current, reschedule_pending>>

SingleBegin ==
  /\ loop.phase = "single" /\ ~ loop.firing /\ current[0]
  /\ timers' = [timers EXCEPT ![0] = BeginAdvance(@)]
  /\ loop' = [loop EXCEPT !.firing = TRUE]
  /\ UNCHANGED <<current_cpu, status, current, reschedule_pending>>

SingleEnd ==
  /\ loop.phase = "single" /\ AllFired
  /\ timers' = [timers EXCEPT ![0] = EndAdvance(@)]
  /\ loop' = [loop EXCEPT !.firing = FALSE, !.phase = IF current[0] THEN "run" ELSE "end"]
  /\ reschedule_pending' = (reschedule_pending \/ ~ current[0])
  /\ UNCHANGED <<current_cpu, status, current>>

-----------------------------------------------------------------------------
(* Guest code: ARM_Interface::Run executes blocks while the slice lasts. *)

Executing ==
  /\ loop.phase = "run"
  /\ ~ loop.ran \/ (timers[loop.core].downcount > 0 /\ ~ loop.halted)

(* The timer of the executing core counts the block. *)
Counted(ticks) == [timers EXCEPT ![loop.core] = AddTicks(@, ticks)]

(* PrepareReschedule by a system call halts the kernel's current core. *)
Halt ==
  /\ reschedule_pending' = TRUE
  /\ loop' = [loop EXCEPT !.ran = TRUE, !.halted = (loop.core = current_cpu)]

Block(ticks) ==
  /\ Executing
  /\ timers' = Counted(ticks)
  /\ loop' = [loop EXCEPT !.ran = TRUE]
  /\ UNCHANGED <<current_cpu, status, current, reschedule_pending>>

(***************************************************************************)
(* A block that ends with SVC::SetTimer: the earlier firing is unscheduled *)
(* on all cores, and the core goes on.                                     *)
(***************************************************************************)
BlockSetsTimer(ticks, cycles) ==
  /\ Executing
  /\ LET cancelled == [c \in Cores |-> UnscheduleEvent(Counted(ticks)[c], KernelTimer)]
     IN  timers' = [cancelled EXCEPT ![current_cpu] = ScheduleEvent(@, cycles, KernelTimer)]
  /\ loop' = [loop EXCEPT !.ran = TRUE]
  /\ UNCHANGED <<current_cpu, status, current, reschedule_pending>>

(* A block that ends with SVC::SleepThread. *)
BlockSleeps(ticks, cycles) ==
  /\ Executing
  /\ timers' = [Counted(ticks) EXCEPT ![current_cpu] = ScheduleEvent(@, cycles, current_cpu)]
  /\ status' = [status EXCEPT ![current_cpu] = "Wait"]
  /\ Halt
  /\ UNCHANGED <<current_cpu, current>>

(* A block that ends with a request that another host thread works on (RunAsync). *)
BlockRequests(ticks) ==
  /\ Executing
  /\ timers' = Counted(ticks)
  /\ status' = [status EXCEPT ![current_cpu] = "Async"]
  /\ Halt
  /\ UNCHANGED <<current_cpu, current>>

RunEnds ==
  /\ loop.phase = "run" /\ ~ Executing
  /\ loop' = AfterRun(loop, timers[loop.core])
  /\ UNCHANGED <<timers, current_cpu, status, current, reschedule_pending>>

(***************************************************************************)
(* The host thread is done with the request of core c's thread and         *)
(* schedules its wakeup on the current timer.  It reads current_timer and  *)
(* the ticks without a lock, so it may or may not see those of the slice.  *)
(***************************************************************************)
HostDone(c) ==
  /\ status[c] = "Async"
  /\ \E ticks \in {timers[current_cpu].executed_ticks, GetTicks(timers[current_cpu])} :
       timers' = [timers EXCEPT ![current_cpu] = ScheduleThreadSafe(@, ticks, 0, c)]
  /\ status' = [status EXCEPT ![c] = "Wait"]
  /\ UNCHANGED <<current_cpu, current, reschedule_pending, loop>>

GuestStep ==
  \E ticks \in blocks :
    \/ Block(ticks)
    \/ \E cycles \in Delays : BlockSetsTimer(ticks, cycles)
    \/ \E cycles \in Delays : BlockSleeps(ticks, cycles)
    \/ BlockRequests(ticks)

MultiCoreStep ==
  SyncSkip \/ SyncBegin \/ SyncEnd \/ CatchUp \/ AdvanceBegin \/ AdvanceEnd \/ Start

SingleCoreStep == SingleIdle \/ SingleBegin \/ SingleEnd

EitherLoop == Iterate \/ Fire \/ GuestStep \/ RunEnds

HostThreads == \E c \in Cores : HostDone(c)

(***************************************************************************)
(* The emulation thread runs one of the two loops, while host threads      *)
(* work.  The limit of the CPU usage was set before.                       *)
(***************************************************************************)
EmuThread     == EitherLoop \/ MultiCoreStep
OldEmuThread  == EitherLoop \/ SingleCoreStep

Next    == (EmuThread \/ HostThreads) /\ UNCHANGED <<downcount_hack, blocks>>
OldNext == (OldEmuThread \/ HostThreads) /\ UNCHANGED <<downcount_hack, blocks>>

Spec    == Init /\ [][Next]_<<vars, downcount_hack, blocks>>
OldSpec == Init /\ [][OldNext]_<<vars, downcount_hack, blocks>>

(***************************************************************************)
(* Fairness: the emulation thread keeps running the loop (a block of guest *)
(* code ends), and the work of a host thread ends.                         *)
(***************************************************************************)
HostFairness == \A c \in Cores : WF_vars(HostDone(c))

FairSpec    == Spec /\ WF_vars(EmuThread) /\ HostFairness
FairOldSpec == OldSpec /\ WF_vars(OldEmuThread) /\ HostFairness

-----------------------------------------------------------------------------
(* Properties. *)

MaxBlock == Max(blocks)

(***************************************************************************)
(* The ASSERT of GetMaxSliceLength holds: after Advance, the next event of *)
(* a core is ahead of its clock.  An event is late by at most one block:   *)
(* whoever schedules it, be it the running slice, a callback or another    *)
(* thread, no core runs past its time by more than the overshoot of the    *)
(* last block before it is fired.  And the cores stay together, so that    *)
(* this is so of an event that one core schedules for another: no core is  *)
(* ahead of another one by more than a slice, the lag that is left alone   *)
(* and one overshoot for each other core, as the cores catch up in turn.   *)
(***************************************************************************)
EventsOnTime ==
  /\ ~ loop.fault
  /\ \A c \in Cores : \A i \in DOMAIN timers[c].event_queue :
       GetTicks(timers[c]) - timers[c].event_queue[i].time <= MaxBlock
  /\ \A c, d \in Cores :
       GetTicks(timers[c]) - GetTicks(timers[d])
         <= MAX_SLICE_LENGTH + min_delay + (NumCores - 1) * MaxBlock

(***************************************************************************)
(* The ticks of a core, which SVC::GetSystemTick returns, never go back    *)
(* (a new iteration counts them from a later moment).                      *)
(***************************************************************************)
TicksGoOn ==
  \A c \in Cores :
    GetTicks(timers'[c]) >= GetTicks(timers[c]) - IF Iterate THEN Shift ELSE 0

TicksNeverGoBack == [][TicksGoOn]_vars

(***************************************************************************)
(* A thread that sleeps or waits for a host thread gets ready: while the   *)
(* cores have nothing to execute, time goes on to the next event.          *)
(***************************************************************************)
SleepersWake ==
  \A c \in Cores : status[c] \in {"Wait", "Async"} ~> status[c] = "Ready"
=============================================================================

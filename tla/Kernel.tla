------------------------------- MODULE Kernel -------------------------------
(***************************************************************************)
(* The emulated kernel at work: guest threads make system calls            *)
(* (core/hle/kernel/svc.cpp) while the run loop of Core::System runs the   *)
(* cores one after the other, fires timed events and reschedules.          *)
(*                                                                         *)
(* One iteration of the loop is a phase "advance", in which every core     *)
(* fires the events that have come due (and, on a New 3DS, reschedules),   *)
(* then a phase "run", in which every core in turn runs guest code until   *)
(* its slice ends or a call of PrepareReschedule halts it, then the        *)
(* rescheduling of all cores.  A system call is one step: nothing else     *)
(* runs on the emulation thread meanwhile.                                 *)
(***************************************************************************)
EXTENDS Scheduler, FiniteSets

CONSTANTS
  is_new_3ds,   \* the setting that selects RunLoopMultiCores
  Programs      \* the programs that the guest threads run, by name: records of
                \* what a thread of the program may do, see below

(***************************************************************************)
(* A behaviour is one of one program, chosen at the start.  A program has  *)
(*   MainThreads   the threads of SetupMainThread, one of each process;    *)
(*   DelayedStart  whether the first of them may start late: booleans;     *)
(*   Priorities    the priorities that each thread is given;               *)
(*   Timeouts      of waits: -1 for ever, 0 a poll, 1 a time;              *)
(*   Uses          the mutexes, events, semaphores, timers that it uses;   *)
(*   WaitOne       the objects given to WaitSynchronization1;              *)
(*   WaitLists     the lists of objects given to WaitSynchronizationN;     *)
(*   SelfWait      whether a thread may wait for its own end;              *)
(*   Terminable    the processes that TerminateProcess is called for;      *)
(*   Calls         the system calls that its threads make;                 *)
(*   MaxLocks      bound: how often a thread locks a mutex recursively.    *)
(***************************************************************************)
ASSUME ProgramAssumption ==
  /\ is_new_3ds \in BOOLEAN
  /\ ~ is_new_3ds => NumCores = 1
  /\ \A name \in DOMAIN Programs : LET p == Programs[name] IN
       /\ p.MainThreads \in Seq(Threads) /\ Len(p.MainThreads) > 0
       /\ \A i, n \in DOMAIN p.MainThreads :
            owner_process[p.MainThreads[i]] = owner_process[p.MainThreads[n]] => i = n
       /\ p.DelayedStart \subseteq BOOLEAN /\ p.SelfWait \in BOOLEAN
       /\ p.Priorities \in [Threads -> SUBSET Level]
       /\ p.Timeouts \subseteq {-1, 0, 1}
       /\ p.WaitOne \subseteq WaitObjects
       /\ p.WaitLists \subseteq Seq(WaitObjects)
       /\ p.Terminable \subseteq Processes
       /\ p.MaxLocks \in Nat

(* The upper bound of the semaphores' first counts. *)
MaxCount == Max({0} \cup {max_count[s] : s \in Semaphores})

(* The sets of cores that can lag behind another one when an iteration starts. *)
Lags == {lag \in SUBSET Cores : lag # Cores}

VARIABLES
  k,      \* the kernel
  program \* the name of the program

Of           == Programs[program]
MainThreads  == Of.MainThreads
DelayedStart == Of.DelayedStart
Priorities   == Of.Priorities
Timeouts     == Of.Timeouts
Used(S)      == S \cap Of.Uses
WaitOne      == Of.WaitOne
WaitLists    == Of.WaitLists
SelfWait     == Of.SelfWait
Terminable   == Of.Terminable
Calls        == Of.Calls
MaxLocks     == Of.MaxLocks

(***************************************************************************)
(* Process::Run has set up the main thread of every process, the first of  *)
(* which may sleep a while to let the system modules start; the loop is    *)
(* about to start.                                                         *)
(***************************************************************************)
Init ==
  /\ program \in DOMAIN Programs
  /\ \E p \in [Members(MainThreads) -> Level], count \in [Semaphores -> 0 .. MaxCount],
        delayed \in DelayedStart :
       LET created == ForEach(MainThreads, [EmptyKernel EXCEPT !.available_count = count],
                              LAMBDA j, t : CreateThread(j, t, p[t], ~ (delayed /\ t = MainThreads[1])))
       IN  /\ \A t \in Members(MainThreads) : p[t] \in Priorities[t]
           /\ \A s \in Semaphores : count[s] <= (IF s \in Of.Uses THEN max_count[s] ELSE 0)
           /\ k = IF delayed
                  THEN WakeAfterDelay([created EXCEPT !.status[MainThreads[1]] = "WaitSleep"],
                                      MainThreads[1], 1)
                  ELSE created

-----------------------------------------------------------------------------
(* The run loop. *)

(* A callback is called by Timer::Advance of the current core. *)
Advancing == k.phase \in {"sync", "advance"}

(* ThreadWakeupCallback of thread t *)
FireWakeup(t) ==
  /\ Advancing /\ k.wakeup_events[t][k.current_cpu] > 0
  /\ k' = ThreadWakeupCallback([k EXCEPT !.wakeup_events[t][k.current_cpu] = @ - 1], t)

(* TimerManager::TimerCallback of timer tm *)
FireTimer(tm) ==
  /\ Advancing /\ k.timer_events[tm][k.current_cpu] > 0
  /\ k' = SignalTimer([k EXCEPT !.timer_events[tm][k.current_cpu] = @ - 1], tm)

(* Mutant: the wakeups are lost. *)
MoveEventsLost(j, c) ==
  [j EXCEPT !.ts_wakeups = [t \in Threads |-> IF core_id[t] = c THEN 0 ELSE @[t]]]

(***************************************************************************)
(* Timer::MoveEvents of core c: the wakeups that other host threads have   *)
(* scheduled for its threads join its event queue.                         *)
(***************************************************************************)
MoveEvents(j, c) ==
  [j EXCEPT !.wakeup_events = [t \in Threads |->
                 IF core_id[t] = c THEN [@[t] EXCEPT ![c] = @ + j.ts_wakeups[t]] ELSE @[t]],
            !.ts_wakeups = [t \in Threads |-> IF core_id[t] = c THEN 0 ELSE @[t]]]

(***************************************************************************)
(* The loop goes on with the cores in todo: SetRunningCPU of the first of  *)
(* them, and Timer::Advance if it is not to run.                           *)
(***************************************************************************)
Enter(j, phase, todo) ==
  LET moved == IF phase = "run" THEN j ELSE MoveEvents(j, Min(todo))
  IN  [moved EXCEPT !.phase = phase, !.todo = todo, !.current_cpu = Min(todo),
                    !.executing = Min(todo), !.halted = FALSE]

(* All cores are advanced, then all run. *)
AdvanceAll(j) == Enter([j EXCEPT !.lagging = {}], "advance", Cores)

(***************************************************************************)
(* The core that lags most runs alone.  SetRunningCPU is skipped if it is  *)
(* core 0: the kernel's current core is then the last one advanced.        *)
(***************************************************************************)
CatchUp(j, c) ==
  [Enter([j EXCEPT !.lagging = {}], "run", {c}) EXCEPT
     !.current_cpu = IF c = 0 THEN j.current_cpu ELSE c]

(***************************************************************************)
(* The current core has fired what was due; RunLoopMultiCores reschedules  *)
(* it.  After the last of the lagging cores, either one of them catches up *)
(* or the lag was below min_delay.                                         *)
(***************************************************************************)
AdvanceDone ==
  /\ Advancing
  /\ LET j    == IF is_new_3ds THEN Reschedule(k, k.current_cpu) ELSE k
         rest == k.todo \ {k.current_cpu}
     IN  \/ rest # {} /\ k' = Enter(j, k.phase, rest)
         \/ rest = {} /\ k.phase = "advance" /\ k' = Enter(j, "run", Cores)
         \/ rest = {} /\ k.phase = "sync" /\ k' = AdvanceAll(j)
         \/ rest = {} /\ k.phase = "sync" /\ \E c \in k.lagging : k' = CatchUp(j, c)

(* The next iteration, of which the cores in lag are behind in time. *)
Iterate(j, lag) ==
  IF lag = {} THEN AdvanceAll(j) ELSE Enter([j EXCEPT !.lagging = lag], "sync", lag)

(***************************************************************************)
(* The slice of the executing core ends, or it has no thread and idles.    *)
(* After that of the last core all are rescheduled.                        *)
(***************************************************************************)
SliceEnds ==
  /\ k.phase = "run"
  /\ LET idle == k.current_thread[k.current_cpu] = NoThread
         j    == IF idle THEN PrepareReschedule(k) ELSE k
         rest == k.todo \ {k.executing}
     IN  \/ rest # {} /\ k' = Enter(j, "run", rest)
         \/ rest = {} /\ \E lag \in Lags : k' = Iterate(RescheduleAll(j), lag)

RunLoop ==
  \/ AdvanceDone
  \/ SliceEnds
  \/ \E t \in Threads : FireWakeup(t)
  \/ \E tm \in Timers : FireTimer(tm)

-----------------------------------------------------------------------------
(* System calls. *)

Cur == k.current_thread[k.current_cpu]

(* The current core runs guest code. *)
Guest ==
  /\ k.phase = "run" /\ ~ k.halted
  /\ Cur # NoThread

(* The handler leaves the kernel as j and returns the result in r0. *)
Return(j, result) ==
  k' = [j EXCEPT !.r0[k.current_cpu] = result, !.woken_by[Cur] = "none"]

(* The objects that a handle can exist for, and that the bounds let a thread wait for. *)
Waitable(o) ==
  /\ o \in Threads => k.status[o] # "Unborn" /\ (SelfWait \/ o # Cur)
  /\ o \in Mutexes /\ k.holding_thread[o] = Cur => k.lock_count[o] < MaxLocks

(* Mutant: the core goes on with the thread that waits. *)
SuspendRunsOn(objects, status, timeout) ==
  LET added   == ForEach(objects, [k EXCEPT !.status[Cur] = status],
                         LAMBDA j, o : AddWaitingThread(j, Cur, o))
      waiting == WakeAfterDelay([added EXCEPT !.wait_objects[Cur] = objects], Cur, timeout)
  IN  [waiting EXCEPT !.wakeup_callback[Cur] = "sync"]

(* The current thread starts to wait for the objects. *)
Suspend(objects, status, timeout) ==
  LET added   == ForEach(objects, [k EXCEPT !.status[Cur] = status],
                         LAMBDA j, o : AddWaitingThread(j, Cur, o))
      waiting == WakeAfterDelay([added EXCEPT !.wait_objects[Cur] = objects], Cur, timeout)
  IN  PrepareReschedule([waiting EXCEPT !.wakeup_callback[Cur] = "sync"])

SVC_WaitSynchronization1(o, timeout) ==
  /\ Guest /\ Waitable(o)
  /\ IF ~ ShouldWait(k, Cur, o) THEN Return(Acquire(k, Cur, o), "Success")
     ELSE IF timeout = 0 THEN Return(k, "Timeout")
     ELSE Return(Suspend(<<o>>, "WaitSynchAny", timeout), "Timeout")

(* WaitSynchronizationN with wait_all *)
SVC_WaitSynchronizationAll(objects, timeout) ==
  /\ Guest /\ \A o \in Members(objects) : Waitable(o)
  /\ IF \A o \in Members(objects) : ~ ShouldWait(k, Cur, o)
     THEN Return(ForEach(objects, k, LAMBDA j, o : Acquire(j, Cur, o)), "Success")
     ELSE IF timeout = 0 THEN Return(k, "Timeout")
     ELSE Return(Suspend(objects, "WaitSynchAll", timeout), "Timeout")

(* WaitSynchronizationN without: the first object that is available. *)
SVC_WaitSynchronizationAny(objects, timeout) ==
  LET available == {i \in DOMAIN objects : ~ ShouldWait(k, Cur, objects[i])}
  IN  /\ Guest /\ \A o \in Members(objects) : Waitable(o)
      /\ IF available # {} THEN Return(Acquire(k, Cur, objects[Min(available)]), "Success")
         ELSE IF timeout = 0 THEN Return(k, "Timeout")
         ELSE Return(Suspend(objects, "WaitSynchAny", timeout), "Timeout")

SVC_ReleaseMutex(m) ==
  /\ Guest
  /\ Return(Release(k, Cur, m), ReleaseResult(k, Cur, m))

SVC_SignalEvent(e) ==
  /\ Guest
  /\ Return(Signal(k, e), "Success")

SVC_ClearEvent(e) ==
  /\ Guest
  /\ Return(Clear(k, e), "Success")

SVC_ClearTimer(tm) ==
  /\ Guest
  /\ Return([k EXCEPT !.signaled[tm] = FALSE], "Success")

SVC_ReleaseSemaphore(s, n) ==
  /\ Guest
  /\ IF max_count[s] >= n + k.available_count[s]
     THEN Return(ReleaseSemaphoreCount(k, s, n), "Success")
     ELSE Return(k, "Error")

SVC_SetTimer(tm, initial, interval) ==
  /\ Guest
  /\ Return(SetTimer(k, tm, initial, interval), "Success")

SVC_CancelTimer(tm) ==
  /\ Guest
  /\ Return(Cancel(k, tm), "Success")

SVC_CreateThread(t, p) ==
  /\ Guest
  /\ k.status[t] = "Unborn" /\ owner_process[t] = owner_process[Cur]
  /\ Return(PrepareReschedule(CreateThread(k, t, p, TRUE)), "Success")

(* Mutant: the mutexes that the thread waits for are not told. *)
SVC_SetThreadPriorityAlone(t, p) ==
  /\ Guest /\ k.status[t] # "Unborn"
  /\ Return(PrepareReschedule(UpdateThreadPriority(SetPriority(k, t, p), t)), "Success")

SVC_SetThreadPriority(t, p) ==
  /\ Guest /\ k.status[t] # "Unborn"
  /\ LET set    == UpdateThreadPriority(SetPriority(k, t, p), t)
         passed == ForEach(MutexOrder, set, LAMBDA j, m :
                     IF m \in set.pending_mutexes[t] THEN UpdateMutexPriority(j, m) ELSE j)
     IN  Return(PrepareReschedule(passed), "Success")

SVC_ExitThread ==
  /\ Guest
  /\ Return(ExitCurrentThread(k, k.current_cpu), "none")

(* A yield, SleepThread(0), returns at once when no other thread is ready. *)
SVC_SleepThread(timeout) ==
  /\ Guest
  /\ IF timeout = 0 /\ get_first(k.ready_queue[k.current_cpu]) = NoThread
     THEN Return(k, "none")
     ELSE Return(PrepareReschedule(
                   WakeAfterDelay([k EXCEPT !.status[Cur] = "WaitSleep"], Cur, timeout)), "none")

SVC_ExitProcess ==
  /\ Guest
  /\ Return(TerminateProcess(k, owner_process[Cur]), "none")

SVC_TerminateProcess(p) ==
  /\ Guest
  /\ Return(TerminateProcess(k, p), "Success")

Makes(call) == call \in Calls

SystemCall ==
  \/ Makes("WaitSynchronization1") /\ \E o \in WaitOne, timeout \in Timeouts :
        SVC_WaitSynchronization1(o, timeout)
  \/ Makes("WaitSynchronizationAll") /\ \E objects \in WaitLists, timeout \in Timeouts :
        SVC_WaitSynchronizationAll(objects, timeout)
  \/ Makes("WaitSynchronizationAny") /\ \E objects \in WaitLists, timeout \in Timeouts :
        SVC_WaitSynchronizationAny(objects, timeout)
  \/ \E m \in Used(Mutexes) : SVC_ReleaseMutex(m)
  \/ Makes("SignalEvent") /\ \E e \in Used(Events) : SVC_SignalEvent(e)
  \/ Makes("Clear") /\ \E e \in Used(Events) : SVC_ClearEvent(e)
  \/ Makes("Clear") /\ \E tm \in Used(Timers) : SVC_ClearTimer(tm)
  \/ \E s \in Used(Semaphores) : \E n \in 1 .. max_count[s] : SVC_ReleaseSemaphore(s, n)
  \/ \E tm \in Used(Timers) : \E initial, interval \in BOOLEAN : SVC_SetTimer(tm, initial, interval)
  \/ \E tm \in Used(Timers) : SVC_CancelTimer(tm)
  \/ \E t \in Threads : \E p \in Priorities[t] : SVC_CreateThread(t, p)
  \/ Makes("SetThreadPriority") /\ \E t \in Threads : \E p \in Priorities[t] :
        SVC_SetThreadPriority(t, p)
  \/ Makes("ExitThread") /\ SVC_ExitThread
  \/ Makes("SleepThread") /\ \E timeout \in Timeouts : SVC_SleepThread(timeout)
  \/ Makes("ExitProcess") /\ SVC_ExitProcess
  \/ \E p \in Terminable : SVC_TerminateProcess(p)

(* A failed ASSERT has ended the emulator. *)
Crashed == k.fault # "none" /\ UNCHANGED k

Next == (k.fault = "none" /\ (RunLoop \/ SystemCall)) \/ Crashed

Spec == Init /\ [][Next /\ UNCHANGED program]_<<k, program>>

(***************************************************************************)
(* Fairness.  The loop of System::RunLoop does not stop while the emulator *)
(* runs.  A core that lags gains time whenever it catches up, so that now  *)
(* and then no core lags.  An event comes due at a fixed time and the time *)
(* of a core that keeps advancing passes it (RunLoopMultiCores).  Nothing  *)
(* is assumed of the guest threads.                                        *)
(***************************************************************************)
Fairness ==
  /\ WF_k(AdvanceDone) /\ WF_k(SliceEnds)
  /\ SF_k(SliceEnds /\ k'.phase = "advance")
  /\ \A t \in Threads : SF_k(FireWakeup(t))

-----------------------------------------------------------------------------
(* Properties. *)

(* The number of scheduled events of one kind. *)
Scheduled(events) == MapThenSumSet(LAMBDA c : events[c], Cores)

(***************************************************************************)
(* The ASSERTs of the kernel, those of Acquire, ResumeFromWait, Stop,      *)
(* SwitchContext, TerminateProcess, the callbacks and the arbiters, fail   *)
(* in four cases only: a process that has exited is terminated again, a    *)
(* list for wait_all names an object twice, a thread has waited for its    *)
(* own end, or a thread was terminated while it waited under an arbiter.   *)
(***************************************************************************)
AssertsHold ==
  \/ k.fault = "none"
  \/ k.fault = "Process has already exited"
  \/ k.fault = "object unavailable" /\ \E list \in WaitLists : Len(list) > Cardinality(Members(list))
  \/ k.fault = "Inconsistent thread statuses in waiting_threads" /\ SelfWait
  \/ k.fault = "Inconsistent AddressArbiter state" /\ \E p \in Processes : ~ k.process_running[p]

(***************************************************************************)
(* A thread is ready exactly when it is queued, once, on its core and at   *)
(* its current priority; and the level of every live thread is linked, so  *)
(* that pop_first finds it.  The handlers that change a status, a priority *)
(* or a queue (SetPriority, BoostPriority, ResumeFromWait, Stop,           *)
(* SwitchContext) must agree on this.                                      *)
(***************************************************************************)
ReadyIffQueued ==
  /\ \A t \in Threads, c \in Cores, p \in Level :
       LET places == {i \in DOMAIN k.ready_queue[c].data[p] : k.ready_queue[c].data[p][i] = t}
       IN IF k.status[t] = "Ready" /\ c = core_id[t] /\ p = k.current_priority[t]
            THEN \E i \in places : places = {i}
            ELSE places = {}
  /\ \A t \in Threads : k.status[t] \notin {"Unborn", "Dead"} =>
       k.current_priority[t] \in Linked(k.ready_queue[core_id[t]])

(***************************************************************************)
(* Threads and objects agree on who waits for what: a thread is in the     *)
(* list of an object, once, exactly when the object is among its           *)
(* wait_objects, and only while it waits for objects; the mutexes among    *)
(* them are its pending_mutexes.                                           *)
(***************************************************************************)
WaitListsAgree ==
  /\ \A o \in WaitObjects :
       /\ Members(k.waiting_threads[o]) = {t \in Threads : o \in Members(k.wait_objects[t])}
       /\ Len(k.waiting_threads[o]) = Cardinality(Members(k.waiting_threads[o]))
  /\ \A t \in Threads :
       /\ k.wait_objects[t] # << >> => k.status[t] \in {"WaitSynchAny", "WaitSynchAll", "WaitHleEvent"}
       /\ k.pending_mutexes[t] = Members(k.wait_objects[t]) \cap Mutexes

(***************************************************************************)
(* A mutex is locked exactly when a thread holds it, which then lists it   *)
(* among its held_mutexes and is alive: the mutexes of a stopped thread    *)
(* are passed on.                                                          *)
(***************************************************************************)
MutexOwnership ==
  /\ \A m \in Mutexes : (k.lock_count[m] > 0) = (k.holding_thread[m] # NoThread)
  /\ \A t \in Threads :
       /\ k.held_mutexes[t] = {m \in Mutexes : k.holding_thread[m] = t}
       /\ k.status[t] = "Dead" => k.held_mutexes[t] = {}

(***************************************************************************)
(* The priority of a live thread is the best of its own and of those that  *)
(* the mutexes it holds have taken on: it is neither left boosted nor left *)
(* unboosted when these change.  And a thread that waits for a mutex, and  *)
(* holds none itself, is no more urgent than the holder.  (The code covers *)
(* neither chains of mutexes nor waits for all of several objects.)        *)
(***************************************************************************)
InheritedPriority ==
  /\ \A t \in Threads : k.status[t] \notin {"Unborn", "Dead"} =>
       k.current_priority[t] = Min({k.nominal_priority[t]} \cup {k.priority[m] : m \in k.held_mutexes[t]})
  /\ \A m \in Mutexes : \A t \in Members(k.waiting_threads[m]) :
       (k.holding_thread[m] # NoThread /\ k.status[t] = "WaitSynchAny" /\ k.held_mutexes[t] = {}) =>
         k.current_priority[k.holding_thread[m]] <= k.current_priority[t]

(***************************************************************************)
(* No wakeup is lost: a thread that waits for one of several objects finds *)
(* none of them available, and one that waits for all of them finds at     *)
(* least one that is not.                                                  *)
(***************************************************************************)
NoLostWakeup ==
  \A t \in Threads :
    /\ k.status[t] = "WaitSynchAny" =>
         \A o \in Members(k.wait_objects[t]) : ShouldWait(k, t, o)
    /\ k.status[t] = "WaitSynchAll" =>
         \E o \in Members(k.wait_objects[t]) : ShouldWait(k, t, o)

(***************************************************************************)
(* A wait that a signal ended returns Success, and one that its timeout    *)
(* ended returns Timeout (the comment in WaitSynchronization1): a thread   *)
(* that runs finds in r0 the result of what woke it.                       *)
(***************************************************************************)
WaitResult ==
  \A c \in Cores : LET t == k.current_thread[c] IN
    t # NoThread /\ k.status[t] = "Running" =>
      /\ k.woken_by[t] = "Signal" => k.r0[c] = "Success"
      /\ k.woken_by[t] = "Timeout" => k.r0[c] = "Timeout"

(***************************************************************************)
(* A thread has at most one timeout, and none once it runs or is dead: no  *)
(* timeout of one wait ends a later one.  Timers have one firing at most.  *)
(***************************************************************************)
TimeoutsAreCurrent ==
  /\ \A t \in Threads :
       Scheduled(k.wakeup_events[t]) <= IF k.status[t] \in WaitingStatus \cup {"Ready"} THEN 1 ELSE 0
  /\ \A tm \in Timers : Scheduled(k.timer_events[tm]) <= 1

(***************************************************************************)
(* No preemption is missed: unless a rescheduling is pending, the thread   *)
(* of each core is running and no more urgent one of the core is ready.    *)
(* (TerminateProcess of another process can lower the priority of the      *)
(* current thread, by ending a waiter, without asking to reschedule.)      *)
(***************************************************************************)
NoMissedPreemption ==
  \/ k.reschedule_pending
  \/ \E p \in Terminable : ~ k.process_running[p]
  \/ \A c \in Cores : LET t == k.current_thread[c] IN
       t # NoThread =>
         /\ k.status[t] = "Running"
         /\ \A u \in Threads : k.status[u] = "Ready" /\ core_id[u] = c =>
              k.current_priority[t] <= k.current_priority[u]

(***************************************************************************)
(* Guest code is executed for running threads only: the thread that the    *)
(* kernel takes for the caller is neither dead nor waiting, and it is the  *)
(* running thread of its own core.                                         *)
(***************************************************************************)
OnlyRunningThreadsExecute ==
  /\ Guest => k.status[Cur] = "Running"
  /\ \A t \in Threads : k.status[t] = "Running" => k.current_thread[core_id[t]] = t

(***************************************************************************)
(* TerminateProcess ends a process as a whole: none of its threads is left *)
(* to run or to wait, and at any time its resource limit counts as many    *)
(* threads as are alive.                                                   *)
(***************************************************************************)
ProcessesEndWhole ==
  \A p \in Processes :
    LET live == {t \in Threads : owner_process[t] = p /\ k.status[t] \notin {"Unborn", "Dead"}}
    IN  /\ ~ k.process_running[p] => live = {}
        /\ k.threads_reserved[p] = Cardinality(live)

(***************************************************************************)
(* A thread is woken once: from when it is made ready until it runs, the   *)
(* result in its saved context is final.  A timeout that fires after the   *)
(* signal, or a second signal, leaves it alone.                            *)
(***************************************************************************)
WokenOnce ==
  [][\A t \in Threads :
       k.status[t] = "Ready" /\ k'.status[t] = "Ready" /\ k.current_thread[core_id[t]] # t =>
         k'.context[t] = k.context[t] /\ k'.woken_by[t] = k.woken_by[t]]_k

(***************************************************************************)
(* A ready thread that is more urgent than every other live thread of its  *)
(* core does not stay ready for ever: Reschedule gets to it.               *)
(***************************************************************************)
MostUrgentRuns ==
  \A t \in Threads : ~ <>[](/\ k.status[t] = "Ready"
                            /\ \A u \in Threads \ {t} :
                                 core_id[u] = core_id[t] /\ k.status[u] \notin {"Unborn", "Dead"} =>
                                   k.current_priority[t] < k.current_priority[u])
=============================================================================

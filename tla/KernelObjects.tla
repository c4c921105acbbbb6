---------------------------- MODULE KernelObjects ----------------------------
(***************************************************************************)
(* The objects of the emulated kernel (core/hle/kernel): threads and their *)
(* ready queues, the objects a thread can wait for, and the operations     *)
(* that these perform on one another.                                      *)
(*                                                                         *)
(* The kernel is a record k with one field per C++ data member.  A field   *)
(* of an object is a function from the objects that have it, and a member  *)
(* function maps a kernel to a kernel, so that a handler which calls       *)
(* others is their composition.  Everything here runs on the one emulation *)
(* thread: the functions called by a handler are not interleaved with      *)
(* anything.                                                               *)
(***************************************************************************)
EXTENDS ThreadQueueList

CONSTANTS
  NumCores,       \* core c is a member of 0 .. NumCores - 1
  core_id,        \* core_id[t]: the core that thread t is created on
  owner_process,  \* owner_process[t]: the process of thread t
  Mutexes,
  MutexOrder,     \* the mutexes by address: the iteration order of a flat_set of them
  Events,
  Semaphores,
  max_count,      \* max_count[s]: the upper bound given to CreateSemaphore
  Timers,
  reset_type,     \* reset_type[o], o an event or a timer: OneShot, Sticky or Pulse
  Sessions,       \* server sessions, each with one client session
  HleSessions,    \* those of them that a service of the emulator answers
  Ports,          \* server ports, each with one client port
  max_sessions,   \* max_sessions[p]: how many sessions a port admits
  Arbiters        \* address arbiters

Cores == 0 .. NumCores - 1

WaitObjects ==
  Threads \cup Mutexes \cup Events \cup Semaphores \cup Timers \cup Sessions \cup Ports

Processes == {owner_process[t] : t \in Threads}

ASSUME KernelAssumption ==
  /\ NumCores \in Nat \ {0}
  /\ core_id \in [Threads -> Cores]
  /\ DOMAIN owner_process = Threads
  /\ MutexOrder \in Seq(Mutexes)
  /\ \A m \in Mutexes : \E i \in DOMAIN MutexOrder : MutexOrder[i] = m
  /\ max_count \in [Semaphores -> Int]
  /\ HleSessions \subseteq Sessions /\ max_sessions \in [Ports -> Nat]
  /\ reset_type \in [Events \cup Timers -> {"OneShot", "Sticky", "Pulse"}]

(* Constants of thread.h. *)
ThreadPrioLowest == NUM_QUEUES - 1

WaitingStatus ==
  {"WaitSynchAny", "WaitSynchAll", "WaitHleEvent", "WaitArb", "WaitSleep", "WaitIPC"}

(* The members of a sequence. *)
Members(s) == {s[i] : i \in DOMAIN s}

(* for (x : s) k = Body(k, x) *)
ForEach(s, k, Body(_, _)) ==
  LET after[n \in 0 .. Len(s)] ==
        IF n = 0 THEN k ELSE Body(after[n - 1], s[n])
  IN  after[Len(s)]

(* ASSERT(condition): a failed one stops the emulator. *)
ASSERT(k, condition, what) ==
  IF condition \/ k.fault # "none" THEN k ELSE [k EXCEPT !.fault = what]

-----------------------------------------------------------------------------
(* Timed events, rescheduling and priorities. *)

(***************************************************************************)
(* The events of one type and target that Core::Timing holds: how many     *)
(* there are in the event queue of each core.  ScheduleEvent adds to that  *)
(* of the running core and UnscheduleEvent removes from all.               *)
(***************************************************************************)
Unscheduled == [c \in Cores |-> 0]

(***************************************************************************)
(* KernelSystem::PrepareReschedule: the scheduler will run, and the core   *)
(* that the kernel takes for the running one stops, if it is executing.    *)
(***************************************************************************)
PrepareReschedule(k) ==
  [k EXCEPT !.halted = @ \/ (k.phase = "run" /\ k.executing = k.current_cpu),
            !.reschedule_pending = TRUE]

(* Mutant: a thread that is ready keeps its old place in the ready queue. *)
BoostPriorityInPlace(k, t, p) ==
  [k EXCEPT !.ready_queue[core_id[t]] = prepare(@, p), !.current_priority[t] = p]

BoostPriority(k, t, p) ==
  [k EXCEPT !.ready_queue[core_id[t]] =
                IF k.status[t] = "Ready"
                THEN move(@, t, k.current_priority[t], p)
                ELSE prepare(@, p),
            !.current_priority[t] = p]

SetPriority(k, t, p) == [BoostPriority(k, t, p) EXCEPT !.nominal_priority[t] = p]

(* Thread::UpdatePriority *)
UpdateThreadPriority(k, t) ==
  BoostPriority(k, t, Min({k.nominal_priority[t]} \cup {k.priority[m] : m \in k.held_mutexes[t]}))

BestWaiter(k, m) ==
  Min({ThreadPrioLowest} \cup {k.current_priority[t] : t \in Members(k.waiting_threads[m])})

(* Mutex::UpdatePriority: the mutex, and so its holder, takes the best of its waiters. *)
UpdateMutexPriority(k, m) ==
  IF k.holding_thread[m] = NoThread \/ BestWaiter(k, m) = k.priority[m]
  THEN k
  ELSE UpdateThreadPriority([k EXCEPT !.priority[m] = BestWaiter(k, m)], k.holding_thread[m])

-----------------------------------------------------------------------------
(* What each kind of object does as a WaitObject. *)

(* ServerSession::ShouldWait; a closed session never makes a thread wait. *)
SessionShouldWait(k, s) ==
  /\ k.client_open[s]
  /\ k.pending_requesting_threads[s] = << >> \/ k.currently_handling[s] # NoThread

PortShouldWait(k, p) == k.pending_sessions[p] = << >>

MutexShouldWait(k, t, m) == k.lock_count[m] > 0 /\ k.holding_thread[m] # t

EventShouldWait(k, e) == ~ k.signaled[e]

TimerShouldWait(k, tm) == ~ k.signaled[tm]

SemaphoreShouldWait(k, s) == k.available_count[s] <= 0

ThreadShouldWait(k, t) == k.status[t] # "Dead"

(* The virtual WaitObject::ShouldWait. *)
ShouldWait(k, t, o) ==
  \/ o \in Mutexes /\ MutexShouldWait(k, t, o)
  \/ o \in Events /\ EventShouldWait(k, o)
  \/ o \in Timers /\ TimerShouldWait(k, o)
  \/ o \in Semaphores /\ SemaphoreShouldWait(k, o)
  \/ o \in Threads /\ ThreadShouldWait(k, o)
  \/ o \in Sessions /\ SessionShouldWait(k, o)
  \/ o \in Ports /\ PortShouldWait(k, o)

(* The first lock of a mutex makes t its holder. *)
TakeMutex(k, t, m) ==
  PrepareReschedule(UpdateThreadPriority(
    [k EXCEPT !.priority[m] = k.current_priority[t],
              !.held_mutexes[t] = @ \cup {m},
              !.holding_thread[m] = t], t))

AcquireMutex(k, t, m) ==
  [IF k.lock_count[m] = 0 THEN TakeMutex(k, t, m) ELSE k EXCEPT !.lock_count[m] = @ + 1]

AcquireEvent(k, e) ==
  IF reset_type[e] = "OneShot" THEN [k EXCEPT !.signaled[e] = FALSE] ELSE k

AcquireTimer(k, tm) ==
  IF reset_type[tm] = "OneShot" THEN [k EXCEPT !.signaled[tm] = FALSE] ELSE k

AcquireSemaphore(k, s) ==
  IF k.available_count[s] <= 0 THEN k ELSE [k EXCEPT !.available_count[s] = @ - 1]

(* Mutant: the request that is taken stays in the list. *)
AcquireSessionKeeps(k, s) ==
  LET pending == k.pending_requesting_threads[s]
  IN  IF ~ k.client_open[s] \/ pending = << >> THEN k
      ELSE [k EXCEPT !.currently_handling[s] = pending[Len(pending)]]

(* ServerSession::Acquire: take the request that came last. *)
AcquireSession(k, s) ==
  LET pending == k.pending_requesting_threads[s]
  IN  IF ~ k.client_open[s] THEN k
      ELSE IF pending = << >> THEN ASSERT(k, FALSE, "no pending request")
      ELSE [k EXCEPT !.currently_handling[s] = pending[Len(pending)],
                     !.pending_requesting_threads[s] = SubSeq(@, 1, Len(@) - 1)]

(* The virtual WaitObject::Acquire, which asserts that the object is available. *)
AcquireObject(k, t, o) ==
  CASE o \in Mutexes -> AcquireMutex(k, t, o)
    [] o \in Events -> AcquireEvent(k, o)
    [] o \in Timers -> AcquireTimer(k, o)
    [] o \in Semaphores -> AcquireSemaphore(k, o)
    [] o \in Sessions -> AcquireSession(k, o)
    [] o \in Threads \cup Ports -> k

Acquire(k, t, o) ==
  AcquireObject(ASSERT(k, ShouldWait(k, t, o) => o \in Semaphores, "object unavailable"), t, o)

-----------------------------------------------------------------------------
(* Waiting and waking. *)

(* WaitObject::AddWaitingThread and WaitObject::RemoveWaitingThread *)
ListWaitingThread(k, t, o) ==
  IF t \in Members(k.waiting_threads[o]) THEN k ELSE [k EXCEPT !.waiting_threads[o] = Append(@, t)]

UnlistWaitingThread(k, t, o) == [k EXCEPT !.waiting_threads[o] = Erase(@, t)]

(* The Mutex overrides. *)
AddWaitingThread(k, t, o) ==
  IF o \in Mutexes
  THEN UpdateMutexPriority(
         [ListWaitingThread(k, t, o) EXCEPT !.pending_mutexes[t] = @ \cup {o}], o)
  ELSE ListWaitingThread(k, t, o)

RemoveWaitingThread(k, t, o) ==
  IF o \in Mutexes
  THEN UpdateMutexPriority([UnlistWaitingThread(k, t, o) EXCEPT !.pending_mutexes[t] = @ \ {o}], o)
  ELSE UnlistWaitingThread(k, t, o)

(* The end of every wait for objects: leave all of their lists. *)
LeaveWaitObjects(k, t) ==
  [ForEach(k.wait_objects[t], k, LAMBDA j, o : RemoveWaitingThread(j, t, o))
     EXCEPT !.wait_objects[t] = << >>]

(***************************************************************************)
(* Thread::ResumeFromWait.  A thread that is ready has been woken already; *)
(* the cases Running and Dead, errors in a debug build, do nothing.        *)
(***************************************************************************)
MakeReady(k, t) ==
  CASE k.status[t] \in WaitingStatus \cup {"Dormant"} ->
         PrepareReschedule(
           [k EXCEPT !.wakeup_callback[t] = "none",
                     !.ready_queue[core_id[t]] = push_back(@, k.current_priority[t], t),
                     !.status[t] = "Ready"])
    [] k.status[t] = "Ready" ->
         ASSERT(k, k.wakeup_callback[t] = "none", "callback not cleared")
    [] OTHER -> k

ResumeFromWait(k, t) ==
  MakeReady(ASSERT(k, k.wait_objects[t] = << >>, "waking up while waiting for objects"), t)

(* SetWaitSynchronizationResult, with a note of the reason that the callback was given. *)
SetWaitSynchronizationResult(k, t, result, reason) ==
  [k EXCEPT !.context[t] = result, !.woken_by[t] = reason]

(***************************************************************************)
(* ReceiveIPCRequest for the server thread t.  The translation of the      *)
(* command buffer is taken to succeed: the code stops the emulator         *)
(* otherwise.                                                              *)
(***************************************************************************)
ReceiveIPCRequest(k, s) ==
  IF k.client_open[s] THEN "Success" ELSE "SessionClosed"

(* A session that neither end of is open. *)
Unused(k) == {s \in Sessions : ~ k.client_open[s] /\ ~ k.server_open[s]}

(***************************************************************************)
(* ClientPort::Connect up to the waking of the threads that wait on the    *)
(* port: a new session is left for the server to accept.                   *)
(***************************************************************************)
Connect(k, p) ==
  LET s == CHOOSE x \in Unused(k) : TRUE
  IN  IF k.active_sessions[p] >= max_sessions[p] THEN k
      ELSE [k EXCEPT !.active_sessions[p] = @ + 1,
                     !.client_open[s] = TRUE, !.server_open[s] = TRUE, !.session_port[s] = p,
                     !.pending_sessions[p] = Append(@, s)]

(***************************************************************************)
(* SRV::ThreadCallback of a thread that has waited for the service of port *)
(* p: it connects to the port, which is there and not full.  The port is   *)
(* new, so no thread waits on it.                                          *)
(***************************************************************************)
GetDelayedHandle(k, p) ==
  Connect(ASSERT(k, k.registered[p] /\ k.active_sessions[p] < max_sessions[p]
                      /\ k.waiting_threads[p] = << >>, "no session for a delayed client"), p)

(* HLERequestContext::ThreadCallback, which writes the response to the request. *)
WriteResponse(k, t) ==
  [ASSERT(k, k.status[t] = "WaitHleEvent", "HLE callback of a thread that does not wait for it")
     EXCEPT !.unanswered[t] = FALSE]

(* Mutant: the result of the wait is left as it was. *)
WakeUpSignalForgets(k, t, o) == [k EXCEPT !.woken_by[t] = "Signal"]

(***************************************************************************)
(* wakeup_callback->WakeUp(Signal, t, o): SVC_SyncCallback, SVC_IPCCallback *)
(* and HLERequestContext::ThreadCallback, with the AsyncWakeUpCallback of  *)
(* RunAsync ("async"), with that of a client of srv: that waits for a      *)
(* service (denoted by the port), or with another one ("hle").             *)
(***************************************************************************)
WakeUpSignal(k, t, o) ==
  CASE k.wakeup_callback[t] = "sync" -> SetWaitSynchronizationResult(k, t, "Success", "Signal")
    [] k.wakeup_callback[t] = "ipc" ->
         SetWaitSynchronizationResult(
           ASSERT(k, k.status[t] = "WaitSynchAny", "IPC callback of a thread that does not wait"),
           t, IF o \in Sessions THEN ReceiveIPCRequest(k, o) ELSE "Success", "Signal")
    [] k.wakeup_callback[t] \in {"hle", "async"} -> WriteResponse(k, t)
    [] k.wakeup_callback[t] \in Ports -> WriteResponse(GetDelayedHandle(k, k.wakeup_callback[t]), t)
    [] OTHER -> k

(* A thread of the list that can be woken: all that it waits for is available. *)
ReadyToRun(k, t, o) ==
  /\ ~ ShouldWait(k, t, o)
  /\ k.status[t] = "WaitSynchAll" =>
       \A i \in DOMAIN k.wait_objects[t] : ~ ShouldWait(k, t, k.wait_objects[t][i])

(* Of the threads at the places in the list, the first that no other precedes in priority. *)
FirstMostUrgent(k, list, places) ==
  IF places = {} THEN NoThread
  ELSE list[CHOOSE i \in places :
              \A j \in places :
                \/ k.current_priority[list[i]] < k.current_priority[list[j]]
                \/ k.current_priority[list[i]] = k.current_priority[list[j]] /\ i <= j]

(***************************************************************************)
(* GetHighestPriorityReadyThread: of the threads that can be woken, the    *)
(* first one in the list that no other one precedes in priority.           *)
(***************************************************************************)
GetHighestPriorityReadyThread(k, o) ==
  LET list == k.waiting_threads[o]
  IN  FirstMostUrgent(k, list, {i \in DOMAIN list : ReadyToRun(k, list[i], o)})

(* The ASSERT of the loop of GetHighestPriorityReadyThread. *)
AssertAllWaiting(k, o) ==
  ASSERT(k, \A t \in Members(k.waiting_threads[o]) :
              k.status[t] \in {"WaitSynchAny", "WaitSynchAll", "WaitHleEvent"},
         "Inconsistent thread statuses in waiting_threads")

(* A thread that is woken for o acquires it, or all that it waits for. *)
AcquireAwaited(k, t, o) ==
  ForEach(IF k.status[t] = "WaitSynchAll" THEN k.wait_objects[t] ELSE <<o>>, k,
          LAMBDA j, x : Acquire(j, t, x))

(* Mutant: a woken thread stays in the lists of its other objects. *)
WakeOneLeavingLists(k, t, o) ==
  ResumeFromWait([RemoveWaitingThread(WakeUpSignal(AcquireAwaited(k, t, o), t, o), t, o)
                    EXCEPT !.wait_objects[t] = << >>], t)

(* The body of the loop of WaitObject::WakeupAllWaitingThreads. *)
WakeOne(k, t, o) ==
  ResumeFromWait(LeaveWaitObjects(WakeUpSignal(AcquireAwaited(k, t, o), t, o), t), t)

(***************************************************************************)
(* WaitObject::WakeupAllWaitingThreads.  Each round takes one thread off   *)
(* the list, so the loop ends within as many rounds as the list has        *)
(* threads.                                                                *)
(***************************************************************************)
WakeHighest(k, t, o) == IF t = NoThread THEN k ELSE WakeOne(k, t, o)

WakeupRound(k, o) == WakeHighest(k, GetHighestPriorityReadyThread(k, o), o)

WakeupAll(k, o) ==
  ForEach(<<NoThread>> \o k.waiting_threads[o], k,
          LAMBDA j, unused : WakeupRound(AssertAllWaiting(j, o), o))

(* The Event and Timer overrides reset a pulse afterwards. *)
ResetPulse(k, o) ==
  IF o \in Events \cup Timers /\ reset_type[o] = "Pulse"
  THEN [k EXCEPT !.signaled[o] = FALSE] ELSE k

WakeupAllWaitingThreads(k, o) == ResetPulse(WakeupAll(k, o), o)

-----------------------------------------------------------------------------
(* Operations of mutexes, events, semaphores and timers. *)

(* The mutex leaves its holder, which may lose priority. *)
Unheld(k, m, holder) ==
  [UpdateThreadPriority([k EXCEPT !.held_mutexes[holder] = @ \ {m}], holder)
     EXCEPT !.holding_thread[m] = NoThread]

ReleaseMutexFully(k, m) ==
  PrepareReschedule(WakeupAllWaitingThreads(Unheld(k, m, k.holding_thread[m]), m))

Unlock(k, m) == IF k.lock_count[m] = 0 THEN ReleaseMutexFully(k, m) ELSE k

(* Mutex::Release, and what it returns: the caller t must hold the mutex. *)
Release(k, t, m) ==
  IF k.holding_thread[m] # t \/ k.lock_count[m] <= 0 THEN k
  ELSE Unlock([k EXCEPT !.lock_count[m] = @ - 1], m)

ReleaseResult(k, t, m) ==
  IF k.holding_thread[m] # t \/ k.lock_count[m] <= 0 THEN "Error" ELSE "Success"

Unlocked(k, m) == [k EXCEPT !.lock_count[m] = 0, !.holding_thread[m] = NoThread]

(* Mutant: the mutexes of a dead thread stay locked for those who wait. *)
ReleaseThreadMutexesSilently(k, t) ==
  [ForEach(EraseIn(MutexOrder, Mutexes \ k.held_mutexes[t]), k, Unlocked)
     EXCEPT !.held_mutexes[t] = {}]

ReleaseThreadMutexes(k, t) ==
  [ForEach(EraseIn(MutexOrder, Mutexes \ k.held_mutexes[t]), k,
           LAMBDA j, m : WakeupAllWaitingThreads(Unlocked(j, m), m))
     EXCEPT !.held_mutexes[t] = {}]

(* Event::Signal and the first half of Timer::Signal *)
Signal(k, o) == WakeupAllWaitingThreads([k EXCEPT !.signaled[o] = TRUE], o)

(* Event::Clear *)
Clear(k, o) == [k EXCEPT !.signaled[o] = FALSE]

(* Semaphore::Release, when the count stays within max_count. *)
ReleaseSemaphoreCount(k, s, n) ==
  WakeupAllWaitingThreads([k EXCEPT !.available_count[s] = @ + n], s)

(* Timer::Signal: an interval timer schedules its next firing. *)
Rearm(k, tm) ==
  IF k.interval_delay[tm] THEN [k EXCEPT !.timer_events[tm][k.current_cpu] = @ + 1] ELSE k

SignalTimer(k, tm) == Rearm(Signal(k, tm), tm)

(* Timer::Cancel *)
Cancel(k, tm) == [k EXCEPT !.timer_events[tm] = Unscheduled]

StartTimer(k, tm, initial) ==
  IF initial THEN [k EXCEPT !.timer_events[tm][k.current_cpu] = @ + 1] ELSE SignalTimer(k, tm)

(* Mutant: an earlier firing stays scheduled. *)
SetTimerKeeping(k, tm, initial, interval) ==
  StartTimer([k EXCEPT !.interval_delay[tm] = interval], tm, initial)

(* Timer::Set.  The delays matter only in being zero (FALSE) or not. *)
SetTimer(k, tm, initial, interval) ==
  StartTimer([Cancel(k, tm) EXCEPT !.interval_delay[tm] = interval], tm, initial)

-----------------------------------------------------------------------------
(* Address arbiters. *)

AssertArbitrated(k, a) ==
  ASSERT(k, \A t \in Members(k.arb_waiting[a]) : k.status[t] = "WaitArb",
         "Inconsistent AddressArbiter state")

(* The threads that wait for the address. *)
WaitersOf(k, address) == {t \in Threads : k.wait_address[t] = address}

Matching(k, a, address) == EraseIn(k.arb_waiting[a], Threads \ WaitersOf(k, address))

Others(k, a, address) == EraseIn(k.arb_waiting[a], WaitersOf(k, address))

(* ResumeAllThreads: wake those waiting on the address, keep the others. *)
ResumeAllThreads(k, a, address) ==
  [ForEach(Matching(k, a, address), AssertArbitrated(k, a), ResumeFromWait)
     EXCEPT !.arb_waiting[a] = Others(k, a, address)]

ResumeArbitrated(k, a, address, t) ==
  IF t = NoThread THEN k
  ELSE [ResumeFromWait(k, t) EXCEPT
          !.arb_waiting[a] = Others(k, a, address) \o Erase(Matching(k, a, address), t)]

(***************************************************************************)
(* ResumeHighestPriorityThread: the first of the most urgent threads on    *)
(* the address.  stable_partition moves the waiters of the address behind  *)
(* the others.                                                             *)
(***************************************************************************)
ResumeHighestPriorityThread(k, a, address) ==
  LET list == Matching(k, a, address)
  IN  ResumeArbitrated(AssertArbitrated(k, a), a, address, FirstMostUrgent(k, list, DOMAIN list))

(* AddressArbiter::WaitThread *)
WaitThread(k, t, a, address) ==
  [k EXCEPT !.wait_address[t] = address,
            !.status[t] = "WaitArb",
            !.arb_waiting[a] = Append(@, t)]

-----------------------------------------------------------------------------
(* Threads. *)

(* resource_limit->Release(Thread, 1) *)
ReleaseThreadCount(k, t) ==
  [k EXCEPT !.threads_reserved[owner_process[t]] = IF @ >= 1 THEN @ - 1 ELSE @]

(* UnscheduleEvent reaches the event queues of the timers and not their ts_queue. *)
WithoutWakeup(k, t) ==
  [k EXCEPT !.wakeup_events[t] = Unscheduled, !.wakeup_callback_table = @ \ {t}]

Unqueued(k, t) ==
  IF k.status[t] = "Ready"
  THEN [k EXCEPT !.ready_queue[core_id[t]] = remove(@, k.current_priority[t], t)] ELSE k

(* The thread is dead for those who wait for its end, and leaves what it waits for itself. *)
Die(k, t) == LeaveWaitObjects(WakeupAllWaitingThreads([k EXCEPT !.status[t] = "Dead"], t), t)

(* Mutant: a ready thread that is stopped stays in the ready queue. *)
StopStillQueued(k, t) ==
  ReleaseThreadCount(ReleaseThreadMutexes(Die(WithoutWakeup(k, t), t), t), t)

(* Thread::Stop.  The TLS slot that is freed at the end is not modelled here. *)
Stop(k, t) ==
  ReleaseThreadCount(ReleaseThreadMutexes(Die(Unqueued(WithoutWakeup(k, t), t), t), t), t)

(* Thread::WakeAfterDelay on the emulation thread; -1 waits forever. *)
WakeAfterDelay(k, t, timeout) ==
  IF timeout = -1 THEN k ELSE [k EXCEPT !.wakeup_events[t][k.current_cpu] = @ + 1]

(* wakeup_callback->WakeUp(Timeout, t, nullptr) *)
WakeUpTimeout(k, t) ==
  CASE k.wakeup_callback[t] = "sync" -> SetWaitSynchronizationResult(k, t, "Timeout", "Timeout")
    [] k.wakeup_callback[t] = "arb" ->
         [k EXCEPT !.arb_waiting = [a \in Arbiters |-> Erase(k.arb_waiting[a], t)]]
    [] k.wakeup_callback[t] = "ipc" -> ASSERT(k, FALSE, "timeout of an IPC wait")
    [] k.wakeup_callback[t] \in {"hle", "async"} -> WriteResponse(k, t)
    [] OTHER -> k

(* Mutant: the status is not looked at. *)
TimedOutAlways(k, t) ==
  ResumeFromWait(LeaveWaitObjects(
    SetWaitSynchronizationResult(k, t, "Timeout", k.woken_by[t]), t), t)

(* The rest of ThreadManager::ThreadWakeupCallback, the thread being in the table. *)
TimedOut(k, t) ==
  IF k.status[t] \in {"WaitSynchAny", "WaitSynchAll", "WaitArb", "WaitHleEvent"}
  THEN ResumeFromWait(LeaveWaitObjects(WakeUpTimeout(k, t), t), t)
  ELSE ResumeFromWait(k, t)

(* ThreadWakeupCallback: wakeup_callback_table.at throws for a thread that is gone. *)
ThreadWakeupCallback(k, t) ==
  IF t \in k.wakeup_callback_table THEN TimedOut(k, t)
  ELSE ASSERT(k, FALSE, "wakeup of a thread that is gone")
=============================================================================

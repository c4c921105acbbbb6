------------------------------ MODULE Scheduler ------------------------------
(***************************************************************************)
(* ThreadManager (core/hle/kernel/thread.cpp): the threads of each core    *)
(* and which of them runs.  The registers of a core are represented by r0, *)
(* the result of the last system call: r0[c] is the live register of core  *)
(* c and context[t] the saved one of thread t.                             *)
(***************************************************************************)
EXTENDS KernelObjects

Results == {"none", "Success", "Timeout", "Error", "SessionClosed"}

(* The kernel before any thread is created: all objects exist, unused. *)
EmptyKernel ==
  [ status                |-> [t \in Threads |-> "Unborn"],
    nominal_priority      |-> [t \in Threads |-> ThreadPrioLowest],
    current_priority      |-> [t \in Threads |-> ThreadPrioLowest],
    held_mutexes          |-> [t \in Threads |-> {}],
    pending_mutexes       |-> [t \in Threads |-> {}],
    wait_objects          |-> [t \in Threads |-> << >>],
    wait_address          |-> [t \in Threads |-> 0],
    wakeup_callback       |-> [t \in Threads |-> "none"],
    context               |-> [t \in Threads |-> "none"],
    woken_by              |-> [t \in Threads |-> "none"],
    wakeup_events         |-> [t \in Threads |-> Unscheduled],
    ts_wakeups            |-> [t \in Threads |-> 0],
    wakeup_callback_table |-> {},
    waiting_threads       |-> [o \in WaitObjects |-> << >>],
    lock_count            |-> [m \in Mutexes |-> 0],
    holding_thread        |-> [m \in Mutexes |-> NoThread],
    priority              |-> [m \in Mutexes |-> 0],
    signaled              |-> [o \in Events \cup Timers |-> FALSE],
    available_count       |-> [s \in Semaphores |-> 0],
    interval_delay        |-> [tm \in Timers |-> FALSE],
    timer_events          |-> [tm \in Timers |-> Unscheduled],
    client_open           |-> [s \in Sessions |-> s \in HleSessions],
    server_open           |-> [s \in Sessions |-> s \in HleSessions],
    session_port          |-> [s \in Sessions |-> NoThread],
    pending_sessions      |-> [p \in Ports |-> << >>],
    active_sessions       |-> [p \in Ports |-> 0],
    registered            |-> [p \in Ports |-> FALSE],
    delayed               |-> [p \in Ports |-> NoThread],
    request               |-> [t \in Threads |-> NoThread],
    unanswered            |-> [t \in Threads |-> FALSE],
    async                 |-> [t \in Threads |-> FALSE],
    pending_requesting_threads |-> [s \in Sessions |-> << >>],
    currently_handling    |-> [s \in Sessions |-> NoThread],
    arb_waiting           |-> [a \in Arbiters |-> << >>],
    process_running       |-> [p \in Processes |-> TRUE],
    threads_reserved      |-> [p \in Processes |-> 0],
    thread_list           |-> [c \in Cores |-> << >>],
    ready_queue           |-> [c \in Cores |-> EmptyList],
    current_thread        |-> [c \in Cores |-> NoThread],
    r0                    |-> [c \in Cores |-> "none"],
    reschedule_pending    |-> FALSE,
    current_cpu           |-> 0,
    executing             |-> 0,
    phase                 |-> "advance",
    todo                  |-> Cores,
    lagging               |-> {},
    halted                |-> FALSE,
    fault                 |-> "none" ]

(***************************************************************************)
(* KernelSystem::CreateThread and the count in the resource limit that its *)
(* callers make.  The limit is not reached here, and the thread-local      *)
(* storage is allocated.                                                   *)
(***************************************************************************)
CreateThread(k, t, p, make_ready) ==
  [k EXCEPT !.thread_list[core_id[t]] = Append(@, t),
            !.ready_queue[core_id[t]] =
               IF make_ready THEN push_back(prepare(@, p), p, t) ELSE prepare(@, p),
            !.status[t] = IF make_ready THEN "Ready" ELSE "Dormant",
            !.nominal_priority[t] = p,
            !.current_priority[t] = p,
            !.threads_reserved[owner_process[t]] = @ + 1,
            !.wakeup_callback_table = @ \cup {t}]

(***************************************************************************)
(* SwitchContext.  The context of the previous thread is saved over the    *)
(* one in memory, whatever its status.                                     *)
(***************************************************************************)
SwitchContext(k, c, new) ==
  LET prev == k.current_thread[c]
      saved == IF prev = NoThread THEN k ELSE [k EXCEPT !.context[prev] = k.r0[c]]
      queued == IF prev # NoThread /\ k.status[prev] = "Running"
                THEN [saved EXCEPT
                        !.ready_queue[c] = push_front(@, k.current_priority[prev], prev),
                        !.status[prev] = "Ready"]
                ELSE saved
  IN  IF new = NoThread THEN [queued EXCEPT !.current_thread[c] = NoThread]
      ELSE [ASSERT(queued, queued.status[new] = "Ready", "Thread must be ready to become running")
              EXCEPT !.wakeup_events[new] = Unscheduled,
                     !.current_thread[c] = new,
                     !.ready_queue[c] = remove(@, queued.current_priority[new], new),
                     !.status[new] = "Running",
                     !.r0[c] = queued.context[new]]

(* Mutant: a running thread is never preempted. *)
RescheduleCooperative(k, c) ==
  LET cur == k.current_thread[c]
      q   == k.ready_queue[c]
  IN  IF cur # NoThread /\ k.status[cur] = "Running" THEN k
      ELSE IF cur = NoThread /\ get_first(q) = NoThread THEN k
      ELSE SwitchContext([k EXCEPT !.ready_queue[c] = pop_first(q)], c, get_first(q))

(* Reschedule: a running thread is left only for a more urgent one. *)
Reschedule(k, c) ==
  LET cur == k.current_thread[c]
      q   == k.ready_queue[c]
  IN  IF cur # NoThread /\ k.status[cur] = "Running"
      THEN LET stop == k.current_priority[cur]
               next == get_first_better(q, stop)
               j    == ASSERT(k, ~ PopBetterFaults(q, stop), "null level in pop_first_better")
           IN  IF next = NoThread THEN j
               ELSE SwitchContext([j EXCEPT !.ready_queue[c] = pop_first_better(q, stop)], c, next)
      ELSE IF cur = NoThread /\ get_first(q) = NoThread THEN k
      ELSE SwitchContext([k EXCEPT !.ready_queue[c] = pop_first(q)], c, get_first(q))

(* Mutant: only the first core is rescheduled. *)
RescheduleAllFirstOnly(k) ==
  IF k.reschedule_pending THEN Reschedule([k EXCEPT !.reschedule_pending = FALSE], 0) ELSE k

(* RescheduleMultiCores and RescheduleSingleCore. *)
RescheduleAll(k) ==
  IF k.reschedule_pending
  THEN ForEach([i \in 1 .. NumCores |-> i - 1], [k EXCEPT !.reschedule_pending = FALSE], Reschedule)
  ELSE k

(* ExitCurrentThread of the manager of core c. *)
ExitCurrentThread(k, c) ==
  LET cur == k.current_thread[c]
  IN  PrepareReschedule([Stop(k, cur) EXCEPT !.thread_list[c] = Erase(@, cur)])

(* Mutant: the thread after one that is erased from the list is skipped. *)
TerminateProcessThreadsSkipping(k, c, p) ==
  LET cur  == k.current_thread[c]
      list == k.thread_list[c]
      victim(i) == list[i] # cur /\ owner_process[list[i]] = p
      stop(j, i) == IF victim(i) /\ ~ (i > 1 /\ victim(i - 1))
                    THEN [Stop(j, list[i]) EXCEPT !.thread_list[c] = Erase(@, list[i])]
                    ELSE j
      others == ForEach([i \in DOMAIN list |-> i], k, stop)
  IN  IF cur # NoThread /\ owner_process[cur] = p THEN ExitCurrentThread(others, c) ELSE others

(* TerminateProcessThreads: the current thread of the core goes last. *)
TerminateProcessThreads(k, c, p) ==
  LET cur == k.current_thread[c]
      stop(j, t) == IF t = cur \/ owner_process[t] # p THEN j
                    ELSE [Stop(j, t) EXCEPT !.thread_list[c] = Erase(@, t)]
      others == ForEach(k.thread_list[c], k, stop)
  IN  IF cur # NoThread /\ owner_process[cur] = p THEN ExitCurrentThread(others, c) ELSE others

(* KernelSystem::TerminateProcess *)
TerminateProcess(k, p) ==
  LET exited == [ASSERT(k, k.process_running[p], "Process has already exited")
                   EXCEPT !.process_running[p] = FALSE]
  IN  ForEach([i \in 1 .. NumCores |-> i - 1], exited,
              LAMBDA j, c : TerminateProcessThreads(j, c, p))
=============================================================================

------------------------- MODULE KernelObjectsProofs -------------------------
(***************************************************************************)
(* What the operations of KernelObjects and Scheduler preserve, for any    *)
(* threads, objects, priorities and number of cores.                       *)
(***************************************************************************)
EXTENDS Scheduler, ThreadQueueListProofs

Statuses == {"Unborn", "Dormant", "Ready", "Running", "Dead"} \cup WaitingStatus

(* The fields of a kernel. *)
Fields ==
  { "status", "nominal_priority", "current_priority", "held_mutexes", "pending_mutexes",
    "wait_objects", "wait_address", "wakeup_callback", "context", "woken_by", "wakeup_events",
    "ts_wakeups", "wakeup_callback_table", "waiting_threads", "lock_count", "holding_thread",
    "priority", "signaled", "available_count", "interval_delay", "timer_events", "client_open",
    "server_open", "session_port", "pending_sessions", "active_sessions", "registered", "delayed",
    "request", "unanswered", "async", "pending_requesting_threads", "currently_handling",
    "arb_waiting", "process_running", "threads_reserved", "thread_list", "ready_queue",
    "current_thread", "r0", "reschedule_pending", "current_cpu", "executing", "phase", "todo",
    "lagging", "halted", "fault" }

(* Those that the scheduling of threads depends on have their types. *)
Typed(k) ==
  /\ DOMAIN k = Fields
  /\ k.status \in [Threads -> Statuses]
  /\ k.nominal_priority \in [Threads -> Level]
  /\ k.current_priority \in [Threads -> Level]
  /\ k.priority \in [Mutexes -> Level]
  /\ k.held_mutexes \in [Threads -> SUBSET Mutexes]
  /\ k.holding_thread \in [Mutexes -> Threads \cup {NoThread}]
  /\ k.wait_objects \in [Threads -> Seq(WaitObjects)]
  /\ k.waiting_threads \in [WaitObjects -> Seq(Threads)]
  /\ k.arb_waiting \in [Arbiters -> Seq(Threads)]
  /\ k.thread_list \in [Cores -> Seq(Threads)]
  /\ k.ready_queue \in [Cores -> Lists]
  /\ k.current_thread \in [Cores -> Threads \cup {NoThread}]

(***************************************************************************)
(* The ready queues are good lists that hold the ready threads, each on    *)
(* its core and at its priority, and the level of every thread that was    *)
(* created is linked.                                                      *)
(***************************************************************************)
Queued(k) ==
  /\ \A c \in Cores : Good(k.ready_queue[c])
  /\ \A t \in Threads, c \in Cores, p \in Level :
       Holds(k.ready_queue[c], t, p)
         <=> k.status[t] = "Ready" /\ c = core_id[t] /\ p = k.current_priority[t]
  /\ \A t \in Threads :
       k.status[t] # "Unborn" => k.current_priority[t] \in Linked(k.ready_queue[core_id[t]])

(* The thread of a core was created on it, and a running thread is that of its core. *)
Placed(k) ==
  /\ \A c \in Cores : k.current_thread[c] # NoThread => core_id[k.current_thread[c]] = c
  /\ \A t \in Threads : k.status[t] = "Running" => k.current_thread[core_id[t]] = t

Sound(k) == Typed(k) /\ Queued(k) /\ Placed(k)

(* j has the fields of k on which Sound depends. *)
SameThreads(k, j) ==
  /\ DOMAIN j = DOMAIN k
  /\ j.status = k.status /\ j.nominal_priority = k.nominal_priority
  /\ j.current_priority = k.current_priority /\ j.priority = k.priority
  /\ j.held_mutexes = k.held_mutexes /\ j.holding_thread = k.holding_thread
  /\ j.wait_objects = k.wait_objects /\ j.waiting_threads = k.waiting_threads
  /\ j.arb_waiting = k.arb_waiting /\ j.thread_list = k.thread_list
  /\ j.ready_queue = k.ready_queue /\ j.current_thread = k.current_thread

(* j has the fields of k that only the run loop and the system calls themselves change. *)
SameLoop(k, j) ==
  /\ j.nominal_priority = k.nominal_priority /\ j.current_thread = k.current_thread
  /\ j.thread_list = k.thread_list /\ j.wakeup_callback_table = k.wakeup_callback_table
  /\ j.process_running = k.process_running /\ j.threads_reserved = k.threads_reserved
  /\ j.wakeup_events = k.wakeup_events /\ j.ts_wakeups = k.ts_wakeups
  /\ j.timer_events = k.timer_events /\ j.interval_delay = k.interval_delay
  /\ j.r0 = k.r0 /\ j.phase = k.phase /\ j.todo = k.todo /\ j.lagging = k.lagging
  /\ j.current_cpu = k.current_cpu /\ j.executing = k.executing

(* A call to reschedule is not taken back. *)
StillHalted(k, j) ==
  /\ k.halted => j.halted
  /\ k.reschedule_pending => j.reschedule_pending

(***************************************************************************)
(* j follows k by operations that wake threads: those that waited may have *)
(* become ready, and then a rescheduling is pending.                       *)
(***************************************************************************)
Wakes(k, j) ==
  /\ Sound(j) /\ SameLoop(k, j) /\ StillHalted(k, j)
  /\ \A t \in Threads :
       \/ j.status[t] = k.status[t]
       \/ /\ k.status[t] \in WaitingStatus \cup {"Dormant"} /\ j.status[t] = "Ready"
          /\ j.reschedule_pending

LEMMA SameSound ==
  ASSUME NEW k, NEW j, Sound(k), SameThreads(k, j)
  PROVE  Sound(j)
<1>1. Typed(j)
  BY DEF Sound, SameThreads, Typed
<1>2. Queued(j)
  BY DEF Sound, SameThreads, Queued
<1>3. Placed(j)
  BY DEF Sound, SameThreads, Placed
<1>. QED
  BY <1>1, <1>2, <1>3 DEF Sound

LEMMA SameWakes ==
  ASSUME NEW k, NEW j, Sound(k), SameThreads(k, j), SameLoop(k, j), StillHalted(k, j)
  PROVE  Wakes(k, j)
BY SameSound DEF Wakes, SameThreads

LEMMA WakesItself ==
  ASSUME NEW k, Sound(k)
  PROVE  Wakes(k, k)
BY DEF Wakes, SameLoop, StillHalted

LEMMA WakesOn ==
  ASSUME NEW k, NEW j, NEW l, Wakes(k, j), Wakes(j, l)
  PROVE  Wakes(k, l)
<1>1. SameLoop(k, l)
  BY DEF Wakes, SameLoop
<1>2. StillHalted(k, l)
  BY DEF Wakes, StillHalted
<1>3. ASSUME NEW t \in Threads
      PROVE  \/ l.status[t] = k.status[t]
             \/ /\ k.status[t] \in WaitingStatus \cup {"Dormant"} /\ l.status[t] = "Ready"
                /\ l.reschedule_pending
  BY DEF Wakes, StillHalted, WaitingStatus
<1>. QED
  BY <1>1, <1>2, <1>3 DEF Wakes

(* A loop over the values f[0], ..., f[n], of which each wakes threads, wakes threads. *)
LEMMA WakesLoop ==
  ASSUME NEW n \in Nat, NEW f, Sound(f[0]),
         \A i \in 1 .. n : Wakes(f[0], f[i - 1]) => Wakes(f[i - 1], f[i])
  PROVE  Wakes(f[0], f[n])
<1>. DEFINE T == {i \in 0 .. n : Wakes(f[0], f[i])}
<1>1. 0 \in T
  BY WakesItself
<1>2. ASSUME NEW i \in 1 .. n, i - 1 \in T
      PROVE  i \in T
  <2>1. Wakes(f[0], f[i - 1])
    BY <1>2
  <2>. QED
    BY <2>1, WakesOn
<1>3. 0 .. n \subseteq T
  <2>. HIDE DEF T
  <2>. QED
    BY <1>1, <1>2, UpwardInduction
<1>. QED
  BY <1>3

-----------------------------------------------------------------------------
(* Ready queues. *)

(* The constants and the fields that a step about one thread uses. *)
LEMMA ThreadFacts ==
  ASSUME NEW k, Sound(k), NEW t \in Threads
  PROVE  /\ core_id[t] \in Cores
         /\ k.status[t] \in Statuses /\ k.current_priority[t] \in Level
         /\ k.ready_queue[core_id[t]] \in Lists /\ Good(k.ready_queue[core_id[t]])
         /\ \A p \in Level : Holds(k.ready_queue[core_id[t]], t, p)
                               <=> k.status[t] = "Ready" /\ p = k.current_priority[t]
BY KernelAssumption DEF Sound, Typed, Queued

(* The thread of a core, if it has one, is one of its threads. *)
LEMMA CoreFacts ==
  ASSUME NEW k, Sound(k), NEW c \in Cores
  PROVE  /\ k.current_thread[c] \in Threads \cup {NoThread}
         /\ k.current_thread[c] # NoThread =>
              k.current_thread[c] \in Threads /\ core_id[k.current_thread[c]] = c
BY DEF Sound, Typed, Placed

LEMMA WakesSound ==
  ASSUME NEW k, NEW j, Wakes(k, j)
  PROVE  Sound(j)
BY DEF Wakes

(* What is said of the queues depends on these fields only. *)
LEMMA SameQueues ==
  ASSUME NEW k, NEW j, Sound(k), j.status = k.status, j.current_priority = k.current_priority,
         j.ready_queue = k.ready_queue, j.current_thread = k.current_thread
  PROVE  Queued(j) /\ Placed(j)
BY DEF Sound, Queued, Placed

LEMMA ExceptsCommute ==
  ASSUME NEW S, NEW T, NEW f \in [S -> T], NEW x, NEW y, x # y, NEW u, NEW v
  PROVE  [[f EXCEPT ![x] = u] EXCEPT ![y] = v] = [[f EXCEPT ![y] = v] EXCEPT ![x] = u]
BY Zenon

(***************************************************************************)
(* In j the thread t has the status st and the priority pr, and the queue  *)
(* of its core is m.                                                       *)
(***************************************************************************)
Becomes(k, j, t, st, pr, m) ==
  /\ j.status = [k.status EXCEPT ![t] = st]
  /\ j.current_priority = [k.current_priority EXCEPT ![t] = pr]
  /\ j.ready_queue = [k.ready_queue EXCEPT ![core_id[t]] = m]

(* The queues stay right if m holds t exactly when st is ready. *)
LEMMA QueuedChange ==
  ASSUME NEW k, Sound(k), NEW t \in Threads, NEW st \in Statuses, NEW pr \in Level, NEW m, NEW j,
         Becomes(k, j, t, st, pr, m),
         Updates(k.ready_queue[core_id[t]], m, t, IF st = "Ready" THEN {pr} ELSE {}),
         st # "Unborn" => pr \in Linked(m)
  PROVE  /\ j.status \in [Threads -> Statuses] /\ j.current_priority \in [Threads -> Level]
         /\ j.ready_queue \in [Cores -> Lists] /\ Queued(j)
<1>. DEFINE c == core_id[t]
            l == k.ready_queue[c]
<1>1. c \in Cores /\ m \in Lists /\ Good(m) /\ Linked(l) \subseteq Linked(m)
  BY ThreadFacts DEF Updates
<1>2. /\ k.status \in [Threads -> Statuses] /\ k.current_priority \in [Threads -> Level]
      /\ k.ready_queue \in [Cores -> Lists]
  BY DEF Sound, Typed
<1>3. /\ j.status \in [Threads -> Statuses] /\ j.current_priority \in [Threads -> Level]
      /\ j.ready_queue \in [Cores -> Lists]
  BY <1>1, <1>2 DEF Becomes
<1>4. /\ j.status[t] = st /\ j.current_priority[t] = pr /\ j.ready_queue[c] = m
      /\ \A u \in Threads \ {t} : /\ j.status[u] = k.status[u]
                                  /\ j.current_priority[u] = k.current_priority[u]
      /\ \A d \in Cores \ {c} : j.ready_queue[d] = k.ready_queue[d]
  BY <1>1, <1>2 DEF Becomes
<1>5. \A d \in Cores : Good(j.ready_queue[d])
  BY <1>1, <1>4 DEF Sound, Queued
<1>6. ASSUME NEW u \in Threads, NEW d \in Cores, NEW p \in Level
      PROVE  Holds(j.ready_queue[d], u, p)
               <=> j.status[u] = "Ready" /\ d = core_id[u] /\ p = j.current_priority[u]
  <2>1. Holds(k.ready_queue[d], u, p)
          <=> k.status[u] = "Ready" /\ d = core_id[u] /\ p = k.current_priority[u]
    BY DEF Sound, Queued
  <2>2. CASE d = c
    <3>1. Holds(m, u, p) <=> IF u = t THEN p \in (IF st = "Ready" THEN {pr} ELSE {})
                             ELSE Holds(l, u, p)
      BY DEF Updates
    <3>. QED
      BY <1>4, <2>1, <2>2, <3>1
  <2>3. CASE d # c
    BY <1>4, <2>1, <2>3
  <2>. QED
    BY <2>2, <2>3
<1>7. ASSUME NEW u \in Threads, j.status[u] # "Unborn"
      PROVE  j.current_priority[u] \in Linked(j.ready_queue[core_id[u]])
  <2>1. core_id[u] \in Cores
    BY KernelAssumption
  <2>2. k.status[u] # "Unborn" => k.current_priority[u] \in Linked(k.ready_queue[core_id[u]])
    BY DEF Sound, Queued
  <2>. QED
    BY <1>1, <1>4, <1>7, <2>1, <2>2
<1>. QED
  BY <1>3, <1>5, <1>6, <1>7 DEF Queued

(* BoostPriority changes the place and the priority of the thread only. *)
LEMMA BoostFields ==
  ASSUME NEW k, DOMAIN k = Fields, NEW t, NEW p
  PROVE  LET j == BoostPriority(k, t, p)
         IN  /\ DOMAIN j = Fields
             /\ \A f \in Fields \ {"ready_queue", "current_priority"} : j[f] = k[f]
BY Zenon DEF BoostPriority

LEMMA BoostWakes ==
  ASSUME NEW k, Sound(k), NEW t \in Threads, NEW p \in Level
  PROVE  Wakes(k, BoostPriority(k, t, p))
<1>. DEFINE l == k.ready_queue[core_id[t]]
            m == IF k.status[t] = "Ready" THEN move(l, t, k.current_priority[t], p)
                 ELSE prepare(l, p)
            j == BoostPriority(k, t, p)
<1>1. DOMAIN k = Fields
  BY DEF Sound, Typed
<1>2. Becomes(k, j, t, k.status[t], p, m)
  <2>1. /\ j.ready_queue = [k.ready_queue EXCEPT ![core_id[t]] = m]
        /\ j.current_priority = [k.current_priority EXCEPT ![t] = p]
    BY <1>1 DEF BoostPriority, Fields
  <2>2. j.status = k.status
    BY <1>1 DEF BoostPriority, Fields
  <2>3. k.status = [k.status EXCEPT ![t] = k.status[t]]
    BY Zenon DEF Sound, Typed
  <2>. QED
    BY <2>1, <2>2, <2>3 DEF Becomes
<1>3. Updates(l, m, t, IF k.status[t] = "Ready" THEN {p} ELSE {}) /\ p \in Linked(m)
  <2>. HIDE DEF l
  <2>1. /\ l \in Lists /\ Good(l) /\ k.current_priority[t] \in Level
        /\ \A r \in Level : Holds(l, t, r) <=> k.status[t] = "Ready" /\ r = k.current_priority[t]
    BY ThreadFacts DEF l
  <2>2. CASE k.status[t] = "Ready"
    BY <2>1, <2>2, MoveUpdates
  <2>3. CASE k.status[t] # "Ready"
    <3>1. /\ m \in Lists /\ Good(m) /\ Linked(m) = Linked(l) \cup {p}
          /\ \A u, r : Holds(m, u, r) <=> Holds(l, u, r)
      BY <2>1, <2>3, PrepareUpdates
    <3>. QED
      BY <2>1, <2>3, <3>1 DEF Updates
  <2>. QED
    BY <2>2, <2>3
<1>. HIDE DEF m
<1>4. /\ j.status \in [Threads -> Statuses] /\ j.current_priority \in [Threads -> Level]
      /\ j.ready_queue \in [Cores -> Lists] /\ Queued(j)
  <2>1. k.status[t] \in Statuses
    BY ThreadFacts
  <2>. HIDE DEF j
  <2>. QED
    BY <1>2, <1>3, <2>1, QueuedChange, Zenon
<1>5. DOMAIN j = Fields /\ \A f \in Fields \ {"ready_queue", "current_priority"} : j[f] = k[f]
  BY <1>1, BoostFields
<1>. HIDE DEF j
<1>6. SameLoop(k, j) /\ StillHalted(k, j) /\ j.status = k.status
  BY <1>5 DEF SameLoop, StillHalted, Fields
<1>7. Typed(j) /\ Placed(j)
  BY <1>4, <1>5, Zenon DEF Sound, Typed, Placed, Fields
<1>. QED
  BY <1>4, <1>6, <1>7 DEF Wakes, Sound, j

-----------------------------------------------------------------------------
(* Operations that leave the threads and their queues alone. *)

(* j differs from k in other fields only. *)
Aside(k, j) == SameThreads(k, j) /\ SameLoop(k, j) /\ StillHalted(k, j)

LEMMA AsideOn ==
  ASSUME NEW k, NEW j, NEW l, Aside(k, j), Aside(j, l)
  PROVE  Aside(k, l)
BY DEF Aside, SameThreads, SameLoop, StillHalted

LEMMA AsideWakes ==
  ASSUME NEW k, NEW j, Sound(k), Aside(k, j)
  PROVE  Wakes(k, j)
BY SameWakes DEF Aside

LEMMA AssertAside ==
  ASSUME NEW k, DOMAIN k = Fields, NEW condition, NEW what
  PROVE  Aside(k, ASSERT(k, condition, what))
BY DEF ASSERT, Aside, SameThreads, SameLoop, StillHalted, Fields

LEMMA PrepareRescheduleAside ==
  ASSUME NEW k, DOMAIN k = Fields
  PROVE  Aside(k, PrepareReschedule(k)) /\ PrepareReschedule(k).reschedule_pending
BY ZenonT(30) DEF PrepareReschedule, Aside, SameThreads, SameLoop, StillHalted, Fields

LEMMA SetResultAside ==
  ASSUME NEW k, DOMAIN k = Fields, NEW t, NEW result, NEW reason
  PROVE  Aside(k, SetWaitSynchronizationResult(k, t, result, reason))
BY DEF SetWaitSynchronizationResult, Aside, SameThreads, SameLoop, StillHalted, Fields

LEMMA WriteResponseAside ==
  ASSUME NEW k, DOMAIN k = Fields, NEW t
  PROVE  Aside(k, WriteResponse(k, t))
<1>. DEFINE j == ASSERT(k, k.status[t] = "WaitHleEvent",
                        "HLE callback of a thread that does not wait for it")
<1>1. Aside(k, j)
  BY AssertAside
<1>. HIDE DEF j
<1>2. Aside(j, [j EXCEPT !.unanswered[t] = FALSE])
  BY <1>1 DEF Aside, SameThreads, SameLoop, StillHalted, Fields
<1>. QED
  BY <1>1, <1>2, AsideOn DEF WriteResponse, j

LEMMA ConnectAside ==
  ASSUME NEW k, DOMAIN k = Fields, NEW p
  PROVE  Aside(k, Connect(k, p))
BY DEF Connect, Aside, SameThreads, SameLoop, StillHalted, Fields

LEMMA GetDelayedHandleAside ==
  ASSUME NEW k, DOMAIN k = Fields, NEW p
  PROVE  Aside(k, GetDelayedHandle(k, p))
<1>. DEFINE j == ASSERT(k, k.registered[p] /\ k.active_sessions[p] < max_sessions[p]
                             /\ k.waiting_threads[p] = << >>, "no session for a delayed client")
<1>1. Aside(k, j)
  BY AssertAside
<1>2. DOMAIN j = Fields
  BY <1>1 DEF Aside, SameThreads
<1>. HIDE DEF j
<1>. QED
  BY <1>1, <1>2, ConnectAside, AsideOn DEF GetDelayedHandle, j

LEMMA WakeUpSignalAside ==
  ASSUME NEW k, DOMAIN k = Fields, NEW t, NEW o
  PROVE  Aside(k, WakeUpSignal(k, t, o))
<1>1. Aside(k, SetWaitSynchronizationResult(k, t, "Success", "Signal"))
  BY SetResultAside
<1>2. ASSUME NEW result
      PROVE  Aside(k, SetWaitSynchronizationResult(
                        ASSERT(k, k.status[t] = "WaitSynchAny",
                               "IPC callback of a thread that does not wait"), t, result, "Signal"))
  <2>. DEFINE j == ASSERT(k, k.status[t] = "WaitSynchAny",
                          "IPC callback of a thread that does not wait")
  <2>1. Aside(k, j)
    BY AssertAside
  <2>2. DOMAIN j = Fields
    BY <2>1 DEF Aside, SameThreads
  <2>. HIDE DEF j
  <2>. QED
    BY <2>1, <2>2, SetResultAside, AsideOn DEF j
<1>3. Aside(k, WriteResponse(k, t))
  BY WriteResponseAside
<1>4. ASSUME NEW p
      PROVE  Aside(k, WriteResponse(GetDelayedHandle(k, p), t))
  <2>. DEFINE j == GetDelayedHandle(k, p)
  <2>1. Aside(k, j)
    BY GetDelayedHandleAside
  <2>2. DOMAIN j = Fields
    BY <2>1 DEF Aside, SameThreads
  <2>. HIDE DEF j
  <2>. QED
    BY <2>1, <2>2, WriteResponseAside, AsideOn DEF j
<1>5. Aside(k, k)
  BY DEF Aside, SameThreads, SameLoop, StillHalted
<1>. QED
  BY <1>1, <1>2, <1>3, <1>4, <1>5 DEF WakeUpSignal

LEMMA ResetPulseAside ==
  ASSUME NEW k, DOMAIN k = Fields, NEW o
  PROVE  Aside(k, ResetPulse(k, o))
BY DEF ResetPulse, Aside, SameThreads, SameLoop, StillHalted, Fields

LEMMA AcquireEventAside ==
  ASSUME NEW k, DOMAIN k = Fields, NEW o
  PROVE  /\ Aside(k, AcquireEvent(k, o)) /\ Aside(k, AcquireTimer(k, o))
         /\ Aside(k, AcquireSemaphore(k, o))
BY DEF AcquireEvent, AcquireTimer, AcquireSemaphore, Aside, SameThreads, SameLoop, StillHalted, Fields

LEMMA AcquireSessionAside ==
  ASSUME NEW k, DOMAIN k = Fields, NEW s
  PROVE  Aside(k, AcquireSession(k, s))
<1>1. Aside(k, k)
  BY DEF Aside, SameThreads, SameLoop, StillHalted
<1>2. Aside(k, ASSERT(k, FALSE, "no pending request"))
  BY AssertAside
<1>3. ASSUME NEW a, NEW b
      PROVE  Aside(k, [k EXCEPT !.currently_handling[s] = a, !.pending_requesting_threads[s] = b])
  BY DEF Aside, SameThreads, SameLoop, StillHalted, Fields
<1>. QED
  BY <1>1, <1>2, <1>3, Zenon DEF AcquireSession

-----------------------------------------------------------------------------
(* Mutexes and waiting. *)

(* The best of some levels is a level. *)
LEMMA MinLevel ==
  ASSUME NEW S \in SUBSET Level, S # {}
  PROVE  Min(S) \in Level
<1>1. S \in SUBSET Nat
  BY LevelFacts
<1>. QED
  BY <1>1, MinProperty, Zenon

(* j differs from k in other fields than the statuses, priorities and queues, and has its types. *)
LEMMA RetypedWakes ==
  ASSUME NEW k, NEW j, Sound(k), Typed(j), SameLoop(k, j), StillHalted(k, j),
         j.status = k.status, j.current_priority = k.current_priority,
         j.ready_queue = k.ready_queue
  PROVE  Wakes(k, j)
<1>1. Queued(j)
  BY DEF Sound, Queued
<1>2. Placed(j)
  BY DEF Sound, Placed, SameLoop
<1>. QED
  BY <1>1, <1>2 DEF Sound, Wakes

LEMMA UpdateThreadPriorityWakes ==
  ASSUME NEW k, Sound(k), NEW t \in Threads
  PROVE  Wakes(k, UpdateThreadPriority(k, t))
<1>. DEFINE S == {k.nominal_priority[t]} \cup {k.priority[m] : m \in k.held_mutexes[t]}
<1>1. S \in SUBSET Level /\ S # {}
  BY ZenonT(30) DEF Sound, Typed
<1>2. Min(S) \in Level
  BY <1>1, MinLevel
<1>. QED
  BY <1>2, BoostWakes DEF UpdateThreadPriority

LEMMA UpdateMutexPriorityWakes ==
  ASSUME NEW k, Sound(k), NEW m \in Mutexes
  PROVE  Wakes(k, UpdateMutexPriority(k, m))
<1>. DEFINE S == {ThreadPrioLowest} \cup {k.current_priority[t] : t \in Members(k.waiting_threads[m])}
            j == [k EXCEPT !.priority[m] = BestWaiter(k, m)]
<1>1. BestWaiter(k, m) \in Level
  <2>1. m \in WaitObjects
    BY DEF WaitObjects
  <2>2. Members(k.waiting_threads[m]) \subseteq Threads
    BY <2>1 DEF Sound, Typed, Members
  <2>3. ThreadPrioLowest \in Level
    BY NumQueuesAssumption DEF ThreadPrioLowest, Level
  <2>4. S \in SUBSET Level /\ S # {}
    BY <2>2, <2>3 DEF Sound, Typed
  <2>. QED
    BY <2>4, MinLevel DEF BestWaiter
<1>2. CASE k.holding_thread[m] = NoThread \/ BestWaiter(k, m) = k.priority[m]
  BY <1>2, WakesItself DEF UpdateMutexPriority
<1>3. CASE ~ (k.holding_thread[m] = NoThread \/ BestWaiter(k, m) = k.priority[m])
  <2>1. PICK p \in Level : p = BestWaiter(k, m)
    BY <1>1
  <2>2. Wakes(k, j)
    <3>1. DOMAIN k = Fields /\ k.priority \in [Mutexes -> Level]
      BY DEF Sound, Typed
    <3>2. /\ DOMAIN j = Fields /\ j.priority = [k.priority EXCEPT ![m] = p]
          /\ \A f \in Fields \ {"priority"} : j[f] = k[f]
      BY <2>1, <3>1 DEF Fields
    <3>3. j.priority \in [Mutexes -> Level]
      BY <3>1, <3>2
    <3>. HIDE DEF j
    <3>4. Typed(j)
      BY <3>2, <3>3, Zenon DEF Sound, Typed, Fields
    <3>. QED
      BY <3>2, <3>4, RetypedWakes DEF SameLoop, StillHalted, Fields
  <2>3. k.holding_thread[m] \in Threads
    BY <1>3 DEF Sound, Typed
  <2>. HIDE DEF j
  <2>4. Wakes(j, UpdateThreadPriority(j, k.holding_thread[m]))
    BY <2>2, <2>3, UpdateThreadPriorityWakes DEF Wakes
  <2>5. UpdateMutexPriority(k, m) = UpdateThreadPriority(j, k.holding_thread[m])
    BY <1>3 DEF UpdateMutexPriority, j
  <2>. QED
    BY <2>2, <2>4, <2>5, WakesOn
<1>. QED
  BY <1>2, <1>3

LEMMA AcquireMutexWakes ==
  ASSUME NEW k, Sound(k), NEW t \in Threads, NEW m \in Mutexes
  PROVE  Wakes(k, AcquireMutex(k, t, m))
<1>. DEFINE j == [k EXCEPT !.priority[m] = k.current_priority[t],
                           !.held_mutexes[t] = @ \cup {m},
                           !.holding_thread[m] = t]
            l == IF k.lock_count[m] = 0 THEN TakeMutex(k, t, m) ELSE k
<1>1. Wakes(k, j)
  <2>1. PICK p \in Level, held \in SUBSET Mutexes :
          p = k.current_priority[t] /\ held = k.held_mutexes[t] \cup {m}
    BY Zenon DEF Sound, Typed
  <2>2. /\ DOMAIN k = Fields /\ k.priority \in [Mutexes -> Level]
        /\ k.held_mutexes \in [Threads -> SUBSET Mutexes]
        /\ k.holding_thread \in [Mutexes -> Threads \cup {NoThread}]
    BY DEF Sound, Typed
  <2>3. /\ DOMAIN j = Fields /\ j.priority = [k.priority EXCEPT ![m] = p]
        /\ j.held_mutexes = [k.held_mutexes EXCEPT ![t] = held]
        /\ j.holding_thread = [k.holding_thread EXCEPT ![m] = t]
        /\ \A f \in Fields \ {"priority", "held_mutexes", "holding_thread"} : j[f] = k[f]
    BY <2>1, <2>2, Zenon DEF Fields
  <2>4. /\ j.priority \in [Mutexes -> Level]
        /\ j.held_mutexes \in [Threads -> SUBSET Mutexes]
        /\ j.holding_thread \in [Mutexes -> Threads \cup {NoThread}]
    BY <2>2, <2>3
  <2>. HIDE DEF j
  <2>5. Typed(j)
    BY <2>3, <2>4, Zenon DEF Sound, Typed, Fields
  <2>. QED
    BY <2>3, <2>5, RetypedWakes DEF SameLoop, StillHalted, Fields
<1>. HIDE DEF j
<1>2. Wakes(k, TakeMutex(k, t, m))
  <2>. DEFINE u == UpdateThreadPriority(j, t)
  <2>1. Wakes(j, u)
    BY <1>1, UpdateThreadPriorityWakes DEF Wakes
  <2>. HIDE DEF u
  <2>2. Wakes(u, PrepareReschedule(u))
    BY <2>1, PrepareRescheduleAside, AsideWakes, Zenon DEF Wakes, Sound, Typed
  <2>3. TakeMutex(k, t, m) = PrepareReschedule(u)
    BY DEF TakeMutex, u, j
  <2>. QED
    BY <1>1, <2>1, <2>2, <2>3, WakesOn
<1>3. Wakes(k, l)
  BY <1>2, WakesItself
<1>. HIDE DEF l
<1>4. Aside(l, [l EXCEPT !.lock_count[m] = @ + 1])
  BY <1>3 DEF Wakes, Sound, Typed, Aside, SameThreads, SameLoop, StillHalted, Fields
<1>5. Wakes(l, [l EXCEPT !.lock_count[m] = @ + 1])
  BY <1>3, <1>4, AsideWakes DEF Wakes
<1>. QED
  BY <1>3, <1>5, WakesOn DEF AcquireMutex, l

LEMMA AcquireWakes ==
  ASSUME NEW k, Sound(k), NEW t \in Threads, NEW o \in WaitObjects
  PROVE  Wakes(k, Acquire(k, t, o))
<1>. DEFINE j == ASSERT(k, ShouldWait(k, t, o) => o \in Semaphores, "object unavailable")
<1>1. Wakes(k, j)
  BY AssertAside, AsideWakes DEF Sound, Typed
<1>. HIDE DEF j
<1>2. Sound(j) /\ DOMAIN j = Fields
  BY <1>1 DEF Wakes, Sound, Typed
<1>3. Wakes(j, AcquireObject(j, t, o))
  <2>1. Wakes(j, AcquireEvent(j, o)) /\ Wakes(j, AcquireTimer(j, o)) /\ Wakes(j, AcquireSemaphore(j, o))
    BY <1>2, AcquireEventAside, AsideWakes
  <2>2. Wakes(j, AcquireSession(j, o))
    BY <1>2, AcquireSessionAside, AsideWakes
  <2>3. Wakes(j, j)
    BY <1>2, WakesItself
  <2>4. o \in Mutexes => Wakes(j, AcquireMutex(j, t, o))
    BY <1>2, AcquireMutexWakes
  <2>. QED
    BY <2>1, <2>2, <2>3, <2>4 DEF AcquireObject, WaitObjects
<1>. QED
  BY <1>1, <1>3, WakesOn DEF Acquire, j

-----------------------------------------------------------------------------
(* Loops. *)

(***************************************************************************)
(* The bodies of the loops of the kernel, each with what it uses besides   *)
(* the kernel and the element: a lemma can be instantiated with a record,  *)
(* but not with an operator.                                               *)
(***************************************************************************)
Body(loop, k, x) ==
  CASE loop.does = "leave" -> RemoveWaitingThread(k, loop.of, x)
    [] loop.does = "join" -> AddWaitingThread(k, loop.of, x)
    [] loop.does = "acquire" -> Acquire(k, loop.of, x)
    [] loop.does = "wake" -> WakeupRound(AssertAllWaiting(k, loop.of), loop.of)
    [] loop.does = "unlock" -> WakeupAllWaitingThreads(Unlocked(k, x), x)
    [] loop.does = "resume" -> ResumeFromWait(k, x)
    [] loop.does = "signal" -> ResumeHighestPriorityThread(k, loop.of, x)
    [] loop.does = "reschedule" -> Reschedule(k, x)
    [] loop.does = "end" -> TerminateProcessThreads(k, x, loop.of)
    [] loop.does = "stop" -> IF x = loop.but \/ owner_process[x] # loop.of THEN k
                             ELSE [Stop(k, x) EXCEPT !.thread_list[loop.on] = Erase(@, x)]
    [] loop.does = "pass" -> IF x \in loop.of THEN UpdateMutexPriority(k, x) ELSE k
    [] loop.does = "create" -> CreateThread(k, x, loop.of[x], ~ (loop.late /\ x = loop.first))

(* The values that a loop over s goes through. *)
States(loop, s, base, f) ==
  [n \in 0 .. Len(s) |-> IF n = 0 THEN base ELSE Body(loop, f[n - 1], s[n])]

LEMMA StatesExist ==
  ASSUME NEW loop, NEW s, Len(s) \in Nat, NEW base
  PROVE  \E f : f = States(loop, s, base, f)
<1>. DEFINE N == Len(s)
            T == {m \in 0 .. N : \E f : /\ f[0] = base
                                        /\ \A i \in 1 .. m : f[i] = Body(loop, f[i - 1], s[i])}
<1>1. 0 \in T
  <2>. DEFINE f == [i \in {0} |-> base]
  <2>1. f[0] = base
    OBVIOUS
  <2>. HIDE DEF f
  <2>. QED
    BY <2>1
<1>2. ASSUME NEW m \in 1 .. N, m - 1 \in T
      PROVE  m \in T
  <2>1. PICK f : f[0] = base /\ \A i \in 1 .. m - 1 : f[i] = Body(loop, f[i - 1], s[i])
    BY <1>2
  <2>. DEFINE g == [i \in 0 .. N |-> IF i < m THEN f[i] ELSE Body(loop, f[m - 1], s[m])]
  <2>2. g[0] = base
    BY <2>1
  <2>3. ASSUME NEW i \in 1 .. m
        PROVE  g[i] = Body(loop, g[i - 1], s[i])
    <3>1. i \in 0 .. N /\ i - 1 \in 0 .. N /\ i - 1 < m /\ g[i - 1] = f[i - 1]
      OBVIOUS
    <3>2. CASE i < m
      <4>1. i \in 1 .. m - 1 /\ g[i] = f[i]
        BY <3>1, <3>2
      <4>. HIDE DEF g
      <4>. QED
        BY <2>1, <3>1, <4>1
    <3>3. CASE i = m
      <4>1. g[i] = Body(loop, f[m - 1], s[m])
        BY <3>1, <3>3
      <4>. HIDE DEF g
      <4>. QED
        BY <3>1, <3>3, <4>1
    <3>. QED
      BY <3>2, <3>3
  <2>. HIDE DEF g
  <2>4. \E h : h[0] = base /\ \A i \in 1 .. m : h[i] = Body(loop, h[i - 1], s[i])
    BY <2>2, <2>3
  <2>. QED
    BY <2>4
<1>3. N \in T
  <2>1. 0 .. N \subseteq T
    <3>. HIDE DEF T, N
    <3>1. N \in Nat
      BY DEF N
    <3>. QED
      BY <1>1, <1>2, <3>1, UpwardInduction
  <2>. QED
    BY <2>1
<1>4. PICK f : f[0] = base /\ \A i \in 1 .. N : f[i] = Body(loop, f[i - 1], s[i])
  BY <1>3
<1>. DEFINE g == [i \in 0 .. N |-> f[i]]
<1>5. ASSUME NEW i \in 0 .. N
      PROVE  g[i] = IF i = 0 THEN base ELSE Body(loop, g[i - 1], s[i])
  <2>1. CASE i = 0
    BY <1>4, <2>1
  <2>2. CASE i # 0
    <3>1. i \in 1 .. N /\ i - 1 \in 0 .. N
      BY <2>2
    <3>2. g[i] = f[i] /\ g[i - 1] = f[i - 1]
      BY <3>1
    <3>. HIDE DEF g
    <3>. QED
      BY <1>4, <2>2, <3>1, <3>2
  <2>. QED
    BY <2>1, <2>2
<1>6. g = [i \in 0 .. N |-> g[i]]
  OBVIOUS
<1>. HIDE DEF g
<1>7. g = States(loop, s, base, g)
  BY <1>5, <1>6, Zenon DEF States
<1>. QED
  BY <1>7

(* A loop whose body wakes threads does. *)
LEMMA LoopWakes ==
  ASSUME NEW loop, NEW s, Len(s) \in Nat, NEW base, Sound(base),
         \A j : \A i \in 1 .. Len(s) : Wakes(base, j) => Wakes(j, Body(loop, j, s[i])),
         NEW f, f = States(loop, s, base, f)
  PROVE  Wakes(base, f[Len(s)])
<1>1. f[0] = base /\ \A i \in 1 .. Len(s) : f[i] = Body(loop, f[i - 1], s[i])
  <2>1. ASSUME NEW i \in 0 .. Len(s)
        PROVE  f[i] = IF i = 0 THEN base ELSE Body(loop, f[i - 1], s[i])
    BY DEF States
  <2>. QED
    BY <2>1
<1>2. \A i \in 1 .. Len(s) : Wakes(f[0], f[i - 1]) => Wakes(f[i - 1], f[i])
  BY <1>1
<1>. QED
  BY <1>1, <1>2, WakesLoop

-----------------------------------------------------------------------------
(* Waiting and waking. *)

LEMMA RelistWakes ==
  ASSUME NEW k, Sound(k), NEW o \in WaitObjects, NEW list \in Seq(Threads),
         NEW j, DOMAIN j = Fields,
         j.waiting_threads = [k.waiting_threads EXCEPT ![o] = list],
         \A f \in Fields \ {"waiting_threads", "pending_mutexes"} : j[f] = k[f]
  PROVE  Wakes(k, j)
<1>1. j.waiting_threads \in [WaitObjects -> Seq(Threads)]
  BY DEF Sound, Typed
<1>2. Typed(j)
  BY <1>1, Zenon DEF Sound, Typed, Fields
<1>. QED
  BY <1>2, RetypedWakes DEF SameLoop, StillHalted, Fields

LEMMA AddWaitingThreadWakes ==
  ASSUME NEW k, Sound(k), NEW t \in Threads, NEW o \in WaitObjects
  PROVE  Wakes(k, AddWaitingThread(k, t, o))
<1>. DEFINE j == ListWaitingThread(k, t, o)
            l == [j EXCEPT !.pending_mutexes[t] = @ \cup {o}]
<1>1. DOMAIN k = Fields /\ k.waiting_threads \in [WaitObjects -> Seq(Threads)]
  BY DEF Sound, Typed
<1>2. Wakes(k, j)
  <2>1. CASE t \in Members(k.waiting_threads[o])
    BY <2>1, WakesItself DEF ListWaitingThread
  <2>2. CASE t \notin Members(k.waiting_threads[o])
    <3>. DEFINE before == k.waiting_threads[o]
    <3>0. before \in Seq(Threads)
      BY <1>1
    <3>1. PICK list \in Seq(Threads) : list = Append(before, t)
      <4>. HIDE DEF before
      <4>1. Append(before, t) \in Seq(Threads)
        BY <3>0
      <4>. QED
        BY <4>1, Zenon
    <3>2. /\ DOMAIN j = Fields
          /\ j.waiting_threads = [k.waiting_threads EXCEPT ![o] = list]
          /\ \A f \in Fields \ {"waiting_threads", "pending_mutexes"} : j[f] = k[f]
      BY <1>1, <2>2, <3>1 DEF ListWaitingThread, Fields
    <3>. HIDE DEF j
    <3>. QED
      BY <3>2, RelistWakes
  <2>. QED
    BY <2>1, <2>2
<1>. HIDE DEF j
<1>3. CASE o \in Mutexes
  <2>1. Wakes(j, l)
    <3>1. Sound(j) /\ DOMAIN j = Fields
      BY <1>2 DEF Wakes, Sound, Typed
    <3>2. Aside(j, l)
      BY <3>1 DEF Aside, SameThreads, SameLoop, StillHalted, Fields
    <3>. QED
      BY <3>1, <3>2, AsideWakes
  <2>. HIDE DEF l
  <2>2. Wakes(l, UpdateMutexPriority(l, o))
    BY <1>3, <2>1, UpdateMutexPriorityWakes DEF Wakes
  <2>3. AddWaitingThread(k, t, o) = UpdateMutexPriority(l, o)
    BY <1>3 DEF AddWaitingThread, l, j
  <2>. QED
    BY <1>2, <2>1, <2>2, <2>3, WakesOn
<1>4. CASE o \notin Mutexes
  BY <1>2, <1>4 DEF AddWaitingThread, j
<1>. QED
  BY <1>3, <1>4

LEMMA RemoveWaitingThreadWakes ==
  ASSUME NEW k, Sound(k), NEW t \in Threads, NEW o \in WaitObjects
  PROVE  Wakes(k, RemoveWaitingThread(k, t, o))
<1>. DEFINE j == UnlistWaitingThread(k, t, o)
            l == [j EXCEPT !.pending_mutexes[t] = @ \ {o}]
<1>1. DOMAIN k = Fields /\ k.waiting_threads \in [WaitObjects -> Seq(Threads)]
  BY DEF Sound, Typed
<1>2. Wakes(k, j)
  <2>1. PICK list \in Seq(Threads) : list = Erase(k.waiting_threads[o], t)
    BY <1>1, EraseType
  <2>2. /\ DOMAIN j = Fields
        /\ j.waiting_threads = [k.waiting_threads EXCEPT ![o] = list]
        /\ \A f \in Fields \ {"waiting_threads", "pending_mutexes"} : j[f] = k[f]
    BY <1>1, <2>1 DEF UnlistWaitingThread, Fields
  <2>. HIDE DEF j
  <2>. QED
    BY <2>2, RelistWakes
<1>. HIDE DEF j
<1>3. CASE o \in Mutexes
  <2>1. Wakes(j, l)
    <3>1. Sound(j) /\ DOMAIN j = Fields
      BY <1>2 DEF Wakes, Sound, Typed
    <3>2. Aside(j, l)
      BY <3>1 DEF Aside, SameThreads, SameLoop, StillHalted, Fields
    <3>. QED
      BY <3>1, <3>2, AsideWakes
  <2>. HIDE DEF l
  <2>2. Wakes(l, UpdateMutexPriority(l, o))
    BY <1>3, <2>1, UpdateMutexPriorityWakes DEF Wakes
  <2>3. RemoveWaitingThread(k, t, o) = UpdateMutexPriority(l, o)
    BY <1>3 DEF RemoveWaitingThread, l, j
  <2>. QED
    BY <1>2, <2>1, <2>2, <2>3, WakesOn
<1>4. CASE o \notin Mutexes
  BY <1>2, <1>4 DEF RemoveWaitingThread, j
<1>. QED
  BY <1>3, <1>4

LEMMA LeaveWaitObjectsWakes ==
  ASSUME NEW k, Sound(k), NEW t \in Threads
  PROVE  Wakes(k, LeaveWaitObjects(k, t))
<1>. DEFINE s == k.wait_objects[t]
            loop == [does |-> "leave", of |-> t]
            F(f) == [n \in 0 .. Len(s) |-> IF n = 0 THEN k ELSE RemoveWaitingThread(f[n - 1], t, s[n])]
            g == CHOOSE f : f = F(f)
            j == g[Len(s)]
<1>1. s \in Seq(WaitObjects) /\ Len(s) \in Nat
  BY DEF Sound, Typed
<1>2. \A l, x : Body(loop, l, x) = RemoveWaitingThread(l, t, x)
  BY DEF Body
<1>. HIDE DEF s, loop
<1>3. \A f : F(f) = States(loop, s, k, f)
  BY <1>2 DEF States
<1>4. g = States(loop, s, k, g)
  <2>. HIDE DEF F
  <2>1. PICK f : f = States(loop, s, k, f)
    BY <1>1, StatesExist, Zenon
  <2>2. f = F(f)
    BY <1>3, <2>1
  <2>3. g = F(g)
    BY <2>2
  <2>. QED
    BY <1>3, <2>3
<1>5. LeaveWaitObjects(k, t) = [j EXCEPT !.wait_objects[t] = << >>]
  BY DEF LeaveWaitObjects, ForEach, s
<1>. HIDE DEF g
<1>6. Wakes(k, j)
  <2>1. ASSUME NEW l, NEW i \in 1 .. Len(s), Wakes(k, l)
        PROVE  Wakes(l, Body(loop, l, s[i]))
    BY <1>1, <1>2, <2>1, RemoveWaitingThreadWakes DEF Wakes
  <2>. QED
    BY <1>1, <1>4, <2>1, LoopWakes
<1>. HIDE DEF j
<1>7. Wakes(j, [j EXCEPT !.wait_objects[t] = << >>])
  <2>. DEFINE l == [j EXCEPT !.wait_objects[t] = << >>]
  <2>1. Sound(j) /\ DOMAIN j = Fields /\ j.wait_objects \in [Threads -> Seq(WaitObjects)]
    BY <1>6 DEF Wakes, Sound, Typed
  <2>2. /\ DOMAIN l = Fields /\ l.wait_objects = [j.wait_objects EXCEPT ![t] = << >>]
        /\ \A f \in Fields \ {"wait_objects"} : l[f] = j[f]
    BY <2>1 DEF Fields
  <2>3. << >> \in Seq(WaitObjects)
    OBVIOUS
  <2>. HIDE DEF l
  <2>4. l.wait_objects \in [Threads -> Seq(WaitObjects)]
    BY <2>1, <2>2, <2>3
  <2>5. Typed(l)
    BY <2>1, <2>2, <2>4, Zenon DEF Sound, Typed, Fields
  <2>6. Wakes(j, l)
    BY <2>1, <2>2, <2>5, RetypedWakes, ZenonT(30) DEF SameLoop, StillHalted, Fields
  <2>. QED
    BY <2>6 DEF l
<1>. QED
  BY <1>5, <1>6, <1>7, WakesOn

LEMMA MakeReadyWakes ==
  ASSUME NEW k, Sound(k), NEW t \in Threads
  PROVE  Wakes(k, MakeReady(k, t))
<1>1. CASE k.status[t] \in WaitingStatus \cup {"Dormant"}
  <2>. DEFINE l == k.ready_queue[core_id[t]]
              m == push_back(l, k.current_priority[t], t)
              j == [k EXCEPT !.wakeup_callback[t] = "none",
                             !.ready_queue[core_id[t]] = push_back(@, k.current_priority[t], t),
                             !.status[t] = "Ready"]
  <2>1. DOMAIN k = Fields
    BY DEF Sound, Typed
  <2>2. /\ DOMAIN j = Fields
        /\ j.status = [k.status EXCEPT ![t] = "Ready"]
        /\ j.ready_queue = [k.ready_queue EXCEPT ![core_id[t]] = m]
        /\ \A f \in Fields \ {"wakeup_callback", "ready_queue", "status"} : j[f] = k[f]
    BY <2>1, Zenon DEF Fields
  <2>3. Becomes(k, j, t, "Ready", k.current_priority[t], m)
    <3>1. k.current_priority = [k.current_priority EXCEPT ![t] = k.current_priority[t]]
      BY Zenon DEF Sound, Typed
    <3>2. j.current_priority = k.current_priority
      BY <2>2 DEF Fields
    <3>. HIDE DEF j, m
    <3>. QED
      BY <2>2, <3>1, <3>2 DEF Becomes
  <2>4. Updates(l, m, t, {k.current_priority[t]}) /\ k.current_priority[t] \in Linked(m)
    <3>1. k.status[t] # "Ready" /\ k.status[t] # "Unborn"
      BY <1>1 DEF WaitingStatus
    <3>2. /\ l \in Lists /\ Good(l) /\ k.current_priority[t] \in Linked(l)
          /\ \A r \in Level : ~ Holds(l, t, r)
      BY <3>1, ThreadFacts DEF Sound, Queued
    <3>. HIDE DEF l
    <3>3. Updates(l, m, t, {k.current_priority[t]})
      BY <3>2, PushUpdates
    <3>. QED
      BY <3>2, <3>3 DEF Updates
  <2>. HIDE DEF j, m
  <2>5. /\ j.status \in [Threads -> Statuses] /\ j.current_priority \in [Threads -> Level]
        /\ j.ready_queue \in [Cores -> Lists] /\ Queued(j)
    <3>1. k.current_priority[t] \in Level /\ "Ready" \in Statuses
      BY ThreadFacts DEF Statuses
    <3>. QED
      BY <2>3, <2>4, <3>1, QueuedChange
  <2>6. Typed(j) /\ SameLoop(k, j) /\ StillHalted(k, j)
    BY <2>2, <2>5, ZenonT(30) DEF Sound, Typed, SameLoop, StillHalted, Fields
  <2>7. /\ j.status[t] = "Ready"
        /\ \A u \in Threads \ {t} : j.status[u] = k.status[u]
    BY <2>2 DEF Sound, Typed
  <2>8. Placed(j)
    <3>1. j.current_thread = k.current_thread
      BY <2>6 DEF SameLoop
    <3>. QED
      BY <2>7, <3>1 DEF Sound, Placed
  <2>9. Aside(j, PrepareReschedule(j)) /\ PrepareReschedule(j).reschedule_pending
    BY <2>6, PrepareRescheduleAside DEF Typed
  <2>10. MakeReady(k, t) = PrepareReschedule(j)
    <3>1. k.status[t] # "Ready"
      BY <1>1 DEF WaitingStatus
    <3>. QED
      BY <1>1, <3>1 DEF MakeReady, j
  <2>. DEFINE r == PrepareReschedule(j)
  <2>11. Wakes(j, r)
    BY <2>5, <2>6, <2>8, <2>9, AsideWakes DEF Sound
  <2>12. r.status = j.status
    BY <2>9 DEF Aside, SameThreads
  <2>. HIDE DEF r
  <2>13. Sound(r) /\ SameLoop(k, r) /\ StillHalted(k, r)
    BY <2>6, <2>11 DEF Wakes, SameLoop, StillHalted
  <2>14. r.reschedule_pending
    BY <2>9 DEF r
  <2>15. Wakes(k, r)
    BY <1>1, <2>7, <2>12, <2>13, <2>14 DEF Wakes
  <2>. QED
    BY <2>10, <2>15 DEF r
<1>2. CASE k.status[t] = "Ready"
  <2>. DEFINE j == ASSERT(k, k.wakeup_callback[t] = "none", "callback not cleared")
  <2>1. MakeReady(k, t) = j
    BY <1>2 DEF MakeReady, WaitingStatus
  <2>2. DOMAIN k = Fields
    BY DEF Sound, Typed
  <2>3. Aside(k, j)
    BY <2>2, AssertAside
  <2>. HIDE DEF j
  <2>. QED
    BY <2>1, <2>3, AsideWakes
<1>3. CASE k.status[t] \notin WaitingStatus \cup {"Dormant", "Ready"}
  BY <1>3, WakesItself DEF MakeReady
<1>. QED
  BY <1>1, <1>2, <1>3

LEMMA ResumeFromWaitWakes ==
  ASSUME NEW k, Sound(k), NEW t \in Threads
  PROVE  Wakes(k, ResumeFromWait(k, t))
<1>. DEFINE j == ASSERT(k, k.wait_objects[t] = << >>, "waking up while waiting for objects")
<1>1. Wakes(k, j)
  BY AssertAside, AsideWakes DEF Sound, Typed
<1>. HIDE DEF j
<1>2. Wakes(j, MakeReady(j, t))
  BY <1>1, MakeReadyWakes DEF Wakes
<1>. QED
  BY <1>1, <1>2, WakesOn DEF ResumeFromWait, j

(* The choice among threads of a list finds one of them. *)
LEMMA FirstMostUrgentListed ==
  ASSUME NEW k, Sound(k), NEW list \in Seq(Threads), NEW places \in SUBSET (1 .. Len(list))
  PROVE  \/ places = {} /\ FirstMostUrgent(k, list, places) = NoThread
         \/ \E i \in places : /\ FirstMostUrgent(k, list, places) = list[i]
                              /\ \A j \in places : k.current_priority[list[i]] <= k.current_priority[list[j]]
<1>. DEFINE cp(i) == k.current_priority[list[i]]
            First(i) == \A j \in places : cp(i) < cp(j) \/ (cp(i) = cp(j) /\ i <= j)
<1>1. CASE places = {}
  BY <1>1 DEF FirstMostUrgent
<1>2. CASE places # {}
  <2>1. \A i \in places : cp(i) \in Nat /\ i \in Nat
    <3>1. \A i \in places : list[i] \in Threads
      OBVIOUS
    <3>2. \A i \in places : cp(i) \in Level
      BY <3>1 DEF Sound, Typed
    <3>. QED
      BY <3>2, LevelFacts
  <2>. HIDE DEF cp
  <2>2. PICK p \in {cp(i) : i \in places} : \A q \in {cp(i) : i \in places} : p <= q
    <3>1. {cp(i) : i \in places} \in SUBSET Nat /\ {cp(i) : i \in places} # {}
      BY <1>2, <2>1
    <3>. QED
      BY <3>1, LeastNat, Zenon
  <2>3. PICK i \in {x \in places : cp(x) = p} : \A j \in {x \in places : cp(x) = p} : i <= j
    <3>1. {x \in places : cp(x) = p} \in SUBSET Nat /\ {x \in places : cp(x) = p} # {}
      BY <2>1, <2>2
    <3>. QED
      BY <3>1, LeastNat, Zenon
  <2>4. First(i) /\ i \in places
    <3>1. i \in places /\ cp(i) = p
      BY <2>3
    <3>2. ASSUME NEW j \in places
          PROVE  cp(i) < cp(j) \/ (cp(i) = cp(j) /\ i <= j)
      <4>1. p <= cp(j)
        BY <2>2
      <4>2. cp(j) = p => i <= j
        BY <2>3
      <4>3. cp(i) \in Nat /\ cp(j) \in Nat
        BY <2>1, <3>1
      <4>. QED
        BY <3>1, <4>1, <4>2, <4>3
    <3>. QED
      BY <3>1, <3>2
  <2>. DEFINE c == CHOOSE x \in places : First(x)
  <2>5. c \in places /\ First(c)
    BY <2>4
  <2>6. FirstMostUrgent(k, list, places) = list[c]
    BY <1>2 DEF FirstMostUrgent, cp
  <2>. HIDE DEF c
  <2>7. \A j \in places : cp(c) <= cp(j)
    BY <2>1, <2>5
  <2>. QED
    BY <2>5, <2>6, <2>7 DEF cp
<1>. QED
  BY <1>1, <1>2

LEMMA AcquireAwaitedWakes ==
  ASSUME NEW k, Sound(k), NEW t \in Threads, NEW o \in WaitObjects
  PROVE  Wakes(k, AcquireAwaited(k, t, o))
<1>. DEFINE s == IF k.status[t] = "WaitSynchAll" THEN k.wait_objects[t] ELSE <<o>>
            loop == [does |-> "acquire", of |-> t]
            F(f) == [n \in 0 .. Len(s) |-> IF n = 0 THEN k ELSE Acquire(f[n - 1], t, s[n])]
            g == CHOOSE f : f = F(f)
<1>1. s \in Seq(WaitObjects) /\ Len(s) \in Nat
  BY DEF Sound, Typed
<1>2. \A l, x : Body(loop, l, x) = Acquire(l, t, x)
  BY DEF Body
<1>3. AcquireAwaited(k, t, o) = g[Len(s)]
  BY DEF AcquireAwaited, ForEach
<1>. HIDE DEF s, loop
<1>4. \A f : F(f) = States(loop, s, k, f)
  BY <1>2 DEF States
<1>5. g = States(loop, s, k, g)
  <2>. HIDE DEF F
  <2>1. PICK f : f = States(loop, s, k, f)
    BY <1>1, StatesExist, Zenon
  <2>2. f = F(f)
    BY <1>4, <2>1
  <2>3. g = F(g)
    BY <2>2
  <2>. QED
    BY <1>4, <2>3
<1>. HIDE DEF g
<1>6. ASSUME NEW l, NEW i \in 1 .. Len(s), Wakes(k, l)
      PROVE  Wakes(l, Body(loop, l, s[i]))
  BY <1>1, <1>2, <1>6, AcquireWakes DEF Wakes
<1>. QED
  BY <1>1, <1>3, <1>5, <1>6, LoopWakes

LEMMA WakeOneWakes ==
  ASSUME NEW k, Sound(k), NEW t \in Threads, NEW o \in WaitObjects
  PROVE  Wakes(k, WakeOne(k, t, o))
<1>. DEFINE a == AcquireAwaited(k, t, o)
            b == WakeUpSignal(a, t, o)
            c == LeaveWaitObjects(b, t)
<1>1. Wakes(k, a)
  BY AcquireAwaitedWakes
<1>. HIDE DEF a
<1>2. Wakes(a, b)
  <2>1. Sound(a) /\ DOMAIN a = Fields
    BY <1>1 DEF Wakes, Sound, Typed
  <2>2. Aside(a, b)
    BY <2>1, WakeUpSignalAside
  <2>. QED
    BY <2>1, <2>2, AsideWakes
<1>. HIDE DEF b
<1>3. Wakes(b, c)
  BY <1>2, LeaveWaitObjectsWakes DEF Wakes
<1>. HIDE DEF c
<1>4. Wakes(c, ResumeFromWait(c, t))
  BY <1>3, ResumeFromWaitWakes DEF Wakes
<1>5. WakeOne(k, t, o) = ResumeFromWait(c, t)
  BY DEF WakeOne, c, b, a
<1>. QED
  BY <1>1, <1>2, <1>3, <1>4, <1>5, WakesOn

LEMMA WakeupRoundWakes ==
  ASSUME NEW k, Sound(k), NEW o \in WaitObjects
  PROVE  Wakes(k, WakeupRound(AssertAllWaiting(k, o), o))
<1>. DEFINE j == AssertAllWaiting(k, o)
            list == j.waiting_threads[o]
            places == {i \in DOMAIN list : ReadyToRun(j, list[i], o)}
            t == GetHighestPriorityReadyThread(j, o)
<1>1. Wakes(k, j)
  BY AssertAside, AsideWakes DEF AssertAllWaiting, Sound, Typed
<1>. HIDE DEF j
<1>2. Sound(j)
  BY <1>1 DEF Wakes
<1>3. list \in Seq(Threads) /\ t = FirstMostUrgent(j, list, places)
  BY <1>2 DEF Sound, Typed, GetHighestPriorityReadyThread
<1>4. t \in Threads \cup {NoThread}
  <2>1. places \in SUBSET (1 .. Len(list))
    BY <1>3
  <2>. HIDE DEF list, places, t
  <2>. QED
    BY <1>2, <1>3, <2>1, FirstMostUrgentListed
<1>5. WakeupRound(j, o) = IF t = NoThread THEN j ELSE WakeOne(j, t, o)
  BY DEF WakeupRound, WakeHighest
<1>. HIDE DEF t
<1>6. Wakes(j, WakeupRound(j, o))
  BY <1>2, <1>4, <1>5, WakesItself, WakeOneWakes
<1>. QED
  BY <1>1, <1>6, WakesOn DEF j

LEMMA WakeupAllWaitingThreadsWakes ==
  ASSUME NEW k, Sound(k), NEW o \in WaitObjects
  PROVE  Wakes(k, WakeupAllWaitingThreads(k, o))
<1>. DEFINE s == <<NoThread>> \o k.waiting_threads[o]
            loop == [does |-> "wake", of |-> o]
            F(f) == [n \in 0 .. Len(s) |->
                       IF n = 0 THEN k ELSE WakeupRound(AssertAllWaiting(f[n - 1], o), o)]
            g == CHOOSE f : f = F(f)
            j == g[Len(s)]
<1>1. Len(s) \in Nat
  <2>1. k.waiting_threads[o] \in Seq(Threads \cup {NoThread})
    BY DEF Sound, Typed
  <2>2. <<NoThread>> \in Seq(Threads \cup {NoThread})
    OBVIOUS
  <2>3. s \in Seq(Threads \cup {NoThread})
    BY <2>1, <2>2
  <2>. QED
    BY <2>3
<1>2. \A l, x : Body(loop, l, x) = WakeupRound(AssertAllWaiting(l, o), o)
  BY DEF Body
<1>3. WakeupAll(k, o) = j
  BY DEF WakeupAll, ForEach
<1>. HIDE DEF s, loop
<1>4. \A f : F(f) = States(loop, s, k, f)
  BY <1>2 DEF States
<1>5. g = States(loop, s, k, g)
  <2>. HIDE DEF F
  <2>1. PICK f : f = States(loop, s, k, f)
    BY <1>1, StatesExist, Zenon
  <2>2. f = F(f)
    BY <1>4, <2>1
  <2>3. g = F(g)
    BY <2>2
  <2>. QED
    BY <1>4, <2>3
<1>. HIDE DEF g
<1>6. ASSUME NEW l, NEW i \in 1 .. Len(s), Wakes(k, l)
      PROVE  Wakes(l, Body(loop, l, s[i]))
  BY <1>2, <1>6, WakeupRoundWakes DEF Wakes
<1>7. Wakes(k, j)
  BY <1>1, <1>5, <1>6, LoopWakes
<1>. HIDE DEF j
<1>8. Wakes(j, ResetPulse(j, o))
  BY <1>7, ResetPulseAside, AsideWakes, Zenon DEF Wakes, Sound, Typed
<1>. QED
  BY <1>3, <1>7, <1>8, WakesOn DEF WakeupAllWaitingThreads

-----------------------------------------------------------------------------
(***************************************************************************)
(* Operations of mutexes, events, semaphores, timers and arbiters.         *)
(***************************************************************************)

(* The fields that neither the lists nor the objects themselves are kept in. *)
Kept ==
  { "status", "current_priority", "ready_queue", "nominal_priority", "current_thread",
    "thread_list", "wakeup_callback_table", "process_running", "threads_reserved",
    "wakeup_events", "ts_wakeups", "timer_events", "interval_delay", "r0", "phase", "todo",
    "lagging", "current_cpu", "executing", "halted", "reschedule_pending" }

LEMMA DataWakes ==
  ASSUME NEW k, Sound(k), NEW j, DOMAIN j = Fields,
         \A f \in Kept : j[f] = k[f],
         j.priority \in [Mutexes -> Level],
         j.held_mutexes \in [Threads -> SUBSET Mutexes],
         j.holding_thread \in [Mutexes -> Threads \cup {NoThread}],
         j.wait_objects \in [Threads -> Seq(WaitObjects)],
         j.waiting_threads \in [WaitObjects -> Seq(Threads)],
         j.arb_waiting \in [Arbiters -> Seq(Threads)]
  PROVE  Wakes(k, j)
<1>1. Typed(j)
  BY DEF Sound, Typed, Kept
<1>. QED
  BY <1>1, RetypedWakes, Zenon DEF SameLoop, StillHalted, Kept

LEMMA UnheldWakes ==
  ASSUME NEW k, Sound(k), NEW m \in Mutexes, NEW t \in Threads
  PROVE  Wakes(k, Unheld(k, m, t))
<1>. DEFINE a == [k EXCEPT !.held_mutexes[t] = @ \ {m}]
            b == UpdateThreadPriority(a, t)
            c == [b EXCEPT !.holding_thread[m] = NoThread]
<1>1. Wakes(k, a)
  <2>1. DOMAIN a = Fields /\ \A f \in Fields \ {"held_mutexes"} : a[f] = k[f]
    BY DEF Sound, Typed, Fields
  <2>2. a.held_mutexes \in [Threads -> SUBSET Mutexes]
    BY DEF Sound, Typed, Fields
  <2>. HIDE DEF a
  <2>3. \A f \in Kept : a[f] = k[f]
    BY <2>1 DEF Fields, Kept
  <2>4. /\ a.priority = k.priority /\ a.holding_thread = k.holding_thread
        /\ a.wait_objects = k.wait_objects /\ a.waiting_threads = k.waiting_threads
        /\ a.arb_waiting = k.arb_waiting
    BY <2>1 DEF Fields
  <2>. QED
    BY <2>1, <2>2, <2>3, <2>4, DataWakes, Zenon DEF Sound, Typed
<1>. HIDE DEF a
<1>2. Wakes(a, b)
  BY <1>1, UpdateThreadPriorityWakes DEF Wakes
<1>. HIDE DEF b
<1>3. Wakes(b, c)
  <2>0. Sound(b)
    BY <1>2 DEF Wakes
  <2>1. DOMAIN c = Fields /\ \A f \in Fields \ {"holding_thread"} : c[f] = b[f]
    BY <2>0 DEF Sound, Typed, Fields
  <2>2. c.holding_thread \in [Mutexes -> Threads \cup {NoThread}]
    BY <2>0 DEF Sound, Typed, Fields
  <2>. HIDE DEF c
  <2>3. \A f \in Kept : c[f] = b[f]
    BY <2>1 DEF Fields, Kept
  <2>4. /\ c.priority = b.priority /\ c.held_mutexes = b.held_mutexes
        /\ c.wait_objects = b.wait_objects /\ c.waiting_threads = b.waiting_threads
        /\ c.arb_waiting = b.arb_waiting
    BY <2>1 DEF Fields
  <2>. QED
    BY <2>0, <2>1, <2>2, <2>3, <2>4, DataWakes, ZenonT(30) DEF Sound, Typed
<1>4. Unheld(k, m, t) = c
  BY DEF Unheld, b, a
<1>. HIDE DEF c
<1>. QED
  BY <1>1, <1>2, <1>3, <1>4, WakesOn

LEMMA MutexIsWaitObject == /\ Mutexes \subseteq WaitObjects /\ Events \subseteq WaitObjects
                           /\ Timers \subseteq WaitObjects /\ Semaphores \subseteq WaitObjects
                           /\ Threads \subseteq WaitObjects /\ Sessions \subseteq WaitObjects
                           /\ Ports \subseteq WaitObjects
BY DEF WaitObjects

(* A change of a count or of a flag. *)
LEMMA CountWakes ==
  ASSUME NEW k, Sound(k), NEW x, NEW v
  PROVE  /\ Wakes(k, [k EXCEPT !.lock_count[x] = v])
         /\ Wakes(k, [k EXCEPT !.signaled[x] = v])
         /\ Wakes(k, [k EXCEPT !.available_count[x] = v])
<1>1. DOMAIN k = Fields
  BY DEF Sound, Typed
<1>2. Aside(k, [k EXCEPT !.lock_count[x] = v])
  BY <1>1 DEF Aside, SameThreads, SameLoop, StillHalted, Fields
<1>3. Aside(k, [k EXCEPT !.signaled[x] = v])
  BY <1>1 DEF Aside, SameThreads, SameLoop, StillHalted, Fields
<1>4. Aside(k, [k EXCEPT !.available_count[x] = v])
  BY <1>1 DEF Aside, SameThreads, SameLoop, StillHalted, Fields
<1>. QED
  BY <1>2, <1>3, <1>4, AsideWakes

LEMMA PrepareRescheduleWakes ==
  ASSUME NEW k, Sound(k)
  PROVE  Wakes(k, PrepareReschedule(k))
BY PrepareRescheduleAside, AsideWakes, Zenon DEF Sound, Typed

LEMMA ReleaseWakes ==
  ASSUME NEW k, Sound(k), NEW t \in Threads, NEW m \in Mutexes
  PROVE  Wakes(k, Release(k, t, m))
<1>0. PICK v : v = k.lock_count[m] - 1
  OBVIOUS
<1>. DEFINE a == [k EXCEPT !.lock_count[m] = v]
            b == Unheld(a, m, t)
            c == WakeupAllWaitingThreads(b, m)
<1>1. Wakes(k, a) /\ Sound(a)
  BY CountWakes, Zenon DEF Wakes
<1>2. a.holding_thread = k.holding_thread
  BY DEF Sound, Typed, Fields
<1>. HIDE DEF a
<1>3. Wakes(a, b) /\ Sound(b)
  BY <1>1, UnheldWakes DEF Wakes
<1>. HIDE DEF b
<1>4. Wakes(b, c) /\ Sound(c)
  BY <1>3, WakeupAllWaitingThreadsWakes, MutexIsWaitObject DEF Wakes
<1>. HIDE DEF c
<1>5. Wakes(c, PrepareReschedule(c))
  BY <1>4, PrepareRescheduleWakes
<1>6. Wakes(k, PrepareReschedule(c))
  BY <1>1, <1>3, <1>4, <1>5, WakesOn
<1>7. CASE k.holding_thread[m] = t
  <2>1. Release(k, t, m) \in {k, a, PrepareReschedule(c)}
    BY <1>0, <1>2, <1>7 DEF Release, Unlock, ReleaseMutexFully, a, b, c
  <2>. QED
    BY <1>1, <1>6, <2>1, WakesItself
<1>8. CASE k.holding_thread[m] # t
  BY <1>8, WakesItself DEF Release
<1>. QED
  BY <1>7, <1>8

LEMMA UnlockedWakes ==
  ASSUME NEW k, Sound(k), NEW m \in Mutexes
  PROVE  Wakes(k, Unlocked(k, m))
<1>. DEFINE j == Unlocked(k, m)
<1>1. DOMAIN j = Fields /\ \A f \in Fields \ {"lock_count", "holding_thread"} : j[f] = k[f]
  BY Zenon DEF Unlocked, Sound, Typed, Fields
<1>2. j.holding_thread \in [Mutexes -> Threads \cup {NoThread}]
  BY DEF Unlocked, Sound, Typed, Fields
<1>. HIDE DEF j
<1>3. \A f \in Kept : j[f] = k[f]
  BY <1>1 DEF Fields, Kept
<1>4. /\ j.priority = k.priority /\ j.held_mutexes = k.held_mutexes
      /\ j.wait_objects = k.wait_objects /\ j.waiting_threads = k.waiting_threads
      /\ j.arb_waiting = k.arb_waiting
  BY <1>1 DEF Fields
<1>5. Wakes(k, j)
  BY <1>1, <1>2, <1>3, <1>4, DataWakes, Zenon DEF Sound, Typed
<1>. QED
  BY <1>5 DEF j

LEMMA ReleaseThreadMutexesWakes ==
  ASSUME NEW k, Sound(k), NEW t \in Threads
  PROVE  Wakes(k, ReleaseThreadMutexes(k, t))
<1>. DEFINE s == EraseIn(MutexOrder, Mutexes \ k.held_mutexes[t])
            loop == [does |-> "unlock"]
            F(f) == [n \in 0 .. Len(s) |->
                       IF n = 0 THEN k ELSE WakeupAllWaitingThreads(Unlocked(f[n - 1], s[n]), s[n])]
            g == CHOOSE f : f = F(f)
            a == g[Len(s)]
            b == [a EXCEPT !.held_mutexes[t] = {}]
<1>1. s \in Seq(Mutexes) /\ Len(s) \in Nat
  <2>1. s \in Seq(Mutexes)
    BY EraseInType, KernelAssumption
  <2>. HIDE DEF s
  <2>. QED
    BY <2>1
<1>2. \A l, x : Body(loop, l, x) = WakeupAllWaitingThreads(Unlocked(l, x), x)
  BY DEF Body
<1>3. ReleaseThreadMutexes(k, t) = b
  BY DEF ReleaseThreadMutexes, ForEach
<1>. HIDE DEF s, loop
<1>4. \A f : F(f) = States(loop, s, k, f)
  BY <1>2 DEF States
<1>5. g = States(loop, s, k, g)
  <2>. HIDE DEF F
  <2>1. PICK f : f = States(loop, s, k, f)
    BY <1>1, StatesExist, Zenon
  <2>2. f = F(f)
    BY <1>4, <2>1
  <2>3. g = F(g)
    BY <2>2
  <2>. QED
    BY <1>4, <2>3
<1>. HIDE DEF g
<1>6. ASSUME NEW l, NEW i \in 1 .. Len(s), Wakes(k, l)
      PROVE  Wakes(l, Body(loop, l, s[i]))
  <2>1. s[i] \in Mutexes /\ Sound(l)
    BY <1>1, <1>6 DEF Wakes
  <2>2. Wakes(l, Unlocked(l, s[i]))
    BY <2>1, UnlockedWakes
  <2>3. Wakes(Unlocked(l, s[i]), WakeupAllWaitingThreads(Unlocked(l, s[i]), s[i]))
    BY <2>1, <2>2, WakeupAllWaitingThreadsWakes, MutexIsWaitObject DEF Wakes
  <2>. QED
    BY <1>2, <2>2, <2>3, WakesOn
<1>7. Wakes(k, a)
  BY <1>1, <1>5, <1>6, LoopWakes
<1>. HIDE DEF a
<1>8. Wakes(a, b)
  <2>0. Sound(a)
    BY <1>7 DEF Wakes
  <2>1. DOMAIN b = Fields /\ \A f \in Fields \ {"held_mutexes"} : b[f] = a[f]
    BY <2>0 DEF Sound, Typed, Fields
  <2>2. b.held_mutexes \in [Threads -> SUBSET Mutexes]
    BY <2>0 DEF Sound, Typed, Fields
  <2>. HIDE DEF b
  <2>3. \A f \in Kept : b[f] = a[f]
    BY <2>1 DEF Fields, Kept
  <2>4. /\ b.priority = a.priority /\ b.holding_thread = a.holding_thread
        /\ b.wait_objects = a.wait_objects /\ b.waiting_threads = a.waiting_threads
        /\ b.arb_waiting = a.arb_waiting
    BY <2>1 DEF Fields
  <2>. QED
    BY <2>0, <2>1, <2>2, <2>3, <2>4, DataWakes, ZenonT(30) DEF Sound, Typed
<1>. QED
  BY <1>3, <1>7, <1>8, WakesOn

LEMMA SignalWakes ==
  ASSUME NEW k, Sound(k), NEW o \in Events \cup Timers
  PROVE  Wakes(k, Signal(k, o))
<1>. DEFINE j == [k EXCEPT !.signaled[o] = TRUE]
<1>1. Wakes(k, j) /\ Sound(j)
  BY CountWakes, Zenon DEF Wakes
<1>. HIDE DEF j
<1>2. Wakes(j, WakeupAllWaitingThreads(j, o))
  BY <1>1, WakeupAllWaitingThreadsWakes, MutexIsWaitObject
<1>. QED
  BY <1>1, <1>2, WakesOn DEF Signal, j

LEMMA ReleaseSemaphoreCountWakes ==
  ASSUME NEW k, Sound(k), NEW s \in Semaphores, NEW n
  PROVE  Wakes(k, ReleaseSemaphoreCount(k, s, n))
<1>0. PICK v : v = k.available_count[s] + n
  OBVIOUS
<1>. DEFINE j == [k EXCEPT !.available_count[s] = v]
<1>1. Wakes(k, j) /\ Sound(j)
  BY CountWakes, Zenon DEF Wakes
<1>. HIDE DEF j
<1>2. Wakes(j, WakeupAllWaitingThreads(j, s))
  BY <1>1, WakeupAllWaitingThreadsWakes, MutexIsWaitObject
<1>. QED
  BY <1>0, <1>1, <1>2, WakesOn DEF ReleaseSemaphoreCount, j

(* A new list of an arbiter. *)
LEMMA ArbitersWake ==
  ASSUME NEW k, Sound(k), NEW a \in Arbiters, NEW list \in Seq(Threads)
  PROVE  Wakes(k, [k EXCEPT !.arb_waiting[a] = list])
<1>. DEFINE j == [k EXCEPT !.arb_waiting[a] = list]
<1>1. DOMAIN j = Fields /\ \A f \in Fields \ {"arb_waiting"} : j[f] = k[f]
  BY DEF Sound, Typed, Fields
<1>2. j.arb_waiting \in [Arbiters -> Seq(Threads)]
  BY DEF Sound, Typed, Fields
<1>. HIDE DEF j
<1>3. \A f \in Kept : j[f] = k[f]
  BY <1>1 DEF Fields, Kept
<1>4. /\ j.priority = k.priority /\ j.held_mutexes = k.held_mutexes
      /\ j.wait_objects = k.wait_objects /\ j.waiting_threads = k.waiting_threads
      /\ j.holding_thread = k.holding_thread
  BY <1>1 DEF Fields
<1>5. Wakes(k, j)
  BY <1>1, <1>2, <1>3, <1>4, DataWakes, Zenon DEF Sound, Typed
<1>. QED
  BY <1>5 DEF j

LEMMA ArbiterLists ==
  ASSUME NEW k, Sound(k), NEW a \in Arbiters, NEW address
  PROVE  Matching(k, a, address) \in Seq(Threads) /\ Others(k, a, address) \in Seq(Threads)
<1>1. k.arb_waiting[a] \in Seq(Threads)
  BY DEF Sound, Typed
<1>. QED
  BY <1>1, EraseInType DEF Matching, Others

LEMMA AssertArbitratedWakes ==
  ASSUME NEW k, Sound(k), NEW a
  PROVE  Wakes(k, AssertArbitrated(k, a)) /\ AssertArbitrated(k, a).arb_waiting = k.arb_waiting
<1>1. Aside(k, AssertArbitrated(k, a))
  BY AssertAside, Zenon DEF AssertArbitrated, Sound, Typed
<1>. QED
  BY <1>1, AsideWakes DEF Aside, SameThreads

LEMMA ResumeAllThreadsWakes ==
  ASSUME NEW k, Sound(k), NEW a \in Arbiters, NEW address
  PROVE  Wakes(k, ResumeAllThreads(k, a, address))
<1>. DEFINE s == Matching(k, a, address)
            others == Others(k, a, address)
            base == AssertArbitrated(k, a)
            loop == [does |-> "resume"]
            F(f) == [n \in 0 .. Len(s) |->
                       IF n = 0 THEN base ELSE ResumeFromWait(f[n - 1], s[n])]
            g == CHOOSE f : f = F(f)
            b == g[Len(s)]
            c == [b EXCEPT !.arb_waiting[a] = others]
<1>0. s \in Seq(Threads) /\ others \in Seq(Threads)
  BY ArbiterLists
<1>1. Wakes(k, base) /\ Sound(base)
  BY AssertArbitratedWakes DEF Wakes
<1>2. \A l, x : Body(loop, l, x) = ResumeFromWait(l, x)
  BY DEF Body
<1>3. ResumeAllThreads(k, a, address) = c
  BY DEF ResumeAllThreads, ForEach
<1>. HIDE DEF s, loop, base, others
<1>4. \A f : F(f) = States(loop, s, base, f)
  BY <1>2 DEF States
<1>5. g = States(loop, s, base, g)
  <2>. HIDE DEF F
  <2>0. Len(s) \in Nat
    BY <1>0
  <2>1. PICK f : f = States(loop, s, base, f)
    BY <2>0, StatesExist, Zenon
  <2>2. f = F(f)
    BY <1>4, <2>1
  <2>3. g = F(g)
    BY <2>2
  <2>. QED
    BY <1>4, <2>3
<1>. HIDE DEF g
<1>6. ASSUME NEW l, NEW i \in 1 .. Len(s), Wakes(base, l)
      PROVE  Wakes(l, Body(loop, l, s[i]))
  BY <1>0, <1>2, <1>6, ResumeFromWaitWakes DEF Wakes
<1>7. Wakes(base, b)
  BY <1>0, <1>1, <1>5, <1>6, LoopWakes
<1>. HIDE DEF b
<1>8. Wakes(b, c)
  BY <1>0, <1>7, ArbitersWake DEF Wakes
<1>. QED
  BY <1>1, <1>3, <1>7, <1>8, WakesOn

LEMMA ResumeHighestPriorityThreadWakes ==
  ASSUME NEW k, Sound(k), NEW a \in Arbiters, NEW address
  PROVE  Wakes(k, ResumeHighestPriorityThread(k, a, address))
<1>. DEFINE list == Matching(k, a, address)
            t == FirstMostUrgent(k, list, DOMAIN list)
            j == AssertArbitrated(k, a)
            rest == Others(j, a, address) \o Erase(Matching(j, a, address), t)
            b == ResumeFromWait(j, t)
            c == [b EXCEPT !.arb_waiting[a] = rest]
<1>1. t \in Threads \cup {NoThread}
  <2>1. list \in Seq(Threads)
    BY ArbiterLists
  <2>. HIDE DEF list
  <2>2. DOMAIN list \in SUBSET (1 .. Len(list))
    BY <2>1
  <2>. QED
    BY <2>1, <2>2, FirstMostUrgentListed
<1>2. Wakes(k, j) /\ Sound(j)
  BY AssertArbitratedWakes DEF Wakes
<1>3. ResumeHighestPriorityThread(k, a, address) = IF t = NoThread THEN j ELSE c
  BY DEF ResumeHighestPriorityThread, ResumeArbitrated
<1>. HIDE DEF t, j
<1>4. rest \in Seq(Threads)
  <2>1. Others(j, a, address) \in Seq(Threads) /\ Matching(j, a, address) \in Seq(Threads)
    BY <1>2, ArbiterLists
  <2>2. Erase(Matching(j, a, address), t) \in Seq(Threads)
    BY <2>1, EraseType
  <2>. QED
    BY <2>1, <2>2
<1>. HIDE DEF rest
<1>5. ASSUME t \in Threads
      PROVE  Wakes(j, c)
  <2>1. Wakes(j, b) /\ Sound(b)
    BY <1>2, <1>5, ResumeFromWaitWakes DEF Wakes
  <2>. HIDE DEF b
  <2>2. Wakes(b, c)
    BY <1>4, <2>1, ArbitersWake
  <2>. QED
    BY <2>1, <2>2, WakesOn
<1>. HIDE DEF c
<1>. QED
  BY <1>1, <1>2, <1>3, <1>5, WakesOn

(* WaitThread and the other ways in which a thread that is not queued starts to wait. *)
LEMMA StatusChange ==
  ASSUME NEW k, Sound(k), NEW t \in Threads, k.status[t] \notin {"Ready", "Unborn"},
         NEW st \in WaitingStatus \cup {"Dead"}
  PROVE  Sound([k EXCEPT !.status[t] = st])
<1>. DEFINE j == [k EXCEPT !.status[t] = st]
<1>1. DOMAIN j = Fields /\ \A f \in Fields \ {"status"} : j[f] = k[f]
  BY DEF Sound, Typed, Fields
<1>2. j.status = [k.status EXCEPT ![t] = st]
  BY DEF Sound, Typed, Fields
<1>3. /\ j.status \in [Threads -> Statuses] /\ j.status[t] = st
      /\ st # "Ready" /\ st # "Unborn" /\ st # "Running"
      /\ \A u \in Threads \ {t} : j.status[u] = k.status[u]
  BY <1>2 DEF Sound, Typed, Statuses, WaitingStatus
<1>. HIDE DEF j
<1>4. Typed(j)
  BY <1>1, <1>3, ZenonT(30) DEF Sound, Typed, Fields
<1>5. /\ j.current_priority = k.current_priority /\ j.ready_queue = k.ready_queue
      /\ j.current_thread = k.current_thread
  BY <1>1 DEF Fields
<1>6. Queued(j)
  BY <1>3, <1>5 DEF Sound, Queued
<1>7. Placed(j)
  BY <1>3, <1>5 DEF Sound, Placed
<1>. QED
  BY <1>4, <1>6, <1>7 DEF Sound, j

-----------------------------------------------------------------------------
(***************************************************************************)
(* Threads that end, timeouts and timers.  j follows k by operations that  *)
(* wake threads and end those in X.                                        *)
(***************************************************************************)
SamePlace(k, j) ==
  /\ j.current_thread = k.current_thread
  /\ j.phase = k.phase /\ j.todo = k.todo /\ j.lagging = k.lagging
  /\ j.current_cpu = k.current_cpu /\ j.executing = k.executing

(* The threads that a core lists. *)
Listed(k) == {t \in Threads : \E c \in Cores : OccursIn(t, k.thread_list[c])}

Moves(k, j, X) ==
  /\ Sound(j) /\ SamePlace(k, j) /\ StillHalted(k, j) /\ Listed(j) \subseteq Listed(k)
  /\ \A t \in Threads :
       \/ j.status[t] = k.status[t]
       \/ /\ k.status[t] \in WaitingStatus \cup {"Dormant"} /\ j.status[t] = "Ready"
          /\ j.reschedule_pending
       \/ t \in X /\ k.status[t] # "Unborn" /\ j.status[t] = "Dead"

LEMMA WakesMoves ==
  ASSUME NEW k, NEW j, Wakes(k, j), NEW X
  PROVE  Moves(k, j, X)
BY DEF Wakes, Moves, SameLoop, SamePlace, Listed

LEMMA MovesOn ==
  ASSUME NEW k, NEW j, NEW l, NEW X, Moves(k, j, X), Moves(j, l, X)
  PROVE  Moves(k, l, X)
<1>1. SamePlace(k, l)
  BY DEF Moves, SamePlace
<1>2. StillHalted(k, l)
  BY DEF Moves, StillHalted
<1>3. ASSUME NEW t \in Threads
      PROVE  \/ l.status[t] = k.status[t]
             \/ /\ k.status[t] \in WaitingStatus \cup {"Dormant"} /\ l.status[t] = "Ready"
                /\ l.reschedule_pending
             \/ t \in X /\ k.status[t] # "Unborn" /\ l.status[t] = "Dead"
  <2>1. /\ "Unborn" \notin WaitingStatus \cup {"Dormant"}
        /\ "Ready" \notin WaitingStatus \cup {"Dormant"}
        /\ "Dead" \notin WaitingStatus \cup {"Dormant"}
    BY DEF WaitingStatus
  <2>. QED
    BY <2>1 DEF Moves, StillHalted
<1>4. Listed(l) \subseteq Listed(k)
  BY DEF Moves
<1>. QED
  BY <1>1, <1>2, <1>3, <1>4 DEF Moves

(* A larger set of threads that may end. *)
LEMMA MovesMore ==
  ASSUME NEW k, NEW j, NEW X, NEW Y, Moves(k, j, X), X \subseteq Y
  PROVE  Moves(k, j, Y)
BY DEF Moves

(* Changes of the counts of events and of the lists of threads. *)
Books == {"wakeup_events", "wakeup_callback_table", "timer_events", "interval_delay",
          "threads_reserved", "process_running", "r0", "woken_by", "ts_wakeups", "fault"}

LEMMA BooksMove ==
  ASSUME NEW k, Sound(k), NEW j, DOMAIN j = Fields, \A f \in Fields \ Books : j[f] = k[f], NEW X
  PROVE  Moves(k, j, X)
<1>1. SameThreads(k, j)
  BY ZenonT(30) DEF Sound, Typed, SameThreads, Fields, Books
<1>2. Sound(j)
  BY <1>1, SameSound
<1>. QED
  BY <1>1, <1>2 DEF Moves, SamePlace, StillHalted, SameThreads, Listed, Fields, Books

LEMMA WithoutWakeupMoves ==
  ASSUME NEW k, Sound(k), NEW t, NEW X
  PROVE  Moves(k, WithoutWakeup(k, t), X)
<1>. DEFINE j == WithoutWakeup(k, t)
<1>1. DOMAIN j = Fields /\ \A f \in Fields \ Books : j[f] = k[f]
  BY Zenon DEF WithoutWakeup, Sound, Typed, Fields, Books
<1>. QED
  BY <1>1, BooksMove

LEMMA ReleaseThreadCountMoves ==
  ASSUME NEW k, Sound(k), NEW t, NEW X
  PROVE  Moves(k, ReleaseThreadCount(k, t), X)
<1>. DEFINE j == ReleaseThreadCount(k, t)
<1>1. DOMAIN j = Fields /\ \A f \in Fields \ Books : j[f] = k[f]
  BY DEF ReleaseThreadCount, Sound, Typed, Fields, Books
<1>. QED
  BY <1>1, BooksMove

LEMMA WakeAfterDelayMoves ==
  ASSUME NEW k, Sound(k), NEW t, NEW timeout, NEW X
  PROVE  Moves(k, WakeAfterDelay(k, t, timeout), X)
<1>. DEFINE j == WakeAfterDelay(k, t, timeout)
<1>1. DOMAIN j = Fields /\ \A f \in Fields \ Books : j[f] = k[f]
  BY DEF WakeAfterDelay, Sound, Typed, Fields, Books
<1>. QED
  BY <1>1, BooksMove

LEMMA SignalTimerMoves ==
  ASSUME NEW k, Sound(k), NEW tm \in Timers, NEW X
  PROVE  Moves(k, SignalTimer(k, tm), X)
<1>. DEFINE j == Signal(k, tm)
            l == Rearm(j, tm)
<1>1. Wakes(k, j)
  BY SignalWakes
<1>2. Moves(k, j, X)
  BY <1>1, WakesMoves
<1>. HIDE DEF j
<1>3. Sound(j)
  BY <1>1 DEF Wakes
<1>4. DOMAIN l = Fields /\ \A f \in Fields \ Books : l[f] = j[f]
  BY <1>3 DEF Rearm, Sound, Typed, Fields, Books
<1>5. Moves(j, l, X)
  BY <1>3, <1>4, BooksMove
<1>6. SignalTimer(k, tm) = l
  BY DEF SignalTimer, j
<1>. QED
  BY <1>2, <1>5, <1>6, MovesOn

LEMMA SetTimerMoves ==
  ASSUME NEW k, Sound(k), NEW tm \in Timers, NEW initial, NEW interval, NEW X
  PROVE  Moves(k, SetTimer(k, tm, initial, interval), X) /\ Moves(k, Cancel(k, tm), X)
<1>. DEFINE j == Cancel(k, tm)
            l == [j EXCEPT !.interval_delay[tm] = interval]
            m == [l EXCEPT !.timer_events[tm][l.current_cpu] = @ + 1]
<1>1. DOMAIN j = Fields /\ \A f \in Fields \ Books : j[f] = k[f]
  BY DEF Cancel, Sound, Typed, Fields, Books
<1>. HIDE DEF j
<1>2. DOMAIN l = Fields /\ \A f \in Fields \ Books : l[f] = k[f]
  BY <1>1 DEF Fields, Books
<1>. HIDE DEF l
<1>3. DOMAIN m = Fields /\ \A f \in Fields \ Books : m[f] = k[f]
  BY <1>2 DEF Fields, Books
<1>. HIDE DEF m
<1>4. Moves(k, j, X) /\ Moves(k, l, X) /\ Moves(k, m, X) /\ Sound(l)
  BY <1>1, <1>2, <1>3, BooksMove DEF Moves
<1>5. Moves(l, SignalTimer(l, tm), X)
  BY <1>4, SignalTimerMoves
<1>6. Moves(k, SignalTimer(l, tm), X)
  BY <1>4, <1>5, MovesOn
<1>7. SetTimer(k, tm, initial, interval) \in {m, SignalTimer(l, tm)}
  BY DEF SetTimer, StartTimer, j, l, m
<1>. QED
  BY <1>4, <1>6, <1>7 DEF j

(* A thread leaves the ready queue and is dead. *)
LEMMA DeadMoves ==
  ASSUME NEW k, Sound(k), NEW t \in Threads, k.status[t] # "Unborn"
  PROVE  Moves(k, [Unqueued(k, t) EXCEPT !.status[t] = "Dead"], {t})
<1>. DEFINE l == k.ready_queue[core_id[t]]
            p == k.current_priority[t]
            m == IF k.status[t] = "Ready" THEN remove(l, p, t) ELSE l
            j == [Unqueued(k, t) EXCEPT !.status[t] = "Dead"]
<1>1. DOMAIN k = Fields /\ p \in Level /\ core_id[t] \in Cores
  BY ThreadFacts, Zenon DEF Sound, Typed
<1>2. /\ DOMAIN j = Fields
      /\ j.status = [k.status EXCEPT ![t] = "Dead"]
      /\ \A f \in Fields \ {"ready_queue", "status"} : j[f] = k[f]
  BY <1>1 DEF Unqueued, Fields
<1>3. j.ready_queue = [k.ready_queue EXCEPT ![core_id[t]] = m]
  <2>1. CASE k.status[t] = "Ready"
    BY <1>1, <2>1 DEF Unqueued, Fields
  <2>2. CASE k.status[t] # "Ready"
    <3>1. k.ready_queue = [k.ready_queue EXCEPT ![core_id[t]] = l]
      BY <1>1, Zenon DEF Sound, Typed
    <3>2. j.ready_queue = k.ready_queue
      BY <1>1, <2>2 DEF Unqueued, Fields
    <3>. QED
      BY <2>2, <3>1, <3>2
  <2>. QED
    BY <2>1, <2>2
<1>4. Becomes(k, j, t, "Dead", p, m)
  <2>1. k.current_priority = [k.current_priority EXCEPT ![t] = k.current_priority[t]]
    BY Zenon DEF Sound, Typed
  <2>2. j.current_priority = k.current_priority
    BY <1>2 DEF Fields
  <2>. HIDE DEF j, m
  <2>. QED
    BY <1>2, <1>3, <2>1, <2>2 DEF Becomes
<1>5. Updates(l, m, t, {}) /\ p \in Linked(m)
  <2>1. /\ l \in Lists /\ Good(l) /\ p \in Linked(l)
        /\ \A r \in Level : Holds(l, t, r) <=> k.status[t] = "Ready" /\ r = p
    BY ThreadFacts DEF Sound, Queued
  <2>2. Updates(l, m, t, {})
    <3>. HIDE DEF l, p
    <3>1. CASE k.status[t] = "Ready"
      BY <1>1, <2>1, <3>1, RemoveUpdates
    <3>2. CASE k.status[t] # "Ready"
      BY <2>1, <3>2 DEF Updates
    <3>. QED
      BY <3>1, <3>2
  <2>. QED
    BY <2>1, <2>2, Zenon DEF Updates
<1>. HIDE DEF j, m
<1>6. /\ j.status \in [Threads -> Statuses] /\ j.current_priority \in [Threads -> Level]
      /\ j.ready_queue \in [Cores -> Lists] /\ Queued(j)
  <2>1. "Dead" \in Statuses
    BY DEF Statuses
  <2>. QED
    BY <1>1, <1>4, <1>5, <2>1, QueuedChange, Zenon
<1>7. Typed(j) /\ SamePlace(k, j) /\ StillHalted(k, j) /\ j.thread_list = k.thread_list
  BY <1>2, <1>6, ZenonT(30) DEF Sound, Typed, SamePlace, StillHalted, Fields
<1>8. /\ j.status[t] = "Dead"
      /\ \A u \in Threads \ {t} : j.status[u] = k.status[u]
  BY <1>2 DEF Sound, Typed
<1>9. Placed(j)
  BY <1>7, <1>8 DEF Sound, Placed, SamePlace
<1>. QED
  BY <1>6, <1>7, <1>8, <1>9 DEF Moves, Sound, Listed, j

LEMMA StopMoves ==
  ASSUME NEW k, Sound(k), NEW t \in Threads, k.status[t] # "Unborn"
  PROVE  Moves(k, Stop(k, t), {t})
<1>. DEFINE a == WithoutWakeup(k, t)
            b == [Unqueued(a, t) EXCEPT !.status[t] = "Dead"]
            c == WakeupAllWaitingThreads(b, t)
            d == LeaveWaitObjects(c, t)
            e == ReleaseThreadMutexes(d, t)
            f == ReleaseThreadCount(e, t)
<1>1. Moves(k, a, {t}) /\ Sound(a) /\ a.status[t] # "Unborn"
  <2>1. Moves(k, a, {t})
    BY WithoutWakeupMoves
  <2>2. a.status = k.status
    BY DEF WithoutWakeup, Sound, Typed, Fields
  <2>. QED
    BY <2>1, <2>2 DEF Moves
<1>. HIDE DEF a
<1>2. Moves(a, b, {t}) /\ Sound(b)
  BY <1>1, DeadMoves DEF Moves
<1>. HIDE DEF b
<1>3. Wakes(b, c) /\ Sound(c)
  BY <1>2, WakeupAllWaitingThreadsWakes, MutexIsWaitObject DEF Wakes
<1>. HIDE DEF c
<1>4. Wakes(c, d) /\ Sound(d)
  BY <1>3, LeaveWaitObjectsWakes DEF Wakes
<1>. HIDE DEF d
<1>5. Wakes(d, e) /\ Sound(e)
  BY <1>4, ReleaseThreadMutexesWakes DEF Wakes
<1>. HIDE DEF e
<1>6. Moves(e, f, {t})
  BY <1>5, ReleaseThreadCountMoves
<1>7. Stop(k, t) = f
  BY DEF Stop, Die, a, b, c, d, e
<1>. HIDE DEF f
<1>8. Moves(b, c, {t}) /\ Moves(c, d, {t}) /\ Moves(d, e, {t})
  BY <1>3, <1>4, <1>5, WakesMoves
<1>9. Moves(k, d, {t})
  BY <1>1, <1>2, <1>8, MovesOn
<1>. QED
  BY <1>6, <1>7, <1>8, <1>9, MovesOn

LEMMA WakeUpTimeoutWakes ==
  ASSUME NEW k, Sound(k), NEW t \in Threads
  PROVE  Wakes(k, WakeUpTimeout(k, t))
<1>0. DOMAIN k = Fields
  BY DEF Sound, Typed
<1>. DEFINE lists == [a \in Arbiters |-> Erase(k.arb_waiting[a], t)]
            j == [k EXCEPT !.arb_waiting = lists]
<1>1. Wakes(k, j)
  <2>1. DOMAIN j = Fields /\ \A f \in Fields \ {"arb_waiting"} : j[f] = k[f]
    BY DEF Sound, Typed, Fields
  <2>2. j.arb_waiting = lists
    BY <1>0 DEF Fields
  <2>3. lists \in [Arbiters -> Seq(Threads)]
    <3>1. ASSUME NEW a \in Arbiters
          PROVE  Erase(k.arb_waiting[a], t) \in Seq(Threads)
      BY EraseType DEF Sound, Typed
    <3>. QED
      BY <3>1
  <2>. HIDE DEF j, lists
  <2>4. \A f \in Kept : j[f] = k[f]
    BY <2>1 DEF Fields, Kept
  <2>5. /\ j.priority = k.priority /\ j.held_mutexes = k.held_mutexes
        /\ j.wait_objects = k.wait_objects /\ j.waiting_threads = k.waiting_threads
        /\ j.holding_thread = k.holding_thread
    BY <2>1 DEF Fields
  <2>. QED
    BY <2>1, <2>2, <2>3, <2>4, <2>5, DataWakes, Zenon DEF Sound, Typed
<1>2. Wakes(k, SetWaitSynchronizationResult(k, t, "Timeout", "Timeout"))
  BY <1>0, SetResultAside, AsideWakes
<1>3. Wakes(k, ASSERT(k, FALSE, "timeout of an IPC wait"))
  BY <1>0, AssertAside, AsideWakes
<1>4. Wakes(k, WriteResponse(k, t))
  BY <1>0, WriteResponseAside, AsideWakes
<1>5. WakeUpTimeout(k, t) \in {j, k, SetWaitSynchronizationResult(k, t, "Timeout", "Timeout"),
                               ASSERT(k, FALSE, "timeout of an IPC wait"), WriteResponse(k, t)}
  <2>1. CASE k.wakeup_callback[t] \in {"sync", "arb", "ipc", "hle", "async"}
    BY <2>1 DEF WakeUpTimeout
  <2>2. CASE k.wakeup_callback[t] \notin {"sync", "arb", "ipc", "hle", "async"}
    BY <2>2 DEF WakeUpTimeout
  <2>. QED
    BY <2>1, <2>2
<1>. HIDE DEF j
<1>. QED
  BY <1>1, <1>2, <1>3, <1>4, <1>5, WakesItself

LEMMA ThreadWakeupCallbackWakes ==
  ASSUME NEW k, Sound(k), NEW t \in Threads
  PROVE  Wakes(k, ThreadWakeupCallback(k, t))
<1>. DEFINE a == WakeUpTimeout(k, t)
            b == LeaveWaitObjects(a, t)
            c == ResumeFromWait(b, t)
<1>1. Wakes(k, a) /\ Sound(a)
  BY WakeUpTimeoutWakes DEF Wakes
<1>. HIDE DEF a
<1>2. Wakes(a, b) /\ Sound(b)
  BY <1>1, LeaveWaitObjectsWakes DEF Wakes
<1>. HIDE DEF b
<1>3. Wakes(b, c)
  BY <1>2, ResumeFromWaitWakes
<1>. HIDE DEF c
<1>4. Wakes(k, c)
  BY <1>1, <1>2, <1>3, WakesOn
<1>5. Wakes(k, ResumeFromWait(k, t))
  BY ResumeFromWaitWakes
<1>6. Wakes(k, ASSERT(k, FALSE, "wakeup of a thread that is gone"))
  BY AssertAside, AsideWakes DEF Sound, Typed
<1>7. ThreadWakeupCallback(k, t) \in {c, ResumeFromWait(k, t),
                                      ASSERT(k, FALSE, "wakeup of a thread that is gone")}
  BY DEF ThreadWakeupCallback, TimedOut, c, b, a
<1>. QED
  BY <1>4, <1>5, <1>6, <1>7

-----------------------------------------------------------------------------
(* Threads that are created. *)

LEMMA CreateThreadSound ==
  ASSUME NEW j, Sound(j), NEW t \in Threads, j.status[t] = "Unborn", NEW p \in Level,
         NEW make_ready \in BOOLEAN
  PROVE  LET l == CreateThread(j, t, p, make_ready)
         IN  /\ Sound(l) /\ SamePlace(j, l) /\ StillHalted(j, l) /\ l.halted = j.halted
             /\ Listed(l) \subseteq Listed(j) \cup {t}
             /\ l.status = [j.status EXCEPT ![t] = IF make_ready THEN "Ready" ELSE "Dormant"]
<1>. DEFINE l == CreateThread(j, t, p, make_ready)
            q == j.ready_queue[core_id[t]]
            b == prepare(q, p)
            m == IF make_ready THEN push_back(b, p, t) ELSE b
            list == Append(j.thread_list[core_id[t]], t)
<1>0. PICK st : st = IF make_ready THEN "Ready" ELSE "Dormant"
  OBVIOUS
<1>1. /\ core_id[t] \in Cores /\ q \in Lists /\ Good(q) /\ \A r \in Level : ~ Holds(q, t, r)
      /\ DOMAIN j = Fields
  BY ThreadFacts, ZenonT(30) DEF Sound, Typed
<1>2. /\ j.thread_list \in [Cores -> Seq(Threads)] /\ j.nominal_priority \in [Threads -> Level]
      /\ j.current_thread \in [Cores -> Threads \cup {NoThread}]
      /\ j.status \in [Threads -> Statuses]
  BY Zenon DEF Sound, Typed
<1>3. /\ DOMAIN l = Fields
      /\ \A f \in Fields \ {"thread_list", "ready_queue", "status", "nominal_priority",
                            "current_priority", "threads_reserved", "wakeup_callback_table"} :
           l[f] = j[f]
      /\ l.thread_list = [j.thread_list EXCEPT ![core_id[t]] = list]
      /\ l.nominal_priority = [j.nominal_priority EXCEPT ![t] = p]
      /\ Becomes(j, l, t, st, p, m)
  BY <1>0, <1>1, <1>2, Zenon DEF CreateThread, Fields, Becomes
<1>. HIDE DEF l, q
<1>4. b \in Lists /\ Good(b) /\ Linked(b) = Linked(q) \cup {p} /\ \A u, r : Holds(b, u, r) <=> Holds(q, u, r)
  BY <1>1, PrepareUpdates
<1>. HIDE DEF b
<1>5. Updates(q, m, t, IF st = "Ready" THEN {p} ELSE {}) /\ p \in Linked(m)
  <2>1. CASE make_ready
    <3>1. Updates(b, push_back(b, p, t), t, {p})
      BY <1>1, <1>4, PushUpdates
    <3>2. st = "Ready" /\ m = push_back(b, p, t)
      BY <1>0, <2>1
    <3>. HIDE DEF m
    <3>. QED
      BY <1>4, <3>1, <3>2 DEF Updates
  <2>2. CASE ~ make_ready
    BY <1>0, <1>1, <1>4, <2>2 DEF Updates
  <2>. QED
    BY <2>1, <2>2
<1>. HIDE DEF m
<1>6. st \in Statuses /\ st # "Running"
  BY <1>0 DEF Statuses
<1>7. /\ l.status \in [Threads -> Statuses] /\ l.current_priority \in [Threads -> Level]
      /\ l.ready_queue \in [Cores -> Lists] /\ Queued(l)
  BY <1>3, <1>5, <1>6, QueuedChange, Zenon DEF q
<1>8. list \in Seq(Threads) /\ \A u : OccursIn(u, list) => u = t \/ OccursIn(u, j.thread_list[core_id[t]])
  <2>. DEFINE d == j.thread_list[core_id[t]]
  <2>1. d \in Seq(Threads)
    BY <1>1, <1>2
  <2>2. list = Append(d, t)
    OBVIOUS
  <2>. HIDE DEF d, list
  <2>3. /\ list \in Seq(Threads) /\ Len(list) = Len(d) + 1 /\ list[Len(list)] = t /\ Len(d) \in Nat
        /\ \A i \in 1 .. Len(d) : list[i] = d[i]
    BY <2>1, <2>2
  <2>4. \A i \in 1 .. Len(list) : i = Len(list) \/ i \in 1 .. Len(d)
    BY <2>3
  <2>. QED
    BY <2>1, <2>3, <2>4 DEF OccursIn, d
<1>. HIDE DEF list
<1>9. l.thread_list \in [Cores -> Seq(Threads)] /\ l.nominal_priority \in [Threads -> Level]
  BY <1>1, <1>2, <1>3, <1>8
<1>10. Typed(l)
  BY <1>3, <1>7, <1>9, Zenon DEF Sound, Typed, Fields
<1>11. l.status = [j.status EXCEPT ![t] = st] /\ l.status[t] = st
  BY <1>2, <1>3 DEF Becomes
<1>12. Placed(l)
  <2>1. l.current_thread = j.current_thread
    BY <1>3 DEF Fields
  <2>2. \A u \in Threads : l.status[u] = "Running" => j.status[u] = "Running"
    BY <1>2, <1>6, <1>11
  <2>. QED
    BY <2>1, <2>2 DEF Sound, Placed
<1>13. SamePlace(j, l) /\ StillHalted(j, l) /\ l.halted = j.halted
  BY <1>3 DEF SamePlace, StillHalted, Fields
<1>14. Listed(l) \subseteq Listed(j) \cup {t}
  <2>. SUFFICES ASSUME NEW u \in Listed(l), u # t
                PROVE  u \in Listed(j)
    OBVIOUS
  <2>1. PICK c \in Cores : OccursIn(u, l.thread_list[c])
    BY DEF Listed
  <2>2. OccursIn(u, j.thread_list[c])
    <3>1. CASE c = core_id[t]
      BY <1>2, <1>3, <1>8, <2>1, <3>1
    <3>2. CASE c # core_id[t]
      BY <1>2, <1>3, <2>1, <3>2
    <3>. QED
      BY <3>1, <3>2
  <2>3. u \in Threads
    BY DEF Listed
  <2>. QED
    BY <2>2, <2>3 DEF Listed
<1>15. Sound(l)
  BY <1>7, <1>10, <1>12 DEF Sound
<1>. QED
  BY <1>0, <1>11, <1>13, <1>14, <1>15 DEF l

(* Before its threads are created the kernel is at the first core. *)
Fresh(j) ==
  /\ Sound(j) /\ SamePlace(EmptyKernel, j)
  /\ \A t \in Threads : j.status[t] \in {"Unborn", "Dormant", "Ready"}
  /\ \A t \in Listed(j) : j.status[t] # "Unborn"

LEMMA EmptyFresh ==
  ASSUME NEW count
  PROVE  LET j == [EmptyKernel EXCEPT !.available_count = count]
         IN  Fresh(j) /\ \A t \in Threads : j.status[t] = "Unborn"
<1>0. PICK empty : empty = EmptyKernel
  OBVIOUS
<1>. DEFINE j == [empty EXCEPT !.available_count = count]
<1>1. DOMAIN empty = Fields
  BY <1>0, ZenonT(30) DEF EmptyKernel, Fields
<1>2. /\ empty.status = [t \in Threads |-> "Unborn"]
      /\ empty.nominal_priority = [t \in Threads |-> ThreadPrioLowest]
      /\ empty.current_priority = [t \in Threads |-> ThreadPrioLowest]
      /\ empty.held_mutexes = [t \in Threads |-> {}]
      /\ empty.wait_objects = [t \in Threads |-> << >>]
  BY <1>0, ZenonT(30) DEF EmptyKernel
<1>3. /\ empty.waiting_threads = [o \in WaitObjects |-> << >>]
      /\ empty.holding_thread = [m \in Mutexes |-> NoThread]
      /\ empty.priority = [m \in Mutexes |-> 0]
      /\ empty.arb_waiting = [a \in Arbiters |-> << >>]
      /\ empty.thread_list = [c \in Cores |-> << >>]
      /\ empty.ready_queue = [c \in Cores |-> EmptyList]
      /\ empty.current_thread = [c \in Cores |-> NoThread]
  BY <1>0, Zenon DEF EmptyKernel
<1>4. DOMAIN j = Fields /\ \A f \in Fields \ {"available_count"} : j[f] = empty[f]
  BY <1>1 DEF Fields
<1>. HIDE DEF j
<1>5. ThreadPrioLowest \in Level /\ 0 \in Level
  BY NumQueuesAssumption DEF ThreadPrioLowest, Level
<1>6. Typed(j)
  <2>1. /\ j.status = empty.status /\ j.nominal_priority = empty.nominal_priority
        /\ j.current_priority = empty.current_priority /\ j.held_mutexes = empty.held_mutexes
        /\ j.wait_objects = empty.wait_objects /\ j.priority = empty.priority
        /\ j.holding_thread = empty.holding_thread /\ j.waiting_threads = empty.waiting_threads
        /\ j.arb_waiting = empty.arb_waiting /\ j.thread_list = empty.thread_list
        /\ j.current_thread = empty.current_thread
    BY <1>4 DEF Fields
  <2>2. << >> \in Seq(WaitObjects) /\ << >> \in Seq(Threads)
    OBVIOUS
  <2>3. /\ j.status \in [Threads -> Statuses] /\ j.nominal_priority \in [Threads -> Level]
        /\ j.current_priority \in [Threads -> Level] /\ j.held_mutexes \in [Threads -> SUBSET Mutexes]
        /\ j.wait_objects \in [Threads -> Seq(WaitObjects)]
    BY <1>2, <1>5, <2>1, <2>2 DEF Statuses
  <2>4. /\ j.priority \in [Mutexes -> Level]
        /\ j.holding_thread \in [Mutexes -> Threads \cup {NoThread}]
        /\ j.waiting_threads \in [WaitObjects -> Seq(Threads)]
        /\ j.arb_waiting \in [Arbiters -> Seq(Threads)] /\ j.thread_list \in [Cores -> Seq(Threads)]
        /\ j.current_thread \in [Cores -> Threads \cup {NoThread}]
    BY <1>3, <1>5, <2>1, <2>2
  <2>5. j.ready_queue \in [Cores -> Lists]
    BY <1>3, <1>4, EmptyGood DEF Fields
  <2>. QED
    BY <1>4, <2>3, <2>4, <2>5, Zenon DEF Typed
<1>7. /\ \A c \in Cores : j.ready_queue[c] = EmptyList /\ j.current_thread[c] = NoThread
                          /\ j.thread_list[c] = << >>
      /\ \A t \in Threads : j.status[t] = "Unborn"
  BY <1>2, <1>3, <1>4 DEF Fields
<1>8. \A t, p : p \in Level => ~ Holds(EmptyList, t, p)
  BY DEF Holds, EmptyList
<1>9. Queued(j) /\ Placed(j)
  BY <1>7, <1>8, EmptyGood DEF Queued, Placed
<1>10. Listed(j) = {}
  BY <1>7 DEF Listed, OccursIn
<1>11. SamePlace(empty, j)
  BY <1>4 DEF SamePlace, Fields
<1>12. Fresh(j)
  BY <1>0, <1>6, <1>7, <1>9, <1>10, <1>11 DEF Fresh, Sound
<1>. QED
  BY <1>0, <1>7, <1>12 DEF j

(* The threads in s are created, the first of them dormant if it is to start late. *)
Creates(j, s, p, late) ==
  ForEach(s, j, LAMBDA x, t : CreateThread(x, t, p[t], ~ (late /\ t = s[1])))

LEMMA CreatesFresh ==
  ASSUME NEW j, Fresh(j), NEW s \in Seq(Threads), Len(s) > 0,
         \A i, n \in 1 .. Len(s) : s[i] = s[n] => i = n,
         \A t \in Threads : j.status[t] = "Unborn",
         NEW p, \A i \in 1 .. Len(s) : p[s[i]] \in Level, NEW late \in BOOLEAN
  PROVE  LET l == Creates(j, s, p, late)
         IN  Fresh(l) /\ (late => l.status[s[1]] = "Dormant")
<1>. DEFINE loop == [does |-> "create", of |-> p, late |-> late, first |-> s[1]]
            F(f) == [n \in 0 .. Len(s) |->
                       IF n = 0 THEN j ELSE CreateThread(f[n - 1], s[n], p[s[n]], ~ (late /\ s[n] = s[1]))]
            g == CHOOSE f : f = F(f)
<1>1. Len(s) \in Nat /\ \A i \in 1 .. Len(s) : s[i] \in Threads
  OBVIOUS
<1>2. \A l, x : Body(loop, l, x) = CreateThread(l, x, p[x], ~ (late /\ x = s[1]))
  BY DEF Body
<1>3. Creates(j, s, p, late) = g[Len(s)]
  BY DEF Creates, ForEach
<1>. HIDE DEF loop
<1>4. \A f : F(f) = States(loop, s, j, f)
  BY <1>2 DEF States
<1>5. g = States(loop, s, j, g)
  <2>. HIDE DEF F
  <2>1. PICK f : f = States(loop, s, j, f)
    BY <1>1, StatesExist, Zenon
  <2>2. f = F(f)
    BY <1>4, <2>1
  <2>3. g = F(g)
    BY <2>2
  <2>. QED
    BY <1>4, <2>3
<1>. HIDE DEF g
<1>6. /\ g[0] = j
      /\ \A n \in 1 .. Len(s) :
           \E ready \in BOOLEAN : /\ g[n] = CreateThread(g[n - 1], s[n], p[s[n]], ready)
                                  /\ late /\ n = 1 => ~ ready
  <2>1. \A n \in 0 .. Len(s) : g[n] = IF n = 0 THEN j ELSE Body(loop, g[n - 1], s[n])
    BY <1>5 DEF States
  <2>2. ASSUME NEW n \in 1 .. Len(s)
        PROVE  g[n] = CreateThread(g[n - 1], s[n], p[s[n]], ~ (late /\ s[n] = s[1]))
    BY <1>2, <2>1
  <2>3. 0 \in 0 .. Len(s)
    BY <1>1
  <2>4. g[0] = j
    BY <2>1, <2>3
  <2>5. ASSUME NEW n \in 1 .. Len(s)
        PROVE  \E ready \in BOOLEAN : /\ g[n] = CreateThread(g[n - 1], s[n], p[s[n]], ready)
                                      /\ late /\ n = 1 => ~ ready
    <3>1. PICK ready \in BOOLEAN : ready = ~ (late /\ s[n] = s[1])
      BY Zenon
    <3>. QED
      BY <2>2, <3>1, Zenon
  <2>. QED
    BY <2>4, <2>5
<1>. DEFINE T == {n \in 0 .. Len(s) :
                    /\ Fresh(g[n])
                    /\ \A i \in n + 1 .. Len(s) : g[n].status[s[i]] = "Unborn"
                    /\ late /\ n > 0 => g[n].status[s[1]] = "Dormant"}
<1>7. 0 \in T
  BY <1>1, <1>6
<1>8. ASSUME NEW n \in 1 .. Len(s), n - 1 \in T
      PROVE  n \in T
  <2>. DEFINE a == g[n - 1]
              t == s[n]
  <2>1. /\ Fresh(a) /\ t \in Threads /\ a.status[t] = "Unborn" /\ p[t] \in Level
        /\ \A i \in n + 1 .. Len(s) : a.status[s[i]] = "Unborn"
        /\ late /\ n > 1 => a.status[s[1]] = "Dormant"
    BY <1>1, <1>8
  <2>2. PICK ready \in BOOLEAN : /\ g[n] = CreateThread(a, t, p[t], ready)
                                 /\ late /\ n = 1 => ~ ready
    BY <1>6
  <2>3. \A i \in 1 .. Len(s) : i # n => s[i] # t /\ s[i] \in Threads
    BY <1>1
  <2>. HIDE DEF a, t
  <2>4. PICK l : l = g[n]
    OBVIOUS
  <2>5. /\ Sound(l) /\ SamePlace(a, l) /\ Listed(l) \subseteq Listed(a) \cup {t}
        /\ l.status = [a.status EXCEPT ![t] = IF ready THEN "Ready" ELSE "Dormant"]
    <3>1. Sound(a)
      BY <2>1 DEF Fresh
    <3>2. l = CreateThread(a, t, p[t], ready)
      BY <2>2, <2>4
    <3>. QED
      BY <2>1, <3>1, <3>2, CreateThreadSound
  <2>6. /\ \A u \in Threads \ {t} : l.status[u] = a.status[u]
        /\ l.status[t] = IF ready THEN "Ready" ELSE "Dormant"
    <3>1. a.status \in [Threads -> Statuses]
      BY <2>1, Zenon DEF Fresh, Sound, Typed
    <3>. QED
      BY <2>1, <2>5, <3>1
  <2>7. Fresh(l)
    <3>1. Listed(l) \subseteq Threads
      BY DEF Listed
    <3>2. SamePlace(EmptyKernel, l)
      BY <2>1, <2>5 DEF Fresh, SamePlace
    <3>. QED
      BY <2>1, <2>5, <2>6, <3>1, <3>2 DEF Fresh
  <2>8. \A i \in n + 1 .. Len(s) : l.status[s[i]] = "Unborn"
    BY <2>1, <2>3, <2>6
  <2>9. late /\ n > 0 => l.status[s[1]] = "Dormant"
    <3>1. CASE n = 1
      BY <2>2, <2>6, <3>1 DEF t
    <3>2. CASE n > 1
      BY <2>1, <2>3, <2>6, <3>2
    <3>. QED
      BY <3>1, <3>2
  <2>. QED
    BY <2>4, <2>7, <2>8, <2>9
<1>9. 0 .. Len(s) \subseteq T
  <2>. HIDE DEF T
  <2>. QED
    BY <1>1, <1>7, <1>8, UpwardInduction
<1>. QED
  BY <1>1, <1>3, <1>9

-----------------------------------------------------------------------------
(***************************************************************************)
(* The scheduler.                                                          *)
(***************************************************************************)

(* A thread that was created is one that is listed or that a core runs. *)
Created(k) ==
  /\ \A t \in Listed(k) : k.status[t] # "Unborn"
  /\ \A c \in Cores : k.current_thread[c] # NoThread => k.status[k.current_thread[c]] # "Unborn"

LEMMA MovesCreated ==
  ASSUME NEW k, NEW j, NEW X, Moves(k, j, X), Sound(k), Created(k)
  PROVE  Created(j)
<1>1. \A t \in Threads : k.status[t] # "Unborn" => j.status[t] # "Unborn"
  BY DEF Moves
<1>2. \A c \in Cores : k.current_thread[c] # NoThread => k.current_thread[c] \in Threads
  BY DEF Sound, Typed
<1>. QED
  BY <1>1, <1>2 DEF Moves, Created, Listed, SamePlace

(* The thread of the core runs, if there is one. *)
RunsOn(k, c) == k.current_thread[c] # NoThread => k.status[k.current_thread[c]] = "Running"

(* j follows k by a rescheduling of core c. *)
Switches(k, j, c) ==
  /\ Sound(j) /\ RunsOn(j, c)
  /\ j.phase = k.phase /\ j.todo = k.todo /\ j.lagging = k.lagging
  /\ j.current_cpu = k.current_cpu /\ j.executing = k.executing
  /\ j.halted = k.halted /\ j.reschedule_pending = k.reschedule_pending
  /\ j.thread_list = k.thread_list
  /\ \A d \in Cores \ {c} : j.current_thread[d] = k.current_thread[d]
  /\ \A t \in Threads : core_id[t] # c => j.status[t] = k.status[t]
  /\ \A t \in Threads : j.status[t] = "Unborn" => k.status[t] = "Unborn"

(* A change of the status of one thread and of the queue of its core. *)
Requeued(k, j, t, st, m) ==
  /\ DOMAIN j = Fields
  /\ j.status = [k.status EXCEPT ![t] = st]
  /\ j.ready_queue = [k.ready_queue EXCEPT ![core_id[t]] = m]
  /\ j.current_priority = k.current_priority /\ j.current_thread = k.current_thread
  /\ \A f \in Fields \ {"status", "ready_queue"} : j[f] = k[f]

LEMMA RequeueSound ==
  ASSUME NEW k, Sound(k), NEW t \in Threads, NEW st \in Statuses \ {"Unborn", "Running"}, NEW m,
         k.status[t] # "Unborn",
         Updates(k.ready_queue[core_id[t]], m, t,
                 IF st = "Ready" THEN {k.current_priority[t]} ELSE {}),
         NEW j, Requeued(k, j, t, st, m)
  PROVE  Sound(j)
<1>. DEFINE p == k.current_priority[t]
<1>1. DOMAIN k = Fields /\ p \in Level /\ p \in Linked(k.ready_queue[core_id[t]])
  BY ThreadFacts, ZenonT(30) DEF Sound, Typed, Queued
<1>2. Becomes(k, j, t, st, p, m)
  <2>1. k.current_priority = [k.current_priority EXCEPT ![t] = k.current_priority[t]]
    BY Zenon DEF Sound, Typed
  <2>. QED
    BY <2>1 DEF Becomes, Requeued
<1>3. /\ j.status \in [Threads -> Statuses] /\ j.current_priority \in [Threads -> Level]
      /\ j.ready_queue \in [Cores -> Lists] /\ Queued(j)
  <2>1. p \in Linked(m)
    BY <1>1 DEF Updates
  <2>. QED
    BY <1>1, <1>2, <2>1, QueuedChange
<1>4. Typed(j)
  BY <1>3, Zenon DEF Sound, Typed, Fields, Requeued
<1>5. /\ j.status[t] # "Running"
      /\ \A u \in Threads \ {t} : j.status[u] = k.status[u]
  BY DEF Sound, Typed, Requeued
<1>6. Placed(j)
  BY <1>5 DEF Sound, Placed, Requeued
<1>. QED
  BY <1>3, <1>4, <1>6 DEF Sound

(* SwitchContext for the thread prev of the core. *)
SwitchFrom(k, c, new, prev) ==
  LET saved == IF prev = NoThread THEN k ELSE [k EXCEPT !.context[prev] = k.r0[c]]
      queued == IF prev # NoThread /\ k.status[prev] = "Running"
                THEN [saved EXCEPT
                        !.ready_queue[c] = push_front(@, k.current_priority[prev], prev),
                        !.status[prev] = "Ready"]
                ELSE saved
  IN  IF new = NoThread THEN [queued EXCEPT !.current_thread[c] = NoThread]
      ELSE [ASSERT(queued, queued.status[new] = "Ready", "Thread must be ready to become running")
              EXCEPT !.wakeup_events[new] = Unscheduled,
                     !.current_thread[c] = new,
                     !.ready_queue[c] = remove(@, queued.current_priority[new], new),
                     !.status[new] = "Running",
                     !.r0[c] = queued.context[new]]

(* The kernel from whose queue a thread was popped, and what SwitchContext makes of it. *)
Popped(k, c, m) == [k EXCEPT !.ready_queue[c] = m]

Preempts(k, c) == k.current_thread[c] # NoThread /\ k.status[k.current_thread[c]] = "Running"

StatusAfter(k, c) ==
  IF Preempts(k, c) THEN [k.status EXCEPT ![k.current_thread[c]] = "Ready"] ELSE k.status

QueueAfter(k, c, m) ==
  IF Preempts(k, c)
  THEN push_front(m, k.current_priority[k.current_thread[c]], k.current_thread[c]) ELSE m

Switched(k, j, c, m, new) ==
  /\ DOMAIN j = Fields
  /\ \A f \in Fields \ {"status", "ready_queue", "current_thread", "context",
                        "wakeup_events", "r0", "fault"} : j[f] = k[f]
  /\ j.current_thread = [k.current_thread EXCEPT ![c] = new]
  /\ new = NoThread => /\ j.status = StatusAfter(k, c)
                       /\ j.ready_queue = [k.ready_queue EXCEPT ![c] = QueueAfter(k, c, m)]
  /\ new # NoThread =>
       /\ j.status = [StatusAfter(k, c) EXCEPT ![new] = "Running"]
       /\ j.ready_queue = [k.ready_queue EXCEPT
                             ![c] = remove(QueueAfter(k, c, m), k.current_priority[new], new)]

LEMMA SwitchContextFields ==
  ASSUME NEW k, Sound(k), NEW c \in Cores, NEW m, NEW new \in Threads \cup {NoThread}
  PROVE  Switched(k, SwitchContext(Popped(k, c, m), c, new), c, m, new)
<1>0. PICK prev : prev = k.current_thread[c]
  OBVIOUS
<1>. DEFINE s == StatusAfter(k, c)
            q == QueueAfter(k, c, m)
            j == SwitchContext(Popped(k, c, m), c, new)
            runs == Preempts(k, c)
<1>00. /\ runs <=> prev # NoThread /\ k.status[prev] = "Running"
       /\ runs => /\ s = [k.status EXCEPT ![prev] = "Ready"]
                  /\ q = push_front(m, k.current_priority[prev], prev)
       /\ ~ runs => s = k.status /\ q = m
  BY <1>0 DEF Preempts, StatusAfter, QueueAfter
<1>. HIDE DEF s, q, j, runs
<1>. DEFINE a == [k EXCEPT !.ready_queue[c] = m]
            saved == IF prev = NoThread THEN a ELSE [a EXCEPT !.context[prev] = a.r0[c]]
            queued == IF prev # NoThread /\ a.status[prev] = "Running"
                      THEN [saved EXCEPT
                              !.ready_queue[c] = push_front(@, a.current_priority[prev], prev),
                              !.status[prev] = "Ready"]
                      ELSE saved
            idle == [queued EXCEPT !.current_thread[c] = NoThread]
            checked == ASSERT(queued, queued.status[new] = "Ready",
                              "Thread must be ready to become running")
            busy == [checked EXCEPT
                       !.wakeup_events[new] = Unscheduled,
                       !.current_thread[c] = new,
                       !.ready_queue[c] = remove(@, queued.current_priority[new], new),
                       !.status[new] = "Running",
                       !.r0[c] = queued.context[new]]
<1>1. DOMAIN k = Fields /\ k.ready_queue \in [Cores -> Lists]
  BY Zenon DEF Sound, Typed
<1>2. /\ DOMAIN a = Fields /\ \A f \in Fields \ {"ready_queue"} : a[f] = k[f]
      /\ a.ready_queue = [k.ready_queue EXCEPT ![c] = m]
  BY <1>1 DEF Fields
<1>. HIDE DEF a
<1>3. /\ DOMAIN saved = Fields /\ \A f \in Fields \ {"context"} : saved[f] = a[f]
  BY <1>2 DEF Fields
<1>4. j = IF new = NoThread THEN idle ELSE busy
  <2>1. a.current_thread[c] = prev
    BY <1>0, <1>2 DEF Fields
  <2>2. SwitchContext(a, c, new) = SwitchFrom(a, c, new, a.current_thread[c])
    BY Zenon DEF SwitchContext, SwitchFrom
  <2>3. SwitchContext(a, c, new) = SwitchFrom(a, c, new, prev)
    BY <2>1, <2>2
  <2>4. j = SwitchContext(a, c, new)
    BY DEF a, j, Popped
  <2>. QED
    BY <2>3, <2>4, Zenon DEF SwitchFrom, saved
<1>. HIDE DEF saved
<1>5. /\ DOMAIN queued = Fields
      /\ \A f \in Fields \ {"context", "ready_queue", "status"} : queued[f] = k[f]
      /\ queued.status = s
  BY <1>00, <1>2, <1>3, ZenonT(30) DEF Fields
<1>6. queued.ready_queue = [k.ready_queue EXCEPT ![c] = q]
  <2>1. saved.ready_queue = [k.ready_queue EXCEPT ![c] = m] /\ saved.ready_queue[c] = m
    BY <1>1, <1>2, <1>3 DEF Fields
  <2>2. a.current_priority = k.current_priority /\ a.status = k.status
    BY <1>2 DEF Fields
  <2>3. CASE runs
    <3>1. queued.ready_queue = [saved.ready_queue EXCEPT
                                  ![c] = push_front(@, a.current_priority[prev], prev)]
      BY <1>00, <1>3, <2>2, <2>3 DEF Fields
    <3>. QED
      BY <1>00, <1>1, <2>1, <2>2, <2>3, <3>1
  <2>4. CASE ~ runs
    BY <1>00, <2>1, <2>2, <2>4
  <2>. QED
    BY <2>3, <2>4
<1>. HIDE DEF queued
<1>7. /\ DOMAIN checked = Fields /\ \A f \in Fields \ {"fault"} : checked[f] = queued[f]
  BY <1>5 DEF ASSERT, Fields
<1>. HIDE DEF checked
<1>8. CASE new = NoThread
  <2>1. /\ DOMAIN idle = Fields /\ \A f \in Fields \ {"current_thread"} : idle[f] = queued[f]
        /\ idle.current_thread = [queued.current_thread EXCEPT ![c] = NoThread]
    BY <1>5 DEF Fields
  <2>2. j = idle
    BY <1>4, <1>8
  <2>. HIDE DEF idle
  <2>. QED
    <3>1. \A f \in Fields \ {"status", "ready_queue", "current_thread", "context",
                             "wakeup_events", "r0", "fault"} : j[f] = k[f]
      BY <1>5, <2>1, <2>2 DEF Fields
    <3>2. j.current_thread = [k.current_thread EXCEPT ![c] = new]
      BY <1>5, <1>8, <2>1, <2>2 DEF Fields
    <3>3. j.status = s /\ j.ready_queue = [k.ready_queue EXCEPT ![c] = q] /\ DOMAIN j = Fields
      BY <1>5, <1>6, <2>1, <2>2 DEF Fields
    <3>. QED
      BY <1>8, <3>1, <3>2, <3>3, Zenon DEF Switched, s, q, j
<1>9. CASE new # NoThread
  <2>1. /\ DOMAIN busy = Fields
        /\ \A f \in Fields \ {"wakeup_events", "current_thread", "ready_queue", "status", "r0"} :
             busy[f] = checked[f]
        /\ busy.current_thread = [checked.current_thread EXCEPT ![c] = new]
        /\ busy.status = [checked.status EXCEPT ![new] = "Running"]
        /\ busy.ready_queue = [checked.ready_queue EXCEPT
                                 ![c] = remove(@, queued.current_priority[new], new)]
    BY <1>7, Zenon DEF Fields
  <2>2. j = busy
    BY <1>4, <1>9
  <2>. HIDE DEF busy
  <2>3. busy.ready_queue = [k.ready_queue EXCEPT ![c] = remove(q, k.current_priority[new], new)]
    BY <1>1, <1>5, <1>6, <1>7, <2>1 DEF Fields
  <2>. QED
    <3>1. \A f \in Fields \ {"status", "ready_queue", "current_thread", "context",
                             "wakeup_events", "r0", "fault"} : j[f] = k[f]
      BY <1>5, <1>7, <2>1, <2>2 DEF Fields
    <3>2. j.current_thread = [k.current_thread EXCEPT ![c] = new] /\ j.status = [s EXCEPT ![new] = "Running"]
      BY <1>5, <1>7, <2>1, <2>2 DEF Fields
    <3>. QED
      <4>1. DOMAIN j = Fields
        BY <2>1, <2>2
      <4>2. j.ready_queue = [k.ready_queue EXCEPT ![c] = remove(q, k.current_priority[new], new)]
        BY <2>2, <2>3
      <4>. QED
        BY <1>9, <3>1, <3>2, <4>1, <4>2, Zenon DEF Switched, s, q, j
<1>. QED
  BY <1>8, <1>9 DEF j

LEMMA SwitchContextSwitches ==
  ASSUME NEW k, Sound(k), NEW c \in Cores, NEW m, NEW new,
         \/ new = NoThread /\ m = k.ready_queue[c]
         \/ /\ new \in Threads /\ core_id[new] = c /\ k.status[new] = "Ready"
            /\ Updates(k.ready_queue[c], m, new, {})
  PROVE  Switches(k, SwitchContext(Popped(k, c, m), c, new), c)
<1>. DEFINE prev == k.current_thread[c]
            cp == k.current_priority
            runs == Preempts(k, c)
            s == StatusAfter(k, c)
            q == QueueAfter(k, c, m)
            j == SwitchContext(Popped(k, c, m), c, new)
            a == IF new = NoThread THEN k
                 ELSE [k EXCEPT !.status[new] = "Dormant", !.ready_queue[core_id[new]] = m]
            b == IF runs THEN [a EXCEPT !.status[prev] = "Ready", !.ready_queue[core_id[prev]] = q]
                 ELSE a
<1>1. /\ prev \in Threads \cup {NoThread} /\ prev # NoThread => prev \in Threads /\ core_id[prev] = c
      /\ DOMAIN k = Fields /\ k.status \in [Threads -> Statuses] /\ cp \in [Threads -> Level]
      /\ k.ready_queue \in [Cores -> Lists] /\ k.current_thread \in [Cores -> Threads \cup {NoThread}]
  BY Zenon DEF Sound, Typed, Placed
<1>2. /\ (runs <=> prev # NoThread /\ k.status[prev] = "Running")
      /\ runs => prev \in Threads /\ core_id[prev] = c /\ prev # new
      /\ runs => s = [k.status EXCEPT ![prev] = "Ready"] /\ q = push_front(m, cp[prev], prev)
      /\ ~ runs => s = k.status /\ q = m
  BY <1>1, Zenon DEF Preempts, StatusAfter, QueueAfter
<1>. HIDE DEF prev, runs, s, q, j
<1>3. Switched(k, j, c, m, new)
  BY SwitchContextFields DEF j
<1>4. NoThread \notin Threads
  BY NoThreadAssumption
<1>5. /\ Sound(a) /\ DOMAIN a = Fields /\ a.current_priority = cp
      /\ a.current_thread = k.current_thread
      /\ a.ready_queue = [k.ready_queue EXCEPT ![c] = m]
      /\ a.status = IF new = NoThread THEN k.status ELSE [k.status EXCEPT ![new] = "Dormant"]
      /\ \A f \in Fields \ {"status", "ready_queue"} : a[f] = k[f]
  <2>1. CASE new = NoThread
    BY <1>1, <1>4, <2>1
  <2>2. CASE new # NoThread
    <3>1. PICK st : st = "Dormant"
      OBVIOUS
    <3>2. st \in Statuses \ {"Unborn", "Running"} /\ k.status[new] # "Unborn" /\ new \in Threads
      BY <2>2, <3>1 DEF Statuses
    <3>3. Updates(k.ready_queue[core_id[new]], m, new,
                  IF st = "Ready" THEN {k.current_priority[new]} ELSE {})
      BY <2>2, <3>1
    <3>4. Requeued(k, a, new, st, m)
      BY <1>1, <2>2, <3>1, Zenon DEF Requeued, Fields
    <3>. HIDE DEF a
    <3>5. Sound(a)
      BY <3>2, <3>3, <3>4, RequeueSound, Zenon
    <3>. QED
      BY <2>2, <3>1, <3>4, <3>5 DEF Requeued
  <2>. QED
    BY <2>1, <2>2
<1>. HIDE DEF a
<1>6. /\ Sound(b) /\ DOMAIN b = Fields /\ b.current_priority = cp
      /\ b.current_thread = k.current_thread
      /\ b.ready_queue = [k.ready_queue EXCEPT ![c] = q]
      /\ b.status = IF new = NoThread THEN s ELSE [s EXCEPT ![new] = "Dormant"]
      /\ \A f \in Fields \ {"status", "ready_queue"} : b[f] = k[f]
  <2>1. CASE runs
    <3>1. /\ prev \in Threads /\ core_id[prev] = c /\ prev # new
          /\ a.status[prev] = "Running" /\ a.ready_queue[c] = m
      BY <1>1, <1>2, <1>5, <2>1, Zenon
    <3>2. /\ m \in Lists /\ Good(m) /\ cp[prev] \in Linked(m)
          /\ \A r \in Level : ~ Holds(m, prev, r)
      BY <1>5, <3>1, ThreadFacts, Zenon DEF Sound, Queued
    <3>3. Updates(m, q, prev, {cp[prev]})
      BY <1>2, <2>1, <3>1, <3>2, PushUpdates, Zenon
    <3>4. PICK st : st = "Ready"
      OBVIOUS
    <3>5. /\ st \in Statuses \ {"Unborn", "Running"} /\ a.status[prev] # "Unborn"
          /\ Updates(a.ready_queue[core_id[prev]], q, prev,
                     IF st = "Ready" THEN {a.current_priority[prev]} ELSE {})
      BY <1>5, <3>1, <3>3, <3>4 DEF Statuses
    <3>6. Requeued(a, b, prev, st, q)
      BY <1>5, <2>1, <3>1, <3>4, Zenon DEF Requeued, Fields
    <3>. HIDE DEF b
    <3>7. Sound(b)
      BY <1>5, <3>1, <3>5, <3>6, RequeueSound, Zenon
    <3>8. b.ready_queue = [k.ready_queue EXCEPT ![c] = q]
      BY <1>1, <1>5, <3>1, <3>6 DEF Requeued
    <3>9. b.status = IF new = NoThread THEN s ELSE [s EXCEPT ![new] = "Dormant"]
      <4>1. CASE new = NoThread
        BY <1>2, <1>5, <2>1, <3>4, <3>6, <4>1 DEF Requeued
      <4>2. CASE new # NoThread
        <5>1. a.status = [k.status EXCEPT ![new] = "Dormant"]
          BY <1>5, <4>2
        <5>2. b.status = [a.status EXCEPT ![prev] = "Ready"]
          BY <3>4, <3>6 DEF Requeued
        <5>3. s = [k.status EXCEPT ![prev] = "Ready"]
          BY <1>2, <2>1
        <5>4. [[k.status EXCEPT ![new] = "Dormant"] EXCEPT ![prev] = "Ready"]
                = [[k.status EXCEPT ![prev] = "Ready"] EXCEPT ![new] = "Dormant"]
          BY <1>1, <3>1, ExceptsCommute, Zenon
        <5>. QED
          BY <4>2, <5>1, <5>2, <5>3, <5>4
      <4>. QED
        BY <4>1, <4>2
    <3>. QED
      BY <1>5, <3>6, <3>7, <3>8, <3>9 DEF Requeued
  <2>2. CASE ~ runs
    BY <1>2, <1>5, <2>2
  <2>. QED
    BY <2>1, <2>2
<1>. HIDE DEF b
<1>7. s \in [Threads -> Statuses] /\ \A t \in Threads : t # prev => s[t] = k.status[t]
  BY <1>1, <1>2 DEF Statuses
<1>8. \A t \in Threads : s[t] = "Running" => k.status[t] = "Running" /\ core_id[t] # c
  <2>. SUFFICES ASSUME NEW t \in Threads, s[t] = "Running"
                PROVE  k.status[t] = "Running" /\ core_id[t] # c
    OBVIOUS
  <2>1. t # prev /\ k.status[t] = "Running"
    BY <1>1, <1>2, <1>4
  <2>2. k.current_thread[core_id[t]] = t
    BY <2>1 DEF Sound, Placed
  <2>. QED
    BY <2>1, <2>2 DEF prev
<1>9. \A t \in Threads : /\ s[t] = "Unborn" => k.status[t] = "Unborn"
                         /\ core_id[t] # c => s[t] = k.status[t]
  BY <1>1, <1>2
<1>. HIDE DEF cp
<1>10. j.current_priority = cp /\ j.thread_list = k.thread_list
  BY <1>3 DEF Switched, Fields, cp
<1>11. /\ j.current_thread \in [Cores -> Threads \cup {NoThread}] /\ j.current_thread[c] = new
       /\ \A d \in Cores \ {c} : j.current_thread[d] = k.current_thread[d]
  BY <1>1, <1>3, ZenonT(30) DEF Switched
<1>12. j.status \in [Threads -> Statuses] /\ j.ready_queue \in [Cores -> Lists] /\ Queued(j)
  <2>1. CASE new = NoThread
    <3>1. j.status = b.status /\ j.ready_queue = b.ready_queue /\ j.current_priority = b.current_priority
      BY <1>3, <1>6, <1>10, <2>1, Zenon DEF Switched, s, q
    <3>. QED
      <4>1. b.status \in [Threads -> Statuses] /\ b.ready_queue \in [Cores -> Lists] /\ Queued(b)
        BY <1>6, ZenonT(30) DEF Sound, Typed
      <4>2. Queued(j)
        BY <3>1, <4>1 DEF Queued
      <4>. QED
        BY <3>1, <4>1, <4>2
  <2>2. CASE new # NoThread
    <3>. DEFINE p == cp[new]
                r == remove(q, p, new)
    <3>1. new \in Threads /\ core_id[new] = c /\ p \in Level /\ b.ready_queue[c] = q
      BY <1>1, <1>6, <2>2 DEF cp
    <3>2. b.status[new] = "Dormant"
      BY <1>6, <1>7, <2>2
    <3>3. /\ q \in Lists /\ Good(q) /\ p \in Linked(q)
          /\ \A x \in Level : ~ Holds(q, new, x)
      BY <1>6, <3>1, <3>2, ThreadFacts, ZenonT(30) DEF Sound, Queued
    <3>4. Updates(q, r, new, {})
      BY <3>1, <3>3, RemoveUpdates, ZenonT(30)
    <3>5. Becomes(b, j, new, "Running", p, r)
      <4>1. j.status = [b.status EXCEPT ![new] = "Running"]
        BY <1>3, <1>6, <1>7, <2>2, Zenon DEF Switched, s
      <4>2. j.ready_queue = [b.ready_queue EXCEPT ![core_id[new]] = r]
        BY <1>1, <1>3, <1>6, <2>2, <3>1, ZenonT(30) DEF Switched, q, cp
      <4>3. j.current_priority = [b.current_priority EXCEPT ![new] = p]
        BY <1>1, <1>6, <1>10, <3>1 DEF cp
      <4>. QED
        BY <4>1, <4>2, <4>3, ZenonT(30) DEF Becomes
    <3>6. "Running" \in Statuses /\ p \in Linked(r)
      BY <3>3, <3>4 DEF Statuses, Updates
    <3>. HIDE DEF r, p
    <3>. QED
      BY <1>6, <3>1, <3>4, <3>5, <3>6, QueuedChange, ZenonT(30)
  <2>. QED
    BY <2>1, <2>2
<1>13. /\ \A t \in Threads : t # new => j.status[t] = s[t]
       /\ new # NoThread => j.status[new] = "Running"
  BY <1>3, <1>4, <1>7, Zenon DEF Switched, s
<1>14. Typed(j)
  BY <1>1, <1>3, <1>10, <1>11, <1>12, ZenonT(30) DEF Switched, Sound, Typed, Fields, cp
<1>15. Placed(j)
  <2>1. ASSUME NEW d \in Cores, j.current_thread[d] # NoThread
        PROVE  core_id[j.current_thread[d]] = d
    BY <1>11, <2>1 DEF Sound, Placed
  <2>2. ASSUME NEW t \in Threads, j.status[t] = "Running"
        PROVE  j.current_thread[core_id[t]] = t
    <3>1. core_id[t] \in Cores
      BY KernelAssumption
    <3>2. CASE t = new
      BY <1>4, <1>11, <3>2
    <3>3. CASE t # new
      <4>1. k.status[t] = "Running" /\ core_id[t] # c
        BY <1>8, <1>13, <2>2, <3>3
      <4>. QED
        BY <1>11, <3>1, <4>1 DEF Sound, Placed
    <3>. QED
      BY <3>2, <3>3
  <2>. QED
    BY <2>1, <2>2, Zenon DEF Placed
<1>16. Sound(j) /\ RunsOn(j, c)
  BY <1>11, <1>12, <1>13, <1>14, <1>15 DEF Sound, RunsOn
<1>17. /\ j.phase = k.phase /\ j.todo = k.todo /\ j.lagging = k.lagging
       /\ j.current_cpu = k.current_cpu /\ j.executing = k.executing
       /\ j.halted = k.halted /\ j.reschedule_pending = k.reschedule_pending
  BY <1>3 DEF Switched, Fields
<1>18. \A t \in Threads : /\ j.status[t] = "Unborn" => k.status[t] = "Unborn"
                          /\ core_id[t] # c => j.status[t] = k.status[t]
  BY <1>4, <1>9, <1>13
<1>19. Switches(k, j, c)
  BY <1>10, <1>11, <1>16, <1>17, <1>18 DEF Switches
<1>. QED
  BY <1>19 DEF j

(* A thread that is found in the queue of a core is one that is ready on it. *)
LEMMA RescheduleSwitches ==
  ASSUME NEW k, Sound(k), NEW c \in Cores
  PROVE  Switches(k, Reschedule(k, c), c)
<1>. DEFINE cur == k.current_thread[c]
            q == k.ready_queue[c]
<1>1. /\ cur \in Threads \cup {NoThread} /\ q \in Lists /\ Good(q) /\ DOMAIN k = Fields
      /\ cur # NoThread => cur \in Threads /\ k.current_priority[cur] \in Level
  BY Zenon DEF Sound, Typed, Queued
<1>2. \A t \in Threads, p \in Level : Holds(q, t, p) => k.status[t] = "Ready" /\ core_id[t] = c
  BY DEF Sound, Queued
<1>3. CASE cur # NoThread /\ k.status[cur] = "Running"
  <2>. DEFINE stop == k.current_priority[cur]
              next == get_first_better(q, stop)
              m == pop_first_better(q, stop)
              j == ASSERT(k, ~ PopBetterFaults(q, stop), "null level in pop_first_better")
  <2>1. Reschedule(k, c) = IF next = NoThread THEN j ELSE SwitchContext(Popped(j, c, m), c, next)
    BY <1>3 DEF Reschedule, Popped
  <2>2. DOMAIN j = Fields /\ \A f \in Fields \ {"fault"} : j[f] = k[f]
    BY <1>1 DEF ASSERT, Fields
  <2>3. stop \in 0 .. NUM_QUEUES
    BY <1>1, <1>3, NumQueuesAssumption DEF Level
  <2>4. \/ next = NoThread /\ m = q
        \/ next \in Threads /\ Updates(q, m, next, {}) /\ \E p \in Level : Holds(q, next, p)
    <3>. HIDE DEF q, stop
    <3>. QED
      BY <1>1, <2>3, PopUpdates, Zenon
  <2>. HIDE DEF j, m, next, stop
  <2>5. /\ j.status = k.status /\ j.current_thread = k.current_thread /\ j.ready_queue = k.ready_queue
        /\ SameThreads(k, j)
    BY <1>1, <2>2 DEF SameThreads, Fields
  <2>6. Sound(j)
    BY <2>5, SameSound
  <2>7. CASE next = NoThread
    <3>1. Reschedule(k, c) = j
      BY <2>1, <2>7
    <3>2. RunsOn(j, c)
      BY <1>3, <2>5 DEF RunsOn
    <3>3. Switches(k, j, c)
      BY <2>2, <2>5, <2>6, <3>2 DEF Switches, Fields
    <3>. QED
      BY <3>1, <3>3
  <2>8. CASE next # NoThread
    <3>1. /\ next \in Threads /\ core_id[next] = c /\ j.status[next] = "Ready"
          /\ Updates(j.ready_queue[c], m, next, {})
      BY <1>2, <2>4, <2>5, <2>8
    <3>. DEFINE r == SwitchContext(Popped(j, c, m), c, next)
    <3>2. Switches(j, r, c)
      BY <2>6, <3>1, SwitchContextSwitches
    <3>3. Reschedule(k, c) = r
      BY <2>1, <2>8
    <3>. HIDE DEF r
    <3>4. Switches(k, r, c)
      BY <2>2, <2>5, <3>2 DEF Switches, Fields
    <3>. QED
      BY <3>3, <3>4
  <2>. QED
    BY <2>7, <2>8
<1>4. CASE ~ (cur # NoThread /\ k.status[cur] = "Running")
  <2>. DEFINE next == get_first(q)
              m == pop_first(q)
  <2>1. Reschedule(k, c) = IF cur = NoThread /\ next = NoThread THEN k
                           ELSE SwitchContext(Popped(k, c, m), c, next)
    BY <1>4 DEF Reschedule, Popped
  <2>2. \/ next = NoThread /\ m = q
        \/ next \in Threads /\ Updates(q, m, next, {}) /\ \E p \in Level : Holds(q, next, p)
    <3>. HIDE DEF q
    <3>. QED
      BY <1>1, PopFirstUpdates, Zenon
  <2>. HIDE DEF m, next
  <2>3. CASE cur = NoThread /\ next = NoThread
    <3>1. Reschedule(k, c) = k
      BY <2>1, <2>3
    <3>2. Switches(k, k, c)
      BY <2>3 DEF Switches, RunsOn
    <3>. QED
      BY <3>1, <3>2
  <2>4. CASE ~ (cur = NoThread /\ next = NoThread)
    <3>1. \/ next = NoThread /\ m = k.ready_queue[c]
          \/ /\ next \in Threads /\ core_id[next] = c /\ k.status[next] = "Ready"
             /\ Updates(k.ready_queue[c], m, next, {})
      BY <1>2, <2>2
    <3>2. Switches(k, SwitchContext(Popped(k, c, m), c, next), c)
      BY <3>1, SwitchContextSwitches
    <3>. QED
      BY <2>1, <2>4, <3>2
  <2>. QED
    BY <2>3, <2>4
<1>. QED
  BY <1>3, <1>4

(* j follows k by a rescheduling of the cores below n: their threads run. *)
SwitchesTo(k, j, n) ==
  /\ Sound(j) /\ \A c \in Cores : c < n => RunsOn(j, c)
  /\ j.phase = k.phase /\ j.todo = k.todo /\ j.lagging = k.lagging
  /\ j.current_cpu = k.current_cpu /\ j.executing = k.executing
  /\ j.halted = k.halted /\ j.reschedule_pending = k.reschedule_pending
  /\ j.thread_list = k.thread_list
  /\ \A t \in Threads : j.status[t] = "Unborn" => k.status[t] = "Unborn"

(* RescheduleAll reschedules every core, if it was asked to. *)
LEMMA RescheduleAllSwitches ==
  ASSUME NEW k, Sound(k), k.reschedule_pending
  PROVE  \E a : /\ SwitchesTo(a, RescheduleAll(k), NumCores)
                /\ DOMAIN a = Fields /\ \A f \in Fields \ {"reschedule_pending"} : a[f] = k[f]
                /\ ~ a.reschedule_pending
<1>. DEFINE a == [k EXCEPT !.reschedule_pending = FALSE]
            s == [i \in 1 .. NumCores |-> i - 1]
            loop == [does |-> "reschedule"]
            F(f) == [n \in 0 .. Len(s) |-> IF n = 0 THEN a ELSE Reschedule(f[n - 1], s[n])]
            g == CHOOSE f : f = F(f)
<1>1. DOMAIN a = Fields /\ ~ a.reschedule_pending
      /\ \A f \in Fields \ {"reschedule_pending"} : a[f] = k[f]
  BY DEF Sound, Typed, Fields
<1>2. NumCores \in Nat /\ Len(s) = NumCores /\ \A i \in 1 .. NumCores : s[i] = i - 1
  <2>1. NumCores \in Nat
    BY KernelAssumption
  <2>2. s \in Seq(Int) /\ Len(s) = NumCores
    BY <2>1
  <2>. QED
    BY <2>1, <2>2
<1>3. \A l, x : Body(loop, l, x) = Reschedule(l, x)
  BY DEF Body
<1>4. RescheduleAll(k) = g[Len(s)]
  BY Zenon DEF RescheduleAll, ForEach
<1>. HIDE DEF s, loop, a
<1>5. \A f : F(f) = States(loop, s, a, f)
  BY <1>3 DEF States
<1>6. g = States(loop, s, a, g)
  <2>. HIDE DEF F
  <2>1. PICK f : f = States(loop, s, a, f)
    BY <1>2, StatesExist, Zenon
  <2>2. f = F(f)
    BY <1>5, <2>1
  <2>3. g = F(g)
    BY <2>2
  <2>. QED
    BY <1>5, <2>3
<1>. HIDE DEF g
<1>7. g[0] = a /\ \A i \in 1 .. NumCores : g[i] = Reschedule(g[i - 1], i - 1)
  <2>1. ASSUME NEW i \in 0 .. NumCores
        PROVE  g[i] = IF i = 0 THEN a ELSE Body(loop, g[i - 1], s[i])
    BY <1>2, <1>6 DEF States
  <2>. QED
    BY <1>2, <1>3, <2>1
<1>. DEFINE T == {n \in 0 .. NumCores : SwitchesTo(a, g[n], n)}
<1>8. 0 \in T
  <2>1. SameThreads(k, a)
    BY <1>1 DEF Sound, Typed, SameThreads, Fields
  <2>2. Sound(a)
    BY <2>1, SameSound
  <2>3. \A c \in Cores : ~ (c < 0)
    BY <1>2 DEF Cores
  <2>. QED
    BY <1>2, <1>7, <2>2, <2>3 DEF SwitchesTo
<1>9. ASSUME NEW n \in 1 .. NumCores, n - 1 \in T
      PROVE  n \in T
  <2>. DEFINE c == n - 1
              l == g[n - 1]
              j == g[n]
  <2>1. c \in Cores /\ SwitchesTo(a, l, c) /\ j = Reschedule(l, c)
    BY <1>2, <1>7, <1>9 DEF Cores
  <2>. HIDE DEF l, j
  <2>2. Switches(l, j, c)
    BY <2>1, RescheduleSwitches DEF SwitchesTo
  <2>3. \A d \in Cores : d < n => RunsOn(j, d)
    <3>. SUFFICES ASSUME NEW d \in Cores, d < n
                  PROVE  RunsOn(j, d)
      OBVIOUS
    <3>1. CASE d = c
      BY <2>2, <3>1 DEF Switches
    <3>2. CASE d # c
      <4>1. d < c
        BY <1>2, <3>2 DEF Cores
      <4>2. RunsOn(l, d)
        BY <2>1, <4>1 DEF SwitchesTo
      <4>3. j.current_thread[d] = l.current_thread[d]
        BY <2>2, <3>2 DEF Switches
      <4>4. l.current_thread[d] # NoThread =>
              l.current_thread[d] \in Threads /\ core_id[l.current_thread[d]] = d
        <5>1. Sound(l)
          BY <2>1 DEF SwitchesTo
        <5>. QED
          BY <5>1, CoreFacts
      <4>. QED
        BY <2>2, <3>2, <4>2, <4>3, <4>4 DEF Switches, RunsOn
    <3>. QED
      BY <3>1, <3>2
  <2>4. SwitchesTo(a, j, n)
    BY <2>1, <2>2, <2>3 DEF SwitchesTo, Switches
  <2>. QED
    BY <2>4 DEF j
<1>10. NumCores \in T
  <2>. HIDE DEF T
  <2>1. 0 .. NumCores \subseteq T
    BY <1>2, <1>8, <1>9, UpwardInduction, Zenon
  <2>. QED
    BY <1>2, <2>1
<1>. QED
  BY <1>1, <1>2, <1>4, <1>10

-----------------------------------------------------------------------------
(***************************************************************************)
(* The end of threads and of processes.                                    *)
(***************************************************************************)
LEMMA MovesItself ==
  ASSUME NEW k, Sound(k), NEW X
  PROVE  Moves(k, k, X)
BY WakesItself, WakesMoves

LEMMA LoopMoves ==
  ASSUME NEW loop, NEW s, Len(s) \in Nat, NEW base, Sound(base), NEW X,
         \A j : \A i \in 1 .. Len(s) : Moves(base, j, X) => Moves(j, Body(loop, j, s[i]), X),
         NEW f, f = States(loop, s, base, f)
  PROVE  Moves(base, f[Len(s)], X)
<1>1. f[0] = base /\ \A i \in 1 .. Len(s) : f[i] = Body(loop, f[i - 1], s[i])
  <2>1. ASSUME NEW i \in 0 .. Len(s)
        PROVE  f[i] = IF i = 0 THEN base ELSE Body(loop, f[i - 1], s[i])
    BY DEF States
  <2>. QED
    BY <2>1
<1>. DEFINE T == {n \in 0 .. Len(s) : Moves(base, f[n], X)}
<1>2. 0 \in T
  BY <1>1, MovesItself
<1>3. ASSUME NEW n \in 1 .. Len(s), n - 1 \in T
      PROVE  n \in T
  <2>1. Moves(base, f[n - 1], X) /\ f[n] = Body(loop, f[n - 1], s[n]) /\ n \in 0 .. Len(s)
    BY <1>1, <1>3
  <2>2. Moves(f[n - 1], f[n], X)
    BY <2>1
  <2>3. Moves(base, f[n], X)
    BY <2>1, <2>2, MovesOn
  <2>. QED
    BY <2>1, <2>3
<1>4. 0 .. Len(s) \subseteq T
  <2>. HIDE DEF T
  <2>. QED
    BY <1>2, <1>3, UpwardInduction, Zenon
<1>. QED
  BY <1>4

(* A thread leaves the list of its core. *)
LEMMA UnlistMoves ==
  ASSUME NEW k, Sound(k), NEW c \in Cores, NEW t, NEW X
  PROVE  Moves(k, [k EXCEPT !.thread_list[c] = Erase(@, t)], X)
<1>. DEFINE r == Erase(k.thread_list[c], t)
            j == [k EXCEPT !.thread_list[c] = Erase(@, t)]
<1>1. /\ k.thread_list[c] \in Seq(Threads) /\ k.thread_list \in [Cores -> Seq(Threads)]
      /\ DOMAIN k = Fields
  BY Zenon DEF Sound, Typed
<1>2. r \in Seq(Threads) /\ \A u : OccursIn(u, r) => OccursIn(u, k.thread_list[c])
  BY <1>1, EraseType, EraseElements
<1>3. /\ DOMAIN j = Fields /\ \A f \in Fields \ {"thread_list"} : j[f] = k[f]
      /\ j.thread_list = [k.thread_list EXCEPT ![c] = r]
  BY <1>1 DEF Fields
<1>. HIDE DEF j, r
<1>4. j.thread_list \in [Cores -> Seq(Threads)]
  BY <1>1, <1>2, <1>3
<1>5. Listed(j) \subseteq Listed(k)
  BY <1>1, <1>2, <1>3 DEF Listed
<1>6. Typed(j)
  BY <1>3, <1>4, ZenonT(30) DEF Sound, Typed, Fields
<1>7. Queued(j) /\ Placed(j)
  BY <1>3 DEF Sound, Queued, Placed, Fields
<1>8. Moves(k, j, X)
  BY <1>3, <1>5, <1>6, <1>7 DEF Moves, Sound, SamePlace, StillHalted, Fields
<1>. QED
  BY <1>8 DEF j

(* PrepareReschedule has stopped the core that it takes for the running one. *)
Halts(k) ==
  /\ k.reschedule_pending
  /\ k.phase = "run" /\ k.executing = k.current_cpu => k.halted

LEMMA PrepareRescheduleHalts ==
  ASSUME NEW k, Sound(k), NEW X
  PROVE  Moves(k, PrepareReschedule(k), X) /\ Halts(PrepareReschedule(k))
<1>1. Moves(k, PrepareReschedule(k), X)
  BY PrepareRescheduleWakes, WakesMoves
<1>2. Halts(PrepareReschedule(k))
  BY ZenonT(30) DEF Sound, Typed, Halts, PrepareReschedule, Fields
<1>. QED
  BY <1>1, <1>2

LEMMA ExitCurrentThreadMoves ==
  ASSUME NEW k, Sound(k), NEW c \in Cores, k.current_thread[c] # NoThread,
         k.status[k.current_thread[c]] # "Unborn"
  PROVE  LET cur == k.current_thread[c]
         IN  /\ Moves(k, ExitCurrentThread(k, c), {cur})
             /\ Halts(ExitCurrentThread(k, c))
<1>. DEFINE cur == k.current_thread[c]
            a == Stop(k, cur)
            b == [a EXCEPT !.thread_list[c] = Erase(@, cur)]
            d == PrepareReschedule(b)
<1>1. cur \in Threads
  BY DEF Sound, Typed
<1>2. ExitCurrentThread(k, c) = d
  BY DEF ExitCurrentThread
<1>. HIDE DEF cur
<1>3. Moves(k, a, {cur}) /\ Sound(a)
  BY <1>1, StopMoves, ZenonT(30) DEF Moves, cur
<1>. HIDE DEF a
<1>4. Moves(a, b, {cur}) /\ Sound(b)
  BY <1>3, UnlistMoves DEF Moves
<1>. HIDE DEF b
<1>5. Moves(b, d, {cur}) /\ Halts(d)
  BY <1>4, PrepareRescheduleHalts
<1>. HIDE DEF d
<1>6. Moves(k, d, {cur})
  BY <1>3, <1>4, <1>5, MovesOn
<1>. QED
  BY <1>2, <1>5, <1>6 DEF cur

LEMMA TerminateProcessThreadsMoves ==
  ASSUME NEW k, Sound(k), Created(k), NEW c \in Cores, NEW p
  PROVE  LET j == TerminateProcessThreads(k, c, p)
         IN  /\ Moves(k, j, Threads)
             /\ Halts(j) \/ Moves(k, j, Threads \ {k.current_thread[c]})
<1>. DEFINE cur == k.current_thread[c]
            X == Threads \ {cur}
            s == k.thread_list[c]
            loop == [does |-> "stop", of |-> p, on |-> c, but |-> cur]
            F(f) == [n \in 0 .. Len(s) |->
                       IF n = 0 THEN k
                       ELSE IF s[n] = cur \/ owner_process[s[n]] # p THEN f[n - 1]
                       ELSE [Stop(f[n - 1], s[n]) EXCEPT !.thread_list[c] = Erase(@, s[n])]]
            g == CHOOSE f : f = F(f)
            others == g[Len(s)]
<1>1. s \in Seq(Threads) /\ Len(s) \in Nat
  BY DEF Sound, Typed
<1>2. \A l, x : Body(loop, l, x) = IF x = cur \/ owner_process[x] # p THEN l
                                   ELSE [Stop(l, x) EXCEPT !.thread_list[c] = Erase(@, x)]
  BY DEF Body
<1>3. TerminateProcessThreads(k, c, p) =
        IF cur # NoThread /\ owner_process[cur] = p THEN ExitCurrentThread(others, c) ELSE others
  BY DEF TerminateProcessThreads, ForEach
<1>4. \A i \in 1 .. Len(s) : s[i] \in Threads /\ k.status[s[i]] # "Unborn"
  <2>1. \A i \in 1 .. Len(s) : s[i] \in Threads /\ OccursIn(s[i], s)
    BY <1>1 DEF OccursIn
  <2>. QED
    BY <2>1 DEF Created, Listed
<1>. HIDE DEF s, loop, cur
<1>5. \A f : F(f) = States(loop, s, k, f)
  <2>. SUFFICES ASSUME NEW f PROVE F(f) = States(loop, s, k, f)
    OBVIOUS
  <2>1. ASSUME NEW n \in 0 .. Len(s)
        PROVE  (IF n = 0 THEN k ELSE Body(loop, f[n - 1], s[n]))
                 = IF n = 0 THEN k
                   ELSE IF s[n] = cur \/ owner_process[s[n]] # p THEN f[n - 1]
                   ELSE [Stop(f[n - 1], s[n]) EXCEPT !.thread_list[c] = Erase(@, s[n])]
    BY <1>2
  <2>. QED
    BY <2>1, Zenon DEF States
<1>6. g = States(loop, s, k, g)
  <2>. HIDE DEF F
  <2>1. PICK f : f = States(loop, s, k, f)
    BY <1>1, StatesExist, Zenon
  <2>2. f = F(f)
    BY <1>5, <2>1
  <2>3. g = F(g)
    BY <2>2
  <2>. QED
    BY <1>5, <2>3
<1>. HIDE DEF g
<1>7. ASSUME NEW l, NEW i \in 1 .. Len(s), Moves(k, l, X)
      PROVE  Moves(l, Body(loop, l, s[i]), X)
  <2>. DEFINE t == s[i]
              a == Stop(l, t)
              b == [a EXCEPT !.thread_list[c] = Erase(@, t)]
  <2>1. t \in Threads /\ Sound(l) /\ l.status[t] # "Unborn"
    BY <1>4, <1>7 DEF Moves
  <2>2. Body(loop, l, t) = IF t = cur \/ owner_process[t] # p THEN l ELSE b
    BY <1>2
  <2>. HIDE DEF t
  <2>3. CASE t = cur \/ owner_process[t] # p
    BY <2>1, <2>2, <2>3, MovesItself DEF t
  <2>4. CASE ~ (t = cur \/ owner_process[t] # p)
    <3>1. Moves(l, a, {t}) /\ Sound(a)
      BY <2>1, StopMoves, Zenon DEF Moves
    <3>. HIDE DEF a
    <3>2. Moves(a, b, {t})
      BY <3>1, UnlistMoves, Zenon
    <3>. HIDE DEF b
    <3>3. Moves(l, b, {t})
      BY <3>1, <3>2, MovesOn
    <3>4. Moves(l, b, X)
      BY <2>1, <2>4, <3>3, MovesMore
    <3>. QED
      BY <2>2, <2>4, <3>4 DEF t
  <2>. QED
    BY <2>3, <2>4
<1>. HIDE DEF X
<1>8. Moves(k, others, X)
  BY <1>1, <1>6, <1>7, LoopMoves, Zenon
<1>. HIDE DEF others
<1>9. Sound(others) /\ others.current_thread = k.current_thread /\ Created(others)
  BY <1>8, MovesCreated DEF Moves, SamePlace
<1>10. Moves(k, others, Threads)
  BY <1>8, MovesMore DEF X
<1>11. CASE cur # NoThread /\ owner_process[cur] = p
  <2>. DEFINE e == ExitCurrentThread(others, c)
  <2>1. others.current_thread[c] = cur /\ others.status[cur] # "Unborn"
    BY <1>9, <1>11 DEF Created, cur
  <2>2. Moves(others, e, {cur}) /\ Halts(e)
    BY <1>9, <1>11, <2>1, ExitCurrentThreadMoves
  <2>3. TerminateProcessThreads(k, c, p) = e
    BY <1>3, <1>11
  <2>. HIDE DEF e
  <2>4. cur \in Threads
    BY <1>11 DEF Sound, Typed, cur
  <2>5. Moves(others, e, Threads)
    BY <2>2, <2>4, MovesMore
  <2>6. Moves(k, e, Threads)
    BY <1>10, <2>5, MovesOn
  <2>. QED
    BY <2>2, <2>3, <2>6
<1>12. CASE ~ (cur # NoThread /\ owner_process[cur] = p)
  <2>1. TerminateProcessThreads(k, c, p) = others
    BY <1>3, <1>12
  <2>. QED
    BY <1>8, <1>10, <2>1 DEF X, cur
<1>. QED
  BY <1>11, <1>12

LEMMA TerminateProcessMoves ==
  ASSUME NEW k, Sound(k), Created(k), NEW p
  PROVE  LET j == TerminateProcess(k, p)
         IN  /\ Moves(k, j, Threads)
             /\ NumCores = 1 => Halts(j) \/ Moves(k, j, Threads \ {k.current_thread[0]})
<1>. DEFINE a == ASSERT(k, k.process_running[p], "Process has already exited")
            b == [a EXCEPT !.process_running[p] = FALSE]
            s == [i \in 1 .. NumCores |-> i - 1]
            loop == [does |-> "end", of |-> p]
            F(f) == [n \in 0 .. Len(s) |-> IF n = 0 THEN b ELSE TerminateProcessThreads(f[n - 1], s[n], p)]
            g == CHOOSE f : f = F(f)
            j == g[Len(s)]
<1>1. DOMAIN b = Fields /\ \A f \in Fields \ Books : b[f] = k[f]
  <2>1. DOMAIN a = Fields /\ \A f \in Fields \ Books : a[f] = k[f]
    BY DEF ASSERT, Sound, Typed, Fields, Books
  <2>. HIDE DEF a
  <2>. QED
    BY <2>1 DEF Fields, Books
<1>2. NumCores \in Nat /\ Len(s) = NumCores /\ \A i \in 1 .. NumCores : s[i] = i - 1 /\ s[i] \in Cores
  <2>1. NumCores \in Nat
    BY KernelAssumption
  <2>2. s \in Seq(Int) /\ Len(s) = NumCores
    BY <2>1
  <2>. QED
    BY <2>1, <2>2 DEF Cores
<1>3. \A l, x : Body(loop, l, x) = TerminateProcessThreads(l, x, p)
  BY DEF Body
<1>4. TerminateProcess(k, p) = j
  BY DEF TerminateProcess, ForEach
<1>. HIDE DEF a, b, s, loop
<1>5. \A f : F(f) = States(loop, s, b, f)
  BY <1>3 DEF States
<1>6. g = States(loop, s, b, g)
  <2>. HIDE DEF F
  <2>1. PICK f : f = States(loop, s, b, f)
    BY <1>2, StatesExist, Zenon
  <2>2. f = F(f)
    BY <1>5, <2>1
  <2>3. g = F(g)
    BY <2>2
  <2>. QED
    BY <1>5, <2>3
<1>. HIDE DEF g
<1>7. Moves(k, b, {}) /\ Sound(b) /\ Created(b) /\ b.current_thread = k.current_thread
  <2>1. Moves(k, b, {})
    BY <1>1, BooksMove, Zenon
  <2>. QED
    BY <2>1, MovesCreated DEF Moves, SamePlace
<1>8. ASSUME NEW l, NEW i \in 1 .. Len(s), Moves(b, l, Threads)
      PROVE  Moves(l, Body(loop, l, s[i]), Threads)
  <2>1. Sound(l) /\ Created(l) /\ s[i] \in Cores
    BY <1>2, <1>7, <1>8, MovesCreated, Zenon DEF Moves
  <2>. QED
    BY <1>3, <2>1, TerminateProcessThreadsMoves, Zenon
<1>9. Moves(b, j, Threads)
  BY <1>2, <1>6, <1>7, <1>8, LoopMoves, Zenon
<1>10. Moves(k, j, Threads)
  BY <1>7, <1>9, MovesMore, MovesOn
<1>11. ASSUME NumCores = 1
       PROVE  Halts(j) \/ Moves(k, j, Threads \ {k.current_thread[0]})
  <2>. DEFINE X == Threads \ {k.current_thread[0]}
  <2>1. j = TerminateProcessThreads(b, 0, p) /\ 0 \in Cores
    <3>1. ASSUME NEW i \in 0 .. 1
          PROVE  g[i] = IF i = 0 THEN b ELSE Body(loop, g[i - 1], s[i])
      BY <1>2, <1>6, <1>11 DEF States
    <3>2. g[0] = b
      BY <3>1
    <3>3. g[1] = Body(loop, g[0], s[1])
      BY <3>1
    <3>. QED
      BY <1>2, <1>3, <1>11, <3>2, <3>3 DEF Cores
  <2>. HIDE DEF j
  <2>2. Halts(j) \/ Moves(b, j, X)
    BY <1>7, <2>1, TerminateProcessThreadsMoves
  <2>3. Moves(k, b, X)
    BY <1>7, MovesMore
  <2>. HIDE DEF X
  <2>4. Halts(j) \/ Moves(k, j, X)
    BY <2>2, <2>3, MovesOn
  <2>. QED
    BY <2>4 DEF X
<1>. QED
  BY <1>4, <1>10, <1>11
=============================================================================

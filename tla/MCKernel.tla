------------------------------ MODULE MCKernel ------------------------------
(***************************************************************************)
(* The kernel of an Old 3DS, which has one core: up to three threads of    *)
(* two processes run one of eight programs.                                *)
(***************************************************************************)
EXTENDS KernelArbiter

CONSTANTS t1, t2, t3, m1, m2, e1, e2, s1, tm1, a1, p1, p2

MCThreads    == {t1, t2, t3}
MCCores      == [t \in Threads |-> 0]
MCProcesses  == [t \in Threads |-> IF t = t1 THEN p1 ELSE p2]
MCMutexes    == {m1, m2}
MCMutexOrder == <<m1, m2>>
MCEvents     == {e1, e2}
MCSemaphores == {s1}
MCCounts     == [s \in Semaphores |-> 2]
MCTimers     == {tm1}
MCResetTypes == [o \in Events \cup Timers |-> IF o = e2 THEN "Pulse" ELSE "OneShot"]
MCArbiters   == {a1}
MCAddresses  == {0, 4}
MCValues     == {-1, 1}
MCMinWord    == -1
None         == {}
NoFunction   == [x \in {} |-> x]

(* t3 is the most urgent thread, t1 the least. *)
Ranked == [t \in Threads |-> CASE t = t1 -> {2} [] t = t2 -> {1} [] OTHER -> {0}]

(* Two threads at the start; the third is created. *)
Idle ==
  [ MainThreads |-> <<t1, t2>>, DelayedStart |-> {FALSE}, Priorities |-> Ranked,
    Timeouts |-> {-1}, Uses |-> {}, WaitOne |-> {}, WaitLists |-> {}, SelfWait |-> FALSE,
    Terminable |-> {}, Calls |-> {}, MaxLocks |-> 2 ]

OldPrograms ==
  [ mutex |->
      [Idle EXCEPT !.Priorities = [t \in Threads |-> IF t = t3 THEN {0, 2} ELSE Ranked[t]],
                   !.Uses = Mutexes, !.WaitOne = Mutexes,
                   !.Calls = {"WaitSynchronization1", "SetThreadPriority", "ExitThread"}],
    wait |->
      [Idle EXCEPT !.Timeouts = {-1, 1}, !.Uses = {e1, e2, s1},
                   !.WaitOne = {t3}, !.WaitLists = {<<e1, s1>>, <<e2, e1>>},
                   !.Calls = {"WaitSynchronization1", "WaitSynchronizationAll",
                              "WaitSynchronizationAny", "SignalEvent", "ExitThread"}],
    timers |->
      [Idle EXCEPT !.DelayedStart = BOOLEAN, !.Timeouts = {-1, 0, 1}, !.Uses = {tm1, m1},
                   !.Priorities = [Ranked EXCEPT ![t3] = {}],
                   !.WaitOne = {tm1, m1}, !.WaitLists = {<<m1, tm1>>},
                   !.Calls = {"WaitSynchronization1", "WaitSynchronizationAll", "Clear", "SleepThread"}],
    terminate |->
      [Idle EXCEPT !.MainThreads = <<t1, t3>>, !.Timeouts = {-1, 1}, !.Uses = {m1},
                   !.WaitOne = {m1, t1, t2, t3}, !.Terminable = {p2}, !.MaxLocks = 1,
                   !.Calls = {"WaitSynchronization1", "ExitThread", "ExitProcess"}],
    arbitrate |->
      [Idle EXCEPT !.Priorities = [Ranked EXCEPT ![t3] = {0, 1}],
                   !.Timeouts = {1}, !.Calls = {"ArbitrateAddress"}],
    arbitrate_and_terminate |->
      [Idle EXCEPT !.MainThreads = <<t1, t3>>, !.Priorities = [Ranked EXCEPT ![t2] = {}],
                   !.Timeouts = {1}, !.Terminable = {p2}, !.Calls = {"ArbitrateAddress"}],
    wait_for_oneself |->
      [Idle EXCEPT !.WaitOne = {t1, t2}, !.SelfWait = TRUE,
                   !.Calls = {"WaitSynchronization1", "ExitProcess"}],
    wait_twice |->
      [Idle EXCEPT !.Uses = {e1}, !.WaitLists = {<<e1, e1>>},
                   !.Calls = {"WaitSynchronizationAll", "SignalEvent"}] ]

(* TLC evaluates OldPrograms once, and a definition that replaces a constant at each use. *)
MCPrograms == OldPrograms
=============================================================================

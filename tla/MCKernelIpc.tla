----------------------------- MODULE MCKernelIpc -----------------------------
(***************************************************************************)
(* Clients, a server and services of the emulator, with a port, a service  *)
(* that is registered late, two sessions to them and the session of an HLE *)
(* service; and threads of two cores that share a mutex and an event.      *)
(***************************************************************************)
EXTENDS KernelIpc

CONSTANTS t1, t2, t3, m1, e1, e2, e3, s1, s2, hle, port, service, p1

TwoThreads    == {t1, t2}
ThreeThreads  == {t1, t2, t3}
FirstCore     == [t \in Threads |-> 0]
TwoCores      == [t \in Threads |-> IF t = t1 THEN 0 ELSE 1]
MCProcess     == [t \in Threads |-> p1]
MCMutexes     == {m1}
MCMutexOrder  == <<m1>>
MCEvents      == {e1, e2, e3}
MCResetTypes  == [o \in Events |-> "OneShot"]
MCPauses      == [t \in Threads |-> CASE t = t1 -> e1 [] t = t2 -> e2 [] OTHER -> e3]
MCSessions    == {s1, s2, hle}
OnlyHle       == {hle}
MCHleSessions == {hle}
MCPorts       == {port, service}
MCMaxSessions == [p \in Ports |-> IF p = port THEN 2 ELSE 1]
None          == {}
NoOrder       == << >>
NoFunction    == [x \in {} |-> x]

Ranked            == [t \in Threads |-> CASE t = t1 -> {2} [] t = t2 -> {1} [] OTHER -> {0}]
ServerFirstOrLast == [t \in Threads |-> IF t \in {t1, t2} THEN {1} ELSE {0, 2}]

(* Two clients, and a server if there is a third thread. *)
Idle ==
  [ MainThreads |-> <<t1>>, DelayedStart |-> {FALSE}, Priorities |-> ServerFirstOrLast,
    Timeouts |-> {-1}, Uses |-> {}, WaitOne |-> {}, WaitLists |-> {}, SelfWait |-> FALSE,
    Terminable |-> {}, Calls |-> {}, MaxLocks |-> 0,
    Clients |-> {t1, t2}, Servers |-> Threads \ {t1, t2}, Services |-> {}, Handlers |-> {},
    ReceiveLists |-> {}, Closing |-> FALSE ]

IpcPrograms ==
  [ sessions |->
      [Idle EXCEPT !.Uses = {port}, !.Closing = TRUE,
                   !.ReceiveLists = {<< >>, <<port>>, <<s1>>, <<s1, s2>>, <<port, s2, s1>>}],
    services |->
      [Idle EXCEPT !.Uses = {service}, !.Services = {service}, !.ReceiveLists = {<<service>>}],
    hle |->
      [Idle EXCEPT !.Priorities = Ranked, !.Clients = Threads, !.Servers = {}, !.Timeouts = {-1, 1},
                   !.Handlers = {"respond", "sleep", "async"}],
    cores |->
      [Idle EXCEPT !.Priorities = Ranked, !.Clients = {}, !.Servers = {}, !.Timeouts = {1},
                   !.Uses = {e3, m1}, !.WaitOne = {e3, m1}, !.MaxLocks = 1,
                   !.Calls = {"WaitSynchronization1", "SignalEvent"}] ]

(* TLC evaluates IpcPrograms once, and a definition that replaces a constant at each use. *)
MCPrograms == IpcPrograms

(* Two threads of one core of a New 3DS, under fairness. *)
ProgressPrograms ==
  [ waits |->
      [Idle EXCEPT !.Priorities = Ranked, !.Timeouts = {-1, 1}, !.Uses = {e3}, !.WaitOne = {e3},
                   !.Calls = {"WaitSynchronization1", "SignalEvent", "SleepThread"}],
    requests |->
      [Idle EXCEPT !.Priorities = Ranked, !.Handlers = {"respond", "async"}] ]

Progressing == ProgressPrograms
(* A thread of each core, and an event to wait for. *)
WaitForTheEvent ==
  [ wait_for_the_event |->
      [Idle EXCEPT !.Priorities = Ranked, !.Clients = {}, !.Servers = {}, !.Uses = {e3},
                   !.WaitOne = {e3}, !.Calls = {"WaitSynchronization1", "SignalEvent"}] ]
=============================================================================

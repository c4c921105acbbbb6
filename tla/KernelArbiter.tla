---------------------------- MODULE KernelArbiter ----------------------------
(***************************************************************************)
(* Address arbiters (core/hle/kernel/address_arbiter.cpp) in the kernel:   *)
(* threads wait under an arbiter for an address of guest memory, depending *)
(* on the word there, until another thread signals the address or their    *)
(* timeout ends.  An arbiter keeps a list of its own; it is not one of the *)
(* objects that a thread lists among its wait_objects.                     *)
(***************************************************************************)
EXTENDS Kernel

CONSTANTS
  Addresses,
  Values,       \* the words that guest code stores, and the values it arbitrates with
  MinWord       \* bound: a word is not decremented below it

ASSUME ArbiterAssumption == Values \subseteq Int /\ MinWord \in Int

VARIABLE
  memory        \* memory[address]: the word, as an s32

vars == <<k, program, memory>>

ArbInit ==
  /\ Init
  /\ memory \in [Addresses -> IF Makes("ArbitrateAddress") THEN Values ELSE {0}]

(* ArbitrationType::Signal: a negative value resumes all, another one so many. *)
SVC_ArbitrateSignal(a, address, value) ==
  /\ Guest
  /\ LET resumed == IF value < 0 THEN ResumeAllThreads(k, a, address)
                    ELSE ForEach([i \in 1 .. value |-> address], k,
                                 LAMBDA j, x : ResumeHighestPriorityThread(j, a, x))
     IN  Return(PrepareReschedule(resumed), "Success")
  /\ UNCHANGED memory

(* The current thread waits if the word is less than the value. *)
ArbitrateWait(j, a, address, waits, timeout, timed) ==
  LET armed == IF timed
               THEN WakeAfterDelay([j EXCEPT !.wakeup_callback[Cur] = "arb"], Cur, timeout)
               ELSE j
  IN  IF waits THEN WaitThread(armed, Cur, a, address) ELSE j

(* The four ways to wait: with or without decrement, with or without timeout. *)
SVC_ArbitrateWait(a, address, value, decrement, timed, timeout) ==
  /\ Guest
  /\ LET waits == memory[address] < value
         j     == ArbitrateWait(k, a, address, waits, timeout, timed)
     IN  /\ decrement /\ waits => memory[address] > MinWord
         /\ Return(PrepareReschedule(j), IF timed THEN "Timeout" ELSE "Success")
         /\ memory' = IF decrement /\ waits THEN [memory EXCEPT ![address] = @ - 1] ELSE memory

(* Guest code stores a word. *)
Store(address, value) ==
  /\ Guest
  /\ memory' = [memory EXCEPT ![address] = value]
  /\ UNCHANGED k

Arbitration ==
  /\ Makes("ArbitrateAddress")
  /\ \/ \E a \in Arbiters, address \in Addresses, value \in Values :
          SVC_ArbitrateSignal(a, address, value)
     \/ \E a \in Arbiters, address \in Addresses, value \in Values, decrement, timed \in BOOLEAN,
           timeout \in Timeouts : SVC_ArbitrateWait(a, address, value, decrement, timed, timeout)
     \/ \E address \in Addresses, value \in Values : Store(address, value)

ArbNext ==
  \/ Next /\ UNCHANGED memory
  \/ k.fault = "none" /\ Arbitration

ArbSpec == ArbInit /\ [][ArbNext /\ UNCHANGED program]_vars

-----------------------------------------------------------------------------
(* Properties. *)

(***************************************************************************)
(* The lists of the arbiters hold exactly the threads that wait for an     *)
(* address, each once: a signal, a timeout and the two in either order     *)
(* each take a thread off its list and make it ready together.  (Stop does *)
(* not: a thread of a process that is terminated stays in the list.)       *)
(***************************************************************************)
ArbitersAgree ==
  \A t \in Threads : k.process_running[owner_process[t]] =>
    MapThenSumSet(LAMBDA a : Cardinality({i \in DOMAIN k.arb_waiting[a] : k.arb_waiting[a][i] = t}), Arbiters)
      = IF k.status[t] = "WaitArb" THEN 1 ELSE 0

(***************************************************************************)
(* What the code stores on two sides is the same on both: the wait lists   *)
(* of the objects and the wait_objects of the threads, the holders of the  *)
(* mutexes and the held_mutexes, the lists of the arbiters and the threads *)
(* that wait for an address.  Every way to end a wait, a lock or a thread  *)
(* (a signal, a timeout, an exit, a termination) must clear both.          *)
(***************************************************************************)
BothSidesAgree == WaitListsAgree /\ MutexOwnership /\ ArbitersAgree
=============================================================================

----------------------------- MODULE MCReadyQueue -----------------------------
(* ReadyQueue with four levels and three threads. *)
EXTENDS ReadyQueue

CONSTANTS t1, t2, t3

ConstThreads == {t1, t2, t3}

==============================================================================

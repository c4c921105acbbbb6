----------------------------- MODULE TeakraThread -----------------------------
(***************************************************************************)
(* The thread of the emulated DSP (audio_core/lle/lle.cpp) and the barrier *)
(* of common/thread.h that keeps it in step with the CPU thread.  All      *)
(* accesses to the barrier hold its mutex, so a critical section is a      *)
(* step; stop_signal and stop_generation are not protected by it.          *)
(***************************************************************************)
EXTENDS Integers

CONSTANTS
  MaxGenerations,    \* bound on the uses of the barrier
  MaxLoads           \* bound on the components that are loaded

VARIABLE dsp

Sides == {"cpu", "teakra"}

TeakraThreadInit ==
  dsp = [at |-> [s \in Sides |-> "idle"], seen |-> [s \in Sides |-> 0], then |-> "idle",
         generation |-> 0, waiting |-> 0, stop_signal |-> FALSE, stop_generation |-> 0,
         loads |-> 0, joinable |-> FALSE, slices |-> 0]

At(s, label) == dsp.at[s] = label

Other(s) == CHOOSE o \in Sides : o # s

-----------------------------------------------------------------------------
(* Barrier::Sync with a count of two; after is where the caller goes on *)

SyncEnds(s, after) ==
  /\ dsp.waiting + 1 = 2
  /\ dsp' = [dsp EXCEPT !.generation = @ + 1, !.waiting = 0,
                        !.at = [dsp.at EXCEPT ![s] = after,
                                  ![Other(s)] = IF @ = "blocked" THEN "woken" ELSE @]]

SyncWaits(s) ==
  /\ dsp.waiting + 1 # 2
  /\ dsp' = [dsp EXCEPT !.waiting = @ + 1, !.seen[s] = dsp.generation, !.at[s] = "blocked"]

SyncReturns(s, after) ==
  /\ At(s, "woken")
  /\ dsp' = [dsp EXCEPT !.at[s] = IF dsp.seen[s] # dsp.generation THEN after ELSE "blocked"]

Sync(s, after) ==
  \/ At(s, "sync") /\ (SyncEnds(s, after) \/ SyncWaits(s))
  \/ SyncReturns(s, after)

-----------------------------------------------------------------------------
(* The thread of the DSP *)

RunSlice ==
  /\ At("teakra", "run")
  /\ dsp' = [dsp EXCEPT !.slices = @ + 1, !.at["teakra"] = "sync"]

CheckStopSignal ==
  /\ At("teakra", "check")
  /\ dsp' = [dsp EXCEPT !.at["teakra"] = IF dsp.stop_signal THEN "compare" ELSE "run"]

CompareGeneration ==
  /\ At("teakra", "compare")
  /\ dsp' = [dsp EXCEPT !.at["teakra"] = IF dsp.stop_generation = dsp.generation
                                         THEN "clear" ELSE "run"]

ClearStopSignal ==
  /\ At("teakra", "clear")
  /\ dsp' = [dsp EXCEPT !.stop_signal = FALSE, !.at["teakra"] = "ended"]

Teakra == RunSlice \/ Sync("teakra", "check") \/ CheckStopSignal \/ CompareGeneration \/ ClearStopSignal

-----------------------------------------------------------------------------
(* The CPU thread *)

LoadComponent ==
  /\ At("cpu", "idle") /\ ~dsp.joinable /\ dsp.loads < MaxLoads
  /\ dsp' = [dsp EXCEPT !.loads = @ + 1, !.joinable = TRUE, !.at["teakra"] = "run"]

RunTeakraSlice ==
  /\ At("cpu", "idle") /\ dsp.joinable /\ dsp.generation < MaxGenerations
  /\ dsp' = [dsp EXCEPT !.at["cpu"] = "sync", !.then = "idle"]

StopTeakraThread ==
  /\ At("cpu", "idle") /\ dsp.joinable
  /\ dsp' = [dsp EXCEPT !.stop_generation = dsp.generation + 1, !.at["cpu"] = "signal"]

SetStopSignal ==
  /\ At("cpu", "signal")
  /\ dsp' = [dsp EXCEPT !.stop_signal = TRUE, !.at["cpu"] = "sync", !.then = "join"]

Join ==
  /\ At("cpu", "join") /\ At("teakra", "ended")
  /\ dsp' = [dsp EXCEPT !.joinable = FALSE, !.at = [cpu |-> "idle", teakra |-> "idle"]]

Cpu == SetStopSignal \/ Sync("cpu", dsp.then) \/ Join

Calls == LoadComponent \/ RunTeakraSlice \/ StopTeakraThread

-----------------------------------------------------------------------------
(* The DSP is never behind the CPU, nor more than a slice ahead of it; a       *)
(* thread that was joined leaves a barrier behind that a new one can use.      *)
Lockstep ==
  /\ dsp.slices - dsp.generation \in {0, 1}
  /\ ~dsp.joinable => /\ dsp.slices = dsp.generation
                      /\ dsp.waiting = 0 /\ ~dsp.stop_signal

(* The CPU thread is at a barrier or in a join; it gets past both. *)
CpuWaits == ~At("cpu", "idle")
=============================================================================

------------------------------ MODULE HostBuffers ------------------------------
(***************************************************************************)
(* The queues between threads that are arrays used as rings: the queue of  *)
(* the log, the ring buffer of the audio sink and the pipes of the DSP.    *)
(***************************************************************************)
EXTENDS Integers, HostScenario

CONSTANTS
  Loggers, Entries, Capacity, MAX_LOGS_TO_WRITE,  \* LogQueue
  capacity, SlotCounts, MaxPushed,                \* RingBuffer
  bsize, WrapBit, MaxBytes                        \* DspPipe

ASSUME LogConstants ==
  /\ Capacity \in Nat \ {0} /\ Entries \in Nat
  /\ Null \notin Loggers /\ Null \notin Loggers \X Nat

ASSUME RingConstants == capacity \in Nat \ {0} /\ SlotCounts \subseteq Nat

ASSUME PipeConstants == bsize \in Nat \ {0} /\ WrapBit \in Nat /\ bsize < WrapBit

Log == INSTANCE LogQueue WITH log <- host
Ring == INSTANCE RingBuffer WITH ring <- host
Pipe == INSTANCE DspPipe WITH pipes <- host

-----------------------------------------------------------------------------
(* Who calls the objects, and when, is up to the emulator. *)
BufferCalls ==
  \/ In("log") /\ Log!Calls
  \/ In("pipe") /\ Pipe!Calls

(* The threads of the objects, and the calls that have begun *)
Logger(l) == In("log") /\ Log!PushEntry(l)
LogBackend == In("log") /\ Log!Backend
AudioDsp == In("ring") /\ Ring!Push
AudioSink == In("ring") /\ Ring!Pop
PipeCpu == In("pipe") /\ Pipe!Cpu
PipeDsp == In("pipe") /\ Pipe!DspTakesCommand

BuffersInit ==
  /\ scenario \in Scenarios
  /\ \/ scenario = "log" /\ Log!LogQueueInit
     \/ scenario = "ring" /\ Ring!RingBufferInit
     \/ scenario = "pipe" /\ Pipe!DspPipeInit

BuffersNext ==
  \/ BufferCalls
  \/ (\E l \in Loggers : Logger(l)) \/ LogBackend
  \/ AudioDsp \/ AudioSink
  \/ PipeCpu \/ PipeDsp

BuffersSpec == BuffersInit /\ [][BuffersNext]_vars

-----------------------------------------------------------------------------
(* A buffer between host threads gives out what was put in, once and in order, *)
(* and no slot of it is read while the other side writes it: ring_buffer.h,    *)
(* the queue of the log up to the entry it repeats when it is stopped, and the *)
(* pipes of the DSP, whose assertions hold.                                    *)
BuffersKeepOrder ==
  /\ scenario = "log" => Log!WrittenInOrder /\ Log!NoRace
  /\ scenario = "ring" => Ring!InOrder /\ Ring!NoRace
  /\ scenario = "pipe" => Pipe!InOrder
=============================================================================

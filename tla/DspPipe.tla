-------------------------------- MODULE DspPipe --------------------------------
(***************************************************************************)
(* The pipes between the CPU and the emulated DSP (audio_core/lle/lle.cpp) *)
(* live in the memory of the DSP, whose thread runs while the CPU thread   *)
(* reads and writes them.  A pipe is a ring of bsize bytes with two        *)
(* pointers that carry a wrap bit; each side moves one of the two.  The    *)
(* side of the DSP is firmware, of which this module only assumes that it  *)
(* reads what is there and writes where there is room, a byte at a time.   *)
(***************************************************************************)
EXTENDS Integers, Sequences

CONSTANTS
  bsize,
  WrapBit,        \* above bsize; the values below it are those of the PtrMask
  MaxBytes,       \* bound on the bytes through a pipe
  Null

VARIABLE pipes

Directions == {"DSPtoCPU", "CPUtoDSP"}

Idle == [at |-> "idle", direction |-> Null, read_bptr |-> 0, write_bptr |-> 0, left |-> 0]

DspPipeInit ==
  pipes = [status |-> [d \in Directions |-> [read_bptr |-> 0, write_bptr |-> 0]],
           data |-> [d \in Directions |-> [b \in 0 .. bsize - 1 |-> 0]],
           sent |-> [d \in Directions |-> 0], received |-> [d \in Directions |-> <<>>],
           command |-> Null, cpu |-> Idle, failed |-> FALSE]

Offset(bptr) == bptr % WrapBit

IsWrapped(status) == (status.read_bptr \div WrapBit) # (status.write_bptr \div WrapBit)

IsFull(status) == IsWrapped(status) /\ Offset(status.read_bptr) = Offset(status.write_bptr)

IsEmpty(status) == status.read_bptr = status.write_bptr

(* A pointer that reaches the end starts over with its wrap bit turned. *)
Forward(bptr, count) ==
  IF Offset(bptr) + count = bsize THEN WrapBit * (1 - bptr \div WrapBit) ELSE bptr + count

(* u16 arithmetic, cut to the bits of the PtrMask *)
GetPipeReadableSize(direction) ==
  LET status == pipes.status[direction]
      size == status.write_bptr - status.read_bptr
  IN  Offset(2 * WrapBit + size + (IF IsWrapped(status) THEN bsize ELSE 0))

-----------------------------------------------------------------------------
(* The CPU thread.  A call works on a copy of the status it made first. *)

Begin(direction, count) ==
  /\ pipes.cpu.at = "idle"
  /\ pipes' = [pipes EXCEPT !.cpu = [at |-> "copy", direction |-> direction, left |-> count,
                                     read_bptr |-> pipes.status[direction].read_bptr,
                                     write_bptr |-> pipes.status[direction].write_bptr]]

(* The caller writes no more than there is room for. *)
WritePipe ==
  \E count \in 1 .. bsize :
    /\ count <= bsize - GetPipeReadableSize("CPUtoDSP")
    /\ pipes.sent["CPUtoDSP"] + count <= MaxBytes
    /\ Begin("CPUtoDSP", count)

(* ReadPipe and ReadPipeIfPossible of dsp:DSP ask for the size first. *)
ReadPipe == \E size \in 1 .. bsize : size <= GetPipeReadableSize("DSPtoCPU") /\ Begin("DSPtoCPU", size)

MinOf(a, b) == IF a < b THEN a ELSE b

WriteChunk ==
  /\ pipes.cpu.at = "copy" /\ pipes.cpu.direction = "CPUtoDSP" /\ pipes.cpu.left > 0
  /\ LET end == IF IsWrapped(pipes.cpu) THEN Offset(pipes.cpu.read_bptr) ELSE bsize
         begin == Offset(pipes.cpu.write_bptr)
         count == MinOf(pipes.cpu.left, end - begin)
     IN  IF IsFull(pipes.cpu) \/ end <= begin
         THEN pipes' = [pipes EXCEPT !.failed = TRUE, !.cpu.at = "aborted"]
         ELSE pipes' = [pipes EXCEPT
                !.data["CPUtoDSP"] = [b \in 0 .. bsize - 1 |->
                   IF b \in begin .. begin + count - 1
                   THEN pipes.sent["CPUtoDSP"] + 1 + b - begin ELSE @[b]],
                !.sent["CPUtoDSP"] = @ + count,
                !.cpu.write_bptr = Forward(@, count), !.cpu.left = @ - count]

ReadChunk ==
  /\ pipes.cpu.at = "copy" /\ pipes.cpu.direction = "DSPtoCPU" /\ pipes.cpu.left > 0
  /\ LET end == IF IsWrapped(pipes.cpu) THEN bsize ELSE Offset(pipes.cpu.write_bptr)
         begin == Offset(pipes.cpu.read_bptr)
         count == MinOf(pipes.cpu.left, end - begin)
     IN  IF IsEmpty(pipes.cpu) \/ end <= begin
         THEN pipes' = [pipes EXCEPT !.failed = TRUE, !.cpu.at = "aborted"]
         ELSE pipes' = [pipes EXCEPT
                !.received["DSPtoCPU"] =
                   @ \o [k \in 1 .. count |-> pipes.data["DSPtoCPU"][begin + k - 1]],
                !.cpu.read_bptr = Forward(@, count), !.cpu.left = @ - count]

(* Mutant: the whole copy of the status is written back. *)
UpdateWholeStatus ==
  /\ pipes.cpu.at = "copy" /\ pipes.cpu.left = 0
  /\ pipes' = [pipes EXCEPT
       !.status[pipes.cpu.direction] = [read_bptr |-> pipes.cpu.read_bptr,
                                        write_bptr |-> pipes.cpu.write_bptr],
       !.cpu.at = "send"]

UpdatePipeStatus ==
  /\ pipes.cpu.at = "copy" /\ pipes.cpu.left = 0
  /\ pipes' = [pipes EXCEPT
       !.status = IF pipes.cpu.direction = "DSPtoCPU"
                  THEN [@ EXCEPT !["DSPtoCPU"].read_bptr = pipes.cpu.read_bptr]
                  ELSE [@ EXCEPT !["CPUtoDSP"].write_bptr = pipes.cpu.write_bptr],
       !.cpu.at = "send"]

(* The CPU runs slices until the command register is free. *)
SendData ==
  /\ pipes.cpu.at = "send" /\ pipes.command = Null
  /\ pipes' = [pipes EXCEPT !.command = pipes.cpu.direction, !.cpu = Idle]

Cpu == WriteChunk \/ ReadChunk \/ UpdatePipeStatus \/ SendData

-----------------------------------------------------------------------------
(* The firmware *)

DspWrites ==
  LET status == pipes.status["DSPtoCPU"]
  IN  /\ ~IsFull(status) /\ pipes.sent["DSPtoCPU"] < MaxBytes
      /\ pipes' = [pipes EXCEPT
           !.data["DSPtoCPU"][Offset(status.write_bptr)] = pipes.sent["DSPtoCPU"] + 1,
           !.sent["DSPtoCPU"] = @ + 1,
           !.status["DSPtoCPU"].write_bptr = Forward(@, 1)]

DspReads ==
  LET status == pipes.status["CPUtoDSP"]
  IN  /\ ~IsEmpty(status)
      /\ pipes' = [pipes EXCEPT
           !.received["CPUtoDSP"] = Append(@, pipes.data["CPUtoDSP"][Offset(status.read_bptr)]),
           !.status["CPUtoDSP"].read_bptr = Forward(@, 1)]

DspTakesCommand == pipes.command # Null /\ pipes' = [pipes EXCEPT !.command = Null]

Calls == WritePipe \/ ReadPipe \/ DspWrites \/ DspReads

-----------------------------------------------------------------------------
(* Bytes come out once and in the order they went in, the size that is         *)
(* reported is the number of bytes that were not read yet, and no assertion    *)
(* on the state of a pipe fails.                                               *)
InOrder ==
  /\ ~pipes.failed
  /\ \A d \in Directions : \A k \in DOMAIN pipes.received[d] : pipes.received[d][k] = k
  /\ pipes.cpu.at = "idle" =>
       \A d \in Directions :
         GetPipeReadableSize(d) = pipes.sent[d] - Len(pipes.received[d])

(* The CPU thread is in a call; it returns from every one. *)
CpuWaits == pipes.cpu.at # "idle"
=============================================================================

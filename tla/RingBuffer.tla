------------------------------ MODULE RingBuffer ------------------------------
(***************************************************************************)
(* RingBuffer of common/ring_buffer.h, through which the DSP hands its     *)
(* samples to the audio sink: one thread pushes runs of slots, another     *)
(* pops them.  The indices are only published after the slots are copied.  *)
(***************************************************************************)
EXTENDS Integers, Sequences

CONSTANTS
  capacity,
  SlotCounts,     \* the sizes of the runs that are pushed and popped
  MaxPushed,      \* bound on the slots offered to the buffer
  Null

VARIABLE ring

NoCopy == [at |-> "idle", index |-> 0, count |-> 0]

RingBufferInit ==
  ring = [m_data |-> [pos \in 0 .. capacity - 1 |-> Null], m_read_index |-> 0, m_write_index |-> 0,
          push |-> NoCopy, pop |-> NoCopy, offered |-> 0, out |-> <<>>]

MinOf(a, b) == IF a < b THEN a ELSE b

(* The part of a run before the end of the array, and the part after it *)
FirstCopy(op) == MinOf(capacity - (op.index % capacity), op.count)

Slot(index, k) == (index + k) % capacity

-----------------------------------------------------------------------------
(* Push: load of the two indices, two copies, store of the write index *)

PushBegins(slot_count) ==
  /\ ring.push.at = "idle"
  /\ ring.offered + slot_count <= MaxPushed
  /\ LET slots_free == capacity + ring.m_read_index - ring.m_write_index
     IN  ring' = [ring EXCEPT !.push = [at |-> "first", index |-> ring.m_write_index,
                                        count |-> MinOf(slot_count, slots_free)],
                              !.offered = @ + slot_count]

(* The number of a slot's content is its place among the slots pushed. *)
CopyIn(from, count) ==
  [pos \in 0 .. capacity - 1 |->
     IF \E k \in from .. from + count - 1 : Slot(ring.push.index, k) = pos
     THEN ring.push.index + (CHOOSE k \in from .. from + count - 1 : Slot(ring.push.index, k) = pos)
     ELSE ring.m_data[pos]]

PushFirst ==
  /\ ring.push.at = "first"
  /\ ring' = [ring EXCEPT !.m_data = CopyIn(0, FirstCopy(ring.push)), !.push.at = "second"]

PushSecond ==
  /\ ring.push.at = "second"
  /\ ring' = [ring EXCEPT !.m_data = CopyIn(FirstCopy(ring.push),
                                            ring.push.count - FirstCopy(ring.push)),
                          !.push.at = "store"]

PushStore ==
  /\ ring.push.at = "store"
  /\ ring' = [ring EXCEPT !.m_write_index = ring.push.index + ring.push.count, !.push = NoCopy]

Push == (\E slot_count \in SlotCounts : PushBegins(slot_count)) \/ PushFirst \/ PushSecond \/ PushStore

-----------------------------------------------------------------------------
(* Pop *)

PopBegins(max_slots) ==
  /\ ring.pop.at = "idle"
  /\ LET slots_filled == ring.m_write_index - ring.m_read_index
     IN  ring' = [ring EXCEPT !.pop = [at |-> "first", index |-> ring.m_read_index,
                                       count |-> MinOf(slots_filled, max_slots)]]

CopyOut(from, count) ==
  ring.out \o [k \in 1 .. count |-> ring.m_data[Slot(ring.pop.index, from + k - 1)]]

PopFirst ==
  /\ ring.pop.at = "first"
  /\ ring' = [ring EXCEPT !.out = CopyOut(0, FirstCopy(ring.pop)), !.pop.at = "second"]

PopSecond ==
  /\ ring.pop.at = "second"
  /\ ring' = [ring EXCEPT !.out = CopyOut(FirstCopy(ring.pop),
                                          ring.pop.count - FirstCopy(ring.pop)),
                          !.pop.at = "store"]

PopStore ==
  /\ ring.pop.at = "store"
  /\ ring' = [ring EXCEPT !.m_read_index = ring.pop.index + ring.pop.count, !.pop = NoCopy]

Pop == (\E max_slots \in SlotCounts : PopBegins(max_slots)) \/ PopFirst \/ PopSecond \/ PopStore

-----------------------------------------------------------------------------
Span(op) == IF op.at \in {"first", "second"}
            THEN {Slot(op.index, k) : k \in 0 .. op.count - 1} ELSE {}

(* What is popped is what was pushed: slot after slot, none lost or repeated. *)
InOrder == \A k \in DOMAIN ring.out : ring.out[k] = k - 1

(* The two threads never copy the same slot at the same time. *)
NoRace == Span(ring.push) \cap Span(ring.pop) = {}
=============================================================================

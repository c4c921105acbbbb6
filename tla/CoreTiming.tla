----------------------------- MODULE CoreTiming -----------------------------
(***************************************************************************)
(* Core::Timing::Timer (core/core_timing.cpp): the clock of one core and   *)
(* the events that are scheduled on it.  A timer is a record of its data   *)
(* members; an event is its time and its user_data.  The heap of events,   *)
(* ordered by (time, fifo_order), is the sequence in that order, and       *)
(* ts_queue is the queue of events that other threads have scheduled.      *)
(***************************************************************************)
EXTENDS Integers, Sequences, SequencesExt, Deques

CONSTANT MAX_SLICE_LENGTH

ASSUME SliceAssumption == MAX_SLICE_LENGTH \in Nat \ {0}

Event(time, user_data) == [time |-> time, user_data |-> user_data]

NewTimer(base_ticks) ==
  [ event_queue    |-> << >>,
    ts_queue       |-> << >>,
    is_timer_sane  |-> TRUE,
    slice_length   |-> MAX_SLICE_LENGTH,
    downcount      |-> MAX_SLICE_LENGTH,
    executed_ticks |-> base_ticks ]

GetTicks(timer) ==
  timer.executed_ticks + IF timer.is_timer_sane THEN 0 ELSE timer.slice_length - timer.downcount

AddTicks(timer, ticks) == [timer EXCEPT !.downcount = @ - ticks]

(* push_heap with the next fifo_order: after the events that are not later. *)
Insert(queue, event) ==
  LET before == Max({0} \cup {i \in DOMAIN queue : queue[i].time <= event.time})
  IN  InsertAt(queue, before + 1, event)

(* Mutant: a slice runs on past an event that is scheduled into it. *)
ForceExceptionCheckNever(timer, cycles) == timer

(* Shorten the slice to the given number of cycles. *)
ForceExceptionCheck(timer, cycles) ==
  LET left == IF cycles > 0 THEN cycles ELSE 0
  IN  IF timer.downcount > left
      THEN [timer EXCEPT !.slice_length = @ - (timer.downcount - left), !.downcount = left]
      ELSE timer

(* ScheduleEvent on the timer of the running core, by the emulation thread. *)
ScheduleEvent(timer, cycles, user_data) ==
  LET checked == IF timer.is_timer_sane THEN timer ELSE ForceExceptionCheck(timer, cycles)
  IN  [checked EXCEPT !.event_queue = Insert(@, Event(GetTicks(timer) + cycles, user_data))]

(* UnscheduleEvent of the emulation thread; ts_queue is not looked through. *)
UnscheduleEvent(timer, user_data) ==
  [timer EXCEPT !.event_queue = EraseIn(@, {e \in Range(@) : e.user_data = user_data})]

(***************************************************************************)
(* ScheduleEvent with thread_safe_mode, when the other thread has read     *)
(* ticks from the timer: at least two slices into the future.              *)
(***************************************************************************)
ScheduleThreadSafe(timer, ticks, cycles, user_data) ==
  LET far == IF cycles > 2 * MAX_SLICE_LENGTH THEN cycles ELSE 2 * MAX_SLICE_LENGTH
  IN  [timer EXCEPT !.ts_queue = Append(@, Event(ticks + far, user_data))]

(* Mutant: events of other threads get lost. *)
MoveEventsLost(timer) == [timer EXCEPT !.ts_queue = << >>]

MoveEvents(timer) ==
  LET moved[n \in 0 .. Len(timer.ts_queue)] ==
        IF n = 0 THEN timer.event_queue ELSE Insert(moved[n - 1], timer.ts_queue[n])
  IN  [timer EXCEPT !.event_queue = moved[Len(timer.ts_queue)], !.ts_queue = << >>]

(* Mutant: the cycles of the slice are not counted. *)
BeginAdvanceUncounted(timer) ==
  [MoveEvents(timer) EXCEPT !.slice_length = 0, !.downcount = 0, !.is_timer_sane = TRUE]

(* Advance up to its loop. *)
BeginAdvance(timer) ==
  [MoveEvents(timer) EXCEPT !.executed_ticks = @ + (timer.slice_length - timer.downcount),
                            !.slice_length = 0,
                            !.downcount = 0,
                            !.is_timer_sane = TRUE]

(* The condition of the loop of Advance. *)
EventIsDue(timer) ==
  timer.event_queue # << >> /\ timer.event_queue[1].time <= timer.executed_ticks

(* Take the first event, before its callback is called. *)
PopEvent(timer) == [timer EXCEPT !.event_queue = Tail(@)]

(* The end of Advance. *)
EndAdvance(timer) == [timer EXCEPT !.is_timer_sane = FALSE]

(* GetMaxSliceLength, and the ASSERT in it. *)
GetMaxSliceLength(timer) ==
  IF timer.event_queue = << >> THEN MAX_SLICE_LENGTH
  ELSE timer.event_queue[1].time - timer.executed_ticks

NextEventIsAhead(timer) ==
  timer.event_queue # << >> => timer.event_queue[1].time - timer.executed_ticks > 0

(* x >> n *)
ShiftRight(x, n) ==
  LET shifted[i \in 0 .. n] == IF i = 0 THEN x ELSE shifted[i - 1] \div 2
  IN  shifted[n]

(* The hack lets a core execute less than the slice that it is charged for. *)
SetNextSlice(timer, max_slice_length, hack) ==
  LET ahead == timer.event_queue[1].time - timer.executed_ticks
      slice == IF timer.event_queue # << >> /\ ahead < max_slice_length THEN ahead
               ELSE max_slice_length
  IN  [timer EXCEPT !.slice_length = slice, !.downcount = ShiftRight(slice, hack)]

Idle(timer) == [timer EXCEPT !.downcount = 0]
=============================================================================

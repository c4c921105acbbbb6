---------------------------- MODULE PriorityQueue ----------------------------
(***************************************************************************)
(* What a ready queue promises to the scheduler, without the chain of      *)
(* linked levels: one FIFO of threads per priority level, from which a pop *)
(* takes the front thread of the most urgent level that has one.           *)
(***************************************************************************)
EXTENDS Integers, Sequences, Deques

CONSTANTS
  NUM_QUEUES,   \* number of priority levels
  Threads,      \* the threads that may be queued
  NoThread      \* the result of a pop that has no thread to give

VARIABLES
  data,     \* data[p]: the threads waiting at level p, in order
  popped    \* what the last pop returned

vars == <<data, popped>>

Level == 0 .. NUM_QUEUES - 1

(* The levels below `stop' that have a thread. *)
Busy(stop) == {p \in 0 .. stop - 1 : data[p] # << >>}

Init ==
  /\ data = [p \in Level |-> << >>]
  /\ popped = NoThread

Pop(stop) ==
  \/ /\ Busy(stop) = {}
     /\ popped' = NoThread
     /\ UNCHANGED data
  \/ \E p \in Busy(stop) :
        /\ \A i \in Busy(stop) : p <= i
        /\ popped' = Head(data[p])
        /\ data' = [data EXCEPT ![p] = Tail(@)]

PopFirst == Pop(NUM_QUEUES)

PopFirstBetter(p) == Pop(p)

PushFront(t, p) ==
  /\ data' = [data EXCEPT ![p] = <<t>> \o @]
  /\ UNCHANGED popped

PushBack(t, p) ==
  /\ data' = [data EXCEPT ![p] = Append(@, t)]
  /\ UNCHANGED popped

Remove(t, p) ==
  /\ data' = [data EXCEPT ![p] = Erase(@, t)]
  /\ UNCHANGED popped

Move(t, old, new) ==
  /\ LET without == [data EXCEPT ![old] = Erase(@, t)]
     IN  data' = [without EXCEPT ![new] = Append(@, t)]
  /\ UNCHANGED popped

Rotate(p) ==
  /\ Len(data[p]) > 1
  /\ data' = [data EXCEPT ![p] = Append(Tail(@), Head(@))]
  /\ UNCHANGED popped

Clear ==
  /\ data' = [p \in Level |-> << >>]
  /\ UNCHANGED popped

Next ==
  \/ PopFirst
  \/ Clear
  \/ \E p \in Level : PopFirstBetter(p) \/ Rotate(p)
  \/ \E t \in Threads, p \in Level : PushFront(t, p) \/ PushBack(t, p) \/ Remove(t, p)
  \/ \E t \in Threads, old, new \in Level : Move(t, old, new)

Spec == Init /\ [][Next]_vars
=============================================================================

--------------------------- MODULE ThreadQueueList ---------------------------
(***************************************************************************)
(* Common::ThreadQueueList<T, N> (common/thread_queue_list.h): the ready   *)
(* queue of a core.  An array of N double-ended queues, one per priority   *)
(* level (0 is the most urgent), whose levels in use are linked, in        *)
(* ascending order, from `first' through `next_nonempty'.                  *)
(*                                                                         *)
(* A list is a record with the fields of the C++ struct; an operation that *)
(* changes it maps a list to a list.  A Queue* is the index of its level,  *)
(* with ToIndex's codes for the two pointers that denote no level, so that *)
(* the pointer comparison of pop_first_better is integer comparison:       *)
(* nullptr compares below every level.                                     *)
(***************************************************************************)
EXTENDS Integers, Sequences, FiniteSetsExt, Deques

CONSTANTS
  NUM_QUEUES,   \* number of priority levels
  Threads,      \* the values of type T
  NoThread      \* T(): the value popped from a list that has none to give

ASSUME NumQueuesAssumption == NUM_QUEUES \in Nat \ {0}

ASSUME NoThreadAssumption == NoThread \notin Threads

Level == 0 .. NUM_QUEUES - 1

UnlinkedTag == -1
Nullptr     == -2

(* The constructor, and clear(). *)
EmptyList ==
  [ first         |-> Nullptr,
    next_nonempty |-> [p \in Level |-> UnlinkedTag],
    data          |-> [p \in Level |-> << >>] ]

(* The type of a list of threads. *)
Lists ==
  [ first         : Level \cup {Nullptr},
    next_nonempty : [Level -> Level \cup {Nullptr, UnlinkedTag}],
    data          : [Level -> Seq(Threads)] ]

(* The levels in use. *)
Linked(q) == {p \in Level : q.next_nonempty[p] # UnlinkedTag}

(* Mutant: the level below is not made to point to the new one. *)
linkForgetsPredecessor(q, p) ==
  LET below == Linked(q) \cap (0 .. p - 1)
      next  == q.next_nonempty
  IN  IF below # {}
      THEN [q EXCEPT !.next_nonempty = [next EXCEPT ![p] = next[Max(below)]]]
      ELSE [q EXCEPT !.next_nonempty = [next EXCEPT ![p] = q.first],
                     !.first = p]

(***************************************************************************)
(* link(): insert the level after the closest linked level below it, or    *)
(* at the head of the chain when there is none.                            *)
(***************************************************************************)
link(q, p) ==
  LET below == Linked(q) \cap (0 .. p - 1)
      next  == q.next_nonempty
  IN  IF below # {}
      THEN [q EXCEPT !.next_nonempty =
                       [next EXCEPT ![p] = next[Max(below)], ![Max(below)] = p]]
      ELSE [q EXCEPT !.next_nonempty = [next EXCEPT ![p] = q.first],
                     !.first = p]

prepare(q, p) == IF p \in Linked(q) THEN q ELSE link(q, p)

push_front(q, p, t) == [q EXCEPT !.data[p] = <<t>> \o @]

push_back(q, p, t) == [q EXCEPT !.data[p] = Append(@, t)]

remove(q, p, t) == [q EXCEPT !.data[p] = Erase(@, t)]

(* Mutant: move() without its prepare(). *)
moveUnprepared(q, t, old, new) == push_back(remove(q, old, t), new, t)

move(q, t, old, new) == push_back(prepare(remove(q, old, t), new), new, t)

rotate(q, p) ==
  IF Len(q.data[p]) > 1
  THEN [q EXCEPT !.data[p] = Append(Tail(@), Head(@))]
  ELSE q

(***************************************************************************)
(* The loop of the three getters: follow the chain from `first' while      *)
(* `cur < stop', up to a level that has a thread.  get_first and pop_first *)
(* run to the end of the chain (`cur != nullptr'): their stop is past the  *)
(* last level.  In pop_first_better nullptr is below `stop', so a chain    *)
(* that ends before it reaches `stop' makes the loop dereference a null    *)
(* pointer: its result is then Nullptr.                                    *)
(***************************************************************************)
Walk(q, stop) ==
  LET walk[cur \in Linked(q) \cup {Nullptr}] ==
        IF cur = Nullptr \/ cur >= stop \/ q.data[cur] # << >>
        THEN cur
        ELSE walk[q.next_nonempty[cur]]
  IN  walk[q.first]

(* Take the front thread of level p off the list. *)
PopFront(q, p) == [q EXCEPT !.data[p] = Tail(@)]

(* What get_first() and pop_first() return, and the list pop_first leaves. *)
get_first(q) ==
  LET p == Walk(q, NUM_QUEUES)
  IN  IF p = Nullptr THEN NoThread ELSE Head(q.data[p])

pop_first(q) ==
  LET p == Walk(q, NUM_QUEUES)
  IN  IF p = Nullptr THEN q ELSE PopFront(q, p)

(* Does pop_first_better(stop) run off the chain? *)
PopBetterFaults(q, stop) == Walk(q, stop) = Nullptr

(* What pop_first_better(stop) returns, and the list it leaves. *)
get_first_better(q, stop) ==
  LET p == Walk(q, stop)
  IN  IF p \in 0 .. stop - 1 THEN Head(q.data[p]) ELSE NoThread

(* Mutant: also takes a thread of the caller's own priority. *)
pop_first_betterOrEqual(q, stop) ==
  LET p == Walk(q, stop)
  IN  IF p \in 0 .. stop /\ q.data[p] # << >> THEN PopFront(q, p) ELSE q

pop_first_better(q, stop) ==
  LET p == Walk(q, stop)
  IN  IF p \in 0 .. stop - 1 THEN PopFront(q, p) ELSE q

(***************************************************************************)
(* The chain is well formed: it starts at the lowest linked level, every   *)
(* linked level points to the next linked one, and the last to nullptr.    *)
(***************************************************************************)
IsNextLinked(S, n, p) ==
  \/ n = Nullptr /\ \A i \in S : i < p
  \/ n \in S /\ n >= p /\ \A i \in S : i < p \/ i >= n

ChainOrdered(q) ==
  /\ IsNextLinked(Linked(q), q.first, 0)
  /\ \A p \in Linked(q) : IsNextLinked(Linked(q), q.next_nonempty[p], p + 1)
=============================================================================

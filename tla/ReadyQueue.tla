------------------------------ MODULE ReadyQueue ------------------------------
(***************************************************************************)
(* A ThreadQueueList driven the way ThreadManager drives ready_queue       *)
(* (core/hle/kernel/thread.cpp): a level is prepared before a thread is    *)
(* pushed on it, or before it is the priority of the running thread        *)
(* (CreateThread, SetPriority, BoostPriority all prepare), a thread is     *)
(* pushed only when it is not in the queue and removed or moved at the     *)
(* level it is in.                                                         *)
(***************************************************************************)
EXTENDS ThreadQueueList

VARIABLES
  q,        \* the ThreadQueueList
  popped    \* what the last pop returned

queue_vars == <<q, popped>>

Queued(t, p) == \E i \in DOMAIN q.data[p] : q.data[p][i] = t

InNoQueue(t) == \A p \in Level : ~ Queued(t, p)

QueueInit ==
  /\ q = EmptyList
  /\ popped = NoThread

Prepare(p) ==
  /\ q' = prepare(q, p)
  /\ UNCHANGED popped

PushFront(t, p) ==
  /\ InNoQueue(t) /\ p \in Linked(q)
  /\ q' = push_front(q, p, t)
  /\ UNCHANGED popped

PushBack(t, p) ==
  /\ InNoQueue(t) /\ p \in Linked(q)
  /\ q' = push_back(q, p, t)
  /\ UNCHANGED popped

PopFirst ==
  /\ popped' = get_first(q)
  /\ q' = pop_first(q)

PopFirstBetter(p) ==
  /\ p \in Linked(q)
  /\ popped' = get_first_better(q, p)
  /\ q' = pop_first_better(q, p)

Remove(t, p) ==
  /\ Queued(t, p)
  /\ q' = remove(q, p, t)
  /\ UNCHANGED popped

Move(t, old, new) ==
  /\ Queued(t, old)
  /\ q' = move(q, t, old, new)
  /\ UNCHANGED popped

Rotate(p) ==
  /\ q' = rotate(q, p)
  /\ UNCHANGED popped

ClearQueue ==
  /\ q' = EmptyList
  /\ UNCHANGED popped

QueueNext ==
  \/ PopFirst
  \/ ClearQueue
  \/ \E p \in Level : Prepare(p) \/ PopFirstBetter(p) \/ Rotate(p)
  \/ \E t \in Threads, p \in Level : PushFront(t, p) \/ PushBack(t, p) \/ Remove(t, p)
  \/ \E t \in Threads, old, new \in Level : Move(t, old, new)

QueueSpec == QueueInit /\ [][QueueNext]_queue_vars

-----------------------------------------------------------------------------
(* The list is a list of threads, and a pop returns a thread or nothing. *)
QueueTypeOK ==
  /\ q \in Lists
  /\ popped \in Threads \cup {NoThread}

(***************************************************************************)
(* No thread is ever left on a level that the chain does not reach, where  *)
(* pop_first would never find it, and the chain is in priority order.      *)
(***************************************************************************)
ChainReachesThreads ==
  /\ ChainOrdered(q)
  /\ \A p \in Level : q.data[p] # << >> => p \in Linked(q)

(* A thread is queued at most once: popping it leaves no stale copy. *)
QueuedOnce ==
  \A t \in Threads, p, r \in Level :
    \A i \in DOMAIN q.data[p], j \in DOMAIN q.data[r] :
      q.data[p][i] = t /\ q.data[r][j] = t => p = r /\ i = j

(***************************************************************************)
(* The list is sound: of its types, chained to every thread in it, in      *)
(* order, and without duplicates.  The operations of thread_queue_list.h   *)
(* need all three of it, and preserve all three.                           *)
(***************************************************************************)
QueueSound == QueueTypeOK /\ ChainReachesThreads /\ QueuedOnce

(***************************************************************************)
(* pop_first_better(p) does not run off the end of the chain when p is the *)
(* priority of a thread that was created or moved, hence a linked level:   *)
(* the loop has no null check of its own.                                  *)
(***************************************************************************)
NoNullDereference ==
  \A p \in Linked(q) : ~ PopBetterFaults(q, p)

(* The list with its chain implements the plain priority queue. *)
PQ == INSTANCE PriorityQueue WITH data <- q.data

ImplementsPriorityQueue == PQ!Spec
=============================================================================

------------------------------ MODULE LinkedQueue ------------------------------
(***************************************************************************)
(* The unbounded queues of common/threadsafe_queue.h: SPSCQueue, a linked  *)
(* list that its writer and its reader use without a lock, and MPSCQueue,  *)
(* which serializes several writers.  An action is one access to memory    *)
(* that another thread can see.  The atomics are sequentially consistent,  *)
(* except for the release and acquire of next, which order the same        *)
(* accesses.                                                               *)
(***************************************************************************)
EXTENDS Integers, Sequences

CONSTANTS
  Writers,
  Pushes,        \* bound on the elements that are pushed
  Pops,          \* the number of calls the reader makes
  Null

VARIABLE lq

(* The cells of the list in the order they are created in *)
Cells == 0 .. Pushes

Fresh == [current |-> Null, next |-> Null, live |-> TRUE]

Dead == [Fresh EXCEPT !.live = FALSE]

(* How the reader may call the queue *)
Modes == {"Pop", "PopWait", "PopWaitStop"}

LinkedQueueInit ==
  lq = [cells     |-> [k \in Cells |-> IF k = 0 THEN Fresh ELSE Dead],
        created   |-> 0,               \* the last cell that was created
        write_ptr |-> 0, read_ptr |-> 0, size |-> 0,
        write_lock |-> Null, cv_mutex |-> FALSE,
        writer    |-> [w \in Writers |-> "idle"],
        reader    |-> "idle", mode |-> "Pop", tmpptr |-> Null, calls |-> 0,
        stop      |-> FALSE,
        pushed    |-> <<>>, popped |-> <<>>]

At(w, label) == lq.writer[w] = label

ReaderAt(label) == lq.reader = label

-----------------------------------------------------------------------------
(* Push *)

PushBegins(w) ==
  /\ At(w, "idle") /\ lq.created < Pushes /\ lq.write_lock = Null
  /\ lq' = [lq EXCEPT !.write_lock = w, !.writer[w] = "current"]

WriteCurrent(w) ==
  /\ At(w, "current")
  /\ LET element == <<w, lq.created>>
     IN  lq' = [lq EXCEPT !.cells[lq.write_ptr].current = element, !.writer[w] = "next",
                          !.pushed = Append(@, element)]

LinkNext(w) ==
  /\ At(w, "next")
  /\ lq' = [lq EXCEPT !.created = @ + 1,
                      !.cells = [@ EXCEPT ![lq.created + 1] = Fresh,
                                          ![lq.write_ptr].next = lq.created + 1],
                      !.writer[w] = "write_ptr"]

AdvanceWritePtr(w) ==
  /\ At(w, "write_ptr")
  /\ lq' = [lq EXCEPT !.write_ptr = lq.created, !.writer[w] = "size"]

IncrementSize(w) ==
  /\ At(w, "size")
  /\ lq' = [lq EXCEPT !.size = @ + 1, !.writer[w] = "notify"]

(* Mutant: the reader is notified without cv_mutex. *)
NotifyUnlocked(w) ==
  /\ At(w, "notify")
  /\ lq' = [lq EXCEPT !.reader = IF @ = "blocked" THEN "lock" ELSE @, !.writer[w] = "idle",
                      !.write_lock = Null]

Notify(w) ==
  /\ At(w, "notify") /\ ~lq.cv_mutex
  /\ lq' = [lq EXCEPT !.reader = IF @ = "blocked" THEN "lock" ELSE @, !.writer[w] = "idle",
                      !.write_lock = Null]

Push(w) ==
  \/ PushBegins(w)
  \/ WriteCurrent(w)
  \/ LinkNext(w)
  \/ AdvanceWritePtr(w)
  \/ IncrementSize(w)
  \/ Notify(w)

-----------------------------------------------------------------------------
(* Pop and PopWait *)

PopBegins ==
  /\ ReaderAt("idle") /\ lq.calls < Pops
  /\ \E mode \in Modes :
       lq' = [lq EXCEPT !.mode = mode, !.calls = @ + 1,
                        !.reader = IF mode = "Pop" THEN "empty" ELSE "wait_empty"]

(* PopWait looks at the size before it takes the mutex. *)
PopWaitEmpty ==
  /\ ReaderAt("wait_empty")
  /\ lq' = [lq EXCEPT !.reader = IF lq.size = 0 THEN "lock" ELSE "stopped"]

LockCv ==
  /\ ReaderAt("lock") /\ ~lq.cv_mutex
  /\ lq' = [lq EXCEPT !.cv_mutex = TRUE, !.reader = "predicate"]

Stopped == lq.stop /\ lq.mode = "PopWaitStop"

Predicate ==
  /\ ReaderAt("predicate")
  /\ IF lq.size # 0 \/ Stopped
     THEN lq' = [lq EXCEPT !.cv_mutex = FALSE, !.reader = "stopped"]
     ELSE lq' = [lq EXCEPT !.reader = "block"]

(* The wait gives up the mutex; the wait with a stop token looks at it once more. *)
Block ==
  /\ ReaderAt("block")
  /\ lq' = [lq EXCEPT !.cv_mutex = FALSE, !.reader = IF Stopped THEN "lock" ELSE "blocked"]

(* PopWait(stop_token) returns an empty element when a stop was requested. *)
LookAtStop ==
  /\ ReaderAt("stopped")
  /\ lq' = [lq EXCEPT !.reader = IF Stopped THEN "idle" ELSE "empty"]

PopEmpty ==
  /\ ReaderAt("empty")
  /\ lq' = [lq EXCEPT !.reader = IF lq.size = 0 THEN "idle" ELSE "decrement"]

DecrementSize ==
  /\ ReaderAt("decrement")
  /\ lq' = [lq EXCEPT !.size = @ - 1, !.reader = "advance"]

AdvanceReadPtr ==
  /\ ReaderAt("advance")
  /\ lq' = [lq EXCEPT !.tmpptr = lq.read_ptr, !.read_ptr = lq.cells[lq.read_ptr].next,
                      !.reader = "take"]

TakeElement ==
  /\ ReaderAt("take")
  /\ lq' = [lq EXCEPT !.popped = Append(@, lq.cells[lq.tmpptr].current),
                      !.cells[lq.tmpptr] = Dead, !.tmpptr = Null, !.reader = "idle"]

Reader ==
  \/ PopWaitEmpty \/ LockCv \/ Predicate \/ Block \/ LookAtStop
  \/ PopEmpty \/ DecrementSize \/ AdvanceReadPtr \/ TakeElement

(* The owner of the reader's thread asks it to stop. *)
RequestStop ==
  /\ ~lq.stop
  /\ lq' = [lq EXCEPT !.stop = TRUE,
                      !.reader = IF @ = "blocked" /\ lq.mode = "PopWaitStop" THEN "lock" ELSE @]

(* Condition variables wake without a reason, too. *)
SpuriousWakeup == ReaderAt("blocked") /\ lq' = [lq EXCEPT !.reader = "lock"]

Calls == PopBegins \/ RequestStop \/ SpuriousWakeup

-----------------------------------------------------------------------------
(* Elements come out once and in the order they went in. *)
InOrder ==
  /\ Len(lq.popped) <= Len(lq.pushed)
  /\ lq.popped = SubSeq(lq.pushed, 1, Len(lq.popped))

(* The reader never touches a cell that is being written, follows no link that *)
(* is not set, and neither end of the list is ever a cell that was deleted.    *)
NoRace ==
  /\ lq.read_ptr # Null /\ lq.cells[lq.read_ptr].live /\ lq.cells[lq.write_ptr].live
  /\ \A w \in Writers :
       lq.writer[w] \in {"current", "next"} => lq.tmpptr # lq.write_ptr
  /\ ReaderAt("advance") => lq.cells[lq.read_ptr].next # Null

(* A reader that sleeps although there is something for it; not for long *)
ReaderAsleep == ReaderAt("blocked") /\ (lq.size > 0 \/ Stopped)
=============================================================================

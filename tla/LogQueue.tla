------------------------------- MODULE LogQueue -------------------------------
(***************************************************************************)
(* The bounded queue of common/bounded_threadsafe_queue.h, as the log uses *)
(* it: threads that log push with EmplaceWait, one backend thread pops     *)
(* with PopWait until it is asked to stop and drains the queue with TryPop *)
(* then.  The queue is an array of Capacity slots with two counters that   *)
(* only grow; an action is one access that another thread can see.         *)
(***************************************************************************)
EXTENDS Integers, Sequences

CONSTANTS
  Loggers,
  Entries,            \* the number of entries each logger pushes
  Capacity,
  MAX_LOGS_TO_WRITE,
  Null

VARIABLE log

LogQueueInit ==
  log = [m_data |-> [pos \in 0 .. Capacity - 1 |-> Null], m_read_index |-> 0, m_write_index |-> 0,
         write_mutex |-> Null, producer_cv_mutex |-> Null, consumer_cv_mutex |-> FALSE,
         logger |-> [l \in Loggers |-> "idle"], left |-> [l \in Loggers |-> Entries],
         backend |-> "loop", mode |-> "PopWait", entry |-> Null, max_logs |-> MAX_LOGS_TO_WRITE,
         stop |-> FALSE, before_stop |-> 0, queued |-> <<>>, written |-> <<>>]

At(l, label) == log.logger[l] = label

BackendAt(label) == log.backend = label

-----------------------------------------------------------------------------
(* PushEntry: EmplaceWait of MPSCQueue *)

EmplaceBegins(l) ==
  /\ At(l, "idle") /\ log.left[l] > 0 /\ log.write_mutex = Null
  /\ log' = [log EXCEPT !.write_mutex = l, !.left[l] = @ - 1, !.logger[l] = "lock"]

LockProducerCv(l) ==
  /\ At(l, "lock") /\ log.producer_cv_mutex = Null
  /\ log' = [log EXCEPT !.producer_cv_mutex = l, !.logger[l] = "predicate"]

HasFreeSlot == log.m_write_index - log.m_read_index < Capacity

WaitForSlot(l) ==
  /\ At(l, "predicate")
  /\ IF HasFreeSlot
     THEN log' = [log EXCEPT !.producer_cv_mutex = Null, !.logger[l] = "emplace"]
     ELSE log' = [log EXCEPT !.logger[l] = "block"]

LoggerBlocks(l) ==
  /\ At(l, "block")
  /\ log' = [log EXCEPT !.producer_cv_mutex = Null, !.logger[l] = "blocked"]

Emplace(l) ==
  /\ At(l, "emplace")
  /\ LET entry == <<l, log.left[l]>>
     IN  log' = [log EXCEPT !.m_data[log.m_write_index % Capacity] = entry,
                            !.queued = Append(@, entry), !.logger[l] = "increment"]

IncrementWriteIndex(l) ==
  /\ At(l, "increment")
  /\ log' = [log EXCEPT !.m_write_index = @ + 1, !.logger[l] = "notify"]

NotifyConsumer(l) ==
  /\ At(l, "notify") /\ ~log.consumer_cv_mutex
  /\ log' = [log EXCEPT !.backend = IF @ = "blocked" THEN "lock" ELSE @,
                        !.write_mutex = Null, !.logger[l] = "idle"]

PushEntry(l) ==
  \/ EmplaceBegins(l) \/ LockProducerCv(l) \/ WaitForSlot(l) \/ LoggerBlocks(l)
  \/ Emplace(l) \/ IncrementWriteIndex(l) \/ NotifyConsumer(l)

-----------------------------------------------------------------------------
(* The backend thread *)

BackendLoop ==
  /\ BackendAt("loop")
  /\ log' = [log EXCEPT !.backend = IF log.stop THEN "drain" ELSE "lock",
                        !.mode = IF log.stop THEN "TryPop" ELSE "PopWait"]

LockConsumerCv ==
  /\ BackendAt("lock") /\ ~log.consumer_cv_mutex
  /\ log' = [log EXCEPT !.consumer_cv_mutex = TRUE, !.backend = "predicate"]

IsEmpty == log.m_read_index = log.m_write_index

WaitForEntry ==
  /\ BackendAt("predicate")
  /\ IF ~IsEmpty \/ log.stop
     THEN log' = [log EXCEPT !.backend = "stopped"]
     ELSE log' = [log EXCEPT !.backend = "block"]

BackendBlocks ==
  /\ BackendAt("block")
  /\ log' = [log EXCEPT !.consumer_cv_mutex = FALSE,
                        !.backend = IF log.stop THEN "lock" ELSE "blocked"]

(* PopWait leaves the entry of the last call in place when it is stopped. *)
LookAtStop ==
  /\ BackendAt("stopped")
  /\ log' = [log EXCEPT !.consumer_cv_mutex = FALSE,
                        !.backend = IF log.stop THEN "write" ELSE "move"]

(* The loop that drains the queue: max_logs_to_write-- && TryPop(entry) *)
Drain ==
  /\ BackendAt("drain")
  /\ IF log.max_logs = 0 \/ IsEmpty
     THEN log' = [log EXCEPT !.backend = "ended"]
     ELSE log' = [log EXCEPT !.max_logs = @ - 1, !.backend = "move"]

MoveEntry ==
  /\ BackendAt("move")
  /\ log' = [log EXCEPT !.entry = log.m_data[log.m_read_index % Capacity],
                        !.backend = "increment"]

IncrementReadIndex ==
  /\ BackendAt("increment")
  /\ log' = [log EXCEPT !.m_read_index = @ + 1, !.backend = "notify"]

(* producer_cv has one waiter at most, the logger that holds write_mutex. *)
NotifyProducer ==
  /\ BackendAt("notify") /\ log.producer_cv_mutex = Null
  /\ log' = [log EXCEPT !.logger = [l \in Loggers |-> IF @[l] = "blocked" THEN "lock" ELSE @[l]],
                        !.backend = "write"]

WriteLogs ==
  /\ BackendAt("write")
  /\ log' = [log EXCEPT !.written = IF log.entry = Null THEN @ ELSE Append(@, log.entry),
                        !.backend = IF log.mode = "TryPop" THEN "drain" ELSE "loop"]

Backend ==
  \/ BackendLoop \/ LockConsumerCv \/ WaitForEntry \/ BackendBlocks \/ LookAtStop \/ Drain
  \/ MoveEntry \/ IncrementReadIndex \/ NotifyProducer \/ WriteLogs

(* StopBackendThread; the join is the end of the backend. *)
RequestStop ==
  /\ ~log.stop
  /\ log' = [log EXCEPT !.stop = TRUE, !.backend = IF @ = "blocked" THEN "lock" ELSE @,
                        !.before_stop = log.m_write_index]

SpuriousWakeup ==
  \/ BackendAt("blocked") /\ log' = [log EXCEPT !.backend = "lock"]
  \/ \E l \in Loggers : At(l, "blocked") /\ log' = [log EXCEPT !.logger[l] = "lock"]

Calls == RequestStop \/ SpuriousWakeup

-----------------------------------------------------------------------------
(* Entries are written once and in the order of the queue, apart from the last *)
(* one before the stop, which the backend writes a second time: a PopWait that *)
(* is stopped leaves its entry in place.  What was queued before the stop is   *)
(* written before the backend ends, up to MAX_LOGS_TO_WRITE.                   *)
WrittenInOrder ==
  /\ \E again \in 2 .. Len(log.written) + 2 :
       /\ again <= Len(log.written) => log.stop
       /\ \A i \in DOMAIN log.written :
            LET place == IF i < again THEN i ELSE i - 1
            IN  place <= Len(log.queued) /\ log.written[i] = log.queued[place]
  /\ BackendAt("ended") => log.m_read_index >= log.before_stop \/ log.max_logs = 0

(* No slot is written while it is read or before it was read. *)
NoRace ==
  \A l \in Loggers :
    At(l, "emplace") => \A k \in log.m_read_index .. log.m_write_index - 1 :
                          k % Capacity # log.m_write_index % Capacity

(* What must not last: a backend that sleeps although there is an entry or     *)
(* that goes on after the stop, and a logger that waits for a slot as long as  *)
(* there is a backend                                                          *)
BackendAsleep == BackendAt("blocked") /\ ~IsEmpty
Stopping == log.stop /\ ~BackendAt("ended")
LoggerAsleep(l) == At(l, "blocked") /\ ~BackendAt("ended")
=============================================================================

----------------------------- MODULE ThreadWorker -----------------------------
(***************************************************************************)
(* StatefulThreadWorker of common/thread_worker.h: worker threads that run *)
(* the tasks an owner queues, and an owner that waits for all of them (the *)
(* software rasterizer does so for every triangle).  A critical section of *)
(* queue_mutex is a step, but the owner's wait is two, since the counters  *)
(* it looks at change without the mutex.                                   *)
(***************************************************************************)
EXTENDS Integers, Sequences, FiniteSets

CONSTANTS
  Workers,
  MaxTasks      \* bound on the tasks that are queued

VARIABLE pool

ThreadWorkerInit ==
  pool = [requests |-> <<>>, work_scheduled |-> 0, work_done |-> 0, workers_stopped |-> 0,
          queue_mutex |-> FALSE, worker |-> [w \in Workers |-> "loop"],
          task |-> [w \in Workers |-> 0], stop |-> {}, owner |-> "idle", finished |-> {}]

At(w, label) == pool.worker[w] = label

OwnerAt(label) == pool.owner = label

Notified == IF OwnerAt("blocked") THEN "lock" ELSE pool.owner

-----------------------------------------------------------------------------
(* A worker *)

Loop(w) ==
  /\ At(w, "loop")
  /\ pool' = [pool EXCEPT !.worker[w] = IF w \in pool.stop THEN "leave" ELSE "lock"]

(* The body of the wait: to leave, to take a task, or to sleep *)
Wait(w, owner) ==
  \/ /\ w \in pool.stop
     /\ pool' = [pool EXCEPT !.worker[w] = "leave", !.owner = owner]
  \/ /\ w \notin pool.stop /\ pool.requests # <<>>
     /\ pool' = [pool EXCEPT !.task[w] = Head(pool.requests), !.requests = Tail(@),
                             !.worker[w] = "task", !.owner = owner]
  \/ /\ w \notin pool.stop /\ pool.requests = <<>>
     /\ pool' = [pool EXCEPT !.worker[w] = "blocked", !.owner = owner]

TakeTask(w) ==
  /\ At(w, "lock") /\ ~pool.queue_mutex
  /\ Wait(w, IF pool.requests = <<>> THEN Notified ELSE pool.owner)

Wake(w) == At(w, "woken") /\ ~pool.queue_mutex /\ Wait(w, pool.owner)

RunTask(w) ==
  /\ At(w, "task")
  /\ pool' = [pool EXCEPT !.finished = @ \cup {pool.task[w]}, !.worker[w] = "done"]

CountTask(w) ==
  /\ At(w, "done")
  /\ pool' = [pool EXCEPT !.work_done = @ + 1, !.worker[w] = "loop"]

Leave(w) ==
  /\ At(w, "leave")
  /\ pool' = [pool EXCEPT !.workers_stopped = @ + 1, !.worker[w] = "stopped"]

NotifyStopped(w) ==
  /\ At(w, "stopped")
  /\ pool' = [pool EXCEPT !.owner = Notified, !.worker[w] = "ended"]

Worker(w) ==
  \/ Loop(w) \/ TakeTask(w) \/ Wake(w) \/ RunTask(w) \/ CountTask(w)
  \/ Leave(w) \/ NotifyStopped(w)

-----------------------------------------------------------------------------
(* The owner *)

QueueWork ==
  /\ OwnerAt("idle") /\ ~pool.queue_mutex /\ pool.work_scheduled < MaxTasks
  /\ pool' = [pool EXCEPT !.requests = Append(@, pool.work_scheduled + 1),
                          !.work_scheduled = @ + 1, !.owner = "notify"]

(* condition.notify_one wakes any one of the workers that sleep. *)
NotifyOne ==
  /\ OwnerAt("notify")
  /\ \/ /\ \A w \in Workers : ~At(w, "blocked")
        /\ pool' = [pool EXCEPT !.owner = "idle"]
     \/ \E w \in Workers :
          /\ At(w, "blocked")
          /\ pool' = [pool EXCEPT !.owner = "idle", !.worker[w] = "woken"]

WaitForRequests ==
  /\ OwnerAt("idle")
  /\ pool' = [pool EXCEPT !.owner = "lock"]

LockQueue ==
  /\ OwnerAt("lock") /\ ~pool.queue_mutex
  /\ pool' = [pool EXCEPT !.queue_mutex = TRUE, !.owner = "predicate"]

(* Mutant: an empty queue passes for work that is done. *)
QueueIsEmpty == pool.requests = <<>>

WorkIsDone ==
  pool.workers_stopped >= Cardinality(Workers) \/ pool.work_done >= pool.work_scheduled

WaitPredicate ==
  /\ OwnerAt("predicate")
  /\ pool' = IF WorkIsDone THEN [pool EXCEPT !.queue_mutex = FALSE, !.owner = "waited"]
             ELSE [pool EXCEPT !.owner = "block"]

OwnerBlocks ==
  /\ OwnerAt("block")
  /\ pool' = [pool EXCEPT !.queue_mutex = FALSE, !.owner = "blocked"]

Return == OwnerAt("waited") /\ pool' = [pool EXCEPT !.owner = "idle"]

(* The destructor stops and joins the threads one after the other. *)
Destroy ==
  /\ OwnerAt("idle")
  /\ pool' = [pool EXCEPT !.owner = "destroy"]

RequestStop ==
  /\ OwnerAt("destroy")
  /\ \E w \in Workers \ pool.stop :
       pool' = [pool EXCEPT !.stop = @ \cup {w}, !.owner = "join",
                            !.worker[w] = IF @ = "blocked" THEN "woken" ELSE @]

Join ==
  /\ OwnerAt("join") /\ \A w \in pool.stop : At(w, "ended")
  /\ pool' = [pool EXCEPT !.owner = IF pool.stop = Workers THEN "ended" ELSE "destroy"]

Owner ==
  \/ NotifyOne \/ LockQueue \/ WaitPredicate \/ OwnerBlocks \/ Return
  \/ RequestStop \/ Join

SpuriousWakeup ==
  \/ OwnerAt("blocked") /\ pool' = [pool EXCEPT !.owner = "lock"]
  \/ \E w \in Workers : At(w, "blocked") /\ pool' = [pool EXCEPT !.worker[w] = "woken"]

Calls == QueueWork \/ WaitForRequests \/ Destroy \/ SpuriousWakeup

-----------------------------------------------------------------------------
(* When WaitForRequests returns, all tasks have run; no task runs twice. *)
TasksAreDone ==
  /\ OwnerAt("waited") => pool.finished = 1 .. pool.work_scheduled
  /\ pool.work_done <= Cardinality(pool.finished)

(* The owner waits for the workers, or destroys the pool; it gets past both. *)
OwnerWaits == ~OwnerAt("idle") /\ ~OwnerAt("ended")
=============================================================================

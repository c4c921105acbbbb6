--------------------------- MODULE HostWorkersProofs ---------------------------
(***************************************************************************)
(* The threads that hand work to each other keep in step, for any number   *)
(* of threads and any sizes.                                               *)
(***************************************************************************)
EXTENDS HostWorkers, Sequences, TLAPS

-----------------------------------------------------------------------------
(* LinkedQueue *)

WriterLabels == {"idle", "current", "next", "write_ptr", "size", "notify"}

ReaderLabels ==
  {"idle", "wait_empty", "lock", "predicate", "block", "blocked", "stopped", "empty", "decrement",
   "advance", "take"}

Elements == Writers \X Nat

QueueFields ==
  {"cells", "created", "write_ptr", "read_ptr", "size", "write_lock", "cv_mutex", "writer", "reader",
   "mode", "tmpptr", "calls", "stop", "pushed", "popped"}

QueueTyped ==
  /\ DOMAIN host = QueueFields
  /\ DOMAIN host.cells = Queue!Cells
  /\ \A c \in Queue!Cells : DOMAIN host.cells[c] = {"current", "next", "live"}
  /\ host.created \in Queue!Cells /\ host.size \in Int
  /\ host.writer \in [Writers -> WriterLabels]
  /\ host.reader \in ReaderLabels
  /\ host.pushed \in Seq(Elements) /\ host.popped \in Seq(Elements)

(* Where the writer that holds write_lock is, which is the only one that is not idle *)
Holder == IF host.write_lock = Null THEN "idle" ELSE host.writer[host.write_lock]

OneWriter ==
  /\ host.write_lock \in Writers \cup {Null}
  /\ \A w \in Writers : host.writer[w] # "idle" <=> w = host.write_lock

(* The list runs from the first element that was not popped to the cell that   *)
(* was created last, and holds the elements in the order of the pushes.        *)
WriterInStep ==
  /\ Len(host.pushed) = IF Holder = "next" THEN host.created + 1 ELSE host.created
  /\ host.write_ptr = IF Holder = "write_ptr" THEN host.created - 1 ELSE host.created
  /\ Holder \in {"current", "next"} => host.created < Pushes

ListHoldsPushed ==
  \A c \in Len(host.popped) .. host.created :
    /\ host.cells[c].live
    /\ c < host.created => host.cells[c].next = c + 1
    /\ c < Len(host.pushed) => host.cells[c].current = host.pushed[c + 1]

(* size counts what is linked and counted, less what the reader has taken on. *)
SizeIsExact ==
  /\ host.size = (IF Holder \in {"write_ptr", "size"} THEN host.created - 1 ELSE host.created)
                 - (IF host.reader \in {"advance", "take"} THEN Len(host.popped) + 1
                    ELSE Len(host.popped))
  /\ host.size >= IF host.reader = "decrement" THEN 1 ELSE 0

ReaderInStep ==
  IF host.reader = "take"
  THEN host.read_ptr = Len(host.popped) + 1 /\ host.tmpptr = Len(host.popped)
  ELSE host.read_ptr = Len(host.popped) /\ host.tmpptr = Null

PoppedIsPrefix ==
  /\ Len(host.popped) <= host.created
  /\ \A i \in 1 .. Len(host.popped) : host.popped[i] = host.pushed[i]

QueueInv ==
  /\ QueueTyped /\ OneWriter
  /\ WriterInStep /\ ListHoldsPushed /\ SizeIsExact /\ ReaderInStep /\ PoppedIsPrefix

(* A queue of one empty cell satisfies the invariant. *)
LEMMA QueueInit == Queue!LinkedQueueInit => QueueInv
<1>. SUFFICES ASSUME Queue!LinkedQueueInit PROVE QueueInv
  OBVIOUS
<1>1. QueueTyped
  BY QueueConstants DEF Queue!LinkedQueueInit, QueueTyped, QueueFields, Queue!Cells, Queue!Fresh,
     Queue!Dead, WriterLabels, ReaderLabels
<1>. QED
  BY <1>1, QueueConstants
  DEF Queue!LinkedQueueInit, QueueInv, OneWriter, WriterInStep, ListHoldsPushed, SizeIsExact,
      ReaderInStep, PoppedIsPrefix, Holder, Queue!Cells, Queue!Fresh, Queue!Dead

(* Where it holds, elements are popped in order and no cell is used by both sides. *)
LEMMA QueueSafe == QueueInv => Queue!InOrder /\ Queue!NoRace
<1>. SUFFICES ASSUME QueueInv PROVE Queue!InOrder /\ Queue!NoRace
  OBVIOUS
<1>1. Len(host.popped) \in Nat /\ Len(host.pushed) \in Nat /\ host.created \in Nat
  BY QueueConstants DEF QueueInv, QueueTyped, Queue!Cells
<1>2. Queue!InOrder
  BY <1>1 DEF QueueInv, PoppedIsPrefix, WriterInStep, Queue!InOrder, QueueTyped
<1>3. \A w \in Writers : host.writer[w] \in {"current", "next"} => Holder = host.writer[w]
  BY QueueConstants DEF QueueInv, OneWriter, Holder
<1>4. host.read_ptr \in Len(host.popped) .. host.created
  BY <1>1 DEF QueueInv, ReaderInStep, SizeIsExact, PoppedIsPrefix
<1>5. host.write_ptr \in Len(host.popped) .. host.created
  BY <1>1 DEF QueueInv, WriterInStep, SizeIsExact, PoppedIsPrefix, QueueTyped
<1>6. host.reader = "advance" => host.read_ptr < host.created
  BY <1>1 DEF QueueInv, ReaderInStep, SizeIsExact, PoppedIsPrefix, QueueTyped
<1>7. Holder \in {"current", "next"} => host.tmpptr # host.write_ptr
  BY <1>1, QueueConstants DEF QueueInv, ReaderInStep, SizeIsExact, WriterInStep, QueueTyped
<1>. QED
  BY <1>1, <1>2, <1>3, <1>4, <1>5, <1>6, <1>7, QueueConstants
  DEF QueueInv, ListHoldsPushed, Queue!NoRace, Queue!ReaderAt

(* Push fills the last cell, links the next one, and counts the element after that. *)
LEMMA QueueWriters ==
  ASSUME QueueInv, NEW w \in Writers, Queue!Push(w)
  PROVE  QueueInv'
<1>0. /\ Len(host.popped) \in Nat /\ Len(host.pushed) \in Nat /\ host.created \in Nat
      /\ host.size \in Int /\ host.created <= Pushes
  BY QueueConstants DEF QueueInv, QueueTyped, Queue!Cells
<1>c. Len(host.popped) .. host.created \subseteq Queue!Cells
  BY <1>0, QueueConstants DEF Queue!Cells
<1>1. CASE Queue!PushBegins(w)
  <2>1. /\ DOMAIN host' = QueueFields
        /\ \A f \in QueueFields \ {"write_lock", "writer"} : host'[f] = host[f]
        /\ host.writer[w] = "idle" /\ host.created < Pushes /\ host.write_lock = Null
        /\ host'.write_lock = w /\ host'.writer = [host.writer EXCEPT ![w] = "current"]
    BY <1>1, Zenon DEF QueueInv, QueueTyped, QueueFields, Queue!PushBegins, Queue!At
  <2>2. Holder = "idle" /\ Holder' = "current" /\ OneWriter'
    BY <2>1, QueueConstants DEF QueueInv, QueueTyped, OneWriter, Holder
  <2>3. QueueTyped'
    BY <2>1 DEF QueueInv, QueueTyped, QueueFields, WriterLabels
  <2>4. UNCHANGED <<host.cells, host.created, host.write_ptr, host.read_ptr, host.tmpptr,
                    host.size, host.reader, host.pushed, host.popped>>
    BY <2>1 DEF QueueFields
  <2>5. WriterInStep' /\ ListHoldsPushed'
    BY <2>1, <2>2, <2>4 DEF QueueInv, WriterInStep, ListHoldsPushed
  <2>6. SizeIsExact' /\ ReaderInStep' /\ PoppedIsPrefix'
    BY <2>2, <2>4 DEF QueueInv, SizeIsExact, ReaderInStep, PoppedIsPrefix
  <2>. QED
    BY <2>2, <2>3, <2>5, <2>6 DEF QueueInv
<1>2. CASE Queue!WriteCurrent(w)
  <2>1. /\ DOMAIN host' = QueueFields
        /\ UNCHANGED <<host.created, host.write_ptr, host.read_ptr, host.size, host.write_lock,
                       host.reader, host.tmpptr, host.popped>>
        /\ host.writer[w] = "current"
        /\ host'.cells = [host.cells EXCEPT ![host.write_ptr].current = <<w, host.created>>]
        /\ host'.writer = [host.writer EXCEPT ![w] = "next"]
        /\ host'.pushed = Append(host.pushed, <<w, host.created>>)
    BY <1>2 DEF QueueInv, QueueTyped, QueueFields, Queue!WriteCurrent, Queue!At
  <2>2. Holder = "current" /\ Holder' = "next" /\ OneWriter'
    BY <2>1, QueueConstants DEF QueueInv, QueueTyped, QueueFields, OneWriter, Holder
  <2>3. PICK e \in Elements : e = <<w, host.created>>
    BY <1>0, Zenon DEF Elements
  <2>4. /\ host'.cells = [host.cells EXCEPT ![host.created].current = e]
        /\ host'.pushed = Append(host.pushed, e)
        /\ host.pushed \in Seq(Elements)
        /\ host.write_ptr = host.created /\ Len(host.pushed) = host.created
    BY <2>1, <2>2, <2>3 DEF QueueInv, QueueTyped, WriterInStep
  <2>5. /\ DOMAIN host'.cells = Queue!Cells
        /\ \A c \in Queue!Cells : DOMAIN host'.cells[c] = {"current", "next", "live"}
    BY <2>4 DEF QueueInv, QueueTyped
  <2>6. /\ \A c \in Queue!Cells :
             /\ host'.cells[c].live = host.cells[c].live
             /\ host'.cells[c].next = host.cells[c].next
             /\ c # host.created => host'.cells[c].current = host.cells[c].current
        /\ host'.cells[host.created].current = e
    BY <2>4 DEF QueueInv, QueueTyped
  <2>7. host'.pushed \in Seq(Elements) /\ Len(host'.pushed) = host.created + 1
    BY <1>0, <2>4
  <2>8. /\ \A i \in 1 .. host.created : host'.pushed[i] = host.pushed[i]
        /\ host'.pushed[host.created + 1] = e
    BY <1>0, <2>4
  <2>9. QueueTyped'
    BY <2>1, <2>5, <2>7 DEF QueueInv, QueueTyped, WriterLabels
  <2>10. ListHoldsPushed'
    <3>. SUFFICES ASSUME NEW c \in Len(host.popped) .. host.created
                  PROVE  /\ host'.cells[c].live
                         /\ c < host.created => host'.cells[c].next = c + 1
                         /\ c < host.created + 1 => host'.cells[c].current = host'.pushed[c + 1]
      BY <2>1, <2>7, Zenon DEF ListHoldsPushed
    <3>1. /\ c \in Queue!Cells /\ host.cells[c].live
          /\ c < host.created =>
               /\ host.cells[c].next = c + 1
               /\ host.cells[c].current = host.pushed[c + 1]
               /\ c + 1 \in 1 .. host.created
      BY <1>0, <1>c, <2>4 DEF QueueInv, ListHoldsPushed
    <3>2. CASE c < host.created
      BY <1>0, <2>6, <2>8, <3>1, <3>2
    <3>3. CASE c = host.created
      BY <1>0, <2>6, <2>8, <3>1, <3>3
    <3>. QED
      BY <1>0, <3>2, <3>3
  <2>. QED
    BY <1>0, <2>1, <2>2, <2>7, <2>8, <2>9, <2>10 DEF QueueInv, WriterInStep, SizeIsExact,
       ReaderInStep, PoppedIsPrefix
<1>3. CASE Queue!LinkNext(w)
  <2>1. /\ DOMAIN host' = QueueFields
        /\ UNCHANGED <<host.write_ptr, host.read_ptr, host.size, host.write_lock, host.reader,
                       host.tmpptr, host.pushed, host.popped>>
        /\ host.writer[w] = "next" /\ host'.writer = [host.writer EXCEPT ![w] = "write_ptr"]
        /\ host'.created = host.created + 1
        /\ host'.cells = [host.cells EXCEPT ![host.created + 1] = Queue!Fresh,
                                           ![host.write_ptr].next = host.created + 1]
    BY <1>3 DEF QueueInv, QueueTyped, QueueFields, Queue!LinkNext, Queue!At
  <2>2. Holder = "next" /\ Holder' = "write_ptr" /\ OneWriter'
    BY <2>1, QueueConstants DEF QueueInv, QueueTyped, OneWriter, Holder
  <2>3. /\ host.write_ptr = host.created /\ Len(host.pushed) = host.created + 1
        /\ host.created + 1 \in Queue!Cells /\ host.created \in Queue!Cells
    BY <1>0, <2>2, QueueConstants DEF QueueInv, QueueTyped, WriterInStep, Queue!Cells
  <2>4. /\ DOMAIN host'.cells = Queue!Cells
        /\ \A c \in Queue!Cells : DOMAIN host'.cells[c] = {"current", "next", "live"}
        /\ \A c \in Queue!Cells : c \notin {host.created, host.created + 1}
                                   => host'.cells[c] = host.cells[c]
        /\ host'.cells[host.created + 1] = Queue!Fresh
        /\ host'.cells[host.created] = [host.cells[host.created] EXCEPT !.next = host.created + 1]
    <3>1. DOMAIN host.cells = Queue!Cells /\ host.created # host.created + 1
      BY <1>0 DEF QueueInv, QueueTyped
    <3>2. /\ DOMAIN host'.cells = Queue!Cells
          /\ \A c \in Queue!Cells : c \notin {host.created, host.created + 1}
                                     => host'.cells[c] = host.cells[c]
          /\ host'.cells[host.created + 1] = Queue!Fresh
          /\ host'.cells[host.created] = [host.cells[host.created] EXCEPT !.next = host.created + 1]
      BY <2>1, <2>3, <3>1
    <3>. QED
      BY <2>3, <3>2 DEF QueueInv, QueueTyped, Queue!Fresh
  <2>5. /\ host'.cells[host.created + 1].live
        /\ host'.cells[host.created].live = host.cells[host.created].live
        /\ host'.cells[host.created].next = host.created + 1
        /\ host'.cells[host.created].current = host.cells[host.created].current
    BY <2>3, <2>4 DEF QueueInv, QueueTyped, Queue!Fresh
  <2>6. QueueTyped'
    BY <2>1, <2>3, <2>4 DEF QueueInv, QueueTyped, WriterLabels
  <2>7. ListHoldsPushed'
    <3>. SUFFICES ASSUME NEW c \in Len(host.popped) .. host.created + 1
                  PROVE  /\ host'.cells[c].live
                         /\ c < host.created + 1 =>
                              /\ host'.cells[c].next = c + 1
                              /\ host'.cells[c].current = host.pushed[c + 1]
      BY <2>1, <2>3 DEF ListHoldsPushed
    <3>1. CASE c = host.created + 1
      BY <1>0, <2>5, <3>1
    <3>2. CASE c # host.created + 1
      <4>1. /\ c \in Len(host.popped) .. host.created /\ c \in Queue!Cells
            /\ host.cells[c].live /\ host.cells[c].current = host.pushed[c + 1]
            /\ c < host.created => host.cells[c].next = c + 1
        BY <1>0, <1>c, <2>3, <3>2 DEF QueueInv, ListHoldsPushed
      <4>. QED
        BY <1>0, <2>4, <2>5, <3>2, <4>1
    <3>. QED
      BY <3>1, <3>2
  <2>. QED
    BY <1>0, <2>1, <2>2, <2>3, <2>6, <2>7 DEF QueueInv, WriterInStep, SizeIsExact, ReaderInStep,
       PoppedIsPrefix
<1>4. CASE Queue!AdvanceWritePtr(w)
  <2>1. /\ DOMAIN host' = QueueFields
        /\ UNCHANGED <<host.cells, host.created, host.read_ptr, host.size, host.write_lock,
                       host.reader, host.tmpptr, host.pushed, host.popped>>
        /\ host.writer[w] = "write_ptr" /\ host'.writer = [host.writer EXCEPT ![w] = "size"]
        /\ host'.write_ptr = host.created
    BY <1>4 DEF QueueInv, QueueTyped, QueueFields, Queue!AdvanceWritePtr, Queue!At
  <2>2. Holder = "write_ptr" /\ Holder' = "size" /\ OneWriter'
    BY <2>1, QueueConstants DEF QueueInv, QueueTyped, OneWriter, Holder
  <2>3. QueueTyped'
    BY <2>1 DEF QueueInv, QueueTyped, WriterLabels
  <2>. QED
    BY <1>0, <2>1, <2>2, <2>3 DEF QueueInv, WriterInStep, ListHoldsPushed, SizeIsExact, ReaderInStep,
       PoppedIsPrefix
<1>5. CASE Queue!IncrementSize(w)
  <2>1. /\ DOMAIN host' = QueueFields
        /\ UNCHANGED <<host.cells, host.created, host.write_ptr, host.read_ptr, host.write_lock,
                       host.reader, host.tmpptr, host.pushed, host.popped>>
        /\ host.writer[w] = "size" /\ host'.writer = [host.writer EXCEPT ![w] = "notify"]
        /\ host'.size = host.size + 1
    BY <1>5 DEF QueueInv, QueueTyped, QueueFields, Queue!IncrementSize, Queue!At
  <2>2. Holder = "size" /\ Holder' = "notify" /\ OneWriter'
    BY <2>1, QueueConstants DEF QueueInv, QueueTyped, OneWriter, Holder
  <2>3. QueueTyped'
    BY <2>1 DEF QueueInv, QueueTyped, WriterLabels
  <2>4. SizeIsExact'
    BY <1>0, <2>1, <2>2 DEF QueueInv, SizeIsExact
  <2>. QED
    BY <1>0, <2>1, <2>2, <2>3, <2>4 DEF QueueInv, WriterInStep, ListHoldsPushed, ReaderInStep,
       PoppedIsPrefix
<1>6. CASE Queue!Notify(w)
  <2>1. /\ DOMAIN host' = QueueFields
        /\ UNCHANGED <<host.cells, host.created, host.write_ptr, host.read_ptr, host.size,
                       host.tmpptr, host.pushed, host.popped>>
        /\ host.writer[w] = "notify" /\ host'.writer = [host.writer EXCEPT ![w] = "idle"]
        /\ host'.write_lock = Null
        /\ host'.reader = IF host.reader = "blocked" THEN "lock" ELSE host.reader
    BY <1>6 DEF QueueInv, QueueTyped, QueueFields, Queue!Notify, Queue!At
  <2>2. Holder = "notify" /\ Holder' = "idle" /\ OneWriter'
    BY <2>1, QueueConstants DEF QueueInv, QueueTyped, OneWriter, Holder
  <2>3. QueueTyped'
    BY <2>1 DEF QueueInv, QueueTyped, WriterLabels, ReaderLabels
  <2>. QED
    BY <1>0, <2>1, <2>2, <2>3 DEF QueueInv, WriterInStep, ListHoldsPushed, SizeIsExact,
       ReaderInStep, PoppedIsPrefix
<1>. QED
  BY <1>1, <1>2, <1>3, <1>4, <1>5, <1>6 DEF Queue!Push

(* The steps of the reader that only move it, and the calls *)
QueueReaderMoves(from, to) ==
  /\ host.reader \in from /\ host'.reader \in to
  /\ DOMAIN host' = QueueFields
  /\ UNCHANGED <<host.cells, host.created, host.write_ptr, host.read_ptr, host.size, host.write_lock,
                 host.writer, host.tmpptr, host.pushed, host.popped>>

(* The steps of the reader that take nothing from the queue keep the invariant. *)
LEMMA QueueReaderStays ==
  ASSUME QueueInv,
         \/ QueueReaderMoves(ReaderLabels \ {"decrement", "advance", "take"},
                             ReaderLabels \ {"decrement", "advance", "take"})
         \/ QueueReaderMoves({"empty"}, {"decrement"}) /\ host.size # 0
         \/ /\ QueueReaderMoves(ReaderLabels, ReaderLabels)
            /\ UNCHANGED host.reader
  PROVE  QueueInv'
<1>0. Holder' = Holder
  BY DEF QueueReaderMoves, Holder
<1>1. QueueTyped' /\ OneWriter' /\ WriterInStep' /\ ListHoldsPushed' /\ PoppedIsPrefix'
  BY <1>0 DEF QueueInv, QueueTyped, OneWriter, WriterInStep, ListHoldsPushed, PoppedIsPrefix,
     QueueReaderMoves, ReaderLabels
<1>2. SizeIsExact' /\ ReaderInStep'
  BY <1>0 DEF QueueInv, QueueTyped, SizeIsExact, ReaderInStep, QueueReaderMoves, ReaderLabels
<1>. QED
  BY <1>1, <1>2 DEF QueueInv

(* Pop takes the first element that is counted, and frees its cell after that. *)
LEMMA QueueReaderSteps ==
  ASSUME QueueInv, Queue!Reader \/ Queue!Calls
  PROVE  QueueInv'
<1>. DEFINE Others == ReaderLabels \ {"decrement", "advance", "take"}
<1>0. /\ Len(host.popped) \in Nat /\ Len(host.pushed) \in Nat /\ host.created \in Nat
      /\ host.size \in Int /\ host.created <= Pushes
  BY QueueConstants DEF QueueInv, QueueTyped, Queue!Cells
<1>1. CASE Queue!PopWaitEmpty \/ Queue!LockCv \/ Queue!Predicate \/ Queue!Block \/ Queue!LookAtStop
           \/ Queue!PopBegins \/ Queue!SpuriousWakeup
  <2>. SUFFICES QueueReaderMoves(Others, Others)
    BY QueueReaderStays
  <2>1. CASE Queue!PopWaitEmpty \/ Queue!LockCv
    BY <2>1, Zenon DEF QueueInv, QueueTyped, QueueFields, QueueReaderMoves, Queue!ReaderAt,
       Queue!PopWaitEmpty, Queue!LockCv, ReaderLabels
  <2>2. CASE Queue!Predicate
    <3>1. \/ host' = [host EXCEPT !.cv_mutex = FALSE, !.reader = "stopped"]
          \/ host' = [host EXCEPT !.reader = "block"]
      BY <2>2, Zenon DEF Queue!Predicate
    <3>2. host.reader \in Others /\ DOMAIN host = QueueFields
      BY <2>2, Zenon DEF QueueInv, QueueTyped, Queue!Predicate, Queue!ReaderAt, ReaderLabels
    <3>. QED
      BY <3>1, <3>2, Zenon DEF QueueFields, QueueReaderMoves, ReaderLabels
  <2>3. CASE Queue!Block \/ Queue!LookAtStop
    BY <2>3, Zenon DEF QueueInv, QueueTyped, QueueFields, QueueReaderMoves, Queue!ReaderAt,
       Queue!Block, Queue!LookAtStop, ReaderLabels
  <2>4. CASE Queue!PopBegins \/ Queue!SpuriousWakeup
    BY <2>4, Zenon DEF QueueInv, QueueTyped, QueueFields, QueueReaderMoves, Queue!ReaderAt,
       Queue!PopBegins, Queue!SpuriousWakeup, ReaderLabels
  <2>. QED
    BY <1>1, <2>1, <2>2, <2>3, <2>4
<1>2. CASE Queue!PopEmpty
  <2>1. \/ QueueReaderMoves(Others, Others)
        \/ QueueReaderMoves({"empty"}, {"decrement"}) /\ host.size # 0
    BY <1>2 DEF QueueInv, QueueTyped, QueueFields, QueueReaderMoves, Queue!ReaderAt, Queue!PopEmpty,
       ReaderLabels
  <2>. QED
    BY <2>1, QueueReaderStays
<1>3. CASE Queue!RequestStop
  <2>1. \/ QueueReaderMoves(Others, Others)
        \/ QueueReaderMoves(ReaderLabels, ReaderLabels) /\ UNCHANGED host.reader
    BY <1>3 DEF QueueInv, QueueTyped, QueueFields, QueueReaderMoves, Queue!RequestStop, ReaderLabels
  <2>. QED
    BY <2>1, QueueReaderStays
<1>4. CASE Queue!DecrementSize
  <2>1. /\ DOMAIN host' = QueueFields
        /\ UNCHANGED <<host.cells, host.created, host.write_ptr, host.read_ptr, host.write_lock,
                       host.writer, host.tmpptr, host.pushed, host.popped>>
        /\ host.reader = "decrement" /\ host'.reader = "advance"
        /\ host'.size = host.size - 1
    BY <1>4 DEF QueueInv, QueueTyped, QueueFields, Queue!DecrementSize, Queue!ReaderAt
  <2>2. Holder' = Holder
    BY <2>1 DEF Holder
  <2>3. QueueTyped' /\ OneWriter' /\ WriterInStep' /\ ListHoldsPushed' /\ PoppedIsPrefix'
    BY <1>0, <2>1, <2>2 DEF QueueInv, QueueTyped, OneWriter, WriterInStep, ListHoldsPushed,
       PoppedIsPrefix, ReaderLabels
  <2>4. SizeIsExact' /\ ReaderInStep'
    BY <1>0, <2>1, <2>2 DEF QueueInv, SizeIsExact, ReaderInStep
  <2>. QED
    BY <2>3, <2>4 DEF QueueInv
<1>5. CASE Queue!AdvanceReadPtr
  <2>1. /\ DOMAIN host' = QueueFields
        /\ UNCHANGED <<host.cells, host.created, host.write_ptr, host.size, host.write_lock,
                       host.writer, host.pushed, host.popped>>
        /\ host.reader = "advance" /\ host'.reader = "take"
        /\ host'.tmpptr = host.read_ptr /\ host'.read_ptr = host.cells[host.read_ptr].next
    BY <1>5 DEF QueueInv, QueueTyped, QueueFields, Queue!AdvanceReadPtr, Queue!ReaderAt
  <2>2. Holder' = Holder
    BY <2>1 DEF Holder
  <2>3. QueueTyped' /\ OneWriter' /\ WriterInStep' /\ ListHoldsPushed' /\ PoppedIsPrefix'
    BY <1>0, <2>1, <2>2 DEF QueueInv, QueueTyped, OneWriter, WriterInStep, ListHoldsPushed,
       PoppedIsPrefix, ReaderLabels
  <2>4. host.read_ptr = Len(host.popped) /\ Len(host.popped) < host.created
    BY <1>0, <2>1 DEF QueueInv, SizeIsExact, ReaderInStep
  <2>5. host.cells[host.read_ptr].next = Len(host.popped) + 1
    BY <1>0, <2>4 DEF QueueInv, ListHoldsPushed
  <2>6. SizeIsExact' /\ ReaderInStep'
    BY <1>0, <2>1, <2>2, <2>4, <2>5 DEF QueueInv, SizeIsExact, ReaderInStep
  <2>. QED
    BY <2>3, <2>6 DEF QueueInv
<1>6. CASE Queue!TakeElement
  <2>1. /\ DOMAIN host' = QueueFields
        /\ UNCHANGED <<host.created, host.write_ptr, host.read_ptr, host.size, host.write_lock,
                       host.writer, host.pushed>>
        /\ host.reader = "take" /\ host'.reader = "idle" /\ host'.tmpptr = Null
        /\ host'.cells = [host.cells EXCEPT ![host.tmpptr] = Queue!Dead]
        /\ host'.popped = Append(host.popped, host.cells[host.tmpptr].current)
    BY <1>6 DEF QueueInv, QueueTyped, QueueFields, Queue!TakeElement, Queue!ReaderAt
  <2>2. Holder' = Holder
    BY <2>1 DEF Holder
  <2>3. /\ host.tmpptr = Len(host.popped) /\ host.read_ptr = Len(host.popped) + 1
        /\ Len(host.popped) < host.created /\ host.created <= Len(host.pushed)
    BY <1>0, <2>1 DEF QueueInv, SizeIsExact, ReaderInStep, WriterInStep
  <2>4. /\ host.cells[host.tmpptr].current = host.pushed[Len(host.popped) + 1]
        /\ Len(host.popped) + 1 \in 1 .. Len(host.pushed)
    BY <1>0, <2>3 DEF QueueInv, ListHoldsPushed
  <2>5. PICK e \in Elements : e = host.pushed[Len(host.popped) + 1]
    BY <1>0, <2>4 DEF QueueInv, QueueTyped
  <2>6. host.popped \in Seq(Elements) /\ host'.popped = Append(host.popped, e)
    BY <2>1, <2>4, <2>5 DEF QueueInv, QueueTyped
  <2>7. /\ host'.popped \in Seq(Elements) /\ Len(host'.popped) = Len(host.popped) + 1
        /\ \A i \in 1 .. Len(host.popped) : host'.popped[i] = host.popped[i]
        /\ host'.popped[Len(host.popped) + 1] = e
    BY <2>6
  <2>8. /\ DOMAIN host'.cells = Queue!Cells
        /\ \A c \in Queue!Cells : DOMAIN host'.cells[c] = {"current", "next", "live"}
        /\ \A c \in Queue!Cells : c # Len(host.popped) => host'.cells[c] = host.cells[c]
    BY <2>1, <2>3 DEF QueueInv, QueueTyped, Queue!Dead, Queue!Fresh
  <2>9. QueueTyped' /\ OneWriter' /\ WriterInStep'
    BY <1>0, <2>1, <2>2, <2>7, <2>8 DEF QueueInv, QueueTyped, OneWriter, WriterInStep, ReaderLabels
  <2>10. ListHoldsPushed'
    <3>1. \A c \in Len(host.popped) + 1 .. host.created :
            c \in Len(host.popped) .. host.created /\ host'.cells[c] = host.cells[c]
      BY <1>0, <2>8, QueueConstants DEF Queue!Cells
    <3>2. Len(host'.popped) .. host'.created = Len(host.popped) + 1 .. host.created
      BY <2>1, <2>7
    <3>. QED
      BY <2>1, <3>1, <3>2 DEF QueueInv, ListHoldsPushed
  <2>11. PoppedIsPrefix'
    BY <1>0, <2>1, <2>3, <2>5, <2>7 DEF QueueInv, PoppedIsPrefix
  <2>12. SizeIsExact' /\ ReaderInStep'
    BY <1>0, <2>1, <2>2, <2>3, <2>7 DEF QueueInv, SizeIsExact, ReaderInStep
  <2>. QED
    BY <2>9, <2>10, <2>11, <2>12 DEF QueueInv
<1>. QED
  BY <1>1, <1>2, <1>3, <1>4, <1>5, <1>6 DEF Queue!Reader, Queue!Calls

-----------------------------------------------------------------------------
(* TeakraThread *)

TeakraFields ==
  {"at", "seen", "then", "generation", "waiting", "stop_signal", "stop_generation", "loads",
   "joinable", "slices"}

CpuLabels == {"idle", "signal", "sync", "blocked", "woken", "join"}

TeakraLabels == {"idle", "run", "sync", "blocked", "woken", "check", "compare", "clear", "ended"}

TeakraTyped ==
  /\ DOMAIN host = TeakraFields
  /\ DOMAIN host.at = Teakra!Sides /\ DOMAIN host.seen = Teakra!Sides
  /\ host.at["cpu"] \in CpuLabels /\ host.at["teakra"] \in TeakraLabels
  /\ host.then \in {"idle", "join"} /\ host.joinable \in BOOLEAN /\ host.stop_signal \in BOOLEAN
  /\ host.generation \in Nat /\ host.slices \in Nat /\ host.stop_generation \in Nat
  /\ host.seen["cpu"] \in Nat /\ host.seen["teakra"] \in Nat

(* A side that is blocked waits in the generation that is running; one that was *)
(* woken entered in the one before.                                             *)
BarrierInStep ==
  /\ host.waiting = IF "blocked" \in {host.at["cpu"], host.at["teakra"]} THEN 1 ELSE 0
  /\ ~(host.at["cpu"] = "blocked" /\ host.at["teakra"] = "blocked")
  /\ \A s \in Teakra!Sides : /\ host.at[s] = "blocked" => host.seen[s] = host.generation
                             /\ host.at[s] = "woken" => host.seen[s] < host.generation

(* The DSP has run a slice more than the barrier has let through while it is at *)
(* the barrier.                                                                 *)
SlicesInStep ==
  host.slices = IF host.at["teakra"] \in {"sync", "blocked"} THEN host.generation + 1
                ELSE host.generation

(* The stop: the signal is set in the generation before the one it is meant for,  *)
(* the thread sees the two agree only after both sides have left the barrier, and *)
(* it takes the signal back before it ends.                                       *)
StopInStep ==
  /\ host.joinable <=> host.at["teakra"] # "idle"
  /\ ~host.joinable => host.at["cpu"] = "idle"
  /\ host.at["cpu"] = "signal" => host.stop_generation = host.generation + 1 /\ ~host.stop_signal
  /\ host.at["cpu"] = "join" => host.then = "join"
  /\ host.at["teakra"] \in {"compare", "clear"} => host.stop_signal
  /\ host.at["teakra"] = "ended" => /\ ~host.stop_signal
                                    /\ host.at["cpu"] \in {"woken", "join"} /\ host.then = "join"
  /\ host.stop_signal =>
       /\ host.then = "join" /\ host.at["cpu"] \in {"sync", "blocked", "woken", "join"}
       /\ host.at["cpu"] \in {"sync", "blocked"} =>
            /\ host.stop_generation = host.generation + 1
            /\ host.at["teakra"] \notin {"clear", "ended"}
       /\ host.at["cpu"] \in {"woken", "join"} =>
            /\ host.stop_generation = host.generation
            /\ host.at["teakra"] \in {"woken", "check", "compare", "clear"}
  /\ host.then = "join" /\ host.at["cpu"] \in {"sync", "blocked", "woken", "join"} =>
       host.stop_signal \/ host.at["teakra"] = "ended"

TeakraInv == TeakraTyped /\ BarrierInStep /\ SlicesInStep /\ StopInStep

(* The barrier has two sides. *)
LEMMA OtherSide == Teakra!Other("cpu") = "teakra" /\ Teakra!Other("teakra") = "cpu"
BY DEF Teakra!Other, Teakra!Sides

(* Before the thread is started the invariant holds. *)
LEMMA TeakraInit == Teakra!TeakraThreadInit => TeakraInv
BY DEF Teakra!TeakraThreadInit, Teakra!Sides, TeakraInv, TeakraTyped, TeakraFields, CpuLabels,
       TeakraLabels, BarrierInStep, SlicesInStep, StopInStep

(* It implies that the two threads are at most a slice apart. *)
LEMMA TeakraSafe == TeakraInv => Teakra!Lockstep
BY DEF TeakraInv, TeakraTyped, BarrierInStep, SlicesInStep, StopInStep, Teakra!Lockstep

(* Both threads, at the barrier and around the stop, keep the invariant. *)
LEMMA TeakraSteps == ASSUME TeakraInv, Teakra!Teakra \/ Teakra!Cpu \/ Teakra!Calls PROVE TeakraInv'
<1>0. /\ DOMAIN host = TeakraFields
      /\ DOMAIN host.at = Teakra!Sides /\ DOMAIN host.seen = Teakra!Sides
      /\ host.generation \in Nat /\ host.slices \in Nat /\ host.stop_generation \in Nat
      /\ host.seen["cpu"] \in Nat /\ host.seen["teakra"] \in Nat
      /\ host.then \in {"idle", "join"}
  BY DEF TeakraInv, TeakraTyped
<1>1. ASSUME NEW s \in Teakra!Sides, NEW after, Teakra!At(s, "sync"), Teakra!SyncEnds(s, after),
             s = "cpu" => after = host.then, s = "teakra" => after = "check"
      PROVE  TeakraInv'
  <2>1. /\ DOMAIN host' = TeakraFields
        /\ UNCHANGED <<host.seen, host.then, host.stop_signal, host.stop_generation, host.joinable,
                       host.slices>>
        /\ host.waiting = 1 /\ host'.waiting = 0 /\ host'.generation = host.generation + 1
        /\ host.at[s] = "sync"
    BY <1>0, <1>1 DEF TeakraInv, BarrierInStep, TeakraFields, Teakra!SyncEnds, Teakra!At
  <2>0. host'.at = [host.at EXCEPT ![s] = after,
                                   ![Teakra!Other(s)] = IF @ = "blocked" THEN "woken" ELSE @]
    <3>1. PICK at : /\ at = [host.at EXCEPT ![s] = after,
                                ![Teakra!Other(s)] = IF @ = "blocked" THEN "woken" ELSE @]
                    /\ host' = [host EXCEPT !.generation = @ + 1, !.waiting = 0, !.at = at]
      BY <1>1, Zenon DEF Teakra!SyncEnds
    <3>2. host'.at = at
      BY <1>0, <3>1 DEF TeakraFields
    <3>. QED
      BY <3>1, <3>2
  <2>2. CASE s = "cpu"
    <3>0. host.at["cpu"] = "sync" /\ host.at["teakra"] = "blocked"
      BY <2>1, <2>2 DEF TeakraInv, BarrierInStep
    <3>1. /\ DOMAIN host'.at = Teakra!Sides
          /\ host'.at["cpu"] = host.then /\ host'.at["teakra"] = "woken"
      <4>1. host'.at = [host.at EXCEPT !["cpu"] = host.then,
                                       !["teakra"] = IF @ = "blocked" THEN "woken" ELSE @]
        BY <1>1, <2>0, <2>2, OtherSide
      <4>. QED
        BY <1>0, <3>0, <4>1 DEF Teakra!Sides
    <3>. QED
      BY <1>0, <2>1, <3>0, <3>1
      DEF TeakraInv, TeakraTyped, CpuLabels, TeakraLabels, BarrierInStep, SlicesInStep, StopInStep,
          Teakra!Sides
  <2>3. CASE s = "teakra"
    <3>0. host.at["teakra"] = "sync" /\ host.at["cpu"] = "blocked"
      BY <2>1, <2>3 DEF TeakraInv, BarrierInStep
    <3>1. /\ DOMAIN host'.at = Teakra!Sides
          /\ host'.at["teakra"] = "check" /\ host'.at["cpu"] = "woken"
      <4>1. host'.at = [host.at EXCEPT !["teakra"] = "check",
                                       !["cpu"] = IF @ = "blocked" THEN "woken" ELSE @]
        BY <1>1, <2>0, <2>3, OtherSide
      <4>. QED
        BY <1>0, <3>0, <4>1 DEF Teakra!Sides
    <3>. QED
      BY <1>0, <2>1, <3>0, <3>1
      DEF TeakraInv, TeakraTyped, CpuLabels, TeakraLabels, BarrierInStep, SlicesInStep, StopInStep,
          Teakra!Sides
  <2>. QED
    BY <1>1, <2>2, <2>3 DEF Teakra!Sides
<1>2. ASSUME NEW s \in Teakra!Sides, Teakra!At(s, "sync"), Teakra!SyncWaits(s)
      PROVE  TeakraInv'
  <2>1. /\ DOMAIN host' = TeakraFields
        /\ UNCHANGED <<host.generation, host.then, host.stop_signal, host.stop_generation,
                       host.joinable, host.slices>>
        /\ host.waiting = 0 /\ host'.waiting = 1
        /\ host.at[s] = "sync" /\ host'.at = [host.at EXCEPT ![s] = "blocked"]
        /\ host'.seen = [host.seen EXCEPT ![s] = host.generation]
    BY <1>0, <1>2 DEF TeakraInv, BarrierInStep, TeakraFields, Teakra!SyncWaits, Teakra!At
  <2>2. CASE s = "cpu"
    <3>1. /\ DOMAIN host'.at = Teakra!Sides /\ DOMAIN host'.seen = Teakra!Sides
          /\ host.at["cpu"] = "sync" /\ host'.at["cpu"] = "blocked"
          /\ host'.at["teakra"] = host.at["teakra"] /\ host.at["teakra"] # "blocked"
          /\ host'.seen["cpu"] = host.generation /\ host'.seen["teakra"] = host.seen["teakra"]
      BY <1>0, <2>1, <2>2 DEF TeakraInv, BarrierInStep, Teakra!Sides
    <3>11. TeakraTyped'
      BY <1>0, <2>1, <3>1 DEF TeakraInv, TeakraTyped, CpuLabels, TeakraLabels, StopInStep
    <3>12. BarrierInStep'
      BY <1>0, <2>1, <3>1 DEF TeakraInv, TeakraTyped, BarrierInStep, Teakra!Sides
    <3>13. SlicesInStep' /\ StopInStep'
      BY <1>0, <2>1, <3>1 DEF TeakraInv, TeakraTyped, CpuLabels, TeakraLabels, SlicesInStep, StopInStep
    <3>. QED
      BY <3>11, <3>12, <3>13 DEF TeakraInv
  <2>3. CASE s = "teakra"
    <3>1. /\ DOMAIN host'.at = Teakra!Sides /\ DOMAIN host'.seen = Teakra!Sides
          /\ host.at["teakra"] = "sync" /\ host'.at["teakra"] = "blocked"
          /\ host'.at["cpu"] = host.at["cpu"] /\ host.at["cpu"] # "blocked"
          /\ host'.seen["teakra"] = host.generation /\ host'.seen["cpu"] = host.seen["cpu"]
      BY <1>0, <2>1, <2>3 DEF TeakraInv, BarrierInStep, Teakra!Sides
    <3>11. TeakraTyped'
      BY <1>0, <2>1, <3>1 DEF TeakraInv, TeakraTyped, CpuLabels, TeakraLabels, StopInStep
    <3>12. BarrierInStep'
      BY <1>0, <2>1, <3>1 DEF TeakraInv, TeakraTyped, BarrierInStep, Teakra!Sides
    <3>13. SlicesInStep' /\ StopInStep'
      BY <1>0, <2>1, <3>1 DEF TeakraInv, TeakraTyped, CpuLabels, TeakraLabels, SlicesInStep, StopInStep
    <3>. QED
      BY <3>11, <3>12, <3>13 DEF TeakraInv
  <2>. QED
    BY <1>2, <2>2, <2>3 DEF Teakra!Sides
<1>3. ASSUME NEW s \in Teakra!Sides, NEW after, Teakra!SyncReturns(s, after),
             s = "cpu" => after = host.then, s = "teakra" => after = "check"
      PROVE  TeakraInv'
  <2>1. /\ DOMAIN host' = TeakraFields
        /\ UNCHANGED <<host.generation, host.seen, host.waiting, host.then, host.stop_signal,
                       host.stop_generation, host.joinable, host.slices>>
        /\ host.at[s] = "woken" /\ host'.at = [host.at EXCEPT ![s] = after]
    BY <1>0, <1>3 DEF TeakraInv, BarrierInStep, TeakraFields, Teakra!SyncReturns, Teakra!At,
                      Teakra!Sides
  <2>2. CASE s = "cpu"
    <3>1. /\ DOMAIN host'.at = Teakra!Sides
          /\ host.at["cpu"] = "woken" /\ host'.at["cpu"] = host.then
          /\ host'.at["teakra"] = host.at["teakra"]
      BY <1>0, <1>3, <2>1, <2>2 DEF Teakra!Sides
    <3>11. TeakraTyped'
      BY <1>0, <2>1, <3>1 DEF TeakraInv, TeakraTyped, CpuLabels, TeakraLabels, StopInStep
    <3>12. BarrierInStep'
      BY <1>0, <2>1, <3>1 DEF TeakraInv, TeakraTyped, BarrierInStep, Teakra!Sides
    <3>13. SlicesInStep' /\ StopInStep'
      BY <1>0, <2>1, <3>1 DEF TeakraInv, TeakraTyped, CpuLabels, TeakraLabels, SlicesInStep, StopInStep
    <3>. QED
      BY <3>11, <3>12, <3>13 DEF TeakraInv
  <2>3. CASE s = "teakra"
    <3>1. /\ DOMAIN host'.at = Teakra!Sides
          /\ host.at["teakra"] = "woken" /\ host'.at["teakra"] = "check"
          /\ host'.at["cpu"] = host.at["cpu"]
      BY <1>0, <1>3, <2>1, <2>3 DEF Teakra!Sides
    <3>11. TeakraTyped'
      BY <1>0, <2>1, <3>1 DEF TeakraInv, TeakraTyped, CpuLabels, TeakraLabels, StopInStep
    <3>12. BarrierInStep'
      BY <1>0, <2>1, <3>1 DEF TeakraInv, TeakraTyped, BarrierInStep, Teakra!Sides
    <3>13. SlicesInStep' /\ StopInStep'
      BY <1>0, <2>1, <3>1 DEF TeakraInv, TeakraTyped, CpuLabels, TeakraLabels, SlicesInStep, StopInStep
    <3>. QED
      BY <3>11, <3>12, <3>13 DEF TeakraInv
  <2>. QED
    BY <1>3, <2>2, <2>3 DEF Teakra!Sides
<1>4. CASE Teakra!RunSlice
  <2>1. /\ DOMAIN host' = TeakraFields
        /\ UNCHANGED <<host.generation, host.seen, host.waiting, host.then, host.stop_signal,
                       host.stop_generation, host.joinable>>
        /\ host'.slices = host.slices + 1
        /\ host.at["teakra"] = "run" /\ host'.at = [host.at EXCEPT !["teakra"] = "sync"]
    BY <1>0, <1>4 DEF TeakraFields, Teakra!RunSlice, Teakra!At
  <2>2. /\ DOMAIN host'.at = Teakra!Sides
        /\ host'.at["teakra"] = "sync" /\ host'.at["cpu"] = host.at["cpu"]
    BY <1>0, <2>1 DEF Teakra!Sides
  <2>11. TeakraTyped'
    BY <1>0, <2>1, <2>2 DEF TeakraInv, TeakraTyped, CpuLabels, TeakraLabels, StopInStep
  <2>12. BarrierInStep'
    BY <1>0, <2>1, <2>2 DEF TeakraInv, TeakraTyped, BarrierInStep, Teakra!Sides
  <2>13. SlicesInStep' /\ StopInStep'
    BY <1>0, <2>1, <2>2 DEF TeakraInv, TeakraTyped, CpuLabels, TeakraLabels, SlicesInStep, StopInStep
  <2>. QED
    BY <2>11, <2>12, <2>13 DEF TeakraInv
<1>5. CASE Teakra!CheckStopSignal \/ Teakra!CompareGeneration
  <2>1. /\ DOMAIN host' = TeakraFields
        /\ UNCHANGED <<host.generation, host.seen, host.waiting, host.then, host.stop_signal,
                       host.stop_generation, host.joinable, host.slices>>
        /\ DOMAIN host'.at = Teakra!Sides /\ host'.at["cpu"] = host.at["cpu"]
        /\ \/ /\ host.at["teakra"] = "check"
              /\ host'.at["teakra"] = IF host.stop_signal THEN "compare" ELSE "run"
           \/ /\ host.at["teakra"] = "compare"
              /\ host'.at["teakra"] = IF host.stop_generation = host.generation
                                      THEN "clear" ELSE "run"
    BY <1>0, <1>5 DEF TeakraFields, Teakra!CheckStopSignal, Teakra!CompareGeneration, Teakra!At,
                      Teakra!Sides
  <2>11. TeakraTyped'
    BY <1>0, <2>1 DEF TeakraInv, TeakraTyped, CpuLabels, TeakraLabels, StopInStep
  <2>12. BarrierInStep'
    BY <1>0, <2>1 DEF TeakraInv, TeakraTyped, BarrierInStep, Teakra!Sides
  <2>13. SlicesInStep' /\ StopInStep'
    BY <1>0, <2>1 DEF TeakraInv, TeakraTyped, CpuLabels, TeakraLabels, SlicesInStep, StopInStep
  <2>. QED
    BY <2>11, <2>12, <2>13 DEF TeakraInv
<1>6. CASE Teakra!ClearStopSignal
  <2>1. /\ DOMAIN host' = TeakraFields
        /\ UNCHANGED <<host.generation, host.seen, host.waiting, host.then,
                       host.stop_generation, host.joinable, host.slices>>
        /\ host'.stop_signal = FALSE
        /\ host.at["teakra"] = "clear" /\ host'.at = [host.at EXCEPT !["teakra"] = "ended"]
    BY <1>0, <1>6 DEF TeakraFields, Teakra!ClearStopSignal, Teakra!At
  <2>. QED
    BY <1>0, <2>1, Zenon
    DEF TeakraInv, TeakraTyped, CpuLabels, TeakraLabels, BarrierInStep, SlicesInStep, StopInStep,
        Teakra!Sides
<1>7. CASE Teakra!LoadComponent
  <2>1. /\ DOMAIN host' = TeakraFields
        /\ UNCHANGED <<host.generation, host.seen, host.waiting, host.then, host.stop_signal,
                       host.stop_generation, host.slices>>
        /\ host.joinable = FALSE /\ host'.joinable = TRUE
        /\ host.at["cpu"] = "idle" /\ host'.at = [host.at EXCEPT !["teakra"] = "run"]
    BY <1>0, <1>7 DEF TeakraInv, TeakraTyped, TeakraFields, Teakra!LoadComponent, Teakra!At
  <2>. QED
    BY <1>0, <2>1, Zenon
    DEF TeakraInv, TeakraTyped, CpuLabels, TeakraLabels, BarrierInStep, SlicesInStep, StopInStep,
        Teakra!Sides
<1>8. CASE Teakra!RunTeakraSlice
  <2>1. /\ DOMAIN host' = TeakraFields
        /\ UNCHANGED <<host.generation, host.seen, host.waiting, host.stop_signal,
                       host.stop_generation, host.joinable, host.slices>>
        /\ host.joinable /\ host'.then = "idle"
        /\ host.at["cpu"] = "idle" /\ host'.at = [host.at EXCEPT !["cpu"] = "sync"]
    BY <1>0, <1>8, ZenonT(30) DEF TeakraFields, Teakra!RunTeakraSlice, Teakra!At
  <2>. QED
    BY <1>0, <2>1, ZenonT(30)
    DEF TeakraInv, TeakraTyped, CpuLabels, TeakraLabels, BarrierInStep, SlicesInStep, StopInStep,
        Teakra!Sides
<1>9. CASE Teakra!StopTeakraThread
  <2>1. /\ DOMAIN host' = TeakraFields
        /\ UNCHANGED <<host.generation, host.seen, host.waiting, host.then, host.stop_signal,
                       host.joinable, host.slices>>
        /\ host.joinable /\ host'.stop_generation = host.generation + 1
        /\ host.at["cpu"] = "idle" /\ host'.at = [host.at EXCEPT !["cpu"] = "signal"]
    BY <1>0, <1>9, Zenon DEF TeakraFields, Teakra!StopTeakraThread, Teakra!At
  <2>2. /\ DOMAIN host'.at = Teakra!Sides
        /\ host'.at["cpu"] = "signal" /\ host'.at["teakra"] = host.at["teakra"]
    BY <1>0, <2>1 DEF Teakra!Sides
  <2>11. TeakraTyped'
    BY <1>0, <2>1, <2>2 DEF TeakraInv, TeakraTyped, CpuLabels, TeakraLabels, StopInStep
  <2>12. BarrierInStep'
    BY <1>0, <2>1, <2>2 DEF TeakraInv, TeakraTyped, BarrierInStep, Teakra!Sides
  <2>13. SlicesInStep' /\ StopInStep'
    BY <1>0, <2>1, <2>2 DEF TeakraInv, TeakraTyped, CpuLabels, TeakraLabels, SlicesInStep, StopInStep
  <2>. QED
    BY <2>11, <2>12, <2>13 DEF TeakraInv
<1>10. CASE Teakra!SetStopSignal
  <2>1. /\ DOMAIN host' = TeakraFields
        /\ UNCHANGED <<host.generation, host.seen, host.waiting, host.stop_generation,
                       host.joinable, host.slices>>
        /\ host'.stop_signal = TRUE /\ host'.then = "join"
        /\ host.at["cpu"] = "signal" /\ host'.at = [host.at EXCEPT !["cpu"] = "sync"]
    BY <1>0, <1>10 DEF TeakraFields, Teakra!SetStopSignal, Teakra!At
  <2>. QED
    BY <1>0, <2>1, Zenon
    DEF TeakraInv, TeakraTyped, CpuLabels, TeakraLabels, BarrierInStep, SlicesInStep, StopInStep,
        Teakra!Sides
<1>11. CASE Teakra!Join
  <2>1. /\ DOMAIN host' = TeakraFields
        /\ UNCHANGED <<host.generation, host.seen, host.waiting, host.then, host.stop_signal,
                       host.stop_generation, host.slices>>
        /\ host'.joinable = FALSE
        /\ host.at["cpu"] = "join" /\ host.at["teakra"] = "ended"
        /\ host'.at = [cpu |-> "idle", teakra |-> "idle"]
    BY <1>0, <1>11 DEF TeakraFields, Teakra!Join, Teakra!At
  <2>2. /\ DOMAIN host'.at = Teakra!Sides
        /\ host'.at["cpu"] = "idle" /\ host'.at["teakra"] = "idle"
    BY <2>1 DEF Teakra!Sides
  <2>. QED
    BY <1>0, <2>1, <2>2, Zenon
    DEF TeakraInv, TeakraTyped, CpuLabels, TeakraLabels, BarrierInStep, SlicesInStep, StopInStep,
        Teakra!Sides
<1>. QED
  <2>1. "cpu" \in Teakra!Sides /\ "teakra" \in Teakra!Sides
    BY DEF Teakra!Sides
  <2>2. CASE Teakra!Sync("cpu", host.then) \/ Teakra!Sync("teakra", "check")
    BY <1>1, <1>2, <1>3, <2>1, <2>2 DEF Teakra!Sync
  <2>. QED
    BY <1>4, <1>5, <1>6, <1>7, <1>8, <1>9, <1>10, <1>11, <2>2 DEF Teakra!Teakra, Teakra!Cpu, Teakra!Calls

-----------------------------------------------------------------------------
(* ThreadWorker *)

PoolFields ==
  {"requests", "work_scheduled", "work_done", "workers_stopped", "queue_mutex", "worker", "task",
   "stop", "owner", "finished"}

WorkerLabels == {"loop", "lock", "task", "blocked", "woken", "done", "leave", "stopped", "ended"}

OwnerLabels ==
  {"idle", "notify", "lock", "predicate", "block", "blocked", "waited", "destroy", "join", "ended"}

PoolTyped ==
  /\ DOMAIN host = PoolFields
  /\ host.requests \in Seq(Nat) /\ host.work_scheduled \in Nat /\ host.work_done \in Nat
  /\ host.workers_stopped \in Nat /\ host.stop \subseteq Workers /\ host.owner \in OwnerLabels
  /\ host.worker \in [Workers -> WorkerLabels] /\ host.task \in [Workers -> Nat]

(* The tasks up to taken were given to workers, the others are queued in order; *)
(* the workers that have a task have different ones.                            *)
TasksTaken(taken) ==
  /\ taken + Len(host.requests) = host.work_scheduled
  /\ \A i \in DOMAIN host.requests : host.requests[i] = taken + i
  /\ host.finished \subseteq 1 .. taken
  /\ \A w \in Workers : /\ host.worker[w] = "task" => host.task[w] \in (1 .. taken) \ host.finished
                        /\ host.worker[w] = "done" => host.task[w] \in host.finished
  /\ \A v, w \in Workers :
       /\ host.worker[v] \in {"task", "done"} /\ host.worker[w] \in {"task", "done"}
       /\ host.task[v] = host.task[w]
       => v = w

(* The finished tasks that were counted; a worker at "done" has yet to count its own. *)
TasksCounted(counted) ==
  /\ counted \subseteq host.finished /\ host.work_done = Cardinality(counted)
  /\ \A w \in Workers : host.worker[w] = "done" => host.task[w] \notin counted

(* Workers stop only when the owner destroys the pool, so that the owner's wait *)
(* ends with the tasks.                                                         *)
StopsAtTheEnd ==
  /\ host.stop # {} => host.owner \in {"destroy", "join", "ended"}
  /\ host.workers_stopped # 0 => host.stop # {}
  /\ \A w \in Workers : host.worker[w] \in {"leave", "stopped", "ended"} => w \in host.stop
  /\ host.owner = "waited" => host.finished = 1 .. host.work_scheduled

PoolInv ==
  /\ PoolTyped /\ StopsAtTheEnd
  /\ \E taken \in Nat : TasksTaken(taken)
  /\ \E counted : TasksCounted(counted)

(* A step that takes, runs, counts and queues no task *)
LEMMA PoolRests ==
  ASSUME PoolInv,
         UNCHANGED <<host.requests, host.work_scheduled, host.work_done, host.finished>>,
         \A w \in Workers : host'.worker[w] \in {"task", "done"} =>
           host'.worker[w] = host.worker[w] /\ host'.task[w] = host.task[w]
  PROVE  (\E taken \in Nat : TasksTaken(taken)') /\ (\E counted : TasksCounted(counted)')
<1>1. PICK taken \in Nat : TasksTaken(taken)
  BY DEF PoolInv
<1>2. PICK counted : TasksCounted(counted)
  BY DEF PoolInv
<1>3. TasksTaken(taken)'
  BY <1>1 DEF TasksTaken
<1>4. TasksCounted(counted)'
  BY <1>2 DEF TasksCounted
<1>. QED
  BY <1>3, <1>4

(* A worker that moves without a task: it leaves, sleeps, or goes round the loop. *)
LEMMA WorkerMoves ==
  ASSUME PoolInv, NEW w \in Workers, NEW label \in WorkerLabels \ {"task", "done"},
         DOMAIN host' = PoolFields,
         UNCHANGED <<host.requests, host.work_scheduled, host.work_done, host.finished, host.task,
                     host.stop>>,
         host'.worker = [host.worker EXCEPT ![w] = label],
         label \in {"leave", "stopped", "ended"} => w \in host.stop,
         host'.owner = host.owner \/ (host.owner = "blocked" /\ host'.owner = "lock"),
         \/ host'.workers_stopped = host.workers_stopped
         \/ host'.workers_stopped = host.workers_stopped + 1 /\ w \in host.stop
  PROVE  PoolInv'
<1>1. PoolTyped'
  BY DEF PoolInv, PoolTyped, OwnerLabels
<1>2. StopsAtTheEnd'
  <2>1. \A v \in Workers : host'.worker[v] \in {"leave", "stopped", "ended"} => v \in host'.stop
    BY DEF PoolInv, PoolTyped, StopsAtTheEnd
  <2>2. host'.workers_stopped # 0 => host'.stop # {}
    BY DEF PoolInv, PoolTyped, StopsAtTheEnd
  <2>. QED
    BY <2>1, <2>2 DEF PoolInv, StopsAtTheEnd
<1>3. (\E taken \in Nat : TasksTaken(taken)') /\ (\E counted : TasksCounted(counted)')
  <2>1. \A v \in Workers : host'.worker[v] \in {"task", "done"} =>
          host'.worker[v] = host.worker[v] /\ host'.task[v] = host.task[v]
    BY DEF PoolInv, PoolTyped
  <2>. QED
    BY <2>1, PoolRests
<1>. QED
  BY <1>1, <1>2, <1>3 DEF PoolInv

(* A worker takes the first task of the queue. *)
LEMMA WorkerTakes ==
  ASSUME PoolInv, NEW w \in Workers, NEW owner, owner = host.owner, host.requests # << >>,
         host.worker[w] \notin {"task", "done"},
         host' = [host EXCEPT !.task[w] = Head(host.requests), !.requests = Tail(@),
                              !.worker[w] = "task", !.owner = owner]
  PROVE  PoolInv'
<1>0. PoolTyped
  BY DEF PoolInv
<1>1. /\ DOMAIN host' = PoolFields
      /\ UNCHANGED <<host.work_scheduled, host.work_done, host.workers_stopped, host.finished,
                     host.stop, host.owner>>
      /\ host'.requests = Tail(host.requests)
      /\ host'.worker = [host.worker EXCEPT ![w] = "task"]
      /\ host'.task = [host.task EXCEPT ![w] = Head(host.requests)]
  BY <1>0 DEF PoolTyped, PoolFields
<1>2. PICK taken \in Nat : TasksTaken(taken)
  BY DEF PoolInv
<1>3. PICK counted : TasksCounted(counted)
  BY DEF PoolInv
<1>4. /\ Head(host.requests) = taken + 1 /\ Len(Tail(host.requests)) = Len(host.requests) - 1
      /\ Tail(host.requests) \in Seq(Nat)
      /\ \A i \in 1 .. Len(host.requests) - 1 : Tail(host.requests)[i] = taken + 1 + i
  <2>1. host.requests \in Seq(Nat) /\ Len(host.requests) > 0
    BY <1>0 DEF PoolTyped
  <2>2. \A i \in 1 .. Len(host.requests) : host.requests[i] = taken + i
    BY <1>2, <2>1 DEF TasksTaken
  <2>3. /\ Len(Tail(host.requests)) = Len(host.requests) - 1 /\ Tail(host.requests) \in Seq(Nat)
        /\ Head(host.requests) = host.requests[1]
        /\ \A i \in 1 .. Len(host.requests) - 1 : Tail(host.requests)[i] = host.requests[i + 1]
    BY <2>1
  <2>4. Head(host.requests) = taken + 1
    BY <2>1, <2>2, <2>3
  <2>5. ASSUME NEW i \in 1 .. Len(host.requests) - 1
        PROVE  host.requests[i + 1] = taken + 1 + i
    <3>1. i + 1 \in 1 .. Len(host.requests)
      BY <2>1
    <3>2. host.requests[i + 1] = taken + (i + 1)
      BY <2>2, <3>1, Zenon
    <3>. QED
      BY <3>2
  <2>. QED
    BY <2>3, <2>4, <2>5
<1>5. PoolTyped'
  <2>1. host'.worker \in [Workers -> WorkerLabels] /\ host'.task \in [Workers -> Nat]
    BY <1>0, <1>1, <1>4 DEF PoolTyped, WorkerLabels
  <2>. QED
    BY <1>0, <1>1, <1>4, <2>1 DEF PoolTyped
<1>6. StopsAtTheEnd'
  <2>1. \A v \in Workers : host'.worker[v] \in {"leave", "stopped", "ended"} => v \in host'.stop
    BY <1>0, <1>1 DEF PoolInv, PoolTyped, StopsAtTheEnd
  <2>. QED
    BY <1>1, <2>1 DEF PoolInv, StopsAtTheEnd
<1>7. \A v \in Workers : v # w => host'.worker[v] = host.worker[v] /\ host'.task[v] = host.task[v]
  BY <1>0, <1>1 DEF PoolTyped
<1>8. host'.worker[w] = "task" /\ host'.task[w] = taken + 1
  BY <1>0, <1>1, <1>4 DEF PoolTyped
<1>9. TasksTaken(taken + 1)'
  <2>1. /\ taken + 1 + Len(host'.requests) = host'.work_scheduled
        /\ \A i \in DOMAIN host'.requests : host'.requests[i] = taken + 1 + i
    BY <1>0, <1>1, <1>2, <1>4 DEF PoolTyped, TasksTaken
  <2>2. host'.finished \subseteq 1 .. taken + 1 /\ taken + 1 \notin host'.finished
    BY <1>1, <1>2 DEF TasksTaken
  <2>3. ASSUME NEW v \in Workers, v # w, host.worker[v] \in {"task", "done"}
        PROVE  host.task[v] \in 1 .. taken
    BY <1>2, <2>3 DEF TasksTaken
  <2>4. \A v \in Workers :
          /\ host'.worker[v] = "task" => host'.task[v] \in (1 .. taken + 1) \ host'.finished
          /\ host'.worker[v] = "done" => host'.task[v] \in host'.finished
    BY <1>1, <1>2, <1>7, <1>8, <2>2 DEF TasksTaken
  <2>5. \A u, v \in Workers :
          /\ host'.worker[u] \in {"task", "done"} /\ host'.worker[v] \in {"task", "done"}
          /\ host'.task[u] = host'.task[v]
          => u = v
    BY <1>2, <1>7, <1>8, <2>3 DEF TasksTaken
  <2>. QED
    BY <2>1, <2>2, <2>4, <2>5 DEF TasksTaken
<1>10. TasksCounted(counted)'
  BY <1>1, <1>3, <1>7, <1>8 DEF TasksCounted
<1>. QED
  BY <1>5, <1>6, <1>9, <1>10 DEF PoolInv

(* All that a worker does, but for counting the task *)
LEMMA WorkerSteps ==
  ASSUME PoolInv, NEW w \in Workers,
         \/ Pool!Loop(w) \/ Pool!TakeTask(w) \/ Pool!Wake(w) \/ Pool!RunTask(w)
         \/ Pool!Leave(w) \/ Pool!NotifyStopped(w)
  PROVE  PoolInv'
<1>0. /\ DOMAIN host = PoolFields /\ host.requests \in Seq(Nat)
      /\ host.work_scheduled \in Nat /\ host.work_done \in Nat /\ host.workers_stopped \in Nat
      /\ host.worker \in [Workers -> WorkerLabels] /\ host.task \in [Workers -> Nat]
  BY DEF PoolInv, PoolTyped
<1>1. CASE Pool!Loop(w) \/ Pool!Leave(w) \/ Pool!NotifyStopped(w)
  <2>1. PICK label \in WorkerLabels \ {"task", "done"} :
          /\ DOMAIN host' = PoolFields
          /\ UNCHANGED <<host.requests, host.work_scheduled, host.work_done, host.finished,
                         host.task, host.stop>>
          /\ host'.worker = [host.worker EXCEPT ![w] = label]
          /\ \/ label = "lock" \/ (label = "leave" /\ w \in host.stop)
             \/ host.worker[w] = "leave" \/ host.worker[w] = "stopped"
          /\ host'.owner = host.owner \/ (host.owner = "blocked" /\ host'.owner = "lock")
          /\ \/ host'.workers_stopped = host.workers_stopped
             \/ host'.workers_stopped = host.workers_stopped + 1 /\ host.worker[w] = "leave"
    <3>1. CASE Pool!Loop(w)
      <4>1. (IF w \in host.stop THEN "leave" ELSE "lock") \in WorkerLabels \ {"task", "done"}
        BY DEF WorkerLabels
      <4>. QED
        BY <1>0, <3>1, <4>1 DEF Pool!Loop, Pool!At, PoolFields
    <3>2. CASE Pool!Leave(w)
      <4>1. "stopped" \in WorkerLabels \ {"task", "done"}
        BY DEF WorkerLabels
      <4>. QED
        BY <1>0, <3>2, <4>1 DEF Pool!Leave, Pool!At, PoolFields
    <3>3. CASE Pool!NotifyStopped(w)
      <4>1. "ended" \in WorkerLabels \ {"task", "done"}
        BY DEF WorkerLabels
      <4>. QED
        BY <1>0, <3>3, <4>1 DEF Pool!NotifyStopped, Pool!At, Pool!Notified, Pool!OwnerAt, PoolFields
    <3>. QED
      BY <1>1, <3>1, <3>2, <3>3
  <2>2. /\ label \in {"leave", "stopped", "ended"} => w \in host.stop
        /\ host.worker[w] = "leave" => w \in host.stop
    BY <2>1 DEF PoolInv, StopsAtTheEnd
  <2>. QED
    BY <2>1, <2>2, WorkerMoves
<1>2. ASSUME NEW owner, Pool!Wait(w, owner), host.worker[w] \in {"lock", "woken"},
             owner = host.owner \/ (host.owner = "blocked" /\ owner = "lock"),
             host.requests # << >> => owner = host.owner
      PROVE  PoolInv'
  <2>1. CASE /\ w \notin host.stop /\ host.requests # << >>
             /\ host' = [host EXCEPT !.task[w] = Head(host.requests), !.requests = Tail(@),
                                     !.worker[w] = "task", !.owner = owner]
    BY <1>2, <2>1, WorkerTakes
  <2>2. ASSUME NEW label \in {"leave", "blocked"}, label = "leave" => w \in host.stop,
               host' = [host EXCEPT !.worker[w] = label, !.owner = owner]
        PROVE  PoolInv'
    <3>1. label \in WorkerLabels \ {"task", "done"}
      BY DEF WorkerLabels
    <3>2. /\ DOMAIN host' = PoolFields
          /\ UNCHANGED <<host.requests, host.work_scheduled, host.work_done, host.finished,
                         host.task, host.stop, host.workers_stopped>>
          /\ host'.worker = [host.worker EXCEPT ![w] = label] /\ host'.owner = owner
      BY <1>0, <2>2 DEF PoolFields
    <3>. QED
      BY <1>2, <2>2, <3>1, <3>2, WorkerMoves
  <2>. QED
    BY <1>2, <2>1, <2>2 DEF Pool!Wait
<1>3. CASE Pool!TakeTask(w)
  BY <1>2, <1>3 DEF Pool!TakeTask, Pool!At, Pool!Notified, Pool!OwnerAt
<1>4. CASE Pool!Wake(w)
  BY <1>2, <1>4 DEF Pool!Wake, Pool!At
<1>5. PICK taken \in Nat : TasksTaken(taken)
  BY DEF PoolInv
<1>6. PICK counted : TasksCounted(counted)
  BY DEF PoolInv
<1>7. CASE Pool!RunTask(w)
  <2>1. /\ DOMAIN host' = PoolFields
        /\ UNCHANGED <<host.requests, host.work_scheduled, host.work_done, host.workers_stopped,
                       host.task, host.stop, host.owner>>
        /\ host'.finished = host.finished \cup {host.task[w]}
        /\ host.worker[w] = "task" /\ host'.worker = [host.worker EXCEPT ![w] = "done"]
    BY <1>0, <1>7 DEF Pool!RunTask, Pool!At, PoolFields
  <2>2. /\ host'.worker[w] = "done"
        /\ \A v \in Workers : v # w => host'.worker[v] = host.worker[v]
        /\ host'.worker \in [Workers -> WorkerLabels]
    BY <1>0, <2>1 DEF WorkerLabels
  <2>3. host.task[w] \in 1 .. taken /\ host.task[w] \notin host.finished
    BY <1>5, <2>1 DEF TasksTaken
  <2>4. taken <= host.work_scheduled
    BY <1>0, <1>5 DEF TasksTaken
  <2>5. PoolTyped'
    BY <2>1, <2>2 DEF PoolInv, PoolTyped
  <2>6. StopsAtTheEnd'
    BY <1>0, <2>1, <2>2, <2>3, <2>4 DEF PoolInv, StopsAtTheEnd
  <2>7. TasksTaken(taken)'
    BY <1>5, <2>1, <2>2, <2>3 DEF TasksTaken
  <2>8. TasksCounted(counted)'
    BY <1>6, <2>1, <2>2, <2>3 DEF TasksCounted
  <2>. QED
    BY <2>5, <2>6, <2>7, <2>8 DEF PoolInv
<1>. QED
  BY <1>1, <1>3, <1>4, <1>7

(* All that the owner does and undergoes, but for the look at the counters *)
LEMMA OwnerSteps ==
  ASSUME PoolInv,
         \/ Pool!NotifyOne \/ Pool!LockQueue \/ Pool!OwnerBlocks \/ Pool!Return
         \/ Pool!RequestStop \/ Pool!Join \/ Pool!Calls
  PROVE  PoolInv'
<1>0. /\ DOMAIN host = PoolFields /\ host.requests \in Seq(Nat)
      /\ host.work_scheduled \in Nat /\ host.work_done \in Nat /\ host.workers_stopped \in Nat
      /\ host.worker \in [Workers -> WorkerLabels] /\ host.task \in [Workers -> Nat]
      /\ host.stop \subseteq Workers /\ host.owner \in OwnerLabels
  BY DEF PoolInv, PoolTyped
<1>1. ASSUME NEW owner \in OwnerLabels \ {"waited"},
             DOMAIN host' = PoolFields, host'.owner = owner,
             UNCHANGED <<host.requests, host.work_scheduled, host.work_done, host.workers_stopped,
                         host.task, host.finished>>,
             host'.stop \subseteq Workers, host.stop \subseteq host'.stop,
             host'.stop # {} => owner \in {"destroy", "join", "ended"},
             \/ host'.worker = host.worker
             \/ \E w \in Workers : host'.worker = [host.worker EXCEPT ![w] = "woken"]
      PROVE  PoolInv'
  <2>1. /\ host'.worker \in [Workers -> WorkerLabels]
        /\ \A w \in Workers : host'.worker[w] = host.worker[w] \/ host'.worker[w] = "woken"
    BY <1>0, <1>1 DEF WorkerLabels
  <2>2. PoolTyped'
    BY <1>0, <1>1, <2>1 DEF PoolTyped
  <2>3. StopsAtTheEnd'
    BY <1>1, <2>1 DEF PoolInv, StopsAtTheEnd
  <2>4. (\E taken \in Nat : TasksTaken(taken)') /\ (\E counted : TasksCounted(counted)')
    BY <1>1, <2>1, PoolRests
  <2>. QED
    BY <2>2, <2>3, <2>4 DEF PoolInv
<1>2. CASE \/ Pool!LockQueue \/ Pool!OwnerBlocks \/ Pool!Return \/ Pool!WaitForRequests
           \/ Pool!Destroy \/ Pool!Join
  <2>1. /\ DOMAIN host' = PoolFields
        /\ UNCHANGED <<host.requests, host.work_scheduled, host.work_done, host.workers_stopped,
                       host.task, host.finished, host.stop, host.worker>>
        /\ \/ host.owner = "lock" /\ host'.owner = "predicate"
           \/ host.owner = "block" /\ host'.owner = "blocked"
           \/ host.owner = "waited" /\ host'.owner = "idle"
           \/ host.owner = "idle" /\ host'.owner \in {"lock", "destroy"}
           \/ host.owner = "join" /\ host'.owner \in {"ended", "destroy"}
    BY <1>0, <1>2 DEF PoolFields, Pool!OwnerAt, Pool!LockQueue, Pool!OwnerBlocks, Pool!Return,
                      Pool!WaitForRequests, Pool!Destroy, Pool!Join
  <2>2. host'.owner \in OwnerLabels \ {"waited"}
    BY <2>1 DEF OwnerLabels
  <2>3. host'.stop # {} => host'.owner \in {"destroy", "join", "ended"}
    BY <2>1 DEF PoolInv, StopsAtTheEnd
  <2>. QED
    BY <1>0, <1>1, <2>1, <2>2, <2>3
<1>3. CASE Pool!NotifyOne \/ Pool!SpuriousWakeup
  <2>1. /\ DOMAIN host' = PoolFields
        /\ UNCHANGED <<host.requests, host.work_scheduled, host.work_done, host.workers_stopped,
                       host.task, host.finished, host.stop>>
        /\ \/ host.owner = "notify" /\ host'.owner = "idle"
           \/ host.owner = "blocked" /\ host'.owner = "lock"
           \/ host'.owner = host.owner
        /\ \/ host'.worker = host.worker
           \/ \E w \in Workers : host'.worker = [host.worker EXCEPT ![w] = "woken"]
    BY <1>0, <1>3 DEF PoolFields, Pool!OwnerAt, Pool!At, Pool!NotifyOne, Pool!SpuriousWakeup
  <2>2. CASE host.owner # "waited"
    <3>1. host'.owner \in OwnerLabels \ {"waited"}
      BY <1>0, <2>1, <2>2 DEF OwnerLabels
    <3>2. host'.stop # {} => host'.owner \in {"destroy", "join", "ended"}
      BY <2>1 DEF PoolInv, StopsAtTheEnd
    <3>. QED
      BY <1>0, <1>1, <2>1, <3>1, <3>2
  <2>3. CASE host.owner = "waited"
    <3>1. host'.owner = host.owner
      BY <2>1, <2>3
    <3>2. /\ host'.worker \in [Workers -> WorkerLabels]
          /\ \A w \in Workers : host'.worker[w] = host.worker[w] \/ host'.worker[w] = "woken"
      BY <1>0, <2>1 DEF WorkerLabels
    <3>3. PoolTyped' /\ StopsAtTheEnd'
      BY <1>0, <2>1, <3>1, <3>2 DEF PoolInv, PoolTyped, StopsAtTheEnd
    <3>4. (\E taken \in Nat : TasksTaken(taken)') /\ (\E counted : TasksCounted(counted)')
      BY <2>1, <3>2, PoolRests
    <3>. QED
      BY <3>3, <3>4 DEF PoolInv
  <2>. QED
    BY <2>2, <2>3
<1>4. CASE Pool!RequestStop
  <2>1. PICK w \in Workers \ host.stop :
          host' = [host EXCEPT !.stop = @ \cup {w}, !.owner = "join",
                               !.worker[w] = IF @ = "blocked" THEN "woken" ELSE @]
    BY <1>4 DEF Pool!RequestStop
  <2>2. /\ DOMAIN host' = PoolFields /\ host'.owner = "join"
        /\ UNCHANGED <<host.requests, host.work_scheduled, host.work_done, host.workers_stopped,
                       host.task, host.finished>>
        /\ host'.stop = host.stop \cup {w}
        /\ host'.worker = [host.worker EXCEPT ![w] = IF @ = "blocked" THEN "woken" ELSE @]
    BY <1>0, <2>1 DEF PoolFields
  <2>3. \/ host'.worker = host.worker
        \/ \E v \in Workers : host'.worker = [host.worker EXCEPT ![v] = "woken"]
    BY <1>0, <2>2
  <2>4. "join" \in OwnerLabels \ {"waited"}
    BY DEF OwnerLabels
  <2>. QED
    BY <1>0, <1>1, <2>2, <2>3, <2>4
<1>5. CASE Pool!QueueWork
  <2>1. /\ DOMAIN host' = PoolFields /\ host.owner = "idle" /\ host'.owner = "notify"
        /\ UNCHANGED <<host.work_done, host.workers_stopped, host.task, host.finished, host.stop,
                       host.worker>>
        /\ host'.requests = Append(host.requests, host.work_scheduled + 1)
        /\ host'.work_scheduled = host.work_scheduled + 1
    BY <1>0, <1>5 DEF PoolFields, Pool!OwnerAt, Pool!QueueWork
  <2>2. PICK taken \in Nat : TasksTaken(taken)
    BY DEF PoolInv
  <2>3. PICK counted : TasksCounted(counted)
    BY DEF PoolInv
  <2>4. PoolTyped' /\ StopsAtTheEnd'
    BY <1>0, <2>1 DEF PoolInv, PoolTyped, OwnerLabels, StopsAtTheEnd
  <2>5. /\ taken + Len(host'.requests) = host'.work_scheduled
        /\ \A i \in DOMAIN host'.requests : host'.requests[i] = taken + i
    <3>1. /\ taken + Len(host.requests) = host.work_scheduled /\ Len(host.requests) \in Nat
          /\ \A i \in 1 .. Len(host.requests) : host.requests[i] = taken + i
      BY <1>0, <2>2 DEF TasksTaken
    <3>2. /\ DOMAIN host'.requests = 1 .. Len(host.requests) + 1
          /\ Len(host'.requests) = Len(host.requests) + 1
          /\ host'.requests[Len(host.requests) + 1] = host.work_scheduled + 1
          /\ \A i \in 1 .. Len(host.requests) : host'.requests[i] = host.requests[i]
      BY <1>0, <2>1
    <3>3. ASSUME NEW i \in 1 .. Len(host.requests) + 1 PROVE host'.requests[i] = taken + i
      <4>1. CASE i \in 1 .. Len(host.requests)
        BY <3>1, <3>2, <4>1, Zenon
      <4>2. CASE i = Len(host.requests) + 1
        BY <3>1, <3>2, <4>2
      <4>. QED
        BY <3>1, <4>1, <4>2
    <3>4. taken + Len(host'.requests) = host'.work_scheduled
      BY <2>1, <3>1, <3>2
    <3>. QED
      BY <3>2, <3>3, <3>4, Zenon
  <2>6. TasksTaken(taken)'
    BY <2>1, <2>2, <2>5 DEF TasksTaken
  <2>7. TasksCounted(counted)'
    BY <2>1, <2>3 DEF TasksCounted
  <2>. QED
    BY <2>4, <2>6, <2>7 DEF PoolInv
<1>. QED
  BY <1>2, <1>3, <1>4, <1>5 DEF Pool!Calls

(* What is needed about cardinalities *)
FS == INSTANCE FiniteSetTheorems

(* The cardinalities of the instances are one operator. *)
LEMMA SameCardinality ==
  \A S : /\ Pool!Cardinality(S) = Cardinality(S) /\ FS!Cardinality(S) = Cardinality(S)
         /\ FS!IsFiniteSet(S) <=> IsFiniteSet(S)
BY DEF Pool!Cardinality, FS!Cardinality, Cardinality, FS!IsFiniteSet, IsFiniteSet

(* An empty set counts nothing, ... *)
LEMMA EmptyCardinality == IsFiniteSet({}) /\ Cardinality({}) = 0
BY SameCardinality, FS!FS_EmptySet

(* ... a new element counts one more, ... *)
LEMMA CountOneMore ==
  ASSUME NEW S, NEW x, x \notin S, IsFiniteSet(S)
  PROVE  Cardinality(S \cup {x}) = Cardinality(S) + 1
<1>1. FS!IsFiniteSet(S)
  BY SameCardinality
<1>2. FS!Cardinality(S \cup {x}) = FS!Cardinality(S) + 1
  BY <1>1, FS!FS_AddElement
<1>. QED
  BY <1>2, SameCardinality

(* ... and only the empty set counts nothing. *)
LEMMA CardinalityIsNat ==
  ASSUME NEW S, IsFiniteSet(S)
  PROVE  Cardinality(S) \in Nat /\ (S # {} => Cardinality(S) # 0)
<1>1. FS!IsFiniteSet(S)
  BY SameCardinality
<1>2. FS!Cardinality(S) \in Nat /\ (FS!Cardinality(S) = 0 <=> S = {})
  BY <1>1, FS!FS_CardinalityType, FS!FS_EmptySet
<1>. QED
  BY <1>2, SameCardinality

(* A part of 1 .. n has at most n elements, and n only if it is the whole. *)
LEMMA PartOfInterval ==
  ASSUME NEW n \in Nat, NEW S \in SUBSET (1 .. n)
  PROVE  /\ IsFiniteSet(S) /\ Cardinality(S) \in Nat /\ Cardinality(S) <= n
         /\ Cardinality(S) = n => S = 1 .. n
<1>1. FS!IsFiniteSet(1 .. n) /\ FS!Cardinality(1 .. n) = n
  <2>1. /\ FS!IsFiniteSet(1 .. n)
        /\ FS!Cardinality(1 .. n) = IF 1 > n THEN 0 ELSE n - 1 + 1
    BY FS!FS_Interval
  <2>. QED
    BY <2>1
<1>2. /\ FS!IsFiniteSet(S) /\ FS!Cardinality(S) <= FS!Cardinality(1 .. n)
      /\ FS!Cardinality(1 .. n) = FS!Cardinality(S) => 1 .. n = S
  BY <1>1, FS!FS_Subset
<1>3. FS!Cardinality(S) \in Nat
  BY <1>2, FS!FS_CardinalityType
<1>. QED
  BY <1>1, <1>2, <1>3, SameCardinality

(* A set with a part counts at least as many elements. *)
LEMMA PartCountsLess ==
  ASSUME NEW S, IsFiniteSet(S), NEW T \in SUBSET S
  PROVE  IsFiniteSet(T) /\ Cardinality(T) <= Cardinality(S)
<1>1. FS!IsFiniteSet(S)
  BY SameCardinality
<1>2. FS!IsFiniteSet(T) /\ FS!Cardinality(T) <= FS!Cardinality(S)
  BY <1>1, FS!FS_Subset
<1>. QED
  BY <1>2, SameCardinality

-----------------------------------------------------------------------------
(* A pool whose workers have not begun satisfies the invariant. *)
LEMMA PoolInit == Pool!ThreadWorkerInit => PoolInv
<1>. SUFFICES ASSUME Pool!ThreadWorkerInit PROVE PoolInv
  OBVIOUS
<1>1. /\ DOMAIN host = PoolFields
      /\ host.requests = << >> /\ host.work_scheduled = 0 /\ host.work_done = 0
      /\ host.workers_stopped = 0 /\ host.stop = {} /\ host.owner = "idle" /\ host.finished = {}
      /\ host.worker = [w \in Workers |-> "loop"] /\ host.task = [w \in Workers |-> 0]
  BY DEF Pool!ThreadWorkerInit, PoolFields
<1>2. PoolTyped /\ StopsAtTheEnd
  BY <1>1 DEF PoolTyped, OwnerLabels, WorkerLabels, StopsAtTheEnd
<1>3. TasksTaken(0)
  BY <1>1 DEF TasksTaken
<1>4. TasksCounted({})
  BY <1>1, EmptyCardinality DEF TasksCounted
<1>. QED
  BY <1>2, <1>3, <1>4 DEF PoolInv

(* Where it holds, WaitForRequests has not returned before the tasks are done. *)
LEMMA PoolSafe == PoolInv => Pool!TasksAreDone
<1>. SUFFICES ASSUME PoolInv PROVE Pool!TasksAreDone
  OBVIOUS
<1>1. PICK taken \in Nat : TasksTaken(taken)
  BY DEF PoolInv
<1>2. PICK counted : TasksCounted(counted)
  BY DEF PoolInv
<1>3. IsFiniteSet(host.finished)
  BY <1>1, PartOfInterval DEF TasksTaken
<1>4. host.work_done <= Cardinality(host.finished)
  BY <1>2, <1>3, PartCountsLess DEF TasksCounted
<1>. QED
  BY <1>4, SameCardinality DEF PoolInv, StopsAtTheEnd, Pool!TasksAreDone, Pool!OwnerAt

(* A worker counts its task, which was not counted before. *)
LEMMA WorkerCounts == ASSUME PoolInv, NEW w \in Workers, Pool!CountTask(w) PROVE PoolInv'
<1>0. DOMAIN host = PoolFields /\ host.work_done \in Nat /\ host.worker \in [Workers -> WorkerLabels]
  BY DEF PoolInv, PoolTyped
<1>9. PICK taken \in Nat : TasksTaken(taken)
  BY DEF PoolInv
<1>10. PICK counted : TasksCounted(counted)
  BY DEF PoolInv
<1>1. /\ DOMAIN host' = PoolFields
      /\ UNCHANGED <<host.requests, host.work_scheduled, host.finished, host.workers_stopped,
                     host.task, host.stop, host.owner>>
      /\ host'.work_done = host.work_done + 1
      /\ host.worker[w] = "done" /\ host'.worker = [host.worker EXCEPT ![w] = "loop"]
  BY <1>0 DEF Pool!CountTask, Pool!At, PoolFields
<1>2. /\ host'.worker[w] = "loop"
      /\ \A v \in Workers : v # w => host'.worker[v] = host.worker[v]
      /\ host'.worker \in [Workers -> WorkerLabels]
  BY <1>0, <1>1 DEF WorkerLabels
<1>3. PoolTyped' /\ StopsAtTheEnd'
  BY <1>0, <1>1, <1>2 DEF PoolInv, PoolTyped, StopsAtTheEnd
<1>4. TasksTaken(taken)'
  BY <1>9, <1>1, <1>2 DEF TasksTaken
<1>5. host.task[w] \in host.finished /\ host.task[w] \notin counted
  BY <1>9, <1>10, <1>1 DEF TasksTaken, TasksCounted
<1>6. counted \in SUBSET (1 .. taken)
  BY <1>9, <1>10 DEF TasksTaken, TasksCounted
<1>7. Cardinality(counted \cup {host.task[w]}) = Cardinality(counted) + 1
  BY <1>5, <1>6, PartOfInterval, CountOneMore
<1>8. TasksCounted(counted \cup {host.task[w]})'
  BY <1>9, <1>10, <1>1, <1>2, <1>5, <1>7 DEF TasksTaken, TasksCounted
<1>. QED
  BY <1>3, <1>4, <1>8 DEF PoolInv


(* The wait of the owner ends with all tasks done: while it waits no worker has *)
(* stopped, and as many tasks are counted as there are.                         *)
LEMMA OwnerLooks == ASSUME PoolInv, Pool!WaitPredicate PROVE PoolInv'
<1>0. /\ DOMAIN host = PoolFields /\ host.work_scheduled \in Nat /\ host.work_done \in Nat
      /\ host.requests \in Seq(Nat)
  BY DEF PoolInv, PoolTyped
<1>1. /\ DOMAIN host' = PoolFields
      /\ UNCHANGED <<host.requests, host.work_scheduled, host.work_done, host.workers_stopped,
                     host.task, host.finished, host.stop, host.worker>>
      /\ host.owner = "predicate"
      /\ \/ host'.owner = "block"
         \/ host'.owner = "waited" /\ Pool!WorkIsDone
  BY <1>0 DEF Pool!WaitPredicate, Pool!OwnerAt, PoolFields
<1>2. host.stop = {} /\ host.workers_stopped = 0
  BY <1>1 DEF PoolInv, StopsAtTheEnd
<1>3. ASSUME Pool!WorkIsDone PROVE host.finished = 1 .. host.work_scheduled
  <2>1. PICK taken \in Nat : TasksTaken(taken)
    BY DEF PoolInv
  <2>2. PICK counted : TasksCounted(counted)
    BY DEF PoolInv
  <2>3. ~(0 >= Cardinality(Workers))
    BY PoolConstants, CardinalityIsNat
  <2>4. host.work_done >= host.work_scheduled
    BY <1>2, <1>3, <2>3, SameCardinality DEF Pool!WorkIsDone
  <2>5. host.finished \subseteq 1 .. host.work_scheduled
    BY <1>0, <2>1 DEF TasksTaken
  <2>6. counted \in SUBSET (1 .. host.work_scheduled)
    BY <2>2, <2>5 DEF TasksCounted
  <2>7. counted = 1 .. host.work_scheduled
    BY <1>0, <2>2, <2>4, <2>6, PartOfInterval DEF TasksCounted
  <2>. QED
    BY <2>2, <2>5, <2>7 DEF TasksCounted
<1>4. PoolTyped' /\ StopsAtTheEnd'
  BY <1>1, <1>2, <1>3 DEF PoolInv, PoolTyped, OwnerLabels, StopsAtTheEnd
<1>5. (\E taken \in Nat : TasksTaken(taken)') /\ (\E counted : TasksCounted(counted)')
  BY <1>1, PoolRests
<1>. QED
  BY <1>4, <1>5 DEF PoolInv

(* Every step of the owner and of a worker keeps the invariant. *)
LEMMA PoolSteps ==
  ASSUME PoolInv, Pool!Owner \/ Pool!Calls \/ (\E w \in Workers : Pool!Worker(w))
  PROVE  PoolInv'
<1>1. CASE Pool!Owner \/ Pool!Calls
  BY <1>1, OwnerSteps, OwnerLooks DEF Pool!Owner
<1>2. ASSUME NEW w \in Workers, Pool!Worker(w) PROVE PoolInv'
  BY <1>2, WorkerSteps, WorkerCounts DEF Pool!Worker
<1>. QED
  BY <1>1, <1>2

-----------------------------------------------------------------------------
(* All objects *)

(***************************************************************************)
(* The inductive invariant: of the object that the scenario is about, the  *)
(* types, what its cells and counters hold at every point of the calls in  *)
(* progress, and how they bound each other.                                *)
(***************************************************************************)
WorkersInv ==
  /\ scenario = "queue" => QueueInv
  /\ scenario = "teakra" => TeakraInv
  /\ scenario = "pool" => PoolInv

(* It holds when the objects are created ... *)
LEMMA WorkersInitial == WorkersInit => WorkersInv
BY QueueInit, TeakraInit, PoolInit DEF WorkersInit, WorkersInv

(* ... every step of a thread keeps it ... *)
LEMMA WorkersInductive == WorkersInv /\ [WorkersNext]_vars => WorkersInv'
<1>. SUFFICES ASSUME WorkersInv, [WorkersNext]_vars PROVE WorkersInv'
  OBVIOUS
<1>1. scenario' = scenario
  BY DEF WorkersNext, vars, In, WorkerCalls, QueueWriter, QueueReader, TeakraThread, TeakraCpu,
         PoolOwner, PoolWorker
<1>2. CASE UNCHANGED vars
  <2>0. host' = host
    BY <1>2 DEF vars
  <2>1. QueueInv => QueueInv'
    BY <2>0 DEF QueueInv, PoppedIsPrefix, ReaderInStep, SizeIsExact, Holder, ListHoldsPushed,
                WriterInStep, OneWriter, QueueTyped, Elements
  <2>2. TeakraInv => TeakraInv'
    BY <2>0 DEF TeakraInv, StopInStep, SlicesInStep, BarrierInStep, TeakraTyped
  <2>3. PoolInv => PoolInv'
    BY <2>0 DEF PoolInv, TasksCounted, TasksTaken, StopsAtTheEnd, PoolTyped
  <2>. QED
    BY <1>1, <2>1, <2>2, <2>3 DEF WorkersInv
<1>3. CASE WorkersNext /\ scenario = "queue"
  <2>1. (\E w \in Writers : Queue!Push(w)) \/ Queue!Reader \/ Queue!Calls
    BY <1>3 DEF WorkersNext, In, WorkerCalls, QueueWriter, QueueReader, TeakraThread, TeakraCpu,
                PoolOwner, PoolWorker
  <2>2. QueueInv'
    BY <1>3, <2>1, QueueWriters, QueueReaderSteps DEF WorkersInv
  <2>. QED
    BY <1>1, <1>3, <2>2 DEF WorkersInv
<1>4. CASE WorkersNext /\ scenario = "teakra"
  <2>1. Teakra!Teakra \/ Teakra!Cpu \/ Teakra!Calls
    BY <1>4 DEF WorkersNext, In, WorkerCalls, QueueWriter, QueueReader, TeakraThread, TeakraCpu,
                PoolOwner, PoolWorker
  <2>2. TeakraInv'
    BY <1>4, <2>1, TeakraSteps DEF WorkersInv
  <2>. QED
    BY <1>1, <1>4, <2>2 DEF WorkersInv
<1>5. CASE WorkersNext /\ scenario = "pool"
  <2>1. Pool!Owner \/ Pool!Calls \/ (\E w \in Workers : Pool!Worker(w))
    BY <1>5 DEF WorkersNext, In, WorkerCalls, QueueWriter, QueueReader, TeakraThread, TeakraCpu,
                PoolOwner, PoolWorker
  <2>2. PoolInv'
    BY <1>5, <2>1, PoolSteps DEF WorkersInv
  <2>. QED
    BY <1>1, <1>5, <2>2 DEF WorkersInv
<1>6. CASE scenario \notin {"queue", "teakra", "pool"}
  BY <1>1, <1>6 DEF WorkersInv
<1>. QED
  BY <1>2, <1>3, <1>4, <1>5, <1>6

(* ... and it implies that the threads are in step. *)
LEMMA WorkersSafe == WorkersInv => ThreadsKeepStep
BY QueueSafe, TeakraSafe, PoolSafe DEF WorkersInv, ThreadsKeepStep

(***************************************************************************)
(* For any number of writers, pushes, workers and tasks, and however the   *)
(* threads interleave: SPSCQueue and MPSCQueue give out what was pushed    *)
(* once and in order, and no cell is read or freed while the other side    *)
(* uses it; the barrier of the DSP keeps the CPU and the Teakra thread     *)
(* within one slice and is left usable by every stop; and WaitForRequests  *)
(* returns only after all tasks queued before it have run, each counted    *)
(* once.                                                                   *)
(***************************************************************************)
THEOREM ThreadsStayInStep == WorkersSpec => []ThreadsKeepStep
BY WorkersInitial, WorkersInductive, WorkersSafe, PTL DEF WorkersSpec
=============================================================================

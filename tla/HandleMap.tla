------------------------------ MODULE HandleMap ------------------------------
(***************************************************************************)
(* What a handle table promises to a process, without slots, generations   *)
(* or free list: a partial function from the open handles to the objects   *)
(* they name.  Opening a handle takes one that is not open and disturbs no *)
(* other, and a handle stays open, naming the same object, until it is     *)
(* closed.                                                                 *)
(***************************************************************************)
EXTENDS Integers

CONSTANTS
  Handle,   \* the values a handle may have
  Objects   \* the kernel objects

VARIABLE
  issued    \* issued[h]: the object that the open handle h names

Init == issued = [h \in {} |-> h]

Open(h, o) ==
  /\ h \notin DOMAIN issued
  /\ issued' = [g \in DOMAIN issued \cup {h} |-> IF g = h THEN o ELSE issued[g]]

Close(h) ==
  /\ h \in DOMAIN issued
  /\ issued' = [g \in DOMAIN issued \ {h} |-> issued[g]]

CloseAll == issued' = [h \in {} |-> h]

(* The handle that is opened is one of those that are open after the step. *)
Next ==
  \/ \E h \in Handle \cap DOMAIN issued', o \in Objects : Open(h, o)
  \/ \E h \in Handle : Close(h)
  \/ CloseAll

Spec == Init /\ [][Next]_issued
=============================================================================

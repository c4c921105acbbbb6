---------------------------- MODULE ProcessObjects ----------------------------
(***************************************************************************)
(* The objects a process makes with system calls (core/hle/kernel/svc.cpp) *)
(* and their count in its ResourceLimit (core/hle/kernel/resource_limit.   *)
(* cpp): the call reserves, the destructor releases, and the destructor    *)
(* runs when the last shared_ptr goes, in the handle table or elsewhere (a *)
(* thread that waits for the object, another process).                     *)
(***************************************************************************)
EXTENDS HandleTable, FiniteSets

CONSTANTS
  type,        \* type[o]: the ResourceLimitType of the objects that are counted
  InitLimit,   \* the first limit of each type
  NewLimits,   \* the limits a call may set
  Programs     \* the sets of objects of which the process makes one

Counted == DOMAIN type

Types == {type[o] : o \in Counted}

(* The objects of the calls below; threads and processes are made by others. *)
ASSUME CountedAssumption ==
  /\ Counted \subseteq Objects \ {current_thread, current_process}
  /\ Programs \subseteq SUBSET Counted

VARIABLES
  current_values,
  limit_values,
  elsewhere,      \* the objects with a reference outside the handle table
  makes,          \* the objects that the process makes
  destroyed,      \* ~Process has run
  lost            \* history: reservations of calls that failed after Reserve

allvars == <<vars, current_values, limit_values, elsewhere, makes, destroyed, lost>>

InTable(o) == \E s \in Slot : objects[s] = o

Alive(o) == InTable(o) \/ o \in elsewhere

(* ResourceLimit::Reserve of one *)
CanReserve(t) == current_values[t] + 1 <= limit_values[t]
Reserve(values, t) == [values EXCEPT ![t] = @ + 1]

(* n calls of ResourceLimit::Release for one; it refuses to go below zero. *)
Release(values, t, n) == [values EXCEPT ![t] = IF n > @ THEN 0 ELSE @ - n]

(* The destructors of the objects of a set. *)
Destroy(values, dead) ==
  [t \in Types |-> Release(values, t, Cardinality({o \in dead : type[o] = t}))[t]]

(***************************************************************************)
(* A new object o, whose reservation was made: it gets a handle, or dies.  *)
(***************************************************************************)
NewHandle(o) ==
  \/ /\ Create(o)
     /\ current_values' = Reserve(current_values, type[o])
  \/ /\ OutOfHandles
     /\ current_values' = Release(Reserve(current_values, type[o]), type[o], 1)
     /\ UNCHANGED vars

(* A system call that makes an object of type t, and fails if over the limit. *)
MakeObject(o, t) ==
  /\ ~ destroyed
  /\ type[o] = t /\ ~ Alive(o)
  /\ CanReserve(t)
  /\ NewHandle(o)
  /\ UNCHANGED <<limit_values, elsewhere, makes, destroyed, lost>>

SVC_CreateMutex(o) == MakeObject(o, "Mutex")
SVC_CreateEvent(o) == MakeObject(o, "Event")
SVC_CreateTimer(o) == MakeObject(o, "Timer")
SVC_CreateAddressArbiter(o) == MakeObject(o, "AddressArbiter")

(***************************************************************************)
(* CreateSemaphore with initial_count > max_count returns after Reserve:   *)
(* there is no semaphore whose destructor would release.                   *)
(***************************************************************************)
SVC_CreateSemaphore(o, initial_count, max_count) ==
  \/ /\ initial_count <= max_count
     /\ MakeObject(o, "Semaphore")
  \/ /\ initial_count > max_count
     /\ ~ destroyed /\ type[o] = "Semaphore" /\ ~ Alive(o)
     /\ CanReserve("Semaphore")
     /\ current_values' = Reserve(current_values, "Semaphore")
     /\ lost' = [lost EXCEPT !["Semaphore"] = @ + 1]
     /\ UNCHANGED <<vars, limit_values, elsewhere, makes, destroyed>>

SVC_DuplicateHandle(h) ==
  /\ ~ destroyed
  /\ Duplicate(h)
  /\ UNCHANGED <<current_values, limit_values, elsewhere, makes, destroyed, lost>>

(* The counted objects whose last reference the step takes away. *)
Dying == {o \in Counted : Alive(o) /\ ~ Alive(o)'}

(* Mutant: every handle gives the reservation back. *)
SVC_CloseHandleReleases(h) ==
  /\ ~ destroyed
  /\ Close(h)
  /\ current_values' = Destroy(current_values, {objects[GetSlot(h)]} \cap Counted)
  /\ UNCHANGED <<limit_values, elsewhere, makes, destroyed, lost>>

SVC_CloseHandle(h) ==
  /\ ~ destroyed
  /\ Close(h)
  /\ UNCHANGED <<limit_values, elsewhere, makes, destroyed, lost>>
  /\ current_values' = Destroy(current_values, Dying)

(* SetResourceLimitLimitValues with a list of all the types and one value. *)
SVC_SetResourceLimitLimitValues(v) ==
  /\ ~ destroyed
  /\ limit_values' = [t \in Types |-> v]
  /\ UNCHANGED <<vars, current_values, elsewhere, makes, destroyed, lost>>

(* A reference to an object of the table is made, or goes, outside of it. *)
Reference(o) ==
  /\ InTable(o) /\ o \notin elsewhere
  /\ elsewhere' = elsewhere \cup {o}
  /\ UNCHANGED <<vars, current_values, limit_values, makes, destroyed, lost>>

Unreference(o) ==
  /\ o \in elsewhere
  /\ elsewhere' = elsewhere \ {o}
  /\ UNCHANGED <<vars, limit_values, makes, destroyed, lost>>
  /\ current_values' = Destroy(current_values, Dying)

(* ~Process *)
DestroyProcess ==
  /\ ~ destroyed
  /\ destroyed' = TRUE
  /\ Clear
  /\ UNCHANGED <<limit_values, elsewhere, makes, lost>>
  /\ current_values' = Destroy(current_values, Dying)

ObjectsInit ==
  /\ Init
  /\ current_values = [t \in Types |-> 0]
  /\ limit_values = [t \in Types |-> InitLimit]
  /\ elsewhere = {}
  /\ makes \in Programs
  /\ destroyed = FALSE
  /\ lost = [t \in Types |-> 0]

ObjectsNext ==
  \/ \E o \in makes :
        \/ SVC_CreateMutex(o) \/ SVC_CreateEvent(o) \/ SVC_CreateTimer(o)
        \/ SVC_CreateAddressArbiter(o)
        \/ \E initial_count, max_count \in {0, 1} : SVC_CreateSemaphore(o, initial_count, max_count)
        \/ Reference(o) \/ Unreference(o)
  \/ \E h \in Handle : SVC_DuplicateHandle(h) \/ SVC_CloseHandle(h)
  \/ \E v \in NewLimits : SVC_SetResourceLimitLimitValues(v)
  \/ DestroyProcess

ObjectsSpec == ObjectsInit /\ [][ObjectsNext]_allvars

-----------------------------------------------------------------------------
(***************************************************************************)
(* The count of a type is the number of its objects that are alive, plus   *)
(* the reservations of calls that failed after Reserve and never gave them *)
(* back.  So an object is released once, however many handles and other    *)
(* references it had and in whatever order they went.                      *)
(***************************************************************************)
ResourcesAccounted ==
  \A t \in Types :
    current_values[t] = Cardinality({o \in Counted : type[o] = t /\ Alive(o)}) + lost[t]
=============================================================================

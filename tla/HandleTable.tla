----------------------------- MODULE HandleTable -----------------------------
(***************************************************************************)
(* HandleTable (core/hle/kernel/handle_table.cpp): the handles of one      *)
(* process.  The generations of the empty slots are the links of the list  *)
(* of free slots.                                                          *)
(***************************************************************************)
EXTENDS Integers

CONSTANTS
  MAX_COUNT,       \* number of slots of the table (4096)
  GENERATIONS,     \* the generations that fit in a handle: 1 << 15
  SLOTS,           \* the values of the u16 that GetSlot returns: 1 << 16
  Objects,         \* the kernel objects
  nullptr,         \* an empty slot, and the result of a failed lookup
  current_thread,  \* what the pseudo-handle CurrentThread names
  current_process  \* what the pseudo-handle CurrentProcess names

(***************************************************************************)
(* The slots, the links between them and the end of the list fit in a u16; *)
(* the slot of a pseudo-handle is none of the table.                       *)
(***************************************************************************)
ASSUME HandleConstants ==
  /\ MAX_COUNT \in Nat \ {0} /\ GENERATIONS \in Nat /\ SLOTS \in Nat
  /\ MAX_COUNT < SLOTS
  /\ GENERATIONS > 2
  /\ nullptr \notin Objects
  /\ current_thread \in Objects /\ current_process \in Objects

VARIABLES
  objects,
  generations,
  next_generation,
  next_free_slot,
  since            \* history: since[h] handles were created after h, for the
                   \* last round of generations

vars == <<objects, generations, next_generation, next_free_slot, since>>

Slot == 0 .. MAX_COUNT - 1

(* A handle has 32 bits: 15 of generation and 17 of slot. *)
Handle == 0 .. GENERATIONS * 2 * SLOTS - 1

(* enum KernelHandle *)
CurrentThread == (2 * SLOTS - 1) * GENERATIONS
CurrentProcess == CurrentThread + 1

(* GetSlot keeps 16 of the 17 bits. *)
GetSlot(handle) == (handle \div GENERATIONS) % SLOTS

GetGeneration(handle) == handle % GENERATIONS

MakeHandle(slot, generation) == slot * GENERATIONS + generation

(* Mutant: the generation is not compared. *)
IsValidSlotOnly(handle) ==
  /\ GetSlot(handle) < MAX_COUNT
  /\ objects[GetSlot(handle)] # nullptr

IsValid(handle) ==
  /\ GetSlot(handle) < MAX_COUNT
  /\ objects[GetSlot(handle)] # nullptr
  /\ generations[GetSlot(handle)] = GetGeneration(handle)

GetGeneric(handle) ==
  CASE handle = CurrentThread  -> current_thread
    [] handle = CurrentProcess -> current_process
    [] OTHER -> IF IsValid(handle) THEN objects[GetSlot(handle)] ELSE nullptr

(* Handle h is the newest, and one that is a round of generations old is forgotten. *)
Age(h) ==
  since' = [g \in {h} \cup {i \in DOMAIN since : since[i] < GENERATIONS - 3} |->
              IF g = h THEN 0 ELSE since[g] + 1]

(* The constructor. *)
Init ==
  /\ generations = [i \in Slot |-> i + 1]
  /\ objects = [i \in Slot |-> nullptr]
  /\ next_free_slot = 0
  /\ next_generation = 1
  /\ since = [h \in {} |-> 0]

OutOfHandles == next_free_slot >= MAX_COUNT

(* HandleTable::Create, when there is a free slot. *)
Create(obj) ==
  LET slot == next_free_slot
  IN  /\ ~ OutOfHandles
      /\ next_free_slot' = generations[slot]
      /\ next_generation' = IF next_generation + 1 >= GENERATIONS THEN 1 ELSE next_generation + 1
      /\ generations' = [generations EXCEPT ![slot] = next_generation]
      /\ objects' = [objects EXCEPT ![slot] = obj]
      /\ Age(MakeHandle(slot, next_generation))

Duplicate(handle) ==
  /\ GetGeneric(handle) # nullptr
  /\ Create(GetGeneric(handle))

(* Mutant: the slot is freed, and its object stays in it. *)
CloseKeepsObject(handle) ==
  /\ IsValid(handle)
  /\ generations' = [generations EXCEPT ![GetSlot(handle)] = next_free_slot]
  /\ next_free_slot' = GetSlot(handle)
  /\ UNCHANGED <<objects, next_generation, since>>

(* Mutant: the head of the list is written before the link is made of it. *)
CloseLinksLate(handle) ==
  /\ IsValid(handle)
  /\ objects' = [objects EXCEPT ![GetSlot(handle)] = nullptr]
  /\ next_free_slot' = GetSlot(handle)
  /\ generations' = [generations EXCEPT ![GetSlot(handle)] = next_free_slot']
  /\ UNCHANGED <<next_generation, since>>

Close(handle) ==
  /\ IsValid(handle)
  /\ objects' = [objects EXCEPT ![GetSlot(handle)] = nullptr]
  /\ generations' = [generations EXCEPT ![GetSlot(handle)] = next_free_slot]
  /\ next_free_slot' = GetSlot(handle)
  /\ UNCHANGED <<next_generation, since>>

(* Clear may come at any time here; ~Process is its only caller at run time. *)
Clear ==
  /\ generations' = [i \in Slot |-> i + 1]
  /\ objects' = [i \in Slot |-> nullptr]
  /\ next_free_slot' = 0
  /\ UNCHANGED <<next_generation, since>>

Next ==
  \/ \E o \in Objects : Create(o)
  \/ \E h \in Handle : Duplicate(h) \/ Close(h)
  \/ Clear

Spec == Init /\ [][Next]_vars

-----------------------------------------------------------------------------
(* The fields keep to their u16, and the links to the table. *)
TypeOK ==
  /\ objects \in [Slot -> Objects \cup {nullptr}]
  /\ next_generation \in 1 .. GENERATIONS - 1
  /\ next_free_slot \in 0 .. MAX_COUNT
  /\ generations \in [Slot -> Nat]
  /\ \A s \in Slot :
       generations[s] \in IF objects[s] = nullptr THEN 0 .. MAX_COUNT ELSE 1 .. GENERATIONS - 1

(* The open handles: what Create returned for the slots that are in use. *)
OpenHandles == {MakeHandle(s, generations[s]) : s \in {i \in Slot : objects[i] # nullptr}}

(***************************************************************************)
(* A handle that Create or Duplicate returned and that is not closed is    *)
(* valid and still names the object it was made for, and no two of them    *)
(* are equal: HandleTable implements HandleMap.                            *)
(***************************************************************************)
issued == [h \in OpenHandles |-> GetGeneric(h)]

Map == INSTANCE HandleMap

ImplementsMap == Map!Spec

(***************************************************************************)
(* The links of the list of free slots, one by one: the head and every     *)
(* link lead to an empty slot or to the end, no empty slot is the target   *)
(* of two links, and none leads back to the head.  So Create, which        *)
(* overwrites the slot at the head, never overwrites one in use.           *)
(***************************************************************************)
Empty == {s \in Slot : objects[s] = nullptr}

FreeLinks ==
  /\ next_free_slot \in Empty \cup {MAX_COUNT}
  /\ \A s \in Empty : generations[s] \in Empty \cup {MAX_COUNT}
  /\ \A s \in Empty : generations[s] = next_free_slot => next_free_slot = MAX_COUNT
  /\ \A s, t \in Empty : generations[s] = generations[t] /\ s # t => generations[s] = MAX_COUNT

(***************************************************************************)
(* What Create wrote into the handle is what a lookup of it finds, for     *)
(* every slot in use (the | of generation and slot mixes no bits).         *)
(***************************************************************************)
HandlesResolve ==
  \A s \in Slot : objects[s] # nullptr =>
    LET h == MakeHandle(s, generations[s])
    IN  GetSlot(h) = s /\ IsValid(h) /\ GetGeneric(h) = objects[s]

(* The first n links of the list of free slots, from its head. *)
Link[n \in 0 .. MAX_COUNT] ==
  IF n = 0 THEN next_free_slot
  ELSE IF Link[n - 1] < MAX_COUNT THEN generations[Link[n - 1]] ELSE MAX_COUNT

(***************************************************************************)
(* The list that Create pops and Close pushes holds the empty slots, all   *)
(* of them and no other, each once: Create fails only when every slot is   *)
(* in use.                                                                 *)
(***************************************************************************)
FreeListExact ==
  /\ \A s \in Slot : objects[s] = nullptr <=> \E n \in 0 .. MAX_COUNT - 1 : Link[n] = s
  /\ \A m, n \in 0 .. MAX_COUNT : m # n /\ Link[m] < MAX_COUNT => Link[m] # Link[n]

(***************************************************************************)
(* A handle that was closed is not taken for the one that has its slot     *)
(* now: it stays invalid until as many handles were created after it as    *)
(* there are generations.                                                  *)
(***************************************************************************)
StaleHandlesRejected ==
  [][\A h \in DOMAIN since : ~ IsValid(h) => ~ IsValid(h)']_vars
=============================================================================

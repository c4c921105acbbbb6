-------------------------- MODULE KernelTablesProofs --------------------------
(***************************************************************************)
(* The two tables of the kernel that its objects are reached through.      *)
(* First the handle table of a process together with its resource limit,   *)
(* for every set of objects, every size of the table and every limit; then *)
(* the ready queue, which is shown to implement a plain priority queue for *)
(* any number of levels and any set of threads.                            *)
(***************************************************************************)
EXTENDS ProcessObjects, ReadyQueue, ThreadQueueListProofs, FiniteSetTheorems

-----------------------------------------------------------------------------
(* The handle table by itself. *)

(* The shift and the mask of a handle undo what Create packed. *)
LEMMA Unpack ==
  ASSUME NEW n \in Nat, n > 0, NEW s \in Nat, NEW g \in 0 .. n - 1
  PROVE  /\ (s * n + g) \div n = s
         /\ (s * n + g) % n = g
  BY SMT

(* A number below the modulus is its own remainder. *)
LEMMA SmallRemainder ==
  ASSUME NEW n \in Nat, NEW s \in 0 .. n - 1
  PROVE  s % n = s
  BY SMT

(* What a handle of the table is: its slot, its generation, and no pseudo-handle. *)
LEMMA HandleFacts ==
  ASSUME NEW s \in Slot, NEW g \in 0 .. GENERATIONS - 1
  PROVE  /\ GetSlot(MakeHandle(s, g)) = s
         /\ GetGeneration(MakeHandle(s, g)) = g
         /\ MakeHandle(s, g) \in Handle
         /\ MakeHandle(s, g) < CurrentThread
<1> DEFINE h == s * GENERATIONS + g
<1>1. s \in Nat /\ s + 1 <= MAX_COUNT /\ s + 1 < SLOTS
  BY HandleConstants DEF Slot
<1>2. h \div GENERATIONS = s /\ h % GENERATIONS = g
  BY <1>1, Unpack, HandleConstants
<1>3. s % SLOTS = s
  BY <1>1, SmallRemainder, HandleConstants
<1>4. h < (s + 1) * GENERATIONS
  BY <1>1, HandleConstants, SMT
<1>5. (s + 1) * GENERATIONS <= (2 * SLOTS - 1) * GENERATIONS
  <2>1. 2 * SLOTS - 1 >= s + 1
    BY <1>1, HandleConstants
  <2> QED
    BY <2>1, <1>1, HandleConstants, SMT
<1>6. (2 * SLOTS - 1) * GENERATIONS <= GENERATIONS * 2 * SLOTS - 1
  BY HandleConstants, SMT
<1>7. h \in Nat /\ (s + 1) * GENERATIONS \in Nat /\ (2 * SLOTS - 1) * GENERATIONS \in Int
      /\ GENERATIONS * 2 * SLOTS - 1 \in Int
  BY <1>1, HandleConstants, SMT
<1>8. h < (2 * SLOTS - 1) * GENERATIONS
  BY <1>4, <1>5, <1>7
<1>9. h \in 0 .. GENERATIONS * 2 * SLOTS - 1
  BY <1>8, <1>6, <1>7
<1> QED
  BY <1>2, <1>3, <1>8, <1>9 DEF GetSlot, GetGeneration, MakeHandle, Handle, CurrentThread

-----------------------------------------------------------------------------
(* The type invariant and the links together are inductive. *)
TableInv == TypeOK /\ FreeLinks

LEMMA InitTable == Init => TableInv
<1> SUFFICES ASSUME Init PROVE TableInv
  OBVIOUS
<1>1. TypeOK
  BY HandleConstants DEF Init, TypeOK, Slot
<1>2. Empty = Slot
  BY DEF Init, Empty
<1>3. FreeLinks
  BY <1>2, HandleConstants DEF Init, FreeLinks, Slot
<1> QED
  BY <1>1, <1>3 DEF TableInv

LEMMA CreateTable ==
  ASSUME TableInv, NEW o \in Objects, Create(o)
  PROVE  TableInv'
<1> DEFINE slot == next_free_slot
<1>1. slot \in Empty /\ slot \in Slot /\ slot # MAX_COUNT
  BY HandleConstants DEF TableInv, TypeOK, FreeLinks, Create, OutOfHandles, Empty, Slot
<1>2. /\ next_free_slot' = generations[slot]
      /\ generations' = [generations EXCEPT ![slot] = next_generation]
      /\ objects' = [objects EXCEPT ![slot] = o]
      /\ next_generation' = IF next_generation + 1 >= GENERATIONS THEN 1 ELSE next_generation + 1
  BY DEF Create
<1>3. Empty' = Empty \ {slot}
  BY <1>1, <1>2, HandleConstants DEF Empty, TableInv, TypeOK
<1>4. \A s \in Slot \ {slot} : generations'[s] = generations[s] /\ objects'[s] = objects[s]
  BY <1>1, <1>2 DEF TableInv, TypeOK
<1>5. TypeOK'
  <2>1. objects' \in [Slot -> Objects \cup {nullptr}]
    BY <1>1, <1>2 DEF TableInv, TypeOK
  <2>2. next_generation' \in 1 .. GENERATIONS - 1
    BY <1>2, HandleConstants DEF TableInv, TypeOK
  <2>3. next_free_slot' \in 0 .. MAX_COUNT
    BY <1>1, <1>2 DEF TableInv, TypeOK, Empty
  <2>4. generations' \in [Slot -> Nat]
    BY <1>1, <1>2, HandleConstants DEF TableInv, TypeOK
  <2>5. generations'[slot] = next_generation /\ objects'[slot] # nullptr
    BY <1>1, <1>2, HandleConstants DEF TableInv, TypeOK
  <2>6. \A s \in Slot :
          generations'[s] \in IF objects'[s] = nullptr THEN 0 .. MAX_COUNT
                              ELSE 1 .. GENERATIONS - 1
    BY <1>4, <2>5 DEF TableInv, TypeOK
  <2> QED
    BY <2>1, <2>2, <2>3, <2>4, <2>6 DEF TypeOK
<1>6. FreeLinks'
  BY <1>1, <1>2, <1>3, <1>4 DEF TableInv, FreeLinks, Empty
<1> QED
  BY <1>5, <1>6 DEF TableInv

LEMMA CloseTable ==
  ASSUME TableInv, NEW h \in Handle, Close(h)
  PROVE  TableInv'
<1> DEFINE slot == GetSlot(h)
<1>1. slot \in Slot /\ slot \notin Empty
  <2>1. slot \in Nat
    BY HandleConstants DEF Handle, GetSlot
  <2> QED
    BY <2>1, HandleConstants DEF Close, IsValid, Slot, Empty
<1>2. /\ objects' = [objects EXCEPT ![slot] = nullptr]
      /\ generations' = [generations EXCEPT ![slot] = next_free_slot]
      /\ next_free_slot' = slot
      /\ next_generation' = next_generation
  BY DEF Close
<1>3. Empty' = Empty \cup {slot}
  BY <1>1, <1>2 DEF Empty, TableInv, TypeOK
<1>4. /\ generations'[slot] = next_free_slot /\ objects'[slot] = nullptr
      /\ \A s \in Slot \ {slot} : generations'[s] = generations[s] /\ objects'[s] = objects[s]
  BY <1>1, <1>2 DEF TableInv, TypeOK
<1>5. TypeOK'
  <2>1. objects' \in [Slot -> Objects \cup {nullptr}]
    BY <1>1, <1>2 DEF TableInv, TypeOK
  <2>2. generations' \in [Slot -> Nat] /\ next_free_slot' \in 0 .. MAX_COUNT
    BY <1>1, <1>2, HandleConstants DEF TableInv, TypeOK, Slot
  <2>3. \A s \in Slot :
          generations'[s] \in IF objects'[s] = nullptr THEN 0 .. MAX_COUNT
                              ELSE 1 .. GENERATIONS - 1
    BY <1>1, <1>4 DEF TableInv, TypeOK
  <2> QED
    BY <1>2, <2>1, <2>2, <2>3 DEF TableInv, TypeOK
<1>6. slot # MAX_COUNT
  BY <1>1, HandleConstants DEF Slot
<1>7. FreeLinks'
  BY <1>1, <1>2, <1>3, <1>4, <1>6 DEF TableInv, FreeLinks, Empty
<1> QED
  BY <1>5, <1>7 DEF TableInv

LEMMA ClearTable ==
  ASSUME TableInv, Clear
  PROVE  TableInv'
<1>1. TypeOK'
  BY HandleConstants DEF Clear, TableInv, TypeOK, Slot
<1>2. Empty' = Slot
  BY DEF Clear, Empty
<1>3. FreeLinks'
  BY <1>2, HandleConstants DEF Clear, FreeLinks, Slot
<1> QED
  BY <1>1, <1>3 DEF TableInv

(* A lookup that finds something finds an object. *)
LEMMA LookupFindsObject ==
  ASSUME TypeOK, NEW h \in Handle, GetGeneric(h) # nullptr
  PROVE  GetGeneric(h) \in Objects
<1>1. CASE h = CurrentThread
  BY <1>1, HandleConstants DEF GetGeneric
<1>2. CASE h # CurrentThread /\ h = CurrentProcess
  BY <1>2, HandleConstants DEF GetGeneric
<1>3. CASE h # CurrentThread /\ h # CurrentProcess
  <2>1. IsValid(h) /\ GetGeneric(h) = objects[GetSlot(h)]
    BY <1>3 DEF GetGeneric
  <2>2. GetSlot(h) \in Nat
    BY HandleConstants DEF Handle, GetSlot
  <2>3. GetSlot(h) \in Slot
    BY <2>1, <2>2, HandleConstants DEF IsValid, Slot
  <2> QED
    BY <2>1, <2>3 DEF TypeOK
<1> QED
  BY <1>1, <1>2, <1>3

LEMMA NextTable == TableInv /\ [Next]_vars => TableInv'
<1> SUFFICES ASSUME TableInv, [Next]_vars PROVE TableInv'
  OBVIOUS
<1>1. ASSUME NEW o \in Objects, Create(o) PROVE TableInv'
  BY <1>1, CreateTable
<1>2. ASSUME NEW h \in Handle, Duplicate(h) PROVE TableInv'
  BY <1>2, CreateTable, LookupFindsObject DEF Duplicate, TableInv
<1>3. ASSUME NEW h \in Handle, Close(h) PROVE TableInv'
  BY <1>3, CloseTable
<1>4. CASE Clear
  BY <1>4, ClearTable
<1>5. CASE UNCHANGED vars
  BY <1>5 DEF vars, TableInv, TypeOK, FreeLinks, Empty
<1> QED
  BY <1>1, <1>2, <1>3, <1>4, <1>5 DEF Next

LEMMA TableInvariant == Spec => []TableInv
  BY InitTable, NextTable, PTL DEF Spec

(***************************************************************************)
(* The fields of the table keep to their ranges: a link never leaves the   *)
(* table and a generation fits in the 15 bits that a handle has for it.    *)
(***************************************************************************)
THEOREM TypeCorrect == Spec => []TypeOK
<1>1. TableInv => TypeOK
  BY DEF TableInv
<1> QED
  BY <1>1, TableInvariant, PTL

(***************************************************************************)
(* Create never overwrites a slot that is in use: the head of the free     *)
(* list, and every link of it, is an empty slot, reached in one way only.  *)
(***************************************************************************)
THEOREM LinksAreFree == Spec => []FreeLinks
<1>1. TableInv => FreeLinks
  BY DEF TableInv
<1> QED
  BY <1>1, TableInvariant, PTL

(* What a lookup makes of the handle of a slot in use. *)
LEMMA ResolveSlot ==
  ASSUME TypeOK, NEW s \in Slot, objects[s] # nullptr
  PROVE  LET h == MakeHandle(s, generations[s])
         IN  /\ h \in Handle /\ GetSlot(h) = s /\ GetGeneration(h) = generations[s]
             /\ IsValid(h) /\ GetGeneric(h) = objects[s]
<1> DEFINE h == MakeHandle(s, generations[s])
<1>1. generations[s] \in 0 .. GENERATIONS - 1
  BY HandleConstants DEF TypeOK
<1>2. /\ GetSlot(h) = s /\ GetGeneration(h) = generations[s]
      /\ h \in Handle /\ h < CurrentThread
  BY <1>1, HandleFacts
<1>3. s < MAX_COUNT
  BY HandleConstants DEF Slot
<1>4. IsValid(h)
  BY <1>2, <1>3 DEF IsValid
<1>5. CurrentThread \in Int /\ h \in Int
  BY <1>2, HandleConstants DEF CurrentThread, Handle
<1>6. h # CurrentThread /\ h # CurrentProcess
  BY <1>2, <1>5 DEF CurrentProcess
<1> HIDE DEF h
<1>7. GetGeneric(h) = objects[s]
  BY <1>2, <1>4, <1>6 DEF GetGeneric
<1> QED
  BY <1>2, <1>4, <1>7 DEF h

(***************************************************************************)
(* The handle that Create returned for a slot resolves to the object of    *)
(* the slot as long as the slot is in use.                                 *)
(***************************************************************************)
THEOREM OpenHandlesResolve == Spec => []HandlesResolve
<1>1. TypeOK => HandlesResolve
  BY ResolveSlot DEF HandlesResolve
<1> QED
  BY <1>1, TypeCorrect, PTL

-----------------------------------------------------------------------------
(* Two handles of the table with different slots are different. *)
LEMMA HandlesDiffer ==
  ASSUME NEW s \in Slot, NEW g \in 0 .. GENERATIONS - 1,
         NEW t \in Slot, NEW f \in 0 .. GENERATIONS - 1, s # t
  PROVE  MakeHandle(s, g) # MakeHandle(t, f)
  BY HandleFacts

(* The open handles are those of the slots in use. *)
LEMMA OpenHandleSlot ==
  ASSUME NEW h
  PROVE  h \in OpenHandles <=>
           \E s \in Slot : objects[s] # nullptr /\ h = MakeHandle(s, generations[s])
  BY DEF OpenHandles

(* A handle of a slot that a step leaves alone names the same object after it. *)
LEMMA SameObject ==
  ASSUME TypeOK, TypeOK', NEW s \in Slot, objects[s] # nullptr,
         objects'[s] = objects[s], generations'[s] = generations[s],
         NEW h, h = MakeHandle(s, generations[s])
  PROVE  GetGeneric(h)' = GetGeneric(h)
<1>1. GetGeneric(h) = objects[s]
  BY ResolveSlot
<1>2. generations[s] \in 0 .. GENERATIONS - 1
  BY HandleConstants DEF TypeOK
<1>3. /\ GetSlot(h) = s /\ GetGeneration(h) = generations[s]
      /\ h \in Handle /\ h < CurrentThread
  BY <1>2, HandleFacts
<1>4. CurrentThread \in Int /\ h \in Int
  BY <1>3, HandleConstants DEF CurrentThread, Handle
<1>5. h # CurrentThread /\ h # CurrentProcess
  BY <1>3, <1>4 DEF CurrentProcess
<1>6. s < MAX_COUNT
  BY HandleConstants DEF Slot
<1>7. IsValid(h)'
  BY <1>3, <1>6 DEF IsValid
<1>8. GetGeneric(h)' = objects'[s]
  BY <1>3, <1>5, <1>7 DEF GetGeneric
<1> QED
  BY <1>1, <1>8

LEMMA CreateOpens ==
  ASSUME TableInv, NEW o \in Objects, Create(o)
  PROVE  Map!Open(MakeHandle(next_free_slot, next_generation), o)
<1>0. PICK slot, new : slot = next_free_slot /\ new = MakeHandle(slot, next_generation)
  OBVIOUS
<1>1. slot \in Slot /\ objects[slot] = nullptr
  BY <1>0, HandleConstants DEF TableInv, TypeOK, FreeLinks, Create, OutOfHandles, Empty, Slot
<1>2. /\ generations' = [generations EXCEPT ![slot] = next_generation]
      /\ objects' = [objects EXCEPT ![slot] = o]
  BY <1>0 DEF Create
<1>3. TypeOK /\ TypeOK'
  BY CreateTable DEF TableInv
<1>4. /\ generations'[slot] = next_generation /\ objects'[slot] = o /\ o # nullptr
      /\ \A s \in Slot \ {slot} : generations'[s] = generations[s] /\ objects'[s] = objects[s]
  BY <1>1, <1>2, <1>3, HandleConstants DEF TypeOK
<1>5. next_generation \in 0 .. GENERATIONS - 1
  BY <1>3, HandleConstants DEF TypeOK
<1>6. \A s \in Slot : objects[s] # nullptr => generations[s] \in 0 .. GENERATIONS - 1
  BY <1>3, HandleConstants DEF TypeOK
<1>7. new \notin OpenHandles
  BY <1>0, <1>1, <1>5, <1>6, HandlesDiffer, OpenHandleSlot
<1>8. OpenHandles' = OpenHandles \cup {new}
  <2>1. \A h : h \in OpenHandles' <=>
          \E s \in Slot : objects'[s] # nullptr /\ h = MakeHandle(s, generations'[s])
    BY DEF OpenHandles
  <2>2. \A h : h \in OpenHandles' <=> h \in OpenHandles \cup {new}
    BY <2>1, <1>0, <1>1, <1>4, OpenHandleSlot
  <2> QED
    BY <2>2
<1>9. GetGeneric(new)' = o
  <2>1. /\ GetSlot(new) = slot /\ GetGeneration(new) = next_generation
        /\ new \in Handle /\ new < CurrentThread
    BY <1>0, <1>1, <1>5, HandleFacts
  <2>2. CurrentThread \in Int /\ new \in Int
    BY <2>1, HandleConstants DEF CurrentThread, Handle
  <2>3. new # CurrentThread /\ new # CurrentProcess
    BY <2>1, <2>2 DEF CurrentProcess
  <2>4. slot < MAX_COUNT
    BY <1>1, HandleConstants DEF Slot
  <2>5. IsValid(new)'
    BY <2>1, <2>4, <1>4 DEF IsValid
  <2> QED
    BY <2>1, <2>3, <2>5, <1>4 DEF GetGeneric
<1>10. ASSUME NEW h \in OpenHandles PROVE GetGeneric(h)' = GetGeneric(h)
  <2>1. PICK s \in Slot : objects[s] # nullptr /\ h = MakeHandle(s, generations[s])
    BY OpenHandleSlot
  <2>2. s # slot
    BY <2>1, <1>1
  <2> QED
    BY <2>1, <2>2, <1>3, <1>4, SameObject
<1>11. issued' = [h \in OpenHandles' |-> GetGeneric(h)']
  BY DEF issued
<1>12. issued' = [h \in OpenHandles \cup {new} |-> IF h = new THEN o ELSE issued[h]]
  BY <1>7, <1>8, <1>9, <1>10, <1>11 DEF issued
<1>13. DOMAIN issued = OpenHandles
  BY DEF issued
<1> QED
  BY <1>0, <1>7, <1>12, <1>13 DEF Map!Open

LEMMA CloseCloses ==
  ASSUME TableInv, NEW h \in Handle, Close(h)
  PROVE  \E g \in Handle : Map!Close(g)
<1> DEFINE slot == GetSlot(h)
<1>0. PICK old : old = MakeHandle(slot, generations[slot])
  OBVIOUS
<1>1. slot \in Slot /\ objects[slot] # nullptr
  <2>1. slot \in Nat
    BY HandleConstants DEF Handle, GetSlot
  <2> QED
    BY <2>1, HandleConstants DEF Close, IsValid, Slot
<1>2. /\ objects' = [objects EXCEPT ![slot] = nullptr]
      /\ generations' = [generations EXCEPT ![slot] = next_free_slot]
  BY DEF Close
<1>3. TypeOK /\ TypeOK'
  BY CloseTable DEF TableInv
<1>4. /\ objects'[slot] = nullptr
      /\ \A s \in Slot \ {slot} : generations'[s] = generations[s] /\ objects'[s] = objects[s]
  BY <1>1, <1>2, <1>3 DEF TypeOK
<1>5. \A s \in Slot : objects[s] # nullptr => generations[s] \in 0 .. GENERATIONS - 1
  BY <1>3, HandleConstants DEF TypeOK
<1>6. old \in Handle /\ old \in OpenHandles
  BY <1>0, <1>1, <1>3, ResolveSlot, OpenHandleSlot
<1>7. OpenHandles' = OpenHandles \ {old}
  <2>1. \A g : g \in OpenHandles' <=>
          \E s \in Slot : objects'[s] # nullptr /\ g = MakeHandle(s, generations'[s])
    BY DEF OpenHandles
  <2>2. \A g : g \in OpenHandles' <=> g \in OpenHandles \ {old}
    BY <2>1, <1>0, <1>1, <1>4, <1>5, HandlesDiffer, OpenHandleSlot
  <2> QED
    BY <2>2
<1>8. ASSUME NEW g \in OpenHandles' PROVE GetGeneric(g)' = GetGeneric(g)
  <2>1. PICK s \in Slot : objects[s] # nullptr /\ g = MakeHandle(s, generations[s])
    BY <1>7, OpenHandleSlot
  <2>2. s # slot
    BY <2>1, <1>0, <1>7
  <2> QED
    BY <2>1, <2>2, <1>3, <1>4, SameObject
<1>9. issued' = [g \in OpenHandles \ {old} |-> issued[g]]
  <2>1. issued' = [g \in OpenHandles' |-> GetGeneric(g)']
    BY DEF issued
  <2> QED
    BY <2>1, <1>7, <1>8 DEF issued
<1>10. DOMAIN issued = OpenHandles
  BY DEF issued
<1>11. Map!Close(old)
  BY <1>6, <1>9, <1>10 DEF Map!Close
<1> QED
  BY <1>6, <1>11

(***************************************************************************)
(* The table implements HandleMap: a step of Create or Duplicate opens one *)
(* handle that was not open, Close closes one, Clear all, and none of them *)
(* changes what another open handle names.                                 *)
(***************************************************************************)
THEOREM Refinement == Spec => ImplementsMap
<1>1. Init => Map!Init
  <2> SUFFICES ASSUME Init PROVE Map!Init
    OBVIOUS
  <2>1. OpenHandles = {}
    BY DEF Init, OpenHandles
  <2> QED
    BY <2>1 DEF issued, Map!Init
<1>2. TableInv /\ [Next]_vars => [Map!Next]_issued
  <2> SUFFICES ASSUME TableInv, [Next]_vars PROVE [Map!Next]_issued
    OBVIOUS
  <2>1. ASSUME NEW o \in Objects, Create(o) PROVE Map!Next
    <3>1. next_free_slot \in Slot /\ next_generation \in 0 .. GENERATIONS - 1
      BY <2>1, HandleConstants DEF TableInv, TypeOK, Create, OutOfHandles, Slot
    <3>2. MakeHandle(next_free_slot, next_generation) \in Handle
      BY <3>1, HandleFacts
    <3>3. PICK new \in Handle : Map!Open(new, o)
      BY <2>1, <3>2, CreateOpens
    <3>4. new \in DOMAIN issued'
      BY <3>3 DEF Map!Open
    <3> QED
      BY <3>3, <3>4 DEF Map!Next
  <2>2. ASSUME NEW h \in Handle, Duplicate(h) PROVE Map!Next
    BY <2>1, <2>2, LookupFindsObject DEF Duplicate, TableInv
  <2>3. ASSUME NEW h \in Handle, Close(h) PROVE Map!Next
    BY <2>3, CloseCloses DEF Map!Next
  <2>4. ASSUME Clear PROVE Map!Next
    <3>1. OpenHandles' = {}
      BY <2>4 DEF Clear, OpenHandles
    <3>2. issued' = [h \in OpenHandles' |-> GetGeneric(h)']
      BY DEF issued
    <3> QED
      BY <3>1, <3>2 DEF Map!Next, Map!CloseAll
  <2>5. ASSUME UNCHANGED vars PROVE UNCHANGED issued
    BY <2>5 DEF vars, issued, OpenHandles, GetGeneric, IsValid
  <2> QED
    BY <2>1, <2>2, <2>3, <2>4, <2>5 DEF Next
<1> QED
  BY <1>1, <1>2, TableInvariant, PTL DEF Spec, ImplementsMap, Map!Spec

-----------------------------------------------------------------------------
(***************************************************************************)
(* A handle of the last round has a generation that the counter has passed *)
(* as often as handles were created after it, with one wrap at most.       *)
(***************************************************************************)
Passed(g, n) ==
  /\ g \in 1 .. GENERATIONS - 1
  /\ n \in 0 .. GENERATIONS - 3
  /\ next_generation = g + n + 1 \/ next_generation = g + n + 2 - GENERATIONS

RoundInv ==
  \A h \in DOMAIN since :
    \E s \in Slot, g \in 1 .. GENERATIONS - 1 : h = MakeHandle(s, g) /\ Passed(g, since[h])

LEMMA CreateRound ==
  ASSUME TableInv, RoundInv, NEW o, Create(o)
  PROVE  RoundInv'
<1> DEFINE kept == {i \in DOMAIN since : since[i] < GENERATIONS - 3}
<1>0. PICK new : new = MakeHandle(next_free_slot, next_generation)
  OBVIOUS
<1>1. /\ next_free_slot \in Slot
      /\ next_generation \in 1 .. GENERATIONS - 1
  BY HandleConstants DEF TableInv, TypeOK, Create, OutOfHandles, Slot
<1>2. since' = [h \in {new} \cup kept |-> IF h = new THEN 0 ELSE since[h] + 1]
  BY <1>0 DEF Create, Age
<1>3. next_generation' = IF next_generation + 1 >= GENERATIONS THEN 1 ELSE next_generation + 1
  BY DEF Create
<1> SUFFICES ASSUME NEW h \in DOMAIN since'
             PROVE  \E s \in Slot, g \in 1 .. GENERATIONS - 1 :
                       h = MakeHandle(s, g) /\ Passed(g, since[h])'
  BY DEF RoundInv
<1>4. CASE h = new
  <2>1. PICK g \in 1 .. GENERATIONS - 1 : g = next_generation
    BY <1>1
  <2>2. PICK s \in Slot : s = next_free_slot
    BY <1>1
  <2>3. since'[h] = 0
    BY <1>2, <1>4
  <2>4. Passed(g, since[h])'
    BY <2>1, <2>3, <1>3, HandleConstants DEF Passed
  <2> QED
    BY <2>1, <2>2, <2>4, <1>0, <1>4
<1>5. CASE h # new
  <2>1. h \in DOMAIN since /\ since[h] < GENERATIONS - 3 /\ since'[h] = since[h] + 1
    BY <1>2, <1>5
  <2>2. PICK s \in Slot, g \in 1 .. GENERATIONS - 1 : h = MakeHandle(s, g) /\ Passed(g, since[h])
    BY <2>1 DEF RoundInv
  <2>3. Passed(g, since[h])'
    BY <2>1, <2>2, <1>1, <1>3, HandleConstants DEF Passed
  <2> QED
    BY <2>2, <2>3
<1> QED
  BY <1>4, <1>5

LEMMA NextRound == TableInv /\ RoundInv /\ [Next]_vars => RoundInv'
<1> SUFFICES ASSUME TableInv, RoundInv, [Next]_vars PROVE RoundInv'
  OBVIOUS
<1>1. ASSUME NEW o, Create(o) PROVE RoundInv'
  BY <1>1, CreateRound
<1>2. ASSUME UNCHANGED <<next_generation, since>> PROVE RoundInv'
  BY <1>2 DEF RoundInv, Passed
<1>3. CASE \E o \in Objects : Create(o)
  BY <1>3, <1>1
<1>4. ASSUME NEW h \in Handle, Duplicate(h) PROVE RoundInv'
  BY <1>4, <1>1 DEF Duplicate
<1>5. ASSUME NEW h \in Handle, Close(h) PROVE RoundInv'
  BY <1>5, <1>2 DEF Close
<1>6. CASE Clear
  BY <1>6, <1>2 DEF Clear
<1>7. CASE UNCHANGED vars
  BY <1>7, <1>2 DEF vars
<1> QED
  BY <1>3, <1>4, <1>5, <1>6, <1>7 DEF Next

(* A slot that a step does not fill validates no handle it did not validate before. *)
LEMMA StaysInvalid ==
  ASSUME NEW h, GetSlot(h) \in Slot, ~ IsValid(h),
         \/ objects'[GetSlot(h)] = nullptr
         \/ /\ objects'[GetSlot(h)] = objects[GetSlot(h)]
            /\ generations'[GetSlot(h)] = generations[GetSlot(h)]
  PROVE  ~ IsValid(h)'
  BY DEF IsValid

(***************************************************************************)
(* A closed handle stays invalid, whoever gets its slot, until a whole     *)
(* round of generations was given out after it.                            *)
(***************************************************************************)
THEOREM StaleHandlesStayInvalid == Spec => StaleHandlesRejected
<1>1. Init => RoundInv
  BY DEF Init, RoundInv
<1>2. TableInv /\ RoundInv /\ [Next]_vars
        => [\A h \in DOMAIN since : ~ IsValid(h) => ~ IsValid(h)']_vars
  <2> SUFFICES ASSUME TableInv, RoundInv, Next, NEW h \in DOMAIN since, ~ IsValid(h)
               PROVE  ~ IsValid(h)'
    OBVIOUS
  <2>1. PICK s \in Slot, g \in 1 .. GENERATIONS - 1 : h = MakeHandle(s, g) /\ Passed(g, since[h])
    BY DEF RoundInv
  <2>2. GetSlot(h) = s /\ GetGeneration(h) = g
    BY <2>1, HandleFacts, HandleConstants
  <2>3. ASSUME NEW o, Create(o) PROVE ~ IsValid(h)'
    <3>1. next_free_slot \in Slot
      BY <2>3, HandleConstants DEF TableInv, TypeOK, Create, OutOfHandles, Slot
    <3>2. CASE s = next_free_slot
      <4>1. generations'[s] = next_generation
        BY <2>3, <3>1, <3>2 DEF Create, TableInv, TypeOK
      <4>2. next_generation # g
        BY <2>1, HandleConstants DEF Passed
      <4> QED
        BY <2>2, <4>1, <4>2 DEF IsValid
    <3>3. CASE s # next_free_slot
      <4>1. objects'[s] = objects[s] /\ generations'[s] = generations[s]
        BY <2>3, <3>1, <3>3 DEF Create, TableInv, TypeOK
      <4> QED
        BY <2>2, <4>1, StaysInvalid
    <3> QED
      BY <3>2, <3>3
  <2>4. ASSUME NEW i \in Handle, Duplicate(i) PROVE ~ IsValid(h)'
    BY <2>3, <2>4 DEF Duplicate
  <2>5. ASSUME NEW i \in Handle, Close(i) PROVE ~ IsValid(h)'
    <3>1. \/ objects'[s] = nullptr
          \/ objects'[s] = objects[s] /\ generations'[s] = generations[s]
      BY <2>5 DEF Close, TableInv, TypeOK
    <3> QED
      BY <2>2, <3>1, StaysInvalid
  <2>6. ASSUME Clear PROVE ~ IsValid(h)'
    BY <2>2, <2>6, StaysInvalid DEF Clear
  <2> QED
    BY <2>3, <2>4, <2>5, <2>6 DEF Next
<1> QED
  BY <1>1, <1>2, NextRound, TableInvariant, PTL DEF Spec, StaleHandlesRejected

-----------------------------------------------------------------------------
(* The calls that use it. *)

(* The objects of type t that have a reference left. *)
AliveOf(t) == {o \in Counted : type[o] = t /\ Alive(o)}

(***************************************************************************)
(* What the accounts need to be preserved: the types of the counters, and  *)
(* that the objects with references are finitely many.                     *)
(***************************************************************************)
ObjectsTypeOK ==
  /\ current_values \in [Types -> Nat]
  /\ lost \in [Types -> Nat]
  /\ elsewhere \in SUBSET Counted /\ IsFiniteSet(elsewhere)
  /\ makes \in SUBSET Counted

AccountsInv == TableInv /\ ObjectsTypeOK /\ ResourcesAccounted

(* The objects in the table are finitely many. *)
LEMMA AliveFinite ==
  ASSUME TypeOK, IsFiniteSet(elsewhere), NEW t
  PROVE  IsFiniteSet(AliveOf(t))
<1>. DEFINE R == {objects[s] : s \in Slot}
<1>1. IsFiniteSet(Slot)
  BY FS_Interval, HandleConstants DEF Slot
<1>2. objects \in Surjection(Slot, R)
  BY DEF TypeOK, Surjection
<1>3. IsFiniteSet(R)
  BY <1>1, <1>2, FS_Surjection
<1>4. IsFiniteSet(R \cup elsewhere)
  BY <1>3, FS_Union
<1>5. AliveOf(t) \subseteq R \cup elsewhere
  BY DEF AliveOf, Alive, InTable
<1>. QED
  BY <1>4, <1>5, FS_Subset

-----------------------------------------------------------------------------
(* The operations of the table, as the references they make and take. *)

(* Create adds a reference to its object and takes none. *)
LEMMA CreateReferences ==
  ASSUME TableInv, NEW o \in Objects, Create(o), NEW x \in Objects
  PROVE  InTable(x)' <=> InTable(x) \/ x = o
<1>. DEFINE slot == next_free_slot
<1>1. slot \in Slot /\ objects[slot] = nullptr
  BY HandleConstants DEF TableInv, TypeOK, FreeLinks, Create, OutOfHandles, Empty, Slot
<1>2. objects' = [objects EXCEPT ![slot] = o]
  BY DEF Create
<1>3. objects'[slot] = o /\ \A s \in Slot \ {slot} : objects'[s] = objects[s]
  BY <1>1, <1>2 DEF TableInv, TypeOK
<1>4. x # nullptr
  BY HandleConstants
<1>. QED
  BY <1>1, <1>3, <1>4 DEF InTable

(* A copy of a handle refers to what has a reference, or to an object that is not counted. *)
LEMMA DuplicateReferences ==
  ASSUME TableInv, NEW h \in Handle, Duplicate(h), NEW x \in Counted
  PROVE  InTable(x)' <=> InTable(x)
<1>1. GetGeneric(h) \in Objects
  BY LookupFindsObject DEF Duplicate, TableInv
<1>2. x \in Objects /\ x # current_thread /\ x # current_process
  BY CountedAssumption
<1>3. InTable(x)' <=> InTable(x) \/ x = GetGeneric(h)
  BY <1>1, <1>2, CreateReferences DEF Duplicate
<1>4. ASSUME x = GetGeneric(h) PROVE InTable(x)
  <2>1. IsValid(h) /\ x = objects[GetSlot(h)]
    BY <1>1, <1>2, <1>4, HandleConstants DEF GetGeneric
  <2>2. GetSlot(h) \in Slot
    BY <2>1, HandleConstants DEF IsValid, Slot, Handle, GetSlot
  <2>. QED
    BY <2>1, <2>2 DEF InTable
<1>. QED
  BY <1>3, <1>4

(* Close and Clear make no reference. *)
LEMMA CloseReferences ==
  ASSUME TableInv, NEW x \in Counted, InTable(x)',
         (\E h \in Handle : Close(h)) \/ Clear
  PROVE  InTable(x)
<1>1. x # nullptr
  BY CountedAssumption, HandleConstants
<1>2. PICK s \in Slot : objects'[s] = x
  BY DEF InTable
<1>3. CASE Clear
  BY <1>1, <1>2, <1>3 DEF Clear
<1>4. CASE \E h \in Handle : Close(h)
  <2>1. PICK h \in Handle : objects' = [objects EXCEPT ![GetSlot(h)] = nullptr]
    BY <1>4 DEF Close
  <2>2. objects[s] = x
    BY <1>1, <1>2, <2>1 DEF TableInv, TypeOK
  <2>. QED
    BY <2>2 DEF InTable
<1>. QED
  BY <1>3, <1>4

-----------------------------------------------------------------------------
(* The account of a type, when a reservation comes with its object. *)
LEMMA AccountOfNew ==
  ASSUME TableInv, ObjectsTypeOK, ResourcesAccounted,
         NEW o \in Counted, ~ Alive(o),
         \A x \in Counted : Alive(x)' <=> Alive(x) \/ x = o,
         current_values' = Reserve(current_values, type[o]), lost' = lost
  PROVE  ResourcesAccounted' /\ current_values' \in [Types -> Nat]
<1>1. type[o] \in Types
  BY DEF Types
<1>2. current_values' \in [Types -> Nat]
  BY <1>1 DEF Reserve, ObjectsTypeOK
<1>3. ASSUME NEW t \in Types
      PROVE  current_values'[t] = Cardinality(AliveOf(t)') + lost'[t]
  <2>1. IsFiniteSet(AliveOf(t))
    BY AliveFinite DEF TableInv, ObjectsTypeOK
  <2>2. current_values[t] = Cardinality(AliveOf(t)) + lost[t]
    BY DEF ResourcesAccounted, AliveOf
  <2>3. Cardinality(AliveOf(t)) \in Nat /\ lost[t] \in Nat
    BY <2>1, FS_CardinalityType DEF ObjectsTypeOK
  <2>4. CASE t = type[o]
    <3>1. AliveOf(t)' = AliveOf(t) \cup {o} /\ o \notin AliveOf(t)
      BY <2>4 DEF AliveOf
    <3>2. Cardinality(AliveOf(t)') = Cardinality(AliveOf(t)) + 1
      BY <2>1, <3>1, FS_AddElement
    <3>3. current_values'[t] = current_values[t] + 1
      BY <1>1, <2>4 DEF Reserve, ObjectsTypeOK
    <3>. QED
      BY <2>2, <2>3, <3>2, <3>3
  <2>5. CASE t # type[o]
    <3>1. AliveOf(t)' = AliveOf(t)
      BY <2>5 DEF AliveOf
    <3>2. current_values'[t] = current_values[t]
      BY <1>1, <2>5 DEF Reserve, ObjectsTypeOK
    <3>. QED
      BY <2>2, <3>1, <3>2
  <2>. QED
    BY <2>4, <2>5
<1>. QED
  BY <1>2, <1>3 DEF ResourcesAccounted, AliveOf

(* The destructors give back one reservation for each object that dies. *)
LEMMA AccountOfDead ==
  ASSUME TableInv, ObjectsTypeOK, ResourcesAccounted,
         \A x \in Counted : Alive(x)' => Alive(x),
         current_values' = Destroy(current_values, Dying), lost' = lost
  PROVE  ResourcesAccounted' /\ current_values' \in [Types -> Nat]
<1>1. ASSUME NEW t \in Types
      PROVE  /\ current_values'[t] = Cardinality(AliveOf(t)') + lost'[t]
             /\ current_values'[t] \in Nat
  <2>. DEFINE dead == {o \in Dying : type[o] = t}
  <2>1. IsFiniteSet(AliveOf(t))
    BY AliveFinite DEF TableInv, ObjectsTypeOK
  <2>2. dead \subseteq AliveOf(t) /\ AliveOf(t)' = AliveOf(t) \ dead
    BY DEF Dying, AliveOf
  <2>3. /\ IsFiniteSet(AliveOf(t)') /\ IsFiniteSet(dead)
        /\ Cardinality(AliveOf(t)') = Cardinality(AliveOf(t)) - Cardinality(dead)
    <3>1. AliveOf(t) \cap dead = dead
      BY <2>2
    <3>. QED
      BY <2>1, <2>2, <3>1, FS_Difference, FS_Subset
  <2>4. /\ Cardinality(AliveOf(t)) \in Nat /\ Cardinality(AliveOf(t)') \in Nat
        /\ Cardinality(dead) \in Nat
    BY <2>1, <2>3, FS_CardinalityType
  <2>5. current_values[t] = Cardinality(AliveOf(t)) + lost[t] /\ lost[t] \in Nat
    BY DEF ResourcesAccounted, AliveOf, ObjectsTypeOK
  <2>6. current_values'[t]
          = IF Cardinality(dead) > current_values[t] THEN 0 ELSE current_values[t] - Cardinality(dead)
    BY DEF Destroy, Release, ObjectsTypeOK
  <2>. QED
    BY <2>3, <2>4, <2>5, <2>6
<1>2. current_values' \in [Types -> Nat]
  BY <1>1 DEF Destroy
<1>. QED
  BY <1>1, <1>2 DEF ResourcesAccounted, AliveOf

(* A step that leaves the objects alive and the counters alone keeps the accounts. *)
LEMMA AccountUnchanged ==
  ASSUME ResourcesAccounted, \A x \in Counted : Alive(x)' <=> Alive(x),
         current_values' = current_values, lost' = lost
  PROVE  ResourcesAccounted'
<1>1. \A t \in Types : AliveOf(t)' = AliveOf(t)
  BY DEF AliveOf
<1>. QED
  BY <1>1 DEF ResourcesAccounted, AliveOf

-----------------------------------------------------------------------------
LEMMA InitAccounts == ObjectsInit => AccountsInv
<1>. SUFFICES ASSUME ObjectsInit PROVE AccountsInv
  OBVIOUS
<1>1. TableInv
  BY InitTable DEF ObjectsInit
<1>2. ObjectsTypeOK
  BY CountedAssumption, FS_EmptySet DEF ObjectsInit, ObjectsTypeOK
<1>3. \A x \in Counted : ~ Alive(x)
  BY CountedAssumption, HandleConstants DEF ObjectsInit, Init, Alive, InTable
<1>4. \A t \in Types : AliveOf(t) = {}
  BY <1>3 DEF AliveOf
<1>5. ResourcesAccounted
  BY <1>4, FS_EmptySet DEF ObjectsInit, ResourcesAccounted, AliveOf
<1>. QED
  BY <1>1, <1>2, <1>5 DEF AccountsInv

(* A system call that makes an object. *)
LEMMA MakeObjectAccounts ==
  ASSUME AccountsInv, NEW o \in makes, NEW t, MakeObject(o, t)
  PROVE  AccountsInv'
<1>1. o \in Counted /\ o \in Objects
  BY CountedAssumption DEF AccountsInv, ObjectsTypeOK
<1>2. type[o] \in Types
  BY <1>1 DEF Types
<1>3. CASE Create(o) /\ current_values' = Reserve(current_values, type[o])
  <2>1. TableInv'
    BY <1>1, <1>3, CreateTable DEF AccountsInv
  <2>2. \A x \in Counted : Alive(x)' <=> Alive(x) \/ x = o
    <3>. SUFFICES ASSUME NEW x \in Counted PROVE Alive(x)' <=> Alive(x) \/ x = o
      OBVIOUS
    <3>1. InTable(x)' <=> InTable(x) \/ x = o
      BY <1>1, <1>3, CreateReferences, CountedAssumption DEF AccountsInv
    <3>. QED
      BY <3>1 DEF Alive, MakeObject
  <2>3. ResourcesAccounted' /\ current_values' \in [Types -> Nat]
    BY <1>1, <1>3, <2>2, AccountOfNew DEF AccountsInv, MakeObject
  <2>. QED
    BY <2>1, <2>3 DEF AccountsInv, ObjectsTypeOK, MakeObject
<1>4. CASE /\ OutOfHandles
           /\ current_values' = Release(Reserve(current_values, type[o]), type[o], 1)
           /\ UNCHANGED vars
  <2>1. current_values' = current_values
    BY <1>2, <1>4 DEF Release, Reserve, AccountsInv, ObjectsTypeOK
  <2>2. TableInv'
    BY <1>4 DEF AccountsInv, TableInv, TypeOK, FreeLinks, Empty, vars
  <2>3. \A x \in Counted : Alive(x)' <=> Alive(x)
    BY <1>4 DEF Alive, InTable, MakeObject, vars
  <2>4. ResourcesAccounted'
    BY <2>1, <2>3, AccountUnchanged DEF AccountsInv, MakeObject
  <2>. QED
    BY <2>1, <2>2, <2>4 DEF AccountsInv, ObjectsTypeOK, MakeObject
<1>. QED
  BY <1>3, <1>4 DEF MakeObject, NewHandle

(* CreateSemaphore: a call that fails after Reserve is counted as lost. *)
LEMMA SemaphoreAccounts ==
  ASSUME AccountsInv, NEW o \in makes, NEW i, NEW m, SVC_CreateSemaphore(o, i, m)
  PROVE  AccountsInv'
<1>1. CASE MakeObject(o, "Semaphore")
  BY <1>1, MakeObjectAccounts
<1>2. CASE ~ MakeObject(o, "Semaphore")
  <2>1. "Semaphore" \in Types
    BY <1>2, CountedAssumption DEF SVC_CreateSemaphore, AccountsInv, ObjectsTypeOK, Types
  <2>2. /\ current_values' = [current_values EXCEPT !["Semaphore"] = @ + 1]
        /\ lost' = [lost EXCEPT !["Semaphore"] = @ + 1]
        /\ UNCHANGED <<objects, generations, next_generation, next_free_slot, since>>
        /\ UNCHANGED <<elsewhere, makes>>
    BY <1>2 DEF SVC_CreateSemaphore, Reserve, vars
  <2>3. TableInv'
    BY <2>2 DEF AccountsInv, TableInv, TypeOK, FreeLinks, Empty
  <2>4. ObjectsTypeOK'
    BY <2>1, <2>2 DEF AccountsInv, ObjectsTypeOK
  <2>5. ASSUME NEW t \in Types
        PROVE  current_values'[t] = Cardinality(AliveOf(t)') + lost'[t]
    <3>1. AliveOf(t)' = AliveOf(t)
      BY <2>2 DEF AliveOf, Alive, InTable
    <3>2. Cardinality(AliveOf(t)) \in Nat
      BY AliveFinite, FS_CardinalityType DEF AccountsInv, TableInv, ObjectsTypeOK
    <3>3. current_values[t] = Cardinality(AliveOf(t)) + lost[t]
      BY DEF AccountsInv, ResourcesAccounted, AliveOf
    <3>. QED
      BY <2>1, <2>2, <3>1, <3>2, <3>3 DEF AccountsInv, ObjectsTypeOK
  <2>6. ResourcesAccounted'
    BY <2>5 DEF ResourcesAccounted, AliveOf
  <2>. QED
    BY <2>3, <2>4, <2>6 DEF AccountsInv
<1>. QED
  BY <1>1, <1>2

LEMMA DuplicateAccounts ==
  ASSUME AccountsInv, NEW h \in Handle, SVC_DuplicateHandle(h)
  PROVE  AccountsInv'
<1>1. GetGeneric(h) \in Objects /\ Create(GetGeneric(h)) /\ Duplicate(h)
  BY LookupFindsObject DEF SVC_DuplicateHandle, Duplicate, AccountsInv, TableInv
<1>2. TableInv'
  BY <1>1, CreateTable DEF AccountsInv
<1>3. \A x \in Counted : InTable(x)' <=> InTable(x)
  BY <1>1, DuplicateReferences DEF AccountsInv
<1>4. \A x \in Counted : Alive(x)' <=> Alive(x)
  BY <1>3 DEF Alive, SVC_DuplicateHandle
<1>5. ResourcesAccounted'
  BY <1>4, AccountUnchanged DEF AccountsInv, SVC_DuplicateHandle
<1>. QED
  BY <1>2, <1>5 DEF AccountsInv, ObjectsTypeOK, SVC_DuplicateHandle

(* CloseHandle and ~Process: the table drops references. *)
LEMMA CloseAccounts ==
  ASSUME AccountsInv, (\E h \in Handle : Close(h)) \/ Clear,
         UNCHANGED <<elsewhere, makes, lost>>,
         current_values' = Destroy(current_values, Dying)
  PROVE  AccountsInv'
<1>1. TableInv'
  BY CloseTable, ClearTable DEF AccountsInv
<1>2. \A x \in Counted : InTable(x)' => InTable(x)
  BY CloseReferences DEF AccountsInv
<1>3. \A x \in Counted : Alive(x)' => Alive(x)
  BY <1>2 DEF Alive
<1>4. ResourcesAccounted' /\ current_values' \in [Types -> Nat]
  BY <1>3, AccountOfDead DEF AccountsInv
<1>. QED
  BY <1>1, <1>4 DEF AccountsInv, ObjectsTypeOK

(* A reference outside the table is made of one that the table has. *)
LEMMA ReferenceAccounts ==
  ASSUME AccountsInv, NEW o \in makes, Reference(o)
  PROVE  AccountsInv'
<1>1. TableInv'
  BY DEF Reference, vars, AccountsInv, TableInv, TypeOK, FreeLinks, Empty
<1>2. ObjectsTypeOK'
  BY FS_AddElement DEF Reference, AccountsInv, ObjectsTypeOK
<1>3. \A x \in Counted : Alive(x)' <=> Alive(x)
  BY DEF Reference, vars, Alive, InTable
<1>4. ResourcesAccounted'
  BY <1>3, AccountUnchanged DEF AccountsInv, Reference
<1>. QED
  BY <1>1, <1>2, <1>4 DEF AccountsInv

LEMMA UnreferenceAccounts ==
  ASSUME AccountsInv, NEW o \in makes, Unreference(o)
  PROVE  AccountsInv'
<1>1. TableInv'
  BY DEF Unreference, vars, AccountsInv, TableInv, TypeOK, FreeLinks, Empty
<1>2. elsewhere' \in SUBSET Counted /\ IsFiniteSet(elsewhere')
  BY FS_RemoveElement DEF Unreference, AccountsInv, ObjectsTypeOK
<1>3. \A x \in Counted : Alive(x)' => Alive(x)
  BY DEF Unreference, vars, Alive, InTable
<1>4. ResourcesAccounted' /\ current_values' \in [Types -> Nat]
  BY <1>3, AccountOfDead DEF AccountsInv, Unreference
<1>. QED
  BY <1>1, <1>2, <1>4 DEF AccountsInv, ObjectsTypeOK, Unreference

(* A step that changes only the limits, or nothing. *)
LEMMA LimitsAccounts ==
  ASSUME AccountsInv, UNCHANGED <<vars, current_values, elsewhere, makes, lost>>
  PROVE  AccountsInv'
<1>1. TableInv'
  BY DEF vars, AccountsInv, TableInv, TypeOK, FreeLinks, Empty
<1>2. \A x \in Counted : Alive(x)' <=> Alive(x)
  BY DEF vars, Alive, InTable
<1>3. ResourcesAccounted'
  BY <1>2, AccountUnchanged DEF AccountsInv
<1>. QED
  BY <1>1, <1>3 DEF AccountsInv, ObjectsTypeOK

LEMMA NextAccounts == AccountsInv /\ [ObjectsNext]_allvars => AccountsInv'
<1>. SUFFICES ASSUME AccountsInv, [ObjectsNext]_allvars PROVE AccountsInv'
  OBVIOUS
<1>1. ASSUME NEW o \in makes,
             SVC_CreateMutex(o) \/ SVC_CreateEvent(o) \/ SVC_CreateTimer(o)
               \/ SVC_CreateAddressArbiter(o)
      PROVE  AccountsInv'
  BY <1>1, MakeObjectAccounts
     DEF SVC_CreateMutex, SVC_CreateEvent, SVC_CreateTimer, SVC_CreateAddressArbiter
<1>2. ASSUME NEW o \in makes, NEW i, NEW m, SVC_CreateSemaphore(o, i, m)
      PROVE  AccountsInv'
  BY <1>2, SemaphoreAccounts
<1>3. ASSUME NEW o \in makes, Reference(o) PROVE AccountsInv'
  BY <1>3, ReferenceAccounts
<1>4. ASSUME NEW o \in makes, Unreference(o) PROVE AccountsInv'
  BY <1>4, UnreferenceAccounts
<1>5. ASSUME NEW h \in Handle, SVC_DuplicateHandle(h) PROVE AccountsInv'
  BY <1>5, DuplicateAccounts
<1>6. ASSUME NEW h \in Handle, SVC_CloseHandle(h) PROVE AccountsInv'
  BY <1>6, CloseAccounts DEF SVC_CloseHandle
<1>7. ASSUME NEW v, SVC_SetResourceLimitLimitValues(v) PROVE AccountsInv'
  BY <1>7, LimitsAccounts DEF SVC_SetResourceLimitLimitValues
<1>8. CASE DestroyProcess
  BY <1>8, CloseAccounts DEF DestroyProcess
<1>9. CASE UNCHANGED allvars
  BY <1>9, LimitsAccounts DEF allvars
<1>. QED
  BY <1>1, <1>2, <1>3, <1>4, <1>5, <1>6, <1>7, <1>8, <1>9 DEF ObjectsNext

LEMMA AccountsInvariant == ObjectsSpec => []AccountsInv
  BY InitAccounts, NextAccounts, PTL DEF ObjectsSpec

(***************************************************************************)
(* The count of a type in the ResourceLimit is the number of its objects   *)
(* with a reference, plus what failed calls of CreateSemaphore lost, for   *)
(* every table, set of objects and limits: an object is released once,     *)
(* when its last handle or other reference goes.                           *)
(***************************************************************************)
THEOREM CountsAreExact == ObjectsSpec => []ResourcesAccounted
<1>1. AccountsInv => ResourcesAccounted
  BY DEF AccountsInv
<1>. QED
  BY <1>1, AccountsInvariant, PTL

-----------------------------------------------------------------------------
(* Every system call is an operation of the handle table, or leaves it alone. *)
LEMMA CallsAreOperations == AccountsInv /\ [ObjectsNext]_allvars => [Next]_vars
<1>. SUFFICES ASSUME AccountsInv, [ObjectsNext]_allvars PROVE [Next]_vars
  OBVIOUS
<1>1. makes \subseteq Objects
  BY CountedAssumption DEF AccountsInv, ObjectsTypeOK
<1>2. ASSUME NEW o \in makes, NEW t, MakeObject(o, t) PROVE [Next]_vars
  BY <1>1, <1>2 DEF MakeObject, NewHandle, Next
<1>3. ASSUME NEW o \in makes,
             SVC_CreateMutex(o) \/ SVC_CreateEvent(o) \/ SVC_CreateTimer(o)
               \/ SVC_CreateAddressArbiter(o)
      PROVE  [Next]_vars
  BY <1>2, <1>3 DEF SVC_CreateMutex, SVC_CreateEvent, SVC_CreateTimer, SVC_CreateAddressArbiter
<1>4. ASSUME NEW o \in makes, NEW i, NEW m, SVC_CreateSemaphore(o, i, m) PROVE [Next]_vars
  BY <1>2, <1>4 DEF SVC_CreateSemaphore
<1>5. ASSUME NEW o \in makes, Reference(o) \/ Unreference(o) PROVE [Next]_vars
  BY <1>5 DEF Reference, Unreference
<1>6. ASSUME NEW h \in Handle, SVC_DuplicateHandle(h) \/ SVC_CloseHandle(h) PROVE [Next]_vars
  BY <1>6 DEF SVC_DuplicateHandle, SVC_CloseHandle, Next
<1>7. ASSUME NEW v, SVC_SetResourceLimitLimitValues(v) PROVE [Next]_vars
  BY <1>7 DEF SVC_SetResourceLimitLimitValues
<1>8. CASE DestroyProcess
  BY <1>8 DEF DestroyProcess, Next
<1>9. CASE UNCHANGED allvars
  BY <1>9 DEF allvars
<1>. QED
  BY <1>3, <1>4, <1>5, <1>6, <1>7, <1>8, <1>9 DEF ObjectsNext

(***************************************************************************)
(* What the system calls do to the handle table of a process is what the   *)
(* table's own specification allows, so all that is proved of HandleTable  *)
(* holds for the table the calls use.                                      *)
(***************************************************************************)
THEOREM CallsUseTheTable == ObjectsSpec => Spec
<1>1. ObjectsInit => Init
  BY DEF ObjectsInit
<1>. QED
  BY <1>1, CallsAreOperations, AccountsInvariant, PTL DEF ObjectsSpec, Spec

(***************************************************************************)
(* A closed handle stays invalid for a round of generations, whatever      *)
(* system calls the process makes.                                         *)
(***************************************************************************)
THEOREM CallsRejectStaleHandles == ObjectsSpec => StaleHandlesRejected
  BY CallsUseTheTable, StaleHandlesStayInvalid, PTL

(***************************************************************************)
(* The system calls see a map from open handles to the objects they were   *)
(* made for.                                                               *)
(***************************************************************************)
THEOREM CallsSeeAMap == ObjectsSpec => ImplementsMap
  BY CallsUseTheTable, Refinement, PTL

-----------------------------------------------------------------------------
(***************************************************************************)
(* The list of free slots, as the sequence f[0], ..., f[n] of its links:   *)
(* from the head to the end, through every empty slot once.                *)
(***************************************************************************)
FreeChain(n, f) ==
  /\ f[0] = next_free_slot /\ f[n] = MAX_COUNT
  /\ \A i \in 0 .. n - 1 : f[i] \in Empty /\ generations[f[i]] = f[i + 1]
  /\ \A s \in Empty : \E i \in 0 .. n - 1 : f[i] = s
  /\ \A i, j \in 0 .. n : f[i] = f[j] => i = j

ChainInv == \E n \in Nat : \E f \in [0 .. n -> 0 .. MAX_COUNT] : FreeChain(n, f)

(* The constructor and Clear link each slot to the next. *)
Cleared ==
  /\ generations = [i \in Slot |-> i + 1]
  /\ objects = [i \in Slot |-> nullptr]
  /\ next_free_slot = 0

LEMMA ClearedChain == Cleared => ChainInv
<1>. SUFFICES ASSUME Cleared PROVE ChainInv
  OBVIOUS
<1>. USE DEF Cleared
<1>. DEFINE f == [i \in 0 .. MAX_COUNT |-> i]
<1>1. Empty = Slot
  BY DEF Empty
<1>2. MAX_COUNT \in Nat /\ f \in [0 .. MAX_COUNT -> 0 .. MAX_COUNT]
  BY HandleConstants
<1>3. FreeChain(MAX_COUNT, f)
  <2>1. \A i \in 0 .. MAX_COUNT - 1 : f[i] \in Empty /\ generations[f[i]] = f[i + 1]
    BY <1>1, <1>2 DEF Slot
  <2>2. \A s \in Empty : s \in 0 .. MAX_COUNT - 1 /\ f[s] = s
    BY <1>1, <1>2 DEF Slot
  <2>3. \A i, j \in 0 .. MAX_COUNT : f[i] = f[j] => i = j
    OBVIOUS
  <2>4. f[0] = next_free_slot /\ f[MAX_COUNT] = MAX_COUNT
    BY <1>2
  <2>. HIDE DEF f
  <2>. QED
    BY <2>1, <2>2, <2>3, <2>4 DEF FreeChain
<1>. QED
  BY <1>2, <1>3 DEF ChainInv

(* Create takes the first slot of the list. *)
LEMMA CreateChain ==
  ASSUME TableInv, ChainInv, NEW o \in Objects, Create(o)
  PROVE  ChainInv'
<1>0. PICK n \in Nat : \E f \in [0 .. n -> 0 .. MAX_COUNT] : FreeChain(n, f)
  BY DEF ChainInv
<1>1. PICK f \in [0 .. n -> 0 .. MAX_COUNT] : FreeChain(n, f)
  BY <1>0
<1>2. /\ next_free_slot # MAX_COUNT
      /\ next_free_slot' = generations[next_free_slot]
      /\ generations' = [generations EXCEPT ![next_free_slot] = next_generation]
      /\ objects' = [objects EXCEPT ![next_free_slot] = o]
  BY HandleConstants DEF Create, OutOfHandles
<1>3. n - 1 \in Nat /\ f[0] = next_free_slot /\ f[0] \in Empty
  BY <1>1, <1>2 DEF FreeChain
<1>. DEFINE g == [i \in 0 .. n - 1 |-> f[i + 1]]
<1>4. g \in [0 .. n - 1 -> 0 .. MAX_COUNT]
  BY <1>1, <1>3
<1>5. Empty' = Empty \ {f[0]}
  BY <1>2, <1>3, HandleConstants DEF Empty, TableInv, TypeOK
<1>6. \A s \in Empty' : generations'[s] = generations[s]
  BY <1>2, <1>3, <1>5 DEF Empty, TableInv, TypeOK
<1>7. g[0] = next_free_slot' /\ g[n - 1] = MAX_COUNT
  BY <1>1, <1>2, <1>3 DEF FreeChain
<1>8. ASSUME NEW i \in 0 .. (n - 1) - 1
      PROVE  g[i] \in Empty' /\ generations'[g[i]] = g[i + 1]
  <2>1. /\ i + 1 \in 0 .. n - 1 /\ i \in 0 .. n - 1
        /\ g[i] = f[i + 1] /\ g[i + 1] = f[(i + 1) + 1] /\ i + 1 # 0
    BY <1>3
  <2>2. f[i + 1] \in Empty /\ generations[f[i + 1]] = f[(i + 1) + 1] /\ f[i + 1] # f[0]
    BY <1>1, <1>3, <2>1 DEF FreeChain
  <2>. QED
    BY <1>5, <1>6, <2>1, <2>2
<1>9. ASSUME NEW s \in Empty' PROVE \E i \in 0 .. (n - 1) - 1 : g[i] = s
  <2>1. PICK i \in 0 .. n - 1 : f[i] = s
    BY <1>1, <1>5 DEF FreeChain
  <2>2. i - 1 \in 0 .. (n - 1) - 1 /\ i - 1 \in 0 .. n - 1 /\ (i - 1) + 1 = i
    BY <1>3, <1>5, <2>1
  <2>. QED
    BY <2>1, <2>2
<1>10. ASSUME NEW i \in 0 .. n - 1, NEW j \in 0 .. n - 1, g[i] = g[j] PROVE i = j
  BY <1>1, <1>3, <1>10 DEF FreeChain
<1>11. FreeChain(n - 1, g)'
  BY <1>7, <1>8, <1>9, <1>10 DEF FreeChain
<1>. QED
  BY <1>3, <1>4, <1>11 DEF ChainInv

(* Close puts its slot in front of the list. *)
LEMMA CloseChain ==
  ASSUME TableInv, ChainInv, NEW h \in Handle, Close(h)
  PROVE  ChainInv'
<1>0. PICK n \in Nat : \E f \in [0 .. n -> 0 .. MAX_COUNT] : FreeChain(n, f)
  BY DEF ChainInv
<1>1. PICK f \in [0 .. n -> 0 .. MAX_COUNT] : FreeChain(n, f)
  BY <1>0
<1>1a. PICK slot : slot = GetSlot(h)
  OBVIOUS
<1>2. slot \in Slot /\ slot \notin Empty
  BY <1>1a, HandleConstants DEF Close, IsValid, GetSlot, Handle, Slot, Empty
<1>3. /\ next_free_slot' = slot
      /\ generations' = [generations EXCEPT ![slot] = next_free_slot]
      /\ objects' = [objects EXCEPT ![slot] = nullptr]
  BY <1>1a DEF Close
<1>. DEFINE g == [i \in 0 .. n + 1 |-> IF i = 0 THEN slot ELSE f[i - 1]]
<1>4. g \in [0 .. n + 1 -> 0 .. MAX_COUNT]
  BY <1>2, HandleConstants DEF Slot
<1>5. Empty' = Empty \cup {slot}
  BY <1>2, <1>3 DEF Empty, TableInv, TypeOK
<1>6. generations'[slot] = next_free_slot /\ \A s \in Empty : generations'[s] = generations[s]
  BY <1>2, <1>3 DEF Empty, TableInv, TypeOK
<1>7. \A i \in 0 .. n : f[i] # slot
  BY <1>1, <1>2, HandleConstants DEF FreeChain, Slot
<1>8. g[0] = next_free_slot' /\ g[n + 1] = MAX_COUNT
  BY <1>1, <1>3 DEF FreeChain
<1>9. ASSUME NEW i \in 0 .. (n + 1) - 1
      PROVE  g[i] \in Empty' /\ generations'[g[i]] = g[i + 1]
  <2>1. g[i + 1] = f[i]
    OBVIOUS
  <2>2. CASE i = 0
    BY <1>1, <1>5, <1>6, <2>1, <2>2 DEF FreeChain
  <2>3. CASE i # 0
    <3>1. i - 1 \in 0 .. n - 1 /\ (i - 1) + 1 = i /\ g[i] = f[i - 1]
      BY <2>3
    <3>2. f[i - 1] \in Empty /\ generations[f[i - 1]] = f[i]
      BY <1>1, <3>1 DEF FreeChain
    <3>. QED
      BY <1>5, <1>6, <2>1, <3>1, <3>2
  <2>. QED
    BY <2>2, <2>3
<1>10. ASSUME NEW s \in Empty' PROVE \E i \in 0 .. (n + 1) - 1 : g[i] = s
  <2>1. CASE s = slot
    <3>1. 0 \in 0 .. (n + 1) - 1 /\ g[0] = s
      BY <2>1
    <3>. QED
      BY <3>1
  <2>2. CASE s \in Empty
    <3>1. PICK i \in 0 .. n - 1 : f[i] = s
      BY <1>1, <2>2 DEF FreeChain
    <3>2. i + 1 \in 0 .. (n + 1) - 1 /\ g[i + 1] = s
      BY <3>1
    <3>. QED
      BY <3>2
  <2>. QED
    BY <1>5, <2>1, <2>2
<1>11. ASSUME NEW i \in 0 .. n + 1, NEW j \in 0 .. n + 1, g[i] = g[j] PROVE i = j
  BY <1>1, <1>7, <1>11 DEF FreeChain
<1>12. FreeChain(n + 1, g)'
  BY <1>8, <1>9, <1>10, <1>11 DEF FreeChain
<1>13. n + 1 \in Nat
  OBVIOUS
<1>. QED
  BY <1>4, <1>12, <1>13 DEF ChainInv

LEMMA NextChain == TableInv /\ ChainInv /\ [Next]_vars => ChainInv'
<1>. SUFFICES ASSUME TableInv, ChainInv, [Next]_vars PROVE ChainInv'
  OBVIOUS
<1>1. ASSUME NEW o \in Objects, Create(o) PROVE ChainInv'
  BY <1>1, CreateChain
<1>2. ASSUME NEW h \in Handle, Duplicate(h) PROVE ChainInv'
  BY <1>2, CreateChain, LookupFindsObject DEF Duplicate, TableInv
<1>3. ASSUME NEW h \in Handle, Close(h) PROVE ChainInv'
  BY <1>3, CloseChain
<1>4. CASE Clear
  <2>1. Cleared'
    BY <1>4 DEF Clear, Cleared
  <2>. QED
    BY <2>1, ClearedChain, PTL
<1>5. CASE UNCHANGED vars
  <2>1. \A n, f : FreeChain(n, f)' <=> FreeChain(n, f)
    BY <1>5 DEF vars, FreeChain, Empty
  <2>. QED
    BY <2>1 DEF ChainInv
<1>. QED
  BY <1>1, <1>2, <1>3, <1>4, <1>5 DEF Next

(* The list has no more links than the table has slots. *)
LEMMA ChainLength ==
  ASSUME NEW n \in Nat, NEW f \in [0 .. n -> 0 .. MAX_COUNT],
         \A i, j \in 0 .. n : f[i] = f[j] => i = j
  PROVE  n <= MAX_COUNT
<1>1. f \in Injection(0 .. n, 0 .. MAX_COUNT)
  BY DEF Injection, IsInjective
<1>2. /\ IsFiniteSet(0 .. MAX_COUNT)
      /\ Cardinality(0 .. MAX_COUNT) = MAX_COUNT + 1 /\ Cardinality(0 .. n) = n + 1
  BY FS_Interval, HandleConstants
<1>3. Cardinality(0 .. n) <= Cardinality(0 .. MAX_COUNT)
  BY <1>1, <1>2, FS_Injection
<1>. QED
  BY <1>2, <1>3, HandleConstants

(* Link walks the list, and stays at its end. *)
LEMMA LinkWalks ==
  ASSUME TypeOK, NEW n \in Nat, NEW f \in [0 .. n -> 0 .. MAX_COUNT], FreeChain(n, f),
         n <= MAX_COUNT
  PROVE  \A k \in 0 .. MAX_COUNT : Link[k] = IF k <= n THEN f[k] ELSE MAX_COUNT
<1>. DEFINE g == [k \in 0 .. MAX_COUNT |-> IF k <= n THEN f[k] ELSE MAX_COUNT]
            Step(F) == [k \in 0 .. MAX_COUNT |->
                          IF k = 0 THEN next_free_slot
                          ELSE IF F[k - 1] < MAX_COUNT THEN generations[F[k - 1]] ELSE MAX_COUNT]
<1>1. MAX_COUNT \in Nat
  BY HandleConstants
<1>2. ASSUME NEW k \in 1 .. MAX_COUNT
      PROVE  g[k] = IF g[k - 1] < MAX_COUNT THEN generations[g[k - 1]] ELSE MAX_COUNT
  <2>1. CASE k <= n
    <3>1. k - 1 \in 0 .. n - 1 /\ g[k - 1] = f[k - 1] /\ g[k] = f[k] /\ (k - 1) + 1 = k
      BY <1>1, <2>1
    <3>2. f[k - 1] \in Empty /\ generations[f[k - 1]] = f[k]
      BY <3>1 DEF FreeChain
    <3>3. f[k - 1] < MAX_COUNT
      BY <1>1, <3>2 DEF Empty, Slot
    <3>. QED
      BY <3>1, <3>2, <3>3
  <2>2. CASE ~ (k <= n)
    <3>1. g[k] = MAX_COUNT /\ g[k - 1] = MAX_COUNT
      BY <1>1, <2>2 DEF FreeChain
    <3>. QED
      BY <1>1, <3>1
  <2>. QED
    BY <2>1, <2>2
<1>3. g[0] = next_free_slot
  BY <1>1 DEF FreeChain
<1>4. \A k \in 0 .. MAX_COUNT : k = 0 \/ k \in 1 .. MAX_COUNT
  BY <1>1
<1>5. g = Step(g)
  <2>1. ASSUME NEW k \in 0 .. MAX_COUNT PROVE g[k] = Step(g)[k]
    <3>. HIDE DEF g
    <3>. QED
      BY <1>2, <1>3, <1>4
  <2>2. g = [k \in 0 .. MAX_COUNT |-> g[k]] /\ Step(g) = [k \in 0 .. MAX_COUNT |-> Step(g)[k]]
    OBVIOUS
  <2>. HIDE DEF g, Step
  <2>. QED
    BY <2>1, <2>2, Zenon
<1>6. Link = CHOOSE F : F = Step(F)
  BY DEF Link
<1>7. Link = Step(Link)
  <2>. HIDE DEF Step, g
  <2>. QED
    BY <1>5, <1>6
<1>8. \A k \in 0 .. MAX_COUNT :
        Link[k] = IF k = 0 THEN next_free_slot
                  ELSE IF Link[k - 1] < MAX_COUNT THEN generations[Link[k - 1]] ELSE MAX_COUNT
  <2>. DEFINE Q == Link
  <2>1. Q = Step(Q)
    BY <1>7
  <2>. HIDE DEF Q
  <2>2. \A k \in 0 .. MAX_COUNT :
          Q[k] = IF k = 0 THEN next_free_slot
                 ELSE IF Q[k - 1] < MAX_COUNT THEN generations[Q[k - 1]] ELSE MAX_COUNT
    BY <2>1
  <2>. QED
    BY <2>2 DEF Q
<1>. DEFINE T == {k \in 0 .. MAX_COUNT : Link[k] = g[k]}
<1>. HIDE DEF g, Step
<1>9. 0 \in T
  BY <1>1, <1>3, <1>8
<1>10. ASSUME NEW k \in 1 .. MAX_COUNT, k - 1 \in T PROVE k \in T
  <2>1. k \in 0 .. MAX_COUNT /\ k # 0 /\ Link[k - 1] = g[k - 1]
    BY <1>1, <1>10
  <2>2. Link[k] = g[k]
    BY <1>2, <1>8, <2>1
  <2>. QED
    BY <2>1, <2>2
<1>11. 0 .. MAX_COUNT \subseteq T
  <2>. HIDE DEF T
  <2>. QED
    BY <1>1, <1>9, <1>10, UpwardInduction
<1>12. \A k \in 0 .. MAX_COUNT : Link[k] = g[k]
  BY <1>11
<1>. QED
  BY <1>12 DEF g

(* The list that Link walks holds the empty slots, each once. *)
LEMMA ChainIsExact == TypeOK /\ ChainInv => FreeListExact
<1>. SUFFICES ASSUME TypeOK, ChainInv PROVE FreeListExact
  OBVIOUS
<1>1. PICK n \in Nat : \E f \in [0 .. n -> 0 .. MAX_COUNT] : FreeChain(n, f)
  BY DEF ChainInv
<1>2. PICK f \in [0 .. n -> 0 .. MAX_COUNT] : FreeChain(n, f)
  BY <1>1
<1>3. n <= MAX_COUNT
  BY <1>2, ChainLength DEF FreeChain
<1>4. \A k \in 0 .. MAX_COUNT : Link[k] = IF k <= n THEN f[k] ELSE MAX_COUNT
  BY <1>2, <1>3, LinkWalks
<1>5. MAX_COUNT \in Nat
  BY HandleConstants
<1>6. ASSUME NEW s \in Slot, objects[s] = nullptr
      PROVE  \E k \in 0 .. MAX_COUNT - 1 : Link[k] = s
  <2>1. PICK i \in 0 .. n - 1 : f[i] = s
    BY <1>2, <1>6 DEF FreeChain, Empty
  <2>2. i \in 0 .. MAX_COUNT - 1 /\ Link[i] = s
    BY <1>3, <1>4, <1>5, <2>1
  <2>. QED
    BY <2>2
<1>7. ASSUME NEW s \in Slot, NEW k \in 0 .. MAX_COUNT - 1, Link[k] = s
      PROVE  objects[s] = nullptr
  <2>1. s # MAX_COUNT
    BY <1>5 DEF Slot
  <2>2. k \in 0 .. n - 1 /\ f[k] = s
    BY <1>2, <1>3, <1>4, <1>5, <1>7, <2>1 DEF FreeChain
  <2>. QED
    BY <1>2, <2>2 DEF FreeChain, Empty
<1>8. ASSUME NEW m \in 0 .. MAX_COUNT, NEW k \in 0 .. MAX_COUNT, m # k, Link[m] < MAX_COUNT
      PROVE  Link[m] # Link[k]
  <2>1. m <= n /\ Link[m] = f[m]
    BY <1>4, <1>5, <1>8
  <2>2. CASE k <= n
    BY <1>2, <1>4, <1>8, <2>1, <2>2 DEF FreeChain
  <2>3. CASE ~ (k <= n)
    BY <1>4, <1>5, <1>8, <2>3
  <2>. QED
    BY <2>2, <2>3
<1>. QED
  BY <1>6, <1>7, <1>8 DEF FreeListExact

(***************************************************************************)
(* The links that Create pops and Close pushes run through every empty     *)
(* slot once and through no other, for a table of any size: Create fails   *)
(* only when all the slots are in use.                                     *)
(***************************************************************************)
THEOREM FreeListIsExact == Spec => []FreeListExact
<1>1. Init => ChainInv
  BY ClearedChain DEF Init, Cleared
<1>2. TableInv => TypeOK
  BY DEF TableInv
<1>. QED
  BY <1>1, <1>2, NextChain, ChainIsExact, TableInvariant, PTL DEF Spec

(* The same of the table that the system calls of a process use. *)
THEOREM CallsKeepTheFreeList == ObjectsSpec => []FreeListExact
  BY CallsUseTheTable, FreeListIsExact, PTL

-----------------------------------------------------------------------------
(* The inductive invariant is about the list alone. *)
LEMMA InvIsGood == QueueSound <=> QueueTypeOK /\ Good(q)
BY DEF QueueSound, ChainReachesThreads, QueuedOnce, Good

LEMMA SameErase == \A s, t : PQ!Erase(s, t) = Erase(s, t)
BY DEF PQ!Erase, Erase, PQ!EraseIn, EraseIn

(* Every step leaves a good list, and changes data as the priority queue does. *)
LEMMA StepGood ==
  ASSUME QueueSound, QueueNext
  PROVE  /\ q' \in Lists /\ Good(q')
         /\ popped' \in Threads \cup {NoThread}
         /\ PQ!Next \/ UNCHANGED <<q.data, popped>>
<1>1. q \in Lists /\ Good(q) /\ popped \in Threads \cup {NoThread}
  BY InvIsGood DEF QueueSound, QueueTypeOK
<1>2. q.data \in [Level -> Seq(Threads)]
  BY <1>1 DEF Lists
<1>. USE <1>1
<1>3. CASE PopFirst
  <2>1. NUM_QUEUES \in 0 .. NUM_QUEUES
    BY NumQueuesAssumption
  <2>2. q' \in Lists /\ Good(q') /\ Pops(q, q', NUM_QUEUES, popped')
    BY <1>3, <2>1, PopGood, PopFirstGood DEF PopFirst
  <2>3. PQ!PopFirst
    BY <2>2 DEF Pops, PQ!PopFirst, PQ!Pop, PQ!Busy
  <2>. QED
    BY <2>2, <2>3 DEF Pops, PQ!Next
<1>4. CASE ClearQueue
  <2>1. q' = EmptyList /\ popped' = popped
    BY <1>4 DEF ClearQueue
  <2>2. PQ!Clear
    BY <2>1 DEF PQ!Clear, PQ!Level, Level, EmptyList
  <2>. QED
    BY <2>1, <2>2, EmptyGood DEF PQ!Next
<1>5. ASSUME NEW p \in Level, Prepare(p)
      PROVE  q' \in Lists /\ Good(q') /\ UNCHANGED <<q.data, popped>>
  <2>1. q' = prepare(q, p) /\ popped' = popped
    BY <1>5 DEF Prepare
  <2>2. /\ q' \in Lists /\ ChainOrdered(q') /\ q'.data = q.data
        /\ Linked(q') = Linked(q) \cup {p}
    BY <2>1, PrepareChain DEF Good
  <2>. QED
    BY <2>1, <2>2 DEF Good
<1>6. ASSUME NEW p \in Level, PopFirstBetter(p)
      PROVE  /\ q' \in Lists /\ Good(q') /\ popped' \in Threads \cup {NoThread}
             /\ PQ!PopFirstBetter(p)
  <2>1. p \in 0 .. NUM_QUEUES
    BY NumQueuesAssumption DEF Level
  <2>2. q' \in Lists /\ Good(q') /\ Pops(q, q', p, popped')
    BY <1>6, <2>1, PopGood DEF PopFirstBetter
  <2>3. PQ!PopFirstBetter(p)
    BY <2>2 DEF Pops, PQ!PopFirstBetter, PQ!Pop, PQ!Busy
  <2>. QED
    BY <2>2, <2>3 DEF Pops
<1>7. ASSUME NEW p \in Level, Rotate(p)
      PROVE  /\ q' \in Lists /\ Good(q') /\ popped' = popped
             /\ PQ!Rotate(p) \/ UNCHANGED q.data
  <2>1. q' = rotate(q, p) /\ popped' = popped
    BY <1>7 DEF Rotate
  <2>2. CASE Len(q.data[p]) > 1
    <3>1. Replaced(q, q', p, Append(Tail(q.data[p]), Head(q.data[p]))) /\ Good(q')
      BY <2>1, <2>2, RotateGood
    <3>. QED
      BY <2>1, <2>2, <3>1 DEF Replaced, PQ!Rotate
  <2>3. CASE ~ (Len(q.data[p]) > 1)
    BY <2>1, <2>3 DEF rotate
  <2>. QED
    BY <2>2, <2>3
<1>8. ASSUME NEW t \in Threads, NEW p \in Level, PushFront(t, p) \/ PushBack(t, p)
      PROVE  /\ q' \in Lists /\ Good(q') /\ popped' = popped
             /\ PQ!PushFront(t, p) \/ PQ!PushBack(t, p)
  <2>1. /\ p \in Linked(q) /\ popped' = popped
        /\ \A r \in Level : ~ Holds(q, t, r)
        /\ q' = push_front(q, p, t) \/ q' = push_back(q, p, t)
    BY <1>8 DEF PushFront, PushBack, InNoQueue, Queued, Holds
  <2>2. /\ Good(q')
        /\ \/ Replaced(q, q', p, <<t>> \o q.data[p])
           \/ Replaced(q, q', p, Append(q.data[p], t))
    BY <2>1, PushGood
  <2>. QED
    BY <2>1, <2>2 DEF Replaced, PQ!PushFront, PQ!PushBack
<1>9. ASSUME NEW t \in Threads, NEW p \in Level, Remove(t, p)
      PROVE  q' \in Lists /\ Good(q') /\ popped' = popped /\ PQ!Remove(t, p)
  <2>1. Holds(q, t, p) /\ q' = remove(q, p, t) /\ popped' = popped
    BY <1>9 DEF Remove, Queued, Holds
  <2>2. Replaced(q, q', p, Erase(q.data[p], t)) /\ Good(q')
    BY <2>1, RemoveGood
  <2>. QED
    BY <2>1, <2>2, SameErase DEF Replaced, PQ!Remove
<1>10. ASSUME NEW t \in Threads, NEW old \in Level, NEW new \in Level, Move(t, old, new)
       PROVE  q' \in Lists /\ Good(q') /\ popped' = popped /\ PQ!Move(t, old, new)
  <2>1. Holds(q, t, old) /\ q' = move(q, t, old, new) /\ popped' = popped
    BY <1>10 DEF Move, Queued, Holds
  <2>. QED
    BY <2>1, MoveGood, SameErase DEF PQ!Move
<1>11. PQ!Level = Level
  BY DEF PQ!Level, Level
<1>. QED
  BY <1>3, <1>4, <1>5, <1>6, <1>7, <1>8, <1>9, <1>10, <1>11 DEF QueueNext, PQ!Next

-----------------------------------------------------------------------------
LEMMA QueueInductive ==
  /\ QueueInit => QueueSound
  /\ QueueSound /\ [QueueNext]_queue_vars => QueueSound'
<1>1. ASSUME QueueInit PROVE QueueSound
  BY <1>1, EmptyGood, InvIsGood DEF QueueInit, QueueTypeOK
<1>2. ASSUME QueueSound, [QueueNext]_queue_vars PROVE QueueSound'
  <2>1. q' \in Lists /\ Good(q') /\ popped' \in Threads \cup {NoThread}
    <3>1. CASE QueueNext
      BY <1>2, <3>1, StepGood
    <3>2. CASE UNCHANGED queue_vars
      BY <1>2, <3>2, InvIsGood DEF queue_vars, QueueTypeOK
    <3>. QED
      BY <1>2, <3>1, <3>2
  <2>2. QueueTypeOK'
    BY <2>1 DEF QueueTypeOK
  <2>3. ChainReachesThreads' /\ QueuedOnce'
    BY <2>1 DEF Good, ChainReachesThreads, QueuedOnce, ChainOrdered, Linked
  <2>. QED
    BY <2>2, <2>3 DEF QueueSound
<1>. QED
  BY <1>1, <1>2

(***************************************************************************)
(* The list stays sound under every operation of thread_queue_list.h, for  *)
(* any number of levels and threads.                                       *)
(***************************************************************************)
THEOREM ListStaysSound == QueueSpec => []QueueSound
BY QueueInductive, PTL DEF QueueSpec

(* The type invariant of the list (fields of thread_queue_list.h:27-162). *)
THEOREM QueueTypeCorrect == QueueSpec => []QueueTypeOK
BY QueueInductive, PTL DEF QueueSpec, QueueSound

(***************************************************************************)
(* Whatever the number of levels and threads, link() and the pushes never  *)
(* leave a thread on a level that the getters' walk does not reach, and    *)
(* the chain stays in priority order.                                      *)
(***************************************************************************)
THEOREM ThreadsStayReachable == QueueSpec => []ChainReachesThreads
BY QueueInductive, PTL DEF QueueSpec, QueueSound

(* No operation of the list duplicates a thread. *)
THEOREM ThreadsQueuedOnce == QueueSpec => []QueuedOnce
BY QueueInductive, PTL DEF QueueSpec, QueueSound

(***************************************************************************)
(* pop_first_better, whose loop has no null check, never runs off the      *)
(* chain when its argument is a level that was prepared.                   *)
(***************************************************************************)
THEOREM PopBetterIsSafe == QueueSpec => []NoNullDereference
<1>1. QueueSound => NoNullDereference
  <2>. SUFFICES ASSUME QueueSound, NEW p \in Linked(q)
                PROVE  Walk(q, p) # Nullptr
    BY DEF NoNullDereference, PopBetterFaults
  <2>1. q \in Lists /\ ChainOrdered(q) /\ p \in Nat
    BY LinkedLevels, LevelFacts DEF QueueSound, QueueTypeOK, ChainReachesThreads
  <2>2. p \in StopsAt(q, p)
    BY <2>1 DEF StopsAt
  <2>3. Walk(q, p) \in Linked(q)
    BY <2>1, <2>2, WalkResult DEF StopsAt
  <2>. QED
    BY <2>3, LinkedLevels, LevelFacts
<1>. QED
  BY <1>1, QueueInductive, PTL DEF QueueSpec

(***************************************************************************)
(* The list implements the priority queue: a pop takes the front thread of *)
(* the most urgent busy level, and nothing else but the operation asked    *)
(* for ever changes the queues.                                            *)
(***************************************************************************)
THEOREM QueueRefinement == QueueSpec => ImplementsPriorityQueue
<1>1. QueueInit => PQ!Init
  BY DEF QueueInit, EmptyList, PQ!Init, PQ!Level, Level
<1>2. QueueSound /\ [QueueNext]_queue_vars => [PQ!Next]_(PQ!vars)
  BY StepGood DEF queue_vars, PQ!vars
<1>. QED
  BY <1>1, <1>2, QueueInductive, PTL DEF QueueSpec, ImplementsPriorityQueue, PQ!Spec
=============================================================================

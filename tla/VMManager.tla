------------------------------ MODULE VMManager ------------------------------
(***************************************************************************)
(* The address space of a process (core/hle/kernel/vm_manager.cpp), in     *)
(* pages.  An address space is a record vm: vma_map, the VMA that begins   *)
(* at each page, of size 0 where the std::map has none; page_table, the    *)
(* memory behind each page; and fault, the first ASSERT that failed.  A    *)
(* member function maps an address space to an address space.  One that    *)
(* may fail comes with the condition under which it succeeds, and leaves   *)
(* the address space as it was when it does not hold.                      *)
(***************************************************************************)
EXTENDS Integers, Sequences, SequencesExt

CONSTANT MAX_ADDRESS

ASSUME AddressAssumption == MAX_ADDRESS \in Nat \ {0}

Pages == 0 .. MAX_ADDRESS - 1

(* nullptr, where a page of host memory is a natural number *)
NoMemory == -1

(* ASSERT(condition): a failed one stops the emulator. *)
ASSERT(vm, condition, what) ==
  IF condition \/ vm.fault # "none" THEN vm ELSE [vm EXCEPT !.fault = what]

FreeVMA(size) ==
  [size |-> size, type |-> "Free", permissions |-> {}, meminfo_state |-> "Free",
   backing_memory |-> NoMemory]

(* VMManager::Reset *)
EmptyAddressSpace ==
  [vma_map |-> [b \in Pages |-> FreeVMA(IF b = 0 THEN MAX_ADDRESS ELSE 0)],
   page_table |-> [p \in Pages |-> NoMemory],
   fault |-> "none"]

(* The keys of the map. *)
Bases(vm) == {b \in Pages : vm.vma_map[b].size > 0}

FindVMA(vm, target) == Max({b \in 0 .. target : vm.vma_map[b].size > 0})

VMAAt(vm, target) == vm.vma_map[FindVMA(vm, target)]

(* The end of the VMA that has the target. *)
EndOfVMA(vm, target) == FindVMA(vm, target) + VMAAt(vm, target).size

(* The VMAs from that of the target to the last one that begins before its end. *)
VMAsInRange(vm, target, size) ==
  {FindVMA(vm, target)} \cup {b \in Bases(vm) : target < b /\ b < target + size}

-----------------------------------------------------------------------------
(* Splitting and merging. *)

(* backing_memory += offset, if there is any *)
Advance(vma, offset) ==
  IF vma.type = "BackingMemory" THEN vma.backing_memory + offset ELSE vma.backing_memory

(* Mutant: the right side of a split keeps the memory of the left one. *)
SplitVMASameMemory(vm, b, offset_in_vma) ==
  [vm EXCEPT !.vma_map[b].size = offset_in_vma,
             !.vma_map[b + offset_in_vma] = [vm.vma_map[b] EXCEPT !.size = @ - offset_in_vma]]

SplitVMA(vm, b, offset_in_vma) ==
  LET old == vm.vma_map[b]
      new == [old EXCEPT !.size = @ - offset_in_vma,
                         !.backing_memory = Advance(old, offset_in_vma)]
  IN  [ASSERT(vm, offset_in_vma \in 1 .. old.size - 1, "SplitVMA") EXCEPT
         !.vma_map[b].size = offset_in_vma,
         !.vma_map[b + offset_in_vma] = new]

(* The split that CarveVMA and CarveVMARange make, unless a VMA begins there already. *)
SplitAt(vm, address) ==
  IF address = MAX_ADDRESS \/ address \in Bases(vm)
  THEN vm
  ELSE SplitVMA(vm, FindVMA(vm, address), address - FindVMA(vm, address))

CanBeMergedWith(vma, next) ==
  /\ vma.permissions = next.permissions
  /\ vma.meminfo_state = next.meminfo_state
  /\ vma.type = next.type
  /\ vma.type = "BackingMemory" => vma.backing_memory + vma.size = next.backing_memory

(* The VMA that begins at an address becomes part of the one that ends there, if it can. *)
MergeAt(vm, address) ==
  IF /\ address \in Bases(vm) \ {0}
     /\ CanBeMergedWith(VMAAt(vm, address - 1), vm.vma_map[address])
  THEN [vm EXCEPT !.vma_map[FindVMA(vm, address - 1)].size = @ + vm.vma_map[address].size,
                  !.vma_map[address] = FreeVMA(0)]
  ELSE vm

(* The iterator that the code gets back is that of the VMA which has b afterwards. *)
MergeAdjacent(vm, b) == MergeAt(MergeAt(vm, b + vm.vma_map[b].size), b)

(* memory.MapMemoryRegion or memory.UnmapRegion on the pages of the VMA *)
UpdatePageTableForVMA(vm, b) ==
  LET vma == vm.vma_map[b]
  IN  [vm EXCEPT !.page_table =
         [p \in Pages |-> IF p \in b .. b + vma.size - 1
                         THEN Advance(vma, p - b)
                         ELSE vm.page_table[p]]]

(* A VMA gets new attributes, and what follows in all functions that give them. *)
SetVMA(vm, b, vma) ==
  MergeAdjacent(UpdatePageTableForVMA([vm EXCEPT !.vma_map[b] = vma], b), b)

-----------------------------------------------------------------------------
(* The operations. *)

CanCarveVMA(vm, base, size) ==
  /\ base < MAX_ADDRESS
  /\ VMAAt(vm, base).type = "Free"
  /\ base + size <= EndOfVMA(vm, base)

(* A size of zero would split the VMA at its boundary. *)
CarveVMA(vm, base, size) ==
  SplitAt(SplitAt(ASSERT(vm, size > 0, "SplitVMA"), base + size), base)

MapBackingMemory(vm, target, memory, size, state) ==
  IF CanCarveVMA(vm, target, size)
  THEN SetVMA(CarveVMA(vm, target, size), target,
              [size |-> size, type |-> "BackingMemory", permissions |-> {"R", "W"},
               meminfo_state |-> state, backing_memory |-> memory])
  ELSE vm

CanCarveVMARange(vm, target, size) ==
  \A b \in VMAsInRange(vm, target, size) : vm.vma_map[b].type # "Free"

CarveVMARange(vm, target, size) ==
  SplitAt(SplitAt(ASSERT(vm, size > 0 /\ target + size <= MAX_ADDRESS, "CarveVMARange"),
                  target),
          target + size)

Unmap(vm, b) == SetVMA(vm, b, FreeVMA(vm.vma_map[b].size))

Reprotect(vm, b, new_perms) ==
  SetVMA(vm, b, [vm.vma_map[b] EXCEPT !.permissions = new_perms])

ChangeState(vm, b, new_state, new_perms) ==
  SetVMA(vm, b, [vm.vma_map[b] EXCEPT !.permissions = new_perms, !.meminfo_state = new_state])

(***************************************************************************)
(* The loop over the VMAs of a carved range.  The iterator goes from the   *)
(* end of the VMA it is at, as merged, to the next: it visits the pages at *)
(* which a VMA begins when it gets there.                                  *)
(***************************************************************************)
Visit(vm, page, Body(_, _)) == IF page \in Bases(vm) THEN Body(vm, page) ELSE vm

OverRange(vm, target, size, Body(_, _)) ==
  LET after[n \in 0 .. size] ==
        IF n = 0 THEN vm ELSE Visit(after[n - 1], target + n - 1, Body)
  IN  after[size]

UnmapRange(vm, target, size) ==
  IF CanCarveVMARange(vm, target, size)
  THEN OverRange(CarveVMARange(vm, target, size), target, size, Unmap)
  ELSE vm

ReprotectRange(vm, target, size, new_perms) ==
  IF CanCarveVMARange(vm, target, size)
  THEN OverRange(CarveVMARange(vm, target, size), target, size,
                 LAMBDA v, b : Reprotect(v, b, new_perms))
  ELSE vm

CanChangeMemoryState(vm, target, size, expected_state, expected_perms) ==
  \A b \in VMAsInRange(vm, target, size) :
    /\ vm.vma_map[b].meminfo_state = expected_state
    /\ expected_perms \subseteq vm.vma_map[b].permissions

ChangeMemoryState(vm, target, size, expected_state, expected_perms, new_state, new_perms) ==
  IF CanChangeMemoryState(vm, target, size, expected_state, expected_perms)
  THEN OverRange(CarveVMARange(vm, target, size), target, size,
                 LAMBDA v, b : ChangeState(v, b, new_state, new_perms))
  ELSE vm

(* Blocks of memory <<first page, size>>, one for each VMA of the range. *)
CanGetBackingBlocks(vm, address, size) == CanCarveVMARange(vm, address, size)

GetBackingBlocksForRange(vm, address, size) ==
  LET starts == SetToSortSeq({address} \cup (VMAsInRange(vm, address, size) \ 0 .. address), <)
  IN  [i \in DOMAIN starts |->
         <<Advance(VMAAt(vm, starts[i]), starts[i] - FindVMA(vm, starts[i])),
           Min({address + size, EndOfVMA(vm, starts[i])}) - starts[i]>>]
=============================================================================

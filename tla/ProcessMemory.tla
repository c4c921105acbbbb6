---------------------------- MODULE ProcessMemory ----------------------------
(***************************************************************************)
(* The memory of processes: what the memory calls of a process             *)
(* (core/hle/kernel/process.cpp, svc.cpp) and its shared memory blocks     *)
(* (shared_memory.cpp) do to its address space (VMManager), to the regions *)
(* of FCRAM (MemoryRegions) and to the accounts kept of them.              *)
(*                                                                         *)
(* All of it is a record m, with one field per data member: a function of  *)
(* the process for the members of Process, of the region for those of      *)
(* KernelSystem::memory_regions.  A handler maps one m to the next.  The   *)
(* processes run on the one emulation thread, so that calls do not         *)
(* overlap.                                                                *)
(***************************************************************************)
EXTENDS VMManager, MemoryRegions

CONSTANTS
  Procs,
  Blocks,          \* the SharedMemory objects there can be
  RegionSize,      \* RegionSize[r], r = "APPLICATION" or "BASE"
  segments,        \* segments[p]: the code segments of a process and its stack
  fixed_mappings,  \* the pages of MapSharedPages and HandleSpecialMapping
  CommitLimit,     \* RESLIMIT_COMMIT of the one category that the processes are in
  SharedMemoryLimit,
  PROCESS_IMAGE_VADDR,
  HEAP_VADDR,
  HEAP_VADDR_END,
  SHARED_MEMORY_VADDR_END,
  LINEAR_HEAP_VADDR,
  NEW_LINEAR_HEAP_VADDR,
  TLS_AREA_VADDR,
  TLS_SLOTS,       \* the slots of a page: 8
  shared_device_mem,   \* the processes with this flag
  Programs         \* what the processes do: see Calls

ASSUME MemoryAssumption ==
  /\ RegionSize \in [{"APPLICATION", "BASE"} -> Nat \ {0}]
  /\ \A p \in Procs : \A i \in DOMAIN segments[p] : segments[p][i].addr \in Pages
  /\ RegionSize["APPLICATION"] <= CommitLimit
  /\ \A g \in DOMAIN Programs :
       /\ Programs[g].sizes \subseteq Nat \ {0}
       /\ Programs[g].perms \subseteq SUBSET {"R", "W"}

Regions == {"APPLICATION", "BASE"}

RegionBase == [APPLICATION |-> 0, BASE |-> RegionSize["APPLICATION"]]

(* The bit of MemoryPermission::DontCare *)
DontCare == {"DontCare"}

Fail(m, condition, what) ==
  IF condition /\ m.fault = "none" THEN [m EXCEPT !.fault = what] ELSE m

-----------------------------------------------------------------------------
(* Process: the heap. *)

InHeap(target, size) == HEAP_VADDR <= target /\ target + size <= HEAP_VADDR_END

(* Mutant: it is enough that the first page is free. *)
BeginsUnmapped(vm, target, size) == VMAAt(vm, target).type = "Free"

(* The check that a range is free, made before memory is mapped there. *)
IsUnmapped(vm, target, size) ==
  VMAAt(vm, target).type = "Free" /\ target + size <= EndOfVMA(vm, target)

(***************************************************************************)
(* The loop that maps blocks of memory one after the other.  Reprotect is  *)
(* given the VMA that MapBackingMemory returns, which is the merged one.   *)
(***************************************************************************)
MapBlock(vm, target, memory, size, state, perms) ==
  LET mapped == MapBackingMemory(ASSERT(vm, CanCarveVMA(vm, target, size), "vma.Succeeded"),
                                 target, memory, size, state)
  IN  Reprotect(mapped, FindVMA(mapped, target), perms)

SizeOf(blocks) == FoldLeft(LAMBDA sum, b : sum + b[2], 0, blocks)

MapBlocks(vm, target, blocks, state, perms) ==
  LET after[n \in 0 .. Len(blocks)] ==
        IF n = 0 THEN vm
        ELSE MapBlock(after[n - 1], target + SizeOf(SubSeq(blocks, 1, n - 1)),
                      blocks[n][1], blocks[n][2], state, perms)
  IN  after[Len(blocks)]

(* resource_limit->Reserve and Release of Commit; the results are ignored. *)
ReserveCommit(m, size) ==
  IF m.commit + size > CommitLimit THEN m ELSE [m EXCEPT !.commit = @ + size]

ReleaseCommit(m, size) ==
  IF size > m.commit THEN m ELSE [m EXCEPT !.commit = @ - size]

(* memory_region->Free, with its ASSERT *)
FreeRegion(m, r, pages) ==
  [Fail(m, ~ CanFree(m.region[r], pages), "Free") EXCEPT !.region[r] = Free(@, pages)]

(* Process::HeapAllocate, where the range check passed or is skipped *)
HeapAllocate(m, p, target, size, perms, state) ==
  LET pages == HeapAllocated(m.region["APPLICATION"], size)
  IN  IF /\ IsUnmapped(m.vm[p], target, size)
         /\ CanHeapAllocate(m.region["APPLICATION"], size)
      THEN ReserveCommit(
             [m EXCEPT !.region["APPLICATION"] = Allocate(@, pages, size),
                       !.vm[p] = MapBlocks(@, target, Intervals(pages), state, perms),
                       !.holding_memory[p] = @ \cup pages,
                       !.memory_used[p] = @ + size],
             size)
      ELSE m

(* The pages of a sequence of blocks *)
PagesOf(blocks) == UNION {Interval(blocks[i][1], blocks[i][2]) : i \in DOMAIN blocks}

HeapFree(m, p, target, size) ==
  LET pages == PagesOf(GetBackingBlocksForRange(m.vm[p], target, size))
  IN  IF CanGetBackingBlocks(m.vm[p], target, size)
      THEN [ReleaseCommit(FreeRegion(m, "APPLICATION", pages), size) EXCEPT
              !.holding_memory[p] = @ \ pages,
              !.vm[p] = UnmapRange(@, target, size),
              !.memory_used[p] = @ - size]
      ELSE m

-----------------------------------------------------------------------------
(* Process: the linear heap, where the address gives the memory. *)

InLinearHeap(target, size) ==
  /\ NEW_LINEAR_HEAP_VADDR + RegionBase["APPLICATION"] <= target
  /\ target + size <= NEW_LINEAR_HEAP_VADDR + RegionBase["APPLICATION"] + RegionSize["APPLICATION"]

(* The address asked for, or the one found: 0 stands for any. *)
CanAllocateLinear(m, target, size) ==
  IF target = 0
  THEN CanLinearAllocate(m.region["APPLICATION"], size)
  ELSE /\ InLinearHeap(target, size)
       /\ CanLinearAllocateAt(m.region["APPLICATION"], target - NEW_LINEAR_HEAP_VADDR, size)

LinearOffset(m, target, size) ==
  IF target = 0
  THEN LinearAllocated(m.region["APPLICATION"], size)
  ELSE target - NEW_LINEAR_HEAP_VADDR

LinearAllocate(m, p, target, size, perms) ==
  LET offset == LinearOffset(m, target, size)
  IN  ReserveCommit(
        [m EXCEPT !.region["APPLICATION"] = Allocate(@, Interval(offset, size), size),
                  !.vm[p] = MapBlock(@, offset + NEW_LINEAR_HEAP_VADDR, offset, size,
                                     "Continuous", perms),
                  !.holding_memory[p] = @ \cup Interval(offset, size),
                  !.memory_used[p] = @ + size],
        size)

LinearFree(m, p, target, size) ==
  LET pages == Interval(target - NEW_LINEAR_HEAP_VADDR, size)
  IN  [ReleaseCommit(FreeRegion(m, "APPLICATION", pages), size) EXCEPT
         !.vm[p] = UnmapRange(@, target, size),
         !.holding_memory[p] = @ \ pages,
         !.memory_used[p] = @ - size]

-----------------------------------------------------------------------------
(* Process: thread local storage, aliases, start and end. *)

(* The first page with a slot that is not in use, or the next page. *)
TlsPage(slots) ==
  Min({i \in DOMAIN slots : slots[i] # 1 .. TLS_SLOTS} \cup {Len(slots) + 1})

NewTlsPage(m, p) ==
  LET offset == LinearAllocated(m.region["BASE"], 1)
  IN  [m EXCEPT !.region["BASE"] = Allocate(@, {offset}, 1),
                !.holding_tls_memory[p] = @ \cup {offset},
                !.memory_used[p] = @ + 1,
                !.tls_slots[p] = Append(@, {}),
                !.vm[p] = MapBackingMemory(@, TLS_AREA_VADDR + Len(m.tls_slots[p]), offset, 1,
                                           "Locked")]

TakeSlot(m, p, page) ==
  [m EXCEPT !.tls_slots[p][page] = @ \cup {Min((1 .. TLS_SLOTS) \ @)}]

AllocateThreadLocalStorage(m, p) ==
  IF TlsPage(m.tls_slots[p]) <= Len(m.tls_slots[p])
  THEN TakeSlot(m, p, TlsPage(m.tls_slots[p]))
  ELSE IF CanLinearAllocate(m.region["BASE"], 1)
  THEN TakeSlot(NewTlsPage(m, p), p, TlsPage(m.tls_slots[p]))
  ELSE m

(* Unsigned subtraction of addresses, in pages *)
Minus(a, b) == (a - b) % (2 ^ 20)

Overlap(target, source, size) == Minus(source, target) < size \/ Minus(target, source) < size

(* The states of the source and of the target *)
SourceState(privileged) == IF privileged THEN "Locked" ELSE "Aliased"

(* Mutant: memory that is mapped a second time is like memory of its own. *)
TargetStateOwn(privileged) == "Private"

TargetState(privileged) == IF privileged THEN "AliasCode" ELSE "Alias"

(* Process::Map, where the range check of the source passed *)
Map(m, p, target, source, size, perms, privileged) ==
  LET source_perm == IF privileged THEN {} ELSE {"R", "W"}
      changed == ChangeMemoryState(m.vm[p], source, size, "Private", {"R", "W"},
                                   SourceState(privileged), source_perm)
  IN  IF Overlap(target, source, size)
      THEN IF privileged /\ source = target
           THEN [m EXCEPT !.vm[p] = ChangeMemoryState(@, source, size, "Private", {"R", "W"},
                                                      "AliasCode", perms)]
           ELSE m
      ELSE IF /\ IsUnmapped(m.vm[p], target, size)
              /\ CanChangeMemoryState(m.vm[p], source, size, "Private", {"R", "W"})
      THEN [m EXCEPT !.vm[p] = MapBlocks(changed, target,
                                         GetBackingBlocksForRange(changed, source, size),
                                         TargetState(privileged), perms)]
      ELSE m

(* Process::Unmap; the source is left as it is when its state is another one. *)
UnmapAlias(m, p, target, source, size, perms, privileged) ==
  IF Overlap(target, source, size)
  THEN IF privileged /\ source = target
       THEN [m EXCEPT !.vm[p] = ChangeMemoryState(@, source, size, "AliasCode", {},
                                                  "Private", perms)]
       ELSE m
  ELSE IF CanCarveVMARange(m.vm[p], target, size)
  THEN [m EXCEPT !.vm[p] = ChangeMemoryState(UnmapRange(@, target, size), source, size,
                                             SourceState(privileged), {}, "Private", perms)]
  ELSE m

(* Process::Run, up to the main thread, whose storage it allocates *)
Run(m, p) ==
  LET Segment(n, s) == HeapAllocate(n, p, s.addr, s.size, s.perms, s.state)
      Fixed(v, f) == MapBlock(v, f.addr, f.memory, f.size, f.state, f.perms)
  IN  AllocateThreadLocalStorage(
        [FoldLeft(Segment, m, segments[p]) EXCEPT !.vm[p] = FoldLeft(Fixed, @, fixed_mappings)],
        p)

FreeAllMemory(m, p) ==
  LET held == m.holding_memory[p]
      tls  == m.holding_tls_memory[p]
  IN  [ReleaseCommit(FreeRegion(FreeRegion(m, "APPLICATION", held), "BASE", tls),
                     Cardinality(held)) EXCEPT
         !.memory_used[p] = @ - Cardinality(held) - Cardinality(tls),
         !.holding_memory[p] = {},
         !.holding_tls_memory[p] = {},
         !.tls_slots[p] = << >>]

-----------------------------------------------------------------------------
(* SharedMemory. *)

NoBlock == [owner |-> "none"]

ConvertPermissions(permission) == permission \cap {"R", "W", "X"}

(* A block of the linear heap of a region; m.handles is set by the caller. *)
CreateLinearBlock(m, p, s, size, r, perms, other_perms) ==
  LET offset == LinearAllocated(m.region[r], size)
  IN  IF CanLinearAllocate(m.region[r], size)
      THEN [m EXCEPT !.region[r] = Allocate(@, Interval(offset, size), size),
                     !.memory_used[p] = @ + size,
                     !.handles[s] = {p},
                     !.blocks[s] = [owner |-> p, size |-> size, region |-> r,
                                    permissions |-> perms, other_permissions |-> other_perms,
                                    base_address |-> 0, backing_blocks |-> <<<<offset, size>>>>,
                                    holding_memory |-> Interval(offset, size),
                                    linear_heap_phys_offset |-> offset]]
      ELSE Fail(m, TRUE, "Not enough space in region")

(* A block of memory that the process has. *)
CreateHeapBlock(m, p, s, address, size, perms, other_perms) ==
  LET locked == ChangeMemoryState(m.vm[p], address, size, "Private", {"R", "W"}, "Locked",
                                  ConvertPermissions(perms))
  IN  [m EXCEPT !.vm[p] = locked,
                !.handles[s] = {p},
                !.blocks[s] = [owner |-> p, size |-> size, region |-> "BASE",
                               permissions |-> perms, other_permissions |-> other_perms,
                               base_address |-> address,
                               backing_blocks |-> GetBackingBlocksForRange(locked, address, size),
                               holding_memory |-> {},
                               linear_heap_phys_offset |-> 0]]

(***************************************************************************)
(* CreateSharedMemory fails after it made the object, which is destroyed   *)
(* with no base address: memory_used loses what it never got.              *)
(***************************************************************************)
FailHeapBlock(m, p, size) ==
  [m EXCEPT !.memory_used[p] = @ - size, !.lost_memory[p] = @ + size]

(* KernelSystem::CreateSharedMemory, for SVC::CreateMemoryBlock *)
CreateSharedMemory(m, p, s, address, size, perms, other_perms) ==
  IF address = 0
  THEN CreateLinearBlock(m, p, s, size,
                         IF p \in shared_device_mem THEN "APPLICATION" ELSE "BASE",
                         perms, other_perms)
  ELSE IF CanChangeMemoryState(m.vm[p], address, size, "Private", {"R", "W"})
  THEN CreateHeapBlock(m, p, s, address, size, perms, other_perms)
  ELSE FailHeapBlock(m, p, size)

(* Mutant: the memory of the block stays allocated. *)
DestroyKept(m, s) ==
  LET b == m.blocks[s]
  IN  IF b.owner \in m.alive
      THEN [m EXCEPT !.blocks[s] = NoBlock,
                     !.shared_memories = @ - 1,
                     !.memory_used[b.owner] = IF b.base_address = 0 THEN @ - b.size ELSE @]
      ELSE [m EXCEPT !.blocks[s] = NoBlock, !.lost_shared = @ + 1]

(***************************************************************************)
(* ~SharedMemory.  An owner that is being destroyed cannot be locked any   *)
(* more: its reservation is not released.                                  *)
(***************************************************************************)
DestroySharedMemory(m, s) ==
  LET b == m.blocks[s]
      freed == [FreeRegion(m, b.region, b.holding_memory) EXCEPT !.blocks[s] = NoBlock]
  IN  IF b.owner \notin m.alive
      THEN [freed EXCEPT !.lost_shared = @ + 1]
      ELSE IF b.base_address # 0
      THEN [freed EXCEPT !.shared_memories = @ - 1,
                         !.vm[b.owner] = ChangeMemoryState(@, b.base_address, b.size, "Locked",
                                                           {}, "Private", {"R", "W"})]
      ELSE [freed EXCEPT !.shared_memories = @ - 1, !.memory_used[b.owner] = @ - b.size]

(* A process gives up its handle. *)
CloseBlock(m, p, s) ==
  LET closed == [m EXCEPT !.handles[s] = @ \ {p}]
  IN  IF m.handles[s] = {p} THEN DestroySharedMemory(closed, s) ELSE closed

(* The address that SharedMemory::Map takes for the address it is given *)
BlockTarget(b, address) ==
  IF b.base_address = 0 /\ address = 0
  THEN b.linear_heap_phys_offset + LINEAR_HEAP_VADDR
  ELSE address

(* The checks of SharedMemory::Map *)
CanMapBlock(m, p, s, address, permissions, other_permissions) ==
  LET b == m.blocks[s]
  IN  /\ b.base_address = 0 <=> other_permissions = DontCare
      /\ permissions \subseteq (IF p = b.owner THEN b.permissions ELSE b.other_permissions)
      /\ other_permissions # DontCare => b.permissions \subseteq other_permissions
      /\ address # 0 => /\ HEAP_VADDR <= address
                        /\ address + b.size < SHARED_MEMORY_VADDR_END
      /\ IsUnmapped(m.vm[p], BlockTarget(b, address), b.size)

MapBlockAt(m, p, s, address, permissions) ==
  [m EXCEPT !.vm[p] = MapBlocks(@, BlockTarget(m.blocks[s], address),
                                m.blocks[s].backing_blocks, "Shared",
                                ConvertPermissions(permissions))]

-----------------------------------------------------------------------------
(* The calls. *)

VARIABLES
  mem,
  program,   \* the program that the processes follow
  calls      \* how many calls they made

vars == <<mem, program, calls>>

Of == Programs[program]

NoFault(m) == m.fault = "none" /\ \A p \in Procs : m.vm[p].fault = "none"

(* A call of a process that changes something. *)
Call(p, after) ==
  /\ after # mem
  /\ mem' = after
  /\ calls' = calls + 1
  /\ UNCHANGED program

(* Where the processes map memory that is not allocated for it. *)
MapTargets == HEAP_VADDR .. SHARED_MEMORY_VADDR_END - 1

InState(vm, target, size, state) ==
  \A b \in VMAsInRange(vm, target, size) : vm.vma_map[b].meminfo_state = state

(***************************************************************************)
(* SVC::ControlMemory.  Processes free what HeapAllocate gave them and     *)
(* what is still theirs alone: the code leaves open what FREE means for    *)
(* memory that is shared or aliased.                                       *)
(***************************************************************************)
SVC_FreeHeap(p, target, size) ==
  /\ InHeap(target, size)
  /\ InState(mem.vm[p], target, size, "Private")
  /\ Call(p, HeapFree(mem, p, target, size))

SVC_FreeLinear(p, target, size) ==
  /\ InLinearHeap(target, size)
  /\ CanCarveVMARange(mem.vm[p], target, size)
  /\ Call(p, LinearFree(mem, p, target, size))

SVC_Commit(p, target, size, perms) ==
  /\ InHeap(target, size)
  /\ Call(p, HeapAllocate(mem, p, target, size, perms, "Private"))

SVC_CommitLinear(p, target, size, perms) ==
  /\ CanAllocateLinear(mem, target, size)
  /\ Call(p, LinearAllocate(mem, p, target, size, perms))

SVC_Map(p, target, source, size, perms) ==
  /\ InHeap(source, size)
  /\ Call(p, Map(mem, p, target, source, size, perms, FALSE))

SVC_Unmap(p, target, source, size, perms) ==
  /\ InHeap(source, size)
  /\ Call(p, UnmapAlias(mem, p, target, source, size, perms, FALSE))

SVC_Protect(p, target, size, perms) ==
  Call(p, [mem EXCEPT !.vm[p] = ReprotectRange(@, target, size, perms)])

(***************************************************************************)
(* The loader of CRO modules (service/ldr_ro) has a buffer of the process  *)
(* mapped as code, and undoes only what it did.                            *)
(***************************************************************************)
MapCro(p, target, source, size) ==
  Call(p, Map(mem, p, target, source, size, {"R"}, TRUE))

(* The source has the memory of the target, and of nothing else. *)
IsPair(vm, target, source, size) ==
  \A i \in 0 .. size - 1 :
    {q \in Pages : vm.page_table[q] = vm.page_table[target + i]} = {target + i, source + i}

UnmapCro(p, target, source, size) ==
  /\ IsPair(mem.vm[p], target, source, size)
  /\ Call(p, UnmapAlias(mem, p, target, source, size, {"R", "W"}, TRUE))

SVC_CreateMemoryBlock(p, s, address, size, perms, other_perms) ==
  /\ mem.blocks[s] = NoBlock
  /\ address = 0 \/ (PROCESS_IMAGE_VADDR <= address /\ address + size <= SHARED_MEMORY_VADDR_END)
  /\ mem.shared_memories + 1 <= SharedMemoryLimit
  /\ LET after == CreateSharedMemory(mem, p, s, address, size, perms, other_perms)
     IN  Call(p, [after EXCEPT !.shared_memories = IF after.blocks[s] = NoBlock THEN @ ELSE @ + 1])

SVC_MapMemoryBlock(p, s, address, permissions, other_permissions) ==
  /\ p \in mem.handles[s]
  /\ permissions # {}
  /\ CanMapBlock(mem, p, s, address, permissions, other_permissions)
  /\ Call(p, MapBlockAt(mem, p, s, address, permissions))

(* SharedMemory::Unmap *)
SVC_UnmapMemoryBlock(p, s, address) ==
  /\ p \in mem.handles[s]
  /\ address + mem.blocks[s].size <= MAX_ADDRESS
  /\ Call(p, [mem EXCEPT !.vm[p] = UnmapRange(@, address, mem.blocks[s].size)])

SVC_CloseHandle(p, s) ==
  /\ p \in mem.handles[s]
  /\ Call(p, CloseBlock(mem, p, s))

(* A handle is copied to another process with a message. *)
SendHandle(p, q, s) ==
  /\ p \in mem.handles[s]
  /\ q \in mem.alive
  /\ Call(p, [mem EXCEPT !.handles[s] = @ \cup {q}])

SVC_MapProcessMemoryEx(p, dst_address, src, src_address, size) ==
  LET vm == mem.vm[src]
      vma == VMAAt(vm, src_address)
  IN  /\ src \in mem.alive
      /\ vma.type = "BackingMemory" /\ vma.meminfo_state = "Continuous"
      /\ src_address + size <= EndOfVMA(vm, src_address)
      /\ CanCarveVMA(mem.vm[p], dst_address, size)
      /\ Call(p, [mem EXCEPT !.vm[p] =
                    MapBlock(@, dst_address, Advance(vma, src_address - FindVMA(vm, src_address)),
                             size, "Continuous", {"R", "W", "X"})])

SVC_UnmapProcessMemoryEx(p, dst_address, size) ==
  /\ VMAAt(mem.vm[p], dst_address).meminfo_state = "Continuous"
  /\ Call(p, [mem EXCEPT !.vm[p] = UnmapRange(@, dst_address, size)])

(* A thread is created, and one stops. *)
CreateThread(p) == Call(p, AllocateThreadLocalStorage(mem, p))

StopThread(p, page, slot) ==
  /\ slot \in mem.tls_slots[p][page]
  /\ Call(p, [mem EXCEPT !.tls_slots[p][page] = @ \ {slot}])

(* ~Process: its handles go, and then its memory. *)
DestroyProcess(p) ==
  LET Close(m, s) == IF p \in m.handles[s] THEN CloseBlock(m, p, s) ELSE m
      dying == [mem EXCEPT !.alive = @ \ {p}]
  IN  Call(p, [FreeAllMemory(FoldLeft(Close, dying, SetToSeq(Blocks)), p) EXCEPT
                 !.vm[p] = EmptyAddressSpace])

-----------------------------------------------------------------------------
InitialMemory ==
  [vm |-> [p \in Procs |-> EmptyAddressSpace],
   memory_used |-> [p \in Procs |-> 0],
   holding_memory |-> [p \in Procs |-> {}],
   holding_tls_memory |-> [p \in Procs |-> {}],
   tls_slots |-> [p \in Procs |-> << >>],
   region |-> [r \in Regions |-> NewRegion(RegionBase[r], RegionSize[r])],
   commit |-> 0,
   shared_memories |-> 0,
   blocks |-> [s \in Blocks |-> NoBlock],
   handles |-> [s \in Blocks |-> {}],
   alive |-> Procs,
   fault |-> "none",
   lost_memory |-> [p \in Procs |-> 0],   \* history: see FailHeapBlock
   lost_shared |-> 0]                     \* history: see DestroySharedMemory

(* Every process has been run. *)
Init ==
  /\ mem = FoldLeft(Run, InitialMemory, SetToSeq(Procs))
  /\ program \in DOMAIN Programs
  /\ calls = 0

LinearPages == Interval(NEW_LINEAR_HEAP_VADDR, RegionSize["APPLICATION"])

HeapPages == HEAP_VADDR .. HEAP_VADDR_END - 1

(***************************************************************************)
(* A program is a record: calls, the kinds of calls that its processes     *)
(* make; procs, those that make them; length, the number of calls; and the *)
(* sizes and permissions that are asked for.                               *)
(***************************************************************************)
Does(call) == call \in Of.calls

HeapCalls(p, size) ==
  \/ Does("Free") /\ \E target \in HeapPages : SVC_FreeHeap(p, target, size)
  \/ \E target \in HeapPages, perms \in Of.perms :
       \/ Does("Commit") /\ SVC_Commit(p, target, size, perms)
       \/ Does("Protect") /\ SVC_Protect(p, target, size, perms)

LinearCalls(p, size) ==
  /\ Does("Linear")
  /\ \/ \E target \in LinearPages : SVC_FreeLinear(p, target, size)
     \/ \E target \in {0} \cup LinearPages, perms \in Of.perms :
          SVC_CommitLinear(p, target, size, perms)

AliasCalls(p, size) ==
  \E target \in MapTargets, source \in HeapPages :
    \/ \E perms \in Of.perms :
         \/ Does("Map") /\ SVC_Map(p, target, source, size, perms)
         \/ Does("Unmap") /\ SVC_Unmap(p, target, source, size, perms)
    \/ Does("Cro") /\ (MapCro(p, target, source, size) \/ UnmapCro(p, target, source, size))

BlockCalls(p, s) ==
  \/ /\ Does("CreateBlock")
     /\ \E size \in Of.sizes, address \in {0} \cup HeapPages, perms, other_perms \in Of.perms :
          SVC_CreateMemoryBlock(p, s, address, size, perms, other_perms)
  \/ /\ Does("MapBlock")
     /\ \/ \E address \in {0} \cup MapTargets, permissions \in Of.perms,
              other_permissions \in Of.perms \cup {DontCare} :
             SVC_MapMemoryBlock(p, s, address, permissions, other_permissions)
        \/ \E address \in MapTargets : SVC_UnmapMemoryBlock(p, s, address)
        \/ \E q \in Procs : SendHandle(p, q, s)
  \/ Does("CloseBlock") /\ SVC_CloseHandle(p, s)

ForeignCalls(p, size) ==
  /\ Does("MapEx")
  /\ \E dst_address \in MapTargets :
       \/ \E src \in Procs, src_address \in LinearPages :
            SVC_MapProcessMemoryEx(p, dst_address, src, src_address, size)
       \/ SVC_UnmapProcessMemoryEx(p, dst_address, size)

ThreadCalls(p) ==
  /\ Does("Thread")
  /\ \/ CreateThread(p)
     \/ \E page \in DOMAIN mem.tls_slots[p], slot \in 1 .. TLS_SLOTS : StopThread(p, page, slot)

Next ==
  /\ calls < Of.length
  /\ NoFault(mem)
  /\ \E p \in mem.alive \cap Of.procs :
       \/ \E size \in Of.sizes :
            \/ HeapCalls(p, size) \/ LinearCalls(p, size) \/ AliasCalls(p, size)
            \/ ForeignCalls(p, size)
       \/ \E s \in Blocks : BlockCalls(p, s)
       \/ ThreadCalls(p)
       \/ Does("Exit") /\ DestroyProcess(p)

Spec == Init /\ [][Next]_vars

-----------------------------------------------------------------------------
(***************************************************************************)
(* The VMAs of an address space cover it, one after the other and none of  *)
(* them empty, and the page table that the CPU reads through has for each  *)
(* page the memory that its VMA says, after any sequence of splits, merges *)
(* and partial changes.                                                    *)
(***************************************************************************)
AddressSpaceConsistent ==
  \A p \in Procs :
    LET vm == mem.vm[p]
    IN  /\ 0 \in Bases(vm)
        /\ \A b \in Bases(vm) :
             /\ b + vm.vma_map[b].size = Min({c \in Bases(vm) : c > b} \cup {MAX_ADDRESS})
             /\ \A q \in b .. b + vm.vma_map[b].size - 1 :
                  vm.page_table[q] = Advance(vm.vma_map[b], q - b)

(***************************************************************************)
(* Every page of FCRAM is free or held, by one process or shared memory    *)
(* block; and the sizes that the kernel keeps apart from these sets, which *)
(* it adds to and subtracts from in every call, are theirs: used of a      *)
(* region, Commit of the resource limit and memory_used of a process,      *)
(* except for what FailHeapBlock takes too much.                           *)
(***************************************************************************)
HeldIn(r) ==
  {<<p, mem.holding_memory[p]>> : p \in {q \in Procs : r = "APPLICATION"}}
  \cup {<<p, mem.holding_tls_memory[p]>> : p \in {q \in Procs : r = "BASE"}}
  \cup {<<s, mem.blocks[s].holding_memory>> :
          s \in {t \in Blocks : mem.blocks[t] # NoBlock /\ mem.blocks[t].region = r}}

OwnBlocks(p) == {s \in Blocks : mem.blocks[s].owner = p}

MemoryAccounted ==
  /\ \A r \in Regions :
       LET region == mem.region[r]
           held == UNION {h[2] : h \in HeldIn(r)}
       IN  /\ \A g, h \in HeldIn(r) : g # h => g[2] \cap h[2] = {}
           /\ held \cap region.free_blocks = {}
           /\ held \cup region.free_blocks = Interval(region.base, region.size)
           /\ region.used = Cardinality(held)
  /\ mem.commit = Cardinality(UNION {mem.holding_memory[p] : p \in Procs})
  /\ mem.shared_memories =
       Cardinality({s \in Blocks : mem.blocks[s] # NoBlock}) + mem.lost_shared
  /\ \A p \in mem.alive :
       mem.memory_used[p] + mem.lost_memory[p] =
         Cardinality(mem.holding_memory[p]) + Cardinality(mem.holding_tls_memory[p])
         + Cardinality(UNION {mem.blocks[s].holding_memory : s \in OwnBlocks(p)})

(***************************************************************************)
(* Memory that a process has for itself (its code, heap, linear heap and   *)
(* thread local storage, aliased or locked or not) is memory that it       *)
(* holds, and is its own at one address: no other call, of it or of        *)
(* another process, gave the page away or gave it twice.                   *)
(***************************************************************************)
OwnPages(p) ==
  {q \in Pages :
     \/ VMAAt(mem.vm[p], q).meminfo_state \in {"Code", "Private", "Aliased", "Locked"}
     \/ q \in LinearPages /\ VMAAt(mem.vm[p], q).meminfo_state = "Continuous"}

OwnMemoryExclusive ==
  \A p \in mem.alive :
    /\ \A q \in OwnPages(p) :
         mem.vm[p].page_table[q] \in mem.holding_memory[p] \cup mem.holding_tls_memory[p]
    /\ \A q, r \in OwnPages(p) : q # r => mem.vm[p].page_table[q] # mem.vm[p].page_table[r]

(***************************************************************************)
(* No ASSERT of the allocators and of the address space fails: what is     *)
(* freed was allocated, what the checks before a mapping found free is     *)
(* free.  The exception is that of CreateSharedMemory, on a region that is *)
(* full.                                                                   *)
(***************************************************************************)
AssertsHold ==
  /\ mem.fault \in {"none", "Not enough space in region"}
  /\ \A p \in Procs : mem.vm[p].fault = "none"
=============================================================================

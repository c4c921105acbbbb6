---------------------------- MODULE MemoryRegions ----------------------------
(***************************************************************************)
(* The allocators of FCRAM, the main memory of the console                 *)
(* (MemoryRegionInfo in core/hle/kernel/memory.cpp), in pages.             *)
(*                                                                         *)
(* A region is a record with the members of the class.  Its free_blocks, a *)
(* boost interval_set, joins intervals that touch, so it is the set of the *)
(* free pages, and its intervals are the runs of that set.                 *)
(***************************************************************************)
EXTENDS Integers, FiniteSets, Sequences, SequencesExt

(* The interval of pages from an offset on. *)
Interval(offset, size) == offset .. offset + size - 1

(* The intervals of a set of pages, as <<lower, size>>, from the lowest on. *)
RunAt(pages, lower) ==
  CHOOSE n \in 1 .. Cardinality(pages) :
    /\ Interval(lower, n) \subseteq pages
    /\ lower + n \notin pages

Intervals(pages) ==
  LET lowers == SetToSortSeq({l \in pages : l - 1 \notin pages}, <)
  IN  [i \in DOMAIN lowers |-> <<lowers[i], RunAt(pages, lowers[i])>>]

(* MemoryRegionInfo::Reset *)
NewRegion(base, size) ==
  [base |-> base, size |-> size, used |-> 0, free_blocks |-> Interval(base, size)]

(***************************************************************************)
(* HeapAllocate takes whole free blocks from the highest on, and the upper *)
(* part of the last one.                                                   *)
(***************************************************************************)
CanHeapAllocate(region, size) == size > 0 /\ Cardinality(region.free_blocks) >= size

HeapAllocated(region, size) ==
  {p \in region.free_blocks : Cardinality({q \in region.free_blocks : q > p}) < size}

Allocate(region, pages, size) ==
  [region EXCEPT !.free_blocks = @ \ pages, !.used = @ + size]

(* LinearAllocate with an offset *)
CanLinearAllocateAt(region, offset, size) == Interval(offset, size) \subseteq region.free_blocks

(* LinearAllocate with a size: the first block from the lower end with room for it *)
CanLinearAllocate(region, size) ==
  \E p \in region.free_blocks : Interval(p, size) \subseteq region.free_blocks

LinearAllocated(region, size) ==
  Min({p \in region.free_blocks : Interval(p, size) \subseteq region.free_blocks})

(* ASSERT(!intersects(free_blocks, interval)) of Free *)
CanFree(region, pages) == pages \cap region.free_blocks = {}

Free(region, pages) ==
  [region EXCEPT !.free_blocks = @ \cup pages, !.used = @ - Cardinality(pages)]
=============================================================================

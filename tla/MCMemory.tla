------------------------------- MODULE MCMemory -------------------------------
(***************************************************************************)
(* Two processes.  The application region has three pages more than they   *)
(* start with, the heap a page more than that, and the base region two     *)
(* pages for thread local storage and blocks.                              *)
(***************************************************************************)
EXTENDS ProcessMemory, TLC

CONSTANTS app, applet, block1, block2

(* Blocks differ in nothing but their names. *)
BlockSymmetry == Permutations(Blocks)

MCRegionSize == [APPLICATION |-> 6, BASE |-> 3]

Code == [addr |-> 1, size |-> 1, perms |-> {"R", "X"}, state |-> "Code"]

Stack == [addr |-> 5, size |-> 1, perms |-> {"R", "W"}, state |-> "Locked"]

MCSegments == [p \in Procs |-> IF p = app THEN <<Code, Stack>> ELSE <<Stack>>]

(* The configuration page: its memory is not of FCRAM. *)
MCFixedMappings ==
  <<[addr |-> 16, memory |-> 20, size |-> 1, state |-> "Shared", perms |-> {"R"}]>>

RW == {"R", "W"}

MemoryPrograms ==
  [Heap |-> [calls |-> {"Commit", "Free", "Protect"}, procs |-> {app}, length |-> 7,
             sizes |-> 1 .. 3, perms |-> {{"R"}, RW}],
   Linear |-> [calls |-> {"Commit", "Free", "Linear", "Exit"}, procs |-> {app, applet},
               length |-> 4, sizes |-> 1 .. 2, perms |-> {RW}],
   Alias |-> [calls |-> {"Commit", "Free", "Map", "Unmap"}, procs |-> {app}, length |-> 5,
              sizes |-> 1 .. 2, perms |-> {RW}],
   Cro |-> [calls |-> {"Commit", "Free", "Cro", "Protect"}, procs |-> {app}, length |-> 5,
            sizes |-> 1 .. 2, perms |-> {RW}],
   Blocks |-> [calls |-> {"Commit", "Free", "CreateBlock", "MapBlock", "CloseBlock", "Exit"},
               procs |-> {app, applet}, length |-> 5, sizes |-> {1}, perms |-> {RW}],
   Foreign |-> [calls |-> {"Linear", "MapEx", "Exit"}, procs |-> {app, applet}, length |-> 3,
                sizes |-> {1, 2}, perms |-> {RW}],
   Threads |-> [calls |-> {"Thread", "CreateBlock", "CloseBlock", "Exit"},
                procs |-> {app, applet}, length |-> 6, sizes |-> {1}, perms |-> {RW}]]

MCPrograms == MemoryPrograms
=============================================================================

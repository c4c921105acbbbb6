----------------------------- MODULE MCRunLoop -----------------------------
(***************************************************************************)
(* Short slices, with blocks that overshoot by less or more than           *)
(* min_delay, with and without a limit of the CPU usage.                   *)
(***************************************************************************)
EXTENDS RunLoop

NoLimit        == {[c \in Cores |-> 0]}
LimitedOrNot   == {[c \in Cores |-> 0], [c \in Cores |-> IF c = 0 THEN 1 ELSE 2]}
OneOrThree     == {{1}, {3}}
ShortBlocks    == {{1, 3}}
OneDelay       == {1}
=============================================================================

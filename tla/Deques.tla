-------------------------------- MODULE Deques --------------------------------
(***************************************************************************)
(* The erase-remove idiom of the C++ standard library on a sequence:       *)
(* data.erase(std::remove(data.begin(), data.end(), t), data.end()).       *)
(***************************************************************************)
EXTENDS Integers, Sequences

(* std::remove_if: s without the elements in D. *)
EraseIn(s, D) ==
  LET kept[n \in 0 .. Len(s)] ==
        IF n = 0 THEN << >>
        ELSE IF s[n] \in D THEN kept[n - 1]
        ELSE Append(kept[n - 1], s[n])
  IN  kept[Len(s)]

(* s without the elements equal to t, the others in their order. *)
Erase(s, t) == EraseIn(s, {t})
=============================================================================

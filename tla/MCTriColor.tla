----------------------------- MODULE MCTriColor -----------------------------
(***************************************************************************)
(* Instances of TriColor for TLC: two heaps, a and b in the first, of the  *)
(* blocks one free at any time.                                            *)
(***************************************************************************)
EXTENDS TriColor, TLC

CONSTANTS a, b, c, d

TwoHeaps == [o \in Obj |-> IF o \in {a, b} THEN 0 ELSE 1]

(* The blocks of a heap are interchangeable.                               *)
WithinHeaps ==
    {p @@ q : p \in Permutations({a, b}), q \in Permutations({c, d})}
=============================================================================

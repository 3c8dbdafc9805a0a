--------------------------- MODULE MCHeapClient ---------------------------
(***************************************************************************)
(* Instances of HeapClient for TLC.                                        *)
(***************************************************************************)
EXTENDS HeapClient, TLC

(* One heap that the first request makes.                                  *)
Growing == {[heaps |-> 0, size |-> 0, auto_grow |-> TRUE]}

(* That, or two heaps of six units that do not grow.                       *)
GrowingOrTwo == Growing \union {[heaps |-> 2, size |-> 6, auto_grow |-> FALSE]}

(* The client keeps to the conditions of the theorems in AllocatorProofs.  *)
ASSUME Uniformity == UniformClient

(* The client's variables are interchangeable.                             *)
Symmetry == Permutations(Var)
=============================================================================

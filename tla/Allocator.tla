----------------------------- MODULE Allocator -----------------------------
(***************************************************************************)
(* What a client of gc.c relies on, whatever the collector: an allocation  *)
(* hands out memory that nobody else holds and that stays his until he     *)
(* gives it back.  No free list, no header, no address order: only who     *)
(* holds which unit of memory.  HeapClient implements it under the         *)
(* conditions its runs state.                                              *)
(***************************************************************************)
EXTENDS Integers, FiniteSets

CONSTANTS
    Var,        \* the client's pointer variables
    Unit,       \* the units of memory
    Size        \* the number of units an allocation may ask for

VARIABLE owns   \* owns[v]: the units of the block v points to, {} if none

Init == owns = [v \in Var |-> {}]

Taken == UNION {owns[v] : v \in Var}

(* gc_malloc: the block of an unused variable becomes n contiguous units   *)
(* that no other block has.                                                *)
Malloc(v, n) ==
    /\ owns[v] = {}
    /\ \E a \in Unit :
         /\ a .. (a + n - 1) \subseteq Unit \ Taken
         /\ owns' = [owns EXCEPT ![v] = a .. (a + n - 1)]

(* gc_free: the block goes back.                                           *)
Free(v) ==
    /\ owns[v] # {}
    /\ owns' = [owns EXCEPT ![v] = {}]

Next == \E v \in Var : Free(v) \/ \E n \in Size : Malloc(v, n)

Spec == Init /\ [][Next]_owns
=============================================================================

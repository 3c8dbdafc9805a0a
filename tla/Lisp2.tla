------------------------------- MODULE Lisp2 --------------------------------
(***************************************************************************)
(* compact-lisp2: three passes over one heap, which is compacted in the    *)
(* order of addresses.  All objects have one size (the struct T of its     *)
(* test) and the heap takes exactly LispRoom of them.  Blocks are          *)
(* allocated one after the other and nobody calls gc_free, so that the     *)
(* free list is the one block behind the objects: an address is the number *)
(* of an object from the start of the heap.                                *)
(***************************************************************************)
EXTENDS Integers, FiniteSets, SequencesExt

CONSTANTS
    LispRoom,   \* objects in the heap
    Word,       \* the words of an object that may hold pointers
    LispMade,   \* objects the program makes, numbered by their value
    LispRoots

ASSUME Lisp2Assumption == {LispRoom, LispMade, LispRoots} \subseteq Nat \ {0}

VARIABLES
    block,      \* the objects in the heap: [value, forwarding, field]
    rest,       \* FL_MARK is set in the header of the free block
    root,       \* roots[i].ptr and the variable *roots[i].optr, equal
    made        \* what the program stored: [name, link], the value each root
                \* leads to and value -> field -> value
lisp2vars == <<block, rest, root, made>>

NIL == 0
LispInit == block = <<>> /\ rest = FALSE /\ root = <<>> /\ made = [name |-> <<>>, link |-> <<>>]

(* The free block reads as zeros.                                          *)
ValueIn(a) == IF a \in DOMAIN block THEN block[a].value ELSE 0

(* gc_mark: the allocated objects the roots reach, by address.             *)
MarkedFrom(S) == S \cup ({block[a].field[f] : a \in S, f \in Word} \cap DOMAIN block)
gc_mark ==
    LET mark[n \in 0 .. LispRoom] ==
            IF n = 0 THEN ToSet(root) \cap DOMAIN block ELSE MarkedFrom(mark[n - 1])
    IN mark[LispRoom]

(* Mutant of set_forwarding_ptr: the mark is not tested.                   *)
ForwardedAll(marked) == [a \in DOMAIN block |-> a]

(* set_forwarding_ptr: a marked object goes behind the marked ones before  *)
(* it; another one keeps the address of a former collection, or NIL.       *)
set_forwarding_ptr(marked) ==
    [a \in DOMAIN block |->
        IF a \in marked THEN Cardinality({b \in marked : b <= a}) ELSE block[a].forwarding]

(* adjust_ptr: roots and the fields of all objects, dead ones too.  What   *)
(* is no pointer to an object stays.                                       *)
To(forwarding, p) == IF p \in DOMAIN block THEN forwarding[p] ELSE p
adjust_ptr(forwarding) ==
    [a \in DOMAIN block |->
        [block[a] EXCEPT !.forwarding = forwarding[a],
                         !.field = [f \in Word |-> To(forwarding, @[f])]]]

(* move_obj: the marked objects move down in the order of addresses.       *)
(* What lies behind them is cleared but for the header the free block has  *)
(* now, which is that of the object that was there.                        *)
move_obj(adjusted, marked) ==
    [n \in 1 .. Cardinality(marked) |->
        adjusted[CHOOSE a \in marked : Cardinality({b \in marked : b <= a}) = n]]
OldHeader(marked) ==
    LET a == Cardinality(marked) + 1
    IN IF a <= Len(block) THEN a \in marked ELSE rest

Collected ==
    LET marked == gc_mark
        forwarding == set_forwarding_ptr(marked)
    IN [block |-> move_obj(adjust_ptr(forwarding), marked),
        root  |-> [n \in DOMAIN root |-> To(forwarding, root[n])],
        rest  |-> OldHeader(marked)]

(* A marked free block passes for an object: it is moved, and overlaps the *)
(* place it came from.  The program does not collect in this state.        *)
MayCollect == ~rest \/ Len(block) = LispRoom

(* gc_malloc.  A block that is cut passes its flags to the rest; the last  *)
(* one leaves no rest.  The new object is assigned to a variable that      *)
(* becomes a root, or to a field.                                          *)
Take(s) ==
    LET new == Len(s.block) + 1
        v   == Len(made.link) + 1
        none == [f \in Word |-> 0]
        b   == Append(s.block, [value |-> v, forwarding |-> NIL, field |-> [f \in Word |-> NIL]])
    IN /\ new <= LispRoom /\ v <= LispMade
       /\ rest' = (s.rest /\ new < LispRoom)
       /\ \/ /\ Len(root) < LispRoots /\ root' = Append(s.root, new)
             /\ block' = b
             /\ made' = [name |-> Append(made.name, v), link |-> Append(made.link, none)]
          \/ \E a \in ToSet(s.root), f \in Word :
             /\ block' = [b EXCEPT ![a].field[f] = new] /\ root' = s.root
             /\ made' = [made EXCEPT !.link = Append([@ EXCEPT ![b[a].value][f] = v], none)]

(* A heap that is full runs gc() first, and may be full after it too.      *)
State == [block |-> block, root |-> root, rest |-> rest]
compact_malloc == \/ Len(block) < LispRoom /\ Take(State)
                  \/ Len(block) = LispRoom /\ Take(Collected)

gc == /\ MayCollect
      /\ block' = Collected.block /\ root' = Collected.root /\ rest' = Collected.rest
      /\ UNCHANGED made

(* The program assigns a field; a variable goes out of scope.              *)
Store == \E a \in gc_mark, f \in Word, p \in gc_mark \cup {NIL} :
    /\ block' = [block EXCEPT ![a].field[f] = p]
    /\ made' = [made EXCEPT !.link[block[a].value][f] = ValueIn(p)]
    /\ UNCHANGED <<rest, root>>
Forget == \E n \in DOMAIN root :
    /\ root' = RemoveAt(root, n) /\ made' = [made EXCEPT !.name = RemoveAt(@, n)]
    /\ UNCHANGED <<block, rest>>

LispNext == compact_malloc \/ gc \/ Store \/ Forget
LispSpec == LispInit /\ [][LispNext]_lisp2vars

(***************************************************************************)
(* Properties.                                                             *)
(***************************************************************************)
(* The values of the reachable objects, in the order of their addresses.   *)
ReachableValues ==
    LET upto[n \in 0 .. Len(block)] ==
            IF n = 0 THEN <<>>
            ELSE IF n \in gc_mark THEN Append(upto[n - 1], block[n].value) ELSE upto[n - 1]
    IN upto[Len(block)]

(* After any number of collections the program's variables lead to the     *)
(* objects they did, it sees behind them the links it made, and a          *)
(* collection would now keep exactly the reachable objects, in the order   *)
(* of their addresses (compact.c:177-190).                                 *)
CompactExact ==
    /\ made.name = [n \in DOMAIN root |-> ValueIn(root[n])]
    /\ \A a \in gc_mark, f \in Word : ValueIn(block[a].field[f]) = made.link[block[a].value][f]
    /\ MayCollect =>
         [n \in DOMAIN Collected.block |-> Collected.block[n].value] = ReachableValues
=============================================================================

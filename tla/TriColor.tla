------------------------------ MODULE TriColor ------------------------------
(***************************************************************************)
(* The incremental collector tri-color-marking/tri-color.c: gc() runs one  *)
(* increment of a cycle root scan - mark - sweep and returns to the        *)
(* program, which allocates, stores pointers through write_barrier and     *)
(* registers roots in between.                                             *)
(*                                                                         *)
(* A block of the heaps gc_init made is an object of Obj; HeapOf says      *)
(* which of the heaps it lies in.  Objects are of one size, and the        *)
(* program leaves one block free: then the free list is exactly the free   *)
(* blocks (FreeListIsExact of AllocatorProofs) and gc_malloc returns one   *)
(* of them, here any.  A block freed into an empty list keeps its old      *)
(* next_free (gc.c:185), and the list would lead to blocks in use.         *)
(* All pointers are to the start of a body, so that gc_mark reads every    *)
(* field.                                                                  *)
(*                                                                         *)
(* The loops of one increment are steps of their own; the program waits,   *)
(* pc says for what.                                                       *)
(***************************************************************************)
EXTENDS Integers, Sequences

CONSTANTS
    Obj,            \* the blocks gc_malloc can return
    NULL,
    Field,          \* the pointer fields of an object
    gc_heaps_used,  \* number of heaps
    HeapOf,         \* the heap each block lies in
    max_mark,       \* grey objects an increment of the mark phase takes
    max_sweep,      \* heaps an increment of the sweep phase takes
    MaxRoots        \* bound of the model: registered roots

ASSUME TriColorAssumption ==
    /\ Obj # {} /\ NULL \notin Obj
    /\ gc_heaps_used \in Nat \ {0}
    /\ HeapOf \in [Obj -> 0 .. gc_heaps_used - 1]
    /\ max_mark \in Nat \ {0}
    /\ max_sweep \in Nat \ {0}
    /\ MaxRoots \in Nat

VARIABLES
    gc_phase,       \* "root_scan", "mark" or "sweep"
    stack,          \* the queue of grey objects (stack.c is first in, first out)
    sweeping,       \* the next heap to sweep
    alloc,          \* the objects with FL_ALLOC
    marked,         \* the objects with FL_MARK
    refs,           \* refs[o][f]: the pointer in field f of o
    roots,          \* roots[0 .. root_used-1].ptr
    local,          \* the pointer gc_malloc returned last, in a local variable
    pc,             \* where the program is
    i,              \* the loop variable of mark_phase and sweep_phase
    j,              \* the loop variable of root_scan_phase
    scan_root,      \* the local of mark_phase
    retry           \* gc() was called by gc_malloc, which tries again after it

heapVars == <<alloc, marked, refs>>
cycleVars == <<gc_phase, stack, sweeping>>
clientVars == <<roots, local>>
loopVars == <<pc, i, j, scan_root, retry>>
vars == <<heapVars, cycleVars, clientVars, loopVars>>

Blank == [f \in Field |-> NULL]

Init ==
    /\ gc_phase = "root_scan"
    /\ stack = <<>>
    /\ sweeping = 0
    /\ alloc = {}
    /\ marked = {}
    /\ refs = [o \in Obj |-> Blank]
    /\ roots = <<>>
    /\ local = NULL
    /\ pc = "client"
    /\ i = 0
    /\ j = 0
    /\ scan_root = 0
    /\ retry = FALSE

-----------------------------------------------------------------------------
Elems(s) == {s[k] : k \in DOMAIN s}

Grey == Elems(stack)
RootSet == Elems(roots)

(* The objects gc_mark would visit from the fields of o: what is not       *)
(* allocated it passes over.                                               *)
Children(o) == {refs[o][f] : f \in Field} \cap alloc

(* T holds what is marked in m, the objects of S, and with every object    *)
(* that is not in m its children.                                          *)
ClosedOver(T, m, S) ==
    /\ m \subseteq T
    /\ S \cap alloc \subseteq T
    /\ \A o \in T \ m : Children(o) \subseteq T

(* gc_mark of every pointer in S with the marks m: depth first, it turns   *)
(* back at marked objects, so that it marks the least such set.            *)
gc_mark(m, S) == {o \in Obj : \A T \in SUBSET Obj : ClosedOver(T, m, S) => o \in T}

(* What the program can reach from the pointers in S.                      *)
Reach(S) == gc_mark({}, S)
Held == Reach(RootSet \union {local})

-----------------------------------------------------------------------------
(* gc() has done its increment: back to the program or to gc_malloc.       *)
Return ==
    /\ pc' = IF retry THEN "retry" ELSE "client"
    /\ i' = 0 /\ j' = 0 /\ scan_root' = 0 /\ retry' = FALSE

(* The switch of gc(): from is TRUE if gc_malloc is the caller.            *)
gc(from) ==
    /\ pc = "client"
    /\ retry' = from
    /\ pc' = CASE gc_phase = "root_scan" -> "roots"
               [] gc_phase = "mark"      -> "mark"
               [] OTHER                  -> "sweep"
    /\ i' = IF gc_phase = "sweep" THEN sweeping ELSE 0
    /\ j' = 0
    /\ scan_root' = 0
    /\ UNCHANGED <<heapVars, cycleVars, clientVars>>

(* Mutant of Shade: queued, but not marked.                                *)
QueueOnly(o) == UNCHANGED marked /\ stack' = Append(stack, o)

(* Marking an object grey: it is marked and queued.                        *)
Shade(o) == marked' = marked \union {o} /\ stack' = Append(stack, o)

(* root_scan_phase, one root: grey it unless it is freed or marked.        *)
ScanRoot ==
    /\ pc = "roots"
    /\ j < Len(roots)
    /\ j' = j + 1
    /\ LET o == roots[j + 1]
       IN IF o \in alloc \ marked THEN Shade(o) ELSE UNCHANGED <<marked, stack>>
    /\ UNCHANGED <<alloc, refs, gc_phase, sweeping, clientVars, pc, i, scan_root, retry>>

(* The end of root_scan_phase, called by gc() or from within mark_phase.   *)
RootsDone ==
    /\ pc = "roots"
    /\ j = Len(roots)
    /\ gc_phase' = "mark"
    /\ IF gc_phase = "root_scan" THEN Return
       ELSE pc' = "mark" /\ i' = i + 1 /\ j' = 0 /\ scan_root' = scan_root + 1
            /\ UNCHANGED retry
    /\ UNCHANGED <<heapVars, stack, sweeping, clientVars>>

(* mark_phase, an iteration that finds the queue empty: look at the roots  *)
(* once more, then the marking is over.                                    *)
MarkEmpty ==
    /\ pc = "mark"
    /\ i < max_mark
    /\ stack = <<>>
    /\ IF scan_root >= 1
       THEN gc_phase' = "sweep" /\ Return
       ELSE pc' = "roots" /\ j' = 0 /\ UNCHANGED <<gc_phase, i, scan_root, retry>>
    /\ UNCHANGED <<heapVars, stack, sweeping, clientVars>>

(* mark_phase, an iteration that takes a grey object and marks everything  *)
(* its fields lead to.                                                     *)
MarkNext ==
    /\ pc = "mark"
    /\ i < max_mark
    /\ stack # <<>>
    /\ stack' = Tail(stack)
    /\ marked' = gc_mark(marked, Children(Head(stack)))
    /\ i' = i + 1
    /\ UNCHANGED <<alloc, refs, gc_phase, sweeping, clientVars, pc, j, scan_root, retry>>

(* Mutants of MarkedAll: one grey object too few is looked at, the test    *)
(* after the loop is missing.                                              *)
MarkedAllButOne == Len(stack) <= 1
MarkedNever == FALSE

(* Is the marking over when max_mark objects have been taken?              *)
MarkedAll == stack = <<>>

MarkDone ==
    /\ pc = "mark"
    /\ i = max_mark
    /\ gc_phase' = IF MarkedAll THEN "sweep" ELSE gc_phase
    /\ Return
    /\ UNCHANGED <<heapVars, stack, sweeping, clientVars>>

(* sweep_phase, one heap: unmark what is marked, free what is not.         *)
SweepHeap ==
    /\ pc = "sweep"
    /\ i < gc_heaps_used
    /\ i < max_sweep + sweeping
    /\ LET here == {o \in alloc : HeapOf[o] = i}
           dead == here \ marked
       IN /\ alloc' = alloc \ dead
          /\ marked' = marked \ here
          /\ refs' = [o \in Obj |-> IF o \in dead THEN Blank ELSE refs[o]]
    /\ i' = i + 1
    /\ UNCHANGED <<cycleVars, clientVars, pc, j, scan_root, retry>>

(* Mutants of SweptAll: the last heap is missed, or one too many expected. *)
SweptButLast(n) == n >= gc_heaps_used - 1
SweptBeyond(n) == n > gc_heaps_used

(* Have all heaps been swept when the loop has stopped at heap n?          *)
SweptAll(n) == n = gc_heaps_used

SweepDone ==
    /\ pc = "sweep"
    /\ i = gc_heaps_used \/ i = max_sweep + sweeping
    /\ sweeping' = IF SweptAll(i) THEN 0 ELSE i
    /\ gc_phase' = IF SweptAll(i) THEN "root_scan" ELSE gc_phase
    /\ Return
    /\ UNCHANGED <<heapVars, stack, clientVars>>

Collector ==
    \/ ScanRoot \/ RootsDone
    \/ MarkEmpty \/ MarkNext \/ MarkDone
    \/ SweepHeap \/ SweepDone

-----------------------------------------------------------------------------
(* gc_malloc of an object: the walk of the list finds a block, flags       *)
(* become FL_ALLOC alone, the body is as gc_free left it.  The program     *)
(* takes no block that is the last free one.                               *)
Malloc ==
    /\ pc = "client"
    /\ \E o \in Obj \ alloc :
         /\ alloc \union {o} # Obj
         /\ alloc' = alloc \union {o}
         /\ marked' = marked \ {o}
         /\ local' = o
    /\ UNCHANGED <<refs, cycleVars, roots, loopVars>>

(* gc_malloc of more than a heap holds: no block is large enough, and it   *)
(* runs one increment.                                                     *)
MallocTooLarge == gc(TRUE)

(* It walks the list again, finds nothing, and auto_grow is off.           *)
MallocAgain ==
    /\ pc = "retry"
    /\ pc' = "client"
    /\ local' = NULL
    /\ UNCHANGED <<heapVars, cycleVars, roots, i, j, scan_root, retry>>

(* The program calls gc() itself.                                          *)
Collect == gc(FALSE)

(* Mutants of write_barrier: no barrier, or one that blackens.             *)
PlainStore(o, f, new) ==
    /\ UNCHANGED <<marked, stack>>
    /\ refs' = [refs EXCEPT ![o][f] = new]

BlackBarrier(o, f, new) ==
    /\ marked' = IF o \in marked THEN marked \union {new} ELSE marked
    /\ UNCHANGED stack
    /\ refs' = [refs EXCEPT ![o][f] = new]

(* write_barrier(obj, &obj->f, new).                                       *)
write_barrier(o, f, new) ==
    /\ IF o \in marked /\ new \notin marked THEN Shade(new) ELSE UNCHANGED <<marked, stack>>
    /\ refs' = [refs EXCEPT ![o][f] = new]

(* The program stores the pointer new into o: it has both (Held).          *)
Store(o, f, new) ==
    /\ pc = "client"
    /\ write_barrier(o, f, new)
    /\ UNCHANGED <<alloc, gc_phase, sweeping, clientVars, loopVars>>

(* The program forgets a pointer: a plain assignment of NULL.              *)
Clear(o, f) ==
    /\ pc = "client"
    /\ refs' = [refs EXCEPT ![o][f] = NULL]
    /\ UNCHANGED <<alloc, marked, cycleVars, clientVars, loopVars>>

add_roots(o) ==
    /\ pc = "client"
    /\ Len(roots) < MaxRoots
    /\ roots' = Append(roots, o)
    /\ UNCHANGED <<heapVars, cycleVars, local, loopVars>>

-----------------------------------------------------------------------------
Program ==
    \/ Malloc \/ MallocTooLarge \/ MallocAgain
    \/ Collect
    \/ \E o \in Held, f \in Field : Clear(o, f)

Next ==
    \/ Collector
    \/ Program
    \/ \E o, new \in Held, f \in Field : Store(o, f, new)
    \/ \E o \in Held : add_roots(o)

Spec == Init /\ [][Next]_vars

(* A program that goes on asking for increments, by gc() or in a           *)
(* gc_malloc that fails, drives the collector; the increments end.         *)
FairSpec ==
    /\ Spec
    /\ WF_vars(Collector) /\ WF_vars(MallocAgain)
    /\ WF_vars(Collect \/ MallocTooLarge)

-----------------------------------------------------------------------------
(* The objects the current sweep is past, all of them between two cycles,  *)
(* and the objects that will survive the cycle: those and the marked ones. *)
Cursor == IF pc = "sweep" THEN i ELSE sweeping

Passed ==
    {o \in alloc : gc_phase = "root_scan" \/ (gc_phase = "sweep" /\ HeapOf[o] < Cursor)}

Kept == marked \union Passed

(* What the collector's code leaves to its user: once the roots are        *)
(* scanned, an object becomes a root only if the cycle keeps it anyway,    *)
(* and during the sweep a pointer to an object that will not survive is    *)
(* stored only if the barrier catches it and it has no pointers yet.       *)
MayStore(o, new) ==
    gc_phase # "mark" => new \in Kept \/ (o \in marked /\ refs[new] = Blank)

MayRoot(o) == o \in Kept

CarefulNext ==
    \/ Collector
    \/ Program
    \/ \E o, new \in Held, f \in Field : MayStore(o, new) /\ Store(o, f, new)
    \/ \E o \in Held : MayRoot(o) /\ add_roots(o)

CarefulSpec == Init /\ [][CarefulNext]_vars

-----------------------------------------------------------------------------
(* The cycle's state between and within increments: the sweep cursor       *)
(* always names a heap, the queue holds objects (tri-color.c:5-9).         *)
TypeOK ==
    /\ gc_phase \in {"root_scan", "mark", "sweep"}
    /\ stack \in Seq(Obj)
    /\ sweeping \in 0 .. gc_heaps_used - 1
    /\ alloc \subseteq Obj
    /\ marked \subseteq Obj
    /\ refs \in [Obj -> [Field -> Obj \union {NULL}]]
    /\ roots \in Seq(Obj) /\ Len(roots) <= MaxRoots
    /\ local \in Obj \union {NULL}
    /\ pc \in {"client", "roots", "mark", "sweep", "retry"}
    /\ i \in Nat /\ j \in Nat /\ scan_root \in Nat
    /\ retry \in BOOLEAN

(* Whatever the program does between two increments, the queue never holds *)
(* an object that was freed: the sweep unmarks and frees while the barrier *)
(* goes on queueing, and the next cycle pops what it left                  *)
(* (tri-color.c:87-97, 144-150, 168-188).                                  *)
GreyAllocated == Grey \subseteq alloc

(* A mark that outlives its sweep is in the queue: a cycle starts with no  *)
(* object that passes for black though its fields were not read            *)
(* (tri-color.c:90-95, 181, 192-195).                                      *)
NoStaleBlack == gc_phase = "root_scan" => marked \subseteq Grey

(* The invariant of the barrier: while marking, what a black object points *)
(* to is marked (tri-color.c:77-99).                                       *)
NoBlackToWhite ==
    gc_phase = "mark" => \A o \in marked \ Grey : Children(o) \subseteq marked

(* What the roots reach is never freed (tri-color.c:161-196), for a        *)
(* program that keeps to MayStore and MayRoot.                             *)
NeverFreesReachable == [][\A o \in alloc \ alloc' : o \notin Reach(RootSet)]_vars

(* Every root is an allocated object, and every pointer in a reachable     *)
(* object is NULL or leads to one.                                         *)
NoDanglingPointer ==
    /\ RootSet \subseteq alloc
    /\ \A o \in Reach(RootSet), f \in Field : refs[o][f] \in alloc \union {NULL}

(* The collector never gets stuck in a phase (tri-color.c:132-155, 191).   *)
CycleCompletes == []<>(gc_phase = "root_scan")

(* No object stays allocated for ever once the program cannot reach it.    *)
GarbageReclaimed == \A o \in Obj : []<>(o \notin alloc \/ o \in Held)

-----------------------------------------------------------------------------
(* The inductive invariant.  ControlOK: where the loops may stand in which *)
(* phase.                                                                  *)
ControlOK ==
    /\ pc = "roots" => gc_phase \in {"root_scan", "mark"} /\ j <= Len(roots)
    /\ pc = "roots" /\ gc_phase = "mark" => i < max_mark
    /\ pc = "mark" => gc_phase = "mark" /\ i <= max_mark
    /\ pc = "sweep" => gc_phase = "sweep" /\ sweeping <= i /\ i <= gc_heaps_used
    /\ gc_phase # "sweep" => sweeping = 0

(* Marks and queue, for any program: between the marking phases a queued   *)
(* object survives the sweep, and what the sweep has passed is marked only *)
(* if the barrier queued it since.                                         *)
QueueOK ==
    /\ marked \subseteq alloc
    /\ Grey \subseteq alloc
    /\ gc_phase # "mark" => Grey \subseteq Kept /\ marked \cap Passed \subseteq Grey

(* The free list is never empty, on which Malloc rests.                    *)
SomeFree == alloc # Obj

(* The inductive invariant of any program.                                 *)
AnyInv == TypeOK /\ ControlOK /\ QueueOK /\ SomeFree

(* Once root_scan_phase is past a root, the root is marked.                *)
ScannedRootsMarked ==
    pc = "roots" /\ gc_phase = "root_scan" => \A k \in 1 .. j : roots[k] \in marked

(* Outside the mark phase what is kept points only at what is kept.        *)
PointersKept ==
    \A o \in Kept, f \in Field :
        gc_phase # "mark" => refs[o][f] \in Kept \union {NULL}

(* In the mark phase allocated objects point only at allocated objects.    *)
PointersAllocated ==
    \A o \in alloc, f \in Field :
        gc_phase = "mark" => refs[o][f] \in alloc \union {NULL}

(* gc_free clears the body: a free block holds no pointer.                 *)
FreeIsBlank == \A o \in Obj \ alloc : refs[o] = Blank

(* The inductive invariant of the careful program, with AnyInv: what       *)
(* survives the cycle holds the roots and is closed under pointers outside *)
(* the mark phase, and the marking has no black-to-white pointer (tri-     *)
(* color.c:84-196).                                                        *)
CarefulInv ==
    /\ RootSet \subseteq Kept
    /\ ScannedRootsMarked
    /\ PointersKept
    /\ PointersAllocated
    /\ FreeIsBlank
    /\ NoBlackToWhite
=============================================================================

--------------------------- MODULE TriColorProofs ---------------------------
(***************************************************************************)
(* Theorems about TriColor, for any number of objects, heaps, fields and   *)
(* roots and any increments max_mark and max_sweep.                        *)
(***************************************************************************)
EXTENDS TriColor, TLAPS

-----------------------------------------------------------------------------
(* What a queue holds after push and after pop (stack.c).                  *)
LEMMA ElemsAppend ==
    ASSUME NEW s \in Seq(Obj), NEW o \in Obj
    PROVE  Elems(Append(s, o)) = Elems(s) \union {o}
<1>1. ASSUME NEW x \in Elems(Append(s, o)) PROVE x \in Elems(s) \union {o}
    BY <1>1 DEF Elems
<1>2. ASSUME NEW x \in Elems(s) PROVE x \in Elems(Append(s, o))
    <2>1. PICK k \in 1 .. Len(s) : x = s[k]
        BY <1>2 DEF Elems
    <2>2. k \in 1 .. Len(Append(s, o)) /\ Append(s, o)[k] = x
        BY <2>1
    <2>3. QED BY <2>2 DEF Elems
<1>3. o \in Elems(Append(s, o))
    <2>1. Len(s) + 1 \in 1 .. Len(Append(s, o)) /\ Append(s, o)[Len(s) + 1] = o
        OBVIOUS
    <2>2. QED BY <2>1 DEF Elems
<1>4. QED BY <1>1, <1>2, <1>3

(* pop takes the head and leaves the rest.                                 *)
LEMMA ElemsTail ==
    ASSUME NEW s \in Seq(Obj), s # <<>>
    PROVE  /\ Head(s) \in Obj
           /\ Tail(s) \in Seq(Obj)
           /\ Elems(s) = {Head(s)} \union Elems(Tail(s))
<1>1. Head(s) \in Obj /\ Tail(s) \in Seq(Obj) /\ Head(s) = s[1] /\ Len(s) \in Nat \ {0}
    OBVIOUS
<1>2. ASSUME NEW x \in Elems(s) PROVE x \in {Head(s)} \union Elems(Tail(s))
    <2>1. PICK k \in 1 .. Len(s) : x = s[k]
        BY <1>2 DEF Elems
    <2>2. CASE k = 1
        BY <2>1, <2>2, <1>1
    <2>3. CASE k # 1
        <3>1. k - 1 \in 1 .. Len(Tail(s)) /\ Tail(s)[k - 1] = s[k]
            BY <2>1, <2>3, <1>1
        <3>2. k - 1 \in DOMAIN Tail(s)
            BY <3>1, <1>1
        <3>3. x \in Elems(Tail(s))
            BY <3>1, <3>2, <2>1 DEF Elems
        <3>4. QED BY <3>3
    <2>4. QED BY <2>2, <2>3
<1>3. ASSUME NEW x \in Elems(Tail(s)) PROVE x \in Elems(s)
    <2>1. PICK k \in 1 .. Len(Tail(s)) : x = Tail(s)[k]
        BY <1>3, <1>1 DEF Elems
    <2>2. k + 1 \in 1 .. Len(s) /\ s[k + 1] = x
        BY <2>1, <1>1
    <2>3. QED BY <2>2 DEF Elems
<1>4. Head(s) \in Elems(s)
    <2>1. 1 \in 1 .. Len(s) /\ s[1] = Head(s)
        BY <1>1
    <2>2. QED BY <2>1 DEF Elems
<1>5. QED BY <1>1, <1>2, <1>3, <1>4

(* The elements of a queue of objects are objects.                         *)
LEMMA ElemsType ==
    ASSUME NEW s \in Seq(Obj)
    PROVE  /\ Elems(s) \subseteq Obj
           /\ \A k \in 1 .. Len(s) : s[k] \in Elems(s)
           /\ s = <<>> => Elems(s) = {}
BY DEF Elems

-----------------------------------------------------------------------------
(* gc_mark adds to the marks m what the pointers in S lead to, follows     *)
(* every pointer of an object it marks, marks allocated objects only, and  *)
(* no more than it must.                                                   *)
LEMMA MarkFacts ==
    ASSUME alloc \subseteq Obj, NEW m \in SUBSET alloc, NEW S
    PROVE  /\ m \subseteq gc_mark(m, S)
           /\ S \cap alloc \subseteq gc_mark(m, S)
           /\ gc_mark(m, S) \subseteq alloc
           /\ \A o \in gc_mark(m, S) \ m : Children(o) \subseteq gc_mark(m, S)
           /\ \A T \in SUBSET Obj : ClosedOver(T, m, S) => gc_mark(m, S) \subseteq T
<1>1. m \subseteq gc_mark(m, S) /\ S \cap alloc \subseteq gc_mark(m, S)
    BY DEF gc_mark, ClosedOver
<1>2. \A T \in SUBSET Obj : ClosedOver(T, m, S) => gc_mark(m, S) \subseteq T
    BY DEF gc_mark
<1>3. ClosedOver(alloc, m, S)
    BY DEF ClosedOver, Children
<1>4. ASSUME NEW o \in gc_mark(m, S) \ m, NEW c \in Children(o)
      PROVE  c \in gc_mark(m, S)
    <2>1. c \in Obj
        BY DEF Children
    <2>2. ASSUME NEW T \in SUBSET Obj, ClosedOver(T, m, S) PROVE c \in T
        <3>1. o \in T \ m
            BY <1>2, <2>2
        <3>2. QED BY <3>1, <2>2 DEF ClosedOver
    <2>3. QED BY <2>1, <2>2 DEF gc_mark
<1>5. QED BY <1>1, <1>2, <1>3, <1>4

-----------------------------------------------------------------------------
USE TriColorAssumption

(* What Return and Shade leave behind, whatever step they are part of.      *)
LEMMA ReturnFacts ==
    ASSUME TypeOK, Return
    PROVE  /\ pc' \in {"client", "retry"}
           /\ i' = 0 /\ j' = 0 /\ scan_root' = 0
           /\ retry' \in BOOLEAN
<1>1. pc' \in {"client", "retry"} /\ i' = 0 /\ j' = 0 /\ scan_root' = 0
    BY DEF Return
<1>2. retry' \in BOOLEAN
    BY Zenon DEF Return
<1>3. QED BY <1>1, <1>2

(* Shade adds one object to the marks and to the queue.                    *)
LEMMA ShadeFacts ==
    ASSUME TypeOK, NEW o \in Obj, Shade(o)
    PROVE  /\ stack' \in Seq(Obj)
           /\ marked' = marked \union {o}
           /\ Grey' = Grey \union {o}
BY ElemsAppend DEF Shade, TypeOK, Grey

(* gc_mark marks allocated objects only.                                   *)
LEMMA MarksAllocated ==
    ASSUME alloc \subseteq Obj, NEW m, m \subseteq alloc, NEW S
    PROVE  gc_mark(m, S) \subseteq alloc
BY MarkFacts

(* What the program holds is allocated.                                    *)
LEMMA HeldAllocated == ASSUME TypeOK PROVE Held \subseteq alloc
<1>1. alloc \subseteq Obj
    BY DEF TypeOK
<1>2. gc_mark({}, RootSet \union {local}) \subseteq alloc
    BY <1>1, MarksAllocated
<1>3. QED BY <1>2 DEF Held, Reach

(* Types and the places of the loops are inductive by themselves.          *)
LEMMA Typing == ASSUME TypeOK, ControlOK, [Next]_vars PROVE TypeOK' /\ ControlOK'
<1> USE DEF TypeOK, ControlOK, heapVars, cycleVars, clientVars, loopVars
<1>1. CASE ScanRoot
    <2>1. roots[j + 1] \in Obj
        BY <1>1 DEF ScanRoot
    <2>2. stack' \in Seq(Obj) /\ marked' \subseteq Obj
        <3>1. CASE Shade(roots[j + 1])
            BY <2>1, <3>1, ShadeFacts
        <3>2. CASE UNCHANGED <<marked, stack>>
            BY <3>2
        <3>3. QED BY <1>1, <3>1, <3>2 DEF ScanRoot
    <2>3. QED BY <1>1, <2>2 DEF ScanRoot
<1>2. CASE RootsDone
    <2>1. UNCHANGED <<heapVars, stack, sweeping, clientVars>> /\ gc_phase' = "mark"
        BY <1>2 DEF RootsDone
    <2>2. CASE gc_phase = "root_scan"
        <3>1. Return
            BY <1>2, <2>2 DEF RootsDone
        <3>2. QED BY <1>2, <2>1, <2>2, <3>1, ReturnFacts DEF RootsDone
    <2>3. CASE gc_phase # "root_scan"
        <3>1. pc' = "mark" /\ i' = i + 1 /\ j' = 0 /\ scan_root' = scan_root + 1
            BY <1>2, <2>3 DEF RootsDone
        <3>2. retry' = retry
            BY <1>2, <2>3 DEF RootsDone
        <3>3. pc = "roots" /\ gc_phase = "mark"
            BY <1>2, <2>3 DEF RootsDone
        <3>4. QED BY <2>1, <3>1, <3>2, <3>3
    <2>4. QED BY <2>2, <2>3
<1>3. CASE MarkEmpty
    <2>1. UNCHANGED <<heapVars, stack, sweeping, clientVars>> /\ pc = "mark" /\ i < max_mark
        BY <1>3 DEF MarkEmpty
    <2>2. CASE scan_root >= 1
        <3>1. gc_phase' = "sweep" /\ Return
            BY <1>3, <2>2 DEF MarkEmpty
        <3>2. QED BY <2>1, <3>1, ReturnFacts
    <2>3. CASE ~(scan_root >= 1)
        <3>1. pc' = "roots" /\ j' = 0 /\ UNCHANGED <<gc_phase, i, scan_root, retry>>
            BY <1>3, <2>3 DEF MarkEmpty
        <3>2. QED BY <2>1, <3>1
    <2>4. QED BY <2>2, <2>3
<1>4. CASE MarkNext
    <2>1. marked' \subseteq Obj
        BY <1>4 DEF MarkNext, gc_mark
    <2>2. stack' \in Seq(Obj)
        BY <1>4, ElemsTail DEF MarkNext
    <2>3. QED BY <1>4, <2>1, <2>2 DEF MarkNext
<1>5. CASE MarkDone
    BY <1>5, ReturnFacts DEF MarkDone
<1>6. CASE SweepHeap
    <2>1. refs' \in [Obj -> [Field -> Obj \union {NULL}]]
        BY <1>6 DEF SweepHeap, Blank
    <2>2. QED BY <1>6, <2>1 DEF SweepHeap
<1>7. CASE SweepDone
    <2>1. /\ UNCHANGED <<heapVars, stack, clientVars>> /\ Return
          /\ pc = "sweep"
          /\ sweeping' = IF i = gc_heaps_used THEN 0 ELSE i
          /\ gc_phase' = IF i = gc_heaps_used THEN "root_scan" ELSE gc_phase
        BY <1>7 DEF SweepDone, SweptAll
    <2>2. sweeping' \in 0 .. gc_heaps_used - 1
        BY <2>1
    <2>3. QED BY <2>1, <2>2, ReturnFacts
<1>8. ASSUME NEW from \in BOOLEAN, gc(from) PROVE TypeOK' /\ ControlOK'
    BY <1>8 DEF gc
<1>9. CASE Malloc
    BY <1>9 DEF Malloc
<1>10. CASE MallocAgain
    BY <1>10 DEF MallocAgain
<1>11. ASSUME NEW o \in Held, NEW f \in Field, Clear(o, f) PROVE TypeOK' /\ ControlOK'
    BY <1>11 DEF Clear
<1>12. ASSUME NEW o \in Held, NEW new \in Held, NEW f \in Field, Store(o, f, new)
       PROVE  TypeOK' /\ ControlOK'
    <2>0. new \in Obj
        BY HeldAllocated
    <2>1. stack' \in Seq(Obj) /\ marked' \subseteq Obj
        <3>1. CASE Shade(new)
            BY <2>0, <3>1, ShadeFacts
        <3>2. CASE UNCHANGED <<marked, stack>>
            BY <3>2
        <3>3. QED BY <1>12, <3>1, <3>2 DEF Store, write_barrier
    <2>2. QED BY <1>12, <2>0, <2>1 DEF Store, write_barrier
<1>13. ASSUME NEW o \in Held, add_roots(o) PROVE TypeOK' /\ ControlOK'
    <2>1. o \in Obj
        BY HeldAllocated
    <2>2. QED BY <1>13, <2>1 DEF add_roots
<1>14. CASE UNCHANGED vars
    BY <1>14 DEF vars
<1>15. QED
    BY <1>1, <1>2, <1>3, <1>4, <1>5, <1>6, <1>7, <1>8, <1>9, <1>10, <1>11, <1>12, <1>13, <1>14
    DEF Next, Collector, Program, MallocTooLarge, Collect

-----------------------------------------------------------------------------
(* Sweeping a heap changes neither what survives the cycle nor the queue:  *)
(* what it unmarks it has passed.                                          *)
LEMMA SweepKeeps ==
    ASSUME AnyInv, SweepHeap
    PROVE  Kept' = Kept /\ Kept \subseteq alloc' /\ marked' \cap Passed' \subseteq Grey'
<1> DEFINE here == {o \in alloc : HeapOf[o] = i}
<1>1. /\ pc = "sweep" /\ pc' = "sweep" /\ gc_phase = "sweep" /\ gc_phase' = "sweep"
      /\ i \in Nat /\ i' = i + 1 /\ stack' = stack
      /\ alloc' = alloc \ (here \ marked) /\ marked' = marked \ here
    BY DEF SweepHeap, AnyInv, TypeOK, ControlOK, cycleVars
<1>2. /\ alloc \subseteq Obj /\ marked \subseteq alloc
      /\ marked \cap Passed \subseteq Grey
      /\ \A o \in alloc : HeapOf[o] \in Int
    BY <1>1 DEF AnyInv, TypeOK, QueueOK
<1>3. Passed = {o \in alloc : HeapOf[o] < i} /\ Passed' = {o \in alloc' : HeapOf[o] < i + 1}
    BY <1>1 DEF Passed, Cursor
<1>4. Kept' = Kept /\ Kept \subseteq alloc'
    BY <1>1, <1>2, <1>3 DEF Kept
<1>5. marked' \cap Passed' \subseteq Passed
    BY <1>1, <1>2, <1>3
<1>6. QED BY <1>1, <1>2, <1>4, <1>5 DEF Grey

(* Outside the sweep loop the set of passed objects moves only with the    *)
(* allocated ones.                                                         *)
LEMMA PassedStays ==
    ASSUME alloc' = alloc, gc_phase' = gc_phase, Cursor' = Cursor
    PROVE  Passed' = Passed
BY DEF Passed

(* When the sweep begins it has passed nothing: what is kept is what is    *)
(* marked.                                                                 *)
LEMMA EndOfMarking ==
    ASSUME TypeOK, ControlOK, gc_phase = "mark", gc_phase' = "sweep",
           UNCHANGED <<heapVars, sweeping>>, pc' \in {"client", "retry"}
    PROVE  Passed' = {} /\ Kept' = marked
<1>1. sweeping' = 0 /\ Cursor' = 0 /\ alloc' = alloc /\ marked' = marked
    BY DEF ControlOK, Cursor, heapVars
<1>2. \A o \in alloc' : HeapOf[o] \in Nat
    BY <1>1 DEF TypeOK
<1>3. Passed' = {}
    BY <1>1, <1>2 DEF Passed
<1>4. QED BY <1>1, <1>3 DEF Kept

(* The end of a sweep increment moves nothing across the cursor: after the *)
(* last heap every allocated object was passed.                            *)
LEMMA EndOfSweep ==
    ASSUME TypeOK, ControlOK, SweepDone
    PROVE  Passed' = Passed
<1>1. /\ UNCHANGED <<heapVars, stack, clientVars>> /\ Return
      /\ pc = "sweep" /\ gc_phase = "sweep" /\ alloc' = alloc
      /\ sweeping' = IF i = gc_heaps_used THEN 0 ELSE i
      /\ gc_phase' = IF i = gc_heaps_used THEN "root_scan" ELSE gc_phase
    BY DEF SweepDone, SweptAll, heapVars, ControlOK
<1>2. pc' \in {"client", "retry"}
    BY <1>1, ReturnFacts
<1>3. \A o \in alloc : HeapOf[o] < gc_heaps_used
    BY DEF TypeOK
<1>4. CASE i = gc_heaps_used
    BY <1>1, <1>3, <1>4 DEF Passed, Cursor
<1>5. CASE i # gc_heaps_used
    <2>1. gc_phase' = gc_phase /\ Cursor' = Cursor
        BY <1>1, <1>2, <1>5 DEF Cursor
    <2>2. QED BY <1>1, <2>1, PassedStays
<1>6. QED BY <1>4, <1>5

(* The call of gc() puts the loop variable where the cursor was.           *)
LEMMA StartOfIncrement ==
    ASSUME TypeOK, ControlOK, NEW from \in BOOLEAN, gc(from)
    PROVE  Passed' = Passed
<1>1. Cursor' = Cursor
    <2>1. pc = "client" /\ sweeping' = sweeping
        BY DEF gc, cycleVars
    <2>2. CASE gc_phase = "sweep"
        BY <2>1, <2>2 DEF gc, Cursor
    <2>3. CASE gc_phase # "sweep"
        <3>1. pc' # "sweep"
            BY <2>3 DEF gc, TypeOK
        <3>2. QED BY <2>1, <3>1 DEF Cursor
    <2>4. QED BY <2>2, <2>3
<1>2. alloc' = alloc /\ gc_phase' = gc_phase
    BY DEF gc, heapVars, cycleVars
<1>3. QED BY <1>1, <1>2, PassedStays

(* The part of AnyInv about marks and queue is preserved.                  *)
LEMMA QueueStep == ASSUME AnyInv, TypeOK', [Next]_vars PROVE QueueOK'
<1> USE DEF AnyInv, heapVars, cycleVars, clientVars, loopVars
<1>0. ASSUME marked' = marked, stack' = stack, alloc' = alloc, Passed' = Passed,
             gc_phase' = gc_phase
      PROVE  QueueOK'
    BY <1>0 DEF QueueOK, Kept, Grey
<1>1. CASE ScanRoot
    <2>1. alloc' = alloc /\ Passed' = Passed
        BY <1>1, PassedStays DEF ScanRoot, Cursor
    <2>2. CASE roots[j + 1] \in alloc \ marked
        <3>1. roots[j + 1] \in Obj /\ Shade(roots[j + 1])
            BY <1>1, <2>2 DEF ScanRoot, TypeOK
        <3>2. QED BY <1>1, <2>1, <2>2, <3>1, ShadeFacts DEF QueueOK, Kept, ScanRoot
    <2>3. CASE roots[j + 1] \notin alloc \ marked
        BY <1>1, <2>1, <2>3, <1>0 DEF ScanRoot
    <2>4. QED BY <2>2, <2>3
<1>2. CASE RootsDone
    BY <1>2 DEF RootsDone, QueueOK, Grey
<1>3. CASE MarkEmpty
    <2>1. stack = <<>> /\ UNCHANGED <<heapVars, stack, sweeping>> /\ gc_phase = "mark"
        BY <1>3 DEF MarkEmpty, ControlOK
    <2>2. CASE scan_root >= 1
        <3>1. gc_phase' = "sweep" /\ Return
            BY <1>3, <2>2 DEF MarkEmpty
        <3>2. Passed' = {}
            BY <2>1, <3>1, ReturnFacts, EndOfMarking
        <3>3. Grey' = {}
            BY <2>1, ElemsType DEF Grey, TypeOK
        <3>4. QED BY <2>1, <3>2, <3>3 DEF QueueOK
    <2>3. CASE ~(scan_root >= 1)
        <3>1. gc_phase' = "mark"
            BY <1>3, <2>1, <2>3 DEF MarkEmpty
        <3>2. QED BY <2>1, <3>1 DEF QueueOK, Grey
    <2>4. QED BY <2>2, <2>3
<1>4. CASE MarkNext
    <2>1. marked' \subseteq alloc
        <3>1. alloc \subseteq Obj /\ marked \subseteq alloc
            BY DEF QueueOK, TypeOK
        <3>2. gc_mark(marked, Children(Head(stack))) \subseteq alloc
            BY <3>1, MarksAllocated
        <3>3. QED BY <1>4, <3>2 DEF MarkNext
    <2>2. Grey' \subseteq Grey
        BY <1>4, ElemsTail DEF MarkNext, Grey, TypeOK
    <2>3. gc_phase' = "mark" /\ alloc' = alloc
        BY <1>4 DEF MarkNext, ControlOK
    <2>4. QED BY <2>1, <2>2, <2>3 DEF QueueOK
<1>5. CASE MarkDone
    <2>1. UNCHANGED <<heapVars, stack, sweeping>> /\ gc_phase = "mark" /\ Return
        BY <1>5 DEF MarkDone, ControlOK
    <2>2. CASE MarkedAll
        <3>1. gc_phase' = "sweep"
            BY <1>5, <2>2 DEF MarkDone
        <3>2. Passed' = {}
            BY <2>1, <3>1, ReturnFacts, EndOfMarking
        <3>3. Grey' = {}
            BY <2>1, <2>2, ElemsType DEF Grey, TypeOK, MarkedAll
        <3>4. QED BY <2>1, <3>2, <3>3 DEF QueueOK
    <2>3. CASE ~MarkedAll
        <3>1. gc_phase' = "mark"
            BY <1>5, <2>1, <2>3 DEF MarkDone
        <3>2. QED BY <2>1, <3>1 DEF QueueOK, Grey
    <2>4. QED BY <2>2, <2>3
<1>6. CASE SweepHeap
    <2>1. Kept' = Kept /\ Kept \subseteq alloc' /\ marked' \cap Passed' \subseteq Grey'
        BY <1>6, SweepKeeps
    <2>2. gc_phase = "sweep" /\ Grey' = Grey /\ marked' \subseteq Kept'
        BY <1>6 DEF SweepHeap, ControlOK, Grey, Kept
    <2>3. QED BY <2>1, <2>2 DEF QueueOK
<1>7. CASE SweepDone
    <2>1. Passed' = Passed
        BY <1>7, EndOfSweep
    <2>2. UNCHANGED <<marked, stack, alloc>> /\ gc_phase = "sweep"
        BY <1>7 DEF SweepDone, ControlOK
    <2>3. QED BY <2>1, <2>2 DEF QueueOK, Kept, Grey
<1>8. ASSUME NEW from \in BOOLEAN, gc(from) PROVE QueueOK'
    <2>1. Passed' = Passed
        BY <1>8, StartOfIncrement
    <2>2. QED BY <1>8, <2>1, <1>0 DEF gc
<1>10. CASE Malloc
    <2>1. PICK o \in Obj \ alloc : alloc' = alloc \union {o} /\ marked' = marked \ {o}
        BY <1>10 DEF Malloc
    <2>2. /\ marked' = marked /\ stack' = stack /\ gc_phase' = gc_phase
          /\ Cursor' = Cursor
        BY <1>10, <2>1 DEF Malloc, QueueOK, Cursor
    <2>3. Passed \subseteq Passed' /\ Passed' \subseteq Passed \union {o}
        BY <2>1, <2>2 DEF Passed
    <2>4. QED BY <2>1, <2>2, <2>3 DEF QueueOK, Kept, Grey
<1>11. CASE MallocAgain
    <2>1. Passed' = Passed
        BY <1>11, PassedStays DEF MallocAgain, Cursor
    <2>2. QED BY <1>11, <2>1, <1>0 DEF MallocAgain
<1>12. ASSUME NEW o \in Held, NEW f \in Field, Clear(o, f) PROVE QueueOK'
    <2>1. Passed' = Passed
        BY <1>12, PassedStays DEF Clear, Cursor
    <2>2. QED BY <1>12, <2>1, <1>0 DEF Clear
<1>13. ASSUME NEW o \in Held, NEW new \in Held, NEW f \in Field, Store(o, f, new)
       PROVE  QueueOK'
    <2>1. Passed' = Passed /\ alloc' = alloc /\ gc_phase' = gc_phase
        BY <1>13, PassedStays DEF Store, Cursor
    <2>2. new \in alloc /\ new \in Obj
        BY HeldAllocated DEF TypeOK
    <2>3. CASE Shade(new)
        BY <2>1, <2>2, <2>3, ShadeFacts DEF QueueOK, Kept
    <2>4. CASE UNCHANGED <<marked, stack>>
        BY <2>1, <2>4, <1>0
    <2>5. QED BY <1>13, <2>3, <2>4 DEF Store, write_barrier
<1>14. ASSUME NEW o \in Held, add_roots(o) PROVE QueueOK'
    <2>1. Passed' = Passed
        BY <1>14, PassedStays DEF add_roots, Cursor
    <2>2. QED BY <1>14, <2>1, <1>0 DEF add_roots
<1>15. CASE UNCHANGED vars
    <2>1. Passed' = Passed
        BY <1>15, PassedStays DEF vars, Cursor
    <2>2. QED BY <1>15, <2>1, <1>0 DEF vars
<1>16. QED
    BY <1>1, <1>2, <1>3, <1>4, <1>5, <1>6, <1>7, <1>8, <1>10, <1>11, <1>12, <1>13, <1>14, <1>15
    DEF Next, Collector, Program, MallocTooLarge, Collect

(* One block stays free: only gc_malloc takes one, and never the last.     *)
LEMMA SomeFreeStep == ASSUME AnyInv, [Next]_vars PROVE SomeFree'
<1>1. CASE Malloc
    BY <1>1 DEF Malloc, SomeFree
<1>2. CASE ~Malloc
    <2>1. alloc' \subseteq alloc
        BY <1>2
        DEF Next, Collector, Program, ScanRoot, RootsDone, MarkEmpty, MarkNext, MarkDone,
            SweepHeap, SweepDone, MallocTooLarge, Collect, gc, MallocAgain, Clear, Store,
            add_roots, vars, heapVars
    <2>2. alloc \subseteq Obj /\ alloc # Obj
        BY DEF AnyInv, TypeOK, SomeFree
    <2>3. QED BY <2>1, <2>2 DEF SomeFree
<1>3. QED BY <1>1, <1>2

(* One step of any program.                                                *)
LEMMA AnyStep == ASSUME AnyInv, [Next]_vars PROVE AnyInv'
BY Typing, QueueStep, SomeFreeStep DEF AnyInv

-----------------------------------------------------------------------------
(* The program starts with no object, no mark and an empty queue.          *)
LEMMA InitInv == ASSUME Init PROVE AnyInv
<1>1. refs \in [Obj -> [Field -> Obj \union {NULL}]]
    BY DEF Init, Blank
<1>2. stack \in Seq(Obj) /\ roots \in Seq(Obj) /\ Len(roots) = 0
    BY DEF Init
<1>3. TypeOK
    <2>1. retry \in BOOLEAN
        BY Zenon DEF Init
    <2>2. /\ gc_phase = "root_scan" /\ pc = "client" /\ local = NULL
          /\ sweeping = 0 /\ i = 0 /\ j = 0 /\ scan_root = 0 /\ alloc = {} /\ marked = {}
        BY DEF Init
    <2>3. QED BY <1>1, <1>2, <2>1, <2>2 DEF TypeOK
<1>4. ControlOK
    BY DEF Init, ControlOK
<1>5. Grey = {} /\ marked = {}
    BY DEF Init, Grey, Elems
<1>6. SomeFree
    BY DEF Init, SomeFree
<1>7. QED BY <1>3, <1>4, <1>5, <1>6 DEF AnyInv, QueueOK, Init

(* AnyInv is an invariant, whatever the program does between two           *)
(* increments, as long as it leaves one block free, which is the guard of  *)
(* Malloc, here and in all that follows (tri-color.c:84-210).              *)
THEOREM Invariance == Spec => []AnyInv
<1>1. Init => AnyInv
    BY InitInv
<1>2. AnyInv /\ [Next]_vars => AnyInv'
    BY AnyStep
<1>3. QED BY <1>1, <1>2, PTL DEF Spec

(* Every variable keeps its type through any sequence of increments and    *)
(* calls of the program (tri-color.c:5-9 and stack.c).                     *)
THEOREM TypeCorrect == Spec => []TypeOK
<1>1. AnyInv => TypeOK
    BY DEF AnyInv
<1>2. QED BY <1>1, Invariance, PTL

(* The queue of grey objects never holds a freed object, whatever pointers *)
(* and roots the program stores between two increments: pop in mark_phase  *)
(* reads the header of a live block (tri-color.c:144-147).                 *)
THEOREM NoFreedGrey == Spec => []GreyAllocated
<1>1. AnyInv => GreyAllocated
    BY DEF AnyInv, QueueOK, GreyAllocated
<1>2. QED BY <1>1, Invariance, PTL

(* A cycle starts with no mark but those whose objects are still queued    *)
(* (tri-color.c:181, 192-195).                                             *)
THEOREM CycleStartsClean == Spec => []NoStaleBlack
<1>1. AnyInv => NoStaleBlack
    BY DEF AnyInv, TypeOK, QueueOK, NoStaleBlack, Passed
<1>2. QED BY <1>1, Invariance, PTL
-----------------------------------------------------------------------------
(***************************************************************************)
(* What the incremental collector guarantees a program that keeps to       *)
(* MayStore and MayRoot: it never frees what the roots reach.  The         *)
(* invariant is CarefulInv; its heart is that the set Kept of the objects  *)
(* that will survive the cycle holds the roots and is closed under         *)
(* pointers outside the mark phase, and that no sweep step changes it.     *)
(***************************************************************************)
USE TriColorAssumption

-----------------------------------------------------------------------------
(* A careful program's step is a program's step: AnyInv holds for it too.  *)
LEMMA CarefulIsNext == ASSUME [CarefulNext]_vars PROVE [Next]_vars
BY DEF CarefulNext, Next

(* AnyInv is an invariant of the careful program (tri-color.c:84-210).     *)
THEOREM CarefulInvariance == CarefulSpec => []AnyInv
<1>1. Init => AnyInv
    BY InitInv
<1>2. AnyInv /\ [CarefulNext]_vars => AnyInv'
    <2>1. [CarefulNext]_vars => [Next]_vars
        BY CarefulIsNext
    <2>2. AnyInv /\ [Next]_vars => AnyInv'
        BY AnyStep
    <2>3. QED BY <2>1, <2>2
<1>3. QED BY <1>1, <1>2, PTL DEF CarefulSpec

-----------------------------------------------------------------------------
(* Which objects are kept, phase by phase.                                 *)
LEMMA KeptFacts ==
    ASSUME AnyInv
    PROVE  /\ Kept \subseteq alloc
           /\ alloc \subseteq Obj
           /\ marked \subseteq Kept
           /\ gc_phase = "root_scan" => Kept = alloc
           /\ gc_phase = "mark" => Kept = marked
<1>1. marked \subseteq alloc /\ alloc \subseteq Obj
    BY DEF AnyInv, TypeOK, QueueOK
<1>2. gc_phase = "root_scan" => Passed = alloc
    BY DEF Passed
<1>3. gc_phase = "mark" => Passed = {}
    BY DEF Passed
<1>4. QED BY <1>1, <1>2, <1>3 DEF Kept, Passed

(* gc_mark({}, S) is the least set: whatever holds S and is closed under   *)
(* pointers holds it.                                                      *)
LEMMA ReachIn ==
    ASSUME NEW S, NEW T, T \subseteq Obj,
           S \cap alloc \subseteq T, \A o \in T : Children(o) \subseteq T
    PROVE  Reach(S) \subseteq T
<1>1. ClosedOver(T, {}, S)
    BY DEF ClosedOver
<1>2. QED BY <1>1 DEF Reach, gc_mark

(* What the roots reach is kept, unless the marks are still on their way.  *)
LEMMA ReachKept ==
    ASSUME AnyInv, CarefulInv
    PROVE  /\ Reach(RootSet) \subseteq alloc
           /\ gc_phase # "mark" => Reach(RootSet) \subseteq Kept
<1>1. Kept \subseteq alloc /\ alloc \subseteq Obj
    BY KeptFacts
<1>2. Reach(RootSet) \subseteq alloc
    BY <1>1, ReachIn DEF Children
<1>3. ASSUME gc_phase # "mark" PROVE Reach(RootSet) \subseteq Kept
    <2>1. \A o \in Kept : Children(o) \subseteq Kept
        BY <1>1, <1>3, TriColorAssumption DEF CarefulInv, PointersKept, Children
    <2>2. RootSet \cap alloc \subseteq Kept
        BY DEF CarefulInv
    <2>3. QED BY <1>1, <2>1, <2>2, ReachIn
<1>4. QED BY <1>2, <1>3

-----------------------------------------------------------------------------
(* CarefulInv is preserved, action by action.                              *)
LEMMA RootScanStep == ASSUME AnyInv, CarefulInv, ScanRoot PROVE CarefulInv'
<1> DEFINE o == roots[j + 1]
<1>1. /\ pc = "roots" /\ pc' = pc /\ gc_phase' = gc_phase /\ j' = j + 1 /\ j \in Nat
      /\ alloc' = alloc /\ refs' = refs /\ roots' = roots
      /\ j + 1 \in 1 .. Len(roots)
      /\ gc_phase \in {"root_scan", "mark"}
    BY DEF ScanRoot, AnyInv, TypeOK, ControlOK, clientVars
<1>2. o \in RootSet /\ o \in Kept /\ o \in Obj
    BY <1>1 DEF RootSet, Elems, CarefulInv, AnyInv, TypeOK
<1>3. Kept \subseteq alloc /\ (gc_phase = "root_scan" => Kept = alloc)
      /\ (gc_phase = "mark" => Kept = marked) /\ marked \subseteq alloc
    BY KeptFacts
<1>4. Passed' = Passed
    BY <1>1, PassedStays DEF Cursor, ScanRoot
<1>5. CASE o \in alloc \ marked
    <2>1. gc_phase = "root_scan" /\ Shade(o)
        BY <1>1, <1>2, <1>3, <1>5 DEF ScanRoot
    <2>2. marked' = marked \union {o} /\ Grey' = Grey \union {o}
        BY <1>2, <2>1, ShadeFacts DEF AnyInv
    <2>3. Kept' = Kept
        BY <1>3, <1>4, <1>5, <2>1, <2>2 DEF Kept
    <2>4. \A k \in 1 .. j' : roots'[k] \in marked'
        BY <1>1, <2>1, <2>2 DEF CarefulInv, ScannedRootsMarked
    <2>5. QED
        BY <1>1, <2>1, <2>3, <2>4
        DEF CarefulInv, ScannedRootsMarked, PointersKept, PointersAllocated, FreeIsBlank,
            NoBlackToWhite, RootSet
<1>6. CASE o \notin alloc \ marked
    <2>1. marked' = marked /\ Grey' = Grey /\ o \in marked
        BY <1>2, <1>3, <1>6 DEF ScanRoot, Grey
    <2>2. Kept' = Kept
        BY <1>4, <2>1 DEF Kept
    <2>3. ScannedRootsMarked'
        BY <1>1, <2>1 DEF CarefulInv, ScannedRootsMarked
    <2>4. QED
        BY <1>1, <2>1, <2>2, <2>3
        DEF CarefulInv, PointersKept, PointersAllocated, FreeIsBlank, NoBlackToWhite,
            RootSet, Children
<1>7. QED BY <1>5, <1>6

(* The roots are scanned: what was kept because nothing is swept between   *)
(* the cycles is kept from now on because it is marked.                    *)
LEMMA RootsDoneStep == ASSUME AnyInv, CarefulInv, RootsDone PROVE CarefulInv'
<1>1. /\ gc_phase \in {"root_scan", "mark"} /\ gc_phase' = "mark"
      /\ alloc' = alloc /\ refs' = refs /\ roots' = roots /\ marked' = marked
      /\ stack' = stack /\ pc = "roots" /\ j = Len(roots)
    BY DEF RootsDone, AnyInv, ControlOK, heapVars, clientVars
<1>2. Kept' = marked
    BY <1>1 DEF Kept, Passed
<1>3. RootSet' \subseteq Kept'
    <2>1. CASE gc_phase = "root_scan"
        BY <1>1, <1>2, <2>1 DEF CarefulInv, ScannedRootsMarked, RootSet, Elems, AnyInv, TypeOK
    <2>2. CASE gc_phase = "mark"
        BY <1>1, <1>2, <2>2, KeptFacts DEF CarefulInv, RootSet
    <2>3. QED BY <1>1, <2>1, <2>2
<1>4. PointersAllocated'
    <2>1. CASE gc_phase = "root_scan"
        BY <1>1, <2>1, KeptFacts DEF CarefulInv, PointersKept, PointersAllocated
    <2>2. CASE gc_phase = "mark"
        BY <1>1, <2>2 DEF CarefulInv, PointersAllocated
    <2>3. QED BY <1>1, <2>1, <2>2
<1>5. NoBlackToWhite'
    <2>1. CASE gc_phase = "root_scan"
        <3>1. marked \subseteq Grey
            BY <2>1, KeptFacts DEF AnyInv, QueueOK, Passed
        <3>2. QED BY <1>1, <3>1 DEF NoBlackToWhite, Grey
    <2>2. CASE gc_phase = "mark"
        BY <1>1, <2>2 DEF CarefulInv, NoBlackToWhite, Grey, Children
    <2>3. QED BY <1>1, <2>1, <2>2
<1>6. ScannedRootsMarked' /\ PointersKept' /\ FreeIsBlank'
    BY <1>1 DEF CarefulInv, ScannedRootsMarked, PointersKept, FreeIsBlank
<1>7. QED BY <1>3, <1>4, <1>5, <1>6 DEF CarefulInv

(* The marking is over with an empty queue: every marked object is black,  *)
(* so the marked objects are closed under pointers.                        *)
LEMMA MarkedIsClosed ==
    ASSUME AnyInv, CarefulInv, gc_phase = "mark", gc_phase' = "sweep", stack = <<>>,
           UNCHANGED <<heapVars, stack, sweeping, clientVars>>, pc' \in {"client", "retry"}
    PROVE  CarefulInv'
<1>1. Kept' = marked /\ Kept = marked /\ marked \subseteq alloc
    BY EndOfMarking, KeptFacts DEF AnyInv
<1>2. alloc' = alloc /\ refs' = refs /\ roots' = roots
    BY DEF heapVars, clientVars
<1>3. Grey = {}
    BY DEF Grey, Elems
<1>4. PointersKept'
    <2>1. ASSUME NEW o \in marked, NEW f \in Field
          PROVE  refs[o][f] \in marked \union {NULL}
        <3>1. refs[o][f] \in alloc \union {NULL}
            BY <1>1 DEF CarefulInv, PointersAllocated
        <3>2. Children(o) \subseteq marked
            BY <1>3 DEF CarefulInv, NoBlackToWhite
        <3>3. QED BY <3>1, <3>2 DEF Children
    <2>2. QED BY <1>1, <1>2, <2>1 DEF PointersKept
<1>5. RootSet' \subseteq Kept'
    BY <1>1, <1>2 DEF CarefulInv, RootSet
<1>6. QED
    BY <1>2, <1>4, <1>5
    DEF CarefulInv, ScannedRootsMarked, PointersAllocated, FreeIsBlank, NoBlackToWhite

(* The iteration of mark_phase that finds the queue empty.                 *)
LEMMA MarkEmptyStep == ASSUME AnyInv, CarefulInv, MarkEmpty PROVE CarefulInv'
<1>1. /\ UNCHANGED <<heapVars, stack, sweeping, clientVars>>
      /\ pc = "mark" /\ gc_phase = "mark" /\ stack = <<>>
    BY DEF MarkEmpty, AnyInv, ControlOK
<1>2. CASE scan_root >= 1
    <2>1. gc_phase' = "sweep" /\ Return
        BY <1>2 DEF MarkEmpty
    <2>2. QED BY <1>1, <2>1, ReturnFacts, MarkedIsClosed DEF AnyInv
<1>3. CASE ~(scan_root >= 1)
    <2>1. gc_phase' = "mark" /\ alloc' = alloc /\ marked' = marked /\ refs' = refs /\ roots' = roots
        BY <1>1, <1>3 DEF MarkEmpty, heapVars, clientVars
    <2>2. Kept' = Kept
        BY <1>1, <2>1 DEF Kept, Passed
    <2>3. QED
        BY <1>1, <2>1, <2>2
        DEF CarefulInv, ScannedRootsMarked, PointersKept, PointersAllocated, FreeIsBlank,
            NoBlackToWhite, RootSet, Grey, Children
<1>4. QED BY <1>2, <1>3

(* The iteration that takes a grey object: it turns black, and what its    *)
(* fields lead to is marked.                                               *)
LEMMA MarkNextStep == ASSUME AnyInv, CarefulInv, MarkNext PROVE CarefulInv'
<1> DEFINE h == Head(stack)
<1>1. /\ pc = "mark" /\ pc' = "mark" /\ gc_phase = "mark" /\ gc_phase' = "mark"
      /\ alloc' = alloc /\ refs' = refs /\ roots' = roots
      /\ stack # <<>> /\ stack' = Tail(stack)
      /\ marked' = gc_mark(marked, Children(h))
    BY DEF MarkNext, AnyInv, ControlOK, clientVars
<1>2. alloc \subseteq Obj /\ marked \in SUBSET alloc
    BY KeptFacts
<1>3. /\ marked \subseteq marked'
      /\ Children(h) \cap alloc \subseteq marked'
      /\ \A o \in marked' \ marked : Children(o) \subseteq marked'
    BY <1>1, <1>2, MarkFacts
<1>4. Grey = {h} \union Grey'
    BY <1>1, ElemsTail DEF Grey, AnyInv, TypeOK
<1>5. NoBlackToWhite'
    <2>1. ASSUME NEW o \in marked' \ Grey' PROVE Children(o) \subseteq marked'
        <3>1. CASE o \notin marked
            BY <1>3, <3>1
        <3>2. CASE o = h
            BY <1>3, <3>2 DEF Children
        <3>3. CASE o \in marked \ Grey
            BY <1>1, <1>3, <3>3 DEF CarefulInv, NoBlackToWhite
        <3>4. QED BY <1>4, <3>1, <3>2, <3>3
    <2>2. QED BY <1>1, <2>1 DEF NoBlackToWhite, Children
<1>6. Kept' = marked' /\ Kept = marked
    BY <1>1 DEF Kept, Passed
<1>7. QED
    BY <1>1, <1>3, <1>5, <1>6
    DEF CarefulInv, ScannedRootsMarked, PointersKept, PointersAllocated, FreeIsBlank, RootSet

(* The end of a mark increment.                                            *)
LEMMA MarkDoneStep == ASSUME AnyInv, CarefulInv, MarkDone PROVE CarefulInv'
<1>1. /\ UNCHANGED <<heapVars, stack, sweeping, clientVars>>
      /\ pc = "mark" /\ gc_phase = "mark" /\ Return
    BY DEF MarkDone, AnyInv, ControlOK
<1>2. pc' \in {"client", "retry"}
    BY <1>1, ReturnFacts DEF AnyInv
<1>3. CASE MarkedAll
    <2>1. gc_phase' = "sweep" /\ stack = <<>>
        BY <1>3 DEF MarkDone, MarkedAll
    <2>2. QED BY <1>1, <1>2, <2>1, MarkedIsClosed
<1>4. CASE ~MarkedAll
    <2>1. gc_phase' = "mark" /\ alloc' = alloc /\ marked' = marked /\ refs' = refs /\ roots' = roots
        BY <1>1, <1>4 DEF MarkDone, heapVars, clientVars
    <2>2. Kept' = Kept
        BY <1>1, <2>1 DEF Kept, Passed
    <2>3. QED
        BY <1>1, <1>2, <2>1, <2>2
        DEF CarefulInv, ScannedRootsMarked, PointersKept, PointersAllocated, FreeIsBlank,
            NoBlackToWhite, RootSet, Grey, Children
<1>5. QED BY <1>3, <1>4

(* Freed is only what is not kept.                                         *)
LEMMA SweepHeapStep == ASSUME AnyInv, CarefulInv, SweepHeap PROVE CarefulInv'
<1> DEFINE dead == {o \in alloc : HeapOf[o] = i} \ marked
<1>1. /\ gc_phase = "sweep" /\ gc_phase' = "sweep" /\ roots' = roots /\ pc' = "sweep"
      /\ alloc' = alloc \ dead
      /\ refs' = [o \in Obj |-> IF o \in dead THEN Blank ELSE refs[o]]
    BY DEF SweepHeap, AnyInv, ControlOK, cycleVars, clientVars
<1>2. Kept' = Kept /\ Kept \subseteq alloc'
    BY SweepKeeps
<1>3. alloc \subseteq Obj
    BY KeptFacts
<1>4. \A o \in Kept : refs'[o] = refs[o]
    BY <1>1, <1>2, <1>3
<1>5. PointersKept'
    BY <1>1, <1>2, <1>4 DEF CarefulInv, PointersKept
<1>6. FreeIsBlank'
    <2>1. ASSUME NEW o \in Obj \ alloc' PROVE refs'[o] = Blank
        BY <1>1, <2>1 DEF CarefulInv, FreeIsBlank
    <2>2. Blank' = Blank
        BY DEF Blank
    <2>3. QED BY <2>1, <2>2 DEF FreeIsBlank
<1>7. QED
    BY <1>1, <1>2, <1>5, <1>6
    DEF CarefulInv, ScannedRootsMarked, PointersAllocated, NoBlackToWhite, RootSet

(* Steps that move neither marks nor memory nor roots.                     *)
LEMMA ControlStep ==
    ASSUME CarefulInv, UNCHANGED <<heapVars, stack, clientVars>>, Passed' = Passed,
           gc_phase' = gc_phase \/ (gc_phase' # "mark" /\ gc_phase # "mark"),
           pc' # "roots" \/ j' = 0
    PROVE  CarefulInv'
<1>1. /\ alloc' = alloc /\ marked' = marked /\ refs' = refs /\ roots' = roots
      /\ Kept' = Kept
    BY DEF heapVars, clientVars, Kept
<1>2. ScannedRootsMarked'
    BY DEF ScannedRootsMarked
<1>3. QED
    BY <1>1, <1>2
    DEF CarefulInv, PointersKept, PointersAllocated, FreeIsBlank, NoBlackToWhite,
        RootSet, Grey, Children

(* The end of a sweep increment.                                           *)
LEMMA SweepDoneStep == ASSUME AnyInv, CarefulInv, SweepDone PROVE CarefulInv'
<1>1. /\ UNCHANGED <<heapVars, stack, clientVars>> /\ Return /\ gc_phase = "sweep"
      /\ gc_phase' = "root_scan" \/ gc_phase' = gc_phase
    BY DEF SweepDone, AnyInv, ControlOK
<1>2. pc' # "roots"
    BY <1>1, ReturnFacts DEF AnyInv
<1>3. Passed' = Passed
    BY EndOfSweep DEF AnyInv
<1>4. QED BY <1>1, <1>2, <1>3, ControlStep

(* The call of gc().                                                       *)
LEMMA IncrementStep ==
    ASSUME AnyInv, CarefulInv, NEW from \in BOOLEAN, gc(from) PROVE CarefulInv'
<1>1. Passed' = Passed
    BY StartOfIncrement DEF AnyInv
<1>2. UNCHANGED <<heapVars, stack, clientVars>> /\ gc_phase' = gc_phase /\ j' = 0
    BY DEF gc, cycleVars
<1>3. QED BY <1>1, <1>2, ControlStep

(* A new object is blank and nothing points at it, so it may be kept.      *)
LEMMA MallocStep == ASSUME AnyInv, CarefulInv, Malloc PROVE CarefulInv'
<1>0. Cursor' = Cursor /\ pc' # "roots"
    BY DEF Cursor, Malloc, loopVars, cycleVars
<1>1. PICK o \in Obj \ alloc : alloc' = alloc \union {o} /\ marked' = marked \ {o}
    BY DEF Malloc
<1>2. /\ Kept \subseteq alloc /\ marked \subseteq alloc
      /\ gc_phase = "mark" => Kept = marked
    BY KeptFacts
<1>3. marked' = marked /\ refs' = refs /\ gc_phase' = gc_phase /\ stack' = stack /\ roots' = roots
    BY <1>1, <1>2 DEF Malloc, cycleVars
<1>4. Kept \subseteq Kept' /\ Kept' \subseteq Kept \union {o}
    BY <1>0, <1>1, <1>3 DEF Kept, Passed
<1>5. \A f \in Field : refs[o][f] = NULL
    BY <1>1 DEF CarefulInv, FreeIsBlank, Blank
<1>6. PointersKept'
    BY <1>3, <1>4, <1>5 DEF CarefulInv, PointersKept
<1>7. PointersAllocated'
    BY <1>1, <1>3, <1>5 DEF CarefulInv, PointersAllocated
<1>8. NoBlackToWhite'
    <2>1. ASSUME gc_phase = "mark", NEW x \in marked \ Grey PROVE Children(x)' \subseteq marked
        <3>1. \A f \in Field : refs[x][f] \in alloc \union {NULL}
            BY <1>2, <2>1 DEF CarefulInv, PointersAllocated
        <3>2. Children(x)' = Children(x)
            BY <1>1, <1>3, <3>1, TriColorAssumption DEF Children
        <3>3. QED BY <2>1, <3>2 DEF CarefulInv, NoBlackToWhite
    <2>2. QED BY <1>3, <2>1 DEF NoBlackToWhite, Grey, Children
<1>9. FreeIsBlank'
    BY <1>1, <1>3 DEF CarefulInv, FreeIsBlank, Blank
<1>10. QED
    BY <1>0, <1>3, <1>4, <1>6, <1>7, <1>8, <1>9 DEF CarefulInv, ScannedRootsMarked, RootSet

(* gc_malloc after its increment.                                          *)
LEMMA MallocAgainStep == ASSUME AnyInv, CarefulInv, MallocAgain PROVE CarefulInv'
<1>1. /\ alloc' = alloc /\ marked' = marked /\ refs' = refs /\ roots' = roots
      /\ stack' = stack /\ gc_phase' = gc_phase /\ pc' = "client" /\ Cursor' = Cursor
    BY DEF MallocAgain, Cursor, heapVars, cycleVars
<1>2. Kept' = Kept
    BY <1>1, PassedStays DEF Kept
<1>3. QED
    BY <1>1, <1>2
    DEF CarefulInv, ScannedRootsMarked, PointersKept, PointersAllocated, FreeIsBlank,
        NoBlackToWhite, RootSet, Grey, Children

(* The program forgets a pointer.                                          *)
LEMMA ClearStep ==
    ASSUME AnyInv, CarefulInv, NEW x \in Held, NEW f \in Field, Clear(x, f)
    PROVE  CarefulInv'
<1>1. /\ alloc' = alloc /\ marked' = marked /\ roots' = roots /\ stack' = stack
      /\ gc_phase' = gc_phase /\ pc' = "client" /\ pc = "client"
      /\ refs' = [refs EXCEPT ![x][f] = NULL]
    BY DEF Clear, cycleVars, clientVars, loopVars
<1>2. Kept' = Kept
    BY <1>1, PassedStays DEF Kept, Cursor, Clear, cycleVars, loopVars
<1>3. x \in alloc
    BY HeldAllocated DEF AnyInv
<1>4. \A o \in Obj, g \in Field : refs'[o][g] = refs[o][g] \/ refs'[o][g] = NULL
    BY <1>1 DEF AnyInv, TypeOK
<1>5. alloc \subseteq Obj /\ Kept \subseteq alloc /\ marked \subseteq alloc
    BY KeptFacts
<1>6. PointersKept' /\ PointersAllocated'
    BY <1>1, <1>2, <1>4, <1>5 DEF CarefulInv, PointersKept, PointersAllocated
<1>7. FreeIsBlank'
    BY <1>1, <1>3 DEF CarefulInv, FreeIsBlank, Blank, AnyInv, TypeOK
<1>8. \A o \in alloc : Children(o)' \subseteq Children(o)
    BY <1>1, <1>4, <1>5, TriColorAssumption DEF Children
<1>9. NoBlackToWhite'
    BY <1>1, <1>5, <1>8 DEF CarefulInv, NoBlackToWhite, Grey, Children
<1>10. QED
    BY <1>1, <1>2, <1>6, <1>7, <1>9 DEF CarefulInv, ScannedRootsMarked, RootSet

(* The write barrier and MayStore keep the kept objects closed.            *)
LEMMA StoreStep ==
    ASSUME AnyInv, CarefulInv, NEW x \in Held, NEW new \in Held, NEW f \in Field,
           MayStore(x, new), Store(x, f, new)
    PROVE  CarefulInv'
<1>1. /\ alloc' = alloc /\ roots' = roots /\ gc_phase' = gc_phase
      /\ pc' = "client" /\ pc = "client"
      /\ refs' = [refs EXCEPT ![x][f] = new]
    BY DEF Store, write_barrier, clientVars, loopVars
<1>2. x \in alloc /\ new \in alloc
    BY HeldAllocated DEF AnyInv
<1>3. /\ alloc \subseteq Obj /\ Kept \subseteq alloc /\ marked \subseteq alloc
      /\ marked \subseteq Kept
      /\ gc_phase = "mark" => Kept = marked
    BY KeptFacts
<1>4. marked' \subseteq marked \union {new} /\ marked \subseteq marked'
      /\ (x \in marked => new \in marked')
      /\ (new \in marked' \ marked => new \in Grey')
      /\ Grey \subseteq Grey'
    <2>1. CASE x \in marked /\ new \notin marked
        <3>1. marked' = marked \union {new} /\ Grey' = Grey \union {new}
            BY <1>2, <1>3, <2>1, ShadeFacts DEF Store, write_barrier, AnyInv
        <3>2. QED BY <3>1
    <2>2. CASE ~(x \in marked /\ new \notin marked)
        BY <2>2 DEF Store, write_barrier, Grey
    <2>3. QED BY <2>1, <2>2
<1>5. Passed' = Passed
    BY <1>1, PassedStays DEF Cursor, Store, loopVars
<1>6. Kept \subseteq Kept' /\ Kept' \subseteq Kept \union {new}
    BY <1>4, <1>5 DEF Kept
<1>7. /\ \A o \in Obj, g \in Field : refs'[o][g] = refs[o][g] \/ (o = x /\ refs'[o][g] = new)
    BY <1>1 DEF AnyInv, TypeOK
<1>8. ASSUME gc_phase # "mark" PROVE new \in Kept' /\ (new \in Kept \/ (new # x /\ refs[new] = Blank))
    <2>1. CASE new \in Kept
        BY <1>6, <2>1
    <2>2. CASE x \in marked /\ refs[new] = Blank
        BY <1>3, <1>4, <1>5, <2>2 DEF Kept
    <2>3. QED BY <1>8, <2>1, <2>2 DEF MayStore
<1>9. PointersKept'
    <2>1. ASSUME gc_phase # "mark", NEW o \in Kept', NEW g \in Field
          PROVE  refs'[o][g] \in Kept' \union {NULL}
        <3>1. CASE refs'[o][g] = new
            BY <1>8, <2>1, <3>1
        <3>2. CASE refs'[o][g] = refs[o][g] /\ o \in Kept
            BY <1>6, <2>1, <3>2 DEF CarefulInv, PointersKept
        <3>3. CASE refs'[o][g] = refs[o][g] /\ o \notin Kept
            BY <1>6, <1>8, <2>1, <3>3 DEF Blank
        <3>4. o \in Obj
            BY <1>2, <1>3, <1>6
        <3>5. QED BY <1>7, <3>1, <3>2, <3>3, <3>4
    <2>2. QED BY <1>1, <2>1 DEF PointersKept
<1>10. PointersAllocated'
    BY <1>1, <1>2, <1>3, <1>7 DEF CarefulInv, PointersAllocated
<1>11. NoBlackToWhite'
    <2>1. ASSUME gc_phase = "mark", NEW o \in marked' \ Grey', NEW c \in Children(o)'
          PROVE  c \in marked'
        <3>1. o \in marked \ Grey /\ o \in alloc /\ o \in Obj
            BY <1>3, <1>4, <2>1
        <3>2. PICK g \in Field : c = refs'[o][g] /\ c \in alloc
            BY <1>1, <2>1 DEF Children
        <3>3. CASE c = refs[o][g]
            BY <1>4, <2>1, <3>1, <3>2, <3>3 DEF CarefulInv, NoBlackToWhite, Children
        <3>4. CASE o = x /\ c = new
            BY <1>4, <3>1, <3>4
        <3>5. QED BY <1>7, <3>1, <3>2, <3>3, <3>4
    <2>2. QED BY <1>1, <2>1 DEF NoBlackToWhite
<1>12. FreeIsBlank'
    BY <1>1, <1>2 DEF CarefulInv, FreeIsBlank, Blank, AnyInv, TypeOK
<1>13. QED
    BY <1>1, <1>6, <1>9, <1>10, <1>11, <1>12 DEF CarefulInv, ScannedRootsMarked, RootSet

(* A kept object becomes a root.                                           *)
LEMMA AddRootStep ==
    ASSUME AnyInv, CarefulInv, NEW o \in Held, MayRoot(o), add_roots(o) PROVE CarefulInv'
<1>1. /\ alloc' = alloc /\ marked' = marked /\ refs' = refs /\ stack' = stack
      /\ gc_phase' = gc_phase /\ pc' = "client" /\ roots' = Append(roots, o)
    BY DEF add_roots, heapVars, cycleVars, loopVars
<1>2. Kept' = Kept
    BY <1>1, PassedStays DEF Kept, Cursor, add_roots, cycleVars, loopVars
<1>3. RootSet' = RootSet \union {o}
    <2>1. o \in Obj
        BY HeldAllocated DEF AnyInv, TypeOK
    <2>2. QED BY <1>1, <2>1, ElemsAppend DEF RootSet, AnyInv, TypeOK
<1>4. RootSet' \subseteq Kept'
    BY <1>2, <1>3 DEF CarefulInv, MayRoot
<1>5. QED
    BY <1>1, <1>2, <1>4
    DEF CarefulInv, ScannedRootsMarked, PointersKept, PointersAllocated, FreeIsBlank,
        NoBlackToWhite, Grey, Children

(* The actions together.                                                   *)
LEMMA CarefulStep == ASSUME AnyInv, CarefulInv, [CarefulNext]_vars PROVE CarefulInv'
<1>1. CASE UNCHANGED vars
    <2>1. /\ alloc' = alloc /\ marked' = marked /\ refs' = refs /\ roots' = roots
          /\ stack' = stack /\ gc_phase' = gc_phase /\ pc' = pc /\ j' = j
        BY <1>1 DEF vars, heapVars, cycleVars, clientVars, loopVars
    <2>2. Kept' = Kept
        BY <1>1, PassedStays DEF Kept, Cursor, vars, heapVars, cycleVars, loopVars
    <2>3. QED
        BY <2>1, <2>2
        DEF CarefulInv, ScannedRootsMarked, PointersKept, PointersAllocated, FreeIsBlank,
            NoBlackToWhite, RootSet, Grey, Children
<1>2. CASE Collector
    BY <1>2, RootScanStep, RootsDoneStep, MarkEmptyStep, MarkNextStep, MarkDoneStep,
       SweepHeapStep, SweepDoneStep DEF Collector
<1>3. CASE Program
    BY <1>3, MallocStep, MallocAgainStep, IncrementStep, ClearStep
    DEF Program, MallocTooLarge, Collect
<1>4. QED
    BY <1>1, <1>2, <1>3, StoreStep, AddRootStep DEF CarefulNext

-----------------------------------------------------------------------------
(* CarefulInv is an invariant of the careful program: the marks, the       *)
(* barrier and the sweep cursor together keep what the roots reach (tri-   *)
(* color.c:84-196).                                                        *)
THEOREM CarefulInvariants == CarefulSpec => [](AnyInv /\ CarefulInv)
<1>1. Init => CarefulInv
    BY DEF Init, CarefulInv, ScannedRootsMarked, PointersKept, PointersAllocated,
           FreeIsBlank, NoBlackToWhite, RootSet, Elems, Kept, Passed, Children
<1>2. AnyInv /\ CarefulInv /\ [CarefulNext]_vars => CarefulInv'
    BY CarefulStep
<1>3. QED BY <1>1, <1>2, CarefulInvariance, PTL DEF CarefulSpec

(* The invariant of the write barrier (tri-color.c:77-99): while marking,  *)
(* no black object points at a white one.                                  *)
THEOREM BarrierInvariant == CarefulSpec => []NoBlackToWhite
<1>1. CarefulInv => NoBlackToWhite
    BY DEF CarefulInv
<1>2. QED BY <1>1, CarefulInvariants, PTL

(* The collector leaves no pointer to freed memory in what the roots       *)
(* reach, nor in the roots (tri-color.c:126-196).                          *)
THEOREM NoDangling == CarefulSpec => []NoDanglingPointer
<1>1. AnyInv /\ CarefulInv => NoDanglingPointer
    <2> SUFFICES ASSUME AnyInv, CarefulInv PROVE NoDanglingPointer
        OBVIOUS
    <2>1. Kept \subseteq alloc
        BY KeptFacts
    <2>2. RootSet \subseteq alloc
        BY <2>1 DEF CarefulInv
    <2>3. ASSUME NEW o \in Reach(RootSet), NEW f \in Field
          PROVE  refs[o][f] \in alloc \union {NULL}
        <3>1. CASE gc_phase = "mark"
            BY <3>1, ReachKept DEF CarefulInv, PointersAllocated
        <3>2. CASE gc_phase # "mark"
            BY <2>1, <3>2, ReachKept DEF CarefulInv, PointersKept
        <3>3. QED BY <3>1, <3>2
    <2>4. QED BY <2>2, <2>3 DEF NoDanglingPointer
<1>2. QED BY <1>1, CarefulInvariants, PTL

(* No step of the program or the collector frees an object the roots       *)
(* reach: only the sweep frees (tri-color.c:184), and it frees nothing     *)
(* that is kept.                                                           *)
THEOREM ReachableStays == CarefulSpec => NeverFreesReachable
<1>1. ASSUME AnyInv, CarefulInv, [CarefulNext]_vars PROVE Reach(RootSet) \subseteq alloc'
    <2>1. CASE SweepHeap
        <3>1. Kept \subseteq alloc' /\ gc_phase = "sweep"
            BY <1>1, <2>1, SweepKeeps DEF SweepHeap, AnyInv, ControlOK
        <3>2. QED BY <1>1, <3>1, ReachKept
    <2>2. CASE ~SweepHeap
        <3>1. alloc \subseteq alloc'
            BY <1>1, <2>2
            DEF CarefulNext, Collector, Program, ScanRoot, RootsDone, MarkEmpty, MarkNext,
                MarkDone, SweepDone, Malloc, MallocTooLarge, Collect, gc, MallocAgain, Clear,
                Store, add_roots, vars, heapVars
        <3>2. QED BY <1>1, <3>1, ReachKept
    <2>3. QED BY <2>1, <2>2
<1>2. AnyInv /\ CarefulInv /\ [CarefulNext]_vars
        => [\A o \in alloc \ alloc' : o \notin Reach(RootSet)]_vars
    BY <1>1
<1>3. QED BY <1>2, CarefulInvariants, PTL DEF CarefulSpec, NeverFreesReachable
=============================================================================

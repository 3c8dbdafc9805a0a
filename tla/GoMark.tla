------------------------------- MODULE GoMark -------------------------------
(***************************************************************************)
(* The mark phase of gc-golang: gcDrain (drain.c), greyobject and          *)
(* findObject (scanstack.c), the mark bits (mark.c) and the work buffers   *)
(* (gc_work.c).  One thread marks: gcStart keeps its gcWork in a local     *)
(* variable and the others wait, so lf_push and lf_pop meet no rival.      *)
(* Memory is addressed by words.  Objects are named by their base address. *)
(* A pointer leads to a word, so that greyobject never throws that it is   *)
(* not aligned (scanstack.c:21).                                           *)
(* GoSpans takes this phase as one step that marks what the program        *)
(* reaches; this module says under which condition it does.                *)
(***************************************************************************)
EXTENDS Integers, FiniteSets, SequencesExt

CONSTANTS
    Spans,      \* the spans in use: [startaddr, elemsize, nelems, noscan]
    BitsPerByte,\* objects that share a byte of gcmarkBits: 8 in the code
    Capacity,   \* _workbufObjsize
    PerSpan,    \* buffers cut from one span: workbufAlloc / _WorkbufSize
    MaxSpans,   \* spans the page heap has for buffers
    MaxStack,   \* words on the stack of the collecting thread
    MaxOps      \* operations of the program

NULL  == 0
NOBUF == 0
Limit(s) == s.startaddr + s.elemsize * s.nelems
Addr  == UNION {s.startaddr .. Limit(s) - 1 : s \in Spans}
Buffer == 1 .. PerSpan * MaxSpans

ASSUME MarkAssumption ==
    /\ IsFiniteSet(Spans)
    /\ Spans \subseteq [startaddr : Nat, elemsize : Nat \ {0}, nelems : Nat, noscan : BOOLEAN]
    /\ {BitsPerByte, Capacity, PerSpan, MaxSpans} \subseteq Nat \ {0}
    /\ NULL \notin Addr
    /\ \A s, t \in Spans : s # t => Limit(s) <= t.startaddr \/ Limit(t) <= s.startaddr

(* findObject masks the offset in a span whose size is a power of two; the *)
(* other branch is right for the first object of a span only (the shifts   *)
(* of scanstack.c:87 bind the wrong way round).                            *)
ASSUME SizesAssumption ==
    \A s \in Spans : s.nelems <= 1 \/ \E k \in 0 .. s.elemsize : s.elemsize = 2 ^ k

VARIABLES
    word,       \* what the program stored at each address
    stack,      \* the words between the stack pointer and stk_start
    alloc,      \* the allocated objects: allocBits and freeindex
    marks,      \* the objects whose bit is set in gcmarkBits
    scanned,    \* history: the objects gcDrain has scanned in this cycle
    todo,       \* the pointers the present scan has not come to yet
    w,          \* work and gcw: [obj, empty, full, wbuf1, wbuf2, nspans, ok]
    pc,         \* "program", "drain", "done" or "throw"
    ops
vars == <<word, stack, alloc, marks, scanned, todo, w, pc, ops>>

(* Spans and objects.                                                      *)
Table(f) == CHOOSE t \in {f} : t = f      \* f itself, which TLC then computes once
ObjectAt(s, i) == s.startaddr + i * s.elemsize
SpanOf == Table([p \in Addr |-> CHOOSE s \in Spans : p \in s.startaddr .. Limit(s) - 1])
Index  == Table([p \in Addr |-> (p - SpanOf[p].startaddr) \div SpanOf[p].elemsize])
BaseOf == Table([p \in Addr |-> ObjectAt(SpanOf[p], Index[p])])
findObject(p) == IF p \in Addr THEN BaseOf[p] ELSE NULL
Object == {BaseOf[p] : p \in Addr}
Words  == Table([o \in Object |-> {p \in Addr : BaseOf[p] = o}])
Scannable == {o \in Object : ~SpanOf[o].noscan}

(* The object whose bit is bit 0 of the byte of o's bit.                   *)
FirstOfByte == Table([o \in Object |-> ObjectAt(SpanOf[o], (Index[o] \div BitsPerByte) * BitsPerByte)])

(* The work buffers.  A list is a sequence whose head is on top.           *)
lf_push(list, b) == <<b>> \o list
lf_pop(list) == IF list = <<>> THEN <<>> ELSE Tail(list)
NoWork == [obj |-> [b \in Buffer |-> <<>>], empty |-> <<>>, full |-> <<>>,
           wbuf1 |-> NOBUF, wbuf2 |-> NOBUF, nspans |-> 0, ok |-> TRUE]

(* A buffer popped from work.empty is bound to an inner b and forgotten:   *)
(* every call takes a new span, returns its first buffer, pushes the rest. *)
Granted(g) == g.nspans * PerSpan + 1
OthersOf(n) == [i \in 1 .. PerSpan - 1 |-> (n + 1) * PerSpan + 1 - i]
getempty(g) ==
    [g EXCEPT !.ok = @ /\ g.nspans < MaxSpans
                       /\ (g.empty # <<>> => g.obj[Head(g.empty)] = <<>>),
              !.nspans = IF @ < MaxSpans THEN @ + 1 ELSE @,
              !.empty  = IF g.nspans < MaxSpans THEN OthersOf(g.nspans) \o lf_pop(@) ELSE @]

(* trygetfull, whose callers keep the head of the list.                    *)
TakeFull(g) == [g EXCEPT !.ok = @ /\ g.obj[Head(g.full)] # <<>>, !.full = lf_pop(@)]

gcwork_init(g) ==
    LET one == [getempty(g) EXCEPT !.wbuf1 = Granted(g)]
    IN IF one.full # <<>> THEN [TakeFull(one) EXCEPT !.wbuf2 = Head(one.full)]
       ELSE [getempty(one) EXCEPT !.wbuf2 = Granted(one)]

Swap(g) == [g EXCEPT !.wbuf1 = g.wbuf2, !.wbuf2 = g.wbuf1]
IsFull(g, b)  == Len(g.obj[b]) = Capacity
IsEmpty(g, b) == g.obj[b] = <<>>
Append1(g, p) == IF g.ok THEN [g EXCEPT !.obj[g.wbuf1] = Append(@, p)] ELSE g

FlushKept(g) == [g EXCEPT !.full = lf_push(@, g.wbuf1)]
Flush(g) == [getempty(g) EXCEPT !.full = lf_push(@, g.wbuf1), !.wbuf1 = Granted(g)]

(* gcwork_putFast, then gcwork_put.                                        *)
gcwork_put(g, p) ==
    IF ~IsFull(g, g.wbuf1) THEN Append1(g, p)
    ELSE LET s == Swap(g)
         IN Append1(IF IsFull(s, s.wbuf1) THEN Flush(s) ELSE s, p)

(* The buffers gcwork_tryGet makes ready: wbuf1 is empty only if there is  *)
(* no work.                                                                *)
RefillFrom(g) ==
    IF g.full = <<>> THEN g
    ELSE [TakeFull(g) EXCEPT !.empty = lf_push(@, g.wbuf1), !.wbuf1 = Head(g.full)]
Unswapped(g) == IF IsEmpty(g, g.wbuf1) THEN RefillFrom(g) ELSE g
gcwork_tryGet(g) ==
    IF ~IsEmpty(g, g.wbuf1) THEN g
    ELSE LET s == Swap(g) IN IF IsEmpty(s, s.wbuf1) THEN RefillFrom(s) ELSE s

(* What a scan comes across.  The stack scan greys an object's base, the   *)
(* scan of an object the pointer as it is found.                           *)
Read(a) == IF a \in Addr THEN word[a] ELSE NULL
Pointers(s) ==
    LET found[n \in 0 .. Len(s)] ==
            IF n = 0 THEN <<>>
            ELSE found[n - 1] \o IF findObject(s[n]) = NULL THEN <<>> ELSE <<s[n]>>
    IN found[Len(s)]
StackScan == [i \in DOMAIN stack |-> findObject(stack[i])]

ScanFromPointer(p) == [i \in 1 .. SpanOf[p].elemsize |-> Read(p + i - 1)]
(* From the base to the pointer's place plus the size: past the object, if *)
(* the pointer leads to its inside.                                        *)
ScanRange(p) == [i \in 1 .. p - BaseOf[p] + SpanOf[p].elemsize |-> Read(BaseOf[p] + i - 1)]

Init ==
    /\ word = [a \in Addr |-> NULL] /\ stack = <<>> /\ alloc = {}
    /\ marks = {} /\ scanned = {} /\ todo = <<>>
    /\ w = NoWork /\ pc = "program" /\ ops = 0

(***************************************************************************)
(* The program, which runs between two collections.                        *)
(***************************************************************************)
ObjectsIn(S) == {findObject(p) : p \in S} \ {NULL}
Links(o) == {o} \cup IF o \in Scannable
                     THEN ObjectsIn({word[a] : a \in Words[o]}) ELSE {}
Reachable ==
    LET reach[n \in 0 .. Cardinality(Object)] ==
            IF n = 0 THEN ObjectsIn(ToSet(stack)) ELSE UNION {Links(o) : o \in reach[n - 1]}
    IN reach[Cardinality(Object)]

Operates == /\ pc = "program" /\ ops < MaxOps /\ Reachable \subseteq alloc
            /\ ops' = ops + 1
            /\ UNCHANGED <<marks, scanned, todo, w, pc>>

(* The first free object of a span, zeroed; the program keeps it in a new  *)
(* local variable or stores it in an object at once.                       *)
FreeIndexes(s) == {i \in 0 .. s.nelems - 1 : ObjectAt(s, i) \notin alloc}
Fields == UNION {Words[o] : o \in Reachable \cap Scannable}
mallocgc == \E s \in {t \in Spans : FreeIndexes(t) # {}} :
    LET o == ObjectAt(s, Min(FreeIndexes(s)))
        zeroed == [a \in Addr |-> IF a \in Words[o] THEN NULL ELSE word[a]]
    IN /\ Operates
       /\ alloc' = alloc \cup {o}
       /\ \/ Len(stack) < MaxStack /\ stack' = Append(stack, o) /\ word' = zeroed
          \/ \E a \in Fields : word' = [zeroed EXCEPT ![a] = o] /\ UNCHANGED stack

(* A function returns: the program forgets a local variable.               *)
Forget == \E i \in 1 .. Len(stack) :
    Operates /\ stack' = RemoveAt(stack, i) /\ UNCHANGED <<word, alloc>>

(* A pointer may lead to the inside of an object.                          *)
Store == \E a \in Fields, o \in Reachable : \E p \in Words[o] :
    Operates /\ word' = [word EXCEPT ![a] = p] /\ UNCHANGED <<stack, alloc>>

Program == mallocgc \/ Forget \/ Store

(***************************************************************************)
(* The collection.                                                         *)
(***************************************************************************)
gcStart ==
    /\ pc = "program" /\ stack # <<>>
    /\ w' = gcwork_init(w)
    /\ pc' = IF w'.ok THEN "drain" ELSE "throw"
    /\ todo' = StackScan
    /\ UNCHANGED <<word, stack, alloc, marks, scanned, ops>>

NeverMarked(o) == FALSE
(* `*mbits.bytep & mbits.mask != 0` is `*mbits.bytep & 1`.                  *)
MarkedAlready(o) == FirstOfByte[o] \in marks

(* One word of a scan that findObject accepts.                             *)
greyobject ==
    /\ pc = "drain" /\ todo # <<>> /\ todo' = Tail(todo)
    /\ LET o == findObject(Head(todo))
           marking == o \in alloc /\ ~MarkedAlready(o)
       IN /\ marks' = IF marking THEN marks \cup {o} ELSE marks
          /\ w' = IF marking /\ o \in Scannable THEN gcwork_put(w, Head(todo)) ELSE w
          /\ pc' = IF o \in alloc /\ w'.ok THEN "drain" ELSE "throw"
    /\ UNCHANGED <<word, stack, alloc, scanned, ops>>

gcDrain ==
    /\ pc = "drain" /\ todo = <<>>
    /\ LET g == gcwork_tryGet(w)
           p == Last(g.obj[g.wbuf1])
       IN IF IsEmpty(g, g.wbuf1)
          THEN w' = g /\ pc' = "done" /\ UNCHANGED <<todo, scanned>>
          ELSE /\ w' = [g EXCEPT !.obj[g.wbuf1] = Front(@)]
               /\ todo' = Pointers(ScanRange(p))
               /\ scanned' = scanned \cup {BaseOf[p]}
               /\ pc' = IF g.ok THEN "drain" ELSE "throw"
    /\ UNCHANGED <<word, stack, alloc, marks, ops>>

(* gcMarkDone and the sweep: the mark bits become the allocation bits.     *)
(* The gcWork of gcStart goes out of scope with its two buffers.           *)
Sweep ==
    /\ pc = "done" /\ pc' = "program"
    /\ alloc' = alloc \cap marks /\ marks' = {} /\ scanned' = {}
    /\ w' = [w EXCEPT !.wbuf1 = NOBUF, !.wbuf2 = NOBUF]
    /\ UNCHANGED <<word, stack, todo, ops>>

Collector == gcStart \/ greyobject \/ gcDrain \/ Sweep
Next == Program \/ Collector
Spec == Init /\ [][Next]_vars /\ WF_vars(greyobject) /\ WF_vars(gcDrain)

(***************************************************************************)
(* Properties.                                                             *)
(***************************************************************************)
Mine == {w.wbuf1, w.wbuf2} \ {NOBUF}
Queued == UNION {ToSet(w.obj[b]) : b \in Mine \cup ToSet(w.full)}
Marking == pc \in {"drain", "done"}

(* A work buffer is in one place only, on the list of full ones exactly if *)
(* it is full, and on the list of empty ones only without work, although   *)
(* getempty drops a buffer a call; no work is left over from a cycle.      *)
BuffersExact ==
    pc # "throw" =>
        /\ IsInjective(w.empty \o w.full)
        /\ Mine \cap ToSet(w.empty \o w.full) = {}
        /\ Marking => Cardinality(Mine) = 2
        /\ \A b \in ToSet(w.empty) : w.obj[b] = <<>>
        /\ \A b \in ToSet(w.full)  : Len(w.obj[b]) = Capacity
        /\ \A b \in Mine : Len(w.obj[b]) <= Capacity
        /\ pc \in {"program", "done"} => Queued = {} /\ w.full = <<>>

(* No marked object is forgotten between the buffers: it was scanned or is *)
(* queued; and what was scanned points only at objects that are marked, or *)
(* pass for marked because the first object of their mark byte is.         *)
MarkedScanned ==
    Marking =>
        /\ marks \cap Scannable \subseteq scanned \cup ObjectsIn(Queued)
        /\ scanned \subseteq marks
        /\ \A o \in scanned, a \in Addr :
              a \in Words[o] /\ word[a] # NULL /\ word[a] \notin ToSet(todo) =>
                  {findObject(word[a]), FirstOfByte[findObject(word[a])]} \cap marks # {}

(* The program that greyobject's test is right for: of the objects of a    *)
(* mark byte it reaches the first only, or any but the first.              *)
Sparse == \A o \in Reachable : FirstOfByte[o] = o \/ FirstOfByte[o] \notin Reachable
FirstsOnly == \A o \in Reachable : FirstOfByte[o] = o
NoInterior == \A o \in Reachable \cap Scannable : \A a \in Words[o] : word[a] \in Object \cup {NULL}
DrainExact ==
    pc = "done" =>
        /\ Sparse /\ NoInterior => marks = Reachable
        /\ FirstsOnly => Reachable \subseteq marks

(* Without the condition the sweep frees what the program still reaches.   *)
MarkedAll == pc = "done" => Reachable \subseteq marks

(* gcDrain comes to its end if each reached object is the first of its     *)
(* byte: then none is queued twice.                                        *)
DrainEnds ==
    (pc = "drain" /\ FirstsOnly /\ NoInterior) ~> (pc \in {"done", "throw"})
=============================================================================

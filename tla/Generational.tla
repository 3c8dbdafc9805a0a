---------------------------- MODULE Generational ---------------------------
(***************************************************************************)
(* generational: a nursery and two survivor spaces that minor_gc copies    *)
(* between, and an old space that a mark-sweep collects.  Old objects that *)
(* point at young ones are in the remembered set rs.                       *)
(* All objects have one size (the struct T of the tests).  A space takes   *)
(* Room objects and has a rest too small for one more, so that the header  *)
(* the code writes behind the last object stays inside the space.          *)
(* The old space has the free list of gc.c and takes one or two objects:   *)
(* then, in whatever order they are freed, the list is the rest and the    *)
(* free slots, and a request is met by its first block or exactly.  With   *)
(* three the list can be the rest and behind it a block of the two slots   *)
(* before a live third, which gc.c:135 cuts at the end of the rest,        *)
(* outside the space.                                                      *)
(***************************************************************************)
EXTENDS Integers, FiniteSets, SequencesExt

CONSTANTS
    Room,       \* objects in the nursery and in a survivor space
    OldRoom,    \* objects in the old space
    AGE_MAX,
    Field,      \* the words of an object that may hold pointers
    MaxValue,   \* objects the program makes, numbered by their value
    MaxRoots,
    MaxRs       \* length of rs

Space == {"new", "s1", "s2"}
Young == Space \X (1 .. Room)
Old   == {"old"} \X (1 .. OldRoom)
Addr  == Young \cup Old
NULL  == <<"null", 0>>

ASSUME GenerationalAssumption ==
    /\ {Room, OldRoom, AGE_MAX, MaxValue, MaxRoots, MaxRs} \subseteq Nat \ {0}
    /\ IsFiniteSet(Field)
    /\ OldRoom <= 2

VARIABLES
    mem,        \* the object at each address, header and body; EMPTY if none
    new_free,   \* objects in the nursery: new_free_p
    fromg,      \* the survivor space in use: survivorfromg
    to_free,    \* objects in the other one: to_free_p
    roots,      \* roots[i].ptr and the variable *roots[i].optr, equal
    rs,         \* the remembered set: [ptr, header], header if write_barrier
                \* stored the address of the header
    pc,         \* "program", "roots", "update" or "abort"
    todo,       \* locations gc_copy is yet called on, innermost call first
    i,          \* the index of update_reference
    entered,    \* the entry at i has been looked at
    stored,     \* by the program: [name, link], the value each root leads to
                \* and value -> field -> value
    lost        \* "no", "major" or "skipped": the first time something a
                \* root reaches was given up
heapvars == <<mem, new_free, fromg, to_free>>
vars == <<mem, new_free, fromg, to_free, roots, rs, pc, todo, i, entered, stored, lost>>

EMPTY == [value |-> 0, age |-> 0, copied |-> FALSE, remembered |-> FALSE,
          forwarding |-> NULL, field |-> [f \in Field |-> NULL]]
tog == IF fromg = "s1" THEN "s2" ELSE "s1"
FreeOld == {a \in Old : mem[a] = EMPTY}
ValueAt(a) == IF a = NULL THEN 0 ELSE mem[a].value

(* A location holds a pointer: a root, or a field of an object.            *)
RootAt(n) == [root |-> n]
FieldAt(a, f) == [obj |-> a, field |-> f]
IsRoot(loc) == "root" \in DOMAIN loc
At(loc) == IF IsRoot(loc) THEN roots[loc.root] ELSE mem[loc.obj].field[loc.field]
FieldsUnscanned(a) == <<>>
FieldsOf(a) == SetToSeq({FieldAt(a, f) : f \in Field})

Init ==
    /\ mem = [a \in Addr |-> EMPTY] /\ new_free = 0 /\ fromg = "s1" /\ to_free = 0
    /\ roots = <<>> /\ rs = <<>> /\ pc = "program" /\ todo = <<>> /\ i = 1
    /\ entered = FALSE /\ stored = [name |-> <<>>, link |-> <<>>] /\ lost = "no"

Targets(S) == (S \cup {mem[a].field[f] : a \in S, f \in Field}) \ {NULL}

(* What the roots reach, the copies of copied objects included.            *)
Traced(S) == Targets(S) \cup ({mem[a].forwarding : a \in S} \ {NULL})
Reachable ==
    LET reach[n \in 0 .. Cardinality(Addr)] ==
            IF n = 0 THEN ToSet(roots) ELSE Traced(reach[n - 1])
    IN reach[Cardinality(Addr)]

(***************************************************************************)
(* The program.                                                            *)
(***************************************************************************)
Operates == pc = "program" /\ lost = "no"
Outside == <<pc, todo, i, entered, lost, fromg, to_free>>

(* write_barrier(a, f, v).  What is remembered is the address of a's       *)
(* header, not that of its body, as in promote.  NULL is not in the old    *)
(* space either.                                                           *)
OnlyToOld(m, a, v) == a \in Old /\ v \in Old /\ ~m[a].remembered
NeedsEntry(m, a, v) == a \in Old /\ v \notin Old /\ ~m[a].remembered

Assign(m, a, f, v) ==
    /\ Len(rs) < MaxRs
    /\ rs' = IF NeedsEntry(m, a, v) THEN Append(rs, [ptr |-> a, header |-> TRUE]) ELSE rs
    /\ mem' = [m EXCEPT ![a].field[f] = v, ![a].remembered = @ \/ NeedsEntry(m, a, v)]

(* The new object is assigned to a variable that becomes a root, or to a   *)
(* field.  When there is no room the call runs minor_gc first.             *)
minor_malloc ==
    LET new == <<"new", new_free + 1>>
        v   == Len(stored.link) + 1
        m   == [mem EXCEPT ![new] = [EMPTY EXCEPT !.value = v]]
        none == [f \in Field |-> 0]
    IN /\ Operates /\ new_free < Room /\ v <= MaxValue
       /\ new_free' = new_free + 1
       /\ \/ /\ Len(roots) < MaxRoots /\ roots' = Append(roots, new)
             /\ mem' = m /\ UNCHANGED rs
             /\ stored' = [name |-> Append(stored.name, v), link |-> Append(stored.link, none)]
          \/ \E a \in Reachable, f \in Field :
             /\ Assign(m, a, f, new) /\ UNCHANGED roots
             /\ stored' = [stored EXCEPT !.link = Append([@ EXCEPT ![mem[a].value][f] = v], none)]
       /\ UNCHANGED Outside

write_barrier == \E a \in Reachable, f \in Field, v \in Reachable \cup {NULL} :
    /\ Operates /\ v # mem[a].field[f]
    /\ Assign(mem, a, f, v)
    /\ stored' = [stored EXCEPT !.link[mem[a].value][f] = ValueAt(v)]
    /\ UNCHANGED <<new_free, roots, Outside>>

Program == minor_malloc \/ write_barrier

(***************************************************************************)
(* The old generation: gc of mark_sweep.c marks from the remembered set.   *)
(* The address of a header lies in no body, so that get_header finds       *)
(* nothing there.                                                          *)
(***************************************************************************)
Marked ==
    LET mark[n \in 0 .. OldRoom] ==
            IF n = 0 THEN {e.ptr : e \in {d \in ToSet(rs) : ~d.header}}
            ELSE Targets(mark[n - 1]) \cap Old
    IN mark[OldRoom]
Swept == [a \in Addr |-> IF a \in Old \ Marked THEN EMPTY ELSE mem[a]]
LostBy(m) == IF lost = "no" /\ \E a \in Reachable : m[a] = EMPTY THEN "major" ELSE lost

major_gc ==
    /\ Operates /\ mem' = Swept /\ lost' = LostBy(Swept)
    /\ UNCHANGED <<new_free, fromg, to_free, roots, rs, pc, todo, i, entered, stored>>

(***************************************************************************)
(* minor_gc.                                                               *)
(***************************************************************************)
minor_gc ==
    /\ Operates /\ pc' = "roots" /\ to_free' = 0
    /\ todo' = [n \in DOMAIN roots |-> RootAt(n)]
    /\ UNCHANGED <<mem, new_free, fromg, roots, rs, i, entered, stored, lost>>

Loc == Head(todo)
Ptr == At(Loc)
Calls == pc \in {"roots", "update"} /\ todo # <<>>
Write(m, a) ==
    IF IsRoot(Loc) THEN mem' = m /\ roots' = [roots EXCEPT ![Loc.root] = a]
    ELSE mem' = [m EXCEPT ![Loc.obj].field[Loc.field] = a] /\ UNCHANGED roots
CopyFrame == <<new_free, fromg, pc, i, entered, stored>>

(* What is not in a young space is left as it is.                          *)
NotYoung == /\ Calls /\ Ptr \notin Young /\ todo' = Tail(todo)
            /\ UNCHANGED <<mem, to_free, roots, rs, lost, CopyFrame>>

CopiedNever(a) == FALSE
Copied(a) == mem[a].copied

IsCopied == /\ Calls /\ Ptr \in Young /\ Copied(Ptr) /\ todo' = Tail(todo)
            /\ Write(mem, mem[Ptr].forwarding)
            /\ UNCHANGED <<to_free, rs, lost, CopyFrame>>

(* A young object that was not yet copied, by age.                         *)
Fresh == Calls /\ Ptr \in Young /\ ~Copied(Ptr)
gc_copy ==
    LET to == <<tog, to_free + 1>>
        m  == [mem EXCEPT ![to] = [mem[Ptr] EXCEPT !.age = @ + 1],
                          ![Ptr].copied = TRUE, ![Ptr].forwarding = to]
    IN /\ Fresh /\ mem[Ptr].age < AGE_MAX /\ to_free < Room
       /\ to_free' = to_free + 1 /\ Write(m, to)
       /\ todo' = FieldsOf(to) \o Tail(todo)
       /\ UNCHANGED <<rs, lost, CopyFrame>>

(* major_malloc collects the old space when it is full; which free slot is *)
(* first in the list depends on the order in which they were freed.        *)
PointsToYoung(a) == \E f \in Field : mem[a].field[f] \in Young
promote ==
    \E m \in {IF FreeOld = {} THEN Swept ELSE mem} :
    \E new \in {a \in Old : m[a] = EMPTY} :
       /\ Fresh /\ mem[Ptr].age >= AGE_MAX /\ Len(rs) < MaxRs
       /\ Write([m EXCEPT ![new] = mem[Ptr], ![Ptr].copied = TRUE, ![Ptr].forwarding = new], new)
       /\ rs' = IF PointsToYoung(Ptr) THEN Append(rs, [ptr |-> new, header |-> FALSE]) ELSE rs
       /\ todo' = Tail(todo)
       /\ lost' = LostBy(m)
       /\ UNCHANGED <<to_free, CopyFrame>>

(* The to-space or the old space is full, even after a collection.         *)
Abort == /\ Fresh /\ pc' = "abort"
         /\ IF mem[Ptr].age < AGE_MAX THEN to_free = Room ELSE FreeOld = {} /\ Old \subseteq Marked
         /\ UNCHANGED <<heapvars, roots, rs, todo, i, entered, stored, lost>>

RootsDone == /\ pc = "roots" /\ todo = <<>> /\ pc' = "update" /\ i' = 1
             /\ UNCHANGED <<heapvars, roots, rs, todo, entered, stored, lost>>

(* update_reference.  An entry that is the address of a header is read as  *)
(* a body whose size is in the block before it, where it is zero: nothing  *)
(* is scanned and the entry goes.  FL_REMEMBERED is cleared in that block  *)
(* too, at a place where it was not set: the object keeps the flag, and    *)
(* write_barrier will not remember it again.                               *)
Updates == pc = "update" /\ todo = <<>>
Entry == rs[i]
ScanEntry ==
    /\ Updates /\ i <= Len(rs) /\ ~entered /\ entered' = TRUE
    /\ todo' = IF Entry.header THEN <<>> ELSE FieldsOf(Entry.ptr)
    /\ UNCHANGED <<heapvars, roots, rs, pc, i, stored, lost>>

HasNewObj(e) == ~e.header /\ PointsToYoung(e.ptr)
KeepEntry ==
    /\ Updates /\ i <= Len(rs) /\ entered /\ HasNewObj(Entry)
    /\ i' = i + 1 /\ entered' = FALSE
    /\ UNCHANGED <<heapvars, roots, rs, pc, todo, stored, lost>>

(* The last entry takes the place of the one that goes, and the index      *)
(* moves on: it is not looked at in this walk.                             *)
Overlooks == Entry.header \/ (i < Len(rs) /\ PointsToYoung(Last(rs).ptr))
DropEntry ==
    /\ Updates /\ i <= Len(rs) /\ entered /\ ~HasNewObj(Entry)
    /\ rs' = IF i = Len(rs) THEN Front(rs) ELSE [Front(rs) EXCEPT ![i] = Last(rs)]
    /\ mem' = IF Entry.header THEN mem ELSE [mem EXCEPT ![Entry.ptr].remembered = FALSE]
    /\ lost' = IF lost = "no" /\ Overlooks THEN "skipped" ELSE lost
    /\ i' = i + 1 /\ entered' = FALSE
    /\ UNCHANGED <<new_free, fromg, to_free, roots, pc, todo, stored>>

(* The nursery and the survivor space are cleared, the survivors swapped.  *)
Flip ==
    /\ Updates /\ i > Len(rs) /\ pc' = "program"
    /\ mem' = [a \in Addr |-> IF a[1] \in {"new", fromg} THEN EMPTY ELSE mem[a]]
    /\ new_free' = 0 /\ fromg' = tog /\ to_free' = 0 /\ i' = 1
    /\ UNCHANGED <<roots, rs, todo, entered, stored, lost>>

Copying == NotYoung \/ IsCopied \/ gc_copy \/ promote \/ Abort
Updating == ScanEntry \/ KeepEntry \/ DropEntry \/ Flip
Next == Program \/ major_gc \/ minor_gc \/ Copying \/ RootsDone \/ Updating
Spec == Init /\ [][Next]_vars

(***************************************************************************)
(* Properties.                                                             *)
(***************************************************************************)
(* Each root leads to the object it was given, and behind the roots are    *)
(* the links the program made, wherever two generations of copies are.     *)
Faithful ==
    /\ stored.name = [n \in DOMAIN roots |-> ValueAt(roots[n])]
    /\ \A a \in Reachable : mem[a].value # 0
    /\ \A a \in Reachable, f \in Field : ValueAt(mem[a].field[f]) = stored.link[mem[a].value][f]
Resting == pc = "program"

(* Minor collections, promotions and the collections of the old space that *)
(* promotions cause keep what the roots reach, until one of the two losses *)
(* of the code occurs.                                                     *)
ReachableKept == Resting /\ lost = "no" => Faithful

(* Every old object that points to a young one is remembered, once         *)
(* collections and stores are over: else the next minor_gc leaves it a     *)
(* pointer into a cleared space.                                           *)
OldToYoungRemembered ==
    Resting /\ lost = "no" =>
        \A a \in Old : PointsToYoung(a) => \E e \in ToSet(rs) : e.ptr = a

(* An object exists once: shared and cyclic structures are copied once a   *)
(* collection, and promoted objects leave no copy in a survivor space.     *)
OneCopy ==
    Resting /\ lost = "no" =>
        \A a, b \in Addr : mem[a].value # 0 /\ mem[a].value = mem[b].value => a = b

(* update_reference looks at every remembered object.                      *)
AllUpdated == Resting /\ lost # "major" => Faithful
=============================================================================

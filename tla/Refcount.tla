------------------------------ MODULE Refcount ------------------------------
(***************************************************************************)
(* refcount: gc_inc, gc_dec with its recursion, and gc_update, called by   *)
(* threads without a lock as in its test.  `hdr->ref++` is a load and a    *)
(* store; gc_dec reads the count again to compare it with zero.            *)
(* The heap is that of gc.c; here it is the set of allocated objects, and  *)
(* gc_malloc and gc_free are one step each: calls of theirs never overlap. *)
(* Words are read from the second byte of an object on: the first word is  *)
(* no pointer field.                                                       *)
(***************************************************************************)
EXTENDS Integers, FiniteSets, SequencesExt

CONSTANTS
    Obj,
    NOOBJ,
    Slot,       \* the words of an object that may hold pointers
    Thread,
    MaxCalls    \* calls the program makes

ASSUME RefcountAssumption ==
    /\ IsFiniteSet(Obj) /\ IsFiniteSet(Slot) /\ IsFiniteSet(Thread)
    /\ NOOBJ \notin Obj /\ MaxCalls \in Nat

VARIABLES
    ref,        \* hdr->ref
    alloc,      \* FL_ALLOC
    child,      \* child[o][f]: the pointer in field f
    held,       \* held[t]: the objects t owns a count of
    left,       \* left[t]: what is left of t's call, with the calls it makes
    loaded,     \* loaded[t]: the count t has read and not yet stored
    raced,      \* history: a count changed between a load and its store
    calls
refvars == <<ref, alloc, child, held, left, loaded, raced, calls>>

NOTHING == -2           \* -1 stands for SIZE_MAX
Call(op, o) == [op |-> op, obj |-> o]
DecField(a, f) == [op |-> "decfield", obj |-> a, field |-> f]
Assignment(a, f, o) == [op |-> "assign", obj |-> o, to |-> a, field |-> f]

RefInit ==
    /\ ref = [o \in Obj |-> 0] /\ alloc = {} /\ child = [o \in Obj |-> [f \in Slot |-> NOOBJ]]
    /\ held = [t \in Thread |-> {}] /\ left = [t \in Thread |-> <<>>]
    /\ loaded = [t \in Thread |-> NOTHING] /\ raced = FALSE /\ calls = 0

-----------------------------------------------------------------------------
(* The program.  A pointer is passed on by an owner, or read from a field  *)
(* of an owned object, which keep it until it is counted, as main of the   *)
(* test waits for its threads; a field is assigned by one thread at once.  *)
Pending(t) == ToSet(left[t])
Counting(t, o) == \E u \in Thread \ {t} : Call("inc", o) \in Pending(u)
Assigned(a, f) == \E u \in Thread : \E c \in Pending(u) :
                     c.op = "assign" /\ c.to = a /\ c.field = f

Begins(t) == /\ left[t] = <<>> /\ ~raced /\ calls < MaxCalls /\ calls' = calls + 1
             /\ UNCHANGED <<loaded, raced>>

(* gc_malloc gives a new object the count 1, for the variable or the field *)
(* of an owned object it is assigned to.                                   *)
gc_malloc(t) == \E o \in Obj \ alloc :
    /\ Begins(t)
    /\ alloc' = alloc \cup {o} /\ ref' = [ref EXCEPT ![o] = 1]
    /\ \/ held' = [held EXCEPT ![t] = @ \cup {o}] /\ UNCHANGED child
       \/ \E a \in held[t], f \in Slot :
            /\ child[a][f] = NOOBJ /\ ~Assigned(a, f)
            /\ child' = [child EXCEPT ![a][f] = o] /\ UNCHANGED held
    /\ UNCHANGED left

Lent(t) == (UNION {held[u] : u \in {v \in Thread : left[v] = <<>>}})
           \cup {child[b[1]][b[2]] : b \in {c \in held[t] \X Slot : ~Assigned(c[1], c[2])}}
Share(t) == \E o \in Lent(t) \ (held[t] \cup {NOOBJ}) :
    /\ Begins(t)
    /\ held' = [held EXCEPT ![t] = @ \cup {o}]
    /\ left' = [left EXCEPT ![t] = <<Call("inc", o)>>]
    /\ UNCHANGED <<ref, alloc, child>>

Release(t) == \E o \in held[t] :
    /\ Begins(t) /\ ~Counting(t, o)
    /\ held' = [held EXCEPT ![t] = @ \ {o}]
    /\ left' = [left EXCEPT ![t] = <<Call("dec", o)>>]
    /\ UNCHANGED <<ref, alloc, child>>

(* gc_update(&a->f, o): the new target is counted before the old one is    *)
(* released; the field is read in between.                                 *)
gc_update(t) == \E a \in held[t], f \in Slot, o \in held[t] \cup {NOOBJ} :
    /\ Begins(t) /\ ~Assigned(a, f) /\ ~Counting(t, child[a][f])
    /\ left' = [left EXCEPT ![t] = <<Call("inc", o), DecField(a, f), Assignment(a, f, o)>>]
    /\ UNCHANGED <<ref, alloc, child, held>>

-----------------------------------------------------------------------------
(* The steps of a call.                                                    *)
Doing(t, op) == left[t] # <<>> /\ Head(left[t]).op = op
Object(t) == Head(left[t]).obj
Proceeds(t, calling) == left' = [left EXCEPT ![t] = calling \o Tail(@)]

(* Another thread is in the middle of counting o.                          *)
InMiddle(t, o) == \E u \in Thread \ {t} :
    \/ loaded[u] # NOTHING /\ Object(u) = o
    \/ Doing(u, "test") /\ Object(u) = o

Load(t) ==
    /\ Doing(t, "inc") \/ Doing(t, "dec")
    /\ Object(t) # NOOBJ /\ loaded[t] = NOTHING
    /\ loaded' = [loaded EXCEPT ![t] = ref[Object(t)]]
    /\ raced' = (raced \/ InMiddle(t, Object(t)))
    /\ UNCHANGED <<ref, alloc, child, held, left, calls>>

gc_inc(t) ==
    /\ Doing(t, "inc") /\ loaded[t] # NOTHING
    /\ ref' = [ref EXCEPT ![Object(t)] = loaded[t] + 1]
    /\ loaded' = [loaded EXCEPT ![t] = NOTHING] /\ Proceeds(t, <<>>)
    /\ UNCHANGED <<alloc, child, held, raced, calls>>

gc_dec(t) ==
    /\ Doing(t, "dec") /\ loaded[t] # NOTHING
    /\ ref' = [ref EXCEPT ![Object(t)] = loaded[t] - 1]
    /\ loaded' = [loaded EXCEPT ![t] = NOTHING] /\ Proceeds(t, <<Call("test", Object(t))>>)
    /\ UNCHANGED <<alloc, child, held, raced, calls>>

(* No pointer into the heap.                                               *)
Skip(t) ==
    /\ Doing(t, "inc") \/ Doing(t, "dec")
    /\ Object(t) = NOOBJ /\ Proceeds(t, <<>>)
    /\ UNCHANGED <<ref, alloc, child, held, loaded, raced, calls>>

(* Mutant of Dead: the fields are not released.                            *)
FreedOnly(o) == <<Call("free", o)>>

(* At zero the fields are released one after the other, then the object.   *)
Dead(o) == SetToSeq({DecField(o, f) : f \in Slot}) \o <<Call("free", o)>>

Test(t) ==
    /\ Doing(t, "test")
    /\ Proceeds(t, IF ref[Object(t)] = 0 THEN Dead(Object(t)) ELSE <<>>)
    /\ UNCHANGED <<ref, alloc, child, held, loaded, raced, calls>>

ReadField(t) ==
    /\ Doing(t, "decfield")
    /\ Proceeds(t, <<Call("dec", child[Object(t)][Head(left[t]).field])>>)
    /\ UNCHANGED <<ref, alloc, child, held, loaded, raced, calls>>

gc_free(t) ==
    /\ Doing(t, "free") /\ Proceeds(t, <<>>)
    /\ alloc' = alloc \ {Object(t)}
    /\ child' = [child EXCEPT ![Object(t)] = [f \in Slot |-> NOOBJ]]
    /\ UNCHANGED <<ref, held, loaded, raced, calls>>

StoreField(t) ==
    /\ Doing(t, "assign") /\ Proceeds(t, <<>>)
    /\ child' = [child EXCEPT ![Head(left[t]).to][Head(left[t]).field] = Object(t)]
    /\ UNCHANGED <<ref, alloc, held, loaded, raced, calls>>

Caller(t) == gc_malloc(t) \/ Share(t) \/ Release(t) \/ gc_update(t)
Step(t) == \/ Load(t) \/ gc_inc(t) \/ gc_dec(t) \/ Skip(t) \/ Test(t)
           \/ ReadField(t) \/ gc_free(t) \/ StoreField(t)
RefNext == \E t \in Thread : Caller(t) \/ Step(t)
RefSpec == RefInit /\ [][RefNext]_refvars

(***************************************************************************)
(* Properties.                                                             *)
(***************************************************************************)
Owners(o) == {t \in Thread : o \in held[t]}
Referrers(o) == {b \in alloc \X Slot : child[b[1]][b[2]] = o}
Quiet == \A t \in Thread : left[t] = <<>>

(* As long as no two threads count the same object at once: nothing a      *)
(* thread owns or an object in use refers to is freed, in the middle of no *)
(* call, and whenever no call is under way the count of an object is the   *)
(* number of its owners and of the fields that refer to it.                *)
CountsExact ==
    ~raced =>
        /\ UNION {held[t] : t \in Thread} \subseteq alloc
        /\ \A a \in alloc, f \in Slot :
              ref[a] > 0 /\ ~Assigned(a, f) => child[a][f] \in alloc \cup {NOOBJ}
        /\ Quiet => \A o \in Obj :
              Cardinality(Owners(o)) + Cardinality(Referrers(o))
                = IF o \in alloc THEN ref[o] ELSE 0
=============================================================================

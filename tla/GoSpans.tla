------------------------------ MODULE GoSpans ------------------------------
(***************************************************************************)
(* The spans of gc-golang, the threads that allocate from them and the     *)
(* collection that sweeps them: cache.c over central.c over the page heap, *)
(* with mgc/gc.c, mgc/sweep.c, mgc/gc_sweepbuf.c and proc/proc.c.          *)
(*                                                                         *)
(* There is one small size class, of NELEMS objects to a span, and the     *)
(* large objects, which have a span each.  The page heap hands out any     *)
(* span that is free.  The marker is taken to mark exactly what the        *)
(* program reaches; what the program drops, it drops there.                *)
(*                                                                         *)
(* A step ends where another thread can see or change what the code does   *)
(* next: at a lock, at an atomic operation on a sweepgen, at the sweep     *)
(* buffers and at the signal that stops a thread.  sweepgen is compared    *)
(* for small differences only, so it is kept modulo GenMod (2^32 in C).    *)
(***************************************************************************)
EXTENDS Integers, FiniteSets, SequencesExt

CONSTANTS
    Thread,
    Span,
    NULL,           \* no span; in a cache, emptyspan
    NELEMS,         \* objects in a span of the small class
    GenMod,
    SafePoints,     \* stopTheWorld finds no other thread in mallocgc or sweepone
    LastGen         \* bound of the model: no cycle starts at this sweepgen

ASSUME GoSpansAssumption ==
    /\ IsFiniteSet(Thread) /\ NULL \notin Span \cup Thread
    /\ NELEMS \in Nat \ {0}
    /\ GenMod \in Nat /\ GenMod % 4 = 0 /\ GenMod >= 8
    /\ SafePoints \in BOOLEAN
    /\ LastGen \in Nat

VARIABLES
    span,           \* the mspan of each span
    nonempty,       \* the two lists of the central
    empty,
    sweepSpans,     \* the two sweep buffers, last in, first out
    sweepgen,       \* heap_.sweepgen
    sweepdone,      \* heap_.sweepdone
    cached,         \* the span of a thread's cache
    locks,          \* who holds the central's lock
    gcphase,        \* "off" or "mark"
    worldsema,      \* who runs a cycle
    mtx,            \* who has stopped the world
    stopped,        \* the threads that wait in sighandler
    todo,           \* the caches gcMarkTermination has still to flush
    th,             \* per thread: where it is, and its locals
    objs,           \* the objects of each span that the program reaches
    exit            \* why the program ended: throw() divides by zero

lists == <<nonempty, empty>>
sweepVars == <<sweepSpans, sweepgen, sweepdone>>
heapVars == <<span, lists, sweepVars>>
gcVars == <<gcphase, worldsema, mtx, stopped, todo>>
vars == <<heapVars, gcVars, cached, locks, th, objs, exit>>

Gen(k) == (sweepgen + k) % GenMod

FreeSpan == [state |-> "free", class |-> "small", sweepgen |-> 0, nelems |-> 0,
             freeindex |-> 0, allocCount |-> 0, allocBits |-> {}, gcmarkBits |-> {}]

(* Where a thread is; sg is the sweepgen central_cacheSpan or sweepone     *)
(* read, swept the one span_sweep read, at the position in a list, s the   *)
(* span in hand, ret what comes after the sweep.                           *)
Idle == [pc |-> "idle", sg |-> 0, swept |-> 0, at |-> 0, s |-> NULL, ret |-> "none"]

Init ==
    /\ span = [s \in Span |-> FreeSpan]
    /\ nonempty = <<>>
    /\ empty = <<>>
    /\ sweepSpans = [b \in {0, 1} |-> <<>>]
    /\ sweepgen = 0
    /\ sweepdone = FALSE
    /\ cached = [t \in Thread |-> NULL]
    /\ locks = NULL
    /\ gcphase = "off"
    /\ worldsema = NULL
    /\ mtx = NULL
    /\ stopped = {}
    /\ todo = <<>>
    /\ th = [t \in Thread |-> Idle]
    /\ objs = [s \in Span |-> {}]
    /\ exit = "no"

-----------------------------------------------------------------------------
(* Operators on a span.                                                    *)

(* The slots the allocator has given out: those behind freeindex, and      *)
(* those the last sweep found marked.                                      *)
Allocated(sp) == (0 .. sp.freeindex - 1) \cup sp.allocBits

span_nextFreeIndex(sp) ==
    Min({sp.nelems} \cup {k \in sp.freeindex .. sp.nelems - 1 : k \notin sp.allocBits})

span_countAlloc(sp) == Cardinality(sp.gcmarkBits)

WasEmpty(sp) == span_nextFreeIndex(sp) = sp.nelems

(* central_uncacheSpan: the span was cached before the sweep began; the    *)
(* span has room for another object.                                       *)
Stale(sp) == sp.sweepgen = Gen(1)

(* Mutant of HasFree: the difference taken the wrong way round.            *)
HasFreeNegative(sp) == sp.nelems < sp.allocCount

HasFree(sp) == sp.allocCount < sp.nelems

(* span_sweep: the marks become the allocation bits.  Mutants: the marks   *)
(* are not cleared, the bits not replaced, the sweepgen not stored.        *)
SweptMarked(sp) ==
    [sp EXCEPT !.allocCount = span_countAlloc(sp), !.freeindex = 0,
               !.allocBits = sp.gcmarkBits, !.sweepgen = Gen(0)]

SweptSameBits(sp) ==
    [sp EXCEPT !.allocCount = span_countAlloc(sp), !.freeindex = 0,
               !.gcmarkBits = {}, !.sweepgen = Gen(0)]

SweptUnsigned(sp) ==
    [sp EXCEPT !.allocCount = span_countAlloc(sp), !.freeindex = 0,
               !.allocBits = sp.gcmarkBits, !.gcmarkBits = {}]

SweptSpan(sp) ==
    [sp EXCEPT !.allocCount = span_countAlloc(sp), !.freeindex = 0,
               !.allocBits = sp.gcmarkBits, !.gcmarkBits = {}, !.sweepgen = Gen(0)]

(* heap_alloc with hb_initSpan, for n objects.                             *)
NewSpan(class, n) ==
    [FreeSpan EXCEPT !.state = "inUse", !.class = class, !.sweepgen = Gen(0), !.nelems = n]

SweepBuffer(g) == (g \div 2) % 2

-----------------------------------------------------------------------------
(* What the code asserts where a thread stands.                            *)

RefillOK(t) ==
    LET s == cached[t] IN
    s # NULL => span[s].allocCount = span[s].nelems /\ span[s].sweepgen = Gen(3)

HaveOK(sp) == sp.allocCount # sp.nelems /\ sp.freeindex # sp.nelems

NextFreeOK(t) ==
    LET s == cached[t] IN
    s # NULL /\ ~WasEmpty(span[s]) /\ span[s].allocCount < span[s].nelems

(* The span is in use and this thread's to sweep; and the list it is in is *)
(* the one that central_freeSpan unlinks it from.                          *)
SweepOK(t) ==
    LET s == th[t].s
        sp == span[s]
        preserve == th[t].ret \in {"have", "recheck"}
        nalloc == span_countAlloc(sp)
    IN  /\ sp.state = "inUse" /\ sp.sweepgen = Gen(-1)
        /\ nalloc <= sp.allocCount
        /\ (sp.class = "small" /\ nalloc < sp.allocCount) =>
              IF preserve THEN Contains(empty, s) \/ Contains(nonempty, s)
              ELSE /\ WasEmpty(sp) => Contains(empty, s)
                   /\ (nalloc = 0 /\ ~WasEmpty(sp)) => Contains(nonempty, s)

FreeSpanOK(sp) == sp.state = "inUse" /\ sp.allocCount = 0 /\ sp.sweepgen = Gen(0)

(* Mutant of UncacheOK: the list it is in is not looked at.                *)
UncacheUnchecked(s) == span[s].allocCount # 0

UncacheOK(s) ==
    span[s].allocCount # 0 /\ (HasFree(span[s]) => Contains(empty, s))

(* sweepone, of the span on top of the buffer.                             *)
PopOK(t) ==
    LET b == sweepSpans[1 - SweepBuffer(th[t].sg)] IN
    (b # <<>> /\ span[Last(b)].state = "free") =>
        span[Last(b)].sweepgen \in {th[t].sg, (th[t].sg + 3) % GenMod}

AssertsHold(t) ==
    LET pc == th[t].pc
        s == th[t].s
    IN  /\ pc = "refill" => RefillOK(t)
        /\ pc = "insert" => ~Contains(empty, s) /\ ~Contains(nonempty, s)
        /\ pc = "have" => HaveOK(span[s])
        /\ pc = "take" => NextFreeOK(t)
        /\ pc = "pop" => PopOK(t)
        /\ pc = "sweep" => SweepOK(t)
        /\ pc = "free" => FreeSpanOK(span[s])
        /\ (pc = "release" /\ todo # <<>> /\ cached[Head(todo)] # NULL)
               => UncacheOK(cached[Head(todo)])
        /\ pc = "gcSweep" => sweepSpans[SweepBuffer(Gen(2))] = <<>>

-----------------------------------------------------------------------------
(* The allocator.                                                          *)

At(t, pc) == th[t].pc = pc

Move(t, frame) == th' = [th EXCEPT ![t] = frame]

Goto(t, pc) == Move(t, [th[t] EXCEPT !.pc = pc])

Return(t) == Move(t, Idle)

SetGen(s, g) == span' = [span EXCEPT ![s].sweepgen = g]

(* mallocgc is entered with mallocing set; while the world is stopped for  *)
(* a cycle, sighandler(0) is waited in first.                              *)
mallocgc(t) ==
    /\ At(t, "idle")
    /\ gcphase = "off" \/ mtx = NULL
    /\ \E pc \in {"small", "large"} : Goto(t, pc)
    /\ UNCHANGED <<heapVars, gcVars, cached, locks, objs, exit>>

(* The next free object of the cached span; one that is allocated during   *)
(* the mark phase is marked at once (gc_marknewobject).                    *)
cache_nextFree(t) ==
    LET s == cached[t]
        k == span_nextFreeIndex(span[s])
    IN  /\ At(t, "small") \/ At(t, "take")
        /\ s # NULL /\ ~WasEmpty(span[s])
        /\ span' = [span EXCEPT ![s].freeindex = k + 1, ![s].allocCount = @ + 1,
                       ![s].gcmarkBits = IF gcphase = "off" THEN @ ELSE @ \cup {k}]
        /\ objs' = [objs EXCEPT ![s] = @ \cup {k}]
        /\ Return(t)
        /\ UNCHANGED <<lists, sweepVars, gcVars, cached, locks, exit>>

(* The cached span is full, or there is none.                              *)
CacheFull(t) ==
    /\ At(t, "small")
    /\ cached[t] # NULL => WasEmpty(span[cached[t]])
    /\ Goto(t, "refill")
    /\ IF cached[t] = NULL THEN UNCHANGED span
       ELSE span' = [span EXCEPT ![cached[t]].freeindex = span[cached[t]].nelems]
    /\ UNCHANGED <<lists, sweepVars, gcVars, cached, locks, objs, exit>>

(* cache_refill up to central_cacheSpan: the full span is given up, but    *)
(* stays in the cache until there is another.                              *)
cache_refill(t) ==
    /\ At(t, "refill")
    /\ IF cached[t] = NULL THEN UNCHANGED span ELSE SetGen(cached[t], Gen(0))
    /\ Goto(t, "central")
    /\ UNCHANGED <<lists, sweepVars, gcVars, cached, locks, objs, exit>>

(* central_cacheSpan takes the lock; it reads the sweepgen once, not again *)
(* when it tries again.                                                    *)
central_cacheSpan(t) ==
    /\ At(t, "central") \/ At(t, "retry")
    /\ locks = NULL
    /\ locks' = t
    /\ Move(t, [th[t] EXCEPT !.pc = "nonempty", !.at = 1,
                             !.sg = IF At(t, "central") THEN sweepgen ELSE @])
    /\ UNCHANGED <<heapVars, gcVars, cached, objs, exit>>

Sweeps(t, s, ret) == Move(t, [th[t] EXCEPT !.pc = "sweep", !.s = s, !.ret = ret])

(* One span of nonempty: swept if it needs it, skipped while another       *)
(* thread sweeps it, taken otherwise.                                      *)
FromNonempty(t) ==
    LET s == nonempty[th[t].at]
        old == span[s].sweepgen
        stale == old = (th[t].sg - 2) % GenMod
    IN  /\ At(t, "nonempty") /\ th[t].at <= Len(nonempty)
        /\ old # (th[t].sg - 1) % GenMod
        /\ nonempty' = RemoveFirst(nonempty, s)
        /\ empty' = Append(empty, s)
        /\ locks' = NULL
        /\ IF stale
           THEN SetGen(s, (th[t].sg - 1) % GenMod) /\ Sweeps(t, s, "have")
           ELSE UNCHANGED span /\ Move(t, [th[t] EXCEPT !.pc = "have", !.s = s])
        /\ UNCHANGED <<sweepVars, gcVars, cached, objs, exit>>

(* One span of empty that needs sweeping: it may have free objects then.   *)
FromEmpty(t) ==
    LET s == empty[th[t].at] IN
    /\ At(t, "empty") /\ th[t].at <= Len(empty)
    /\ span[s].sweepgen = (th[t].sg - 2) % GenMod
    /\ SetGen(s, (th[t].sg - 1) % GenMod)
    /\ empty' = Append(RemoveFirst(empty, s), s)
    /\ locks' = NULL
    /\ Sweeps(t, s, "recheck")
    /\ UNCHANGED <<nonempty, sweepVars, gcVars, cached, objs, exit>>

SkipSpan(t) ==
    LET list == IF At(t, "nonempty") THEN nonempty ELSE empty IN
    /\ At(t, "nonempty") \/ At(t, "empty")
    /\ th[t].at <= Len(list)
    /\ span[list[th[t].at]].sweepgen = (th[t].sg - 1) % GenMod
    /\ Move(t, [th[t] EXCEPT !.at = @ + 1])
    /\ UNCHANGED <<heapVars, gcVars, cached, locks, objs, exit>>

(* The end of nonempty; the end of empty, or its first span that is swept. *)
NoneInNonempty(t) ==
    /\ At(t, "nonempty") /\ th[t].at > Len(nonempty)
    /\ Move(t, [th[t] EXCEPT !.pc = "empty", !.at = 1])
    /\ UNCHANGED <<heapVars, gcVars, cached, locks, objs, exit>>

NoneInEmpty(t) ==
    /\ At(t, "empty")
    /\ th[t].at <= Len(empty) =>
          span[empty[th[t].at]].sweepgen \notin
              {(th[t].sg - 1) % GenMod, (th[t].sg - 2) % GenMod}
    /\ locks' = NULL
    /\ Goto(t, "grow")
    /\ UNCHANGED <<heapVars, gcVars, cached, objs, exit>>

(* After the sweep of a span of empty: take it, or lock and try again.     *)
Recheck(t) ==
    LET s == th[t].s
        k == span_nextFreeIndex(span[s])
    IN  /\ At(t, "recheck")
        /\ span' = [span EXCEPT ![s].freeindex = k]
        /\ Goto(t, IF k # span[s].nelems THEN "have" ELSE "retry")
        /\ UNCHANGED <<lists, sweepVars, gcVars, cached, locks, objs, exit>>

(* Mutant of heap_alloc: the sweep does not get to know of the span.       *)
HeapAllocUnwatched(s, sp) ==
    /\ span[s].state = "free"
    /\ span' = [span EXCEPT ![s] = sp]
    /\ UNCHANGED sweepSpans

(* heap_alloc: a free span, initialised and in the sweep buffer of the     *)
(* current generation; or no memory, which both callers throw on.          *)
heap_alloc(s, sp) ==
    /\ span[s].state = "free"
    /\ span' = [span EXCEPT ![s] = sp]
    /\ sweepSpans' = [sweepSpans EXCEPT ![SweepBuffer(sweepgen)] = Append(@, s)]

central_grow(t) ==
    /\ At(t, "grow")
    /\ \E s \in Span : /\ heap_alloc(s, NewSpan("small", NELEMS))
                       /\ Move(t, [th[t] EXCEPT !.pc = "insert", !.s = s])
    /\ UNCHANGED <<lists, sweepgen, sweepdone, gcVars, cached, locks, objs, exit>>

Insert(t) ==
    /\ At(t, "insert")
    /\ locks = NULL
    /\ empty' = Append(empty, th[t].s)
    /\ Goto(t, "have")
    /\ UNCHANGED <<span, nonempty, sweepVars, gcVars, cached, locks, objs, exit>>

largeAlloc(t) ==
    /\ At(t, "large")
    /\ \E s \in Span :
          /\ heap_alloc(s, [NewSpan("large", 1) EXCEPT !.freeindex = 1, !.allocCount = 1,
                               !.gcmarkBits = IF gcphase = "off" THEN {} ELSE {0}])
          /\ objs' = [objs EXCEPT ![s] = {0}]
    /\ Return(t)
    /\ UNCHANGED <<lists, sweepgen, sweepdone, gcVars, cached, locks, exit>>

OutOfMemory(t) ==
    /\ At(t, "grow") \/ At(t, "large")
    /\ \A s \in Span : span[s].state # "free"
    /\ exit' = "memory"
    /\ UNCHANGED <<heapVars, gcVars, cached, locks, th, objs>>

(* The rest of cache_refill: the span is cached and not to be swept.       *)
Cache(t) ==
    /\ At(t, "have")
    /\ SetGen(th[t].s, Gen(3))
    /\ cached' = [cached EXCEPT ![t] = th[t].s]
    /\ Move(t, [Idle EXCEPT !.pc = "take"])
    /\ UNCHANGED <<lists, sweepVars, gcVars, locks, objs, exit>>

-----------------------------------------------------------------------------
(* The sweeper.                                                            *)

(* What follows a sweep.                                                   *)
AfterSweep(ret) ==
    CASE ret = "help" -> "help" [] ret = "cycle" -> "sweepone" [] ret = "release" -> "flush"
      [] ret = "have" -> "have" [] ret = "recheck" -> "recheck"

(* sweepone, to where it has read the sweepgen.                            *)
sweepone(t) ==
    /\ At(t, "sweepone")
    /\ IF sweepdone
       THEN Goto(t, IF th[t].ret = "help" THEN "try" ELSE "release")
       ELSE Move(t, [th[t] EXCEPT !.pc = "pop", !.sg = sweepgen])
    /\ UNCHANGED <<heapVars, gcVars, cached, locks, objs, exit>>

(* One round of its loop: the span on top is dropped unless it needs       *)
(* sweeping; with the buffer empty the sweep is done.                      *)
gcsweepbuf_pop(t) ==
    LET b == 1 - SweepBuffer(th[t].sg)
        s == Last(sweepSpans[b])
        mine == span[s].state = "inUse" /\ span[s].sweepgen = (th[t].sg - 2) % GenMod
    IN  /\ At(t, "pop") /\ sweepSpans[b] # <<>>
        /\ sweepSpans' = [sweepSpans EXCEPT ![b] = Front(@)]
        /\ IF mine
           THEN SetGen(s, (th[t].sg - 1) % GenMod) /\ Sweeps(t, s, th[t].ret)
           ELSE UNCHANGED <<span, th>>
        /\ UNCHANGED <<lists, sweepgen, sweepdone, gcVars, cached, locks, objs, exit>>

SweepDone(t) ==
    /\ At(t, "pop") /\ sweepSpans[1 - SweepBuffer(th[t].sg)] = <<>>
    /\ sweepdone' = TRUE
    /\ Goto(t, IF th[t].ret = "help" THEN "try" ELSE "release")
    /\ UNCHANGED <<span, lists, sweepSpans, sweepgen, gcVars, cached, locks, objs, exit>>

(* span_sweep with central_freeSpan: a span of small objects that freed    *)
(* some moves to nonempty if it had no free slot, and leaves the lists if  *)
(* it holds nothing more.  A span that central_cacheSpan sweeps stays in   *)
(* its list.                                                               *)
span_sweep(t) ==
    LET s == th[t].s
        sp == span[s]
        nalloc == span_countAlloc(sp)
        freed == sp.class = "small" /\ nalloc < sp.allocCount
                     /\ th[t].ret \notin {"have", "recheck"}
        toHeap == nalloc = 0 /\ (freed \/ sp.class = "large")
    IN  /\ At(t, "sweep")
        /\ freed => locks = NULL
        /\ span' = [span EXCEPT ![s] = SweptSpan(sp)]
        /\ empty' = IF freed /\ WasEmpty(sp) THEN RemoveFirst(empty, s) ELSE empty
        /\ nonempty' = CASE toHeap /\ freed           -> RemoveFirst(nonempty, s)
                         [] ~toHeap /\ freed /\ WasEmpty(sp) -> <<s>> \o nonempty
                         [] OTHER                     -> nonempty
        /\ Move(t, [th[t] EXCEPT !.pc = IF toHeap THEN "free" ELSE "push", !.swept = sweepgen])
        /\ UNCHANGED <<sweepVars, gcVars, cached, locks, objs, exit>>

Swept(t) == Move(t, [th[t] EXCEPT !.pc = AfterSweep(th[t].ret), !.swept = 0])

gcsweepbuf_push(t) ==
    /\ At(t, "push")
    /\ sweepSpans' = [sweepSpans EXCEPT ![SweepBuffer(th[t].swept)] = Append(@, th[t].s)]
    /\ Swept(t)
    /\ UNCHANGED <<span, lists, sweepgen, sweepdone, gcVars, cached, locks, objs, exit>>

heap_freeSpan(t) ==
    /\ At(t, "free")
    /\ span' = [span EXCEPT ![th[t].s] = [FreeSpan EXCEPT !.sweepgen = span[th[t].s].sweepgen]]
    /\ Swept(t)
    /\ UNCHANGED <<lists, sweepVars, gcVars, cached, locks, objs, exit>>

-----------------------------------------------------------------------------
(* The collection.                                                         *)

(* gcStart is called: first help to sweep.                                 *)
gcStart(t) ==
    /\ At(t, "idle")
    /\ Goto(t, "help")
    /\ UNCHANGED <<heapVars, gcVars, cached, locks, objs, exit>>

Help(t) ==
    /\ At(t, "help")
    /\ Move(t, IF gcphase = "off" THEN [Idle EXCEPT !.pc = "sweepone", !.ret = "help"]
                                  ELSE [Idle EXCEPT !.pc = "try"])
    /\ UNCHANGED <<heapVars, gcVars, cached, locks, objs, exit>>

(* With a cycle running (work.gcing), wait for it and return.              *)
TryStart(t) ==
    /\ At(t, "try")
    /\ Move(t, [Idle EXCEPT !.pc = IF worldsema = NULL THEN "sema" ELSE "wait"])
    /\ UNCHANGED <<heapVars, gcVars, cached, locks, objs, exit>>

Await(t) ==
    /\ At(t, "wait")
    /\ mtx = NULL
    /\ Return(t)
    /\ UNCHANGED <<heapVars, gcVars, cached, locks, objs, exit>>

(* Mutant of Begin: the semaphore is not waited for.                       *)
BeginAtOnce(t) ==
    /\ At(t, "sema")
    /\ sweepgen # LastGen
    /\ worldsema' = t
    /\ gcphase' = "mark"
    /\ Goto(t, "stop")
    /\ UNCHANGED <<heapVars, mtx, stopped, todo, cached, locks, objs, exit>>

Begin(t) ==
    /\ At(t, "sema")
    /\ worldsema = NULL
    /\ sweepgen # LastGen
    /\ worldsema' = t
    /\ gcphase' = "mark"
    /\ Goto(t, "stop")
    /\ UNCHANGED <<heapVars, mtx, stopped, todo, cached, locks, objs, exit>>

(* A thread that is allocating has mallocing set and is sent no signal.    *)
Mallocing(t) ==
    \/ th[t].pc \in {"small", "large", "refill", "central", "retry", "nonempty", "empty",
                     "recheck", "grow", "insert", "have", "take"}
    \/ th[t].pc \in {"sweep", "push", "free"} /\ th[t].ret \in {"have", "recheck"}

AtSafePoint(t) == th[t].pc \in {"idle", "help", "try", "wait", "sema"}

stopTheWorld(t) ==
    /\ At(t, "stop")
    /\ SafePoints => \A u \in Thread \ {t} : AtSafePoint(u)
    /\ mtx' = t
    /\ stopped' = {u \in Thread \ {t} : ~Mallocing(u)}
    /\ Goto(t, "mark")
    /\ UNCHANGED <<heapVars, gcphase, worldsema, todo, cached, locks, objs, exit>>

(* What the program reaches is marked; from here on it reaches no more.    *)
gcDrain(t) ==
    /\ At(t, "mark")
    /\ objs' \in [Span -> SUBSET (0 .. NELEMS)]
    /\ \A s \in Span : objs'[s] \subseteq objs[s]
    /\ span' = [s \in Span |-> [span[s] EXCEPT !.gcmarkBits = @ \cup objs'[s]]]
    /\ Goto(t, "gcSweep")
    /\ UNCHANGED <<lists, sweepVars, gcVars, cached, locks, exit>>

(* gcMarkTermination to gcSweep's loop; the caches are flushed after it.   *)
gcSweep(t) ==
    /\ At(t, "gcSweep")
    /\ gcphase' = "off"
    /\ sweepgen' = Gen(2)
    /\ sweepdone' = FALSE
    /\ todo' = SetToSeq(Thread)
    /\ Move(t, [Idle EXCEPT !.pc = "sweepone", !.ret = "cycle"])
    /\ UNCHANGED <<span, lists, sweepSpans, worldsema, mtx, stopped, cached, locks, objs, exit>>

(* central_uncacheSpan for the next cache: a span cached before the sweep  *)
(* began is this thread's to sweep.                                        *)
central_uncacheSpan(t) ==
    LET s == cached[Head(todo)]
        stale == Stale(span[s])
        hasFree == HasFree(span[s])
    IN  /\ At(t, "release") /\ todo # <<>> /\ s # NULL
        /\ hasFree => locks = NULL
        /\ SetGen(s, IF stale THEN Gen(-1) ELSE Gen(0))
        /\ empty' = IF hasFree THEN RemoveFirst(empty, s) ELSE empty
        /\ nonempty' = IF hasFree THEN <<s>> \o nonempty ELSE nonempty
        /\ IF stale THEN Sweeps(t, s, "release") ELSE Goto(t, "flush")
        /\ UNCHANGED <<sweepVars, gcVars, cached, locks, objs, exit>>

(* cache_releaseAll goes to the next cache.                                *)
cache_releaseAll(t) ==
    /\ \/ At(t, "flush")
       \/ At(t, "release") /\ todo # <<>> /\ cached[Head(todo)] = NULL
    /\ cached' = [cached EXCEPT ![Head(todo)] = NULL]
    /\ todo' = Tail(todo)
    /\ Move(t, [Idle EXCEPT !.pc = "release"])
    /\ UNCHANGED <<heapVars, gcphase, worldsema, mtx, stopped, locks, objs, exit>>

startTheWorld(t) ==
    /\ At(t, "release") /\ todo = <<>>
    /\ mtx' = NULL
    /\ stopped' = {}
    /\ worldsema' = NULL
    /\ Return(t)
    /\ UNCHANGED <<heapVars, gcphase, todo, cached, locks, objs, exit>>

-----------------------------------------------------------------------------
Allocate(t) ==
    \/ mallocgc(t) \/ cache_nextFree(t) \/ CacheFull(t) \/ cache_refill(t)
    \/ central_cacheSpan(t) \/ FromNonempty(t) \/ FromEmpty(t) \/ SkipSpan(t)
    \/ NoneInNonempty(t) \/ NoneInEmpty(t) \/ Recheck(t) \/ central_grow(t) \/ Insert(t)
    \/ largeAlloc(t) \/ OutOfMemory(t) \/ Cache(t)

SweepStep(t) ==
    \/ sweepone(t) \/ gcsweepbuf_pop(t) \/ SweepDone(t) \/ span_sweep(t)
    \/ gcsweepbuf_push(t) \/ heap_freeSpan(t)

Collect(t) ==
    \/ gcStart(t) \/ Help(t) \/ TryStart(t) \/ Await(t) \/ Begin(t) \/ stopTheWorld(t)
    \/ gcDrain(t) \/ gcSweep(t) \/ central_uncacheSpan(t) \/ cache_releaseAll(t)
    \/ startTheWorld(t)

(* throw() ends the program.                                               *)
Throw(t) ==
    /\ exit' = "throw"
    /\ UNCHANGED <<heapVars, gcVars, cached, locks, th, objs>>

Exited == exit # "no" /\ UNCHANGED vars

Next ==
    \/ \E t \in Thread \ stopped :
          /\ exit = "no"
          /\ \/ AssertsHold(t) /\ (Allocate(t) \/ SweepStep(t) \/ Collect(t))
             \/ ~AssertsHold(t) /\ Throw(t)
    \/ Exited

Spec == Init /\ [][Next]_vars

-----------------------------------------------------------------------------
(* The types.                                                              *)
Slot == 0 .. NELEMS - 1

MSpan == [state : {"free", "inUse"}, class : {"small", "large"}, sweepgen : 0 .. GenMod - 1,
          nelems : {0, 1, NELEMS}, freeindex : 0 .. NELEMS, allocCount : 0 .. NELEMS,
          allocBits : SUBSET Slot, gcmarkBits : SUBSET Slot]

PCs == {"idle", "small", "large", "refill", "central", "retry", "nonempty", "empty", "recheck",
        "grow", "insert", "have", "take", "sweepone", "pop", "sweep", "push", "free",
        "help", "try", "wait", "sema", "stop", "mark", "gcSweep", "release", "flush"}

TypeOK ==
    /\ span \in [Span -> MSpan]
    /\ nonempty \in Seq(Span) /\ empty \in Seq(Span)
    /\ sweepSpans \in [{0, 1} -> Seq(Span)]
    /\ sweepgen \in 0 .. GenMod - 1 /\ sweepdone \in BOOLEAN
    /\ cached \in [Thread -> Span \cup {NULL}]
    /\ gcphase \in {"off", "mark"}
    /\ {locks, worldsema, mtx} \subseteq Thread \cup {NULL}
    /\ stopped \subseteq Thread /\ todo \in Seq(Thread)
    /\ th \in [Thread -> [pc : PCs, sg : 0 .. GenMod - 1, swept : 0 .. GenMod - 1, at : Nat,
                          s : Span \cup {NULL},
                          ret : {"none", "help", "cycle", "release", "have", "recheck"}]]
    /\ objs \in [Span -> SUBSET Slot]
    /\ exit \in {"no", "memory", "throw"}

(* With the world stopped at safe points, none of the assertions of        *)
(* cache.c, central.c, sweep.c, gc.c and heap.c fails: no thread refills   *)
(* from a span of another generation, sweeps one that is not its to sweep, *)
(* caches a full one, or unlinks one from a list it is not in.             *)
NoThrow == exit # "throw"

(* Every word keeps its type, and what the program reaches stays           *)
(* allocated, through any number of cycles and changes of hands: allocation never returns it a second time, and    *)
(* allocCount, from which central.c computes whether a span is full or can *)
(* be given back, is the number of objects given out.                      *)
ReachedIsAllocated ==
    /\ TypeOK
    /\ \A s \in Span :
          /\ objs[s] \subseteq Allocated(span[s])
          /\ span[s].allocCount = Cardinality(Allocated(span[s]))

(* Between cycles a span of small objects is one thread's (in its cache or *)
(* on the way there) or nobody's; a span that is nobody's is in nonempty   *)
(* exactly if it has a free slot, so that no memory is lost to the central *)
(* and no thread is given a full span.                                     *)
Owners(s) == {t \in Thread : cached[t] = s \/ (th[t].pc \in {"insert", "have"} /\ th[t].s = s)}

OnePlace ==
    mtx = NULL => \A s \in Span :
        /\ Cardinality(Owners(s)) <= 1
        /\ Contains(nonempty, s) <=>
              /\ span[s].state = "inUse" /\ span[s].class = "small"
              /\ Owners(s) = {} /\ ~WasEmpty(span[s])
        /\ (\E t \in Owners(s) : th[t].pc # "insert") => Contains(empty, s)

(* Between cycles the buffer of this generation holds every span in use    *)
(* once and the other is empty: the next cycle sweeps all spans, none      *)
(* twice.  A span's sweepgen says that it is swept, or swept and cached.   *)
SweepBufferExact ==
    mtx = NULL =>
        /\ sweepSpans[1 - SweepBuffer(sweepgen)] = <<>>
        /\ LET b == sweepSpans[SweepBuffer(sweepgen)] IN
            IsInjective(b) /\ ToSet(b) = {s \in Span : span[s].state = "inUse"}
        /\ \A s \in Span : span[s].state = "inUse" =>
              /\ span[s].sweepgen \in {Gen(0), Gen(3)}
              /\ span[s].sweepgen = Gen(3) => \E t \in Thread : cached[t] = s

(* When the world starts again every span in use has been swept: its marks *)
(* are clear for the next cycle, it holds something, and no cache holds    *)
(* it.                                                                     *)
CycleSweepsAll ==
    \A t \in Thread : (th[t].pc = "release" /\ todo = <<>>) =>
        /\ \A u \in Thread : cached[u] = NULL
        /\ \A s \in Span : span[s].state = "inUse" =>
              span[s].sweepgen = Gen(0) /\ span[s].gcmarkBits = {} /\ span[s].allocCount > 0

-----------------------------------------------------------------------------
(* Of the code as it is, with threads that are still allocating when the   *)
(* world is "stopped":                                                     *)

Collecting(t) ==
    \/ th[t].pc \in {"stop", "mark", "gcSweep", "release", "flush"}
    \/ th[t].pc \in {"sweepone", "pop", "sweep", "push", "free"} /\ th[t].ret \in {"cycle", "release"}

(* gcStart tests work.gcing before it takes worldsema: still only one      *)
(* thread runs a cycle, the mark phase is its, and whoever takes worldsema *)
(* finds no phase under way, so that the second test never fails.          *)
OneCollector ==
    /\ \A t, u \in Thread : Collecting(t) /\ Collecting(u) => t = u
    /\ gcphase # "off" => worldsema # NULL
    /\ worldsema # NULL <=> \E t \in Thread : Collecting(t) /\ worldsema = t

(* The central's lists stay lists: no span is in both, or twice in one, or *)
(* free and still in one.                                                  *)
ListsIntact ==
    /\ IsInjective(nonempty \o empty)
    /\ \A s \in ToSet(nonempty \o empty) : span[s].state = "inUse" /\ span[s].class = "small"

(* sweep.c:78: "The span must be in our exclusive ownership until we       *)
(* update sweepgen".                                                       *)
ExclusiveSweep ==
    \A t \in Thread : th[t].pc = "sweep" =>
        span[th[t].s].state = "inUse" /\ span[th[t].s].sweepgen = Gen(-1)

=============================================================================

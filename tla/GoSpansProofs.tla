--------------------------- MODULE GoSpansProofs ----------------------------
(***************************************************************************)
(* gc-golang's spans and collections, for any threads, spans, sizes and    *)
(* number of cycles.  One thread at a time runs a collection, wherever the *)
(* others are.  When the world is stopped at safe points nothing throws,   *)
(* no span is lost or in two places, what the program reaches stays        *)
(* allocated, and every cycle sweeps every span.                           *)
(***************************************************************************)
EXTENDS GoSpans, BasicLemmas

(***************************************************************************)
(* Wherever the threads are: one thread runs a collection.                 *)
(***************************************************************************)

(* The locals of a thread, whatever the values.                            *)
Frame(r) == r = [f \in {"pc", "sg", "swept", "at", "s", "ret"} |-> r[f]]

(* sweepone is called from gcStart and from gcSweep, span_sweep from the   *)
(* five places AfterSweep names.                                           *)
Called(r) ==
    /\ r.pc \in {"sweepone", "pop"} => r.ret \in {"help", "cycle"}
    /\ r.pc \in {"sweep", "push", "free"} =>
          r.ret \in {"help", "cycle", "release", "have", "recheck"}

InCycle(r) ==
    \/ r.pc \in {"stop", "mark", "gcSweep", "release", "flush"}
    \/ r.pc \in {"sweepone", "pop", "sweep", "push", "free"} /\ r.ret \in {"cycle", "release"}

InMark(r) == r.pc \in {"stop", "mark", "gcSweep"}

FramesOK ==
    /\ th = [t \in Thread |-> th[t]]
    /\ \A t \in Thread : Frame(th[t]) /\ Called(th[t])

(* worldsema is the thread that runs a cycle, and the phase is not off     *)
(* only between Begin and gcSweep.                                         *)
SemaOK ==
    /\ worldsema \in Thread \cup {NULL}
    /\ \A t \in Thread : InCycle(th[t]) <=> worldsema = t
    /\ gcphase # "off" => worldsema # NULL /\ InMark(th[worldsema])

CollectorInv == FramesOK /\ SemaOK

(* A step of t that neither begins nor ends a cycle or its mark phase.     *)
Local(t) ==
    /\ th' = [th EXCEPT ![t] = th'[t]]
    /\ Frame(th'[t]) /\ Called(th'[t])
    /\ InCycle(th'[t]) = InCycle(th[t])
    /\ InMark(th'[t]) = InMark(th[t])
    /\ UNCHANGED <<worldsema, gcphase>>

(* A step of t that goes to pc.                                            *)
To(t, pc, ret) ==
    /\ th' = [th EXCEPT ![t] = th'[t]]
    /\ Frame(th'[t]) /\ th'[t].pc = pc /\ th'[t].ret = ret
    /\ UNCHANGED <<worldsema, gcphase>>

LEMMA NullNoThread == NULL \notin Thread
  BY GoSpansAssumption DEF GoSpansAssumption

LEMMA InvImplies == CollectorInv => OneCollector
  BY NullNoThread DEF CollectorInv, FramesOK, SemaOK, OneCollector, Collecting, InCycle, InMark

LEMMA InvInit == Init => CollectorInv
  BY NullNoThread
  DEF Init, Idle, CollectorInv, FramesOK, SemaOK, Frame, Called, InCycle, InMark

LEMMA LocalKeeps ==
  ASSUME CollectorInv, NEW t \in Thread, Local(t)
  PROVE  CollectorInv'
<1>1. \A u \in Thread : u # t => th'[u] = th[u]
  BY DEF Local, CollectorInv, FramesOK
<1>2. FramesOK'
  <2>1. th' = [u \in Thread |-> th'[u]]
    BY DEF Local, CollectorInv, FramesOK
  <2>2. \A u \in Thread : Frame(th'[u]) /\ Called(th'[u])
    BY <1>1 DEF Local, CollectorInv, FramesOK
  <2>. QED  BY <2>1, <2>2 DEF FramesOK
<1>3. SemaOK'
  <2>1. \A u \in Thread : InCycle(th'[u]) = InCycle(th[u]) /\ InMark(th'[u]) = InMark(th[u])
    BY <1>1 DEF Local
  <2>. QED  BY <2>1, NullNoThread DEF Local, CollectorInv, SemaOK
<1>. QED  BY <1>2, <1>3 DEF CollectorInv

(* What remains to be shown of a step that begins or ends a cycle, or ends *)
(* its mark phase.                                                         *)
LEMMA MoveKeeps ==
  ASSUME FramesOK, NEW t \in Thread, NEW r, Move(t, r), Frame(r), Called(r)
  PROVE  FramesOK' /\ th'[t] = r /\ \A u \in Thread : u # t => th'[u] = th[u]
<1>1. th'[t] = r /\ \A u \in Thread : u # t => th'[u] = th[u]
  BY DEF Move, FramesOK
<1>2. th' = [u \in Thread |-> th'[u]]
  BY DEF Move, FramesOK
<1>. QED  BY <1>1, <1>2 DEF FramesOK

LEMMA AllocateLocal ==
  ASSUME CollectorInv, NEW t \in Thread, Allocate(t)
  PROVE  Local(t)
<1>0. th = [u \in Thread |-> th[u]] /\ Frame(th[t]) /\ Called(th[t])
  BY DEF CollectorInv, FramesOK
<1>1. CASE mallocgc(t)
  BY <1>0, <1>1 DEF mallocgc, At, Move, Goto, gcVars,
     Local, Frame, Called, InCycle, InMark
<1>2. CASE cache_nextFree(t)
  BY <1>0, <1>2 DEF cache_nextFree, At, Move, Return, Idle, gcVars,
     Local, Frame, Called, InCycle, InMark
<1>3. CASE CacheFull(t)
  BY <1>0, <1>3 DEF CacheFull, At, Move, Goto, gcVars,
     Local, Frame, Called, InCycle, InMark
<1>4. CASE cache_refill(t)
  BY <1>0, <1>4 DEF cache_refill, At, Move, Goto, gcVars,
     Local, Frame, Called, InCycle, InMark
<1>5. CASE central_cacheSpan(t)
  <2>1. To(t, "nonempty", th[t].ret)
    BY <1>0, <1>5 DEF central_cacheSpan, Move, To, Frame, gcVars
  <2>2. th[t].pc \in {"central", "retry"}
    BY <1>5 DEF central_cacheSpan, At
  <2>. QED  BY <1>0, <2>1, <2>2 DEF To, Local, Called, InCycle, InMark
<1>6. CASE FromNonempty(t)
  <2>1. To(t, "have", th[t].ret) \/ To(t, "sweep", "have")
    BY <1>0, <1>6 DEF FromNonempty, Move, Sweeps, To, Frame, gcVars
  <2>2. th[t].pc = "nonempty"
    BY <1>6 DEF FromNonempty, At
  <2>. QED  BY <1>0, <2>1, <2>2 DEF To, Local, Called, InCycle, InMark
<1>7. CASE FromEmpty(t)
  <2>1. To(t, "sweep", "recheck")
    BY <1>0, <1>7 DEF FromEmpty, Move, Sweeps, To, Frame, gcVars
  <2>2. th[t].pc = "empty"
    BY <1>7 DEF FromEmpty, At
  <2>. QED  BY <1>0, <2>1, <2>2 DEF To, Local, Called, InCycle, InMark
<1>8. CASE SkipSpan(t)
  BY <1>0, <1>8 DEF SkipSpan, At, Move, gcVars,
     Local, Frame, Called, InCycle, InMark
<1>9. CASE NoneInNonempty(t)
  <2>1. To(t, "empty", th[t].ret)
    BY <1>0, <1>9 DEF NoneInNonempty, Move, To, Frame, gcVars
  <2>2. th[t].pc = "nonempty"
    BY <1>9 DEF NoneInNonempty, At
  <2>. QED  BY <1>0, <2>1, <2>2 DEF To, Local, Called, InCycle, InMark
<1>10. CASE NoneInEmpty(t)
  BY <1>0, <1>10 DEF NoneInEmpty, At, Move, Goto, gcVars,
     Local, Frame, Called, InCycle, InMark
<1>11. CASE Recheck(t)
  BY <1>0, <1>11 DEF Recheck, At, Move, Goto, gcVars,
     Local, Frame, Called, InCycle, InMark
<1>12. CASE central_grow(t)
  <2>1. To(t, "insert", th[t].ret)
    BY <1>0, <1>12 DEF central_grow, Move, To, Frame, gcVars
  <2>2. th[t].pc = "grow"
    BY <1>12 DEF central_grow, At
  <2>. QED  BY <1>0, <2>1, <2>2 DEF To, Local, Called, InCycle, InMark
<1>13. CASE Insert(t)
  BY <1>0, <1>13 DEF Insert, At, Move, Goto, gcVars,
     Local, Frame, Called, InCycle, InMark
<1>14. CASE largeAlloc(t)
  BY <1>0, <1>14 DEF largeAlloc, At, Move, Return, Idle, gcVars,
     Local, Frame, Called, InCycle, InMark
<1>15. CASE OutOfMemory(t)
  BY <1>0, <1>15 DEF OutOfMemory, At, Move, gcVars,
     Local, Frame, Called, InCycle, InMark
<1>16. CASE Cache(t)
  BY <1>0, <1>16 DEF Cache, At, Move, Idle, gcVars,
     Local, Frame, Called, InCycle, InMark
<1>. QED
  BY <1>1, <1>2, <1>3, <1>4, <1>5, <1>6, <1>7, <1>8, <1>9, <1>10, <1>11, <1>12, <1>13,
     <1>14, <1>15, <1>16 DEF Allocate

LEMMA SweepLocal ==
  ASSUME CollectorInv, NEW t \in Thread, SweepStep(t)
  PROVE  Local(t)
<1>0. th = [u \in Thread |-> th[u]] /\ Frame(th[t]) /\ Called(th[t])
  BY DEF CollectorInv, FramesOK
<1>1. CASE sweepone(t)
  <2>1. \E pc \in {"try", "release", "pop"} :
           /\ To(t, pc, th[t].ret)
           /\ pc = "try" => th[t].ret = "help"
           /\ pc = "release" => th[t].ret # "help"
    <3>1. CASE sweepdone
      BY <1>0, <1>1, <3>1 DEF sweepone, Move, Goto, To, Frame, gcVars
    <3>2. CASE ~sweepdone
      BY <1>0, <1>1, <3>2 DEF sweepone, Move, Goto, To, Frame, gcVars
    <3>. QED  BY <3>1, <3>2
  <2>2. th[t].pc = "sweepone"
    BY <1>1 DEF sweepone, At
  <2>. QED  BY <1>0, <2>1, <2>2 DEF To, Local, Called, InCycle, InMark
<1>2. CASE gcsweepbuf_pop(t)
  <2>1. To(t, "pop", th[t].ret) \/ To(t, "sweep", th[t].ret)
    <3>1. CASE UNCHANGED th
      BY <1>0, <1>2, <3>1 DEF gcsweepbuf_pop, At, To, gcVars
    <3>2. CASE \E s : Sweeps(t, s, th[t].ret)
      BY <1>0, <1>2, <3>2 DEF gcsweepbuf_pop, Move, Sweeps, To, Frame, gcVars
    <3>. QED  BY <1>2, <3>1, <3>2 DEF gcsweepbuf_pop
  <2>2. th[t].pc = "pop"
    BY <1>2 DEF gcsweepbuf_pop, At
  <2>. QED  BY <1>0, <2>1, <2>2 DEF To, Local, Called, InCycle, InMark
<1>3. CASE SweepDone(t)
  <2>1. \E pc \in {"try", "release"} :
           /\ To(t, pc, th[t].ret)
           /\ pc = "try" => th[t].ret = "help"
           /\ pc = "release" => th[t].ret # "help"
    BY <1>0, <1>3 DEF SweepDone, Move, Goto, To, Frame, gcVars
  <2>2. th[t].pc = "pop"
    BY <1>3 DEF SweepDone, At
  <2>. QED  BY <1>0, <2>1, <2>2 DEF To, Local, Called, InCycle, InMark
<1>4. CASE span_sweep(t)
  <2>1. \E pc \in {"push", "free"} : To(t, pc, th[t].ret)
    BY <1>0, <1>4 DEF span_sweep, Move, To, Frame, gcVars
  <2>2. th[t].pc = "sweep"
    BY <1>4 DEF span_sweep, At
  <2>. QED  BY <1>0, <2>1, <2>2 DEF To, Local, Called, InCycle, InMark
<1>5. CASE gcsweepbuf_push(t)
  <2>1. To(t, AfterSweep(th[t].ret), th[t].ret)
    BY <1>0, <1>5 DEF gcsweepbuf_push, Move, Swept, To, Frame, gcVars
  <2>2. th[t].pc = "push"
    BY <1>5 DEF gcsweepbuf_push, At
  <2>. QED  BY <1>0, <2>1, <2>2 DEF To, Local, Called, InCycle, InMark, AfterSweep
<1>6. CASE heap_freeSpan(t)
  <2>1. To(t, AfterSweep(th[t].ret), th[t].ret)
    BY <1>0, <1>6 DEF heap_freeSpan, Move, Swept, To, Frame, gcVars
  <2>2. th[t].pc = "free"
    BY <1>6 DEF heap_freeSpan, At
  <2>. QED  BY <1>0, <2>1, <2>2 DEF To, Local, Called, InCycle, InMark, AfterSweep
<1>. QED  BY <1>1, <1>2, <1>3, <1>4, <1>5, <1>6 DEF SweepStep

LEMMA CollectKeeps ==
  ASSUME CollectorInv, NEW t \in Thread, Collect(t)
  PROVE  CollectorInv'
<1>0. th = [u \in Thread |-> th[u]] /\ Frame(th[t]) /\ Called(th[t])
  BY DEF CollectorInv, FramesOK
<1>1. CASE gcStart(t)
  BY <1>0, <1>1, LocalKeeps DEF gcStart, At, Move, Goto, gcVars,
     Local, Frame, Called, InCycle, InMark
<1>2. CASE Help(t)
  <2>1. \E pc \in {"sweepone", "try"} :
           To(t, pc, th'[t].ret) /\ (pc = "sweepone" => th'[t].ret = "help")
    BY <1>0, <1>2 DEF Help, Move, Idle, To, Frame, gcVars
  <2>2. th[t].pc = "help"
    BY <1>2 DEF Help, At
  <2>. QED  BY <1>0, <2>1, <2>2, LocalKeeps DEF To, Local, Called, InCycle, InMark
<1>3. CASE TryStart(t)
  <2>1. \E pc \in {"sema", "wait"} : To(t, pc, "none")
    BY <1>0, <1>3 DEF TryStart, Move, Idle, To, Frame, gcVars
  <2>2. th[t].pc = "try"
    BY <1>3 DEF TryStart, At
  <2>. QED  BY <1>0, <2>1, <2>2, LocalKeeps DEF To, Local, Called, InCycle, InMark
<1>4. CASE Await(t)
  BY <1>0, <1>4, LocalKeeps DEF Await, At, Move, Return, Idle, gcVars,
     Local, Frame, Called, InCycle, InMark
<1>5. CASE stopTheWorld(t)
  <2>1. To(t, "mark", th[t].ret)
    BY <1>0, <1>5 DEF stopTheWorld, Move, Goto, To, Frame
  <2>2. th[t].pc = "stop"
    BY <1>5 DEF stopTheWorld, At
  <2>. QED  BY <1>0, <2>1, <2>2, LocalKeeps DEF To, Local, Called, InCycle, InMark
<1>6. CASE gcDrain(t)
  <2>1. To(t, "gcSweep", th[t].ret)
    BY <1>0, <1>6 DEF gcDrain, Move, Goto, To, Frame, gcVars
  <2>2. th[t].pc = "mark"
    BY <1>6 DEF gcDrain, At
  <2>. QED  BY <1>0, <2>1, <2>2, LocalKeeps DEF To, Local, Called, InCycle, InMark
<1>7. CASE central_uncacheSpan(t)
  <2>1. To(t, "sweep", "release") \/ To(t, "flush", th[t].ret)
    BY <1>0, <1>7 DEF central_uncacheSpan, Move, Goto, Sweeps, To, Frame, gcVars
  <2>2. th[t].pc = "release"
    BY <1>7 DEF central_uncacheSpan, At
  <2>. QED  BY <1>0, <2>1, <2>2, LocalKeeps DEF To, Local, Called, InCycle, InMark
<1>8. CASE cache_releaseAll(t)
  <2>1. To(t, "release", "none")
    BY <1>0, <1>8 DEF cache_releaseAll, Move, Idle, To, Frame, gcVars
  <2>2. th[t].pc \in {"flush", "release"}
    BY <1>8 DEF cache_releaseAll, At
  <2>. QED  BY <1>0, <2>1, <2>2, LocalKeeps DEF To, Local, Called, InCycle, InMark
<1>9. CASE Begin(t)
  <2>. DEFINE r == [th[t] EXCEPT !.pc = "stop"]
  <2>1. Frame(r) /\ Called(r) /\ InCycle(r) /\ InMark(r)
    BY <1>0 DEF Frame, Called, InCycle, InMark
  <2>2. Move(t, r)
    BY <1>9 DEF Begin, Goto
  <2>3. FramesOK' /\ th'[t] = r /\ \A u \in Thread : u # t => th'[u] = th[u]
    BY <2>1, <2>2, MoveKeeps DEF CollectorInv
  <2>4. SemaOK'
    BY <1>9, <2>1, <2>3, NullNoThread
    DEF Begin, At, CollectorInv, SemaOK, InCycle, InMark
  <2>. QED  BY <2>3, <2>4 DEF CollectorInv
<1>10. CASE gcSweep(t)
  <2>. DEFINE r == [Idle EXCEPT !.pc = "sweepone", !.ret = "cycle"]
  <2>1. Frame(r) /\ Called(r) /\ InCycle(r)
    BY <1>0 DEF Frame, Called, InCycle, InMark, Idle
  <2>2. Move(t, r)
    BY <1>10 DEF gcSweep, Goto
  <2>3. FramesOK' /\ th'[t] = r /\ \A u \in Thread : u # t => th'[u] = th[u]
    BY <2>1, <2>2, MoveKeeps DEF CollectorInv
  <2>4. SemaOK'
    BY <1>10, <2>1, <2>3, NullNoThread
    DEF gcSweep, At, CollectorInv, SemaOK, InCycle, InMark
  <2>. QED  BY <2>3, <2>4 DEF CollectorInv
<1>11. CASE startTheWorld(t)
  <2>. DEFINE r == Idle
  <2>1. Frame(r) /\ Called(r) /\ ~InCycle(r) /\ ~InMark(r)
    BY <1>0 DEF Frame, Called, InCycle, InMark, Idle
  <2>2. Move(t, r)
    BY <1>11 DEF startTheWorld, Return
  <2>3. FramesOK' /\ th'[t] = r /\ \A u \in Thread : u # t => th'[u] = th[u]
    BY <2>1, <2>2, MoveKeeps DEF CollectorInv
  <2>4. SemaOK'
    BY <1>11, <2>1, <2>3, NullNoThread
    DEF startTheWorld, At, CollectorInv, SemaOK, InCycle, InMark
  <2>. QED  BY <2>3, <2>4 DEF CollectorInv
<1>. QED
  BY <1>1, <1>2, <1>3, <1>4, <1>5, <1>6, <1>7, <1>8, <1>9, <1>10, <1>11 DEF Collect

LEMMA InvStep == CollectorInv /\ [Next]_vars => CollectorInv'
<1>. SUFFICES ASSUME CollectorInv, [Next]_vars  PROVE CollectorInv'
  OBVIOUS
<1>1. CASE UNCHANGED vars
  BY <1>1 DEF vars, gcVars, CollectorInv, FramesOK, SemaOK, Frame, Called, InCycle, InMark
<1>2. ASSUME NEW t \in Thread, Allocate(t)  PROVE CollectorInv'
  BY <1>2, AllocateLocal, LocalKeeps
<1>3. ASSUME NEW t \in Thread, SweepStep(t)  PROVE CollectorInv'
  BY <1>3, SweepLocal, LocalKeeps
<1>4. ASSUME NEW t \in Thread, Collect(t)  PROVE CollectorInv'
  BY <1>4, CollectKeeps
<1>5. ASSUME NEW t \in Thread, Throw(t)  PROVE CollectorInv'
  BY <1>5 DEF Throw, gcVars, CollectorInv, FramesOK, SemaOK, Frame, Called, InCycle, InMark
<1>. QED  BY <1>1, <1>2, <1>3, <1>4, <1>5 DEF Next, Exited

(* Only one thread runs a collection, and the phase is off whenever        *)
(* worldsema is free, although gcStart tests work.gcing before it waits    *)
(* for worldsema (mgc/gc.c:20-32).                                         *)
THEOREM OneCollectorAlways == Spec => []OneCollector
<1>1. Init => CollectorInv                    BY InvInit
<1>2. CollectorInv /\ [Next]_vars => CollectorInv'  BY InvStep
<1>3. CollectorInv => OneCollector            BY InvImplies
<1>. QED  BY <1>1, <1>2, <1>3, PTL DEF Spec

(***************************************************************************)
(* When the world is stopped at safe points.                               *)
(***************************************************************************)

(***************************************************************************)
(* A span.                                                                 *)
(***************************************************************************)
Slots(sp) == 0 .. sp.nelems - 1
Full(sp) == sp.allocCount = sp.nelems

(* A span in use counts what it has given out, and only that is marked.    *)
Sound(sp) ==
    /\ sp \in MSpan /\ sp.state = "inUse"
    /\ sp.nelems = IF sp.class = "small" THEN NELEMS ELSE 1
    /\ sp.freeindex <= sp.nelems
    /\ sp.allocBits \subseteq Slots(sp) /\ sp.gcmarkBits \subseteq Allocated(sp)
    /\ sp.allocCount = Cardinality(Allocated(sp))

Blank(sp) == sp \in MSpan /\ sp = [FreeSpan EXCEPT !.sweepgen = sp.sweepgen]

Small(s) == span[s].state = "inUse" /\ span[s].class = "small"

Old == sweepSpans[1 - SweepBuffer(sweepgen)]
New == sweepSpans[SweepBuffer(sweepgen)]

(***************************************************************************)
(* Before gcSweep: threads allocate, or the collector marks.               *)
(***************************************************************************)
GivingUp == {"central", "nonempty", "empty", "grow", "insert", "have"}

(* What thread t has to do with span s: it has it in hand on the way to    *)
(* its cache; it has it in its cache, still in use or given up.            *)
InHand(t, s) == th[t].pc \in {"insert", "have"} /\ th[t].s = s
Inserts(t, s) == th[t].pc = "insert" /\ th[t].s = s
Takes(t, s) == th[t].pc = "take" /\ cached[t] = s
Uses(t, s) == th[t].pc \notin GivingUp /\ cached[t] = s
Has(t, s) == cached[t] = s \/ InHand(t, s)

ThreadOpen(t) ==
    /\ th[t].pc \in {"nonempty", "empty"} <=> locks = t
    /\ th[t].pc \in {"nonempty", "empty", "pop"} => th[t].sg = sweepgen
    /\ th[t].pc \in {"nonempty", "empty"} => th[t].at >= 1
    /\ th[t].pc \in {"insert", "have"} =>
          /\ th[t].s \in Span /\ Small(th[t].s) /\ ~Full(span[th[t].s])
          /\ \A u \in Thread : cached[u] # th[t].s
    /\ th[t].pc = "take" => cached[t] # NULL
    /\ cached[t] # NULL =>
          /\ cached[t] \in Span /\ Small(cached[t])
          /\ th[t].pc = "take" => ~Full(span[cached[t]])
          /\ th[t].pc \in GivingUp \cup {"refill"} => Full(span[cached[t]])

SpanOpen(s) ==
    LET sp == span[s] IN
    /\ sp.state = "free" => Blank(sp) /\ objs[s] = {}
    /\ sp.state # "free" =>
          /\ Sound(sp) /\ objs[s] \subseteq Allocated(sp)
          /\ sp.sweepgen \in {Gen(0), Gen(3)}
          /\ sp.sweepgen = Gen(3) <=> \E t \in Thread : Uses(t, s)
          /\ gcphase = "off" => sp.gcmarkBits = {}
          /\ (\E t \in Thread : th[t].pc = "gcSweep") => objs[s] \subseteq sp.gcmarkBits
          /\ sp.allocCount > 0 \/ \E t \in Thread : InHand(t, s) \/ Takes(t, s)
    /\ \A t, u \in Thread : Has(t, s) /\ Has(u, s) => t = u
    /\ s \in ToSet(nonempty) <=> Small(s) /\ ~Full(sp) /\ \A t \in Thread : ~Has(t, s)
    /\ s \in ToSet(empty) <=>
          /\ Small(s)
          /\ Full(sp) \/ \E t \in Thread : Has(t, s)
          /\ \A t \in Thread : ~Inserts(t, s)
    /\ s \in ToSet(New) <=> sp.state # "free"

Open ==
    /\ \A t \in Thread : ThreadOpen(t)
    /\ \A s \in Span : SpanOpen(s)
    /\ IsInjective(New) /\ Old = <<>>
    /\ IsInjective(nonempty) /\ IsInjective(empty)

(***************************************************************************)
(* From gcSweep to startTheWorld: thread c sweeps.                         *)
(***************************************************************************)
(* It has got the next cache's span out of the cache.                      *)
Past(c) ==
    \/ th[c].pc = "flush"
    \/ th[c].pc \in {"sweep", "push", "free"} /\ th[c].ret = "release"

(* Span s is in a cache that is still to be flushed.                       *)
Held(c, s) ==
    \E t \in Thread : cached[t] = s /\ ~(Past(c) /\ t = Head(todo))

Carries(c, pcs, s) == th[c].pc \in pcs /\ th[c].s = s

CollectorSweeps(c) ==
    /\ locks = NULL
    /\ th[c].pc = "pop" => th[c].sg = sweepgen
    /\ th[c].pc \in {"push", "free"} => th[c].swept = sweepgen
    /\ th[c].pc \in {"sweep", "push", "free"} =>
          /\ th[c].s \in Span /\ span[th[c].s].state = "inUse"
          /\ th[c].pc = "free" => span[th[c].s].allocCount = 0
          /\ th[c].pc # "sweep" => span[th[c].s].sweepgen = Gen(0)
          /\ th[c].ret = "release" => cached[Head(todo)] = th[c].s
          /\ th[c].ret # "release" => \A t \in Thread : cached[t] # th[c].s
    /\ sweepdone \/ th[c].pc = "release" \/ Past(c) => Old = <<>>
    /\ Past(c) => todo # <<>>
    /\ todo \in Seq(Thread) /\ IsInjective(todo)
    /\ \A t \in Thread : cached[t] # NULL => t \in ToSet(todo)
    /\ \A t, u \in Thread : cached[t] # NULL /\ cached[t] = cached[u] => t = u

SpanSwept(c, s) ==
    LET sp == span[s] IN
    /\ sp.state = "free" => Blank(sp) /\ objs[s] = {}
    /\ sp.state # "free" =>
          /\ Sound(sp) /\ objs[s] \subseteq Allocated(sp)
          /\ sp.sweepgen \in {Gen(-2), Gen(-1), Gen(0), Gen(1)}
          /\ sp.sweepgen = Gen(-1) <=> Carries(c, {"sweep"}, s)
          /\ sp.sweepgen = Gen(1) <=> Held(c, s)
          /\ IF sp.sweepgen = Gen(0) THEN sp.gcmarkBits = {} ELSE objs[s] \subseteq sp.gcmarkBits
          /\ sp.allocCount > 0 \/ Carries(c, {"free"}, s)
          /\ sp.sweepgen = Gen(-2) => s \in ToSet(Old)
    /\ Held(c, s) => Small(s)
    /\ s \in ToSet(nonempty) <=>
          Small(s) /\ ~Full(sp) /\ ~Held(c, s) /\ ~Carries(c, {"free"}, s)
    /\ s \in ToSet(empty) <=>
          Small(s) /\ (Full(sp) \/ Held(c, s)) /\ ~Carries(c, {"free"}, s)
    /\ s \in ToSet(New) <=>
          sp.state # "free" /\ sp.sweepgen = Gen(0) /\ ~Carries(c, {"push", "free"}, s)
    /\ s \in ToSet(Old) => sp.state # "free" /\ sp.sweepgen \in {Gen(-2), Gen(1)}

Sweep(c) ==
    /\ CollectorSweeps(c)
    /\ \A s \in Span : SpanSwept(c, s)
    /\ IsInjective(New) /\ IsInjective(Old)
    /\ IsInjective(nonempty) /\ IsInjective(empty)

(***************************************************************************)
(* The inductive invariant.                                                *)
(***************************************************************************)
InSweep(c) == th[c].pc \in {"sweepone", "pop", "sweep", "push", "free", "release", "flush"}

Running == {"idle", "small", "large", "refill", "central", "nonempty", "empty", "grow", "insert",
            "have", "take", "sweepone", "pop", "help", "try", "wait", "sema", "stop"}

WorldOK ==
    /\ mtx \in Thread \cup {NULL}
    /\ \A t \in Thread : th[t].pc \in {"stop", "mark", "gcSweep"} => gcphase = "mark"
    /\ mtx = NULL =>
          /\ stopped = {}
          /\ \A t \in Thread :
                /\ th[t].pc \in Running
                /\ th[t].pc \in {"sweepone", "pop"} => th[t].ret = "help"
    /\ mtx # NULL =>
          /\ worldsema = mtx /\ stopped = Thread \ {mtx}
          /\ th[mtx].pc \in {"mark", "gcSweep"} \/ InSweep(mtx)
          /\ \A t \in Thread \ {mtx} : AtSafePoint(t)

IInv ==
    /\ TypeOK /\ CollectorInv /\ WorldOK
    /\ IF mtx # NULL /\ InSweep(mtx) THEN Sweep(mtx) ELSE Open
    /\ exit # "throw"

(***************************************************************************)
(* Generations.                                                            *)
(***************************************************************************)
LEMMA Constants ==
  /\ NELEMS \in Nat \ {0} /\ GenMod \in Nat /\ GenMod >= 8 /\ GenMod % 4 = 0
  /\ NULL \notin Span /\ NULL \notin Thread /\ IsFiniteSet(Thread)
BY GoSpansAssumption DEF GoSpansAssumption

LEMMA Modulo ==
  ASSUME NEW m \in Nat, m >= 8, NEW x \in Int
  PROVE  /\ 0 <= x /\ x < m => x % m = x
         /\ m <= x /\ x < m + m => x % m = x - m
         /\ 0 - m <= x /\ x < 0 => x % m = x + m
OBVIOUS

LEMMA Differences ==
  ASSUME NEW g \in 0 .. GenMod - 1
  PROVE  /\ \A k \in {(-2), (-1), 0, 1, 2, 3} : (g + k) % GenMod \in 0 .. GenMod - 1
         /\ \A j, k \in {(-2), (-1), 0, 1, 3} : (g + j) % GenMod = (g + k) % GenMod => j = k
         /\ (g + 0) % GenMod = g
         /\ (g - 2) % GenMod = (g + (-2)) % GenMod /\ (g - 1) % GenMod = (g + (-1)) % GenMod
<1>1. GenMod \in Nat /\ GenMod >= 8
  BY Constants
<1>2. \A k \in {(-2), (-1), 0, 1, 2, 3} :
        (g + k) % GenMod = IF g + k < 0 THEN g + k + GenMod
                           ELSE IF g + k < GenMod THEN g + k ELSE g + k - GenMod
  BY <1>1, Modulo
<1>. QED  BY <1>1, <1>2

LEMMA Successor ==
  ASSUME NEW g \in 0 .. GenMod - 1, NEW h, h = (g + 2) % GenMod
  PROVE  /\ h \in 0 .. GenMod - 1
         /\ (h + (-2)) % GenMod = g /\ (h + 1) % GenMod = (g + 3) % GenMod
         /\ SweepBuffer(h) = 1 - SweepBuffer(g) /\ SweepBuffer(g) \in {0, 1}
<1>1. GenMod \in Nat /\ GenMod >= 8 /\ GenMod % 4 = 0
  BY Constants
<1>2. h = IF g + 2 < GenMod THEN g + 2 ELSE g + 2 - GenMod
  BY <1>1, Modulo
<1>3. (h + (-2)) % GenMod = g
  BY <1>1, <1>2, Modulo
<1>4. (h + 1) % GenMod = (g + 3) % GenMod
  <2>1. (h + 1) % GenMod = IF h + 1 < GenMod THEN h + 1 ELSE h + 1 - GenMod
    BY <1>1, <1>2, Modulo
  <2>2. (g + 3) % GenMod = IF g + 3 < GenMod THEN g + 3 ELSE g + 3 - GenMod
    BY <1>1, Modulo
  <2>. QED  BY <1>1, <1>2, <2>1, <2>2
<1>5. PICK q \in Nat : GenMod = 4 * q
  BY <1>1
<1>6. h \div 2 = IF g + 2 < GenMod THEN g \div 2 + 1 ELSE g \div 2 + 1 - 2 * q
  BY <1>1, <1>2, <1>5
<1>7. (h \div 2) % 2 = 1 - ((g \div 2) % 2) /\ (g \div 2) % 2 \in {0, 1}
  BY <1>1, <1>5, <1>6
<1>. QED  BY <1>1, <1>2, <1>3, <1>4, <1>7 DEF SweepBuffer

(***************************************************************************)
(* A span.                                                                 *)
(***************************************************************************)
LEMMA SpanTypes ==
  ASSUME NEW sp, Sound(sp)
  PROVE  /\ sp.nelems \in 1 .. NELEMS /\ sp.nelems <= NELEMS /\ sp.freeindex \in 0 .. sp.nelems
         /\ sp.nelems \in Nat /\ sp.freeindex \in Nat
         /\ Allocated(sp) \subseteq Slots(sp) /\ Slots(sp) \subseteq Slot
         /\ IsFiniteSet(Allocated(sp)) /\ IsFiniteSet(Slots(sp))
         /\ sp.allocCount \in Nat /\ sp.allocCount <= sp.nelems
         /\ Cardinality(Slots(sp)) = sp.nelems
         /\ Full(sp) <=> Allocated(sp) = Slots(sp)
<1>1. /\ sp.nelems \in 1 .. NELEMS /\ sp.freeindex \in 0 .. sp.nelems
      /\ sp.nelems \in Nat /\ sp.freeindex \in Nat
  <2>1. sp.freeindex \in 0 .. NELEMS /\ sp.freeindex <= sp.nelems
    BY DEF Sound, MSpan
  <2>2. sp.nelems \in {1, NELEMS}
    BY DEF Sound
  <2>. QED  BY <2>1, <2>2, Constants
<1>2. Allocated(sp) \subseteq Slots(sp) /\ Slots(sp) \subseteq Slot
  <2>1. sp.allocBits \subseteq Slots(sp)
    BY DEF Sound
  <2>. QED  BY <1>1, <2>1, Constants DEF Allocated, Slots, Slot
<1>3. IsFiniteSet(Slots(sp)) /\ Cardinality(Slots(sp)) = sp.nelems
  <2>1. 0 \in Int /\ sp.nelems - 1 \in Int
    BY <1>1
  <2>2. IsFiniteSet(0 .. sp.nelems - 1)
        /\ Cardinality(0 .. sp.nelems - 1) = IF 0 > sp.nelems - 1 THEN 0 ELSE sp.nelems - 1 - 0 + 1
    BY <2>1, FS_Interval
  <2>. QED  BY <1>1, <2>2 DEF Slots
<1>4. /\ IsFiniteSet(Allocated(sp)) /\ Cardinality(Allocated(sp)) <= sp.nelems
      /\ Cardinality(Allocated(sp)) \in Nat
      /\ Cardinality(Allocated(sp)) = sp.nelems <=> Allocated(sp) = Slots(sp)
  BY <1>2, <1>3, FS_Subset, FS_CardinalityType
<1>5. sp.allocCount = Cardinality(Allocated(sp))
  BY DEF Sound
<1>. QED  BY <1>1, <1>2, <1>3, <1>4, <1>5, Constants DEF Full

LEMMA NextFree ==
  ASSUME NEW sp, Sound(sp)
  PROVE  LET k == span_nextFreeIndex(sp) IN
         /\ k \in sp.freeindex .. sp.nelems
         /\ k < sp.nelems => k \notin Allocated(sp)
         /\ \A j \in sp.freeindex .. k - 1 : j \in sp.allocBits
<1>. DEFINE k == span_nextFreeIndex(sp)
            K == {sp.nelems} \cup {j \in sp.freeindex .. sp.nelems - 1 : j \notin sp.allocBits}
<1>1. /\ sp.nelems \in Nat /\ sp.freeindex \in Nat /\ sp.freeindex <= sp.nelems
  BY SpanTypes
<1>2. K \in SUBSET Nat /\ K # {}
  BY <1>1
<1>3. k \in K /\ \A j \in K : k <= j
  <2>1. k = Min(K)
    BY DEF span_nextFreeIndex
  <2>. HIDE DEF K, k
  <2>. QED  BY <1>2, <2>1, NatMin
<1>4. k \in sp.freeindex .. sp.nelems
  BY <1>1, <1>3
<1>5. k < sp.nelems => k \notin Allocated(sp)
  BY <1>1, <1>3 DEF Allocated
<1>6. ASSUME NEW j \in sp.freeindex .. k - 1  PROVE j \in sp.allocBits
  BY <1>1, <1>3, <1>4
<1>. QED  BY <1>4, <1>5, <1>6

LEMMA WasEmptyFull ==
  ASSUME NEW sp, Sound(sp)
  PROVE  /\ WasEmpty(sp) <=> Full(sp)
         /\ ~Full(sp) <=> HasFree(sp)
         /\ ~Full(sp) => sp.freeindex # sp.nelems
<1>. DEFINE k == span_nextFreeIndex(sp)
<1>1. /\ sp.nelems \in Nat /\ sp.freeindex \in Nat /\ sp.freeindex <= sp.nelems
      /\ sp.allocCount \in Nat /\ sp.allocCount <= sp.nelems
      /\ Allocated(sp) \subseteq Slots(sp)
      /\ Full(sp) <=> Allocated(sp) = Slots(sp)
  BY SpanTypes
<1>2. /\ k \in sp.freeindex .. sp.nelems
      /\ k < sp.nelems => k \notin Allocated(sp)
      /\ \A j \in sp.freeindex .. k - 1 : j \in sp.allocBits
  BY NextFree
<1>3. k = sp.nelems => Allocated(sp) = Slots(sp)
  BY <1>1, <1>2 DEF Allocated, Slots
<1>4. k < sp.nelems => Allocated(sp) # Slots(sp)
  BY <1>1, <1>2 DEF Slots
<1>5. sp.freeindex = sp.nelems => Allocated(sp) = Slots(sp)
  BY <1>1 DEF Allocated, Slots
<1>. QED  BY <1>1, <1>2, <1>3, <1>4, <1>5 DEF WasEmpty, HasFree, Full

(* The changes the program makes to a span.                                *)
LEMMA MSpanFields ==
  ASSUME NEW sp \in MSpan
  PROVE  /\ sp = [state |-> sp.state, class |-> sp.class, sweepgen |-> sp.sweepgen,
                  nelems |-> sp.nelems, freeindex |-> sp.freeindex,
                  allocCount |-> sp.allocCount, allocBits |-> sp.allocBits,
                  gcmarkBits |-> sp.gcmarkBits]
         /\ sp.state \in {"free", "inUse"} /\ sp.class \in {"small", "large"}
         /\ sp.sweepgen \in 0 .. GenMod - 1 /\ sp.nelems \in {0, 1, NELEMS}
         /\ sp.freeindex \in 0 .. NELEMS /\ sp.allocCount \in 0 .. NELEMS
         /\ sp.allocBits \in SUBSET Slot /\ sp.gcmarkBits \in SUBSET Slot
BY DEF MSpan

LEMMA SoundAgain ==
  ASSUME NEW sp, Sound(sp), NEW new \in MSpan,
         new.state = sp.state, new.class = sp.class, new.nelems = sp.nelems,
         new.freeindex <= sp.nelems, new.allocBits \subseteq Slots(sp),
         new.gcmarkBits \subseteq Allocated(new), new.allocCount = Cardinality(Allocated(new))
  PROVE  Sound(new)
<1>1. Slots(new) = Slots(sp)
  BY DEF Slots
<1>2. sp.state = "inUse" /\ sp.nelems = IF sp.class = "small" THEN NELEMS ELSE 1
  BY DEF Sound
<1>. QED  BY <1>1, <1>2 DEF Sound

LEMMA GiveOut ==
  ASSUME NEW sp, Sound(sp), ~Full(sp), NEW M,
         M \in {sp.gcmarkBits, sp.gcmarkBits \cup {span_nextFreeIndex(sp)}},
         NEW new, new = [sp EXCEPT !.freeindex = span_nextFreeIndex(sp) + 1,
                                   !.allocCount = @ + 1, !.gcmarkBits = M]
  PROVE  /\ Sound(new) /\ Allocated(new) = Allocated(sp) \cup {span_nextFreeIndex(sp)}
         /\ new.allocCount > 0 /\ span_nextFreeIndex(sp) \in Slot
         /\ new.class = sp.class /\ new.sweepgen = sp.sweepgen /\ new.gcmarkBits = M
<1>. DEFINE k == span_nextFreeIndex(sp)
<1>1. /\ k \in sp.freeindex .. sp.nelems
      /\ k < sp.nelems => k \notin Allocated(sp)
      /\ \A j \in sp.freeindex .. k - 1 : j \in sp.allocBits
  BY NextFree
<1>2. /\ sp.nelems \in Nat /\ sp.freeindex \in Nat /\ sp.nelems <= NELEMS
      /\ Allocated(sp) \subseteq Slots(sp) /\ Slots(sp) \subseteq Slot
      /\ IsFiniteSet(Allocated(sp)) /\ sp.allocCount \in Nat /\ sp.allocCount < sp.nelems
      /\ sp.allocCount = Cardinality(Allocated(sp))
  <2>1. sp.allocCount = Cardinality(Allocated(sp)) /\ sp.allocCount # sp.nelems
    BY DEF Full, Sound
  <2>. QED  BY <2>1, SpanTypes
<1>3. k # sp.nelems
  BY WasEmptyFull DEF WasEmpty
<1>4. k \in Slots(sp) /\ k \notin Allocated(sp) /\ k \in Slot
  BY <1>1, <1>2, <1>3 DEF Slots
<1>. HIDE DEF k
<1>5. /\ new.state = sp.state /\ new.class = sp.class /\ new.sweepgen = sp.sweepgen
      /\ new.nelems = sp.nelems /\ new.freeindex = k + 1 /\ new.allocCount = sp.allocCount + 1
      /\ new.allocBits = sp.allocBits /\ new.gcmarkBits = M /\ new \in MSpan
  <2>1. k + 1 \in 0 .. NELEMS /\ sp.allocCount + 1 \in 0 .. NELEMS
    BY <1>1, <1>2, <1>3, Constants
  <2>2. sp \in MSpan /\ M \in SUBSET Slot
    BY <1>4, MSpanFields DEF Sound, k
  <2>. QED  BY <2>1, <2>2 DEF MSpan, k
<1>6. Allocated(new) = Allocated(sp) \cup {k}
  BY <1>1, <1>2, <1>5 DEF Allocated
<1>7. new.allocCount = Cardinality(Allocated(new))
  BY <1>2, <1>4, <1>5, <1>6, FS_AddElement
<1>8. Sound(new)
  <2>1. sp.allocBits \subseteq Slots(sp) /\ sp.gcmarkBits \subseteq Allocated(sp)
    BY DEF Sound
  <2>2. M \subseteq Allocated(new)
    BY <1>6, <2>1 DEF k
  <2>3. new.freeindex <= sp.nelems
    BY <1>1, <1>2, <1>3, <1>5
  <2>. QED  BY <1>5, <1>7, <2>1, <2>2, <2>3, SoundAgain
<1>. QED  BY <1>2, <1>4, <1>5, <1>6, <1>8 DEF k

LEMMA FillUp ==
  ASSUME NEW sp, Sound(sp), Full(sp), NEW new, new = [sp EXCEPT !.freeindex = sp.nelems]
  PROVE  /\ Sound(new) /\ Allocated(new) = Allocated(sp) /\ Full(new)
         /\ new.class = sp.class /\ new.sweepgen = sp.sweepgen
         /\ new.gcmarkBits = sp.gcmarkBits /\ new.allocCount = sp.allocCount
<1>1. /\ sp.nelems \in Nat /\ sp.nelems <= NELEMS /\ Allocated(sp) = Slots(sp)
  BY SpanTypes
<1>2. /\ new.state = sp.state /\ new.class = sp.class /\ new.sweepgen = sp.sweepgen
      /\ new.nelems = sp.nelems /\ new.freeindex = sp.nelems /\ new.allocCount = sp.allocCount
      /\ new.allocBits = sp.allocBits /\ new.gcmarkBits = sp.gcmarkBits /\ new \in MSpan
  <2>1. sp.nelems \in 0 .. NELEMS
    BY <1>1, Constants
  <2>2. sp \in MSpan
    BY DEF Sound
  <2>. QED  BY <2>1, <2>2 DEF MSpan
<1>3. Allocated(new) = Allocated(sp)
  <2>1. sp.allocBits \subseteq Slots(sp)
    BY DEF Sound
  <2>. QED  BY <1>1, <1>2, <2>1 DEF Allocated, Slots
<1>4. Sound(new)
  <2>1. /\ sp.allocBits \subseteq Slots(sp) /\ sp.gcmarkBits \subseteq Allocated(sp)
        /\ sp.allocCount = Cardinality(Allocated(sp))
    BY DEF Sound
  <2>2. /\ new.freeindex <= sp.nelems /\ new.allocBits \subseteq Slots(sp)
        /\ new.gcmarkBits \subseteq Allocated(new) /\ new.allocCount = Cardinality(Allocated(new))
    BY <1>1, <1>2, <1>3, <2>1
  <2>. QED  BY <1>2, <2>2, SoundAgain
<1>. QED  BY <1>2, <1>3, <1>4 DEF Full

LEMMA NewGen ==
  ASSUME NEW sp, Sound(sp), NEW g \in 0 .. GenMod - 1, NEW new, new = [sp EXCEPT !.sweepgen = g]
  PROVE  /\ Sound(new) /\ Allocated(new) = Allocated(sp) /\ Full(new) = Full(sp)
         /\ new.class = sp.class /\ new.sweepgen = g
         /\ new.gcmarkBits = sp.gcmarkBits /\ new.allocCount = sp.allocCount
<1>1. /\ new.state = sp.state /\ new.class = sp.class /\ new.sweepgen = g
      /\ new.nelems = sp.nelems /\ new.freeindex = sp.freeindex /\ new.allocCount = sp.allocCount
      /\ new.allocBits = sp.allocBits /\ new.gcmarkBits = sp.gcmarkBits /\ new \in MSpan
  <2>1. sp \in MSpan
    BY DEF Sound
  <2>. QED  BY <2>1 DEF MSpan
<1>. QED  BY <1>1 DEF Sound, Full, Slots, Allocated

LEMMA MoreMarks ==
  ASSUME NEW sp, Sound(sp), NEW O, O \subseteq Allocated(sp),
         NEW new, new = [sp EXCEPT !.gcmarkBits = @ \cup O]
  PROVE  /\ Sound(new) /\ Allocated(new) = Allocated(sp) /\ Full(new) = Full(sp)
         /\ new.class = sp.class /\ new.sweepgen = sp.sweepgen
         /\ O \subseteq new.gcmarkBits /\ new.allocCount = sp.allocCount
<1>0. Allocated(sp) \subseteq Slot /\ sp \in MSpan /\ sp.gcmarkBits \subseteq Allocated(sp)
  BY SpanTypes DEF Sound
<1>1. /\ new.state = sp.state /\ new.class = sp.class /\ new.sweepgen = sp.sweepgen
      /\ new.nelems = sp.nelems /\ new.freeindex = sp.freeindex /\ new.allocCount = sp.allocCount
      /\ new.allocBits = sp.allocBits /\ new.gcmarkBits = sp.gcmarkBits \cup O /\ new \in MSpan
  BY <1>0 DEF MSpan
<1>. QED  BY <1>0, <1>1 DEF Sound, Full, Slots, Allocated

LEMMA CountNone == Cardinality({}) = 0 /\ 0 .. (0 - 1) = {}
BY FS_EmptySet

LEMMA CountOne == Cardinality({0}) = 1 /\ 0 .. (1 - 1) = {0}
<1>1. IsFiniteSet({}) /\ Cardinality({}) = 0
  BY FS_EmptySet
<1>2. Cardinality({} \cup {0}) = 1
  BY <1>1, FS_AddElement
<1>. QED  BY <1>2

(* heap_alloc gives a span of small objects, all free, or one large one.   *)
Taken(sp, c, g, n, k, M) ==
    /\ sp \in MSpan /\ sp.state = "inUse" /\ sp.class = c /\ sp.sweepgen = g
    /\ sp.nelems = n /\ sp.freeindex = k /\ sp.allocCount = k
    /\ sp.allocBits = {} /\ sp.gcmarkBits = M

LEMMA TakenRecord ==
  ASSUME NEW g \in 0 .. GenMod - 1, NEW c \in {"small", "large"}, NEW n \in {1, NELEMS},
         NEW k \in {0, 1}, NEW M \in {{}, {0}}
  PROVE  Taken([state |-> "inUse", class |-> c, sweepgen |-> g, nelems |-> n,
                freeindex |-> k, allocCount |-> k, allocBits |-> {}, gcmarkBits |-> M],
               c, g, n, k, M)
<1>1. k \in 0 .. NELEMS /\ {} \in SUBSET Slot /\ M \in SUBSET Slot
  BY Constants DEF Slot
<1>2. [state |-> "inUse", class |-> c, sweepgen |-> g, nelems |-> n,
       freeindex |-> k, allocCount |-> k, allocBits |-> {}, gcmarkBits |-> M] \in MSpan
  BY <1>1 DEF MSpan
<1>. QED  BY <1>2 DEF Taken

LEMMA TakenSmall ==
  ASSUME NEW sp, NEW g, Taken(sp, "small", g, NELEMS, 0, {})
  PROVE  /\ Sound(sp) /\ ~Full(sp) /\ sp.class = "small" /\ sp.sweepgen = g
         /\ sp.gcmarkBits = {} /\ Allocated(sp) = {}
<1>1. Allocated(sp) = {} /\ Cardinality({}) = 0
  BY CountNone DEF Allocated, Taken
<1>2. Sound(sp)
  BY <1>1, Constants DEF Sound, Taken
<1>. QED  BY <1>1, <1>2, Constants DEF Full, Taken

LEMMA TakenLarge ==
  ASSUME NEW sp, NEW g, NEW M \in {{}, {0}}, Taken(sp, "large", g, 1, 1, M)
  PROVE  /\ Sound(sp) /\ sp.class = "large" /\ sp.sweepgen = g
         /\ sp.gcmarkBits = M /\ Allocated(sp) = {0} /\ sp.allocCount > 0
<1>1. Allocated(sp) = {0} /\ Cardinality({0}) = 1
  BY CountOne DEF Allocated, Taken
<1>2. Sound(sp)
  BY <1>1, Constants DEF Sound, Taken
<1>. QED  BY <1>1, <1>2 DEF Taken

LEMMA NewSpanRecord ==
  ASSUME NEW c, NEW n, NEW g, g = Gen(0)
  PROVE  NewSpan(c, n) =
           [state |-> "inUse", class |-> c, sweepgen |-> g, nelems |-> n,
            freeindex |-> 0, allocCount |-> 0, allocBits |-> {}, gcmarkBits |-> {}]
<1>1. FreeSpan =
        [state |-> "free", class |-> "small", sweepgen |-> 0, nelems |-> 0,
         freeindex |-> 0, allocCount |-> 0, allocBits |-> {}, gcmarkBits |-> {}]
  BY DEF FreeSpan
<1>2. NewSpan(c, n) =
        [FreeSpan EXCEPT !.state = "inUse", !.class = c, !.sweepgen = g, !.nelems = n]
  BY DEF NewSpan
<1>. QED  BY <1>1, <1>2

LEMMA NewSmall ==
  ASSUME sweepgen \in 0 .. GenMod - 1
  PROVE  Taken(NewSpan("small", NELEMS), "small", Gen(0), NELEMS, 0, {})
<1>. DEFINE g == Gen(0)
<1>1. g \in 0 .. GenMod - 1
  BY Differences DEF Gen
<1>2. g = Gen(0)
  OBVIOUS
<1>. HIDE DEF g
<1>3. NewSpan("small", NELEMS) =
        [state |-> "inUse", class |-> "small", sweepgen |-> g, nelems |-> NELEMS,
         freeindex |-> 0, allocCount |-> 0, allocBits |-> {}, gcmarkBits |-> {}]
  BY <1>2, NewSpanRecord
<1>4. Taken(NewSpan("small", NELEMS), "small", g, NELEMS, 0, {})
  BY <1>1, <1>3, TakenRecord
<1>. QED  BY <1>2, <1>4

LEMMA NewLarge ==
  ASSUME sweepgen \in 0 .. GenMod - 1, NEW M \in {{}, {0}}
  PROVE  Taken([NewSpan("large", 1) EXCEPT !.freeindex = 1, !.allocCount = 1, !.gcmarkBits = M],
               "large", Gen(0), 1, 1, M)
<1>. DEFINE g == Gen(0)
<1>1. g \in 0 .. GenMod - 1
  BY Differences DEF Gen
<1>2. g = Gen(0)
  OBVIOUS
<1>. HIDE DEF g
<1>3. NewSpan("large", 1) =
        [state |-> "inUse", class |-> "large", sweepgen |-> g, nelems |-> 1,
         freeindex |-> 0, allocCount |-> 0, allocBits |-> {}, gcmarkBits |-> {}]
  BY <1>2, NewSpanRecord
<1>. DEFINE r == NewSpan("large", 1)
            x == [r EXCEPT !.freeindex = 1, !.allocCount = 1, !.gcmarkBits = M]
<1>4. Taken(r, "large", g, 1, 0, {})
  BY <1>1, <1>3, TakenRecord
<1>. HIDE DEF r
<1>5. /\ r \in MSpan /\ r.state = "inUse" /\ r.class = "large" /\ r.sweepgen = g
      /\ r.nelems = 1 /\ r.allocBits = {}
  BY <1>4 DEF Taken
<1>6. 1 \in 0 .. NELEMS /\ M \in SUBSET Slot
  BY Constants DEF Slot
<1>7. Taken(x, "large", g, 1, 1, M)
  BY <1>5, <1>6 DEF Taken, MSpan
<1>. QED  BY <1>2, <1>7 DEF r

LEMMA SweptIs ==
  ASSUME sweepgen \in 0 .. GenMod - 1, NEW sp, Sound(sp), NEW new, new = SweptSpan(sp)
  PROVE  /\ Sound(new) /\ Allocated(new) = sp.gcmarkBits /\ new.class = sp.class
         /\ new.gcmarkBits = {} /\ new.sweepgen = Gen(0)
         /\ new.allocCount = span_countAlloc(sp) /\ new.nelems = sp.nelems
         /\ span_countAlloc(sp) \in Nat /\ span_countAlloc(sp) <= sp.allocCount
         /\ span_countAlloc(sp) = sp.allocCount => sp.gcmarkBits = Allocated(sp)
         /\ span_countAlloc(sp) = 0 => sp.gcmarkBits = {}
<1>1. Gen(0) \in 0 .. GenMod - 1
  BY Differences DEF Gen
<1>2. /\ Allocated(sp) \subseteq Slots(sp) /\ IsFiniteSet(Allocated(sp)) /\ sp.allocCount \in Nat
      /\ sp.allocCount = Cardinality(Allocated(sp)) /\ sp.gcmarkBits \subseteq Allocated(sp)
      /\ sp.allocCount <= sp.nelems /\ sp.nelems \in 1 .. NELEMS /\ Slots(sp) \subseteq Slot
      /\ sp \in MSpan
  BY SpanTypes DEF Sound
<1>3. /\ IsFiniteSet(sp.gcmarkBits) /\ Cardinality(sp.gcmarkBits) \in Nat
      /\ Cardinality(sp.gcmarkBits) <= Cardinality(Allocated(sp))
      /\ Cardinality(sp.gcmarkBits) = Cardinality(Allocated(sp)) => sp.gcmarkBits = Allocated(sp)
      /\ Cardinality(sp.gcmarkBits) = 0 => sp.gcmarkBits = {}
  BY <1>2, FS_Subset, FS_CardinalityType, FS_EmptySet
<1>. HIDE DEF Gen
<1>4. Cardinality(sp.gcmarkBits) \in 0 .. NELEMS
  BY <1>2, <1>3, Constants
<1>5. /\ new.state = sp.state /\ new.class = sp.class /\ new.sweepgen = Gen(0)
      /\ new.nelems = sp.nelems /\ new.freeindex = 0
      /\ new.allocCount = Cardinality(sp.gcmarkBits)
      /\ new.allocBits = sp.gcmarkBits /\ new.gcmarkBits = {} /\ new \in MSpan
  <2>1. sp \in MSpan /\ 0 \in 0 .. NELEMS /\ sp.gcmarkBits \in SUBSET Slot /\ {} \in SUBSET Slot
    BY <1>2, Constants
  <2>2. new = [sp EXCEPT !.allocCount = Cardinality(sp.gcmarkBits), !.freeindex = 0,
                         !.allocBits = sp.gcmarkBits, !.gcmarkBits = {}, !.sweepgen = Gen(0)]
    BY DEF SweptSpan, span_countAlloc
  <2>. QED  BY <1>1, <1>4, <2>1, <2>2 DEF MSpan
<1>6. Allocated(new) = sp.gcmarkBits
  BY <1>5 DEF Allocated
<1>7. Sound(new)
  <2>1. sp.gcmarkBits \subseteq Slots(sp) /\ 0 <= sp.nelems
    BY <1>2
  <2>. QED  BY <1>5, <1>6, <2>1, SoundAgain
<1>. QED  BY <1>2, <1>3, <1>5, <1>6, <1>7 DEF span_countAlloc

(***************************************************************************)
(* The types but those of the spans, which Open and Sweep give.            *)
(***************************************************************************)
FrameType == [pc : PCs, sg : 0 .. GenMod - 1, swept : 0 .. GenMod - 1, at : Nat,
              s : Span \cup {NULL},
              ret : {"none", "help", "cycle", "release", "have", "recheck"}]

Typed ==
    /\ span = [s \in Span |-> span[s]] /\ objs = [s \in Span |-> objs[s]]
    /\ nonempty \in Seq(Span) /\ empty \in Seq(Span)
    /\ sweepSpans \in [{0, 1} -> Seq(Span)]
    /\ sweepgen \in 0 .. GenMod - 1 /\ sweepdone \in BOOLEAN
    /\ cached \in [Thread -> Span \cup {NULL}]
    /\ gcphase \in {"off", "mark"}
    /\ locks \in Thread \cup {NULL} /\ worldsema \in Thread \cup {NULL}
    /\ mtx \in Thread \cup {NULL}
    /\ stopped \subseteq Thread /\ todo \in Seq(Thread)
    /\ th \in [Thread -> FrameType]
    /\ exit \in {"no", "memory", "throw"}

Settled == IF mtx # NULL /\ InSweep(mtx) THEN Sweep(mtx) ELSE Open

LEMMA IdleFrame == Idle \in FrameType
BY Constants DEF Idle, FrameType, PCs

LEMMA TypesOf ==
  ASSUME TypeOK
  PROVE  Typed
BY DEF TypeOK, Typed, FrameType

LEMMA TypesFrom ==
  ASSUME Typed, Settled
  PROVE  TypeOK
<1>1. ASSUME NEW s \in Span
      PROVE  span[s] \in MSpan /\ objs[s] \in SUBSET Slot
  <2>1. \/ Blank(span[s]) /\ objs[s] = {}
        \/ Sound(span[s]) /\ objs[s] \subseteq Allocated(span[s])
    BY DEF Settled, Open, SpanOpen, Sweep, SpanSwept
  <2>2. CASE Blank(span[s]) /\ objs[s] = {}
    BY <2>2 DEF Blank
  <2>3. CASE Sound(span[s]) /\ objs[s] \subseteq Allocated(span[s])
    <3>1. Allocated(span[s]) \subseteq Slot
      BY <2>3, SpanTypes
    <3>2. span[s] \in MSpan
      BY <2>3 DEF Sound
    <3>. QED  BY <2>3, <3>1, <3>2
  <2>. QED  BY <2>1, <2>2, <2>3
<1>2. span \in [Span -> MSpan] /\ objs \in [Span -> SUBSET Slot]
  BY <1>1 DEF Typed
<1>. QED  BY <1>2 DEF Typed, TypeOK, FrameType

LEMMA BufferTypes ==
  ASSUME Typed
  PROVE  /\ SweepBuffer(sweepgen) \in {0, 1} /\ 1 - SweepBuffer(sweepgen) \in {0, 1}
         /\ 1 - SweepBuffer(sweepgen) # SweepBuffer(sweepgen)
         /\ New \in Seq(Span) /\ Old \in Seq(Span)
         /\ Gen(0) = sweepgen /\ Gen(0) \in 0 .. GenMod - 1 /\ Gen(3) \in 0 .. GenMod - 1
         /\ Gen(-2) \in 0 .. GenMod - 1 /\ Gen(-1) \in 0 .. GenMod - 1
         /\ Gen(2) \in 0 .. GenMod - 1 /\ Gen(1) \in 0 .. GenMod - 1
         /\ (sweepgen - 2) % GenMod = Gen(-2) /\ (sweepgen - 1) % GenMod = Gen(-1)
         /\ Gen(0) # Gen(3) /\ Gen(0) # Gen(-1) /\ Gen(0) # Gen(-2) /\ Gen(0) # Gen(1)
         /\ Gen(3) # Gen(-1) /\ Gen(3) # Gen(-2) /\ Gen(3) # Gen(1)
         /\ Gen(-2) # Gen(-1) /\ Gen(-2) # Gen(1) /\ Gen(-1) # Gen(1)
<1>1. sweepgen \in 0 .. GenMod - 1 /\ sweepSpans \in [{0, 1} -> Seq(Span)]
  BY DEF Typed
<1>2. SweepBuffer(sweepgen) \in {0, 1}
  BY <1>1, Successor
<1>3. /\ \A k \in {(-2), (-1), 0, 1, 2, 3} : Gen(k) \in 0 .. GenMod - 1
      /\ \A j, k \in {(-2), (-1), 0, 1, 3} : Gen(j) = Gen(k) => j = k
      /\ Gen(0) = sweepgen
      /\ (sweepgen - 2) % GenMod = Gen(-2) /\ (sweepgen - 1) % GenMod = Gen(-1)
  BY <1>1, Differences DEF Gen
<1>4. New \in Seq(Span) /\ Old \in Seq(Span)
  BY <1>1, <1>2 DEF New, Old
<1>5. 1 - SweepBuffer(sweepgen) \in {0, 1} /\ 1 - SweepBuffer(sweepgen) # SweepBuffer(sweepgen)
  BY <1>2
<1>. HIDE DEF Gen
<1>. QED  BY <1>2, <1>3, <1>4, <1>5

(***************************************************************************)
(* Steps before gcSweep.                                                   *)
(***************************************************************************)
(* What a step of t leaves as it is: a span, what a thread has to do with  *)
(* it, and the rest.                                                       *)
SameSpan(s) ==
    /\ span'[s] = span[s] /\ objs'[s] = objs[s]
    /\ s \in ToSet(nonempty') <=> s \in ToSet(nonempty)
    /\ s \in ToSet(empty') <=> s \in ToSet(empty)
    /\ s \in ToSet(New') <=> s \in ToSet(New)

SameRoles(u, s) ==
    /\ Has(u, s)' = Has(u, s) /\ InHand(u, s)' = InHand(u, s)
    /\ Inserts(u, s)' = Inserts(u, s) /\ Takes(u, s)' = Takes(u, s) /\ Uses(u, s)' = Uses(u, s)

SamePhase ==
    /\ sweepgen' = sweepgen
    /\ gcphase' = "off" => gcphase = "off"
    /\ \A u \in Thread : th'[u].pc = "gcSweep" => th[u].pc = "gcSweep"

SameThread(u) ==
    /\ th'[u] = th[u] /\ cached'[u] = cached[u] /\ (locks' = u <=> locks = u)
    /\ \A s \in Span : Has(u, s) => (Small(s)' <=> Small(s)) /\ Full(span'[s]) = Full(span[s])
    /\ \A v \in Thread : cached'[v] # cached[v] => ~InHand(u, cached'[v])

LEMMA SpanKeeps ==
  ASSUME NEW s \in Span, SpanOpen(s), SameSpan(s), SamePhase, \A u \in Thread : SameRoles(u, s)
  PROVE  SpanOpen(s)'
BY DEF SpanOpen, SameSpan, SamePhase, SameRoles, Small, Gen

LEMMA ThreadKeeps ==
  ASSUME NEW u \in Thread, ThreadOpen(u), SameThread(u), SamePhase
  PROVE  ThreadOpen(u)'
BY DEF ThreadOpen, SameThread, SamePhase, Has, InHand

LEMMA Moved ==
  ASSUME Typed, NEW t \in Thread, NEW r \in FrameType, Move(t, r)
  PROVE  /\ th' \in [Thread -> FrameType] /\ th'[t] = r
         /\ \A u \in Thread : u # t => th'[u] = th[u]
BY DEF Typed, Move

(* A step of t that concerns no span.                                      *)
Quiet(t, r) ==
    /\ Move(t, r)
    /\ UNCHANGED <<span, lists, sweepSpans, sweepgen, cached, objs>>
    /\ \A u \in Thread : u # t => (locks' = u <=> locks = u)
    /\ gcphase' = "off" => gcphase = "off"
    /\ {r.pc, th[t].pc} \cap {"insert", "have", "take"} = {} /\ r.pc # "gcSweep"
    /\ cached[t] # NULL => r.pc # "refill" /\ (r.pc \in GivingUp <=> th[t].pc \in GivingUp)
    /\ r.pc \in {"nonempty", "empty"} <=> locks' = t
    /\ r.pc \in {"nonempty", "empty", "pop"} => r.sg = sweepgen
    /\ r.pc \in {"nonempty", "empty"} => r.at >= 1

LEMMA QuietKeeps ==
  ASSUME Typed, Open, NEW t \in Thread, NEW r \in FrameType, Quiet(t, r)
  PROVE  Open'
<1>1. /\ th'[t] = r /\ \A u \in Thread : u # t => th'[u] = th[u]
  BY Moved DEF Quiet
<1>2. New' = New /\ Old' = Old /\ UNCHANGED <<span, nonempty, empty, sweepgen, cached, objs>>
  BY DEF Quiet, lists, New, Old
<1>3. SamePhase
  BY <1>1, <1>2 DEF SamePhase, Quiet
<1>4. ASSUME NEW u \in Thread
      PROVE  ThreadOpen(u)'
  <2>1. CASE u = t
    <3>1. ThreadOpen(t)
      BY DEF Open
    <3>. QED  BY <1>1, <1>2, <2>1, <3>1 DEF ThreadOpen, Quiet, Small
  <2>2. CASE u # t
    <3>1. SameThread(u)
      BY <1>1, <1>2, <2>2 DEF SameThread, Quiet, Small
    <3>2. ThreadOpen(u)
      BY DEF Open
    <3>. QED  BY <1>3, <3>1, <3>2, ThreadKeeps
  <2>. QED  BY <2>1, <2>2
<1>5. ASSUME NEW s \in Span
      PROVE  SpanOpen(s)'
  <2>1. SameSpan(s)
    BY <1>2 DEF SameSpan
  <2>2. ASSUME NEW u \in Thread
        PROVE  SameRoles(u, s)
    <3>1. CASE u # t
      BY <1>1, <1>2, <3>1 DEF SameRoles, Has, InHand, Inserts, Takes, Uses
    <3>2. CASE u = t
      <4>1. cached[t] = s => cached[t] # NULL
        BY Constants
      <4>2. InHand(t, s)' = InHand(t, s) /\ Inserts(t, s)' = Inserts(t, s)
            /\ Takes(t, s)' = Takes(t, s)
        BY <1>1, <1>2 DEF Quiet, InHand, Inserts, Takes
      <4>3. Uses(t, s)' = Uses(t, s)
        BY <1>1, <1>2, <4>1 DEF Quiet, Uses
      <4>4. Has(t, s)' = Has(t, s)
        BY <1>2, <4>2 DEF Has
      <4>. QED  BY <3>2, <4>2, <4>3, <4>4 DEF SameRoles
    <3>. QED  BY <3>1, <3>2
  <2>3. SpanOpen(s)
    BY DEF Open
  <2>. QED  BY <1>3, <2>1, <2>2, <2>3, SpanKeeps
<1>. QED  BY <1>2, <1>4, <1>5 DEF Open

(* A step of a thread with the world running.                              *)
Free(t) ==
    /\ Typed /\ WorldOK /\ Open /\ mtx = NULL /\ t \in Thread

Kept == Typed' /\ WorldOK' /\ Settled'

LEMMA FreeFacts ==
  ASSUME NEW t, Free(t)
  PROVE  /\ t \in Thread /\ th[t] \in FrameType /\ ThreadOpen(t) /\ stopped = {} /\ mtx = NULL
         /\ th[t].pc \in Running
         /\ th[t].pc \in {"sweepone", "pop"} => th[t].ret = "help"
         /\ sweepgen \in 0 .. GenMod - 1 /\ locks \in Thread \cup {NULL}
BY DEF Free, Typed, WorldOK, Open

LEMMA FreeKeeps ==
  ASSUME NEW t, Free(t), Typed', Open', UNCHANGED <<mtx, stopped>>,
         \A u \in Thread : u # t => th'[u] = th[u],
         th'[t].pc \in Running, th'[t].pc \in {"sweepone", "pop"} => th'[t].ret = "help",
         gcphase' = gcphase \/ gcphase' = "mark", th'[t].pc = "stop" => gcphase' = "mark"
  PROVE  Kept
BY DEF Free, Kept, Settled, WorldOK, Running

LEMMA QuietFree ==
  ASSUME NEW t, Free(t), NEW r \in FrameType, Quiet(t, r),
         locks' \in Thread \cup {NULL}, gcphase' \in {"off", "mark"}, sweepdone' \in BOOLEAN,
         worldsema' \in Thread \cup {NULL}, UNCHANGED <<mtx, stopped, todo, exit>>,
         r.pc \in Running, r.pc \in {"sweepone", "pop"} => r.ret = "help",
         r.pc = "stop" => gcphase' = "mark"
  PROVE  Kept
<1>1. t \in Thread /\ Typed /\ Open
  BY DEF Free
<1>2. /\ th' \in [Thread -> FrameType] /\ th'[t] = r
      /\ \A u \in Thread : u # t => th'[u] = th[u]
  BY <1>1, Moved DEF Quiet
<1>3. Open'
  BY <1>1, QuietKeeps
<1>4. Typed'
  BY <1>1, <1>2 DEF Typed, Quiet, lists
<1>. QED  BY <1>2, <1>3, <1>4, FreeKeeps DEF Quiet

LEMMA QuietAllocates ==
  ASSUME NEW t, Free(t),
         mallocgc(t) \/ central_cacheSpan(t) \/ NoneInNonempty(t) \/ NoneInEmpty(t)
  PROVE  Kept
<1>0. /\ t \in Thread /\ th[t] \in FrameType /\ ThreadOpen(t) /\ th[t].pc \in Running
      /\ sweepgen \in 0 .. GenMod - 1 /\ locks \in Thread \cup {NULL}
      /\ \A u \in Thread : u # NULL
      /\ gcphase \in {"off", "mark"} /\ sweepdone \in BOOLEAN
      /\ worldsema \in Thread \cup {NULL}
  <2>1. Typed /\ \A u \in Thread : u # NULL
    BY Constants DEF Free
  <2>2. /\ gcphase \in {"off", "mark"} /\ sweepdone \in BOOLEAN
        /\ worldsema \in Thread \cup {NULL}
    BY <2>1 DEF Typed
  <2>. QED  BY <2>1, <2>2, FreeFacts
<1>1. CASE mallocgc(t)
  <2>1. PICK pc \in {"small", "large"} : Goto(t, pc)
    BY <1>1 DEF mallocgc
  <2>. DEFINE r == [th[t] EXCEPT !.pc = pc]
  <2>2. r \in FrameType /\ r.pc = pc
    BY <1>0 DEF FrameType, PCs
  <2>3. Quiet(t, r)
    BY <1>0, <1>1, <2>1, <2>2
    DEF Quiet, mallocgc, Goto, At, heapVars, sweepVars, gcVars, ThreadOpen, GivingUp
  <2>4. UNCHANGED <<locks, gcphase, sweepdone, worldsema, mtx, stopped, todo, exit>>
    BY <1>1 DEF mallocgc, heapVars, sweepVars, gcVars
  <2>. QED  BY <1>0, <2>2, <2>3, <2>4, QuietFree DEF Running
<1>2. CASE central_cacheSpan(t)
  <2>. DEFINE r == [th[t] EXCEPT !.pc = "nonempty", !.at = 1, !.sg = sweepgen]
  <2>1. th[t].pc = "central"
    BY <1>0, <1>2 DEF central_cacheSpan, At, Running
  <2>2. r \in FrameType /\ r.pc = "nonempty" /\ r.at = 1 /\ r.sg = sweepgen
    BY <1>0 DEF FrameType, PCs
  <2>3. Quiet(t, r)
    BY <1>0, <1>2, <2>1, <2>2
    DEF Quiet, central_cacheSpan, At, heapVars, sweepVars, gcVars, ThreadOpen, GivingUp
  <2>4. UNCHANGED <<gcphase, sweepdone, worldsema, mtx, stopped, todo, exit>> /\ locks' = t
    BY <1>2 DEF central_cacheSpan, heapVars, sweepVars, gcVars
  <2>. QED  BY <1>0, <2>2, <2>3, <2>4, QuietFree DEF Running
<1>3. CASE NoneInNonempty(t)
  <2>. DEFINE r == [th[t] EXCEPT !.pc = "empty", !.at = 1]
  <2>2. r \in FrameType /\ r.pc = "empty" /\ r.at = 1 /\ r.sg = th[t].sg
    BY <1>0 DEF FrameType, PCs
  <2>3. Quiet(t, r)
    BY <1>0, <1>3, <2>2
    DEF Quiet, NoneInNonempty, At, heapVars, sweepVars, gcVars, ThreadOpen, GivingUp
  <2>4. UNCHANGED <<locks, gcphase, sweepdone, worldsema, mtx, stopped, todo, exit>>
    BY <1>3 DEF NoneInNonempty, heapVars, sweepVars, gcVars
  <2>. QED  BY <1>0, <2>2, <2>3, <2>4, QuietFree DEF Running
<1>4. CASE NoneInEmpty(t)
  <2>. DEFINE r == [th[t] EXCEPT !.pc = "grow"]
  <2>2. r \in FrameType /\ r.pc = "grow"
    BY <1>0 DEF FrameType, PCs
  <2>3. Quiet(t, r)
    BY <1>0, <1>4, <2>2
    DEF Quiet, NoneInEmpty, Goto, At, heapVars, sweepVars, gcVars, ThreadOpen, GivingUp
  <2>4. UNCHANGED <<gcphase, sweepdone, worldsema, mtx, stopped, todo, exit>> /\ locks' = NULL
    BY <1>4 DEF NoneInEmpty, heapVars, sweepVars, gcVars
  <2>. QED  BY <1>0, <2>2, <2>3, <2>4, QuietFree DEF Running
<1>. QED  BY <1>1, <1>2, <1>3, <1>4

LEMMA QuietCollects ==
  ASSUME NEW t, Free(t), SafePoints,
         \/ sweepone(t) \/ SweepDone(t) \/ gcStart(t) \/ Help(t) \/ TryStart(t) \/ Await(t)
         \/ Begin(t)
  PROVE  Kept
<1>0. /\ t \in Thread /\ th[t] \in FrameType /\ ThreadOpen(t) /\ th[t].pc \in Running
      /\ sweepgen \in 0 .. GenMod - 1 /\ locks \in Thread \cup {NULL}
      /\ gcphase \in {"off", "mark"} /\ sweepdone \in BOOLEAN
      /\ worldsema \in Thread \cup {NULL}
      /\ th[t].pc \in {"sweepone", "pop"} => th[t].ret = "help"
  <2>1. Typed
    BY DEF Free
  <2>2. /\ gcphase \in {"off", "mark"} /\ sweepdone \in BOOLEAN
        /\ worldsema \in Thread \cup {NULL}
    BY <2>1 DEF Typed
  <2>. QED  BY <2>1, <2>2, FreeFacts
<1>00. Idle \in FrameType
  BY <1>0, Constants DEF Idle, FrameType, PCs
<1>1. CASE sweepone(t)
  <2>. DEFINE r == IF sweepdone THEN [th[t] EXCEPT !.pc = "try"]
                   ELSE [th[t] EXCEPT !.pc = "pop", !.sg = sweepgen]
  <2>2. /\ r \in FrameType /\ r.pc \in {"try", "pop"} /\ r.ret = th[t].ret
        /\ r.pc = "pop" => r.sg = sweepgen
    BY <1>0 DEF FrameType, PCs
  <2>3. th[t].pc = "sweepone" /\ th[t].ret = "help"
    BY <1>0, <1>1 DEF sweepone, At
  <2>4. Move(t, r)
    BY <1>1, <2>3 DEF sweepone, Goto
  <2>. HIDE DEF r
  <2>5. UNCHANGED <<locks, gcphase, sweepdone, worldsema, mtx, stopped, todo, exit,
                    span, lists, sweepSpans, sweepgen, cached, objs>>
    BY <1>1 DEF sweepone, heapVars, sweepVars, gcVars
  <2>6. Quiet(t, r)
    BY <1>0, <2>2, <2>3, <2>4, <2>5 DEF Quiet, ThreadOpen, GivingUp
  <2>. QED  BY <1>0, <2>2, <2>3, <2>5, <2>6, QuietFree DEF Running
<1>2. CASE SweepDone(t)
  <2>. DEFINE r == [th[t] EXCEPT !.pc = "try"]
  <2>2. r \in FrameType /\ r.pc = "try"
    BY <1>0 DEF FrameType, PCs
  <2>3. th[t].pc = "pop" /\ th[t].ret = "help"
    BY <1>0, <1>2 DEF SweepDone, At
  <2>4. Move(t, r)
    BY <1>2, <2>3 DEF SweepDone, Goto
  <2>. HIDE DEF r
  <2>5. UNCHANGED <<locks, gcphase, worldsema, mtx, stopped, todo, exit,
                    span, lists, sweepSpans, sweepgen, cached, objs>> /\ sweepdone' = TRUE
    BY <1>2 DEF SweepDone, gcVars
  <2>6. Quiet(t, r)
    BY <1>0, <2>2, <2>3, <2>4, <2>5 DEF Quiet, ThreadOpen, GivingUp
  <2>. QED  BY <1>0, <2>2, <2>5, <2>6, QuietFree DEF Running
<1>3. CASE gcStart(t)
  <2>. DEFINE r == [th[t] EXCEPT !.pc = "help"]
  <2>2. r \in FrameType /\ r.pc = "help"
    BY <1>0 DEF FrameType, PCs
  <2>4. Move(t, r) /\ th[t].pc = "idle"
    BY <1>3 DEF gcStart, Goto, At
  <2>. HIDE DEF r
  <2>5. UNCHANGED <<locks, gcphase, sweepdone, worldsema, mtx, stopped, todo, exit,
                    span, lists, sweepSpans, sweepgen, cached, objs>>
    BY <1>3 DEF gcStart, heapVars, sweepVars, gcVars
  <2>6. Quiet(t, r)
    BY <1>0, <2>2, <2>4, <2>5 DEF Quiet, ThreadOpen, GivingUp
  <2>. QED  BY <1>0, <2>2, <2>5, <2>6, QuietFree DEF Running
<1>4. CASE Help(t) \/ TryStart(t) \/ Await(t)
  <2>1. PICK r \in FrameType :
           /\ Move(t, r) /\ r.pc \in {"sweepone", "try", "sema", "wait", "idle"}
           /\ r.pc = "sweepone" => r.ret = "help"
    <3>2. CASE Help(t)
      <4>. DEFINE r == IF gcphase = "off" THEN [Idle EXCEPT !.pc = "sweepone", !.ret = "help"]
                                          ELSE [Idle EXCEPT !.pc = "try"]
      <4>1. /\ r \in FrameType /\ r.pc \in {"sweepone", "try"}
            /\ r.pc = "sweepone" => r.ret = "help"
        BY <1>00 DEF FrameType, PCs
      <4>2. Move(t, r)
        BY <3>2 DEF Help
      <4>. HIDE DEF r
      <4>. QED  BY <4>1, <4>2
    <3>3. CASE TryStart(t)
      BY <1>00, <3>3 DEF TryStart, FrameType, PCs
    <3>4. CASE Await(t)
      BY <1>00, <3>4 DEF Await, Return, FrameType, PCs, Idle
    <3>. QED  BY <1>4, <3>2, <3>3, <3>4
  <2>3. th[t].pc \in {"help", "try", "wait"}
    BY <1>4 DEF Help, TryStart, Await, At
  <2>5. UNCHANGED <<locks, gcphase, sweepdone, worldsema, mtx, stopped, todo, exit,
                    span, lists, sweepSpans, sweepgen, cached, objs>>
    BY <1>4 DEF Help, TryStart, Await, heapVars, sweepVars, gcVars
  <2>6. Quiet(t, r)
    BY <1>0, <2>1, <2>3, <2>5 DEF Quiet, ThreadOpen, GivingUp
  <2>. QED  BY <1>0, <2>1, <2>5, <2>6, QuietFree DEF Running
<1>5. CASE Begin(t)
  <2>. DEFINE r == [th[t] EXCEPT !.pc = "stop"]
  <2>2. r \in FrameType /\ r.pc = "stop"
    BY <1>0 DEF FrameType, PCs
  <2>4. Move(t, r) /\ th[t].pc = "sema"
    BY <1>5 DEF Begin, Goto, At
  <2>. HIDE DEF r
  <2>5. UNCHANGED <<locks, sweepdone, mtx, stopped, todo, exit,
                    span, lists, sweepSpans, sweepgen, cached, objs>>
        /\ worldsema' = t /\ gcphase' = "mark"
    BY <1>5 DEF Begin, heapVars, sweepVars
  <2>6. Quiet(t, r)
    BY <1>0, <2>2, <2>4, <2>5 DEF Quiet, ThreadOpen, GivingUp
  <2>. QED  BY <1>0, <2>2, <2>5, <2>6, QuietFree DEF Running
<1>. QED  BY <1>1, <1>2, <1>3, <1>4, <1>5

LEMMA StopsTheWorld ==
  ASSUME NEW t, Free(t), SafePoints, CollectorInv, stopTheWorld(t)
  PROVE  Kept
<1>0. /\ t \in Thread /\ th[t] \in FrameType /\ ThreadOpen(t) /\ Typed /\ Open
  BY FreeFacts DEF Free
<1>. DEFINE r == [th[t] EXCEPT !.pc = "mark"]
<1>2. r \in FrameType /\ r.pc = "mark"
  BY <1>0 DEF FrameType, PCs
<1>3. Move(t, r) /\ th[t].pc = "stop"
  BY DEF stopTheWorld, Goto, At
<1>. HIDE DEF r
<1>5. /\ UNCHANGED <<locks, gcphase, sweepdone, worldsema, todo, exit,
                     span, lists, sweepSpans, sweepgen, cached, objs>>
      /\ mtx' = t /\ stopped' \subseteq Thread
  BY DEF stopTheWorld, heapVars, sweepVars
<1>6. Quiet(t, r)
  BY <1>0, <1>2, <1>3, <1>5 DEF Quiet, ThreadOpen, GivingUp
<1>7. Open'
  BY <1>0, <1>2, <1>6, QuietKeeps
<1>8. /\ th' \in [Thread -> FrameType] /\ th'[t] = r
      /\ \A u \in Thread : u # t => th'[u] = th[u]
  BY <1>0, <1>2, <1>3, Moved
<1>9. Typed'
  BY <1>0, <1>5, <1>8 DEF Typed, lists
<1>10. WorldOK'
  <2>1. \A u \in Thread \ {t} : AtSafePoint(u)
    BY DEF stopTheWorld
  <2>2. \A u \in Thread \ {t} : AtSafePoint(u)'
    BY <1>8, <2>1 DEF AtSafePoint
  <2>3. stopped' = Thread \ {t}
    BY <2>1 DEF stopTheWorld, AtSafePoint, Mallocing
  <2>4. worldsema' = t
    BY <1>0, <1>3, <1>5 DEF CollectorInv, SemaOK, InCycle
  <2>. QED  BY <1>0, <1>2, <1>3, <1>5, <1>8, <2>2, <2>3, <2>4, Constants DEF WorldOK, Free, AtSafePoint
<1>. QED  BY <1>2, <1>5, <1>7, <1>8, <1>9, <1>10 DEF Kept, Settled, InSweep

(* A step of t that concerns the spans of T.                               *)
LEMMA TouchKeeps ==
  ASSUME Open, NEW t \in Thread, NEW T \in SUBSET Span, SamePhase,
         \A u \in Thread : u # t => SameThread(u),
         \A s \in Span \ T : SameSpan(s) /\ SameRoles(t, s),
         ThreadOpen(t)', \A s \in T : SpanOpen(s)',
         IsInjective(New'), Old' = <<>>, IsInjective(nonempty'), IsInjective(empty')
  PROVE  Open'
<1>1. ASSUME NEW u \in Thread
      PROVE  ThreadOpen(u)'
  BY ThreadKeeps DEF Open
<1>2. ASSUME NEW s \in Span
      PROVE  SpanOpen(s)'
  <2>1. CASE s \in T
    BY <2>1
  <2>2. CASE s \notin T
    <3>1. ASSUME NEW u \in Thread, u # t
          PROVE  SameRoles(u, s)
      <4>1. th'[u] = th[u] /\ cached'[u] = cached[u]
        BY <3>1 DEF SameThread
      <4>. QED  BY <4>1 DEF SameRoles, Has, InHand, Inserts, Takes, Uses
    <3>2. SameSpan(s) /\ \A u \in Thread : SameRoles(u, s)
      BY <2>2, <3>1
    <3>3. SpanOpen(s)
      BY DEF Open
    <3>. QED  BY <3>2, <3>3, SpanKeeps
  <2>. QED  BY <2>1, <2>2
<1>. QED  BY <1>1, <1>2 DEF Open

(* The span in a cache, and what follows for it.                           *)
LEMMA CachedSpan ==
  ASSUME NEW t, Free(t), NEW s, cached[t] = s, s # NULL
  PROVE  /\ s \in Span /\ Small(s) /\ Sound(span[s]) /\ objs[s] \subseteq Allocated(span[s])
         /\ Has(t, s) /\ \A u \in Thread : u # t => ~Has(u, s)
         /\ s \notin ToSet(nonempty) /\ s \in ToSet(New)
         /\ th[t].pc \in {"refill", "central"} => Full(span[s])
         /\ ~(th[t].pc \in {"insert", "have"}) => s \in ToSet(empty)
<1>1. t \in Thread /\ ThreadOpen(t) /\ th[t].pc \in Running
  BY FreeFacts
<1>2. s \in Span /\ Small(s) /\ Has(t, s)
  BY <1>1 DEF ThreadOpen, Has
<1>3. SpanOpen(s)
  BY <1>2 DEF Free, Open
<1>4. /\ Sound(span[s]) /\ objs[s] \subseteq Allocated(span[s]) /\ s \in ToSet(New)
      /\ s \notin ToSet(nonempty) /\ \A u \in Thread : u # t => ~Has(u, s)
  BY <1>1, <1>2, <1>3 DEF SpanOpen, Small
<1>5. th[t].pc \in {"refill", "central"} => Full(span[s])
  BY <1>1 DEF ThreadOpen, GivingUp
<1>6. ~(th[t].pc \in {"insert", "have"}) => s \in ToSet(empty)
  BY <1>1, <1>2, <1>3, <1>4 DEF SpanOpen, Inserts, Has, InHand
<1>. QED  BY <1>2, <1>4, <1>5, <1>6

(* A step of t on the span in its cache: it allocates or gives it up.      *)
InCache(t, r, x) ==
    LET new == span'[x] IN
    /\ Move(t, r) /\ cached[t] = x /\ x # NULL
    /\ span' = [s \in Span |-> span'[s]] /\ objs' = [s \in Span |-> objs'[s]]
    /\ \A s \in Span \ {x} : span'[s] = span[s] /\ objs'[s] = objs[s]
    /\ UNCHANGED <<lists, sweepVars, gcVars, cached, locks, exit>>
    /\ Sound(new) /\ new.class = span[x].class /\ objs'[x] \subseteq Allocated(new)
    /\ new.sweepgen = IF r.pc \in GivingUp THEN Gen(0) ELSE Gen(3)
    /\ gcphase = "off" => new.gcmarkBits = {}
    /\ new.allocCount > 0
    /\ r.pc \in GivingUp \cup {"refill"} => Full(new)
    /\ th[t].pc \in {"small", "take", "refill"} /\ r.pc \in {"idle", "refill", "central"}

LEMMA InCacheKeeps ==
  ASSUME NEW t, Free(t), NEW r \in FrameType, NEW x, InCache(t, r, x)
  PROVE  Kept
<1>1. /\ t \in Thread /\ Typed /\ Open /\ ThreadOpen(t) /\ \A u \in Thread : th[u].pc \in Running
  BY FreeFacts DEF Free, WorldOK
<1>2. /\ x \in Span /\ Small(x) /\ Has(t, x) /\ \A u \in Thread : u # t => ~Has(u, x)
      /\ x \notin ToSet(nonempty) /\ x \in ToSet(New) /\ x \in ToSet(empty)
      /\ cached[t] = x /\ x # NULL
  <2>1. cached[t] = x /\ x # NULL /\ th[t].pc \in {"small", "take", "refill"}
    BY DEF InCache
  <2>. QED  BY <2>1, CachedSpan
<1>3. /\ th' \in [Thread -> FrameType] /\ th'[t] = r
      /\ \A u \in Thread : u # t => th'[u] = th[u]
  BY <1>1, Moved DEF InCache
<1>4. Typed'
  BY <1>1, <1>3 DEF Typed, InCache, lists, sweepVars, gcVars
<1>5. /\ New' = New /\ Old' = Old /\ Gen(0)' = Gen(0) /\ Gen(3)' = Gen(3)
      /\ UNCHANGED <<nonempty, empty, cached, locks, gcphase, sweepgen, mtx, stopped>>
  BY DEF InCache, lists, sweepVars, gcVars, New, Old, Gen
<1>6. Small(x)'
  BY <1>2 DEF InCache, Small, Sound
<1>7. SamePhase
  BY <1>3, <1>5 DEF SamePhase, InCache
<1>8. ASSUME NEW u \in Thread, u # t
      PROVE  SameThread(u)
  <2>1. \A s \in Span : Has(u, s) => span'[s] = span[s]
    BY <1>2, <1>8 DEF InCache
  <2>. QED  BY <1>3, <1>5, <1>8, <2>1 DEF SameThread, Small
<1>9. ASSUME NEW s \in Span \ {x}
      PROVE  SameSpan(s) /\ SameRoles(t, s)
  <2>1. SameSpan(s)
    BY <1>5, <1>9 DEF SameSpan, InCache
  <2>2. SameRoles(t, s)
    BY <1>2, <1>3, <1>5, <1>9 DEF SameRoles, Has, InHand, Inserts, Takes, Uses, InCache
  <2>. QED  BY <2>1, <2>2
<1>10. ThreadOpen(t)'
  <2>1. cached'[t] = x /\ x \in Span /\ Small(x)'
    BY <1>2, <1>5, <1>6
  <2>2. /\ r.pc \in {"idle", "refill", "central"} /\ th[t].pc \in {"small", "take", "refill"}
        /\ r.pc \in GivingUp \cup {"refill"} => Full(span'[x])
    BY DEF InCache
  <2>. QED  BY <1>1, <1>3, <1>5, <2>1, <2>2 DEF ThreadOpen
<1>11. SpanOpen(x)'
  <2>1. \A u \in Thread : ~InHand(u, x)' /\ ~Inserts(u, x)' /\ (Has(u, x)' <=> u = t)
    BY <1>2, <1>3, <1>5 DEF InCache, Has, InHand, Inserts
  <2>2. \A u \in Thread : Uses(u, x)' <=> u = t /\ r.pc \notin GivingUp
    BY <1>2, <1>3, <1>5 DEF Uses, Has
  <2>3. \A u \in Thread : th'[u].pc # "gcSweep"
    <3>1. \A u \in Thread : th[u].pc # "gcSweep"
      BY <1>1 DEF Running
    <3>. QED  BY <1>3, <3>1 DEF InCache
  <2>4. Gen(0) # Gen(3)
    BY <1>1, BufferTypes
  <2>5. /\ Sound(span'[x]) /\ objs'[x] \subseteq Allocated(span'[x]) /\ span'[x].allocCount > 0
        /\ span'[x].sweepgen = IF r.pc \in GivingUp THEN Gen(0) ELSE Gen(3)
        /\ gcphase = "off" => span'[x].gcmarkBits = {}
        /\ span'[x].state = "inUse"
    BY DEF InCache, Sound
  <2>. QED  BY <1>1, <1>2, <1>5, <1>6, <2>1, <2>2, <2>3, <2>4, <2>5 DEF SpanOpen
<1>12. /\ IsInjective(New') /\ Old' = <<>> /\ IsInjective(nonempty') /\ IsInjective(empty')
  BY <1>1, <1>5 DEF Open
<1>13. Open'
  <2>1. {x} \in SUBSET Span /\ \A s \in {x} : SpanOpen(s)'
    BY <1>2, <1>11
  <2>. QED  BY <1>1, <1>7, <1>8, <1>9, <1>10, <1>12, <2>1, TouchKeeps
<1>. QED  BY <1>3, <1>4, <1>5, <1>13, FreeKeeps DEF InCache, Running

LEMMA UsedSpan ==
  ASSUME NEW t, Free(t), NEW x, cached[t] = x, x # NULL
  PROVE  /\ th[t].pc \notin GivingUp => span[x].sweepgen = Gen(3)
         /\ gcphase = "off" => span[x].gcmarkBits = {}
         /\ Full(span[x]) => WasEmpty(span[x]) /\ span[x].allocCount > 0
         /\ WasEmpty(span[x]) => Full(span[x])
<1>1. t \in Thread /\ x \in Span /\ Small(x) /\ Sound(span[x])
  BY CachedSpan, FreeFacts
<1>2. SpanOpen(x)
  BY <1>1 DEF Free, Open
<1>3. WasEmpty(span[x]) <=> Full(span[x])
  BY <1>1, WasEmptyFull
<1>4. Full(span[x]) => span[x].allocCount > 0
  <2>1. span[x].nelems \in 1 .. NELEMS
    BY <1>1, SpanTypes
  <2>. QED  BY <2>1, Constants DEF Full
<1>5. th[t].pc \notin GivingUp => span[x].sweepgen = Gen(3)
  BY <1>1, <1>2 DEF SpanOpen, Small, Uses
<1>. QED  BY <1>1, <1>2, <1>3, <1>4, <1>5 DEF SpanOpen, Small

LEMMA NextFreeKeeps ==
  ASSUME NEW t, Free(t), cache_nextFree(t)
  PROVE  Kept
<1>. DEFINE x == cached[t]
            sp == span[x]
            k == span_nextFreeIndex(sp)
            M == IF gcphase = "off" THEN sp.gcmarkBits ELSE sp.gcmarkBits \cup {k}
            new == [sp EXCEPT !.freeindex = k + 1, !.allocCount = @ + 1, !.gcmarkBits = M]
<1>1. /\ th[t].pc \in {"small", "take"} /\ x # NULL /\ ~WasEmpty(sp)
      /\ Move(t, Idle) /\ UNCHANGED <<lists, sweepVars, gcVars, cached, locks, exit>>
      /\ objs' = [objs EXCEPT ![x] = @ \cup {k}]
  BY DEF cache_nextFree, Return, At
<1>2. span' = [span EXCEPT ![x].freeindex = k + 1, ![x].allocCount = @ + 1, ![x].gcmarkBits = M]
  BY DEF cache_nextFree
<1>3. span' = [span EXCEPT ![x] = new]
  BY <1>2
<1>4. /\ x \in Span /\ Sound(sp) /\ objs[x] \subseteq Allocated(sp)
      /\ ~Full(sp) /\ sp.sweepgen = Gen(3) /\ (gcphase = "off" => sp.gcmarkBits = {})
  <2>1. x \in Span /\ Sound(sp) /\ objs[x] \subseteq Allocated(sp)
    BY <1>1, CachedSpan
  <2>2. /\ sp.sweepgen = Gen(3)
        /\ gcphase = "off" => sp.gcmarkBits = {}
        /\ Full(sp) => WasEmpty(sp)
    BY <1>1, UsedSpan DEF GivingUp
  <2>. QED  BY <1>1, <2>1, <2>2
<1>. HIDE DEF M, new
<1>5. /\ Sound(new) /\ Allocated(new) = Allocated(sp) \cup {k} /\ new.allocCount > 0
      /\ new.class = sp.class /\ new.sweepgen = sp.sweepgen /\ new.gcmarkBits = M
  <2>1. M \in {sp.gcmarkBits, sp.gcmarkBits \cup {k}}
    BY DEF M
  <2>2. new = [sp EXCEPT !.freeindex = k + 1, !.allocCount = @ + 1, !.gcmarkBits = M]
    BY DEF new
  <2>. QED  BY <1>4, <2>1, <2>2, GiveOut
<1>. HIDE DEF k
<1>6. /\ span = [s \in Span |-> span[s]] /\ objs = [s \in Span |-> objs[s]]
      /\ Idle \in FrameType /\ Idle.pc = "idle"
  <2>1. Typed
    BY DEF Free
  <2>2. Idle \in FrameType
    BY <2>1, Constants DEF Typed, Idle, FrameType, PCs
  <2>. QED  BY <2>1, <2>2 DEF Typed, Idle
<1>7. /\ span' = [s \in Span |-> span'[s]] /\ objs' = [s \in Span |-> objs'[s]]
      /\ \A s \in Span \ {x} : span'[s] = span[s] /\ objs'[s] = objs[s]
      /\ span'[x] = new /\ objs'[x] = objs[x] \cup {k}
  BY <1>1, <1>3, <1>4, <1>6
<1>8. gcphase = "off" => M = {}
  BY <1>4 DEF M
<1>9. InCache(t, Idle, x)
  BY <1>1, <1>4, <1>5, <1>6, <1>7, <1>8 DEF InCache, GivingUp
<1>. QED  BY <1>6, <1>9, InCacheKeeps

LEMMA CacheFullKeeps ==
  ASSUME NEW t, Free(t), CacheFull(t)
  PROVE  Kept
<1>. DEFINE x == cached[t]
            sp == span[x]
            r == [th[t] EXCEPT !.pc = "refill"]
            new == [sp EXCEPT !.freeindex = sp.nelems]
<1>1. /\ th[t].pc = "small" /\ Move(t, r) /\ (x # NULL => WasEmpty(sp))
      /\ UNCHANGED <<lists, sweepVars, gcVars, cached, locks, objs, exit>>
  BY DEF CacheFull, At, Goto
<1>2. /\ t \in Thread /\ th[t] \in FrameType /\ ThreadOpen(t) /\ Typed
      /\ r \in FrameType /\ r.pc = "refill"
  <2>1. t \in Thread /\ th[t] \in FrameType /\ ThreadOpen(t) /\ Typed
    BY FreeFacts DEF Free
  <2>. QED  BY <2>1 DEF FrameType, PCs
<1>. HIDE DEF r
<1>3. CASE x = NULL
  <2>1. UNCHANGED span
    BY <1>3 DEF CacheFull
  <2>2. Quiet(t, r)
    BY <1>1, <1>2, <1>3, <2>1 DEF Quiet, sweepVars, gcVars, ThreadOpen, GivingUp
  <2>3. /\ UNCHANGED <<locks, gcphase, sweepdone, worldsema, mtx, stopped, todo, exit>>
        /\ locks \in Thread \cup {NULL} /\ gcphase \in {"off", "mark"} /\ sweepdone \in BOOLEAN
        /\ worldsema \in Thread \cup {NULL}
    BY <1>1, <1>2 DEF sweepVars, gcVars, Typed
  <2>. QED  BY <1>2, <2>2, <2>3, QuietFree DEF Running
<1>4. CASE x # NULL
  <2>1. span' = [span EXCEPT ![x].freeindex = sp.nelems]
    BY <1>4 DEF CacheFull
  <2>2. span' = [span EXCEPT ![x] = new]
    BY <2>1
  <2>3. /\ x \in Span /\ Sound(sp) /\ objs[x] \subseteq Allocated(sp)
        /\ Full(sp) /\ sp.sweepgen = Gen(3) /\ (gcphase = "off" => sp.gcmarkBits = {})
        /\ sp.allocCount > 0
    <3>1. x \in Span /\ Sound(sp) /\ objs[x] \subseteq Allocated(sp)
      BY <1>4, CachedSpan
    <3>2. /\ sp.sweepgen = Gen(3)
          /\ gcphase = "off" => sp.gcmarkBits = {}
          /\ WasEmpty(sp) => Full(sp)
          /\ Full(sp) => sp.allocCount > 0
      BY <1>1, <1>4, UsedSpan DEF GivingUp
    <3>. QED  BY <1>1, <1>4, <3>1, <3>2
  <2>4. /\ Sound(new) /\ Allocated(new) = Allocated(sp) /\ Full(new)
        /\ new.class = sp.class /\ new.sweepgen = sp.sweepgen
        /\ new.gcmarkBits = sp.gcmarkBits /\ new.allocCount = sp.allocCount
    BY <2>3, FillUp
  <2>. HIDE DEF new
  <2>5. /\ span' = [s \in Span |-> span'[s]] /\ objs' = [s \in Span |-> objs'[s]]
        /\ \A s \in Span \ {x} : span'[s] = span[s] /\ objs'[s] = objs[s]
        /\ span'[x] = new /\ objs'[x] = objs[x]
    BY <1>1, <1>2, <2>2, <2>3 DEF Typed
  <2>6. InCache(t, r, x)
    BY <1>1, <1>2, <1>4, <2>3, <2>4, <2>5 DEF InCache, GivingUp
  <2>. QED  BY <1>2, <2>6, InCacheKeeps
<1>. QED  BY <1>3, <1>4

LEMMA RefillKeeps ==
  ASSUME NEW t, Free(t), cache_refill(t)
  PROVE  Kept
<1>. DEFINE x == cached[t]
            sp == span[x]
            r == [th[t] EXCEPT !.pc = "central"]
            g == Gen(0)
            new == [sp EXCEPT !.sweepgen = g]
<1>1. /\ th[t].pc = "refill" /\ Move(t, r)
      /\ UNCHANGED <<lists, sweepVars, gcVars, cached, locks, objs, exit>>
  BY DEF cache_refill, At, Goto
<1>2. /\ t \in Thread /\ th[t] \in FrameType /\ ThreadOpen(t) /\ Typed
      /\ r \in FrameType /\ r.pc = "central"
  <2>1. t \in Thread /\ th[t] \in FrameType /\ ThreadOpen(t) /\ Typed
    BY FreeFacts DEF Free
  <2>. QED  BY <2>1 DEF FrameType, PCs
<1>. HIDE DEF r
<1>3. CASE x = NULL
  <2>1. UNCHANGED span
    BY <1>3 DEF cache_refill
  <2>2. Quiet(t, r)
    <3>1. locks # t
      BY <1>1, <1>2 DEF ThreadOpen
    <3>. QED  BY <1>1, <1>2, <1>3, <2>1, <3>1 DEF Quiet, sweepVars, gcVars
  <2>3. /\ UNCHANGED <<locks, gcphase, sweepdone, worldsema, mtx, stopped, todo, exit>>
        /\ locks \in Thread \cup {NULL} /\ gcphase \in {"off", "mark"} /\ sweepdone \in BOOLEAN
        /\ worldsema \in Thread \cup {NULL}
    BY <1>1, <1>2 DEF sweepVars, gcVars, Typed
  <2>. QED  BY <1>2, <2>2, <2>3, QuietFree DEF Running
<1>4. CASE x # NULL
  <2>1. span' = [span EXCEPT ![x].sweepgen = g] /\ g \in 0 .. GenMod - 1
    BY <1>2, <1>4, BufferTypes DEF cache_refill, SetGen
  <2>2. span' = [span EXCEPT ![x] = new]
    BY <2>1
  <2>3. /\ x \in Span /\ Sound(sp) /\ objs[x] \subseteq Allocated(sp)
        /\ Full(sp) /\ (gcphase = "off" => sp.gcmarkBits = {}) /\ sp.allocCount > 0
    <3>1. /\ x \in Span /\ Sound(sp) /\ objs[x] \subseteq Allocated(sp)
          /\ th[t].pc \in {"refill", "central"} => Full(sp)
      BY <1>4, CachedSpan
    <3>2. /\ gcphase = "off" => sp.gcmarkBits = {}
          /\ Full(sp) => sp.allocCount > 0
      BY <1>1, <1>4, UsedSpan DEF GivingUp
    <3>. QED  BY <1>1, <1>4, <3>1, <3>2
  <2>4. /\ Sound(new) /\ Allocated(new) = Allocated(sp) /\ Full(new) = Full(sp)
        /\ new.class = sp.class /\ new.sweepgen = g
        /\ new.gcmarkBits = sp.gcmarkBits /\ new.allocCount = sp.allocCount
    <3>1. new = [sp EXCEPT !.sweepgen = g]
      OBVIOUS
    <3>2. g \in 0 .. GenMod - 1 /\ Sound(sp)
      BY <2>1, <2>3
    <3>. HIDE DEF g, new, sp
    <3>. QED  BY <3>1, <3>2, NewGen
  <2>. HIDE DEF new
  <2>5. /\ span' = [s \in Span |-> span'[s]] /\ objs' = [s \in Span |-> objs'[s]]
        /\ \A s \in Span \ {x} : span'[s] = span[s] /\ objs'[s] = objs[s]
        /\ span'[x] = new /\ objs'[x] = objs[x]
    BY <1>1, <1>2, <2>2, <2>3 DEF Typed
  <2>6. InCache(t, r, x)
    BY <1>1, <1>2, <1>4, <2>3, <2>4, <2>5 DEF InCache, GivingUp
  <2>. QED  BY <1>2, <2>6, InCacheKeeps
<1>. QED  BY <1>3, <1>4

(* The span at a position of one of the lists of the central.              *)
LEMMA ListedSpan ==
  ASSUME NEW t, Free(t), NEW list, list \in {nonempty, empty}, NEW i \in Nat, i >= 1, i <= Len(list)
  PROVE  /\ list[i] \in ToSet(list) /\ list[i] \in Span /\ Small(list[i])
         /\ SpanOpen(list[i]) /\ span[list[i]].sweepgen \in {Gen(0), Gen(3)}
<1>1. Typed /\ list \in Seq(Span) /\ ToSet(list) \subseteq Span
  <2>1. Typed /\ list \in Seq(Span)
    BY DEF Free, Typed
  <2>. QED  BY <2>1, ToSetSeq
<1>2. list[i] \in ToSet(list) /\ list[i] \in Span
  <2>1. i \in DOMAIN list
    BY <1>1
  <2>. QED  BY <1>1, <2>1 DEF ToSet
<1>3. SpanOpen(list[i])
  BY <1>2 DEF Free, Open
<1>. DEFINE s == list[i]
<1>4. s \in ToSet(nonempty) \/ s \in ToSet(empty)
  BY <1>2
<1>. HIDE DEF s
<1>5. Small(s) /\ span[s].sweepgen \in {Gen(0), Gen(3)}
  <2>1. SpanOpen(s)
    BY <1>3 DEF s
  <2>. QED  BY <1>4, <2>1 DEF SpanOpen, Small
<1>. QED  BY <1>2, <1>3, <1>5 DEF s

LEMMA FromNonemptyKeeps ==
  ASSUME NEW t, Free(t), FromNonempty(t)
  PROVE  Kept
<1>1. /\ t \in Thread /\ th[t] \in FrameType /\ ThreadOpen(t) /\ Typed /\ Open
      /\ \A u \in Thread : th[u].pc \in Running
  BY FreeFacts DEF Free, WorldOK
<1>. PICK x : x = nonempty[th[t].at]
  OBVIOUS
<1>. DEFINE r == [th[t] EXCEPT !.pc = "have", !.s = x]
<1>2. /\ th[t].pc = "nonempty" /\ th[t].sg = sweepgen /\ th[t].at >= 1 /\ th[t].at \in Nat
      /\ th[t].at <= Len(nonempty) /\ locks = t /\ locks' = NULL
      /\ nonempty' = RemoveFirst(nonempty, x) /\ empty' = Append(empty, x)
      /\ UNCHANGED <<sweepVars, gcVars, cached, objs, exit>>
  BY <1>1 DEF FromNonempty, At, ThreadOpen, FrameType
<1>3. x \in ToSet(nonempty) /\ x \in Span /\ SpanOpen(x)
  BY <1>2, ListedSpan
<1>4. Small(x) /\ ~Full(span[x]) /\ \A u \in Thread : ~Has(u, x)
  BY <1>3 DEF SpanOpen
<1>5. span[x].sweepgen = Gen(0) /\ span[x].state = "inUse"
  <2>1. \A u \in Thread : ~Uses(u, x)
    BY <1>4 DEF Uses, Has
  <2>. QED  BY <1>3, <1>4, <2>1 DEF SpanOpen, Small
<1>6. span' = span /\ Move(t, r)
  <2>1. (th[t].sg - 2) % GenMod = Gen(-2) /\ Gen(-2) # Gen(0)
    BY <1>1, <1>2, BufferTypes
  <2>2. ~(span[x].sweepgen = (th[t].sg - 2) % GenMod)
    BY <1>5, <2>1
  <2>. QED  BY <2>2 DEF FromNonempty
<1>7. r \in FrameType /\ r.pc = "have" /\ r.s = x /\ r.sg = sweepgen
  BY <1>1, <1>2, <1>3 DEF FrameType, PCs
<1>. HIDE DEF r
<1>8. /\ th' \in [Thread -> FrameType] /\ th'[t] = r
      /\ \A u \in Thread : u # t => th'[u] = th[u]
  BY <1>1, <1>6, <1>7, Moved
<1>9. /\ New' = New /\ Old' = Old /\ Gen(0)' = Gen(0) /\ Gen(3)' = Gen(3)
      /\ UNCHANGED <<cached, gcphase, sweepgen, mtx, stopped>>
  BY <1>2 DEF sweepVars, gcVars, New, Old, Gen
<1>10. x \notin ToSet(empty)
  BY <1>3, <1>4 DEF SpanOpen
<1>11. /\ nonempty' \in Seq(Span) /\ IsInjective(nonempty') /\ ToSet(nonempty') = ToSet(nonempty) \ {x}
       /\ empty' \in Seq(Span) /\ IsInjective(empty') /\ ToSet(empty') = ToSet(empty) \cup {x}
  <2>1. nonempty \in Seq(Span) /\ empty \in Seq(Span) /\ IsInjective(nonempty) /\ IsInjective(empty)
    BY <1>1 DEF Typed, Open
  <2>2. /\ nonempty' \in Seq(Span) /\ IsInjective(nonempty')
        /\ ToSet(nonempty') = ToSet(nonempty) \ {x}
    BY <1>2, <2>1, RemoveFromList
  <2>3. /\ empty' \in Seq(Span) /\ IsInjective(empty') /\ ToSet(empty') = ToSet(empty) \cup {x}
    BY <1>2, <1>3, <1>10, <2>1, AppendToList
  <2>. QED  BY <2>2, <2>3
<1>12. Typed'
  BY <1>1, <1>2, <1>6, <1>8, <1>11 DEF Typed, sweepVars, gcVars
<1>13. SamePhase
  BY <1>7, <1>8, <1>9 DEF SamePhase
<1>14. ASSUME NEW u \in Thread, u # t
       PROVE  SameThread(u)
  <2>1. locks' = u <=> locks = u
    BY <1>2, <1>14, Constants
  <2>. QED  BY <1>6, <1>8, <1>9, <1>14, <2>1 DEF SameThread, Small
<1>15. ASSUME NEW s \in Span \ {x}
       PROVE  SameSpan(s) /\ SameRoles(t, s)
  <2>1. SameSpan(s)
    BY <1>2, <1>6, <1>9, <1>11, <1>15 DEF SameSpan
  <2>2. SameRoles(t, s)
    BY <1>2, <1>7, <1>8, <1>9, <1>15 DEF SameRoles, Has, InHand, Inserts, Takes, Uses, GivingUp
  <2>. QED  BY <2>1, <2>2
<1>16. Small(x)' /\ ~Full(span'[x]) /\ \A u \in Thread : cached'[u] # x
  BY <1>4, <1>6, <1>9 DEF Small, Has
<1>17. ThreadOpen(t)'
  <2>1. locks' # t
    BY <1>1, <1>2, Constants
  <2>2. cached[t] # NULL =>
          /\ cached[t] \in Span /\ Small(cached[t]) /\ Full(span[cached[t]])
    BY <1>1, <1>2 DEF ThreadOpen, GivingUp
  <2>. QED  BY <1>3, <1>6, <1>7, <1>8, <1>9, <1>16, <2>1, <2>2 DEF ThreadOpen, Small, GivingUp
<1>18. SpanOpen(x)'
  <2>1. /\ \A u \in Thread : Has(u, x)' <=> u = t
        /\ InHand(t, x)' /\ \A u \in Thread : ~Uses(u, x)' /\ ~Inserts(u, x)'
    BY <1>4, <1>7, <1>8, <1>9, <1>16 DEF Has, InHand, Uses, Inserts
  <2>2. \A u \in Thread : th'[u].pc # "gcSweep"
    BY <1>1, <1>7, <1>8 DEF Running
  <2>3. Gen(0) # Gen(3)
    BY <1>1, BufferTypes
  <2>4. UNCHANGED <<span, objs, gcphase>> /\ New' = New
    BY <1>2, <1>6, <1>9
  <2>. QED  BY <1>1, <1>3, <1>5, <1>9, <1>11, <1>16, <2>1, <2>2, <2>3, <2>4 DEF SpanOpen
<1>19. /\ IsInjective(New') /\ Old' = <<>>
  BY <1>1, <1>9 DEF Open
<1>20. Open'
  <2>1. {x} \in SUBSET Span /\ \A s \in {x} : SpanOpen(s)'
    BY <1>3, <1>18
  <2>. QED  BY <1>1, <1>11, <1>13, <1>14, <1>15, <1>17, <1>19, <2>1, TouchKeeps
<1>. QED  BY <1>7, <1>8, <1>9, <1>12, <1>20, FreeKeeps DEF Running

(* The span in hand.                                                       *)
LEMMA SpanInHand ==
  ASSUME NEW t, Free(t), th[t].pc \in {"insert", "have"}, NEW x, x = th[t].s
  PROVE  /\ x \in Span /\ Small(x) /\ ~Full(span[x]) /\ SpanOpen(x) /\ InHand(t, x)
         /\ \A u \in Thread : cached[u] # x
         /\ \A u \in Thread : u # t => ~Has(u, x)
         /\ x \notin ToSet(nonempty) /\ span[x].sweepgen = Gen(0) /\ span[x].state = "inUse"
         /\ x \in ToSet(empty) <=> th[t].pc = "have"
<1>1. t \in Thread /\ ThreadOpen(t)
  BY FreeFacts
<1>2. /\ x \in Span /\ Small(x) /\ ~Full(span[x]) /\ InHand(t, x) /\ Has(t, x)
      /\ \A u \in Thread : cached[u] # x
  BY <1>1 DEF ThreadOpen, InHand, Has
<1>3. SpanOpen(x)
  BY <1>2 DEF Free, Open
<1>4. \A u \in Thread : u # t => ~Has(u, x)
  BY <1>1, <1>2, <1>3 DEF SpanOpen
<1>5. \A u \in Thread : u # t => ~Inserts(u, x)
  BY <1>4 DEF Has, InHand, Inserts
<1>6. \A u \in Thread : ~Uses(u, x)
  BY <1>2 DEF Uses
<1>7. x \in ToSet(empty) <=> th[t].pc = "have"
  BY <1>1, <1>2, <1>3, <1>5 DEF SpanOpen, Inserts
<1>8. x \notin ToSet(nonempty)
  BY <1>1, <1>2, <1>3 DEF SpanOpen
<1>9. span[x].sweepgen = Gen(0) /\ span[x].state = "inUse"
  BY <1>2, <1>3, <1>6 DEF SpanOpen, Small
<1>. QED  BY <1>2, <1>3, <1>4, <1>7, <1>8, <1>9

LEMMA InsertKeeps ==
  ASSUME NEW t, Free(t), Insert(t)
  PROVE  Kept
<1>1. /\ t \in Thread /\ th[t] \in FrameType /\ ThreadOpen(t) /\ Typed /\ Open
      /\ \A u \in Thread : th[u].pc \in Running
  BY FreeFacts DEF Free, WorldOK
<1>. PICK x : x = th[t].s
  OBVIOUS
<1>. DEFINE r == [th[t] EXCEPT !.pc = "have"]
<1>2. /\ th[t].pc = "insert" /\ th[t].s = x /\ locks = NULL /\ Move(t, r)
      /\ empty' = Append(empty, x)
      /\ UNCHANGED <<span, nonempty, sweepVars, gcVars, cached, locks, objs, exit>>
  BY DEF Insert, At, Goto
<1>3. /\ x \in Span /\ Small(x) /\ ~Full(span[x]) /\ SpanOpen(x) /\ InHand(t, x)
      /\ \A u \in Thread : cached[u] # x
      /\ \A u \in Thread : u # t => ~Has(u, x)
      /\ x \notin ToSet(nonempty) /\ span[x].sweepgen = Gen(0) /\ span[x].state = "inUse"
      /\ x \notin ToSet(empty)
  BY <1>2, SpanInHand
<1>4. r \in FrameType /\ r.pc = "have" /\ r.s = x
  BY <1>1, <1>2, <1>3 DEF FrameType, PCs
<1>. HIDE DEF r
<1>5. /\ th' \in [Thread -> FrameType] /\ th'[t] = r
      /\ \A u \in Thread : u # t => th'[u] = th[u]
  BY <1>1, <1>2, <1>4, Moved
<1>6. /\ New' = New /\ Old' = Old /\ Gen(0)' = Gen(0) /\ Gen(3)' = Gen(3)
      /\ UNCHANGED <<cached, gcphase, sweepgen, mtx, stopped>>
  BY <1>2 DEF sweepVars, gcVars, New, Old, Gen
<1>7. /\ empty' \in Seq(Span) /\ IsInjective(empty') /\ ToSet(empty') = ToSet(empty) \cup {x}
  <2>1. empty \in Seq(Span) /\ IsInjective(empty)
    BY <1>1 DEF Typed, Open
  <2>. QED  BY <1>2, <1>3, <2>1, AppendToList
<1>8. Typed'
  BY <1>1, <1>2, <1>5, <1>7 DEF Typed, sweepVars, gcVars
<1>9. SamePhase
  BY <1>4, <1>5, <1>6 DEF SamePhase
<1>10. ASSUME NEW u \in Thread, u # t
       PROVE  SameThread(u)
  BY <1>2, <1>5, <1>6, <1>10 DEF SameThread, Small
<1>11. ASSUME NEW s \in Span \ {x}
       PROVE  SameSpan(s) /\ SameRoles(t, s)
  <2>1. SameSpan(s)
    BY <1>2, <1>6, <1>7, <1>11 DEF SameSpan
  <2>2. SameRoles(t, s)
    BY <1>2, <1>4, <1>5, <1>6, <1>11 DEF SameRoles, Has, InHand, Inserts, Takes, Uses, GivingUp
  <2>. QED  BY <2>1, <2>2
<1>12. Small(x)' /\ ~Full(span'[x]) /\ \A u \in Thread : cached'[u] # x
  BY <1>2, <1>3, <1>6 DEF Small
<1>13. ThreadOpen(t)'
  <2>1. locks' # t
    BY <1>1, <1>2, Constants
  <2>2. cached[t] # NULL =>
          /\ cached[t] \in Span /\ Small(cached[t]) /\ Full(span[cached[t]])
    BY <1>1, <1>2 DEF ThreadOpen, GivingUp
  <2>. QED  BY <1>2, <1>3, <1>4, <1>5, <1>6, <1>12, <2>1, <2>2 DEF ThreadOpen, Small, GivingUp
<1>14. SpanOpen(x)'
  <2>1. /\ \A u \in Thread : Has(u, x)' <=> u = t
        /\ InHand(t, x)' /\ \A u \in Thread : ~Uses(u, x)' /\ ~Inserts(u, x)'
    BY <1>3, <1>4, <1>5, <1>6, <1>12 DEF Has, InHand, Uses, Inserts
  <2>2. \A u \in Thread : th'[u].pc # "gcSweep"
    BY <1>1, <1>4, <1>5 DEF Running
  <2>3. Gen(0) # Gen(3)
    BY <1>1, BufferTypes
  <2>4. UNCHANGED <<span, objs, nonempty, gcphase>> /\ New' = New
    BY <1>2, <1>6
  <2>. QED  BY <1>1, <1>3, <1>6, <1>7, <1>12, <2>1, <2>2, <2>3, <2>4 DEF SpanOpen
<1>15. /\ IsInjective(New') /\ Old' = <<>> /\ IsInjective(nonempty')
  BY <1>1, <1>2, <1>6 DEF Open
<1>16. Open'
  <2>1. {x} \in SUBSET Span /\ \A s \in {x} : SpanOpen(s)'
    BY <1>3, <1>14
  <2>. QED  BY <1>1, <1>7, <1>9, <1>10, <1>11, <1>13, <1>15, <2>1, TouchKeeps
<1>. QED  BY <1>4, <1>5, <1>6, <1>8, <1>16, FreeKeeps DEF Running

LEMMA CacheKeeps ==
  ASSUME NEW t, Free(t), Cache(t)
  PROVE  Kept
<1>1. /\ t \in Thread /\ th[t] \in FrameType /\ ThreadOpen(t) /\ Typed /\ Open
      /\ \A u \in Thread : th[u].pc \in Running
  BY FreeFacts DEF Free, WorldOK
<1>. PICK x, y, g : x = th[t].s /\ y = cached[t] /\ g = Gen(3)
  OBVIOUS
<1>. DEFINE r == [Idle EXCEPT !.pc = "take"]
            new == [span[x] EXCEPT !.sweepgen = g]
<1>2. /\ th[t].pc = "have" /\ th[t].s = x /\ Move(t, r)
      /\ span' = [span EXCEPT ![x] = new] /\ cached' = [cached EXCEPT ![t] = x]
      /\ UNCHANGED <<lists, sweepVars, gcVars, locks, objs, exit>>
  BY DEF Cache, At, SetGen
<1>3. /\ x \in Span /\ Small(x) /\ ~Full(span[x]) /\ SpanOpen(x) /\ InHand(t, x)
      /\ \A u \in Thread : cached[u] # x
      /\ \A u \in Thread : u # t => ~Has(u, x)
      /\ x \notin ToSet(nonempty) /\ span[x].sweepgen = Gen(0) /\ span[x].state = "inUse"
      /\ x \in ToSet(empty)
  BY <1>2, SpanInHand
<1>4. r \in FrameType /\ r.pc = "take" /\ r.s = NULL
  BY IdleFrame DEF FrameType, PCs, Idle
<1>. HIDE DEF r
<1>5. /\ th' \in [Thread -> FrameType] /\ th'[t] = r
      /\ \A u \in Thread : u # t => th'[u] = th[u]
  BY <1>1, <1>2, <1>4, Moved
<1>6. /\ New' = New /\ Old' = Old /\ Gen(0)' = Gen(0) /\ Gen(3)' = Gen(3)
      /\ UNCHANGED <<nonempty, empty, locks, gcphase, sweepgen, mtx, stopped, objs>>
  BY <1>2 DEF sweepVars, gcVars, lists, New, Old, Gen
<1>7. /\ cached' \in [Thread -> Span \cup {NULL}] /\ cached'[t] = x
      /\ \A u \in Thread : u # t => cached'[u] = cached[u]
      /\ span' = [s \in Span |-> span'[s]] /\ span'[x] = new
      /\ \A s \in Span : s # x => span'[s] = span[s]
  <2>1. cached \in [Thread -> Span \cup {NULL}] /\ span = [s \in Span |-> span[s]]
    BY <1>1 DEF Typed
  <2>. HIDE DEF new
  <2>. QED  BY <1>1, <1>2, <1>3, <2>1
<1>8. Typed'
  BY <1>1, <1>2, <1>5, <1>7 DEF Typed, sweepVars, gcVars, lists
<1>9. /\ Sound(new) /\ Allocated(new) = Allocated(span[x]) /\ ~Full(new)
      /\ new.class = "small" /\ new.sweepgen = g /\ new.state = "inUse"
      /\ new.gcmarkBits = span[x].gcmarkBits
  <2>1. Sound(span[x]) /\ g \in 0 .. GenMod - 1 /\ ~Full(span[x])
    BY <1>1, <1>3, BufferTypes DEF SpanOpen
  <2>. PICK sp, nw : sp = span[x] /\ nw = new
    OBVIOUS
  <2>2. nw = [sp EXCEPT !.sweepgen = g]
    OBVIOUS
  <2>3. /\ Sound(nw) /\ Allocated(nw) = Allocated(sp) /\ Full(nw) = Full(sp)
        /\ nw.class = sp.class /\ nw.sweepgen = g
        /\ nw.gcmarkBits = sp.gcmarkBits
    BY <2>1, <2>2, NewGen
  <2>. HIDE DEF new
  <2>. QED  BY <1>3, <2>1, <2>3 DEF Small, Sound
<1>. HIDE DEF new
<1>10. SamePhase
  BY <1>4, <1>5, <1>6 DEF SamePhase
<1>11. \A s \in Span : (Small(s)' <=> Small(s)) /\ Full(span'[s]) = Full(span[s])
  <2>1. ASSUME NEW s \in Span, s # x
        PROVE  span'[s] = span[s]
    BY <1>7, <2>1
  <2>2. span'[x] = new /\ span[x].class = "small"
    BY <1>3, <1>7 DEF Small
  <2>3. (Small(x)' <=> Small(x)) /\ (Full(span'[x]) <=> Full(span[x]))
    BY <1>3, <1>9, <2>2 DEF Small
  <2>. QED  BY <2>1, <2>3 DEF Small, Full
<1>12. ASSUME NEW u \in Thread, u # t
       PROVE  SameThread(u)
  <2>1. \A v \in Thread : cached'[v] # cached[v] => v = t
    BY <1>7
  <2>2. ~InHand(u, x)
    BY <1>3, <1>12 DEF Has
  <2>. QED  BY <1>5, <1>6, <1>7, <1>11, <1>12, <2>1, <2>2 DEF SameThread
<1>13. y # x /\ y \in Span \cup {NULL}
  BY <1>1, <1>3 DEF Typed
<1>14. ASSUME NEW s \in Span \ {x, y}
       PROVE  SameSpan(s) /\ SameRoles(t, s)
  <2>1. SameSpan(s)
    BY <1>6, <1>7, <1>14 DEF SameSpan
  <2>2. SameRoles(t, s)
    BY <1>2, <1>4, <1>5, <1>7, <1>14 DEF SameRoles, Has, InHand, Inserts, Takes, Uses, GivingUp
  <2>. QED  BY <2>1, <2>2
<1>15. ThreadOpen(t)'
  <2>1. locks' # t
    BY <1>1, <1>2, <1>6 DEF ThreadOpen
  <2>2. Small(x)' /\ ~Full(span'[x])
    BY <1>3, <1>11
  <2>. QED  BY <1>3, <1>4, <1>5, <1>7, <2>1, <2>2, Constants DEF ThreadOpen, GivingUp
<1>16. \A u \in Thread : th'[u].pc # "gcSweep"
  BY <1>1, <1>4, <1>5 DEF Running
<1>17. SpanOpen(x)'
  <2>1. /\ \A u \in Thread : Has(u, x)' <=> u = t
        /\ Takes(t, x)' /\ Uses(t, x)' /\ \A u \in Thread : ~Inserts(u, x)'
    BY <1>3, <1>4, <1>5, <1>7 DEF Has, InHand, Uses, Inserts, Takes, GivingUp
  <2>2. Small(x)' /\ ~Full(span'[x]) /\ span'[x].sweepgen = Gen(3)
    BY <1>3, <1>7, <1>9, <1>11
  <2>3. /\ Sound(span'[x]) /\ objs'[x] \subseteq Allocated(span'[x])
        /\ gcphase' = "off" => span'[x].gcmarkBits = {}
    BY <1>3, <1>6, <1>7, <1>9 DEF SpanOpen
  <2>4. x \in ToSet(New)
    BY <1>3 DEF SpanOpen
  <2>. QED  BY <1>1, <1>3, <1>6, <1>7, <1>9, <1>16, <2>1, <2>2, <2>3, <2>4 DEF SpanOpen
<1>18. ASSUME y \in Span
       PROVE  SpanOpen(y)'
  <2>0. y # NULL
    BY <1>18, Constants
  <2>1. SpanOpen(y) /\ Small(y) /\ Full(span[y]) /\ Has(t, y) /\ \A u \in Thread : u # t => ~Has(u, y)
    <3>1. Full(span[y])
      BY <1>1, <1>2, <2>0 DEF ThreadOpen, GivingUp
    <3>2. SpanOpen(y)
      BY <1>1, <1>18 DEF Open
    <3>. QED  BY <2>0, <3>1, <3>2, CachedSpan
  <2>2. span'[y] = span[y] /\ Small(y)'
    BY <1>7, <1>11, <1>13, <1>18, <2>1
  <2>3. /\ \A u \in Thread : ~Has(u, y)'
        /\ \A u \in Thread : ~Uses(u, y)' /\ ~Inserts(u, y)'
    BY <1>4, <1>5, <1>7, <1>13, <2>1, Constants DEF Has, InHand, Uses, Inserts
  <2>4. \A u \in Thread : ~Uses(u, y) /\ ~Inserts(u, y)
    BY <1>2, <1>13, <2>1 DEF Has, InHand, Uses, Inserts, GivingUp
  <2>5. span[y].allocCount > 0
    <3>1. Sound(span[y])
      BY <2>1 DEF SpanOpen, Small
    <3>2. span[y].nelems \in 1 .. NELEMS
      BY <3>1, SpanTypes
    <3>. QED  BY <2>1, <3>2, Constants DEF Full
  <2>. QED  BY <1>6, <1>16, <2>1, <2>2, <2>3, <2>4, <2>5 DEF SpanOpen, Small
<1>19. /\ IsInjective(New') /\ Old' = <<>> /\ IsInjective(nonempty') /\ IsInjective(empty')
  BY <1>1, <1>6 DEF Open
<1>20. Open'
  <2>. DEFINE T == {x, y} \cap Span
  <2>1. /\ T \in SUBSET Span /\ \A s \in T : SpanOpen(s)'
        /\ \A s \in Span \ T : SameSpan(s) /\ SameRoles(t, s)
    BY <1>14, <1>17, <1>18
  <2>. HIDE DEF T
  <2>. QED  BY <1>1, <1>10, <1>12, <1>15, <1>19, <2>1, TouchKeeps
<1>. QED  BY <1>4, <1>5, <1>6, <1>8, <1>20, FreeKeeps DEF Running

(* heap_alloc by central_grow and by largeAlloc.                           *)
Allocates(t, r, x) ==
    LET new == span'[x] IN
    /\ Move(t, r) /\ x \in Span /\ span[x].state = "free"
    /\ span' = [s \in Span |-> span'[s]] /\ objs' = [s \in Span |-> objs'[s]]
    /\ \A s \in Span \ {x} : span'[s] = span[s] /\ objs'[s] = objs[s]
    /\ sweepSpans' = [sweepSpans EXCEPT ![SweepBuffer(sweepgen)] = Append(@, x)]
    /\ UNCHANGED <<lists, sweepgen, sweepdone, gcVars, cached, locks, exit>>
    /\ Sound(new) /\ new.sweepgen = Gen(0) /\ objs'[x] \subseteq Allocated(new)
    /\ gcphase = "off" => new.gcmarkBits = {}
    /\ \/ /\ new.class = "small" /\ ~Full(new)
          /\ th[t].pc = "grow" /\ r.pc = "insert" /\ r.s = x
       \/ /\ new.class = "large" /\ new.allocCount > 0
          /\ th[t].pc = "large" /\ r.pc = "idle"

LEMMA AllocatesKeeps ==
  ASSUME NEW t, Free(t), NEW r \in FrameType, NEW x, Allocates(t, r, x)
  PROVE  Kept
<1>1. /\ t \in Thread /\ th[t] \in FrameType /\ ThreadOpen(t) /\ Typed /\ Open
      /\ \A u \in Thread : th[u].pc \in Running
  BY FreeFacts DEF Free, WorldOK
<1>2. x \in Span /\ span[x].state = "free" /\ SpanOpen(x)
  BY <1>1 DEF Allocates, Open
<1>3. /\ x \notin ToSet(nonempty) /\ x \notin ToSet(empty) /\ x \notin ToSet(New)
      /\ \A u \in Thread : ~Has(u, x)
  <2>1. \A u \in Thread : cached[u] = x => Small(x)
    BY <1>1, <1>2, Constants DEF Open, ThreadOpen
  <2>2. \A u \in Thread : InHand(u, x) => Small(x)
    BY <1>1 DEF Open, ThreadOpen, InHand
  <2>. QED  BY <1>2, <2>1, <2>2 DEF SpanOpen, Small, Has
<1>4. /\ th' \in [Thread -> FrameType] /\ th'[t] = r
      /\ \A u \in Thread : u # t => th'[u] = th[u]
  BY <1>1, Moved DEF Allocates
<1>5. /\ Gen(0)' = Gen(0) /\ Gen(3)' = Gen(3)
      /\ UNCHANGED <<nonempty, empty, cached, locks, gcphase, sweepgen, mtx, stopped>>
  BY DEF Allocates, gcVars, lists, Gen
<1>6. /\ New' = Append(New, x) /\ Old' = Old /\ sweepSpans' \in [{0, 1} -> Seq(Span)]
  <2>1. /\ SweepBuffer(sweepgen) \in {0, 1} /\ 1 - SweepBuffer(sweepgen) \in {0, 1}
        /\ 1 - SweepBuffer(sweepgen) # SweepBuffer(sweepgen)
        /\ New \in Seq(Span) /\ sweepSpans \in [{0, 1} -> Seq(Span)]
    BY <1>1, BufferTypes DEF Typed
  <2>2. sweepSpans' = [sweepSpans EXCEPT ![SweepBuffer(sweepgen)] = Append(New, x)]
    BY DEF Allocates, New
  <2>3. Append(New, x) \in Seq(Span)
    BY <1>2, <2>1
  <2>. QED  BY <1>5, <2>1, <2>2, <2>3 DEF New, Old
<1>7. IsInjective(New') /\ ToSet(New') = ToSet(New) \cup {x}
  <2>1. New \in Seq(Span) /\ IsInjective(New)
    BY <1>1, BufferTypes DEF Open
  <2>. QED  BY <1>2, <1>3, <1>6, <2>1, AppendToList
<1>8. Typed'
  BY <1>1, <1>4, <1>6 DEF Typed, Allocates, lists, gcVars
<1>9. SamePhase
  BY <1>4, <1>5 DEF SamePhase, Allocates
<1>10. ASSUME NEW u \in Thread, u # t
       PROVE  SameThread(u)
  <2>1. \A s \in Span : Has(u, s) => span'[s] = span[s]
    BY <1>3 DEF Allocates
  <2>. QED  BY <1>4, <1>5, <1>10, <2>1 DEF SameThread, Small
<1>11. ASSUME NEW s \in Span \ {x}
       PROVE  SameSpan(s) /\ SameRoles(t, s)
  <2>1. SameSpan(s)
    BY <1>5, <1>7, <1>11 DEF SameSpan, Allocates
  <2>2. SameRoles(t, s)
    BY <1>4, <1>5, <1>11 DEF SameRoles, Has, InHand, Inserts, Takes, Uses, GivingUp, Allocates
  <2>. QED  BY <2>1, <2>2
<1>12. \A u \in Thread : cached'[u] # x
  BY <1>3, <1>5 DEF Has
<1>13. ThreadOpen(t)'
  <2>1. locks' # t
    BY <1>1, <1>5 DEF ThreadOpen, Allocates
  <2>2. cached[t] # NULL =>
          /\ cached[t] \in Span /\ Small(cached[t])
          /\ th[t].pc = "grow" => Full(span[cached[t]])
    BY <1>1 DEF ThreadOpen, GivingUp
  <2>3. cached[t] # NULL => cached[t] \in Span \ {x}
    BY <1>1, <1>3, <2>2 DEF Has
  <2>4. cached[t] # NULL => span'[cached[t]] = span[cached[t]]
    BY <2>3 DEF Allocates
  <2>5. r.pc = "insert" => r.s = x /\ Small(x)' /\ ~Full(span'[x])
    BY DEF Allocates, Small, Sound
  <2>6. /\ r.pc \in {"insert", "idle"}
        /\ r.pc = "insert" => th[t].pc = "grow"
    BY DEF Allocates
  <2>. QED  BY <1>2, <1>4, <1>5, <1>12, <2>1, <2>2, <2>3, <2>4, <2>5, <2>6
       DEF ThreadOpen, Small, GivingUp
<1>14. SpanOpen(x)'
  <2>1. /\ \A u \in Thread : (Has(u, x)' => u = t) /\ ~Uses(u, x)'
        /\ r.pc = "insert" => Has(t, x)' /\ InHand(t, x)' /\ Inserts(t, x)'
    BY <1>3, <1>4, <1>5, <1>12 DEF Has, InHand, Uses, Inserts, Allocates
  <2>2. \A u \in Thread : th'[u].pc # "gcSweep"
    BY <1>1, <1>4 DEF Running, Allocates
  <2>3. Gen(0) # Gen(3)
    BY <1>1, BufferTypes
  <2>4. /\ Sound(span'[x]) /\ span'[x].sweepgen = Gen(0) /\ objs'[x] \subseteq Allocated(span'[x])
        /\ gcphase = "off" => span'[x].gcmarkBits = {}
    BY DEF Allocates
  <2>5. span'[x].state = "inUse"
    BY <2>4 DEF Sound
  <2>6. \/ Small(x)' /\ ~Full(span'[x]) /\ r.pc = "insert"
        \/ ~Small(x)' /\ span'[x].allocCount > 0
    BY <2>5 DEF Allocates, Small
  <2>. QED  BY <1>1, <1>3, <1>5, <1>7, <2>1, <2>2, <2>3, <2>4, <2>5, <2>6 DEF SpanOpen
<1>15. /\ Old' = <<>> /\ IsInjective(nonempty') /\ IsInjective(empty')
  BY <1>1, <1>5, <1>6 DEF Open
<1>16. Open'
  <2>1. {x} \in SUBSET Span /\ \A s \in {x} : SpanOpen(s)'
    BY <1>2, <1>14
  <2>. QED  BY <1>1, <1>7, <1>9, <1>10, <1>11, <1>13, <1>15, <2>1, TouchKeeps
<1>. QED  BY <1>4, <1>5, <1>8, <1>16, FreeKeeps DEF Running, Allocates

LEMMA GrowKeeps ==
  ASSUME NEW t, Free(t), central_grow(t)
  PROVE  Kept
<1>1. /\ t \in Thread /\ th[t] \in FrameType /\ Typed /\ Open
  BY FreeFacts DEF Free
<1>2. PICK x \in Span : /\ heap_alloc(x, NewSpan("small", NELEMS))
                        /\ Move(t, [th[t] EXCEPT !.pc = "insert", !.s = x])
  BY DEF central_grow
<1>. DEFINE r == [th[t] EXCEPT !.pc = "insert", !.s = x]
<1>3. r \in FrameType /\ r.pc = "insert" /\ r.s = x
  BY <1>1 DEF FrameType, PCs
<1>. HIDE DEF r
<1>. PICK new : new = NewSpan("small", NELEMS)
  OBVIOUS
<1>4. /\ Sound(new) /\ ~Full(new) /\ new.class = "small" /\ new.sweepgen = Gen(0)
      /\ new.gcmarkBits = {} /\ Allocated(new) = {}
  <2>1. Taken(new, "small", Gen(0), NELEMS, 0, {})
    BY <1>1, NewSmall DEF Typed
  <2>. QED  BY <2>1, TakenSmall
<1>5. /\ span = [s \in Span |-> span[s]] /\ objs = [s \in Span |-> objs[s]]
      /\ objs[x] = {} /\ span[x].state = "free"
  BY <1>1, <1>2 DEF Typed, Open, SpanOpen, heap_alloc
<1>6. /\ span' = [s \in Span |-> span'[s]] /\ span'[x] = new
      /\ \A s \in Span \ {x} : span'[s] = span[s]
  BY <1>2, <1>5 DEF heap_alloc
<1>7. /\ sweepSpans' = [sweepSpans EXCEPT ![SweepBuffer(sweepgen)] = Append(@, x)]
      /\ UNCHANGED <<lists, sweepgen, sweepdone, gcVars, cached, locks, objs, exit>>
      /\ th[t].pc = "grow"
  BY <1>2 DEF heap_alloc, central_grow, At
<1>8. Allocates(t, r, x)
  BY <1>2, <1>3, <1>4, <1>5, <1>6, <1>7 DEF Allocates, r
<1>. QED  BY <1>3, <1>8, AllocatesKeeps

LEMMA LargeKeeps ==
  ASSUME NEW t, Free(t), largeAlloc(t)
  PROVE  Kept
<1>1. /\ t \in Thread /\ th[t] \in FrameType /\ Typed /\ Open
  BY FreeFacts DEF Free
<1>. PICK M : M = IF gcphase = "off" THEN {} ELSE {0}
  OBVIOUS
<1>2. PICK x \in Span :
         /\ heap_alloc(x, [NewSpan("large", 1) EXCEPT !.freeindex = 1, !.allocCount = 1,
                              !.gcmarkBits = IF gcphase = "off" THEN {} ELSE {0}])
         /\ objs' = [objs EXCEPT ![x] = {0}]
  BY DEF largeAlloc
<1>. PICK new : new = [NewSpan("large", 1) EXCEPT !.freeindex = 1, !.allocCount = 1,
                          !.gcmarkBits = M]
  OBVIOUS
<1>3. /\ Sound(new) /\ new.class = "large" /\ new.sweepgen = Gen(0)
      /\ new.gcmarkBits = M /\ Allocated(new) = {0} /\ new.allocCount > 0
  <2>1. M \in {{}, {0}}
    OBVIOUS
  <2>2. Taken(new, "large", Gen(0), 1, 1, M)
    BY <1>1, <2>1, NewLarge DEF Typed
  <2>. QED  BY <2>1, <2>2, TakenLarge
<1>4. span[x].state = "free" /\ span' = [span EXCEPT ![x] = new]
  BY <1>2 DEF heap_alloc
<1>5. /\ span = [s \in Span |-> span[s]] /\ objs = [s \in Span |-> objs[s]]
  BY <1>1 DEF Typed
<1>6. /\ span' = [s \in Span |-> span'[s]] /\ span'[x] = new
      /\ \A s \in Span \ {x} : span'[s] = span[s]
      /\ objs' = [s \in Span |-> objs'[s]] /\ objs'[x] = {0}
      /\ \A s \in Span \ {x} : objs'[s] = objs[s]
  BY <1>2, <1>4, <1>5
<1>7. /\ sweepSpans' = [sweepSpans EXCEPT ![SweepBuffer(sweepgen)] = Append(@, x)]
      /\ UNCHANGED <<lists, sweepgen, sweepdone, gcVars, cached, locks, exit>>
      /\ th[t].pc = "large" /\ Move(t, Idle)
  BY <1>2 DEF heap_alloc, largeAlloc, At, Return
<1>8. Idle.pc = "idle" /\ Idle \in FrameType
  BY IdleFrame DEF Idle
<1>9. Allocates(t, Idle, x)
  BY <1>3, <1>4, <1>6, <1>7, <1>8 DEF Allocates
<1>. QED  BY <1>8, <1>9, AllocatesKeeps

(* A step that ends the program, or none.                                  *)
LEMMA NothingMoves ==
  ASSUME Typed, WorldOK, Settled, UNCHANGED <<heapVars, gcVars, cached, locks, th, objs>>,
         exit' \in {"no", "memory", "throw"}
  PROVE  Kept
<1>1. /\ UNCHANGED <<span, nonempty, empty, sweepSpans, sweepgen, sweepdone>>
      /\ UNCHANGED <<gcphase, worldsema, mtx, stopped, todo, cached, locks, th, objs>>
  BY DEF heapVars, lists, sweepVars, gcVars
<1>2. Typed'
  BY <1>1 DEF Typed
<1>3. WorldOK'
  BY <1>1 DEF WorldOK, InSweep, AtSafePoint
<1>4. New' = New /\ Old' = Old /\ \A k \in Int : Gen(k)' = Gen(k)
  BY <1>1 DEF New, Old, Gen
<1>5. Open => Open'
  <2>1. \A u \in Thread : ThreadOpen(u) => ThreadOpen(u)'
    BY <1>1 DEF ThreadOpen, Small
  <2>2. \A s \in Span : SpanOpen(s) => SpanOpen(s)'
    <3>1. SamePhase /\ \A s \in Span : SameSpan(s)
      BY <1>1, <1>4 DEF SamePhase, SameSpan
    <3>2. \A u \in Thread : \A s \in Span : SameRoles(u, s)
      BY <1>1 DEF SameRoles, Has, InHand, Inserts, Takes, Uses
    <3>. QED  BY <3>1, <3>2, SpanKeeps
  <2>. QED  BY <1>1, <1>4, <2>1, <2>2 DEF Open
<1>6. \A c \in Thread : Sweep(c) => Sweep(c)'
  <2>. TAKE c \in Thread
  <2>1. CollectorSweeps(c) => CollectorSweeps(c)'
    BY <1>1, <1>4 DEF CollectorSweeps, Past
  <2>2. ASSUME NEW s \in Span, SpanSwept(c, s)
        PROVE  SpanSwept(c, s)'
    <3>1. Held(c, s)' <=> Held(c, s)
      BY <1>1 DEF Held, Past
    <3>2. \A pcs : Carries(c, pcs, s)' <=> Carries(c, pcs, s)
      BY <1>1 DEF Carries
    <3>3. Small(s)' <=> Small(s)
      BY <1>1 DEF Small
    <3>. QED  BY <1>1, <1>4, <2>2, <3>1, <3>2, <3>3 DEF SpanSwept
  <2>. QED  BY <1>1, <1>4, <2>1, <2>2 DEF Sweep
<1>7. Settled'
  BY <1>1, <1>5, <1>6, Constants DEF Settled, InSweep, WorldOK
<1>. QED  BY <1>2, <1>3, <1>7 DEF Kept

LEMMA FreeStep ==
  ASSUME NEW t, Free(t), SafePoints, CollectorInv, exit = "no",
         Allocate(t) \/ SweepStep(t) \/ Collect(t)
  PROVE  Kept
<1>1. /\ t \in Thread /\ ThreadOpen(t) /\ th[t].pc \in Running /\ Typed /\ Open
      /\ th[t] \in FrameType
  BY FreeFacts DEF Free
<1>2. CASE mallocgc(t) \/ central_cacheSpan(t) \/ NoneInNonempty(t) \/ NoneInEmpty(t)
  BY <1>2, QuietAllocates
<1>3. CASE \/ sweepone(t) \/ SweepDone(t) \/ gcStart(t) \/ Help(t) \/ TryStart(t) \/ Await(t)
           \/ Begin(t)
  BY <1>3, QuietCollects
<1>4. CASE cache_nextFree(t) \/ CacheFull(t) \/ cache_refill(t)
  BY <1>4, NextFreeKeeps, CacheFullKeeps, RefillKeeps
<1>5. CASE FromNonempty(t) \/ central_grow(t) \/ Insert(t) \/ largeAlloc(t) \/ Cache(t)
  BY <1>5, FromNonemptyKeeps, GrowKeeps, InsertKeeps, LargeKeeps, CacheKeeps
<1>6. CASE OutOfMemory(t)
  <2>1. Typed /\ WorldOK /\ Settled
    BY DEF Free, Settled
  <2>2. UNCHANGED <<heapVars, gcVars, cached, locks, th, objs>> /\ exit' = "memory"
    BY <1>6 DEF OutOfMemory
  <2>. QED  BY <2>1, <2>2, NothingMoves
<1>7. CASE stopTheWorld(t)
  BY <1>7, StopsTheWorld
<1>8. th[t].pc \in {"nonempty", "empty"} =>
        (th[t].sg - 2) % GenMod = Gen(-2) /\ (th[t].sg - 1) % GenMod = Gen(-1)
  BY <1>1, BufferTypes DEF ThreadOpen
<1>9. {Gen(-2), Gen(-1)} \cap {Gen(0), Gen(3)} = {}
  BY <1>1, BufferTypes
<1>10. CASE FromEmpty(t)
  <2>1. /\ th[t].pc = "empty" /\ th[t].at >= 1 /\ th[t].at \in Nat /\ th[t].at <= Len(empty)
        /\ span[empty[th[t].at]].sweepgen = Gen(-2)
    BY <1>1, <1>8, <1>10 DEF FromEmpty, At, ThreadOpen, FrameType
  <2>2. span[empty[th[t].at]].sweepgen \in {Gen(0), Gen(3)}
    BY <2>1, ListedSpan
  <2>. QED  BY <1>9, <2>1, <2>2
<1>11. CASE SkipSpan(t)
  <2>. PICK list : list = IF At(t, "nonempty") THEN nonempty ELSE empty
    OBVIOUS
  <2>1. /\ th[t].pc \in {"nonempty", "empty"} /\ th[t].at >= 1 /\ th[t].at \in Nat
        /\ th[t].at <= Len(list) /\ span[list[th[t].at]].sweepgen = Gen(-1)
    BY <1>1, <1>8, <1>11 DEF SkipSpan, At, ThreadOpen, FrameType
  <2>2. list \in {nonempty, empty}
    OBVIOUS
  <2>3. span[list[th[t].at]].sweepgen \in {Gen(0), Gen(3)}
    BY <2>1, <2>2, ListedSpan
  <2>. QED  BY <1>9, <2>1, <2>3
<1>12. CASE gcsweepbuf_pop(t)
  <2>1. th[t].sg = sweepgen
    BY <1>1, <1>12 DEF gcsweepbuf_pop, At, ThreadOpen
  <2>2. Old # <<>>
    BY <1>12, <2>1 DEF gcsweepbuf_pop, Old
  <2>. QED  BY <1>1, <2>2 DEF Open
<1>13. ~Recheck(t) /\ ~span_sweep(t) /\ ~gcsweepbuf_push(t) /\ ~heap_freeSpan(t)
  BY <1>1 DEF Recheck, span_sweep, gcsweepbuf_push, heap_freeSpan, At, Running
<1>14. /\ ~gcDrain(t) /\ ~gcSweep(t) /\ ~central_uncacheSpan(t) /\ ~cache_releaseAll(t)
       /\ ~startTheWorld(t)
  BY <1>1 DEF gcDrain, gcSweep, central_uncacheSpan, cache_releaseAll, startTheWorld, At, Running
<1>. QED  BY <1>2, <1>3, <1>4, <1>5, <1>6, <1>7, <1>10, <1>11, <1>12, <1>13, <1>14
          DEF Allocate, SweepStep, Collect

(***************************************************************************)
(* The collector marks, and begins to sweep.                               *)
(***************************************************************************)
Collects(t) ==
    /\ Typed /\ WorldOK /\ t \in Thread /\ mtx = t

LEMMA CollectsFacts ==
  ASSUME NEW t, Collects(t)
  PROVE  /\ t \in Thread /\ mtx = t /\ t # NULL /\ th[t] \in FrameType /\ Typed
         /\ worldsema = t /\ stopped = Thread \ {t}
         /\ th[t].pc \in {"mark", "gcSweep"} \/ InSweep(t)
         /\ \A u \in Thread \ {t} :
               th[u].pc \in {"idle", "help", "try", "wait", "sema"}
         /\ sweepgen \in 0 .. GenMod - 1
BY Constants DEF Collects, Typed, WorldOK, AtSafePoint

LEMMA CollectsKeeps ==
  ASSUME NEW t, Collects(t), UNCHANGED <<mtx, stopped, worldsema>>,
         \A u \in Thread : u # t => th'[u] = th[u],
         (th'[t].pc = "gcSweep" /\ gcphase' = "mark") \/ InSweep(t)'
  PROVE  WorldOK'
<1>1. \A u \in Thread \ {t} : AtSafePoint(u)'
  BY Constants DEF Collects, WorldOK, AtSafePoint
<1>2. mtx' = t /\ t # NULL
  BY Constants DEF Collects
<1>3. \A u \in Thread : th'[u].pc \in {"stop", "mark", "gcSweep"} => gcphase' = "mark"
  BY <1>1 DEF AtSafePoint, InSweep
<1>4. worldsema' = t /\ stopped' = Thread \ {t}
  BY <1>2 DEF Collects, WorldOK
<1>. QED  BY <1>1, <1>2, <1>3, <1>4 DEF WorldOK, Collects, InSweep

Marks(sp, O, new) == new = [sp EXCEPT !.gcmarkBits = @ \cup O]

LEMMA Drained ==
  ASSUME NEW sp, NEW O, NEW O1, O1 \subseteq O, NEW new, Marks(sp, O1, new),
         (Blank(sp) /\ O = {}) \/ (Sound(sp) /\ O \subseteq Allocated(sp))
  PROVE  /\ Blank(sp) /\ O = {} => new = sp
         /\ Sound(sp) => Sound(new) /\ O1 \subseteq Allocated(new) /\ O1 \subseteq new.gcmarkBits
         /\ new.state = sp.state /\ new.class = sp.class /\ new.sweepgen = sp.sweepgen
         /\ new.allocCount = sp.allocCount /\ new.nelems = sp.nelems
<1>1. CASE Blank(sp) /\ O = {}
  <2>1. sp \in MSpan
    BY <1>1 DEF Blank
  <2>2. sp.gcmarkBits \cup O1 = sp.gcmarkBits
    BY <1>1
  <2>3. new = sp
    BY <2>1, <2>2 DEF MSpan, Marks
  <2>4. sp.state = "free"
    BY <1>1 DEF Blank, FreeSpan
  <2>. QED  BY <2>3, <2>4 DEF Sound
<1>2. CASE Sound(sp) /\ O \subseteq Allocated(sp)
  <2>1. O1 \subseteq Allocated(sp) /\ sp \in MSpan /\ sp.state = "inUse"
    BY <1>2 DEF Sound
  <2>2. /\ Sound(new) /\ Allocated(new) = Allocated(sp) /\ O1 \subseteq new.gcmarkBits
    BY <1>2, <2>1, MoreMarks DEF Marks
  <2>3. /\ new.state = sp.state /\ new.class = sp.class /\ new.sweepgen = sp.sweepgen
        /\ new.allocCount = sp.allocCount /\ new.nelems = sp.nelems
    BY <2>1 DEF MSpan, Marks
  <2>4. ~Blank(sp)
    BY <2>1 DEF Blank, FreeSpan
  <2>. QED  BY <2>1, <2>2, <2>3, <2>4
<1>. QED  BY <1>1, <1>2

LEMMA DrainKeeps ==
  ASSUME NEW t, Collects(t), Open, gcDrain(t)
  PROVE  Kept
<1>1. /\ t \in Thread /\ mtx = t /\ t # NULL /\ th[t] \in FrameType /\ Typed /\ ThreadOpen(t)
      /\ \A u \in Thread \ {t} : th[u].pc \in {"idle", "help", "try", "wait", "sema"}
  BY CollectsFacts DEF Open, Collects
<1>. DEFINE r == [th[t] EXCEPT !.pc = "gcSweep"]
<1>2. /\ th[t].pc = "mark" /\ Move(t, r) /\ gcphase = "mark"
      /\ objs' = [s \in Span |-> objs'[s]] /\ \A s \in Span : objs'[s] \subseteq objs[s]
      /\ span' = [s \in Span |-> [span[s] EXCEPT !.gcmarkBits = @ \cup objs'[s]]]
      /\ UNCHANGED <<lists, sweepVars, gcVars, cached, locks, exit>>
  BY DEF gcDrain, At, Goto, Collects, WorldOK
<1>3. r \in FrameType /\ r.pc = "gcSweep"
  BY <1>1 DEF FrameType, PCs
<1>. HIDE DEF r
<1>4. /\ th' \in [Thread -> FrameType] /\ th'[t] = r
      /\ \A u \in Thread : u # t => th'[u] = th[u]
  BY <1>1, <1>2, <1>3, Moved
<1>5. /\ New' = New /\ Old' = Old /\ Gen(0)' = Gen(0) /\ Gen(3)' = Gen(3)
      /\ UNCHANGED <<nonempty, empty, cached, locks, gcphase, sweepgen, mtx, stopped, worldsema>>
  BY <1>2 DEF sweepVars, gcVars, lists, New, Old, Gen
<1>6. ASSUME NEW s \in Span
      PROVE  /\ span[s].state = "free" => span'[s] = span[s] /\ objs'[s] = {}
             /\ span[s].state # "free" =>
                  /\ Sound(span'[s]) /\ objs'[s] \subseteq Allocated(span'[s])
                  /\ objs'[s] \subseteq span'[s].gcmarkBits
             /\ span'[s].state = span[s].state /\ span'[s].class = span[s].class
             /\ span'[s].sweepgen = span[s].sweepgen
             /\ span'[s].allocCount = span[s].allocCount /\ span'[s].nelems = span[s].nelems
  <2>1. SpanOpen(s)
    BY DEF Open
  <2>0. PICK sp, O, O1, new : sp = span[s] /\ O = objs[s] /\ O1 = objs'[s]
                                 /\ new = [sp EXCEPT !.gcmarkBits = @ \cup O1]
    OBVIOUS
  <2>2. new = span'[s] /\ O1 \subseteq O
    BY <1>2, <2>0
  <2>3. \/ Blank(sp) /\ O = {} /\ sp.state = "free"
        \/ Sound(sp) /\ O \subseteq Allocated(sp) /\ sp.state # "free"
    BY <2>0, <2>1 DEF SpanOpen
  <2>4. /\ Blank(sp) /\ O = {} => new = sp
        /\ Sound(sp) => Sound(new) /\ O1 \subseteq Allocated(new) /\ O1 \subseteq new.gcmarkBits
        /\ new.state = sp.state /\ new.class = sp.class /\ new.sweepgen = sp.sweepgen
        /\ new.allocCount = sp.allocCount /\ new.nelems = sp.nelems
    <3>1. (Blank(sp) /\ O = {}) \/ (Sound(sp) /\ O \subseteq Allocated(sp))
      BY <2>3
    <3>2. O1 \subseteq O /\ Marks(sp, O1, new)
      BY <2>0, <2>2 DEF Marks
    <3>. QED  BY <3>1, <3>2, Drained
  <2>. QED  BY <2>0, <2>2, <2>3, <2>4
<1>7. Typed'
  <2>1. span' = [s \in Span |-> span'[s]]
    BY <1>2
  <2>. QED  BY <1>1, <1>2, <1>4, <2>1 DEF Typed, sweepVars, gcVars, lists
<1>8. \A s \in Span : (Small(s)' <=> Small(s)) /\ (Full(span'[s]) <=> Full(span[s]))
  BY <1>6 DEF Small, Full
<1>9. ASSUME NEW u \in Thread
      PROVE  ThreadOpen(u)'
  <2>1. th'[u].pc = th[u].pc \/ (th[u].pc = "mark" /\ th'[u].pc = "gcSweep")
    BY <1>2, <1>3, <1>4
  <2>2. ThreadOpen(u) /\ th[u].pc \in {"mark", "idle", "help", "try", "wait", "sema"}
    BY <1>1, <1>2 DEF Open
  <2>. QED  BY <1>5, <1>8, <2>1, <2>2 DEF ThreadOpen, GivingUp
<1>10. ASSUME NEW s \in Span
       PROVE  SpanOpen(s)'
  <2>1. SpanOpen(s)
    BY DEF Open
  <2>2. \A u \in Thread : SameRoles(u, s) /\ ~InHand(u, s) /\ ~Takes(u, s)
    BY <1>1, <1>2, <1>3, <1>4, <1>5 DEF SameRoles, Has, InHand, Inserts, Takes, Uses, GivingUp
  <2>3. Blank(span[s]) => span[s].state = "free"
    BY DEF Blank, FreeSpan
  <2>. QED  BY <1>2, <1>5, <1>6, <1>8, <2>1, <2>2 DEF SpanOpen, SameRoles
<1>11. Open'
  BY <1>5, <1>9, <1>10 DEF Open
<1>12. WorldOK'
  BY <1>2, <1>3, <1>4, <1>5, CollectsKeeps
<1>13. Settled'
  BY <1>1, <1>3, <1>4, <1>5, <1>11 DEF Settled, InSweep
<1>. QED  BY <1>7, <1>12, <1>13 DEF Kept

LEMMA GcSweepKeeps ==
  ASSUME NEW t, Collects(t), Open, gcSweep(t)
  PROVE  Kept
<1>1. /\ t \in Thread /\ mtx = t /\ t # NULL /\ th[t] \in FrameType /\ Typed
      /\ sweepgen \in 0 .. GenMod - 1
      /\ \A u \in Thread \ {t} : th[u].pc \in {"idle", "help", "try", "wait", "sema"}
  BY CollectsFacts
<1>. DEFINE r == [Idle EXCEPT !.pc = "sweepone", !.ret = "cycle"]
<1>2. /\ th[t].pc = "gcSweep" /\ Move(t, r) /\ gcphase' = "off" /\ sweepgen' = Gen(2)
      /\ sweepdone' = FALSE /\ todo' = SetToSeq(Thread)
      /\ UNCHANGED <<span, lists, sweepSpans, worldsema, mtx, stopped, cached, locks, objs, exit>>
  BY DEF gcSweep, At
<1>3. r \in FrameType /\ r.pc = "sweepone"
  BY IdleFrame DEF FrameType, PCs
<1>. HIDE DEF r
<1>4. /\ th' \in [Thread -> FrameType] /\ th'[t] = r
      /\ \A u \in Thread : u # t => th'[u] = th[u]
  BY <1>1, <1>2, <1>3, Moved
<1>5. /\ todo' \in Seq(Thread) /\ IsInjective(todo') /\ ToSet(todo') = Thread
  BY <1>2, Constants, SetToSeqIs
<1>6. /\ sweepgen' \in 0 .. GenMod - 1 /\ Gen(-2)' = Gen(0) /\ Gen(1)' = Gen(3)
      /\ New' = Old /\ Old' = New
  <2>. PICK g, h : g = sweepgen /\ h = sweepgen'
    OBVIOUS
  <2>1. g \in 0 .. GenMod - 1 /\ h = (g + 2) % GenMod
    BY <1>1, <1>2 DEF Gen
  <2>2. /\ h \in 0 .. GenMod - 1 /\ (h + (-2)) % GenMod = g /\ (h + 1) % GenMod = (g + 3) % GenMod
        /\ SweepBuffer(h) = 1 - SweepBuffer(g) /\ SweepBuffer(g) \in {0, 1}
    BY <2>1, Successor
  <2>3. Gen(0) = g
    BY <1>1, BufferTypes
  <2>4. Gen(-2)' = g /\ Gen(1)' = Gen(3)
    BY <2>2 DEF Gen
  <2>5. New' = sweepSpans[SweepBuffer(h)] /\ Old' = sweepSpans[1 - SweepBuffer(h)]
    BY <1>2 DEF New, Old
  <2>6. SweepBuffer(h) = 1 - SweepBuffer(g) /\ 1 - SweepBuffer(h) = SweepBuffer(g)
    BY <2>2
  <2>7. New' = Old /\ Old' = New
    BY <2>5, <2>6 DEF New, Old
  <2>. QED  BY <2>2, <2>3, <2>4, <2>7
<1>7. /\ UNCHANGED <<span, nonempty, empty, sweepSpans, mtx, stopped, cached, locks, objs,
                     worldsema>>
  BY <1>2 DEF lists
<1>8. Typed'
  BY <1>1, <1>2, <1>4, <1>5, <1>6, <1>7 DEF Typed
<1>9. InSweep(t)' /\ ~Past(t)'
  BY <1>3, <1>4 DEF InSweep, Past
<1>10. WorldOK'
  BY <1>4, <1>7, <1>9, CollectsKeeps
<1>11. /\ \A u \in Thread : th[u].pc \in {"gcSweep", "idle", "help", "try", "wait", "sema"}
       /\ \A u \in Thread, s \in Span :
             /\ ~InHand(u, s) /\ ~Inserts(u, s) /\ ~Takes(u, s)
             /\ (Has(u, s) <=> cached[u] = s) /\ (Uses(u, s) <=> cached[u] = s)
  <2>1. \A u \in Thread : th[u].pc \in {"gcSweep", "idle", "help", "try", "wait", "sema"}
    BY <1>1, <1>2
  <2>. QED  BY <2>1 DEF InHand, Inserts, Takes, Has, Uses, GivingUp
<1>12. \A s \in Span : Held(t, s)' <=> \E u \in Thread : cached[u] = s
  BY <1>7, <1>9 DEF Held
<1>13. \A s \in Span : \A pcs \in {{"sweep"}, {"free"}, {"push", "free"}} : ~Carries(t, pcs, s)'
  BY <1>3, <1>4 DEF Carries
<1>14. locks = NULL
  BY <1>1, <1>11 DEF Open, ThreadOpen, Typed
<1>15. ASSUME NEW u \in Thread, cached[u] # NULL
       PROVE  cached[u] \in Span /\ Small(cached[u]) /\ \A v \in Thread : cached[v] = cached[u] => v = u
  <2>1. cached[u] \in Span /\ Small(cached[u])
    BY <1>15 DEF Open, ThreadOpen
  <2>2. SpanOpen(cached[u])
    BY <2>1 DEF Open
  <2>. QED  BY <2>1, <2>2 DEF SpanOpen, Has
<1>16. CollectorSweeps(t)'
  BY <1>2, <1>3, <1>4, <1>5, <1>7, <1>9, <1>14, <1>15 DEF CollectorSweeps
<1>17. ASSUME NEW s \in Span
       PROVE  SpanSwept(t, s)'
  <2>1. SpanOpen(s)
    BY DEF Open
  <2>2. /\ Gen(0)' # Gen(-2)' /\ Gen(0)' # Gen(1)' /\ Gen(-1)' # Gen(-2)' /\ Gen(-1)' # Gen(1)'
        /\ Gen(-2)' # Gen(1)'
    <3>. PICK h : h = sweepgen'
      OBVIOUS
    <3>1. \A j, k \in {(-2), (-1), 0, 1, 3} : (h + j) % GenMod = (h + k) % GenMod => j = k
      BY <1>6, Differences
    <3>2. \A k \in Int : Gen(k)' = (h + k) % GenMod
      BY DEF Gen
    <3>3. \A j, k \in {(-2), (-1), 0, 1, 3} : j # k => Gen(j)' # Gen(k)'
      BY <3>1, <3>2
    <3>. HIDE DEF Gen
    <3>. QED  BY <3>3
  <2>3. Small(s)' <=> Small(s)
    BY <1>7 DEF Small
  <2>4. ToSet(New') = {}
    BY <1>6, ToSetEmpty DEF Open
  <2>. PICK h : h <=> \E u \in Thread : cached[u] = s
    OBVIOUS
  <2>5. /\ span[s].state = "free" => Blank(span[s]) /\ objs[s] = {}
        /\ span[s].state # "free" =>
              /\ Sound(span[s]) /\ objs[s] \subseteq Allocated(span[s])
              /\ span[s].sweepgen \in {Gen(0), Gen(3)}
              /\ span[s].sweepgen = Gen(3) <=> h
              /\ objs[s] \subseteq span[s].gcmarkBits
              /\ span[s].allocCount > 0
        /\ s \in ToSet(nonempty) <=> Small(s) /\ ~Full(span[s]) /\ ~h
        /\ s \in ToSet(empty) <=> Small(s) /\ (Full(span[s]) \/ h)
        /\ s \in ToSet(New) <=> span[s].state # "free"
    <3>1. \E u \in Thread : th[u].pc = "gcSweep"
      BY <1>1, <1>2
    <3>. QED  BY <1>11, <2>1, <3>1 DEF SpanOpen
  <2>6. h => Small(s)
    BY <1>15, Constants
  <2>7. Held(t, s)' <=> h
    BY <1>12
  <2>. HIDE DEF Gen
  <2>. QED  BY <1>6, <1>7, <1>13, <2>2, <2>3, <2>4, <2>5, <2>6, <2>7 DEF SpanSwept
<1>18. /\ IsInjective(New') /\ IsInjective(Old') /\ IsInjective(nonempty') /\ IsInjective(empty')
  BY <1>6, <1>7 DEF Open, IsInjective
<1>19. Sweep(t)'
  BY <1>16, <1>17, <1>18 DEF Sweep
<1>. QED  BY <1>1, <1>7, <1>8, <1>9, <1>10, <1>19 DEF Kept, Settled

(***************************************************************************)
(* The collector sweeps.                                                   *)
(***************************************************************************)
Sweeping(t) ==
    /\ Typed /\ WorldOK /\ CollectorInv /\ Sweep(t) /\ t \in Thread /\ mtx = t /\ InSweep(t)

SameSwept(t, s) ==
    /\ SameSpan(s) /\ (s \in ToSet(Old') <=> s \in ToSet(Old)) /\ (Held(t, s)' <=> Held(t, s))
    /\ \A pcs \in {{"sweep"}, {"free"}, {"push", "free"}} :
          Carries(t, pcs, s)' <=> Carries(t, pcs, s)

LEMMA SweptKeeps ==
  ASSUME NEW t, NEW s \in Span, SpanSwept(t, s), SameSwept(t, s), sweepgen' = sweepgen
  PROVE  SpanSwept(t, s)'
<1>1. Small(s)' <=> Small(s)
  BY DEF SameSwept, SameSpan, Small
<1>2. \A k \in Int : Gen(k)' = Gen(k)
  BY DEF Gen
<1>. QED  BY <1>1, <1>2 DEF SpanSwept, SameSwept, SameSpan

LEMMA SweepingFacts ==
  ASSUME NEW t, Sweeping(t)
  PROVE  /\ t \in Thread /\ mtx = t /\ t # NULL /\ th[t] \in FrameType /\ Typed /\ Collects(t)
         /\ sweepgen \in 0 .. GenMod - 1 /\ CollectorSweeps(t)
         /\ th[t].pc \in {"sweepone", "pop"} => th[t].ret = "cycle"
         /\ th[t].pc \in {"sweep", "push", "free"} => th[t].ret \in {"cycle", "release"}
         /\ \A s \in Span : SpanSwept(t, s)
         /\ \A u \in Thread \ {t} : th[u].pc \in {"idle", "help", "try", "wait", "sema"}
<1>1. Collects(t)
  BY DEF Sweeping, Collects
<1>2. InCycle(th[t]) /\ Called(th[t])
  BY <1>1, CollectsFacts DEF Sweeping, CollectorInv, SemaOK, FramesOK
<1>3. th[t].pc \in {"sweepone", "pop"} => th[t].ret = "cycle"
  BY <1>2 DEF InCycle, Called
<1>4. th[t].pc \in {"sweep", "push", "free"} => th[t].ret \in {"cycle", "release"}
  BY <1>2 DEF InCycle
<1>. QED  BY <1>1, <1>3, <1>4, CollectsFacts DEF Sweeping, Sweep

LEMMA SweepingKeeps ==
  ASSUME NEW t, Sweeping(t), NEW T \in SUBSET Span,
         UNCHANGED <<mtx, stopped, worldsema, sweepgen>>, Typed', InSweep(t)',
         \A u \in Thread : u # t => th'[u] = th[u], CollectorSweeps(t)',
         \A s \in Span \ T : SameSwept(t, s), \A s \in T : SpanSwept(t, s)',
         IsInjective(New'), IsInjective(Old'), IsInjective(nonempty'), IsInjective(empty')
  PROVE  Kept
<1>1. t \in Thread /\ mtx = t /\ t # NULL /\ Collects(t) /\ \A s \in Span : SpanSwept(t, s)
  BY SweepingFacts
<1>2. WorldOK'
  BY <1>1, CollectsKeeps
<1>3. \A s \in Span : SpanSwept(t, s)'
  BY <1>1, SweptKeeps
<1>4. Sweep(t)'
  BY <1>3 DEF Sweep
<1>. QED  BY <1>1, <1>2, <1>4 DEF Kept, Settled

LEMMA SweeponeKeeps ==
  ASSUME NEW t, Sweeping(t), sweepone(t) \/ SweepDone(t)
  PROVE  Kept
<1>1. /\ t \in Thread /\ mtx = t /\ t # NULL /\ th[t] \in FrameType /\ Typed
      /\ sweepgen \in 0 .. GenMod - 1 /\ CollectorSweeps(t)
      /\ th[t].pc \in {"sweepone", "pop"} => th[t].ret = "cycle"
  BY SweepingFacts
<1>. DEFINE r == IF SweepDone(t) \/ sweepdone THEN [th[t] EXCEPT !.pc = "release"]
                 ELSE [th[t] EXCEPT !.pc = "pop", !.sg = sweepgen]
<1>2. /\ r \in FrameType
      /\ r.pc \in {"pop", "release"}
      /\ r.pc = "pop" => r.sg = sweepgen /\ ~sweepdone /\ sweepone(t)
      /\ r.pc = "release" => SweepDone(t) \/ sweepdone
  BY <1>1 DEF FrameType, PCs
<1>3. th[t].pc \in {"sweepone", "pop"} /\ Move(t, r)
  <2>1. CASE sweepone(t)
    BY <1>1, <2>1 DEF sweepone, SweepDone, At, Goto
  <2>2. CASE SweepDone(t)
    BY <1>1, <2>2 DEF SweepDone, At, Goto
  <2>. QED  BY <2>1, <2>2
<1>. HIDE DEF r
<1>4. /\ th' \in [Thread -> FrameType] /\ th'[t] = r
      /\ \A u \in Thread : u # t => th'[u] = th[u]
  BY <1>1, <1>2, <1>3, Moved
<1>5. /\ UNCHANGED <<span, nonempty, empty, sweepSpans, sweepgen, gcVars, cached, locks, objs, exit>>
      /\ sweepdone' \in BOOLEAN
      /\ sweepdone' => sweepdone \/ SweepDone(t)
  <2>1. CASE sweepone(t)
    <3>1. UNCHANGED <<span, nonempty, empty, sweepSpans, sweepgen, sweepdone, gcVars, cached, locks,
                      objs, exit>>
      BY <2>1 DEF sweepone, heapVars, lists, sweepVars
    <3>2. sweepdone \in BOOLEAN
      BY <1>1 DEF Typed
    <3>. QED  BY <3>1, <3>2
  <2>2. CASE SweepDone(t)
    BY <2>2 DEF SweepDone, lists
  <2>. QED  BY <2>1, <2>2
<1>6. /\ New' = New /\ Old' = Old /\ \A k \in Int : Gen(k)' = Gen(k)
      /\ UNCHANGED <<todo, mtx, stopped, worldsema>>
  BY <1>5 DEF New, Old, Gen, gcVars
<1>7. Typed'
  BY <1>1, <1>4, <1>5, <1>6 DEF Typed, gcVars
<1>8. ~Past(t) /\ ~Past(t)' /\ InSweep(t)'
  BY <1>2, <1>3, <1>4 DEF Past, InSweep
<1>9. ASSUME NEW s \in Span
      PROVE  SameSwept(t, s)
  <2>1. SameSpan(s)
    BY <1>5, <1>6 DEF SameSpan
  <2>2. Held(t, s)' <=> Held(t, s)
    BY <1>5, <1>8 DEF Held
  <2>3. \A pcs \in {{"sweep"}, {"free"}, {"push", "free"}} :
           ~Carries(t, pcs, s)' /\ ~Carries(t, pcs, s)
    BY <1>2, <1>3, <1>4 DEF Carries
  <2>. QED  BY <1>6, <2>1, <2>2, <2>3 DEF SameSwept
<1>10. SweepDone(t) \/ sweepdone => Old = <<>>
  <2>1. CASE SweepDone(t)
    <3>1. th[t].sg = sweepgen
      BY <1>1, <2>1 DEF SweepDone, At, CollectorSweeps
    <3>. QED  BY <2>1, <3>1 DEF SweepDone, Old
  <2>2. CASE sweepdone
    BY <1>1, <2>2 DEF CollectorSweeps
  <2>. QED  BY <2>1, <2>2
<1>11. CollectorSweeps(t)'
  BY <1>1, <1>2, <1>4, <1>5, <1>6, <1>8, <1>10 DEF CollectorSweeps
<1>12. /\ IsInjective(New') /\ IsInjective(Old') /\ IsInjective(nonempty') /\ IsInjective(empty')
  BY <1>5, <1>6 DEF Sweeping, Sweep
<1>13. /\ {} \in SUBSET Span /\ (\A s \in {} : SpanSwept(t, s)')
       /\ \A s \in Span \ {} : SameSwept(t, s)
  BY <1>9
<1>14. UNCHANGED <<mtx, stopped, worldsema, sweepgen>>
  BY <1>5, <1>6
<1>. QED  BY <1>4, <1>7, <1>8, <1>11, <1>12, <1>13, <1>14, SweepingKeeps

LEMMA PopKeeps ==
  ASSUME NEW t, Sweeping(t), gcsweepbuf_pop(t)
  PROVE  Kept
<1>1. /\ t \in Thread /\ t # NULL /\ th[t] \in FrameType /\ Typed
      /\ CollectorSweeps(t) /\ \A s \in Span : SpanSwept(t, s)
  BY SweepingFacts
<1>2. th[t].pc = "pop" /\ th[t].ret = "cycle" /\ th[t].sg = sweepgen
  BY <1>1, SweepingFacts DEF gcsweepbuf_pop, At, CollectorSweeps
<1>. DEFINE b == 1 - SweepBuffer(sweepgen)
            mine == span[Last(Old)].state = "inUse" /\ span[Last(Old)].sweepgen = Gen(-2)
<1>3. PICK s : s = Last(Old)
  OBVIOUS
<1>4. /\ Old # <<>> /\ sweepSpans' = [sweepSpans EXCEPT ![b] = Front(@)]
      /\ IF mine THEN SetGen(s, Gen(-1)) /\ Sweeps(t, s, "cycle") ELSE UNCHANGED <<span, th>>
  <2>1. (sweepgen - 2) % GenMod = Gen(-2) /\ (sweepgen - 1) % GenMod = Gen(-1)
    BY <1>1, BufferTypes
  <2>. HIDE DEF Gen
  <2>. QED  BY <1>2, <1>3, <2>1 DEF gcsweepbuf_pop, Old
<1>5. UNCHANGED <<nonempty, empty, sweepgen, sweepdone, todo, mtx, stopped, worldsema, gcphase,
                  cached, locks, objs, exit>>
  BY DEF gcsweepbuf_pop, gcVars, lists
<1>6. /\ s \in Span /\ s \in ToSet(Old) /\ New' = New /\ Old' = Front(Old)
      /\ ToSet(Old') = ToSet(Old) \ {s} /\ IsInjective(Old')
      /\ sweepSpans' \in [{0, 1} -> Seq(Span)]
  <2>1. /\ b \in {0, 1} /\ b # SweepBuffer(sweepgen) /\ SweepBuffer(sweepgen) \in {0, 1}
        /\ Old \in Seq(Span) /\ sweepSpans \in [{0, 1} -> Seq(Span)]
    BY <1>1, BufferTypes DEF Typed
  <2>2. IsInjective(Old)
    BY DEF Sweeping, Sweep
  <2>3. /\ Last(Old) \in ToSet(Old) /\ Last(Old) \in Span /\ Front(Old) \in Seq(Span)
        /\ IsInjective(Front(Old)) /\ ToSet(Front(Old)) = ToSet(Old) \ {Last(Old)}
    BY <1>4, <2>1, <2>2, PopOfList
  <2>4. Old' = Front(Old) /\ New' = New
    BY <1>4, <1>5, <2>1 DEF Old, New
  <2>5. sweepSpans' \in [{0, 1} -> Seq(Span)]
    BY <1>4, <2>1, <2>3 DEF Old
  <2>. QED  BY <1>3, <2>3, <2>4, <2>5
<1>7. /\ \A k \in Int : Gen(k)' = Gen(k)
      /\ ~Past(t) /\ InSweep(t)
  BY <1>2, <1>5 DEF Gen, Past, InSweep
<1>8. SpanSwept(t, s) /\ span[s].state = "inUse" /\ span[s].sweepgen \in {Gen(-2), Gen(1)}
  <2>1. SpanSwept(t, s) /\ span[s].state # "free" /\ span[s].sweepgen \in {Gen(-2), Gen(1)}
    BY <1>1, <1>6 DEF SpanSwept
  <2>. QED  BY <2>1 DEF SpanSwept, Sound
<1>9. ~sweepdone
  BY <1>1, <1>4 DEF CollectorSweeps
<1>10. /\ IsInjective(New') /\ IsInjective(Old') /\ IsInjective(nonempty') /\ IsInjective(empty')
       /\ {s} \in SUBSET Span /\ UNCHANGED <<mtx, stopped, worldsema, sweepgen>>
  BY <1>5, <1>6 DEF Sweeping, Sweep
<1>11. CASE mine
  <2>. DEFINE r == [th[t] EXCEPT !.pc = "sweep", !.s = s, !.ret = "cycle"]
  <2>1. r \in FrameType /\ r.pc = "sweep" /\ r.s = s /\ r.ret = "cycle"
    BY <1>1, <1>6 DEF FrameType, PCs
  <2>2. Move(t, r) /\ SetGen(s, Gen(-1))
    BY <1>4, <1>11 DEF Sweeps
  <2>. HIDE DEF r
  <2>3. /\ th' \in [Thread -> FrameType] /\ th'[t] = r
        /\ \A u \in Thread : u # t => th'[u] = th[u]
    BY <1>1, <2>1, <2>2, Moved
  <2>4. span' = [span EXCEPT ![s].sweepgen = Gen(-1)]
    BY <2>2 DEF SetGen
  <2>5. \A x \in Span \ {s} : span'[x] = span[x]
    BY <1>1, <2>4 DEF Typed
  <2>6. Typed'
    <3>1. span' = [x \in Span |-> span'[x]]
      BY <1>1, <2>4 DEF Typed
    <3>. QED  BY <1>1, <1>5, <1>6, <2>3, <3>1 DEF Typed
  <2>7. InSweep(t)' /\ ~Past(t)'
    BY <2>1, <2>3 DEF InSweep, Past
  <2>8. span[s].sweepgen = Gen(-2) /\ ~Held(t, s)
    <3>1. span[s].sweepgen = Gen(-2) /\ Gen(-2) # Gen(1)
      BY <1>1, <1>3, <1>11, BufferTypes
    <3>. QED  BY <1>8, <3>1 DEF SpanSwept
  <2>9. /\ Sound(span'[s]) /\ Allocated(span'[s]) = Allocated(span[s])
        /\ Full(span'[s]) = Full(span[s]) /\ span'[s].class = span[s].class
        /\ span'[s].sweepgen = Gen(-1) /\ span'[s].gcmarkBits = span[s].gcmarkBits
        /\ span'[s].allocCount = span[s].allocCount /\ span'[s].state = "inUse"
    <3>0. PICK sp, new, g : sp = span[s] /\ new = [sp EXCEPT !.sweepgen = g] /\ g = Gen(-1)
      OBVIOUS
    <3>1. new = span'[s]
      BY <1>1, <1>6, <2>4, <3>0 DEF Typed
    <3>2. Sound(sp) /\ g \in 0 .. GenMod - 1
      BY <1>1, <1>8, <3>0, BufferTypes DEF SpanSwept
    <3>3. /\ Sound(new) /\ Allocated(new) = Allocated(sp) /\ Full(new) = Full(sp)
          /\ new.class = sp.class /\ new.sweepgen = g
          /\ new.gcmarkBits = sp.gcmarkBits /\ new.allocCount = sp.allocCount
      BY <3>0, <3>2, NewGen
    <3>4. new.state = "inUse"
      BY <3>3 DEF Sound
    <3>. QED  BY <3>0, <3>1, <3>3, <3>4
  <2>10. \A x \in Span : Held(t, x)' <=> Held(t, x)
    BY <1>5, <1>7, <2>7 DEF Held
  <2>11. CollectorSweeps(t)'
    <3>1. \A u \in Thread : cached[u] # s
      BY <1>7, <2>8 DEF Held
    <3>. QED  BY <1>1, <1>5, <1>6, <1>7, <1>9, <2>1, <2>3, <2>7, <2>9, <3>1 DEF CollectorSweeps
  <2>12. ASSUME NEW x \in Span \ {s}  PROVE SameSwept(t, x)
    <3>1. SameSpan(x)
      BY <1>5, <1>6, <2>5 DEF SameSpan
    <3>2. \A pcs \in {{"sweep"}, {"free"}, {"push", "free"}} :
             ~Carries(t, pcs, x)' /\ ~Carries(t, pcs, x)
      BY <1>2, <2>1, <2>3 DEF Carries
    <3>. QED  BY <1>6, <2>10, <3>1, <3>2 DEF SameSwept
  <2>13. SpanSwept(t, s)'
    <3>1. /\ Carries(t, {"sweep"}, s)' /\ ~Carries(t, {"free"}, s)' /\ ~Carries(t, {"push", "free"}, s)'
          /\ ~Carries(t, {"free"}, s) /\ ~Carries(t, {"push", "free"}, s)
      BY <1>2, <2>1, <2>3 DEF Carries
    <3>2. Small(s)' <=> Small(s)
      BY <1>8, <2>9 DEF Small
    <3>3. ~Held(t, s)'
      BY <1>6, <2>8, <2>10
    <3>4. /\ Gen(-1) # Gen(-2) /\ Gen(-1) # Gen(0) /\ Gen(-1) # Gen(1) /\ Gen(-2) # Gen(0)
      BY <1>1, BufferTypes
    <3>5. Gen(-2)' = Gen(-2) /\ Gen(-1)' = Gen(-1) /\ Gen(0)' = Gen(0) /\ Gen(1)' = Gen(1)
      BY <1>7
    <3>. HIDE DEF Gen
    <3>. QED  BY <1>5, <1>6, <1>8, <2>8, <2>9, <3>1, <3>2, <3>3, <3>4, <3>5 DEF SpanSwept
  <2>14. (\A x \in Span \ {s} : SameSwept(t, x)) /\ (\A x \in {s} : SpanSwept(t, x)')
    BY <2>12, <2>13
  <2>. QED  BY <1>10, <2>3, <2>6, <2>7, <2>11, <2>14, SweepingKeeps
<1>12. CASE ~mine
  <2>1. UNCHANGED <<span, th>>
    BY <1>4, <1>12
  <2>2. span[s].sweepgen = Gen(1)
    BY <1>3, <1>8, <1>12
  <2>3. Typed'
    BY <1>1, <1>5, <1>6, <2>1 DEF Typed
  <2>4. InSweep(t)' /\ ~Past(t)'
    BY <1>7, <2>1 DEF InSweep, Past
  <2>5. CollectorSweeps(t)'
    BY <1>1, <1>2, <1>5, <1>7, <1>9, <2>1, <2>4 DEF CollectorSweeps
  <2>6. \A x \in Span : /\ Held(t, x)' <=> Held(t, x)
                        /\ \A pcs \in {{"sweep"}, {"free"}, {"push", "free"}} :
                              ~Carries(t, pcs, x)' /\ ~Carries(t, pcs, x)
    BY <1>2, <1>5, <1>7, <2>1, <2>4 DEF Held, Carries
  <2>7. \A x \in Span : SameSpan(x)
    BY <1>5, <1>6, <2>1 DEF SameSpan
  <2>8. \A x \in Span \ {s} : SameSwept(t, x)
    BY <1>6, <2>6, <2>7 DEF SameSwept
  <2>9. SpanSwept(t, s)'
    <3>1. Small(s)' <=> Small(s)
      BY <2>1 DEF Small
    <3>2. Gen(-2)' = Gen(-2) /\ Gen(-1)' = Gen(-1) /\ Gen(0)' = Gen(0) /\ Gen(1)' = Gen(1)
      BY <1>7
    <3>3. Gen(1) # Gen(-2)
      BY <1>1, BufferTypes
    <3>. HIDE DEF Gen
    <3>. QED  BY <1>5, <1>6, <1>8, <2>1, <2>2, <2>6, <3>1, <3>2, <3>3 DEF SpanSwept
  <2>10. \A x \in {s} : SpanSwept(t, x)'
    BY <2>9
  <2>11. \A u \in Thread : u # t => th'[u] = th[u]
    BY <2>1
  <2>. QED  BY <1>10, <2>3, <2>4, <2>5, <2>8, <2>10, <2>11, SweepingKeeps
<1>. QED  BY <1>11, <1>12

(* What follows push and free in a cycle.                                  *)
LEMMA AfterSweepIs ==
  ASSUME NEW t, Sweeping(t), th[t].pc \in {"push", "free"}, Swept(t)
  PROVE  \E r \in FrameType :
           /\ Move(t, r) /\ r.ret = th[t].ret
           /\ th[t].ret \in {"cycle", "release"}
           /\ th[t].ret = "cycle" => r.pc = "sweepone"
           /\ th[t].ret = "release" => r.pc = "flush"
<1>1. th[t] \in FrameType /\ th[t].ret \in {"cycle", "release"}
  BY SweepingFacts
<1>2. 0 \in 0 .. GenMod - 1
  BY Constants
<1>. DEFINE r == [th[t] EXCEPT !.pc = AfterSweep(th[t].ret), !.swept = 0]
<1>3. AfterSweep(th[t].ret) = IF th[t].ret = "cycle" THEN "sweepone" ELSE "flush"
  BY <1>1 DEF AfterSweep
<1>4. r \in FrameType /\ r.ret = th[t].ret /\ r.pc = AfterSweep(th[t].ret)
  BY <1>1, <1>2, <1>3 DEF FrameType, PCs
<1>5. Move(t, r)
  BY DEF Swept
<1>. QED  BY <1>1, <1>3, <1>4, <1>5

LEMMA PushKeeps ==
  ASSUME NEW t, Sweeping(t), gcsweepbuf_push(t)
  PROVE  Kept
<1>1. /\ t \in Thread /\ t # NULL /\ th[t] \in FrameType /\ Typed
      /\ CollectorSweeps(t) /\ \A s \in Span : SpanSwept(t, s)
  BY SweepingFacts
<1>2. th[t].pc = "push" /\ th[t].swept = sweepgen
  BY <1>1 DEF gcsweepbuf_push, At, CollectorSweeps
<1>3. PICK s : s = th[t].s
  OBVIOUS
<1>4. /\ sweepSpans' = [sweepSpans EXCEPT ![SweepBuffer(sweepgen)] = Append(@, s)]
      /\ UNCHANGED <<span, nonempty, empty, sweepgen, sweepdone, todo, mtx, stopped, worldsema,
                     gcphase, cached, locks, objs, exit>>
  BY <1>2, <1>3 DEF gcsweepbuf_push, gcVars, lists
<1>5. PICK r \in FrameType :
           /\ Move(t, r) /\ r.ret = th[t].ret
           /\ th[t].ret \in {"cycle", "release"}
           /\ th[t].ret = "cycle" => r.pc = "sweepone"
           /\ th[t].ret = "release" => r.pc = "flush"
  BY <1>2, AfterSweepIs DEF gcsweepbuf_push
<1>6. /\ th' \in [Thread -> FrameType] /\ th'[t] = r
      /\ \A u \in Thread : u # t => th'[u] = th[u]
  BY <1>1, <1>5, Moved
<1>7. /\ s \in Span /\ span[s].state = "inUse" /\ span[s].sweepgen = Gen(0) /\ SpanSwept(t, s)
      /\ Carries(t, {"push", "free"}, s) /\ ~Carries(t, {"free"}, s) /\ ~Carries(t, {"sweep"}, s)
  BY <1>1, <1>2, <1>3 DEF CollectorSweeps, Carries
<1>8. /\ New' = Append(New, s) /\ ToSet(New') = ToSet(New) \cup {s} /\ IsInjective(New')
      /\ Old' = Old /\ sweepSpans' \in [{0, 1} -> Seq(Span)]
  <2>1. /\ SweepBuffer(sweepgen) \in {0, 1} /\ 1 - SweepBuffer(sweepgen) \in {0, 1}
        /\ 1 - SweepBuffer(sweepgen) # SweepBuffer(sweepgen)
        /\ New \in Seq(Span) /\ sweepSpans \in [{0, 1} -> Seq(Span)]
    BY <1>1, BufferTypes DEF Typed
  <2>2. IsInjective(New)
    BY DEF Sweeping, Sweep
  <2>3. s \notin ToSet(New)
    BY <1>7 DEF SpanSwept
  <2>4. /\ Append(New, s) \in Seq(Span) /\ IsInjective(Append(New, s))
        /\ ToSet(Append(New, s)) = ToSet(New) \cup {s}
    BY <1>7, <2>1, <2>2, <2>3, AppendToList
  <2>5. New' = Append(New, s) /\ Old' = Old
    BY <1>4, <2>1 DEF Old, New
  <2>6. sweepSpans' \in [{0, 1} -> Seq(Span)]
    BY <1>4, <2>1, <2>4 DEF New
  <2>. QED  BY <2>4, <2>5, <2>6
<1>9. Typed'
  BY <1>1, <1>4, <1>6, <1>8 DEF Typed
<1>10. /\ (Past(t)' <=> Past(t)) /\ InSweep(t)' /\ (th[t].ret = "release" <=> Past(t))
       /\ \A k \in Int : Gen(k)' = Gen(k)
  BY <1>2, <1>4, <1>5, <1>6 DEF Past, InSweep, Gen
<1>11. \A x \in Span : /\ Held(t, x)' <=> Held(t, x)
                       /\ \A pcs \in {{"sweep"}, {"free"}, {"push", "free"}} : ~Carries(t, pcs, x)'
  BY <1>2, <1>4, <1>5, <1>6, <1>10 DEF Held, Carries
<1>12. CollectorSweeps(t)'
  BY <1>1, <1>2, <1>4, <1>5, <1>6, <1>8, <1>10 DEF CollectorSweeps
<1>13. ASSUME NEW x \in Span \ {s}  PROVE SameSwept(t, x)
  <2>1. SameSpan(x)
    BY <1>4, <1>8 DEF SameSpan
  <2>2. \A pcs \in {{"sweep"}, {"free"}, {"push", "free"}} : ~Carries(t, pcs, x)
    BY <1>3 DEF Carries
  <2>. QED  BY <1>8, <1>11, <2>1, <2>2 DEF SameSwept
<1>14. SpanSwept(t, s)'
  <2>1. Small(s)' <=> Small(s)
    BY <1>4 DEF Small
  <2>2. Gen(-2)' = Gen(-2) /\ Gen(-1)' = Gen(-1) /\ Gen(0)' = Gen(0) /\ Gen(1)' = Gen(1)
    BY <1>10
  <2>. HIDE DEF Gen
  <2>. QED  BY <1>4, <1>7, <1>8, <1>11, <2>1, <2>2 DEF SpanSwept
<1>15. /\ IsInjective(New') /\ IsInjective(Old') /\ IsInjective(nonempty') /\ IsInjective(empty')
       /\ {s} \in SUBSET Span /\ UNCHANGED <<mtx, stopped, worldsema, sweepgen>>
  BY <1>4, <1>7, <1>8 DEF Sweeping, Sweep
<1>16. (\A x \in Span \ {s} : SameSwept(t, x)) /\ (\A x \in {s} : SpanSwept(t, x)')
  BY <1>13, <1>14
<1>. QED  BY <1>6, <1>9, <1>10, <1>12, <1>15, <1>16, SweepingKeeps

LEMMA FreeSpanKeeps ==
  ASSUME NEW t, Sweeping(t), heap_freeSpan(t)
  PROVE  Kept
<1>1. /\ t \in Thread /\ t # NULL /\ th[t] \in FrameType /\ Typed
      /\ CollectorSweeps(t) /\ \A s \in Span : SpanSwept(t, s)
  BY SweepingFacts
<1>2. th[t].pc = "free"
  BY DEF heap_freeSpan, At
<1>3. PICK s : s = th[t].s
  OBVIOUS
<1>4. /\ span' = [span EXCEPT ![s] = [FreeSpan EXCEPT !.sweepgen = span[s].sweepgen]]
      /\ UNCHANGED <<nonempty, empty, sweepSpans, sweepgen, sweepdone, todo, mtx, stopped,
                     worldsema, gcphase, cached, locks, objs, exit>>
  BY <1>3 DEF heap_freeSpan, gcVars, lists, sweepVars
<1>5. PICK r \in FrameType :
           /\ Move(t, r) /\ r.ret = th[t].ret
           /\ th[t].ret \in {"cycle", "release"}
           /\ th[t].ret = "cycle" => r.pc = "sweepone"
           /\ th[t].ret = "release" => r.pc = "flush"
  BY <1>2, AfterSweepIs DEF heap_freeSpan
<1>6. /\ th' \in [Thread -> FrameType] /\ th'[t] = r
      /\ \A u \in Thread : u # t => th'[u] = th[u]
  BY <1>1, <1>5, Moved
<1>7. /\ s \in Span /\ span[s].state = "inUse" /\ span[s].sweepgen = Gen(0) /\ SpanSwept(t, s)
      /\ span[s].allocCount = 0
      /\ Carries(t, {"push", "free"}, s) /\ Carries(t, {"free"}, s) /\ ~Carries(t, {"sweep"}, s)
  BY <1>1, <1>2, <1>3 DEF CollectorSweeps, Carries
<1>8. New' = New /\ Old' = Old /\ \A k \in Int : Gen(k)' = Gen(k)
  BY <1>4 DEF New, Old, Gen
<1>9. Gen(0) # Gen(-2) /\ Gen(0) # Gen(1)
  BY <1>1, BufferTypes
<1>10. /\ (Past(t)' <=> Past(t)) /\ InSweep(t)' /\ (th[t].ret = "release" <=> Past(t))
  BY <1>2, <1>5, <1>6 DEF Past, InSweep
<1>11. \A x \in Span : /\ Held(t, x)' <=> Held(t, x)
                       /\ \A pcs \in {{"sweep"}, {"free"}, {"push", "free"}} : ~Carries(t, pcs, x)'
  BY <1>2, <1>4, <1>5, <1>6, <1>10 DEF Held, Carries
<1>12. \A x \in Span \ {s} : span'[x] = span[x]
  BY <1>1, <1>4 DEF Typed
<1>13. Blank(span'[s]) /\ span'[s].state = "free" /\ objs'[s] = {}
  <2>0. PICK sp, new, g : sp = span[s] /\ new = [FreeSpan EXCEPT !.sweepgen = g] /\ g = sp.sweepgen
    OBVIOUS
  <2>1. new = span'[s]
    BY <1>1, <1>4, <1>7, <2>0 DEF Typed
  <2>2. Sound(sp) /\ objs[s] \subseteq Allocated(sp) /\ g \in 0 .. GenMod - 1
    BY <1>1, <1>7, <2>0, BufferTypes DEF SpanSwept
  <2>3. Allocated(sp) = {}
    <3>1. Cardinality(Allocated(sp)) = 0 /\ IsFiniteSet(Allocated(sp))
      BY <1>7, <2>0, <2>2, SpanTypes DEF Sound
    <3>. QED  BY <3>1, FS_EmptySet
  <2>4. Blank(new) /\ new.state = "free"
    <3>1. 0 \in 0 .. NELEMS /\ {} \in SUBSET Slot
      BY Constants
    <3>2. new = [state |-> "free", class |-> "small", sweepgen |-> g, nelems |-> 0,
                 freeindex |-> 0, allocCount |-> 0, allocBits |-> {}, gcmarkBits |-> {}]
      BY <2>0 DEF FreeSpan
    <3>3. new \in MSpan /\ new.sweepgen = g /\ new.state = "free"
      BY <2>2, <3>1, <3>2 DEF MSpan
    <3>. QED  BY <2>0, <3>3 DEF Blank
  <2>. QED  BY <1>4, <2>1, <2>2, <2>3, <2>4
<1>14. Typed'
  <2>1. span' = [x \in Span |-> span'[x]]
    BY <1>1, <1>4 DEF Typed
  <2>. QED  BY <1>1, <1>4, <1>6, <2>1 DEF Typed
<1>15. CollectorSweeps(t)'
  BY <1>1, <1>2, <1>4, <1>5, <1>6, <1>8, <1>10 DEF CollectorSweeps
<1>16. ASSUME NEW x \in Span \ {s}  PROVE SameSwept(t, x)
  <2>1. SameSpan(x)
    BY <1>4, <1>8, <1>12 DEF SameSpan
  <2>2. \A pcs \in {{"sweep"}, {"free"}, {"push", "free"}} : ~Carries(t, pcs, x)
    BY <1>3 DEF Carries
  <2>. QED  BY <1>8, <1>11, <2>1, <2>2 DEF SameSwept
<1>17. SpanSwept(t, s)'
  <2>1. ~Small(s)'
    BY <1>13 DEF Small
  <2>2. /\ ~Held(t, s) /\ s \notin ToSet(nonempty) /\ s \notin ToSet(empty)
        /\ s \notin ToSet(New) /\ s \notin ToSet(Old)
    BY <1>7, <1>9 DEF SpanSwept
  <2>. QED  BY <1>4, <1>7, <1>8, <1>11, <1>13, <2>1, <2>2 DEF SpanSwept
<1>18. /\ IsInjective(New') /\ IsInjective(Old') /\ IsInjective(nonempty') /\ IsInjective(empty')
       /\ {s} \in SUBSET Span /\ UNCHANGED <<mtx, stopped, worldsema, sweepgen>>
  BY <1>4, <1>7, <1>8 DEF Sweeping, Sweep
<1>19. (\A x \in Span \ {s} : SameSwept(t, x)) /\ (\A x \in {s} : SpanSwept(t, x)')
  BY <1>16, <1>17
<1>. QED  BY <1>6, <1>10, <1>14, <1>15, <1>18, <1>19, SweepingKeeps

LEMMA SpanSweepKeeps ==
  ASSUME NEW t, Sweeping(t), span_sweep(t)
  PROVE  Kept
<1>1. /\ t \in Thread /\ t # NULL /\ th[t] \in FrameType /\ Typed
      /\ CollectorSweeps(t) /\ \A s \in Span : SpanSwept(t, s)
      /\ sweepgen \in 0 .. GenMod - 1
  BY SweepingFacts
<1>2. th[t].pc = "sweep" /\ th[t].ret \in {"cycle", "release"}
  <2>1. th[t].pc = "sweep"
    BY DEF span_sweep, At
  <2>. QED  BY <2>1, SweepingFacts
<1>3. PICK s, sp, n : s = th[t].s /\ sp = span[s] /\ n = span_countAlloc(sp)
  OBVIOUS
<1>4. PICK freed \in BOOLEAN : freed <=> sp.class = "small" /\ n < sp.allocCount
  OBVIOUS
<1>5. PICK toHeap \in BOOLEAN : toHeap <=> n = 0 /\ (freed \/ sp.class = "large")
  OBVIOUS
<1>. DEFINE r == [th[t] EXCEPT !.pc = IF toHeap THEN "free" ELSE "push", !.swept = sweepgen]
<1>6. /\ span' = [span EXCEPT ![s] = SweptSpan(sp)] /\ Move(t, r)
      /\ UNCHANGED <<sweepSpans, sweepgen, sweepdone, todo, mtx, stopped, worldsema,
                     gcphase, cached, locks, objs, exit>>
  BY <1>2, <1>3, <1>4, <1>5 DEF span_sweep, gcVars, sweepVars
<1>7. /\ empty' = IF freed /\ WasEmpty(sp) THEN RemoveFirst(empty, s) ELSE empty
      /\ nonempty' = IF toHeap /\ freed THEN RemoveFirst(nonempty, s)
                     ELSE IF ~toHeap /\ freed /\ WasEmpty(sp) THEN <<s>> \o nonempty
                     ELSE nonempty
  BY <1>2, <1>3, <1>4, <1>5 DEF span_sweep
<1>8. r \in FrameType /\ r.pc = (IF toHeap THEN "free" ELSE "push") /\ r.swept = sweepgen
      /\ r.s = s /\ r.ret = th[t].ret
  BY <1>1, <1>3 DEF FrameType, PCs
<1>. HIDE DEF r
<1>9. /\ th' \in [Thread -> FrameType] /\ th'[t] = r
      /\ \A u \in Thread : u # t => th'[u] = th[u]
  BY <1>1, <1>6, <1>8, Moved
<1>10. /\ s \in Span /\ sp.state = "inUse" /\ SpanSwept(t, s)
       /\ Carries(t, {"sweep"}, s) /\ ~Carries(t, {"push", "free"}, s) /\ ~Carries(t, {"free"}, s)
  BY <1>1, <1>2, <1>3 DEF CollectorSweeps, Carries
<1>11. /\ Gen(0) # Gen(-2) /\ Gen(0) # Gen(1) /\ Gen(0) # Gen(-1)
       /\ Gen(-1) # Gen(1) /\ Gen(-1) # Gen(-2)
  BY <1>1, BufferTypes
<1>12. /\ Sound(sp) /\ sp.sweepgen = Gen(-1) /\ ~Held(t, s) /\ objs[s] \subseteq sp.gcmarkBits
       /\ sp.allocCount > 0 /\ s \notin ToSet(New) /\ s \notin ToSet(Old)
       /\ s \in ToSet(nonempty) <=> sp.class = "small" /\ ~Full(sp)
       /\ s \in ToSet(empty) <=> sp.class = "small" /\ Full(sp)
       /\ sp.class \in {"small", "large"} /\ (WasEmpty(sp) <=> Full(sp))
  <2>1. Sound(sp) /\ (WasEmpty(sp) <=> Full(sp)) /\ sp.class \in {"small", "large"}
    <3>1. Sound(sp)
      BY <1>3, <1>10 DEF SpanSwept
    <3>. QED  BY <3>1, WasEmptyFull DEF Sound, MSpan
  <2>2. sp.sweepgen = Gen(-1)
    BY <1>3, <1>10 DEF SpanSwept
  <2>. HIDE DEF Gen
  <2>. QED  BY <1>3, <1>10, <1>11, <2>1, <2>2 DEF SpanSwept, Small
<1>13. PICK new : new = SweptSpan(sp)
  OBVIOUS
<1>14. /\ Sound(new) /\ Allocated(new) = sp.gcmarkBits /\ new.class = sp.class
       /\ new.gcmarkBits = {} /\ new.sweepgen = Gen(0)
       /\ new.allocCount = n /\ new.nelems = sp.nelems
       /\ n \in Nat /\ n <= sp.allocCount
  BY <1>1, <1>3, <1>12, <1>13, SweptIs
<1>15. /\ span'[s] = new /\ new.state = "inUse"
       /\ \A x \in Span \ {s} : span'[x] = span[x]
       /\ span' = [x \in Span |-> span'[x]]
  BY <1>1, <1>6, <1>10, <1>13, <1>14 DEF Typed, Sound
<1>16. /\ sp.allocCount \in Nat /\ sp.nelems \in Nat /\ sp.allocCount <= sp.nelems
  BY <1>12, SpanTypes
<1>17. /\ toHeap <=> n = 0
       /\ freed => ~Full(new)
       /\ sp.class = "small" /\ ~freed => (Full(new) <=> Full(sp)) /\ ~toHeap
  BY <1>4, <1>5, <1>12, <1>14, <1>16 DEF Full
<1>18. /\ nonempty \in Seq(Span) /\ empty \in Seq(Span)
       /\ IsInjective(nonempty) /\ IsInjective(empty)
  BY <1>1 DEF Typed, Sweeping, Sweep
<1>19. /\ empty' \in Seq(Span) /\ IsInjective(empty')
       /\ ToSet(empty') = IF freed /\ Full(sp) THEN ToSet(empty) \ {s} ELSE ToSet(empty)
  BY <1>7, <1>12, <1>18, RemoveFromList
<1>20. /\ nonempty' \in Seq(Span) /\ IsInjective(nonempty')
       /\ ToSet(nonempty') = IF toHeap /\ freed THEN ToSet(nonempty) \ {s}
                             ELSE IF ~toHeap /\ freed /\ Full(sp) THEN ToSet(nonempty) \cup {s}
                             ELSE ToSet(nonempty)
  <2>1. CASE toHeap /\ freed
    BY <1>7, <1>18, <2>1, RemoveFromList
  <2>2. CASE ~toHeap /\ freed /\ Full(sp)
    <3>1. s \notin ToSet(nonempty)
      BY <1>12, <2>2
    <3>. QED  BY <1>7, <1>10, <1>12, <1>18, <2>2, <3>1, PushOnList
  <2>3. CASE ~(toHeap /\ freed) /\ ~(~toHeap /\ freed /\ Full(sp))
    BY <1>7, <1>12, <1>18, <2>3
  <2>. QED  BY <2>1, <2>2, <2>3
<1>21. New' = New /\ Old' = Old /\ \A k \in Int : Gen(k)' = Gen(k)
  BY <1>6 DEF New, Old, Gen
<1>22. Typed'
  BY <1>1, <1>6, <1>9, <1>15, <1>19, <1>20 DEF Typed
<1>23. (Past(t)' <=> Past(t)) /\ InSweep(t)' /\ (th[t].ret = "release" <=> Past(t))
  BY <1>2, <1>8, <1>9 DEF Past, InSweep
<1>24. \A x \in Span : Held(t, x)' <=> Held(t, x)
  BY <1>6, <1>23 DEF Held
<1>25. CollectorSweeps(t)'
  BY <1>1, <1>2, <1>3, <1>5, <1>6, <1>8, <1>9, <1>14, <1>15, <1>17, <1>21, <1>23
  DEF CollectorSweeps
<1>26. ASSUME NEW x \in Span \ {s}  PROVE SameSwept(t, x)
  <2>1. SameSpan(x)
    BY <1>6, <1>15, <1>19, <1>20, <1>21 DEF SameSpan
  <2>2. \A pcs \in {{"sweep"}, {"free"}, {"push", "free"}} :
           ~Carries(t, pcs, x) /\ ~Carries(t, pcs, x)'
    BY <1>3, <1>8, <1>9 DEF Carries
  <2>. QED  BY <1>21, <1>24, <2>1, <2>2 DEF SameSwept
<1>27. SpanSwept(t, s)'
  <2>1. /\ Carries(t, {"push", "free"}, s)' /\ ~Carries(t, {"sweep"}, s)'
        /\ Carries(t, {"free"}, s)' <=> toHeap
    BY <1>8, <1>9 DEF Carries
  <2>2. Small(s)' <=> sp.class = "small"
    BY <1>14, <1>15 DEF Small
  <2>3. Gen(-2)' = Gen(-2) /\ Gen(-1)' = Gen(-1) /\ Gen(0)' = Gen(0) /\ Gen(1)' = Gen(1)
    BY <1>21
  <2>4. ~Held(t, s)' /\ s \notin ToSet(New') /\ s \notin ToSet(Old')
    BY <1>10, <1>12, <1>21, <1>24
  <2>5. s \in ToSet(nonempty') <=> sp.class = "small" /\ ~Full(new) /\ ~toHeap
    BY <1>4, <1>5, <1>12, <1>17, <1>20
  <2>6. s \in ToSet(empty') <=> sp.class = "small" /\ Full(new) /\ ~toHeap
    BY <1>4, <1>5, <1>12, <1>17, <1>19
  <2>7. new.allocCount > 0 \/ toHeap
    BY <1>14, <1>17
  <2>. HIDE DEF Gen
  <2>. QED  BY <1>6, <1>11, <1>12, <1>14, <1>15, <2>1, <2>2, <2>3, <2>4, <2>5, <2>6, <2>7 DEF SpanSwept
<1>28. /\ IsInjective(New') /\ IsInjective(Old') /\ {s} \in SUBSET Span
       /\ UNCHANGED <<mtx, stopped, worldsema, sweepgen>>
  BY <1>6, <1>10, <1>21 DEF Sweeping, Sweep
<1>29. (\A x \in Span \ {s} : SameSwept(t, x)) /\ (\A x \in {s} : SpanSwept(t, x)')
  BY <1>26, <1>27
<1>. QED  BY <1>9, <1>19, <1>20, <1>22, <1>23, <1>25, <1>28, <1>29, SweepingKeeps

LEMMA ReleaseKeeps ==
  ASSUME NEW t, Sweeping(t), central_uncacheSpan(t)
  PROVE  Kept
<1>1. /\ t \in Thread /\ t # NULL /\ th[t] \in FrameType /\ Typed
      /\ CollectorSweeps(t) /\ \A s \in Span : SpanSwept(t, s)
      /\ sweepgen \in 0 .. GenMod - 1
  BY SweepingFacts
<1>2. PICK s, sp : s = cached[Head(todo)] /\ sp = span[s]
  OBVIOUS
<1>3. PICK hasFree \in BOOLEAN : hasFree <=> HasFree(sp)
  OBVIOUS
<1>4. /\ th[t].pc = "release" /\ todo # <<>> /\ s # NULL
      /\ ~Past(t) /\ \A pcs \in {{"sweep"}, {"free"}, {"push", "free"}} : \A x : ~Carries(t, pcs, x)
  BY <1>2 DEF central_uncacheSpan, At, Past, Carries
<1>5. /\ Head(todo) \in Thread /\ s \in Span /\ Held(t, s)
      /\ \A u \in Thread : cached[u] = s => u = Head(todo)
  <2>1. Head(todo) \in Thread
    BY <1>1, <1>4, HeadOfList DEF Typed
  <2>2. s \in Span
    BY <1>1, <1>2, <1>4, <2>1 DEF Typed
  <2>3. Held(t, s)
    BY <1>2, <1>4, <2>1 DEF Held
  <2>4. \A u \in Thread : cached[u] = s => u = Head(todo)
    BY <1>1, <1>2, <1>4, <2>1 DEF CollectorSweeps
  <2>. QED  BY <2>1, <2>2, <2>3, <2>4
<1>6. /\ Gen(0) # Gen(-2) /\ Gen(0) # Gen(1) /\ Gen(0) # Gen(-1)
      /\ Gen(-1) # Gen(1) /\ Gen(-1) # Gen(-2) /\ Gen(1) # Gen(-2) /\ Gen(-1) \in 0 .. GenMod - 1
  BY <1>1, BufferTypes
<1>7. /\ Sound(sp) /\ sp.state = "inUse" /\ sp.class = "small" /\ sp.sweepgen = Gen(1)
      /\ objs[s] \subseteq sp.gcmarkBits /\ objs[s] \subseteq Allocated(sp)
      /\ sp.allocCount > 0 /\ s \notin ToSet(New)
      /\ s \notin ToSet(nonempty) /\ s \in ToSet(empty)
      /\ (hasFree <=> ~Full(sp)) /\ Small(s)
  <2>1. SpanSwept(t, s) /\ Small(s)
    BY <1>1, <1>5 DEF SpanSwept
  <2>2. Sound(sp) /\ sp.state = "inUse" /\ sp.class = "small" /\ sp.sweepgen = Gen(1)
    BY <1>2, <1>5, <2>1 DEF SpanSwept, Small
  <2>3. hasFree <=> ~Full(sp)
    BY <1>3, <2>2, WasEmptyFull
  <2>. HIDE DEF Gen
  <2>. QED  BY <1>2, <1>4, <1>5, <1>6, <2>1, <2>2, <2>3 DEF SpanSwept
<1>8. Old = <<>>
  BY <1>1, <1>4 DEF CollectorSweeps
<1>. DEFINE r == [th[t] EXCEPT !.pc = "sweep", !.s = s, !.ret = "release"]
<1>9. /\ span' = [span EXCEPT ![s].sweepgen = Gen(-1)] /\ Move(t, r)
      /\ UNCHANGED <<sweepSpans, sweepgen, sweepdone, todo, mtx, stopped, worldsema,
                     gcphase, cached, locks, objs, exit>>
  BY <1>2, <1>7 DEF central_uncacheSpan, Stale, SetGen, Sweeps, gcVars, sweepVars
<1>10. /\ empty' = IF hasFree THEN RemoveFirst(empty, s) ELSE empty
       /\ nonempty' = IF hasFree THEN <<s>> \o nonempty ELSE nonempty
  BY <1>2, <1>3 DEF central_uncacheSpan
<1>11. r \in FrameType /\ r.pc = "sweep" /\ r.s = s /\ r.ret = "release"
  BY <1>1, <1>5 DEF FrameType, PCs
<1>. HIDE DEF r
<1>12. /\ th' \in [Thread -> FrameType] /\ th'[t] = r
       /\ \A u \in Thread : u # t => th'[u] = th[u]
  BY <1>1, <1>9, <1>11, Moved
<1>13. /\ Sound(span'[s]) /\ Allocated(span'[s]) = Allocated(sp)
       /\ Full(span'[s]) = Full(sp) /\ span'[s].class = "small"
       /\ span'[s].sweepgen = Gen(-1) /\ span'[s].gcmarkBits = sp.gcmarkBits
       /\ span'[s].allocCount = sp.allocCount /\ span'[s].state = "inUse"
  <2>0. PICK new, g : new = [sp EXCEPT !.sweepgen = g] /\ g = Gen(-1)
    OBVIOUS
  <2>1. new = span'[s]
    BY <1>1, <1>2, <1>5, <1>9, <2>0 DEF Typed
  <2>2. g \in 0 .. GenMod - 1
    BY <1>6, <2>0
  <2>3. /\ Sound(new) /\ Allocated(new) = Allocated(sp) /\ Full(new) = Full(sp)
        /\ new.class = sp.class /\ new.sweepgen = g
        /\ new.gcmarkBits = sp.gcmarkBits /\ new.allocCount = sp.allocCount
    BY <1>7, <2>0, <2>2, NewGen
  <2>4. new.state = "inUse"
    BY <2>3 DEF Sound
  <2>. QED  BY <1>7, <2>0, <2>1, <2>3, <2>4
<1>14. /\ \A x \in Span \ {s} : span'[x] = span[x]
       /\ span' = [x \in Span |-> span'[x]]
  BY <1>1, <1>9 DEF Typed
<1>15. /\ nonempty \in Seq(Span) /\ empty \in Seq(Span)
       /\ IsInjective(nonempty) /\ IsInjective(empty)
  BY <1>1 DEF Typed, Sweeping, Sweep
<1>16. /\ empty' \in Seq(Span) /\ IsInjective(empty')
       /\ ToSet(empty') = IF hasFree THEN ToSet(empty) \ {s} ELSE ToSet(empty)
  BY <1>10, <1>15, RemoveFromList
<1>17. /\ nonempty' \in Seq(Span) /\ IsInjective(nonempty')
       /\ ToSet(nonempty') = IF hasFree THEN ToSet(nonempty) \cup {s} ELSE ToSet(nonempty)
  <2>1. CASE hasFree
    <3>1. /\ <<s>> \o nonempty \in Seq(Span) /\ IsInjective(<<s>> \o nonempty)
          /\ ToSet(<<s>> \o nonempty) = ToSet(nonempty) \cup {s}
      BY <1>5, <1>7, <1>15, PushOnList
    <3>2. nonempty' = <<s>> \o nonempty
      BY <1>10, <2>1
    <3>. QED  BY <2>1, <3>1, <3>2
  <2>2. CASE ~hasFree
    BY <1>10, <1>15, <2>2
  <2>. QED  BY <2>1, <2>2
<1>18. New' = New /\ Old' = Old /\ \A k \in Int : Gen(k)' = Gen(k)
  BY <1>9 DEF New, Old, Gen
<1>19. Typed'
  BY <1>1, <1>9, <1>12, <1>14, <1>16, <1>17 DEF Typed
<1>20. Past(t)' /\ InSweep(t)'
  BY <1>11, <1>12 DEF Past, InSweep
<1>21. /\ \A x \in Span \ {s} : Held(t, x)' <=> Held(t, x)
       /\ ~Held(t, s)'
  BY <1>2, <1>4, <1>5, <1>9, <1>20 DEF Held
<1>22. CollectorSweeps(t)'
  BY <1>1, <1>2, <1>4, <1>5, <1>8, <1>9, <1>11, <1>12, <1>13, <1>18 DEF CollectorSweeps
<1>23. ASSUME NEW x \in Span \ {s}  PROVE SameSwept(t, x)
  <2>1. SameSpan(x)
    BY <1>9, <1>14, <1>16, <1>17, <1>18 DEF SameSpan
  <2>2. \A pcs \in {{"sweep"}, {"free"}, {"push", "free"}} : ~Carries(t, pcs, x)'
    BY <1>11, <1>12 DEF Carries
  <2>. QED  BY <1>4, <1>18, <1>21, <2>1, <2>2 DEF SameSwept
<1>24. SpanSwept(t, s)'
  <2>1. /\ Carries(t, {"sweep"}, s)' /\ ~Carries(t, {"free"}, s)' /\ ~Carries(t, {"push", "free"}, s)'
    BY <1>11, <1>12 DEF Carries
  <2>2. Small(s)'
    BY <1>13 DEF Small
  <2>3. Gen(-2)' = Gen(-2) /\ Gen(-1)' = Gen(-1) /\ Gen(0)' = Gen(0) /\ Gen(1)' = Gen(1)
    BY <1>18
  <2>4. s \notin ToSet(New') /\ s \notin ToSet(Old')
    BY <1>7, <1>8, <1>18, ToSetEmpty
  <2>5. (s \in ToSet(nonempty') <=> ~Full(sp)) /\ (s \in ToSet(empty') <=> Full(sp))
    BY <1>7, <1>16, <1>17
  <2>. HIDE DEF Gen
  <2>. QED  BY <1>6, <1>7, <1>9, <1>13, <1>21, <2>1, <2>2, <2>3, <2>4, <2>5 DEF SpanSwept
<1>25. /\ IsInjective(New') /\ IsInjective(Old') /\ {s} \in SUBSET Span
       /\ UNCHANGED <<mtx, stopped, worldsema, sweepgen>>
  BY <1>5, <1>9, <1>18 DEF Sweeping, Sweep
<1>26. (\A x \in Span \ {s} : SameSwept(t, x)) /\ (\A x \in {s} : SpanSwept(t, x)')
  BY <1>23, <1>24
<1>. QED  BY <1>12, <1>16, <1>17, <1>19, <1>20, <1>22, <1>25, <1>26, SweepingKeeps

LEMMA FlushKeeps ==
  ASSUME NEW t, Sweeping(t), cache_releaseAll(t)
  PROVE  Kept
<1>1. /\ t \in Thread /\ t # NULL /\ th[t] \in FrameType /\ Typed
      /\ CollectorSweeps(t) /\ \A s \in Span : SpanSwept(t, s)
  BY SweepingFacts
<1>2. PICK h : h = Head(todo)
  OBVIOUS
<1>3. /\ th[t].pc = "flush" \/ (th[t].pc = "release" /\ todo # <<>> /\ cached[h] = NULL)
      /\ cached' = [cached EXCEPT ![h] = NULL] /\ todo' = Tail(todo)
      /\ Move(t, [Idle EXCEPT !.pc = "release"])
      /\ UNCHANGED <<span, nonempty, empty, sweepSpans, sweepgen, sweepdone, gcphase, worldsema,
                     mtx, stopped, locks, objs, exit>>
  BY <1>2 DEF cache_releaseAll, At, heapVars, lists, sweepVars
<1>4. todo \in Seq(Thread) /\ IsInjective(todo) /\ todo # <<>>
  BY <1>1, <1>3 DEF CollectorSweeps, Past
<1>5. /\ h \in Thread /\ Tail(todo) \in Seq(Thread) /\ IsInjective(Tail(todo))
      /\ ToSet(todo) = {h} \cup ToSet(Tail(todo))
  BY <1>2, <1>4, HeadOfList
<1>. DEFINE r == [Idle EXCEPT !.pc = "release"]
<1>6. r \in FrameType /\ r.pc = "release"
  BY IdleFrame DEF FrameType, PCs
<1>7. Move(t, r)
  BY <1>3
<1>. HIDE DEF r
<1>8. /\ th' \in [Thread -> FrameType] /\ th'[t] = r
      /\ \A u \in Thread : u # t => th'[u] = th[u]
  BY <1>1, <1>6, <1>7, Moved
<1>9. /\ cached' \in [Thread -> Span \cup {NULL}] /\ cached'[h] = NULL
      /\ \A u \in Thread : u # h => cached'[u] = cached[u]
  BY <1>1, <1>3, <1>5 DEF Typed
<1>10. New' = New /\ Old' = Old /\ \A k \in Int : Gen(k)' = Gen(k)
  BY <1>3 DEF New, Old, Gen
<1>11. Typed'
  BY <1>1, <1>3, <1>5, <1>8, <1>9 DEF Typed
<1>12. ~Past(t)' /\ InSweep(t)' /\ (Past(t) \/ cached[h] = NULL)
  BY <1>3, <1>6, <1>8 DEF Past, InSweep
<1>13. ASSUME NEW s \in Span
       PROVE  SameSwept(t, s)
  <2>1. Held(t, s)' <=> Held(t, s)
    <3>1. s # NULL
      BY Constants
    <3>2. Held(t, s)' <=> \E u \in Thread : u # h /\ cached[u] = s
      BY <1>9, <1>12, <3>1 DEF Held
    <3>3. Held(t, s) <=> \E u \in Thread : u # h /\ cached[u] = s
      BY <1>2, <1>12, <3>1 DEF Held
    <3>. QED  BY <3>2, <3>3
  <2>2. \A pcs \in {{"sweep"}, {"free"}, {"push", "free"}} :
           ~Carries(t, pcs, s) /\ ~Carries(t, pcs, s)'
    BY <1>3, <1>6, <1>8 DEF Carries
  <2>3. SameSpan(s)
    BY <1>3, <1>10 DEF SameSpan
  <2>. QED  BY <1>10, <2>1, <2>2, <2>3 DEF SameSwept
<1>14. CollectorSweeps(t)'
  <2>1. \A u \in Thread : cached'[u] # NULL => u \in ToSet(Tail(todo))
    BY <1>1, <1>5, <1>9 DEF CollectorSweeps
  <2>2. \A u, v \in Thread : cached'[u] # NULL /\ cached'[u] = cached'[v] => u = v
    BY <1>1, <1>9 DEF CollectorSweeps
  <2>3. locks' = NULL
    BY <1>1, <1>3 DEF CollectorSweeps
  <2>4. todo' \in Seq(Thread) /\ IsInjective(todo') /\ todo' = Tail(todo)
    BY <1>3, <1>5
  <2>5. Old' = <<>>
    BY <1>1, <1>3, <1>10 DEF CollectorSweeps, Past
  <2>. QED  BY <1>6, <1>8, <1>12, <2>1, <2>2, <2>3, <2>4, <2>5 DEF CollectorSweeps
<1>15. /\ IsInjective(New') /\ IsInjective(Old') /\ IsInjective(nonempty') /\ IsInjective(empty')
       /\ {} \in SUBSET Span /\ UNCHANGED <<mtx, stopped, worldsema, sweepgen>>
  BY <1>3, <1>10 DEF Sweeping, Sweep
<1>16. (\A s \in {} : SpanSwept(t, s)') /\ (\A s \in Span \ {} : SameSwept(t, s))
  BY <1>13
<1>. QED  BY <1>8, <1>11, <1>12, <1>14, <1>15, <1>16, SweepingKeeps

LEMMA StartKeeps ==
  ASSUME NEW t, Sweeping(t), startTheWorld(t)
  PROVE  Kept
<1>1. /\ t \in Thread /\ t # NULL /\ th[t] \in FrameType /\ Typed
      /\ CollectorSweeps(t) /\ \A s \in Span : SpanSwept(t, s)
      /\ \A u \in Thread \ {t} : th[u].pc \in {"idle", "help", "try", "wait", "sema"}
  BY SweepingFacts
<1>2. /\ th[t].pc = "release" /\ todo = <<>> /\ Move(t, Idle)
      /\ mtx' = NULL /\ stopped' = {} /\ worldsema' = NULL
      /\ UNCHANGED <<span, nonempty, empty, sweepSpans, sweepgen, sweepdone, gcphase, todo,
                     cached, locks, objs, exit>>
  BY DEF startTheWorld, At, Return, heapVars, lists, sweepVars
<1>3. /\ th' \in [Thread -> FrameType] /\ th'[t] = Idle
      /\ \A u \in Thread : u # t => th'[u] = th[u]
  BY <1>1, <1>2, IdleFrame, Moved
<1>4. \A u \in Thread : th'[u].pc \in {"idle", "help", "try", "wait", "sema"}
  BY <1>1, <1>3 DEF Idle
<1>5. \A u \in Thread : cached[u] = NULL
  BY <1>1, <1>2, ToSetEmpty DEF CollectorSweeps
<1>6. locks = NULL /\ Old = <<>>
  BY <1>1, <1>2 DEF CollectorSweeps
<1>7. New' = New /\ Old' = Old /\ \A k \in Int : Gen(k)' = Gen(k)
  BY <1>2 DEF New, Old, Gen
<1>8. \A u \in Thread : ThreadOpen(u)'
  BY <1>2, <1>4, <1>5, <1>6, Constants DEF ThreadOpen, GivingUp
<1>9. ASSUME NEW s \in Span
      PROVE  SpanOpen(s)'
  <2>1. SpanSwept(t, s) /\ ~Held(t, s)
    BY <1>1, <1>5, Constants DEF Held
  <2>2. \A pcs \in {{"sweep"}, {"free"}, {"push", "free"}} : ~Carries(t, pcs, s)
    BY <1>2 DEF Carries
  <2>3. \A u \in Thread : /\ ~Has(u, s)' /\ ~InHand(u, s)' /\ ~Inserts(u, s)' /\ ~Takes(u, s)'
                          /\ ~Uses(u, s)'
    BY <1>2, <1>4, <1>5, Constants DEF Has, InHand, Inserts, Takes, Uses
  <2>4. Gen(0) # Gen(3)
    BY <1>1, BufferTypes
  <2>5. span[s].state # "free" => span[s].sweepgen = Gen(0)
    <3>1. s \notin ToSet(Old)
      BY <1>6, ToSetEmpty
    <3>. QED  BY <2>1, <2>2, <3>1 DEF SpanSwept
  <2>6. Small(s)' <=> Small(s)
    BY <1>2 DEF Small
  <2>7. Gen(0)' = Gen(0) /\ Gen(3)' = Gen(3)
    BY <1>7
  <2>. HIDE DEF Gen
  <2>8. /\ span[s].state = "free" => Blank(span[s]) /\ objs[s] = {}
        /\ span[s].state # "free" =>
              /\ Sound(span[s]) /\ objs[s] \subseteq Allocated(span[s])
              /\ span[s].gcmarkBits = {} /\ span[s].allocCount > 0
        /\ s \in ToSet(nonempty) <=> Small(s) /\ ~Full(span[s])
        /\ s \in ToSet(empty) <=> Small(s) /\ Full(span[s])
        /\ s \in ToSet(New) <=> span[s].state # "free"
    BY <2>1, <2>2, <2>5 DEF SpanSwept
  <2>. QED  BY <1>2, <1>4, <1>7, <2>3, <2>4, <2>5, <2>6, <2>7, <2>8 DEF SpanOpen
<1>10. Open'
  BY <1>2, <1>6, <1>7, <1>8, <1>9 DEF Open, Sweeping, Sweep
<1>11. Typed'
  BY <1>1, <1>2, <1>3 DEF Typed
<1>12. WorldOK'
  BY <1>2, <1>4 DEF WorldOK, Running
<1>. QED  BY <1>2, <1>10, <1>11, <1>12 DEF Kept, Settled

LEMMA SweepingStep ==
  ASSUME NEW t, Sweeping(t), Allocate(t) \/ SweepStep(t) \/ Collect(t)
  PROVE  Kept
<1>1. th[t].pc \in {"sweepone", "pop", "sweep", "push", "free", "release", "flush"}
  BY DEF Sweeping, InSweep
<1>2. ~Allocate(t)
  BY <1>1
  DEF Allocate, mallocgc, cache_nextFree, CacheFull, cache_refill, central_cacheSpan, FromNonempty,
      FromEmpty, SkipSpan, NoneInNonempty, NoneInEmpty, Recheck, central_grow, Insert, largeAlloc,
      OutOfMemory, Cache, At
<1>3. CASE SweepStep(t)
  BY <1>3, SweeponeKeeps, PopKeeps, SpanSweepKeeps, PushKeeps, FreeSpanKeeps DEF SweepStep
<1>4. CASE Collect(t)
  <2>1. /\ ~gcStart(t) /\ ~Help(t) /\ ~TryStart(t) /\ ~Await(t) /\ ~Begin(t) /\ ~stopTheWorld(t)
        /\ ~gcDrain(t) /\ ~gcSweep(t)
    BY <1>1 DEF gcStart, Help, TryStart, Await, Begin, stopTheWorld, gcDrain, gcSweep, At
  <2>. QED  BY <1>4, <2>1, ReleaseKeeps, FlushKeeps, StartKeeps DEF Collect
<1>. QED  BY <1>2, <1>3, <1>4

LEMMA MarkingStep ==
  ASSUME NEW t, Collects(t), Open, ~InSweep(t), Allocate(t) \/ SweepStep(t) \/ Collect(t)
  PROVE  Kept
<1>1. th[t].pc \in {"mark", "gcSweep"}
  BY CollectsFacts
<1>2. ~Allocate(t)
  BY <1>1
  DEF Allocate, mallocgc, cache_nextFree, CacheFull, cache_refill, central_cacheSpan, FromNonempty,
      FromEmpty, SkipSpan, NoneInNonempty, NoneInEmpty, Recheck, central_grow, Insert, largeAlloc,
      OutOfMemory, Cache, At
<1>3. ~SweepStep(t)
  BY <1>1 DEF SweepStep, sweepone, gcsweepbuf_pop, SweepDone, span_sweep, gcsweepbuf_push,
      heap_freeSpan, At
<1>4. CASE Collect(t)
  <2>1. /\ ~gcStart(t) /\ ~Help(t) /\ ~TryStart(t) /\ ~Await(t) /\ ~Begin(t) /\ ~stopTheWorld(t)
        /\ ~central_uncacheSpan(t) /\ ~cache_releaseAll(t) /\ ~startTheWorld(t)
    BY <1>1 DEF gcStart, Help, TryStart, Await, Begin, stopTheWorld, central_uncacheSpan,
       cache_releaseAll, startTheWorld, At
  <2>. QED  BY <1>4, <2>1, DrainKeeps, GcSweepKeeps DEF Collect
<1>. QED  BY <1>2, <1>3, <1>4

(***************************************************************************)
(* What the code asserts holds.                                            *)
(***************************************************************************)
LEMMA OpenAsserts ==
  ASSUME NEW t, Free(t)
  PROVE  AssertsHold(t)
<1>1. /\ t \in Thread /\ th[t] \in FrameType /\ ThreadOpen(t) /\ th[t].pc \in Running
      /\ Typed /\ Open
  BY FreeFacts DEF Free
<1>2. \A x : /\ Contains(nonempty, x) <=> x \in ToSet(nonempty)
             /\ Contains(empty, x) <=> x \in ToSet(empty)
  BY <1>1, ContainsIs DEF Typed
<1>3. ASSUME th[t].pc = "refill"  PROVE RefillOK(t)
  <2>. SUFFICES ASSUME cached[t] # NULL
                PROVE  /\ span[cached[t]].allocCount = span[cached[t]].nelems
                       /\ span[cached[t]].sweepgen = Gen(3)
    BY DEF RefillOK
  <2>1. cached[t] \in Span /\ Small(cached[t]) /\ Full(span[cached[t]])
    BY <1>1, <1>3 DEF ThreadOpen
  <2>2. Uses(t, cached[t])
    BY <1>3 DEF Uses, GivingUp
  <2>3. SpanOpen(cached[t])
    BY <1>1, <2>1 DEF Open
  <2>. QED  BY <1>1, <2>1, <2>2, <2>3 DEF SpanOpen, Small, Full
<1>4. ASSUME th[t].pc \in {"insert", "have"}
      PROVE  /\ th[t].pc = "insert" => ~Contains(empty, th[t].s) /\ ~Contains(nonempty, th[t].s)
             /\ HaveOK(span[th[t].s])
  <2>1. th[t].s \in Span /\ Small(th[t].s) /\ ~Full(span[th[t].s])
    BY <1>1, <1>4 DEF ThreadOpen
  <2>2. SpanOpen(th[t].s) /\ Has(t, th[t].s)
    BY <1>1, <1>4, <2>1 DEF Open, Has, InHand
  <2>3. Sound(span[th[t].s])
    BY <2>1, <2>2 DEF SpanOpen, Small
  <2>4. HaveOK(span[th[t].s])
    BY <2>1, <2>3, WasEmptyFull DEF HaveOK, Full
  <2>5. th[t].pc = "insert" => Inserts(t, th[t].s)
    BY DEF Inserts
  <2>. QED  BY <1>1, <1>2, <2>2, <2>4, <2>5 DEF SpanOpen
<1>5. ASSUME th[t].pc = "take"  PROVE NextFreeOK(t)
  <2>1. cached[t] # NULL /\ cached[t] \in Span /\ Small(cached[t]) /\ ~Full(span[cached[t]])
    BY <1>1, <1>5 DEF ThreadOpen
  <2>2. Sound(span[cached[t]])
    BY <1>1, <2>1 DEF Open, SpanOpen, Small
  <2>3. ~WasEmpty(span[cached[t]]) /\ HasFree(span[cached[t]])
    BY <2>1, <2>2, WasEmptyFull
  <2>. QED  BY <2>1, <2>3 DEF NextFreeOK, HasFree
<1>6. ASSUME th[t].pc = "pop"  PROVE PopOK(t)
  <2>1. th[t].sg = sweepgen
    BY <1>1, <1>6 DEF ThreadOpen
  <2>. QED  BY <1>1, <2>1 DEF PopOK, Open, Old
<1>7. th[t].pc \notin {"sweep", "free", "release", "gcSweep"}
  BY <1>1 DEF Running
<1>. QED  BY <1>3, <1>4, <1>5, <1>6, <1>7 DEF AssertsHold

LEMMA MarkingAsserts ==
  ASSUME NEW t, Collects(t), Open, ~InSweep(t)
  PROVE  AssertsHold(t)
<1>1. th[t].pc \in {"mark", "gcSweep"} /\ sweepgen \in 0 .. GenMod - 1
  BY CollectsFacts
<1>2. sweepSpans[SweepBuffer(Gen(2))] = <<>>
  <2>1. SweepBuffer(Gen(2)) = 1 - SweepBuffer(sweepgen)
    BY <1>1, Successor DEF Gen
  <2>. HIDE DEF Gen
  <2>. QED  BY <2>1 DEF Open, Old
<1>. QED  BY <1>1, <1>2 DEF AssertsHold

LEMMA SweepingAsserts ==
  ASSUME NEW t, Sweeping(t)
  PROVE  AssertsHold(t)
<1>1. /\ t \in Thread /\ t # NULL /\ th[t] \in FrameType /\ Typed
      /\ CollectorSweeps(t) /\ \A s \in Span : SpanSwept(t, s)
      /\ sweepgen \in 0 .. GenMod - 1
  BY SweepingFacts
<1>2. \A x : /\ Contains(nonempty, x) <=> x \in ToSet(nonempty)
             /\ Contains(empty, x) <=> x \in ToSet(empty)
  BY <1>1, ContainsIs DEF Typed
<1>3. th[t].pc \in {"sweepone", "pop", "sweep", "push", "free", "release", "flush"}
  BY DEF Sweeping, InSweep
<1>4. /\ Gen(0) # Gen(-2) /\ Gen(0) # Gen(1) /\ Gen(0) # Gen(-1)
      /\ Gen(-1) # Gen(1) /\ Gen(-1) # Gen(-2) /\ Gen(1) # Gen(-2)
      /\ Old \in Seq(Span)
  BY <1>1, BufferTypes
<1>5. ASSUME th[t].pc = "pop"  PROVE PopOK(t)
  <2>1. th[t].sg = sweepgen
    BY <1>1, <1>5 DEF CollectorSweeps
  <2>2. Old # <<>> => Last(Old) \in ToSet(Old) /\ Last(Old) \in Span
    BY <1>4, PopOfList DEF Sweeping, Sweep
  <2>3. Old # <<>> => span[Last(Old)].state # "free"
    BY <1>1, <2>2 DEF SpanSwept
  <2>. QED  BY <2>1, <2>3 DEF PopOK, Old
<1>6. ASSUME th[t].pc = "sweep"  PROVE SweepOK(t)
  <2>1. PICK s, sp : s = th[t].s /\ sp = span[s]
    OBVIOUS
  <2>2. /\ s \in Span /\ sp.state = "inUse" /\ SpanSwept(t, s) /\ Carries(t, {"sweep"}, s)
        /\ ~Carries(t, {"free"}, s)
    BY <1>1, <1>6, <2>1 DEF CollectorSweeps, Carries
  <2>3. Sound(sp) /\ sp.sweepgen = Gen(-1) /\ ~Held(t, s)
    BY <1>4, <2>1, <2>2 DEF SpanSwept
  <2>4. /\ sp.class = "small" /\ ~Full(sp) => s \in ToSet(nonempty)
        /\ sp.class = "small" /\ Full(sp) => s \in ToSet(empty)
    BY <2>1, <2>2, <2>3 DEF SpanSwept, Small
  <2>5. (WasEmpty(sp) <=> Full(sp)) /\ span_countAlloc(sp) <= sp.allocCount
    <3>1. PICK new : new = SweptSpan(sp)
      OBVIOUS
    <3>2. span_countAlloc(sp) <= sp.allocCount
      BY <1>1, <2>3, <3>1, SweptIs
    <3>. QED  BY <2>3, <3>2, WasEmptyFull
  <2>6. th[t].ret \notin {"have", "recheck"}
    BY <1>6, SweepingFacts
  <2>. HIDE DEF Gen
  <2>. QED  BY <1>2, <2>1, <2>2, <2>3, <2>4, <2>5, <2>6 DEF SweepOK
<1>7. ASSUME th[t].pc = "free"  PROVE FreeSpanOK(span[th[t].s])
  BY <1>1, <1>7 DEF CollectorSweeps, FreeSpanOK
<1>8. ASSUME th[t].pc = "release", todo # <<>>, cached[Head(todo)] # NULL
      PROVE  UncacheOK(cached[Head(todo)])
  <2>1. PICK s : s = cached[Head(todo)]
    OBVIOUS
  <2>2. Head(todo) \in Thread
    BY <1>1, <1>8, HeadOfList DEF Typed
  <2>3. s \in Span /\ Held(t, s) /\ ~Carries(t, {"free"}, s)
    BY <1>1, <1>8, <2>1, <2>2 DEF Typed, Held, Past, Carries
  <2>4. SpanSwept(t, s) /\ Small(s)
    BY <1>1, <2>3 DEF SpanSwept
  <2>5. s \in ToSet(empty) /\ Sound(span[s]) /\ span[s].allocCount > 0
    BY <2>3, <2>4 DEF SpanSwept, Small
  <2>6. span[s].allocCount # 0
    BY <2>5, SpanTypes
  <2>. QED  BY <1>2, <2>1, <2>5, <2>6 DEF UncacheOK
<1>. QED  BY <1>3, <1>5, <1>6, <1>7, <1>8 DEF AssertsHold

(***************************************************************************)
(* The invariant is inductive.                                             *)
(***************************************************************************)
LEMMA IInvInit == Init => IInv
<1>. SUFFICES ASSUME Init  PROVE IInv
  OBVIOUS
<1>1. CollectorInv
  BY InvInit
<1>2. /\ span = [s \in Span |-> FreeSpan] /\ nonempty = <<>> /\ empty = <<>>
      /\ sweepSpans = [b \in {0, 1} |-> <<>>] /\ sweepgen = 0 /\ sweepdone = FALSE
      /\ cached = [t \in Thread |-> NULL] /\ locks = NULL /\ gcphase = "off"
      /\ worldsema = NULL /\ mtx = NULL /\ stopped = {} /\ todo = <<>>
      /\ th = [t \in Thread |-> Idle] /\ objs = [s \in Span |-> {}] /\ exit = "no"
  BY DEF Init
<1>3. 0 \in 0 .. GenMod - 1
  BY Constants
<1>4. Typed
  <2>1. /\ span = [s \in Span |-> span[s]] /\ objs = [s \in Span |-> objs[s]]
        /\ cached \in [Thread -> Span \cup {NULL}]
    BY <1>2
  <2>2. th \in [Thread -> FrameType]
    BY <1>2, IdleFrame
  <2>3. sweepSpans \in [{0, 1} -> Seq(Span)] /\ nonempty \in Seq(Span) /\ empty \in Seq(Span)
        /\ todo \in Seq(Thread)
    BY <1>2
  <2>4. /\ sweepgen \in 0 .. GenMod - 1 /\ sweepdone \in BOOLEAN /\ gcphase \in {"off", "mark"}
        /\ locks \in Thread \cup {NULL} /\ worldsema \in Thread \cup {NULL}
        /\ mtx \in Thread \cup {NULL} /\ stopped \subseteq Thread
        /\ exit \in {"no", "memory", "throw"}
    BY <1>2, <1>3
  <2>. QED  BY <2>1, <2>2, <2>3, <2>4 DEF Typed
<1>5. New = <<>> /\ Old = <<>> /\ ToSet(<<>>) = {} /\ IsInjective(<<>>)
  <2>1. SweepBuffer(sweepgen) \in {0, 1} /\ 1 - SweepBuffer(sweepgen) \in {0, 1}
    BY <1>4, BufferTypes
  <2>2. IsInjective(<<>>)
    BY DEF IsInjective
  <2>. QED  BY <1>2, <2>1, <2>2, ToSetEmpty DEF New, Old
<1>6. \A t \in Thread : th[t].pc = "idle" /\ cached[t] = NULL
  BY <1>2 DEF Idle
<1>7. \A t \in Thread : ThreadOpen(t)
  BY <1>2, <1>6, Constants DEF ThreadOpen
<1>8. ASSUME NEW s \in Span
      PROVE  SpanOpen(s)
  <2>1. span[s] = FreeSpan /\ span[s].state = "free" /\ span[s].sweepgen = 0 /\ objs[s] = {}
    BY <1>2 DEF FreeSpan
  <2>2. Blank(span[s])
    <3>1. 0 \in 0 .. NELEMS /\ {} \in SUBSET Slot
      BY Constants
    <3>2. FreeSpan \in MSpan /\ FreeSpan = [FreeSpan EXCEPT !.sweepgen = FreeSpan.sweepgen]
      BY <1>3, <3>1 DEF MSpan, FreeSpan
    <3>. QED  BY <2>1, <3>2 DEF Blank
  <2>3. ~Small(s) /\ \A t \in Thread : ~Has(t, s)
    BY <1>6, <2>1, Constants DEF Small, Has, InHand
  <2>. QED  BY <1>2, <1>5, <2>1, <2>2, <2>3 DEF SpanOpen
<1>9. Open
  BY <1>2, <1>5, <1>7, <1>8 DEF Open
<1>10. WorldOK
  BY <1>2, <1>6 DEF WorldOK, Running
<1>11. Settled
  BY <1>2, <1>9 DEF Settled
<1>12. TypeOK
  BY <1>4, <1>11, TypesFrom
<1>. QED  BY <1>1, <1>2, <1>9, <1>10, <1>12 DEF IInv

(* Which of the three worlds thread t takes a step in.                     *)
LEMMA Worlds ==
  ASSUME IInv, NEW t \in Thread \ stopped
  PROVE  \/ Free(t)
         \/ Collects(t) /\ Open /\ ~InSweep(t)
         \/ Sweeping(t)
<1>1. Typed /\ WorldOK /\ CollectorInv /\ Settled
  BY TypesOf DEF IInv, Settled
<1>2. CASE mtx = NULL
  BY <1>1, <1>2 DEF Free, Settled
<1>3. CASE mtx # NULL
  <2>1. mtx = t
    BY <1>1, <1>3 DEF WorldOK
  <2>2. CASE InSweep(t)
    BY <1>1, <1>3, <2>1, <2>2 DEF Sweeping, Settled
  <2>3. CASE ~InSweep(t)
    BY <1>1, <1>3, <2>1, <2>3 DEF Collects, Settled
  <2>. QED  BY <2>2, <2>3
<1>. QED  BY <1>2, <1>3

LEMMA AssertsAlwaysHold ==
  ASSUME IInv, NEW t \in Thread \ stopped
  PROVE  AssertsHold(t)
BY Worlds, OpenAsserts, MarkingAsserts, SweepingAsserts

LEMMA IInvStep ==
  ASSUME SafePoints, IInv, [Next]_vars
  PROVE  IInv'
<1>1. /\ Typed /\ WorldOK /\ CollectorInv /\ Settled
      /\ exit \in {"no", "memory"}
  BY TypesOf DEF IInv, Settled, Typed
<1>2. CollectorInv'
  BY <1>1, InvStep
<1>3. Kept /\ exit' # "throw"
  <2>1. CASE UNCHANGED vars
    <3>1. UNCHANGED <<heapVars, gcVars, cached, locks, th, objs, exit>>
      BY <2>1 DEF vars
    <3>2. exit' \in {"no", "memory", "throw"} /\ exit' # "throw"
      BY <1>1, <3>1
    <3>. QED  BY <1>1, <3>1, <3>2, NothingMoves
  <2>2. ASSUME NEW t \in Thread \ stopped, exit = "no", Allocate(t) \/ SweepStep(t) \/ Collect(t)
        PROVE  Kept /\ exit' # "throw"
    <3>1. Kept
      <4>1. CASE Free(t)
        BY <1>1, <2>2, <4>1, FreeStep
      <4>2. CASE Collects(t) /\ Open /\ ~InSweep(t)
        BY <2>2, <4>2, MarkingStep
      <4>3. CASE Sweeping(t)
        BY <2>2, <4>3, SweepingStep
      <4>. QED  BY <4>1, <4>2, <4>3, Worlds
    <3>2. exit' \in {"no", "memory"}
      <4>1. CASE Allocate(t)
        BY <2>2, <4>1
        DEF Allocate, mallocgc, cache_nextFree, CacheFull, cache_refill, central_cacheSpan,
            FromNonempty, FromEmpty, SkipSpan, NoneInNonempty, NoneInEmpty, Recheck, central_grow,
            Insert, largeAlloc, OutOfMemory, Cache
      <4>2. CASE SweepStep(t)
        BY <2>2, <4>2
        DEF SweepStep, sweepone, gcsweepbuf_pop, SweepDone, span_sweep, gcsweepbuf_push,
            heap_freeSpan
      <4>3. CASE Collect(t)
        BY <2>2, <4>3
        DEF Collect, gcStart, Help, TryStart, Await, Begin, stopTheWorld, gcDrain, gcSweep,
            central_uncacheSpan, cache_releaseAll, startTheWorld
      <4>. QED  BY <2>2, <4>1, <4>2, <4>3
    <3>. QED  BY <3>1, <3>2
  <2>3. ASSUME Next  PROVE (UNCHANGED vars) \/ \E t \in Thread \ stopped :
                              exit = "no" /\ (Allocate(t) \/ SweepStep(t) \/ Collect(t))
    BY <2>3, AssertsAlwaysHold DEF Next, Exited
  <2>. QED  BY <2>1, <2>2, <2>3
<1>4. TypeOK'
  <2>1. Typed' /\ Settled' => TypeOK'
    BY TypesFrom, PTL
  <2>. QED  BY <1>3, <2>1 DEF Kept
<1>. QED  BY <1>2, <1>3, <1>4 DEF IInv, Kept, Settled

(***************************************************************************)
(* What it implies.                                                        *)
(***************************************************************************)
LEMMA AllocatedFromIInv == IInv => ReachedIsAllocated
<1>. SUFFICES ASSUME IInv, NEW s \in Span
              PROVE  /\ objs[s] \subseteq Allocated(span[s])
                     /\ span[s].allocCount = Cardinality(Allocated(span[s]))
  BY DEF IInv, ReachedIsAllocated
<1>1. \/ Blank(span[s]) /\ objs[s] = {}
      \/ Sound(span[s]) /\ objs[s] \subseteq Allocated(span[s])
  BY DEF IInv, Open, SpanOpen, Sweep, SpanSwept
<1>2. CASE Blank(span[s]) /\ objs[s] = {}
  <2>1. span[s].freeindex = 0 /\ span[s].allocBits = {} /\ span[s].allocCount = 0
    BY <1>2 DEF Blank, FreeSpan
  <2>2. Allocated(span[s]) = {}
    BY <2>1, CountNone DEF Allocated
  <2>. QED  BY <1>2, <2>1, <2>2, CountNone
<1>. QED  BY <1>1, <1>2 DEF Sound

LEMMA OnePlaceFromIInv == IInv => OnePlace
<1>. SUFFICES ASSUME IInv, mtx = NULL, NEW s \in Span
              PROVE  /\ Cardinality(Owners(s)) <= 1
                     /\ Contains(nonempty, s) <=>
                           /\ span[s].state = "inUse" /\ span[s].class = "small"
                           /\ Owners(s) = {} /\ ~WasEmpty(span[s])
                     /\ (\E t \in Owners(s) : th[t].pc # "insert") => Contains(empty, s)
  BY DEF OnePlace
<1>1. SpanOpen(s) /\ Typed
  BY TypesOf DEF IInv, Open
<1>2. Owners(s) = {t \in Thread : Has(t, s)}
  BY DEF Owners, Has, InHand
<1>3. /\ Contains(nonempty, s) <=> s \in ToSet(nonempty)
      /\ Contains(empty, s) <=> s \in ToSet(empty)
  BY <1>1, ContainsIs DEF Typed
<1>4. Cardinality(Owners(s)) <= 1
  <2>1. CASE Owners(s) = {}
    BY <2>1, FS_EmptySet
  <2>2. CASE Owners(s) # {}
    <3>1. PICK t : Owners(s) = {t}
      BY <1>1, <1>2, <2>2 DEF SpanOpen
    <3>2. Cardinality({} \cup {t}) = 0 + 1
      BY FS_EmptySet, FS_AddElement
    <3>3. Owners(s) = {} \cup {t}
      BY <3>1
    <3>. QED  BY <3>2, <3>3
  <2>. QED  BY <2>1, <2>2
<1>5. Small(s) => (WasEmpty(span[s]) <=> Full(span[s]))
  <2>1. Small(s) => Sound(span[s])
    BY <1>1 DEF SpanOpen, Small
  <2>. QED  BY <2>1, WasEmptyFull
<1>6. ASSUME NEW t \in Owners(s), th[t].pc # "insert"
      PROVE  s \in ToSet(empty)
  <2>1. t \in Thread /\ Has(t, s) /\ ThreadOpen(t)
    BY <1>2 DEF IInv, Open
  <2>2. Small(s)
    BY <2>1, Constants DEF Has, InHand, ThreadOpen
  <2>3. ASSUME NEW u \in Thread  PROVE ~Inserts(u, s)
    <3>1. Inserts(u, s) => Has(u, s)
      BY DEF Inserts, Has, InHand
    <3>. QED  BY <1>1, <1>6, <2>1, <3>1 DEF SpanOpen, Inserts
  <2>. QED  BY <1>1, <2>1, <2>2, <2>3 DEF SpanOpen
<1>. QED  BY <1>1, <1>2, <1>3, <1>4, <1>5, <1>6 DEF SpanOpen, Small

LEMMA BufferFromIInv == IInv => SweepBufferExact
<1>. SUFFICES ASSUME IInv, mtx = NULL
              PROVE  /\ Old = <<>>
                     /\ IsInjective(New) /\ ToSet(New) = {s \in Span : span[s].state = "inUse"}
                     /\ \A s \in Span : span[s].state = "inUse" =>
                           /\ span[s].sweepgen \in {Gen(0), Gen(3)}
                           /\ span[s].sweepgen = Gen(3) => \E t \in Thread : cached[t] = s
  BY DEF SweepBufferExact, Old, New
<1>1. Open /\ Typed /\ New \in Seq(Span)
  BY TypesOf, BufferTypes DEF IInv
<1>2. ASSUME NEW s \in Span
      PROVE  /\ s \in ToSet(New) <=> span[s].state = "inUse"
             /\ span[s].state = "inUse" =>
                   /\ span[s].sweepgen \in {Gen(0), Gen(3)}
                   /\ span[s].sweepgen = Gen(3) => \E t \in Thread : cached[t] = s
  <2>1. SpanOpen(s)
    BY <1>1 DEF Open
  <2>2. span[s].state # "free" => span[s].state = "inUse"
    BY <2>1 DEF SpanOpen, Sound
  <2>. QED  BY <2>1, <2>2 DEF SpanOpen, Uses
<1>3. ToSet(New) \subseteq Span
  BY <1>1, ToSetSeq
<1>4. ToSet(New) = {s \in Span : span[s].state = "inUse"}
  BY <1>2, <1>3
<1>. QED  BY <1>1, <1>2, <1>4 DEF Open

LEMMA CycleFromIInv == IInv => CycleSweepsAll
<1>. SUFFICES ASSUME IInv, NEW t \in Thread, th[t].pc = "release", todo = <<>>
              PROVE  /\ \A u \in Thread : cached[u] = NULL
                     /\ \A s \in Span : span[s].state = "inUse" =>
                           /\ span[s].sweepgen = Gen(0) /\ span[s].gcmarkBits = {}
                           /\ span[s].allocCount > 0
  BY DEF CycleSweepsAll
<1>1. mtx = t /\ Sweep(t) /\ Typed
  <2>1. Typed /\ WorldOK
    BY TypesOf DEF IInv
  <2>2. mtx # NULL
    BY <2>1 DEF WorldOK, Running
  <2>3. mtx = t
    BY <2>1, <2>2 DEF WorldOK, AtSafePoint
  <2>4. InSweep(t) /\ t # NULL
    BY Constants DEF InSweep
  <2>. QED  BY <2>1, <2>3, <2>4 DEF IInv
<1>2. \A u \in Thread : cached[u] = NULL
  BY <1>1, ToSetEmpty DEF Sweep, CollectorSweeps
<1>3. ASSUME NEW s \in Span, span[s].state = "inUse"
      PROVE  span[s].sweepgen = Gen(0) /\ span[s].gcmarkBits = {} /\ span[s].allocCount > 0
  <2>1. SpanSwept(t, s) /\ ~Held(t, s)
    BY <1>1, <1>2, Constants DEF Sweep, Held
  <2>2. \A pcs \in {{"sweep"}, {"free"}, {"push", "free"}} : ~Carries(t, pcs, s)
    BY DEF Carries
  <2>3. s \notin ToSet(Old)
    BY <1>1, ToSetEmpty DEF Sweep, CollectorSweeps
  <2>. HIDE DEF Gen
  <2>. QED  BY <1>3, <2>1, <2>2, <2>3 DEF SpanSwept
<1>. QED  BY <1>2, <1>3

(* With the world stopped only when every other thread is outside mallocgc *)
(* and sweepone, no throw of the allocator or the sweeper is ever reached: *)
(* none of cache.c, central.c, sweep.c, gc.c and heap.c.                   *)
THEOREM NothingThrown ==
  ASSUME SafePoints
  PROVE  Spec => []NoThrow
<1>1. Init => IInv  BY IInvInit
<1>2. IInv /\ [Next]_vars => IInv'  BY IInvStep
<1>3. IInv => NoThrow  BY DEF IInv, NoThrow
<1>. QED  BY <1>1, <1>2, <1>3, PTL DEF Spec

(* Every word of the spans keeps its width; what the program reaches is    *)
(* among the slots its span has given out, and allocCount is their number, *)
(* through allocation, sweep, refill and flush (cache.c, sweep.c:89-153).  *)
THEOREM ReachedStaysAllocated ==
  ASSUME SafePoints
  PROVE  Spec => []ReachedIsAllocated
<1>1. Init => IInv  BY IInvInit
<1>2. IInv /\ [Next]_vars => IInv'  BY IInvStep
<1>3. IInv => ReachedIsAllocated  BY AllocatedFromIInv
<1>. QED  BY <1>1, <1>2, <1>3, PTL DEF Spec

(* While the threads run, a span is one thread's or nobody's, and what is  *)
(* nobody's can be found exactly when it has room: central.c loses no span *)
(* and gives none to two threads.                                          *)
THEOREM EverySpanInOnePlace ==
  ASSUME SafePoints
  PROVE  Spec => []OnePlace
<1>1. Init => IInv  BY IInvInit
<1>2. IInv /\ [Next]_vars => IInv'  BY IInvStep
<1>3. IInv => OnePlace  BY OnePlaceFromIInv
<1>. QED  BY <1>1, <1>2, <1>3, PTL DEF Spec

(* While the threads run, the buffer of the next sweep holds every span in *)
(* use once, the other is empty, and a sweepgen of two cycles ago is never *)
(* taken for one of now (gc_sweepbuf.c, heap.h on sweepgen).               *)
THEOREM SweepBuffersAreExact ==
  ASSUME SafePoints
  PROVE  Spec => []SweepBufferExact
<1>1. Init => IInv  BY IInvInit
<1>2. IInv /\ [Next]_vars => IInv'  BY IInvStep
<1>3. IInv => SweepBufferExact  BY BufferFromIInv
<1>. QED  BY <1>1, <1>2, <1>3, PTL DEF Spec

(* A cycle that reaches startTheWorld has swept every span in use, those   *)
(* of the caches included, and has given back each that held nothing.      *)
THEOREM CyclesAreComplete ==
  ASSUME SafePoints
  PROVE  Spec => []CycleSweepsAll
<1>1. Init => IInv  BY IInvInit
<1>2. IInv /\ [Next]_vars => IInv'  BY IInvStep
<1>3. IInv => CycleSweepsAll  BY CycleFromIInv
<1>. QED  BY <1>1, <1>2, <1>3, PTL DEF Spec

LEMMA ListsFromIInv == IInv => ListsIntact
<1>. SUFFICES ASSUME IInv  PROVE ListsIntact
  OBVIOUS
<1>1. /\ nonempty \in Seq(Span) /\ empty \in Seq(Span)
      /\ IsInjective(nonempty) /\ IsInjective(empty)
  BY TypesOf DEF IInv, Open, Sweep, Typed
<1>2. ASSUME NEW s \in Span
      PROVE  /\ ~(s \in ToSet(nonempty) /\ s \in ToSet(empty))
             /\ s \in ToSet(nonempty) \cup ToSet(empty) => Small(s)
  <2>1. CASE SpanOpen(s)
    BY <2>1 DEF SpanOpen
  <2>2. CASE SpanSwept(mtx, s)
    BY <2>2 DEF SpanSwept
  <2>. QED  BY <2>1, <2>2 DEF IInv, Open, Sweep
<1>3. /\ ToSet(nonempty) \subseteq Span /\ ToSet(empty) \subseteq Span
      /\ ToSet(nonempty \o empty) = ToSet(nonempty) \cup ToSet(empty)
  BY <1>1, ToSetSeq, ToSetConcat
<1>4. IsInjective(nonempty \o empty)
  <2>1. ToSet(nonempty) \cap ToSet(empty) = {}
    BY <1>2, <1>3
  <2>. QED  BY <1>1, <2>1, ConcatInjective
<1>. QED  BY <1>2, <1>3, <1>4 DEF ListsIntact, Small

LEMMA ExclusiveFromIInv == IInv => ExclusiveSweep
<1>. SUFFICES ASSUME IInv, NEW t \in Thread, th[t].pc = "sweep"
              PROVE  span[th[t].s].state = "inUse" /\ span[th[t].s].sweepgen = Gen(-1)
  BY DEF ExclusiveSweep
<1>1. mtx = t /\ Sweep(t)
  <2>1. WorldOK
    BY DEF IInv
  <2>2. mtx # NULL
    BY <2>1 DEF WorldOK, Running
  <2>3. mtx = t /\ InSweep(t)
    BY <2>1, <2>2 DEF WorldOK, AtSafePoint, InSweep
  <2>. QED  BY <2>2, <2>3 DEF IInv
<1>2. /\ th[t].s \in Span /\ span[th[t].s].state = "inUse" /\ SpanSwept(t, th[t].s)
      /\ Carries(t, {"sweep"}, th[t].s)
  BY <1>1 DEF Sweep, CollectorSweeps, Carries
<1>. QED  BY <1>2 DEF SpanSwept

(* The two lists of the central stay lists of spans of small objects in    *)
(* use, none of them twice (central.c).                                    *)
THEOREM ListsStayIntact ==
  ASSUME SafePoints
  PROVE  Spec => []ListsIntact
<1>1. Init => IInv  BY IInvInit
<1>2. IInv /\ [Next]_vars => IInv'  BY IInvStep
<1>3. IInv => ListsIntact  BY ListsFromIInv
<1>. QED  BY <1>1, <1>2, <1>3, PTL DEF Spec

(* What sweep.c:78 says of ownership, and what GoSpansStolen shows broken  *)
(* when threads go on allocating, is true of safe points: a span that is   *)
(* being swept is in use and the sweeper's until its sweepgen is set.      *)
THEOREM SweepsAreExclusive ==
  ASSUME SafePoints
  PROVE  Spec => []ExclusiveSweep
<1>1. Init => IInv  BY IInvInit
<1>2. IInv /\ [Next]_vars => IInv'  BY IInvStep
<1>3. IInv => ExclusiveSweep  BY ExclusiveFromIInv
<1>. QED  BY <1>1, <1>2, <1>3, PTL DEF Spec
=============================================================================

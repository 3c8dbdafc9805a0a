------------------------------ MODULE MCPools -------------------------------
(***************************************************************************)
(* Obmalloc and GcPython for TLC, side by side in one run: the first state *)
(* chooses the program, which never changes.                               *)
(***************************************************************************)
EXTENDS Obmalloc, GcPython

TwoBlocks == <<2, 2>>

(* What gc-python adds, in a behaviour of obmalloc.c.                      *)
NoCollector == /\ refs = [o \in Object |-> NOBLOCK]
               /\ roots = {} /\ broken = FALSE

Init == (ObInit /\ NoCollector) \/ PyInit

Next == (ObNext /\ UNCHANGED <<refs, roots, broken>>) \/ PyNext

Spec == Init /\ [][Next]_pyvars
=============================================================================

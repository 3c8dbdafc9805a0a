---------------------------- MODULE MCCollectors ----------------------------
(***************************************************************************)
(* Generational, Lisp2 and Refcount for TLC, side by side in one run: the  *)
(* first state chooses the program, which never changes; the variables of  *)
(* the other two stay as they are.                                         *)
(***************************************************************************)
EXTENDS Generational, Lisp2, Refcount

VARIABLES program

allvars == <<program, vars, lisp2vars, refvars>>

AllInit == /\ program \in {"generational", "compact-lisp2", "refcount"}
           /\ Init /\ LispInit /\ RefInit

AllNext == /\ UNCHANGED program
           /\ \/ program = "generational" /\ Next /\ UNCHANGED <<lisp2vars, refvars>>
              \/ program = "compact-lisp2" /\ LispNext /\ UNCHANGED <<vars, refvars>>
              \/ program = "refcount" /\ RefNext /\ UNCHANGED <<vars, lisp2vars>>

AllSpec == AllInit /\ [][AllNext]_allvars
=============================================================================

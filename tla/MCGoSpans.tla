----------------------------- MODULE MCGoSpans ------------------------------
(***************************************************************************)
(* Instances of GoSpans for TLC.                                           *)
(***************************************************************************)
EXTENDS GoSpans

(* The spans are interchangeable; the threads are not: gcMarkTermination   *)
(* flushes their caches in the order of allm.                              *)
Symmetry == Permutations(Span)
=============================================================================

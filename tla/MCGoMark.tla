------------------------------ MODULE MCGoMark -----------------------------
(***************************************************************************)
(* GoMark for TLC: a large object of two words, a span of two objects that *)
(* share a mark byte, and an object without pointers.                      *)
(***************************************************************************)
EXTENDS GoMark

Span(a, size, n, noscan) ==
    [startaddr |-> a, elemsize |-> size, nelems |-> n, noscan |-> noscan]
MixedSpans == {Span(1, 2, 1, FALSE), Span(3, 1, 2, FALSE), Span(5, 1, 1, FALSE), Span(6, 1, 1, TRUE)}
=============================================================================

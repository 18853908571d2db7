----------------------------- MODULE MCDesktop -----------------------------
(***************************************************************************)
(* Desktop on small instances.                                             *)
(***************************************************************************)
EXTENDS Desktop, TLC

\* A roomy host window, one too small for any tile, and one so thin that the
\* last of several tiles is dropped.
Roomy == [n \in 0..Cardinality(Window) |-> n]
Tiny == [n \in 0..Cardinality(Window) |-> 0]
Thin == [n \in 0..Cardinality(Window) |-> IF n > 1 THEN n - 1 ELSE n]
MCRectCounts == {Roomy, Tiny, Thin}

Symmetry == Permutations(Window)
=============================================================================

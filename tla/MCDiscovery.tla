---------------------------- MODULE MCDiscovery ----------------------------
(***************************************************************************)
(* Discovery for TLC: instances are interchangeable.                       *)
(***************************************************************************)
EXTENDS Discovery, TLC

Symmetry == Permutations(Instance)
=============================================================================

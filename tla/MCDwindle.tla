----------------------------- MODULE MCDwindle -----------------------------
(***************************************************************************)
(* Dwindle on small outputs: every shape from nothing to a few pixels per  *)
(* window and side, odd and even gaps, borders wider than tiles.           *)
(***************************************************************************)
EXTENDS Dwindle

CONSTANT MaxSide

MCOutputs == [w : 0..MaxSide, h : 0..MaxSide]
MCLayouts == [outer : {0, 1}, inner : {0, 1, 2, 3}, border : {0, 2}, bar : {0, 1}]
=============================================================================

-------------------------- MODULE MCPieceScheduler --------------------------
(***************************************************************************)
(* PieceScheduler for TLC.  Pieces are interchangeable: no definition      *)
(* orders them.  Symmetry is used by no run that checks a liveness         *)
(* property.                                                               *)
(***************************************************************************)
EXTENDS PieceScheduler, TLC

Symmetry == Permutations(Missing) \union Permutations(Workers)
=============================================================================

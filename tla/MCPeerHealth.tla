---------------------------- MODULE MCPeerHealth ----------------------------
(***************************************************************************)
(* PeerHealth for TLC.  Workers are interchangeable; peers are when none   *)
(* of them is listed twice.                                                *)
(***************************************************************************)
EXTENDS PeerHealth, TLC

Symmetry == Permutations(Workers) \union Permutations(Peers \ Doubled)
=============================================================================

------------------------- MODULE MCMultiplayerSync -------------------------
(***************************************************************************)
(* Instances of MultiplayerSync for TLC.                                   *)
(***************************************************************************)
EXTENDS MultiplayerSync, TLC

\* Sessions are interchangeable.
Symmetry == Permutations(Tab)
=============================================================================

------------------------- MODULE MCSingleplayerSync -------------------------
(***************************************************************************)
(* Instances of SingleplayerSync for TLC.                                  *)
(***************************************************************************)
EXTENDS SingleplayerSync, TLC

\* Tabs of one kind, and handlers, are interchangeable.
Symmetry == Permutations(Tab) \cup Permutations(Handler)
=============================================================================

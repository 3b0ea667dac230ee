------------------------- MODULE MCCrossTabPolling -------------------------
(***************************************************************************)
(* Instances of CrossTabPolling for TLC.                                   *)
(***************************************************************************)
EXTENDS CrossTabPolling, TLC
=============================================================================

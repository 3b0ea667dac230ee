--------------------------- MODULE MCPatchService ---------------------------
(***************************************************************************)
(* Instances of PatchService for TLC.                                      *)
(***************************************************************************)
EXTENDS PatchService

CONSTANTS t1, t2, t3, t4, t5, t6, t7

Req(k, e, d, v) == [kind |-> k, entries |-> e, denied |-> d, version |-> v]

\* A browser batch with a cyclic transaction in the middle, an API commit
\* racing it from the same version, and a relay request that follows one of
\* them, part of which is rejected, and a request rejected as a whole.
MCRequest ==
  { Req("browser", << t1, t2, t3 >>, {}, 0),
    Req("api", << t4 >>, {}, 0),
    Req("relay", << t5, t6 >>, {t7}, 1),
    Req("browser", << >>, {t7}, 0) }
=============================================================================

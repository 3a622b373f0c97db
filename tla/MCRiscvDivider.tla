--------------------------- MODULE MCRiscvDivider ---------------------------
(* The divider with registers three bits wide. *)
EXTENDS RiscvDivider

MCMSB    == 4
MCOneHot == {4, 2, 1}
=============================================================================

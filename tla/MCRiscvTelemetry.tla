-------------------------- MODULE MCRiscvTelemetry --------------------------
(* The pipeline with its counter.  What is counted does not depend on      *)
(* data, nor does progress: there is one word and one address.  Interrupts *)
(* are enabled by two returns from the trap handler.                       *)
EXTENDS RiscvTelemetry

MCRegs == {0, 1}

I(op, rd, ra, rb, target) ==
    [op |-> op, rd |-> rd, ra |-> ra, rb |-> rb, target |-> target]

MCInstrs ==
    {I("LOAD", 1, 1, 0, 0), I("STORE_MISALIGNED", 0, 0, 0, 0),
     I("DIV", 1, 1, 1, 0), I("DFLUSH", 0, 0, 0, 0), I("FENCE_I", 0, 0, 0, 0),
     I("MRET", 0, 0, 0, 0)}
=============================================================================

---------------------------- MODULE MCRiscvPipe ----------------------------
(* The pipelined core on small instruction sets: one register beside x0,   *)
(* one-bit words, two or three instruction addresses.                      *)
EXTENDS RiscvPipe

MCRegs       == {0, 1}

I(op, rd, ra, rb, target) ==
    [op |-> op, rd |-> rd, ra |-> ra, rb |-> rb, target |-> target]

\* x1 := x1 + 1
Inc  == I("ALU", 1, 1, 0, 0)
Mul  == I("MUL", 1, 1, 1, 0)
Load == I("LOAD", 1, 1, 0, 0)
Divide  == I("DIV", 1, 0, 1, 0)

MemInstrs ==
    {Inc, Load, I("STORE", 0, 1, 1, 0), I("LOAD_MISALIGNED", 1, 1, 0, 0),
     Mul, Divide, I("JAL", 1, 0, 0, 0), I("BEQ", 0, 1, 0, 0),
     I("FETCH_FAULT", 0, 0, 0, 0), I("DFLUSH", 0, 0, 0, 0)}

TrapInstrs ==
    {Inc, Load, Mul,
     I("CSRRS", 1, 1, 0, 0), I("CSRRC", 1, 1, 0, 0), I("MRET", 0, 0, 0, 0),
     I("DFLUSH_DENIED", 0, 0, 0, 0), I("FENCE_I", 0, 0, 0, 0)}
=============================================================================

----------------------------- MODULE RiscvInstr -----------------------------
(***************************************************************************)
(* The instructions both machines execute: the simulator (RiscvIsa) and    *)
(* the pipelined core (RiscvPipe).  An instruction is a record of its      *)
(* decoded fields; "op" names a class of instructions that take the same   *)
(* path through the core.  Words are counted modulo NumValues, program     *)
(* counters count words modulo NumPCs.                                     *)
(***************************************************************************)
EXTENDS Integers

CONSTANTS
    Instrs,      \* the instructions a program may hold
    Regs,        \* register indices, 0 among them
    NumValues,   \* how many words there are: 2^32 in the code
    NumPCs,      \* how many instruction addresses there are
    TrapVector   \* mtvec

AluOps   == {"ALU", "MUL", "DIV"}
LoadOps  == {"LOAD", "LOAD_MISALIGNED"}
StoreOps == {"STORE", "STORE_MISALIGNED"}
JumpOps  == {"JAL", "BEQ"}
\* DFLUSH is a write of pmpcfg0, DFLUSH_DENIED the same from user mode.
CsrOps   == {"CSRRS", "CSRRC", "DFLUSH", "DFLUSH_DENIED", "FENCE_I", "ECALL",
             "MRET", "ILLEGAL", "FETCH_FAULT"}
Ops      == AluOps \cup LoadOps \cup StoreOps \cup JumpOps \cup CsrOps

Writers  == AluOps \cup LoadOps \cup {"JAL", "CSRRS", "CSRRC"}

Values == 0 .. (NumValues - 1)
PCs    == 0 .. (NumPCs - 1)

Instruction == [op : Ops, rd : Regs, ra : Regs, rb : Regs, target : PCs]

\* A register that receives mstatus has room for its MIE bit.
ASSUME IsaAssumption ==
    /\ Instrs \subseteq Instruction
    /\ \A i \in Instrs : i.rd # 0 => i.op \in Writers
    /\ 0 \in Regs
    /\ NumValues \in Nat \ {0} /\ NumPCs \in Nat \ {0}
    /\ \A i \in Instrs : i.op \in {"CSRRS", "CSRRC"} => NumValues > 1
    /\ TrapVector \in PCs

Status == [mie : BOOLEAN, mpie : BOOLEAN]
Causes == {"NONE", "INTERRUPT", "ECALL", "ILLEGAL", "FETCH_FAULT",
           "LOAD_FAULT", "STORE_FAULT", "LOAD_MISALIGNED", "STORE_MISALIGNED"}

Word(n)   == n % NumValues
NextPc(p) == (p + 1) % NumPCs
Bit(b)    == IF b THEN 1 ELSE 0

(***************************************************************************)
(* What the instructions compute.  One operation stands for the whole      *)
(* integer ALU; it is not idempotent and depends on both operands.         *)
(***************************************************************************)
Compute(op, a, b) ==
    CASE op = "ALU" -> Word(a + b + 1)
      [] op = "MUL" -> Word(a * b)
      [] op = "DIV" -> IF b = 0 THEN Word(-1) ELSE a \div b

Taken(op, a, b) == op = "JAL" \/ (op = "BEQ" /\ a = b)

\* csrrs and csrrc on the MIE bit of mstatus; the bit is selected by the
\* low bit of the source register.
Written(op, s, a) ==
    CASE op = "CSRRS" -> [s EXCEPT !.mie = @ \/ a % 2 = 1]
      [] op = "CSRRC" -> [s EXCEPT !.mie = @ /\ a % 2 = 0]
=============================================================================

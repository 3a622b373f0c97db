------------------------------ MODULE RiscvIsa ------------------------------
(***************************************************************************)
(* The instruction-set simulator, isa_sim/riscv.cpp: one instruction per   *)
(* step, no pipeline.  It is the reference the repository co-simulates the *)
(* Verilog core against (isa_sim/cosim_api.cpp), and it is the abstract    *)
(* specification of RiscvPipe.                                             *)
(*                                                                         *)
(* Machine mode without an MMU.  Program memory is not part of the         *)
(* state: whatever instruction is found at the program counter is executed.*)
(*                                                                         *)
(* It departs from the simulator in three places, each to say what the     *)
(* core promises.  The simulator ends the program at a misaligned access   *)
(* (an assertion of memory.h), an access fault or a fetch fault (error()); *)
(* here they trap as riscv_csr_regfile.v makes them.  execute() takes an   *)
(* interrupt at the end of the instruction that finds it pending; here it  *)
(* is a step of its own, between two instructions.  And pending interrupts *)
(* are one bit, mip & mie.  RiscvSim models the simulator itself, with all *)
(* its privilege levels and interrupts.                                    *)
(***************************************************************************)
EXTENDS RiscvInstr

VARIABLES pc, gpr, mem, sr, mepc, mcause, mip

archVars == <<pc, gpr, mem, sr, mepc, mcause>>
isaVars  == <<archVars, mip>>

-----------------------------------------------------------------------------
Init ==
    /\ pc = 0
    /\ gpr \in [Regs -> Values] /\ gpr[0] = 0
    /\ mem \in [Values -> Values]
    /\ sr = [mie |-> FALSE, mpie |-> FALSE]
    /\ mepc = 0
    /\ mcause = "NONE"
    /\ mip = FALSE

Write(rd, v) == gpr' = IF rd = 0 THEN gpr ELSE [gpr EXCEPT ![rd] = v]

\* exception(): machine mode.
Trap(cause) ==
    /\ sr' = [mie |-> FALSE, mpie |-> sr.mie]
    /\ mepc' = pc
    /\ mcause' = cause
    /\ pc' = TrapVector
    /\ UNCHANGED <<gpr, mem>>

ExecArith(i) ==
    /\ i.op \in AluOps
    /\ Write(i.rd, Compute(i.op, gpr[i.ra], gpr[i.rb]))
    /\ pc' = NextPc(pc)
    /\ UNCHANGED <<mem, sr, mepc, mcause>>

ExecJump(i) ==
    /\ i.op \in JumpOps
    /\ Write(i.rd, Word(NextPc(pc)))
    /\ pc' = IF Taken(i.op, gpr[i.ra], gpr[i.rb]) THEN i.target ELSE NextPc(pc)
    /\ UNCHANGED <<mem, sr, mepc, mcause>>

ExecLoad(i, fault) ==
    /\ i.op \in LoadOps
    /\ IF i.op = "LOAD_MISALIGNED" \/ fault
       THEN Trap(IF i.op = "LOAD" THEN "LOAD_FAULT" ELSE i.op)
       ELSE /\ Write(i.rd, mem[gpr[i.ra]])
            /\ pc' = NextPc(pc)
            /\ UNCHANGED <<mem, sr, mepc, mcause>>

ExecStore(i, fault) ==
    /\ i.op \in StoreOps
    /\ IF i.op = "STORE_MISALIGNED" \/ fault
       THEN Trap(IF i.op = "STORE" THEN "STORE_FAULT" ELSE i.op)
       ELSE /\ mem' = [mem EXCEPT ![gpr[i.ra]] = gpr[i.rb]]
            /\ pc' = NextPc(pc)
            /\ UNCHANGED <<gpr, sr, mepc, mcause>>

ExecCsr(i) ==
    /\ i.op \in {"CSRRS", "CSRRC"}
    /\ Write(i.rd, Bit(sr.mie))
    /\ sr' = Written(i.op, sr, gpr[i.ra])
    /\ pc' = NextPc(pc)
    /\ UNCHANGED <<mem, mepc, mcause>>

\* Fences and the cache operations do nothing a program can observe.
ExecFence(i) ==
    /\ i.op \in {"FENCE_I", "DFLUSH"}
    /\ pc' = NextPc(pc)
    /\ UNCHANGED <<gpr, mem, sr, mepc, mcause>>

ExecMret(i) ==
    /\ i.op = "MRET"
    /\ sr' = [mie |-> sr.mpie, mpie |-> TRUE]
    /\ pc' = mepc
    /\ UNCHANGED <<gpr, mem, mepc, mcause>>

\* The simulator checks no privilege; that a write of pmpcfg0 from user mode
\* is an illegal instruction is taken from csr_fault_r of riscv_csr.v.
ExecTrap(i) ==
    /\ i.op \in {"ECALL", "ILLEGAL", "FETCH_FAULT", "DFLUSH_DENIED"}
    /\ Trap(IF i.op = "DFLUSH_DENIED" THEN "ILLEGAL" ELSE i.op)

\* execute(): "fault" says that the memory refuses the access of a load or
\* a store.
Execute(i, fault) ==
    \/ ExecArith(i) \/ ExecJump(i)
    \/ ExecLoad(i, fault) \/ ExecStore(i, fault)
    \/ ExecCsr(i) \/ ExecFence(i) \/ ExecMret(i) \/ ExecTrap(i)

Interrupt ==
    /\ mip /\ sr.mie
    /\ Trap("INTERRUPT")

\* set_interrupt(): a pending interrupt stays pending.
Pend == mip' \in {mip, TRUE}

Next ==
    /\ \/ \E i \in Instrs, fault \in BOOLEAN : Execute(i, fault)
       \/ Interrupt
       \/ UNCHANGED archVars
    /\ Pend

Spec == Init /\ [][Next]_isaVars

TypeOK ==
    /\ pc \in PCs /\ mepc \in PCs
    /\ gpr \in [Regs -> Values] /\ gpr[0] = 0
    /\ mem \in [Values -> Values]
    /\ sr \in Status
    /\ mcause \in Causes
    /\ mip \in BOOLEAN
=============================================================================

----------------------------- MODULE RiscvPipe -----------------------------
(***************************************************************************)
(* The pipelined core: issue and operand forwarding                        *)
(* (core/riscv/riscv_issue.v), the E1, E2 and WB stages                    *)
(* (riscv_pipe_ctrl.v), branches (riscv_exec.v), CSR instructions, traps   *)
(* and interrupts (riscv_csr.v and the machine-mode part of                *)
(* riscv_csr_regfile.v), around the load/store unit (RiscvLsu) and the     *)
(* divide unit (DividerSpec).                                              *)
(*                                                                         *)
(* Every step is one rising clock edge.  The front end is reduced to what  *)
(* it promises (FrontEndSpec, which module RiscvFrontEnd implements).  The *)
(* instruction found at an address is free.                                *)
(*                                                                         *)
(* RiscvIsa is what the core implements: one step of it for every          *)
(* instruction that enters WB.                                             *)
(***************************************************************************)
EXTENDS RiscvInstr, Sequences

CONSTANTS
    LoadBypass,  \* SUPPORT_LOAD_BYPASS
    MulBypass,   \* SUPPORT_MUL_BYPASS
    DivSteps,    \* iterations of the divide unit
    MemAnswers,  \* answers of the memory port: "OK", "ERROR"
    Raised       \* {TRUE} if interrupts may be raised, else {}

ASSUME PipeAssumption ==
    /\ LoadBypass \in BOOLEAN /\ MulBypass \in BOOLEAN
    /\ DivSteps \in Nat
    /\ MemAnswers \subseteq {"OK", "ERROR"}
    /\ Raised \subseteq {TRUE}

VARIABLES
    fetch_valid, fetch_pc, fetch_instr,      \* the instruction at issue
    e1, e2, wb,                              \* the stages of riscv_pipe_ctrl
    squash_e1_e2_q,
    div_pending_q, csr_pending_q,
    csr_e1,                                  \* E1 registers of riscv_csr
    take_interrupt_q, branch_q, branch_target_q,
    gpr,                                     \* riscv_regfile
    sr, mepc, mcause, mip,                   \* riscv_csr_regfile
    mem_q, pending_lsu_e2_q, mem_unaligned_e2_q, fifo, outst, mem, mem_ack,
    div_busy, div_left, div_answer, div_valid, div_value

frontVars == <<fetch_valid, fetch_pc, fetch_instr>>
pipeVars  == <<e1, e2, wb, squash_e1_e2_q>>
csrVars   == <<csr_e1, take_interrupt_q, branch_q, branch_target_q, sr, mepc,
               mcause, mip>>
lsuVars   == <<mem_q, pending_lsu_e2_q, mem_unaligned_e2_q, fifo, outst, mem,
               mem_ack>>
divVars   == <<div_busy, div_left, div_answer, div_valid, div_value>>
vars == <<frontVars, pipeVars, div_pending_q, csr_pending_q, csrVars, gpr,
          lsuVars, divVars>>

Lsu == INSTANCE RiscvLsu
Div == INSTANCE DividerSpec WITH Steps <- DivSteps, Results <- Values

NoInstr == [op |-> "NONE", rd |-> 0, ra |-> 0, rb |-> 0, target |-> 0]
Idle    == [mie |-> FALSE, mpie |-> FALSE]

Front == INSTANCE FrontEndSpec WITH
             Words <- Instrs, NoWord <- NoInstr, front_valid <- fetch_valid,
             front_pc <- fetch_pc, front_instr <- fetch_instr

\* A stage: "live" stands for the ctrl bits being set, "valid" for valid_e*_q,
\* "intr" for an instruction that was turned into an interrupt at issue.
Bubble ==
    [live |-> FALSE, valid |-> FALSE, intr |-> FALSE, instr |-> NoInstr,
     pc |-> 0, res |-> 0, mul |-> 0, exc |-> "NONE",
     csrWrite |-> FALSE, csrData |-> Idle]

NoCsr == [value |-> 0, write |-> FALSE, data |-> Idle, exc |-> "NONE"]

-----------------------------------------------------------------------------
(***************************************************************************)
(* Wires: the stages                                                       *)
(***************************************************************************)
Is(stage, ops) == stage.live /\ ~stage.intr /\ stage.instr.op \in ops
MemOps         == LoadOps \cup StoreOps
Dest(stage)    == IF stage.intr THEN 0 ELSE stage.instr.rd

\* Seeded fault: a load or store does not hold E2.
PipeStall_NoMemory == Is(e1, {"DIV"}) /\ ~div_valid

PipeStall ==
    \/ Is(e1, {"DIV"}) /\ ~div_valid
    \/ Is(e2, MemOps) /\ ~Lsu!WritebackValid

E2Exception ==
    IF e2.valid /\ Is(e2, MemOps) /\ Lsu!WritebackValid
    THEN Lsu!WritebackException ELSE e2.exc

Squash == E2Exception # "NONE" \/ squash_e1_e2_q

MemResult == IF Is(e2, MemOps) THEN Lsu!WritebackValue ELSE 0

\* rd_e1_o, rd_e2_o and rd_wb_o; 0 is no register.
E1Rd == IF e1.live THEN Dest(e1) ELSE 0
E2Rd == IF e2.valid /\ ~PipeStall THEN Dest(e2) ELSE 0
WbRd == IF wb.valid /\ ~PipeStall /\ wb.exc = "NONE" THEN Dest(wb) ELSE 0

E2Result ==
    IF LoadBypass /\ e2.valid /\ ~PipeStall /\ Is(e2, MemOps) THEN MemResult
    ELSE IF MulBypass /\ e2.valid /\ ~PipeStall /\ Is(e2, {"MUL"}) THEN e2.mul
    ELSE e2.res

CsrWb == Is(wb, CsrOps) /\ ~PipeStall

(***************************************************************************)
(* Wires: issue.  The newest version of an operand takes priority.         *)
(***************************************************************************)
Operand(r) ==
    IF r = 0 THEN 0
    ELSE IF E1Rd = r THEN e1.res
    ELSE IF E2Rd = r THEN E2Result
    ELSE IF WbRd = r THEN wb.res
    ELSE gpr[r]

OperandA == Operand(fetch_instr.ra)
OperandB == Operand(fetch_instr.rb)

\* Seeded faults: a dependency on the load or multiply in E2 is not seen; a
\* CSR instruction may follow a load or store.
Scoreboard_NoE2 ==
    IF Is(e1, MemOps) /\ fetch_instr.op \in {"MUL", "DIV"} \cup CsrOps
    THEN Regs
    ELSE IF Is(e1, LoadOps \cup {"MUL"}) THEN {E1Rd} ELSE {}
Scoreboard_CsrAfterLoad ==
    IF Is(e1, LoadOps \cup {"MUL"}) THEN {E1Rd} ELSE {}

Scoreboard ==
    IF Is(e1, MemOps) /\ fetch_instr.op \in {"MUL", "DIV"} \cup CsrOps
    THEN Regs
    ELSE UNION {IF ~LoadBypass /\ Is(e2, LoadOps) THEN {E2Rd} ELSE {},
                IF ~MulBypass /\ Is(e2, {"MUL"}) THEN {E2Rd} ELSE {},
                IF Is(e1, LoadOps \cup {"MUL"}) THEN {E1Rd} ELSE {}}

OpcodeValid == fetch_valid /\ ~Squash /\ ~branch_q

CanIssue(accept) ==
    /\ ~Lsu!Stall(accept) /\ ~PipeStall
    /\ ~div_pending_q /\ ~csr_pending_q
    /\ OpcodeValid
    /\ {fetch_instr.ra, fetch_instr.rb, fetch_instr.rd} \cap Scoreboard = {}

\* lsu_opcode_valid_o and csr_opcode_valid_o are masked by an interrupt,
\* exec_, mul_ and div_opcode_valid_o are not.
\* (Launched_Unmasked is a seeded fault.)
Launched_Unmasked(issued) == issued
Launched(issued) == issued /\ ~take_interrupt_q

AluResult ==
    CASE fetch_instr.op = "ALU" -> Compute("ALU", OperandA, OperandB)
      [] fetch_instr.op \in JumpOps -> Word(NextPc(fetch_pc))
      [] OTHER -> 0

LsuOperation ==
    IF fetch_instr.op \in Lsu!LsuOps
    THEN [op |-> fetch_instr.op, addr |-> OperandA,
          data |-> IF fetch_instr.op = "STORE" THEN OperandB ELSE 0]
    ELSE Lsu!Nothing

BranchRequest(issued) ==
    issued /\ Taken(fetch_instr.op, OperandA, OperandB)

-----------------------------------------------------------------------------
(***************************************************************************)
(* Registers: the stages                                                   *)
(***************************************************************************)
Issued ==
    [Bubble EXCEPT
        !.live = TRUE, !.valid = TRUE, !.intr = take_interrupt_q,
        !.instr = fetch_instr, !.pc = fetch_pc, !.res = AluResult,
        !.mul = IF fetch_instr.op = "MUL"
                THEN Compute("MUL", OperandA, OperandB) ELSE 0,
        !.exc = IF fetch_instr.op = "FETCH_FAULT" THEN "FETCH_FAULT" ELSE "NONE"]

E1Stage(issued) ==
    e1' = IF PipeStall THEN e1 ELSE IF issued THEN Issued ELSE Bubble

\* An interrupt is launched here; an instruction the front end reports bad
\* is no longer valid, and hides the errors found later.
Advanced ==
    [e1 EXCEPT
        !.valid = @ /\ (e1.intr \/ e1.exc = "NONE"),
        !.res = IF Is(e1, {"DIV"}) THEN div_value
                ELSE IF Is(e1, CsrOps) THEN csr_e1.value ELSE e1.res,
        !.exc = IF e1.intr THEN "INTERRUPT"
                ELSE IF e1.exc # "NONE" THEN e1.exc ELSE csr_e1.exc,
        !.csrWrite = csr_e1.write, !.csrData = csr_e1.data]

E2Stage ==
    e2' = IF PipeStall THEN e2 ELSE IF Squash THEN Bubble ELSE Advanced

MemFaults ==
    {"LOAD_FAULT", "STORE_FAULT", "LOAD_MISALIGNED", "STORE_MISALIGNED"}

WbStage ==
    wb' = IF PipeStall THEN wb
          ELSE [e2 EXCEPT
                   !.valid = @ /\ E2Exception \notin MemFaults,
                   !.exc = E2Exception,
                   !.mul = 0,
                   !.res = IF e2.valid /\ Is(e2, MemOps) THEN MemResult
                           ELSE IF e2.valid /\ Is(e2, {"MUL"}) THEN e2.mul
                           ELSE e2.res]

SquashCopy ==
    squash_e1_e2_q' = IF PipeStall THEN squash_e1_e2_q
                      ELSE E2Exception # "NONE"

\* Seeded fault: x0 is written like any register.
RegFile_X0 == gpr' = [gpr EXCEPT ![WbRd] = wb.res]

RegFile == gpr' = IF WbRd = 0 THEN gpr ELSE [gpr EXCEPT ![WbRd] = wb.res]

\* Blocking events: division and CSR access.
\* Seeded fault: the CSR instruction is released when it leaves E1.
Pending_CsrEarly(issued) ==
    /\ div_pending_q' = (/\ ~Squash
                         /\ \/ issued /\ fetch_instr.op = "DIV"
                            \/ div_pending_q /\ ~div_valid)
    /\ csr_pending_q' = (/\ ~Squash
                         /\ \/ Launched(issued) /\ fetch_instr.op \in CsrOps
                            \/ csr_pending_q /\ ~Is(e1, CsrOps))

Pending(issued) ==
    /\ div_pending_q' = (/\ ~Squash
                         /\ \/ issued /\ fetch_instr.op = "DIV"
                            \/ div_pending_q /\ ~div_valid)
    /\ csr_pending_q' = (/\ ~Squash
                         /\ \/ Launched(issued) /\ fetch_instr.op \in CsrOps
                            \/ csr_pending_q /\ ~CsrWb)

-----------------------------------------------------------------------------
(***************************************************************************)
(* Registers: CSR unit.  The read-modify-write value is computed when the  *)
(* instruction issues and written when it reaches WB.                      *)
(***************************************************************************)
CsrException(op) ==
    CASE op \in {"ECALL", "MRET", "ILLEGAL"} -> op
      [] op \in {"FETCH_FAULT", "DFLUSH_DENIED"} -> "ILLEGAL"
      [] op = "FENCE_I"     -> "FENCE"
      [] OTHER              -> "NONE"

CsrResult(op, a) ==
    IF op \in {"CSRRS", "CSRRC"}
    THEN [value |-> Bit(sr.mie), write |-> TRUE, data |-> Written(op, sr, a),
          exc |-> "NONE"]
    ELSE [NoCsr EXCEPT !.exc = CsrException(op)]

\* csr_result_e1: not held by a stall.
CsrUnit(issued) ==
    csr_e1' = IF Launched(issued) THEN CsrResult(fetch_instr.op, OperandA)
              ELSE NoCsr

InterruptPending == mip /\ sr.mie

\* issue_csr_w is decoded from the instruction shown by the front end, also
\* while that is not valid: then it is whatever the instruction bus holds.
InterruptLaunch ==
    LET free == InterruptPending /\ ~csr_pending_q
    IN  take_interrupt_q' \in
            IF ~fetch_valid THEN {free, FALSE}
            ELSE {free /\ fetch_instr.op \notin CsrOps}

Traps == Causes \ {"NONE", "INTERRUPT"}

\* The machine-mode register updates of an exception or of a CSR write at WB.
CsrAfter ==
    LET same    == [sr |-> sr, mepc |-> mepc, mcause |-> mcause]
        entered == [sr |-> [mie |-> FALSE, mpie |-> sr.mie],
                    mepc |-> wb.pc, mcause |-> mcause]
    IN  CASE wb.exc = "INTERRUPT" ->
                IF InterruptPending THEN [entered EXCEPT !.mcause = "INTERRUPT"]
                                    ELSE entered
          [] wb.exc \in Traps -> [entered EXCEPT !.mcause = wb.exc]
          [] wb.exc = "MRET" ->
                [same EXCEPT !.sr = [mie |-> sr.mpie, mpie |-> TRUE]]
          [] OTHER -> IF wb.csrWrite THEN [same EXCEPT !.sr = wb.csrData]
                                     ELSE same

CsrTarget ==
    CASE wb.exc = "MRET"  -> mepc
      [] wb.exc = "FENCE" -> NextPc(wb.pc)
      [] OTHER            -> TrapVector

CsrFile ==
    /\ sr' = CsrAfter.sr /\ mepc' = CsrAfter.mepc /\ mcause' = CsrAfter.mcause
    /\ mip' \in {mip} \cup Raised
    /\ branch_q' = (wb.exc # "NONE")
    /\ branch_target_q' = IF wb.exc # "NONE" THEN CsrTarget ELSE 0

-----------------------------------------------------------------------------
(***************************************************************************)
(* The front end: fetch_accept_o and branch_request_o.                     *)
(***************************************************************************)
FrontEnd(issued) ==
    Front!FrontEdge(~OpcodeValid \/ Launched(issued),
                    branch_q \/ BranchRequest(issued),
                    IF branch_q THEN branch_target_q ELSE fetch_instr.target)

-----------------------------------------------------------------------------
Init ==
    /\ fetch_valid = FALSE /\ fetch_pc = 0 /\ fetch_instr = NoInstr
    /\ e1 = Bubble /\ e2 = Bubble /\ wb = Bubble /\ squash_e1_e2_q = FALSE
    /\ div_pending_q = FALSE /\ csr_pending_q = FALSE
    /\ csr_e1 = NoCsr /\ take_interrupt_q = FALSE
    /\ branch_q = TRUE /\ branch_target_q = 0        \* the reset vector
    /\ gpr = [r \in Regs |-> 0]
    /\ sr = Idle /\ mepc = 0 /\ mcause = "NONE" /\ mip = FALSE
    /\ Lsu!Init
    /\ Div!DivInit

Clock(issued, accept) ==
    /\ E1Stage(issued) /\ E2Stage /\ WbStage /\ SquashCopy
    /\ RegFile
    /\ Pending(issued)
    /\ CsrUnit(issued) /\ InterruptLaunch /\ CsrFile
    /\ FrontEnd(issued)
    /\ Lsu!Edge(IF Launched(issued) THEN LsuOperation ELSE Lsu!Nothing, accept)
    /\ IF issued /\ fetch_instr.op = "DIV"
       THEN Div!DivStart(Compute("DIV", OperandA, OperandB)) ELSE Div!DivRun
    /\ mem_ack' \in {"NONE"} \cup MemAnswers

IssueInstruction(accept) ==
    CanIssue(accept) /\ ~take_interrupt_q /\ Clock(TRUE, accept)

IssueInterrupt(accept) ==
    CanIssue(accept) /\ take_interrupt_q /\ Clock(TRUE, accept)

IssueNothing(accept) == ~CanIssue(accept) /\ Clock(FALSE, accept)

(***************************************************************************)
(* mem_accept_i matters only while a request is made.  A cache operation   *)
(* with nothing owed is assumed to be taken at once.  The data cache does  *)
(* that, in machine mode and once it has cleared its tags (CacheOpsAtOnce  *)
(* of RiscvDcacheProofs).  tcm_mem may refuse it while the host has its    *)
(* turn, which is left out here; its answer, unlike that of the cache,     *)
(* never comes later than the cycle after.                                 *)
(***************************************************************************)
Accepts ==
    IF Lsu!Requesting /\ (mem_q.op \notin Lsu!CacheOps \/ outst # <<>>)
    THEN BOOLEAN ELSE {TRUE}

Next == \E accept \in Accepts :
            \/ IssueInstruction(accept)
            \/ IssueInterrupt(accept)
            \/ IssueNothing(accept)

Spec == Init /\ [][Next]_vars

-----------------------------------------------------------------------------
(***************************************************************************)
(* The architectural state the pipeline stands for: the registers with     *)
(* what WB is about to write, the CSRs after the exception or write in WB, *)
(* and the address of the oldest instruction that has not reached WB.      *)
(***************************************************************************)
ArchGpr ==
    IF wb.valid /\ wb.exc = "NONE" /\ Dest(wb) # 0
    THEN [gpr EXCEPT ![Dest(wb)] = wb.res] ELSE gpr

ArchPc ==
    CASE wb.exc # "NONE" -> CsrTarget
      [] wb.exc = "NONE" /\ branch_q -> branch_target_q
      [] wb.exc = "NONE" /\ ~branch_q /\ e2.live -> e2.pc
      [] wb.exc = "NONE" /\ ~branch_q /\ ~e2.live /\ e1.live -> e1.pc
      [] OTHER -> fetch_pc

Sim == INSTANCE RiscvIsa WITH
           pc <- ArchPc, gpr <- ArchGpr,
           sr <- CsrAfter.sr, mepc <- CsrAfter.mepc, mcause <- CsrAfter.mcause

Retires == e2.live /\ ~PipeStall

(***************************************************************************)
(* Co-simulation (isa_sim/cosim_api.cpp): whenever an instruction enters   *)
(* WB, the architectural state changes exactly as the simulator changes    *)
(* it for that instruction, and it changes at no other time.  So results   *)
(* are forwarded from the right place, nothing behind a branch, a trap, an *)
(* interrupt or a memory fault has an effect, and nothing is lost or done  *)
(* twice.                                                                  *)
(***************************************************************************)
LockStep ==
    [][IF Retires
       THEN IF e2.intr THEN Sim!Interrupt
                       ELSE Sim!Execute(e2.instr, mem_ack = "ERROR")
       ELSE UNCHANGED Sim!archVars]_vars

-----------------------------------------------------------------------------
(***************************************************************************)
(* Fairness: the clock ticks, whether or not an interrupt comes; the front *)
(* end shows an instruction in the end, the memory port takes a request    *)
(* and answers it in the end.                                              *)
(***************************************************************************)
Tick       == Next /\ mip' = mip
FetchShows == Next /\ ~fetch_valid /\ fetch_valid'
PortTakes  == /\ Lsu!Requesting
              /\ IssueInstruction(TRUE) \/ IssueInterrupt(TRUE) \/ IssueNothing(TRUE)
PortAnswers == Next /\ mem_ack = "NONE" /\ mem_ack' # "NONE"

Fairness == /\ WF_vars(Tick) /\ WF_vars(FetchShows)
            /\ WF_vars(PortTakes) /\ WF_vars(PortAnswers)

FairSpec == Spec /\ Fairness

Stages == [live : BOOLEAN, valid : BOOLEAN, intr : BOOLEAN,
           instr : Instrs \cup {NoInstr}, pc : PCs, res : Values, mul : Values,
           exc : Causes \cup {"MRET", "FENCE"},
           csrWrite : BOOLEAN, csrData : Status]

TypeOK ==
    /\ fetch_valid \in BOOLEAN /\ fetch_pc \in PCs
    /\ fetch_instr \in Instrs \cup {NoInstr}
    /\ e1 \in Stages /\ e2 \in Stages /\ wb \in Stages
    /\ squash_e1_e2_q \in BOOLEAN
    /\ div_pending_q \in BOOLEAN /\ csr_pending_q \in BOOLEAN
    /\ csr_e1 \in [value : Values, write : BOOLEAN, data : Status,
                   exc : Causes \cup {"MRET", "FENCE"}]
    /\ take_interrupt_q \in BOOLEAN
    /\ branch_q \in BOOLEAN /\ branch_target_q \in PCs
    /\ gpr \in [Regs -> Values] /\ gpr[0] = 0
    /\ sr \in Status /\ mepc \in PCs /\ mcause \in Causes /\ mip \in BOOLEAN
    /\ Lsu!TypeOK
    /\ div_busy \in BOOLEAN /\ div_left \in 0 .. DivSteps
    /\ div_answer \in Values /\ div_valid \in BOOLEAN /\ div_value \in Values

(***************************************************************************)
(* The load/store unit and the stages keep step although neither sees the  *)
(* other's state: an answer to a load or store arrives exactly while that  *)
(* instruction is in E2, and never for one that was squashed.              *)
(***************************************************************************)
AnswerMeetsE2 ==
    /\ mem_unaligned_e2_q => Is(e2, MemOps)
    /\ Lsu!Answered =>
          LET op == Head(outst).op
          IN  IF op \in Lsu!CacheOps THEN ~Is(e2, MemOps)
                                     ELSE Is(e2, {op}) /\ e2.valid

(***************************************************************************)
(* What RiscvLsu promises, of the load/store unit in the pipeline.         *)
(***************************************************************************)
FifoInStep         == Lsu!FifoInStep
NothingBehindFault == Lsu!NothingBehindFault

(***************************************************************************)
(* exception_wb_o and csr_write_wb_o are not gated by a stall, so the CSR  *)
(* file would apply a trap again in every cycle WB is held: no stall ever  *)
(* meets a trap or a CSR write in WB, and nothing is in flight behind it.  *)
(***************************************************************************)
TrapsDrain ==
    wb.exc # "NONE" \/ wb.csrWrite => ~PipeStall /\ ~e1.live /\ ~e2.live

(***************************************************************************)
(* The E1 registers of riscv_csr are not held by a stall either: a CSR     *)
(* instruction never waits in E1, or its result and its exception would be *)
(* lost.                                                                   *)
(***************************************************************************)
CsrNeverWaits == Is(e1, CsrOps) => ~PipeStall

(***************************************************************************)
(* The pipeline never locks up: instructions go on reaching WB, whatever   *)
(* faults, flushes, divisions and late answers happen.                     *)
(***************************************************************************)
Progress == []<>Retires
=============================================================================

-------------------------- MODULE RiscvPipeProofs --------------------------
(***************************************************************************)
(* The pipeline keeps its types, the promises of the load/store unit hold  *)
(* inside it, and traps, CSR instructions and stalls never meet in the     *)
(* wrong stages, for every instruction set, register file, word size, trap *)
(* vector and choice of bypasses.                                          *)
(*                                                                         *)
(* The two need each other.  What the load/store unit answers has a type   *)
(* only because an answer never arrives with nothing outstanding, which is *)
(* part of RiscvLsuProofs!Pairing; and the unit keeps Pairing only because *)
(* the pipeline never hands it an operation while it stalls, and hands it  *)
(* operations on addresses and words.  PipeInv is the conjunction.         *)
(*                                                                         *)
(* The unit is instantiated here with the proofs about it (LsuP), and      *)
(* RiscvPipe instantiates it without (Lsu); both mean the same, which is   *)
(* the business of SameEdge, SameStall and SameOperation.                  *)
(*                                                                         *)
(* The last part is about the divide unit behind the pipeline's Div.       *)
(***************************************************************************)
EXTENDS RiscvTelemetry, RiscvDivider, FiniteSetTheorems, TLAPS

LsuP == INSTANCE RiscvLsuProofs

PipeInv == TypeOK /\ LsuP!IInv

StageExc == Causes \cup {"MRET", "FENCE"}
AnyInstr == Instrs \cup {NoInstr}

-----------------------------------------------------------------------------
(***************************************************************************)
(* Words and program counters.                                             *)
(***************************************************************************)
LEMMA Modulo ==
    ASSUME NEW n \in Nat \ {0}, NEW a \in Int
    PROVE  a % n \in 0 .. (n - 1)
OBVIOUS

(***************************************************************************)
(* A quotient is no larger than the dividend: the result of a division is  *)
(* a word.                                                                 *)
(***************************************************************************)
LEMMA Quotient ==
    ASSUME NEW a \in Nat, NEW b \in Nat \ {0}
    PROVE  a \div b \in 0 .. a
<1> DEFINE q == a \div b
           r == a % b
<1>1. q \in Int /\ r \in 0 .. (b - 1) /\ a = b * q + r
  OBVIOUS
<1>2. q >= 0
  OBVIOUS
<1>3. q <= b * q
  <2>1. (b - 1) * q >= 0
    BY <1>1, <1>2
  <2> QED
    BY <2>1, <1>1
<1> QED
  BY <1>1, <1>2, <1>3

(***************************************************************************)
(* Word and NextPc stay among the words and the addresses.                 *)
(***************************************************************************)
LEMMA Words ==
    /\ 0 \in Values
    /\ \A n \in Int : Word(n) \in Values
    /\ \A p \in PCs : NextPc(p) \in PCs
    /\ TrapVector \in PCs /\ 0 \in PCs
<1>1. NumValues \in Nat \ {0} /\ NumPCs \in Nat \ {0} /\ TrapVector \in PCs
  BY IsaAssumption
<1>2. \A n \in Int : Word(n) \in Values
  BY <1>1, Modulo DEF Word, Values
<1>3. \A p \in PCs : NextPc(p) \in PCs
  <2> SUFFICES ASSUME NEW p \in PCs PROVE NextPc(p) \in PCs
    OBVIOUS
  <2>1. p + 1 \in Int
    BY <1>1 DEF PCs
  <2> QED
    BY <1>1, <2>1, Modulo DEF NextPc, PCs
<1> QED
  BY <1>1, <1>2, <1>3 DEF Values, PCs

(***************************************************************************)
(* What an arithmetic instruction computes from two words is a word.       *)
(***************************************************************************)
LEMMA ComputeWord ==
    ASSUME NEW op \in AluOps, NEW a \in Values, NEW b \in Values
    PROVE  Compute(op, a, b) \in Values
<1>1. NumValues \in Nat \ {0} /\ a \in Nat /\ b \in Nat /\ a < NumValues
  BY IsaAssumption DEF Values
<1>2. CASE op = "ALU"
  BY <1>1, <1>2, Words DEF Compute
<1>3. CASE op = "MUL"
  <2>1. a * b \in Int
    BY <1>1
  <2> QED
    BY <2>1, <1>3, Words DEF Compute
<1>4. CASE op = "DIV"
  <2>1. CASE b = 0
    <3>1. -1 \in Int
      OBVIOUS
    <3> QED
      BY <1>4, <2>1, <3>1, Words DEF Compute
  <2>2. CASE b # 0
    <3>1. a \div b \in 0 .. a
      BY <1>1, <2>2, Quotient
    <3>2. a \div b \in Values
      BY <1>1, <3>1 DEF Values
    <3> QED
      BY <1>4, <2>2, <3>2 DEF Compute
  <2> QED
    BY <2>1, <2>2
<1> QED
  BY <1>2, <1>3, <1>4 DEF AluOps

-----------------------------------------------------------------------------
(***************************************************************************)
(* What is shown at issue names registers and an address, also while it is *)
(* nothing.                                                                *)
(***************************************************************************)
LEMMA InstrFields ==
    ASSUME NEW i \in AnyInstr
    PROVE  /\ i.ra \in Regs /\ i.rb \in Regs /\ i.rd \in Regs
           /\ i.target \in PCs
BY IsaAssumption, Words DEF AnyInstr, NoInstr, Instruction

(***************************************************************************)
(* Nothing is a stage like any other.                                      *)
(***************************************************************************)
LEMMA BubbleTyped == Bubble \in Stages
BY Words DEF Bubble, Stages, Idle, Status, Causes

(***************************************************************************)
(* The head of a sequence is one of its elements.                          *)
(***************************************************************************)
LEMMA HeadTyped == ASSUME NEW S, NEW q \in Seq(S), q # <<>> PROVE Head(q) \in S
OBVIOUS

(***************************************************************************)
(* The updates a stage undergoes on its way from E1 to E2 and from E2 to   *)
(* WB leave it a stage.                                                    *)
(***************************************************************************)
LEMMA AdvancedStage ==
    ASSUME NEW s \in Stages, NEW v \in BOOLEAN, NEW r \in Values,
           NEW x \in StageExc, NEW w \in BOOLEAN, NEW d \in Status
    PROVE  [s EXCEPT !.valid = v, !.res = r, !.exc = x,
                     !.csrWrite = w, !.csrData = d] \in Stages
BY DEF Stages, StageExc

LEMMA CommittedStage ==
    ASSUME NEW s \in Stages, NEW v \in BOOLEAN, NEW x \in StageExc,
           NEW m \in Values, NEW r \in Values
    PROVE  [s EXCEPT !.valid = v, !.exc = x, !.mul = m, !.res = r] \in Stages
BY DEF Stages, StageExc

(***************************************************************************)
(* What the load/store unit answers is a word and a cause.  The word may   *)
(* come from memory, at the address of the oldest request: Pairing says    *)
(* that there is one.                                                      *)
(***************************************************************************)
LEMMA UnitAnswers ==
    ASSUME PipeInv
    PROVE  /\ Lsu!WritebackValue \in Values
           /\ Lsu!WritebackException \in Causes
<1>1. Lsu!Resp.addr \in Values
  <2>1. CASE fifo = <<>>
    BY <2>1, Words DEF Lsu!Resp
  <2>2. CASE fifo # <<>>
    <3>1. fifo \in Seq([load : BOOLEAN, addr : Values])
      BY DEF PipeInv, TypeOK, Lsu!TypeOK
    <3>2. Head(fifo) \in [load : BOOLEAN, addr : Values]
      BY <2>2, <3>1, HeadTyped
    <3> QED
      BY <2>2, <3>2 DEF Lsu!Resp
  <2> QED
    BY <2>1, <2>2
<1>2. ASSUME Lsu!Answered PROVE mem[Head(outst).addr] \in Values
  <2>1. outst # <<>>
    BY <1>2 DEF PipeInv, LsuP!IInv, LsuP!Pairing, Lsu!Answered
  <2>2. outst \in Seq(Lsu!Operation) /\ mem \in [Values -> Values]
    BY DEF PipeInv, TypeOK, Lsu!TypeOK
  <2>3. Head(outst) \in Lsu!Operation
    BY <2>1, <2>2
  <2> QED
    BY <2>2, <2>3 DEF Lsu!Operation
<1>3. Lsu!WritebackValue \in Values
  BY <1>1, <1>2, Words DEF Lsu!WritebackValue
<1> QED
  BY <1>3 DEF Lsu!WritebackException, Causes

(***************************************************************************)
(* Whatever stage an operand is forwarded from, it is a word.              *)
(***************************************************************************)
LEMMA Operands ==
    ASSUME PipeInv, NEW r \in Regs
    PROVE  Operand(r) \in Values
<1>1. /\ e1.res \in Values /\ e2.res \in Values
      /\ e2.mul \in Values /\ wb.res \in Values
  BY DEF PipeInv, TypeOK, Stages
<1>2. gpr[r] \in Values
  BY DEF PipeInv, TypeOK
<1>3. MemResult \in Values
  BY UnitAnswers, Words DEF MemResult
<1>4. E2Result \in Values
  BY <1>1, <1>3 DEF E2Result
<1> QED
  BY <1>1, <1>2, <1>4, Words DEF Operand

LEMMA Fetched ==
    ASSUME PipeInv
    PROVE  /\ fetch_instr \in AnyInstr /\ fetch_pc \in PCs
           /\ OperandA \in Values /\ OperandB \in Values
           /\ fetch_instr.target \in PCs
<1>1. fetch_instr \in AnyInstr /\ fetch_pc \in PCs
  BY DEF PipeInv, TypeOK, AnyInstr
<1> QED
  BY <1>1, InstrFields, Operands DEF OperandA, OperandB

-----------------------------------------------------------------------------
(***************************************************************************)
(* One clock edge, one group of registers at a time.                       *)
(***************************************************************************)
LEMMA E1Typed ==
    ASSUME PipeInv, NEW issued \in BOOLEAN, E1Stage(issued)
    PROVE  e1' \in Stages
<1>1. AluResult \in Values
  <2>1. CASE fetch_instr.op = "ALU"
    BY <2>1, Fetched, ComputeWord DEF AluResult, AluOps, JumpOps
  <2>2. CASE fetch_instr.op \in JumpOps
    <3>1. Word(NextPc(fetch_pc)) \in Values
      BY Fetched, Words, IsaAssumption DEF PCs
    <3> QED
      BY <2>2, <3>1 DEF AluResult, JumpOps
  <2>3. CASE fetch_instr.op # "ALU" /\ fetch_instr.op \notin JumpOps
    BY <2>3, Words DEF AluResult
  <2> QED
    BY <2>1, <2>2, <2>3
<1>2. (IF fetch_instr.op = "MUL" THEN Compute("MUL", OperandA, OperandB) ELSE 0)
        \in Values
  BY Fetched, ComputeWord, Words DEF AluOps
<1>3. take_interrupt_q \in BOOLEAN
  BY DEF PipeInv, TypeOK
<1>4. Issued \in Stages
  BY <1>1, <1>2, <1>3, Fetched, BubbleTyped
     DEF Issued, Stages, Causes, AnyInstr
<1> QED
  BY <1>4, BubbleTyped DEF E1Stage, PipeInv, TypeOK

LEMMA E2Typed ==
    ASSUME PipeInv, E2Stage
    PROVE  e2' \in Stages
<1>1. /\ e1 \in Stages /\ e2 \in Stages /\ div_value \in Values
      /\ csr_e1 \in [value : Values, write : BOOLEAN, data : Status,
                     exc : Causes \cup {"MRET", "FENCE"}]
  BY DEF PipeInv, TypeOK
<1>2. Advanced \in Stages
  <2> DEFINE v == e1.valid /\ (e1.intr \/ e1.exc = "NONE")
             r == IF Is(e1, {"DIV"}) THEN div_value
                  ELSE IF Is(e1, CsrOps) THEN csr_e1.value ELSE e1.res
             x == IF e1.intr THEN "INTERRUPT"
                  ELSE IF e1.exc # "NONE" THEN e1.exc ELSE csr_e1.exc
  <2>1. v \in BOOLEAN
    OBVIOUS
  <2>2. r \in Values
    BY <1>1 DEF Stages
  <2>3. x \in StageExc
    BY <1>1 DEF Stages, StageExc, Causes
  <2>4. csr_e1.write \in BOOLEAN /\ csr_e1.data \in Status
    BY <1>1
  <2> HIDE DEF v, r, x
  <2>5. [e1 EXCEPT !.valid = v, !.res = r, !.exc = x,
                   !.csrWrite = csr_e1.write, !.csrData = csr_e1.data]
            \in Stages
    BY <1>1, <2>1, <2>2, <2>3, <2>4, AdvancedStage
  <2> QED
    BY <2>5 DEF Advanced, v, r, x
<1> QED
  BY <1>1, <1>2, BubbleTyped DEF E2Stage

LEMMA WbTyped ==
    ASSUME PipeInv, WbStage
    PROVE  wb' \in Stages
<1>1. e2 \in Stages /\ wb \in Stages
  BY DEF PipeInv, TypeOK
<1>2. E2Exception \in Causes \cup {"MRET", "FENCE"}
  BY <1>1, UnitAnswers DEF E2Exception, Stages
<1>3. MemResult \in Values
  BY UnitAnswers, Words DEF MemResult
<1>4. ASSUME ~PipeStall PROVE wb' \in Stages
  <2> DEFINE v == e2.valid /\ E2Exception \notin MemFaults
             r == IF e2.valid /\ Is(e2, MemOps) THEN MemResult
                  ELSE IF e2.valid /\ Is(e2, {"MUL"}) THEN e2.mul ELSE e2.res
  <2>1. v \in BOOLEAN
    OBVIOUS
  <2>2. r \in Values
    BY <1>1, <1>3 DEF Stages
  <2> HIDE DEF v, r
  <2>3. [e2 EXCEPT !.valid = v, !.exc = E2Exception, !.mul = 0, !.res = r]
            \in Stages
    BY <1>1, <1>2, <2>1, <2>2, Words, CommittedStage DEF StageExc
  <2> QED
    BY <1>4, <2>3 DEF WbStage, v, r
<1> QED
  BY <1>1, <1>4 DEF WbStage

LEMMA RegFileTyped ==
    ASSUME PipeInv, RegFile
    PROVE  gpr' \in [Regs -> Values] /\ gpr'[0] = 0
<1>1. wb.res \in Values /\ wb.instr \in AnyInstr
  BY DEF PipeInv, TypeOK, Stages, AnyInstr
<1>2. WbRd \in Regs
  BY <1>1, InstrFields, IsaAssumption DEF WbRd, Dest
<1> QED
  BY <1>1, <1>2, IsaAssumption DEF RegFile, PipeInv, TypeOK

LEMMA CsrTyped ==
    ASSUME PipeInv, NEW issued \in BOOLEAN, CsrUnit(issued), CsrFile
    PROVE  /\ csr_e1' \in [value : Values, write : BOOLEAN, data : Status,
                           exc : Causes \cup {"MRET", "FENCE"}]
           /\ sr' \in Status /\ mepc' \in PCs /\ mcause' \in Causes
           /\ mip' \in BOOLEAN
           /\ branch_q' \in BOOLEAN /\ branch_target_q' \in PCs
<1>1. /\ wb.pc \in PCs /\ wb.csrData \in Status /\ wb.exc \in StageExc
      /\ sr \in Status /\ mepc \in PCs /\ mcause \in Causes /\ mip \in BOOLEAN
  BY DEF PipeInv, TypeOK, Stages, StageExc
<1>2. csr_e1' \in [value : Values, write : BOOLEAN, data : Status,
                   exc : Causes \cup {"MRET", "FENCE"}]
  <2>1. NoCsr \in [value : Values, write : BOOLEAN, data : Status,
                   exc : Causes \cup {"MRET", "FENCE"}]
    BY Words DEF NoCsr, Idle, Status, Causes
  <2>2. CsrException(fetch_instr.op) \in StageExc
    BY DEF CsrException, StageExc, Causes
  <2>3. ASSUME fetch_instr.op \in {"CSRRS", "CSRRC"}
        PROVE  Written(fetch_instr.op, sr, OperandA) \in Status
    BY <1>1, <2>3 DEF Written, Status
  <2>4. ASSUME fetch_instr.op \in {"CSRRS", "CSRRC"}
        PROVE  Bit(sr.mie) \in Values
    <3>1. fetch_instr \in Instrs
      BY <2>4, Fetched DEF AnyInstr, NoInstr
    <3> QED
      BY <2>4, <3>1, IsaAssumption DEF Bit, Values
  <2> QED
    BY <2>1, <2>2, <2>3, <2>4 DEF CsrUnit, CsrResult, StageExc, Causes
<1>3. CsrTarget \in PCs
  BY <1>1, Words DEF CsrTarget
<1>4. /\ CsrAfter.sr \in Status /\ CsrAfter.mepc \in PCs
      /\ CsrAfter.mcause \in Causes
  BY <1>1 DEF CsrAfter, Status, Traps, Causes
<1> QED
  BY <1>1, <1>2, <1>3, <1>4, Words, PipeAssumption DEF CsrFile

LEMMA FrontTyped ==
    ASSUME PipeInv, NEW issued \in BOOLEAN, FrontEnd(issued)
    PROVE  /\ fetch_valid' \in BOOLEAN /\ fetch_pc' \in PCs
           /\ fetch_instr' \in AnyInstr
<1> DEFINE accept == ~OpcodeValid \/ Launched(issued)
           branch == branch_q \/ BranchRequest(issued)
           target == IF branch_q THEN branch_target_q ELSE fetch_instr.target
<1>1. Front!FrontEdge(accept, branch, target)
  BY DEF FrontEnd
<1>2. /\ fetch_valid \in BOOLEAN /\ fetch_pc \in PCs
      /\ fetch_instr \in AnyInstr
      /\ target \in PCs
  BY Fetched DEF PipeInv, TypeOK, AnyInstr
<1>3. Front!Following(fetch_pc) \in PCs
  BY <1>2, Words DEF Front!Following, NextPc
<1> HIDE DEF accept, branch, target
<1>4. ASSUME NEW at \in PCs, Front!Show(at)
      PROVE  /\ fetch_valid' \in BOOLEAN /\ fetch_pc' \in PCs
             /\ fetch_instr' \in AnyInstr
  BY <1>4 DEF Front!Show, AnyInstr
<1> QED
  BY <1>1, <1>2, <1>3, <1>4
     DEF Front!FrontEdge, Front!Redirect, Front!frontVars, AnyInstr

LEMMA FlagsTyped ==
    ASSUME PipeInv, NEW issued \in BOOLEAN,
           SquashCopy, Pending(issued), InterruptLaunch
    PROVE  /\ squash_e1_e2_q' \in BOOLEAN
           /\ div_pending_q' \in BOOLEAN /\ csr_pending_q' \in BOOLEAN
           /\ take_interrupt_q' \in BOOLEAN
<1>1. squash_e1_e2_q' \in BOOLEAN
  BY DEF SquashCopy, PipeInv, TypeOK
<1>2. div_pending_q' \in BOOLEAN /\ csr_pending_q' \in BOOLEAN
  BY DEF Pending
<1>3. take_interrupt_q' \in BOOLEAN
  BY DEF InterruptLaunch, InterruptPending
<1> QED
  BY <1>1, <1>2, <1>3

LEMMA DivTyped ==
    ASSUME PipeInv,
           \/ \E result \in Values : Div!DivStart(result)
           \/ Div!DivRun
    PROVE  /\ div_busy' \in BOOLEAN /\ div_left' \in 0 .. DivSteps
           /\ div_answer' \in Values /\ div_valid' \in BOOLEAN
           /\ div_value' \in Values
<1>1. /\ div_busy \in BOOLEAN /\ div_left \in 0 .. DivSteps
      /\ div_answer \in Values /\ div_value \in Values
  BY DEF PipeInv, TypeOK
<1>2. Div!DivAnswer /\ div_answer' \in Values
  BY <1>1 DEF Div!DivStart, Div!DivRun
<1>3. div_valid' \in BOOLEAN /\ div_value' \in Values
  BY <1>1, <1>2 DEF Div!DivAnswer, Div!DivComplete
<1>4. div_busy' \in BOOLEAN
  BY DEF Div!DivStart, Div!DivRun
<1>5. div_left' \in 0 .. DivSteps
  BY <1>1, PipeAssumption DEF Div!DivStart, Div!DivRun
<1> QED
  BY <1>2, <1>3, <1>4, <1>5

-----------------------------------------------------------------------------
(***************************************************************************)
(* The load/store unit and its proofs speak of the same unit.              *)
(***************************************************************************)
LEMMA SameEdge ==
    ASSUME NEW d, NEW a, Lsu!Edge(d, a) PROVE LsuP!Edge(d, a)
BY DEF Lsu!Edge, Lsu!RequestRegister, Lsu!Tracking, Lsu!Fifo, Lsu!Port,
       Lsu!Requesting, Lsu!Delay, Lsu!Answered, Lsu!Unaligned, Lsu!Push,
       Lsu!Pop, Lsu!Tag, Lsu!Nothing, Lsu!Aligned, Lsu!Misaligned,
       Lsu!CacheOps, Lsu!Loads, Lsu!FifoDepth,
       LsuP!Edge, LsuP!RequestRegister, LsuP!Tracking, LsuP!Fifo, LsuP!Port,
       LsuP!Requesting, LsuP!Delay, LsuP!Answered, LsuP!Unaligned, LsuP!Push,
       LsuP!Pop, LsuP!Tag, LsuP!Nothing, LsuP!Aligned, LsuP!Misaligned,
       LsuP!CacheOps, LsuP!Loads, LsuP!FifoDepth

LEMMA SameStall == ASSUME NEW a PROVE Lsu!Stall(a) = LsuP!Stall(a)
BY DEF Lsu!Stall, Lsu!Requesting, Lsu!Delay, Lsu!Unaligned, Lsu!Aligned,
       Lsu!Misaligned, Lsu!CacheOps,
       LsuP!Stall, LsuP!Requesting, LsuP!Delay, LsuP!Unaligned, LsuP!Aligned,
       LsuP!Misaligned, LsuP!CacheOps

LEMMA SameOperation ==
    /\ Lsu!Operation = LsuP!Operation
    /\ Lsu!Nothing = LsuP!Nothing
BY DEF Lsu!Operation, Lsu!LsuOps, Lsu!Aligned, Lsu!Misaligned, Lsu!CacheOps,
       Lsu!Nothing,
       LsuP!Operation, LsuP!LsuOps, LsuP!Aligned, LsuP!Misaligned,
       LsuP!CacheOps, LsuP!Nothing

(***************************************************************************)
(* Its invariant gives its type and its promises, here and in the next     *)
(* state.                                                                  *)
(***************************************************************************)
LEMMA LsuPromises ==
    LsuP!IInv => Lsu!TypeOK /\ Lsu!FifoInStep /\ Lsu!NothingBehindFault
<1> SUFFICES ASSUME LsuP!IInv
             PROVE  Lsu!TypeOK /\ Lsu!FifoInStep /\ Lsu!NothingBehindFault
  OBVIOUS
<1>1. LsuP!TypeOK /\ LsuP!FifoInStep /\ LsuP!NothingBehindFault
  BY LsuP!Shape, LsuP!Masked
<1>2. Lsu!TypeOK
  BY <1>1, SameOperation
     DEF Lsu!TypeOK, LsuP!TypeOK, Lsu!FifoDepth, LsuP!FifoDepth
<1>3. Lsu!FifoInStep
  BY <1>1 DEF Lsu!FifoInStep, LsuP!FifoInStep, Lsu!Tag, LsuP!Tag, Lsu!Loads,
              LsuP!Loads
<1>4. Lsu!NothingBehindFault
  BY <1>1 DEF Lsu!NothingBehindFault, LsuP!NothingBehindFault, Lsu!Requesting,
              LsuP!Requesting, Lsu!Delay, LsuP!Delay, Lsu!Aligned,
              LsuP!Aligned, Lsu!CacheOps, LsuP!CacheOps
<1> QED
  BY <1>2, <1>3, <1>4

LEMMA LsuTypedNext == LsuP!IInv' => Lsu!TypeOK'
<1>1. LsuP!IInv => Lsu!TypeOK
  BY LsuPromises
<1> QED
  BY <1>1, PTL

(***************************************************************************)
(* A clock edge of the pipeline is one of the load/store unit: what issue  *)
(* hands over is an operation, and it is handed over only in a cycle in    *)
(* which the unit does not stall.                                          *)
(***************************************************************************)
LEMMA LsuStep ==
    ASSUME PipeInv, NEW issued \in BOOLEAN, NEW accept \in BOOLEAN,
           issued => CanIssue(accept),
           Lsu!Edge(IF Launched(issued) THEN LsuOperation ELSE Lsu!Nothing,
                    accept)
    PROVE  LsuP!IInv'
<1> DEFINE decoded == IF Launched(issued) THEN LsuOperation ELSE Lsu!Nothing
<1>1. LsuOperation \in Lsu!Operation \cup {Lsu!Nothing}
  BY Fetched, Words DEF LsuOperation, Lsu!Operation
<1>2. LsuP!Decoded(decoded, accept)
  BY <1>1, SameStall, SameOperation DEF LsuP!Decoded, Launched, CanIssue
<1> HIDE DEF decoded
<1>3. LsuP!Edge(decoded, accept)
  BY SameEdge DEF decoded
<1> QED
  BY <1>2, <1>3, LsuP!EdgeRegisters, LsuP!EdgePairing DEF PipeInv, LsuP!IInv

-----------------------------------------------------------------------------
(***************************************************************************)
(* Reset establishes the invariant, and a clock edge preserves it.         *)
(***************************************************************************)
LEMMA InitInv == Init => PipeInv
<1> SUFFICES ASSUME Init PROVE PipeInv
  OBVIOUS
<1>1. LsuP!IInv
  <2>1. LsuP!Init
    BY SameOperation DEF Init, Lsu!Init, LsuP!Init
  <2> QED
    BY <2>1, LsuP!InitIInv
<1>2. Lsu!TypeOK
  BY <1>1, LsuPromises
<1>3. e1 \in Stages /\ e2 \in Stages /\ wb \in Stages
  BY BubbleTyped DEF Init
<1>4. csr_e1 \in [value : Values, write : BOOLEAN, data : Status,
                  exc : Causes \cup {"MRET", "FENCE"}]
  BY Words DEF Init, NoCsr, Idle, Status, Causes
<1>5. gpr \in [Regs -> Values] /\ gpr[0] = 0
  BY Words, IsaAssumption DEF Init
<1>6. /\ fetch_valid \in BOOLEAN /\ fetch_pc \in PCs
      /\ fetch_instr \in Instrs \cup {NoInstr}
      /\ squash_e1_e2_q \in BOOLEAN
      /\ div_pending_q \in BOOLEAN /\ csr_pending_q \in BOOLEAN
      /\ take_interrupt_q \in BOOLEAN
      /\ branch_q \in BOOLEAN /\ branch_target_q \in PCs
  BY Words DEF Init
<1>7. sr \in Status /\ mepc \in PCs /\ mcause \in Causes /\ mip \in BOOLEAN
  BY Words DEF Init, Idle, Status, Causes
<1>8. /\ div_busy \in BOOLEAN /\ div_left \in 0 .. DivSteps
      /\ div_answer \in Values /\ div_valid \in BOOLEAN /\ div_value \in Values
  <2>1. 0 \in Values /\ 0 \in 0 .. DivSteps
    BY Words, PipeAssumption
  <2>2. Div!DivInit
    BY DEF Init
  <2> QED
    BY <2>1, <2>2 DEF Div!DivInit
<1> QED
  BY <1>1, <1>2, <1>3, <1>4, <1>5, <1>6, <1>7, <1>8 DEF PipeInv, TypeOK

LEMMA ClockInv ==
    ASSUME PipeInv, NEW issued \in BOOLEAN, NEW accept \in BOOLEAN,
           issued => CanIssue(accept), Clock(issued, accept)
    PROVE  PipeInv'
<1>1. LsuP!IInv'
  BY LsuStep DEF Clock
<1>2. Lsu!TypeOK'
  BY <1>1, LsuTypedNext
<1>3. e1' \in Stages /\ e2' \in Stages /\ wb' \in Stages
  BY E1Typed, E2Typed, WbTyped DEF Clock
<1>4. gpr' \in [Regs -> Values] /\ gpr'[0] = 0
  BY RegFileTyped DEF Clock
<1>5. /\ csr_e1' \in [value : Values, write : BOOLEAN, data : Status,
                       exc : Causes \cup {"MRET", "FENCE"}]
      /\ sr' \in Status /\ mepc' \in PCs /\ mcause' \in Causes
      /\ mip' \in BOOLEAN /\ branch_q' \in BOOLEAN /\ branch_target_q' \in PCs
  BY CsrTyped DEF Clock
<1>6. /\ fetch_valid' \in BOOLEAN /\ fetch_pc' \in PCs
      /\ fetch_instr' \in AnyInstr
  BY FrontTyped DEF Clock
<1>7. /\ squash_e1_e2_q' \in BOOLEAN
      /\ div_pending_q' \in BOOLEAN /\ csr_pending_q' \in BOOLEAN
      /\ take_interrupt_q' \in BOOLEAN
  BY FlagsTyped DEF Clock
<1>8. /\ div_busy' \in BOOLEAN /\ div_left' \in 0 .. DivSteps
      /\ div_answer' \in Values /\ div_valid' \in BOOLEAN
      /\ div_value' \in Values
  <2>1. Compute("DIV", OperandA, OperandB) \in Values
    BY Fetched, ComputeWord DEF AluOps
  <2> QED
    BY <2>1, DivTyped DEF Clock
<1> QED
  BY <1>1, <1>2, <1>3, <1>4, <1>5, <1>6, <1>7, <1>8
     DEF PipeInv, TypeOK, AnyInstr

LEMMA StepInv == PipeInv /\ [Next]_vars => PipeInv'
<1> SUFFICES ASSUME PipeInv, [Next]_vars PROVE PipeInv'
  OBVIOUS
<1>1. CASE Next
  <2>1. PICK accept \in Accepts :
            \/ IssueInstruction(accept)
            \/ IssueInterrupt(accept)
            \/ IssueNothing(accept)
    BY <1>1 DEF Next
  <2>2. accept \in BOOLEAN
    BY DEF Accepts
  <2>3. PICK issued \in BOOLEAN :
            (issued => CanIssue(accept)) /\ Clock(issued, accept)
    BY <2>1 DEF IssueInstruction, IssueInterrupt, IssueNothing
  <2> QED
    BY <2>2, <2>3, ClockInv
<1>2. CASE UNCHANGED vars
  BY <1>2 DEF PipeInv, TypeOK, Lsu!TypeOK, LsuP!IInv, LsuP!Registers,
              LsuP!Pairing, LsuP!NoneOwed, LsuP!DummyOwed, LsuP!OneOwed,
              vars, frontVars, pipeVars, csrVars, lsuVars, divVars
<1> QED
  BY <1>1, <1>2

(***************************************************************************)
(* Every register holds what it can hold: no answer of the memory port and *)
(* no forwarded operand leaves its type.                                   *)
(***************************************************************************)
THEOREM TypeCorrectness == Spec => []TypeOK
<1>1. Init => PipeInv
  BY InitInv
<1>2. PipeInv /\ [Next]_vars => PipeInv'
  BY StepInv
<1>3. PipeInv => TypeOK
  BY DEF PipeInv
<1> QED
  BY <1>1, <1>2, <1>3, PTL DEF Spec

(***************************************************************************)
(* In the pipeline, every answer of the memory port meets the tag of its   *)
(* own operation in the fifo of riscv_lsu.                                 *)
(***************************************************************************)
THEOREM LsuInPipe == Spec => []FifoInStep
<1>1. Init => PipeInv
  BY InitInv
<1>2. PipeInv /\ [Next]_vars => PipeInv'
  BY StepInv
<1>3. PipeInv => FifoInStep
  BY LsuPromises DEF PipeInv, FifoInStep
<1> QED
  BY <1>1, <1>2, <1>3, PTL DEF Spec

(***************************************************************************)
(* No load or store behind a faulting one is requested, although riscv_lsu *)
(* has no squash input.                                                    *)
(***************************************************************************)
THEOREM FaultsMask == Spec => []NothingBehindFault
<1>1. Init => PipeInv
  BY InitInv
<1>2. PipeInv /\ [Next]_vars => PipeInv'
  BY StepInv
<1>3. PipeInv => NothingBehindFault
  BY LsuPromises DEF PipeInv, NothingBehindFault
<1> QED
  BY <1>1, <1>2, <1>3, PTL DEF Spec

-----------------------------------------------------------------------------
(***************************************************************************)
(* Traps, CSR instructions and stalls never meet in the wrong stages, for  *)
(* every instruction set, every choice of bypasses and every behaviour of  *)
(* the front end, the memory port and the interrupt.                       *)
(*                                                                         *)
(* TrapsDrain and CsrNeverWaits are not inductive: why nothing is in       *)
(* flight behind a trap or a CSR write is decided when the instruction is  *)
(* issued, three edges before it is in WB.  Control says what each stage   *)
(* may hold on the way there.                                              *)
(***************************************************************************)

InE1 == Is(e1, MemOps)
InE2 == Is(e2, MemOps)

\* A stage that is not live is empty.  What the front end reports is all
\* that is wrong with an instruction in E1.
Shapes ==
    /\ e1.valid <=> e1.live
    /\ e1.intr => e1.live
    /\ e1.exc = IF e1.live /\ e1.instr.op = "FETCH_FAULT"
                THEN "FETCH_FAULT" ELSE "NONE"
    /\ e2.valid => e2.live
    /\ ~e2.live => e2.exc = "NONE" /\ ~e2.csrWrite
    /\ ~wb.live => wb.exc = "NONE" /\ ~wb.csrWrite

\* The CSR unit's registers belong to the CSR instruction in E1.
CsrInE1 ==
    IF Is(e1, CsrOps)
    THEN /\ csr_e1.exc = CsrException(e1.instr.op)
         /\ csr_e1.write => e1.instr.op \in {"CSRRS", "CSRRC"}
    ELSE csr_e1.exc = "NONE" /\ ~csr_e1.write

\* The exception an instruction has when it comes to E2.
ExceptionOf(s) ==
    IF s.intr THEN "INTERRUPT"
    ELSE IF s.instr.op = "FETCH_FAULT" THEN "FETCH_FAULT"
    ELSE CsrException(s.instr.op)

Exceptions ==
    /\ e2.live => e2.exc = ExceptionOf(e2)
    /\ e2.live => (e2.valid <=> e2.intr \/ e2.instr.op # "FETCH_FAULT")
    /\ e2.csrWrite => Is(e2, CsrOps)
    /\ wb.csrWrite => Is(wb, CsrOps)

\* A CSR instruction is alone from issue to WB, a trap from WB to the branch.
Alone ==
    /\ Is(e1, CsrOps) => csr_pending_q /\ ~InE2
    /\ Is(e2, CsrOps) => csr_pending_q /\ ~e1.live
    /\ Is(wb, CsrOps) => ~e1.live /\ ~e2.live
    /\ Is(wb, CsrOps) /\ wb.exc = "NONE" => csr_pending_q
    /\ wb.exc # "NONE" => ~e1.live /\ ~e2.live
    /\ squash_e1_e2_q <=> wb.exc # "NONE"
    /\ branch_q => ~e1.live /\ ~e2.live
    /\ csr_pending_q /\ e1.live => Is(e1, CsrOps)

Control == Shapes /\ CsrInE1 /\ Exceptions /\ Alone

ControlInv == PipeInv /\ Control

-----------------------------------------------------------------------------
(***************************************************************************)
(* One clock edge, seen from the stages.                                   *)
(***************************************************************************)
Cycle(issued, accept) ==
    /\ issued => CanIssue(accept)
    /\ Clock(issued, accept)

LEMMA Held ==
    ASSUME NEW issued \in BOOLEAN, NEW accept \in BOOLEAN,
           Cycle(issued, accept), PipeStall
    PROVE  /\ ~issued
           /\ e1' = e1 /\ e2' = e2 /\ wb' = wb
           /\ squash_e1_e2_q' = squash_e1_e2_q
BY DEF Cycle, CanIssue, Clock, E1Stage, E2Stage, WbStage, SquashCopy

LEMMA E1Next ==
    ASSUME PipeInv, NEW issued \in BOOLEAN, NEW accept \in BOOLEAN,
           Cycle(issued, accept), ~PipeStall
    PROVE  /\ e1'.live = issued /\ e1'.valid = issued
           /\ e1'.intr = (issued /\ take_interrupt_q)
           /\ e1'.instr = IF issued THEN fetch_instr ELSE NoInstr
           /\ e1'.exc = IF issued /\ fetch_instr.op = "FETCH_FAULT"
                        THEN "FETCH_FAULT" ELSE "NONE"
<1>1. take_interrupt_q \in BOOLEAN
  BY DEF PipeInv, TypeOK
<1>2. CASE issued
  BY <1>1, <1>2 DEF Cycle, Clock, E1Stage, Issued, Bubble
<1>3. CASE ~issued
  BY <1>1, <1>3 DEF Cycle, Clock, E1Stage, Bubble
<1> QED
  BY <1>2, <1>3

LEMMA E2Next ==
    ASSUME PipeInv, NEW issued \in BOOLEAN, NEW accept \in BOOLEAN,
           Cycle(issued, accept), ~PipeStall
    PROVE  /\ Squash => e2' = Bubble /\ ~e2'.live
           /\ ~Squash =>
                /\ e2'.live = e1.live /\ e2'.intr = e1.intr
                /\ e2'.instr = e1.instr
                /\ e2'.valid = (e1.valid /\ (e1.intr \/ e1.exc = "NONE"))
                /\ e2'.exc = IF e1.intr THEN "INTERRUPT"
                             ELSE IF e1.exc # "NONE" THEN e1.exc ELSE csr_e1.exc
                /\ e2'.csrWrite = csr_e1.write
<1>1. e1 \in Stages
  BY DEF PipeInv, TypeOK
<1>2. Squash => e2' = Bubble
  BY DEF Cycle, Clock, E2Stage
<1>3. ~Bubble.live
  BY DEF Bubble
<1> QED
  BY <1>1, <1>2, <1>3 DEF Cycle, Clock, E2Stage, Advanced, Stages

LEMMA WbNext ==
    ASSUME PipeInv, NEW issued \in BOOLEAN, NEW accept \in BOOLEAN,
           Cycle(issued, accept), ~PipeStall
    PROVE  /\ wb'.live = e2.live /\ wb'.intr = e2.intr /\ wb'.instr = e2.instr
           /\ wb'.valid = (e2.valid /\ E2Exception \notin MemFaults)
           /\ wb'.exc = E2Exception /\ wb'.csrWrite = e2.csrWrite
           /\ squash_e1_e2_q' = (E2Exception # "NONE")
<1>1. e2 \in Stages
  BY DEF PipeInv, TypeOK
<1> QED
  BY <1>1 DEF Cycle, Clock, WbStage, SquashCopy, Stages

LEMMA IssueWhen ==
    ASSUME NEW accept \in BOOLEAN, CanIssue(accept)
    PROVE  /\ ~PipeStall /\ ~Squash /\ ~branch_q
           /\ ~div_pending_q /\ ~csr_pending_q /\ fetch_valid
           /\ ~Lsu!Stall(accept)
BY DEF CanIssue, OpcodeValid

\* Ops of different kinds are different.
LEMMA Kinds ==
    /\ MemOps \cap CsrOps = {} /\ "DIV" \notin MemOps /\ "DIV" \notin CsrOps
    /\ "FETCH_FAULT" \in CsrOps /\ "NONE" \notin CsrOps \cup MemOps
    /\ \A op : CsrException(op) # "NONE" => op \in CsrOps
    /\ \A op \in {"CSRRS", "CSRRC"} : CsrException(op) = "NONE" /\ op \in CsrOps
BY DEF MemOps, LoadOps, StoreOps, CsrOps, CsrException

\* The scoreboard refuses a CSR instruction behind a load or store in E1.
LEMMA NotBehindMemory ==
    ASSUME PipeInv, NEW accept \in BOOLEAN, CanIssue(accept),
           fetch_instr.op \in {"MUL", "DIV"} \cup CsrOps
    PROVE  ~InE1
<1> SUFFICES ASSUME InE1 PROVE FALSE
  OBVIOUS
<1>1. Scoreboard = Regs
  BY DEF Scoreboard, InE1
<1>2. fetch_instr.ra \in Regs
  BY Fetched, InstrFields
<1> QED
  BY <1>1, <1>2 DEF CanIssue

-----------------------------------------------------------------------------
(***************************************************************************)
(* What a CSR instruction in E1, and a trap or a CSR write in WB, mean for *)
(* the stages around them: the two properties.                             *)
(***************************************************************************)
LEMMA CsrMoves == ControlInv => CsrNeverWaits
BY Kinds DEF ControlInv, Control, Alone, CsrNeverWaits, PipeStall, InE2, Is

LEMMA TrapAlone == ControlInv => TrapsDrain
BY DEF ControlInv, Control, Exceptions, Alone, TrapsDrain, PipeStall, Is

LEMMA InitControl == Init => ControlInv
<1> SUFFICES ASSUME Init PROVE ControlInv
  OBVIOUS
<1>1. PipeInv
  BY InitInv
<1>2. Control
  BY DEF Init, Control, Shapes, CsrInE1, Exceptions, Alone, Is, Bubble, NoCsr
<1> QED
  BY <1>1, <1>2 DEF ControlInv

(***************************************************************************)
(* The parts of Control, one clock edge later.                             *)
(***************************************************************************)
LEMMA ShapesNext ==
    ASSUME ControlInv, NEW issued \in BOOLEAN, NEW accept \in BOOLEAN,
           Cycle(issued, accept)
    PROVE  Shapes'
<1>1. CASE PipeStall
  BY <1>1, Held DEF Shapes, ControlInv, Control
<1>2. CASE ~PipeStall
  <2>1. PipeInv /\ Shapes /\ CsrInE1 /\ Exceptions
    BY DEF ControlInv, Control
  <2>2. ~e1.live => ~e1.valid /\ e1.exc = "NONE" /\ ~e1.intr
    BY <2>1 DEF Shapes
  <2>3. ~e1.live => csr_e1.exc = "NONE" /\ ~csr_e1.write
    BY <2>1 DEF CsrInE1, Is
  <2>4. /\ e1'.valid <=> e1'.live
        /\ e1'.intr => e1'.live
        /\ e1'.exc = IF e1'.live /\ e1'.instr.op = "FETCH_FAULT"
                     THEN "FETCH_FAULT" ELSE "NONE"
    BY <1>2, <2>1, E1Next
  <2>5. /\ e2'.valid => e2'.live
        /\ ~e2'.live => e2'.exc = "NONE" /\ ~e2'.csrWrite
    <3>1. CASE Squash
      BY <1>2, <2>1, <3>1, E2Next DEF Bubble
    <3>2. CASE ~Squash
      BY <1>2, <2>1, <2>2, <2>3, <3>2, E2Next DEF Shapes
    <3> QED
      BY <3>1, <3>2
  <2>6. ~wb'.live => wb'.exc = "NONE" /\ ~wb'.csrWrite
    BY <1>2, <2>1, WbNext DEF E2Exception, Is, Shapes
  <2> QED
    BY <2>4, <2>5, <2>6 DEF Shapes
<1> QED
  BY <1>1, <1>2

LEMMA CsrInE1Next ==
    ASSUME ControlInv, NEW issued \in BOOLEAN, NEW accept \in BOOLEAN,
           Cycle(issued, accept)
    PROVE  CsrInE1'
<1>1. csr_e1' = IF Launched(issued) THEN CsrResult(fetch_instr.op, OperandA)
                ELSE NoCsr
  BY DEF Cycle, Clock, CsrUnit
<1>2. CASE PipeStall
  <2>1. ~issued /\ e1' = e1
    BY <1>2, Held
  <2>2. ~Is(e1, CsrOps)
    BY <1>2, CsrMoves DEF CsrNeverWaits
  <2>3. ~Is(e1, CsrOps)'
    BY <2>1, <2>2 DEF Is
  <2>4. csr_e1' = NoCsr
    BY <1>1, <2>1 DEF Launched
  <2> QED
    BY <2>3, <2>4 DEF CsrInE1, NoCsr
<1>3. CASE ~PipeStall /\ ~Launched(issued)
  <2>1. ~Is(e1, CsrOps)'
    BY <1>3, E1Next DEF Is, Launched, ControlInv
  <2> QED
    BY <1>1, <1>3, <2>1 DEF CsrInE1, NoCsr
<1>4. CASE ~PipeStall /\ Launched(issued)
  <2>1. e1'.live /\ ~e1'.intr /\ e1'.instr = fetch_instr
    BY <1>4, E1Next DEF Launched, ControlInv
  <2>2. csr_e1' = CsrResult(fetch_instr.op, OperandA)
    BY <1>1, <1>4
  <2>3. CASE fetch_instr.op \in {"CSRRS", "CSRRC"}
    <3>1. csr_e1'.exc = "NONE" /\ csr_e1'.write = TRUE
      BY <2>2, <2>3 DEF CsrResult
    <3> QED
      BY <2>1, <2>3, <3>1, Kinds DEF CsrInE1, Is
  <2>4. CASE fetch_instr.op \notin {"CSRRS", "CSRRC"}
    <3>1. csr_e1'.exc = CsrException(fetch_instr.op) /\ csr_e1'.write = FALSE
      BY <2>2, <2>4 DEF CsrResult, NoCsr
    <3> QED
      BY <2>1, <3>1, Kinds DEF CsrInE1, Is
  <2> QED
    BY <2>3, <2>4
<1> QED
  BY <1>2, <1>3, <1>4

LEMMA ExceptionsNext ==
    ASSUME ControlInv, NEW issued \in BOOLEAN, NEW accept \in BOOLEAN,
           Cycle(issued, accept)
    PROVE  Exceptions'
<1>1. CASE PipeStall
  BY <1>1, Held DEF Exceptions, ExceptionOf, Is, ControlInv, Control
<1>2. CASE ~PipeStall
  <2>1. PipeInv /\ Shapes /\ CsrInE1 /\ Exceptions
    BY DEF ControlInv, Control
  <2>2. wb'.csrWrite => Is(wb, CsrOps)'
    BY <1>2, <2>1, WbNext DEF Exceptions, Is
  <2>3. CASE Squash
    BY <1>2, <2>1, <2>2, <2>3, E2Next DEF Exceptions, Bubble
  <2>4. CASE ~Squash
    <3>1. /\ e2'.live = e1.live /\ e2'.intr = e1.intr /\ e2'.instr = e1.instr
          /\ e2'.valid = (e1.valid /\ (e1.intr \/ e1.exc = "NONE"))
          /\ e2'.exc = IF e1.intr THEN "INTERRUPT"
                       ELSE IF e1.exc # "NONE" THEN e1.exc ELSE csr_e1.exc
          /\ e2'.csrWrite = csr_e1.write
      BY <1>2, <2>1, <2>4, E2Next
    <3>2. ASSUME e1.live
          PROVE  /\ e2'.exc = ExceptionOf(e1)
                 /\ e2'.valid <=> e1.intr \/ e1.instr.op # "FETCH_FAULT"
      <4>1. /\ e1.exc = IF e1.instr.op = "FETCH_FAULT" THEN "FETCH_FAULT"
                        ELSE "NONE"
            /\ e1.valid
        BY <2>1, <3>2 DEF Shapes
      <4>2. ~e1.intr => csr_e1.exc = CsrException(e1.instr.op)
        BY <2>1, <3>2, Kinds DEF CsrInE1, Is
      <4> QED
        BY <3>1, <4>1, <4>2 DEF ExceptionOf
    <3>3. csr_e1.write => Is(e1, CsrOps)
      BY <2>1 DEF CsrInE1
    <3> QED
      BY <2>2, <3>1, <3>2, <3>3 DEF Exceptions, ExceptionOf, Is
  <2> QED
    BY <2>3, <2>4
<1> QED
  BY <1>1, <1>2

(***************************************************************************)
(* A stall needs an instruction other than a CSR one in E1 or E2.          *)
(***************************************************************************)
LEMMA StallKeeps ==
    ASSUME ControlInv, PipeStall
    PROVE  /\ ~Is(e1, CsrOps) /\ ~Is(e2, CsrOps) /\ ~Is(wb, CsrOps)
           /\ wb.exc = "NONE" /\ ~branch_q
<1>1. e1.live \/ e2.live
  BY DEF PipeStall, Is
<1>2. ~Is(e1, CsrOps) /\ wb.exc = "NONE" /\ ~Is(wb, CsrOps) /\ ~branch_q
  BY <1>1, CsrMoves DEF CsrNeverWaits, ControlInv, Control, Alone
<1>3. ~Is(e2, CsrOps)
  BY Kinds DEF PipeStall, ControlInv, Control, Alone, Is
<1> QED
  BY <1>2, <1>3

(***************************************************************************)
(* csr_pending_q, as Pending sets it.                                      *)
(***************************************************************************)
LEMMA PendingNext ==
    ASSUME NEW issued \in BOOLEAN, NEW accept \in BOOLEAN,
           Cycle(issued, accept)
    PROVE  csr_pending_q' =
               (/\ ~Squash
                /\ \/ Launched(issued) /\ fetch_instr.op \in CsrOps
                   \/ csr_pending_q /\ ~CsrWb)
BY DEF Cycle, Clock, Pending

LEMMA AloneNext ==
    ASSUME ControlInv, NEW issued \in BOOLEAN, NEW accept \in BOOLEAN,
           Cycle(issued, accept)
    PROVE  Alone'
<1> USE DEF ControlInv, Control
<1>1. issued => /\ ~PipeStall /\ ~Squash /\ ~branch_q /\ ~csr_pending_q
                /\ CanIssue(accept)
  BY IssueWhen DEF Cycle
<1>2. branch_q' = (wb.exc # "NONE")
  BY DEF Cycle, Clock, CsrFile
<1>3. take_interrupt_q \in BOOLEAN /\ csr_pending_q \in BOOLEAN
  BY DEF PipeInv, TypeOK
<1>4. CASE PipeStall
  <2>1. e1' = e1 /\ e2' = e2 /\ wb' = wb /\ squash_e1_e2_q' = squash_e1_e2_q
    BY <1>4, Held
  <2>2. ~issued /\ ~branch_q'
    BY <1>1, <1>2, <1>4, StallKeeps
  <2>3. csr_pending_q' => csr_pending_q
    BY <2>2, PendingNext DEF Launched
  <2> QED
    BY <1>4, <2>1, <2>2, <2>3, StallKeeps DEF Alone, Is, InE2
<1>5. CASE ~PipeStall
  <2>1. Is(e1, CsrOps)' => csr_pending_q' /\ ~InE2'
    <3> SUFFICES ASSUME Is(e1, CsrOps)' PROVE csr_pending_q' /\ ~InE2'
      OBVIOUS
    <3>1. issued /\ ~take_interrupt_q /\ fetch_instr.op \in CsrOps
      BY <1>3, <1>5, E1Next, Kinds DEF Is
    <3>2. csr_pending_q'
      BY <1>1, <3>1, PendingNext DEF Launched
    <3>3. ~InE1
      BY <1>1, <3>1, NotBehindMemory
    <3>4. e2'.live = e1.live /\ e2'.intr = e1.intr /\ e2'.instr = e1.instr
      BY <1>1, <1>5, <3>1, E2Next
    <3> QED
      BY <3>2, <3>3, <3>4 DEF InE1, InE2, Is
  <2>2. Is(e2, CsrOps)' => csr_pending_q' /\ ~e1'.live
    <3> SUFFICES ASSUME Is(e2, CsrOps)' PROVE csr_pending_q' /\ ~e1'.live
      OBVIOUS
    <3>1. ~Squash
      BY <1>5, E2Next DEF Is
    <3>2. Is(e1, CsrOps)
      BY <1>5, <3>1, E2Next DEF Is
    <3>3. csr_pending_q /\ ~CsrWb
      BY <3>2 DEF Alone, CsrWb, Is
    <3> QED
      BY <1>1, <1>5, <3>1, <3>3, E1Next, PendingNext
  <2>3. Is(wb, CsrOps)' => ~e1'.live /\ ~e2'.live
    <3> SUFFICES ASSUME Is(wb, CsrOps)' PROVE ~e1'.live /\ ~e2'.live
      OBVIOUS
    <3>1. Is(e2, CsrOps)
      BY <1>5, WbNext DEF Is
    <3>2. csr_pending_q /\ ~e1.live
      BY <3>1 DEF Alone
    <3>3. ~e2'.live
      BY <1>5, <3>2, E2Next
    <3> QED
      BY <1>1, <1>5, <3>2, <3>3, E1Next
  <2>4. Is(wb, CsrOps)' /\ wb'.exc = "NONE" => csr_pending_q'
    <3> SUFFICES ASSUME Is(wb, CsrOps)', wb'.exc = "NONE" PROVE csr_pending_q'
      OBVIOUS
    <3>1. Is(e2, CsrOps) /\ E2Exception = "NONE"
      BY <1>5, WbNext DEF Is
    <3>2. csr_pending_q /\ ~squash_e1_e2_q /\ ~CsrWb
      BY <3>1 DEF Alone, CsrWb, Is
    <3> QED
      BY <3>1, <3>2, PendingNext DEF Squash
  <2>5. /\ wb'.exc # "NONE" => ~e1'.live /\ ~e2'.live
        /\ squash_e1_e2_q' <=> wb'.exc # "NONE"
    <3>1. E2Exception # "NONE" => ~issued /\ ~e2'.live
      BY <1>1, <1>5, E2Next DEF Squash
    <3> QED
      BY <1>5, <3>1, E1Next, WbNext
  <2>6. branch_q' => ~e1'.live /\ ~e2'.live
    <3> SUFFICES ASSUME wb.exc # "NONE" PROVE ~e1'.live /\ ~e2'.live
      BY <1>2
    <3>1. Squash
      BY DEF Alone, Squash
    <3> QED
      BY <1>1, <1>5, <3>1, E1Next, E2Next
  <2>7. csr_pending_q' /\ e1'.live => Is(e1, CsrOps)'
    <3> SUFFICES ASSUME csr_pending_q', e1'.live PROVE Is(e1, CsrOps)'
      OBVIOUS
    <3>1. issued
      BY <1>5, E1Next
    <3>2. Launched(issued) /\ fetch_instr.op \in CsrOps
      BY <1>1, <3>1, PendingNext
    <3> QED
      BY <1>3, <1>5, <3>1, <3>2, E1Next DEF Launched, Is
  <2> QED
    BY <2>1, <2>2, <2>3, <2>4, <2>5, <2>6, <2>7 DEF Alone
<1> QED
  BY <1>4, <1>5

(***************************************************************************)
(* Every step of the pipeline is a cycle in which issue does one thing.    *)
(***************************************************************************)
LEMMA Cycles ==
    ASSUME Next
    PROVE  \E issued \in BOOLEAN, accept \in Accepts : Cycle(issued, accept)
<1>1. PICK accept \in Accepts :
          \/ IssueInstruction(accept)
          \/ IssueInterrupt(accept)
          \/ IssueNothing(accept)
  BY DEF Next
<1> QED
  BY <1>1 DEF IssueInstruction, IssueInterrupt, IssueNothing, Cycle

LEMMA StepControl == ControlInv /\ [Next]_vars => ControlInv'
<1> SUFFICES ASSUME ControlInv, [Next]_vars PROVE ControlInv'
  OBVIOUS
<1>1. PipeInv'
  BY StepInv DEF ControlInv
<1>2. CASE Next
  <2>1. PICK issued \in BOOLEAN, accept \in Accepts : Cycle(issued, accept)
    BY <1>2, Cycles
  <2>2. accept \in BOOLEAN
    BY DEF Accepts
  <2>3. Shapes' /\ CsrInE1' /\ Exceptions' /\ Alone'
    BY <2>1, <2>2, ShapesNext, CsrInE1Next, ExceptionsNext, AloneNext
  <2> QED
    BY <1>1, <2>3 DEF ControlInv, Control
<1>3. CASE UNCHANGED vars
  BY <1>1, <1>3 DEF ControlInv, Control, Shapes, CsrInE1, Exceptions,
                    ExceptionOf, Alone, Is, InE2, vars, pipeVars, csrVars
<1> QED
  BY <1>2, <1>3

(***************************************************************************)
(* exception_wb_o and csr_write_wb_o are not gated by a stall: no stall    *)
(* ever meets a trap or a CSR write in WB, and nothing is in flight behind *)
(* it.                                                                     *)
(***************************************************************************)
THEOREM TrapsPrecise == Spec => []TrapsDrain
<1>1. Init => ControlInv
  BY InitControl
<1>2. ControlInv /\ [Next]_vars => ControlInv'
  BY StepControl
<1>3. ControlInv => TrapsDrain
  BY TrapAlone
<1> QED
  BY <1>1, <1>2, <1>3, PTL DEF Spec

(***************************************************************************)
(* The E1 registers of riscv_csr are not held by a stall: a CSR            *)
(* instruction never waits in E1.                                          *)
(***************************************************************************)
THEOREM CsrResultsKept == Spec => []CsrNeverWaits
<1>1. Init => ControlInv
  BY InitControl
<1>2. ControlInv /\ [Next]_vars => ControlInv'
  BY StepControl
<1>3. ControlInv => CsrNeverWaits
  BY CsrMoves
<1> QED
  BY <1>1, <1>2, <1>3, PTL DEF Spec

-----------------------------------------------------------------------------
(***************************************************************************)
(* Answers of the memory port.  They reach the instruction they are for    *)
(* only if no load or store is issued behind an interrupt, which squashes  *)
(* it but not its request.  What keeps one from being issued is that       *)
(* take_interrupt_q stays up while the interrupt waits in E1; it falls     *)
(* there only if nothing is shown at issue, after a branch in whose place  *)
(* the interrupt came, and the instruction bus happens to hold a CSR       *)
(* instruction.  StaysUp says that it does not.                            *)
(***************************************************************************)
StaysUp ==
    e1.intr /\ ~fetch_valid /\ InterruptPending /\ ~csr_pending_q
        => take_interrupt_q'

\* An interrupt in E1 is followed by an interrupt or a CSR instruction.
Waiting ==
    /\ take_interrupt_q /\ ~branch_q => InterruptPending
    /\ e1.intr =>
          /\ InterruptPending /\ ~csr_pending_q
          /\ take_interrupt_q \/ (fetch_valid /\ fetch_instr.op \in CsrOps)
    /\ e2.exc # "NONE" => ~InE1

\* What the answer due is for; the dummy answer is not counted.
DueOp == IF outst = <<>> THEN "NONE" ELSE Head(outst).op

DueToE2 ==
    IF e2.instr.op \in Lsu!Aligned
    THEN DueOp = e2.instr.op /\ ~mem_unaligned_e2_q
    ELSE /\ mem_unaligned_e2_q
         /\ Head(fifo).load <=> e2.instr.op = "LOAD_MISALIGNED"

\* The loads and stores in E1 and E2 are those the load/store unit works on.
Links ==
    /\ InE1 => mem_q.op = e1.instr.op
    /\ InE1 /\ ~InE2 => DueOp = "NONE" /\ ~mem_unaligned_e2_q
    /\ InE1 /\ InE2 => DueToE2
    /\ ~InE1 /\ InE2 =>
          \/ /\ mem_q.op = e2.instr.op /\ mem_q.op \in Lsu!Aligned
             /\ DueOp = "NONE" /\ ~mem_unaligned_e2_q
          \/ mem_q.op = "NONE" /\ DueToE2
    /\ ~InE1 /\ ~InE2 =>
          /\ mem_q.op \notin Lsu!Aligned \cup Lsu!Misaligned
          /\ ~mem_unaligned_e2_q
          /\ DueOp # "NONE" => DueOp \in Lsu!CacheOps /\ mem_q.op = "NONE"
    /\ mem_q.op \in Lsu!CacheOps => csr_pending_q /\ DueOp = "NONE"
    /\ Is(e1, {"DIV"}) => ~InE2

LinkInv == ControlInv /\ Waiting /\ Links

-----------------------------------------------------------------------------
(***************************************************************************)
(* An interrupt that is due stays due while an instruction is in flight:   *)
(* the registers that decide it change behind a trap or a CSR instruction. *)
(***************************************************************************)
LEMMA StatusKept ==
    ASSUME ControlInv, NEW issued \in BOOLEAN, NEW accept \in BOOLEAN,
           Cycle(issued, accept), wb.exc = "NONE", ~csr_pending_q,
           InterruptPending
    PROVE  InterruptPending'
<1>1. ~wb.csrWrite
  BY DEF ControlInv, Control, Exceptions, Alone
<1>2. CsrAfter.sr = sr
  BY <1>1 DEF CsrAfter, Traps
<1>3. sr' = sr /\ mip' \in {mip} \cup Raised
  BY <1>2 DEF Cycle, Clock, CsrFile
<1> QED
  BY <1>3, PipeAssumption DEF InterruptPending

(***************************************************************************)
(* What is shown at issue stays while it is neither accepted nor           *)
(* redirected.                                                             *)
(***************************************************************************)
LEMMA ShownStays ==
    ASSUME NEW issued \in BOOLEAN, NEW accept \in BOOLEAN,
           Cycle(issued, accept), fetch_valid, ~Squash, ~branch_q,
           ~Launched(issued), fetch_instr.op \in CsrOps
    PROVE  fetch_valid' = fetch_valid /\ fetch_instr' = fetch_instr
<1>1. ~BranchRequest(issued)
  BY DEF BranchRequest, Taken, CsrOps
<1>2. OpcodeValid
  BY DEF OpcodeValid
<1> QED
  BY <1>1, <1>2 DEF Cycle, Clock, FrontEnd, Front!FrontEdge, Front!frontVars

LEMMA LaunchNext ==
    ASSUME NEW issued \in BOOLEAN, NEW accept \in BOOLEAN,
           Cycle(issued, accept)
    PROVE  /\ take_interrupt_q' => InterruptPending /\ ~csr_pending_q
           /\ fetch_valid => (take_interrupt_q' <=>
                  /\ InterruptPending /\ ~csr_pending_q
                  /\ fetch_instr.op \notin CsrOps)
BY DEF Cycle, Clock, InterruptLaunch, InterruptPending

LEMMA WaitingNext ==
    ASSUME ControlInv, Waiting, StaysUp,
           NEW issued \in BOOLEAN, NEW accept \in BOOLEAN,
           Cycle(issued, accept)
    PROVE  Waiting'
<1>1. issued => /\ ~PipeStall /\ ~Squash /\ ~branch_q /\ ~csr_pending_q
                /\ fetch_valid
  BY IssueWhen DEF Cycle
<1>2. /\ take_interrupt_q \in BOOLEAN /\ csr_pending_q \in BOOLEAN
      /\ branch_q \in BOOLEAN /\ fetch_valid \in BOOLEAN
  BY DEF ControlInv, PipeInv, TypeOK
<1>3. /\ wb.exc # "NONE" <=> squash_e1_e2_q
      /\ csr_pending_q /\ e1.live => Is(e1, CsrOps)
  BY DEF ControlInv, Control, Alone
<1>4. take_interrupt_q' /\ ~branch_q' => InterruptPending'
  <2>1. branch_q' = (wb.exc # "NONE")
    BY DEF Cycle, Clock, CsrFile
  <2> QED
    BY <2>1, LaunchNext, StatusKept
<1>5. e1'.intr => /\ InterruptPending' /\ ~csr_pending_q'
                  /\ \/ take_interrupt_q'
                     \/ fetch_valid' /\ fetch_instr'.op \in CsrOps
  <2> SUFFICES ASSUME e1'.intr
               PROVE  /\ InterruptPending' /\ ~csr_pending_q'
                      /\ \/ take_interrupt_q'
                         \/ fetch_valid' /\ fetch_instr'.op \in CsrOps
    OBVIOUS
  <2>1. /\ InterruptPending /\ ~csr_pending_q /\ wb.exc = "NONE"
        /\ ~Squash /\ ~branch_q /\ ~Launched(issued)
        /\ ~fetch_valid => take_interrupt_q'
    <3>1. CASE PipeStall
      <4>1. e1.intr /\ ~issued
        BY <3>1, Held
      <4>2. wb.exc = "NONE" /\ ~branch_q
        BY <3>1, StallKeeps
      <4>3. InE2 /\ ~Lsu!WritebackValid
        BY <3>1, <4>1 DEF PipeStall, Is, InE2
      <4>4. e2.exc = "NONE"
        BY <4>3, Kinds DEF ControlInv, Control, Exceptions, ExceptionOf,
                           InE2, Is
      <4>5. ~Squash
        BY <1>3, <4>2, <4>3, <4>4 DEF Squash, E2Exception
      <4> QED
        BY <4>1, <4>2, <4>5 DEF Waiting, StaysUp, Launched
    <3>2. CASE ~PipeStall
      <4>1. issued /\ take_interrupt_q
        BY <1>2, <3>2, E1Next DEF ControlInv
      <4> QED
        BY <1>1, <1>3, <4>1 DEF Waiting, Launched, Squash
    <3> QED
      BY <3>1, <3>2
  <2>2. InterruptPending'
    BY <2>1, StatusKept
  <2>3. ~csr_pending_q'
    BY <2>1, PendingNext
  <2>4. CASE fetch_valid /\ fetch_instr.op \in CsrOps
    BY <2>1, <2>2, <2>3, <2>4, ShownStays
  <2>5. CASE ~(fetch_valid /\ fetch_instr.op \in CsrOps)
    BY <2>1, <2>2, <2>3, <2>5, LaunchNext
  <2> QED
    BY <2>4, <2>5
<1>6. e2'.exc # "NONE" => ~InE1'
  <2>1. CASE PipeStall
    BY <2>1, Held DEF Waiting, InE1, Is
  <2>2. CASE ~PipeStall
    <3> SUFFICES ASSUME e2'.exc # "NONE", InE1' PROVE FALSE
      OBVIOUS
    <3>1. /\ issued /\ ~take_interrupt_q /\ fetch_instr.op \in MemOps
      BY <1>2, <2>2, E1Next, Kinds DEF ControlInv, InE1, Is
    <3>2. /\ e2'.exc = IF e1.intr THEN "INTERRUPT"
                       ELSE IF e1.exc # "NONE" THEN e1.exc ELSE csr_e1.exc
      BY <1>1, <2>2, <3>1, E2Next DEF ControlInv
    <3>3. ~e1.intr
      BY <3>1, Kinds DEF Waiting
    <3>4. ~Is(e1, CsrOps)
      BY <1>1, <3>1 DEF ControlInv, Control, Alone
    <3>5. e1.exc = "NONE" /\ csr_e1.exc = "NONE"
      BY <3>3, <3>4, Kinds DEF ControlInv, Control, Shapes, CsrInE1, Is
    <3> QED
      BY <3>2, <3>3, <3>5
  <2> QED
    BY <2>1, <2>2
<1> QED
  BY <1>4, <1>5, <1>6 DEF Waiting

-----------------------------------------------------------------------------
(***************************************************************************)
(* The load/store unit, in terms of what is due and what waits in E1.      *)
(***************************************************************************)
OpKinds == Lsu!LsuOps \cup {"NONE"}

LEMMA LsuKinds ==
    /\ MemOps = Lsu!Aligned \cup Lsu!Misaligned
    /\ Lsu!Aligned \cap Lsu!Misaligned = {} /\ MemOps \cap Lsu!CacheOps = {}
    /\ "NONE" \notin MemOps \cup Lsu!CacheOps
    /\ CsrOps \cap Lsu!LsuOps \subseteq Lsu!CacheOps
    /\ Lsu!CacheOps \cap Ops \subseteq CsrOps
    /\ Lsu!LsuOps = MemOps \cup Lsu!CacheOps
    /\ Lsu!Nothing.op = "NONE"
BY DEF MemOps, LoadOps, StoreOps, CsrOps, Ops, AluOps, JumpOps, Lsu!Aligned,
       Lsu!Misaligned, Lsu!CacheOps, Lsu!LsuOps, Lsu!Nothing

LEMMA DueNow ==
    ASSUME PipeInv
    PROVE  /\ mem_q.op \in OpKinds /\ DueOp \in OpKinds
           /\ mem_q.op = "NONE" => mem_q = Lsu!Nothing
           /\ DueOp = "NONE" <=> outst = <<>>
           /\ pending_lsu_e2_q <=> DueOp # "NONE"
           /\ mem_ack # "NONE" => DueOp # "NONE"
           /\ mem_unaligned_e2_q => DueOp = "NONE" /\ mem_q.op = "NONE"
           /\ Len(outst) <= 1
           /\ mem_ack \in {"NONE", "OK", "ERROR"}
           /\ mem_unaligned_e2_q \in BOOLEAN /\ pending_lsu_e2_q \in BOOLEAN
<1> USE DEF PipeInv, LsuP!IInv, LsuP!Registers, LsuP!Pairing
<1>1. mem_q \in Lsu!Operation \cup {Lsu!Nothing}
  BY SameOperation
<1>2. mem_q.op \in OpKinds /\ (mem_q.op = "NONE" => mem_q = Lsu!Nothing)
  BY <1>1, LsuKinds DEF OpKinds, Lsu!Operation
<1>3. CASE outst = <<>>
  <2>1. DueOp = "NONE" /\ DueOp \in OpKinds /\ Len(outst) <= 1
    BY <1>3 DEF DueOp, OpKinds
  <2>2. mem_unaligned_e2_q => mem_q = Lsu!Nothing
    BY <1>3, SameOperation
       DEF LsuP!NoneOwed, LsuP!DummyOwed, LsuP!OneOwed
  <2> QED
    BY <1>2, <1>3, <2>1, <2>2, LsuKinds
<1>4. CASE outst # <<>>
  <2>1. LsuP!OneOwed
    BY <1>4 DEF LsuP!NoneOwed, LsuP!DummyOwed
  <2>2. PICK o \in Lsu!Operation : outst = <<o>>
    BY <2>1, SameOperation DEF LsuP!OneOwed
  <2>3. DueOp = o.op /\ Len(outst) = 1
    BY <2>2 DEF DueOp
  <2>4. o.op \in Lsu!LsuOps
    BY DEF Lsu!Operation
  <2>5. DueOp # "NONE" /\ DueOp \in OpKinds
    BY <2>3, <2>4, LsuKinds DEF OpKinds
  <2>6. ~mem_unaligned_e2_q
    BY <2>1 DEF LsuP!OneOwed
  <2> QED
    BY <1>2, <1>4, <2>3, <2>5, <2>6
<1> QED
  BY <1>3, <1>4

\* The operation issue hands to the unit in this cycle.
Decoded(issued) == IF Launched(issued) THEN LsuOperation ELSE Lsu!Nothing

Takes(accept) == Lsu!Requesting /\ accept
Noted         == Lsu!Unaligned /\ ~Lsu!Delay

\* What the port owes: a request only when all before it is answered.
LEMMA OwedNext ==
    ASSUME PipeInv, NEW issued \in BOOLEAN, NEW accept \in BOOLEAN,
           Cycle(issued, accept)
    PROVE  outst' = IF Takes(accept) THEN <<mem_q>>
                    ELSE IF Lsu!Answered THEN <<>> ELSE outst
<1>1. LsuP!Edge(Decoded(issued), accept)
  BY SameEdge DEF Cycle, Clock, Decoded
<1>2. LsuP!IInv
  BY DEF PipeInv
<1>3. /\ LsuP!Asks(accept) <=> Takes(accept)
      /\ LsuP!Answered <=> Lsu!Answered
  BY DEF LsuP!Asks, Takes, LsuP!Requesting, Lsu!Requesting, LsuP!Delay,
         Lsu!Delay, LsuP!Answered, Lsu!Answered, LsuP!Aligned, Lsu!Aligned,
         LsuP!CacheOps, Lsu!CacheOps
<1>4. outst' = IF LsuP!Asks(accept) THEN Append(LsuP!left, mem_q) ELSE LsuP!left
  BY <1>1 DEF LsuP!Edge, LsuP!Port, LsuP!Asks, LsuP!left
<1>5. CASE Takes(accept)
  <2>1. LsuP!AllAnswered
    BY <1>1, <1>2, <1>3, <1>5, LsuP!WhatAsks DEF LsuP!Edge
  <2>2. outst' = Append(<<>>, mem_q)
    BY <1>3, <1>4, <1>5, <2>1 DEF LsuP!AllAnswered
  <2> QED
    BY <1>5, <2>2
<1>6. CASE ~Takes(accept) /\ Lsu!Answered
  <2>1. LsuP!AllAnswered
    BY <1>2, <1>3, <1>6, LsuP!LeftAndKept DEF LsuP!StillOwed
  <2> QED
    BY <1>3, <1>4, <1>6, <2>1 DEF LsuP!AllAnswered
<1>7. CASE ~Takes(accept) /\ ~Lsu!Answered
  BY <1>3, <1>4, <1>7 DEF LsuP!left
<1> QED
  BY <1>5, <1>6, <1>7

LEMMA DueNext ==
    ASSUME PipeInv, NEW issued \in BOOLEAN, NEW accept \in BOOLEAN,
           Cycle(issued, accept)
    PROVE  /\ mem_q' = IF mem_ack = "ERROR" \/ mem_unaligned_e2_q
                       THEN Lsu!Nothing
                       ELSE IF \/ mem_q.op \in MemOps /\ Lsu!Delay
                               \/ Lsu!Requesting /\ ~accept
                            THEN mem_q ELSE Decoded(issued)
           /\ mem_unaligned_e2_q' = Noted
           /\ DueOp' = IF Takes(accept) THEN mem_q.op
                       ELSE IF Lsu!Answered THEN "NONE" ELSE DueOp
           /\ Noted => Head(fifo').load = (mem_q.op = "LOAD_MISALIGNED")
<1>1. LsuP!Edge(Decoded(issued), accept)
  BY SameEdge DEF Cycle, Clock, Decoded
<1>2. LsuP!IInv
  BY DEF PipeInv
<1>3. mem_q' = IF mem_ack = "ERROR" \/ mem_unaligned_e2_q
               THEN Lsu!Nothing
               ELSE IF \/ mem_q.op \in MemOps /\ Lsu!Delay
                       \/ Lsu!Requesting /\ ~accept
                    THEN mem_q ELSE Decoded(issued)
  BY LsuKinds DEF Cycle, Clock, Decoded, Lsu!Edge, Lsu!RequestRegister
<1>4. mem_unaligned_e2_q' = Noted
  BY DEF Cycle, Clock, Lsu!Edge, Lsu!Tracking, Noted
<1>5. /\ LsuP!Asks(accept) <=> Takes(accept)
      /\ LsuP!Dummy <=> Noted
  BY DEF LsuP!Asks, Takes, LsuP!Requesting, Lsu!Requesting, LsuP!Dummy, Noted,
         LsuP!Unaligned, Lsu!Unaligned, LsuP!Delay, Lsu!Delay, LsuP!Aligned,
         Lsu!Aligned, LsuP!Misaligned, Lsu!Misaligned, LsuP!CacheOps,
         Lsu!CacheOps
<1>6. fifo' = IF (LsuP!Asks(accept) \/ LsuP!Dummy) /\ Len(fifo) < LsuP!FifoDepth
              THEN Append(LsuP!kept, LsuP!Tag(mem_q)) ELSE LsuP!kept
  BY <1>1 DEF LsuP!Edge, LsuP!Fifo, LsuP!Asks, LsuP!Dummy, LsuP!kept,
              LsuP!Push
<1>7. DueOp' = IF Takes(accept) THEN mem_q.op
               ELSE IF Lsu!Answered THEN "NONE" ELSE DueOp
  <2>1. outst' = IF Takes(accept) THEN <<mem_q>>
                 ELSE IF Lsu!Answered THEN <<>> ELSE outst
    BY OwedNext
  <2>2. <<mem_q>> # <<>> /\ Head(<<mem_q>>) = mem_q
    OBVIOUS
  <2> QED
    BY <2>1, <2>2 DEF DueOp
<1>8. Noted => Head(fifo').load = (mem_q.op = "LOAD_MISALIGNED")
  <2> SUFFICES ASSUME Noted
               PROVE  Head(fifo').load = (mem_q.op = "LOAD_MISALIGNED")
    OBVIOUS
  <2>1. LsuP!AllAnswered
    BY <1>2, <1>5, LsuP!WhatIsDummy
  <2>2. Len(fifo) < LsuP!FifoDepth
    <3>1. Lsu!FifoInStep
      BY <1>2, LsuPromises
    <3>2. ~mem_unaligned_e2_q
      BY <1>2, <1>5, LsuP!WhatIsDummy
    <3>3. Len(outst) <= 1 /\ Len(outst) \in Nat
      BY DueNow DEF PipeInv, TypeOK, Lsu!TypeOK
    <3> QED
      BY <3>1, <3>2, <3>3 DEF Lsu!FifoInStep, LsuP!FifoDepth
  <2>3. fifo' = Append(<<>>, LsuP!Tag(mem_q))
    BY <1>5, <1>6, <2>1, <2>2 DEF LsuP!AllAnswered
  <2>4. Head(fifo') = LsuP!Tag(mem_q)
    BY <2>3
  <2>5. mem_q.op \in {"LOAD_MISALIGNED", "STORE_MISALIGNED"}
    BY DEF Noted, Lsu!Unaligned, Lsu!Misaligned
  <2> QED
    BY <2>4, <2>5 DEF LsuP!Tag, LsuP!Loads
<1> QED
  BY <1>3, <1>4, <1>7, <1>8

-----------------------------------------------------------------------------
(***************************************************************************)
(* The wires of the unit, in the same terms.                               *)
(***************************************************************************)
LEMMA WiresNow ==
    ASSUME PipeInv
    PROVE  /\ Lsu!Delay <=> DueOp # "NONE" /\ mem_ack # "OK"
           /\ Lsu!Requesting <=> \/ mem_q.op \in Lsu!CacheOps
                                 \/ mem_q.op \in Lsu!Aligned /\ ~Lsu!Delay
           /\ Lsu!Unaligned <=> mem_q.op \in Lsu!Misaligned
           /\ Lsu!Answered <=> mem_ack # "NONE"
           /\ Lsu!WritebackValid <=> mem_ack # "NONE" \/ mem_unaligned_e2_q
           /\ Lsu!WritebackException # "NONE"
                 <=> mem_ack = "ERROR" \/ mem_unaligned_e2_q
BY DueNow DEF Lsu!Delay, Lsu!Requesting, Lsu!Unaligned, Lsu!Answered,
              Lsu!WritebackValid, Lsu!WritebackException

\* A cache that owes no answer takes a cache operation at once.
LEMMA CacheTaken ==
    ASSUME PipeInv, Links, NEW accept \in Accepts, mem_q.op \in Lsu!CacheOps
    PROVE  Takes(accept) /\ accept
BY DueNow DEF Accepts, Takes, Links, Lsu!Requesting

(***************************************************************************)
(* What issue hands to the unit is what enters E1.                         *)
(***************************************************************************)
LEMMA DecodedOp ==
    ASSUME LinkInv, NEW issued \in BOOLEAN, NEW accept \in BOOLEAN,
           Cycle(issued, accept)
    PROVE  /\ ~issued => Decoded(issued).op = "NONE"
           /\ Decoded(issued).op \in OpKinds
           /\ ~PipeStall =>
                 /\ InE1' <=> Decoded(issued).op \in MemOps
                 /\ InE1' => e1'.instr.op = Decoded(issued).op
           /\ Decoded(issued).op \in Lsu!CacheOps => csr_pending_q' /\ ~InE1
           /\ Decoded(issued).op # "NONE" =>
                 /\ issued /\ ~csr_pending_q /\ ~Lsu!Stall(accept)
                 /\ ~PipeStall
           /\ Is(e1, {"DIV"})' /\ ~PipeStall => ~InE1
<1> USE DEF LinkInv, ControlInv
<1>1. issued => /\ CanIssue(accept) /\ ~PipeStall /\ ~Squash /\ ~csr_pending_q
                /\ ~Lsu!Stall(accept)
  BY IssueWhen DEF Cycle
<1>2. take_interrupt_q \in BOOLEAN
  BY DEF PipeInv, TypeOK
<1>3. Decoded(issued).op =
          IF issued /\ ~take_interrupt_q /\ fetch_instr.op \in Lsu!LsuOps
          THEN fetch_instr.op ELSE "NONE"
  BY <1>2, LsuKinds DEF Decoded, Launched, LsuOperation
<1>4. ASSUME ~PipeStall
      PROVE  /\ InE1' <=> Decoded(issued).op \in MemOps
             /\ InE1' => e1'.instr.op = Decoded(issued).op
  BY <1>2, <1>3, <1>4, E1Next, LsuKinds DEF InE1, Is
<1>5. ASSUME Decoded(issued).op \in Lsu!CacheOps
      PROVE  csr_pending_q' /\ ~InE1
  <2>1. /\ issued /\ ~take_interrupt_q
        /\ fetch_instr.op \in Lsu!CacheOps /\ fetch_instr.op # "NONE"
    BY <1>3, <1>5, LsuKinds
  <2>2. fetch_instr \in Instrs
    BY <2>1, Fetched DEF AnyInstr, NoInstr
  <2>3. fetch_instr.op \in CsrOps
    BY <2>1, <2>2, IsaAssumption, LsuKinds DEF Instruction
  <2> QED
    BY <1>1, <2>1, <2>3, PendingNext, NotBehindMemory DEF Launched
<1>6. ASSUME Is(e1, {"DIV"})', ~PipeStall PROVE ~InE1
  <2>1. issued /\ fetch_instr.op = "DIV"
    BY <1>6, E1Next DEF Is, NoInstr
  <2> QED
    BY <1>1, <2>1, NotBehindMemory
<1> QED
  BY <1>1, <1>3, <1>4, <1>5, <1>6, LsuKinds DEF OpKinds

(***************************************************************************)
(* Links, one clock edge later: while the stages are held, when they are   *)
(* squashed, and when they move on.                                        *)
(***************************************************************************)
LEMMA LinksHeld ==
    ASSUME LinkInv, NEW issued \in BOOLEAN, NEW accept \in Accepts,
           Cycle(issued, accept), PipeStall
    PROVE  Links'
<1> USE DEF LinkInv, ControlInv
<1>1. accept \in BOOLEAN
  BY DEF Accepts
<1>2. /\ ~issued /\ Decoded(issued).op = "NONE"
      /\ InE1' = InE1 /\ InE2' = InE2
      /\ e1'.instr.op = e1.instr.op /\ e2'.instr.op = e2.instr.op
      /\ Is(e1, {"DIV"})' = Is(e1, {"DIV"})
  BY <1>1, Held, DecodedOp DEF InE1, InE2, Is
<1>3. CASE InE2
  <2>1. mem_ack = "NONE" /\ ~mem_unaligned_e2_q
    BY <1>3, WiresNow DEF PipeStall, Links, InE2
  <2>2. CASE InE1
    <3>1. DueOp = e2.instr.op /\ e2.instr.op \in Lsu!Aligned
      BY <1>3, <2>1, <2>2 DEF Links, DueToE2
    <3>2. Lsu!Delay /\ ~Lsu!Requesting /\ mem_q.op = e1.instr.op
      BY <2>1, <2>2, <3>1, WiresNow, LsuKinds DEF Links, InE1, Is
    <3>3. mem_q' = mem_q /\ ~mem_unaligned_e2_q' /\ DueOp' = DueOp
      BY <1>1, <2>1, <2>2, <3>2, WiresNow, DueNext
         DEF Takes, Noted, InE1, Is
    <3> QED
      BY <1>2, <1>3, <2>2, <3>1, <3>2, <3>3, LsuKinds
         DEF Links, DueToE2, InE1, Is
  <2>3. CASE ~InE1 /\ mem_q.op # "NONE"
    <3>1. /\ mem_q.op = e2.instr.op /\ mem_q.op \in Lsu!Aligned
          /\ DueOp = "NONE"
      BY <1>3, <2>3 DEF Links
    <3>2. ~Lsu!Delay /\ Lsu!Requesting /\ ~Lsu!Unaligned
      BY <3>1, WiresNow, LsuKinds
    <3>3. CASE accept
      <4>1. mem_q'.op = "NONE" /\ DueOp' = mem_q.op /\ ~mem_unaligned_e2_q'
        BY <1>1, <1>2, <2>1, <3>2, <3>3, DueNext DEF Takes, Noted
      <4> QED
        BY <1>2, <1>3, <2>3, <3>1, <4>1, LsuKinds DEF Links, DueToE2
    <3>4. CASE ~accept
      <4>1. mem_q' = mem_q /\ DueOp' = DueOp /\ ~mem_unaligned_e2_q'
        BY <1>1, <2>1, <3>2, <3>4, WiresNow, DueNext DEF Takes, Noted
      <4> QED
        BY <1>2, <1>3, <2>3, <3>1, <4>1, LsuKinds DEF Links
    <3> QED
      BY <1>1, <3>3, <3>4
  <2>4. CASE ~InE1 /\ mem_q.op = "NONE"
    <3>1. DueOp = e2.instr.op /\ e2.instr.op \in Lsu!Aligned
      BY <1>3, <2>1, <2>4, LsuKinds DEF Links, DueToE2
    <3>2. ~Lsu!Requesting /\ ~Lsu!Unaligned /\ ~Lsu!Answered
      BY <2>1, <2>4, WiresNow, LsuKinds
    <3>3. mem_q'.op = "NONE" /\ DueOp' = DueOp /\ ~mem_unaligned_e2_q'
      BY <1>1, <1>2, <2>1, <2>4, <3>2, LsuKinds, DueNext DEF Takes, Noted
    <3> QED
      BY <1>2, <1>3, <2>4, <3>1, <3>3, LsuKinds DEF Links, DueToE2
  <2> QED
    BY <2>2, <2>3, <2>4
<1>4. CASE ~InE2
  <2>1. Is(e1, {"DIV"}) /\ ~InE1
    BY <1>4, Kinds DEF PipeStall, InE1, InE2, Is
  <2>2. ~csr_pending_q
    BY <2>1, Kinds DEF Control, Alone, Is
  <2>3. mem_q.op = "NONE" /\ (DueOp # "NONE" => DueOp \in Lsu!CacheOps)
    BY <1>4, <2>1, <2>2, DueNow, LsuKinds DEF Links, OpKinds
  <2>4. ~Lsu!Requesting /\ ~Lsu!Unaligned
    BY <2>3, WiresNow, LsuKinds
  <2>5. /\ mem_q'.op = "NONE" /\ ~mem_unaligned_e2_q'
        /\ DueOp' # "NONE" => DueOp' \in Lsu!CacheOps
    BY <1>1, <1>2, <2>3, <2>4, LsuKinds, DueNext DEF Takes, Noted
  <2> QED
    BY <1>2, <1>4, <2>1, <2>5, LsuKinds DEF Links
<1> QED
  BY <1>3, <1>4

LEMMA LinksSquashed ==
    ASSUME LinkInv, NEW issued \in BOOLEAN, NEW accept \in Accepts,
           Cycle(issued, accept), ~PipeStall, Squash
    PROVE  Links'
<1> USE DEF LinkInv, ControlInv
<1>1. accept \in BOOLEAN
  BY DEF Accepts
<1>2. ~issued /\ Decoded(issued).op = "NONE"
  BY <1>1, IssueWhen, DecodedOp DEF Cycle
<1>3. ~InE1' /\ ~InE2' /\ ~Is(e1, {"DIV"})'
  BY <1>1, <1>2, E1Next, E2Next DEF InE1, InE2, Is
<1>4. CASE ~InE1 /\ ~InE2
  <2>1. /\ ~mem_unaligned_e2_q /\ mem_q.op \in Lsu!CacheOps \cup {"NONE"}
        /\ DueOp # "NONE" => DueOp \in Lsu!CacheOps /\ mem_q.op = "NONE"
    BY <1>4, DueNow, LsuKinds DEF Links, OpKinds
  <2>2. ~Lsu!Unaligned /\ (Lsu!Requesting => mem_q.op \in Lsu!CacheOps)
    BY <2>1, WiresNow, LsuKinds
  <2>3. mem_q'.op = "NONE"
    BY <1>1, <1>2, <2>1, <2>2, CacheTaken, DueNext, LsuKinds
  <2>4. DueOp' # "NONE" => DueOp' \in Lsu!CacheOps
    BY <1>1, <2>1, <2>2, DueNext DEF Takes
  <2>5. ~mem_unaligned_e2_q'
    BY <1>1, <2>2, DueNext DEF Noted
  <2> QED
    BY <1>3, <2>3, <2>4, <2>5, LsuKinds DEF Links
<1>5. CASE InE1 \/ InE2
  <2>1. wb.exc = "NONE" /\ ~squash_e1_e2_q
    BY <1>5 DEF Control, Alone, InE1, InE2, Is
  <2>2. e2.exc = "NONE"
    <3>1. InE2 => e2.exc = "NONE"
      BY Kinds DEF Control, Exceptions, ExceptionOf, InE2, Is
    <3> QED
      BY <1>5, <3>1 DEF Waiting
  <2>3. InE2 /\ (mem_ack = "ERROR" \/ mem_unaligned_e2_q)
    BY <2>1, <2>2, WiresNow DEF Squash, E2Exception, InE2
  <2>4. mem_q'.op = "NONE"
    BY <1>1, <2>3, DueNext, LsuKinds
  <2>5. CASE mem_unaligned_e2_q
    <3>1. mem_q.op = "NONE" /\ DueOp = "NONE"
      BY <2>5, DueNow
    <3>2. ~Lsu!Requesting /\ ~Lsu!Unaligned
      BY <3>1, WiresNow, LsuKinds
    <3> QED
      BY <1>1, <1>3, <2>4, <3>1, <3>2, DueNext, LsuKinds
         DEF Links, Takes, Noted
  <2>6. CASE mem_ack = "ERROR"
    <3>1. DueOp # "NONE" /\ Lsu!Delay /\ Lsu!Answered
      BY <2>6, DueNow, WiresNow
    <3>2. ~Lsu!Requesting
      BY <3>1, WiresNow DEF Links
    <3> QED
      BY <1>1, <1>3, <2>4, <3>1, <3>2, DueNext, LsuKinds
         DEF Links, Takes, Noted
  <2> QED
    BY <2>3, <2>5, <2>6
<1> QED
  BY <1>4, <1>5

LEMMA LinksMoved ==
    ASSUME LinkInv, NEW issued \in BOOLEAN, NEW accept \in Accepts,
           Cycle(issued, accept), ~PipeStall, ~Squash
    PROVE  Links'
<1> USE DEF LinkInv, ControlInv
<1>1. accept \in BOOLEAN
  BY DEF Accepts
<1>2. /\ InE2' = InE1 /\ e2'.instr = e1.instr
      /\ InE1' <=> Decoded(issued).op \in MemOps
      /\ InE1' => e1'.instr.op = Decoded(issued).op
      /\ Is(e1, {"DIV"})' => ~InE1
  BY <1>1, E2Next, DecodedOp DEF InE1, InE2, Is
\* What was due to E2 is answered, and well.
<1>3. InE2 => /\ mem_ack = "OK" /\ ~mem_unaligned_e2_q
              /\ mem_q.op # e2.instr.op \/ InE1
  <2> SUFFICES ASSUME InE2
               PROVE  /\ mem_ack = "OK" /\ ~mem_unaligned_e2_q
                      /\ mem_q.op # e2.instr.op \/ InE1
    OBVIOUS
  <2>1. Lsu!WritebackValid
    BY DEF PipeStall, InE2
  <2>2. e2.valid /\ E2Exception = "NONE"
    BY Kinds DEF Squash, Control, Exceptions, InE2, Is
  <2>3. ~(mem_ack = "ERROR" \/ mem_unaligned_e2_q)
    BY <2>1, <2>2, WiresNow DEF E2Exception, InE2
  <2>4. mem_ack = "OK"
    BY <2>1, <2>3, DueNow, WiresNow
  <2>5. DueOp # "NONE"
    BY <2>4, DueNow
  <2>6. ~InE1 => mem_q.op = "NONE"
    BY <2>5 DEF Links
  <2> QED
    BY <2>3, <2>4, <2>6, Kinds DEF InE2, Is
<1>4. CASE InE1
  <2>1. mem_q.op = e1.instr.op /\ mem_q.op \in MemOps
    BY <1>4 DEF Links, InE1, Is
  <2>2. /\ ~Lsu!Delay /\ ~mem_unaligned_e2_q /\ mem_ack # "ERROR"
        /\ mem_ack = "OK" \/ DueOp = "NONE"
    BY <1>3, <1>4, DueNow, WiresNow DEF Links
  <2>3. Decoded(issued).op \in MemOps \cup {"NONE"}
    BY <1>1, <1>4, DecodedOp, LsuKinds DEF OpKinds
  <2>4. CASE mem_q.op \in Lsu!Aligned /\ accept
    <3>1. Takes(accept) /\ ~Lsu!Unaligned
      BY <2>2, <2>4, WiresNow, LsuKinds DEF Takes
    <3>2. /\ mem_q' = Decoded(issued) /\ DueOp' = mem_q.op
          /\ ~mem_unaligned_e2_q'
      BY <1>1, <2>2, <2>4, <3>1, DueNext DEF Noted
    <3> QED
      BY <1>2, <1>4, <2>1, <2>3, <2>4, <3>2, LsuKinds DEF Links, DueToE2
  <2>5. CASE mem_q.op \in Lsu!Aligned /\ ~accept
    <3>1. Lsu!Requesting /\ ~Lsu!Unaligned /\ ~Takes(accept)
      BY <2>2, <2>5, WiresNow, LsuKinds DEF Takes
    <3>2. Lsu!Stall(accept)
      BY <2>5, <3>1 DEF Lsu!Stall
    <3>3. Decoded(issued).op = "NONE"
      BY <1>1, <3>2, DecodedOp
    <3>4. mem_q' = mem_q /\ DueOp' = "NONE" /\ ~mem_unaligned_e2_q'
      BY <1>1, <2>2, <2>5, <3>1, DueNext, WiresNow DEF Noted
    <3> QED
      BY <1>2, <1>4, <2>1, <2>5, <3>3, <3>4, LsuKinds DEF Links
  <2>6. CASE mem_q.op \in Lsu!Misaligned
    <3>1. Lsu!Unaligned /\ ~Lsu!Requesting
      BY <2>6, WiresNow, LsuKinds
    <3>2. Decoded(issued).op = "NONE"
      BY <1>1, <3>1, DecodedOp DEF Lsu!Stall
    <3>3. /\ mem_q'.op = "NONE" /\ DueOp' = "NONE" /\ mem_unaligned_e2_q'
          /\ Head(fifo').load = (mem_q.op = "LOAD_MISALIGNED")
      BY <1>1, <2>2, <3>1, <3>2, DueNext, WiresNow DEF Noted, Takes
    <3> QED
      BY <1>2, <1>4, <2>1, <2>6, <3>2, <3>3, LsuKinds DEF Links, DueToE2
  <2> QED
    BY <1>1, <2>1, <2>4, <2>5, <2>6, LsuKinds
<1>5. CASE ~InE1 /\ InE2
  <2>1. mem_q.op = "NONE" /\ mem_ack = "OK" /\ ~mem_unaligned_e2_q
    BY <1>3, <1>5 DEF Links
  <2>2. ~Lsu!Requesting /\ ~Lsu!Unaligned /\ Lsu!Answered
    BY <2>1, WiresNow, LsuKinds
  <2>3. mem_q' = Decoded(issued) /\ DueOp' = "NONE" /\ ~mem_unaligned_e2_q'
    BY <1>1, <2>1, <2>2, DueNext, LsuKinds DEF Takes, Noted
  <2> QED
    BY <1>1, <1>2, <1>5, <2>3, DecodedOp, LsuKinds DEF Links, OpKinds
<1>6. CASE ~InE1 /\ ~InE2
  <2>1. /\ ~mem_unaligned_e2_q /\ mem_q.op \in Lsu!CacheOps \cup {"NONE"}
        /\ DueOp # "NONE" => DueOp \in Lsu!CacheOps /\ mem_q.op = "NONE"
    BY <1>6, DueNow, LsuKinds DEF Links, OpKinds
  <2>2. ~Lsu!Unaligned /\ (Lsu!Requesting => mem_q.op \in Lsu!CacheOps)
    BY <2>1, WiresNow, LsuKinds
  <2>3. CASE mem_q.op = "NONE"
    <3>1. ~Lsu!Requesting /\ ~mem_unaligned_e2_q'
      BY <1>1, <2>2, <2>3, DueNext, LsuKinds DEF Noted
    <3>2. DueOp' = IF Lsu!Answered THEN "NONE" ELSE DueOp
      BY <1>1, <3>1, DueNext DEF Takes
    <3>3. mem_q'.op \in {Decoded(issued).op, "NONE"}
          /\ (mem_ack # "ERROR" => mem_q'.op = Decoded(issued).op)
      BY <1>1, <2>1, <2>3, <3>1, DueNext, LsuKinds
    <3>4. Decoded(issued).op # "NONE" =>
              DueOp' = "NONE" /\ mem_q'.op = Decoded(issued).op
      BY <1>1, <3>2, <3>3, DecodedOp, DueNow, WiresNow DEF Lsu!Stall
    <3> QED
      BY <1>1, <1>2, <1>6, <2>1, <3>1, <3>2, <3>3, <3>4, DecodedOp, LsuKinds
         DEF Links, OpKinds
  <2>4. CASE mem_q.op \in Lsu!CacheOps
    <3>1. csr_pending_q /\ DueOp = "NONE" /\ Takes(accept) /\ accept
      BY <2>4, CacheTaken DEF Links
    <3>2. Decoded(issued).op = "NONE"
      BY <1>1, <3>1, DecodedOp
    <3>3. mem_q'.op = "NONE" /\ DueOp' = mem_q.op /\ ~mem_unaligned_e2_q'
      BY <1>1, <2>1, <2>2, <2>4, <3>1, <3>2, DueNext, DueNow, LsuKinds
         DEF Noted
    <3> QED
      BY <1>2, <1>6, <2>4, <3>2, <3>3, LsuKinds DEF Links
  <2> QED
    BY <2>1, <2>3, <2>4
<1> QED
  BY <1>4, <1>5, <1>6

-----------------------------------------------------------------------------
(***************************************************************************)
(* What the links mean for an answer.                                      *)
(***************************************************************************)
LEMMA LinksMeet == LinkInv => AnswerMeetsE2
<1> SUFFICES ASSUME LinkInv PROVE AnswerMeetsE2
  OBVIOUS
<1> USE DEF LinkInv, ControlInv
<1>1. mem_unaligned_e2_q => InE2
  BY DEF Links
<1>2. ASSUME Lsu!Answered
      PROVE  IF DueOp \in Lsu!CacheOps THEN ~InE2
             ELSE Is(e2, {DueOp}) /\ e2.valid
  <2>1. DueOp # "NONE" /\ ~mem_unaligned_e2_q
    BY <1>2, DueNow, WiresNow
  <2>2. CASE InE2
    <3>1. DueOp = e2.instr.op
      BY <2>1, <2>2 DEF Links, DueToE2
    <3>2. e2.live /\ ~e2.intr /\ e2.valid /\ e2.instr.op \in MemOps
      BY <2>2, Kinds DEF InE2, Is, Control, Exceptions
    <3> QED
      BY <3>1, <3>2, LsuKinds DEF Is
  <2>3. CASE ~InE2
    BY <2>1, <2>3 DEF Links
  <2> QED
    BY <2>2, <2>3
<1>3. Lsu!Answered => DueOp = Head(outst).op
  BY DueNow, WiresNow DEF DueOp
<1> QED
  BY <1>1, <1>2, <1>3 DEF AnswerMeetsE2, InE2

LEMMA InitLinks == Init => LinkInv
<1> SUFFICES ASSUME Init PROVE LinkInv
  OBVIOUS
<1>1. ControlInv
  BY InitControl
<1>2. Waiting
  BY DEF Init, Waiting, InE1, Is, Bubble
<1>3. Links
  BY LsuKinds DEF Init, Lsu!Init, Links, DueOp, InE1, InE2, Is, Bubble
<1> QED
  BY <1>1, <1>2, <1>3 DEF LinkInv

LEMMA StepLinks == LinkInv /\ [Next]_vars /\ [StaysUp]_vars => LinkInv'
<1> SUFFICES ASSUME LinkInv, [Next]_vars, [StaysUp]_vars PROVE LinkInv'
  OBVIOUS
<1>1. ControlInv'
  BY StepControl DEF LinkInv
<1>2. CASE UNCHANGED vars
  BY <1>1, <1>2 DEF LinkInv, Waiting, Links, DueToE2, DueOp, InE1, InE2, Is,
                    InterruptPending, vars, frontVars, pipeVars, csrVars,
                    lsuVars
<1>3. CASE Next /\ StaysUp
  <2>1. PICK issued \in BOOLEAN, accept \in Accepts : Cycle(issued, accept)
    BY <1>3, Cycles
  <2>2. accept \in BOOLEAN
    BY DEF Accepts
  <2>3. Waiting'
    BY <1>3, <2>1, <2>2, WaitingNext DEF LinkInv
  <2>4. Links'
    BY <2>1, LinksHeld, LinksSquashed, LinksMoved
  <2> QED
    BY <1>1, <2>3, <2>4 DEF LinkInv
<1> QED
  BY <1>2, <1>3

(***************************************************************************)
(* The load/store unit and the stages keep step: an answer to a load or    *)
(* store arrives exactly while that instruction is in E2, and never for    *)
(* one that was squashed, in every behaviour in which the instruction bus  *)
(* does not read as a CSR instruction while nothing is shown behind a      *)
(* waiting interrupt.                                                      *)
(***************************************************************************)
THEOREM AnswersMeet == Spec /\ [][StaysUp]_vars => []AnswerMeetsE2
<1>1. Init => LinkInv
  BY InitLinks
<1>2. LinkInv /\ [Next]_vars /\ [StaysUp]_vars => LinkInv'
  BY StepLinks
<1>3. LinkInv => AnswerMeetsE2
  BY LinksMeet
<1> QED
  BY <1>1, <1>2, <1>3, PTL DEF Spec

-----------------------------------------------------------------------------
(***************************************************************************)
(* Without interrupts, or without branches for an interrupt to replace,    *)
(* the bus is never asked: StaysUp holds by itself.                        *)
(***************************************************************************)
Undisturbed == Raised = {} \/ \A i \in Instrs : i.op \notin JumpOps

QuietInv ==
    /\ LinkInv
    /\ Raised = {} => ~mip
    /\ Raised # {} => (e1.intr => fetch_valid)

LEMMA QuietStays ==
    ASSUME QuietInv PROVE StaysUp
BY DEF QuietInv, StaysUp, InterruptPending

LEMMA StepQuiet ==
    ASSUME Undisturbed, QuietInv, [Next]_vars PROVE QuietInv'
<1>1. LinkInv'
  BY QuietStays, StepLinks DEF QuietInv
<1>2. CASE UNCHANGED vars
  BY <1>1, <1>2 DEF QuietInv, vars, frontVars, pipeVars, csrVars
<1>3. CASE Next
  <2>1. PICK issued \in BOOLEAN, accept \in Accepts : Cycle(issued, accept)
    BY <1>3, Cycles
  <2>2. accept \in BOOLEAN
    BY DEF Accepts
  <2>3. Raised = {} => ~mip'
    BY <2>1 DEF QuietInv, Cycle, Clock, CsrFile
  <2>4. ASSUME Raised # {}, e1'.intr PROVE fetch_valid'
    <3> USE DEF QuietInv, LinkInv, ControlInv
    <3>1. take_interrupt_q \in BOOLEAN /\ fetch_instr \in Instrs \cup {NoInstr}
          /\ (wb.exc # "NONE" <=> squash_e1_e2_q)
      BY DEF PipeInv, TypeOK, Control, Alone
    <3>2. fetch_valid /\ ~Squash /\ ~branch_q /\ ~Launched(issued)
      <4>1. CASE PipeStall
        <5>1. e1.intr /\ ~issued
          BY <2>1, <2>2, <2>4, <4>1, Held
        <5>2. wb.exc = "NONE" /\ ~branch_q
          BY <4>1, StallKeeps
        <5>3. InE2 /\ ~Lsu!WritebackValid
          BY <4>1, <5>1 DEF PipeStall, Is, InE2
        <5>4. e2.exc = "NONE"
          BY <5>3, Kinds DEF Control, Exceptions, ExceptionOf, InE2, Is
        <5> QED
          BY <2>4, <3>1, <5>1, <5>2, <5>3, <5>4
             DEF Squash, E2Exception, Launched
      <4>2. CASE ~PipeStall
        <5>1. issued /\ take_interrupt_q
          BY <2>1, <2>2, <2>4, <3>1, <4>2, E1Next
        <5> QED
          BY <2>1, <2>2, <5>1, IssueWhen DEF Cycle, Launched
      <4> QED
        BY <4>1, <4>2
    <3>3. ~BranchRequest(issued)
      BY <2>4, <3>1 DEF Undisturbed, BranchRequest, Taken, JumpOps, NoInstr
    <3> QED
      BY <2>1, <3>2, <3>3
         DEF OpcodeValid, Cycle, Clock, FrontEnd, Front!FrontEdge,
             Front!frontVars
  <2> QED
    BY <1>1, <2>3, <2>4 DEF QuietInv
<1> QED
  BY <1>2, <1>3

LEMMA InitQuiet == Init => QuietInv
BY InitLinks DEF QuietInv, Init, Bubble

LEMMA StaysUpUndisturbed ==
    ASSUME Undisturbed PROVE Spec => [][StaysUp]_vars
<1>1. Init => QuietInv
  BY InitQuiet
<1>2. QuietInv /\ [Next]_vars => QuietInv'
  BY StepQuiet
<1>3. QuietInv => StaysUp
  BY QuietStays
<1> QED
  BY <1>1, <1>2, <1>3, PTL DEF Spec

(***************************************************************************)
(* The same with nothing assumed of a behaviour: an answer meets its load  *)
(* or store in E2 in every program without interrupts, and in every        *)
(* program without branches.                                               *)
(***************************************************************************)
THEOREM AnswersMeetUndisturbed ==
    ASSUME Undisturbed PROVE Spec => []AnswerMeetsE2
BY AnswersMeet, StaysUpUndisturbed

-----------------------------------------------------------------------------
(***************************************************************************)
(* From here on: what the pipeline retires, against the simulator.  The    *)
(* instruction counter counts what the simulator would have counted, and   *)
(* each instruction does what the simulator does (LockStep).               *)
(***************************************************************************)
(***************************************************************************)
(* The instruction counter, for every width.  What is counted is decided   *)
(* in WB, from wb.valid and wb.exc; what the simulator counts is decided   *)
(* by the instruction and by the answer of the memory port while it is in  *)
(* E2.  That the two agree takes everything RiscvPipeProofs knows of E2:   *)
(* its exception is that of its instruction, and an answer in E2 is the    *)
(* answer to it.                                                           *)
(***************************************************************************)
countVars == <<vars, minstret, committed>>

CountInv ==
    /\ minstret \in 0 .. (NumCounts - 1)
    /\ committed \in 0 .. (NumCounts - 1)
    /\ CountsCommitted

(***************************************************************************)
(* The answer in E2 is misaligned exactly if its instruction is.           *)
(***************************************************************************)
LEMMA DummyInE2 ==
    ASSUME LinkInv, InE2, ~PipeStall
    PROVE  /\ mem_unaligned_e2_q <=> e2.instr.op \in Lsu!Misaligned
           /\ mem_ack # "NONE" \/ mem_unaligned_e2_q
<1> USE DEF LinkInv, ControlInv
<1>1. mem_ack # "NONE" \/ mem_unaligned_e2_q
  BY WiresNow DEF PipeStall, InE2
<1>2. DueToE2
  BY <1>1, DueNow DEF Links
<1>3. e2.instr.op \in MemOps
  BY DEF InE2, Is
<1> QED
  BY <1>1, <1>2, <1>3, LsuKinds DEF DueToE2

(***************************************************************************)
(* An instruction enters WB valid and without an exception exactly if it   *)
(* completes.                                                              *)
(***************************************************************************)
LEMMA CompletesInWb ==
    ASSUME LinkInv, ~PipeStall
    PROVE  e2.live /\ Completes <=> e2.valid /\ E2Exception = "NONE"
<1> USE DEF LinkInv, ControlInv
<1>1. CASE ~e2.live
  BY <1>1 DEF Control, Shapes
<1>2. CASE e2.live /\ InE2
  <2>1. /\ e2.valid /\ ~e2.intr /\ e2.exc = "NONE"
        /\ e2.instr.op \in MemOps
    BY <1>2, Kinds DEF Control, Exceptions, ExceptionOf, InE2, Is
  <2>2. E2Exception = "NONE" <=> mem_ack # "ERROR" /\ ~mem_unaligned_e2_q
    BY <1>2, <2>1, DummyInE2, WiresNow DEF E2Exception, InE2
  <2>3. /\ mem_unaligned_e2_q <=> e2.instr.op \in Lsu!Misaligned
        /\ mem_unaligned_e2_q => mem_ack # "ERROR"
    BY <1>2, DummyInE2, DueNow
  <2>4. Completes <=> /\ e2.instr.op \notin Lsu!Misaligned
                      /\ mem_ack # "ERROR"
    BY <2>1, LsuKinds
       DEF Completes, Lsu!Misaligned, Lsu!Aligned, MemOps, LoadOps, StoreOps
  <2> QED
    BY <1>2, <2>1, <2>2, <2>3, <2>4
<1>3. CASE e2.live /\ ~InE2
  <2>1. E2Exception = e2.exc
    BY <1>3 DEF E2Exception, InE2
  <2>2. CASE e2.intr
    BY <1>3, <2>1, <2>2 DEF Control, Exceptions, ExceptionOf, Completes
  <2>3. CASE ~e2.intr
    <3>1. e2.instr.op \notin MemOps
      BY <1>3, <2>3 DEF InE2, Is
    <3>2. Completes <=> /\ e2.instr.op # "FETCH_FAULT"
                        /\ CsrException(e2.instr.op) = "NONE"
      BY <2>3, <3>1
         DEF Completes, CsrException, MemOps, LoadOps, StoreOps
    <3> QED
      BY <1>3, <2>1, <2>3, <3>2 DEF Control, Exceptions, ExceptionOf
  <2> QED
    BY <2>2, <2>3
<1> QED
  BY <1>1, <1>2, <1>3

(***************************************************************************)
(* The counter.                                                            *)
(***************************************************************************)
LEMMA CountTyped ==
    ASSUME NEW n \in 0 .. (NumCounts - 1), NEW pulse \in BOOLEAN
    PROVE  /\ Count(n, pulse) \in 0 .. (NumCounts - 1)
           /\ Count(n, FALSE) = n
<1>1. NumCounts \in Nat \ {0} /\ n \in Int /\ n + Bit(pulse) \in Int
  BY TelemetryAssumption DEF Bit
<1>2. (n + Bit(pulse)) % NumCounts \in 0 .. (NumCounts - 1)
  BY <1>1, Modulo
<1>3. Count(n, FALSE) = n
  BY <1>1 DEF Count, Bit
<1> QED
  BY <1>2, <1>3 DEF Count

LEMMA InitCount == CountInit => LinkInv /\ CountInv
<1> SUFFICES ASSUME CountInit PROVE LinkInv /\ CountInv
  OBVIOUS
<1>1. LinkInv
  BY InitLinks DEF CountInit
<1>2. 0 \in 0 .. (NumCounts - 1)
  BY TelemetryAssumption
<1>3. ~wb.valid
  BY DEF CountInit, Init, Bubble
<1> QED
  BY <1>1, <1>2, <1>3, CountTyped DEF CountInit, CountInv, CountsCommitted

LEMMA StepCount ==
    ASSUME LinkInv, CountInv, [CountNext]_countVars
    PROVE  CountInv'
<1>1. CASE UNCHANGED countVars
  BY <1>1 DEF CountInv, CountsCommitted, Count, countVars, vars, pipeVars
<1>2. CASE CountNext
  <2> DEFINE counted == wb.valid /\ wb.exc = "NONE"
             done    == e2.live /\ Completes
  <2>1. PICK issued \in BOOLEAN, accept \in Accepts : Cycle(issued, accept)
    BY <1>2, Cycles DEF CountNext
  <2>2. accept \in BOOLEAN
    BY DEF Accepts
  <2>3. /\ minstret' = Count(minstret, RetirePulse)
        /\ committed' = Count(committed, Retires /\ Completes)
    BY <1>2 DEF CountNext, Counter
  <2>4. /\ minstret' \in 0 .. (NumCounts - 1)
        /\ committed' \in 0 .. (NumCounts - 1)
    <3>1. RetirePulse \in BOOLEAN /\ (Retires /\ Completes) \in BOOLEAN
      BY DEF RetirePulse
    <3> QED
      BY <2>3, <3>1, CountTyped DEF CountInv
  <2>5. CASE PipeStall
    <3>1. minstret' = minstret /\ committed' = committed
      BY <2>3, <2>5, CountTyped DEF CountInv, RetirePulse, Retires
    <3>2. wb' = wb
      BY <2>1, <2>2, <2>5, Held
    <3> QED
      BY <2>4, <3>1, <3>2 DEF CountInv, CountsCommitted, Count
  <2>6. CASE ~PipeStall
    <3>1. minstret' = committed
      <4>1. RetirePulse <=> counted
        BY <2>6 DEF RetirePulse
      <4>2. Bit(RetirePulse) = Bit(counted)
        BY <4>1 DEF Bit
      <4> QED
        BY <2>3, <4>2 DEF CountInv, CountsCommitted, Count
    <3>2. wb'.valid /\ wb'.exc = "NONE" <=> done
      <4>1. /\ wb'.valid = (e2.valid /\ E2Exception \notin MemFaults)
            /\ wb'.exc = E2Exception
        BY <2>1, <2>2, <2>6, WbNext DEF LinkInv, ControlInv
      <4> QED
        BY <2>6, <4>1, CompletesInWb DEF MemFaults
    <3>3. Bit(Retires /\ Completes) = Bit(wb'.valid /\ wb'.exc = "NONE")
      BY <2>6, <3>2 DEF Retires, Bit
    <3>4. CountsCommitted'
      BY <2>3, <3>1, <3>3 DEF CountsCommitted, Count, Bit
    <3> QED
      BY <2>4, <3>4 DEF CountInv
  <2> QED
    BY <2>5, <2>6
<1> QED
  BY <1>1, <1>2

(***************************************************************************)
(* minstret counts "one per committed instruction"                         *)
(* (telemetry_counters.sv:10): it is behind the simulator's count by the   *)
(* instruction in WB only, in every behaviour in which answers meet their  *)
(* instructions (AnswersMeet).                                             *)
(***************************************************************************)
THEOREM Counts == CountSpec /\ [][StaysUp]_vars => []CountsCommitted
<1>1. CountInit => LinkInv /\ CountInv
  BY InitCount
<1>2. /\ LinkInv /\ CountInv
      /\ [CountNext]_<<vars, minstret, committed>> /\ [StaysUp]_vars
      => (LinkInv /\ CountInv)'
  <2> SUFFICES ASSUME LinkInv, CountInv, [StaysUp]_vars,
                      [CountNext]_<<vars, minstret, committed>>
               PROVE  LinkInv' /\ CountInv'
    OBVIOUS
  <2>1. [Next]_vars
    BY DEF CountNext
  <2> QED
    BY <2>1, StepLinks, StepCount DEF countVars
<1>3. CountInv => CountsCommitted
  BY DEF CountInv
<1> QED
  BY <1>1, <1>2, <1>3, PTL DEF CountSpec

(***************************************************************************)
(* The same with nothing assumed of a behaviour, in programs without       *)
(* interrupts and in programs without branches.                            *)
(***************************************************************************)
THEOREM CountsUndisturbed ==
    ASSUME Undisturbed PROVE CountSpec => []CountsCommitted
<1>1. CountInit => QuietInv /\ CountInv
  BY InitCount, InitQuiet DEF CountInit
<1>2. /\ QuietInv /\ CountInv /\ [CountNext]_<<vars, minstret, committed>>
      => (QuietInv /\ CountInv)'
  <2> SUFFICES ASSUME QuietInv, CountInv,
                      [CountNext]_<<vars, minstret, committed>>
               PROVE  QuietInv' /\ CountInv'
    OBVIOUS
  <2>1. [Next]_vars
    BY DEF CountNext
  <2> QED
    BY <2>1, StepQuiet, StepCount DEF countVars, QuietInv
<1>3. CountInv => CountsCommitted
  BY DEF CountInv
<1> QED
  BY <1>1, <1>2, <1>3, PTL DEF CountSpec

-----------------------------------------------------------------------------
(***************************************************************************)
(* The pipeline implements the simulator.                                  *)
(*                                                                         *)
(* LockStep compares the state before and after an instruction enters WB.  *)
(* What makes it true happens earlier: operands are read at issue, two     *)
(* instructions before they are the architectural ones, the next address   *)
(* is chosen there, the operation is handed to the load/store unit there.  *)
(* Semantics says of every instruction in E1 and E2 that what was read or  *)
(* chosen for it is what the simulator will find when its turn comes.      *)
(***************************************************************************)
ReadCsr == {"CSRRS", "CSRRC"}
Late    == LoadOps \cup {"MUL"}     \* the result is not in E2's result register

\* The register as the instruction in E1 will find it, once the one in E2 has
\* reached WB.
Src(r) == IF r # 0 /\ e2.live /\ Dest(e2) = r THEN e2.res ELSE ArchGpr[r]

\* Where the simulator goes from an instruction that does not trap.
After(s, a, b) ==
    IF Taken(s.instr.op, a, b) THEN s.instr.target ELSE NextPc(s.pc)

OperationOf(i, a, b) ==
    [op |-> i.op, addr |-> a, data |-> IF i.op = "STORE" THEN b ELSE 0]

(***************************************************************************)
(* The instruction in E2.                                                  *)
(***************************************************************************)
BehindE2 == IF e1.live THEN e1.pc ELSE fetch_pc

SemE2 ==
    LET i == e2.instr
        a == ArchGpr[i.ra]
        b == ArchGpr[i.rb]
    IN  e2.live /\ ~e2.intr =>
          /\ i.op \in {"ALU", "DIV"} => e2.res = Compute(i.op, a, b)
          /\ i.op = "MUL" => e2.mul = Compute("MUL", a, b)
          /\ i.op \in JumpOps => e2.res = Word(NextPc(e2.pc))
          /\ e2.csrWrite <=> i.op \in ReadCsr
          /\ i.op \in ReadCsr => /\ e2.res = Bit(sr.mie)
                                 /\ e2.csrData = Written(i.op, sr, a)
          /\ e2.exc = "NONE" => BehindE2 = After(e2, a, b)

MemE2 ==
    InE2 =>
      LET o == OperationOf(e2.instr, ArchGpr[e2.instr.ra], ArchGpr[e2.instr.rb])
      IN  /\ ~InE1 /\ mem_q.op # "NONE" => mem_q = o
          /\ outst # <<>> => Head(outst) = o

(***************************************************************************)
(* The instruction in E1.                                                  *)
(***************************************************************************)
SemE1 ==
    LET i == e1.instr
        a == Src(i.ra)
        b == Src(i.rb)
    IN  e1.live /\ ~e1.intr =>
          /\ i.op = "ALU" => e1.res = Compute("ALU", a, b)
          /\ i.op = "MUL" => e1.mul = Compute("MUL", a, b)
          /\ i.op \in JumpOps => e1.res = Word(NextPc(e1.pc))
          /\ csr_e1.write <=> i.op \in ReadCsr
          /\ i.op \in ReadCsr => /\ csr_e1.value = Bit(sr.mie)
                                 /\ csr_e1.data = Written(i.op, sr, a)
          /\ i.op \in MemOps => mem_q = OperationOf(i, a, b)
          /\ fetch_pc = After(e1, a, b)
          /\ Is(e2, Late) => Dest(e2) \notin {i.ra, i.rb}

(***************************************************************************)
(* The divide unit works for the instruction in E1.                        *)
(***************************************************************************)
DivE1 ==
    IF Is(e1, {"DIV"})
    THEN LET x == Compute("DIV", Src(e1.instr.ra), Src(e1.instr.rb))
         IN  /\ div_pending_q
             /\ IF div_valid THEN ~div_busy /\ div_value = x
                             ELSE div_busy /\ div_answer = x
    ELSE ~div_busy /\ ~div_valid

(***************************************************************************)
(* Interrupts, and what may follow one.                                    *)
(***************************************************************************)
Replaced ==
    /\ e2.intr => e2.live /\ InterruptPending
    /\ e2.exc # "NONE" /\ e1.live => e1.intr \/ Is(e1, CsrOps)
    /\ Raised = {} => ~mip

\* What is shown and what is in flight belongs to the program.
Present ==
    /\ fetch_valid => fetch_instr \in Instrs
    /\ e1.live => e1.instr \in Instrs
    /\ e2.live => e2.instr \in Instrs

Semantics == SemE2 /\ MemE2 /\ SemE1 /\ DivE1 /\ Replaced /\ Present

LockInv == LinkInv /\ Semantics

-----------------------------------------------------------------------------
(***************************************************************************)
(* One clock edge: all of what the stages become.                          *)
(***************************************************************************)
LEMMA E1Issued ==
    ASSUME PipeInv, NEW accept \in BOOLEAN, Cycle(TRUE, accept)
    PROVE  /\ e1'.live /\ e1'.intr = take_interrupt_q
           /\ e1'.instr = fetch_instr /\ e1'.pc = fetch_pc
           /\ e1'.res = AluResult
           /\ fetch_instr.op = "MUL" =>
                 e1'.mul = Compute("MUL", OperandA, OperandB)
<1>1. ~PipeStall
  BY IssueWhen DEF Cycle
<1>2. e1' = Issued
  BY <1>1 DEF Cycle, Clock, E1Stage
<1> QED
  BY <1>2 DEF Issued, Bubble

LEMMA E2Advanced ==
    ASSUME PipeInv, NEW issued \in BOOLEAN, NEW accept \in BOOLEAN,
           Cycle(issued, accept), ~PipeStall, ~Squash
    PROVE  /\ e2'.live = e1.live /\ e2'.intr = e1.intr
           /\ e2'.instr = e1.instr /\ e2'.pc = e1.pc /\ e2'.mul = e1.mul
           /\ e2'.res = IF Is(e1, {"DIV"}) THEN div_value
                        ELSE IF Is(e1, CsrOps) THEN csr_e1.value ELSE e1.res
           /\ e2'.csrWrite = csr_e1.write /\ e2'.csrData = csr_e1.data
           /\ Dest(e2)' = Dest(e1)
<1>1. e1 \in Stages
  BY DEF PipeInv, TypeOK
<1>2. e2' = Advanced
  BY DEF Cycle, Clock, E2Stage
<1> QED
  BY <1>1, <1>2 DEF Advanced, Stages, Dest

\* What the instruction in E2 commits.
Committed ==
    IF e2.valid /\ InE2 THEN MemResult
    ELSE IF e2.valid /\ Is(e2, {"MUL"}) THEN e2.mul ELSE e2.res

LEMMA WbCommitted ==
    ASSUME PipeInv, NEW issued \in BOOLEAN, NEW accept \in BOOLEAN,
           Cycle(issued, accept), ~PipeStall
    PROVE  /\ wb'.valid = (e2.valid /\ E2Exception \notin MemFaults)
           /\ wb'.exc = E2Exception /\ wb'.pc = e2.pc /\ wb'.live = e2.live
           /\ wb'.res = Committed
           /\ wb'.csrWrite = e2.csrWrite /\ wb'.csrData = e2.csrData
           /\ Dest(wb)' = Dest(e2)
<1>1. e2 \in Stages
  BY DEF PipeInv, TypeOK
<1>2. wb' = [e2 EXCEPT
                 !.valid = @ /\ E2Exception \notin MemFaults,
                 !.exc = E2Exception, !.mul = 0,
                 !.res = IF e2.valid /\ Is(e2, MemOps) THEN MemResult
                         ELSE IF e2.valid /\ Is(e2, {"MUL"}) THEN e2.mul
                         ELSE e2.res]
  BY DEF Cycle, Clock, WbStage
<1> QED
  BY <1>1, <1>2 DEF Stages, Dest, Committed, InE2

LEMMA Writes ==
    ASSUME PipeInv
    PROVE  /\ e1.instr \in AnyInstr /\ e2.instr \in AnyInstr
           /\ fetch_instr \in AnyInstr
           /\ Dest(e1) \in Regs /\ Dest(e2) \in Regs /\ Dest(wb) \in Regs
           /\ Dest(e2) # 0 => ~e2.intr /\ e2.instr.op \in Writers
<1>1. /\ e1.instr \in AnyInstr /\ e2.instr \in AnyInstr
      /\ wb.instr \in AnyInstr /\ fetch_instr \in AnyInstr
  BY DEF PipeInv, TypeOK, Stages, AnyInstr
<1>2. Dest(e1) \in Regs /\ Dest(e2) \in Regs /\ Dest(wb) \in Regs
  BY <1>1, InstrFields, IsaAssumption DEF Dest
<1>3. Dest(e2) # 0 => ~e2.intr /\ e2.instr.op \in Writers
  BY <1>1, IsaAssumption DEF Dest, AnyInstr, NoInstr
<1> QED
  BY <1>1, <1>2, <1>3

-----------------------------------------------------------------------------
(***************************************************************************)
(* The register file: while WB moves on it becomes the architectural one,  *)
(* and that takes what E2 commits.                                         *)
(***************************************************************************)
LEMMA ArchGprTyped ==
    ASSUME PipeInv
    PROVE  ArchGpr \in [Regs -> Values] /\ ArchGpr[0] = 0
<1>1. gpr \in [Regs -> Values] /\ gpr[0] = 0 /\ wb.res \in Values
  BY DEF PipeInv, TypeOK, Stages
<1> QED
  BY <1>1, Writes, IsaAssumption DEF ArchGpr

LEMMA GprNext ==
    ASSUME PipeInv, NEW issued \in BOOLEAN, NEW accept \in BOOLEAN,
           Cycle(issued, accept)
    PROVE  /\ PipeStall => gpr' = gpr /\ ArchGpr' = ArchGpr
           /\ ~PipeStall =>
                /\ gpr' = ArchGpr
                /\ ArchGpr' =
                     IF e2.valid /\ E2Exception = "NONE" /\ Dest(e2) # 0
                     THEN [ArchGpr EXCEPT ![Dest(e2)] = Committed]
                     ELSE ArchGpr
<1>1. gpr' = IF WbRd = 0 THEN gpr ELSE [gpr EXCEPT ![WbRd] = wb.res]
  BY DEF Cycle, Clock, RegFile
<1>2. CASE PipeStall
  BY <1>1, <1>2, Held DEF WbRd, ArchGpr, Dest
<1>3. CASE ~PipeStall
  <2>1. gpr' = ArchGpr
    BY <1>1, <1>3 DEF WbRd, ArchGpr
  <2>2. /\ wb'.valid = (e2.valid /\ E2Exception \notin MemFaults)
        /\ wb'.exc = E2Exception /\ wb'.res = Committed
        /\ Dest(wb)' = Dest(e2)
    BY <1>3, WbCommitted
  <2>3. ArchGpr' = IF wb'.valid /\ wb'.exc = "NONE" /\ Dest(wb)' # 0
                   THEN [gpr' EXCEPT ![Dest(wb)'] = wb'.res] ELSE gpr'
    BY DEF ArchGpr
  <2> QED
    BY <1>3, <2>1, <2>2, <2>3 DEF MemFaults
<1> QED
  BY <1>2, <1>3

(***************************************************************************)
(* What the instruction in E1 will find is there when it comes to E2.      *)
(***************************************************************************)
LEMMA SourcesKept ==
    ASSUME LockInv, NEW issued \in BOOLEAN, NEW accept \in BOOLEAN,
           Cycle(issued, accept), ~PipeStall, ~Squash, e1.live, ~e1.intr,
           NEW r \in {e1.instr.ra, e1.instr.rb}
    PROVE  ArchGpr'[r] = Src(r)
<1> USE DEF LockInv, LinkInv, ControlInv
<1>1. r \in Regs
  BY Writes, InstrFields
<1>2. E2Exception = "NONE"
  BY DEF Squash
<1>3. ArchGpr \in [Regs -> Values]
  BY ArchGprTyped
<1>4. ArchGpr' = IF e2.valid /\ Dest(e2) # 0
                 THEN [ArchGpr EXCEPT ![Dest(e2)] = Committed] ELSE ArchGpr
  BY <1>2, GprNext
<1>5. CASE r # 0 /\ e2.live /\ Dest(e2) = r
  <2>1. e2.instr.op \in Writers /\ ~e2.intr
    BY <1>5, Writes
  <2>2. e2.instr.op \notin Late
    BY <1>5, <2>1 DEF Semantics, SemE1, Is
  <2>3. ~InE2 /\ ~Is(e2, {"MUL"})
    BY <2>1, <2>2 DEF Late, Writers, InE2, Is, MemOps, LoadOps, StoreOps,
                      AluOps
  <2>4. e2.valid
    BY <1>5, <2>1 DEF Control, Exceptions, Writers, AluOps, LoadOps
  <2> QED
    BY <1>1, <1>3, <1>4, <1>5, <2>3, <2>4 DEF Committed, Src
<1>6. CASE ~(r # 0 /\ e2.live /\ Dest(e2) = r)
  <2>1. ~(e2.valid /\ Dest(e2) # 0 /\ Dest(e2) = r)
    BY <1>6 DEF Control, Shapes
  <2> QED
    BY <1>1, <1>3, <1>4, <1>6, <2>1 DEF Src
<1> QED
  BY <1>5, <1>6

(***************************************************************************)
(* Forwarding.  An operand is what the instruction will find in E1.        *)
(***************************************************************************)
LEMMA Dependencies ==
    ASSUME PipeInv, NEW accept \in BOOLEAN, CanIssue(accept),
           NEW r \in {fetch_instr.ra, fetch_instr.rb}
    PROVE  /\ Is(e1, Late) => r # E1Rd
           /\ ~LoadBypass /\ Is(e2, LoadOps) => r # E2Rd
           /\ ~MulBypass /\ Is(e2, {"MUL"}) => r # E2Rd
<1>1. r \in Regs /\ r \notin Scoreboard
  BY Writes, InstrFields DEF CanIssue
<1>2. Scoreboard = UNION {IF ~LoadBypass /\ Is(e2, LoadOps) THEN {E2Rd} ELSE {},
                          IF ~MulBypass /\ Is(e2, {"MUL"}) THEN {E2Rd} ELSE {},
                          IF Is(e1, LoadOps \cup {"MUL"}) THEN {E1Rd} ELSE {}}
  BY <1>1 DEF Scoreboard
<1> QED
  BY <1>1, <1>2 DEF Late

LEMMA Forwarded ==
    ASSUME LockInv, NEW accept \in BOOLEAN, Cycle(TRUE, accept),
           NEW r \in {fetch_instr.ra, fetch_instr.rb}
    PROVE  Operand(r) = Src(r)'
<1> USE DEF LockInv, LinkInv, ControlInv
<1>1. /\ CanIssue(accept) /\ ~PipeStall /\ ~Squash /\ ~div_pending_q
      /\ ~csr_pending_q
  BY IssueWhen DEF Cycle
<1>2. r \in Regs
  BY Writes, InstrFields
<1>3. E2Exception = "NONE"
  BY <1>1 DEF Squash
<1>4. ArchGpr \in [Regs -> Values] /\ ArchGpr[0] = 0
  BY ArchGprTyped
<1>5. ArchGpr' = IF e2.valid /\ Dest(e2) # 0
                 THEN [ArchGpr EXCEPT ![Dest(e2)] = Committed] ELSE ArchGpr
  BY <1>1, <1>3, GprNext
<1>6. /\ e2'.live = e1.live /\ Dest(e2)' = Dest(e1)
      /\ e2'.res = IF Is(e1, {"DIV"}) THEN div_value
                   ELSE IF Is(e1, CsrOps) THEN csr_e1.value ELSE e1.res
  BY <1>1, E2Advanced
<1>7. Src(r)' = IF r # 0 /\ e1.live /\ Dest(e1) = r THEN e2'.res
                ELSE ArchGpr'[r]
  BY <1>6 DEF Src
<1>8. CASE r = 0
  BY <1>2, <1>4, <1>5, <1>7, <1>8, Writes DEF Operand
<1>9. CASE r # 0 /\ e1.live /\ Dest(e1) = r
  <2>1. ~Is(e1, {"DIV"}) /\ ~Is(e1, CsrOps)
    BY <1>1 DEF Semantics, DivE1, Control, Alone
  <2> QED
    BY <1>6, <1>7, <1>9, <2>1 DEF Operand, E1Rd
<1>10. CASE r # 0 /\ ~(e1.live /\ Dest(e1) = r)
  <2>1. Operand(r) = IF E2Rd = r THEN E2Result
                     ELSE IF WbRd = r THEN wb.res ELSE gpr[r]
    BY <1>10 DEF Operand, E1Rd
  <2>2. (IF WbRd = r THEN wb.res ELSE gpr[r]) = ArchGpr[r]
    <3>1. gpr \in [Regs -> Values]
      BY DEF PipeInv, TypeOK
    <3> QED
      BY <1>1, <1>2, <1>10, <3>1, Writes DEF WbRd, ArchGpr
  <2>3. E2Rd = r <=> e2.valid /\ Dest(e2) = r
    BY <1>1, <1>10 DEF E2Rd
  <2>4. CASE e2.valid /\ Dest(e2) = r
    <3>1. ~e2.intr /\ e2.instr.op \in Writers
      BY <1>10, <2>4, Writes
    <3>2. InE2 => Is(e2, LoadOps)
      BY <3>1 DEF InE2, Is, Writers, MemOps, LoadOps, StoreOps, AluOps
    <3>3. /\ InE2 => LoadBypass
          /\ Is(e2, {"MUL"}) => MulBypass /\ ~InE2
      BY <1>1, <2>3, <2>4, <3>2, Dependencies, Kinds
         DEF InE2, Is, MemOps, LoadOps, StoreOps
    <3>4. E2Result = Committed
      BY <1>1, <2>4, <3>3 DEF E2Result, Committed, InE2
    <3> QED
      BY <1>2, <1>4, <1>5, <1>7, <1>10, <2>1, <2>3, <2>4, <3>4
  <2>5. CASE ~(e2.valid /\ Dest(e2) = r)
    BY <1>2, <1>4, <1>5, <1>7, <1>10, <2>1, <2>2, <2>3, <2>5, Writes
  <2> QED
    BY <2>4, <2>5
<1> QED
  BY <1>8, <1>9, <1>10

-----------------------------------------------------------------------------
(***************************************************************************)
(* While the stages are held nothing is squashed, and neither what is      *)
(* shown at issue nor the CSRs move.                                       *)
(***************************************************************************)
LEMMA HeldInPeace ==
    ASSUME LockInv, PipeStall
    PROVE  ~Squash /\ ~branch_q /\ (InE2 => ~Lsu!WritebackValid)
<1> USE DEF LockInv, LinkInv, ControlInv
<1>1. wb.exc = "NONE" /\ ~branch_q /\ ~squash_e1_e2_q
  BY StallKeeps DEF Control, Alone
<1>2. InE2 => ~Lsu!WritebackValid
  BY DEF PipeStall, Links, InE2
<1>3. e2.exc = "NONE"
  <2>1. CASE InE2
    BY <2>1, Kinds DEF Control, Exceptions, ExceptionOf, InE2, Is
  <2>2. CASE ~InE2
    <3>1. Is(e1, {"DIV"})
      BY <2>2 DEF PipeStall, InE2
    <3> QED
      BY <3>1, Kinds DEF Semantics, Replaced, Is
  <2> QED
    BY <2>1, <2>2
<1> QED
  BY <1>1, <1>2, <1>3 DEF Squash, E2Exception, InE2

LEMMA FetchHeld ==
    ASSUME NEW accept \in BOOLEAN, Cycle(FALSE, accept), ~Squash, ~branch_q
    PROVE  fetch_pc' = fetch_pc
BY DEF Cycle, Clock, FrontEnd, OpcodeValid, Launched, BranchRequest,
       Front!FrontEdge, Front!Show, Front!frontVars

LEMMA FetchMoved ==
    ASSUME PipeInv, NEW accept \in BOOLEAN, Cycle(TRUE, accept),
           ~take_interrupt_q
    PROVE  fetch_pc' = IF Taken(fetch_instr.op, OperandA, OperandB)
                       THEN fetch_instr.target ELSE NextPc(fetch_pc)
<1>1. ~Squash /\ ~branch_q /\ fetch_valid
  BY IssueWhen DEF Cycle
<1> QED
  BY <1>1 DEF Cycle, Clock, FrontEnd, OpcodeValid, Launched, BranchRequest,
              Front!FrontEdge, Front!Show, Front!Redirect, Front!Following,
              NextPc

(***************************************************************************)
(* The CSRs are those the simulator has as long as something is in flight, *)
(* and in a cycle in which something is issued.                            *)
(***************************************************************************)
LEMMA CsrsNext ==
    ASSUME NEW issued \in BOOLEAN, NEW accept \in BOOLEAN,
           Cycle(issued, accept)
    PROVE  /\ sr' = CsrAfter.sr /\ mepc' = CsrAfter.mepc
           /\ mcause' = CsrAfter.mcause
           /\ branch_q' = (wb.exc # "NONE")
           /\ branch_target_q' = IF wb.exc # "NONE" THEN CsrTarget ELSE 0
           /\ mip' \in {mip} \cup Raised
BY DEF Cycle, Clock, CsrFile

LEMMA NothingInWb ==
    ASSUME ControlInv, wb.exc = "NONE", ~wb.csrWrite
    PROVE  CsrAfter = [sr |-> sr, mepc |-> mepc, mcause |-> mcause]
BY DEF CsrAfter, Traps

LEMMA CsrsKept ==
    ASSUME ControlInv, NEW issued \in BOOLEAN, NEW accept \in BOOLEAN,
           Cycle(issued, accept), e1.live \/ e2.live \/ issued
    PROVE  /\ wb.exc = "NONE" /\ ~wb.csrWrite /\ ~squash_e1_e2_q /\ ~branch_q
           /\ CsrAfter = [sr |-> sr, mepc |-> mepc, mcause |-> mcause]
           /\ sr' = sr
           /\ InterruptPending => InterruptPending'
<1>1. wb.exc = "NONE" /\ ~wb.csrWrite /\ ~squash_e1_e2_q /\ ~branch_q
  <2>1. CASE e1.live \/ e2.live
    BY <2>1 DEF ControlInv, Control, Alone, Exceptions
  <2>2. CASE issued
    <3>1. ~Squash /\ ~branch_q /\ ~csr_pending_q
      BY <2>2, IssueWhen DEF Cycle
    <3> QED
      BY <3>1 DEF ControlInv, Control, Alone, Exceptions, Squash
  <2> QED
    BY <2>1, <2>2
<1>2. CsrAfter = [sr |-> sr, mepc |-> mepc, mcause |-> mcause]
  BY <1>1, NothingInWb
<1>3. sr' = sr /\ mip' \in {mip} \cup Raised
  BY <1>2, CsrsNext
<1>4. InterruptPending => InterruptPending'
  BY <1>3, PipeAssumption DEF InterruptPending
<1> QED
  BY <1>1, <1>2, <1>3, <1>4

-----------------------------------------------------------------------------
(***************************************************************************)
(* Semantics, one clock edge later.                                        *)
(***************************************************************************)
LEMMA ReplacedNext ==
    ASSUME LockInv, NEW issued \in BOOLEAN, NEW accept \in BOOLEAN,
           Cycle(issued, accept)
    PROVE  Replaced'
<1> USE DEF LockInv, LinkInv, ControlInv, Semantics
<1>1. Raised = {} => ~mip'
  BY CsrsNext DEF Replaced
<1>2. CASE PipeStall
  <2>1. e1' = e1 /\ e2' = e2
    BY <1>2, Held
  <2>2. e1.live \/ e2.live
    BY <1>2 DEF PipeStall, Is
  <2> QED
    BY <1>1, <2>1, <2>2, CsrsKept DEF Replaced, Is
<1>3. CASE ~PipeStall /\ Squash
  <2>1. e2' = Bubble
    BY <1>3, E2Next
  <2> QED
    BY <1>1, <2>1 DEF Replaced, Bubble
<1>4. CASE ~PipeStall /\ ~Squash
  <2>1. /\ e2'.live = e1.live /\ e2'.intr = e1.intr
        /\ e2'.exc = IF e1.intr THEN "INTERRUPT"
                     ELSE IF e1.exc # "NONE" THEN e1.exc ELSE csr_e1.exc
    BY <1>4, E2Next
  <2>2. e2'.intr => e2'.live /\ InterruptPending'
    BY <2>1, CsrsKept DEF Control, Shapes, Waiting
  <2>3. ASSUME e2'.exc # "NONE", e1'.live PROVE e1'.intr \/ Is(e1, CsrOps)'
    <3>1. issued /\ e1'.intr = take_interrupt_q /\ e1'.instr = fetch_instr
      <4>1. take_interrupt_q \in BOOLEAN
        BY DEF PipeInv, TypeOK
      <4> QED
        BY <1>4, <2>3, <4>1, E1Next
    <3>2. CASE e1.intr
      BY <3>1, <3>2, <2>3 DEF Waiting, Is
    <3>3. CASE ~e1.intr
      <4>1. Is(e1, CsrOps)
        BY <2>1, <2>3, <3>3, Kinds DEF Control, Shapes, CsrInE1, Is
      <4>2. csr_pending_q
        BY <4>1 DEF Control, Alone
      <4> QED
        BY <3>1, <4>2, IssueWhen DEF Cycle
    <3> QED
      BY <3>2, <3>3
  <2> QED
    BY <1>1, <2>2, <2>3 DEF Replaced
<1> QED
  BY <1>2, <1>3, <1>4

(***************************************************************************)
(* The instruction that comes to E2 was right in E1.                       *)
(***************************************************************************)
LEMMA SemE2Next ==
    ASSUME LockInv, NEW issued \in BOOLEAN, NEW accept \in BOOLEAN,
           Cycle(issued, accept)
    PROVE  SemE2'
<1> USE DEF LockInv, LinkInv, ControlInv
<1>1. CASE PipeStall
  <2>1. e1' = e1 /\ e2' = e2 /\ ArchGpr' = ArchGpr /\ ~issued
    BY <1>1, Held, GprNext
  <2>2. fetch_pc' = fetch_pc
    BY <1>1, <2>1, HeldInPeace, FetchHeld
  <2>3. e2.live => sr' = sr
    BY CsrsKept
  <2> QED
    BY <2>1, <2>2, <2>3 DEF Semantics, SemE2, BehindE2, After
<1>2. CASE ~PipeStall /\ Squash
  <2>1. ~e2'.live
    BY <1>2, E2Next
  <2> QED
    BY <2>1 DEF SemE2
<1>3. CASE ~PipeStall /\ ~Squash
  <2> SUFFICES ASSUME e2'.live, ~e2'.intr PROVE SemE2'
    BY DEF SemE2
  <2> DEFINE i == e1.instr
             a == Src(i.ra)
             b == Src(i.rb)
  <2>1. /\ e1.live /\ ~e1.intr /\ e2'.instr = i /\ e2'.pc = e1.pc
        /\ e2'.mul = e1.mul
        /\ e2'.res = IF Is(e1, {"DIV"}) THEN div_value
                     ELSE IF Is(e1, CsrOps) THEN csr_e1.value ELSE e1.res
        /\ e2'.csrWrite = csr_e1.write /\ e2'.csrData = csr_e1.data
    BY <1>3, E2Advanced
  <2>2. ArchGpr'[i.ra] = a /\ ArchGpr'[i.rb] = b
    BY <1>3, <2>1, SourcesKept
  <2>3. sr' = sr
    BY <2>1, CsrsKept
  <2>4. BehindE2' = fetch_pc
    <3>1. CASE issued
      BY <1>3, <3>1, E1Issued DEF BehindE2
    <3>2. CASE ~issued
      <4>1. ~branch_q
        BY <2>1, CsrsKept
      <4> QED
        BY <1>3, <3>2, <4>1, E1Next, FetchHeld DEF BehindE2
    <3> QED
      BY <3>1, <3>2
  <2>5. /\ i.op = "ALU" => e1.res = Compute("ALU", a, b)
        /\ i.op = "MUL" => e1.mul = Compute("MUL", a, b)
        /\ i.op \in JumpOps => e1.res = Word(NextPc(e1.pc))
        /\ csr_e1.write <=> i.op \in ReadCsr
        /\ i.op \in ReadCsr => /\ csr_e1.value = Bit(sr.mie)
                               /\ csr_e1.data = Written(i.op, sr, a)
        /\ fetch_pc = After(e1, a, b)
    BY <2>1 DEF Semantics, SemE1
  <2>6. i.op = "DIV" => div_value = Compute("DIV", a, b)
    BY <1>3, <2>1 DEF Semantics, DivE1, PipeStall, Is
  <2> HIDE DEF a, b, i
  <2>8. /\ i.op \in {"ALU", "DIV"} => e2'.res = Compute(i.op, a, b)
        /\ i.op = "MUL" => e2'.mul = Compute("MUL", a, b)
        /\ i.op \in JumpOps => e2'.res = Word(NextPc(e2'.pc))
        /\ e2'.csrWrite <=> i.op \in ReadCsr
        /\ i.op \in ReadCsr => /\ e2'.res = Bit(sr'.mie)
                               /\ e2'.csrData = Written(i.op, sr', a)
        /\ BehindE2' = After(e1, a, b)
    BY <2>1, <2>3, <2>4, <2>5, <2>6 DEF Is, CsrOps, ReadCsr, JumpOps, i
  <2>9. After(e1, a, b) = IF Taken(i.op, a, b) THEN i.target ELSE NextPc(e1.pc)
    BY DEF After, i
  <2> QED
    BY <2>1, <2>2, <2>8, <2>9 DEF SemE2, After
<1> QED
  BY <1>1, <1>2, <1>3

(***************************************************************************)
(* What the load/store unit is given is the operation of the instruction   *)
(* that enters E1, and it holds it while the stages are held.              *)
(***************************************************************************)
LEMMA OperationGiven ==
    ASSUME LockInv, NEW accept \in BOOLEAN, Cycle(TRUE, accept),
           ~take_interrupt_q, fetch_instr.op \in MemOps
    PROVE  mem_q' = OperationOf(fetch_instr, OperandA, OperandB)
<1> USE DEF LockInv, LinkInv, ControlInv
<1>1. ~PipeStall /\ ~Squash /\ ~Lsu!Stall(accept)
  BY IssueWhen DEF Cycle
<1>2. ~Lsu!Delay /\ ~(Lsu!Requesting /\ ~accept)
  BY <1>1 DEF Lsu!Stall
<1>3. mem_ack # "ERROR"
  BY <1>2, DueNow, WiresNow
<1>4. ~mem_unaligned_e2_q
  <2>1. CASE InE2
    <3>1. e2.valid
      BY <2>1, Kinds DEF Control, Exceptions, InE2, Is
    <3> QED
      BY <1>1, <2>1, <3>1, WiresNow DEF Squash, E2Exception, InE2
  <2>2. CASE ~InE2
    BY <2>2 DEF Links
  <2> QED
    BY <2>1, <2>2
<1>5. mem_q' = Decoded(TRUE)
  BY <1>2, <1>3, <1>4, DueNext
<1> QED
  BY <1>5, LsuKinds DEF Decoded, Launched, LsuOperation, OperationOf

LEMMA OperationHeld ==
    ASSUME LockInv, NEW issued \in BOOLEAN, NEW accept \in BOOLEAN,
           Cycle(issued, accept), PipeStall, InE1
    PROVE  mem_q' = mem_q
<1> USE DEF LockInv, LinkInv, ControlInv
<1>1. InE2 /\ ~Lsu!WritebackValid
  BY Kinds DEF PipeStall, InE1, InE2, Is
<1>2. mem_ack = "NONE" /\ ~mem_unaligned_e2_q
  BY <1>1, WiresNow
<1>3. Lsu!Delay
  BY <1>1, <1>2, DueNow, WiresNow, LsuKinds DEF Links, DueToE2
<1>4. mem_q.op \in MemOps
  BY DEF Links, InE1, Is
<1> QED
  BY <1>2, <1>3, <1>4, DueNext

(***************************************************************************)
(* The instruction that enters E1 was given what it will find.             *)
(***************************************************************************)
LEMMA SemE1Next ==
    ASSUME LockInv, NEW issued \in BOOLEAN, NEW accept \in BOOLEAN,
           Cycle(issued, accept)
    PROVE  SemE1'
<1> USE DEF LockInv, LinkInv, ControlInv
<1>1. CASE PipeStall
  <2>1. e1' = e1 /\ e2' = e2 /\ ArchGpr' = ArchGpr /\ ~issued
    BY <1>1, Held, GprNext
  <2>2. fetch_pc' = fetch_pc
    BY <1>1, <2>1, HeldInPeace, FetchHeld
  <2>3. e1.live => sr' = sr
    BY CsrsKept
  <2>4. InE1 => mem_q' = mem_q
    BY <1>1, OperationHeld
  <2>5. csr_e1' = NoCsr /\ ~Is(e1, CsrOps)
    BY <1>1, <2>1, CsrMoves DEF CsrNeverWaits, Cycle, Clock, CsrUnit, Launched
  <2>6. Is(e1, ReadCsr) => FALSE
    BY <2>5 DEF Is, ReadCsr, CsrOps
  <2> QED
    BY <2>1, <2>2, <2>3, <2>4, <2>5, <2>6
       DEF Semantics, SemE1, Src, After, OperationOf, Is, InE1, NoCsr
<1>2. CASE ~PipeStall
  <2> SUFFICES ASSUME e1'.live, ~e1'.intr PROVE SemE1'
    BY DEF SemE1
  <2>1. issued = TRUE /\ ~take_interrupt_q
    <3>1. take_interrupt_q \in BOOLEAN
      BY DEF PipeInv, TypeOK
    <3> QED
      BY <1>2, <3>1, E1Next
  <2>2. Cycle(TRUE, accept) /\ CanIssue(accept)
    BY <2>1 DEF Cycle
  <2>3. /\ e1'.instr = fetch_instr /\ e1'.pc = fetch_pc /\ e1'.res = AluResult
        /\ fetch_instr.op = "MUL" => e1'.mul = Compute("MUL", OperandA, OperandB)
    BY <2>2, E1Issued
  <2>4. PICK ra \in {fetch_instr.ra} : TRUE
    OBVIOUS
  <2>5. PICK rb \in {fetch_instr.rb} : TRUE
    OBVIOUS
  <2>6. OperandA = Src(ra)' /\ OperandB = Src(rb)'
    BY <2>2, <2>4, <2>5, Forwarded DEF OperandA, OperandB
  <2>7. sr' = sr
    BY <2>1, CsrsKept
  <2>8. csr_e1' = CsrResult(fetch_instr.op, OperandA)
    BY <2>1 DEF Cycle, Clock, CsrUnit, Launched
  <2>9. fetch_instr.op \in MemOps =>
            mem_q' = OperationOf(fetch_instr, OperandA, OperandB)
    BY <2>1, <2>2, OperationGiven
  <2>10. fetch_pc' = IF Taken(fetch_instr.op, OperandA, OperandB)
                     THEN fetch_instr.target ELSE NextPc(fetch_pc)
    BY <2>1, <2>2, FetchMoved
  <2>11. Is(e2, Late)' => Dest(e2)' \notin {ra, rb}
    <3>1. ~Squash
      BY <2>2, IssueWhen
    <3>2. /\ e2'.live = e1.live /\ e2'.intr = e1.intr
          /\ e2'.instr = e1.instr /\ Dest(e2)' = Dest(e1)
      BY <1>2, <3>1, E2Advanced
    <3> QED
      BY <2>2, <2>4, <2>5, <3>2, Dependencies DEF Is, E1Rd
  <2> QED
    BY <2>3, <2>4, <2>5, <2>6, <2>7, <2>8, <2>9, <2>10, <2>11
       DEF SemE1, Src, After, OperationOf, AluResult, CsrResult, NoCsr, ReadCsr,
           JumpOps
<1> QED
  BY <1>1, <1>2
(***************************************************************************)
(* The operation of the instruction that comes to E2 is the one in the     *)
(* unit or, from then on, the one the port owes an answer to.              *)
(***************************************************************************)
LEMMA MemE2Next ==
    ASSUME LockInv, NEW issued \in BOOLEAN, NEW accept \in BOOLEAN,
           Cycle(issued, accept)
    PROVE  MemE2'
<1> USE DEF LockInv, LinkInv, ControlInv
<1>1. outst' = IF Takes(accept) THEN <<mem_q>>
               ELSE IF Lsu!Answered THEN <<>> ELSE outst
  BY OwedNext
<1>2. mem_q' \in {Lsu!Nothing, mem_q, Decoded(issued)}
  BY DueNext
<1>3. <<mem_q>> # <<>> /\ Head(<<mem_q>>) = mem_q
  OBVIOUS
<1>4. CASE PipeStall
  <2> SUFFICES ASSUME InE2' PROVE MemE2'
    BY DEF MemE2
  <2>1. /\ e1' = e1 /\ e2' = e2 /\ ArchGpr' = ArchGpr /\ ~issued
        /\ InE1' = InE1 /\ InE2
    BY <1>4, Held, GprNext DEF InE1, InE2, Is
  <2>2. Decoded(issued).op = "NONE"
    BY <2>1, DecodedOp
  <2>3. ~Lsu!WritebackValid
    BY <1>4, <2>1 DEF PipeStall, Links
  <2>4. InE1 => ~Takes(accept)
    <3>1. InE1 => Lsu!Delay /\ mem_q.op \in MemOps
      BY <2>1, <2>3, DueNow, WiresNow, LsuKinds DEF Links, DueToE2, InE1, Is
    <3> QED
      BY <3>1, WiresNow, LsuKinds DEF Takes
  <2>5. Takes(accept) => mem_q.op # "NONE"
    BY LsuKinds, WiresNow DEF Takes
  <2> QED
    BY <1>1, <1>2, <1>3, <2>1, <2>2, <2>3, <2>4, <2>5, WiresNow, LsuKinds
       DEF Semantics, MemE2
<1>5. CASE ~PipeStall /\ Squash
  <2>1. ~InE2'
    BY <1>5, E2Next DEF InE2, Is
  <2> QED
    BY <2>1 DEF MemE2
<1>6. CASE ~PipeStall /\ ~Squash
  <2> SUFFICES ASSUME InE2' PROVE MemE2'
    BY DEF MemE2
  <2> DEFINE i == e1.instr
             x == OperationOf(i, Src(i.ra), Src(i.rb))
  <2>1. InE1 /\ e2'.instr = i /\ e1.live /\ ~e1.intr
    BY <1>6, E2Advanced DEF InE1, InE2, Is
  <2>2. ArchGpr'[i.ra] = Src(i.ra) /\ ArchGpr'[i.rb] = Src(i.rb)
    BY <1>6, <2>1, SourcesKept
  <2>3. mem_q = x
    BY <2>1 DEF Semantics, SemE1, InE1, Is
  <2>4. ~InE1' => Decoded(issued).op = "NONE"
    BY <1>6, <2>1, DecodedOp, LsuKinds DEF OpKinds
  <2>5. outst = <<>> \/ Lsu!Answered
    <3>1. CASE InE2
      BY <1>6, <3>1, DueNow, WiresNow DEF PipeStall, InE2
    <3>2. CASE ~InE2
      BY <2>1, <3>2, DueNow DEF Links
    <3> QED
      BY <3>1, <3>2
  <2> HIDE DEF i, x
  <2>6. /\ ~InE1' /\ mem_q'.op # "NONE" => mem_q' = x
        /\ outst' # <<>> => Head(outst') = x
    BY <1>1, <1>2, <1>3, <2>3, <2>4, <2>5, LsuKinds
  <2>7. OperationOf(e2.instr, ArchGpr[e2.instr.ra], ArchGpr[e2.instr.rb])' = x
    BY <2>1, <2>2 DEF OperationOf, x, i
  <2> QED
    BY <2>6, <2>7 DEF MemE2
<1> QED
  BY <1>4, <1>5, <1>6
(***************************************************************************)
(* The divide unit.  A division replaced by an interrupt starts it all the *)
(* same, and its answer would meet a division of the handler: a program    *)
(* has no interrupts or no divisions.                                      *)
(***************************************************************************)
DivAlone == Raised = {} \/ \A i \in Instrs : i.op # "DIV"

LEMMA DivStarted ==
    ASSUME DivAlone, LockInv, NEW accept \in BOOLEAN, Cycle(TRUE, accept),
           fetch_instr.op = "DIV"
    PROVE  DivE1'
<1> USE DEF LockInv, LinkInv, ControlInv
<1>1. ~div_pending_q /\ ~Squash /\ ~branch_q
  BY IssueWhen DEF Cycle
<1>2. ~take_interrupt_q
  <2>1. fetch_instr \in Instrs
    BY Fetched DEF AnyInstr, NoInstr
  <2> QED
    BY <1>1, <2>1 DEF DivAlone, Semantics, Replaced, Waiting, InterruptPending
<1>3. e1'.live /\ ~e1'.intr /\ e1'.instr = fetch_instr
  BY <1>2, E1Issued
<1>4. ~div_busy /\ ~div_valid
  BY <1>1 DEF Semantics, DivE1
<1>5. /\ div_busy' = TRUE /\ div_valid' = FALSE
      /\ div_answer' = Compute("DIV", OperandA, OperandB)
  BY <1>4 DEF Cycle, Clock, Div!DivStart, Div!DivAnswer, Div!DivComplete
<1>6. div_pending_q'
  BY <1>1 DEF Cycle, Clock, Pending
<1>7. PICK ra \in {fetch_instr.ra} : TRUE
  OBVIOUS
<1>8. PICK rb \in {fetch_instr.rb} : TRUE
  OBVIOUS
<1>9. OperandA = Src(ra)' /\ OperandB = Src(rb)'
  BY <1>7, <1>8, Forwarded DEF OperandA, OperandB
<1> QED
  BY <1>3, <1>5, <1>6, <1>7, <1>8, <1>9 DEF DivE1, Src, Is

LEMMA DivE1Next ==
    ASSUME DivAlone, LockInv, NEW issued \in BOOLEAN, NEW accept \in BOOLEAN,
           Cycle(issued, accept)
    PROVE  DivE1'
<1> USE DEF LockInv, LinkInv, ControlInv
<1>1. CASE issued /\ fetch_instr.op = "DIV"
  BY <1>1, DivStarted
<1>2. CASE ~(issued /\ fetch_instr.op = "DIV")
  <2>1. /\ div_busy' = (div_busy /\ ~Div!DivComplete)
        /\ div_answer' = div_answer
        /\ div_valid' = Div!DivComplete
        /\ div_value' = IF Div!DivComplete THEN div_answer ELSE div_value
        /\ div_pending_q' = (~Squash /\ div_pending_q /\ ~div_valid)
    BY <1>2 DEF Cycle, Clock, Pending, Div!DivRun, Div!DivAnswer
  <2>2. CASE ~Is(e1, {"DIV"})
    <3>1. ~div_busy' /\ ~div_valid'
      BY <2>1, <2>2 DEF Semantics, DivE1, Div!DivComplete
    <3>2. ~Is(e1, {"DIV"})'
      <4>1. CASE PipeStall
        BY <2>2, <4>1, Held DEF Is
      <4>2. CASE ~PipeStall
        BY <1>2, <4>2, E1Next DEF Is
      <4> QED
        BY <4>1, <4>2
    <3> QED
      BY <3>1, <3>2 DEF DivE1
  <2>3. CASE Is(e1, {"DIV"}) /\ ~div_valid
    <3>1. PipeStall
      BY <2>3 DEF PipeStall
    <3>2. e1' = e1 /\ e2' = e2 /\ ArchGpr' = ArchGpr /\ ~Squash
      BY <3>1, Held, GprNext, HeldInPeace
    <3>3. Div!DivComplete => div_busy
      BY DEF Div!DivComplete
    <3> QED
      BY <2>1, <2>3, <3>2, <3>3 DEF Semantics, DivE1, Src, Is
  <2>4. CASE Is(e1, {"DIV"}) /\ div_valid
    <3>1. div_pending_q /\ ~div_busy
      BY <2>4 DEF Semantics, DivE1
    <3>2. ~PipeStall /\ ~issued
      <4>1. ~issued
        BY <3>1, IssueWhen DEF Cycle
      <4> QED
        BY <2>4, <4>1 DEF Links, PipeStall, InE2
    <3>3. ~Is(e1, {"DIV"})'
      BY <3>2, E1Next DEF Is
    <3> QED
      BY <2>1, <3>1, <3>3 DEF DivE1, Div!DivComplete
  <2> QED
    BY <2>2, <2>3, <2>4
<1> QED
  BY <1>1, <1>2
LEMMA PresentNext ==
    ASSUME LockInv, NEW issued \in BOOLEAN, NEW accept \in BOOLEAN,
           Cycle(issued, accept)
    PROVE  Present'
<1> USE DEF LockInv, LinkInv, ControlInv, Semantics
<1>1. fetch_valid' => fetch_instr' \in Instrs
  <2>1. \/ fetch_valid' = FALSE
        \/ fetch_instr' \in Instrs
        \/ fetch_valid' = fetch_valid /\ fetch_instr' = fetch_instr
    BY DEF Cycle, Clock, FrontEnd, Front!FrontEdge, Front!Redirect,
           Front!Show, Front!frontVars
  <2> QED
    BY <2>1 DEF Present
<1>2. CASE PipeStall
  BY <1>1, <1>2, Held DEF Present
<1>3. CASE ~PipeStall
  <2>1. e1'.live => e1'.instr \in Instrs
    BY <1>3, E1Next, IssueWhen DEF Present, Cycle
  <2>2. e2'.live => e2'.instr \in Instrs
    BY <1>3, E2Next DEF Present
  <2> QED
    BY <1>1, <2>1, <2>2 DEF Present
<1> QED
  BY <1>2, <1>3

-----------------------------------------------------------------------------
(***************************************************************************)
(* LockInv is inductive.                                                   *)
(***************************************************************************)
LEMMA InitLock == Init => LockInv
<1> SUFFICES ASSUME Init PROVE LockInv
  OBVIOUS
<1>1. LinkInv
  BY InitLinks
<1>2. Semantics
  BY DEF Init, Semantics, SemE2, MemE2, SemE1, DivE1, Replaced, Present,
         Div!DivInit, InE2, Is, Bubble
<1> QED
  BY <1>1, <1>2 DEF LockInv

LEMMA StepLock ==
    ASSUME DivAlone
    PROVE  LockInv /\ [Next]_vars /\ [StaysUp]_vars => LockInv'
<1> SUFFICES ASSUME LockInv, [Next]_vars, [StaysUp]_vars PROVE LockInv'
  OBVIOUS
<1>1. LinkInv'
  BY StepLinks DEF LockInv
<1>2. CASE UNCHANGED vars
  <2>1. ArchGpr' = ArchGpr
    BY <1>2 DEF vars, pipeVars, ArchGpr, Dest
  <2>2. /\ e1' = e1 /\ e2' = e2 /\ fetch_pc' = fetch_pc /\ sr' = sr
        /\ fetch_valid' = fetch_valid /\ fetch_instr' = fetch_instr
        /\ csr_e1' = csr_e1 /\ mip' = mip /\ mem_q' = mem_q /\ outst' = outst
        /\ div_pending_q' = div_pending_q /\ div_busy' = div_busy
        /\ div_answer' = div_answer /\ div_valid' = div_valid
        /\ div_value' = div_value
    BY <1>2 DEF vars, frontVars, pipeVars, csrVars, lsuVars, divVars
  <2>3. SemE2' /\ SemE1'
    BY <2>1, <2>2 DEF LockInv, Semantics, SemE2, SemE1, BehindE2, After, Src,
                      OperationOf, Is
  <2>4. MemE2' /\ DivE1' /\ Replaced' /\ Present'
    BY <2>1, <2>2 DEF LockInv, Semantics, MemE2, DivE1, Replaced, Present, Src,
                      InE1, InE2, OperationOf, InterruptPending, Is
  <2> QED
    BY <1>1, <2>3, <2>4 DEF LockInv, Semantics
<1>3. CASE Next
  <2>1. PICK issued \in BOOLEAN, accept \in Accepts : Cycle(issued, accept)
    BY <1>3, Cycles
  <2>2. accept \in BOOLEAN
    BY DEF Accepts
  <2>3. SemE2' /\ MemE2' /\ SemE1' /\ DivE1' /\ Replaced' /\ Present'
    BY <2>1, <2>2, SemE2Next, MemE2Next, SemE1Next, DivE1Next, ReplacedNext,
       PresentNext
  <2> QED
    BY <1>1, <2>3 DEF LockInv, Semantics
<1> QED
  BY <1>2, <1>3
-----------------------------------------------------------------------------
(***************************************************************************)
(* Memory: it changes when the port acknowledges a store, and that store   *)
(* is the instruction in E2.                                               *)
(***************************************************************************)
LEMMA MemoryNext ==
    ASSUME LockInv, NEW issued \in BOOLEAN, NEW accept \in BOOLEAN,
           Cycle(issued, accept)
    PROVE  mem' = IF mem_ack = "OK" /\ Is(e2, {"STORE"})
                  THEN [mem EXCEPT ![ArchGpr[e2.instr.ra]] =
                                       ArchGpr[e2.instr.rb]]
                  ELSE mem
<1> USE DEF LockInv, LinkInv, ControlInv
<1>1. mem' = IF mem_ack = "OK" /\ Head(outst).op = "STORE"
             THEN [mem EXCEPT ![Head(outst).addr] = Head(outst).data] ELSE mem
  BY DEF Cycle, Clock, Lsu!Edge, Lsu!Port
<1>2. ASSUME mem_ack = "OK"
      PROVE  /\ Head(outst).op = "STORE" <=> Is(e2, {"STORE"})
             /\ InE2 => Head(outst) = OperationOf(e2.instr,
                             ArchGpr[e2.instr.ra], ArchGpr[e2.instr.rb])
  <2>1. outst # <<>> /\ Lsu!Answered
    BY <1>2, DueNow, WiresNow
  <2>2. IF Head(outst).op \in Lsu!CacheOps THEN ~InE2
        ELSE Is(e2, {Head(outst).op}) /\ e2.valid
    BY <2>1, LinksMeet DEF AnswerMeetsE2, InE2
  <2>3. Head(outst).op = "STORE" <=> Is(e2, {"STORE"})
    BY <2>2 DEF Is, InE2, MemOps, StoreOps, Lsu!CacheOps
  <2> QED
    BY <2>1, <2>3 DEF Semantics, MemE2
<1>3. CASE mem_ack = "OK" /\ Is(e2, {"STORE"})
  <2>1. InE2 /\ e2.instr.op = "STORE"
    BY <1>3 DEF InE2, Is, MemOps, StoreOps
  <2>2. /\ Head(outst).addr = ArchGpr[e2.instr.ra]
        /\ Head(outst).data = ArchGpr[e2.instr.rb]
    BY <1>2, <1>3, <2>1 DEF OperationOf
  <2> QED
    BY <1>1, <1>2, <1>3, <2>2
<1>4. CASE ~(mem_ack = "OK" /\ Is(e2, {"STORE"}))
  BY <1>1, <1>2, <1>4
<1> QED
  BY <1>3, <1>4

(***************************************************************************)
(* What the load/store unit answers the load or store in E2.               *)
(***************************************************************************)
LEMMA Answering ==
    ASSUME LockInv, InE2, ~PipeStall
    PROVE  LET op == e2.instr.op
           IN  /\ op = "LOAD" =>
                    IF mem_ack = "ERROR" THEN E2Exception = "LOAD_FAULT"
                    ELSE /\ E2Exception = "NONE"
                         /\ Committed = mem[ArchGpr[e2.instr.ra]]
               /\ op = "STORE" =>
                    IF mem_ack = "ERROR" THEN E2Exception = "STORE_FAULT"
                    ELSE E2Exception = "NONE" /\ mem_ack = "OK"
               /\ op \in Lsu!Misaligned => E2Exception = op /\ mem_ack = "NONE"
<1> USE DEF LockInv, LinkInv, ControlInv
<1>1. Lsu!WritebackValid
  BY DEF PipeStall, InE2
<1>2. e2.valid /\ e2.live /\ ~e2.intr /\ e2.instr.op \in MemOps
  BY Kinds DEF Control, Exceptions, InE2, Is
<1>3. E2Exception = Lsu!WritebackException
  BY <1>1, <1>2 DEF E2Exception, InE2
<1>4. DueToE2
  <2>1. mem_ack # "NONE" \/ mem_unaligned_e2_q
    BY <1>1, WiresNow
  <2>2. DueOp # "NONE" \/ mem_unaligned_e2_q
    BY <2>1, DueNow
  <2> QED
    BY <2>2 DEF Links
<1>5. CASE e2.instr.op \in Lsu!Misaligned
  <2>1. /\ mem_unaligned_e2_q
        /\ Head(fifo).load <=> e2.instr.op = "LOAD_MISALIGNED"
    BY <1>4, <1>5, LsuKinds DEF DueToE2
  <2>2. mem_ack = "NONE" /\ outst = <<>>
    BY <2>1, DueNow
  <2>3. fifo # <<>>
    <3>1. Lsu!FifoInStep
      BY LsuPromises DEF PipeInv
    <3>2. Len(fifo) = 1
      BY <2>1, <2>2, <3>1 DEF Lsu!FifoInStep
    <3> QED
      BY <3>2
  <2> QED
    BY <1>3, <1>5, <2>1, <2>2, <2>3
       DEF Lsu!WritebackException, Lsu!Resp, Lsu!Misaligned
<1>6. CASE e2.instr.op \in Lsu!Aligned
  <2>1. DueOp = e2.instr.op /\ ~mem_unaligned_e2_q
    BY <1>4, <1>6 DEF DueToE2
  <2>2. mem_ack \in {"OK", "ERROR"} /\ outst # <<>>
    BY <1>1, <2>1, DueNow, WiresNow
  <2>3. Head(outst) = OperationOf(e2.instr, ArchGpr[e2.instr.ra],
                                  ArchGpr[e2.instr.rb])
    BY <2>2 DEF Semantics, MemE2
  <2>4. fifo # <<>> /\ (Head(fifo).load <=> e2.instr.op = "LOAD")
    <3>1. Lsu!FifoInStep /\ Lsu!TypeOK
      BY LsuPromises DEF PipeInv
    <3>2. Len(outst) >= 1 /\ Len(outst) \in Nat /\ Head(outst) = outst[1]
      BY <2>2, <3>1 DEF Lsu!TypeOK
    <3>3. Len(fifo) >= 1 /\ fifo[1] = Lsu!Tag(Head(outst))
      BY <3>1, <3>2 DEF Lsu!FifoInStep
    <3>4. fifo # <<>> /\ Head(fifo) = fifo[1]
      BY <3>1, <3>3 DEF Lsu!TypeOK
    <3>5. Head(outst).op = e2.instr.op
      BY <2>3 DEF OperationOf
    <3>6. Head(fifo).load = (e2.instr.op \in Lsu!Loads)
      BY <3>3, <3>4, <3>5 DEF Lsu!Tag
    <3> QED
      BY <1>6, <3>4, <3>6 DEF Lsu!Loads, Lsu!Aligned
  <2>5. E2Exception = IF mem_ack = "ERROR"
                      THEN IF e2.instr.op = "LOAD" THEN "LOAD_FAULT"
                                                   ELSE "STORE_FAULT"
                      ELSE "NONE"
    BY <1>3, <2>1, <2>4 DEF Lsu!WritebackException, Lsu!Resp
  <2>6. e2.instr.op = "LOAD" /\ mem_ack = "OK" =>
            Committed = mem[ArchGpr[e2.instr.ra]]
    BY <1>2, <2>1, <2>3, <2>4
       DEF Committed, InE2, MemResult, Lsu!WritebackValue, Lsu!Resp,
           Lsu!Answered, OperationOf
  <2> QED
    BY <1>6, <2>2, <2>5, <2>6, LsuKinds DEF Lsu!Misaligned
<1> QED
  BY <1>2, <1>5, <1>6, LsuKinds
-----------------------------------------------------------------------------
(***************************************************************************)
(* The architectural state around an instruction that enters WB.           *)
(***************************************************************************)
LEMMA Entering ==
    ASSUME LockInv, NEW issued \in BOOLEAN, NEW accept \in BOOLEAN,
           Cycle(issued, accept), Retires
    PROVE  /\ ArchPc = e2.pc
           /\ CsrAfter = [sr |-> sr, mepc |-> mepc, mcause |-> mcause]
           /\ sr' = sr /\ mepc' = mepc /\ mcause' = mcause
           /\ InterruptPending => InterruptPending'
           /\ wb'.exc = E2Exception /\ wb'.pc = e2.pc
           /\ wb'.csrWrite = e2.csrWrite /\ wb'.csrData = e2.csrData
           /\ ArchPc' = IF E2Exception # "NONE" THEN CsrTarget' ELSE BehindE2
<1> USE DEF LockInv, LinkInv, ControlInv
<1>1. e2.live /\ ~PipeStall
  BY DEF Retires
<1>2. /\ wb.exc = "NONE" /\ ~squash_e1_e2_q /\ ~branch_q
      /\ CsrAfter = [sr |-> sr, mepc |-> mepc, mcause |-> mcause]
      /\ InterruptPending => InterruptPending'
  BY <1>1, CsrsKept
<1>3. sr' = sr /\ mepc' = mepc /\ mcause' = mcause /\ ~branch_q'
  BY <1>2, CsrsNext
<1>4. /\ wb'.exc = E2Exception /\ wb'.pc = e2.pc
      /\ wb'.csrWrite = e2.csrWrite /\ wb'.csrData = e2.csrData
  BY <1>1, WbCommitted
<1>5. ArchPc = e2.pc
  BY <1>1, <1>2 DEF ArchPc
<1>6. CASE E2Exception # "NONE"
  BY <1>2, <1>3, <1>4, <1>5, <1>6 DEF ArchPc
<1>7. CASE E2Exception = "NONE"
  <2>1. ~Squash
    BY <1>2, <1>7 DEF Squash
  <2>2. e2'.live = e1.live /\ e2'.pc = e1.pc
    BY <1>1, <2>1, E2Advanced
  <2>3. IF issued THEN e1'.live /\ e1'.pc = fetch_pc
                  ELSE ~e1'.live /\ fetch_pc' = fetch_pc
    <3>1. CASE issued
      BY <3>1, E1Issued
    <3>2. CASE ~issued
      BY <1>1, <1>2, <2>1, <3>2, E1Next, FetchHeld
    <3> QED
      BY <3>1, <3>2
  <2>4. ArchPc' = BehindE2
    BY <1>3, <1>4, <1>7, <2>2, <2>3 DEF ArchPc, BehindE2
  <2> QED
    BY <1>2, <1>3, <1>4, <1>5, <1>7, <2>4
<1> QED
  BY <1>6, <1>7

(***************************************************************************)
(* A trap: the CSR file enters it as the simulator does.                   *)
(***************************************************************************)
LEMMA Trapping ==
    ASSUME LockInv, NEW issued \in BOOLEAN, NEW accept \in BOOLEAN,
           Cycle(issued, accept), Retires, mem' = mem,
           E2Exception \in Traps \/ (E2Exception = "INTERRUPT" /\ InterruptPending)
    PROVE  Sim!Trap(E2Exception)
<1> USE DEF LockInv, LinkInv, ControlInv
<1>1. E2Exception \notin {"NONE", "MRET", "FENCE"}
  BY DEF Traps, Causes
<1>2. ArchGpr' = ArchGpr
  BY <1>1, GprNext DEF Retires
<1>3. /\ CsrAfter'.sr = [mie |-> FALSE, mpie |-> sr'.mie]
      /\ CsrAfter'.mepc = wb'.pc
      /\ CsrAfter'.mcause = E2Exception
  <2>1. wb'.exc = E2Exception /\ (InterruptPending => InterruptPending')
    BY Entering
  <2>2. CASE E2Exception = "INTERRUPT" /\ InterruptPending
    BY <2>1, <2>2 DEF CsrAfter
  <2>3. CASE E2Exception \in Traps
    <3>1. E2Exception # "INTERRUPT" /\ wb'.exc \in Traps
      BY <2>1, <2>3 DEF Traps
    <3> QED
      BY <2>1, <3>1 DEF CsrAfter, Traps, Causes
  <2> QED
    BY <2>2, <2>3
<1>4. CsrTarget' = TrapVector
  BY <1>1, Entering DEF CsrTarget
<1>5. /\ CsrAfter.sr = sr' /\ ArchPc = wb'.pc /\ ArchPc' = TrapVector
  BY <1>1, <1>4, Entering
<1> QED
  BY <1>2, <1>3, <1>5 DEF Sim!Trap

(***************************************************************************)
(* No trap: the register the instruction names gets what it commits, and   *)
(* the next instruction is the one it was issued with.                     *)
(***************************************************************************)
LEMMA Committing ==
    ASSUME LockInv, NEW issued \in BOOLEAN, NEW accept \in BOOLEAN,
           Cycle(issued, accept), Retires, ~e2.intr, E2Exception = "NONE"
    PROVE  LET i == e2.instr
           IN  /\ ArchGpr' = IF i.rd = 0 THEN ArchGpr
                             ELSE [ArchGpr EXCEPT ![i.rd] = Committed]
               /\ ArchPc' = IF Taken(i.op, ArchGpr[i.ra], ArchGpr[i.rb])
                            THEN i.target ELSE NextPc(e2.pc)
               /\ CsrAfter'.mepc = CsrAfter.mepc
               /\ CsrAfter'.mcause = CsrAfter.mcause
               /\ CsrAfter'.sr = IF i.op \in ReadCsr THEN e2.csrData
                                 ELSE CsrAfter.sr
<1> USE DEF LockInv, LinkInv, ControlInv
<1>1. e2.live /\ ~PipeStall
  BY DEF Retires
<1>2. e2.exc = "NONE"
  BY <1>1, Kinds DEF E2Exception, Control, Exceptions, ExceptionOf, InE2, Is
<1>3. e2.valid
  BY <1>1, <1>2 DEF Control, Exceptions, ExceptionOf
<1>4. ArchGpr' = IF e2.instr.rd = 0 THEN ArchGpr
                 ELSE [ArchGpr EXCEPT ![e2.instr.rd] = Committed]
  BY <1>1, <1>3, GprNext DEF Dest
<1>5. ArchPc' = After(e2, ArchGpr[e2.instr.ra], ArchGpr[e2.instr.rb])
  BY <1>1, <1>2, Entering DEF Semantics, SemE2
<1>6. wb'.exc = "NONE" /\ wb'.csrData = e2.csrData
      /\ (wb'.csrWrite <=> e2.instr.op \in ReadCsr)
  BY <1>1, Entering DEF Semantics, SemE2
<1>7. /\ CsrAfter'.mepc = mepc' /\ CsrAfter'.mcause = mcause'
      /\ CsrAfter'.sr = IF e2.instr.op \in ReadCsr THEN e2.csrData ELSE sr'
  BY <1>6 DEF CsrAfter, Traps
<1> QED
  BY <1>4, <1>5, <1>7, Entering DEF After
-----------------------------------------------------------------------------
(***************************************************************************)
(* The simulator's step for every class of instructions.                   *)
(***************************************************************************)
LEMMA SameIsa ==
    /\ Sim!LoadOps = LoadOps /\ Sim!StoreOps = StoreOps
    /\ \A p : Sim!NextPc(p) = NextPc(p)
BY DEF Sim!LoadOps, Sim!StoreOps, Sim!NextPc, LoadOps, StoreOps, NextPc

LEMMA NoFault ==
    ASSUME LockInv, e2.live, ~e2.intr, ~InE2
    PROVE  /\ e2.instr \in Instrs /\ e2.instr.op \in Ops \ MemOps
           /\ E2Exception = IF e2.instr.op = "FETCH_FAULT" THEN "FETCH_FAULT"
                            ELSE CsrException(e2.instr.op)
           /\ e2.instr.op # "FETCH_FAULT" => e2.valid
           /\ e2.instr.rd # 0 => e2.instr.op \in Writers
<1>1. e2.instr \in Instrs
  BY DEF LockInv, Semantics, Present
<1>2. e2.instr.op \in Ops /\ (e2.instr.rd # 0 => e2.instr.op \in Writers)
  BY <1>1, IsaAssumption DEF Instruction
<1> QED
  BY <1>1, <1>2 DEF LockInv, LinkInv, ControlInv, Control, Exceptions,
                    ExceptionOf, E2Exception, InE2, Is

LEMMA Computes ==
    ASSUME LockInv, NEW issued \in BOOLEAN, NEW accept \in BOOLEAN,
           Cycle(issued, accept), Retires, ~e2.intr,
           e2.instr.op \in AluOps \cup JumpOps
    PROVE  Sim!ExecArith(e2.instr) \/ Sim!ExecJump(e2.instr)
<1>1. e2.live /\ ~InE2 /\ e2.instr.op \notin MemOps \cup CsrOps
  BY DEF Retires, InE2, Is, MemOps, LoadOps, StoreOps, CsrOps, AluOps, JumpOps
<1>2. E2Exception = "NONE" /\ e2.valid
  BY <1>1, NoFault, Kinds
<1>3. mem' = mem
  BY <1>1, MemoryNext DEF Is, MemOps, StoreOps
<1>4. Committed = IF e2.instr.op = "MUL" THEN e2.mul ELSE e2.res
  BY <1>1, <1>2 DEF Committed, Is
<1>5. /\ e2.instr.op \in AluOps =>
            Committed = Compute(e2.instr.op, ArchGpr[e2.instr.ra],
                                ArchGpr[e2.instr.rb])
      /\ e2.instr.op \in JumpOps => Committed = Word(NextPc(ArchPc))
  BY <1>1, <1>4, Entering
     DEF LockInv, Semantics, SemE2, AluOps, JumpOps
<1>6. /\ ArchGpr' = IF e2.instr.rd = 0 THEN ArchGpr
                    ELSE [ArchGpr EXCEPT ![e2.instr.rd] = Committed]
      /\ ArchPc' = IF Taken(e2.instr.op, ArchGpr[e2.instr.ra],
                            ArchGpr[e2.instr.rb])
                   THEN e2.instr.target ELSE NextPc(ArchPc)
      /\ CsrAfter'.sr = CsrAfter.sr /\ CsrAfter'.mepc = CsrAfter.mepc
      /\ CsrAfter'.mcause = CsrAfter.mcause
  <2>1. e2.instr.op \notin ReadCsr
    BY DEF ReadCsr, AluOps, JumpOps
  <2> QED
    BY <1>2, <2>1, Entering, Committing
<1>7. CASE e2.instr.op \in AluOps
  <2>1. ~Taken(e2.instr.op, ArchGpr[e2.instr.ra], ArchGpr[e2.instr.rb])
    BY <1>7 DEF Taken, AluOps
  <2>2. /\ Committed = Sim!Compute(e2.instr.op, ArchGpr[e2.instr.ra],
                                   ArchGpr[e2.instr.rb])
        /\ ArchPc' = Sim!NextPc(ArchPc)
        /\ e2.instr.op \in Sim!AluOps
    BY <1>5, <1>6, <1>7, <2>1
       DEF Sim!AluOps, AluOps, Sim!Compute, Compute, Sim!Word, Word,
           Sim!NextPc, NextPc
  <2>3. Sim!ExecArith(e2.instr)
    BY <1>3, <1>6, <2>2 DEF Sim!ExecArith, Sim!Write
  <2> QED
    BY <2>3
<1>8. CASE e2.instr.op \in JumpOps
  <2>1. /\ Committed = Sim!Word(Sim!NextPc(ArchPc))
        /\ ArchPc' = IF Sim!Taken(e2.instr.op, ArchGpr[e2.instr.ra],
                                  ArchGpr[e2.instr.rb])
                     THEN e2.instr.target ELSE Sim!NextPc(ArchPc)
        /\ e2.instr.op \in Sim!JumpOps
    BY <1>5, <1>6, <1>8
       DEF Sim!JumpOps, JumpOps, Sim!Word, Word, Sim!NextPc, NextPc,
           Sim!Taken, Taken
  <2>2. Sim!ExecJump(e2.instr)
    BY <1>3, <1>6, <2>1 DEF Sim!ExecJump, Sim!Write
  <2> QED
    BY <2>2
<1> QED
  BY <1>7, <1>8

LEMMA Loads ==
    ASSUME LockInv, NEW issued \in BOOLEAN, NEW accept \in BOOLEAN,
           Cycle(issued, accept), Retires, Is(e2, LoadOps)
    PROVE  Sim!ExecLoad(e2.instr, mem_ack = "ERROR")
<1>1. InE2 /\ ~e2.intr /\ ~PipeStall
  BY DEF Retires, InE2, Is, MemOps
<1>2. e2.instr.op \in {"LOAD", "LOAD_MISALIGNED"}
  BY DEF Is, LoadOps
<1>3. mem' = mem
  BY <1>2, MemoryNext DEF Is
<1>4. CASE e2.instr.op = "LOAD" /\ mem_ack # "ERROR"
  <2>1. E2Exception = "NONE" /\ Committed = mem[ArchGpr[e2.instr.ra]]
    BY <1>1, <1>4, Answering
  <2>2. /\ e2.instr.op \notin ReadCsr
        /\ ~Taken(e2.instr.op, ArchGpr[e2.instr.ra], ArchGpr[e2.instr.rb])
    BY <1>4 DEF ReadCsr, Taken
  <2>3. ArchPc = e2.pc
    BY Entering
  <2> QED
    BY <1>1, <1>2, <1>3, <1>4, <2>1, <2>2, <2>3, Committing, SameIsa
       DEF Sim!ExecLoad, Sim!Write, LoadOps
<1>5. CASE e2.instr.op = "LOAD" /\ mem_ack = "ERROR"
  <2>1. E2Exception = "LOAD_FAULT"
    BY <1>1, <1>5, Answering
  <2>2. Sim!Trap("LOAD_FAULT")
    BY <1>3, <2>1, Trapping DEF Traps, Causes
  <2> QED
    BY <1>5, <2>2, SameIsa DEF Sim!ExecLoad, Sim!Trap, LoadOps
<1>6. CASE e2.instr.op = "LOAD_MISALIGNED"
  <2>1. E2Exception = "LOAD_MISALIGNED"
    BY <1>1, <1>6, Answering DEF Lsu!Misaligned
  <2>2. Sim!Trap("LOAD_MISALIGNED")
    BY <1>3, <2>1, Trapping DEF Traps, Causes
  <2> QED
    BY <1>6, <2>2, SameIsa DEF Sim!ExecLoad, Sim!Trap, LoadOps
<1> QED
  BY <1>2, <1>4, <1>5, <1>6

LEMMA Stores ==
    ASSUME LockInv, NEW issued \in BOOLEAN, NEW accept \in BOOLEAN,
           Cycle(issued, accept), Retires, Is(e2, StoreOps)
    PROVE  Sim!ExecStore(e2.instr, mem_ack = "ERROR")
<1>1. InE2 /\ ~e2.intr /\ e2.live /\ ~PipeStall
  BY DEF Retires, InE2, Is, MemOps
<1>2. e2.instr.op \in {"STORE", "STORE_MISALIGNED"}
  BY DEF Is, StoreOps
<1>3. CASE e2.instr.op = "STORE" /\ mem_ack # "ERROR"
  <2>1. E2Exception = "NONE" /\ mem_ack = "OK"
    BY <1>1, <1>3, Answering
  <2>2. mem' = [mem EXCEPT ![ArchGpr[e2.instr.ra]] = ArchGpr[e2.instr.rb]]
    BY <1>1, <1>3, <2>1, MemoryNext DEF Is
  <2>3. /\ e2.instr.op \notin ReadCsr /\ e2.instr.op \notin Writers
        /\ ~Taken(e2.instr.op, ArchGpr[e2.instr.ra], ArchGpr[e2.instr.rb])
    BY <1>3 DEF ReadCsr, Taken, Writers, AluOps, LoadOps
  <2>4. e2.instr.rd = 0
    <3>1. e2.instr \in Instrs
      BY <1>1 DEF LockInv, Semantics, Present
    <3> QED
      BY <2>3, <3>1, IsaAssumption
  <2>5. ArchPc = e2.pc
    BY Entering
  <2> QED
    BY <1>1, <1>3, <2>1, <2>2, <2>3, <2>4, <2>5, Committing, SameIsa
       DEF Sim!ExecStore, StoreOps
<1>4. CASE e2.instr.op = "STORE" /\ mem_ack = "ERROR"
  <2>1. E2Exception = "STORE_FAULT" /\ mem' = mem
    BY <1>1, <1>4, Answering, MemoryNext
  <2>2. Sim!Trap("STORE_FAULT")
    BY <2>1, Trapping DEF Traps, Causes
  <2> QED
    BY <1>4, <2>2, SameIsa DEF Sim!ExecStore, Sim!Trap, StoreOps
<1>5. CASE e2.instr.op = "STORE_MISALIGNED"
  <2>1. E2Exception = "STORE_MISALIGNED" /\ mem' = mem
    BY <1>1, <1>5, Answering, MemoryNext DEF Lsu!Misaligned, Is
  <2>2. Sim!Trap("STORE_MISALIGNED")
    BY <2>1, Trapping DEF Traps, Causes
  <2> QED
    BY <1>5, <2>2, SameIsa DEF Sim!ExecStore, Sim!Trap, StoreOps
<1> QED
  BY <1>2, <1>3, <1>4, <1>5
LEMMA ReadsCsr ==
    ASSUME LockInv, NEW issued \in BOOLEAN, NEW accept \in BOOLEAN,
           Cycle(issued, accept), Retires, ~e2.intr, e2.instr.op \in ReadCsr
    PROVE  Sim!ExecCsr(e2.instr)
<1>1. e2.live /\ ~InE2 /\ e2.instr.op \in {"CSRRS", "CSRRC"}
  BY DEF Retires, InE2, Is, MemOps, LoadOps, StoreOps, ReadCsr
<1>2. E2Exception = "NONE" /\ e2.valid
  BY <1>1, NoFault, Kinds
<1>3. mem' = mem
  BY <1>1, MemoryNext DEF Is
<1>4. /\ e2.res = Bit(sr.mie)
      /\ e2.csrData = Written(e2.instr.op, sr, ArchGpr[e2.instr.ra])
  BY <1>1 DEF LockInv, Semantics, SemE2
<1>5. Committed = e2.res
  BY <1>1 DEF Committed, Is
<1>6. ~Taken(e2.instr.op, ArchGpr[e2.instr.ra], ArchGpr[e2.instr.rb])
  BY <1>1 DEF Taken
<1>7. ArchPc = e2.pc /\ CsrAfter.sr = sr
  BY Entering
<1>8. /\ ArchGpr' = IF e2.instr.rd = 0 THEN ArchGpr
                    ELSE [ArchGpr EXCEPT ![e2.instr.rd] = Bit(CsrAfter.sr.mie)]
      /\ CsrAfter'.sr = Written(e2.instr.op, CsrAfter.sr, ArchGpr[e2.instr.ra])
      /\ ArchPc' = NextPc(ArchPc)
      /\ CsrAfter'.mepc = CsrAfter.mepc /\ CsrAfter'.mcause = CsrAfter.mcause
  BY <1>2, <1>4, <1>5, <1>6, <1>7, Committing
<1> QED
  BY <1>1, <1>3, <1>8
     DEF Sim!ExecCsr, Sim!Write, Sim!Bit, Bit, Sim!Written, Written,
         Sim!NextPc, NextPc

LEMMA OtherCsr ==
    ASSUME LockInv, NEW issued \in BOOLEAN, NEW accept \in BOOLEAN,
           Cycle(issued, accept), Retires, ~e2.intr,
           e2.instr.op \in CsrOps \ ReadCsr
    PROVE  \/ Sim!ExecFence(e2.instr) \/ Sim!ExecMret(e2.instr)
           \/ Sim!ExecTrap(e2.instr)
<1>1. e2.live /\ ~InE2 /\ e2.instr.op \notin Writers
  BY DEF Retires, InE2, Is, MemOps, LoadOps, StoreOps, ReadCsr, CsrOps,
         Writers, AluOps
<1>2. /\ E2Exception = IF e2.instr.op = "FETCH_FAULT" THEN "FETCH_FAULT"
                       ELSE CsrException(e2.instr.op)
      /\ e2.instr.rd = 0
  BY <1>1, NoFault
<1>3. mem' = mem
  BY MemoryNext DEF Is, CsrOps
<1>4. E2Exception # "NONE" => ArchGpr' = ArchGpr
  BY GprNext DEF Retires, LockInv, LinkInv, ControlInv
<1>5. /\ ArchPc = e2.pc /\ wb'.exc = E2Exception /\ wb'.pc = e2.pc
      /\ CsrAfter.sr = sr' /\ CsrAfter.mepc = mepc' /\ CsrAfter.mcause = mcause'
      /\ E2Exception # "NONE" => ArchPc' = CsrTarget'
  BY Entering
<1>6. CASE e2.instr.op = "DFLUSH"
  <2>1. E2Exception = "NONE"
    BY <1>2, <1>6 DEF CsrException
  <2>2. /\ ~Taken(e2.instr.op, ArchGpr[e2.instr.ra], ArchGpr[e2.instr.rb])
        /\ e2.instr.op \notin ReadCsr
    BY <1>6 DEF Taken, ReadCsr
  <2> QED
    BY <1>2, <1>3, <1>5, <1>6, <2>1, <2>2, Committing, SameIsa
       DEF Sim!ExecFence
<1>7. CASE e2.instr.op = "FENCE_I"
  <2>1. E2Exception = "FENCE"
    BY <1>2, <1>7 DEF CsrException
  <2>2. ~wb'.csrWrite
    BY <1>1, <1>7, Entering DEF LockInv, Semantics, SemE2, ReadCsr
  <2>3. /\ CsrAfter'.sr = sr' /\ CsrAfter'.mepc = mepc'
        /\ CsrAfter'.mcause = mcause'
    BY <1>5, <2>1, <2>2 DEF CsrAfter, Traps, Causes
  <2>4. ArchPc' = NextPc(ArchPc)
    BY <1>5, <2>1 DEF CsrTarget
  <2> QED
    BY <1>3, <1>4, <1>5, <1>7, <2>1, <2>3, <2>4, SameIsa DEF Sim!ExecFence
<1>8. CASE e2.instr.op = "MRET"
  <2>1. E2Exception = "MRET"
    BY <1>2, <1>8 DEF CsrException
  <2>2. /\ CsrAfter'.sr = [mie |-> sr'.mpie, mpie |-> TRUE]
        /\ CsrAfter'.mepc = mepc' /\ CsrAfter'.mcause = mcause'
    <3>1. sr' \in Status
      BY <1>5, Entering DEF LockInv, LinkInv, ControlInv, PipeInv, TypeOK
    <3> QED
      BY <1>5, <2>1, <3>1 DEF CsrAfter, Traps, Causes, Status
  <2>3. ArchPc' = CsrAfter.mepc
    BY <1>5, <2>1 DEF CsrTarget
  <2> QED
    BY <1>3, <1>4, <1>5, <1>8, <2>1, <2>2, <2>3 DEF Sim!ExecMret
<1>9. CASE e2.instr.op \in {"ECALL", "ILLEGAL", "FETCH_FAULT", "DFLUSH_DENIED"}
  <2>1. /\ E2Exception = IF e2.instr.op = "DFLUSH_DENIED" THEN "ILLEGAL"
                         ELSE e2.instr.op
        /\ E2Exception \in Traps
    BY <1>2, <1>9 DEF CsrException, Traps, Causes
  <2>2. Sim!Trap(E2Exception)
    BY <1>3, <2>1, Trapping
  <2> QED
    BY <1>9, <2>1, <2>2 DEF Sim!ExecTrap, Sim!Trap
<1> QED
  BY <1>6, <1>7, <1>8, <1>9 DEF CsrOps, ReadCsr

LEMMA Interrupts ==
    ASSUME LockInv, NEW issued \in BOOLEAN, NEW accept \in BOOLEAN,
           Cycle(issued, accept), Retires, e2.intr
    PROVE  Sim!Interrupt
<1>1. InterruptPending /\ e2.live
  BY DEF LockInv, Semantics, Replaced
<1>2. E2Exception = "INTERRUPT"
  BY <1>1 DEF E2Exception, LockInv, LinkInv, ControlInv, Control, Exceptions,
              ExceptionOf, Is
<1>3. mem' = mem
  BY MemoryNext DEF Is
<1>4. Sim!Trap("INTERRUPT")
  BY <1>1, <1>2, <1>3, Trapping
<1>5. mip /\ CsrAfter.sr.mie
  BY <1>1, Entering DEF InterruptPending
<1> QED
  BY <1>4, <1>5 DEF Sim!Interrupt
(***************************************************************************)
(* An instruction is of one of these classes.                              *)
(***************************************************************************)
LEMMA Executes ==
    ASSUME LockInv, NEW issued \in BOOLEAN, NEW accept \in BOOLEAN,
           Cycle(issued, accept), Retires, ~e2.intr
    PROVE  Sim!Execute(e2.instr, mem_ack = "ERROR")
<1>1. e2.live /\ e2.instr \in Instrs
  BY DEF Retires, LockInv, Semantics, Present
<1>2. e2.instr.op \in Ops
  BY <1>1, IsaAssumption DEF Instruction
<1>3. CASE e2.instr.op \in AluOps \cup JumpOps
  BY <1>3, Computes DEF Sim!Execute
<1>4. CASE e2.instr.op \in LoadOps
  BY <1>1, <1>4, Loads DEF Sim!Execute, Is
<1>5. CASE e2.instr.op \in StoreOps
  BY <1>1, <1>5, Stores DEF Sim!Execute, Is
<1>6. CASE e2.instr.op \in ReadCsr
  BY <1>6, ReadsCsr DEF Sim!Execute
<1>7. CASE e2.instr.op \in CsrOps \ ReadCsr
  BY <1>7, OtherCsr DEF Sim!Execute
<1> QED
  BY <1>2, <1>3, <1>4, <1>5, <1>6, <1>7 DEF Ops

(***************************************************************************)
(* While nothing enters WB the architectural state does not change: it     *)
(* moves from the CSR file's branch to the front end, and from the front   *)
(* end along the stages.                                                   *)
(***************************************************************************)
LEMMA Between ==
    ASSUME LockInv, NEW issued \in BOOLEAN, NEW accept \in BOOLEAN,
           Cycle(issued, accept), ~Retires
    PROVE  UNCHANGED Sim!archVars
<1> USE DEF LockInv, LinkInv, ControlInv
<1>1. mem' = mem
  <2> SUFFICES ASSUME mem_ack = "OK", Is(e2, {"STORE"}) PROVE FALSE
    BY MemoryNext
  <2>1. InE2 /\ e2.live
    BY DEF InE2, Is, MemOps, StoreOps
  <2>2. ~PipeStall
    BY <2>1, WiresNow DEF PipeStall, Links, InE2
  <2> QED
    BY <2>1, <2>2 DEF Retires
<1>2. CASE PipeStall
  <2>1. /\ e1' = e1 /\ e2' = e2 /\ wb' = wb /\ ArchGpr' = ArchGpr
        /\ e1.live \/ e2.live
    BY <1>2, Held, GprNext DEF PipeStall, Is
  <2>2. /\ wb.exc = "NONE" /\ ~wb.csrWrite /\ ~branch_q
        /\ CsrAfter = [sr |-> sr, mepc |-> mepc, mcause |-> mcause]
    BY <2>1, CsrsKept
  <2>3. sr' = sr /\ mepc' = mepc /\ mcause' = mcause /\ ~branch_q'
    BY <2>2, CsrsNext
  <2>4. /\ CsrAfter'.sr = sr' /\ CsrAfter'.mepc = mepc'
        /\ CsrAfter'.mcause = mcause'
    BY <2>1, <2>2 DEF CsrAfter, Traps, Causes
  <2>5. ArchPc' = ArchPc
    BY <2>1, <2>2, <2>3 DEF ArchPc
  <2> QED
    BY <1>1, <2>1, <2>2, <2>3, <2>4, <2>5 DEF Sim!archVars
<1>3. CASE ~PipeStall
  <2>1. ~e2.live
    BY <1>3 DEF Retires
  <2>2. E2Exception = "NONE" /\ ~e2.valid /\ ~e2.csrWrite
    BY <2>1 DEF E2Exception, Control, Shapes
  <2>3. ArchGpr' = ArchGpr
    BY <1>3, <2>2, GprNext
  <2>4. wb'.exc = "NONE" /\ ~wb'.csrWrite
    BY <1>3, <2>2, WbCommitted
  <2>5. /\ sr' = CsrAfter.sr /\ mepc' = CsrAfter.mepc
        /\ mcause' = CsrAfter.mcause
        /\ branch_q' = (wb.exc # "NONE")
        /\ branch_target_q' = IF wb.exc # "NONE" THEN CsrTarget ELSE 0
    BY CsrsNext
  <2>6. /\ CsrAfter'.sr = sr' /\ CsrAfter'.mepc = mepc'
        /\ CsrAfter'.mcause = mcause'
    BY <2>4 DEF CsrAfter, Traps, Causes
  <2>7. Squash <=> wb.exc # "NONE"
    BY <2>2 DEF Squash, Control, Alone
  <2>8. ASSUME wb.exc # "NONE" PROVE ArchPc' = ArchPc
    BY <2>4, <2>5, <2>8 DEF ArchPc
  <2>9. ASSUME wb.exc = "NONE", branch_q PROVE ArchPc' = ArchPc
    <3>1. ~e1.live /\ ~issued /\ ~Squash
      BY <2>7, <2>9, IssueWhen DEF Control, Alone, Cycle
    <3>2. ~e1'.live /\ ~e2'.live
      BY <1>3, <3>1, E1Next, E2Next
    <3>3. fetch_pc' = branch_target_q
      BY <2>9 DEF Cycle, Clock, FrontEnd, Front!FrontEdge, Front!Redirect
    <3> QED
      BY <2>4, <2>5, <2>9, <3>2, <3>3 DEF ArchPc
  <2>10. ASSUME wb.exc = "NONE", ~branch_q PROVE ArchPc' = ArchPc
    <3>1. e2'.live = e1.live /\ e2'.pc = e1.pc
      BY <1>3, <2>7, <2>10, E2Advanced
    <3>2. IF issued THEN e1'.live /\ e1'.pc = fetch_pc
                    ELSE ~e1'.live /\ fetch_pc' = fetch_pc
      <4>1. CASE issued
        BY <4>1, E1Issued
      <4>2. CASE ~issued
        BY <1>3, <2>7, <2>10, <4>2, E1Next, FetchHeld
      <4> QED
        BY <4>1, <4>2
    <3> QED
      BY <2>1, <2>4, <2>5, <2>10, <3>1, <3>2 DEF ArchPc
  <2>11. ArchPc' = ArchPc
    BY <2>8, <2>9, <2>10
  <2> QED
    BY <1>1, <2>3, <2>5, <2>6, <2>11 DEF Sim!archVars
<1> QED
  BY <1>2, <1>3

-----------------------------------------------------------------------------
(***************************************************************************)
(* One step of the simulator for every instruction that enters WB, none    *)
(* otherwise.                                                              *)
(***************************************************************************)
InStep ==
    IF Retires
    THEN IF e2.intr THEN Sim!Interrupt
                    ELSE Sim!Execute(e2.instr, mem_ack = "ERROR")
    ELSE UNCHANGED Sim!archVars

LEMMA StepInStep == LockInv /\ [Next]_vars => [InStep]_vars
<1> SUFFICES ASSUME LockInv, Next PROVE InStep
  OBVIOUS
<1>1. PICK issued \in BOOLEAN, accept \in Accepts : Cycle(issued, accept)
  BY Cycles
<1>2. accept \in BOOLEAN
  BY DEF Accepts
<1> QED
  BY <1>1, <1>2, Executes, Interrupts, Between DEF InStep

(***************************************************************************)
(* The pipeline implements the simulator, for every set of instructions,   *)
(* register file, word size, choice of bypasses, memory and port timing:   *)
(* whenever an instruction enters WB the architectural state changes as    *)
(* the simulator changes it, and at no other time.  The program has no     *)
(* interrupts or no divisions, and the instruction bus does not read as a  *)
(* CSR instruction while nothing is shown behind a waiting interrupt.      *)
(***************************************************************************)
THEOREM Implements ==
    ASSUME DivAlone PROVE Spec /\ [][StaysUp]_vars => LockStep
<1>1. Init => LockInv
  BY InitLock
<1>2. LockInv /\ [Next]_vars /\ [StaysUp]_vars => LockInv'
  BY StepLock
<1>3. LockInv /\ [Next]_vars => [InStep]_vars
  BY StepInStep
<1>4. Spec /\ [][StaysUp]_vars => [][InStep]_vars
  BY <1>1, <1>2, <1>3, PTL DEF Spec
<1> QED
  BY <1>4 DEF LockStep, InStep

(***************************************************************************)
(* The same with nothing assumed of a behaviour: every program without     *)
(* interrupts, and every program without branches and divisions.           *)
(***************************************************************************)
THEOREM ImplementsUndisturbed ==
    ASSUME DivAlone, Undisturbed PROVE Spec => LockStep
BY Implements, StaysUpUndisturbed

-----------------------------------------------------------------------------
(***************************************************************************)
(* The refinement: the initial states, and every step.                     *)
(***************************************************************************)
LEMMA InitSim == Init => Sim!Init
<1> SUFFICES ASSUME Init PROVE Sim!Init
  OBVIOUS
<1>1. ArchPc = 0 /\ ArchGpr = gpr
  BY DEF Init, ArchPc, ArchGpr, Bubble
<1>2. CsrAfter = [sr |-> sr, mepc |-> mepc, mcause |-> mcause]
  BY DEF Init, CsrAfter, Traps, Bubble
<1>3. TypeOK /\ Lsu!TypeOK
  BY InitInv DEF PipeInv, TypeOK
<1>4. gpr \in [Regs -> Values] /\ gpr[0] = 0 /\ mem \in [Values -> Values]
  BY <1>3 DEF TypeOK, Lsu!TypeOK
<1>5. Sim!Values = Values
  BY DEF Sim!Values, Values
<1> QED
  BY <1>1, <1>2, <1>4, <1>5 DEF Init, Idle, Sim!Init

LEMMA StepSim == LockInv /\ [Next]_vars => [Sim!Next]_(Sim!isaVars)
<1> SUFFICES ASSUME LockInv, [Next]_vars PROVE [Sim!Next]_(Sim!isaVars)
  OBVIOUS
<1>1. CASE UNCHANGED vars
  <2>1. ArchGpr' = ArchGpr
    BY <1>1 DEF vars, pipeVars, ArchGpr, Dest
  <2>2. CsrAfter' = CsrAfter
    BY <1>1 DEF vars, pipeVars, csrVars, CsrAfter, Traps, Causes,
                InterruptPending
  <2>3. ArchPc' = ArchPc
    BY <1>1 DEF vars, frontVars, pipeVars, csrVars, ArchPc, CsrTarget
  <2>4. mem' = mem /\ mip' = mip
    BY <1>1 DEF vars, csrVars, lsuVars
  <2> QED
    BY <2>1, <2>2, <2>3, <2>4 DEF Sim!isaVars, Sim!archVars
<1>2. CASE Next
  <2>1. PICK issued \in BOOLEAN, accept \in Accepts : Cycle(issued, accept)
    BY <1>2, Cycles
  <2>2. accept \in BOOLEAN
    BY DEF Accepts
  <2>3. Sim!Pend
    BY <2>1, <2>2, CsrsNext, PipeAssumption DEF Sim!Pend
  <2>4. CASE ~Retires
    BY <2>1, <2>2, <2>3, <2>4, Between DEF Sim!Next
  <2>5. CASE Retires /\ e2.intr
    BY <2>1, <2>2, <2>3, <2>5, Interrupts DEF Sim!Next
  <2>6. CASE Retires /\ ~e2.intr
    <3>1. e2.instr \in Instrs
      BY <2>6 DEF Retires, LockInv, Semantics, Present
    <3>2. Sim!Execute(e2.instr, mem_ack = "ERROR")
      BY <2>1, <2>2, <2>6, Executes
    <3>3. mem_ack = "ERROR" => Sim!Execute(e2.instr, TRUE)
      BY <3>2 DEF Sim!Execute, Sim!ExecLoad, Sim!ExecStore
    <3>4. mem_ack # "ERROR" => Sim!Execute(e2.instr, FALSE)
      BY <3>2 DEF Sim!Execute, Sim!ExecLoad, Sim!ExecStore
    <3>5. \E fault \in BOOLEAN : Sim!Execute(e2.instr, fault)
      BY <3>3, <3>4
    <3> QED
      BY <2>3, <3>1, <3>5 DEF Sim!Next
  <2> QED
    BY <2>4, <2>5, <2>6
<1> QED
  BY <1>1, <1>2

(***************************************************************************)
(* Seen through the architectural state, every behaviour of the pipeline   *)
(* is a behaviour of the instruction-set simulator (RiscvIsa), under the   *)
(* conditions of Implements.                                               *)
(***************************************************************************)
THEOREM Refines ==
    ASSUME DivAlone PROVE Spec /\ [][StaysUp]_vars => Sim!Spec
<1>1. Init => LockInv /\ Sim!Init
  BY InitLock, InitSim
<1>2. LockInv /\ [Next]_vars /\ [StaysUp]_vars => LockInv'
  BY StepLock
<1>3. LockInv /\ [Next]_vars => [Sim!Next]_(Sim!isaVars)
  BY StepSim
<1> QED
  BY <1>1, <1>2, <1>3, PTL DEF Spec, Sim!Spec

(***************************************************************************)
(* The same with nothing assumed of a behaviour: programs without          *)
(* interrupts, and programs without branches and divisions.                *)
(***************************************************************************)
THEOREM RefinesUndisturbed ==
    ASSUME DivAlone, Undisturbed PROVE Spec => Sim!Spec
BY Refines, StaysUpUndisturbed

-----------------------------------------------------------------------------
(***************************************************************************)
(* The divide unit.  The pipeline sees it as DividerSpec; what follows is  *)
(* about the unit behind that promise, RiscvDivider, and is the reason the *)
(* pipeline may rely on it: the unit implements DividerSpec, and what it   *)
(* answers with is the result the simulator computes, for every register   *)
(* width and however operations are restarted.                             *)
(*                                                                         *)
(* PartialQuotient by itself is not inductive.  The quotient bit set by an *)
(* iteration must be known to be clear, or the "or" of the code would not  *)
(* add; that needs the shape of the quotient found so far (a multiple of   *)
(* twice the mask), the relation of the divisor register to the mask, and  *)
(* the control bits of the operation.                                      *)
(***************************************************************************)

-----------------------------------------------------------------------------
(***************************************************************************)
(* Arithmetic.                                                             *)
(***************************************************************************)
\* Multiplication by a natural number is monotonic.
LEMMA MulMono ==
    ASSUME NEW x \in Int, NEW y \in Int, NEW b \in Nat, x <= y
    PROVE  x * b <= y * b
<1>1. (y - x) * b >= 0
  OBVIOUS
<1>2. (y - x) * b = y * b - x * b
  OBVIOUS
<1> QED BY <1>1, <1>2

\* Quotient and remainder are determined by the division equation.
LEMMA DivUnique ==
    ASSUME NEW q \in Int, NEW b \in Nat \ {0}, NEW r \in 0 .. (b - 1)
    PROVE  (q * b + r) \div b = q /\ (q * b + r) % b = r
<1> DEFINE a == q * b + r
           d == a \div b
           e == a % b
<1>1. q * b \in Int
  OBVIOUS
<1>2. a \in Int /\ d \in Int /\ e \in 0 .. (b - 1)
  BY <1>1
<1>3. a = d * b + e
  BY <1>1, SMTT(20)
<1>4. d * b \in Int
  BY <1>2
<1>5. d = q
  <2>1. CASE d > q
    <3>1. (q + 1) * b <= d * b
      BY <2>1, <1>2, MulMono
    <3>2. (q + 1) * b = q * b + b
      OBVIOUS
    <3> QED BY <3>1, <3>2, <1>1, <1>2, <1>3, <1>4
  <2>2. CASE d < q
    <3>1. (d + 1) * b <= q * b
      BY <2>2, <1>2, MulMono
    <3>2. (d + 1) * b = d * b + b
      BY <1>2
    <3> QED BY <3>1, <3>2, <1>1, <1>2, <1>3, <1>4
  <2> QED BY <2>1, <2>2, <1>2
<1>6. e = r
  BY <1>1, <1>2, <1>3, <1>5
<1> QED BY <1>5, <1>6

\* A natural number is its quotient times the divisor and the remainder.
LEMMA DivMod ==
    ASSUME NEW a \in Nat, NEW b \in Nat \ {0}
    PROVE  a \div b \in Nat /\ a = b * (a \div b) + (a % b)
OBVIOUS

\* A quotient with the bit h set, seen from the next mask.
LEMMA NextBit ==
    ASSUME NEW h \in Nat, NEW t \in Nat
    PROVE  /\ 2 * (2 * h) * t + 2 * h = (2 * t + 1) * (2 * h) + 0
           /\ 2 * (2 * h) * t = (2 * t) * (2 * h) + 0
<1>1. h * t \in Nat
  OBVIOUS
<1>2. 2 * (2 * h) * t = 4 * (h * t)
  OBVIOUS
<1>3. (2 * t) * (2 * h) = 4 * (h * t)
  OBVIOUS
<1>4. (2 * t + 1) * (2 * h) = (2 * t) * (2 * h) + 2 * h
  OBVIOUS
<1> QED BY <1>1, <1>2, <1>3, <1>4

\* In a multiple of twice the mask the bit of the mask is clear, so that
\* SetBit adds it.
LEMMA SetBitAdds ==
    ASSUME NEW m \in Nat \ {0}, NEW t \in Nat
    PROVE  SetBit(2 * m * t, m) = 2 * m * t + m
<1>1. 2 * m * t = (2 * t) * m + 0
  OBVIOUS
<1>2. (2 * m * t) \div m = 2 * t
  BY <1>1, DivUnique
<1>3. (2 * t) % 2 # 1
  OBVIOUS
<1> QED BY <1>2, <1>3 DEF SetBit

\* The next mask: half of this one, or none after the last bit.
LEMMA NextMask ==
    ASSUME NEW m \in OneHot
    PROVE  /\ m \in Nat \ {0}
           /\ m = 1 => m \div 2 = 0
           /\ m # 1 => m \div 2 \in OneHot /\ m = 2 * (m \div 2)
BY MaskAssumption

LEMMA WordFacts ==
    /\ MSB \in Nat \ {0} /\ Modulus = 2 * MSB
    /\ \A x \in DivideWord : Neg(x) \in DivideWord /\ Neg(Neg(x)) = x
    /\ \A x \in DivideWord, op \in DivideOps :
          Magnitude(op, x) \in DivideWord /\ (Magnitude(op, x) = 0 <=> x = 0)
<1>1. MSB \in Nat \ {0}
  BY MaskAssumption
<1> QED BY <1>1 DEF Modulus, DivideWord, Neg, Negative, Magnitude, Signed

-----------------------------------------------------------------------------
(***************************************************************************)
(* The inductive invariant of the divide unit.                             *)
(***************************************************************************)
DividerInv == DivideTypeOK /\ RestoringDivision

LEMMA DividerInitial == DivideInit => DividerInv
<1> SUFFICES ASSUME DivideInit PROVE DivideTypeOK /\ RestoringDivision
  BY DEF DividerInv
<1>1. 0 \in DivideWord
  BY MaskAssumption DEF DivideWord, Modulus
<1>2. DivideTypeOK
  BY <1>1 DEF DivideInit, DivideTypeOK
<1> QED BY <1>2 DEF DivideInit, RestoringDivision

\* Loading an operation establishes it.
LEMMA LoadInv ==
    ASSUME DividerInv, NEW op \in DivideOps, NEW a \in DivideWord, NEW b \in DivideWord,
           Load(op, a, b)
    PROVE  /\ RestoringDivision'
           /\ dividend_q' \in DivideWord /\ quotient_q' \in DivideWord
           /\ divisor_q' \in Nat /\ q_mask_q' \in OneHot
<1>1. MSB \in Nat \ {0} /\ MSB \in OneHot
  BY MaskAssumption
<1>2. Magnitude(op, a) \in DivideWord /\ Magnitude(op, b) \in DivideWord
  BY WordFacts
<1>3. MagA' = Magnitude(op, a) /\ MagB' = Magnitude(op, b)
  BY DEF Load, MagA, MagB
<1>4. OwnOperation'
  BY DEF Load, OwnOperation, Request
<1>5. Magnitude(op, b) * MSB \in Nat
  BY <1>1, <1>2 DEF DivideWord, Modulus
<1>6. PartialQuotient'
  <2>1. 0 * Magnitude(op, b) + Magnitude(op, a) = Magnitude(op, a)
    BY <1>1, <1>2 DEF DivideWord, Modulus
  <2>2. Magnitude(op, b) # 0 => MSB <= Magnitude(op, b) * MSB
    <3> SUFFICES ASSUME Magnitude(op, b) # 0 PROVE 1 * MSB <= Magnitude(op, b) * MSB
      BY <1>1
    <3>1. 1 <= Magnitude(op, b) /\ Magnitude(op, b) \in Int
      BY <1>1, <1>2 DEF DivideWord, Modulus
    <3> QED BY <1>1, <3>1, MulMono
  <2>3. Magnitude(op, b) # 0 =>
           Magnitude(op, a) < 2 * (Magnitude(op, b) * MSB)
    BY <1>1, <1>2, <1>5, <2>2 DEF DivideWord, Modulus
  <2> QED BY <1>1, <1>3, <2>1, <2>3 DEF PartialQuotient, Load, Modulus
<1>7. BitsBelowClear'
  <2>1. 0 % (2 * MSB) = 0
    BY <1>1
  <2> QED BY <1>1, <1>3, <2>1 DEF BitsBelowClear, Load, Modulus
<1> QED BY <1>1, <1>2, <1>4, <1>5, <1>6, <1>7
        DEF Load, RestoringDivision, DivideWord, Modulus

\* One iteration keeps it.
LEMMA IterateInv ==
    ASSUME DividerInv, div_busy_q, q_mask_q # 0, Iterate
    PROVE  /\ RestoringDivision'
           /\ dividend_q' \in DivideWord /\ quotient_q' \in DivideWord
           /\ divisor_q' \in Nat /\ q_mask_q' \in OneHot \cup {0}
<1> DEFINE m == q_mask_q
           h == q_mask_q \div 2
           t == quotient_q \div (2 * q_mask_q)
<1>1. DivideTypeOK /\ OwnOperation /\ PartialQuotient /\ BitsBelowClear
  BY DEF DividerInv, RestoringDivision
<1>2. /\ m \in OneHot /\ m \in Nat \ {0}
      /\ m = 1 => h = 0
      /\ m # 1 => h \in OneHot /\ h \in Nat \ {0} /\ m = 2 * h
  BY <1>1, NextMask DEF DivideTypeOK
<1>3. MSB \in Nat \ {0} /\ Modulus = 2 * MSB /\ Modulus \in Nat
  BY WordFacts
<1>4. MagA \in DivideWord /\ MagB \in DivideWord /\ MagA \in Nat /\ MagB \in Nat
  BY <1>1, <1>3, WordFacts DEF OwnOperation, Request, MagA, MagB, DivideWord
<1>5. MagA' = MagA /\ MagB' = MagB /\ OwnOperation' /\ div_busy_q'
  BY <1>1 DEF Iterate, MagA, MagB, OwnOperation
<1>6. /\ quotient_q \in Nat /\ dividend_q \in Nat /\ divisor_q \in Nat
      /\ quotient_q \in DivideWord /\ dividend_q \in DivideWord
  BY <1>1, <1>3 DEF DivideTypeOK, DivideWord
<1>7. divisor_q = MagB * m /\ quotient_q <= Modulus - 2 * m
  BY <1>1 DEF BitsBelowClear
<1>8. t \in Nat /\ quotient_q = 2 * m * t
  <2>1. quotient_q % (2 * m) = 0
    BY <1>1 DEF BitsBelowClear
  <2>2. 2 * m \in Nat \ {0}
    BY <1>2
  <2>3. t \in Nat /\ quotient_q = (2 * m) * t + (quotient_q % (2 * m))
    BY <1>6, <2>2, DivMod
  <2>4. (2 * m) * t \in Nat
    BY <1>2, <2>3
  <2>5. quotient_q = (2 * m) * t
    BY <2>1, <2>3, <2>4
  <2> QED BY <2>3, <2>5
<1>9. SetBit(quotient_q, m) = quotient_q + m
  BY <1>2, <1>8, SetBitAdds
<1>10. quotient_q * MagB + dividend_q = MagA
  BY <1>1 DEF PartialQuotient
<1>11. /\ m = 1 => divisor_q = MagB
       /\ m # 1 => /\ divisor_q = 2 * (MagB * h)
                   /\ divisor_q \div 2 = MagB * h /\ MagB * h \in Nat
  BY <1>2, <1>4, <1>7
<1>12. divisor_q \div 2 \in Nat
  BY <1>6
<1>13. CASE divisor_q <= dividend_q
  <2>1. /\ dividend_q' = dividend_q - divisor_q /\ quotient_q' = quotient_q + m
        /\ divisor_q' = divisor_q \div 2 /\ q_mask_q' = h
    BY <1>9, <1>13 DEF Iterate
  <2>2. dividend_q' \in DivideWord /\ quotient_q' \in DivideWord
    BY <1>2, <1>3, <1>6, <1>7, <1>13, <2>1 DEF DivideWord
  <2>3. quotient_q' * MagB + dividend_q' = MagA
    <3>1. (quotient_q + m) * MagB = quotient_q * MagB + MagB * m
      BY <1>2, <1>4, <1>6
    <3>2. quotient_q * MagB \in Nat /\ MagB * m \in Nat
      BY <1>2, <1>4, <1>6
    <3> QED BY <1>4, <1>6, <1>7, <1>10, <2>1, <3>1, <3>2
  <2>4. MagB # 0 => IF h = 0 THEN dividend_q' < MagB
                             ELSE dividend_q' < 2 * divisor_q'
    <3>1. MagB # 0 => dividend_q < 2 * divisor_q
      BY <1>1, <1>2 DEF PartialQuotient
    <3> QED BY <1>2, <1>4, <1>6, <1>11, <2>1, <3>1
  <2>5. MagB = 0 => quotient_q' = IF h = 0 THEN Modulus - 1
                                  ELSE Modulus - 2 * h
    <3>1. MagB = 0 => quotient_q = Modulus - 2 * m
      BY <1>1, <1>2 DEF PartialQuotient
    <3> QED BY <1>2, <1>3, <1>6, <2>1, <3>1
  <2>6. PartialQuotient'
    BY <1>5, <2>1, <2>3, <2>4, <2>5 DEF PartialQuotient
  <2>7. BitsBelowClear'
    <3> SUFFICES ASSUME h # 0
                 PROVE  /\ divisor_q' = MagB * h
                        /\ quotient_q' % (2 * h) = 0
                        /\ quotient_q' <= Modulus - 2 * h
      BY <1>5, <2>1 DEF BitsBelowClear
    <3>1. m # 1 /\ m = 2 * h /\ h \in Nat \ {0}
      BY <1>2
    <3>2. quotient_q' = (2 * t + 1) * (2 * h) + 0
      <4> HIDE DEF m, h, t
      <4>1. quotient_q' = 2 * m * t + m
        BY <1>8, <2>1
      <4>2. quotient_q' = 2 * (2 * h) * t + 2 * h
        BY <3>1, <4>1
      <4> QED BY <1>8, <3>1, <4>2, NextBit
    <3>3. quotient_q' % (2 * h) = 0
      <4>1. 2 * t + 1 \in Int /\ 2 * h \in Nat \ {0} /\ 0 \in 0 .. (2 * h - 1)
        BY <1>8, <3>1
      <4> QED BY <3>2, <4>1, DivUnique
    <3> QED BY <1>3, <1>6, <1>7, <1>11, <2>1, <3>1, <3>3
  <2> QED BY <1>2, <1>5, <1>12, <2>1, <2>2, <2>6, <2>7 DEF RestoringDivision
<1>14. CASE ~(divisor_q <= dividend_q)
  <2>1. /\ dividend_q' = dividend_q /\ quotient_q' = quotient_q
        /\ divisor_q' = divisor_q \div 2 /\ q_mask_q' = h
    BY <1>14 DEF Iterate
  <2>2. MagB # 0
    BY <1>2, <1>4, <1>6, <1>7, <1>14
  <2>3. IF h = 0 THEN dividend_q' < MagB ELSE dividend_q' < 2 * divisor_q'
    BY <1>2, <1>4, <1>6, <1>11, <1>14, <2>1
  <2>4. PartialQuotient'
    BY <1>5, <1>10, <2>1, <2>2, <2>3 DEF PartialQuotient
  <2>5. BitsBelowClear'
    <3> SUFFICES ASSUME h # 0
                 PROVE  /\ divisor_q' = MagB * h
                        /\ quotient_q' % (2 * h) = 0
                        /\ quotient_q' <= Modulus - 2 * h
      BY <1>5, <2>1 DEF BitsBelowClear
    <3>1. m # 1 /\ m = 2 * h /\ h \in Nat \ {0}
      BY <1>2
    <3>2. quotient_q' = (2 * t) * (2 * h) + 0
      BY <1>8, <2>1, <3>1, NextBit
    <3>3. quotient_q' % (2 * h) = 0
      <4>1. 2 * t \in Int /\ 2 * h \in Nat \ {0} /\ 0 \in 0 .. (2 * h - 1)
        BY <1>8, <3>1
      <4> QED BY <3>2, <4>1, DivUnique
    <3> QED BY <1>3, <1>6, <1>7, <1>11, <2>1, <3>1, <3>3
  <2> QED BY <1>2, <1>5, <1>6, <1>12, <2>1, <2>4, <2>5 DEF RestoringDivision
<1> QED BY <1>13, <1>14

-----------------------------------------------------------------------------
(***************************************************************************)
(* The result.                                                             *)
(***************************************************************************)
\* The magnitude of a signed operand is its absolute value.
LEMMA SignedMagnitude ==
    ASSUME NEW x \in DivideWord, NEW op \in {"DIV", "REM"}
    PROVE  /\ AsInt(x) \in Int
           /\ AsInt(x) < 0 <=> Negative(x)
           /\ AsInt(x) = IF Negative(x) THEN -Magnitude(op, x)
                                        ELSE Magnitude(op, x)
           /\ AbsInt(AsInt(x)) = Magnitude(op, x)
           /\ Magnitude(op, x) \in Nat
<1>1. MSB \in Nat \ {0}
  BY MaskAssumption
<1> QED BY <1>1 DEF AsInt, AbsInt, Negative, Magnitude, Signed, Neg,
                    DivideWord, Modulus

\* Wrapping a number of at most Modulus - 1 in magnitude.
LEMMA WrapWord ==
    ASSUME NEW n \in DivideWord
    PROVE  /\ n \in Int /\ ToWord(n) = n
           /\ ToWord(-n) = Neg(n) /\ Neg(n) \in DivideWord
<1>1. MSB \in Nat \ {0} /\ Modulus \in Nat \ {0} /\ n \in Int
  BY MaskAssumption DEF Modulus, DivideWord
<1>2. n = 0 * Modulus + n /\ n \in 0 .. (Modulus - 1)
  BY <1>1 DEF DivideWord
<1>3. n % Modulus = n
  BY <1>1, <1>2, DivUnique
<1>4. n # 0 => (-n) % Modulus = Modulus - n
  <2> SUFFICES ASSUME n # 0 PROVE (-n) % Modulus = Modulus - n
    OBVIOUS
  <2>1. -n = (-1) * Modulus + (Modulus - n) /\ Modulus - n \in 0 .. (Modulus - 1)
    BY <1>1, <1>2
  <2>2. ((-1) * Modulus + (Modulus - n)) % Modulus = Modulus - n
    <3>1. -1 \in Int
      OBVIOUS
    <3> QED BY ONLY <1>1, <2>1, <3>1, DivUnique
  <2> QED BY ONLY <2>1, <2>2
<1> QED BY <1>1, <1>2, <1>3, <1>4 DEF ToWord, Neg, DivideWord

\* A completed division holds quotient and remainder of the magnitudes.
LEMMA Completed ==
    ASSUME DividerInv, Complete
    PROVE  /\ req \in Request /\ quotient_q \in DivideWord /\ dividend_q \in DivideWord
           /\ MagA \in Nat /\ MagB \in Nat
           /\ MagB # 0 => /\ MagA \div MagB = quotient_q
                          /\ MagA % MagB = dividend_q
                          /\ quotient_q * MagB + dividend_q = MagA
           /\ MagB = 0 => quotient_q = Modulus - 1 /\ dividend_q = MagA
<1>1. DivideTypeOK /\ OwnOperation /\ PartialQuotient /\ q_mask_q = 0
  BY DEF DividerInv, RestoringDivision, Complete
<1>2. MSB \in Nat \ {0} /\ Modulus = 2 * MSB
  BY WordFacts
<1>3. req \in Request /\ quotient_q \in DivideWord /\ dividend_q \in DivideWord
  BY <1>1 DEF OwnOperation, DivideTypeOK
<1>4. MagA \in Nat /\ MagB \in Nat
  BY <1>2, <1>3, WordFacts DEF MagA, MagB, Request, DivideWord
<1>5. quotient_q \in Nat /\ dividend_q \in Nat
  BY <1>2, <1>3 DEF DivideWord
<1>6. quotient_q * MagB + dividend_q = MagA
  BY <1>1 DEF PartialQuotient
<1>7. CASE MagB # 0
  <2>1. dividend_q \in 0 .. (MagB - 1)
    BY <1>1, <1>4, <1>5, <1>7 DEF PartialQuotient
  <2> QED BY <1>3, <1>4, <1>5, <1>6, <1>7, <2>1, DivUnique
<1>8. CASE MagB = 0
  <2>1. quotient_q = Modulus - 1
    BY <1>1, <1>8 DEF PartialQuotient
  <2>2. quotient_q * 0 = 0
    BY <1>5
  <2> QED BY <1>3, <1>4, <1>5, <1>6, <1>8, <2>1, <2>2
<1> QED BY <1>7, <1>8

\* The sign rules of the code agree with truncation towards zero.
LEMMA ResultIsWord ==
    ASSUME DividerInv, Complete
    PROVE  Result \in DivideWord /\ Result = IsaResult(req)
<1> DEFINE a == req.a
           b == req.b
<1>1. /\ req \in Request /\ quotient_q \in DivideWord /\ dividend_q \in DivideWord
      /\ MagA \in Nat /\ MagB \in Nat
      /\ MagB # 0 => /\ MagA \div MagB = quotient_q
                     /\ MagA % MagB = dividend_q
                     /\ quotient_q * MagB + dividend_q = MagA
      /\ MagB = 0 => quotient_q = Modulus - 1 /\ dividend_q = MagA
  BY Completed
<1>2. a \in DivideWord /\ b \in DivideWord /\ req.op \in DivideOps
  BY <1>1 DEF Request
<1>3. /\ div_inst_q = (req.op \in {"DIV", "DIVU"})
      /\ invert_res_q = Inverts(req.op, a, b)
  BY DEF DividerInv, RestoringDivision, Complete, OwnOperation
<1>4. MagB = 0 <=> b = 0
  BY <1>2, WordFacts DEF MagB
<1>5. Result \in DivideWord
  BY <1>1, WrapWord DEF Result
<1>6. CASE req.op = "DIVU"
  <2>1. Result = quotient_q
    BY <1>3, <1>6 DEF Result, Inverts
  <2>2. MagA = a /\ MagB = b
    BY <1>6 DEF MagA, MagB, Magnitude, Signed
  <2> QED BY <1>1, <1>4, <1>5, <1>6, <2>1, <2>2 DEF IsaResult
<1>7. CASE req.op = "REMU"
  <2>1. Result = dividend_q
    BY <1>3, <1>7 DEF Result, Inverts
  <2>2. MagA = a /\ MagB = b
    BY <1>7 DEF MagA, MagB, Magnitude, Signed
  <2> QED BY <1>1, <1>4, <1>5, <1>7, <2>1, <2>2 DEF IsaResult
<1>8. CASE req.op = "DIV"
  <2>1. Result = IF Negative(a) # Negative(b) /\ b # 0 THEN Neg(quotient_q)
                                                       ELSE quotient_q
    BY <1>3, <1>8 DEF Result, Inverts
  <2>2. CASE b = 0
    BY <1>1, <1>4, <1>5, <1>8, <2>1, <2>2 DEF IsaResult
  <2>3. CASE b # 0
    <3>1. /\ AbsInt(AsInt(a)) = MagA /\ AbsInt(AsInt(b)) = MagB
          /\ AsInt(a) < 0 <=> Negative(a)
          /\ AsInt(b) < 0 <=> Negative(b)
      BY <1>2, <1>8, SignedMagnitude DEF MagA, MagB
    <3>2. TruncDiv(AsInt(a), AsInt(b)) =
             IF Negative(a) # Negative(b) THEN -quotient_q ELSE quotient_q
      BY <1>1, <1>4, <2>3, <3>1 DEF TruncDiv, Negative
    <3>3. ToWord(TruncDiv(AsInt(a), AsInt(b))) = Result
      BY <1>1, <2>1, <2>3, <3>2, WrapWord
    <3> QED BY <1>5, <1>8, <2>3, <3>3 DEF IsaResult
  <2> QED BY <2>2, <2>3
<1>9. CASE req.op = "REM"
  <2>1. Result = IF Negative(a) THEN Neg(dividend_q) ELSE dividend_q
    BY <1>3, <1>9 DEF Result, Inverts
  <2>2. CASE b = 0
    <3>1. dividend_q = Magnitude("REM", a)
      BY <1>1, <1>4, <1>9, <2>2 DEF MagA
    <3>2. Result = a
      BY <1>2, <2>1, <3>1, WordFacts DEF Magnitude, Signed
    <3> QED BY <1>5, <1>9, <2>2, <3>2 DEF IsaResult
  <2>3. CASE b # 0
    <3>1. /\ AbsInt(AsInt(a)) = MagA /\ AbsInt(AsInt(b)) = MagB
          /\ AsInt(a) < 0 <=> Negative(a)
          /\ AsInt(b) < 0 <=> Negative(b)
          /\ AsInt(a) = IF Negative(a) THEN -MagA ELSE MagA
          /\ AsInt(b) = IF Negative(b) THEN -MagB ELSE MagB
      BY <1>2, <1>9, SignedMagnitude DEF MagA, MagB
    <3>2. TruncDiv(AsInt(a), AsInt(b)) =
             IF Negative(a) # Negative(b) THEN -quotient_q ELSE quotient_q
      BY <1>1, <1>4, <2>3, <3>1 DEF TruncDiv, Negative
    <3>3. quotient_q \in Nat /\ dividend_q \in Nat
      BY <1>1, WordFacts DEF DivideWord
    <3>4. TruncDiv(AsInt(a), AsInt(b)) * AsInt(b) =
             IF Negative(a) THEN -(quotient_q * MagB) ELSE quotient_q * MagB
      <4>1. /\ (-quotient_q) * MagB = -(quotient_q * MagB)
            /\ quotient_q * (-MagB) = -(quotient_q * MagB)
            /\ (-quotient_q) * (-MagB) = quotient_q * MagB
        BY <1>1, <3>3
      <4> QED BY <3>1, <3>2, <4>1 DEF Negative
    <3>5. quotient_q * MagB \in Nat /\ quotient_q * MagB + dividend_q = MagA
      BY <1>1, <1>4, <2>3, <3>3
    <3>6. TruncRem(AsInt(a), AsInt(b)) =
             IF Negative(a) THEN -dividend_q ELSE dividend_q
      BY <1>1, <3>1, <3>3, <3>4, <3>5 DEF TruncRem
    <3>7. ToWord(TruncRem(AsInt(a), AsInt(b))) = Result
      BY <1>1, <2>1, <3>6, WrapWord
    <3> QED BY <1>5, <1>9, <2>3, <3>7 DEF IsaResult
  <2> QED BY <2>2, <2>3
<1> QED BY <1>2, <1>6, <1>7, <1>8, <1>9 DEF DivideOps

-----------------------------------------------------------------------------
(***************************************************************************)
(* Every step keeps the invariant.                                         *)
(***************************************************************************)
\* The output registers, whatever else happens at the edge.
LEMMA AnswerOK ==
    ASSUME DividerInv, Answer
    PROVE  /\ valid_q' \in BOOLEAN /\ wb_result_q' \in DivideWord
           /\ valid_q' => wb_result_q' = IsaResult(req)
<1>1. wb_result_q \in DivideWord /\ div_busy_q \in BOOLEAN
  BY DEF DividerInv, DivideTypeOK
<1>2. CASE Complete
  BY <1>2, ResultIsWord DEF Answer
<1>3. CASE ~Complete
  BY <1>1, <1>3 DEF Answer, Complete
<1> QED BY <1>2, <1>3

LEMMA DividerStep == DividerInv /\ [DivideNext]_divideVars => DividerInv'
<1> SUFFICES ASSUME DividerInv, [DivideNext]_divideVars
             PROVE  DivideTypeOK' /\ RestoringDivision'
  BY DEF DividerInv
<1>1. DivideTypeOK /\ RestoringDivision
  BY DEF DividerInv
<1>2. ASSUME NEW op \in DivideOps, NEW a \in DivideWord, NEW b \in DivideWord,
             Start(op, a, b)
      PROVE  DivideTypeOK' /\ RestoringDivision'
  <2>1. Load(op, a, b) /\ Answer
    BY <1>2 DEF Start
  <2>2. /\ RestoringDivision'
        /\ dividend_q' \in DivideWord /\ quotient_q' \in DivideWord
        /\ divisor_q' \in Nat /\ q_mask_q' \in OneHot
    BY <2>1, LoadInv
  <2>3. div_busy_q' \in BOOLEAN /\ div_inst_q' \in BOOLEAN /\ req' \in Request
    BY <2>1 DEF Load, Request
  <2>4. invert_res_q' \in BOOLEAN
    BY <2>1 DEF Load, Inverts
  <2> QED BY <2>1, <2>2, <2>3, <2>4, AnswerOK DEF DivideTypeOK
<1>3. CASE Finish
  <2>1. DivideTypeOK'
    BY <1>1, <1>3, AnswerOK DEF Finish, DivideTypeOK
  <2> QED BY <1>3, <2>1 DEF Finish, Complete, RestoringDivision
<1>4. CASE Step
  <2>1. Iterate /\ Answer /\ div_busy_q /\ q_mask_q # 0
    BY <1>4 DEF Step, Complete
  <2>2. /\ RestoringDivision'
        /\ dividend_q' \in DivideWord /\ quotient_q' \in DivideWord
        /\ divisor_q' \in Nat /\ q_mask_q' \in OneHot \cup {0}
    BY <2>1, IterateInv
  <2>3. UNCHANGED <<div_busy_q, div_inst_q, invert_res_q, req>>
    BY <2>1 DEF Iterate
  <2> QED BY <1>1, <2>1, <2>2, <2>3, AnswerOK DEF DivideTypeOK
<1>5. CASE DivideIdle
  <2>1. DivideTypeOK'
    BY <1>1, <1>5, AnswerOK DEF DivideIdle, DivideTypeOK, unitVars
  <2> QED BY <1>1, <1>5, <2>1 DEF DivideIdle, RestoringDivision, unitVars
<1>6. CASE UNCHANGED divideVars
  BY <1>1, <1>6 DEF divideVars, unitVars, DivideTypeOK, RestoringDivision,
                    OwnOperation,
                    PartialQuotient, BitsBelowClear, MagA, MagB
<1> QED BY <1>2, <1>3, <1>4, <1>5, <1>6 DEF DivideNext

(***************************************************************************)
(* riscv_divider.v: every register keeps its width, and while an operation *)
(* is in progress the quotient, the partial remainder and the divisor      *)
(* register stand in the restoring-division relation for its operands.     *)
(***************************************************************************)
THEOREM DivideInvariance == DivideSpec => [](DivideTypeOK /\ RestoringDivision)
<1>1. DividerInv => DivideTypeOK /\ RestoringDivision
  BY DEF DividerInv
<1> QED BY DividerInitial, DividerStep, <1>1, PTL DEF DivideSpec

(***************************************************************************)
(* riscv_divider.v writes back what isa_sim/riscv.cpp computes, for every  *)
(* register width, all operands and every pattern of restarts.             *)
(***************************************************************************)
THEOREM DivideCorrectness == DivideSpec => ResultIsIsa
<1>1. DividerInv /\ [DivideNext]_divideVars => (valid_q' => wb_result_q' = IsaResult(req))
                                   \/ UNCHANGED divideVars
  <2> SUFFICES ASSUME DividerInv, DivideNext
               PROVE  valid_q' => wb_result_q' = IsaResult(req)
    OBVIOUS
  <2>1. Answer
    BY DEF DivideNext, Start, Finish, Step, DivideIdle
  <2> QED BY <2>1, AnswerOK
<1>2. DividerInv /\ [DivideNext]_divideVars
         => [valid_q' => wb_result_q' = IsaResult(req)]_divideVars
  BY <1>1
<1> QED BY DividerInitial, DividerStep, <1>2, PTL DEF DivideSpec, ResultIsIsa

-----------------------------------------------------------------------------
(***************************************************************************)
(* The unit implements DividerSpec.                                        *)
(***************************************************************************)
\* The masks still to come after an iteration are one fewer.
LEMMA LeftAfterStep ==
    ASSUME NEW q \in OneHot
    PROVE  /\ Cardinality({m \in OneHot : m <= q \div 2}) \in Nat
           /\ Cardinality({m \in OneHot : m <= q}) =
                 Cardinality({m \in OneHot : m <= q \div 2}) + 1
<1> DEFINE low == {m \in OneHot : m <= q \div 2}
<1>1. IsFiniteSet(low) /\ IsFiniteSet(OneHot)
  <2>1. IsFiniteSet(OneHot) /\ low \subseteq OneHot
    BY MaskAssumption
  <2> QED BY <2>1, FS_Subset
<1>2. {m \in OneHot : m <= q} = low \cup {q}
  <2>1. q \in Nat \ {0} /\ q \div 2 <= q /\ OneHot \subseteq Nat
    BY MaskAssumption
  <2>2. \A m \in OneHot : m < q => m <= q \div 2
    BY MaskAssumption
  <2>3. \A m \in OneHot : m <= q <=> m <= q \div 2 \/ m = q
    BY <2>1, <2>2
  <2>4. ASSUME NEW m PROVE m \in {n \in OneHot : n <= q} <=> m \in low \cup {q}
    BY <2>1, <2>3
  <2> QED BY <2>4
<1>3. q \notin low
  <2>1. q \in Nat \ {0}
    BY MaskAssumption
  <2> QED BY <2>1
<1> QED BY <1>1, <1>2, <1>3, FS_AddElement, FS_CardinalityType

\* No iteration is left exactly when the mask has been shifted out.
LEMMA NoneLeft ==
    ASSUME NEW q \in OneHot \cup {0}
    PROVE  /\ Cardinality({m \in OneHot : m <= q}) \in Nat
           /\ Cardinality({m \in OneHot : m <= q}) = 0 <=> q = 0
<1>1. CASE q = 0
  <2>1. \A m \in OneHot : ~(m <= q)
    <3>1. \A m \in OneHot : m \in Nat /\ m # 0
      BY MaskAssumption
    <3> QED BY <1>1, <3>1
  <2>2. {m \in OneHot : m <= q} = {}
    BY <2>1
  <2>3. Cardinality({m \in OneHot : m <= q}) = 0
    BY <2>2, FS_EmptySet
  <2> QED BY <1>1, <2>3
<1>2. CASE q \in OneHot
  <2>1. q # 0
    BY <1>2, MaskAssumption
  <2> DEFINE here == Cardinality({m \in OneHot : m <= q})
             next == Cardinality({m \in OneHot : m <= q \div 2})
  <2>2. next \in Nat /\ here = next + 1
    BY <1>2, LeftAfterStep
  <2> HIDE DEF here, next
  <2>3. here \in Nat /\ here # 0
    BY <2>2
  <2> QED BY <2>1, <2>3 DEF here
<1> QED BY <1>1, <1>2

\* The simulator's results are words.
LEMMA IsaResultWord ==
    ASSUME NEW r \in Request PROVE IsaResult(r) \in DivideWord
<1>1. r.a \in DivideWord /\ r.b \in DivideWord /\ r.op \in DivideOps
  BY DEF Request
<1>2. MSB \in Nat \ {0} /\ Modulus \in Nat \ {0}
  BY MaskAssumption DEF Modulus
<1>3. r.a \in Nat /\ r.b \in Nat
  BY <1>1, <1>2 DEF DivideWord
<1>4. r.b # 0 => r.a \div r.b \in DivideWord /\ r.a % r.b \in DivideWord
  <2> SUFFICES ASSUME r.b # 0
               PROVE  r.a \div r.b \in DivideWord /\ r.a % r.b \in DivideWord
    OBVIOUS
  <2> DEFINE d == r.a \div r.b
  <2>1. d \in Nat /\ r.a % r.b \in Nat /\ r.a = r.b * d + (r.a % r.b)
    BY <1>3, DivMod
  <2>2. 1 * d <= r.b * d
    <3>1. 1 <= r.b /\ 1 \in Nat
      BY <1>3
    <3> HIDE DEF d
    <3> QED BY <1>3, <2>1, <3>1, MulMono
  <2>3. r.b * d \in Nat
    BY <1>3, <2>1
  <2>4. d <= r.a /\ r.a % r.b <= r.a
    BY <1>3, <2>1, <2>2, <2>3
  <2> QED BY <1>1, <1>2, <1>3, <2>1, <2>4 DEF DivideWord
<1>5. \A n \in Int : ToWord(n) \in DivideWord
  BY <1>2 DEF ToWord, DivideWord
<1>6. r.b # 0 => /\ TruncDiv(AsInt(r.a), AsInt(r.b)) \in Int
                 /\ TruncRem(AsInt(r.a), AsInt(r.b)) \in Int
  <2> SUFFICES ASSUME r.b # 0
               PROVE  /\ TruncDiv(AsInt(r.a), AsInt(r.b)) \in Int
                      /\ TruncRem(AsInt(r.a), AsInt(r.b)) \in Int
    OBVIOUS
  <2>1. AsInt(r.a) \in Int /\ AsInt(r.b) \in Int /\ AsInt(r.b) # 0
    BY <1>1, <1>2, <1>3 DEF AsInt, DivideWord
  <2>2. AbsInt(AsInt(r.a)) \in Nat /\ AbsInt(AsInt(r.b)) \in Nat \ {0}
    BY <2>1 DEF AbsInt
  <2>3. AbsInt(AsInt(r.a)) \div AbsInt(AsInt(r.b)) \in Nat
    BY <2>2, DivMod
  <2>4. TruncDiv(AsInt(r.a), AsInt(r.b)) \in Int
    BY <2>3 DEF TruncDiv
  <2> QED BY <2>1, <2>4 DEF TruncRem
<1>7. Modulus - 1 \in DivideWord
  BY <1>2 DEF DivideWord
<1> QED BY <1>1, <1>4, <1>5, <1>6, <1>7 DEF IsaResult, DivideOps

\* The mapped completion and the mapped answer.
LEMMA MappedAnswer ==
    ASSUME DividerInv, Answer
    PROVE  Abstract!DivAnswer
<1>1. q_mask_q \in OneHot \cup {0} /\ div_busy_q \in BOOLEAN
  BY DEF DividerInv, DivideTypeOK
<1>2. IterationsLeft = 0 <=> q_mask_q = 0
  BY <1>1, NoneLeft DEF IterationsLeft
<1>3. Abstract!DivComplete <=> Complete
  BY <1>2 DEF Abstract!DivComplete, Complete
<1>4. Complete => Result = IsaResult(req)
  BY ResultIsWord
<1> QED BY <1>3, <1>4 DEF Answer, Abstract!DivAnswer

\* Loading an operation puts every mask ahead of it.
LEMMA AllLeft == {m \in OneHot : m <= MSB} = OneHot
BY MaskAssumption

\* A run step of DividerSpec from its parts: the countdown and the busy flag.
LEMMA MappedRun ==
    ASSUME NEW here \in Nat, NEW next \in Nat,
           IterationsLeft = here, IterationsLeft' = next,
           next = IF here > 0 THEN here - 1 ELSE 0,
           div_busy_q' = (div_busy_q /\ here # 0),
           req' = req, Abstract!DivAnswer
    PROVE  Abstract!DivNext
<1>1. IterationsLeft' = IF IterationsLeft > 0 THEN IterationsLeft - 1 ELSE 0
  OBVIOUS
<1>2. div_busy_q' = (div_busy_q /\ ~(div_busy_q /\ IterationsLeft = 0))
  OBVIOUS
<1>3. IsaResult(req)' = IsaResult(req)
  BY DEF IsaResult
<1>4. Abstract!DivRun
  BY <1>1, <1>2, <1>3, Zenon DEF Abstract!DivRun, Abstract!DivComplete
<1> QED BY <1>4 DEF Abstract!DivNext

(***************************************************************************)
(* riscv_divider.v keeps the promise riscv_issue.v relies on: an operation *)
(* is answered once, a fixed number of clocks after it is started, with    *)
(* the simulator's result for its own operands; starting another one       *)
(* abandons it.                                                            *)
(***************************************************************************)
THEOREM DivideRefinement == DivideSpec => ImplementsDividerSpec
<1>1. DivideInit => Abstract!DivInit
  <2> SUFFICES ASSUME DivideInit PROVE Abstract!DivInit
    OBVIOUS
  <2>1. IterationsLeft = 0
    BY NoneLeft DEF DivideInit, IterationsLeft
  <2>2. IsaResult(req) = 0
    BY DEF DivideInit, NoReq, IsaResult
  <2> QED BY <2>1, <2>2 DEF DivideInit, Abstract!DivInit
<1>2. DividerInv /\ DividerInv' /\ [DivideNext]_divideVars
         => [Abstract!DivNext]_Abstract!divVars
  <2> SUFFICES ASSUME DividerInv, DividerInv', [DivideNext]_divideVars
               PROVE  [Abstract!DivNext]_Abstract!divVars
    OBVIOUS
  <2>1. /\ q_mask_q \in OneHot \cup {0} /\ div_busy_q \in BOOLEAN
        /\ ~div_busy_q => q_mask_q = 0
    BY DEF DividerInv, DivideTypeOK, RestoringDivision
  <2>2. IterationsLeft \in Nat /\ (IterationsLeft = 0 <=> q_mask_q = 0)
    BY <2>1, NoneLeft DEF IterationsLeft
  <2>3. ASSUME NEW op \in DivideOps, NEW a \in DivideWord, NEW b \in DivideWord,
               Start(op, a, b)
        PROVE  Abstract!DivNext
    <3>1. Load(op, a, b) /\ Answer
      BY <2>3 DEF Start
    <3>2. req' \in Request /\ div_busy_q' = TRUE /\ q_mask_q' = MSB
      BY <3>1 DEF Load, Request
    <3>3. IsaResult(req)' = IsaResult(req')
      BY DEF IsaResult
    <3>4. IsaResult(req)' \in DivideWord
      BY <3>2, <3>3, IsaResultWord
    <3>5. IterationsLeft' = Cardinality(OneHot)
      BY <3>2, AllLeft DEF IterationsLeft
    <3>6. Abstract!DivAnswer
      BY <3>1, MappedAnswer
    <3>7. Abstract!DivStart(IsaResult(req)')
      BY <3>2, <3>5, <3>6 DEF Abstract!DivStart
    <3> QED BY <3>4, <3>7 DEF Abstract!DivNext
  <2>4. CASE Finish
    <3>1. Answer /\ Complete /\ div_busy_q' = FALSE
          /\ q_mask_q' = q_mask_q /\ req' = req
      BY <2>4 DEF Finish
    <3>2. IterationsLeft = 0 /\ IterationsLeft' = 0
      BY <2>2, <3>1 DEF Complete, IterationsLeft
    <3>3. Abstract!DivAnswer
      BY <3>1, MappedAnswer
    <3>4. div_busy_q' = (div_busy_q /\ 0 # 0)
      BY <3>1
    <3> QED BY <3>1, <3>2, <3>3, <3>4, MappedRun
  <2>5. CASE Step
    <3>1. /\ Answer /\ div_busy_q /\ q_mask_q \in OneHot /\ q_mask_q # 0
          /\ div_busy_q' = div_busy_q /\ req' = req
          /\ q_mask_q' = q_mask_q \div 2
      BY <2>1, <2>5 DEF Step, Complete, Iterate
    <3> DEFINE here == Cardinality({m \in OneHot : m <= q_mask_q})
               next == Cardinality({m \in OneHot : m <= q_mask_q'})
    <3>2. IterationsLeft = here /\ IterationsLeft' = next
      BY DEF IterationsLeft
    <3>3. next \in Nat /\ here = next + 1
      BY <3>1, LeftAfterStep
    <3> HIDE DEF here, next
    <3>4. /\ here \in Nat /\ here # 0
          /\ next = IF here > 0 THEN here - 1 ELSE 0
      BY <3>3
    <3>5. div_busy_q' = (div_busy_q /\ here # 0)
      BY <3>1, <3>4
    <3>6. Abstract!DivAnswer
      BY <3>1, MappedAnswer
    <3> QED BY <3>1, <3>2, <3>3, <3>4, <3>5, <3>6, MappedRun
  <2>6. CASE DivideIdle
    <3>1. /\ Answer /\ ~div_busy_q /\ div_busy_q' = div_busy_q
          /\ q_mask_q' = q_mask_q /\ req' = req
      BY <2>6 DEF DivideIdle, unitVars
    <3>2. IterationsLeft = 0 /\ IterationsLeft' = 0
      BY <2>1, <2>2, <3>1 DEF IterationsLeft
    <3>3. Abstract!DivAnswer
      BY <3>1, MappedAnswer
    <3>4. div_busy_q' = (div_busy_q /\ 0 # 0)
      BY <2>1, <3>1
    <3> QED BY <3>1, <3>2, <3>3, <3>4, MappedRun
  <2>7. CASE UNCHANGED divideVars
    <3>1. /\ div_busy_q' = div_busy_q /\ q_mask_q' = q_mask_q /\ req' = req
          /\ valid_q' = valid_q /\ wb_result_q' = wb_result_q
      BY <2>7 DEF divideVars, unitVars
    <3>2. IterationsLeft' = IterationsLeft /\ IsaResult(req)' = IsaResult(req)
      BY <3>1 DEF IterationsLeft, IsaResult
    <3> QED BY <3>1, <3>2 DEF Abstract!divVars
  <2> QED BY <2>3, <2>4, <2>5, <2>6, <2>7 DEF DivideNext
<1> QED BY DividerInitial, DividerStep, <1>1, <1>2, PTL
        DEF DivideSpec, ImplementsDividerSpec, Abstract!DivSpec
=============================================================================

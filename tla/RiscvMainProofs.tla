-------------------------- MODULE RiscvMainProofs --------------------------
(***************************************************************************)
(* The simulator and the program around it, for every program: what it has *)
(* loaded, when its loop stops, how traps, interrupts, breakpoints and     *)
(* paging behave.                                                          *)
(*                                                                         *)
(* The properties of steps rest on little: Regs, that the registers are    *)
(* there, that the privilege level is one and that no bit of mip and mie   *)
(* is set but those of interrupts.  The work is in StepOutcome, which says *)
(* what any step that the program survives has made of the registers       *)
(* before the timer ticks: a trap, or an instruction (Ran) and then either *)
(* an interrupt or the next address.                                       *)
(***************************************************************************)
EXTENDS RiscvMain, TLAPS

(***************************************************************************)
(* The registers of the simulator, and that d has those of c.              *)
(***************************************************************************)
Fields == {"m_pc", "m_pc_x", "priv", "msr", "mip", "mie", "mideleg",
           "medeleg", "mepc", "mevec", "mcause", "sepc", "sevec", "scause",
           "stval", "satp", "mtime", "mtimecmp", "m_break"}

Keeps(c, d, changed) == \A x \in Fields \ changed : d[x] = c[x]

Regs(c) == /\ DOMAIN c = Fields
           /\ c.priv \in 0 .. 3
           /\ c.mip \subseteq IRQ_MASK /\ c.mie \subseteq IRQ_MASK

(***************************************************************************)
(* The timer's tick changes mtime, mip and m_break only.                   *)
(***************************************************************************)
LEMMA TickIs ==
    ASSUME NEW c, Regs(c)
    PROVE  LET d == Tick(c)
           IN  /\ Regs(d)
               /\ Keeps(c, d, {"mtime", "mip", "m_break"})
               /\ d.mip = c.mip \cup Flag(d.mtime = d.mtimecmp, TimerBit(d))
               /\ (\E k \in DOMAIN m_breakpoints :
                      m_breakpoints[k] = c.m_pc_x) => d.m_break
<1> DEFINE t == (c.mtime + 1) % TimeMod
           b == c.m_break \/ \E k \in DOMAIN m_breakpoints :
                                       m_breakpoints[k] = c.m_pc_x
           i == c.mip \cup Flag(t = c.mtimecmp, TimerBit(c))
           d == Tick(c)
<1>1. d = [c EXCEPT !.mtime = t, !.mip = i, !.m_break = b]
  BY DEF Tick
<1>2. i \subseteq IRQ_MASK
  BY DEF Flag, TimerBit, IRQ_MASK, STIP, MTIP, Regs
<1> HIDE DEF t, b, i, d
<1>3. DOMAIN d = Fields
  BY <1>1 DEF Regs
<1>4. d.mtime = t /\ d.mip = i /\ d.m_break = b
  BY <1>1 DEF Regs, Fields
<1>5. Keeps(c, d, {"mtime", "mip", "m_break"})
  BY <1>1 DEF Regs, Fields, Keeps
<1>6. d.priv = c.priv /\ d.mie = c.mie /\ d.mtimecmp = c.mtimecmp
      /\ d.mideleg = c.mideleg
  BY <1>5 DEF Fields, Keeps
<1>7. Regs(d)
  BY <1>2, <1>3, <1>4, <1>6 DEF Regs
<1>8. d.mip = c.mip \cup Flag(d.mtime = d.mtimecmp, TimerBit(d))
  BY <1>4, <1>6 DEF i, TimerBit
<1>9. (\E k \in DOMAIN m_breakpoints :
                      m_breakpoints[k] = c.m_pc_x) => d.m_break
  BY <1>4 DEF b
<1> QED
  BY <1>5, <1>7, <1>8, <1>9 DEF d

(***************************************************************************)
(* What exception() makes of the registers c.                              *)
(***************************************************************************)
EntersMachine(c, d, cause, pc) ==
    /\ d.priv = MACHINE /\ d.m_pc = c.mevec
    /\ d.msr = (c.msr \ ({MPIE, MIE} \cup MPP))
               \cup Flag(MIE \in c.msr, MPIE) \cup MppBits(c.priv)
    /\ d.mepc = pc /\ d.mcause = cause
    /\ Keeps(c, d, {"msr", "priv", "mepc", "mcause", "m_pc", "m_break"})

EntersSuper(c, d, cause, pc) ==
    /\ d.priv = SUPER /\ d.m_pc = c.sevec
    /\ d.msr = (c.msr \ {SPIE, SIE, SPP}) \cup Flag(SIE \in c.msr, SPIE)
               \cup Flag(c.priv = SUPER, SPP)
    /\ d.sepc = pc /\ d.scause = cause
    /\ Keeps(c, d, {"msr", "priv", "sepc", "scause", "stval", "m_pc", "m_break"})

Enters(c, d, cause, pc) ==
    /\ Regs(d)
    /\ IF Delegated(c, cause) THEN EntersSuper(c, d, cause, pc)
                              ELSE EntersMachine(c, d, cause, pc)

(***************************************************************************)
(* Exception enters the handler of one of the two levels.                  *)
(***************************************************************************)
LEMMA ExceptionEnters ==
    ASSUME NEW c, Regs(c), NEW cause, NEW pc, NEW badaddr
    PROVE  Enters(c, Exception(c, cause, pc, badaddr), cause, pc)
<1>1. ASSUME NEW d, d = ToSuper(c, cause, pc, badaddr)
      PROVE  Regs(d) /\ EntersSuper(c, d, cause, pc)
  <2> DEFINE m == (c.msr \ {SPIE, SIE, SPP}) \cup Flag(SIE \in c.msr, SPIE)
                                             \cup Flag(c.priv = SUPER, SPP)
             v == c.sevec
  <2>1. d = [c EXCEPT !.msr = m, !.priv = SUPER, !.sepc = pc,
                      !.scause = cause, !.stval = badaddr, !.m_pc = v]
    BY <1>1 DEF ToSuper
  <2> HIDE DEF m, v
  <2>2. DOMAIN d = Fields
    BY <2>1 DEF Regs
  <2>3. d.msr = m /\ d.priv = SUPER /\ d.sepc = pc /\ d.scause = cause
        /\ d.m_pc = v
    BY <2>1 DEF Regs, Fields
  <2>4. Keeps(c, d, {"msr", "priv", "sepc", "scause", "stval", "m_pc", "m_break"})
    BY <2>1 DEF Regs, Fields, Keeps
  <2>5. d.mip = c.mip /\ d.mie = c.mie
    BY <2>4 DEF Keeps, Fields
  <2> QED
    BY <2>2, <2>3, <2>4, <2>5 DEF EntersSuper, Regs, SUPER, m, v
<1>2. ASSUME NEW d, d = ToMachine(c, cause, pc)
      PROVE  Regs(d) /\ EntersMachine(c, d, cause, pc)
  <2> DEFINE m == (c.msr \ ({MPIE, MIE} \cup MPP))
                  \cup Flag(MIE \in c.msr, MPIE) \cup MppBits(c.priv)
             v == c.mevec
  <2>1. d = [c EXCEPT !.msr = m, !.priv = MACHINE, !.mepc = pc,
                      !.mcause = cause, !.m_pc = v]
    BY <1>2 DEF ToMachine
  <2> HIDE DEF m, v
  <2>2. DOMAIN d = Fields
    BY <2>1 DEF Regs
  <2>3. d.msr = m /\ d.priv = MACHINE /\ d.mepc = pc /\ d.mcause = cause
        /\ d.m_pc = v
    BY <2>1 DEF Regs, Fields
  <2>4. Keeps(c, d, {"msr", "priv", "mepc", "mcause", "m_pc", "m_break"})
    BY <2>1 DEF Regs, Fields, Keeps
  <2>5. d.mip = c.mip /\ d.mie = c.mie
    BY <2>4 DEF Keeps, Fields
  <2> QED
    BY <2>2, <2>3, <2>4, <2>5 DEF EntersMachine, Regs, MACHINE, m, v
<1> QED
  BY <1>1, <1>2 DEF Exception, Enters

(***************************************************************************)
(* ebreak sets m_break besides.                                            *)
(***************************************************************************)
LEMMA BreakEnters ==
    ASSUME NEW c, NEW e, NEW cause, NEW pc, Enters(c, e, cause, pc)
    PROVE  Enters(c, [e EXCEPT !.m_break = TRUE], cause, pc)
<1> DEFINE d == [e EXCEPT !.m_break = TRUE]
<1>1. DOMAIN d = Fields /\ \A x \in Fields \ {"m_break"} : d[x] = e[x]
  BY DEF Enters, Regs, Fields
<1> HIDE DEF d
<1>2. /\ d.priv = e.priv /\ d.m_pc = e.m_pc /\ d.msr = e.msr
      /\ d.mepc = e.mepc /\ d.mcause = e.mcause /\ d.sepc = e.sepc
      /\ d.scause = e.scause /\ d.mip = e.mip /\ d.mie = e.mie
  BY <1>1 DEF Fields
<1>3. Regs(d)
  BY <1>1, <1>2 DEF Enters, Regs
<1>4. ASSUME EntersSuper(c, e, cause, pc)  PROVE EntersSuper(c, d, cause, pc)
  <2>1. Keeps(c, d, {"msr", "priv", "sepc", "scause", "stval", "m_pc", "m_break"})
    BY <1>1, <1>4 DEF EntersSuper, Keeps
  <2> QED
    BY <1>2, <1>4, <2>1 DEF EntersSuper
<1>5. ASSUME EntersMachine(c, e, cause, pc)  PROVE EntersMachine(c, d, cause, pc)
  <2>1. Keeps(c, d, {"msr", "priv", "mepc", "mcause", "m_pc", "m_break"})
    BY <1>1, <1>5 DEF EntersMachine, Keeps
  <2> QED
    BY <1>2, <1>5, <2>1 DEF EntersMachine
<1> QED
  BY <1>3, <1>4, <1>5 DEF Enters, d

(***************************************************************************)
(* The lowest of a set of interrupts is one of them.                       *)
(***************************************************************************)
LEMMA LowestIs ==
    ASSUME NEW s \in SUBSET IRQ_MASK, s # {}
    PROVE  Lowest(s) \in s /\ \A m \in s : Lowest(s) <= m
<1>1. \E n \in s : \A m \in s : n <= m
  <2>1. CASE 1 \in s
    BY <2>1 DEF IRQ_MASK
  <2>2. CASE 1 \notin s /\ 3 \in s
    BY <2>2 DEF IRQ_MASK
  <2>3. CASE 1 \notin s /\ 3 \notin s /\ 5 \in s
    BY <2>3 DEF IRQ_MASK
  <2>4. CASE 1 \notin s /\ 3 \notin s /\ 5 \notin s /\ 7 \in s
    BY <2>4 DEF IRQ_MASK
  <2>5. CASE 1 \notin s /\ 3 \notin s /\ 5 \notin s /\ 7 \notin s /\ 9 \in s
    BY <2>5 DEF IRQ_MASK
  <2>6. CASE 1 \notin s /\ 3 \notin s /\ 5 \notin s /\ 7 \notin s /\ 9 \notin s
    <3>1. \A m \in s : m = 11
      BY <2>6 DEF IRQ_MASK
    <3> QED
      BY <3>1
  <2> QED
    BY <2>1, <2>2, <2>3, <2>4, <2>5, <2>6 DEF IRQ_MASK
<1> QED
  BY <1>1 DEF Lowest

(***************************************************************************)
(* The two outcomes of the check at the end of execute().                  *)
(***************************************************************************)
Interrupted(c, d, pc) ==
    /\ Takeable(c) # {}
    /\ Enters(c, d, MCAUSE_INTERRUPT + Lowest(Takeable(c)), pc)

Advances(c, d, pc) ==
    /\ Takeable(c) = {}
    /\ Regs(d) /\ d.m_pc = pc /\ Keeps(c, d, {"m_pc"})

LEMMA AfterInstructionIs ==
    ASSUME NEW c, Regs(c), NEW pc
    PROVE  LET d == AfterInstruction(c, pc)
           IN  Interrupted(c, d, pc) \/ Advances(c, d, pc)
<1> DEFINE d == AfterInstruction(c, pc)
<1>1. CASE Takeable(c) = {}
  <2>1. d = [c EXCEPT !.m_pc = pc]
    BY <1>1 DEF AfterInstruction
  <2> HIDE DEF d
  <2>2. DOMAIN d = Fields /\ d.m_pc = pc
    BY <2>1 DEF Regs, Fields
  <2>3. Keeps(c, d, {"m_pc"})
    BY <2>1 DEF Regs, Fields, Keeps
  <2>4. d.priv = c.priv /\ d.mip = c.mip /\ d.mie = c.mie
    BY <2>3 DEF Keeps, Fields
  <2> QED
    BY <1>1, <2>2, <2>3, <2>4 DEF Advances, Regs, d
<1>2. CASE Takeable(c) # {}
  BY <1>2, ExceptionEnters DEF AfterInstruction, Interrupted
<1> QED
  BY <1>1, <1>2

(***************************************************************************)
(* m_pc_x moves before the instruction is looked at.                       *)
(***************************************************************************)
LEMMA CurrentIs ==
    ASSUME Regs(cpu)
    PROVE  Regs(Current) /\ Current.m_pc_x = cpu.m_pc
           /\ Keeps(cpu, Current, {"m_pc_x"})
<1> DEFINE v == cpu.m_pc
<1>1. Current = [cpu EXCEPT !.m_pc_x = v]
  BY DEF Current
<1> HIDE DEF v
<1>2. DOMAIN Current = Fields /\ Current.m_pc_x = v
  BY <1>1 DEF Regs, Fields
<1>3. Keeps(cpu, Current, {"m_pc_x"})
  BY <1>1 DEF Regs, Fields, Keeps
<1>4. Current.priv = cpu.priv /\ Current.mip = cpu.mip /\ Current.mie = cpu.mie
  BY <1>3 DEF Keeps, Fields
<1> QED
  BY <1>2, <1>3, <1>4 DEF Regs, v

(***************************************************************************)
(* mret and sret change mstatus and the privilege level only.              *)
(***************************************************************************)
LEMMA ReturnIs ==
    ASSUME NEW c, Regs(c)
    PROVE  /\ Regs(MretOf(c)) /\ Keeps(c, MretOf(c), {"msr", "priv"})
           /\ Regs(SretOf(c)) /\ Keeps(c, SretOf(c), {"msr", "priv"})
<1>1. ASSUME NEW m, NEW p \in 0 .. 3
      PROVE  LET d == [c EXCEPT !.msr = m, !.priv = p]
             IN  Regs(d) /\ Keeps(c, d, {"msr", "priv"})
  <2> DEFINE d == [c EXCEPT !.msr = m, !.priv = p]
  <2>1. DOMAIN d = Fields /\ d.priv = p
    BY DEF Regs, Fields
  <2>2. Keeps(c, d, {"msr", "priv"})
    BY DEF Regs, Fields, Keeps
  <2> HIDE DEF d
  <2>3. d.mip = c.mip /\ d.mie = c.mie
    BY <2>2 DEF Keeps, Fields
  <2> QED
    BY <2>1, <2>2, <2>3 DEF Regs, d
<1>2. GetMpp(c.msr) \in 0 .. 3
  BY DEF GetMpp
<1>3. (IF SPP \in c.msr THEN SUPER ELSE USER) \in 0 .. 3
  BY DEF SUPER, USER
<1> QED
  BY <1>1, <1>2, <1>3 DEF MretOf, SretOf

(***************************************************************************)
(* A CSR access changes neither the addresses of the instruction nor the   *)
(* privilege level, and sets no bit of mip or mie that is no interrupt's.  *)
(***************************************************************************)
LEMMA AccessCsrIs ==
    ASSUME NEW c, Regs(c), NEW a
    PROVE  LET d == AccessCsr(c, a)
           IN  /\ Regs(d)
               /\ \A x \in {"m_pc", "m_pc_x", "priv", "mtime"} : d[x] = c[x]
               /\ \A x \in ValueCsrs : d[x] = c[x] \/ (a.csr = x /\ d[x] = a.value)
<1> DEFINE d == AccessCsr(c, a)
<1>1. CASE a.csr \in BitCsrs
  <2> DEFINE r == Register(a.csr)
             b == a.bits \cap Mask(a.csr)
             v == IF a.set /\ a.clr THEN b
                  ELSE IF a.set THEN c[r] \cup b
                  ELSE IF a.clr THEN c[r] \ b ELSE c[r]
  <2>1. d = [c EXCEPT ![r] = v]
    <3>1. d = WriteBits(c, a)
      BY <1>1 DEF AccessCsr, BitCsrs, ValueCsrs
    <3> HIDE DEF d
    <3> QED
      BY <3>1 DEF WriteBits
  <2>2. r \in {"msr", "mip", "mie", "mideleg", "medeleg"}
    BY <1>1 DEF Register, BitCsrs
  <2>3. r \in {"mip", "mie"} => Mask(a.csr) \subseteq IRQ_MASK
    BY <1>1 DEF Register, BitCsrs, Mask, SIRQ_MASK, IRQ_MASK
  <2>4. r \in {"mip", "mie"} => v \subseteq IRQ_MASK
    <3>1. v \subseteq c[r] \cup Mask(a.csr)
      OBVIOUS
    <3>2. r \in {"mip", "mie"} => c[r] \subseteq IRQ_MASK
      BY DEF Regs
    <3> QED
      BY <2>3, <3>1, <3>2
  <2> HIDE DEF d, v, r
  <2>5. DOMAIN d = Fields
    BY <2>1 DEF Regs
  <2>6. \A x \in Fields \ {r} : d[x] = c[x]
    BY <2>1 DEF Regs
  <2>7. d[r] = v
    BY <2>1, <2>2 DEF Regs, Fields
  <2>8. \A x \in {"m_pc", "m_pc_x", "priv", "mtime"} \cup ValueCsrs : d[x] = c[x]
    BY <2>2, <2>6 DEF Fields, ValueCsrs
  <2>9. d.priv = c.priv
    BY <2>8
  <2>10. d.mip \subseteq IRQ_MASK /\ d.mie \subseteq IRQ_MASK
    <3>1. ASSUME NEW x \in {"mip", "mie"}  PROVE d[x] \subseteq IRQ_MASK
      <4>1. c[x] \subseteq IRQ_MASK
        BY DEF Regs
      <4>2. x \in Fields
        BY DEF Fields
      <4> QED
        BY <4>1, <4>2, <2>4, <2>6, <2>7
    <3> QED
      BY <3>1
  <2> QED
    BY <2>5, <2>8, <2>9, <2>10 DEF Regs, d
<1>2. CASE a.csr \in ValueCsrs
  <2> DEFINE v == a.value
             r == a.csr
  <2>1. d = [c EXCEPT ![r] = v]
    BY <1>2 DEF AccessCsr, BitCsrs, ValueCsrs
  <2>2. r \in ValueCsrs
    BY <1>2
  <2>3. a.csr = r /\ a.value = v
    OBVIOUS
  <2> HIDE DEF d, v, r
  <2>5. DOMAIN d = Fields
    BY <2>1 DEF Regs
  <2>6. \A x \in Fields \ {r} : d[x] = c[x]
    BY <2>1 DEF Regs
  <2>7. d[r] = v
    BY <2>1, <2>2 DEF Regs, Fields, ValueCsrs
  <2>8. \A x \in {"m_pc", "m_pc_x", "priv", "mtime", "mip", "mie"} : d[x] = c[x]
    BY <2>2, <2>6 DEF Fields, ValueCsrs
  <2>9. \A x \in ValueCsrs : d[x] = c[x] \/ (a.csr = x /\ d[x] = a.value)
    BY <2>3, <2>6, <2>7 DEF Fields, ValueCsrs
  <2>10. Regs(d)
    BY <2>5, <2>8 DEF Regs
  <2> QED
    BY <2>8, <2>9, <2>10 DEF d
<1>3. CASE a.csr = "mtime"
  <2> DEFINE v == a.value
             i == c.mip \ {TimerBit(c)}
  <2>1. d = c \/ d = [c EXCEPT !.mtimecmp = v, !.mip = i]
    BY <1>3 DEF AccessCsr, BitCsrs, ValueCsrs, WriteMtime
  <2>2. i \subseteq IRQ_MASK
    BY DEF Regs
  <2> HIDE DEF d, v, i
  <2>3. CASE d = [c EXCEPT !.mtimecmp = v, !.mip = i]
    <3>1. DOMAIN d = Fields /\ d.mip = i
      BY <2>3 DEF Regs, Fields
    <3>2. \A x \in Fields \ {"mtimecmp", "mip"} : d[x] = c[x]
      BY <2>3 DEF Regs
    <3>3. \A x \in {"m_pc", "m_pc_x", "priv", "mtime", "mie"} \cup ValueCsrs : d[x] = c[x]
      BY <3>2 DEF Fields, ValueCsrs
    <3>4. Regs(d)
      BY <2>2, <3>1, <3>3 DEF Regs
    <3> QED
      BY <3>3, <3>4 DEF d
  <2> QED
    BY <2>1, <2>3 DEF d
<1>4. CASE a.csr \notin BitCsrs \cup ValueCsrs \cup {"mtime"}
  BY <1>4 DEF AccessCsr
<1> QED
  BY <1>1, <1>2, <1>3, <1>4

(***************************************************************************)
(* What a step has done to the registers before the timer ticks. Trapped   *)
(* is an exception with the address of the instruction; Ran says which     *)
(* instruction has run, what it made of the registers and where it goes    *)
(* on.                                                                     *)
(***************************************************************************)
Trapped(c, d) == \E cause \in 0 .. 31 : Enters(c, d, cause, cpu.m_pc)

Ran(c, pc) ==
    \/ /\ Running({"alu", "jump", "load", "store"})
       /\ c = Current /\ Follows(pc)
    \/ /\ Running({"mret"}) /\ cpu.priv = MACHINE /\ mem' = mem
       /\ c = MretOf(Current) /\ pc = cpu.mepc
    \/ /\ Running({"sret"}) /\ cpu.priv = SUPER /\ mem' = mem
       /\ c = SretOf(Current) /\ pc = cpu.sepc
    \/ /\ Running({"csr"}) /\ mem' = mem
       /\ c = AccessCsr(Current, Fetched) /\ pc = NextPc

Outcome(d) ==
    \/ Fetch.res = "fault" /\ mem' = mem /\ Trapped(cpu, d)
    \/ /\ Running({"load", "store", "ecall", "ebreak"})
       /\ mem' = mem /\ Trapped(Current, d)
    \/ \E c, pc : /\ Regs(c) /\ Ran(c, pc)
                  /\ Interrupted(c, d, pc) \/ Advances(c, d, pc)

(***************************************************************************)
(* What has run is followed by the check for interrupts.                   *)
(***************************************************************************)
LEMMA RanIs ==
    ASSUME Regs(cpu), NEW c, NEW pc, Ran(c, pc)
    PROVE  Regs(c) /\ Outcome(AfterInstruction(c, pc))
<1>1. Regs(c)
  BY CurrentIs, ReturnIs, AccessCsrIs DEF Ran
<1> QED
  BY <1>1, AfterInstructionIs DEF Outcome

(***************************************************************************)
(* Every step that the program survives has one of these outcomes, and     *)
(* then the timer ticks.                                                   *)
(***************************************************************************)
LEMMA StepOutcome ==
    ASSUME Regs(cpu), Completed
    PROVE  \E d : Outcome(d) /\ cpu' = Tick(d)
<1> USE DEF Done, End
<1>1. CASE FetchFault
  <2> DEFINE d == Exception(cpu, MCAUSE_PAGE_FAULT_INST, cpu.m_pc, cpu.m_pc)
  <2>1. Trapped(cpu, d)
    BY ExceptionEnters DEF Trapped, MCAUSE_PAGE_FAULT_INST
  <2>2. Outcome(d) /\ cpu' = Tick(d)
    BY <1>1, <2>1 DEF FetchFault, Outcome
  <2> QED
    BY <2>2
<1>2. ~BadInstruction
  BY DEF Completed, BadInstruction
<1>3. CASE Plain
  <2>1. Ran(Current, NextPc) /\ cpu' = Tick(AfterInstruction(Current, NextPc))
    BY <1>3 DEF Plain, Ran, Running, Follows
  <2> QED
    BY <2>1, RanIs
<1>4. CASE Jump
  <2>1. /\ Ran(Current, Fetched.to)
        /\ cpu' = Tick(AfterInstruction(Current, Fetched.to))
    BY <1>4 DEF Jump, Ran, Running, Follows
  <2> QED
    BY <2>1, RanIs
<1>5. ASSUME NEW need, NEW cause \in 0 .. 31, DataFault(need, cause),
             Running({"load", "store", "ecall", "ebreak"})
      PROVE  \E d : Outcome(d) /\ cpu' = Tick(d)
  <2> DEFINE d == Exception(Current, cause, cpu.m_pc, Fetched.addr)
  <2>1. Trapped(Current, d)
    BY ExceptionEnters, CurrentIs DEF Trapped
  <2>2. Outcome(d) /\ cpu' = Tick(d)
    BY <1>5, <2>1 DEF DataFault, Outcome
  <2> QED
    BY <2>2
<1>6. ASSUME Running({"load", "store"}),
             Done(AfterInstruction(Current, NextPc))
      PROVE  \E d : Outcome(d) /\ cpu' = Tick(d)
  <2>1. Ran(Current, NextPc) /\ cpu' = Tick(AfterInstruction(Current, NextPc))
    BY <1>6 DEF Ran, Running, Follows
  <2> QED
    BY <2>1, RanIs
<1>7. CASE Load
  <2>1. Running({"load", "store", "ecall", "ebreak"}) /\ Running({"load", "store"})
    BY <1>7 DEF Load, Running
  <2>2. DataFault("R", MCAUSE_PAGE_FAULT_LOAD)
        \/ Done(AfterInstruction(Current, NextPc))
    BY <1>7 DEF Load, DataEnds, Completed
  <2> QED
    BY <1>5, <1>6, <2>1, <2>2 DEF MCAUSE_PAGE_FAULT_LOAD
<1>8. CASE Store
  <2>1. Running({"load", "store", "ecall", "ebreak"}) /\ Running({"load", "store"})
    BY <1>8 DEF Store, Running
  <2>2. DataFault("W", MCAUSE_PAGE_FAULT_STORE)
        \/ Done(AfterInstruction(Current, NextPc))
    BY <1>8 DEF Store, DataEnds, Completed
  <2> QED
    BY <1>5, <1>6, <2>1, <2>2 DEF MCAUSE_PAGE_FAULT_STORE
<1>9. CASE Ecall
  <2> DEFINE d == Exception(Current, MCAUSE_ECALL_U + cpu.priv, cpu.m_pc, 0)
  <2>1. Trapped(Current, d)
    BY ExceptionEnters, CurrentIs DEF Trapped, MCAUSE_ECALL_U, Regs
  <2>2. Running({"load", "store", "ecall", "ebreak"}) /\ mem' = mem
    BY <1>9 DEF Ecall, Running
  <2>3. Outcome(d) /\ cpu' = Tick(d)
    BY <1>9, <2>1, <2>2 DEF Ecall, Outcome
  <2> QED
    BY <2>3
<1>10. CASE Ebreak
  <2> DEFINE e == Exception(Current, MCAUSE_BREAKPOINT, cpu.m_pc, 0)
             d == [e EXCEPT !.m_break = TRUE]
  <2>1. Trapped(Current, d)
    <3>1. Enters(Current, e, MCAUSE_BREAKPOINT, cpu.m_pc)
      BY ExceptionEnters, CurrentIs
    <3>2. Enters(Current, d, MCAUSE_BREAKPOINT, cpu.m_pc)
      BY <3>1, BreakEnters
    <3> QED
      BY <3>2 DEF Trapped, MCAUSE_BREAKPOINT
  <2>2. Running({"load", "store", "ecall", "ebreak"}) /\ mem' = mem
    BY <1>10 DEF Ebreak, Running
  <2>3. Outcome(d) /\ cpu' = Tick(d)
    BY <1>10, <2>1, <2>2 DEF Ebreak, Outcome
  <2> QED
    BY <2>3
<1>11. CASE Mret
  <2>1. /\ Ran(MretOf(Current), cpu.mepc)
        /\ cpu' = Tick(AfterInstruction(MretOf(Current), cpu.mepc))
    BY <1>11 DEF Mret, Ran, Completed
  <2> QED
    BY <2>1, RanIs
<1>12. CASE Sret
  <2>1. /\ Ran(SretOf(Current), cpu.sepc)
        /\ cpu' = Tick(AfterInstruction(SretOf(Current), cpu.sepc))
    BY <1>12 DEF Sret, Ran, Completed
  <2> QED
    BY <2>1, RanIs
<1>13. CASE Csr
  <2>1. /\ Ran(AccessCsr(Current, Fetched), NextPc)
        /\ cpu' = Tick(AfterInstruction(AccessCsr(Current, Fetched), NextPc))
    BY <1>13 DEF Csr, Ran, Completed
  <2> QED
    BY <2>1, RanIs
<1> QED
  BY <1>1, <1>2, <1>3, <1>4, <1>7, <1>8, <1>9, <1>10, <1>11, <1>12, <1>13
  DEF Completed, Step

(***************************************************************************)
(* No outcome spoils the registers.                                        *)
(***************************************************************************)
LEMMA OutcomeRegs ==
    ASSUME Regs(cpu), NEW d, Outcome(d), cpu' = Tick(d)
    PROVE  Regs(d) /\ Regs(cpu')
<1>1. Regs(d)
  BY DEF Outcome, Trapped, Enters, Interrupted, Advances
<1> QED
  BY <1>1, TickIs

(***************************************************************************)
(* A step that ends the program leaves everything else alone.              *)
(***************************************************************************)
LEMMA EndedKeeps ==
    ASSUME Step, ~Completed
    PROVE  UNCHANGED <<cpu, mem, m_breakpoints>>
BY DEF Step, Completed, FetchFault, BadInstruction, Plain, Jump, Load, Store,
       Ecall, Ebreak, Mret, Sret, Csr, Done, End, DataFault, DataEnds, Running

(***************************************************************************)
(* Reset makes registers.                                                  *)
(***************************************************************************)
LEMMA ResetIs == ASSUME NEW start PROVE Regs(Reset(start))
BY DEF Reset, Regs, Fields, MACHINE, IRQ_MASK

(***************************************************************************)
(* Nothing the program or the owner does spoils them.                      *)
(***************************************************************************)
LEMMA NextRegs ==
    ASSUME Regs(cpu), [Next]_vars
    PROVE  Regs(cpu')
<1>1. CASE Step
  <2>1. CASE Completed
    BY <2>1, StepOutcome, OutcomeRegs
  <2>2. CASE ~Completed
    BY <1>1, <2>2, EndedKeeps
  <2> QED
    BY <2>1, <2>2
<1>2. CASE SetInterrupt
  <2> DEFINE i == cpu.mip \cup {MEIP}
  <2>1. cpu' = [cpu EXCEPT !.mip = i]
    BY <1>2 DEF SetInterrupt
  <2>2. i \subseteq IRQ_MASK
    BY DEF Regs, IRQ_MASK, MEIP
  <2> HIDE DEF i
  <2> QED
    BY <2>1, <2>2 DEF Regs, Fields
<1>3. CASE GetBreak
  <2>1. cpu' = [cpu EXCEPT !.m_break = FALSE]
    BY <1>3 DEF GetBreak
  <2> QED
    BY <2>1 DEF Regs, Fields
<1>4. CASE ResetCore
  BY <1>4, ResetIs DEF ResetCore
<1>5. CASE UNCHANGED cpu
  BY <1>5
<1> QED
  BY <1>1, <1>2, <1>3, <1>4, <1>5
  DEF Next, Load_section, Round, AtExit, Embedded, Owner, ClrBreakpoint,
      vars, simVars

(***************************************************************************)
(* The registers stay registers: the privilege level is a level, and mip   *)
(* and mie hold interrupts only, whatever is written through the views of  *)
(* the supervisor (access_csr, exception, mret, sret).                     *)
(***************************************************************************)
THEOREM Typed == Spec => []Regs(cpu)
<1>1. Init => Regs(cpu)
  BY ResetIs DEF Init
<1>2. Regs(cpu) /\ [Next]_vars => Regs(cpu)'
  BY NextRegs
<1> QED
  BY <1>1, <1>2, PTL DEF Spec

(***************************************************************************)
(* An interrupt that is due after the tick and not raised by it was due    *)
(* before.                                                                 *)
(***************************************************************************)
LEMMA DueBefore ==
    ASSUME NEW d, Regs(d), cpu' = Tick(d), NEW n
    PROVE  /\ IsDue(cpu', n) => RaisedNow(n) \/ IsDue(d, n)
           /\ cpu'.priv = d.priv /\ cpu'.m_pc = d.m_pc /\ cpu'.sevec = d.sevec
           /\ cpu'.scause = d.scause /\ cpu'.mideleg = d.mideleg
<1>1. /\ cpu'.priv = d.priv /\ cpu'.m_pc = d.m_pc /\ cpu'.sevec = d.sevec
      /\ cpu'.scause = d.scause /\ cpu'.mideleg = d.mideleg
      /\ cpu'.mie = d.mie /\ cpu'.msr = d.msr
  BY TickIs DEF Keeps, Fields
<1>2. cpu'.mip = d.mip \cup Flag(cpu'.mtime = cpu'.mtimecmp, TimerBit(cpu'))
  BY TickIs
<1>3. n \in cpu'.mip => n \in d.mip \/ RaisedNow(n)
  BY <1>2 DEF Flag, RaisedNow
<1>4. LevelOf(cpu', n) = LevelOf(d, n)
  BY <1>1 DEF LevelOf
<1> QED
  BY <1>1, <1>3, <1>4 DEF IsDue

(***************************************************************************)
(* In a handler that was just entered only a machine interrupt can be due, *)
(* and only if the handler is the supervisor's.                            *)
(***************************************************************************)
LEMMA DueInHandler ==
    ASSUME NEW c, Regs(c), NEW d, NEW cause, NEW pc,
           Enters(c, d, cause, pc), NEW n, IsDue(d, n)
    PROVE  /\ d.priv = SUPER /\ d.m_pc = d.sevec /\ d.scause = cause
           /\ n \notin d.mideleg /\ Delegated(c, cause)
           /\ n \in c.mip \cap c.mie /\ n \notin c.mideleg
<1>1. CASE EntersMachine(c, d, cause, pc)
  <2>1. d.priv = MACHINE /\ MIE \notin d.msr
    BY <1>1 DEF EntersMachine, Flag, MppBits, MIE, MPIE, MPP
  <2> QED
    BY <2>1 DEF IsDue, LevelOf, SUPER, MACHINE
<1>2. CASE EntersSuper(c, d, cause, pc) /\ Delegated(c, cause)
  <2>1. d.priv = SUPER /\ SIE \notin d.msr
    BY <1>2 DEF EntersSuper, Flag, SIE, SPIE, SPP
  <2>2. d.sevec = c.sevec /\ d.mip = c.mip /\ d.mie = c.mie
        /\ d.mideleg = c.mideleg
    BY <1>2 DEF EntersSuper, Keeps, Fields
  <2>3. d.m_pc = c.sevec /\ d.scause = cause
    BY <1>2 DEF EntersSuper
  <2>4. n \notin d.mideleg /\ n \in d.mip \cap d.mie
    BY <2>1 DEF IsDue, LevelOf, SUPER, MACHINE
  <2> QED
    BY <1>2, <2>1, <2>2, <2>3, <2>4
<1> QED
  BY <1>1, <1>2 DEF Enters

(***************************************************************************)
(* The interrupt that is taken is one of those that can be.                *)
(***************************************************************************)
LEMMA TakeableIs ==
    ASSUME NEW c, Regs(c), Takeable(c) # {}
    PROVE  LET n == Lowest(Takeable(c))
           IN  /\ n \in Takeable(c) /\ n \in IRQ_MASK
               /\ \A m \in Takeable(c) : n <= m
               /\ MCAUSE_INTERRUPT + n >= MCAUSE_INTERRUPT
               /\ (MCAUSE_INTERRUPT + n) - MCAUSE_INTERRUPT = n
<1>1. Takeable(c) \in SUBSET IRQ_MASK
  BY DEF Takeable, MachineIrqs, SuperIrqs, Regs
<1> DEFINE s == Takeable(c)
           n == Lowest(s)
<1> HIDE DEF s
<1>2. n \in s /\ n \in IRQ_MASK /\ \A m \in s : n <= m
  BY <1>1, LowestIs DEF s
<1> HIDE DEF n
<1>3. n \in Nat
  BY <1>2 DEF IRQ_MASK
<1> QED
  BY <1>2, <1>3 DEF MCAUSE_INTERRUPT, s, n

(***************************************************************************)
(* exception() decides the level again and agrees with the check.          *)
(***************************************************************************)
LEMMA InterruptLevel ==
    ASSUME NEW c, Regs(c), Takeable(c) # {}
    PROVE  LET n == Lowest(Takeable(c))
           IN  IF Delegated(c, MCAUSE_INTERRUPT + n)
               THEN /\ MachineIrqs(c) = {} /\ Takeable(c) = SuperIrqs(c)
                    /\ c.priv <= SUPER /\ n \in SuperIrqs(c)
               ELSE Takeable(c) = MachineIrqs(c) /\ n \in MachineIrqs(c)
<1> DEFINE n == Lowest(Takeable(c))
<1>1. n \in Takeable(c) /\ MCAUSE_INTERRUPT + n >= MCAUSE_INTERRUPT
      /\ (MCAUSE_INTERRUPT + n) - MCAUSE_INTERRUPT = n
  BY TakeableIs
<1> HIDE DEF n
<1>2. Delegated(c, MCAUSE_INTERRUPT + n) <=> c.priv <= SUPER /\ n \in c.mideleg
  BY <1>1 DEF Delegated
<1>3. CASE MachineIrqs(c) # {}
  BY <1>1, <1>2, <1>3 DEF Takeable, MachineIrqs, n
<1>4. CASE MachineIrqs(c) = {}
  <2>1. n \in SuperIrqs(c) /\ Takeable(c) = SuperIrqs(c)
    BY <1>1, <1>4 DEF Takeable
  <2>2. n \in c.mideleg /\ c.priv <= SUPER
    BY <2>1 DEF SuperIrqs, SUPER, Regs
  <2> QED
    BY <1>2, <1>4, <2>1, <2>2 DEF n
<1> QED
  BY <1>3, <1>4

(***************************************************************************)
(* Behind the check no interrupt is due.                                   *)
(***************************************************************************)
LEMMA NoneDue ==
    ASSUME NEW c, Regs(c), NEW d, NEW pc, NEW n, IsDue(d, n),
           Interrupted(c, d, pc) \/ Advances(c, d, pc)
    PROVE  FALSE
<1>1. CASE Interrupted(c, d, pc)
  <2> DEFINE cause == MCAUSE_INTERRUPT + Lowest(Takeable(c))
  <2>1. Enters(c, d, cause, pc) /\ Takeable(c) # {}
    BY <1>1 DEF Interrupted
  <2> HIDE DEF cause
  <2>2. Delegated(c, cause) /\ n \in c.mip \cap c.mie /\ n \notin c.mideleg
    BY <2>1, DueInHandler
  <2>3. MachineIrqs(c) = {} /\ c.priv <= SUPER
    BY <2>1, <2>2, InterruptLevel DEF cause
  <2> QED
    BY <2>2, <2>3 DEF MachineIrqs, SUPER, MACHINE, Regs
<1>2. CASE Advances(c, d, pc)
  <2>1. /\ d.mip = c.mip /\ d.mie = c.mie /\ d.mideleg = c.mideleg
        /\ d.priv = c.priv /\ d.msr = c.msr
    BY <1>2 DEF Advances, Keeps, Fields
  <2>2. MachineIrqs(c) = {} /\ SuperIrqs(c) = {}
    BY <1>2 DEF Advances, Takeable
  <2> QED
    BY <2>1, <2>2 DEF IsDue, LevelOf, MachineIrqs, SuperIrqs, SUPER, MACHINE, Regs
<1> QED
  BY <1>1, <1>2

(***************************************************************************)
(* No interrupt waits for more than one instruction, for every program and *)
(* owner (InterruptsPrompt: the check at the end of execute, which         *)
(* exceptions do not reach).                                               *)
(***************************************************************************)
THEOREM Prompt == Spec => InterruptsPrompt
<1> DEFINE P == Completed =>
          \A n \in IRQ_MASK :
              IsDue(cpu', n) =>
                  \/ RaisedNow(n)
                  \/ HandlerEntered /\ n \notin cpu'.mideleg
<1>1. Regs(cpu) => P
  <2> SUFFICES ASSUME Regs(cpu), Completed, NEW n \in IRQ_MASK,
                      IsDue(cpu', n), ~RaisedNow(n)
               PROVE  HandlerEntered /\ n \notin cpu'.mideleg
    OBVIOUS
  <2>1. PICK d : Outcome(d) /\ cpu' = Tick(d)
    BY StepOutcome
  <2>2. Regs(d)
    BY <2>1, OutcomeRegs
  <2>3. /\ IsDue(d, n)
        /\ cpu'.priv = d.priv /\ cpu'.m_pc = d.m_pc /\ cpu'.sevec = d.sevec
        /\ cpu'.scause = d.scause /\ cpu'.mideleg = d.mideleg
    BY <2>1, <2>2, DueBefore
  <2>4. PICK c : Regs(c) /\ Trapped(c, d)
    BY <2>1, <2>3, NoneDue, CurrentIs DEF Outcome
  <2> PICK cause \in 0 .. 31 : Enters(c, d, cause, cpu.m_pc)
    BY <2>4 DEF Trapped
  <2>5. /\ d.priv = SUPER /\ d.m_pc = d.sevec /\ d.scause = cause
        /\ n \notin d.mideleg
    BY <2>3, <2>4, DueInHandler
  <2> QED
    BY <2>3, <2>4, <2>5 DEF HandlerEntered, MCAUSE_INTERRUPT
<1>2. Regs(cpu) => [P]_simVars
  BY <1>1
<1> QED
  BY <1>2, Typed, PTL DEF InterruptsPrompt

(***************************************************************************)
(* No breakpoint is missed, for every program and list of breakpoints      *)
(* (BreakpointHit: step and check_breakpoint).                             *)
(***************************************************************************)
THEOREM BreakpointsHit == Spec => BreakpointHit
<1> DEFINE P == Completed /\ HasWord
          /\ (\E k \in DOMAIN m_breakpoints : m_breakpoints[k] = cpu.m_pc)
          => cpu'.m_break
<1>1. Regs(cpu) => P
  <2> SUFFICES ASSUME Regs(cpu), Completed, HasWord,
                      \E k \in DOMAIN m_breakpoints : m_breakpoints[k] = cpu.m_pc
               PROVE  cpu'.m_break
    OBVIOUS
  <2>1. PICK d : Outcome(d) /\ cpu' = Tick(d)
    BY StepOutcome
  <2>2. Regs(d)
    BY <2>1, OutcomeRegs
  <2>3. ASSUME NEW c, NEW cause, NEW pc, Enters(c, d, cause, pc)
        PROVE  d.m_pc_x = c.m_pc_x
    BY <2>3 DEF Enters, EntersMachine, EntersSuper, Keeps, Fields
  <2>4. d.m_pc_x = cpu.m_pc
    <3>1. CASE Trapped(Current, d)
      BY <2>3, <3>1, CurrentIs DEF Trapped
    <3>2. ASSUME NEW c, NEW pc, Ran(c, pc),
                 Interrupted(c, d, pc) \/ Advances(c, d, pc)
          PROVE  d.m_pc_x = cpu.m_pc
      <4>1. c.m_pc_x = Current.m_pc_x
        <5>1. MretOf(Current).m_pc_x = Current.m_pc_x
              /\ SretOf(Current).m_pc_x = Current.m_pc_x
          BY CurrentIs, ReturnIs DEF Keeps, Fields
        <5>2. AccessCsr(Current, Fetched).m_pc_x = Current.m_pc_x
          BY CurrentIs, AccessCsrIs
        <5> QED
          BY <3>2, <5>1, <5>2 DEF Ran
      <4>2. d.m_pc_x = c.m_pc_x
        BY <2>3, <3>2 DEF Interrupted, Advances, Keeps, Fields
      <4> QED
        BY <4>1, <4>2, CurrentIs
    <3> QED
      BY <2>1, <3>1, <3>2 DEF Outcome, HasWord
  <2> QED
    BY <2>1, <2>2, <2>4, TickIs
<1>2. Regs(cpu) => [P]_simVars
  BY <1>1
<1> QED
  BY <1>2, Typed, PTL DEF BreakpointHit

(***************************************************************************)
(* mret undoes the entry into the machine's handler.                       *)
(***************************************************************************)
LEMMA MretRestores ==
    ASSUME NEW c, Regs(c), NEW e, Regs(e),
           e.msr = (c.msr \ ({MPIE, MIE} \cup MPP))
                   \cup Flag(MIE \in c.msr, MPIE) \cup MppBits(c.priv)
    PROVE  /\ MretOf(e).priv = c.priv
           /\ MretOf(e).msr \ ({MPIE} \cup MPP) = c.msr \ ({MPIE} \cup MPP)
<1> DEFINE m == (e.msr \ ({MIE} \cup MPP)) \cup Flag(MPIE \in e.msr, MIE)
                \cup {MPIE}
           p == GetMpp(e.msr)
<1>1. MretOf(e) = [e EXCEPT !.msr = m, !.priv = p]
  BY DEF MretOf
<1>2. p = c.priv
  <2>1. (11 \in e.msr <=> c.priv % 2 = 1) /\ (12 \in e.msr <=> c.priv > 1)
    BY DEF MppBits, Flag, MPIE, MIE, MPP
  <2>2. c.priv = 0 \/ c.priv = 1 \/ c.priv = 2 \/ c.priv = 3
    BY DEF Regs
  <2> QED
    BY <2>1, <2>2 DEF GetMpp
<1>3. m \ ({MPIE} \cup MPP) = c.msr \ ({MPIE} \cup MPP)
  <2>1. MPIE \in e.msr <=> MIE \in c.msr
    BY DEF MppBits, Flag, MPIE, MIE, MPP
  <2>2. ASSUME NEW x, x \notin {MPIE} \cup MPP
        PROVE  x \in m <=> x \in c.msr
    BY <2>1, <2>2 DEF MppBits, Flag, MPIE, MIE, MPP
  <2> QED
    BY <2>2
<1> HIDE DEF m, p
<1> QED
  BY <1>1, <1>2, <1>3 DEF Regs, Fields

(***************************************************************************)
(* sret undoes the entry into the supervisor's handler.                    *)
(***************************************************************************)
LEMMA SretRestores ==
    ASSUME NEW c, Regs(c), c.priv <= SUPER, NEW e, Regs(e),
           e.msr = (c.msr \ {SPIE, SIE, SPP}) \cup Flag(SIE \in c.msr, SPIE)
                   \cup Flag(c.priv = SUPER, SPP)
    PROVE  /\ SretOf(e).priv = c.priv
           /\ SretOf(e).msr \ {SPIE, SPP} = c.msr \ {SPIE, SPP}
<1> DEFINE m == (e.msr \ {SIE, SPP}) \cup Flag(SPIE \in e.msr, SIE)
                \cup {SPIE}
           p == IF SPP \in e.msr THEN SUPER ELSE USER
<1>1. SretOf(e) = [e EXCEPT !.msr = m, !.priv = p]
  BY DEF SretOf
<1>2. p = c.priv
  <2>1. SPP \in e.msr <=> c.priv = SUPER
    BY DEF Flag, SPIE, SIE, SPP
  <2> QED
    BY <2>1 DEF Regs, SUPER, USER
<1>3. m \ {SPIE, SPP} = c.msr \ {SPIE, SPP}
  <2>1. SPIE \in e.msr <=> SIE \in c.msr
    BY DEF Flag, SPIE, SIE, SPP
  <2>2. ASSUME NEW x, x \notin {SPIE, SPP}
        PROVE  x \in m <=> x \in c.msr
    BY <2>1, <2>2 DEF Flag, SPIE, SIE, SPP
  <2> QED
    BY <2>2
<1> HIDE DEF m, p
<1> QED
  BY <1>1, <1>2, <1>3 DEF Regs, Fields

(***************************************************************************)
(* So a trap taken by this step could be undone.                           *)
(***************************************************************************)
LEMMA TrapRestores ==
    ASSUME Regs(cpu), NEW c, c \in {cpu, Current}, NEW d, NEW cause, NEW pc,
           Enters(c, d, cause, pc), cpu' = Tick(d), Resumes(cause, pc)
    PROVE  \/ /\ cpu'.priv = MACHINE /\ cpu'.m_pc = cpu'.mevec
              /\ Restores(MretOf(cpu'), {MPIE} \cup MPP)
              /\ Resumes(cpu'.mcause, cpu'.mepc)
           \/ /\ cpu'.priv = SUPER /\ cpu'.m_pc = cpu'.sevec
              /\ Restores(SretOf(cpu'), {SPIE, SPP})
              /\ Resumes(cpu'.scause, cpu'.sepc)
<1>1. Regs(c) /\ c.priv = cpu.priv /\ c.msr = cpu.msr
  BY CurrentIs DEF Keeps, Fields
<1>2. Regs(d) /\ Regs(cpu') /\ Keeps(d, cpu', {"mtime", "mip", "m_break"})
  BY TickIs DEF Enters
<1>3. /\ cpu'.priv = d.priv /\ cpu'.msr = d.msr /\ cpu'.m_pc = d.m_pc
      /\ cpu'.mevec = d.mevec /\ cpu'.sevec = d.sevec
      /\ cpu'.mcause = d.mcause /\ cpu'.scause = d.scause
      /\ cpu'.mepc = d.mepc /\ cpu'.sepc = d.sepc
  BY <1>2 DEF Keeps, Fields
<1>4. CASE EntersMachine(c, d, cause, pc)
  <2>1. /\ cpu'.priv = MACHINE /\ cpu'.m_pc = c.mevec
        /\ cpu'.mcause = cause /\ cpu'.mepc = pc
        /\ cpu'.msr = (c.msr \ ({MPIE, MIE} \cup MPP))
                      \cup Flag(MIE \in c.msr, MPIE) \cup MppBits(c.priv)
    BY <1>3, <1>4 DEF EntersMachine
  <2>2. cpu'.mevec = c.mevec
    BY <1>3, <1>4 DEF EntersMachine, Keeps, Fields
  <2>3. Restores(MretOf(cpu'), {MPIE} \cup MPP)
    BY <1>1, <1>2, <2>1, MretRestores DEF Restores
  <2> QED
    BY <2>1, <2>2, <2>3
<1>5. CASE EntersSuper(c, d, cause, pc) /\ Delegated(c, cause)
  <2>1. /\ cpu'.priv = SUPER /\ cpu'.m_pc = c.sevec
        /\ cpu'.scause = cause /\ cpu'.sepc = pc
        /\ cpu'.msr = (c.msr \ {SPIE, SIE, SPP}) \cup Flag(SIE \in c.msr, SPIE)
                      \cup Flag(c.priv = SUPER, SPP)
    BY <1>3, <1>5 DEF EntersSuper
  <2>2. cpu'.sevec = c.sevec
    BY <1>3, <1>5 DEF EntersSuper, Keeps, Fields
  <2>3. c.priv <= SUPER
    BY <1>5 DEF Delegated
  <2>4. Restores(SretOf(cpu'), {SPIE, SPP})
    BY <1>1, <1>2, <2>1, <2>3, SretRestores DEF Restores
  <2> QED
    BY <2>1, <2>2, <2>4
<1> QED
  BY <1>4, <1>5 DEF Enters

(***************************************************************************)
(* No trap loses anything, for every program: privilege, mstatus, memory   *)
(* and the address to resume at could be restored at once (TrapUndone:     *)
(* exception against mret and sret).                                       *)
(***************************************************************************)
THEOREM TrapsUndone == Spec => TrapUndone
<1> DEFINE P == Completed /\ ~Running({"csr", "mret", "sret"}) =>
          \/ /\ cpu'.priv = cpu.priv /\ cpu'.msr = cpu.msr
             /\ Follows(cpu'.m_pc)
          \/ /\ cpu'.priv = MACHINE /\ cpu'.m_pc = cpu'.mevec
             /\ Restores(MretOf(cpu'), {MPIE} \cup MPP)
             /\ Resumes(cpu'.mcause, cpu'.mepc)
          \/ /\ cpu'.priv = SUPER /\ cpu'.m_pc = cpu'.sevec
             /\ Restores(SretOf(cpu'), {SPIE, SPP})
             /\ Resumes(cpu'.scause, cpu'.sepc)
<1>1. Regs(cpu) => P
  <2> SUFFICES ASSUME Regs(cpu), Completed, ~Running({"csr", "mret", "sret"})
               PROVE  P
    OBVIOUS
  <2>1. PICK d : Outcome(d) /\ cpu' = Tick(d)
    BY StepOutcome
  <2>2. ASSUME NEW c \in {cpu, Current}, Trapped(c, d), mem' = mem
        PROVE  P
    <3> PICK cause \in 0 .. 31 : Enters(c, d, cause, cpu.m_pc)
      BY <2>2 DEF Trapped
    <3>1. Resumes(cause, cpu.m_pc)
      BY <2>2 DEF Resumes, MCAUSE_INTERRUPT
    <3> QED
      BY <2>1, <3>1, TrapRestores
  <2>3. ASSUME NEW pc, Follows(pc), Interrupted(Current, d, pc)
        PROVE  P
    <3> DEFINE cause == MCAUSE_INTERRUPT + Lowest(Takeable(Current))
    <3>1. Enters(Current, d, cause, pc) /\ cause >= MCAUSE_INTERRUPT
          /\ cause \in Int
      BY <2>3, CurrentIs, TakeableIs DEF Interrupted, MCAUSE_INTERRUPT, IRQ_MASK
    <3> HIDE DEF cause
    <3>2. Resumes(cause, pc)
      BY <2>3, <3>1 DEF Resumes, MCAUSE_INTERRUPT
    <3> QED
      BY <2>1, <3>1, <3>2, TrapRestores
  <2>4. ASSUME NEW pc, Follows(pc), Advances(Current, d, pc)
        PROVE  P
    <3>1. d.priv = cpu.priv /\ d.msr = cpu.msr /\ d.m_pc = pc /\ Regs(d)
      BY <2>4, CurrentIs DEF Advances, Keeps, Fields
    <3>2. cpu'.priv = d.priv /\ cpu'.msr = d.msr /\ cpu'.m_pc = d.m_pc
      BY <2>1, <3>1, TickIs DEF Keeps, Fields
    <3>3. Follows(cpu'.m_pc)
      BY <2>4, <3>1, <3>2
    <3> QED
      BY <3>1, <3>2, <3>3
  <2>5. ASSUME NEW c, NEW pc, Ran(c, pc)
        PROVE  c = Current /\ Follows(pc)
    BY <2>5 DEF Ran, Running
  <2> QED
    BY <2>1, <2>2, <2>3, <2>4, <2>5 DEF Outcome
<1>2. Regs(cpu) => [P]_simVars
  BY <1>1
<1> QED
  BY <1>2, Typed, PTL DEF TrapUndone

(***************************************************************************)
(* Every word of memory is one of Code.                                    *)
(***************************************************************************)
Coded(Code) == /\ program \in Programs /\ loaded \in Nat
               /\ \A a \in Ram : mem[a] \in Code

(***************************************************************************)
(* What create_memory and one round of elf_load do to the memory m: a word *)
(* that was there stays unless the file has one for it, a new one is zero. *)
(***************************************************************************)
MemoryFields == {"words", "regions"}

Created(kind, m, c) ==
    /\ DOMAIN c.mem = MemoryFields
    /\ c.res \in {"ok", "full", "assert"}
    /\ Words(m) \subseteq Words(c.mem)
    /\ kind = "tcm" => Words(c.mem) = Words(m)
    /\ \A a \in Words(c.mem) :
          c.mem.words[a] = IF a \in Words(m) THEN m.words[a] ELSE Zero

Placed(kind, m, s, l) ==
    /\ l.res \in {"ok", "full", "assert"}
    /\ Words(m) \subseteq Words(l.mem)
    /\ kind = "tcm" => Words(l.mem) = Words(m)
    /\ l.res = "ok" /\ s.progbits => Extent(s) \subseteq Words(l.mem)
    /\ \A a \in Words(l.mem) :
          l.mem.words[a] = IF l.res = "ok" /\ s.progbits /\ a \in Extent(s)
                           THEN s.words[a - s.base + 1]
                           ELSE IF a \in Words(m) THEN m.words[a] ELSE Zero

(***************************************************************************)
(* No kind of memory touches a word it already has.                        *)
(***************************************************************************)
LEMMA CreateIs ==
    ASSUME NEW kind \in {"sim", "rtl", "tcm"}, NEW m, DOMAIN m = MemoryFields,
           NEW base, NEW size
    PROVE  Created(kind, m, Create(kind, m, base, size))
<1> DEFINE c == Create(kind, m, base, size)
<1>1. ASSUME NEW new
      PROVE  /\ DOMAIN Extend(m, new) = MemoryFields
             /\ Words(m) \subseteq Words(Extend(m, new))
             /\ \A a \in Words(Extend(m, new)) :
                   Extend(m, new).words[a] =
                       IF a \in Words(m) THEN m.words[a] ELSE Zero
  BY DEF Extend, Words, MemoryFields
<1>2. ASSUME NEW d, d.mem = m, d.res \in {"ok", "full", "assert"}
      PROVE  Created(kind, m, d)
  BY <1>2 DEF Words, Created
<1>3. ASSUME NEW d, NEW new, d = Result("ok", Extend(m, new)), kind # "tcm"
      PROVE  Created(kind, m, d)
  <2>1. d.mem = Extend(m, new) /\ d.res = "ok"
    BY <1>3 DEF Result
  <2> QED
    BY <1>1, <1>3, <2>1 DEF Created
<1>4. CASE kind = "sim"
  <2>1. c = SimCreate(m, base, size)
    BY <1>4 DEF Create
  <2> HIDE DEF c
  <2> QED
    BY <1>2, <1>3, <1>4, <2>1 DEF SimCreate, Result, c
<1>5. CASE kind = "rtl"
  <2>1. c = TbCreate(m, base, size)
    BY <1>5 DEF Create
  <2> HIDE DEF c
  <2> QED
    BY <1>2, <1>3, <1>5, <2>1 DEF TbCreate, Result, c
<1>6. CASE kind = "tcm"
  BY <1>2, <1>6 DEF Create, TcmCreate, Result
<1> QED
  BY <1>4, <1>5, <1>6

(***************************************************************************)
(* Nor does loading a section, outside of the section.                     *)
(***************************************************************************)
LEMMA LoadSectionIs ==
    ASSUME NEW kind \in {"sim", "rtl", "tcm"}, NEW m, DOMAIN m = MemoryFields, NEW s
    PROVE  Placed(kind, m, s, LoadSection(kind, m, s))
<1> DEFINE l == LoadSection(kind, m, s)
           c == Create(kind, m, s.base, s.size)
<1>1. Created(kind, m, c)
  BY CreateIs
<1>2. CASE c.res # "ok" \/ ~s.progbits
  <2>1. l = c
    BY <1>2 DEF LoadSection
  <2> HIDE DEF l, c
  <2> QED
    BY <1>1, <1>2, <2>1 DEF Created, Placed, l
<1>3. CASE c.res = "ok" /\ s.progbits /\ ~(Extent(s) \subseteq Words(c.mem))
  <2>1. l.res = "assert" /\ l.mem = c.mem
    BY <1>3 DEF LoadSection, Result
  <2> HIDE DEF l, c
  <2> QED
    BY <1>1, <1>3, <2>1 DEF Created, Placed, l
<1>4. CASE c.res = "ok" /\ s.progbits /\ Extent(s) \subseteq Words(c.mem)
  <2> DEFINE w == [a \in Words(c.mem) |-> IF a \in Extent(s)
                        THEN s.words[a - s.base + 1] ELSE c.mem.words[a]]
  <2>1. l.res = "ok" /\ l.mem = [c.mem EXCEPT !.words = w]
    BY <1>4 DEF LoadSection, Result
  <2>2. l.mem.words = w
    <3> HIDE DEF w, l, c
    <3> QED
      BY <1>1, <2>1 DEF Created, MemoryFields
  <2>3. Words(l.mem) = Words(c.mem)
        /\ \A a \in Words(c.mem) : l.mem.words[a] = w[a]
    <3> HIDE DEF l, c
    <3> QED
      BY <2>2 DEF Words
  <2> HIDE DEF l, c
  <2> QED
    BY <1>1, <1>4, <2>1, <2>3 DEF Created, Placed, l
<1> QED
  BY <1>2, <1>3, <1>4

(***************************************************************************)
(* Memory as created on the command line.                                  *)
(***************************************************************************)
LEMMA ExplicitIs ==
    ASSUME NEW p, p.kind \in {"sim", "api", "rtl", "tcm"}
    PROVE  \A a \in Words(Explicit(p).mem) :
              Explicit(p).mem.words[a] = IF p.kind = "tcm" THEN Unset ELSE Zero
<1> DEFINE kind == MemoryKind(p)
           new  == NewMemory(kind)
           e    == Explicit(p)
<1>1. kind \in {"sim", "rtl", "tcm"} /\ (kind = "tcm" <=> p.kind = "tcm")
  BY DEF MemoryKind
<1>2. DOMAIN new = MemoryFields /\ \A a \in Words(new) : kind = "tcm" /\ new.words[a] = Unset
  BY DEF NewMemory, MemoryFields, Words
<1>3. CASE e = Result("ok", new)
  <2>1. e.mem = new
    BY <1>3 DEF Result
  <2> HIDE DEF e, new, kind
  <2> QED
    BY <1>1, <1>2, <2>1 DEF e
<1>4. CASE e = Create(kind, new, p.explicit.base, p.explicit.size)
  <2> HIDE DEF kind, new, e
  <2>1. Created(kind, new, e)
    BY <1>1, <1>2, <1>4, CreateIs
  <2> QED
    BY <1>1, <1>2, <2>1 DEF Created, e
<1> QED
  BY <1>3, <1>4 DEF Explicit

(***************************************************************************)
(* One step of the load.                                                   *)
(***************************************************************************)
LEMMA LoadSectionStep ==
    ASSUME program \in Programs, loaded \in Nat, Load_section
    PROVE  LET s == program.file[loaded + 1]
           IN  /\ loaded + 1 \in DOMAIN program.file
               /\ \E l : /\ Placed(MemoryKind(program), Memory, s, l)
                         /\ mem' = l.mem.words /\ Ram' = Words(l.mem)
                         /\ run' = "load" => l.res = "ok"
<1> DEFINE s == program.file[loaded + 1]
           l == LoadSection(MemoryKind(program), Memory, s)
<1>1. loaded + 1 \in DOMAIN program.file
  BY MainAssumption DEF Load_section, ProgramOK
<1>2. MemoryKind(program) \in {"sim", "rtl", "tcm"}
  BY MainAssumption DEF MemoryKind, ProgramOK
<1>3. DOMAIN Memory = MemoryFields
  BY DEF Memory, MemoryFields
<1>4. Placed(MemoryKind(program), Memory, s, l)
  BY <1>2, <1>3, LoadSectionIs
<1>5. mem' = l.mem.words /\ l.res \in {"ok", "full", "assert"}
  BY <1>4 DEF Load_section, Placed
<1>6. run' = "load" => l.res = "ok"
  <2>1. run' = CASE l.res = "ok"     -> "load"
                 [] l.res = "full"   -> "exit"
                 [] l.res = "assert" -> "assert"
    BY DEF Load_section
  <2> HIDE DEF l
  <2> QED
    BY <1>5, <2>1
<1>7. Ram' = Words(l.mem)
  <2> HIDE DEF l
  <2> QED
    BY <1>5 DEF Words, Ram
<1> QED
  BY <1>1, <1>4, <1>5, <1>6, <1>7

(***************************************************************************)
(* What the first n sections of the file say, and that memory holds it:    *)
(* the invariant of the load.                                              *)
(***************************************************************************)
FromFirst(n, a) ==
    LET ks == {k \in 1 .. n : Holds(k, a)}
        s  == program.file[Max(ks)]
    IN  IF ks # {} THEN s.words[a - s.base + 1]
        ELSE IF program.kind = "tcm" THEN Unset ELSE Zero

FirstLoaded ==
    /\ \A k \in 1 .. loaded :
          program.file[k].progbits => Extent(program.file[k]) \subseteq Ram
    /\ \A a \in Ram : mem[a] = FromFirst(loaded, a)

ImageInv == /\ program \in Programs /\ loaded \in Nat
            /\ run = "load" => FirstLoaded

(***************************************************************************)
(* The next section comes before all older ones.                           *)
(***************************************************************************)
LEMMA FromNext ==
    ASSUME NEW n \in Nat, NEW a
    PROVE  FromFirst(n + 1, a) =
             IF Holds(n + 1, a)
             THEN program.file[n + 1].words[a - program.file[n + 1].base + 1]
             ELSE FromFirst(n, a)
<1> DEFINE old == {k \in 1 .. n : Holds(k, a)}
           new == {k \in 1 .. (n + 1) : Holds(k, a)}
<1>1. CASE Holds(n + 1, a)
  <2>1. n + 1 \in new /\ \A k \in new : n + 1 >= k
    BY <1>1
  <2>2. \A x \in new : (\A k \in new : x >= k) => x = n + 1
    BY <2>1
  <2> HIDE DEF new
  <2>3. Max(new) = n + 1
    BY <2>1, <2>2 DEF Max
  <2> QED
    BY <1>1, <2>1, <2>3 DEF FromFirst, new
<1>2. CASE ~Holds(n + 1, a)
  <2>1. new = old
    BY <1>2
  <2> QED
    BY <1>2, <2>1 DEF FromFirst
<1> QED
  BY <1>1, <1>2

(***************************************************************************)
(* One more section keeps the invariant.                                   *)
(***************************************************************************)
LEMMA LoadKeepsImage ==
    ASSUME ImageInv, Load_section
    PROVE  ImageInv'
<1> DEFINE s == program.file[loaded + 1]
<1>1. PICK l : /\ Placed(MemoryKind(program), Memory, s, l)
               /\ mem' = l.mem.words /\ Ram' = Words(l.mem)
               /\ run' = "load" => l.res = "ok"
  BY LoadSectionStep DEF ImageInv
<1>2. program' = program /\ loaded' = loaded + 1 /\ run = "load"
  BY DEF Load_section
<1>3. Words(Memory) = Ram /\ Memory.words = mem
  BY DEF Words, Memory, Ram
<1>4. loaded' \in Nat /\ program' \in Programs
  BY <1>2 DEF ImageInv
<1>5. ASSUME run' = "load"  PROVE FirstLoaded'
  <2>1. l.res = "ok"
    BY <1>1, <1>5
  <2>2. /\ Ram \subseteq Ram'
        /\ s.progbits => Extent(s) \subseteq Ram'
        /\ MemoryKind(program) = "tcm" => Ram' = Ram
        /\ \A a \in Ram' : mem'[a] = IF s.progbits /\ a \in Extent(s)
                                     THEN s.words[a - s.base + 1]
                                     ELSE IF a \in Ram THEN mem[a] ELSE Zero
    BY <1>1, <1>3, <2>1 DEF Placed
  <2>3. ASSUME NEW k \in 1 .. (loaded + 1), program.file[k].progbits
        PROVE  Extent(program.file[k]) \subseteq Ram'
    <3>1. CASE k = loaded + 1
      BY <2>2, <2>3, <3>1
    <3>2. CASE k \in 1 .. loaded
      BY <1>2, <2>2, <2>3, <3>2 DEF ImageInv, FirstLoaded
    <3> QED
      BY <3>1, <3>2 DEF ImageInv
  <2>4. ASSUME NEW a \in Ram'  PROVE mem'[a] = FromFirst(loaded + 1, a)
    <3>1. Holds(loaded + 1, a) <=> s.progbits /\ a \in Extent(s)
      BY DEF Holds
    <3>2. CASE Holds(loaded + 1, a)
      BY <2>2, <2>4, <3>1, <3>2, FromNext DEF ImageInv
    <3>3. CASE ~Holds(loaded + 1, a) /\ a \in Ram
      BY <1>2, <2>2, <2>4, <3>1, <3>3, FromNext DEF ImageInv, FirstLoaded
    <3>4. CASE ~Holds(loaded + 1, a) /\ a \notin Ram
      <4>1. mem'[a] = Zero /\ program.kind # "tcm"
        BY <2>2, <2>4, <3>1, <3>4 DEF MemoryKind
      <4>2. \A k \in 1 .. loaded : ~Holds(k, a)
        BY <1>2, <3>4 DEF ImageInv, FirstLoaded, Holds
      <4>3. FromFirst(loaded, a) = Zero
        BY <4>1, <4>2 DEF FromFirst
      <4> QED
        BY <3>4, <4>1, <4>3, FromNext DEF ImageInv
    <3> QED
      BY <3>2, <3>3, <3>4
  <2>5. \A a : FromFirst(loaded, a)' = FromFirst(loaded + 1, a)
    BY <1>2 DEF FromFirst, Holds
  <2>6. \A k \in 1 .. loaded' : program'.file[k].progbits =>
            Extent(program'.file[k]) \subseteq Ram'
    BY <1>2, <2>3
  <2>7. \A a \in Ram' : mem'[a] = FromFirst(loaded, a)'
    BY <2>4, <2>5
  <2> QED
    BY <2>6, <2>7 DEF FirstLoaded, Extent
<1> QED
  BY <1>4, <1>5 DEF ImageInv

(***************************************************************************)
(* When the core is let go, every word of the file is where the file says, *)
(* for every file and every layout of its sections (ImageLoaded: elf_load  *)
(* and the three create_memory).                                           *)
(***************************************************************************)
THEOREM ImageIsLoaded == Spec => []ImageLoaded
<1>1. Init => ImageInv
  <2> SUFFICES ASSUME Init  PROVE ImageInv
    OBVIOUS
  <2>1. program.kind \in {"sim", "api", "rtl", "tcm"}
    BY MainAssumption DEF Init, ProgramOK
  <2>2. mem = Explicit(program).mem.words
    BY DEF Init
  <2>3. \A a \in Ram : mem[a] = IF program.kind = "tcm" THEN Unset ELSE Zero
    BY <2>1, <2>2, ExplicitIs DEF Words, Ram
  <2>4. loaded = 0 /\ program \in Programs
    BY DEF Init
  <2>5. \A a \in Ram : mem[a] = FromFirst(0, a)
    BY <2>3 DEF FromFirst
  <2> QED
    BY <2>4, <2>5 DEF ImageInv, FirstLoaded
<1>2. ImageInv /\ [Next]_vars => ImageInv'
  <2> SUFFICES ASSUME ImageInv, [Next]_vars  PROVE ImageInv'
    OBVIOUS
  <2>1. CASE Load_section
    BY <2>1, LoadKeepsImage
  <2>2. CASE UNCHANGED <<program, loaded>> /\ run' # "load"
    BY <2>2 DEF ImageInv
  <2>3. CASE UNCHANGED <<program, loaded, mem, run>>
    BY <2>3 DEF ImageInv, FirstLoaded, FromFirst, Holds, Ram
  <2>4. ASSUME Step \/ Owner  PROVE run' # "load"
    BY <2>4 DEF Step, FetchFault, BadInstruction, Plain, Jump, Load, Store,
       Ecall, Ebreak, Mret, Sret, Csr, Done, End, DataFault, DataEnds, Running,
       Owner, SetInterrupt, GetBreak, ClrBreakpoint
  <2> QED
    BY <2>1, <2>2, <2>3, <2>4
    DEF Next, ResetCore, Round, AtExit, Embedded, vars, simVars, mainVars
<1>3. ImageInv => ImageLoaded
  <2> SUFFICES ASSUME ImageInv, run = "load", loaded = Len(program.file)
               PROVE  /\ \A k \in DOMAIN program.file :
                            program.file[k].progbits =>
                                Extent(program.file[k]) \subseteq Ram
                      /\ \A a \in Ram : mem[a] = FromFile(a)
    BY DEF ImageLoaded
  <2>1. DOMAIN program.file = 1 .. loaded /\ FirstLoaded
    BY MainAssumption DEF ImageInv, ProgramOK
  <2>2. \A a : FromFirst(loaded, a) = FromFile(a)
    BY <2>1 DEF FromFirst, FromFile
  <2> QED
    BY <2>1, <2>2 DEF FirstLoaded
<1> QED
  BY <1>1, <1>2, <1>3, PTL DEF Spec

(***************************************************************************)
(* The address of -r is in m_pc_x when its instruction has been executed   *)
(* and in current_pc one round later, when the loop sees it.               *)
(***************************************************************************)
StopInv ==
    /\ program \in Programs
    /\ \/ beyond = 0
       \/ /\ program.kind # "api" /\ run # "load"
          /\ \/ beyond = 1 /\ cpu.m_pc_x = program.stop_pc
             \/ beyond = 2 /\ current_pc = program.stop_pc
    /\ cycles \in Nat
    /\ program.max_cycles > 0 =>
           /\ cycles <= program.max_cycles
           /\ cycles = program.max_cycles => leaving

(***************************************************************************)
(* The loop stops when it is told to, for every address of -r and every    *)
(* count of -c (StopsInTime: the loop of main).                            *)
(***************************************************************************)
THEOREM Stops == Spec => []StopsInTime
<1>1. Init => StopInv
  <2> SUFFICES ASSUME Init  PROVE StopInv
    OBVIOUS
  <2>1. program \in Programs /\ beyond = 0 /\ cycles = 0
    BY DEF Init
  <2>2. program.max_cycles \in Nat \cup {Nowhere}
    BY <2>1, MainAssumption DEF ProgramOK
  <2> QED
    BY <2>1, <2>2 DEF StopInv, Nowhere
<1>2. StopInv /\ [Next]_vars => StopInv'
  <2> SUFFICES ASSUME StopInv, [Next]_vars  PROVE StopInv'
    OBVIOUS
  <2>1. program.max_cycles \in Nat \cup {Nowhere}
    BY MainAssumption DEF StopInv, ProgramOK
  <2>2. ASSUME Step \/ Owner  PROVE run' # "load"
    BY <2>2 DEF Step, FetchFault, BadInstruction, Plain, Jump, Load, Store,
       Ecall, Ebreak, Mret, Sret, Csr, Done, End, DataFault, DataEnds, Running,
       Owner, SetInterrupt, GetBreak, ClrBreakpoint
  <2>3. CASE Round
    <3>1. /\ current_pc # program.stop_pc /\ ~leaving
          /\ current_pc' = cpu.m_pc_x /\ program' = program
          /\ cycles' = (cycles + 1) % CycleMod
          /\ leaving' = MaxReached(cycles') /\ run' # "load"
          /\ program.kind = "sim"
          /\ beyond' = IF beyond > 0 THEN beyond + 1
                       ELSE IF cpu'.m_pc_x = program.stop_pc THEN 1 ELSE 0
      BY <2>2, <2>3 DEF Round, Continue
    <3>2. \/ beyond' = 0
          \/ beyond' = 1 /\ cpu'.m_pc_x = program.stop_pc
          \/ beyond' = 2 /\ current_pc' = program.stop_pc
      BY <3>1 DEF StopInv
    <3>3. cycles' \in Nat /\ cycles' <= cycles + 1
      BY <3>1, MainAssumption DEF StopInv
    <3>4. program.max_cycles > 0 =>
             /\ cycles' <= program.max_cycles
             /\ cycles' = program.max_cycles => leaving'
      <4> SUFFICES ASSUME program.max_cycles > 0
                   PROVE  /\ cycles' <= program.max_cycles
                          /\ cycles' = program.max_cycles => leaving'
        OBVIOUS
      <4> DEFINE limit == program.max_cycles
      <4>1. limit \in Nat /\ limit # Nowhere
        BY <2>1 DEF Nowhere
      <4>2. limit = cycles' => leaving'
        BY <3>1, <4>1 DEF MaxReached
      <4>3. cycles \in Nat /\ cycles < limit
        BY <3>1, <4>1 DEF StopInv
      <4>4. cycles' <= limit
        <5> HIDE DEF limit
        <5> QED
          BY <3>3, <4>1, <4>3
      <4> QED
        BY <4>2, <4>4
    <3> QED
      BY <3>1, <3>2, <3>3, <3>4 DEF StopInv
  <2>4. CASE Load_section \/ ResetCore
    <3>1. beyond = 0
      BY <2>4 DEF StopInv, Load_section, ResetCore
    <3> QED
      BY <2>4, <3>1 DEF StopInv, Load_section, ResetCore, mainVars
  <2>5. CASE AtExit
    BY <2>5 DEF StopInv, AtExit, mainVars
  <2>6. CASE Embedded
    BY <2>6 DEF StopInv, Embedded, mainVars
  <2>7. CASE UNCHANGED vars
    BY <2>7 DEF StopInv, vars, simVars, mainVars
  <2> QED
    BY <2>3, <2>4, <2>5, <2>6, <2>7 DEF Next
<1>3. StopInv => StopsInTime
  BY DEF StopInv, StopsInTime
<1> QED
  BY <1>1, <1>2, <1>3, PTL DEF Spec

(***************************************************************************)
(* A step changes memory by a store only.                                  *)
(***************************************************************************)
LEMMA StepMemory ==
    ASSUME Step
    PROVE  \/ mem' = mem
           \/ /\ Running({"store"}) /\ DataMoves("W")
              /\ mem' = [mem EXCEPT ![Data("W").pa] = Fetched.data]
BY DEF Step, FetchFault, BadInstruction, Plain, Jump, Load, Store, Ecall,
       Ebreak, Mret, Sret, Csr, Done, End, DataFault, DataEnds

(***************************************************************************)
(* So the word executed is one of Code.                                    *)
(***************************************************************************)
LEMMA FetchedIn ==
    ASSUME NEW Code, Coded(Code), NEW ops, Running(ops)
    PROVE  Fetched \in Code /\ Fetched.op \in ops
BY DEF Coded, Running, HasWord, Fetched

(***************************************************************************)
(* Memory holds words of Code as constructed.                              *)
(***************************************************************************)
LEMMA InitCoded ==
    ASSUME NEW Code, Encoded(Code), Init
    PROVE  Coded(Code)
<1>1. program.kind \in {"sim", "api", "rtl", "tcm"}
  BY MainAssumption DEF Init, ProgramOK
<1>2. mem = Explicit(program).mem.words
  BY DEF Init
<1>3. \A a \in Ram : mem[a] \in {Zero, Unset}
  BY <1>1, <1>2, ExplicitIs DEF Words, Ram
<1>4. loaded \in Nat /\ program \in Programs
  BY DEF Init
<1> QED
  BY <1>3, <1>4 DEF Coded, Encoded

(***************************************************************************)
(* Every step keeps it so.                                                 *)
(***************************************************************************)
LEMMA NextCoded ==
    ASSUME NEW Code, Encoded(Code), Coded(Code), [Next]_vars
    PROVE  Coded(Code)'
<1>1. CASE Load_section
  <2> DEFINE s == program.file[loaded + 1]
  <2>1. loaded + 1 \in DOMAIN program.file
    BY <1>1, LoadSectionStep DEF Coded
  <2>2. PICK l : /\ Placed(MemoryKind(program), Memory, s, l)
                 /\ mem' = l.mem.words /\ Ram' = Words(l.mem)
    BY <1>1, LoadSectionStep DEF Coded
  <2>3. Section(s)
    BY <2>1, MainAssumption DEF Coded, ProgramOK
  <2>4. ASSUME NEW a \in Extent(s), s.progbits
        PROVE  s.words[a - s.base + 1] \in Code
    <3>1. a - s.base + 1 \in DOMAIN s.words
      BY <2>3, <2>4 DEF Section, Extent
    <3> QED
      BY <2>1, <2>4, <3>1 DEF Coded, Encoded
  <2>5. Words(Memory) = Ram /\ Memory.words = mem
    BY DEF Words, Memory, Ram
  <2>6. \A a \in Ram' : mem'[a] \in Code
    BY <2>2, <2>4, <2>5 DEF Placed, Coded, Encoded
  <2>7. loaded' = loaded + 1 /\ program' = program
    BY <1>1 DEF Load_section
  <2> QED
    BY <2>6, <2>7 DEF Coded
<1>2. CASE Step /\ UNCHANGED <<program, loaded>>
  <2>1. CASE mem' = mem
    BY <1>2, <2>1 DEF Coded, Ram
  <2>2. CASE /\ Running({"store"})
             /\ mem' = [mem EXCEPT ![Data("W").pa] = Fetched.data]
    <3>1. Fetched.data \in Code
      BY <2>2, FetchedIn DEF Encoded
    <3> DEFINE w == Fetched.data
               x == Data("W").pa
    <3> HIDE DEF w, x
    <3>2. mem' = [mem EXCEPT ![x] = w] /\ w \in Code
      BY <2>2, <3>1 DEF w, x
    <3> QED
      BY <1>2, <3>2 DEF Coded, Ram
  <2> QED
    BY <1>2, <2>1, <2>2, StepMemory
<1>3. CASE UNCHANGED <<mem, program, loaded>>
  BY <1>3 DEF Coded, Ram
<1> QED
  BY <1>1, <1>2, <1>3
  DEF Next, ResetCore, Round, AtExit, Embedded, Owner, SetInterrupt, GetBreak,
      ClrBreakpoint, vars, simVars, mainVars

(***************************************************************************)
(* Memory never holds anything else.                                       *)
(***************************************************************************)
LEMMA CodedAlways ==
    ASSUME NEW Code, Encoded(Code)
    PROVE  Spec => []Coded(Code)
<1>1. Init => Coded(Code)
  BY InitCoded
<1>2. Coded(Code) /\ [Next]_vars => Coded(Code)'
  BY NextCoded
<1> QED
  BY <1>1, <1>2, PTL DEF Spec

(***************************************************************************)
(* What has run goes on at its successor, at no higher level.              *)
(***************************************************************************)
LEMMA RanGoes ==
    ASSUME Regs(cpu), NEW c, NEW pc, Ran(c, pc)
    PROVE  pc = Successor /\ c.priv <= cpu.priv
<1>1. Current.priv = cpu.priv /\ Regs(Current) /\ cpu.priv \in 0 .. 3
  BY CurrentIs DEF Keeps, Fields, Regs
<1>2. CASE Running({"alu", "jump", "load", "store"}) /\ c = Current /\ Follows(pc)
  BY <1>1, <1>2 DEF Follows, Running, Successor
<1>3. CASE Running({"mret"}) /\ cpu.priv = MACHINE /\ c = MretOf(Current)
           /\ pc = cpu.mepc
  <2>1. c.priv \in 0 .. 3 /\ Regs(c)
    BY <1>1, <1>3, ReturnIs DEF Regs
  <2> QED
    BY <1>3, <2>1 DEF Running, Successor, MACHINE
<1>4. CASE Running({"sret"}) /\ cpu.priv = SUPER /\ c = SretOf(Current)
           /\ pc = cpu.sepc
  <2>1. c.priv = IF SPP \in Current.msr THEN SUPER ELSE USER
    BY <1>1, <1>4 DEF SretOf, Regs, Fields
  <2> QED
    BY <1>4, <2>1 DEF Running, Successor, SUPER, USER
<1>5. CASE Running({"csr"}) /\ c = AccessCsr(Current, Fetched) /\ pc = NextPc
  <2> DEFINE e == AccessCsr(Current, Fetched)
  <2>1. \A x \in {"m_pc", "m_pc_x", "priv", "mtime"} : e[x] = Current[x]
    BY <1>1, AccessCsrIs
  <2>2. e.priv = Current.priv
    BY <2>1
  <2> HIDE DEF e
  <2>3. c.priv = cpu.priv
    BY <1>1, <1>5, <2>2 DEF e
  <2> QED
    BY <1>1, <1>5, <2>3 DEF Running, Successor
<1> QED
  BY <1>2, <1>3, <1>4, <1>5 DEF Ran

(***************************************************************************)
(* A handler entered for an interrupt is entered for the right one,        *)
(* whatever the program (InterruptsJustified: execute and exception).      *)
(***************************************************************************)
THEOREM Justified == Spec => InterruptsJustified
<1> DEFINE M == MachineTaken =>
                  LET n == cpu'.mcause - MCAUSE_INTERRUPT
                  IN  /\ n \in cpu'.mip \cap cpu'.mie
                      /\ LevelOf(cpu', n) = MACHINE
                      /\ GetMpp(cpu'.msr) # MACHINE \/ MPIE \in cpu'.msr
                      /\ OnlyLowest(MACHINE, n)
           S == SuperTaken =>
                  LET n == cpu'.scause - MCAUSE_INTERRUPT
                  IN  /\ n \in cpu'.mip \cap cpu'.mie
                      /\ LevelOf(cpu', n) = SUPER
                      /\ SPP \notin cpu'.msr \/ SPIE \in cpu'.msr
                      /\ OnlyLowest(SUPER, n)
                      /\ \A m \in IRQ_MASK : Pending(m) => m \in cpu'.mideleg
<1>1. ASSUME Regs(cpu), Completed
      PROVE  M /\ S
  <2>1. PICK d : Outcome(d) /\ cpu' = Tick(d)
    BY <1>1, StepOutcome
  <2>2. Regs(d) /\ Keeps(d, cpu', {"mtime", "mip", "m_break"})
        /\ cpu'.mip = d.mip \cup Flag(cpu'.mtime = cpu'.mtimecmp, TimerBit(cpu'))
    BY <1>1, <2>1, OutcomeRegs, TickIs
  <2>3. /\ cpu'.mcause = d.mcause /\ cpu'.scause = d.scause
        /\ cpu'.priv = d.priv /\ cpu'.m_pc = d.m_pc
        /\ cpu'.mie = d.mie /\ cpu'.mideleg = d.mideleg /\ cpu'.msr = d.msr
        /\ d.mip \subseteq cpu'.mip
        /\ \A m : Pending(m) => m \in d.mip \cap d.mie
    BY <2>2 DEF Keeps, Fields, Pending, RaisedNow, Flag
  <2>4. \A x \in 0 .. 31 : ~(x >= MCAUSE_INTERRUPT)
    BY DEF MCAUSE_INTERRUPT
  <2>5. ASSUME NEW c, Trapped(c, d)
        PROVE  M /\ S
    <3> PICK cause \in 0 .. 31 : Enters(c, d, cause, cpu.m_pc)
      BY <2>5 DEF Trapped
    <3>1. \/ d.priv = MACHINE /\ d.mcause = cause
          \/ d.priv = SUPER /\ d.scause = cause
      BY DEF Enters, EntersMachine, EntersSuper
    <3> QED
      BY <2>3, <2>4, <3>1 DEF MachineTaken, SuperTaken, MACHINE, SUPER
  <2>6. ASSUME NEW c, NEW pc, Regs(c), Ran(c, pc), Advances(c, d, pc)
        PROVE  M /\ S
    <3>1. d.priv = c.priv /\ d.m_pc = pc
      BY <2>6 DEF Advances, Keeps, Fields
    <3>2. pc = Successor /\ c.priv <= cpu.priv
      BY <1>1, <2>6, RanGoes
    <3>3. c.priv \in 0 .. 3 /\ cpu.priv \in 0 .. 3
      BY <1>1, <2>6 DEF Regs
    <3> QED
      BY <2>3, <3>1, <3>2, <3>3 DEF TrapTaken, MachineTaken, SuperTaken
  <2>7. ASSUME NEW c, NEW pc, Regs(c), Interrupted(c, d, pc)
        PROVE  M /\ S
    <3> DEFINE n == Lowest(Takeable(c))
               cause == MCAUSE_INTERRUPT + n
    <3>1. /\ n \in Takeable(c) /\ cause - MCAUSE_INTERRUPT = n
          /\ \A m \in Takeable(c) : n <= m
      BY <2>7, TakeableIs DEF Interrupted
    <3>2. Enters(c, d, cause, pc)
      BY <2>7 DEF Interrupted
    <3>3. IF Delegated(c, cause)
          THEN /\ MachineIrqs(c) = {} /\ Takeable(c) = SuperIrqs(c)
               /\ c.priv <= SUPER
          ELSE Takeable(c) = MachineIrqs(c)
      BY <2>7, InterruptLevel DEF Interrupted
    <3> HIDE DEF n, cause
    <3>4. CASE ~Delegated(c, cause)
      <4>1. /\ d.mcause = cause /\ d.priv = MACHINE
            /\ d.mip = c.mip /\ d.mie = c.mie /\ d.mideleg = c.mideleg
            /\ d.msr = (c.msr \ ({MPIE, MIE} \cup MPP))
                       \cup Flag(MIE \in c.msr, MPIE) \cup MppBits(c.priv)
        BY <3>2, <3>4 DEF Enters, EntersMachine, Keeps, Fields
      <4>2. S
        BY <2>3, <4>1 DEF SuperTaken, MACHINE, SUPER
      <4>3. n \in MachineIrqs(c) /\ \A m \in MachineIrqs(c) : n <= m
        BY <3>1, <3>3, <3>4
      <4>4. MachineIrqs(c) = (d.mip \cap d.mie) \ d.mideleg
            /\ (c.priv < MACHINE \/ MIE \in c.msr)
        BY <4>1, <4>3 DEF MachineIrqs
      <4>5. n \in (d.mip \cap d.mie) \ d.mideleg
            /\ \A m \in (d.mip \cap d.mie) \ d.mideleg : n <= m
        BY <4>3, <4>4
      <4>6. GetMpp(d.msr) # MACHINE \/ MPIE \in d.msr
        <5>1. CASE MIE \in c.msr
          BY <4>1, <5>1 DEF Flag
        <5>2. CASE c.priv < MACHINE
          <6>1. c.priv \in 0 .. 2
            BY <2>7, <5>2 DEF Regs, MACHINE
          <6> QED
            BY <4>1, <6>1 DEF GetMpp, MppBits, Flag, MPP, MPIE, MIE, MACHINE
        <5> QED
          BY <4>4, <5>1, <5>2
      <4>7. /\ n \in cpu'.mip \cap cpu'.mie
            /\ LevelOf(cpu', n) = MACHINE
            /\ GetMpp(cpu'.msr) # MACHINE \/ MPIE \in cpu'.msr
            /\ OnlyLowest(MACHINE, n)
        BY <2>3, <4>5, <4>6 DEF LevelOf, OnlyLowest, MACHINE, SUPER
      <4>8. cpu'.mcause - MCAUSE_INTERRUPT = n
        BY <2>3, <3>1, <4>1
      <4> QED
        BY <4>2, <4>7, <4>8
    <3>5. CASE Delegated(c, cause)
      <4>1. /\ d.scause = cause /\ d.priv = SUPER
            /\ d.mip = c.mip /\ d.mie = c.mie /\ d.mideleg = c.mideleg
            /\ d.msr = (c.msr \ {SPIE, SIE, SPP}) \cup Flag(SIE \in c.msr, SPIE)
                       \cup Flag(c.priv = SUPER, SPP)
        BY <3>2, <3>5 DEF Enters, EntersSuper, Keeps, Fields
      <4>2. M
        BY <2>3, <4>1 DEF MachineTaken, MACHINE, SUPER
      <4>3. SuperIrqs(c) = d.mip \cap d.mie \cap d.mideleg
            /\ n \in d.mip \cap d.mie \cap d.mideleg
            /\ \A m \in d.mip \cap d.mie \cap d.mideleg : n <= m
        BY <3>1, <3>3, <3>5, <4>1 DEF SuperIrqs
      <4>4. c.priv = SUPER => SIE \in c.msr
        BY <3>1, <3>3, <3>5 DEF SuperIrqs, SUPER
      <4>5. (d.mip \cap d.mie) \ d.mideleg = {}
        BY <2>7, <3>3, <3>5, <4>1 DEF MachineIrqs, MACHINE, SUPER, Regs
      <4>6. SPP \notin d.msr \/ SPIE \in d.msr
        BY <4>1, <4>4 DEF Flag, SPP, SPIE, SIE
      <4>7. /\ n \in cpu'.mip \cap cpu'.mie
            /\ LevelOf(cpu', n) = SUPER
            /\ SPP \notin cpu'.msr \/ SPIE \in cpu'.msr
            /\ OnlyLowest(SUPER, n)
            /\ \A m \in IRQ_MASK : Pending(m) => m \in cpu'.mideleg
        BY <2>3, <4>3, <4>5, <4>6 DEF LevelOf, OnlyLowest, MACHINE, SUPER
      <4>8. cpu'.scause - MCAUSE_INTERRUPT = n
        BY <2>3, <3>1, <4>1
      <4> QED
        BY <4>2, <4>7, <4>8
    <3> QED
      BY <3>4, <3>5
  <2> QED
    BY <2>1, <2>5, <2>6, <2>7 DEF Outcome
<1>2. ~Completed => M /\ S
  BY DEF TrapTaken, MachineTaken, SuperTaken
<1>3. Regs(cpu) => [M /\ S]_simVars
  BY <1>1, <1>2
<1> QED
  BY <1>3, Typed, PTL DEF InterruptsJustified

(***************************************************************************)
(* The registers that hold addresses hold addresses.                       *)
(***************************************************************************)
Located(c) == c.satp \in Int /\ \A x \in Addressing : c[x] \in Addr

(***************************************************************************)
(* A trap goes to an address.                                              *)
(***************************************************************************)
LEMMA EntersLocated ==
    ASSUME NEW c, Located(c), NEW d, NEW cause, NEW pc \in Addr,
           Enters(c, d, cause, pc)
    PROVE  Located(d)
BY DEF Located, Addressing, Enters, EntersMachine, EntersSuper, Keeps, Fields

(***************************************************************************)
(* An instruction goes on at an address.                                   *)
(***************************************************************************)
LEMMA RanLocated ==
    ASSUME NEW Code, Regs(cpu), Located(cpu), Coded(Code),
           \A w \in Code : Numeric(w), NEW c, NEW pc, Ran(c, pc)
    PROVE  Located(c) /\ pc \in Addr
<1>1. Located(Current) /\ Regs(Current)
  BY CurrentIs DEF Keeps, Fields, Located, Addressing
<1>2. CASE c = Current /\ Follows(pc)
  <2>1. NextPc \in Addr
    BY DEF NextPc, Addr, Entries, Located, Addressing
  <2>2. Running({"jump"}) => Fetched.to \in Addr
    BY FetchedIn DEF Numeric
  <2> QED
    BY <1>1, <1>2, <2>1, <2>2 DEF Follows
<1>3. CASE c = MretOf(Current) /\ pc = cpu.mepc
  <2>1. Keeps(Current, c, {"msr", "priv"})
    BY <1>1, <1>3, ReturnIs
  <2> QED
    BY <1>1, <1>3, <2>1 DEF Keeps, Fields, Located, Addressing
<1>4. CASE c = SretOf(Current) /\ pc = cpu.sepc
  <2>1. Keeps(Current, c, {"msr", "priv"})
    BY <1>1, <1>4, ReturnIs
  <2> QED
    BY <1>1, <1>4, <2>1 DEF Keeps, Fields, Located, Addressing
<1>5. CASE c = AccessCsr(Current, Fetched) /\ Running({"csr"}) /\ pc = NextPc
  <2> DEFINE e == AccessCsr(Current, Fetched)
  <2>1. \A x \in {"m_pc", "m_pc_x", "priv", "mtime"} : e[x] = Current[x]
    BY <1>1, AccessCsrIs
  <2>2. \A x \in ValueCsrs :
            e[x] = Current[x] \/ (Fetched.csr = x /\ e[x] = Fetched.value)
    BY <1>1, AccessCsrIs
  <2>3. c = e
    BY <1>5
  <2>4. Numeric(Fetched) /\ Fetched.op = "csr"
    BY <1>5, FetchedIn
  <2> HIDE DEF e
  <2>5. c.satp \in Int
    BY <1>1, <2>2, <2>3, <2>4 DEF ValueCsrs, Located, Numeric
  <2>6. ASSUME NEW x \in Addressing  PROVE c[x] \in Addr
    BY <1>1, <2>1, <2>2, <2>3, <2>4 DEF ValueCsrs, Located, Numeric, Addressing
  <2>7. NextPc \in Addr
    BY DEF NextPc, Addr, Entries, Located, Addressing
  <2> QED
    BY <1>5, <2>5, <2>6, <2>7 DEF Located
<1> QED
  BY <1>2, <1>3, <1>4, <1>5 DEF Ran

(***************************************************************************)
(* Every step keeps them addresses.                                        *)
(***************************************************************************)
LEMMA NextLocated ==
    ASSUME NEW Code, Regs(cpu), Located(cpu), Coded(Code),
           \A w \in Code : Numeric(w), [Next]_vars
    PROVE  Located(cpu')
<1>1. CASE Completed
  <2>1. PICK d : Outcome(d) /\ cpu' = Tick(d)
    BY <1>1, StepOutcome
  <2>2. Regs(d) /\ Keeps(d, cpu', {"mtime", "mip", "m_break"})
    BY <2>1, OutcomeRegs, TickIs
  <2>3. cpu.m_pc \in Addr /\ Located(Current)
    BY CurrentIs DEF Keeps, Fields, Located, Addressing
  <2>4. ASSUME NEW c, Trapped(c, d), Located(c)  PROVE Located(d)
    BY <2>3, <2>4, EntersLocated DEF Trapped
  <2>5. ASSUME NEW c, NEW pc, Ran(c, pc), Interrupted(c, d, pc)
        PROVE  Located(d)
    BY <2>5, RanLocated, EntersLocated DEF Interrupted
  <2>6. ASSUME NEW c, NEW pc, Ran(c, pc), Advances(c, d, pc)
        PROVE  Located(d)
    <3>1. Located(c) /\ pc \in Addr
      BY <2>6, RanLocated
    <3> QED
      BY <2>6, <3>1 DEF Advances, Keeps, Fields, Located, Addressing
  <2>7. Located(d)
    BY <2>1, <2>3, <2>4, <2>5, <2>6 DEF Outcome
  <2> QED
    BY <2>2, <2>7 DEF Keeps, Fields, Located, Addressing
<1>2. CASE SetInterrupt \/ GetBreak
  <2>1. \E x \in {"mip", "m_break"} : \E v : cpu' = [cpu EXCEPT ![x] = v]
    BY <1>2 DEF SetInterrupt, GetBreak
  <2> QED
    BY <2>1 DEF Located, Addressing, Regs, Fields
<1>3. CASE ResetCore
  <2>1. program.start \in Addr
    BY MainAssumption DEF Coded, ProgramOK
  <2>2. cpu' = Reset(program.start)
    BY <1>3 DEF ResetCore
  <2> QED
    BY <2>1, <2>2 DEF Reset, Located, Addressing, Addr, Entries, Bare
<1>4. CASE UNCHANGED cpu
  BY <1>4
<1>5. Step => Completed \/ UNCHANGED cpu
  BY EndedKeeps
<1> QED
  BY <1>1, <1>2, <1>3, <1>4, <1>5
  DEF Next, Load_section, Round, AtExit, Embedded, Owner, ClrBreakpoint,
      vars, simVars

(***************************************************************************)
(* Merging the index into the frame of a superpage with | stays within the *)
(* block of pages the frame lies in, aligned or not.                       *)
(***************************************************************************)
LEMMA OrIndexIs ==
    ASSUME NEW p \in Nat, NEW n
    PROVE  OrIndex(p, n) \in Nat /\ OrIndex(p, n) \div Entries = p \div Entries
<1>1. OrIndex(p, n) \in {p - (p % 4) + k : k \in 0 .. 3}
  <2> DEFINE x == Bit(p, 0) + Bit(n, 0) > 0
             y == Bit(p, 1) + Bit(n, 1) > 0
  <2>1. OrIndex(p, n) = p - (p % 4) + (IF x THEN 1 ELSE 0) + (IF y THEN 2 ELSE 0)
    BY DEF OrIndex, Entries
  <2> HIDE DEF x, y
  <2> QED
    BY <2>1
<1> QED
  BY <1>1 DEF Entries

(***************************************************************************)
(* An entry that was found is a word of the table.                         *)
(***************************************************************************)
LEMMA EntryIs ==
    ASSUME NEW base \in Int, NEW idx \in 0 .. 3, Entry(mem, base, idx) # NoPte
    PROVE  LET a == base * Entries + idx
           IN  /\ a \in Ram /\ "V" \in mem[a].flags /\ PageOf(a) = base
               /\ Entry(mem, base, idx) = mem[a]
<1>1. PageOf(base * Entries + idx) = base
  BY DEF PageOf, Entries
<1> QED
  BY <1>1 DEF Entry, Ram

(***************************************************************************)
(* What the walk returns is the flags of some entry of the tables, and it  *)
(* maps the address.                                                       *)
(***************************************************************************)
LEMMA WalkGrants ==
    ASSUME NEW Code, Coded(Code), \A w \in Code : Numeric(w),
           cpu.satp \in Int, cpu.satp # Bare, NEW va \in Addr,
           Walk(mem, cpu.satp, va).flags # {}
    PROVE  LET pte == Walk(mem, cpu.satp, va)
           IN  \E e \in Ram : /\ Maps(e, Ok(pte, va).pa)
                             /\ mem[e].flags = pte.flags /\ "V" \in mem[e].flags
<1> DEFINE i   == PageOf(va) \div Entries
           j   == PageOf(va) % Entries
           top == Entry(mem, cpu.satp, i)
           low == Entry(mem, top.ppn, j)
           pte == Walk(mem, cpu.satp, va)
           t   == cpu.satp * Entries + i
           e   == top.ppn * Entries + j
<1>1. i \in 0 .. 3 /\ j \in 0 .. 3
  BY DEF PageOf, Entries, Addr
<1>2. PageOf(va) = 4 * i + j
  BY DEF PageOf, Entries, Addr
<1>3. ASSUME NEW p, NEW ppn \in Nat, p.ppn = ppn
      PROVE  PageOf(Ok(p, va).pa) = ppn
  BY <1>3 DEF Ok, PageOf, Entries, Addr
<1>4. pte = IF top = NoPte THEN NoPte
            ELSE IF IsLeaf(top)
                 THEN [flags |-> top.flags, ppn |-> OrIndex(top.ppn, j)]
            ELSE low
  BY DEF Walk
<1>5. NoPte.flags = {}
  BY DEF NoPte
<1> HIDE DEF pte, i, j
<1>6. top # NoPte
  BY <1>4, <1>5 DEF pte
<1>7. /\ t \in Ram /\ "V" \in mem[t].flags /\ InTop(t) /\ top = mem[t]
  BY <1>1, <1>6, EntryIs DEF InTop
<1>8. top.ppn \in Nat
  BY <1>7 DEF Coded, Numeric
<1>9. CASE IsLeaf(top)
  <2>1. pte.flags = top.flags /\ pte.ppn = OrIndex(top.ppn, j)
    BY <1>4, <1>6, <1>9
  <2>2. OrIndex(top.ppn, j) \in Nat
        /\ OrIndex(top.ppn, j) \div Entries = top.ppn \div Entries
    BY <1>8, OrIndexIs
  <2>3. PageOf(Ok(pte, va).pa) = OrIndex(top.ppn, j)
    BY <1>3, <2>1, <2>2
  <2>4. Maps(t, Ok(pte, va).pa)
    BY <1>7, <2>2, <2>3 DEF Maps
  <2> QED
    BY <1>7, <2>1, <2>4 DEF pte
<1>10. CASE ~IsLeaf(top)
  <2>1. pte = low
    BY <1>4, <1>6, <1>10
  <2>2. low # NoPte
    BY <1>5, <2>1 DEF pte
  <2>3. e \in Ram /\ "V" \in mem[e].flags /\ PageOf(e) = top.ppn /\ low = mem[e]
    BY <1>1, <1>8, <2>2, EntryIs
  <2>4. InLow(e)
    BY <1>7, <1>10, <2>3 DEF InLow
  <2>5. PageOf(Ok(pte, va).pa) = mem[e].ppn
    BY <1>3, <2>1, <2>3 DEF Coded, Numeric
  <2>6. Maps(e, Ok(pte, va).pa)
    BY <2>4, <2>5 DEF Maps
  <2> QED
    BY <2>1, <2>3, <2>6 DEF pte
<1> QED
  BY <1>9, <1>10

(***************************************************************************)
(* Every word executed or changed below machine mode lies in a page some   *)
(* entry grants, for every program and all tables it builds                *)
(* (AccessGranted: mmu_walk and the two translations).                     *)
(***************************************************************************)
THEOREM Granted ==
    ASSUME NEW Code, Encoded(Code), \A w \in Code : Numeric(w)
    PROVE  Spec => AccessGranted
<1> DEFINE P == Completed /\ cpu.priv <= SUPER /\ cpu.satp # Bare /\ HasWord =>
          /\ \E e \in Ram : Grants(e, Fetch.pa, {"X"})
          /\ \A a \in Ram : mem'[a] # mem[a] =>
                \E e \in Ram : Grants(e, a, {"R", "W"})
<1>1. ASSUME Regs(cpu), Located(cpu), Coded(Code), Completed,
             cpu.priv <= SUPER, cpu.satp # Bare, HasWord
      PROVE  /\ \E e \in Ram : Grants(e, Fetch.pa, {"X"})
             /\ \A a \in Ram : mem'[a] # mem[a] =>
                   \E e \in Ram : Grants(e, a, {"R", "W"})
  <2>1. cpu.priv = USER \/ cpu.priv = SUPER
    BY <1>1 DEF Regs, USER, SUPER
  <2>2. cpu.satp \in Int /\ cpu.m_pc \in Addr
    BY <1>1 DEF Located, Addressing
  <2>3. \E e \in Ram : Grants(e, Fetch.pa, {"X"})
    <3> DEFINE pte == Walk(mem, cpu.satp, cpu.m_pc)
    <3>1. /\ Fetch = Ok(pte, cpu.m_pc) /\ Allowed(pte, cpu.priv, "X")
          /\ ~(cpu.priv = SUPER /\ "U" \in pte.flags)
      BY <1>1, <2>1 DEF HasWord, Fetch, mmu_i_translate, Fault, Error,
                          USER, SUPER
    <3>2. "X" \in pte.flags /\ (cpu.priv = USER => "U" \in pte.flags)
      BY <3>1 DEF Allowed
    <3>3. PICK e \in Ram : /\ Maps(e, Ok(pte, cpu.m_pc).pa)
                          /\ mem[e].flags = pte.flags /\ "V" \in mem[e].flags
      BY <1>1, <2>2, <3>2, WalkGrants
    <3> QED
      BY <2>1, <3>1, <3>2, <3>3 DEF Grants
  <2>4. ASSUME Running({"store"}), DataMoves("W")
        PROVE  \E e \in Ram : Grants(e, Data("W").pa, {"R", "W"})
    <3> DEFINE va  == Fetched.addr
               pte == Walk(mem, cpu.satp, va)
    <3>1. va \in Addr
      BY <1>1, <2>4, FetchedIn DEF Numeric
    <3>2. /\ Data("W") = Ok(pte, va) /\ Allowed(pte, cpu.priv, "W")
          /\ ~Reserved(pte)
          /\ ~(cpu.priv = SUPER /\ "U" \in pte.flags /\ SR_SUM \notin cpu.msr)
      BY <1>1, <2>1, <2>4 DEF DataMoves, InMemory, Data, mmu_d_translate,
                               Fault, Error, USER, SUPER
    <3>3. {"R", "W"} \subseteq pte.flags /\ (cpu.priv = USER => "U" \in pte.flags)
      BY <3>2 DEF Allowed, Reserved
    <3>4. PICK e \in Ram : /\ Maps(e, Ok(pte, va).pa)
                          /\ mem[e].flags = pte.flags /\ "V" \in mem[e].flags
      BY <1>1, <2>2, <3>1, <3>3, WalkGrants
    <3> QED
      BY <2>1, <3>2, <3>3, <3>4 DEF Grants
  <2>5. ASSUME NEW a \in Ram, mem'[a] # mem[a]
        PROVE  \E e \in Ram : Grants(e, a, {"R", "W"})
    <3> DEFINE x == Data("W").pa
               w == Fetched.data
    <3>1. /\ Running({"store"}) /\ DataMoves("W")
          /\ mem' = [mem EXCEPT ![x] = w]
      BY <1>1, <2>5, StepMemory DEF Completed
    <3>2. a = x
      <4> HIDE DEF x, w
      <4> QED
        BY <2>5, <3>1 DEF Ram
    <3> QED
      BY <2>4, <3>1, <3>2
  <2> QED
    BY <2>3, <2>5
<1>2. Regs(cpu) /\ Located(cpu) /\ Coded(Code) => [P]_simVars
  BY <1>1
<1>3. Init => Located(cpu)
  BY DEF Init, Reset, Located, Addressing, Addr, Entries, Bare
<1>4. Regs(cpu) /\ Coded(Code) /\ Located(cpu) /\ [Next]_vars => Located(cpu)'
  BY NextLocated
<1>5. Spec => []Coded(Code)
  BY CodedAlways
<1> QED
  BY <1>2, <1>3, <1>4, <1>5, Typed, PTL DEF AccessGranted, Spec
=============================================================================

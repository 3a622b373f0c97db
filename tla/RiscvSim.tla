------------------------------ MODULE RiscvSim ------------------------------
(***************************************************************************)
(* The instruction set simulator, class Riscv of src/isa_sim/riscv.cpp:    *)
(* three privilege levels, delegation, the interrupt check, the timer,     *)
(* paging, breakpoints and the ways the program ends.                      *)
(*                                                                         *)
(* cpu is the object's state.  A status register is the set of the numbers *)
(* of its bits, so that a mask of riscv_isa.h is a set and & is \cap.      *)
(* The general registers are left out: an instruction word carries the     *)
(* values its operands have.  mem holds the program: RiscvMain loads it    *)
(* and decides who calls step().  error(), an assertion and the exit call  *)
(* of SIM_CTRL all end the process; run says which of them did.            *)
(***************************************************************************)
EXTENDS SimMmu, Sequences

CONSTANT TimeMod     \* bound: mtime counts modulo TimeMod (2^32 in the code)

ASSUME TimeAssumption == TimeMod \in Nat \ {0, 1}

VARIABLES cpu, mem, m_breakpoints, run

simVars == <<cpu, mem, m_breakpoints, run>>

Ram == DOMAIN mem

SIE  == 1
MIE  == 3
SPIE == 5
MPIE == 7
SPP  == 8
MPP  == {11, 12}
STIP == 5
MTIP == 7
MEIP == 11

IRQ_MASK      == {1, 3, 5, 7, 9, 11}
SIRQ_MASK     == {1, 5, 9}
SR_SMODE_MASK == {0, 1, 4, 5, 8, 18}

MCAUSE_BREAKPOINT       == 3
MCAUSE_ECALL_U          == 8
MCAUSE_PAGE_FAULT_INST  == 12
MCAUSE_PAGE_FAULT_LOAD  == 13
MCAUSE_PAGE_FAULT_STORE == 15
MCAUSE_INTERRUPT        == 32        \* bit 31 of the register

Flag(b, n)   == IF b THEN {n} ELSE {}
GetMpp(s)    == (IF 11 \in s THEN 1 ELSE 0) + (IF 12 \in s THEN 2 ELSE 0)
MppBits(p)   == Flag(p % 2 = 1, 11) \cup Flag(p > 1, 12)
-----------------------------------------------------------------------------
Reset(start) ==
    [m_pc |-> start, m_pc_x |-> start, priv |-> MACHINE,
     msr |-> {}, mip |-> {}, mie |-> {}, mideleg |-> {}, medeleg |-> {},
     mepc |-> 0, mevec |-> 0, mcause |-> 0,
     sepc |-> 0, sevec |-> 0, scause |-> 0, stval |-> 0, satp |-> Bare,
     mtime |-> 0, mtimecmp |-> 0, m_break |-> FALSE]

(***************************************************************************)
(* exception().  A cause of 32 and more is an interrupt.                   *)
(***************************************************************************)
Delegated(c, cause) ==
    /\ c.priv <= SUPER
    /\ IF cause >= MCAUSE_INTERRUPT THEN cause - MCAUSE_INTERRUPT \in c.mideleg
                                    ELSE cause \in c.medeleg

\* Seeded fault: the supervisor's handler starts with interrupts enabled.
ToSuper_KeepsSie(c, cause, pc, badaddr) ==
    [c EXCEPT !.msr = (@ \ {SPIE, SPP}) \cup Flag(SIE \in @, SPIE)
                                        \cup Flag(c.priv = SUPER, SPP),
              !.priv = SUPER, !.sepc = pc, !.scause = cause,
              !.stval = badaddr, !.m_pc = c.sevec]

ToSuper(c, cause, pc, badaddr) ==
    [c EXCEPT !.msr = (@ \ {SPIE, SIE, SPP}) \cup Flag(SIE \in @, SPIE)
                                             \cup Flag(c.priv = SUPER, SPP),
              !.priv = SUPER, !.sepc = pc, !.scause = cause,
              !.stval = badaddr, !.m_pc = c.sevec]

\* Seeded fault: MIE is cleared before it is saved.
ToMachine_ClearsFirst(c, cause, pc) ==
    [c EXCEPT !.msr = (@ \ ({MPIE, MIE} \cup MPP)) \cup MppBits(c.priv),
              !.priv = MACHINE, !.mepc = pc, !.mcause = cause,
              !.m_pc = c.mevec]

ToMachine(c, cause, pc) ==
    [c EXCEPT !.msr = (@ \ ({MPIE, MIE} \cup MPP)) \cup Flag(MIE \in @, MPIE)
                                                   \cup MppBits(c.priv),
              !.priv = MACHINE, !.mepc = pc, !.mcause = cause,
              !.m_pc = c.mevec]

Exception(c, cause, pc, badaddr) ==
    IF Delegated(c, cause) THEN ToSuper(c, cause, pc, badaddr)
                           ELSE ToMachine(c, cause, pc)

(***************************************************************************)
(* The check at the end of execute(): machine interrupts before those      *)
(* delegated, the lowest number first, and the interrupted instruction is  *)
(* the next one.                                                           *)
(***************************************************************************)
\* Seeded fault: SR_MIE is not asked for.
MachineIrqs_IgnoresMie(c) == (c.mip \cap c.mie) \ c.mideleg

MachineIrqs(c) ==
    IF c.priv < MACHINE \/ (c.priv = MACHINE /\ MIE \in c.msr)
    THEN (c.mip \cap c.mie) \ c.mideleg ELSE {}

SuperIrqs(c) ==
    IF c.priv < SUPER \/ (c.priv = SUPER /\ SIE \in c.msr)
    THEN c.mip \cap c.mie \cap c.mideleg ELSE {}

Takeable(c) == IF MachineIrqs(c) # {} THEN MachineIrqs(c) ELSE SuperIrqs(c)

Lowest(s) == CHOOSE n \in s : \A m \in s : n <= m

AfterInstruction(c, pc) ==
    IF Takeable(c) = {} THEN [c EXCEPT !.m_pc = pc]
    ELSE Exception(c, MCAUSE_INTERRUPT + Lowest(Takeable(c)), pc, 0)

(***************************************************************************)
(* The rest of step(): the timer, then the breakpoints, which look at      *)
(* m_pc_x.                                                                 *)
(***************************************************************************)
TimerBit(c) == IF STIP \in c.mideleg THEN STIP ELSE MTIP

\* Seeded fault: the breakpoints are compared with the next instruction.
Tick_NextPc(c) ==
    LET t == (c.mtime + 1) % TimeMod
    IN  [c EXCEPT !.mtime = t,
                  !.mip = @ \cup Flag(t = c.mtimecmp, TimerBit(c)),
                  !.m_break = @ \/ \E k \in DOMAIN m_breakpoints :
                                       m_breakpoints[k] = c.m_pc]

Tick(c) ==
    LET t == (c.mtime + 1) % TimeMod
    IN  [c EXCEPT !.mtime = t,
                  !.mip = @ \cup Flag(t = c.mtimecmp, TimerBit(c)),
                  !.m_break = @ \/ \E k \in DOMAIN m_breakpoints :
                                       m_breakpoints[k] = c.m_pc_x]

Done(c) == cpu' = Tick(c) /\ UNCHANGED run

End(how) == run' = how /\ UNCHANGED <<cpu, mem>>
-----------------------------------------------------------------------------
(***************************************************************************)
(* access_csr.  An access has the fields csr, set and clr; csrrw comes with*)
(* both set and clr.  Its operand is a set of bits (bits), or for a number *)
(* what the register holds after the access (value).  The supervisor's     *)
(* registers are masked views of the machine's, and csrrw through one of   *)
(* them replaces the whole register.                                       *)
(***************************************************************************)
Register(csr) ==
    CASE csr \in {"mstatus", "sstatus"} -> "msr"
      [] csr = "sip" -> "mip"
      [] csr = "sie" -> "mie"
      [] OTHER       -> csr

Mask(csr) ==
    CASE csr = "sstatus"         -> SR_SMODE_MASK
      [] csr \in {"mip", "mie"}  -> IRQ_MASK
      [] csr \in {"sip", "sie"}  -> SIRQ_MASK
      [] OTHER                   -> 0..31

BitCsrs   == {"mstatus", "sstatus", "mip", "sip", "mie", "sie",
              "mideleg", "medeleg"}
ValueCsrs == {"mepc", "mevec", "mcause", "sepc", "sevec", "scause", "stval",
              "satp"}

WriteBits(c, a) ==
    LET d == a.bits \cap Mask(a.csr)
    IN  [c EXCEPT ![Register(a.csr)] =
             IF a.set /\ a.clr THEN d
             ELSE IF a.set THEN @ \cup d
             ELSE IF a.clr THEN @ \ d ELSE @]

(***************************************************************************)
(* A write to mtime sets the threshold of the timer and clears its         *)
(* interrupt; the value zero and csrrc only read.                          *)
(***************************************************************************)
WriteMtime(c, a) ==
    IF a.set /\ a.value # 0
    THEN [c EXCEPT !.mtimecmp = a.value, !.mip = @ \ {TimerBit(c)}]
    ELSE c

AccessCsr(c, a) ==
    CASE a.csr \in BitCsrs   -> WriteBits(c, a)
      [] a.csr \in ValueCsrs -> [c EXCEPT ![a.csr] = a.value]
      [] a.csr = "mtime"     -> WriteMtime(c, a)
      [] OTHER               -> c        \* constants, console, trace
-----------------------------------------------------------------------------
(***************************************************************************)
(* execute(), one action per kind of instruction.  Fetched is the word     *)
(* behind the translated address; a page fault leaves before m_pc_x moves. *)
(***************************************************************************)
Fetch      == mmu_i_translate(mem, cpu.satp, cpu.priv, cpu.m_pc)
Fetched    == mem[Fetch.pa]
HasWord    == Fetch.res = "ok" /\ Fetch.pa \in Ram
Running(ops) == /\ run = "on"
                /\ HasWord
                /\ Fetched.op \in ops
Current    == [cpu EXCEPT !.m_pc_x = cpu.m_pc]
NextPc     == (cpu.m_pc + 1) % (Entries * Entries * Entries)

FetchFault ==
    /\ run = "on" /\ Fetch.res = "fault"
    /\ Done(Exception(cpu, MCAUSE_PAGE_FAULT_INST, cpu.m_pc, cpu.m_pc))
    /\ UNCHANGED <<mem, m_breakpoints>>

BadInstruction ==
    /\ run = "on"
    /\ \/ Fetch.res = "error"
       \/ Fetch.res = "ok" /\ Fetch.pa \notin Ram    \* read32 returns 0
       \/ HasWord /\ Fetched.op = "bad"
    /\ End("error")
    /\ UNCHANGED m_breakpoints

Plain ==                                 \* arithmetic, fences, wfi
    /\ Running({"alu"})
    /\ Done(AfterInstruction(Current, NextPc))
    /\ UNCHANGED <<mem, m_breakpoints>>

Jump ==
    /\ Running({"jump"})
    /\ Done(AfterInstruction(Current, Fetched.to))
    /\ UNCHANGED <<mem, m_breakpoints>>

Data(need) == mmu_d_translate(mem, cpu.satp, cpu.priv, cpu.msr,
                              Fetched.addr, need)

(***************************************************************************)
(* load() and store().  A misaligned access is never an exception here: it *)
(* reaches the assertion of SimpleMemory.                                  *)
(***************************************************************************)
DataFault(need, cause) ==
    /\ Data(need).res = "fault"
    /\ Done(Exception(Current, cause, cpu.m_pc, Fetched.addr))
    /\ UNCHANGED mem

InMemory(need) == Data(need).res = "ok" /\ Data(need).pa \in Ram

DataEnds(need) ==
    \/ /\ Data(need).res # "fault" /\ ~InMemory(need)
       /\ End("error")
    \/ /\ InMemory(need) /\ ~Fetched.aligned
       /\ End("assert")

DataMoves(need) == InMemory(need) /\ Fetched.aligned

Load ==
    /\ Running({"load"})
    /\ \/ DataFault("R", MCAUSE_PAGE_FAULT_LOAD)
       \/ DataEnds("R")
       \/ /\ DataMoves("R")
          /\ Done(AfterInstruction(Current, NextPc))
          /\ UNCHANGED mem
    /\ UNCHANGED m_breakpoints

Store ==
    /\ Running({"store"})
    /\ \/ DataFault("W", MCAUSE_PAGE_FAULT_STORE)
       \/ DataEnds("W")
       \/ /\ DataMoves("W")
          /\ mem' = [mem EXCEPT ![Data("W").pa] = Fetched.data]
          /\ Done(AfterInstruction(Current, NextPc))
    /\ UNCHANGED m_breakpoints

Ecall ==
    /\ Running({"ecall"})
    /\ Done(Exception(Current, MCAUSE_ECALL_U + cpu.priv, cpu.m_pc, 0))
    /\ UNCHANGED <<mem, m_breakpoints>>

Ebreak ==
    /\ Running({"ebreak"})
    /\ Done([Exception(Current, MCAUSE_BREAKPOINT, cpu.m_pc, 0)
                EXCEPT !.m_break = TRUE])
    /\ UNCHANGED <<mem, m_breakpoints>>

MretOf(c) ==
    [c EXCEPT !.msr = (@ \ ({MIE} \cup MPP)) \cup Flag(MPIE \in @, MIE)
                                             \cup {MPIE},
              !.priv = GetMpp(c.msr)]

SretOf(c) ==
    [c EXCEPT !.msr = (@ \ {SIE, SPP}) \cup Flag(SPIE \in @, SIE)
                                       \cup {SPIE},
              !.priv = IF SPP \in c.msr THEN SUPER ELSE USER]

Mret ==
    /\ Running({"mret"})
    /\ IF cpu.priv = MACHINE
       THEN Done(AfterInstruction(MretOf(Current), cpu.mepc)) /\ UNCHANGED mem
       ELSE End("assert")
    /\ UNCHANGED m_breakpoints

Sret ==
    /\ Running({"sret"})
    /\ IF cpu.priv = SUPER
       THEN Done(AfterInstruction(SretOf(Current), cpu.sepc)) /\ UNCHANGED mem
       ELSE End("assert")
    /\ UNCHANGED m_breakpoints

Csr ==
    /\ Running({"csr"})
    /\ \/ /\ Fetched.csr \notin {"unknown", "exit"}
          /\ Done(AfterInstruction(AccessCsr(Current, Fetched), NextPc))
          /\ UNCHANGED mem
       \/ Fetched.csr = "unknown" /\ End("error")
       \/ Fetched.csr = "exit" /\ End("exit")     \* CSR_SIM_CTRL_EXIT
    /\ UNCHANGED m_breakpoints

(***************************************************************************)
(* step(), the instruction and what follows it.                            *)
(***************************************************************************)
Step == \/ FetchFault \/ BadInstruction \/ Plain \/ Jump \/ Load \/ Store
        \/ Ecall \/ Ebreak \/ Mret \/ Sret \/ Csr

(***************************************************************************)
(* Calls of the owner between two steps.                                   *)
(***************************************************************************)
SetInterrupt ==
    /\ run = "on" /\ MEIP \notin cpu.mip
    /\ cpu' = [cpu EXCEPT !.mip = @ \cup {MEIP}]
    /\ UNCHANGED <<mem, m_breakpoints, run>>

GetBreak ==
    /\ run = "on" /\ cpu.m_break
    /\ cpu' = [cpu EXCEPT !.m_break = FALSE]
    /\ UNCHANGED <<mem, m_breakpoints, run>>

ClrBreakpoint(pc) ==                     \* the first of that address
    \E k \in DOMAIN m_breakpoints :
        /\ run = "on" /\ m_breakpoints[k] = pc
        /\ \A j \in 1..(k-1) : m_breakpoints[j] # pc
        /\ m_breakpoints' = SubSeq(m_breakpoints, 1, k - 1)
                            \o SubSeq(m_breakpoints, k + 1, Len(m_breakpoints))
        /\ UNCHANGED <<cpu, mem, run>>

Owner == SetInterrupt \/ GetBreak \/ \E pc \in Addr : ClrBreakpoint(pc)
-----------------------------------------------------------------------------
Registers ==
    [m_pc : Addr, m_pc_x : Addr, priv : 0..3,
     msr : SUBSET (0..31), mip : SUBSET IRQ_MASK, mie : SUBSET IRQ_MASK,
     mideleg : SUBSET (0..31), medeleg : SUBSET (0..31),
     mepc : Addr, mevec : Addr, mcause : 0..63,
     sepc : Addr, sevec : Addr, scause : 0..63, stval : Addr,
     satp : Pages \cup {Bare},
     mtime : 0..(TimeMod-1), mtimecmp : 0..(TimeMod-1), m_break : BOOLEAN]

TypeOK ==
    /\ cpu \in Registers
    /\ Ram \subseteq Addr
    /\ m_breakpoints \in Seq(Addr)
    /\ run \in {"load", "on", "clocked", "exit", "error", "assert"}

(***************************************************************************)
(* A step at the end of which the program still runs.                      *)
(***************************************************************************)
Completed == Step /\ run' = "on"

(***************************************************************************)
(* An interrupt is due when it is pending, enabled, and belongs to a level *)
(* above the present one or to the present level with its enable bit set.  *)
(***************************************************************************)
LevelOf(c, n) == IF n \in c.mideleg THEN SUPER ELSE MACHINE
IsDue(c, n) ==
    /\ n \in c.mip \cap c.mie
    /\ \/ c.priv < LevelOf(c, n)
       \/ /\ c.priv = LevelOf(c, n)
          /\ (IF c.priv = SUPER THEN SIE ELSE MIE) \in c.msr

(***************************************************************************)
(* No interrupt waits for more than one instruction: after step() none is  *)
(* due but the one the timer raised at its end, whatever the instruction   *)
(* did to the registers that decide (a csr write, mret, sret, a trap).     *)
(* Only the entry into the supervisor's exception handler puts a machine   *)
(* interrupt off, to the handler's first instruction (end of execute).     *)
(***************************************************************************)
HandlerEntered == /\ cpu'.priv = SUPER
                  /\ cpu'.m_pc = cpu'.sevec
                  /\ cpu'.scause < MCAUSE_INTERRUPT

RaisedNow(n) == cpu'.mtime = cpu'.mtimecmp /\ n = TimerBit(cpu')

InterruptsPrompt ==
    [][Completed =>
          \A n \in IRQ_MASK :
              IsDue(cpu', n) =>
                  \/ RaisedNow(n)
                  \/ HandlerEntered /\ n \notin cpu'.mideleg]_simVars

(***************************************************************************)
(* A handler entered for an interrupt is entered for the right one: it is  *)
(* pending and belongs to that level, which was open to it (the saved      *)
(* state says so); no lower number of the level was pending too, and the   *)
(* supervisor's turn comes only when no machine interrupt is due (the      *)
(* check in execute, and exception, which decides the level again).  A     *)
(* step that does not go on where its instruction would, or that rises a   *)
(* level, has trapped; the register of the level it is at has the cause.   *)
(* A trap from a level to itself whose vector is just where the            *)
(* instruction would go on is not told from no trap, in any program.       *)
(***************************************************************************)
Successor == IF Running({"jump"}) THEN Fetched.to
             ELSE IF Running({"mret"}) THEN cpu.mepc
             ELSE IF Running({"sret"}) THEN cpu.sepc ELSE NextPc

TrapTaken       == Completed /\ (cpu'.m_pc # Successor \/ cpu'.priv > cpu.priv)
MachineTaken    == TrapTaken /\ cpu'.priv = MACHINE
                             /\ cpu'.mcause >= MCAUSE_INTERRUPT
SuperTaken      == TrapTaken /\ cpu'.priv = SUPER
                             /\ cpu'.scause >= MCAUSE_INTERRUPT
Pending(n)      == n \in cpu'.mip \cap cpu'.mie /\ ~RaisedNow(n)
OnlyLowest(lvl, n) == \A m \in IRQ_MASK :
                          Pending(m) /\ LevelOf(cpu', m) = lvl => n <= m

InterruptsJustified ==
    [][/\ MachineTaken =>
             LET n == cpu'.mcause - MCAUSE_INTERRUPT
             IN  /\ n \in cpu'.mip \cap cpu'.mie
                 /\ LevelOf(cpu', n) = MACHINE
                 /\ GetMpp(cpu'.msr) # MACHINE \/ MPIE \in cpu'.msr
                 /\ OnlyLowest(MACHINE, n)
       /\ SuperTaken =>
             LET n == cpu'.scause - MCAUSE_INTERRUPT
             IN  /\ n \in cpu'.mip \cap cpu'.mie
                 /\ LevelOf(cpu', n) = SUPER
                 /\ SPP \notin cpu'.msr \/ SPIE \in cpu'.msr
                 /\ OnlyLowest(SUPER, n)
                 /\ \A m \in IRQ_MASK : Pending(m) => m \in cpu'.mideleg]_simVars

(***************************************************************************)
(* No trap loses anything: a return from it at once would restore the      *)
(* privilege level and every bit of mstatus but those that save the state  *)
(* of the level trapped to, and would resume at the instruction that       *)
(* raised an exception, with memory as it found it, or behind the one that *)
(* was complete when the interrupt came (exception against mret and sret). *)
(***************************************************************************)
Follows(pc) == pc = IF Running({"jump"}) THEN Fetched.to ELSE NextPc

Resumes(cause, epc) ==
    IF cause < MCAUSE_INTERRUPT THEN epc = cpu.m_pc /\ mem' = mem
                                ELSE Follows(epc)

Restores(c, saved) == /\ c.priv = cpu.priv
                      /\ c.msr \ saved = cpu.msr \ saved

TrapUndone ==
    [][Completed /\ ~Running({"csr", "mret", "sret"}) =>
          \/ /\ cpu'.priv = cpu.priv /\ cpu'.msr = cpu.msr
             /\ Follows(cpu'.m_pc)
          \/ /\ cpu'.priv = MACHINE /\ cpu'.m_pc = cpu'.mevec
             /\ Restores(MretOf(cpu'), {MPIE} \cup MPP)
             /\ Resumes(cpu'.mcause, cpu'.mepc)
          \/ /\ cpu'.priv = SUPER /\ cpu'.m_pc = cpu'.sevec
             /\ Restores(SretOf(cpu'), {SPIE, SPP})
             /\ Resumes(cpu'.scause, cpu'.sepc)]_simVars

(***************************************************************************)
(* With paging on, every word executed or changed below machine mode lies  *)
(* in a page that some entry of the tables satp points at grants: present, *)
(* X to execute, R and W to write, U for the user, no U for the supervisor *)
(* unless mstatus.SUM lets it write (mmu_walk and the two translations).   *)
(***************************************************************************)
InTop(e) == PageOf(e) = cpu.satp
InLow(e) == \E t \in Ram : /\ InTop(t) /\ "V" \in mem[t].flags
                          /\ ~IsLeaf(mem[t]) /\ mem[t].ppn = PageOf(e)

Maps(e, a) == \/ InLow(e) /\ mem[e].ppn = PageOf(a)
              \/ InTop(e) /\ mem[e].ppn \div Entries = PageOf(a) \div Entries

Grants(e, a, need) ==
    /\ Maps(e, a)
    /\ need \cup {"V"} \subseteq mem[e].flags
    /\ \/ cpu.priv = USER /\ "U" \in mem[e].flags
       \/ cpu.priv = SUPER /\ "U" \notin mem[e].flags
       \/ cpu.priv = SUPER /\ "W" \in need /\ SR_SUM \in cpu.msr

AccessGranted ==
    [][Completed /\ cpu.priv <= SUPER /\ cpu.satp # Bare /\ HasWord =>
          /\ \E e \in Ram : Grants(e, Fetch.pa, {"X"})
          /\ \A a \in Ram : mem'[a] # mem[a] =>
                \E e \in Ram : Grants(e, a, {"R", "W"})]_simVars

(***************************************************************************)
(* A breakpoint is never missed: a step that executes the instruction at   *)
(* one, trap or not, leaves m_break set (step and check_breakpoint, which  *)
(* look at m_pc_x after m_pc has moved on).                                *)
(***************************************************************************)
BreakpointHit ==
    [][Completed /\ HasWord
          /\ (\E k \in DOMAIN m_breakpoints : m_breakpoints[k] = cpu.m_pc)
          => cpu'.m_break]_simVars
=============================================================================

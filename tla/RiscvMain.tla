----------------------------- MODULE RiscvMain ------------------------------
(***************************************************************************)
(* The programs around the simulator.  riscv_main loads a file through the *)
(* cosim object into the one memory that is attached to it, resets the     *)
(* core and runs it until it faults, hits a breakpoint, reaches the        *)
(* address of -r or has done the steps of -c.                              *)
(*                                                                         *)
(* program.kind says which program it is: "sim", main.cpp of isa_sim, with *)
(* the loop on the simulator itself; "api", a program of another owner of  *)
(* the class, which steps, interrupts and looks at it as it likes; "rtl"   *)
(* and "tcm", the test benches, where the loop clocks the core that the    *)
(* other modules of this project are about.                                *)
(***************************************************************************)
EXTENDS RiscvSim, SimMemory

CONSTANTS
    Programs,      \* a set of records, see ProgramOK
    CycleMod       \* bound: _cycles counts modulo CycleMod (2^32 in the code)

Nowhere == -1      \* stop_pc without -r, max_cycles without -c

Section(s) == /\ s.base \in Nat /\ s.size \in Nat \ {0}
              /\ s.progbits \in BOOLEAN
              /\ s.progbits => DOMAIN s.words = 1 .. s.size

ProgramOK(p) ==
    /\ p.kind \in {"sim", "api", "rtl", "tcm"}
    /\ Len(p.file) \in Nat /\ DOMAIN p.file = 1 .. Len(p.file)
    /\ \A k \in DOMAIN p.file : Section(p.file[k])
    /\ p.explicit.size \in Nat              \* -b and -s; 0 for neither
    /\ p.start \in Addr                     \* the entry point
    /\ p.stop_pc \in Addr \cup {Nowhere}
    /\ p.max_cycles \in Nat \cup {Nowhere}
    /\ p.breakpoints \in Seq(Addr)

ASSUME MainAssumption == /\ \A p \in Programs : ProgramOK(p)
                         /\ CycleMod \in Nat \ {0, 1}

VARIABLES
    program,       \* what was asked for on the command line, and the file
    loaded,        \* how many sections of the file are loaded
    m_mem_regions,
    current_pc, cycles, leaving,
    beyond         \* history: steps from the one that reached stop_pc on

mainVars == <<program, loaded, m_mem_regions, current_pc, cycles, leaving,
              beyond>>
vars == <<simVars, mainVars>>

Memory == [words |-> mem, regions |-> m_mem_regions]
-----------------------------------------------------------------------------
(***************************************************************************)
(* The objects as constructed; what mem_create answers for -b and -s is    *)
(* not looked at.                                                          *)
(***************************************************************************)
MemoryKind(p) == IF p.kind = "api" THEN "sim" ELSE p.kind

Explicit(p) ==
    LET new == NewMemory(MemoryKind(p))
    IN  IF p.explicit.size = 0 THEN Result("ok", new)
        ELSE Create(MemoryKind(p), new, p.explicit.base, p.explicit.size)

Init ==
    /\ program \in Programs
    /\ LET e == Explicit(program)
       IN  /\ mem = e.mem.words /\ m_mem_regions = e.mem.regions
           /\ run = IF e.res = "assert" THEN "assert" ELSE "load"
    /\ loaded = 0
    /\ cpu = Reset(0) /\ m_breakpoints = program.breakpoints
    /\ current_pc = 0 /\ cycles = 0 /\ leaving = FALSE /\ beyond = 0

(***************************************************************************)
(* elf_load.  A section that gets no memory ends the load; the program     *)
(* then exits with the status of a simulator without fault, zero.          *)
(***************************************************************************)
Load_section ==
    LET l == LoadSection(MemoryKind(program), Memory,
                         program.file[loaded + 1])
    IN  /\ run = "load" /\ loaded < Len(program.file)
        /\ mem' = l.mem.words /\ m_mem_regions' = l.mem.regions
        /\ loaded' = loaded + 1
        /\ run' = CASE l.res = "ok"     -> "load"
                    [] l.res = "full"   -> "exit"
                    [] l.res = "assert" -> "assert"
        /\ UNCHANGED <<cpu, m_breakpoints, program, current_pc, cycles,
                       leaving, beyond>>

ResetCore ==
    /\ run = "load" /\ loaded = Len(program.file)
    /\ run' = IF MemoryKind(program) = "sim" THEN "on" ELSE "clocked"
    /\ cpu' = Reset(program.start)
    /\ UNCHANGED <<mem, m_breakpoints, mainVars>>

-----------------------------------------------------------------------------
(***************************************************************************)
(* The loop.  get_pc() is the instruction executed last, so the address of *)
(* -r is seen when the next round has begun.                               *)
(***************************************************************************)
Continue == ~cpu.m_break /\ current_pc # program.stop_pc /\ ~leaving

\* Seeded fault: the count is compared before it is increased.
MaxReached_BeforeCount(n) ==
    program.max_cycles # Nowhere /\ program.max_cycles = n - 1

MaxReached(n) == program.max_cycles # Nowhere /\ program.max_cycles = n

Round ==
    /\ program.kind = "sim" /\ Continue
    /\ Step
    /\ current_pc' = cpu.m_pc_x
    /\ cycles' = (cycles + 1) % CycleMod
    /\ leaving' = MaxReached(cycles')
    /\ beyond' = IF beyond > 0 THEN beyond + 1
                 ELSE IF cpu'.m_pc_x = program.stop_pc THEN 1 ELSE 0
    /\ UNCHANGED <<program, loaded, m_mem_regions>>

AtExit ==
    /\ program.kind = "sim" /\ run = "on" /\ ~Continue
    /\ run' = "exit"
    /\ UNCHANGED <<cpu, mem, m_breakpoints, mainVars>>

Embedded ==
    /\ program.kind = "api"
    /\ Step \/ Owner
    /\ UNCHANGED mainVars

Next == Load_section \/ ResetCore \/ Round \/ AtExit \/ Embedded

Spec == Init /\ [][Next]_vars
-----------------------------------------------------------------------------
(***************************************************************************)
(* When the core is let go, every word of the file is where the file says, *)
(* in the section loaded last if two hold it, and all other memory is zero *)
(* but the RAM of the TCM, which nobody clears: neither rounding nor       *)
(* clearing a new region has touched an older one (elf_load, and           *)
(* create_memory of the simulator and the test benches).                   *)
(***************************************************************************)
Holds(k, a) == program.file[k].progbits /\ a \in Extent(program.file[k])

FromFile(a) ==
    LET ks == {k \in DOMAIN program.file : Holds(k, a)}
        s  == program.file[Max(ks)]
    IN  IF ks # {} THEN s.words[a - s.base + 1]
        ELSE IF program.kind = "tcm" THEN Unset ELSE Zero

ImageLoaded ==
    run = "load" /\ loaded = Len(program.file) =>
        /\ \A k \in DOMAIN program.file :
               program.file[k].progbits => Extent(program.file[k]) \subseteq Ram
        /\ \A a \in Ram : mem[a] = FromFile(a)

(***************************************************************************)
(* The loop stops when it is told to: no more steps than -c allows, and at *)
(* most one instruction behind the one at the address of -r, the one that  *)
(* is needed to see it.                                                    *)
(***************************************************************************)
StopsInTime ==
    /\ beyond <= 2
    /\ program.max_cycles > 0 => cycles <= program.max_cycles
-----------------------------------------------------------------------------
(***************************************************************************)
(* What RiscvMainProofs asks of the words a program consists of, Code: all *)
(* that its file holds and its stores write are among them (Encoded), and  *)
(* addresses are addresses (Numeric).                                      *)
(***************************************************************************)
Encoded(Code) ==
    /\ {Zero, Unset} \subseteq Code
    /\ \A p \in Programs : \A k \in DOMAIN p.file :
          p.file[k].progbits =>
              \A n \in DOMAIN p.file[k].words : p.file[k].words[n] \in Code
    /\ \A w \in Code : w.op = "store" => w.data \in Code

Addressing == {"m_pc", "mepc", "mevec", "sepc", "sevec"}

Numeric(w) ==
    /\ w.ppn \in Nat
    /\ w.op = "jump" => w.to \in Addr
    /\ w.op \in {"load", "store"} => w.addr \in Addr
    /\ w.op = "csr" /\ w.csr \in Addressing => w.value \in Addr
    /\ w.op = "csr" /\ w.csr = "satp" => w.value \in Int
=============================================================================

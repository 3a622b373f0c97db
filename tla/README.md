# Verification of the RISC-V core

TLA+ models of the RV32 core in this repository (`core/riscv/*.v`), of the
instruction-set simulator it is co-simulated against (`isa_sim/`), and of the
memories around it.  TLC checks small instances; TLAPS proves theorems for
every value of the constants.

## The system

| Component | State it keeps | Operations | Hard behaviour | Correct when |
|---|---|---|---|---|
| Simulator (`isa_sim/riscv.cpp`) | pc, registers, CSRs, privilege, timer, breakpoints | one instruction per `step`, interrupt, translate | interrupt check at the end of an instruction, delegation, two levels of saved state, page walk | no interrupt late or wrong, traps undo, pages protect; it is the reference of the core |
| Loader, memories, main program (`isa_sim/riscv_main.cpp`, `memory.h`, `elf_load.cpp`, `top_*/tb`) | regions, steps done | create regions, load sections, run, stop | overlapping and rounded regions, limits on either side of a step | the image is loaded; the run stops in time |
| Issue (`riscv_issue.v`, `riscv_regfile.v`) | `div_pending_q`, `csr_pending_q`, registers | issue, forward, stall, raise an interrupt | dependency on results in flight; interrupt against issue | operands are the newest version |
| Pipeline control (`riscv_pipe_ctrl.v`) | E1, E2, WB, `squash_e1_e2_q` | advance, stall, squash | late answers, faults with younger instructions in flight | traps are precise |
| CSR unit (`riscv_csr.v`, `riscv_csr_regfile.v`) | `csr_*_e1_q`, CSRs, `take_interrupt_q`, `branch_q`, `ifence_q` | read/modify at issue, write or trap at WB | read-modify-write split over three cycles | traps applied once; CSR writes not lost |
| Load/store unit (`riscv_lsu.v`) | request registers, `pending_lsu_e2_q`, response fifo | request, wait, answer, fault | variable latency, back-to-back accesses, faults, no squash | every answer meets its own request |
| Divide unit (`riscv_divider.v`) | iteration registers, `valid_q` | start, iterate, answer | restart over a running operation | result is the simulator's |
| Fetch (`riscv_fetch.v`), decode (`riscv_decode.v`) | pc registers, redirect buffer, skid buffer | request, redirect, hold | redirect with a response in flight | each address once and in order |
| MMU (`riscv_mmu.v`) | two TLB entries, walk state | translate, walk, fault, flush | walk of one side while the other runs | no stale translation |
| Instruction cache (`top_cache_axi/src_v/icache.v`) | tags, data, refill state | look up, refill, flush, invalidate | requests during refill, error beats, flush pulse | returns memory's words |
| Data cache (`top_cache_axi/src_v/dcache*.v`) | tags, data, evict state, mux state | read, write, evict, refill, flush, uncached access | dirty eviction, port switching | memory as a whole is unchanged |
| TCM (`top_tcm_axi/src_v/tcm_mem.v`, `dport_mux.v`, `dport_axi.v`) | acknowledge registers, address hold, telemetry window | access, switch, telemetry read | switching with answers outstanding | each access answered once |
| Telemetry, trace (`telemetry_counters.sv`, `trace_buffer.sv`, `riscv_core.v`) | counters, ring, trigger | count, record | trigger latency | counts and entries are exact |

The units are clocked processes: every wire they exchange is combinational,
and all registers change together at a clock edge.  So one TLA+ step is one
rising edge everywhere, and the nondeterminism is in what the edge finds at
the boundary: which instruction an address holds, whether a memory accepts or
answers in this cycle and with which result, whether an interrupt is raised.

## Modules

| Module | Models | State and actions against the code |
|---|---|---|
| `RiscvInstr` | instruction classes and what they compute | shared by the next two |
| `RiscvIsa` | the simulator, machine mode: the abstract specification of the core | one `Exec*` action per group of `Riscv::execute`, `Trap` is `exception()` |
| `RiscvPipe` | issue, pipeline control, CSR unit, register file | variables are the registers of the Verilog, wires are operators, `Clock` is one edge; `IssueInstruction`, `IssueInterrupt`, `IssueNothing` are the three things issue can do in it |
| `RiscvLsu` | the load/store unit and the memory port behind it | `mem_q` stands for the request registers, `fifo` for `riscv_lsu_fifo`; `outst`, `mem` and `mem_ack` are the port |
| `DividerSpec` | what the divide unit promises: `DivStart`, `DivRun` | instantiated by `RiscvPipe` |
| `RiscvDivider` | the divide unit bit by bit | the modulus is `2 * MSB`; `Start`, `Iterate`, `Complete` are the three branches of its always block |
| `FrontEndSpec` | what the front end promises: `FrontEdge` | instantiated by `RiscvPipe` |
| `RiscvFetch`, `Icache` | the fetch unit with the decode register; the instruction cache | every register, both memories of each way; `Edge` is one clock edge |
| `RiscvFrontEnd` | the two composed, with riscv_issue and the bus around them | `Hold`, `Accept`, `Branch` are what issue does in a cycle; `FencePasses`, `Resume` follow a fence.i through the pipeline; `Store` writes program memory |
| `MemPort` | what a memory on the data port promises | the abstract specification of `RiscvTcm` and `RiscvDcache` |
| `DportAxi` | the AXI4-Lite bridge and the slave behind it | fifos as sequences, inhibit and pending registers |
| `TcmMem` | tightly coupled memory: one RAM port for core and host | used by the next two |
| `RiscvTcm` | `RiscvLsu`, `dport_mux`, `TcmMem` and `DportAxi` composed | `Issue`, `Wait` as in `RiscvLsu`; the host is free |
| `TcmPmem` | the AXI slave through which the host loads programs, on `TcmMem` | `Burst`, `Priority`, `Holds`, `Fifos` are its always blocks; `Host` is the AXI master |
| `DcacheCore` | the two-way write-back cache | every register, the memories of both ways; `NextState` is its state machine, `Edge` one clock edge |
| `RiscvDcache` | `RiscvLsu`, `dcache_mux`, `DcacheCore`, the path past the cache, `dcache_pmem_mux` and the fifo to the bus composed | `Issue`, `Wait` as in `RiscvLsu`; `Slave` is the bus |
| `RiscvTelemetry` | `minstret` beside the whole pipeline | `RetirePulse`, `Counter` |
| `RiscvMmu` | the MMU with `RiscvLsu` before it and one data port behind | every register; `StartWalk`, `LevelFirst`, `LevelSecond`, `EndWalk` are the walker; `IssueCsr` and `Proceed` take an sfence.vma or a write of satp through the pipeline, flush in E1 and switch the root in WB, `Remap` rewrites a table entry, `SwitchPriv` is a trap or return |
| `SimMmu` | page walk and translation of the simulator | pure operators on a memory; addresses are two table indices and a word |
| `RiscvSim` | `class Riscv` with all its levels | `cpu` is the object; `Step` is `step()`, `Owner` what another owner of the object may call |
| `SimMemory` | the three kinds of memory a file is loaded into | a list of regions as a function on the addresses some region covers |
| `RiscvMain` | the loader and the main loop on the two | `Load_section`, `ResetCore`, `Round`, `AtExit`; `Embedded` for other owners |
| `RiscvLsuProofs`, `RiscvPipeProofs`, `RiscvDcacheProofs`, `RiscvMmuProofs`, `RiscvFrontEndProofs`, `RiscvTcmProofs`, `TcmPmemProofs`, `RiscvMainProofs` | theorems about the module each is named after (`RiscvPipeProofs` about `RiscvTelemetry` too, and about `RiscvDivider`, the unit behind the pipeline's `DividerSpec`) | TLAPS |
| `MC*` | constants for TLC | |

```
 RiscvIsa  <- LockStep -  RiscvPipe  - uses ->  FrontEndSpec  <- KeepsPromise -  RiscvFrontEnd (RiscvFetch, Icache)
                             |  |
                             |  +----- uses ->  DividerSpec   <- ImplementsDividerSpec -  RiscvDivider
                             +-------- uses ->  RiscvLsu      <- ImplementsLsuPort -  RiscvMmu  - walk of ->  SimMmu
 RiscvTelemetry extends RiscvPipe               MemPort       <- ImplementsMemPort -  RiscvTcm (TcmMem, DportAxi),
                                                                                     RiscvDcache (DcacheCore)

 RiscvMain (loader, main loop)  extends  RiscvSim (class Riscv) and SimMemory;  RiscvSim  extends  SimMmu
```

So what `RiscvPipe` assumes of a neighbour is a specification some other module
is shown to implement, with one exception: `Accepts`, that a cache operation
with nothing owed is taken at once, which `MemPort` does not promise.  For the
data cache, in machine mode and once it has cleared its tags after reset, it is
proved (`CacheOpsAtOnce`); the instruction cache clears as many sets before it
answers the first fetch.  It is not true of the other two memories.  `tcm_mem` may
refuse a cache operation while the host has its turn (`tcm_mem.v:224-225, 257`);
its answer never comes later than the cycle after it accepts, so the case
`RiscvPipe` leaves out, a late acceptance and an answer later still, does not arise.
The MMU refuses one in user mode (`riscv_mmu.v:480`), which is the hazard of a
denied `pmpcfg0` write below.

Operators named `X_Y` next to an operator `X` and marked *seeded fault* are
wrong versions of it; no specification uses them.  They document which error
each property notices.

### What is abstracted

- Data.  One operation stands for the integer ALU, words are counted modulo
  `NumValues`, instruction addresses modulo `NumPCs`.  Which instruction an
  address holds is free at every fetch, so one run covers all programs over
  its instruction set.
- The scoreboard of the code uses raw register bits of the instruction; the
  decoded registers are used here.  `x0` is never a destination.
- Byte lanes, strobes and sign extension of loads.  A misaligned access is an
  instruction class of its own.  Misaligned branch targets are left out.
- Machine mode only.  The CSRs are `mstatus.MIE/MPIE`, `mepc`, `mcause` and
  one interrupt bit, `mip & mie`.  `DFLUSH` is a write of `pmpcfg0`, which
  queues a cache operation and has no other effect the simulator knows.
- `RiscvIsa` departs from the simulator in three places, where the core
  promises more (access and misalignment traps), or another order (an
  interrupt is a step of its own); its header lists them.
- `issue_csr_w` is decoded from whatever the fetch unit shows, even while that
  is not valid; the interrupt it then delays is a free choice.
- The tag memories of the cache have no reset: their first contents are free,
  for the sets a program can reach.  Programs use `NumSets` sets of the
  `LastSet + 1` the flush walks over.
- The memory under `top_tcm_wrapper` is followed; the copy in `top_tcm_axi`
  answers every data read with zero.  The mux is the one of
  `top_tcm_axi/src_v`; with `TelemAddr = {}` it is the wrapper's.
- A cache operation with nothing owed is accepted at once (see above).
- `RiscvLsu` issues all four cache operations; what `DINVALIDATE` throws away in
  a data cache is in no model.
- The MMU is followed with one change at a time: a rewrite of a table entry or a
  switch of the root, then a flush before the next one.  A switch is a write of
  satp, whose own flush comes two cycles before it.
- The data cache is driven word by word: no byte strobes, no bus errors, no
  invalidation of a line.  The slave takes requests from the fifo of
  `dcache_axi.v` one after the other; `dcache_axi_axi.v`, which spreads a write
  over two channels, is left out.
- In the simulator an instruction word carries the values its operands have,
  so there are no general registers; a status register is the set of its bits;
  a table index has two bits, a page and a table four words, so memory is 64
  words.  `mtime` counts modulo `TimeMod`, the cycles of `riscv_main` modulo
  `CycleMod`.  The unit of a region is the word.
- Programs of `RiscvMain` are chosen, not free: every image boots in machine
  mode and enters a loop of chosen instructions (`MCRiscvMain`).
- The host uses incrementing bursts with all strobes set, and sends the words
  of a write without waiting for anything else.
- In the telemetry window `mem_ack_o` depends on `mem_rd_o` and that on
  `mem_ack_i`: a combinational loop.  Where it has two stable values, either
  is taken (`settles`).

## Runs

| Run | Instance | Distinct states |
|---|---|---|
| `pipe_mem` | ten instructions, two addresses, one register beside x0, one-bit words, load bypass off | 929,496 |
| `pipe_trap` | eight instructions, interrupts, multiply bypass off | 760,736 |
| `pipe_live` | six instructions, one address, no data, fairness | 17,728 |
| `divider` | three-bit words, all operands | 10,753 |
| `front_end` | six addresses in three lines of two words, one set of two ways, fence.i at 0, a store to the second line, branches into the middle of it, bus errors, fairness | 75,696 |
| `front_end_fence_lost` | fence.i in the last word of a line | stops at the violation |
| `tcm` | an address each for core, host and bridge, two words, fairness | 29,840 |
| `tcm_telemetry` | an address in the telemetry window | stops at the violation |
| `tcm_host` | three addresses, bursts of one and three words, fairness | 64,894 |
| `dcache` | three lines of three words in a set of two ways, a word past the cache, eight operations, fairness | 92,238 |
| `mmu` | two roots, a first table with a pointer and a superpage each, three pages, one entry rewritten once between flushes; two addresses for data and two for fetches, user and machine mode | 213,568 |
| `simulator` | 11,355 combinations of program, file and options, 64 words, `TimeMod` 5, `CycleMod` 32, lines of 4 words, 3 regions | 205,631 |

**The pipeline.**  `LockStep` is the co-simulation check of `cosim_api.cpp` as
a refinement: when an instruction enters WB the architectural state changes as
the simulator changes it for that instruction, and at no other time.  The
refinement mapping (`ArchGpr`, `ArchPc`, `CsrAfter`) looks through what WB is
about to write.  `AnswerMeetsE2`, `FifoInStep` and `NothingBehindFault` are
about answers that carry no tag; `TrapsDrain` and `CsrNeverWaits` about outputs
of WB and E1 that are not gated by a stall although WB and E1 may be held.
`Progress` says the core never locks up, `CountsCommitted` that `minstret` is
exact but for MRET and FENCE.I.

One destination register suffices for forwarding, which compares register
numbers with each other only: the same register again and x0 are the two
cases.  Three stages and two bits of blocking state make dependency chains of
more than four instructions repeat, and instruction addresses matter only for
`mepc`, links and redirects, which two addresses tell apart.  The bypasses are
off in one run each, so both the forwarding and the scoreboard are exercised.
No run has interrupts, branches and loads or stores together: there
`AnswerMeetsE2` and `LockStep` fail (see Findings), and what holds otherwise is
proved for all programs.  Nor does a run have interrupts and divisions.

**The divide unit.**  `RestoringDivision` is the loop invariant, `ResultIsIsa`
the simulator's result for every operand pair, division by zero and overflow
included, `ImplementsDividerSpec` the promise `RiscvPipe` uses.  All of this is
also proved for every width.

**The front end.**  `KeepsPromise` is what `RiscvPipe` assumes: each address
once and in order, held until accepted, nothing stale after a branch.
`OwnWord` is about a cache whose memories answer a cycle late;
`FreshAfterFence` about fence.i.  Three lines in a set of two ways make every
line be evicted; two words per line make a refill longer than one beat and a
line outlive its first hit.  `GoesOn` is progress without branches.  After a
failed refill the words of its line are anybody's: `OwnWord` and
`FreshAfterFence` end there, the other two do not.  Branches lead into the
middle of a line, from any point of the program; words beyond the three lines
behave like these.  The extra decode stage is modelled, but no run sets it, as
no top of the repository does.

**The memories.**  `ImplementsMemPort` shows that mux, memory and bridge together
are the port `RiscvLsu` and `RiscvPipe` assume: every accepted request is
answered once, in order, a load with the word stored last.  `OneSideOwes` says
why that works without tags, `ReadsLastStore` that core and host see one memory,
`Served` that nobody starves.  `AxiRules` keeps
the bridge to one transaction and to its offers.  In `tcm_host`
word `a` of memory holds `a` before and `a + NumAddrs` after it is written, so
`AnswersInOrder` and `WordsAtHome` see every misplaced word; commands of
lengths one and three end in every phase of the four-entry fifos.  `Answered`
says that each command is taken and answered, whatever the other channel does.

**The data cache.**  `ImplementsMemPort` shows that cache, mux and uncached path
together are one memory to the load/store unit; the unit and the pipeline
assume no more.  `Coherent` says where the newest word of an address is: in its
line, or in memory if there is none, and that a clean line equals memory; a
store in flight and a line being filled are excepted by name.
`FlushReachesMemory` is about what a flush or a writeback promises to other
masters: when it is answered, no word is left in a way, in the skid buffer or
in the fifo.  `Served` says that no switch of sides, eviction or walk is waited
for without end.  Lines are cached as a whole, as with the bounds of the cached
range in `riscv_top.v:51-52`.  Three lines in a set of two ways make every line
be evicted, dirty and clean; a line of three words is longer than the two-entry fifo, so
the bus can refuse words of an eviction; the flush walks over a set the program
does not use as well.

**The MMU.**  `Translated` compares what the unit does in a cycle with the page
walk of the simulator: a load, a store or a fetch goes where that sends it and
faults where that refuses it, by root and tables as they are or as they were at
the last flush.  A write of satp flushes in E1 and switches the root in WB:
behind it loads and stores go by the new root alone, while a fetch whose walk
began in between may end in the old one until the next flush.  Entries are made in several steps from an address that is looked at
twice, while the other side misses, the fetch unit is redirected and the tables
change.  `ImplementsLsuPort` shows that the load/store unit sees the port it
assumes although the walker's answers and the page faults come on it as well: so
what is proved of `RiscvLsu` holds behind an MMU too.  The two data addresses
are pages of the same second table with different permissions, the two fetch
addresses lie in one of these pages and in a superpage; under the other root the
data page that is the user's, and both fetch addresses, lie elsewhere and the
other data page does not exist; both TLBs hold one
entry, so every change of page is a miss.  `TablesAssumption` says what tables are
considered: those the simulator's walk gets through, and no entry that is
writable and not readable, which the simulator refuses for fetches and the unit
does not (see Findings).

A CSR instruction is issued with no walk for a fetch in progress, as the
fetch unit asks for its successor in that very cycle.

**The simulator.**  One run takes programs from the file to their end.
`ImageLoaded` compares memory with the file when the core is let go, for
sections in any order, overlapping, rounded and cleared by three kinds of
memory; `StopsInTime` is about `-c` and `-r`.  While a program runs,
`InterruptsPrompt` says none that is due waits for more than an instruction,
whatever the instruction did to the registers that decide it,
`InterruptsJustified` that the handler entered is the right one, at either level
and behind any instruction, CSR writes and returns included, and that the level
was open to it (a trap to the same level whose vector is just the address the
instruction goes on at is not told from no trap), `TrapUndone`
that an immediate return would restore level, status and place,
`AccessGranted` that nothing is executed or written below machine mode without
a page table entry that grants it (stated without the walk: some entry of the
tables does), `BreakpointHit` that no breakpoint is passed.  Another owner may
raise an interrupt before any step.  Addresses need two levels of table, a
superpage and a leaf; two bits of index give `|` against `+` its cases; five
values of the timer let it fire in the boot code, the loop and a handler.

### Fairness

- The clock ticks.  Where the only ticks that change anything depend on the
  environment doing something new (a branch, an interrupt, a request), they
  are not counted on: `Tick`, `Ticking`.
- The front end shows an instruction in the end (`FetchShows`; `GoesOn` is the
  front end's side of it), and the memory port takes requests and answers them
  in the end (`PortTakes`, `PortAnswers`; `Served` is the memory's side).
- An AXI slave takes what is offered and answers what it took (`SlaveFair`),
  the bus of the cache takes the read address and delivers all beats: AXI
  requires it.
- Behind the data cache the bus takes what waits, or answers what it owes, in
  the end (`Moves`); it never owes more than one transaction.
- `simulator` states no liveness: a program may loop for good.
- The host pauses again and again (`host = NoRequest`): a host request turns
  the core away for a cycle, so a host that never pauses starves it.  It sends
  the words it announced and takes responses.

## Findings

- `front_end_fence_lost`: the flush pulse of a fence.i in the last word of a
  cache line meets the miss of the next line and is lost (`icache.v:452-458`;
  the retry in `riscv_fetch.v:163-169` is never armed).
- `tcm_telemetry`: an access to the telemetry window is acknowledged in the
  cycle of its request, before the load/store unit expects an answer; it then
  waits without end (`dport_mux.v:190`, `riscv_lsu.v:125-131`).

Noted while modelling, without a run of their own:

- The divide unit is started for a DIV that an interrupt replaces, and is not
  cancelled (`riscv_issue.v:439` is not masked by `take_interrupt_i`); a DIV of
  the handler that issues in the cycle in which the abandoned one finishes
  leaves E1 at once with its quotient (`riscv_divider.v:162-172`).  `LockStep`
  fails on `RiscvPipe` with two different divisions, an increment and a CSRRS in
  `Instrs`, `DivSteps = 6` and `Raised = {TRUE}`.
- `DINVALIDATE` is looked up at the set of the request before it:
  `dcache_core.v:257` reads the tags at the new address only when the next state
  is LOOKUP or WRITEBACK, not INVALIDATE.  In another set the line is missed, or
  a dirty line with the same tag bits is dropped (`293-298`, `339-341`).
- With the extra decode stage the fetch unit is one word further ahead, and the
  pulse of a fence.i is lost in the same way one word before the end of its
  line: `FreshAfterFence` holds on the instance of `front_end` for
  `DecodeStage = FALSE` only.
- With an MMU and the extra decode stage the walk for the successor of an
  sfence.vma can have read its first table before the store ahead of the
  sfence.vma changes it, and end after the flush: the entry it leaves is stale
  (`riscv_mmu.v:294-297` looks at the address only).  `Translated` fails without
  the guard `state_q = "IDLE"` of `IssueCsr`.
- The walker does not look at the error of its second read
  (`riscv_mmu.v:263-277`): what the failed read returned becomes the entry.
- An entry that is writable, executable and not readable is reserved: the simulator
  refuses a fetch through it (`riscv.cpp:478-483`), the unit looks at the
  executable bit only and fetches.
- The TLBs are flushed with the E1 result of a write of satp
  (`riscv_csr.v:308-317`), two cycles before the new root is there.  A fetch of
  the successor that the instruction cache refuses when the write is issued, and
  that is asked for again meanwhile, walks from the old root, and its entry may
  stay until the next flush.  `Translated` grants that to fetches and holds for
  loads and stores without it; whether the cache ever refuses in that very
  cycle is not decided here.  The architecture asks for an sfence.vma in any case.
- A refill of the data cache with a failed beat leaves a valid line, and the
  error is reported once (`dcache_core.v:906-918`).

- An interrupt may take the place of a taken branch: the redirect is not masked
  (`riscv_issue.v:437`), so the interrupt waits in E1 while nothing is shown at
  issue.  `issue_csr_w` is decoded from the instruction bus whether that is valid
  or not (`riscv_issue.v:201`, `riscv_decoder.v:221`); if the bus reads as a CSR
  instruction, `interrupt_inhibit_o` (`riscv_issue.v:440`) takes
  `take_interrupt_q` back for a cycle (`riscv_csr.v:304`).  If E1 is held by a
  load in E2 whose answer comes in the cycle in which the branch target is shown,
  the target is issued behind the interrupt.  It is squashed, but if it is a load
  or store its request has been made: the store reaches memory, the answer can
  meet an instruction of the handler.  `AnswerMeetsE2` fails on `RiscvPipe` with
  an increment, a load, a store, a JAL, a BEQ and a CSRRS in `Instrs`,
  `NumPCs = 2`, `NumValues = 2`, `TrapVector = 1`, `LoadBypass = TRUE`,
  `MulBypass = FALSE`, `DivSteps = 1` and `Raised = {TRUE}`.  The attempt to
  prove `AnswerMeetsE2` showed it.

And smaller ones: the retire pulse leaves out MRET and
FENCE.I (`riscv_issue.v:247` with `riscv_csr.v:261-269`), which
`CountsCommitted` excepts; the trace buffer overwrites its first entry
(`riscv_core.v:249`); with an MMU the flush of a denied `pmpcfg0` write may be
acknowledged to a load of the handler (`riscv_lsu.v:253`, `riscv_mmu.v:480`); a
refill with a failed beat leaves a valid line (`icache.v:516`).

## Proofs

`RiscvLsuProofs`, for every set of addresses and words, every legal sequence of
operations and every timing of the port:

- `Invariance`: `Spec => [](TypeOK /\ FifoInStep /\ NothingBehindFault)`.
  `FifoInStep` is not inductive: that a push finds room and that a dummy answer
  never meets a real one depend on what may be in E1 meanwhile.  `Pairing` adds
  that at most one answer is owed, that a misaligned access is alone until its
  dummy answer is given, and that the port answers only what it owes.

`RiscvPipeProofs`, for every instruction set, register file, word size, trap
vector, choice of bypasses and set of memory answers (`IsaAssumption`,
`PipeAssumption`: an instruction with a destination is one that writes it, and
words can hold the MIE bit if an instruction reads `mstatus`):

- `TypeCorrectness`: `Spec => []TypeOK`, and
- `LsuInPipe`: `Spec => []FifoInStep`, and
- `FaultsMask`: `Spec => []NothingBehindFault`, all three from `PipeInv`, the
  conjunction of `TypeOK` and the invariant of `RiscvLsuProofs`.
  None is inductive alone: a memory answer has a type only because the port
  answers only what it owes, and the load/store unit keeps its invariant only
  because issue hands it operations, and none in a cycle in which it stalls.
  The lemmas of `RiscvLsuProofs` are used as they stand, through an instance.

and, in two stages:

- `TrapsPrecise`: `Spec => []TrapsDrain`, and `CsrResultsKept`:
  `Spec => []CsrNeverWaits`.  Neither is inductive: why nothing follows a trap
  or a CSR write in WB is decided when the instruction issues, three edges
  before.  `Control` says what each stage may hold on the way: `Shapes` (an
  empty stage is empty in every field), `CsrInE1` and `Exceptions` (whose the
  registers of the CSR unit are, and which exception an instruction brings),
  `Alone` (a CSR instruction has the pipeline to itself from issue to WB).
- `AnswersMeet`: `Spec /\ [][StaysUp]_vars => []AnswerMeetsE2`.  `Links` pairs the
  loads and stores in E1 and E2 with what the load/store unit works on;
  `Waiting` says what may be issued behind an interrupt in E1, whose squash does
  not reach the request: only a CSR instruction.  That needs `StaysUp`: an
  interrupt that waits in E1 while nothing is shown at issue is not withdrawn.
  The code does not guarantee it, see Findings.
- `AnswersMeetUndisturbed` has no assumption on behaviours: with no interrupts,
  or no branches, in the program (`Undisturbed`), `StaysUp` always holds.

and, in the second half of the module, what the pipeline retires, against the
simulator:

- `Counts` and `CountsUndisturbed`: `CountsCommitted` is invariant, under the
  same two conditions and for every width of the counter.  What is counted is
  decided in WB, what the simulator counts in E2 by the instruction and the
  answer of the port; that they agree needs `Control` and `Links`.
- `Implements`: `Spec /\ [][StaysUp]_vars => LockStep`, and `Refines`: the same
  implies `Sim!Spec`, all of `RiscvIsa` seen through the refinement mapping.
  `Semantics` is the invariant behind both.  It says of each instruction in E1
  and E2 that what was read and chosen for it when it was issued is what the
  simulator will find when its turn comes: its operands (`SemE1`, `SemE2`: the
  registers as they will be once the instructions ahead have committed), its
  result, its successor (what is in E1, or will be fetched, is where the
  simulator goes), the operation handed to the load/store unit (`MemE2`), the
  division under way (`DivE1`), and that behind an exception only interrupts
  and CSR instructions, which do nothing before WB, can be in E1 (`Replaced`).
  The argument follows an instruction: `Forwarded` and `SourcesKept` (operands),
  `OperationGiven` (memory), `Entering` (issue to E1), a lemma for each class of
  instruction from E2 to WB, `Trapping` and `Committing`, then `Executes`,
  `Interrupts` and `Between`, the three ways the simulator moves or stays.
- `ImplementsUndisturbed` and `RefinesUndisturbed` assume `Undisturbed` instead.
- All four assume `DivAlone`: the program has no divisions, or there are no
  interrupts.  With both, `LockStep` fails (see Findings, `riscv_issue.v:439`).

and, at the end of the module, the divide unit the pipeline waits for, for every
width (`MaskAssumption`: `OneHot` lists the powers of two up to `MSB`):

- `DivideInvariance`: `DivideSpec => [](DivideTypeOK /\ RestoringDivision)`.  It
  says dividend = quotient so far * divisor + remainder, with the shifted
  divisor a multiple of the original by the current bit of the mask; the bits of
  the quotient above the mask are the partial quotient.  `PartialQuotient` alone
  is not inductive: that the bit set is clear, and that the next subtraction
  leaves a remainder below the next shifted divisor, need the relation of mask,
  quotient and divisor.
- `DivideCorrectness`: the answer is `RiscvIsa`'s, by uniqueness of quotient and
  remainder and the four cases of signs.
- `DivideRefinement`: `DivideSpec` implements `DividerSpec`, on which `RiscvPipe` and
  the theorems above are built.

`RiscvMmuProofs`, for every two sets of addresses, every program of loads and
stores, every timing of the port and of the fetch unit, every set of roots and every
set of tables that may follow one another (`MmuAssumption`; `TablesAssumption`: tables are in
memory, what a leaf maps is too, the second level holds no pointer and no entry
is writable and not readable):

- `Translation`: `Spec => []Translated`.  An entry is put together from two reads,
  at different times and from tables that may be written in between, for an
  address the walker takes from whoever misses.  `Walking` says how far the walk
  has come and for which address; `Held` why the side it is for is still asking
  for that address when it ends; `Drained` that no table has been read when a
  flush comes, and that no load or store has a translation between the flush and
  the switch of the root; `Apart` that root and tables differ from those of the
  last flush in the root or in one word, not in both.  `MixedWalk` is the lemma
  all this is for: a walk whose two reads see different tables ends where the walk
  of one of the two would.  `DataViews` is why loads and stores see the new root
  alone.
- `KeepsLsuPort`: `Spec => ImplementsLsuPort`, and `KeepsUnit`:
  `Spec => [](FifoInStep /\ NothingBehindFault)`.  `InPort` says whose answer the
  port owes, the walker's or the load/store unit's, and that a page fault is
  answered while the unit waits and the port owes nothing.

`RiscvDcacheProofs`, for every length of line, number of sets and set of cached
and uncached addresses, every legal sequence of loads, stores, flushes and
writebacks, and every timing of a bus that reports no errors
(`DcacheAssumption`: a line is cached as a whole and is a burst of 2 to 256
words, the length on the bus having eight bits; `NoErrors`:
`Responses = {"OK"}`, as in the run):

- `NothingIsLost`: `Spec => []Coherent`, and `FlushIsDone`:
  `Spec => []FlushReachesMemory`, and
- `Refinement`: `Spec => ImplementsMemPort`, that is `MemPort`, which the
  pipeline is checked with, and
- `CacheOpsAtOnce`: a flush or a writeback with nothing owed is taken at once,
  which `RiscvPipe` assumes beyond `MemPort`.

All four follow from `DcacheInv`.  `Coherent` says of the words in a way that
they are new, but a line moves one word per clock through a skid buffer, a
two-entry fifo and a burst, and what the unit asks next may belong to the other
side of the multiplexer.  `Sides` says where the one request owed an answer is:
nowhere, past the cache (`Offering`, `Asked`) or in the cache (`CoreOwes`), and
that it is one is the invariant of `RiscvLsuProofs`, used through an instance.
`Traffic` says for every state of the cache what fifo, burst and slave hold of
the line in work: `EvictingAt(n)`, of which `Handed(n, k)` says that `n` words
have left the cache and `k` are with the bus; `ReadingAt(k)`, that `k` words of
a refill have come.  `Chosen`, `Filled` and `Outputs` are why the way chosen in
`LOOKUP` is still the right one when its line has gone: the victim is dirty and
not the line asked for, no other way holds that, and the outputs of the memories
are those of the set in work.  `Flushing` says how far the walk of a flush has
come: every set below `flush_addr_q` is invalid, and a flush returns to a set
until no way of it is dirty.  `Contents` is what it is all for: past the cache
and where no line is dirty memory is up to date; the tags name lines of cached
addresses, one way each; a dirty line has the newest words and a clean one those
of memory.

`RiscvFrontEndProofs`, for every size of program and of cache, every timing and
failure of the bus and every sequence of branches and stalls, with the decode
register and without (`FrontEndAssumption`: a whole number of lines, and more
than one set, of which there are 256 in the code):

- `Promise`: `Spec => KeepsPromise`, that is `FrontEndSpec`, which the pipeline
  is built on.
- `OwnWords`: `Spec => []OwnWord`.  Both follow from `FrontInv`.  Nothing that is
  in flight between the two units has a tag, so the invariant says for which
  address it is: `Paired` and `Order` (the request in the cache, the skid
  buffer, the decode register and the address requested next follow each other,
  or a branch is buffered and all of it is dropped), `Refilling` (which beats of
  a line are to come), `Lines` and `Contents` (which words of which lines are
  their own while one is overwritten or the tags are flushed), `Outputs` (the
  memories show what is looked up).  `Outputs` has an exception the proof found:
  with the decode register a request can be accepted in the very cycle of the
  flush pulse, and is looked up after the flush with the outputs of another set.
  Its answer can be wrong; `Fencing` says that it comes no earlier than the
  branch of fence.i, which drops it.  That needs more than one set: the flush of
  a single one is over too early.
- `Freshness`: `Spec /\ []PulseSeen => []FreshAfterFence`.  `FreshInv` follows
  the words written before fence.i through the flush: from E2 on, every line in
  the cache has come from memory since.  `PulseSeen`, that the one-cycle pulse
  meets the cache in `LOOKUP` without a miss, is what the finding at
  `icache.v:456` is about: the code does not guarantee it.
- `FreshInsideLine` has no assumption on behaviours: without the decode register
  and with fence.i not the last word of its line, the request in the cache when
  the pulse comes is for the same line, which fence.i itself was just read from
  (`InLine`), and `PulseSeen` always holds.

`RiscvTcmProofs`, for every set of addresses and words, every legal sequence of
operations, every host and every timing of the bus (`TcmAssumption`: the three
address ranges are disjoint, and 0, which the memory starts with, is a word;
`OpsAssumption`: the core hands over operations of the load/store unit).  All
four theorems assume `NoTelemetry`: no address is in the telemetry window.
With one, `ImplementsMemPort` fails, see Findings.

- `OneSideAnswers`: `Spec => []OneSideOwes`, and `LastStoreIsRead`:
  `Spec => []ReadsLastStore`.  Both follow from `TcmInv`.  Answers carry no tag,
  so the invariant has to say where the one request that is owed an answer is
  (`Sides`): nowhere, in the RAM (`TcmOwes`: performed, answered in this cycle),
  or in the bridge (`BridgeOwes`), there still `Offering` it, with either half
  of a store taken or not, or `Awaiting` the answer.  That it is never more
  than one is the invariant of `RiscvLsuProofs`, used through an instance with
  the answers this port gives; it needs that a cache operation, which the unit counts as done when it
  is accepted, is only accepted when nothing is left to be answered: the RAM
  answers in the next cycle, and the multiplexer holds it back from the bridge.
- `Refinement`: `Spec => ImplementsMemPort`, that is `MemPort`, which the
  pipeline is checked with.
- `KeepsAxiRules`: `Spec => AxiRules`.

`TcmPmemProofs`, for every memory of up to 256 words (`PmemAssumption`: the
length of a burst has eight bits), every set of commands that stay inside it and
every behaviour of the host:

- `Fits`, `Ordered`, `AtHome` and `Holding`: `ResponseFits`, `AnswersInOrder`,
  `WordsAtHome` and `HoldsRequest`.  What makes `AnswersInOrder` true is spread
  over four queues: the command in part split into accesses, the accesses whose
  answers are due, the answers that wait, and what the host still expects.
  `PmemInv` ties them together.  `InOrder` gives each access its place among the
  responses owed (the words of a write but the last share the place of the
  last), and `Remaining` says that the responses to what is left of the burst
  come after them, and which words of a write under way are in memory.  `Held`
  says that an access once refused is served the next time, on which the
  registers of the arbiter rest: it never has two to hold.
- The argument follows a clock edge: `OldestDone` (a response leaves at the
  head), `ResponsesAdded` (a new command adds its own at the end), `AccessMade`
  (an access takes its place), `WritesStay` (no later write undoes a word an
  earlier response waits for).

`RiscvMainProofs`, for every file, every set of options and every program the
simulator may run (`ProgramOK`; `TimeAssumption`, `MemoryAssumption`), the
seven properties of the run `simulator`:

- `ImageIsLoaded`: `Spec => []ImageLoaded`.  `ImageInv` says the same of the
  sections loaded so far (`FirstLoaded`); a section changes its own words only,
  and a new word of memory can hold none of an older section, whose words were
  in memory when it was loaded.  It takes nothing from the search for free
  addresses in `create_memory`: what is left out there ends the load.
- `Stops`: `Spec => []StopsInTime`, from `StopInv`: the address of `-r` is first
  in `m_pc_x`, one round later where the loop looks.
- `Prompt`, `Justified`, `TrapsUndone` and `BreakpointsHit`: `InterruptsPrompt`,
  `InterruptsJustified`, `TrapUndone` and `BreakpointHit`.  They rest on `Typed`, `Spec => []Regs(cpu)`, which asks
  nothing of the instruction words: a program may write anything to any CSR.
  `StepOutcome` reduces the eleven actions to three outcomes: a trap, or an
  instruction that is followed by an interrupt or by the next address.
  `InterruptLevel` is the point of the interrupt check: `exception()` decides
  the level a second time, from `mideleg`, and agrees with the set it was
  chosen from.  `RanGoes` says where an instruction goes that is followed by
  neither: a step that ends elsewhere has trapped, so a cause the program wrote
  itself is not taken for a trap.
- `Granted`: `AccessGranted`.  It is about what the words of the program say, so
  it has the words as a parameter, `Code`, which loads and stores stay inside
  (`Encoded`), and assumes that addresses are addresses and frames numbers
  (`Numeric`).  It says of the merge of index and frame with `|` that it stays
  within the block of pages of a superpage, aligned or not (`OrIndexIs`).
  `MCRiscvMain` assumes both of the run's programs, so TLC has evaluated them.

Only model-checked:

- Liveness (`Progress`, `GoesOn`, `Served`, `Answered`) and what uses `ENABLED`.
- `LockStep` and `AnswerMeetsE2` beyond these conditions fail; between them, where
  the bus does not read as a CSR instruction at the wrong time, `StaysUp` states
  exactly what is needed.
- The memory port beyond `NoTelemetry`, where it fails.
- `FreshAfterFence` beyond `PulseSeen`, where it fails.

## Not modelled

- The trace buffer, and of the CSR file delegation, supervisor mode, the timer
  and writes of `mip`.  `RiscvSim` has them on the simulator's side, so a
  refinement is the next step.
- MMU: cache operations, which pass it without translation, MXR, MPRV, bus
  errors, and liveness: a program whose loads alternate between two pages keeps
  the walker from the fetches, and what ends that, that it runs out of
  instructions, is not in `RiscvMmu`.
- Data cache: `DINVALIDATE`, bus errors (`Responses` is `{"OK"}` in the run and
  in the theorems), byte strobes, `dcache_axi_axi.v`.
- The instruction port of the memory: fixed latency, no state but the address.
- ALU, multiplier and byte lanes: combinational arithmetic; tests reach it.
- Simulator: the arithmetic of single instructions, console and formatted
  output through `SIM_CTRL`, statistics, `set_register` and `set_pc`,
  `set_breakpoint` other than before the run; page tables with a pointer in the
  last level, which the loop of `mmu_walk` follows out of the table
  (`riscv.cpp:392`, the level is unsigned).
- Main program: `-c 0`, which runs until the count wraps, is modelled and
  excepted from `StopsInTime`; left out are the memory dump at exit,
  `elf_get_symbol`, the last word of a section that is no multiple of four
  bytes.
- Co-simulation: the event queues and the comparison of several cpus; no program
  of the repository attaches two.  `LockStep` is the comparison itself.
- `tb_axi4_mem.cpp`, the SystemC drivers and the tops: one of the slaves the
  models allow, and wiring.  The disassembler: formatting without state.

## Plan

1. Bus errors in `RiscvDcache`: which words a failed refill or eviction may
   lose, and `Coherent` for all others.
2. `RiscvCsr`: the CSR file with delegation and the delayed update of `mip`
   against `RiscvSim`, the trace buffer; `RiscvMmu` with `RiscvPipe`, for
   liveness and cache operations.

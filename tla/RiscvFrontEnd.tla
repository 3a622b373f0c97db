--------------------------- MODULE RiscvFrontEnd ---------------------------
(***************************************************************************)
(* The front end: the fetch unit (RiscvFetch) on the instruction cache     *)
(* (Icache), as riscv_core.v connects them without an MMU, against         *)
(* everything riscv_issue and the bus may do.  RiscvPipe is checked with   *)
(* FrontEndSpec in its place.                                              *)
(*                                                                         *)
(* The program rewrites the words StoreAt once, and then executes fence.i  *)
(* at address FenceAt.  "fence" follows that instruction through the       *)
(* pipeline, as RiscvPipe moves a CSR instruction: it is in E1 while       *)
(* ifence_q of riscv_csr pulses, then in E2 and in WB, and then riscv_csr  *)
(* requests a branch to the instruction behind it.                         *)
(***************************************************************************)
EXTENDS Integers, FiniteSets

CONSTANTS
    NumPCs, LineWords, NumSets, LastSet, Responses, DecodeStage,
    Targets,    \* where branches lead
    StoreAt,    \* the words of program the program rewrites
    FenceAt     \* the address that holds fence.i

VARIABLES
    active_q, branch_q, branch_pc_q, icache_fetch_q, pc_f_q, branch_d_q, pc_d_q,
    skid, decode,
    state_q, lookup_valid_q, lookup_addr_q, tags, tag_out, data, data_out,
    data_write_q, flush_addr_q, replace_way_q, axi_arvalid_q, axi_error_q,
    beats, imem,
    fence,      \* the stage fence.i is in, "NONE", or "RESET"
    synced,     \* history: fence.i has been executed
    expected,   \* history: the address issue must be shown next
    failed,     \* history: a refill has failed
    took        \* history: what issue did at the last edge

fetchVars  == <<active_q, branch_q, branch_pc_q, icache_fetch_q, pc_f_q,
                branch_d_q, pc_d_q, skid, decode>>
icacheVars == <<state_q, lookup_valid_q, lookup_addr_q, tags, tag_out, data,
                data_out, data_write_q, flush_addr_q, replace_way_q,
                axi_arvalid_q, axi_error_q, beats, imem>>
vars == <<fetchVars, icacheVars, fence, synced, expected, failed, took>>

Cache == INSTANCE Icache
Fetch == INSTANCE RiscvFetch

PCs == 0 .. (NumPCs - 1)

ASSUME FrontEndAssumption ==
    /\ NumPCs \in Nat \ {0} /\ LineWords \in Nat \ {0} /\ NumSets \in Nat \ {0}
    /\ NumPCs % LineWords = 0
    /\ LastSet \in Nat \ {0} /\ NumSets <= LastSet + 1
    /\ Responses \subseteq {"OK", "ERROR"}
    /\ DecodeStage \in BOOLEAN
    /\ StoreAt \subseteq PCs /\ Targets \subseteq PCs
    /\ FenceAt \in (0 .. NumPCs) \ StoreAt    \* NumPCs: no fence.i

-----------------------------------------------------------------------------
(***************************************************************************)
(* The wires between the two.                                              *)
(***************************************************************************)
Ic == [accept |-> Cache!ReqAccept, valid |-> Cache!ReqValid,
       inst |-> Cache!ReqInst, error |-> Cache!ReqError]

Shown == Fetch!Shown(Ic)

Init ==
    /\ Fetch!Init
    /\ Cache!Init
    /\ fence = "RESET" /\ synced = FALSE /\ expected = 0 /\ failed = FALSE /\ took = "HOLD"

Clock(accept, branch, target, arready, beat) ==
    /\ Fetch!Edge(accept, branch, target, Ic)
    /\ Cache!Edge(Fetch!Rd(accept, Ic), pc_f_q, fence = "E1", arready, beat)
    /\ expected' = IF branch THEN target
                   ELSE IF Shown.valid /\ accept THEN Fetch!Following(Shown.pc)
                   ELSE expected
    /\ failed' = (failed \/ beat = "ERROR")
    /\ took' = IF branch THEN "BRANCH" ELSE IF accept THEN "ACCEPT" ELSE "HOLD"

Bus(accept, branch, target) ==
    \E arready \in IF Cache!ArValid THEN BOOLEAN ELSE {FALSE}, beat \in Cache!Beats :
        Clock(accept, branch, target, arready, beat)

\* After reset riscv_csr requests a branch to the reset vector.
Reset ==
    /\ fence = "RESET"
    /\ Bus(TRUE, TRUE, 0)
    /\ fence' = "NONE"
    /\ UNCHANGED synced

\* Nothing is accepted that could be; without an instruction riscv_issue always
\* accepts.
Hold ==
    /\ fence \in {"NONE", "E1"}
    /\ Bus(~Shown.valid, FALSE, 0)
    /\ fence' = IF fence = "NONE" THEN "NONE" ELSE "E2"
    /\ UNCHANGED synced

Accept ==
    /\ fence = "NONE" /\ Shown.valid
    /\ Bus(TRUE, FALSE, 0)
    /\ fence' = IF Shown.pc = FenceAt /\ ~Shown.fault THEN "E1" ELSE "NONE"
    /\ UNCHANGED synced

\* An exception, a return, or a branch instruction at issue; the last is not
\* accepted when it is turned into an interrupt, but branches all the same.
Branch(accept, target) ==
    /\ fence = "NONE"
    /\ Bus(accept, TRUE, target)
    /\ UNCHANGED <<fence, synced>>

\* fence.i squashes what follows it.
FencePasses ==
    /\ fence \in {"E2", "WB"}
    /\ Bus(TRUE, FALSE, 0)
    /\ fence' = IF fence = "E2" THEN "WB" ELSE "BRANCH"
    /\ UNCHANGED synced

Resume ==
    /\ fence = "BRANCH"
    /\ Bus(TRUE, TRUE, Fetch!Following(FenceAt))
    /\ fence' = "NONE" /\ synced' = TRUE

\* Once it has executed fence.i the program stores no more.
Store ==
    imem' \in {imem} \cup IF synced \/ fence # "NONE" THEN {}
                          ELSE {[imem EXCEPT ![a] = "NEW"] : a \in StoreAt}

Tick == (Reset \/ Hold \/ Accept \/ FencePasses \/ Resume) /\ Store

Next ==
    \/ Tick
    \/ /\ \E accept \in {TRUE, ~Shown.valid}, target \in Targets : Branch(accept, target)
       /\ Store

Spec == Init /\ [][Next]_vars

-----------------------------------------------------------------------------
Instrs  == [at : PCs, word : {"OLD", "NEW", "UNDEF"}]

Front == INSTANCE FrontEndSpec WITH
    Words <- Instrs,
    NoWord <- Fetch!Nothing.instr,
    front_valid <- Shown.valid,
    front_pc <- IF Shown.valid THEN Shown.pc ELSE expected,
    front_instr <- Shown.instr

(***************************************************************************)
(* The front end keeps the promise RiscvPipe relies on: whatever the       *)
(* cache, the bus and riscv_issue do, each address is shown once and in    *)
(* order, an instruction is held unchanged until it is accepted, and       *)
(* nothing requested before a branch is shown after it.                    *)
(***************************************************************************)
KeepsPromise ==
    [][Front!FrontEdge(took' # "HOLD", took' = "BRANCH", expected')]_vars

(***************************************************************************)
(* Until a refill fails, what is shown for an address is a word of that    *)
(* address, through misses, refills, replacement and flushes, although the *)
(* tag and data memories answer a cycle late and the refill overwrites a   *)
(* line whose old tag is still valid; and a line is never in both ways,    *)
(* because the lookup after a refill finds it.                             *)
(***************************************************************************)
OwnWord ==
    /\ Shown.valid /\ ~failed =>
          /\ Shown.instr.at = Shown.pc
          /\ Shown.instr.word # "UNDEF" /\ ~Shown.fault
    /\ \A s \in Cache!Sets :
          state_q # "FLUSH" /\ tags[0][s] # Cache!Invalid => tags[0][s] # tags[1][s]

(***************************************************************************)
(* After fence.i, and until a refill fails, the program sees the words it  *)
(* has written before it                                                   *)
(* (ifence_q of riscv_csr.v, "flush cache" in icache.v:456).               *)
(***************************************************************************)
FreshAfterFence ==
    synced /\ Shown.valid /\ ~failed => Shown.instr.word = imem[Shown.pc]

(***************************************************************************)
(* Fairness: the clock ticks, branch or none, and the bus takes a request  *)
(* and delivers the words of a line in the end.                            *)
(***************************************************************************)
FairSpec == /\ Spec /\ WF_vars(Tick)
            /\ []<>~Cache!ArValid /\ []<>(beats = 0)

(***************************************************************************)
(* Once no branch is taken but those of fence.i, the front end goes on     *)
(* showing instructions: a miss, a flush, a dropped answer or a full skid  *)
(* buffer never leaves it waiting for nothing.                             *)
(***************************************************************************)
GoesOn ==
    <>[][took' = "BRANCH" => fence = "BRANCH"]_vars => []<>Shown.valid
=============================================================================

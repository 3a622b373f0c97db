------------------------------ MODULE RiscvMmu ------------------------------
(***************************************************************************)
(* The memory management unit, core/riscv/riscv_mmu.v with SUPPORT_MMU,    *)
(* between the core and its ports: one TLB entry for fetches, one for      *)
(* loads and stores, and a walker that reads the page tables through the   *)
(* data port of the load/store unit (RiscvLsu).                            *)
(*                                                                         *)
(* The reference for what a translation gives is the simulator's (SimMmu): *)
(* the tables are laid out as there, one word of memory per entry.         *)
(*                                                                         *)
(* Every step is one rising clock edge.  Left out are the cache            *)
(* operations, which pass without translation (legal only in machine       *)
(* mode), MXR and MPRV, bus errors, and the mode bit of satp, which stays  *)
(* set: satp is the page of the first table.                               *)
(***************************************************************************)
EXTENDS Integers, Sequences

CONSTANTS
    Roots,      \* what satp may hold
    Tables,     \* what the tables may hold: functions from their words
    DataAddr,   \* the virtual addresses the program uses
    FetchAddr,  \* and those it is fetched from
    Ops,        \* its operations, a subset of LsuOps of RiscvLsu
    Privs,      \* the modes it runs in
    Sum         \* mstatus.SUM

Sim == INSTANCE SimMmu

ASSUME MmuAssumption ==
    /\ DataAddr \cup FetchAddr \subseteq Sim!Addr
    /\ 0 \in DataAddr /\ FetchAddr # {}
    /\ Roots \subseteq Sim!Pages /\ Roots # {}
    /\ Sim!MACHINE \in Privs /\ Privs \subseteq {Sim!USER, Sim!SUPER, Sim!MACHINE}
    /\ Sum \in BOOLEAN
    /\ Ops \subseteq {"LOAD", "STORE", "LOAD_MISALIGNED", "STORE_MISALIGNED"}

\* What memory holds with tables t.
Memory(t) == [a \in Sim!Addr |-> IF a \in DOMAIN t THEN t[a] ELSE Sim!NoPte]

IsPointer(pte) == "V" \in pte.flags /\ ~Sim!IsLeaf(pte)

(***************************************************************************)
(* The tables are in memory.  What a present entry maps is memory too      *)
(* (mmu_walk ends the program where it is not), no entry is writable and   *)
(* not readable (reserved: the simulator refuses it, the unit does not     *)
(* look), and the second level holds no pointer (see SimMmu).              *)
(***************************************************************************)
WellFormed(t) ==
    /\ DOMAIN t \subseteq Sim!Addr
    /\ \A a \in DOMAIN t :
          /\ t[a] \in [flags : SUBSET Sim!PteFlags, ppn : Nat]
          /\ "V" \in t[a].flags =>
                /\ Sim!IsLeaf(t[a]) => t[a].ppn \in Sim!Pages
                /\ ~Sim!Reserved(t[a])
    /\ \A root \in Roots, i, j \in 0 .. (Sim!Entries - 1) :
          LET top == Sim!Entry(Memory(t), root, i)
          IN  IsPointer(top) => ~IsPointer(Sim!Entry(Memory(t), top.ppn, j))

ASSUME TablesAssumption == \A t \in Tables : WellFormed(t)

VARIABLES
    mem_q, pending_lsu_e2_q, mem_unaligned_e2_q, fifo,   \* RiscvLsu
    pc_f_q, priv_f_q, branch_q,                          \* riscv_fetch
    priv,               \* current_priv_w of riscv_csr
    csr,                \* the stage a CSR instruction is in, or "NONE"
    load_q, store_q,    \* a request that waits
    state_q, dtlb_req_q, pte_addr_q, pte_entry_q, virt_addr_q,
    itlb, dtlb,         \* *_valid_q, *_va_addr_q and *_entry_q
    load_fault_q, store_fault_q,
    mem_req_q,          \* the walker asks for a word
    read_hold_q, src_mmu_q,
    port,               \* the data port: requests accepted, not answered
    port_ack,           \* the data port: the answer in this cycle
    satp,               \* the page of the first table
    tables,             \* memory: the page tables
    flushed,            \* history: satp and the tables at the last flush
    owed                \* history: what the load/store unit waits for

lsuVars   == <<mem_q, pending_lsu_e2_q, mem_unaligned_e2_q, fifo>>
coreVars  == <<pc_f_q, priv_f_q, branch_q, priv, csr>>
walkVars  == <<state_q, dtlb_req_q, pte_addr_q, pte_entry_q, virt_addr_q>>
faultVars == <<load_fault_q, store_fault_q>>
holdVars  == <<mem_req_q, read_hold_q, src_mmu_q>>
vars == <<lsuVars, coreVars, load_q, store_q, walkVars, itlb, dtlb, faultVars,
          holdVars, port, port_ack, satp, tables, flushed, owed>>

\* Where a walk that begins now would look.
Now == [satp |-> satp, tables |-> tables]

-----------------------------------------------------------------------------
(***************************************************************************)
(* Answers.  Those to the walker carry its tag (resp_mmu_w); a page fault  *)
(* is an answer the unit makes itself.                                     *)
(***************************************************************************)
RespMmu == port_ack # "NONE" /\ Head(port).mmu

\* Seeded fault: the tag of the answer is not looked at.
LsuAck_AnyTag ==
    IF load_fault_q \/ store_fault_q THEN "ERROR" ELSE port_ack
LsuAck ==
    IF load_fault_q \/ store_fault_q THEN "ERROR"
    ELSE IF RespMmu THEN "NONE" ELSE port_ack

Lsu == INSTANCE RiscvLsu WITH
           Values <- DataAddr, mem_ack <- LsuAck, outst <- owed,
           mem <- [a \in DataAddr |-> 0]

\* The word the walker reads, an entry of the tables.
RespData == IF Head(port).addr \in DOMAIN tables THEN tables[Head(port).addr]
            ELSE Sim!NoPte

-----------------------------------------------------------------------------
(***************************************************************************)
(* Translation.                                                            *)
(***************************************************************************)
Asks(op) == Lsu!Requesting /\ mem_q.op = op
Load     == Asks("LOAD")  \/ load_q
Store    == Asks("STORE") \/ store_q
Access   == Load \/ Store

VmI == priv_f_q # Sim!MACHINE
VmD == priv # Sim!MACHINE

Matches(tlb, a) == tlb.valid /\ tlb.page = Sim!PageOf(a)

ItlbHit(rd) == rd /\ Matches(itlb, pc_f_q)
DtlbHit     == Matches(dtlb, mem_q.addr)

PcFault(rd) ==
    /\ VmI /\ ItlbHit(rd)
    /\ \/ "X" \notin itlb.entry.flags
       \/ priv_f_q = Sim!SUPER /\ "U" \in itlb.entry.flags
       \/ priv_f_q = Sim!USER /\ "U" \notin itlb.entry.flags

Denied(need) ==
    /\ VmD /\ DtlbHit
    /\ \/ ~(need \subseteq dtlb.entry.flags)
       \/ priv = Sim!SUPER /\ "U" \in dtlb.entry.flags /\ ~Sum
       \/ priv = Sim!USER /\ "U" \notin dtlb.entry.flags
LoadFault  == Load /\ Denied({"R"})
StoreFault == Store /\ Denied({"R", "W"})

Physical(tlb, a) == tlb.entry.ppn * Sim!Entries + (a % Sim!Entries)

\* fetch_out: to the instruction cache.
FetchOut(rd) == IF VmI THEN ItlbHit(rd) /\ ~PcFault(rd) ELSE rd
FetchPc      == IF VmI THEN Physical(itlb, pc_f_q) ELSE pc_f_q
FetchAccept(rd, iaccept) == PcFault(rd) \/ (FetchOut(rd) /\ iaccept)

\* lsu_out, before the walker gets its turn.
CpuOut  == IF VmD THEN \/ Load /\ DtlbHit /\ ~LoadFault
                       \/ Store /\ DtlbHit /\ ~StoreFault
           ELSE Asks("LOAD") \/ Asks("STORE")
CpuAddr == IF VmD THEN Physical(dtlb, mem_q.addr) ELSE mem_q.addr

-----------------------------------------------------------------------------
(***************************************************************************)
(* The data port is shared; who has asked keeps it until it is accepted.   *)
(***************************************************************************)
SrcMmu == IF read_hold_q THEN src_mmu_q ELSE mem_req_q

Out == IF SrcMmu THEN mem_req_q ELSE CpuOut

Request == IF SrcMmu THEN [mmu |-> TRUE, addr |-> pte_addr_q]
                     ELSE [mmu |-> FALSE, addr |-> CpuAddr]

LsuAccept(accept) ==
    \/ ~SrcMmu /\ accept /\ (VmD => DtlbHit)
    \/ LoadFault \/ StoreFault

-----------------------------------------------------------------------------
(***************************************************************************)
(* The walker.  A data miss comes first.  The second index is taken from   *)
(* the address that is asked for when the first entry arrives.             *)
(***************************************************************************)
DataMiss == Access /\ VmD /\ ~DtlbHit
Miss(rd) == DataMiss \/ (rd /\ VmI /\ ~ItlbHit(rd))

\* Seeded fault: the side a walk is for is not kept.
RequestAddr_NotHeld == IF DataMiss THEN mem_q.addr ELSE pc_f_q
RequestAddr ==
    IF (IF state_q = "IDLE" THEN DataMiss ELSE dtlb_req_q)
    THEN mem_q.addr ELSE pc_f_q
Index(level, a) == IF level = 1 THEN Sim!PageOf(a) \div Sim!Entries
                   ELSE Sim!PageOf(a) % Sim!Entries

Present == RespMmu /\ "V" \in RespData.flags
Pointer == Present /\ ~Sim!IsLeaf(RespData)

\* Between two walks nobody reads the walker's registers, which keep the last
\* one; here they are as after reset.
WalkReset ==
    /\ state_q' = "IDLE" /\ dtlb_req_q' = FALSE
    /\ pte_addr_q' = 0 /\ pte_entry_q' = Sim!NoPte /\ virt_addr_q' = 0

StartWalk(rd) ==
    /\ state_q = "IDLE" /\ Miss(rd)
    /\ state_q' = "LEVEL_FIRST"
    /\ pte_addr_q' = satp * Sim!Entries + Index(1, RequestAddr)
    /\ virt_addr_q' = RequestAddr
    /\ dtlb_req_q' = DataMiss
    /\ UNCHANGED pte_entry_q

LevelFirst ==
    /\ state_q = "LEVEL_FIRST" /\ RespMmu
    /\ IF Pointer
       THEN /\ state_q' = "LEVEL_SECOND"
            /\ pte_addr_q' = RespData.ppn * Sim!Entries + Index(2, RequestAddr)
            /\ UNCHANGED pte_entry_q
       ELSE /\ state_q' = "UPDATE"
            /\ pte_entry_q' =
                 IF Present
                 THEN [flags |-> RespData.flags,
                       ppn |-> Sim!OrIndex(RespData.ppn, Index(2, RequestAddr))]
                 ELSE Sim!NoPte
            /\ pte_addr_q' = 0
    /\ UNCHANGED <<virt_addr_q, dtlb_req_q>>

LevelSecond ==
    /\ state_q = "LEVEL_SECOND" /\ RespMmu
    /\ state_q' = "UPDATE"
    /\ pte_entry_q' = IF Present THEN RespData ELSE Sim!NoPte
    /\ pte_addr_q' = 0
    /\ UNCHANGED <<virt_addr_q, dtlb_req_q>>

EndWalk ==
    /\ state_q = "UPDATE"
    /\ WalkReset

NoWalk(rd) ==
    /\ state_q = "IDLE" => ~Miss(rd)
    /\ state_q \in {"LEVEL_FIRST", "LEVEL_SECOND"} => ~RespMmu
    /\ state_q # "UPDATE"
    /\ UNCHANGED walkVars

Walker(rd) == StartWalk(rd) \/ LevelFirst \/ LevelSecond \/ EndWalk \/ NoWalk(rd)

(***************************************************************************)
(* The TLBs.  That of the fetches becomes valid at the end of a walk only  *)
(* if it held this page before (itlb_va_addr_q is compared, not            *)
(* virt_addr_q): the first walk to a page is followed by a second.         *)
(***************************************************************************)
Flush == csr = "E1"

Ends(mine) == state_q = "UPDATE" /\ dtlb_req_q = mine

\* The entry of a TLB that is not valid is never read.
Tlb(valid, page, entry) ==
    [valid |-> valid, page |-> page, entry |-> IF valid THEN entry ELSE Sim!NoPte]

Itlb ==
    itlb' = Tlb(IF Flush THEN FALSE
                ELSE IF state_q # "IDLE" /\ ~dtlb_req_q
                THEN state_q = "UPDATE" /\ itlb.page = Sim!PageOf(pc_f_q)
                ELSE itlb.valid,
                IF Ends(FALSE) THEN Sim!PageOf(virt_addr_q) ELSE itlb.page,
                IF Ends(FALSE) THEN pte_entry_q ELSE itlb.entry)

DtlbValid == ~Flush /\ (dtlb.valid \/ Ends(TRUE))

Dtlb ==
    dtlb' = Tlb(DtlbValid,
                IF Ends(TRUE) THEN Sim!PageOf(virt_addr_q)
                ELSE IF DtlbValid THEN dtlb.page ELSE 0,
                IF Ends(TRUE) THEN pte_entry_q ELSE dtlb.entry)

WalkRequest(rd, accept) ==
    mem_req_q' = (\/ state_q = "IDLE" /\ Miss(rd)
                  \/ state_q = "LEVEL_FIRST" /\ Pointer
                  \/ mem_req_q /\ ~(SrcMmu /\ accept))

Waiting(accept) ==
    /\ load_q'  = IF Asks("LOAD")  THEN ~LsuAccept(accept) ELSE load_q
    /\ store_q' = IF Asks("STORE") THEN ~LsuAccept(accept) ELSE store_q

Hold(accept) ==
    /\ read_hold_q' = (~accept /\ (Out \/ read_hold_q))
    /\ src_mmu_q' = (read_hold_q' /\ SrcMmu)

Faults ==
    /\ load_fault_q' = LoadFault /\ store_fault_q' = StoreFault

(***************************************************************************)
(* The fetch unit asks (rd) when riscv_issue lets it, keeps its address    *)
(* until that is accepted, and goes on at the next one or where a branch   *)
(* leads, here to any address.                                             *)
(***************************************************************************)
NoBranch == 4
FetchUnit(rd, iaccept) ==
    LET takes == rd /\ FetchAccept(rd, iaccept)
    IN  /\ IF takes THEN pc_f_q' \in FetchAddr ELSE UNCHANGED pc_f_q
        /\ priv_f_q' = IF takes /\ branch_q # NoBranch THEN branch_q ELSE priv_f_q
        /\ branch_q' = IF csr = "BRANCH" THEN priv
                       ELSE IF takes THEN NoBranch ELSE branch_q

(***************************************************************************)
(* The port behind, like Port of RiscvLsu.  It answers without errors: to  *)
(* a load or store they pass unchanged.                                    *)
(***************************************************************************)
Port(accept) ==
    LET left == IF port_ack = "NONE" THEN port ELSE Tail(port)
    IN  /\ port' = IF accept THEN Append(left, Request) ELSE left
        /\ port_ack' \in IF port' = <<>> THEN {"NONE"} ELSE {"NONE", "OK"}

History(accept) ==
    LET left == IF LsuAck = "NONE" THEN owed ELSE Tail(owed)
    IN  /\ owed' = IF Lsu!Requesting /\ LsuAccept(accept) THEN Append(left, mem_q) ELSE left
        /\ flushed' = IF Flush THEN Now ELSE flushed

Clock(decoded, rd, iaccept, accept) ==
    /\ Lsu!RequestRegister(decoded, LsuAccept(accept))
    /\ Lsu!Tracking(LsuAccept(accept))
    /\ Lsu!Fifo(LsuAccept(accept))
    /\ FetchUnit(rd, iaccept)
    /\ Walker(rd) /\ Itlb /\ Dtlb
    /\ WalkRequest(rd, accept) /\ Waiting(accept) /\ Hold(accept) /\ Faults
    /\ Port(accept)
    /\ History(accept)

-----------------------------------------------------------------------------
(***************************************************************************)
(* What the core does besides fetching.  A CSR instruction (sfence.vma or  *)
(* a write of satp) waits for the load/store unit, and nothing is issued   *)
(* behind it until it has branched to its successor.  The fetch unit asks  *)
(* for its successor when it is issued, not before (without                *)
(* EXTRA_DECODE_STAGE): no walk for a fetch has begun yet.  Both flush in  *)
(* E1; satp is written in WB.                                              *)
(***************************************************************************)
Issue(accept) ==
    /\ csr = "NONE" /\ ~Lsu!Stall(LsuAccept(accept))
    /\ UNCHANGED <<priv, csr, satp, tables>>

IssueCsr(accept) ==
    /\ csr = "NONE" /\ ~Lsu!Stall(LsuAccept(accept))
    /\ mem_q.op \notin Lsu!Aligned \cup Lsu!Misaligned
    /\ state_q = "IDLE"
    /\ csr' = "E1"
    /\ UNCHANGED <<priv, satp, tables>>

Proceed ==
    /\ csr' = CASE csr = "E1" -> "E2" [] csr = "E2" -> "WB"
                [] csr = "WB" -> "BRANCH" [] OTHER -> "NONE"
    /\ IF csr = "WB" THEN satp' \in Roots ELSE UNCHANGED satp
    /\ UNCHANGED <<priv, tables>>

\* An exception, an interrupt or a return reaches WB; nothing is in flight
\* behind it (TrapsDrain of RiscvPipe).
SwitchPriv ==
    /\ csr = "NONE" /\ mem_q = Lsu!Nothing /\ owed = <<>>
    /\ priv' \in Privs \ {priv}
    /\ csr' = "BRANCH"
    /\ UNCHANGED <<satp, tables>>

\* One entry of the tables is written, once between two flushes and not
\* between a switch of satp and the next flush.
Remap ==
    /\ csr = "NONE" /\ flushed = Now
    /\ \E t \in Tables \ {tables}, a \in DOMAIN tables :
          t = [tables EXCEPT ![a] = t[a]] /\ tables' = t
    /\ UNCHANGED <<priv, csr, satp>>

Init ==
    /\ mem_q = Lsu!Nothing
    /\ pending_lsu_e2_q = FALSE /\ mem_unaligned_e2_q = FALSE /\ fifo = <<>>
    /\ pc_f_q \in FetchAddr /\ priv_f_q = Sim!MACHINE /\ branch_q = NoBranch
    /\ priv = Sim!MACHINE /\ csr = "NONE"
    /\ load_q = FALSE /\ store_q = FALSE
    /\ state_q = "IDLE" /\ dtlb_req_q = FALSE
    /\ pte_addr_q = 0 /\ pte_entry_q = Sim!NoPte /\ virt_addr_q = 0
    /\ itlb = [valid |-> FALSE, page |-> 0, entry |-> Sim!NoPte]
    /\ dtlb = itlb
    /\ load_fault_q = FALSE /\ store_fault_q = FALSE
    /\ mem_req_q = FALSE /\ read_hold_q = FALSE /\ src_mmu_q = FALSE
    /\ port = <<>> /\ port_ack = "NONE"
    /\ satp \in Roots /\ tables \in Tables /\ flushed = Now
    /\ owed = <<>>

Step(rd, iaccept, accept) ==
    \/ \E op \in Ops, addr \in DataAddr :
          /\ Issue(accept)
          /\ Clock([op |-> op, addr |-> addr, data |-> 0], rd, iaccept, accept)
    \/ /\ IssueCsr(accept) \/ Proceed \/ SwitchPriv \/ Remap
       /\ Clock(Lsu!Nothing, rd, iaccept, accept)

Next ==
    \E rd \in BOOLEAN, accept \in IF Out THEN BOOLEAN ELSE {FALSE} :
        \E iaccept \in IF FetchOut(rd) THEN BOOLEAN ELSE {FALSE} :
            Step(rd, iaccept, accept)

Spec == Init /\ [][Next]_vars

-----------------------------------------------------------------------------
(***************************************************************************)
(* What the simulator's translation says with satp and the tables as in v. *)
(* It ends the program where the core faults: at a page of the user, used  *)
(* by the supervisor.                                                      *)
(***************************************************************************)
Msr       == IF Sum THEN {Sim!SR_SUM} ELSE {}
Wanted    == IF mem_q.op = "STORE" THEN "W" ELSE "R"

Grants(found, a) == found = [res |-> "ok", pa |-> a]
Refuses(found)   == found.res # "ok"

DataSays(v)  == Sim!mmu_d_translate(Memory(v.tables), v.satp, priv, Msr, mem_q.addr, Wanted)
FetchSays(v) == Sim!mmu_i_translate(Memory(v.tables), v.satp, priv_f_q, pc_f_q)

Views     == {flushed, Now}
DataViews == IF flushed.satp = satp THEN Views ELSE {Now}

DataTranslated ==
    /\ ~SrcMmu /\ CpuOut => \E v \in DataViews : Grants(DataSays(v), CpuAddr)
    /\ LoadFault \/ StoreFault => \E v \in DataViews : Refuses(DataSays(v))
    /\ load_q => mem_q.op = "LOAD"
    /\ store_q => mem_q.op = "STORE"

FetchTranslated ==
    VmI /\ Matches(itlb, pc_f_q) =>
        \E v \in Views :
            IF PcFault(TRUE) THEN Refuses(FetchSays(v)) ELSE Grants(FetchSays(v), FetchPc)

(***************************************************************************)
(* A load, a store or a fetch goes where the simulator's translation sends *)
(* it (mmu_d_translate, mmu_i_translate), and faults where that refuses    *)
(* it, by the tables as they are or, if they have been written since the   *)
(* last flush, as they were at the flush: whatever the other side, the     *)
(* walker and the port do, no entry outlives a flush, and none is put      *)
(* together from two addresses.  Behind a write of satp, which comes two   *)
(* cycles after its flush, loads and stores go by the new root alone; a    *)
(* fetch may still go by the old one, if its walk began in between.        *)
(***************************************************************************)
Translated == DataTranslated /\ FetchTranslated

(***************************************************************************)
(* With the walker in between the port is still the port the load/store    *)
(* unit assumes: the composition is a behaviour of RiscvLsu.               *)
(***************************************************************************)
ImplementsLsuPort == Lsu!Spec
=============================================================================

------------------------------ MODULE RiscvTcm ------------------------------
(***************************************************************************)
(* The data port of the core with tightly coupled memory: the load/store   *)
(* unit (RiscvLsu) asks through dport_mux.v, which sends each request to   *)
(* the memory (TcmMem) or to the AXI bridge (DportAxi) by its address.     *)
(* RiscvPipe and RiscvLsu are checked against a port that is assumed; this *)
(* module shows that the real one is such a port.                          *)
(*                                                                         *)
(* The window of telemetry counters, added to dport_mux.v in               *)
(* top_tcm_axi/src_v, is the set TelemAddr; the mux of top_tcm_wrapper has *)
(* none.                                                                   *)
(***************************************************************************)
EXTENDS Integers, Sequences

CONSTANTS
    TcmAddr,     \* addresses of the memory the core uses,
    HostAddr,    \* and those the host uses
    ExtAddr,     \* addresses behind the AXI bridge
    TelemAddr,   \* the telemetry window
    Words,
    Ops          \* the operations the core executes

VARIABLES
    mem_q, pending_lsu_e2_q, mem_unaligned_e2_q, fifo,
    tcm_access_q,   \* the last request went to the memory
    pending_q,      \* how many answers are owed
    ram, data_r, mem_d_accept_q, mem_d_ack_q, ext_ack_q,
    host,           \* the request of the host in this cycle; see TcmPmem
    req, tags, request_pending_q, awvalid_inhibit_q, wvalid_inhibit_q,
    axi, aw, w, ar, axi_mem,
    idle_addr,      \* mem_addr_q while no operation is in E1
    settles,        \* where the combinational loop described below settles
    outst,          \* history: requests accepted, not yet answered
    mem,            \* history: memory as the answers have left it
    host_mem        \* history: the host's part of it

lsuVars    == <<mem_q, pending_lsu_e2_q, mem_unaligned_e2_q, fifo>>
muxVars    == <<tcm_access_q, pending_q>>
tcmVars    == <<ram, data_r, mem_d_accept_q, mem_d_ack_q, ext_ack_q, host>>
CoreAddr == TcmAddr \cup ExtAddr \cup TelemAddr
Values   == CoreAddr \cup Words

\* An idle address matters only when it is in the window: one other is enough.
IdleAddr == TelemAddr \cup {CHOOSE a \in TcmAddr : TRUE}

ASSUME TcmAssumption ==
    /\ 0 \in Words /\ TcmAddr # {} /\ ExtAddr # {}
    /\ TcmAddr \cap ExtAddr = {} /\ HostAddr \cap CoreAddr = {}
    /\ TelemAddr \cap (TcmAddr \cup ExtAddr) = {}

Tcm == INSTANCE TcmMem
Axi == INSTANCE DportAxi WITH Addr <- ExtAddr

vars == <<lsuVars, muxVars, tcmVars, Axi!bridgeVars, idle_addr, settles,
          outst, mem, host_mem>>

HostRequests == [op : {"LOAD"}, addr : HostAddr]
                  \cup [op : {"STORE"}, addr : HostAddr, data : Words]

-----------------------------------------------------------------------------
(***************************************************************************)
(* dport_mux.  hold_w keeps a request back while answers are owed by the   *)
(* other side.  An address in the telemetry window is accepted at once,    *)
(* and decides what the core sees as the answer even without a request.    *)
(*                                                                         *)
(* mem_addr_q follows the operands of whatever instruction is at issue, so *)
(* an address is there also when no operation is.                          *)
(***************************************************************************)
MemAddr   == IF mem_q.op = "NONE" THEN idle_addr ELSE mem_q.addr
TcmAccess == MemAddr \in TcmAddr
TelemHit  == MemAddr \in TelemAddr

Hold == pending_q # 0 /\ tcm_access_q # TcmAccess

AckBus == IF tcm_access_q THEN IF mem_d_ack_q THEN "OK" ELSE "NONE"
          ELSE Axi!MemAck

\* In the window mem_ack_o is mem_rd_o or mem_wr_o, which riscv_lsu masks
\* while an answer is late, that is, without mem_ack_i: with an answer owed the
\* wires form a loop that is stable at either value.
MemAck ==
    IF ~TelemHit THEN AckBus
    ELSE IF /\ mem_q.op \in {"LOAD", "STORE"}
            /\ pending_lsu_e2_q => settles
         THEN "OK" ELSE "NONE"

\* Seeded fault: the word is selected by the request of this cycle.
MemData_Now == IF TcmAccess THEN data_r ELSE Axi!MemData
MemData == IF tcm_access_q THEN data_r ELSE Axi!MemData

MemAccept ==
    \/ TelemHit
    \/ ~Hold /\ IF TcmAccess THEN Tcm!MemAccept ELSE Axi!MemAccept

Lsu == INSTANCE RiscvLsu WITH mem_ack <- MemAck

ASSUME OpsAssumption == Ops \subseteq Lsu!LsuOps

ToTcm == IF Lsu!Requesting /\ TcmAccess /\ ~Hold THEN mem_q ELSE Lsu!Nothing

\* The bridge has no use for the cache operations it accepts.
ToExt == IF Lsu!Requesting /\ mem_q.op \in Lsu!Aligned /\ MemAddr \in ExtAddr /\ ~Hold
         THEN <<[load |-> mem_q.op = "LOAD", addr |-> mem_q.addr,
                 data |-> mem_q.data]>>
         ELSE <<>>

-----------------------------------------------------------------------------
Init ==
    /\ mem_q = Lsu!Nothing
    /\ pending_lsu_e2_q = FALSE /\ mem_unaligned_e2_q = FALSE /\ fifo = <<>>
    /\ tcm_access_q = FALSE /\ pending_q = 0
    /\ Tcm!Init([TcmAddr \cup HostAddr -> Words]) /\ host = Tcm!NoRequest
    /\ Axi!BridgeInit /\ Axi!SlaveInit
    /\ idle_addr \in IdleAddr /\ settles = FALSE
    /\ outst = <<>>
    /\ mem = [v \in Values |-> IF v \in TcmAddr THEN ram[v]
                               ELSE IF v \in ExtAddr THEN axi_mem[v]
                               ELSE CHOOSE d \in Words : TRUE]
    /\ host_mem = [a \in HostAddr |-> ram[a]]

\* Seeded fault: an answer in the cycle of a request is not counted.
Mux_RequestFirst ==
    LET issued == Lsu!Requesting /\ MemAccept
    IN  /\ pending_q' = IF issued THEN (pending_q + 1) % 32
                        ELSE IF MemAck # "NONE" THEN (pending_q + 31) % 32
                        ELSE pending_q
        /\ tcm_access_q' = IF issued THEN TcmAccess ELSE tcm_access_q

Mux ==
    LET issued == Lsu!Requesting /\ MemAccept
    IN  /\ pending_q' = IF issued /\ MemAck = "NONE" THEN (pending_q + 1) % 32
                        ELSE IF ~issued /\ MemAck # "NONE" THEN (pending_q + 31) % 32
                        ELSE pending_q
        /\ tcm_access_q' = IF issued THEN TcmAccess ELSE tcm_access_q

History ==
    LET answered == MemAck # "NONE" /\ outst # <<>>
        left     == IF answered THEN Tail(outst) ELSE outst
    IN  /\ outst' = IF Lsu!Requesting /\ MemAccept THEN Append(left, mem_q) ELSE left
        /\ mem' = IF answered /\ MemAck = "OK" /\ Head(outst).op = "STORE"
                  THEN [mem EXCEPT ![Head(outst).addr] = Head(outst).data]
                  ELSE mem
        /\ host_mem' = IF host.op = "STORE" /\ Tcm!ExtAccept
                       THEN [host_mem EXCEPT ![host.addr] = host.data]
                       ELSE host_mem

\* A request of the host is held until it is accepted.
Host == host' \in IF host.op # "NONE" /\ ~Tcm!ExtAccept THEN {host}
                  ELSE HostRequests \cup {Tcm!NoRequest}

Clock(decoded) ==
    /\ Lsu!RequestRegister(decoded, MemAccept)
    /\ Lsu!Tracking(MemAccept)
    /\ Lsu!Fifo(MemAccept)
    /\ Mux
    /\ Tcm!Edge(ToTcm, host) /\ Host
    /\ Axi!BridgeEdge(ToExt) /\ Axi!SlaveEdge
    /\ idle_addr' \in IdleAddr
    /\ settles' \in IF TelemAddr = {} THEN {FALSE} ELSE BOOLEAN
    /\ History

\* As in RiscvLsu.  A cache operation is aimed at the memory: the bridge would
\* accept it and never answer.
Issue(op, addr, data) ==
    /\ ~Lsu!Stall(MemAccept)
    /\ op \in Lsu!CacheOps =>
         addr \in TcmAddr /\ mem_q.op \notin Lsu!Aligned \cup Lsu!Misaligned
    /\ Clock([op |-> op, addr |-> addr, data |-> data])

Wait == Clock(Lsu!Nothing)

\* Only a store carries data.
IssueOperation ==
    \E op \in Ops, addr \in CoreAddr :
        \E data \in IF op = "STORE" THEN Words ELSE {Lsu!Nothing.data} :
            Issue(op, addr, data)

Next == Wait \/ IssueOperation

Spec == Init /\ [][Next]_vars

\* The clock ticks, but while the core waits, a tick that changes something only
\* by a request of the host is not counted on.  The slave on the bus is fair as
\* in DportAxi, and the host pauses again and again: it moves programs in
\* bursts, not without end.
Tick == IssueOperation \/ (Wait /\ host' = Tcm!NoRequest)

FairSpec == /\ Spec /\ WF_vars(Tick)
            /\ Axi!SlaveFair /\ []<>(host = Tcm!NoRequest)

-----------------------------------------------------------------------------
(***************************************************************************)
(* The mux counts exactly the answers the core waits for, and they all     *)
(* come from the side it has selected: the other side owes none, so no     *)
(* answer is ever lost or taken for another.                               *)
(***************************************************************************)
OneSideOwes ==
    /\ pending_q = Len(outst)
    /\ mem_d_ack_q \/ tags # 0 => pending_q # 0
    /\ mem_d_ack_q => tcm_access_q /\ tags = 0
    /\ tags # 0 => ~tcm_access_q

(***************************************************************************)
(* Core and host read the word stored last, though they share a port and   *)
(* though stores to the memory are performed a cycle before, those behind  *)
(* the bridge any time before their answer.                                *)
(***************************************************************************)
ReadsLastStore ==
    /\ MemAck = "OK" /\ outst # <<>> /\ Head(outst).op = "LOAD" =>
         MemData = mem[Head(outst).addr]
    /\ \A a \in HostAddr : ram[a] = host_mem[a]

(***************************************************************************)
(* What stands behind the port, the memory, the bridge with its slave and  *)
(* the mux between them, is one memory: every request is answered once, in *)
(* the order in which they were accepted, a load with the word the stores  *)
(* answered before it have left.                                           *)
(***************************************************************************)
Port == INSTANCE MemPort WITH
            Memory <- CoreAddr,
            Requests <- [op : Lsu!Aligned \cup Lsu!CacheOps, addr : CoreAddr,
                         data : Words],
            Alone <- Lsu!CacheOps,
            word <- [a \in CoreAddr |-> mem[a]],
            ack <- MemAck, data <- MemData
ImplementsMemPort == Port!Spec

(***************************************************************************)
(* The bridge keeps the slave to one transaction, whichever half of a      *)
(* write it took first, and never takes back an offer.                     *)
(***************************************************************************)
AxiRules == Axi!AxiRules

(***************************************************************************)
(* Whatever the unit has in E1, it gets an answer again: neither the turns *)
(* of the host, nor the two channels a store takes through the bridge, nor *)
(* a switch from one memory to the other leave the core waiting.           *)
(***************************************************************************)
Served == mem_q.op # "NONE" ~> Lsu!WritebackValid
=============================================================================

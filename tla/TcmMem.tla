------------------------------- MODULE TcmMem -------------------------------
(***************************************************************************)
(* The data side of the tightly coupled memory, tcm_mem.v with             *)
(* tcm_mem_ram.v: one port of the RAM is shared by the core and the host,  *)
(* which loads programs through the AXI slave.  A host request turns the   *)
(* core away in the next cycle and is served then.                         *)
(*                                                                         *)
(* Every step is one rising clock edge.  "core" is the request dport_mux   *)
(* passes on in the current cycle, "host" the one the AXI converter        *)
(* (TcmPmem) makes, each with op "NONE" if there is none.                  *)
(***************************************************************************)
CONSTANT Words

VARIABLES
    ram,              \* tcm_mem_ram
    data_r,           \* ram_read1_q: what the shared port read
    mem_d_accept_q,   \* the core may use the port in this cycle
    mem_d_ack_q,      \* the answer to the core
    ext_ack_q         \* the answer to the host

NoRequest == [op |-> "NONE"]

MemAccept == mem_d_accept_q
ExtAccept == ~mem_d_accept_q

Init(contents) ==
    /\ ram \in contents
    /\ data_r = CHOOSE d \in Words : TRUE
    /\ mem_d_accept_q = TRUE
    /\ mem_d_ack_q = FALSE
    /\ ext_ack_q = FALSE

\* Seeded fault: the port follows the core whenever the core asks.
PortUser_CoreFirst(core, host) ==
    IF core.op # "NONE" THEN core ELSE IF ExtAccept THEN host ELSE core

\* Who the shared port serves in this cycle.
PortUser(core, host) == IF ExtAccept THEN host ELSE core

\* What the port reads when nobody loads is taken by nobody.
RamPort(core, host) ==
    LET user == PortUser(core, host)
    IN  /\ ram' = IF user.op = "STORE" THEN [ram EXCEPT ![user.addr] = user.data]
                  ELSE ram
        /\ data_r' = IF user.op = "LOAD" THEN ram[user.addr]
                     ELSE CHOOSE d \in Words : TRUE

Acknowledge(core, host) ==
    /\ mem_d_ack_q' = (core.op # "NONE" /\ MemAccept)
    /\ ext_ack_q' = (host.op # "NONE" /\ ExtAccept)

Turn(host) == mem_d_accept_q' = (host.op = "NONE")

Edge(core, host) ==
    RamPort(core, host) /\ Acknowledge(core, host) /\ Turn(host)
=============================================================================

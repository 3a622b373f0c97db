------------------------------ MODULE DportAxi ------------------------------
(***************************************************************************)
(* The bridge from the data port to AXI4-Lite, dport_axi.v, and the slave  *)
(* behind it.  Accepted requests wait in a two-entry fifo; the oldest is   *)
(* put on the bus when no answer is owed, or in the cycle in which the     *)
(* answer comes.  Address and data of a write may be taken in different    *)
(* cycles; the inhibit registers remember which one has been.              *)
(*                                                                         *)
(* Every step is one rising clock edge.  "axi" holds the wires the slave   *)
(* drives in the current cycle.                                            *)
(***************************************************************************)
EXTENDS Integers, Sequences

CONSTANTS Addr, Words

VARIABLES
    req,                 \* u_req: requests not yet handed to the bus
    tags,                \* u_resp: how many answers are owed to the port
    request_pending_q,   \* the bus owes an answer
    awvalid_inhibit_q,   \* the address of the write has been taken
    wvalid_inhibit_q,    \* the data of the write have been taken
    axi,                 \* the slave: its ready and response wires
    aw, w, ar,           \* the slave: addresses and data it has taken
    axi_mem              \* the slave: memory

FifoDepth == 2
Answers   == {"NONE", "OK", "ERROR"}
Silent    == [awready |-> FALSE, wready |-> FALSE, arready |-> FALSE,
              b |-> "NONE", r |-> "NONE"]

-----------------------------------------------------------------------------
(***************************************************************************)
(* Wires                                                                   *)
(***************************************************************************)
MemAccept == Len(req) # FifoDepth /\ tags # FifoDepth

MemAck == IF axi.b # "NONE" THEN axi.b ELSE axi.r

\* axi_rdata_i; the slave may drive anything when it answers no read.
MemData == IF axi.r # "NONE" THEN axi_mem[Head(ar)] ELSE CHOOSE d \in Words : TRUE

InProgress == request_pending_q /\ MemAck = "NONE"

Offered == req # <<>> /\ ~InProgress
IsRead  == Offered /\ Head(req).load
IsWrite == Offered /\ ~Head(req).load

\* Seeded fault: the address is offered again while the data wait.
AwValid_Again == IsWrite
AwValid == IsWrite /\ ~awvalid_inhibit_q
WValid  == IsWrite /\ ~wvalid_inhibit_q
ArValid == IsRead

WriteComplete ==
    /\ IsWrite
    /\ awvalid_inhibit_q \/ axi.awready
    /\ wvalid_inhibit_q \/ axi.wready
ReadComplete == ArValid /\ axi.arready

-----------------------------------------------------------------------------
(***************************************************************************)
(* Registers                                                               *)
(***************************************************************************)
BridgeInit ==
    /\ req = <<>> /\ tags = 0
    /\ request_pending_q = FALSE
    /\ awvalid_inhibit_q = FALSE /\ wvalid_inhibit_q = FALSE

\* "new" is the request the port makes in this cycle, if any.
Fifos(new) ==
    LET kept == IF ReadComplete \/ WriteComplete THEN Tail(req) ELSE req
        push == IF MemAccept THEN new ELSE <<>>
    IN  /\ req' = kept \o push
        /\ tags' = tags + Len(push)
                        - IF MemAck # "NONE" /\ tags > 0 THEN 1 ELSE 0

\* Seeded fault: the register is left set when the data follow.
Inhibit_Sticks ==
    /\ awvalid_inhibit_q' =
         IF AwValid /\ axi.awready /\ WValid /\ ~axi.wready THEN TRUE
         ELSE awvalid_inhibit_q
    /\ wvalid_inhibit_q' =
         IF WValid /\ axi.wready /\ AwValid /\ ~axi.awready THEN TRUE
         ELSE IF AwValid /\ axi.awready THEN FALSE
         ELSE wvalid_inhibit_q

Inhibit ==
    /\ awvalid_inhibit_q' =
         IF AwValid /\ axi.awready /\ WValid /\ ~axi.wready THEN TRUE
         ELSE IF WValid /\ axi.wready THEN FALSE
         ELSE awvalid_inhibit_q
    /\ wvalid_inhibit_q' =
         IF WValid /\ axi.wready /\ AwValid /\ ~axi.awready THEN TRUE
         ELSE IF AwValid /\ axi.awready THEN FALSE
         ELSE wvalid_inhibit_q

Pending ==
    request_pending_q' = (\/ WriteComplete \/ ReadComplete
                          \/ request_pending_q /\ MemAck = "NONE")

BridgeEdge(new) == Fifos(new) /\ Inhibit /\ Pending

(***************************************************************************)
(* The slave takes what it finds offered when it is ready and answers what *)
(* it has taken completely; a write is performed when it is answered.      *)
(***************************************************************************)
SlaveInit ==
    /\ axi = Silent
    /\ aw = <<>> /\ w = <<>> /\ ar = <<>>
    /\ axi_mem \in [Addr -> Words]

Take(queue, answered, valid, ready, item) ==
    (IF answered THEN Tail(queue) ELSE queue)
      \o (IF valid /\ ready THEN <<item>> ELSE <<>>)

SlaveEdge ==
    /\ aw' = Take(aw, axi.b # "NONE", AwValid, axi.awready, Head(req).addr)
    /\ w'  = Take(w,  axi.b # "NONE", WValid,  axi.wready,  Head(req).data)
    /\ ar' = Take(ar, axi.r # "NONE", ArValid, axi.arready, Head(req).addr)
    /\ axi_mem' = IF axi.b = "OK" THEN [axi_mem EXCEPT ![Head(aw)] = Head(w)]
                  ELSE axi_mem
    /\ \E awready, wready, arready \in BOOLEAN,
          b \in IF aw' = <<>> \/ w' = <<>> THEN {"NONE"} ELSE Answers,
          r \in IF ar' = <<>> THEN {"NONE"} ELSE Answers :
          axi' = [awready |-> awready, wready |-> wready, arready |-> arready,
                  b |-> b, r |-> r]
    /\ axi'.awready => AwValid'
    /\ axi'.wready  => WValid'
    /\ axi'.arready => ArValid'

\* The slave takes in the end what is offered, and answers in the end what it
\* has taken.
SlaveFair ==
    /\ []<>(AwValid => axi.awready)
    /\ []<>(WValid => axi.wready)
    /\ []<>(ArValid => axi.arready)
    /\ []<>((aw # <<>> /\ w # <<>>) \/ ar # <<>> => axi.b # "NONE" \/ axi.r # "NONE")

bridgeVars == <<req, tags, request_pending_q, awvalid_inhibit_q,
                wvalid_inhibit_q, axi, aw, w, ar, axi_mem>>

-----------------------------------------------------------------------------
(***************************************************************************)
(* The slave never holds more than one transaction, whichever half of a    *)
(* write it took first ("Allows 1 outstanding transaction"), and what is   *)
(* offered on a channel and not taken is offered unchanged in the next     *)
(* cycle, as AXI requires, even when the fifo fills behind it or the other *)
(* half of the write is taken.                                             *)
(***************************************************************************)
OneOutstanding == Len(aw) + Len(ar) <= 1 /\ Len(w) + Len(ar) <= 1

AxiRules ==
    [][/\ OneOutstanding'
       /\ AwValid /\ ~axi.awready => AwValid' /\ Head(req') = Head(req)
       /\ WValid  /\ ~axi.wready  => WValid'  /\ Head(req') = Head(req)
       /\ ArValid /\ ~axi.arready => ArValid' /\ Head(req') = Head(req)]_bridgeVars
=============================================================================

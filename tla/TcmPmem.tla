------------------------------- MODULE TcmPmem ------------------------------
(***************************************************************************)
(* The AXI slave through which the host loads programs, tcm_mem_pmem.v,    *)
(* on the tightly coupled memory (TcmMem).  Bursts are split into single   *)
(* accesses; read and write commands compete for the RAM; a fifo of        *)
(* requests remembers what each answer of the RAM is for, and a fifo of    *)
(* responses holds the words until the host takes them.                    *)
(*                                                                         *)
(* Every step is one rising clock edge.  The host's wires in the current   *)
(* cycle are variables.  A store carries a word that belongs to one        *)
(* address: address a holds the word a before it is written and            *)
(* a + NumAddrs afterwards.                                                *)
(***************************************************************************)
EXTENDS Integers, Sequences

CONSTANTS
    NumAddrs,   \* words of memory the host uses
    Commands    \* the commands it gives

VARIABLES
    burst,           \* req_rd_q, req_wr_q, req_len_q, req_addr_q, req_id_q
    req_prio_q,      \* which kind of command goes first
    req_hold_rd_q,   \* a read access has been refused
    req_hold_wr_q,   \* a write access has been refused
    requests,        \* u_requests
    response,        \* u_response
    ram, data_r, mem_d_accept_q, mem_d_ack_q, ext_ack_q,
    ar, aw,          \* the host: the commands it offers
    wleft,           \* the host: addresses of the words it has yet to send
    wvalid,          \* the host: it offers the first of them
    rready, bready,  \* the host: it takes a response
    owed             \* history: the responses it has yet to get

converterVars == <<burst, req_prio_q, req_hold_rd_q, req_hold_wr_q, requests,
                   response>>
tcmVars  == <<ram, data_r, mem_d_accept_q, mem_d_ack_q, ext_ack_q>>
hostVars == <<ar, aw, wleft, wvalid, rready, bready, owed>>
vars     == <<converterVars, tcmVars, hostVars>>

Addrs     == 0 .. (NumAddrs - 1)
FifoDepth == 4
NoCommand == [len |-> -1]
Ids       == {c.id : c \in Commands}

ASSUME PmemAssumption ==
    /\ NumAddrs \in 1 .. 256 /\ Commands # {}
    /\ \A c \in Commands : c.addr \in Addrs /\ c.len \in Addrs /\ c.addr + c.len \in Addrs

Tcm == INSTANCE TcmMem WITH Words <- 0 .. (2 * NumAddrs - 1)

-----------------------------------------------------------------------------
(***************************************************************************)
(* Wires                                                                   *)
(***************************************************************************)
ArValid   == ar # NoCommand
AwValid   == aw # NoCommand
RamAccept == Tcm!ExtAccept

\* Seeded fault: the fifo is taken to have room always.
FifoAccept_Always == TRUE
FifoAccept == Len(requests) # FifoDepth

\* The kinds take turns, but an access that has been refused goes first.
\* Seeded fault: the turn alone decides.
ReadPrio_NoHold == ~req_prio_q
ReadPrio  == (~req_prio_q /\ ~req_hold_wr_q) \/ req_hold_rd_q
WritePrio == (req_prio_q /\ ~req_hold_rd_q) \/ req_hold_wr_q

WriteActive == /\ AwValid \/ burst.wr
               /\ ~burst.rd /\ FifoAccept
               /\ WritePrio \/ burst.wr \/ ~ArValid
ReadActive  == /\ ArValid \/ burst.rd
               /\ ~burst.wr /\ FifoAccept
               /\ ReadPrio \/ burst.rd \/ ~AwValid

AwTaken == AwValid /\ WriteActive /\ ~burst.wr /\ RamAccept
WTaken  == wvalid /\ WriteActive /\ RamAccept
ArTaken == ArValid /\ ReadActive /\ ~burst.rd /\ RamAccept

RamAddr == IF burst.wr \/ burst.rd THEN burst.addr
           ELSE IF WriteActive THEN aw.addr ELSE ar.addr

RamRequest ==
    IF ReadActive THEN [op |-> "LOAD", addr |-> RamAddr]
    ELSE IF WriteActive /\ wvalid
         THEN [op |-> "STORE", addr |-> RamAddr, data |-> Head(wleft) + NumAddrs]
         ELSE Tcm!NoRequest

Served == RamRequest.op # "NONE" /\ RamAccept

\* Seeded fault: the last access of a burst is marked one access early.
Entry_Early ==
    IF ArTaken THEN [read |-> TRUE, last |-> ar.len = 0, id |-> ar.id]
    ELSE IF AwTaken THEN [read |-> FALSE, last |-> aw.len = 0, id |-> aw.id]
    ELSE [read |-> ReadActive, last |-> burst.len <= 1, id |-> burst.id]

Entry ==
    IF ArTaken THEN [read |-> TRUE, last |-> ar.len = 0, id |-> ar.id]
    ELSE IF AwTaken THEN [read |-> FALSE, last |-> aw.len = 0, id |-> aw.id]
    ELSE [read |-> ReadActive, last |-> burst.len = 0, id |-> burst.id]

Responding == requests # <<>> /\ response # <<>>
RValid == Responding /\ Head(requests).read
BValid == Responding /\ ~Head(requests).read /\ Head(requests).last

Taken == (RValid /\ rready) \/ (BValid /\ bready)

\* The answers to a write's words are dropped, except to the last.
Pop   == Taken \/ (Responding /\ ~Head(requests).read /\ ~Head(requests).last)

-----------------------------------------------------------------------------
(***************************************************************************)
(* The converter                                                           *)
(***************************************************************************)
Continued ==
    IF ~Served THEN burst
    ELSE IF burst.len = 0 THEN [burst EXCEPT !.rd = FALSE, !.wr = FALSE]
    ELSE [burst EXCEPT !.addr = @ + 1, !.len = @ - 1]

\* Seeded fault: a write whose first word comes with the command stays at the
\* first address.
Burst_SameAddress ==
    burst' = IF AwTaken
             THEN [Continued EXCEPT !.wr = ~WTaken \/ Len(wleft) > 1,
                       !.len = IF WTaken THEN (aw.len + 255) % 256 ELSE aw.len,
                       !.addr = aw.addr, !.id = aw.id]
             ELSE IF ArTaken
             THEN [Continued EXCEPT !.rd = ar.len # 0, !.len = (ar.len + 255) % 256,
                       !.addr = ar.addr + 1, !.id = ar.id]
             ELSE Continued

Burst ==
    burst' = IF AwTaken
             THEN [Continued EXCEPT !.wr = ~WTaken \/ Len(wleft) > 1,
                       !.len = IF WTaken THEN (aw.len + 255) % 256 ELSE aw.len,
                       !.addr = IF WTaken THEN aw.addr + 1 ELSE aw.addr,
                       !.id = aw.id]
             ELSE IF ArTaken
             THEN [Continued EXCEPT !.rd = ar.len # 0, !.len = (ar.len + 255) % 256,
                       !.addr = ar.addr + 1, !.id = ar.id]
             ELSE Continued

\* Seeded fault: reads always go first.
Priority_Fixed == req_prio_q' = req_prio_q
Priority == req_prio_q' = IF AwTaken \/ ArTaken THEN ~req_prio_q ELSE req_prio_q

Holds ==
    /\ req_hold_rd_q' = (~RamAccept /\ (RamRequest.op = "LOAD" \/ req_hold_rd_q))
    /\ req_hold_wr_q' = (~RamAccept /\ (RamRequest.op = "STORE" \/ req_hold_wr_q))

\* A push on a full fifo is dropped; accept_o of u_response is not connected.
Queue(fifo, push, item) ==
    (IF Pop THEN Tail(fifo) ELSE fifo)
      \o (IF push /\ Len(fifo) # FifoDepth THEN <<item>> ELSE <<>>)

Fifos ==
    /\ requests' = Queue(requests, Served, Entry)
    /\ response' = Queue(response, ext_ack_q, data_r)

-----------------------------------------------------------------------------
(***************************************************************************)
(* The host.  What it offers it offers until it is taken.  It sends the    *)
(* words of a write with or after the command, and starts the next write   *)
(* when all are sent.  Every strobe of a word it sends is set.             *)
(***************************************************************************)
Beats(c) == [n \in 1 .. (c.len + 1) |->
               [read |-> TRUE, last |-> n = c.len + 1, id |-> c.id,
                addr |-> c.addr + n - 1]]

Host ==
    /\ ar' \in IF ArValid /\ ~ArTaken THEN {ar} ELSE Commands \cup {NoCommand}
    /\ LET left == IF WTaken THEN Tail(wleft) ELSE wleft
       IN  \/ /\ aw' = IF AwTaken THEN NoCommand ELSE aw
              /\ wleft' = left
           \/ /\ left = <<>> /\ (AwValid => AwTaken)
              /\ \E c \in Commands :
                    /\ aw' = c
                    /\ wleft' = [n \in 1 .. (c.len + 1) |-> c.addr + n - 1]
    /\ wvalid' \in IF wleft' = <<>> THEN {FALSE}
                   ELSE IF wvalid /\ ~WTaken THEN {TRUE} ELSE BOOLEAN
    /\ rready' \in BOOLEAN /\ bready' = rready'
    /\ owed' = (IF Taken THEN Tail(owed) ELSE owed)
                 \o (IF ArTaken THEN Beats(ar) ELSE <<>>)
                 \o (IF AwTaken THEN <<[read |-> FALSE, last |-> TRUE, id |-> aw.id,
                                        addr |-> aw.addr, len |-> aw.len]>>
                     ELSE <<>>)

Init ==
    /\ burst = [rd |-> FALSE, wr |-> FALSE, len |-> 0, addr |-> 0,
                id |-> CHOOSE i \in Ids : TRUE]
    /\ req_prio_q = FALSE /\ req_hold_rd_q = FALSE /\ req_hold_wr_q = FALSE
    /\ requests = <<>> /\ response = <<>>
    /\ Tcm!Init({[a \in Addrs |-> a]})
    /\ ar = NoCommand /\ aw = NoCommand /\ wleft = <<>> /\ wvalid = FALSE
    /\ rready = FALSE /\ bready = FALSE
    /\ owed = <<>>

\* The core's side is in module RiscvTcm.
Next ==
    /\ Burst /\ Priority /\ Holds /\ Fifos
    /\ Tcm!Edge(Tcm!NoRequest, RamRequest)
    /\ Host

Spec == Init /\ [][Next]_vars

\* The host sends the words it has announced and takes responses.
FairSpec == /\ Spec /\ WF_vars(Next)
            /\ []<>(wleft = <<>> \/ wvalid) /\ []<>rready

-----------------------------------------------------------------------------
(***************************************************************************)
(* The RAM's answer always finds room in u_response, whose accept_o is not *)
(* connected, and meets the request it is for: the responses are those to  *)
(* the oldest requests, and the one access in flight is next.              *)
(***************************************************************************)
ResponseFits ==
    Len(requests) = Len(response) + (IF ext_ack_q THEN 1 ELSE 0)

(***************************************************************************)
(* Every command gets its responses, in the order in which the commands    *)
(* were taken: each word of a read from its own address, with the          *)
(* command's identifier and the last one marked; one response to a write,  *)
(* and only when all its words are in memory.                              *)
(***************************************************************************)
AnswersInOrder ==
    /\ RValid =>
         /\ owed # <<>> /\ Head(owed).read
         /\ Head(owed).id = Head(requests).id /\ Head(owed).last = Head(requests).last
         /\ Head(response) % NumAddrs = Head(owed).addr
    /\ BValid =>
         /\ owed # <<>> /\ ~Head(owed).read /\ Head(owed).id = Head(requests).id
         /\ \A a \in Head(owed).addr .. (Head(owed).addr + Head(owed).len) :
               ram[a] = a + NumAddrs

\* A word is only ever written to the address it was sent for.
WordsAtHome == \A a \in Addrs : ram[a] % NumAddrs = a

(***************************************************************************)
(* An access the RAM has refused is offered again unchanged, whichever     *)
(* commands appear meanwhile; RiscvTcm assumes it.                         *)
(***************************************************************************)
HoldsRequest ==
    [][RamRequest.op # "NONE" /\ ~RamAccept => RamRequest' = RamRequest]_vars

(***************************************************************************)
(* Every command is taken and gets all its responses: reads and writes do  *)
(* not starve each other, and a full fifo empties.                         *)
(***************************************************************************)
Answered ==
    /\ ArValid ~> ArTaken
    /\ AwValid ~> AwTaken
    /\ owed # <<>> ~> Taken
=============================================================================

------------------------------ MODULE RiscvLsu ------------------------------
(***************************************************************************)
(* The load/store unit, core/riscv/riscv_lsu.v, and the memory port behind *)
(* it.  An operation spends one or more clocks in the unit's E1 registers  *)
(* (mem_q) until the port accepts its request, and then waits in E2        *)
(* (pending_lsu_e2_q) for the answer.  A misaligned access never reaches   *)
(* the port; a dummy answer (mem_unaligned_e2_q) takes its place.  A       *)
(* two-entry fifo remembers what the next answer is for.                   *)
(*                                                                         *)
(* The unit has no squash input: an operation issued behind one that       *)
(* faults must be dropped by the unit itself.                              *)
(*                                                                         *)
(* Every step is one rising clock edge.  mem_ack is the answer the port    *)
(* gives in the current cycle.                                             *)
(***************************************************************************)
EXTENDS Integers, Sequences

CONSTANT Values      \* the addresses and the words of memory

VARIABLES
    mem_q,               \* the operation in E1
    pending_lsu_e2_q,    \* an accepted request has not been answered
    mem_unaligned_e2_q,  \* the dummy answer to a misaligned access
    fifo,                \* riscv_lsu_fifo: what the answers are for
    outst,               \* the port: requests accepted, not yet answered
    mem,                 \* the port: memory
    mem_ack              \* the port: the answer given in this cycle

lsuVars == <<mem_q, pending_lsu_e2_q, mem_unaligned_e2_q, fifo, outst, mem,
             mem_ack>>

FifoDepth == 2

Aligned    == {"LOAD", "STORE"}
Misaligned == {"LOAD_MISALIGNED", "STORE_MISALIGNED"}
Loads      == {"LOAD", "LOAD_MISALIGNED"}
CacheOps   == {"DFLUSH", "DFLUSH_DENIED", "DWRITEBACK", "DINVALIDATE"}
LsuOps     == Aligned \cup Misaligned \cup CacheOps

Nothing   == [op |-> "NONE", addr |-> 0, data |-> 0]
Operation == [op : LsuOps, addr : Values, data : Values]
Tag(o)    == [load |-> o.op \in Loads, addr |-> o.addr]

-----------------------------------------------------------------------------
(***************************************************************************)
(* Wires                                                                   *)
(***************************************************************************)
Answered  == mem_ack # "NONE"
Unaligned == mem_q.op \in Misaligned

\* Seeded fault: an error completes the older operation like an answer.
Delay_NotOnError == pending_lsu_e2_q /\ mem_ack = "NONE"
Delay == pending_lsu_e2_q /\ mem_ack # "OK"

\* mem_rd_o and mem_wr_o are masked while an answer is late, the cache
\* operations are not.
Requesting == mem_q.op \in CacheOps \/ (mem_q.op \in Aligned /\ ~Delay)

Stall(accept) == (Requesting /\ ~accept) \/ Delay \/ Unaligned

\* Seeded fault: a misaligned access is noted in every cycle it waits.
Push_EveryCycle(accept) == (Requesting /\ accept) \/ Unaligned
Push(accept) == (Requesting /\ accept) \/ (Unaligned /\ ~Delay)
Pop          == Answered \/ mem_unaligned_e2_q

\* The memory word of an empty fifo is never used; see FifoInStep.
Resp == IF fifo = <<>> THEN [load |-> FALSE, addr |-> 0] ELSE Head(fifo)

WritebackValid == Answered \/ mem_unaligned_e2_q

WritebackValue ==
    IF mem_ack = "ERROR" \/ mem_unaligned_e2_q THEN Resp.addr
    ELSE IF Answered /\ Resp.load THEN mem[Head(outst).addr] ELSE 0

WritebackException ==
    IF mem_unaligned_e2_q
    THEN IF Resp.load THEN "LOAD_MISALIGNED" ELSE "STORE_MISALIGNED"
    ELSE IF mem_ack = "ERROR"
         THEN IF Resp.load THEN "LOAD_FAULT" ELSE "STORE_FAULT"
         ELSE "NONE"

-----------------------------------------------------------------------------
(***************************************************************************)
(* Registers                                                               *)
(***************************************************************************)
Init ==
    /\ mem_q = Nothing
    /\ pending_lsu_e2_q = FALSE
    /\ mem_unaligned_e2_q = FALSE
    /\ fifo = <<>>
    /\ outst = <<>>
    /\ mem \in [Values -> Values]
    /\ mem_ack = "NONE"

\* "decoded" is the operation issued in this cycle, or Nothing.
RequestRegister(decoded, accept) ==
    mem_q' = IF mem_ack = "ERROR" \/ mem_unaligned_e2_q THEN Nothing
             ELSE IF \/ mem_q.op \in Aligned \cup Misaligned /\ Delay
                     \/ Requesting /\ ~accept
                  THEN mem_q
                  ELSE decoded

\* Seeded fault: an error leaves the operation pending.
Tracking_ErrorKeeps(accept) ==
    /\ pending_lsu_e2_q' = (\/ Requesting /\ accept
                            \/ pending_lsu_e2_q /\ mem_ack # "OK")
    /\ mem_unaligned_e2_q' = (Unaligned /\ ~Delay)

Tracking(accept) ==
    /\ pending_lsu_e2_q' = (\/ Requesting /\ accept
                            \/ pending_lsu_e2_q /\ ~Answered)
    /\ mem_unaligned_e2_q' = (Unaligned /\ ~Delay)

Fifo(accept) ==
    LET kept == IF Pop /\ fifo # <<>> THEN Tail(fifo) ELSE fifo
    IN  fifo' = IF Push(accept) /\ Len(fifo) < FifoDepth
                THEN Append(kept, Tag(mem_q)) ELSE kept

\* The port answers in order and performs a store when it acknowledges it;
\* it may answer any of them with an error.  The memories that perform the cache
\* operations (dcache_core, tcm_mem) take one only when they owe no answer.  In
\* tcm_mem none of them changes memory; what DINVALIDATE throws away in a data
\* cache is left out here and in RiscvDcache.
Port(accept) ==
    LET left == IF Answered THEN Tail(outst) ELSE outst
    IN  /\ accept /\ mem_q.op \in CacheOps => left = <<>>
        /\ outst' = IF Requesting /\ accept THEN Append(left, mem_q) ELSE left
        /\ mem' = IF mem_ack = "OK" /\ Head(outst).op = "STORE"
                  THEN [mem EXCEPT ![Head(outst).addr] = Head(outst).data]
                  ELSE mem
        /\ mem_ack' \in IF outst' = <<>> THEN {"NONE"} ELSE {"NONE", "OK", "ERROR"}

Edge(decoded, accept) ==
    /\ RequestRegister(decoded, accept)
    /\ Tracking(accept)
    /\ Fifo(accept)
    /\ Port(accept)

(***************************************************************************)
(* The unit by itself: riscv_issue starts an operation in any cycle in     *)
(* which the unit does not stall it, but a cache operation never in the    *)
(* cycle after a load or store (the scoreboard rule for CSR instructions). *)
(***************************************************************************)
Issue(op, addr, data, accept) ==
    /\ ~Stall(accept)
    /\ op \in CacheOps => mem_q.op \notin Aligned \cup Misaligned
    /\ Edge([op |-> op, addr |-> addr, data |-> data], accept)

Wait(accept) == Edge(Nothing, accept)

Next ==
    \E accept \in BOOLEAN :
        \/ Wait(accept)
        \/ \E op \in LsuOps, addr, data \in Values :
              Issue(op, addr, data, accept)

Spec == Init /\ [][Next]_lsuVars

-----------------------------------------------------------------------------
TypeOK ==
    /\ mem_q \in Operation \cup {Nothing}
    /\ pending_lsu_e2_q \in BOOLEAN /\ mem_unaligned_e2_q \in BOOLEAN
    /\ fifo \in Seq([load : BOOLEAN, addr : Values]) /\ Len(fifo) <= FifoDepth
    /\ outst \in Seq(Operation) /\ Len(outst) <= FifoDepth
    /\ mem \in [Values -> Values]
    /\ mem_ack \in {"NONE", "OK", "ERROR"}

(***************************************************************************)
(* The fifo mirrors the port: its entries are, in order, the requests the  *)
(* port still owes an answer for and the one misaligned access whose dummy *)
(* answer is due, so that no answer is ever paired with another            *)
(* operation's tag and no push meets a full fifo (accept_o of              *)
(* riscv_lsu_fifo is left unconnected).                                    *)
(***************************************************************************)
FifoInStep ==
    /\ Len(fifo) = Len(outst) + (IF mem_unaligned_e2_q THEN 1 ELSE 0)
    /\ \A n \in 1 .. Len(outst) : fifo[n] = Tag(outst[n])
    /\ pending_lsu_e2_q <=> outst # <<>>
    /\ mem_unaligned_e2_q => outst = <<>>

(***************************************************************************)
(* A load or store is put on the port only when every older operation is   *)
(* answered without an error in this cycle or before: nothing behind a     *)
(* faulting access reaches memory, although the unit is never squashed.    *)
(***************************************************************************)
NothingBehindFault ==
    Requesting /\ mem_q.op \in Aligned =>
        /\ outst = <<>> \/ (Len(outst) = 1 /\ mem_ack = "OK")
        /\ ~mem_unaligned_e2_q
=============================================================================

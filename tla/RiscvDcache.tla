---------------------------- MODULE RiscvDcache ----------------------------
(***************************************************************************)
(* The data port of the core with caches, top_cache_axi/src_v/dcache.v:    *)
(* the load/store unit (RiscvLsu) asks through dcache_mux.v, which sends a *)
(* request to the cache (DcacheCore) or past it (dcache_if_pmem.v) by its  *)
(* address; dcache_pmem_mux.v lets the same side use the bus, behind the   *)
(* fifo of dcache_axi.v.  Like RiscvTcm this shows that a real port is the *)
(* one RiscvPipe and RiscvLsu assume.                                      *)
(*                                                                         *)
(* dcache_axi_axi.v, which puts the requests on the channels, is left out: *)
(* the slave takes them one after the other from the fifo.                 *)
(***************************************************************************)
EXTENDS Integers, Sequences, FiniteSets

CONSTANTS
    CachedAddr, LineWords, NumSets, LastSet,   \* see DcacheCore
    UncachedAddr,  \* addresses outside MEM_CACHE_ADDR_MIN .. MAX
    Operations,    \* what the program does: operations of RiscvLsu
    Responses      \* how the bus answers: "OK", "ERROR"

Addr   == CachedAddr \cup UncachedAddr
NumAddr == Cardinality(Addr)
Words  == 0 .. (2 * NumAddr - 1)
Values == Words

CacheOps == {"DFLUSH", "DWRITEBACK"}

\* The words of the line an address is in.
WholeLine(a) ==
    LET first == (a \div LineWords) * LineWords
    IN  first .. (first + LineWords - 1)

\* A line is cached as a whole, with the bounds riscv_top.v gives the cached
\* range.  It is one burst, whose length has eight bits.
ASSUME DcacheAssumption ==
    /\ LineWords \in 2 .. 256 /\ NumSets \in Nat \ {0}
    /\ LastSet \in Nat /\ NumSets <= LastSet + 1
    /\ IsFiniteSet(Addr) /\ 0 \in Addr /\ Addr = 0 .. (NumAddr - 1)
    /\ CachedAddr \cap UncachedAddr = {}
    /\ \A a \in CachedAddr : WholeLine(a) \subseteq CachedAddr
    /\ Operations \subseteq [op : {"LOAD", "STORE"} \cup CacheOps,
                            addr : Addr, data : Words]

VARIABLES
    mem_q, pending_lsu_e2_q, mem_unaligned_e2_q, fifo,     \* RiscvLsu
    cache_access_q, pending_q,                             \* dcache_mux
    select_q,                                              \* dcache_pmem_mux
    req, tags_q, request_pending_q,                        \* dcache_if_pmem
    state_q, m_q, tags, tag_out, data, data_out, data_write_q, flush_addr_q,
    flushing_q, flush_last_q, replace_way_q, pmem_rd_q, pmem_wr0_q,
    pmem_len_q, skid, error_q,                             \* DcacheCore
    u_req,       \* dcache_axi: requests waiting for the bus
    burst,       \* the bus: the write that is being sent
    owes,        \* the bus: what is to be answered
    bus_ack,     \* the bus: the answer in this cycle
    pmem,        \* the bus: memory
    outst,       \* history: requests accepted, not yet answered
    mem          \* history: memory as the answers have left it

Core == INSTANCE DcacheCore

lsuVars == <<mem_q, pending_lsu_e2_q, mem_unaligned_e2_q, fifo>>
busVars == <<u_req, burst, owes, bus_ack, pmem>>
vars == <<lsuVars, cache_access_q, pending_q, select_q, req, tags_q,
          request_pending_q, Core!coreVars, busVars, outst, mem>>

FifoDepth == 2

-----------------------------------------------------------------------------
(***************************************************************************)
(* Wires.  The bus answers one word of a read, or a write as a whole.      *)
(***************************************************************************)
BusData == IF owes # <<>> /\ Head(owes).rd THEN pmem[Head(owes).addr] ELSE 0
AckFor(cached) == IF select_q = cached THEN bus_ack ELSE "NONE"

\* mem_cacheable_q; while no operation is in E1 it decides nothing.
Cacheable == mem_q.addr \in CachedAddr \/ mem_q.op \in CacheOps
Hold      == pending_q # 0 /\ cache_access_q # Cacheable

MemAck  == IF cache_access_q THEN Core!MemAck ELSE AckFor(FALSE)
MemData == IF cache_access_q THEN Core!MemData ELSE BusData

Lsu == INSTANCE RiscvLsu WITH mem_ack <- MemAck

Passed(side) == IF Lsu!Requesting /\ Cacheable = side /\ ~Hold THEN mem_q
                ELSE Lsu!Nothing
ToCore       == Passed(TRUE)
ToUncached   == Passed(FALSE)

UncachedAccept == Len(req) # FifoDepth /\ tags_q # FifoDepth

MemAccept == ~Hold /\ IF Cacheable THEN Core!MemAccept(ToCore) ELSE UncachedAccept

\* cache_active_o of the mux, select_i of the other.
\* Seeded fault: the bus follows the request of this cycle.
Select_Now == Cacheable
Select == IF pending_q # 0 THEN cache_access_q ELSE Cacheable

PmemAccept(cached) == Select = cached /\ Len(u_req) # FifoDepth

-----------------------------------------------------------------------------
(***************************************************************************)
(* Past the cache: a fifo of two, one transaction at a time.               *)
(***************************************************************************)
Offered == req # <<>> /\ ~(request_pending_q /\ AckFor(FALSE) = "NONE")

UncachedRequests ==
    IF Offered THEN <<[rd |-> Head(req).op = "LOAD", len |-> 0,
                       addr |-> Head(req).addr, data |-> Head(req).data]>>
    ELSE <<>>

Uncached ==
    LET complete == Offered /\ PmemAccept(FALSE)
        push     == IF ToUncached.op # "NONE" /\ UncachedAccept THEN <<ToUncached>> ELSE <<>>
    IN  /\ req' = (IF complete THEN Tail(req) ELSE req) \o push
        /\ tags_q' = tags_q + Len(push)
                            - IF AckFor(FALSE) # "NONE" /\ tags_q > 0 THEN 1 ELSE 0
        /\ request_pending_q' = (\/ complete
                                 \/ request_pending_q /\ AckFor(FALSE) = "NONE")

\* The fifo of dcache_axi; "take" says that the bus takes the oldest request.
Fifo(next, take) ==
    LET new == IF Select THEN Core!PmemRequests(next) ELSE UncachedRequests
    IN  u_req' = (IF take THEN Tail(u_req) ELSE u_req)
                   \o (IF Len(u_req) # FifoDepth THEN new ELSE <<>>)

(***************************************************************************)
(* The bus: a read is owed word by word; a write when its last word has    *)
(* come, and it is performed when it is answered.                          *)
(***************************************************************************)
NoBurst == [addr |-> 0, len |-> 0, words |-> <<>>]
CanTake == u_req # <<>> /\ Len(owes) < 2

Sent ==
    LET r == Head(u_req)
    IN  IF burst.words = <<>> THEN [addr |-> r.addr, len |-> r.len, words |-> <<r.data>>]
        ELSE [burst EXCEPT !.words = Append(@, r.data)]
Complete == Len(Sent.words) = Sent.len + 1

Performed ==
    LET o == Head(owes)
    IN  [a \in Addr |-> IF a \in o.addr .. (o.addr + Len(o.words) - 1)
                        THEN o.words[a - o.addr + 1] ELSE pmem[a]]

Slave(take) ==
    LET o    == Head(owes)
        left == IF bus_ack = "NONE" THEN owes
                ELSE IF o.rd /\ o.left > 0
                THEN <<[o EXCEPT !.addr = @ + 1, !.left = @ - 1]>> \o Tail(owes)
                ELSE Tail(owes)
        r    == Head(u_req)
        new  == IF ~take THEN <<>>
                ELSE IF r.rd THEN <<[rd |-> TRUE, addr |-> r.addr, left |-> r.len,
                                     words |-> <<>>]>>
                ELSE IF Complete THEN <<[rd |-> FALSE, addr |-> Sent.addr, left |-> 0,
                                         words |-> Sent.words]>>
                ELSE <<>>
    IN  /\ owes' = left \o new
        /\ burst' = IF ~take \/ r.rd THEN burst
                    ELSE IF Complete THEN NoBurst ELSE Sent
        /\ pmem' = IF bus_ack # "NONE" /\ ~o.rd THEN Performed ELSE pmem
        /\ bus_ack' \in IF owes' = <<>> THEN {"NONE"} ELSE {"NONE"} \cup Responses

-----------------------------------------------------------------------------
\* Word a of memory holds a at first.
Init ==
    /\ mem_q = Lsu!Nothing
    /\ pending_lsu_e2_q = FALSE /\ mem_unaligned_e2_q = FALSE /\ fifo = <<>>
    /\ cache_access_q = FALSE /\ pending_q = 0 /\ select_q = FALSE
    /\ req = <<>> /\ tags_q = 0 /\ request_pending_q = FALSE
    /\ Core!Init
    /\ u_req = <<>> /\ burst = NoBurst /\ owes = <<>> /\ bus_ack = "NONE"
    /\ pmem = [a \in Addr |-> a]
    /\ outst = <<>> /\ mem = [v \in Values |-> IF v \in Addr THEN pmem[v] ELSE 0]

Mux ==
    LET issued == Lsu!Requesting /\ MemAccept
    IN  /\ pending_q' = IF issued /\ MemAck = "NONE" THEN (pending_q + 1) % 32
                        ELSE IF ~issued /\ MemAck # "NONE" THEN (pending_q + 31) % 32
                        ELSE pending_q
        /\ cache_access_q' = IF issued THEN Cacheable ELSE cache_access_q
        /\ select_q' = Select

History ==
    LET answered == MemAck # "NONE" /\ outst # <<>>
        left     == IF answered THEN Tail(outst) ELSE outst
    IN  /\ outst' = IF Lsu!Requesting /\ MemAccept THEN Append(left, mem_q) ELSE left
        /\ mem' = IF answered /\ MemAck = "OK" /\ Head(outst).op = "STORE"
                  THEN [mem EXCEPT ![Head(outst).addr] = Head(outst).data]
                  ELSE mem

Clock(decoded, take) ==
    LET accept == PmemAccept(TRUE)
        next   == Core!NextState(ToCore, accept, AckFor(TRUE))
    IN  /\ take => CanTake
        /\ Lsu!RequestRegister(decoded, MemAccept)
        /\ Lsu!Tracking(MemAccept)
        /\ Lsu!Fifo(MemAccept)
        /\ Mux
        /\ Core!Edge(ToCore, accept, AckFor(TRUE), BusData)
        /\ Uncached
        /\ Fifo(next, take) /\ Slave(take)
        /\ History

\* As in RiscvLsu: what the program may have in E1 next.
Issue(operation, take) ==
    /\ ~Lsu!Stall(MemAccept)
    /\ operation.op \in CacheOps => mem_q.op \notin Lsu!Aligned \cup Lsu!Misaligned
    /\ Clock(operation, take)

IssueOperation(take) == \E operation \in Operations : Issue(operation, take)

Wait(take) == Clock(Lsu!Nothing, take)

Next == \E take \in BOOLEAN : Wait(take) \/ IssueOperation(take)

Spec == Init /\ [][Next]_vars

(***************************************************************************)
(* The bus does not stand still: in the end it takes what waits for it, or *)
(* if it cannot, answers what it owes.  It owes one transaction at a time  *)
(* (each side waits for its answer before it asks again), so neither keeps *)
(* the other out.                                                          *)
(***************************************************************************)
Moves == IF CanTake THEN Wait(TRUE) \/ IssueOperation(TRUE)
         ELSE Next /\ (owes' # <<>> => bus_ack' # "NONE")

FairSpec == Spec /\ WF_vars(Moves)

-----------------------------------------------------------------------------
(***************************************************************************)
(* The port is one memory to the load/store unit, whatever lies in the     *)
(* cache, on the way to memory or past the cache: requests are answered    *)
(* once and in order, a load with the word stored last, and flushes are    *)
(* accepted only when nothing is owed.  The unit and the pipeline assume   *)
(* no more of the port (Port of RiscvLsu).                                 *)
(***************************************************************************)
Port == INSTANCE MemPort WITH
            Memory <- Addr,
            Requests <- [op : Lsu!Aligned \cup CacheOps, addr : Addr, data : Words],
            Alone <- CacheOps,
            word <- [a \in Addr |-> mem[a]],
            ack <- MemAck, data <- MemData
ImplementsMemPort == Port!Spec

(***************************************************************************)
(* Nothing is lost in the cache: no line is in both ways, a line that is   *)
(* not dirty is what memory holds, and the newest word of every address is *)
(* in its line, or in memory if there is none.  Excepted are the line that *)
(* is being filled, whose tag may be there before its words, and the store *)
(* that has reached its line but not its answer.                           *)
(***************************************************************************)
Holds(way, a)  == LET t == tags[way][Core!SetOf(a)]
                  IN  t.valid /\ t.tag = Core!TagOf(a)
InWay(way, a)  == data[way][<<Core!SetOf(a), Core!WordOf(a)>>]
Filling(way, a) == /\ state_q = "REFILL" /\ replace_way_q = way
                   /\ Core!SetOf(a) = Core!SetOf(m_q.addr)
Newest(a, w)   == w = mem[a] \/ (m_q.op = "STORE" /\ m_q.addr = a /\ w = m_q.data)

Coherent ==
    state_q # "RESET" =>
    \A a \in CachedAddr :
        LET in == {way \in Core!Ways : Holds(way, a) /\ ~Filling(way, a)}
        IN  /\ Cardinality(in) <= 1
            /\ \A way \in in :
                  /\ Newest(a, InWay(way, a))
                  /\ ~tags[way][Core!SetOf(a)].dirty => InWay(way, a) = pmem[a]
                                                     \/ state_q = "WRITE"
            /\ in = {} => pmem[a] = mem[a]

(***************************************************************************)
(* When a flush is answered all memory, and when a writeback is answered   *)
(* the whole line, is in the memory behind the bus, where other masters    *)
(* see it: no word is still in the fifo, in the skid buffer or in a way.   *)
(***************************************************************************)
Answering(op) == MemAck = "OK" /\ outst # <<>> /\ Head(outst).op = op
FlushReachesMemory ==
    \A a \in CachedAddr :
        \/ Answering("DFLUSH")
        \/ Answering("DWRITEBACK") /\ Core!LineOf(Head(outst).addr) = Core!LineOf(a)
        => pmem[a] = mem[a]

(***************************************************************************)
(* Whatever the unit has in E1, it gets an answer again: no switch between *)
(* the two sides, no eviction before a refill and no flush is waited for   *)
(* without end.                                                            *)
(***************************************************************************)
Served == mem_q.op # "NONE" ~> Lsu!WritebackValid
=============================================================================

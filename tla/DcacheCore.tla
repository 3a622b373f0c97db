----------------------------- MODULE DcacheCore -----------------------------
(***************************************************************************)
(* The two-way write-back cache, top_cache_axi/src_v/dcache_core.v.  An    *)
(* accepted request is looked up in the next cycle; a miss evicts a dirty  *)
(* line of the way to be replaced, refills the whole line and looks again. *)
(* A flush walks over all sets and evicts what is dirty, a writeback       *)
(* evicts one line.                                                        *)
(*                                                                         *)
(* The tag memories pass on what is written in the same cycle, the data    *)
(* memories do not; both have a registered output.  As in Icache the       *)
(* program's lines use the highest NumSets of the LastSet + 1 sets.        *)
(*                                                                         *)
(* Every step is one rising clock edge.  The operators are parameterised   *)
(* by the wires of the cycle: the request from dcache_mux (req), and from  *)
(* the bus accept, the answer (ack) and the word read (rdata).  Byte       *)
(* strobes are left out, and so is the invalidation of a line.             *)
(***************************************************************************)
EXTENDS Integers, Sequences, FiniteSets

CONSTANTS
    CachedAddr,  \* the words of the cached part of memory, 0 and up
    LineWords,   \* words in a line: 8 in the code
    NumSets,     \* sets the program's lines use
    LastSet      \* 255 in the code

VARIABLES
    state_q,
    m_q,                      \* the request buffer
    tags, tag_out,            \* dcache_core_tag_ram, one for each way
    data, data_out,           \* dcache_core_data_ram, one for each way
    data_write_q,             \* data_write_addr_q, its word in the line
    flush_addr_q, flushing_q, flush_last_q, replace_way_q,
    pmem_rd_q,                \* the read request is not yet accepted
    pmem_wr0_q,               \* the first word of an eviction is due
    pmem_len_q,               \* words still to come or to go, less one
    skid,                     \* pmem_wr_q, pmem_write_data_q: a word refused
    error_q

coreVars == <<state_q, m_q, tags, tag_out, data, data_out, data_write_q,
              flush_addr_q, flushing_q, flush_last_q, replace_way_q,
              pmem_rd_q, pmem_wr0_q, pmem_len_q, skid, error_q>>

Ways == {0, 1}
Sets == 0 .. LastSet

LineOf(a) == a \div LineWords
WordOf(a) == a % LineWords
SetOf(a)  == (LastSet + 1 - NumSets) + (LineOf(a) % NumSets)
TagOf(a)  == LineOf(a) \div NumSets

\* The first word of the line with this tag in this set.
LineAddr(tag, set) ==
    (tag * NumSets + set - (LastSet + 1 - NumSets)) * LineWords

NoTag    == [valid |-> FALSE, dirty |-> FALSE, tag |-> 0]
Clean(t) == [valid |-> TRUE,  dirty |-> FALSE, tag |-> t]
Dirty(t) == [valid |-> TRUE,  dirty |-> TRUE,  tag |-> t]

NoRequest == [op |-> "NONE", addr |-> 0, data |-> 0]

-----------------------------------------------------------------------------
(***************************************************************************)
(* Wires                                                                   *)
(***************************************************************************)
Hit(way)     == tag_out[way].valid /\ tag_out[way].tag = TagOf(m_q.addr)
HitAny       == \E way \in Ways : Hit(way)
IsDirty(way) == tag_out[way].valid /\ tag_out[way].dirty
DirtyAny     == \E way \in Ways : IsDirty(way)
Accesses     == m_q.op \in {"LOAD", "STORE"}
Miss         == state_q = "LOOKUP" /\ Accesses /\ ~HitAny

EvictWay == (flushing_q \/ ~HitAny) /\ IsDirty(replace_way_q)

\* Seeded fault: a load may follow a store to the same word at once.
MemAccept_NoHazard(req) == state_q = "LOOKUP" /\ ~Miss

MemAccept(req) ==
    /\ state_q = "LOOKUP" /\ ~Miss
    /\ ~(m_q.op = "STORE" /\ req.op = "LOAD" /\ req.addr = m_q.addr)

MemAck ==
    IF state_q = "LOOKUP" /\ m_q.op # "NONE" /\ (Accesses => HitAny)
    THEN IF error_q THEN "ERROR" ELSE "OK" ELSE "NONE"

MemData == IF Hit(1) /\ ~Hit(0) THEN data_out[1] ELSE data_out[0]

PmemLast == pmem_len_q = 0

NextState(req, accept, ack) ==
    CASE state_q = "RESET"      -> IF flush_last_q THEN "LOOKUP" ELSE "RESET"
      [] state_q = "FLUSH_ADDR" -> "FLUSH"
      [] state_q = "FLUSH"      -> IF DirtyAny
                                   THEN IF EvictWay THEN "EVICT" ELSE "FLUSH"
                                   ELSE IF flush_last_q THEN "LOOKUP"
                                   ELSE "FLUSH_ADDR"
      [] state_q = "LOOKUP"     -> IF Miss THEN IF EvictWay THEN "EVICT" ELSE "REFILL"
                                   ELSE IF ~MemAccept(req) THEN "LOOKUP"
                                   ELSE IF req.op = "DWRITEBACK" THEN "WRITEBACK"
                                   ELSE IF req.op = "DFLUSH" THEN "FLUSH_ADDR"
                                   ELSE "LOOKUP"
      [] state_q = "REFILL"     -> IF ack = "NONE" \/ ~PmemLast THEN "REFILL"
                                   ELSE IF m_q.op = "STORE" THEN "WRITE" ELSE "READ"
      [] state_q \in {"WRITE", "READ"} -> "LOOKUP"
      [] state_q = "EVICT"      -> IF accept /\ PmemLast THEN "EVICT_WAIT" ELSE "EVICT"
      [] state_q = "EVICT_WAIT" -> IF ack = "NONE" THEN "EVICT_WAIT"
                                   ELSE IF m_q.op = "DWRITEBACK" THEN "LOOKUP"
                                   ELSE IF flushing_q THEN "FLUSH_ADDR"
                                   ELSE "REFILL"
      [] state_q = "WRITEBACK"  -> IF \E way \in Ways : Hit(way) /\ IsDirty(way)
                                   THEN "EVICT" ELSE "LOOKUP"

(***************************************************************************)
(* The bus: one read request for a refill, one write request for each word *)
(* of an eviction, of which the first brings address and length.           *)
(***************************************************************************)
ActiveSet == IF flushing_q THEN flush_addr_q ELSE SetOf(m_q.addr)

PmemRd(next) == pmem_rd_q \/ (state_q # "REFILL" /\ next = "REFILL")
PmemWr == skid # <<>> \/ (state_q = "EVICT" /\ (EvictWay \/ m_q.op = "DWRITEBACK"))

\* Seeded fault: a word the bus refuses is not kept.
PmemWriteData_NoSkid == data_out[replace_way_q]
PmemWriteData == IF skid # <<>> THEN skid[1] ELSE data_out[replace_way_q]

PmemRequests(next) ==
    IF PmemRd(next)
    THEN <<[rd |-> TRUE, len |-> LineWords - 1,
            addr |-> LineAddr(TagOf(m_q.addr), SetOf(m_q.addr)), data |-> 0]>>
    ELSE IF PmemWr
    THEN <<[rd |-> FALSE,
            len |-> IF state_q = "EVICT" /\ pmem_wr0_q THEN LineWords - 1 ELSE 0,
            addr |-> LineAddr(tag_out[replace_way_q].tag, ActiveSet),
            data |-> PmemWriteData]>>
    ELSE <<>>

-----------------------------------------------------------------------------
(***************************************************************************)
(* Registers                                                               *)
(***************************************************************************)
\* The memories have no reset; STATE_RESET clears the tags.
Init ==
    /\ state_q = "RESET"
    /\ m_q = NoRequest
    /\ \E t \in [Ways -> {NoTag, Dirty(0)}] :
          tags = [way \in Ways |-> [s \in Sets |-> t[way]]]
    /\ tag_out = [way \in Ways |-> NoTag]
    /\ data = [way \in Ways |-> [a \in Sets \X (0 .. LineWords-1) |-> 0]]
    /\ data_out = [way \in Ways |-> 0]
    /\ data_write_q = 0
    /\ flush_addr_q = 0 /\ flushing_q = FALSE /\ flush_last_q = FALSE
    /\ replace_way_q = 0
    /\ pmem_rd_q = FALSE /\ pmem_wr0_q = FALSE /\ pmem_len_q = 0
    /\ skid = <<>> /\ error_q = FALSE

RequestBuffer(req) ==
    m_q' = IF MemAccept(req) THEN req
           ELSE IF MemAck # "NONE" THEN NoRequest ELSE m_q

TagWritten ==
    IF state_q \in {"FLUSH", "RESET"} \/ flushing_q THEN NoTag
    ELSE IF state_q \in {"REFILL", "EVICT_WAIT"} THEN Clean(TagOf(m_q.addr))
    ELSE Dirty(TagOf(m_q.addr))

WritesTag(way, ack) ==
    \/ state_q = "RESET"
    \/ state_q = "FLUSH" /\ ~DirtyAny
    \/ state_q = "LOOKUP" /\ m_q.op = "STORE" /\ Hit(way)
    \/ state_q = "WRITE" /\ replace_way_q = way
    \/ state_q = "EVICT_WAIT" /\ ack # "NONE" /\ replace_way_q = way
    \/ state_q = "REFILL" /\ ack # "NONE" /\ PmemLast /\ replace_way_q = way

TagRams(req, next, ack) ==
    LET at == IF state_q = "LOOKUP" /\ next \in {"LOOKUP", "WRITEBACK"}
              THEN SetOf(req.addr) ELSE ActiveSet
        to == IF state_q = "RESET" THEN flush_addr_q ELSE ActiveSet
    IN  /\ tags' = [way \in Ways |->
                      IF WritesTag(way, ack) THEN [tags[way] EXCEPT ![to] = TagWritten]
                      ELSE tags[way]]
        /\ tag_out' = [way \in Ways |-> tags'[way][at]]

DataAddr(req, next) ==
    CASE state_q \in {"REFILL", "EVICT"} -> <<ActiveSet, data_write_q>>
      [] state_q \in {"FLUSH", "RESET"}  -> <<flush_addr_q, 0>>
      [] state_q \notin {"REFILL", "EVICT", "FLUSH", "RESET"} /\ next = "EVICT"
                                         -> <<SetOf(m_q.addr), 0>>
      [] state_q = "READ"                -> <<SetOf(m_q.addr), WordOf(m_q.addr)>>
      [] OTHER                           -> <<SetOf(req.addr), WordOf(req.addr)>>

DataWrite(way, ack, rdata) ==
    IF state_q = "REFILL" /\ ack # "NONE" /\ replace_way_q = way
    THEN [data[way] EXCEPT ![<<ActiveSet, data_write_q>>] = rdata]
    ELSE IF state_q \in {"WRITE", "LOOKUP"} /\ m_q.op = "STORE" /\ Hit(way)
    THEN [data[way] EXCEPT ![<<SetOf(m_q.addr), WordOf(m_q.addr)>>] = m_q.data]
    ELSE data[way]

DataRams(req, next, ack, rdata, accept) ==
    /\ data' = [way \in Ways |-> DataWrite(way, ack, rdata)]
    /\ data_out' = [way \in Ways |-> data[way][DataAddr(req, next)]]
    /\ data_write_q' =
         IF state_q # "REFILL" /\ next = "REFILL" THEN 0
         ELSE IF state_q # "EVICT" /\ next = "EVICT" THEN 1 % LineWords
         ELSE IF \/ state_q = "REFILL" /\ ack # "NONE"
                 \/ state_q = "EVICT" /\ accept
              THEN (data_write_q + 1) % LineWords
         ELSE data_write_q

\* Seeded fault: the walk ends with the last set but one.
FlushCounter_Short(next) ==
    /\ flush_addr_q' =
         IF state_q = "RESET" \/ (state_q = "FLUSH" /\ next = "FLUSH_ADDR")
         THEN (flush_addr_q + 1) % (LastSet + 1)
         ELSE IF state_q = "LOOKUP" THEN 0 ELSE flush_addr_q
    /\ flushing_q' =
         IF state_q = "LOOKUP" /\ next = "FLUSH_ADDR" THEN TRUE
         ELSE IF state_q = "FLUSH" /\ next = "LOOKUP" THEN FALSE ELSE flushing_q
    /\ flush_last_q' =
         (state_q # "LOOKUP" /\ (flush_addr_q + 1 = LastSet \/ flush_last_q))

FlushCounter(next) ==
    /\ flush_addr_q' =
         IF state_q = "RESET" \/ (state_q = "FLUSH" /\ next = "FLUSH_ADDR")
         THEN (flush_addr_q + 1) % (LastSet + 1)
         ELSE IF state_q = "LOOKUP" THEN 0 ELSE flush_addr_q
    /\ flushing_q' =
         IF state_q = "LOOKUP" /\ next = "FLUSH_ADDR" THEN TRUE
         ELSE IF state_q = "FLUSH" /\ next = "LOOKUP" THEN FALSE ELSE flushing_q
    /\ flush_last_q' =
         (state_q # "LOOKUP" /\ (flush_addr_q = LastSet \/ flush_last_q))

Replacement(next) ==
    replace_way_q' =
      IF \/ state_q \in {"WRITE", "READ"}
         \/ flushing_q /\ DirtyAny /\ ~EvictWay /\ state_q # "FLUSH_ADDR"
      THEN 1 - replace_way_q
      ELSE IF \/ state_q = "EVICT_WAIT" /\ next = "FLUSH_ADDR"
              \/ state_q = "FLUSH" /\ next = "LOOKUP"
              \/ state_q = "LOOKUP" /\ next = "FLUSH_ADDR"
              \/ state_q = "WRITEBACK" /\ Hit(0)
      THEN 0
      ELSE IF state_q = "WRITEBACK" /\ Hit(1) THEN 1 ELSE replace_way_q

\* The length counts modulo 256.
Bus(next, accept, ack) ==
    /\ pmem_rd_q' = (PmemRd(next) /\ ~accept)
    /\ LET enter == state_q # "EVICT" /\ next = "EVICT"
       IN  /\ pmem_wr0_q' = (enter \/ (pmem_wr0_q /\ ~accept))
           /\ pmem_len_q' =
                IF enter \/ (PmemRd(next) /\ accept) THEN LineWords - 1
                ELSE IF \/ state_q = "REFILL" /\ ack # "NONE"
                        \/ state_q = "EVICT" /\ accept
                     THEN (pmem_len_q + 255) % 256
                ELSE pmem_len_q
    /\ skid' = IF accept THEN <<>>
               ELSE IF PmemWr
               THEN <<PmemWriteData>>
               ELSE skid
    /\ error_q' = (ack = "ERROR" \/ (error_q /\ MemAck = "NONE"))

Edge(req, accept, ack, rdata) ==
    LET next == NextState(req, accept, ack)
    IN  /\ state_q' = next
        /\ RequestBuffer(req)
        /\ TagRams(req, next, ack)
        /\ DataRams(req, next, ack, rdata, accept)
        /\ FlushCounter(next) /\ Replacement(next)
        /\ Bus(next, accept, ack)
=============================================================================

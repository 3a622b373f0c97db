---------------------------- MODULE RiscvMmuProofs ---------------------------
(***************************************************************************)
(* Translation agrees with the simulator's, and the load/store unit keeps  *)
(* the port it assumes, for every set of tables that may follow one        *)
(* another, every program, and every timing of the port and of the fetch   *)
(* unit.                                                                   *)
(*                                                                         *)
(* Translated is not inductive: an entry is put together from two words    *)
(* read at different times, from tables that may be written in between,    *)
(* for an address that the core has to keep asking for, and from a root    *)
(* that may be switched meanwhile.  Walking says how far the walk has come *)
(* and for which address, Held why this side does not move meanwhile, and  *)
(* Apart how far what the two reads see may differ.                        *)
(***************************************************************************)
EXTENDS RiscvMmu, TLAPS

\* The invariant of the load/store unit, with the answers it gets here.
LsuP == INSTANCE RiscvLsuProofs WITH
            Values <- DataAddr, mem_ack <- LsuAck, outst <- owed,
            mem <- [a \in DataAddr |-> 0]

\* Roots and tables from the last flush and from now differ in the root or in
\* one word, not in both.
AnyView == [satp : Roots, tables : Tables]

Apart ==
    /\ flushed \in AnyView /\ Now \in AnyView
    /\ flushed.satp # satp => flushed.tables = tables
    /\ DOMAIN flushed.tables = DOMAIN tables
    /\ \E a \in Sim!Addr : \A b \in DOMAIN tables \ {a} : flushed.tables[b] = tables[b]

\* The two steps of the simulator's walk, by the index in each table.
Top(v, va)    == Sim!Entry(Memory(v.tables), v.satp, Index(1, va))
Low(t, p, va) == Sim!Entry(Memory(t), p.ppn, Index(2, va))
Found(v, va)  == Sim!Walk(Memory(v.tables), v.satp, va)

Levels  == {"LEVEL_FIRST", "LEVEL_SECOND"}
WalkFor == IF dtlb_req_q THEN mem_q.addr ELSE pc_f_q

\* What a walk under way may have begun with.
WalkViews == IF dtlb_req_q THEN DataViews ELSE Views

Walking ==
    /\ state_q \in {"IDLE", "UPDATE"} \cup Levels
    /\ state_q # "IDLE" => virt_addr_q = WalkFor
    /\ state_q = "LEVEL_FIRST" =>
         \E v \in WalkViews : pte_addr_q = v.satp * Sim!Entries + Index(1, virt_addr_q)
    /\ state_q = "LEVEL_SECOND" =>
         \E v \in WalkViews :
            /\ IsPointer(Top(v, virt_addr_q))
            /\ pte_addr_q = Top(v, virt_addr_q).ppn * Sim!Entries + Index(2, virt_addr_q)
    /\ state_q = "UPDATE" => \E v \in WalkViews : pte_entry_q = Found(v, virt_addr_q)

\* The side a walk is for keeps asking for its address.
Held ==
    /\ load_q  => mem_q.op = "LOAD"  /\ ~pending_lsu_e2_q
    /\ store_q => mem_q.op = "STORE" /\ ~pending_lsu_e2_q
    /\ state_q # "IDLE" /\ dtlb_req_q  => (load_q \/ store_q) /\ VmD /\ ~DtlbHit
    /\ state_q # "IDLE" /\ ~dtlb_req_q => VmI /\ ~Matches(itlb, pc_f_q)

\* Nothing is issued behind a CSR instruction, and when it flushes no entry
\* of the tables has been read.  Between the flush and a write of satp the
\* tables stay, and loads and stores have no translation.
Drained ==
    /\ csr # "NONE" => mem_q = Lsu!Nothing
    /\ csr = "E1" => \/ state_q = "IDLE"
                     \/ /\ state_q = "LEVEL_FIRST" /\ mem_req_q
                        /\ pte_addr_q = satp * Sim!Entries + Index(1, virt_addr_q)
    /\ csr \in {"E2", "WB"} => flushed = Now /\ ~dtlb.valid

\* What the port owes: a word to the walker, an answer to the unit.
Reads   == state_q \in Levels /\ ~mem_req_q
Faulted == load_fault_q \/ store_fault_q
Owes    == owed # <<>> /\ ~Faulted
ReadOf  == [mmu |-> TRUE, addr |-> pte_addr_q]

InPort ==
    /\ \E a : LET access == [mmu |-> FALSE, addr |-> a]
              IN  port \in CASE Reads /\ Owes   -> {<<access, ReadOf>>, <<ReadOf, access>>}
                             [] Reads /\ ~Owes  -> {<<ReadOf>>}
                             [] ~Reads /\ Owes  -> {<<access>>}
                             [] ~Reads /\ ~Owes -> {<<>>}
    /\ port_ack \in {"NONE", "OK"}
    /\ port = <<>> => port_ack = "NONE"
    /\ mem_req_q => state_q \in Levels
    /\ Faulted => owed # <<>>

Cached(tlb, views) ==
    /\ tlb.valid \in BOOLEAN
    /\ tlb.valid => \E v \in views :
                       \A va \in Sim!Addr :
                          Sim!PageOf(va) = tlb.page => tlb.entry = Found(v, va)

Registers ==
    /\ mem_q.op \in Ops \cup {"NONE"} /\ mem_q.data = 0
    /\ owed # <<>> => Head(owed).data = 0
    /\ pc_f_q \in FetchAddr
    /\ priv \in Privs /\ priv_f_q \in Privs /\ branch_q \in Privs \cup {NoBranch}
    /\ load_q \in BOOLEAN /\ store_q \in BOOLEAN
    /\ dtlb_req_q \in BOOLEAN /\ mem_req_q \in BOOLEAN
    /\ load_fault_q \in BOOLEAN /\ store_fault_q \in BOOLEAN

IInv ==
    /\ LsuP!IInv
    /\ Registers /\ Apart /\ Walking /\ Held /\ Drained /\ InPort
    /\ Cached(itlb, Views) /\ Cached(dtlb, DataViews)

-----------------------------------------------------------------------------
(***************************************************************************)
(* The two halves of an address, and what the tables say of it.            *)
(***************************************************************************)
LEMMA RootIsPage ==
    ASSUME NEW root \in Roots
    PROVE  root \in Sim!Pages /\ root \in Int /\ root # Sim!Bare
BY MmuAssumption DEF Sim!Pages, Sim!Entries, Sim!Bare

LEMMA IndexType ==
    ASSUME NEW va \in Sim!Addr, NEW level
    PROVE  Index(level, va) \in 0 .. (Sim!Entries - 1)
BY DEF Index, Sim!Addr, Sim!PageOf, Sim!Entries

LEMMA AddressTypes == IInv => mem_q.addr \in Sim!Addr /\ pc_f_q \in Sim!Addr
BY MmuAssumption DEF IInv, LsuP!IInv, LsuP!Registers, LsuP!Operation, LsuP!Nothing,
   Registers

\* A walk depends on the page of the address only.
LEMMA SamePage ==
    ASSUME NEW v, NEW va, NEW vb, Sim!PageOf(va) = Sim!PageOf(vb)
    PROVE  Found(v, va) = Found(v, vb)
BY DEF Found, Sim!Walk

\* mmu_walk, with its two reads apart.
LEMMA FoundInSteps ==
    ASSUME NEW v \in AnyView, NEW va
    PROVE  Found(v, va) =
             IF Top(v, va) = Sim!NoPte THEN Sim!NoPte
             ELSE IF Sim!IsLeaf(Top(v, va))
             THEN [flags |-> Top(v, va).flags,
                   ppn |-> Sim!OrIndex(Top(v, va).ppn, Index(2, va))]
             ELSE Low(v.tables, Top(v, va), va)
<1>1. v.satp \in Int /\ v.satp # Sim!Bare
  BY RootIsPage DEF AnyView
<1> QED
  BY <1>1 DEF Found, Sim!Walk, Top, Low, Index

\* One read: the word of the tables, if it is there and present.
WordAt(t, a) ==
    IF a \in DOMAIN t /\ "V" \in t[a].flags THEN t[a] ELSE Sim!NoPte

LEMMA EntryIsWord ==
    ASSUME NEW t \in Tables, NEW base, NEW idx
    PROVE  Sim!Entry(Memory(t), base, idx) = WordAt(t, base * Sim!Entries + idx)
<1>1. DOMAIN t \subseteq Sim!Addr
  BY TablesAssumption DEF WellFormed
<1> DEFINE a == base * Sim!Entries + idx
<1> HIDE DEF a
<1>2. DOMAIN Memory(t) = Sim!Addr
  BY DEF Memory
<1>3. a \in Sim!Addr => Memory(t)[a] = IF a \in DOMAIN t THEN t[a] ELSE Sim!NoPte
  BY DEF Memory
<1>4. "V" \notin Sim!NoPte.flags
  BY DEF Sim!NoPte
<1>5. Sim!Entry(Memory(t), base, idx) =
        IF a \in DOMAIN Memory(t) /\ "V" \in Memory(t)[a].flags THEN Memory(t)[a]
        ELSE Sim!NoPte
  BY DEF Sim!Entry, a
<1>6. Sim!Entry(Memory(t), base, idx) = WordAt(t, a)
  BY <1>1, <1>2, <1>3, <1>4, <1>5 DEF WordAt
<1> QED
  BY <1>6 DEF a

(***************************************************************************)
(* A walk whose two reads see different tables finds what one of them      *)
(* holds: the one word in which they differ is the first or the second     *)
(* word of the walk or neither, and never both, as there is no pointer in  *)
(* the second level.                                                       *)
(***************************************************************************)
LEMMA TopIsWord ==
    ASSUME NEW v \in AnyView, NEW va
    PROVE  Top(v, va) = WordAt(v.tables, v.satp * Sim!Entries + Index(1, va))
BY EntryIsWord DEF Top, AnyView

\* A read that goes on from root v.satp sees the tables as they are.
Reread(v) == [satp |-> v.satp, tables |-> tables]

LEMMA RereadIsView ==
    ASSUME Apart
    PROVE  /\ Views \subseteq AnyView /\ DataViews \subseteq Views
           /\ \A v \in Views : Reread(v) \in Views
           /\ \A v \in DataViews : Reread(v) \in DataViews
<1>1. flushed = [satp |-> flushed.satp, tables |-> flushed.tables]
  BY DEF Apart, AnyView
<1>2. Reread(Now) = Now /\ Reread(flushed) \in Views
  BY <1>1 DEF Apart, Reread, Now, Views
<1>3. flushed.satp = satp => Reread(flushed) = Now
  BY DEF Reread, Now
<1> QED
  BY <1>2, <1>3 DEF Apart, Views, DataViews

LEMMA MixedWalk ==
    ASSUME Apart, NEW va \in Sim!Addr, NEW v \in Views, IsPointer(Top(v, va))
    PROVE  \E u \in {v, Reread(v)} : Low(tables, Top(v, va), va) = Found(u, va)
<1>1. v \in AnyView /\ Reread(v) \in AnyView /\ Reread(v).tables = tables
  BY RereadIsView DEF Reread
<1>2. \A u \in AnyView : IsPointer(Top(u, va)) =>
        Found(u, va) = Low(u.tables, Top(u, va), va)
  BY FoundInSteps DEF IsPointer, Sim!NoPte
<1>3. CASE Top(Reread(v), va) = Top(v, va)
  BY <1>1, <1>2, <1>3
<1>4. CASE Top(Reread(v), va) # Top(v, va)
  <2>1. v = flushed /\ v.tables \in Tables /\ tables \in Tables /\ v.satp \in Roots
    <3>1. v # Now
      BY <1>4 DEF Reread, Now
    <3> QED
      BY <1>1, <3>1 DEF Views, AnyView, Reread
  <2> DEFINE first  == v.satp * Sim!Entries + Index(1, va)
             second == Top(v, va).ppn * Sim!Entries + Index(2, va)
  <2>2. /\ Top(v, va) = WordAt(v.tables, first)
        /\ Top(Reread(v), va) = WordAt(tables, first)
        /\ Low(tables, Top(v, va), va) = WordAt(tables, second)
        /\ Low(v.tables, Top(v, va), va) = WordAt(v.tables, second)
    <3>1. Reread(v).satp = v.satp
      BY DEF Reread
    <3> QED
      BY <1>1, <2>1, <3>1, TopIsWord, EntryIsWord DEF Low
  <2>3. first # second
    <3>1. ~IsPointer(Low(v.tables, Top(v, va), va))
      <4>1. Index(1, va) \in 0 .. (Sim!Entries - 1)
            /\ Index(2, va) \in 0 .. (Sim!Entries - 1)
        BY IndexType
      <4> QED
        BY <2>1, <4>1, TablesAssumption DEF WellFormed, Top, Low
    <3> QED
      BY <2>1, <2>2, <3>1
  <2> HIDE DEF first, second
  <2>4. WordAt(tables, second) = WordAt(v.tables, second)
    BY <1>4, <2>1, <2>2, <2>3 DEF Apart, WordAt
  <2> QED
    BY <1>1, <1>2, <2>1, <2>2, <2>4
<1> QED
  BY <1>3, <1>4

-----------------------------------------------------------------------------
(***************************************************************************)
(* Wires.  The unit owes one answer at most, and asks only when it owes    *)
(* none or gets it in this cycle.                                          *)
(***************************************************************************)
left == IF LsuAck = "NONE" THEN owed ELSE Tail(owed)

LEMMA UnitShape ==
    ASSUME IInv
    PROVE  /\ owed = <<>> \/ \E o : owed = <<o>>
           /\ owed = <<>> <=> ~pending_lsu_e2_q
           /\ LsuAck # "NONE" => owed # <<>>
           /\ left = IF LsuAck = "NONE" THEN owed ELSE <<>>
           /\ pending_lsu_e2_q \in BOOLEAN /\ mem_unaligned_e2_q \in BOOLEAN
           /\ mem_q.addr \in DataAddr /\ mem_q.data = 0
           /\ mem_unaligned_e2_q => mem_q = Lsu!Nothing /\ owed = <<>>
<1>1. /\ owed = <<>> \/ \E o : owed = <<o>>
      /\ mem_unaligned_e2_q => mem_q = Lsu!Nothing /\ owed = <<>>
  BY DEF IInv, LsuP!IInv, LsuP!Pairing, LsuP!NoneOwed, LsuP!DummyOwed, LsuP!OneOwed,
     LsuP!Nothing, Lsu!Nothing
<1>2. /\ owed = <<>> <=> ~pending_lsu_e2_q
      /\ LsuAck # "NONE" => owed # <<>>
      /\ pending_lsu_e2_q \in BOOLEAN /\ mem_unaligned_e2_q \in BOOLEAN
  BY DEF IInv, LsuP!IInv, LsuP!Pairing, LsuP!Registers
<1>3. mem_q.addr \in DataAddr /\ mem_q.data = 0
  BY MmuAssumption DEF IInv, LsuP!IInv, LsuP!Registers, LsuP!Operation, LsuP!Nothing,
     Registers
<1>4. left = IF LsuAck = "NONE" THEN owed ELSE <<>>
  <2>1. \A o : Tail(<<o>>) = <<>>
    OBVIOUS
  <2> QED
    BY <1>1, <1>2, <2>1 DEF left
<1> QED
  BY <1>1, <1>2, <1>3, <1>4

LEMMA Asking ==
    ASSUME IInv
    PROVE  /\ Load <=> Asks("LOAD")
           /\ Store <=> Asks("STORE")
           /\ Lsu!Requesting => mem_q.op \in Lsu!Aligned
           /\ Lsu!Requesting => left = <<>> /\ LsuAck # "ERROR" /\ ~mem_unaligned_e2_q
<1>1. mem_q.op \notin Lsu!CacheOps
  BY MmuAssumption DEF IInv, Registers, Lsu!CacheOps
<1>2. Lsu!Requesting <=> mem_q.op \in Lsu!Aligned /\ ~Lsu!Delay
  BY <1>1 DEF Lsu!Requesting
<1>3. load_q  => mem_q.op = "LOAD"  /\ ~Lsu!Delay
  BY DEF IInv, Held, Lsu!Delay
<1>4. store_q => mem_q.op = "STORE" /\ ~Lsu!Delay
  BY DEF IInv, Held, Lsu!Delay
<1>5. /\ Load <=> Asks("LOAD")
      /\ Store <=> Asks("STORE")
  BY <1>2, <1>3, <1>4 DEF Load, Store, Asks, Lsu!Aligned
<1>6. Lsu!Requesting => left = <<>> /\ LsuAck # "ERROR"
  BY <1>2, UnitShape DEF Lsu!Delay
<1>7. Lsu!Requesting => ~mem_unaligned_e2_q
  BY <1>2, UnitShape DEF Lsu!Nothing, Lsu!Aligned
<1> QED
  BY <1>2, <1>5, <1>6, <1>7

(***************************************************************************)
(* The unit's request is accepted by the port or ends in a page fault,     *)
(* and never both.                                                         *)
(***************************************************************************)
Taken(accept) == ~SrcMmu /\ accept
Accepts(accept) == accept \in (IF Out THEN BOOLEAN ELSE {FALSE})

LEMMA UnitAccepts ==
    ASSUME IInv, NEW accept, Accepts(accept)
    PROVE  /\ accept \in BOOLEAN /\ LsuAccept(accept) \in BOOLEAN
           /\ LoadFault \/ StoreFault => Lsu!Requesting /\ ~Taken(accept)
           /\ Taken(accept) => Lsu!Requesting /\ (VmD => DtlbHit)
           /\ LsuAccept(accept) <=> LoadFault \/ StoreFault \/ Taken(accept)
           /\ LsuAccept(accept) => Lsu!Requesting
           /\ SrcMmu /\ accept => mem_req_q
<1>1. accept \in BOOLEAN /\ (accept => Out)
  BY DEF Accepts
<1>2. LsuAccept(accept) \in BOOLEAN
  BY <1>1 DEF LsuAccept
<1>3. LoadFault => Load /\ DtlbHit /\ VmD /\ mem_q.op = "LOAD" /\ Lsu!Requesting
  BY Asking DEF LoadFault, Denied, Asks
<1>4. StoreFault => Store /\ DtlbHit /\ VmD /\ mem_q.op = "STORE" /\ Lsu!Requesting
  BY Asking DEF StoreFault, Denied, Asks
<1>5. CpuOut => /\ Lsu!Requesting /\ (VmD => DtlbHit)
                /\ ~LoadFault /\ ~StoreFault
  BY <1>3, <1>4, Asking DEF CpuOut, Asks, Load, Store
<1>6. Taken(accept) => CpuOut
  BY <1>1 DEF Taken, Out
<1>7. SrcMmu /\ accept => mem_req_q
  BY <1>1 DEF Out
<1>8. LsuAccept(accept) <=> LoadFault \/ StoreFault \/ Taken(accept)
  BY <1>5, <1>6 DEF LsuAccept, Taken
<1> QED
  BY <1>1, <1>2, <1>3, <1>4, <1>5, <1>6, <1>7, <1>8

-----------------------------------------------------------------------------
(***************************************************************************)
(* The port.  First what the answer of this cycle leaves of it.            *)
(***************************************************************************)
AccessTo(a) == [mmu |-> FALSE, addr |-> a]

\* What is in the port when the walker reads (r) and the unit is owed (o).
Holds(p, r, o, x) ==
    p \in CASE r /\ o   -> {<<x, ReadOf>>, <<ReadOf, x>>}
            [] r /\ ~o  -> {<<ReadOf>>}
            [] ~r /\ o  -> {<<x>>}
            [] ~r /\ ~o -> {<<>>}

portLeft == IF port_ack = "NONE" THEN port ELSE Tail(port)

ReadsLeft == Reads /\ ~RespMmu
OwesLeft  == Owes /\ LsuAck = "NONE"

LEMMA Heads ==
    ASSUME NEW x, NEW y
    PROVE  /\ Head(<<x>>) = x /\ Tail(<<x>>) = <<>> /\ <<x>> # <<>>
           /\ Head(<<x, y>>) = x /\ Tail(<<x, y>>) = <<y>> /\ <<x, y>> # <<>>
           /\ Append(<<>>, x) = <<x>> /\ Append(<<x>>, y) = <<x, y>>
<1>1. Head(<<x>>) = x /\ Tail(<<x>>) = <<>> /\ <<x>> # <<>>
  OBVIOUS
<1>2. Head(<<x, y>>) = x /\ <<x, y>> # <<>>
  OBVIOUS
<1>3. Tail(<<x, y>>) = <<y>>
  OBVIOUS
<1>4. Append(<<>>, x) = <<x>>
  OBVIOUS
<1>5. Append(<<x>>, y) = <<x, y>>
  <2>1. Append(<<x>>, y) = [i \in 1 .. 2 |-> IF i = 1 THEN x ELSE y]
    OBVIOUS
  <2>2. <<x, y>> = [i \in 1 .. 2 |-> IF i = 1 THEN x ELSE y]
    OBVIOUS
  <2> QED
    BY <2>1, <2>2
<1> QED
  BY <1>1, <1>2, <1>3, <1>4, <1>5

LEMMA Answers ==
    ASSUME IInv
    PROVE  /\ RespMmu => Reads /\ Head(port) = ReadOf
           /\ port_ack # "NONE" /\ ~RespMmu => Owes /\ LsuAck = port_ack
           /\ \E a : Holds(portLeft, ReadsLeft, OwesLeft, AccessTo(a))
<1>0. PICK a : Holds(port, Reads, Owes, AccessTo(a))
  BY DEF IInv, InPort, Holds, AccessTo
<1> DEFINE x == AccessTo(a)
<1> SUFFICES /\ RespMmu => Reads /\ Head(port) = ReadOf
             /\ port_ack # "NONE" /\ ~RespMmu => Owes /\ LsuAck = port_ack
             /\ Holds(portLeft, ReadsLeft, OwesLeft, x)
  OBVIOUS
<1>1. Holds(port, Reads, Owes, x)
  BY <1>0
<1>2. x.mmu = FALSE /\ ReadOf.mmu = TRUE
  BY DEF AccessTo, ReadOf
<1>3. port_ack = "NONE" => ~RespMmu /\ (~Faulted => LsuAck = "NONE")
  BY DEF RespMmu, LsuAck, Faulted
<1>4. port_ack # "NONE" => port # <<>>
  BY DEF IInv, InPort
<1>5. /\ RespMmu <=> port_ack # "NONE" /\ Head(port).mmu
      /\ ~Faulted => LsuAck = IF RespMmu THEN "NONE" ELSE port_ack
      /\ Owes => ~Faulted
      /\ Reads \in BOOLEAN /\ Owes \in BOOLEAN
  BY DEF RespMmu, LsuAck, Faulted, Owes, Reads
<1> HIDE DEF x, Reads, Owes, ReadOf, RespMmu, Faulted, LsuAck
<1>6. CASE Reads /\ Owes
  <2>1. port = <<x, ReadOf>> \/ port = <<ReadOf, x>>
    BY <1>1, <1>6 DEF Holds
  <2>2. CASE port_ack = "NONE"
    BY <1>1, <1>3, <1>5, <1>6, <2>2 DEF portLeft, ReadsLeft, OwesLeft
  <2>3. CASE port_ack # "NONE" /\ port = <<x, ReadOf>>
    <3>1. ~RespMmu /\ portLeft = <<ReadOf>>
      BY <1>2, <1>5, <2>3, Heads DEF portLeft
    <3> QED
      BY <1>1, <1>5, <1>6, <2>3, <3>1 DEF ReadsLeft, OwesLeft, Holds
  <2>4. CASE port_ack # "NONE" /\ port = <<ReadOf, x>>
    <3>1. RespMmu /\ portLeft = <<x>> /\ Head(port) = ReadOf
      BY <1>2, <1>5, <2>4, Heads DEF portLeft
    <3> QED
      BY <1>1, <1>5, <1>6, <2>4, <3>1 DEF ReadsLeft, OwesLeft, Holds
  <2> QED
    BY <2>1, <2>2, <2>3, <2>4
<1>7. CASE Reads /\ ~Owes
  <2>1. port = <<ReadOf>>
    BY <1>1, <1>7 DEF Holds
  <2>2. port_ack # "NONE" => RespMmu
    BY <1>2, <1>5, <2>1, Heads
  <2>3. portLeft = IF RespMmu THEN <<>> ELSE <<ReadOf>>
    BY <1>3, <2>1, <2>2, Heads DEF portLeft
  <2>4. Head(port) = ReadOf
    BY <2>1, Heads
  <2> QED
    BY <1>1, <1>7, <2>2, <2>3, <2>4 DEF ReadsLeft, OwesLeft, Holds
<1>8. CASE ~Reads /\ Owes
  <2>1. port = <<x>>
    BY <1>1, <1>8 DEF Holds
  <2>2. ~RespMmu
    BY <1>2, <1>5, <2>1, Heads
  <2>3. LsuAck = port_ack
    BY <1>5, <1>8, <2>2
  <2>4. portLeft = IF LsuAck = "NONE" THEN <<x>> ELSE <<>>
    BY <2>1, <2>3, Heads DEF portLeft
  <2> QED
    BY <1>1, <1>8, <2>2, <2>3, <2>4 DEF ReadsLeft, OwesLeft, Holds
<1>9. CASE ~Reads /\ ~Owes
  <2>1. port = <<>>
    BY <1>1, <1>9 DEF Holds
  <2>2. port_ack = "NONE" /\ ~RespMmu /\ portLeft = <<>>
    BY <1>3, <1>4, <2>1 DEF portLeft
  <2> QED
    BY <1>1, <1>9, <2>2 DEF ReadsLeft, OwesLeft, Holds
<1> QED
  BY <1>5, <1>6, <1>7, <1>8, <1>9

-----------------------------------------------------------------------------
(***************************************************************************)
(* One clock edge: what the core decodes is nothing or an operation of the *)
(* program, and the rest of it does one of five things.                    *)
(***************************************************************************)
Decodes == {[op |-> op, addr |-> addr, data |-> 0] : op \in Ops, addr \in DataAddr}

Control(decoded, accept) ==
    \/ decoded \in Decodes /\ Issue(accept)
    \/ /\ decoded = Lsu!Nothing
       /\ IssueCsr(accept) \/ Proceed \/ SwitchPriv \/ Remap

Ticks(decoded, rd, iaccept, accept) ==
    /\ Accepts(accept) /\ rd \in BOOLEAN
    /\ iaccept \in IF FetchOut(rd) THEN BOOLEAN ELSE {FALSE}
    /\ Control(decoded, accept)
    /\ Clock(decoded, rd, iaccept, accept)

LEMMA StepTicks ==
    ASSUME Next
    PROVE  \E decoded, rd, iaccept, accept : Ticks(decoded, rd, iaccept, accept)
<1>0. PICK rd \in BOOLEAN, accept \in (IF Out THEN BOOLEAN ELSE {FALSE}) :
         \E iaccept \in IF FetchOut(rd) THEN BOOLEAN ELSE {FALSE} :
            Step(rd, iaccept, accept)
  BY DEF Next
<1>1. PICK iaccept \in (IF FetchOut(rd) THEN BOOLEAN ELSE {FALSE}) :
         Step(rd, iaccept, accept)
  BY <1>0
<1>2. Accepts(accept)
  BY DEF Accepts
<1>3. \/ \E op \in Ops, addr \in DataAddr :
            /\ Issue(accept)
            /\ Clock([op |-> op, addr |-> addr, data |-> 0], rd, iaccept, accept)
      \/ /\ IssueCsr(accept) \/ Proceed \/ SwitchPriv \/ Remap
         /\ Clock(Lsu!Nothing, rd, iaccept, accept)
  BY <1>1 DEF Step
<1>4. ASSUME NEW op \in Ops, NEW addr \in DataAddr, Issue(accept),
             Clock([op |-> op, addr |-> addr, data |-> 0], rd, iaccept, accept)
      PROVE  Ticks([op |-> op, addr |-> addr, data |-> 0], rd, iaccept, accept)
  <2>1. [op |-> op, addr |-> addr, data |-> 0] \in Decodes
    BY DEF Decodes
  <2> QED
    BY <1>2, <1>4, <2>1 DEF Ticks, Control
<1>5. ASSUME IssueCsr(accept) \/ Proceed \/ SwitchPriv \/ Remap,
             Clock(Lsu!Nothing, rd, iaccept, accept)
      PROVE  Ticks(Lsu!Nothing, rd, iaccept, accept)
  BY <1>2, <1>5 DEF Ticks, Control
<1> QED
  BY <1>3, <1>4, <1>5

\* Nothing is issued while the unit waits, nor does the core do anything but
\* write to the tables.
LEMMA Quiet ==
    ASSUME IInv, NEW accept, NEW decoded, Accepts(accept), Control(decoded, accept),
           Lsu!Requesting, ~LsuAccept(accept)
    PROVE  csr = "NONE" /\ csr' = "NONE" /\ priv' = priv
<1>1. mem_q # Lsu!Nothing
  BY Asking DEF Lsu!Nothing, Lsu!Aligned
<1>2. csr = "NONE"
  BY <1>1 DEF IInv, Drained
<1>3. Lsu!Stall(LsuAccept(accept))
  BY DEF Lsu!Stall
<1> QED
  BY <1>1, <1>2, <1>3 DEF Control, Issue, IssueCsr, Proceed, SwitchPriv, Remap

(***************************************************************************)
(* The unit: what it asked for waits, or is owed an answer.                *)
(***************************************************************************)
LEMMA UnitEdge ==
    ASSUME IInv, NEW decoded, NEW rd, NEW iaccept, NEW accept,
           Ticks(decoded, rd, iaccept, accept)
    PROVE  /\ owed' = IF LsuAccept(accept) THEN <<mem_q>> ELSE left
           /\ mem_q' \in {mem_q, Lsu!Nothing, decoded}
           /\ Lsu!Requesting /\ ~LsuAccept(accept) =>
                mem_q' = mem_q /\ ~pending_lsu_e2_q'
           /\ load_q'  <=> Asks("LOAD")  /\ ~LsuAccept(accept)
           /\ store_q' <=> Asks("STORE") /\ ~LsuAccept(accept)
           /\ Faulted' <=> LoadFault \/ StoreFault
           /\ LsuAccept(accept) \in BOOLEAN
<1>1. Accepts(accept) /\ Clock(decoded, rd, iaccept, accept)
  BY DEF Ticks
<1>2. /\ LsuAccept(accept) => Lsu!Requesting
      /\ LsuAccept(accept) \in BOOLEAN
  BY <1>1, UnitAccepts
<1>3. owed' = IF LsuAccept(accept) THEN <<mem_q>> ELSE left
  <2>1. owed' = IF Lsu!Requesting /\ LsuAccept(accept) THEN Append(left, mem_q) ELSE left
    BY <1>1 DEF Clock, History, left
  <2>2. Append(<<>>, mem_q) = <<mem_q>>
    OBVIOUS
  <2> QED
    BY <1>2, <2>1, <2>2, Asking
<1>4. mem_q' \in {mem_q, Lsu!Nothing, decoded}
  BY <1>1 DEF Clock, Lsu!RequestRegister
<1>5. Lsu!Requesting /\ ~LsuAccept(accept) => mem_q' = mem_q /\ ~pending_lsu_e2_q'
  <2> SUFFICES ASSUME Lsu!Requesting, ~LsuAccept(accept)
               PROVE  mem_q' = mem_q /\ ~pending_lsu_e2_q'
    OBVIOUS
  <2>1. left = <<>> /\ LsuAck # "ERROR" /\ ~mem_unaligned_e2_q
    BY Asking
  <2>2. mem_q' = mem_q
    BY <1>1, <2>1 DEF Clock, Lsu!RequestRegister
  <2>3. pending_lsu_e2_q => LsuAck # "NONE"
    BY <2>1, UnitShape
  <2>4. ~pending_lsu_e2_q'
    BY <1>1, <2>3 DEF Clock, Lsu!Tracking, Lsu!Answered
  <2> QED
    BY <2>2, <2>4
<1>6. /\ load_q'  <=> Asks("LOAD")  /\ ~LsuAccept(accept)
      /\ store_q' <=> Asks("STORE") /\ ~LsuAccept(accept)
  BY <1>1, Asking DEF Clock, Waiting, Load, Store
<1>7. Faulted' <=> LoadFault \/ StoreFault
  BY <1>1 DEF Clock, Faults, Faulted
<1> QED
  BY <1>2, <1>3, <1>4, <1>5, <1>6, <1>7

LEMMA HeldWhileAsking ==
    ASSUME IInv, NEW decoded, NEW rd, NEW iaccept, NEW accept,
           Ticks(decoded, rd, iaccept, accept)
    PROVE  /\ load_q'  => mem_q'.op = "LOAD"  /\ ~pending_lsu_e2_q'
           /\ store_q' => mem_q'.op = "STORE" /\ ~pending_lsu_e2_q'
BY UnitEdge DEF Asks

(***************************************************************************)
(* The walker: the address it walks for stays while it does.               *)
(***************************************************************************)
LEMMA DataWalkHeld ==
    ASSUME IInv, NEW decoded, NEW rd, NEW iaccept, NEW accept,
           Ticks(decoded, rd, iaccept, accept), DataMiss, ~Ends(TRUE)
    PROVE  mem_q' = mem_q /\ (load_q' \/ store_q') /\ VmD' /\ ~DtlbHit'
<1>1. /\ Accepts(accept) /\ Clock(decoded, rd, iaccept, accept)
      /\ Control(decoded, accept)
  BY DEF Ticks
<1>2. Access /\ VmD /\ ~DtlbHit
  BY DEF DataMiss
<1>3. ~LsuAccept(accept)
  BY <1>1, <1>2, UnitAccepts DEF LoadFault, StoreFault, Denied
<1>4. Lsu!Requesting /\ (Asks("LOAD") \/ Asks("STORE"))
  BY <1>2, Asking DEF Access, Asks
<1>5. mem_q' = mem_q /\ (load_q' \/ store_q')
  BY <1>3, <1>4, UnitEdge
<1>6. priv' = priv
  BY <1>1, <1>3, <1>4, Quiet
<1>7. dtlb' = Tlb(~Flush /\ dtlb.valid,
                  IF ~Flush /\ dtlb.valid THEN dtlb.page ELSE 0, dtlb.entry)
  BY <1>1 DEF Clock, Dtlb, DtlbValid
<1>8. /\ dtlb'.valid = (~Flush /\ dtlb.valid)
      /\ dtlb'.page = IF ~Flush /\ dtlb.valid THEN dtlb.page ELSE 0
  BY <1>7 DEF Tlb
<1>9. VmD' /\ ~DtlbHit'
  BY <1>2, <1>5, <1>6, <1>8 DEF VmD, DtlbHit, Matches
<1> QED
  BY <1>5, <1>9

LEMMA FetchWalkHeld ==
    ASSUME IInv, NEW decoded, NEW rd, NEW iaccept, NEW accept,
           Ticks(decoded, rd, iaccept, accept),
           VmI, ~Matches(itlb, pc_f_q), ~Ends(FALSE)
    PROVE  pc_f_q' = pc_f_q /\ VmI' /\ ~Matches(itlb', pc_f_q')
<1>1. /\ Clock(decoded, rd, iaccept, accept)
      /\ iaccept \in (IF FetchOut(rd) THEN BOOLEAN ELSE {FALSE})
  BY DEF Ticks
<1>2. ~ItlbHit(rd)
  BY DEF ItlbHit
<1>3. ~FetchAccept(rd, iaccept)
  BY <1>2 DEF FetchAccept, PcFault, FetchOut
<1>4. pc_f_q' = pc_f_q /\ priv_f_q' = priv_f_q
  BY <1>1, <1>3 DEF Clock, FetchUnit
<1>5. itlb' = Tlb(IF Flush THEN FALSE
                  ELSE IF state_q # "IDLE" /\ ~dtlb_req_q
                  THEN state_q = "UPDATE" /\ itlb.page = Sim!PageOf(pc_f_q)
                  ELSE itlb.valid, itlb.page, itlb.entry)
  BY <1>1 DEF Clock, Itlb
<1>6. itlb'.page = itlb.page /\ (itlb'.valid => itlb.valid)
  BY <1>5 DEF Tlb, Ends, IInv, Registers
<1>7. ~Matches(itlb', pc_f_q')
  BY <1>4, <1>6 DEF Matches
<1> QED
  BY <1>4, <1>7 DEF VmI

LEMMA HeldEdge ==
    ASSUME IInv, NEW decoded, NEW rd, NEW iaccept, NEW accept,
           Ticks(decoded, rd, iaccept, accept)
    PROVE  Held' /\ (state_q' # "IDLE" => WalkFor' = RequestAddr)
<1>1. Clock(decoded, rd, iaccept, accept)
  BY DEF Ticks
<1>2. /\ load_q'  => mem_q'.op = "LOAD"  /\ ~pending_lsu_e2_q'
      /\ store_q' => mem_q'.op = "STORE" /\ ~pending_lsu_e2_q'
  BY HeldWhileAsking
<1>3. /\ DataMiss /\ ~Ends(TRUE) =>
           mem_q' = mem_q /\ (load_q' \/ store_q') /\ VmD' /\ ~DtlbHit'
      /\ VmI /\ ~Matches(itlb, pc_f_q) /\ ~Ends(FALSE) =>
           pc_f_q' = pc_f_q /\ VmI' /\ ~Matches(itlb, pc_f_q)'
  BY DataWalkHeld, FetchWalkHeld
<1>4. CASE state_q' = "IDLE"
  BY <1>2, <1>4 DEF Held
<1>5. CASE StartWalk(rd)
  <2>1. state_q = "IDLE" /\ Miss(rd) /\ dtlb_req_q' = DataMiss
    BY <1>5 DEF StartWalk
  <2>2. CASE DataMiss
    BY <1>2, <1>3, <2>1, <2>2 DEF Held, WalkFor, RequestAddr, Ends
  <2>3. CASE ~DataMiss
    <3>1. VmI /\ ~Matches(itlb, pc_f_q)
      BY <2>1, <2>3 DEF Miss, ItlbHit
    <3> QED
      BY <1>2, <1>3, <2>1, <2>3, <3>1 DEF Held, WalkFor, RequestAddr, Ends
  <2> QED
    BY <2>2, <2>3
<1>6. CASE state_q # "IDLE" /\ state_q' # "IDLE" /\ state_q # "UPDATE"
           /\ dtlb_req_q' = dtlb_req_q
  <2>1. CASE dtlb_req_q
    <3>1. DataMiss
      BY <1>6, <2>1 DEF IInv, Held, DataMiss, Access, Load, Store
    <3> QED
      BY <1>2, <1>3, <1>6, <2>1, <3>1 DEF Held, WalkFor, RequestAddr, Ends
  <2>2. CASE ~dtlb_req_q
    <3>1. VmI /\ ~Matches(itlb, pc_f_q)
      BY <1>6, <2>2 DEF IInv, Held
    <3> QED
      BY <1>2, <1>3, <1>6, <2>2, <3>1 DEF Held, WalkFor, RequestAddr, Ends
  <2> QED
    BY <2>1, <2>2
<1>7. Walker(rd)
  BY <1>1 DEF Clock
<1> QED
  BY <1>4, <1>5, <1>6, <1>7 DEF Walker, LevelFirst, LevelSecond, EndWalk, WalkReset,
     NoWalk, walkVars

(***************************************************************************)
(* How far the walk is, and what it has put on the port.                   *)
(***************************************************************************)
LEMMA WalkerCases ==
    ASSUME IInv, NEW decoded, NEW rd, NEW iaccept, NEW accept,
           Ticks(decoded, rd, iaccept, accept)
    PROVE  /\ mem_req_q' <=> \/ state_q = "IDLE" /\ Miss(rd)
                             \/ state_q = "LEVEL_FIRST" /\ Pointer
                             \/ mem_req_q /\ ~(SrcMmu /\ accept)
           /\ \/ /\ state_q = "IDLE" /\ state_q' = "LEVEL_FIRST" /\ mem_req_q'
              \/ /\ state_q = "LEVEL_FIRST" /\ Reads /\ RespMmu
                 /\ state_q' = "LEVEL_SECOND" /\ mem_req_q'
              \/ /\ Reads /\ RespMmu
                 /\ state_q' = "UPDATE" /\ ~mem_req_q'
              \/ /\ state_q = "UPDATE" /\ state_q' = "IDLE" /\ ~mem_req_q'
              \/ /\ UNCHANGED walkVars /\ ~(Reads /\ RespMmu)
                 /\ mem_req_q' = (mem_req_q /\ ~(SrcMmu /\ accept))
<1>1. Walker(rd) /\ WalkRequest(rd, accept)
  BY DEF Ticks, Clock
<1>2. mem_req_q' <=> \/ state_q = "IDLE" /\ Miss(rd)
                     \/ state_q = "LEVEL_FIRST" /\ Pointer
                     \/ mem_req_q /\ ~(SrcMmu /\ accept)
  BY <1>1 DEF WalkRequest
<1>3. /\ RespMmu => Reads
      /\ Reads <=> state_q \in Levels /\ ~mem_req_q
      /\ mem_req_q => state_q \in Levels
      /\ mem_req_q \in BOOLEAN /\ mem_req_q' \in BOOLEAN
  BY <1>1, Answers DEF Reads, IInv, InPort, Registers, WalkRequest
<1>4. Pointer => RespMmu
  BY DEF Pointer, Present
<1> HIDE DEF Reads, Pointer
<1>5. CASE StartWalk(rd)
  BY <1>2, <1>5 DEF StartWalk
<1>6. CASE LevelFirst
  BY <1>2, <1>3, <1>6 DEF LevelFirst
<1>7. CASE LevelSecond
  BY <1>2, <1>3, <1>7 DEF LevelSecond
<1>8. CASE EndWalk
  BY <1>2, <1>3, <1>8 DEF EndWalk, WalkReset, Levels
<1>9. CASE NoWalk(rd)
  <2>1. ~(state_q = "IDLE" /\ Miss(rd)) /\ ~(state_q = "LEVEL_FIRST" /\ Pointer)
    BY <1>4, <1>9 DEF NoWalk
  <2>2. ~(Reads /\ RespMmu)
    BY <1>3, <1>9 DEF NoWalk, Levels
  <2>3. mem_req_q' = (mem_req_q /\ ~(SrcMmu /\ accept))
    BY <1>2, <1>3, <2>1
  <2> QED
    BY <1>2, <1>9, <2>2, <2>3 DEF NoWalk
<1> QED
  BY <1>1, <1>5, <1>6, <1>7, <1>8, <1>9 DEF Walker

LEMMA ReadsEdge ==
    ASSUME IInv, NEW decoded, NEW rd, NEW iaccept, NEW accept,
           Ticks(decoded, rd, iaccept, accept)
    PROVE  /\ Reads' <=> ReadsLeft \/ (SrcMmu /\ accept)
           /\ Reads' => pte_addr_q' = pte_addr_q
           /\ ~(ReadsLeft /\ SrcMmu /\ accept)
           /\ mem_req_q' => state_q' \in Levels
<1>1. /\ SrcMmu /\ accept => mem_req_q
      /\ mem_req_q => state_q \in Levels
      /\ mem_req_q \in BOOLEAN
  BY UnitAccepts DEF Ticks, IInv, InPort, Registers
<1>2. /\ ~(ReadsLeft /\ SrcMmu /\ accept)
      /\ SrcMmu /\ accept => ~Reads
  BY <1>1 DEF ReadsLeft, Reads
<1>3. /\ RespMmu => Reads
      /\ Reads <=> state_q \in Levels /\ ~mem_req_q
      /\ Reads' <=> state_q' \in Levels /\ ~mem_req_q'
      /\ ReadsLeft <=> Reads /\ ~RespMmu
  BY Answers DEF Reads, ReadsLeft
<1> HIDE DEF Reads, ReadsLeft
<1>4. CASE state_q = "IDLE" /\ state_q' = "LEVEL_FIRST" /\ mem_req_q'
  BY <1>1, <1>2, <1>3, <1>4 DEF Levels
<1>5. CASE /\ Reads /\ RespMmu
           /\ \/ state_q' = "LEVEL_SECOND" /\ mem_req_q'
              \/ state_q' = "UPDATE" /\ ~mem_req_q'
  BY <1>1, <1>2, <1>3, <1>5 DEF Levels
<1>6. CASE state_q = "UPDATE" /\ state_q' = "IDLE" /\ ~mem_req_q'
  BY <1>1, <1>2, <1>3, <1>6 DEF Levels
<1>7. CASE /\ UNCHANGED walkVars /\ ~(Reads /\ RespMmu)
           /\ mem_req_q' = (mem_req_q /\ ~(SrcMmu /\ accept))
  BY <1>1, <1>2, <1>3, <1>7 DEF walkVars
<1>8. \/ state_q = "IDLE" /\ state_q' = "LEVEL_FIRST" /\ mem_req_q'
      \/ /\ Reads /\ RespMmu
         /\ \/ state_q' = "LEVEL_SECOND" /\ mem_req_q'
            \/ state_q' = "UPDATE" /\ ~mem_req_q'
      \/ state_q = "UPDATE" /\ state_q' = "IDLE" /\ ~mem_req_q'
      \/ /\ UNCHANGED walkVars /\ ~(Reads /\ RespMmu)
         /\ mem_req_q' = (mem_req_q /\ ~(SrcMmu /\ accept))
  BY WalkerCases
<1> QED
  BY <1>4, <1>5, <1>6, <1>7, <1>8

LEMMA OwesEdge ==
    ASSUME IInv, NEW decoded, NEW rd, NEW iaccept, NEW accept,
           Ticks(decoded, rd, iaccept, accept)
    PROVE  /\ Owes' <=> OwesLeft \/ Taken(accept)
           /\ ~(OwesLeft /\ Taken(accept))
           /\ Faulted' => owed' # <<>>
<1>1. /\ owed' = IF LsuAccept(accept) THEN <<mem_q>> ELSE left
      /\ Faulted' <=> LoadFault \/ StoreFault
  BY UnitEdge
<1>2. /\ LoadFault \/ StoreFault => Lsu!Requesting /\ ~Taken(accept)
      /\ Taken(accept) => Lsu!Requesting
      /\ LsuAccept(accept) <=> LoadFault \/ StoreFault \/ Taken(accept)
  BY UnitAccepts DEF Ticks
<1>3. Lsu!Requesting => left = <<>>
  BY Asking
<1>4. OwesLeft <=> left # <<>>
  <2>1. left = IF LsuAck = "NONE" THEN owed ELSE <<>>
    BY UnitShape
  <2>2. Faulted => LsuAck = "ERROR"
    BY DEF Faulted, LsuAck
  <2> QED
    BY <2>1, <2>2 DEF OwesLeft, Owes
<1>5. <<mem_q>> # <<>>
  OBVIOUS
<1> QED
  BY <1>1, <1>2, <1>3, <1>4, <1>5 DEF Owes

LEMMA PortEdge ==
    ASSUME IInv, NEW decoded, NEW rd, NEW iaccept, NEW accept,
           Ticks(decoded, rd, iaccept, accept)
    PROVE  InPort'
<1>1. PICK a : Holds(portLeft, ReadsLeft, OwesLeft, AccessTo(a))
  BY Answers
<1>2. port' = IF accept THEN Append(portLeft, Request) ELSE portLeft
  BY DEF Ticks, Clock, Port, portLeft
<1>3. Request = IF SrcMmu THEN ReadOf ELSE AccessTo(CpuAddr)
  BY DEF Request, ReadOf, AccessTo
<1>4. accept \in BOOLEAN /\ (Taken(accept) <=> accept /\ ~SrcMmu)
  BY UnitAccepts DEF Ticks, Taken
<1>5. /\ Reads' <=> ReadsLeft \/ (SrcMmu /\ accept)
      /\ ~(ReadsLeft /\ SrcMmu /\ accept)
      /\ Reads' => ReadOf' = ReadOf
  <2>1. /\ Reads' <=> ReadsLeft \/ (SrcMmu /\ accept)
        /\ ~(ReadsLeft /\ SrcMmu /\ accept)
    BY ReadsEdge
  <2>2. Reads' => pte_addr_q' = pte_addr_q
    BY ReadsEdge
  <2> QED
    BY <2>1, <2>2 DEF ReadOf
<1>6. /\ Owes' <=> OwesLeft \/ Taken(accept)
      /\ ~(OwesLeft /\ Taken(accept))
  BY OwesEdge
<1> HIDE DEF Reads, Owes, ReadsLeft, OwesLeft, ReadOf, SrcMmu, AccessTo
<1>7. \E c : \/ /\ Reads' /\ Owes'
                /\ port' \in {<<AccessTo(c), ReadOf>>, <<ReadOf, AccessTo(c)>>}
             \/ Reads' /\ ~Owes' /\ port' = <<ReadOf>>
             \/ ~Reads' /\ Owes' /\ port' = <<AccessTo(c)>>
             \/ ~Reads' /\ ~Owes' /\ port' = <<>>
  <2>1. CASE ~accept
    BY <1>1, <1>2, <1>4, <1>5, <1>6, <2>1 DEF Holds
  <2>2. CASE accept /\ SrcMmu
    <3>1. port' = Append(portLeft, ReadOf) /\ ~ReadsLeft /\ Reads' /\ (Owes' <=> OwesLeft)
      BY <1>2, <1>3, <1>4, <1>5, <1>6, <2>2
    <3>2. portLeft = IF OwesLeft THEN <<AccessTo(a)>> ELSE <<>>
      BY <1>1, <3>1 DEF Holds
    <3>3. port' = IF OwesLeft THEN <<AccessTo(a), ReadOf>> ELSE <<ReadOf>>
      BY <3>1, <3>2, Heads
    <3> QED
      BY <3>1, <3>3
  <2>3. CASE accept /\ ~SrcMmu
    <3>1. /\ port' = Append(portLeft, AccessTo(CpuAddr)) /\ ~OwesLeft
          /\ Owes' /\ (Reads' <=> ReadsLeft)
      BY <1>2, <1>3, <1>4, <1>5, <1>6, <2>3
    <3>2. portLeft = IF ReadsLeft THEN <<ReadOf>> ELSE <<>>
      BY <1>1, <3>1 DEF Holds
    <3>3. port' = IF ReadsLeft THEN <<ReadOf, AccessTo(CpuAddr)>>
                  ELSE <<AccessTo(CpuAddr)>>
      BY <3>1, <3>2, Heads
    <3> QED
      BY <3>1, <3>3
  <2> QED
    BY <1>4, <2>1, <2>2, <2>3
<1>8. \E c : Holds(port, Reads, Owes, AccessTo(c))'
  BY <1>5, <1>7 DEF Holds
<1>9. port_ack' \in {"NONE", "OK"} /\ (port' = <<>> => port_ack' = "NONE")
  BY DEF Ticks, Clock, Port
<1>10. mem_req_q' => state_q' \in Levels
  BY ReadsEdge
<1>11. Faulted' => owed' # <<>>
  BY OwesEdge
<1> QED
  BY <1>8, <1>9, <1>10, <1>11 DEF InPort, Holds, AccessTo

-----------------------------------------------------------------------------
(***************************************************************************)
(* Every step is one of RiscvLsu: the answers the unit gets are to what it *)
(* asked for.                                                              *)
(***************************************************************************)
LEMMA AnswersToUnit ==
    ASSUME InPort', IInv, NEW decoded, NEW rd, NEW iaccept, NEW accept,
           Ticks(decoded, rd, iaccept, accept)
    PROVE  LsuAck' \in IF owed' = <<>> THEN {"NONE"} ELSE {"NONE", "OK", "ERROR"}
<1>1. PICK a : Holds(port, Reads, Owes, AccessTo(a))'
  BY DEF InPort, Holds, AccessTo
<1>2. port_ack' \in {"NONE", "OK"} /\ (port' = <<>> => port_ack' = "NONE")
      /\ (Faulted' => owed' # <<>>)
  BY DEF InPort
<1>3. CASE Faulted'
  BY <1>2, <1>3 DEF Faulted, LsuAck
<1>4. CASE ~Faulted' /\ ~Owes'
  <2>1. port' = <<>> \/ port' = <<ReadOf'>>
    BY <1>1, <1>4 DEF Holds
  <2>2. port' = <<ReadOf'>> => Head(port').mmu
    BY Heads DEF ReadOf
  <2>3. LsuAck' = "NONE"
    BY <1>2, <1>4, <2>1, <2>2 DEF LsuAck, RespMmu, Faulted
  <2> QED
    BY <2>3
<1>5. CASE ~Faulted' /\ Owes'
  BY <1>2, <1>5 DEF Faulted, Owes, LsuAck
<1> QED
  BY <1>3, <1>4, <1>5

LEMMA UnitStep ==
    ASSUME InPort', IInv, NEW decoded, NEW rd, NEW iaccept, NEW accept,
           Ticks(decoded, rd, iaccept, accept)
    PROVE  Lsu!Next
<1>1. /\ Accepts(accept) /\ Control(decoded, accept)
      /\ Clock(decoded, rd, iaccept, accept)
  BY DEF Ticks
<1>2. LsuAccept(accept) \in BOOLEAN /\ (LsuAccept(accept) => Lsu!Requesting)
  BY <1>1, UnitAccepts
<1>3. Lsu!Port(LsuAccept(accept))
  <2>1. LsuAccept(accept) => mem_q.op \notin Lsu!CacheOps
    BY <1>2, Asking DEF Lsu!Aligned, Lsu!CacheOps
  <2>2. owed' = IF Lsu!Requesting /\ LsuAccept(accept)
                THEN Append(IF LsuAck # "NONE" THEN Tail(owed) ELSE owed, mem_q)
                ELSE IF LsuAck # "NONE" THEN Tail(owed) ELSE owed
    BY <1>1 DEF Clock, History
  <2>3. [a \in DataAddr |-> 0] =
          IF LsuAck = "OK" /\ Head(owed).op = "STORE"
          THEN [[a \in DataAddr |-> 0] EXCEPT ![Head(owed).addr] = Head(owed).data]
          ELSE [a \in DataAddr |-> 0]
    <3>1. LsuAck = "OK" => Head(owed).data = 0
      BY UnitShape DEF IInv, Registers
    <3> QED
      BY <3>1
  <2>4. LsuAck' \in IF owed' = <<>> THEN {"NONE"} ELSE {"NONE", "OK", "ERROR"}
    BY AnswersToUnit
  <2> QED
    BY <2>1, <2>2, <2>3, <2>4 DEF Lsu!Port, Lsu!Answered
<1>4. Lsu!Edge(decoded, LsuAccept(accept))
  BY <1>1, <1>3 DEF Clock, Lsu!Edge
<1>5. CASE decoded = Lsu!Nothing
  BY <1>2, <1>4, <1>5 DEF Lsu!Next, Lsu!Wait
<1>6. CASE decoded # Lsu!Nothing
  <2>1. decoded \in Decodes /\ ~Lsu!Stall(LsuAccept(accept))
    BY <1>1, <1>6 DEF Control, Issue
  <2>2. PICK op \in Ops, addr \in DataAddr :
          decoded = [op |-> op, addr |-> addr, data |-> 0]
    BY <2>1 DEF Decodes
  <2>3. op \in Lsu!LsuOps /\ op \notin Lsu!CacheOps /\ 0 \in DataAddr
    BY MmuAssumption DEF Lsu!LsuOps, Lsu!CacheOps, Lsu!Aligned, Lsu!Misaligned
  <2>4. Lsu!Issue(op, addr, 0, LsuAccept(accept))
    BY <1>4, <2>1, <2>2, <2>3 DEF Lsu!Issue
  <2> QED
    BY <1>2, <2>3, <2>4 DEF Lsu!Next
<1> QED
  BY <1>5, <1>6

(***************************************************************************)
(* Types, and what is empty when a CSR instruction is on its way.          *)
(***************************************************************************)
LEMMA RegistersEdge ==
    ASSUME IInv, NEW decoded, NEW rd, NEW iaccept, NEW accept,
           Ticks(decoded, rd, iaccept, accept)
    PROVE  Registers'
<1>1. /\ Control(decoded, accept) /\ Clock(decoded, rd, iaccept, accept)
      /\ Accepts(accept)
  BY DEF Ticks
<1>2. mem_q'.op \in Ops \cup {"NONE"} /\ mem_q'.data = 0
  BY <1>1, UnitEdge DEF Control, Decodes, Lsu!Nothing, IInv, Registers
<1>3. owed' # <<>> => Head(owed').data = 0
  <2>1. owed' = IF LsuAccept(accept) THEN <<mem_q>> ELSE left
    BY UnitEdge
  <2>2. left = <<>> \/ left = owed
    BY UnitShape
  <2>3. Head(<<mem_q>>) = mem_q
    BY Heads
  <2> QED
    BY <2>1, <2>2, <2>3 DEF IInv, Registers
<1>4. priv' \in Privs
  BY <1>1 DEF Control, Issue, IssueCsr, Proceed, SwitchPriv, Remap, IInv, Registers
<1>5. pc_f_q' \in FetchAddr /\ priv_f_q' \in Privs /\ branch_q' \in Privs \cup {NoBranch}
  BY <1>1 DEF Clock, FetchUnit, IInv, Registers
<1>6. load_q' \in BOOLEAN /\ store_q' \in BOOLEAN
  BY <1>1 DEF Clock, Waiting, IInv, Registers
<1>7. dtlb_req_q' \in BOOLEAN
  BY <1>1 DEF Clock, Walker, StartWalk, LevelFirst, LevelSecond, EndWalk, WalkReset,
     NoWalk, walkVars, DataMiss, Access, Load, Store, Asks, VmD, IInv, Registers
<1>8. mem_req_q' \in BOOLEAN
  BY <1>1 DEF Clock, WalkRequest
<1>9. load_fault_q' \in BOOLEAN /\ store_fault_q' \in BOOLEAN
  BY <1>1 DEF Clock, Faults, LoadFault, StoreFault, Denied
<1> QED
  BY <1>2, <1>3, <1>4, <1>5, <1>6, <1>7, <1>8, <1>9 DEF Registers

\* While a CSR instruction is on its way no walk is for the data side.
LEMMA CsrNoData == IInv /\ csr # "NONE" => ~(state_q # "IDLE" /\ dtlb_req_q)
BY DEF IInv, Held, Drained, Lsu!Nothing

LEMMA DrainedEdge ==
    ASSUME IInv, NEW decoded, NEW rd, NEW iaccept, NEW accept,
           Ticks(decoded, rd, iaccept, accept)
    PROVE  Drained'
<1>1. /\ Control(decoded, accept) /\ Clock(decoded, rd, iaccept, accept)
  BY DEF Ticks
<1>2. mem_q' \in {mem_q, decoded, Lsu!Nothing}
  BY UnitEdge
<1>3. csr # "NONE" => mem_q = Lsu!Nothing
  BY DEF IInv, Drained
<1>4. csr' # "NONE" => mem_q' = Lsu!Nothing
  <2>1. CASE Issue(accept)
    BY <2>1 DEF Issue
  <2>2. CASE decoded = Lsu!Nothing /\ IssueCsr(accept)
    <3>1. mem_q' = Lsu!Nothing
      BY <1>1, <2>2 DEF Clock, IssueCsr, Lsu!RequestRegister, Lsu!Stall
    <3> QED
      BY <3>1
  <2>3. CASE decoded = Lsu!Nothing /\ Proceed
    BY <1>2, <1>3, <2>3 DEF Proceed
  <2>4. CASE decoded = Lsu!Nothing /\ SwitchPriv
    BY <1>2, <2>4 DEF SwitchPriv
  <2>5. CASE decoded = Lsu!Nothing /\ Remap
    BY <2>5 DEF Remap
  <2> QED
    BY <1>1, <2>1, <2>2, <2>3, <2>4, <2>5 DEF Control
<1>5. csr' = "E1" => \/ state_q' = "IDLE"
                      \/ /\ state_q' = "LEVEL_FIRST" /\ mem_req_q'
                         /\ pte_addr_q' = satp' * Sim!Entries + Index(1, virt_addr_q')
  <2> SUFFICES ASSUME csr' = "E1", state_q' # "IDLE"
               PROVE  /\ state_q' = "LEVEL_FIRST" /\ mem_req_q'
                      /\ pte_addr_q' = satp' * Sim!Entries + Index(1, virt_addr_q')
    OBVIOUS
  <2>1. state_q = "IDLE" /\ satp' = satp
    BY <1>1 DEF Control, Issue, IssueCsr, Proceed, SwitchPriv, Remap
  <2>2. ~Reads
    BY <2>1 DEF Reads, Levels
  <2>3. state_q' = "LEVEL_FIRST" /\ mem_req_q'
    BY <2>1, <2>2, WalkerCases DEF walkVars
  <2>4. StartWalk(rd)
    BY <1>1, <2>1, <2>3 DEF Clock, Walker, LevelFirst, LevelSecond, EndWalk, NoWalk, walkVars
  <2> QED
    BY <2>1, <2>3, <2>4 DEF StartWalk
<1>6. csr' \in {"E2", "WB"} => flushed' = Now' /\ ~dtlb'.valid
  <2> SUFFICES ASSUME csr' \in {"E2", "WB"} PROVE flushed' = Now' /\ ~dtlb'.valid
    OBVIOUS
  <2>1. csr \in {"E1", "E2"} /\ satp' = satp /\ tables' = tables
    BY <1>1 DEF Control, Issue, IssueCsr, Proceed, SwitchPriv, Remap
  <2>2. Now' = Now
    BY <2>1 DEF Now
  <2>3. flushed' = IF Flush THEN Now ELSE flushed
    BY <1>1 DEF Clock, History
  <2>4. dtlb'.valid = DtlbValid
    BY <1>1 DEF Clock, Dtlb, Tlb
  <2>5. CASE csr = "E1"
    BY <2>2, <2>3, <2>4, <2>5 DEF Flush, DtlbValid
  <2>6. CASE csr = "E2"
    <3>1. flushed = Now /\ ~dtlb.valid /\ ~Ends(TRUE)
      BY <2>6, <1>3, CsrNoData DEF IInv, Drained, Ends
    <3> QED
      BY <2>2, <2>3, <2>4, <2>6, <3>1 DEF Flush, DtlbValid
  <2> QED
    BY <2>1, <2>5, <2>6
<1> QED
  BY <1>4, <1>5, <1>6 DEF Drained

(***************************************************************************)
(* Root and tables: one change between two flushes, a flush when no entry  *)
(* is being put together, and a switch of the root when no load or store   *)
(* has a translation.                                                      *)
(***************************************************************************)
LEMMA ViewsEdge ==
    ASSUME IInv, NEW decoded, NEW rd, NEW iaccept, NEW accept,
           Ticks(decoded, rd, iaccept, accept)
    PROVE  /\ Apart'
           /\ Now \in Views'
           /\ ~Flush => Views \subseteq Views'
           /\ ~Flush /\ csr # "WB" => DataViews \subseteq DataViews'
           /\ csr = "NONE" => satp' = satp
<1>1. /\ Control(decoded, accept)
      /\ flushed' = IF Flush THEN Now ELSE flushed
  BY DEF Ticks, Clock, History
<1>2. Apart
  BY DEF IInv
<1>3. CASE satp' = satp /\ tables' = tables
  <2>1. Now' = Now
    BY <1>3 DEF Now
  <2>2. CASE Flush
    BY <1>1, <1>2, <1>3, <2>1, <2>2, MmuAssumption DEF Apart, Views, Now, Sim!Addr, Sim!Entries
  <2>3. CASE ~Flush
    BY <1>1, <1>2, <1>3, <2>1, <2>3 DEF Apart, Views, DataViews
  <2> QED
    BY <1>3, <2>2, <2>3
<1>4. CASE csr = "WB" /\ satp' \in Roots /\ tables' = tables
  <2>1. flushed = Now /\ flushed' = Now
    BY <1>1, <1>4 DEF Flush, IInv, Drained
  <2>2. flushed'.satp = satp /\ flushed'.tables = tables
    BY <2>1 DEF Now
  <2>3. Apart'
    BY <1>2, <1>4, <2>1, <2>2 DEF Apart, AnyView, Now, Sim!Addr, Sim!Entries
  <2> QED
    BY <1>4, <2>1, <2>3 DEF Views
<1>5. CASE Remap
  <2>1. csr = "NONE" /\ flushed = Now /\ flushed' = flushed /\ satp' = satp
    BY <1>1, <1>5 DEF Remap, Flush
  <2>2. PICK t \in Tables \ {tables}, a \in DOMAIN tables :
          t = [tables EXCEPT ![a] = t[a]] /\ tables' = t
    BY <1>5 DEF Remap
  <2>3. DOMAIN t = DOMAIN tables /\ \A b \in DOMAIN tables \ {a} : t[b] = tables[b]
    BY <2>2
  <2>4. /\ flushed.tables = tables /\ flushed.satp = satp
        /\ tables \in Tables /\ satp \in Roots
    BY <1>2, <2>1 DEF Apart, AnyView, Now
  <2>5. a \in Sim!Addr
    BY <2>2, <2>4, TablesAssumption DEF WellFormed
  <2>6. Apart'
    BY <1>2, <2>1, <2>2, <2>3, <2>4, <2>5 DEF Apart, AnyView, Now
  <2>7. DataViews' = Views' /\ DataViews = Views /\ Views = {flushed}
    BY <2>1, <2>4 DEF DataViews, Views
  <2> QED
    BY <2>1, <2>6, <2>7 DEF Views
<1> QED
  BY <1>1, <1>3, <1>4, <1>5 DEF Control, Issue, IssueCsr, Proceed, SwitchPriv

\* A walk goes on with what it has begun with.
LEMMA WalkViewsEdge ==
    ASSUME IInv, NEW decoded, NEW rd, NEW iaccept, NEW accept,
           Ticks(decoded, rd, iaccept, accept),
           ~Flush, state_q # "IDLE", dtlb_req_q' = dtlb_req_q
    PROVE  WalkViews \subseteq WalkViews'
<1>1. dtlb_req_q => csr # "WB"
  BY CsrNoData
<1> QED
  BY <1>1, ViewsEdge DEF WalkViews

-----------------------------------------------------------------------------
(***************************************************************************)
(* The walk: each answer takes it a step of the simulator's walk further.  *)
(***************************************************************************)
LEMMA WordRead ==
    ASSUME IInv, RespMmu
    PROVE  /\ WordAt(tables, pte_addr_q) = IF Present THEN RespData ELSE Sim!NoPte
           /\ Pointer <=> IsPointer(WordAt(tables, pte_addr_q))
           /\ ~Flush
<1>1. Head(port).addr = pte_addr_q /\ Reads
  BY Answers DEF ReadOf
<1>2. "V" \notin Sim!NoPte.flags
  BY DEF Sim!NoPte
<1>3. WordAt(tables, pte_addr_q) = IF Present THEN RespData ELSE Sim!NoPte
  BY <1>1, <1>2 DEF WordAt, Present, RespData
<1>4. Pointer <=> IsPointer(WordAt(tables, pte_addr_q))
  BY <1>2, <1>3 DEF Pointer, Present, IsPointer
<1>5. ~Flush
  BY <1>1 DEF IInv, Drained, Flush, Reads, Levels
<1> QED
  BY <1>3, <1>4, <1>5

LEMMA FirstRead ==
    ASSUME IInv, NEW rd, LevelFirst
    PROVE  \E v \in WalkViews :
             \/ /\ state_q' = "LEVEL_SECOND" /\ IsPointer(Top(v, virt_addr_q))
                /\ pte_addr_q' = Top(v, virt_addr_q).ppn * Sim!Entries
                                   + Index(2, virt_addr_q)
             \/ state_q' = "UPDATE" /\ pte_entry_q' = Found(v, virt_addr_q)
<1>1. state_q = "LEVEL_FIRST" /\ RespMmu
  BY DEF LevelFirst
<1>2. RequestAddr = virt_addr_q
  BY <1>1 DEF IInv, Walking, WalkFor, RequestAddr
<1>3. PICK w \in WalkViews : pte_addr_q = w.satp * Sim!Entries + Index(1, virt_addr_q)
  BY <1>1 DEF IInv, Walking
<1> DEFINE v == Reread(w)
<1>4. v \in WalkViews /\ v \in AnyView
  BY <1>3, RereadIsView DEF WalkViews, IInv
<1>5. v.satp = w.satp /\ v.tables = tables
  BY DEF Reread
<1> HIDE DEF v
<1>6. WordAt(tables, pte_addr_q) = Top(v, virt_addr_q)
  BY <1>3, <1>4, <1>5, TopIsWord
<1>7. /\ Top(v, virt_addr_q) = IF Present THEN RespData ELSE Sim!NoPte
      /\ Pointer <=> IsPointer(Top(v, virt_addr_q))
  BY <1>1, <1>6, WordRead
<1>8. CASE Pointer
  BY <1>2, <1>4, <1>7, <1>8 DEF LevelFirst, Pointer
<1>9. CASE ~Pointer
  <2>1. /\ state_q' = "UPDATE"
        /\ pte_entry_q' =
             IF Present
             THEN [flags |-> RespData.flags,
                   ppn |-> Sim!OrIndex(RespData.ppn, Index(2, virt_addr_q))]
             ELSE Sim!NoPte
    BY <1>2, <1>9 DEF LevelFirst
  <2>2. Present => Sim!IsLeaf(RespData) /\ RespData # Sim!NoPte
    BY <1>9 DEF Pointer, Present, Sim!NoPte
  <2>3. pte_entry_q' = Found(v, virt_addr_q)
    BY <1>4, <1>7, <2>1, <2>2, FoundInSteps
  <2> QED
    BY <1>4, <2>1, <2>3
<1> QED
  BY <1>8, <1>9

LEMMA SecondRead ==
    ASSUME IInv, LevelSecond
    PROVE  /\ state_q' = "UPDATE"
           /\ \E v \in WalkViews : pte_entry_q' = Found(v, virt_addr_q)
<1>1. /\ state_q = "LEVEL_SECOND" /\ RespMmu /\ state_q' = "UPDATE"
      /\ pte_entry_q' = IF Present THEN RespData ELSE Sim!NoPte
  BY DEF LevelSecond
<1>2. PICK v \in WalkViews :
        /\ IsPointer(Top(v, virt_addr_q))
        /\ pte_addr_q = Top(v, virt_addr_q).ppn * Sim!Entries + Index(2, virt_addr_q)
  BY <1>1 DEF IInv, Walking
<1>3. Apart /\ tables \in Tables /\ virt_addr_q \in Sim!Addr
  BY <1>1, AddressTypes DEF IInv, Apart, AnyView, Now, Walking, WalkFor
<1>4. pte_entry_q' = Low(tables, Top(v, virt_addr_q), virt_addr_q)
  BY <1>1, <1>2, <1>3, WordRead, EntryIsWord DEF Low
<1>5. v \in Views /\ Reread(v) \in WalkViews
  BY <1>2, <1>3, RereadIsView DEF WalkViews
<1> QED
  BY <1>1, <1>2, <1>3, <1>4, <1>5, MixedWalk

LEMMA WalkingEdge ==
    ASSUME IInv, NEW decoded, NEW rd, NEW iaccept, NEW accept,
           Ticks(decoded, rd, iaccept, accept)
    PROVE  Walking'
<1>1. Walker(rd)
  BY DEF Ticks, Clock
<1>2. state_q' # "IDLE" => WalkFor' = RequestAddr
  BY HeldEdge
<1>3. /\ state_q \in {"IDLE", "UPDATE"} \cup Levels
      /\ state_q # "IDLE" => virt_addr_q = RequestAddr
  BY DEF IInv, Walking, WalkFor, RequestAddr
<1>4. ~Flush /\ state_q # "IDLE" /\ dtlb_req_q' = dtlb_req_q => WalkViews \subseteq WalkViews'
  BY WalkViewsEdge
<1>5. CASE StartWalk(rd)
  <2>1. /\ state_q' = "LEVEL_FIRST" /\ virt_addr_q' = RequestAddr
        /\ pte_addr_q' = satp * Sim!Entries + Index(1, RequestAddr)
        /\ dtlb_req_q' = DataMiss
    BY <1>5 DEF StartWalk
  <2>2. CASE DataMiss
    <3>1. csr = "NONE"
      BY <2>2, Asking DEF IInv, Drained, DataMiss, Access, Asks, Lsu!Nothing
    <3>2. satp' = satp /\ Now' \in WalkViews' /\ Now'.satp = satp'
      BY <2>1, <2>2, <3>1, ViewsEdge DEF WalkViews, DataViews, Views, Now
    <3> QED
      BY <1>2, <2>1, <3>2 DEF Walking, Levels
  <2>3. CASE ~DataMiss
    <3>1. Now \in WalkViews' /\ Now.satp = satp
      BY <2>1, <2>3, ViewsEdge DEF WalkViews, Now
    <3> QED
      BY <1>2, <2>1, <3>1 DEF Walking, Levels
  <2> QED
    BY <2>2, <2>3
<1>6. CASE LevelFirst
  <2>1. /\ RespMmu /\ virt_addr_q' = virt_addr_q /\ state_q = "LEVEL_FIRST"
        /\ dtlb_req_q' = dtlb_req_q
    BY <1>6 DEF LevelFirst
  <2>2. WalkViews \subseteq WalkViews'
    BY <1>4, <2>1, WordRead
  <2> QED
    BY <1>2, <1>3, <1>6, <2>1, <2>2, FirstRead DEF Walking, Levels
<1>7. CASE LevelSecond
  <2>1. /\ RespMmu /\ virt_addr_q' = virt_addr_q /\ state_q = "LEVEL_SECOND"
        /\ dtlb_req_q' = dtlb_req_q
    BY <1>7 DEF LevelSecond
  <2>2. WalkViews \subseteq WalkViews'
    BY <1>4, <2>1, WordRead
  <2> QED
    BY <1>2, <1>3, <1>7, <2>1, <2>2, SecondRead DEF Walking, Levels
<1>8. CASE EndWalk
  BY <1>8 DEF EndWalk, WalkReset, Walking
<1>9. CASE NoWalk(rd)
  <2>1. UNCHANGED <<state_q, dtlb_req_q, pte_addr_q, pte_entry_q, virt_addr_q>>
        /\ state_q # "UPDATE"
    BY <1>9 DEF NoWalk, walkVars
  <2>2. CASE state_q = "IDLE" \/ ~Flush
    BY <1>2, <1>3, <1>4, <2>1, <2>2 DEF IInv, Walking, Levels
  <2>3. CASE state_q # "IDLE" /\ Flush
    <3>1. /\ state_q = "LEVEL_FIRST" /\ ~dtlb_req_q
          /\ pte_addr_q = satp * Sim!Entries + Index(1, virt_addr_q)
      BY <2>3, CsrNoData DEF IInv, Drained, Flush
    <3>2. Now \in WalkViews' /\ Now.satp = satp
      BY <2>1, <3>1, ViewsEdge DEF WalkViews, Now
    <3> QED
      BY <1>2, <1>3, <2>1, <3>1, <3>2 DEF Walking, Levels
  <2> QED
    BY <2>2, <2>3
<1> QED
  BY <1>1, <1>5, <1>6, <1>7, <1>8, <1>9 DEF Walker

(***************************************************************************)
(* The TLBs take what the walk has found, and nothing survives a flush.    *)
(***************************************************************************)
LEMMA FoundForPage ==
    ASSUME IInv, NEW mine, Ends(mine)
    PROVE  \E v \in WalkViews :
             \A va \in Sim!Addr : Sim!PageOf(va) = Sim!PageOf(virt_addr_q) =>
                                    pte_entry_q = Found(v, va)
<1>1. PICK v \in WalkViews : pte_entry_q = Found(v, virt_addr_q)
  BY DEF Ends, IInv, Walking
<1> QED
  BY <1>1, SamePage

LEMMA CachedEdge ==
    ASSUME IInv, NEW decoded, NEW rd, NEW iaccept, NEW accept,
           Ticks(decoded, rd, iaccept, accept)
    PROVE  Cached(itlb, Views)' /\ Cached(dtlb, DataViews)'
<1>1. Itlb /\ Dtlb
  BY DEF Ticks, Clock
<1>2. /\ Cached(itlb, Views) /\ Cached(dtlb, DataViews)
      /\ itlb.valid \in BOOLEAN /\ dtlb.valid \in BOOLEAN
  BY DEF IInv, Cached
<1>3. /\ ~Flush => Views \subseteq Views'
      /\ ~Flush /\ csr # "WB" => DataViews \subseteq DataViews'
  BY ViewsEdge
<1>4. dtlb'.valid = DtlbValid /\ itlb'.valid \in BOOLEAN /\ DtlbValid \in BOOLEAN
  BY <1>1, <1>2 DEF Itlb, Dtlb, DtlbValid, Tlb
<1>5. dtlb'.valid =>
        /\ ~Flush
        /\ \/ /\ Ends(TRUE)
              /\ dtlb'.page = Sim!PageOf(virt_addr_q) /\ dtlb'.entry = pte_entry_q
           \/ dtlb.valid /\ dtlb'.page = dtlb.page /\ dtlb'.entry = dtlb.entry
  BY <1>1, <1>2 DEF Dtlb, DtlbValid, Tlb
<1>6. itlb'.valid =>
        /\ ~Flush
        /\ \/ /\ Ends(FALSE)
              /\ itlb'.page = Sim!PageOf(virt_addr_q) /\ itlb'.entry = pte_entry_q
           \/ itlb.valid /\ itlb'.page = itlb.page /\ itlb'.entry = itlb.entry
  <2>1. /\ itlb'.valid = IF Flush THEN FALSE
                         ELSE IF state_q # "IDLE" /\ ~dtlb_req_q
                         THEN state_q = "UPDATE" /\ itlb.page = Sim!PageOf(pc_f_q)
                         ELSE itlb.valid
        /\ itlb'.page = IF Ends(FALSE) THEN Sim!PageOf(virt_addr_q) ELSE itlb.page
        /\ itlb'.valid => itlb'.entry = IF Ends(FALSE) THEN pte_entry_q ELSE itlb.entry
    BY <1>1 DEF Itlb, Tlb
  <2> QED
    BY <2>1 DEF Ends, IInv, Registers
<1>7. Cached(dtlb, DataViews)'
  <2>1. dtlb'.valid => csr # "WB"
    BY <1>5, CsrNoData DEF IInv, Drained, Ends
  <2>2. Ends(TRUE) => WalkViews = DataViews
    BY DEF Ends, WalkViews
  <2> QED
    BY <1>2, <1>3, <1>4, <1>5, <2>1, <2>2, FoundForPage DEF Cached
<1>8. Cached(itlb, Views)'
  <2>1. Ends(FALSE) => WalkViews = Views
    BY DEF Ends, WalkViews, IInv, Registers
  <2> QED
    BY <1>2, <1>3, <1>4, <1>6, <2>1, FoundForPage DEF Cached
<1> QED
  BY <1>7, <1>8

-----------------------------------------------------------------------------
LEMMA InitIInv == Init => IInv /\ Lsu!Init
<1> SUFFICES ASSUME Init PROVE IInv /\ Lsu!Init
  OBVIOUS
<1>1. Lsu!Init
  <2>1. [a \in DataAddr |-> 0] \in [DataAddr -> DataAddr]
    BY MmuAssumption
  <2> QED
    BY <2>1 DEF Init, Lsu!Init, LsuAck, RespMmu
<1>2. LsuP!IInv
  <2>1. Lsu!Init => LsuP!IInv
    BY LsuP!InitIInv DEF Lsu!Init, LsuP!Init, Lsu!Nothing, LsuP!Nothing
  <2> QED
    BY <1>1, <2>1
<1>3. /\ Registers /\ Walking /\ Held /\ Drained
      /\ Cached(itlb, Views) /\ Cached(dtlb, DataViews)
  BY MmuAssumption DEF Init, Registers, Walking, Held, Drained, Cached, Lsu!Nothing,
     NoBranch
<1>4. Apart
  <2>1. /\ flushed = Now /\ flushed.satp = satp /\ flushed.tables = tables
        /\ satp \in Roots /\ tables \in Tables /\ 0 \in Sim!Addr
    BY DEF Init, Now, Sim!Addr, Sim!Entries
  <2> QED
    BY <2>1 DEF Apart, AnyView, Now
<1>5. InPort
  <2>1. ~Reads /\ ~Owes /\ ~Faulted /\ port = <<>> /\ port_ack = "NONE" /\ ~mem_req_q
    BY DEF Init, Reads, Owes, Faulted, Levels
  <2> QED
    BY <2>1 DEF InPort
<1> QED
  BY <1>1, <1>2, <1>3, <1>4, <1>5 DEF IInv

\* RiscvLsu as it is instanced here, and in its proofs.
LEMMA SameUnit == Lsu!Next => LsuP!Next
BY DEF Lsu!Next, Lsu!Issue, Lsu!Wait, Lsu!Edge, Lsu!RequestRegister, Lsu!Tracking,
   Lsu!Fifo, Lsu!Port, Lsu!Requesting, Lsu!Delay, Lsu!Stall, Lsu!Answered, Lsu!Unaligned,
   Lsu!Push, Lsu!Pop, Lsu!Tag, Lsu!Nothing, Lsu!Aligned, Lsu!Misaligned, Lsu!CacheOps,
   Lsu!Loads, Lsu!LsuOps, Lsu!FifoDepth,
   LsuP!Next, LsuP!Issue, LsuP!Wait, LsuP!Edge, LsuP!RequestRegister, LsuP!Tracking,
   LsuP!Fifo, LsuP!Port, LsuP!Requesting, LsuP!Delay, LsuP!Stall, LsuP!Answered,
   LsuP!Unaligned, LsuP!Push, LsuP!Pop, LsuP!Tag, LsuP!Nothing, LsuP!Aligned,
   LsuP!Misaligned, LsuP!CacheOps, LsuP!Loads, LsuP!LsuOps, LsuP!FifoDepth

LEMMA StepIInv ==
    ASSUME IInv, Next
    PROVE  IInv' /\ Lsu!Next
<1>1. PICK decoded, rd, iaccept, accept : Ticks(decoded, rd, iaccept, accept)
  BY StepTicks
<1>2. InPort'
  BY <1>1, PortEdge
<1>3. Lsu!Next
  BY <1>1, <1>2, UnitStep
<1>4. LsuP!IInv'
  <2>1. LsuP!IInv /\ LsuP!Next
    BY <1>3, SameUnit DEF IInv
  <2> QED
    BY <2>1, LsuP!StepIInv
<1>5. Registers' /\ Apart' /\ Walking' /\ Held' /\ Drained'
  BY <1>1, RegistersEdge, ViewsEdge, WalkingEdge, HeldEdge, DrainedEdge
<1>6. Cached(itlb, Views)' /\ Cached(dtlb, DataViews)'
  BY <1>1, CachedEdge
<1> QED
  BY <1>2, <1>3, <1>4, <1>5, <1>6 DEF IInv

-----------------------------------------------------------------------------
(***************************************************************************)
(* What a walk of well formed tables finds can be used where the unit does *)
(* not look: a leaf is in memory, and nothing is writable only.            *)
(***************************************************************************)
LEMMA OrIndexType ==
    ASSUME NEW p \in Sim!Pages, NEW n
    PROVE  Sim!OrIndex(p, n) \in Sim!Pages
<1> DEFINE low == IF Sim!Bit(p, 0) + Sim!Bit(n, 0) > 0 THEN 1 ELSE 0
           high == IF Sim!Bit(p, 1) + Sim!Bit(n, 1) > 0 THEN 2 ELSE 0
<1>1. low \in {0, 1} /\ high \in {0, 2}
  OBVIOUS
<1>2. Sim!OrIndex(p, n) = p - (p % Sim!Entries) + low + high
  BY DEF Sim!OrIndex
<1> HIDE DEF low, high
<1>3. p \in 0 .. 15 /\ p - (p % 4) \in {0, 4, 8, 12}
  BY DEF Sim!Pages, Sim!Entries
<1> QED
  BY <1>1, <1>2, <1>3 DEF Sim!Pages, Sim!Entries

LEMMA FoundSound ==
    ASSUME NEW v \in AnyView, NEW va \in Sim!Addr
    PROVE  /\ ~Sim!Reserved(Found(v, va))
           /\ Sim!IsLeaf(Found(v, va)) => Found(v, va).ppn * Sim!Entries \in Sim!Addr
<1> DEFINE Sound(pte) == /\ ~Sim!Reserved(pte)
                         /\ Sim!IsLeaf(pte) => pte.ppn \in Sim!Pages
           t == v.tables
<1>0. t \in Tables
  BY DEF AnyView
<1>1. ASSUME NEW a PROVE Sound(WordAt(t, a))
  <2>1. Sound(Sim!NoPte)
    BY DEF Sim!NoPte, Sim!Reserved, Sim!IsLeaf
  <2>2. a \in DOMAIN t /\ "V" \in t[a].flags => Sound(t[a])
    BY <1>0, TablesAssumption DEF WellFormed
  <2> QED
    BY <2>1, <2>2 DEF WordAt
<1>2. Sound(Top(v, va)) /\ Sound(Low(t, Top(v, va), va))
  <2>1. /\ Top(v, va) = WordAt(t, v.satp * Sim!Entries + Index(1, va))
        /\ Low(t, Top(v, va), va)
             = WordAt(t, Top(v, va).ppn * Sim!Entries + Index(2, va))
    BY <1>0, TopIsWord, EntryIsWord DEF Low
  <2> HIDE DEF Sound
  <2> QED
    BY <1>1, <2>1
<1>3. Sound(Found(v, va))
  <2>1. CASE Top(v, va) = Sim!NoPte
    BY <1>2, <2>1, FoundInSteps
  <2>2. CASE Top(v, va) # Sim!NoPte /\ Sim!IsLeaf(Top(v, va))
    <3> DEFINE frame == Sim!OrIndex(Top(v, va).ppn, Index(2, va))
    <3>1. frame \in Sim!Pages
      BY <1>2, <2>2, OrIndexType
    <3> HIDE DEF frame
    <3>2. Found(v, va) = [flags |-> Top(v, va).flags, ppn |-> frame]
      BY <2>2, FoundInSteps DEF frame
    <3> QED
      BY <1>2, <3>1, <3>2 DEF Sim!Reserved
  <2>3. CASE Top(v, va) # Sim!NoPte /\ ~Sim!IsLeaf(Top(v, va))
    BY <1>2, <2>3, FoundInSteps
  <2> QED
    BY <2>1, <2>2, <2>3
<1>4. \A p \in Sim!Pages : p * Sim!Entries \in Sim!Addr
  BY DEF Sim!Pages, Sim!Addr, Sim!Entries
<1> QED
  BY <1>3, <1>4

LEMMA Somewhere ==
    ASSUME NEW v \in AnyView, NEW va \in Sim!Addr, Sim!IsLeaf(Found(v, va))
    PROVE  ~Sim!LeadsNowhere(Memory(v.tables), v.satp, Found(v, va))
BY FoundSound DEF Sim!LeadsNowhere, Memory

LEMMA Modes ==
    ASSUME NEW p \in Privs
    PROVE  /\ p # Sim!MACHINE => p \in {Sim!USER, Sim!SUPER} /\ ~(p > Sim!SUPER)
           /\ Sim!MACHINE > Sim!SUPER
BY MmuAssumption DEF Sim!MACHINE, Sim!USER, Sim!SUPER

(***************************************************************************)
(* The checks of the unit are those of the simulator.                      *)
(***************************************************************************)
LEMMA DataFaults ==
    ASSUME IInv, NEW v, VmD, dtlb.entry = Found(v, mem_q.addr),
           LoadFault \/ StoreFault
    PROVE  Refuses(DataSays(v))
<1> DEFINE pte == Found(v, mem_q.addr)
<1>1. /\ LoadFault => Wanted = "R" /\ Denied({"R"})
      /\ StoreFault => Wanted = "W" /\ Denied({"R", "W"})
  BY Asking DEF LoadFault, StoreFault, Asks, Wanted
<1>2. ~(priv > Sim!SUPER)
  BY Modes DEF IInv, Registers, VmD
<1>3. \/ Sim!Reserved(pte)
      \/ priv = Sim!SUPER /\ "U" \in pte.flags /\ Sim!SR_SUM \notin Msr
      \/ ~Sim!Allowed(pte, priv, Wanted)
  <2>1. \/ ~({Wanted} \subseteq pte.flags)
        \/ Wanted = "W" /\ "W" \in pte.flags /\ "R" \notin pte.flags
        \/ priv = Sim!SUPER /\ "U" \in pte.flags /\ ~Sum
        \/ priv = Sim!USER /\ "U" \notin pte.flags
    BY <1>1 DEF Denied
  <2> QED
    BY <2>1 DEF Sim!Reserved, Sim!Allowed, Msr
<1>4. DataSays(v) \in {Sim!Error, Sim!Fault}
  BY <1>2, <1>3 DEF DataSays, Sim!mmu_d_translate, Found
<1> QED
  BY <1>4 DEF Refuses, Sim!Error, Sim!Fault

LEMMA DataGrants ==
    ASSUME IInv, NEW v \in AnyView, VmD, dtlb.entry = Found(v, mem_q.addr), CpuOut
    PROVE  Grants(DataSays(v), CpuAddr)
<1> DEFINE pte == Found(v, mem_q.addr)
<1>1. \/ Wanted = "R" /\ ~Denied({"R"}) /\ DtlbHit
      \/ Wanted = "W" /\ ~Denied({"R", "W"}) /\ DtlbHit
  BY Asking DEF CpuOut, LoadFault, StoreFault, Asks, Wanted
<1>2. /\ Wanted \in pte.flags /\ "R" \in pte.flags
      /\ ~(priv = Sim!SUPER /\ "U" \in pte.flags /\ ~Sum)
      /\ ~(priv = Sim!USER /\ "U" \notin pte.flags)
  BY <1>1 DEF Denied
<1>3. ~(priv > Sim!SUPER)
  BY Modes DEF IInv, Registers, VmD
<1>4. ~Sim!Reserved(pte) /\ Sim!IsLeaf(pte)
  BY <1>2 DEF Sim!Reserved, Sim!IsLeaf
<1>5. ~Sim!LeadsNowhere(Memory(v.tables), v.satp, pte)
  BY <1>4, AddressTypes, Somewhere
<1>6. Sim!Allowed(pte, priv, Wanted)
  BY <1>2 DEF Sim!Allowed
<1>7. ~(priv = Sim!SUPER /\ "U" \in pte.flags /\ Sim!SR_SUM \notin Msr)
  BY <1>2 DEF Msr
<1>8. DataSays(v) = Sim!Ok(pte, mem_q.addr)
  BY <1>3, <1>4, <1>5, <1>6, <1>7 DEF DataSays, Sim!mmu_d_translate, Found
<1> QED
  BY <1>8 DEF Grants, Sim!Ok, CpuAddr, Physical

LEMMA FetchAgrees ==
    ASSUME IInv, NEW v \in AnyView, VmI, Matches(itlb, pc_f_q),
           itlb.entry = Found(v, pc_f_q)
    PROVE  IF PcFault(TRUE) THEN Refuses(FetchSays(v))
           ELSE Grants(FetchSays(v), FetchPc)
<1> DEFINE pte == Found(v, pc_f_q)
<1>1. priv_f_q \in {Sim!USER, Sim!SUPER} /\ ~(priv_f_q > Sim!SUPER)
  BY Modes DEF IInv, Registers, VmI
<1>2. PcFault(TRUE) <=> \/ "X" \notin pte.flags
                        \/ priv_f_q = Sim!SUPER /\ "U" \in pte.flags
                        \/ priv_f_q = Sim!USER /\ "U" \notin pte.flags
  BY DEF PcFault, ItlbHit
<1>3. CASE PcFault(TRUE)
  <2>1. \/ priv_f_q = Sim!SUPER /\ "U" \in pte.flags
        \/ ~Sim!Allowed(pte, priv_f_q, "X")
    BY <1>2, <1>3 DEF Sim!Allowed
  <2>2. FetchSays(v) \in {Sim!Error, Sim!Fault}
    BY <1>1, <2>1 DEF FetchSays, Sim!mmu_i_translate, Found
  <2> QED
    BY <1>3, <2>2 DEF Refuses, Sim!Error, Sim!Fault
<1>4. CASE ~PcFault(TRUE)
  <2>1. Sim!IsLeaf(pte) /\ Sim!Allowed(pte, priv_f_q, "X")
    BY <1>2, <1>4 DEF Sim!IsLeaf, Sim!Allowed
  <2>2. ~Sim!LeadsNowhere(Memory(v.tables), v.satp, pte) /\ ~Sim!Reserved(pte)
    BY <2>1, AddressTypes, Somewhere, FoundSound
  <2>3. FetchSays(v) = Sim!Ok(pte, pc_f_q)
    BY <1>1, <1>2, <1>4, <2>1, <2>2 DEF FetchSays, Sim!mmu_i_translate, Found
  <2> QED
    BY <1>4, <2>3 DEF Grants, Sim!Ok, FetchPc, Physical
<1> QED
  BY <1>3, <1>4

LEMMA Agrees == IInv => Translated
<1> SUFFICES ASSUME IInv PROVE Translated
  OBVIOUS
<1>1. /\ mem_q.addr \in Sim!Addr /\ pc_f_q \in Sim!Addr
      /\ Views \subseteq AnyView /\ DataViews \subseteq Views
  BY AddressTypes, RereadIsView DEF IInv
<1>2. DtlbHit => \E v \in DataViews : dtlb.entry = Found(v, mem_q.addr)
  BY <1>1 DEF DtlbHit, Matches, IInv, Cached
<1>3. Matches(itlb, pc_f_q) => \E v \in Views : itlb.entry = Found(v, pc_f_q)
  BY <1>1 DEF Matches, IInv, Cached
<1>4. CpuOut => \E v \in DataViews : Grants(DataSays(v), CpuAddr)
  <2>1. CASE VmD
    <3>1. CpuOut => DtlbHit
      BY <2>1 DEF CpuOut
    <3> QED
      BY <1>1, <1>2, <2>1, <3>1, DataGrants
  <2>2. CASE ~VmD
    <3>1. DataSays(Now) = Sim!Untouched(mem_q.addr)
      BY <2>2, Modes DEF IInv, Registers, VmD, DataSays, Sim!mmu_d_translate
    <3> QED
      BY <2>2, <3>1 DEF CpuAddr, Grants, Sim!Untouched, DataViews, Views
  <2> QED
    BY <2>1, <2>2
<1>5. LoadFault \/ StoreFault => \E v \in DataViews : Refuses(DataSays(v))
  <2>1. LoadFault \/ StoreFault => VmD /\ DtlbHit
    BY DEF LoadFault, StoreFault, Denied
  <2> QED
    BY <1>2, <2>1, DataFaults
<1>6. FetchTranslated
  BY <1>1, <1>3, FetchAgrees DEF FetchTranslated
<1> QED
  BY <1>4, <1>5, <1>6 DEF Translated, DataTranslated, IInv, Held

-----------------------------------------------------------------------------
LEMMA Inductive == IInv /\ [Next]_vars => IInv' /\ [Lsu!Next]_(Lsu!lsuVars)
<1> SUFFICES ASSUME IInv, [Next]_vars PROVE IInv' /\ [Lsu!Next]_(Lsu!lsuVars)
  OBVIOUS
<1>1. CASE Next
  BY <1>1, StepIInv
<1>2. CASE UNCHANGED vars
  <2> USE <1>2 DEF vars, lsuVars, coreVars, walkVars, faultVars, holdVars
  <2>1. UNCHANGED <<LsuAck, SrcMmu, VmD, VmI, DtlbHit, Reads, Owes, Faulted, ReadOf>>
    BY DEF LsuAck, RespMmu, SrcMmu, VmD, VmI, DtlbHit, Matches, Reads, Owes, Faulted, ReadOf
  <2>2. UNCHANGED Lsu!lsuVars
    BY <2>1 DEF Lsu!lsuVars
  <2>3. LsuP!IInv'
    <3>1. UNCHANGED LsuP!lsuVars
      BY <2>1 DEF LsuP!lsuVars
    <3>2. LsuP!IInv
      BY DEF IInv
    <3> QED
      BY <3>1, <3>2, LsuP!StepIInv
  <2>4. Registers' /\ Apart' /\ Walking' /\ Held' /\ Drained'
    BY DEF IInv, Registers, Apart, Walking, WalkViews, Views, DataViews, Now, WalkFor, Held,
       VmD, VmI, DtlbHit, Matches, Drained
  <2>5. InPort'
    BY <2>1 DEF IInv, InPort
  <2>6. Cached(itlb, Views)' /\ Cached(dtlb, DataViews)'
    BY DEF IInv, Cached, Views, DataViews, Now
  <2> QED
    BY <2>2, <2>3, <2>4, <2>5, <2>6 DEF IInv
<1> QED
  BY <1>1, <1>2

(***************************************************************************)
(* Every load, store and fetch goes where the simulator's translation      *)
(* sends it and faults where that refuses it, whatever the tables and the  *)
(* roots are, in whatever order walks of both sides, writes to the tables, *)
(* flushes, and switches of the root and of the mode come.                 *)
(***************************************************************************)
THEOREM Translation == Spec => []Translated
<1>1. Init => IInv
  BY InitIInv
<1>2. IInv /\ [Next]_vars => IInv'
  BY Inductive
<1> QED
  BY <1>1, <1>2, Agrees, PTL DEF Spec

(***************************************************************************)
(* With the walker on the same port, page faults among the answers and the *)
(* tag that tells them apart, the unit still has the port it assumes.      *)
(***************************************************************************)
THEOREM KeepsLsuPort == Spec => ImplementsLsuPort
<1>1. Init => IInv /\ Lsu!Init
  BY InitIInv
<1>2. IInv /\ [Next]_vars => IInv' /\ [Lsu!Next]_(Lsu!lsuVars)
  BY Inductive
<1>3. Spec => Lsu!Spec
  BY <1>1, <1>2, PTL DEF Spec, Lsu!Spec
<1> QED
  BY <1>3 DEF ImplementsLsuPort

(***************************************************************************)
(* So the promises of the unit (RiscvLsu) hold behind page faults too: an  *)
(* answer meets the tag of its own operation, and nothing behind a         *)
(* faulting access reaches memory, be the fault the bus's or the walk's.   *)
(***************************************************************************)
THEOREM KeepsUnit == Spec => [](Lsu!FifoInStep /\ Lsu!NothingBehindFault)
<1>1. Init => IInv
  BY InitIInv
<1>2. IInv /\ [Next]_vars => IInv'
  BY Inductive
<1>3. IInv => Lsu!FifoInStep /\ Lsu!NothingBehindFault
  <2>1. LsuP!IInv => LsuP!FifoInStep /\ LsuP!NothingBehindFault
    BY LsuP!Shape, LsuP!Masked
  <2> QED
    BY <2>1 DEF IInv, Lsu!FifoInStep, LsuP!FifoInStep, Lsu!Tag, LsuP!Tag, Lsu!Loads,
       LsuP!Loads, Lsu!NothingBehindFault, LsuP!NothingBehindFault, Lsu!Requesting,
       LsuP!Requesting, Lsu!Delay, LsuP!Delay, Lsu!Aligned, LsuP!Aligned, Lsu!CacheOps,
       LsuP!CacheOps
<1> QED
  BY <1>1, <1>2, <1>3, PTL DEF Spec
=============================================================================

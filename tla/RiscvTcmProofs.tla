--------------------------- MODULE RiscvTcmProofs ---------------------------
(***************************************************************************)
(* The data port of the core is a memory, for every set of addresses and   *)
(* words, every sequence of operations, every timing of the bus and of the *)
(* host, as long as no address is in the telemetry window (where it is     *)
(* not: see the run tcm_telemetry).                                        *)
(*                                                                         *)
(* Answers carry no tag, and three parties share two memories: the core    *)
(* and the host one port of the RAM, the two halves of a store one queue   *)
(* of the bridge.  Sides says where the one request that is owed an answer *)
(* is, and how far it has come.                                            *)
(***************************************************************************)
EXTENDS RiscvTcm, TLAPS

\* The invariant of the load/store unit, with the answers this port gives.
LsuP == INSTANCE RiscvLsuProofs WITH mem_ack <- MemAck

Operations ==
    {o \in [op : Lsu!LsuOps, addr : CoreAddr, data : Words] :
        o.op \in Lsu!CacheOps => o.addr \in TcmAddr}

\* The item the bridge keeps of a request.
Item(o) == [load |-> o.op = "LOAD", addr |-> o.addr, data |-> o.data]

BridgeIdle ==
    /\ req = <<>> /\ tags = 0 /\ ~request_pending_q
    /\ ~awvalid_inhibit_q /\ ~wvalid_inhibit_q
    /\ aw = <<>> /\ w = <<>> /\ ar = <<>>
    /\ axi = Axi!Silent

\* The request has not been taken by the bus completely,
Offering(o) ==
    /\ req = <<Item(o)>> /\ ~request_pending_q /\ ar = <<>>
    /\ aw = IF awvalid_inhibit_q THEN <<o.addr>> ELSE <<>>
    /\ w  = IF wvalid_inhibit_q  THEN <<o.data>> ELSE <<>>
    /\ ~(awvalid_inhibit_q /\ wvalid_inhibit_q)
    /\ o.op = "LOAD" => ~awvalid_inhibit_q /\ ~wvalid_inhibit_q
    /\ axi.b = "NONE" /\ axi.r = "NONE"
    /\ axi.awready => o.op = "STORE" /\ ~awvalid_inhibit_q
    /\ axi.wready  => o.op = "STORE" /\ ~wvalid_inhibit_q
    /\ axi.arready => o.op = "LOAD"

\* or it has, and the slave owes the answer.
Awaiting(o) ==
    /\ req = <<>> /\ request_pending_q
    /\ ~awvalid_inhibit_q /\ ~wvalid_inhibit_q
    /\ ~axi.awready /\ ~axi.wready /\ ~axi.arready
    /\ axi.b \in Axi!Answers /\ axi.r \in Axi!Answers
    /\ o.op = "LOAD"  => aw = <<>> /\ w = <<>> /\ ar = <<o.addr>> /\ axi.b = "NONE"
    /\ o.op = "STORE" => /\ aw = <<o.addr>> /\ w = <<o.data>> /\ ar = <<>>
                         /\ axi.r = "NONE"

Working(o) == tags = 1 /\ (Offering(o) \/ Awaiting(o))

\* Where the request that is owed an answer is.  A store to the RAM is
\* performed before it is answered.
NoneOwed ==
    /\ outst = <<>> /\ pending_q = 0 /\ ~mem_d_ack_q /\ BridgeIdle
    /\ \A a \in TcmAddr : ram[a] = mem[a]

TcmOwes(o) ==
    /\ outst = <<o>> /\ pending_q = 1 /\ mem_d_ack_q /\ tcm_access_q
    /\ BridgeIdle
    /\ o.op \in Lsu!Aligned \cup Lsu!CacheOps /\ o.addr \in TcmAddr
    /\ o.op = "LOAD" => data_r = mem[o.addr]
    /\ \A a \in TcmAddr : ram[a] = IF o.op = "STORE" /\ a = o.addr
                                   THEN o.data ELSE mem[a]

BridgeOwes(o) ==
    /\ outst = <<o>> /\ pending_q = 1 /\ ~mem_d_ack_q /\ ~tcm_access_q
    /\ Working(o)
    /\ o.op \in Lsu!Aligned /\ o.addr \in ExtAddr
    /\ \A a \in TcmAddr : ram[a] = mem[a]

Sides == NoneOwed \/ \E o \in Operations : TcmOwes(o) \/ BridgeOwes(o)

Memories ==
    /\ ram \in [TcmAddr \cup HostAddr -> Words]
    /\ axi_mem \in [ExtAddr -> Words]
    /\ host_mem \in [HostAddr -> Words]
    /\ \A a \in HostAddr : ram[a] = host_mem[a]
    /\ \A a \in ExtAddr : axi_mem[a] = mem[a]
    /\ \A a \in CoreAddr : mem[a] \in Words
    /\ data_r \in Words

Registers ==
    /\ mem_q \in Operations \cup {Lsu!Nothing}
    /\ tcm_access_q \in BOOLEAN /\ mem_d_accept_q \in BOOLEAN
    /\ mem_d_ack_q \in BOOLEAN
    /\ host \in HostRequests \cup {Tcm!NoRequest}
    /\ idle_addr \in TcmAddr

TcmInv == LsuP!IInv /\ Registers /\ Memories /\ Sides

-----------------------------------------------------------------------------
(***************************************************************************)
(* The bridge and the slave.  "new" is what the port hands over, nothing   *)
(* or one item.                                                            *)
(***************************************************************************)
BridgeStep(new) == Axi!BridgeEdge(new) /\ Axi!SlaveEdge

LEMMA OneItem ==
    ASSUME NEW x
    PROVE  /\ Head(<<x>>) = x /\ Tail(<<x>>) = <<>> /\ Len(<<x>>) = 1
           /\ <<x>> # <<>> /\ <<>> \o <<x>> = <<x>> /\ <<x>> \o <<>> = <<x>>
           /\ Append(<<>>, x) = <<x>>
OBVIOUS

LEMMA NoItem == <<>> \o <<>> = <<>> /\ Len(<<>>) = 0
OBVIOUS

LEMMA ItemKind ==
    ASSUME NEW o, NEW item, item = Item(o) PROVE item.load <=> o.op = "LOAD"
<1>1. item.load = (o.op = "LOAD")
  BY DEF Item
<1> QED
  BY <1>1, Zenon

\* What the slave drives after the edge.
LEMMA SlaveDrives ==
    ASSUME Axi!SlaveEdge
    PROVE  /\ axi'.awready \in BOOLEAN /\ axi'.wready \in BOOLEAN
           /\ axi'.arready \in BOOLEAN
           /\ axi'.b \in Axi!Answers /\ axi'.r \in Axi!Answers
           /\ axi' = [awready |-> axi'.awready, wready |-> axi'.wready,
                      arready |-> axi'.arready, b |-> axi'.b, r |-> axi'.r]
           /\ aw' = <<>> \/ w' = <<>> => axi'.b = "NONE"
           /\ ar' = <<>> => axi'.r = "NONE"
           /\ axi'.awready => Axi!AwValid'
           /\ axi'.wready => Axi!WValid'
           /\ axi'.arready => Axi!ArValid'
BY DEF Axi!SlaveEdge, Axi!Answers

\* With nothing left to do for the slave or the bridge, and nothing new.
LEMMA BridgeRests ==
    ASSUME Axi!SlaveEdge, req' = <<>>, aw' = <<>>, w' = <<>>, ar' = <<>>
    PROVE  axi' = Axi!Silent
<1>1. ~Axi!AwValid' /\ ~Axi!WValid' /\ ~Axi!ArValid'
  BY DEF Axi!AwValid, Axi!WValid, Axi!ArValid, Axi!IsWrite, Axi!IsRead,
         Axi!Offered
<1>2. /\ axi'.b = "NONE" /\ axi'.r = "NONE"
      /\ ~axi'.awready /\ ~axi'.wready /\ ~axi'.arready
  BY <1>1, SlaveDrives
<1> QED
  BY <1>2, SlaveDrives DEF Axi!Silent

\* With an item just handed over, none of it has been taken.
LEMMA BridgeStarts ==
    ASSUME Axi!SlaveEdge, NEW o \in Operations, o.op \in Lsu!Aligned,
           req' = <<Item(o)>>, aw' = <<>>, w' = <<>>, ar' = <<>>,
           ~request_pending_q', ~awvalid_inhibit_q', ~wvalid_inhibit_q'
    PROVE  Offering(o)'
<1>1. axi'.b = "NONE" /\ axi'.r = "NONE"
  BY SlaveDrives
<1>2. Head(req') = Item(o) /\ req' # <<>>
  BY OneItem
<1>3. Head(req').load <=> o.op = "LOAD"
  BY <1>2, ItemKind
<1>4. /\ Axi!AwValid' => o.op = "STORE"
      /\ Axi!WValid' => o.op = "STORE"
      /\ Axi!ArValid' => o.op = "LOAD"
  BY <1>3 DEF Axi!AwValid, Axi!WValid, Axi!ArValid, Axi!IsWrite, Axi!IsRead,
         Axi!Offered, Lsu!Aligned
<1> QED
  BY <1>1, <1>4, SlaveDrives DEF Offering

\* The answer given in this cycle is the answer to the item.
BridgeFree ==
    \/ BridgeIdle
    \/ \E o \in Operations : /\ o.op \in Lsu!Aligned
                             /\ Working(o) /\ Axi!MemAck # "NONE"

LEMMA BridgeAnswers ==
    ASSUME NEW o \in Operations, o.op \in Lsu!Aligned, Working(o)
    PROVE  /\ Axi!MemAck \in Axi!Answers
           /\ Axi!MemAck # "NONE" => Awaiting(o)
BY DEF Working, Offering, Awaiting, Axi!MemAck, Axi!Answers

LEMMA BridgeEmpties ==
    ASSUME BridgeFree, NEW new, BridgeStep(new), new = <<>> \/ \E x : new = <<x>>
    PROVE  /\ req' = new /\ tags' = Len(new)
           /\ aw' = <<>> /\ w' = <<>> /\ ar' = <<>>
           /\ ~request_pending_q' /\ ~awvalid_inhibit_q' /\ ~wvalid_inhibit_q'
<1>1. /\ req = <<>>
      /\ ~awvalid_inhibit_q /\ ~wvalid_inhibit_q
      /\ request_pending_q => Axi!MemAck # "NONE"
      /\ tags = IF Axi!MemAck # "NONE" THEN 1 ELSE 0
  <2>1. CASE BridgeIdle
    BY <2>1 DEF BridgeIdle, Axi!MemAck, Axi!Silent
  <2>2. ASSUME NEW o \in Operations, o.op \in Lsu!Aligned, Working(o),
               Axi!MemAck # "NONE"
        PROVE  req = <<>> /\ ~awvalid_inhibit_q /\ ~wvalid_inhibit_q /\ tags = 1
    BY <2>2, BridgeAnswers DEF Working, Awaiting
  <2> QED
    BY <2>1, <2>2 DEF BridgeFree
<1>2. /\ aw = <<>> \/ (axi.b # "NONE" /\ Tail(aw) = <<>>)
      /\ w = <<>> \/ (axi.b # "NONE" /\ Tail(w) = <<>>)
      /\ ar = <<>> \/ (axi.r # "NONE" /\ Tail(ar) = <<>>)
      /\ axi.b # "NONE" => Tail(aw) = <<>> /\ Tail(w) = <<>>
      /\ axi.r # "NONE" => Tail(ar) = <<>>
  <2>1. CASE BridgeIdle
    BY <2>1 DEF BridgeIdle, Axi!Silent
  <2>2. ASSUME NEW o \in Operations, o.op \in Lsu!Aligned, Working(o),
               Axi!MemAck # "NONE"
        PROVE  <1>2!:
    BY <2>2, BridgeAnswers, OneItem DEF Awaiting, Axi!MemAck, Lsu!Aligned
  <2> QED
    BY <2>1, <2>2 DEF BridgeFree
<1>3. ~Axi!Offered /\ ~Axi!AwValid /\ ~Axi!WValid /\ ~Axi!ArValid
      /\ ~Axi!WriteComplete /\ ~Axi!ReadComplete
  BY <1>1 DEF Axi!Offered, Axi!AwValid, Axi!WValid, Axi!ArValid, Axi!IsWrite,
              Axi!IsRead, Axi!WriteComplete, Axi!ReadComplete
<1>4. Axi!MemAccept
  BY <1>1, NoItem DEF Axi!MemAccept, Axi!FifoDepth
<1>5. aw' = <<>> /\ w' = <<>> /\ ar' = <<>>
  BY <1>2, <1>3, NoItem DEF BridgeStep, Axi!SlaveEdge, Axi!Take
<1>6. ~request_pending_q' /\ ~awvalid_inhibit_q' /\ ~wvalid_inhibit_q'
  BY <1>1, <1>3 DEF BridgeStep, Axi!BridgeEdge, Axi!Inhibit, Axi!Pending
<1>7. req' = <<>> \o new
      /\ tags' = tags + Len(new) - IF Axi!MemAck # "NONE" /\ tags > 0 THEN 1 ELSE 0
  BY <1>1, <1>3, <1>4 DEF BridgeStep, Axi!BridgeEdge, Axi!Fifos
<1>8. Len(new) \in {0, 1} /\ <<>> \o new = new
  BY OneItem, NoItem
<1> QED
  BY <1>1, <1>5, <1>6, <1>7, <1>8

\* The bus takes a part of the item, or all of it, or nothing.
LEMMA BridgeOffers ==
    ASSUME NEW o \in Operations, o.op \in Lsu!Aligned, Offering(o), tags = 1,
           BridgeStep(<<>>)
    PROVE  Working(o)'
<1>1. /\ Axi!MemAck = "NONE" /\ Axi!Offered /\ Head(req) = Item(o)
      /\ Tail(req) = <<>>
  BY OneItem DEF Offering, Axi!MemAck, Axi!Offered, Axi!InProgress
<1>2. Head(req).load <=> o.op = "LOAD"
  BY <1>1, ItemKind
<1>3. /\ Axi!IsRead <=> o.op = "LOAD"
      /\ Axi!IsWrite <=> o.op = "STORE"
  BY <1>1, <1>2 DEF Axi!IsRead, Axi!IsWrite, Lsu!Aligned
<1>4. Head(req).addr = o.addr /\ Head(req).data = o.data
  BY <1>1 DEF Item
<1>5. tags' = 1
  BY <1>1, NoItem DEF BridgeStep, Axi!BridgeEdge, Axi!Fifos
<1>6. req' = IF Axi!ReadComplete \/ Axi!WriteComplete THEN <<>> ELSE req
  <2>1. Len(req) # Axi!FifoDepth /\ tags # Axi!FifoDepth
    BY OneItem DEF Offering, Axi!FifoDepth
  <2>2. req \o <<>> = req /\ <<>> \o <<>> = <<>>
    BY OneItem, NoItem DEF Offering
  <2> QED
    BY <1>1, <2>1, <2>2
       DEF BridgeStep, Axi!BridgeEdge, Axi!Fifos, Axi!MemAccept
<1>7. /\ aw' = aw \o (IF Axi!AwValid /\ axi.awready THEN <<o.addr>> ELSE <<>>)
      /\ w'  = w  \o (IF Axi!WValid /\ axi.wready THEN <<o.data>> ELSE <<>>)
      /\ ar' = ar \o (IF Axi!ArValid /\ axi.arready THEN <<o.addr>> ELSE <<>>)
  BY <1>1, <1>4 DEF BridgeStep, Axi!SlaveEdge, Axi!Take, Offering
<1>8. request_pending_q' <=> Axi!ReadComplete \/ Axi!WriteComplete
  BY DEF BridgeStep, Axi!BridgeEdge, Axi!Pending, Offering
<1>9. Axi!SlaveEdge
  BY DEF BridgeStep
<1>10. CASE o.op = "LOAD"
  <2>1. ~awvalid_inhibit_q /\ ~wvalid_inhibit_q /\ aw = <<>> /\ w = <<>>
        /\ ar = <<>> /\ ~axi.awready /\ ~axi.wready
    BY <1>10 DEF Offering
  <2>2. ~Axi!AwValid /\ ~Axi!WValid /\ Axi!ArValid /\ ~Axi!WriteComplete
        /\ (Axi!ReadComplete <=> axi.arready)
    BY <1>3, <1>10
       DEF Axi!AwValid, Axi!WValid, Axi!ArValid, Axi!WriteComplete, Axi!ReadComplete
  <2>3. ~awvalid_inhibit_q' /\ ~wvalid_inhibit_q'
    BY <2>1, <2>2 DEF BridgeStep, Axi!BridgeEdge, Axi!Inhibit
  <2>4. /\ aw' = <<>> /\ w' = <<>>
        /\ ar' = IF axi.arready THEN <<o.addr>> ELSE <<>>
    BY <1>7, <2>1, <2>2, NoItem, OneItem
  <2>5. CASE axi.arready
    <3>1. req' = <<>> /\ request_pending_q'
      BY <1>6, <1>8, <2>2, <2>5
    <3>2. ~Axi!AwValid' /\ ~Axi!WValid' /\ ~Axi!ArValid'
      BY <3>1 DEF Axi!AwValid, Axi!WValid, Axi!ArValid, Axi!IsWrite, Axi!IsRead,
                  Axi!Offered
    <3> QED
      BY <1>5, <1>9, <1>10, <2>3, <2>4, <2>5, <3>1, <3>2, SlaveDrives
         DEF Working, Awaiting
  <2>6. CASE ~axi.arready
    <3>1. req' = <<Item(o)>> /\ ~request_pending_q'
      BY <1>6, <1>8, <2>2, <2>6 DEF Offering
    <3> QED
      BY <1>5, <1>9, <1>10, <2>3, <2>4, <2>6, <3>1, BridgeStarts DEF Working
  <2> QED
    BY <2>5, <2>6
<1>11. CASE o.op = "STORE"
  <2>1. /\ aw = IF awvalid_inhibit_q THEN <<o.addr>> ELSE <<>>
        /\ w  = IF wvalid_inhibit_q  THEN <<o.data>> ELSE <<>>
        /\ ~(awvalid_inhibit_q /\ wvalid_inhibit_q)
        /\ axi.awready => ~awvalid_inhibit_q
        /\ axi.wready => ~wvalid_inhibit_q
        /\ ar = <<>> /\ ~axi.arready
    BY <1>11 DEF Offering
  <2>2. /\ Axi!AwValid <=> ~awvalid_inhibit_q
        /\ Axi!WValid <=> ~wvalid_inhibit_q
        /\ ~Axi!ArValid /\ ~Axi!ReadComplete
        /\ Axi!WriteComplete <=> /\ awvalid_inhibit_q \/ axi.awready
                                 /\ wvalid_inhibit_q \/ axi.wready
    BY <1>3, <1>11
       DEF Axi!AwValid, Axi!WValid, Axi!ArValid, Axi!WriteComplete, Axi!ReadComplete
  <2>3. /\ aw' = IF awvalid_inhibit_q \/ axi.awready THEN <<o.addr>> ELSE <<>>
        /\ w' = IF wvalid_inhibit_q \/ axi.wready THEN <<o.data>> ELSE <<>>
        /\ ar' = <<>>
    BY <1>7, <2>1, <2>2, NoItem, OneItem
  <2>4. CASE Axi!WriteComplete
    <3>1. req' = <<>> /\ request_pending_q'
      BY <1>6, <1>8, <2>4
    <3>2. ~awvalid_inhibit_q' /\ ~wvalid_inhibit_q'
      BY <2>1, <2>2, <2>4 DEF BridgeStep, Axi!BridgeEdge, Axi!Inhibit
    <3>3. ~Axi!AwValid' /\ ~Axi!WValid' /\ ~Axi!ArValid'
      BY <3>1 DEF Axi!AwValid, Axi!WValid, Axi!ArValid, Axi!IsWrite, Axi!IsRead,
                  Axi!Offered
    <3> QED
      BY <1>5, <1>9, <1>11, <2>2, <2>3, <2>4, <3>1, <3>2, <3>3, SlaveDrives
         DEF Working, Awaiting
  <2>5. CASE ~Axi!WriteComplete
    <3>1. req' = <<Item(o)>> /\ ~request_pending_q'
      BY <1>6, <1>8, <2>2, <2>5 DEF Offering
    <3>2. /\ awvalid_inhibit_q' <=> awvalid_inhibit_q \/ axi.awready
          /\ wvalid_inhibit_q' <=> wvalid_inhibit_q \/ axi.wready
      BY <2>1, <2>2, <2>5 DEF BridgeStep, Axi!BridgeEdge, Axi!Inhibit
    <3>3. axi'.b = "NONE" /\ axi'.r = "NONE"
      BY <1>9, <2>2, <2>3, <2>5, SlaveDrives
    <3>4. Head(req') = Item(o)
      BY <3>1, OneItem
    <3>5. Head(req').load <=> o.op = "LOAD"
      BY <3>4, ItemKind
    <3>6. ~Axi!ArValid' /\ (Axi!AwValid' => ~awvalid_inhibit_q')
          /\ (Axi!WValid' => ~wvalid_inhibit_q')
      BY <1>11, <3>5 DEF Axi!AwValid, Axi!WValid, Axi!ArValid, Axi!IsRead
    <3> QED
      BY <1>5, <1>9, <1>11, <2>1, <2>2, <2>3, <2>5, <3>1, <3>2, <3>3, <3>6,
         SlaveDrives DEF Working, Offering
  <2> QED
    BY <2>4, <2>5
<1> QED
  BY <1>10, <1>11 DEF Lsu!Aligned

\* The slave has taken the item and does not answer it in this cycle.
LEMMA BridgeWaits ==
    ASSUME NEW o \in Operations, o.op \in Lsu!Aligned, Awaiting(o), tags = 1,
           Axi!MemAck = "NONE", BridgeStep(<<>>)
    PROVE  Working(o)'
<1>1. req = <<>> /\ axi.b = "NONE" /\ axi.r = "NONE"
  BY DEF Awaiting, Axi!MemAck
<1>2. ~Axi!AwValid /\ ~Axi!WValid /\ ~Axi!ArValid
      /\ ~Axi!WriteComplete /\ ~Axi!ReadComplete
  BY <1>1 DEF Axi!Offered, Axi!AwValid, Axi!WValid, Axi!ArValid, Axi!IsWrite,
              Axi!IsRead, Axi!WriteComplete, Axi!ReadComplete
<1>3. aw' = aw /\ w' = w /\ ar' = ar
  BY <1>1, <1>2, NoItem, OneItem
     DEF BridgeStep, Axi!SlaveEdge, Axi!Take, Awaiting, Lsu!Aligned
<1>4. request_pending_q' /\ ~awvalid_inhibit_q' /\ ~wvalid_inhibit_q'
  BY <1>1, <1>2
     DEF BridgeStep, Axi!BridgeEdge, Axi!Inhibit, Axi!Pending, Awaiting
<1>5. req' = <<>> /\ tags' = 1
  BY <1>1, <1>2, NoItem DEF BridgeStep, Axi!BridgeEdge, Axi!Fifos
<1>6. ~Axi!AwValid' /\ ~Axi!WValid' /\ ~Axi!ArValid'
  BY <1>5 DEF Axi!AwValid, Axi!WValid, Axi!ArValid, Axi!IsWrite, Axi!IsRead,
              Axi!Offered
<1>7. Axi!SlaveEdge
  BY DEF BridgeStep
<1> QED
  BY <1>3, <1>4, <1>5, <1>6, <1>7, SlaveDrives DEF Working, Awaiting

-----------------------------------------------------------------------------
(***************************************************************************)
(* The mux, in one cycle: who answers, and who is asked.                   *)
(***************************************************************************)
NoTelemetry == TelemAddr = {}

Asks  == Lsu!Requesting /\ MemAccept
Fresh == outst = <<>> \/ MemAck # "NONE"

LEMMA NoHit == ASSUME NoTelemetry PROVE ~TelemHit /\ CoreAddr = TcmAddr \cup ExtAddr
BY DEF NoTelemetry, TelemHit, CoreAddr

LEMMA Answering ==
    ASSUME NoTelemetry
    PROVE  /\ NoneOwed => MemAck = "NONE"
           /\ \A o \in Operations : TcmOwes(o) => MemAck = "OK" /\ MemData = data_r
           /\ \A o \in Operations : BridgeOwes(o) =>
                 /\ MemAck = Axi!MemAck /\ MemAck \in {"NONE", "OK", "ERROR"}
                 /\ MemData = Axi!MemData
                 /\ MemAck # "NONE" => Awaiting(o)
<1>1. NoneOwed => MemAck = "NONE"
  BY NoHit DEF NoneOwed, BridgeIdle, MemAck, AckBus, Axi!MemAck, Axi!Silent
<1>2. ASSUME NEW o \in Operations, TcmOwes(o)
      PROVE  MemAck = "OK" /\ MemData = data_r
  BY <1>2, NoHit DEF TcmOwes, MemAck, AckBus, MemData
<1>3. ASSUME NEW o \in Operations, BridgeOwes(o)
      PROVE  /\ MemAck = Axi!MemAck /\ MemAck \in {"NONE", "OK", "ERROR"}
             /\ MemData = Axi!MemData
             /\ MemAck # "NONE" => Awaiting(o)
  <2>1. MemAck = Axi!MemAck /\ MemData = Axi!MemData
    BY <1>3, NoHit DEF BridgeOwes, MemAck, AckBus, MemData
  <2>2. o.op \in Lsu!Aligned /\ Working(o)
    BY <1>3 DEF BridgeOwes
  <2> QED
    BY <2>1, <2>2, BridgeAnswers DEF Axi!Answers
<1> QED
  BY <1>1, <1>2, <1>3

\* At most one answer is owed, and the load/store unit waits for it.
LEMMA OneOwed ==
    ASSUME TcmInv
    PROVE  /\ pending_lsu_e2_q <=> outst # <<>>
           /\ outst = <<>> \/ \E o \in Operations : outst = <<o>>
           /\ outst # <<>> => ~NoneOwed
           /\ outst = <<>> => NoneOwed
<1>1. pending_lsu_e2_q <=> outst # <<>>
  BY DEF TcmInv, LsuP!IInv, LsuP!Pairing
<1>2. outst = <<>> \/ \E o \in Operations : outst = <<o>>
  BY DEF TcmInv, Sides, NoneOwed, TcmOwes, BridgeOwes
<1>3. ASSUME NEW o PROVE <<o>> # <<>>
  OBVIOUS
<1> QED
  BY <1>1, <1>2, <1>3 DEF TcmInv, Sides, NoneOwed, TcmOwes, BridgeOwes

LEMMA FreshBridge ==
    ASSUME NoTelemetry, TcmInv, Fresh PROVE BridgeFree /\ Axi!MemAccept
<1>1. BridgeFree
  <2>1. CASE NoneOwed
    BY <2>1 DEF NoneOwed, BridgeFree
  <2>2. ASSUME NEW o \in Operations, TcmOwes(o) PROVE BridgeFree
    BY <2>2 DEF TcmOwes, BridgeFree
  <2>3. ASSUME NEW o \in Operations, BridgeOwes(o) PROVE BridgeFree
    <3>1. outst # <<>>
      BY <2>3, OneItem DEF BridgeOwes
    <3>2. MemAck # "NONE" /\ MemAck = Axi!MemAck
      BY <2>3, <3>1, Answering DEF Fresh
    <3> QED
      BY <2>3, <3>2 DEF BridgeOwes, BridgeFree
  <2> QED
    BY <2>1, <2>2, <2>3 DEF TcmInv, Sides
<1>2. req = <<>> /\ tags \in {0, 1}
  BY <1>1, BridgeAnswers DEF BridgeFree, BridgeIdle, Working, Awaiting
<1> QED
  BY <1>1, <1>2, NoItem DEF Axi!MemAccept, Axi!FifoDepth

(***************************************************************************)
(* A request is accepted only in a cycle in which nothing else is owed, or *)
(* its answer is given: a load or store is masked before that, and a cache *)
(* operation goes to the memory, which answers in the next cycle.          *)
(***************************************************************************)
LEMMA Asked ==
    ASSUME NoTelemetry, TcmInv, Asks
    PROVE  /\ Fresh
           /\ mem_q \in Operations /\ mem_q.op \in Lsu!Aligned \cup Lsu!CacheOps
           /\ MemAddr = mem_q.addr /\ ~Hold
           /\ TcmAccess => /\ mem_q.addr \in TcmAddr /\ mem_d_accept_q
                           /\ ToTcm = mem_q /\ ToExt = <<>>
           /\ ~TcmAccess => /\ mem_q.addr \in ExtAddr /\ mem_q.op \in Lsu!Aligned
                            /\ ToTcm = Lsu!Nothing /\ ToExt = <<Item(mem_q)>>
<1>1. mem_q \in Operations /\ mem_q.op \in Lsu!Aligned \cup Lsu!CacheOps
  BY DEF Asks, TcmInv, Registers, Lsu!Requesting, Lsu!Nothing, Lsu!Aligned,
         Lsu!CacheOps
<1>2. mem_q.op # "NONE" /\ MemAddr = mem_q.addr
  BY <1>1 DEF MemAddr, Lsu!Aligned, Lsu!CacheOps
<1>3. /\ mem_q.addr \in TcmAddr \cup ExtAddr
      /\ mem_q.op \in Lsu!CacheOps => mem_q.addr \in TcmAddr
  BY <1>1, NoHit DEF Operations
<1>4. ~Hold /\ (IF TcmAccess THEN mem_d_accept_q ELSE Axi!MemAccept)
  BY NoHit DEF Asks, MemAccept, Tcm!MemAccept
<1>5. Fresh
  <2>1. CASE mem_q.op \in Lsu!Aligned
    BY <2>1, OneOwed DEF Asks, Fresh, Lsu!Requesting, Lsu!Delay, Lsu!Aligned,
                         Lsu!CacheOps
  <2>2. CASE mem_q.op \in Lsu!CacheOps
    <3>1. TcmAccess
      BY <1>2, <1>3, <2>2 DEF TcmAccess
    <3>2. ASSUME NEW o \in Operations, BridgeOwes(o) PROVE FALSE
      BY <1>4, <3>1, <3>2 DEF BridgeOwes, Hold, TcmInv, Registers
    <3>3. ASSUME NEW o \in Operations, TcmOwes(o) PROVE MemAck = "OK"
      BY <3>3, Answering
    <3> QED
      BY <3>2, <3>3 DEF TcmInv, Sides, NoneOwed, Fresh
  <2> QED
    BY <1>1, <2>1, <2>2
<1>6. TcmAccess <=> mem_q.addr \in TcmAddr
  BY <1>2 DEF TcmAccess
<1>7. TcmAddr \cap ExtAddr = {}
  BY TcmAssumption
<1>8. CASE TcmAccess
  BY <1>1, <1>2, <1>4, <1>5, <1>6, <1>7, <1>8 DEF Asks, ToTcm, ToExt
<1>9. CASE ~TcmAccess
  <2>1. mem_q.addr \in ExtAddr /\ mem_q.op \in Lsu!Aligned
    BY <1>1, <1>3, <1>6, <1>9
  <2> QED
    BY <1>1, <1>2, <1>4, <1>5, <1>9, <2>1 DEF Asks, ToTcm, ToExt, Item
<1> QED
  BY <1>8, <1>9

\* What is not accepted leaves no trace.
LEMMA NotAsked ==
    ASSUME NoTelemetry, TcmInv, ~Asks
    PROVE  /\ ToTcm = Lsu!Nothing \/ ~mem_d_accept_q
           /\ ToExt = <<>>
<1>1. CASE Lsu!Requesting /\ ~Hold /\ TcmAccess
  <2>1. ~mem_d_accept_q
    BY <1>1 DEF Asks, MemAccept, Tcm!MemAccept
  <2>2. MemAddr \notin ExtAddr
    BY <1>1, TcmAssumption DEF TcmAccess
  <2> QED
    BY <2>1, <2>2 DEF ToExt
<1>2. CASE Lsu!Requesting /\ ~Hold /\ ~TcmAccess /\ mem_q.op \in Lsu!Aligned
  <2>1. Fresh
    BY <1>2, OneOwed DEF Fresh, Lsu!Requesting, Lsu!Delay, Lsu!Aligned,
                         Lsu!CacheOps
  <2>2. Axi!MemAccept
    BY <2>1, FreshBridge
  <2> QED
    BY <1>2, <2>2 DEF Asks, MemAccept
<1>3. CASE Lsu!Requesting /\ ~Hold /\ ~TcmAccess /\ mem_q.op \notin Lsu!Aligned
  BY <1>3 DEF ToTcm, ToExt
<1>4. CASE ~Lsu!Requesting \/ Hold
  BY <1>4 DEF ToTcm, ToExt
<1> QED
  BY <1>1, <1>2, <1>3, <1>4

-----------------------------------------------------------------------------
(***************************************************************************)
(* One clock edge: the RAM, which core and host share.                     *)
(***************************************************************************)
LEMMA RamNext ==
    ASSUME NoTelemetry, TcmInv, NEW decoded, Clock(decoded)
    PROVE  /\ ram' \in [TcmAddr \cup HostAddr -> Words] /\ data_r' \in Words
           /\ \A a \in HostAddr : ram'[a] = host_mem'[a]
           /\ host_mem' \in [HostAddr -> Words]
           /\ \A a \in TcmAddr :
                 ram'[a] = IF Asks /\ mem_q.op = "STORE" /\ a = mem_q.addr
                           THEN mem_q.data ELSE ram[a]
           /\ Asks /\ TcmAccess /\ mem_q.op = "LOAD" => data_r' = ram[mem_q.addr]
           /\ mem_d_ack_q' = (Asks /\ TcmAccess)
<1> DEFINE user == Tcm!PortUser(ToTcm, host)
<1>1. /\ ram' = IF user.op = "STORE" THEN [ram EXCEPT ![user.addr] = user.data]
                ELSE ram
      /\ data_r' = IF user.op = "LOAD" THEN ram[user.addr]
                   ELSE CHOOSE d \in Words : TRUE
      /\ mem_d_ack_q' = (ToTcm.op # "NONE" /\ mem_d_accept_q)
  BY DEF Clock, Tcm!Edge, Tcm!RamPort, Tcm!Acknowledge, Tcm!MemAccept
<1>2. host_mem' = IF host.op = "STORE" /\ ~mem_d_accept_q
                  THEN [host_mem EXCEPT ![host.addr] = host.data] ELSE host_mem
  BY DEF Clock, History, Tcm!ExtAccept
<1>3. (CHOOSE d \in Words : TRUE) \in Words
  BY TcmAssumption
<1>4. /\ ram \in [TcmAddr \cup HostAddr -> Words]
      /\ host_mem \in [HostAddr -> Words]
      /\ \A a \in HostAddr : ram[a] = host_mem[a]
      /\ mem_d_accept_q \in BOOLEAN
      /\ host \in HostRequests \cup {Tcm!NoRequest}
  BY DEF TcmInv, Memories, Registers
<1>5. HostAddr \cap TcmAddr = {}
  BY TcmAssumption DEF CoreAddr
<1>6. CASE Asks /\ TcmAccess
  <2>1. /\ mem_q \in Operations /\ mem_q.addr \in TcmAddr /\ mem_d_accept_q
        /\ ToTcm = mem_q /\ mem_q.op \in Lsu!Aligned \cup Lsu!CacheOps
    BY <1>6, Asked
  <2>2. user = mem_q
    BY <2>1 DEF Tcm!PortUser, Tcm!ExtAccept
  <2>3. mem_q.data \in Words /\ mem_q.op # "NONE"
    BY <2>1 DEF Operations, Lsu!Aligned, Lsu!CacheOps
  <2>4. host_mem' = host_mem
    BY <1>2, <2>1
  <2> HIDE DEF user
  <2> QED
    BY <1>1, <1>3, <1>4, <1>5, <1>6, <2>1, <2>2, <2>3, <2>4
<1>7. CASE ~(Asks /\ TcmAccess) /\ mem_d_accept_q
  <2>1. ToTcm = Lsu!Nothing
    BY <1>7, Asked, NotAsked
  <2>2. user.op = "NONE" /\ ToTcm.op = "NONE"
    BY <1>7, <2>1 DEF Tcm!PortUser, Tcm!ExtAccept, Lsu!Nothing
  <2>3. Asks => mem_q.addr \notin TcmAddr
    BY <1>7, Asked, TcmAssumption
  <2>4. host_mem' = host_mem
    BY <1>2, <1>7
  <2> HIDE DEF user
  <2> QED
    BY <1>1, <1>3, <1>4, <1>7, <2>2, <2>3, <2>4
<1>8. CASE ~mem_d_accept_q
  <2>1. ~(Asks /\ TcmAccess) /\ (Asks => mem_q.addr \notin TcmAddr)
    BY <1>8, Asked, TcmAssumption
  <2>2. user = host
    BY <1>8 DEF Tcm!PortUser, Tcm!ExtAccept
  <2>3. /\ host.op = "STORE" => host.addr \in HostAddr /\ host.data \in Words
        /\ host.op = "LOAD" => host.addr \in HostAddr
    BY <1>4 DEF HostRequests, Tcm!NoRequest
  <2> HIDE DEF user
  <2> QED
    BY <1>1, <1>2, <1>3, <1>4, <1>5, <1>8, <2>1, <2>2, <2>3
<1> QED
  BY <1>6, <1>7, <1>8

(***************************************************************************)
(* What the answers have left in memory is what is in the RAM and behind   *)
(* the bridge, once nothing is owed.                                       *)
(***************************************************************************)
LEMMA MemNext ==
    ASSUME NoTelemetry, TcmInv, NEW decoded, Clock(decoded)
    PROVE  /\ ~Fresh => mem' = mem
           /\ Fresh => \A a \in TcmAddr : mem'[a] = ram[a]
           /\ \A a \in ExtAddr : mem'[a] = axi_mem'[a]
           /\ axi_mem' \in [ExtAddr -> Words]
           /\ \A a \in CoreAddr : mem'[a] \in Words
<1> DEFINE stored == outst # <<>> /\ MemAck = "OK" /\ Head(outst).op = "STORE"
<1>1. /\ mem' = IF stored THEN [mem EXCEPT ![Head(outst).addr] = Head(outst).data]
                ELSE mem
      /\ axi_mem' = IF axi.b = "OK" THEN [axi_mem EXCEPT ![Head(aw)] = Head(w)]
                    ELSE axi_mem
  BY DEF Clock, History, Axi!SlaveEdge
<1>2. /\ mem \in [Values -> Values] /\ CoreAddr \subseteq Values
      /\ axi_mem \in [ExtAddr -> Words]
      /\ \A a \in ExtAddr : axi_mem[a] = mem[a]
      /\ \A a \in CoreAddr : mem[a] \in Words
      /\ CoreAddr = TcmAddr \cup ExtAddr /\ TcmAddr \cap ExtAddr = {}
  BY NoHit, TcmAssumption
     DEF TcmInv, LsuP!IInv, LsuP!Registers, Memories, Values
<1>3. CASE NoneOwed
  <2>1. ~stored /\ axi.b = "NONE" /\ Fresh
    BY <1>3 DEF NoneOwed, BridgeIdle, Axi!Silent, Fresh
  <2> HIDE DEF stored
  <2> QED
    BY <1>1, <1>2, <1>3, <2>1 DEF NoneOwed
<1>4. ASSUME NEW o \in Operations, TcmOwes(o) PROVE
             /\ Fresh
             /\ \A a \in TcmAddr : mem'[a] = ram[a]
             /\ \A a \in ExtAddr : mem'[a] = axi_mem'[a]
             /\ axi_mem' \in [ExtAddr -> Words]
             /\ \A a \in CoreAddr : mem'[a] \in Words
  <2>1. MemAck = "OK" /\ axi.b = "NONE" /\ outst = <<o>> /\ o.addr \in TcmAddr
    BY <1>4, Answering DEF TcmOwes, BridgeIdle, Axi!Silent
  <2>2. Head(outst) = o /\ outst # <<>>
    BY <2>1, OneItem
  <2>3. mem' = IF o.op = "STORE" THEN [mem EXCEPT ![o.addr] = o.data] ELSE mem
    BY <1>1, <2>1, <2>2
  <2>4. o.data \in Words
    BY DEF Operations
  <2>5. Fresh
    BY <2>1 DEF Fresh
  <2>6. \A a \in TcmAddr : ram[a] = IF o.op = "STORE" /\ a = o.addr
                                   THEN o.data ELSE mem[a]
    BY <1>4 DEF TcmOwes
  <2> QED
    BY <1>1, <1>2, <2>1, <2>3, <2>4, <2>5, <2>6
<1>5. ASSUME NEW o \in Operations, BridgeOwes(o) PROVE
             /\ ~Fresh => mem' = mem
             /\ \A a \in TcmAddr : mem'[a] = ram[a]
             /\ \A a \in ExtAddr : mem'[a] = axi_mem'[a]
             /\ axi_mem' \in [ExtAddr -> Words]
             /\ \A a \in CoreAddr : mem'[a] \in Words
  <2>1. MemAck = Axi!MemAck /\ outst = <<o>> /\ o.addr \in ExtAddr
        /\ o.op \in Lsu!Aligned /\ Working(o)
    BY <1>5, Answering DEF BridgeOwes
  <2>2. Head(outst) = o /\ outst # <<>>
    BY <2>1, OneItem
  <2>3. o.data \in Words
    BY DEF Operations
  <2>4. stored <=> axi.b = "OK"
    BY <2>1, <2>2 DEF Working, Offering, Awaiting, Axi!MemAck, Axi!Answers,
                      Lsu!Aligned
  <2>5. axi.b = "OK" => Head(aw) = o.addr /\ Head(w) = o.data
    BY <2>1, OneItem DEF Working, Offering, Awaiting, Lsu!Aligned
  <2>6. ~Fresh => ~stored
    BY DEF Fresh
  <2>7. \A a \in TcmAddr : ram[a] = mem[a]
    BY <1>5 DEF BridgeOwes
  <2> HIDE DEF stored
  <2> QED
    BY <1>1, <1>2, <2>1, <2>2, <2>3, <2>4, <2>5, <2>6, <2>7
<1> QED
  BY <1>3, <1>4, <1>5 DEF TcmInv, Sides

(***************************************************************************)
(* Where the owed request is after the edge.                               *)
(***************************************************************************)
LEMMA MuxNext ==
    ASSUME NoTelemetry, TcmInv, NEW decoded, Clock(decoded)
    PROVE  /\ Asks => /\ outst' = <<mem_q>> /\ pending_q' = 1
                      /\ tcm_access_q' = TcmAccess
           /\ ~Asks /\ Fresh => outst' = <<>> /\ pending_q' = 0
           /\ ~Fresh => outst' = outst /\ pending_q' = pending_q
           /\ ~Asks => tcm_access_q' = tcm_access_q
<1> DEFINE left == IF MemAck # "NONE" /\ outst # <<>> THEN Tail(outst) ELSE outst
<1>1. /\ outst' = IF Asks THEN Append(left, mem_q) ELSE left
      /\ pending_q' = IF Asks /\ MemAck = "NONE" THEN (pending_q + 1) % 32
                      ELSE IF ~Asks /\ MemAck # "NONE" THEN (pending_q + 31) % 32
                      ELSE pending_q
      /\ tcm_access_q' = IF Asks THEN TcmAccess ELSE tcm_access_q
  BY DEF Clock, History, Mux, Asks
<1>2. /\ outst = <<>> => pending_q = 0 /\ MemAck = "NONE"
      /\ outst # <<>> => pending_q = 1
  <2>1. outst = <<>> => pending_q = 0 /\ MemAck = "NONE"
    BY OneOwed, Answering DEF NoneOwed
  <2>2. outst # <<>> => pending_q = 1
    BY OneOwed DEF TcmInv, Sides, TcmOwes, BridgeOwes
  <2> QED
    BY <2>1, <2>2
<1>3. Fresh => left = <<>>
  BY OneOwed, OneItem DEF Fresh
<1>4. ~Fresh => left = outst
  BY DEF Fresh
<1>5. Asks => Fresh
  BY Asked
<1> HIDE DEF left
<1>6. Asks => outst' = <<mem_q>> /\ pending_q' = 1
  <2> SUFFICES ASSUME Asks PROVE outst' = <<mem_q>> /\ pending_q' = 1
    OBVIOUS
  <2>1. outst' = Append(<<>>, mem_q)
    BY <1>1, <1>3, <1>5
  <2>2. pending_q' = 1
    BY <1>1, <1>2, <1>5 DEF Fresh
  <2> QED
    BY <2>1, <2>2, OneItem
<1>7. ~Asks /\ Fresh => outst' = <<>> /\ pending_q' = 0
  BY <1>1, <1>2, <1>3 DEF Fresh
<1>8. ~Fresh => outst' = outst /\ pending_q' = pending_q
  BY <1>1, <1>4, <1>5 DEF Fresh
<1> QED
  BY <1>1, <1>6, <1>7, <1>8

LEMMA SidesNext ==
    ASSUME NoTelemetry, TcmInv, NEW decoded, Clock(decoded)
    PROVE  Sides'
<1>1. BridgeStep(ToExt) /\ Axi!SlaveEdge
  BY DEF Clock, BridgeStep
<1>2. CASE Asks /\ TcmAccess
  <2>1. /\ Fresh /\ mem_q \in Operations /\ mem_q.addr \in TcmAddr
        /\ mem_q.op \in Lsu!Aligned \cup Lsu!CacheOps /\ ToExt = <<>>
    BY <1>2, Asked
  <2>2. BridgeIdle'
    BY <1>1, <2>1, FreshBridge, BridgeEmpties, BridgeRests, NoItem
       DEF BridgeIdle
  <2>3. /\ outst' = <<mem_q>> /\ pending_q' = 1 /\ tcm_access_q' /\ mem_d_ack_q'
    BY <1>2, MuxNext, RamNext
  <2>4. /\ \A a \in TcmAddr : ram'[a] = IF mem_q.op = "STORE" /\ a = mem_q.addr
                                       THEN mem_q.data ELSE mem'[a]
        /\ mem_q.op = "LOAD" => data_r' = mem'[mem_q.addr]
    BY <1>2, <2>1, RamNext, MemNext
  <2>5. PICK o \in Operations : o = mem_q
    BY <2>1
  <2>6. TcmOwes(o)'
    BY <2>1, <2>2, <2>3, <2>4, <2>5 DEF TcmOwes
  <2> QED
    BY <2>6 DEF Sides
<1>3. CASE Asks /\ ~TcmAccess
  <2>1. /\ Fresh /\ mem_q \in Operations /\ mem_q.addr \in ExtAddr
        /\ mem_q.op \in Lsu!Aligned /\ ToExt = <<Item(mem_q)>>
    BY <1>3, Asked
  <2>2. PICK o \in Operations : o = mem_q
    BY <2>1
  <2>3. /\ req' = <<Item(o)>> /\ tags' = 1
        /\ aw' = <<>> /\ w' = <<>> /\ ar' = <<>>
        /\ ~request_pending_q' /\ ~awvalid_inhibit_q' /\ ~wvalid_inhibit_q'
    BY <1>1, <2>1, <2>2, FreshBridge, BridgeEmpties, OneItem
  <2>4. Working(o)'
    BY <1>1, <2>1, <2>2, <2>3, BridgeStarts DEF Working
  <2>5. outst' = <<o>> /\ pending_q' = 1 /\ ~tcm_access_q' /\ ~mem_d_ack_q'
    BY <1>3, <2>2, MuxNext, RamNext
  <2>6. \A a \in TcmAddr : ram'[a] = mem'[a]
    BY <2>1, RamNext, MemNext, TcmAssumption
  <2>7. BridgeOwes(o)'
    BY <2>1, <2>2, <2>4, <2>5, <2>6 DEF BridgeOwes
  <2> QED
    BY <2>7 DEF Sides
<1>4. CASE ~Asks /\ Fresh
  <2>1. BridgeIdle'
    BY <1>1, <1>4, NotAsked, FreshBridge, BridgeEmpties, BridgeRests, NoItem
       DEF BridgeIdle
  <2>2. outst' = <<>> /\ pending_q' = 0 /\ ~mem_d_ack_q'
    BY <1>4, MuxNext, RamNext
  <2>3. \A a \in TcmAddr : ram'[a] = mem'[a]
    BY <1>4, RamNext, MemNext
  <2> QED
    BY <2>1, <2>2, <2>3 DEF Sides, NoneOwed
<1>5. CASE ~Fresh
  <2>1. ~Asks
    BY <1>5, Asked
  <2>2. PICK o \in Operations : BridgeOwes(o)
    BY <1>5, Answering DEF TcmInv, Sides, NoneOwed, Fresh
  <2>3. Working(o)'
    BY <1>1, <1>5, <2>1, <2>2, NotAsked, Answering, BridgeOffers, BridgeWaits
       DEF BridgeOwes, Working, Fresh
  <2>4. /\ outst' = <<o>> /\ pending_q' = 1 /\ ~tcm_access_q' /\ ~mem_d_ack_q'
    BY <1>5, <2>1, <2>2, MuxNext, RamNext DEF BridgeOwes
  <2>5. \A a \in TcmAddr : ram'[a] = mem'[a]
    BY <1>5, <2>1, <2>2, RamNext, MemNext DEF BridgeOwes
  <2>6. BridgeOwes(o)'
    BY <2>2, <2>3, <2>4, <2>5 DEF BridgeOwes
  <2> QED
    BY <2>6 DEF Sides
<1> QED
  BY <1>2, <1>3, <1>4, <1>5

-----------------------------------------------------------------------------
(***************************************************************************)
(* The load/store unit sees a port like the one it is proved with.         *)
(***************************************************************************)
LEMMA SameUnit ==
    ASSUME NEW decoded, NEW accept
    PROVE  /\ Lsu!RequestRegister(decoded, accept)
                = LsuP!RequestRegister(decoded, accept)
           /\ Lsu!Tracking(accept) = LsuP!Tracking(accept)
           /\ Lsu!Fifo(accept) = LsuP!Fifo(accept)
           /\ Lsu!Requesting = LsuP!Requesting
           /\ Lsu!Stall(accept) = LsuP!Stall(accept)
BY DEF Lsu!RequestRegister, Lsu!Tracking, Lsu!Fifo, Lsu!Requesting, Lsu!Delay,
       Lsu!Stall, Lsu!Answered, Lsu!Unaligned, Lsu!Push, Lsu!Pop, Lsu!Tag,
       Lsu!Nothing, Lsu!Aligned, Lsu!Misaligned, Lsu!CacheOps, Lsu!Loads,
       Lsu!FifoDepth,
       LsuP!RequestRegister, LsuP!Tracking, LsuP!Fifo, LsuP!Requesting,
       LsuP!Delay, LsuP!Stall, LsuP!Answered, LsuP!Unaligned, LsuP!Push,
       LsuP!Pop, LsuP!Tag, LsuP!Nothing, LsuP!Aligned, LsuP!Misaligned,
       LsuP!CacheOps, LsuP!Loads, LsuP!FifoDepth

LEMMA SameNames ==
    /\ Operations \subseteq LsuP!Operation
    /\ Lsu!Nothing = LsuP!Nothing
    /\ Lsu!CacheOps = LsuP!CacheOps
BY DEF Operations, Values, Lsu!LsuOps, Lsu!Aligned, Lsu!Misaligned, Lsu!CacheOps,
       Lsu!Nothing, LsuP!Operation, LsuP!LsuOps, LsuP!Aligned, LsuP!Misaligned,
       LsuP!CacheOps, LsuP!Nothing

AnswersFit ==
    MemAck \in IF outst = <<>> THEN {"NONE"} ELSE {"NONE", "OK", "ERROR"}

LEMMA Answers == NoTelemetry /\ Sides => AnswersFit
<1> SUFFICES ASSUME NoTelemetry, Sides
             PROVE  MemAck \in IF outst = <<>> THEN {"NONE"}
                               ELSE {"NONE", "OK", "ERROR"}
  BY DEF AnswersFit
<1>1. CASE NoneOwed
  BY <1>1, Answering DEF NoneOwed
<1>2. ASSUME NEW o \in Operations, TcmOwes(o) \/ BridgeOwes(o)
      PROVE  outst # <<>> /\ MemAck \in {"NONE", "OK", "ERROR"}
  BY <1>2, Answering, OneItem DEF TcmOwes, BridgeOwes
<1> QED
  BY <1>1, <1>2 DEF Sides

LEMMA AnswersNext == NoTelemetry' /\ Sides' => AnswersFit'
<1>1. NoTelemetry /\ Sides => AnswersFit
  BY Answers
<1> QED
  BY <1>1, PTL

\* What issue hands over: nothing, or an operation when the unit does not stall.
Handed(decoded) ==
    \/ decoded = Lsu!Nothing
    \/ decoded \in Operations /\ ~Lsu!Stall(MemAccept)

LEMMA LsuEdge ==
    ASSUME NoTelemetry, TcmInv, NEW decoded, Clock(decoded), Handed(decoded)
    PROVE  LsuP!IInv'
<1> DEFINE left == IF MemAck # "NONE" THEN Tail(outst) ELSE outst
<1>1. LsuP!Decoded(decoded, MemAccept)
  BY SameUnit, SameNames DEF Handed, LsuP!Decoded
<1>2. outst = <<>> => MemAck = "NONE"
  BY OneOwed, Answering
<1>3. Asks => left = <<>>
  BY <1>2, Asked, OneOwed, OneItem DEF Fresh
<1>4. MemAccept /\ mem_q.op \in LsuP!CacheOps => left = <<>>
  BY <1>3, SameNames DEF Asks, Lsu!Requesting
<1>5. outst' = IF LsuP!Requesting /\ MemAccept THEN Append(left, mem_q) ELSE left
  BY <1>2, SameUnit DEF Clock, History
<1>6. mem' = IF MemAck = "OK" /\ Head(outst).op = "STORE"
             THEN [mem EXCEPT ![Head(outst).addr] = Head(outst).data] ELSE mem
  BY <1>2 DEF Clock, History
<1>7. MemAck' \in IF outst' = <<>> THEN {"NONE"} ELSE {"NONE", "OK", "ERROR"}
  BY SidesNext, AnswersNext DEF AnswersFit, NoTelemetry
<1>8. LsuP!Port(MemAccept)
  BY <1>4, <1>5, <1>6, <1>7 DEF LsuP!Port, LsuP!Answered
<1>9. LsuP!Edge(decoded, MemAccept)
  BY <1>8, SameUnit DEF Clock, LsuP!Edge
<1>10. MemAccept \in BOOLEAN
  BY NoHit DEF MemAccept, TcmInv, Registers, Tcm!MemAccept, Axi!MemAccept
<1> QED
  BY <1>1, <1>9, <1>10, LsuP!EdgeRegisters, LsuP!EdgePairing
     DEF TcmInv, LsuP!IInv

LEMMA StepClock ==
    ASSUME NoTelemetry, TcmInv, NEW decoded, Clock(decoded), Handed(decoded)
    PROVE  TcmInv'
<1>1. Memories'
  BY RamNext, MemNext DEF Memories
<1>2. mem_q' \in Operations \cup {Lsu!Nothing}
  BY DEF Clock, Lsu!RequestRegister, Handed, TcmInv, Registers
<1>3. tcm_access_q' \in BOOLEAN /\ mem_d_ack_q' \in BOOLEAN
  <2>1. tcm_access_q' = tcm_access_q \/ tcm_access_q' = (MemAddr \in TcmAddr)
    BY MuxNext DEF TcmAccess
  <2>2. tcm_access_q \in BOOLEAN
    BY DEF TcmInv, Registers
  <2>3. tcm_access_q' \in BOOLEAN
    <3>1. (MemAddr \in TcmAddr) \in BOOLEAN
      OBVIOUS
    <3> QED
      BY <2>1, <2>2, <3>1, Zenon
  <2>4. mem_d_ack_q' = (ToTcm.op # "NONE" /\ mem_d_accept_q)
    BY DEF Clock, Tcm!Edge, Tcm!Acknowledge, Tcm!MemAccept
  <2> QED
    BY <2>3, <2>4
<1>4. mem_d_accept_q' \in BOOLEAN
  BY DEF Clock, Tcm!Edge, Tcm!Turn
<1>5. host' \in HostRequests \cup {Tcm!NoRequest}
  BY DEF Clock, Host, TcmInv, Registers
<1>6. idle_addr' \in TcmAddr
  BY TcmAssumption DEF Clock, IdleAddr, NoTelemetry
<1> QED
  BY <1>1, <1>2, <1>3, <1>4, <1>5, <1>6, SidesNext, LsuEdge DEF TcmInv, Registers

LEMMA StepTcm == NoTelemetry /\ TcmInv /\ [Next]_vars => TcmInv'
<1> SUFFICES ASSUME NoTelemetry, TcmInv, [Next]_vars PROVE TcmInv'
  OBVIOUS
<1>1. CASE UNCHANGED vars
  BY <1>1 DEF vars, lsuVars, muxVars, tcmVars, Axi!bridgeVars, TcmInv, Registers,
     Memories, Sides, NoneOwed, TcmOwes, BridgeOwes, BridgeIdle, Working,
     Offering, Awaiting, LsuP!IInv, LsuP!Registers, LsuP!Pairing, LsuP!NoneOwed,
     LsuP!DummyOwed, LsuP!OneOwed, MemAck, AckBus, TelemHit, MemAddr, Axi!MemAck
<1>2. CASE Wait
  BY <1>2, StepClock DEF Wait, Handed
<1>3. ASSUME NEW op \in Ops, NEW addr \in CoreAddr, NEW data \in Words,
             Issue(op, addr, data)
      PROVE  TcmInv'
  <2>1. [op |-> op, addr |-> addr, data |-> data] \in Operations
    BY <1>3, OpsAssumption DEF Issue, Operations
  <2> QED
    BY <1>3, <2>1, StepClock DEF Issue, Handed
<1>4. Lsu!Nothing.data \in Words
  BY TcmAssumption DEF Lsu!Nothing
<1> QED
  BY <1>1, <1>2, <1>3, <1>4 DEF Next, IssueOperation

LEMMA InitTcm == NoTelemetry /\ Init => TcmInv
<1> SUFFICES ASSUME NoTelemetry, Init PROVE TcmInv
  OBVIOUS
<1>1. CoreAddr = TcmAddr \cup ExtAddr /\ TcmAddr \cap ExtAddr = {}
      /\ CoreAddr \subseteq Values /\ 0 \in Words /\ Words \subseteq Values
  BY NoHit, TcmAssumption DEF Values
<1>2. (CHOOSE d \in Words : TRUE) \in Words
  BY TcmAssumption
<1>3. /\ ram \in [TcmAddr \cup HostAddr -> Words] /\ axi_mem \in [ExtAddr -> Words]
      /\ data_r \in Words
  BY <1>2 DEF Init, Tcm!Init, Axi!SlaveInit
<1>4. /\ \A a \in TcmAddr : mem[a] = ram[a]
      /\ \A a \in ExtAddr : mem[a] = axi_mem[a]
      /\ mem \in [Values -> Values]
  BY <1>1, <1>2, <1>3 DEF Init
<1>5. Memories
  BY <1>1, <1>3, <1>4 DEF Memories, Init
<1>6. NoneOwed
  BY <1>4 DEF Init, NoneOwed, BridgeIdle, Tcm!Init, Axi!BridgeInit, Axi!SlaveInit
<1>7. Registers
  BY TcmAssumption DEF Init, Registers, Tcm!Init, IdleAddr, NoTelemetry
<1>8. MemAck = "NONE"
  BY <1>6, Answering
<1>9. LsuP!IInv
  BY <1>1, <1>4, <1>8, SameNames DEF Init, LsuP!IInv, LsuP!Registers, LsuP!Pairing,
     LsuP!NoneOwed
<1> QED
  BY <1>5, <1>6, <1>7, <1>9 DEF TcmInv, Sides

-----------------------------------------------------------------------------
LEMMA OneSide == TcmInv => OneSideOwes
<1> SUFFICES ASSUME TcmInv PROVE OneSideOwes
  OBVIOUS
<1>1. CASE NoneOwed
  BY <1>1, NoItem DEF NoneOwed, BridgeIdle, OneSideOwes
<1>2. ASSUME NEW o \in Operations, TcmOwes(o) PROVE OneSideOwes
  <2>1. /\ Len(outst) = 1 /\ pending_q = 1 /\ mem_d_ack_q /\ tcm_access_q
        /\ tags = 0
    BY <1>2, OneItem DEF TcmOwes, BridgeIdle
  <2> QED
    BY <2>1 DEF OneSideOwes
<1>3. ASSUME NEW o \in Operations, BridgeOwes(o) PROVE OneSideOwes
  <2>1. /\ Len(outst) = 1 /\ pending_q = 1 /\ ~mem_d_ack_q /\ ~tcm_access_q
        /\ tags = 1
    BY <1>3, OneItem DEF BridgeOwes, Working
  <2> QED
    BY <2>1 DEF OneSideOwes
<1> QED
  BY <1>1, <1>2, <1>3 DEF TcmInv, Sides

(***************************************************************************)
(* The mux counts exactly the answers the core waits for, and they all     *)
(* come from the side it has selected: no answer is lost or taken for      *)
(* another's.                                                              *)
(***************************************************************************)
THEOREM OneSideAnswers ==
    ASSUME NoTelemetry PROVE Spec => []OneSideOwes
<1>1. Init => TcmInv
  BY InitTcm
<1>2. TcmInv /\ [Next]_vars => TcmInv'
  BY StepTcm
<1>3. TcmInv => OneSideOwes
  BY OneSide
<1> QED
  BY <1>1, <1>2, <1>3, PTL DEF Spec

\* The word that comes with an answer.
DataFits ==
    MemData \in IF MemAck = "OK" /\ Head(outst).op = "LOAD"
                THEN {mem[Head(outst).addr]} ELSE Words

LEMMA Data == NoTelemetry /\ TcmInv => DataFits
<1> SUFFICES ASSUME NoTelemetry, TcmInv PROVE DataFits
  OBVIOUS
<1>1. axi_mem \in [ExtAddr -> Words] /\ data_r \in Words
      /\ \A a \in ExtAddr : axi_mem[a] = mem[a]
  BY DEF TcmInv, Memories
<1>2. (CHOOSE d \in Words : TRUE) \in Words
  BY TcmAssumption
<1>3. CASE NoneOwed
  <2>1. MemAck = "NONE" /\ Axi!MemData \in Words
    BY <1>2, <1>3, Answering DEF NoneOwed, BridgeIdle, Axi!Silent, Axi!MemData
  <2> QED
    BY <1>1, <2>1 DEF DataFits, MemData
<1>4. ASSUME NEW o \in Operations, TcmOwes(o) PROVE DataFits
  <2>1. Head(outst) = o /\ MemData = data_r
    BY <1>4, Answering, OneItem DEF TcmOwes
  <2> QED
    BY <1>1, <1>4, <2>1 DEF TcmOwes, DataFits
<1>5. ASSUME NEW o \in Operations, BridgeOwes(o) PROVE DataFits
  <2>1. /\ Head(outst) = o /\ o.op \in Lsu!Aligned /\ o.addr \in ExtAddr
        /\ MemAck = Axi!MemAck /\ MemData = Axi!MemData /\ Working(o)
        /\ MemAck # "NONE" => Awaiting(o)
    BY <1>5, Answering, OneItem DEF BridgeOwes
  <2>2. CASE axi.r # "NONE"
    <3>1. Awaiting(o)
      BY <2>1, <2>2 DEF Working, Offering
    <3>2. o.op = "LOAD" /\ ar = <<o.addr>>
      BY <2>1, <2>2, <3>1 DEF Awaiting, Lsu!Aligned
    <3>3. MemData = mem[o.addr] /\ MemData \in Words
      BY <1>1, <2>1, <2>2, <3>2, OneItem DEF Axi!MemData
    <3> QED
      BY <2>1, <3>3 DEF DataFits
  <2>3. CASE axi.r = "NONE"
    <3>1. MemData \in Words
      BY <1>2, <2>1, <2>3 DEF Axi!MemData
    <3>2. ~(MemAck = "OK" /\ o.op = "LOAD")
      BY <2>1, <2>3 DEF Awaiting, Axi!MemAck
    <3> QED
      BY <2>1, <3>1, <3>2 DEF DataFits
  <2> QED
    BY <2>2, <2>3
<1> QED
  BY <1>3, <1>4, <1>5 DEF TcmInv, Sides

(***************************************************************************)
(* Core and host read the word stored last, though they share a port, and  *)
(* though a store is performed before its answer.                          *)
(***************************************************************************)
THEOREM LastStoreIsRead ==
    ASSUME NoTelemetry PROVE Spec => []ReadsLastStore
<1>1. Init => TcmInv
  BY InitTcm
<1>2. TcmInv /\ [Next]_vars => TcmInv'
  BY StepTcm
<1>3. TcmInv => ReadsLastStore
  BY Data DEF DataFits, ReadsLastStore, TcmInv, Memories
<1> QED
  BY <1>1, <1>2, <1>3, PTL DEF Spec

-----------------------------------------------------------------------------
(***************************************************************************)
(* The refinement of the abstract port: the initial states, and every      *)
(* step.                                                                   *)
(***************************************************************************)
LEMMA DataNext == NoTelemetry' /\ TcmInv' => DataFits'
<1>1. NoTelemetry /\ TcmInv => DataFits
  BY Data
<1> QED
  BY <1>1, PTL

LEMMA InitPort == NoTelemetry /\ Init => Port!Init
<1> SUFFICES ASSUME NoTelemetry, Init PROVE Port!Init
  OBVIOUS
<1>1. TcmInv /\ outst = <<>>
  BY InitTcm DEF Init
<1>2. MemAck = "NONE"
  BY <1>1, OneOwed, Answering
<1>3. MemData \in Words
  BY <1>1, <1>2, Data DEF DataFits
<1>4. [a \in CoreAddr |-> mem[a]] \in [CoreAddr -> Words]
  BY <1>1 DEF TcmInv, Memories
<1> QED
  BY <1>1, <1>2, <1>3, <1>4 DEF Port!Init

LEMMA ClockPort ==
    ASSUME NoTelemetry, TcmInv, TcmInv', NEW decoded, Clock(decoded)
    PROVE  Port!Next
<1>1. outst = <<>> => MemAck = "NONE"
  BY OneOwed, Answering
<1>2. Fresh => Port!Left = <<>>
  BY <1>1, OneOwed, OneItem DEF Fresh, Port!Left
<1>3. ~Fresh => Port!Left = outst
  BY DEF Fresh, Port!Left
<1>4. outst' = Port!Left \/ Port!Accepts
  <2>1. CASE Asks
    <3>1. /\ outst' = <<mem_q>> /\ Port!Left = <<>>
          /\ mem_q \in Operations /\ mem_q.op \in Lsu!Aligned \cup Lsu!CacheOps
      BY <1>2, <2>1, Asked, MuxNext
    <3>2. outst' # <<>> /\ Port!Front(outst') = <<>> /\ Port!Last(outst') = mem_q
      BY <3>1, OneItem DEF Port!Front, Port!Last
    <3>3. mem_q \in [op : Lsu!Aligned \cup Lsu!CacheOps, addr : CoreAddr,
                     data : Words]
      BY <3>1 DEF Operations
    <3> QED
      BY <3>1, <3>2, <3>3 DEF Port!Accepts
  <2>2. CASE ~Asks
    BY <1>2, <1>3, <2>2, MuxNext
  <2> QED
    BY <2>1, <2>2
<1>5. [a \in CoreAddr |-> mem[a]]' = Port!Performed
  <2>1. mem' = IF MemAck = "OK" /\ Head(outst).op = "STORE"
               THEN [mem EXCEPT ![Head(outst).addr] = Head(outst).data] ELSE mem
    BY <1>1 DEF Clock, History
  <2>2. mem \in [Values -> Values] /\ CoreAddr \subseteq Values
    BY DEF TcmInv, LsuP!IInv, LsuP!Registers, Values
  <2>3. MemAck = "OK" => Head(outst).addr \in CoreAddr
    BY <1>1, OneOwed, OneItem DEF Operations
  <2> QED
    BY <2>1, <2>2, <2>3 DEF Port!Performed
<1>6. NoTelemetry'
  BY DEF NoTelemetry
<1>7. AnswersFit' /\ DataFits'
  BY <1>6, AnswersNext, DataNext DEF TcmInv
<1>8. MemAck' \in IF outst' = <<>> THEN {"NONE"} ELSE {"NONE", "OK", "ERROR"}
  BY <1>7 DEF AnswersFit
<1>9. MemData' \in IF MemAck' = "OK" /\ Head(outst').op = "LOAD"
                   THEN {mem'[Head(outst').addr]} ELSE Words
  BY <1>7 DEF DataFits
<1>10. MemAck' = "OK" => Head(outst').addr \in CoreAddr
  <2>1. outst = <<>> \/ \E o \in Operations : outst = <<o>>
    BY OneOwed
  <2>2. MemAck' = "OK" => outst' # <<>>
    BY <1>8
  <2>3. outst' = <<>> \/ outst' = outst \/ (outst' = <<mem_q>> /\ mem_q \in Operations)
    BY Asked, MuxNext
  <2> QED
    BY <2>1, <2>2, <2>3, OneItem DEF Operations
<1>11. MemAck' = "OK" =>
         [a \in CoreAddr |-> mem[a]]'[Head(outst').addr] = mem'[Head(outst').addr]
  BY <1>10
<1> QED
  BY <1>4, <1>5, <1>8, <1>9, <1>11 DEF Port!Next

(***************************************************************************)
(* Mux, memory, bridge and slave together are the port that RiscvLsu and   *)
(* RiscvPipe assume: every request is answered once, in order, a load with *)
(* the word stored last.                                                   *)
(***************************************************************************)
THEOREM Refinement == ASSUME NoTelemetry PROVE Spec => ImplementsMemPort
<1>1. Init => TcmInv /\ Port!Init
  BY InitTcm, InitPort
<1>2. TcmInv /\ [Next]_vars => TcmInv'
  BY StepTcm
<1>3. TcmInv /\ TcmInv' /\ [Next]_vars
        => [Port!Next]_<<outst, [a \in CoreAddr |-> mem[a]], MemAck, MemData>>
  <2> SUFFICES ASSUME TcmInv, TcmInv', [Next]_vars
               PROVE  [Port!Next]_<<outst, [a \in CoreAddr |-> mem[a]], MemAck,
                                    MemData>>
    OBVIOUS
  <2>1. CASE UNCHANGED vars
    BY <2>1 DEF vars, lsuVars, muxVars, tcmVars, Axi!bridgeVars, MemAck, AckBus,
       TelemHit, MemAddr, Axi!MemAck, MemData, Axi!MemData
  <2>2. CASE Next
    BY <2>2, ClockPort DEF Next, Wait, IssueOperation, Issue
  <2> QED
    BY <2>1, <2>2
<1> QED
  BY <1>1, <1>2, <1>3, PTL DEF Spec, ImplementsMemPort, Port!Spec

-----------------------------------------------------------------------------
(***************************************************************************)
(* What the bridge offers on a channel and is not taken it offers again.   *)
(***************************************************************************)
LEMMA OffersKept ==
    ASSUME NEW o \in Operations, o.op \in Lsu!Aligned, Offering(o), tags = 1,
           BridgeStep(<<>>)
    PROVE  /\ Axi!AwValid /\ ~axi.awready => Axi!AwValid' /\ Head(req') = Head(req)
           /\ Axi!WValid  /\ ~axi.wready  => Axi!WValid'  /\ Head(req') = Head(req)
           /\ Axi!ArValid /\ ~axi.arready => Axi!ArValid' /\ Head(req') = Head(req)
<1> DEFINE kept == \/ Axi!AwValid /\ ~axi.awready
                   \/ Axi!WValid /\ ~axi.wready
                   \/ Axi!ArValid /\ ~axi.arready
<1> SUFFICES ASSUME kept
             PROVE  /\ Head(req') = Head(req)
                    /\ Axi!AwValid /\ ~axi.awready => Axi!AwValid'
                    /\ Axi!WValid  /\ ~axi.wready  => Axi!WValid'
                    /\ Axi!ArValid /\ ~axi.arready => Axi!ArValid'
  OBVIOUS
<1>1. ~Axi!ReadComplete /\ ~Axi!WriteComplete
  BY DEF Axi!ReadComplete, Axi!WriteComplete, Axi!AwValid, Axi!WValid,
         Axi!ArValid, Axi!IsRead, Axi!IsWrite
<1>2. req' = req
  BY <1>1, OneItem, NoItem DEF BridgeStep, Axi!BridgeEdge, Axi!Fifos, Offering
<1>3. ~Axi!InProgress'
  BY <1>1 DEF BridgeStep, Axi!BridgeEdge, Axi!Pending, Offering, Axi!InProgress
<1>4. /\ Axi!AwValid /\ ~axi.awready => ~awvalid_inhibit_q'
      /\ Axi!WValid /\ ~axi.wready => ~wvalid_inhibit_q'
  BY DEF BridgeStep, Axi!BridgeEdge, Axi!Inhibit, Axi!AwValid, Axi!WValid
<1> HIDE DEF kept
<1> QED
  BY <1>2, <1>3, <1>4 DEF Axi!AwValid, Axi!WValid, Axi!ArValid, Axi!IsWrite,
     Axi!IsRead, Axi!Offered

LEMMA OneTransaction == TcmInv => Axi!OneOutstanding
<1> SUFFICES ASSUME TcmInv PROVE Axi!OneOutstanding
  OBVIOUS
<1>1. CASE BridgeIdle
  BY <1>1, NoItem DEF BridgeIdle, Axi!OneOutstanding
<1>2. ASSUME NEW o \in Operations, o.op \in Lsu!Aligned, Working(o)
      PROVE  Axi!OneOutstanding
  <2>1. /\ aw = <<>> \/ aw = <<o.addr>>
        /\ w = <<>> \/ w = <<o.data>>
        /\ ar = <<>> \/ (ar = <<o.addr>> /\ aw = <<>> /\ w = <<>>)
    BY <1>2 DEF Working, Offering, Awaiting, Lsu!Aligned
  <2>2. /\ Len(aw) \in {0, 1} /\ Len(w) \in {0, 1} /\ Len(ar) \in {0, 1}
        /\ Len(ar) = 1 => Len(aw) = 0 /\ Len(w) = 0
    BY <2>1, NoItem, OneItem
  <2>3. ASSUME NEW k \in {0, 1}, NEW l \in {0, 1}, l = 1 => k = 0
        PROVE  k + l <= 1
    BY <2>3
  <2> QED
    BY <2>2, <2>3 DEF Axi!OneOutstanding
<1> QED
  BY <1>1, <1>2 DEF TcmInv, Sides, NoneOwed, TcmOwes, BridgeOwes

LEMMA OneTransactionNext == TcmInv' => Axi!OneOutstanding'
BY OneTransaction, PTL

(***************************************************************************)
(* The bridge keeps the slave to one transaction, whichever half of a      *)
(* write is taken first, and never takes back an offer.                    *)
(***************************************************************************)
THEOREM KeepsAxiRules == ASSUME NoTelemetry PROVE Spec => AxiRules
<1>1. Init => TcmInv
  BY InitTcm
<1>2. TcmInv /\ [Next]_vars => TcmInv'
  BY StepTcm
<1> DEFINE Rules ==
      /\ Axi!OneOutstanding'
      /\ Axi!AwValid /\ ~axi.awready => Axi!AwValid' /\ Head(req') = Head(req)
      /\ Axi!WValid  /\ ~axi.wready  => Axi!WValid'  /\ Head(req') = Head(req)
      /\ Axi!ArValid /\ ~axi.arready => Axi!ArValid' /\ Head(req') = Head(req)
<1>3. TcmInv /\ TcmInv' /\ [Next]_vars => [Rules]_(Axi!bridgeVars)
  <2> SUFFICES ASSUME TcmInv, TcmInv', [Next]_vars
               PROVE  [Rules]_(Axi!bridgeVars)
    OBVIOUS
  <2>1. CASE UNCHANGED vars
    BY <2>1 DEF vars
  <2>2. ASSUME NEW decoded, Clock(decoded) PROVE Rules
    <3>1. BridgeStep(ToExt)
      BY <2>2 DEF Clock, BridgeStep
    <3>2. CASE req = <<>>
      BY <3>2, OneTransactionNext
         DEF Axi!AwValid, Axi!WValid, Axi!ArValid, Axi!IsWrite, Axi!IsRead,
             Axi!Offered
    <3>3. CASE req # <<>>
      <4>1. PICK o \in Operations : BridgeOwes(o) /\ Offering(o)
        BY <3>3 DEF TcmInv, Sides, NoneOwed, TcmOwes, BridgeOwes, BridgeIdle,
                    Working, Awaiting
      <4>2. ~Fresh
        BY <4>1, Answering, OneItem DEF Fresh, BridgeOwes, Offering, Axi!MemAck
      <4>3. ToExt = <<>>
        BY <4>2, Asked, NotAsked
      <4>4. o.op \in Lsu!Aligned /\ tags = 1
        BY <4>1 DEF BridgeOwes, Working
      <4> QED
        BY <3>1, <4>1, <4>3, <4>4, OffersKept, OneTransactionNext
    <3> QED
      BY <3>2, <3>3
  <2>3. CASE Next
    BY <2>2, <2>3 DEF Next, Wait, IssueOperation, Issue
  <2> QED
    BY <2>1, <2>3
<1>4. Spec => [][Rules]_(Axi!bridgeVars)
  BY <1>1, <1>2, <1>3, PTL DEF Spec
<1> QED
  BY <1>4 DEF AxiRules, Axi!AxiRules
=============================================================================

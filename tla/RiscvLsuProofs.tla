--------------------------- MODULE RiscvLsuProofs ---------------------------
(***************************************************************************)
(* The load/store unit keeps its invariants for every set of addresses and *)
(* words, every sequence of operations issued to it and every timing of    *)
(* the port.                                                               *)
(*                                                                         *)
(* FifoInStep is not inductive: that a push never meets a full fifo and    *)
(* that a dummy answer never meets a real one depend on what may be in E1  *)
(* meanwhile.  The strengthening Pairing says that at most one answer is   *)
(* owed at any time and that nothing follows a misaligned access before    *)
(* its dummy answer is given.                                              *)
(***************************************************************************)
EXTENDS RiscvLsu, TLAPS

NoneOwed  == outst = <<>> /\ fifo = <<>> /\ ~mem_unaligned_e2_q
DummyOwed == /\ outst = <<>> /\ mem_unaligned_e2_q /\ mem_q = Nothing
             /\ \E t \in [load : BOOLEAN, addr : Values] : fifo = <<t>>
OneOwed   == /\ ~mem_unaligned_e2_q
             /\ \E o \in Operation : outst = <<o>> /\ fifo = <<Tag(o)>>

Pairing ==
    /\ NoneOwed \/ DummyOwed \/ OneOwed
    /\ pending_lsu_e2_q <=> outst # <<>>
    /\ mem_ack # "NONE" => outst # <<>>

Registers ==
    /\ mem_q \in Operation \cup {Nothing}
    /\ pending_lsu_e2_q \in BOOLEAN /\ mem_unaligned_e2_q \in BOOLEAN
    /\ mem \in [Values -> Values]
    /\ mem_ack \in {"NONE", "OK", "ERROR"}

IInv == Registers /\ Pairing

-----------------------------------------------------------------------------
(***************************************************************************)
(* The shape Pairing gives to the two queues is what TypeOK and FifoInStep *)
(* say of them.                                                            *)
(***************************************************************************)
LEMMA Shape == IInv => TypeOK /\ FifoInStep
<1> SUFFICES ASSUME IInv PROVE TypeOK /\ FifoInStep
  OBVIOUS
<1> USE DEF IInv, Registers, Pairing, TypeOK, FifoInStep, FifoDepth
<1>1. CASE NoneOwed
  BY <1>1 DEF NoneOwed
<1>2. CASE DummyOwed
  BY <1>2 DEF DummyOwed
<1>3. CASE OneOwed
  <2>1. PICK o \in Operation : outst = <<o>> /\ fifo = <<Tag(o)>>
    BY <1>3 DEF OneOwed
  <2>2. Tag(o) \in [load : BOOLEAN, addr : Values]
    BY DEF Tag, Operation
  <2> QED
    BY <1>3, <2>1, <2>2 DEF OneOwed
<1> QED
  BY <1>1, <1>2, <1>3

(***************************************************************************)
(* A load or store is requested only while nothing older can still fault.  *)
(***************************************************************************)
LEMMA Masked == IInv => NothingBehindFault
<1> SUFFICES ASSUME IInv, Requesting, mem_q.op \in Aligned
             PROVE  /\ outst = <<>> \/ (Len(outst) = 1 /\ mem_ack = "OK")
                    /\ ~mem_unaligned_e2_q
  BY DEF NothingBehindFault
<1>1. ~Delay
  BY DEF Requesting, Aligned, CacheOps
<1>2. ~mem_unaligned_e2_q
  BY DEF IInv, Pairing, NoneOwed, DummyOwed, OneOwed, Nothing, Aligned
<1>3. outst = <<>> \/ \E o \in Operation : outst = <<o>>
  BY DEF IInv, Pairing, NoneOwed, DummyOwed, OneOwed
<1> QED
  BY <1>1, <1>2, <1>3 DEF IInv, Pairing, Delay

LEMMA InitIInv == Init => IInv
BY DEF Init, IInv, Registers, Pairing, NoneOwed, Nothing

(***************************************************************************)
(* One clock edge.  What this cycle's answer leaves of the two queues is   *)
(* nothing, unless the only request is still unanswered.  In the first     *)
(* case a request or a dummy may be added to both, in the second nothing.  *)
(***************************************************************************)
\* riscv_issue gives the unit an operation only when it does not stall.
Decoded(decoded, accept) ==
    \/ decoded = Nothing
    \/ decoded \in Operation /\ ~Stall(accept)

left == IF Answered THEN Tail(outst) ELSE outst
kept == IF Pop /\ fifo # <<>> THEN Tail(fifo) ELSE fifo

AllAnswered == left = <<>> /\ kept = <<>> /\ (outst = <<>> \/ Answered)
StillOwed   == OneOwed /\ ~Answered /\ left = outst /\ kept = fifo

LEMMA TailOfOne == ASSUME NEW x PROVE Tail(<<x>>) = <<>> /\ Head(<<x>>) = x
OBVIOUS

LEMMA LeftAndKept == IInv => AllAnswered \/ StillOwed
<1> SUFFICES ASSUME IInv PROVE AllAnswered \/ StillOwed
  OBVIOUS
<1> USE DEF IInv, Pairing, AllAnswered, StillOwed, left, kept, Answered, Pop
<1>1. CASE NoneOwed
  BY <1>1 DEF NoneOwed
<1>2. CASE DummyOwed
  <2>1. PICK t \in [load : BOOLEAN, addr : Values] : fifo = <<t>>
    BY <1>2 DEF DummyOwed
  <2> QED
    BY <1>2, <2>1, TailOfOne DEF DummyOwed
<1>3. CASE OneOwed
  <2>1. PICK o \in Operation : outst = <<o>> /\ fifo = <<Tag(o)>>
    BY <1>3 DEF OneOwed
  <2>2. fifo # <<>> /\ outst # <<>>
    BY <2>1
  <2>3. CASE mem_ack = "NONE"
    BY <1>3, <2>3 DEF OneOwed
  <2>4. CASE mem_ack # "NONE"
    <3>1. Tail(outst) = <<>> /\ Tail(fifo) = <<>>
      BY <2>1, TailOfOne
    <3> QED
      BY <2>2, <2>4, <3>1
  <2> QED
    BY <2>3, <2>4
<1> QED
  BY <1>1, <1>2, <1>3

(***************************************************************************)
(* What may be added: a request only when all is answered, and a dummy     *)
(* too; after a dummy there is nothing in E1.                              *)
(***************************************************************************)
Asks(accept) == Requesting /\ accept
Dummy        == Unaligned /\ ~Delay

LEMMA WhatAsks ==
    ASSUME NEW accept \in BOOLEAN, IInv, Port(accept), Asks(accept)
    PROVE  AllAnswered /\ mem_q \in Operation /\ ~Unaligned
<1>1. mem_q \in Operation /\ ~Unaligned
  BY DEF IInv, Registers, Asks, Requesting, Unaligned, Nothing, Aligned,
         Misaligned, CacheOps
<1>2. ~StillOwed
  <2>1. CASE mem_q.op \in CacheOps
    BY <2>1 DEF Port, Asks, StillOwed, OneOwed, left
  <2>2. CASE mem_q.op \notin CacheOps
    BY <2>2 DEF Asks, Requesting, Delay, StillOwed, OneOwed, Answered, IInv,
                Pairing
  <2> QED
    BY <2>1, <2>2
<1> QED
  BY <1>1, <1>2, LeftAndKept

LEMMA WhatIsDummy ==
    ASSUME IInv, Dummy
    PROVE  AllAnswered /\ mem_q \in Operation /\ ~Requesting /\ ~mem_unaligned_e2_q
<1>1. mem_q \in Operation /\ ~Requesting /\ mem_q # Nothing
  BY DEF IInv, Registers, Dummy, Requesting, Unaligned, Nothing, Aligned,
         Misaligned, CacheOps
<1>2. ~StillOwed
  BY DEF Dummy, Delay, StillOwed, OneOwed, Answered, IInv, Pairing
<1>3. ~mem_unaligned_e2_q
  BY <1>1 DEF IInv, Pairing, NoneOwed, DummyOwed, OneOwed
<1> QED
  BY <1>1, <1>2, <1>3, LeftAndKept

LEMMA EdgeRegisters ==
    ASSUME NEW accept \in BOOLEAN, NEW decoded,
           IInv, Decoded(decoded, accept), Edge(decoded, accept)
    PROVE  Registers'
<1>1. mem_q' \in Operation \cup {Nothing}
  BY DEF IInv, Registers, Decoded, Edge, RequestRegister
<1>2. pending_lsu_e2_q' \in BOOLEAN /\ mem_unaligned_e2_q' \in BOOLEAN
  BY DEF Edge, Tracking
<1>3. mem' \in [Values -> Values]
  <2>1. CASE mem_ack = "OK" /\ Head(outst).op = "STORE"
    <3>1. \E o \in Operation : outst = <<o>>
      BY <2>1 DEF IInv, Pairing, NoneOwed, DummyOwed, OneOwed
    <3>2. Head(outst) \in Operation
      BY <3>1, TailOfOne
    <3> QED
      BY <2>1, <3>2 DEF Edge, Port, IInv, Registers, Operation
  <2>2. CASE ~(mem_ack = "OK" /\ Head(outst).op = "STORE")
    BY <2>2 DEF Edge, Port, IInv, Registers
  <2> QED
    BY <2>1, <2>2
<1>4. mem_ack' \in {"NONE", "OK", "ERROR"}
  BY DEF Edge, Port
<1> QED
  BY <1>1, <1>2, <1>3, <1>4 DEF Registers

LEMMA EdgePairing ==
    ASSUME NEW accept \in BOOLEAN, NEW decoded,
           IInv, Decoded(decoded, accept), Edge(decoded, accept)
    PROVE  Pairing'
<1>1. /\ outst' = IF Asks(accept) THEN Append(left, mem_q) ELSE left
      /\ mem_ack' # "NONE" => outst' # <<>>
      /\ mem_unaligned_e2_q' = Dummy
      /\ pending_lsu_e2_q' = (Asks(accept) \/ (pending_lsu_e2_q /\ ~Answered))
      /\ fifo' = IF (Asks(accept) \/ Dummy) /\ Len(fifo) < FifoDepth
                 THEN Append(kept, Tag(mem_q)) ELSE kept
  BY DEF Edge, Port, Tracking, Fifo, Asks, Dummy, left, kept, Push
<1>2. Len(fifo) < FifoDepth
  BY DEF IInv, Pairing, NoneOwed, DummyOwed, OneOwed, FifoDepth
<1>3. pending_lsu_e2_q <=> outst # <<>>
  BY DEF IInv, Pairing
<1>4. CASE Asks(accept)
  <2>1. AllAnswered /\ mem_q \in Operation /\ ~Unaligned
    BY <1>4, WhatAsks DEF Edge
  <2>2. outst' = <<mem_q>> /\ fifo' = <<Tag(mem_q)>> /\ ~mem_unaligned_e2_q'
    <3>1. outst' = Append(<<>>, mem_q) /\ fifo' = Append(<<>>, Tag(mem_q))
      BY <1>1, <1>2, <1>4, <2>1 DEF AllAnswered
    <3>2. ~mem_unaligned_e2_q'
      BY <1>1, <2>1 DEF Dummy
    <3> QED
      BY <3>1, <3>2
  <2>3. pending_lsu_e2_q'
    BY <1>1, <1>4
  <2>4. \E o \in Operation : outst' = <<o>> /\ fifo' = <<Tag(o)>>
    BY <2>1, <2>2
  <2>5. outst' # <<>>
    BY <2>2
  <2> QED
    BY <2>2, <2>3, <2>4, <2>5 DEF Pairing, OneOwed, Tag
<1>5. CASE ~Asks(accept) /\ Dummy
  <2>1. AllAnswered /\ mem_q \in Operation /\ ~Requesting /\ ~mem_unaligned_e2_q
    BY <1>5, WhatIsDummy
  <2>2. outst' = <<>> /\ fifo' = <<Tag(mem_q)>> /\ mem_unaligned_e2_q'
    BY <1>1, <1>2, <1>5, <2>1 DEF AllAnswered
  <2>3. ~pending_lsu_e2_q'
    BY <1>1, <1>3, <1>5, <2>1 DEF AllAnswered
  <2>4. decoded = Nothing
    BY <1>5 DEF Decoded, Dummy, Stall
  <2>5. mem_q' = Nothing
    BY <1>5, <2>1, <2>4 DEF Edge, RequestRegister, Dummy
  <2>6. Tag(mem_q) \in [load : BOOLEAN, addr : Values]
    BY <2>1 DEF Tag, Operation
  <2> QED
    BY <1>1, <2>2, <2>3, <2>5, <2>6 DEF Pairing, DummyOwed, Nothing
<1>6. CASE ~Asks(accept) /\ ~Dummy
  <2>1. outst' = left /\ fifo' = kept /\ ~mem_unaligned_e2_q'
    BY <1>1, <1>6
  <2>2. CASE AllAnswered
    BY <1>1, <1>3, <1>6, <2>1, <2>2 DEF AllAnswered, Pairing, NoneOwed
  <2>3. CASE StillOwed
    <3>1. \E o \in Operation : outst' = <<o>> /\ fifo' = <<Tag(o)>>
      BY <2>1, <2>3 DEF StillOwed, OneOwed
    <3>2. outst' # <<>>
      BY <3>1
    <3>3. pending_lsu_e2_q'
      BY <1>1, <1>3, <2>1, <2>3, <3>2 DEF StillOwed
    <3> QED
      BY <1>1, <2>1, <3>1, <3>2, <3>3 DEF Pairing, OneOwed, Tag
  <2> QED
    BY <2>2, <2>3, LeftAndKept
<1> QED
  BY <1>4, <1>5, <1>6

(***************************************************************************)
(* Every step of the unit is an edge whose operation is one riscv_issue    *)
(* may give it.                                                            *)
(***************************************************************************)
LEMMA StepIInv == IInv /\ [Next]_lsuVars => IInv'
<1> SUFFICES ASSUME IInv, [Next]_lsuVars PROVE IInv'
  OBVIOUS
<1>1. ASSUME NEW accept \in BOOLEAN, NEW op \in LsuOps, NEW addr \in Values,
             NEW data \in Values, Issue(op, addr, data, accept)
      PROVE  IInv'
  <2>1. [op |-> op, addr |-> addr, data |-> data] \in Operation
    BY DEF Operation
  <2>2. Decoded([op |-> op, addr |-> addr, data |-> data], accept)
    BY <1>1, <2>1 DEF Issue, Decoded
  <2> QED
    BY <1>1, <2>2, EdgeRegisters, EdgePairing DEF Issue, IInv
<1>2. ASSUME NEW accept \in BOOLEAN, Wait(accept)
      PROVE  IInv'
  <2>1. Decoded(Nothing, accept)
    BY DEF Decoded
  <2> QED
    BY <1>2, <2>1, EdgeRegisters, EdgePairing DEF Wait, IInv
<1>3. CASE UNCHANGED lsuVars
  BY <1>3 DEF IInv, Registers, Pairing, NoneOwed, DummyOwed, OneOwed, lsuVars
<1> QED
  BY <1>1, <1>2, <1>3 DEF Next

(***************************************************************************)
(* The answers of the port always meet the tag of their own operation, and *)
(* nothing behind a faulting access is requested: the promises RiscvPipe   *)
(* relies on, and RiscvTcm inherits by implementing Spec.                  *)
(***************************************************************************)
THEOREM Invariance == Spec => [](TypeOK /\ FifoInStep /\ NothingBehindFault)
<1>1. Init => IInv
  BY InitIInv
<1>2. IInv /\ [Next]_lsuVars => IInv'
  BY StepIInv
<1>3. IInv => TypeOK /\ FifoInStep /\ NothingBehindFault
  BY Shape, Masked
<1> QED
  BY <1>1, <1>2, <1>3, PTL DEF Spec
=============================================================================

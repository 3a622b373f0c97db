-------------------------- MODULE RiscvDcacheProofs -------------------------
(***************************************************************************)
(* Cache, muxes, uncached path and bus together are one memory to the      *)
(* load/store unit, nothing is lost in the cache, and a flush reaches      *)
(* memory: for every line size, number of sets and of cached and uncached  *)
(* addresses, every sequence of operations and every timing of a bus that  *)
(* reports no errors.                                                      *)
(***************************************************************************)
EXTENDS RiscvDcache, FiniteSetTheorems, TLAPS

\* The invariant of the load/store unit, with the answers this port gives.
LsuP == INSTANCE RiscvLsuProofs WITH mem_ack <- MemAck

(***************************************************************************)
(* Where the request that is owed an answer is.                            *)
(***************************************************************************)
Offsets == 0 .. (LineWords - 1)
Tags    == [valid : BOOLEAN, dirty : BOOLEAN, tag : Nat]

BusIdle      == u_req = <<>> /\ burst = NoBurst /\ owes = <<>>
UncachedIdle == req = <<>> /\ tags_q = 0 /\ ~request_pending_q
CoreIdle     == state_q \in {"RESET", "LOOKUP"} /\ m_q = Core!NoRequest

NoneOwed == outst = <<>> /\ UncachedIdle /\ CoreIdle /\ BusIdle

\* Past the cache: in the fifo, on the way to the bus, or taken by it.
Request(o) == [rd |-> o.op = "LOAD", len |-> 0, addr |-> o.addr, data |-> o.data]
Debt(o)    == [rd |-> o.op = "LOAD", addr |-> o.addr, left |-> 0,
               words |-> IF o.op = "LOAD" THEN <<>> ELSE <<o.data>>]

Offering(o) == req = <<o>> /\ ~request_pending_q /\ BusIdle
Asked(o)    == /\ req = <<>> /\ request_pending_q /\ burst = NoBurst
               /\ \/ u_req = <<Request(o)>> /\ owes = <<>>
                  \/ u_req = <<>> /\ owes = <<Debt(o)>>

UncachedOwes(o) ==
    /\ outst = <<o>> /\ ~cache_access_q /\ CoreIdle /\ tags_q = 1
    /\ o.op \in Lsu!Aligned /\ o.addr \in UncachedAddr
    /\ Offering(o) \/ Asked(o)

(***************************************************************************)
(* In the cache.  What the bus is doing for it depends on the state.       *)
(***************************************************************************)
ThisSet == Core!ActiveSet
Base    == Core!LineAddr(Core!TagOf(m_q.addr), Core!SetOf(m_q.addr))
Held    == tags[replace_way_q][ThisSet]
Victim  == Core!LineAddr(Held.tag, ThisSet)
Line    == [i \in 1 .. LineWords |-> data[replace_way_q][<<ThisSet, i - 1>>]]

Beat(i) == [rd |-> FALSE, len |-> IF i = 1 THEN LineWords - 1 ELSE 0,
            addr |-> Victim, data |-> Line[i]]

\* n words of the line have left the cache, k of them are with the bus.
Handed(n, k) ==
    /\ k \in 0 .. (LineWords - 1)
    /\ burst = IF k = 0 THEN NoBurst
               ELSE [addr |-> Victim, len |-> LineWords - 1,
                     words |-> [i \in 1 .. k |-> Line[i]]]
    /\ \/ n = k     /\ u_req = <<>>
       \/ n = k + 1 /\ u_req = <<Beat(k + 1)>>
       \/ n = k + 2 /\ u_req = <<Beat(k + 1), Beat(k + 2)>>
    /\ owes = <<>>

Sending(n) == \E k \in 0 .. n : Handed(n, k)

\* The next word is on offer.
Due(n) == IF skid = <<>> THEN data_out[replace_way_q] = Line[n + 1]
          ELSE skid = <<Line[n + 1]>>

EvictingAt(n) ==
    /\ pmem_len_q = LineWords - 1 - n /\ data_write_q = (n + 1) % LineWords
    /\ pmem_wr0_q <=> n = 0
    /\ Due(n) /\ Sending(n)

Evicting == \E n \in Offsets : EvictingAt(n)

\* The whole line is with the bus, which owes the answer.
LineOwed == /\ u_req = <<>> /\ burst = NoBurst
            /\ owes = <<[rd |-> FALSE, addr |-> Victim, left |-> 0, words |-> Line]>>

Evicted == Sending(LineWords) \/ LineOwed

\* k words have come.
ReadingAt(k) ==
    /\ data_write_q = k /\ pmem_len_q = LineWords - 1 - k /\ burst = NoBurst
    /\ \/ /\ k = 0 /\ owes = <<>>
          /\ u_req = <<[rd |-> TRUE, len |-> LineWords - 1, addr |-> Base, data |-> 0]>>
       \/ /\ u_req = <<>>
          /\ owes = <<[rd |-> TRUE, addr |-> Base + k, left |-> LineWords - 1 - k,
                       words |-> <<>>]>>

Reading == \E k \in Offsets : ReadingAt(k)

Traffic ==
    /\ state_q \notin {"EVICT", "EVICT_WAIT", "REFILL"} => BusIdle
    /\ state_q = "EVICT" => Evicting
    /\ state_q = "EVICT_WAIT" => Evicted
    /\ state_q = "REFILL" => Reading

CoreOwes(o) ==
    /\ outst = <<o>> /\ cache_access_q /\ UncachedIdle /\ m_q = o
    /\ o.op \in Lsu!Aligned => o.addr \in CachedAddr
    /\ state_q # "RESET" /\ Traffic

Sides == NoneOwed \/ \E o \in Operations : UncachedOwes(o) \/ CoreOwes(o)

(***************************************************************************)
(* The cache: which states an operation takes it through, and what is true *)
(* of the line in work.                                                    *)
(***************************************************************************)
Modes ==
    /\ state_q \in {"RESET", "FLUSH_ADDR", "FLUSH", "LOOKUP", "REFILL", "WRITE",
                    "READ", "EVICT", "EVICT_WAIT", "WRITEBACK"}
    /\ state_q \in {"FLUSH_ADDR", "FLUSH"} => m_q.op = "DFLUSH"
    /\ state_q = "WRITEBACK" => m_q.op = "DWRITEBACK"
    /\ state_q \in {"REFILL", "READ", "WRITE"} => Core!Accesses
    /\ state_q = "WRITE" => m_q.op = "STORE"
    /\ state_q = "READ" => m_q.op = "LOAD"
    /\ flushing_q <=> (m_q.op = "DFLUSH" /\ state_q # "LOOKUP")
    /\ state_q # "EVICT" => skid = <<>>

Filled ==
    state_q = "REFILL" =>
    /\ ~(Held.valid /\ Held.dirty) /\ ~Holds(1 - replace_way_q, m_q.addr)
    /\ \A w \in Offsets : w < data_write_q =>
          data[replace_way_q][<<ThisSet, w>>] = pmem[Base + w]

Chosen ==
    /\ state_q \in {"EVICT", "EVICT_WAIT"} =>
         /\ Held.valid /\ Held.dirty
         /\ Core!Accesses => \A way \in Core!Ways : ~Holds(way, m_q.addr)
         /\ m_q.op = "DWRITEBACK" => Holds(replace_way_q, m_q.addr)
    /\ state_q \in {"WRITE", "READ"} => Holds(replace_way_q, m_q.addr)

Outputs ==
    /\ state_q \notin {"RESET", "FLUSH_ADDR"} /\ (state_q = "LOOKUP" => Core!Accesses) =>
         \A way \in Core!Ways : tag_out[way] = tags[way][ThisSet]
    /\ state_q = "LOOKUP" /\ m_q.op = "LOAD" =>
         \A way \in Core!Ways : Holds(way, m_q.addr) => data_out[way] = InWay(way, m_q.addr)

\* How far the tags are cleared.
ClearTo(n) == \A way \in Core!Ways : \A s \in Core!Sets :
                 s < n => ~tags[way][s].valid

Flushing ==
    /\ flush_addr_q \in Core!Sets
    /\ state_q = "RESET" => ClearTo(IF flush_last_q THEN LastSet + 1 ELSE flush_addr_q)
    /\ flushing_q => /\ ClearTo(flush_addr_q)
                     /\ flush_last_q => flush_addr_q = LastSet
    /\ state_q = "FLUSH" => (flush_last_q <=> flush_addr_q = LastSet)
    /\ state_q = "LOOKUP" /\ m_q.op = "DFLUSH" => ClearTo(LastSet + 1)
    /\ state_q = "LOOKUP" /\ m_q.op = "DWRITEBACK" =>
         \A way \in Core!Ways : ~(Holds(way, m_q.addr) /\ tags[way][Core!SetOf(m_q.addr)].dirty)

(***************************************************************************)
(* Memory.                                                                 *)
(***************************************************************************)
Dirt(way, a) == Holds(way, a) /\ tags[way][Core!SetOf(a)].dirty

\* Past the cache memory is up to date, and so it is where no line is dirty.
Beyond   == \A a \in UncachedAddr : pmem[a] = mem[a]
InMemory == \A a \in CachedAddr :
    (state_q = "RESET" \/ \A way \in Core!Ways : ~Dirt(way, a)) => pmem[a] = mem[a]

\* What the tags say is true of the words.
Tagged == \A way \in Core!Ways : \A s \in Core!Sets : tags[way][s].valid =>
    \E a \in CachedAddr : Core!SetOf(a) = s /\ Core!TagOf(a) = tags[way][s].tag
Single == \A a \in CachedAddr : ~(Holds(0, a) /\ Holds(1, a))
DirtyIsNew == \A a \in CachedAddr : \A way \in Core!Ways :
    Dirt(way, a) => Newest(a, InWay(way, a))
CleanIsMemory == \A a \in CachedAddr : \A way \in Core!Ways :
    Holds(way, a) /\ ~Dirt(way, a) /\ ~Filling(way, a) => InWay(way, a) = pmem[a]

Lines == Tagged /\ Single /\ DirtyIsNew /\ CleanIsMemory

Contents == Beyond /\ InMemory /\ (state_q # "RESET" => Lines)

\* The registers.
Asking == Operations \cup {Core!NoRequest}

Typed ==
    /\ tags \in [Core!Ways -> [Core!Sets -> Tags]]
    /\ data \in [Core!Ways -> [Core!Sets \X Offsets -> Words]]
    /\ data_out \in [Core!Ways -> Words]
    /\ data_write_q \in Offsets
    /\ replace_way_q \in Core!Ways
    /\ flush_addr_q \in Core!Sets
    /\ m_q \in Asking
    /\ ~pmem_rd_q /\ ~error_q

Registers ==
    /\ Typed
    /\ mem_q \in Operations \cup {Lsu!Nothing}
    /\ cache_access_q \in BOOLEAN
    /\ pending_q = Len(outst)
    /\ outst # <<>> => select_q = cache_access_q
    /\ bus_ack \in {"NONE", "OK"} /\ (owes = <<>> => bus_ack = "NONE")
    /\ pmem \in [Addr -> Words]

DcacheInv ==
    /\ LsuP!IInv /\ Registers /\ Sides
    /\ Modes /\ Filled /\ Chosen /\ Outputs /\ Flushing /\ Contents

-----------------------------------------------------------------------------
(***************************************************************************)
(* Addresses, lines and sets.                                              *)
(***************************************************************************)
LEMMA Multiples ==
    ASSUME NEW x \in Int, NEW y \in Int, NEW b \in Nat, x <= y
    PROVE  x * b <= y * b
<1>1. (y - x) * b >= 0
  OBVIOUS
<1>2. (y - x) * b = y * b - x * b
  OBVIOUS
<1> QED
  BY <1>1, <1>2

LEMMA Division ==
    ASSUME NEW a \in Nat, NEW b \in Nat \ {0}
    PROVE  a \div b \in Nat /\ a % b \in 0 .. (b - 1) /\ a = (a \div b) * b + (a % b)
OBVIOUS

\* Quotient and remainder are determined by the equation.
LEMMA OneQuotient ==
    ASSUME NEW b \in Nat \ {0}, NEW p \in Int, NEW q \in Int,
           NEW r \in 0 .. (b - 1), NEW s \in 0 .. (b - 1),
           p * b + r = q * b + s
    PROVE  p = q /\ r = s
<1>1. p * b \in Int /\ q * b \in Int
  OBVIOUS
<1>2. ASSUME NEW x \in Int, NEW y \in Int, x < y
      PROVE  x * b + b <= y * b /\ x * b \in Int /\ y * b \in Int
  <2>1. (x + 1) * b <= y * b
    BY <1>2, Multiples
  <2>2. (x + 1) * b = x * b + b
    OBVIOUS
  <2> QED
    BY <2>1, <2>2
<1>3. ~(p < q)
  BY <1>1, <1>2
<1>4. ~(q < p)
  BY <1>1, <1>2
<1>5. p = q
  BY <1>3, <1>4
<1> QED
  BY <1>1, <1>5

LEMMA Sizes ==
    /\ LineWords \in Nat \ {0} /\ LineWords <= 256 /\ LineWords >= 2
    /\ NumSets \in Nat \ {0}
    /\ LastSet \in Nat /\ LastSet + 1 - NumSets \in Nat
    /\ Addr \subseteq Nat /\ Addr \subseteq Words /\ 0 \in Words /\ 0 \in Addr
    /\ CachedAddr \subseteq Addr /\ UncachedAddr \subseteq Addr
    /\ \A a \in Addr : a \in CachedAddr <=> a \notin UncachedAddr
<1>1. NumAddr \in Nat
  BY DcacheAssumption, FS_CardinalityType DEF NumAddr
<1>2. Addr \subseteq Nat /\ Addr \subseteq Words /\ 0 \in Words
  BY <1>1, DcacheAssumption DEF Words
<1> QED
  BY <1>2, DcacheAssumption DEF Addr

First(a) == Core!LineAddr(Core!TagOf(a), Core!SetOf(a))

LEMMA Place ==
    ASSUME NEW a \in Nat
    PROVE  /\ Core!LineOf(a) \in Nat /\ Core!WordOf(a) \in Offsets
           /\ Core!TagOf(a) \in Nat /\ Core!SetOf(a) \in Core!Sets
           /\ First(a) = Core!LineOf(a) * LineWords /\ First(a) \in Nat
           /\ a = First(a) + Core!WordOf(a)
<1>1. /\ Core!LineOf(a) \in Nat /\ Core!WordOf(a) \in Offsets
      /\ a = Core!LineOf(a) * LineWords + Core!WordOf(a)
  BY Sizes, Division DEF Core!LineOf, Core!WordOf, Offsets
<1> DEFINE l == Core!LineOf(a)
<1>2. /\ l \div NumSets \in Nat /\ l % NumSets \in 0 .. (NumSets - 1)
      /\ l = (l \div NumSets) * NumSets + (l % NumSets)
  BY <1>1, Sizes, Division
<1>3. Core!TagOf(a) = l \div NumSets
      /\ Core!SetOf(a) = (LastSet + 1 - NumSets) + (l % NumSets)
  BY DEF Core!TagOf, Core!SetOf
<1>4. Core!TagOf(a) \in Nat /\ Core!SetOf(a) \in Core!Sets
  BY <1>2, <1>3, Sizes DEF Core!Sets
<1>5. Core!TagOf(a) * NumSets + Core!SetOf(a) - (LastSet + 1 - NumSets) = l
  <2>1. Core!TagOf(a) * NumSets \in Nat
    BY <1>4, Sizes
  <2>2. l = Core!TagOf(a) * NumSets + (l % NumSets)
    BY <1>2, <1>3
  <2> HIDE DEF l
  <2> QED
    BY <1>2, <1>3, <2>1, <2>2, Sizes
<1>6. First(a) = l * LineWords
  BY <1>5 DEF First, Core!LineAddr
<1>7. l * LineWords \in Nat
  BY <1>1, Sizes
<1> QED
  BY <1>1, <1>4, <1>6, <1>7

\* Set and tag name a line.
LEMMA SameLine ==
    ASSUME NEW a \in Nat, NEW b \in Nat
    PROVE  /\ Core!SetOf(a) = Core!SetOf(b) /\ Core!TagOf(a) = Core!TagOf(b)
                <=> Core!LineOf(a) = Core!LineOf(b)
           /\ Core!LineOf(a) = Core!LineOf(b) <=> b \in First(a) .. (First(a) + LineWords - 1)
<1>1. Core!LineOf(a) = Core!LineOf(b)
      => Core!SetOf(a) = Core!SetOf(b) /\ Core!TagOf(a) = Core!TagOf(b)
  BY DEF Core!SetOf, Core!TagOf
<1>2. Core!SetOf(a) = Core!SetOf(b) /\ Core!TagOf(a) = Core!TagOf(b)
      => First(a) = First(b)
  BY DEF First
<1>3. First(a) = First(b) => b \in First(a) .. (First(a) + LineWords - 1)
  <2>1. /\ b = First(b) + Core!WordOf(b) /\ First(b) \in Nat
        /\ Core!WordOf(b) \in 0 .. (LineWords - 1)
    BY Place DEF Offsets
  <2>2. LineWords \in Nat
    BY Sizes
  <2> QED
    BY <2>1, <2>2
<1>4. ASSUME b \in First(a) .. (First(a) + LineWords - 1)
      PROVE  Core!LineOf(a) = Core!LineOf(b)
  <2> DEFINE p == Core!LineOf(a)
             q == Core!LineOf(b)
             r == b - First(a)
             s == Core!WordOf(b)
  <2>1. /\ p \in Nat /\ q \in Nat /\ s \in 0 .. (LineWords - 1)
        /\ First(a) = p * LineWords /\ First(b) = q * LineWords
        /\ First(a) \in Nat /\ First(b) \in Nat /\ b = First(b) + s
    BY Place DEF Offsets
  <2>2. r \in 0 .. (LineWords - 1)
    BY <1>4, <2>1, Sizes
  <2>3. p * LineWords + r = q * LineWords + s
    BY <2>1
  <2> HIDE DEF p, q, r, s
  <2>4. p = q
    BY <2>1, <2>2, <2>3, Sizes, OneQuotient
  <2> QED
    BY <2>4 DEF p, q
<1> QED
  BY <1>1, <1>2, <1>3, <1>4

\* A line is cached as a whole, and all of its words are in one set.
LEMMA LinePlace ==
    ASSUME NEW a \in CachedAddr, NEW w \in Offsets
    PROVE  /\ First(a) + w \in CachedAddr
           /\ Core!SetOf(First(a) + w) = Core!SetOf(a)
           /\ Core!TagOf(First(a) + w) = Core!TagOf(a)
           /\ Core!WordOf(First(a) + w) = w
<1>1. a \in Nat /\ w \in 0 .. (LineWords - 1)
  BY Sizes DEF Offsets
<1>2. First(a) \in Nat /\ First(a) = (a \div LineWords) * LineWords
  BY <1>1, Place DEF Core!LineOf
<1>3. WholeLine(a) = First(a) .. (First(a) + LineWords - 1)
  BY <1>2 DEF WholeLine
<1> DEFINE b == First(a) + w
<1>4. b \in First(a) .. (First(a) + LineWords - 1) /\ b \in Nat
  BY <1>1, <1>2, Sizes
<1>5. b \in CachedAddr
  BY <1>3, <1>4, DcacheAssumption
<1> HIDE DEF b
<1>6. Core!SetOf(b) = Core!SetOf(a) /\ Core!TagOf(b) = Core!TagOf(a)
  BY <1>1, <1>4, SameLine
<1>7. First(b) = First(a)
  BY <1>6 DEF First
<1>8. b = First(a) + Core!WordOf(b) /\ Core!WordOf(b) \in Nat
  BY <1>4, <1>7, Place, Sizes DEF Offsets
<1>9. Core!WordOf(b) = w
  BY <1>1, <1>2, <1>8 DEF b
<1> QED
  BY <1>5, <1>6, <1>9 DEF b

LEMMA OneWord ==
    ASSUME NEW a \in Nat, NEW b \in Nat, Core!SetOf(a) = Core!SetOf(b),
           Core!TagOf(a) = Core!TagOf(b), Core!WordOf(a) = Core!WordOf(b)
    PROVE  a = b
<1>1. First(a) = First(b)
  BY DEF First
<1> QED
  BY <1>1, Place

-----------------------------------------------------------------------------
(***************************************************************************)
(* One edge of the cache, with any request, accept, answer and word from   *)
(* the bus: what it does to each register, state by state.                 *)
(***************************************************************************)
LEMMA AskingType ==
    ASSUME NEW o \in Asking
    PROVE  /\ o.addr \in Addr /\ o.addr \in Nat /\ o.data \in Words
           /\ o.op \in {"NONE", "LOAD", "STORE", "DFLUSH", "DWRITEBACK"}
           /\ o.op = "NONE" <=> o = Core!NoRequest
<1>1. CASE o \in Operations
  BY <1>1, Sizes, DcacheAssumption DEF CacheOps, Core!NoRequest
<1>2. CASE o = Core!NoRequest
  BY <1>2, Sizes DEF Core!NoRequest
<1> QED
  BY <1>1, <1>2 DEF Asking

LEMMA Sets ==
    ASSUME Typed
    PROVE  ThisSet \in Core!Sets /\ Core!SetOf(m_q.addr) \in Core!Sets
           /\ Core!WordOf(m_q.addr) \in Offsets
BY AskingType, Place DEF Typed, ThisSet, Core!ActiveSet

LEMMA States ==
    ASSUME NEW request, NEW accept, NEW ack
    PROVE  LET next == Core!NextState(request, accept, ack)
           IN  /\ state_q = "RESET" => next = IF flush_last_q THEN "LOOKUP" ELSE "RESET"
               /\ state_q = "FLUSH_ADDR" => next = "FLUSH"
               /\ state_q = "FLUSH" =>
                    next = IF Core!DirtyAny
                           THEN IF Core!EvictWay THEN "EVICT" ELSE "FLUSH"
                           ELSE IF flush_last_q THEN "LOOKUP" ELSE "FLUSH_ADDR"
               /\ state_q = "LOOKUP" /\ Core!Miss =>
                    next = IF Core!EvictWay THEN "EVICT" ELSE "REFILL"
               /\ state_q = "LOOKUP" /\ ~Core!Miss =>
                    next = IF ~Core!MemAccept(request) THEN "LOOKUP"
                           ELSE IF request.op = "DWRITEBACK" THEN "WRITEBACK"
                           ELSE IF request.op = "DFLUSH" THEN "FLUSH_ADDR" ELSE "LOOKUP"
               /\ state_q = "REFILL" =>
                    next = IF ack = "NONE" \/ ~Core!PmemLast THEN "REFILL"
                           ELSE IF m_q.op = "STORE" THEN "WRITE" ELSE "READ"
               /\ state_q \in {"WRITE", "READ"} => next = "LOOKUP"
               /\ state_q = "EVICT" =>
                    next = IF accept /\ Core!PmemLast THEN "EVICT_WAIT" ELSE "EVICT"
               /\ state_q = "EVICT_WAIT" =>
                    next = IF ack = "NONE" THEN "EVICT_WAIT"
                           ELSE IF m_q.op = "DWRITEBACK" THEN "LOOKUP"
                           ELSE IF flushing_q THEN "FLUSH_ADDR" ELSE "REFILL"
               /\ state_q = "WRITEBACK" =>
                    next = IF \E way \in Core!Ways : Core!Hit(way) /\ Core!IsDirty(way)
                           THEN "EVICT" ELSE "LOOKUP"
<1> DEFINE next == Core!NextState(request, accept, ack)
<1>1. CASE state_q \in {"RESET", "FLUSH_ADDR", "FLUSH"}
  BY <1>1 DEF Core!NextState
<1>2. CASE state_q = "LOOKUP"
  BY <1>2 DEF Core!NextState
<1>3. CASE state_q \in {"REFILL", "WRITE", "READ"}
  BY <1>3 DEF Core!NextState
<1>4. CASE state_q \in {"EVICT", "EVICT_WAIT", "WRITEBACK"}
  BY <1>4 DEF Core!NextState
<1> QED
  BY <1>1, <1>2, <1>3, <1>4

(***************************************************************************)
(* The memories have one port each: a cycle writes at most one place of a  *)
(* way.                                                                    *)
(***************************************************************************)
LEMMA TagEdge ==
    ASSUME Typed, NEW request, NEW next, NEW ack, Core!TagRams(request, next, ack)
    PROVE  LET to == IF state_q = "RESET" THEN flush_addr_q ELSE ThisSet
           IN  /\ tags' \in [Core!Ways -> [Core!Sets -> Tags]]
               /\ \A way \in Core!Ways : \A s \in Core!Sets :
                    tags'[way][s] = IF Core!WritesTag(way, ack) /\ s = to
                                    THEN Core!TagWritten ELSE tags[way][s]
               /\ (\A way \in Core!Ways : ~Core!WritesTag(way, ack)) => tags' = tags
<1> DEFINE to == IF state_q = "RESET" THEN flush_addr_q ELSE ThisSet
<1>1. to \in Core!Sets
  BY Sets DEF Typed
<1>2. Core!TagWritten \in Tags
  <2>1. Core!TagOf(m_q.addr) \in Nat
    BY AskingType, Place DEF Typed
  <2> QED
    BY <2>1 DEF Core!TagWritten, Core!NoTag, Core!Clean, Core!Dirty, Tags
<1>3. tags' = [way \in Core!Ways |->
                 IF Core!WritesTag(way, ack) THEN [tags[way] EXCEPT ![to] = Core!TagWritten]
                 ELSE tags[way]]
  BY DEF Core!TagRams, ThisSet
<1>4. ASSUME NEW way \in Core!Ways
      PROVE  tags[way] \in [Core!Sets -> Tags]
  BY <1>4 DEF Typed
<1> HIDE DEF to
<1>5. ASSUME NEW way \in Core!Ways
      PROVE  /\ tags'[way] \in [Core!Sets -> Tags]
             /\ \A s \in Core!Sets :
                  tags'[way][s] = IF Core!WritesTag(way, ack) /\ s = to
                                  THEN Core!TagWritten ELSE tags[way][s]
  BY <1>1, <1>2, <1>3, <1>4, <1>5
<1>6. tags' \in [Core!Ways -> [Core!Sets -> Tags]]
  BY <1>3, <1>5
<1>7. ASSUME \A way \in Core!Ways : ~Core!WritesTag(way, ack)
      PROVE  tags' = tags
  <2>1. tags' = [way \in Core!Ways |-> tags[way]]
    BY <1>3, <1>7
  <2> QED
    BY <2>1 DEF Typed
<1> QED
  BY <1>5, <1>6, <1>7 DEF to

LEMMA TagOutEdge ==
    ASSUME NEW request, NEW next, NEW ack, Core!TagRams(request, next, ack)
    PROVE  LET at == IF state_q = "LOOKUP" /\ next \in {"LOOKUP", "WRITEBACK"}
                     THEN Core!SetOf(request.addr) ELSE ThisSet
           IN  \A way \in Core!Ways : tag_out'[way] = tags'[way][at]
BY DEF Core!TagRams, ThisSet

\* Which word a way is given, if any.
Fills(way, ack)  == state_q = "REFILL" /\ ack # "NONE" /\ replace_way_q = way
StoresTo(way)    == state_q \in {"WRITE", "LOOKUP"} /\ m_q.op = "STORE" /\ Core!Hit(way)
ThisWord         == <<Core!SetOf(m_q.addr), Core!WordOf(m_q.addr)>>

LEMMA DataEdge ==
    ASSUME Typed, NEW request \in Asking, NEW next, NEW ack, NEW rdata \in Words, NEW accept,
           Core!DataRams(request, next, ack, rdata, accept)
    PROVE  /\ data' \in [Core!Ways -> [Core!Sets \X Offsets -> Words]]
           /\ \A way \in Core!Ways : \A p \in Core!Sets \X Offsets :
                data'[way][p] = IF Fills(way, ack) /\ p = <<ThisSet, data_write_q>> THEN rdata
                                ELSE IF StoresTo(way) /\ p = ThisWord THEN m_q.data
                                ELSE data[way][p]
           /\ (\A way \in Core!Ways : ~Fills(way, ack) /\ ~StoresTo(way)) => data' = data
<1> DEFINE place == <<ThisSet, data_write_q>>
<1>1. /\ place \in Core!Sets \X Offsets /\ ThisWord \in Core!Sets \X Offsets
      /\ m_q.data \in Words
  BY Sets, AskingType DEF Typed, ThisWord
<1>2. data' = [way \in Core!Ways |-> Core!DataWrite(way, ack, rdata)]
  BY DEF Core!DataRams
<1>3. ASSUME NEW way \in Core!Ways
      PROVE  Core!DataWrite(way, ack, rdata)
               = IF Fills(way, ack) THEN [data[way] EXCEPT ![place] = rdata]
                 ELSE IF StoresTo(way) THEN [data[way] EXCEPT ![ThisWord] = m_q.data]
                 ELSE data[way]
  BY DEF Core!DataWrite, Fills, StoresTo, ThisWord, ThisSet
<1>4. ASSUME NEW way \in Core!Ways
      PROVE  data[way] \in [Core!Sets \X Offsets -> Words]
  BY <1>4 DEF Typed
<1>5. ASSUME NEW way \in Core!Ways, Fills(way, ack)
      PROVE  ~StoresTo(way)
  BY <1>5 DEF Fills, StoresTo
<1> HIDE DEF place
<1>6. ASSUME NEW way \in Core!Ways
      PROVE  /\ data'[way] \in [Core!Sets \X Offsets -> Words]
             /\ \A p \in Core!Sets \X Offsets :
                  data'[way][p] = IF Fills(way, ack) /\ p = place THEN rdata
                                  ELSE IF StoresTo(way) /\ p = ThisWord THEN m_q.data
                                  ELSE data[way][p]
  <2>1. data'[way] = IF Fills(way, ack) THEN [data[way] EXCEPT ![place] = rdata]
                     ELSE IF StoresTo(way) THEN [data[way] EXCEPT ![ThisWord] = m_q.data]
                     ELSE data[way]
    BY <1>2, <1>3, <1>6
  <2> QED
    BY <1>1, <1>4, <1>5, <1>6, <2>1
<1>7. data' \in [Core!Ways -> [Core!Sets \X Offsets -> Words]]
  BY <1>2, <1>6
<1>8. ASSUME \A way \in Core!Ways : ~Fills(way, ack) /\ ~StoresTo(way)
      PROVE  data' = data
  <2>1. data' = [way \in Core!Ways |-> data[way]]
    BY <1>2, <1>3, <1>8
  <2> QED
    BY <2>1 DEF Typed
<1> QED
  BY <1>6, <1>7, <1>8 DEF place

LEMMA DataOutEdge ==
    ASSUME Typed, NEW request \in Asking, NEW next, NEW ack, NEW rdata, NEW accept,
           Core!DataRams(request, next, ack, rdata, accept)
    PROVE  /\ data_out' \in [Core!Ways -> Words]
           /\ \A way \in Core!Ways : data_out'[way] = data[way][Core!DataAddr(request, next)]
           /\ data_write_q' \in Offsets
           /\ data_write_q' =
                IF state_q # "REFILL" /\ next = "REFILL" THEN 0
                ELSE IF state_q # "EVICT" /\ next = "EVICT" THEN 1 % LineWords
                ELSE IF \/ state_q = "REFILL" /\ ack # "NONE"
                        \/ state_q = "EVICT" /\ accept
                     THEN (data_write_q + 1) % LineWords
                ELSE data_write_q
<1>1. data_out' = [way \in Core!Ways |-> data[way][Core!DataAddr(request, next)]]
  BY DEF Core!DataRams
<1>2. Core!DataAddr(request, next) \in Core!Sets \X Offsets
  <2>1. /\ <<ThisSet, data_write_q>> \in Core!Sets \X Offsets
        /\ <<flush_addr_q, 0>> \in Core!Sets \X Offsets
        /\ <<Core!SetOf(m_q.addr), 0>> \in Core!Sets \X Offsets
        /\ ThisWord \in Core!Sets \X Offsets
    <3>1. ThisSet \in Core!Sets /\ Core!SetOf(m_q.addr) \in Core!Sets
          /\ Core!WordOf(m_q.addr) \in Offsets
      BY Sets
    <3>2. flush_addr_q \in Core!Sets /\ data_write_q \in Offsets /\ 0 \in Offsets
      BY Sizes DEF Typed, Offsets
    <3> QED
      BY <3>1, <3>2 DEF ThisWord
  <2>2. <<Core!SetOf(request.addr), Core!WordOf(request.addr)>> \in Core!Sets \X Offsets
    BY AskingType, Place
  <2> QED
    BY <2>1, <2>2 DEF Core!DataAddr, ThisWord, ThisSet
<1>3. \A way \in Core!Ways : data[way][Core!DataAddr(request, next)] \in Words
  BY <1>2 DEF Typed
<1>4. /\ 1 % LineWords \in Offsets /\ 0 \in Offsets
      /\ (data_write_q + 1) % LineWords \in Offsets
  BY Sizes, Division DEF Offsets, Typed
<1>5. data_write_q' =
        IF state_q # "REFILL" /\ next = "REFILL" THEN 0
        ELSE IF state_q # "EVICT" /\ next = "EVICT" THEN 1 % LineWords
        ELSE IF \/ state_q = "REFILL" /\ ack # "NONE"
                \/ state_q = "EVICT" /\ accept
             THEN (data_write_q + 1) % LineWords
        ELSE data_write_q
  BY DEF Core!DataRams
<1> QED
  BY <1>1, <1>3, <1>4, <1>5 DEF Typed

LEMMA TypedEdge ==
    ASSUME Typed, NEW request \in Asking, NEW accept, NEW ack \in {"NONE", "OK"},
           NEW rdata \in Words,
           Core!Edge(request, accept, ack, rdata), ~pmem_rd_q'
    PROVE  Typed'
<1> DEFINE next == Core!NextState(request, accept, ack)
<1>1. /\ tags' \in [Core!Ways -> [Core!Sets -> Tags]]
      /\ data' \in [Core!Ways -> [Core!Sets \X Offsets -> Words]]
      /\ data_out' \in [Core!Ways -> Words] /\ data_write_q' \in Offsets
  BY TagEdge, DataEdge, DataOutEdge DEF Core!Edge
<1>2. replace_way_q' \in Core!Ways
  BY DEF Core!Edge, Core!Replacement, Typed, Core!Ways
<1>3. flush_addr_q' \in Core!Sets
  <2>1. 0 \in Core!Sets /\ (flush_addr_q + 1) % (LastSet + 1) \in Core!Sets
    BY Sizes, Division DEF Typed, Core!Sets
  <2> QED
    BY <2>1 DEF Core!Edge, Core!FlushCounter, Typed
<1>4. m_q' \in Asking
  BY DEF Core!Edge, Core!RequestBuffer, Typed, Asking
<1>5. ~error_q'
  BY DEF Core!Edge, Core!Bus, Typed
<1> QED
  BY <1>1, <1>2, <1>3, <1>4, <1>5 DEF Typed

-----------------------------------------------------------------------------
(***************************************************************************)
(* The wires of a cycle, for each place the request in work can be in.     *)
(***************************************************************************)
NoErrors == Responses = {"OK"}

\* The cache answers and may take the next request.
Ready == state_q = "LOOKUP" /\ ~Core!Miss

LEMMA OneItem ==
    ASSUME NEW x
    PROVE  /\ <<x>> # <<>> /\ Len(<<x>>) = 1 /\ Head(<<x>>) = x /\ Tail(<<x>>) = <<>>
           /\ Append(<<>>, x) = <<x>> /\ <<>> \o <<x>> = <<x>> /\ <<x>> \o <<>> = <<x>>
OBVIOUS

LEMMA Names ==
    /\ Lsu!Nothing = Core!NoRequest /\ Lsu!Nothing.op = "NONE"
    /\ Core!NoRequest.op = "NONE" /\ Core!NoRequest.addr = 0
    /\ \A o \in Operations :
         /\ o.op \in {"LOAD", "STORE", "DFLUSH", "DWRITEBACK"} /\ o # Core!NoRequest
         /\ o.op \in Lsu!Aligned <=> o.op \in {"LOAD", "STORE"}
         /\ o.op \in CacheOps <=> o.op \in {"DFLUSH", "DWRITEBACK"}
         /\ o.op \in Lsu!CacheOps <=> o.op \in CacheOps
         /\ o.op \notin Lsu!Misaligned
         /\ o.addr \in Addr /\ o.data \in Words
         /\ o.op \in Lsu!Aligned => (o.addr \in CachedAddr <=> o.addr \notin UncachedAddr)
<1>1. /\ Lsu!Nothing = Core!NoRequest /\ Lsu!Nothing.op = "NONE"
      /\ Core!NoRequest.op = "NONE" /\ Core!NoRequest.addr = 0
  BY DEF Lsu!Nothing, Core!NoRequest
<1>2. ASSUME NEW o \in Operations
      PROVE  /\ o.op \in {"LOAD", "STORE", "DFLUSH", "DWRITEBACK"}
             /\ o.addr \in Addr /\ o.data \in Words
  BY DcacheAssumption DEF CacheOps
<1>3. \A o \in Operations : o.addr \in CachedAddr <=> o.addr \notin UncachedAddr
  BY <1>2, Sizes
<1> QED
  BY <1>1, <1>2, <1>3 DEF Lsu!Aligned, Lsu!Misaligned, Lsu!CacheOps, CacheOps

LEMMA UnitState ==
    ASSUME DcacheInv
    PROVE  /\ pending_lsu_e2_q <=> outst # <<>>
           /\ mem_q \in Operations \cup {Lsu!Nothing}
           /\ Lsu!Requesting => mem_q \in Operations
           /\ Lsu!Requesting /\ mem_q.op \in Lsu!Aligned => outst = <<>> \/ MemAck = "OK"
           /\ mem_q.op \in Lsu!Aligned => (Cacheable <=> mem_q.addr \in CachedAddr)
           /\ mem_q.op \in CacheOps => Cacheable
           /\ Cacheable \in BOOLEAN
<1>1. pending_lsu_e2_q <=> outst # <<>>
  BY DEF DcacheInv, LsuP!IInv, LsuP!Pairing
<1>2. mem_q \in Operations \cup {Lsu!Nothing}
  BY DEF DcacheInv, Registers
<1>3. Lsu!Requesting => mem_q \in Operations
  BY <1>2, Names DEF Lsu!Requesting, Lsu!Aligned, Lsu!CacheOps
<1>4. Lsu!Requesting /\ mem_q.op \in Lsu!Aligned => outst = <<>> \/ MemAck = "OK"
  BY <1>1 DEF Lsu!Requesting, Lsu!Delay, Lsu!Aligned, Lsu!CacheOps
<1>5. mem_q.op \in Lsu!Aligned => (Cacheable <=> mem_q.addr \in CachedAddr)
  BY DEF Cacheable, Lsu!Aligned, CacheOps
<1> QED
  BY <1>1, <1>2, <1>3, <1>4, <1>5 DEF Cacheable

LEMMA CoreAnswer ==
    ASSUME DcacheInv, NEW request
    PROVE  /\ m_q = Core!NoRequest => Core!MemAck = "NONE" /\ ~Core!Miss
           /\ Core!MemAck = IF Ready /\ m_q # Core!NoRequest THEN "OK" ELSE "NONE"
           /\ Core!MemAccept(request) => Ready
           /\ Ready /\ request.op # "LOAD" => Core!MemAccept(request)
<1>1. m_q \in Asking /\ ~error_q
  BY DEF DcacheInv, Registers, Typed
<1>2. m_q.op = "NONE" <=> m_q = Core!NoRequest
  BY <1>1, AskingType
<1> QED
  BY <1>1, <1>2 DEF Core!MemAck, Core!Miss, Core!Accesses, Core!MemAccept, Ready

LEMMA Neither ==
    ASSUME DcacheInv, NoneOwed
    PROVE  /\ pending_q = 0 /\ bus_ack = "NONE" /\ ~Hold
           /\ AckFor(TRUE) = "NONE" /\ AckFor(FALSE) = "NONE" /\ MemAck = "NONE"
           /\ Select = Cacheable
           /\ ToCore = IF Lsu!Requesting /\ Cacheable THEN mem_q ELSE Core!NoRequest
           /\ ToUncached = IF Lsu!Requesting /\ ~Cacheable THEN mem_q ELSE Core!NoRequest
           /\ MemAccept <=> IF Cacheable THEN Core!MemAccept(ToCore) ELSE UncachedAccept
           /\ UncachedAccept
<1>1. pending_q = 0 /\ ~Hold
  BY DEF DcacheInv, Registers, NoneOwed, Hold
<1>2. bus_ack = "NONE"
  BY DEF DcacheInv, Registers, NoneOwed, BusIdle
<1>3. Core!MemAck = "NONE"
  BY CoreAnswer DEF NoneOwed, CoreIdle
<1>4. UncachedAccept
  BY DEF NoneOwed, UncachedIdle, UncachedAccept, FifoDepth
<1>5. Cacheable \in BOOLEAN
  BY UnitState
<1>6. AckFor(TRUE) = "NONE" /\ AckFor(FALSE) = "NONE" /\ MemAck = "NONE"
  BY <1>2, <1>3 DEF AckFor, MemAck
<1>7. /\ ToCore = IF Lsu!Requesting /\ Cacheable THEN mem_q ELSE Core!NoRequest
      /\ ToUncached = IF Lsu!Requesting /\ ~Cacheable THEN mem_q ELSE Core!NoRequest
  BY <1>1, <1>5, Names DEF ToCore, ToUncached, Passed
<1>8. /\ Select = Cacheable
      /\ MemAccept <=> IF Cacheable THEN Core!MemAccept(ToCore) ELSE UncachedAccept
  <2>1. Select = Cacheable
    BY <1>1 DEF Select
  <2> QED
    BY <1>1, <2>1 DEF MemAccept
<1> QED
  BY <1>1, <1>2, <1>4, <1>6, <1>7, <1>8

LEMMA Past ==
    ASSUME DcacheInv, NEW o \in Operations, UncachedOwes(o)
    PROVE  /\ pending_q = 1
           /\ AckFor(TRUE) = "NONE" /\ AckFor(FALSE) = bus_ack /\ MemAck = bus_ack
           /\ ~Select /\ ~PmemAccept(TRUE)
           /\ PmemAccept(FALSE) <=> Len(u_req) # FifoDepth
           /\ ToCore = Core!NoRequest
           /\ ToUncached = IF Lsu!Requesting /\ ~Cacheable THEN mem_q ELSE Core!NoRequest
           /\ MemAccept <=> ~Cacheable /\ UncachedAccept
<1>1. /\ pending_q = 1 /\ ~cache_access_q /\ select_q = FALSE
      /\ cache_access_q = FALSE
  BY OneItem DEF DcacheInv, Registers, UncachedOwes
<1>2. Cacheable \in BOOLEAN
  BY UnitState
<1>3. Hold <=> Cacheable
  <2>1. pending_q # 0
    BY <1>1
  <2> QED
    BY <1>1, <1>2, <2>1, Zenon DEF Hold
<1>4. ~Select /\ Select = FALSE
  BY <1>1 DEF Select
<1>5. AckFor(TRUE) = "NONE" /\ AckFor(FALSE) = bus_ack /\ MemAck = bus_ack
  BY <1>1 DEF AckFor, MemAck
<1>6. /\ ToCore = Core!NoRequest
      /\ ToUncached = IF Lsu!Requesting /\ ~Cacheable THEN mem_q ELSE Core!NoRequest
  BY <1>2, <1>3, Names DEF ToCore, ToUncached, Passed
<1>7. MemAccept <=> ~Cacheable /\ UncachedAccept
  BY <1>3 DEF MemAccept
<1> QED
  BY <1>1, <1>4, <1>5, <1>6, <1>7 DEF PmemAccept

LEMMA Inside ==
    ASSUME DcacheInv, NEW o \in Operations, CoreOwes(o)
    PROVE  /\ pending_q = 1
           /\ AckFor(TRUE) = bus_ack /\ AckFor(FALSE) = "NONE"
           /\ MemAck = IF Ready THEN "OK" ELSE "NONE"
           /\ Select /\ ~PmemAccept(FALSE)
           /\ PmemAccept(TRUE) <=> Len(u_req) # FifoDepth
           /\ ToUncached = Core!NoRequest
           /\ ToCore = IF Lsu!Requesting /\ Cacheable THEN mem_q ELSE Core!NoRequest
           /\ MemAccept <=> Cacheable /\ Core!MemAccept(ToCore)
<1>1. pending_q = 1 /\ select_q = TRUE /\ cache_access_q = TRUE
  BY OneItem DEF DcacheInv, Registers, CoreOwes
<1>2. Cacheable \in BOOLEAN
  BY UnitState
<1>3. Hold <=> ~Cacheable
  <2>1. pending_q # 0
    BY <1>1
  <2> QED
    BY <1>1, <1>2, <2>1, Zenon DEF Hold
<1>4. Select /\ Select = TRUE
  BY <1>1 DEF Select
<1>5. AckFor(TRUE) = bus_ack /\ AckFor(FALSE) = "NONE"
  BY <1>1 DEF AckFor
<1>6. m_q # Core!NoRequest
  BY Names DEF CoreOwes
<1>7. MemAck = IF Ready THEN "OK" ELSE "NONE"
  BY <1>1, <1>6, CoreAnswer DEF MemAck
<1>8. /\ ToUncached = Core!NoRequest
      /\ ToCore = IF Lsu!Requesting /\ Cacheable THEN mem_q ELSE Core!NoRequest
  BY <1>2, <1>3, Names DEF ToCore, ToUncached, Passed
<1>9. MemAccept <=> Cacheable /\ Core!MemAccept(ToCore)
  BY <1>3 DEF MemAccept
<1> QED
  BY <1>1, <1>4, <1>5, <1>7, <1>8, <1>9 DEF PmemAccept

-----------------------------------------------------------------------------
(***************************************************************************)
(* What is owed after the cycle.  A request is taken only when nothing     *)
(* older is left unanswered.                                               *)
(***************************************************************************)
Asks == Lsu!Requesting /\ MemAccept

LEMMA Answers ==
    ASSUME DcacheInv
    PROVE  MemAck \in {"NONE", "OK"} /\ (outst = <<>> => MemAck = "NONE")
<1>1. CASE NoneOwed
  BY <1>1, Neither
<1>2. ASSUME NEW o \in Operations, UncachedOwes(o)
      PROVE  MemAck \in {"NONE", "OK"} /\ outst # <<>>
  BY <1>2, Past, OneItem DEF UncachedOwes, DcacheInv, Registers
<1>3. ASSUME NEW o \in Operations, CoreOwes(o)
      PROVE  MemAck \in {"NONE", "OK"} /\ outst # <<>>
  BY <1>3, Inside, OneItem DEF CoreOwes
<1> QED
  BY <1>1, <1>2, <1>3 DEF DcacheInv, Sides

LEMMA Fresh ==
    ASSUME DcacheInv, Asks
    PROVE  mem_q \in Operations /\ (outst = <<>> \/ MemAck = "OK")
<1>1. mem_q \in Operations /\ (mem_q.op \in Lsu!Aligned => outst = <<>> \/ MemAck = "OK")
  BY UnitState DEF Asks
<1>2. mem_q.op \in Lsu!Aligned \/ mem_q.op \in CacheOps
  BY <1>1, Names DEF CacheOps
<1>3. ASSUME mem_q.op \in CacheOps
      PROVE  outst = <<>> \/ MemAck = "OK"
  <2>1. CASE NoneOwed
    BY <2>1 DEF NoneOwed
  <2>2. ASSUME NEW o \in Operations, UncachedOwes(o)
        PROVE  FALSE
    BY <1>3, <2>2, Past, UnitState DEF Asks
  <2>3. ASSUME NEW o \in Operations, CoreOwes(o)
        PROVE  MemAck = "OK"
    BY <2>3, Inside, CoreAnswer DEF Asks
  <2> QED
    BY <2>1, <2>2, <2>3 DEF DcacheInv, Sides
<1> QED
  BY <1>1, <1>2, <1>3

LEMMA HistoryNext ==
    ASSUME DcacheInv, NEW decoded, NEW take \in BOOLEAN, Clock(decoded, take)
    PROVE  /\ outst' = IF Asks THEN <<mem_q>> ELSE IF MemAck = "NONE" THEN outst ELSE <<>>
           /\ pending_q' = Len(outst')
           /\ mem' = IF MemAck = "OK" /\ Head(outst).op = "STORE"
                     THEN [mem EXCEPT ![Head(outst).addr] = Head(outst).data] ELSE mem
           /\ cache_access_q' = IF Asks THEN Cacheable ELSE cache_access_q
           /\ select_q' = Select
<1>1. MemAck \in {"NONE", "OK"} /\ (outst = <<>> => MemAck = "NONE")
  BY Answers
<1>2. Asks => outst = <<>> \/ MemAck = "OK"
  BY Fresh
<1>3. outst = <<>> \/ \E o \in Operations : outst = <<o>>
  BY DEF DcacheInv, Sides, NoneOwed, UncachedOwes, CoreOwes
<1>4. outst # <<>> => Tail(outst) = <<>> /\ Len(outst) = 1
  BY <1>3, OneItem
<1>5. outst' = IF Asks THEN <<mem_q>> ELSE IF MemAck = "NONE" THEN outst ELSE <<>>
  <2> DEFINE left == IF MemAck # "NONE" /\ outst # <<>> THEN Tail(outst) ELSE outst
  <2>1. outst' = IF Asks THEN Append(left, mem_q) ELSE left
    BY DEF Clock, History, Asks
  <2>2. left = IF MemAck = "NONE" THEN outst ELSE <<>>
    BY <1>1, <1>4
  <2>3. Asks => left = <<>>
    BY <1>1, <1>2, <2>2
  <2> HIDE DEF left
  <2> QED
    BY <2>1, <2>2, <2>3, OneItem
<1>6. pending_q' = Len(outst')
  <2>1. pending_q = Len(outst) /\ Len(<<>>) = 0
    BY DEF DcacheInv, Registers
  <2>2. pending_q' = IF Asks /\ MemAck = "NONE" THEN (pending_q + 1) % 32
                     ELSE IF ~Asks /\ MemAck # "NONE" THEN (pending_q + 31) % 32
                     ELSE pending_q
    BY DEF Clock, Mux, Asks
  <2>3. (0 + 1) % 32 = 1 /\ (1 + 31) % 32 = 0
    OBVIOUS
  <2>4. CASE Asks /\ MemAck = "NONE"
    BY <1>1, <1>2, <1>5, <2>1, <2>2, <2>3, <2>4, OneItem
  <2>5. CASE ~Asks /\ MemAck # "NONE"
    BY <1>1, <1>4, <1>5, <2>1, <2>2, <2>3, <2>5
  <2>6. CASE Asks /\ MemAck # "NONE"
    BY <1>1, <1>4, <1>5, <2>1, <2>2, <2>6, OneItem
  <2>7. CASE ~Asks /\ MemAck = "NONE"
    BY <1>5, <2>1, <2>2, <2>7
  <2> QED
    BY <2>4, <2>5, <2>6, <2>7
<1>7. mem' = IF MemAck = "OK" /\ Head(outst).op = "STORE"
             THEN [mem EXCEPT ![Head(outst).addr] = Head(outst).data] ELSE mem
  BY <1>1 DEF Clock, History
<1> QED
  BY <1>5, <1>6, <1>7 DEF Clock, Mux, Asks

(***************************************************************************)
(* The cache takes the request the mux passes to it.                       *)
(***************************************************************************)
LEMMA CoreNext ==
    ASSUME NEW decoded, NEW take \in BOOLEAN, Clock(decoded, take)
    PROVE  /\ Core!Edge(ToCore, PmemAccept(TRUE), AckFor(TRUE), BusData)
           /\ state_q' = Core!NextState(ToCore, PmemAccept(TRUE), AckFor(TRUE))
           /\ m_q' = IF Core!MemAccept(ToCore) THEN ToCore
                     ELSE IF Core!MemAck # "NONE" THEN Core!NoRequest ELSE m_q
BY DEF Clock, Core!Edge, Core!RequestBuffer

\* The mux passes the request on exactly when it is accepted.
Taken == Asks /\ Cacheable

LEMMA TakeNext ==
    ASSUME DcacheInv, NEW decoded, NEW take \in BOOLEAN, Clock(decoded, take)
    PROVE  /\ Taken => Ready /\ mem_q \in Operations /\ ToCore = mem_q
                       /\ Core!MemAccept(ToCore)
           /\ ~Taken /\ Core!MemAccept(ToCore) => ToCore = Core!NoRequest
           /\ m_q' = IF Taken THEN mem_q ELSE IF Ready THEN Core!NoRequest ELSE m_q
<1>1. /\ Core!MemAccept(ToCore) => Ready
      /\ Core!MemAck # "NONE" <=> Ready /\ m_q # Core!NoRequest
  BY CoreAnswer
<1>2. Taken => mem_q \in Operations
  BY Fresh DEF Taken
<1>3. CASE NoneOwed
  <2>1. Taken => ToCore = mem_q /\ Core!MemAccept(ToCore)
    BY <1>3, Neither DEF Taken, Asks
  <2>2. ~Taken /\ Core!MemAccept(ToCore) => ToCore = Core!NoRequest
    BY <1>3, Neither DEF Taken, Asks
  <2>3. m_q = Core!NoRequest
    BY <1>3 DEF NoneOwed, CoreIdle
  <2> QED
    BY <1>1, <1>2, <2>1, <2>2, <2>3, CoreNext
<1>4. ASSUME NEW o \in Operations, UncachedOwes(o)
      PROVE  ~Taken /\ ToCore = Core!NoRequest /\ m_q = Core!NoRequest
  BY <1>4, Past DEF Taken, Asks, UncachedOwes, CoreIdle
<1>5. ASSUME NEW o \in Operations, CoreOwes(o)
      PROVE  /\ Taken => ToCore = mem_q /\ Core!MemAccept(ToCore)
             /\ ~Taken /\ Core!MemAccept(ToCore) => ToCore = Core!NoRequest
             /\ m_q # Core!NoRequest
  BY <1>5, Inside, Names DEF Taken, Asks, CoreOwes
<1> QED
  BY <1>1, <1>2, <1>3, <1>4, <1>5, CoreNext DEF DcacheInv, Sides

LEMMA ReadyNext ==
    ASSUME DcacheInv, Ready, NEW decoded, NEW take \in BOOLEAN, Clock(decoded, take)
    PROVE  state_q' = IF ~Taken THEN "LOOKUP"
                      ELSE IF mem_q.op = "DWRITEBACK" THEN "WRITEBACK"
                      ELSE IF mem_q.op = "DFLUSH" THEN "FLUSH_ADDR" ELSE "LOOKUP"
<1>1. state_q' = IF ~Core!MemAccept(ToCore) THEN "LOOKUP"
                 ELSE IF ToCore.op = "DWRITEBACK" THEN "WRITEBACK"
                 ELSE IF ToCore.op = "DFLUSH" THEN "FLUSH_ADDR" ELSE "LOOKUP"
  BY CoreNext, States DEF Ready
<1> QED
  BY <1>1, TakeNext, Names

\* So does the other mux, past the cache.
LEMMA PushNext ==
    ASSUME DcacheInv, NEW decoded, NEW take \in BOOLEAN, Clock(decoded, take)
    PROVE  LET complete == Offered /\ PmemAccept(FALSE)
               push == IF Asks /\ ~Cacheable THEN <<mem_q>> ELSE <<>>
           IN  /\ req' = (IF complete THEN Tail(req) ELSE req) \o push
               /\ tags_q' = tags_q + Len(push)
                              - IF AckFor(FALSE) # "NONE" /\ tags_q > 0 THEN 1 ELSE 0
               /\ request_pending_q' = (\/ complete
                                        \/ request_pending_q /\ AckFor(FALSE) = "NONE")
<1>1. Asks /\ ~Cacheable <=> ToUncached.op # "NONE" /\ UncachedAccept
  <2>1. CASE NoneOwed
    BY <2>1, Neither, UnitState, Names DEF Asks
  <2>2. ASSUME NEW o \in Operations, UncachedOwes(o)
        PROVE  Asks /\ ~Cacheable <=> ToUncached.op # "NONE" /\ UncachedAccept
    BY <2>2, Past, UnitState, Names DEF Asks
  <2>3. ASSUME NEW o \in Operations, CoreOwes(o)
        PROVE  ~(Asks /\ ~Cacheable) /\ ToUncached.op = "NONE"
    BY <2>3, Inside, Names DEF Asks
  <2> QED
    BY <2>1, <2>2, <2>3 DEF DcacheInv, Sides
<1>2. Asks /\ ~Cacheable => ToUncached = mem_q
  BY Neither, Past, Inside DEF DcacheInv, Sides, Asks
<1> QED
  BY <1>1, <1>2 DEF Clock, Uncached

\* The cache asks nothing of the bus.
LEMMA Quiet ==
    ASSUME DcacheInv, state_q # "EVICT", NEW next, next = "REFILL" => state_q = "REFILL"
    PROVE  Core!PmemRequests(next) = <<>> /\ ~Core!PmemWr /\ ~Core!PmemRd(next)
<1>1. skid = <<>> /\ ~pmem_rd_q
  BY DEF DcacheInv, Modes, Registers, Typed
<1>2. ~Core!PmemWr /\ ~Core!PmemRd(next)
  BY <1>1 DEF Core!PmemWr, Core!PmemRd
<1> QED
  BY <1>2 DEF Core!PmemRequests

(***************************************************************************)
(* The bus: nothing to do, a request taken, an answer given.               *)
(***************************************************************************)
LEMMA BusRests ==
    ASSUME DcacheInv, NEW decoded, NEW take \in BOOLEAN, Clock(decoded, take), u_req = <<>>
    PROVE  /\ ~take
           /\ burst' = burst
           /\ bus_ack = "NONE" => owes' = owes /\ pmem' = pmem
<1>1. ~take
  BY DEF Clock, CanTake
<1>2. bus_ack = "NONE" => owes' = owes \o <<>> /\ pmem' = pmem
  BY <1>1 DEF Clock, Slave
<1>3. burst' = burst
  BY <1>1 DEF Clock, Slave
<1> QED
  BY <1>1, <1>2, <1>3

LEMMA BusAnswer ==
    ASSUME NoErrors, NEW decoded, NEW take \in BOOLEAN, Clock(decoded, take)
    PROVE  bus_ack' \in {"NONE", "OK"} /\ (owes' = <<>> => bus_ack' = "NONE")
<1>1. bus_ack' \in IF owes' = <<>> THEN {"NONE"} ELSE {"NONE"} \cup Responses
  BY DEF Clock, Slave
<1> QED
  BY <1>1 DEF NoErrors

LEMMA FifoNext ==
    ASSUME NEW decoded, NEW take \in BOOLEAN, Clock(decoded, take)
    PROVE  u_req' = (IF take THEN Tail(u_req) ELSE u_req)
                    \o (IF Len(u_req) # FifoDepth
                        THEN IF Select
                             THEN Core!PmemRequests(Core!NextState(ToCore, PmemAccept(TRUE),
                                                                   AckFor(TRUE)))
                             ELSE UncachedRequests
                        ELSE <<>>)
BY DEF Clock, Fifo

-----------------------------------------------------------------------------
(***************************************************************************)
(* Who owes the answer after the cycle, if the cache does not now.         *)
(***************************************************************************)
LEMMA BusIdleNext ==
    ASSUME DcacheInv, NEW decoded, NEW take \in BOOLEAN, Clock(decoded, take),
           u_req = <<>>, burst = NoBurst, owes = <<>>, u_req' = <<>>
    PROVE  BusIdle' /\ pmem' = pmem
<1>1. bus_ack = "NONE"
  BY DEF DcacheInv, Registers
<1> QED
  BY <1>1, BusRests DEF BusIdle, NoBurst

LEMMA BeginCore ==
    ASSUME DcacheInv, NEW decoded, NEW take \in BOOLEAN, Clock(decoded, take),
           Taken, UncachedIdle', BusIdle'
    PROVE  Sides'
<1>1. Ready /\ mem_q \in Operations /\ m_q' = mem_q
  BY TakeNext
<1>2. outst' = <<mem_q>> /\ cache_access_q'
  BY HistoryNext DEF Taken
<1>3. state_q' \in {"WRITEBACK", "FLUSH_ADDR", "LOOKUP"}
  BY <1>1, ReadyNext
<1>4. mem_q.op \in Lsu!Aligned => mem_q.addr \in CachedAddr
  BY UnitState DEF Taken
<1>5. PICK o \in Operations : o = mem_q
  BY <1>1
<1>6. Traffic'
  BY <1>3 DEF Traffic
<1>7. CoreOwes(o)'
  <2>1. outst' = <<o>> /\ m_q' = o /\ (o.op \in Lsu!Aligned => o.addr \in CachedAddr)
    BY <1>1, <1>2, <1>4, <1>5
  <2> QED
    BY <1>2, <1>3, <1>6, <2>1 DEF CoreOwes
<1> QED
  BY <1>7 DEF Sides

LEMMA BeginPast ==
    ASSUME DcacheInv, CoreIdle, NEW decoded, NEW take \in BOOLEAN, Clock(decoded, take),
           Asks, ~Cacheable, BusIdle',
           req' = <<mem_q>>, tags_q' = 1, ~request_pending_q'
    PROVE  Sides'
<1>1. mem_q \in Operations /\ mem_q.op \in Lsu!Aligned
  <2>1. mem_q \in Operations
    BY Fresh
  <2> QED
    BY <2>1, UnitState, Names
<1>2. mem_q.addr \in UncachedAddr
  BY <1>1, UnitState, Names
<1>3. outst' = <<mem_q>> /\ ~cache_access_q'
  BY HistoryNext
<1>4. CoreIdle'
  <2>1. state_q \in {"RESET", "LOOKUP"} /\ m_q = Core!NoRequest
    BY DEF CoreIdle
  <2>2. m_q' = Core!NoRequest
    BY <2>1, TakeNext DEF Taken
  <2>3. state_q' \in {"RESET", "LOOKUP"}
    BY <2>1, ReadyNext, CoreAnswer, CoreNext, States DEF Taken, Ready
  <2> QED
    BY <2>2, <2>3 DEF CoreIdle, Core!NoRequest
<1>5. PICK o \in Operations : o = mem_q
  BY <1>1
<1>6. UncachedOwes(o)'
  <2>1. outst' = <<o>> /\ req' = <<o>> /\ o.op \in Lsu!Aligned /\ o.addr \in UncachedAddr
    BY <1>1, <1>2, <1>3, <1>5
  <2>2. Offering(o)'
    BY <2>1 DEF Offering
  <2> QED
    BY <1>3, <1>4, <2>1, <2>2 DEF UncachedOwes
<1> QED
  BY <1>6 DEF Sides

LEMMA BeginNone ==
    ASSUME DcacheInv, NEW decoded, NEW take \in BOOLEAN, Clock(decoded, take),
           ~Asks, outst = <<>> \/ MemAck # "NONE",
           CoreIdle', UncachedIdle', BusIdle'
    PROVE  Sides'
<1>1. outst' = <<>>
  BY HistoryNext
<1> QED
  BY <1>1 DEF Sides, NoneOwed

LEMMA IdleNext ==
    ASSUME DcacheInv, CoreIdle, NEW decoded, NEW take \in BOOLEAN, Clock(decoded, take), ~Taken
    PROVE  CoreIdle'
<1>1. state_q \in {"RESET", "LOOKUP"} /\ m_q = Core!NoRequest
  BY DEF CoreIdle
<1>2. m_q' = Core!NoRequest
  BY <1>1, TakeNext
<1>3. state_q' \in {"RESET", "LOOKUP"}
  BY <1>1, ReadyNext, CoreAnswer, CoreNext, States DEF Ready
<1> QED
  BY <1>2, <1>3 DEF CoreIdle, Core!NoRequest

LEMMA FromNone ==
    ASSUME DcacheInv, NoneOwed, NEW decoded, NEW take \in BOOLEAN, Clock(decoded, take)
    PROVE  Sides' /\ pmem' = pmem
<1> DEFINE next == Core!NextState(ToCore, PmemAccept(TRUE), AckFor(TRUE))
<1>1. /\ state_q \in {"RESET", "LOOKUP"} /\ m_q = Core!NoRequest /\ CoreIdle
      /\ req = <<>> /\ tags_q = 0 /\ ~request_pending_q
      /\ u_req = <<>> /\ burst = NoBurst /\ owes = <<>> /\ outst = <<>>
  BY DEF NoneOwed, CoreIdle, UncachedIdle, BusIdle
<1>2. next \in {"RESET", "LOOKUP", "WRITEBACK", "FLUSH_ADDR"}
  BY <1>1, ReadyNext, CoreAnswer, CoreNext, States DEF Ready
<1>3. Core!PmemRequests(next) = <<>> /\ UncachedRequests = <<>> /\ ~Offered
  BY <1>1, <1>2, Quiet DEF UncachedRequests, Offered
<1>4. u_req' = <<>>
  <2>1. ~take
    BY <1>1, BusRests
  <2>2. u_req' = <<>> \o <<>>
    BY <1>1, <1>3, <2>1, FifoNext
  <2> QED
    BY <2>2
<1>5. BusIdle' /\ pmem' = pmem
  BY <1>1, <1>4, BusIdleNext
<1>6. /\ req' = IF Asks /\ ~Cacheable THEN <<mem_q>> ELSE <<>>
      /\ tags_q' = IF Asks /\ ~Cacheable THEN 1 ELSE 0
      /\ ~request_pending_q'
  <2> DEFINE push == IF Asks /\ ~Cacheable THEN <<mem_q>> ELSE <<>>
  <2>1. /\ req' = <<>> \o push
        /\ tags_q' = 0 + Len(push) - 0 /\ ~request_pending_q'
    <3>1. AckFor(FALSE) = "NONE"
      BY Neither
    <3> QED
      BY <1>1, <1>3, <3>1, PushNext
  <2>2. CASE Asks /\ ~Cacheable
    BY <2>1, <2>2, OneItem
  <2>3. CASE ~(Asks /\ ~Cacheable)
    BY <2>1, <2>3
  <2> QED
    BY <2>1, <2>2, <2>3
<1>7. CASE Taken
  BY <1>5, <1>6, <1>7, BeginCore DEF UncachedIdle, Taken
<1>8. CASE Asks /\ ~Cacheable
  BY <1>1, <1>5, <1>6, <1>8, BeginPast
<1>9. CASE ~Asks
  BY <1>1, <1>5, <1>6, <1>9, IdleNext, BeginNone DEF UncachedIdle, Taken
<1> QED
  BY <1>5, <1>7, <1>8, <1>9 DEF Taken

(***************************************************************************)
(* A request past the cache, from the fifo to its answer.                  *)
(***************************************************************************)
LEMMA PastWaits ==
    ASSUME DcacheInv, NEW o \in Operations, UncachedOwes(o), bus_ack = "NONE",
           NEW decoded, NEW take \in BOOLEAN, Clock(decoded, take)
    PROVE  /\ ~Asks /\ outst' = outst /\ ~cache_access_q' /\ CoreIdle' /\ mem' = mem
           /\ tags_q' = 1
           /\ req' = IF Offered THEN Tail(req) ELSE req
           /\ request_pending_q' <=> Offered \/ request_pending_q
<1>1. MemAck = "NONE" /\ AckFor(FALSE) = "NONE"
  BY Past
<1>2. outst = <<o>> /\ tags_q = 1 /\ CoreIdle /\ ~cache_access_q
  BY DEF UncachedOwes
<1>3. ~Asks
  BY <1>1, <1>2, Fresh, OneItem
<1>4. outst' = outst /\ ~cache_access_q' /\ mem' = mem
  BY <1>1, <1>2, <1>3, HistoryNext
<1>5. CoreIdle'
  BY <1>2, <1>3, IdleNext DEF Taken
<1>6. Len(u_req) # FifoDepth
  <2>1. u_req = <<>> \/ u_req = <<Request(o)>>
    BY DEF UncachedOwes, Offering, Asked, BusIdle
  <2> QED
    BY <2>1, OneItem DEF FifoDepth
<1>7. PmemAccept(FALSE)
  BY <1>6, Past
<1>8. /\ req' = (IF Offered THEN Tail(req) ELSE req) \o <<>>
      /\ tags_q' = 1 + Len(<<>>) - 0
      /\ request_pending_q' <=> (Offered \/ request_pending_q)
  <2> DEFINE complete == Offered /\ PmemAccept(FALSE)
  <2>1. /\ req' = (IF complete THEN Tail(req) ELSE req) \o <<>>
        /\ tags_q' = tags_q + Len(<<>>)
                        - IF AckFor(FALSE) # "NONE" /\ tags_q > 0 THEN 1 ELSE 0
        /\ request_pending_q' = (\/ complete
                                 \/ request_pending_q /\ AckFor(FALSE) = "NONE")
    BY <1>3, PushNext
  <2>2. complete <=> Offered
    BY <1>7
  <2> HIDE DEF complete
  <2> QED
    BY <1>1, <1>2, <2>1, <2>2
<1> QED
  BY <1>3, <1>4, <1>5, <1>8

LEMMA PastOffers ==
    ASSUME DcacheInv, NEW o \in Operations, UncachedOwes(o), Offering(o),
           NEW decoded, NEW take \in BOOLEAN, Clock(decoded, take)
    PROVE  Sides' /\ pmem' = pmem /\ mem' = mem
<1>1. /\ req = <<o>> /\ ~request_pending_q /\ u_req = <<>> /\ burst = NoBurst
      /\ owes = <<>> /\ outst = <<o>>
  BY DEF Offering, BusIdle, UncachedOwes
<1>2. bus_ack = "NONE"
  BY <1>1 DEF DcacheInv, Registers
<1>3. Offered /\ UncachedRequests = <<Request(o)>>
  BY <1>1, OneItem DEF Offered, UncachedRequests, Request
<1>4. /\ ~Asks /\ outst' = outst /\ ~cache_access_q' /\ CoreIdle' /\ mem' = mem
      /\ tags_q' = 1 /\ req' = <<>> /\ request_pending_q'
  BY <1>1, <1>2, <1>3, PastWaits, OneItem
<1>5. ~take /\ burst' = burst /\ owes' = owes /\ pmem' = pmem
  BY <1>1, <1>2, BusRests
<1>6. u_req' = <<Request(o)>>
  <2>1. Len(<<>>) # FifoDepth
    BY DEF FifoDepth
  <2>2. u_req' = <<>> \o <<Request(o)>>
    BY <1>1, <1>3, <1>5, <2>1, Past, FifoNext
  <2> QED
    BY <2>2, OneItem
<1>7. Asked(o)'
  BY <1>1, <1>4, <1>5, <1>6 DEF Asked, NoBurst, Request
<1>8. UncachedOwes(o)'
  BY <1>1, <1>4, <1>7 DEF UncachedOwes
<1> QED
  BY <1>4, <1>5, <1>8 DEF Sides

LEMMA PastAsks ==
    ASSUME DcacheInv, NEW o \in Operations, UncachedOwes(o), Asked(o),
           u_req = <<Request(o)>>, owes = <<>>,
           NEW decoded, NEW take \in BOOLEAN, Clock(decoded, take)
    PROVE  Sides' /\ pmem' = pmem /\ mem' = mem
<1>1. req = <<>> /\ request_pending_q /\ burst = NoBurst /\ outst = <<o>>
  BY DEF Asked, UncachedOwes
<1>2. bus_ack = "NONE"
  BY DEF DcacheInv, Registers
<1>3. ~Offered /\ UncachedRequests = <<>>
  BY <1>1 DEF Offered, UncachedRequests
<1>4. /\ ~Asks /\ outst' = outst /\ ~cache_access_q' /\ CoreIdle' /\ mem' = mem
      /\ tags_q' = 1 /\ req' = <<>> /\ request_pending_q'
  BY <1>1, <1>2, <1>3, PastWaits
<1>5. pmem' = pmem
  BY <1>2 DEF Clock, Slave
<1>6. u_req' = IF take THEN <<>> ELSE u_req
  <2>1. Len(u_req) # FifoDepth
    BY OneItem DEF FifoDepth
  <2>2. u_req' = (IF take THEN Tail(u_req) ELSE u_req) \o <<>>
    BY <1>3, <2>1, Past, FifoNext
  <2> QED
    BY <2>2, OneItem
<1>7. ~take => owes' = <<>> /\ burst' = NoBurst
  BY <1>1, <1>2 DEF Clock, Slave
<1>8. ASSUME take
      PROVE  owes' = <<Debt(o)>> /\ burst' = NoBurst
  <2>1. /\ Head(u_req) = Request(o) /\ Request(o).rd <=> o.op = "LOAD"
        /\ Request(o).addr = o.addr /\ Request(o).len = 0 /\ Request(o).data = o.data
    BY OneItem DEF Request
  <2>2. CASE o.op = "LOAD"
    <3>1. owes' = <<>> \o <<[rd |-> TRUE, addr |-> o.addr, left |-> 0, words |-> <<>>]>>
      BY <1>2, <1>8, <2>1, <2>2 DEF Clock, Slave
    <3>2. burst' = burst
      BY <1>8, <2>1, <2>2 DEF Clock, Slave
    <3> QED
      BY <1>1, <2>2, <3>1, <3>2, OneItem DEF Debt
  <2>3. CASE o.op # "LOAD"
    <3>1. Sent = [addr |-> o.addr, len |-> 0, words |-> <<o.data>>]
      BY <1>1, <2>1 DEF Sent, NoBurst
    <3>2. Complete
      BY <3>1, OneItem DEF Complete
    <3>3. ~Request(o).rd /\ burst' = NoBurst
      BY <1>8, <2>1, <2>3, <3>2 DEF Clock, Slave
    <3>4. owes' = <<>> \o <<[rd |-> FALSE, addr |-> Sent.addr, left |-> 0,
                              words |-> Sent.words]>>
      <4>1. ~Head(u_req).rd
        BY <2>1, <3>3
      <4> QED
        BY <1>2, <1>8, <3>2, <4>1 DEF Clock, Slave
    <3>5. owes' = <<[rd |-> FALSE, addr |-> o.addr, left |-> 0, words |-> <<o.data>>]>>
      BY <3>1, <3>4, OneItem
    <3>6. (o.op = "LOAD") = FALSE
      BY <2>3
    <3> QED
      BY <2>3, <3>3, <3>5, <3>6 DEF Debt
  <2> QED
    BY <2>2, <2>3
<1>9. Asked(o)'
  BY <1>4, <1>6, <1>7, <1>8 DEF Asked, NoBurst, Request, Debt
<1>10. UncachedOwes(o)'
  BY <1>1, <1>4, <1>9 DEF UncachedOwes
<1> QED
  BY <1>4, <1>5, <1>10 DEF Sides

LEMMA PastAnswers ==
    ASSUME DcacheInv, NEW o \in Operations, UncachedOwes(o), Asked(o),
           u_req = <<>>, owes = <<Debt(o)>>,
           NEW decoded, NEW take \in BOOLEAN, Clock(decoded, take)
    PROVE  /\ Sides'
           /\ \A a \in CachedAddr : pmem'[a] = pmem[a] /\ mem'[a] = mem[a]
           /\ \A a \in UncachedAddr : pmem'[a] = mem'[a]
<1>1. /\ req = <<>> /\ request_pending_q /\ burst = NoBurst /\ outst = <<o>>
      /\ tags_q = 1 /\ CoreIdle /\ o.addr \in UncachedAddr /\ o.op \in {"LOAD", "STORE"}
  BY Names DEF Asked, UncachedOwes
<1>2. ~Offered /\ UncachedRequests = <<>>
  BY <1>1 DEF Offered, UncachedRequests
<1>3. ~take /\ burst' = NoBurst
  BY <1>1, BusRests
<1>4. u_req' = <<>>
  <2>1. u_req' = <<>> \o <<>>
    BY <1>2, <1>3, Past, FifoNext
  <2> QED
    BY <2>1
<1>5. Beyond
  BY DEF DcacheInv, Contents
<1>6. CASE bus_ack = "NONE"
  <2>1. /\ ~Asks /\ outst' = outst /\ ~cache_access_q' /\ CoreIdle' /\ mem' = mem
        /\ tags_q' = 1 /\ req' = <<>> /\ request_pending_q'
    BY <1>1, <1>2, <1>6, PastWaits
  <2>2. owes' = owes /\ pmem' = pmem
    BY <1>6, BusRests
  <2>3. Asked(o)'
    BY <1>3, <1>4, <2>1, <2>2 DEF Asked, NoBurst, Debt
  <2>4. UncachedOwes(o)'
    BY <1>1, <2>1, <2>3 DEF UncachedOwes
  <2> QED
    BY <1>5, <2>1, <2>2, <2>4 DEF Sides, Beyond
<1>7. CASE bus_ack # "NONE"
  <2>1. bus_ack = "OK" /\ MemAck = "OK" /\ AckFor(FALSE) = "OK" /\ AckFor(FALSE) # "NONE"
    BY <1>7, Past DEF DcacheInv, Registers
  <2>2. Head(owes) = Debt(o) /\ Tail(owes) = <<>>
    BY OneItem
  <2>3. owes' = <<>>
    <3>1. ~(Debt(o).rd /\ Debt(o).left > 0)
      BY DEF Debt
    <3>2. owes' = Tail(owes) \o <<>>
      BY <1>3, <1>7, <2>2, <3>1 DEF Clock, Slave
    <3> QED
      BY <2>2, <3>2
  <2>4. BusIdle'
    BY <1>3, <1>4, <2>3 DEF BusIdle, NoBurst
  <2>5. /\ req' = IF Asks /\ ~Cacheable THEN <<mem_q>> ELSE <<>>
        /\ tags_q' = IF Asks /\ ~Cacheable THEN 1 ELSE 0
        /\ ~request_pending_q'
    <3> DEFINE push == IF Asks /\ ~Cacheable THEN <<mem_q>> ELSE <<>>
    <3>1. /\ req' = <<>> \o push
          /\ tags_q' = 1 + Len(push) - 1 /\ ~request_pending_q'
      <4>1. 1 > 0
        OBVIOUS
      <4>2. /\ req' = (IF Offered /\ PmemAccept(FALSE) THEN Tail(req) ELSE req) \o push
            /\ tags_q' = tags_q + Len(push)
                            - IF AckFor(FALSE) # "NONE" /\ tags_q > 0 THEN 1 ELSE 0
            /\ request_pending_q' = (\/ Offered /\ PmemAccept(FALSE)
                                     \/ request_pending_q /\ AckFor(FALSE) = "NONE")
        BY PushNext
      <4> HIDE DEF push
      <4> QED
        BY <1>1, <1>2, <2>1, <4>1, <4>2
    <3>2. CASE Asks /\ ~Cacheable
      BY <3>1, <3>2, OneItem
    <3>3. CASE ~(Asks /\ ~Cacheable)
      BY <3>1, <3>3
    <3> QED
      BY <3>1, <3>2, <3>3
  <2>6. Asks => ~Cacheable
    BY Past DEF Asks
  <2>7. Sides'
    <3>1. CASE Asks
      BY <1>1, <2>4, <2>5, <2>6, <3>1, BeginPast
    <3>2. CASE ~Asks
      BY <1>1, <2>1, <2>4, <2>5, <3>2, BeginNone, IdleNext DEF UncachedIdle, Taken
    <3> QED
      BY <3>1, <3>2
  <2>8. mem' = IF o.op = "STORE" THEN [mem EXCEPT ![o.addr] = o.data] ELSE mem
    BY <1>1, <2>1, HistoryNext, OneItem
  <2>9. \A a \in Addr : mem'[a] = IF o.op = "STORE" /\ a = o.addr THEN o.data ELSE mem[a]
    <3>1. mem \in [Words -> Words] /\ o.addr \in Words
      BY Names, Sizes DEF DcacheInv, LsuP!IInv, LsuP!Registers, Values
    <3> QED
      BY <2>8, <3>1, Sizes
  <2>10. \A a \in Addr : pmem'[a] = IF o.op = "STORE" /\ a = o.addr THEN o.data ELSE pmem[a]
    <3>1. CASE o.op = "LOAD"
      <4>1. pmem' = pmem
        <5>1. Debt(o).rd
          BY <3>1 DEF Debt
        <5> QED
          BY <2>2, <5>1 DEF Clock, Slave
      <4> QED
        BY <3>1, <4>1
    <3>2. CASE o.op = "STORE"
      <4>1. Debt(o).addr = o.addr /\ Debt(o).words = <<o.data>> /\ ~Debt(o).rd
        BY <3>2 DEF Debt
      <4>2. pmem' = Performed
        BY <1>7, <2>2, <4>1 DEF Clock, Slave
      <4>3. \A a \in Addr : Performed[a]
              = IF a \in o.addr .. (o.addr + 1 - 1) THEN <<o.data>>[a - o.addr + 1] ELSE pmem[a]
        BY <2>2, <4>1, OneItem DEF Performed
      <4>4. o.addr \in Nat /\ Addr \subseteq Nat
        BY Names, Sizes
      <4>5. \A a \in Addr : a \in o.addr .. (o.addr + 1 - 1) <=> a = o.addr
        BY <4>4
      <4>6. <<o.data>>[o.addr - o.addr + 1] = o.data
        BY <4>4
      <4> QED
        BY <3>2, <4>2, <4>3, <4>5, <4>6
    <3> QED
      BY <1>1, <3>1, <3>2
  <2>11. \A a \in CachedAddr : a # o.addr /\ a \in Addr
    BY <1>1, Sizes
  <2>12. \A a \in UncachedAddr : a \in Addr /\ pmem[a] = mem[a]
    BY <1>5, Sizes DEF Beyond
  <2> QED
    BY <2>7, <2>9, <2>10, <2>11, <2>12
<1> QED
  BY <1>6, <1>7

LEMMA FromPast ==
    ASSUME DcacheInv, NEW o \in Operations, UncachedOwes(o),
           NEW decoded, NEW take \in BOOLEAN, Clock(decoded, take)
    PROVE  /\ Sides'
           /\ \A a \in CachedAddr : pmem'[a] = pmem[a] /\ mem'[a] = mem[a]
           /\ \A a \in UncachedAddr : pmem'[a] = mem'[a]
<1>1. \A a \in UncachedAddr : pmem[a] = mem[a]
  BY DEF DcacheInv, Contents, Beyond
<1>2. CASE Offering(o)
  BY <1>1, <1>2, PastOffers
<1>3. CASE Asked(o)
  <2>1. CASE u_req = <<Request(o)>> /\ owes = <<>>
    BY <1>1, <1>3, <2>1, PastAsks
  <2>2. CASE u_req = <<>> /\ owes = <<Debt(o)>>
    BY <1>3, <2>2, PastAnswers
  <2> QED
    BY <1>3, <2>1, <2>2 DEF Asked
<1> QED
  BY <1>2, <1>3 DEF UncachedOwes

-----------------------------------------------------------------------------
(***************************************************************************)
(* A request in the cache: it is answered in LOOKUP, or stays.             *)
(***************************************************************************)
LEMMA InsideUncached ==
    ASSUME DcacheInv, NEW o \in Operations, CoreOwes(o),
           NEW decoded, NEW take \in BOOLEAN, Clock(decoded, take)
    PROVE  UncachedIdle'
<1>1. req = <<>> /\ tags_q = 0 /\ ~request_pending_q
  BY DEF CoreOwes, UncachedIdle
<1>2. ~Offered /\ AckFor(FALSE) = "NONE" /\ ~(AckFor(FALSE) # "NONE")
  BY <1>1, Inside DEF Offered
<1>3. ~(Asks /\ ~Cacheable)
  BY Inside DEF Asks
<1>4. /\ req' = (IF Offered /\ PmemAccept(FALSE) THEN Tail(req) ELSE req) \o <<>>
      /\ tags_q' = tags_q + Len(<<>>)
                      - IF AckFor(FALSE) # "NONE" /\ tags_q > 0 THEN 1 ELSE 0
      /\ request_pending_q' = (\/ Offered /\ PmemAccept(FALSE)
                               \/ request_pending_q /\ AckFor(FALSE) = "NONE")
  BY <1>3, PushNext
<1>5. req' = <<>> /\ tags_q' = 0
  BY <1>1, <1>2, <1>4
<1>6. ~request_pending_q'
  BY <1>1, <1>2, <1>4
<1> QED
  BY <1>5, <1>6 DEF UncachedIdle

LEMMA Waits ==
    ASSUME DcacheInv, NEW o \in Operations, CoreOwes(o), ~Ready,
           NEW decoded, NEW take \in BOOLEAN, Clock(decoded, take)
    PROVE  /\ ~Asks /\ ~Taken /\ MemAck = "NONE"
           /\ m_q' = m_q /\ m_q \in Operations /\ outst' = outst /\ cache_access_q'
           /\ mem' = mem
<1>1. MemAck = "NONE"
  BY Inside
<1>2. outst = <<o>> /\ m_q = o /\ cache_access_q
  BY DEF CoreOwes
<1>3. ~Asks
  BY <1>1, <1>2, Fresh, OneItem
<1> QED
  BY <1>1, <1>2, <1>3, HistoryNext, TakeNext DEF Taken

LEMMA StateNext ==
    ASSUME NEW decoded, NEW take \in BOOLEAN, Clock(decoded, take)
    PROVE  /\ state_q = "RESET" => state_q' = IF flush_last_q THEN "LOOKUP" ELSE "RESET"
           /\ state_q = "FLUSH_ADDR" => state_q' = "FLUSH"
           /\ state_q = "FLUSH" =>
                state_q' = IF Core!DirtyAny
                           THEN IF Core!EvictWay THEN "EVICT" ELSE "FLUSH"
                           ELSE IF flush_last_q THEN "LOOKUP" ELSE "FLUSH_ADDR"
           /\ state_q = "LOOKUP" /\ Core!Miss =>
                state_q' = IF Core!EvictWay THEN "EVICT" ELSE "REFILL"
           /\ state_q = "REFILL" =>
                state_q' = IF AckFor(TRUE) = "NONE" \/ ~Core!PmemLast THEN "REFILL"
                           ELSE IF m_q.op = "STORE" THEN "WRITE" ELSE "READ"
           /\ state_q \in {"WRITE", "READ"} => state_q' = "LOOKUP"
           /\ state_q = "EVICT" =>
                state_q' = IF PmemAccept(TRUE) /\ Core!PmemLast THEN "EVICT_WAIT" ELSE "EVICT"
           /\ state_q = "EVICT_WAIT" =>
                state_q' = IF AckFor(TRUE) = "NONE" THEN "EVICT_WAIT"
                           ELSE IF m_q.op = "DWRITEBACK" THEN "LOOKUP"
                           ELSE IF flushing_q THEN "FLUSH_ADDR" ELSE "REFILL"
           /\ state_q = "WRITEBACK" =>
                state_q' = IF \E way \in Core!Ways : Core!Hit(way) /\ Core!IsDirty(way)
                           THEN "EVICT" ELSE "LOOKUP"
<1>1. state_q' = Core!NextState(ToCore, PmemAccept(TRUE), AckFor(TRUE))
  BY CoreNext
<1> DEFINE next == Core!NextState(ToCore, PmemAccept(TRUE), AckFor(TRUE))
<1>2. /\ state_q = "RESET" => next = IF flush_last_q THEN "LOOKUP" ELSE "RESET"
      /\ state_q = "FLUSH_ADDR" => next = "FLUSH"
      /\ state_q = "FLUSH" =>
           next = IF Core!DirtyAny
                  THEN IF Core!EvictWay THEN "EVICT" ELSE "FLUSH"
                  ELSE IF flush_last_q THEN "LOOKUP" ELSE "FLUSH_ADDR"
      /\ state_q = "LOOKUP" /\ Core!Miss =>
           next = IF Core!EvictWay THEN "EVICT" ELSE "REFILL"
      /\ state_q = "REFILL" =>
           next = IF AckFor(TRUE) = "NONE" \/ ~Core!PmemLast THEN "REFILL"
                  ELSE IF m_q.op = "STORE" THEN "WRITE" ELSE "READ"
      /\ state_q \in {"WRITE", "READ"} => next = "LOOKUP"
      /\ state_q = "EVICT" =>
           next = IF PmemAccept(TRUE) /\ Core!PmemLast THEN "EVICT_WAIT" ELSE "EVICT"
      /\ state_q = "EVICT_WAIT" =>
           next = IF AckFor(TRUE) = "NONE" THEN "EVICT_WAIT"
                  ELSE IF m_q.op = "DWRITEBACK" THEN "LOOKUP"
                  ELSE IF flushing_q THEN "FLUSH_ADDR" ELSE "REFILL"
      /\ state_q = "WRITEBACK" =>
           next = IF \E way \in Core!Ways : Core!Hit(way) /\ Core!IsDirty(way)
                  THEN "EVICT" ELSE "LOOKUP"
  BY States
<1> HIDE DEF next
<1>3. state_q' = next
  BY <1>1 DEF next
<1> QED
  BY <1>2, <1>3

LEMMA CoreStays ==
    ASSUME DcacheInv, NEW o \in Operations, CoreOwes(o), ~Ready,
           NEW decoded, NEW take \in BOOLEAN, Clock(decoded, take), Traffic'
    PROVE  Sides'
<1>1. m_q' = m_q /\ outst' = outst /\ cache_access_q'
  BY Waits
<1>2. UncachedIdle'
  BY InsideUncached
<1>3. state_q' # "RESET"
  <2>1. state_q \in {"FLUSH_ADDR", "FLUSH", "LOOKUP", "REFILL", "WRITE", "READ", "EVICT",
                     "EVICT_WAIT", "WRITEBACK"}
    BY DEF DcacheInv, Modes, CoreOwes
  <2>2. state_q = "LOOKUP" => Core!Miss
    BY DEF Ready
  <2> QED
    BY <2>1, <2>2, StateNext
<1>4. CoreOwes(o)'
  BY <1>1, <1>2, <1>3 DEF CoreOwes
<1> QED
  BY <1>4 DEF Sides

LEMMA CoreFifo ==
    ASSUME DcacheInv, NEW o \in Operations, CoreOwes(o),
           NEW decoded, NEW take \in BOOLEAN, Clock(decoded, take)
    PROVE  u_req' = (IF take THEN Tail(u_req) ELSE u_req)
                    \o (IF Len(u_req) # FifoDepth THEN Core!PmemRequests(state_q') ELSE <<>>)
<1> DEFINE next == Core!NextState(ToCore, PmemAccept(TRUE), AckFor(TRUE))
           old  == IF take THEN Tail(u_req) ELSE u_req
<1>1. state_q' = next
  BY CoreNext
<1>2. Select
  BY Inside
<1>3. u_req' = old \o (IF Len(u_req) # FifoDepth
                       THEN IF Select THEN Core!PmemRequests(next) ELSE UncachedRequests
                       ELSE <<>>)
  BY FifoNext
<1> HIDE DEF next, old
<1>4. u_req' = old \o (IF Len(u_req) # FifoDepth THEN Core!PmemRequests(next) ELSE <<>>)
  BY <1>2, <1>3
<1> QED
  BY <1>1, <1>4 DEF old

\* The bus stays idle while the cache asks nothing of it.
LEMMA CoreQuiet ==
    ASSUME DcacheInv, NEW o \in Operations, CoreOwes(o), BusIdle,
           state_q \notin {"EVICT", "REFILL"}, state_q' # "REFILL",
           NEW decoded, NEW take \in BOOLEAN, Clock(decoded, take)
    PROVE  BusIdle' /\ pmem' = pmem
<1>1. Core!PmemRequests(state_q') = <<>>
  BY Quiet
<1>2. u_req = <<>> /\ burst = NoBurst /\ owes = <<>>
  BY DEF BusIdle
<1>3. ~take
  BY <1>2, BusRests
<1>4. u_req' = <<>> \o <<>>
  BY <1>1, <1>2, <1>3, CoreFifo
<1>5. u_req' = <<>>
  BY <1>4
<1> QED
  BY <1>2, <1>5, BusIdleNext

LEMMA FromReady ==
    ASSUME DcacheInv, NEW o \in Operations, CoreOwes(o), Ready,
           NEW decoded, NEW take \in BOOLEAN, Clock(decoded, take)
    PROVE  /\ Sides' /\ pmem' = pmem
           /\ mem' = IF m_q.op = "STORE" THEN [mem EXCEPT ![m_q.addr] = m_q.data] ELSE mem
<1>1. MemAck = "OK" /\ outst = <<o>> /\ m_q = o
  BY Inside DEF CoreOwes
<1>2. mem' = IF m_q.op = "STORE" THEN [mem EXCEPT ![m_q.addr] = m_q.data] ELSE mem
  BY <1>1, HistoryNext, OneItem
<1>3. state_q = "LOOKUP" /\ state_q' \in {"LOOKUP", "WRITEBACK", "FLUSH_ADDR"}
  BY ReadyNext DEF Ready
<1>4. BusIdle
  BY <1>3 DEF CoreOwes, Traffic
<1>5. BusIdle' /\ pmem' = pmem
  BY <1>3, <1>4, CoreQuiet
<1>6. UncachedIdle'
  BY InsideUncached
<1>7. CASE Asks
  <2>1. Taken
    BY <1>7, Inside DEF Asks, Taken
  <2> QED
    BY <1>2, <1>5, <1>6, <2>1, BeginCore
<1>8. CASE ~Asks
  <2>1. m_q' = Core!NoRequest /\ state_q' = "LOOKUP"
    BY <1>8, TakeNext, ReadyNext DEF Taken
  <2>2. CoreIdle'
    BY <2>1 DEF CoreIdle, Core!NoRequest
  <2> QED
    BY <1>1, <1>2, <1>5, <1>6, <1>8, <2>2, BeginNone
<1> QED
  BY <1>7, <1>8

(***************************************************************************)
(* The registers that say which line is in work.                           *)
(***************************************************************************)
LEMMA TypedFacts ==
    ASSUME DcacheInv
    PROVE  /\ Typed /\ Modes /\ Outputs /\ Chosen /\ Filled /\ Flushing /\ Contents
           /\ replace_way_q \in Core!Ways /\ ThisSet \in Core!Sets
           /\ data_write_q \in Offsets
BY Sets DEF DcacheInv, Registers, Typed

LEMMA Kept ==
    ASSUME DcacheInv, NEW decoded, NEW take \in BOOLEAN, Clock(decoded, take)
    PROVE  /\ ~Core!WritesTag(0, AckFor(TRUE)) /\ ~Core!WritesTag(1, AckFor(TRUE))
                => tags' = tags
           /\ (\A way \in Core!Ways : ~Fills(way, AckFor(TRUE)) /\ ~StoresTo(way))
                => data' = data
<1>1. Typed
  BY TypedFacts
<1>2. Core!TagRams(ToCore, state_q', AckFor(TRUE))
      /\ Core!DataRams(ToCore, state_q', AckFor(TRUE), BusData, PmemAccept(TRUE))
  BY CoreNext DEF Core!Edge
<1>3. (\A way \in Core!Ways : ~Core!WritesTag(way, AckFor(TRUE))) => tags' = tags
  BY <1>1, <1>2, TagEdge
<1>4. ASSUME \A way \in Core!Ways : ~Fills(way, AckFor(TRUE)) /\ ~StoresTo(way)
      PROVE  data' = data
  <2>1. \A way \in Core!Ways : Core!DataWrite(way, AckFor(TRUE), BusData) = data[way]
    BY <1>4 DEF Core!DataWrite, Fills, StoresTo
  <2>2. data' = [way \in Core!Ways |-> data[way]]
    BY <1>2, <2>1 DEF Core!DataRams
  <2> QED
    BY <1>1, <2>2 DEF Typed
<1> QED
  BY <1>3, <1>4 DEF Core!Ways

(***************************************************************************)
(* The traffic of a miss, a flush and a writeback.                         *)
(***************************************************************************)
LEMMA WordOfLine ==
    ASSUME NEW w \in Offsets
    PROVE  Line[w + 1] = data[replace_way_q][<<ThisSet, w>>] /\ w + 1 \in 1 .. LineWords
<1> DEFINE i == w + 1
<1>1. i \in 1 .. LineWords /\ i - 1 = w
  BY Sizes DEF Offsets
<1> HIDE DEF i
<1>2. Line[i] = data[replace_way_q][<<ThisSet, w>>]
  BY <1>1 DEF Line
<1> QED
  BY <1>1, <1>2 DEF i

LEMMA NoHit ==
    ASSUME Core!Miss
    PROVE  \A way \in Core!Ways : ~StoresTo(way) /\ ~Core!WritesTag(way, AckFor(TRUE))
BY DEF Core!Miss, Core!HitAny, StoresTo, Core!WritesTag

LEMMA WayNext ==
    ASSUME DcacheInv, NEW decoded, NEW take \in BOOLEAN, Clock(decoded, take)
    PROVE  replace_way_q' \in Core!Ways
<1>1. replace_way_q \in {0, 1}
  BY TypedFacts DEF Core!Ways
<1>2. \/ replace_way_q' = 1 - replace_way_q \/ replace_way_q' = 0
      \/ replace_way_q' = 1 \/ replace_way_q' = replace_way_q
  <2>1. Core!Replacement(state_q')
    BY CoreNext DEF Core!Edge
  <2> QED
    BY <2>1, Zenon DEF Core!Replacement
<1> QED
  BY <1>1, <1>2 DEF Core!Ways

LEMMA FlushNext ==
    ASSUME NEW decoded, NEW take \in BOOLEAN, Clock(decoded, take)
    PROVE  /\ flush_addr_q' =
                IF state_q = "RESET" \/ (state_q = "FLUSH" /\ state_q' = "FLUSH_ADDR")
                THEN (flush_addr_q + 1) % (LastSet + 1)
                ELSE IF state_q = "LOOKUP" THEN 0 ELSE flush_addr_q
           /\ flushing_q' =
                IF state_q = "LOOKUP" /\ state_q' = "FLUSH_ADDR" THEN TRUE
                ELSE IF state_q = "FLUSH" /\ state_q' = "LOOKUP" THEN FALSE ELSE flushing_q
           /\ flush_last_q' =
                (state_q # "LOOKUP" /\ (flush_addr_q = LastSet \/ flush_last_q))
BY CoreNext DEF Core!Edge, Core!FlushCounter

LEMMA EnterEvict ==
    ASSUME DcacheInv, NEW o \in Operations, CoreOwes(o), BusIdle,
           state_q \in {"LOOKUP", "FLUSH", "WRITEBACK"}, state_q' = "EVICT", ~Ready,
           NEW decoded, NEW take \in BOOLEAN, Clock(decoded, take)
    PROVE  Evicting' /\ pmem' = pmem
<1>1. BusIdle' /\ pmem' = pmem
  BY CoreQuiet
<1>2. m_q' = m_q
  BY Waits
<1>3. data' = data
  <2>1. state_q = "LOOKUP" => Core!Miss
    BY DEF Ready
  <2>2. \A way \in Core!Ways : ~Fills(way, AckFor(TRUE)) /\ ~StoresTo(way)
    BY <2>1, NoHit DEF Fills, StoresTo
  <2> QED
    BY <2>2, Kept
<1>4. /\ state_q = "FLUSH" => flushing_q
      /\ state_q = "WRITEBACK" => ~flushing_q
      /\ state_q = "LOOKUP" => ~flushing_q
  BY TypedFacts DEF Modes
<1>5. ThisSet' = IF state_q = "FLUSH" THEN flush_addr_q ELSE Core!SetOf(m_q.addr)
  <2>1. /\ flushing_q' = flushing_q
        /\ state_q = "FLUSH" => flush_addr_q' = flush_addr_q
    BY FlushNext
  <2>2. Core!SetOf(m_q.addr)' = Core!SetOf(m_q.addr)
    BY <1>2 DEF Core!SetOf, Core!LineOf
  <2>3. ThisSet' = IF flushing_q' THEN flush_addr_q' ELSE Core!SetOf(m_q.addr)'
    BY DEF ThisSet, Core!ActiveSet
  <2>4. CASE state_q = "FLUSH"
    BY <1>4, <2>1, <2>3, <2>4
  <2>5. CASE state_q # "FLUSH"
    BY <1>4, <2>1, <2>2, <2>3, <2>5
  <2> QED
    BY <2>4, <2>5
<1>6. Core!DataAddr(ToCore, state_q') = <<ThisSet', 0>>
  BY <1>5 DEF Core!DataAddr
<1>7. data_write_q' = 1 % LineWords
  BY CoreNext DEF Core!Edge, Core!DataRams
<1>8. \A way \in Core!Ways : data_out'[way] = data[way][<<ThisSet', 0>>]
  <2>1. data_out' = [way \in Core!Ways |-> data[way][Core!DataAddr(ToCore, state_q')]]
    BY CoreNext DEF Core!Edge, Core!DataRams
  <2> QED
    BY <1>6, <2>1
<1>9. pmem_wr0_q' /\ pmem_len_q' = LineWords - 1
  BY CoreNext DEF Core!Edge, Core!Bus
<1>10. skid' = <<>>
  <2>1. ~Core!PmemWr /\ skid = <<>>
    BY Quiet, TypedFacts DEF Modes
  <2> QED
    BY <2>1, CoreNext DEF Core!Edge, Core!Bus
<1>11. Due(0)'
  <2>1. replace_way_q' \in Core!Ways
    BY WayNext
  <2>2. data_out'[replace_way_q'] = data'[replace_way_q'][<<ThisSet', 0>>]
    BY <1>3, <1>8, <2>1
  <2>3. 0 + 1 \in 1 .. LineWords /\ (0 + 1) - 1 = 0
    BY Sizes
  <2>4. Line'[0 + 1] = data'[replace_way_q'][<<ThisSet', (0 + 1) - 1>>]
    BY <2>3 DEF Line
  <2> QED
    BY <1>10, <2>2, <2>3, <2>4 DEF Due
<1>12. Sending(0)'
  <2>1. 0 \in 0 .. 0 /\ 0 \in 0 .. (LineWords - 1)
    BY Sizes
  <2>2. Handed(0, 0)'
    BY <1>1, <2>1 DEF Handed, BusIdle, NoBurst
  <2> QED
    BY <2>1, <2>2 DEF Sending
<1>13. 0 \in Offsets /\ LineWords - 1 - 0 = LineWords - 1 /\ 0 + 1 = 1
  BY Sizes DEF Offsets
<1>14. EvictingAt(0)'
  BY <1>7, <1>9, <1>11, <1>12, <1>13 DEF EvictingAt
<1> QED
  BY <1>1, <1>13, <1>14 DEF Evicting

LEMMA EnterRefill ==
    ASSUME DcacheInv, NEW o \in Operations, CoreOwes(o),
           state_q \notin {"REFILL", "EVICT"}, state_q' = "REFILL", ~Ready,
           u_req = <<>>, burst = NoBurst, owes' = <<>>,
           NEW decoded, NEW take \in BOOLEAN, Clock(decoded, take)
    PROVE  Reading' /\ ~pmem_rd_q' /\ skid' = <<>> /\ data_write_q' = 0
<1>1. m_q' = m_q
  BY Waits
<1>2. PmemAccept(TRUE)
  <2>1. Len(u_req) # FifoDepth
    BY DEF FifoDepth
  <2> QED
    BY <2>1, Inside
<1>3. Core!PmemRd(state_q')
  BY DEF Core!PmemRd
<1>4. data_write_q' = 0 /\ ~pmem_rd_q' /\ skid' = <<>> /\ pmem_len_q' = LineWords - 1
  BY <1>2, <1>3, CoreNext DEF Core!Edge, Core!Bus, Core!DataRams
<1>5. ~take /\ burst' = NoBurst
  BY BusRests
<1>6. Core!PmemRequests(state_q')
        = <<[rd |-> TRUE, len |-> LineWords - 1, addr |-> Base, data |-> 0]>>
  BY <1>3 DEF Core!PmemRequests, Base
<1>7. u_req' = <<[rd |-> TRUE, len |-> LineWords - 1, addr |-> Base, data |-> 0]>>
  <2>1. Len(u_req) # FifoDepth
    BY DEF FifoDepth
  <2>2. u_req' = <<>> \o Core!PmemRequests(state_q')
    BY <1>5, <2>1, CoreFifo
  <2> QED
    BY <1>6, <2>2, OneItem
<1>8. Base' = Base
  BY <1>1 DEF Base, Core!LineAddr, Core!TagOf, Core!SetOf, Core!LineOf
<1>9. 0 \in Offsets /\ LineWords - 1 - 0 = LineWords - 1
  BY Sizes DEF Offsets
<1>10. ReadingAt(0)'
  BY <1>4, <1>5, <1>7, <1>8, <1>9 DEF ReadingAt, NoBurst
<1> QED
  BY <1>4, <1>9, <1>10 DEF Reading

LEMMA HitMeans ==
    ASSUME DcacheInv, state_q \notin {"RESET", "FLUSH_ADDR"},
           state_q = "LOOKUP" => Core!Accesses
    PROVE  /\ \A way \in Core!Ways : tag_out[way] = tags[way][ThisSet]
           /\ ~flushing_q => /\ ThisSet = Core!SetOf(m_q.addr)
                             /\ \A way \in Core!Ways : Core!Hit(way) <=> Holds(way, m_q.addr)
<1>1. \A way \in Core!Ways : tag_out[way] = tags[way][ThisSet]
  BY TypedFacts DEF Outputs
<1>2. ~flushing_q => ThisSet = Core!SetOf(m_q.addr)
  BY DEF ThisSet, Core!ActiveSet
<1> QED
  BY <1>1, <1>2 DEF Core!Hit, Holds

LEMMA EvictWires ==
    ASSUME DcacheInv, state_q \in {"EVICT", "EVICT_WAIT"}, m_q \in Operations
    PROVE  /\ Core!IsDirty(replace_way_q) /\ Core!DirtyAny
           /\ Core!EvictWay \/ m_q.op = "DWRITEBACK"
           /\ flushing_q => Core!EvictWay
           /\ tag_out[replace_way_q] = Held
<1>1. /\ \A way \in Core!Ways : tag_out[way] = tags[way][ThisSet]
      /\ ~flushing_q => \A way \in Core!Ways : Core!Hit(way) <=> Holds(way, m_q.addr)
      /\ replace_way_q \in Core!Ways
  BY HitMeans, TypedFacts
<1>2. tag_out[replace_way_q] = Held
  BY <1>1 DEF Held
<1>3. Core!IsDirty(replace_way_q) /\ Core!DirtyAny
  BY <1>1, <1>2, TypedFacts DEF Chosen, Core!IsDirty, Core!DirtyAny
<1>4. m_q.op \in {"LOAD", "STORE"} /\ ~flushing_q => ~Core!HitAny
  BY <1>1, TypedFacts DEF Chosen, Core!Accesses, Core!HitAny
<1>5. m_q.op = "DFLUSH" => flushing_q
  BY TypedFacts DEF Modes
<1>6. m_q.op \in {"LOAD", "STORE", "DFLUSH", "DWRITEBACK"}
  BY Names
<1> QED
  BY <1>2, <1>3, <1>4, <1>5, <1>6 DEF Core!EvictWay

\* While a line leaves, nothing about it changes.
LEMMA Frozen ==
    ASSUME DcacheInv, NEW o \in Operations, CoreOwes(o),
           state_q \in {"EVICT", "EVICT_WAIT"}, state_q = "EVICT_WAIT" => bus_ack = "NONE",
           NEW decoded, NEW take \in BOOLEAN, Clock(decoded, take)
    PROVE  /\ tags' = tags /\ data' = data /\ replace_way_q' = replace_way_q
           /\ flushing_q' = flushing_q /\ flush_addr_q' = flush_addr_q /\ m_q' = m_q
           /\ ThisSet' = ThisSet /\ Held' = Held /\ Victim' = Victim /\ Line' = Line
<1>1. AckFor(TRUE) = bus_ack /\ ~Ready
  BY Inside DEF Ready
<1>2. m_q' = m_q /\ m_q \in Operations
  BY <1>1, Waits
<1>3. tags' = tags /\ data' = data
  <2>1. ~Core!WritesTag(0, AckFor(TRUE)) /\ ~Core!WritesTag(1, AckFor(TRUE))
    BY <1>1 DEF Core!WritesTag
  <2>2. \A way \in Core!Ways : ~Fills(way, AckFor(TRUE)) /\ ~StoresTo(way)
    BY DEF Fills, StoresTo
  <2> QED
    BY <2>1, <2>2, Kept
<1>4. state_q' \in {"EVICT", "EVICT_WAIT"}
  BY <1>1, StateNext
<1>5. replace_way_q' = replace_way_q
  <2>1. flushing_q => Core!EvictWay
    BY <1>2, EvictWires
  <2> QED
    BY <1>4, <2>1, CoreNext DEF Core!Edge, Core!Replacement
<1>6. flushing_q' = flushing_q /\ flush_addr_q' = flush_addr_q
  BY FlushNext
<1>7. ThisSet' = ThisSet
  BY <1>2, <1>6 DEF ThisSet, Core!ActiveSet, Core!SetOf, Core!LineOf
<1>8. Held' = Held
  BY <1>3, <1>5, <1>7 DEF Held
<1>9. Victim' = Victim
  BY <1>7, <1>8 DEF Victim, Core!LineAddr
<1>10. Line' = Line
  BY <1>3, <1>5, <1>7 DEF Line
<1> QED
  BY <1>2, <1>3, <1>5, <1>6, <1>7, <1>8, <1>9, <1>10

\* The words with the bus are the first of the line.
LEMMA SentNext ==
    ASSUME NEW n \in Nat, NEW k \in 0 .. (LineWords - 1), Handed(n, k), u_req # <<>>
    PROVE  /\ Head(u_req) = Beat(k + 1)
           /\ Sent = [addr |-> Victim, len |-> LineWords - 1,
                      words |-> [i \in 1 .. (k + 1) |-> Line[i]]]
           /\ Complete <=> k + 1 = LineWords
<1>0. k \in Nat /\ LineWords \in Nat
  BY Sizes
<1>1. \/ u_req = <<Beat(k + 1)>>
      \/ u_req = <<Beat(k + 1), Beat(k + 2)>>
  BY DEF Handed
<1>2. Head(u_req) = Beat(k + 1)
  <2>1. \A x, y : Head(<<x>>) = x /\ Head(<<x, y>>) = x
    OBVIOUS
  <2> QED
    BY <1>1, <2>1
<1>3. Beat(k + 1).addr = Victim /\ Beat(k + 1).data = Line[k + 1]
      /\ (k = 0 => Beat(k + 1).len = LineWords - 1)
  BY <1>0 DEF Beat
<1> DEFINE first == [i \in 1 .. k |-> Line[i]]
           words == [i \in 1 .. (k + 1) |-> Line[i]]
<1>4. Len(words) = k + 1
  BY <1>0
<1>5. Sent = [addr |-> Victim, len |-> LineWords - 1, words |-> words]
  <2>1. CASE k = 0
    <3>1. burst.words = <<>>
      BY <2>1 DEF Handed, NoBurst
    <3>2. words = <<Line[1]>>
      BY <2>1
    <3> QED
      BY <1>2, <1>3, <2>1, <3>1, <3>2 DEF Sent
  <2>2. CASE k # 0
    <3>1. burst = [addr |-> Victim, len |-> LineWords - 1, words |-> first]
      BY <2>2 DEF Handed
    <3>2. first # <<>>
      <4>1. Len(first) = k
        BY <1>0
      <4>2. Len(<<>>) = 0
        OBVIOUS
      <4> HIDE DEF first
      <4> QED
        BY <2>2, <4>1, <4>2
    <3>3. Append(first, Line[k + 1]) = words
      BY <1>0
    <3> HIDE DEF first, words
    <3>4. Sent = [burst EXCEPT !.words = Append(@, Line[k + 1])]
      BY <1>2, <1>3, <3>1, <3>2 DEF Sent
    <3> QED
      BY <3>1, <3>3, <3>4
  <2> QED
    BY <2>1, <2>2
<1> HIDE DEF words
<1>6. Complete <=> Len(words) = LineWords - 1 + 1
  BY <1>5 DEF Complete
<1>7. Complete <=> k + 1 = LineWords
  BY <1>0, <1>4, <1>6
<1> QED
  BY <1>2, <1>5, <1>7 DEF words

LEMMA TwoItems ==
    ASSUME NEW x, NEW y
    PROVE  /\ <<x, y>> # <<>> /\ Len(<<x, y>>) = 2 /\ Tail(<<x, y>>) = <<y>>
           /\ <<x>> \o <<y>> = <<x, y>> /\ <<x, y>> \o <<>> = <<x, y>>
<1>1. <<x, y>> # <<>> /\ Len(<<x, y>>) = 2 /\ <<x, y>> \o <<>> = <<x, y>>
  OBVIOUS
<1>2. Tail(<<x, y>>) = <<y>>
  OBVIOUS
<1>3. <<x>> \o <<y>> = <<x, y>>
  <2>1. <<x>> \o <<y>> = [i \in 1 .. 2 |-> IF i <= 1 THEN <<x>>[i] ELSE <<y>>[i - 1]]
    OBVIOUS
  <2>2. [i \in 1 .. 2 |-> IF i <= 1 THEN <<x>>[i] ELSE <<y>>[i - 1]] = <<x, y>>
    OBVIOUS
  <2> QED
    BY <2>1, <2>2
<1> QED
  BY <1>1, <1>2, <1>3

LEMMA Handing ==
    ASSUME DcacheInv, NEW o \in Operations, CoreOwes(o),
           state_q \in {"EVICT", "EVICT_WAIT"}, bus_ack = "NONE",
           NEW n \in 0 .. LineWords, NEW k \in 0 .. n, Handed(n, k),
           NEW decoded, NEW take \in BOOLEAN, Clock(decoded, take),
           NEW more \in BOOLEAN, more => n < LineWords /\ Len(u_req) # FifoDepth,
           u_req' = (IF take THEN Tail(u_req) ELSE u_req)
                    \o (IF more THEN <<Beat(n + 1)>> ELSE <<>>)
    PROVE  LET m == IF more THEN n + 1 ELSE n
           IN  /\ Sending(m)' \/ (m = LineWords /\ LineOwed')
               /\ pmem' = pmem
<1>0. n \in Nat /\ k \in Nat /\ LineWords \in Nat
  BY Sizes
<1>1. /\ k \in 0 .. (LineWords - 1) /\ owes = <<>>
      /\ \/ n = k     /\ u_req = <<>>
         \/ n = k + 1 /\ u_req = <<Beat(k + 1)>>
         \/ n = k + 2 /\ u_req = <<Beat(k + 1), Beat(k + 2)>>
  BY DEF Handed
<1>2. Victim' = Victim /\ Line' = Line
  BY Frozen
<1>3. pmem' = pmem
  BY DEF Clock, Slave
<1> DEFINE m == IF more THEN n + 1 ELSE n
<1>4. m \in 0 .. LineWords /\ (m = n \/ m = n + 1)
  BY <1>0
<1>5. \A i \in 1 .. LineWords : Beat(i)' = Beat(i)
  BY <1>2 DEF Beat
<1>6. CASE ~take
  <2>1. burst' = burst /\ owes' = <<>>
    <3>1. owes' = owes \o <<>>
      BY <1>6 DEF Clock, Slave
    <3> QED
      BY <1>1, <1>6, <3>1 DEF Clock, Slave
  <2>2. u_req' = u_req \o (IF more THEN <<Beat(n + 1)>> ELSE <<>>)
    BY <1>6
  <2>3. \/ m = k     /\ u_req' = <<>>
        \/ m = k + 1 /\ u_req' = <<Beat(k + 1)>>
        \/ m = k + 2 /\ u_req' = <<Beat(k + 1), Beat(k + 2)>>
    <3>1. CASE n = k /\ u_req = <<>>
      BY <2>2, <3>1, OneItem
    <3>2. CASE n = k + 1 /\ u_req = <<Beat(k + 1)>>
      <4>1. n + 1 = k + 2
        BY <1>0, <3>2
      <4> QED
        BY <2>2, <3>2, <4>1, OneItem, TwoItems
    <3>3. CASE n = k + 2 /\ u_req = <<Beat(k + 1), Beat(k + 2)>>
      <4>1. ~more
        BY <3>3, TwoItems DEF FifoDepth
      <4> QED
        BY <2>2, <3>3, <4>1, TwoItems
    <3> QED
      BY <1>1, <3>1, <3>2, <3>3
  <2> HIDE DEF m
  <2>4. \/ m = k     /\ u_req' = <<>>
        \/ m = k + 1 /\ u_req' = <<Beat(k + 1)>>'
        \/ m = k + 2 /\ u_req' = <<Beat(k + 1), Beat(k + 2)>>'
    <3>1. m = k + 1 => Beat(k + 1)' = Beat(k + 1)
      BY <1>0, <1>4, <1>5
    <3>2. m = k + 2 => Beat(k + 1)' = Beat(k + 1) /\ Beat(k + 2)' = Beat(k + 2)
      BY <1>0, <1>4, <1>5
    <3> QED
      BY <2>3, <3>1, <3>2
  <2>5. burst' = IF k = 0 THEN NoBurst
                 ELSE [addr |-> Victim', len |-> LineWords - 1,
                       words |-> [i \in 1 .. k |-> Line'[i]]]
    BY <1>2, <2>1 DEF Handed
  <2>6. Handed(m, k)'
    BY <1>1, <2>1, <2>4, <2>5 DEF Handed, NoBurst
  <2>7. k \in 0 .. m
    BY <1>0, <1>4
  <2>8. Sending(m)'
    BY <2>6, <2>7 DEF Sending
  <2> QED
    BY <1>3, <2>8 DEF m
<1>7. CASE take
  <2>1. u_req # <<>>
    BY <1>7 DEF Clock, CanTake
  <2>2. /\ Head(u_req) = Beat(k + 1)
        /\ Sent = [addr |-> Victim, len |-> LineWords - 1,
                   words |-> [i \in 1 .. (k + 1) |-> Line[i]]]
        /\ Complete <=> k + 1 = LineWords
    BY <1>0, <1>1, <2>1, SentNext
  <2>3. ~Head(u_req).rd
    BY <2>2 DEF Beat
  <2>4. u_req' = Tail(u_req) \o (IF more THEN <<Beat(n + 1)>> ELSE <<>>)
    BY <1>7
  <2>5. \/ m = k + 1 /\ u_req' = <<>>
        \/ m = k + 2 /\ u_req' = <<Beat(k + 2)>>
    <3>1. CASE n = k + 1 /\ u_req = <<Beat(k + 1)>>
      <4>1. n + 1 = k + 2
        BY <1>0, <3>1
      <4>2. Tail(u_req) = <<>> /\ <<>> \o <<Beat(k + 2)>> = <<Beat(k + 2)>> /\ <<>> \o <<>> = <<>>
        BY <3>1, OneItem
      <4>3. CASE more
        BY <2>4, <3>1, <4>1, <4>2, <4>3
      <4>4. CASE ~more
        BY <2>4, <3>1, <4>2, <4>4
      <4> QED
        BY <4>3, <4>4
    <3>2. CASE n = k + 2 /\ u_req = <<Beat(k + 1), Beat(k + 2)>>
      <4>1. ~more
        BY <3>2, TwoItems DEF FifoDepth
      <4> QED
        BY <2>4, <3>2, <4>1, OneItem, TwoItems
    <3> QED
      BY <1>1, <2>1, <3>1, <3>2
  <2> HIDE DEF m
  <2>6. m \in Nat /\ m <= LineWords /\ k + 2 = (k + 1) + 1
    BY <1>0, <1>4
  <2>7. CASE k + 1 = LineWords
    <3>1. m = LineWords /\ u_req' = <<>>
      <4>1. m # k + 2
        BY <1>0, <2>7, <2>6
      <4> QED
        BY <2>5, <2>7, <4>1
    <3>2. burst' = NoBurst
      BY <1>7, <2>2, <2>3, <2>7 DEF Clock, Slave
    <3>3. owes' = <<>> \o <<[rd |-> FALSE, addr |-> Sent.addr, left |-> 0,
                              words |-> Sent.words]>>
      BY <1>1, <1>7, <2>2, <2>3, <2>7 DEF Clock, Slave
    <3>4. Sent.addr = Victim /\ Sent.words = Line
      BY <2>2, <2>7 DEF Line
    <3>5. owes' = <<[rd |-> FALSE, addr |-> Victim', left |-> 0, words |-> Line']>>
      BY <1>2, <3>3, <3>4, OneItem
    <3>6. LineOwed'
      BY <3>1, <3>2, <3>5 DEF LineOwed, NoBurst
    <3> QED
      BY <1>3, <3>1, <3>6 DEF m
  <2>8. CASE k + 1 # LineWords
    <3>1. burst' = Sent /\ owes' = <<>>
      <4>1. burst' = Sent
        BY <1>7, <2>2, <2>3, <2>8 DEF Clock, Slave
      <4>2. owes' = <<>> \o <<>>
        BY <1>1, <1>7, <2>2, <2>3, <2>8 DEF Clock, Slave
      <4> QED
        BY <4>1, <4>2
    <3> DEFINE j == k + 1
    <3>2. j \in 0 .. (LineWords - 1) /\ j # 0 /\ j \in 0 .. m /\ k + 2 = j + 1
      <4>1. m = j \/ m = j + 1
        BY <2>5, <2>6
      <4>2. j \in Nat /\ j # 0 /\ j <= LineWords - 1
        BY <1>0, <1>1, <2>8
      <4> QED
        BY <1>0, <2>6, <4>1, <4>2
    <3>3. burst' = [addr |-> Victim', len |-> LineWords - 1,
                    words |-> [i \in 1 .. j |-> Line'[i]]]
      BY <1>2, <2>2, <3>1
    <3>4. \/ m = j /\ u_req' = <<>>
          \/ m = j + 1 /\ u_req' = <<Beat(j + 1)>>
      BY <2>5, <3>2
    <3> HIDE DEF j
    <3>5. \/ m = j /\ u_req' = <<>>
          \/ m = j + 1 /\ u_req' = <<Beat(j + 1)>>'
      <4>1. m = j + 1 => Beat(j + 1)' = Beat(j + 1)
        BY <1>0, <1>4, <1>5, <3>2
      <4> QED
        BY <3>4, <4>1
    <3>6. Handed(m, j)'
      BY <3>1, <3>2, <3>3, <3>5 DEF Handed, NoBurst
    <3>7. Sending(m)'
      BY <3>2, <3>6 DEF Sending
    <3> QED
      BY <1>3, <3>7 DEF m
  <2> QED
    BY <2>7, <2>8
<1> QED
  BY <1>6, <1>7

LEMMA EvictStep ==
    ASSUME DcacheInv, NEW o \in Operations, CoreOwes(o), state_q = "EVICT",
           NEW decoded, NEW take \in BOOLEAN, Clock(decoded, take)
    PROVE  /\ \/ state_q' = "EVICT" /\ Evicting'
              \/ state_q' = "EVICT_WAIT" /\ Evicted'
           /\ state_q' = "EVICT_WAIT" => skid' = <<>>
           /\ pmem' = pmem /\ ~pmem_rd_q'
<1>1. PICK n \in Offsets : EvictingAt(n)
  BY DEF CoreOwes, Traffic, Evicting
<1>2. n \in Nat /\ n <= LineWords - 1 /\ LineWords \in Nat /\ n \in 0 .. LineWords
      /\ LineWords >= 2 /\ LineWords <= 256
  BY Sizes DEF Offsets
<1>3. PICK k \in 0 .. n : Handed(n, k)
  BY <1>1 DEF EvictingAt, Sending
<1>4. /\ pmem_len_q = LineWords - 1 - n /\ data_write_q = (n + 1) % LineWords
      /\ (pmem_wr0_q <=> n = 0) /\ Due(n)
  BY <1>1 DEF EvictingAt
<1>5. bus_ack = "NONE"
  BY <1>3 DEF Handed, DcacheInv, Registers
<1>6. m_q' = m_q /\ m_q \in Operations
  BY Waits DEF Ready
<1>7. /\ replace_way_q' = replace_way_q /\ Line' = Line /\ ThisSet' = ThisSet
      /\ replace_way_q \in Core!Ways
  BY Frozen, TypedFacts
<1>8. Core!PmemWr
  <2>1. Core!EvictWay \/ m_q.op = "DWRITEBACK"
    BY <1>6, EvictWires
  <2> QED
    BY <2>1 DEF Core!PmemWr
<1>9. state_q' = IF PmemAccept(TRUE) /\ Core!PmemLast THEN "EVICT_WAIT" ELSE "EVICT"
  BY StateNext
<1>10. ~Core!PmemRd(state_q')
  BY <1>9, TypedFacts DEF Core!PmemRd, Typed
<1>11. Core!PmemWriteData = Line[n + 1]
  BY <1>4 DEF Due, Core!PmemWriteData
<1>12. Core!PmemRequests(state_q') = <<Beat(n + 1)>>
  <2>1. tag_out[replace_way_q] = Held
    BY <1>6, EvictWires
  <2>2. Core!LineAddr(tag_out[replace_way_q].tag, Core!ActiveSet) = Victim
    BY <2>1 DEF Victim, ThisSet
  <2>3. pmem_wr0_q <=> n + 1 = 1
    BY <1>2, <1>4
  <2>4. Core!PmemRequests(state_q')
          = <<[rd |-> FALSE, len |-> IF pmem_wr0_q THEN LineWords - 1 ELSE 0,
               addr |-> Victim, data |-> Line[n + 1]]>>
    BY <1>8, <1>10, <1>11, <2>2 DEF Core!PmemRequests
  <2> QED
    BY <2>3, <2>4 DEF Beat
<1>13. PICK more \in BOOLEAN : more <=> PmemAccept(TRUE)
  OBVIOUS
<1> DEFINE m == IF more THEN n + 1 ELSE n
<1>14. /\ Sending(m)' \/ (m = LineWords /\ LineOwed')
       /\ pmem' = pmem
  <2>1. u_req' = (IF take THEN Tail(u_req) ELSE u_req)
                 \o (IF more THEN <<Beat(n + 1)>> ELSE <<>>)
    <3>1. more <=> Len(u_req) # FifoDepth
      BY <1>13, Inside
    <3>2. u_req' = (IF take THEN Tail(u_req) ELSE u_req)
                   \o (IF Len(u_req) # FifoDepth THEN <<Beat(n + 1)>> ELSE <<>>)
      BY <1>12, CoreFifo
    <3> QED
      BY <3>1, <3>2
  <2>2. more => n < LineWords /\ Len(u_req) # FifoDepth
    <3>1. more <=> Len(u_req) # FifoDepth
      BY <1>13, Inside
    <3>2. n < LineWords
      BY <1>2
    <3> QED
      BY <3>1, <3>2
  <2> QED
    BY <1>2, <1>3, <1>5, <2>1, <2>2, Handing
<1>15. /\ pmem_rd_q' = (Core!PmemRd(state_q') /\ ~PmemAccept(TRUE))
       /\ pmem_wr0_q' = (pmem_wr0_q /\ ~PmemAccept(TRUE))
       /\ pmem_len_q' = IF PmemAccept(TRUE) THEN (pmem_len_q + 255) % 256 ELSE pmem_len_q
       /\ skid' = IF PmemAccept(TRUE) THEN <<>> ELSE <<Core!PmemWriteData>>
  BY <1>8, <1>10, CoreNext DEF Core!Edge, Core!Bus
<1>16. /\ data_write_q' = IF PmemAccept(TRUE) THEN (data_write_q + 1) % LineWords
                          ELSE data_write_q
       /\ \A way \in Core!Ways : data_out'[way] = data[way][<<ThisSet, data_write_q>>]
  <2>1. Core!DataAddr(ToCore, state_q') = <<ThisSet, data_write_q>>
    BY DEF Core!DataAddr, ThisSet
  <2> QED
    BY <2>1, <1>9, CoreNext DEF Core!Edge, Core!DataRams
<1> HIDE DEF m
<1>17. ~pmem_rd_q'
  BY <1>10, <1>15
<1>18. CASE ~more
  <2>1. m = n /\ m # LineWords
    BY <1>2, <1>18 DEF m
  <2>2. Sending(n)'
    BY <1>14, <2>1
  <2>3. ~PmemAccept(TRUE) /\ state_q' = "EVICT"
    BY <1>9, <1>13, <1>18
  <2>4. Due(n)'
    BY <1>7, <1>11, <1>15, <2>3 DEF Due
  <2>5. EvictingAt(n)'
    BY <1>4, <1>15, <1>16, <2>2, <2>3, <2>4 DEF EvictingAt
  <2> QED
    BY <1>14, <1>17, <2>3, <2>5 DEF Evicting
<1>19. CASE more /\ n = LineWords - 1
  <2>1. m = LineWords
    BY <1>2, <1>19 DEF m
  <2>2. PmemAccept(TRUE) /\ Core!PmemLast
    <3>1. pmem_len_q = 0
      BY <1>2, <1>4, <1>19
    <3> QED
      BY <1>13, <1>19, <3>1 DEF Core!PmemLast
  <2>3. state_q' = "EVICT_WAIT" /\ skid' = <<>>
    BY <1>9, <1>15, <2>2
  <2>4. Evicted'
    BY <1>14, <2>1 DEF Evicted
  <2> QED
    BY <1>14, <1>17, <2>3, <2>4
<1>20. CASE more /\ n # LineWords - 1
  <2>1. m = n + 1 /\ n + 1 # LineWords /\ n + 1 \in Offsets
    BY <1>2, <1>20 DEF m, Offsets
  <2>2. Sending(n + 1)'
    BY <1>14, <2>1
  <2>3. PmemAccept(TRUE) /\ ~Core!PmemLast
    <3>1. pmem_len_q # 0
      BY <1>2, <1>4, <1>20
    <3> QED
      BY <1>13, <1>20, <3>1 DEF Core!PmemLast
  <2>4. state_q' = "EVICT"
    BY <1>9, <2>3
  <2>5. pmem_len_q' = LineWords - 1 - (n + 1) /\ ~pmem_wr0_q' /\ n + 1 # 0
    <3>1. pmem_len_q \in 1 .. 255
      BY <1>2, <1>4, <1>20
    <3>2. (pmem_len_q + 255) % 256 = pmem_len_q - 1
      BY <3>1
    <3>3. pmem_len_q' = pmem_len_q - 1 /\ ~pmem_wr0_q'
      BY <1>15, <2>3, <3>2
    <3> QED
      BY <1>2, <1>4, <3>3
  <2>6. data_write_q = n + 1
    <3>1. n + 1 \in 0 .. (LineWords - 1)
      BY <2>1 DEF Offsets
    <3> QED
      BY <1>2, <1>4, <3>1
  <2>7. data_write_q' = ((n + 1) + 1) % LineWords
    BY <1>16, <2>3, <2>6
  <2>8. Due(n + 1)'
    <3>1. skid' = <<>>
      BY <1>15, <2>3
    <3>2. data_out'[replace_way_q'] = data[replace_way_q][<<ThisSet, n + 1>>]
      BY <1>7, <1>16, <2>6
    <3>3. Line[(n + 1) + 1] = data[replace_way_q][<<ThisSet, n + 1>>]
      BY <2>1, WordOfLine
    <3> QED
      BY <1>7, <3>1, <3>2, <3>3 DEF Due
  <2>9. EvictingAt(n + 1)'
    BY <2>2, <2>5, <2>7, <2>8 DEF EvictingAt
  <2> QED
    BY <1>14, <1>17, <2>1, <2>4, <2>9 DEF Evicting
<1> QED
  BY <1>18, <1>19, <1>20

LEMMA EvictWaitStep ==
    ASSUME DcacheInv, NEW o \in Operations, CoreOwes(o), state_q = "EVICT_WAIT",
           NEW decoded, NEW take \in BOOLEAN, Clock(decoded, take)
    PROVE  /\ bus_ack = "NONE" => state_q' = "EVICT_WAIT" /\ Evicted' /\ pmem' = pmem
           /\ bus_ack # "NONE" => /\ u_req = <<>> /\ burst = NoBurst /\ owes' = <<>>
                                  /\ pmem' = [a \in Addr |->
                                                IF a \in Victim .. (Victim + LineWords - 1)
                                                THEN Line[a - Victim + 1] ELSE pmem[a]]
<1>1. AckFor(TRUE) = bus_ack
  BY Inside
<1>2. Evicted
  BY DEF CoreOwes, Traffic
<1>3. CASE bus_ack = "NONE"
  <2>1. state_q' = "EVICT_WAIT"
    BY <1>1, <1>3, StateNext
  <2>2. Core!PmemRequests(state_q') = <<>>
    BY <2>1, Quiet
  <2>3. u_req' = (IF take THEN Tail(u_req) ELSE u_req) \o <<>>
    BY <2>2, CoreFifo
  <2>4. CASE Sending(LineWords)
    <3>1. LineWords \in 0 .. LineWords /\ LineWords \in Nat
      BY Sizes
    <3>2. PICK k \in 0 .. LineWords : Handed(LineWords, k)
      BY <2>4 DEF Sending
    <3>3. /\ Sending(LineWords)' \/ LineOwed'
          /\ pmem' = pmem
      <4> DEFINE more == FALSE
      <4>1. u_req' = (IF take THEN Tail(u_req) ELSE u_req)
                     \o (IF more THEN <<Beat(LineWords + 1)>> ELSE <<>>)
        BY <2>3
      <4>2. more \in BOOLEAN /\ (more => LineWords < LineWords /\ Len(u_req) # FifoDepth)
            /\ ~more
        OBVIOUS
      <4> HIDE DEF more
      <4> QED
        BY <1>3, <3>1, <3>2, <4>1, <4>2, Handing
    <3> QED
      BY <1>3, <2>1, <3>3 DEF Evicted
  <2>5. CASE LineOwed
    <3>1. u_req = <<>> /\ burst = NoBurst
      BY <2>5 DEF LineOwed
    <3>2. ~take /\ burst' = NoBurst /\ owes' = owes /\ pmem' = pmem
      BY <1>3, <3>1, BusRests
    <3>3. u_req' = <<>>
      BY <2>3, <3>1, <3>2
    <3>4. Victim' = Victim /\ Line' = Line
      BY <1>3, Frozen
    <3>5. LineOwed'
      BY <2>5, <3>2, <3>3, <3>4 DEF LineOwed, NoBurst
    <3> QED
      BY <1>3, <2>1, <3>2, <3>5 DEF Evicted
  <2> QED
    BY <1>2, <2>4, <2>5 DEF Evicted
<1>4. CASE bus_ack # "NONE"
  <2>1. owes # <<>>
    BY <1>4 DEF DcacheInv, Registers
  <2>2. LineOwed
    BY <1>2, <2>1 DEF Evicted, Sending, Handed
  <2> DEFINE d == [rd |-> FALSE, addr |-> Victim, left |-> 0, words |-> Line]
  <2>3. u_req = <<>> /\ burst = NoBurst /\ owes = <<d>>
    BY <2>2 DEF LineOwed
  <2>4. d.addr = Victim /\ d.words = Line /\ ~d.rd
    OBVIOUS
  <2>5. Len(Line) = LineWords
    BY Sizes DEF Line
  <2> HIDE DEF d
  <2>6. Head(owes) = d /\ Tail(owes) = <<>> /\ ~take
    BY <2>3, OneItem, BusRests
  <2>7. owes' = Tail(owes) \o <<>>
    BY <1>4, <2>4, <2>6 DEF Clock, Slave
  <2>8. pmem' = Performed
    BY <1>4, <2>4, <2>6 DEF Clock, Slave
  <2>9. Performed = [a \in Addr |-> IF a \in Victim .. (Victim + LineWords - 1)
                                    THEN Line[a - Victim + 1] ELSE pmem[a]]
    BY <2>4, <2>5, <2>6 DEF Performed
  <2> QED
    BY <1>4, <2>3, <2>6, <2>7, <2>8, <2>9
<1> QED
  BY <1>3, <1>4

LEMMA WordTaken ==
    ASSUME NEW x, NEW y, NEW d, NEW e,
           d = [rd |-> TRUE, addr |-> x, left |-> y, words |-> <<>>],
           e = [d EXCEPT !.addr = @ + 1, !.left = @ - 1]
    PROVE  e = [rd |-> TRUE, addr |-> x + 1, left |-> y - 1, words |-> <<>>]
<1>1. DOMAIN e = {"rd", "addr", "left", "words"}
  OBVIOUS
<1>2. e.rd = TRUE /\ e.addr = x + 1 /\ e.left = y - 1 /\ e.words = <<>>
  OBVIOUS
<1> QED
  BY <1>1, <1>2

LEMMA RefillStep ==
    ASSUME DcacheInv, NEW o \in Operations, CoreOwes(o), state_q = "REFILL",
           NEW decoded, NEW take \in BOOLEAN, Clock(decoded, take)
    PROVE  /\ pmem' = pmem /\ skid' = <<>> /\ ~pmem_rd_q'
           /\ Core!PmemLast <=> data_write_q = LineWords - 1
           /\ bus_ack = "NONE" => /\ state_q' = "REFILL" /\ Reading'
                                  /\ data_write_q' = data_write_q
           /\ bus_ack # "NONE" =>
                /\ BusData = pmem[Base + data_write_q]
                /\ ~Core!PmemLast => /\ state_q' = "REFILL" /\ Reading'
                                     /\ data_write_q' = data_write_q + 1
                /\ Core!PmemLast => /\ state_q' = IF m_q.op = "STORE" THEN "WRITE" ELSE "READ"
                                    /\ BusIdle'
<1> DEFINE ask     == [rd |-> TRUE, len |-> LineWords - 1, addr |-> Base, data |-> 0]
           debt(k) == [rd |-> TRUE, addr |-> Base + k, left |-> LineWords - 1 - k,
                       words |-> <<>>]
<1>1. PICK k \in Offsets : ReadingAt(k)
  BY DEF CoreOwes, Traffic, Reading
<1>2. k \in Nat /\ k <= LineWords - 1 /\ LineWords \in Nat /\ LineWords >= 2
      /\ LineWords <= 256
  BY Sizes DEF Offsets
<1>3. /\ data_write_q = k /\ pmem_len_q = LineWords - 1 - k /\ burst = NoBurst
      /\ \/ k = 0 /\ owes = <<>> /\ u_req = <<ask>>
         \/ u_req = <<>> /\ owes = <<debt(k)>>
  BY <1>1 DEF ReadingAt
<1>4. m_q' = m_q
  BY Waits DEF Ready
<1>5. Base' = Base /\ Base \in Nat
  <2>1. m_q.addr \in Nat
    BY AskingType, TypedFacts DEF Typed
  <2> QED
    BY <1>4, <2>1, Place DEF Base, First, Core!LineAddr, Core!TagOf, Core!SetOf, Core!LineOf
<1>6. AckFor(TRUE) = bus_ack
  BY Inside
<1>7. Core!PmemLast <=> k = LineWords - 1
  BY <1>2, <1>3 DEF Core!PmemLast
<1>8. /\ Core!PmemRequests(state_q') = <<>> /\ ~Core!PmemWr /\ ~Core!PmemRd(state_q')
      /\ skid = <<>>
  BY Quiet, TypedFacts DEF Modes
<1>9. skid' = <<>> /\ ~pmem_rd_q'
  BY <1>8, CoreNext DEF Core!Edge, Core!Bus
<1>10. /\ pmem_len_q' = IF bus_ack # "NONE" THEN (pmem_len_q + 255) % 256 ELSE pmem_len_q
       /\ data_write_q' = IF bus_ack # "NONE" THEN (data_write_q + 1) % LineWords
                          ELSE data_write_q
  <2>1. state_q' \in {"REFILL", "WRITE", "READ"}
    BY StateNext
  <2>2. Core!Bus(state_q', PmemAccept(TRUE), bus_ack)
    BY <1>6, CoreNext DEF Core!Edge
  <2>3. data_write_q' = IF bus_ack # "NONE" THEN (data_write_q + 1) % LineWords
                        ELSE data_write_q
    BY <1>6, <2>1, CoreNext DEF Core!Edge, Core!DataRams
  <2> QED
    BY <1>8, <2>1, <2>2, <2>3 DEF Core!Bus
<1>11. u_req' = (IF take THEN Tail(u_req) ELSE u_req) \o <<>>
  BY <1>8, CoreFifo
<1>12. ask.rd /\ ask.addr = Base /\ ask.len = LineWords - 1 /\ debt(k).rd
       /\ debt(k).addr = Base + k /\ debt(k).left = LineWords - 1 - k
  OBVIOUS
<1>13. ASSUME ReadingAt(k)', state_q' = "REFILL" PROVE Reading'
  BY <1>13 DEF Reading
<1> HIDE DEF ask, debt
<1>14. CASE k = 0 /\ owes = <<>> /\ u_req = <<ask>>
  <2>1. bus_ack = "NONE"
    BY <1>14 DEF DcacheInv, Registers
  <2>2. state_q' = "REFILL" /\ pmem' = pmem
    <3>1. state_q' = "REFILL"
      BY <1>6, <2>1, StateNext
    <3> QED
      BY <2>1, <3>1 DEF Clock, Slave
  <2>3. CASE take
    <3>1. u_req' = <<>> /\ Head(u_req) = ask
      BY <1>11, <1>14, <2>3, OneItem
    <3>2. owes' = <<>> \o <<[rd |-> TRUE, addr |-> ask.addr, left |-> ask.len,
                              words |-> <<>>]>>
      BY <1>12, <1>14, <2>1, <2>3, <3>1 DEF Clock, Slave
    <3>3. [rd |-> TRUE, addr |-> ask.addr, left |-> ask.len, words |-> <<>>] = debt(k)
      BY <1>2, <1>5, <1>12, <1>14 DEF debt
    <3>4. burst' = burst
      BY <1>12, <2>3, <3>1 DEF Clock, Slave
    <3>5. owes' = <<debt(k)>>'
      BY <1>5, <3>2, <3>3, OneItem DEF debt
    <3>6. ReadingAt(k)'
      BY <1>3, <1>10, <2>1, <3>1, <3>4, <3>5 DEF ReadingAt, NoBurst, debt
    <3> QED
      BY <1>3, <1>7, <1>9, <1>10, <1>13, <2>1, <2>2, <3>6
  <2>4. CASE ~take
    <3>1. u_req' = <<ask>>
      BY <1>11, <1>14, <2>4, OneItem
    <3>2. burst' = burst
      BY <2>4 DEF Clock, Slave
    <3>3. owes' = <<>> \o <<>>
      BY <1>14, <2>1, <2>4 DEF Clock, Slave
    <3>4. u_req' = <<ask>>'
      BY <1>5, <3>1 DEF ask
    <3>5. ReadingAt(k)'
      BY <1>3, <1>10, <1>14, <2>1, <3>2, <3>3, <3>4 DEF ReadingAt, NoBurst, ask
    <3> QED
      BY <1>3, <1>7, <1>9, <1>10, <1>13, <2>1, <2>2, <3>5
  <2> QED
    BY <2>3, <2>4
<1>15. CASE u_req = <<>> /\ owes = <<debt(k)>>
  <2>1. Head(owes) = debt(k) /\ Tail(owes) = <<>> /\ owes # <<>>
    BY <1>15, OneItem
  <2>2. ~take /\ burst' = NoBurst
    BY <1>3, <1>15, BusRests
  <2>3. u_req' = <<>>
    BY <1>11, <1>15, <2>2
  <2>4. pmem' = pmem
    BY <1>12, <2>1 DEF Clock, Slave
  <2>5. CASE bus_ack = "NONE"
    <3>1. owes' = owes
      BY <1>15, <2>5, BusRests
    <3>2. state_q' = "REFILL"
      BY <1>6, <2>5, StateNext
    <3>3. owes' = <<debt(k)>>'
      BY <1>5, <1>15, <3>1 DEF debt
    <3>4. ReadingAt(k)'
      BY <1>3, <1>10, <2>2, <2>3, <2>5, <3>3 DEF ReadingAt, NoBurst, debt
    <3> QED
      BY <1>3, <1>7, <1>9, <1>10, <1>13, <2>4, <2>5, <3>2, <3>4
  <2>6. CASE bus_ack # "NONE"
    <3>1. BusData = pmem[Base + data_write_q]
      BY <1>3, <1>12, <2>1 DEF BusData
    <3>2. CASE k # LineWords - 1
      <4>1. state_q' = "REFILL"
        BY <1>6, <1>7, <3>2, StateNext
      <4>2. debt(k).left > 0
        BY <1>2, <1>12, <3>2
      <4>3. owes' = (<<[debt(k) EXCEPT !.addr = @ + 1, !.left = @ - 1]>> \o <<>>) \o <<>>
        BY <1>12, <2>1, <2>2, <2>6, <4>2 DEF Clock, Slave
      <4>4. [debt(k) EXCEPT !.addr = @ + 1, !.left = @ - 1]
              = [rd |-> TRUE, addr |-> (Base + k) + 1, left |-> (LineWords - 1 - k) - 1,
                 words |-> <<>>]
        BY WordTaken DEF debt
      <4>5. /\ (Base + k) + 1 = Base + (k + 1)
            /\ (LineWords - 1 - k) - 1 = LineWords - 1 - (k + 1)
            /\ k + 1 \in Offsets /\ k + 1 # 0
        BY <1>2, <1>5, <3>2 DEF Offsets
      <4>6. owes' = <<debt(k + 1)>>'
        <5>1. owes' = <<[rd |-> TRUE, addr |-> Base + (k + 1), left |-> LineWords - 1 - (k + 1),
                         words |-> <<>>]>>
          BY <4>3, <4>4, <4>5, OneItem
        <5> QED
          BY <1>5, <5>1 DEF debt
      <4>7. data_write_q' = k + 1
        <5>1. (k + 1) % LineWords = k + 1
          BY <1>2, <4>5 DEF Offsets
        <5> QED
          BY <1>3, <1>10, <2>6, <5>1
      <4>8. pmem_len_q' = LineWords - 1 - (k + 1)
        <5>1. pmem_len_q \in 1 .. 255
          BY <1>2, <1>3, <3>2
        <5>2. (pmem_len_q + 255) % 256 = pmem_len_q - 1
          BY <5>1
        <5> QED
          BY <1>2, <1>3, <1>10, <2>6, <5>2
      <4>9. ReadingAt(k + 1)'
        BY <2>2, <2>3, <4>6, <4>7, <4>8 DEF ReadingAt, NoBurst, debt
      <4>10. Reading'
        BY <4>5, <4>9 DEF Reading
      <4> QED
        BY <1>3, <1>7, <1>9, <2>4, <2>6, <3>1, <3>2, <4>1, <4>7, <4>10
    <3>3. CASE k = LineWords - 1
      <4>1. state_q' = IF m_q.op = "STORE" THEN "WRITE" ELSE "READ"
        BY <1>6, <1>7, <2>6, <3>3, StateNext
      <4>2. ~(debt(k).left > 0)
        BY <1>2, <1>12, <3>3
      <4>3. owes' = <<>> \o <<>>
        BY <1>12, <2>1, <2>2, <2>6, <4>2 DEF Clock, Slave
      <4>4. BusIdle'
        BY <2>2, <2>3, <4>3 DEF BusIdle, NoBurst
      <4> QED
        BY <1>3, <1>7, <1>9, <2>4, <2>6, <3>1, <3>3, <4>1, <4>4
    <3> QED
      BY <3>2, <3>3
  <2> QED
    BY <2>5, <2>6
<1> QED
  BY <1>3, <1>14, <1>15

LEMMA SkidNext ==
    ASSUME DcacheInv, NEW decoded, NEW take \in BOOLEAN, Clock(decoded, take)
    PROVE  /\ state_q # "EVICT" => skid' = <<>>
           /\ state_q # "EVICT" /\ state_q' # "REFILL" => ~pmem_rd_q'
<1>1. ASSUME state_q # "EVICT"
      PROVE  skid' = <<>>
  <2>1. skid = <<>> /\ ~Core!PmemWr
    BY <1>1, TypedFacts DEF Modes, Core!PmemWr
  <2> QED
    BY <2>1, CoreNext DEF Core!Edge, Core!Bus
<1>2. ASSUME state_q # "EVICT", state_q' # "REFILL"
      PROVE  ~pmem_rd_q'
  <2>1. ~Core!PmemRd(state_q')
    BY <1>2, Quiet
  <2> QED
    BY <2>1, CoreNext DEF Core!Edge, Core!Bus
<1> QED
  BY <1>1, <1>2

LEMMA FromBusy ==
    ASSUME DcacheInv, NEW o \in Operations, CoreOwes(o), ~Ready,
           NEW decoded, NEW take \in BOOLEAN, Clock(decoded, take)
    PROVE  Sides' /\ ~pmem_rd_q' /\ (state_q' # "EVICT" => skid' = <<>>)
<1>1. Traffic /\ state_q # "RESET" /\ state_q \in
        {"FLUSH_ADDR", "FLUSH", "LOOKUP", "REFILL", "WRITE", "READ", "EVICT", "EVICT_WAIT",
         "WRITEBACK"}
  BY TypedFacts DEF CoreOwes, Modes
<1>2. state_q = "LOOKUP" => Core!Miss
  BY DEF Ready
<1>3. AckFor(TRUE) = bus_ack
  BY Inside
<1>4. SUFFICES Traffic' /\ ~pmem_rd_q' /\ (state_q' # "EVICT" => skid' = <<>>)
  BY CoreStays
<1>5. CASE state_q \in {"LOOKUP", "FLUSH_ADDR", "FLUSH", "WRITE", "READ", "WRITEBACK"}
  <2>1. BusIdle
    BY <1>1, <1>5 DEF Traffic
  <2>2. state_q' \in {"EVICT", "REFILL", "FLUSH", "FLUSH_ADDR", "LOOKUP"}
        /\ (state_q' = "EVICT" => state_q \in {"LOOKUP", "FLUSH", "WRITEBACK"})
    BY <1>2, <1>5, StateNext
  <2>3. skid' = <<>>
    BY <1>5, SkidNext
  <2>4. CASE state_q' = "EVICT"
    <3>1. Evicting'
      BY <2>1, <2>2, <2>4, EnterEvict
    <3>2. ~pmem_rd_q'
      BY <1>5, <2>4, SkidNext
    <3> QED
      BY <2>3, <2>4, <3>1, <3>2 DEF Traffic
  <2>5. CASE state_q' = "REFILL"
    <3>1. u_req = <<>> /\ burst = NoBurst /\ owes = <<>> /\ bus_ack = "NONE"
      BY <2>1 DEF BusIdle, DcacheInv, Registers
    <3>2. owes' = <<>>
      BY <3>1, BusRests
    <3>3. Reading' /\ ~pmem_rd_q'
      BY <1>5, <2>5, <3>1, <3>2, EnterRefill
    <3> QED
      BY <2>3, <2>5, <3>3 DEF Traffic
  <2>6. CASE state_q' \in {"FLUSH", "FLUSH_ADDR", "LOOKUP"}
    <3>1. BusIdle'
      BY <1>5, <2>1, <2>6, CoreQuiet
    <3>2. ~pmem_rd_q'
      BY <1>5, <2>6, SkidNext
    <3> QED
      BY <2>3, <2>6, <3>1, <3>2 DEF Traffic
  <2> QED
    BY <2>2, <2>4, <2>5, <2>6
<1>6. CASE state_q = "EVICT"
  BY <1>6, EvictStep DEF Traffic
<1>7. CASE state_q = "EVICT_WAIT"
  <2>1. skid' = <<>>
    BY <1>7, SkidNext
  <2>2. CASE bus_ack = "NONE"
    <3>1. state_q' = "EVICT_WAIT" /\ Evicted'
      BY <1>7, <2>2, EvictWaitStep
    <3>2. ~pmem_rd_q'
      BY <1>7, <3>1, SkidNext
    <3> QED
      BY <2>1, <3>1, <3>2 DEF Traffic
  <2>3. CASE bus_ack # "NONE"
    <3>1. u_req = <<>> /\ burst = NoBurst /\ owes' = <<>>
      BY <1>7, <2>3, EvictWaitStep
    <3>2. state_q' \in {"LOOKUP", "FLUSH_ADDR", "REFILL"}
      BY <1>3, <1>7, <2>3, StateNext
    <3>3. CASE state_q' = "REFILL"
      <4>1. Reading' /\ ~pmem_rd_q'
        BY <1>7, <3>1, <3>3, EnterRefill
      <4> QED
        BY <2>1, <3>3, <4>1 DEF Traffic
    <3>4. CASE state_q' # "REFILL"
      <4>1. ~pmem_rd_q'
        BY <1>7, <3>4, SkidNext
      <4>2. Core!PmemRequests(state_q') = <<>>
        BY <1>7, <3>4, Quiet
      <4>3. ~take /\ burst' = NoBurst
        BY <3>1, BusRests
      <4>4. u_req' = <<>> \o <<>>
        BY <3>1, <4>2, <4>3, CoreFifo
      <4>5. BusIdle'
        BY <3>1, <4>3, <4>4 DEF BusIdle, NoBurst
      <4> QED
        BY <2>1, <3>2, <3>4, <4>1, <4>5 DEF Traffic
    <3> QED
      BY <3>3, <3>4
  <2> QED
    BY <2>2, <2>3
<1>8. CASE state_q = "REFILL"
  <2>1. skid' = <<>> /\ ~pmem_rd_q'
    BY <1>8, RefillStep
  <2>2. \/ state_q' = "REFILL" /\ Reading'
        \/ state_q' \in {"WRITE", "READ"} /\ BusIdle'
    BY <1>8, RefillStep
  <2> QED
    BY <2>1, <2>2 DEF Traffic
<1> QED
  BY <1>1, <1>5, <1>6, <1>7, <1>8

-----------------------------------------------------------------------------
(***************************************************************************)
(* In every cycle somebody owes the answer, and only the cache changes the *)
(* cached part of memory.                                                  *)
(***************************************************************************)
LEMMA SidesNext ==
    ASSUME DcacheInv, NEW decoded, NEW take \in BOOLEAN, Clock(decoded, take)
    PROVE  Sides' /\ ~pmem_rd_q' /\ (state_q' # "EVICT" => skid' = <<>>)
<1>1. ASSUME CoreIdle, ~Taken \/ Ready
      PROVE  ~pmem_rd_q' /\ skid' = <<>>
  <2>1. state_q \in {"RESET", "LOOKUP"} /\ m_q = Core!NoRequest
    BY <1>1 DEF CoreIdle
  <2>2. state_q' # "REFILL"
    BY <2>1, ReadyNext, CoreAnswer, StateNext DEF Ready
  <2> QED
    BY <2>1, <2>2, SkidNext
<1>2. Taken => Ready
  BY TakeNext
<1>3. CASE NoneOwed
  BY <1>1, <1>2, <1>3, FromNone DEF NoneOwed
<1>4. ASSUME NEW o \in Operations, UncachedOwes(o)
      PROVE  Sides' /\ ~pmem_rd_q' /\ skid' = <<>>
  BY <1>1, <1>2, <1>4, FromPast DEF UncachedOwes
<1>5. ASSUME NEW o \in Operations, CoreOwes(o)
      PROVE  Sides' /\ ~pmem_rd_q' /\ (state_q' # "EVICT" => skid' = <<>>)
  <2>1. CASE Ready
    <3>1. state_q = "LOOKUP" /\ state_q' # "REFILL"
      BY <2>1, ReadyNext DEF Ready
    <3> QED
      BY <1>5, <2>1, <3>1, FromReady, SkidNext
  <2>2. CASE ~Ready
    BY <1>5, <2>2, FromBusy
  <2> QED
    BY <2>1, <2>2
<1> QED
  BY <1>3, <1>4, <1>5 DEF DcacheInv, Sides

-----------------------------------------------------------------------------
(***************************************************************************)
(* Memory, as the answers and as the bus leave it.                         *)
(***************************************************************************)
\* The line that leaves is a line of the cached part of memory.
LEMMA VictimLine ==
    ASSUME DcacheInv, state_q \in {"EVICT", "EVICT_WAIT"}
    PROVE  /\ Held.valid
           /\ \A b \in Addr : b \in Victim .. (Victim + LineWords - 1)
                <=> Core!SetOf(b) = ThisSet /\ Holds(replace_way_q, b)
           /\ \A b \in Addr : b \in Victim .. (Victim + LineWords - 1)
                => b \in CachedAddr /\ Line[b - Victim + 1] = InWay(replace_way_q, b)
<1>1. /\ Held.valid /\ Tagged /\ replace_way_q \in Core!Ways /\ ThisSet \in Core!Sets
  BY TypedFacts DEF Chosen, Contents, Lines
<1>2. PICK a \in CachedAddr : Core!SetOf(a) = ThisSet /\ Core!TagOf(a) = Held.tag
  BY <1>1 DEF Tagged, Held
<1>3. a \in Nat /\ Victim = First(a) /\ Victim \in Nat /\ LineWords \in Nat
  <2>1. a \in Nat
    BY Sizes
  <2>2. Victim = First(a)
    BY <1>2 DEF Victim, First
  <2> QED
    BY <2>1, <2>2, Place, Sizes
<1>4. ASSUME NEW b \in Addr
      PROVE  b \in Nat /\ (b \in Victim .. (Victim + LineWords - 1)
                <=> Core!SetOf(b) = ThisSet /\ Core!TagOf(b) = Held.tag)
  <2>1. b \in Nat
    BY Sizes
  <2> QED
    BY <1>2, <1>3, <2>1, SameLine
<1>5. ASSUME NEW b \in Addr
      PROVE  Core!SetOf(b) = ThisSet
               => (Holds(replace_way_q, b) <=> Core!TagOf(b) = Held.tag)
  BY <1>1 DEF Holds, Held
<1>6. ASSUME NEW b \in Addr, b \in Victim .. (Victim + LineWords - 1)
      PROVE  b \in CachedAddr /\ Line[b - Victim + 1] = InWay(replace_way_q, b)
  <2>1. PICK w \in Offsets : w = b - Victim
    BY <1>3, <1>4, <1>6 DEF Offsets
  <2>2. b = First(a) + w
    BY <1>3, <1>4, <2>1 DEF Offsets
  <2>3. b \in CachedAddr /\ Core!SetOf(b) = ThisSet /\ Core!WordOf(b) = w
    BY <1>2, <2>2, LinePlace
  <2>4. Line[w + 1] = data[replace_way_q][<<ThisSet, w>>]
    BY WordOfLine
  <2> QED
    BY <2>1, <2>3, <2>4 DEF InWay
<1> QED
  BY <1>1, <1>4, <1>5, <1>6

LEMMA MemoryNext ==
    ASSUME DcacheInv, NEW decoded, NEW take \in BOOLEAN, Clock(decoded, take)
    PROVE  /\ \A a \in CachedAddr :
                mem'[a] = IF Ready /\ m_q.op = "STORE" /\ m_q.addr = a THEN m_q.data
                          ELSE mem[a]
           /\ \A a \in CachedAddr :
                pmem'[a] = IF /\ state_q = "EVICT_WAIT" /\ bus_ack # "NONE"
                              /\ Core!SetOf(a) = ThisSet /\ Holds(replace_way_q, a)
                           THEN InWay(replace_way_q, a) ELSE pmem[a]
           /\ Beyond'
<1>0. /\ Beyond /\ CachedAddr \subseteq Addr /\ UncachedAddr \subseteq Addr
      /\ Addr \subseteq Words /\ \A a \in Addr : a \in CachedAddr <=> a \notin UncachedAddr
  BY Sizes, TypedFacts DEF Contents
<1>1. CASE NoneOwed
  <2>1. /\ m_q.op = "NONE" /\ state_q # "EVICT_WAIT" /\ MemAck = "NONE"
    BY <1>1, Neither DEF NoneOwed, CoreIdle, Core!NoRequest
  <2>2. mem' = mem /\ pmem' = pmem
    BY <1>1, <2>1, HistoryNext, FromNone
  <2> QED
    BY <1>0, <2>1, <2>2 DEF Beyond
<1>2. ASSUME NEW o \in Operations, UncachedOwes(o)
      PROVE  /\ \A a \in CachedAddr : pmem'[a] = pmem[a] /\ mem'[a] = mem[a]
             /\ Beyond' /\ m_q.op = "NONE" /\ state_q # "EVICT_WAIT"
  <2>1. /\ m_q.op = "NONE" /\ state_q # "EVICT_WAIT"
    BY <1>2 DEF UncachedOwes, CoreIdle, Core!NoRequest
  <2> QED
    BY <1>2, <2>1, FromPast DEF Beyond
<1>3. ASSUME NEW o \in Operations, CoreOwes(o), Ready
      PROVE  /\ \A a \in CachedAddr :
                  /\ mem'[a] = IF m_q.op = "STORE" /\ m_q.addr = a THEN m_q.data ELSE mem[a]
                  /\ pmem'[a] = pmem[a]
             /\ Beyond' /\ state_q # "EVICT_WAIT"
  <2>1. /\ pmem' = pmem
        /\ mem' = IF m_q.op = "STORE" THEN [mem EXCEPT ![m_q.addr] = m_q.data] ELSE mem
    BY <1>3, FromReady
  <2>2. mem \in [Words -> Words]
    BY DEF DcacheInv, LsuP!IInv, LsuP!Registers, Values
  <2>3. m_q.op = "STORE" => m_q.addr \in CachedAddr
    BY <1>3 DEF CoreOwes, Lsu!Aligned
  <2>4. \A a \in Addr : mem'[a] = IF m_q.op = "STORE" /\ m_q.addr = a THEN m_q.data ELSE mem[a]
    BY <1>0, <2>1, <2>2
  <2> QED
    BY <1>0, <1>3, <2>1, <2>3, <2>4 DEF Ready, Beyond
<1>4. ASSUME NEW o \in Operations, CoreOwes(o), ~Ready
      PROVE  /\ mem' = mem
             /\ \A a \in CachedAddr :
                  pmem'[a] = IF /\ state_q = "EVICT_WAIT" /\ bus_ack # "NONE"
                                /\ Core!SetOf(a) = ThisSet /\ Holds(replace_way_q, a)
                             THEN InWay(replace_way_q, a) ELSE pmem[a]
             /\ Beyond'
  <2>1. mem' = mem
    BY <1>4, Waits
  <2>2. CASE state_q = "EVICT_WAIT" /\ bus_ack # "NONE"
    <3>1. pmem' = [a \in Addr |-> IF a \in Victim .. (Victim + LineWords - 1)
                                  THEN Line[a - Victim + 1] ELSE pmem[a]]
      BY <1>4, <2>2, EvictWaitStep
    <3>2. \A a \in Addr : pmem'[a] = IF a \in Victim .. (Victim + LineWords - 1)
                                     THEN InWay(replace_way_q, a) ELSE pmem[a]
      BY <2>2, <3>1, VictimLine
    <3>3. \A a \in UncachedAddr : pmem'[a] = pmem[a]
      BY <1>0, <2>2, <3>2, VictimLine
    <3>4. \A a \in CachedAddr :
            pmem'[a] = IF Core!SetOf(a) = ThisSet /\ Holds(replace_way_q, a)
                       THEN InWay(replace_way_q, a) ELSE pmem[a]
      BY <1>0, <2>2, <3>2, VictimLine
    <3> QED
      BY <1>0, <2>1, <2>2, <3>3, <3>4 DEF Beyond
  <2>3. CASE ~(state_q = "EVICT_WAIT" /\ bus_ack # "NONE")
    <3>1. pmem' = pmem
      <4>1. Traffic /\ state_q # "RESET"
            /\ state_q \in {"FLUSH_ADDR", "FLUSH", "LOOKUP", "REFILL", "WRITE", "READ",
                            "EVICT", "EVICT_WAIT", "WRITEBACK"}
        BY <1>4, TypedFacts DEF CoreOwes, Modes
      <4>2. CASE state_q = "REFILL"
        BY <1>4, <4>2, RefillStep
      <4>3. CASE state_q = "EVICT"
        BY <1>4, <4>3, EvictStep
      <4>4. CASE state_q = "EVICT_WAIT"
        BY <1>4, <2>3, <4>4, EvictWaitStep
      <4>5. CASE state_q \notin {"REFILL", "EVICT", "EVICT_WAIT"}
        <5>1. u_req = <<>> /\ burst = NoBurst /\ owes = <<>>
          BY <4>1, <4>5 DEF Traffic, BusIdle
        <5>2. bus_ack = "NONE"
          BY <5>1 DEF DcacheInv, Registers
        <5> QED
          BY <5>1, <5>2, BusRests
      <4> QED
        BY <4>2, <4>3, <4>4, <4>5
    <3> QED
      BY <1>0, <2>1, <2>3, <3>1 DEF Beyond
  <2> QED
    BY <2>2, <2>3
<1> QED
  BY <1>1, <1>2, <1>3, <1>4 DEF DcacheInv, Sides

\* All words of memory, on both sides.
LEMMA PmemType ==
    ASSUME DcacheInv, NEW decoded, NEW take \in BOOLEAN, Clock(decoded, take)
    PROVE  pmem' \in [Addr -> Words]
<1>1. pmem \in [Addr -> Words]
  BY DEF DcacheInv, Registers
<1>2. pmem' = pmem \/ pmem' = Performed
  BY DEF Clock, Slave
<1>3. DOMAIN pmem' = Addr /\ pmem' = [a \in Addr |-> pmem'[a]]
  <2>1. CASE pmem' = pmem
    BY <1>1, <2>1
  <2>2. CASE pmem' = Performed
    BY <2>2 DEF Performed
  <2> QED
    BY <1>2, <2>1, <2>2
<1>4. \A a \in CachedAddr : pmem'[a] \in Words
  <2>1. ASSUME NEW a \in CachedAddr
        PROVE  InWay(replace_way_q, a) \in Words /\ pmem[a] \in Words
    <3>1. a \in Nat /\ a \in Addr
      BY Sizes
    <3>2. <<Core!SetOf(a), Core!WordOf(a)>> \in Core!Sets \X Offsets
      BY <3>1, Place
    <3> QED
      BY <1>1, <3>1, <3>2, TypedFacts DEF InWay, Typed
  <2> QED
    BY <2>1, MemoryNext
<1>5. \A a \in UncachedAddr : pmem'[a] = mem'[a]
  BY MemoryNext DEF Beyond
<1>6. mem' \in [Words -> Words]
  <2>1. mem \in [Words -> Words]
    BY DEF DcacheInv, LsuP!IInv, LsuP!Registers, Values
  <2>2. outst # <<>> => Head(outst) \in Operations
    BY OneItem DEF DcacheInv, Sides, NoneOwed, UncachedOwes, CoreOwes
  <2>3. MemAck # "NONE" => outst # <<>>
    BY Answers
  <2> QED
    BY <2>1, <2>2, <2>3, HistoryNext, Names
<1> QED
  BY <1>3, <1>4, <1>5, <1>6, Sizes DEF Addr

-----------------------------------------------------------------------------
(***************************************************************************)
(* What the cache is doing: clearing its tags after reset, ready, or busy  *)
(* with the request it owes.                                               *)
(***************************************************************************)
Busy == ~Ready /\ state_q # "RESET"

LEMMA Doing ==
    ASSUME DcacheInv
    PROVE  /\ state_q = "RESET" => m_q = Core!NoRequest /\ m_q.op = "NONE"
           /\ Busy => m_q \in Operations /\ \E o \in Operations : CoreOwes(o)
           /\ Busy => state_q \in {"FLUSH_ADDR", "FLUSH", "LOOKUP", "REFILL", "WRITE",
                                   "READ", "EVICT", "EVICT_WAIT", "WRITEBACK"}
           /\ Busy /\ state_q = "LOOKUP" => Core!Miss /\ Core!Accesses
           /\ Core!Accesses => m_q.addr \in CachedAddr
           /\ AckFor(TRUE) # "NONE" => AckFor(TRUE) = bus_ack
<1>1. CASE CoreIdle
  <2>1. m_q = Core!NoRequest /\ m_q.op = "NONE" /\ state_q \in {"RESET", "LOOKUP"}
    BY <1>1 DEF CoreIdle, Core!NoRequest
  <2>2. ~Busy
    BY <2>1, CoreAnswer DEF Busy, Ready
  <2> QED
    BY <2>1, <2>2 DEF Core!Accesses, AckFor
<1>2. ASSUME NEW o \in Operations, CoreOwes(o)
      PROVE  /\ m_q \in Operations /\ state_q # "RESET"
             /\ Core!Accesses => m_q.addr \in CachedAddr
  BY <1>2 DEF CoreOwes, Core!Accesses, Lsu!Aligned
<1>3. Busy => state_q \in {"FLUSH_ADDR", "FLUSH", "LOOKUP", "REFILL", "WRITE",
                           "READ", "EVICT", "EVICT_WAIT", "WRITEBACK"}
  BY TypedFacts DEF Modes, Busy
<1>4. Busy /\ state_q = "LOOKUP" => Core!Miss /\ Core!Accesses
  BY DEF Busy, Ready, Core!Miss
<1>5. AckFor(TRUE) # "NONE" => AckFor(TRUE) = bus_ack
  BY DEF AckFor
<1>6. CoreIdle \/ \E o \in Operations : CoreOwes(o)
  BY DEF DcacheInv, Sides, NoneOwed, UncachedOwes
<1> QED
  BY <1>1, <1>2, <1>3, <1>4, <1>5, <1>6

LEMMA RequestNext ==
    ASSUME DcacheInv, NEW decoded, NEW take \in BOOLEAN, Clock(decoded, take)
    PROVE  /\ ~Ready => m_q' = m_q
           /\ Ready => /\ m_q' = IF Taken THEN mem_q ELSE Core!NoRequest
                       /\ state_q' \in {"LOOKUP", "WRITEBACK", "FLUSH_ADDR"}
                       /\ state_q' = "WRITEBACK" <=> m_q'.op = "DWRITEBACK"
                       /\ state_q' = "FLUSH_ADDR" <=> m_q'.op = "DFLUSH"
                       /\ m_q' # Core!NoRequest => ToCore = m_q' /\ Core!MemAccept(ToCore)
           /\ m_q' \in Asking
<1>1. ~Ready => m_q' = m_q
  BY TakeNext
<1>2. ASSUME Ready
      PROVE  /\ m_q' = IF Taken THEN mem_q ELSE Core!NoRequest
             /\ state_q' \in {"LOOKUP", "WRITEBACK", "FLUSH_ADDR"}
             /\ state_q' = "WRITEBACK" <=> m_q'.op = "DWRITEBACK"
             /\ state_q' = "FLUSH_ADDR" <=> m_q'.op = "DFLUSH"
             /\ m_q' # Core!NoRequest => ToCore = m_q' /\ Core!MemAccept(ToCore)
  BY <1>2, TakeNext, ReadyNext, Names
<1>3. m_q' \in Asking
  BY TakeNext, TypedFacts DEF Typed, Asking
<1> QED
  BY <1>1, <1>2, <1>3

LEMMA BusDataType ==
    ASSUME DcacheInv
    PROVE  BusData \in Words
<1>1. 0 \in Words /\ CachedAddr \subseteq Addr /\ UncachedAddr \subseteq Addr
  BY Sizes
<1>2. pmem \in [Addr -> Words]
  BY DEF DcacheInv, Registers
<1>3. CASE NoneOwed
  BY <1>1, <1>3 DEF NoneOwed, BusIdle, BusData
<1>4. ASSUME NEW o \in Operations, UncachedOwes(o)
      PROVE  BusData \in Words
  <2>1. owes = <<>> \/ owes = <<Debt(o)>>
    BY <1>4 DEF UncachedOwes, Offering, Asked, BusIdle
  <2>2. Debt(o).addr = o.addr /\ o.addr \in Addr
    BY Names DEF Debt
  <2> QED
    BY <1>1, <1>2, <2>1, <2>2, OneItem DEF BusData
<1>5. ASSUME NEW o \in Operations, CoreOwes(o)
      PROVE  BusData \in Words
  <2>1. Traffic
    BY <1>5 DEF CoreOwes
  <2>2. CASE state_q = "REFILL"
    <3>1. PICK k \in Offsets : ReadingAt(k)
      BY <2>1, <2>2 DEF Traffic, Reading
    <3> DEFINE debt == [rd |-> TRUE, addr |-> Base + k, left |-> LineWords - 1 - k,
                        words |-> <<>>]
    <3>2. owes = <<>> \/ owes = <<debt>>
      BY <3>1 DEF ReadingAt
    <3>3. debt.addr \in Addr
      <4>1. m_q.addr \in CachedAddr
        BY <2>2, Doing, TypedFacts DEF Modes
      <4>2. First(m_q.addr) + k \in CachedAddr
        BY <4>1, LinePlace
      <4> QED
        BY <1>1, <4>2 DEF Base, First
    <3> HIDE DEF debt
    <3> QED
      BY <1>1, <1>2, <3>2, <3>3, OneItem DEF BusData
  <2>3. CASE state_q # "REFILL"
    <3> DEFINE debt == [rd |-> FALSE, addr |-> Victim, left |-> 0, words |-> Line]
    <3>1. owes = <<>> \/ owes = <<debt>>
      BY <2>1, <2>3 DEF Traffic, BusIdle, Evicting, EvictingAt, Evicted, Sending, Handed,
                        LineOwed
    <3>2. ~debt.rd
      OBVIOUS
    <3> HIDE DEF debt
    <3> QED
      BY <1>1, <3>1, <3>2, OneItem DEF BusData
  <2> QED
    BY <2>2, <2>3
<1> QED
  BY <1>3, <1>4, <1>5 DEF DcacheInv, Sides

LEMMA TypedNext ==
    ASSUME DcacheInv, NEW decoded, NEW take \in BOOLEAN, Clock(decoded, take)
    PROVE  Typed' /\ ToCore \in Asking /\ AckFor(TRUE) \in {"NONE", "OK"}
<1>1. ToCore \in Asking
  BY UnitState, Names DEF ToCore, Passed, Asking
<1>2. AckFor(TRUE) \in {"NONE", "OK"}
  BY DEF AckFor, DcacheInv, Registers
<1>3. ~pmem_rd_q'
  BY SidesNext
<1>4. Core!Edge(ToCore, PmemAccept(TRUE), AckFor(TRUE), BusData)
  BY CoreNext
<1> QED
  BY <1>1, <1>2, <1>3, <1>4, TypedFacts, BusDataType, TypedEdge

LEMMA ModesNext ==
    ASSUME DcacheInv, NEW decoded, NEW take \in BOOLEAN, Clock(decoded, take)
    PROVE  Modes'
<1>1. Modes
  BY TypedFacts
<1>2. state_q' # "EVICT" => skid' = <<>>
  BY SidesNext
<1>3. flushing_q' = IF state_q = "LOOKUP" /\ state_q' = "FLUSH_ADDR" THEN TRUE
                    ELSE IF state_q = "FLUSH" /\ state_q' = "LOOKUP" THEN FALSE
                    ELSE flushing_q
  BY FlushNext
<1>4. flushing_q' \in BOOLEAN \/ flushing_q' = flushing_q
  BY <1>3
<1>5. CASE state_q = "RESET"
  <2>1. m_q'.op = "NONE" /\ state_q' \in {"RESET", "LOOKUP"} /\ m_q.op = "NONE"
    BY <1>5, Doing, RequestNext, StateNext DEF Ready
  <2>2. ~flushing_q'
    BY <1>1, <1>3, <1>5, <2>1 DEF Modes
  <2> QED
    BY <1>2, <2>1, <2>2 DEF Modes
<1>6. CASE Ready
  <2>1. state_q = "LOOKUP" /\ ~flushing_q
    BY <1>1, <1>6 DEF Ready, Modes
  <2>2. flushing_q' <=> state_q' = "FLUSH_ADDR"
    BY <1>3, <2>1
  <2> QED
    BY <1>2, <1>6, <2>1, <2>2, RequestNext DEF Modes
<1>7. CASE Busy
  <2>1. m_q' = m_q /\ m_q.op \in {"LOAD", "STORE", "DFLUSH", "DWRITEBACK"}
    BY <1>7, Doing, RequestNext, Names DEF Busy
  <2>2. Core!Accesses <=> m_q.op \in {"LOAD", "STORE"}
    BY DEF Core!Accesses
  <2>3. Core!Accesses' <=> m_q'.op \in {"LOAD", "STORE"}
    BY DEF Core!Accesses
  <2>4. CASE state_q = "LOOKUP"
    <3>1. Core!Accesses /\ state_q' \in {"EVICT", "REFILL"}
      BY <1>7, <2>4, Doing, StateNext
    <3> QED
      BY <1>1, <1>2, <1>3, <2>1, <2>2, <2>3, <2>4, <3>1 DEF Modes
  <2>5. CASE state_q \in {"FLUSH_ADDR", "FLUSH"}
    <3>1. m_q.op = "DFLUSH" /\ state_q' \in {"FLUSH", "EVICT", "LOOKUP", "FLUSH_ADDR"}
          /\ (state_q' = "LOOKUP" => state_q = "FLUSH") /\ flushing_q
      BY <1>1, <2>5, StateNext DEF Modes
    <3> QED
      BY <1>1, <1>2, <1>3, <2>1, <2>2, <2>3, <2>5, <3>1 DEF Modes
  <2>6. CASE state_q \in {"REFILL", "WRITE", "READ"}
    <3>1. /\ m_q.op \in {"LOAD", "STORE"} /\ ~flushing_q
          /\ state_q' \in {"REFILL", "WRITE", "READ", "LOOKUP"}
          /\ state_q' = "WRITE" => m_q.op = "STORE"
          /\ state_q' = "READ" => m_q.op = "LOAD"
      BY <1>1, <2>1, <2>2, <2>6, StateNext DEF Modes
    <3> QED
      BY <1>1, <1>2, <1>3, <2>1, <2>2, <2>3, <2>6, <3>1 DEF Modes
  <2>7. CASE state_q = "EVICT"
    <3>1. state_q' \in {"EVICT", "EVICT_WAIT"}
      BY <2>7, StateNext
    <3> QED
      BY <1>1, <1>2, <1>3, <2>1, <2>2, <2>3, <2>7, <3>1 DEF Modes
  <2>8. CASE state_q = "EVICT_WAIT"
    <3>1. /\ state_q' \in {"EVICT_WAIT", "LOOKUP", "FLUSH_ADDR", "REFILL"}
          /\ state_q' = "LOOKUP" => m_q.op = "DWRITEBACK"
          /\ state_q' = "FLUSH_ADDR" => flushing_q
          /\ state_q' = "REFILL" => m_q.op # "DWRITEBACK" /\ ~flushing_q
      BY <2>8, StateNext
    <3>2. flushing_q <=> m_q.op = "DFLUSH"
      BY <1>1, <2>8 DEF Modes
    <3> QED
      BY <1>2, <1>3, <2>1, <2>2, <2>3, <2>8, <3>1, <3>2 DEF Modes
  <2>9. CASE state_q = "WRITEBACK"
    <3>1. state_q' \in {"EVICT", "LOOKUP"} /\ m_q.op = "DWRITEBACK" /\ ~flushing_q
      BY <1>1, <2>9, StateNext DEF Modes
    <3> QED
      BY <1>2, <1>3, <2>1, <2>2, <2>3, <2>9, <3>1 DEF Modes
  <2> QED
    BY <1>7, <2>4, <2>5, <2>6, <2>7, <2>8, <2>9, Doing
<1> QED
  BY <1>5, <1>6, <1>7 DEF Busy

(***************************************************************************)
(* The memories of the cache after the cycle.                              *)
(***************************************************************************)
LEMMA RamsNext ==
    ASSUME DcacheInv, NEW decoded, NEW take \in BOOLEAN, Clock(decoded, take)
    PROVE  /\ \A way \in Core!Ways : \A s \in Core!Sets :
                tags'[way][s] = IF /\ Core!WritesTag(way, AckFor(TRUE))
                                   /\ s = IF state_q = "RESET" THEN flush_addr_q ELSE ThisSet
                                THEN Core!TagWritten ELSE tags[way][s]
           /\ \A way \in Core!Ways : \A p \in Core!Sets \X Offsets :
                data'[way][p] = IF Fills(way, AckFor(TRUE)) /\ p = <<ThisSet, data_write_q>>
                                THEN BusData
                                ELSE IF StoresTo(way) /\ p = ThisWord THEN m_q.data
                                ELSE data[way][p]
           /\ \A way \in Core!Ways :
                tag_out'[way] = tags'[way][IF /\ state_q = "LOOKUP"
                                              /\ state_q' \in {"LOOKUP", "WRITEBACK"}
                                           THEN Core!SetOf(ToCore.addr) ELSE ThisSet]
           /\ \A way \in Core!Ways :
                data_out'[way] = data[way][Core!DataAddr(ToCore, state_q')]
<1>1. Typed /\ ToCore \in Asking /\ BusData \in Words
  BY TypedFacts, TypedNext, BusDataType
<1>2. /\ Core!TagRams(ToCore, state_q', AckFor(TRUE))
      /\ Core!DataRams(ToCore, state_q', AckFor(TRUE), BusData, PmemAccept(TRUE))
  BY CoreNext DEF Core!Edge
<1>3. \A way \in Core!Ways : \A s \in Core!Sets :
        tags'[way][s] = IF /\ Core!WritesTag(way, AckFor(TRUE))
                           /\ s = IF state_q = "RESET" THEN flush_addr_q ELSE ThisSet
                        THEN Core!TagWritten ELSE tags[way][s]
  BY <1>1, <1>2, TagEdge
<1>4. \A way \in Core!Ways : \A p \in Core!Sets \X Offsets :
        data'[way][p] = IF Fills(way, AckFor(TRUE)) /\ p = <<ThisSet, data_write_q>>
                        THEN BusData
                        ELSE IF StoresTo(way) /\ p = ThisWord THEN m_q.data
                        ELSE data[way][p]
  BY <1>1, <1>2, DataEdge
<1>5. \A way \in Core!Ways :
        tag_out'[way] = tags'[way][IF /\ state_q = "LOOKUP"
                                      /\ state_q' \in {"LOOKUP", "WRITEBACK"}
                                   THEN Core!SetOf(ToCore.addr) ELSE ThisSet]
  BY <1>2, TagOutEdge
<1>6. \A way \in Core!Ways : data_out'[way] = data[way][Core!DataAddr(ToCore, state_q')]
  BY <1>2 DEF Core!DataRams
<1> QED
  BY <1>3, <1>4, <1>5, <1>6

\* The line in work stays the same while it is in work.
LEMMA WorkNext ==
    ASSUME DcacheInv, Busy, NEW decoded, NEW take \in BOOLEAN, Clock(decoded, take)
    PROVE  /\ m_q' = m_q /\ Core!SetOf(m_q.addr)' = Core!SetOf(m_q.addr)
           /\ Core!TagOf(m_q.addr)' = Core!TagOf(m_q.addr) /\ Base' = Base
           /\ (state_q' # "LOOKUP" /\ state_q' # "FLUSH_ADDR") => ThisSet' = ThisSet
           /\ ~flushing_q => ThisSet' = ThisSet /\ ThisSet = Core!SetOf(m_q.addr)
           /\ flushing_q => ThisSet = flush_addr_q
           /\ Core!Accesses' = Core!Accesses
<1>1. m_q' = m_q
  BY RequestNext DEF Busy
<1>2. /\ Core!SetOf(m_q.addr)' = Core!SetOf(m_q.addr)
      /\ Core!TagOf(m_q.addr)' = Core!TagOf(m_q.addr) /\ Base' = Base
      /\ Core!Accesses' = Core!Accesses
  BY <1>1 DEF Core!SetOf, Core!LineOf, Core!TagOf, Base, Core!LineAddr, Core!Accesses
<1>3. /\ ThisSet = IF flushing_q THEN flush_addr_q ELSE Core!SetOf(m_q.addr)
      /\ ThisSet' = IF flushing_q' THEN flush_addr_q' ELSE Core!SetOf(m_q.addr)'
  BY DEF ThisSet, Core!ActiveSet
<1>4. ~flushing_q => ~flushing_q'
  <2>1. Busy /\ state_q = "LOOKUP" => state_q' # "FLUSH_ADDR"
    BY Doing, StateNext
  <2> QED
    BY <2>1, FlushNext
<1>5. flushing_q => state_q # "LOOKUP"
  BY TypedFacts DEF Modes
<1>6. ASSUME flushing_q, state_q' # "LOOKUP", state_q' # "FLUSH_ADDR"
      PROVE  flushing_q' /\ flush_addr_q' = flush_addr_q
  BY <1>5, <1>6, FlushNext DEF Busy
<1>7. CASE flushing_q
  BY <1>1, <1>2, <1>3, <1>6, <1>7
<1>8. CASE ~flushing_q
  BY <1>1, <1>2, <1>3, <1>4, <1>8
<1> QED
  BY <1>7, <1>8

\* Tags are cleared, or left alone, while the cache walks over the sets.
LEMMA ClearNext ==
    ASSUME DcacheInv, state_q = "RESET" \/ flushing_q,
           NEW decoded, NEW take \in BOOLEAN, Clock(decoded, take),
           NEW n \in Nat, ClearTo(n)
    PROVE  /\ ClearTo(n)'
           /\ state_q = "RESET" \/ (state_q = "FLUSH" /\ ~Core!DirtyAny)
              => /\ flush_addr_q = n => ClearTo(n + 1)'
<1>1. Core!TagWritten = Core!NoTag /\ ~Core!NoTag.valid
  BY DEF Core!TagWritten, Core!NoTag
<1>2. (IF state_q = "RESET" THEN flush_addr_q ELSE ThisSet) = flush_addr_q
  BY DEF ThisSet, Core!ActiveSet
<1>3. \A way \in Core!Ways : \A s \in Core!Sets :
        tags'[way][s] = IF Core!WritesTag(way, AckFor(TRUE)) /\ s = flush_addr_q
                        THEN Core!NoTag ELSE tags[way][s]
  BY <1>1, <1>2, RamsNext
<1>4. ClearTo(n)'
  BY <1>1, <1>3 DEF ClearTo, Core!Ways, Core!Sets
<1>5. ASSUME state_q = "RESET" \/ (state_q = "FLUSH" /\ ~Core!DirtyAny), flush_addr_q = n
      PROVE  ClearTo(n + 1)'
  <2>1. \A way \in Core!Ways : Core!WritesTag(way, AckFor(TRUE))
    BY <1>5 DEF Core!WritesTag
  <2>2. \A s \in Core!Sets : s \in Nat /\ (s < n + 1 => s < n \/ s = n)
    BY DEF Core!Sets
  <2>3. ASSUME NEW way \in Core!Ways, NEW s \in Core!Sets, s < n + 1
        PROVE  ~tags'[way][s].valid
    BY <1>1, <1>3, <1>5, <2>1, <2>2, <2>3 DEF ClearTo
  <2> QED
    BY <2>3 DEF ClearTo, Core!Ways, Core!Sets
<1> QED
  BY <1>4, <1>5

LEMMA FlushingNext ==
    ASSUME DcacheInv, NEW decoded, NEW take \in BOOLEAN, Clock(decoded, take)
    PROVE  Flushing'
<1>1. Flushing /\ Modes /\ flush_addr_q \in Core!Sets /\ flush_addr_q' \in Core!Sets /\ Modes'
  BY TypedFacts, TypedNext, ModesNext DEF Typed, Flushing
<1>2. flush_addr_q \in Nat /\ flush_addr_q <= LastSet /\ LastSet \in Nat
  BY <1>1, Sizes DEF Core!Sets
<1>3. /\ flush_addr_q # LastSet => (flush_addr_q + 1) % (LastSet + 1) = flush_addr_q + 1
      /\ flush_addr_q = LastSet => (flush_addr_q + 1) % (LastSet + 1) = 0
  BY <1>2
<1>4. /\ flush_addr_q' =
           IF state_q = "RESET" \/ (state_q = "FLUSH" /\ state_q' = "FLUSH_ADDR")
           THEN (flush_addr_q + 1) % (LastSet + 1)
           ELSE IF state_q = "LOOKUP" THEN 0 ELSE flush_addr_q
      /\ flush_last_q' <=> (state_q # "LOOKUP" /\ (flush_addr_q = LastSet \/ flush_last_q))
  BY FlushNext
<1>5. /\ state_q' = "LOOKUP" /\ m_q'.op = "DFLUSH"
           => state_q = "FLUSH" /\ flush_last_q /\ ~Core!DirtyAny
      /\ state_q' = "RESET" => state_q = "RESET" /\ ~flush_last_q
      /\ state_q' = "FLUSH" => \/ state_q = "FLUSH_ADDR" \/ state_q = "FLUSH"
      /\ state_q' = "LOOKUP" /\ m_q'.op = "DWRITEBACK"
           => \/ state_q = "WRITEBACK"
              \/ state_q = "EVICT_WAIT" /\ AckFor(TRUE) # "NONE"
      /\ flushing_q' => flushing_q \/ Ready
  <2>1. CASE state_q = "RESET"
    BY <1>1, <2>1, Doing, StateNext, RequestNext, FlushNext DEF Ready, Modes
  <2>2. CASE Ready
    BY <2>2, RequestNext DEF Ready
  <2>3. CASE Busy
    <3>1. m_q' = m_q /\ (state_q = "LOOKUP" => Core!Miss)
      BY <2>3, WorkNext, Doing
    <3>2. Core!Accesses => m_q.op # "DFLUSH" /\ m_q.op # "DWRITEBACK"
      BY DEF Core!Accesses
    <3>3. flushing_q => m_q.op = "DFLUSH"
      BY <1>1 DEF Modes
    <3>4. CASE state_q \in {"LOOKUP", "FLUSH_ADDR"}
      BY <2>3, <3>1, <3>2, <3>3, <3>4, StateNext, FlushNext
    <3>5. CASE state_q = "FLUSH"
      BY <1>1, <3>1, <3>2, <3>3, <3>5, StateNext, FlushNext DEF Modes
    <3>6. CASE state_q \in {"REFILL", "WRITE", "READ"}
      BY <1>1, <3>1, <3>2, <3>3, <3>6, StateNext, FlushNext DEF Modes
    <3>7. CASE state_q = "EVICT"
      BY <3>7, StateNext, FlushNext
    <3>8. CASE state_q = "EVICT_WAIT"
      BY <1>1, <3>1, <3>8, StateNext, FlushNext DEF Modes
    <3>9. CASE state_q = "WRITEBACK"
      <4>1. m_q.op = "DWRITEBACK" /\ ~flushing_q /\ state_q' \in {"EVICT", "LOOKUP"}
        BY <1>1, <3>9, StateNext DEF Modes
      <4>2. ~flushing_q'
        BY <3>9, <4>1, FlushNext
      <4> QED
        BY <3>1, <3>9, <4>1, <4>2
    <3> QED
      BY <2>3, <3>4, <3>5, <3>6, <3>7, <3>8, <3>9, Doing
  <2> QED
    BY <2>1, <2>2, <2>3 DEF Busy
<1>6. state_q' = "RESET" => ClearTo(IF flush_last_q THEN LastSet + 1 ELSE flush_addr_q)'
  <2> SUFFICES ASSUME state_q' = "RESET"
               PROVE  ClearTo(IF flush_last_q THEN LastSet + 1 ELSE flush_addr_q)'
    OBVIOUS
  <2>1. state_q = "RESET" /\ ~flush_last_q /\ ClearTo(flush_addr_q)
    BY <1>1, <1>5 DEF Flushing
  <2>2. PICK n \in Nat : n = flush_addr_q
    BY <1>2
  <2>3. ClearTo(n)
    BY <2>1, <2>2
  <2>4. ClearTo(n + 1)'
    BY <2>1, <2>2, <2>3, ClearNext
  <2>5. (IF flush_last_q THEN LastSet + 1 ELSE flush_addr_q)' = n + 1
    BY <1>2, <1>3, <1>4, <2>1, <2>2
  <2> QED
    BY <2>4, <2>5 DEF ClearTo
<1>7. flushing_q' => ClearTo(flush_addr_q)' /\ (flush_last_q' => flush_addr_q' = LastSet)
  <2> SUFFICES ASSUME flushing_q'
               PROVE  ClearTo(flush_addr_q)' /\ (flush_last_q' => flush_addr_q' = LastSet)
    OBVIOUS
  <2>1. CASE Ready
    <3>1. flush_addr_q' = 0 /\ ~flush_last_q'
      BY <1>4, <2>1 DEF Ready
    <3>2. \A s \in Core!Sets : ~(s < 0)
      BY DEF Core!Sets
    <3> QED
      BY <3>1, <3>2 DEF ClearTo, Core!Sets
  <2>2. CASE flushing_q
    <3>1. ClearTo(flush_addr_q) /\ (flush_last_q => flush_addr_q = LastSet)
          /\ state_q # "LOOKUP" /\ state_q # "RESET"
      <4>1. m_q.op = "DFLUSH"
        BY <1>1, <2>2 DEF Modes
      <4> QED
        BY <1>1, <2>2, <4>1, Doing DEF Modes, Flushing
    <3>2. PICK n \in Nat : n = flush_addr_q
      BY <1>2
    <3>3. ClearTo(n)
      BY <3>1, <3>2
    <3>4. CASE state_q = "FLUSH" /\ state_q' = "FLUSH_ADDR"
      <4>1. ~Core!DirtyAny /\ ~flush_last_q
        BY <3>4, StateNext
      <4>2. flush_addr_q # LastSet
        BY <1>1, <3>4, <4>1 DEF Flushing
      <4>3. ClearTo(n + 1)'
        BY <2>2, <3>2, <3>3, <3>4, <4>1, ClearNext
      <4>4. flush_addr_q' = n + 1 /\ ~flush_last_q'
        BY <1>3, <1>4, <3>2, <3>4, <4>1, <4>2
      <4> QED
        BY <4>3, <4>4 DEF ClearTo
    <3>5. CASE ~(state_q = "FLUSH" /\ state_q' = "FLUSH_ADDR")
      <4>1. flush_addr_q' = n /\ (flush_last_q' => flush_addr_q' = LastSet)
        BY <1>4, <3>1, <3>2, <3>5
      <4>2. ClearTo(n)'
        BY <2>2, <3>3, ClearNext
      <4> QED
        BY <4>1, <4>2 DEF ClearTo
    <3> QED
      BY <3>4, <3>5
  <2> QED
    BY <1>5, <2>1, <2>2
<1>8. state_q' = "FLUSH" => (flush_last_q' <=> flush_addr_q' = LastSet)
  <2> SUFFICES ASSUME state_q' = "FLUSH"
               PROVE  flush_last_q' <=> flush_addr_q' = LastSet
    OBVIOUS
  <2>1. /\ state_q \in {"FLUSH_ADDR", "FLUSH"} /\ flushing_q
        /\ flush_last_q => flush_addr_q = LastSet
    BY <1>1, <1>5 DEF Modes, Flushing
  <2> QED
    BY <1>4, <2>1
<1>9. state_q' = "LOOKUP" /\ m_q'.op = "DFLUSH" => ClearTo(LastSet + 1)'
  <2> SUFFICES ASSUME state_q' = "LOOKUP", m_q'.op = "DFLUSH"
               PROVE  ClearTo(LastSet + 1)'
    OBVIOUS
  <2>1. state_q = "FLUSH" /\ flush_last_q /\ ~Core!DirtyAny
    BY <1>5
  <2>2. flushing_q /\ flush_addr_q = LastSet /\ ClearTo(flush_addr_q)
    BY <1>1, <2>1 DEF Modes, Flushing
  <2>3. ClearTo(LastSet)
    BY <2>2
  <2> QED
    BY <1>2, <2>1, <2>2, <2>3, ClearNext
<1>10. state_q' = "LOOKUP" /\ m_q'.op = "DWRITEBACK" =>
         \A way \in Core!Ways :
           ~(Holds(way, m_q.addr)' /\ tags'[way][Core!SetOf(m_q.addr)'].dirty)
  <2> SUFFICES ASSUME state_q' = "LOOKUP", m_q'.op = "DWRITEBACK",
                      NEW way \in Core!Ways,
                      Holds(way, m_q.addr)', tags'[way][Core!SetOf(m_q.addr)'].dirty
               PROVE  FALSE
    OBVIOUS
  <2>1. Busy /\ \/ state_q = "WRITEBACK"
                \/ state_q = "EVICT_WAIT" /\ AckFor(TRUE) # "NONE"
    BY <1>5 DEF Busy, Ready
  <2>2. m_q' = m_q /\ m_q.op = "DWRITEBACK" /\ ~flushing_q /\ m_q \in Operations
    BY <1>1, <2>1, WorkNext, Doing DEF Modes
  <2>3. ThisSet = Core!SetOf(m_q.addr) /\ ThisSet \in Core!Sets
    BY <2>1, <2>2, WorkNext, TypedFacts
  <2>4. /\ tags'[way][ThisSet].valid /\ tags'[way][ThisSet].dirty
        /\ tags'[way][ThisSet].tag = Core!TagOf(m_q.addr)
    BY <2>1, <2>3, WorkNext DEF Holds
  <2>5. CASE state_q = "WRITEBACK"
    <3>1. ~Core!WritesTag(way, AckFor(TRUE))
      BY <2>5 DEF Core!WritesTag
    <3>2. tags'[way][ThisSet] = tags[way][ThisSet]
      BY <2>3, <3>1, RamsNext
    <3>3. tag_out[way] = tags[way][ThisSet]
      BY <2>5, HitMeans
    <3>4. Core!Hit(way) /\ Core!IsDirty(way)
      BY <2>4, <3>2, <3>3 DEF Core!Hit, Core!IsDirty
    <3> QED
      BY <2>5, <3>4, StateNext
  <2>6. CASE state_q = "EVICT_WAIT" /\ AckFor(TRUE) # "NONE"
    <3>1. CASE way = replace_way_q
      <4>1. Core!WritesTag(way, AckFor(TRUE))
        BY <2>6, <3>1 DEF Core!WritesTag
      <4>2. tags'[way][ThisSet] = Core!TagWritten
        BY <2>3, <2>6, <4>1, RamsNext
      <4>3. ~Core!TagWritten.dirty
        BY <2>2, <2>6 DEF Core!TagWritten, Core!Clean
      <4> QED
        BY <2>4, <4>2, <4>3
    <3>2. CASE way # replace_way_q
      <4>1. ~Core!WritesTag(way, AckFor(TRUE))
        BY <2>6, <3>2 DEF Core!WritesTag
      <4>2. tags'[way][ThisSet] = tags[way][ThisSet]
        BY <2>3, <4>1, RamsNext
      <4>3. Holds(way, m_q.addr) /\ Holds(replace_way_q, m_q.addr)
        BY <2>2, <2>3, <2>4, <2>6, <4>2, TypedFacts DEF Holds, Chosen
      <4>4. Tagged /\ Single
        BY <2>6, TypedFacts DEF Contents, Lines
      <4>5. PICK a \in CachedAddr : Core!SetOf(a) = ThisSet
                                    /\ Core!TagOf(a) = tags[way][ThisSet].tag
        BY <2>3, <2>4, <4>2, <4>4 DEF Tagged
      <4>6. Holds(way, a) /\ Holds(replace_way_q, a)
        BY <2>3, <4>3, <4>5 DEF Holds
      <4>7. {way, replace_way_q} = {0, 1}
        BY <3>2, TypedFacts DEF Core!Ways
      <4>8. Holds(0, a) /\ Holds(1, a)
        BY <4>6, <4>7
      <4> QED
        BY <4>4, <4>8 DEF Single
    <3> QED
      BY <3>1, <3>2
  <2> QED
    BY <2>1, <2>5, <2>6
<1> QED
  BY <1>1, <1>6, <1>7, <1>8, <1>9, <1>10 DEF Flushing

LEMMA HoldsNext ==
    ASSUME DcacheInv, Busy, NEW decoded, NEW take \in BOOLEAN, Clock(decoded, take)
    PROVE  /\ \A way \in Core!Ways :
                Holds(way, m_q.addr)' <=>
                  /\ tags'[way][Core!SetOf(m_q.addr)].valid
                  /\ tags'[way][Core!SetOf(m_q.addr)].tag = Core!TagOf(m_q.addr)
           /\ tags' = tags => \A way \in Core!Ways :
                                Holds(way, m_q.addr)' <=> Holds(way, m_q.addr)
           /\ tags' = tags /\ replace_way_q' = replace_way_q /\ ThisSet' = ThisSet
                => Held' = Held
<1>1. /\ Core!SetOf(m_q.addr)' = Core!SetOf(m_q.addr)
      /\ Core!TagOf(m_q.addr)' = Core!TagOf(m_q.addr)
  BY WorkNext
<1>2. \A way \in Core!Ways :
        Holds(way, m_q.addr)' <=>
          /\ tags'[way][Core!SetOf(m_q.addr)].valid
          /\ tags'[way][Core!SetOf(m_q.addr)].tag = Core!TagOf(m_q.addr)
  BY <1>1 DEF Holds, Core!Ways
<1> QED
  BY <1>2 DEF Holds, Held

\* The way to be replaced stays the same until the line is in it.
LEMMA ReplaceNext ==
    ASSUME DcacheInv, Busy, NEW decoded, NEW take \in BOOLEAN, Clock(decoded, take),
           \/ state_q' \in {"EVICT", "EVICT_WAIT", "REFILL"} /\ state_q # "WRITEBACK"
           \/ state_q = "REFILL"
    PROVE  replace_way_q' = replace_way_q /\ ThisSet' = ThisSet
<1>1. Core!Replacement(state_q')
  BY CoreNext DEF Core!Edge
<1>2. state_q \notin {"WRITE", "READ"}
  BY StateNext
<1>3. flushing_q => state_q # "REFILL"
  BY TypedFacts, Doing DEF Modes, Core!Accesses
<1>4. flushing_q /\ state_q # "FLUSH_ADDR" => Core!EvictWay \/ ~Core!DirtyAny
  <2>1. flushing_q => m_q.op = "DFLUSH" /\ m_q \in Operations
    BY TypedFacts, Doing DEF Modes
  <2>2. CASE state_q = "FLUSH"
    BY <2>2, StateNext
  <2>3. CASE state_q \in {"EVICT", "EVICT_WAIT"}
    BY <2>1, <2>3, EvictWires
  <2>4. CASE state_q \notin {"FLUSH", "EVICT", "EVICT_WAIT", "FLUSH_ADDR"}
    BY <1>2, <1>3, <2>1, <2>4, Doing, TypedFacts DEF Modes, Core!Accesses
  <2> QED
    BY <2>2, <2>3, <2>4
<1>5. /\ state_q # "WRITEBACK"
      /\ state_q' # "FLUSH_ADDR"
      /\ ~(state_q = "FLUSH" /\ state_q' = "LOOKUP")
  BY StateNext
<1>6. ~(flushing_q /\ Core!DirtyAny /\ ~Core!EvictWay /\ state_q # "FLUSH_ADDR")
  BY <1>4
<1>7. replace_way_q' = replace_way_q
  BY <1>1, <1>2, <1>5, <1>6 DEF Core!Replacement
<1>8. ThisSet' = ThisSet
  <2>1. state_q = "REFILL" => ~flushing_q
    BY <1>3
  <2> QED
    BY <2>1, WorkNext
<1> QED
  BY <1>7, <1>8

LEMMA ChosenNext ==
    ASSUME DcacheInv, NEW decoded, NEW take \in BOOLEAN, Clock(decoded, take)
    PROVE  Chosen'
<1>1. Modes /\ Chosen /\ replace_way_q \in Core!Ways
  BY TypedFacts
<1>2. CASE ~Busy
  <2>1. state_q' \in {"RESET", "LOOKUP", "WRITEBACK", "FLUSH_ADDR"}
    BY <1>2, RequestNext, StateNext DEF Busy
  <2> QED
    BY <2>1 DEF Chosen
<1>3. CASE Busy /\ state_q \in {"LOOKUP", "FLUSH"} /\ state_q' = "EVICT"
  <2>1. m_q \in Operations /\ (state_q = "LOOKUP" => Core!Miss /\ Core!Accesses)
    BY <1>3, Doing
  <2>2. Core!EvictWay
    BY <1>3, <2>1, StateNext
  <2>3. tag_out[replace_way_q] = Held
    BY <1>1, <1>3, <2>1, HitMeans DEF Held
  <2>4. Held.valid /\ Held.dirty
    BY <2>2, <2>3 DEF Core!EvictWay, Core!IsDirty
  <2>5. \A way \in Core!Ways : ~Core!WritesTag(way, AckFor(TRUE))
    <3>1. CASE state_q = "LOOKUP"
      BY <2>1, <3>1, NoHit
    <3>2. CASE state_q = "FLUSH"
      <4>1. Core!DirtyAny
        BY <1>3, <3>2, StateNext
      <4> QED
        BY <3>2, <4>1 DEF Core!WritesTag
    <3> QED
      BY <1>3, <3>1, <3>2
  <2>6. tags' = tags
    BY <2>5, Kept DEF Core!Ways
  <2>7. /\ Held' = Held
        /\ \A way \in Core!Ways : Holds(way, m_q.addr)' <=> Holds(way, m_q.addr)
    BY <1>3, <2>6, HoldsNext, ReplaceNext
  <2>8. Core!Accesses' => \A way \in Core!Ways : ~Holds(way, m_q.addr)
    <3>1. Core!Accesses' => state_q = "LOOKUP" /\ ~flushing_q
      BY <1>1, <1>3, WorkNext DEF Modes, Core!Accesses
    <3>2. state_q = "LOOKUP" => \A way \in Core!Ways : ~Core!Hit(way)
      BY <2>1 DEF Core!Miss, Core!HitAny
    <3> QED
      BY <1>3, <2>1, <3>1, <3>2, HitMeans
  <2>9. m_q'.op # "DWRITEBACK"
    BY <1>1, <1>3, <2>1, WorkNext DEF Modes, Core!Accesses
  <2> QED
    BY <1>3, <2>4, <2>7, <2>8, <2>9 DEF Chosen, Core!Ways
<1>4. CASE Busy /\ state_q = "WRITEBACK" /\ state_q' = "EVICT"
  <2>1. m_q.op = "DWRITEBACK" /\ ~flushing_q
    BY <1>1, <1>4 DEF Modes
  <2>2. PICK h \in Core!Ways : Core!Hit(h) /\ Core!IsDirty(h)
    BY <1>4, StateNext
  <2>3. /\ \A way \in Core!Ways : tag_out[way] = tags[way][ThisSet]
        /\ \A way \in Core!Ways : Core!Hit(way) <=> Holds(way, m_q.addr)
        /\ ThisSet = Core!SetOf(m_q.addr) /\ ThisSet \in Core!Sets
    BY <1>4, <2>1, HitMeans, TypedFacts
  <2>4. tags[h][ThisSet].valid /\ tags[h][ThisSet].dirty /\ Holds(h, m_q.addr)
    BY <2>2, <2>3 DEF Core!IsDirty
  <2>5. replace_way_q' = h
    <3>1. Core!Hit(0) => ~Core!Hit(1)
      <4> SUFFICES ASSUME Core!Hit(0), Core!Hit(1) PROVE FALSE
        OBVIOUS
      <4>1. Holds(0, m_q.addr) /\ Holds(1, m_q.addr)
        BY <2>3 DEF Core!Ways
      <4>2. Tagged /\ Single
        BY <1>4, TypedFacts DEF Contents, Lines
      <4>3. PICK a \in CachedAddr : Core!SetOf(a) = ThisSet
                                    /\ Core!TagOf(a) = tags[0][ThisSet].tag
        BY <2>3, <4>1, <4>2 DEF Tagged, Holds, Core!Ways
      <4>4. Holds(0, a) /\ Holds(1, a)
        BY <2>3, <4>1, <4>3 DEF Holds
      <4> QED
        BY <4>2, <4>4 DEF Single
    <3>2. replace_way_q' = IF Core!Hit(0) THEN 0 ELSE IF Core!Hit(1) THEN 1
                           ELSE replace_way_q
      <4>1. Core!Replacement(state_q')
        BY CoreNext DEF Core!Edge
      <4> QED
        BY <1>4, <2>1, <4>1 DEF Core!Replacement
    <3> QED
      BY <2>2, <3>1, <3>2 DEF Core!Ways
  <2>6. tags' = tags
    BY <1>4, Kept DEF Core!WritesTag
  <2>7. ThisSet' = ThisSet
    BY <1>4, <2>1, WorkNext
  <2>8. Held' = tags[h][ThisSet]
    BY <2>5, <2>6, <2>7 DEF Held
  <2>9. Holds(replace_way_q, m_q.addr)'
    <3>1. Holds(replace_way_q, m_q.addr)' <=>
            /\ tags'[replace_way_q'][Core!SetOf(m_q.addr)'].valid
            /\ tags'[replace_way_q'][Core!SetOf(m_q.addr)'].tag = Core!TagOf(m_q.addr)'
      BY DEF Holds
    <3> QED
      BY <1>4, <2>3, <2>4, <2>5, <2>6, <3>1, WorkNext DEF Holds
  <2>10. ~Core!Accesses' /\ m_q' = m_q
    BY <1>4, <2>1, WorkNext DEF Core!Accesses
  <2> QED
    BY <1>4, <2>4, <2>8, <2>9, <2>10 DEF Chosen
<1>5. CASE Busy /\ state_q \in {"EVICT", "EVICT_WAIT"} /\ state_q' \in {"EVICT", "EVICT_WAIT"}
  <2>1. PICK o \in Operations : CoreOwes(o)
    BY <1>5, Doing
  <2>2. state_q = "EVICT_WAIT" => bus_ack = "NONE"
    <3>1. AckFor(TRUE) = bus_ack
      BY <2>1, Inside
    <3> QED
      BY <1>5, <3>1, StateNext
  <2>3. tags' = tags /\ replace_way_q' = replace_way_q /\ Held' = Held /\ m_q' = m_q
    BY <1>5, <2>1, <2>2, Frozen
  <2>4. \A way \in Core!Ways : Holds(way, m_q.addr)' <=> Holds(way, m_q.addr)
    BY <1>5, <2>3, HoldsNext
  <2>5. Holds(replace_way_q, m_q.addr)' <=> Holds(replace_way_q, m_q.addr)
    BY <1>1, <2>3, <2>4 DEF Holds
  <2> QED
    BY <1>1, <1>5, <2>3, <2>4, <2>5, WorkNext DEF Chosen, Core!Ways
<1>6. CASE Busy /\ state_q = "REFILL"
  <2>1. replace_way_q' = replace_way_q /\ ThisSet' = ThisSet
    BY <1>6, ReplaceNext
  <2>2. state_q' \in {"REFILL", "WRITE", "READ"}
    BY <1>6, StateNext
  <2>3. ASSUME state_q' \in {"WRITE", "READ"}
        PROVE  Holds(replace_way_q, m_q.addr)'
    <3>1. AckFor(TRUE) # "NONE" /\ Core!PmemLast
      BY <1>6, <2>3, StateNext
    <3>2. Core!WritesTag(replace_way_q, AckFor(TRUE))
      BY <1>6, <3>1 DEF Core!WritesTag
    <3>3. ~flushing_q
      BY <1>1, <1>6 DEF Modes, Core!Accesses
    <3>4. ThisSet = Core!SetOf(m_q.addr) /\ ThisSet \in Core!Sets
      BY <1>6, <3>3, WorkNext, TypedFacts
    <3>5. tags'[replace_way_q][ThisSet] = Core!TagWritten
      BY <1>1, <1>6, <3>2, <3>4, RamsNext
    <3>6. Core!TagWritten = Core!Clean(Core!TagOf(m_q.addr))
      BY <1>6, <3>3 DEF Core!TagWritten
    <3>7. Holds(replace_way_q, m_q.addr)' <=>
            /\ tags'[replace_way_q'][Core!SetOf(m_q.addr)'].valid
            /\ tags'[replace_way_q'][Core!SetOf(m_q.addr)'].tag = Core!TagOf(m_q.addr)'
      BY DEF Holds
    <3> QED
      BY <1>6, <2>1, <3>4, <3>5, <3>6, <3>7, WorkNext DEF Core!Clean
  <2> QED
    BY <2>2, <2>3 DEF Chosen
<1>7. /\ state_q' = "EVICT" /\ Busy => state_q \in {"LOOKUP", "FLUSH", "WRITEBACK", "EVICT"}
      /\ state_q' = "EVICT_WAIT" /\ Busy => state_q \in {"EVICT", "EVICT_WAIT"}
      /\ state_q' \in {"WRITE", "READ"} /\ Busy => state_q = "REFILL"
  BY Doing, StateNext
<1>8. CASE state_q' \notin {"EVICT", "EVICT_WAIT", "WRITE", "READ"}
  BY <1>8 DEF Chosen
<1> QED
  BY <1>2, <1>3, <1>4, <1>5, <1>6, <1>7, <1>8

LEMMA FilledNext ==
    ASSUME DcacheInv, NEW decoded, NEW take \in BOOLEAN, Clock(decoded, take)
    PROVE  Filled'
<1> SUFFICES ASSUME state_q' = "REFILL"
             PROVE  /\ ~(Held.valid /\ Held.dirty)' /\ ~Holds(1 - replace_way_q, m_q.addr)'
                    /\ \A w \in Offsets : w < data_write_q' =>
                          data'[replace_way_q'][<<ThisSet', w>>] = pmem'[Base' + w]
  BY DEF Filled
<1>1. Modes /\ Chosen /\ Filled /\ replace_way_q \in Core!Ways /\ ThisSet \in Core!Sets
      /\ 1 - replace_way_q \in Core!Ways /\ 1 - replace_way_q # replace_way_q
  BY TypedFacts DEF Core!Ways
<1>2. Busy /\ state_q \in {"LOOKUP", "EVICT_WAIT", "REFILL"}
  <2>1. Busy
    BY RequestNext, StateNext DEF Busy
  <2> QED
    BY <2>1, Doing, StateNext
<1>3. PICK o \in Operations : CoreOwes(o)
  BY <1>2, Doing
<1>4. AckFor(TRUE) = bus_ack
  BY <1>3, Inside
<1>5. m_q' = m_q /\ Base' = Base /\ m_q \in Operations
  BY <1>2, WorkNext, Doing
<1>6. replace_way_q' = replace_way_q /\ ThisSet' = ThisSet
  BY <1>2, ReplaceNext
<1>7. ~flushing_q /\ Core!Accesses
  <2>1. Core!Accesses
    BY <1>2, ModesNext, WorkNext DEF Modes
  <2> QED
    BY <1>1, <2>1 DEF Modes, Core!Accesses
<1>8. ThisSet = Core!SetOf(m_q.addr) /\ m_q.addr \in CachedAddr
  BY <1>2, <1>7, WorkNext, Doing
<1>9. Holds(1 - replace_way_q, m_q.addr)' <=>
        /\ tags'[1 - replace_way_q][ThisSet].valid
        /\ tags'[1 - replace_way_q][ThisSet].tag = Core!TagOf(m_q.addr)
  <2>1. Holds(1 - replace_way_q, m_q.addr)' <=>
          /\ tags'[1 - replace_way_q'][Core!SetOf(m_q.addr)'].valid
          /\ tags'[1 - replace_way_q'][Core!SetOf(m_q.addr)'].tag = Core!TagOf(m_q.addr)'
    BY DEF Holds
  <2> QED
    BY <1>2, <1>6, <1>8, <2>1, WorkNext
<1>10. Held' = tags'[replace_way_q][ThisSet]
  BY <1>6 DEF Held
\* Only the way to be replaced may get a new tag.
<1>11. ~Core!WritesTag(1 - replace_way_q, AckFor(TRUE))
       /\ tags'[1 - replace_way_q][ThisSet] = tags[1 - replace_way_q][ThisSet]
  <2>1. state_q = "LOOKUP" => Core!Miss
    BY <1>2, Doing
  <2>2. ~Core!WritesTag(1 - replace_way_q, AckFor(TRUE))
    BY <1>1, <1>2, <2>1, NoHit DEF Core!WritesTag
  <2> QED
    BY <1>1, <2>2, RamsNext
<1>12. state_q # "REFILL" => data_write_q' = 0
  BY CoreNext DEF Core!Edge, Core!DataRams
<1>13. \A w \in Offsets : ~(w < 0)
  BY DEF Offsets
<1>14. CASE state_q = "LOOKUP"
  <2>1. Core!Miss /\ ~Core!EvictWay
    BY <1>2, <1>14, Doing, StateNext
  <2>2. tags'[replace_way_q][ThisSet] = Held
    <3>1. ~Core!WritesTag(replace_way_q, AckFor(TRUE))
      BY <1>1, <2>1, NoHit
    <3> QED
      BY <1>1, <3>1, RamsNext DEF Held
  <2>3. /\ \A way \in Core!Ways : ~Core!Hit(way)
        /\ ~Core!IsDirty(replace_way_q)
    BY <2>1 DEF Core!Miss, Core!EvictWay, Core!HitAny
  <2>4. /\ tag_out[replace_way_q] = Held
        /\ \A way \in Core!Ways : Core!Hit(way) <=> Holds(way, m_q.addr)
    BY <1>1, <1>7, <1>14, HitMeans DEF Held
  <2>5. ~Holds(1 - replace_way_q, m_q.addr) /\ ~(Held.valid /\ Held.dirty)
    BY <1>1, <2>3, <2>4 DEF Core!IsDirty
  <2>6. ~Holds(1 - replace_way_q, m_q.addr)'
    BY <1>8, <1>9, <1>11, <2>5 DEF Holds
  <2>7. ~(Held.valid /\ Held.dirty)'
    BY <1>10, <2>2, <2>5
  <2> QED
    BY <1>12, <1>13, <1>14, <2>6, <2>7
<1>15. CASE state_q = "EVICT_WAIT"
  <2>1. AckFor(TRUE) # "NONE"
    BY <1>15, StateNext
  <2>2. Core!WritesTag(replace_way_q, AckFor(TRUE)) /\ ~Core!TagWritten.dirty
    BY <1>7, <1>15, <2>1 DEF Core!WritesTag, Core!TagWritten, Core!Clean
  <2>3. tags'[replace_way_q][ThisSet] = Core!TagWritten
    BY <1>1, <1>15, <2>2, RamsNext
  <2>4. ~Holds(1 - replace_way_q, m_q.addr)
    BY <1>1, <1>7, <1>15 DEF Chosen
  <2>5. ~Holds(1 - replace_way_q, m_q.addr)'
    BY <1>8, <1>9, <1>11, <2>4 DEF Holds
  <2> QED
    BY <1>10, <1>12, <1>13, <1>15, <2>2, <2>3, <2>5
<1>16. CASE state_q = "REFILL"
  <2>1. ~(Held.valid /\ Held.dirty) /\ ~Holds(1 - replace_way_q, m_q.addr)
        /\ \A w \in Offsets : w < data_write_q =>
             data[replace_way_q][<<ThisSet, w>>] = pmem[Base + w]
    BY <1>1, <1>16 DEF Filled
  <2>2. ~Core!WritesTag(replace_way_q, AckFor(TRUE))
    BY <1>16, StateNext DEF Core!WritesTag
  <2>3. tags'[replace_way_q][ThisSet] = Held
    BY <1>1, <2>2, RamsNext DEF Held
  <2>4. ~(Held.valid /\ Held.dirty)' /\ ~Holds(1 - replace_way_q, m_q.addr)'
    <3>1. ~(Held.valid /\ Held.dirty)'
      BY <1>10, <2>1, <2>3
    <3>2. ~Holds(1 - replace_way_q, m_q.addr)'
      BY <1>8, <1>9, <1>11, <2>1 DEF Holds
    <3> QED
      BY <3>1, <3>2
  <2>5. /\ pmem' = pmem
        /\ bus_ack = "NONE" => data_write_q' = data_write_q
        /\ bus_ack # "NONE" => /\ BusData = pmem[Base + data_write_q]
                               /\ data_write_q' = data_write_q + 1
    BY <1>3, <1>4, <1>16, RefillStep, StateNext
  <2>6. ASSUME NEW w \in Offsets, w < data_write_q'
        PROVE  data'[replace_way_q][<<ThisSet, w>>] = pmem[Base + w]
    <3>1. <<ThisSet, w>> \in Core!Sets \X Offsets /\ ~StoresTo(replace_way_q)
      BY <1>1, <1>16 DEF StoresTo
    <3>2. CASE bus_ack = "NONE"
      <4>1. ~Fills(replace_way_q, AckFor(TRUE))
        BY <1>4, <3>2 DEF Fills
      <4>2. data'[replace_way_q][<<ThisSet, w>>] = data[replace_way_q][<<ThisSet, w>>]
        BY <1>1, <3>1, <4>1, RamsNext
      <4> QED
        BY <2>1, <2>5, <2>6, <3>2, <4>2
    <3>3. CASE bus_ack # "NONE"
      <4>1. Fills(replace_way_q, AckFor(TRUE))
        BY <1>4, <1>16, <3>3 DEF Fills
      <4>2. data'[replace_way_q][<<ThisSet, w>>]
              = IF w = data_write_q THEN BusData ELSE data[replace_way_q][<<ThisSet, w>>]
        BY <1>1, <3>1, <4>1, RamsNext
      <4>3. w = data_write_q \/ w < data_write_q
        <5>1. w \in Nat /\ data_write_q \in Nat
          BY TypedFacts DEF Offsets
        <5> QED
          BY <2>5, <2>6, <3>3, <5>1
      <4> QED
        BY <2>1, <2>5, <3>3, <4>2, <4>3
    <3> QED
      BY <3>2, <3>3
  <2> QED
    BY <1>5, <1>6, <2>4, <2>5, <2>6
<1> QED
  BY <1>2, <1>14, <1>15, <1>16

LEMMA OutputsNext ==
    ASSUME DcacheInv, NEW decoded, NEW take \in BOOLEAN, Clock(decoded, take)
    PROVE  Outputs'
<1>1. Modes /\ Modes' /\ Typed'
  BY TypedFacts, ModesNext, TypedNext
<1>2. /\ \A way \in Core!Ways :
           tag_out'[way] = tags'[way][IF /\ state_q = "LOOKUP"
                                         /\ state_q' \in {"LOOKUP", "WRITEBACK"}
                                      THEN Core!SetOf(ToCore.addr) ELSE ThisSet]
      /\ \A way \in Core!Ways : data_out'[way] = data[way][Core!DataAddr(ToCore, state_q')]
  BY RamsNext
\* A request that is taken is looked up next.
<1>3. ASSUME Ready, m_q'.op # "NONE"
      PROVE  ToCore = m_q' /\ Core!MemAccept(ToCore)
  BY <1>3, RequestNext DEF Core!NoRequest
<1>4. ASSUME state_q' \notin {"RESET", "FLUSH_ADDR"}, state_q' = "LOOKUP" => Core!Accesses',
             NEW way \in Core!Ways
      PROVE  tag_out'[way] = tags'[way][ThisSet']
  <2>1. CASE state_q = "RESET"
    BY <1>4, <2>1, RequestNext, Doing, StateNext DEF Ready, Core!Accesses
  <2>2. CASE Ready
    <3>1. state_q = "LOOKUP" /\ state_q' \in {"LOOKUP", "WRITEBACK"} /\ m_q'.op # "NONE"
          /\ m_q'.op # "DFLUSH"
      BY <1>4, <2>2, RequestNext DEF Ready, Core!Accesses
    <3>2. ~flushing_q'
      BY <1>1, <3>1 DEF Modes
    <3>3. ThisSet' = Core!SetOf(m_q.addr)'
      BY <3>2 DEF ThisSet, Core!ActiveSet
    <3>4. ToCore.addr = m_q'.addr
      BY <1>3, <2>2, <3>1
    <3>5. Core!SetOf(m_q.addr)' = Core!SetOf(ToCore.addr)
      BY <3>4 DEF Core!SetOf, Core!LineOf
    <3> QED
      BY <1>2, <3>1, <3>3, <3>5
  <2>3. CASE Busy
    <3>1. ~(state_q = "LOOKUP" /\ state_q' \in {"LOOKUP", "WRITEBACK"})
      BY <2>3, Doing, StateNext
    <3>2. ThisSet' = ThisSet
      <4>1. CASE flushing_q
        <5>1. m_q'.op = "DFLUSH"
          BY <1>1, <2>3, <4>1, WorkNext DEF Modes
        <5>2. ~Core!Accesses'
          BY <5>1 DEF Core!Accesses
        <5> QED
          BY <1>4, <2>3, <5>2, WorkNext
      <4>2. CASE ~flushing_q
        BY <2>3, <4>2, WorkNext
      <4> QED
        BY <4>1, <4>2
    <3> QED
      BY <1>2, <3>1, <3>2
  <2> QED
    BY <2>1, <2>2, <2>3 DEF Busy
<1>5. ASSUME state_q' = "LOOKUP", m_q'.op = "LOAD", NEW way \in Core!Ways,
             Holds(way, m_q.addr)'
      PROVE  data_out'[way] = InWay(way, m_q.addr)'
  <2>1. Ready \/ (Busy /\ state_q = "READ")
    <3>1. state_q # "RESET"
      BY <1>5, RequestNext, Doing DEF Ready
    <3>2. ASSUME Busy
          PROVE  state_q = "READ"
      <4>1. m_q.op = "LOAD"
        BY <1>5, <3>2, WorkNext
      <4>2. state_q \in {"LOOKUP", "FLUSH", "WRITE", "READ", "EVICT_WAIT", "WRITEBACK"}
        BY <1>5, <3>2, Doing, StateNext
      <4>3. state_q # "LOOKUP"
        BY <1>5, <3>2, Doing, StateNext
      <4>4. state_q # "EVICT_WAIT"
        BY <1>5, <4>1, StateNext
      <4> QED
        BY <1>1, <4>1, <4>2, <4>3, <4>4 DEF Modes
    <3> QED
      BY <3>1, <3>2 DEF Busy
  <2> DEFINE place == <<Core!SetOf(m_q.addr)', Core!WordOf(m_q.addr)'>>
  <2>2. InWay(way, m_q.addr)' = data'[way][place]
    BY DEF InWay
  <2>3. place \in Core!Sets \X Offsets
    <3>1. m_q'.addr \in Nat
      BY RequestNext, AskingType
    <3>2. Core!SetOf(m_q'.addr) \in Core!Sets /\ Core!WordOf(m_q'.addr) \in Offsets
      BY <3>1, Place
    <3> QED
      BY <3>2 DEF Core!SetOf, Core!WordOf, Core!LineOf
  <2>4. CASE Ready
    <3>1. ToCore = m_q' /\ Core!MemAccept(ToCore) /\ state_q = "LOOKUP"
      BY <1>3, <1>5, <2>4 DEF Ready
    <3>2. Core!DataAddr(ToCore, state_q') = place
      <4>1. Core!DataAddr(ToCore, state_q')
              = <<Core!SetOf(ToCore.addr), Core!WordOf(ToCore.addr)>>
        BY <1>5, <3>1 DEF Core!DataAddr
      <4> QED
        BY <3>1, <4>1 DEF Core!SetOf, Core!WordOf, Core!LineOf
    <3>3. ~Fills(way, AckFor(TRUE))
      BY <3>1 DEF Fills
    <3> HIDE DEF place
    <3>4. data'[way][place] = IF StoresTo(way) /\ place = ThisWord THEN m_q.data
                              ELSE data[way][place]
      BY <2>3, <3>3, RamsNext
    <3>5. ~(StoresTo(way) /\ place = ThisWord)
      <4> SUFFICES ASSUME StoresTo(way), place = ThisWord
                   PROVE  FALSE
        OBVIOUS
      <4>1. m_q.op = "STORE" /\ Core!Hit(way)
        BY DEF StoresTo
      <4>2. m_q'.addr # m_q.addr
        BY <1>5, <3>1, <4>1 DEF Core!MemAccept
      <4>3. ~flushing_q /\ Core!Accesses
        BY <1>1, <3>1, <4>1 DEF Modes, Core!Accesses
      <4>4. ThisSet = Core!SetOf(m_q.addr) /\ ThisSet \in Core!Sets
        BY <3>1, <4>3, HitMeans, TypedFacts
      <4>5. Core!WritesTag(way, AckFor(TRUE))
        BY <3>1, <4>1 DEF Core!WritesTag
      <4>6. tags'[way][ThisSet] = Core!TagWritten
        BY <3>1, <4>4, <4>5, RamsNext
      <4>7. Core!TagWritten = Core!Dirty(Core!TagOf(m_q.addr))
        BY <3>1, <4>3 DEF Core!TagWritten
      <4>8. /\ Core!SetOf(m_q.addr)' = Core!SetOf(m_q.addr)
            /\ Core!WordOf(m_q.addr)' = Core!WordOf(m_q.addr)
        BY DEF place, ThisWord
      <4>9. Core!TagOf(m_q.addr)' = Core!TagOf(m_q.addr)
        <5>1. tags'[way][Core!SetOf(m_q.addr)'].tag = Core!TagOf(m_q.addr)'
          BY <1>5 DEF Holds
        <5> QED
          BY <4>4, <4>6, <4>7, <4>8, <5>1 DEF Core!Dirty
      <4> DEFINE b == m_q'.addr
      <4>10. b \in Nat /\ m_q.addr \in Nat
        BY RequestNext, AskingType, TypedFacts DEF Typed
      <4>11. /\ Core!SetOf(b) = Core!SetOf(m_q.addr)'
             /\ Core!WordOf(b) = Core!WordOf(m_q.addr)'
             /\ Core!TagOf(b) = Core!TagOf(m_q.addr)'
        BY DEF Core!SetOf, Core!WordOf, Core!LineOf, Core!TagOf
      <4>12. b # m_q.addr
        BY <4>2
      <4> HIDE DEF b
      <4>13. b = m_q.addr
        BY <4>8, <4>9, <4>10, <4>11, OneWord
      <4> QED
        BY <4>12, <4>13
    <3> QED
      BY <1>2, <2>2, <3>2, <3>4, <3>5
  <2>5. CASE Busy /\ state_q = "READ"
    <3>1. Core!DataAddr(ToCore, state_q') = ThisWord
      BY <1>5, <2>5 DEF Core!DataAddr, ThisWord
    <3>2. place = ThisWord
      BY <2>5, WorkNext DEF ThisWord, Core!SetOf, Core!WordOf, Core!LineOf
    <3> HIDE DEF place
    <3>3. ~Fills(way, AckFor(TRUE)) /\ ~StoresTo(way)
      BY <2>5 DEF Fills, StoresTo
    <3>4. data'[way][place] = data[way][place]
      BY <2>3, <3>3, RamsNext
    <3> QED
      BY <1>2, <2>2, <3>1, <3>2, <3>4
  <2> QED
    BY <2>1, <2>4, <2>5
<1> QED
  BY <1>4, <1>5 DEF Outputs, Core!Ways

-----------------------------------------------------------------------------
(***************************************************************************)
(* What memory and cache hold after the cycle: nothing new, a word stored, *)
(* tags cleared, a line written back, a word or the last word of a line    *)
(* that is filled.                                                         *)
(***************************************************************************)
LEMMA LineFacts ==
    ASSUME NEW way \in Core!Ways, NEW a \in CachedAddr
    PROVE  /\ Core!SetOf(a) \in Core!Sets
           /\ <<Core!SetOf(a), Core!WordOf(a)>> \in Core!Sets \X Offsets
           /\ Holds(way, a)' <=> /\ tags'[way][Core!SetOf(a)].valid
                                 /\ tags'[way][Core!SetOf(a)].tag = Core!TagOf(a)
           /\ Dirt(way, a)' <=> Holds(way, a)' /\ tags'[way][Core!SetOf(a)].dirty
           /\ InWay(way, a)' = data'[way][<<Core!SetOf(a), Core!WordOf(a)>>]
           /\ Filling(way, a)' <=> /\ state_q' = "REFILL" /\ replace_way_q' = way
                                   /\ Core!SetOf(a) = Core!SetOf(m_q.addr)'
<1>1. a \in Nat
  BY Sizes
<1> QED
  BY <1>1, Place DEF Holds, Dirt, InWay, Filling

LEMMA SameWord ==
    ASSUME NEW way \in Core!Ways, NEW a \in CachedAddr
    PROVE  /\ tags'[way][Core!SetOf(a)] = tags[way][Core!SetOf(a)]
                => (Holds(way, a)' <=> Holds(way, a)) /\ (Dirt(way, a)' <=> Dirt(way, a))
           /\ data'[way][<<Core!SetOf(a), Core!WordOf(a)>>]
                = data[way][<<Core!SetOf(a), Core!WordOf(a)>>]
                => InWay(way, a)' = InWay(way, a)
BY LineFacts DEF Holds, Dirt, InWay

LEMMA NewestNext ==
    ASSUME NEW a \in CachedAddr, NEW w, mem'[a] = mem[a],
           m_q' = m_q \/ m_q.op # "STORE" \/ m_q.addr # a, Newest(a, w)
    PROVE  Newest(a, w)'
BY DEF Newest

LEMMA NothingNew ==
    ASSUME DcacheInv, state_q # "RESET", state_q' # "RESET",
           NEW decoded, NEW take \in BOOLEAN, Clock(decoded, take),
           tags' = tags, data' = data,
           \A a \in CachedAddr : mem'[a] = mem[a] /\ pmem'[a] = pmem[a],
           m_q' = m_q \/ m_q.op # "STORE",
           \A a \in CachedAddr : \A way \in Core!Ways : Filling(way, a) => Filling(way, a)'
    PROVE  Contents'
<1>1. Beyond' /\ InMemory /\ Lines
  BY MemoryNext, TypedFacts DEF Contents
<1>2. ASSUME NEW way \in Core!Ways, NEW a \in CachedAddr
      PROVE  /\ Holds(way, a)' <=> Holds(way, a)
             /\ Dirt(way, a)' <=> Dirt(way, a)
             /\ InWay(way, a)' = InWay(way, a)
  BY SameWord
<1>3. Tagged' /\ Single'
  BY <1>1, <1>2 DEF Lines, Tagged, Single, Core!Ways, Core!Sets, Core!SetOf, Core!TagOf,
                    Core!LineOf
<1>4. DirtyIsNew'
  <2>1. ASSUME NEW a \in CachedAddr, NEW way \in Core!Ways, Dirt(way, a)'
        PROVE  Newest(a, InWay(way, a))'
    <3>1. PICK w : w = InWay(way, a)
      OBVIOUS
    <3>2. Newest(a, w)
      BY <1>1, <1>2, <2>1, <3>1 DEF Lines, DirtyIsNew
    <3>3. Newest(a, w)'
      BY <3>2, NewestNext
    <3> QED
      BY <1>2, <3>1, <3>3 DEF Newest
  <2> QED
    BY <2>1 DEF DirtyIsNew, Core!Ways
<1>5. CleanIsMemory'
  BY <1>1, <1>2 DEF Lines, CleanIsMemory, Core!Ways
<1>6. InMemory'
  BY <1>1, <1>2 DEF InMemory, Core!Ways
<1> QED
  BY <1>1, <1>3, <1>4, <1>5, <1>6 DEF Contents, Lines

\* A store that hits, at once or when its line has been filled.
LEMMA Stored ==
    ASSUME DcacheInv, m_q.op = "STORE", Ready \/ state_q = "WRITE",
           NEW decoded, NEW take \in BOOLEAN, Clock(decoded, take)
    PROVE  Contents'
<1>1. /\ Beyond' /\ InMemory /\ Tagged /\ Single /\ DirtyIsNew /\ CleanIsMemory /\ Modes
      /\ state_q \in {"LOOKUP", "WRITE"}
  BY MemoryNext, TypedFacts DEF Contents, Lines, Ready
<1>2. Core!Accesses /\ m_q.addr \in CachedAddr /\ ~flushing_q
  <2>1. Core!Accesses
    BY DEF Core!Accesses
  <2> QED
    BY <1>1, <2>1, Doing DEF Modes
<1>3. state_q' \in {"LOOKUP", "WRITEBACK", "FLUSH_ADDR"}
  BY RequestNext, StateNext
<1>4. ThisSet = Core!SetOf(m_q.addr) /\ ThisSet \in Core!Sets
      /\ \A way \in Core!Ways : Core!Hit(way) <=> Holds(way, m_q.addr)
  BY <1>1, <1>2, HitMeans, TypedFacts
<1>5. PICK h \in Core!Ways : Holds(h, m_q.addr)
                             /\ (state_q = "WRITE" => h = replace_way_q)
  <2>1. CASE Ready
    BY <1>2, <1>4, <2>1 DEF Ready, Core!Miss, Core!HitAny
  <2>2. CASE state_q = "WRITE"
    BY <2>2, TypedFacts DEF Chosen
  <2> QED
    BY <2>1, <2>2
<1>6. \A way \in Core!Ways : Holds(way, m_q.addr) <=> way = h
  BY <1>1, <1>2, <1>5 DEF Single, Core!Ways
<1>7. ASSUME NEW way \in Core!Ways
      PROVE  (Core!WritesTag(way, AckFor(TRUE)) <=> way = h) /\ (StoresTo(way) <=> way = h)
             /\ ~Fills(way, AckFor(TRUE))
  <2>1. StoresTo(way) <=> way = h
    BY <1>1, <1>4, <1>6 DEF StoresTo
  <2>2. Core!WritesTag(way, AckFor(TRUE)) <=> way = h
    BY <1>1, <1>4, <1>5, <1>6 DEF Core!WritesTag
  <2> QED
    BY <1>1, <2>1, <2>2 DEF Fills
<1>8. Core!TagWritten = Core!Dirty(Core!TagOf(m_q.addr))
  BY <1>1, <1>2 DEF Core!TagWritten
<1>9. ASSUME NEW way \in Core!Ways, NEW s \in Core!Sets
      PROVE  tags'[way][s] = IF way = h /\ s = ThisSet THEN Core!Dirty(Core!TagOf(m_q.addr))
                             ELSE tags[way][s]
  BY <1>1, <1>7, <1>8, RamsNext
<1>10. ASSUME NEW way \in Core!Ways, NEW p \in Core!Sets \X Offsets
       PROVE  data'[way][p] = IF way = h /\ p = ThisWord THEN m_q.data ELSE data[way][p]
  BY <1>7, RamsNext
<1>11. tags[h][ThisSet].valid /\ tags[h][ThisSet].tag = Core!TagOf(m_q.addr)
  BY <1>4, <1>5 DEF Holds
<1>12. ASSUME NEW way \in Core!Ways, NEW a \in CachedAddr
       PROVE  /\ Holds(way, a)' <=> Holds(way, a)
              /\ Dirt(way, a)' <=> \/ Dirt(way, a)
                                   \/ way = h /\ Core!SetOf(a) = ThisSet /\ Holds(h, a)
              /\ ~Filling(way, a)'
  <2>1. tags'[way][Core!SetOf(a)] = IF way = h /\ Core!SetOf(a) = ThisSet
                                    THEN Core!Dirty(Core!TagOf(m_q.addr))
                                    ELSE tags[way][Core!SetOf(a)]
    BY <1>9, LineFacts
  <2>2. ~Filling(way, a)'
    BY <1>3, LineFacts
  <2>3. CASE way = h /\ Core!SetOf(a) = ThisSet
    <3>1. tags'[way][Core!SetOf(a)] = Core!Dirty(Core!TagOf(m_q.addr))
      BY <2>1, <2>3
    <3>2. /\ tags'[way][Core!SetOf(a)].valid /\ tags'[way][Core!SetOf(a)].dirty
          /\ tags'[way][Core!SetOf(a)].tag = Core!TagOf(m_q.addr)
      BY <3>1 DEF Core!Dirty
    <3>3. Holds(way, a) <=> Core!TagOf(m_q.addr) = Core!TagOf(a)
      BY <1>11, <2>3 DEF Holds
    <3>4. /\ Holds(way, a)' <=> Core!TagOf(m_q.addr) = Core!TagOf(a)
          /\ Dirt(way, a)' <=> Holds(way, a)'
      <4>1. /\ Holds(way, a)' <=> /\ tags'[way][Core!SetOf(a)].valid
                                 /\ tags'[way][Core!SetOf(a)].tag = Core!TagOf(a)
            /\ Dirt(way, a)' <=> Holds(way, a)' /\ tags'[way][Core!SetOf(a)].dirty
        BY LineFacts
      <4> QED
        BY <3>2, <4>1
    <3> QED
      BY <2>2, <2>3, <3>3, <3>4 DEF Dirt
  <2>4. CASE ~(way = h /\ Core!SetOf(a) = ThisSet)
    BY <2>1, <2>2, <2>4, SameWord
  <2> QED
    BY <2>3, <2>4
<1>13. ASSUME NEW way \in Core!Ways, NEW a \in CachedAddr, Holds(way, a)
       PROVE  InWay(way, a)' = IF a = m_q.addr THEN m_q.data ELSE InWay(way, a)
  <2> DEFINE p == <<Core!SetOf(a), Core!WordOf(a)>>
  <2>1. p \in Core!Sets \X Offsets /\ InWay(way, a)' = data'[way][p]
        /\ InWay(way, a) = data[way][p]
    BY LineFacts DEF InWay
  <2>2. a = m_q.addr => way = h /\ p = ThisWord
    BY <1>6, <1>13 DEF ThisWord
  <2>3. ASSUME way = h, p = ThisWord
        PROVE  a = m_q.addr
    <3>1. Core!SetOf(a) = Core!SetOf(m_q.addr) /\ Core!WordOf(a) = Core!WordOf(m_q.addr)
      BY <2>3 DEF ThisWord
    <3>2. Core!TagOf(a) = Core!TagOf(m_q.addr)
      BY <1>5, <1>13, <2>3, <3>1 DEF Holds
    <3> QED
      BY <1>2, <3>1, <3>2, Sizes, OneWord
  <2> HIDE DEF p
  <2> QED
    BY <1>10, <2>1, <2>2, <2>3
<1>14. ASSUME NEW a \in CachedAddr
       PROVE  /\ pmem'[a] = pmem[a]
              /\ a # m_q.addr => mem'[a] = mem[a]
              /\ a = m_q.addr => mem'[a] = m_q.data \/ (mem'[a] = mem[a] /\ m_q' = m_q)
  <2>1. pmem'[a] = pmem[a]
    BY <1>1, MemoryNext
  <2>2. mem'[a] = IF Ready /\ m_q.op = "STORE" /\ m_q.addr = a THEN m_q.data ELSE mem[a]
    BY MemoryNext
  <2>3. ~Ready => m_q' = m_q
    BY RequestNext
  <2> QED
    BY <2>1, <2>2, <2>3
<1>15. Tagged'
  <2>1. ASSUME NEW way \in Core!Ways, NEW s \in Core!Sets, tags'[way][s].valid
        PROVE  \E a \in CachedAddr : Core!SetOf(a) = s /\ Core!TagOf(a) = tags'[way][s].tag
    <3>1. CASE way = h /\ s = ThisSet
      <4>1. tags'[way][s].tag = Core!TagOf(m_q.addr)
        BY <1>9, <3>1 DEF Core!Dirty
      <4> QED
        BY <1>2, <1>4, <3>1, <4>1
    <3>2. CASE ~(way = h /\ s = ThisSet)
      BY <1>1, <1>9, <2>1, <3>2 DEF Tagged
    <3> QED
      BY <3>1, <3>2
  <2> QED
    BY <2>1 DEF Tagged, Core!Ways, Core!Sets, Core!SetOf, Core!TagOf, Core!LineOf
<1>16. Single'
  BY <1>1, <1>12 DEF Single, Core!Ways
<1>17. DirtyIsNew'
  <2>1. ASSUME NEW a \in CachedAddr, NEW way \in Core!Ways, Dirt(way, a)'
        PROVE  Newest(a, InWay(way, a))'
    <3>1. Holds(way, a)
      BY <1>12, <2>1 DEF Dirt
    <3>2. PICK w : w = InWay(way, a)'
      OBVIOUS
    <3>3. CASE a = m_q.addr
      <4>1. w = m_q.data
        BY <1>13, <3>1, <3>2, <3>3
      <4>2. w = mem'[a] \/ (m_q' = m_q)
        BY <1>14, <3>3, <4>1
      <4> QED
        BY <3>2, <3>3, <4>1, <4>2 DEF Newest
    <3>4. CASE a # m_q.addr
      <4>1. w = InWay(way, a) /\ mem'[a] = mem[a]
        BY <1>13, <1>14, <3>1, <3>2, <3>4
      <4>2. w = mem[a]
        <5>1. CASE Dirt(way, a)
          BY <1>1, <3>4, <4>1, <5>1 DEF DirtyIsNew, Newest
        <5>2. CASE ~Dirt(way, a)
          <6>1. ~Filling(way, a)
            BY <1>1 DEF Filling
          <6>2. w = pmem[a]
            BY <1>1, <3>1, <4>1, <5>2, <6>1 DEF CleanIsMemory
          <6>3. \A v \in Core!Ways : ~Dirt(v, a)
            BY <1>1, <3>1, <5>2 DEF Single, Dirt, Core!Ways
          <6> QED
            BY <1>1, <6>2, <6>3 DEF InMemory
        <5> QED
          BY <5>1, <5>2
      <4> QED
        BY <3>2, <4>1, <4>2 DEF Newest
    <3> QED
      BY <3>3, <3>4
  <2> QED
    BY <2>1 DEF DirtyIsNew, Core!Ways
<1>18. CleanIsMemory'
  <2>1. ASSUME NEW a \in CachedAddr, NEW way \in Core!Ways, Holds(way, a)', ~Dirt(way, a)'
        PROVE  InWay(way, a)' = pmem'[a]
    <3>1. Holds(way, a) /\ ~Dirt(way, a) /\ ~(way = h /\ Core!SetOf(a) = ThisSet)
      BY <1>12, <2>1
    <3>2. a # m_q.addr
      BY <1>4, <1>6, <3>1
    <3>3. ~Filling(way, a)
      BY <1>1 DEF Filling
    <3> QED
      BY <1>1, <1>13, <1>14, <3>1, <3>2, <3>3 DEF CleanIsMemory
  <2> QED
    BY <2>1 DEF CleanIsMemory, Core!Ways
<1>19. InMemory'
  <2>1. ASSUME NEW a \in CachedAddr, \A way \in Core!Ways : ~Dirt(way, a)'
        PROVE  pmem'[a] = mem'[a]
    <3>1. /\ \A way \in Core!Ways : ~Dirt(way, a)
          /\ ~(Core!SetOf(a) = ThisSet /\ Holds(h, a))
      BY <1>12, <2>1
    <3>2. a # m_q.addr
      BY <1>4, <1>5, <3>1
    <3> QED
      BY <1>1, <1>14, <3>1, <3>2 DEF InMemory
  <2> QED
    BY <1>3, <2>1 DEF InMemory, Core!Ways
<1> QED
  BY <1>1, <1>15, <1>16, <1>17, <1>18, <1>19 DEF Contents, Lines

\* A set without dirty lines is cleared.
LEMMA Cleared ==
    ASSUME DcacheInv, state_q = "FLUSH", ~Core!DirtyAny,
           NEW decoded, NEW take \in BOOLEAN, Clock(decoded, take)
    PROVE  Contents'
<1>1. /\ Beyond' /\ InMemory /\ Tagged /\ Single /\ DirtyIsNew /\ CleanIsMemory /\ Modes
      /\ Busy
  BY MemoryNext, TypedFacts DEF Contents, Lines, Busy, Ready
<1>2. m_q' = m_q /\ state_q' # "REFILL" /\ state_q' # "RESET" /\ flushing_q
  BY <1>1, WorkNext, StateNext DEF Modes
<1>3. ASSUME NEW way \in Core!Ways
      PROVE  Core!WritesTag(way, AckFor(TRUE)) /\ ~StoresTo(way) /\ ~Fills(way, AckFor(TRUE))
  BY DEF Core!WritesTag, StoresTo, Fills
<1>4. data' = data
  BY <1>3, Kept
<1>5. ASSUME NEW way \in Core!Ways, NEW s \in Core!Sets
      PROVE  tags'[way][s] = IF s = ThisSet THEN Core!NoTag ELSE tags[way][s]
  <2>1. Core!TagWritten = Core!NoTag
    BY DEF Core!TagWritten
  <2> QED
    BY <1>3, <2>1, RamsNext
<1>6. ASSUME NEW way \in Core!Ways
      PROVE  ~(tags[way][ThisSet].valid /\ tags[way][ThisSet].dirty)
  <2>1. tag_out[way] = tags[way][ThisSet]
    BY HitMeans
  <2> QED
    BY <2>1 DEF Core!DirtyAny, Core!IsDirty
<1>7. ASSUME NEW a \in CachedAddr
      PROVE  mem'[a] = mem[a] /\ pmem'[a] = pmem[a]
  BY MemoryNext DEF Ready
<1>8. ASSUME NEW way \in Core!Ways, NEW a \in CachedAddr
      PROVE  /\ Holds(way, a)' <=> Holds(way, a) /\ Core!SetOf(a) # ThisSet
             /\ Dirt(way, a)' <=> Dirt(way, a)
             /\ InWay(way, a)' = InWay(way, a)
             /\ ~Filling(way, a)
  <2>1. tags'[way][Core!SetOf(a)] = IF Core!SetOf(a) = ThisSet THEN Core!NoTag
                                    ELSE tags[way][Core!SetOf(a)]
    BY <1>5, LineFacts
  <2>2. InWay(way, a)' = InWay(way, a) /\ ~Filling(way, a)
    BY <1>4, SameWord DEF Filling
  <2>3. CASE Core!SetOf(a) = ThisSet
    <3>1. ~tags'[way][Core!SetOf(a)].valid
      BY <2>1, <2>3 DEF Core!NoTag
    <3>2. ~Holds(way, a)' /\ ~Dirt(way, a)'
      BY <3>1, LineFacts
    <3>3. ~Dirt(way, a)
      BY <1>6, <2>3 DEF Dirt, Holds
    <3> QED
      BY <2>2, <2>3, <3>2, <3>3
  <2>4. CASE Core!SetOf(a) # ThisSet
    BY <2>1, <2>2, <2>4, SameWord
  <2> QED
    BY <2>3, <2>4
<1>9. Tagged'
  <2>1. ASSUME NEW way \in Core!Ways, NEW s \in Core!Sets, tags'[way][s].valid
        PROVE  \E a \in CachedAddr : Core!SetOf(a) = s /\ Core!TagOf(a) = tags'[way][s].tag
    <3>1. s # ThisSet
      BY <1>5, <2>1 DEF Core!NoTag
    <3> QED
      BY <1>1, <1>5, <2>1, <3>1 DEF Tagged
  <2> QED
    BY <2>1 DEF Tagged, Core!Ways, Core!Sets, Core!SetOf, Core!TagOf, Core!LineOf
<1>10. Single'
  BY <1>1, <1>8 DEF Single, Core!Ways
<1>11. DirtyIsNew'
  <2>1. ASSUME NEW a \in CachedAddr, NEW way \in Core!Ways, Dirt(way, a)'
        PROVE  Newest(a, InWay(way, a))'
    <3>1. PICK w : w = InWay(way, a)
      OBVIOUS
    <3>2. Newest(a, w)
      BY <1>1, <1>8, <2>1, <3>1 DEF DirtyIsNew
    <3>3. Newest(a, w)'
      BY <1>2, <1>7, <3>2, NewestNext
    <3> QED
      BY <1>8, <3>1, <3>3 DEF Newest
  <2> QED
    BY <2>1 DEF DirtyIsNew, Core!Ways
<1>12. CleanIsMemory'
  BY <1>1, <1>7, <1>8 DEF CleanIsMemory, Core!Ways
<1>13. InMemory'
  BY <1>1, <1>2, <1>7, <1>8 DEF InMemory, Core!Ways
<1> QED
  BY <1>1, <1>9, <1>10, <1>11, <1>12, <1>13 DEF Contents, Lines

\* A dirty line has reached memory.
LEMMA WrittenBack ==
    ASSUME DcacheInv, state_q = "EVICT_WAIT", AckFor(TRUE) # "NONE",
           NEW decoded, NEW take \in BOOLEAN, Clock(decoded, take)
    PROVE  Contents'
<1>0. PICK r \in Core!Ways : r = replace_way_q
  BY TypedFacts
<1>1. /\ Beyond' /\ InMemory /\ Tagged /\ Single /\ DirtyIsNew /\ CleanIsMemory /\ Modes
      /\ Chosen /\ Busy /\ ThisSet \in Core!Sets
  BY MemoryNext, TypedFacts DEF Contents, Lines, Busy, Ready
<1>2. /\ m_q' = m_q /\ m_q \in Operations
      /\ Core!SetOf(m_q.addr)' = Core!SetOf(m_q.addr)
      /\ state_q' = IF m_q.op = "DWRITEBACK" THEN "LOOKUP"
                    ELSE IF flushing_q THEN "FLUSH_ADDR" ELSE "REFILL"
      /\ flushing_q <=> m_q.op = "DFLUSH"
      /\ ~flushing_q => ThisSet = Core!SetOf(m_q.addr)
      /\ AckFor(TRUE) = bus_ack
  BY <1>1, WorkNext, StateNext, Doing DEF Modes
<1>3. state_q' = "REFILL" => replace_way_q' = r
  BY <1>0, <1>1, <1>2, ReplaceNext
<1>4. ASSUME NEW way \in Core!Ways
      PROVE  (Core!WritesTag(way, AckFor(TRUE)) <=> way = r) /\ ~StoresTo(way)
             /\ ~Fills(way, AckFor(TRUE))
  BY <1>0 DEF Core!WritesTag, StoresTo, Fills
<1>5. data' = data
  BY <1>4, Kept
<1>6. Core!TagWritten = IF flushing_q THEN Core!NoTag ELSE Core!Clean(Core!TagOf(m_q.addr))
  BY DEF Core!TagWritten
<1>7. ASSUME NEW way \in Core!Ways, NEW s \in Core!Sets
      PROVE  tags'[way][s] = IF way = r /\ s = ThisSet THEN Core!TagWritten ELSE tags[way][s]
  BY <1>4, RamsNext
<1>8. ~Core!TagWritten.dirty /\ (Core!TagWritten.valid => ~flushing_q)
      /\ (~flushing_q => Core!TagWritten.valid /\ Core!TagWritten.tag = Core!TagOf(m_q.addr))
  BY <1>6 DEF Core!NoTag, Core!Clean
<1>9. Held.valid /\ Held.dirty /\ Held = tags[r][ThisSet]
  BY <1>0, <1>1 DEF Chosen, Held
<1> DEFINE Left(a) == Core!SetOf(a) = ThisSet /\ Holds(r, a)
<1>10. ASSUME NEW a \in CachedAddr
       PROVE  /\ mem'[a] = mem[a]
              /\ pmem'[a] = IF Left(a) THEN InWay(r, a) ELSE pmem[a]
              /\ Left(a) => Dirt(r, a) /\ InWay(r, a) = mem[a]
  <2>1. mem'[a] = mem[a] /\ pmem'[a] = IF Left(a) THEN InWay(r, a) ELSE pmem[a]
    BY <1>0, <1>2, MemoryNext DEF Ready
  <2>2. ASSUME Left(a)
        PROVE  Dirt(r, a) /\ InWay(r, a) = mem[a]
    <3>1. Dirt(r, a)
      BY <1>9, <2>2 DEF Dirt
    <3>2. Newest(a, InWay(r, a))
      BY <1>1, <3>1 DEF DirtyIsNew
    <3>3. ~(m_q.op = "STORE" /\ m_q.addr = a)
      <4>1. m_q.op = "STORE" => ~Holds(r, m_q.addr)
        BY <1>1 DEF Chosen, Core!Accesses
      <4> QED
        BY <2>2, <4>1
    <3> QED
      BY <3>1, <3>2, <3>3 DEF Newest
  <2> QED
    BY <2>1, <2>2
<1>11. ASSUME NEW way \in Core!Ways, NEW a \in CachedAddr, way # r \/ Core!SetOf(a) # ThisSet
       PROVE  /\ Holds(way, a)' <=> Holds(way, a)
              /\ Dirt(way, a)' <=> Dirt(way, a)
  <2>1. tags'[way][Core!SetOf(a)] = tags[way][Core!SetOf(a)]
    BY <1>7, <1>11, LineFacts
  <2> QED
    BY <2>1, SameWord
<1>12. ASSUME NEW a \in CachedAddr, Core!SetOf(a) = ThisSet
       PROVE  /\ ~Dirt(r, a)'
              /\ Holds(r, a)' => ~flushing_q /\ Core!TagOf(a) = Core!TagOf(m_q.addr)
  <2>1. tags'[r][Core!SetOf(a)] = Core!TagWritten
    BY <1>1, <1>7, <1>12
  <2>2. /\ Holds(r, a)' => /\ tags'[r][Core!SetOf(a)].valid
                          /\ tags'[r][Core!SetOf(a)].tag = Core!TagOf(a)
        /\ Dirt(r, a)' => tags'[r][Core!SetOf(a)].dirty
    BY LineFacts
  <2> QED
    BY <1>8, <2>1, <2>2
<1>13. ASSUME NEW way \in Core!Ways, NEW a \in CachedAddr
       PROVE  InWay(way, a)' = InWay(way, a) /\ ~Filling(way, a)
  BY <1>5, SameWord DEF Filling
\* A way that holds another line of the set keeps its words and its tag.
<1>14. ASSUME NEW way \in Core!Ways, NEW a \in CachedAddr, Left(a), Holds(way, a)
       PROVE  way = r
  BY <1>1, <1>14 DEF Single, Core!Ways
<1>15. Tagged'
  <2>1. ASSUME NEW way \in Core!Ways, NEW s \in Core!Sets, tags'[way][s].valid
        PROVE  \E a \in CachedAddr : Core!SetOf(a) = s /\ Core!TagOf(a) = tags'[way][s].tag
    <3>1. CASE way = r /\ s = ThisSet
      <4>1. tags'[way][s].tag = Core!TagOf(m_q.addr) /\ ~flushing_q
        BY <1>7, <1>8, <2>1, <3>1
      <4>2. CASE Core!Accesses
        <5>1. m_q.addr \in CachedAddr
          BY <4>2, Doing
        <5> QED
          BY <1>2, <3>1, <4>1, <5>1
      <4>3. CASE ~Core!Accesses
        <5>1. m_q.op = "DWRITEBACK"
          BY <1>2, <4>1, <4>3, Names DEF Core!Accesses
        <5>2. Held.tag = Core!TagOf(m_q.addr)
          BY <1>0, <1>1, <1>2, <1>9, <4>1, <5>1 DEF Chosen, Holds
        <5> QED
          BY <1>1, <1>9, <3>1, <4>1, <5>2 DEF Tagged
      <4> QED
        BY <4>2, <4>3
    <3>2. CASE ~(way = r /\ s = ThisSet)
      BY <1>1, <1>7, <2>1, <3>2 DEF Tagged
    <3> QED
      BY <3>1, <3>2
  <2> QED
    BY <2>1 DEF Tagged, Core!Ways, Core!Sets, Core!SetOf, Core!TagOf, Core!LineOf
\* The line whose tag is new is in no other way.
<1>16. ASSUME NEW way \in Core!Ways, way # r, NEW a \in CachedAddr,
              Core!SetOf(a) = ThisSet, Holds(r, a)'
       PROVE  ~Holds(way, a)
  <2> SUFFICES ASSUME Holds(way, a) PROVE FALSE
    OBVIOUS
  <2>1. ~flushing_q /\ Core!TagOf(a) = Core!TagOf(m_q.addr)
    BY <1>12, <1>16
  <2>2. Core!SetOf(a) = Core!SetOf(m_q.addr)
    BY <1>2, <1>16, <2>1
  <2>3. CASE Core!Accesses
    <3>1. ~Holds(way, m_q.addr)
      BY <1>1, <2>3 DEF Chosen
    <3> QED
      BY <2>1, <2>2, <3>1 DEF Holds
  <2>4. CASE ~Core!Accesses
    <3>1. m_q.op = "DWRITEBACK"
      BY <1>2, <2>1, <2>4, Names DEF Core!Accesses
    <3>2. Holds(r, m_q.addr)
      BY <1>0, <1>1, <3>1 DEF Chosen
    <3>3. Holds(r, a)
      BY <2>1, <2>2, <3>2 DEF Holds
    <3> QED
      BY <1>14, <1>16, <3>3
  <2> QED
    BY <2>3, <2>4
<1>17. Single'
  <2>1. ASSUME NEW a \in CachedAddr
        PROVE  ~(Holds(0, a)' /\ Holds(1, a)')
    <3>1. PICK v \in Core!Ways : v # r /\ {v, r} = {0, 1}
      BY DEF Core!Ways
    <3>2. CASE Core!SetOf(a) = ThisSet
      <4>1. Holds(r, a)' => ~Holds(v, a)'
        BY <1>11, <1>16, <3>1, <3>2
      <4> QED
        BY <3>1, <4>1
    <3>3. CASE Core!SetOf(a) # ThisSet
      BY <1>1, <1>11, <3>3 DEF Single, Core!Ways
    <3> QED
      BY <3>2, <3>3
  <2> QED
    BY <2>1 DEF Single
<1>18. DirtyIsNew'
  <2>1. ASSUME NEW a \in CachedAddr, NEW way \in Core!Ways, Dirt(way, a)'
        PROVE  Newest(a, InWay(way, a))'
    <3>1. Dirt(way, a)
      BY <1>11, <1>12, <2>1
    <3>2. PICK w : w = InWay(way, a)
      OBVIOUS
    <3>3. Newest(a, w)
      BY <1>1, <3>1, <3>2 DEF DirtyIsNew
    <3>4. Newest(a, w)'
      BY <1>2, <1>10, <3>3, NewestNext
    <3> QED
      BY <1>13, <3>2, <3>4 DEF Newest
  <2> QED
    BY <2>1 DEF DirtyIsNew, Core!Ways
<1>19. CleanIsMemory'
  <2>1. ASSUME NEW a \in CachedAddr, NEW way \in Core!Ways, Holds(way, a)', ~Dirt(way, a)',
               ~Filling(way, a)'
        PROVE  InWay(way, a)' = pmem'[a]
    <3>1. CASE way = r /\ Core!SetOf(a) = ThisSet
      <4>1. ~flushing_q /\ Core!TagOf(a) = Core!TagOf(m_q.addr)
            /\ Core!SetOf(a) = Core!SetOf(m_q.addr)
        BY <1>2, <1>12, <2>1, <3>1
      <4>2. m_q.op = "DWRITEBACK"
        <5> SUFFICES ASSUME m_q.op # "DWRITEBACK" PROVE FALSE
          OBVIOUS
        <5>1. state_q' = "REFILL" /\ replace_way_q' = r
          BY <1>2, <1>3, <4>1
        <5> QED
          BY <1>2, <2>1, <3>1, <4>1, <5>1, LineFacts
      <4>3. Holds(r, a)
        BY <1>0, <1>1, <4>1, <4>2 DEF Chosen, Holds
      <4> QED
        BY <1>10, <1>13, <3>1, <4>3
    <3>2. CASE ~(way = r /\ Core!SetOf(a) = ThisSet)
      <4>1. Holds(way, a) /\ ~Dirt(way, a)
        BY <1>11, <2>1, <3>2
      <4>2. ~Left(a)
        BY <1>14, <3>2, <4>1
      <4> QED
        BY <1>1, <1>10, <1>13, <4>1, <4>2 DEF CleanIsMemory
    <3> QED
      BY <3>1, <3>2
  <2> QED
    BY <2>1 DEF CleanIsMemory, Core!Ways
<1>20. InMemory'
  <2>1. ASSUME NEW a \in CachedAddr, \A way \in Core!Ways : ~Dirt(way, a)'
        PROVE  pmem'[a] = mem'[a]
    <3>1. CASE Left(a)
      BY <1>10, <3>1
    <3>2. CASE ~Left(a)
      <4>1. \A way \in Core!Ways : ~Dirt(way, a)
        BY <1>11, <2>1, <3>2 DEF Dirt
      <4> QED
        BY <1>1, <1>10, <3>2, <4>1 DEF InMemory
    <3> QED
      BY <3>1, <3>2
  <2>2. state_q' # "RESET"
    BY <1>2
  <2> QED
    BY <2>1, <2>2 DEF InMemory, Core!Ways
<1> QED
  BY <1>1, <1>15, <1>17, <1>18, <1>19, <1>20 DEF Contents, Lines

\* A word of the line comes from memory, and with the last one the tag.
LEMMA Refilled ==
    ASSUME DcacheInv, state_q = "REFILL", AckFor(TRUE) # "NONE",
           NEW decoded, NEW take \in BOOLEAN, Clock(decoded, take)
    PROVE  Contents'
<1>0. PICK r \in Core!Ways : r = replace_way_q
  BY TypedFacts
<1>1. /\ Beyond' /\ InMemory /\ Tagged /\ Single /\ DirtyIsNew /\ CleanIsMemory /\ Modes
      /\ Filled /\ Busy /\ ThisSet \in Core!Sets /\ data_write_q \in Offsets
  BY MemoryNext, TypedFacts DEF Contents, Lines, Busy, Ready
<1>2. PICK o \in Operations : CoreOwes(o)
  BY <1>1, Doing
<1>3. /\ m_q' = m_q /\ m_q \in Operations /\ Core!Accesses /\ ~flushing_q
      /\ m_q.addr \in CachedAddr /\ m_q.addr \in Nat
      /\ ThisSet = Core!SetOf(m_q.addr)
      /\ Core!SetOf(m_q.addr)' = Core!SetOf(m_q.addr)
  <2>1. Core!Accesses
    BY <1>1 DEF Modes
  <2>2. ~flushing_q
    BY <1>1, <2>1 DEF Modes, Core!Accesses
  <2>3. m_q.addr \in CachedAddr
    BY <2>1, Doing
  <2> QED
    BY <1>1, <2>1, <2>2, <2>3, WorkNext, Doing, Sizes
<1>4. /\ bus_ack # "NONE"
      /\ Core!PmemLast <=> data_write_q = LineWords - 1
      /\ BusData = pmem[Base + data_write_q]
      /\ state_q' # "RESET"
      /\ ~Core!PmemLast => state_q' = "REFILL"
      /\ Core!PmemLast => state_q' # "REFILL"
  BY <1>2, Inside, RefillStep
<1>5. replace_way_q' = r
  BY <1>0, <1>1, ReplaceNext
<1>6. ASSUME NEW way \in Core!Ways
      PROVE  /\ Core!WritesTag(way, AckFor(TRUE)) <=> way = r /\ Core!PmemLast
             /\ ~StoresTo(way) /\ (Fills(way, AckFor(TRUE)) <=> way = r)
  BY <1>0 DEF Core!WritesTag, StoresTo, Fills
<1>7. Core!TagWritten = Core!Clean(Core!TagOf(m_q.addr))
  BY <1>3 DEF Core!TagWritten
<1>8. ASSUME NEW way \in Core!Ways, NEW s \in Core!Sets
      PROVE  tags'[way][s] = IF way = r /\ Core!PmemLast /\ s = ThisSet
                             THEN Core!Clean(Core!TagOf(m_q.addr)) ELSE tags[way][s]
  BY <1>6, <1>7, RamsNext
<1>9. ASSUME NEW way \in Core!Ways, NEW p \in Core!Sets \X Offsets
      PROVE  data'[way][p] = IF way = r /\ p = <<ThisSet, data_write_q>> THEN BusData
                             ELSE data[way][p]
  BY <1>6, RamsNext
<1>10. ASSUME NEW a \in CachedAddr
       PROVE  mem'[a] = mem[a] /\ pmem'[a] = pmem[a]
  BY MemoryNext DEF Ready
<1>11. ~(tags[r][ThisSet].valid /\ tags[r][ThisSet].dirty)
       /\ \A way \in Core!Ways : way # r => ~Holds(way, m_q.addr)
  <2>1. \A way \in Core!Ways : way # r => way = 1 - replace_way_q
    BY <1>0 DEF Core!Ways
  <2> QED
    BY <1>0, <1>1, <2>1 DEF Filled, Held
<1>12. ASSUME NEW way \in Core!Ways, NEW a \in CachedAddr,
              ~(way = r /\ Core!PmemLast /\ Core!SetOf(a) = ThisSet)
       PROVE  /\ Holds(way, a)' <=> Holds(way, a)
              /\ Dirt(way, a)' <=> Dirt(way, a)
  <2>1. tags'[way][Core!SetOf(a)] = tags[way][Core!SetOf(a)]
    BY <1>8, <1>12, LineFacts
  <2> QED
    BY <2>1, SameWord
<1>13. ASSUME NEW a \in CachedAddr, Core!SetOf(a) = ThisSet, Core!PmemLast
       PROVE  /\ Holds(r, a)' <=> Core!TagOf(a) = Core!TagOf(m_q.addr)
              /\ ~Dirt(r, a)'
  <2>1. tags'[r][Core!SetOf(a)] = Core!Clean(Core!TagOf(m_q.addr))
    BY <1>1, <1>8, <1>13
  <2>2. /\ tags'[r][Core!SetOf(a)].valid /\ ~tags'[r][Core!SetOf(a)].dirty
        /\ tags'[r][Core!SetOf(a)].tag = Core!TagOf(m_q.addr)
    BY <2>1 DEF Core!Clean
  <2>3. /\ Holds(r, a)' <=> /\ tags'[r][Core!SetOf(a)].valid
                          /\ tags'[r][Core!SetOf(a)].tag = Core!TagOf(a)
        /\ Dirt(r, a)' => tags'[r][Core!SetOf(a)].dirty
    BY LineFacts
  <2> QED
    BY <2>2, <2>3
<1>14. ASSUME NEW a \in CachedAddr, Core!SetOf(a) = ThisSet
       PROVE  ~Dirt(r, a) /\ ~Dirt(r, a)'
  <2>1. ~Dirt(r, a)
    BY <1>11, <1>14 DEF Dirt, Holds
  <2>2. CASE Core!PmemLast
    BY <1>13, <1>14, <2>1, <2>2
  <2>3. CASE ~Core!PmemLast
    BY <1>12, <1>14, <2>1, <2>3
  <2> QED
    BY <2>2, <2>3
<1>15. ASSUME NEW way \in Core!Ways, NEW a \in CachedAddr, way # r \/ Core!SetOf(a) # ThisSet
       PROVE  /\ InWay(way, a)' = InWay(way, a) /\ ~Filling(way, a)
              /\ Holds(way, a)' <=> Holds(way, a)
              /\ Dirt(way, a)' <=> Dirt(way, a)
  <2> DEFINE p == <<Core!SetOf(a), Core!WordOf(a)>>
  <2>1. p \in Core!Sets \X Offsets
    BY LineFacts
  <2>2. way = r => p # <<ThisSet, data_write_q>>
    BY <1>15
  <2>3. data'[way][p] = data[way][p]
    BY <1>9, <2>1, <2>2
  <2>4. ~Filling(way, a)
    BY <1>0, <1>3, <1>15 DEF Filling
  <2> QED
    BY <1>12, <1>15, <2>3, <2>4, SameWord
\* The line is complete with its last word.
<1>16. ASSUME NEW a \in CachedAddr, Core!SetOf(a) = ThisSet, Core!PmemLast,
              Core!TagOf(a) = Core!TagOf(m_q.addr)
       PROVE  InWay(r, a)' = pmem[a]
  <2> DEFINE w == Core!WordOf(a)
  <2>1. w \in Offsets /\ a \in Nat /\ <<ThisSet, w>> \in Core!Sets \X Offsets
        /\ InWay(r, a)' = data'[r][<<ThisSet, w>>]
    BY <1>1, <1>16, LineFacts, Place, Sizes
  <2>2. a = Base + w
    <3>1. a = First(a) + w
      BY <2>1, Place
    <3>2. First(a) = Base
      BY <1>3, <1>16 DEF First, Base
    <3> QED
      BY <3>1, <3>2
  <2> HIDE DEF w
  <2>3. CASE w = data_write_q
    BY <1>4, <1>9, <2>1, <2>2, <2>3
  <2>4. CASE w # data_write_q
    <3>1. w < data_write_q
      BY <1>4, <1>16, <2>1, <2>4, Sizes DEF Offsets
    <3>2. data[replace_way_q][<<ThisSet, w>>] = pmem[Base + w]
      BY <1>1, <2>1, <3>1 DEF Filled
    <3>3. <<ThisSet, w>> # <<ThisSet, data_write_q>>
      BY <2>4
    <3> QED
      BY <1>0, <1>9, <2>1, <2>2, <3>2, <3>3
  <2> QED
    BY <2>3, <2>4
<1>17. Tagged'
  <2>1. ASSUME NEW way \in Core!Ways, NEW s \in Core!Sets, tags'[way][s].valid
        PROVE  \E a \in CachedAddr : Core!SetOf(a) = s /\ Core!TagOf(a) = tags'[way][s].tag
    <3>1. CASE way = r /\ Core!PmemLast /\ s = ThisSet
      <4>1. tags'[way][s].tag = Core!TagOf(m_q.addr)
        BY <1>8, <3>1 DEF Core!Clean
      <4> QED
        BY <1>3, <3>1, <4>1
    <3>2. CASE ~(way = r /\ Core!PmemLast /\ s = ThisSet)
      BY <1>1, <1>8, <2>1, <3>2 DEF Tagged
    <3> QED
      BY <3>1, <3>2
  <2> QED
    BY <2>1 DEF Tagged, Core!Ways, Core!Sets, Core!SetOf, Core!TagOf, Core!LineOf
<1>18. Single'
  <2>1. ASSUME NEW a \in CachedAddr, NEW way \in Core!Ways, way # r, Holds(way, a)', Holds(r, a)'
        PROVE  FALSE
    <3>1. CASE Core!SetOf(a) = ThisSet /\ Core!PmemLast
      <4>1. Core!TagOf(a) = Core!TagOf(m_q.addr)
        BY <1>13, <2>1, <3>1
      <4>2. Holds(way, a)
        BY <1>15, <2>1
      <4>3. Holds(way, m_q.addr)
        BY <1>3, <3>1, <4>1, <4>2 DEF Holds
      <4> QED
        BY <1>11, <2>1, <4>3
    <3>2. CASE ~(Core!SetOf(a) = ThisSet /\ Core!PmemLast)
      <4>1. Holds(way, a) /\ Holds(r, a)
        BY <1>12, <2>1, <3>2
      <4> QED
        BY <1>1, <2>1, <4>1 DEF Single, Core!Ways
    <3> QED
      BY <3>1, <3>2
  <2> QED
    BY <2>1 DEF Single, Core!Ways
<1>19. DirtyIsNew'
  <2>1. ASSUME NEW a \in CachedAddr, NEW way \in Core!Ways, Dirt(way, a)'
        PROVE  Newest(a, InWay(way, a))'
    <3>1. way # r \/ Core!SetOf(a) # ThisSet
      BY <1>14, <2>1
    <3>2. Dirt(way, a) /\ InWay(way, a)' = InWay(way, a)
      BY <1>15, <2>1, <3>1
    <3>3. PICK w : w = InWay(way, a)
      OBVIOUS
    <3>4. Newest(a, w)
      BY <1>1, <3>2, <3>3 DEF DirtyIsNew
    <3>5. Newest(a, w)'
      BY <1>3, <1>10, <3>4, NewestNext
    <3> QED
      BY <3>2, <3>3, <3>5 DEF Newest
  <2> QED
    BY <2>1 DEF DirtyIsNew, Core!Ways
<1>20. CleanIsMemory'
  <2>1. ASSUME NEW a \in CachedAddr, NEW way \in Core!Ways, Holds(way, a)', ~Dirt(way, a)',
               ~Filling(way, a)'
        PROVE  InWay(way, a)' = pmem'[a]
    <3>1. CASE way = r /\ Core!SetOf(a) = ThisSet
      <4>1. Core!PmemLast
        BY <1>3, <1>4, <1>5, <2>1, <3>1, LineFacts
      <4>2. Core!TagOf(a) = Core!TagOf(m_q.addr)
        BY <1>13, <2>1, <3>1, <4>1
      <4> QED
        BY <1>10, <1>16, <3>1, <4>1, <4>2
    <3>2. CASE ~(way = r /\ Core!SetOf(a) = ThisSet)
      <4>1. /\ Holds(way, a) /\ ~Dirt(way, a) /\ ~Filling(way, a)
            /\ InWay(way, a)' = InWay(way, a)
        BY <1>15, <2>1, <3>2
      <4> QED
        BY <1>1, <1>10, <4>1 DEF CleanIsMemory
    <3> QED
      BY <3>1, <3>2
  <2> QED
    BY <2>1 DEF CleanIsMemory, Core!Ways
<1>21. InMemory'
  <2>1. ASSUME NEW a \in CachedAddr, \A way \in Core!Ways : ~Dirt(way, a)'
        PROVE  pmem'[a] = mem'[a]
    <3>1. \A way \in Core!Ways : ~Dirt(way, a)
      BY <1>14, <1>15, <2>1
    <3> QED
      BY <1>1, <1>10, <3>1 DEF InMemory
  <2> QED
    BY <1>4, <2>1 DEF InMemory, Core!Ways
<1> QED
  BY <1>1, <1>17, <1>18, <1>19, <1>20, <1>21 DEF Contents, Lines

\* After reset no way holds anything, and memory is up to date.
LEMMA ResetContents ==
    ASSUME DcacheInv, state_q = "RESET",
           NEW decoded, NEW take \in BOOLEAN, Clock(decoded, take)
    PROVE  Contents'
<1>1. Beyond' /\ InMemory /\ Flushing /\ Modes
  BY MemoryNext, TypedFacts DEF Contents
<1>2. ASSUME NEW a \in CachedAddr
      PROVE  mem'[a] = mem[a] /\ pmem'[a] = pmem[a] /\ pmem[a] = mem[a]
  <2>1. mem'[a] = mem[a] /\ pmem'[a] = pmem[a]
    BY MemoryNext DEF Ready
  <2> QED
    BY <1>1, <2>1 DEF InMemory
<1>3. InMemory'
  BY <1>2 DEF InMemory
<1>4. CASE state_q' = "RESET"
  BY <1>1, <1>3, <1>4 DEF Contents
<1>5. CASE state_q' # "RESET"
  <2>1. flush_last_q /\ ClearTo(LastSet + 1)
    BY <1>1, <1>5, StateNext DEF Flushing
  <2>2. LastSet + 1 \in Nat
    BY Sizes
  <2>3. ClearTo(LastSet + 1)'
    BY <2>1, <2>2, ClearNext
  <2>4. ASSUME NEW way \in Core!Ways, NEW s \in Core!Sets
        PROVE  ~tags'[way][s].valid
    <3>1. s < LastSet + 1
      BY Sizes DEF Core!Sets
    <3> QED
      BY <2>3, <3>1 DEF ClearTo, Core!Ways, Core!Sets
  <2>5. ASSUME NEW way \in Core!Ways, NEW a \in CachedAddr
        PROVE  ~Holds(way, a)' /\ ~Dirt(way, a)'
    BY <2>4, LineFacts
  <2>6. Tagged' /\ Single' /\ DirtyIsNew' /\ CleanIsMemory'
    <3>1. Tagged'
      BY <2>4 DEF Tagged, Core!Ways, Core!Sets
    <3>2. Single'
      BY <2>5 DEF Single, Core!Ways
    <3>3. DirtyIsNew' /\ CleanIsMemory'
      BY <2>5 DEF DirtyIsNew, CleanIsMemory, Core!Ways
    <3> QED
      BY <3>1, <3>2, <3>3
  <2> QED
    BY <1>1, <1>3, <2>6 DEF Contents, Lines
<1> QED
  BY <1>4, <1>5

\* In all the other cycles the cache writes nothing.
LEMMA Reads ==
    ASSUME DcacheInv, state_q # "RESET", ~(m_q.op = "STORE" /\ (Ready \/ state_q = "WRITE")),
           ~(state_q = "FLUSH" /\ ~Core!DirtyAny),
           state_q \in {"EVICT_WAIT", "REFILL"} => AckFor(TRUE) = "NONE",
           NEW decoded, NEW take \in BOOLEAN, Clock(decoded, take)
    PROVE  Contents'
<1>1. /\ Modes /\ state_q \in {"FLUSH_ADDR", "FLUSH", "LOOKUP", "REFILL", "WRITE", "READ",
                               "EVICT", "EVICT_WAIT", "WRITEBACK"}
      /\ state_q # "WRITE"
  BY TypedFacts DEF Modes
<1>2. ASSUME NEW way \in Core!Ways
      PROVE  ~Core!WritesTag(way, AckFor(TRUE)) /\ ~StoresTo(way) /\ ~Fills(way, AckFor(TRUE))
  <2>1. ~Fills(way, AckFor(TRUE))
    BY DEF Fills
  <2>2. state_q = "LOOKUP" /\ m_q.op = "STORE" => Core!Miss
    BY DEF Ready
  <2>3. ~StoresTo(way)
    BY <1>1, <2>2, NoHit DEF StoresTo
  <2>4. ~Core!WritesTag(way, AckFor(TRUE))
    BY <1>1, <2>2, NoHit DEF Core!WritesTag
  <2> QED
    BY <2>1, <2>3, <2>4
<1>3. tags' = tags /\ data' = data
  BY <1>2, Kept DEF Core!Ways
<1>4. state_q' # "RESET"
  <2>1. CASE Ready
    BY <2>1, RequestNext
  <2>2. CASE Busy
    BY <1>1, <2>2, Doing, StateNext
  <2> QED
    BY <2>1, <2>2 DEF Busy
<1>5. ASSUME NEW a \in CachedAddr
      PROVE  mem'[a] = mem[a] /\ pmem'[a] = pmem[a]
  <2>1. mem'[a] = mem[a]
    BY MemoryNext
  <2>2. ~(state_q = "EVICT_WAIT" /\ bus_ack # "NONE")
    <3> SUFFICES ASSUME state_q = "EVICT_WAIT" PROVE bus_ack = "NONE"
      OBVIOUS
    <3>1. Busy
      BY DEF Busy, Ready
    <3>2. PICK o \in Operations : CoreOwes(o)
      BY <3>1, Doing
    <3> QED
      BY <3>2, Inside
  <2> QED
    BY <2>1, <2>2, MemoryNext
<1>6. m_q' = m_q \/ m_q.op # "STORE"
  BY RequestNext
<1>7. ASSUME NEW a \in CachedAddr, NEW way \in Core!Ways, Filling(way, a)
      PROVE  Filling(way, a)'
  <2>1. state_q = "REFILL" /\ Busy /\ state_q' = "REFILL"
    BY <1>7, StateNext DEF Filling, Busy, Ready
  <2>2. replace_way_q' = replace_way_q /\ Core!SetOf(m_q.addr)' = Core!SetOf(m_q.addr)
    BY <2>1, ReplaceNext, WorkNext
  <2> QED
    BY <1>7, <2>1, <2>2, LineFacts DEF Filling
<1> QED
  BY <1>3, <1>4, <1>5, <1>6, <1>7, NothingNew

LEMMA ContentsNext ==
    ASSUME DcacheInv, NEW decoded, NEW take \in BOOLEAN, Clock(decoded, take)
    PROVE  Contents'
<1>1. CASE state_q = "RESET"
  BY <1>1, ResetContents
<1>2. CASE m_q.op = "STORE" /\ (Ready \/ state_q = "WRITE")
  BY <1>2, Stored
<1>3. CASE state_q = "FLUSH" /\ ~Core!DirtyAny
  BY <1>3, Cleared
<1>4. CASE state_q = "EVICT_WAIT" /\ AckFor(TRUE) # "NONE"
  BY <1>4, WrittenBack
<1>5. CASE state_q = "REFILL" /\ AckFor(TRUE) # "NONE"
  BY <1>5, Refilled
<1> QED
  BY <1>1, <1>2, <1>3, <1>4, <1>5, Reads

-----------------------------------------------------------------------------
(***************************************************************************)
(* The load/store unit sees a port like the one it is proved with.         *)
(***************************************************************************)
LEMMA SameUnit ==
    ASSUME NEW decoded, NEW accept
    PROVE  /\ Lsu!RequestRegister(decoded, accept)
                = LsuP!RequestRegister(decoded, accept)
           /\ Lsu!Tracking(accept) = LsuP!Tracking(accept)
           /\ Lsu!Fifo(accept) = LsuP!Fifo(accept)
           /\ Lsu!Requesting = LsuP!Requesting
           /\ Lsu!Stall(accept) = LsuP!Stall(accept)
BY DEF Lsu!RequestRegister, Lsu!Tracking, Lsu!Fifo, Lsu!Requesting, Lsu!Delay,
       Lsu!Stall, Lsu!Answered, Lsu!Unaligned, Lsu!Push, Lsu!Pop, Lsu!Tag,
       Lsu!Nothing, Lsu!Aligned, Lsu!Misaligned, Lsu!CacheOps, Lsu!Loads,
       Lsu!FifoDepth,
       LsuP!RequestRegister, LsuP!Tracking, LsuP!Fifo, LsuP!Requesting,
       LsuP!Delay, LsuP!Stall, LsuP!Answered, LsuP!Unaligned, LsuP!Push,
       LsuP!Pop, LsuP!Tag, LsuP!Nothing, LsuP!Aligned, LsuP!Misaligned,
       LsuP!CacheOps, LsuP!Loads, LsuP!FifoDepth

LEMMA SameNames ==
    /\ Operations \subseteq LsuP!Operation
    /\ Lsu!Nothing = LsuP!Nothing
    /\ Lsu!CacheOps = LsuP!CacheOps
<1>1. Addr \subseteq Words
  BY Sizes
<1>2. Operations \subseteq [op : {"LOAD", "STORE"} \cup CacheOps, addr : Addr, data : Words]
  BY DcacheAssumption
<1>3. ASSUME NEW o \in Operations
      PROVE  o \in [op : LsuP!LsuOps, addr : Values, data : Values]
  BY <1>1, <1>2, <1>3
     DEF CacheOps, Values, LsuP!LsuOps, LsuP!Aligned, LsuP!Misaligned, LsuP!CacheOps
<1> QED
  BY <1>3 DEF Lsu!Nothing, LsuP!Nothing, LsuP!Operation, Lsu!CacheOps, LsuP!CacheOps

AnswersFit == MemAck \in {"NONE", "OK"} /\ (outst = <<>> => MemAck = "NONE")

LEMMA AnswersInStep == Registers /\ Sides => AnswersFit
<1> SUFFICES ASSUME Registers, Sides PROVE AnswersFit
  OBVIOUS
<1>1. Core!MemAck \in {"NONE", "OK"} /\ AckFor(FALSE) \in {"NONE", "OK"}
  BY DEF Registers, Typed, Core!MemAck, AckFor
<1>2. ASSUME outst = <<>>
      PROVE  MemAck = "NONE"
  <2>1. NoneOwed
    BY <1>2, OneItem DEF Sides, UncachedOwes, CoreOwes
  <2>2. bus_ack = "NONE" /\ m_q.op = "NONE"
    BY <2>1, Names DEF NoneOwed, BusIdle, CoreIdle, Registers
  <2> QED
    BY <2>2 DEF MemAck, AckFor, Core!MemAck
<1> QED
  BY <1>1, <1>2 DEF AnswersFit, MemAck

LEMMA AnswersNext == Registers' /\ Sides' => AnswersFit'
BY AnswersInStep, PTL

\* What issue hands over: nothing, or an operation when the unit does not stall.
Given(decoded) ==
    \/ decoded = Lsu!Nothing
    \/ decoded \in Operations /\ ~Lsu!Stall(MemAccept)

LEMMA RegistersNext ==
    ASSUME NoErrors, DcacheInv, NEW decoded, NEW take \in BOOLEAN, Clock(decoded, take),
           Given(decoded)
    PROVE  Registers'
<1>1. mem_q' \in Operations \cup {Lsu!Nothing}
  <2>1. mem_q \in Operations \cup {Lsu!Nothing}
    BY DEF DcacheInv, Registers
  <2> QED
    BY <2>1 DEF Clock, Lsu!RequestRegister, Given
<1>2. /\ outst' = IF Asks THEN <<mem_q>> ELSE IF MemAck = "NONE" THEN outst ELSE <<>>
      /\ pending_q' = Len(outst')
      /\ cache_access_q' = IF Asks THEN Cacheable ELSE cache_access_q
      /\ select_q' = Select
  BY HistoryNext
<1>3. Cacheable \in BOOLEAN /\ cache_access_q \in BOOLEAN /\ pending_q = Len(outst)
  BY UnitState DEF DcacheInv, Registers
<1>4. cache_access_q' \in BOOLEAN
  <2>1. cache_access_q' = Cacheable \/ cache_access_q' = cache_access_q
    BY <1>2
  <2> QED
    BY <1>3, <2>1, Zenon
<1>5. outst' # <<>> => select_q' = cache_access_q'
  <2>1. CASE Asks
    <3>1. cache_access_q' = Cacheable /\ select_q' = Select
      BY <1>2, <2>1
    <3>2. ~Hold
      BY <2>1 DEF Asks, MemAccept
    <3>3. pending_q = 0 \/ cache_access_q = Cacheable
      BY <3>2, Zenon DEF Hold
    <3>4. Select = Cacheable
      BY <3>3, Zenon DEF Select
    <3> QED
      BY <3>1, <3>4, Zenon
  <2>2. CASE ~Asks
    <3> SUFFICES ASSUME outst' # <<>> PROVE select_q' = cache_access_q'
      OBVIOUS
    <3>1. outst # <<>> /\ cache_access_q' = cache_access_q /\ select_q' = Select
      BY <1>2, <2>2
    <3>2. pending_q # 0
      BY <1>3, <3>1, OneItem DEF DcacheInv, Sides, NoneOwed, UncachedOwes, CoreOwes
    <3>3. Select = cache_access_q
      BY <3>2, Zenon DEF Select
    <3> QED
      BY <3>1, <3>3, Zenon
  <2> QED
    BY <2>1, <2>2
<1>6. bus_ack' \in {"NONE", "OK"} /\ (owes' = <<>> => bus_ack' = "NONE")
  BY BusAnswer
<1> QED
  BY <1>1, <1>2, <1>4, <1>5, <1>6, TypedNext, PmemType DEF Registers

LEMMA LsuEdge ==
    ASSUME NoErrors, DcacheInv, NEW decoded, NEW take \in BOOLEAN, Clock(decoded, take),
           Given(decoded)
    PROVE  LsuP!IInv'
<1> DEFINE left == IF MemAck # "NONE" THEN Tail(outst) ELSE outst
<1>1. LsuP!Decoded(decoded, MemAccept)
  BY SameUnit, SameNames DEF Given, LsuP!Decoded
<1>2. MemAck \in {"NONE", "OK"} /\ (outst = <<>> => MemAck = "NONE")
  BY Answers
<1>3. outst = <<>> \/ \E o \in Operations : outst = <<o>>
  BY DEF DcacheInv, Sides, NoneOwed, UncachedOwes, CoreOwes
<1>4. Asks => left = <<>>
  BY <1>2, <1>3, Fresh, OneItem
<1>5. MemAccept /\ mem_q.op \in LsuP!CacheOps => left = <<>>
  BY <1>4, SameNames DEF Asks, Lsu!Requesting
<1>6. outst' = IF LsuP!Requesting /\ MemAccept THEN Append(left, mem_q) ELSE left
  BY <1>2, SameUnit DEF Clock, History
<1>7. mem' = IF MemAck = "OK" /\ Head(outst).op = "STORE"
             THEN [mem EXCEPT ![Head(outst).addr] = Head(outst).data] ELSE mem
  BY HistoryNext
<1>8. MemAck' \in IF outst' = <<>> THEN {"NONE"} ELSE {"NONE", "OK", "ERROR"}
  BY SidesNext, RegistersNext, AnswersNext DEF AnswersFit
<1>9. LsuP!Port(MemAccept)
  BY <1>5, <1>6, <1>7, <1>8 DEF LsuP!Port, LsuP!Answered
<1>10. LsuP!Edge(decoded, MemAccept)
  BY <1>9, SameUnit DEF Clock, LsuP!Edge
<1>11. MemAccept \in BOOLEAN
  BY DEF MemAccept, Core!MemAccept, UncachedAccept
<1>12. LsuP!IInv
  BY DEF DcacheInv
<1> QED
  BY <1>1, <1>10, <1>11, <1>12, LsuP!EdgeRegisters, LsuP!EdgePairing DEF LsuP!IInv

-----------------------------------------------------------------------------
(***************************************************************************)
(* The invariant: the initial states, a clock edge, and every step.        *)
(***************************************************************************)
LEMMA StepClock ==
    ASSUME NoErrors, DcacheInv, NEW decoded, NEW take \in BOOLEAN, Clock(decoded, take),
           Given(decoded)
    PROVE  DcacheInv'
<1>1. LsuP!IInv' /\ Registers' /\ Sides'
  BY LsuEdge, RegistersNext, SidesNext
<1>2. Modes' /\ Filled' /\ Chosen' /\ Outputs' /\ Flushing' /\ Contents'
  BY ModesNext, FilledNext, ChosenNext, OutputsNext, FlushingNext, ContentsNext
<1> QED
  BY <1>1, <1>2 DEF DcacheInv

LEMMA Unchanged == DcacheInv /\ UNCHANGED vars => DcacheInv'
<1> SUFFICES ASSUME DcacheInv, UNCHANGED vars PROVE DcacheInv'
  OBVIOUS
<1>1. /\ mem_q' = mem_q /\ pending_lsu_e2_q' = pending_lsu_e2_q
      /\ mem_unaligned_e2_q' = mem_unaligned_e2_q /\ fifo' = fifo
      /\ cache_access_q' = cache_access_q /\ pending_q' = pending_q /\ select_q' = select_q
      /\ req' = req /\ tags_q' = tags_q /\ request_pending_q' = request_pending_q
      /\ state_q' = state_q /\ m_q' = m_q /\ tags' = tags /\ tag_out' = tag_out
      /\ data' = data /\ data_out' = data_out /\ data_write_q' = data_write_q
      /\ flush_addr_q' = flush_addr_q /\ flushing_q' = flushing_q
      /\ flush_last_q' = flush_last_q /\ replace_way_q' = replace_way_q
      /\ pmem_rd_q' = pmem_rd_q /\ pmem_wr0_q' = pmem_wr0_q /\ pmem_len_q' = pmem_len_q
      /\ skid' = skid /\ error_q' = error_q
      /\ u_req' = u_req /\ burst' = burst /\ owes' = owes /\ bus_ack' = bus_ack
      /\ pmem' = pmem /\ outst' = outst /\ mem' = mem
  BY DEF vars, lsuVars, busVars, Core!coreVars
<1>2. LsuP!IInv'
  <2>1. MemAck' = MemAck
    BY <1>1 DEF MemAck, AckFor, Core!MemAck, Core!Accesses, Core!HitAny, Core!Hit, Core!Ways,
                Core!TagOf, Core!LineOf
  <2> QED
    BY <1>1, <2>1 DEF DcacheInv, LsuP!IInv, LsuP!Registers, LsuP!Pairing, LsuP!NoneOwed,
                      LsuP!DummyOwed, LsuP!OneOwed
<1>3. Registers'
  BY <1>1 DEF DcacheInv, Registers, Typed
<1>4. Sides'
  <2>1. Core!Accesses' = Core!Accesses /\ ThisSet' = ThisSet /\ Base' = Base
    BY <1>1 DEF Core!Accesses, ThisSet, Base, Core!ActiveSet, Core!SetOf, Core!TagOf, Core!LineOf,
                Core!LineAddr
  <2>2. Held' = Held /\ Victim' = Victim /\ Line' = Line
    BY <1>1, <2>1 DEF Held, Victim, Line, Core!LineAddr
  <2>3. Evicting => Evicting'
    BY <1>1, <2>2 DEF Evicting, EvictingAt, Due, Sending, Handed, Beat
  <2>4. Evicted => Evicted'
    BY <1>1, <2>2 DEF Evicted, LineOwed, Sending, Handed, Beat
  <2>5. Reading => Reading'
    BY <1>1, <2>1 DEF Reading, ReadingAt
  <2>6. Traffic => Traffic'
    BY <1>1, <2>3, <2>4, <2>5 DEF Traffic, BusIdle
  <2>7. NoneOwed => NoneOwed'
    BY <1>1 DEF NoneOwed, UncachedIdle, CoreIdle, BusIdle
  <2>8. ASSUME NEW o \in Operations
        PROVE  (UncachedOwes(o) => UncachedOwes(o)') /\ (CoreOwes(o) => CoreOwes(o)')
    BY <1>1, <2>6 DEF UncachedOwes, CoreOwes, UncachedIdle, CoreIdle, BusIdle, Offering, Asked
  <2> QED
    BY <2>7, <2>8 DEF DcacheInv, Sides
<1>5. Modes'
  BY <1>1 DEF DcacheInv, Modes, Core!Accesses
<1>6. /\ Core!SetOf(m_q.addr)' = Core!SetOf(m_q.addr) /\ ThisSet' = ThisSet
      /\ Core!TagOf(m_q.addr)' = Core!TagOf(m_q.addr)
      /\ Held' = Held /\ Base' = Base /\ Core!Accesses' = Core!Accesses
      /\ Holds(1 - replace_way_q, m_q.addr)' = Holds(1 - replace_way_q, m_q.addr)
      /\ Holds(replace_way_q, m_q.addr)' = Holds(replace_way_q, m_q.addr)
  BY <1>1 DEF Core!SetOf, Core!TagOf, Core!LineOf, ThisSet, Core!ActiveSet, Held, Base,
              Core!LineAddr, Core!Accesses, Holds
<1>7. ASSUME NEW way \in Core!Ways
      PROVE  Holds(way, m_q.addr)' = Holds(way, m_q.addr)
             /\ InWay(way, m_q.addr)' = InWay(way, m_q.addr)
  BY <1>1 DEF Core!SetOf, Core!TagOf, Core!LineOf, Core!WordOf, Holds, InWay
<1>8. Filled'
  BY <1>1, <1>6 DEF DcacheInv, Filled, Offsets
<1>9. Chosen'
  BY <1>1, <1>6, <1>7 DEF DcacheInv, Chosen, Core!Ways
<1>10. Outputs'
  BY <1>1, <1>6, <1>7 DEF DcacheInv, Outputs, Core!Ways
<1>11. Flushing'
  BY <1>1, <1>6, <1>7 DEF DcacheInv, Flushing, ClearTo, Core!Ways, Core!Sets
<1>12. Contents'
  <2>1. ASSUME NEW way \in Core!Ways, NEW a \in CachedAddr
        PROVE  /\ Holds(way, a)' <=> Holds(way, a)
               /\ Dirt(way, a)' <=> Dirt(way, a)
               /\ InWay(way, a)' = InWay(way, a)
               /\ Filling(way, a)' <=> Filling(way, a)
               /\ \A w : Newest(a, w)' <=> Newest(a, w)
    BY <1>1, <1>6, SameWord DEF Filling, Newest, Core!SetOf, Core!LineOf
  <2>2. Beyond' /\ InMemory'
    BY <1>1, <2>1 DEF DcacheInv, Contents, Beyond, InMemory, Core!Ways
  <2>3. ASSUME Lines
        PROVE  Lines'
    <3>1. Tagged' /\ Single'
      BY <1>1, <2>1, <2>3 DEF Lines, Tagged, Single, Core!Ways, Core!Sets, Core!SetOf,
                              Core!TagOf, Core!LineOf
    <3>2. DirtyIsNew'
      <4>1. ASSUME NEW a \in CachedAddr, NEW way \in Core!Ways, Dirt(way, a)'
            PROVE  Newest(a, InWay(way, a))'
        <5>1. Newest(a, InWay(way, a))
          BY <2>1, <2>3, <4>1 DEF Lines, DirtyIsNew
        <5> QED
          BY <1>1, <2>1, <5>1 DEF Newest
      <4> QED
        BY <4>1 DEF DirtyIsNew, Core!Ways
    <3>3. CleanIsMemory'
      BY <1>1, <2>1, <2>3 DEF Lines, CleanIsMemory, Core!Ways
    <3> QED
      BY <3>1, <3>2, <3>3 DEF Lines
  <2> QED
    BY <1>1, <2>2, <2>3 DEF DcacheInv, Contents
<1> QED
  BY <1>2, <1>3, <1>4, <1>5, <1>8, <1>9, <1>10, <1>11, <1>12 DEF DcacheInv

LEMMA StepDcache == NoErrors /\ DcacheInv /\ [Next]_vars => DcacheInv'
<1> SUFFICES ASSUME NoErrors, DcacheInv, [Next]_vars PROVE DcacheInv'
  OBVIOUS
<1>1. ASSUME NEW take \in BOOLEAN, Wait(take)
      PROVE  DcacheInv'
  BY <1>1, StepClock DEF Wait, Given
<1>2. ASSUME NEW take \in BOOLEAN, NEW operation \in Operations, Issue(operation, take)
      PROVE  DcacheInv'
  BY <1>2, StepClock DEF Issue, Given
<1> QED
  BY <1>1, <1>2, Unchanged DEF Next, IssueOperation

LEMMA InitDcache == Init => DcacheInv
<1> SUFFICES ASSUME Init PROVE DcacheInv
  OBVIOUS
<1>1. Addr \subseteq Words /\ 0 \in Words /\ 0 \in Addr /\ CachedAddr \subseteq Addr
      /\ UncachedAddr \subseteq Addr
  BY Sizes
<1>2. /\ state_q = "RESET" /\ m_q = Core!NoRequest /\ flushing_q = FALSE
      /\ flush_last_q = FALSE /\ flush_addr_q = 0 /\ skid = <<>> /\ outst = <<>>
  BY DEF Init, Core!Init
<1>3. pmem \in [Addr -> Words] /\ mem \in [Values -> Values]
      /\ \A a \in Addr : mem[a] = pmem[a]
  BY <1>1 DEF Init, Values
<1>4. Typed
  <2>1. tags \in [Core!Ways -> [Core!Sets -> Tags]]
    <3>1. PICK t \in [Core!Ways -> {Core!NoTag, Core!Dirty(0)}] :
                tags = [way \in Core!Ways |-> [s \in Core!Sets |-> t[way]]]
      BY DEF Init, Core!Init
    <3>2. Core!NoTag \in Tags /\ Core!Dirty(0) \in Tags
      BY DEF Core!NoTag, Core!Dirty, Tags
    <3> QED
      BY <3>1, <3>2
  <2>2. /\ data \in [Core!Ways -> [Core!Sets \X Offsets -> Words]]
        /\ data_out \in [Core!Ways -> Words]
    BY <1>1 DEF Init, Core!Init, Offsets
  <2>3. 0 \in Offsets /\ 0 \in Core!Sets /\ 0 \in Core!Ways
    BY Sizes DEF Offsets, Core!Sets, Core!Ways
  <2> QED
    BY <2>1, <2>2, <2>3 DEF Typed, Init, Core!Init, Asking
<1>5. Registers
  BY <1>2, <1>3, <1>4 DEF Registers, Init
<1>6. Sides
  BY <1>2 DEF Sides, NoneOwed, UncachedIdle, CoreIdle, BusIdle, Init
<1>7. Modes /\ Filled /\ Chosen
  BY <1>2, Names DEF Modes, Filled, Chosen
<1>8. Outputs
  BY <1>2 DEF Outputs
<1>9. Flushing
  <2>1. 0 \in Core!Sets /\ \A s \in Core!Sets : ~(s < 0)
    BY Sizes DEF Core!Sets
  <2> QED
    BY <1>2, <2>1 DEF Flushing, ClearTo
<1>10. Contents
  BY <1>1, <1>2, <1>3 DEF Contents, Beyond, InMemory
<1>11. LsuP!IInv
  <2>1. MemAck = "NONE"
    BY <1>2, <1>5, <1>6, AnswersInStep DEF AnswersFit
  <2> QED
    BY <1>3, <2>1, SameNames DEF Init, LsuP!IInv, LsuP!Registers, LsuP!Pairing, LsuP!NoneOwed
<1> QED
  BY <1>5, <1>6, <1>7, <1>8, <1>9, <1>10, <1>11 DEF DcacheInv

-----------------------------------------------------------------------------
LEMMA Coherence == DcacheInv => Coherent
<1> SUFFICES ASSUME DcacheInv, state_q # "RESET", NEW a \in CachedAddr
             PROVE  LET in == {way \in Core!Ways : Holds(way, a) /\ ~Filling(way, a)}
                    IN  /\ Cardinality(in) <= 1
                        /\ \A way \in in :
                              /\ Newest(a, InWay(way, a))
                              /\ ~tags[way][Core!SetOf(a)].dirty
                                   => InWay(way, a) = pmem[a] \/ state_q = "WRITE"
                        /\ in = {} => pmem[a] = mem[a]
  BY DEF Coherent
<1>1. InMemory /\ Single /\ DirtyIsNew /\ CleanIsMemory /\ Filled
  BY TypedFacts DEF Contents, Lines
<1> DEFINE in == {way \in Core!Ways : Holds(way, a) /\ ~Filling(way, a)}
<1>2. Cardinality(in) <= 1
  <2>1. in = {} \/ in = {0} \/ in = {1}
    BY <1>1 DEF Single, Core!Ways
  <2>2. Cardinality({}) = 0 /\ Cardinality({0}) = 1 /\ Cardinality({1}) = 1
    BY FS_EmptySet, FS_Singleton
  <2> HIDE DEF in
  <2> QED
    BY <2>1, <2>2
<1>3. ASSUME NEW way \in in
      PROVE  /\ Newest(a, InWay(way, a))
             /\ ~tags[way][Core!SetOf(a)].dirty => InWay(way, a) = pmem[a]
  <2>1. way \in Core!Ways /\ Holds(way, a) /\ ~Filling(way, a)
    OBVIOUS
  <2>2. Dirt(way, a) <=> tags[way][Core!SetOf(a)].dirty
    BY <2>1 DEF Dirt
  <2>3. CASE Dirt(way, a)
    BY <1>1, <2>1, <2>2, <2>3 DEF DirtyIsNew
  <2>4. CASE ~Dirt(way, a)
    <3>1. InWay(way, a) = pmem[a]
      BY <1>1, <2>1, <2>4 DEF CleanIsMemory
    <3>2. \A v \in Core!Ways : ~Dirt(v, a)
      BY <1>1, <2>1, <2>4 DEF Single, Dirt, Core!Ways
    <3>3. pmem[a] = mem[a]
      BY <1>1, <3>2 DEF InMemory
    <3> QED
      BY <3>1, <3>3 DEF Newest
  <2> QED
    BY <2>3, <2>4
<1>4. ASSUME in = {}
      PROVE  pmem[a] = mem[a]
  <2>1. ASSUME NEW way \in Core!Ways, Dirt(way, a)
        PROVE  FALSE
    <3>1. Holds(way, a) /\ tags[way][Core!SetOf(a)].valid /\ tags[way][Core!SetOf(a)].dirty
      BY <2>1 DEF Dirt, Holds
    <3>2. Filling(way, a)
      BY <1>4, <3>1
    <3>3. state_q = "REFILL" /\ replace_way_q = way /\ Core!SetOf(a) = Core!SetOf(m_q.addr)
      BY <3>2 DEF Filling
    <3>4. ~flushing_q
      BY <3>3, TypedFacts DEF Modes, Core!Accesses
    <3>5. Held = tags[way][Core!SetOf(a)]
      BY <3>3, <3>4 DEF Held, ThisSet, Core!ActiveSet
    <3> QED
      BY <1>1, <3>1, <3>3, <3>5 DEF Filled
  <2> QED
    BY <1>1, <2>1 DEF InMemory
<1> HIDE DEF in
<1>5. /\ Cardinality(in) <= 1
      /\ \A way \in in : /\ Newest(a, InWay(way, a))
                         /\ ~tags[way][Core!SetOf(a)].dirty
                              => InWay(way, a) = pmem[a] \/ state_q = "WRITE"
      /\ in = {} => pmem[a] = mem[a]
  BY <1>2, <1>3, <1>4
<1> QED
  BY <1>5 DEF in

(***************************************************************************)
(* No word is lost in the cache: whatever is evicted, refilled or stored,  *)
(* and however slowly the bus takes it, a line is in one way only, what is *)
(* clean is what memory holds, and the word stored last is in its line, or *)
(* in memory if no way holds it (Coherent of RiscvDcache).                 *)
(***************************************************************************)
THEOREM NothingIsLost == ASSUME NoErrors PROVE Spec => []Coherent
<1>1. Init => DcacheInv
  BY InitDcache
<1>2. DcacheInv /\ [Next]_vars => DcacheInv'
  BY StepDcache
<1>3. DcacheInv => Coherent
  BY Coherence
<1> QED
  BY <1>1, <1>2, <1>3, PTL DEF Spec

-----------------------------------------------------------------------------
\* Who gives an answer.
LEMMA Answerer ==
    ASSUME DcacheInv, MemAck = "OK"
    PROVE  \E o \in Operations :
              /\ outst = <<o>> /\ Head(outst) = o
              /\ \/ UncachedOwes(o) /\ bus_ack = "OK" /\ owes = <<Debt(o)>>
                 \/ CoreOwes(o) /\ Ready
<1>1. ~NoneOwed
  BY Neither
<1>2. ASSUME NEW o \in Operations, UncachedOwes(o)
      PROVE  outst = <<o>> /\ Head(outst) = o /\ bus_ack = "OK" /\ owes = <<Debt(o)>>
  <2>1. bus_ack = "OK"
    BY <1>2, Past
  <2>2. owes # <<>>
    BY <2>1 DEF DcacheInv, Registers
  <2>3. owes = <<Debt(o)>>
    BY <1>2, <2>2 DEF UncachedOwes, Offering, Asked, BusIdle
  <2> QED
    BY <1>2, <2>1, <2>3, OneItem DEF UncachedOwes
<1>3. ASSUME NEW o \in Operations, CoreOwes(o)
      PROVE  outst = <<o>> /\ Head(outst) = o /\ Ready
  <2>1. Ready
    BY <1>3, Inside
  <2> QED
    BY <1>3, <2>1, OneItem DEF CoreOwes
<1> QED
  BY <1>1, <1>2, <1>3 DEF DcacheInv, Sides

LEMMA Flushes == DcacheInv => FlushReachesMemory
<1> SUFFICES ASSUME DcacheInv, NEW a \in CachedAddr,
                    \/ Answering("DFLUSH")
                    \/ /\ Answering("DWRITEBACK")
                       /\ Core!LineOf(Head(outst).addr) = Core!LineOf(a)
             PROVE  pmem[a] = mem[a]
  BY DEF FlushReachesMemory
<1>1. PICK o \in Operations :
           /\ outst = <<o>> /\ Head(outst) = o
           /\ \/ UncachedOwes(o) /\ bus_ack = "OK" /\ owes = <<Debt(o)>>
              \/ CoreOwes(o) /\ Ready
  BY Answerer DEF Answering
<1>2. o.op \in {"DFLUSH", "DWRITEBACK"}
  BY <1>1 DEF Answering
<1>3. m_q = o /\ state_q = "LOOKUP"
  <2>1. ~UncachedOwes(o)
    BY <1>2 DEF UncachedOwes, Lsu!Aligned
  <2> QED
    BY <1>1, <2>1 DEF CoreOwes, Ready
<1>4. Flushing /\ InMemory
  BY TypedFacts, <1>3 DEF Contents
<1>5. a \in Nat /\ o.addr \in Nat /\ Core!SetOf(a) \in Core!Sets
  BY Sizes, Names, Place
<1>6. ASSUME NEW way \in Core!Ways, Dirt(way, a)
      PROVE  FALSE
  <2>1. tags[way][Core!SetOf(a)].valid /\ tags[way][Core!SetOf(a)].dirty /\ Holds(way, a)
    BY <1>6 DEF Dirt, Holds
  <2>2. CASE o.op = "DFLUSH"
    <3>1. ClearTo(LastSet + 1)
      BY <1>3, <1>4, <2>2 DEF Flushing
    <3>2. Core!SetOf(a) < LastSet + 1
      BY <1>5, Sizes DEF Core!Sets
    <3> QED
      BY <1>5, <2>1, <3>1, <3>2 DEF ClearTo
  <2>3. CASE o.op = "DWRITEBACK"
    <3>1. Core!LineOf(o.addr) = Core!LineOf(a)
      BY <1>1, <2>3 DEF Answering
    <3>2. Core!SetOf(a) = Core!SetOf(o.addr) /\ Core!TagOf(a) = Core!TagOf(o.addr)
      BY <1>5, <3>1, SameLine
    <3>3. Holds(way, m_q.addr) /\ tags[way][Core!SetOf(m_q.addr)].dirty
      BY <1>3, <2>1, <3>2 DEF Holds
    <3> QED
      BY <1>3, <1>4, <2>3, <3>3 DEF Flushing
  <2> QED
    BY <1>2, <2>2, <2>3
<1> QED
  BY <1>4, <1>6 DEF InMemory

(***************************************************************************)
(* When the core is told that a flush or a writeback is done, the words    *)
(* are in the memory that other masters read, and not on their way         *)
(* (FlushReachesMemory of RiscvDcache).                                    *)
(***************************************************************************)
THEOREM FlushIsDone == ASSUME NoErrors PROVE Spec => []FlushReachesMemory
<1>1. Init => DcacheInv
  BY InitDcache
<1>2. DcacheInv /\ [Next]_vars => DcacheInv'
  BY StepDcache
<1>3. DcacheInv => FlushReachesMemory
  BY Flushes
<1> QED
  BY <1>1, <1>2, <1>3, PTL DEF Spec

-----------------------------------------------------------------------------
(***************************************************************************)
(* The refinement of the abstract port: the word that comes with an        *)
(* answer, the initial states, and every step.                             *)
(***************************************************************************)
DataFits ==
    MemData \in IF MemAck = "OK" /\ Head(outst).op = "LOAD"
                THEN {mem[Head(outst).addr]} ELSE Words

LEMMA DataType == DcacheInv => MemData \in Words
<1> SUFFICES ASSUME DcacheInv PROVE MemData \in Words
  OBVIOUS
<1>1. BusData \in Words
  BY BusDataType
<1>2. data_out[0] \in Words /\ data_out[1] \in Words
  BY TypedFacts DEF Typed, Core!Ways
<1> QED
  BY <1>1, <1>2 DEF MemData, Core!MemData

LEMMA DataInStep == DcacheInv => DataFits
<1> SUFFICES ASSUME DcacheInv, MemAck = "OK", Head(outst).op = "LOAD"
             PROVE  MemData = mem[Head(outst).addr]
  BY DataType DEF DataFits
<1>1. PICK o \in Operations :
           /\ outst = <<o>> /\ Head(outst) = o
           /\ \/ UncachedOwes(o) /\ bus_ack = "OK" /\ owes = <<Debt(o)>>
              \/ CoreOwes(o) /\ Ready
  BY Answerer
<1>2. o.op = "LOAD"
  BY <1>1
<1>3. CASE UncachedOwes(o) /\ owes = <<Debt(o)>>
  <2>1. ~cache_access_q /\ o.addr \in UncachedAddr
    BY <1>3 DEF UncachedOwes
  <2>2. Debt(o).rd /\ Debt(o).addr = o.addr
    BY <1>2 DEF Debt
  <2>3. BusData = pmem[o.addr]
    BY <1>3, <2>2, OneItem DEF BusData
  <2>4. pmem[o.addr] = mem[o.addr]
    BY <2>1, TypedFacts DEF Contents, Beyond
  <2> QED
    BY <1>1, <2>1, <2>3, <2>4 DEF MemData
<1>4. CASE CoreOwes(o) /\ Ready
  <2>1. cache_access_q /\ m_q = o /\ state_q = "LOOKUP" /\ o.addr \in CachedAddr
        /\ Core!Accesses /\ ~Core!Miss
    BY <1>2, <1>4 DEF CoreOwes, Ready, Core!Accesses, Lsu!Aligned
  <2>2. ~flushing_q
    BY <1>2, <2>1, TypedFacts DEF Modes
  <2>3. \A way \in Core!Ways : Core!Hit(way) <=> Holds(way, o.addr)
    BY <2>1, <2>2, HitMeans
  <2>4. \A way \in Core!Ways : Holds(way, o.addr) => data_out[way] = InWay(way, o.addr)
    BY <1>2, <2>1, TypedFacts DEF Outputs
  <2>5. PICK h \in Core!Ways : Core!Hit(h) /\ Core!MemData = data_out[h]
    BY <2>1 DEF Core!Miss, Core!HitAny, Core!MemData, Core!Ways
  <2>6. Core!MemData = InWay(h, o.addr) /\ Holds(h, o.addr)
    BY <2>3, <2>4, <2>5
  <2>7. Lines /\ InMemory
    BY <2>1, TypedFacts DEF Contents
  <2>8. InWay(h, o.addr) = mem[o.addr]
    <3>1. CASE Dirt(h, o.addr)
      <4>1. Newest(o.addr, InWay(h, o.addr))
        BY <2>1, <2>7, <3>1 DEF Lines, DirtyIsNew
      <4> QED
        BY <1>2, <2>1, <4>1 DEF Newest
    <3>2. CASE ~Dirt(h, o.addr)
      <4>1. ~Filling(h, o.addr)
        BY <2>1 DEF Filling
      <4>2. InWay(h, o.addr) = pmem[o.addr]
        BY <2>1, <2>6, <2>7, <3>2, <4>1 DEF Lines, CleanIsMemory
      <4>3. \A way \in Core!Ways : ~Dirt(way, o.addr)
        BY <2>1, <2>6, <2>7, <3>2 DEF Lines, Single, Dirt, Core!Ways
      <4> QED
        BY <2>1, <2>7, <4>2, <4>3 DEF InMemory
    <3> QED
      BY <3>1, <3>2
  <2> QED
    BY <1>1, <2>1, <2>6, <2>8 DEF MemData
<1> QED
  BY <1>1, <1>3, <1>4

LEMMA DataNext == DcacheInv' => DataFits'
BY DataInStep, PTL

LEMMA MemType ==
    ASSUME DcacheInv
    PROVE  mem \in [Values -> Values] /\ Addr \subseteq Values /\ Values = Words
BY Sizes DEF DcacheInv, LsuP!IInv, LsuP!Registers, Values

LEMMA InitPort == Init => Port!Init
<1> SUFFICES ASSUME Init PROVE Port!Init
  OBVIOUS
<1>1. DcacheInv /\ outst = <<>>
  BY InitDcache DEF Init
<1>2. MemAck = "NONE" /\ MemData \in Words
  BY <1>1, Answers, DataType
<1>3. [a \in Addr |-> mem[a]] \in [Addr -> Words]
  BY <1>1, MemType
<1> QED
  BY <1>1, <1>2, <1>3 DEF Port!Init

LEMMA ClockPort ==
    ASSUME DcacheInv, DcacheInv', NEW decoded, NEW take \in BOOLEAN, Clock(decoded, take)
    PROVE  Port!Next
<1>1. MemAck \in {"NONE", "OK"} /\ (outst = <<>> => MemAck = "NONE")
  BY Answers
<1>2. outst = <<>> \/ \E o \in Operations : outst = <<o>>
  BY DEF DcacheInv, Sides, NoneOwed, UncachedOwes, CoreOwes
<1>3. Port!Left = IF MemAck = "NONE" THEN outst ELSE <<>>
  BY <1>1, <1>2, OneItem DEF Port!Left
<1>4. /\ outst' = IF Asks THEN <<mem_q>> ELSE IF MemAck = "NONE" THEN outst ELSE <<>>
      /\ mem' = IF MemAck = "OK" /\ Head(outst).op = "STORE"
                THEN [mem EXCEPT ![Head(outst).addr] = Head(outst).data] ELSE mem
  BY HistoryNext
<1>5. outst' = Port!Left \/ Port!Accepts
  <2>1. CASE Asks
    <3>1. mem_q \in Operations /\ (outst = <<>> \/ MemAck = "OK") /\ outst' = <<mem_q>>
      BY <1>4, <2>1, Fresh
    <3>2. Port!Left = <<>>
      BY <1>3, <3>1
    <3>3. outst' # <<>> /\ Port!Front(outst') = <<>> /\ Port!Last(outst') = mem_q
      BY <3>1, OneItem DEF Port!Front, Port!Last
    <3>4. mem_q \in [op : Lsu!Aligned \cup CacheOps, addr : Addr, data : Words]
      BY <3>1, DcacheAssumption DEF Lsu!Aligned
    <3> QED
      BY <3>2, <3>3, <3>4 DEF Port!Accepts
  <2>2. CASE ~Asks
    BY <1>3, <1>4, <2>2
  <2> QED
    BY <2>1, <2>2
<1>6. MemAck = "OK" => Head(outst).addr \in Addr
  BY <1>1, <1>2, OneItem, Names
<1>7. [a \in Addr |-> mem[a]]' = Port!Performed
  BY <1>4, <1>6, MemType DEF Port!Performed
<1>8. AnswersFit' /\ DataFits'
  BY AnswersNext, DataNext DEF DcacheInv
<1>9. MemAck' \in IF outst' = <<>> THEN {"NONE"} ELSE {"NONE", "OK", "ERROR"}
  BY <1>8 DEF AnswersFit
<1>10. MemData' \in IF MemAck' = "OK" /\ Head(outst').op = "LOAD"
                    THEN {mem'[Head(outst').addr]} ELSE Words
  BY <1>8 DEF DataFits
<1>11. MemAck' = "OK" => Head(outst').addr \in Addr
  <2>1. MemAck' = "OK" => outst' # <<>>
    BY <1>9
  <2>2. outst' = <<>> \/ outst' = outst \/ (outst' = <<mem_q>> /\ mem_q \in Operations)
    BY <1>4, Fresh
  <2> QED
    BY <1>2, <2>1, <2>2, OneItem, Names
<1>12. MemAck' = "OK" => [a \in Addr |-> mem[a]]'[Head(outst').addr] = mem'[Head(outst').addr]
  BY <1>11
<1> QED
  BY <1>5, <1>7, <1>9, <1>10, <1>12 DEF Port!Next

(***************************************************************************)
(* Cache, muxes, uncached path and bus together are the port that RiscvLsu *)
(* and RiscvPipe assume: every request is answered once, in order, a load  *)
(* with the word stored last, wherever that word is.                       *)
(***************************************************************************)
THEOREM Refinement == ASSUME NoErrors PROVE Spec => ImplementsMemPort
<1>1. Init => DcacheInv /\ Port!Init
  BY InitDcache, InitPort
<1>2. DcacheInv /\ [Next]_vars => DcacheInv'
  BY StepDcache
<1>3. DcacheInv /\ DcacheInv' /\ [Next]_vars
        => [Port!Next]_<<outst, [a \in Addr |-> mem[a]], MemAck, MemData>>
  <2> SUFFICES ASSUME DcacheInv, DcacheInv', [Next]_vars
               PROVE  [Port!Next]_<<outst, [a \in Addr |-> mem[a]], MemAck, MemData>>
    OBVIOUS
  <2>1. CASE UNCHANGED vars
    BY <2>1 DEF vars, lsuVars, busVars, Core!coreVars, MemAck, MemData, AckFor, BusData,
       Core!MemAck, Core!MemData, Core!Accesses, Core!HitAny, Core!Hit, Core!Ways,
       Core!TagOf, Core!LineOf
  <2>2. CASE Next
    BY <2>2, ClockPort DEF Next, Wait, IssueOperation, Issue
  <2> QED
    BY <2>1, <2>2
<1> QED
  BY <1>1, <1>2, <1>3, PTL DEF Spec, ImplementsMemPort, Port!Spec

(***************************************************************************)
(* A cache operation with nothing owed is taken at once, in a fence as in  *)
(* a writeback, once the cache has cleared its tags after reset: what      *)
(* RiscvPipe assumes (Accepts), and MemPort does not say.                  *)
(***************************************************************************)
AtOnce ==
    outst = <<>> /\ state_q # "RESET" /\ mem_q.op \in CacheOps => MemAccept

THEOREM CacheOpsAtOnce == ASSUME NoErrors PROVE Spec => []AtOnce
<1>1. Init => DcacheInv
  BY InitDcache
<1>2. DcacheInv /\ [Next]_vars => DcacheInv'
  BY StepDcache
<1>3. DcacheInv => AtOnce
  <2> SUFFICES ASSUME DcacheInv, outst = <<>>, state_q # "RESET", mem_q.op \in CacheOps
               PROVE  MemAccept
    BY DEF AtOnce
  <2>1. NoneOwed
    BY DEF DcacheInv, Sides, UncachedOwes, CoreOwes
  <2>2. Cacheable /\ Lsu!Requesting
    BY DEF Cacheable, CacheOps, Lsu!Requesting, Lsu!CacheOps
  <2>3. ToCore = mem_q /\ (MemAccept <=> Core!MemAccept(ToCore))
    BY <2>1, <2>2, Neither
  <2>4. state_q = "LOOKUP" /\ m_q = Core!NoRequest
    BY <2>1 DEF NoneOwed, CoreIdle
  <2>5. Core!MemAccept(ToCore)
    BY <2>4, CoreAnswer DEF Core!MemAccept, Core!NoRequest
  <2> QED
    BY <2>3, <2>5
<1> QED
  BY <1>1, <1>2, <1>3, PTL DEF Spec
=============================================================================

------------------------ MODULE RiscvFrontEndProofs ------------------------
(***************************************************************************)
(* The front end keeps its promise to the pipeline, shows for an address   *)
(* the word of that address, and after fence.i the word written last, for  *)
(* every size of program and of cache, every timing of the bus and every   *)
(* sequence of branches.                                                   *)
(*                                                                         *)
(* Three things are in flight between the two units without a tag: the     *)
(* request, its answer, and the branch that makes the answer worthless.    *)
(* Order says which address each stands for.                               *)
(***************************************************************************)
EXTENDS RiscvFrontEnd, TLAPS

Offsets  == 0 .. (LineWords - 1)
Tags     == Nat \cup {Cache!Invalid}
Shows    == [valid : BOOLEAN, pc : PCs, instr : Instrs, fault : BOOLEAN]

Registers ==
    /\ active_q \in BOOLEAN /\ branch_q \in BOOLEAN /\ branch_pc_q \in PCs
    /\ icache_fetch_q \in BOOLEAN /\ branch_d_q \in BOOLEAN
    /\ pc_f_q \in PCs /\ pc_d_q \in PCs
    /\ skid \in Shows /\ decode \in Shows
    /\ expected \in PCs /\ failed \in BOOLEAN /\ synced \in BOOLEAN
    /\ fence \in {"RESET", "NONE", "E1", "E2", "WB", "BRANCH"}

Memories ==
    /\ state_q \in {"FLUSH", "LOOKUP", "REFILL", "RELOOKUP"}
    /\ lookup_valid_q \in BOOLEAN /\ lookup_addr_q \in PCs
    /\ tags \in [Cache!Ways -> [Cache!Sets -> Tags]] /\ tag_out \in [Cache!Ways -> Tags]
    /\ data \in [Cache!Ways -> [Cache!Sets \X Offsets -> Instrs]]
    /\ data_out \in [Cache!Ways -> Instrs]
    /\ data_write_q \in Offsets /\ flush_addr_q \in Cache!Sets
    /\ replace_way_q \in Cache!Ways
    /\ axi_arvalid_q \in BOOLEAN /\ axi_error_q \in BOOLEAN
    /\ beats \in 0 .. LineWords
    /\ imem \in [PCs -> {"OLD", "NEW"}]

-----------------------------------------------------------------------------
\* The two units agree about the request in flight, and an answer waits in the
\* skid buffer only while there is none.
Paired ==
    /\ icache_fetch_q = lookup_valid_q /\ pc_d_q = lookup_addr_q
    /\ ~skid.valid => skid = Fetch!Nothing
    /\ ~decode.valid => decode = Fetch!Nothing
    /\ ~DecodeStage => ~decode.valid
    /\ skid.valid => ~icache_fetch_q /\ skid.pc = pc_d_q
    /\ ~active_q => /\ ~icache_fetch_q /\ ~skid.valid /\ ~decode.valid
                    /\ fence = "RESET" \/ branch_q
    /\ fence = "RESET" => ~active_q /\ ~branch_q /\ ~branch_d_q

\* The address fetch shows next.
NextPc == IF skid.valid \/ icache_fetch_q THEN pc_d_q ELSE pc_f_q

\* Which address everything on its way to issue is for.
Order ==
    /\ branch_q => ~decode.valid /\ expected = branch_pc_q
    /\ branch_d_q /\ ~branch_q => ~decode.valid /\ ~skid.valid /\ expected = pc_f_q
    /\ fence # "RESET" /\ ~branch_q /\ ~branch_d_q =>
          /\ skid.valid \/ icache_fetch_q => pc_f_q = Fetch!Following(pc_d_q)
          /\ decode.valid => /\ expected = decode.pc
                             /\ NextPc = Fetch!Following(decode.pc)
          /\ ~decode.valid => expected = NextPc

-----------------------------------------------------------------------------
\* What the bus still owes of the line.
Refilling ==
    /\ state_q \in {"REFILL", "RELOOKUP"} => lookup_valid_q
    /\ state_q = "REFILL" =>
          \/ axi_arvalid_q /\ beats = 0 /\ data_write_q = 0
          \/ ~axi_arvalid_q /\ beats # 0 /\ beats = LineWords - data_write_q
    /\ state_q # "REFILL" => ~axi_arvalid_q /\ beats = 0
    /\ axi_error_q => failed

Holds(way, a) == tags[way][Cache!SetOf(a)] = Cache!TagOf(a)
InWay(way, a) == data[way][<<Cache!SetOf(a), Cache!WordOf(a)>>]
Own(i, a)     == i.at = a /\ i.word # "UNDEF"

\* The words of a line are its own, but while it is being overwritten.
Filling(way, a) == state_q = "REFILL" /\ replace_way_q = way
                   /\ Cache!SetOf(a) = Cache!SetOf(lookup_addr_q)
Filled(way, a)  == /\ state_q = "REFILL" /\ replace_way_q = way
                   /\ Cache!LineOf(a) = Cache!LineOf(lookup_addr_q) /\ Cache!WordOf(a) < data_write_q

Lines ==
    /\ state_q = "FLUSH" =>
          \A s \in Cache!Sets : s < flush_addr_q =>
              \A way \in Cache!Ways : tags[way][s] = Cache!Invalid
    /\ state_q # "FLUSH" =>
          \A s \in Cache!Sets : tags[0][s] # Cache!Invalid => tags[0][s] # tags[1][s]
    /\ state_q = "REFILL" => \A way \in Cache!Ways : ~Holds(way, lookup_addr_q)

Cached(way, a)  == (Holds(way, a) /\ ~Filling(way, a)) \/ Filled(way, a)

Contents ==
    state_q # "FLUSH" /\ ~failed =>
        \A way \in Cache!Ways : \A a \in PCs :
            Cached(way, a) => Own(InWay(way, a), a)

\* What the memories show is what is looked up.  With the decode register a
\* lookup can be accepted with the flush; its answer is worthless, but it is
\* squashed with everything behind fence.i.
Looked ==
    \A way \in Cache!Ways : /\ tag_out[way] = tags[way][Cache!SetOf(lookup_addr_q)]
                      /\ data_out[way] = InWay(way, lookup_addr_q)

Outputs ==
    state_q = "LOOKUP" /\ lookup_valid_q =>
        \/ Looked
        \/ /\ DecodeStage /\ (branch_q \/ fence = "BRANCH")
           /\ \A way \in Cache!Ways : tags[way][Cache!SetOf(lookup_addr_q)] = Cache!Invalid

Fencing ==
    /\ fence \in {"E1", "E2", "WB", "BRANCH"} => ~branch_q /\ ~branch_d_q
    /\ fence = "E1" /\ ~DecodeStage => icache_fetch_q
    /\ fence = "RESET" => state_q = "FLUSH"
    /\ state_q = "FLUSH" /\ lookup_valid_q =>
          /\ DecodeStage
          /\ \/ branch_q
             \/ fence = "E2" /\ flush_addr_q = 0
             \/ fence = "WB" /\ flush_addr_q = 1
             \/ fence = "BRANCH"
    /\ skid.valid /\ fence \in {"NONE", "E1"} /\ ~branch_q => state_q = "LOOKUP"

OwnShown(e) == Own(e.instr, e.pc) /\ ~e.fault

Buffers ==
    ~failed => /\ skid.valid /\ ~branch_q => OwnShown(skid)
               /\ decode.valid => OwnShown(decode)

FrontInv ==
    /\ Registers /\ Memories /\ Paired /\ Order
    /\ Refilling /\ Lines /\ Contents /\ Outputs /\ Fencing /\ Buffers

-----------------------------------------------------------------------------
New(i, a) == i.word = imem[a]

\* The flush of the fence.i in E1 has emptied the cache, or will.
Fresh == synced \/ fence \in {"E2", "WB", "BRANCH"}

FreshInv ==
    ~failed =>
    /\ Fresh /\ state_q # "FLUSH" =>
          \A way \in Cache!Ways : \A a \in PCs :
              Cached(way, a) => New(InWay(way, a), a)
    /\ synced => /\ skid.valid /\ ~branch_q => New(skid.instr, skid.pc)
                 /\ decode.valid => New(decode.instr, decode.pc)

\* The flush pulse of fence.i meets a cache that looks at it.
PulseSeen == fence = "E1" /\ ~synced => state_q = "LOOKUP" /\ ~Cache!Miss

Found(a) == state_q = "LOOKUP" /\ \E way \in Cache!Ways : Holds(way, a)

InLine ==
    /\ skid.valid /\ fence = "NONE" /\ ~branch_q => Found(pc_d_q)
    /\ fence = "E1" => lookup_valid_q /\ Looked /\ Found(lookup_addr_q)

-----------------------------------------------------------------------------
(***************************************************************************)
(* Addresses, lines and sets.                                              *)
(***************************************************************************)
LEMMA Multiples ==
    ASSUME NEW x \in Int, NEW y \in Int, NEW b \in Nat, x <= y
    PROVE  x * b <= y * b
<1>1. (y - x) * b >= 0
  OBVIOUS
<1>2. (y - x) * b = y * b - x * b
  OBVIOUS
<1> QED
  BY <1>1, <1>2

LEMMA Division ==
    ASSUME NEW a \in Nat, NEW b \in Nat \ {0}
    PROVE  a \div b \in Nat /\ a % b \in 0 .. (b - 1) /\ a = (a \div b) * b + (a % b)
OBVIOUS

\* Quotient and remainder are determined by the equation.
LEMMA OneQuotient ==
    ASSUME NEW b \in Nat \ {0}, NEW p \in Int, NEW q \in Int,
           NEW r \in 0 .. (b - 1), NEW s \in 0 .. (b - 1),
           p * b + r = q * b + s
    PROVE  p = q
<1>1. p * b \in Int /\ q * b \in Int
  OBVIOUS
<1>2. ASSUME NEW x \in Int, NEW y \in Int, x < y
      PROVE  x * b + b <= y * b /\ x * b \in Int /\ y * b \in Int
  <2>1. (x + 1) * b <= y * b
    BY <1>2, Multiples
  <2>2. (x + 1) * b = x * b + b
    OBVIOUS
  <2> QED
    BY <2>1, <2>2
<1>3. ~(p < q)
  BY <1>1, <1>2
<1>4. ~(q < p)
  BY <1>1, <1>2
<1> QED
  BY <1>3, <1>4

LEMMA Place ==
    ASSUME NEW a \in PCs
    PROVE  /\ a \in Nat /\ a < NumPCs
           /\ Cache!LineOf(a) \in Nat /\ Cache!WordOf(a) \in Offsets
           /\ a = Cache!LineOf(a) * LineWords + Cache!WordOf(a)
           /\ Cache!TagOf(a) \in Nat /\ Cache!SetOf(a) \in Cache!Sets
           /\ <<Cache!SetOf(a), Cache!WordOf(a)>> \in Cache!Sets \X Offsets
<1>1. a \in Nat /\ a < NumPCs
  BY FrontEndAssumption DEF PCs
<1>2. /\ Cache!LineOf(a) \in Nat /\ Cache!WordOf(a) \in Offsets
      /\ a = Cache!LineOf(a) * LineWords + Cache!WordOf(a)
  BY <1>1, FrontEndAssumption, Division DEF Cache!LineOf, Cache!WordOf, Offsets
<1>3. /\ Cache!LineOf(a) \div NumSets \in Nat
      /\ Cache!LineOf(a) % NumSets \in 0 .. (NumSets - 1)
  BY <1>2, FrontEndAssumption, Division
<1>4. Cache!TagOf(a) \in Nat /\ Cache!SetOf(a) \in Cache!Sets
  BY <1>3, FrontEndAssumption DEF Cache!TagOf, Cache!SetOf, Cache!Sets
<1> QED
  BY <1>1, <1>2, <1>4

\* Set and tag name a line.
LEMMA SameLine ==
    ASSUME NEW a \in PCs, NEW b \in PCs,
           Cache!SetOf(a) = Cache!SetOf(b), Cache!TagOf(a) = Cache!TagOf(b)
    PROVE  Cache!LineOf(a) = Cache!LineOf(b)
<1>1. Cache!LineOf(a) \in Nat /\ Cache!LineOf(b) \in Nat
  BY Place
<1> DEFINE qa == Cache!LineOf(a) \div NumSets
           qb == Cache!LineOf(b) \div NumSets
           ra == Cache!LineOf(a) % NumSets
           rb == Cache!LineOf(b) % NumSets
<1>2. /\ ra \in 0 .. (NumSets - 1) /\ rb \in 0 .. (NumSets - 1)
      /\ Cache!LineOf(a) = qa * NumSets + ra
      /\ Cache!LineOf(b) = qb * NumSets + rb
  BY <1>1, FrontEndAssumption, Division
<1>3. qa = qb
  BY DEF Cache!TagOf
<1>4. ra = rb
  <2>1. (LastSet + 1 - NumSets) + ra = (LastSet + 1 - NumSets) + rb
    BY DEF Cache!SetOf
  <2> HIDE DEF ra, rb
  <2> QED
    BY <1>2, <2>1, FrontEndAssumption
<1> QED
  BY <1>2, <1>3, <1>4

\* Lines are in one set under one tag, and have all their words.
LEMMA SameSet ==
    ASSUME NEW a \in PCs, NEW b \in PCs, Cache!LineOf(a) = Cache!LineOf(b)
    PROVE  Cache!SetOf(a) = Cache!SetOf(b) /\ Cache!TagOf(a) = Cache!TagOf(b)
BY DEF Cache!SetOf, Cache!TagOf

LEMMA WholeLine ==
    ASSUME NEW a \in PCs, NEW w \in Offsets
    PROVE  /\ Cache!LineOf(a) * LineWords + w \in PCs
           /\ Cache!LineOf(Cache!LineOf(a) * LineWords + w) = Cache!LineOf(a)
<1> DEFINE l == Cache!LineOf(a)
           k == NumPCs \div LineWords
           c == l * LineWords + w
<1>1. /\ l \in Nat /\ Cache!WordOf(a) \in 0 .. (LineWords - 1)
      /\ a = l * LineWords + Cache!WordOf(a) /\ a < NumPCs /\ a \in Nat
  BY Place DEF Offsets
<1>2. /\ k \in Nat /\ NumPCs = k * LineWords
      /\ LineWords \in Nat /\ LineWords > 0 /\ NumPCs \in Nat
  BY Division, FrontEndAssumption
<1>3. l * LineWords \in Nat /\ k * LineWords \in Nat /\ w \in 0 .. (LineWords - 1)
  BY <1>1, <1>2 DEF Offsets
<1> HIDE DEF l, k
<1>4. l < k
  <2>1. CASE k <= l
    <3>1. k * LineWords <= l * LineWords
      BY <1>1, <1>2, <2>1, Multiples
    <3> QED
      BY <3>1, <1>1, <1>2, <1>3
  <2> QED
    BY <2>1, <1>1, <1>2
<1>5. l * LineWords + LineWords <= k * LineWords
  <2>1. (l + 1) * LineWords <= k * LineWords
    BY <1>1, <1>2, <1>4, Multiples
  <2>2. (l + 1) * LineWords = l * LineWords + LineWords
    BY <1>1, <1>2
  <2> QED
    BY <2>1, <2>2
<1>6. c \in Nat /\ c < NumPCs
  BY <1>2, <1>3, <1>5
<1>7. c \in PCs
  BY <1>2, <1>6 DEF PCs
<1>8. Cache!LineOf(c) = l
  <2>1. /\ Cache!LineOf(c) \in Nat /\ Cache!WordOf(c) \in 0 .. (LineWords - 1)
        /\ c = Cache!LineOf(c) * LineWords + Cache!WordOf(c)
    BY <1>7, Place DEF Offsets
  <2>2. l * LineWords + w = Cache!LineOf(c) * LineWords + Cache!WordOf(c)
    BY <2>1
  <2> HIDE DEF c
  <2> QED
    BY <1>1, <1>2, <1>3, <2>1, <2>2, OneQuotient
<1> QED
  BY <1>7, <1>8 DEF l

LEMMA FollowingIsPC ==
    ASSUME NEW a \in Nat PROVE Fetch!Following(a) \in PCs
<1>1. (a + 1) % NumPCs \in 0 .. (NumPCs - 1)
  BY FrontEndAssumption, Division
<1> QED
  BY <1>1 DEF Fetch!Following, PCs

\* The next address is in the same line, but for the last one.
LEMMA NextInLine ==
    ASSUME NEW a \in PCs, Cache!WordOf(a) # LineWords - 1
    PROVE  Cache!LineOf(Fetch!Following(a)) = Cache!LineOf(a)
<1>1. /\ Cache!LineOf(a) \in Nat /\ Cache!WordOf(a) \in Offsets /\ a \in Nat
      /\ a = Cache!LineOf(a) * LineWords + Cache!WordOf(a)
  BY Place
<1>2. Cache!WordOf(a) + 1 \in Offsets
  BY <1>1, FrontEndAssumption DEF Offsets
<1>3. Cache!LineOf(a) * LineWords + (Cache!WordOf(a) + 1) = a + 1
  <2>1. Cache!LineOf(a) * LineWords \in Nat /\ Cache!WordOf(a) \in Nat
    BY <1>1, FrontEndAssumption DEF Offsets
  <2> QED
    BY <1>1, <2>1
<1>4. a + 1 \in PCs /\ Cache!LineOf(a + 1) = Cache!LineOf(a)
  BY <1>2, <1>3, WholeLine
<1>5. (a + 1) % NumPCs = a + 1
  BY <1>4, FrontEndAssumption DEF PCs
<1> QED
  BY <1>4, <1>5 DEF Fetch!Following

-----------------------------------------------------------------------------
(***************************************************************************)
(* A step of the system is a clock edge; what issue does depends on where  *)
(* fence.i is.                                                             *)
(***************************************************************************)
Steers(accept, branch, target) ==
    \/ fence = "RESET" /\ accept /\ branch /\ fence' = "NONE" /\ synced' = synced
    \/ fence = "NONE" /\ accept = ~Shown.valid /\ ~branch /\ fence' = "NONE"
       /\ synced' = synced
    \/ fence = "E1" /\ accept = ~Shown.valid /\ ~branch /\ fence' = "E2"
       /\ synced' = synced
    \/ /\ fence = "NONE" /\ Shown.valid /\ accept /\ ~branch /\ synced' = synced
       /\ fence' = IF Shown.pc = FenceAt /\ ~Shown.fault THEN "E1" ELSE "NONE"
    \/ fence = "NONE" /\ branch /\ fence' = "NONE" /\ synced' = synced
       /\ (accept \/ Shown.valid)
    \/ fence = "E2" /\ accept /\ ~branch /\ fence' = "WB" /\ synced' = synced
    \/ fence = "WB" /\ accept /\ ~branch /\ fence' = "BRANCH" /\ synced' = synced
    \/ fence = "BRANCH" /\ accept /\ branch /\ fence' = "NONE" /\ synced' = TRUE

Edge(accept, branch, target, arready, beat) ==
    /\ accept \in BOOLEAN /\ branch \in BOOLEAN /\ target \in PCs
    /\ arready \in BOOLEAN /\ (arready => Cache!ArValid)
    /\ beat \in Cache!Beats
    /\ Clock(accept, branch, target, arready, beat)
    /\ Steers(accept, branch, target)
    /\ Store

SomeEdge == \E accept, branch, target, arready, beat :
                Edge(accept, branch, target, arready, beat)

LEMMA ZeroIsPC == 0 \in PCs
BY FrontEndAssumption DEF PCs

LEMMA BusEdge ==
    ASSUME NEW accept \in BOOLEAN, NEW branch \in BOOLEAN, NEW target \in PCs,
           Bus(accept, branch, target), Steers(accept, branch, target), Store
    PROVE  SomeEdge
<1>1. PICK arready \in (IF Cache!ArValid THEN BOOLEAN ELSE {FALSE}), beat \in Cache!Beats :
         Clock(accept, branch, target, arready, beat)
  BY DEF Bus
<1>2. arready \in BOOLEAN /\ (arready => Cache!ArValid)
  BY <1>1
<1>3. Edge(accept, branch, target, arready, beat)
  BY <1>1, <1>2 DEF Edge
<1> QED
  BY <1>3 DEF SomeEdge

LEMMA Edges == ASSUME Next PROVE SomeEdge
<1>1. CASE Reset /\ Store
  BY <1>1, BusEdge, ZeroIsPC DEF Reset, Steers
<1>2. CASE Hold /\ Store
  <2> DEFINE accept == ~Shown.valid
  <2>1. accept \in BOOLEAN /\ Bus(accept, FALSE, 0)
    BY <1>2 DEF Hold
  <2>2. Steers(accept, FALSE, 0)
    BY <1>2 DEF Hold, Steers
  <2> HIDE DEF accept
  <2> QED
    BY <1>2, <2>1, <2>2, BusEdge, ZeroIsPC
<1>3. CASE Accept /\ Store
  BY <1>3, BusEdge, ZeroIsPC DEF Accept, Steers
<1>4. CASE FencePasses /\ Store
  <2>1. Bus(TRUE, FALSE, 0)
    BY <1>4 DEF FencePasses
  <2>2. Steers(TRUE, FALSE, 0)
    BY <1>4 DEF FencePasses, Steers
  <2> QED
    BY <1>4, <2>1, <2>2, BusEdge, ZeroIsPC
<1>5. CASE Resume /\ Store
  <2>1. Fetch!Following(FenceAt) \in PCs
    BY FollowingIsPC, FrontEndAssumption
  <2> QED
    BY <1>5, <2>1, BusEdge DEF Resume, Steers
<1>6. ASSUME NEW accept \in {TRUE, ~Shown.valid}, NEW target \in Targets,
             Branch(accept, target), Store
      PROVE  SomeEdge
  <2>1. accept \in BOOLEAN /\ target \in PCs
    BY FrontEndAssumption
  <2>2. Bus(accept, TRUE, target)
    BY <1>6 DEF Branch
  <2>3. Steers(accept, TRUE, target)
    BY <1>6 DEF Branch, Steers
  <2> QED
    BY <1>6, <2>1, <2>2, <2>3, BusEdge
<1> QED
  BY <1>1, <1>2, <1>3, <1>4, <1>5, <1>6 DEF Next, Tick

-----------------------------------------------------------------------------
(***************************************************************************)
(* The wires between the two units.                                        *)
(***************************************************************************)
Answer == Cache!ReqValid

LEMMA CacheWires ==
    /\ Answer => Cache!ReqAccept
    /\ Cache!ReqAccept => state_q = "LOOKUP"
    /\ Answer => state_q = "LOOKUP" /\ lookup_valid_q /\ Cache!HitAny
    /\ state_q = "LOOKUP" /\ lookup_valid_q => Answer \/ Cache!Miss
    /\ Cache!Miss => ~Cache!ReqAccept
BY DEF Answer, Cache!ReqValid, Cache!ReqAccept, Cache!Miss

LEMMA FetchWires ==
    ASSUME NEW accept \in BOOLEAN
    PROVE  /\ Ic.accept <=> Cache!ReqAccept
           /\ Ic.valid <=> Answer
           /\ Fetch!Busy(Ic) <=> (icache_fetch_q /\ ~Answer)
           /\ Fetch!Takes(accept, Ic) <=> (active_q /\ ~Fetch!Stall(accept, Ic))
           /\ Fetch!Stall(accept, Ic) <=>
                 (~accept \/ (icache_fetch_q /\ ~Answer) \/ ~Cache!ReqAccept)
           /\ (Fetch!Rd(accept, Ic) /\ Cache!ReqAccept) <=> Fetch!Takes(accept, Ic)
BY DEF Ic, Answer, Fetch!Busy, Fetch!Takes, Fetch!Rd, Fetch!Stall

\* What fetch shows.
Fetches(f) ==
    /\ f \in Shows
    /\ f.valid <=> (~branch_q /\ ~branch_d_q /\ (Answer \/ skid.valid))
    /\ ~f.valid => f = Fetch!Nothing
    /\ f.valid /\ skid.valid => f = skid
    /\ f.valid /\ ~skid.valid =>
          f.pc = pc_d_q /\ f.instr = Cache!ReqInst /\ f.fault = axi_error_q

LEMMA FetchedIs ==
    ASSUME Registers, Memories PROVE Fetches(Fetch!Fetched(Ic))
<1> DEFINE f == Fetch!Fetched(Ic)
           asked == [valid |-> TRUE, pc |-> pc_d_q, instr |-> Ic.inst, fault |-> Ic.error]
<1>1. Fetch!Nothing \in Shows /\ ~Fetch!Nothing.valid
  BY ZeroIsPC DEF Fetch!Nothing, Shows, Instrs
<1>2. /\ asked \in Shows /\ asked.valid = TRUE /\ asked.pc = pc_d_q
      /\ asked.instr = Cache!ReqInst /\ asked.fault = axi_error_q
  <2>1. Cache!ReqInst \in Instrs
    BY DEF Memories, Cache!ReqInst, Cache!Ways
  <2>2. Ic.inst = Cache!ReqInst /\ Ic.error = axi_error_q
    BY DEF Ic, Cache!ReqError
  <2> QED
    BY <2>1, <2>2 DEF Registers, Memories, Shows
<1>3. f = IF branch_q \/ branch_d_q \/ ~(Answer \/ skid.valid) THEN Fetch!Nothing
          ELSE IF skid.valid THEN skid ELSE asked
  BY DEF Fetch!Fetched, Fetch!Dropped, Ic, Answer
<1> HIDE DEF f, asked
<1>4. skid \in Shows /\ skid.valid \in BOOLEAN /\ branch_q \in BOOLEAN /\ branch_d_q \in BOOLEAN
  BY DEF Registers, Shows
<1> SUFFICES Fetches(f)
  BY DEF f
<1>5. CASE branch_q \/ branch_d_q \/ ~(Answer \/ skid.valid)
  <2>1. f = Fetch!Nothing
    BY <1>3, <1>5
  <2> QED
    BY <1>1, <1>5, <2>1 DEF Fetches
<1>6. CASE ~(branch_q \/ branch_d_q \/ ~(Answer \/ skid.valid)) /\ skid.valid
  <2>1. f = skid
    BY <1>3, <1>6
  <2> QED
    BY <1>4, <1>6, <2>1 DEF Fetches
<1>7. CASE ~(branch_q \/ branch_d_q \/ ~(Answer \/ skid.valid)) /\ ~skid.valid
  <2>1. f = asked
    BY <1>3, <1>7
  <2>2. f \in Shows /\ f.valid /\ f.pc = pc_d_q
        /\ f.instr = Cache!ReqInst /\ f.fault = axi_error_q
    BY <1>2, <2>1
  <2> QED
    BY <1>7, <2>2 DEF Fetches
<1> QED
  BY <1>5, <1>6, <1>7

-----------------------------------------------------------------------------
(***************************************************************************)
(* Types.                                                                  *)
(***************************************************************************)
LEMMA RegistersKept ==
    ASSUME Registers, Memories,
           NEW accept, NEW branch, NEW target, NEW arready, NEW beat,
           Edge(accept, branch, target, arready, beat)
    PROVE  Registers'
<1> DEFINE f == Fetch!Fetched(Ic)
<1>1. /\ accept \in BOOLEAN /\ branch \in BOOLEAN /\ target \in PCs
      /\ Fetch!Edge(accept, branch, target, Ic)
  BY DEF Edge, Clock
<1>2. f \in Shows
  BY FetchedIs DEF Fetches
<1>3. Fetch!Nothing \in Shows
  BY ZeroIsPC DEF Fetch!Nothing, Shows, Instrs
<1>4. skid' \in Shows /\ decode' \in Shows
  <2>1. skid' = f \/ skid' = Fetch!Nothing
    BY <1>1 DEF Fetch!Edge, Fetch!SkidBuffer
  <2>2. decode' = f \/ decode' = Fetch!Nothing \/ decode' = decode
    BY <1>1 DEF Fetch!Edge, Fetch!DecodeBuffer
  <2> QED
    BY <1>2, <1>3, <2>1, <2>2 DEF Registers
<1>5. branch_pc_q' \in PCs /\ branch_q' \in BOOLEAN
  BY <1>1, ZeroIsPC DEF Fetch!Edge, Fetch!BranchBuffer, Registers
<1>6. active_q' \in BOOLEAN /\ icache_fetch_q' \in BOOLEAN
  BY <1>1 DEF Fetch!Edge, Fetch!Active, Fetch!RequestTracking
<1>7. pc_f_q' \in PCs /\ branch_d_q' \in BOOLEAN /\ pc_d_q' \in PCs
  <2>1. Fetch!Following(pc_f_q) \in PCs
    BY FollowingIsPC, Place DEF Registers
  <2> QED
    BY <1>1, <2>1 DEF Fetch!Edge, Fetch!ProgramCounters, Registers
<1>8. expected' \in PCs
  <2>1. Shown \in Shows
    BY <1>2 DEF Shown, Fetch!Shown, Registers
  <2>2. Shown.pc \in PCs
    BY <2>1 DEF Shows
  <2>3. Fetch!Following(Shown.pc) \in PCs
    BY <2>2, FollowingIsPC, Place
  <2> HIDE DEF f
  <2> QED
    BY <1>1, <2>3 DEF Edge, Clock, Registers
<1>9. failed' \in BOOLEAN /\ synced' \in BOOLEAN
      /\ fence' \in {"RESET", "NONE", "E1", "E2", "WB", "BRANCH"}
  BY DEF Edge, Clock, Steers, Registers
<1> QED
  BY <1>4, <1>5, <1>6, <1>7, <1>8, <1>9 DEF Registers

LEMMA BeatWires ==
    ASSUME Memories, Refilling, NEW beat \in Cache!Beats
    PROVE  /\ beat # "NONE" => state_q = "REFILL" /\ beats # 0 /\ beat \in {"OK", "ERROR"}
           /\ Cache!LastBeat(beat) => beat # "NONE" /\ beats = 1
           /\ beat # "NONE" /\ beats = 1 => Cache!LastBeat(beat)
BY FrontEndAssumption DEF Cache!Beats, Cache!LastBeat, Refilling, Memories

LEMMA BeatDataIs ==
    ASSUME Registers, Memories, Refilling, NEW beat \in Cache!Beats, beat # "NONE"
    PROVE  LET a == Cache!LineOf(lookup_addr_q) * LineWords + data_write_q
           IN  /\ a \in PCs /\ Cache!BeatData(beat) \in Instrs
               /\ beat = "OK" => Cache!BeatData(beat) = [at |-> a, word |-> imem[a]]
<1> DEFINE a == Cache!LineOf(lookup_addr_q) * LineWords + data_write_q
<1>1. LineWords - beats = data_write_q
  <2>1. state_q = "REFILL" /\ beats # 0
    BY BeatWires
  <2>2. beats = LineWords - data_write_q
    BY <2>1 DEF Refilling
  <2> QED
    BY <2>2, FrontEndAssumption DEF Memories, Offsets
<1>2. a \in PCs
  BY WholeLine DEF Memories
<1>3. Cache!BeatData(beat) = IF beat = "OK" THEN [at |-> a, word |-> imem[a]]
                             ELSE Cache!Undef
  BY <1>1 DEF Cache!BeatData
<1>4. Cache!Undef \in Instrs
  BY ZeroIsPC DEF Cache!Undef, Instrs
<1>5. [at |-> a, word |-> imem[a]] \in Instrs
  BY <1>2 DEF Memories, Instrs
<1> HIDE DEF a
<1>6. Cache!BeatData(beat) \in Instrs
  BY <1>3, <1>4, <1>5
<1>7. beat = "OK" => Cache!BeatData(beat) = [at |-> a, word |-> imem[a]]
  BY <1>3
<1> QED
  BY <1>2, <1>6, <1>7 DEF a

\* Where the memories are read and written.
LEMMA Addressed ==
    ASSUME Registers, Memories, NEW at \in PCs
    PROVE  /\ Cache!TagAddr(at) \in Cache!Sets
           /\ Cache!DataAddr(at) \in Cache!Sets \X Offsets
<1>1. Cache!SetOf(at) \in Cache!Sets /\ Cache!WordOf(at) \in Offsets
  BY Place
<1>2. Cache!SetOf(lookup_addr_q) \in Cache!Sets /\ Cache!WordOf(lookup_addr_q) \in Offsets
  BY Place DEF Memories
<1>3. data_write_q \in Offsets /\ flush_addr_q \in Cache!Sets
  BY DEF Memories
<1>4. Cache!TagAddr(at) \in Cache!Sets
  BY <1>1, <1>2, <1>3 DEF Cache!TagAddr
<1>5. Cache!DataAddr(at) \in Cache!Sets \X Offsets
  BY <1>1, <1>2, <1>3 DEF Cache!DataAddr
<1> QED
  BY <1>4, <1>5

LEMMA MemoriesKept ==
    ASSUME Registers, Memories, Refilling,
           NEW accept, NEW branch, NEW target, NEW arready, NEW beat,
           Edge(accept, branch, target, arready, beat)
    PROVE  Memories'
<1>1. /\ arready \in BOOLEAN /\ beat \in Cache!Beats /\ Store
      /\ Cache!Edge(Fetch!Rd(accept, Ic), pc_f_q, fence = "E1", arready, beat)
  BY DEF Edge, Clock
<1>2. pc_f_q \in PCs
  BY DEF Registers
<1>3. state_q' \in {"FLUSH", "LOOKUP", "REFILL", "RELOOKUP"}
  BY <1>1 DEF Cache!Edge, Cache!State, Memories
<1>4. lookup_valid_q' \in BOOLEAN /\ lookup_addr_q' \in PCs
  BY <1>1, <1>2 DEF Cache!Edge, Cache!Lookup, Memories
<1>5. tags' \in [Cache!Ways -> [Cache!Sets -> Tags]]
  <2>1. ASSUME NEW way \in Cache!Ways
        PROVE  Cache!TagWrite(way, beat) \in [Cache!Sets -> Tags]
    <3>1. tags[way] \in [Cache!Sets -> Tags]
      BY DEF Memories
    <3>2. Cache!Invalid \in Tags /\ Cache!TagOf(lookup_addr_q) \in Tags
      BY Place DEF Tags, Memories
    <3> QED
      BY <3>1, <3>2 DEF Cache!TagWrite
  <2> QED
    BY <1>1, <2>1 DEF Cache!Edge, Cache!TagRams
<1>6. tag_out' \in [Cache!Ways -> Tags] /\ data_out' \in [Cache!Ways -> Instrs]
  <2>1. \A way \in Cache!Ways : /\ tags[way][Cache!TagAddr(pc_f_q)] \in Tags
                                /\ data[way][Cache!DataAddr(pc_f_q)] \in Instrs
    BY <1>2, Addressed DEF Memories
  <2> QED
    BY <1>1, <2>1 DEF Cache!Edge, Cache!TagRams, Cache!DataRams
<1>7. data' \in [Cache!Ways -> [Cache!Sets \X Offsets -> Instrs]]
  <2>1. ASSUME NEW way \in Cache!Ways
        PROVE  (IF beat # "NONE" /\ replace_way_q = way
                THEN [data[way] EXCEPT ![Cache!DataAddr(pc_f_q)] = Cache!BeatData(beat)]
                ELSE data[way]) \in [Cache!Sets \X Offsets -> Instrs]
    <3>1. data[way] \in [Cache!Sets \X Offsets -> Instrs]
      BY DEF Memories
    <3>2. beat # "NONE" => Cache!BeatData(beat) \in Instrs
      BY <1>1, BeatDataIs
    <3> QED
      BY <3>1, <3>2
  <2> QED
    BY <1>1, <2>1 DEF Cache!Edge, Cache!DataRams
<1>8. data_write_q' \in Offsets
  <2>1. 0 \in Offsets /\ (data_write_q + 1) % LineWords \in Offsets
    BY FrontEndAssumption, Division DEF Memories, Offsets
  <2> QED
    BY <1>1, <2>1 DEF Cache!Edge, Cache!DataRams, Memories
<1>9. flush_addr_q' \in Cache!Sets
  <2>1. 0 \in Cache!Sets /\ (flush_addr_q + 1) % (LastSet + 1) \in Cache!Sets
    <3>1. flush_addr_q \in 0 .. LastSet
      BY DEF Memories, Cache!Sets
    <3>2. (flush_addr_q + 1) % (LastSet + 1) \in 0 .. (LastSet + 1 - 1)
      BY <3>1, FrontEndAssumption, Division
    <3> QED
      BY <3>2, FrontEndAssumption DEF Cache!Sets
  <2> QED
    BY <1>1, <2>1 DEF Cache!Edge, Cache!FlushCounter
<1>10. replace_way_q' \in Cache!Ways /\ axi_arvalid_q' \in BOOLEAN /\ axi_error_q' \in BOOLEAN
  BY <1>1 DEF Cache!Edge, Cache!Replacement, Cache!Axi, Cache!Ways, Memories
<1>11. beats' \in 0 .. LineWords
  <2>1. beats' = LineWords \/ beats' = beats \/ (beat # "NONE" /\ beats' = beats - 1)
    BY <1>1 DEF Cache!Edge, Cache!Axi
  <2>2. beat # "NONE" => beats # 0
    BY <1>1, BeatWires
  <2> QED
    BY <2>1, <2>2, FrontEndAssumption DEF Memories
<1>12. imem' \in [PCs -> {"OLD", "NEW"}]
  BY <1>1 DEF Store, Memories
<1> QED
  BY <1>3, <1>4, <1>5, <1>6, <1>7, <1>8, <1>9, <1>10, <1>11, <1>12 DEF Memories

-----------------------------------------------------------------------------
(***************************************************************************)
(* The fetch unit and the order of what it shows.                          *)
(***************************************************************************)
LEMMA FetchEdge ==
    ASSUME Registers, Memories, Paired,
           NEW accept, NEW branch, NEW target, NEW arready, NEW beat,
           Edge(accept, branch, target, arready, beat)
    PROVE  LET f     == Fetch!Fetched(Ic)
               takes == active_q /\ accept /\ (icache_fetch_q => Answer) /\ Cache!ReqAccept
               moves == accept /\ (icache_fetch_q => Answer) /\ Cache!ReqAccept
           IN  /\ branch_q' <=> (branch \/ (branch_q /\ ~takes))
               /\ branch => branch_pc_q' = target /\ expected' = target
               /\ ~branch /\ branch_q' => branch_pc_q' = branch_pc_q
               /\ active_q' <=> (active_q \/ (branch_q /\ moves))
               /\ icache_fetch_q' <=> (takes \/ (icache_fetch_q /\ ~Answer))
               /\ takes => pc_d_q' = pc_f_q
               /\ ~takes => pc_d_q' = pc_d_q
               /\ moves => /\ branch_d_q' = branch_q
                           /\ branch_q => pc_f_q' = branch_pc_q
                           /\ ~branch_q => pc_f_q' = Fetch!Following(pc_f_q)
               /\ ~moves => branch_d_q' = branch_d_q /\ pc_f_q' = pc_f_q
               /\ f.valid /\ ~accept => skid' = f
               /\ ~f.valid \/ accept => skid' = Fetch!Nothing
               /\ ~DecodeStage \/ branch => decode' = Fetch!Nothing
               /\ DecodeStage /\ ~branch /\ (accept \/ ~decode.valid) => decode' = f
               /\ DecodeStage /\ ~branch /\ ~accept /\ decode.valid => decode' = decode
               /\ ~branch /\ Shown.valid /\ accept => expected' = Fetch!Following(Shown.pc)
               /\ ~branch /\ ~(Shown.valid /\ accept) => expected' = expected
<1>1. /\ accept \in BOOLEAN /\ branch \in BOOLEAN /\ target \in PCs
      /\ Fetch!Edge(accept, branch, target, Ic)
      /\ expected' = IF branch THEN target
                     ELSE IF Shown.valid /\ accept THEN Fetch!Following(Shown.pc)
                     ELSE expected
  BY DEF Edge, Clock
<1> DEFINE takes == active_q /\ accept /\ (icache_fetch_q => Answer) /\ Cache!ReqAccept
           moves == accept /\ (icache_fetch_q => Answer) /\ Cache!ReqAccept
<1>2. /\ Fetch!Takes(accept, Ic) <=> takes
      /\ Fetch!Stall(accept, Ic) <=> ~moves
      /\ Ic.valid <=> Answer
  BY <1>1, FetchWires
<1>3. /\ branch_q' <=> (branch \/ (branch_q /\ ~takes))
      /\ branch => branch_pc_q' = target
      /\ ~branch /\ branch_q' => branch_pc_q' = branch_pc_q
  BY <1>1, <1>2 DEF Fetch!Edge, Fetch!BranchBuffer, Registers
<1>4. /\ active_q' <=> (active_q \/ (branch_q /\ moves))
      /\ icache_fetch_q' <=> (takes \/ (icache_fetch_q /\ ~Answer))
  BY <1>1, <1>2 DEF Fetch!Edge, Fetch!Active, Fetch!RequestTracking, Registers
<1>5. /\ takes => pc_d_q' = pc_f_q
      /\ ~takes => pc_d_q' = pc_d_q
      /\ moves => /\ branch_d_q' = branch_q
                  /\ branch_q => pc_f_q' = branch_pc_q
                  /\ ~branch_q => pc_f_q' = Fetch!Following(pc_f_q)
      /\ ~moves => branch_d_q' = branch_d_q /\ pc_f_q' = pc_f_q
  BY <1>1, <1>2 DEF Fetch!Edge, Fetch!ProgramCounters
<1> QED
  BY <1>1, <1>3, <1>4, <1>5
     DEF Fetch!Edge, Fetch!SkidBuffer, Fetch!DecodeBuffer

LEMMA PairedKept ==
    ASSUME Registers, Memories, Paired,
           NEW accept, NEW branch, NEW target, NEW arready, NEW beat,
           Edge(accept, branch, target, arready, beat), Registers', Memories'
    PROVE  Paired'
<1> DEFINE f == Fetch!Fetched(Ic)
           takes == active_q /\ accept /\ (icache_fetch_q => Answer) /\ Cache!ReqAccept
<1>1. accept \in BOOLEAN /\ Cache!Lookup(Fetch!Rd(accept, Ic), pc_f_q)
  BY DEF Edge, Clock, Cache!Edge
<1>2. /\ lookup_valid_q' <=> (takes \/ (lookup_valid_q /\ ~Answer))
      /\ takes => lookup_addr_q' = pc_f_q
      /\ ~takes => lookup_addr_q' = lookup_addr_q
  <2>1. (Fetch!Rd(accept, Ic) /\ Cache!ReqAccept) <=> takes
    BY <1>1, FetchWires
  <2> QED
    BY <1>1, <2>1 DEF Cache!Lookup, Answer
<1>3. icache_fetch_q' = lookup_valid_q' /\ pc_d_q' = lookup_addr_q'
  BY <1>2, FetchEdge DEF Paired, Registers, Memories
<1>4. Fetch!Nothing.valid = FALSE
  BY DEF Fetch!Nothing
<1>5. Fetches(f)
  BY FetchedIs
<1>6. ~skid'.valid => skid' = Fetch!Nothing
  BY <1>5, FetchEdge DEF Fetches
<1>7. (~decode'.valid => decode' = Fetch!Nothing) /\ (~DecodeStage => ~decode'.valid)
  BY <1>4, <1>5, FetchEdge DEF Fetches, Paired
<1>8. skid'.valid => ~icache_fetch_q' /\ skid'.pc = pc_d_q'
  BY <1>4, <1>5, FetchEdge DEF Fetches, Paired
<1>9. ~active_q' => /\ ~icache_fetch_q' /\ ~skid'.valid /\ ~decode'.valid
                    /\ fence' = "RESET" \/ branch_q'
  <2>1. ~active_q' => ~active_q /\ ~icache_fetch_q' /\ ~icache_fetch_q
    BY FetchEdge DEF Paired
  <2>2. ~active_q => ~f.valid
    BY <1>5, CacheWires DEF Fetches, Paired
  <2>3. ~active_q => ~skid'.valid
    BY <1>4, <2>2, FetchEdge
  <2>4. ~active_q => ~decode'.valid
    BY <1>4, <2>2, FetchEdge DEF Paired
  <2>5. ~active_q' => branch_q'
    <3>1. fence = "RESET" => branch
      BY DEF Edge, Steers
    <3> QED
      BY <2>1, <3>1, FetchEdge DEF Paired
  <2> QED
    BY <2>1, <2>3, <2>4, <2>5
<1>10. fence' # "RESET"
  BY DEF Edge, Steers
<1> QED
  BY <1>3, <1>6, <1>7, <1>8, <1>9, <1>10 DEF Paired

\* Without the decode register issue is shown what fetch shows.
LEMMA ShownIs ==
    ASSUME Registers, Memories, Paired
    PROVE  /\ Shown \in Shows /\ (~Shown.valid => Shown = Fetch!Nothing)
           /\ DecodeStage => Shown = decode
           /\ ~DecodeStage => Shown = Fetch!Fetched(Ic)
<1>1. Fetches(Fetch!Fetched(Ic))
  BY FetchedIs
<1> QED
  BY <1>1 DEF Shown, Fetch!Shown, Fetches, Paired, Registers

\* What is accepted is all that can be, or nothing is shown.
LEMMA Accepted ==
    ASSUME NEW accept, NEW branch, NEW target, NEW arready, NEW beat,
           Edge(accept, branch, target, arready, beat)
    PROVE  accept \in BOOLEAN /\ branch \in BOOLEAN /\ (accept \/ Shown.valid)
BY DEF Edge, Steers

LEMMA OrderKept ==
    ASSUME Registers, Memories, Paired, Order,
           NEW accept, NEW branch, NEW target, NEW arready, NEW beat,
           Edge(accept, branch, target, arready, beat),
           Registers', Memories', Paired'
    PROVE  Order'
<1> DEFINE f == Fetch!Fetched(Ic)
           takes == active_q /\ accept /\ (icache_fetch_q => Answer) /\ Cache!ReqAccept
           moves == accept /\ (icache_fetch_q => Answer) /\ Cache!ReqAccept
<1>1. Fetches(f) /\ (Answer => icache_fetch_q /\ Cache!ReqAccept)
  BY FetchedIs, CacheWires DEF Paired
<1>2. accept \in BOOLEAN /\ branch \in BOOLEAN /\ (accept \/ Shown.valid)
  BY Accepted
<1>3. /\ DecodeStage => Shown = decode
      /\ ~DecodeStage => Shown = f /\ ~decode.valid
  BY ShownIs DEF Paired
<1>4. Fetch!Nothing.valid = FALSE
  BY DEF Fetch!Nothing
<1>5. branch_q' => ~decode'.valid /\ expected' = branch_pc_q'
  <2>1. CASE branch
    BY <1>4, <2>1, FetchEdge
  <2>2. CASE ~branch /\ branch_q'
    <3>1. branch_q /\ ~f.valid /\ ~decode.valid /\ expected = branch_pc_q
      BY <1>1, <2>2, FetchEdge DEF Fetches, Order
    <3>2. ~Shown.valid
      BY <1>3, <3>1
    <3>3. expected' = expected /\ branch_pc_q' = branch_pc_q
      BY <2>2, <3>2, FetchEdge
    <3>4. ~decode'.valid
      BY <1>4, <2>2, <3>1, FetchEdge
    <3> QED
      BY <3>1, <3>3, <3>4
  <2> QED
    BY <2>1, <2>2
<1>6. branch_d_q' /\ ~branch_q' => ~decode'.valid /\ ~skid'.valid /\ expected' = pc_f_q'
  <2> SUFFICES ASSUME branch_d_q', ~branch_q'
               PROVE  ~decode'.valid /\ ~skid'.valid /\ expected' = pc_f_q'
    OBVIOUS
  <2>1. ~branch
    BY FetchEdge
  <2>2. (branch_q /\ moves) \/ (branch_d_q /\ ~moves /\ ~branch_q)
    BY <1>1, <2>1, FetchEdge DEF Registers
  <2>3. ~f.valid /\ ~decode.valid
    BY <1>1, <2>2 DEF Fetches, Order
  <2>4. ~Shown.valid /\ expected' = expected
    BY <1>3, <2>1, <2>3, FetchEdge
  <2>5. expected = pc_f_q'
    BY <2>2, FetchEdge DEF Order
  <2> QED
    BY <1>4, <2>1, <2>3, <2>4, <2>5, FetchEdge
<1>7. fence' # "RESET" /\ ~branch_q' /\ ~branch_d_q' =>
          /\ skid'.valid \/ icache_fetch_q' => pc_f_q' = Fetch!Following(pc_d_q')
          /\ decode'.valid => /\ expected' = decode'.pc
                              /\ NextPc' = Fetch!Following(decode'.pc)
          /\ ~decode'.valid => expected' = NextPc'
  <2> SUFFICES ASSUME ~branch_q', ~branch_d_q'
               PROVE  /\ skid'.valid \/ icache_fetch_q' => pc_f_q' = Fetch!Following(pc_d_q')
                      /\ decode'.valid => /\ expected' = decode'.pc
                                          /\ NextPc' = Fetch!Following(decode'.pc)
                      /\ ~decode'.valid => expected' = NextPc'
    OBVIOUS
  <2>1. ~branch /\ ~branch_q
    BY FetchEdge
  <2>2. fence # "RESET" /\ active_q
    BY <2>1 DEF Edge, Steers, Paired
  <2>3. CASE branch_d_q
    \* The answer is dropped; the next request is for what is expected.
    <3>1. ~f.valid /\ ~decode.valid /\ ~skid.valid /\ expected = pc_f_q
      BY <1>1, <2>1, <2>3 DEF Fetches, Order
    <3>2. ~Shown.valid /\ expected' = expected /\ accept
      BY <1>2, <1>3, <2>1, <3>1, FetchEdge
    <3>3. moves /\ takes
      <4>1. ~moves => branch_d_q' = branch_d_q
        BY FetchEdge
      <4> QED
        BY <2>2, <2>3, <4>1
    <3>4. ~decode'.valid /\ ~skid'.valid /\ icache_fetch_q' /\ pc_d_q' = pc_f_q
          /\ pc_f_q' = Fetch!Following(pc_f_q)
      BY <1>4, <2>1, <3>1, <3>2, <3>3, FetchEdge
    <3> QED
      BY <3>1, <3>2, <3>4 DEF NextPc
  <2>4. CASE ~branch_d_q
    <3>1. /\ skid.valid \/ icache_fetch_q => pc_f_q = Fetch!Following(pc_d_q)
          /\ decode.valid => /\ expected = decode.pc
                             /\ NextPc = Fetch!Following(decode.pc)
          /\ ~decode.valid => expected = NextPc
      BY <2>1, <2>2, <2>4 DEF Order
    <3>2. f.valid <=> (Answer \/ skid.valid)
      BY <1>1, <2>1, <2>4 DEF Fetches
    <3>3. f.valid => f.pc = pc_d_q /\ NextPc = pc_d_q
      BY <1>1, <3>2 DEF Fetches, Paired, NextPc
    <3>4. /\ f.valid /\ accept => /\ NextPc' = Fetch!Following(pc_d_q)
                                  /\ ~skid'.valid
          /\ ~(f.valid /\ accept) => NextPc' = NextPc
          /\ skid'.valid \/ icache_fetch_q' => pc_f_q' = Fetch!Following(pc_d_q')
      <4>1. CASE f.valid /\ ~accept
        <5>1. skid'.valid /\ ~takes /\ pc_d_q' = pc_d_q /\ pc_f_q' = pc_f_q
          BY <4>1, FetchEdge
        <5> QED
          BY <1>1, <3>1, <3>2, <3>3, <4>1, <5>1 DEF NextPc, Paired
      <4>2. CASE f.valid /\ accept
        <5>1. ~skid'.valid
          BY <1>4, <4>2, FetchEdge
        <5>2. CASE takes
          <6>1. icache_fetch_q' /\ pc_d_q' = pc_f_q /\ pc_f_q' = Fetch!Following(pc_f_q)
            BY <2>1, <5>2, FetchEdge
          <6> QED
            BY <1>1, <3>1, <3>2, <4>2, <5>1, <6>1 DEF NextPc
        <5>3. CASE ~takes
          <6>1. ~Answer /\ skid.valid /\ ~icache_fetch_q /\ ~moves
            BY <1>1, <2>2, <3>2, <4>2, <5>3 DEF Paired
          <6>2. ~icache_fetch_q' /\ pc_f_q' = pc_f_q
            BY <5>3, <6>1, FetchEdge
          <6> QED
            BY <3>1, <4>2, <5>1, <6>1, <6>2 DEF NextPc
        <5> QED
          BY <5>2, <5>3
      <4>3. CASE ~f.valid
        <5>1. ~skid'.valid /\ ~skid.valid /\ ~Answer
          BY <1>4, <3>2, <4>3, FetchEdge
        <5>2. CASE takes
          <6>1. /\ icache_fetch_q' /\ pc_d_q' = pc_f_q /\ ~icache_fetch_q
                /\ pc_f_q' = Fetch!Following(pc_f_q)
            BY <2>1, <5>1, <5>2, FetchEdge
          <6> QED
            BY <4>3, <5>1, <6>1 DEF NextPc
        <5>3. CASE ~takes
          <6>1. /\ icache_fetch_q' <=> icache_fetch_q
                /\ pc_d_q' = pc_d_q /\ pc_f_q' = pc_f_q
            BY <2>2, <5>1, <5>3, FetchEdge
          <6> QED
            BY <3>1, <4>3, <5>1, <6>1 DEF NextPc
        <5> QED
          BY <5>2, <5>3
      <4> QED
        BY <1>2, <4>1, <4>2, <4>3
    <3> HIDE DEF takes, moves
    <3>5. CASE DecodeStage
      <4>1. Shown = decode
        BY <1>3, <3>5
      <4>2. CASE accept \/ ~decode.valid
        <5>1. decode' = f /\ accept
          BY <1>2, <2>1, <3>5, <4>1, <4>2, FetchEdge
        <5>2. expected' = NextPc
          <6>1. CASE decode.valid
            BY <2>1, <3>1, <4>1, <5>1, <6>1, FetchEdge
          <6>2. CASE ~decode.valid
            BY <2>1, <3>1, <4>1, <6>2, FetchEdge
          <6> QED
            BY <6>1, <6>2
        <5> QED
          BY <3>3, <3>4, <5>1, <5>2
      <4>3. CASE ~accept /\ decode.valid
        <5>1. decode' = decode /\ expected' = expected /\ NextPc' = NextPc
          BY <2>1, <3>4, <3>5, <4>3, FetchEdge
        <5> QED
          BY <3>1, <3>4, <4>3, <5>1
      <4> QED
        BY <1>2, <4>2, <4>3
    <3>6. CASE ~DecodeStage
      <4>1. Shown = f /\ ~decode.valid /\ ~decode'.valid
        BY <1>3, <1>4, <3>6, FetchEdge
      <4>2. CASE f.valid /\ accept
        BY <2>1, <3>3, <3>4, <4>1, <4>2, FetchEdge
      <4>3. CASE ~(f.valid /\ accept)
        BY <2>1, <3>1, <3>4, <4>1, <4>3, FetchEdge
      <4> QED
        BY <4>2, <4>3
    <3> QED
      BY <3>5, <3>6, FrontEndAssumption
  <2> QED
    BY <2>3, <2>4 DEF Registers
<1> QED
  BY <1>5, <1>6, <1>7 DEF Order

-----------------------------------------------------------------------------
(***************************************************************************)
(* The cache.                                                              *)
(***************************************************************************)
LEMMA StateEdge ==
    ASSUME Registers, Memories, Refilling,
           NEW accept, NEW branch, NEW target, NEW arready, NEW beat,
           Edge(accept, branch, target, arready, beat)
    PROVE  /\ state_q = "FLUSH" =>
                 /\ flush_addr_q = LastSet => state_q' = "LOOKUP"
                 /\ flush_addr_q # LastSet =>
                       state_q' = "FLUSH" /\ flush_addr_q' = flush_addr_q + 1
           /\ state_q # "FLUSH" => flush_addr_q' = 0
           /\ state_q = "LOOKUP" =>
                 /\ Cache!Miss => state_q' = "REFILL"
                 /\ ~Cache!Miss /\ fence = "E1" => state_q' = "FLUSH"
                 /\ ~Cache!Miss /\ fence # "E1" => state_q' = "LOOKUP"
           /\ state_q = "REFILL" =>
                 /\ beat # "NONE" /\ beats = 1 => state_q' = "RELOOKUP"
                 /\ ~(beat # "NONE" /\ beats = 1) => state_q' = "REFILL"
           /\ state_q = "RELOOKUP" => state_q' = "LOOKUP"
<1>1. /\ beat \in Cache!Beats /\ Cache!State(fence = "E1", beat) /\ Cache!FlushCounter
  BY DEF Edge, Clock, Cache!Edge
<1>2. Cache!LastBeat(beat) <=> (beat # "NONE" /\ beats = 1)
  BY <1>1, BeatWires
<1>3. state_q = "FLUSH" /\ flush_addr_q # LastSet => flush_addr_q' = flush_addr_q + 1
  <2>1. flush_addr_q \in 0 .. LastSet
    BY DEF Memories, Cache!Sets
  <2>2. flush_addr_q # LastSet => (flush_addr_q + 1) % (LastSet + 1) = flush_addr_q + 1
    BY <2>1, FrontEndAssumption
  <2> QED
    BY <1>1, <2>2 DEF Cache!FlushCounter
<1>4. state_q # "FLUSH" => flush_addr_q' = 0
  BY <1>1 DEF Cache!FlushCounter
<1>5. CASE state_q = "FLUSH"
  BY <1>1, <1>3, <1>5 DEF Cache!State
<1>6. CASE state_q = "LOOKUP"
  BY <1>1, <1>4, <1>6 DEF Cache!State
<1>7. CASE state_q = "REFILL"
  BY <1>1, <1>2, <1>4, <1>7 DEF Cache!State
<1>8. CASE state_q = "RELOOKUP"
  BY <1>1, <1>4, <1>8 DEF Cache!State
<1> QED
  BY <1>5, <1>6, <1>7, <1>8 DEF Memories

LEMMA LookupEdge ==
    ASSUME Registers, Memories, Paired,
           NEW accept, NEW branch, NEW target, NEW arready, NEW beat,
           Edge(accept, branch, target, arready, beat)
    PROVE  LET takes == active_q /\ accept /\ (icache_fetch_q => Answer) /\ Cache!ReqAccept
           IN  /\ lookup_valid_q' <=> (takes \/ (lookup_valid_q /\ ~Answer))
               /\ takes => lookup_addr_q' = pc_f_q
               /\ ~takes => lookup_addr_q' = lookup_addr_q
<1> DEFINE takes == active_q /\ accept /\ (icache_fetch_q => Answer) /\ Cache!ReqAccept
<1>1. accept \in BOOLEAN /\ Cache!Lookup(Fetch!Rd(accept, Ic), pc_f_q)
  BY DEF Edge, Clock, Cache!Edge
<1>2. (Fetch!Rd(accept, Ic) /\ Cache!ReqAccept) <=> takes
  BY <1>1, FetchWires
<1> QED
  BY <1>1, <1>2 DEF Cache!Lookup, Answer

LEMMA RefillingKept ==
    ASSUME Registers, Memories, Paired, Refilling,
           NEW accept, NEW branch, NEW target, NEW arready, NEW beat,
           Edge(accept, branch, target, arready, beat), Memories'
    PROVE  Refilling'
<1>1. /\ arready \in BOOLEAN /\ (arready => Cache!ArValid) /\ beat \in Cache!Beats
      /\ Cache!Axi(arready, beat)
      /\ data_write_q' = IF Cache!Miss THEN 0
                         ELSE IF state_q = "REFILL" /\ beat # "NONE"
                              THEN (data_write_q + 1) % LineWords
                              ELSE data_write_q
      /\ failed' = (failed \/ beat = "ERROR")
  BY DEF Edge, Clock, Cache!Edge, Cache!DataRams
<1>2. /\ beat # "NONE" => state_q = "REFILL" /\ beats # 0
  BY <1>1, BeatWires
<1>3. Cache!Miss => state_q = "LOOKUP" /\ lookup_valid_q /\ ~Answer
  BY DEF Cache!Miss, Answer, Cache!ReqValid
<1>4. state_q # "LOOKUP" => ~Answer
  BY CacheWires
<1>5. state_q' \in {"REFILL", "RELOOKUP"} => lookup_valid_q'
  <2>1. state_q' \in {"REFILL", "RELOOKUP"} =>
           (state_q = "LOOKUP" /\ Cache!Miss) \/ state_q = "REFILL"
    BY StateEdge DEF Memories
  <2>2. state_q = "REFILL" => lookup_valid_q
    BY DEF Refilling
  <2> QED
    BY <1>3, <1>4, <2>1, <2>2, LookupEdge
<1>6. state_q' = "REFILL" =>
          \/ axi_arvalid_q' /\ beats' = 0 /\ data_write_q' = 0
          \/ ~axi_arvalid_q' /\ beats' # 0 /\ beats' = LineWords - data_write_q'
  <2> SUFFICES ASSUME state_q' = "REFILL"
               PROVE  \/ axi_arvalid_q' /\ beats' = 0 /\ data_write_q' = 0
                      \/ ~axi_arvalid_q' /\ beats' # 0 /\ beats' = LineWords - data_write_q'
    OBVIOUS
  <2>1. LineWords \in Nat /\ LineWords # 0 /\ LineWords - 0 = LineWords
    BY FrontEndAssumption
  <2>2. CASE state_q = "LOOKUP"
    <3>1. Cache!Miss /\ beat = "NONE" /\ beats = 0
      BY <1>2, <2>2, StateEdge DEF Refilling
    <3>2. data_write_q' = 0
      BY <1>1, <3>1
    <3>3. axi_arvalid_q' = ~arready /\ beats' = IF arready THEN LineWords ELSE 0
      BY <1>1, <3>1 DEF Cache!Axi, Cache!ArValid
    <3> QED
      BY <1>1, <2>1, <3>2, <3>3
  <2>3. CASE state_q = "REFILL" /\ axi_arvalid_q /\ beats = 0 /\ data_write_q = 0
    <3>1. beat = "NONE" /\ ~Cache!Miss
      BY <1>2, <1>3, <2>3
    <3>2. data_write_q' = 0
      BY <1>1, <2>3, <3>1
    <3>3. axi_arvalid_q' = ~arready /\ beats' = IF arready THEN LineWords ELSE 0
      BY <1>1, <2>3, <3>1 DEF Cache!Axi, Cache!ArValid
    <3> QED
      BY <1>1, <2>1, <3>2, <3>3
  <2>4. CASE state_q = "REFILL" /\ ~axi_arvalid_q /\ beats # 0 /\ beats = LineWords - data_write_q
    <3>1. ~Cache!Miss /\ ~Cache!ArValid /\ ~arready
      BY <1>1, <1>3, <2>4 DEF Cache!ArValid
    <3>2. ~axi_arvalid_q' /\ beats' = IF beat = "NONE" THEN beats ELSE beats - 1
      BY <1>1, <3>1 DEF Cache!Axi
    <3>3. CASE beat = "NONE"
      BY <1>1, <2>4, <3>1, <3>2, <3>3
    <3>4. CASE beat # "NONE"
      <4>1. beats # 1 /\ data_write_q \in 0 .. (LineWords - 1)
        BY <2>4, <3>4, StateEdge DEF Memories, Offsets
      <4>2. data_write_q + 1 < LineWords
        BY <2>1, <2>4, <4>1
      <4>3. (data_write_q + 1) % LineWords = data_write_q + 1
        BY <2>1, <4>1, <4>2
      <4>4. data_write_q' = data_write_q + 1 /\ beats' = beats - 1
        BY <1>1, <2>4, <3>1, <3>2, <3>4, <4>3
      <4> QED
        BY <2>1, <2>4, <3>2, <4>1, <4>2, <4>4
    <3> QED
      BY <3>3, <3>4
  <2>5. state_q \in {"LOOKUP", "REFILL"}
    BY StateEdge DEF Memories
  <2> QED
    BY <2>2, <2>3, <2>4, <2>5 DEF Refilling
<1>7. state_q' # "REFILL" => ~axi_arvalid_q' /\ beats' = 0
  <2> SUFFICES ASSUME state_q' # "REFILL" PROVE ~axi_arvalid_q' /\ beats' = 0
    OBVIOUS
  <2>1. ~Cache!Miss
    BY <1>3, StateEdge
  <2>2. CASE state_q # "REFILL"
    <3>1. ~axi_arvalid_q /\ beats = 0 /\ beat = "NONE"
      BY <1>2, <2>2 DEF Refilling
    <3>2. ~Cache!ArValid
      BY <2>1, <3>1 DEF Cache!ArValid
    <3> QED
      BY <1>1, <3>1, <3>2 DEF Cache!Axi
  <2>3. CASE state_q = "REFILL"
    <3>1. beat # "NONE" /\ beats = 1
      BY <2>3, StateEdge
    <3>2. ~axi_arvalid_q
      BY <2>3, <3>1 DEF Refilling
    <3>3. ~Cache!ArValid
      BY <2>1, <3>2 DEF Cache!ArValid
    <3> QED
      BY <1>1, <3>1, <3>3 DEF Cache!Axi
  <2> QED
    BY <2>2, <2>3
<1>8. axi_error_q' => failed'
  BY <1>1 DEF Cache!Axi, Refilling
<1> QED
  BY <1>5, <1>6, <1>7, <1>8 DEF Refilling

-----------------------------------------------------------------------------
(***************************************************************************)
(* The memories of the cache.                                              *)
(***************************************************************************)
LEMMA ReadEdge ==
    ASSUME Memories,
           NEW accept, NEW branch, NEW target, NEW arready, NEW beat,
           Edge(accept, branch, target, arready, beat)
    PROVE  \A way \in Cache!Ways :
              /\ tags'[way] = Cache!TagWrite(way, beat)
              /\ tag_out'[way] = tags[way][Cache!TagAddr(pc_f_q)]
              /\ data'[way] = IF beat # "NONE" /\ replace_way_q = way
                              THEN [data[way] EXCEPT ![Cache!DataAddr(pc_f_q)] =
                                                        Cache!BeatData(beat)]
                              ELSE data[way]
              /\ data_out'[way] = data[way][Cache!DataAddr(pc_f_q)]
<1>1. Cache!TagRams(pc_f_q, beat) /\ Cache!DataRams(pc_f_q, beat)
  BY DEF Edge, Clock, Cache!Edge
<1> QED
  BY <1>1 DEF Cache!TagRams, Cache!DataRams

\* Only a flush and a refill write.
LEMMA Undisturbed ==
    ASSUME Memories, Refilling, state_q \in {"LOOKUP", "RELOOKUP"},
           NEW accept, NEW branch, NEW target, NEW arready, NEW beat,
           Edge(accept, branch, target, arready, beat)
    PROVE  \A way \in Cache!Ways : tags'[way] = tags[way] /\ data'[way] = data[way]
<1>1. beat = "NONE"
  BY BeatWires DEF Edge
<1> QED
  BY <1>1, ReadEdge DEF Cache!TagWrite

LEMMA FlushEdge ==
    ASSUME Memories, state_q = "FLUSH",
           NEW accept, NEW branch, NEW target, NEW arready, NEW beat,
           Edge(accept, branch, target, arready, beat)
    PROVE  \A way \in Cache!Ways : \A s \in Cache!Sets :
              tags'[way][s] = IF s = flush_addr_q THEN Cache!Invalid ELSE tags[way][s]
<1> SUFFICES ASSUME NEW way \in Cache!Ways, NEW s \in Cache!Sets
             PROVE  tags'[way][s] = IF s = flush_addr_q THEN Cache!Invalid ELSE tags[way][s]
  OBVIOUS
<1>1. tags[way] \in [Cache!Sets -> Tags] /\ flush_addr_q \in Cache!Sets
  BY DEF Memories
<1>2. tags'[way] = [tags[way] EXCEPT ![flush_addr_q] = Cache!Invalid]
  BY ReadEdge DEF Cache!TagWrite
<1> QED
  BY <1>1, <1>2

LEMMA RefillEdge ==
    ASSUME Registers, Memories, Refilling, state_q = "REFILL",
           NEW accept, NEW branch, NEW target, NEW arready, NEW beat,
           Edge(accept, branch, target, arready, beat)
    PROVE  \A way \in Cache!Ways :
              /\ \A s \in Cache!Sets :
                    tags'[way][s] = IF /\ beat # "NONE" /\ beats = 1
                                       /\ replace_way_q = way /\ s = Cache!SetOf(lookup_addr_q)
                                    THEN Cache!TagOf(lookup_addr_q) ELSE tags[way][s]
              /\ \A s \in Cache!Sets, w \in Offsets :
                    data'[way][<<s, w>>] =
                        IF /\ beat # "NONE" /\ replace_way_q = way
                           /\ s = Cache!SetOf(lookup_addr_q) /\ w = data_write_q
                        THEN Cache!BeatData(beat) ELSE data[way][<<s, w>>]
<1> SUFFICES ASSUME NEW way \in Cache!Ways
             PROVE  /\ \A s \in Cache!Sets :
                          tags'[way][s] = IF /\ beat # "NONE" /\ beats = 1
                                       /\ replace_way_q = way /\ s = Cache!SetOf(lookup_addr_q)
                                    THEN Cache!TagOf(lookup_addr_q) ELSE tags[way][s]
                    /\ \A s \in Cache!Sets, w \in Offsets :
                          data'[way][<<s, w>>] =
                        IF /\ beat # "NONE" /\ replace_way_q = way
                           /\ s = Cache!SetOf(lookup_addr_q) /\ w = data_write_q
                        THEN Cache!BeatData(beat) ELSE data[way][<<s, w>>]
  OBVIOUS
<1>1. /\ tags[way] \in [Cache!Sets -> Tags]
      /\ data[way] \in [Cache!Sets \X Offsets -> Instrs]
      /\ Cache!SetOf(lookup_addr_q) \in Cache!Sets /\ data_write_q \in Offsets
  BY Place DEF Memories
<1>2. Cache!LastBeat(beat) <=> (beat # "NONE" /\ beats = 1)
  BY BeatWires DEF Edge
<1>3. tags'[way] = IF Cache!LastBeat(beat) /\ replace_way_q = way
                   THEN [tags[way] EXCEPT ![Cache!SetOf(lookup_addr_q)] =
                                             Cache!TagOf(lookup_addr_q)]
                   ELSE tags[way]
  BY ReadEdge DEF Cache!TagWrite
<1>4. Cache!DataAddr(pc_f_q) = <<Cache!SetOf(lookup_addr_q), data_write_q>>
  BY DEF Cache!DataAddr
<1>5. data'[way] = IF beat # "NONE" /\ replace_way_q = way
                   THEN [data[way] EXCEPT ![<<Cache!SetOf(lookup_addr_q), data_write_q>>] =
                                             Cache!BeatData(beat)]
                   ELSE data[way]
  BY <1>4, ReadEdge
<1>6. \A s \in Cache!Sets, w \in Offsets :
          /\ <<s, w>> \in Cache!Sets \X Offsets
          /\ <<s, w>> = <<Cache!SetOf(lookup_addr_q), data_write_q>> <=>
                s = Cache!SetOf(lookup_addr_q) /\ w = data_write_q
  OBVIOUS
<1>7. \A s \in Cache!Sets :
         tags'[way][s] = IF /\ beat # "NONE" /\ beats = 1
                            /\ replace_way_q = way /\ s = Cache!SetOf(lookup_addr_q)
                         THEN Cache!TagOf(lookup_addr_q) ELSE tags[way][s]
  BY <1>1, <1>2, <1>3
<1>8. \A s \in Cache!Sets, w \in Offsets :
         data'[way][<<s, w>>] =
             IF /\ beat # "NONE" /\ replace_way_q = way
                /\ s = Cache!SetOf(lookup_addr_q) /\ w = data_write_q
             THEN Cache!BeatData(beat) ELSE data[way][<<s, w>>]
  BY <1>1, <1>5, <1>6
<1> QED
  BY <1>7, <1>8

-----------------------------------------------------------------------------
(***************************************************************************)
(* The lines.                                                              *)
(***************************************************************************)
LEMMA ValidTag ==
    ASSUME NEW a \in PCs PROVE Cache!TagOf(a) # Cache!Invalid
<1>1. Cache!TagOf(a) \in Nat
  BY Place
<1>2. \A n \in Nat : n # Cache!Invalid
  BY DEF Cache!Invalid
<1> QED
  BY <1>1, <1>2

LEMMA MissMeans ==
    ASSUME Memories, Outputs, Cache!Miss, NEW way \in Cache!Ways
    PROVE  ~Holds(way, lookup_addr_q)
<1>1. Cache!TagOf(lookup_addr_q) # Cache!Invalid
  BY ValidTag DEF Memories
<1>2. state_q = "LOOKUP" /\ lookup_valid_q /\ ~Cache!Hit(way)
  BY DEF Cache!Miss, Cache!HitAny
<1>3. CASE Looked
  BY <1>1, <1>2, <1>3 DEF Looked, Cache!Hit, Holds
<1>4. CASE ~Looked
  BY <1>1, <1>2, <1>4 DEF Outputs, Holds
<1> QED
  BY <1>3, <1>4

\* A request is only taken when the cache looks it up.
LEMMA NotTaken ==
    ASSUME Registers, Memories, Paired, state_q # "LOOKUP",
           NEW accept, NEW branch, NEW target, NEW arready, NEW beat,
           Edge(accept, branch, target, arready, beat)
    PROVE  lookup_addr_q' = lookup_addr_q /\ (lookup_valid_q' <=> lookup_valid_q)
BY CacheWires, LookupEdge

LEMMA ReplaceEdge ==
    ASSUME Registers, Memories, Refilling,
           NEW accept, NEW branch, NEW target, NEW arready, NEW beat,
           Edge(accept, branch, target, arready, beat)
    PROVE  /\ ~(beat # "NONE" /\ beats = 1) => replace_way_q' = replace_way_q
           /\ Cache!Miss => data_write_q' = 0
           /\ ~Cache!Miss /\ beat = "NONE" => data_write_q' = data_write_q
           /\ state_q = "REFILL" /\ beat # "NONE" =>
                 data_write_q' = (data_write_q + 1) % LineWords
<1>1. /\ beat \in Cache!Beats /\ Cache!Replacement(beat)
      /\ data_write_q' = IF Cache!Miss THEN 0
                         ELSE IF state_q = "REFILL" /\ beat # "NONE"
                              THEN (data_write_q + 1) % LineWords
                              ELSE data_write_q
  BY DEF Edge, Clock, Cache!Edge, Cache!DataRams
<1>2. Cache!LastBeat(beat) <=> (beat # "NONE" /\ beats = 1)
  BY <1>1, BeatWires
<1>3. Cache!Miss => state_q = "LOOKUP"
  BY DEF Cache!Miss
<1> QED
  BY <1>1, <1>2, <1>3 DEF Cache!Replacement

LEMMA Emptied ==
    ASSUME Registers, Memories, Refilling, Lines, state_q = "FLUSH", state_q' # "FLUSH",
           NEW accept, NEW branch, NEW target, NEW arready, NEW beat,
           Edge(accept, branch, target, arready, beat)
    PROVE  /\ state_q' = "LOOKUP"
           /\ \A way \in Cache!Ways : \A s \in Cache!Sets : tags'[way][s] = Cache!Invalid
<1>1. flush_addr_q = LastSet /\ state_q' = "LOOKUP"
  BY StateEdge
<1>2. \A s \in Cache!Sets : s < flush_addr_q \/ s = flush_addr_q
  BY <1>1, FrontEndAssumption DEF Cache!Sets
<1> QED
  BY <1>1, <1>2, FlushEdge DEF Lines

LEMMA LinesKept ==
    ASSUME Registers, Memories, Paired, Refilling, Lines, Outputs,
           NEW accept, NEW branch, NEW target, NEW arready, NEW beat,
           Edge(accept, branch, target, arready, beat), Memories'
    PROVE  Lines'
<1>0. 0 \in Cache!Ways /\ 1 \in Cache!Ways
  BY DEF Cache!Ways
<1>1. state_q' = "FLUSH" =>
          \A s \in Cache!Sets : s < flush_addr_q' =>
              \A way \in Cache!Ways : tags'[way][s] = Cache!Invalid
  <2>1. CASE state_q = "FLUSH" /\ state_q' = "FLUSH"
    <3>0. flush_addr_q # LastSet
      BY <2>1, StateEdge
    <3>1. flush_addr_q' = flush_addr_q + 1 /\ flush_addr_q \in 0 .. LastSet
      BY <2>1, <3>0, StateEdge DEF Memories, Cache!Sets
    <3>2. \A s \in Cache!Sets : s < flush_addr_q' => s = flush_addr_q \/ s < flush_addr_q
      BY <3>1, FrontEndAssumption DEF Cache!Sets
    <3> QED
      BY <2>1, <3>2, FlushEdge DEF Lines
  <2>2. CASE state_q # "FLUSH" /\ state_q' = "FLUSH"
    <3>1. flush_addr_q' = 0
      BY <2>2, StateEdge
    <3>2. \A s \in Cache!Sets : ~(s < 0)
      BY FrontEndAssumption DEF Cache!Sets
    <3> QED
      BY <3>1, <3>2
  <2> QED
    BY <2>1, <2>2
<1>2. CASE state_q = "FLUSH"
  <2>1. state_q' # "FLUSH" => state_q' = "LOOKUP" /\
           \A s \in Cache!Sets : tags'[0][s] = Cache!Invalid
    BY <1>0, <1>2, Emptied
  <2>2. state_q' # "REFILL"
    BY <1>2, StateEdge
  <2> QED
    BY <1>1, <2>1, <2>2 DEF Lines
<1>3. CASE state_q \in {"LOOKUP", "RELOOKUP"}
  <2>1. \A way \in Cache!Ways : tags'[way] = tags[way]
    BY <1>3, Undisturbed
  <2>2. \A s \in Cache!Sets : tags'[0][s] # Cache!Invalid => tags'[0][s] # tags'[1][s]
    BY <1>0, <1>3, <2>1 DEF Lines
  <2>3. ASSUME state_q' = "REFILL", NEW way \in Cache!Ways
        PROVE  ~Holds(way, lookup_addr_q)'
    <3>1. Cache!Miss
      BY <1>3, <2>3, StateEdge
    <3>2. ~Holds(way, lookup_addr_q)
      BY <3>1, MissMeans
    <3>3. lookup_addr_q' = lookup_addr_q
      BY <3>1, CacheWires, LookupEdge
    <3> QED
      BY <2>1, <3>2, <3>3 DEF Holds
  <2> QED
    BY <1>1, <2>2, <2>3 DEF Lines
<1>4. CASE state_q = "REFILL"
  <2>1. lookup_addr_q' = lookup_addr_q /\ Cache!SetOf(lookup_addr_q) \in Cache!Sets
    BY <1>4, NotTaken, Place DEF Memories
  <2>2. \A way \in Cache!Ways :
           tags[way][Cache!SetOf(lookup_addr_q)] # Cache!TagOf(lookup_addr_q)
    BY <1>4 DEF Lines, Holds
  <2>3. \A s \in Cache!Sets : tags[0][s] # Cache!Invalid => tags[0][s] # tags[1][s]
    BY <1>4 DEF Lines
  <2>4. \A way \in Cache!Ways : \A s \in Cache!Sets :
           tags'[way][s] = IF /\ beat # "NONE" /\ beats = 1
                              /\ replace_way_q = way /\ s = Cache!SetOf(lookup_addr_q)
                           THEN Cache!TagOf(lookup_addr_q) ELSE tags[way][s]
    BY <1>4, RefillEdge
  <2>5. \A s \in Cache!Sets : tags'[0][s] # Cache!Invalid => tags'[0][s] # tags'[1][s]
    BY <1>0, <2>2, <2>3, <2>4
  <2>6. state_q' = "REFILL" => \A way \in Cache!Ways : ~Holds(way, lookup_addr_q)'
    <3>1. state_q' = "REFILL" => ~(beat # "NONE" /\ beats = 1)
      BY <1>4, StateEdge
    <3> QED
      BY <2>1, <2>2, <2>4, <3>1 DEF Holds
  <2> QED
    BY <1>1, <2>5, <2>6 DEF Lines
<1> QED
  BY <1>2, <1>3, <1>4 DEF Memories

\* A word in the cache was there before or comes from memory.
LEMMA Origin ==
    ASSUME Registers, Memories, Paired, Refilling, Lines,
           NEW accept, NEW branch, NEW target, NEW arready, NEW beat,
           Edge(accept, branch, target, arready, beat), Memories', Refilling',
           state_q' # "FLUSH", ~failed',
           NEW way \in Cache!Ways, NEW a \in PCs, Cached(way, a)'
    PROVE  \/ state_q # "FLUSH" /\ Cached(way, a) /\ InWay(way, a)' = InWay(way, a)
           \/ InWay(way, a)' = [at |-> a, word |-> imem[a]]
<1>1. /\ Cache!SetOf(a) \in Cache!Sets /\ Cache!WordOf(a) \in Offsets
      /\ Cache!TagOf(a) # Cache!Invalid
      /\ a = Cache!LineOf(a) * LineWords + Cache!WordOf(a)
  BY Place, ValidTag
<1>2. CASE state_q = "FLUSH"
  BY <1>1, <1>2, Emptied DEF Cached, Holds, Filled
<1>3. CASE state_q \in {"LOOKUP", "RELOOKUP"}
  <2>1. tags'[way] = tags[way] /\ data'[way] = data[way]
    BY <1>3, Undisturbed
  <2>2. ~Filled(way, a)'
    <3>1. state_q' = "REFILL" => data_write_q' = 0
      BY <1>3, StateEdge, ReplaceEdge
    <3> QED
      BY <1>1, <3>1, FrontEndAssumption DEF Filled, Offsets
  <2>3. Holds(way, a) /\ ~Filling(way, a)
    BY <1>3, <2>1, <2>2 DEF Cached, Holds, Filling
  <2> QED
    BY <1>3, <2>1, <2>3 DEF Cached, InWay
<1>4. CASE state_q = "REFILL"
  <2> DEFINE S == Cache!SetOf(lookup_addr_q)
             L == Cache!LineOf(lookup_addr_q)
             last == beat # "NONE" /\ beats = 1
  <2>1. lookup_addr_q' = lookup_addr_q /\ lookup_addr_q \in PCs /\ S \in Cache!Sets
    BY <1>4, NotTaken, Place DEF Memories
  <2>2. /\ tags'[way][Cache!SetOf(a)] =
              IF last /\ replace_way_q = way /\ Cache!SetOf(a) = S
              THEN Cache!TagOf(lookup_addr_q) ELSE tags[way][Cache!SetOf(a)]
        /\ InWay(way, a)' =
              IF /\ beat # "NONE" /\ replace_way_q = way
                 /\ Cache!SetOf(a) = S /\ Cache!WordOf(a) = data_write_q
              THEN Cache!BeatData(beat) ELSE InWay(way, a)
    BY <1>1, <1>4, RefillEdge DEF InWay
  <2>3. beat \in Cache!Beats /\ beat # "ERROR"
    BY DEF Edge, Clock
  <2>4. beat # "NONE" /\ Cache!LineOf(a) = L /\ Cache!WordOf(a) = data_write_q
        => Cache!BeatData(beat) = [at |-> a, word |-> imem[a]]
    BY <1>1, <2>3, BeatDataIs, BeatWires
  <2>5. CASE beat = "NONE"
    <3>1. state_q' = "REFILL" /\ replace_way_q' = replace_way_q /\ data_write_q' = data_write_q
      BY <1>4, <2>5, StateEdge, ReplaceEdge DEF Cache!Miss
    <3>2. Cached(way, a)
      BY <1>4, <2>1, <2>2, <2>5, <3>1 DEF Cached, Holds, Filling, Filled
    <3> QED
      BY <1>4, <2>2, <2>5, <3>2
  <2>6. CASE beat # "NONE" /\ beats # 1
    <3>1. state_q' = "REFILL" /\ replace_way_q' = replace_way_q
      BY <1>4, <2>6, StateEdge, ReplaceEdge
    <3>2. data_write_q' = data_write_q + 1
      <4>1. data_write_q \in 0 .. (LineWords - 1) /\ beats = LineWords - data_write_q
        BY <1>4, <2>3, <2>6, BeatWires DEF Refilling, Memories, Offsets
      <4>2. (data_write_q + 1) % LineWords = data_write_q + 1
        <5>1. data_write_q + 1 < LineWords
          BY <2>6, <4>1, FrontEndAssumption
        <5> QED
          BY <4>1, <5>1, FrontEndAssumption
      <4> QED
        BY <1>4, <2>6, <4>2, ReplaceEdge
    <3>3. CASE Holds(way, a)' /\ ~Filling(way, a)'
      <4>1. ~(replace_way_q = way /\ Cache!SetOf(a) = S)
        BY <2>1, <3>1, <3>3 DEF Filling
      <4> QED
        BY <1>4, <2>2, <3>3, <4>1 DEF Cached, Holds, Filling
    <3>4. CASE Filled(way, a)'
      <4>1. replace_way_q = way /\ Cache!LineOf(a) = L /\ Cache!WordOf(a) < data_write_q + 1
        BY <2>1, <3>1, <3>2, <3>4 DEF Filled
      <4>2. Cache!SetOf(a) = S
        BY <2>1, <4>1, SameSet
      <4>3. CASE Cache!WordOf(a) = data_write_q
        BY <2>2, <2>4, <2>6, <4>1, <4>2, <4>3
      <4>4. CASE Cache!WordOf(a) # data_write_q
        <5>0. /\ data_write_q \in 0 .. (LineWords - 1)
              /\ Cache!WordOf(a) \in 0 .. (LineWords - 1)
          BY <1>1 DEF Memories, Offsets
        <5>1. Cache!WordOf(a) < data_write_q
          BY <4>1, <4>4, <5>0, FrontEndAssumption
        <5>2. Cached(way, a)
          BY <1>4, <4>1, <5>1 DEF Cached, Filled
        <5> QED
          BY <1>4, <2>2, <4>4, <5>2
      <4> QED
        BY <4>3, <4>4
    <3> QED
      BY <3>3, <3>4 DEF Cached
  <2>7. CASE beat # "NONE" /\ beats = 1
    <3>1. state_q' = "RELOOKUP"
      BY <1>4, <2>7, StateEdge
    <3>2. Holds(way, a)'
      BY <3>1 DEF Cached, Filled
    <3>3. data_write_q = LineWords - 1
      <4>1. beats = LineWords - data_write_q /\ data_write_q \in 0 .. (LineWords - 1)
        BY <1>4, <2>7 DEF Refilling, Memories, Offsets
      <4> QED
        BY <2>7, <4>1, FrontEndAssumption
    <3>4. CASE ~(replace_way_q = way /\ Cache!SetOf(a) = S)
      BY <1>4, <2>2, <3>2, <3>4 DEF Cached, Holds, Filling
    <3>5. CASE replace_way_q = way /\ Cache!SetOf(a) = S
      <4>1. Cache!TagOf(a) = Cache!TagOf(lookup_addr_q)
        BY <2>2, <2>7, <3>2, <3>5 DEF Holds
      <4>2. Cache!LineOf(a) = L
        BY <2>1, <3>5, <4>1, SameLine
      <4>3. CASE Cache!WordOf(a) = data_write_q
        BY <2>2, <2>4, <2>7, <3>5, <4>2, <4>3
      <4>4. CASE Cache!WordOf(a) # data_write_q
        <5>1. Cache!WordOf(a) < data_write_q
          BY <1>1, <3>3, <4>4, FrontEndAssumption DEF Offsets
        <5>2. Cached(way, a)
          BY <1>4, <3>5, <4>2, <5>1 DEF Cached, Filled
        <5> QED
          BY <1>4, <2>2, <4>4, <5>2
      <4> QED
        BY <4>3, <4>4
    <3> QED
      BY <3>4, <3>5
  <2> QED
    BY <2>5, <2>6, <2>7
<1> QED
  BY <1>2, <1>3, <1>4 DEF Memories

LEMMA ContentsKept ==
    ASSUME Registers, Memories, Paired, Refilling, Lines, Contents,
           NEW accept, NEW branch, NEW target, NEW arready, NEW beat,
           Edge(accept, branch, target, arready, beat), Memories', Refilling'
    PROVE  Contents'
<1> SUFFICES ASSUME state_q' # "FLUSH", ~failed',
                    NEW way \in Cache!Ways, NEW a \in PCs, Cached(way, a)'
             PROVE  Own(InWay(way, a)', a)
  BY DEF Contents, Own
<1>1. ~failed
  BY DEF Edge, Clock
<1>2. CASE InWay(way, a)' = [at |-> a, word |-> imem[a]]
  <2>1. imem[a] # "UNDEF"
    <3>1. imem[a] \in {"OLD", "NEW"}
      BY DEF Memories
    <3> QED
      BY <3>1
  <2> QED
    BY <1>2, <2>1 DEF Own
<1>3. CASE state_q # "FLUSH" /\ Cached(way, a) /\ InWay(way, a)' = InWay(way, a)
  <2>1. Own(InWay(way, a), a)
    BY <1>1, <1>3 DEF Contents
  <2> QED
    BY <1>3, <2>1
<1> QED
  BY <1>2, <1>3, Origin

-----------------------------------------------------------------------------
(***************************************************************************)
(* What the memories show, and the way of fence.i.                         *)
(***************************************************************************)
LEMMA OutputsKept ==
    ASSUME Registers, Memories, Paired, Refilling, Lines, Fencing,
           NEW accept, NEW branch, NEW target, NEW arready, NEW beat,
           Edge(accept, branch, target, arready, beat), Memories'
    PROVE  Outputs'
<1> SUFFICES ASSUME state_q' = "LOOKUP", lookup_valid_q'
             PROVE  \/ Looked'
                    \/ /\ DecodeStage /\ (branch_q' \/ fence' = "BRANCH")
                       /\ \A way \in Cache!Ways :
                             tags'[way][Cache!SetOf(lookup_addr_q')] = Cache!Invalid
  BY DEF Outputs
<1>1. CASE state_q = "FLUSH"
  <2>1. \A way \in Cache!Ways :
           tags'[way][Cache!SetOf(lookup_addr_q')] = Cache!Invalid
    <3>1. Cache!SetOf(lookup_addr_q') \in Cache!Sets
      BY Place DEF Memories
    <3> QED
      BY <1>1, <3>1, Emptied
  <2>2. lookup_valid_q /\ flush_addr_q = LastSet /\ LastSet # 0
    BY <1>1, NotTaken, StateEdge, FrontEndAssumption
  <2>3. DecodeStage /\ (branch_q \/ fence \in {"WB", "BRANCH"})
    BY <1>1, <2>2 DEF Fencing
  <2>4. branch_q' \/ fence' = "BRANCH"
    BY <1>1, <2>3, CacheWires, FetchEdge DEF Edge, Steers
  <2> QED
    BY <2>1, <2>3, <2>4
<1>2. CASE state_q = "LOOKUP"
  <2>1. lookup_addr_q' = pc_f_q
    BY <1>2, StateEdge, CacheWires, LookupEdge
  <2>2. ASSUME NEW way \in Cache!Ways
        PROVE  /\ tag_out'[way] = tags'[way][Cache!SetOf(lookup_addr_q')]
               /\ data_out'[way] = InWay(way, lookup_addr_q)'
    <3>1. /\ Cache!TagAddr(pc_f_q) = Cache!SetOf(pc_f_q)
          /\ Cache!DataAddr(pc_f_q) = <<Cache!SetOf(pc_f_q), Cache!WordOf(pc_f_q)>>
      BY <1>2 DEF Cache!TagAddr, Cache!DataAddr
    <3> QED
      BY <1>2, <2>1, <3>1, ReadEdge, Undisturbed DEF InWay
  <2> QED
    BY <2>2 DEF Looked
<1>3. CASE state_q = "RELOOKUP"
  <2>1. lookup_addr_q' = lookup_addr_q
    BY <1>3, NotTaken
  <2>2. ASSUME NEW way \in Cache!Ways
        PROVE  /\ tag_out'[way] = tags'[way][Cache!SetOf(lookup_addr_q')]
               /\ data_out'[way] = InWay(way, lookup_addr_q)'
    <3>1. /\ Cache!TagAddr(pc_f_q) = Cache!SetOf(lookup_addr_q)
          /\ Cache!DataAddr(pc_f_q) =
                <<Cache!SetOf(lookup_addr_q), Cache!WordOf(lookup_addr_q)>>
      BY <1>3 DEF Cache!TagAddr, Cache!DataAddr
    <3> QED
      BY <1>3, <2>1, <3>1, ReadEdge, Undisturbed DEF InWay
  <2> QED
    BY <2>2 DEF Looked
<1>4. state_q # "REFILL"
  BY StateEdge
<1> QED
  BY <1>1, <1>2, <1>3, <1>4 DEF Memories

\* While an instruction waits in the skid buffer the cache can take a request.
LEMMA Waiting ==
    ASSUME Registers, Memories, Paired, Order, Fencing, fence = "NONE",
           Fetch!Fetched(Ic).valid
    PROVE  /\ state_q = "LOOKUP" /\ ~Cache!Miss /\ Cache!ReqAccept /\ active_q
           /\ ~branch_q /\ ~branch_d_q /\ (icache_fetch_q => Answer)
           /\ Fetch!Fetched(Ic).pc = pc_d_q /\ pc_f_q = Fetch!Following(pc_d_q)
<1> DEFINE f == Fetch!Fetched(Ic)
<1>1. Fetches(f)
  BY FetchedIs
<1>2. ~branch_q /\ ~branch_d_q /\ (Answer \/ skid.valid)
  BY <1>1 DEF Fetches
<1>3. active_q
  BY <1>2, CacheWires DEF Paired
<1>4. CASE skid.valid
  <2>1. ~icache_fetch_q /\ f.pc = pc_d_q
    BY <1>1, <1>4 DEF Fetches, Paired
  <2>2. state_q = "LOOKUP"
    BY <1>2, <1>4 DEF Fencing
  <2>3. ~Cache!Miss /\ Cache!ReqAccept
    BY <2>1, <2>2 DEF Paired, Cache!Miss, Cache!ReqAccept
  <2> QED
    BY <1>2, <1>3, <1>4, <2>1, <2>2, <2>3 DEF Order
<1>5. CASE Answer /\ ~skid.valid
  <2>1. f.pc = pc_d_q /\ icache_fetch_q
    BY <1>1, <1>5, CacheWires DEF Fetches, Paired
  <2> QED
    BY <1>2, <1>3, <1>5, <2>1, CacheWires DEF Order
<1> QED
  BY <1>2, <1>4, <1>5

LEMMA FencingKept ==
    ASSUME Registers, Memories, Paired, Order, Refilling, Fencing,
           NEW accept, NEW branch, NEW target, NEW arready, NEW beat,
           Edge(accept, branch, target, arready, beat)
    PROVE  Fencing'
<1> DEFINE f == Fetch!Fetched(Ic)
<1>1. Fetches(f)
  BY FetchedIs
<1>2. /\ DecodeStage => Shown = decode
      /\ ~DecodeStage => Shown = f
  BY ShownIs
<1>3. Fetch!Nothing.valid = FALSE
  BY DEF Fetch!Nothing
<1>4. fence' \in {"E1", "E2", "WB", "BRANCH"} => ~branch_q' /\ ~branch_d_q'
  <2> SUFFICES ASSUME fence' \in {"E1", "E2", "WB", "BRANCH"}
               PROVE  ~branch_q' /\ ~branch_d_q'
    OBVIOUS
  <2>1. ~branch /\ (fence \in {"E1", "E2", "WB"} \/ (fence = "NONE" /\ Shown.valid))
    BY DEF Edge, Steers
  <2>2. ~branch_q /\ ~branch_d_q
    BY <1>1, <1>2, <2>1, FrontEndAssumption DEF Fetches, Fencing, Order, Registers
  <2> QED
    BY <2>1, <2>2, FetchEdge
<1>5. fence' = "E1" /\ ~DecodeStage => icache_fetch_q'
  <2> SUFFICES ASSUME fence' = "E1", ~DecodeStage PROVE icache_fetch_q'
    OBVIOUS
  <2>1. fence = "NONE" /\ f.valid /\ accept
    BY <1>2 DEF Edge, Steers
  <2> QED
    BY <2>1, Waiting, FetchEdge
<1>6. fence' # "RESET"
  BY DEF Edge, Steers
<1>7. state_q' = "FLUSH" /\ lookup_valid_q' =>
          /\ DecodeStage
          /\ \/ branch_q'
             \/ fence' = "E2" /\ flush_addr_q' = 0
             \/ fence' = "WB" /\ flush_addr_q' = 1
             \/ fence' = "BRANCH"
  <2> SUFFICES ASSUME state_q' = "FLUSH", lookup_valid_q'
               PROVE  /\ DecodeStage
                      /\ \/ branch_q'
                         \/ fence' = "E2" /\ flush_addr_q' = 0
                         \/ fence' = "WB" /\ flush_addr_q' = 1
                         \/ fence' = "BRANCH"
    OBVIOUS
  <2>1. CASE state_q = "FLUSH"
    <3>1. lookup_valid_q /\ flush_addr_q' = flush_addr_q + 1
      BY <2>1, NotTaken, StateEdge
    <3>2. CASE branch_q
      BY <2>1, <3>1, <3>2, CacheWires, FetchEdge DEF Fencing
    <3>3. CASE ~branch_q
      <4>1. /\ DecodeStage
            /\ \/ fence = "E2" /\ flush_addr_q = 0
               \/ fence = "WB" /\ flush_addr_q = 1
               \/ fence = "BRANCH"
        BY <2>1, <3>1, <3>3 DEF Fencing
      <4>2. /\ fence = "E2" => fence' = "WB"
            /\ fence = "WB" => fence' = "BRANCH"
            /\ fence = "BRANCH" => branch
        BY DEF Edge, Steers
      <4>3. branch => branch_q'
        BY FetchEdge
      <4> QED
        BY <3>1, <4>1, <4>2, <4>3
    <3> QED
      BY <3>2, <3>3
  <2>2. CASE state_q = "LOOKUP"
    <3>1. fence = "E1" /\ ~Cache!Miss /\ flush_addr_q' = 0 /\ fence' = "E2"
      BY <2>2, StateEdge DEF Edge, Steers
    <3>2. accept /\ (lookup_valid_q => Answer)
      BY <2>2, <3>1, CacheWires, LookupEdge
    <3>3. DecodeStage
      <4>1. SUFFICES ASSUME ~DecodeStage PROVE FALSE
        BY FrontEndAssumption
      <4>2. Answer /\ ~branch_q /\ ~branch_d_q
        BY <3>1, <3>2, <4>1 DEF Fencing, Paired
      <4>3. Shown.valid
        BY <1>1, <1>2, <4>1, <4>2 DEF Fetches
      <4> QED
        BY <3>1, <3>2, <4>3 DEF Edge, Steers
    <3> QED
      BY <3>1, <3>3
  <2>3. state_q \in {"FLUSH", "LOOKUP"}
    BY StateEdge DEF Memories
  <2> QED
    BY <2>1, <2>2, <2>3
<1>8. skid'.valid /\ fence' \in {"NONE", "E1"} /\ ~branch_q' => state_q' = "LOOKUP"
  <2> SUFFICES ASSUME skid'.valid, fence' \in {"NONE", "E1"}, ~branch_q'
               PROVE  state_q' = "LOOKUP"
    OBVIOUS
  <2>1. f.valid /\ ~accept /\ ~branch
    BY <1>3, FetchEdge
  <2>2. fence = "NONE"
    BY <2>1 DEF Edge, Steers
  <2> QED
    BY <2>1, <2>2, Waiting, StateEdge
<1> QED
  BY <1>4, <1>5, <1>6, <1>7, <1>8 DEF Fencing

-----------------------------------------------------------------------------
(***************************************************************************)
(* The word that is shown.                                                 *)
(***************************************************************************)
\* An answer the pipeline can see is in the cache.
LEMMA Matched ==
    ASSUME Registers, Memories, Paired, Outputs,
           Fetch!Fetched(Ic).valid, ~skid.valid, ~DecodeStage \/ fence # "BRANCH"
    PROVE  /\ state_q = "LOOKUP"
           /\ \E way \in Cache!Ways : /\ Holds(way, pc_d_q)
                                      /\ Fetch!Fetched(Ic).instr = InWay(way, pc_d_q)
           /\ Fetch!Fetched(Ic).pc = pc_d_q /\ Fetch!Fetched(Ic).fault = axi_error_q
<1> DEFINE f == Fetch!Fetched(Ic)
<1>1. Fetches(f)
  BY FetchedIs
<1>2. /\ ~branch_q /\ Answer /\ f.pc = pc_d_q
      /\ f.instr = Cache!ReqInst /\ f.fault = axi_error_q
  BY <1>1 DEF Fetches
<1>3. state_q = "LOOKUP" /\ lookup_valid_q /\ Cache!HitAny
  BY <1>2, CacheWires
<1>4. PICK way \in Cache!Ways : Cache!Hit(way) /\ Cache!ReqInst = data_out[way]
  BY <1>3 DEF Cache!HitAny, Cache!ReqInst, Cache!Ways
<1>5. Looked
  BY <1>2, <1>3 DEF Outputs
<1>6. Holds(way, pc_d_q) /\ f.instr = InWay(way, pc_d_q)
  BY <1>2, <1>4, <1>5 DEF Looked, Holds, Cache!Hit, Paired
<1> QED
  BY <1>2, <1>3, <1>6

LEMMA FetchedOwn ==
    ASSUME Registers, Memories, Paired, Refilling, Contents, Outputs, Buffers, ~failed,
           Fetch!Fetched(Ic).valid, ~DecodeStage \/ fence # "BRANCH"
    PROVE  OwnShown(Fetch!Fetched(Ic))
<1> DEFINE f == Fetch!Fetched(Ic)
<1>1. CASE skid.valid
  <2>1. f = skid /\ ~branch_q
    BY <1>1, FetchedIs DEF Fetches
  <2> QED
    BY <1>1, <2>1 DEF Buffers
<1>2. CASE ~skid.valid
  <2>1. /\ state_q = "LOOKUP" /\ f.pc = pc_d_q /\ f.fault = axi_error_q
        /\ \E way \in Cache!Ways : Holds(way, pc_d_q) /\ f.instr = InWay(way, pc_d_q)
    BY <1>2, Matched
  <2>2. PICK way \in Cache!Ways : Holds(way, pc_d_q) /\ f.instr = InWay(way, pc_d_q)
    BY <2>1
  <2>3. Cached(way, pc_d_q)
    BY <2>1, <2>2 DEF Cached, Filling
  <2>4. Own(f.instr, pc_d_q)
    BY <2>1, <2>2, <2>3 DEF Contents, Registers
  <2> QED
    BY <2>1, <2>4 DEF OwnShown, Refilling
<1> QED
  BY <1>1, <1>2

LEMMA BuffersKept ==
    ASSUME Registers, Memories, Paired, Refilling, Contents, Outputs, Buffers,
           NEW accept, NEW branch, NEW target, NEW arready, NEW beat,
           Edge(accept, branch, target, arready, beat)
    PROVE  Buffers'
<1> DEFINE f == Fetch!Fetched(Ic)
<1> SUFFICES ASSUME ~failed'
             PROVE  /\ skid'.valid /\ ~branch_q' => OwnShown(skid')
                    /\ decode'.valid => OwnShown(decode')
  BY DEF Buffers, OwnShown, Own
<1>1. ~failed
  BY DEF Edge, Clock
<1>2. Fetch!Nothing.valid = FALSE
  BY DEF Fetch!Nothing
<1>3. ~accept \/ ~branch => fence # "BRANCH"
  BY DEF Edge, Steers
<1>4. f.valid /\ fence # "BRANCH" => OwnShown(f)
  BY <1>1, FetchedOwn
<1>5. skid'.valid => f.valid /\ ~accept /\ skid' = f
  BY <1>2, FetchEdge
<1>6. decode'.valid => ~branch /\ (decode' = f \/ (decode' = decode /\ decode.valid))
  BY <1>2, FetchEdge, Accepted
<1>7. decode.valid => OwnShown(decode)
  BY <1>1 DEF Buffers
<1> HIDE DEF f
<1> QED
  BY <1>3, <1>4, <1>5, <1>6, <1>7

-----------------------------------------------------------------------------
(***************************************************************************)
(* Together.                                                               *)
(***************************************************************************)
LEMMA InitInv == ASSUME Init PROVE FrontInv
<1> USE DEF Init, Fetch!Init, Cache!Init
<1>1. Registers
  <2>1. Fetch!Nothing \in Shows
    BY ZeroIsPC DEF Fetch!Nothing, Shows, Instrs
  <2> QED
    BY <2>1, ZeroIsPC DEF Registers
<1>2. Memories
  <2>1. Cache!Undef \in Instrs
    BY ZeroIsPC DEF Cache!Undef, Instrs
  <2>2. 0 \in Offsets /\ 0 \in Cache!Sets /\ 0 \in 0 .. LineWords
    BY FrontEndAssumption DEF Offsets, Cache!Sets
  <2>3. tags \in [Cache!Ways -> [Cache!Sets -> Tags]]
    <3>1. PICK t \in [Cache!Ways -> [Cache!UsedSets -> Cache!TagBits \cup {Cache!Invalid}]] :
             tags = [way \in Cache!Ways |-> [s \in Cache!Sets |->
                        IF s \in Cache!UsedSets THEN t[way][s] ELSE Cache!Invalid]]
      OBVIOUS
    <3>2. Cache!TagBits \cup {Cache!Invalid} \subseteq Tags
      BY Place DEF Cache!TagBits, Tags, Cache!PCs, PCs
    <3>3. ASSUME NEW way \in Cache!Ways, NEW s \in Cache!UsedSets
          PROVE  t[way][s] \in Tags
      BY <3>2
    <3> QED
      BY <3>1, <3>3 DEF Tags
  <2>4. data \in [Cache!Ways -> [Cache!Sets \X Offsets -> Instrs]]
    BY <2>1 DEF Offsets
  <2>5. tag_out \in [Cache!Ways -> Tags] /\ data_out \in [Cache!Ways -> Instrs]
    BY <2>1 DEF Tags
  <2>6. imem \in [PCs -> {"OLD", "NEW"}]
    BY DEF Cache!PCs, PCs
  <2> QED
    BY <2>2, <2>3, <2>4, <2>5, <2>6, ZeroIsPC DEF Memories, Cache!Ways
<1>3. Paired /\ Order
  BY DEF Paired, Order, Fetch!Nothing
<1>4. Refilling
  BY DEF Refilling
<1>5. Lines
  <2>1. \A s \in Cache!Sets : ~(s < 0)
    BY FrontEndAssumption DEF Cache!Sets
  <2> QED
    BY <2>1 DEF Lines
<1>6. Contents /\ Outputs /\ Fencing /\ Buffers
  BY DEF Contents, Outputs, Fencing, Buffers, Fetch!Nothing
<1> QED
  BY <1>1, <1>2, <1>3, <1>4, <1>5, <1>6 DEF FrontInv

LEMMA EdgeInv ==
    ASSUME FrontInv, NEW accept, NEW branch, NEW target, NEW arready, NEW beat,
           Edge(accept, branch, target, arready, beat)
    PROVE  FrontInv'
<1> USE DEF FrontInv
<1>1. Registers'
  BY RegistersKept
<1>2. Memories'
  BY MemoriesKept
<1>3. Paired'
  BY <1>1, <1>2, PairedKept
<1>4. Order'
  BY <1>1, <1>2, <1>3, OrderKept
<1>5. Refilling'
  BY <1>2, RefillingKept
<1>6. Lines'
  BY <1>2, LinesKept
<1>7. Contents'
  BY <1>2, <1>5, ContentsKept
<1>8. Outputs'
  BY <1>2, OutputsKept
<1>9. Fencing'
  BY FencingKept
<1>10. Buffers'
  BY BuffersKept
<1> QED
  BY <1>1, <1>2, <1>3, <1>4, <1>5, <1>6, <1>7, <1>8, <1>9, <1>10

LEMMA Still == ASSUME FrontInv, UNCHANGED vars PROVE FrontInv'
<1> USE DEF vars, fetchVars, icacheVars, FrontInv
<1>1. Registers' /\ Memories'
  <2>1. Registers'
    BY DEF Registers
  <2>2. Memories'
    BY DEF Memories
  <2> QED
    BY <2>1, <2>2
<1>2. Paired' /\ Order' /\ Refilling'
  BY DEF Paired, Order, NextPc, Refilling
<1>3. Lines' /\ Fencing'
  BY DEF Lines, Holds, Fencing
<1>4. Contents'
  BY DEF Contents, Cached, Holds, Filling, Filled, InWay, Own
<1>5. Outputs'
  BY DEF Outputs, Looked, InWay
<1>6. Buffers'
  BY DEF Buffers, OwnShown, Own
<1> QED
  BY <1>1, <1>2, <1>3, <1>4, <1>5, <1>6

LEMMA StepInv == FrontInv /\ [Next]_vars => FrontInv'
<1>1. ASSUME FrontInv, Next PROVE FrontInv'
  <2>1. PICK accept, branch, target, arready, beat :
           Edge(accept, branch, target, arready, beat)
    BY <1>1, Edges DEF SomeEdge
  <2> QED
    BY <1>1, <2>1, EdgeInv
<1> QED
  BY <1>1, Still

LEMMA FrontInvariant == Spec => []FrontInv
<1>1. Init => FrontInv
  BY InitInv
<1> QED
  BY <1>1, StepInv, PTL DEF Spec

(***************************************************************************)
(* Until a refill fails, what is shown for an address is a word of that    *)
(* address, and no line is in both ways: however many misses, replacements *)
(* and flushes there are (icache.v), and whichever answers riscv_fetch     *)
(* drops or keeps in its skid buffer.                                      *)
(***************************************************************************)
THEOREM OwnWords == Spec => []OwnWord
<1>1. ASSUME FrontInv PROVE OwnWord
  <2> USE <1>1 DEF FrontInv
  <2>1. Shown.valid /\ ~failed => OwnShown(Shown)
    <3>1. CASE DecodeStage
      BY <3>1, ShownIs DEF Buffers
    <3>2. CASE ~DecodeStage
      BY <3>2, ShownIs, FetchedOwn
    <3> QED
      BY <3>1, <3>2
  <2> QED
    BY <2>1 DEF OwnWord, OwnShown, Own, Lines
<1> QED
  BY <1>1, FrontInvariant, PTL

-----------------------------------------------------------------------------
(***************************************************************************)
(* The promise.                                                            *)
(***************************************************************************)
ShowsNext ==
    /\ Shown \in Shows
    /\ ~Shown.valid => Shown = Fetch!Nothing
    /\ Shown.valid => Shown.pc = expected /\ ~branch_q /\ ~branch_d_q
    /\ DecodeStage => Shown = decode
    /\ ~DecodeStage /\ skid.valid /\ ~branch_q /\ ~branch_d_q => Shown = skid

LEMMA ShowsIt == FrontInv => ShowsNext
<1> SUFFICES ASSUME FrontInv PROVE ShowsNext
  OBVIOUS
<1> USE DEF FrontInv
<1> DEFINE f == Fetch!Fetched(Ic)
<1>1. /\ Shown \in Shows /\ (~Shown.valid => Shown = Fetch!Nothing)
      /\ DecodeStage => Shown = decode
      /\ ~DecodeStage => Shown = f /\ ~decode.valid
  BY ShownIs DEF Paired
<1>2. Fetches(f)
  BY FetchedIs
<1>3. Shown.valid => ~branch_q /\ ~branch_d_q /\ fence # "RESET"
  <2>1. f.valid => ~branch_q /\ ~branch_d_q /\ fence # "RESET"
    BY <1>2, CacheWires DEF Fetches, Paired
  <2>2. decode.valid => ~branch_q /\ ~branch_d_q /\ fence # "RESET"
    BY DEF Order, Paired
  <2> QED
    BY <1>1, <2>1, <2>2
<1>4. Shown.valid => Shown.pc = expected
  <2>1. CASE DecodeStage
    BY <1>1, <1>3, <2>1 DEF Order
  <2>2. CASE ~DecodeStage
    <3>1. f.valid => (Answer \/ skid.valid) /\ f.pc = pc_d_q
      BY <1>2 DEF Fetches, Paired
    <3> QED
      BY <1>1, <1>3, <2>2, <3>1, CacheWires DEF Order, NextPc, Paired
  <2> QED
    BY <2>1, <2>2
<1>5. ~DecodeStage /\ skid.valid /\ ~branch_q /\ ~branch_d_q => Shown = skid
  BY <1>1, <1>2 DEF Fetches
<1> HIDE DEF f
<1> QED
  BY <1>1, <1>3, <1>4, <1>5 DEF ShowsNext

LEMMA PromiseStep ==
    ASSUME FrontInv, FrontInv', ShowsNext, ShowsNext',
           NEW accept, NEW branch, NEW target, NEW arready, NEW beat,
           Edge(accept, branch, target, arready, beat)
    PROVE  Front!FrontEdge(took' # "HOLD", took' = "BRANCH", expected')
<1> USE DEF FrontInv
<1> DEFINE pc == IF Shown.valid THEN Shown.pc ELSE expected
<1>1. took' = IF branch THEN "BRANCH" ELSE IF accept THEN "ACCEPT" ELSE "HOLD"
  BY DEF Edge, Clock
<1>2. accept \in BOOLEAN /\ branch \in BOOLEAN /\ (accept \/ Shown.valid)
  BY Accepted
<1>3. /\ Shown.valid \in BOOLEAN /\ Shown'.valid \in BOOLEAN
      /\ Shown'.instr \in Instrs
      /\ pc = expected /\ pc' = expected'
      /\ ~Shown'.valid => Shown'.instr = Fetch!Nothing.instr
  BY DEF ShowsNext, Shows
<1>4. Front!Show(expected')
  BY <1>3 DEF Front!Show
<1>5. CASE branch
  <2>1. branch_q'
    BY <1>5, FetchEdge
  <2>2. ~Shown'.valid
    BY <2>1 DEF ShowsNext
  <2>3. Front!Redirect(expected')
    BY <1>3, <2>2 DEF Front!Redirect
  <2> QED
    BY <1>1, <1>5, <2>3 DEF Front!FrontEdge
<1>6. CASE ~branch /\ ~Shown.valid
  <2>1. expected' = pc
    BY <1>3, <1>6, FetchEdge
  <2> QED
    BY <1>1, <1>4, <1>6, <2>1 DEF Front!FrontEdge
<1>7. CASE ~branch /\ Shown.valid /\ accept
  <2>1. expected' = Front!Following(pc)
    <3>1. expected' = Fetch!Following(Shown.pc)
      BY <1>7 DEF Edge, Clock
    <3> QED
      BY <1>7, <3>1 DEF Fetch!Following, Front!Following
  <2>2. took' # "HOLD" /\ took' # "BRANCH"
    BY <1>1, <1>7
  <2> QED
    BY <1>4, <1>7, <2>1, <2>2 DEF Front!FrontEdge
<1>8. CASE ~branch /\ Shown.valid /\ ~accept
  <2>1. Shown' = Shown
    <3>1. CASE DecodeStage
      <4>1. decode' = decode
        BY <1>8, <3>1, FetchEdge DEF ShowsNext
      <4> QED
        BY <3>1, <4>1 DEF ShowsNext
    <3>2. CASE ~DecodeStage
      <4>1. Shown = Fetch!Fetched(Ic)
        BY <3>2, ShownIs
      <4>2. skid' = Shown
        BY <1>8, <4>1, FetchEdge
      <4>3. ~branch_q' /\ ~branch_d_q'
        BY <1>8, FetchEdge DEF ShowsNext
      <4> QED
        BY <1>8, <3>2, <4>2, <4>3 DEF ShowsNext
    <3> QED
      BY <3>1, <3>2
  <2>2. expected' = expected
    BY <1>8, FetchEdge
  <2>3. UNCHANGED Front!frontVars
    BY <2>1, <2>2 DEF Front!frontVars
  <2> QED
    BY <1>1, <1>8, <2>3 DEF Front!FrontEdge
<1> QED
  BY <1>2, <1>3, <1>5, <1>6, <1>7, <1>8

(***************************************************************************)
(* riscv_fetch, with or without the register of riscv_decode, on the       *)
(* instruction cache implements FrontEndSpec, the promise RiscvPipe is     *)
(* built on: each address is shown once and in order, an instruction is    *)
(* held until it is accepted, and nothing requested before a branch is     *)
(* shown after it.  This holds of failed refills too.                      *)
(***************************************************************************)
THEOREM Promise == Spec => KeepsPromise
<1>1. FrontInv /\ FrontInv' /\ ShowsNext /\ ShowsNext' /\ [Next]_vars =>
         [Front!FrontEdge(took' # "HOLD", took' = "BRANCH", expected')]_vars
  <2>1. ASSUME FrontInv, FrontInv', ShowsNext, ShowsNext', Next
        PROVE  Front!FrontEdge(took' # "HOLD", took' = "BRANCH", expected')
    <3>1. PICK accept, branch, target, arready, beat :
             Edge(accept, branch, target, arready, beat)
      BY <2>1, Edges DEF SomeEdge
    <3> QED
      BY <2>1, <3>1, PromiseStep
  <2> QED
    BY <2>1
<1> QED
  BY <1>1, FrontInvariant, ShowsIt, PTL DEF Spec, KeepsPromise

-----------------------------------------------------------------------------
(***************************************************************************)
(* fence.i.                                                                *)
(***************************************************************************)
LEMMA FetchedNew ==
    ASSUME Registers, Memories, Paired, Outputs, FreshInv, ~failed, synced,
           Fetch!Fetched(Ic).valid, ~DecodeStage \/ fence # "BRANCH"
    PROVE  New(Fetch!Fetched(Ic).instr, Fetch!Fetched(Ic).pc)
<1> DEFINE f == Fetch!Fetched(Ic)
<1>1. CASE skid.valid
  <2>1. f = skid /\ ~branch_q
    BY <1>1, FetchedIs DEF Fetches
  <2> QED
    BY <1>1, <2>1 DEF FreshInv
<1>2. CASE ~skid.valid
  <2>1. /\ state_q = "LOOKUP" /\ f.pc = pc_d_q
        /\ \E way \in Cache!Ways : Holds(way, pc_d_q) /\ f.instr = InWay(way, pc_d_q)
    BY <1>2, Matched
  <2>2. PICK way \in Cache!Ways : Holds(way, pc_d_q) /\ f.instr = InWay(way, pc_d_q)
    BY <2>1
  <2>3. Cached(way, pc_d_q)
    BY <2>1, <2>2 DEF Cached, Filling
  <2>4. New(f.instr, pc_d_q)
    BY <2>1, <2>2, <2>3 DEF FreshInv, Fresh, Registers
  <2> QED
    BY <2>1, <2>4
<1> QED
  BY <1>1, <1>2

LEMMA FreshEdge ==
    ASSUME FrontInv, FrontInv', FreshInv, PulseSeen,
           NEW accept, NEW branch, NEW target, NEW arready, NEW beat,
           Edge(accept, branch, target, arready, beat)
    PROVE  FreshInv'
<1> USE DEF FrontInv
<1> DEFINE f == Fetch!Fetched(Ic)
<1> SUFFICES ASSUME ~failed'
             PROVE  /\ Fresh' /\ state_q' # "FLUSH" =>
                          \A way \in Cache!Ways : \A a \in PCs :
                              Cached(way, a)' => New(InWay(way, a), a)'
                    /\ synced' => /\ skid'.valid /\ ~branch_q' => New(skid.instr, skid.pc)'
                                  /\ decode'.valid => New(decode.instr, decode.pc)'
  BY DEF FreshInv
<1>1. ~failed /\ Store
  BY DEF Edge, Clock
<1>2. Fresh' => Fresh \/ fence = "E1"
  BY DEF Edge, Steers, Fresh
<1>3. Fresh \/ fence = "E1" => imem' = imem
  BY <1>1 DEF Store, Fresh
<1>4. ASSUME Fresh', state_q' # "FLUSH",
             NEW way \in Cache!Ways, NEW a \in PCs, Cached(way, a)'
      PROVE  New(InWay(way, a), a)'
  <2>1. imem' = imem
    BY <1>2, <1>3, <1>4
  <2>2. CASE InWay(way, a)' = [at |-> a, word |-> imem[a]]
    BY <2>1, <2>2 DEF New
  <2>3. CASE state_q # "FLUSH" /\ Cached(way, a) /\ InWay(way, a)' = InWay(way, a)
    <3>1. Fresh
      <4>1. fence = "E1" /\ ~synced => state_q' = "FLUSH"
        BY StateEdge DEF PulseSeen
      <4> QED
        BY <1>2, <1>4, <4>1 DEF Fresh
    <3>2. New(InWay(way, a), a)
      BY <1>1, <2>3, <3>1 DEF FreshInv
    <3> QED
      BY <2>1, <2>3, <3>2 DEF New
  <2> QED
    BY <1>4, <2>2, <2>3, Origin
<1>5. ASSUME synced'
      PROVE  /\ skid'.valid /\ ~branch_q' => New(skid.instr, skid.pc)'
             /\ decode'.valid => New(decode.instr, decode.pc)'
  <2>1. Fetch!Nothing.valid = FALSE
    BY DEF Fetch!Nothing
  <2>2. ~accept \/ ~branch => synced /\ fence # "BRANCH" /\ imem' = imem
    BY <1>3, <1>5 DEF Edge, Steers, Fresh
  <2>3. skid'.valid => f.valid /\ ~accept /\ skid' = f
    BY <2>1, FetchEdge
  <2>4. decode'.valid => ~branch /\ (decode' = f \/ decode' = decode)
    BY <2>1, FetchEdge, Accepted
  <2>5. f.valid /\ synced /\ fence # "BRANCH" => New(f.instr, f.pc)
    BY <1>1, FetchedNew
  <2>6. decode.valid /\ synced => New(decode.instr, decode.pc)
    BY <1>1 DEF FreshInv
  <2> HIDE DEF f
  <2> QED
    BY <2>2, <2>3, <2>4, <2>5, <2>6 DEF New
<1> QED
  BY <1>4, <1>5

LEMMA FreshStep == FrontInv /\ FrontInv' /\ FreshInv /\ PulseSeen /\ [Next]_vars => FreshInv'
<1>1. ASSUME FrontInv, FrontInv', FreshInv, PulseSeen, Next PROVE FreshInv'
  <2>1. PICK accept, branch, target, arready, beat :
           Edge(accept, branch, target, arready, beat)
    BY <1>1, Edges DEF SomeEdge
  <2> QED
    BY <1>1, <2>1, FreshEdge
<1>2. ASSUME FreshInv, UNCHANGED vars PROVE FreshInv'
  BY <1>2 DEF FreshInv, Fresh, New, Cached, Holds, Filling, Filled, InWay,
              vars, fetchVars, icacheVars
<1> QED
  BY <1>1, <1>2

LEMMA FreshShown == FrontInv /\ FreshInv => FreshAfterFence
<1> SUFFICES ASSUME FrontInv, FreshInv, synced, Shown.valid, ~failed
             PROVE  Shown.instr.word = imem[Shown.pc]
  BY DEF FreshAfterFence
<1> USE DEF FrontInv
<1>1. CASE DecodeStage
  BY <1>1, ShownIs DEF FreshInv, New
<1>2. CASE ~DecodeStage
  BY <1>2, ShownIs, FetchedNew DEF New
<1> QED
  BY <1>1, <1>2

LEMMA FreshInit == Init => FreshInv
BY DEF Init, Fetch!Init, Cache!Init, FreshInv, Fresh, Fetch!Nothing

(***************************************************************************)
(* After fence.i the program sees what it has written, provided the cache  *)
(* looks at the pulse: icache.v:456 does so in LOOKUP without a miss only, *)
(* and a pulse it misses is lost.                                          *)
(***************************************************************************)
THEOREM Freshness == Spec /\ []PulseSeen => []FreshAfterFence
<1> QED
  BY FrontInvariant, FreshInit, FreshStep, FreshShown, PTL DEF Spec

-----------------------------------------------------------------------------
(***************************************************************************)
(* Without the decode register, and with fence.i not at the end of its     *)
(* line, the request in the cache while the pulse comes is for that line.  *)
(***************************************************************************)
LEMMA Here ==
    ASSUME FrontInv, InLine, fence = "NONE", Fetch!Fetched(Ic).valid
    PROVE  Found(pc_d_q)
<1> USE DEF FrontInv
<1>1. CASE skid.valid
  BY <1>1, Waiting DEF InLine
<1>2. CASE ~skid.valid
  BY <1>2, Matched DEF Found
<1> QED
  BY <1>1, <1>2

LEMMA InLineEdge ==
    ASSUME ~DecodeStage, Cache!WordOf(FenceAt) # LineWords - 1,
           FrontInv, FrontInv', InLine,
           NEW accept, NEW branch, NEW target, NEW arready, NEW beat,
           Edge(accept, branch, target, arready, beat)
    PROVE  InLine'
<1> USE DEF FrontInv
<1> DEFINE f == Fetch!Fetched(Ic)
<1>1. Fetch!Nothing.valid = FALSE
  BY DEF Fetch!Nothing
<1>2. ASSUME skid'.valid, fence' = "NONE", ~branch_q' PROVE Found(pc_d_q)'
  <2>1. f.valid /\ ~accept /\ ~branch /\ pc_d_q' = pc_d_q
    BY <1>1, <1>2, FetchEdge
  <2>2. fence = "NONE"
    BY <1>2, <2>1 DEF Edge, Steers
  <2>3. state_q = "LOOKUP" /\ state_q' = "LOOKUP"
    BY <2>1, <2>2, Waiting, StateEdge
  <2>4. Found(pc_d_q)
    BY <2>1, <2>2, Here
  <2> QED
    BY <2>1, <2>3, <2>4, Undisturbed DEF Found, Holds
<1>3. ASSUME fence' = "E1"
      PROVE  lookup_valid_q' /\ Looked' /\ Found(lookup_addr_q)'
  <2>1. fence = "NONE" /\ accept /\ f.valid /\ f.pc = FenceAt
    BY <1>3, ShownIs DEF Edge, Steers
  <2>2. /\ state_q = "LOOKUP" /\ state_q' = "LOOKUP"
        /\ lookup_valid_q' /\ lookup_addr_q' = Fetch!Following(FenceAt) /\ pc_d_q = FenceAt
    BY <2>1, Waiting, StateEdge, LookupEdge
  <2>3. Looked'
    BY <2>2 DEF Outputs
  <2>4. Found(FenceAt) /\ FenceAt \in PCs
    BY <2>1, <2>2, Here DEF Registers
  <2>5. Fetch!Following(FenceAt) \in PCs
    BY <2>2 DEF Memories
  <2>6. /\ Cache!SetOf(Fetch!Following(FenceAt)) = Cache!SetOf(FenceAt)
        /\ Cache!TagOf(Fetch!Following(FenceAt)) = Cache!TagOf(FenceAt)
    BY <2>4, <2>5, NextInLine, SameSet
  <2>7. Found(lookup_addr_q)'
    BY <2>2, <2>4, <2>6, Undisturbed DEF Found, Holds
  <2> QED
    BY <2>2, <2>3, <2>7
<1> QED
  BY <1>2, <1>3 DEF InLine

LEMMA InLineStep ==
    ASSUME ~DecodeStage, Cache!WordOf(FenceAt) # LineWords - 1
    PROVE  FrontInv /\ FrontInv' /\ InLine /\ [Next]_vars => InLine'
<1>1. ASSUME FrontInv, FrontInv', InLine, Next PROVE InLine'
  <2>1. PICK accept, branch, target, arready, beat :
           Edge(accept, branch, target, arready, beat)
    BY <1>1, Edges DEF SomeEdge
  <2> QED
    BY <1>1, <2>1, InLineEdge
<1>2. ASSUME InLine, UNCHANGED vars PROVE InLine'
  BY <1>2 DEF InLine, Found, Looked, Holds, InWay, vars, fetchVars, icacheVars
<1> QED
  BY <1>1, <1>2

LEMMA PulseMet == FrontInv /\ InLine => PulseSeen
<1> SUFFICES ASSUME FrontInv, InLine, fence = "E1"
             PROVE  state_q = "LOOKUP" /\ ~Cache!Miss
  BY DEF PulseSeen
<1>1. state_q = "LOOKUP" /\ lookup_valid_q /\ Looked
  BY DEF InLine, Found
<1>2. PICK way \in Cache!Ways : Holds(way, lookup_addr_q)
  BY DEF InLine, Found
<1>3. Cache!TagOf(lookup_addr_q) # Cache!Invalid
  BY ValidTag DEF FrontInv, Memories
<1>4. Cache!Hit(way)
  BY <1>1, <1>2, <1>3 DEF Looked, Holds, Cache!Hit
<1> QED
  BY <1>1, <1>4 DEF Cache!Miss, Cache!HitAny

LEMMA InLineInit == Init => InLine
BY DEF Init, Fetch!Init, Cache!Init, InLine, Fetch!Nothing

(***************************************************************************)
(* So without the decode register a fence.i that is not the last word of   *)
(* its line (icache.v, ICACHE_LINE_SIZE) always does what it says.         *)
(***************************************************************************)
THEOREM FreshInsideLine ==
    ASSUME ~DecodeStage, Cache!WordOf(FenceAt) # LineWords - 1
    PROVE  Spec => []FreshAfterFence
<1>1. FrontInv /\ FrontInv' /\ InLine /\ [Next]_vars => InLine'
  BY InLineStep
<1>2. Spec => []PulseSeen
  BY <1>1, FrontInvariant, InLineInit, PulseMet, PTL DEF Spec
<1> QED
  BY <1>2, Freshness, PTL
=============================================================================

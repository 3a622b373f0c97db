---------------------------- MODULE TcmPmemProofs ---------------------------
(***************************************************************************)
(* The AXI slave of the memory gives every command its responses, in       *)
(* order, for every size of memory up to 256 words, every set of commands  *)
(* and every behaviour of the host.                                        *)
(*                                                                         *)
(* What makes AnswersInOrder true is spread over four queues: commands in  *)
(* part split into accesses, accesses whose answers are due, answers that  *)
(* wait, and what the host still expects.  InOrder ties them together: it  *)
(* gives each access its place among the responses owed.                   *)
(***************************************************************************)
EXTENDS TcmPmem, SequenceTheorems, TLAPS

Words    == 0 .. (2 * NumAddrs - 1)
Item     == [read : BOOLEAN, last : BOOLEAN, id : Ids]
Beat     == [read : {TRUE}, last : BOOLEAN, id : Ids, addr : Addrs]
Response == {o \in [read : {FALSE}, last : {TRUE}, id : Ids, addr : Addrs, len : Addrs] :
                o.addr + o.len \in Addrs}
Owed     == Beat \cup Response

Bursting == [rd : BOOLEAN, wr : BOOLEAN, len : 0 .. 255, addr : Nat, id : Ids]

Registers ==
    /\ burst \in Bursting
    /\ req_prio_q \in BOOLEAN /\ req_hold_rd_q \in BOOLEAN
    /\ req_hold_wr_q \in BOOLEAN
    /\ requests \in Seq(Item) /\ Len(requests) <= FifoDepth
    /\ response \in Seq(Words)
    /\ ram \in [Addrs -> Words] /\ data_r \in Words
    /\ mem_d_accept_q \in BOOLEAN /\ ext_ack_q \in BOOLEAN
    /\ ar \in Commands \cup {NoCommand} /\ aw \in Commands \cup {NoCommand}
    /\ wvalid \in BOOLEAN
    /\ owed \in Seq(Owed)

\* A refused access is alone, and served in the next cycle.
Held ==
    /\ req_hold_rd_q \/ req_hold_wr_q => RamAccept
    /\ ~(req_hold_rd_q /\ req_hold_wr_q)

\* The addresses of a command's words.
Upto(addr, len) == [n \in 1 .. (len + 1) |-> addr + n - 1]

\* The words the host has yet to send are those of the write under way, or of
\* the write it offers.
Bursts ==
    /\ ~(burst.rd /\ burst.wr)
    /\ burst.rd \/ burst.wr => burst.addr + burst.len \in Addrs
    /\ burst.wr => ~AwValid /\ wleft = Upto(burst.addr, burst.len)
    /\ ~burst.wr => wleft = IF AwValid THEN Upto(aw.addr, aw.len) ELSE <<>>
    /\ wvalid => wleft # <<>>

\* A word is at home, as it was or written.
Home == \A a \in Addrs : ram[a] \in {a, a + NumAddrs}

-----------------------------------------------------------------------------
\* An access is answered with a response of its own, unless it is one of the
\* first words of a write.
Counts(e) == e.read \/ e.last

\* Access e, answered with word d, is the one response o is for; mem is the memory.
Meets(e, d, o, mem) ==
    /\ e.read => /\ o.read /\ o.id = e.id /\ o.last = e.last
                 /\ d \in {o.addr, o.addr + NumAddrs}
    /\ ~e.read => ~o.read
    /\ ~e.read /\ e.last => /\ o.id = e.id
                            /\ \A a \in o.addr .. (o.addr + o.len) :
                                  mem[a] = a + NumAddrs

\* place[n] is where the response to the n-th access is among those owed; the
\* last "rest" of them belong to accesses not made yet.
Placed(place, rs, ans, ow, rest, mem) ==
    /\ place[1] = 1
    /\ \A i, j \in 1 .. (Len(rs) + 1) : i <= j => place[i] <= place[j]
    /\ \A n \in 1 .. Len(rs) :
          /\ place[n + 1] = place[n] + (IF Counts(rs[n]) THEN 1 ELSE 0)
          /\ place[n] <= Len(ow)
          /\ Meets(rs[n], ans[n], ow[place[n]], mem)
    /\ place[Len(rs) + 1] + rest = Len(ow) + 1

InOrder(rs, ans, ow, rest, mem) ==
    \E place \in [1 .. (Len(rs) + 1) -> Nat] : Placed(place, rs, ans, ow, rest, mem)

\* The responses owed for the rest of command b.
Rest(b) == IF b.rd THEN b.len + 1 ELSE IF b.wr THEN 1 ELSE 0

BeatAt(b, k) ==
    [read |-> TRUE, last |-> k = b.len, id |-> b.id, addr |-> b.addr + k]

Remaining(b, ow, mem) ==
    /\ b.rd => \A k \in 0 .. b.len : ow[Len(ow) - b.len + k] = BeatAt(b, k)
    /\ b.wr => LET o == ow[Len(ow)]
               IN  /\ ~o.read /\ o.id = b.id
                   /\ o.addr <= b.addr /\ o.addr + o.len = b.addr + b.len
                   /\ \A a \in o.addr .. (b.addr - 1) : mem[a] = a + NumAddrs

\* The answers to the accesses of u_requests: those in u_response and the one
\* the RAM gives in this cycle.
Answers == response \o (IF ext_ack_q THEN <<data_r>> ELSE <<>>)

PmemInv ==
    /\ Registers /\ Held /\ Bursts /\ Home
    /\ ResponseFits
    /\ InOrder(requests, Answers, owed, Rest(burst), ram)
    /\ Remaining(burst, owed, ram)

-----------------------------------------------------------------------------
(***************************************************************************)
(* Sequences.                                                              *)
(***************************************************************************)
LEMMA TailOf ==
    ASSUME NEW S, NEW s \in Seq(S), s # <<>>
    PROVE  /\ Tail(s) \in Seq(S) /\ Len(Tail(s)) = Len(s) - 1
           /\ Len(s) \in Nat /\ Len(s) >= 1
           /\ Head(s) = s[1] /\ Head(s) \in S
           /\ \A n \in 1 .. (Len(s) - 1) : Tail(s)[n] = s[n + 1]
OBVIOUS

LEMMA Added ==
    ASSUME NEW S, NEW s \in Seq(S), NEW x \in S
    PROVE  /\ s \o <<x>> \in Seq(S) /\ Len(s \o <<x>>) = Len(s) + 1
           /\ \A n \in 1 .. Len(s) : (s \o <<x>>)[n] = s[n]
           /\ (s \o <<x>>)[Len(s) + 1] = x
OBVIOUS

LEMMA TailOfConcat ==
    ASSUME NEW S, NEW s \in Seq(S), NEW t \in Seq(S), s # <<>>
    PROVE  Tail(s) \o t = Tail(s \o t) /\ s \o t # <<>>
OBVIOUS

\* One place nearer the head.
LEMMA MovedUp ==
    ASSUME NEW n \in Nat, NEW l \in Nat, NEW bit \in {0, 1}, 1 + bit <= n, n <= l
    PROVE  n - bit \in 1 .. (l - bit) /\ (n - bit) + bit = n
OBVIOUS

LEMMA UptoIs ==
    ASSUME NEW a \in Nat, NEW l \in Nat
    PROVE  /\ Upto(a, l) \in Seq(Nat) /\ Len(Upto(a, l)) = l + 1
           /\ Upto(a, l) # <<>> /\ Head(Upto(a, l)) = a
<1>1. Upto(a, l) \in [1 .. (l + 1) -> Nat]
  BY DEF Upto
<1>2. Upto(a, l) \in Seq(Nat)
  BY <1>1, SeqDef
<1>3. Len(Upto(a, l)) = l + 1
  BY <1>1, <1>2, LenProperties
<1>4. Upto(a, l) # <<>> /\ Head(Upto(a, l)) = Upto(a, l)[1]
  BY <1>2, <1>3
<1>5. Upto(a, l)[1] = a
  BY DEF Upto
<1> QED
  BY <1>2, <1>3, <1>4, <1>5

LEMMA UptoTail ==
    ASSUME NEW a \in Nat, NEW l \in Nat
    PROVE  Tail(Upto(a, l)) = IF l = 0 THEN <<>> ELSE Upto(a + 1, l - 1)
<1>1. /\ Upto(a, l) \in Seq(Nat) /\ Len(Upto(a, l)) = l + 1
      /\ Upto(a, l) # <<>>
  BY UptoIs
<1>2. /\ Tail(Upto(a, l)) \in Seq(Nat) /\ Len(Tail(Upto(a, l))) = l
      /\ \A n \in 1 .. l : Tail(Upto(a, l))[n] = Upto(a, l)[n + 1]
  BY <1>1, TailOf
<1>3. CASE l = 0
  BY <1>2, <1>3, EmptySeq
<1>4. CASE l # 0
  <2>1. Upto(a + 1, l - 1) \in Seq(Nat) /\ Len(Upto(a + 1, l - 1)) = (l - 1) + 1
    BY <1>4, UptoIs
  <2>2. \A n \in 1 .. l : Upto(a, l)[n + 1] = Upto(a + 1, l - 1)[n]
    BY <1>4 DEF Upto
  <2>3. Len(Tail(Upto(a, l))) = Len(Upto(a + 1, l - 1))
    BY <1>2, <2>1
  <2>4. \A n \in 1 .. Len(Tail(Upto(a, l))) :
            Tail(Upto(a, l))[n] = Upto(a + 1, l - 1)[n]
    BY <1>2, <2>2
  <2> QED
    BY <1>2, <1>4, <2>1, <2>3, <2>4, SeqEqual
<1> QED
  BY <1>3, <1>4

-----------------------------------------------------------------------------
(***************************************************************************)
(* The order is kept by each thing that happens to the queues: the oldest  *)
(* access is done, a command adds responses, an access is made.            *)
(***************************************************************************)
LEMMA OldestDone ==
    ASSUME NEW rs \in Seq(Item), NEW ans \in Seq(Words), NEW ow \in Seq(Owed),
           NEW rest \in Nat, NEW mem, Len(ans) = Len(rs), rs # <<>>
    PROVE  InOrder(rs, ans, ow, rest, mem) =>
              /\ ow # <<>> /\ Meets(Head(rs), Head(ans), Head(ow), mem)
              /\ InOrder(Tail(rs), Tail(ans),
                         IF Counts(Head(rs)) THEN Tail(ow) ELSE ow, rest, mem)
<1>1. SUFFICES
        ASSUME NEW place \in [1 .. (Len(rs) + 1) -> Nat],
               Placed(place, rs, ans, ow, rest, mem)
        PROVE  /\ ow # <<>> /\ Meets(Head(rs), Head(ans), Head(ow), mem)
               /\ InOrder(Tail(rs), Tail(ans),
                          IF Counts(Head(rs)) THEN Tail(ow) ELSE ow, rest, mem)
  BY DEF InOrder
<1>2. /\ Len(rs) \in Nat \ {0} /\ Head(rs) = rs[1] /\ Len(Tail(rs)) = Len(rs) - 1
      /\ \A n \in 1 .. (Len(rs) - 1) : Tail(rs)[n] = rs[n + 1]
  OBVIOUS
<1>3. ans # <<>>
  BY <1>2
<1>4. Head(ans) = ans[1] /\ \A n \in 1 .. (Len(rs) - 1) : Tail(ans)[n] = ans[n + 1]
  BY <1>3
<1> DEFINE bit  == IF Counts(Head(rs)) THEN 1 ELSE 0
           left == IF Counts(Head(rs)) THEN Tail(ow) ELSE ow
           next == [n \in 1 .. Len(rs) |-> place[n + 1] - bit]
<1>5. place[1] = 1 /\ place[2] = 1 + bit /\ 1 <= Len(ow)
      /\ Meets(rs[1], ans[1], ow[1], mem)
  <2>1. 1 \in 1 .. Len(rs)
    BY <1>2
  <2> QED
    BY <1>1, <1>2, <2>1 DEF Placed
<1>6. ow # <<>> /\ Head(ow) = ow[1]
  <2>1. Len(<<>>) = 0
    OBVIOUS
  <2>2. Len(ow) \in Nat
    OBVIOUS
  <2>3. ow # <<>>
    BY <1>5, <2>1, <2>2
  <2> QED
    BY <2>3
<1>7. /\ Len(left) = Len(ow) - bit
      /\ \A n \in 1 .. (Len(ow) - bit) : left[n] = ow[n + bit]
  BY <1>6
<1>8. bit \in {0, 1}
  OBVIOUS
<1> HIDE DEF bit, left
<1>9. next \in [1 .. (Len(Tail(rs)) + 1) -> Nat]
  <2>1. ASSUME NEW n \in 1 .. Len(rs)
        PROVE  place[2] <= place[n + 1] /\ place[n + 1] \in Nat
    <3>1. /\ 2 \in 1 .. (Len(rs) + 1) /\ n + 1 \in 1 .. (Len(rs) + 1) /\ 2 <= n + 1
      BY <1>2
    <3> QED
      BY <1>1, <3>1 DEF Placed
  <2>2. \A n \in 1 .. Len(rs) : place[n + 1] - bit \in Nat
    BY <1>5, <1>8, <2>1
  <2> QED
    BY <1>2, <2>2
<1>10. Placed(next, Tail(rs), Tail(ans), left, rest, mem)
  <2>1. next[1] = 1
    BY <1>2, <1>5, <1>8
  <2>2. ASSUME NEW i \in 1 .. (Len(Tail(rs)) + 1), NEW j \in 1 .. (Len(Tail(rs)) + 1),
               i <= j
        PROVE  next[i] <= next[j]
    <3>1. /\ i + 1 \in 1 .. (Len(rs) + 1) /\ j + 1 \in 1 .. (Len(rs) + 1)
          /\ i + 1 <= j + 1 /\ i \in 1 .. Len(rs) /\ j \in 1 .. Len(rs)
      BY <1>2, <2>2
    <3>2. /\ place[i + 1] <= place[j + 1]
          /\ place[i + 1] \in Nat /\ place[j + 1] \in Nat
      BY <1>1, <3>1 DEF Placed
    <3>3. next[i] = place[i + 1] - bit /\ next[j] = place[j + 1] - bit
      BY <3>1
    <3> HIDE DEF next
    <3> QED
      BY <1>8, <3>2, <3>3
  <2>3. ASSUME NEW n \in 1 .. Len(Tail(rs))
        PROVE  /\ next[n + 1] = next[n] + (IF Counts(Tail(rs)[n]) THEN 1 ELSE 0)
               /\ next[n] <= Len(left)
               /\ Meets(Tail(rs)[n], Tail(ans)[n], left[next[n]], mem)
    <3>1. /\ place[n + 2] = place[n + 1] + (IF Counts(rs[n + 1]) THEN 1 ELSE 0)
          /\ place[n + 1] <= Len(ow)
          /\ Meets(rs[n + 1], ans[n + 1], ow[place[n + 1]], mem)
          /\ place[n + 1] \in Nat /\ place[n + 2] \in Nat /\ place[2] <= place[n + 1]
      <4>1. /\ n + 1 \in 1 .. Len(rs) /\ (n + 1) + 1 = n + 2 /\ 2 <= n + 1
            /\ 2 \in 1 .. (Len(rs) + 1) /\ n + 1 \in 1 .. (Len(rs) + 1)
            /\ n + 2 \in 1 .. (Len(rs) + 1)
        BY <1>2
      <4>2. place[n + 1] \in Nat /\ place[n + 2] \in Nat
        BY <4>1
      <4>3. place[2] <= place[n + 1]
        BY <1>1, <4>1 DEF Placed
      <4>4. /\ place[(n + 1) + 1] = place[n + 1] + (IF Counts(rs[n + 1]) THEN 1 ELSE 0)
            /\ place[n + 1] <= Len(ow)
            /\ Meets(rs[n + 1], ans[n + 1], ow[place[n + 1]], mem)
        BY <1>1, <4>1 DEF Placed
      <4> QED
        BY <4>1, <4>2, <4>3, <4>4
    <3>2. next[n] = place[n + 1] - bit /\ next[n + 1] = place[n + 2] - bit
      BY <1>2
    <3> HIDE DEF next
    <3>3. Tail(rs)[n] = rs[n + 1] /\ Tail(ans)[n] = ans[n + 1]
      BY <1>2, <1>4
    <3>4. left[next[n]] = ow[place[n + 1]]
      <4>1. Len(ow) \in Nat
        OBVIOUS
      <4>2. 1 + bit <= place[n + 1]
        BY <1>5, <3>1
      <4>3. next[n] \in 1 .. (Len(ow) - bit) /\ next[n] + bit = place[n + 1]
        <5>1. place[n + 1] \in Nat /\ place[n + 1] <= Len(ow)
          BY <3>1
        <5>2. /\ place[n + 1] - bit \in 1 .. (Len(ow) - bit)
              /\ (place[n + 1] - bit) + bit = place[n + 1]
          BY <1>8, <4>1, <4>2, <5>1, MovedUp
        <5> QED
          BY <3>2, <5>2
      <4> QED
        BY <1>7, <4>3
    <3>5. next[n + 1] = next[n] + (IF Counts(rs[n + 1]) THEN 1 ELSE 0)
      BY <1>8, <3>1, <3>2
    <3>6. next[n] <= Len(left)
      BY <1>7, <1>8, <3>1, <3>2
    <3> QED
      BY <3>1, <3>3, <3>4, <3>5, <3>6
  <2>4. next[Len(Tail(rs)) + 1] + rest = Len(left) + 1
    <3>1. place[Len(rs) + 1] + rest = Len(ow) + 1 /\ place[Len(rs) + 1] \in Nat
      BY <1>1, <1>2 DEF Placed
    <3>2. next[Len(rs)] = place[Len(rs) + 1] - bit
      BY <1>2
    <3> QED
      BY <1>2, <1>7, <1>8, <3>1, <3>2
  <2> HIDE DEF next
  <2> QED
    BY <2>1, <2>2, <2>3, <2>4 DEF Placed
<1>11. InOrder(Tail(rs), Tail(ans), left, rest, mem)
  BY <1>9, <1>10 DEF InOrder
<1> QED
  BY <1>2, <1>4, <1>5, <1>6, <1>11 DEF left

LEMMA ResponsesAdded ==
    ASSUME NEW rs \in Seq(Item), NEW ans, NEW ow \in Seq(Owed),
           NEW more \in Seq(Owed), NEW mem
    PROVE  InOrder(rs, ans, ow, 0, mem) => InOrder(rs, ans, ow \o more, Len(more), mem)
<1>1. SUFFICES ASSUME NEW place \in [1 .. (Len(rs) + 1) -> Nat],
                      Placed(place, rs, ans, ow, 0, mem)
               PROVE  InOrder(rs, ans, ow \o more, Len(more), mem)
  BY DEF InOrder
<1>2. /\ Len(ow \o more) = Len(ow) + Len(more)
      /\ \A n \in 1 .. Len(ow) : (ow \o more)[n] = ow[n]
      /\ Len(ow) \in Nat /\ Len(more) \in Nat /\ Len(rs) \in Nat
  OBVIOUS
<1>3. ASSUME NEW n \in 1 .. Len(rs)
      PROVE  /\ place[n + 1] = place[n] + (IF Counts(rs[n]) THEN 1 ELSE 0)
             /\ place[n] <= Len(ow \o more)
             /\ Meets(rs[n], ans[n], (ow \o more)[place[n]], mem)
  <2>1. /\ place[n + 1] = place[n] + (IF Counts(rs[n]) THEN 1 ELSE 0)
        /\ place[n] <= Len(ow)
        /\ Meets(rs[n], ans[n], ow[place[n]], mem)
    BY <1>1, <1>2 DEF Placed
  <2>2. 1 \in 1 .. (Len(rs) + 1) /\ n \in 1 .. (Len(rs) + 1) /\ 1 <= n
    BY <1>2
  <2>3. place[n] >= 1 /\ place[n] \in Nat
    BY <1>1, <2>2 DEF Placed
  <2>4. place[n] \in 1 .. Len(ow)
    BY <1>2, <2>1, <2>3
  <2>5. (ow \o more)[place[n]] = ow[place[n]] /\ place[n] <= Len(ow \o more)
    BY <1>2, <2>4
  <2> QED
    BY <2>1, <2>5
<1>4. place[Len(rs) + 1] + Len(more) = Len(ow \o more) + 1
  <2>1. place[Len(rs) + 1] \in Nat
    BY <1>2
  <2>2. place[Len(rs) + 1] + 0 = Len(ow) + 1
    BY <1>1 DEF Placed
  <2>3. place[Len(rs) + 1] = Len(ow) + 1
    BY <2>1, <2>2
  <2>4. Len(ow \o more) = Len(ow) + Len(more) /\ Len(ow) \in Nat /\ Len(more) \in Nat
    BY <1>2
  <2> QED
    BY <2>3, <2>4
<1>5. /\ place[1] = 1
      /\ \A i, j \in 1 .. (Len(rs) + 1) : i <= j => place[i] <= place[j]
  BY <1>1 DEF Placed
<1>6. Placed(place, rs, ans, ow \o more, Len(more), mem)
  BY <1>3, <1>4, <1>5 DEF Placed
<1> QED
  BY <1>6 DEF InOrder

LEMMA AccessMade ==
    ASSUME NEW rs \in Seq(Item), NEW ans \in Seq(Words), NEW ow \in Seq(Owed),
           NEW rest \in Nat \ {0}, NEW mem,
           NEW e \in Item, NEW d \in Words, rest <= Len(ow)
    PROVE  /\ Len(ans) = Len(rs) /\ InOrder(rs, ans, ow, rest, mem)
           /\ Meets(e, d, ow[Len(ow) + 1 - rest], mem)
           => InOrder(rs \o <<e>>, ans \o <<d>>, ow,
                      rest - (IF Counts(e) THEN 1 ELSE 0), mem)
<1>1. SUFFICES ASSUME NEW place \in [1 .. (Len(rs) + 1) -> Nat],
                      Len(ans) = Len(rs), Placed(place, rs, ans, ow, rest, mem),
                      Meets(e, d, ow[Len(ow) + 1 - rest], mem)
               PROVE  InOrder(rs \o <<e>>, ans \o <<d>>, ow,
                              rest - (IF Counts(e) THEN 1 ELSE 0), mem)
  BY DEF InOrder
<1>2. /\ Len(rs) \in Nat /\ Len(ow) \in Nat /\ Len(rs \o <<e>>) = Len(rs) + 1
      /\ \A n \in 1 .. Len(rs) : (rs \o <<e>>)[n] = rs[n]
      /\ (rs \o <<e>>)[Len(rs) + 1] = e
  OBVIOUS
<1>3. /\ \A n \in 1 .. Len(rs) : (ans \o <<d>>)[n] = ans[n]
      /\ (ans \o <<d>>)[Len(rs) + 1] = d
  <2>1. /\ \A n \in 1 .. Len(ans) : (ans \o <<d>>)[n] = ans[n]
        /\ (ans \o <<d>>)[Len(ans) + 1] = d
    OBVIOUS
  <2> QED
    BY <1>1, <2>1
<1> DEFINE bit == IF Counts(e) THEN 1 ELSE 0
           end == Len(rs) + 1
           next == [n \in 1 .. (Len(rs) + 2) |->
                       IF n <= end THEN place[n] ELSE place[end] + bit]
<1>4. bit \in {0, 1}
  OBVIOUS
<1>5. place[end] = Len(ow) + 1 - rest /\ place[end] \in Nat
  BY <1>1, <1>2 DEF Placed
<1>6. next \in [1 .. (Len(rs \o <<e>>) + 1) -> Nat]
  BY <1>2, <1>4, <1>5
<1>7. next[1] = 1
  BY <1>1, <1>2 DEF Placed
<1>8. \A i, j \in 1 .. (Len(rs \o <<e>>) + 1) : i <= j => next[i] <= next[j]
  <2>1. \A i, j \in 1 .. end : i <= j => place[i] <= place[j]
    BY <1>1 DEF Placed
  <2>2. \A i \in 1 .. end : place[i] <= place[end] /\ place[i] \in Nat
    BY <1>2, <2>1
  <2> HIDE DEF bit
  <2> QED
    BY <1>2, <1>4, <1>5, <2>1, <2>2
<1>9. ASSUME NEW n \in 1 .. Len(rs \o <<e>>)
      PROVE  /\ next[n + 1] = next[n] + (IF Counts((rs \o <<e>>)[n]) THEN 1 ELSE 0)
             /\ next[n] <= Len(ow)
             /\ Meets((rs \o <<e>>)[n], (ans \o <<d>>)[n], ow[next[n]], mem)
  <2>1. CASE n \in 1 .. Len(rs)
    <3>1. /\ place[n + 1] = place[n] + (IF Counts(rs[n]) THEN 1 ELSE 0)
          /\ place[n] <= Len(ow)
          /\ Meets(rs[n], ans[n], ow[place[n]], mem)
      BY <1>1, <2>1 DEF Placed
    <3>2. next[n] = place[n] /\ next[n + 1] = place[n + 1]
      BY <1>2, <2>1
    <3> HIDE DEF next
    <3> QED
      BY <1>2, <1>3, <2>1, <3>1, <3>2
  <2>2. CASE n = end
    <3>1. next[n] = place[end] /\ next[n + 1] = place[end] + bit
      BY <1>2, <2>2
    <3>2. (rs \o <<e>>)[n] = e /\ (ans \o <<d>>)[n] = d
      BY <1>2, <1>3, <2>2
    <3>3. place[end] <= Len(ow)
      BY <1>2, <1>5
    <3> HIDE DEF next, end
    <3> QED
      BY <1>1, <1>5, <3>1, <3>2, <3>3
  <2>3. n \in 1 .. Len(rs) \/ n = end
    BY <1>2
  <2> QED
    BY <2>1, <2>2, <2>3
<1>10. next[Len(rs \o <<e>>) + 1] + (rest - bit) = Len(ow) + 1
  <2>1. next[Len(rs) + 2] = place[end] + bit
    BY <1>2
  <2>2. Len(rs \o <<e>>) + 1 = Len(rs) + 2
    BY <1>2
  <2> HIDE DEF next, bit, end
  <2> QED
    BY <1>2, <1>4, <1>5, <2>1, <2>2
<1>11. Placed(next, rs \o <<e>>, ans \o <<d>>, ow, rest - bit, mem)
  <2> HIDE DEF next, bit
  <2> QED
    BY <1>7, <1>8, <1>9, <1>10 DEF Placed
<1> HIDE DEF next
<1> QED
  BY <1>6, <1>11 DEF InOrder

\* Words of memory that are written stay written.
LEMMA WritesStay ==
    ASSUME NEW rs \in Seq(Item), NEW ans, NEW ow \in Seq(Owed), NEW rest, NEW mem,
           NEW later, \A a \in Addrs : mem[a] = a + NumAddrs => later[a] = a + NumAddrs
    PROVE  InOrder(rs, ans, ow, rest, mem) => InOrder(rs, ans, ow, rest, later)
<1>1. ASSUME NEW e, NEW d, NEW o \in Owed, Meets(e, d, o, mem)
      PROVE  Meets(e, d, o, later)
  <2>1. ASSUME ~e.read, e.last, NEW a \in o.addr .. (o.addr + o.len)
        PROVE  later[a] = a + NumAddrs
    <3>1. o \in Response
      BY <1>1, <2>1 DEF Meets, Owed, Beat
    <3>2. o.addr \in Addrs /\ o.addr + o.len \in Addrs
      BY <3>1 DEF Response
    <3>3. a \in Addrs
      BY <3>2, PmemAssumption DEF Addrs
    <3> QED
      BY <1>1, <2>1, <3>3 DEF Meets
  <2> QED
    BY <1>1, <2>1 DEF Meets
<1>2. SUFFICES ASSUME NEW place \in [1 .. (Len(rs) + 1) -> Nat],
                      Placed(place, rs, ans, ow, rest, mem)
               PROVE  Placed(place, rs, ans, ow, rest, later)
  BY DEF InOrder
<1>3. ASSUME NEW n \in 1 .. Len(rs)
      PROVE  Meets(rs[n], ans[n], ow[place[n]], later)
  <2>1. /\ Len(rs) \in Nat /\ Len(ow) \in Nat
    OBVIOUS
  <2>2. 1 \in 1 .. (Len(rs) + 1) /\ n \in 1 .. (Len(rs) + 1) /\ 1 <= n
    BY <2>1
  <2>3. /\ place[n] >= 1 /\ place[n] \in Nat /\ place[n] <= Len(ow)
        /\ Meets(rs[n], ans[n], ow[place[n]], mem)
    BY <1>2, <2>2 DEF Placed
  <2>4. place[n] \in 1 .. Len(ow)
    BY <2>1, <2>3
  <2>5. ow[place[n]] \in Owed
    BY <2>4, ElementOfSeq
  <2> QED
    BY <1>1, <2>3, <2>5
<1> QED
  BY <1>2, <1>3 DEF Placed

-----------------------------------------------------------------------------
(***************************************************************************)
(* The wires.                                                              *)
(***************************************************************************)
\* The command whose accesses the RAM is asked for: one that is taken now, or
\* the burst under way.
Started ==
    IF ArTaken THEN [rd |-> TRUE, wr |-> FALSE, len |-> ar.len, addr |-> ar.addr,
                     id |-> ar.id]
    ELSE IF AwTaken THEN [rd |-> FALSE, wr |-> TRUE, len |-> aw.len,
                          addr |-> aw.addr, id |-> aw.id]
    ELSE burst

State == Registers /\ Held /\ Bursts

LEMMA CommandIs ==
    ASSUME NEW c \in Commands
    PROVE  /\ c # NoCommand /\ c.addr \in Addrs /\ c.len \in Addrs
           /\ c.addr + c.len \in Addrs /\ c.id \in Ids
           /\ c.addr \in Nat /\ c.len \in 0 .. 255
<1>1. c.addr \in Addrs /\ c.len \in Addrs /\ c.addr + c.len \in Addrs
  BY PmemAssumption
<1>2. c.len # -1 /\ c.addr \in Nat /\ c.len \in 0 .. 255
  <2>1. NumAddrs \in 1 .. 256
    BY PmemAssumption
  <2>2. \A x \in Addrs : x # -1 /\ x \in Nat /\ x \in 0 .. 255
    BY <2>1 DEF Addrs
  <2> QED
    BY <1>1, <2>2
<1>3. c # NoCommand
  BY <1>2 DEF NoCommand
<1> QED
  BY <1>1, <1>2, <1>3 DEF Ids

LEMMA OneKind == State => ~(ReadActive /\ WriteActive)
  BY DEF State, Held, ReadActive, WriteActive, ReadPrio, WritePrio, ArValid, AwValid

LEMMA RequestIs ==
    State =>
      /\ ReadActive => /\ RamRequest.op = "LOAD" /\ RamRequest.addr = RamAddr
      /\ ~ReadActive /\ WriteActive /\ wvalid =>
            /\ RamRequest.op = "STORE" /\ RamRequest.addr = RamAddr
            /\ RamRequest.data = Head(wleft) + NumAddrs
      /\ ~ReadActive /\ ~(WriteActive /\ wvalid) => RamRequest.op = "NONE"
  BY DEF RamRequest, Tcm!NoRequest

\* What the RAM is asked for is an access of the command started.
LEMMA StartedIs ==
    State =>
      /\ Started.rd \in BOOLEAN /\ Started.wr \in BOOLEAN
      /\ Started.len \in 0 .. 255 /\ Started.addr \in Nat /\ Started.id \in Ids
      /\ ~(Started.rd /\ Started.wr)
      /\ Started.rd \/ Started.wr => Started.addr + Started.len \in Addrs
      /\ Started.wr => wleft = Upto(Started.addr, Started.len)
<1>1. ASSUME State, ArTaken
      PROVE  /\ Started.rd = TRUE /\ Started.wr = FALSE
             /\ Started.len \in 0 .. 255 /\ Started.addr \in Nat /\ Started.id \in Ids
             /\ Started.addr + Started.len \in Addrs
  <2>1. ar \in Commands
    BY <1>1 DEF State, Registers, ArTaken, ArValid
  <2> QED
    BY <1>1, <2>1, CommandIs DEF Started
<1>2. ASSUME State, ~ArTaken, AwTaken
      PROVE  /\ Started.rd = FALSE /\ Started.wr = TRUE
             /\ Started.len \in 0 .. 255 /\ Started.addr \in Nat /\ Started.id \in Ids
             /\ Started.addr + Started.len \in Addrs
             /\ wleft = Upto(Started.addr, Started.len)
  <2>1. aw \in Commands
    BY <1>2 DEF State, Registers, AwTaken, AwValid
  <2>2. Started = [rd |-> FALSE, wr |-> TRUE, len |-> aw.len,
                   addr |-> aw.addr, id |-> aw.id]
    BY <1>2 DEF Started
  <2>3. wleft = Upto(aw.addr, aw.len)
    BY <1>2 DEF State, Bursts, AwTaken
  <2> QED
    BY <2>1, <2>2, <2>3, CommandIs
<1>3. ASSUME State, ~ArTaken, ~AwTaken
      PROVE  /\ Started.rd \in BOOLEAN /\ Started.wr \in BOOLEAN
             /\ Started.len \in 0 .. 255 /\ Started.addr \in Nat /\ Started.id \in Ids
             /\ ~(Started.rd /\ Started.wr)
             /\ Started.rd \/ Started.wr => Started.addr + Started.len \in Addrs
             /\ Started.wr => wleft = Upto(Started.addr, Started.len)
  <2>1. Started = burst
    BY <1>3 DEF Started
  <2>2. /\ burst.rd \in BOOLEAN /\ burst.wr \in BOOLEAN
        /\ burst.len \in 0 .. 255 /\ burst.addr \in Nat /\ burst.id \in Ids
    BY <1>3 DEF State, Registers, Bursting
  <2> QED
    BY <1>3, <2>1, <2>2 DEF State, Bursts
<1> QED
  BY <1>1, <1>2, <1>3

LEMMA ServedIs ==
    ASSUME State
    PROVE  /\ Served => /\ RamAccept /\ FifoAccept
                        /\ RamRequest.addr = Started.addr
                        /\ Started.rd <=> ReadActive
                        /\ Started.rd \/ Started.wr
           /\ Served /\ Started.rd => RamRequest.op = "LOAD"
           /\ Served /\ Started.wr => /\ RamRequest.op = "STORE"
                                      /\ RamRequest.data = Started.addr + NumAddrs
           /\ WTaken <=> Served /\ Started.wr
           /\ ArTaken => Served /\ Started.rd /\ ~AwTaken
           /\ AwTaken => Started.wr
<1>1. ~(ReadActive /\ WriteActive)
  BY OneKind
<1>2. /\ ArTaken => ReadActive /\ ~burst.rd /\ ~burst.wr /\ RamAccept
      /\ AwTaken => WriteActive /\ ~burst.rd /\ ~burst.wr /\ RamAccept
  BY DEF ArTaken, AwTaken, ReadActive, WriteActive
<1>3. /\ ArTaken => Started.rd /\ ~Started.wr
      /\ AwTaken => ~Started.rd /\ Started.wr
  BY <1>1, <1>2 DEF Started
<1>4. ASSUME ReadActive, RamAccept
      PROVE  Started.rd /\ ~Started.wr /\ RamAddr = Started.addr
  <2>1. ArTaken \/ burst.rd
    BY <1>4 DEF ReadActive, ArTaken
  <2>2. CASE ArTaken
    BY <1>1, <1>2, <1>4, <2>2 DEF RamAddr, Started
  <2>3. CASE ~ArTaken
    <3>1. ~AwTaken /\ ~burst.wr
      BY <1>1, <1>2, <1>4 DEF ReadActive
    <3> QED
      BY <2>1, <2>3, <3>1 DEF RamAddr, Started
  <2> QED
    BY <2>2, <2>3
<1>5. ASSUME WriteActive, RamAccept
      PROVE  Started.wr /\ ~Started.rd /\ RamAddr = Started.addr
  <2>1. AwTaken \/ burst.wr
    BY <1>5 DEF WriteActive, AwTaken
  <2>2. ~ArTaken /\ ~burst.rd
    BY <1>1, <1>2, <1>5 DEF WriteActive
  <2>3. CASE AwTaken
    BY <1>2, <1>5, <2>2, <2>3 DEF RamAddr, Started
  <2>4. CASE ~AwTaken
    BY <2>1, <2>2, <2>4 DEF RamAddr, Started
  <2> QED
    BY <2>3, <2>4
<1>6. ReadActive \/ WriteActive => FifoAccept
  BY DEF ReadActive, WriteActive
<1>7. Served <=> RamAccept /\ (ReadActive \/ (WriteActive /\ wvalid))
  BY <1>1, RequestIs DEF Served
<1>8. WriteActive /\ RamAccept => Head(wleft) = Started.addr
  <2>1. SUFFICES ASSUME WriteActive, RamAccept
                 PROVE  Head(wleft) = Started.addr
    OBVIOUS
  <2>2. wleft = Upto(Started.addr, Started.len)
    BY <1>5, <2>1, StartedIs
  <2>3. Started.addr \in Nat /\ Started.len \in Nat
    BY StartedIs
  <2> QED
    BY <2>2, <2>3, UptoIs
<1>9. WTaken <=> WriteActive /\ wvalid /\ RamAccept
  BY DEF WTaken
<1> QED
  BY <1>1, <1>2, <1>3, <1>4, <1>5, <1>6, <1>7, <1>8, <1>9, RequestIs

LEMMA EntryIs ==
    ASSUME State, Served
    PROVE  /\ Entry \in Item
           /\ Entry.read <=> Started.rd
           /\ Entry.last <=> Started.len = 0
           /\ Entry.id = Started.id
<1>1. /\ Started.rd <=> ReadActive
      /\ ArTaken => Started.rd /\ ~AwTaken
      /\ AwTaken => Started.wr
  BY ServedIs
<1>2. Started.id \in Ids /\ ~(Started.rd /\ Started.wr)
  BY StartedIs
<1>3. /\ Entry.read <=> Started.rd
      /\ Entry.last <=> Started.len = 0
      /\ Entry.id = Started.id
  BY <1>1, <1>2 DEF Entry, Started
<1>4. /\ (ReadActive) \in BOOLEAN /\ (burst.len = 0) \in BOOLEAN
      /\ (ar.len = 0) \in BOOLEAN /\ (aw.len = 0) \in BOOLEAN
  BY DEF ReadActive
<1>5. Entry \in Item
  <2>1. CASE ArTaken
    BY <1>2, <1>4, <2>1 DEF Entry, Item, Started
  <2>2. CASE ~ArTaken /\ AwTaken
    BY <1>2, <1>4, <2>2 DEF Entry, Item, Started
  <2>3. CASE ~ArTaken /\ ~AwTaken
    BY <1>2, <1>4, <2>3 DEF Entry, Item, Started
  <2> QED
    BY <2>1, <2>2, <2>3
<1> QED
  BY <1>3, <1>5

-----------------------------------------------------------------------------
(***************************************************************************)
(* The clock edge.                                                         *)
(***************************************************************************)
\* The burst goes on after the access, or ends with it.
LEMMA BurstNext ==
    ASSUME State, Burst
    PROVE  /\ burst'.rd <=> Started.rd /\ ~(Served /\ Started.len = 0)
           /\ burst'.wr <=> Started.wr /\ ~(Served /\ Started.len = 0)
           /\ burst'.rd \/ burst'.wr =>
                /\ burst'.id = Started.id
                /\ ~Served => /\ burst'.len = Started.len
                              /\ burst'.addr = Started.addr
                /\ Served => /\ burst'.len = Started.len - 1
                             /\ burst'.addr = Started.addr + 1
           /\ burst' \in Bursting
<1>1. burst \in Bursting
  BY DEF State, Registers
<1> USE DEF Bursting
<1> DEFINE Loose == [rd : BOOLEAN, wr : BOOLEAN, len : Int, addr : Int, id : Ids]
<1>2. /\ Continued \in Loose
      /\ Continued.rd => burst.rd
      /\ Continued.wr => burst.wr
  <2>0. burst \in Loose
    BY <1>1
  <2>1. CASE ~Served
    BY <2>0, <2>1 DEF Continued
  <2>2. CASE Served /\ burst.len = 0
    <3>1. Continued = [burst EXCEPT !.rd = FALSE, !.wr = FALSE]
      BY <2>2 DEF Continued
    <3>2. Continued \in Loose
      BY <2>0, <3>1
    <3>3. Continued.rd = FALSE /\ Continued.wr = FALSE
      BY <2>0, <3>1
    <3> QED
      BY <3>2, <3>3
  <2>3. CASE Served /\ burst.len # 0
    <3>1. Continued = [burst EXCEPT !.addr = @ + 1, !.len = @ - 1]
      BY <2>3 DEF Continued
    <3>2. \A a, l \in Int : [burst EXCEPT !.addr = a, !.len = l] \in Loose
      BY <2>0
    <3>3. burst.addr + 1 \in Int /\ burst.len - 1 \in Int
      BY <2>0
    <3>4. Continued \in Loose
      BY <3>1, <3>2, <3>3
    <3>5. Continued.rd = burst.rd /\ Continued.wr = burst.wr
      BY <2>0, <3>1
    <3> QED
      BY <3>4, <3>5
  <2> QED
    BY <2>1, <2>2, <2>3
<1>3. \A l \in 0 .. 255 : /\ (l + 255) % 256 \in 0 .. 255
                          /\ l # 0 => (l + 255) % 256 = l - 1
  OBVIOUS
<1>4. CASE AwTaken
  <2>1. /\ Started.wr /\ ~Started.rd /\ ~ArTaken /\ ~burst.rd /\ ~burst.wr
        /\ WTaken <=> Served
    BY <1>4, ServedIs, StartedIs DEF AwTaken, WriteActive
  <2>2. Started.len = aw.len /\ Started.addr = aw.addr /\ Started.id = aw.id
    BY <1>4, <2>1 DEF Started
  <2>3. Started.len \in 0 .. 255 /\ Started.addr \in Nat /\ Started.id \in Ids
    BY StartedIs
  <2>4. Len(wleft) > 1 <=> Started.len # 0
    <3>1. wleft = Upto(Started.addr, Started.len)
      BY <2>1, StartedIs
    <3>2. Started.len \in Nat
      BY <2>3
    <3>3. Len(wleft) = Started.len + 1
      BY <2>3, <3>1, <3>2, UptoIs
    <3> HIDE DEF Loose, Bursting
    <3> QED
      BY <3>2, <3>3
  <2>5. burst' = [Continued EXCEPT !.wr = ~WTaken \/ Len(wleft) > 1,
                     !.len = IF WTaken THEN (aw.len + 255) % 256 ELSE aw.len,
                     !.addr = IF WTaken THEN aw.addr + 1 ELSE aw.addr,
                     !.id = aw.id]
    BY <1>4 DEF Burst
  <2>6. /\ burst'.rd = Continued.rd
        /\ burst'.wr <=> ~WTaken \/ Len(wleft) > 1
        /\ burst'.len = IF WTaken THEN (aw.len + 255) % 256 ELSE aw.len
        /\ burst'.addr = IF WTaken THEN aw.addr + 1 ELSE aw.addr
        /\ burst'.id = aw.id
    BY <1>2, <2>5
  <2>8. /\ (IF WTaken THEN (aw.len + 255) % 256 ELSE aw.len) \in 0 .. 255
        /\ (IF WTaken THEN aw.addr + 1 ELSE aw.addr) \in Nat
    BY <1>3, <2>2, <2>3
  <2>9. burst' \in Bursting
    <3> DEFINE Made(c, w, l, a, i) ==
                 [c EXCEPT !.wr = w, !.len = l, !.addr = a, !.id = i]
    <3>1. \A c \in Loose : \A w \in BOOLEAN, l \in 0 .. 255, a \in Nat, i \in Ids :
             Made(c, w, l, a, i) \in Bursting
      OBVIOUS
    <3> DEFINE more == ~WTaken \/ Len(wleft) > 1
               len  == IF WTaken THEN (aw.len + 255) % 256 ELSE aw.len
               addr == IF WTaken THEN aw.addr + 1 ELSE aw.addr
    <3>2. aw.id \in Ids
      BY <2>2, <2>3
    <3>3. burst' = Made(Continued, more, len, addr, aw.id)
      BY <2>5
    <3>4. more \in BOOLEAN /\ len \in 0 .. 255 /\ addr \in Nat
      BY <2>8
    <3> HIDE DEF Loose, Bursting, Made, more, len, addr
    <3> QED
      BY <1>2, <3>1, <3>2, <3>3, <3>4
  <2>10. burst'.rd = FALSE /\ ~Started.rd
    BY <1>2, <2>1, <2>6
  <2>11. burst'.wr <=> Started.wr /\ ~(Served /\ Started.len = 0)
    BY <2>1, <2>4, <2>6
  <2>12. /\ burst'.id = Started.id
         /\ ~Served => burst'.len = Started.len /\ burst'.addr = Started.addr
    BY <2>1, <2>2, <2>6
  <2>13. Served /\ Started.len # 0 => /\ burst'.len = Started.len - 1
                                      /\ burst'.addr = Started.addr + 1
    <3>1. WTaken <=> Served
      BY <2>1
    <3>2. Started.len # 0 => (Started.len + 255) % 256 = Started.len - 1
      BY <1>3, <2>3
    <3> HIDE DEF Loose, Bursting
    <3> QED
      BY <2>2, <2>6, <3>1, <3>2
  <2> HIDE DEF Loose, Bursting
  <2> QED
    BY <2>9, <2>10, <2>11, <2>12, <2>13
<1>5. CASE ~AwTaken /\ ArTaken
  <2>1. /\ Started.rd /\ ~Started.wr /\ Served /\ ~burst.rd /\ ~burst.wr
    BY <1>5, ServedIs, StartedIs DEF ArTaken, ReadActive
  <2>2. Started.len = ar.len /\ Started.addr = ar.addr /\ Started.id = ar.id
    BY <1>5 DEF Started
  <2>3. Started.len \in 0 .. 255 /\ Started.addr \in Nat /\ Started.id \in Ids
    BY StartedIs
  <2>4. burst' = [Continued EXCEPT !.rd = ar.len # 0, !.len = (ar.len + 255) % 256,
                     !.addr = ar.addr + 1, !.id = ar.id]
    BY <1>5 DEF Burst
  <2>5. /\ burst'.wr = Continued.wr
        /\ burst'.rd <=> ar.len # 0
        /\ burst'.len = (ar.len + 255) % 256
        /\ burst'.addr = ar.addr + 1
        /\ burst'.id = ar.id
    BY <1>2, <2>4
  <2>7. (ar.len + 255) % 256 \in 0 .. 255 /\ ar.addr + 1 \in Nat
    BY <1>3, <2>2, <2>3
  <2>8. burst' \in Bursting
    <3> DEFINE Made(c, w, l, a, i) ==
                 [c EXCEPT !.rd = w, !.len = l, !.addr = a, !.id = i]
    <3>1. \A c \in Loose : \A w \in BOOLEAN, l \in 0 .. 255, a \in Nat, i \in Ids :
             Made(c, w, l, a, i) \in Bursting
      OBVIOUS
    <3> DEFINE more == ar.len # 0
               len  == (ar.len + 255) % 256
               addr == ar.addr + 1
    <3>2. ar.id \in Ids
      BY <2>2, <2>3
    <3>3. burst' = Made(Continued, more, len, addr, ar.id)
      BY <2>4
    <3>4. more \in BOOLEAN /\ len \in 0 .. 255 /\ addr \in Nat
      BY <2>7
    <3> HIDE DEF Loose, Bursting, Made, more, len, addr
    <3> QED
      BY <1>2, <3>1, <3>2, <3>3, <3>4
  <2> QED
    BY <1>2, <1>3, <2>1, <2>2, <2>3, <2>5, <2>8
<1>6. CASE ~AwTaken /\ ~ArTaken
  <2>1. Started = burst /\ burst' = Continued
    BY <1>6 DEF Started, Burst
  <2>2. Served => burst.rd \/ burst.wr
    BY <2>1, ServedIs
  <2>3. CASE ~Served
    BY <1>1, <2>1, <2>3 DEF Continued
  <2>4. CASE Served /\ burst.len = 0
    <3>1. burst' = [burst EXCEPT !.rd = FALSE, !.wr = FALSE]
      BY <2>1, <2>4 DEF Continued
    <3> QED
      BY <1>1, <2>1, <2>4, <3>1
  <2>5. CASE Served /\ burst.len # 0
    <3>1. burst' = [burst EXCEPT !.addr = @ + 1, !.len = @ - 1]
      BY <2>1, <2>5 DEF Continued
    <3>2. burst.len - 1 \in 0 .. 255 /\ burst.addr + 1 \in Nat
      BY <1>1, <2>5
    <3>3. /\ burst'.rd = burst.rd /\ burst'.wr = burst.wr /\ burst'.id = burst.id
          /\ burst'.len = burst.len - 1 /\ burst'.addr = burst.addr + 1
      BY <1>1, <3>1
    <3>4. burst' \in Bursting
      BY <1>1, <3>1, <3>2
    <3> HIDE DEF Loose, Bursting
    <3> QED
      BY <2>1, <2>5, <3>3, <3>4
  <2> QED
    BY <2>3, <2>4, <2>5
<1> QED
  BY <1>4, <1>5, <1>6

\* The queues after the oldest access is done, before a new one is made.
PopRequests == IF Pop THEN Tail(requests) ELSE requests
PopAnswers  == IF Pop THEN Tail(Answers) ELSE Answers
PopOwed     == IF Taken THEN Tail(owed) ELSE owed

\* The responses a command adds to those owed.
NewlyOwed ==
    (IF ArTaken THEN Beats(ar) ELSE <<>>)
      \o (IF AwTaken THEN <<[read |-> FALSE, last |-> TRUE, id |-> aw.id,
                             addr |-> aw.addr, len |-> aw.len]>>
          ELSE <<>>)

LEMMA PopIs ==
    /\ Pop => requests # <<>> /\ response # <<>>
    /\ Taken <=> Pop /\ Counts(Head(requests))
  BY DEF Pop, Taken, RValid, BValid, Responding, Counts

LEMMA AnswersIs ==
    State /\ ResponseFits =>
      /\ Answers \in Seq(Words) /\ Len(Answers) = Len(requests)
      /\ response # <<>> => Answers # <<>> /\ Head(Answers) = Head(response)
<1> SUFFICES ASSUME State, ResponseFits
             PROVE  /\ Answers \in Seq(Words) /\ Len(Answers) = Len(requests)
                    /\ response # <<>> => Answers # <<>> /\ Head(Answers) = Head(response)
  OBVIOUS
<1>1. response \in Seq(Words) /\ data_r \in Words
  BY DEF State, Registers
<1>2. CASE ext_ack_q
  <2>1. Answers = response \o <<data_r>>
    BY <1>2 DEF Answers
  <2>2. Len(requests) = Len(response) + 1
    BY <1>2 DEF ResponseFits
  <2>3. Answers \in Seq(Words) /\ Len(Answers) = Len(response) + 1
    BY <1>1, <2>1
  <2>4. response # <<>> => Answers # <<>> /\ Head(Answers) = Head(response)
    BY <1>1, <2>1
  <2> QED
    BY <2>2, <2>3, <2>4
<1>3. CASE ~ext_ack_q
  <2>1. Answers = response
    BY <1>1, <1>3, ConcatEmptySeq DEF Answers
  <2>2. Len(requests) = Len(response)
    BY <1>1, <1>3 DEF ResponseFits
  <2> QED
    BY <1>1, <2>1, <2>2
<1> QED
  BY <1>2, <1>3

\* Both fifos have room for what is pushed.
LEMMA QueuesNext ==
    ASSUME State, ResponseFits, Next
    PROVE  /\ requests' = IF Served THEN PopRequests \o <<Entry>> ELSE PopRequests
           /\ Answers' = IF Served THEN PopAnswers \o <<data_r'>> ELSE PopAnswers
           /\ PopRequests \in Seq(Item) /\ PopAnswers \in Seq(Words)
           /\ response' = PopAnswers
           /\ Len(PopAnswers) = Len(PopRequests)
           /\ ext_ack_q' = Served
           /\ Len(requests') <= FifoDepth
<1>1. /\ requests \in Seq(Item) /\ response \in Seq(Words) /\ data_r \in Words
      /\ Len(requests) <= FifoDepth /\ Len(requests) \in Nat /\ Len(response) \in Nat
  BY LenProperties DEF State, Registers
<1>2. /\ Answers \in Seq(Words) /\ Len(Answers) = Len(requests)
      /\ response # <<>> => Answers # <<>> /\ Head(Answers) = Head(response)
  BY AnswersIs
<1>3. Pop => requests # <<>> /\ response # <<>> /\ Answers # <<>>
  BY <1>2, PopIs
<1>4. PopRequests \in Seq(Item) /\ Len(PopRequests) = Len(requests) - (IF Pop THEN 1 ELSE 0)
  <2>1. CASE Pop
    <3>1. PopRequests = Tail(requests)
      BY <2>1 DEF PopRequests
    <3> QED
      BY <1>1, <1>3, <2>1, <3>1, HeadTailProperties
  <2>2. CASE ~Pop
    BY <1>1, <2>2 DEF PopRequests
  <2> QED
    BY <2>1, <2>2
<1>5. PopAnswers \in Seq(Words) /\ Len(PopAnswers) = Len(Answers) - (IF Pop THEN 1 ELSE 0)
  <2>1. CASE Pop
    <3>1. PopAnswers = Tail(Answers)
      BY <2>1 DEF PopAnswers
    <3> QED
      BY <1>2, <1>3, <2>1, <3>1, HeadTailProperties
  <2>2. CASE ~Pop
    <3>1. PopAnswers = Answers
      BY <2>2 DEF PopAnswers
    <3> QED
      BY <1>1, <1>2, <2>2, <3>1
  <2> QED
    BY <2>1, <2>2
<1>6. Served => Len(requests) # FifoDepth
  BY ServedIs DEF FifoAccept
<1>7. requests' = IF Served THEN PopRequests \o <<Entry>> ELSE PopRequests
  <2>1. requests' = PopRequests \o (IF Served THEN <<Entry>> ELSE <<>>)
    BY <1>6 DEF Next, Fifos, Queue, PopRequests
  <2>2. PopRequests \o <<>> = PopRequests
    BY <1>4, ConcatEmptySeq
  <2> QED
    BY <2>1, <2>2
<1>8. Len(requests') <= FifoDepth
  <2>1. CASE Served
    <3>1. Entry \in Item
      BY <2>1, EntryIs
    <3>2. Len(requests') = Len(PopRequests) + 1
      BY <1>4, <1>7, <2>1, <3>1
    <3>3. Len(PopRequests) \in Nat /\ Len(PopRequests) <= Len(requests)
      BY <1>1, <1>4
    <3>4. Len(requests) <= 3
      <4>1. \A l \in Nat : l <= 4 /\ l # 4 => l <= 3
        OBVIOUS
      <4>2. Len(requests) <= 4 /\ Len(requests) # 4 /\ Len(requests) \in Nat
        BY <1>1, <1>6, <2>1 DEF FifoDepth
      <4> QED
        BY <4>1, <4>2
    <3> QED
      BY <1>1, <3>2, <3>3, <3>4 DEF FifoDepth
  <2>2. CASE ~Served
    BY <1>1, <1>4, <1>7, <2>2 DEF FifoDepth
  <2> QED
    BY <2>1, <2>2
<1>9. response' = PopAnswers
  <2>1. ext_ack_q => Len(response) # FifoDepth
    BY <1>1 DEF ResponseFits, FifoDepth
  <2>2. response' = (IF Pop THEN Tail(response) ELSE response)
                      \o (IF ext_ack_q THEN <<data_r>> ELSE <<>>)
    BY <2>1 DEF Next, Fifos, Queue
  <2>3. (IF ext_ack_q THEN <<data_r>> ELSE <<>>) \in Seq(Words)
    BY <1>1
  <2>4. CASE Pop
    <3>1. Tail(response) \o (IF ext_ack_q THEN <<data_r>> ELSE <<>>) = Tail(Answers)
      BY <1>1, <1>3, <2>3, <2>4, TailOfConcat DEF Answers
    <3> QED
      BY <2>2, <2>4, <3>1 DEF PopAnswers
  <2>5. CASE ~Pop
    BY <2>2, <2>5 DEF PopAnswers, Answers
  <2> QED
    BY <2>4, <2>5
<1>10. ext_ack_q' = Served
  BY DEF Next, Tcm!Edge, Tcm!Acknowledge, Served, RamAccept
<1>11. Answers' = IF Served THEN PopAnswers \o <<data_r'>> ELSE PopAnswers
  <2>1. PopAnswers \o <<>> = PopAnswers
    BY <1>5, ConcatEmptySeq
  <2> QED
    BY <1>9, <1>10, <2>1 DEF Answers
<1>12. Len(PopAnswers) = Len(PopRequests)
  BY <1>2, <1>4, <1>5
<1> QED
  BY <1>4, <1>5, <1>7, <1>8, <1>9, <1>10, <1>11, <1>12

\* The step keeps the queues in step.
LEMMA FitsNext ==
    ASSUME State, ResponseFits, Next
    PROVE  ResponseFits'
<1>1. /\ requests' = IF Served THEN PopRequests \o <<Entry>> ELSE PopRequests
      /\ PopRequests \in Seq(Item) /\ PopAnswers \in Seq(Words)
      /\ response' = PopAnswers
      /\ Len(PopAnswers) = Len(PopRequests)
      /\ ext_ack_q' = Served
  BY QueuesNext
<1>2. CASE Served
  <2>1. Entry \in Item
    BY <1>2, EntryIs
  <2>2. Len(requests') = Len(PopRequests) + 1
    BY <1>1, <1>2, <2>1
  <2> QED
    BY <1>1, <1>2, <2>2 DEF ResponseFits
<1>3. CASE ~Served
  <2>1. Len(PopAnswers) \in Nat
    BY <1>1, LenProperties
  <2> QED
    BY <1>1, <1>3, <2>1 DEF ResponseFits
<1> QED
  BY <1>2, <1>3

\* Every access not made yet has its response among those owed.
LEMMA RestFits ==
    ASSUME NEW rs \in Seq(Item), NEW ans, NEW ow \in Seq(Owed), NEW rest \in Nat, NEW mem
    PROVE  InOrder(rs, ans, ow, rest, mem) => rest <= Len(ow)
<1>1. SUFFICES ASSUME NEW place \in [1 .. (Len(rs) + 1) -> Nat],
                      Placed(place, rs, ans, ow, rest, mem)
               PROVE  rest <= Len(ow)
  BY DEF InOrder
<1>2. Len(rs) \in Nat /\ Len(ow) \in Nat
  OBVIOUS
<1>3. 1 \in 1 .. (Len(rs) + 1) /\ Len(rs) + 1 \in 1 .. (Len(rs) + 1) /\ 1 <= Len(rs) + 1
  BY <1>2
<1>4. place[Len(rs) + 1] >= 1 /\ place[Len(rs) + 1] + rest = Len(ow) + 1
  BY <1>1, <1>3 DEF Placed
<1>5. place[Len(rs) + 1] \in Nat
  BY <1>3
<1>6. \A p, l \in Nat : p >= 1 /\ p + rest = l + 1 => rest <= l
  OBVIOUS
<1> QED
  BY <1>2, <1>4, <1>5, <1>6

LEMMA RestIs ==
    ASSUME State
    PROVE  Rest(burst) \in Nat /\ Rest(Started) \in Nat
<1>1. burst.len \in Nat /\ Started.len \in Nat
  <2>1. burst.len \in 0 .. 255 /\ Started.len \in 0 .. 255
    BY StartedIs DEF State, Registers, Bursting
  <2> QED
    BY <2>1
<1> QED
  BY <1>1 DEF Rest

\* The oldest access done, its response leads those owed.
LEMMA OrderPopped ==
    ASSUME PmemInv
    PROVE  /\ Pop => /\ owed # <<>>
                     /\ Meets(Head(requests), Head(response), Head(owed), ram)
           /\ PopOwed \in Seq(Owed)
           /\ InOrder(PopRequests, PopAnswers, PopOwed, Rest(burst), ram)
<1>1. /\ State /\ ResponseFits /\ InOrder(requests, Answers, owed, Rest(burst), ram)
      /\ requests \in Seq(Item) /\ owed \in Seq(Owed)
  BY DEF PmemInv, State, Registers
<1>2. /\ Answers \in Seq(Words) /\ Len(Answers) = Len(requests)
      /\ response # <<>> => Answers # <<>> /\ Head(Answers) = Head(response)
  BY <1>1, AnswersIs
<1>3. Rest(burst) \in Nat
  BY <1>1, RestIs
<1>4. CASE Pop
  <2>1. requests # <<>> /\ response # <<>>
    BY <1>4, PopIs
  <2>2. /\ owed # <<>> /\ Meets(Head(requests), Head(Answers), Head(owed), ram)
        /\ InOrder(Tail(requests), Tail(Answers),
                   IF Counts(Head(requests)) THEN Tail(owed) ELSE owed, Rest(burst), ram)
    BY <1>1, <1>2, <1>3, <2>1, OldestDone
  <2>3. PopOwed = IF Counts(Head(requests)) THEN Tail(owed) ELSE owed
    BY <1>4, PopIs DEF PopOwed
  <2>4. PopOwed \in Seq(Owed)
    BY <1>1, <2>2, <2>3, HeadTailProperties
  <2> QED
    BY <1>2, <1>4, <2>1, <2>2, <2>3, <2>4 DEF PopRequests, PopAnswers
<1>5. CASE ~Pop
  <2>1. ~Taken
    BY <1>5, PopIs
  <2> QED
    BY <1>1, <1>5, <2>1 DEF PopRequests, PopAnswers, PopOwed
<1> QED
  BY <1>4, <1>5

LEMMA BeatsIs ==
    ASSUME NEW c \in Commands
    PROVE  /\ Beats(c) \in Seq(Beat) /\ Len(Beats(c)) = c.len + 1
           /\ \A k \in 0 .. c.len :
                 Beats(c)[k + 1] = [read |-> TRUE, last |-> k = c.len, id |-> c.id,
                                    addr |-> c.addr + k]
<1>1. /\ c.len \in Nat /\ c.addr \in Nat /\ c.id \in Ids
      /\ c.addr + c.len \in Addrs
  BY CommandIs
<1>2. \A n \in 1 .. (c.len + 1) : c.addr + n - 1 \in Addrs
  <2>1. NumAddrs \in Nat
    BY PmemAssumption
  <2> QED
    BY <1>1, <2>1 DEF Addrs
<1>3. ASSUME NEW n \in 1 .. (c.len + 1)
      PROVE  [read |-> TRUE, last |-> n = c.len + 1, id |-> c.id,
              addr |-> c.addr + n - 1] \in Beat
  <2> DEFINE last == n = c.len + 1
             addr == c.addr + n - 1
  <2>1. last \in BOOLEAN
    OBVIOUS
  <2>2. addr \in Addrs
    BY <1>2
  <2> HIDE DEF last, addr
  <2>3. [read |-> TRUE, last |-> last, id |-> c.id, addr |-> addr] \in Beat
    BY <1>1, <2>1, <2>2 DEF Beat
  <2> QED
    BY <2>3 DEF last, addr
<1>4. Beats(c) \in [1 .. (c.len + 1) -> Beat]
  BY <1>3 DEF Beats
<1>5. c.len + 1 \in Nat
  BY <1>1
<1>6. Beats(c) \in Seq(Beat)
  BY <1>4, <1>5, SeqDef
<1>7. Len(Beats(c)) = c.len + 1
  BY <1>4, <1>5, <1>6, LenProperties
<1>8. ASSUME NEW k \in 0 .. c.len
      PROVE  Beats(c)[k + 1] = [read |-> TRUE, last |-> k = c.len, id |-> c.id,
                                addr |-> c.addr + k]
  <2>1. k + 1 \in 1 .. (c.len + 1)
    BY <1>1
  <2>2. Beats(c)[k + 1] = [read |-> TRUE, last |-> k + 1 = c.len + 1, id |-> c.id,
                           addr |-> c.addr + (k + 1) - 1]
    BY <2>1 DEF Beats
  <2>3. (k + 1 = c.len + 1) = (k = c.len) /\ c.addr + (k + 1) - 1 = c.addr + k
    BY <1>1
  <2> QED
    BY <2>2, <2>3
<1> QED
  BY <1>6, <1>7, <1>8

\* The responses to a command, and no others, are added.
LEMMA NewlyOwedIs ==
    ASSUME State
    PROVE  /\ NewlyOwed \in Seq(Owed)
           /\ ~ArTaken /\ ~AwTaken => NewlyOwed = <<>>
           /\ ArTaken \/ AwTaken =>
                 Len(NewlyOwed) = Rest(Started) /\ Rest(burst) = 0
           /\ ArTaken => \A k \in 0 .. Started.len :
                            NewlyOwed[k + 1] = BeatAt(Started, k)
           /\ AwTaken =>
                 NewlyOwed[1] = [read |-> FALSE, last |-> TRUE,
                                 id |-> Started.id, addr |-> Started.addr,
                                 len |-> Started.len]
<1>1. ArTaken => ~AwTaken
  BY ServedIs
<1>2. CASE ArTaken
  <2>1. ar \in Commands
    BY <1>2 DEF State, Registers, ArTaken, ArValid
  <2>2. /\ Beats(ar) \in Seq(Beat) /\ Len(Beats(ar)) = ar.len + 1
        /\ \A k \in 0 .. ar.len :
              Beats(ar)[k + 1] = [read |-> TRUE, last |-> k = ar.len, id |-> ar.id,
                                  addr |-> ar.addr + k]
    BY <2>1, BeatsIs
  <2>3. NewlyOwed = Beats(ar)
    BY <1>1, <1>2, <2>2, ConcatEmptySeq DEF NewlyOwed
  <2>4. Started = [rd |-> TRUE, wr |-> FALSE, len |-> ar.len, addr |-> ar.addr,
                   id |-> ar.id]
    BY <1>2 DEF Started
  <2>5. Rest(Started) = ar.len + 1
    BY <2>4 DEF Rest
  <2>6. Rest(burst) = 0
    BY <1>2 DEF Rest, ArTaken, ReadActive
  <2>7. NewlyOwed \in Seq(Owed)
    <3>1. Beat \subseteq Owed
      BY DEF Owed
    <3> QED
      BY <2>2, <2>3, <3>1, SeqMonotonic
  <2>8. \A k \in 0 .. Started.len : NewlyOwed[k + 1] = BeatAt(Started, k)
    BY <2>2, <2>3, <2>4 DEF BeatAt
  <2> QED
    BY <1>1, <1>2, <2>2, <2>3, <2>5, <2>6, <2>7, <2>8
<1>3. CASE AwTaken
  <2>1. aw \in Commands
    BY <1>3 DEF State, Registers, AwTaken, AwValid
  <2> DEFINE new == [read |-> FALSE, last |-> TRUE, id |-> aw.id, addr |-> aw.addr,
                     len |-> aw.len]
  <2>2. aw.id \in Ids /\ aw.addr \in Addrs /\ aw.len \in Addrs /\ aw.addr + aw.len \in Addrs
    BY <2>1, CommandIs
  <2>3. new \in Owed
    BY <2>2 DEF Owed, Response
  <2>4. NewlyOwed = <<new>>
    <3>1. <<new>> \in Seq({new})
      OBVIOUS
    <3>2. NewlyOwed = <<>> \o <<new>>
      BY <1>1, <1>3 DEF NewlyOwed
    <3> HIDE DEF new
    <3> QED
      BY <3>1, <3>2, ConcatEmptySeq
  <2>5. Started = [rd |-> FALSE, wr |-> TRUE, len |-> aw.len, addr |-> aw.addr,
                   id |-> aw.id]
    BY <1>1, <1>3 DEF Started
  <2>6. Rest(Started) = 1 /\ Rest(burst) = 0
    <3>1. Rest(Started) = 1
      BY <2>5 DEF Rest
    <3>2. Rest(burst) = 0
      BY <1>3 DEF Rest, AwTaken, WriteActive
    <3> QED
      BY <3>1, <3>2
  <2>7. new = [read |-> FALSE, last |-> TRUE, id |-> Started.id,
               addr |-> Started.addr, len |-> Started.len]
    BY <2>5
  <2> HIDE DEF new
  <2>8. NewlyOwed \in Seq(Owed) /\ Len(NewlyOwed) = 1 /\ NewlyOwed[1] = new
    BY <2>3, <2>4
  <2> QED
    BY <1>1, <1>3, <2>6, <2>7, <2>8
<1>4. CASE ~ArTaken /\ ~AwTaken
  <2>1. NewlyOwed = <<>>
    <3>1. <<>> \in Seq(Owed)
      OBVIOUS
    <3> QED
      BY <1>4, <3>1, ConcatEmptySeq DEF NewlyOwed
  <2> QED
    BY <1>4, <2>1
<1> QED
  BY <1>2, <1>3, <1>4

\* With the responses of the command that is taken, the accesses of the command
\* started have theirs at the end of those owed.
LEMMA OrderStarted ==
    ASSUME PmemInv, Next
    PROVE  /\ owed' \in Seq(Owed) /\ Len(owed') \in Nat
           /\ InOrder(PopRequests, PopAnswers, owed', Rest(Started), ram)
           /\ Remaining(Started, owed', ram)
<1>1. /\ State /\ ResponseFits /\ Remaining(burst, owed, ram)
      /\ owed \in Seq(Owed)
  BY DEF PmemInv, State, Registers
<1>2. /\ Pop => owed # <<>>
      /\ PopOwed \in Seq(Owed)
      /\ InOrder(PopRequests, PopAnswers, PopOwed, Rest(burst), ram)
  BY OrderPopped
<1>3. /\ NewlyOwed \in Seq(Owed)
      /\ ~ArTaken /\ ~AwTaken => NewlyOwed = <<>>
      /\ ArTaken \/ AwTaken => Len(NewlyOwed) = Rest(Started) /\ Rest(burst) = 0
      /\ ArTaken => \A k \in 0 .. Started.len : NewlyOwed[k + 1] = BeatAt(Started, k)
      /\ AwTaken => NewlyOwed[1] = [read |-> FALSE, last |-> TRUE, id |-> Started.id,
                                    addr |-> Started.addr, len |-> Started.len]
  BY <1>1, NewlyOwedIs
<1>4. owed' = PopOwed \o NewlyOwed
  <2> DEFINE reads  == IF ArTaken THEN Beats(ar) ELSE <<>>
             writes == IF AwTaken THEN <<[read |-> FALSE, last |-> TRUE, id |-> aw.id,
                                         addr |-> aw.addr, len |-> aw.len]>>
                       ELSE <<>>
             Any == Owed \cup {[read |-> FALSE, last |-> TRUE, id |-> aw.id,
                                addr |-> aw.addr, len |-> aw.len]}
  <2>1. owed' = (PopOwed \o reads) \o writes
    BY DEF Next, Host, PopOwed
  <2>2. reads \in Seq(Any)
    <3>1. CASE ArTaken
      <4>1. ar \in Commands
        BY <1>1, <3>1 DEF State, Registers, ArTaken, ArValid
      <4>2. Beats(ar) \in Seq(Beat)
        BY <4>1, BeatsIs
      <4>3. Beat \subseteq Any
        BY DEF Owed
      <4> HIDE DEF Any
      <4> QED
        BY <3>1, <4>2, <4>3, SeqMonotonic
    <3>2. CASE ~ArTaken
      BY <3>2
    <3> QED
      BY <3>1, <3>2
  <2>3. writes \in Seq(Any)
    <3> DEFINE new == [read |-> FALSE, last |-> TRUE, id |-> aw.id,
                       addr |-> aw.addr, len |-> aw.len]
    <3>1. new \in Any
      OBVIOUS
    <3> HIDE DEF new, Any
    <3>2. <<new>> \in Seq(Any) /\ <<>> \in Seq(Any)
      BY <3>1
    <3> QED
      BY <3>2 DEF new
  <2>4. PopOwed \in Seq(Any)
    <3>1. Owed \subseteq Any
      OBVIOUS
    <3> HIDE DEF Any
    <3> QED
      BY <1>2, <3>1, SeqMonotonic
  <2>5. NewlyOwed = reads \o writes
    BY DEF NewlyOwed
  <2> HIDE DEF reads, writes, Any
  <2> QED
    BY <2>1, <2>2, <2>3, <2>4, <2>5, ConcatAssociative
<1>5. /\ Rest(burst) \in Nat /\ Rest(Started) \in Nat
      /\ PopRequests \in Seq(Item)
  BY <1>1, RestIs, QueuesNext
<1>6. Rest(burst) <= Len(PopOwed)
  BY <1>2, <1>5, RestFits
<1>7. /\ owed' \in Seq(Owed) /\ Len(owed') = Len(PopOwed) + Len(NewlyOwed)
      /\ Len(PopOwed) \in Nat /\ Len(NewlyOwed) \in Nat
      /\ \A n \in 1 .. Len(NewlyOwed) : owed'[Len(PopOwed) + n] = NewlyOwed[n]
  BY <1>2, <1>3, <1>4
<1>8. Started.len \in Nat /\ Started.addr \in Nat /\ burst.len \in Nat
  <2>1. Started.len \in 0 .. 255 /\ burst.len \in 0 .. 255 /\ Started.addr \in Nat
    BY <1>1, StartedIs DEF State, Registers, Bursting
  <2> QED
    BY <2>1
<1>9. CASE ArTaken
  <2>1. Started.rd /\ ~Started.wr
    BY <1>1, <1>9, ServedIs, StartedIs
  <2>2. Rest(burst) = 0 /\ Len(NewlyOwed) = Rest(Started)
    BY <1>3, <1>9
  <2>3. InOrder(PopRequests, PopAnswers, owed', Rest(Started), ram)
    BY <1>2, <1>3, <1>4, <1>5, <2>2, ResponsesAdded
  <2>4. Rest(Started) = Started.len + 1
    BY <2>1 DEF Rest
  <2>5. ASSUME NEW k \in 0 .. Started.len
        PROVE  owed'[Len(owed') - Started.len + k] = BeatAt(Started, k)
    <3>1. k + 1 \in 1 .. Len(NewlyOwed)
      BY <1>8, <2>2, <2>4
    <3>2. Len(owed') - Started.len + k = Len(PopOwed) + (k + 1)
      BY <1>7, <1>8, <2>2, <2>4
    <3> QED
      BY <1>3, <1>7, <1>9, <3>1, <3>2
  <2>6. Remaining(Started, owed', ram)
    BY <2>1, <2>5 DEF Remaining
  <2> QED
    BY <1>7, <2>3, <2>6
<1>10. CASE AwTaken
  <2>1. Started.wr /\ ~Started.rd
    BY <1>1, <1>10, ServedIs, StartedIs
  <2>2. Rest(burst) = 0 /\ Len(NewlyOwed) = Rest(Started)
    BY <1>3, <1>10
  <2>3. InOrder(PopRequests, PopAnswers, owed', Rest(Started), ram)
    BY <1>2, <1>3, <1>4, <1>5, <2>2, ResponsesAdded
  <2>4. Len(NewlyOwed) = 1
    BY <2>1, <2>2 DEF Rest
  <2>5. owed'[Len(owed')] = [read |-> FALSE, last |-> TRUE, id |-> Started.id,
                             addr |-> Started.addr, len |-> Started.len]
    <3>1. 1 \in 1 .. Len(NewlyOwed) /\ Len(owed') = Len(PopOwed) + 1
      BY <1>7, <2>4
    <3>2. owed'[Len(PopOwed) + 1] = NewlyOwed[1]
      BY <1>7, <3>1
    <3> QED
      BY <1>3, <1>10, <3>1, <3>2
  <2>6. Remaining(Started, owed', ram)
    <3>1. Started.addr .. (Started.addr - 1) = {}
      BY <1>8
    <3> QED
      BY <1>8, <2>1, <2>5, <3>1 DEF Remaining
  <2> QED
    BY <1>7, <2>3, <2>6
<1>11. CASE ~ArTaken /\ ~AwTaken
  <2>1. Started = burst /\ NewlyOwed = <<>>
    BY <1>3, <1>11 DEF Started
  <2>2. owed' = PopOwed
    BY <1>2, <1>4, <2>1, ConcatEmptySeq
  <2>3. InOrder(PopRequests, PopAnswers, owed', Rest(Started), ram)
    BY <1>2, <2>1, <2>2
  <2> DEFINE cut == IF Taken THEN 1 ELSE 0
  <2>4. cut \in {0, 1}
    OBVIOUS
  <2>5. /\ Len(owed') = Len(owed) - cut /\ Len(owed') \in Nat
        /\ \A n \in 1 .. Len(owed') : owed'[n] = owed[n + cut]
    <3>1. CASE Taken
      <4>1. owed # <<>>
        BY <1>2, <3>1, PopIs
      <4>2. owed' = Tail(owed)
        BY <2>2, <3>1 DEF PopOwed
      <4> QED
        BY <1>1, <3>1, <4>1, <4>2
    <3>2. CASE ~Taken
      <4>1. owed' = owed
        BY <2>2, <3>2 DEF PopOwed
      <4>2. Len(owed) \in Nat
        BY <1>1
      <4>3. \A n \in Nat : n + 0 = n /\ n - 0 = n
        OBVIOUS
      <4>4. \A n \in 1 .. Len(owed) : n \in Nat
        BY <4>2
      <4> QED
        BY <3>2, <4>1, <4>2, <4>3, <4>4
    <3> QED
      BY <3>1, <3>2
  <2>6. Rest(burst) <= Len(owed')
    BY <1>6, <2>2
  <2> HIDE DEF cut
  <2>7. ASSUME burst.rd, NEW k \in 0 .. burst.len
        PROVE  owed'[Len(owed') - burst.len + k] = BeatAt(burst, k)
    <3>1. Rest(burst) = burst.len + 1
      BY <2>7 DEF Rest
    <3>2. Len(owed') - burst.len + k \in 1 .. Len(owed')
      BY <1>8, <2>5, <2>6, <3>1
    <3>3. (Len(owed') - burst.len + k) + cut = Len(owed) - burst.len + k
      <4>1. Len(owed) \in Nat
        BY <1>1
      <4> QED
        BY <1>8, <2>4, <2>5, <4>1
    <3>4. owed[Len(owed) - burst.len + k] = BeatAt(burst, k)
      BY <1>1, <2>7 DEF Remaining
    <3> QED
      BY <2>5, <3>2, <3>3, <3>4
  <2>8. burst.wr => owed'[Len(owed')] = owed[Len(owed)]
    <3>1. SUFFICES ASSUME burst.wr
                   PROVE  owed'[Len(owed')] = owed[Len(owed)]
      OBVIOUS
    <3>2. Rest(burst) = 1
      BY <1>1, <3>1 DEF Rest, State, Bursts
    <3>3. Len(owed') \in 1 .. Len(owed')
      BY <2>5, <2>6, <3>2
    <3>4. Len(owed') + cut = Len(owed)
      <4>1. Len(owed) \in Nat
        BY <1>1
      <4> QED
        BY <2>4, <2>5, <4>1
    <3> QED
      BY <2>5, <3>3, <3>4
  <2>9. Remaining(Started, owed', ram)
    BY <1>1, <2>1, <2>7, <2>8 DEF Remaining
  <2> QED
    BY <1>7, <2>3, <2>9
<1> QED
  BY <1>9, <1>10, <1>11

\* The port reads and writes at the address the burst has reached.
LEMMA MemoryNext ==
    ASSUME PmemInv, Next
    PROVE  /\ Served => Started.addr \in Addrs
           /\ Served /\ Started.rd => ram' = ram /\ data_r' = ram[Started.addr]
           /\ Served /\ Started.wr =>
                 ram' = [ram EXCEPT ![Started.addr] = Started.addr + NumAddrs]
           /\ ~Served => ram' = ram
           /\ data_r' \in Words
<1>1. State /\ ram \in [Addrs -> Words]
  BY DEF PmemInv, State, Registers
<1>2. NumAddrs \in 1 .. 256
  BY PmemAssumption
<1>3. Served => Started.addr \in Addrs
  <2>1. SUFFICES ASSUME Served
                 PROVE  Started.addr \in Addrs
    OBVIOUS
  <2>2. Started.addr + Started.len \in Addrs
    BY <1>1, <2>1, ServedIs, StartedIs
  <2>3. Started.addr \in Nat /\ Started.len \in 0 .. 255
    BY <1>1, StartedIs
  <2> QED
    BY <1>2, <2>2, <2>3 DEF Addrs
<1> DEFINE unread == CHOOSE d \in Words : TRUE
<1>4. /\ RamAccept =>
           /\ ram' = IF RamRequest.op = "STORE"
                     THEN [ram EXCEPT ![RamRequest.addr] = RamRequest.data] ELSE ram
           /\ data_r' = IF RamRequest.op = "LOAD" THEN ram[RamRequest.addr]
                        ELSE unread
      /\ ~RamAccept => ram' = ram /\ data_r' = unread
  <2> DEFINE user == Tcm!PortUser(Tcm!NoRequest, RamRequest)
  <2>1. /\ ram' = IF user.op = "STORE" THEN [ram EXCEPT ![user.addr] = user.data]
                 ELSE ram
        /\ data_r' = IF user.op = "LOAD" THEN ram[user.addr]
                    ELSE unread
    BY DEF Next, Tcm!Edge, Tcm!RamPort, Words
  <2>2. RamAccept => user = RamRequest
    BY DEF Tcm!PortUser, RamAccept
  <2>3. ~RamAccept => user.op = "NONE"
    BY DEF Tcm!PortUser, RamAccept, Tcm!NoRequest
  <2> HIDE DEF user, unread
  <2>4. CASE RamAccept
    BY <2>1, <2>2, <2>4
  <2>5. CASE ~RamAccept
    BY <2>1, <2>3, <2>5
  <2> QED
    BY <2>4, <2>5
<1>5. unread \in Words
  <2>1. 0 \in Words
    BY <1>2 DEF Words
  <2> QED
    BY <2>1
<1> HIDE DEF unread
<1>6. /\ Served => /\ RamAccept
                   /\ RamRequest.addr = Started.addr
                   /\ Started.rd \/ Started.wr
      /\ Served /\ Started.rd => RamRequest.op = "LOAD"
      /\ Served /\ Started.wr => /\ RamRequest.op = "STORE"
                                 /\ RamRequest.data = Started.addr + NumAddrs
      /\ ~Served /\ RamAccept => RamRequest.op = "NONE"
  BY <1>1, ServedIs DEF Served
<1>7. data_r' \in Words
  <2>1. CASE Served /\ Started.rd
    <3>1. data_r' = ram[Started.addr]
      BY <1>4, <1>6, <2>1
    <3> QED
      BY <1>1, <1>3, <2>1, <3>1
  <2>2. CASE ~(Served /\ Started.rd)
    BY <1>4, <1>5, <1>6, <2>2
  <2> QED
    BY <2>1, <2>2
<1> QED
  BY <1>3, <1>4, <1>6, <1>7

LEMMA HomeNext ==
    ASSUME PmemInv, Next
    PROVE  /\ ram' \in [Addrs -> Words] /\ Home'
           /\ \A a \in Addrs : ram[a] = a + NumAddrs => ram'[a] = a + NumAddrs
           /\ Served /\ Started.wr =>
                 ram'[Started.addr] = Started.addr + NumAddrs
<1>1. Home /\ ram \in [Addrs -> Words]
  BY DEF PmemInv, Registers
<1>2. CASE Served /\ Started.wr
  <2>1. /\ Started.addr \in Addrs
        /\ ram' = [ram EXCEPT ![Started.addr] = Started.addr + NumAddrs]
    BY <1>2, MemoryNext
  <2>2. Started.addr + NumAddrs \in Words
    BY <2>1, PmemAssumption DEF Addrs, Words
  <2> QED
    BY <1>1, <2>1, <2>2 DEF Home
<1>3. CASE ~(Served /\ Started.wr)
  <2>1. ram' = ram
    BY <1>3, MemoryNext, ServedIs DEF PmemInv, State
  <2> QED
    BY <1>1, <1>3, <2>1 DEF Home
<1> QED
  BY <1>2, <1>3

\* The access made meets the response that leads the rest of its command's.
LEMMA OrderNext ==
    PmemInv /\ Next =>
      /\ InOrder(requests, Answers, owed, Rest(burst), ram)'
      /\ Remaining(burst, owed, ram)'
<1> SUFFICES ASSUME PmemInv, Next
             PROVE  /\ InOrder(requests', Answers', owed', Rest(burst'), ram')
                    /\ Remaining(burst', owed', ram')
  BY DEF InOrder, Placed, Meets, Remaining, Rest, BeatAt, Counts
<1>1. State /\ ResponseFits /\ Burst
  BY DEF PmemInv, State, Next
<1>2. /\ owed' \in Seq(Owed) /\ Len(owed') \in Nat
      /\ InOrder(PopRequests, PopAnswers, owed', Rest(Started), ram)
      /\ Remaining(Started, owed', ram)
  BY OrderStarted
<1>3. /\ requests' = IF Served THEN PopRequests \o <<Entry>> ELSE PopRequests
      /\ Answers' = IF Served THEN PopAnswers \o <<data_r'>> ELSE PopAnswers
      /\ PopRequests \in Seq(Item) /\ PopAnswers \in Seq(Words)
      /\ Len(PopAnswers) = Len(PopRequests)
  BY <1>1, QueuesNext
<1>4. /\ \A a \in Addrs : ram[a] = a + NumAddrs => ram'[a] = a + NumAddrs
      /\ Served /\ Started.wr => ram'[Started.addr] = Started.addr + NumAddrs
      /\ Home
  BY HomeNext DEF PmemInv
<1>5. /\ Served => Started.addr \in Addrs
      /\ Served /\ Started.rd => data_r' = ram[Started.addr]
      /\ ~Served => ram' = ram
      /\ data_r' \in Words
  BY MemoryNext
<1>6. Rest(Started) \in Nat /\ Started.len \in Nat /\ Started.addr \in Nat
      /\ ~(Started.rd /\ Started.wr)
  <2>1. Started.len \in 0 .. 255 /\ Started.addr \in Nat /\ ~(Started.rd /\ Started.wr)
    BY <1>1, StartedIs
  <2> QED
    BY <1>1, <2>1, RestIs
<1>7. InOrder(PopRequests, PopAnswers, owed', Rest(Started), ram')
  BY <1>2, <1>3, <1>4, WritesStay
<1>8. Rest(Started) <= Len(owed')
  BY <1>2, <1>3, <1>6, RestFits
<1>9. /\ burst'.rd <=> Started.rd /\ ~(Served /\ Started.len = 0)
      /\ burst'.wr <=> Started.wr /\ ~(Served /\ Started.len = 0)
      /\ burst'.rd \/ burst'.wr =>
           /\ burst'.id = Started.id
           /\ ~Served => burst'.len = Started.len /\ burst'.addr = Started.addr
           /\ Served => /\ burst'.len = Started.len - 1
                        /\ burst'.addr = Started.addr + 1
  BY <1>1, BurstNext
<1>10. CASE ~Served
  <2>1. Rest(burst') = Rest(Started)
    BY <1>6, <1>9, <1>10 DEF Rest
  <2>2. Remaining(burst', owed', ram')
    BY <1>2, <1>5, <1>9, <1>10 DEF Remaining, BeatAt
  <2> QED
    BY <1>3, <1>7, <1>10, <2>1, <2>2
<1>11. CASE Served /\ Started.rd
  <2>1. /\ Entry \in Item /\ Entry.read /\ (Entry.last <=> Started.len = 0)
        /\ Entry.id = Started.id
    BY <1>1, <1>11, EntryIs
  <2>2. Rest(Started) = Started.len + 1
    BY <1>11 DEF Rest
  <2>3. owed'[Len(owed') + 1 - Rest(Started)] = BeatAt(Started, 0)
    <3>1. owed'[Len(owed') - Started.len + 0] = BeatAt(Started, 0)
      BY <1>2, <1>6, <1>11 DEF Remaining
    <3>2. Len(owed') - Started.len + 0 = Len(owed') + 1 - Rest(Started)
      BY <1>2, <1>6, <2>2
    <3> QED
      BY <3>1, <3>2
  <2>4. /\ BeatAt(Started, 0).read /\ BeatAt(Started, 0).id = Started.id
        /\ BeatAt(Started, 0).last <=> Started.len = 0
        /\ BeatAt(Started, 0).addr = Started.addr
    <3>1. /\ BeatAt(Started, 0).read /\ BeatAt(Started, 0).id = Started.id
          /\ BeatAt(Started, 0).addr = Started.addr + 0
      BY DEF BeatAt
    <3>2. BeatAt(Started, 0).last <=> 0 = Started.len
      BY DEF BeatAt
    <3>3. Started.addr + 0 = Started.addr
      BY <1>6
    <3> QED
      BY <3>1, <3>2, <3>3
  <2>5. Entry.last = BeatAt(Started, 0).last
    <3>1. Entry.last \in BOOLEAN
      BY <2>1 DEF Item
    <3>2. BeatAt(Started, 0).last = (0 = Started.len)
      BY DEF BeatAt
    <3> QED
      BY <2>1, <3>1, <3>2
  <2>6. data_r' \in {Started.addr, Started.addr + NumAddrs}
    BY <1>4, <1>5, <1>11 DEF Home
  <2>7. Meets(Entry, data_r', owed'[Len(owed') + 1 - Rest(Started)], ram')
    BY <2>1, <2>3, <2>4, <2>5, <2>6 DEF Meets
  <2>8. Counts(Entry)
    BY <2>1 DEF Counts
  <2>9. Rest(Started) \in Nat \ {0} /\ Rest(Started) - 1 = Rest(burst')
    BY <1>6, <1>9, <1>11, <2>2 DEF Rest
  <2>10. InOrder(requests', Answers', owed',
                 Rest(Started) - (IF Counts(Entry) THEN 1 ELSE 0), ram')
    BY <1>2, <1>3, <1>5, <1>7, <1>8, <1>11, <2>1, <2>7, <2>9, AccessMade
  <2>11. InOrder(requests', Answers', owed', Rest(burst'), ram')
    BY <2>8, <2>9, <2>10
  <2>12. ASSUME burst'.rd, NEW k \in 0 .. burst'.len
         PROVE  owed'[Len(owed') - burst'.len + k] = BeatAt(burst', k)
    <3>1. Started.len # 0 /\ burst'.len = Started.len - 1
          /\ burst'.addr = Started.addr + 1 /\ burst'.id = Started.id
      BY <1>9, <1>11, <2>12
    <3>2. k + 1 \in 0 .. Started.len /\ k \in Int
      BY <1>6, <3>1
    <3>3. owed'[Len(owed') - Started.len + (k + 1)] = BeatAt(Started, k + 1)
      BY <1>2, <1>11, <3>2 DEF Remaining
    <3>4. Len(owed') - Started.len + (k + 1) = Len(owed') - burst'.len + k
      BY <1>2, <1>6, <3>1, <3>2
    <3>5. (k + 1 = Started.len) = (k = burst'.len)
          /\ Started.addr + (k + 1) = burst'.addr + k
      BY <1>6, <3>1, <3>2
    <3>6. BeatAt(Started, k + 1) = BeatAt(burst', k)
      BY <3>1, <3>5 DEF BeatAt
    <3> QED
      BY <3>3, <3>4, <3>6
  <2>13. ~burst'.wr
    BY <1>6, <1>9, <1>11
  <2>14. Remaining(burst', owed', ram')
    BY <2>12, <2>13 DEF Remaining
  <2> QED
    BY <2>11, <2>14
<1>12. CASE Served /\ Started.wr
  <2> DEFINE o == owed'[Len(owed')]
  <2>1. /\ Entry \in Item /\ ~Entry.read /\ (Entry.last <=> Started.len = 0)
        /\ Entry.id = Started.id
    BY <1>1, <1>6, <1>12, EntryIs
  <2>2. Rest(Started) = 1
    BY <1>6, <1>12 DEF Rest
  <2>3. /\ ~o.read /\ o.id = Started.id
        /\ o.addr <= Started.addr /\ o.addr + o.len = Started.addr + Started.len
        /\ \A a \in o.addr .. (Started.addr - 1) : ram[a] = a + NumAddrs
    BY <1>2, <1>12 DEF Remaining
  <2>4. o \in Response
    <3>1. Len(owed') \in 1 .. Len(owed')
      BY <1>2, <1>8, <2>2
    <3>2. o \in Owed
      BY <1>2, <3>1, ElementOfSeq
    <3> HIDE DEF o
    <3> QED
      BY <2>3, <3>2 DEF Owed, Beat
  <2>5. o.addr \in Nat
    <3>1. o.addr \in Addrs
      BY <2>4 DEF Response
    <3> HIDE DEF o
    <3> QED
      BY <3>1, PmemAssumption DEF Addrs
  <2> HIDE DEF o
  <2>6. \A a \in o.addr .. Started.addr : ram'[a] = a + NumAddrs
    <3>1. SUFFICES ASSUME NEW a \in o.addr .. Started.addr
                   PROVE  ram'[a] = a + NumAddrs
      OBVIOUS
    <3>2. CASE a = Started.addr
      BY <1>4, <1>12, <3>2
    <3>3. CASE a # Started.addr
      <4>1. a \in o.addr .. (Started.addr - 1)
        BY <1>6, <2>5, <3>3
      <4>2. a \in Addrs
        BY <1>5, <1>12, <1>6, <2>5, PmemAssumption DEF Addrs
      <4> QED
        BY <1>4, <2>3, <4>1, <4>2
    <3> QED
      BY <3>2, <3>3
  <2>7. Meets(Entry, data_r', o, ram')
    <3>1. Entry.last => o.addr + o.len = Started.addr
      BY <1>6, <2>1, <2>3
    <3> QED
      BY <2>1, <2>3, <2>6, <3>1 DEF Meets
  <2>8. owed'[Len(owed') + 1 - Rest(Started)] = o
    <3>1. Len(owed') + 1 - Rest(Started) = Len(owed')
      BY <1>2, <2>2
    <3> QED
      BY <3>1 DEF o
  <2>9. Rest(Started) \in Nat \ {0}
    BY <2>2
  <2>10. InOrder(requests', Answers', owed',
                 Rest(Started) - (IF Counts(Entry) THEN 1 ELSE 0), ram')
    BY <1>2, <1>3, <1>5, <1>7, <1>8, <1>12, <2>1, <2>7, <2>8, <2>9, AccessMade
  <2>11. Rest(Started) - (IF Counts(Entry) THEN 1 ELSE 0) = Rest(burst')
    BY <1>6, <1>9, <1>12, <2>1, <2>2 DEF Rest, Counts
  <2>12. InOrder(requests', Answers', owed', Rest(burst'), ram')
    BY <2>10, <2>11
  <2>13. ~burst'.rd
    BY <1>6, <1>9, <1>12
  <2>14. ASSUME burst'.wr
         PROVE  /\ ~o.read /\ o.id = burst'.id
                /\ o.addr <= burst'.addr /\ o.addr + o.len = burst'.addr + burst'.len
                /\ \A a \in o.addr .. (burst'.addr - 1) : ram'[a] = a + NumAddrs
    <3>1. burst'.len = Started.len - 1 /\ burst'.addr = Started.addr + 1
          /\ burst'.id = Started.id
      BY <1>9, <1>12, <2>14
    <3>2. /\ burst'.addr + burst'.len = Started.addr + Started.len
          /\ burst'.addr - 1 = Started.addr /\ o.addr <= burst'.addr
      BY <1>6, <2>3, <2>5, <3>1
    <3> QED
      BY <2>3, <2>6, <3>1, <3>2
  <2>15. Remaining(burst', owed', ram')
    BY <2>13, <2>14 DEF Remaining, o
  <2> QED
    BY <2>12, <2>15
<1>13. Served => Started.rd \/ Started.wr
  BY <1>1, ServedIs
<1> QED
  BY <1>10, <1>11, <1>12, <1>13

-----------------------------------------------------------------------------
(***************************************************************************)
(* The invariant.                                                          *)
(***************************************************************************)
LEMMA RegistersNext == PmemInv /\ Next => Registers'
<1> SUFFICES ASSUME PmemInv, Next
             PROVE  Registers'
  OBVIOUS
<1>1. State /\ ResponseFits
  BY DEF PmemInv, State
<1>2. burst' \in Bursting
  BY <1>1, BurstNext DEF Next
<1>3. req_prio_q' \in BOOLEAN
  BY <1>1 DEF State, Registers, Next, Priority
<1>4. req_hold_rd_q' \in BOOLEAN /\ req_hold_wr_q' \in BOOLEAN
  <2>1. /\ (~RamAccept /\ (RamRequest.op = "LOAD" \/ req_hold_rd_q)) \in BOOLEAN
        /\ (~RamAccept /\ (RamRequest.op = "STORE" \/ req_hold_wr_q)) \in BOOLEAN
    OBVIOUS
  <2> QED
    BY <2>1, Zenon DEF Next, Holds
<1>5. requests' \in Seq(Item) /\ Len(requests') <= FifoDepth /\ response' \in Seq(Words)
  <2>1. /\ requests' = IF Served THEN PopRequests \o <<Entry>> ELSE PopRequests
        /\ PopRequests \in Seq(Item) /\ PopAnswers \in Seq(Words)
        /\ response' = PopAnswers
        /\ Len(requests') <= FifoDepth
    BY <1>1, QueuesNext
  <2>2. Served => Entry \in Item
    BY <1>1, EntryIs
  <2> QED
    BY <2>1, <2>2
<1>6. ram' \in [Addrs -> Words] /\ data_r' \in Words
  BY HomeNext, MemoryNext
<1>7. mem_d_accept_q' \in BOOLEAN
  <2>1. (RamRequest.op = "NONE") \in BOOLEAN
    OBVIOUS
  <2> QED
    BY <2>1, Zenon DEF Next, Tcm!Edge, Tcm!Turn
<1>8. ext_ack_q' \in BOOLEAN
  <2>1. Served \in BOOLEAN
    BY DEF Served
  <2> QED
    BY <1>1, <2>1, QueuesNext
<1>9. ar' \in Commands \cup {NoCommand} /\ aw' \in Commands \cup {NoCommand}
  BY <1>1 DEF State, Registers, Next, Host
<1>10. wvalid' \in BOOLEAN
  BY DEF Next, Host
<1>11. owed' \in Seq(Owed)
  BY OrderStarted
<1> QED
  BY <1>2, <1>3, <1>4, <1>5, <1>6, <1>7, <1>8, <1>9, <1>10, <1>11 DEF Registers

LEMMA HeldNext ==
    ASSUME PmemInv, Next
    PROVE  Held'
<1>1. State
  BY DEF PmemInv, State
<1>2. /\ req_hold_rd_q' <=> ~RamAccept /\ (RamRequest.op = "LOAD" \/ req_hold_rd_q)
      /\ req_hold_wr_q' <=> ~RamAccept /\ (RamRequest.op = "STORE" \/ req_hold_wr_q)
  BY DEF Next, Holds
<1>3. ~RamAccept => ~req_hold_rd_q /\ ~req_hold_wr_q
  BY <1>1 DEF State, Held
<1>4. RamRequest.op # "NONE" => RamAccept'
  BY DEF Next, Tcm!Edge, Tcm!Turn, RamAccept, Tcm!ExtAccept
<1> QED
  BY <1>2, <1>3, <1>4 DEF Held

\* What the host has yet to send follows the burst.
LEMMA BurstsNext ==
    ASSUME PmemInv, Next
    PROVE  Bursts'
<1>1. State
  BY DEF PmemInv, State
<1>2. /\ burst'.rd <=> Started.rd /\ ~(Served /\ Started.len = 0)
      /\ burst'.wr <=> Started.wr /\ ~(Served /\ Started.len = 0)
      /\ burst'.rd \/ burst'.wr =>
           /\ burst'.id = Started.id
           /\ ~Served => burst'.len = Started.len /\ burst'.addr = Started.addr
           /\ Served => /\ burst'.len = Started.len - 1
                        /\ burst'.addr = Started.addr + 1
  BY <1>1, BurstNext DEF Next
<1>3. /\ Started.len \in Nat /\ Started.addr \in Nat
      /\ ~(Started.rd /\ Started.wr)
      /\ Started.rd \/ Started.wr => Started.addr + Started.len \in Addrs
      /\ Started.wr => wleft = Upto(Started.addr, Started.len)
  <2>1. Started.len \in 0 .. 255
    BY <1>1, StartedIs
  <2> QED
    BY <1>1, <2>1, StartedIs
<1>4. /\ WTaken <=> Served /\ Started.wr
      /\ ArTaken => Started.rd
      /\ AwTaken => Started.wr
  BY <1>1, ServedIs
<1>5. ~(burst'.rd /\ burst'.wr)
  BY <1>2, <1>3
<1>6. burst'.rd \/ burst'.wr => burst'.addr + burst'.len \in Addrs
  <2>1. SUFFICES ASSUME burst'.rd \/ burst'.wr
                 PROVE  burst'.addr + burst'.len \in Addrs
    OBVIOUS
  <2>2. burst'.addr + burst'.len = Started.addr + Started.len
    BY <1>2, <1>3, <2>1
  <2> QED
    BY <1>2, <1>3, <2>1, <2>2
<1> DEFINE left == IF WTaken THEN Tail(wleft) ELSE wleft
\* The words left belong to the burst that goes on, or to the write offered.
<1>7. /\ burst'.wr => left = Upto(burst'.addr, burst'.len)
      /\ Started.wr /\ ~burst'.wr => left = <<>>
      /\ Started.wr => ~AwValid \/ AwTaken
      /\ ~Started.wr => left = IF AwValid THEN Upto(aw.addr, aw.len) ELSE <<>>
  <2>1. CASE Started.wr /\ Served
    <3>1. left = IF Started.len = 0 THEN <<>>
                 ELSE Upto(Started.addr + 1, Started.len - 1)
      BY <1>3, <1>4, <2>1, UptoTail
    <3>2. ~AwValid \/ AwTaken
      BY <1>1, <1>3, <2>1 DEF State, Bursts, Started
    <3> HIDE DEF left
    <3> QED
      BY <1>2, <2>1, <3>1, <3>2
  <2>2. CASE Started.wr /\ ~Served
    <3>1. left = Upto(Started.addr, Started.len)
      BY <1>3, <1>4, <2>2
    <3>2. ~AwValid \/ AwTaken
      BY <1>1, <1>3, <2>2 DEF State, Bursts, Started
    <3> HIDE DEF left
    <3> QED
      BY <1>2, <2>2, <3>1, <3>2
  <2>3. CASE ~Started.wr
    <3>1. ~burst.wr
      <4>1. ArTaken => ~burst.wr
        BY DEF ArTaken, ReadActive
      <4> QED
        BY <1>4, <2>3, <4>1 DEF Started
    <3>2. left = wleft
      BY <1>4, <2>3
    <3> HIDE DEF left
    <3> QED
      BY <1>1, <1>2, <2>3, <3>1, <3>2 DEF State, Bursts
  <2> QED
    BY <2>1, <2>2, <2>3
<1>8. \/ /\ aw' = IF AwTaken THEN NoCommand ELSE aw
         /\ wleft' = left
      \/ /\ left = <<>> /\ (AwValid => AwTaken)
         /\ \E c \in Commands : aw' = c /\ wleft' = Upto(c.addr, c.len)
  BY DEF Next, Host, Upto
<1> HIDE DEF left
<1>9. burst'.wr => Started.wr
  BY <1>2
<1>10. burst'.wr => left # <<>>
  <2>1. SUFFICES ASSUME burst'.wr
                 PROVE  left # <<>>
    OBVIOUS
  <2>2. /\ left = Upto(burst'.addr, burst'.len)
        /\ burst'.addr \in Nat /\ burst'.len \in Nat
    <3>1. burst' \in Bursting
      BY <1>1, BurstNext DEF Next
    <3>2. burst'.addr \in Nat /\ burst'.len \in 0 .. 255
      BY <3>1 DEF Bursting
    <3>3. burst'.len \in Nat
      BY <3>2
    <3> QED
      BY <1>7, <2>1, <3>2, <3>3
  <2> QED
    BY <2>2, UptoIs
<1> DEFINE follows ==
              /\ burst'.wr => ~AwValid' /\ wleft' = Upto(burst'.addr, burst'.len)
              /\ ~burst'.wr => wleft' = IF AwValid' THEN Upto(aw'.addr, aw'.len) ELSE <<>>
<1>11. ASSUME aw' = (IF AwTaken THEN NoCommand ELSE aw) /\ wleft' = left
       PROVE  follows
  <2>1. AwValid' <=> AwValid /\ ~AwTaken
    BY <1>11 DEF AwValid, AwTaken
  <2>2. burst'.wr => ~AwValid' /\ wleft' = Upto(burst'.addr, burst'.len)
    BY <1>7, <1>9, <1>11, <2>1
  <2>3. ~burst'.wr => wleft' = IF AwValid' THEN Upto(aw'.addr, aw'.len) ELSE <<>>
    <3>1. CASE Started.wr
      BY <1>7, <1>11, <2>1, <3>1
    <3>2. CASE ~Started.wr
      <4>1. ~AwTaken
        BY <1>4, <3>2
      <4> QED
        BY <1>7, <1>11, <2>1, <3>2, <4>1
    <3> QED
      BY <3>1, <3>2
  <2> QED
    BY <2>2, <2>3
<1>12. ASSUME left = <<>>,
              \E c \in Commands : aw' = c /\ wleft' = Upto(c.addr, c.len)
       PROVE  follows
  <2>1. ~burst'.wr
    BY <1>10, <1>12
  <2>2. AwValid' /\ wleft' = Upto(aw'.addr, aw'.len)
    BY <1>12, CommandIs DEF AwValid
  <2> QED
    BY <2>1, <2>2
<1>13. follows
  <2> HIDE DEF follows
  <2> QED
    BY <1>8, <1>11, <1>12
<1>14. wvalid' => wleft' # <<>>
  BY DEF Next, Host
<1> QED
  BY <1>5, <1>6, <1>13, <1>14 DEF Bursts

LEMMA PmemInit ==
    ASSUME Init
    PROVE  PmemInv
<1>1. NumAddrs \in 1 .. 256 /\ Commands # {}
  BY PmemAssumption
<1>2. burst \in Bursting /\ ~burst.rd /\ ~burst.wr
  <2>1. (CHOOSE i \in Ids : TRUE) \in Ids
    BY <1>1 DEF Ids
  <2> DEFINE id == CHOOSE i \in Ids : TRUE
  <2>2. burst = [rd |-> FALSE, wr |-> FALSE, len |-> 0, addr |-> 0, id |-> id]
    BY DEF Init
  <2> HIDE DEF id
  <2>3. id \in Ids
    BY <2>1 DEF id
  <2> QED
    BY <2>2, <2>3 DEF Bursting
<1>3. ram = [a \in Addrs |-> a] /\ data_r \in Words
  <2>1. ram = [a \in Addrs |-> a] /\ data_r = CHOOSE d \in Words : TRUE
    BY DEF Init, Tcm!Init, Words
  <2>2. 0 \in Words
    BY <1>1 DEF Words
  <2> QED
    BY <2>1, <2>2
<1>4. ram \in [Addrs -> Words]
  BY <1>1, <1>3 DEF Addrs, Words
<1>5. /\ requests = <<>> /\ response = <<>> /\ owed = <<>> /\ wleft = <<>>
      /\ ~ext_ack_q /\ ext_ack_q \in BOOLEAN /\ mem_d_accept_q \in BOOLEAN
      /\ ar = NoCommand /\ aw = NoCommand /\ wvalid = FALSE
      /\ req_prio_q = FALSE /\ req_hold_rd_q = FALSE /\ req_hold_wr_q = FALSE
  BY DEF Init, Tcm!Init
<1>6. /\ requests \in Seq(Item) /\ response \in Seq(Words) /\ owed \in Seq(Owed)
      /\ Len(requests) = 0 /\ Len(response) = 0 /\ Len(owed) = 0
  BY <1>5
<1>7. Registers
  <2>1. /\ req_prio_q \in BOOLEAN /\ req_hold_rd_q \in BOOLEAN
        /\ req_hold_wr_q \in BOOLEAN /\ wvalid \in BOOLEAN
    BY <1>5
  <2>2. Len(requests) <= FifoDepth
    BY <1>6 DEF FifoDepth
  <2>3. ar \in Commands \cup {NoCommand} /\ aw \in Commands \cup {NoCommand}
    BY <1>5
  <2> QED
    BY <1>2, <1>3, <1>4, <1>5, <1>6, <2>1, <2>2, <2>3, Zenon DEF Registers
<1>8. Held /\ Bursts /\ ResponseFits
  BY <1>2, <1>5, <1>6 DEF Held, Bursts, AwValid, ResponseFits
<1>9. Home
  BY <1>3 DEF Home
<1>10. Rest(burst) = 0 /\ Remaining(burst, owed, ram)
  BY <1>2 DEF Rest, Remaining
<1>11. Answers = <<>>
  <2>1. Answers = <<>> \o <<>>
    BY <1>5 DEF Answers
  <2>2. <<>> \in Seq(Words)
    OBVIOUS
  <2> QED
    BY <2>1, <2>2, ConcatEmptySeq
<1>12. InOrder(requests, Answers, owed, Rest(burst), ram)
  <2> DEFINE place == [n \in 1 .. 1 |-> 1]
  <2>1. place \in [1 .. (Len(requests) + 1) -> Nat]
    BY <1>6
  <2>2. Placed(place, requests, Answers, owed, 0, ram)
    BY <1>6 DEF Placed
  <2> QED
    BY <1>10, <2>1, <2>2 DEF InOrder
<1> QED
  BY <1>7, <1>8, <1>9, <1>10, <1>12 DEF PmemInv

LEMMA PmemNext ==
    ASSUME PmemInv, [Next]_vars
    PROVE  PmemInv'
<1>1. CASE Next
  <2>1. Registers' /\ Held' /\ Bursts'
    BY <1>1, RegistersNext, HeldNext, BurstsNext
  <2>2. Home'
    BY <1>1, HomeNext
  <2>3. ResponseFits'
    BY <1>1, FitsNext DEF PmemInv, State
  <2>4. InOrder(requests, Answers, owed, Rest(burst), ram)' /\ Remaining(burst, owed, ram)'
    BY <1>1, OrderNext
  <2> QED
    BY <2>1, <2>2, <2>3, <2>4 DEF PmemInv
<1>2. CASE UNCHANGED vars
  <2>1. /\ UNCHANGED converterVars /\ UNCHANGED tcmVars /\ UNCHANGED hostVars
    BY <1>2 DEF vars
  <2>2. UNCHANGED <<burst, req_prio_q, req_hold_rd_q, req_hold_wr_q, requests, response,
                    ram, data_r, mem_d_accept_q, ext_ack_q, ar, aw, wleft, wvalid, owed>>
    BY <2>1 DEF converterVars, tcmVars, hostVars
  <2>3. Registers'
    BY <2>2 DEF PmemInv, Registers
  <2>4. Held' /\ Bursts'
    BY <2>2 DEF PmemInv, Held, Bursts, RamAccept, Tcm!ExtAccept, AwValid
  <2>5. Home' /\ ResponseFits'
    BY <2>2 DEF PmemInv, Home, ResponseFits
  <2>6. Answers' = Answers
    BY <2>2 DEF Answers
  <2>7. InOrder(requests, Answers, owed, Rest(burst), ram)'
    <3>1. SUFFICES InOrder(requests', Answers', owed', Rest(burst'), ram')
      BY DEF InOrder, Placed, Meets, Rest, Counts
    <3> QED
      BY <2>2, <2>6 DEF PmemInv
  <2>8. Remaining(burst, owed, ram)'
    BY <2>2 DEF PmemInv, Remaining, BeatAt
  <2> QED
    BY <2>3, <2>4, <2>5, <2>7, <2>8 DEF PmemInv
<1> QED
  BY <1>1, <1>2

\* The registers and the words in flight agree, and every access has its place
\* among the responses owed, in every reachable state.
THEOREM Invariance == Spec => []PmemInv
<1>1. Init => PmemInv
  BY PmemInit
<1>2. PmemInv /\ [Next]_vars => PmemInv'
  BY PmemNext
<1> QED
  BY <1>1, <1>2, PTL DEF Spec

-----------------------------------------------------------------------------
(***************************************************************************)
(* What the slave promises.                                                *)
(***************************************************************************)
\* The fifo of responses, whose accept_o nobody looks at, always has room for
\* the RAM's answer, and its words are those for the oldest requests.
THEOREM Fits == Spec => []ResponseFits
<1>1. PmemInv => ResponseFits
  BY DEF PmemInv
<1> QED
  BY <1>1, Invariance, PTL

LEMMA OrderedState ==
    ASSUME PmemInv
    PROVE  AnswersInOrder
<1>1. owed \in Seq(Owed)
  BY DEF PmemInv, Registers
<1>2. owed # <<>> => Head(owed) \in Owed
  BY <1>1
\* Whether the host takes the response or not, the request is the oldest.
<1>3. Responding => /\ owed # <<>>
                    /\ Meets(Head(requests), Head(response), Head(owed), ram)
  <2>1. SUFFICES ASSUME Responding
                 PROVE  /\ owed # <<>>
                        /\ Meets(Head(requests), Head(response), Head(owed), ram)
    OBVIOUS
  <2>2. /\ State /\ ResponseFits /\ InOrder(requests, Answers, owed, Rest(burst), ram)
        /\ requests \in Seq(Item) /\ requests # <<>> /\ response # <<>>
    BY <2>1 DEF PmemInv, State, Registers, Responding
  <2>3. /\ Answers \in Seq(Words) /\ Len(Answers) = Len(requests)
        /\ Head(Answers) = Head(response)
    BY <2>2, AnswersIs
  <2>4. Rest(burst) \in Nat
    BY <2>2, RestIs
  <2> QED
    BY <1>1, <2>2, <2>3, <2>4, OldestDone
<1>4. ASSUME RValid
      PROVE  /\ owed # <<>> /\ Head(owed).read
             /\ Head(owed).id = Head(requests).id /\ Head(owed).last = Head(requests).last
             /\ Head(response) % NumAddrs = Head(owed).addr
  <2>1. /\ owed # <<>> /\ Head(owed).read
        /\ Head(owed).id = Head(requests).id /\ Head(owed).last = Head(requests).last
        /\ Head(response) \in {Head(owed).addr, Head(owed).addr + NumAddrs}
    BY <1>3, <1>4 DEF RValid, Meets
  <2>2. Head(owed).addr \in 0 .. (NumAddrs - 1)
    BY <1>2, <2>1 DEF Owed, Beat, Response, Addrs
  <2>3. NumAddrs \in 1 .. 256
    BY PmemAssumption
  <2>4. \A n \in 1 .. 256 : \A a \in 0 .. (n - 1) : a % n = a /\ (a + n) % n = a
    OBVIOUS
  <2> QED
    BY <2>1, <2>2, <2>3, <2>4
<1>5. ASSUME BValid
      PROVE  /\ owed # <<>> /\ ~Head(owed).read /\ Head(owed).id = Head(requests).id
             /\ \A a \in Head(owed).addr .. (Head(owed).addr + Head(owed).len) :
                   ram[a] = a + NumAddrs
  BY <1>3, <1>5 DEF BValid, Meets
<1> QED
  BY <1>4, <1>5 DEF AnswersInOrder

\* Every command gets its responses in order: each word of a read from its own
\* address, one response to a write when all its words are in memory.
THEOREM Ordered == Spec => []AnswersInOrder
<1>1. PmemInv => AnswersInOrder
  BY OrderedState
<1> QED
  BY <1>1, Invariance, PTL

\* No word is ever written to another word's address.
THEOREM AtHome == Spec => []WordsAtHome
<1>1. PmemInv => WordsAtHome
  <2>1. \A n \in 1 .. 256 : \A a \in 0 .. (n - 1) : a % n = a /\ (a + n) % n = a
    OBVIOUS
  <2> QED
    BY <2>1, PmemAssumption DEF PmemInv, Home, WordsAtHome, Addrs
<1> QED
  BY <1>1, Invariance, PTL

-----------------------------------------------------------------------------
LEMMA OneKindNext == State' => ~(ReadActive' /\ WriteActive')
  BY OneKind, PTL

\* A refused access keeps its place in the fifo, and everything stands still.
LEMMA RefusedStays ==
    PmemInv /\ Next /\ RamRequest.op # "NONE" /\ ~RamAccept =>
      /\ burst' = burst /\ FifoAccept'
      /\ ar' = ar \/ ~ArValid
      /\ WriteActive /\ wvalid => aw' = aw /\ wleft' = wleft /\ wvalid'
      /\ RamRequest.op = "LOAD" => req_hold_rd_q' /\ ~req_hold_wr_q'
      /\ RamRequest.op = "STORE" => req_hold_wr_q' /\ ~req_hold_rd_q'
<1> SUFFICES ASSUME PmemInv, Next, RamRequest.op # "NONE", ~RamAccept
             PROVE  /\ burst' = burst /\ FifoAccept'
                    /\ ar' = ar \/ ~ArValid
                    /\ WriteActive /\ wvalid => aw' = aw /\ wleft' = wleft /\ wvalid'
                    /\ RamRequest.op = "LOAD" => req_hold_rd_q' /\ ~req_hold_wr_q'
                    /\ RamRequest.op = "STORE" => req_hold_wr_q' /\ ~req_hold_rd_q'
  OBVIOUS
<1>1. State /\ ResponseFits /\ requests \in Seq(Item)
  BY DEF PmemInv, State, Registers
<1>2. ~Served /\ ~ArTaken /\ ~AwTaken /\ ~WTaken
  BY DEF Served, ArTaken, AwTaken, WTaken
<1>3. burst' = burst
  BY <1>2 DEF Next, Burst, Continued
<1>4. FifoAccept'
  <2>1. FifoAccept /\ Len(requests) <= FifoDepth /\ Len(requests) \in Nat
    BY <1>1, RequestIs, LenProperties DEF State, Registers, ReadActive, WriteActive
  <2>2. requests' = PopRequests
    BY <1>1, <1>2, QueuesNext
  <2>3. Len(PopRequests) = Len(requests) \/ Len(PopRequests) = Len(requests) - 1
    <3>1. Pop => requests # <<>>
      BY PopIs
    <3> QED
      BY <1>1, <3>1, HeadTailProperties DEF PopRequests
  <2>4. \A l \in Nat : l <= 4 /\ l # 4 => l # 4 /\ l - 1 # 4
    OBVIOUS
  <2> QED
    BY <2>1, <2>2, <2>3, <2>4 DEF FifoAccept, FifoDepth
<1>5. ar' = ar \/ ~ArValid
  BY <1>2 DEF Next, Host
<1>6. WriteActive /\ wvalid => aw' = aw /\ wleft' = wleft /\ wvalid'
  <2>1. wvalid => wleft # <<>>
    BY DEF PmemInv, Bursts
  <2>2. wvalid => aw' = aw /\ wleft' = wleft
    BY <1>2, <2>1 DEF Next, Host
  <2>3. wvalid => wvalid'
    BY <1>2, <2>1, <2>2 DEF Next, Host
  <2> QED
    BY <2>2, <2>3
<1>7. ~req_hold_rd_q /\ ~req_hold_wr_q
  BY DEF PmemInv, Held
<1> QED
  BY <1>3, <1>4, <1>5, <1>6, <1>7 DEF Next, Holds

LEMMA HoldsStep ==
    ASSUME PmemInv, PmemInv', Next, RamRequest.op # "NONE", ~RamAccept
    PROVE  RamRequest' = RamRequest
<1>1. ~(ReadActive /\ WriteActive) /\ ~(ReadActive' /\ WriteActive')
  BY OneKind, OneKindNext DEF PmemInv, State
<1>2. /\ burst' = burst /\ FifoAccept'
      /\ ar' = ar \/ ~ArValid
      /\ WriteActive /\ wvalid => aw' = aw /\ wleft' = wleft /\ wvalid'
      /\ RamRequest.op = "LOAD" => req_hold_rd_q' /\ ~req_hold_wr_q'
      /\ RamRequest.op = "STORE" => req_hold_wr_q' /\ ~req_hold_rd_q'
  BY RefusedStays
<1>3. CASE ReadActive
  <2>1. /\ RamRequest = [op |-> "LOAD", addr |-> RamAddr]
        /\ req_hold_rd_q' /\ ~req_hold_wr_q'
    BY <1>2, <1>3 DEF RamRequest
  <2>2. (ArValid \/ burst.rd) /\ ~burst.wr
    BY <1>3 DEF ReadActive
  <2>3. ArValid => ar' = ar /\ ArValid'
    BY <1>2 DEF ArValid
  <2>4. ReadActive'
    BY <1>2, <2>1, <2>2, <2>3 DEF ReadActive, ReadPrio
  <2>5. RamAddr' = RamAddr
    BY <1>1, <1>2, <1>3, <2>2, <2>3, <2>4 DEF RamAddr
  <2> QED
    BY <2>1, <2>4, <2>5 DEF RamRequest
<1>4. CASE ~ReadActive
  <2>1. WriteActive /\ wvalid /\ RamRequest.op = "STORE"
    BY <1>4, RequestIs DEF PmemInv, State
  <2>2. RamRequest = [op |-> "STORE", addr |-> RamAddr, data |-> Head(wleft) + NumAddrs]
    BY <1>4, <2>1 DEF RamRequest
  <2>3. /\ aw' = aw /\ wleft' = wleft /\ wvalid' /\ req_hold_wr_q'
        /\ AwValid' = AwValid
    BY <1>2, <2>1 DEF AwValid
  <2>4. (AwValid \/ burst.wr) /\ ~burst.rd
    BY <2>1 DEF WriteActive
  <2>5. WriteActive' /\ ~ReadActive'
    <3>1. WriteActive'
      BY <1>2, <2>3, <2>4 DEF WriteActive, WritePrio
    <3> QED
      BY <1>1, <3>1
  <2>6. RamAddr' = RamAddr
    BY <1>2, <2>1, <2>3, <2>5 DEF RamAddr
  <2> QED
    BY <2>2, <2>3, <2>5, <2>6 DEF RamRequest
<1> QED
  BY <1>3, <1>4

\* An access the RAM has refused is offered again, unchanged.
THEOREM Holding == Spec => HoldsRequest
<1>1. PmemInv /\ PmemInv' /\ [Next]_vars =>
         [RamRequest.op # "NONE" /\ ~RamAccept => RamRequest' = RamRequest]_vars
  BY HoldsStep
<1> QED
  BY <1>1, Invariance, PTL DEF Spec, HoldsRequest
=============================================================================

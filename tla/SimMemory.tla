----------------------------- MODULE SimMemory ------------------------------
(***************************************************************************)
(* The memories a program file can be loaded into:                         *)
(*   "sim"  the regions of the simulator (class Riscv and memory.h),       *)
(*   "rtl"  those of the cache test bench (tb_memory.h),                   *)
(*   "tcm"  the RAM of the core with tightly coupled memory.               *)
(* A list of regions searched from the front, as both classes search       *)
(* theirs, is a function on the addresses some region covers: a new region *)
(* adds the addresses that no older one has, as zeros, and the lookup      *)
(* finds the oldest.  regions counts them.  The unit is the word; the test *)
(* bench's two memories, for instructions and data, share their arrays and *)
(* are one here.                                                           *)
(***************************************************************************)
EXTENDS Integers, FiniteSets, FiniteSetsExt

CONSTANTS
    Line,          \* what the test bench rounds to, 32 bytes in the code
    SimRegions,    \* MAX_MEM_REGIONS, 16 in the code
    TbRegions,     \* TB_MEM_MAX_REGIONS, 10 in the code
    TcmSize        \* the RAM of the TCM, 64 KByte in the code

ASSUME MemoryAssumption ==
    /\ Line \in Nat \ {0} /\ TcmSize \in Nat \ {0}
    /\ SimRegions \in Nat /\ TbRegions \in Nat

Zero  == [op |-> "bad", flags |-> {}, ppn |-> 0]
Unset == [op |-> "bad", flags |-> {"unset"}, ppn |-> 0]   \* as powered up

NewMemory(kind) ==
    [words   |-> [a \in IF kind = "tcm" THEN 0 .. (TcmSize-1) ELSE {} |-> Unset],
     regions |-> 0]

Words(m) == DOMAIN m.words

\* Seeded fault: a region is cleared over the range asked for.
Extend_ClearsAll(m, new) ==
    [words   |-> [a \in Words(m) \cup new |->
                      IF a \in new THEN Zero ELSE m.words[a]],
     regions |-> m.regions + 1]

Extend(m, new) ==
    [words   |-> [a \in Words(m) \cup new |->
                      IF a \in Words(m) THEN m.words[a] ELSE Zero],
     regions |-> m.regions + 1]

Result(res, m) == [res |-> res, mem |-> m]

-----------------------------------------------------------------------------
(***************************************************************************)
(* Riscv::attach_memory, which resets the memory it attaches.              *)
(***************************************************************************)
SimCreate(m, base, size) ==
    IF m.regions < SimRegions
    THEN Result("ok", Extend(m, base .. (base + size - 1)))
    ELSE Result("full", m)

(***************************************************************************)
(* create_memory of the cache test bench: base and size are rounded, each  *)
(* for itself; then the front moves up and the end down to addresses that  *)
(* are free.  add_region looks for an overlap at both ends only and finds  *)
(* none.  Its answer is ignored: without a free slot get_array asserts.    *)
(***************************************************************************)
RoundDown(n) == n - (n % Line)
RoundUp(n)   == RoundDown(n + Line - 1)

FirstFree(m, a) == Min((a .. (a + Cardinality(Words(m)))) \ Words(m))
LastFree(m, a)  == Max((0 .. a) \ Words(m))

TbCreate(m, base, size) ==
    LET from == FirstFree(m, RoundDown(base))
        last == LastFree(m, from + RoundUp(size) - 1)
    IN  IF m.regions < TbRegions THEN Result("ok", Extend(m, from .. last))
                                 ELSE Result("assert", m)

(***************************************************************************)
(* create_memory of the TCM test bench only checks.                        *)
(***************************************************************************)
TcmCreate(m, base, size) ==
    Result(IF base + size < TcmSize THEN "ok" ELSE "assert", m)

Create(kind, m, base, size) ==
    CASE kind = "sim" -> SimCreate(m, base, size)
      [] kind = "rtl" -> TbCreate(m, base, size)
      [] kind = "tcm" -> TcmCreate(m, base, size)

-----------------------------------------------------------------------------
(***************************************************************************)
(* One round of elf_load, for a section with SHF_ALLOC and a size: memory  *)
(* for it, and its words when it has any in the file (SHT_PROGBITS).  A    *)
(* write that finds no region ends the program, with error() in the        *)
(* simulator and with an assertion in the test bench; the simulator always *)
(* has one.                                                                *)
(***************************************************************************)
Extent(s) == s.base .. (s.base + s.size - 1)

LoadSection(kind, m, s) ==
    LET c == Create(kind, m, s.base, s.size)
    IN  IF c.res # "ok" \/ ~s.progbits THEN c
        ELSE IF ~(Extent(s) \subseteq Words(c.mem)) THEN Result("assert", c.mem)
        ELSE Result("ok", [c.mem EXCEPT !.words =
                 [a \in Words(c.mem) |-> IF a \in Extent(s)
                                         THEN s.words[a - s.base + 1] ELSE @[a]]])
=============================================================================

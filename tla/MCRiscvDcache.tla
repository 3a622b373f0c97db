---------------------------- MODULE MCRiscvDcache ---------------------------
(* Three lines of three words that compete for one set of two ways, and   *)
(* one word past the cache.  The program stores to two of the lines, and   *)
(* reads the third, which drives the others out.  A line is longer than    *)
(* the fifo to the bus, so the bus can refuse a word of an eviction.       *)
EXTENDS RiscvDcache

Load(a)     == [op |-> "LOAD", addr |-> a, data |-> 0]
Store(a)    == [op |-> "STORE", addr |-> a, data |-> a + NumAddr]
Rewrite(a)  == [op |-> "STORE", addr |-> a, data |-> a]
CacheOp(op) == [op |-> op, addr |-> 0, data |-> 0]

MCOperations == {Load(0), Store(0), Store(4), Load(8), Load(9), Rewrite(9),
                 CacheOp("DFLUSH"), CacheOp("DWRITEBACK")}
=============================================================================

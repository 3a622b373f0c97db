------------------------------- MODULE Icache -------------------------------
(***************************************************************************)
(* The two-way instruction cache, top_cache_axi/src_v/icache.v, and the    *)
(* AXI read channel behind it.  A request that is accepted is looked up in *)
(* the next cycle; a miss refills a whole line and looks again.            *)
(*                                                                         *)
(* The tag and data memories are read first and have a registered output,  *)
(* and the tags are read at the address of the request in LOOKUP, of the   *)
(* flush counter in FLUSH and of the missing line otherwise.  The          *)
(* program's lines use the highest NumSets of the LastSet + 1 sets, so     *)
(* that a flush takes as long as it must.                                  *)
(*                                                                         *)
(* Every step is one rising clock edge.  The operators are parameterised   *)
(* by the wires of the cycle: the request (rd, at) and the flush pulse,    *)
(* both from riscv_fetch, and arready and the read beat, from the bus.     *)
(***************************************************************************)
EXTENDS Integers, FiniteSets

CONSTANTS
    NumPCs,     \* how many words of program there are
    LineWords,  \* words in a line: 8 in the code
    NumSets,    \* sets the program's lines use
    LastSet,    \* 255 in the code
    Responses   \* responses of the bus: "OK", "ERROR"

VARIABLES
    state_q,
    lookup_valid_q, lookup_addr_q,
    tags, tag_out,           \* icache_tag_ram, one for each way
    data, data_out,          \* icache_data_ram, one for each way
    data_write_q,            \* data_write_addr_q, its word in the line
    flush_addr_q, replace_way_q,
    axi_arvalid_q, axi_error_q,
    beats,                   \* the bus: beats still to come
    imem                     \* the bus: program memory

icacheVars == <<state_q, lookup_valid_q, lookup_addr_q, tags, tag_out, data,
                data_out, data_write_q, flush_addr_q, replace_way_q,
                axi_arvalid_q, axi_error_q, beats, imem>>

Ways  == {0, 1}
PCs   == 0 .. (NumPCs - 1)
Sets  == 0 .. LastSet
Lines == 0 .. (NumPCs \div LineWords - 1)

LineOf(a) == a \div LineWords
WordOf(a) == a % LineWords
SetOf(a)  == (LastSet + 1 - NumSets) + (LineOf(a) % NumSets)
TagOf(a)  == LineOf(a) \div NumSets
UsedSets  == {SetOf(a) : a \in PCs}
TagBits   == {TagOf(a) : a \in PCs}

Invalid == -1      \* a tag entry without its valid bit
Undef   == [at |-> 0, word |-> "UNDEF"]

-----------------------------------------------------------------------------
(***************************************************************************)
(* Wires                                                                   *)
(***************************************************************************)
Hit(way) == tag_out[way] # Invalid /\ tag_out[way] = TagOf(lookup_addr_q)
HitAny   == \E way \in Ways : Hit(way)
Miss     == state_q = "LOOKUP" /\ lookup_valid_q /\ ~HitAny

ReqValid  == state_q = "LOOKUP" /\ lookup_valid_q /\ HitAny
ReqAccept == state_q = "LOOKUP" /\ ~Miss
ReqInst   == IF Hit(1) /\ ~Hit(0) THEN data_out[1] ELSE data_out[0]
ReqError  == axi_error_q

\* A beat: one word of the line, the last one marked.
Beats    == {"NONE"} \cup IF beats = 0 THEN {} ELSE Responses
LastBeat(beat) == beat # "NONE" /\ beats = 1
ArValid  == Miss \/ axi_arvalid_q

TagAddr(at) ==
    CASE state_q = "FLUSH"  -> flush_addr_q
      [] state_q = "LOOKUP" -> SetOf(at)
      [] OTHER              -> SetOf(lookup_addr_q)

\* Seeded fault: the word refilled last is read, not the one asked for.
DataAddr_NoRelookup(at) ==
    IF state_q \in {"REFILL", "RELOOKUP"}
    THEN <<SetOf(lookup_addr_q), data_write_q>> ELSE <<SetOf(at), WordOf(at)>>

DataAddr(at) ==
    CASE state_q = "REFILL"   -> <<SetOf(lookup_addr_q), data_write_q>>
      [] state_q = "RELOOKUP" -> <<SetOf(lookup_addr_q), WordOf(lookup_addr_q)>>
      [] OTHER                -> <<SetOf(at), WordOf(at)>>

-----------------------------------------------------------------------------
(***************************************************************************)
(* Registers                                                               *)
(***************************************************************************)
\* The memories are not reset; the first flush clears the tags.
Init ==
    /\ state_q = "FLUSH"
    /\ lookup_valid_q = FALSE /\ lookup_addr_q = 0
    /\ \E t \in [Ways -> [UsedSets -> TagBits \cup {Invalid}]] :
          tags = [way \in Ways |-> [s \in Sets |->
                     IF s \in UsedSets THEN t[way][s] ELSE Invalid]]
    /\ tag_out = [way \in Ways |-> Invalid]
    /\ data = [way \in Ways |-> [a \in Sets \X (0 .. LineWords - 1) |-> Undef]]
    /\ data_out = [way \in Ways |-> Undef]
    /\ data_write_q = 0 /\ flush_addr_q = 0 /\ replace_way_q = 0
    /\ axi_arvalid_q = FALSE /\ axi_error_q = FALSE
    /\ beats = 0
    /\ imem = [a \in PCs |-> "OLD"]

\* Seeded fault: the flush stops before the last set.
State_ShortFlush(flush, beat) ==
    state_q' =
        CASE state_q = "FLUSH"  -> IF flush_addr_q + 1 = LastSet THEN "LOOKUP" ELSE "FLUSH"
          [] state_q = "LOOKUP" -> IF Miss THEN "REFILL"
                                   ELSE IF flush THEN "FLUSH" ELSE "LOOKUP"
          [] state_q = "REFILL" -> IF LastBeat(beat) THEN "RELOOKUP" ELSE "REFILL"
          [] state_q = "RELOOKUP" -> "LOOKUP"

State(flush, beat) ==
    state_q' =
        CASE state_q = "FLUSH"  -> IF flush_addr_q = LastSet THEN "LOOKUP" ELSE "FLUSH"
          [] state_q = "LOOKUP" -> IF Miss THEN "REFILL"
                                   ELSE IF flush THEN "FLUSH" ELSE "LOOKUP"
          [] state_q = "REFILL" -> IF LastBeat(beat) THEN "RELOOKUP" ELSE "REFILL"
          [] state_q = "RELOOKUP" -> "LOOKUP"

Lookup(rd, at) ==
    /\ lookup_valid_q' = ((rd /\ ReqAccept) \/ (lookup_valid_q /\ ~ReqValid))
    /\ lookup_addr_q' = IF rd /\ ReqAccept THEN at ELSE lookup_addr_q

TagWrite(way, beat) ==
    CASE state_q = "FLUSH" -> [tags[way] EXCEPT ![flush_addr_q] = Invalid]
      [] state_q = "REFILL" /\ LastBeat(beat) /\ replace_way_q = way ->
            [tags[way] EXCEPT ![SetOf(lookup_addr_q)] = TagOf(lookup_addr_q)]
      [] OTHER -> tags[way]

TagRams(at, beat) ==
    /\ tags' = [way \in Ways |-> TagWrite(way, beat)]
    /\ tag_out' = [way \in Ways |-> tags[way][TagAddr(at)]]

\* The word the bus returns for the next beat; an error returns anything.
BeatData(beat) ==
    LET a == LineOf(lookup_addr_q) * LineWords + (LineWords - beats)
    IN  IF beat = "OK" THEN [at |-> a, word |-> imem[a]] ELSE Undef

DataRams(at, beat) ==
    /\ data' = [way \in Ways |->
                  IF beat # "NONE" /\ replace_way_q = way
                  THEN [data[way] EXCEPT ![DataAddr(at)] = BeatData(beat)]
                  ELSE data[way]]
    /\ data_out' = [way \in Ways |-> data[way][DataAddr(at)]]
    /\ data_write_q' =
          IF Miss THEN 0
          ELSE IF state_q = "REFILL" /\ beat # "NONE"
               THEN (data_write_q + 1) % LineWords
               ELSE data_write_q

FlushCounter ==
    flush_addr_q' = IF state_q = "FLUSH" THEN (flush_addr_q + 1) % (LastSet + 1) ELSE 0

Replacement(beat) ==
    replace_way_q' = IF LastBeat(beat) THEN 1 - replace_way_q ELSE replace_way_q

Axi(arready, beat) ==
    /\ axi_arvalid_q' = (ArValid /\ ~arready)
    /\ axi_error_q' = (beat = "ERROR" \/ (axi_error_q /\ ~ReqValid))
    /\ beats' = IF ArValid /\ arready THEN LineWords
                ELSE IF beat = "NONE" THEN beats ELSE beats - 1

Edge(rd, at, flush, arready, beat) ==
    /\ State(flush, beat)
    /\ Lookup(rd, at)
    /\ TagRams(at, beat) /\ DataRams(at, beat)
    /\ FlushCounter /\ Replacement(beat)
    /\ Axi(arready, beat)
=============================================================================

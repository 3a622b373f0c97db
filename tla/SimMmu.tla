------------------------------- MODULE SimMmu -------------------------------
(***************************************************************************)
(* Address translation of the instruction set simulator                    *)
(* (src/isa_sim/riscv.cpp, built with CONFIG_MMU as its makefile does).    *)
(*                                                                         *)
(* The shape is that of riscv_isa.h with the index of a table two bits     *)
(* wide instead of ten: two levels, a page holds exactly one table, so an  *)
(* address is <<index, index, word of the page>>, 64 words in all.  mem is *)
(* a function on the addresses that the memory regions cover.  Words of    *)
(* memory are records; a page table entry has the fields flags and ppn,    *)
(* the permission bits and the frame.                                      *)
(***************************************************************************)
EXTENDS Integers

Entries == 4                         \* 1 << MMU_PTIDXBITS
Pages   == 0 .. (Entries * Entries - 1)
Addr    == 0 .. (Entries * Entries * Entries - 1)

PteFlags == {"V", "R", "W", "X", "U"}

PageOf(a) == a \div Entries
Bare      == -1                      \* satp without SATP_MODE

USER    == 0
SUPER   == 1
MACHINE == 3
SR_SUM  == 18

NoPte == [flags |-> {}, ppn |-> 0]

(***************************************************************************)
(* mmu_walk merges the low part of the page number into the frame of a     *)
(* superpage with |, not with +.                                           *)
(***************************************************************************)
Bit(n, b)    == (n \div 2 ^ b) % 2
OrIndex(p, n) == p - (p % Entries)
                 + (IF Bit(p, 0) + Bit(n, 0) > 0 THEN 1 ELSE 0)
                 + (IF Bit(p, 1) + Bit(n, 1) > 0 THEN 2 ELSE 0)

IsLeaf(w) == w.flags \cap {"R", "W", "X"} # {}

(***************************************************************************)
(* mmu_read_word and one round of the loop: the entry at index idx of the  *)
(* table in page base, NoPte when it cannot be read or is not present.     *)
(***************************************************************************)
Entry(mem, base, idx) ==
    LET a == base * Entries + idx
    IN  IF a \in DOMAIN mem /\ "V" \in mem[a].flags THEN mem[a] ELSE NoPte

(***************************************************************************)
(* mmu_walk.  NoPte stands for the value 0 of every way to find nothing.   *)
(* The tables of a run hold no pointer in the second level: the loop does  *)
(* not stop there (its counter is unsigned) and what it computes then is   *)
(* undefined.                                                              *)
(***************************************************************************)
Walk(mem, satp, va) ==
    LET top == Entry(mem, satp, PageOf(va) \div Entries)
        low == Entry(mem, top.ppn, PageOf(va) % Entries)
    IN  IF satp = Bare
        THEN [flags |-> {"V", "R", "W", "X"}, ppn |-> PageOf(va)]
        ELSE IF top = NoPte THEN NoPte
        ELSE IF IsLeaf(top)
             THEN [flags |-> top.flags,
                   ppn   |-> OrIndex(top.ppn, PageOf(va) % Entries)]
        ELSE low

(***************************************************************************)
(* What a leaf of the tables points at must be memory: mmu_walk ends the   *)
(* program when it is not.                                                 *)
(***************************************************************************)
LeadsNowhere(mem, satp, pte) ==
    satp # Bare /\ pte # NoPte /\ pte.ppn * Entries \notin DOMAIN mem

\* Seeded fault: the user may use the supervisor's pages.
Allowed_AnyPage(pte, priv, need) == need \in pte.flags

Allowed(pte, priv, need) ==
    /\ need \in pte.flags
    /\ priv = USER => "U" \in pte.flags

Reserved(pte) == "W" \in pte.flags /\ "R" \notin pte.flags

Ok(pte, va) == [res |-> "ok", pa |-> pte.ppn * Entries + (va % Entries)]
Fault       == [res |-> "fault", pa |-> 0]
Error       == [res |-> "error", pa |-> 0]   \* error(): the program ends
Untouched(a) == [res |-> "ok", pa |-> a]

mmu_i_translate(mem, satp, priv, va) ==
    LET pte == Walk(mem, satp, va)
    IN  IF priv > SUPER THEN Untouched(va)
        ELSE IF LeadsNowhere(mem, satp, pte) THEN Error
        ELSE IF Reserved(pte) THEN Fault
        ELSE IF priv = SUPER /\ "U" \in pte.flags THEN Error
        ELSE IF ~Allowed(pte, priv, "X") THEN Fault
        ELSE Ok(pte, va)

(***************************************************************************)
(* need is "W" for a store and "R" for a load.                             *)
(***************************************************************************)
mmu_d_translate(mem, satp, priv, msr, va, need) ==
    LET pte == Walk(mem, satp, va)
    IN  IF priv > SUPER THEN Untouched(va)
        ELSE IF LeadsNowhere(mem, satp, pte) THEN Error
        ELSE IF Reserved(pte) THEN Fault
        ELSE IF priv = SUPER /\ "U" \in pte.flags /\ SR_SUM \notin msr
             THEN Error
        ELSE IF ~Allowed(pte, priv, need) THEN Fault
        ELSE Ok(pte, va)
=============================================================================

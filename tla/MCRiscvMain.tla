----------------------------- MODULE MCRiscvMain ----------------------------
(***************************************************************************)
(* Small programs.  Every image boots in machine mode, sets up delegation, *)
(* interrupts, paging and mstatus, and leaves with mret for a body of a    *)
(* chosen instruction in a loop; page 5 holds the machine's handler, page  *)
(* 6 the supervisor's.  Pages 9 and 10 are the tables: pages 4 to 7 are    *)
(* mapped one by one, the data and the tables themselves by a superpage,   *)
(* the rest points outside memory.                                         *)
(***************************************************************************)
EXTENDS RiscvMain

MCTimeMod  == 5
MCCycleMod == 32

Op(o)         == [op |-> o, flags |-> {}, ppn |-> 0]
JumpTo(a)     == [op |-> "jump", flags |-> {}, ppn |-> 0, to |-> a]
LoadAt(a, ok) == [op |-> "load", flags |-> {}, ppn |-> 0, addr |-> a,
                  aligned |-> ok]
StoreAt(a, w) == [op |-> "store", flags |-> {}, ppn |-> 0, addr |-> a,
                  aligned |-> TRUE, data |-> w]
StoreHalf     == [StoreAt(34, Op("alu")) EXCEPT !.aligned = FALSE]
CsrOp(r, b, v, s, c) == [op |-> "csr", flags |-> {}, ppn |-> 0, csr |-> r,
                         bits |-> b, value |-> v, set |-> s, clr |-> c]
Csrrw(r, b) == CsrOp(r, b, 0, TRUE, TRUE)
Csrrs(r, b) == CsrOp(r, b, 0, TRUE, FALSE)
Csrrc(r, b) == CsrOp(r, b, 0, FALSE, TRUE)
Write(r, v) == CsrOp(r, {}, v, TRUE, TRUE)
Pte(f, p)   == [op |-> "bad", flags |-> f \cup {"V"}, ppn |-> p]

Boot(cfg) ==
    <<Write("mevec", 20), Write("sevec", 24),
      Csrrw("mideleg", cfg.ideleg), Csrrw("medeleg", cfg.edeleg),
      Csrrw("mie", {5, 7, 9, 11}), Write("satp", cfg.satp),
      Write("mepc", 16), Write("mtime", 4), Csrrw("mstatus", cfg.msr),
      Op("mret")>>

Word(cfg, a) ==
    CASE a \in 0 .. 9 -> Boot(cfg)[a + 1]
      [] a = 16 -> cfg.first
      [] a = 17 -> cfg.second
      [] a = 18 -> JumpTo(16)
      [] a = 20 -> Csrrc("mip", {5, 11})
      [] a = 21 -> Write("mepc", 17)
      [] a = 22 -> Op("mret")
      [] a = 24 -> Csrrc("sip", {5, 9})
      [] a = 25 -> cfg.super
      [] a = 26 -> Op("sret")
      [] a = 36 -> Pte({"X", "R"} \cup cfg.user, 4)
      [] a = 38 -> Pte({"X", "R"}, 6)
      [] a = 39 -> Pte(cfg.data, 8)
      [] a = 41 -> Pte({}, 9)
      [] a = 42 -> Pte(cfg.data \cup {"R"}, 8)
      [] a = 43 -> Pte({"X", "R", "W"}, 12)
      [] OTHER -> Op("bad")

Image(cfg) == <<[base |-> 0, size |-> 44, progbits |-> TRUE,
                  words |-> [n \in 1 .. 44 |-> Word(cfg, n - 1)]]>>

Irqs    == {{}, {5, 9}}
Calls   == {{}, {MCAUSE_ECALL_U, MCAUSE_PAGE_FAULT_INST,
                 MCAUSE_PAGE_FAULT_LOAD, MCAUSE_PAGE_FAULT_STORE}}
Paged   == {{MPIE}, {11, SPIE, MPIE}, {11, SIE, SR_SUM}}
Unpaged == {{11, SPIE}, {12}, {11, 12, MPIE}}
Traps   == {Op("alu"), Op("ecall"), Op("ebreak"), Op("sret"), Op("mret"),
            Op("bad"), Write("mtime", 3), Csrrs("mip", {9}),
            Csrrs("sie", {5, 9}), Csrrw("sstatus", {SIE}),
            Csrrw("mstatus", {MIE}), Csrrw("unknown", {}), Csrrw("exit", {})}
Moves   == {LoadAt(33, TRUE), LoadAt(33, FALSE), LoadAt(48, TRUE),
            LoadAt(28, TRUE), StoreHalf, StoreAt(48, Op("alu")),
            StoreAt(30, Op("alu")), StoreAt(34, Op("alu")), StoreAt(36, Pte({"X", "R", "W"}, 4)), JumpTo(44)}
PagedTo == {[data |-> {"R", "W", "U"}, user |-> {"U"}],
            [data |-> {"W"}, user |-> {"U"}],
            [data |-> {"R", "W"}, user |-> {}]}

Paging(i, c, m, f, g, p) ==
    Image([ideleg |-> i, edeleg |-> c, msr |-> m, satp |-> 10,
           first |-> f, second |-> g, super |-> Write("sepc", 17),
           data |-> p.data, user |-> p.user])

NoPaging(m, f) ==
    Image([ideleg |-> {5, 9}, edeleg |-> {MCAUSE_PAGE_FAULT_INST},
           msr |-> m, satp |-> Bare, first |-> f, second |-> Op("alu"),
           super |-> Op("ecall"), data |-> {}, user |-> {}])

UserPages == [data |-> {"R", "W", "U"}, user |-> {"U"}]
SuperPages == [data |-> {"R", "W"}, user |-> {}]

NoMemory == [base |-> 0, size |-> 0]

Run(kind, file, bps) ==
    [kind |-> kind, file |-> file, explicit |-> NoMemory, start |-> 0,
     stop_pc |-> Nowhere, max_cycles |-> Nowhere, breakpoints |-> bps]

(***************************************************************************)
(* An owner interrupts the programs with paging at any moment; the command *)
(* line program runs those without, and some with.                         *)
(***************************************************************************)
Owned ==
    {Run("api", Paging(i, c, {MPIE}, f, Op("alu"), UserPages), <<>>) :
        i \in Irqs, c \in Calls, f \in Traps}
    \cup {Run("api", Paging(i, c, {11, SPIE, MPIE}, f, Op("alu"), SuperPages), <<>>) :
        i \in Irqs, c \in Calls, f \in Traps}
    \cup {Run("api", Paging({5, 9}, c, m, f, Op("alu"), p), <<>>) :
        c \in Calls, m \in Paged, f \in Moves, p \in PagedTo}
    \cup {Run("api", NoPaging({11, SPIE}, f), <<17, 24, 17>>) : f \in Traps}

Limits == {<<Nowhere, Nowhere>>, <<17, Nowhere>>, <<0, Nowhere>>,
           <<Nowhere, 12>>, <<Nowhere, 0>>, <<20, 14>>}

Commanded ==
    {[Run("sim", NoPaging(m, f), <<>>) EXCEPT !.stop_pc = l[1],
                                              !.max_cycles = l[2]] :
        m \in Unpaged, f \in Traps \cup Moves, l \in Limits}
    \cup {Run("sim", Paging({5, 9}, c, {MPIE}, f, f, p), <<>>) :
        c \in Calls, f \in Moves, p \in PagedTo}

(***************************************************************************)
(* Files of up to three sections, in the order of their addresses or not,  *)
(* apart, adjacent, overlapping or one inside another, with and without    *)
(* contents, at addresses a multiple of Line or not, where the test bench  *)
(* can hold them; with memory of -b and -s below, above or across them.    *)
(***************************************************************************)
Text(b, n) == [w \in 1 .. n |-> [op |-> "alu", flags |-> {}, ppn |-> 256*b + 16*n + w]]
Sec(b, n, p) == [base |-> b, size |-> n, progbits |-> p, words |-> Text(b, n)]
Sections == {Sec(b, n, p) : b \in {0, 4, 6, 8}, n \in {2, 4, 7}, p \in BOOLEAN}
Explicits == {NoMemory, [base |-> 0, size |-> 9], [base |-> 7, size |-> 3]}

Files == {<<s>> : s \in Sections} \cup {<<s, t>> : s, t \in Sections}
           \cup {<<s, t, Sec(0, 12, TRUE)>> : s, t \in Sections}

Loads == {[Run(k, f, <<>>) EXCEPT !.explicit = e, !.max_cycles = 1] :
              k \in {"sim", "rtl", "tcm"}, f \in Files, e \in Explicits}

MCPrograms == Owned \cup Commanded \cup Loads

(***************************************************************************)
(* The programs above satisfy what the theorems ask of theirs.             *)
(***************************************************************************)
WordsOf(p) == UNION {{p.file[k].words[n] : n \in DOMAIN p.file[k].words} :
                         k \in DOMAIN p.file}

MCCode == {Zero, Unset, Op("alu"), Pte({"X", "R", "W"}, 4)}
            \cup UNION {WordsOf(p) : p \in MCPrograms}

ASSUME MCCodeAssumption ==
    Encoded(MCCode) /\ \A w \in MCCode : Numeric(w)
=============================================================================

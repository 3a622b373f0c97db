---------------------------- MODULE RiscvDivider ----------------------------
(***************************************************************************)
(* The out-of-pipe divide unit, core/riscv/riscv_divider.v: a restoring    *)
(* divider that retires one quotient bit per clock.  The register widths   *)
(* are a parameter.  MSB is the one-hot mask of the top bit (32'h80000000  *)
(* in the code) and OneHot the masks q_mask_q walks through; Modulus is    *)
(* two to the register width.                                              *)
(*                                                                         *)
(* Every step is one rising clock edge.  The issue stage may start an      *)
(* operation in any cycle, also while an older one is still iterating:     *)
(* riscv_issue does not mask div_opcode_valid_o with take_interrupt_i, so  *)
(* a division overtaken by an interrupt keeps running in the background.   *)
(*                                                                         *)
(* What the pipeline has a definition for as well is called Divide... here *)
(* (DivideInit, DivideNext, ...), so that a module can extend both.        *)
(***************************************************************************)
EXTENDS Integers, FiniteSets

CONSTANTS
    MSB,      \* q_mask_q of the first iteration
    OneHot    \* the values q_mask_q takes before it reaches zero

ASSUME MaskAssumption ==
    /\ OneHot \subseteq Nat \ {0} /\ IsFiniteSet(OneHot)
    /\ MSB \in OneHot
    /\ \A m \in OneHot : m # 1 => m % 2 = 0 /\ m \div 2 \in OneHot
    /\ \A m \in OneHot : m <= MSB
    /\ \A m, n \in OneHot : n < m => n <= m \div 2

VARIABLES
    div_busy_q, div_inst_q, invert_res_q, dividend_q, divisor_q, quotient_q,
    q_mask_q, valid_q, wb_result_q,
    req       \* history: the operation loaded last

unitVars == <<div_busy_q, div_inst_q, invert_res_q, dividend_q, divisor_q,
              quotient_q, q_mask_q>>
divideVars == <<unitVars, valid_q, wb_result_q, req>>

Modulus    == 2 * MSB
DivideWord == 0 .. (Modulus - 1)
DivideOps  == {"DIV", "DIVU", "REM", "REMU"}
NoReq      == [op |-> "NONE", a |-> 0, b |-> 0]
Request    == [op : DivideOps, a : DivideWord, b : DivideWord]

Neg(x)      == IF x = 0 THEN 0 ELSE Modulus - x
Negative(x) == x >= MSB
Signed(op)  == op \in {"DIV", "REM"}
Magnitude(op, x) == IF Signed(op) /\ Negative(x) THEN Neg(x) ELSE x

(***************************************************************************)
(* Registers                                                               *)
(***************************************************************************)
DivideInit ==
    /\ div_busy_q = FALSE /\ div_inst_q = FALSE /\ invert_res_q = FALSE
    /\ dividend_q = 0 /\ divisor_q = 0 /\ quotient_q = 0 /\ q_mask_q = 0
    /\ valid_q = FALSE /\ wb_result_q = 0
    /\ req = NoReq

\* Seeded fault: the last quotient bit is not waited for.
Complete_LastBit == div_busy_q /\ q_mask_q <= 1

Complete == div_busy_q /\ q_mask_q = 0

\* The sign of the result: the quotient of unlike signs (but never the
\* all-ones quotient of a division by zero), the remainder of a negative
\* dividend.
\* (Inverts_ByZero, a seeded fault, forgets the exception.)
Inverts_ByZero(op, a, b) ==
    \/ op = "DIV" /\ Negative(a) # Negative(b)
    \/ op = "REM" /\ Negative(a)

Inverts(op, a, b) ==
    \/ op = "DIV" /\ Negative(a) # Negative(b) /\ b # 0
    \/ op = "REM" /\ Negative(a)

Load(op, a, b) ==
    /\ div_busy_q' = TRUE
    /\ div_inst_q' = (op \in {"DIV", "DIVU"})
    /\ dividend_q' = Magnitude(op, a)
    /\ divisor_q' = Magnitude(op, b) * MSB
    /\ invert_res_q' = Inverts(op, a, b)
    /\ quotient_q' = 0
    /\ q_mask_q' = MSB
    /\ req' = [op |-> op, a |-> a, b |-> b]

\* quotient_q | q_mask_q for a one-hot mask.
SetBit(q, mask) == IF (q \div mask) % 2 = 1 THEN q ELSE q + mask

\* Seeded fault: an exact divisor is not subtracted.
Iterate_Strict ==
    /\ IF divisor_q < dividend_q
       THEN /\ dividend_q' = dividend_q - divisor_q
            /\ quotient_q' = SetBit(quotient_q, q_mask_q)
       ELSE UNCHANGED <<dividend_q, quotient_q>>
    /\ divisor_q' = divisor_q \div 2
    /\ q_mask_q' = q_mask_q \div 2
    /\ UNCHANGED <<div_busy_q, div_inst_q, invert_res_q, req>>

Iterate ==
    /\ IF divisor_q <= dividend_q
       THEN /\ dividend_q' = dividend_q - divisor_q
            /\ quotient_q' = SetBit(quotient_q, q_mask_q)
       ELSE UNCHANGED <<dividend_q, quotient_q>>
    /\ divisor_q' = divisor_q \div 2
    /\ q_mask_q' = q_mask_q \div 2
    /\ UNCHANGED <<div_busy_q, div_inst_q, invert_res_q, req>>

Result ==
    LET magnitude == IF div_inst_q THEN quotient_q ELSE dividend_q
    IN  IF invert_res_q THEN Neg(magnitude) ELSE magnitude

\* valid_q and wb_result_q are clocked by processes of their own: they
\* answer for the operation that completes in this cycle, whether or not a
\* new one is loaded over it at the same edge.
Answer ==
    /\ valid_q' = Complete
    /\ wb_result_q' = IF Complete THEN Result ELSE wb_result_q

Start(op, a, b) == Load(op, a, b) /\ Answer

Finish ==
    /\ Complete
    /\ div_busy_q' = FALSE
    /\ UNCHANGED <<div_inst_q, invert_res_q, dividend_q, divisor_q,
                   quotient_q, q_mask_q, req>>
    /\ Answer

Step == div_busy_q /\ ~Complete /\ Iterate /\ Answer

DivideIdle == ~div_busy_q /\ UNCHANGED <<unitVars, req>> /\ Answer

DivideNext ==
    \/ \E op \in DivideOps, a, b \in DivideWord : Start(op, a, b)
    \/ Finish
    \/ Step
    \/ DivideIdle

DivideSpec == DivideInit /\ [][DivideNext]_divideVars

-----------------------------------------------------------------------------
(***************************************************************************)
(* The instruction-set simulator's definition of the four operations       *)
(* (isa_sim/riscv.cpp): division truncates towards zero, the remainder     *)
(* takes the sign of the dividend, a zero divisor gives all ones and the   *)
(* dividend, and the one signed overflow wraps.                            *)
(***************************************************************************)
AsInt(x)  == IF Negative(x) THEN x - Modulus ELSE x
AbsInt(n) == IF n < 0 THEN -n ELSE n
ToWord(n) == n % Modulus

TruncDiv(m, n) == LET q == AbsInt(m) \div AbsInt(n)
                  IN  IF (m < 0) # (n < 0) THEN -q ELSE q
TruncRem(m, n) == m - TruncDiv(m, n) * n

IsaResult(r) ==
    CASE r.op = "NONE" -> 0
      [] r.op \in {"DIV", "DIVU"} /\ r.b = 0  -> Modulus - 1
      [] r.op \in {"REM", "REMU"} /\ r.b = 0  -> r.a
      [] r.op = "DIV"  /\ r.b # 0 -> ToWord(TruncDiv(AsInt(r.a), AsInt(r.b)))
      [] r.op = "REM"  /\ r.b # 0 -> ToWord(TruncRem(AsInt(r.a), AsInt(r.b)))
      [] r.op = "DIVU" /\ r.b # 0 -> r.a \div r.b
      [] r.op = "REMU" /\ r.b # 0 -> r.a % r.b

DivideTypeOK ==
    /\ div_busy_q \in BOOLEAN /\ div_inst_q \in BOOLEAN
    /\ invert_res_q \in BOOLEAN
    /\ dividend_q \in DivideWord /\ quotient_q \in DivideWord
    /\ wb_result_q \in DivideWord
    /\ divisor_q \in Nat
    /\ q_mask_q \in OneHot \cup {0}
    /\ valid_q \in BOOLEAN
    /\ req \in Request \cup {NoReq}

(***************************************************************************)
(* What riscv_divider.v writes back is what the simulator computes for the *)
(* operands of the operation that completes, for all four operations, zero *)
(* divisors and the signed overflow, and in every pattern of restarts,     *)
(* also when the next operation is loaded at the very edge at which the    *)
(* result is latched.                                                      *)
(***************************************************************************)
ResultIsIsa == [][valid_q' => wb_result_q' = IsaResult(req)]_divideVars

(***************************************************************************)
(* The restoring-division invariant behind it.  While the unit iterates    *)
(* for the operation loaded last, the quotient bits found so far and the   *)
(* partial remainder reconstruct the dividend, the partial remainder is    *)
(* below the next divisor to be tried, doubled, and no quotient bit at or  *)
(* below the mask is set, so that setting one adds it.                     *)
(***************************************************************************)
MagA == Magnitude(req.op, req.a)
MagB == Magnitude(req.op, req.b)

OwnOperation ==
    /\ req \in Request
    /\ div_inst_q = (req.op \in {"DIV", "DIVU"})
    /\ invert_res_q = Inverts(req.op, req.a, req.b)

PartialQuotient ==
    /\ quotient_q * MagB + dividend_q = MagA
    /\ MagB # 0 => IF q_mask_q = 0 THEN dividend_q < MagB
                                   ELSE dividend_q < 2 * divisor_q
    /\ MagB = 0 => quotient_q = IF q_mask_q = 0 THEN Modulus - 1
                                ELSE Modulus - 2 * q_mask_q

BitsBelowClear ==
    q_mask_q # 0 =>
        /\ divisor_q = MagB * q_mask_q
        /\ quotient_q % (2 * q_mask_q) = 0
        /\ quotient_q <= Modulus - 2 * q_mask_q

RestoringDivision ==
    IF div_busy_q THEN OwnOperation /\ PartialQuotient /\ BitsBelowClear
                  ELSE q_mask_q = 0

(***************************************************************************)
(* riscv_issue waits for writeback_div_valid_i by counting on nothing but  *)
(* the promise of DividerSpec: one answer, a fixed number of clocks after  *)
(* the start, for the operands of the last start.                          *)
(***************************************************************************)
IterationsLeft == Cardinality({m \in OneHot : m <= q_mask_q})

Abstract == INSTANCE DividerSpec WITH
    Steps <- Cardinality(OneHot), Results <- DivideWord,
    div_busy <- div_busy_q, div_left <- IterationsLeft,
    div_answer <- IsaResult(req), div_valid <- valid_q,
    div_value <- wb_result_q

ImplementsDividerSpec == Abstract!DivSpec
=============================================================================

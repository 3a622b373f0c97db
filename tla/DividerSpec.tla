---------------------------- MODULE DividerSpec ----------------------------
(***************************************************************************)
(* What the divide unit promises riscv_issue: a started operation is       *)
(* answered once, Steps + 2 clocks later, with the result for its own      *)
(* operands; starting another one abandons it.  core/riscv/riscv_divider.v *)
(* (module RiscvDivider) implements it, and RiscvPipe is built on it.      *)
(*                                                                         *)
(* The answer of an operation is determined when it starts; "left" counts  *)
(* the quotient bits still to be found.                                    *)
(***************************************************************************)
EXTENDS Integers

CONSTANTS
    Steps,      \* quotient bits, 32 in the code
    Results     \* the words a division can answer with

VARIABLES
    div_busy,    \* an operation is in progress
    div_left,    \* its remaining iterations
    div_answer,  \* its result
    div_valid,   \* writeback_valid_o
    div_value    \* writeback_value_o

divVars == <<div_busy, div_left, div_answer, div_valid, div_value>>

DivInit ==
    /\ div_busy = FALSE /\ div_left = 0 /\ div_answer = 0
    /\ div_valid = FALSE /\ div_value = 0

DivComplete == div_busy /\ div_left = 0

\* The answer is clocked out by itself, also when a new operation is
\* started at the same edge.
DivAnswer ==
    /\ div_valid' = DivComplete
    /\ div_value' = IF DivComplete THEN div_answer ELSE div_value

DivStart(result) ==
    /\ div_busy' = TRUE
    /\ div_left' = Steps
    /\ div_answer' = result
    /\ DivAnswer

DivRun ==
    /\ div_busy' = (div_busy /\ ~DivComplete)
    /\ div_left' = IF div_left > 0 THEN div_left - 1 ELSE 0
    /\ UNCHANGED div_answer
    /\ DivAnswer

DivNext == DivRun \/ \E result \in Results : DivStart(result)

DivSpec == DivInit /\ [][DivNext]_divVars
=============================================================================

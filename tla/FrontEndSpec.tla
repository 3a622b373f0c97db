---------------------------- MODULE FrontEndSpec ----------------------------
(***************************************************************************)
(* What the front end promises riscv_issue: an instruction is shown until  *)
(* it is accepted, unchanged; instructions are shown in order, each once,  *)
(* at any time; and after a branch request nothing is shown but what is    *)
(* found from its target on.  core/riscv/riscv_fetch.v and riscv_decode.v  *)
(* on the instruction cache (module RiscvFrontEnd) implement it, and       *)
(* RiscvPipe is built on it.                                               *)
(***************************************************************************)
EXTENDS Integers

CONSTANTS
    NumPCs,     \* how many instruction addresses there are
    Words,      \* what may be found at an address
    NoWord      \* shown while nothing is valid

VARIABLES
    front_valid,  \* fetch_valid_o
    front_pc,     \* the address shown, or the one to be shown next
    front_instr   \* the instruction shown

frontVars == <<front_valid, front_pc, front_instr>>

Following(a) == (a + 1) % NumPCs

Redirect(target) ==
    /\ front_valid' = FALSE
    /\ front_pc' = target
    /\ front_instr' = NoWord

Show(at) ==
    /\ front_pc' = at
    /\ \/ front_valid' = FALSE /\ front_instr' = NoWord
       \/ front_valid' = TRUE /\ front_instr' \in Words

\* One clock edge: "accept" is fetch_accept_o of riscv_issue, "branch" its
\* branch_request_o.
FrontEdge(accept, branch, target) ==
    IF branch THEN Redirect(target)
    ELSE IF ~front_valid THEN Show(front_pc)
    ELSE IF ~accept THEN UNCHANGED frontVars
    ELSE Show(Following(front_pc))
=============================================================================

--------------------------- MODULE RiscvTelemetry ---------------------------
(***************************************************************************)
(* The instruction counter of core/riscv/telemetry_counters.sv on the      *)
(* retire pulse of riscv_issue.v, beside the whole pipeline.  It wraps at  *)
(* 2^64 in the code, at NumCounts here.  committed is a history variable:  *)
(* what the simulator would have counted.                                  *)
(***************************************************************************)
EXTENDS RiscvPipe

CONSTANT NumCounts   \* how many values the counter has

ASSUME TelemetryAssumption == NumCounts \in Nat \ {0}

VARIABLES minstret, committed

Count(n, pulse) == (n + Bit(pulse)) % NumCounts

\* Seeded fault: the pulse is not masked by the stall that holds WB.
RetirePulse_Held == wb.valid /\ wb.exc = "NONE"

RetirePulse == wb.valid /\ ~PipeStall /\ wb.exc = "NONE"

\* The simulator retires an instruction unless it takes a trap for it.  MRET
\* and FENCE_I are left out although they complete: riscv_csr has them branch
\* in WB by an exception code, and the pulse is masked by all of those.
Completes ==
    LET op == e2.instr.op
    IN  /\ ~e2.intr
        /\ op \notin {"ECALL", "ILLEGAL", "FETCH_FAULT", "DFLUSH_DENIED",
                      "LOAD_MISALIGNED", "STORE_MISALIGNED", "MRET", "FENCE_I"}
        /\ op \in {"LOAD", "STORE"} => mem_ack # "ERROR"

CountInit == Init /\ minstret = 0 /\ committed = 0

Counter ==
    /\ minstret' = Count(minstret, RetirePulse)
    /\ committed' = Count(committed, Retires /\ Completes)

CountNext == Next /\ Counter

CountSpec == CountInit /\ [][CountNext]_<<vars, minstret, committed>> /\ Fairness

(***************************************************************************)
(* minstret counts "one per committed instruction"                         *)
(* (telemetry_counters.sv:10): it is behind by the instruction in WB only, *)
(* however long WB is held, and nothing that is squashed, trapped or       *)
(* replaced by an interrupt is counted.  MRET and FENCE_I are exceptions.  *)
(***************************************************************************)
CountsCommitted ==
    committed = Count(minstret, wb.valid /\ wb.exc = "NONE")
=============================================================================

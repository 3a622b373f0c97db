----------------------------- MODULE RiscvFetch -----------------------------
(***************************************************************************)
(* The fetch unit, core/riscv/riscv_fetch.v, with the optional register of *)
(* riscv_decode.v behind it.  It keeps one request in the instruction      *)
(* cache, buffers a branch until the cache takes a request, drops the      *)
(* answers of requests made before the branch, and holds an answer that is *)
(* not accepted in its skid buffer.                                        *)
(*                                                                         *)
(* Every step is one rising clock edge.  The operators are parameterised   *)
(* by the wires of the cycle: accept and the branch request from           *)
(* riscv_issue, and the wires of the cache (ic: accept, valid, what it     *)
(* shows).                                                                 *)
(***************************************************************************)
EXTENDS Integers

CONSTANTS
    NumPCs,
    DecodeStage   \* EXTRA_DECODE_STAGE

VARIABLES
    active_q,
    branch_q, branch_pc_q,    \* the branch not requested yet
    icache_fetch_q,           \* a request is in the cache
    pc_f_q, branch_d_q,       \* the address requested next; its answer's predecessor is dropped
    pc_d_q,                   \* the address requested last
    skid,                     \* skid_buffer_q and skid_valid_q
    decode                    \* buffer_q of riscv_decode

fetchVars == <<active_q, branch_q, branch_pc_q, icache_fetch_q, pc_f_q,
               branch_d_q, pc_d_q, skid, decode>>

Nothing == [valid |-> FALSE, pc |-> 0, instr |-> [at |-> 0, word |-> "UNDEF"],
            fault |-> FALSE]
Following(a) == (a + 1) % NumPCs

-----------------------------------------------------------------------------
(***************************************************************************)
(* Wires                                                                   *)
(***************************************************************************)
Busy(ic)          == icache_fetch_q /\ ~ic.valid
Stall(accept, ic) == ~accept \/ Busy(ic) \/ ~ic.accept
Rd(accept, ic)    == active_q /\ accept /\ ~Busy(ic)
Takes(accept, ic) == Rd(accept, ic) /\ ic.accept

\* Seeded fault: only the answer that comes with the branch is dropped.
Dropped_Once == branch_q
Dropped      == branch_q \/ branch_d_q

\* fetch_valid_o, fetch_pc_o, fetch_instr_o, fetch_fault_fetch_o
Fetched(ic) ==
    IF Dropped \/ ~(ic.valid \/ skid.valid) THEN Nothing
    ELSE IF skid.valid THEN skid
    ELSE [valid |-> TRUE, pc |-> pc_d_q, instr |-> ic.inst, fault |-> ic.error]

\* What riscv_decode shows riscv_issue.
Shown(ic) == IF DecodeStage THEN decode ELSE Fetched(ic)

-----------------------------------------------------------------------------
(***************************************************************************)
(* Registers                                                               *)
(***************************************************************************)
Init ==
    /\ active_q = FALSE
    /\ branch_q = FALSE /\ branch_pc_q = 0
    /\ icache_fetch_q = FALSE
    /\ pc_f_q = 0 /\ branch_d_q = FALSE /\ pc_d_q = 0
    /\ skid = Nothing /\ decode = Nothing

BranchBuffer(accept, branch, target, ic) ==
    IF branch THEN branch_q' = TRUE /\ branch_pc_q' = target
    ELSE IF Takes(accept, ic) THEN branch_q' = FALSE /\ branch_pc_q' = 0
    ELSE UNCHANGED <<branch_q, branch_pc_q>>

Active(accept, ic) ==
    active_q' = (active_q \/ (branch_q /\ ~Stall(accept, ic)))

\* Seeded fault: an answer that is not accepted keeps the unit busy.
RequestTracking_KeepsBusy(accept, ic) ==
    icache_fetch_q' = (Takes(accept, ic) \/ (icache_fetch_q /\ ~(ic.valid /\ accept)))

RequestTracking(accept, ic) ==
    icache_fetch_q' = (Takes(accept, ic) \/ (icache_fetch_q /\ ~ic.valid))

ProgramCounters(accept, ic) ==
    /\ IF Stall(accept, ic) THEN UNCHANGED <<pc_f_q, branch_d_q>>
       ELSE /\ pc_f_q' = IF branch_q THEN branch_pc_q ELSE Following(pc_f_q)
            /\ branch_d_q' = branch_q
    /\ pc_d_q' = IF Takes(accept, ic) THEN pc_f_q ELSE pc_d_q

SkidBuffer(accept, ic) ==
    skid' = IF Fetched(ic).valid /\ ~accept THEN Fetched(ic) ELSE Nothing

\* squash_decode_i is the branch request.
DecodeBuffer(accept, branch, ic) ==
    decode' = IF ~DecodeStage \/ branch THEN Nothing
              ELSE IF accept \/ ~decode.valid THEN Fetched(ic) ELSE decode

Edge(accept, branch, target, ic) ==
    /\ BranchBuffer(accept, branch, target, ic)
    /\ Active(accept, ic)
    /\ RequestTracking(accept, ic)
    /\ ProgramCounters(accept, ic)
    /\ SkidBuffer(accept, ic)
    /\ DecodeBuffer(accept, branch, ic)
=============================================================================

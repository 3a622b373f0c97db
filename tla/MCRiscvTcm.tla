----------------------------- MODULE MCRiscvTcm -----------------------------
(* One address behind each side of the mux, one for the host. *)
EXTENDS RiscvTcm
=============================================================================

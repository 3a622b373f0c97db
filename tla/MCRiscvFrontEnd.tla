-------------------------- MODULE MCRiscvFrontEnd --------------------------
(* The front end with lines of two words and one cache set in use. *)
EXTENDS RiscvFrontEnd
=============================================================================

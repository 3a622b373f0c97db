------------------------------ MODULE MCTcmPmem -----------------------------
(* Bursts of one and three words, told apart by their identifiers. *)
EXTENDS TcmPmem

MCCommands == {[addr |-> 0, len |-> 2, id |-> 0], [addr |-> 2, len |-> 0, id |-> 1]}

MCTwoWords == {[addr |-> 0, len |-> 1, id |-> 0]}
=============================================================================

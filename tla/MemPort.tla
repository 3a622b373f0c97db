------------------------------- MODULE MemPort ------------------------------
(***************************************************************************)
(* What a memory on the data port promises to the load/store unit: it      *)
(* answers every request it has accepted once, later, in the order in      *)
(* which it accepted them, with the word the earlier stores have left.     *)
(* Every step is one rising clock edge; ack and data are the answer given  *)
(* in the current cycle.                                                   *)
(***************************************************************************)
EXTENDS Integers, Sequences, SequencesExt

CONSTANTS
    Memory,     \* its addresses
    Words,
    Requests,   \* records with an op, an addr and a data
    Alone       \* operations it accepts only when it owes no answer

VARIABLES
    outst,   \* requests accepted, not yet answered
    word,    \* memory: a store is performed when it is answered
    ack,     \* "NONE", or how the oldest request is answered
    data     \* the word that comes with the answer to a load

Init ==
    /\ outst = <<>>
    /\ word \in [Memory -> Words]
    /\ ack = "NONE"
    /\ data \in Words

Left == IF ack = "NONE" THEN outst ELSE Tail(outst)

Performed ==
    IF ack = "OK" /\ Head(outst).op = "STORE"
    THEN [word EXCEPT ![Head(outst).addr] = Head(outst).data] ELSE word

Accepts ==
    /\ outst' # <<>> /\ Front(outst') = Left
    /\ Last(outst') \in Requests
    /\ Last(outst').op \in Alone => Left = <<>>

Next ==
    /\ outst' = Left \/ Accepts
    /\ word' = Performed
    /\ ack' \in IF outst' = <<>> THEN {"NONE"} ELSE {"NONE", "OK", "ERROR"}
    /\ data' \in IF ack' = "OK" /\ Head(outst').op = "LOAD"
                 THEN {word'[Head(outst').addr]} ELSE Words

Spec == Init /\ [][Next]_<<outst, word, ack, data>>
=============================================================================

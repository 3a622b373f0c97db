----------------------------- MODULE MCRiscvMmu -----------------------------
(* A first table with a pointer and a superpage, a second one with two     *)
(* pages of which one is not the user's; a rewrite moves the other page    *)
(* and makes it writable.  With the other root the page that was moved and *)
(* the superpage lie elsewhere, and the page that is not the user's is not *)
(* mapped.                                                                 *)
EXTENDS RiscvMmu, TLC

Pte(flags, page) == [flags |-> flags, ppn |-> page]

Before == (0 :> Pte({"V"}, 1)) @@ (1 :> Pte({"V", "R", "X", "U"}, 4))
            @@ (4 :> Pte({"V", "R", "X", "U"}, 8)) @@ (5 :> Pte({"V", "R", "W"}, 9))
            @@ (8 :> Pte({"V"}, 3)) @@ (9 :> Pte({"V", "R", "X", "U"}, 12))
            @@ (12 :> Pte({"V", "R", "X", "U"}, 11))
After  == [Before EXCEPT ![4] = Pte({"V", "R", "W", "U"}, 10)]

MCTables == {Before, After}
MCRoots  == {0, 2}
=============================================================================

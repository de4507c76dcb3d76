----------------------------- MODULE MCNsfSocket -----------------------------
(* Small instances of NsfSocket: two client tasks, each in an address space *)
(* of its own, and one local address.                                       *)
EXTENDS NsfSocket, TLC

CONSTANTS t1, t2, a1, a2

MCHome == [t \in Task |-> IF t = t1 THEN a1 ELSE a2]
(* The clients are interchangeable together with their address spaces.      *)
Swap == (t1 :> t2) @@ (t2 :> t1) @@ (a1 :> a2) @@ (a2 :> a1)
Same == [x \in {t1, t2, a1, a2} |-> x]
Symmetry == {Same, Swap}
==============================================================================

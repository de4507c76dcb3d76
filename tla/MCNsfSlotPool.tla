--------------------------- MODULE MCNsfSlotPool ---------------------------
(* TLC instances of NsfSlotPool: client address spaces are interchangeable. *)
EXTENDS NsfSlotPoolInv, TLC

CONSTANTS c1, c2, c3    \* client address spaces

Symmetry == Permutations(Clients)
=============================================================================

------------------------------ MODULE MCNsfTmr ------------------------------
(* Instance of NsfTmr for TLC.                                              *)
EXTENDS NsfTmr, TLC

CONSTANTS t1, t2, t3

(* 0 counts as 1; a timer of 2 ticks finds its place between 1 and 3.       *)
MCAsks == t1 :> {0, 2} @@ t2 :> {1, 3} @@ t3 :> {1, 3}
=============================================================================

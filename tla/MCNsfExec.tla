----------------------------- MODULE MCNsfExec -----------------------------
(* TLC instances of NsfExec.                                               *)
EXTENDS NsfExec, TLC

CONSTANTS a1, a2

(* One application calls twice, so that its block is used again.           *)
MCCalls == a1 :> 2 @@ a2 :> 1
=============================================================================

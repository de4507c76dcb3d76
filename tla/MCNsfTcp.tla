------------------------------ MODULE MCNsfTcp ------------------------------
(* TLC instances of NsfTcp: host 1 connects, host 2 listens.                *)
EXTENDS NsfTcpInv

(* The first control block is the client's pool, the others the server's.   *)
MCHostOf == [s \in Slot |-> IF s = 1 THEN 1 ELSE 2]
(* Sequence numbers that cross the wrap of the sequence space.               *)
MCIss == <<62, 30>>
MCThreeIss == <<62, 30, 10>>
(* How much each host's application sends.                                   *)
MCBytes == <<3, 0>>
MCNoBytes == <<0, 0>>
(* What each host's application uses SHUTDOWN for.                           *)
MCNoShuts == <<{}, {}>>
MCReaderShuts == <<{}, {"rd"}>>
MCShutsBoth == <<{"rdwr"}, {"rdwr"}>>
=============================================================================

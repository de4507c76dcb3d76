--------------------------- MODULE NsfReqQueueSpec ---------------------------
(***************************************************************************)
(* What the in-space request queue promises its callers: calls are taken in *)
(* the order in which they were queued, each of them once, and a call ends   *)
(* only after it was taken.                                                  *)
(***************************************************************************)
EXTENDS Sequences

CONSTANT Apps

VARIABLES
    queue,      \* callers whose requests wait, oldest first
    call        \* per caller: "none", "queued", or "taken" by the executive

svars == <<queue, call>>

SInit == queue = <<>> /\ call = [a \in Apps |-> "none"]

Ask(a) ==
    /\ call[a] = "none"
    /\ queue' = Append(queue, a)
    /\ call' = [call EXCEPT ![a] = "queued"]

(* A request is taken and held, or answered at once; either may answer       *)
(* others that were held.                                                    *)
Take(answered) ==
    /\ queue # <<>>
    /\ queue' = Tail(queue)
    /\ \A a \in answered : call[a] = "taken" \/ a = Head(queue)
    /\ call' = [a \in Apps |-> IF a \in answered THEN "none"
                               ELSE IF a = Head(queue) THEN "taken" ELSE call[a]]

Answer(answered) ==
    /\ \A a \in answered : call[a] = "taken"
    /\ call' = [a \in Apps |-> IF a \in answered THEN "none" ELSE call[a]]
    /\ UNCHANGED queue

SNext ==
    \/ \E a \in Apps : Ask(a)
    \/ \E answered \in SUBSET Apps : Take(answered) \/ Answer(answered)

SSpec == SInit /\ [][SNext]_svars
=============================================================================

---------------------------- MODULE NsfCallSpec ----------------------------
(***************************************************************************)
(* What the phase-2 transport promises to the callers of nsfreq_call       *)
(* (src/src/nsfreqc.c, src/include/nsfreqx.h): a request is carried out at *)
(* most once; OK means it was carried out and answered; a full pool        *)
(* ("nobuf") means it was not carried out; any other error leaves open     *)
(* whether it was.                                                          *)
(***************************************************************************)
EXTENDS Naturals

CONSTANTS Clients, MaxCalls

VARIABLES
    call,       \* per client: [n, open, rc], the current call
    taken,      \* per request: how often the executive began to carry it out
    answered    \* requests it has completed

vars == <<call, taken, answered>>

Requests == Clients \X (1 .. MaxCalls)
Outcomes == {"none", "ok", "nobuf", "corrupt"}
Current(c) == <<c, call[c].n>>

Init ==
    /\ call = [c \in Clients |-> [n |-> 0, open |-> FALSE, rc |-> "none"]]
    /\ taken = [r \in Requests |-> 0] /\ answered = {}

Issue(c) ==
    /\ ~call[c].open /\ call[c].n < MaxCalls
    /\ call' = [call EXCEPT ![c] = [n |-> @.n + 1, open |-> TRUE, rc |-> "none"]]
    /\ UNCHANGED <<taken, answered>>

(* A request is taken once, and only if it was issued; its caller may have *)
(* ended meanwhile.                                                          *)
Take(c, n) ==
    /\ n \in 1 .. call[c].n /\ taken[<<c, n>>] = 0
    /\ taken' = [taken EXCEPT ![<<c, n>>] = 1]
    /\ UNCHANGED <<call, answered>>

Answer(r) ==
    /\ taken[r] > 0 /\ r \notin answered
    /\ answered' = answered \cup {r}
    /\ UNCHANGED <<call, taken>>

Return(c, rc) ==
    /\ call[c].open
    /\ rc = "ok" => Current(c) \in answered
    /\ rc = "nobuf" => taken[Current(c)] = 0
    /\ call' = [call EXCEPT ![c] = [n |-> @.n, open |-> FALSE, rc |-> rc]]
    /\ UNCHANGED <<taken, answered>>

Next ==
    \/ \E c \in Clients : \/ Issue(c)
                          \/ \E n \in 1 .. MaxCalls : Take(c, n)
                          \/ \E rc \in Outcomes : Return(c, rc)
    \/ \E r \in Requests : Answer(r)

Spec == Init /\ [][Next]_vars
=============================================================================

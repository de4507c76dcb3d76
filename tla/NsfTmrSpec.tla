----------------------------- MODULE NsfTmrSpec -----------------------------
(***************************************************************************)
(* What the timer manager promises on its own clock: a started timer is    *)
(* due a number of ticks from now; time passes; no timer is passed over;   *)
(* the callback of a timer runs exactly when its deadline is reached, and   *)
(* only then; starting, restarting or cancelling one timer moves no other   *)
(* timer's deadline.                                                        *)
(***************************************************************************)
EXTENDS Integers

CONSTANTS Timers, MaxTicks, NONE

Off == -1       \* not started

VARIABLES
    togo,       \* ticks until each timer is due, or Off
    cb          \* the timer whose callback is running, or NONE

Running == {t \in Timers : togo[t] # Off}
Elapse(k) == [t \in Timers |-> IF t \in Running THEN togo[t] - k ELSE Off]

Init == togo = [t \in Timers |-> Off] /\ cb = NONE

Start(t) == \E n \in 1 .. MaxTicks :
    togo' = [togo EXCEPT ![t] = n] /\ UNCHANGED cb

Cancel(t) == togo' = [togo EXCEPT ![t] = Off] /\ UNCHANGED cb

(* Time passes, but not beyond the next deadline. *)
Pass == \E k \in 0 .. MaxTicks :
    /\ cb = NONE /\ \A t \in Running : k < togo[t]
    /\ togo' = Elapse(k) /\ UNCHANGED cb

Fire(t) ==
    /\ cb = NONE /\ t \in Running
    /\ \A u \in Running : togo[t] <= togo[u]
    /\ togo' = [Elapse(togo[t]) EXCEPT ![t] = Off] /\ cb' = t

Return == cb # NONE /\ cb' = NONE /\ UNCHANGED togo

Next == Pass \/ Return \/ \E t \in Timers : Start(t) \/ Cancel(t) \/ Fire(t)

Spec == Init /\ [][Next]_<<togo, cb>>
=============================================================================

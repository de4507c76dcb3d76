------------------------------- MODULE NsfTmr -------------------------------
(***************************************************************************)
(* The timer manager (src/src/nsftmr.c) over its STIMER seam               *)
(* (src/asm/nsfstim.asm): a delta queue of timers, one hardware interval    *)
(* armed for the head, an asynchronous exit that posts an ECB and re-arms   *)
(* itself, and the executive that serves the ECB.                           *)
(*                                                                         *)
(* Starts and cancels come from the event handlers and request drain of    *)
(* the executive between two wakes, and from timer callbacks.               *)
(***************************************************************************)
EXTENDS Integers, FiniteSets, SequencesExt

CONSTANTS
    Timers,         \* the TMR blocks embedded in their owners
    MaxTicks,       \* bound: longest interval asked for
    Asks,           \* bound: the intervals each timer is started with
    Moved,          \* timers restarted or cancelled while pending
    NONE            \* no callback is running

ASSUME TmrAssumption ==
    /\ Asks \in [Timers -> SUBSET (0 .. MaxTicks)]
    /\ MaxTicks \in Nat \ {0} /\ Moved \subseteq Timers /\ NONE \notin Timers

VARIABLES
    g_tmrq,     \* the queue: timers with their delta to the one before
    g_armed,    \* ticks the STIMER was armed for by the module
    hw,         \* ticks left in the running STIMER interval, 0 for none
    ival,       \* BINTVLW: the interval the exit re-arms
    ecb,        \* the timer ECB is posted
    pc,         \* "main", or "run": inside nsftmr_run
    remaining,  \* ticks nsftmr_run still has to consume
    cb,         \* the timer whose callback is running
    \* history: ticks asked for, ticks passed since (no more than asked for), and
    \* how much of the running interval had passed when the timer was queued,
    \* with the intervals a stray exit posted for
    asked, age, slack

hardware == <<hw, ival, ecb>>
history  == <<asked, age, slack>>
vars     == <<g_tmrq, g_armed, hardware, pc, remaining, cb, history>>

Queued(Q) == {Q[i].tmr : i \in DOMAIN Q}
Pending  == Queued(g_tmrq)

(* The deltas summed from the head: the deadline of the i-th entry on the  *)
(* queue's own clock.                                                       *)
Clock(Q) ==
    LET sum[k \in 0 .. Len(Q)] == IF k = 0 THEN 0 ELSE sum[k - 1] + Q[k].delta
    IN  sum
Due(Q, i) == Clock(Q)[i]
Index(Q, t) == CHOOSE i \in DOMAIN Q : Q[i].tmr = t

Init ==
    /\ g_tmrq = <<>> /\ g_armed = 0
    /\ hw = 0 /\ ival = 0 /\ ecb = FALSE
    /\ pc = "main" /\ remaining = 0 /\ cb = NONE
    /\ asked = [t \in Timers |-> 0] /\ age = asked /\ slack = asked

-----------------------------------------------------------------------------
(* tmr_arm: the exit of the interval being replaced may still be taken     *)
(* after NSFTMARM has cleared the ECB and before it issues STIMER.           *)
Arm(n) ==
    /\ g_armed' = n /\ hw' = n /\ ival' = n
    /\ ecb' \in {FALSE, hw = 1}

(* tmr_disarm: TTIMER CANCEL; the ECB keeps its state. *)
Disarm == g_armed' = 0 /\ hw' = 0 /\ UNCHANGED <<ival, ecb>>

KeepArmed == UNCHANGED <<g_armed, hardware>>

(* Mutant of Unlink: the successor is not handed the removed delta. *)
UnlinkDropsDelta(Q, t) ==
    IF t \in Queued(Q) THEN RemoveAt(Q, Index(Q, t)) ELSE Q

(* The queue without a timer: its delta goes to its successor. *)
Unlink(Q, t) ==
    IF t \notin Queued(Q) THEN Q
    ELSE LET i == Index(Q, t) IN
         RemoveAt(IF i = Len(Q) THEN Q
                  ELSE [Q EXCEPT ![i + 1].delta = @ + Q[i].delta], i)

(* The queue with a timer put behind every one due no later than it: the   *)
(* successor is now measured from it.                                        *)
Splice(Q, t, n) ==
    LET k == Cardinality({i \in DOMAIN Q : Due(Q, i) <= n})
        d == n - Due(Q, k)
    IN  InsertAt(IF k = Len(Q) THEN Q ELSE [Q EXCEPT ![k + 1].delta = @ - d],
                 k + 1, [tmr |-> t, delta |-> d])

Forget(t) ==
    /\ asked' = [asked EXCEPT ![t] = 0] /\ age' = [age EXCEPT ![t] = 0]
    /\ slack' = [slack EXCEPT ![t] = 0]

(* The part of the armed interval the queue's clock has not been told of. *)
Untold == IF pc = "run" \/ g_armed = 0 THEN 0
          ELSE IF ecb THEN g_armed ELSE g_armed - hw

(* An exit taken inside tmr_arm posts for an interval of n ticks that has  *)
(* only begun: whatever is queued may run early by that much more.           *)
Stray(early, want, n) ==
    IF ecb' THEN [u \in Timers |-> IF u \notin Queued(g_tmrq') THEN early[u]
                                   ELSE IF early[u] + n > want[u] THEN want[u]
                                   ELSE early[u] + n]
    ELSE early

(* The executive's mainline, or a callback, is where timers are started    *)
(* and cancelled.                                                            *)
InCode == pc = "main" \/ cb # NONE

(* A pending timer is cancelled first; a timer that becomes the head arms  *)
(* the STIMER from now.                                                      *)
tmr_start(t, ticks) ==
    LET n == IF ticks = 0 THEN 1 ELSE ticks
    IN
    /\ InCode /\ (t \in Pending => t \in Moved)
    /\ g_tmrq' = Splice(Unlink(g_tmrq, t), t, n)
    /\ IF g_tmrq'[1].tmr = t THEN Arm(n) ELSE KeepArmed
    /\ asked' = [asked EXCEPT ![t] = n] /\ age' = [age EXCEPT ![t] = 0]
    /\ slack' = IF g_tmrq'[1].tmr = t THEN Stray([slack EXCEPT ![t] = 0], asked', n)
                ELSE [slack EXCEPT ![t] = Untold]
    /\ UNCHANGED <<pc, remaining, cb>>

(* Mutant of tmr_cancel: cancelling the last timer leaves the STIMER armed. *)
CancelKeepsArmed(t) ==
    /\ InCode /\ t \in Pending \cap Moved
    /\ g_tmrq' = Unlink(g_tmrq, t)
    /\ KeepArmed
    /\ Forget(t)
    /\ UNCHANGED <<pc, remaining, cb>>

tmr_cancel(t) ==
    /\ InCode /\ t \in Pending \cap Moved
    /\ g_tmrq' = Unlink(g_tmrq, t)
    /\ IF g_tmrq' = <<>> THEN Disarm ELSE KeepArmed
    /\ Forget(t)
    /\ UNCHANGED <<pc, remaining, cb>>

-----------------------------------------------------------------------------
(* One tick of real time.  The exit that ends an interval posts the ECB    *)
(* and re-arms the same interval (NSFTMEXP).                                *)
Tick ==
    /\ hw > 0
    /\ IF hw > 1 THEN hw' = hw - 1 /\ UNCHANGED ecb
       ELSE hw' = ival /\ ecb' = TRUE
    /\ age' = [t \in Timers |-> IF t \in Pending /\ age[t] < asked[t]
                                THEN age[t] + 1 ELSE age[t]]
    /\ UNCHANGED <<g_tmrq, g_armed, ival, pc, remaining, cb, asked, slack>>

(* Mutant of nsftmr_wake: g_armed is taken after it was reset. *)
WakeForgetsArmed ==
    /\ pc = "main" /\ ecb
    /\ ecb' = FALSE
    /\ IF g_tmrq = <<>> THEN UNCHANGED <<pc, remaining>>
       ELSE pc' = "run" /\ remaining' = 0
    /\ UNCHANGED <<g_tmrq, g_armed, hw, ival, cb, history>>

(* The loop's timer step: the ECB is cleared and nsftmr_run started for    *)
(* the ticks that were armed; on an empty queue it returns at once.          *)
nsftmr_wake ==
    /\ pc = "main" /\ ecb
    /\ ecb' = FALSE
    /\ IF g_tmrq = <<>> THEN UNCHANGED <<pc, remaining>>
       ELSE pc' = "run" /\ remaining' = g_armed
    /\ UNCHANGED <<g_tmrq, g_armed, hw, ival, cb, history>>

(* Mutant of RunFire: the fired timer's delta goes to its successor as a   *)
(* cancelled one's does.                                                      *)
RunFireHandsBack ==
    /\ pc = "run" /\ cb = NONE /\ g_tmrq # <<>>
    /\ LET h == Head(g_tmrq) IN
        /\ h.delta <= remaining
        /\ remaining' = remaining - h.delta
        /\ g_tmrq' = Unlink(g_tmrq, h.tmr) /\ cb' = h.tmr /\ Forget(h.tmr)
    /\ KeepArmed /\ UNCHANGED pc

(* nsftmr_run: the head is due: it leaves the queue before its callback is *)
(* called.                                                                    *)
RunFire ==
    /\ pc = "run" /\ cb = NONE /\ g_tmrq # <<>>
    /\ LET h == Head(g_tmrq) IN
        /\ h.delta <= remaining
        /\ remaining' = remaining - h.delta
        /\ g_tmrq' = Tail(g_tmrq) /\ cb' = h.tmr /\ Forget(h.tmr)
    /\ KeepArmed /\ UNCHANGED pc

CallbackReturns ==
    /\ cb # NONE /\ cb' = NONE
    /\ KeepArmed /\ UNCHANGED <<g_tmrq, pc, remaining, history>>

(* ... nothing is due any more: the head keeps the rest and is armed. *)
RunEnd ==
    /\ pc = "run" /\ cb = NONE
    /\ \/ g_tmrq = <<>> /\ Disarm /\ UNCHANGED <<g_tmrq, slack>>
       \/ /\ g_tmrq # <<>> /\ Head(g_tmrq).delta > remaining
          /\ g_tmrq' = [g_tmrq EXCEPT ![1].delta = @ - remaining]
          /\ Arm(Head(g_tmrq').delta)
          /\ slack' = Stray(slack, asked, Head(g_tmrq').delta)
    /\ pc' = "main" /\ remaining' = 0
    /\ UNCHANGED <<cb, asked, age>>

Run == RunFire \/ CallbackReturns \/ RunEnd

Next ==
    \/ \E t \in Timers : tmr_cancel(t) \/ \E n \in Asks[t] : tmr_start(t, n)
    \/ Tick \/ nsftmr_wake \/ Run

Spec == Init /\ [][Next]_vars

(* Time passes, and the executive serves its ECB and leaves nsftmr_run. *)
FairSpec == Spec /\ WF_vars(Tick) /\ WF_vars(nsftmr_wake) /\ WF_vars(Run)

-----------------------------------------------------------------------------
(* On the queue's clock the delta queue keeps every deadline exactly,      *)
(* whatever is inserted, restarted, cancelled, and from within callbacks.   *)
Togo(Q) == [t \in Timers |-> IF t \in Queued(Q) THEN Due(Q, Index(Q, t)) ELSE -1]
Deadlines == INSTANCE NsfTmrSpec WITH togo <- Togo(g_tmrq)
KeepsDeadlines == Deadlines!Spec

(* "queue empty <=> STIMER disarmed <=> g_armed == 0" whenever nsftmr_run  *)
(* is not under way: an idle stack takes no timer interrupts, and a pending *)
(* timer is never left without one.  And the interval armed never ends      *)
(* after the head is due: cancels and tail inserts may leave it too short.   *)
ArmedForHead ==
    pc = "main" =>
        /\ g_tmrq = <<>> <=> hw = 0
        /\ hw = 0 <=> g_armed = 0
        /\ g_tmrq # <<>> => g_armed <= Head(g_tmrq).delta

Fires(t) == cb' = t /\ cb # t

(* A timer runs early by no more than the part of the armed interval that  *)
(* had passed when it was queued behind another; one that armed the STIMER *)
(* itself is never early ("the shortened timer, the one that matters, fires *)
(* on time"), but for the intervals a stray exit posted for.                 *)
EarlyBounded == [][\A t \in Timers : Fires(t) => age[t] + slack[t] >= asked[t]]_vars

(* Unless pending timers are restarted or cancelled for ever, every one of *)
(* them leaves the queue, whatever else is started beside it.                *)
Disturbed ==
    \E t \in Pending : tmr_cancel(t) \/ \E n \in Asks[t] : tmr_start(t, n)
EveryTimerFires ==
    []<><<Disturbed>>_vars \/ \A t \in Timers : t \in Pending ~> t \notin Pending
=============================================================================

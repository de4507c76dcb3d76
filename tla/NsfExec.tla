------------------------------- MODULE NsfExec -------------------------------
(***************************************************************************)
(* The executive (src/src/nsfevt.c) with the in-space request transport     *)
(* (nsfreq_submit, nsfreq_wait and nsfreq_drain of src/src/nsfreq.c) over    *)
(* the lock-free stack of src/asm/nsfxq.asm.                                 *)
(*                                                                         *)
(* Application subtasks push their request block by compare-and-swap, POST   *)
(* the request ECB and wait on their own.  An interrupt exit hands over an    *)
(* event block; another task may stop the loop; the STIMER exit posts the    *)
(* timer ECB.  All run in parallel with the one pass after another of         *)
(* evt_mainloop.  A POST (SVC 2) wakes a task that is in WAIT; setting the    *)
(* bit (nsfevt_plat_post) is only seen by the next WAIT.  A definition named  *)
(* in a comment "Mutant of ..." is a wrong variant and no part of Next.        *)
(***************************************************************************)
EXTENDS Integers, FiniteSets, SequencesExt

CONSTANTS
    Apps,       \* application subtasks, each the owner of one request block
    NIL,        \* end of a chain
    PoolMax,    \* EVT_POOL_COUNT
    Budget,     \* EVT_DRAIN_BUDGET
    MaxCalls,   \* bound: calls each application makes
    ExitMax,    \* bound: events that exits hold or have pushed, at most
    Sources     \* bound: which of "timer" and "stop" may interrupt

ASSUME ExecAssumption ==
    /\ IsFiniteSet(Apps) /\ NIL \notin Apps
    /\ PoolMax \in Nat \ {0} /\ Budget \in Nat \ {0} /\ MaxCalls \in [Apps -> Nat]
    /\ ExitMax \in Nat /\ Sources \subseteq {"timer", "stop"}

VARIABLES
    head,       \* g_reqxq.head
    next,       \* the q.next field of each request block
    apc,        \* where each application is in nsfreq_call
    aecb,       \* r->ecb of each block is posted
    calls,      \* calls an application has left
    xpc,        \* where the executive is in its pass
    cur, nx,    \* nsfreq_drain: block being dispatched, the one captured before
    parked,     \* requests held by sockets
    budget,     \* dispatches left in this pass
    evq,        \* events on g_evq
    g_xq,       \* events on the handoff stack
    armed,      \* events allocated for an exit that has not pushed them yet
    exiting,    \* the exit has pushed and not yet set g_handoffecb
    reqecb, handoffecb, timerecb, stopecb,
    g_stop,     \* the stop flag
    stopping    \* nsfevt_stop has set the flag and not yet posted

apps   == <<next, apc, aecb, calls>>
drain  == <<cur, nx>>
events == <<evq, g_xq, armed, exiting>>
ecbs   == <<reqecb, handoffecb, timerecb, stopecb>>
stops  == <<g_stop, stopping>>
vars   == <<head, apps, xpc, drain, parked, budget, events, ecbs, stops>>

Block == Apps \cup {NIL}
AppPC == {"idle", "cas", "post", "wait"}
ExecPC == {"pass", "gatereq", "gatestop", "wait", "waiting", "clear", "handoff",
           "reset", "take", "serve", "advance", "recheck", "dispatch", "timer",
           "stop", "shutdown", "ended"}

Init ==
    /\ head = NIL /\ next = [a \in Apps |-> NIL]
    /\ apc = [a \in Apps |-> "idle"] /\ aecb = [a \in Apps |-> FALSE]
    /\ calls = MaxCalls
    /\ xpc = "pass" /\ cur = NIL /\ nx = NIL /\ parked = {} /\ budget = 0
    /\ evq = 0 /\ g_xq = 0 /\ armed = 0 /\ exiting = FALSE
    /\ reqecb = FALSE /\ handoffecb = FALSE /\ timerecb = FALSE /\ stopecb = FALSE
    /\ g_stop = FALSE /\ stopping = FALSE

-----------------------------------------------------------------------------
(* A POST takes the executive out of its WAIT. *)
Wakes == xpc' = IF xpc = "waiting" THEN "clear" ELSE xpc

(* nsfreq_submit with a cleared block: the first load of xq_push. *)
Submit(a) ==
    /\ apc[a] = "idle" /\ calls[a] > 0
    /\ apc' = [apc EXCEPT ![a] = "cas"]
    /\ aecb' = [aecb EXCEPT ![a] = FALSE]
    /\ next' = [next EXCEPT ![a] = head]
    /\ calls' = [calls EXCEPT ![a] = @ - 1]
    /\ UNCHANGED <<head, xpc, drain, parked, budget, events, ecbs, stops>>

(* The compare-and-swap of xq_push, which reloads the head if it raced. *)
Push(a) ==
    /\ apc[a] = "cas"
    /\ \/ /\ head = next[a]
          /\ head' = a
          /\ apc' = [apc EXCEPT ![a] = "post"]
          /\ UNCHANGED next
       \/ /\ head # next[a]
          /\ next' = [next EXCEPT ![a] = head]
          /\ UNCHANGED <<head, apc>>
    /\ UNCHANGED <<aecb, calls, xpc, drain, parked, budget, events, ecbs, stops>>

(* Mutant of PostRequest: the request ECB only gets its bit. *)
PostRequestBit(a) ==
    /\ apc[a] = "post"
    /\ apc' = [apc EXCEPT ![a] = "wait"]
    /\ reqecb' = TRUE
    /\ UNCHANGED <<head, next, aecb, calls, xpc, drain, parked, budget, events>>
    /\ UNCHANGED <<handoffecb, timerecb, stopecb, stops>>

PostRequest(a) ==
    /\ apc[a] = "post"
    /\ apc' = [apc EXCEPT ![a] = "wait"]
    /\ reqecb' = TRUE
    /\ Wakes
    /\ UNCHANGED <<head, next, aecb, calls, drain, parked, budget, events>>
    /\ UNCHANGED <<handoffecb, timerecb, stopecb, stops>>

(* nsfreq_wait returns; the block is the application's again. *)
Return(a) ==
    /\ apc[a] = "wait" /\ aecb[a]
    /\ apc' = [apc EXCEPT ![a] = "idle"]
    /\ UNCHANGED <<head, next, aecb, calls, xpc, drain, parked, budget>>
    /\ UNCHANGED <<events, ecbs, stops>>

-----------------------------------------------------------------------------
(* nsfevt_handoff_push in an exit: the push, then the bit. *)
HandoffPush ==
    /\ armed > 0 /\ ~exiting
    /\ armed' = armed - 1 /\ g_xq' = g_xq + 1 /\ exiting' = TRUE
    /\ UNCHANGED <<head, apps, xpc, drain, parked, budget, evq, ecbs, stops>>

HandoffBit ==
    /\ exiting
    /\ exiting' = FALSE /\ handoffecb' = TRUE
    /\ UNCHANGED <<head, apps, xpc, drain, parked, budget, evq, g_xq, armed>>
    /\ UNCHANGED <<reqecb, timerecb, stopecb, stops>>

(* The STIMER exit; the timer is disarmed at shutdown. *)
TimerExit ==
    /\ "timer" \in Sources /\ xpc # "ended" /\ ~timerecb
    /\ timerecb' = TRUE
    /\ Wakes
    /\ UNCHANGED <<head, apps, drain, parked, budget, events>>
    /\ UNCHANGED <<reqecb, handoffecb, stopecb, stops>>

(* nsfevt_stop from another task: the flag, then a POST. *)
StopFlag ==
    /\ "stop" \in Sources /\ ~g_stop
    /\ g_stop' = TRUE /\ stopping' = TRUE
    /\ UNCHANGED <<head, apps, xpc, drain, parked, budget, events, ecbs>>

(* Mutant of StopPost: the stop only sets the bit. *)
StopPostBit ==
    /\ stopping
    /\ stopping' = FALSE /\ stopecb' = TRUE
    /\ UNCHANGED <<head, apps, xpc, drain, parked, budget, events>>
    /\ UNCHANGED <<reqecb, handoffecb, timerecb, g_stop>>

StopPost ==
    /\ stopping
    /\ stopping' = FALSE /\ stopecb' = TRUE
    /\ Wakes
    /\ UNCHANGED <<head, apps, drain, parked, budget, events>>
    /\ UNCHANGED <<reqecb, handoffecb, timerecb, g_stop>>

-----------------------------------------------------------------------------
(* evt_mainloop: the terms of the WAIT gate are read one after another.     *)
GateQueues ==
    /\ xpc = "pass"
    /\ xpc' = IF evq = 0 /\ g_xq = 0 THEN "gatereq" ELSE "clear"
    /\ UNCHANGED <<head, apps, drain, parked, budget, events, ecbs, stops>>

GateRequests ==
    /\ xpc = "gatereq"
    /\ xpc' = IF head = NIL THEN "gatestop" ELSE "clear"
    /\ UNCHANGED <<head, apps, drain, parked, budget, events, ecbs, stops>>

GateStop ==
    /\ xpc = "gatestop"
    /\ xpc' = IF ~g_stop /\ ~stopecb THEN "wait" ELSE "clear"
    /\ UNCHANGED <<head, apps, drain, parked, budget, events, ecbs, stops>>

(* WAIT returns at once if an ECB of the list is posted already. *)
Wait ==
    /\ xpc = "wait"
    /\ xpc' = IF reqecb \/ handoffecb \/ timerecb \/ stopecb THEN "clear" ELSE "waiting"
    /\ UNCHANGED <<head, apps, drain, parked, budget, events, ecbs, stops>>

ClearHandoff ==
    /\ xpc = "clear"
    /\ xpc' = "handoff" /\ handoffecb' = FALSE
    /\ UNCHANGED <<head, apps, drain, parked, budget, events>>
    /\ UNCHANGED <<reqecb, timerecb, stopecb, stops>>

evt_drain_handoff ==
    /\ xpc = "handoff"
    /\ xpc' = "reset"
    /\ evq' = evq + g_xq /\ g_xq' = 0
    /\ UNCHANGED <<head, apps, drain, parked, budget, armed, exiting, ecbs, stops>>

-----------------------------------------------------------------------------
(* What a handler may do besides: answer requests, post an event and        *)
(* allocate one for an exit, which an empty pool refuses.  `held' are the    *)
(* parked requests, `here' counts the event whose handler this is.           *)
Handle(done, held, here) ==
    /\ parked' = held \ done
    /\ aecb' = [a \in Apps |-> aecb[a] \/ a \in done]
    /\ \E posted, given \in 0 .. 1 :
        /\ evq + g_xq + armed + posted + given <= PoolMax
           \/ posted + given = 0
        /\ given = 1 => armed + g_xq < ExitMax
        /\ evq' = evq - here + posted
        /\ armed' = armed + given
    /\ UNCHANGED <<g_xq, exiting>>

(* nsfreq_drain: the ECB is cleared before the queue is taken. *)
ResetRequestEcb ==
    /\ xpc = "reset"
    /\ xpc' = "take" /\ reqecb' = FALSE
    /\ UNCHANGED <<head, apps, drain, parked, budget, events>>
    /\ UNCHANGED <<handoffecb, timerecb, stopecb, stops>>

(* The chain that starts at a block, through fields f. *)
Linked(f, block, q) ==
    /\ block = IF q = <<>> THEN NIL ELSE q[1]
    /\ \A i \in DOMAIN q : f[q[i]] = IF i = Len(q) THEN NIL ELSE q[i + 1]
Chain(f, block) == CHOOSE q \in SeqOf(Apps, Cardinality(Apps)) : Linked(f, block, q)

(* xq_drain takes the whole stack; it is reversed to the order of arrival,  *)
(* inside the blocks.                                                        *)
TakeAll ==
    /\ xpc = "take"
    /\ LET stack == Chain(next, head)
           fifo  == Reverse(stack)
       IN  /\ cur' = IF stack = <<>> THEN NIL ELSE fifo[1]
           /\ next' = [a \in Apps |->
                         IF \E i \in DOMAIN fifo : fifo[i] = a
                         THEN LET i == CHOOSE i \in DOMAIN fifo : fifo[i] = a
                              IN  IF i = Len(fifo) THEN NIL ELSE fifo[i + 1]
                         ELSE next[a]]
    /\ head' = NIL
    /\ xpc' = "serve"
    /\ UNCHANGED <<apc, aecb, calls, nx, parked, budget, events, ecbs, stops>>

(* The next block is captured, then this one dispatched: answered, or held. *)
ServeRequest ==
    /\ xpc = "serve" /\ cur # NIL
    /\ nx' = next[cur]
    /\ \E done \in SUBSET (parked \cup {cur}) : Handle(done, parked \cup {cur}, 0)
    /\ xpc' = "advance"
    /\ UNCHANGED <<head, next, apc, calls, cur, budget, ecbs, stops>>

(* Mutant of Advance: the next block is read after the dispatch. *)
AdvanceReread ==
    /\ xpc = "advance"
    /\ cur' = next[cur] /\ nx' = NIL
    /\ xpc' = "serve"
    /\ UNCHANGED <<head, apps, parked, budget, events, ecbs, stops>>

Advance ==
    /\ xpc = "advance"
    /\ cur' = nx /\ nx' = NIL
    /\ xpc' = "serve"
    /\ UNCHANGED <<head, apps, parked, budget, events, ecbs, stops>>

DrainRecheck ==
    /\ xpc = "serve" /\ cur = NIL
    /\ IF head # NIL THEN xpc' = "reset" /\ UNCHANGED budget
                     ELSE xpc' = "dispatch" /\ budget' = Budget
    /\ UNCHANGED <<head, apps, drain, parked, events, ecbs, stops>>

-----------------------------------------------------------------------------
(* Mutant of DispatchEvent: the budget is renewed while events keep arriving. *)
DispatchRenews ==
    /\ xpc = "dispatch" /\ evq > 0
    /\ budget' = IF budget = 0 THEN Budget ELSE budget - 1
    /\ \E done \in SUBSET parked : Handle(done, parked, 1)
    /\ UNCHANGED <<head, next, apc, calls, xpc, drain, ecbs, stops>>

(* The dispatched event keeps its block until its handler has returned. *)
DispatchEvent ==
    /\ xpc = "dispatch" /\ budget > 0 /\ evq > 0
    /\ budget' = budget - 1
    /\ \E done \in SUBSET parked : Handle(done, parked, 1)
    /\ UNCHANGED <<head, next, apc, calls, xpc, drain, ecbs, stops>>

DispatchEnds ==
    /\ xpc = "dispatch" /\ (budget = 0 \/ evq = 0)
    /\ xpc' = "timer" /\ budget' = 0
    /\ UNCHANGED <<head, apps, drain, parked, events, ecbs, stops>>

ServeTimer ==
    /\ xpc = "timer"
    /\ xpc' = "stop" /\ timerecb' = FALSE
    /\ IF timerecb THEN \E done \in SUBSET parked : Handle(done, parked, 0)
                   ELSE UNCHANGED <<aecb, parked, events>>
    /\ UNCHANGED <<head, next, apc, calls, drain, budget>>
    /\ UNCHANGED <<reqecb, handoffecb, stopecb, stops>>

StopTest ==
    /\ xpc = "stop"
    /\ xpc' = IF g_stop \/ stopecb THEN "shutdown" ELSE "pass"
    /\ UNCHANGED <<head, apps, drain, parked, budget, events, ecbs, stops>>

(* The timer is disarmed, a late handoff folded in and every event freed;   *)
(* queued and held requests are left (steps 1 to 3 are stubs).               *)
evt_shutdown ==
    /\ xpc = "shutdown"
    /\ xpc' = "ended"
    /\ evq' = 0 /\ g_xq' = 0
    /\ UNCHANGED <<head, apps, drain, parked, budget, armed, exiting, ecbs, stops>>

-----------------------------------------------------------------------------
nsfreq_drain == ResetRequestEcb \/ TakeAll \/ ServeRequest \/ Advance \/ DrainRecheck

evt_mainloop ==
    \/ GateQueues \/ GateRequests \/ GateStop \/ Wait
    \/ ClearHandoff \/ evt_drain_handoff \/ nsfreq_drain
    \/ DispatchEvent \/ DispatchEnds \/ ServeTimer \/ StopTest \/ evt_shutdown

InCall(a) == Push(a) \/ PostRequest(a) \/ Return(a)

Next ==
    \/ evt_mainloop
    \/ \E a \in Apps : Submit(a) \/ InCall(a)
    \/ HandoffPush \/ HandoffBit \/ TimerExit \/ StopFlag \/ StopPost

Spec == Init /\ [][Next]_vars

(* Tasks keep running; nobody need call, stop or interrupt. *)
FairSpec ==
    /\ Spec
    /\ WF_vars(evt_mainloop) /\ WF_vars(StopPost)
    /\ \A a \in Apps : WF_vars(InCall(a))

-----------------------------------------------------------------------------
(* Types of the variables; the pool bounds the events. *)
TypeOK ==
    /\ head \in Block /\ next \in [Apps -> Block]
    /\ apc \in [Apps -> AppPC] /\ aecb \in [Apps -> BOOLEAN]
    /\ calls \in [Apps -> Nat]
    /\ xpc \in ExecPC /\ cur \in Block /\ nx \in Block
    /\ parked \subseteq Apps /\ budget \in 0 .. Budget
    /\ {evq, g_xq, armed} \subseteq 0 .. PoolMax /\ evq + g_xq + armed <= PoolMax
    /\ {exiting, reqecb, handoffecb, timerecb, stopecb, g_stop, stopping}
           \subseteq BOOLEAN

(* No lost wake-up: when the executive waits, a queued request has a POST    *)
(* still to come (the ECB is cleared before the queue is taken, the gate     *)
(* looks at the queue, and the POST follows the push).                       *)
NoLostWake ==
    xpc = "waiting" /\ head # NIL => \E a \in Apps : apc[a] = "post"

(* The queue as its callers see it: what nsfreq_drain still has to dispatch, *)
(* then the stack from its bottom.                                           *)
Queue ==
    LET rest == IF xpc = "advance" THEN nx ELSE cur
    IN  Chain(next, rest) \o Reverse(Chain(next, head))
Call(a) ==
    IF a \in parked THEN "taken"
    ELSE IF apc[a] \in {"post", "wait"} /\ ~aecb[a] THEN "queued" ELSE "none"

(* Requests are dispatched in the order of their pushes, each of them once,  *)
(* although an answered block is reused at once and the chains run through   *)
(* the blocks themselves.                                                    *)
ReqQueue == INSTANCE NsfReqQueueSpec WITH
    queue <- Queue, call <- [a \in Apps |-> Call(a)]
FirstComeFirstServed == ReqQueue!SSpec

(* Until the loop ends there is always again a moment without a posted      *)
(* timer or a pushed request: events that keep arriving hold up neither.    *)
WorkServed == []<>((~timerecb /\ head = NIL) \/ xpc = "ended")

(* A stop requested by another task ends the loop. *)
StopHonoured == g_stop ~> xpc = "ended"

=============================================================================

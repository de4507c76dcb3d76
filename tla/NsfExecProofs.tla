--------------------------- MODULE NsfExecProofs ---------------------------
(***************************************************************************)
(* The executive of NsfExec, for any number of applications, calls and      *)
(* events and with every source of interrupts: it never waits over a queued   *)
(* request, and requests are dispatched as NsfReqQueueSpec promises.           *)
(***************************************************************************)
EXTENDS NsfExec, FiniteSetTheorems, SequenceTheorems, TLAPS

(* What carries NoLostWake through a step: a request may sit in the stack    *)
(* with the request ECB clear only while its POST is still to come, or       *)
(* between the reset of the ECB and the taking of the stack; and WAIT is     *)
(* never entered with the ECB posted.                                        *)
Owed    == \E a \in Apps : apc[a] = "post"
WakeInv ==
    /\ apc \in [Apps -> AppPC]
    /\ head # NIL /\ ~reqecb => Owed \/ xpc = "take"
    /\ xpc = "waiting" => ~reqecb

(* Initially the stack is empty. *)
LEMMA WakeInit == Init => WakeInv
  BY DEF Init, WakeInv, AppPC

(* The executive's own steps: none of them adds a request. *)
LEMMA WakeMainloop ==
  ASSUME WakeInv, evt_mainloop
  PROVE  WakeInv'
<1> USE DEF WakeInv, Owed
<1>1. CASE ResetRequestEcb
  BY <1>1 DEF ResetRequestEcb, apps
<1>2. CASE TakeAll
  BY <1>2 DEF TakeAll, ecbs
<1>3. CASE ServeRequest
  BY <1>3 DEF ServeRequest, ecbs
<1>4. CASE Advance
  BY <1>4 DEF Advance, apps, ecbs
<1>5. CASE DrainRecheck
  BY <1>5 DEF DrainRecheck, apps, ecbs
<1>6. CASE Wait
  BY <1>6 DEF Wait, apps, ecbs
<1>7. CASE GateQueues \/ GateRequests \/ GateStop \/ StopTest
  BY <1>7 DEF GateQueues, GateRequests, GateStop, StopTest, apps, ecbs
<1>8. CASE ClearHandoff \/ evt_drain_handoff
  BY <1>8 DEF ClearHandoff, evt_drain_handoff, apps, ecbs
<1>9. CASE DispatchEvent \/ DispatchEnds
  BY <1>9 DEF DispatchEvent, DispatchEnds, apps, ecbs
<1>10. CASE ServeTimer \/ evt_shutdown
  BY <1>10 DEF ServeTimer, evt_shutdown, apps, ecbs
<1> QED
  BY <1>1, <1>2, <1>3, <1>4, <1>5, <1>6, <1>7, <1>8, <1>9, <1>10
     DEF evt_mainloop, nsfreq_drain

(* An application's steps: the push owes a POST, the POST pays it and wakes  *)
(* the executive.                                                            *)
LEMMA WakeApps ==
  ASSUME WakeInv, NEW a \in Apps, Submit(a) \/ InCall(a)
  PROVE  WakeInv'
<1> USE DEF WakeInv, Owed, AppPC
<1>1. CASE Submit(a)
  <2>1. \A b \in Apps : apc[b] = "post" => apc'[b] = "post"
    BY <1>1 DEF Submit
  <2> QED
    BY <1>1, <2>1 DEF Submit, ecbs
<1>2. CASE Push(a)
  <2>1. \A b \in Apps : apc[b] = "post" => apc'[b] = "post"
    BY <1>2 DEF Push
  <2>2. head' # head => apc'[a] = "post"
    BY <1>2 DEF Push
  <2>3. apc' \in [Apps -> AppPC]
    BY <1>2 DEF Push
  <2> QED
    BY <1>2, <2>1, <2>2, <2>3 DEF Push, ecbs
<1>3. CASE PostRequest(a)
  BY <1>3 DEF PostRequest, Wakes
<1>4. CASE Return(a)
  <2>1. \A b \in Apps : apc[b] = "post" => apc'[b] = "post"
    BY <1>4 DEF Return
  <2> QED
    BY <1>4, <2>1 DEF Return, ecbs
<1> QED
  BY <1>1, <1>2, <1>3, <1>4 DEF InCall

(* Exits and other tasks leave the request queue and its ECB alone. *)
LEMMA WakeSources ==
  ASSUME WakeInv,
         HandoffPush \/ HandoffBit \/ TimerExit \/ StopFlag \/ StopPost
  PROVE  WakeInv'
  BY DEF WakeInv, Owed, HandoffPush, HandoffBit, TimerExit, StopFlag, StopPost,
         Wakes, apps, ecbs

(* The invariant holds in every reachable state. *)
THEOREM WakeInductive == Spec => []WakeInv
<1>1. Init => WakeInv
  BY WakeInit
<1>2. WakeInv /\ [Next]_vars => WakeInv'
  <2> SUFFICES ASSUME WakeInv, [Next]_vars PROVE WakeInv'
    OBVIOUS
  <2>1. CASE Next
    BY <2>1, WakeMainloop, WakeApps, WakeSources DEF Next
  <2>2. CASE UNCHANGED vars
    BY <2>2 DEF vars, apps, ecbs, WakeInv, Owed
  <2> QED
    BY <2>1, <2>2
<1> QED
  BY <1>1, <1>2, PTL DEF Spec

(* No lost wake-up: an executive in WAIT over a queued request has the POST  *)
(* of nsfreq_submit still to come.                                           *)
THEOREM WakeNotLost == Spec => []NoLostWake
<1>1. WakeInv => NoLostWake
  BY DEF WakeInv, NoLostWake, Owed
<1> QED
  BY <1>1, WakeInductive, PTL

-----------------------------------------------------------------------------
(* A set of numbers that is not empty has a least one: the intervals 1 .. n*)
(* are well-founded under strict inclusion.                                *)
LEMMA Least ==
    ASSUME NEW T, T \subseteq Nat, T # {}
    PROVE  \E x \in T : \A y \in T : x <= y
<1>1. PICK F : F = {1 .. n : n \in T}
  OBVIOUS
<1>2. F # {} /\ F \subseteq FiniteSubsetsOf(Nat)
  <2>1. \A n \in T : 1 .. n \in FiniteSubsetsOf(Nat)
    <3>1. \A n \in T : IsFiniteSet(1 .. n)
      BY FS_Interval
    <3>2. \A n \in T : 1 .. n \in SUBSET Nat
      OBVIOUS
    <3> QED
      BY <3>1, <3>2 DEF FiniteSubsetsOf
  <2> QED
    BY <1>1, <2>1
<1>3. PICK X \in F : \A Y \in F : <<Y, X>> \notin StrictSubsetOrdering(Nat)
  BY <1>2, FS_StrictSubsetOrderingWellFounded, WFMin
<1>4. PICK x \in T : X = 1 .. x
  BY <1>1
<1>5. ASSUME NEW y \in T, y < x
      PROVE  FALSE
  <2>1. 1 .. y \in F
    BY <1>1
  <2>2. /\ <<1 .. y, 1 .. x>> \in (SUBSET Nat) \X (SUBSET Nat)
        /\ 1 .. y \subseteq 1 .. x /\ 1 .. y # 1 .. x
    <3>1. x \in 1 .. x /\ x \notin 1 .. y
      BY <1>5
    <3> QED
      BY <1>5, <3>1
  <2> QED
    BY <1>3, <1>4, <2>1, <2>2 DEF StrictSubsetOrdering
<1> QED
  BY <1>5

(* Two chains from one block through the same fields agree as far as the   *)
(* first goes: at the least place where they did not, the block before it   *)
(* would have two successors.                                              *)
LEMMA Agree ==
    ASSUME NEW f, NEW b, NEW q \in Seq(Apps), NEW p \in Seq(Apps),
           Linked(f, b, q), Linked(f, b, p), NIL \notin Apps
    PROVE  \A n \in 1 .. Len(q) : n \in 1 .. Len(p) /\ q[n] = p[n]
<1>1. PICK T : T = {n \in 1 .. Len(q) : ~ (n \in 1 .. Len(p) /\ q[n] = p[n])}
  OBVIOUS
<1>2. ASSUME T # {}
      PROVE  FALSE
  <2>0. T \subseteq Nat
    BY <1>1
  <2>1. PICK n \in T : \A m \in T : n <= m
    BY <1>2, <2>0, Least
  <2>2. n \in 1 .. Len(q) /\ q[n] \in Apps
    <3>1. n \in 1 .. Len(q)
      BY <1>1, <2>1
    <3> QED
      BY <3>1, ElementOfSeq
  <2>3. CASE n = 1
    <3>1. q # <<>> /\ b = q[1] /\ b # NIL
      BY <2>2, <2>3 DEF Linked
    <3>2. p # <<>> /\ b = p[1] /\ 1 \in 1 .. Len(p)
      <4>1. p # <<>> /\ b = p[1]
        BY <3>1 DEF Linked
      <4> QED
        BY <4>1, EmptySeq
    <3> QED
      BY <1>1, <2>1, <2>3, <3>1, <3>2
  <2>4. CASE n > 1
    <3>1. n - 1 \in 1 .. Len(q) /\ ~ (n <= n - 1) /\ n - 1 # Len(q)
      BY <2>2, <2>4
    <3>2. n - 1 \in 1 .. Len(p) /\ q[n - 1] = p[n - 1]
      BY <1>1, <2>1, <3>1
    <3>3. f[q[n - 1]] = q[n]
      <4>1. (n - 1) + 1 = n
        BY <2>2
      <4> QED
        BY <3>1, <4>1 DEF Linked
    <3>4. f[p[n - 1]] = IF n - 1 = Len(p) THEN NIL ELSE p[n]
      <4>1. (n - 1) + 1 = n
        BY <2>2
      <4> QED
        BY <3>2, <4>1 DEF Linked
    <3>5. n - 1 # Len(p) /\ q[n] = p[n]
      BY <2>2, <3>2, <3>3, <3>4
    <3> QED
      BY <1>1, <2>1, <2>2, <3>2, <3>5
  <2> QED
    BY <2>2, <2>3, <2>4
<1> QED
  BY <1>1, <1>2

(* So a block starts one chain. *)
LEMMA OneChain ==
    ASSUME NEW f, NEW b, NEW q \in Seq(Apps), NEW p \in Seq(Apps),
           Linked(f, b, q), Linked(f, b, p), NIL \notin Apps
    PROVE  q = p
<1>1. \A n \in 1 .. Len(q) : n \in 1 .. Len(p) /\ q[n] = p[n]
  BY Agree
<1>2. \A n \in 1 .. Len(p) : n \in 1 .. Len(q)
  BY Agree
<1>3. Len(q) = Len(p)
  <2>1. Len(q) \in Nat /\ Len(p) \in Nat
    OBVIOUS
  <2>2. Len(q) # 0 => Len(q) <= Len(p)
    BY <1>1, <2>1
  <2>3. Len(p) # 0 => Len(p) <= Len(q)
    BY <1>2, <2>1
  <2> QED
    BY <2>1, <2>2, <2>3
<1> QED
  BY <1>1, <1>3, SeqEqual

(* Every block stands once in a sequence. *)
Once(q) == \A i, j \in DOMAIN q : q[i] = q[j] => i = j

(* A chain that holds every block once is the one Chain returns: it is no    *)
(* longer than there are blocks.                                             *)
LEMMA ChainIs ==
    ASSUME NEW f, NEW b, NEW q \in Seq(Apps), Linked(f, b, q), Once(q)
    PROVE  Chain(f, b) = q
<1> USE ExecAssumption DEF ExecAssumption
<1>1. Len(q) <= Cardinality(Apps)
  <2>1. q \in Injection(1 .. Len(q), Apps)
    BY DEF Once, Injection, IsInjective
  <2>2. Cardinality(1 .. Len(q)) = Len(q)
    <3>1. Len(q) \in Nat
      OBVIOUS
    <3>2. Cardinality(1 .. Len(q)) = IF 1 > Len(q) THEN 0 ELSE Len(q) - 1 + 1
      BY <3>1, FS_Interval
    <3> QED
      BY <3>1, <3>2
  <2> QED
    BY <2>1, <2>2, FS_Injection
<1>2. Cardinality(Apps) \in Nat
  BY FS_CardinalityType
<1>3. q \in SeqOf(Apps, Cardinality(Apps))
  <2>1. Len(q) \in 0 .. Cardinality(Apps) /\ q \in [1 .. Len(q) -> Apps]
    BY <1>1, <1>2
  <2>2. SeqOf(Apps, Cardinality(Apps)) =
            UNION {[1 .. m -> Apps] : m \in 0 .. Cardinality(Apps)}
    BY DEF SeqOf
  <2> QED
    BY <2>1, <2>2
<1>4. PICK p \in SeqOf(Apps, Cardinality(Apps)) : p = Chain(f, b) /\ Linked(f, b, p)
  BY <1>3 DEF Chain
<1>5. p \in Seq(Apps)
  <2>1. PICK m \in 0 .. Cardinality(Apps) : p \in [1 .. m -> Apps]
    BY <1>4 DEF SeqOf
  <2>2. m \in Nat
    BY <1>2, <2>1
  <2> QED
    BY <2>1, <2>2, SeqDef
<1> QED
  BY <1>4, <1>5, OneChain

-----------------------------------------------------------------------------
(* Where the chain begins that nsfreq_drain has not dispatched yet. *)
Rest == IF xpc = "advance" THEN nx ELSE cur

QueueTypes ==
    /\ next \in [Apps -> Block] /\ head \in Block /\ cur \in Block /\ nx \in Block
    /\ apc \in [Apps -> AppPC] /\ aecb \in [Apps -> BOOLEAN] /\ parked \subseteq Apps

(* A block is pushed unposted, a held one belongs to a caller that waits, and *)
(* the executive is in no chain outside of its drain.                          *)
Asking ==
    /\ \A a \in Apps : apc[a] = "cas" => ~aecb[a]
    /\ \A a \in parked : apc[a] \in {"post", "wait"} /\ ~aecb[a]
    /\ xpc \notin {"serve", "advance"} => cur = NIL

(* The queued requests: D is left from the last drain, S is on the stack. *)
Split(D, S) ==
    /\ Linked(next, Rest, D) /\ Linked(next, head, S) /\ Once(D) /\ Once(S)
    /\ \A i \in DOMAIN D, j \in DOMAIN S : D[i] # S[j]
    /\ \A a \in Apps : Call(a) = "queued" <=> \/ \E i \in DOMAIN D : D[i] = a
                                              \/ \E i \in DOMAIN S : S[i] = a

QInv == QueueTypes /\ Asking /\ \E D, S \in Seq(Apps) : Split(D, S)

(* A position counted from the other end. *)
LEMMA Opposite ==
    ASSUME NEW n \in Nat, NEW i \in 1 .. n
    PROVE  /\ n - i + 1 \in 1 .. n /\ n - (n - i + 1) + 1 = i
           /\ \A j \in 1 .. n : n - i + 1 = n - j + 1 => i = j
  OBVIOUS

(* Reverse, position by position. *)
LEMMA Reversed ==
    ASSUME NEW q \in Seq(Apps)
    PROVE  /\ Reverse(q) \in Seq(Apps) /\ Len(Reverse(q)) = Len(q)
           /\ DOMAIN Reverse(q) = 1 .. Len(q)
           /\ \A i \in 1 .. Len(q) : Reverse(q)[i] = q[Len(q) - i + 1]
<1>1. Len(q) \in Nat /\ \A i \in 1 .. Len(q) : Len(q) - i + 1 \in 1 .. Len(q)
  BY Opposite
<1>2. \A i \in 1 .. Len(q) : q[Len(q) - i + 1] \in Apps
  BY <1>1, ElementOfSeq
<1>3. Reverse(q) = [i \in 1 .. Len(q) |-> q[Len(q) - i + 1]]
  BY DEF Reverse
<1>4. Reverse(q) \in [1 .. Len(q) -> Apps]
  BY <1>2, <1>3
<1>5. Reverse(q) \in Seq(Apps)
  BY <1>1, <1>4, SeqDef
<1> QED
  BY <1>1, <1>3, <1>4, <1>5

(* What is pushed last comes out of the reversed stack last. *)
LEMMA BottomUp ==
    ASSUME NEW a \in Apps, NEW S \in Seq(Apps), NEW T \in Seq(Apps),
           Len(T) = Len(S) + 1, T[1] = a, \A i \in 1 .. Len(S) : T[i + 1] = S[i]
    PROVE  Reverse(T) = Append(Reverse(S), a)
<1>1. Len(S) \in Nat
  OBVIOUS
<1>2. /\ Reverse(T) \in Seq(Apps) /\ Len(Reverse(T)) = Len(S) + 1
      /\ \A i \in 1 .. Len(S) + 1 : Reverse(T)[i] = T[Len(S) + 1 - i + 1]
  BY Reversed
<1>3. /\ Reverse(S) \in Seq(Apps) /\ Len(Reverse(S)) = Len(S)
      /\ \A i \in 1 .. Len(S) : Reverse(S)[i] = S[Len(S) - i + 1]
  BY Reversed
<1>4. /\ Append(Reverse(S), a) \in Seq(Apps) /\ Len(Append(Reverse(S), a)) = Len(S) + 1
      /\ \A i \in 1 .. Len(S) : Append(Reverse(S), a)[i] = Reverse(S)[i]
      /\ Append(Reverse(S), a)[Len(S) + 1] = a
  BY <1>3, AppendProperties
<1>5. ASSUME NEW i \in 1 .. Len(S)
      PROVE  Reverse(T)[i] = Append(Reverse(S), a)[i]
  <2>1. Len(S) - i + 1 \in 1 .. Len(S) /\ Len(S) + 1 - i + 1 = (Len(S) - i + 1) + 1
    BY <1>1
  <2>2. T[(Len(S) - i + 1) + 1] = S[Len(S) - i + 1]
    BY <2>1
  <2>3. i \in 1 .. Len(S) + 1
    BY <1>1
  <2> QED
    BY <1>2, <1>3, <1>4, <2>1, <2>2, <2>3
<1>6. Reverse(T)[Len(S) + 1] = a
  <2>1. Len(S) + 1 \in 1 .. Len(S) + 1 /\ Len(S) + 1 - (Len(S) + 1) + 1 = 1
    BY <1>1
  <2> QED
    BY <1>2, <2>1
<1>7. \A i \in 1 .. Len(S) + 1 : i \in 1 .. Len(S) \/ i = Len(S) + 1
  BY <1>1
<1> QED
  BY <1>2, <1>4, <1>5, <1>6, <1>7, SeqEqual

(* What joins the back of the stack part joins the back of the whole. *)
LEMMA AppendAfter ==
    ASSUME NEW a \in Apps, NEW D \in Seq(Apps), NEW R \in Seq(Apps)
    PROVE  D \o Append(R, a) = Append(D \o R, a)
<1>1. <<a>> \in Seq(Apps) /\ D \o R \in Seq(Apps)
  BY ConcatProperties
<1>2. Append(R, a) = R \o <<a>> /\ Append(D \o R, a) = (D \o R) \o <<a>>
  BY <1>1, AppendIsConcat
<1> QED
  BY <1>1, <1>2, ConcatAssociative

(* The queue begins where the rest of the drain begins. *)
LEMMA HeadFirst ==
    ASSUME NEW D \in Seq(Apps), NEW R \in Seq(Apps), D # << >>
    PROVE  /\ D \o R # << >> /\ Head(D \o R) = D[1]
           /\ Tail(D \o R) = Tail(D) \o R
<1>1. Len(D) \in Nat \ {0} /\ Len(R) \in Nat
  BY EmptySeq
<1>2. /\ D \o R \in Seq(Apps) /\ Len(D \o R) = Len(D) + Len(R)
      /\ \A i \in 1 .. Len(D) + Len(R) :
              (D \o R)[i] = IF i <= Len(D) THEN D[i] ELSE R[i - Len(D)]
  BY ConcatProperties
<1>3. D \o R # << >>
  BY <1>1, <1>2
<1>4. Head(D \o R) = D[1]
  <2>1. Head(D \o R) = (D \o R)[1]
    BY <1>2, <1>3
  <2> QED
    BY <1>1, <1>2, <2>1
<1>5. /\ Tail(D) \in Seq(Apps) /\ Len(Tail(D)) = Len(D) - 1
      /\ \A i \in 1 .. Len(Tail(D)) : Tail(D)[i] = D[i + 1]
  BY HeadTailProperties
<1>6. /\ Tail(D \o R) \in Seq(Apps) /\ Len(Tail(D \o R)) = Len(D) + Len(R) - 1
      /\ \A i \in 1 .. Len(D) + Len(R) - 1 : Tail(D \o R)[i] = (D \o R)[i + 1]
  BY <1>2, <1>3, HeadTailProperties
<1>7. /\ Tail(D) \o R \in Seq(Apps) /\ Len(Tail(D) \o R) = Len(D) + Len(R) - 1
      /\ \A i \in 1 .. Len(D) + Len(R) - 1 :
              (Tail(D) \o R)[i] = IF i <= Len(D) - 1 THEN D[i + 1] ELSE R[i - (Len(D) - 1)]
  <2>1. /\ Tail(D) \o R \in Seq(Apps)
        /\ Len(Tail(D) \o R) = Len(Tail(D)) + Len(R)
        /\ \A i \in 1 .. Len(Tail(D)) + Len(R) :
               (Tail(D) \o R)[i] =
                   IF i <= Len(Tail(D)) THEN Tail(D)[i] ELSE R[i - Len(Tail(D))]
    BY <1>5, ConcatProperties
  <2> QED
    BY <1>1, <1>5, <2>1
<1>8. ASSUME NEW i \in 1 .. Len(D) + Len(R) - 1
      PROVE  Tail(D \o R)[i] = (Tail(D) \o R)[i]
  <2>1. i + 1 \in 1 .. Len(D) + Len(R) /\ (i + 1 <= Len(D) <=> i <= Len(D) - 1)
        /\ i + 1 - Len(D) = i - (Len(D) - 1)
    BY <1>1
  <2> QED
    BY <1>2, <1>6, <1>7, <2>1
<1> QED
  BY <1>3, <1>4, <1>6, <1>7, <1>8, SeqEqual

(* The queue is the rest of the drain, then the stack from its bottom; now  *)
(* and after a step.                                                         *)
LEMMA QueueIs ==
    ASSUME NEW D \in Seq(Apps), NEW S \in Seq(Apps), Split(D, S)
    PROVE  Queue = D \o Reverse(S)
<1>1. Chain(next, Rest) = D /\ Chain(next, head) = S
  BY ChainIs DEF Split
<1> QED
  BY <1>1 DEF Queue, Rest

(* The same of the state after a step. *)
LEMMA QueueWillBe ==
    ASSUME NEW D \in Seq(Apps), NEW S \in Seq(Apps), Split(D, S)'
    PROVE  Queue' = D \o Reverse(S)
<1>1. Chain(next', Rest') = D /\ Chain(next', head') = S
  BY ChainIs DEF Split
<1> QED
  BY <1>1 DEF Queue, Rest

(* No block is linked at first. *)
LEMMA QueueStarts == Init => QInv /\ ReqQueue!SInit
<1> SUFFICES ASSUME Init
             PROVE  QInv /\ ReqQueue!SInit
  OBVIOUS
<1>1. QueueTypes /\ Asking
  BY ExecAssumption DEF ExecAssumption, Init, QueueTypes, Asking, Block, AppPC
<1>2. \A a \in Apps : Call(a) = "none"
  BY DEF Init, Call
<1>3. << >> \in Seq(Apps) /\ DOMAIN << >> = {}
  OBVIOUS
<1>4. Split(<< >>, << >>)
  BY <1>2, <1>3 DEF Split, Linked, Once, Init, Rest
<1>5. Queue = << >>
  <2>1. Queue = << >> \o Reverse(<< >>)
    BY <1>3, <1>4, QueueIs
  <2>2. Reverse(<< >>) \in Seq(Apps) /\ Len(Reverse(<< >>)) = Len(<< >>)
    BY <1>3, Reversed
  <2>3. Reverse(<< >>) = << >>
    BY <2>2, EmptySeq
  <2> QED
    BY <2>1, <2>3, <1>3, ConcatEmptySeq
<1> QED
  BY <1>1, <1>2, <1>3, <1>4, <1>5 DEF QInv, ReqQueue!SInit

-----------------------------------------------------------------------------
(* The callers, as the promise names them. *)
Callers == [a \in Apps |-> Call(a)]

(* A step that touches no block, no caller and no held request. *)
LEMMA QueueLeft ==
    ASSUME QInv, UNCHANGED <<head, next, apc, aecb, cur, nx, parked>>,
           \/ xpc' = xpc
           \/ /\ xpc # "advance" /\ xpc' # "advance"
              /\ xpc' = "serve" \/ cur = NIL
    PROVE  QInv' /\ UNCHANGED <<Queue, Callers>>
<1>1. QueueTypes' /\ Asking'
  BY DEF QInv, QueueTypes, Asking
<1>2. Rest' = Rest
  BY DEF Rest
<1>3. \A a \in Apps : Call(a)' = Call(a)
  BY DEF Call
<1>4. PICK D, S \in Seq(Apps) : Split(D, S)
  BY DEF QInv
<1>5. Split(D, S)'
  BY <1>2, <1>3, <1>4 DEF Split
<1>6. Queue' = Queue
  BY <1>4, <1>5, QueueIs, QueueWillBe
<1> QED
  BY <1>1, <1>3, <1>5, <1>6 DEF QInv, Callers

(* A handler answers requests that were held. *)
LEMMA QueueAnswers ==
    ASSUME QInv, NEW done \in SUBSET parked,
           parked' = parked \ done, aecb' = [a \in Apps |-> aecb[a] \/ a \in done],
           UNCHANGED <<head, next, apc, cur, nx>>,
           xpc' = xpc \/ (xpc' # "advance" /\ xpc # "advance" /\ cur = NIL)
    PROVE  QInv' /\ ReqQueue!Answer(done)
<1>1. QueueTypes' /\ Asking'
  BY DEF QInv, QueueTypes, Asking
<1>2. Rest' = Rest
  BY DEF Rest
<1>3. \A a \in done : Call(a) = "taken" /\ Call(a)' = "none"
  BY DEF Call, QInv, QueueTypes
<1>4. \A a \in Apps \ done : Call(a)' = Call(a)
  BY DEF Call
<1>5. PICK D, S \in Seq(Apps) : Split(D, S)
  BY DEF QInv
<1>6. Split(D, S)'
  BY <1>2, <1>3, <1>4, <1>5 DEF Split
<1>7. Queue' = Queue
  BY <1>5, <1>6, QueueIs, QueueWillBe
<1>8. done \subseteq Apps
  BY DEF QInv, QueueTypes
<1> QED
  BY <1>1, <1>3, <1>4, <1>6, <1>7, <1>8 DEF QInv, ReqQueue!Answer

-----------------------------------------------------------------------------
(* A block that is in no chain may be linked anew. *)
LEMMA QueueRelinks ==
    ASSUME QInv, NEW a \in Apps, Call(a) = "none", apc[a] \in {"idle", "cas"},
           next' = [next EXCEPT ![a] = head], apc' = [apc EXCEPT ![a] = "cas"],
           aecb' = [aecb EXCEPT ![a] = FALSE],
           UNCHANGED <<head, xpc, cur, nx, parked>>
    PROVE  QInv' /\ UNCHANGED <<Queue, Callers>>
<1>1. a \notin parked
  BY DEF QInv, Asking
<1>2. QueueTypes' /\ Asking'
  BY <1>1 DEF QInv, QueueTypes, Asking, AppPC
<1>3. \A b \in Apps : Call(b)' = Call(b)
  BY <1>1 DEF Call, QInv, QueueTypes
<1>4. PICK D, S \in Seq(Apps) : Split(D, S)
  BY DEF QInv
<1>5. Split(D, S)'
  <2>1. /\ \A i \in DOMAIN D : D[i] \in Apps /\ D[i] # a
        /\ \A i \in DOMAIN S : S[i] \in Apps /\ S[i] # a
    BY <1>4, ElementOfSeq DEF Split
  <2>2. \A b \in Apps : b # a => next'[b] = next[b]
    BY DEF QInv, QueueTypes
  <2>3. Rest' = Rest
    BY DEF Rest
  <2>4. Linked(next', Rest', D) /\ Linked(next', head', S)
    BY <1>4, <2>1, <2>2, <2>3 DEF Split, Linked
  <2> QED
    BY <1>3, <1>4, <2>4 DEF Split
<1>6. Queue' = Queue
  BY <1>4, <1>5, QueueIs, QueueWillBe
<1> QED
  BY <1>2, <1>3, <1>5, <1>6 DEF QInv, Callers

(* A call begins with the load of the head. *)
LEMMA QueueSubmits ==
    ASSUME QInv, NEW a \in Apps, Submit(a)
    PROVE  QInv' /\ UNCHANGED <<Queue, Callers>>
<1>1. Call(a) = "none" /\ apc[a] \in {"idle", "cas"}
  BY DEF Submit, Call, QInv, Asking
<1> QED
  BY <1>1, QueueRelinks DEF Submit, drain

(* A compare-and-swap that succeeds adds the youngest request. *)
LEMMA QueuePushes ==
    ASSUME QInv, NEW a \in Apps, Push(a)
    PROVE  QInv' /\ (ReqQueue!Ask(a) \/ UNCHANGED <<Queue, Callers>>)
<1>1. a \notin parked /\ ~aecb[a] /\ Call(a) = "none" /\ apc[a] = "cas"
  BY DEF Push, Call, QInv, Asking
<1>2. CASE head # next[a]
  <2>1. apc' = [apc EXCEPT ![a] = "cas"] /\ aecb' = [aecb EXCEPT ![a] = FALSE]
    BY <1>1, <1>2 DEF Push, QInv, QueueTypes
  <2> QED
    BY <1>1, <1>2, <2>1, QueueRelinks DEF Push, drain
<1>3. CASE head = next[a]
  <2>1. /\ head' = a /\ apc' = [apc EXCEPT ![a] = "post"]
        /\ UNCHANGED <<next, aecb, xpc, cur, nx, parked>>
    BY <1>3 DEF Push, drain
  <2>2. QueueTypes' /\ Asking'
    BY <1>1, <2>1 DEF QInv, QueueTypes, Asking, AppPC, Block
  <2>3. Call(a)' = "queued" /\ \A b \in Apps \ {a} : Call(b)' = Call(b)
    BY <1>1, <2>1 DEF Call, QInv, QueueTypes
  <2>4. PICK D, S \in Seq(Apps) : Split(D, S)
    BY DEF QInv
  <2>5. PICK T : T = <<a>> \o S
    OBVIOUS
  <2>6. /\ T \in Seq(Apps) /\ Len(T) = Len(S) + 1 /\ T[1] = a /\ T # << >>
        /\ \A i \in 1 .. Len(S) : T[i + 1] = S[i]
    <3>1. <<a>> \in Seq(Apps) /\ Len(<<a>>) = 1 /\ <<a>>[1] = a /\ Len(S) \in Nat
      OBVIOUS
    <3>2. /\ T \in Seq(Apps) /\ Len(T) = 1 + Len(S)
          /\ \A i \in 1 .. 1 + Len(S) : T[i] = IF i <= 1 THEN <<a>>[i] ELSE S[i - 1]
      BY <2>5, <3>1, ConcatProperties
    <3> QED
      BY <3>1, <3>2
  <2>7. Split(D, T)'
    <3>1. DOMAIN T = 1 .. Len(S) + 1 /\ DOMAIN S = 1 .. Len(S) /\ Len(S) \in Nat
      BY <2>6
    <3>2. \A i \in DOMAIN T : i = 1 \/ (i - 1 \in DOMAIN S /\ T[i] = S[i - 1])
      BY <2>6, <3>1
    <3>3. /\ \A i \in DOMAIN D : D[i] # a
          /\ \A i \in DOMAIN S : S[i] # a
      BY <1>1, <2>4 DEF Split
    <3>4. Once(T)
      BY <2>4, <2>6, <3>1, <3>2, <3>3 DEF Once, Split
    <3>5. \A i \in DOMAIN D, j \in DOMAIN T : D[i] # T[j]
      BY <2>4, <2>6, <3>2, <3>3 DEF Split
    <3>6. Linked(next, a, T)
      <4>1. \A i \in DOMAIN T : next[T[i]] = IF i = Len(T) THEN NIL ELSE T[i + 1]
        <5>1. next[a] = IF Len(T) = 1 THEN NIL ELSE T[2]
          <6>1. CASE S = << >>
            BY <1>3, <2>4, <2>6, <6>1 DEF Split, Linked
          <6>2. CASE S # << >>
            BY <1>3, <2>4, <2>6, <3>1, <6>2, EmptySeq DEF Split, Linked
          <6> QED
            BY <6>1, <6>2
        <5>2. ASSUME NEW i \in DOMAIN T, i # 1
              PROVE  next[T[i]] = IF i = Len(T) THEN NIL ELSE T[i + 1]
          <6>1. i - 1 \in DOMAIN S /\ T[i] = S[i - 1] /\ i - 1 + 1 = i
            BY <3>1, <3>2, <5>2
          <6>2. next[S[i - 1]] = IF i - 1 = Len(S) THEN NIL ELSE S[i]
            BY <2>4, <6>1 DEF Split, Linked
          <6> QED
            BY <2>6, <3>1, <6>1, <6>2
        <5> QED
          BY <2>6, <5>1, <5>2
      <4> QED
        BY <2>6, <4>1 DEF Linked
    <3>7. Rest' = Rest
      BY <2>1 DEF Rest
    <3>8. \A b \in Apps : Call(b)' = "queued" <=> \/ \E i \in DOMAIN D : D[i] = b
                                                 \/ \E i \in DOMAIN T : T[i] = b
      <4>1. ASSUME NEW b \in Apps
            PROVE  (\E i \in DOMAIN T : T[i] = b) <=> b = a \/ \E i \in DOMAIN S : S[i] = b
        <5>1. ASSUME NEW i \in DOMAIN T, T[i] = b
              PROVE  b = a \/ \E j \in DOMAIN S : S[j] = b
          BY <2>6, <3>2, <5>1
        <5>2. ASSUME NEW i \in DOMAIN S, S[i] = b
              PROVE  \E j \in DOMAIN T : T[j] = b
          <6>1. i + 1 \in DOMAIN T /\ T[i + 1] = b
            BY <2>6, <3>1, <5>2
          <6> QED
            BY <6>1
        <5>3. b = a => \E j \in DOMAIN T : T[j] = b
          <6>1. 1 \in DOMAIN T
            BY <3>1
          <6> QED
            BY <2>6, <6>1
        <5> QED
          BY <5>1, <5>2, <5>3
      <4> QED
        BY <2>3, <2>4, <4>1 DEF Split
    <3> QED
      BY <2>1, <2>4, <3>4, <3>5, <3>6, <3>7, <3>8 DEF Split
  <2>8. Queue' = Append(Queue, a)
    <3>1. Reverse(T) = Append(Reverse(S), a)
      BY <2>6, BottomUp
    <3>2. D \o Append(Reverse(S), a) = Append(D \o Reverse(S), a)
      BY Reversed, AppendAfter
    <3> QED
      BY <2>4, <2>6, <2>7, <3>1, <3>2, QueueIs, QueueWillBe
  <2>9. ReqQueue!Ask(a)
    BY <1>1, <2>3, <2>8 DEF ReqQueue!Ask
  <2> QED
    BY <2>2, <2>6, <2>7, <2>9 DEF QInv
<1> QED
  BY <1>2, <1>3

-----------------------------------------------------------------------------
(* The oldest request is dispatched: answered, or held. *)
LEMMA QueueServes ==
    ASSUME QInv, ServeRequest
    PROVE  QInv' /\ \E done \in SUBSET Apps : ReqQueue!Take(done)
<1>1. PICK done \in SUBSET (parked \cup {cur}) :
          /\ parked' = (parked \cup {cur}) \ done
          /\ aecb' = [a \in Apps |-> aecb[a] \/ a \in done]
  BY DEF ServeRequest, Handle
<1>2. /\ xpc = "serve" /\ cur # NIL /\ nx' = next[cur] /\ xpc' = "advance"
      /\ UNCHANGED <<head, next, apc, cur>>
  BY DEF ServeRequest
<1>3. PICK D, S \in Seq(Apps) : Split(D, S)
  BY DEF QInv
<1>4. D # << >> /\ D[1] = cur /\ 1 \in DOMAIN D
  <2>1. D # << >> /\ D[1] = cur
    BY <1>2, <1>3 DEF Split, Linked, Rest
  <2> QED
    BY <2>1, EmptySeq
<1>5. cur \in Apps /\ Call(cur) = "queued"
  <2>1. cur \in Apps
    BY <1>4, ElementOfSeq
  <2> QED
    BY <1>3, <1>4, <2>1 DEF Split
<1>6. cur \notin parked /\ apc[cur] \in {"post", "wait"} /\ ~aecb[cur]
  BY <1>5 DEF Call
<1>7. QueueTypes' /\ Asking'
  BY <1>1, <1>2, <1>5, <1>6 DEF QInv, QueueTypes, Asking
<1>8. \A a \in Apps : Call(a)' = IF a \in done THEN "none"
                                 ELSE IF a = cur THEN "taken" ELSE Call(a)
  BY <1>1, <1>2 DEF Call, QInv, QueueTypes
<1>9. \A a \in done : Call(a) = "taken" \/ a = cur
  BY <1>1 DEF Call
<1>10. PICK T : T = Tail(D)
  OBVIOUS
<1>11. /\ T \in Seq(Apps) /\ Len(T) = Len(D) - 1 /\ DOMAIN T = 1 .. Len(D) - 1
       /\ \A i \in DOMAIN T : T[i] = D[i + 1]
  BY <1>4, <1>10, HeadTailProperties, LenProperties
<1>12. /\ Len(D) \in Nat \ {0} /\ DOMAIN D = 1 .. Len(D)
       /\ \A i \in DOMAIN T : i + 1 \in DOMAIN D /\ i + 1 # 1
       /\ \A i \in DOMAIN D : i = 1 \/ (i - 1 \in DOMAIN T /\ T[i - 1] = D[i])
  <2>1. Len(D) \in Nat \ {0} /\ DOMAIN D = 1 .. Len(D)
    BY <1>4, EmptySeq, LenProperties
  <2>2. \A i \in DOMAIN T : i + 1 \in DOMAIN D /\ i + 1 # 1
    BY <1>11, <2>1
  <2>3. ASSUME NEW i \in DOMAIN D, i # 1
        PROVE  i - 1 \in DOMAIN T /\ T[i - 1] = D[i]
    <3>1. i - 1 \in DOMAIN T /\ (i - 1) + 1 = i
      BY <1>11, <2>1, <2>3
    <3> QED
      BY <1>11, <3>1
  <2> QED
    BY <2>1, <2>2, <2>3
<1>13. Split(T, S)'
  <2>1. Linked(next, next[cur], T)
    <3>1. next[cur] = IF T = << >> THEN NIL ELSE T[1]
      <4>1. next[cur] = IF 1 = Len(D) THEN NIL ELSE D[2]
        <5>1. next[D[1]] = IF 1 = Len(D) THEN NIL ELSE D[1 + 1]
          BY <1>3, <1>4 DEF Split, Linked
        <5>2. 1 + 1 = 2
          OBVIOUS
        <5> QED
          BY <1>4, <5>1, <5>2
      <4>2. CASE T = << >>
        <5>1. Len(D) = 1
          BY <1>11, <1>12, <4>2
        <5> QED
          BY <4>1, <4>2, <5>1
      <4>3. CASE T # << >>
        <5>1. Len(T) \in Nat \ {0} /\ DOMAIN T = 1 .. Len(T)
          BY <1>11, <4>3, EmptySeq, LenProperties
        <5>2. 1 \in DOMAIN T /\ 1 + 1 = 2
          BY <5>1
        <5>3. Len(D) # 1 /\ T[1] = D[2]
          <6>1. Len(D) # 1
            BY <1>11, <1>12, <5>1
          <6>2. T[1] = D[1 + 1]
            BY <1>11, <5>2
          <6> QED
            BY <5>2, <6>1, <6>2
        <5> QED
          BY <4>1, <4>3, <5>3
      <4> QED
        BY <4>2, <4>3
    <3>2. ASSUME NEW i \in DOMAIN T
          PROVE  next[T[i]] = IF i = Len(T) THEN NIL ELSE T[i + 1]
      <4>1. i \in Nat /\ i + 1 \in DOMAIN D /\ T[i] = D[i + 1]
        BY <1>11, <1>12
      <4>2. next[D[i + 1]] = IF i + 1 = Len(D) THEN NIL ELSE D[i + 1 + 1]
        BY <1>3, <4>1 DEF Split, Linked
      <4>3. i + 1 = Len(D) <=> i = Len(T)
        BY <1>11, <1>12, <4>1
      <4>4. i # Len(T) => T[i + 1] = D[i + 1 + 1]
        BY <1>11, <1>12, <4>1
      <4> QED
        BY <4>1, <4>2, <4>3, <4>4
    <3> QED
      BY <3>1, <3>2 DEF Linked
  <2>2. Rest' = next[cur]
    BY <1>2 DEF Rest
  <2>3. Once(T)
    <3>1. ASSUME NEW i \in DOMAIN T, NEW j \in DOMAIN T, T[i] = T[j]
          PROVE  i = j
      <4>1. i + 1 = j + 1
        BY <1>3, <1>11, <1>12, <3>1 DEF Split, Once
      <4> QED
        BY <1>11, <4>1
    <3> QED
      BY <3>1 DEF Once
  <2>4. \A i \in DOMAIN T, j \in DOMAIN S : T[i] # S[j]
    BY <1>3, <1>11, <1>12 DEF Split
  <2>5. ASSUME NEW a \in Apps
        PROVE  Call(a)' = "queued" <=> \/ \E i \in DOMAIN T : T[i] = a
                                       \/ \E i \in DOMAIN S : S[i] = a
    <3>1. CASE a = cur
      <4>1. \A i \in DOMAIN T : T[i] # a
        BY <1>3, <1>4, <1>11, <1>12, <3>1 DEF Split, Once
      <4>2. \A i \in DOMAIN S : S[i] # a
        BY <1>3, <1>4, <3>1 DEF Split
      <4> QED
        BY <1>8, <3>1, <4>1, <4>2
    <3>2. CASE a # cur
      <4>1. Call(a)' = "queued" <=> Call(a) = "queued"
        BY <1>8, <1>9, <3>2
      <4>2. (\E i \in DOMAIN D : D[i] = a) <=> \E i \in DOMAIN T : T[i] = a
        <5>1. ASSUME NEW i \in DOMAIN D, D[i] = a
              PROVE  \E j \in DOMAIN T : T[j] = a
          BY <1>4, <1>12, <3>2, <5>1
        <5>2. ASSUME NEW i \in DOMAIN T, T[i] = a
              PROVE  \E j \in DOMAIN D : D[j] = a
          BY <1>11, <1>12, <5>2
        <5> QED
          BY <5>1, <5>2
      <4> QED
        BY <1>3, <4>1, <4>2 DEF Split
    <3> QED
      BY <3>1, <3>2
  <2> QED
    BY <1>2, <1>3, <2>1, <2>2, <2>3, <2>4, <2>5 DEF Split
<1>14. /\ Queue # << >> /\ Head(Queue) = cur /\ Queue' = Tail(Queue)
  <2>1. Queue = D \o Reverse(S) /\ Queue' = Tail(D) \o Reverse(S)
    BY <1>3, <1>10, <1>11, <1>13, QueueIs, QueueWillBe
  <2> QED
    BY <1>4, <2>1, Reversed, HeadFirst
<1>15. ReqQueue!Take(done)
  <2>1. Callers' = [a \in Apps |-> IF a \in done THEN "none"
                                  ELSE IF a = Head(Queue) THEN "taken" ELSE Call(a)]
    BY <1>8, <1>14 DEF Callers
  <2>2. done \subseteq Apps
    BY <1>1, <1>5 DEF QInv, QueueTypes
  <2> QED
    BY <1>9, <1>14, <2>1, <2>2 DEF ReqQueue!Take, Callers
<1> QED
  BY <1>1, <1>5, <1>7, <1>11, <1>13, <1>15 DEF QInv, QueueTypes

(* The executive goes on with the block it captured before the dispatch. *)
LEMMA QueueAdvances ==
    ASSUME QInv, Advance
    PROVE  QInv' /\ UNCHANGED <<Queue, Callers>>
<1>1. /\ xpc = "advance" /\ cur' = nx /\ nx' = NIL /\ xpc' = "serve"
      /\ UNCHANGED <<head, next, apc, aecb, parked>>
  BY DEF Advance, apps
<1>2. QueueTypes' /\ Asking'
  BY <1>1 DEF QInv, QueueTypes, Asking, Block
<1>3. Rest' = Rest
  BY <1>1 DEF Rest
<1>4. \A a \in Apps : Call(a)' = Call(a)
  BY <1>1 DEF Call
<1>5. PICK D, S \in Seq(Apps) : Split(D, S)
  BY DEF QInv
<1>6. Split(D, S)'
  BY <1>1, <1>3, <1>4, <1>5 DEF Split
<1>7. Queue' = Queue
  BY <1>5, <1>6, QueueIs, QueueWillBe
<1> QED
  BY <1>2, <1>4, <1>6, <1>7 DEF QInv, Callers

(* A POST, a return from WAIT: the caller goes on, its request stays what it is. *)
LEMMA QueueWaits ==
    ASSUME QInv, NEW a \in Apps, PostRequest(a) \/ Return(a)
    PROVE  QInv' /\ UNCHANGED <<Queue, Callers>>
<1>1. /\ UNCHANGED <<head, next, aecb, cur, nx, parked>>
      /\ xpc' = xpc \/ (xpc = "waiting" /\ xpc' = "clear")
  BY DEF PostRequest, Return, Wakes, drain
<1>2. \/ apc[a] = "post" /\ apc' = [apc EXCEPT ![a] = "wait"]
      \/ apc[a] = "wait" /\ aecb[a] /\ apc' = [apc EXCEPT ![a] = "idle"]
  BY DEF PostRequest, Return
<1>3. QueueTypes' /\ Asking'
  BY <1>1, <1>2 DEF QInv, QueueTypes, Asking, AppPC
<1>4. Rest' = Rest
  BY <1>1 DEF Rest
<1>5. \A b \in Apps : Call(b)' = Call(b)
  BY <1>1, <1>2 DEF Call, QInv, QueueTypes
<1>6. PICK D, S \in Seq(Apps) : Split(D, S)
  BY DEF QInv
<1>7. Split(D, S)'
  BY <1>1, <1>4, <1>5, <1>6 DEF Split
<1>8. Queue' = Queue
  BY <1>6, <1>7, QueueIs, QueueWillBe
<1> QED
  BY <1>3, <1>5, <1>7, <1>8 DEF QInv, Callers

-----------------------------------------------------------------------------
(* The stack, turned round inside the blocks, is the queue as it was. *)
LEMMA QueueTakes ==
    ASSUME QInv, TakeAll
    PROVE  QInv' /\ UNCHANGED <<Queue, Callers>>
<1>1. /\ xpc = "take" /\ xpc' = "serve" /\ head' = NIL /\ cur = NIL
      /\ UNCHANGED <<apc, aecb, nx, parked>>
  BY DEF TakeAll, QInv, Asking
<1>2. PICK D, S \in Seq(Apps) : Split(D, S)
  BY DEF QInv
<1>3. D = << >>
  <2>1. ASSUME D # << >>
        PROVE  FALSE
    <3>1. D[1] \in Apps
      BY <2>1, EmptySeq, ElementOfSeq
    <3>2. D[1] = NIL
      BY <1>1, <1>2, <2>1 DEF Split, Linked, Rest
    <3> QED
      BY <3>1, <3>2, ExecAssumption DEF ExecAssumption
  <2> QED
    BY <2>1
<1>4. PICK R : R = Reverse(S)
  OBVIOUS
<1>5. /\ R \in Seq(Apps) /\ Len(R) = Len(S) /\ DOMAIN R = 1 .. Len(S)
      /\ DOMAIN S = 1 .. Len(S) /\ Len(S) \in Nat
      /\ \A i \in 1 .. Len(S) : R[i] = S[Len(S) - i + 1]
  BY <1>4, Reversed
<1>6. Once(R)
  <2>1. ASSUME NEW i \in DOMAIN R, NEW j \in DOMAIN R, R[i] = R[j]
        PROVE  i = j
    <3>1. Len(S) - i + 1 \in DOMAIN S /\ Len(S) - j + 1 \in DOMAIN S
      BY <1>5, Opposite
    <3>2. S[Len(S) - i + 1] = S[Len(S) - j + 1]
      BY <1>5, <2>1
    <3>3. Len(S) - i + 1 = Len(S) - j + 1
      BY <1>2, <3>1, <3>2 DEF Split, Once
    <3> QED
      BY <1>5, <3>3, Opposite
  <2> QED
    BY <2>1 DEF Once
<1>7. Chain(next, head) = S
  BY <1>2, ChainIs DEF Split
<1>8. /\ cur' = IF S = << >> THEN NIL ELSE R[1]
      /\ next' = [a \in Apps |->
                     IF \E i \in DOMAIN R : R[i] = a
                     THEN LET i == CHOOSE i \in DOMAIN R : R[i] = a
                          IN  IF i = Len(R) THEN NIL ELSE R[i + 1]
                     ELSE next[a]]
  BY <1>4, <1>7 DEF TakeAll
<1>9. ASSUME NEW i \in DOMAIN R
      PROVE  R[i] \in Apps /\ next'[R[i]] = IF i = Len(R) THEN NIL ELSE R[i + 1]
  <2>1. R[i] \in Apps
    BY <1>5, ElementOfSeq
  <2>2. (CHOOSE j \in DOMAIN R : R[j] = R[i]) = i
    BY <1>6 DEF Once
  <2> QED
    BY <1>8, <2>1, <2>2
<1>10. next' \in [Apps -> Block]
  <2>1. ASSUME NEW a \in Apps
        PROVE  next'[a] \in Block
    <3>1. CASE \E i \in DOMAIN R : R[i] = a
      <4>1. PICK i \in DOMAIN R : R[i] = a
        BY <3>1
      <4>2. i # Len(R) => R[i + 1] \in Apps
        <5>1. i # Len(R) => i + 1 \in 1 .. Len(R)
          BY <1>5
        <5> QED
          BY <1>5, <5>1, ElementOfSeq
      <4> QED
        BY <1>9, <4>1, <4>2 DEF Block
    <3>2. CASE ~ \E i \in DOMAIN R : R[i] = a
      BY <1>8, <3>2 DEF QInv, QueueTypes
    <3> QED
      BY <3>1, <3>2
  <2>2. next' = [a \in Apps |-> next'[a]]
    BY <1>8
  <2> QED
    BY <2>1, <2>2
<1>11. cur' = IF R = << >> THEN NIL ELSE R[1]
  <2>1. R = << >> <=> S = << >>
    BY <1>5, EmptySeq
  <2> QED
    BY <1>8, <2>1
<1>12. cur' \in Block
  <2>1. R # << >> => R[1] \in Apps
    BY <1>5, EmptySeq, ElementOfSeq
  <2> QED
    BY <1>11, <2>1 DEF Block
<1>13. QueueTypes' /\ Asking'
  BY <1>1, <1>10, <1>12 DEF QInv, QueueTypes, Asking, Block
<1>14. \A a \in Apps : Call(a)' = Call(a)
  BY <1>1 DEF Call
<1>15. << >> \in Seq(Apps) /\ DOMAIN << >> = {}
  OBVIOUS
<1>16. Split(R, << >>)'
  <2>1. Rest' = cur'
    BY <1>1 DEF Rest
  <2>2. Linked(next', cur', R) /\ Linked(next', NIL, << >>)
    BY <1>9, <1>11, <1>15 DEF Linked
  <2>3. \A a \in Apps : (\E i \in DOMAIN R : R[i] = a) <=> \E i \in DOMAIN S : S[i] = a
    <3>1. \A i \in DOMAIN R : Len(S) - i + 1 \in DOMAIN S /\ R[i] = S[Len(S) - i + 1]
      BY <1>5, Opposite
    <3>2. ASSUME NEW i \in DOMAIN S
          PROVE  Len(S) - i + 1 \in DOMAIN R /\ R[Len(S) - i + 1] = S[i]
      <4>1. Len(S) - i + 1 \in 1 .. Len(S) /\ Len(S) - (Len(S) - i + 1) + 1 = i
        BY <1>5, Opposite
      <4> QED
        BY <1>5, <4>1
    <3> QED
      BY <3>1, <3>2
  <2>4. \A a \in Apps : Call(a)' = "queued" <=> \/ \E i \in DOMAIN R : R[i] = a
                                               \/ \E i \in DOMAIN << >> : << >>[i] = a
    BY <1>2, <1>3, <1>14, <1>15, <2>3 DEF Split
  <2> QED
    BY <1>1, <1>6, <1>15, <2>1, <2>2, <2>4 DEF Split, Once
<1>17. Queue' = Queue
  <2>1. Queue = << >> \o R
    BY <1>2, <1>3, <1>4, QueueIs
  <2>2. Reverse(<< >>) = << >>
    BY <1>15, Reversed, EmptySeq
  <2>3. Queue' = R \o << >>
    BY <1>5, <1>15, <1>16, <2>2, QueueWillBe
  <2> QED
    BY <1>5, <2>1, <2>3, ConcatEmptySeq
<1> QED
  BY <1>5, <1>13, <1>14, <1>15, <1>16, <1>17 DEF QInv, Callers

-----------------------------------------------------------------------------
(* The executive's steps. *)
LEMMA QueueMainloop ==
    ASSUME QInv, evt_mainloop
    PROVE  QInv' /\ (ReqQueue!SNext \/ UNCHANGED <<Queue, Callers>>)
<1>1. CASE TakeAll
  BY <1>1, QueueTakes
<1>2. CASE ServeRequest
  BY <1>2, QueueServes DEF ReqQueue!SNext
<1>3. CASE Advance
  BY <1>3, QueueAdvances
<1>4. CASE DispatchEvent
  <2>1. PICK done \in SUBSET parked : Handle(done, parked, 1)
    BY <1>4 DEF DispatchEvent
  <2>2. QInv' /\ ReqQueue!Answer(done)
    BY <1>4, <2>1, QueueAnswers DEF DispatchEvent, Handle, drain
  <2>3. done \in SUBSET Apps
    BY DEF QInv, QueueTypes
  <2> QED
    BY <2>2, <2>3 DEF ReqQueue!SNext
<1>5. CASE ServeTimer /\ timerecb
  <2>1. PICK done \in SUBSET parked : Handle(done, parked, 0)
    BY <1>5 DEF ServeTimer
  <2>2. cur = NIL
    BY <1>5 DEF ServeTimer, QInv, Asking
  <2>3. QInv' /\ ReqQueue!Answer(done)
    BY <1>5, <2>1, <2>2, QueueAnswers DEF ServeTimer, Handle, drain
  <2>4. done \in SUBSET Apps
    BY DEF QInv, QueueTypes
  <2> QED
    BY <2>3, <2>4 DEF ReqQueue!SNext
<1>6. CASE ServeTimer /\ ~timerecb
  <2>1. cur = NIL
    BY <1>6 DEF ServeTimer, QInv, Asking
  <2> QED
    BY <1>6, <2>1, QueueLeft DEF ServeTimer, drain
<1>7. CASE \/ GateQueues \/ GateRequests \/ GateStop \/ Wait \/ StopTest
           \/ ClearHandoff \/ evt_drain_handoff \/ DispatchEnds \/ evt_shutdown
           \/ ResetRequestEcb \/ DrainRecheck
  <2>1. xpc \notin {"serve", "advance"} \/ cur = NIL
    BY <1>7 DEF GateQueues, GateRequests, GateStop, Wait, StopTest, ClearHandoff,
               evt_drain_handoff, DispatchEnds, evt_shutdown, ResetRequestEcb, DrainRecheck
  <2>2. cur = NIL
    BY <2>1 DEF QInv, Asking
  <2>3. /\ UNCHANGED <<head, next, apc, aecb, cur, nx, parked>>
        /\ xpc # "advance" /\ xpc' # "advance"
    BY <1>7 DEF GateQueues, GateRequests, GateStop, Wait, StopTest, ClearHandoff,
               evt_drain_handoff, DispatchEnds, evt_shutdown, ResetRequestEcb,
               DrainRecheck, apps, drain
  <2> QED
    BY <2>2, <2>3, QueueLeft
<1> QED
  BY <1>1, <1>2, <1>3, <1>4, <1>5, <1>6, <1>7 DEF evt_mainloop, nsfreq_drain

(* Exits and other tasks touch no request. *)
LEMMA QueueSources ==
    ASSUME QInv, HandoffPush \/ HandoffBit \/ TimerExit \/ StopFlag \/ StopPost
    PROVE  QInv' /\ UNCHANGED <<Queue, Callers>>
<1>1. UNCHANGED <<head, next, apc, aecb, cur, nx, parked>>
  BY DEF HandoffPush, HandoffBit, TimerExit, StopFlag, StopPost, apps, drain
<1>2. xpc' = xpc \/ (xpc = "waiting" /\ xpc' = "clear")
  BY DEF HandoffPush, HandoffBit, TimerExit, StopFlag, StopPost, Wakes
<1>3. xpc = "waiting" => cur = NIL
  BY DEF QInv, Asking
<1> QED
  BY <1>1, <1>2, <1>3, QueueLeft

(* Every step keeps the invariant and maps to a step of the promise or none. *)
LEMMA QueueStep ==
    ASSUME QInv, [Next]_vars
    PROVE  QInv' /\ [ReqQueue!SNext]_(ReqQueue!svars)
<1>1. QInv' /\ (ReqQueue!SNext \/ UNCHANGED <<Queue, Callers>>)
  <2>1. CASE evt_mainloop
    BY <2>1, QueueMainloop
  <2>2. ASSUME NEW a \in Apps, Submit(a) \/ InCall(a)
        PROVE  QInv' /\ (ReqQueue!SNext \/ UNCHANGED <<Queue, Callers>>)
    BY <2>2, QueueSubmits, QueuePushes, QueueWaits DEF InCall, ReqQueue!SNext
  <2>3. CASE HandoffPush \/ HandoffBit \/ TimerExit \/ StopFlag \/ StopPost
    BY <2>3, QueueSources
  <2>4. CASE UNCHANGED vars
    BY <2>4, QueueLeft DEF vars, apps, drain
  <2> QED
    BY <2>1, <2>2, <2>3, <2>4 DEF Next
<1> QED
  BY <1>1 DEF ReqQueue!svars, Callers

(* The invariant of the chains holds in every reachable state. *)
THEOREM QueueInductive == Spec => []QInv
<1>1. Init => QInv
  BY QueueStarts
<1>2. QInv /\ [Next]_vars => QInv'
  BY QueueStep
<1> QED
  BY <1>1, <1>2, PTL DEF Spec

(* The stack, the reversal inside the blocks and the walk over them keep the *)
(* promise of NsfReqQueueSpec: calls are taken in the order of their pushes,  *)
(* each once, and end only after they were taken.                             *)
THEOREM ServesInOrder == Spec => FirstComeFirstServed
<1>1. Init => ReqQueue!SInit
  BY QueueStarts
<1>2. QInv /\ [Next]_vars => [ReqQueue!SNext]_(ReqQueue!svars)
  BY QueueStep
<1> QED
  BY <1>1, <1>2, QueueInductive, PTL DEF Spec, FirstComeFirstServed, ReqQueue!SSpec
=============================================================================

---------------------------- MODULE NsfTcpProofs ----------------------------
(***************************************************************************)
(* Proofs about NsfTcp: its accept queues, its parked calls, its timers,   *)
(* its windows, what a full pool may give up, and its streams.             *)
(*                                                                         *)
(* NsfTcpInv has the two invariants.  A handler is followed as NsfTcpCb    *)
(* composes it, from result to result: what each part leaves alone         *)
(* (SamePlace and the like), and that it keeps the block's invariant       *)
(* (Kept); then come the table around the block (AfterKeeps, TablePlaced), *)
(* the actions, and the theorems.  The streams come last: each handler     *)
(* grows one stream of the ledger at most (Flows).                         *)
(***************************************************************************)
EXTENDS NsfTcpInv, FiniteSetTheorems, TLAPS

-----------------------------------------------------------------------------
(* Half of the sequence space. *)
LEMMA HalfSpace ==
    /\ SeqMod \in Nat /\ SeqMod \div 2 \in Nat /\ SeqMod = 2 * (SeqMod \div 2)
    /\ SeqMod \div 2 >= 2 /\ 0 \in Seq32 /\ Seq32 \subseteq Nat
    /\ RcvWnd \in Nat /\ RcvWnd >= 1 /\ RcvWnd < SeqMod \div 2
    /\ SndBuf \in Nat /\ SndBuf >= 1 /\ SndBuf < SeqMod \div 2
    /\ Mss \in Nat /\ Mss >= 1
  BY SpaceAssumption DEF Seq32

(* Sequence numbers are numbers of the space. *)
LEMMA SeqNat == \A a \in Seq32 : a \in Int /\ a \in Nat /\ a < SeqMod
  BY HalfSpace DEF Seq32

(* A remainder, near the modulus on both sides. *)
LEMMA ModIs ==
    ASSUME NEW M \in Nat, M > 0, NEW x \in Int
    PROVE  /\ 0 <= x /\ x < M => x % M = x
           /\ M <= x /\ x < 2 * M => x % M = x - M
           /\ -M <= x /\ x < 0 => x % M = x + M
           /\ x % M \in 0 .. M - 1
  OBVIOUS

(* A difference is taken around the space when it would be negative. *)
LEMMA MinusIs ==
    ASSUME NEW a \in Seq32, NEW b \in Seq32
    PROVE  /\ Minus(a, b) = IF b <= a THEN a - b ELSE a - b + SeqMod
           /\ Minus(a, b) \in Seq32
  BY HalfSpace, ModIs DEF Minus, Seq32

(* A sum wraps at the end of the space. *)
LEMMA PlusIs ==
    ASSUME NEW a \in Seq32, NEW n \in Seq32
    PROVE  Plus(a, n) = IF a + n < SeqMod THEN a + n ELSE a + n - SeqMod
  BY HalfSpace, ModIs DEF Plus, Seq32

(* A sum is a sequence number. *)
LEMMA PlusType ==
    ASSUME NEW a \in Int, NEW n \in Int
    PROVE  Plus(a, n) \in Seq32
  BY HalfSpace, ModIs DEF Plus, Seq32

(* So is the next one. *)
LEMMA PlusOne ==
    ASSUME NEW a \in Seq32
    PROVE  Plus(a, 1) \in Seq32
  BY SeqNat, PlusType

(* The lesser of two. *)
LEMMA MinOf ==
    ASSUME NEW a \in Int, NEW b \in Int
    PROVE  Min({a, b}) = IF a <= b THEN a ELSE b
  BY DEF Min

(* A difference is 0 only between equals. *)
LEMMA MinusZero ==
    ASSUME NEW a \in Seq32, NEW b \in Seq32
    PROVE  Minus(a, b) = 0 <=> a = b
<1>1. Minus(a, b) = IF b <= a THEN a - b ELSE a - b + SeqMod
  BY MinusIs
<1> QED
  BY <1>1, HalfSpace DEF Seq32

(* n more numbers after a lie n further from b. *)
LEMMA MinusGrows ==
    ASSUME NEW a \in Seq32, NEW b \in Seq32, NEW n \in Nat, Minus(a, b) + n < SeqMod
    PROVE  Plus(a, n) \in Seq32 /\ Minus(Plus(a, n), b) = Minus(a, b) + n
<1>1. n \in Seq32
  BY HalfSpace, MinusIs DEF Seq32
<1>2. PICK p \in Seq32 : p = Plus(a, n)
  BY <1>1, HalfSpace, PlusType DEF Seq32
<1>3. p = IF a + n < SeqMod THEN a + n ELSE a + n - SeqMod
  BY <1>1, <1>2, PlusIs
<1>4. /\ Minus(p, b) = IF b <= p THEN p - b ELSE p - b + SeqMod
      /\ Minus(a, b) = IF b <= a THEN a - b ELSE a - b + SeqMod
  BY MinusIs
<1>5. a \in Nat /\ b \in Nat /\ p \in Nat /\ a < SeqMod /\ b < SeqMod /\ p < SeqMod
  BY HalfSpace DEF Seq32
<1>6. SeqMod \in Nat
  BY HalfSpace
<1>7. Minus(p, b) = Minus(a, b) + n
  BY <1>3, <1>4, <1>5, <1>6
<1> QED
  BY <1>2, <1>7

(* What is in flight is seen as such. *)
LEMMA FlightSeen ==
    ASSUME NEW u \in Seq32, NEW n \in Seq32, Minus(n, u) <= SeqMod \div 2
    PROVE  SeqLT(u, n) <=> u # n
<1>1. /\ Minus(n, u) = IF u <= n THEN n - u ELSE n - u + SeqMod
      /\ Minus(u, n) = IF n <= u THEN u - n ELSE u - n + SeqMod
  BY MinusIs
<1> QED
  BY <1>1, HalfSpace DEF SeqLT, Seq32

(* An acknowledgment past SND.UNA and not past SND.NXT takes that much out  *)
(* of what is in flight.                                                   *)
LEMMA AckTakes ==
    ASSUME NEW u \in Seq32, NEW n \in Seq32, NEW a \in Seq32, Minus(n, u) <= SeqMod \div 2,
           SeqGT(a, u), ~SeqGT(a, n)
    PROVE  /\ Minus(a, u) \in Nat /\ Minus(a, u) >= 1 /\ Minus(a, u) <= Minus(n, u)
           /\ Minus(n, a) = Minus(n, u) - Minus(a, u)
<1>1. /\ Minus(n, u) = IF u <= n THEN n - u ELSE n - u + SeqMod
      /\ Minus(a, u) = IF u <= a THEN a - u ELSE a - u + SeqMod
      /\ Minus(a, n) = IF n <= a THEN a - n ELSE a - n + SeqMod
      /\ Minus(n, a) = IF a <= n THEN n - a ELSE n - a + SeqMod
  BY MinusIs
<1>2. PICK H \in Nat : H = SeqMod \div 2
  BY HalfSpace
<1>3. /\ Minus(a, u) \in 1 .. H - 1 /\ ~(Minus(a, n) \in 1 .. H - 1) /\ Minus(n, u) <= H
      /\ SeqMod = 2 * H
  BY <1>2, HalfSpace DEF SeqGT
<1>4. u \in Nat /\ n \in Nat /\ a \in Nat /\ u < SeqMod /\ n < SeqMod /\ a < SeqMod
  BY HalfSpace DEF Seq32
<1> QED
  BY <1>1, <1>3, <1>4

(* Signed differences of small numbers. *)
LEMMA AheadIs ==
    ASSUME NEW a \in Nat, NEW b \in Nat, a < SeqMod \div 2, b <= SeqMod \div 2
    PROVE  Ahead(a, b) = IF b < a THEN a - b ELSE 0
<1>1. a \in Seq32 /\ b \in Seq32
  BY HalfSpace DEF Seq32
<1>2. Minus(a, b) = IF b <= a THEN a - b ELSE a - b + SeqMod
  BY <1>1, MinusIs
<1>3. PICK H \in Nat : H = SeqMod \div 2
  BY HalfSpace
<1> QED
  BY <1>1, <1>2, <1>3, HalfSpace DEF Ahead, SeqGT

(* A distance ahead is a number, 0 when there is none. *)
LEMMA AheadType ==
    ASSUME NEW a \in Seq32, NEW b \in Seq32
    PROVE  Ahead(a, b) \in Nat
  BY MinusIs, HalfSpace DEF Ahead

(* A window that is open leaves room when nothing is in flight. *)
LEMMA AheadWindow ==
    ASSUME NEW a \in Seq32, NEW w \in Nat, w < SeqMod \div 2
    PROVE  Plus(a, w) \in Seq32 /\ Ahead(Plus(a, w), a) = w
<1>1. w \in Seq32 /\ Minus(a, a) = 0
  BY HalfSpace, MinusIs DEF Seq32
<1>2. Plus(a, w) \in Seq32 /\ Minus(Plus(a, w), a) = w
  BY <1>1, MinusGrows, HalfSpace
<1> QED
  BY <1>2, HalfSpace DEF Ahead, SeqGT

(* SND.NXT is n past SND.UNA exactly when n is in flight. *)
LEMMA PlusMinus ==
    ASSUME NEW u \in Seq32, NEW v \in Seq32, NEW n \in Seq32
    PROVE  v = Plus(u, n) <=> Minus(v, u) = n
<1>1. Minus(v, u) = IF u <= v THEN v - u ELSE v - u + SeqMod
  BY MinusIs
<1>2. Plus(u, n) = IF u + n < SeqMod THEN u + n ELSE u + n - SeqMod
  BY PlusIs
<1> QED
  BY <1>1, <1>2, HalfSpace DEF Seq32

-----------------------------------------------------------------------------
(* What a block sends is well formed. *)
LEMMA SegmentOK ==
    ASSUME NEW t, DataOK(t), NEW fl, NEW seq \in Seq32, NEW off \in Int, NEW len \in Nat,
           "SYN" \in fl /\ "ACK" \notin fl => t.fport = Service
    PROVE  SegOK(Segment(t, fl, seq, off, len))
  BY HalfSpace DEF SegOK, Segment, DataOK

(* So is the reset a segment draws. *)
LEMMA RstOK ==
    ASSUME NEW g, SegOK(g)
    PROVE  SegOK(RstFor(g))
<1>1. IsFiniteSet(g.fl \cap {"SYN", "FIN"})
  <2>1. IsFiniteSet({"SYN", "FIN"})
    <3>1. IsFiniteSet({} \cup {"SYN"})
      BY FS_EmptySet, FS_AddElement
    <3>2. IsFiniteSet(({} \cup {"SYN"}) \cup {"FIN"})
      BY <3>1, FS_AddElement
    <3>3. {"SYN", "FIN"} = ({} \cup {"SYN"}) \cup {"FIN"}
      OBVIOUS
    <3> QED
      BY <3>2, <3>3
  <2> QED
    BY <2>1, FS_Subset
<1>2. SegLen(g) \in Int
  BY <1>1, FS_CardinalityType DEF SegLen, SegOK
<1>3. Plus(g.seq, SegLen(g)) \in Seq32
  <2>1. g.seq \in Seq32
    BY DEF SegOK
  <2>2. g.seq \in Int
    BY <2>1 DEF Seq32
  <2> QED
    BY <1>2, <2>2, PlusType
<1>4. PICK p \in Seq32 : p = Plus(g.seq, SegLen(g))
  BY <1>3
<1>5. CASE "ACK" \in g.fl
  BY <1>5, HalfSpace DEF RstFor, SegOK
<1>6. CASE "ACK" \notin g.fl
  <2>1. /\ RstFor(g).ack = p /\ RstFor(g).fl = {"RST", "ACK"} /\ RstFor(g).wnd = 0
        /\ RstFor(g).seq = 0 /\ RstFor(g).iss = 0 /\ RstFor(g).len = 0 /\ RstFor(g).first = 0
    BY <1>4, <1>6 DEF RstFor
  <2> QED
    BY <2>1, HalfSpace DEF SegOK
<1> QED
  BY <1>5, <1>6

(* Sending leaves the block as it was. *)
LEMMA SendKeeps ==
    ASSUME NEW x, Result(x), NEW g, SegOK(g)
    PROVE  Result(Send(x, g)) /\ SameControl(x, Send(x, g)) /\ Send(x, g).t = x.t
  BY DEF Result, ResultFields, Send, SameControl

(* A segment without data, of a number the handler chose. *)
LEMMA EmitSeqKeeps ==
    ASSUME NEW x, Result(x), NEW fl, NEW seq \in Seq32,
           "SYN" \in fl /\ "ACK" \notin fl => x.t.fport = Service
    PROVE  LET y == EmitSeq(x, fl, seq)
           IN Result(y) /\ SameControl(x, y) /\ y.t = x.t
<1>1. DataOK(x.t)
  BY DEF Result
<1>2. SegOK(Segment(x.t, fl, seq, 0, 0))
  BY <1>1, SegmentOK
<1> QED
  BY <1>2, SendKeeps DEF EmitSeq

(* A segment without data, of the number that is next. *)
LEMMA EmitKeeps ==
    ASSUME NEW x, Result(x), NEW fl,
           "SYN" \in fl /\ "ACK" \notin fl => x.t.fport = Service
    PROVE  Result(Emit(x, fl)) /\ SameControl(x, Emit(x, fl)) /\ Emit(x, fl).t = x.t
<1>1. x.t.iss \in Seq32 /\ x.t.nxt \in Seq32
  BY DEF Result, DataOK
<1> QED
  BY <1>1, EmitSeqKeeps DEF Emit

(* An acknowledgment. *)
LEMMA AckKeeps ==
    ASSUME NEW x, Result(x)
    PROVE  Result(Ack(x)) /\ SameControl(x, Ack(x)) /\ Ack(x).t = x.t
  BY EmitKeeps DEF Ack

(* tcp_timers_update touches nothing but its two timers. *)
LEMMA TimersKeep ==
    ASSUME NEW t, DataOK(t), NEW u, u = Timers(t)
    PROVE  /\ DataOK(u)
           /\ SamePlace(t, u) /\ SameState(t, u) /\ SameRecv(t, u) /\ SameSend(t, u)
           /\ u.msl = t.msl
           /\ u.rexmit <=> SeqLT(t.una, t.nxt)
           /\ u.persist <=> ~SeqLT(t.una, t.nxt) /\ t.sndq > 0 /\ t.wnd = 0
<1>1. DataOK(u)
  BY DEF Timers, DataOK, TcbFields
<1>2. SamePlace(t, u) /\ SameState(t, u)
  BY DEF Timers, DataOK, TcbFields, SamePlace, SameState
<1>3. SameRecv(t, u) /\ SameSend(t, u)
  BY DEF Timers, DataOK, TcbFields, SameRecv, SameSend
<1>4. /\ u.msl = t.msl
      /\ u.rexmit <=> SeqLT(t.una, t.nxt)
      /\ u.persist <=> ~SeqLT(t.una, t.nxt) /\ t.sndq > 0 /\ t.wnd = 0
  BY DEF Timers, DataOK, TcbFields
<1> QED
  BY <1>1, <1>2, <1>3, <1>4

(* The same of a result. *)
LEMMA TimersOfKeeps ==
    ASSUME NEW x, Result(x)
    PROVE  LET y == TimersOf(x)
           IN Result(y) /\ SameControl(x, y) /\ y.t = Timers(x.t)
<1>1. DataOK(x.t) /\ DataOK(Timers(x.t))
  BY TimersKeep DEF Result
<1> QED
  BY <1>1 DEF TimersOf, Result, ResultFields, SameControl

-----------------------------------------------------------------------------
(* tcp_output. *)
LEMMA SendableType ==
    ASSUME NEW t, DataOK(t)
    PROVE  Sendable(t) \in Nat /\ Sendable(t) <= Ahead(t.sndq, Sent(t))
<1>1. t.una \in Seq32 /\ t.nxt \in Seq32 /\ t.sndq \in Seq32 /\ t.wnd \in Seq32
  <2>1. /\ t.una \in Seq32 /\ t.nxt \in Seq32
        /\ t.sndq \in 0 .. SndBuf /\ t.wnd \in 0 .. RcvWnd
    BY DEF DataOK
  <2>2. 0 .. SndBuf \subseteq Seq32 /\ 0 .. RcvWnd \subseteq Seq32
    BY HalfSpace DEF Seq32
  <2> QED
    BY <2>1, <2>2
<1>2. Sent(t) \in Seq32 /\ Plus(t.una, t.wnd) \in Seq32
  <2>1. t.una \in Int /\ t.wnd \in Int
    BY <1>1 DEF Seq32
  <2> QED
    BY <1>1, <2>1, MinusIs, PlusType DEF Sent
<1>3. PICK a \in Nat : a = Ahead(t.sndq, Sent(t))
  BY <1>1, <1>2, AheadType
<1>4. PICK b \in Nat : b = Ahead(Plus(t.una, t.wnd), t.nxt)
  BY <1>1, <1>2, AheadType
<1>5. Sendable(t) = Min({a, b})
  BY <1>3, <1>4 DEF Sendable, Sent
<1>6. Min({a, b}) = IF a <= b THEN a ELSE b
  BY MinOf
<1> QED
  BY <1>3, <1>5, <1>6

(* tcp_output, data: SND.NXT moves, and the segments are well formed. *)
LEMMA OutputDataKeeps ==
    ASSUME NEW x, Result(x), NEW y, y = OutputData(x)
    PROVE  /\ Result(y) /\ SameControl(x, y)
           /\ y.t = [x.t EXCEPT !.nxt = Plus(@, IF x.room THEN Sendable(x.t) ELSE 0)]
<1>1. DataOK(x.t) /\ x.room \in BOOLEAN
  BY DEF Result
<1>2. PICK n \in Nat : n = IF x.room THEN Sendable(x.t) ELSE 0
  BY <1>1, SendableType
<1>3. PICK sent \in Nat : sent = Minus(x.t.nxt, x.t.una)
  BY <1>1, MinusIs, HalfSpace DEF DataOK, Seq32
<1>4. /\ \A i \in 0 .. n : i * Mss \in Int
      /\ x.t.nxt \in Int
  BY <1>1, HalfSpace DEF DataOK, Seq32
<1>5. ASSUME NEW i \in 0 .. n, i * Mss < n
      PROVE  SegOK(Segment(x.t, {"ACK"}, Plus(x.t.nxt, i * Mss), sent + i * Mss,
                           Min({Mss, n - i * Mss})))
  <2>1. PICK k \in Int : k = i * Mss
    BY <1>4
  <2>2. Min({Mss, n - k}) \in Nat
    <3>1. Min({Mss, n - k}) = IF Mss <= n - k THEN Mss ELSE n - k
      BY <2>1, HalfSpace, MinOf
    <3> QED
      BY <1>5, <2>1, <3>1, HalfSpace
  <2>3. Plus(x.t.nxt, k) \in Seq32 /\ sent + k \in Int
    BY <1>3, <1>4, <2>1, PlusType
  <2>4. SegOK(Segment(x.t, {"ACK"}, Plus(x.t.nxt, k), sent + k, Min({Mss, n - k})))
    <3>1. ~("SYN" \in {"ACK"} /\ "ACK" \notin {"ACK"})
      OBVIOUS
    <3> QED
      BY <1>1, <2>2, <2>3, <3>1, SegmentOK
  <2> QED
    BY <2>1, <2>4
<1>6. PICK P : P = {Segment(x.t, {"ACK"}, Plus(x.t.nxt, i * Mss), sent + i * Mss,
                            Min({Mss, n - i * Mss})) : i \in {i \in 0 .. n : i * Mss < n}}
  OBVIOUS
<1>7. \A g \in P : SegOK(g)
  BY <1>5, <1>6
<1>8. y = [x EXCEPT !.t.nxt = Plus(@, n), !.out = @ \cup P]
  BY <1>2, <1>3, <1>6 DEF OutputData
<1>9. PICK p \in Seq32 : p = Plus(x.t.nxt, n)
  BY <1>2, <1>4, PlusType
<1>10. /\ y.t = [x.t EXCEPT !.nxt = p] /\ y.out = x.out \cup P
       /\ SameControl(x, y) /\ ResultFields \subseteq DOMAIN y
  BY <1>8, <1>9 DEF Result, ResultFields, SameControl
<1>11. DataOK(y.t)
  BY <1>1, <1>9, <1>10 DEF DataOK, TcbFields
<1>12. Result(y)
  BY <1>7, <1>10, <1>11 DEF Result, SameControl
<1> QED
  BY <1>2, <1>9, <1>10, <1>12

(* tcp_output, the FIN: SND.NXT moves past it once. *)
LEMMA OutputFinKeeps ==
    ASSUME NEW x, Result(x), NEW y, y = OutputFin(x)
    PROVE  /\ Result(y) /\ SameControl(x, y)
           /\ y.t = IF /\ "FINQ" \in x.t.flags /\ "FINSENT" \notin x.t.flags
                       /\ x.t.nxt = Plus(x.t.una, x.t.sndq) /\ x.room
                    THEN [x.t EXCEPT !.nxt = Plus(@, 1), !.flags = @ \cup {"FINSENT"}]
                    ELSE x.t
<1>1. DataOK(x.t)
  BY DEF Result
<1>2. PICK e : e = Emit(x, {"FIN", "ACK"})
  OBVIOUS
<1>3. "ACK" \in {"FIN", "ACK"}
  OBVIOUS
<1>4. Result(e) /\ SameControl(x, e) /\ e.t = x.t
  BY <1>3, <1>2, EmitKeeps
<1>5. PICK p \in Seq32 : p = Plus(x.t.nxt, 1)
  <2>1. x.t.nxt \in Seq32
    BY <1>1 DEF DataOK
  <2> QED
    BY <2>1, PlusOne
<1>6. PICK u : u = [x.t EXCEPT !.nxt = p, !.flags = @ \cup {"FINSENT"}]
  OBVIOUS
<1>7. DataOK(u)
  BY <1>1, <1>5, <1>6 DEF DataOK, TcbFields
<1>8. CASE /\ "FINQ" \in x.t.flags /\ "FINSENT" \notin x.t.flags
           /\ x.t.nxt = Plus(x.t.una, x.t.sndq) /\ x.room
  <2>1. y = [e EXCEPT !.t.nxt = Plus(@, 1), !.t.flags = @ \cup {"FINSENT"}]
    BY <1>2, <1>8 DEF OutputFin
  <2>2. /\ y.t = u /\ SameControl(e, y) /\ y.out = e.out
        /\ ResultFields \subseteq DOMAIN y
    BY <1>4, <1>5, <1>6, <2>1 DEF Result, ResultFields, SameControl, DataOK, TcbFields
  <2>3. Result(y)
    BY <1>4, <1>7, <2>2 DEF Result, SameControl
  <2>4. SameControl(x, y)
    BY <1>4, <2>2 DEF SameControl
  <2> QED
    BY <1>5, <1>6, <1>8, <2>2, <2>3, <2>4
<1>9. CASE ~(/\ "FINQ" \in x.t.flags /\ "FINSENT" \notin x.t.flags
             /\ x.t.nxt = Plus(x.t.una, x.t.sndq) /\ x.room)
  <2>1. y = x
    BY <1>9 DEF OutputFin
  <2> QED
    BY <1>9, <2>1 DEF SameControl
<1> QED
  BY <1>8, <1>9

(* tcp_output touches what is in flight and the timers. *)
LEMMA OutputKeeps ==
    ASSUME NEW x, Result(x), NEW y, y = Output(x)
    PROVE  /\ Result(y) /\ SameControl(x, y)
           /\ SamePlace(x.t, y.t) /\ SameState(x.t, y.t) /\ SameRecv(x.t, y.t)
           /\ y.t.una = x.t.una /\ y.t.sndq = x.t.sndq /\ y.t.psend = x.t.psend
           /\ y.t.wnd = x.t.wnd /\ y.t.msl = x.t.msl
           /\ "FINQ" \in y.t.flags <=> "FINQ" \in x.t.flags
           /\ "FINSENT" \in x.t.flags => "FINSENT" \in y.t.flags
<1>1. PICK a : a = OutputData(x)
  OBVIOUS
<1>2. PICK b : b = OutputFin(a)
  OBVIOUS
<1>3. y = TimersOf(b)
  BY <1>1, <1>2 DEF Output
<1>4. /\ Result(a) /\ SameControl(x, a)
      /\ a.t = [x.t EXCEPT !.nxt = Plus(@, IF x.room THEN Sendable(x.t) ELSE 0)]
  BY <1>1, OutputDataKeeps
<1>5. /\ Result(b) /\ SameControl(a, b)
      /\ b.t = a.t \/ b.t = [a.t EXCEPT !.nxt = Plus(@, 1), !.flags = @ \cup {"FINSENT"}]
  BY <1>2, <1>4, OutputFinKeeps
<1>6. Result(y) /\ SameControl(b, y) /\ y.t = Timers(b.t)
  BY <1>3, <1>5, TimersOfKeeps
<1>7. DataOK(x.t) /\ DataOK(a.t) /\ DataOK(b.t)
  BY <1>4, <1>5 DEF Result
<1>8. /\ SamePlace(b.t, y.t) /\ SameState(b.t, y.t) /\ SameRecv(b.t, y.t) /\ SameSend(b.t, y.t)
      /\ y.t.msl = b.t.msl
  BY <1>6, <1>7, TimersKeep
<1>9. SameControl(x, y)
  BY <1>4, <1>5, <1>6 DEF SameControl
<1>10. /\ SamePlace(x.t, a.t) /\ SameState(x.t, a.t) /\ SameRecv(x.t, a.t)
       /\ a.t.una = x.t.una /\ a.t.sndq = x.t.sndq /\ a.t.psend = x.t.psend
       /\ a.t.wnd = x.t.wnd /\ a.t.msl = x.t.msl /\ a.t.flags = x.t.flags
  BY <1>4, <1>7 DEF SamePlace, SameState, SameRecv, DataOK, TcbFields
<1>11. /\ SamePlace(a.t, b.t) /\ SameState(a.t, b.t) /\ SameRecv(a.t, b.t)
       /\ b.t.una = a.t.una /\ b.t.sndq = a.t.sndq /\ b.t.psend = a.t.psend
       /\ b.t.wnd = a.t.wnd /\ b.t.msl = a.t.msl
       /\ "FINQ" \in b.t.flags <=> "FINQ" \in a.t.flags
       /\ "FINSENT" \in a.t.flags => "FINSENT" \in b.t.flags
  <2>1. CASE b.t = a.t
    BY <2>1 DEF SamePlace, SameState, SameRecv
  <2>2. CASE b.t = [a.t EXCEPT !.nxt = Plus(@, 1), !.flags = @ \cup {"FINSENT"}]
    <3>1. SamePlace(a.t, b.t) /\ SameState(a.t, b.t)
      BY <1>7, <2>2 DEF SamePlace, SameState, DataOK, TcbFields
    <3>2. b.t.flags = a.t.flags \cup {"FINSENT"}
      BY <1>7, <2>2 DEF DataOK, TcbFields
    <3>3. /\ b.t.una = a.t.una /\ b.t.sndq = a.t.sndq /\ b.t.psend = a.t.psend
          /\ b.t.wnd = a.t.wnd /\ b.t.msl = a.t.msl
          /\ b.t.rxq = a.t.rxq /\ b.t.rwnd = a.t.rwnd /\ b.t.precv = a.t.precv
      BY <1>7, <2>2 DEF DataOK, TcbFields
    <3> QED
      BY <3>1, <3>2, <3>3 DEF SameRecv
  <2> QED
    BY <1>5, <2>1, <2>2
<1>12. SamePlace(x.t, y.t)
  BY <1>8, <1>10, <1>11 DEF SamePlace
<1>13. SameState(x.t, y.t) /\ SameRecv(x.t, y.t)
  BY <1>8, <1>10, <1>11 DEF SameState, SameRecv
<1> QED
  BY <1>6, <1>8, <1>9, <1>10, <1>11, <1>12, <1>13 DEF SameSend

(* What is in flight is at most what is queued and the FIN. *)
LEMMA FlightBound ==
    ASSUME NEW t, DataOK(t), SendOK(t)
    PROVE  /\ Sent(t) \in Nat /\ Sent(t) <= t.sndq + 1 /\ Sent(t) <= SeqMod \div 2
           /\ t.sndq \in Nat /\ t.sndq < SeqMod \div 2
           /\ t.una \in Seq32 /\ t.nxt \in Seq32 /\ (Sent(t) = 0 <=> t.una = t.nxt)
           /\ SeqLT(t.una, t.nxt) <=> t.una # t.nxt
<1>1. t.una \in Seq32 /\ t.nxt \in Seq32 /\ t.sndq \in Nat /\ t.sndq <= SndBuf
  BY HalfSpace DEF DataOK
<1>2. Sent(t) \in Nat /\ (Sent(t) = 0 <=> t.una = t.nxt)
  BY <1>1, MinusIs, MinusZero, SeqNat DEF Sent
<1>3. Sent(t) <= t.sndq + 1
  BY <1>1, <1>2 DEF DataOK, SendOK, States, Opening, Opened, Ending
<1>4. Sent(t) <= SeqMod \div 2 /\ t.sndq < SeqMod \div 2
  BY <1>1, <1>2, <1>3, HalfSpace
<1>5. SeqLT(t.una, t.nxt) <=> t.una # t.nxt
  BY <1>1, <1>4, FlightSeen DEF Sent
<1> QED
  BY <1>1, <1>2, <1>3, <1>4, <1>5

(* How tcp_output moves SND.NXT: over data that is queued and not in        *)
(* flight, in a state that sends; it stands still only at a closed window.  *)
LEMMA OutputDataFlight ==
    ASSUME NEW x, Result(x), SendOK(x.t), NEW y, y = OutputData(x)
    PROVE  /\ SendOK(y.t)
           /\ x.room /\ x.t.state \in Opened /\ y.t.sndq > 0 /\ y.t.una = y.t.nxt => y.t.wnd = 0
<1>1. DataOK(x.t)
  BY DEF Result
<1>2. /\ Result(y)
      /\ y.t = [x.t EXCEPT !.nxt = Plus(@, IF x.room THEN Sendable(x.t) ELSE 0)]
  BY OutputDataKeeps
<1>3. PICK n \in Nat : n = IF x.room THEN Sendable(x.t) ELSE 0
  BY <1>1, SendableType DEF Result
<1>4. PICK sent \in Nat : sent = Sent(x.t)
  BY <1>1, FlightBound
<1>5. PICK q \in Nat : q = x.t.sndq
  BY <1>1, FlightBound
<1>6. /\ sent <= SeqMod \div 2 /\ q < SeqMod \div 2 /\ x.t.una \in Seq32 /\ x.t.nxt \in Seq32
      /\ sent = 0 <=> x.t.una = x.t.nxt
  BY <1>1, <1>4, <1>5, FlightBound
<1>7. Ahead(q, sent) = IF sent < q THEN q - sent ELSE 0
  BY <1>6, AheadIs
<1>8. n <= IF sent < q THEN q - sent ELSE 0
  <2>1. x.room => n <= Ahead(q, sent)
    BY <1>1, <1>3, <1>4, <1>5, SendableType
  <2> QED
    BY <1>3, <1>7, <2>1
<1>9. sent + n < SeqMod /\ (n = 0 \/ (sent < q /\ sent + n <= q))
  BY <1>6, <1>8, HalfSpace
<1>10. Plus(x.t.nxt, n) \in Seq32 /\ Minus(Plus(x.t.nxt, n), x.t.una) = sent + n
  <2>1. Minus(x.t.nxt, x.t.una) = sent
    BY <1>4 DEF Sent
  <2> QED
    BY <1>6, <1>9, <2>1, MinusGrows
<1>11. /\ y.t.una = x.t.una /\ y.t.nxt = Plus(x.t.nxt, n) /\ y.t.state = x.t.state
       /\ y.t.flags = x.t.flags /\ y.t.sndq = q /\ y.t.psend = x.t.psend /\ y.t.wnd = x.t.wnd
       /\ y.t.iss = x.t.iss
  BY <1>1, <1>2, <1>3, <1>5 DEF DataOK, TcbFields
<1>12. Sent(y.t) = sent + n
  BY <1>10, <1>11 DEF Sent
<1>13. CASE n = 0
  <2>1. SendOK(y.t)
    BY <1>4, <1>5, <1>11, <1>12, <1>13 DEF SendOK
  <2>2. ASSUME x.room, x.t.state \in Opened, q > 0, y.t.una = y.t.nxt
        PROVE  y.t.wnd = 0
    <3>1. y.t.nxt \in Seq32
      BY <1>10, <1>11
    <3>2. Sent(y.t) = 0
      BY <1>6, <1>11, <2>2, <3>1, MinusZero DEF Sent
    <3>3. sent = 0 /\ x.t.una = x.t.nxt
      BY <1>6, <1>12, <1>13, <3>2
    <3>4. PICK w \in Nat : w = x.t.wnd /\ w < SeqMod \div 2
      BY <1>1, HalfSpace DEF DataOK
    <3>5. Ahead(Plus(x.t.una, w), x.t.nxt) = w
      BY <1>6, <3>3, <3>4, AheadWindow
    <3>6. Sendable(x.t) = Min({q, w})
      <4>1. Minus(x.t.nxt, x.t.una) = sent /\ Ahead(q, sent) = q
        BY <1>4, <1>7, <2>2, <3>3 DEF Sent
      <4> QED
        BY <1>5, <3>4, <3>5, <4>1 DEF Sendable
    <3>7. Min({q, w}) = IF q <= w THEN q ELSE w
      BY MinOf
    <3>8. Sendable(x.t) = 0
      BY <1>3, <1>13, <2>2
    <3> QED
      BY <1>11, <2>2, <3>4, <3>6, <3>7, <3>8
  <2> QED
    BY <1>11, <2>1, <2>2
<1>14. CASE n # 0
  <2>1. sent < q /\ sent + n <= q /\ sent + n > 0
    BY <1>9, <1>14
  <2>2. x.t.state \in Opened
    BY <1>1, <1>4, <1>5, <2>1 DEF DataOK, SendOK, States, Opening, Opened, Ending
  <2>3. SendOK(y.t)
    BY <1>11, <1>12, <2>1, <2>2 DEF SendOK, Opening, Opened, Ending
  <2>4. y.t.una # y.t.nxt
    <3>1. y.t.nxt \in Seq32 /\ Minus(y.t.nxt, y.t.una) # 0
      BY <1>10, <1>11, <1>12, <2>1 DEF Sent
    <3> QED
      BY <1>6, <1>11, <3>1, MinusZero
  <2> QED
    BY <2>3, <2>4
<1> QED
  BY <1>13, <1>14

(* The FIN goes out behind the last byte when a buffer is found. *)
LEMMA OutputFinFlight ==
    ASSUME NEW x, Result(x), SendOK(x.t), x.t.state \notin {"FIN_WAIT_2", "TIME_WAIT"},
           NEW y, y = OutputFin(x)
    PROVE  /\ SendOK(y.t)
           /\ x.t.state \notin Ending => y.t = x.t
           /\ x.room /\ x.t.state \in Ending => "FINSENT" \in y.t.flags
<1>1. DataOK(x.t)
  BY DEF Result
<1>2. y.t = IF /\ "FINQ" \in x.t.flags /\ "FINSENT" \notin x.t.flags
               /\ x.t.nxt = Plus(x.t.una, x.t.sndq) /\ x.room
            THEN [x.t EXCEPT !.nxt = Plus(@, 1), !.flags = @ \cup {"FINSENT"}]
            ELSE x.t
  BY OutputFinKeeps
<1>3. /\ Sent(x.t) \in Nat /\ Sent(x.t) <= SeqMod \div 2 /\ x.t.una \in Seq32 /\ x.t.nxt \in Seq32
      /\ x.t.sndq \in Nat /\ x.t.sndq < SeqMod \div 2
  BY <1>1, FlightBound
<1>4. "FINQ" \in x.t.flags <=> x.t.state \in Ending
  BY DEF SendOK
<1>5. ASSUME x.t.state \in Ending, "FINSENT" \notin x.t.flags
      PROVE  x.t.nxt = Plus(x.t.una, x.t.sndq)
  <2>1. Sent(x.t) = x.t.sndq
    BY <1>5 DEF SendOK
  <2>2. x.t.sndq \in Seq32
    BY <1>3, HalfSpace DEF Seq32
  <2> QED
    BY <1>3, <2>1, <2>2, PlusMinus DEF Sent
<1>6. CASE x.t.state \in Ending /\ "FINSENT" \notin x.t.flags /\ x.room
  <2>1. y.t = [x.t EXCEPT !.nxt = Plus(@, 1), !.flags = @ \cup {"FINSENT"}]
    BY <1>2, <1>4, <1>5, <1>6
  <2>2. /\ y.t.una = x.t.una /\ y.t.nxt = Plus(x.t.nxt, 1) /\ y.t.state = x.t.state
        /\ y.t.sndq = x.t.sndq /\ y.t.psend = x.t.psend
        /\ y.t.flags = x.t.flags \cup {"FINSENT"}
    BY <1>1, <2>1 DEF DataOK, TcbFields
  <2>3. Sent(x.t) + 1 < SeqMod
    BY <1>3, HalfSpace
  <2>4. Minus(Plus(x.t.nxt, 1), x.t.una) = Sent(x.t) + 1
    BY <1>3, <2>3, MinusGrows DEF Sent
  <2>5. Sent(y.t) = x.t.sndq + 1
    BY <1>6, <2>2, <2>4 DEF Sent, SendOK
  <2> QED
    BY <1>6, <2>2, <2>5 DEF SendOK, Ending, Opened, Opening
<1>7. CASE ~(x.t.state \in Ending /\ "FINSENT" \notin x.t.flags /\ x.room)
  <2>1. y.t = x.t
    BY <1>2, <1>4, <1>7
  <2> QED
    BY <1>7, <2>1
<1> QED
  BY <1>6, <1>7

(* The timers as tcp_timers_update leaves them. *)
TimersSet(t) ==
    /\ t.rexmit <=> t.una # t.nxt
    /\ t.persist <=> t.una = t.nxt /\ t.sndq > 0 /\ t.wnd = 0

(* tcp_timers_update sets the timers for what is in flight. *)
LEMMA TimersFlight ==
    ASSUME NEW t, DataOK(t), SendOK(t), NEW u, u = Timers(t)
    PROVE  SendOK(u) /\ TimersSet(u)
<1>1. /\ SameState(t, u) /\ SameSend(t, u) /\ SamePlace(t, u)
      /\ u.rexmit <=> SeqLT(t.una, t.nxt)
      /\ u.persist <=> ~SeqLT(t.una, t.nxt) /\ t.sndq > 0 /\ t.wnd = 0
  BY TimersKeep
<1>2. SeqLT(t.una, t.nxt) <=> t.una # t.nxt
  BY FlightBound
<1>3. Sent(u) = Sent(t)
  BY <1>1 DEF Sent, SameSend
<1>4. SendOK(u)
  BY <1>1, <1>3 DEF SendOK, SameSend, SameState, SamePlace
<1>5. TimersSet(u)
  BY <1>1, <1>2 DEF TimersSet, SameSend
<1> QED
  BY <1>4, <1>5

(* tcp_output drives what is queued: with a buffer it stops only at a       *)
(* closed window, and leaves no FIN behind.                                *)
Driven(x) ==
    /\ x.t.sndq > 0 /\ x.t.una = x.t.nxt => x.t.wnd = 0
    /\ x.t.state \in Ending => "FINSENT" \in x.t.flags

(* tcp_output keeps what is in flight within what is queued. *)
LEMMA OutputFlight ==
    ASSUME NEW x, Result(x), SendOK(x.t), x.t.state \in Opened \cup {"FIN_WAIT_1", "LAST_ACK"},
           NEW y, y = Output(x)
    PROVE  SendOK(y.t) /\ TimersSet(y.t) /\ (x.room => Driven(y))
<1>1. PICK a : a = OutputData(x)
  OBVIOUS
<1>2. PICK b : b = OutputFin(a)
  OBVIOUS
<1>3. y = TimersOf(b)
  BY <1>1, <1>2 DEF Output
<1>4. /\ Result(a) /\ SameControl(x, a)
      /\ a.t = [x.t EXCEPT !.nxt = Plus(@, IF x.room THEN Sendable(x.t) ELSE 0)]
  BY <1>1, OutputDataKeeps
<1>5. /\ SendOK(a.t)
      /\ x.room /\ x.t.state \in Opened /\ a.t.sndq > 0 /\ a.t.una = a.t.nxt => a.t.wnd = 0
  BY <1>1, OutputDataFlight
<1>6. a.t.state = x.t.state
  BY <1>4 DEF Result, DataOK, TcbFields
<1>7. a.t.state \notin {"FIN_WAIT_2", "TIME_WAIT"}
  BY <1>6 DEF Opened
<1>8. /\ Result(b) /\ SendOK(b.t)
      /\ a.t.state \notin Ending => b.t = a.t
      /\ a.room /\ a.t.state \in Ending => "FINSENT" \in b.t.flags
  BY <1>2, <1>4, <1>5, <1>7, OutputFinFlight, OutputFinKeeps
<1>9. y.t = Timers(b.t) /\ DataOK(b.t)
  BY <1>3, <1>8, TimersOfKeeps DEF Result
<1>10. SendOK(y.t) /\ TimersSet(y.t) /\ SameSend(b.t, y.t) /\ SameState(b.t, y.t)
  BY <1>8, <1>9, TimersFlight, TimersKeep
<1>11. y.t.state = x.t.state /\ Result(y)
  BY OutputKeeps DEF SameState
<1>12. ASSUME x.room
       PROVE  Driven(y)
  <2>1. CASE x.t.state \in Opened
    <3>1. b.t = a.t /\ y.t.state \notin Ending
      BY <1>6, <1>8, <1>11, <2>1 DEF Opened, Ending
    <3> QED
      BY <1>5, <1>10, <1>12, <2>1, <3>1 DEF Driven, SameSend
  <2>2. CASE x.t.state \in {"FIN_WAIT_1", "LAST_ACK"}
    <3>1. a.room /\ a.t.state \in Ending
      BY <1>4, <1>6, <1>12, <2>2 DEF SameControl, Ending
    <3>2. "FINSENT" \in y.t.flags /\ y.t.state \in Ending
      BY <1>8, <1>10, <1>6, <1>11, <3>1 DEF SameSend
    <3>3. DataOK(y.t)
      BY <1>11 DEF Result
    <3>4. /\ Sent(y.t) = y.t.sndq + 1 \/ (Sent(y.t) = 0 /\ y.t.sndq = 0)
          /\ y.t.sndq \in Nat /\ (Sent(y.t) = 0 <=> y.t.una = y.t.nxt)
      BY <1>10, <3>2, <3>3, FlightBound DEF SendOK
    <3> QED
      BY <3>2, <3>4 DEF Driven
  <2> QED
    BY <2>1, <2>2
<1> QED
  BY <1>10, <1>12

-----------------------------------------------------------------------------
(* SEND: bytes join the queue as far as there is space. *)
Offer(x, k, p) == [x EXCEPT !.t.psend = p, !.t.sndq = @ + k]

(* Bytes that enter the send queue. *)
LEMMA OfferKeeps ==
    ASSUME NEW x, Result(x), NEW k \in Nat, NEW p \in Nat, x.t.sndq + k <= SndBuf,
           NEW z, z = Offer(x, k, p)
    PROVE  /\ Result(z) /\ SameControl(x, z)
           /\ SamePlace(x.t, z.t) /\ SameState(x.t, z.t) /\ SameRecv(x.t, z.t)
           /\ z.t.una = x.t.una /\ z.t.nxt = x.t.nxt /\ z.t.msl = x.t.msl /\ z.t.flags = x.t.flags
           /\ z.t.sndq = x.t.sndq + k /\ z.t.psend = p
           /\ SendOK(x.t) /\ x.t.state \in Opened => SendOK(z.t)
<1>1. DataOK(x.t)
  BY DEF Result
<1>2. PICK q \in 0 .. SndBuf : q = x.t.sndq + k
  BY <1>1, HalfSpace DEF DataOK
<1>3. PICK u : u = [x.t EXCEPT !.psend = p, !.sndq = q]
  OBVIOUS
<1>4. z.t = u /\ z.out = x.out /\ SameControl(x, z) /\ ResultFields \subseteq DOMAIN z
  BY <1>1, <1>2, <1>3 DEF Offer, Result, ResultFields, SameControl, DataOK, TcbFields
<1>5. DataOK(u)
  BY <1>1, <1>2, <1>3 DEF DataOK, TcbFields
<1>6. Result(z)
  BY <1>4, <1>5 DEF Result, SameControl
<1>7. SamePlace(x.t, u) /\ SameState(x.t, u) /\ SameRecv(x.t, u)
  BY <1>1, <1>3 DEF DataOK, TcbFields, SamePlace, SameState, SameRecv
<1>8. /\ u.una = x.t.una /\ u.nxt = x.t.nxt /\ u.msl = x.t.msl /\ u.flags = x.t.flags
      /\ u.sndq = q /\ u.psend = p
  BY <1>1, <1>3 DEF DataOK, TcbFields
<1>9. ASSUME SendOK(x.t), x.t.state \in Opened
      PROVE  SendOK(u)
  <2>1. Sent(u) = Sent(x.t) /\ Sent(x.t) \in Nat /\ x.t.sndq \in Nat
    BY <1>1, <1>8, <1>9, FlightBound DEF Sent
  <2>2. Sent(u) <= q
    BY <1>2, <1>9, <2>1 DEF SendOK
  <2>3. u.state = x.t.state
    BY <1>7 DEF SameState
  <2> QED
    BY <1>8, <1>9, <2>2, <2>3 DEF SendOK, Opening, Opened, Ending
<1> QED
  BY <1>2, <1>4, <1>6, <1>7, <1>8, <1>9

(* How much of n bytes the send queue takes; when it does not take all, it  *)
(* is full.                                                                *)
LEMMA SpaceTaken ==
    ASSUME NEW t, DataOK(t), NEW n \in Nat, NEW k, k = Min({n, Ahead(SndBuf, t.sndq)})
    PROVE  k \in Nat /\ k <= n /\ t.sndq + k <= SndBuf /\ (k < n => t.sndq + k = SndBuf)
<1>1. PICK q \in Nat : q = t.sndq /\ q <= SndBuf
  BY HalfSpace DEF DataOK
<1>2. Ahead(SndBuf, q) = IF q < SndBuf THEN SndBuf - q ELSE 0
  BY <1>1, HalfSpace, AheadIs
<1>3. PICK a \in Nat : a = Ahead(SndBuf, q) /\ a = SndBuf - q
  BY <1>1, <1>2, HalfSpace
<1>4. k = IF n <= a THEN n ELSE a
  BY <1>1, <1>3, MinOf
<1> QED
  BY <1>1, <1>3, <1>4, HalfSpace

(* tcp_send_resume: a SEND stays parked only on a full queue. *)
LEMMA SendResumeKeeps ==
    ASSUME NEW x, Result(x), NEW y, y = SendResume(x)
    PROVE  /\ Result(y) /\ SameControl(x, y)
           /\ SamePlace(x.t, y.t) /\ SameState(x.t, y.t) /\ SameRecv(x.t, y.t)
           /\ y.t.una = x.t.una /\ y.t.msl = x.t.msl
           /\ x.room /\ y.t.psend > 0 => y.t.sndq = SndBuf
           /\ "FINSENT" \in x.t.flags => "FINSENT" \in y.t.flags
           /\ SendOK(x.t) => SendOK(y.t)
<1>1. DataOK(x.t)
  BY DEF Result
<1>2. PICK p \in Nat : p = x.t.psend
  BY <1>1 DEF DataOK
<1>3. PICK k : k = IF x.room THEN Min({p, Ahead(SndBuf, x.t.sndq)}) ELSE 0
  OBVIOUS
<1>4. /\ k \in Nat /\ k <= p /\ x.t.sndq + k <= SndBuf
      /\ x.room /\ k < p => x.t.sndq + k = SndBuf
  <2>1. CASE x.room
    BY <1>1, <1>2, <1>3, <2>1, SpaceTaken
  <2>2. CASE ~x.room
    BY <1>1, <1>2, <1>3, <2>2, HalfSpace DEF DataOK
  <2> QED
    BY <2>1, <2>2
<1>5. CASE p = 0
  <2>1. y = x
    BY <1>2, <1>5 DEF SendResume
  <2>2. SameControl(x, x) /\ SamePlace(x.t, x.t) /\ SameState(x.t, x.t) /\ SameRecv(x.t, x.t)
    BY DEF SameControl, SamePlace, SameState, SameRecv
  <2>3. ~(y.t.psend > 0)
    <3>1. y.t.psend = 0
      BY <1>2, <1>5, <2>1
    <3> QED
      BY <3>1
  <2> QED
    BY <2>1, <2>2, <2>3
<1>6. CASE p # 0
  <2>1. PICK z : z = Offer(x, k, p - k)
    OBVIOUS
  <2>2. p - k \in Nat
    BY <1>4
  <2>3. y = Output(z)
    <3>1. z = [x EXCEPT !.t.psend = @ - k, !.t.sndq = @ + k]
      BY <1>1, <1>2, <2>1 DEF Offer
    <3> QED
      BY <1>2, <1>3, <1>6, <3>1 DEF SendResume
  <2>4. /\ Result(z) /\ SameControl(x, z)
        /\ SamePlace(x.t, z.t) /\ SameState(x.t, z.t) /\ SameRecv(x.t, z.t)
        /\ z.t.una = x.t.una /\ z.t.nxt = x.t.nxt /\ z.t.msl = x.t.msl /\ z.t.flags = x.t.flags
        /\ z.t.sndq = x.t.sndq + k /\ z.t.psend = p - k
        /\ SendOK(x.t) /\ x.t.state \in Opened => SendOK(z.t)
    BY <1>4, <2>1, <2>2, OfferKeeps
  <2>5. /\ Result(y) /\ SameControl(z, y)
        /\ SamePlace(z.t, y.t) /\ SameState(z.t, y.t) /\ SameRecv(z.t, y.t)
        /\ y.t.una = z.t.una /\ y.t.sndq = z.t.sndq /\ y.t.psend = z.t.psend
        /\ y.t.wnd = z.t.wnd /\ y.t.msl = z.t.msl
        /\ "FINSENT" \in z.t.flags => "FINSENT" \in y.t.flags
    BY <2>3, <2>4, OutputKeeps
  <2>6. SameControl(x, y)
    BY <2>4, <2>5 DEF SameControl
  <2>7. SamePlace(x.t, y.t)
    BY <2>4, <2>5 DEF SamePlace
  <2>8. SameState(x.t, y.t) /\ SameRecv(x.t, y.t)
    BY <2>4, <2>5 DEF SameState, SameRecv
  <2>9. x.room /\ y.t.psend > 0 => y.t.sndq = SndBuf
    BY <1>4, <2>4, <2>5
  <2>10. ASSUME SendOK(x.t)
         PROVE  SendOK(y.t)
    <3>1. x.t.state \in Opened
      BY <1>2, <1>6, <2>10 DEF SendOK
    <3>2. SendOK(z.t) /\ z.t.state = x.t.state
      BY <2>4, <2>10, <3>1 DEF SameState
    <3> QED
      BY <2>3, <2>4, <3>1, <3>2, OutputFlight
  <2> QED
    BY <2>4, <2>5, <2>6, <2>7, <2>8, <2>9, <2>10
<1> QED
  BY <1>5, <1>6

-----------------------------------------------------------------------------
(* A step that touches neither the receiving side nor the place of a block  *)
(* leaves their parts of the invariant.                                    *)
LEMMA RecvCarried ==
    ASSUME NEW t, NEW u, RecvOK(t), SameRecv(t, u), u.state = t.state
    PROVE  RecvOK(u)
  BY DEF RecvOK, SameRecv

(* A call that waits goes with the state. *)
LEMMA CallCarried ==
    ASSUME NEW t, NEW u, CallOK(t), SamePlace(t, u), SameState(t, u)
    PROVE  CallOK(u)
  BY DEF CallOK, SamePlace, SameState

(* In a state that sends, what tcp_output leaves is timed. *)
LEMMA DrivenTimers ==
    ASSUME NEW x, DataOK(x.t), SendOK(x.t), TimersSet(x.t), NEW n \in Nat, Missed(x, n),
           x.room \in BOOLEAN, x.room => Driven(x), x.t.msl <=> x.t.state = "TIME_WAIT"
    PROVE  TimerOK(x.t, n)
<1>1. /\ Sent(x.t) \in Nat /\ x.t.sndq \in Nat /\ (Sent(x.t) = 0 <=> x.t.una = x.t.nxt)
  BY FlightBound
<1>2. ASSUME x.t.state = "TIME_WAIT"
      PROVE  ~x.t.rexmit /\ ~x.t.persist
  <2>1. Sent(x.t) = 0 /\ x.t.sndq = 0
    BY <1>2 DEF SendOK
  <2> QED
    BY <1>1, <2>1 DEF TimersSet
<1>3. ASSUME x.t.sndq > 0, n = 0
      PROVE  x.t.rexmit \/ x.t.persist
  <2>1. x.room
    BY <1>3 DEF Missed
  <2> QED
    BY <1>3, <2>1 DEF Driven, TimersSet
<1> QED
  BY <1>2, <1>3 DEF TimerOK, TimersSet

(* SEND. *)
LEMMA SendCallKeeps ==
    ASSUME NEW x, NEW n, Kept(x, n), NEW m \in Nat, NEW parks \in BOOLEAN,
           x.t.state \in Opened, NEW y, y = SendCall(x, m, parks)
    PROVE  /\ Kept(y, n) /\ SameControl(x, y) /\ SamePlace(x.t, y.t) /\ y.t.state = x.t.state
<1>1. Result(x) /\ DataOK(x.t) /\ x.room \in BOOLEAN /\ TcbInv(x.t, n) /\ n \in Nat
  BY DEF Kept, Result
<1>2. PICK k : k = IF x.room THEN Min({m, Ahead(SndBuf, x.t.sndq)}) ELSE 0
  OBVIOUS
<1>3. /\ k \in Nat /\ k <= m /\ x.t.sndq + k <= SndBuf
      /\ x.room /\ k < m => x.t.sndq + k = SndBuf
  <2>1. CASE x.room
    BY <1>1, <1>2, <2>1, SpaceTaken
  <2>2. CASE ~x.room
    BY <1>1, <1>2, <2>2, HalfSpace DEF DataOK
  <2> QED
    BY <2>1, <2>2
<1>4. PICK p \in Nat : p = IF parks THEN m - k ELSE 0
  <2>1. m - k \in Nat
    BY <1>3
  <2> QED
    BY <2>1
<1>5. PICK z : z = Offer(x, k, p)
  OBVIOUS
<1>6. y = Output(z)
  <2>1. z = [x EXCEPT !.t.sndq = @ + k, !.t.psend = p]
    BY <1>5 DEF Offer
  <2> QED
    BY <1>2, <1>4, <2>1 DEF SendCall
<1>7. /\ Result(z) /\ SameControl(x, z)
      /\ SamePlace(x.t, z.t) /\ SameState(x.t, z.t) /\ SameRecv(x.t, z.t)
      /\ z.t.una = x.t.una /\ z.t.nxt = x.t.nxt /\ z.t.msl = x.t.msl /\ z.t.flags = x.t.flags
      /\ z.t.sndq = x.t.sndq + k /\ z.t.psend = p
      /\ SendOK(x.t) /\ x.t.state \in Opened => SendOK(z.t)
  BY <1>1, <1>3, <1>5, OfferKeeps
<1>8. /\ Result(y) /\ SameControl(z, y)
      /\ SamePlace(z.t, y.t) /\ SameState(z.t, y.t) /\ SameRecv(z.t, y.t)
      /\ y.t.una = z.t.una /\ y.t.sndq = z.t.sndq /\ y.t.psend = z.t.psend
      /\ y.t.wnd = z.t.wnd /\ y.t.msl = z.t.msl
  BY <1>6, <1>7, OutputKeeps
<1>9. SameControl(x, y)
  BY <1>7, <1>8 DEF SameControl
<1>10. SamePlace(x.t, y.t)
  BY <1>7, <1>8 DEF SamePlace
<1>11. SameState(x.t, y.t) /\ SameRecv(x.t, y.t)
  BY <1>7, <1>8 DEF SameState, SameRecv
<1>12. RecvOK(y.t) /\ CallOK(y.t)
  BY <1>1, <1>10, <1>11, RecvCarried, CallCarried DEF TcbInv, SameState
<1>13. Missed(y, n)
  BY <1>9 DEF Missed, Kept, SameControl
<1>14. SpaceOK(y.t, n)
  BY <1>1, <1>3, <1>4, <1>7, <1>8 DEF SpaceOK, Missed, Kept
<1>15. ASSUME ~Early, ~Subtasks
       PROVE  SendOK(y.t) /\ TimerOK(y.t, n) /\ FinOK(y.t, n)
  <2>1. SendOK(x.t) /\ TimerOK(x.t, n)
    BY <1>1, <1>15 DEF TcbInv
  <2>2. SendOK(z.t) /\ z.t.state \in Opened
    BY <1>7, <2>1 DEF SameState
  <2>3. SendOK(y.t) /\ TimersSet(y.t) /\ (z.room => Driven(y))
    BY <1>6, <1>7, <2>2, OutputFlight
  <2>4. y.t.msl <=> y.t.state = "TIME_WAIT"
    BY <1>7, <1>8, <2>1 DEF TimerOK, SameState
  <2>5. TimerOK(y.t, n)
    BY <1>1, <1>8, <1>13, <2>3, <2>4, DrivenTimers DEF SameControl, Result
  <2>6. y.t.state \notin Ending
    BY <1>11 DEF SameState, Opened, Ending
  <2> QED
    BY <2>3, <2>5, <2>6 DEF FinOK, Ending
<1>16. DataOK(y.t)
  BY <1>8 DEF Result
<1> QED
  BY <1>1, <1>8, <1>9, <1>10, <1>11, <1>12, <1>13, <1>14, <1>15, <1>16 DEF Kept, TcbInv, SameState

(* CLOSE and SHUTDOWN queue the FIN. *)
LEMMA FinQueuedKeeps ==
    ASSUME NEW x, NEW n, Kept(x, n), NEW flags \in SUBSET {"APPCLOSED"},
           x.t.state \in Opened \cup {"SYN_RCVD"},
           Quiet => x.t.state \in Opened /\ AllSent(x.t) /\ x.t.psend = 0,
           NEW y, y = FinQueued(x, flags)
    PROVE  Kept(y, n) /\ SameControl(x, y) /\ SamePlace(x.t, y.t) /\ y.t.state \in Ending
<1>1. Result(x) /\ DataOK(x.t) /\ x.room \in BOOLEAN /\ TcbInv(x.t, n) /\ n \in Nat
  BY DEF Kept, Result
<1>2. PICK next : next = IF x.t.state = "CLOSE_WAIT" THEN "LAST_ACK" ELSE "FIN_WAIT_1"
  OBVIOUS
<1>3. PICK u : u = [x.t EXCEPT !.flags = @ \cup {"FINQ"} \cup flags, !.state = next]
  OBVIOUS
<1>4. PICK z : z = [x EXCEPT !.t.flags = @ \cup {"FINQ"} \cup flags, !.t.state = next]
  OBVIOUS
<1>5. y = Output(z)
  BY <1>2, <1>4 DEF FinQueued
<1>6. z.t = u /\ z.out = x.out /\ SameControl(x, z) /\ ResultFields \subseteq DOMAIN z
  BY <1>1, <1>3, <1>4 DEF Result, ResultFields, SameControl, DataOK, TcbFields
<1>7. /\ u.state = next /\ u.flags = x.t.flags \cup {"FINQ"} \cup flags
      /\ u.una = x.t.una /\ u.nxt = x.t.nxt /\ u.sndq = x.t.sndq /\ u.psend = x.t.psend
      /\ u.rxq = x.t.rxq /\ u.rwnd = x.t.rwnd /\ u.precv = x.t.precv
      /\ u.msl = x.t.msl /\ u.pconn = x.t.pconn
  BY <1>1, <1>3 DEF DataOK, TcbFields
<1>8. SamePlace(x.t, u)
  BY <1>1, <1>3 DEF SamePlace, DataOK, TcbFields
<1>9. DataOK(u)
  <2>1. next \in States
    BY <1>2 DEF States
  <2> QED
    BY <1>1, <1>3, <2>1 DEF DataOK, TcbFields
<1>10. Result(z)
  BY <1>1, <1>6, <1>9 DEF Result, SameControl
<1>11. /\ Result(y) /\ SameControl(z, y)
       /\ SamePlace(z.t, y.t) /\ SameState(z.t, y.t) /\ SameRecv(z.t, y.t)
       /\ y.t.una = z.t.una /\ y.t.sndq = z.t.sndq /\ y.t.psend = z.t.psend
       /\ y.t.wnd = z.t.wnd /\ y.t.msl = z.t.msl
  BY <1>5, <1>10, OutputKeeps
<1>12. SameControl(x, y)
  BY <1>6, <1>11 DEF SameControl
<1>13. SamePlace(x.t, y.t)
  BY <1>6, <1>8, <1>11 DEF SamePlace
<1>14. y.t.state = next /\ next \in {"FIN_WAIT_1", "LAST_ACK"}
  BY <1>2, <1>6, <1>7, <1>11 DEF SameState
<1>15. RecvOK(u)
  <2>1. RecvOK(x.t)
    BY <1>1 DEF TcbInv
  <2>2. "RCVFIN" \in u.flags <=> "RCVFIN" \in x.t.flags
    BY <1>7
  <2>3. u.state \in {"CLOSE_WAIT", "CLOSING", "LAST_ACK", "TIME_WAIT"} => x.t.state = "CLOSE_WAIT"
    BY <1>2, <1>7
  <2> QED
    BY <1>7, <2>1, <2>2, <2>3 DEF RecvOK
<1>16. RecvOK(y.t)
  BY <1>6, <1>11, <1>15, RecvCarried DEF SameState
<1>17. CallOK(y.t)
  <2>1. ~x.t.pconn
    BY <1>1 DEF TcbInv, CallOK, Opened
  <2>2. ~y.t.pconn
    BY <1>6, <1>7, <1>11, <2>1 DEF SameState
  <2> QED
    BY <1>14, <2>2 DEF CallOK
<1>18. Missed(y, n)
  BY <1>12 DEF Missed, Kept, SameControl
<1>19. SpaceOK(y.t, n)
  BY <1>1, <1>6, <1>7, <1>11 DEF SpaceOK, TcbInv
<1>20. ASSUME ~Early, ~Subtasks
       PROVE  SendOK(y.t) /\ TimerOK(y.t, n) /\ FinOK(y.t, n)
  <2>1. SendOK(x.t) /\ TimerOK(x.t, n) /\ x.t.state \in Opened /\ AllSent(x.t) /\ x.t.psend = 0
    BY <1>1, <1>20 DEF TcbInv, Quiet
  <2>2. Sent(u) = u.sndq
    <3>1. /\ Sent(x.t) \in Nat /\ x.t.sndq \in Nat /\ x.t.una \in Seq32 /\ x.t.nxt \in Seq32
          /\ x.t.sndq < SeqMod \div 2
      BY <1>1, <2>1, FlightBound
    <3>2. x.t.sndq \in Seq32
      BY <3>1, HalfSpace DEF Seq32
    <3>3. Sent(x.t) = x.t.sndq
      <4>1. CASE x.t.sndq = 0
        BY <2>1, <3>1, <4>1 DEF SendOK
      <4>2. CASE x.t.nxt = Plus(x.t.una, x.t.sndq)
        BY <3>1, <3>2, <4>2, PlusMinus DEF Sent
      <4> QED
        BY <2>1, <4>1, <4>2 DEF AllSent
    <3> QED
      BY <1>7, <3>3 DEF Sent
  <2>3. "FINSENT" \notin u.flags /\ "FINQ" \in u.flags
    BY <1>7, <2>1 DEF SendOK
  <2>4. SendOK(u)
    BY <1>7, <1>14, <2>1, <2>2, <2>3 DEF SendOK, Opening, Opened, Ending
  <2>5. SendOK(y.t) /\ TimersSet(y.t) /\ (z.room => Driven(y))
    BY <1>5, <1>6, <1>7, <1>10, <1>14, <2>4, OutputFlight
  <2>6. y.t.msl <=> y.t.state = "TIME_WAIT"
    BY <1>6, <1>7, <1>11, <1>14, <2>1 DEF TimerOK, Opened
  <2>7. TimerOK(y.t, n)
    BY <1>1, <1>11, <1>18, <2>5, <2>6, DrivenTimers DEF SameControl, Result
  <2>8. FinOK(y.t, n)
    BY <1>1, <1>11, <1>14, <1>18, <2>5 DEF FinOK, Driven, Missed, SameControl, Ending
  <2> QED
    BY <2>5, <2>7, <2>8
<1>21. DataOK(y.t)
  BY <1>11 DEF Result
<1> QED
  BY <1>1, <1>11, <1>12, <1>13, <1>14, <1>16, <1>17, <1>18, <1>19, <1>20, <1>21
  DEF Kept, TcbInv, Ending

-----------------------------------------------------------------------------
(* The receiving side. *)
LEMMA RecvOnlyKeeps ==
    ASSUME NEW x, NEW n, Kept(x, n), NEW y, Result(y), SameControl(x, y),
           SamePlace(x.t, y.t), SameState(x.t, y.t), SameSend(x.t, y.t), SameTimers(x.t, y.t),
           RecvOK(y.t)
    PROVE  Kept(y, n)
<1>1. TcbInv(x.t, n) /\ n \in Nat /\ Missed(x, n)
  BY DEF Kept
<1>2. CallOK(y.t)
  BY <1>1, CallCarried DEF TcbInv
<1>3. SpaceOK(y.t, n)
  BY <1>1 DEF TcbInv, SpaceOK, SameSend
<1>4. ASSUME ~Early, ~Subtasks
      PROVE  SendOK(y.t) /\ TimerOK(y.t, n) /\ FinOK(y.t, n)
  <2>1. SendOK(x.t) /\ TimerOK(x.t, n) /\ FinOK(x.t, n)
    BY <1>1, <1>4 DEF TcbInv
  <2>2. Sent(y.t) = Sent(x.t)
    BY DEF Sent, SameSend
  <2>3. SendOK(y.t)
    BY <2>1, <2>2 DEF SendOK, SameSend, SameState, SamePlace
  <2>4. TimerOK(y.t, n)
    BY <2>1 DEF TimerOK, SameSend, SameState, SameTimers
  <2>5. FinOK(y.t, n)
    BY <2>1 DEF FinOK, SameSend, SameState
  <2> QED
    BY <2>3, <2>4, <2>5
<1>5. Missed(y, n) /\ DataOK(y.t)
  BY <1>1 DEF Missed, SameControl, Result
<1> QED
  BY <1>1, <1>2, <1>3, <1>4, <1>5 DEF Kept, TcbInv

(* tcp_recv_drain_to: what is read is offered again. *)
LEMMA DrainedKeeps ==
    ASSUME NEW t, DataOK(t), Len(t.rxq) + t.rwnd = RcvWnd, NEW want \in Nat,
           NEW u, u = Drained(t, want)
    PROVE  /\ DataOK(u) /\ Len(u.rxq) + u.rwnd = RcvWnd /\ u.precv = 0 /\ u.flags = t.flags
           /\ SamePlace(t, u) /\ SameState(t, u) /\ SameSend(t, u) /\ SameTimers(t, u)
<1>1. PICK L \in Nat : L = Len(t.rxq)
  BY DEF DataOK
<1>2. PICK k : k = Min({want, L})
  OBVIOUS
<1>3. k \in Nat /\ k <= L
  BY <1>2, MinOf
<1>4. PICK r \in 0 .. RcvWnd : r = t.rwnd /\ L + r = RcvWnd
  BY <1>1 DEF DataOK
<1>5. Min({r + k, RcvWnd}) = r + k
  <2>1. Min({r + k, RcvWnd}) = IF r + k <= RcvWnd THEN r + k ELSE RcvWnd
    BY <1>3, <1>4, HalfSpace, MinOf
  <2> QED
    BY <1>3, <1>4, <2>1, HalfSpace
<1>6. PICK q : q = SubSeq(t.rxq, k + 1, L)
  OBVIOUS
<1>7. q \in Seq(Byte) /\ Len(q) = L - k
  <2>1. t.rxq \in Seq(Byte)
    BY DEF DataOK
  <2> QED
    BY <1>1, <1>3, <1>6, <2>1
<1>8. PICK d \in Nat : d = t.rcvd + k
  BY <1>3 DEF DataOK
<1>9. u = [t EXCEPT !.rxq = q, !.rcvd = d, !.precv = 0, !.rwnd = r + k]
  BY <1>1, <1>2, <1>4, <1>5, <1>6, <1>8 DEF Drained
<1>10. r + k \in 0 .. RcvWnd
  BY <1>3, <1>4, HalfSpace
<1>11. DataOK(u)
  BY <1>7, <1>9, <1>10 DEF DataOK, TcbFields
<1>12. u.rxq = q /\ u.rwnd = r + k /\ u.precv = 0 /\ u.flags = t.flags
  BY <1>9 DEF DataOK, TcbFields
<1>13. SamePlace(t, u) /\ SameState(t, u)
  BY <1>9 DEF DataOK, TcbFields, SamePlace, SameState
<1>14. SameSend(t, u) /\ SameTimers(t, u)
  BY <1>9 DEF DataOK, TcbFields, SameSend, SameTimers
<1>15. Len(u.rxq) + u.rwnd = RcvWnd
  BY <1>3, <1>4, <1>7, <1>12, HalfSpace
<1> QED
  BY <1>11, <1>12, <1>13, <1>14, <1>15

(* A function from 1 on is a sequence. *)
LEMMA TupleOf ==
    ASSUME NEW S, NEW n \in Nat, NEW f \in [1 .. n -> S]
    PROVE  f \in Seq(S) /\ Len(f) = n
  OBVIOUS

(* Two sequences in a row. *)
LEMMA Joined ==
    ASSUME NEW S, NEW p \in Seq(S), NEW q \in Seq(S)
    PROVE  p \o q \in Seq(S) /\ Len(p \o q) = Len(p) + Len(q)
  OBVIOUS

(* And their elements. *)
LEMMA JoinedAt ==
    ASSUME NEW S, NEW p \in Seq(S), NEW q \in Seq(S), NEW i \in 1 .. Len(p) + Len(q)
    PROVE  (p \o q)[i] = IF i <= Len(p) THEN p[i] ELSE q[i - Len(p)]
  OBVIOUS

(* What is queued for RECV is taken from the window. *)
LEMMA QueuedKeeps ==
    ASSUME NEW t, DataOK(t), Len(t.rxq) + t.rwnd = RcvWnd, NEW g, SegOK(g),
           NEW u, u = Queued(t, g)
    PROVE  /\ DataOK(u) /\ Len(u.rxq) + u.rwnd = RcvWnd /\ u.precv = t.precv /\ u.flags = t.flags
           /\ SamePlace(t, u) /\ SameState(t, u) /\ SameSend(t, u) /\ SameTimers(t, u)
<1>1. PICK r \in 0 .. RcvWnd : r = t.rwnd
  BY DEF DataOK
<1>2. /\ t.rnxt \in Seq32 /\ g.seq \in Seq32 /\ g.len \in Nat /\ g.iss \in Seq32 /\ g.first \in Int
      /\ t.rxq \in Seq(Byte)
  BY DEF DataOK, SegOK
<1>3. PICK below \in Nat : below = Minus(t.rnxt, g.seq)
  BY <1>2, MinusIs, SeqNat
<1>4. PICK n : n = NewBytes(t, g)
  OBVIOUS
<1>5. n \in Nat /\ n <= r
  <2>1. CASE below < g.len
    <3>1. PICK m \in Nat : m = g.len - below
      BY <1>2, <1>3, <2>1
    <3>2. n = Min({m, r})
      BY <1>1, <1>3, <1>4, <2>1, <3>1 DEF NewBytes
    <3>3. n = IF m <= r THEN m ELSE r
      BY <1>1, <3>1, <3>2, MinOf
    <3> QED
      BY <1>1, <3>1, <3>3
  <2>2. CASE ~(below < g.len)
    BY <1>1, <1>3, <1>4, <2>2, HalfSpace DEF NewBytes
  <2> QED
    BY <2>1, <2>2
<1>6. PICK f \in Int : f = g.first + below
  BY <1>2, <1>3
<1>7. PICK bytes : bytes = [i \in 1 .. n |-> <<g.iss, f + i - 1, f>>]
  OBVIOUS
<1>8. bytes \in Seq(Byte) /\ Len(bytes) = n
  <2>1. \A i \in 1 .. n : <<g.iss, f + i - 1, f>> \in Byte
    BY <1>2, <1>5, <1>6 DEF Byte
  <2>2. bytes \in [1 .. n -> Byte]
    BY <1>7, <2>1
  <2> QED
    BY <1>5, <2>2, TupleOf
<1>9. PICK q : q = t.rxq \o bytes
  OBVIOUS
<1>10. q \in Seq(Byte) /\ Len(q) = Len(t.rxq) + n
  BY <1>2, <1>8, <1>9, Joined
<1>11. PICK p \in Seq32 : p = Plus(t.rnxt, n)
  <2>1. t.rnxt \in Int /\ n \in Int
    BY <1>2, <1>5, SeqNat
  <2> QED
    BY <2>1, PlusType
<1>12. u = [t EXCEPT !.rxq = q, !.rnxt = p, !.rwnd = r - n]
  BY <1>1, <1>3, <1>4, <1>6, <1>7, <1>9, <1>11 DEF Queued
<1>13. r - n \in 0 .. RcvWnd
  BY <1>1, <1>5, HalfSpace
<1>14. DataOK(u)
  BY <1>10, <1>11, <1>12, <1>13 DEF DataOK, TcbFields
<1>15. u.rxq = q /\ u.rwnd = r - n /\ u.precv = t.precv /\ u.flags = t.flags
  BY <1>12 DEF DataOK, TcbFields
<1>16. SamePlace(t, u) /\ SameState(t, u)
  BY <1>12 DEF DataOK, TcbFields, SamePlace, SameState
<1>17. SameSend(t, u) /\ SameTimers(t, u)
  BY <1>12 DEF DataOK, TcbFields, SameSend, SameTimers
<1>18. Len(u.rxq) + u.rwnd = RcvWnd
  <2>1. Len(t.rxq) \in Nat
    BY <1>2
  <2>2. PICK l \in Nat : l = Len(t.rxq)
    BY <2>1
  <2>3. l + r = RcvWnd /\ n \in Nat /\ r \in Nat /\ n <= r
    BY <1>1, <1>5, <2>2, HalfSpace
  <2>4. Len(u.rxq) = l + n /\ u.rwnd = r - n
    BY <1>10, <1>15, <2>2
  <2> QED
    BY <2>3, <2>4
<1> QED
  BY <1>14, <1>15, <1>16, <1>17, <1>18

(* A change of the receiving side alone. *)
RecvOnly(t, u) ==
    /\ SamePlace(t, u) /\ SameState(t, u) /\ SameSend(t, u) /\ SameTimers(t, u)
    /\ "RCVFIN" \in u.flags <=> "RCVFIN" \in t.flags

(* tcp_recv_data keeps the block, and works on the receiving side only. *)
LEMMA RecvDataKeeps ==
    ASSUME NEW x, NEW n, Kept(x, n), NEW g, SegOK(g), NEW y, y = RecvData(x, g)
    PROVE  Kept(y, n) /\ SameControl(x, y) /\ RecvOnly(x.t, y.t)
<1>1. Result(x) /\ DataOK(x.t) /\ RecvOK(x.t)
  BY DEF Kept, Result, TcbInv
<1>2. Len(x.t.rxq) + x.t.rwnd = RcvWnd
  BY <1>1 DEF RecvOK
<1>3. PICK q : q = Queued(x.t, g)
  OBVIOUS
<1>4. /\ DataOK(q) /\ Len(q.rxq) + q.rwnd = RcvWnd /\ q.precv = x.t.precv /\ q.flags = x.t.flags
      /\ SamePlace(x.t, q) /\ SameState(x.t, q) /\ SameSend(x.t, q) /\ SameTimers(x.t, q)
  BY <1>1, <1>2, <1>3, QueuedKeeps
<1>5. PICK want \in Nat : want = q.precv
  BY <1>4 DEF DataOK
<1>6. PICK d : d = Drained(q, want)
  OBVIOUS
<1>7. /\ DataOK(d) /\ Len(d.rxq) + d.rwnd = RcvWnd /\ d.precv = 0 /\ d.flags = q.flags
      /\ SamePlace(q, d) /\ SameState(q, d) /\ SameSend(q, d) /\ SameTimers(q, d)
  BY <1>4, <1>5, <1>6, DrainedKeeps
<1>8. PICK u : u = IF Accepts(x.t, g) THEN IF want > 0 THEN d ELSE q ELSE x.t
  OBVIOUS
<1>9. y = Ack([x EXCEPT !.t = u])
  <2>1. CASE Accepts(x.t, g)
    BY <1>3, <1>5, <1>6, <1>8, <2>1 DEF RecvData
  <2>2. CASE ~Accepts(x.t, g)
    BY <1>8, <2>2 DEF RecvData
  <2> QED
    BY <2>1, <2>2
<1>10. DataOK(u) /\ RecvOK(u) /\ RecvOnly(x.t, u)
  <2>1. CASE ~Accepts(x.t, g)
    <3>1. u = x.t
      BY <1>8, <2>1
    <3>2. RecvOnly(x.t, x.t)
      BY DEF RecvOnly, SamePlace, SameState, SameSend, SameTimers
    <3> QED
      BY <1>1, <3>1, <3>2
  <2>2. CASE Accepts(x.t, g) /\ want > 0
    <3>1. u = d
      BY <1>8, <2>2
    <3>2. RecvOnly(x.t, d)
      <4>1. SamePlace(x.t, d)
        BY <1>4, <1>7 DEF SamePlace
      <4>2. SameState(x.t, d) /\ SameTimers(x.t, d)
        BY <1>4, <1>7 DEF SameState, SameTimers
      <4>3. SameSend(x.t, d)
        BY <1>4, <1>7 DEF SameSend
      <4> QED
        BY <1>4, <1>7, <4>1, <4>2, <4>3 DEF RecvOnly
    <3>3. RecvOK(d)
      BY <1>1, <1>7, <3>2 DEF RecvOK, RecvOnly, SameState
    <3> QED
      BY <1>7, <3>1, <3>2, <3>3
  <2>3. CASE Accepts(x.t, g) /\ ~(want > 0)
    <3>1. u = q
      BY <1>8, <2>3
    <3>2. RecvOnly(x.t, q)
      BY <1>4 DEF RecvOnly
    <3>3. RecvOK(q)
      BY <1>1, <1>4, <1>5, <2>3 DEF RecvOK, SameState
    <3> QED
      BY <1>4, <3>1, <3>2, <3>3
  <2> QED
    BY <2>1, <2>2, <2>3
<1>11. PICK z : z = [x EXCEPT !.t = u]
  OBVIOUS
<1>12. z.t = u /\ Result(z) /\ SameControl(x, z)
  BY <1>1, <1>10, <1>11 DEF Result, ResultFields, SameControl
<1>13. Result(y) /\ SameControl(z, y) /\ y.t = u
  BY <1>9, <1>11, <1>12, AckKeeps
<1>14. SameControl(x, y)
  BY <1>12, <1>13 DEF SameControl
<1>15. Kept(y, n)
  BY <1>10, <1>13, <1>14, RecvOnlyKeeps DEF RecvOnly
<1> QED
  BY <1>10, <1>13, <1>14, <1>15

(* RECV. *)
LEMMA RecvCallKeeps ==
    ASSUME NEW x, NEW n, Kept(x, n), NEW want \in Nat, NEW y, y = RecvCall(x, want)
    PROVE  Kept(y, n) /\ SameControl(x, y) /\ RecvOnly(x.t, y.t)
<1>1. Result(x) /\ DataOK(x.t) /\ RecvOK(x.t)
  BY DEF Kept, Result, TcbInv
<1>2. RecvOnly(x.t, x.t) /\ SameControl(x, x)
  BY DEF RecvOnly, SamePlace, SameState, SameSend, SameTimers, SameControl
<1>3. CASE x.t.rxq # <<>>
  <2>1. PICK d : d = Drained(x.t, want)
    OBVIOUS
  <2>2. /\ DataOK(d) /\ Len(d.rxq) + d.rwnd = RcvWnd /\ d.precv = 0 /\ d.flags = x.t.flags
        /\ SamePlace(x.t, d) /\ SameState(x.t, d) /\ SameSend(x.t, d) /\ SameTimers(x.t, d)
    BY <1>1, <2>1, DrainedKeeps DEF RecvOK
  <2>3. RecvOnly(x.t, d) /\ RecvOK(d)
    BY <1>1, <2>2 DEF RecvOnly, RecvOK, SameState
  <2>4. PICK z : z = [x EXCEPT !.t = d]
    OBVIOUS
  <2>5. z.t = d /\ Result(z) /\ SameControl(x, z)
    BY <1>1, <2>2, <2>4 DEF Result, ResultFields, SameControl
  <2>6. y = z \/ y = Ack(z)
    BY <1>3, <2>1, <2>4 DEF RecvCall
  <2>7. Result(y) /\ SameControl(x, y) /\ y.t = d
    <3>1. Result(Ack(z)) /\ SameControl(z, Ack(z)) /\ Ack(z).t = z.t
      BY <2>5, AckKeeps
    <3> QED
      BY <2>5, <2>6, <3>1 DEF SameControl
  <2>8. Kept(y, n)
    BY <2>3, <2>7, RecvOnlyKeeps DEF RecvOnly
  <2> QED
    BY <2>3, <2>7, <2>8
<1>4. CASE x.t.rxq = <<>> /\ ~AtEof(x.t)
  <2>1. PICK u : u = [x.t EXCEPT !.precv = want]
    OBVIOUS
  <2>2. y = [x EXCEPT !.t.precv = want]
    BY <1>4 DEF RecvCall
  <2>3. y.t = u /\ y.out = x.out /\ SameControl(x, y) /\ ResultFields \subseteq DOMAIN y
    BY <1>1, <2>1, <2>2 DEF Result, ResultFields, SameControl
  <2>4. DataOK(u)
    BY <1>1, <2>1 DEF DataOK, TcbFields
  <2>5. Result(y)
    BY <1>1, <2>3, <2>4 DEF Result, SameControl
  <2>6. RecvOnly(x.t, u)
    <3>1. SamePlace(x.t, u) /\ SameState(x.t, u)
      BY <1>1, <2>1 DEF DataOK, TcbFields, SamePlace, SameState
    <3>2. SameSend(x.t, u) /\ SameTimers(x.t, u) /\ u.flags = x.t.flags
      BY <1>1, <2>1 DEF DataOK, TcbFields, SameSend, SameTimers
    <3> QED
      BY <3>1, <3>2 DEF RecvOnly
  <2>7. u.rxq = x.t.rxq /\ u.rwnd = x.t.rwnd /\ u.flags = x.t.flags /\ u.state = x.t.state
    BY <1>1, <2>1 DEF DataOK, TcbFields
  <2>8. RecvOK(u)
    BY <1>1, <1>4, <2>7 DEF RecvOK, AtEof
  <2>9. Kept(y, n)
    BY <2>3, <2>5, <2>6, <2>8, RecvOnlyKeeps DEF RecvOnly
  <2> QED
    BY <2>3, <2>6, <2>9
<1>5. CASE x.t.rxq = <<>> /\ AtEof(x.t)
  <2>1. y = x
    BY <1>5 DEF RecvCall
  <2> QED
    BY <1>2, <2>1
<1> QED
  BY <1>3, <1>4, <1>5

(* A result whose control block is replaced. *)
LEMMA PutBlock ==
    ASSUME NEW x, Result(x), NEW u, DataOK(u), NEW y, y = [x EXCEPT !.t = u]
    PROVE  Result(y) /\ SameControl(x, y) /\ y.t = u
  BY DEF Result, ResultFields, SameControl

(* A connection changes its state and nothing else. *)
LEMMA StateMoves ==
    ASSUME NEW t, DataOK(t), NEW s \in States, NEW u, u = [t EXCEPT !.state = s]
    PROVE  /\ DataOK(u) /\ u.state = s /\ u.pconn = t.pconn /\ SamePlace(t, u)
           /\ SameRecv(t, u) /\ SameSend(t, u) /\ SameTimers(t, u) /\ Sent(u) = Sent(t)
<1>1. DataOK(u) /\ u.state = s /\ u.pconn = t.pconn
  BY DEF DataOK, TcbFields
<1>2. SamePlace(t, u)
  BY DEF DataOK, TcbFields, SamePlace
<1>3. SameRecv(t, u) /\ SameTimers(t, u)
  BY DEF DataOK, TcbFields, SameRecv, SameTimers
<1>4. SameSend(t, u)
  BY DEF DataOK, TcbFields, SameSend
<1>5. Sent(u) = Sent(t)
  BY <1>4 DEF Sent, SameSend
<1> QED
  BY <1>1, <1>2, <1>3, <1>4, <1>5

(* tcp_enter_timewait, with nothing in flight. *)
LEMMA EnterTimeWaitKeeps ==
    ASSUME NEW t, NEW n \in Nat, DataOK(t), RecvOK(t), SpaceOK(t, n), ~t.pconn,
           "RCVFIN" \in t.flags,
           Quiet => /\ SendOK(t) /\ Sent(t) = 0 /\ t.sndq = 0 /\ t.state \in Ending
                    /\ "FINSENT" \notin t.flags => n >= 2,
           NEW u, u = EnterTimeWait(t)
    PROVE  TcbInv(u, n) /\ SamePlace(t, u) /\ u.state = "TIME_WAIT"
<1>1. "TIME_WAIT" \in States
  BY DEF States
<1>2. DataOK(u)
  BY <1>1 DEF EnterTimeWait, DataOK, TcbFields
<1>3. /\ u.state = "TIME_WAIT" /\ ~u.rexmit /\ ~u.persist /\ u.msl /\ u.pconn = t.pconn
  BY DEF EnterTimeWait, DataOK, TcbFields
<1>4. SamePlace(t, u) /\ SameRecv(t, u)
  BY DEF EnterTimeWait, DataOK, TcbFields, SamePlace, SameRecv
<1>5. SameSend(t, u)
  BY DEF EnterTimeWait, DataOK, TcbFields, SameSend
<1>6. RecvOK(u)
  BY <1>3, <1>4 DEF RecvOK, SameRecv
<1>7. CallOK(u) /\ SpaceOK(u, n)
  BY <1>3, <1>5 DEF CallOK, SpaceOK, SameSend
<1>8. ASSUME ~Early, ~Subtasks
      PROVE  SendOK(u) /\ TimerOK(u, n) /\ FinOK(u, n)
  <2>1. /\ SendOK(t) /\ Sent(t) = 0 /\ t.sndq = 0 /\ t.state \in Ending
        /\ "FINSENT" \notin t.flags => n >= 2
    BY <1>8 DEF Quiet
  <2>2. Sent(u) = 0 /\ u.sndq = 0 /\ u.una = u.nxt
    BY <1>5, <2>1, FlightBound DEF Sent, SameSend
  <2>3. t.psend = 0 /\ "FINQ" \in t.flags
    BY <2>1 DEF SendOK, Ending, Opened
  <2>4. SendOK(u)
    BY <1>3, <1>5, <2>2, <2>3 DEF SendOK, SameSend, Ending, Opened, Opening
  <2>5. TimerOK(u, n)
    BY <1>3, <2>2 DEF TimerOK
  <2>6. FinOK(u, n)
    BY <1>5, <2>1 DEF FinOK, SameSend
  <2> QED
    BY <2>4, <2>5, <2>6
<1> QED
  BY <1>2, <1>3, <1>4, <1>6, <1>7, <1>8 DEF TcbInv

(* A FIN that is not sent before the peer's end is known was missed twice. *)
Strong(t, n) == Quiet /\ t.state = "FIN_WAIT_1" /\ "FINSENT" \notin t.flags => n >= 2

(* Where the peer's FIN leads. *)
FinLeads(t) ==
    CASE t.state \in {"SYN_RCVD", "ESTABLISHED"} -> [t EXCEPT !.state = "CLOSE_WAIT"]
      [] t.state = "FIN_WAIT_1" -> [t EXCEPT !.state = "CLOSING"]
      [] t.state = "FIN_WAIT_2" -> EnterTimeWait(t)
      [] OTHER -> t

(* The state a FIN leads to. *)
LEMMA FinLeadsKeeps ==
    ASSUME NEW t, NEW n \in Nat, TcbInv(t, n), Strong(t, n), "RCVFIN" \in t.flags,
           t.state \in Opened \cup Ending, NEW u, u = FinLeads(t)
    PROVE  TcbInv(u, n) /\ SamePlace(t, u) /\ u.state \in Opened \cup Ending
<1>1. /\ DataOK(t) /\ RecvOK(t) /\ CallOK(t) /\ SpaceOK(t, n)
      /\ Quiet => SendOK(t) /\ TimerOK(t, n) /\ FinOK(t, n)
  BY DEF TcbInv, Quiet
<1>2. ~t.pconn
  BY <1>1 DEF CallOK, Opened, Ending
<1>3. CASE t.state = "FIN_WAIT_2"
  <2>1. u = EnterTimeWait(t)
    BY <1>3 DEF FinLeads
  <2>2. Quiet => /\ SendOK(t) /\ Sent(t) = 0 /\ t.sndq = 0 /\ t.state \in Ending
                 /\ "FINSENT" \notin t.flags => n >= 2
    BY <1>1, <1>3 DEF SendOK, FinOK, Ending
  <2>3. TcbInv(u, n) /\ SamePlace(t, u) /\ u.state = "TIME_WAIT"
    BY <1>1, <1>2, <2>1, <2>2, EnterTimeWaitKeeps
  <2> QED
    BY <2>3 DEF Ending
<1>4. CASE t.state \in {"ESTABLISHED", "FIN_WAIT_1"}
  <2>1. PICK s \in {"CLOSE_WAIT", "CLOSING"} :
            s = IF t.state = "ESTABLISHED" THEN "CLOSE_WAIT" ELSE "CLOSING"
    OBVIOUS
  <2>2. u = [t EXCEPT !.state = s]
    BY <1>4, <2>1 DEF FinLeads
  <2>3. /\ DataOK(u) /\ u.state = s /\ u.pconn = t.pconn /\ SamePlace(t, u)
        /\ SameRecv(t, u) /\ SameSend(t, u) /\ SameTimers(t, u) /\ Sent(u) = Sent(t)
    <3>1. s \in States
      BY <2>1 DEF States
    <3> QED
      BY <1>1, <2>2, <3>1, StateMoves
  <2>4. RecvOK(u)
    BY <1>1, <2>3 DEF RecvOK, SameRecv
  <2>5. CallOK(u)
    BY <1>2, <2>1, <2>3 DEF CallOK
  <2>6. SpaceOK(u, n)
    BY <1>1, <2>3 DEF SpaceOK, SameSend
  <2>7. ASSUME ~Early, ~Subtasks
        PROVE  SendOK(u) /\ TimerOK(u, n) /\ FinOK(u, n)
    <3>1. SendOK(t) /\ TimerOK(t, n) /\ FinOK(t, n)
      BY <1>1, <2>7 DEF Quiet
    <3>2. SendOK(u)
      BY <1>4, <2>1, <2>3, <3>1 DEF SendOK, SameSend, Opening, Opened, Ending
    <3>3. TimerOK(u, n)
      BY <1>4, <2>1, <2>3, <3>1 DEF TimerOK, SameSend, SameTimers
    <3>4. FinOK(u, n)
      BY <1>4, <2>1, <2>3, <2>7 DEF FinOK, SameSend, Strong, Quiet, Ending
    <3> QED
      BY <3>2, <3>3, <3>4
  <2>8. u.state \in Opened \cup Ending
    BY <2>1, <2>3 DEF Opened, Ending
  <2> QED
    BY <2>3, <2>4, <2>5, <2>6, <2>7, <2>8 DEF TcbInv
<1>5. CASE t.state \in {"CLOSE_WAIT", "CLOSING", "LAST_ACK", "TIME_WAIT"}
  <2>1. u = t
    BY <1>5 DEF FinLeads
  <2> QED
    BY <2>1 DEF SamePlace
<1> QED
  BY <1>3, <1>4, <1>5 DEF Opened, Ending

(* tcp_process_fin. *)
LEMMA ProcessFinKeeps ==
    ASSUME NEW x, NEW n, Kept(x, n), Strong(x.t, n), x.t.state \in Opened \cup Ending,
           NEW g, SegOK(g), NEW y, y = ProcessFin(x, g)
    PROVE  Kept(y, n) /\ SameControl(x, y) /\ SamePlace(x.t, y.t)
           /\ y.t.state \in Opened \cup Ending
<1>1. Result(x) /\ DataOK(x.t) /\ RecvOK(x.t) /\ n \in Nat /\ Missed(x, n)
  BY DEF Kept, Result, TcbInv
<1>2. CASE Plus(g.seq, g.len) # x.t.rnxt
  <2>1. y = x
    BY <1>2 DEF ProcessFin
  <2> QED
    BY <2>1 DEF SameControl, SamePlace
<1>3. CASE Plus(g.seq, g.len) = x.t.rnxt
  <2>1. PICK p \in Seq32 : p = Plus(x.t.rnxt, 1)
    BY <1>1, PlusOne DEF DataOK
  <2>2. PICK v \in Nat : v = IF x.t.rxq = <<>> THEN 0 ELSE x.t.precv
    BY <1>1 DEF DataOK
  <2>3. PICK u : u = [x.t EXCEPT !.rnxt = p, !.flags = @ \cup {"RCVFIN"}, !.precv = v]
    OBVIOUS
  <2>4. PICK z : z = [x EXCEPT !.t = u]
    OBVIOUS
  <2>5. z = [x EXCEPT !.t.rnxt = Plus(@, 1), !.t.flags = @ \cup {"RCVFIN"},
                      !.t.precv = IF x.t.rxq = <<>> THEN 0 ELSE @]
    BY <1>1, <2>1, <2>2, <2>3, <2>4 DEF Result, ResultFields, DataOK, TcbFields
  <2>6. DataOK(u)
    BY <1>1, <2>1, <2>2, <2>3 DEF DataOK, TcbFields
  <2>7. /\ u.flags = x.t.flags \cup {"RCVFIN"} /\ u.precv = v
        /\ u.rxq = x.t.rxq /\ u.rwnd = x.t.rwnd
    BY <1>1, <2>3 DEF DataOK, TcbFields
  <2>8. SamePlace(x.t, u) /\ SameState(x.t, u)
    BY <1>1, <2>3 DEF DataOK, TcbFields, SamePlace, SameState
  <2>9. SameSend(x.t, u) /\ SameTimers(x.t, u)
    <3>1. /\ u.una = x.t.una /\ u.nxt = x.t.nxt /\ u.sndq = x.t.sndq /\ u.psend = x.t.psend
          /\ u.wnd = x.t.wnd
      BY <1>1, <2>3 DEF DataOK, TcbFields
    <3>2. SameTimers(x.t, u)
      BY <1>1, <2>3 DEF DataOK, TcbFields, SameTimers
    <3> QED
      BY <2>7, <3>1, <3>2 DEF SameSend
  <2>10. RecvOK(u)
    <3>1. ~(v > 0)
      BY <1>1, <2>2 DEF RecvOK, DataOK
    <3> QED
      BY <1>1, <2>7, <3>1 DEF RecvOK
  <2>11. PICK a : a = Ack(z)
    OBVIOUS
  <2>12. Result(a) /\ SameControl(x, a) /\ a.t = u
    <3>1. Result(z) /\ SameControl(x, z) /\ z.t = u
      BY <1>1, <2>4, <2>6, PutBlock
    <3>2. Result(a) /\ SameControl(z, a) /\ a.t = u
      BY <2>11, <3>1, AckKeeps
    <3> QED
      BY <3>1, <3>2 DEF SameControl
  <2>13. Kept(a, n)
    BY <2>8, <2>9, <2>10, <2>12, RecvOnlyKeeps
  <2>14. PICK w : w = FinLeads(u)
    OBVIOUS
  <2>15. y = [a EXCEPT !.t = w]
    BY <1>3, <2>5, <2>11, <2>12, <2>14 DEF ProcessFin, FinLeads
  <2>16. TcbInv(w, n) /\ SamePlace(u, w) /\ w.state \in Opened \cup Ending
    <3>1. TcbInv(u, n)
      BY <2>12, <2>13 DEF Kept
    <3>2. Strong(u, n)
      BY <2>8, <2>9 DEF Strong, SameState, SameSend
    <3>3. u.state \in Opened \cup Ending /\ "RCVFIN" \in u.flags
      BY <2>7, <2>8 DEF SameState
    <3> QED
      BY <1>1, <2>14, <3>1, <3>2, <3>3, FinLeadsKeeps
  <2>17. Result(y) /\ SameControl(a, y) /\ y.t = w
    BY <2>12, <2>15, <2>16, PutBlock DEF TcbInv
  <2>18. SameControl(x, y) /\ SamePlace(x.t, w)
    <3>1. SameControl(x, y)
      BY <2>12, <2>17 DEF SameControl
    <3>2. SamePlace(x.t, w)
      BY <2>8, <2>16 DEF SamePlace
    <3> QED
      BY <3>1, <3>2
  <2>19. Missed(y, n)
    BY <1>1, <2>18 DEF Missed, SameControl
  <2> QED
    BY <1>1, <2>16, <2>17, <2>18, <2>19 DEF Kept
<1> QED
  BY <1>2, <1>3

-----------------------------------------------------------------------------
(* Acknowledgments. *)
LEMMA UpdateWindowKeeps ==
    ASSUME NEW t, DataOK(t), NEW g, SegOK(g), NEW u, u = UpdateWindow(t, g)
    PROVE  /\ DataOK(u) /\ SamePlace(t, u) /\ SameState(t, u) /\ SameRecv(t, u)
           /\ SameTimers(t, u) /\ u.flags = t.flags
           /\ u.una = t.una /\ u.nxt = t.nxt /\ u.sndq = t.sndq /\ u.psend = t.psend
<1>1. CASE u = t
  BY <1>1 DEF SamePlace, SameState, SameRecv, SameTimers
<1>2. CASE u = [t EXCEPT !.wnd = g.wnd, !.wl1 = g.seq, !.wl2 = g.ack]
  <2>1. DataOK(u)
    BY <1>2 DEF DataOK, TcbFields, SegOK
  <2>2. SamePlace(t, u) /\ SameState(t, u)
    BY <1>2 DEF DataOK, TcbFields, SamePlace, SameState
  <2>3. SameRecv(t, u) /\ SameTimers(t, u)
    BY <1>2 DEF DataOK, TcbFields, SameRecv, SameTimers
  <2>4. /\ u.flags = t.flags
        /\ u.una = t.una /\ u.nxt = t.nxt /\ u.sndq = t.sndq /\ u.psend = t.psend
    BY <1>2 DEF DataOK, TcbFields
  <2> QED
    BY <2>1, <2>2, <2>3, <2>4
<1> QED
  BY <1>1, <1>2 DEF UpdateWindow

(* The handshake is over. *)
LEMMA EnterEstablishedKeeps ==
    ASSUME NEW x, Result(x), NEW y, y = EnterEstablished(x)
    PROVE  /\ Result(y) /\ y.room = x.room /\ y.go = x.go /\ y.gone = x.gone
           /\ y.grad <=> x.t.listener # NoTcb
           /\ y.t.state = "ESTABLISHED" /\ ~y.t.pconn /\ y.t.flags = x.t.flags
           /\ SamePlace(x.t, y.t) /\ SameRecv(x.t, y.t) /\ SameSend(x.t, y.t)
           /\ SameTimers(x.t, y.t)
<1>1. DataOK(x.t)
  BY DEF Result
<1>2. PICK u : u = [x.t EXCEPT !.state = "ESTABLISHED", !.backoff = 0, !.pconn = FALSE]
  OBVIOUS
<1>3. PICK gr \in BOOLEAN : gr = (x.t.listener # NoTcb)
  OBVIOUS
<1>4. y = [x EXCEPT !.t = u, !.grad = gr]
  BY <1>1, <1>2, <1>3 DEF EnterEstablished, Result, ResultFields
<1>5. DataOK(u)
  <2>1. "ESTABLISHED" \in States
    BY DEF States
  <2> QED
    BY <1>1, <1>2, <2>1 DEF DataOK, TcbFields
<1>6. /\ y.t = u /\ y.out = x.out /\ y.room = x.room /\ y.go = x.go /\ y.gone = x.gone
      /\ y.grad = gr /\ ResultFields \subseteq DOMAIN y
  BY <1>4 DEF Result, ResultFields
<1>7. Result(y)
  BY <1>3, <1>5, <1>6 DEF Result
<1>8. u.state = "ESTABLISHED" /\ ~u.pconn /\ u.flags = x.t.flags
  BY <1>1, <1>2 DEF DataOK, TcbFields
<1>9. SamePlace(x.t, u) /\ SameRecv(x.t, u)
  BY <1>1, <1>2 DEF DataOK, TcbFields, SamePlace, SameRecv
<1>10. SameSend(x.t, u) /\ SameTimers(x.t, u)
  BY <1>1, <1>2 DEF DataOK, TcbFields, SameSend, SameTimers
<1> QED
  BY <1>3, <1>6, <1>7, <1>8, <1>9, <1>10

(* A connection that is established has nothing in flight but data. *)
LEMMA EstablishedKept ==
    ASSUME NEW x, Result(x), NEW n \in Nat, Missed(x, n), x.t.state = "ESTABLISHED",
           ~x.t.pconn, Len(x.t.rxq) + x.t.rwnd = RcvWnd, SpaceOK(x.t, n),
           x.t.precv > 0 => x.t.rxq = <<>> /\ "RCVFIN" \notin x.t.flags,
           x.t.precv > 0 /\ ~Subtasks => "SHUTRD" \notin x.t.flags,
           Quiet => /\ SendOK(x.t) /\ Sent(x.t) = 0 /\ x.t.sndq = 0 /\ TimersSet(x.t)
                    /\ ~x.t.msl
    PROVE  Kept(x, n)
<1>1. DataOK(x.t) /\ x.room \in BOOLEAN
  BY DEF Result
<1>2. RecvOK(x.t) /\ CallOK(x.t)
  BY DEF RecvOK, CallOK
<1>3. ASSUME ~Early, ~Subtasks
      PROVE  SendOK(x.t) /\ TimerOK(x.t, n) /\ FinOK(x.t, n)
  <2>1. SendOK(x.t) /\ Sent(x.t) = 0 /\ x.t.sndq = 0 /\ TimersSet(x.t) /\ ~x.t.msl
    BY <1>3 DEF Quiet
  <2>2. TimerOK(x.t, n)
    <3>1. ~(x.t.sndq > 0) /\ x.t.una = x.t.nxt
      BY <1>1, <2>1, FlightBound
    <3> QED
      BY <2>1, <3>1 DEF TimerOK, TimersSet
  <2> QED
    BY <2>1, <2>2 DEF FinOK, Ending
<1> QED
  BY <1>1, <1>2, <1>3 DEF Kept, TcbInv

(* The SYN is acknowledged: the child is established, or nothing moves. *)
LEMMA AckOfSynKeeps ==
    ASSUME NEW x, NEW n, Kept(x, n), x.t.state = "SYN_RCVD", NEW g, SegOK(g),
           NEW y, y = AckOfSyn(x, g)
    PROVE  /\ Kept(y, n) /\ SamePlace(x.t, y.t) /\ y.room = x.room /\ y.gone = x.gone
           /\ \/ ~y.go /\ y.t = x.t /\ y.grad = x.grad
              \/ /\ y.go = x.go /\ y.t.state = "ESTABLISHED"
                 /\ y.grad <=> x.t.listener # NoTcb
<1>1. Result(x) /\ DataOK(x.t) /\ x.room \in BOOLEAN /\ TcbInv(x.t, n) /\ n \in Nat /\ Missed(x, n)
  BY DEF Kept, Result
<1>2. CASE SeqLEQ(g.ack, x.t.una) \/ SeqGT(g.ack, x.t.nxt)
  <2>1. PICK z : z = Send(x, RstFor(g))
    OBVIOUS
  <2>2. Result(z) /\ SameControl(x, z) /\ z.t = x.t
    BY <1>1, <2>1, SendKeeps, RstOK
  <2>3. y = [z EXCEPT !.go = FALSE]
    BY <1>2, <2>1 DEF AckOfSyn
  <2>4. /\ Result(y) /\ y.t = x.t /\ y.room = x.room /\ y.grad = x.grad /\ y.gone = x.gone
        /\ ~y.go
    BY <2>2, <2>3 DEF Result, ResultFields, SameControl
  <2>5. Kept(y, n) /\ SamePlace(x.t, y.t)
    BY <1>1, <2>4 DEF Kept, Missed, SamePlace
  <2> QED
    BY <2>4, <2>5
<1>3. CASE ~(SeqLEQ(g.ack, x.t.una) \/ SeqGT(g.ack, x.t.nxt))
  <2>1. PICK v : v = [x.t EXCEPT !.una = g.ack]
    OBVIOUS
  <2>2. DataOK(v)
    BY <1>1, <2>1 DEF DataOK, TcbFields, SegOK
  <2>3. SamePlace(x.t, v) /\ SameState(x.t, v)
    BY <1>1, <2>1 DEF DataOK, TcbFields, SamePlace, SameState
  <2>4. SameRecv(x.t, v) /\ SameTimers(x.t, v)
    BY <1>1, <2>1 DEF DataOK, TcbFields, SameRecv, SameTimers
  <2>5. /\ v.una = g.ack /\ v.nxt = x.t.nxt /\ v.sndq = x.t.sndq /\ v.psend = x.t.psend
        /\ v.flags = x.t.flags
    BY <1>1, <2>1 DEF DataOK, TcbFields
  <2>6. PICK u : u = UpdateWindow(v, g)
    OBVIOUS
  <2>7. /\ DataOK(u) /\ SamePlace(v, u) /\ SameState(v, u) /\ SameRecv(v, u)
        /\ SameTimers(v, u) /\ u.flags = v.flags
        /\ u.una = v.una /\ u.nxt = v.nxt /\ u.sndq = v.sndq /\ u.psend = v.psend
    BY <2>2, <2>6, UpdateWindowKeeps
  <2>8. PICK a : a = [x EXCEPT !.t = u]
    OBVIOUS
  <2>9. Result(a) /\ SameControl(x, a) /\ a.t = u
    BY <1>1, <2>7, <2>8, PutBlock
  <2>10. PICK e : e = EnterEstablished(a)
    OBVIOUS
  <2>11. /\ Result(e) /\ e.room = a.room /\ e.go = a.go /\ e.gone = a.gone
         /\ e.grad <=> u.listener # NoTcb
         /\ e.t.state = "ESTABLISHED" /\ ~e.t.pconn /\ e.t.flags = u.flags
         /\ SamePlace(u, e.t) /\ SameRecv(u, e.t) /\ SameSend(u, e.t)
         /\ SameTimers(u, e.t)
    BY <2>9, <2>10, EnterEstablishedKeeps
  <2>12. y = TimersOf(e)
    BY <1>3, <2>1, <2>6, <2>8, <2>10 DEF AckOfSyn
  <2>13. Result(y) /\ SameControl(e, y) /\ y.t = Timers(e.t) /\ DataOK(e.t)
    BY <2>11, <2>12, TimersOfKeeps DEF Result
  <2>14. /\ SamePlace(e.t, y.t) /\ SameState(e.t, y.t) /\ SameRecv(e.t, y.t)
         /\ SameSend(e.t, y.t) /\ y.t.msl = e.t.msl
    BY <2>13, TimersKeep
  <2>15. SamePlace(x.t, y.t)
    BY <2>3, <2>7, <2>11, <2>14 DEF SamePlace
  <2>16. SameRecv(x.t, y.t)
    BY <2>4, <2>7, <2>11, <2>14 DEF SameRecv
  <2>17. y.room = x.room /\ y.go = x.go /\ y.gone = x.gone /\ y.grad = e.grad
    BY <2>9, <2>11, <2>13 DEF SameControl
  <2>18. y.grad <=> x.t.listener # NoTcb
    BY <2>3, <2>7, <2>11, <2>17 DEF SamePlace
  <2>19. y.t.state = "ESTABLISHED" /\ ~y.t.pconn
    BY <2>11, <2>14 DEF SameState
  <2>20. y.t.sndq = x.t.sndq /\ y.t.psend = x.t.psend
    BY <2>5, <2>7, <2>11, <2>14 DEF SameSend
  <2>21. ASSUME Quiet
         PROVE  /\ SendOK(y.t) /\ Sent(y.t) = 0 /\ y.t.sndq = 0 /\ TimersSet(y.t)
                /\ ~y.t.msl
    <3>1. SendOK(x.t) /\ TimerOK(x.t, n)
      BY <1>1, <2>21 DEF TcbInv, Quiet
    <3>2. Sent(x.t) = 1 /\ x.t.sndq = 0 /\ x.t.psend = 0 /\ "FINQ" \notin x.t.flags
      BY <3>1 DEF SendOK, Opening, Opened, Ending
    <3>3. SeqGT(g.ack, x.t.una) /\ ~SeqGT(g.ack, x.t.nxt)
      BY <1>3 DEF SeqLEQ
    <3>4. x.t.una \in Seq32 /\ x.t.nxt \in Seq32 /\ g.ack \in Seq32 /\ Sent(x.t) <= SeqMod \div 2
      BY <1>1, <3>1, FlightBound DEF SegOK
    <3>5. Minus(x.t.nxt, g.ack) = 0
      <4>1. /\ Minus(g.ack, x.t.una) \in Nat /\ Minus(g.ack, x.t.una) >= 1
            /\ Minus(g.ack, x.t.una) <= Minus(x.t.nxt, x.t.una)
            /\ Minus(x.t.nxt, g.ack) = Minus(x.t.nxt, x.t.una) - Minus(g.ack, x.t.una)
        BY <3>3, <3>4, AckTakes DEF Sent
      <4> QED
        BY <3>2, <4>1 DEF Sent
    <3>6. /\ e.t.una = g.ack /\ e.t.nxt = x.t.nxt /\ e.t.sndq = 0 /\ e.t.psend = 0
          /\ "FINQ" \notin e.t.flags /\ "FINSENT" \notin e.t.flags
      <4>1. /\ e.t.una = g.ack /\ e.t.nxt = x.t.nxt /\ e.t.sndq = x.t.sndq
            /\ e.t.psend = x.t.psend /\ e.t.flags = x.t.flags
        BY <2>5, <2>7, <2>11 DEF SameSend
      <4> QED
        BY <3>1, <3>2, <4>1 DEF SendOK
    <3>7. Sent(e.t) = 0
      BY <3>5, <3>6 DEF Sent
    <3>8. SendOK(e.t)
      BY <2>11, <3>6, <3>7 DEF SendOK, Opening, Opened, Ending
    <3>9. SendOK(y.t) /\ TimersSet(y.t)
      BY <2>13, <3>8, TimersFlight
    <3>10. Sent(y.t) = 0 /\ y.t.sndq = 0
      BY <2>14, <3>6, <3>7 DEF Sent, SameSend
    <3>11. ~y.t.msl
      BY <2>4, <2>7, <2>11, <2>14, <3>1 DEF TimerOK, SameTimers
    <3> QED
      BY <3>9, <3>10, <3>11
  <2>22. Kept(y, n)
    <3>1. RecvOK(x.t) /\ SpaceOK(x.t, n)
      BY <1>1 DEF TcbInv
    <3>2. SpaceOK(y.t, n)
      BY <2>20, <3>1 DEF SpaceOK
    <3>3. Missed(y, n)
      BY <1>1, <2>17 DEF Missed
    <3>4. /\ Len(y.t.rxq) + y.t.rwnd = RcvWnd
          /\ y.t.precv > 0 => y.t.rxq = <<>> /\ "RCVFIN" \notin y.t.flags
          /\ y.t.precv > 0 /\ ~Subtasks => "SHUTRD" \notin y.t.flags
      BY <2>16, <3>1 DEF SameRecv, RecvOK
    <3> QED
      BY <1>1, <2>13, <2>19, <2>21, <3>2, <3>3, <3>4, EstablishedKept
  <2> QED
    BY <2>15, <2>17, <2>18, <2>19, <2>22
<1> QED
  BY <1>2, <1>3

(* The acknowledgment of a probe counts the byte that the probe sent. *)
LEMMA ProbeCounted ==
    ASSUME NEW t, NEW n, DataOK(t), SendOK(t), TimerOK(t, n), t.state \in Opened \cup Ending,
           NEW g, SegOK(g), AcksProbe(t, g), NEW u, DataOK(u), SameState(t, u),
           u.una = t.una, u.nxt = g.ack, u.sndq = t.sndq, u.psend = t.psend, u.flags = t.flags
    PROVE  SendOK(u)
<1>1. /\ Sent(t) \in Nat /\ t.sndq \in Nat /\ (Sent(t) = 0 <=> t.una = t.nxt)
      /\ t.una \in Seq32 /\ t.nxt \in Seq32
  BY FlightBound
<1>2. t.una = t.nxt
  BY DEF AcksProbe, TimerOK, Opened, Ending
<1>3. Sent(t) = 0 /\ t.sndq > 0
  <2>1. t.sndq > Sent(t)
    BY DEF AcksProbe, Sent
  <2> QED
    BY <1>1, <1>2, <2>1
<1>4. t.state \in Opened
  BY <1>1, <1>3 DEF SendOK, Opened, Ending
<1>5. Sent(u) = 1
  <2>1. Minus(Plus(t.nxt, 1), t.una) = Sent(t) + 1
    <3>1. Minus(t.nxt, t.una) = 0 /\ 0 + 1 < SeqMod
      BY <1>3, HalfSpace DEF Sent
    <3> QED
      BY <1>1, <1>3, <3>1, MinusGrows
  <2> QED
    BY <1>3, <2>1 DEF Sent, AcksProbe
<1> QED
  BY <1>1, <1>3, <1>4, <1>5 DEF SendOK, SameState, Opening, Opened, Ending

(* What was acknowledged leaves the queue and what is in flight alike. *)
LEMMA FlightTaken ==
    ASSUME NEW t, DataOK(t), SendOK(t), NEW ack \in Seq32, SeqGT(ack, t.una), ~SeqGT(ack, t.nxt),
           t.state \in Opened \cup Ending,
           NEW u, u.state = t.state, u.una = ack, u.nxt = t.nxt,
           u.sndq = t.sndq - Min({Minus(ack, t.una), t.sndq}), u.psend = t.psend,
           u.flags = t.flags
    PROVE  SendOK(u)
<1>1. /\ Sent(t) \in Nat /\ t.sndq \in Nat /\ Sent(t) <= SeqMod \div 2
      /\ t.una \in Seq32 /\ t.nxt \in Seq32
  BY FlightBound
<1>2. PICK k \in Nat : k = Minus(ack, t.una) /\ k >= 1 /\ k <= Sent(t)
                       /\ Minus(t.nxt, ack) = Sent(t) - k
  BY <1>1, AckTakes DEF Sent
<1>3. Sent(u) = Sent(t) - k
  BY <1>2 DEF Sent
<1>4. u.sndq = IF k <= t.sndq THEN t.sndq - k ELSE 0
  BY <1>1, <1>2, MinOf
<1>5. Sent(t) >= 1
  BY <1>1, <1>2
<1>6. CASE t.state \in Opened
  <2>1. Sent(t) <= t.sndq /\ "FINSENT" \notin t.flags
    BY <1>6 DEF SendOK
  <2>2. Sent(u) <= u.sndq
    BY <1>1, <1>2, <1>3, <1>4, <2>1
  <2> QED
    BY <1>6, <2>1, <2>2 DEF SendOK, Opening, Opened, Ending
<1>7. CASE t.state \in Ending /\ "FINSENT" \in t.flags
  <2>1. Sent(t) = t.sndq + 1 /\ t.state \notin {"FIN_WAIT_2", "TIME_WAIT"}
    BY <1>5, <1>7 DEF SendOK
  <2>2. Sent(u) = u.sndq + 1 \/ (Sent(u) = 0 /\ u.sndq = 0)
    BY <1>1, <1>2, <1>3, <1>4, <2>1
  <2> QED
    BY <1>7, <2>1, <2>2 DEF SendOK, Opening, Opened, Ending
<1>8. CASE t.state \in Ending /\ "FINSENT" \notin t.flags
  <2>1. Sent(t) = t.sndq /\ t.state \notin {"FIN_WAIT_2", "TIME_WAIT"}
    BY <1>5, <1>8 DEF SendOK
  <2>2. Sent(u) = u.sndq
    BY <1>1, <1>2, <1>3, <1>4, <2>1
  <2> QED
    BY <1>8, <2>1, <2>2 DEF SendOK, Opening, Opened, Ending
<1> QED
  BY <1>6, <1>7, <1>8

(* What an acknowledgment takes out of the queue, and what a SEND adds. *)
LEMMA ProgressKeeps ==
    ASSUME NEW x, Result(x), NEW g, SegOK(g), NEW y, y = Progress(x, g)
    PROVE  /\ Result(y) /\ SameControl(x, y)
           /\ SamePlace(x.t, y.t) /\ SameState(x.t, y.t) /\ SameRecv(x.t, y.t)
           /\ y.t.msl = x.t.msl
           /\ x.room /\ y.t.psend > 0 => y.t.sndq = SndBuf
           /\ "FINSENT" \in x.t.flags => "FINSENT" \in y.t.flags
           /\ SendOK(x.t) /\ SeqGT(g.ack, x.t.una) /\ ~SeqGT(g.ack, x.t.nxt)
              /\ x.t.state \in Opened \cup Ending => SendOK(y.t)
<1>1. DataOK(x.t) /\ g.ack \in Seq32
  BY DEF Result, SegOK
<1>2. PICK q \in Nat : q = x.t.sndq /\ q <= SndBuf
  BY <1>1, HalfSpace DEF DataOK
<1>3. PICK acked \in Nat : acked = Minus(g.ack, x.t.una)
  BY <1>1, MinusIs, SeqNat DEF DataOK
<1>4. PICK free : free = Min({acked, q})
  OBVIOUS
<1>5. free \in Nat /\ free <= q
  BY <1>4, MinOf
<1>6. PICK d \in 0 .. SndBuf : d = q - free
  BY <1>2, <1>5, HalfSpace
<1>7. PICK f \in Nat : f = x.t.sfree + free
  BY <1>1, <1>5 DEF DataOK
<1>8. PICK u : u = [x.t EXCEPT !.una = g.ack, !.backoff = 0, !.rexmit = FALSE,
                               !.sndq = d, !.sfree = f]
  OBVIOUS
<1>9. PICK z : z = [x EXCEPT !.t = u]
  OBVIOUS
<1>10. y = SendResume(z)
  <2>1. z = [x EXCEPT !.t.una = g.ack, !.t.backoff = 0, !.t.rexmit = FALSE,
                      !.t.sndq = @ - free, !.t.sfree = @ + free]
    BY <1>1, <1>2, <1>6, <1>7, <1>8, <1>9 DEF Result, ResultFields, DataOK, TcbFields
  <2> QED
    BY <1>2, <1>3, <1>4, <2>1 DEF Progress
<1>11. DataOK(u)
  BY <1>1, <1>8 DEF DataOK, TcbFields
<1>12. SamePlace(x.t, u) /\ SameState(x.t, u)
  BY <1>1, <1>8 DEF DataOK, TcbFields, SamePlace, SameState
<1>13. SameRecv(x.t, u) /\ u.msl = x.t.msl
  BY <1>1, <1>8 DEF DataOK, TcbFields, SameRecv
<1>14. /\ u.una = g.ack /\ u.nxt = x.t.nxt /\ u.sndq = d /\ u.psend = x.t.psend
       /\ u.flags = x.t.flags
  BY <1>1, <1>8 DEF DataOK, TcbFields
<1>15. Result(z) /\ SameControl(x, z) /\ z.t = u
  BY <1>9, <1>11, PutBlock
<1>16. /\ Result(y) /\ SameControl(z, y)
       /\ SamePlace(u, y.t) /\ SameState(u, y.t) /\ SameRecv(u, y.t)
       /\ y.t.una = u.una /\ y.t.msl = u.msl
       /\ z.room /\ y.t.psend > 0 => y.t.sndq = SndBuf
       /\ "FINSENT" \in u.flags => "FINSENT" \in y.t.flags
       /\ SendOK(u) => SendOK(y.t)
  BY <1>10, <1>15, SendResumeKeeps
<1>17. SameControl(x, y) /\ (x.room /\ y.t.psend > 0 => y.t.sndq = SndBuf)
  BY <1>15, <1>16 DEF SameControl
<1>18. SamePlace(x.t, y.t)
  BY <1>12, <1>16 DEF SamePlace
<1>19. SameState(x.t, y.t) /\ SameRecv(x.t, y.t)
  BY <1>12, <1>13, <1>16 DEF SameState, SameRecv
<1>20. ASSUME SendOK(x.t), SeqGT(g.ack, x.t.una), ~SeqGT(g.ack, x.t.nxt),
              x.t.state \in Opened \cup Ending
       PROVE  SendOK(u)
  <2>1. u.sndq = x.t.sndq - Min({Minus(g.ack, x.t.una), x.t.sndq})
    BY <1>2, <1>3, <1>4, <1>6, <1>14
  <2>2. u.state = x.t.state
    BY <1>12 DEF SameState
  <2> QED
    BY <1>1, <1>14, <1>20, <2>1, <2>2, FlightTaken
<1> QED
  BY <1>13, <1>14, <1>16, <1>17, <1>18, <1>19, <1>20

-----------------------------------------------------------------------------
(* Where an acknowledgment leads. *)
LEMMA EndingTimers ==
    ASSUME NEW t, DataOK(t), SendOK(t), TimersSet(t), NEW n \in Nat, t.state \in Ending,
           t.msl <=> t.state = "TIME_WAIT"
    PROVE  TimerOK(t, n)
<1>1. /\ Sent(t) \in Nat /\ t.sndq \in Nat /\ (Sent(t) = 0 <=> t.una = t.nxt)
  BY FlightBound
<1>2. t.sndq > 0 => Sent(t) # 0
  BY <1>1 DEF SendOK
<1>3. t.state = "TIME_WAIT" => Sent(t) = 0 /\ t.sndq = 0
  BY DEF SendOK
<1> QED
  BY <1>1, <1>2, <1>3 DEF TimerOK, TimersSet

(* A closing connection whose end is acknowledged waits for the peer's. *)
LEMMA FinWait2Keeps ==
    ASSUME NEW t, NEW n \in Nat, TcbInv(t, n), t.state = "FIN_WAIT_1", t.una = t.nxt,
           Strong(t, n), NEW u, u = [t EXCEPT !.state = "FIN_WAIT_2"]
    PROVE  TcbInv(u, n) /\ SamePlace(t, u) /\ u.state = "FIN_WAIT_2"
<1>1. /\ DataOK(t) /\ RecvOK(t) /\ CallOK(t) /\ SpaceOK(t, n)
      /\ Quiet => SendOK(t) /\ TimerOK(t, n)
  BY DEF TcbInv, Quiet
<1>2. /\ DataOK(u) /\ u.state = "FIN_WAIT_2" /\ u.pconn = t.pconn /\ SamePlace(t, u)
      /\ SameRecv(t, u) /\ SameSend(t, u) /\ SameTimers(t, u) /\ Sent(u) = Sent(t)
  <2>1. "FIN_WAIT_2" \in States
    BY DEF States
  <2> QED
    BY <1>1, <2>1, StateMoves
<1>3. RecvOK(u) /\ CallOK(u) /\ SpaceOK(u, n)
  <2>1. RecvOK(u)
    BY <1>1, <1>2 DEF RecvOK, SameRecv
  <2>2. CallOK(u)
    BY <1>1, <1>2 DEF CallOK
  <2>3. SpaceOK(u, n)
    BY <1>1, <1>2 DEF SpaceOK, SameSend
  <2> QED
    BY <2>1, <2>2, <2>3
<1>4. ASSUME ~Early, ~Subtasks
      PROVE  SendOK(u) /\ TimerOK(u, n) /\ FinOK(u, n)
  <2>1. SendOK(t) /\ TimerOK(t, n) /\ ("FINSENT" \notin t.flags => n >= 2)
    BY <1>1, <1>4 DEF Quiet, Strong
  <2>2. Sent(t) = 0 /\ t.sndq = 0
    <3>1. Sent(t) = 0 /\ t.sndq \in Nat
      BY <1>1, <2>1, FlightBound
    <3>2. t.state \in Ending
      BY DEF Ending
    <3> QED
      BY <2>1, <3>1, <3>2 DEF SendOK
  <2>3. SendOK(u)
    BY <1>2, <2>1, <2>2 DEF SendOK, SameSend, Opening, Opened, Ending
  <2>4. TimerOK(u, n)
    BY <1>2, <2>1 DEF TimerOK, SameSend, SameTimers
  <2>5. FinOK(u, n)
    BY <1>2, <2>1 DEF FinOK, SameSend
  <2> QED
    BY <2>3, <2>4, <2>5
<1> QED
  BY <1>2, <1>3, <1>4 DEF TcbInv

(* TIME_WAIT starts its timer again. *)
LEMMA TimeWaitAgain ==
    ASSUME NEW t, NEW n, TcbInv(t, n), t.state = "TIME_WAIT", NEW u, u = [t EXCEPT !.msl = TRUE]
    PROVE  TcbInv(u, n) /\ SamePlace(t, u) /\ u.state = "TIME_WAIT"
<1>1. /\ DataOK(t) /\ RecvOK(t) /\ CallOK(t) /\ SpaceOK(t, n)
      /\ Quiet => SendOK(t) /\ TimerOK(t, n) /\ FinOK(t, n)
  BY DEF TcbInv, Quiet
<1>2. DataOK(u)
  BY <1>1 DEF DataOK, TcbFields
<1>3. SamePlace(t, u) /\ SameState(t, u)
  BY <1>1 DEF DataOK, TcbFields, SamePlace, SameState
<1>4. SameRecv(t, u) /\ u.rexmit = t.rexmit /\ u.persist = t.persist /\ u.msl
  BY <1>1 DEF DataOK, TcbFields, SameRecv
<1>5. SameSend(t, u)
  BY <1>1 DEF DataOK, TcbFields, SameSend
<1>6. RecvOK(u) /\ CallOK(u)
  BY <1>1, <1>3, <1>4, RecvCarried, CallCarried DEF SameState
<1>7. SpaceOK(u, n)
  BY <1>1, <1>5 DEF SpaceOK, SameSend
<1>8. ASSUME ~Early, ~Subtasks
      PROVE  SendOK(u) /\ TimerOK(u, n) /\ FinOK(u, n)
  <2>1. SendOK(t) /\ TimerOK(t, n) /\ FinOK(t, n)
    BY <1>1, <1>8 DEF Quiet
  <2>2. Sent(u) = Sent(t)
    BY <1>5 DEF Sent, SameSend
  <2>3. SendOK(u)
    BY <1>3, <1>5, <2>1, <2>2 DEF SendOK, SameSend, SameState, SamePlace
  <2>4. TimerOK(u, n)
    BY <1>3, <1>4, <1>5, <2>1 DEF TimerOK, SameSend, SameState
  <2>5. FinOK(u, n)
    BY <1>3, <1>5, <2>1 DEF FinOK, SameSend, SameState
  <2> QED
    BY <2>3, <2>4, <2>5
<1> QED
  BY <1>2, <1>3, <1>6, <1>7, <1>8 DEF TcbInv, SameState

(* Where an acknowledgment leads a closing connection. *)
LEMMA AckedStateKeeps ==
    ASSUME NEW x, NEW n, Kept(x, n), Strong(x.t, n), x.t.state \in Opened \cup Ending,
           NEW y, y = AckedState(x)
    PROVE  /\ Result(y) /\ y.room = x.room /\ y.grad = x.grad /\ SamePlace(x.t, y.t)
           /\ \/ y.gone /\ ~y.go
              \/ /\ Kept(y, n) /\ Strong(y.t, n) /\ y.t.state \in Opened \cup Ending
                 /\ SameControl(x, y)
<1>1. /\ Result(x) /\ DataOK(x.t) /\ TcbInv(x.t, n) /\ n \in Nat /\ Missed(x, n) /\ RecvOK(x.t)
      /\ SpaceOK(x.t, n) /\ ~x.t.pconn
      /\ Quiet => SendOK(x.t) /\ TimerOK(x.t, n) /\ FinOK(x.t, n)
  <2>1. CallOK(x.t)
    BY DEF Kept, TcbInv
  <2>2. ~x.t.pconn
    BY <2>1 DEF CallOK, Opened, Ending
  <2> QED
    BY <2>2 DEF Kept, Result, TcbInv, Quiet
<1>2. ASSUME NEW u, TcbInv(u, n), SamePlace(x.t, u), u.state \in Ending \ {"FIN_WAIT_1"},
             y = [x EXCEPT !.t = u]
      PROVE  /\ SamePlace(x.t, y.t) /\ SameControl(x, y)
             /\ Kept(y, n) /\ Strong(y.t, n) /\ y.t.state \in Opened \cup Ending
  <2>1. Result(y) /\ SameControl(x, y) /\ y.t = u
    BY <1>1, <1>2, PutBlock DEF TcbInv
  <2>2. Missed(y, n)
    BY <1>1, <2>1 DEF Missed, SameControl
  <2>3. Strong(y.t, n)
    BY <1>2, <2>1 DEF Strong
  <2> QED
    BY <1>1, <1>2, <2>1, <2>2, <2>3 DEF Kept
<1>3. CASE x.t.state = "FIN_WAIT_1" /\ x.t.una = x.t.nxt
  <2>1. PICK u : u = [x.t EXCEPT !.state = "FIN_WAIT_2"]
    OBVIOUS
  <2>2. y = [x EXCEPT !.t = u]
    BY <1>1, <1>3, <2>1 DEF AckedState, Result, ResultFields
  <2>3. TcbInv(u, n) /\ SamePlace(x.t, u) /\ u.state = "FIN_WAIT_2"
    BY <1>1, <1>3, <2>1, FinWait2Keeps
  <2>4. u.state \in Ending \ {"FIN_WAIT_1"}
    BY <2>3 DEF Ending
  <2> QED
    BY <1>2, <2>2, <2>3, <2>4 DEF SameControl, Kept
<1>4. CASE x.t.state = "CLOSING" /\ x.t.una = x.t.nxt
  <2>1. PICK u : u = EnterTimeWait(x.t)
    OBVIOUS
  <2>2. y = [x EXCEPT !.t = u]
    BY <1>4, <2>1 DEF AckedState
  <2>3. "RCVFIN" \in x.t.flags
    BY <1>1, <1>4 DEF RecvOK
  <2>4. Quiet => /\ SendOK(x.t) /\ Sent(x.t) = 0 /\ x.t.sndq = 0 /\ x.t.state \in Ending
                 /\ "FINSENT" \notin x.t.flags => n >= 2
    <3>1. ASSUME Quiet
          PROVE  Sent(x.t) = 0 /\ x.t.sndq = 0
      <4>1. Sent(x.t) = 0 /\ x.t.sndq \in Nat /\ SendOK(x.t)
        BY <1>1, <1>4, <3>1, FlightBound
      <4>2. x.t.state \in Ending
        BY <1>4 DEF Ending
      <4> QED
        BY <4>1, <4>2 DEF SendOK
    <3> QED
      BY <1>1, <1>4, <3>1 DEF FinOK, Ending
  <2>5. TcbInv(u, n) /\ SamePlace(x.t, u) /\ u.state = "TIME_WAIT"
    BY <1>1, <2>1, <2>3, <2>4, EnterTimeWaitKeeps
  <2>6. u.state \in Ending \ {"FIN_WAIT_1"}
    BY <2>5 DEF Ending
  <2> QED
    BY <1>2, <2>2, <2>5, <2>6 DEF SameControl, Kept
<1>5. CASE x.t.state = "LAST_ACK" /\ x.t.una = x.t.nxt
  <2>1. y = [x EXCEPT !.gone = TRUE, !.go = FALSE]
    BY <1>5 DEF AckedState, Gone
  <2> QED
    BY <1>1, <2>1 DEF Result, ResultFields, SamePlace
<1>6. CASE x.t.state = "TIME_WAIT"
  <2>1. PICK u : u = [x.t EXCEPT !.msl = TRUE]
    OBVIOUS
  <2>2. y = [x EXCEPT !.t = u]
    BY <1>1, <1>6, <2>1 DEF AckedState, Result, ResultFields
  <2>3. TcbInv(u, n) /\ SamePlace(x.t, u) /\ u.state = "TIME_WAIT"
    BY <1>1, <1>6, <2>1, TimeWaitAgain
  <2>4. u.state \in Ending \ {"FIN_WAIT_1"}
    BY <2>3 DEF Ending
  <2> QED
    BY <1>2, <2>2, <2>3, <2>4 DEF SameControl, Kept
<1>7. CASE /\ ~(x.t.state \in {"FIN_WAIT_1", "CLOSING", "LAST_ACK"} /\ x.t.una = x.t.nxt)
           /\ x.t.state # "TIME_WAIT"
  <2>1. y = x
    BY <1>7 DEF AckedState
  <2> QED
    BY <1>1, <2>1 DEF SameControl, SamePlace
<1> QED
  BY <1>3, <1>4, <1>5, <1>6, <1>7

(* A change of SND.NXT alone. *)
NextOnly(t, v, m) ==
    /\ DataOK(v) /\ SamePlace(t, v) /\ SameState(t, v) /\ SameRecv(t, v) /\ SameTimers(t, v)
    /\ v.una = t.una /\ v.nxt = m /\ v.sndq = t.sndq /\ v.psend = t.psend
    /\ v.flags = t.flags

(* SND.NXT alone moves. *)
LEMMA NextMoves ==
    ASSUME NEW t, DataOK(t), NEW m \in Seq32, NEW v, v = [t EXCEPT !.nxt = m]
    PROVE  NextOnly(t, v, m)
<1>1. DataOK(v)
  BY DEF DataOK, TcbFields
<1>2. SamePlace(t, v) /\ SameState(t, v)
  BY DEF DataOK, TcbFields, SamePlace, SameState
<1>3. SameRecv(t, v) /\ SameTimers(t, v)
  BY DEF DataOK, TcbFields, SameRecv, SameTimers
<1>4. /\ v.una = t.una /\ v.nxt = m /\ v.sndq = t.sndq /\ v.psend = t.psend
      /\ v.flags = t.flags
  BY DEF DataOK, TcbFields
<1> QED
  BY <1>1, <1>2, <1>3, <1>4 DEF NextOnly

(* The first step: the window, and the byte of a probe. *)
LEMMA AckSeen ==
    ASSUME NEW x, NEW n, Kept(x, n), x.t.state \in Opened \cup Ending, NEW g, SegOK(g),
           NEW m, \/ m = g.ack /\ AcksProbe(x.t, g)
                  \/ m = x.t.nxt /\ ~SeqGT(g.ack, x.t.nxt),
           NEW v, NextOnly(x.t, v, m), NEW u, u = UpdateWindow(v, g)
    PROVE  /\ DataOK(u) /\ SamePlace(x.t, u) /\ SameState(x.t, u) /\ SameRecv(x.t, u)
           /\ u.msl = x.t.msl /\ u.flags = x.t.flags
           /\ u.una = x.t.una /\ u.sndq = x.t.sndq /\ u.psend = x.t.psend
           /\ Quiet => SendOK(u) /\ ~SeqGT(g.ack, u.nxt)
<1>1. DataOK(x.t) /\ TcbInv(x.t, n) /\ g.ack \in Seq32
  BY DEF Kept, Result, SegOK
<1>2. /\ DataOK(v) /\ SamePlace(x.t, v) /\ SameState(x.t, v) /\ SameRecv(x.t, v)
      /\ SameTimers(x.t, v)
      /\ v.una = x.t.una /\ v.nxt = m /\ v.sndq = x.t.sndq /\ v.psend = x.t.psend
      /\ v.flags = x.t.flags
  BY DEF NextOnly
<1>3. /\ DataOK(u) /\ SamePlace(v, u) /\ SameState(v, u) /\ SameRecv(v, u)
      /\ SameTimers(v, u) /\ u.flags = v.flags
      /\ u.una = v.una /\ u.nxt = v.nxt /\ u.sndq = v.sndq /\ u.psend = v.psend
  BY <1>2, UpdateWindowKeeps
<1>4. SamePlace(x.t, u)
  BY <1>2, <1>3 DEF SamePlace
<1>5. SameState(x.t, u) /\ SameRecv(x.t, u)
  BY <1>2, <1>3 DEF SameState, SameRecv
<1>6. u.msl = x.t.msl
  BY <1>2, <1>3 DEF SameTimers
<1>7. ASSUME Quiet
      PROVE  SendOK(u) /\ ~SeqGT(g.ack, u.nxt)
  <2>1. SendOK(x.t) /\ TimerOK(x.t, n)
    BY <1>1, <1>7 DEF TcbInv, Quiet
  <2>2. CASE m = g.ack /\ AcksProbe(x.t, g)
    <3>1. u.nxt = g.ack
      BY <1>2, <1>3, <2>2
    <3>2. SendOK(u)
      BY <1>1, <1>2, <1>3, <1>5, <2>1, <2>2, <3>1, ProbeCounted
    <3>3. ~SeqGT(g.ack, g.ack)
      <4>1. Minus(g.ack, g.ack) = 0
        BY <1>1, MinusZero
      <4> QED
        BY <4>1 DEF SeqGT
    <3> QED
      BY <3>1, <3>2, <3>3
  <2>3. CASE m = x.t.nxt /\ ~SeqGT(g.ack, x.t.nxt)
    <3>1. u.nxt = x.t.nxt
      BY <1>2, <1>3, <2>3
    <3>2. Sent(u) = Sent(x.t)
      BY <1>2, <1>3, <3>1 DEF Sent
    <3>3. SendOK(u)
      BY <1>2, <1>3, <1>4, <1>5, <2>1, <3>1, <3>2 DEF SendOK, SameState, SamePlace
    <3> QED
      BY <2>3, <3>1, <3>3
  <2> QED
    BY <2>2, <2>3
<1> QED
  BY <1>2, <1>3, <1>4, <1>5, <1>6, <1>7

(* tcp_process_ack past the handshake. *)
LEMMA AckOfDataKeeps ==
    ASSUME NEW x, NEW n, Kept(x, n), Quiet => FinOK(x.t, Before(x, n)),
           x.t.state \in Opened \cup Ending, NEW g, SegOK(g), NEW y, y = AckOfData(x, g)
    PROVE  /\ Result(y) /\ y.room = x.room /\ y.grad = x.grad /\ SamePlace(x.t, y.t)
           /\ \/ y.gone /\ ~y.go
              \/ /\ Kept(y, n) /\ y.t.state \in Opened \cup Ending /\ y.gone = x.gone
                 /\ y.go => Strong(y.t, n)
<1>1. /\ Result(x) /\ DataOK(x.t) /\ x.room \in BOOLEAN /\ TcbInv(x.t, n) /\ n \in Nat
      /\ Missed(x, n)
  BY DEF Kept, Result
<1>2. CASE SeqGT(g.ack, x.t.nxt) /\ ~AcksProbe(x.t, g)
  <2>1. PICK z : z = Ack(x)
    OBVIOUS
  <2>2. y = [z EXCEPT !.go = FALSE]
    BY <1>2, <2>1 DEF AckOfData
  <2>3. Result(z) /\ SameControl(x, z) /\ z.t = x.t
    BY <1>1, <2>1, AckKeeps
  <2>4. /\ Result(y) /\ y.t = x.t /\ y.room = x.room /\ y.grad = x.grad /\ y.gone = x.gone
        /\ ~y.go
    BY <2>2, <2>3 DEF Result, ResultFields, SameControl
  <2>5. Kept(y, n) /\ SamePlace(x.t, y.t)
    BY <1>1, <2>4 DEF Kept, Missed, SamePlace
  <2> QED
    BY <2>4, <2>5
<1>3. CASE ~(SeqGT(g.ack, x.t.nxt) /\ ~AcksProbe(x.t, g))
  <2>1. PICK m : m = IF SeqGT(g.ack, x.t.nxt) THEN g.ack ELSE x.t.nxt
    OBVIOUS
  <2>2. PICK v : v = [x.t EXCEPT !.nxt = m]
    OBVIOUS
  <2>3. PICK u : u = UpdateWindow(v, g)
    OBVIOUS
  <2>4. PICK a : a = [x EXCEPT !.t = u]
    OBVIOUS
  <2>5. /\ Result(a) /\ SameControl(x, a)
        /\ SamePlace(x.t, a.t) /\ SameState(x.t, a.t) /\ SameRecv(x.t, a.t)
        /\ a.t.msl = x.t.msl /\ a.t.flags = x.t.flags
        /\ a.t.una = x.t.una /\ a.t.sndq = x.t.sndq /\ a.t.psend = x.t.psend
        /\ Quiet => SendOK(a.t) /\ ~SeqGT(g.ack, a.t.nxt)
    <3>1. \/ m = g.ack /\ AcksProbe(x.t, g)
          \/ m = x.t.nxt /\ ~SeqGT(g.ack, x.t.nxt)
      BY <1>3, <2>1
    <3>2. m \in Seq32
      BY <1>1, <2>1 DEF DataOK, SegOK
    <3>3. NextOnly(x.t, v, m)
      BY <1>1, <2>2, <3>2, NextMoves
    <3>4. /\ DataOK(u) /\ SamePlace(x.t, u) /\ SameState(x.t, u) /\ SameRecv(x.t, u)
          /\ u.msl = x.t.msl /\ u.flags = x.t.flags
          /\ u.una = x.t.una /\ u.sndq = x.t.sndq /\ u.psend = x.t.psend
          /\ Quiet => SendOK(u) /\ ~SeqGT(g.ack, u.nxt)
      BY <2>3, <3>1, <3>3, AckSeen
    <3>5. Result(a) /\ SameControl(x, a) /\ a.t = u
      BY <1>1, <2>4, <3>4, PutBlock
    <3> QED
      BY <3>4, <3>5
  <2>6. PICK b : b = IF SeqGT(g.ack, x.t.una) THEN Progress(a, g) ELSE a
    OBVIOUS
  <2>7. /\ Result(b) /\ SameControl(a, b)
        /\ SamePlace(a.t, b.t) /\ SameState(a.t, b.t) /\ SameRecv(a.t, b.t)
        /\ b.t.msl = a.t.msl
        /\ SpaceOK(b.t, n)
        /\ "FINSENT" \in a.t.flags => "FINSENT" \in b.t.flags
        /\ Quiet => SendOK(b.t)
    <3>1. CASE SeqGT(g.ack, x.t.una)
      <4>1. b = Progress(a, g)
        BY <2>6, <3>1
      <4>2. a.t.state \in Opened \cup Ending
        BY <2>5 DEF SameState
      <4>3. /\ Result(b) /\ SameControl(a, b)
            /\ SamePlace(a.t, b.t) /\ SameState(a.t, b.t) /\ SameRecv(a.t, b.t)
            /\ b.t.msl = a.t.msl
            /\ a.room /\ b.t.psend > 0 => b.t.sndq = SndBuf
            /\ "FINSENT" \in a.t.flags => "FINSENT" \in b.t.flags
            /\ SendOK(a.t) /\ SeqGT(g.ack, a.t.una) /\ ~SeqGT(g.ack, a.t.nxt)
               /\ a.t.state \in Opened \cup Ending => SendOK(b.t)
        BY <2>5, <4>1, ProgressKeeps
      <4>4. SpaceOK(b.t, n)
        BY <1>1, <2>5, <4>3 DEF SpaceOK, Missed, SameControl
      <4> QED
        BY <2>5, <3>1, <4>2, <4>3, <4>4
    <3>2. CASE ~SeqGT(g.ack, x.t.una)
      <4>1. b = a
        BY <2>6, <3>2
      <4>2. SameControl(a, a) /\ SamePlace(a.t, a.t) /\ SameState(a.t, a.t) /\ SameRecv(a.t, a.t)
        BY DEF SameControl, SamePlace, SameState, SameRecv
      <4>3. SpaceOK(a.t, n)
        BY <1>1, <2>5 DEF TcbInv, SpaceOK
      <4> QED
        BY <2>5, <4>1, <4>2, <4>3
    <3> QED
      BY <3>1, <3>2
  <2>8. PICK c : c = IF b.t.state \in {"ESTABLISHED", "CLOSE_WAIT", "FIN_WAIT_1"}
                     THEN Output(b) ELSE b
    OBVIOUS
  <2>9. /\ Result(c) /\ SameControl(b, c)
        /\ SamePlace(b.t, c.t) /\ SameState(b.t, c.t) /\ SameRecv(b.t, c.t)
        /\ c.t.sndq = b.t.sndq /\ c.t.psend = b.t.psend /\ c.t.msl = b.t.msl
        /\ "FINSENT" \in b.t.flags => "FINSENT" \in c.t.flags
        /\ Quiet => SendOK(c.t)
        /\ Quiet /\ b.room /\ c.t.state \in {"ESTABLISHED", "CLOSE_WAIT", "FIN_WAIT_1"} => Driven(c)
    <3>1. CASE b.t.state \in {"ESTABLISHED", "CLOSE_WAIT", "FIN_WAIT_1"}
      <4>1. c = Output(b)
        BY <2>8, <3>1
      <4>2. /\ Result(c) /\ SameControl(b, c)
            /\ SamePlace(b.t, c.t) /\ SameState(b.t, c.t) /\ SameRecv(b.t, c.t)
            /\ c.t.sndq = b.t.sndq /\ c.t.psend = b.t.psend /\ c.t.msl = b.t.msl
            /\ "FINSENT" \in b.t.flags => "FINSENT" \in c.t.flags
        BY <2>7, <4>1, OutputKeeps
      <4>3. Quiet => SendOK(c.t) /\ (b.room => Driven(c))
        <5>1. b.t.state \in Opened \cup {"FIN_WAIT_1", "LAST_ACK"}
          BY <3>1 DEF Opened
        <5> QED
          BY <2>7, <4>1, <5>1, OutputFlight
      <4> QED
        BY <4>2, <4>3
    <3>2. CASE b.t.state \notin {"ESTABLISHED", "CLOSE_WAIT", "FIN_WAIT_1"}
      <4>1. c = b
        BY <2>8, <3>2
      <4>2. SameControl(b, b) /\ SamePlace(b.t, b.t) /\ SameState(b.t, b.t) /\ SameRecv(b.t, b.t)
        BY DEF SameControl, SamePlace, SameState, SameRecv
      <4> QED
        BY <2>7, <3>2, <4>1, <4>2
    <3> QED
      BY <3>1, <3>2
  <2>10. PICK d : d = TimersOf(c)
    OBVIOUS
  <2>11. y = AckedState(d)
    <3>1. y = AckedState(TimersOf(c))
      BY <1>1, <1>3, <2>1, <2>2, <2>3, <2>4, <2>6, <2>8 DEF AckOfData, DataOK, TcbFields
    <3> QED
      BY <2>10, <3>1
  <2>12. Result(d) /\ SameControl(c, d) /\ d.t = Timers(c.t) /\ DataOK(c.t) /\ DataOK(d.t)
    BY <2>9, <2>10, TimersOfKeeps DEF Result
  <2>13. /\ SamePlace(c.t, d.t) /\ SameState(c.t, d.t) /\ SameRecv(c.t, d.t) /\ SameSend(c.t, d.t)
         /\ d.t.msl = c.t.msl
    BY <2>12, TimersKeep
  <2>14. SameControl(x, d)
    BY <2>5, <2>7, <2>9, <2>12 DEF SameControl
  <2>15. SamePlace(x.t, d.t)
    <3>1. SamePlace(x.t, b.t)
      BY <2>5, <2>7 DEF SamePlace
    <3> QED
      BY <2>9, <2>13, <3>1 DEF SamePlace
  <2>16. SameState(x.t, d.t)
    BY <2>5, <2>7, <2>9, <2>13 DEF SameState
  <2>17. SameRecv(x.t, d.t)
    <3>1. SameRecv(x.t, b.t)
      BY <2>5, <2>7 DEF SameRecv
    <3> QED
      BY <2>9, <2>13, <3>1 DEF SameRecv
  <2>18. d.t.msl = x.t.msl /\ ("FINSENT" \in x.t.flags => "FINSENT" \in d.t.flags)
    BY <2>5, <2>7, <2>9, <2>13 DEF SameSend
  <2>19. RecvOK(d.t) /\ CallOK(d.t)
    BY <1>1, <2>15, <2>16, <2>17, RecvCarried, CallCarried DEF TcbInv, SameState
  <2>20. SpaceOK(d.t, n)
    BY <2>7, <2>9, <2>13 DEF SpaceOK, SameSend
  <2>21. Missed(d, n) /\ (d.room <=> x.room)
    BY <1>1, <2>14 DEF Missed, SameControl
  <2>22. ASSUME Quiet
         PROVE  SendOK(d.t) /\ TimerOK(d.t, n) /\ FinOK(d.t, n) /\ Strong(d.t, n)
    <3>1. SendOK(x.t) /\ TimerOK(x.t, n) /\ FinOK(x.t, n) /\ FinOK(x.t, Before(x, n))
      BY <1>1, <2>22 DEF TcbInv, Quiet
    <3>2. SendOK(d.t) /\ TimersSet(d.t)
      BY <2>9, <2>12, <2>22, TimersFlight
    <3>3. d.room /\ d.t.state \in {"ESTABLISHED", "CLOSE_WAIT", "FIN_WAIT_1"} => Driven(d)
      BY <2>9, <2>12, <2>13, <2>22 DEF Driven, SameControl, SameSend, SameState
    <3>4. d.t.state = x.t.state /\ d.t.state \in Opened \cup Ending
      BY <2>16 DEF SameState
    <3>5. d.t.msl <=> d.t.state = "TIME_WAIT"
      BY <2>18, <3>1, <3>4 DEF TimerOK
    <3>6. TimerOK(d.t, n)
      <4>1. CASE d.t.state \in Opened
        <5>1. d.room => Driven(d)
          BY <3>3, <4>1 DEF Opened
        <5> QED
          BY <1>1, <2>12, <2>14, <2>21, <3>2, <3>5, <5>1, DrivenTimers DEF SameControl
      <4>2. CASE d.t.state \in Ending
        BY <1>1, <2>12, <3>2, <3>5, <4>2, EndingTimers
      <4> QED
        BY <3>4, <4>1, <4>2
    <3>7. FinOK(d.t, n)
      BY <2>18, <3>1, <3>4 DEF FinOK
    <3>8. Strong(d.t, n)
      <4>1. ASSUME d.t.state = "FIN_WAIT_1", "FINSENT" \notin d.t.flags
            PROVE  n >= 2
        <5>1. ~d.room
          BY <3>3, <4>1 DEF Driven, Ending
        <5>2. Before(x, n) = n - 1
          BY <2>21, <5>1 DEF Before
        <5>3. "FINSENT" \notin x.t.flags /\ x.t.state \in Ending
          BY <2>18, <3>4, <4>1 DEF Ending
        <5> QED
          BY <1>1, <3>1, <5>2, <5>3 DEF FinOK
      <4> QED
        BY <4>1 DEF Strong
    <3> QED
      BY <3>2, <3>6, <3>7, <3>8
  <2>23. Kept(d, n)
    BY <1>1, <2>12, <2>19, <2>20, <2>21, <2>22 DEF Kept, TcbInv, Quiet
  <2>24. Strong(d.t, n)
    BY <2>22 DEF Strong
  <2>25. d.t.state \in Opened \cup Ending
    BY <2>16 DEF SameState
  <2>26. /\ Result(y) /\ y.room = d.room /\ y.grad = d.grad /\ SamePlace(d.t, y.t)
         /\ \/ y.gone /\ ~y.go
            \/ /\ Kept(y, n) /\ Strong(y.t, n) /\ y.t.state \in Opened \cup Ending
               /\ SameControl(d, y)
    BY <2>11, <2>23, <2>24, <2>25, AckedStateKeeps
  <2>27. SamePlace(x.t, y.t)
    BY <2>15, <2>26 DEF SamePlace
  <2> QED
    BY <2>14, <2>26, <2>27 DEF SameControl
<1> QED
  BY <1>2, <1>3

-----------------------------------------------------------------------------
(* What an event on a connection comes to: the control block it leaves, and *)
(* whether it was established for a listener.                               *)
Moves(t, y) ==
    \/ ~y.grad /\ y.t.state = t.state
    \/ ~y.grad /\ t.state \in Opened \cup Ending /\ y.t.state \in Opened \cup Ending
    \/ /\ t.state \in {"SYN_SENT", "SYN_RCVD"} /\ y.t.state \in Opened \cup Ending
       /\ y.grad <=> t.listener # NoTcb

Outcome(t, y, n) ==
    /\ Result(y) /\ Missed(y, n) /\ SamePlace(t, y.t)
    /\ y.gone \/ (Kept(y, n) /\ Moves(t, y))

(* A move that goes on between states that are open or end. *)
LEMMA MovesOn ==
    ASSUME NEW t, NEW a, NEW b, Moves(t, a), b.grad = a.grad,
           \/ b.t.state = a.t.state
           \/ {a.t.state, b.t.state} \subseteq Opened \cup Ending
    PROVE  Moves(t, b)
  BY DEF Moves

(* A block of which only the count of retransmissions and the flags that    *)
(* steer nothing change.                                                    *)
LEMMA IdleKeeps ==
    ASSUME NEW x, NEW n, Kept(x, n), NEW y, Result(y), y.room = x.room, ~y.grad,
           SamePlace(x.t, y.t), SameState(x.t, y.t), SameRecv(x.t, y.t), SameSend(x.t, y.t),
           SameTimers(x.t, y.t)
    PROVE  Kept(y, n) /\ Outcome(x.t, y, n)
<1>1. TcbInv(x.t, n) /\ n \in Nat /\ Missed(x, n) /\ RecvOK(x.t)
  BY DEF Kept, TcbInv
<1>2. RecvOK(y.t)
  BY <1>1, RecvCarried DEF SameState
<1>3. CallOK(y.t)
  BY <1>1, CallCarried DEF TcbInv
<1>4. SpaceOK(y.t, n)
  BY <1>1 DEF TcbInv, SpaceOK, SameSend
<1>5. ASSUME ~Early, ~Subtasks
      PROVE  SendOK(y.t) /\ TimerOK(y.t, n) /\ FinOK(y.t, n)
  <2>1. SendOK(x.t) /\ TimerOK(x.t, n) /\ FinOK(x.t, n)
    BY <1>1, <1>5 DEF TcbInv
  <2>2. Sent(y.t) = Sent(x.t)
    BY DEF Sent, SameSend
  <2>3. SendOK(y.t)
    BY <2>1, <2>2 DEF SendOK, SameSend, SameState, SamePlace
  <2>4. TimerOK(y.t, n)
    BY <2>1 DEF TimerOK, SameSend, SameState, SameTimers
  <2>5. FinOK(y.t, n)
    BY <2>1 DEF FinOK, SameSend, SameState
  <2> QED
    BY <2>3, <2>4, <2>5
<1>6. Missed(y, n) /\ DataOK(y.t)
  BY <1>1 DEF Missed, Result
<1>7. Kept(y, n)
  BY <1>1, <1>2, <1>3, <1>4, <1>5, <1>6 DEF Kept, TcbInv
<1>8. Moves(x.t, y)
  BY DEF Moves, SameState
<1> QED
  BY <1>6, <1>7, <1>8 DEF Outcome

(* A block is the same as itself. *)
LEMMA SameAll ==
    ASSUME NEW t
    PROVE  /\ SamePlace(t, t) /\ SameState(t, t) /\ SameRecv(t, t) /\ SameSend(t, t)
           /\ SameTimers(t, t)
  BY DEF SamePlace, SameState, SameRecv, SameSend, SameTimers

(* A connection torn down leaves nothing to keep. *)
LEMMA GoneKeeps ==
    ASSUME NEW x, NEW n, Kept(x, n), NEW y, y = Gone(x)
    PROVE  Outcome(x.t, y, n) /\ y.room = x.room
<1>1. Result(x) /\ Missed(x, n)
  BY DEF Kept
<1>2. Result(y) /\ y.room = x.room /\ y.t = x.t /\ y.gone
  BY <1>1 DEF Gone, Result, ResultFields
<1> QED
  BY <1>1, <1>2, SameAll DEF Outcome, Missed

(* A reset, an acknowledgment or nothing: the block stays as it was. *)
LEMMA StaysKeeps ==
    ASSUME NEW x, NEW n, Kept(x, n), ~x.grad, NEW y, Result(y), SameControl(x, y), y.t = x.t
    PROVE  Outcome(x.t, y, n)
  BY IdleKeeps, SameAll DEF SameControl

(* tcp_process_ack. *)
LEMMA ProcessAckKeeps ==
    ASSUME NEW x, NEW n, Kept(x, n), Quiet => FinOK(x.t, Before(x, n)),
           x.t.state \in {"SYN_RCVD"} \cup Opened \cup Ending, ~x.grad, ~x.gone,
           NEW g, SegOK(g), NEW y, y = ProcessAck(x, g)
    PROVE  Outcome(x.t, y, n) /\
           \/ y.gone /\ ~y.go
           \/ /\ Kept(y, n) /\ Moves(x.t, y) /\ ~y.gone
              /\ y.go => Strong(y.t, n) /\ y.t.state \in Opened \cup Ending
<1>1. Missed(x, n)
  BY DEF Kept
<1>2. CASE x.t.state = "SYN_RCVD"
  <2>1. y = AckOfSyn(x, g)
    BY <1>2 DEF ProcessAck
  <2>2. /\ Kept(y, n) /\ SamePlace(x.t, y.t) /\ y.room = x.room /\ y.gone = x.gone
        /\ \/ ~y.go /\ y.t = x.t /\ y.grad = x.grad
           \/ /\ y.go = x.go /\ y.t.state = "ESTABLISHED"
              /\ y.grad <=> x.t.listener # NoTcb
    BY <1>2, <2>1, AckOfSynKeeps
  <2>3. Moves(x.t, y)
    BY <1>2, <2>2 DEF Moves, Opened
  <2>4. y.go => Strong(y.t, n) /\ y.t.state \in Opened \cup Ending
    BY <2>2 DEF Strong, Opened
  <2> QED
    BY <1>1, <2>2, <2>3, <2>4 DEF Outcome, Kept
<1>3. CASE x.t.state \in Opened \cup Ending
  <2>1. y = AckOfData(x, g)
    BY <1>3 DEF ProcessAck, Opened, Ending
  <2>2. /\ Result(y) /\ y.room = x.room /\ y.grad = x.grad /\ SamePlace(x.t, y.t)
        /\ \/ y.gone /\ ~y.go
           \/ /\ Kept(y, n) /\ y.t.state \in Opened \cup Ending /\ y.gone = x.gone
              /\ y.go => Strong(y.t, n)
    BY <1>3, <2>1, AckOfDataKeeps
  <2>3. Missed(y, n)
    BY <1>1, <2>2 DEF Missed
  <2> QED
    BY <1>3, <2>2, <2>3 DEF Outcome, Moves
<1> QED
  BY <1>2, <1>3

(* Acknowledgment, data and FIN of one segment, in that order. *)
LEMMA SynchronizedTextKeeps ==
    ASSUME NEW x, NEW n, Kept(x, n), Quiet => FinOK(x.t, Before(x, n)),
           x.t.state \in {"SYN_RCVD"} \cup Opened \cup Ending, ~x.grad, ~x.gone,
           NEW g, SegOK(g), NEW y, y = SynchronizedText(x, g)
    PROVE  Outcome(x.t, y, n)
<1>1. PICK a : a = ProcessAck(x, g)
  OBVIOUS
<1>2. PICK b : b = IF a.go /\ g.len > 0 THEN RecvData(a, g) ELSE a
  OBVIOUS
<1>3. y = IF b.go /\ "FIN" \in g.fl THEN ProcessFin(b, g) ELSE b
  BY <1>1, <1>2 DEF SynchronizedText
<1>4. Outcome(x.t, a, n) /\
      \/ a.gone /\ ~a.go
      \/ /\ Kept(a, n) /\ Moves(x.t, a) /\ ~a.gone
         /\ a.go => Strong(a.t, n) /\ a.t.state \in Opened \cup Ending
  BY <1>1, ProcessAckKeeps
<1>5. CASE ~a.go
  <2>1. y = a
    BY <1>2, <1>3, <1>5
  <2> QED
    BY <1>4, <2>1
<1>6. CASE a.go
  <2>1. /\ Kept(a, n) /\ Moves(x.t, a) /\ SamePlace(x.t, a.t)
        /\ Strong(a.t, n) /\ a.t.state \in Opened \cup Ending
    BY <1>4, <1>6 DEF Outcome
  <2>2. /\ Kept(b, n) /\ Moves(x.t, b) /\ SamePlace(x.t, b.t)
        /\ Strong(b.t, n) /\ b.t.state \in Opened \cup Ending
    <3>1. CASE g.len > 0
      <4>1. b = RecvData(a, g)
        BY <1>2, <1>6, <3>1
      <4>2. Kept(b, n) /\ SameControl(a, b) /\ RecvOnly(a.t, b.t)
        BY <2>1, <4>1, RecvDataKeeps
      <4>3. Moves(x.t, b) /\ b.t.state \in Opened \cup Ending
        BY <2>1, <4>2, MovesOn DEF RecvOnly, SameState, SameControl
      <4>4. SamePlace(x.t, b.t)
        BY <2>1, <4>2 DEF RecvOnly, SamePlace
      <4>5. Strong(b.t, n)
        BY <2>1, <4>2 DEF RecvOnly, SameState, SameSend, Strong
      <4> QED
        BY <4>2, <4>3, <4>4, <4>5
    <3>2. CASE ~(g.len > 0)
      <4>1. b = a
        BY <1>2, <3>2
      <4> QED
        BY <2>1, <4>1
    <3> QED
      BY <3>1, <3>2
  <2>3. Kept(y, n) /\ Moves(x.t, y) /\ SamePlace(x.t, y.t)
    <3>1. CASE b.go /\ "FIN" \in g.fl
      <4>1. y = ProcessFin(b, g)
        BY <1>3, <3>1
      <4>2. /\ Kept(y, n) /\ SameControl(b, y) /\ SamePlace(b.t, y.t)
            /\ y.t.state \in Opened \cup Ending
        BY <2>2, <4>1, ProcessFinKeeps
      <4>3. Moves(x.t, y)
        BY <2>2, <4>2, MovesOn DEF SameControl
      <4>4. SamePlace(x.t, y.t)
        BY <2>2, <4>2 DEF SamePlace
      <4> QED
        BY <4>2, <4>3, <4>4
    <3>2. CASE ~(b.go /\ "FIN" \in g.fl)
      <4>1. y = b
        BY <1>3, <3>2
      <4> QED
        BY <2>2, <4>1
    <3> QED
      BY <3>1, <3>2
  <2> QED
    BY <2>3 DEF Outcome, Kept
<1> QED
  BY <1>4, <1>5, <1>6 DEF Outcome, Result

(* A segment in a synchronized state. *)
LEMMA SynchronizedInputKeeps ==
    ASSUME NEW x, NEW n, Kept(x, n), Quiet => FinOK(x.t, Before(x, n)),
           x.t.state \in {"SYN_RCVD"} \cup Opened \cup Ending, ~x.grad, ~x.gone,
           NEW g, SegOK(g), NEW z, z = SynchronizedInput(x, g)
    PROVE  Outcome(x.t, z, n)
<1>1. Result(x) /\ DataOK(x.t)
  BY DEF Kept, Result
<1>2. PICK u : u = [x.t EXCEPT !.flags = @ \cup {"PROBEACK"}]
  OBVIOUS
<1>3. PICK y : y = [x EXCEPT !.t = u]
  OBVIOUS
<1>4. y = [x EXCEPT !.t.flags = @ \cup {"PROBEACK"}]
  BY <1>1, <1>2, <1>3 DEF Result, ResultFields
<1>5. DataOK(u)
  BY <1>1, <1>2 DEF DataOK, TcbFields
<1>6. SamePlace(x.t, u) /\ SameState(x.t, u)
  BY <1>1, <1>2 DEF DataOK, TcbFields, SamePlace, SameState
<1>7. SameRecv(x.t, u) /\ SameSend(x.t, u) /\ SameTimers(x.t, u)
  <2>1. u.flags = x.t.flags \cup {"PROBEACK"}
    BY <1>1, <1>2 DEF DataOK, TcbFields
  <2>2. u.rxq = x.t.rxq /\ u.rwnd = x.t.rwnd /\ u.precv = x.t.precv
    BY <1>1, <1>2 DEF DataOK, TcbFields
  <2>3. /\ u.una = x.t.una /\ u.nxt = x.t.nxt /\ u.sndq = x.t.sndq /\ u.psend = x.t.psend
        /\ u.wnd = x.t.wnd
    BY <1>1, <1>2 DEF DataOK, TcbFields
  <2>4. SameTimers(x.t, u)
    BY <1>1, <1>2 DEF DataOK, TcbFields, SameTimers
  <2> QED
    BY <2>1, <2>2, <2>3, <2>4 DEF SameRecv, SameSend
<1>8. Result(y) /\ SameControl(x, y) /\ y.t = u
  BY <1>1, <1>3, <1>5, PutBlock
<1>9. Kept(y, n) /\ ~y.grad /\ ~y.gone
  BY <1>6, <1>7, <1>8, IdleKeeps DEF SameControl
<1>10. Quiet => FinOK(u, Before(y, n))
  BY <1>6, <1>7, <1>8 DEF FinOK, SameState, SameSend, Before, SameControl
<1>11. ASSUME NEW r, Outcome(u, r, n)
       PROVE  Outcome(x.t, r, n)
  <2>1. SamePlace(x.t, r.t)
    BY <1>6, <1>11 DEF Outcome, SamePlace
  <2>2. Moves(u, r) => Moves(x.t, r)
    BY <1>6 DEF Moves, SameState, SamePlace
  <2> QED
    BY <1>11, <2>1, <2>2 DEF Outcome
<1>12. CASE ~Acceptable(x.t, g)
  <2>1. z = x \/ z = Ack(x)
    BY <1>12 DEF SynchronizedInput
  <2>2. Result(z) /\ SameControl(x, z) /\ z.t = x.t
    BY <1>1, <2>1, AckKeeps DEF SameControl
  <2> QED
    BY <2>2, StaysKeeps
<1>13. CASE Acceptable(x.t, g) /\ "RST" \in g.fl
  <2>1. z = Gone(y)
    BY <1>4, <1>13 DEF SynchronizedInput
  <2> QED
    BY <1>8, <1>9, <1>11, <2>1, GoneKeeps
<1>14. CASE Acceptable(x.t, g) /\ "RST" \notin g.fl /\ "SYN" \in g.fl
  <2>1. PICK e : e = Emit(y, {"RST"})
    OBVIOUS
  <2>2. z = Gone(e)
    BY <1>4, <1>14, <2>1 DEF SynchronizedInput
  <2>3. Result(e) /\ SameControl(y, e) /\ e.t = u
    <3>1. "SYN" \notin {"RST"}
      OBVIOUS
    <3> QED
      BY <1>8, <2>1, <3>1, EmitKeeps
  <2>4. Kept(e, n)
    BY <1>8, <1>9, <2>3 DEF Kept, Missed, SameControl
  <2> QED
    BY <1>11, <2>2, <2>3, <2>4, GoneKeeps
<1>15. CASE Acceptable(x.t, g) /\ "RST" \notin g.fl /\ "SYN" \notin g.fl
  <2>1. g.fl \cap {"RST", "SYN"} = {}
    BY <1>15
  <2>2. z = IF "ACK" \in g.fl THEN SynchronizedText(y, g) ELSE y
    BY <1>4, <1>15, <2>1 DEF SynchronizedInput
  <2>3. CASE "ACK" \in g.fl
    <3>1. z = SynchronizedText(y, g) /\ y.t.state \in {"SYN_RCVD"} \cup Opened \cup Ending
      BY <1>6, <1>8, <2>2, <2>3 DEF SameState
    <3> QED
      BY <1>8, <1>9, <1>10, <1>11, <3>1, SynchronizedTextKeeps
  <2>4. CASE "ACK" \notin g.fl
    <3>1. z = y /\ SameControl(y, y)
      BY <2>2, <2>4 DEF SameControl
    <3> QED
      BY <1>8, <1>9, <1>11, <3>1, StaysKeeps
  <2> QED
    BY <2>3, <2>4
<1> QED
  BY <1>12, <1>13, <1>14, <1>15

(* The answer to a SYN that acknowledges it. *)
LEMMA SynSentSynKeeps ==
    ASSUME NEW x, NEW n, Kept(x, n), x.t.state = "SYN_SENT", ~x.grad, NEW g, SegOK(g),
           SeqGT(g.ack, x.t.iss), ~SeqGT(g.ack, x.t.nxt), NEW z, z = SynSentSyn(x, g, TRUE)
    PROVE  Outcome(x.t, z, n)
<1>1. /\ Result(x) /\ DataOK(x.t) /\ TcbInv(x.t, n) /\ n \in Nat /\ Missed(x, n)
      /\ x.room \in BOOLEAN
  BY DEF Kept, Result
<1>2. g.seq \in Seq32 /\ g.ack \in Seq32 /\ g.wnd \in 0 .. RcvWnd
  BY DEF SegOK
<1>3. PICK p \in Seq32 : p = Plus(g.seq, 1)
  BY <1>2, PlusOne
<1>4. PICK u : u = [x.t EXCEPT !.irs = g.seq, !.rnxt = p, !.una = g.ack,
                               !.wnd = g.wnd, !.wl1 = g.seq, !.wl2 = g.ack]
  OBVIOUS
<1>5. PICK y : y = [x EXCEPT !.t = u]
  OBVIOUS
<1>6. PICK a : a = Ack(y)
  OBVIOUS
<1>7. PICK e : e = EnterEstablished(a)
  OBVIOUS
<1>8. /\ u.una = g.ack /\ u.nxt = x.t.nxt /\ u.sndq = x.t.sndq /\ u.psend = x.t.psend
      /\ u.flags = x.t.flags /\ u.iss = x.t.iss
  BY <1>1, <1>4 DEF DataOK, TcbFields
<1>9. z = TimersOf(e)
  BY <1>3, <1>4, <1>5, <1>6, <1>7, <1>8 DEF SynSentSyn
<1>10. DataOK(u)
  BY <1>1, <1>2, <1>3, <1>4 DEF DataOK, TcbFields
<1>11. SamePlace(x.t, u) /\ SameState(x.t, u)
  BY <1>1, <1>4 DEF DataOK, TcbFields, SamePlace, SameState
<1>12. SameRecv(x.t, u) /\ SameTimers(x.t, u)
  BY <1>1, <1>4 DEF DataOK, TcbFields, SameRecv, SameTimers
<1>13. Result(a) /\ SameControl(x, a) /\ a.t = u
  <2>1. Result(y) /\ SameControl(x, y) /\ y.t = u
    BY <1>1, <1>5, <1>10, PutBlock
  <2>2. Result(a) /\ SameControl(y, a) /\ a.t = y.t
    BY <1>6, <2>1, AckKeeps
  <2> QED
    BY <2>1, <2>2 DEF SameControl
<1>14. /\ Result(e) /\ e.room = a.room /\ e.go = a.go /\ e.gone = a.gone
       /\ e.grad <=> u.listener # NoTcb
       /\ e.t.state = "ESTABLISHED" /\ ~e.t.pconn /\ e.t.flags = u.flags
       /\ SamePlace(u, e.t) /\ SameRecv(u, e.t) /\ SameSend(u, e.t)
       /\ SameTimers(u, e.t)
  BY <1>7, <1>13, EnterEstablishedKeeps
<1>15. Result(z) /\ SameControl(e, z) /\ z.t = Timers(e.t) /\ DataOK(e.t)
  BY <1>9, <1>14, TimersOfKeeps DEF Result
<1>16. /\ SamePlace(e.t, z.t) /\ SameState(e.t, z.t) /\ SameRecv(e.t, z.t)
       /\ SameSend(e.t, z.t) /\ z.t.msl = e.t.msl
  BY <1>15, TimersKeep
<1>17. SamePlace(x.t, z.t)
  BY <1>11, <1>14, <1>16 DEF SamePlace
<1>18. SameRecv(x.t, z.t)
  BY <1>12, <1>14, <1>16 DEF SameRecv
<1>19. z.room = x.room /\ z.grad = e.grad
  BY <1>13, <1>14, <1>15 DEF SameControl
<1>20. z.grad <=> x.t.listener # NoTcb
  BY <1>11, <1>14, <1>19 DEF SamePlace
<1>21. z.t.state = "ESTABLISHED" /\ ~z.t.pconn
  BY <1>14, <1>16 DEF SameState
<1>22. z.t.sndq = x.t.sndq /\ z.t.psend = x.t.psend
  BY <1>8, <1>14, <1>16 DEF SameSend
<1>23. ASSUME Quiet
       PROVE  /\ SendOK(z.t) /\ Sent(z.t) = 0 /\ z.t.sndq = 0 /\ TimersSet(z.t)
              /\ ~z.t.msl
  <2>1. SendOK(x.t) /\ TimerOK(x.t, n)
    BY <1>1, <1>23 DEF TcbInv, Quiet
  <2>2. /\ Sent(x.t) = 1 /\ x.t.sndq = 0 /\ x.t.psend = 0 /\ "FINQ" \notin x.t.flags
        /\ x.t.una = x.t.iss
    BY <2>1 DEF SendOK, Opening, Opened, Ending
  <2>3. x.t.una \in Seq32 /\ x.t.nxt \in Seq32 /\ Sent(x.t) <= SeqMod \div 2
    BY <1>1, <2>1, FlightBound
  <2>4. Minus(x.t.nxt, g.ack) = 0
    <3>1. /\ Minus(g.ack, x.t.una) \in Nat /\ Minus(g.ack, x.t.una) >= 1
          /\ Minus(g.ack, x.t.una) <= Minus(x.t.nxt, x.t.una)
          /\ Minus(x.t.nxt, g.ack) = Minus(x.t.nxt, x.t.una) - Minus(g.ack, x.t.una)
      BY <1>2, <2>2, <2>3, AckTakes DEF Sent
    <3> QED
      BY <2>2, <3>1 DEF Sent
  <2>5. /\ e.t.una = g.ack /\ e.t.nxt = x.t.nxt /\ e.t.sndq = 0 /\ e.t.psend = 0
        /\ "FINQ" \notin e.t.flags /\ "FINSENT" \notin e.t.flags
    <3>1. /\ e.t.una = g.ack /\ e.t.nxt = x.t.nxt /\ e.t.sndq = x.t.sndq
          /\ e.t.psend = x.t.psend /\ e.t.flags = x.t.flags
      BY <1>8, <1>14 DEF SameSend
    <3> QED
      BY <2>1, <2>2, <3>1 DEF SendOK
  <2>6. Sent(e.t) = 0
    BY <2>4, <2>5 DEF Sent
  <2>7. SendOK(e.t)
    BY <1>14, <2>5, <2>6 DEF SendOK, Opening, Opened, Ending
  <2>8. SendOK(z.t) /\ TimersSet(z.t)
    BY <1>15, <2>7, TimersFlight
  <2>9. Sent(z.t) = 0 /\ z.t.sndq = 0
    BY <1>16, <2>5, <2>6 DEF Sent, SameSend
  <2>10. ~z.t.msl
    BY <1>12, <1>14, <1>16, <2>1 DEF TimerOK, SameTimers
  <2> QED
    BY <2>8, <2>9, <2>10
<1>24. Missed(z, n)
  BY <1>1, <1>19 DEF Missed
<1>25. Kept(z, n)
  <2>1. RecvOK(x.t) /\ SpaceOK(x.t, n)
    BY <1>1 DEF TcbInv
  <2>2. SpaceOK(z.t, n)
    BY <1>22, <2>1 DEF SpaceOK
  <2>3. /\ Len(z.t.rxq) + z.t.rwnd = RcvWnd
        /\ z.t.precv > 0 => z.t.rxq = <<>> /\ "RCVFIN" \notin z.t.flags
        /\ z.t.precv > 0 /\ ~Subtasks => "SHUTRD" \notin z.t.flags
    BY <1>18, <2>1 DEF SameRecv, RecvOK
  <2> QED
    BY <1>1, <1>15, <1>21, <1>23, <1>24, <2>2, <2>3, EstablishedKept
<1>26. Moves(x.t, z)
  BY <1>20, <1>21 DEF Moves, Opened
<1> QED
  BY <1>15, <1>17, <1>24, <1>25, <1>26 DEF Outcome

(* A segment that reaches a connection: it came to its port. *)
LEMMA SynSentInputKeeps ==
    ASSUME NEW x, NEW n, Kept(x, n), x.t.state = "SYN_SENT", ~x.grad, ~x.gone,
           NEW g, SegOK(g), x.t.lport = g.dport, NEW z, z = SynSentInput(x, g)
    PROVE  Outcome(x.t, z, n)
<1>1. Result(x) /\ CallOK(x.t)
  BY DEF Kept, TcbInv
<1>2. "SYN" \in g.fl => "ACK" \in g.fl
  BY <1>1 DEF CallOK, SegOK
<1>3. CASE "ACK" \in g.fl /\ (SeqLEQ(g.ack, x.t.iss) \/ SeqGT(g.ack, x.t.nxt))
  <2>1. z = x \/ z = Send(x, RstFor(g))
    BY <1>3 DEF SynSentInput
  <2>2. Result(z) /\ SameControl(x, z) /\ z.t = x.t
    BY <1>1, <2>1, SendKeeps, RstOK DEF SameControl
  <2> QED
    BY <2>2, StaysKeeps
<1>4. CASE /\ ~("ACK" \in g.fl /\ (SeqLEQ(g.ack, x.t.iss) \/ SeqGT(g.ack, x.t.nxt)))
           /\ "RST" \in g.fl
  <2>1. z = x \/ z = Gone(x)
    BY <1>4 DEF SynSentInput
  <2>2. SameControl(x, x)
    BY DEF SameControl
  <2> QED
    BY <1>1, <2>1, <2>2, GoneKeeps, StaysKeeps
<1>5. CASE /\ ~("ACK" \in g.fl /\ (SeqLEQ(g.ack, x.t.iss) \/ SeqGT(g.ack, x.t.nxt)))
           /\ "RST" \notin g.fl
  <2>1. z = IF "SYN" \in g.fl THEN SynSentSyn(x, g, "ACK" \in g.fl) ELSE x
    BY <1>5 DEF SynSentInput
  <2>2. CASE "SYN" \in g.fl
    <3>1. ("ACK" \in g.fl) = TRUE
      BY <1>2, <2>2
    <3>2. z = SynSentSyn(x, g, TRUE)
      BY <2>1, <2>2, <3>1
    <3>3. SeqGT(g.ack, x.t.iss) /\ ~SeqGT(g.ack, x.t.nxt)
      BY <1>5, <3>1 DEF SeqLEQ
    <3> QED
      BY <3>2, <3>3, SynSentSynKeeps
  <2>3. CASE "SYN" \notin g.fl
    <3>1. z = x /\ SameControl(x, x)
      BY <2>1, <2>3 DEF SameControl
    <3> QED
      BY <1>1, <3>1, StaysKeeps
  <2> QED
    BY <2>2, <2>3
<1> QED
  BY <1>3, <1>4, <1>5

(* tcp_state_input. *)
LEMMA StateInputKeeps ==
    ASSUME NEW x, NEW n, Kept(x, n), Quiet => FinOK(x.t, Before(x, n)),
           x.t.state \notin {"FREE", "LISTEN"}, ~x.grad, ~x.gone,
           NEW g, SegOK(g), x.t.lport = g.dport, NEW z, z = StateInput(x, g)
    PROVE  Outcome(x.t, z, n)
<1>1. Result(x) /\ x.t.state \in States
  BY DEF Kept, Result, DataOK
<1>2. CASE x.t.state = "SYN_SENT"
  BY <1>2, SynSentInputKeeps DEF StateInput
<1>3. CASE x.t.state = "CLOSED"
  <2>1. z = x \/ z = Send(x, RstFor(g))
    BY <1>3 DEF StateInput
  <2>2. Result(z) /\ SameControl(x, z) /\ z.t = x.t
    BY <1>1, <2>1, SendKeeps, RstOK DEF SameControl
  <2> QED
    BY <2>2, StaysKeeps
<1>4. CASE x.t.state \notin {"SYN_SENT", "CLOSED"}
  <2>1. z = SynchronizedInput(x, g)
    BY <1>4 DEF StateInput
  <2>2. x.t.state \in {"SYN_RCVD"} \cup Opened \cup Ending
    BY <1>1, <1>4 DEF States, Opened, Ending
  <2> QED
    BY <2>1, <2>2, SynchronizedInputKeeps
<1> QED
  BY <1>2, <1>3, <1>4

-----------------------------------------------------------------------------
(* The timer callbacks. *)
LEMMA RexmitOneKeeps ==
    ASSUME NEW x, Result(x), x.t.state = "SYN_SENT" => x.t.fport = Service,
           NEW y, y = RexmitOne(x)
    PROVE  Result(y) /\ SameControl(x, y) /\ y.t = x.t
<1>1. DataOK(x.t) /\ x.t.una \in Seq32 /\ x.t.sndq \in Nat
  BY HalfSpace DEF Result, DataOK
<1>2. CASE x.t.state = "SYN_SENT"
  <2>1. y = Emit(x, {"SYN"})
    BY <1>2 DEF RexmitOne
  <2> QED
    BY <1>2, <2>1, EmitKeeps
<1>3. CASE x.t.state = "SYN_RCVD"
  <2>1. y = Emit(x, {"SYN", "ACK"}) /\ "ACK" \in {"SYN", "ACK"}
    BY <1>3 DEF RexmitOne
  <2> QED
    BY <2>1, EmitKeeps
<1>4. CASE x.t.state \notin {"SYN_SENT", "SYN_RCVD"} /\ x.t.sndq > 0
  <2>1. PICK k : k = Min({x.t.sndq, Mss})
    OBVIOUS
  <2>2. k \in Nat
    <3>1. x.t.sndq \in Nat /\ Mss \in Nat
      BY <1>1, HalfSpace
    <3>2. k = IF x.t.sndq <= Mss THEN x.t.sndq ELSE Mss
      BY <2>1, <3>1, MinOf
    <3> QED
      BY <3>1, <3>2
  <2>3. y = Send(x, Segment(x.t, {"ACK"}, x.t.una, 0, k))
    BY <1>4, <2>1 DEF RexmitOne
  <2>4. "SYN" \notin {"ACK"} /\ 0 \in Int
    OBVIOUS
  <2>5. SegOK(Segment(x.t, {"ACK"}, x.t.una, 0, k))
    BY <1>1, <2>2, <2>4, SegmentOK
  <2> QED
    BY <2>3, <2>5, SendKeeps
<1>5. CASE x.t.state \notin {"SYN_SENT", "SYN_RCVD"} /\ x.t.sndq = 0
  <2>1. y = IF "FINSENT" \in x.t.flags THEN EmitSeq(x, {"FIN", "ACK"}, x.t.una) ELSE x
    BY <1>5 DEF RexmitOne
  <2>2. "SYN" \notin {"FIN", "ACK"}
    OBVIOUS
  <2>3. PICK e : e = EmitSeq(x, {"FIN", "ACK"}, x.t.una)
    OBVIOUS
  <2>4. Result(e) /\ SameControl(x, e) /\ e.t = x.t
    BY <1>1, <2>2, <2>3, EmitSeqKeeps
  <2> QED
    BY <2>1, <2>3, <2>4 DEF SameControl
<1>6. ~(x.t.sndq > 0) => x.t.sndq = 0
  BY <1>1
<1> QED
  BY <1>2, <1>3, <1>4, <1>5, <1>6

(* The retransmission timer. *)
LEMMA RexmitKeeps ==
    ASSUME NEW x, NEW n, Kept(x, n), ~x.grad, x.t.rexmit,
           NEW w, w = [x EXCEPT !.t.rexmit = FALSE], NEW y, y = RexmitExpire(w)
    PROVE  Outcome(x.t, y, n) /\ y.room = x.room
<1>1. Result(x) /\ DataOK(x.t) /\ CallOK(x.t) /\ Missed(x, n)
  BY DEF Kept, Result, TcbInv
<1>2. PICK v : v = [x.t EXCEPT !.rexmit = FALSE]
  OBVIOUS
<1>3. w = [x EXCEPT !.t = v]
  BY <1>1, <1>2 DEF Result, ResultFields
<1>4. DataOK(v) /\ v.state = x.t.state
  BY <1>1, <1>2 DEF DataOK, TcbFields
<1>5. SamePlace(x.t, v)
  BY <1>1, <1>2 DEF DataOK, TcbFields, SamePlace
<1>6. Result(w) /\ SameControl(x, w) /\ w.t = v
  BY <1>1, <1>3, <1>4 DEF Result, ResultFields, SameControl
<1>7. CASE v.backoff >= MaxTries
  <2>1. y = Gone(w)
    BY <1>6, <1>7 DEF RexmitExpire
  <2>2. Result(y) /\ y.room = w.room /\ y.t = v /\ y.gone
    BY <1>6, <2>1 DEF Gone, Result, ResultFields
  <2> QED
    BY <1>1, <1>5, <1>6, <2>2 DEF Outcome, Missed, SameControl
<1>8. CASE ~(v.backoff >= MaxTries)
  <2>1. PICK r : r = RexmitOne(w)
    OBVIOUS
  <2>2. y = [r EXCEPT !.t.backoff = @ + 1, !.t.rexmit = TRUE]
    BY <1>6, <1>8, <2>1 DEF RexmitExpire
  <2>3. Result(r) /\ SameControl(w, r) /\ r.t = v
    <3>1. w.t.state = "SYN_SENT" => w.t.fport = Service
      BY <1>1, <1>4, <1>5, <1>6 DEF CallOK, SamePlace
    <3> QED
      BY <1>6, <2>1, <3>1, RexmitOneKeeps
  <2>4. PICK b \in Nat : b = x.t.backoff + 1 /\ b = v.backoff + 1
    BY <1>1, <1>2 DEF DataOK, TcbFields
  <2>5. PICK u : u = [x.t EXCEPT !.backoff = b]
    OBVIOUS
  <2>6. [v EXCEPT !.backoff = b, !.rexmit = TRUE] = u
    BY <1>1, <1>2, <2>5 DEF DataOK, TcbFields
  <2>7. y = [r EXCEPT !.t = u]
    <3>1. y = [r EXCEPT !.t = [v EXCEPT !.backoff = b, !.rexmit = TRUE]]
      BY <2>2, <2>3, <2>4, <1>4 DEF Result, ResultFields, DataOK, TcbFields
    <3> QED
      BY <2>6, <3>1
  <2>8. DataOK(u)
    BY <1>1, <2>5 DEF DataOK, TcbFields
  <2>9. SamePlace(x.t, u) /\ SameState(x.t, u)
    BY <1>1, <2>5 DEF DataOK, TcbFields, SamePlace, SameState
  <2>10. SameRecv(x.t, u) /\ SameTimers(x.t, u)
    BY <1>1, <2>5 DEF DataOK, TcbFields, SameRecv, SameTimers
  <2>11. SameSend(x.t, u)
    BY <1>1, <2>5 DEF DataOK, TcbFields, SameSend
  <2>12. Result(y) /\ SameControl(r, y) /\ y.t = u
    BY <2>3, <2>7, <2>8, PutBlock
  <2>13. y.room = x.room /\ ~y.grad
    BY <1>6, <2>3, <2>12 DEF SameControl
  <2> QED
    BY <2>9, <2>10, <2>11, <2>12, <2>13, IdleKeeps
<1> QED
  BY <1>7, <1>8

(* The persist timer. *)
LEMMA PersistKeeps ==
    ASSUME NEW x, NEW n, Kept(x, n), ~x.grad, x.t.persist,
           NEW w, w = [x EXCEPT !.t.persist = FALSE], NEW y, y = PersistExpire(w)
    PROVE  Outcome(x.t, y, n) /\ y.room = x.room
<1>1. Result(x) /\ DataOK(x.t) /\ Missed(x, n)
  BY DEF Kept, Result
<1>2. PICK v : v = [x.t EXCEPT !.persist = FALSE]
  OBVIOUS
<1>3. w = [x EXCEPT !.t = v]
  BY <1>1, <1>2 DEF Result, ResultFields
<1>4. DataOK(v)
  BY <1>1, <1>2 DEF DataOK, TcbFields
<1>5. SamePlace(x.t, v)
  BY <1>1, <1>2 DEF DataOK, TcbFields, SamePlace
<1>6. Result(w) /\ SameControl(x, w) /\ w.t = v
  BY <1>1, <1>3, <1>4, PutBlock
<1>7. CASE v.backoff >= MaxTries /\ "PROBEACK" \notin v.flags
  <2>1. y = Gone(w)
    BY <1>6, <1>7 DEF PersistExpire
  <2>2. Result(y) /\ y.room = w.room /\ y.t = v /\ y.gone
    BY <1>6, <2>1 DEF Gone, Result, ResultFields
  <2> QED
    BY <1>1, <1>5, <1>6, <2>2 DEF Outcome, Missed, SameControl
<1>8. CASE ~(v.backoff >= MaxTries /\ "PROBEACK" \notin v.flags)
  <2>1. PICK off \in Nat : off = Minus(v.nxt, v.una)
    BY <1>4, MinusIs, SeqNat DEF DataOK
  <2>2. PICK r : r = IF v.sndq > off THEN Send(w, Segment(v, {"ACK"}, v.nxt, off, 1)) ELSE w
    OBVIOUS
  <2>3. y = [r EXCEPT !.t.backoff = Min({@ + 1, MaxTries}), !.t.persist = TRUE]
    <3>1. CASE v.sndq > off
      <4>1. r = Send(w, Segment(w.t, {"ACK"}, w.t.nxt, Minus(w.t.nxt, w.t.una), 1))
        BY <1>6, <2>1, <2>2, <3>1
      <4>2. w.t.sndq > Minus(w.t.nxt, w.t.una)
        BY <1>6, <2>1, <3>1
      <4>3. ~(w.t.backoff >= MaxTries /\ "PROBEACK" \notin w.t.flags)
        BY <1>6, <1>8
      <4> QED
        BY <4>1, <4>2, <4>3, Zenon DEF PersistExpire
    <3>2. CASE ~(v.sndq > off)
      BY <1>6, <1>8, <2>1, <2>2, <3>2 DEF PersistExpire
    <3> QED
      BY <3>1, <3>2
  <2>4. Result(r) /\ SameControl(w, r) /\ r.t = v
    <3>1. SegOK(Segment(v, {"ACK"}, v.nxt, off, 1))
      <4>1. "SYN" \notin {"ACK"} /\ v.nxt \in Seq32 /\ off \in Int /\ 1 \in Nat
        BY <1>4, <2>1 DEF DataOK
      <4> QED
        BY <1>4, <4>1, SegmentOK
    <3>2. CASE v.sndq > off
      BY <1>6, <2>2, <3>1, <3>2, SendKeeps
    <3>3. CASE ~(v.sndq > off)
      BY <1>6, <2>2, <3>3 DEF SameControl
    <3> QED
      BY <3>2, <3>3
  <2>5. PICK b \in Nat : b = Min({v.backoff + 1, MaxTries})
    <3>1. v.backoff \in Nat /\ MaxTries \in Nat
      BY <1>4, SpaceAssumption DEF DataOK
    <3>2. Min({v.backoff + 1, MaxTries})
            = IF v.backoff + 1 <= MaxTries THEN v.backoff + 1 ELSE MaxTries
      BY <3>1, MinOf
    <3> QED
      BY <3>1, <3>2
  <2>6. PICK u : u = [x.t EXCEPT !.backoff = b]
    OBVIOUS
  <2>7. [v EXCEPT !.backoff = b, !.persist = TRUE] = u
    BY <1>1, <1>2, <2>6 DEF DataOK, TcbFields
  <2>8. y = [r EXCEPT !.t = u]
    <3>1. y = [r EXCEPT !.t = [v EXCEPT !.backoff = b, !.persist = TRUE]]
      BY <2>3, <2>4, <2>5, <1>4 DEF Result, ResultFields, DataOK, TcbFields
    <3> QED
      BY <2>7, <3>1
  <2>9. DataOK(u)
    BY <1>1, <2>6 DEF DataOK, TcbFields
  <2>10. SamePlace(x.t, u) /\ SameState(x.t, u)
    BY <1>1, <2>6 DEF DataOK, TcbFields, SamePlace, SameState
  <2>11. SameRecv(x.t, u) /\ SameTimers(x.t, u)
    BY <1>1, <2>6 DEF DataOK, TcbFields, SameRecv, SameTimers
  <2>12. SameSend(x.t, u)
    BY <1>1, <2>6 DEF DataOK, TcbFields, SameSend
  <2>13. Result(y) /\ SameControl(r, y) /\ y.t = u
    BY <2>4, <2>8, <2>9, PutBlock
  <2>14. y.room = x.room /\ ~y.grad
    BY <1>6, <2>4, <2>13 DEF SameControl
  <2> QED
    BY <2>10, <2>11, <2>12, <2>13, <2>14, IdleKeeps
<1> QED
  BY <1>7, <1>8

(* Flags of a block that has not ended its side. *)
Unended(flags) == {"FINQ", "FINSENT"} \cap flags = {}

(* Flags that steer nothing of what is sent, but for the end of file that   *)
(* SHUTDOWN makes and a RECV asks for.                                      *)
Idle(fl) == Unended(fl) /\ "RCVFIN" \notin fl

(* What setting them leaves as it was. *)
LEMMA FlagsBlock ==
    ASSUME NEW t, DataOK(t), NEW fl, Idle(fl), NEW u, u = [t EXCEPT !.flags = @ \cup fl]
    PROVE  /\ DataOK(u) /\ u.flags = t.flags \cup fl
           /\ SamePlace(t, u) /\ SameState(t, u) /\ SameSend(t, u) /\ SameTimers(t, u)
           /\ u.rxq = t.rxq /\ u.rwnd = t.rwnd /\ u.precv = t.precv /\ SameStream(t, u)
<1>1. DataOK(u) /\ u.flags = t.flags \cup fl
  BY DEF DataOK, TcbFields
<1>2. SamePlace(t, u) /\ SameState(t, u) /\ SameTimers(t, u)
  BY DEF DataOK, TcbFields, SamePlace, SameState, SameTimers
<1>3. /\ u.iss = t.iss /\ u.una = t.una /\ u.nxt = t.nxt /\ u.sndq = t.sndq
      /\ u.psend = t.psend /\ u.wnd = t.wnd /\ u.sfree = t.sfree
  BY DEF DataOK, TcbFields
<1>4. /\ u.rxq = t.rxq /\ u.rwnd = t.rwnd /\ u.precv = t.precv
      /\ u.irs = t.irs /\ u.rnxt = t.rnxt /\ u.rcvd = t.rcvd
  BY DEF DataOK, TcbFields
<1>5. SameSend(t, u)
  BY <1>1, <1>3 DEF SameSend, Idle, Unended
<1>6. SameStream(t, u)
  BY <1>1, <1>3, <1>4 DEF SameStream, SameIn, SameOut, Idle, Unended
<1> QED
  BY <1>1, <1>2, <1>4, <1>5, <1>6

(* An application that waits for its calls waits in no RECV when it shuts   *)
(* its socket down.                                                         *)
LEMMA FlagsKeep ==
    ASSUME NEW x, NEW n, Kept(x, n), NEW fl, Idle(fl),
           "SHUTRD" \in fl /\ ~Subtasks => x.t.precv = 0,
           NEW y, y = [x EXCEPT !.t.flags = @ \cup fl]
    PROVE  /\ Kept(y, n) /\ SameControl(x, y) /\ SamePlace(x.t, y.t) /\ y.t.state = x.t.state
           /\ SameSend(x.t, y.t)
<1>1. Result(x) /\ DataOK(x.t) /\ RecvOK(x.t)
  BY DEF Kept, Result, TcbInv
<1>2. PICK u : u = [x.t EXCEPT !.flags = @ \cup fl]
  OBVIOUS
<1>3. y = [x EXCEPT !.t = u]
  BY <1>1, <1>2 DEF Result, ResultFields
<1>4. /\ DataOK(u) /\ u.flags = x.t.flags \cup fl
      /\ SamePlace(x.t, u) /\ SameState(x.t, u) /\ SameSend(x.t, u) /\ SameTimers(x.t, u)
      /\ u.rxq = x.t.rxq /\ u.rwnd = x.t.rwnd /\ u.precv = x.t.precv
  BY <1>1, <1>2, FlagsBlock
<1>5. Result(y) /\ SameControl(x, y) /\ y.t = u
  <2>1. PICK z : z = [x EXCEPT !.t = u]
    OBVIOUS
  <2>2. DataOK(u)
    BY <1>4
  <2>3. Result(z) /\ SameControl(x, z) /\ z.t = u
    BY <1>1, <2>1, <2>2, PutBlock
  <2> QED
    BY <1>3, <2>1, <2>3
<1>6. RecvOK(u)
  BY <1>1, <1>4 DEF RecvOK, Idle, SameState
<1>7. Kept(y, n)
  BY <1>4, <1>5, <1>6, RecvOnlyKeeps
<1> QED
  BY <1>4, <1>5, <1>7 DEF SameState

(* CLOSE. *)
LEMMA CloseCallKeeps ==
    ASSUME NEW x, NEW n, Kept(x, n), ~x.grad, x.t.state # "SYN_RCVD",
           Quiet => AllSent(x.t) /\ x.t.psend = 0, NEW y, y = CloseCall(x)
    PROVE  Outcome(x.t, y, n) /\ y.room = x.room
<1>1. Result(x) /\ DataOK(x.t) /\ x.t.state \in States /\ Missed(x, n)
  BY DEF Kept, Result, DataOK
<1>2. CASE x.t.state \in {"CLOSED", "LISTEN", "SYN_SENT"}
  <2>1. y = Gone(x)
    BY <1>2 DEF CloseCall
  <2> QED
    BY <2>1, GoneKeeps
<1>3. CASE x.t.state \in Opened
  <2>1. y = FinQueued(x, {"APPCLOSED"})
    BY <1>3 DEF CloseCall, Opened
  <2>2. {"APPCLOSED"} \in SUBSET {"APPCLOSED"}
    OBVIOUS
  <2>3. Kept(y, n) /\ SameControl(x, y) /\ SamePlace(x.t, y.t) /\ y.t.state \in Ending
    BY <1>3, <2>1, <2>2, FinQueuedKeeps
  <2> QED
    BY <1>1, <1>3, <2>3 DEF Outcome, Moves, SameControl, Kept
<1>4. CASE x.t.state \notin Opened \cup {"CLOSED", "LISTEN", "SYN_SENT"}
  <2>1. PICK fl : fl = {"APPCLOSED"}
    OBVIOUS
  <2>2. y = [x EXCEPT !.t.flags = @ \cup fl]
    BY <1>4, <2>1 DEF CloseCall, Opened
  <2>3. Idle(fl) /\ ("SHUTRD" \in fl /\ ~Subtasks => x.t.precv = 0)
    BY <2>1 DEF Idle, Unended
  <2>4. PICK z : z = [x EXCEPT !.t.flags = @ \cup fl]
    OBVIOUS
  <2>5. Kept(z, n) /\ SameControl(x, z) /\ SamePlace(x.t, z.t) /\ z.t.state = x.t.state
    BY <2>3, <2>4, FlagsKeep
  <2>6. Kept(y, n) /\ SameControl(x, y) /\ SamePlace(x.t, y.t) /\ y.t.state = x.t.state
    BY <2>2, <2>4, <2>5
  <2> QED
    BY <1>1, <2>6 DEF Outcome, Moves, SameControl, Kept
<1> QED
  BY <1>2, <1>3, <1>4

-----------------------------------------------------------------------------
(* Queues that hold each element once. *)
LEMMA AppendQueue ==
    ASSUME NEW S, NEW q \in Seq(S), Distinct(q), NEW e \in S, ~Holds(q, e),
           NEW r, r = Append(q, e)
    PROVE  r \in Seq(S) /\ Distinct(r) /\ \A c \in S : Holds(r, c) <=> Holds(q, c) \/ c = e
<1>1. r \in Seq(S) /\ Len(r) = Len(q) + 1 /\ Len(q) \in Nat
  OBVIOUS
<1>2. r[Len(q) + 1] = e /\ \A i \in 1 .. Len(q) : r[i] = q[i]
  OBVIOUS
<1>3. Distinct(r)
  <2>1. ASSUME NEW i \in 1 .. Len(r), NEW j \in 1 .. Len(r), r[i] = r[j]
        PROVE  i = j
    <3>1. CASE i \in 1 .. Len(q) /\ j \in 1 .. Len(q)
      BY <1>2, <2>1, <3>1 DEF Distinct
    <3>2. CASE i = Len(q) + 1 \/ j = Len(q) + 1
      BY <1>1, <1>2, <2>1, <3>2 DEF Holds
    <3> QED
      BY <1>1, <3>1, <3>2
  <2> QED
    BY <2>1 DEF Distinct
<1>4. ASSUME NEW c \in S
      PROVE  Holds(r, c) <=> Holds(q, c) \/ c = e
  BY <1>1, <1>2 DEF Holds
<1> QED
  BY <1>1, <1>3, <1>4

(* A queue without its head. *)
LEMMA TailQueue ==
    ASSUME NEW S, NEW q \in Seq(S), Distinct(q), q # <<>>, NEW r, r = Tail(q)
    PROVE  /\ r \in Seq(S) /\ Distinct(r) /\ Head(q) \in S /\ Holds(q, Head(q))
           /\ \A c \in S : Holds(r, c) <=> Holds(q, c) /\ c # Head(q)
<1>1. r \in Seq(S) /\ Len(r) = Len(q) - 1 /\ Len(q) \in Nat /\ Len(q) >= 1
  OBVIOUS
<1>2. \A i \in 1 .. Len(r) : r[i] = q[i + 1]
  OBVIOUS
<1>3. Head(q) = q[1] /\ q[1] \in S
  OBVIOUS
<1>4. Holds(q, Head(q))
  BY <1>1, <1>3 DEF Holds
<1>5. Distinct(r)
  <2>1. ASSUME NEW i \in 1 .. Len(r), NEW j \in 1 .. Len(r), r[i] = r[j]
        PROVE  i = j
    <3>1. q[i + 1] = q[j + 1] /\ i + 1 \in 1 .. Len(q) /\ j + 1 \in 1 .. Len(q)
      BY <1>1, <1>2, <2>1
    <3>2. i + 1 = j + 1
      BY <3>1 DEF Distinct
    <3> QED
      BY <3>2
  <2> QED
    BY <2>1 DEF Distinct
<1>6. ASSUME NEW c \in S
      PROVE  Holds(r, c) <=> Holds(q, c) /\ c # Head(q)
  <2>1. ASSUME Holds(r, c)
        PROVE  Holds(q, c) /\ c # Head(q)
    <3>1. PICK i \in 1 .. Len(r) : r[i] = c
      BY <2>1 DEF Holds
    <3>2. i + 1 \in 1 .. Len(q) /\ q[i + 1] = c /\ i + 1 # 1 /\ 1 \in 1 .. Len(q)
      BY <1>1, <1>2, <3>1
    <3>3. Holds(q, c)
      BY <3>2 DEF Holds
    <3>4. q[1] # c
      BY <3>2 DEF Distinct
    <3> QED
      BY <1>3, <3>3, <3>4
  <2>2. ASSUME Holds(q, c), c # Head(q)
        PROVE  Holds(r, c)
    <3>1. PICK i \in 1 .. Len(q) : q[i] = c
      BY <2>2 DEF Holds
    <3>2. i - 1 \in 1 .. Len(r) /\ (i - 1) + 1 = i
      BY <1>1, <1>3, <2>2, <3>1
    <3>3. r[i - 1] = c
      BY <1>2, <3>1, <3>2
    <3> QED
      BY <3>2, <3>3 DEF Holds
  <2> QED
    BY <2>1, <2>2
<1> QED
  BY <1>1, <1>3, <1>4, <1>5, <1>6

(* Taking an element out of such a queue. *)
Without(q, k) == SubSeq(q, 1, k - 1) \o SubSeq(q, k + 1, Len(q))

(* RemoveFirst takes out the one position the element has. *)
LEMMA RemoveFirstIs ==
    ASSUME NEW S, NEW q \in Seq(S), Distinct(q), NEW e, NEW k \in 1 .. Len(q), q[k] = e
    PROVE  SeqOps!RemoveFirst(q, e) = Without(q, k)
<1>1. {i \in 1 .. Len(q) : q[i] = e} = {k}
  BY DEF Distinct
<1>2. SeqOps!Min({k}) = k
  BY DEF SeqOps!Min
<1>3. SeqOps!SelectInSeq(q, LAMBDA v : v = e) = k
  BY <1>1, <1>2 DEF SeqOps!SelectInSeq
<1> QED
  BY <1>3 DEF SeqOps!RemoveFirst, SeqOps!RemoveAt, Without

(* What that leaves, position by position. *)
LEMMA Cut ==
    ASSUME NEW S, NEW q \in Seq(S), NEW k \in 1 .. Len(q),
           NEW r, r = Without(q, k)
    PROVE  /\ r \in Seq(S) /\ Len(r) = Len(q) - 1
           /\ \A i \in 1 .. Len(r) : r[i] = IF i < k THEN q[i] ELSE q[i + 1]
<1>1. PICK L \in Nat : L = Len(q)
  OBVIOUS
<1>2. k \in Nat /\ k >= 1 /\ k <= L
  BY <1>1
<1>3. k - 1 \in Nat /\ L - k \in Nat
  BY <1>2
<1>4. PICK a : a = SubSeq(q, 1, k - 1)
  OBVIOUS
<1>5. PICK b : b = SubSeq(q, k + 1, Len(q))
  OBVIOUS
<1>6. a \in Seq(S) /\ Len(a) = k - 1 /\ \A i \in 1 .. k - 1 : a[i] = q[i]
  BY <1>4
<1>7. b \in Seq(S) /\ Len(b) = Len(q) - k /\ \A i \in 1 .. Len(q) - k : b[i] = q[k + i]
  BY <1>5
<1>8. PICK A \in Nat : A = Len(a) /\ A = k - 1
  BY <1>3, <1>6
<1>9. PICK B \in Nat : B = Len(b) /\ B = L - k
  BY <1>1, <1>3, <1>7
<1>10. r = a \o b
  BY <1>4, <1>5 DEF Without
<1>11. r \in Seq(S) /\ Len(r) = A + B
  <2>1. a \in Seq(S) /\ b \in Seq(S)
    BY <1>6, <1>7
  <2>2. r \in Seq(S) /\ Len(r) = Len(a) + Len(b)
    BY <2>1, <1>10, Joined
  <2> QED
    BY <1>8, <1>9, <2>2
<1>12. PICK R \in Nat : R = Len(r) /\ R = L - 1
  <2>1. A + B = L - 1 /\ A + B \in Nat
    BY <1>1, <1>2, <1>8, <1>9
  <2> QED
    BY <1>11, <2>1
<1>13. ASSUME NEW i \in 1 .. Len(r)
       PROVE  r[i] = IF i < k THEN q[i] ELSE q[i + 1]
  <2>1. i \in 1 .. R
    BY <1>12
  <2>2. PICK h \in 1 .. R : h = i
    BY <2>1
  <2>3. r[i] = IF i <= A THEN a[i] ELSE b[i - A]
    <3>1. i \in 1 .. Len(a) + Len(b)
      BY <1>8, <1>9, <1>11
    <3> QED
      BY <1>6, <1>7, <1>8, <1>10, <3>1, JoinedAt
  <2>4. CASE i < k
    <3>1. h \in 1 .. k - 1 /\ h <= A
      BY <1>2, <1>8, <2>2, <2>4
    <3> QED
      BY <1>6, <2>2, <2>3, <2>4, <3>1
  <2>5. CASE ~(i < k)
    <3>1. h \in Int /\ h <= L - 1
      BY <1>12, <2>2
    <3>2. h \in Int /\ h >= k
      BY <1>2, <2>2, <2>5, <3>1
    <3>3. ~(h <= A) /\ h - A \in 1 .. L - k /\ k + (h - A) = h + 1
      BY <1>1, <1>2, <1>8, <3>1, <3>2
    <3>4. r[h] = b[h - A] /\ b[h - A] = q[k + (h - A)]
      BY <1>1, <1>7, <2>2, <2>3, <3>3
    <3> QED
      BY <2>2, <2>5, <3>3, <3>4
  <2> QED
    BY <2>4, <2>5
<1> QED
  BY <1>1, <1>11, <1>12, <1>13

(* A queue without an element holds the others, each once. *)
LEMMA RemoveQueue ==
    ASSUME NEW S, NEW q \in Seq(S), Distinct(q), NEW e, NEW r, r = SeqOps!RemoveFirst(q, e)
    PROVE  /\ r \in Seq(S) /\ Distinct(r)
           /\ \A c \in S : Holds(r, c) <=> Holds(q, c) /\ c # e
<1>1. CASE ~Holds(q, e)
  <2>1. r = q
    BY <1>1 DEF Holds, SeqOps!RemoveFirst
  <2> QED
    BY <1>1, <2>1
<1>2. CASE Holds(q, e)
  <2>1. PICK k \in 1 .. Len(q) : q[k] = e
    BY <1>2 DEF Holds
  <2>2. r = Without(q, k)
    BY <2>1, RemoveFirstIs
  <2>3. /\ r \in Seq(S) /\ Len(r) = Len(q) - 1
        /\ \A i \in 1 .. Len(r) : r[i] = IF i < k THEN q[i] ELSE q[i + 1]
    BY <2>1, <2>2, Cut
  <2>4. Len(q) \in Nat /\ k \in Nat /\ k >= 1 /\ k <= Len(q)
    BY <2>1
  <2>5. ASSUME NEW i \in 1 .. Len(r)
        PROVE  \E m \in 1 .. Len(q) : m = (IF i < k THEN i ELSE i + 1) /\ r[i] = q[m] /\ m # k
    BY <2>3, <2>4
  <2>6. Distinct(r)
    <3>1. ASSUME NEW i \in 1 .. Len(r), NEW j \in 1 .. Len(r), r[i] = r[j]
          PROVE  i = j
      <4>1. PICK m \in 1 .. Len(q) : m = (IF i < k THEN i ELSE i + 1) /\ r[i] = q[m]
        BY <2>5
      <4>2. PICK p \in 1 .. Len(q) : p = (IF j < k THEN j ELSE j + 1) /\ r[j] = q[p]
        BY <2>5
      <4>3. m = p
        BY <3>1, <4>1, <4>2 DEF Distinct
      <4> QED
        BY <2>4, <4>1, <4>2, <4>3
    <3> QED
      BY <3>1 DEF Distinct
  <2>7. ASSUME NEW c \in S
        PROVE  Holds(r, c) <=> Holds(q, c) /\ c # e
    <3>1. ASSUME Holds(r, c)
          PROVE  Holds(q, c) /\ c # e
      <4>1. PICK i \in 1 .. Len(r) : r[i] = c
        BY <3>1 DEF Holds
      <4>2. PICK m \in 1 .. Len(q) : q[m] = c /\ m # k
        BY <2>5, <4>1
      <4> QED
        BY <2>1, <4>2 DEF Holds, Distinct
    <3>2. ASSUME Holds(q, c), c # e
          PROVE  Holds(r, c)
      <4>1. PICK m \in 1 .. Len(q) : q[m] = c
        BY <3>2 DEF Holds
      <4>2. m # k
        BY <2>1, <3>2, <4>1
      <4>3. PICK i \in 1 .. Len(r) : m = (IF i < k THEN i ELSE i + 1)
        <5>1. CASE m < k
          <6>1. m \in 1 .. Len(r)
            BY <2>3, <2>4, <5>1
          <6> QED
            BY <5>1, <6>1
        <5>2. CASE m > k
          <6>1. m - 1 \in 1 .. Len(r) /\ ~(m - 1 < k) /\ m = (m - 1) + 1
            BY <2>3, <2>4, <5>2
          <6> QED
            BY <6>1
        <5> QED
          BY <2>4, <4>2, <5>1, <5>2
      <4>4. r[i] = c
        BY <2>3, <4>1, <4>3
      <4> QED
        BY <4>4 DEF Holds
    <3> QED
      BY <3>1, <3>2
  <2> QED
    BY <2>3, <2>6, <2>7
<1> QED
  BY <1>1, <1>2

(* Nothing is taken out of an empty queue. *)
LEMMA RemoveEmpty ==
    ASSUME NEW e
    PROVE  SeqOps!RemoveFirst(<<>>, e) = <<>>
  BY DEF SeqOps!RemoveFirst

(* An empty queue holds nothing. *)
LEMMA EmptyQueue ==
    \A c : ~Holds(<<>>, c)
  BY DEF Holds

(* As many elements as the queue is long. *)
LEMMA QueueLength ==
    ASSUME NEW S, NEW q \in Seq(S), Distinct(q), NEW P, P = {c \in S : Holds(q, c)}
    PROVE  IsFiniteSet(P) /\ Cardinality(P) = Len(q) /\ {q[i] : i \in DOMAIN q} = P
<1>1. Len(q) \in Nat /\ DOMAIN q = 1 .. Len(q)
  OBVIOUS
<1>2. {q[i] : i \in DOMAIN q} = P
  BY <1>1 DEF Holds
<1>3. q \in [1 .. Len(q) -> P]
  BY <1>1 DEF Holds
<1>4. q \in Bijection(1 .. Len(q), P)
  <2>1. q \in Injection(1 .. Len(q), P)
    BY <1>3 DEF Injection, IsInjective, Distinct
  <2>2. q \in Surjection(1 .. Len(q), P)
    BY <1>3 DEF Surjection, Holds
  <2> QED
    BY <2>1, <2>2 DEF Bijection
<1>5. ExistsBijection(1 .. Len(q), P)
  BY <1>4 DEF ExistsBijection
<1> QED
  BY <1>1, <1>2, <1>5, FS_CountingElements, FS_NatBijection

-----------------------------------------------------------------------------
(* The table of control blocks and its accept queues. *)
LEMMA ChildrenFinite ==
    ASSUME NEW tab, NEW l
    PROVE  IsFiniteSet(Children(tab, l)) /\ Cardinality(Children(tab, l)) \in Nat
<1>1. Children(tab, l) \in SUBSET Slot /\ IsFiniteSet(Slot)
  BY PortsAssumption DEF Children
<1>2. IsFiniteSet(Children(tab, l))
  BY <1>1, FS_Subset
<1> QED
  BY <1>2, FS_CardinalityType

(* With fewer children or as many a listener keeps within its backlog. *)
WithinBacklog(tab, l) ==
    /\ Children(tab, l) # {} => Cardinality(Children(tab, l)) <= tab[l].backlog
    /\ tab[l].backlog \in Nat

(* Fewer children stay within the backlog. *)
LEMMA BacklogKept ==
    ASSUME NEW tab, AcceptInv(tab), NEW new, NEW l \in Slot,
           Children(new, l) \subseteq Children(tab, l), new[l].backlog = tab[l].backlog
    PROVE  WithinBacklog(new, l)
<1>1. PICK b \in Nat : b = tab[l].backlog
  BY DEF AcceptInv
<1>2. PICK A : A = Children(tab, l)
  OBVIOUS
<1>3. PICK B : B = Children(new, l)
  OBVIOUS
<1>4. A # {} => Cardinality(A) <= b
  BY <1>1, <1>2 DEF AcceptInv
<1>5. B \in SUBSET A /\ IsFiniteSet(A) /\ Cardinality(A) \in Nat /\ Cardinality(B) \in Nat
  BY <1>2, <1>3, ChildrenFinite
<1>6. Cardinality(B) <= Cardinality(A)
  BY <1>5, FS_Subset
<1>7. B # {} => Cardinality(B) <= b
  BY <1>1, <1>4, <1>5, <1>6
<1> QED
  BY <1>1, <1>3, <1>7 DEF WithinBacklog

(* Blocks keep their places, and none enters or leaves a queue. *)
LEMMA TableCarried ==
    ASSUME NEW tab, AcceptInv(tab), NEW new,
           \A c \in Slot : SamePlace(tab[c], new[c]),
           \A c \in Slot : new[c].state = "SYN_RCVD" => tab[c].state = "SYN_RCVD",
           \A c \in Slot : tab[c].state = "LISTEN" => new[c].state = "LISTEN",
           \A c \in Slot : tab[c].listener # NoTcb =>
               \/ tab[c].state = "SYN_RCVD" /\ new[c].state = "SYN_RCVD"
               \/ Past(tab, c) /\ Past(new, c)
    PROVE  AcceptInv(new)
<1>1. ASSUME NEW c \in Slot
      PROVE  /\ new[c].listener = tab[c].listener /\ new[c].acceptq = tab[c].acceptq
             /\ new[c].backlog = tab[c].backlog /\ new[c].pacc = tab[c].pacc
  BY DEF SamePlace
<1>2. \A c \in Slot : new[c].state = "SYN_RCVD" => new[c].listener # NoTcb
  BY <1>1 DEF AcceptInv
<1>3. ASSUME NEW c \in Slot, new[c].listener # NoTcb
      PROVE  /\ new[c].listener \in Slot /\ new[new[c].listener].state = "LISTEN"
             /\ new[c].state = "SYN_RCVD" \/ Past(new, c)
  BY <1>1, <1>3 DEF AcceptInv
<1>4. ASSUME NEW l \in Slot
      PROVE  QueueOf(new, l)
  <2>1. QueueOf(tab, l) /\ new[l].acceptq = tab[l].acceptq
    BY <1>1 DEF AcceptInv
  <2>2. ASSUME NEW c \in Slot
        PROVE  tab[c].listener = l /\ Past(tab, c) <=> new[c].listener = l /\ Past(new, c)
    <3>1. l # NoTcb
      BY PortsAssumption
    <3>2. new[c].listener = tab[c].listener
      BY <1>1
    <3> QED
      BY <3>1, <3>2 DEF Past, Opened, Ending
  <2> QED
    BY <2>1, <2>2 DEF QueueOf
<1>5. ASSUME NEW l \in Slot
      PROVE  WithinBacklog(new, l) /\ (new[l].pacc => new[l].acceptq = <<>>)
  <2>1. Children(new, l) \subseteq Children(tab, l)
    BY <1>1 DEF Children
  <2>2. WithinBacklog(new, l)
    BY <1>1, <2>1, BacklogKept
  <2>3. new[l].pacc => new[l].acceptq = <<>>
    BY <1>1 DEF AcceptInv
  <2> QED
    BY <2>2, <2>3
<1> QED
  BY <1>2, <1>3, <1>4, <1>5 DEF AcceptInv, WithinBacklog

(* A child leaves its listener l for its application: it was on no queue,   *)
(* or it was the head of that one.                                         *)
GivesAway(tab, new, l, s) ==
    /\ tab[s].listener = l /\ Past(new, s)
    /\ \A c \in Slot : new[c].state = tab[c].state \/ c = s
    /\ \A c \in Slot : new[c].listener = IF c = s THEN NoTcb ELSE tab[c].listener
    /\ \A c \in Slot \ {l} : new[c].acceptq = tab[c].acceptq /\ new[c].pacc = tab[c].pacc
    /\ \A c \in Slot : new[c].backlog = tab[c].backlog
    /\ new[l].pacc => new[l].acceptq = <<>>
    /\ new[l].acceptq \in Seq(Slot) /\ Distinct(new[l].acceptq)
    /\ \A c \in Slot : Holds(new[l].acceptq, c) <=> Holds(tab[l].acceptq, c) /\ c # s

(* The table after a listener gave a child away. *)
LEMMA GivenAway ==
    ASSUME NEW tab, AcceptInv(tab), NEW l \in Slot, NEW s \in Slot, NEW new,
           GivesAway(tab, new, l, s)
    PROVE  AcceptInv(new)
<1> USE DEF GivesAway
<1>1. tab[l].state = "LISTEN" /\ NoTcb \notin Slot /\ l # NoTcb
  BY PortsAssumption DEF AcceptInv
<1>2. l # s
  BY <1>1 DEF AcceptInv, Past, Opened, Ending
<1>3. ASSUME NEW c \in Slot, new[c].state = "SYN_RCVD"
      PROVE  new[c].listener # NoTcb
  <2>1. c # s
    BY <1>3 DEF Past, Opened, Ending
  <2> QED
    BY <1>3, <2>1 DEF AcceptInv
<1>4. ASSUME NEW c \in Slot, new[c].listener # NoTcb
      PROVE  /\ new[c].listener \in Slot /\ new[new[c].listener].state = "LISTEN"
             /\ new[c].state = "SYN_RCVD" \/ Past(new, c)
  <2>1. c # s /\ new[c].listener = tab[c].listener /\ new[c].state = tab[c].state
    BY <1>4
  <2>2. PICK m \in Slot : m = tab[c].listener /\ tab[m].state = "LISTEN"
    BY <1>4, <2>1 DEF AcceptInv
  <2>3. tab[c].state = "SYN_RCVD" \/ Past(tab, c)
    BY <1>4, <2>1 DEF AcceptInv
  <2>4. m # s
    BY <1>1, <2>2 DEF AcceptInv, Past, Opened, Ending
  <2> QED
    BY <2>1, <2>2, <2>3, <2>4 DEF Past
<1>5. ASSUME NEW k \in Slot
      PROVE  QueueOf(new, k)
  <2>1. QueueOf(tab, k)
    BY DEF AcceptInv
  <2>2. ASSUME NEW c \in Slot
        PROVE  new[c].listener = k /\ Past(new, c) <=> tab[c].listener = k /\ Past(tab, c) /\ c # s
    <3>1. k # NoTcb
      BY <1>1
    <3> QED
      BY <3>1 DEF Past
  <2>3. CASE k = l
    BY <2>1, <2>2, <2>3 DEF QueueOf
  <2>4. CASE k # l
    <3>1. new[k].acceptq = tab[k].acceptq
      BY <2>4
    <3>2. ~Holds(tab[k].acceptq, s)
      BY <2>1, <2>4 DEF QueueOf
    <3> QED
      BY <2>1, <2>2, <3>1, <3>2 DEF QueueOf
  <2> QED
    BY <2>3, <2>4
<1>6. ASSUME NEW k \in Slot
      PROVE  WithinBacklog(new, k) /\ (new[k].pacc => new[k].acceptq = <<>>)
  <2>1. tab[k].pacc => tab[k].acceptq = <<>>
    BY DEF AcceptInv
  <2>2. new[k].backlog = tab[k].backlog
    OBVIOUS
  <2>3. Children(new, k) \subseteq Children(tab, k)
    BY <1>1 DEF Children
  <2>4. WithinBacklog(new, k)
    BY <2>2, <2>3, BacklogKept
  <2>5. new[k].pacc => new[k].acceptq = <<>>
    BY <2>1
  <2> QED
    BY <2>4, <2>5
<1> QED
  BY <1>3, <1>4, <1>5, <1>6 DEF AcceptInv, WithinBacklog

(* A child past the handshake joins the queue of its listener l. *)
Queues(tab, new, l, s) ==
    /\ tab[s].listener = l /\ tab[s].state = "SYN_RCVD" /\ ~tab[l].pacc
    /\ \A c \in Slot :
         /\ new[c].state = tab[c].state \/ c = s
         /\ new[c].listener = tab[c].listener /\ new[c].pacc = tab[c].pacc
         /\ new[c].backlog = tab[c].backlog
    /\ \A c \in Slot \ {l} : new[c].acceptq = tab[c].acceptq
    /\ Past(new, s) /\ new[l].acceptq = Append(tab[l].acceptq, s)

(* The queues stay true. *)
LEMMA ChildQueued ==
    ASSUME NEW tab, AcceptInv(tab), NEW l \in Slot, NEW s \in Slot, NEW new,
           Queues(tab, new, l, s)
    PROVE  AcceptInv(new)
<1> USE DEF Queues
<1>1. tab[l].state = "LISTEN" /\ NoTcb \notin Slot /\ l # NoTcb /\ l # s
  BY PortsAssumption DEF AcceptInv
<1>2. ASSUME NEW c \in Slot, new[c].state = "SYN_RCVD"
      PROVE  new[c].listener # NoTcb
  <2>1. c # s
    BY <1>2 DEF Past, Opened, Ending
  <2> QED
    BY <1>2, <2>1 DEF AcceptInv
<1>3. ASSUME NEW c \in Slot, new[c].listener # NoTcb
      PROVE  /\ new[c].listener \in Slot /\ new[new[c].listener].state = "LISTEN"
             /\ new[c].state = "SYN_RCVD" \/ Past(new, c)
  <2>1. new[c].listener = tab[c].listener
    OBVIOUS
  <2>2. PICK m \in Slot : m = tab[c].listener /\ tab[m].state = "LISTEN"
    BY <1>3, <2>1 DEF AcceptInv
  <2>3. tab[c].state = "SYN_RCVD" \/ Past(tab, c)
    BY <1>3, <2>1 DEF AcceptInv
  <2>4. m # s
    BY <2>2
  <2> QED
    BY <2>1, <2>2, <2>3, <2>4 DEF Past
<1>4. ASSUME NEW k \in Slot
      PROVE  QueueOf(new, k)
  <2>1. QueueOf(tab, k)
    BY DEF AcceptInv
  <2>2. ~Past(tab, s)
    BY DEF Past, Opened, Ending
  <2>3. ASSUME NEW c \in Slot
        PROVE  new[c].listener = k /\ Past(new, c) <=>
               (tab[c].listener = k /\ Past(tab, c)) \/ (c = s /\ k = l)
    <3>1. CASE c = s
      BY <2>2, <3>1
    <3>2. CASE c # s
      BY <3>2 DEF Past
    <3> QED
      BY <3>1, <3>2
  <2>4. CASE k = l
    <3>1. PICK q : q = tab[l].acceptq
      OBVIOUS
    <3>2. q \in Seq(Slot) /\ Distinct(q) /\ ~Holds(q, s)
      BY <2>1, <2>2, <2>4, <3>1 DEF QueueOf
    <3>3. PICK r : r = Append(q, s)
      OBVIOUS
    <3>4. r \in Seq(Slot) /\ Distinct(r) /\ \A c \in Slot : Holds(r, c) <=> Holds(q, c) \/ c = s
      BY <3>2, <3>3, AppendQueue
    <3>5. new[k].acceptq = r
      BY <2>4, <3>1, <3>3
    <3>6. \A c \in Slot : Holds(q, c) <=> tab[c].listener = k /\ Past(tab, c)
      BY <2>1, <2>4, <3>1 DEF QueueOf
    <3> QED
      BY <2>3, <2>4, <3>4, <3>5, <3>6 DEF QueueOf
  <2>5. CASE k # l
    <3>1. new[k].acceptq = tab[k].acceptq
      BY <2>5
    <3> QED
      BY <2>1, <2>3, <2>5, <3>1 DEF QueueOf
  <2> QED
    BY <2>4, <2>5
<1>5. ASSUME NEW k \in Slot
      PROVE  WithinBacklog(new, k) /\ (new[k].pacc => new[k].acceptq = <<>>)
  <2>1. new[k].pacc => new[k].acceptq = <<>>
    <3>1. CASE k = l
      BY <3>1
    <3>2. CASE k # l
      BY <3>2 DEF AcceptInv
    <3> QED
      BY <3>1, <3>2
  <2>2. new[k].backlog = tab[k].backlog
    OBVIOUS
  <2>3. Children(new, k) \subseteq Children(tab, k)
    BY DEF Children
  <2>4. WithinBacklog(new, k)
    BY <2>2, <2>3, BacklogKept
  <2> QED
    BY <2>1, <2>4
<1> QED
  <2>1. \A c \in Slot : new[c].state = "SYN_RCVD" => new[c].listener # NoTcb
    BY <1>2
  <2>2. \A k \in Slot : new[k].pacc => new[k].acceptq = <<>>
    BY <1>5
  <2> QED
    BY <1>3, <1>4, <1>5, <2>1, <2>2 DEF AcceptInv, WithinBacklog

(* What a destroyed block leaves: its place and its children's are blank,   *)
(* and the others lose only the wait for it.                               *)
Doomed(tab, s) == {s} \cup Children(tab, s)

(* A block in the pool. *)
LEMMA BlankIs ==
    ASSUME NEW c
    PROVE  /\ Blank(c).listener = NoTcb /\ Blank(c).state = "FREE" /\ Blank(c).acceptq = <<>>
           /\ Blank(c).backlog = 0 /\ ~Blank(c).pacc /\ Blank(c).host = HostOf[c]
  BY DEF Blank, Fresh

(* A change of the accept queue only. *)
LEMMA OthersLose ==
    ASSUME NEW t, TcbFields \subseteq DOMAIN t, NEW q, NEW u, u = [t EXCEPT !.acceptq = q]
    PROVE  /\ u.acceptq = q /\ u.listener = t.listener /\ u.state = t.state
           /\ u.backlog = t.backlog /\ u.pacc = t.pacc
  BY DEF TcbFields

(* tcp_destroy keeps the accept queues. *)
LEMMA DestroyedKeeps ==
    ASSUME NEW tab, AcceptInv(tab), \A c \in Slot : TcbFields \subseteq DOMAIN tab[c],
           NEW s \in Slot, NEW new, new = Destroyed(tab, s)
    PROVE  /\ AcceptInv(new) /\ new[s] = Blank(s)
           /\ \A c \in Slot : new[c].listener # s
           /\ \A l \in Slot : Children(new, l) \subseteq Children(tab, l)
<1>1. ASSUME NEW c \in Slot, c \in Doomed(tab, s)
      PROVE  /\ new[c] = Blank(c) /\ new[c].listener = NoTcb /\ new[c].state = "FREE"
             /\ new[c].acceptq = <<>> /\ new[c].backlog = 0 /\ ~new[c].pacc
  <2>1. new[c] = Blank(c)
    BY <1>1 DEF Destroyed, Doomed
  <2> QED
    BY <2>1, BlankIs
<1>2. ASSUME NEW c \in Slot, c \notin Doomed(tab, s)
      PROVE  /\ new[c].acceptq = SeqOps!RemoveFirst(tab[c].acceptq, s)
             /\ new[c].listener = tab[c].listener /\ new[c].state = tab[c].state
             /\ new[c].backlog = tab[c].backlog /\ new[c].pacc = tab[c].pacc
  <2>1. new[c] = [tab[c] EXCEPT !.acceptq = SeqOps!RemoveFirst(tab[c].acceptq, s)]
    BY <1>2 DEF Destroyed, Doomed
  <2> QED
    BY <2>1, OthersLose
<1>3. NoTcb \notin Slot
  BY PortsAssumption
<1>4. ASSUME NEW c \in Slot, c \notin Doomed(tab, s), tab[c].listener # NoTcb
      PROVE  /\ tab[c].listener \in Slot \ Doomed(tab, s)
             /\ tab[tab[c].listener].state = "LISTEN"
  <2>1. PICK m \in Slot : m = tab[c].listener /\ tab[m].state = "LISTEN"
    BY <1>4 DEF AcceptInv
  <2>2. m # s
    BY <1>4, <2>1 DEF Doomed, Children
  <2>3. tab[m].listener = NoTcb
    BY <2>1 DEF AcceptInv, Past, Opened, Ending
  <2> QED
    BY <1>3, <2>1, <2>2, <2>3 DEF Doomed, Children
<1>5. ASSUME NEW c \in Slot, new[c].listener # NoTcb
      PROVE  /\ c \notin Doomed(tab, s) /\ new[c].listener \in Slot \ Doomed(tab, s)
             /\ new[new[c].listener].state = "LISTEN" /\ new[c].listener = tab[c].listener
             /\ new[c].state = "SYN_RCVD" \/ Past(new, c)
  <2>1. c \notin Doomed(tab, s)
    BY <1>1, <1>5
  <2>2. new[c].listener = tab[c].listener /\ new[c].state = tab[c].state
    BY <1>2, <2>1
  <2>3. PICK m \in Slot \ Doomed(tab, s) : m = tab[c].listener /\ tab[m].state = "LISTEN"
    BY <1>4, <1>5, <2>1, <2>2
  <2>4. new[m].state = "LISTEN"
    BY <1>2, <2>3
  <2>5. tab[c].state = "SYN_RCVD" \/ Past(tab, c)
    BY <1>5, <2>2 DEF AcceptInv
  <2> QED
    BY <2>1, <2>2, <2>3, <2>4, <2>5 DEF Past
<1>6. ASSUME NEW c \in Slot, new[c].state = "SYN_RCVD"
      PROVE  new[c].listener # NoTcb
  <2>1. c \notin Doomed(tab, s)
    BY <1>1, <1>6
  <2> QED
    BY <1>2, <1>6, <2>1 DEF AcceptInv
<1>7. \A c \in Slot : new[c].listener # s
  <2>1. s \in Doomed(tab, s) /\ s # NoTcb
    BY <1>3 DEF Doomed
  <2> QED
    BY <1>5, <2>1
<1>8. ASSUME NEW l \in Slot
      PROVE  Children(new, l) \subseteq Children(tab, l)
  <2>1. ASSUME NEW c \in Slot, new[c].listener = l
        PROVE  tab[c].listener = l
    BY <1>3, <1>5, <2>1
  <2> QED
    BY <2>1 DEF Children
<1>9. ASSUME NEW l \in Slot
      PROVE  QueueOf(new, l)
  <2>1. CASE l \in Doomed(tab, s)
    <3>1. new[l].acceptq = <<>>
      BY <1>1, <2>1
    <3>2. \A c \in Slot : new[c].listener # l
      BY <1>3, <1>5, <2>1
    <3>3. <<>> \in Seq(Slot) /\ Distinct(<<>>)
      BY DEF Distinct
    <3> QED
      BY <3>1, <3>2, <3>3, EmptyQueue DEF QueueOf
  <2>2. CASE l \notin Doomed(tab, s)
    <3>1. PICK q : q = tab[l].acceptq
      OBVIOUS
    <3>2. /\ q \in Seq(Slot) /\ Distinct(q)
          /\ \A c \in Slot : Holds(q, c) <=> tab[c].listener = l /\ Past(tab, c)
      BY <3>1 DEF AcceptInv, QueueOf
    <3>3. PICK r : r = SeqOps!RemoveFirst(q, s)
      OBVIOUS
    <3>4. /\ r \in Seq(Slot) /\ Distinct(r)
          /\ \A c \in Slot : Holds(r, c) <=> Holds(q, c) /\ c # s
      BY <3>2, <3>3, RemoveQueue
    <3>5. new[l].acceptq = r
      BY <1>2, <2>2, <3>1, <3>3
    <3>6. ASSUME NEW c \in Slot
          PROVE  Holds(q, c) /\ c # s <=> new[c].listener = l /\ Past(new, c)
      <4>1. CASE c \in Doomed(tab, s)
        <5>1. new[c].listener # l
          BY <1>1, <1>3, <4>1
        <5>2. c = s \/ tab[c].listener = s
          BY <4>1 DEF Doomed, Children
        <5>3. l # s
          BY <2>2 DEF Doomed
        <5> QED
          BY <3>2, <5>1, <5>2, <5>3
      <4>2. CASE c \notin Doomed(tab, s)
        <5>1. new[c].listener = tab[c].listener /\ new[c].state = tab[c].state /\ c # s
          BY <1>2, <4>2 DEF Doomed
        <5> QED
          BY <3>2, <5>1 DEF Past
      <4> QED
        BY <4>1, <4>2
    <3> QED
      BY <3>4, <3>5, <3>6 DEF QueueOf
  <2> QED
    BY <2>1, <2>2
<1>10. ASSUME NEW l \in Slot
       PROVE  WithinBacklog(new, l) /\ (new[l].pacc => new[l].acceptq = <<>>)
  <2>1. CASE l \in Doomed(tab, s)
    <3>1. new[l].backlog = 0 /\ ~new[l].pacc
      BY <1>1, <2>1
    <3>2. Children(new, l) = {}
      BY <1>3, <1>5, <2>1 DEF Children
    <3> QED
      BY <3>1, <3>2 DEF WithinBacklog
  <2>2. CASE l \notin Doomed(tab, s)
    <3>1. new[l].backlog = tab[l].backlog /\ new[l].pacc = tab[l].pacc
      BY <1>2, <2>2
    <3>2. WithinBacklog(new, l)
      BY <1>8, <3>1, BacklogKept
    <3>3. new[l].pacc => tab[l].acceptq = <<>>
      BY <3>1 DEF AcceptInv
    <3>4. PICK q : q = tab[l].acceptq
      OBVIOUS
    <3>5. q \in Seq(Slot) /\ Distinct(q)
      BY <3>4 DEF AcceptInv, QueueOf
    <3>6. PICK r : r = SeqOps!RemoveFirst(q, s)
      OBVIOUS
    <3>7. q = <<>> => r = <<>>
      BY <3>6, RemoveEmpty
    <3>8. new[l].acceptq = r
      BY <1>2, <2>2, <3>4, <3>6
    <3> QED
      BY <3>2, <3>3, <3>4, <3>7, <3>8
  <2> QED
    BY <2>1, <2>2
<1>11. AcceptInv(new)
  BY <1>5, <1>6, <1>9, <1>10 DEF AcceptInv, WithinBacklog
<1>12. new[s] = Blank(s)
  BY <1>1 DEF Doomed
<1> QED
  BY <1>7, <1>8, <1>11, <1>12

(* A new block u takes a blank place. *)
TakesPlace(tab, new, s) ==
    /\ \A c \in Slot \ {s} : new[c] = tab[c]
    /\ new[s].acceptq = <<>> /\ ~new[s].pacc /\ new[s].backlog \in Nat
    /\ \/ new[s].listener = NoTcb /\ new[s].state # "SYN_RCVD"
       \/ /\ new[s].listener \in Slot /\ new[s].state = "SYN_RCVD"
          /\ tab[new[s].listener].state = "LISTEN"
          /\ Cardinality(Children(tab, new[s].listener)) < tab[new[s].listener].backlog

(* The table after a new block took a free place. *)
LEMMA Placed ==
    ASSUME NEW tab, AcceptInv(tab), NEW s \in Slot, tab[s] = Blank(s), NEW new,
           TakesPlace(tab, new, s)
    PROVE  AcceptInv(new)
<1> USE DEF TakesPlace
<1>1. NoTcb \notin Slot
  BY PortsAssumption
<1>2. tab[s].listener = NoTcb /\ tab[s].state = "FREE" /\ tab[s].acceptq = <<>>
  BY BlankIs
<1>3. ASSUME NEW c \in Slot
      PROVE  tab[c].listener # s
  BY <1>1, <1>2 DEF AcceptInv
<1>4. ASSUME NEW c \in Slot, new[c].state = "SYN_RCVD"
      PROVE  new[c].listener # NoTcb
  <2>1. CASE c = s
    BY <1>1, <1>4, <2>1
  <2>2. CASE c # s
    BY <1>4, <2>2 DEF AcceptInv
  <2> QED
    BY <2>1, <2>2
<1>5. ASSUME NEW c \in Slot, new[c].listener # NoTcb
      PROVE  /\ new[c].listener \in Slot /\ new[new[c].listener].state = "LISTEN"
             /\ new[c].state = "SYN_RCVD" \/ Past(new, c)
  <2>1. CASE c = s
    <3>1. PICK l \in Slot : l = new[s].listener /\ tab[l].state = "LISTEN"
      BY <1>5, <2>1
    <3>2. l # s
      BY <1>2, <3>1
    <3> QED
      BY <1>5, <2>1, <3>1, <3>2
  <2>2. CASE c # s
    <3>1. new[c] = tab[c]
      BY <2>2
    <3>2. PICK l \in Slot : l = tab[c].listener /\ tab[l].state = "LISTEN"
      BY <1>5, <3>1 DEF AcceptInv
    <3>3. l # s
      BY <1>2, <3>2
    <3>4. tab[c].state = "SYN_RCVD" \/ Past(tab, c)
      BY <1>5, <3>1 DEF AcceptInv
    <3> QED
      BY <3>1, <3>2, <3>3, <3>4 DEF Past
  <2> QED
    BY <2>1, <2>2
<1>6. ASSUME NEW l \in Slot
      PROVE  QueueOf(new, l)
  <2>1. QueueOf(tab, l)
    BY DEF AcceptInv
  <2>2. new[l].acceptq = tab[l].acceptq
    BY <1>2
  <2>3. ASSUME NEW c \in Slot
        PROVE  new[c].listener = l /\ Past(new, c) <=> tab[c].listener = l /\ Past(tab, c)
    <3>1. CASE c = s
      BY <1>1, <1>2, <3>1 DEF Past, Opened, Ending
    <3>2. CASE c # s
      BY <3>2 DEF Past
    <3> QED
      BY <3>1, <3>2
  <2> QED
    BY <2>1, <2>2, <2>3 DEF QueueOf
<1>7. ASSUME NEW l \in Slot
      PROVE  WithinBacklog(new, l) /\ (new[l].pacc => new[l].acceptq = <<>>)
  <2>1. CASE l = s
    <3>1. Children(new, s) = {}
      <4>1. ASSUME NEW c \in Slot
            PROVE  new[c].listener # s
        <5>1. CASE c = s
          BY <1>1, <1>2, <5>1
        <5>2. CASE c # s
          BY <1>3, <5>2
        <5> QED
          BY <5>1, <5>2
      <4> QED
        BY <4>1 DEF Children
    <3> QED
      BY <2>1, <3>1 DEF WithinBacklog
  <2>2. CASE l # s /\ new[s].listener # l
    <3>1. Children(new, l) \subseteq Children(tab, l)
      BY <2>2 DEF Children
    <3>2. new[l].backlog = tab[l].backlog /\ new[l] = tab[l]
      BY <2>2
    <3>3. WithinBacklog(new, l)
      BY <3>1, <3>2, BacklogKept
    <3> QED
      BY <3>2, <3>3 DEF AcceptInv
  <2>3. CASE l # s /\ new[s].listener = l
    <3>1. new[l] = tab[l]
      BY <2>3
    <3>2. PICK A : A = Children(tab, l)
      OBVIOUS
    <3>3. PICK b \in Nat : b = tab[l].backlog
      BY DEF AcceptInv
    <3>4. IsFiniteSet(A) /\ Cardinality(A) \in Nat /\ Cardinality(A) < b
      BY <1>1, <2>3, <3>2, <3>3, ChildrenFinite
    <3>5. Cardinality(A \cup {s}) <= b
      <4>1. \/ Cardinality(A \cup {s}) = Cardinality(A) + 1
            \/ Cardinality(A \cup {s}) = Cardinality(A)
        BY <3>4, FS_AddElement
      <4> QED
        BY <3>3, <3>4, <4>1
    <3>6. Children(new, l) = A \cup {s}
      BY <2>3, <3>2 DEF Children
    <3> QED
      BY <3>1, <3>3, <3>5, <3>6 DEF WithinBacklog, AcceptInv
  <2> QED
    BY <2>1, <2>2, <2>3
<1> QED
  BY <1>4, <1>5, <1>6, <1>7 DEF AcceptInv, WithinBacklog

-----------------------------------------------------------------------------
(* The control block's invariant outlives what other blocks' events do to   *)
(* it, and an event that finds no buffer.                                  *)
SameWork(t, u) ==
    /\ TcbFields \subseteq DOMAIN u /\ u.pacc \in BOOLEAN
    /\ u.wl1 = t.wl1 /\ u.wl2 = t.wl2 /\ u.iss = t.iss /\ u.irs = t.irs /\ u.rnxt = t.rnxt
    /\ u.sfree = t.sfree /\ u.rcvd = t.rcvd /\ u.backoff = t.backoff
    /\ u.lport = t.lport /\ u.fport = t.fport
    /\ SameState(t, u) /\ SameRecv(t, u) /\ SameSend(t, u) /\ SameTimers(t, u)

(* A block that works as before keeps its invariant. *)
LEMMA FrameKeeps ==
    ASSUME NEW t, NEW n \in Nat, TcbInv(t, n), NEW u, SameWork(t, u)
    PROVE  TcbInv(u, n)
<1>1. DataOK(t) /\ RecvOK(t) /\ CallOK(t) /\ SpaceOK(t, n)
  BY DEF TcbInv
<1>2. SameState(t, u) /\ SameRecv(t, u) /\ SameSend(t, u) /\ SameTimers(t, u)
  BY DEF SameWork
<1>3. u.lport = t.lport /\ u.fport = t.fport /\ u.iss = t.iss
  BY DEF SameWork
<1>4. DataOK(u)
  BY <1>1 DEF DataOK, SameWork, SameState, SameRecv, SameSend, SameTimers
<1>5. RecvOK(u)
  BY <1>1, <1>2, RecvCarried DEF SameState
<1>6. CallOK(u) /\ SpaceOK(u, n)
  BY <1>1, <1>2, <1>3 DEF CallOK, SpaceOK, SameState, SameSend
<1>7. ASSUME ~Early, ~Subtasks
      PROVE  SendOK(u) /\ TimerOK(u, n) /\ FinOK(u, n)
  <2>1. SendOK(t) /\ TimerOK(t, n) /\ FinOK(t, n)
    BY <1>7 DEF TcbInv
  <2>2. Sent(u) = Sent(t)
    BY <1>2 DEF Sent, SameSend
  <2>3. SendOK(u)
    BY <1>2, <1>3, <2>1, <2>2 DEF SendOK, SameSend, SameState
  <2>4. TimerOK(u, n)
    BY <1>2, <2>1 DEF TimerOK, SameSend, SameState, SameTimers
  <2>5. FinOK(u, n)
    BY <1>2, <2>1 DEF FinOK, SameSend, SameState
  <2> QED
    BY <2>3, <2>4, <2>5
<1> QED
  BY <1>4, <1>5, <1>6, <1>7 DEF TcbInv

(* More events that found no buffer ask less. *)
LEMMA MoreMissed ==
    ASSUME NEW t, NEW n \in Nat, TcbInv(t, n), NEW m \in Nat, m >= n
    PROVE  TcbInv(t, m)
<1>1. SpaceOK(t, m)
  BY DEF TcbInv, SpaceOK
<1>2. ASSUME TimerOK(t, n), FinOK(t, n)
      PROVE  TimerOK(t, m) /\ FinOK(t, m)
  BY <1>2 DEF TimerOK, FinOK
<1> QED
  BY <1>1, <1>2 DEF TcbInv

(* The blocks of a listener or of a child while they trade places. *)
LEMMA PlaceMoves ==
    ASSUME NEW t, NEW n \in Nat, TcbInv(t, n), NEW u,
           \/ \E q : u = [t EXCEPT !.acceptq = q]
           \/ u = [t EXCEPT !.pacc = FALSE]
           \/ u = [t EXCEPT !.pacc = TRUE]
           \/ u = [t EXCEPT !.listener = NoTcb]
    PROVE  TcbInv(u, n)
<1>1. DataOK(t) /\ TcbFields \subseteq DOMAIN t /\ t.pacc \in BOOLEAN
  BY DEF TcbInv, DataOK
<1>2. CASE \E q : u = [t EXCEPT !.acceptq = q]
  <2>1. PICK q : u = [t EXCEPT !.acceptq = q]
    BY <1>2
  <2>2. SameWork(t, u)
    BY <1>1, <2>1 DEF SameWork, TcbFields, SameState, SameRecv, SameSend, SameTimers
  <2> QED
    BY <2>2, FrameKeeps
<1>3. CASE u = [t EXCEPT !.pacc = FALSE]
  <2>1. SameWork(t, u)
    BY <1>1, <1>3 DEF SameWork, TcbFields, SameState, SameRecv, SameSend, SameTimers
  <2> QED
    BY <2>1, FrameKeeps
<1>4. CASE u = [t EXCEPT !.pacc = TRUE]
  <2>1. SameWork(t, u)
    BY <1>1, <1>4 DEF SameWork, TcbFields, SameState, SameRecv, SameSend, SameTimers
  <2> QED
    BY <2>1, FrameKeeps
<1>5. CASE u = [t EXCEPT !.listener = NoTcb]
  <2>1. SameWork(t, u)
    BY <1>1, <1>5 DEF SameWork, TcbFields, SameState, SameRecv, SameSend, SameTimers
  <2> QED
    BY <2>1, FrameKeeps
<1> QED
  BY <1>2, <1>3, <1>4, <1>5

(* A block that does not do anything. *)
LEMMA QuietBlock ==
    ASSUME NEW t, DataOK(t), t.rxq = <<>>, t.rwnd = RcvWnd, t.precv = 0, t.psend = 0, t.sndq = 0,
           t.state \in {"FREE", "LISTEN"}, ~t.pconn, t.una = t.nxt, t.flags = {},
           ~t.rexmit, ~t.persist, ~t.msl, NEW n \in Nat
    PROVE  TcbInv(t, n)
<1>1. Len(t.rxq) + t.rwnd = RcvWnd
  BY HalfSpace
<1>2. RecvOK(t) /\ CallOK(t) /\ SpaceOK(t, n)
  BY <1>1 DEF RecvOK, CallOK, SpaceOK
<1>3. Sent(t) = 0
  BY MinusZero DEF DataOK, Sent
<1>4. SendOK(t) /\ TimerOK(t, n) /\ FinOK(t, n)
  BY <1>3 DEF SendOK, TimerOK, FinOK, Opening, Opened, Ending
<1> QED
  BY <1>2, <1>4 DEF TcbInv

(* The block that tcp_attach makes. *)
LEMMA FreshIs ==
    ASSUME NEW h, NEW state \in States, NEW t, t = Fresh(h, state)
    PROVE  /\ DataOK(t) /\ t.state = state /\ t.host = h /\ t.lport = 0
           /\ t.rxq = <<>> /\ t.rwnd = RcvWnd /\ t.precv = 0 /\ t.psend = 0 /\ t.sndq = 0
           /\ ~t.pconn /\ t.una = t.nxt /\ t.flags = {} /\ ~t.rexmit /\ ~t.persist /\ ~t.msl
           /\ t.listener = NoTcb /\ t.acceptq = <<>> /\ ~t.pacc /\ t.backlog = 0
<1>1. /\ t.state = state /\ t.host = h /\ t.lport = 0
      /\ t.rxq = <<>> /\ t.rwnd = RcvWnd /\ t.precv = 0 /\ t.psend = 0 /\ t.sndq = 0
      /\ ~t.pconn /\ t.una = t.nxt /\ t.flags = {} /\ ~t.rexmit /\ ~t.persist /\ ~t.msl
      /\ t.listener = NoTcb /\ t.acceptq = <<>> /\ ~t.pacc /\ t.backlog = 0
  BY DEF Fresh
<1>2. TcbFields \subseteq DOMAIN t
  BY DEF Fresh, TcbFields
<1>3. /\ t.una = 0 /\ t.nxt = 0 /\ t.wl1 = 0 /\ t.wl2 = 0 /\ t.iss = 0 /\ t.irs = 0 /\ t.rnxt = 0
      /\ t.wnd = 0 /\ t.sfree = 0 /\ t.rcvd = 0 /\ t.backoff = 0
      /\ t.rexmit = FALSE /\ t.persist = FALSE /\ t.msl = FALSE /\ t.pconn = FALSE
      /\ t.pacc = FALSE
  BY DEF Fresh
<1>4. <<>> \in Seq(Byte)
  OBVIOUS
<1>5. /\ 0 \in Seq32 /\ 0 \in 0 .. RcvWnd /\ RcvWnd \in 0 .. RcvWnd /\ 0 \in 0 .. SndBuf
      /\ 0 \in Nat
  BY HalfSpace
<1>6. /\ t.state \in States /\ t.rwnd \in 0 .. RcvWnd /\ t.sndq \in 0 .. SndBuf
      /\ t.psend \in Nat /\ t.precv \in Nat /\ t.rxq \in Seq(Byte)
  BY <1>1, <1>4, <1>5
<1>7. DataOK(t)
  BY <1>2, <1>3, <1>5, <1>6 DEF DataOK
<1> QED
  BY <1>1, <1>7

(* A block in the pool keeps the invariant. *)
LEMMA BlankKept ==
    ASSUME NEW s, NEW n \in Nat
    PROVE  TcbInv(Blank(s), n)
<1>1. PICK t : t = Blank(s)
  OBVIOUS
<1>2. t = Fresh(HostOf[s], "FREE") /\ "FREE" \in States
  BY <1>1 DEF Blank, States
<1> QED
  BY <1>1, <1>2, FreshIs, QuietBlock

(* LISTEN's block. *)
NewListener(h, b) == [Fresh(h, "LISTEN") EXCEPT !.lport = Service, !.backlog = b]

(* So does a new listener. *)
LEMMA ListenerKept ==
    ASSUME NEW h, NEW b, NEW n \in Nat, NEW u, u = NewListener(h, b)
    PROVE  /\ TcbInv(u, n) /\ u.listener = NoTcb /\ u.acceptq = <<>> /\ ~u.pacc
           /\ u.state = "LISTEN" /\ u.backlog = b
<1>1. PICK t : t = Fresh(h, "LISTEN")
  OBVIOUS
<1>2. /\ DataOK(t) /\ t.state = "LISTEN"
      /\ t.rxq = <<>> /\ t.rwnd = RcvWnd /\ t.precv = 0 /\ t.psend = 0 /\ t.sndq = 0
      /\ ~t.pconn /\ t.una = t.nxt /\ t.flags = {} /\ ~t.rexmit /\ ~t.persist /\ ~t.msl
      /\ t.listener = NoTcb /\ t.acceptq = <<>> /\ ~t.pacc
  <2>1. "LISTEN" \in States
    BY DEF States
  <2> QED
    BY <1>1, <2>1, FreshIs
<1>3. u = [t EXCEPT !.lport = Service, !.backlog = b]
  BY <1>1 DEF NewListener
<1>4. DataOK(u)
  BY <1>2, <1>3 DEF DataOK, TcbFields
<1>5. /\ u.state = "LISTEN" /\ u.backlog = b
      /\ u.rxq = <<>> /\ u.rwnd = RcvWnd /\ u.precv = 0 /\ u.psend = 0 /\ u.sndq = 0
      /\ ~u.pconn /\ u.una = u.nxt /\ u.flags = {} /\ ~u.rexmit /\ ~u.persist /\ ~u.msl
      /\ u.listener = NoTcb /\ u.acceptq = <<>> /\ ~u.pacc
  BY <1>2, <1>3 DEF DataOK, TcbFields
<1> QED
  BY <1>4, <1>5, QuietBlock

(* A block whose SYN is numbered, and sent unless it is CLOSED. *)
LEMMA OpeningKept ==
    ASSUME NEW t, DataOK(t), t.rxq = <<>>, t.rwnd = RcvWnd, t.precv = 0, t.psend = 0, t.sndq = 0,
           Quiet => Unended(t.flags),
           t.una = t.iss, t.nxt = Plus(t.iss, 1), ~t.rexmit, ~t.persist, ~t.msl,
           t.state \in Opening, CallOK(t), NEW n \in Nat,
           NEW u, u = Timers(t) \/ (u = t /\ t.state = "CLOSED")
    PROVE  TcbInv(u, n) /\ SamePlace(t, u) /\ u.state = t.state
<1>1. Sent(t) = 1
  <2>1. t.iss \in Seq32
    BY DEF DataOK
  <2>2. Minus(t.iss, t.iss) = 0
    BY <2>1, MinusZero
  <2>3. 0 + 1 < SeqMod
    BY HalfSpace
  <2>4. Minus(Plus(t.iss, 1), t.iss) = 0 + 1
    BY <2>1, <2>2, <2>3, MinusGrows
  <2> QED
    BY <2>4 DEF Sent
<1>2. t.una # t.nxt
  BY <1>1, MinusZero DEF DataOK, Sent
<1>3. Quiet => SendOK(t)
  BY <1>1 DEF SendOK, Opening, Opened, Ending, Unended
<1>4. Len(t.rxq) + t.rwnd = RcvWnd
  BY HalfSpace
<1>5. RecvOK(t) /\ SpaceOK(t, n) /\ FinOK(t, n)
  BY <1>4 DEF RecvOK, SpaceOK, FinOK, Opening, Ending
<1>6. CASE u = t /\ t.state = "CLOSED"
  <2>1. TimerOK(t, n)
    BY <1>6 DEF TimerOK
  <2> QED
    BY <1>3, <1>5, <1>6, <2>1, SameAll DEF TcbInv, Quiet
<1>7. CASE u = Timers(t)
  <2>1. /\ DataOK(u) /\ SamePlace(t, u) /\ SameState(t, u) /\ SameRecv(t, u) /\ SameSend(t, u)
        /\ u.msl = t.msl
    BY <1>7, TimersKeep
  <2>2. Quiet => SendOK(u) /\ TimersSet(u)
    BY <1>3, <1>7, TimersFlight
  <2>3. RecvOK(u) /\ SpaceOK(u, n) /\ FinOK(u, n) /\ CallOK(u)
    <3>1. RecvOK(u)
      BY <1>5, <2>1, RecvCarried DEF SameState
    <3>2. CallOK(u)
      BY <2>1 DEF CallOK, SamePlace, SameState
    <3>3. SpaceOK(u, n) /\ FinOK(u, n)
      BY <1>5, <2>1 DEF SpaceOK, FinOK, SameSend, SameState
    <3> QED
      BY <3>1, <3>2, <3>3
  <2>4. Quiet => TimerOK(u, n)
    <3>1. u.sndq = 0 /\ ~u.msl /\ u.state # "TIME_WAIT" /\ u.una = t.una /\ u.nxt = t.nxt
      BY <2>1 DEF SameSend, SameState, Opening
    <3> QED
      BY <2>2, <3>1 DEF TimerOK, TimersSet
  <2> QED
    BY <2>1, <2>2, <2>3, <2>4 DEF TcbInv, SameState, Quiet
<1> QED
  BY <1>6, <1>7

(* A handler begins with the block as it is. *)
LEMMA BeginResult ==
    ASSUME NEW t, DataOK(t), NEW room \in BOOLEAN
    PROVE  /\ Result(Begin(t, room)) /\ Begin(t, room).t = t /\ Begin(t, room).room = room
           /\ ~Begin(t, room).grad /\ ~Begin(t, room).gone
  BY DEF Result, ResultFields, Begin

CallerOf(b, f, p, fl, iss, m) ==
    [b EXCEPT !.faddr = f, !.lport = p, !.flags = fl, !.fport = Service, !.iss = iss, !.una = iss,
              !.nxt = m]

(* The fields of a block that connects. *)
LEMMA CallerBlock ==
    ASSUME NEW b, DataOK(b), NEW f, NEW p, NEW fl, NEW iss \in Seq32, NEW m \in Seq32,
           NEW t, t = CallerOf(b, f, p, fl, iss, m)
    PROVE  /\ DataOK(t) /\ t.fport = Service /\ t.lport = p /\ t.iss = iss /\ t.una = iss
           /\ t.nxt = m /\ t.state = b.state
           /\ t.rxq = b.rxq /\ t.rwnd = b.rwnd /\ t.precv = b.precv /\ t.psend = b.psend
           /\ t.sndq = b.sndq /\ t.pconn = b.pconn /\ t.flags = fl
           /\ t.rexmit = b.rexmit /\ t.persist = b.persist /\ t.msl = b.msl
           /\ t.listener = b.listener /\ t.acceptq = b.acceptq /\ t.pacc = b.pacc
           /\ t.backlog = b.backlog
<1>1. DataOK(t)
  BY DEF DataOK, TcbFields, CallerOf
<1>2. /\ t.fport = Service /\ t.lport = p /\ t.iss = iss /\ t.una = iss
      /\ t.nxt = m /\ t.state = b.state
      /\ t.rxq = b.rxq /\ t.rwnd = b.rwnd /\ t.precv = b.precv /\ t.psend = b.psend
  BY DEF DataOK, TcbFields, CallerOf
<1>3. /\ t.sndq = b.sndq /\ t.pconn = b.pconn /\ t.flags = fl
      /\ t.rexmit = b.rexmit /\ t.persist = b.persist /\ t.msl = b.msl
      /\ t.listener = b.listener /\ t.acceptq = b.acceptq /\ t.pacc = b.pacc
      /\ t.backlog = b.backlog
  BY DEF DataOK, TcbFields, CallerOf
<1> QED
  BY <1>1, <1>2, <1>3

(* CONNECT's block and its SYN. *)
NewCaller(h, f, p, fl, iss) == CallerOf(Fresh(h, "SYN_SENT"), f, p, fl, iss, Plus(iss, 1))

Called(t, parks, room) ==
    IF room THEN Timers([t EXCEPT !.pconn = parks]) ELSE [t EXCEPT !.state = "CLOSED"]

SynSent(t, room) == Emit(Begin(t, room), {"SYN"}).out
Valid(out) == \A g \in out : SegOK(g)

(* It keeps the invariant, and its SYN is well formed. *)
LEMMA CallerKept ==
    ASSUME NEW h, NEW f, NEW p, p # Service, NEW fl, Quiet => Unended(fl),
           NEW iss \in Seq32, NEW n \in Nat, NEW parks \in BOOLEAN, NEW room \in BOOLEAN,
           NEW t, t = NewCaller(h, f, p, fl, iss), NEW u, u = Called(t, parks, room)
    PROVE  /\ TcbInv(u, n) /\ u.listener = NoTcb /\ u.acceptq = <<>> /\ ~u.pacc /\ u.backlog = 0
           /\ u.state \in {"SYN_SENT", "CLOSED"}
           /\ Valid(SynSent(t, room))
<1>1. PICK b : b = Fresh(h, "SYN_SENT")
  OBVIOUS
<1>2. /\ DataOK(b) /\ b.state = "SYN_SENT"
      /\ b.rxq = <<>> /\ b.rwnd = RcvWnd /\ b.precv = 0 /\ b.psend = 0 /\ b.sndq = 0
      /\ ~b.pconn /\ ~b.rexmit /\ ~b.persist /\ ~b.msl
      /\ b.listener = NoTcb /\ b.acceptq = <<>> /\ ~b.pacc /\ b.backlog = 0
  <2>1. "SYN_SENT" \in States
    BY DEF States
  <2> QED
    BY <1>1, <2>1, FreshIs
<1>3. PICK m \in Seq32 : m = Plus(iss, 1)
  BY PlusOne
<1>4. t = CallerOf(b, f, p, fl, iss, m)
  BY <1>1, <1>3 DEF NewCaller
<1>5. /\ DataOK(t) /\ t.state = "SYN_SENT" /\ t.fport = Service /\ t.lport = p
      /\ t.iss = iss /\ t.una = iss /\ t.nxt = m
      /\ t.rxq = <<>> /\ t.rwnd = RcvWnd /\ t.precv = 0 /\ t.psend = 0 /\ t.sndq = 0
      /\ ~t.pconn /\ t.flags = fl /\ ~t.rexmit /\ ~t.persist /\ ~t.msl
      /\ t.listener = NoTcb /\ t.acceptq = <<>> /\ ~t.pacc /\ t.backlog = 0
  <2>1. PICK v : v = CallerOf(b, f, p, fl, iss, m)
    OBVIOUS
  <2>2. /\ DataOK(v) /\ v.fport = Service /\ v.lport = p /\ v.iss = iss /\ v.una = iss
        /\ v.nxt = m /\ v.state = b.state
        /\ v.rxq = b.rxq /\ v.rwnd = b.rwnd /\ v.precv = b.precv /\ v.psend = b.psend
        /\ v.sndq = b.sndq /\ v.pconn = b.pconn /\ v.flags = fl
        /\ v.rexmit = b.rexmit /\ v.persist = b.persist /\ v.msl = b.msl
        /\ v.listener = b.listener /\ v.acceptq = b.acceptq /\ v.pacc = b.pacc
        /\ v.backlog = b.backlog
    BY <1>2, <2>1, CallerBlock
  <2>3. t = v
    BY <1>4, <2>1
  <2> QED
    BY <1>2, <2>2, <2>3
<1>6. PICK s \in {"SYN_SENT", "CLOSED"} : s = IF room THEN "SYN_SENT" ELSE "CLOSED"
  OBVIOUS
<1>7. PICK c \in BOOLEAN : c = (room /\ parks)
  OBVIOUS
<1>8. PICK v : v = [t EXCEPT !.state = s, !.pconn = c]
  OBVIOUS
<1>9. u = Timers(v) \/ (u = v /\ v.state = "CLOSED")
  <2>1. CASE room
    <3>1. v = [t EXCEPT !.pconn = parks]
      BY <1>5, <1>6, <1>7, <1>8, <2>1 DEF DataOK, TcbFields
    <3> QED
      BY <2>1, <3>1 DEF Called
  <2>2. CASE ~room
    <3>1. v = [t EXCEPT !.state = "CLOSED"] /\ v.state = "CLOSED"
      BY <1>5, <1>6, <1>7, <1>8, <2>2 DEF DataOK, TcbFields
    <3> QED
      BY <2>2, <3>1 DEF Called
  <2> QED
    BY <2>1, <2>2
<1>10. /\ DataOK(v) /\ v.state = s /\ v.pconn = c /\ v.fport = Service /\ v.lport = p
       /\ v.iss = iss /\ v.una = iss /\ v.nxt = m
       /\ v.rxq = <<>> /\ v.rwnd = RcvWnd /\ v.precv = 0 /\ v.psend = 0 /\ v.sndq = 0
       /\ v.flags = fl /\ ~v.rexmit /\ ~v.persist /\ ~v.msl
       /\ v.listener = NoTcb /\ v.acceptq = <<>> /\ ~v.pacc /\ v.backlog = 0
  BY <1>5, <1>8 DEF DataOK, TcbFields, States
<1>11. CallOK(v) /\ v.state \in Opening
  BY <1>6, <1>7, <1>10 DEF CallOK, Opening
<1>12. TcbInv(u, n) /\ SamePlace(v, u) /\ u.state = v.state
  BY <1>3, <1>9, <1>10, <1>11, OpeningKept
<1>13. u.listener = NoTcb /\ u.acceptq = <<>> /\ ~u.pacc /\ u.backlog = 0
  BY <1>10, <1>12 DEF SamePlace
<1>14. Valid(SynSent(t, room))
  <2>1. Result(Begin(t, room)) /\ Begin(t, room).t.fport = Service
    BY <1>5, BeginResult
  <2>2. Result(Emit(Begin(t, room), {"SYN"}))
    BY <2>1, EmitKeeps
  <2> QED
    BY <2>2 DEF Result, Valid, SynSent
<1> QED
  BY <1>6, <1>10, <1>12, <1>13, <1>14

ChildOf(b, f, p, k, l, iss, m, s, r, w) ==
    [b EXCEPT !.faddr = f, !.lport = p, !.fport = k, !.listener = l, !.iss = iss, !.una = iss,
              !.nxt = m, !.irs = s, !.rnxt = r, !.wnd = w, !.wl1 = s, !.wl2 = iss]

(* The fields of a child. *)
LEMMA ChildBlock ==
    ASSUME NEW b, DataOK(b), NEW f, NEW p, NEW k, NEW l, NEW iss \in Seq32, NEW m \in Seq32,
           NEW s \in Seq32, NEW r \in Seq32, NEW w \in 0 .. RcvWnd,
           NEW t, t = ChildOf(b, f, p, k, l, iss, m, s, r, w)
    PROVE  /\ DataOK(t) /\ t.iss = iss /\ t.una = iss
           /\ t.nxt = m /\ t.state = b.state
           /\ t.rxq = b.rxq /\ t.rwnd = b.rwnd /\ t.precv = b.precv /\ t.psend = b.psend
           /\ t.sndq = b.sndq /\ t.pconn = b.pconn /\ t.flags = b.flags
           /\ t.rexmit = b.rexmit /\ t.persist = b.persist /\ t.msl = b.msl
           /\ t.listener = l /\ t.acceptq = b.acceptq /\ t.pacc = b.pacc
           /\ t.backlog = b.backlog
<1>1. DataOK(t)
  BY DEF DataOK, TcbFields, ChildOf
<1>2. /\ t.iss = iss /\ t.una = iss
      /\ t.nxt = m /\ t.state = b.state
      /\ t.rxq = b.rxq /\ t.rwnd = b.rwnd /\ t.precv = b.precv /\ t.psend = b.psend
  BY DEF DataOK, TcbFields, ChildOf
<1>3. /\ t.sndq = b.sndq /\ t.pconn = b.pconn /\ t.flags = b.flags
      /\ t.rexmit = b.rexmit /\ t.persist = b.persist /\ t.msl = b.msl
      /\ t.listener = l /\ t.acceptq = b.acceptq /\ t.pacc = b.pacc
      /\ t.backlog = b.backlog
  BY DEF DataOK, TcbFields, ChildOf
<1> QED
  BY <1>1, <1>2, <1>3

(* tcp_passive_open's block and its SYN and ACK. *)
NewChild(h, l, g, iss) ==
    ChildOf(Fresh(h, "SYN_RCVD"), g.from, g.dport, g.sport, l, iss, Plus(iss, 1), g.seq,
            Plus(g.seq, 1), g.wnd)

(* It keeps the invariant. *)
LEMMA ChildKept ==
    ASSUME NEW h, NEW l, NEW g, SegOK(g), NEW iss \in Seq32, NEW n \in Nat,
           NEW t, t = NewChild(h, l, g, iss),
           NEW u, u = Timers(t)
    PROVE  /\ TcbInv(u, n) /\ u.listener = l /\ u.acceptq = <<>> /\ ~u.pacc /\ u.backlog = 0
           /\ u.state = "SYN_RCVD" /\ DataOK(t)
<1>1. PICK b : b = Fresh(h, "SYN_RCVD")
  OBVIOUS
<1>2. /\ DataOK(b) /\ b.state = "SYN_RCVD"
      /\ b.rxq = <<>> /\ b.rwnd = RcvWnd /\ b.precv = 0 /\ b.psend = 0 /\ b.sndq = 0
      /\ ~b.pconn /\ b.flags = {} /\ ~b.rexmit /\ ~b.persist /\ ~b.msl
      /\ b.acceptq = <<>> /\ ~b.pacc /\ b.backlog = 0
  <2>1. "SYN_RCVD" \in States
    BY DEF States
  <2> QED
    BY <1>1, <2>1, FreshIs
<1>3. g.seq \in Seq32 /\ g.wnd \in 0 .. RcvWnd
  BY DEF SegOK
<1>4. PICK m \in Seq32 : m = Plus(iss, 1)
  BY PlusOne
<1>5. PICK r \in Seq32 : r = Plus(g.seq, 1)
  BY <1>3, PlusOne
<1>6. t = ChildOf(b, g.from, g.dport, g.sport, l, iss, m, g.seq, r, g.wnd)
  BY <1>1, <1>4, <1>5 DEF NewChild
<1>7. /\ DataOK(t) /\ t.iss = iss /\ t.una = iss
      /\ t.nxt = m /\ t.state = b.state
      /\ t.rxq = b.rxq /\ t.rwnd = b.rwnd /\ t.precv = b.precv /\ t.psend = b.psend
      /\ t.sndq = b.sndq /\ t.pconn = b.pconn /\ t.flags = b.flags
      /\ t.rexmit = b.rexmit /\ t.persist = b.persist /\ t.msl = b.msl
      /\ t.listener = l /\ t.acceptq = b.acceptq /\ t.pacc = b.pacc
      /\ t.backlog = b.backlog
  <2>1. PICK v : v = ChildOf(b, g.from, g.dport, g.sport, l, iss, m, g.seq, r, g.wnd)
    OBVIOUS
  <2>2. /\ DataOK(v) /\ v.iss = iss /\ v.una = iss
        /\ v.nxt = m /\ v.state = b.state
        /\ v.rxq = b.rxq /\ v.rwnd = b.rwnd /\ v.precv = b.precv /\ v.psend = b.psend
        /\ v.sndq = b.sndq /\ v.pconn = b.pconn /\ v.flags = b.flags
        /\ v.rexmit = b.rexmit /\ v.persist = b.persist /\ v.msl = b.msl
        /\ v.listener = l /\ v.acceptq = b.acceptq /\ v.pacc = b.pacc
        /\ v.backlog = b.backlog
    BY <1>2, <1>3, <2>1, ChildBlock
  <2>3. t = v
    BY <1>6, <2>1
  <2> QED
    BY <2>2, <2>3
<1>8. /\ t.state = "SYN_RCVD"
      /\ t.rxq = <<>> /\ t.rwnd = RcvWnd /\ t.precv = 0 /\ t.psend = 0 /\ t.sndq = 0
      /\ ~t.pconn /\ t.flags = {} /\ ~t.rexmit /\ ~t.persist /\ ~t.msl
      /\ t.listener = l /\ t.acceptq = <<>> /\ ~t.pacc /\ t.backlog = 0
  BY <1>2, <1>7
<1>9. CallOK(t) /\ t.state \in Opening /\ Unended(t.flags)
  BY <1>8 DEF CallOK, Opening, Unended
<1>10. TcbInv(u, n) /\ SamePlace(t, u) /\ u.state = t.state
  BY <1>4, <1>7, <1>8, <1>9, OpeningKept
<1>11. u.listener = l /\ u.acceptq = <<>> /\ ~u.pacc /\ u.backlog = 0
  BY <1>8, <1>10 DEF SamePlace
<1> QED
  BY <1>7, <1>8, <1>10, <1>11

(* And its SYN and ACK are well formed. *)
LEMMA ChildSends ==
    ASSUME NEW t, DataOK(t), NEW room \in BOOLEAN
    PROVE  \A z \in Emit(Begin(t, room), {"SYN", "ACK"}).out : SegOK(z)
<1>1. Result(Begin(t, room)) /\ "ACK" \in {"SYN", "ACK"}
  BY BeginResult
<1>2. Result(Emit(Begin(t, room), {"SYN", "ACK"}))
  BY <1>1, EmitKeeps
<1> QED
  BY <1>2 DEF Result

-----------------------------------------------------------------------------
(* The table after an event of block s whose result is y. *)
LEMMA TableFields ==
    ASSUME NEW tab, NEW n, TableOK(tab, n)
    PROVE  \A c \in Slot : TcbFields \subseteq DOMAIN tab[c]
  BY DEF TableOK, TcbInv, DataOK

(* tcp_destroy keeps the whole table. *)
LEMMA TableDestroyed ==
    ASSUME NEW tab, NEW n \in Nat, TableOK(tab, n), NEW s \in Slot,
           NEW new, new = Destroyed(tab, s)
    PROVE  TableOK(new, n)
<1>1. AcceptInv(new)
  BY TableFields, DestroyedKeeps DEF TableOK
<1>2. DOMAIN new = Slot
  BY DEF Destroyed
<1>3. ASSUME NEW c \in Slot
      PROVE  TcbInv(new[c], n)
  <2>1. CASE c \in Doomed(tab, s)
    <3>1. new[c] = Blank(c)
      BY <2>1 DEF Destroyed, Doomed
    <3> QED
      BY <3>1, BlankKept
  <2>2. CASE c \notin Doomed(tab, s)
    <3>1. PICK q : q = SeqOps!RemoveFirst(tab[c].acceptq, s)
      OBVIOUS
    <3>2. PICK t : t = tab[c]
      OBVIOUS
    <3>3. new[c] = [t EXCEPT !.acceptq = q]
      BY <2>2, <3>1, <3>2 DEF Destroyed, Doomed
    <3>4. TcbInv(t, n)
      BY <3>2 DEF TableOK
    <3> QED
      BY <3>3, <3>4, PlaceMoves
  <2> QED
    BY <2>1, <2>2
<1> QED
  BY <1>1, <1>2, <1>3 DEF TableOK

(* The full queue of tcp_graduate: the children past the handshake are      *)
(* fewer than all children, and these fit the backlog.                     *)
LEMMA QueueHasRoom ==
    ASSUME NEW tab, AcceptInv(tab), NEW l \in Slot, NEW s \in Slot, tab[s].listener = l,
           tab[s].state = "SYN_RCVD"
    PROVE  Len(tab[l].acceptq) < tab[l].backlog
<1>1. PICK q : q = tab[l].acceptq
  OBVIOUS
<1>2. PICK b \in Nat : b = tab[l].backlog
  BY DEF AcceptInv
<1>3. PICK A : A = Children(tab, l)
  OBVIOUS
<1>4. PICK P : P = {c \in Slot : Holds(q, c)}
  OBVIOUS
<1>5. /\ q \in Seq(Slot) /\ Distinct(q)
      /\ \A c \in Slot : Holds(q, c) <=> tab[c].listener = l /\ Past(tab, c)
  BY <1>1 DEF AcceptInv, QueueOf
<1>6. Cardinality(P) = Len(q) /\ Len(q) \in Nat
  BY <1>4, <1>5, QueueLength
<1>7. s \in A /\ IsFiniteSet(A) /\ Cardinality(A) \in Nat
  BY <1>3, ChildrenFinite DEF Children
<1>8. Cardinality(A) <= b
  BY <1>2, <1>3, <1>7 DEF AcceptInv
<1>9. P \in SUBSET (A \ {s})
  BY <1>3, <1>4, <1>5 DEF Children, Past, Opened, Ending
<1>10. IsFiniteSet(A \ {s}) /\ Cardinality(A \ {s}) = Cardinality(A) - 1
  BY <1>7, FS_RemoveElement
<1>11. Cardinality(P) <= Cardinality(A \ {s})
  BY <1>9, <1>10, FS_Subset
<1> QED
  BY <1>1, <1>2, <1>6, <1>7, <1>8, <1>10, <1>11

(* One block changes, and the queues stay true. *)
LEMMA TablePut ==
    ASSUME NEW tab, NEW n \in Nat, TableOK(tab, n), NEW s \in Slot, NEW u, TcbInv(u, n),
           NEW new, new = [tab EXCEPT ![s] = u], AcceptInv(new)
    PROVE  TableOK(new, n)
<1>1. DOMAIN new = Slot /\ new[s] = u /\ \A c \in Slot : c # s => new[c] = tab[c]
  BY DEF TableOK
<1>2. ASSUME NEW c \in Slot
      PROVE  TcbInv(new[c], n)
  BY <1>1 DEF TableOK
<1> QED
  BY <1>1, <1>2 DEF TableOK

(* One block changes without a listener to tell. *)
LEMMA TableStays ==
    ASSUME NEW tab, NEW n \in Nat, TableOK(tab, n), NEW s \in Slot, NEW u, TcbInv(u, n),
           SamePlace(tab[s], u),
           \/ u.state = tab[s].state
           \/ tab[s].state \in Opened \cup Ending /\ u.state \in Opened \cup Ending
           \/ tab[s].state = "SYN_SENT" /\ u.state \in Opened \cup Ending,
           NEW new, new = [tab EXCEPT ![s] = u]
    PROVE  TableOK(new, n)
<1>1. DOMAIN new = Slot /\ new[s] = u /\ \A c \in Slot : c # s => new[c] = tab[c]
  BY DEF TableOK
<1>2. AcceptInv(tab)
  BY DEF TableOK
<1>3. ASSUME NEW c \in Slot
      PROVE  /\ SamePlace(tab[c], new[c])
             /\ new[c].state = "SYN_RCVD" => tab[c].state = "SYN_RCVD"
             /\ tab[c].state = "LISTEN" => new[c].state = "LISTEN"
             /\ tab[c].listener # NoTcb =>
                  \/ tab[c].state = "SYN_RCVD" /\ new[c].state = "SYN_RCVD"
                  \/ Past(tab, c) /\ Past(new, c)
  <2>1. tab[c].listener # NoTcb => tab[c].state = "SYN_RCVD" \/ Past(tab, c)
    BY <1>2 DEF AcceptInv
  <2>2. CASE c = s
    BY <1>1, <2>1, <2>2 DEF Past, Opened, Ending
  <2>3. CASE c # s
    <3>1. new[c] = tab[c]
      BY <1>1, <2>3
    <3> QED
      BY <2>1, <3>1, SameAll DEF Past
  <2> QED
    BY <2>2, <2>3
<1>4. AcceptInv(new)
  BY <1>2, <1>3, TableCarried
<1> QED
  BY <1>4, TablePut

(* A change of the waiting ACCEPT only. *)
LEMMA PaccIs ==
    ASSUME NEW t, TcbFields \subseteq DOMAIN t, NEW u, u = [t EXCEPT !.pacc = FALSE]
    PROVE  /\ u.acceptq = t.acceptq /\ u.listener = t.listener /\ u.state = t.state
           /\ u.backlog = t.backlog /\ ~u.pacc
  BY DEF TcbFields

(* A change of the listener only. *)
LEMMA ListenerIs ==
    ASSUME NEW t, TcbFields \subseteq DOMAIN t, NEW u, u = [t EXCEPT !.listener = NoTcb]
    PROVE  /\ u.acceptq = t.acceptq /\ u.listener = NoTcb /\ u.state = t.state
           /\ u.backlog = t.backlog /\ u.pacc = t.pacc
  BY DEF TcbFields

(* The handshake of a child is over. *)
LEMMA TableGraduates ==
    ASSUME NEW tab, NEW n \in Nat, TableOK(tab, n), NEW s \in Slot, tab[s].state = "SYN_RCVD",
           NEW u, TcbInv(u, n), SamePlace(tab[s], u), u.state \in Opened \cup Ending,
           NEW mid, mid = [tab EXCEPT ![s] = u], NEW new, new = Graduated(mid, s)
    PROVE  TableOK(new, n)
<1>1. AcceptInv(tab) /\ NoTcb \notin Slot
  BY PortsAssumption DEF TableOK
<1>2. PICK l \in Slot : l = tab[s].listener /\ tab[l].state = "LISTEN"
  BY <1>1 DEF AcceptInv
<1>3. l # s
  BY <1>2
<1>4. DOMAIN mid = Slot /\ mid[s] = u /\ \A c \in Slot : c # s => mid[c] = tab[c]
  BY DEF TableOK
<1>5. /\ u.listener = l /\ u.acceptq = tab[s].acceptq /\ u.backlog = tab[s].backlog
      /\ u.pacc = tab[s].pacc
  BY <1>2 DEF SamePlace
<1>6. mid[s].listener = l /\ mid[l] = tab[l]
  BY <1>3, <1>4, <1>5
<1>7. TcbFields \subseteq DOMAIN u /\ \A c \in Slot : TcbFields \subseteq DOMAIN tab[c]
  BY TableFields DEF TcbInv, DataOK
<1>8. /\ tab[l].acceptq \in Seq(Slot) /\ Distinct(tab[l].acceptq) /\ ~Holds(tab[l].acceptq, s)
  BY <1>1 DEF AcceptInv, QueueOf, Past, Opened, Ending
<1>9. CASE tab[l].pacc
  <2>1. new = [mid EXCEPT ![l].pacc = FALSE, ![s].listener = NoTcb]
    BY <1>6, <1>9 DEF Graduated
  <2>2. PICK v : v = [tab[l] EXCEPT !.pacc = FALSE]
    OBVIOUS
  <2>3. PICK w : w = [u EXCEPT !.listener = NoTcb]
    OBVIOUS
  <2>4. /\ DOMAIN new = Slot /\ new[l] = v /\ new[s] = w
        /\ \A c \in Slot : c # s /\ c # l => new[c] = tab[c]
    BY <1>3, <1>4, <1>6, <2>1, <2>2, <2>3
  <2>5. /\ v.acceptq = tab[l].acceptq /\ v.listener = tab[l].listener /\ v.state = tab[l].state
        /\ v.backlog = tab[l].backlog /\ ~v.pacc
    BY <1>7, <2>2, PaccIs
  <2>6. /\ w.acceptq = u.acceptq /\ w.listener = NoTcb /\ w.state = u.state
        /\ w.backlog = u.backlog /\ w.pacc = u.pacc
    BY <1>7, <2>3, ListenerIs
  <2>7. AcceptInv(new)
    <3>1. \A c \in Slot : new[c].state = tab[c].state \/ c = s
      BY <2>4, <2>5
    <3>2. ASSUME NEW c \in Slot
          PROVE  new[c].listener = IF c = s THEN NoTcb ELSE tab[c].listener
      BY <1>3, <2>4, <2>5, <2>6
    <3>3. ASSUME NEW c \in Slot \ {l}
          PROVE  new[c].acceptq = tab[c].acceptq /\ new[c].pacc = tab[c].pacc
      BY <1>5, <2>4, <2>6
    <3>4. ASSUME NEW c \in Slot
          PROVE  new[c].backlog = tab[c].backlog
      BY <1>5, <2>4, <2>5, <2>6
    <3>5. Past(new, s)
      BY <2>4, <2>6 DEF Past
    <3>6. new[l].acceptq = tab[l].acceptq /\ ~new[l].pacc
      BY <2>4, <2>5
    <3>7. \A c \in Slot : Holds(new[l].acceptq, c) <=> Holds(tab[l].acceptq, c) /\ c # s
      BY <1>8, <3>6
    <3>8. tab[s].listener = l
      BY <1>2
    <3>9. new[l].acceptq \in Seq(Slot) /\ Distinct(new[l].acceptq)
      BY <1>8, <3>6
    <3>10. new[l].pacc => new[l].acceptq = <<>>
      BY <3>6
    <3>11. GivesAway(tab, new, l, s)
      BY <3>1, <3>2, <3>3, <3>4, <3>5, <3>7, <3>8, <3>9, <3>10 DEF GivesAway
    <3> QED
      BY <1>1, <3>11, GivenAway
  <2>8. ASSUME NEW c \in Slot
        PROVE  TcbInv(new[c], n)
    <3>1. TcbInv(v, n)
      <4>1. PICK t : t = tab[l] /\ TcbInv(t, n)
        BY DEF TableOK
      <4> QED
        BY <2>2, <4>1, PlaceMoves
    <3>2. TcbInv(w, n)
      BY <2>3, PlaceMoves
    <3> QED
      BY <2>4, <3>1, <3>2 DEF TableOK
  <2> QED
    BY <2>4, <2>7, <2>8 DEF TableOK
<1>10. CASE ~tab[l].pacc
  <2>1. Len(tab[l].acceptq) < tab[l].backlog
    BY <1>1, <1>2, QueueHasRoom
  <2>2. new = [mid EXCEPT ![l].acceptq = Append(@, s)]
    BY <1>6, <1>10, <2>1 DEF Graduated
  <2>3. PICK q : q = Append(tab[l].acceptq, s)
    OBVIOUS
  <2>4. PICK v : v = [tab[l] EXCEPT !.acceptq = q]
    OBVIOUS
  <2>5. /\ DOMAIN new = Slot /\ new[l] = v /\ new[s] = u
        /\ \A c \in Slot : c # s /\ c # l => new[c] = tab[c]
    BY <1>3, <1>4, <1>6, <2>2, <2>3, <2>4
  <2>6. /\ v.acceptq = q /\ v.listener = tab[l].listener /\ v.state = tab[l].state
        /\ v.backlog = tab[l].backlog /\ v.pacc = tab[l].pacc
    BY <1>7, <2>4, OthersLose
  <2>7. AcceptInv(new)
    <3>1. \A c \in Slot : new[c].state = tab[c].state \/ c = s
      BY <2>5, <2>6
    <3>2. ASSUME NEW c \in Slot
          PROVE  new[c].listener = tab[c].listener /\ new[c].pacc = tab[c].pacc
      BY <1>2, <1>5, <2>5, <2>6
    <3>3. ASSUME NEW c \in Slot \ {l}
          PROVE  new[c].acceptq = tab[c].acceptq
      BY <1>5, <2>5
    <3>4. ASSUME NEW c \in Slot
          PROVE  new[c].backlog = tab[c].backlog
      BY <1>5, <2>5, <2>6
    <3>5. Past(new, s)
      BY <2>5 DEF Past
    <3>6. new[l].acceptq = Append(tab[l].acceptq, s)
      BY <2>3, <2>5, <2>6
    <3>7. tab[s].listener = l
      BY <1>2
    <3> QED
      <4>1. Queues(tab, new, l, s)
        BY <1>1, <1>10, <3>1, <3>2, <3>3, <3>4, <3>5, <3>6, <3>7 DEF Queues
      <4> QED
        BY <1>1, <1>2, <4>1, ChildQueued DEF TableOK
  <2>8. ASSUME NEW c \in Slot
        PROVE  TcbInv(new[c], n)
    <3>1. TcbInv(v, n)
      <4>1. PICK t : t = tab[l] /\ TcbInv(t, n)
        BY DEF TableOK
      <4> QED
        BY <2>4, <4>1, PlaceMoves
    <3> QED
      BY <2>5, <3>1 DEF TableOK
  <2> QED
    BY <2>5, <2>7, <2>8 DEF TableOK
<1> QED
  BY <1>9, <1>10

(* The table after any outcome of an event. *)
LEMMA AfterKeeps ==
    ASSUME NEW tab, NEW n \in Nat, TableOK(tab, n), NEW s \in Slot, NEW y, Outcome(tab[s], y, n),
           NEW new, new = After(tab, s, y)
    PROVE  TableOK(new, n)
<1>1. y.gone \in BOOLEAN /\ y.grad \in BOOLEAN /\ SamePlace(tab[s], y.t)
  BY DEF Outcome, Result
<1>2. CASE y.gone
  <2>1. new = Destroyed(tab, s)
    BY <1>2 DEF After
  <2> QED
    BY <2>1, TableDestroyed
<1>3. CASE ~y.gone
  <2>1. TcbInv(y.t, n) /\ Moves(tab[s], y)
    BY <1>3 DEF Outcome, Kept
  <2>2. PICK mid : mid = [tab EXCEPT ![s] = y.t]
    OBVIOUS
  <2>3. CASE y.grad
    <3>1. new = Graduated(mid, s)
      BY <1>3, <2>2, <2>3 DEF After
    <3>2. /\ tab[s].state \in {"SYN_SENT", "SYN_RCVD"} /\ y.t.state \in Opened \cup Ending
          /\ tab[s].listener # NoTcb
      BY <2>1, <2>3 DEF Moves
    <3>3. tab[s].state = "SYN_RCVD"
      BY <3>2 DEF TableOK, AcceptInv, Past, Opened, Ending
    <3> QED
      BY <1>1, <2>1, <2>2, <3>1, <3>2, <3>3, TableGraduates
  <2>4. CASE ~y.grad
    <3>1. new = mid
      BY <1>3, <2>2, <2>4 DEF After
    <3>2. tab[s].state = "SYN_RCVD" => tab[s].listener # NoTcb
      BY DEF TableOK, AcceptInv
    <3>3. \/ y.t.state = tab[s].state
          \/ tab[s].state \in Opened \cup Ending /\ y.t.state \in Opened \cup Ending
          \/ tab[s].state = "SYN_SENT" /\ y.t.state \in Opened \cup Ending
      BY <2>1, <2>4, <3>2 DEF Moves
    <3> QED
      BY <1>1, <2>1, <2>2, <3>1, <3>3, TableStays
  <2> QED
    BY <1>1, <2>3, <2>4
<1> QED
  BY <1>1, <1>2, <1>3

-----------------------------------------------------------------------------
(* The events of one control block. *)
LEMMA RoomKeeps ==
    ASSUME Inv, NEW room \in BOOLEAN, Room(room)
    PROVE  /\ nobufs' \in Nat /\ nobufs' = (IF room THEN nobufs ELSE nobufs + 1)
           /\ TableOK(tcb, nobufs')
<1>1. nobufs \in Nat /\ TableOK(tcb, nobufs)
  BY DEF Inv
<1>2. nobufs' \in Nat /\ nobufs' = (IF room THEN nobufs ELSE nobufs + 1) /\ nobufs' >= nobufs
  BY <1>1 DEF Room
<1>3. PICK m \in Nat : m = nobufs' /\ m >= nobufs
  BY <1>2
<1>4. ASSUME NEW s \in Slot
      PROVE  TcbInv(tcb[s], m)
  BY <1>1, <1>3, MoreMissed DEF TableOK
<1> QED
  BY <1>1, <1>2, <1>3, <1>4 DEF TableOK

(* An event begins with the invariant. *)
LEMMA BeginKept ==
    ASSUME Inv, NEW room \in BOOLEAN, Room(room), NEW s \in Slot, NEW x, x = Begin(tcb[s], room)
    PROVE  /\ Kept(x, nobufs') /\ (Quiet => FinOK(x.t, Before(x, nobufs')))
           /\ x.t = tcb[s] /\ x.room = room /\ ~x.grad /\ ~x.gone
<1>1. nobufs \in Nat /\ TcbInv(tcb[s], nobufs)
  BY DEF Inv, TableOK
<1>2. /\ nobufs' \in Nat /\ nobufs' = (IF room THEN nobufs ELSE nobufs + 1)
      /\ TcbInv(tcb[s], nobufs')
  BY RoomKeeps DEF TableOK
<1>3. PICK t : t = tcb[s]
  OBVIOUS
<1>4. DataOK(t)
  BY <1>1, <1>3 DEF TcbInv
<1>5. Result(x) /\ x.t = t /\ x.room = room /\ ~x.grad /\ ~x.gone
  BY <1>3, <1>4, BeginResult
<1>6. PICK n \in Nat : n = nobufs' /\ n = (IF room THEN nobufs ELSE nobufs + 1)
  BY <1>2
<1>7. Missed(x, n) /\ Before(x, n) = nobufs
  BY <1>1, <1>5, <1>6 DEF Missed, Before
<1>8. Quiet => FinOK(t, nobufs)
  BY <1>1, <1>3 DEF TcbInv, Quiet
<1>9. Kept(x, n)
  BY <1>2, <1>3, <1>5, <1>6, <1>7 DEF Kept
<1> QED
  BY <1>3, <1>5, <1>6, <1>7, <1>8, <1>9

-----------------------------------------------------------------------------
(* Connections and the blocks they are in.                                  *)
(* A block stays with its connection until it is given back, but one in     *)
(* TIME_WAIT, or one with no connection on the wire, may be used again.     *)
KeepsName(t, u) ==
    u.iss = t.iss \/ u.state = "FREE" \/ t.state \in {"FREE", "CLOSED", "TIME_WAIT"}

(* What every step does beside keeping the invariant. *)
Orderly ==
    /\ nobufs' = nobufs \/ (nobufs' = nobufs + 1 /\ nobufs < NoBufMax)
    /\ \A c \in Slot : KeepsName(tcb[c], tcb'[c])

(* tcp_destroy gives blocks back, and renames none. *)
LEMMA DestroyedNames ==
    ASSUME NEW tab, \A c \in Slot : TcbFields \subseteq DOMAIN tab[c],
           NEW s \in Slot, NEW new, new = Destroyed(tab, s)
    PROVE  \A c \in Slot : KeepsName(tab[c], new[c])
<1> SUFFICES ASSUME NEW c \in Slot
             PROVE  KeepsName(tab[c], new[c])
  OBVIOUS
<1>1. CASE c \in Doomed(tab, s)
  <2>1. new[c] = Blank(c)
    BY <1>1 DEF Destroyed, Doomed
  <2> QED
    BY <2>1, BlankIs DEF KeepsName
<1>2. CASE c \notin Doomed(tab, s)
  <2>1. PICK q : q = SeqOps!RemoveFirst(tab[c].acceptq, s)
    OBVIOUS
  <2>2. PICK t : t = tab[c] /\ TcbFields \subseteq DOMAIN t
    OBVIOUS
  <2>3. new[c] = [t EXCEPT !.acceptq = q]
    BY <1>2, <2>1, <2>2 DEF Destroyed, Doomed
  <2> QED
    BY <2>2, <2>3 DEF KeepsName, TcbFields
<1> QED
  BY <1>1, <1>2

(* tcp_graduate renames none. *)
LEMMA GraduatedNames ==
    ASSUME NEW tab, DOMAIN tab = Slot, \A c \in Slot : TcbFields \subseteq DOMAIN tab[c],
           NEW s \in Slot, NEW new, new = Graduated(tab, s)
    PROVE  \A c \in Slot : new[c].iss = tab[c].iss
<1> SUFFICES ASSUME NEW c \in Slot
             PROVE  new[c].iss = tab[c].iss
  OBVIOUS
<1>1. PICK l : l = tab[s].listener
  OBVIOUS
<1>2. CASE new = [tab EXCEPT ![l].pacc = FALSE, ![s].listener = NoTcb]
  BY <1>2 DEF TcbFields
<1>3. CASE new = [tab EXCEPT ![l].acceptq = Append(@, s)]
  BY <1>3 DEF TcbFields
<1>4. CASE new = tab
  BY <1>4
<1> QED
  BY <1>1, <1>2, <1>3, <1>4 DEF Graduated

(* Nor does an event. *)
LEMMA AfterNames ==
    ASSUME NEW tab, NEW n \in Nat, TableOK(tab, n), NEW s \in Slot, NEW y, Outcome(tab[s], y, n),
           NEW new, new = After(tab, s, y)
    PROVE  \A c \in Slot : KeepsName(tab[c], new[c])
<1>1. y.gone \in BOOLEAN /\ y.grad \in BOOLEAN /\ y.t.iss = tab[s].iss /\ DataOK(y.t)
  BY DEF Outcome, Result, SamePlace
<1>2. DOMAIN tab = Slot /\ \A c \in Slot : TcbFields \subseteq DOMAIN tab[c]
  BY TableFields DEF TableOK
<1>3. CASE y.gone
  <2>1. new = Destroyed(tab, s)
    BY <1>3 DEF After
  <2> QED
    BY <1>2, <2>1, DestroyedNames
<1>4. CASE ~y.gone
  <2>1. PICK mid : mid = [tab EXCEPT ![s] = y.t]
    OBVIOUS
  <2>2. DOMAIN mid = Slot /\ \A c \in Slot : mid[c] = IF c = s THEN y.t ELSE tab[c]
    BY <1>2, <2>1
  <2>3. ASSUME NEW c \in Slot
        PROVE  mid[c].iss = tab[c].iss /\ TcbFields \subseteq DOMAIN mid[c]
    BY <1>1, <1>2, <2>2 DEF DataOK
  <2>4. CASE y.grad
    <3>1. new = Graduated(mid, s)
      BY <1>4, <2>1, <2>4 DEF After
    <3>2. \A c \in Slot : new[c].iss = mid[c].iss
      BY <2>2, <2>3, <3>1, GraduatedNames
    <3> QED
      BY <2>3, <3>2 DEF KeepsName
  <2>5. CASE ~y.grad
    <3>1. new = mid
      BY <1>4, <2>1, <2>5 DEF After
    <3> QED
      BY <2>3, <3>1 DEF KeepsName
  <2> QED
    BY <1>1, <2>4, <2>5
<1> QED
  BY <1>1, <1>3, <1>4

(* A new block in the place of one that may be used again. *)
LEMMA PlacedNames ==
    ASSUME NEW tab, NEW n, TableOK(tab, n), NEW s \in Slot,
           tab[s].state \in {"FREE", "CLOSED", "TIME_WAIT"},
           NEW u, NEW new, new = [Destroyed(tab, s) EXCEPT ![s] = u]
    PROVE  \A c \in Slot : KeepsName(tab[c], new[c])
<1> SUFFICES ASSUME NEW c \in Slot
             PROVE  KeepsName(tab[c], new[c])
  OBVIOUS
<1>1. CASE c = s
  BY <1>1 DEF KeepsName
<1>2. CASE c # s
  <2>1. PICK dst : dst = Destroyed(tab, s)
    OBVIOUS
  <2>2. new[c] = dst[c]
    BY <1>2, <2>1
  <2>3. KeepsName(tab[c], dst[c])
    BY <2>1, TableFields, DestroyedNames DEF TableOK
  <2> QED
    BY <2>2, <2>3
<1> QED
  BY <1>1, <1>2

(* The network carries what is well formed. *)
LEMMA CarryKeeps ==
    ASSUME NEW old, \A g \in old : SegOK(g), NEW out, \A g \in out : SegOK(g)
    PROVE  \A g \in Carry(old, out) : SegOK(g)
  BY DEF Carry

(* An event whose outcome is known. *)
LEMMA EventKeeps ==
    ASSUME Inv, NEW room \in BOOLEAN, Room(room), NEW s \in Slot, NEW y,
           Outcome(tcb[s], y, nobufs'), NEW rest \in SUBSET net,
           tcb' = After(tcb, s, y), net' = Carry(rest, y.out), UNCHANGED <<ephem, opens>>
    PROVE  Inv' /\ Orderly
<1>1. nobufs' \in Nat /\ TableOK(tcb, nobufs')
  BY RoomKeeps
<1>2. TableOK(tcb', nobufs')
  BY <1>1, AfterKeeps
<1>3. (\A g \in rest : SegOK(g)) /\ \A g \in y.out : SegOK(g)
  BY DEF Inv, Outcome, Result
<1>4. \A g \in net' : SegOK(g)
  BY <1>3, CarryKeeps
<1>5. Orderly
  <2>1. nobufs' = nobufs \/ (nobufs' = nobufs + 1 /\ nobufs < NoBufMax)
    BY DEF Room
  <2>2. \A c \in Slot : KeepsName(tcb[c], tcb'[c])
    BY <1>1, AfterNames
  <2> QED
    BY <2>1, <2>2 DEF Orderly
<1> QED
  BY <1>1, <1>2, <1>4, <1>5 DEF Inv

(* What leaves every block alone. *)
LEMMA StillOrderly ==
    ASSUME tcb' = tcb, nobufs' = nobufs
    PROVE  Orderly
  BY DEF Orderly, KeepsName

(* One that neither establishes nor ends the connection. *)
LEMMA PlainOutcome ==
    ASSUME NEW x, NEW n, Kept(x, n), NEW y, Kept(y, n), ~x.grad, SameControl(x, y),
           SamePlace(x.t, y.t),
           \/ y.t.state = x.t.state
           \/ x.t.state \in Opened \cup Ending /\ y.t.state \in Opened \cup Ending
    PROVE  Outcome(x.t, y, n)
  BY DEF Outcome, Kept, Moves, SameControl

(* A caller is past the handshake, and waits for its calls. *)
LEMMA MayCallQuiet ==
    ASSUME Inv, NEW s \in Slot, MayCall(s)
    PROVE  tcb[s].state # "SYN_RCVD" /\ (~Subtasks => tcb[s].psend = 0 /\ tcb[s].precv = 0)
  BY DEF MayCall, Inv, TableOK, AcceptInv

(* How an event of a call or a timer begins. *)
LEMMA BegunIs ==
    ASSUME NEW s \in Slot, NEW x \in Begun(s)
    PROVE  \E room \in BOOLEAN : x = Begin(tcb[s], room)
  BY DEF Begun

(* It begins with the invariant. *)
LEMMA BegunKept ==
    ASSUME Inv, NEW s \in Slot, NEW x \in Begun(s), Room(x.room)
    PROVE  /\ Kept(x, nobufs') /\ x.t = tcb[s] /\ x.room \in BOOLEAN /\ ~x.grad /\ ~x.gone
<1>1. PICK room \in BOOLEAN : x = Begin(tcb[s], room)
  BY BegunIs
<1>2. x.room = room
  BY <1>1 DEF Begin
<1>3. /\ Kept(x, nobufs') /\ (Quiet => FinOK(x.t, Before(x, nobufs')))
      /\ x.t = tcb[s] /\ x.room = room /\ ~x.grad /\ ~x.gone
  BY <1>1, <1>2, BeginKept
<1> QED
  BY <1>3

(* A call or a timer whose outcome is known. *)
LEMMA CallKeeps ==
    ASSUME Inv, NEW s \in Slot, NEW x \in Begun(s), NEW y, y.room = x.room, Event(s, y),
           Room(x.room) => Outcome(tcb[s], y, nobufs')
    PROVE  Inv' /\ Orderly
<1>1. Room(x.room) /\ tcb' = After(tcb, s, y) /\ net' = Carry(net, y.out)
  BY DEF Event
<1>2. x.room \in BOOLEAN
  BY <1>1, BegunKept
<1>3. UNCHANGED <<ephem, opens>>
  BY DEF Event
<1> QED
  BY <1>1, <1>2, <1>3, EventKeeps

(* Whether a buffer was found does not depend on the handler. *)
LEMMA BegunAnyway ==
    ASSUME Inv, NEW s \in Slot, NEW x \in Begun(s)
    PROVE  Kept(x, nobufs + 1) /\ x.t = tcb[s] /\ ~x.grad
<1>1. nobufs \in Nat /\ TcbInv(tcb[s], nobufs)
  BY DEF Inv, TableOK
<1>2. PICK n \in Nat : n = nobufs + 1 /\ n >= nobufs /\ n >= 1
  BY <1>1
<1>3. TcbInv(tcb[s], n)
  BY <1>1, <1>2, MoreMissed
<1>4. PICK room \in BOOLEAN : x = Begin(tcb[s], room)
  BY BegunIs
<1>5. PICK t : t = tcb[s]
  OBVIOUS
<1>6. DataOK(t)
  BY <1>1, <1>5 DEF TcbInv
<1>7. Result(x) /\ x.t = t /\ ~x.grad
  BY <1>4, <1>5, <1>6, BeginResult
<1>8. Missed(x, n)
  BY <1>2 DEF Missed
<1> QED
  BY <1>2, <1>3, <1>5, <1>7, <1>8 DEF Kept

(* SEND. *)
LEMMA SendDataKeeps ==
    ASSUME Inv, NEW s \in Slot, SendData(s)
    PROVE  Inv' /\ Orderly
<1>1. PICK n \in Int, parks \in BOOLEAN, x \in Begun(s) :
         n >= 1 /\ Event(s, SendCall(x, n, parks))
  BY DEF SendData
<1>2. n \in Nat
  BY <1>1
<1>3. PICK y : y = SendCall(x, n, parks)
  OBVIOUS
<1>4. tcb[s].state \in Opened
  BY DEF SendData, Opened
<1>5. y.room = x.room
  BY <1>2, <1>3, <1>4, BegunAnyway, SendCallKeeps DEF SameControl
<1>6. ASSUME Room(x.room)
      PROVE  Outcome(tcb[s], y, nobufs')
  <2>1. Kept(x, nobufs') /\ x.t = tcb[s] /\ ~x.grad
    BY <1>6, BegunKept
  <2>2. Kept(y, nobufs') /\ SameControl(x, y) /\ SamePlace(x.t, y.t) /\ y.t.state = x.t.state
    BY <1>2, <1>3, <1>4, <2>1, SendCallKeeps
  <2> QED
    BY <2>1, <2>2, PlainOutcome
<1> QED
  BY <1>1, <1>3, <1>5, <1>6, CallKeeps

(* RECV. *)
LEMMA RecvEventKeeps ==
    ASSUME Inv, NEW s \in Slot, Recv(s)
    PROVE  Inv' /\ Orderly
<1>1. PICK want \in {1, RcvWnd}, x \in Begun(s) : Event(s, RecvCall(x, want))
  BY DEF Recv
<1>2. want \in Nat
  BY HalfSpace
<1>3. PICK y : y = RecvCall(x, want)
  OBVIOUS
<1>4. y.room = x.room
  BY <1>2, <1>3, BegunAnyway, RecvCallKeeps DEF SameControl
<1>5. ASSUME Room(x.room)
      PROVE  Outcome(tcb[s], y, nobufs')
  <2>1. Kept(x, nobufs') /\ x.t = tcb[s] /\ ~x.grad
    BY <1>5, BegunKept
  <2>2. Kept(y, nobufs') /\ SameControl(x, y) /\ RecvOnly(x.t, y.t)
    BY <1>2, <1>3, <2>1, RecvCallKeeps
  <2>3. SamePlace(x.t, y.t) /\ y.t.state = x.t.state
    BY <2>2 DEF RecvOnly, SameState
  <2> QED
    BY <2>1, <2>2, <2>3, PlainOutcome
<1> QED
  BY <1>1, <1>3, <1>4, <1>5, CallKeeps

(* What the end of the application's side finds. *)
LEMMA EndsHere ==
    ASSUME Inv, NEW s \in Slot, MayCall(s), Early \/ AllSent(tcb[s])
    PROVE  Quiet => AllSent(tcb[s]) /\ tcb[s].psend = 0
  BY MayCallQuiet DEF Quiet

(* SHUTDOWN, of an application that has sent all it gave if it must. *)
LEMMA ShutdownCallKeeps ==
    ASSUME NEW x, NEW n, Kept(x, n), NEW how, how = "rd" \/ Early \/ AllSent(x.t),
           ~Subtasks => x.t.psend = 0 /\ x.t.precv = 0, NEW y, y = ShutdownCall(x, how)
    PROVE  /\ Kept(y, n) /\ SameControl(x, y) /\ SamePlace(x.t, y.t)
           /\ y.t.state = x.t.state \/ (x.t.state \in Opened /\ y.t.state \in Ending)
<1>1. PICK z : z = [x EXCEPT !.t.flags = @ \cup LocalEof(how)]
  OBVIOUS
<1>2. Idle(LocalEof(how))
  BY DEF Idle, Unended, LocalEof
<1>3. /\ Kept(z, n) /\ SameControl(x, z) /\ SamePlace(x.t, z.t) /\ z.t.state = x.t.state
      /\ SameSend(x.t, z.t)
  BY <1>1, <1>2, FlagsKeep
<1>4. CASE how # "rd" /\ x.t.state \in Opened
  <2>1. y = FinQueued(z, {})
    BY <1>1, <1>4 DEF ShutdownCall, Opened
  <2>2. Quiet => z.t.state \in Opened /\ AllSent(z.t) /\ z.t.psend = 0
    BY <1>3, <1>4 DEF Quiet, AllSent, SameSend
  <2>3. {} \in SUBSET {"APPCLOSED"}
    OBVIOUS
  <2>4. Kept(y, n) /\ SameControl(z, y) /\ SamePlace(z.t, y.t) /\ y.t.state \in Ending
    BY <1>3, <1>4, <2>1, <2>2, <2>3, FinQueuedKeeps
  <2> QED
    BY <1>3, <1>4, <2>4 DEF SameControl, SamePlace
<1>5. CASE ~(how # "rd" /\ x.t.state \in Opened)
  BY <1>1, <1>3, <1>5 DEF ShutdownCall, Opened
<1> QED
  BY <1>4, <1>5

(* SHUTDOWN. *)
LEMMA ShutdownKeeps ==
    ASSUME Inv, NEW s \in Slot, Shutdown(s)
    PROVE  Inv' /\ Orderly
<1>1. PICK how \in Shuts[HostOf[s]], x \in Begun(s) :
         (how = "rd" \/ Early \/ AllSent(tcb[s])) /\ Event(s, ShutdownCall(x, how))
  BY DEF Shutdown
<1>2. PICK y : y = ShutdownCall(x, how)
  OBVIOUS
<1>3. ~Subtasks => tcb[s].psend = 0 /\ tcb[s].precv = 0
  BY MayCallQuiet DEF Shutdown
<1>4. y.room = x.room
  BY <1>1, <1>2, <1>3, BegunAnyway, ShutdownCallKeeps DEF SameControl
<1>5. ASSUME Room(x.room)
      PROVE  Outcome(tcb[s], y, nobufs')
  <2>1. Kept(x, nobufs') /\ x.t = tcb[s] /\ ~x.grad
    BY <1>5, BegunKept
  <2>2. /\ Kept(y, nobufs') /\ SameControl(x, y) /\ SamePlace(x.t, y.t)
        /\ y.t.state = x.t.state \/ (x.t.state \in Opened /\ y.t.state \in Ending)
    BY <1>1, <1>2, <1>3, <2>1, ShutdownCallKeeps
  <2> QED
    BY <2>1, <2>2, PlainOutcome
<1> QED
  BY <1>1, <1>2, <1>4, <1>5, CallKeeps

(* CLOSE. *)
LEMMA CloseKeeps ==
    ASSUME Inv, NEW s \in Slot, Close(s)
    PROVE  Inv' /\ Orderly
<1>1. PICK x \in Begun(s) : Event(s, CloseCall(x))
  BY DEF Close
<1>2. PICK y : y = CloseCall(x)
  OBVIOUS
<1>3. tcb[s].state # "SYN_RCVD" /\ (Quiet => AllSent(tcb[s]) /\ tcb[s].psend = 0)
  BY EndsHere, MayCallQuiet DEF Close
<1>4. y.room = x.room
  BY <1>2, <1>3, BegunAnyway, CloseCallKeeps
<1>5. ASSUME Room(x.room)
      PROVE  Outcome(tcb[s], y, nobufs')
  BY <1>2, <1>3, <1>5, BegunKept, CloseCallKeeps
<1> QED
  BY <1>1, <1>2, <1>4, <1>5, CallKeeps

(* The retransmission timer expires. *)
LEMMA RexmitEventKeeps ==
    ASSUME Inv, NEW s \in Slot, Rexmit(s)
    PROVE  Inv' /\ Orderly
<1>1. PICK x \in Begun(s) : Event(s, RexmitExpire([x EXCEPT !.t.rexmit = FALSE]))
  BY DEF Rexmit
<1>2. PICK w : w = [x EXCEPT !.t.rexmit = FALSE]
  OBVIOUS
<1>3. PICK y : y = RexmitExpire(w)
  OBVIOUS
<1>4. tcb[s].rexmit
  BY DEF Rexmit
<1>5. y.room = x.room
  BY <1>2, <1>3, <1>4, BegunAnyway, RexmitKeeps
<1>6. ASSUME Room(x.room)
      PROVE  Outcome(tcb[s], y, nobufs')
  BY <1>2, <1>3, <1>4, <1>6, BegunKept, RexmitKeeps
<1> QED
  BY <1>1, <1>2, <1>3, <1>5, <1>6, CallKeeps

(* The persist timer expires. *)
LEMMA PersistEventKeeps ==
    ASSUME Inv, NEW s \in Slot, Persist(s)
    PROVE  Inv' /\ Orderly
<1>1. PICK x \in Begun(s) : Event(s, PersistExpire([x EXCEPT !.t.persist = FALSE]))
  BY DEF Persist
<1>2. PICK w : w = [x EXCEPT !.t.persist = FALSE]
  OBVIOUS
<1>3. PICK y : y = PersistExpire(w)
  OBVIOUS
<1>4. tcb[s].persist
  BY DEF Persist
<1>5. y.room = x.room
  BY <1>2, <1>3, <1>4, BegunAnyway, PersistKeeps
<1>6. ASSUME Room(x.room)
      PROVE  Outcome(tcb[s], y, nobufs')
  BY <1>2, <1>3, <1>4, <1>6, BegunKept, PersistKeeps
<1> QED
  BY <1>1, <1>2, <1>3, <1>5, <1>6, CallKeeps

(* TIME_WAIT ends. *)
LEMMA TimeWaitEndsKeeps ==
    ASSUME Inv, NEW s \in Slot, TimeWaitEnds(s)
    PROVE  Inv' /\ Orderly
<1>1. PICK x \in Begun(s) : Event(s, Gone(x))
  BY DEF TimeWaitEnds
<1>2. PICK y : y = Gone(x)
  OBVIOUS
<1>3. y.room = x.room
  BY <1>2, BegunAnyway, GoneKeeps
<1>4. ASSUME Room(x.room)
      PROVE  Outcome(tcb[s], y, nobufs')
  BY <1>2, <1>4, BegunKept, GoneKeeps
<1> QED
  BY <1>1, <1>2, <1>3, <1>4, CallKeeps

-----------------------------------------------------------------------------
(* The network. *)
LEMMA ToConnectionKeeps ==
    ASSUME Inv, NEW g \in net, NEW rest \in SUBSET net, NEW s \in Connection(g),
           ToConnection(s, g, rest)
    PROVE  Inv' /\ Orderly
<1>1. PICK room \in BOOLEAN :
         LET x == StateInput(Begin(tcb[s], room), g)
         IN /\ Room(room) /\ tcb' = After(tcb, s, x) /\ net' = Carry(rest, x.out)
            /\ UNCHANGED <<ephem, opens>>
  BY DEF ToConnection
<1>2. PICK x : x = Begin(tcb[s], room)
  OBVIOUS
<1>3. PICK y : y = StateInput(x, g)
  OBVIOUS
<1>4. /\ Room(room) /\ tcb' = After(tcb, s, y) /\ net' = Carry(rest, y.out)
      /\ UNCHANGED <<ephem, opens>>
  BY <1>1, <1>2, <1>3
<1>5. /\ s \in Slot /\ tcb[s].state \notin {"FREE", "LISTEN"} /\ tcb[s].lport = g.dport
      /\ SegOK(g)
  BY DEF Connection, Live, Inv
<1>6. /\ Kept(x, nobufs') /\ (Quiet => FinOK(x.t, Before(x, nobufs')))
      /\ x.t = tcb[s] /\ x.room = room /\ ~x.grad /\ ~x.gone
  BY <1>2, <1>4, <1>5, BeginKept
<1>7. Outcome(x.t, y, nobufs')
  BY <1>3, <1>5, <1>6, StateInputKeeps
<1> QED
  BY <1>4, <1>5, <1>6, <1>7, EventKeeps

(* A segment that belongs to nothing. *)
LEMMA AnswerKeeps ==
    ASSUME Inv, NEW g \in net, NEW rest \in SUBSET net, Answer(g, rest)
    PROVE  Inv' /\ Orderly
<1>1. SegOK(RstFor(g)) /\ \A z \in rest : SegOK(z)
  BY RstOK DEF Inv
<1>2. PICK r : r = RstFor(g)
  OBVIOUS
<1>3. \A z \in Carry(rest, {r}) : SegOK(z)
  BY <1>1, <1>2, CarryKeeps
<1>4. \A z \in net' : SegOK(z)
  BY <1>1, <1>2, <1>3 DEF Answer
<1>5. tcb' = tcb /\ nobufs' = nobufs /\ opens' = opens /\ ephem' = ephem
  BY DEF Answer
<1> QED
  BY <1>4, <1>5, StillOrderly DEF Inv

(* A segment that is dropped. *)
LEMMA DropKeeps ==
    ASSUME Inv, NEW rest \in SUBSET net, net' = rest, UNCHANGED <<tcb, ephem, opens, nobufs>>
    PROVE  Inv' /\ Orderly
  BY StillOrderly DEF Inv

(* Where a new block goes. *)
LEMMA AvailableIs ==
    ASSUME NEW h, NEW s \in Available(h)
    PROVE  s \in Slot /\ HostOf[s] = h /\ tcb[s].state \in {"FREE", "TIME_WAIT"}
<1>1. CASE Spare(h) # {}
  <2>1. s = CHOOSE c \in Spare(h) : TRUE
    BY <1>1 DEF Available
  <2>2. s \in Spare(h)
    BY <1>1, <2>1
  <2> QED
    BY <2>2 DEF Spare, Live
<1>2. CASE ~(Spare(h) # {})
  BY <1>2 DEF Available, Reclaimable
<1> QED
  BY <1>1, <1>2

(* A listener is not taken away with a connection. *)
LEMMA ListenerStays ==
    ASSUME NEW tab, NEW n, TableOK(tab, n), NEW l \in Slot, tab[l].state = "LISTEN",
           NEW s \in Slot, tab[s].state # "LISTEN", NEW new, new = Destroyed(tab, s)
    PROVE  new[l].state = "LISTEN" /\ new[l].backlog = tab[l].backlog
<1>1. tab[l].listener = NoTcb /\ NoTcb \notin Slot
  BY PortsAssumption DEF TableOK, AcceptInv, Past, Opened, Ending
<1>2. l \notin Doomed(tab, s)
  BY <1>1 DEF Doomed, Children
<1>3. new[l] = [tab[l] EXCEPT !.acceptq = SeqOps!RemoveFirst(tab[l].acceptq, s)]
  BY <1>2 DEF Destroyed, Doomed
<1> QED
  BY <1>3, TableFields, OthersLose

(* A new block in place of a block that ends. *)
LEMMA TablePlaced ==
    ASSUME NEW tab, NEW n \in Nat, TableOK(tab, n), NEW s \in Slot,
           NEW u, TcbInv(u, n), u.acceptq = <<>>, ~u.pacc, u.backlog \in Nat,
           \/ u.listener = NoTcb /\ u.state # "SYN_RCVD"
           \/ /\ u.listener \in Slot /\ u.state = "SYN_RCVD"
              /\ tab[u.listener].state = "LISTEN" /\ tab[s].state # "LISTEN"
              /\ Cardinality(Children(tab, u.listener)) < tab[u.listener].backlog,
           NEW new, new = [Destroyed(tab, s) EXCEPT ![s] = u]
    PROVE  TableOK(new, n)
<1>1. PICK dst : dst = Destroyed(tab, s)
  OBVIOUS
<1>2. TableOK(dst, n)
  BY <1>1, TableDestroyed
<1>3. /\ AcceptInv(dst) /\ dst[s] = Blank(s)
      /\ \A l \in Slot : Children(dst, l) \subseteq Children(tab, l)
  <2>1. AcceptInv(tab) /\ \A c \in Slot : TcbFields \subseteq DOMAIN tab[c]
    BY TableFields DEF TableOK
  <2> QED
    BY <1>1, <2>1, DestroyedKeeps
<1>4. new = [dst EXCEPT ![s] = u]
  BY <1>1
<1>5. new[s] = u /\ \A c \in Slot \ {s} : new[c] = dst[c]
  BY <1>2, <1>4 DEF TableOK
<1>6. ASSUME u.listener \in Slot, tab[u.listener].state = "LISTEN", tab[s].state # "LISTEN",
             Cardinality(Children(tab, u.listener)) < tab[u.listener].backlog
      PROVE  /\ dst[u.listener].state = "LISTEN"
             /\ Cardinality(Children(dst, u.listener)) < dst[u.listener].backlog
  <2>1. PICK l \in Slot : l = u.listener
    BY <1>6
  <2>2. dst[l].state = "LISTEN" /\ dst[l].backlog = tab[l].backlog
    BY <1>1, <1>6, <2>1, ListenerStays
  <2>3. PICK A : A = Children(tab, l)
    OBVIOUS
  <2>4. PICK B : B = Children(dst, l)
    OBVIOUS
  <2>5. PICK b \in Nat : b = tab[l].backlog
    BY DEF TableOK, AcceptInv
  <2>6. B \in SUBSET A /\ IsFiniteSet(A) /\ Cardinality(A) \in Nat /\ Cardinality(B) \in Nat
    BY <1>3, <2>3, <2>4, ChildrenFinite
  <2>7. Cardinality(B) <= Cardinality(A)
    BY <2>6, FS_Subset
  <2>8. Cardinality(A) < b
    BY <1>6, <2>1, <2>3, <2>5
  <2>9. Cardinality(B) < b
    BY <2>5, <2>6, <2>7, <2>8
  <2> QED
    BY <2>1, <2>2, <2>4, <2>5, <2>9
<1>7. \/ new[s].listener = NoTcb /\ new[s].state # "SYN_RCVD"
      \/ /\ new[s].listener \in Slot /\ new[s].state = "SYN_RCVD"
         /\ dst[new[s].listener].state = "LISTEN"
         /\ Cardinality(Children(dst, new[s].listener)) < dst[new[s].listener].backlog
  BY <1>5, <1>6
<1>8. AcceptInv(new)
  <2>1. new[s].acceptq = <<>> /\ ~new[s].pacc /\ new[s].backlog \in Nat
    BY <1>5
  <2>2. TakesPlace(dst, new, s)
    BY <1>5, <1>7, <2>1 DEF TakesPlace
  <2> QED
    BY <1>3, <2>2, Placed
<1>9. DOMAIN new = Slot
  BY <1>2, <1>4 DEF TableOK
<1>10. ASSUME NEW c \in Slot
       PROVE  TcbInv(new[c], n)
  BY <1>2, <1>5 DEF TableOK
<1> QED
  BY <1>8, <1>9, <1>10 DEF TableOK

(* tcp_passive_open. *)
LEMMA PassiveOpenKeeps ==
    ASSUME Inv, NEW g \in net, NEW rest \in SUBSET net, NEW l \in Slot, tcb[l].state = "LISTEN",
           RoomFor(l), opens < Len(Iss), PassiveOpen(l, g, rest)
    PROVE  Inv' /\ Orderly
<1>1. PICK iss : iss = Iss[opens + 1]
  OBVIOUS
<1>2. iss \in Seq32 /\ opens \in Nat /\ opens + 1 \in Nat
  BY <1>1, PortsAssumption DEF Inv
<1>3. PICK s \in Available(HostOf[l]), room \in BOOLEAN :
        LET t == [Fresh(HostOf[l], "SYN_RCVD") EXCEPT
                    !.faddr = g.from, !.lport = g.dport, !.fport = g.sport, !.listener = l,
                    !.iss = iss, !.una = iss, !.nxt = Plus(iss, 1), !.irs = g.seq,
                    !.rnxt = Plus(g.seq, 1), !.wnd = g.wnd, !.wl1 = g.seq, !.wl2 = iss]
        IN /\ Room(room)
           /\ tcb' = [Destroyed(tcb, s) EXCEPT ![s] = IF room THEN Timers(t) ELSE Blank(s)]
           /\ net' = Carry(rest, Emit(Begin(t, room), {"SYN", "ACK"}).out)
           /\ opens' = opens + 1 /\ UNCHANGED ephem
  BY <1>1 DEF PassiveOpen
<1>4. PICK t : t = NewChild(HostOf[l], l, g, iss)
  OBVIOUS
<1>5. PICK w : w = Timers(t)
  OBVIOUS
<1>6. PICK out : out = Emit(Begin(t, room), {"SYN", "ACK"}).out
  OBVIOUS
<1>7. /\ Room(room)
      /\ tcb' = [Destroyed(tcb, s) EXCEPT ![s] = IF room THEN w ELSE Blank(s)]
      /\ net' = Carry(rest, out)
      /\ opens' = opens + 1 /\ ephem' = ephem
  BY <1>3, <1>4, <1>5, <1>6 DEF ChildOf, NewChild
<1>8. s \in Slot /\ tcb[s].state # "LISTEN" /\ tcb[s].state \in {"FREE", "CLOSED", "TIME_WAIT"}
  BY AvailableIs
<1>9. nobufs' \in Nat /\ TableOK(tcb, nobufs')
  BY <1>7, RoomKeeps
<1>10. SegOK(g) /\ \A z \in rest : SegOK(z)
  BY DEF Inv
<1>11. /\ TcbInv(w, nobufs') /\ w.listener = l /\ w.acceptq = <<>> /\ ~w.pacc /\ w.backlog = 0
       /\ w.state = "SYN_RCVD"
       /\ \A z \in out : SegOK(z)
  <2>1. PICK n \in Nat : n = nobufs'
    BY <1>9
  <2>2. iss \in Seq32 /\ SegOK(g) /\ n \in Nat /\ room \in BOOLEAN
    BY <1>2, <1>3, <1>10, <2>1
  <2>3. /\ TcbInv(w, n) /\ w.listener = l /\ w.acceptq = <<>> /\ ~w.pacc /\ w.backlog = 0
        /\ w.state = "SYN_RCVD" /\ DataOK(t)
    BY <1>4, <1>5, <2>2, ChildKept
  <2>4. \A z \in out : SegOK(z)
    BY <1>6, <2>2, <2>3, ChildSends
  <2> QED
    BY <2>1, <2>3, <2>4
<1>12. TableOK(tcb', nobufs')
  <2>1. CASE room
    <3>1. tcb' = [Destroyed(tcb, s) EXCEPT ![s] = w]
      BY <1>7, <2>1
    <3>2. w.backlog \in Nat /\ Cardinality(Children(tcb, w.listener)) < tcb[w.listener].backlog
      BY <1>11 DEF RoomFor
    <3> QED
      BY <1>8, <1>9, <1>11, <3>1, <3>2, TablePlaced
  <2>2. CASE ~room
    <3>1. PICK b : b = Blank(s)
      OBVIOUS
    <3>2. /\ TcbInv(b, nobufs') /\ b.acceptq = <<>> /\ ~b.pacc /\ b.backlog \in Nat
          /\ b.listener = NoTcb /\ b.state # "SYN_RCVD"
      BY <1>9, <3>1, BlankKept, BlankIs
    <3>3. tcb' = [Destroyed(tcb, s) EXCEPT ![s] = b]
      BY <1>7, <2>2, <3>1
    <3> QED
      BY <1>8, <1>9, <3>2, <3>3, TablePlaced
  <2> QED
    BY <2>1, <2>2
<1>13. \A z \in net' : SegOK(z)
  BY <1>7, <1>10, <1>11, CarryKeeps
<1>14. Orderly
  <2>1. nobufs' = nobufs \/ (nobufs' = nobufs + 1 /\ nobufs < NoBufMax)
    BY <1>7 DEF Room
  <2>2. \A c \in Slot : KeepsName(tcb[c], tcb'[c])
    BY <1>7, <1>8, <1>9, PlacedNames
  <2> QED
    BY <2>1, <2>2 DEF Orderly
<1> QED
  BY <1>2, <1>7, <1>9, <1>12, <1>13, <1>14 DEF Inv

(* A segment arrives. *)
LEMMA ArriveKeeps ==
    ASSUME Inv, NEW g \in net, Arrive(g)
    PROVE  Inv' /\ Orderly
<1>1. PICK rest \in SUBSET net :
        IF Connection(g) # {} THEN \E s \in Connection(g) : ToConnection(s, g, rest)
        ELSE IF ListenerOf(g) # {} THEN \E l \in ListenerOf(g) : ToListener(l, g, rest)
             ELSE Answer(g, rest)
  BY DEF Arrive
<1>2. CASE \E s \in Connection(g) : ToConnection(s, g, rest)
  BY <1>2, ToConnectionKeeps
<1>3. CASE \E l \in ListenerOf(g) : ToListener(l, g, rest)
  <2>1. PICK l \in ListenerOf(g) : ToListener(l, g, rest)
    BY <1>3
  <2>2. l \in Slot /\ tcb[l].state = "LISTEN"
    BY DEF ListenerOf
  <2>3. \/ Answer(g, rest)
        \/ RoomFor(l) /\ opens < Len(Iss) /\ PassiveOpen(l, g, rest)
        \/ net' = rest /\ UNCHANGED <<tcb, ephem, opens, nobufs>>
    BY <2>1 DEF ToListener
  <2> QED
    BY <2>2, <2>3, AnswerKeeps, PassiveOpenKeeps, DropKeeps
<1>4. CASE Answer(g, rest)
  BY <1>4, AnswerKeeps
<1> QED
  BY <1>1, <1>2, <1>3, <1>4

(* A segment is lost. *)
LEMMA LoseKeeps ==
    ASSUME Inv, NEW g \in net, Lose(g)
    PROVE  Inv' /\ Orderly
<1>1. net \ {g} \in SUBSET net
  OBVIOUS
<1> QED
  BY <1>1, DropKeeps DEF Lose

-----------------------------------------------------------------------------
(* The calls that take or give control blocks. *)
LEMMA ListenKeeps ==
    ASSUME Inv, NEW h \in Hosts, Listen(h)
    PROVE  Inv' /\ Orderly
<1>1. PICK s \in Available(h), b \in Backlogs :
        tcb' = [Destroyed(tcb, s) EXCEPT ![s] = NewListener(h, b)]
  BY DEF Listen, NewListener
<1>2. net' = net /\ ephem' = ephem /\ opens' = opens /\ nobufs' = nobufs
  BY DEF Listen
<1>3. s \in Slot /\ b \in Nat
  <2>1. s \in Available(h) /\ b \in Backlogs
    BY <1>1
  <2> QED
    BY <2>1, AvailableIs, PortsAssumption
<1>4. PICK u : u = NewListener(h, b)
  OBVIOUS
<1>5. nobufs \in Nat /\ TableOK(tcb, nobufs)
  BY DEF Inv
<1>6. /\ TcbInv(u, nobufs) /\ u.listener = NoTcb /\ u.acceptq = <<>> /\ ~u.pacc
      /\ u.state = "LISTEN" /\ u.backlog = b
  BY <1>4, <1>5, ListenerKept
<1>7. tcb' = [Destroyed(tcb, s) EXCEPT ![s] = u]
  BY <1>1, <1>4
<1>8. TableOK(tcb', nobufs)
  BY <1>3, <1>5, <1>6, <1>7, TablePlaced
<1>9. Orderly
  <2>1. tcb[s].state \in {"FREE", "CLOSED", "TIME_WAIT"}
    BY <1>1, AvailableIs
  <2>2. \A c \in Slot : KeepsName(tcb[c], tcb'[c])
    BY <1>3, <1>5, <1>7, <2>1, PlacedNames
  <2> QED
    BY <1>2, <2>2 DEF Orderly
<1> QED
  BY <1>2, <1>8, <1>9 DEF Inv

(* CONNECT's step, in the words above. *)
Connects(h, s, p, parks, room) ==
    LET bound == tcb[s].state = "CLOSED"
        t == NewCaller(h, Other(h), IF bound THEN tcb[s].lport ELSE p,
                       IF bound THEN tcb[s].flags ELSE {}, Iss[opens + 1])
    IN /\ Room(room)
       /\ ephem' = IF bound THEN ephem ELSE [ephem EXCEPT ![h] = NextPort(p)]
       /\ tcb' = [Destroyed(tcb, s) EXCEPT ![s] = Called(t, parks, room)]
       /\ net' = Carry(net, SynSent(t, room))

LEMMA ConnectIs ==
    ASSUME NEW h, Connect(h)
    PROVE  \E s \in Available(h) \cup {s \in Slot : HostOf[s] = h /\ tcb[s].state = "CLOSED"},
              p \in FreePorts(h), parks \in BOOLEAN, room \in BOOLEAN :
                 Connects(h, s, p, parks, room)
<1>1. PICK s \in Available(h) \cup {s \in Slot : HostOf[s] = h /\ tcb[s].state = "CLOSED"},
         p \in FreePorts(h), parks \in BOOLEAN, room \in BOOLEAN :
        LET iss == Iss[opens + 1]
            bound == tcb[s].state = "CLOSED"
            t == [Fresh(h, "SYN_SENT") EXCEPT
                    !.faddr = Other(h), !.lport = IF bound THEN tcb[s].lport ELSE p,
                    !.flags = IF bound THEN tcb[s].flags ELSE {},
                    !.fport = Service, !.iss = iss, !.una = iss, !.nxt = Plus(iss, 1)]
        IN /\ Room(room)
           /\ ephem' = IF bound THEN ephem ELSE [ephem EXCEPT ![h] = NextPort(p)]
           /\ tcb' = [Destroyed(tcb, s) EXCEPT ![s] =
                        IF room THEN Timers([t EXCEPT !.pconn = parks])
                        ELSE [t EXCEPT !.state = "CLOSED"]]
           /\ net' = Carry(net, Emit(Begin(t, room), {"SYN"}).out)
  BY Zenon DEF Connect
<1>2. Connects(h, s, p, parks, room)
  BY <1>1, Zenon DEF Connects, NewCaller, CallerOf, Called, SynSent
<1> QED
  BY <1>1, <1>2

(* CONNECT. *)
LEMMA ConnectKeeps ==
    ASSUME Inv, NEW h \in Hosts, Connect(h)
    PROVE  Inv' /\ Orderly
<1>1. PICK iss : iss = Iss[opens + 1]
  OBVIOUS
<1>2. iss \in Seq32 /\ opens \in Nat /\ opens' = opens + 1 /\ opens + 1 \in Nat
  <2>1. opens \in Nat /\ opens < Len(Iss) /\ opens' = opens + 1
    BY DEF Inv, Connect
  <2> QED
    BY <1>1, <2>1, PortsAssumption
<1>3. PICK s \in Available(h) \cup {s \in Slot : HostOf[s] = h /\ tcb[s].state = "CLOSED"},
         p \in FreePorts(h), parks \in BOOLEAN, room \in BOOLEAN : Connects(h, s, p, parks, room)
  BY ConnectIs
<1>4. s \in Slot /\ p \in FreePorts(h) /\ parks \in BOOLEAN /\ room \in BOOLEAN
  BY <1>3, AvailableIs
<1>5. PICK k, fl : /\ k = IF tcb[s].state = "CLOSED" THEN tcb[s].lport ELSE p
                   /\ fl = IF tcb[s].state = "CLOSED" THEN tcb[s].flags ELSE {}
  OBVIOUS
<1>6. PICK t : t = NewCaller(h, Other(h), k, fl, iss)
  OBVIOUS
<1>7. PICK u : u = Called(t, parks, room)
  OBVIOUS
<1>8. /\ Room(room)
      /\ ephem' = IF tcb[s].state = "CLOSED" THEN ephem ELSE [ephem EXCEPT ![h] = NextPort(p)]
      /\ tcb' = [Destroyed(tcb, s) EXCEPT ![s] = u]
      /\ net' = Carry(net, SynSent(t, room))
  BY <1>1, <1>3, <1>5, <1>6, <1>7 DEF Connects
<1>9. PICK n \in Nat : n = nobufs' /\ TableOK(tcb, n)
  BY <1>4, <1>8, RoomKeeps
<1>10. /\ p \in EphemLo .. EphemHi /\ p # Service
       /\ NextPort(p) \in EphemLo .. EphemHi
  BY <1>4, PortsAssumption DEF FreePorts, NextPort
<1>11. k # Service /\ (Quiet => Unended(fl))
  <2>1. CallOK(tcb[s]) /\ (Quiet => SendOK(tcb[s]))
    BY <1>4, <1>9 DEF TableOK, TcbInv, Quiet
  <2>2. k # Service
    BY <1>5, <1>10, <2>1 DEF CallOK
  <2>3. Quiet => Unended(fl)
    BY <1>5, <2>1 DEF SendOK, Ending, Unended
  <2> QED
    BY <2>2, <2>3
<1>12. iss \in Seq32 /\ n \in Nat /\ parks \in BOOLEAN /\ room \in BOOLEAN
  BY <1>2, <1>4, <1>9
<1>13. /\ TcbInv(u, n) /\ u.listener = NoTcb /\ u.acceptq = <<>> /\ ~u.pacc /\ u.backlog = 0
       /\ u.state \in {"SYN_SENT", "CLOSED"}
       /\ Valid(SynSent(t, room))
  BY <1>6, <1>7, <1>11, <1>12, CallerKept
<1>14. TableOK(tcb', n)
  <2>1. u.state # "SYN_RCVD" /\ u.backlog \in Nat
    BY <1>13
  <2> QED
    BY <1>4, <1>8, <1>9, <1>13, <2>1, TablePlaced
<1>15. \A g \in net' : SegOK(g)
  <2>1. PICK out : out = SynSent(t, room)
    OBVIOUS
  <2>2. (\A g \in net : SegOK(g)) /\ \A g \in out : SegOK(g)
    BY <1>13, <2>1 DEF Inv, Valid
  <2> QED
    BY <1>8, <2>1, <2>2, CarryKeeps
<1>16. ephem' \in [Hosts -> EphemLo .. EphemHi]
  BY <1>8, <1>10 DEF Inv
<1>17. Orderly
  <2>1. tcb[s].state \in {"FREE", "CLOSED", "TIME_WAIT"}
    BY <1>3, AvailableIs
  <2>2. \A c \in Slot : KeepsName(tcb[c], tcb'[c])
    BY <1>4, <1>8, <1>9, <2>1, PlacedNames
  <2>3. nobufs' = nobufs \/ (nobufs' = nobufs + 1 /\ nobufs < NoBufMax)
    BY <1>8 DEF Room
  <2> QED
    BY <2>2, <2>3 DEF Orderly
<1> QED
  BY <1>2, <1>9, <1>14, <1>15, <1>16, <1>17 DEF Inv

(* An ACCEPT that begins to wait. *)
LEMMA PaccSet ==
    ASSUME NEW t, TcbFields \subseteq DOMAIN t, NEW u, u = [t EXCEPT !.pacc = TRUE]
    PROVE  /\ u.acceptq = t.acceptq /\ u.listener = t.listener /\ u.state = t.state
           /\ u.backlog = t.backlog
  BY DEF TcbFields

(* An ACCEPT that waits changes nothing but that it waits. *)
Waits(tab, new, s) ==
    /\ tab[s].acceptq = <<>>
    /\ \A c \in Slot :
         /\ new[c].acceptq = tab[c].acceptq /\ new[c].listener = tab[c].listener
         /\ new[c].state = tab[c].state /\ new[c].backlog = tab[c].backlog
         /\ new[c].pacc => c = s \/ tab[c].pacc

(* The queues stay true. *)
LEMMA TableWaits ==
    ASSUME NEW tab, AcceptInv(tab), NEW s \in Slot, NEW new, Waits(tab, new, s)
    PROVE  AcceptInv(new)
<1> USE DEF Waits
<1>1. \A c \in Slot : new[c].state = "SYN_RCVD" => new[c].listener # NoTcb
  BY DEF AcceptInv
<1>2. ASSUME NEW c \in Slot, new[c].listener # NoTcb
      PROVE  /\ new[c].listener \in Slot /\ new[new[c].listener].state = "LISTEN"
             /\ new[c].state = "SYN_RCVD" \/ Past(new, c)
  BY <1>2 DEF AcceptInv, Past
<1>3. ASSUME NEW l \in Slot
      PROVE  QueueOf(new, l)
  <2>1. QueueOf(tab, l)
    BY DEF AcceptInv
  <2> QED
    BY <2>1 DEF QueueOf, Past
<1>4. ASSUME NEW l \in Slot
      PROVE  WithinBacklog(new, l)
  <2>1. Children(new, l) \subseteq Children(tab, l)
    BY DEF Children
  <2> QED
    BY <2>1, BacklogKept
<1>5. \A l \in Slot : new[l].pacc => new[l].acceptq = <<>>
  BY DEF AcceptInv
<1> QED
  BY <1>1, <1>2, <1>3, <1>4, <1>5 DEF AcceptInv, WithinBacklog

(* ACCEPT. *)
LEMMA AcceptKeeps ==
    ASSUME Inv, NEW s \in Slot, Accept(s)
    PROVE  Inv' /\ Orderly
<1>1. PICK q : q = tcb[s].acceptq
  OBVIOUS
<1>2. /\ tcb[s].state = "LISTEN"
      /\ tcb' = IF q = <<>> THEN [tcb EXCEPT ![s].pacc = TRUE]
                ELSE [tcb EXCEPT ![s].acceptq = Tail(q), ![Head(q)].listener = NoTcb]
      /\ net' = net /\ ephem' = ephem /\ opens' = opens /\ nobufs' = nobufs
  BY <1>1 DEF Accept
<1>3. nobufs \in Nat /\ TableOK(tcb, nobufs) /\ AcceptInv(tcb) /\ DOMAIN tcb = Slot
  BY DEF Inv, TableOK
<1>4. \A c \in Slot : TcbFields \subseteq DOMAIN tcb[c] /\ TcbInv(tcb[c], nobufs)
  BY <1>3, TableFields DEF TableOK
<1>5. CASE q = <<>>
  <2>1. PICK u : u = [tcb[s] EXCEPT !.pacc = TRUE]
    OBVIOUS
  <2>2. tcb' = [tcb EXCEPT ![s] = u]
    BY <1>2, <1>5, <2>1
  <2>3. /\ u.acceptq = tcb[s].acceptq /\ u.listener = tcb[s].listener /\ u.state = tcb[s].state
        /\ u.backlog = tcb[s].backlog
    BY <1>4, <2>1, PaccSet
  <2>4. tcb'[s] = u /\ \A c \in Slot : c # s => tcb'[c] = tcb[c]
    BY <1>3, <2>2
  <2>5. ASSUME NEW c \in Slot
        PROVE  /\ tcb'[c].acceptq = tcb[c].acceptq /\ tcb'[c].listener = tcb[c].listener
               /\ tcb'[c].state = tcb[c].state /\ tcb'[c].backlog = tcb[c].backlog
               /\ tcb'[c].pacc => c = s \/ tcb[c].pacc
    BY <2>3, <2>4
  <2>6. AcceptInv(tcb')
    <3>1. Waits(tcb, tcb', s)
      BY <1>1, <1>5, <2>5 DEF Waits
    <3> QED
      BY <1>3, <3>1, TableWaits
  <2>7. TcbInv(u, nobufs)
    BY <1>3, <1>4, <2>1, PlaceMoves
  <2>8. TableOK(tcb', nobufs)
    BY <1>3, <2>2, <2>6, <2>7, TablePut
  <2>9. \A c \in Slot : KeepsName(tcb[c], tcb'[c])
    BY <1>4, <2>1, <2>4 DEF KeepsName, TcbFields
  <2> QED
    BY <1>2, <2>8, <2>9 DEF Inv, Orderly
<1>6. CASE q # <<>>
  <2>1. PICK h : h = Head(q)
    OBVIOUS
  <2>2. PICK r : r = Tail(q)
    OBVIOUS
  <2>3. /\ q \in Seq(Slot) /\ Distinct(q)
        /\ \A c \in Slot : Holds(q, c) <=> tcb[c].listener = s /\ Past(tcb, c)
    BY <1>1, <1>3 DEF AcceptInv, QueueOf
  <2>4. /\ r \in Seq(Slot) /\ Distinct(r) /\ h \in Slot /\ Holds(q, h)
        /\ \A c \in Slot : Holds(r, c) <=> Holds(q, c) /\ c # h
    BY <1>6, <2>1, <2>2, <2>3, TailQueue
  <2>5. tcb[h].listener = s /\ Past(tcb, h)
    BY <2>3, <2>4
  <2>6. h # s
    BY <1>2, <2>5 DEF Past, Opened, Ending
  <2>7. PICK v : v = [tcb[s] EXCEPT !.acceptq = r]
    OBVIOUS
  <2>8. PICK w : w = [tcb[h] EXCEPT !.listener = NoTcb]
    OBVIOUS
  <2>9. tcb' = [tcb EXCEPT ![s].acceptq = r, ![h].listener = NoTcb]
    BY <1>2, <1>6, <2>1, <2>2
  <2>10. /\ DOMAIN tcb' = Slot /\ tcb'[s] = v /\ tcb'[h] = w
         /\ \A c \in Slot : c # s /\ c # h => tcb'[c] = tcb[c]
    BY <1>3, <2>4, <2>6, <2>7, <2>8, <2>9
  <2>11. /\ v.acceptq = r /\ v.listener = tcb[s].listener /\ v.state = tcb[s].state
         /\ v.backlog = tcb[s].backlog /\ v.pacc = tcb[s].pacc
    BY <1>4, <2>7, OthersLose
  <2>12. /\ w.acceptq = tcb[h].acceptq /\ w.listener = NoTcb /\ w.state = tcb[h].state
         /\ w.backlog = tcb[h].backlog /\ w.pacc = tcb[h].pacc
    BY <1>4, <2>4, <2>8, ListenerIs
  <2>13. GivesAway(tcb, tcb', s, h)
    <3>1. ASSUME NEW c \in Slot
          PROVE  /\ tcb'[c].state = tcb[c].state \/ c = h
                 /\ tcb'[c].listener = IF c = h THEN NoTcb ELSE tcb[c].listener
                 /\ tcb'[c].backlog = tcb[c].backlog
      BY <2>6, <2>10, <2>11, <2>12
    <3>2. ASSUME NEW c \in Slot \ {s}
          PROVE  tcb'[c].acceptq = tcb[c].acceptq /\ tcb'[c].pacc = tcb[c].pacc
      BY <2>10, <2>12
    <3>3. Past(tcb', h)
      BY <2>5, <2>10, <2>12 DEF Past
    <3>4. ~tcb[s].pacc
      BY <1>1, <1>3, <1>6 DEF AcceptInv
    <3>5. tcb'[s].acceptq = r /\ ~tcb'[s].pacc
      BY <2>10, <2>11, <3>4
    <3>6. \A c \in Slot : Holds(tcb'[s].acceptq, c) <=> Holds(tcb[s].acceptq, c) /\ c # h
      BY <1>1, <2>4, <3>5
    <3>7. tcb'[s].acceptq \in Seq(Slot) /\ Distinct(tcb'[s].acceptq)
      BY <2>4, <3>5
    <3> QED
      BY <2>5, <3>1, <3>2, <3>3, <3>5, <3>6, <3>7 DEF GivesAway
  <2>14. AcceptInv(tcb')
    BY <1>3, <2>4, <2>13, GivenAway
  <2>15. ASSUME NEW c \in Slot
         PROVE  TcbInv(tcb'[c], nobufs)
    <3>1. TcbInv(v, nobufs)
      <4>1. PICK t : t = tcb[s] /\ TcbInv(t, nobufs)
        BY <1>4
      <4> QED
        BY <1>3, <2>7, <4>1, PlaceMoves
    <3>2. TcbInv(w, nobufs)
      <4>1. PICK t : t = tcb[h] /\ TcbInv(t, nobufs)
        BY <1>4, <2>4
      <4> QED
        BY <1>3, <2>8, <4>1, PlaceMoves
    <3> QED
      BY <1>4, <2>10, <3>1, <3>2
  <2>16. TableOK(tcb', nobufs)
    BY <2>10, <2>14, <2>15 DEF TableOK
  <2>17. ASSUME NEW c \in Slot
         PROVE  KeepsName(tcb[c], tcb'[c])
    <3>1. v.iss = tcb[s].iss /\ w.iss = tcb[h].iss
      BY <1>4, <2>4, <2>7, <2>8 DEF TcbFields
    <3> QED
      BY <2>10, <3>1 DEF KeepsName
  <2> QED
    BY <1>2, <2>16, <2>17 DEF Inv, Orderly
<1> QED
  BY <1>5, <1>6

-----------------------------------------------------------------------------
(* The invariant holds at the start. *)
LEMMA InitKeeps ==
    Init => Inv
<1> SUFFICES ASSUME Init
             PROVE  Inv
  OBVIOUS
<1>1. nobufs = 0 /\ opens = 0 /\ net = {} /\ ephem = [h \in Hosts |-> EphemLo]
  BY DEF Init
<1>2. DOMAIN tcb = Slot /\ \A s \in Slot : tcb[s] = Blank(s)
  BY DEF Init
<1>3. \A s \in Slot : TcbInv(tcb[s], 0)
  BY <1>2, BlankKept
<1>4. ASSUME NEW s \in Slot
      PROVE  /\ tcb[s].listener = NoTcb /\ tcb[s].state = "FREE" /\ tcb[s].acceptq = <<>>
             /\ tcb[s].backlog = 0 /\ ~tcb[s].pacc
  BY <1>2, BlankIs
<1>5. AcceptInv(tcb)
  <2>1. \A l \in Slot : Children(tcb, l) = {}
    BY <1>4, PortsAssumption DEF Children
  <2>2. ASSUME NEW l \in Slot
        PROVE  QueueOf(tcb, l)
    <3>1. <<>> \in Seq(Slot) /\ Distinct(<<>>)
      BY DEF Distinct
    <3>2. tcb[l].acceptq = <<>> /\ \A c \in Slot : tcb[c].listener # l
      BY <1>4, PortsAssumption
    <3> QED
      BY <3>1, <3>2, EmptyQueue DEF QueueOf
  <2> QED
    BY <1>4, <2>1, <2>2 DEF AcceptInv
<1>6. [h \in Hosts |-> EphemLo] \in [Hosts -> EphemLo .. EphemHi]
  BY PortsAssumption
<1> QED
  BY <1>1, <1>2, <1>3, <1>5, <1>6 DEF Inv, TableOK

(* Every step keeps it, and is orderly. *)
LEMMA NextKeeps ==
    Inv /\ [Next]_vars => Inv' /\ Orderly
<1> SUFFICES ASSUME Inv, [Next]_vars
             PROVE  Inv' /\ Orderly
  OBVIOUS
<1>1. CASE \E h \in Hosts : Listen(h) \/ Connect(h)
  BY <1>1, ListenKeeps, ConnectKeeps
<1>2. CASE \E s \in Slot : \/ Accept(s) \/ SendData(s) \/ Recv(s) \/ Shutdown(s) \/ Close(s)
                           \/ Rexmit(s) \/ Persist(s) \/ TimeWaitEnds(s)
  BY <1>2, AcceptKeeps, SendDataKeeps, RecvEventKeeps, ShutdownKeeps, CloseKeeps,
     RexmitEventKeeps, PersistEventKeeps, TimeWaitEndsKeeps
<1>3. CASE \E g \in net : Arrive(g) \/ Lose(g)
  BY <1>3, ArriveKeeps, LoseKeeps
<1>4. CASE UNCHANGED vars
  BY <1>4, StillOrderly DEF vars, Inv
<1> QED
  BY <1>1, <1>2, <1>3, <1>4 DEF Next

(* The invariant of TCP holds of every step of every history. *)
THEOREM TcpInv == Spec => []Inv
<1> QED
  BY InitKeeps, NextKeeps, PTL DEF Spec

(* Whatever the network does, the accept queue of a listener holds its      *)
(* children past the handshake, each once, and they never outgrow the       *)
(* backlog (tcp_graduate, tcp_destroy, accept).                             *)
THEOREM TcpAcceptQueueExact == Spec => []AcceptQueueExact
<1>1. ASSUME Inv
      PROVE  AcceptQueueExact
  <2> SUFFICES ASSUME NEW l \in Slot
               PROVE  LET q == tcb[l].acceptq
                          past == {c \in Children(tcb, l) : tcb[c].state # "SYN_RCVD"}
                      IN /\ {q[i] : i \in DOMAIN q} = past /\ Len(q) = Cardinality(past)
                         /\ Children(tcb, l) # {} =>
                              /\ tcb[l].state = "LISTEN"
                              /\ Cardinality(Children(tcb, l)) <= tcb[l].backlog
    BY DEF AcceptQueueExact
  <2>1. AcceptInv(tcb)
    BY <1>1 DEF Inv, TableOK
  <2>2. PICK q : q = tcb[l].acceptq
    OBVIOUS
  <2>3. PICK P : P = {c \in Children(tcb, l) : tcb[c].state # "SYN_RCVD"}
    OBVIOUS
  <2>4. q \in Seq(Slot) /\ Distinct(q)
    BY <2>1, <2>2 DEF AcceptInv, QueueOf
  <2>5. ASSUME NEW c \in Slot
        PROVE  c \in P <=> Holds(q, c)
    <3>1. Holds(q, c) <=> tcb[c].listener = l /\ Past(tcb, c)
      BY <2>1, <2>2 DEF AcceptInv, QueueOf
    <3>2. tcb[c].listener = l => (Past(tcb, c) <=> tcb[c].state # "SYN_RCVD")
      BY <2>1, PortsAssumption DEF AcceptInv, Past, Opened, Ending
    <3> QED
      BY <2>3, <3>1, <3>2 DEF Children
  <2>6. P = {c \in Slot : Holds(q, c)}
    BY <2>3, <2>5 DEF Children
  <2>7. Cardinality(P) = Len(q) /\ {q[i] : i \in DOMAIN q} = P
    BY <2>4, <2>6, QueueLength
  <2>8. ASSUME Children(tcb, l) # {}
        PROVE  /\ tcb[l].state = "LISTEN"
               /\ Cardinality(Children(tcb, l)) <= tcb[l].backlog
    <3>1. PICK c \in Slot : tcb[c].listener = l
      BY <2>8 DEF Children
    <3> QED
      BY <2>1, <2>8, <3>1, PortsAssumption DEF AcceptInv
  <2> QED
    BY <2>2, <2>3, <2>7, <2>8
<1> QED
  BY <1>1, TcpInv, PTL

(* Whatever the applications and the network do, a call is parked only      *)
(* while what it waits for has not come (tcp_recv_data, tcp_process_fin,    *)
(* tcp_graduate, tcp_send_resume, tcp_enter_established).                   *)
THEOREM TcpParkedForCause == Spec => []ParkedForCause
<1>1. ASSUME Inv
      PROVE  ParkedForCause
  <2>1. ASSUME NEW s \in Slot
        PROVE  /\ tcb[s].precv > 0 => /\ tcb[s].rxq = <<>> /\ "RCVFIN" \notin tcb[s].flags
                                      /\ Subtasks \/ ~AtEof(tcb[s])
               /\ tcb[s].pacc => tcb[s].acceptq = <<>>
               /\ tcb[s].psend > 0 /\ nobufs = 0 => tcb[s].sndq = SndBuf
               /\ tcb[s].pconn => tcb[s].state \in {"SYN_SENT", "SYN_RCVD"}
    <3>1. AcceptInv(tcb) /\ TcbInv(tcb[s], nobufs)
      BY <1>1 DEF Inv, TableOK
    <3>2. RecvOK(tcb[s]) /\ CallOK(tcb[s]) /\ SpaceOK(tcb[s], nobufs)
      BY <3>1 DEF TcbInv
    <3>3. tcb[s].pacc => tcb[s].acceptq = <<>>
      BY <3>1 DEF AcceptInv
    <3> QED
      BY <3>2, <3>3 DEF RecvOK, CallOK, SpaceOK, AtEof
  <2> QED
    BY <2>1 DEF ParkedForCause
<1> QED
  BY <1>1, TcpInv, PTL

(* Where an application waits for its calls and ends its side only when     *)
(* what it gave was sent, nothing waits without a timer that will move it,  *)
(* and the timers exclude each other (tcp_timers_update).                   *)
THEOREM TcpNothingUntimed ==
    ASSUME ~Early, ~Subtasks
    PROVE  Spec => []NothingUntimed
<1>1. ASSUME Inv
      PROVE  NothingUntimed
  <2>1. ASSUME NEW s \in Slot
        PROVE  TimerOK(tcb[s], nobufs)
    BY <1>1 DEF Inv, TableOK, TcbInv
  <2> QED
    BY <2>1 DEF NothingUntimed, TimerOK
<1> QED
  BY <1>1, TcpInv, PTL

(* The first part of WindowHonest. *)
WindowWhole == \A s \in Slot : Len(tcb[s].rxq) + tcb[s].rwnd = RcvWnd

(* What a receiver has queued and what it still offers is the whole buffer: *)
(* no read, no segment and no retransmission loses any of the window        *)
(* (tcp_recv_data, tcp_recv_drain_to).                                      *)
THEOREM TcpWindowWhole == Spec => []WindowWhole
<1>1. ASSUME Inv
      PROVE  WindowWhole
  <2>1. ASSUME NEW s \in Slot
        PROVE  RecvOK(tcb[s])
    BY <1>1 DEF Inv, TableOK, TcbInv
  <2> QED
    BY <2>1 DEF WindowWhole, RecvOK
<1> QED
  BY <1>1, TcpInv, PTL

(* Where at most one event finds no buffer, a connection in TIME_WAIT has   *)
(* nothing left that the peer needs.                                        *)
LEMMA TimeWaitIsDead ==
    ASSUME ~Early, ~Subtasks, Inv, nobufs <= 1, NEW s \in Slot, tcb[s].state = "TIME_WAIT"
    PROVE  /\ tcb[s].una = tcb[s].nxt /\ tcb[s].sndq = 0
           /\ {"FINSENT", "RCVFIN"} \subseteq tcb[s].flags
<1>1. TcbInv(tcb[s], nobufs) /\ nobufs \in Nat
  BY DEF Inv, TableOK
<1>2. SendOK(tcb[s]) /\ RecvOK(tcb[s]) /\ FinOK(tcb[s], nobufs) /\ DataOK(tcb[s])
  BY <1>1 DEF TcbInv
<1>3. Sent(tcb[s]) = 0 /\ tcb[s].sndq = 0
  BY <1>2 DEF SendOK
<1>4. tcb[s].una = tcb[s].nxt
  BY <1>2, <1>3, MinusZero DEF Sent, DataOK
<1>5. "FINSENT" \in tcb[s].flags
  BY <1>1, <1>2 DEF FinOK, Ending
<1>6. "RCVFIN" \in tcb[s].flags
  BY <1>2 DEF RecvOK
<1> QED
  BY <1>3, <1>4, <1>5, <1>6

(* Where an application waits for its calls and ends its side only when     *)
(* what it gave was sent, and at most one event finds no buffer, a control  *)
(* block passes from one connection to the next only when the peer has      *)
(* acknowledged everything of the old one and has ended its own side        *)
(* (tcp_attach, tcp_reclaim_timewait).                                      *)
THEOREM TcpReclaimsTheDead ==
    ASSUME ~Early, ~Subtasks, NoBufMax \in {0, 1}
    PROVE  Spec => ReclaimsTheDead
<1> DEFINE Scarce == nobufs <= NoBufMax
<1>1. Init => Scarce
  BY DEF Init
<1>2. Inv /\ Scarce /\ [Next]_vars => Scarce'
  <2> SUFFICES ASSUME Inv, Scarce, [Next]_vars
               PROVE  Scarce'
    OBVIOUS
  <2>1. nobufs \in Nat /\ (nobufs' = nobufs \/ (nobufs' = nobufs + 1 /\ nobufs < NoBufMax))
    BY NextKeeps DEF Orderly, Inv
  <2> QED
    BY <2>1
<1>3. Inv /\ Scarce /\ [Next]_vars =>
        [\A s \in Slot :
           /\ tcb[s].state \notin {"FREE", "CLOSED"}
           /\ tcb'[s].state # "FREE" /\ tcb'[s].iss # tcb[s].iss
           => /\ tcb[s].una = tcb[s].nxt /\ tcb[s].sndq = 0
              /\ {"FINSENT", "RCVFIN"} \subseteq tcb[s].flags]_vars
  <2> SUFFICES ASSUME Inv, Scarce, [Next]_vars, NEW s \in Slot,
                      tcb[s].state \notin {"FREE", "CLOSED"}, tcb'[s].state # "FREE",
                      tcb'[s].iss # tcb[s].iss
               PROVE  /\ tcb[s].una = tcb[s].nxt /\ tcb[s].sndq = 0
                      /\ {"FINSENT", "RCVFIN"} \subseteq tcb[s].flags
    OBVIOUS
  <2>1. KeepsName(tcb[s], tcb'[s])
    BY NextKeeps DEF Orderly
  <2>2. tcb[s].state = "TIME_WAIT"
    BY <2>1 DEF KeepsName
  <2>3. nobufs <= 1
    BY DEF Inv
  <2> QED
    BY <2>2, <2>3, TimeWaitIsDead
<1>4. Spec => []Inv
  BY TcpInv
<1> QED
  BY <1>1, <1>2, <1>3, <1>4, PTL DEF Spec, ReclaimsTheDead

(* Everything in the send queue was sent and acknowledged. *)
QueueSent ==
    \A s \in Slot : tcb[s].state \in {"FIN_WAIT_2", "TIME_WAIT"} =>
        tcb[s].una = tcb[s].nxt /\ tcb[s].sndq = 0

(* Where an application waits for its calls and ends its side only when     *)
(* what it gave was sent, a connection whose end the peer has acknowledged  *)
(* has nothing left in its send queue, however many buffers are missing,    *)
(* and has sent its FIN as long as not more than one was (tcp_output,       *)
(* tcp_process_ack).  Both conditions are needed: the run that expects      *)
(* CloseSendsAll to fail lets an application end its side early, and a FIN  *)
(* that finds no buffer twice is passed over as well.                       *)
THEOREM TcpCloseSendsAll ==
    ASSUME ~Early, ~Subtasks
    PROVE  Spec => [](QueueSent /\ (nobufs <= 1 => CloseSendsAll))
<1>1. ASSUME Inv
      PROVE  QueueSent /\ (nobufs <= 1 => CloseSendsAll)
  <2>1. ASSUME NEW s \in Slot, tcb[s].state \in {"FIN_WAIT_2", "TIME_WAIT"}
        PROVE  /\ tcb[s].una = tcb[s].nxt /\ tcb[s].sndq = 0
               /\ nobufs <= 1 => "FINSENT" \in tcb[s].flags
    <3>1. TcbInv(tcb[s], nobufs) /\ nobufs \in Nat
      BY <1>1 DEF Inv, TableOK
    <3>2. SendOK(tcb[s]) /\ FinOK(tcb[s], nobufs) /\ DataOK(tcb[s])
      BY <3>1 DEF TcbInv
    <3>3. Sent(tcb[s]) = 0 /\ tcb[s].sndq = 0
      BY <2>1, <3>2 DEF SendOK
    <3>4. tcb[s].una = tcb[s].nxt
      BY <3>2, <3>3, MinusZero DEF Sent, DataOK
    <3>5. nobufs <= 1 => "FINSENT" \in tcb[s].flags
      BY <2>1, <3>1, <3>2 DEF FinOK, Ending
    <3> QED
      BY <3>3, <3>4, <3>5
  <2> QED
    BY <2>1 DEF QueueSent, CloseSendsAll
<1> QED
  BY <1>1, TcpInv, PTL

-----------------------------------------------------------------------------
(* Places of a stream. *)
LEMMA PlusPlus ==
    ASSUME NEW a \in Seq32, NEW m \in Nat, NEW n \in Nat, m + n < SeqMod
    PROVE  Plus(a, m + n) \in Seq32 /\ Plus(Plus(a, m), n) = Plus(a, m + n)
<1>1. m \in Seq32 /\ n \in Seq32 /\ m + n \in Seq32
  BY HalfSpace DEF Seq32
<1>2. a \in Int
  BY SeqNat
<1>3. Plus(a, m) \in Seq32 /\ Plus(a, m + n) \in Seq32
  BY <1>2, PlusType
<1>4. PICK p \in Seq32 : p = Plus(a, m)
  BY <1>3
<1>5. p = IF a + m < SeqMod THEN a + m ELSE a + m - SeqMod
  BY <1>1, <1>4, PlusIs
<1>6. Plus(p, n) = IF p + n < SeqMod THEN p + n ELSE p + n - SeqMod
  BY <1>1, PlusIs
<1>7. Plus(a, m + n) = IF a + (m + n) < SeqMod THEN a + (m + n) ELSE a + (m + n) - SeqMod
  BY <1>1, PlusIs
<1>8. a < SeqMod /\ a >= 0 /\ p < SeqMod /\ p >= 0 /\ p \in Int
  BY SeqNat
<1> QED
  BY <1>2, <1>3, <1>4, <1>5, <1>6, <1>7, <1>8, HalfSpace

(* A product of numbers is one. *)
LEMMA ProductType ==
    ASSUME NEW i \in Nat, NEW j \in Nat
    PROVE  i * j \in Nat
  OBVIOUS

(* SND.NXT is what was sent past SND.UNA. *)
LEMMA NextIs ==
    ASSUME NEW t, DataOK(t)
    PROVE  Sent(t) \in Nat /\ Sent(t) < SeqMod /\ t.nxt = Plus(t.una, Sent(t))
<1>1. t.nxt \in Seq32 /\ t.una \in Seq32
  BY DEF DataOK
<1>2. PICK v \in Seq32 : v = Sent(t)
  BY <1>1, MinusIs DEF Sent
<1>3. t.nxt = Plus(t.una, v)
  BY <1>1, <1>2, PlusMinus DEF Sent
<1> QED
  BY <1>2, <1>3, SeqNat

(* Two places of one stream. *)
LEMMA OnePlace ==
    ASSUME NEW a \in Seq32, NEW m \in Nat, NEW n \in Nat, m < SeqMod, n < SeqMod,
           Plus(a, m) = Plus(a, n)
    PROVE  m = n
<1>1. m \in Seq32 /\ n \in Seq32
  BY HalfSpace DEF Seq32
<1>2. PICK v \in Seq32 : v = Plus(a, m)
  BY SeqNat, PlusType
<1>3. Minus(v, a) = m /\ Minus(v, a) = n
  BY <1>1, <1>2, PlusMinus
<1> QED
  BY <1>3

(* A ledger. *)
LEMMA LedgerType ==
    ASSUME NEW B \in Nat, NEW F \in Ledgers(B)
    PROVE  /\ \A j \in Seq32 : F.tot[j] \in Nat /\ F.tot[j] <= B
           /\ F.fin \in SUBSET Seq32
  BY DEF Ledgers

(* It may stay as it is. *)
LEMMA GrowsNot ==
    ASSUME NEW B \in Nat, NEW F \in Ledgers(B), NEW i
    PROVE  Grows(F, F, i)
  BY LedgerType DEF Grows

(* What grows twice has grown. *)
LEMMA GrowsOn ==
    ASSUME NEW B \in Nat, NEW F \in Ledgers(B), NEW E \in Ledgers(B), NEW G \in Ledgers(B), NEW i,
           Grows(F, E, i), Grows(E, G, i)
    PROVE  Grows(F, G, i)
<1> SUFFICES ASSUME NEW j \in Seq32
             PROVE  /\ F.tot[j] <= G.tot[j]
                    /\ j \in F.fin => j \in G.fin /\ G.tot[j] = F.tot[j]
                    /\ j # i => G.tot[j] = F.tot[j] /\ (j \in G.fin <=> j \in F.fin)
  BY DEF Grows
<1>1. F.tot[j] \in Nat /\ E.tot[j] \in Nat /\ G.tot[j] \in Nat
  BY LedgerType
<1>2. /\ F.tot[j] <= E.tot[j]
      /\ j \in F.fin => j \in E.fin /\ E.tot[j] = F.tot[j]
      /\ j # i => E.tot[j] = F.tot[j] /\ (j \in E.fin <=> j \in F.fin)
  BY DEF Grows
<1>3. /\ E.tot[j] <= G.tot[j]
      /\ j \in E.fin => j \in G.fin /\ G.tot[j] = E.tot[j]
      /\ j # i => G.tot[j] = E.tot[j] /\ (j \in G.fin <=> j \in E.fin)
  BY DEF Grows
<1> QED
  BY <1>1, <1>2, <1>3

(* What was said of a stream stays true of it. *)
LEMMA StillCarries ==
    ASSUME NEW B \in Nat, NEW D \in SUBSET Seq32, NEW F \in Ledgers(B), NEW E \in Ledgers(B), NEW i,
           Grows(F, E, i), NEW g, SegOK(g), Carries(g, F, D)
    PROVE  Carries(g, E, D)
<1>1. g.len \in Nat /\ g.first \in Int
  BY DEF SegOK
<1>2. ASSUME "FIN" \in g.fl
      PROVE  g.iss \in E.fin /\ E.tot[g.iss] = F.tot[g.iss]
  BY <1>2 DEF Carries, Grows
<1>3. ASSUME g.len > 0
      PROVE  g.first + g.len - 1 <= E.tot[g.iss]
  <2>1. g.iss \in Seq32 /\ g.first + g.len - 1 <= F.tot[g.iss]
    BY <1>3 DEF Carries
  <2>2. F.tot[g.iss] <= E.tot[g.iss] /\ F.tot[g.iss] \in Nat /\ E.tot[g.iss] \in Nat
    BY <2>1, LedgerType DEF Grows
  <2> QED
    BY <1>1, <2>1, <2>2
<1> QED
  BY <1>2, <1>3 DEF Carries

(* What was received is a number of bytes. *)
LEMMA ReceivedType ==
    ASSUME NEW t, DataOK(t)
    PROVE  Received(t) \in Nat /\ Len(t.rxq) \in Nat /\ t.rcvd \in Nat /\ Eof(t) \in {0, 1}
  BY DEF Received, DataOK, Eof

(* What was said of a receiver stays true, too. *)
LEMMA StillReceived ==
    ASSUME NEW B \in Nat, NEW D \in SUBSET Seq32, NEW F \in Ledgers(B), NEW E \in Ledgers(B), NEW i,
           Grows(F, E, i), NEW t, DataOK(t), RecvPos(t, F, D)
    PROVE  RecvPos(t, E, D)
<1>1. ASSUME t.state \notin Unsynchronized
      PROVE  /\ Received(t) <= E.tot[t.irs]
             /\ "RCVFIN" \in t.flags => t.irs \in E.fin /\ Received(t) = E.tot[t.irs]
  <2>1. /\ t.irs \in Seq32 /\ Received(t) <= F.tot[t.irs]
        /\ "RCVFIN" \in t.flags => t.irs \in F.fin /\ Received(t) = F.tot[t.irs]
    BY <1>1 DEF RecvPos
  <2>2. /\ F.tot[t.irs] <= E.tot[t.irs] /\ F.tot[t.irs] \in Nat /\ E.tot[t.irs] \in Nat
        /\ t.irs \in F.fin => t.irs \in E.fin /\ E.tot[t.irs] = F.tot[t.irs]
    BY <2>1, LedgerType DEF Grows
  <2> QED
    BY <2>1, <2>2, ReceivedType
<1> QED
  BY <1>1 DEF RecvPos

-----------------------------------------------------------------------------
(* A world and its parts. *)
LEMMA WorldIs ==
    ASSUME NEW F, NEW D, NEW B, World(F, D, B)
    PROVE  /\ B \in Nat /\ B + 2 < SeqMod /\ D \in SUBSET Seq32 /\ Spread(D, B)
           /\ F \in Ledgers(B)
  BY DEF World

(* A receiving side that is the same stands where it did. *)
LEMMA InCarried ==
    ASSUME NEW t, NEW u, SameIn(t, u), t.state \in Unsynchronized <=> u.state \in Unsynchronized,
           NEW F, NEW D, RecvPos(t, F, D)
    PROVE  RecvPos(u, F, D)
<1>1. Received(u) = Received(t) /\ Eof(u) = Eof(t)
  BY DEF SameIn, Received, Eof
<1> QED
  BY <1>1 DEF SameIn, RecvPos

(* So does a sending side that is the same. *)
LEMMA PhasesCarried ==
    ASSUME NEW t, NEW u, SameOut(t, u)
    PROVE  /\ SynPhase(t) => SynPhase(u)
           /\ DataPhase(t) => DataPhase(u)
           /\ EndPhase(t) /\ ~u.rexmit => EndPhase(u)
<1>1. Sent(u) = Sent(t)
  BY DEF SameOut, Sent
<1> QED
  BY <1>1 DEF SameOut, SynPhase, DataPhase, EndPhase

(* And the ledger still agrees with it. *)
LEMMA BookCarried ==
    ASSUME NEW t, NEW u, SameOut(t, u), NEW F, NEW D, NEW B, Booked(t, F, D, B)
    PROVE  Booked(u, F, D, B)
  BY DEF SameOut, Booked, Held

(* A state of the same kind. *)
SameKind(s, r) ==
    s = r \/ (s \in Opened /\ r \in Opened) \/ (s \in Ending /\ r \in Ending)

(* What states of the same kind have in common. *)
LEMMA KindIs ==
    ASSUME NEW s, NEW r, SameKind(s, r)
    PROVE  /\ s \in Opening <=> r \in Opening
           /\ s \in Opened <=> r \in Opened
           /\ s \in Ending <=> r \in Ending
           /\ s \in {"FREE", "LISTEN"} <=> r \in {"FREE", "LISTEN"}
           /\ s \in Unsynchronized <=> r \in Unsynchronized
  BY DEF SameKind, Opening, Opened, Ending, Unsynchronized

(* Nothing is in flight past the end: its retransmission timer stays off. *)
LEMMA SendPosStays ==
    ASSUME NEW t, DataOK(t), NEW u, SameOut(t, u), SameKind(t.state, u.state),
           u.rexmit => t.rexmit \/ t.una # t.nxt,
           Owns(t) \/ (~u.rexmit /\ ~u.persist), SendPos(t)
    PROVE  SendPos(u)
<1>1. /\ t.state \in Opening <=> u.state \in Opening
      /\ t.state \in Opened <=> u.state \in Opened
      /\ t.state \in Ending <=> u.state \in Ending
      /\ t.state \in {"FREE", "LISTEN"} <=> u.state \in {"FREE", "LISTEN"}
  BY KindIs
<1>2. EndPhase(t) => ~u.rexmit
  <2>1. t.una \in Seq32 /\ t.nxt \in Seq32
    BY DEF DataOK
  <2> QED
    BY <2>1, MinusZero DEF EndPhase, Sent
<1>3. /\ SynPhase(t) => SynPhase(u)
      /\ DataPhase(t) => DataPhase(u)
      /\ EndPhase(t) => EndPhase(u)
  BY <1>2, PhasesCarried
<1>4. u.psend = t.psend /\ ("FINQ" \in u.flags <=> "FINQ" \in t.flags)
  BY DEF SameOut
<1> QED
  BY <1>1, <1>3, <1>4 DEF SendPos, Owns

(* A block that moves within a kind of states stands where it did. *)
LEMMA AlignedStays ==
    ASSUME NEW t, DataOK(t), NEW u, SameStream(t, u), SameKind(t.state, u.state),
           u.rexmit => t.rexmit \/ t.una # t.nxt,
           Owns(t) \/ (~u.rexmit /\ ~u.persist),
           NEW F, NEW D, NEW B, Aligned(t, F, D, B)
    PROVE  Aligned(u, F, D, B)
<1>1. SameIn(t, u) /\ SameOut(t, u)
  BY DEF SameStream
<1>2. RecvPos(u, F, D)
  BY <1>1, KindIs, InCarried DEF Aligned
<1>3. Owns(u) => Booked(u, F, D, B)
  BY <1>1, KindIs, BookCarried DEF Aligned, Owns
<1>4. SendPos(u)
  BY <1>1, SendPosStays DEF Aligned
<1> QED
  BY <1>2, <1>3, <1>4 DEF Aligned

(* Results. *)
LEMMA FlowPut ==
    ASSUME NEW x, NEW F, NEW D, NEW B, Flow(x, F, D, B), NEW y, Aligned(y.t, F, D, B),
           \A g \in y.out : g \in x.out \/ Carries(g, F, D)
    PROVE  Flow(y, F, D, B)
  BY DEF Flow

(* A result whose block changed in nothing of the streams. *)
LEMMA FlowSame ==
    ASSUME NEW x, Result(x), NEW F, NEW D, NEW B, Flow(x, F, D, B),
           NEW y, SameStream(x.t, y.t), SameKind(x.t.state, y.t.state),
           y.t.rexmit => x.t.rexmit \/ x.t.una # x.t.nxt,
           Owns(x.t), y.out = x.out
    PROVE  Flow(y, F, D, B)
<1>1. Aligned(y.t, F, D, B)
  <2>1. DataOK(x.t) /\ Aligned(x.t, F, D, B)
    BY DEF Result, Flow
  <2> QED
    BY <2>1, AlignedStays
<1> QED
  BY <1>1, FlowPut

(* A result for which the ledger need not grow. *)
LEMMA FlowsNow ==
    ASSUME NEW x, NEW y, NEW F, NEW D, NEW B, Flow(y, F, D, B)
    PROVE  Flows(x, y, F, D, B)
<1>1. Grows(F, F, x.t.iss)
  BY GrowsNot DEF Flow, World
<1> QED
  BY <1>1 DEF Flows

(* One event after another, the ledger grown between them. *)
LEMMA FlowsOn ==
    ASSUME NEW x, NEW y, NEW z, NEW F, NEW D, NEW B, Flow(x, F, D, B), NEW E,
           Grows(F, E, x.t.iss), Flow(y, E, D, B), y.t.iss = x.t.iss, Flows(y, z, E, D, B)
    PROVE  Flows(x, z, F, D, B)
<1>1. PICK G : Grows(E, G, y.t.iss) /\ Flow(z, G, D, B)
  BY DEF Flows
<1>2. B \in Nat /\ F \in Ledgers(B) /\ E \in Ledgers(B) /\ G \in Ledgers(B)
  BY <1>1 DEF Flow, World
<1>3. Grows(F, G, x.t.iss)
  BY <1>1, <1>2, GrowsOn
<1> QED
  BY <1>1, <1>3 DEF Flows

(* The same, whatever the ledger is between them. *)
LEMMA FlowsThen ==
    ASSUME NEW x, NEW y, NEW z, NEW F, NEW D, NEW B, Flow(x, F, D, B), Flows(x, y, F, D, B),
           y.t.iss = x.t.iss, \A E : Flow(y, E, D, B) => Flows(y, z, E, D, B)
    PROVE  Flows(x, z, F, D, B)
<1>1. PICK E : Grows(F, E, x.t.iss) /\ Flow(y, E, D, B)
  BY DEF Flows
<1> QED
  BY <1>1, FlowsOn

-----------------------------------------------------------------------------
(* Segments without data. *)
LEMMA SendFlow ==
    ASSUME NEW x, Result(x), NEW F, NEW D, NEW B, Flow(x, F, D, B), NEW g, Carries(g, F, D),
           NEW y, y = Send(x, g)
    PROVE  Flow(y, F, D, B) /\ y.t = x.t
<1>1. CASE x.room
  <2>1. y.t = x.t /\ y.out = x.out \cup {g}
    BY <1>1 DEF Send, Result, ResultFields
  <2> QED
    BY <2>1 DEF Flow
<1>2. CASE ~x.room
  BY <1>2 DEF Send
<1> QED
  BY <1>1, <1>2

(* A SYN or a FIN, at its place in the stream. *)
LEMMA EmitSeqFlow ==
    ASSUME NEW x, Result(x), NEW F, NEW D, NEW B, Flow(x, F, D, B), NEW fl, NEW seq,
           "SYN" \in fl => seq \in D,
           "FIN" \in fl => /\ x.t.iss \in D /\ x.t.iss \in F.fin
                           /\ seq = Plus(x.t.iss, 1 + F.tot[x.t.iss]),
           NEW y, y = EmitSeq(x, fl, seq)
    PROVE  Flow(y, F, D, B) /\ y.t = x.t
<1>1. PICK g : g = Segment(x.t, fl, seq, 0, 0)
  OBVIOUS
<1>2. g.fl = fl /\ g.seq = seq /\ g.len = 0 /\ g.iss = x.t.iss
  BY <1>1 DEF Segment
<1>3. Carries(g, F, D)
  BY <1>2 DEF Carries
<1>4. y = Send(x, g)
  BY <1>1 DEF EmitSeq
<1> QED
  BY <1>3, <1>4, SendFlow

(* A segment without a FIN. *)
LEMMA EmitFlow ==
    ASSUME NEW x, Result(x), NEW F, NEW D, NEW B, Flow(x, F, D, B), NEW fl,
           "SYN" \in fl => x.t.iss \in D, "FIN" \notin fl,
           NEW y, y = Emit(x, fl)
    PROVE  Flow(y, F, D, B) /\ y.t = x.t
<1>1. PICK seq : seq = IF "SYN" \in fl THEN x.t.iss ELSE x.t.nxt
  OBVIOUS
<1>2. y = EmitSeq(x, fl, seq) /\ ("SYN" \in fl => seq \in D)
  BY <1>1 DEF Emit
<1> QED
  BY <1>2, EmitSeqFlow

(* A plain acknowledgment. *)
LEMMA AckFlow ==
    ASSUME NEW x, Result(x), NEW F, NEW D, NEW B, Flow(x, F, D, B), NEW y, y = Ack(x)
    PROVE  Flow(y, F, D, B) /\ y.t = x.t
<1>1. y = Emit(x, {"ACK"}) /\ "SYN" \notin {"ACK"} /\ "FIN" \notin {"ACK"}
  BY DEF Ack
<1> QED
  BY <1>1, EmitFlow

(* A reset carries nothing. *)
LEMMA RstCarries ==
    ASSUME NEW g, NEW F, NEW D
    PROVE  Carries(RstFor(g), F, D)
  BY DEF RstFor, Carries

(* Nor does sending it. *)
LEMMA RstFlow ==
    ASSUME NEW x, Result(x), NEW F, NEW D, NEW B, Flow(x, F, D, B), NEW g,
           NEW y, y = Send(x, RstFor(g))
    PROVE  Flow(y, F, D, B) /\ y.t = x.t
<1>1. PICK r : r = RstFor(g)
  OBVIOUS
<1> QED
  BY <1>1, RstCarries, SendFlow

(* tcp_timers_update. *)
LEMMA TimersSame ==
    ASSUME NEW t, DataOK(t), NEW u, u = Timers(t)
    PROVE  /\ SameStream(t, u) /\ u.state = t.state
           /\ u.rexmit => t.una # t.nxt
<1>1. u.state = t.state /\ SameIn(t, u)
  BY DEF Timers, DataOK, TcbFields, SameIn
<1>2. SameOut(t, u)
  BY DEF Timers, DataOK, TcbFields, SameOut
<1>3. u.rexmit => t.una # t.nxt
  <2>1. u.rexmit <=> SeqLT(t.una, t.nxt)
    BY TimersKeep
  <2>2. t.una \in Seq32 /\ t.nxt \in Seq32
    BY DEF DataOK
  <2>3. t.una = t.nxt => Minus(t.una, t.nxt) = 0
    BY <2>2, MinusZero
  <2> QED
    BY <2>1, <2>3, HalfSpace DEF SeqLT
<1> QED
  BY <1>1, <1>2, <1>3 DEF SameStream

(* It moves no stream. *)
LEMMA TimersOfFlow ==
    ASSUME NEW x, Result(x), NEW F, NEW D, NEW B, Flow(x, F, D, B), Owns(x.t),
           NEW y, y = TimersOf(x)
    PROVE  Flow(y, F, D, B) /\ SameStream(x.t, y.t) /\ y.t.state = x.t.state
<1>1. PICK u : u = Timers(x.t)
  OBVIOUS
<1>2. y.t = u /\ y.out = x.out
  BY <1>1 DEF TimersOf, Result, ResultFields
<1>3. SameStream(x.t, u) /\ u.state = x.t.state /\ (u.rexmit => x.t.una # x.t.nxt)
  BY <1>1, TimersSame DEF Result
<1> QED
  BY <1>2, <1>3, FlowSame DEF SameKind

-----------------------------------------------------------------------------
(* Sending. *)
Sends(t) == t.state \in Opened \cup Ending

(* The sizes of the send queue. *)
LEMMA QueueSize ==
    ASSUME NEW t, DataOK(t)
    PROVE  /\ t.sndq \in Nat /\ t.sndq <= SndBuf /\ t.sndq < SeqMod \div 2 /\ t.sndq + 1 < SeqMod
           /\ t.sfree \in Nat /\ t.psend \in Nat
<1>1. t.sndq \in 0 .. SndBuf /\ t.sfree \in Nat /\ t.psend \in Nat
  BY DEF DataOK
<1>2. PICK h \in Nat : h = SeqMod \div 2 /\ SeqMod = 2 * h /\ SndBuf \in Nat /\ SndBuf < h
  BY HalfSpace
<1> QED
  BY <1>1, <1>2

(* How much is in flight, in a state that sends. *)
LEMMA FlightSize ==
    ASSUME NEW t, DataOK(t), Sends(t), SendPos(t)
    PROVE  /\ Sent(t) \in Nat /\ t.sndq \in Nat /\ t.sndq <= SndBuf /\ t.sfree \in Nat
           /\ Sent(t) <= t.sndq + 1 /\ Sent(t) <= SeqMod \div 2
           /\ "FINSENT" \notin t.flags => DataPhase(t) /\ Sent(t) <= t.sndq
           /\ "FINSENT" \in t.flags => "FINQ" \in t.flags /\ Sent(t) >= t.sndq
           /\ DataPhase(t) \/ EndPhase(t)
<1>1. Sent(t) \in Nat /\ t.sndq \in Nat /\ t.sndq <= SndBuf /\ t.sfree \in Nat
  <2>1. Sent(t) \in Nat
    BY NextIs
  <2>2. t.sndq \in 0 .. SndBuf /\ t.sfree \in Nat
    BY DEF DataOK
  <2>3. SndBuf \in Nat
    BY HalfSpace
  <2> QED
    BY <2>1, <2>2, <2>3
<1>2. DataPhase(t) \/ EndPhase(t)
  BY DEF Sends, SendPos
<1>3. CASE DataPhase(t)
  BY <1>1, <1>3, HalfSpace DEF DataPhase
<1>4. CASE EndPhase(t)
  BY <1>1, <1>4, HalfSpace DEF EndPhase
<1> QED
  BY <1>1, <1>2, <1>3, <1>4

(* A piece of the send queue is at its place in the stream. *)
LEMMA PieceCarries ==
    ASSUME NEW t, DataOK(t), DataPhase(t), NEW F, NEW D, NEW B, World(F, D, B), Booked(t, F, D, B),
           NEW off \in Nat, NEW len \in Nat, len > 0, off + len <= t.sndq,
           NEW seq, seq = Plus(t.una, off), NEW g, g = Segment(t, {"ACK"}, seq, off, len)
    PROVE  Carries(g, F, D)
<1>1. g.fl = {"ACK"} /\ g.seq = seq /\ g.len = len /\ g.iss = t.iss /\ g.first = t.sfree + off + 1
  BY DEF Segment
<1>2. t.sfree \in Nat /\ t.sndq \in Nat /\ t.psend \in Nat /\ t.iss \in Seq32
  BY HalfSpace DEF DataOK
<1>3. B \in Nat /\ B + 2 < SeqMod
  BY DEF World
<1>4. t.iss \in D /\ F.tot[t.iss] = t.sfree + t.sndq /\ t.sfree + t.sndq <= B
  BY <1>2, <1>3 DEF Booked, Held
<1>5. PICK m \in Nat : m = 1 + t.sfree
  BY <1>2
<1>6. m + off < SeqMod /\ m + off = t.sfree + off + 1
  <2>1. PICK f \in Nat, q \in Nat : f = t.sfree /\ q = t.sndq
    BY <1>2
  <2>2. f + q <= B /\ off + len <= q /\ m = 1 + f
    BY <1>4, <1>5, <2>1
  <2>3. m + off <= B /\ m + off = f + off + 1
    BY <1>3, <2>2
  <2> QED
    BY <1>3, <2>1, <2>3, HalfSpace
<1>7. seq = Plus(t.iss, m + off)
  BY <1>2, <1>5, <1>6, PlusPlus DEF DataPhase
<1>8. g.first >= 1 /\ g.first + g.len - 1 <= F.tot[g.iss]
  BY <1>1, <1>2, <1>4
<1> QED
  BY <1>1, <1>4, <1>6, <1>7, <1>8 DEF Carries

(* SND.NXT moves over bytes that were queued. *)
LEMMA NextMovesOn ==
    ASSUME NEW t, DataOK(t), DataPhase(t), "FINSENT" \notin t.flags,
           NEW n \in Nat, Sent(t) + n <= t.sndq,
           NEW u, u = [t EXCEPT !.nxt = Plus(t.nxt, n)]
    PROVE  Sent(u) = Sent(t) + n /\ DataPhase(u)
<1>1. t.nxt \in Seq32 /\ t.una \in Seq32 /\ t.sndq \in Nat /\ t.sndq < SeqMod /\ Sent(t) \in Nat
  <2>1. t.sndq \in Nat /\ t.sndq < SeqMod
    BY QueueSize, HalfSpace
  <2> QED
    BY <2>1, NextIs DEF DataOK
<1>2. /\ u.una = t.una /\ u.nxt = Plus(t.nxt, n) /\ u.iss = t.iss /\ u.sfree = t.sfree
      /\ u.sndq = t.sndq /\ u.flags = t.flags
  BY DEF DataOK, TcbFields
<1>3. Sent(u) = Sent(t) + n
  <2>1. Minus(t.nxt, t.una) + n < SeqMod
    BY <1>1, HalfSpace DEF Sent
  <2> QED
    BY <1>1, <1>2, <2>1, MinusGrows DEF Sent
<1> QED
  BY <1>2, <1>3 DEF DataPhase

(* tcp_output's data. *)
LEMMA OutputDataFlow ==
    ASSUME NEW x, Result(x), NEW F, NEW D, NEW B, Flow(x, F, D, B), Sends(x.t),
           NEW y, y = OutputData(x)
    PROVE  Flow(y, F, D, B)
<1>1. PICK t : t = x.t
  OBVIOUS
<1>2. DataOK(t) /\ x.room \in BOOLEAN /\ Aligned(t, F, D, B) /\ World(F, D, B) /\ Sends(t)
  BY <1>1 DEF Result, Flow
<1>3. SendPos(t) /\ RecvPos(t, F, D) /\ Booked(t, F, D, B)
  BY <1>2 DEF Aligned, Sends, Owns, Opened, Ending
<1>4. /\ Sent(t) \in Nat /\ t.sndq \in Nat /\ t.sndq <= SndBuf
      /\ Sent(t) <= t.sndq + 1 /\ Sent(t) <= SeqMod \div 2
      /\ "FINSENT" \notin t.flags => DataPhase(t) /\ Sent(t) <= t.sndq
      /\ "FINSENT" \in t.flags => "FINQ" \in t.flags /\ Sent(t) >= t.sndq
  BY <1>2, <1>3, FlightSize
<1>5. PICK n \in Nat : n = IF x.room THEN Sendable(t) ELSE 0
  BY <1>2, SendableType
<1>6. n > 0 => "FINSENT" \notin t.flags /\ Sent(t) + n <= t.sndq
  <2>1. Sendable(t) \in Nat /\ Sendable(t) <= Ahead(t.sndq, Sent(t))
    BY <1>2, SendableType
  <2>2. Ahead(t.sndq, Sent(t)) = IF Sent(t) < t.sndq THEN t.sndq - Sent(t) ELSE 0
    BY <1>4, HalfSpace, AheadIs
  <2> QED
    BY <1>4, <1>5, <2>1, <2>2
<1>7. PICK sent \in Nat : sent = Sent(t)
  BY <1>4
<1>8. PICK P : P = {Segment(t, {"ACK"}, Plus(t.nxt, i * Mss), sent + i * Mss,
                            Min({Mss, n - i * Mss})) : i \in {i \in 0 .. n : i * Mss < n}}
  OBVIOUS
<1>9. y = [x EXCEPT !.t.nxt = Plus(@, n), !.out = @ \cup P]
  BY <1>1, <1>5, <1>7, <1>8 DEF OutputData, Sent
<1>10. PICK u : u = [t EXCEPT !.nxt = Plus(t.nxt, n)]
  OBVIOUS
<1>11. y.t = u /\ y.out = x.out \cup P
  BY <1>1, <1>9, <1>10 DEF Result, ResultFields
<1>12. ASSUME NEW g \in P
       PROVE  Carries(g, F, D)
  <2>1. PICK i \in 0 .. n : /\ i * Mss < n
                            /\ g = Segment(t, {"ACK"}, Plus(t.nxt, i * Mss), sent + i * Mss,
                                           Min({Mss, n - i * Mss}))
    BY <1>8
  <2>2. PICK k \in Nat : k = i * Mss
    BY HalfSpace, ProductType
  <2>3. PICK len \in Nat : len = Min({Mss, n - k}) /\ len > 0 /\ len <= n - k
    <3>1. Min({Mss, n - k}) = IF Mss <= n - k THEN Mss ELSE n - k
      BY HalfSpace, MinOf
    <3> QED
      BY <2>1, <2>2, <3>1, HalfSpace
  <2>4. n > 0 /\ DataPhase(t) /\ sent + n <= t.sndq
    BY <1>4, <1>6, <1>7, <2>1, <2>2
  <2>5. PICK off \in Nat : off = sent + k
    OBVIOUS
  <2>6. off + len <= t.sndq
    BY <1>4, <2>3, <2>4, <2>5
  <2>7. Plus(t.nxt, k) = Plus(t.una, off)
    <3>1. t.una \in Seq32 /\ t.nxt = Plus(t.una, sent) /\ off < SeqMod
      <4>1. off < SeqMod
        BY <1>2, <2>3, <2>5, <2>6, QueueSize, HalfSpace
      <4> QED
        BY <1>2, <1>7, <4>1, NextIs DEF DataOK
    <3> QED
      BY <2>5, <3>1, PlusPlus
  <2>8. g = Segment(t, {"ACK"}, Plus(t.una, off), off, len)
    BY <2>1, <2>2, <2>3, <2>5, <2>7
  <2> QED
    BY <1>2, <1>3, <2>3, <2>4, <2>6, <2>8, PieceCarries
<1>13. Aligned(u, F, D, B)
  <2>1. /\ SameIn(t, u) /\ u.state = t.state /\ u.flags = t.flags /\ u.psend = t.psend
        /\ u.rexmit = t.rexmit /\ u.persist = t.persist
        /\ u.iss = t.iss /\ u.una = t.una /\ u.sfree = t.sfree /\ u.sndq = t.sndq
        /\ u.nxt = Plus(t.nxt, n)
    BY <1>2, <1>10 DEF DataOK, TcbFields, SameIn
  <2>2. CASE n = 0
    <3>1. t.nxt = Plus(t.nxt, 0)
      <4>1. t.nxt \in Seq32 /\ 0 \in Seq32
        BY <1>2, HalfSpace DEF DataOK
      <4>2. t.nxt \in Int /\ t.nxt < SeqMod
        BY <4>1, SeqNat
      <4> QED
        BY <4>1, <4>2, PlusIs
    <3>2. SameStream(t, u)
      BY <2>1, <2>2, <3>1 DEF SameStream, SameOut
    <3>3. Owns(t)
      BY <1>2 DEF Sends, Owns, Opened, Ending
    <3> QED
      BY <1>2, <2>1, <3>2, <3>3, AlignedStays DEF SameKind
  <2>3. CASE n > 0
    <3>1. DataPhase(u)
      BY <1>2, <1>4, <1>6, <1>10, <2>3, NextMovesOn
    <3>2. RecvPos(u, F, D)
      BY <1>3, <2>1, InCarried
    <3>3. Booked(u, F, D, B)
      BY <1>3, <2>1 DEF Booked, Held
    <3>4. SendPos(u)
      BY <1>2, <1>3, <2>1, <3>1 DEF SendPos, Sends, Owns, Opened, Ending, Opening
    <3> QED
      BY <3>2, <3>3, <3>4 DEF Aligned
  <2> QED
    BY <2>2, <2>3
<1> QED
  BY <1>11, <1>12, <1>13, FlowPut

(* What a step of the sender adds to the ledger. *)
LEMMA FlowGrown ==
    ASSUME NEW x, Result(x), NEW F, NEW D, NEW B, Flow(x, F, D, B), NEW E \in Ledgers(B),
           Grows(F, E, x.t.iss), NEW y, \A g \in y.out : g \in x.out \/ Carries(g, E, D),
           SameIn(x.t, y.t), y.t.state = x.t.state, SendPos(y.t), Booked(y.t, E, D, B)
    PROVE  Flows(x, y, F, D, B)
<1>1. B \in Nat /\ D \in SUBSET Seq32 /\ F \in Ledgers(B) /\ World(E, D, B)
  BY DEF Flow, World
<1>2. ASSUME NEW g \in y.out
      PROVE  Carries(g, E, D)
  <2>1. CASE g \in x.out
    <3>1. SegOK(g) /\ Carries(g, F, D)
      BY <2>1 DEF Result, Flow
    <3> QED
      BY <1>1, <3>1, StillCarries
  <2> QED
    BY <2>1
<1>3. RecvPos(y.t, E, D)
  <2>1. DataOK(x.t) /\ RecvPos(x.t, F, D)
    BY DEF Result, Flow, Aligned
  <2>2. RecvPos(x.t, E, D)
    BY <1>1, <2>1, StillReceived
  <2> QED
    BY <2>2, InCarried
<1>4. Flow(y, E, D, B)
  BY <1>1, <1>2, <1>3 DEF Flow, Aligned
<1> QED
  BY <1>4 DEF Flows

(* The end of a stream was sent. *)
LEMMA GrowsFin ==
    ASSUME NEW B \in Nat, NEW F \in Ledgers(B), NEW i \in Seq32,
           NEW E, E = [tot |-> F.tot, fin |-> F.fin \cup {i}]
    PROVE  E \in Ledgers(B) /\ E.tot = F.tot /\ i \in E.fin /\ Grows(F, E, i)
<1>1. E \in Ledgers(B) /\ E.tot = F.tot /\ E.fin = F.fin \cup {i}
  BY DEF Ledgers
<1> QED
  BY <1>1, LedgerType DEF Grows

(* Bytes are queued for a stream whose end was not sent. *)
LEMMA GrowsTot ==
    ASSUME NEW B \in Nat, NEW F \in Ledgers(B), NEW i \in Seq32, i \notin F.fin,
           NEW v \in Nat, v <= B, F.tot[i] <= v,
           NEW E, E = [tot |-> [F.tot EXCEPT ![i] = v], fin |-> F.fin]
    PROVE  E \in Ledgers(B) /\ E.tot[i] = v /\ E.fin = F.fin /\ Grows(F, E, i)
<1>1. F.tot \in [Seq32 -> 0 .. B] /\ F.fin \in SUBSET Seq32 /\ v \in 0 .. B
  BY DEF Ledgers
<1>2. E.tot \in [Seq32 -> 0 .. B] /\ E.fin = F.fin
  BY <1>1
<1>3. E \in Ledgers(B)
  BY <1>1, <1>2 DEF Ledgers
<1>4. E.tot[i] = v /\ \A j \in Seq32 : j # i => E.tot[j] = F.tot[j]
  BY <1>1
<1>5. ASSUME NEW j \in Seq32
      PROVE  F.tot[j] <= E.tot[j]
  BY <1>4, LedgerType
<1> QED
  BY <1>2, <1>3, <1>4, <1>5 DEF Grows

(* The FIN comes after the last byte. *)
LEMMA OutputFinFlow ==
    ASSUME NEW x, Result(x), NEW F, NEW D, NEW B, Flow(x, F, D, B), Sends(x.t),
           NEW y, y = OutputFin(x)
    PROVE  Flows(x, y, F, D, B)
<1>1. PICK t : t = x.t
  OBVIOUS
<1>2. DataOK(t) /\ Aligned(t, F, D, B) /\ World(F, D, B) /\ Sends(t)
  BY <1>1 DEF Result, Flow
<1>3. SendPos(t) /\ Booked(t, F, D, B)
  BY <1>2 DEF Aligned, Sends, Owns, Opened, Ending
<1>4. /\ B \in Nat /\ B + 2 < SeqMod /\ D \in SUBSET Seq32 /\ F \in Ledgers(B)
      /\ t.una \in Seq32 /\ t.nxt \in Seq32 /\ t.iss \in Seq32
  BY <1>2 DEF World, DataOK
<1>5. CASE /\ "FINQ" \in t.flags /\ "FINSENT" \notin t.flags
           /\ t.nxt = Plus(t.una, t.sndq) /\ x.room
  <2>1. DataPhase(t) /\ t.state \in Ending /\ Sent(t) \in Nat
    BY <1>2, <1>3, <1>5, FlightSize DEF SendPos, Sends
  <2>2. PICK q \in Nat, f \in Nat : q = t.sndq /\ f = t.sfree /\ q + 1 < SeqMod
    BY <1>2, QueueSize
  <2>3. Sent(t) = q
    <3>1. q \in Seq32
      BY <2>2, HalfSpace DEF Seq32
    <3> QED
      BY <1>4, <1>5, <2>2, <3>1, PlusMinus DEF Sent
  <2>4. PICK u : u = [t EXCEPT !.nxt = Plus(t.nxt, 1), !.flags = t.flags \cup {"FINSENT"}]
    OBVIOUS
  <2>5. PICK g : g = Segment(t, {"FIN", "ACK"}, t.nxt, 0, 0)
    OBVIOUS
  <2>6. y.t = u /\ y.out = x.out \cup {g}
    <3>1. PICK e : e = Emit(x, {"FIN", "ACK"})
      OBVIOUS
    <3>2. e.t = t /\ e.out = x.out \cup {g} /\ {"t", "out"} \subseteq DOMAIN e
      <4>1. "SYN" \notin {"FIN", "ACK"}
        OBVIOUS
      <4>2. e = Send(x, g)
        BY <1>1, <2>5, <3>1, <4>1 DEF Emit, EmitSeq
      <4> QED
        BY <1>1, <1>5, <4>2 DEF Send, Result, ResultFields
    <3>3. y = [e EXCEPT !.t.nxt = Plus(@, 1), !.t.flags = @ \cup {"FINSENT"}]
      BY <1>1, <1>5, <3>1 DEF OutputFin
    <3> QED
      BY <1>2, <2>4, <3>2, <3>3 DEF DataOK, TcbFields
  <2>7. /\ u.iss = t.iss /\ u.una = t.una /\ u.nxt = Plus(t.nxt, 1) /\ u.sndq = t.sndq
        /\ u.sfree = t.sfree /\ u.psend = t.psend /\ u.state = t.state
        /\ u.flags = t.flags \cup {"FINSENT"}
        /\ u.irs = t.irs /\ u.rnxt = t.rnxt /\ u.rxq = t.rxq /\ u.rcvd = t.rcvd
        /\ u.rexmit = t.rexmit /\ u.persist = t.persist
    BY <1>2, <2>4 DEF DataOK, TcbFields
  <2>8. SameIn(t, u)
    BY <2>7 DEF SameIn
  <2>9. PICK E : E = [tot |-> F.tot, fin |-> F.fin \cup {t.iss}]
    OBVIOUS
  <2>10. E \in Ledgers(B) /\ E.tot = F.tot /\ t.iss \in E.fin /\ Grows(F, E, t.iss)
    BY <1>4, <2>9, GrowsFin
  <2>11. Sent(u) = q + 1
    <3>1. Minus(t.nxt, t.una) + 1 < SeqMod
      BY <2>2, <2>3 DEF Sent
    <3> QED
      BY <1>4, <2>3, <2>7, <3>1, MinusGrows DEF Sent
  <2>12. DataPhase(u)
    BY <1>5, <2>1, <2>2, <2>7, <2>11 DEF DataPhase
  <2>13. SendPos(u)
    BY <1>3, <2>1, <2>7, <2>12 DEF SendPos, Owns, Opening, Opened, Ending
  <2>14. Booked(u, E, D, B)
    BY <1>3, <2>7, <2>10 DEF Booked, Held
  <2>15. Carries(g, E, D)
    <3>1. /\ g.fl = {"FIN", "ACK"} /\ g.seq = t.nxt /\ g.len = 0 /\ g.iss = t.iss
      BY <2>5 DEF Segment
    <3>2. t.iss \in D /\ F.tot[t.iss] = f + q /\ f + q <= B
      BY <1>2, <1>3, <1>4, <2>2, QueueSize DEF Booked, Held
    <3>3. PICK m \in Nat : m = 1 + f
      OBVIOUS
    <3>4. m + q < SeqMod /\ m + q = 1 + (f + q)
      BY <1>4, <3>2, <3>3, HalfSpace
    <3>5. t.nxt = Plus(t.iss, 1 + F.tot[t.iss])
      BY <1>4, <1>5, <2>1, <2>2, <3>2, <3>3, <3>4, PlusPlus DEF DataPhase
    <3> QED
      BY <2>10, <3>1, <3>2, <3>5 DEF Carries
  <2> QED
    BY <1>1, <2>6, <2>7, <2>8, <2>10, <2>13, <2>14, <2>15, FlowGrown
<1>6. CASE ~(/\ "FINQ" \in t.flags /\ "FINSENT" \notin t.flags
             /\ t.nxt = Plus(t.una, t.sndq) /\ x.room)
  <2>1. y = x
    BY <1>1, <1>6 DEF OutputFin
  <2> QED
    BY <2>1, FlowsNow
<1> QED
  BY <1>5, <1>6

(* tcp_output. *)
LEMMA OutputFlow ==
    ASSUME NEW x, Result(x), NEW F, NEW D, NEW B, Flow(x, F, D, B), Sends(x.t),
           NEW y, y = Output(x)
    PROVE  Flows(x, y, F, D, B)
<1>1. PICK a : a = OutputData(x)
  OBVIOUS
<1>2. PICK b : b = OutputFin(a)
  OBVIOUS
<1>3. y = TimersOf(b)
  BY <1>1, <1>2 DEF Output
<1>4. /\ Result(a)
      /\ a.t = [x.t EXCEPT !.nxt = Plus(@, IF x.room THEN Sendable(x.t) ELSE 0)]
  BY <1>1, OutputDataKeeps
<1>5. /\ Result(b)
      /\ b.t = a.t \/ b.t = [a.t EXCEPT !.nxt = Plus(@, 1), !.flags = @ \cup {"FINSENT"}]
  BY <1>2, <1>4, OutputFinKeeps
<1>6. a.t.state = x.t.state /\ a.t.iss = x.t.iss /\ b.t.state = x.t.state /\ b.t.iss = x.t.iss
  <2>1. DataOK(x.t) /\ DataOK(a.t)
    BY <1>4 DEF Result
  <2>2. a.t.state = x.t.state /\ a.t.iss = x.t.iss
    BY <1>4, <2>1 DEF DataOK, TcbFields
  <2>3. b.t.state = a.t.state /\ b.t.iss = a.t.iss
    BY <1>5, <2>1 DEF DataOK, TcbFields
  <2> QED
    BY <2>2, <2>3
<1>7. Flow(a, F, D, B)
  BY <1>1, OutputDataFlow
<1>8. Flows(a, b, F, D, B)
  BY <1>2, <1>4, <1>6, <1>7, OutputFinFlow DEF Sends
<1>9. PICK E : Grows(F, E, x.t.iss) /\ Flow(b, E, D, B)
  BY <1>6, <1>8 DEF Flows
<1>10. Owns(b.t)
  BY <1>6 DEF Sends, Owns, Opened, Ending
<1>11. Flow(y, E, D, B)
  BY <1>3, <1>5, <1>9, <1>10, TimersOfFlow
<1> QED
  BY <1>9, <1>11 DEF Flows

(* SEND, and a SEND that goes on: bytes enter the send queue. *)
LEMMA OfferFlow ==
    ASSUME NEW x, Result(x), NEW F, NEW D, NEW B, Flow(x, F, D, B), x.t.state \in Opened,
           NEW k \in Nat, NEW p \in Nat, x.t.sndq + k <= SndBuf, Held(x.t) + k + p <= B,
           NEW z, z = Offer(x, k, p)
    PROVE  Flows(x, z, F, D, B) /\ z.t.state = x.t.state /\ z.t.iss = x.t.iss
<1>1. PICK t : t = x.t
  OBVIOUS
<1>2. DataOK(t) /\ Aligned(t, F, D, B) /\ World(F, D, B) /\ t.state \in Opened
  BY <1>1 DEF Result, Flow
<1>3. SendPos(t) /\ Booked(t, F, D, B)
  BY <1>2 DEF Aligned, Owns, Opened
<1>4. B \in Nat /\ D \in SUBSET Seq32 /\ F \in Ledgers(B) /\ t.iss \in Seq32
  BY <1>2 DEF World, DataOK
<1>5. PICK q \in Nat, f \in Nat : q = t.sndq /\ f = t.sfree
  BY <1>2, QueueSize
<1>6. PICK u : u = [t EXCEPT !.psend = p, !.sndq = q + k]
  OBVIOUS
<1>7. z.t = u /\ z.out = x.out
  BY <1>1, <1>2, <1>5, <1>6 DEF Offer, Result, ResultFields, DataOK, TcbFields
<1>8. /\ u.iss = t.iss /\ u.una = t.una /\ u.nxt = t.nxt /\ u.sndq = q + k
      /\ u.sfree = f /\ u.psend = p /\ u.state = t.state /\ u.flags = t.flags
      /\ u.irs = t.irs /\ u.rnxt = t.rnxt /\ u.rxq = t.rxq /\ u.rcvd = t.rcvd
      /\ u.rexmit = t.rexmit /\ u.persist = t.persist
  BY <1>2, <1>5, <1>6 DEF DataOK, TcbFields
<1>9. DataPhase(t) /\ "FINQ" \notin t.flags /\ "FINSENT" \notin t.flags /\ Sent(t) \in Nat
  BY <1>2, <1>3, NextIs DEF SendPos, DataPhase
<1>10. DataPhase(u)
  <2>1. Sent(u) = Sent(t) /\ Sent(t) <= q
    BY <1>5, <1>8, <1>9 DEF Sent, DataPhase
  <2>2. Sent(u) <= q + k
    BY <1>9, <2>1
  <2> QED
    BY <1>5, <1>8, <1>9, <2>2 DEF DataPhase
<1>11. SendPos(u)
  BY <1>2, <1>8, <1>9, <1>10 DEF SendPos, Owns, Opening, Opened, Ending
<1>12. SameIn(t, u)
  BY <1>8 DEF SameIn
<1>13. PICK v \in Nat : v = f + (q + k)
  OBVIOUS
<1>14. Held(u) = v /\ v + p <= B /\ F.tot[t.iss] = f + q /\ t.iss \notin F.fin /\ t.iss \in D
  <2>1. f + q + k + p <= B
    BY <1>1, <1>5 DEF Held
  <2>2. v + p <= B
    BY <1>4, <1>13, <2>1
  <2> QED
    BY <1>3, <1>5, <1>8, <1>9, <1>13, <2>2 DEF Booked, Held
<1>15. PICK E : E = [tot |-> [F.tot EXCEPT ![t.iss] = v], fin |-> F.fin]
  OBVIOUS
<1>16. E \in Ledgers(B) /\ E.tot[t.iss] = v /\ E.fin = F.fin /\ Grows(F, E, t.iss)
  <2>1. v <= B /\ f + q <= v
    BY <1>4, <1>13, <1>14
  <2> QED
    BY <1>4, <1>14, <1>15, <2>1, GrowsTot
<1>17. Booked(u, E, D, B)
  BY <1>8, <1>9, <1>14, <1>16 DEF Booked
<1> QED
  BY <1>1, <1>7, <1>8, <1>11, <1>12, <1>16, <1>17, FlowGrown

(* tcp_send_resume. *)
LEMMA SendResumeFlow ==
    ASSUME NEW x, Result(x), NEW F, NEW D, NEW B, Flow(x, F, D, B),
           NEW y, y = SendResume(x)
    PROVE  Flows(x, y, F, D, B)
<1>1. DataOK(x.t) /\ Aligned(x.t, F, D, B) /\ World(F, D, B)
  BY DEF Result, Flow
<1>2. PICK p \in Nat : p = x.t.psend
  BY <1>1 DEF DataOK
<1>3. PICK k : k = IF x.room THEN Min({p, Ahead(SndBuf, x.t.sndq)}) ELSE 0
  OBVIOUS
<1>4. k \in Nat /\ k <= p /\ x.t.sndq + k <= SndBuf
  <2>1. CASE x.room
    BY <1>1, <1>2, <1>3, <2>1, SpaceTaken
  <2>2. CASE ~x.room
    BY <1>1, <1>2, <1>3, <2>2, HalfSpace DEF DataOK
  <2> QED
    BY <2>1, <2>2
<1>5. CASE p = 0
  <2>1. y = x
    BY <1>2, <1>5 DEF SendResume
  <2> QED
    BY <2>1, FlowsNow
<1>6. CASE p # 0
  <2>1. PICK z : z = Offer(x, k, p - k)
    OBVIOUS
  <2>2. p - k \in Nat
    BY <1>4
  <2>3. y = Output(z)
    <3>1. z = [x EXCEPT !.t.psend = @ - k, !.t.sndq = @ + k]
      BY <1>1, <1>2, <2>1 DEF Offer
    <3> QED
      BY <1>2, <1>3, <1>6, <3>1 DEF SendResume
  <2>4. Result(z)
    BY <1>4, <2>1, <2>2, OfferKeeps
  <2>5. x.t.state \in Opened /\ Booked(x.t, F, D, B)
    BY <1>1, <1>2, <1>6 DEF Aligned, SendPos, Owns, Opened
  <2>6. Held(x.t) + k + (p - k) <= B
    <3>1. PICK h \in Nat : h = Held(x.t)
      BY <1>1, QueueSize DEF Held
    <3>2. h + p <= B /\ B \in Nat
      BY <1>1, <1>2, <2>5, <3>1 DEF Booked, World
    <3> QED
      BY <1>4, <3>1, <3>2
  <2>7. Flows(x, z, F, D, B) /\ z.t.state = x.t.state /\ z.t.iss = x.t.iss
    BY <1>4, <2>1, <2>2, <2>5, <2>6, OfferFlow
  <2>8. \A E : Flow(z, E, D, B) => Flows(z, y, E, D, B)
    BY <2>3, <2>4, <2>5, <2>7, OutputFlow DEF Sends
  <2> QED
    BY <2>7, <2>8, FlowsThen
<1> QED
  BY <1>5, <1>6

(* SEND. *)
LEMMA SendCallFlow ==
    ASSUME NEW x, Result(x), NEW F, NEW D, NEW B, Flow(x, F, D, B), x.t.state \in Opened,
           NEW m \in Nat, Held(x.t) + m <= B, NEW parks \in BOOLEAN,
           NEW y, y = SendCall(x, m, parks)
    PROVE  Flows(x, y, F, D, B)
<1>1. DataOK(x.t) /\ World(F, D, B) /\ x.room \in BOOLEAN
  BY DEF Result, Flow
<1>2. PICK k : k = IF x.room THEN Min({m, Ahead(SndBuf, x.t.sndq)}) ELSE 0
  OBVIOUS
<1>3. k \in Nat /\ k <= m /\ x.t.sndq + k <= SndBuf
  <2>1. CASE x.room
    BY <1>1, <1>2, <2>1, SpaceTaken
  <2>2. CASE ~x.room
    BY <1>1, <1>2, <2>2, HalfSpace DEF DataOK
  <2> QED
    BY <2>1, <2>2
<1>4. PICK p \in Nat : p = (IF parks THEN m - k ELSE 0) /\ k + p <= m
  <2>1. m - k \in Nat /\ k + (m - k) <= m /\ k + 0 <= m
    BY <1>3
  <2> QED
    BY <2>1
<1>5. PICK z : z = Offer(x, k, p)
  OBVIOUS
<1>6. y = Output(z)
  <2>1. z = [x EXCEPT !.t.sndq = @ + k, !.t.psend = p]
    BY <1>5 DEF Offer
  <2> QED
    BY <1>2, <1>4, <2>1 DEF SendCall
<1>7. Result(z)
  BY <1>3, <1>5, OfferKeeps
<1>8. Held(x.t) + k + p <= B
  <2>1. PICK h \in Nat : h = Held(x.t)
    BY <1>1, QueueSize DEF Held
  <2> QED
    BY <1>1, <1>3, <1>4, <2>1 DEF World
<1>9. Flows(x, z, F, D, B) /\ z.t.state = x.t.state /\ z.t.iss = x.t.iss
  BY <1>3, <1>5, <1>8, OfferFlow
<1>10. \A E : Flow(z, E, D, B) => Flows(z, y, E, D, B)
  BY <1>6, <1>7, <1>9, OutputFlow DEF Sends
<1> QED
  BY <1>9, <1>10, FlowsThen

(* CLOSE and SHUTDOWN. *)
LEMMA FinQueuedFlow ==
    ASSUME NEW x, Result(x), NEW F, NEW D, NEW B, Flow(x, F, D, B), x.t.state \in Opened,
           x.t.psend = 0, NEW flags \in SUBSET {"APPCLOSED"}, NEW y, y = FinQueued(x, flags)
    PROVE  Flows(x, y, F, D, B)
<1>1. PICK t : t = x.t
  OBVIOUS
<1>2. /\ DataOK(t) /\ Aligned(t, F, D, B) /\ World(F, D, B) /\ t.state \in Opened /\ t.psend = 0
  BY <1>1 DEF Result, Flow
<1>3. PICK next \in {"LAST_ACK", "FIN_WAIT_1"} :
         next = IF t.state = "CLOSE_WAIT" THEN "LAST_ACK" ELSE "FIN_WAIT_1"
  OBVIOUS
<1>4. PICK u : u = [t EXCEPT !.flags = t.flags \cup {"FINQ"} \cup flags, !.state = next]
  OBVIOUS
<1>5. PICK z : z = [x EXCEPT !.t = u]
  OBVIOUS
<1>6. y = Output(z)
  <2>1. z = [x EXCEPT !.t.flags = @ \cup {"FINQ"} \cup flags, !.t.state = next]
    BY <1>1, <1>2, <1>4, <1>5 DEF Result, ResultFields, DataOK, TcbFields
  <2> QED
    BY <1>1, <1>3, <2>1 DEF FinQueued
<1>7. DataOK(u)
  <2>1. next \in States
    BY <1>3 DEF States
  <2> QED
    BY <1>2, <1>4, <2>1 DEF DataOK, TcbFields
<1>8. Result(z) /\ z.t = u /\ z.out = x.out
  BY <1>5, <1>7, PutBlock DEF Result, ResultFields
<1>9. /\ u.iss = t.iss /\ u.una = t.una /\ u.nxt = t.nxt /\ u.sndq = t.sndq
      /\ u.sfree = t.sfree /\ u.psend = t.psend /\ u.state = next
      /\ u.flags = t.flags \cup {"FINQ"} \cup flags
      /\ u.irs = t.irs /\ u.rnxt = t.rnxt /\ u.rxq = t.rxq /\ u.rcvd = t.rcvd
  BY <1>2, <1>4 DEF DataOK, TcbFields
<1>10. /\ "FINSENT" \in u.flags <=> "FINSENT" \in t.flags
       /\ "RCVFIN" \in u.flags <=> "RCVFIN" \in t.flags
       /\ "FINQ" \in u.flags
  BY <1>9
<1>11. DataPhase(t) /\ "FINSENT" \notin t.flags /\ Booked(t, F, D, B)
  BY <1>2 DEF Aligned, SendPos, DataPhase, Owns, Opened
<1>12. DataPhase(u)
  BY <1>9, <1>10, <1>11 DEF DataPhase, Sent
<1>13. SendPos(u)
  <2>1. u.state \in Ending /\ u.state \notin Opening /\ u.state \notin Opened /\ Owns(u)
    BY <1>3, <1>9 DEF Ending, Opening, Opened, Owns
  <2>2. ~(u.psend > 0)
    BY <1>2, <1>9
  <2> QED
    BY <1>12, <2>1, <2>2 DEF SendPos
<1>14. RecvPos(u, F, D)
  <2>1. SameIn(t, u)
    BY <1>9, <1>10 DEF SameIn
  <2>2. t.state \notin Unsynchronized /\ u.state \notin Unsynchronized
    BY <1>2, <1>3, <1>9 DEF Opened, Unsynchronized
  <2>3. RecvPos(t, F, D)
    BY <1>2 DEF Aligned
  <2> QED
    BY <2>1, <2>2, <2>3, InCarried
<1>15. Booked(u, F, D, B)
  BY <1>9, <1>10, <1>11 DEF Booked, Held
<1>16. Flow(z, F, D, B)
  BY <1>8, <1>13, <1>14, <1>15, FlowPut DEF Aligned
<1>17. Sends(z.t)
  BY <1>3, <1>8, <1>9 DEF Sends, Ending
<1>18. PICK E : Grows(F, E, z.t.iss) /\ Flow(y, E, D, B)
  BY <1>6, <1>8, <1>16, <1>17, OutputFlow DEF Flows
<1> QED
  BY <1>1, <1>8, <1>9, <1>18 DEF Flows

-----------------------------------------------------------------------------
(* Receiving.                                                               *)
(* A read moves bytes from the queue to what was read before.               *)
LEMMA DrainedFlow ==
    ASSUME NEW t, DataOK(t), NEW want \in Nat, NEW F, NEW D, RecvPos(t, F, D),
           NEW u, u = Drained(t, want)
    PROVE  /\ RecvPos(u, F, D) /\ SameOut(t, u) /\ u.state = t.state
           /\ u.rexmit = t.rexmit /\ u.persist = t.persist
<1>1. PICK L \in Nat, r \in Nat : L = Len(t.rxq) /\ r = t.rcvd
  BY DEF DataOK
<1>2. PICK k : k = Min({want, L})
  OBVIOUS
<1>3. k \in Nat /\ k <= L
  BY <1>2, MinOf
<1>4. PICK q : q = SubSeq(t.rxq, k + 1, L)
  OBVIOUS
<1>5. Len(q) = L - k /\ \A i \in 1 .. L - k : q[i] = t.rxq[k + i]
  <2>1. t.rxq \in Seq(Byte)
    BY DEF DataOK
  <2> QED
    BY <1>1, <1>3, <1>4, <2>1
<1>6. /\ u.rxq = q /\ u.rcvd = r + k /\ u.state = t.state /\ u.flags = t.flags
      /\ u.irs = t.irs /\ u.rnxt = t.rnxt
      /\ u.rexmit = t.rexmit /\ u.persist = t.persist
  BY <1>1, <1>2, <1>4 DEF Drained, DataOK, TcbFields
<1>7. SameOut(t, u)
  BY <1>1, <1>2, <1>4 DEF Drained, DataOK, TcbFields, SameOut
<1>8. Received(u) = Received(t) /\ Eof(u) = Eof(t)
  BY <1>1, <1>3, <1>5, <1>6 DEF Received, Eof
<1>9. ASSUME NEW i \in 1 .. Len(u.rxq)
      PROVE  u.rxq[i][1] = u.irs /\ u.rxq[i][2] = u.rcvd + i
  <2>1. i \in 1 .. L - k /\ k + i \in 1 .. L /\ u.rxq[i] = t.rxq[k + i]
    BY <1>3, <1>5, <1>6, <1>9
  <2>2. t.rxq[k + i][1] = t.irs /\ t.rxq[k + i][2] = r + (k + i)
    BY <1>1, <2>1 DEF RecvPos
  <2> QED
    BY <1>3, <1>6, <2>1, <2>2
<1>10. ASSUME t.state \in Unsynchronized
       PROVE  u.rxq = <<>> /\ u.rcvd = 0
  <2>1. L = 0 /\ r = 0 /\ t.rxq = <<>>
    BY <1>1, <1>10 DEF RecvPos
  <2>2. k = 0 /\ Len(q) = 0
    BY <1>3, <1>5, <2>1
  <2>3. q = <<>>
    BY <1>4, <2>1, <2>2
  <2> QED
    BY <1>6, <2>1, <2>2, <2>3
<1> QED
  BY <1>6, <1>7, <1>8, <1>9, <1>10 DEF RecvPos

(* A place of the streams is the place of one byte. *)
LEMMA SpreadIs ==
    ASSUME NEW F, NEW D, NEW B, World(F, D, B), NEW i \in D, NEW j \in D,
           NEW m \in Nat, NEW n \in Nat, m <= B + 2, n <= B + 2, Plus(i, m) = Plus(j, n)
    PROVE  i = j /\ m = n
<1>1. B \in Nat /\ Spread(D, B)
  BY DEF World
<1>2. m \in 0 .. B + 2 /\ n \in 0 .. B + 2
  BY <1>1
<1> QED
  BY <1>1, <1>2 DEF Spread

(* Data that is next to what was received, of the peer's own stream, comes  *)
(* before its end.                                                          *)
LEMMA AcceptsNext ==
    ASSUME NEW t, DataOK(t), NEW F, NEW D, NEW B, World(F, D, B), RecvPos(t, F, D),
           NEW g, SegOK(g), Carries(g, F, D), Accepts(t, g),
           NEW below \in Nat, below = Minus(t.rnxt, g.seq),
           NEW n, n = NewBytes(t, g)
    PROVE  /\ "RCVFIN" \notin t.flags /\ g.iss = t.irs /\ t.irs \in D
           /\ g.first + below = 1 + Received(t)
           /\ n \in Nat /\ Received(t) + n <= F.tot[t.irs]
           /\ t.rnxt = Plus(t.irs, 1 + Received(t))
           /\ t.state \notin Unsynchronized
<1>1. PICK len \in Nat, first \in Int : len = g.len /\ first = g.first
  BY DEF SegOK
<1>2. n > 0 /\ below < len /\ n = Min({len - below, t.rwnd})
  <2>1. n > 0
    BY DEF Accepts
  <2> QED
    BY <1>1, <2>1 DEF NewBytes
<1>3. n \in Nat /\ n <= len - below
  <2>1. t.rwnd \in Int /\ t.rwnd >= 0 /\ len - below \in Int
    BY <1>1, HalfSpace DEF DataOK
  <2>2. n = IF len - below <= t.rwnd THEN len - below ELSE t.rwnd
    BY <1>2, <2>1, MinOf
  <2> QED
    BY <1>1, <1>2, <2>1, <2>2
<1>4. PICK i \in D : i = g.iss
  BY <1>1, <1>2 DEF Carries
<1>5. PICK T \in Nat : T = F.tot[i] /\ T <= B
  BY <1>4, LedgerType DEF World
<1>6. first >= 1 /\ first + len - 1 <= T /\ g.seq = Plus(i, first)
  BY <1>1, <1>2, <1>4, <1>5 DEF Carries
<1>7. B \in Nat /\ B + 2 < SeqMod /\ i \in Seq32 /\ SeqMod \in Nat
  BY <1>4, HalfSpace DEF World
<1>8. first \in Nat /\ first + below \in Nat /\ first + below <= B
  BY <1>1, <1>2, <1>5, <1>6, <1>7
<1>9. t.rnxt = Plus(i, first + below)
  <2>1. t.rnxt \in Seq32 /\ g.seq \in Seq32
    BY DEF DataOK, SegOK
  <2>2. below \in Seq32
    BY <2>1, MinusIs
  <2>3. t.rnxt = Plus(g.seq, below)
    BY <2>1, <2>2, PlusMinus
  <2>4. first + below < SeqMod
    BY <1>7, <1>8
  <2> QED
    BY <1>6, <1>7, <1>8, <2>3, <2>4, PlusPlus
<1>10. t.state \notin Unsynchronized
  BY DEF Accepts, Unsynchronized
<1>11. PICK R \in Nat, e \in {0, 1} : R = Received(t) /\ e = Eof(t)
  BY ReceivedType
<1>12. PICK r \in D : r = t.irs /\ t.rnxt = Plus(r, 1 + R + e) /\ R <= F.tot[r]
  BY <1>10, <1>11 DEF RecvPos
<1>13. F.tot[r] \in Nat /\ F.tot[r] <= B
  BY <1>12, LedgerType DEF World
<1>14. PICK m \in Nat, k \in Nat : m = first + below /\ k = 1 + R + e /\ m <= B + 2 /\ k <= B + 2
  BY <1>7, <1>8, <1>11, <1>12, <1>13
<1>15. i = r /\ m = k
  <2>1. Plus(i, m) = Plus(r, k)
    BY <1>9, <1>12, <1>14
  <2> QED
    BY <1>14, <2>1, SpreadIs
<1>16. e = 0
  <2>1. SUFFICES ASSUME e = 1 PROVE FALSE
    OBVIOUS
  <2>2. "RCVFIN" \in t.flags
    BY <1>11, <2>1 DEF Eof
  <2>3. R = T
    BY <1>5, <1>10, <1>11, <1>12, <1>15, <2>2 DEF RecvPos
  <2> QED
    BY <1>2, <1>6, <1>14, <1>15, <2>1, <2>3
<1>17. "RCVFIN" \notin t.flags
  BY <1>11, <1>16 DEF Eof
<1>18. R + n <= T
  BY <1>1, <1>2, <1>3, <1>6, <1>14, <1>15, <1>16
<1> QED
  BY <1>1, <1>3, <1>4, <1>5, <1>10, <1>11, <1>12, <1>14, <1>15, <1>16, <1>17, <1>18

(* What is queued for RECV. *)
LEMMA QueuedFlow ==
    ASSUME NEW t, DataOK(t), NEW F, NEW D, NEW B, World(F, D, B), RecvPos(t, F, D),
           NEW g, SegOK(g), Carries(g, F, D), Accepts(t, g), NEW u, u = Queued(t, g)
    PROVE  /\ RecvPos(u, F, D) /\ SameOut(t, u) /\ u.state = t.state
           /\ u.rexmit = t.rexmit /\ u.persist = t.persist
<1>1. PICK below \in Nat : below = Minus(t.rnxt, g.seq)
  <2>1. t.rnxt \in Seq32 /\ g.seq \in Seq32
    BY DEF DataOK, SegOK
  <2> QED
    BY <2>1, MinusIs, SeqNat
<1>2. PICK n : n = NewBytes(t, g)
  OBVIOUS
<1>3. /\ "RCVFIN" \notin t.flags /\ g.iss = t.irs /\ t.irs \in D
      /\ g.first + below = 1 + Received(t)
      /\ n \in Nat /\ Received(t) + n <= F.tot[t.irs]
      /\ t.rnxt = Plus(t.irs, 1 + Received(t))
      /\ t.state \notin Unsynchronized
  BY <1>1, <1>2, AcceptsNext
<1>3a. n \in Nat
  BY <1>3
<1>4. PICK L \in Nat, r \in Nat, R \in Nat :
         L = Len(t.rxq) /\ r = t.rcvd /\ R = Received(t) /\ R = r + L
  BY ReceivedType DEF Received
<1>5. PICK bytes : bytes = [i \in 1 .. n |-> <<t.irs, R + 1 + i - 1, R + 1>>]
  OBVIOUS
<1>6. bytes \in Seq(Byte) /\ Len(bytes) = n
  <2>1. SUFFICES ASSUME NEW i \in 1 .. n PROVE <<t.irs, R + 1 + i - 1, R + 1>> \in Byte
    BY <1>3, <1>5, TupleOf
  <2>2. R + 1 + i - 1 \in Int /\ R + 1 \in Int
    BY <1>3, <1>4
  <2>3. t.irs \in Seq32
    BY DEF DataOK
  <2> QED
    BY <2>2, <2>3 DEF Byte
<1>7. t.rxq \in Seq(Byte)
  BY DEF DataOK
<1>8. PICK q : q = t.rxq \o bytes
  OBVIOUS
<1>9. PICK w : w = t.rwnd - n
  OBVIOUS
<1>10. u = [t EXCEPT !.rxq = q, !.rnxt = Plus(t.rnxt, n), !.rwnd = w]
  <2>1. g.first + below = R + 1
    BY <1>3, <1>4
  <2>2. bytes = [i \in 1 .. n |-> <<g.iss, (g.first + below) + i - 1, g.first + below>>]
    BY <1>3, <1>5, <2>1
  <2>3. u = [t EXCEPT !.rxq = @ \o bytes, !.rnxt = Plus(@, n), !.rwnd = @ - n]
    BY <1>1, <1>2, <2>2 DEF Queued
  <2> QED
    BY <1>8, <1>9, <2>3
<1>11. /\ u.rxq = q /\ u.rcvd = r /\ u.state = t.state /\ u.flags = t.flags
       /\ u.irs = t.irs /\ u.rnxt = Plus(t.rnxt, n)
       /\ u.rexmit = t.rexmit /\ u.persist = t.persist
  BY <1>4, <1>10 DEF DataOK, TcbFields
<1>12. SameOut(t, u)
  BY <1>10 DEF DataOK, TcbFields, SameOut
<1>13. Len(q) = L + n
  BY <1>4, <1>6, <1>7, <1>8, Joined
<1>14. Received(u) = R + n /\ Eof(u) = 0
  <2>1. Received(u) = r + (L + n) /\ Eof(u) = 0
    BY <1>3, <1>11, <1>13 DEF Received, Eof
  <2> QED
    BY <1>3a, <1>4, <2>1
<1>15. u.rnxt = Plus(u.irs, 1 + Received(u) + Eof(u))
  <2>1. F.tot[t.irs] \in Nat /\ F.tot[t.irs] <= B /\ B \in Nat /\ B + 2 < SeqMod /\ t.irs \in Seq32
    BY <1>3, LedgerType DEF World
  <2>2. PICK m \in Nat : m = 1 + R
    BY <1>4
  <2>3. m + n < SeqMod
    BY <1>3, <1>4, <2>1, <2>2, HalfSpace
  <2>4. Plus(Plus(t.irs, m), n) = Plus(t.irs, m + n)
    BY <1>3, <2>1, <2>2, <2>3, PlusPlus
  <2>5. m + n = 1 + Received(u) + Eof(u)
    BY <1>3, <1>4, <1>14, <2>2
  <2>6. t.rnxt = Plus(t.irs, m)
    BY <1>3, <1>4, <2>2
  <2> QED
    BY <1>11, <2>4, <2>5, <2>6
<1>16. ASSUME NEW i \in 1 .. Len(u.rxq)
       PROVE  u.rxq[i][1] = u.irs /\ u.rxq[i][2] = u.rcvd + i
  <2>1. i \in 1 .. L + n /\ u.rxq[i] = IF i <= L THEN t.rxq[i] ELSE bytes[i - L]
    BY <1>4, <1>6, <1>7, <1>8, <1>11, <1>13, <1>16, JoinedAt
  <2>2. CASE i <= L
    BY <1>4, <1>11, <2>1, <2>2 DEF RecvPos
  <2>3. CASE ~(i <= L)
    <3>1. i - L \in 1 .. n
      <4>1. i \in 1 .. L + n
        BY <2>1
      <4> QED
        BY <1>3a, <2>3, <4>1
    <3>2. PICK k \in Nat : k = r + i
      BY <1>3, <1>4, <2>1, <2>3
    <3>3. k = R + 1 + (i - L) - 1
      <4>1. i \in Int /\ R = r + L /\ k = r + i
        BY <1>3a, <1>4, <2>1, <3>2
      <4> QED
        BY <4>1
    <3>4. u.rxq[i] = <<t.irs, k, R + 1>>
      BY <1>5, <2>1, <2>3, <3>1, <3>3
    <3> QED
      BY <1>11, <3>2, <3>4
  <2> QED
    BY <2>2, <2>3
<1> QED
  BY <1>3, <1>4, <1>11, <1>12, <1>14, <1>15, <1>16 DEF RecvPos

(* A change of the receiving side alone. *)
LEMMA RecvFlow ==
    ASSUME NEW x, Result(x), NEW F, NEW D, NEW B, Flow(x, F, D, B), Owns(x.t),
           NEW y, SameOut(x.t, y.t), SameKind(x.t.state, y.t.state),
           y.t.rexmit => x.t.rexmit, RecvPos(y.t, F, D),
           \A g \in y.out : g \in x.out \/ Carries(g, F, D)
    PROVE  Flow(y, F, D, B)
<1>1. DataOK(x.t) /\ SendPos(x.t) /\ Booked(x.t, F, D, B)
  BY DEF Result, Flow, Aligned
<1>2. SendPos(y.t)
  BY <1>1, SendPosStays
<1>3. Booked(y.t, F, D, B)
  BY <1>1, BookCarried
<1> QED
  BY <1>2, <1>3, FlowPut DEF Aligned

(* tcp_recv_data. *)
LEMMA RecvDataFlow ==
    ASSUME NEW x, NEW n, Kept(x, n), NEW F, NEW D, NEW B, Flow(x, F, D, B), Owns(x.t),
           NEW g, SegOK(g), Carries(g, F, D), NEW y, y = RecvData(x, g)
    PROVE  Flow(y, F, D, B)
<1>1. Result(x) /\ DataOK(x.t) /\ Len(x.t.rxq) + x.t.rwnd = RcvWnd
  BY DEF Kept, Result, TcbInv, RecvOK
<1>2. World(F, D, B) /\ RecvPos(x.t, F, D)
  BY DEF Flow, Aligned
<1>3. CASE ~Accepts(x.t, g)
  <2>1. PICK z : z = [x EXCEPT !.t = x.t]
    OBVIOUS
  <2>2. y = Ack(z)
    BY <1>3, <2>1 DEF RecvData
  <2>3. Result(z) /\ z.t = x.t /\ z.out = x.out
    BY <1>1, <2>1 DEF Result, ResultFields
  <2>4. Flow(z, F, D, B)
    BY <2>3 DEF Flow
  <2> QED
    BY <2>2, <2>3, <2>4, AckFlow
<1>4. CASE Accepts(x.t, g)
  <2>1. PICK q : q = Queued(x.t, g)
    OBVIOUS
  <2>2. DataOK(q) /\ Len(q.rxq) + q.rwnd = RcvWnd
    BY <1>1, <2>1, QueuedKeeps
  <2>3. /\ RecvPos(q, F, D) /\ SameOut(x.t, q) /\ q.state = x.t.state
        /\ q.rexmit = x.t.rexmit /\ q.persist = x.t.persist
    BY <1>1, <1>2, <1>4, <2>1, QueuedFlow
  <2>4. PICK want \in Nat : want = q.precv
    BY <2>2 DEF DataOK
  <2>5. PICK d : d = Drained(q, want)
    OBVIOUS
  <2>6. DataOK(d)
    BY <2>2, <2>4, <2>5, DrainedKeeps
  <2>7. /\ RecvPos(d, F, D) /\ SameOut(q, d) /\ d.state = q.state
        /\ d.rexmit = q.rexmit /\ d.persist = q.persist
    BY <2>2, <2>3, <2>4, <2>5, DrainedFlow
  <2>8. SameOut(x.t, d)
    BY <2>3, <2>7 DEF SameOut
  <2>9. PICK u : u = IF want > 0 THEN d ELSE q
    OBVIOUS
  <2>10. /\ DataOK(u) /\ RecvPos(u, F, D) /\ SameOut(x.t, u) /\ u.state = x.t.state
         /\ u.rexmit = x.t.rexmit
    BY <2>2, <2>3, <2>6, <2>7, <2>8, <2>9
  <2>11. PICK z : z = [x EXCEPT !.t = u]
    OBVIOUS
  <2>12. y = Ack(z)
    BY <1>4, <2>1, <2>4, <2>5, <2>9, <2>11 DEF RecvData
  <2>13. Result(z) /\ z.t = u
    BY <1>1, <2>10, <2>11, PutBlock
  <2>14. z.out = x.out
    BY <1>1, <2>11 DEF Result, ResultFields
  <2>15. Flow(z, F, D, B)
    BY <1>1, <2>10, <2>13, <2>14, RecvFlow DEF SameKind
  <2> QED
    BY <2>12, <2>13, <2>15, AckFlow
<1> QED
  BY <1>3, <1>4

(* RECV. *)
LEMMA RecvCallFlow ==
    ASSUME NEW x, NEW n, Kept(x, n), NEW F, NEW D, NEW B, Flow(x, F, D, B), Owns(x.t),
           NEW want \in Nat, NEW y, y = RecvCall(x, want)
    PROVE  Flow(y, F, D, B)
<1>1. Result(x) /\ DataOK(x.t) /\ Len(x.t.rxq) + x.t.rwnd = RcvWnd
  BY DEF Kept, Result, TcbInv, RecvOK
<1>2. World(F, D, B) /\ RecvPos(x.t, F, D)
  BY DEF Flow, Aligned
<1>3. CASE x.t.rxq # <<>>
  <2>1. PICK d : d = Drained(x.t, want)
    OBVIOUS
  <2>2. DataOK(d)
    BY <1>1, <2>1, DrainedKeeps
  <2>3. /\ RecvPos(d, F, D) /\ SameOut(x.t, d) /\ d.state = x.t.state
        /\ d.rexmit = x.t.rexmit
    BY <1>1, <1>2, <2>1, DrainedFlow
  <2>4. PICK z : z = [x EXCEPT !.t = d]
    OBVIOUS
  <2>5. Result(z) /\ z.t = d
    BY <1>1, <2>2, <2>4, PutBlock
  <2>6. z.out = x.out
    BY <1>1, <2>4 DEF Result, ResultFields
  <2>7. Flow(z, F, D, B)
    BY <1>1, <2>3, <2>5, <2>6, RecvFlow DEF SameKind
  <2>8. y = z \/ y = Ack(z)
    BY <1>3, <2>1, <2>4 DEF RecvCall
  <2> QED
    BY <2>5, <2>7, <2>8, AckFlow
<1>4. CASE x.t.rxq = <<>> /\ ~AtEof(x.t)
  <2>1. PICK u : u = [x.t EXCEPT !.precv = want]
    OBVIOUS
  <2>2. y.t = u /\ y.out = x.out
    BY <1>1, <1>4, <2>1 DEF RecvCall, Result, ResultFields
  <2>3. SameIn(x.t, u) /\ u.state = x.t.state /\ u.rexmit = x.t.rexmit
    BY <1>1, <2>1 DEF DataOK, TcbFields, SameIn
  <2>4. SameOut(x.t, u)
    BY <1>1, <2>1 DEF DataOK, TcbFields, SameOut
  <2> QED
    BY <1>1, <2>2, <2>3, <2>4, FlowSame DEF SameStream, SameKind
<1>5. CASE x.t.rxq = <<>> /\ AtEof(x.t)
  BY <1>5 DEF RecvCall
<1> QED
  BY <1>3, <1>4, <1>5

(* A FIN that is next ends the peer's own stream, all of which was received. *)
LEMMA FinIsNext ==
    ASSUME NEW t, DataOK(t), NEW F, NEW D, NEW B, World(F, D, B), RecvPos(t, F, D),
           t.state \notin Unsynchronized, NEW g, Carries(g, F, D),
           "FIN" \in g.fl, Plus(g.seq, g.len) = t.rnxt
    PROVE  /\ "RCVFIN" \notin t.flags /\ t.irs \in D /\ t.irs \in F.fin
           /\ Received(t) = F.tot[t.irs] /\ t.rnxt = Plus(t.irs, 1 + Received(t))
<1>1. PICK i \in D : i = g.iss
  BY DEF Carries
<1>2. PICK T \in Nat : T = F.tot[i] /\ T <= B
  BY <1>1, LedgerType DEF World
<1>3. g.len = 0 /\ i \in F.fin /\ g.seq = Plus(i, 1 + T)
  BY <1>1, <1>2 DEF Carries
<1>4. B \in Nat /\ B + 2 < SeqMod /\ i \in Seq32
  BY <1>1 DEF World
<1>5. PICK m \in Nat : m = 1 + T /\ m <= B + 2 /\ m + 0 < SeqMod /\ m + 0 = m
  BY <1>2, <1>4, HalfSpace
<1>6. t.rnxt = Plus(i, m)
  <2>1. Plus(Plus(i, m), 0) = Plus(i, m + 0)
    BY <1>4, <1>5, PlusPlus
  <2> QED
    BY <1>3, <1>5, <2>1
<1>7. PICK R \in Nat, e \in {0, 1} : R = Received(t) /\ e = Eof(t)
  BY ReceivedType
<1>8. PICK r \in D : r = t.irs /\ t.rnxt = Plus(r, 1 + R + e) /\ R <= F.tot[r]
  BY <1>7 DEF RecvPos
<1>9. F.tot[r] \in Nat /\ F.tot[r] <= B
  BY <1>8, LedgerType DEF World
<1>10. PICK k \in Nat : k = 1 + R + e /\ k <= B + 2
  BY <1>4, <1>7, <1>8, <1>9
<1>11. i = r /\ m = k
  <2>1. Plus(i, m) = Plus(r, k)
    BY <1>6, <1>8, <1>10
  <2> QED
    BY <1>5, <1>10, <2>1, SpreadIs
<1>12. e = 0
  <2>1. SUFFICES ASSUME e = 1 PROVE FALSE
    OBVIOUS
  <2>2. "RCVFIN" \in t.flags
    BY <1>7, <2>1 DEF Eof
  <2>3. R = T
    BY <1>2, <1>7, <1>8, <1>11, <2>2 DEF RecvPos
  <2> QED
    BY <1>5, <1>10, <1>11, <2>1, <2>3
<1>13. "RCVFIN" \notin t.flags
  BY <1>7, <1>12 DEF Eof
<1>14. R = T /\ k = 1 + R
  BY <1>5, <1>7, <1>10, <1>11, <1>12
<1> QED
  BY <1>2, <1>3, <1>7, <1>8, <1>10, <1>11, <1>13, <1>14

(* The peer's end is received. *)
LEMMA FinReceived ==
    ASSUME NEW t, DataOK(t), NEW F, NEW D, RecvPos(t, F, D), t.state \notin Unsynchronized,
           "RCVFIN" \notin t.flags, t.irs \in D, D \in SUBSET Seq32, t.irs \in F.fin,
           Received(t) = F.tot[t.irs], Received(t) + 2 < SeqMod,
           t.rnxt = Plus(t.irs, 1 + Received(t)),
           NEW u, u.rxq = t.rxq, u.rcvd = t.rcvd, u.irs = t.irs, u.state = t.state,
           u.rnxt = Plus(t.rnxt, 1), u.flags = t.flags \cup {"RCVFIN"}
    PROVE  RecvPos(u, F, D)
<1>1. PICK R \in Nat : R = Received(t)
  BY ReceivedType
<1>2. PICK m \in Nat : m = 1 + R /\ m + 1 < SeqMod
  BY <1>1, HalfSpace
<1>3. Received(u) = R /\ Eof(u) = 1
  BY <1>1 DEF Received, Eof
<1>4. m + 1 = 1 + Received(u) + Eof(u)
  BY <1>2, <1>3
<1>5. u.rnxt = Plus(u.irs, 1 + Received(u) + Eof(u))
  <2>1. t.irs \in Seq32 /\ t.rnxt = Plus(t.irs, m)
    BY <1>1, <1>2
  <2>2. Plus(Plus(t.irs, m), 1) = Plus(t.irs, m + 1)
    BY <1>2, <2>1, PlusPlus
  <2> QED
    BY <1>4, <2>1, <2>2
<1> QED
  BY <1>1, <1>3, <1>5 DEF RecvPos

(* Where it leads leaves the streams as they are. *)
LEMMA FinLeadsFlow ==
    ASSUME NEW t, DataOK(t), t.state \in Opened \cup Ending, NEW u, u = FinLeads(t)
    PROVE  SameStream(t, u) /\ SameKind(t.state, u.state) /\ (u.rexmit => t.rexmit)
<1>1. CASE t.state = "FIN_WAIT_2"
  <2>1. u = EnterTimeWait(t)
    BY <1>1 DEF FinLeads
  <2>2. u.state = "TIME_WAIT" /\ ~u.rexmit /\ SameIn(t, u)
    BY <2>1 DEF EnterTimeWait, DataOK, TcbFields, SameIn
  <2>3. SameOut(t, u)
    BY <2>1 DEF EnterTimeWait, DataOK, TcbFields, SameOut
  <2> QED
    BY <1>1, <2>2, <2>3 DEF SameStream, SameKind, Ending
<1>2. CASE t.state \in {"ESTABLISHED", "FIN_WAIT_1"}
  <2>1. PICK s \in {"CLOSE_WAIT", "CLOSING"} :
            s = IF t.state = "ESTABLISHED" THEN "CLOSE_WAIT" ELSE "CLOSING"
    OBVIOUS
  <2>2. u = [t EXCEPT !.state = s]
    BY <1>2, <2>1 DEF FinLeads
  <2>3. u.state = s /\ u.rexmit = t.rexmit /\ SameIn(t, u)
    BY <2>2 DEF DataOK, TcbFields, SameIn
  <2>4. SameOut(t, u)
    BY <2>2 DEF DataOK, TcbFields, SameOut
  <2> QED
    BY <1>2, <2>1, <2>3, <2>4 DEF SameStream, SameKind, Opened, Ending
<1>3. CASE t.state \in {"CLOSE_WAIT", "CLOSING", "LAST_ACK", "TIME_WAIT"}
  <2>1. u = t
    BY <1>3 DEF FinLeads
  <2> QED
    BY <2>1 DEF SameStream, SameIn, SameOut, SameKind
<1> QED
  BY <1>1, <1>2, <1>3 DEF Opened, Ending

(* tcp_process_fin. *)
LEMMA ProcessFinFlow ==
    ASSUME NEW x, Result(x), x.t.state \in Opened \cup Ending,
           NEW F, NEW D, NEW B, Flow(x, F, D, B),
           NEW g, Carries(g, F, D), "FIN" \in g.fl, NEW y, y = ProcessFin(x, g)
    PROVE  Flow(y, F, D, B)
<1>1. CASE Plus(g.seq, g.len) # x.t.rnxt
  BY <1>1 DEF ProcessFin
<1>2. CASE Plus(g.seq, g.len) = x.t.rnxt
  <2>1. PICK t : t = x.t
    OBVIOUS
  <2>2. /\ DataOK(t) /\ World(F, D, B) /\ RecvPos(t, F, D)
        /\ t.state \notin Unsynchronized /\ Owns(t)
    BY <2>1 DEF Result, Flow, Aligned, Opened, Ending, Unsynchronized, Owns
  <2>3. /\ "RCVFIN" \notin t.flags /\ t.irs \in D /\ t.irs \in F.fin
        /\ Received(t) = F.tot[t.irs] /\ t.rnxt = Plus(t.irs, 1 + Received(t))
    BY <1>2, <2>1, <2>2, FinIsNext
  <2>4. PICK p \in Seq32 : p = Plus(t.rnxt, 1)
    BY <2>2, PlusOne DEF DataOK
  <2>5. PICK v \in Nat : v = IF t.rxq = <<>> THEN 0 ELSE t.precv
    BY <2>2 DEF DataOK
  <2>6. PICK u : u = [t EXCEPT !.rnxt = p, !.flags = @ \cup {"RCVFIN"}, !.precv = v]
    OBVIOUS
  <2>7. PICK z : z = [x EXCEPT !.t = u]
    OBVIOUS
  <2>8. z = [x EXCEPT !.t.rnxt = Plus(@, 1), !.t.flags = @ \cup {"RCVFIN"},
                      !.t.precv = IF x.t.rxq = <<>> THEN 0 ELSE @]
    BY <2>1, <2>2, <2>4, <2>5, <2>6, <2>7 DEF Result, ResultFields, DataOK, TcbFields
  <2>9. DataOK(u)
    BY <2>2, <2>4, <2>5, <2>6 DEF DataOK, TcbFields
  <2>10. /\ u.flags = t.flags \cup {"RCVFIN"} /\ u.rxq = t.rxq /\ u.rcvd = t.rcvd
         /\ u.irs = t.irs /\ u.state = t.state /\ u.rnxt = Plus(t.rnxt, 1)
         /\ u.rexmit = t.rexmit
    BY <2>2, <2>4, <2>6 DEF DataOK, TcbFields
  <2>11. SameOut(t, u)
    <3>1. /\ u.iss = t.iss /\ u.una = t.una /\ u.nxt = t.nxt
          /\ u.sndq = t.sndq /\ u.sfree = t.sfree /\ u.psend = t.psend
      BY <2>2, <2>6 DEF DataOK, TcbFields
    <3> QED
      BY <2>10, <3>1 DEF SameOut
  <2>12. RecvPos(u, F, D)
    <3>1. D \in SUBSET Seq32 /\ Received(t) + 2 < SeqMod
      <4>1. B \in Nat /\ B + 2 < SeqMod /\ D \in SUBSET Seq32
        BY <2>2 DEF World
      <4>2. PICK T \in Nat : T = F.tot[t.irs] /\ T <= B
        BY <2>2, <2>3, LedgerType DEF World
      <4> QED
        BY <2>3, <4>1, <4>2, HalfSpace
    <3> QED
      BY <2>2, <2>3, <2>10, <3>1, FinReceived
  <2>13. Result(z) /\ z.t = u
    BY <2>7, <2>9, PutBlock
  <2>14. z.out = x.out
    BY <2>7 DEF Result, ResultFields
  <2>15. Flow(z, F, D, B)
    <3>1. u.rexmit => t.rexmit
      BY <2>10
    <3> QED
      BY <2>1, <2>2, <2>10, <2>11, <2>12, <2>13, <2>14, <3>1, RecvFlow DEF SameKind
  <2>16. PICK a : a = Ack(z)
    OBVIOUS
  <2>17. Flow(a, F, D, B) /\ a.t = u
    BY <2>13, <2>15, <2>16, AckFlow
  <2>18. Result(a)
    BY <2>13, <2>16, AckKeeps
  <2>19. PICK w : w = FinLeads(u)
    OBVIOUS
  <2>20. y = [a EXCEPT !.t = w]
    BY <1>2, <2>1, <2>8, <2>16, <2>17, <2>19 DEF ProcessFin, FinLeads
  <2>21. SameStream(u, w) /\ SameKind(u.state, w.state) /\ (w.rexmit => u.rexmit)
    BY <2>1, <2>9, <2>10, <2>19, FinLeadsFlow
  <2>22. y.t = w /\ y.out = a.out
    BY <2>18, <2>20 DEF Result, ResultFields
  <2>23. Owns(a.t)
    BY <2>2, <2>10, <2>17 DEF Owns
  <2> QED
    BY <2>17, <2>18, <2>21, <2>22, <2>23, FlowSame
<1> QED
  BY <1>1, <1>2

-----------------------------------------------------------------------------
(* The handshake.                                                           *)
(* An acknowledgment of the SYN is the number after it.                     *)
LEMMA SynTaken ==
    ASSUME NEW t, DataOK(t), SynPhase(t), NEW ack \in Seq32, SeqGT(ack, t.una), ~SeqGT(ack, t.nxt)
    PROVE  ack = Plus(t.iss, 1) /\ Minus(t.nxt, ack) = 0
<1>1. t.una \in Seq32 /\ t.nxt \in Seq32 /\ t.una = t.iss
  BY DEF DataOK, SynPhase
<1>2. Minus(t.nxt, t.una) = 1
  BY DEF SynPhase, Sent
<1>3. /\ Minus(ack, t.una) \in Nat /\ Minus(ack, t.una) >= 1
      /\ Minus(ack, t.una) <= Minus(t.nxt, t.una)
      /\ Minus(t.nxt, ack) = Minus(t.nxt, t.una) - Minus(ack, t.una)
  <2>1. Minus(t.nxt, t.una) <= SeqMod \div 2
    BY <1>2, HalfSpace
  <2> QED
    BY <1>1, <2>1, AckTakes
<1>4. Minus(ack, t.una) = 1 /\ Minus(t.nxt, ack) = 0
  BY <1>2, <1>3
<1>5. 1 \in Seq32
  BY HalfSpace DEF Seq32
<1> QED
  BY <1>1, <1>4, <1>5, PlusMinus

(* A block whose SYN was acknowledged has its first byte before it. *)
LEMMA HandshakeDone ==
    ASSUME NEW t, DataOK(t), NEW F, NEW D, NEW B, t.state \in Opening, SendPos(t),
           Booked(t, F, D, B), NEW u, u.state = "ESTABLISHED", u.una = Plus(t.iss, 1),
           Minus(t.nxt, u.una) = 0, u.nxt = t.nxt, u.iss = t.iss,
           u.sndq = t.sndq, u.sfree = t.sfree, u.psend = t.psend, u.flags = t.flags,
           RecvPos(u, F, D)
    PROVE  Aligned(u, F, D, B)
<1>1. /\ t.sfree = 0 /\ t.sndq = 0 /\ "FINQ" \notin t.flags /\ "FINSENT" \notin t.flags
  BY DEF SendPos, SynPhase
<1>2. ~(t.psend > 0)
  BY DEF SendPos, Opening, Opened
<1>3. Sent(u) = 0
  BY DEF Sent
<1>4. DataPhase(u)
  BY <1>1, <1>3 DEF DataPhase
<1>5. SendPos(u)
  BY <1>1, <1>2, <1>4 DEF SendPos, Opening, Opened, Ending, Owns
<1>6. Booked(u, F, D, B)
  BY DEF Booked, Held
<1> QED
  BY <1>5, <1>6 DEF Aligned

(* A window update leaves the streams alone. *)
LEMMA UpdateWindowSame ==
    ASSUME NEW t, DataOK(t), NEW g, NEW u, u = UpdateWindow(t, g)
    PROVE  SameStream(t, u) /\ u.state = t.state /\ u.rexmit = t.rexmit /\ u.persist = t.persist
           /\ u.flags = t.flags
<1>1. CASE u = t
  BY <1>1 DEF SameStream, SameIn, SameOut
<1>2. CASE u = [t EXCEPT !.wnd = g.wnd, !.wl1 = g.seq, !.wl2 = g.ack]
  <2>1. /\ SameIn(t, u) /\ u.state = t.state /\ u.rexmit = t.rexmit /\ u.persist = t.persist
        /\ u.flags = t.flags
    BY <1>2 DEF DataOK, TcbFields, SameIn
  <2>2. SameOut(t, u)
    BY <1>2 DEF DataOK, TcbFields, SameOut
  <2> QED
    BY <2>1, <2>2 DEF SameStream
<1> QED
  BY <1>1, <1>2 DEF UpdateWindow

(* So does tcp_enter_established. *)
LEMMA EnterEstablishedSame ==
    ASSUME NEW x, Result(x), NEW y, y = EnterEstablished(x)
    PROVE  SameStream(x.t, y.t) /\ y.t.state = "ESTABLISHED" /\ y.t.flags = x.t.flags
           /\ y.out = x.out
<1>1. DataOK(x.t)
  BY DEF Result
<1>2. PICK u : u = [x.t EXCEPT !.state = "ESTABLISHED", !.backoff = 0, !.pconn = FALSE]
  OBVIOUS
<1>3. y.t = u /\ y.out = x.out
  BY <1>1, <1>2 DEF EnterEstablished, Result, ResultFields
<1>4. SameIn(x.t, u) /\ u.state = "ESTABLISHED" /\ u.flags = x.t.flags
  BY <1>1, <1>2 DEF DataOK, TcbFields, SameIn
<1>5. SameOut(x.t, u)
  BY <1>1, <1>2 DEF DataOK, TcbFields, SameOut
<1> QED
  BY <1>3, <1>4, <1>5 DEF SameStream

(* The SYN of a child is acknowledged. *)
LEMMA AckOfSynFlow ==
    ASSUME NEW x, Result(x), x.t.state = "SYN_RCVD", NEW F, NEW D, NEW B, Flow(x, F, D, B),
           NEW g, SegOK(g), NEW y, y = AckOfSyn(x, g)
    PROVE  Flow(y, F, D, B)
<1>1. PICK t : t = x.t
  OBVIOUS
<1>2. /\ DataOK(t) /\ t.state \in Opening /\ SendPos(t) /\ Booked(t, F, D, B)
      /\ RecvPos(t, F, D) /\ World(F, D, B) /\ SynPhase(t)
  BY <1>1 DEF Result, Flow, Aligned, Opening, Owns, SendPos
<1>3. CASE SeqLEQ(g.ack, t.una) \/ SeqGT(g.ack, t.nxt)
  <2>1. PICK z : z = Send(x, RstFor(g))
    OBVIOUS
  <2>2. Flow(z, F, D, B) /\ z.t = t
    BY <1>1, <2>1, RstFlow
  <2>3. Result(z)
    BY <2>1, SendKeeps, RstOK
  <2>4. y = [z EXCEPT !.go = FALSE]
    BY <1>1, <1>3, <2>1 DEF AckOfSyn
  <2>5. y.t = z.t /\ y.out = z.out
    BY <2>3, <2>4 DEF Result, ResultFields
  <2> QED
    BY <2>2, <2>5 DEF Flow
<1>4. CASE ~(SeqLEQ(g.ack, t.una) \/ SeqGT(g.ack, t.nxt))
  <2>1. g.ack \in Seq32 /\ SeqGT(g.ack, t.una) /\ ~SeqGT(g.ack, t.nxt)
    BY <1>4 DEF SegOK, SeqLEQ
  <2>2. g.ack = Plus(t.iss, 1) /\ Minus(t.nxt, g.ack) = 0
    BY <1>2, <2>1, SynTaken
  <2>3. PICK v : v = [t EXCEPT !.una = g.ack]
    OBVIOUS
  <2>4. DataOK(v)
    BY <1>2, <2>1, <2>3 DEF DataOK, TcbFields
  <2>5. /\ v.una = g.ack /\ v.nxt = t.nxt /\ v.iss = t.iss /\ v.sndq = t.sndq
        /\ v.sfree = t.sfree /\ v.psend = t.psend /\ v.flags = t.flags /\ v.state = t.state
    BY <1>2, <2>3 DEF DataOK, TcbFields
  <2>6. SameIn(t, v)
    BY <1>2, <2>3 DEF DataOK, TcbFields, SameIn
  <2>7. PICK u : u = UpdateWindow(v, g)
    OBVIOUS
  <2>8. DataOK(u) /\ SameStream(v, u) /\ u.flags = v.flags
    BY <2>4, <2>7, UpdateWindowKeeps, UpdateWindowSame
  <2>9. PICK a : a = [x EXCEPT !.t = u]
    OBVIOUS
  <2>10. Result(a) /\ a.t = u
    BY <2>8, <2>9, PutBlock
  <2>11. a.out = x.out
    BY <2>9 DEF Result, ResultFields
  <2>12. PICK e : e = EnterEstablished(a)
    OBVIOUS
  <2>13. SameStream(u, e.t) /\ e.t.state = "ESTABLISHED" /\ e.t.flags = u.flags /\ e.out = x.out
    BY <2>10, <2>11, <2>12, EnterEstablishedSame
  <2>14. Result(e)
    BY <2>10, <2>12, EnterEstablishedKeeps
  <2>15. y = TimersOf(e)
    BY <1>1, <1>4, <2>3, <2>7, <2>9, <2>12 DEF AckOfSyn
  <2>16. RecvPos(e.t, F, D)
    <3>1. SameIn(t, e.t)
      BY <2>6, <2>8, <2>13 DEF SameStream, SameIn
    <3>2. t.state \notin Unsynchronized /\ e.t.state \notin Unsynchronized
      BY <1>1, <2>13 DEF Unsynchronized
    <3> QED
      BY <1>2, <3>1, <3>2, InCarried
  <2>17. /\ e.t.una = g.ack /\ e.t.nxt = t.nxt /\ e.t.iss = t.iss /\ e.t.sndq = t.sndq
         /\ e.t.sfree = t.sfree /\ e.t.psend = t.psend /\ e.t.flags = t.flags
    BY <2>5, <2>8, <2>13 DEF SameStream, SameOut
  <2>18. Aligned(e.t, F, D, B)
    BY <1>2, <2>2, <2>13, <2>16, <2>17, HandshakeDone
  <2>19. Flow(e, F, D, B)
    BY <2>13, <2>18, FlowPut
  <2>20. Owns(e.t)
    BY <2>13 DEF Owns
  <2> QED
    BY <2>14, <2>15, <2>19, <2>20, TimersOfFlow
<1> QED
  BY <1>3, <1>4

-----------------------------------------------------------------------------
(* Acknowledgments.                                                         *)
(* SND.NXT counts the byte of a probe.                                      *)
LEMMA ProbeFlow ==
    ASSUME NEW t, DataOK(t), Sends(t), NEW F, NEW D, NEW B, Aligned(t, F, D, B),
           NEW g, AcksProbe(t, g), NEW v, v = [t EXCEPT !.nxt = g.ack]
    PROVE  Aligned(v, F, D, B)
<1>1. SendPos(t) /\ RecvPos(t, F, D) /\ Booked(t, F, D, B)
  BY DEF Aligned, Sends, Owns, Opened, Ending
<1>2. PICK q \in Nat, s \in Nat : q = t.sndq /\ s = Sent(t)
  BY QueueSize, NextIs
<1>3. s + 1 <= q /\ g.ack = Plus(t.nxt, 1)
  BY <1>2 DEF AcksProbe, Sent
<1>4. "FINSENT" \notin t.flags /\ DataPhase(t)
  <2>1. "FINSENT" \in t.flags => s >= q
    <3>1. DataPhase(t) \/ EndPhase(t)
      BY <1>1, FlightSize
    <3> QED
      BY <1>2, <3>1 DEF DataPhase, EndPhase
  <2> QED
    BY <1>1, <1>2, <1>3, <2>1, FlightSize
<1>5. v = [t EXCEPT !.nxt = Plus(t.nxt, 1)]
  BY <1>3
<1>6. DataPhase(v)
  BY <1>2, <1>3, <1>4, <1>5, NextMovesOn
<1>7. /\ SameIn(t, v) /\ v.state = t.state /\ v.flags = t.flags /\ v.psend = t.psend
      /\ v.rexmit = t.rexmit /\ v.persist = t.persist
      /\ v.iss = t.iss /\ v.sfree = t.sfree /\ v.sndq = t.sndq
  BY DEF DataOK, TcbFields, SameIn
<1>8. RecvPos(v, F, D)
  BY <1>1, <1>7, InCarried
<1>9. Booked(v, F, D, B)
  BY <1>1, <1>7 DEF Booked, Held
<1>10. SendPos(v)
  BY <1>1, <1>6, <1>7 DEF SendPos, Sends, Owns, Opened, Ending, Opening
<1> QED
  BY <1>8, <1>9, <1>10 DEF Aligned

(* What is acknowledged moves SND.UNA over bytes, or past the FIN. *)
LEMMA TakenFlow ==
    ASSUME NEW t, DataOK(t), Sends(t), NEW F, NEW D, NEW B, World(F, D, B), Aligned(t, F, D, B),
           NEW ack \in Seq32, SeqGT(ack, t.una), ~SeqGT(ack, t.nxt),
           NEW u, SameIn(t, u), u.state = t.state, u.flags = t.flags, u.iss = t.iss,
           u.una = ack, u.nxt = t.nxt, u.psend = t.psend, ~u.rexmit,
           NEW free, free = Min({Minus(ack, t.una), t.sndq}),
           u.sndq = t.sndq - free, u.sfree = t.sfree + free
    PROVE  Aligned(u, F, D, B)
<1>1. SendPos(t) /\ RecvPos(t, F, D) /\ Booked(t, F, D, B)
  BY DEF Aligned, Sends, Owns, Opened, Ending
<1>2. PICK q \in Nat, f \in Nat, s \in Nat : q = t.sndq /\ f = t.sfree /\ s = Sent(t)
  BY QueueSize, NextIs
<1>3. t.una \in Seq32 /\ t.nxt \in Seq32 /\ t.iss \in Seq32 /\ Minus(t.nxt, t.una) <= SeqMod \div 2
  BY <1>1, FlightSize DEF DataOK, Sent
<1>4. PICK k \in Nat : k = Minus(ack, t.una) /\ k >= 1 /\ k <= s /\ Minus(t.nxt, ack) = s - k
  BY <1>2, <1>3, AckTakes DEF Sent
<1>5. Sent(u) = s - k
  BY <1>4 DEF Sent
<1>6. free = IF k <= q THEN k ELSE q
  BY <1>2, <1>4, MinOf
<1>7. DataPhase(t)
  <2>1. ~EndPhase(t)
    BY <1>2, <1>4 DEF EndPhase
  <2> QED
    BY <1>1, <2>1, FlightSize
<1>8. Held(u) = Held(t)
  <2>1. free \in Nat /\ free <= q
    BY <1>4, <1>6
  <2> QED
    BY <1>2, <2>1 DEF Held
<1>9. f + q <= B /\ B \in Nat /\ B + 2 < SeqMod
  <2>1. B \in Nat /\ B + 2 < SeqMod
    BY DEF World
  <2>2. t.psend \in Nat /\ f + q + t.psend <= B
    BY <1>1, <1>2, QueueSize DEF Booked, Held
  <2> QED
    BY <1>2, <2>1, <2>2
<1>10. ack = Plus(t.una, k)
  <2>1. k = Minus(ack, t.una)
    BY <1>4
  <2>2. t.una \in Seq32
    BY <1>3
  <2>3. k \in Seq32
    BY <2>1, <2>2, MinusIs
  <2> QED
    BY <2>1, <2>2, <2>3, PlusMinus
<1>11. k <= q + 1 /\ (k > q => /\ "FINSENT" \in t.flags /\ "FINQ" \in t.flags
                               /\ s = q + 1 /\ k = q + 1)
  BY <1>2, <1>4, <1>7 DEF DataPhase
<1>12. ack = Plus(t.iss, 1 + f + k)
  <2>1. PICK m \in Nat : m = 1 + f
    BY <1>2
  <2>2. m + k < SeqMod /\ m + k = 1 + f + k
    BY <1>2, <1>9, <1>11, <2>1, HalfSpace
  <2>3. t.una = Plus(t.iss, m)
    BY <1>2, <1>7, <2>1 DEF DataPhase
  <2>4. Plus(Plus(t.iss, m), k) = Plus(t.iss, m + k)
    BY <1>3, <2>2, PlusPlus
  <2> QED
    BY <1>10, <2>2, <2>3, <2>4
<1>12a. RecvPos(u, F, D) /\ Booked(u, F, D, B)
  <2>1. RecvPos(u, F, D)
    BY <1>1, InCarried
  <2>2. Booked(u, F, D, B)
    BY <1>1, <1>8 DEF Booked
  <2> QED
    BY <2>1, <2>2
<1>13. CASE k <= q
  <2>1. u.sfree = f + k /\ u.sndq = q - k /\ Sent(u) = s - k
    BY <1>2, <1>5, <1>6, <1>13
  <2>2. u.una = Plus(u.iss, 1 + u.sfree)
    <3>1. 1 + (f + k) = 1 + f + k
      OBVIOUS
    <3> QED
      BY <1>12, <2>1, <3>1
  <2>3. DataPhase(u)
    <3>1. "FINSENT" \notin t.flags => s <= q
      BY <1>2, <1>7 DEF DataPhase
    <3>2. "FINSENT" \in t.flags => s = q + 1 /\ "FINQ" \in t.flags
      BY <1>2, <1>7 DEF DataPhase
    <3>3. "FINSENT" \notin u.flags => Sent(u) <= u.sndq
      BY <1>4, <2>1, <3>1
    <3>4. "FINSENT" \in u.flags => Sent(u) = u.sndq + 1 /\ "FINQ" \in u.flags
      BY <1>4, <2>1, <3>2
    <3> QED
      BY <2>2, <3>3, <3>4 DEF DataPhase
  <2>4. SendPos(u)
    BY <1>1, <2>3 DEF SendPos, Sends, Owns, Opening, Opened, Ending
  <2> QED
    BY <1>12a, <2>4 DEF Aligned
<1>14. CASE k > q
  <2>1. /\ "FINSENT" \in t.flags /\ "FINQ" \in t.flags /\ s = q + 1 /\ k = q + 1
    BY <1>11, <1>14
  <2>2. u.sfree = f + q /\ u.sndq = 0 /\ Sent(u) = 0
    <3>1. free = q
      BY <1>4, <1>6, <1>14
    <3>2. u.sfree = f + q /\ u.sndq = q - q
      BY <1>2, <3>1
    <3>3. s - k = 0
      BY <1>2, <2>1
    <3> QED
      BY <1>2, <1>5, <3>2, <3>3
  <2>3. u.una = Plus(u.iss, 2 + u.sfree)
    <3>1. 1 + f + k = 2 + (f + q)
      BY <2>1
    <3> QED
      BY <1>12, <2>2, <3>1
  <2>4. EndPhase(u)
    BY <2>1, <2>2, <2>3 DEF EndPhase
  <2>5. t.state \in Ending
    BY <1>1, <2>1 DEF SendPos, Sends
  <2>6. SendPos(u)
    BY <1>1, <2>4, <2>5 DEF SendPos, Owns, Opening, Opened, Ending
  <2> QED
    BY <1>12a, <2>6 DEF Aligned
<1> QED
  BY <1>4, <1>13, <1>14

(* Acknowledged bytes leave the queue; a parked SEND goes on. *)
LEMMA ProgressFlow ==
    ASSUME NEW x, Result(x), Sends(x.t), NEW F, NEW D, NEW B, Flow(x, F, D, B),
           NEW g, SegOK(g), SeqGT(g.ack, x.t.una), ~SeqGT(g.ack, x.t.nxt),
           NEW y, y = Progress(x, g)
    PROVE  Flows(x, y, F, D, B)
<1>1. PICK t : t = x.t
  OBVIOUS
<1>2. DataOK(t) /\ Aligned(t, F, D, B) /\ World(F, D, B) /\ Sends(t) /\ g.ack \in Seq32
  BY <1>1 DEF Result, Flow, SegOK
<1>3. PICK q \in Nat, f \in Nat : q = t.sndq /\ f = t.sfree /\ q <= SndBuf
  BY <1>2, QueueSize
<1>4. PICK acked \in Nat : acked = Minus(g.ack, t.una)
  BY <1>2, MinusIs, SeqNat DEF DataOK
<1>5. PICK free : free = Min({acked, q})
  OBVIOUS
<1>6. free \in Nat /\ free <= q
  BY <1>5, MinOf
<1>7. q - free \in 0 .. SndBuf /\ f + free \in Nat
  BY <1>3, <1>6, HalfSpace
<1>8. PICK u : u = [t EXCEPT !.una = g.ack, !.backoff = 0, !.rexmit = FALSE,
                             !.sndq = q - free, !.sfree = f + free]
  OBVIOUS
<1>9. PICK z : z = [x EXCEPT !.t = u]
  OBVIOUS
<1>10. y = SendResume(z)
  <2>1. z = [x EXCEPT !.t.una = g.ack, !.t.backoff = 0, !.t.rexmit = FALSE,
                      !.t.sndq = @ - free, !.t.sfree = @ + free]
    BY <1>1, <1>2, <1>3, <1>8, <1>9 DEF Result, ResultFields, DataOK, TcbFields
  <2> QED
    BY <1>1, <1>3, <1>4, <1>5, <2>1 DEF Progress
<1>11. DataOK(u)
  BY <1>2, <1>7, <1>8 DEF DataOK, TcbFields
<1>12. SameIn(t, u) /\ u.state = t.state /\ u.flags = t.flags /\ u.iss = t.iss
  BY <1>2, <1>8 DEF DataOK, TcbFields, SameIn
<1>13. /\ u.una = g.ack /\ u.nxt = t.nxt /\ u.psend = t.psend /\ ~u.rexmit
       /\ u.sndq = t.sndq - free /\ u.sfree = t.sfree + free
  BY <1>2, <1>3, <1>8 DEF DataOK, TcbFields
<1>14. Aligned(u, F, D, B)
  <2>1. free = Min({Minus(g.ack, t.una), t.sndq})
    BY <1>3, <1>4, <1>5
  <2> QED
    BY <1>1, <1>2, <1>12, <1>13, <2>1, TakenFlow
<1>15. Result(z) /\ z.t = u
  BY <1>9, <1>11, PutBlock
<1>16. z.out = x.out
  BY <1>9 DEF Result, ResultFields
<1>17. Flow(z, F, D, B)
  BY <1>14, <1>15, <1>16, FlowPut
<1>18. PICK E : Grows(F, E, z.t.iss) /\ Flow(y, E, D, B)
  BY <1>10, <1>15, <1>17, SendResumeFlow DEF Flows
<1> QED
  BY <1>1, <1>12, <1>15, <1>18 DEF Flows

(* Where an acknowledgment leads leaves the streams as they are. *)
LEMMA AckedStateFlow ==
    ASSUME NEW x, Result(x), Owns(x.t), NEW F, NEW D, NEW B, Flow(x, F, D, B),
           NEW y, y = AckedState(x)
    PROVE  Flow(y, F, D, B)
<1>1. PICK t : t = x.t
  OBVIOUS
<1>2. DataOK(t)
  BY <1>1 DEF Result
<1>3. CASE t.state = "FIN_WAIT_1" /\ t.una = t.nxt
  <2>1. PICK u : u = [t EXCEPT !.state = "FIN_WAIT_2"]
    OBVIOUS
  <2>2. y.t = u /\ y.out = x.out
    BY <1>1, <1>3, <2>1 DEF AckedState, Result, ResultFields
  <2>3. SameIn(t, u) /\ u.state = "FIN_WAIT_2" /\ u.rexmit = t.rexmit
    BY <1>2, <2>1 DEF DataOK, TcbFields, SameIn
  <2>4. SameOut(t, u)
    BY <1>2, <2>1 DEF DataOK, TcbFields, SameOut
  <2> QED
    BY <1>1, <1>3, <2>2, <2>3, <2>4, FlowSame DEF SameStream, SameKind, Ending
<1>4. CASE t.state = "CLOSING" /\ t.una = t.nxt
  <2>1. PICK u : u = EnterTimeWait(t)
    OBVIOUS
  <2>2. y.t = u /\ y.out = x.out
    BY <1>1, <1>4, <2>1 DEF AckedState, Result, ResultFields
  <2>3. SameIn(t, u) /\ u.state = "TIME_WAIT" /\ ~u.rexmit
    BY <1>2, <2>1 DEF EnterTimeWait, DataOK, TcbFields, SameIn
  <2>4. SameOut(t, u)
    BY <1>2, <2>1 DEF EnterTimeWait, DataOK, TcbFields, SameOut
  <2> QED
    BY <1>1, <1>4, <2>2, <2>3, <2>4, FlowSame DEF SameStream, SameKind, Ending
<1>5. CASE t.state = "LAST_ACK" /\ t.una = t.nxt
  <2>1. y = Gone(x)
    BY <1>1, <1>5 DEF AckedState
  <2>2. y.t = x.t /\ y.out = x.out
    BY <2>1 DEF Gone, Result, ResultFields
  <2> QED
    BY <2>2 DEF Flow
<1>6. CASE t.state = "TIME_WAIT"
  <2>1. PICK u : u = [t EXCEPT !.msl = TRUE]
    OBVIOUS
  <2>2. y.t = u /\ y.out = x.out
    BY <1>1, <1>6, <2>1 DEF AckedState, Result, ResultFields
  <2>3. SameIn(t, u) /\ u.state = t.state /\ u.rexmit = t.rexmit
    BY <1>2, <2>1 DEF DataOK, TcbFields, SameIn
  <2>4. SameOut(t, u)
    BY <1>2, <2>1 DEF DataOK, TcbFields, SameOut
  <2> QED
    BY <1>1, <2>2, <2>3, <2>4, FlowSame DEF SameStream, SameKind
<1>7. CASE /\ ~(t.state = "FIN_WAIT_1" /\ t.una = t.nxt) /\ ~(t.state = "CLOSING" /\ t.una = t.nxt)
           /\ ~(t.state = "LAST_ACK" /\ t.una = t.nxt) /\ t.state # "TIME_WAIT"
  <2>1. y = x
    BY <1>1, <1>7 DEF AckedState
  <2> QED
    BY <2>1
<1> QED
  BY <1>3, <1>4, <1>5, <1>6, <1>7

(* tcp_process_ack past the handshake. *)
LEMMA AckOfDataFlow ==
    ASSUME NEW x, Result(x), Sends(x.t), NEW F, NEW D, NEW B, Flow(x, F, D, B),
           NEW g, SegOK(g), NEW y, y = AckOfData(x, g)
    PROVE  Flows(x, y, F, D, B)
<1>1. PICK t : t = x.t
  OBVIOUS
<1>2. DataOK(t) /\ Aligned(t, F, D, B) /\ Sends(t) /\ Owns(t)
  BY <1>1 DEF Result, Flow, Sends, Owns, Opened, Ending
<1>3. CASE SeqGT(g.ack, t.nxt) /\ ~AcksProbe(t, g)
  <2>1. PICK z : z = Ack(x)
    OBVIOUS
  <2>2. Flow(z, F, D, B) /\ Result(z)
    BY <2>1, AckFlow, AckKeeps
  <2>3. y = [z EXCEPT !.go = FALSE]
    BY <1>1, <1>3, <2>1 DEF AckOfData
  <2>4. y.t = z.t /\ y.out = z.out
    BY <2>2, <2>3 DEF Result, ResultFields
  <2>5. Flow(y, F, D, B)
    BY <2>2, <2>4 DEF Flow
  <2> QED
    BY <2>5, FlowsNow
<1>4. CASE ~(SeqGT(g.ack, t.nxt) /\ ~AcksProbe(t, g))
  <2>1. PICK m : m = IF SeqGT(g.ack, t.nxt) THEN g.ack ELSE t.nxt
    OBVIOUS
  <2>2. PICK v : v = [t EXCEPT !.nxt = m]
    OBVIOUS
  <2>3. m \in Seq32 /\ g.ack \in Seq32
    BY <1>2, <2>1 DEF DataOK, SegOK
  <2>4. /\ DataOK(v) /\ v.state = t.state /\ v.una = t.una /\ v.nxt = m /\ v.iss = t.iss
    BY <1>2, <2>2, <2>3 DEF DataOK, TcbFields
  <2>5. Aligned(v, F, D, B)
    <3>1. CASE SeqGT(g.ack, t.nxt)
      BY <1>2, <1>4, <2>1, <2>2, <3>1, ProbeFlow
    <3>2. CASE ~SeqGT(g.ack, t.nxt)
      <4>1. v = [t EXCEPT !.nxt = t.nxt]
        BY <2>1, <2>2, <3>2
      <4>2. SameIn(t, v) /\ v.state = t.state /\ v.rexmit = t.rexmit /\ v.persist = t.persist
        BY <1>2, <4>1 DEF DataOK, TcbFields, SameIn
      <4>3. SameOut(t, v)
        BY <1>2, <4>1 DEF DataOK, TcbFields, SameOut
      <4> QED
        BY <1>2, <4>2, <4>3, AlignedStays DEF SameStream, SameKind
    <3> QED
      BY <3>1, <3>2
  <2>6. PICK u : u = UpdateWindow(v, g)
    OBVIOUS
  <2>7. /\ DataOK(u) /\ SameStream(v, u) /\ u.state = v.state /\ u.rexmit = v.rexmit
        /\ u.persist = v.persist
    BY <2>4, <2>6, UpdateWindowKeeps, UpdateWindowSame
  <2>8. Aligned(u, F, D, B)
    BY <1>2, <2>4, <2>5, <2>7, AlignedStays DEF SameKind, Owns
  <2>9. PICK a : a = [x EXCEPT !.t = u]
    OBVIOUS
  <2>10. Result(a) /\ a.t = u
    BY <2>7, <2>9, PutBlock
  <2>11. a.out = x.out
    BY <2>9 DEF Result, ResultFields
  <2>12. Flow(a, F, D, B)
    BY <2>8, <2>10, <2>11, FlowPut
  <2>13. u.una = t.una /\ u.nxt = m /\ u.iss = t.iss /\ u.state = t.state
    BY <2>4, <2>7 DEF SameStream, SameOut
  <2>14. PICK b : b = IF SeqGT(g.ack, t.una) THEN Progress(a, g) ELSE a
    OBVIOUS
  <2>15. Result(b) /\ b.t.state = t.state /\ b.t.iss = t.iss
    <3>1. CASE SeqGT(g.ack, t.una)
      <4>1. Result(b) /\ SamePlace(a.t, b.t) /\ SameState(a.t, b.t)
        BY <2>10, <2>14, <3>1, ProgressKeeps
      <4> QED
        BY <2>10, <2>13, <4>1 DEF SamePlace, SameState
    <3>2. CASE ~SeqGT(g.ack, t.una)
      BY <2>10, <2>13, <2>14, <3>2
    <3> QED
      BY <3>1, <3>2
  <2>16. Flows(a, b, F, D, B)
    <3>1. CASE SeqGT(g.ack, t.una)
      <4>1. ~SeqGT(g.ack, m)
        <5>1. CASE SeqGT(g.ack, t.nxt)
          <6>1. m = g.ack
            BY <2>1, <5>1
          <6>2. Minus(g.ack, g.ack) = 0
            BY <2>3, MinusZero
          <6> QED
            BY <6>1, <6>2, HalfSpace DEF SeqGT
        <5>2. CASE ~SeqGT(g.ack, t.nxt)
          BY <2>1, <5>2
        <5> QED
          BY <5>1, <5>2
      <4>2. Sends(a.t)
        BY <1>2, <2>10, <2>13 DEF Sends
      <4> QED
        BY <2>10, <2>12, <2>13, <2>14, <3>1, <4>1, <4>2, ProgressFlow
    <3>2. CASE ~SeqGT(g.ack, t.una)
      BY <2>12, <2>14, <3>2, FlowsNow
    <3> QED
      BY <3>1, <3>2
  <2>17. PICK E : Grows(F, E, t.iss) /\ Flow(b, E, D, B)
    BY <2>10, <2>13, <2>16 DEF Flows
  <2>18. PICK c : c = IF b.t.state \in {"ESTABLISHED", "CLOSE_WAIT", "FIN_WAIT_1"}
                      THEN Output(b) ELSE b
    OBVIOUS
  <2>19. Result(c) /\ c.t.state = t.state /\ c.t.iss = t.iss
    <3>1. CASE b.t.state \in {"ESTABLISHED", "CLOSE_WAIT", "FIN_WAIT_1"}
      <4>1. Result(c) /\ SamePlace(b.t, c.t) /\ SameState(b.t, c.t)
        BY <2>15, <2>18, <3>1, OutputKeeps
      <4> QED
        BY <2>15, <4>1 DEF SamePlace, SameState
    <3>2. CASE b.t.state \notin {"ESTABLISHED", "CLOSE_WAIT", "FIN_WAIT_1"}
      BY <2>15, <2>18, <3>2
    <3> QED
      BY <3>1, <3>2
  <2>20. Flows(b, c, E, D, B)
    <3>1. Sends(b.t)
      BY <1>2, <2>15 DEF Sends
    <3>2. c = Output(b) \/ c = b
      BY <2>18
    <3> QED
      BY <2>15, <2>17, <3>1, <3>2, OutputFlow, FlowsNow
  <2>21. PICK G : Grows(E, G, t.iss) /\ Flow(c, G, D, B)
    BY <2>15, <2>20 DEF Flows
  <2>22. PICK d : d = TimersOf(c)
    OBVIOUS
  <2>23. y = AckedState(d)
    <3>1. y = AckedState(TimersOf(c))
      BY <1>1, <1>2, <1>4, <2>1, <2>2, <2>6, <2>9, <2>14, <2>18 DEF AckOfData, DataOK, TcbFields
    <3> QED
      BY <2>22, <3>1
  <2>24. Owns(c.t)
    BY <1>2, <2>19 DEF Owns
  <2>25. Flow(d, G, D, B) /\ d.t.state = c.t.state
    BY <2>19, <2>21, <2>22, <2>24, TimersOfFlow
  <2>26. Result(d)
    BY <2>19, <2>22, TimersOfKeeps
  <2>27. Flow(y, G, D, B)
    BY <2>23, <2>24, <2>25, <2>26, AckedStateFlow DEF Owns
  <2>28. Grows(F, G, t.iss)
    <3>1. B \in Nat /\ F \in Ledgers(B) /\ E \in Ledgers(B) /\ G \in Ledgers(B)
      BY <2>12, <2>17, <2>27 DEF Flow, World
    <3> QED
      BY <2>17, <2>21, <3>1, GrowsOn
  <2> QED
    BY <1>1, <2>27, <2>28 DEF Flows
<1> QED
  BY <1>3, <1>4

(* tcp_process_ack. *)
LEMMA ProcessAckFlow ==
    ASSUME NEW x, Result(x), x.t.state \in {"SYN_RCVD"} \cup Opened \cup Ending,
           NEW F, NEW D, NEW B, Flow(x, F, D, B),
           NEW g, SegOK(g), NEW y, y = ProcessAck(x, g)
    PROVE  Flows(x, y, F, D, B)
<1>1. CASE x.t.state = "SYN_RCVD"
  <2>1. y = AckOfSyn(x, g)
    BY <1>1 DEF ProcessAck
  <2> QED
    BY <1>1, <2>1, AckOfSynFlow, FlowsNow
<1>2. CASE x.t.state \in Opened \cup Ending
  <2>1. y = AckOfData(x, g)
    BY <1>2 DEF ProcessAck, Opened, Ending
  <2> QED
    BY <1>2, <2>1, AckOfDataFlow DEF Sends
<1> QED
  BY <1>1, <1>2

(* Acknowledgment, data and FIN of one segment, in that order. *)
LEMMA SynchronizedTextFlow ==
    ASSUME NEW x, NEW n, Kept(x, n), Quiet => FinOK(x.t, Before(x, n)),
           x.t.state \in {"SYN_RCVD"} \cup Opened \cup Ending, ~x.grad, ~x.gone,
           NEW F, NEW D, NEW B, Flow(x, F, D, B),
           NEW g, SegOK(g), Carries(g, F, D), NEW y, y = SynchronizedText(x, g)
    PROVE  Flows(x, y, F, D, B)
<1>1. PICK a : a = ProcessAck(x, g)
  OBVIOUS
<1>2. PICK b : b = IF a.go /\ g.len > 0 THEN RecvData(a, g) ELSE a
  OBVIOUS
<1>3. y = IF b.go /\ "FIN" \in g.fl THEN ProcessFin(b, g) ELSE b
  BY <1>1, <1>2 DEF SynchronizedText
<1>4. Outcome(x.t, a, n) /\
      \/ a.gone /\ ~a.go
      \/ /\ Kept(a, n) /\ Moves(x.t, a) /\ ~a.gone
         /\ a.go => Strong(a.t, n) /\ a.t.state \in Opened \cup Ending
  BY <1>1, ProcessAckKeeps
<1>5. Result(x)
  BY DEF Kept
<1>6. PICK E : Grows(F, E, x.t.iss) /\ Flow(a, E, D, B)
  BY <1>1, <1>5, ProcessAckFlow DEF Flows
<1>7. Carries(g, E, D)
  <2>1. B \in Nat /\ D \in SUBSET Seq32 /\ F \in Ledgers(B) /\ E \in Ledgers(B)
    BY <1>6 DEF Flow, World
  <2> QED
    BY <1>6, <2>1, StillCarries
<1>8. CASE ~a.go
  <2>1. y = a
    BY <1>2, <1>3, <1>8
  <2> QED
    BY <1>6, <2>1 DEF Flows
<1>9. CASE a.go
  <2>1. Kept(a, n) /\ Result(a) /\ a.t.state \in Opened \cup Ending
    BY <1>4, <1>9 DEF Kept
  <2>2. Owns(a.t)
    BY <2>1 DEF Owns, Opened, Ending
  <2>3. Flow(b, E, D, B) /\ Result(b) /\ b.t.state \in Opened \cup Ending
    <3>1. CASE g.len > 0
      <4>1. b = RecvData(a, g)
        BY <1>2, <1>9, <3>1
      <4>2. Kept(b, n) /\ RecvOnly(a.t, b.t)
        BY <2>1, <4>1, RecvDataKeeps
      <4>3. Flow(b, E, D, B)
        BY <1>6, <1>7, <2>1, <2>2, <4>1, RecvDataFlow
      <4> QED
        BY <2>1, <4>2, <4>3 DEF Kept, RecvOnly, SameState
    <3>2. CASE ~(g.len > 0)
      BY <1>2, <1>6, <2>1, <3>2
    <3> QED
      BY <3>1, <3>2
  <2>4. Flow(y, E, D, B)
    <3>1. CASE b.go /\ "FIN" \in g.fl
      <4>1. y = ProcessFin(b, g)
        BY <1>3, <3>1
      <4> QED
        BY <1>7, <2>3, <3>1, <4>1, ProcessFinFlow
    <3>2. CASE ~(b.go /\ "FIN" \in g.fl)
      BY <1>3, <2>3, <3>2
    <3> QED
      BY <3>1, <3>2
  <2> QED
    BY <1>6, <2>4 DEF Flows
<1> QED
  BY <1>8, <1>9

(* A segment in a synchronized state. *)
LEMMA SynchronizedInputFlow ==
    ASSUME NEW x, NEW n, Kept(x, n), Quiet => FinOK(x.t, Before(x, n)),
           x.t.state \in {"SYN_RCVD"} \cup Opened \cup Ending, ~x.grad, ~x.gone,
           NEW F, NEW D, NEW B, Flow(x, F, D, B),
           NEW g, SegOK(g), Carries(g, F, D), NEW z, z = SynchronizedInput(x, g)
    PROVE  Flows(x, z, F, D, B)
<1>1. Result(x) /\ DataOK(x.t)
  BY DEF Kept, Result
<1>2. PICK u : u = [x.t EXCEPT !.flags = @ \cup {"PROBEACK"}]
  OBVIOUS
<1>3. PICK y : y = [x EXCEPT !.t = u]
  OBVIOUS
<1>4. y = [x EXCEPT !.t.flags = @ \cup {"PROBEACK"}]
  BY <1>1, <1>2, <1>3 DEF Result, ResultFields
<1>5. DataOK(u)
  BY <1>1, <1>2 DEF DataOK, TcbFields
<1>6. /\ SamePlace(x.t, u) /\ SameState(x.t, u) /\ u.rexmit = x.t.rexmit
      /\ u.persist = x.t.persist
  BY <1>1, <1>2 DEF DataOK, TcbFields, SamePlace, SameState
<1>7. u.flags = x.t.flags \cup {"PROBEACK"}
  BY <1>1, <1>2 DEF DataOK, TcbFields
<1>8. SameRecv(x.t, u) /\ SameSend(x.t, u) /\ SameTimers(x.t, u)
  <2>1. u.rxq = x.t.rxq /\ u.rwnd = x.t.rwnd /\ u.precv = x.t.precv
    BY <1>1, <1>2 DEF DataOK, TcbFields
  <2>2. /\ u.una = x.t.una /\ u.nxt = x.t.nxt /\ u.sndq = x.t.sndq /\ u.psend = x.t.psend
        /\ u.wnd = x.t.wnd
    BY <1>1, <1>2 DEF DataOK, TcbFields
  <2>3. SameTimers(x.t, u)
    BY <1>1, <1>2 DEF DataOK, TcbFields, SameTimers
  <2> QED
    BY <1>7, <2>1, <2>2, <2>3 DEF SameRecv, SameSend
<1>9. SameStream(x.t, u)
  <2>1. SameIn(x.t, u)
    <3>1. u.irs = x.t.irs /\ u.rnxt = x.t.rnxt /\ u.rxq = x.t.rxq /\ u.rcvd = x.t.rcvd
      BY <1>1, <1>2 DEF DataOK, TcbFields
    <3> QED
      BY <1>7, <3>1 DEF SameIn
  <2>2. SameOut(x.t, u)
    <3>1. u.iss = x.t.iss /\ u.sfree = x.t.sfree
      BY <1>1, <1>2 DEF DataOK, TcbFields
    <3> QED
      BY <1>8, <3>1 DEF SameSend, SameOut
  <2> QED
    BY <2>1, <2>2 DEF SameStream
<1>10. Result(y) /\ SameControl(x, y) /\ y.t = u
  BY <1>1, <1>3, <1>5, PutBlock
<1>11. Kept(y, n) /\ ~y.grad /\ ~y.gone
  BY <1>6, <1>8, <1>10, IdleKeeps DEF SameControl
<1>12. Quiet => FinOK(y.t, Before(y, n))
  BY <1>6, <1>8, <1>10 DEF FinOK, SameState, SameSend, Before, SameControl
<1>13. Owns(x.t) /\ y.out = x.out
  BY <1>3 DEF Owns, Opened, Ending, Result, ResultFields
<1>14. Flow(y, F, D, B)
  BY <1>1, <1>6, <1>9, <1>10, <1>13, FlowSame DEF SameState, SameKind
<1>15. CASE ~Acceptable(x.t, g)
  <2>1. z = x \/ z = Ack(x)
    BY <1>15 DEF SynchronizedInput
  <2> QED
    BY <1>1, <2>1, AckFlow, FlowsNow
<1>16. CASE Acceptable(x.t, g) /\ "RST" \in g.fl
  <2>1. z = Gone(y)
    BY <1>4, <1>16 DEF SynchronizedInput
  <2>2. z.t = y.t /\ z.out = y.out
    BY <1>10, <2>1 DEF Gone, Result, ResultFields
  <2>3. Flow(z, F, D, B)
    BY <1>14, <2>2 DEF Flow
  <2> QED
    BY <2>3, FlowsNow
<1>17. CASE Acceptable(x.t, g) /\ "RST" \notin g.fl /\ "SYN" \in g.fl
  <2>1. PICK e : e = Emit(y, {"RST"})
    OBVIOUS
  <2>2. z = Gone(e)
    BY <1>4, <1>17, <2>1 DEF SynchronizedInput
  <2>3. "SYN" \notin {"RST"} /\ "FIN" \notin {"RST"}
    OBVIOUS
  <2>4. Flow(e, F, D, B) /\ Result(e)
    BY <1>10, <1>14, <2>1, <2>3, EmitFlow, EmitKeeps
  <2>5. z.t = e.t /\ z.out = e.out
    BY <2>2, <2>4 DEF Gone, Result, ResultFields
  <2>6. Flow(z, F, D, B)
    BY <2>4, <2>5 DEF Flow
  <2> QED
    BY <2>6, FlowsNow
<1>18. CASE Acceptable(x.t, g) /\ "RST" \notin g.fl /\ "SYN" \notin g.fl
  <2>1. g.fl \cap {"RST", "SYN"} = {}
    BY <1>18
  <2>2. z = IF "ACK" \in g.fl THEN SynchronizedText(y, g) ELSE y
    BY <1>4, <1>18, <2>1 DEF SynchronizedInput
  <2>3. CASE "ACK" \in g.fl
    <3>1. z = SynchronizedText(y, g) /\ y.t.state \in {"SYN_RCVD"} \cup Opened \cup Ending
      BY <1>6, <1>10, <2>2, <2>3 DEF SameState
    <3>2. Flows(y, z, F, D, B)
      BY <1>11, <1>12, <1>14, <3>1, SynchronizedTextFlow
    <3> QED
      BY <1>6, <1>10, <3>2 DEF Flows, SamePlace
  <2>4. CASE "ACK" \notin g.fl
    BY <1>14, <2>2, <2>4, FlowsNow
  <2> QED
    BY <2>3, <2>4
<1> QED
  BY <1>15, <1>16, <1>17, <1>18

(* The answer to a SYN that acknowledges it. *)
LEMMA SynSentSynFlow ==
    ASSUME NEW x, Result(x), x.t.state = "SYN_SENT", NEW F, NEW D, NEW B, Flow(x, F, D, B),
           NEW g, SegOK(g), Carries(g, F, D), "SYN" \in g.fl,
           SeqGT(g.ack, x.t.iss), ~SeqGT(g.ack, x.t.nxt), NEW z, z = SynSentSyn(x, g, TRUE)
    PROVE  Flow(z, F, D, B)
<1>1. PICK t : t = x.t
  OBVIOUS
<1>2. /\ DataOK(t) /\ t.state \in Opening /\ SendPos(t) /\ Booked(t, F, D, B)
      /\ RecvPos(t, F, D) /\ World(F, D, B) /\ SynPhase(t) /\ t.state \in Unsynchronized
  BY <1>1 DEF Result, Flow, Aligned, Opening, Owns, SendPos, Unsynchronized
<1>3. g.seq \in Seq32 /\ g.ack \in Seq32 /\ g.wnd \in 0 .. RcvWnd /\ g.seq \in D
  BY DEF SegOK, Carries
<1>4. g.ack = Plus(t.iss, 1) /\ Minus(t.nxt, g.ack) = 0
  BY <1>1, <1>2, <1>3, SynTaken DEF SynPhase
<1>5. PICK p \in Seq32 : p = Plus(g.seq, 1)
  BY <1>3, PlusOne
<1>6. PICK u : u = [t EXCEPT !.irs = g.seq, !.rnxt = p, !.una = g.ack,
                             !.wnd = g.wnd, !.wl1 = g.seq, !.wl2 = g.ack]
  OBVIOUS
<1>7. PICK y : y = [x EXCEPT !.t = u]
  OBVIOUS
<1>8. PICK a : a = Ack(y)
  OBVIOUS
<1>9. PICK e : e = EnterEstablished(a)
  OBVIOUS
<1>10. /\ u.una = g.ack /\ u.nxt = t.nxt /\ u.sndq = t.sndq /\ u.psend = t.psend
       /\ u.flags = t.flags /\ u.iss = t.iss /\ u.sfree = t.sfree
  BY <1>2, <1>6 DEF DataOK, TcbFields
<1>11. u.irs = g.seq /\ u.rnxt = p /\ u.rxq = t.rxq /\ u.rcvd = t.rcvd
  BY <1>2, <1>6 DEF DataOK, TcbFields
<1>12. z = TimersOf(e)
  BY <1>1, <1>5, <1>6, <1>7, <1>8, <1>9, <1>10 DEF SynSentSyn
<1>13. DataOK(u)
  BY <1>2, <1>3, <1>5, <1>6 DEF DataOK, TcbFields
<1>14. Result(y) /\ y.t = u
  BY <1>7, <1>13, PutBlock
<1>15. y.out = x.out
  BY <1>7 DEF Result, ResultFields
<1>16. Result(a) /\ a.t = u
  BY <1>8, <1>14, AckKeeps
<1>17. \A k \in a.out : k \in x.out \/ Carries(k, F, D)
  <2>1. PICK k : k = Segment(u, {"ACK"}, u.nxt, 0, 0)
    OBVIOUS
  <2>2. k.fl = {"ACK"} /\ k.len = 0
    BY <2>1 DEF Segment
  <2>3. Carries(k, F, D)
    BY <2>2 DEF Carries
  <2>4. "SYN" \notin {"ACK"}
    OBVIOUS
  <2>5. a = Send(y, k)
    BY <1>8, <1>14, <2>1, <2>4 DEF Ack, Emit, EmitSeq
  <2>6. a.out \subseteq y.out \cup {k}
    BY <1>14, <2>5 DEF Send, Result, ResultFields
  <2> QED
    BY <1>15, <2>3, <2>6
<1>18. Result(e) /\ SameStream(u, e.t) /\ e.t.state = "ESTABLISHED" /\ e.t.flags = u.flags
       /\ e.out = a.out
  BY <1>9, <1>16, EnterEstablishedKeeps, EnterEstablishedSame
<1>19. RecvPos(e.t, F, D)
  <2>1. t.rxq = <<>> /\ t.rcvd = 0 /\ "RCVFIN" \notin t.flags
    BY <1>2 DEF RecvPos
  <2>2. e.t.irs = g.seq /\ e.t.rnxt = p /\ e.t.rxq = <<>> /\ e.t.rcvd = 0
        /\ "RCVFIN" \notin e.t.flags
    BY <1>10, <1>11, <1>18, <2>1 DEF SameStream, SameIn
  <2>3. Received(e.t) = 0 /\ Eof(e.t) = 0
    BY <2>2 DEF Received, Eof
  <2>4. p = Plus(g.seq, 1 + 0 + 0)
    BY <1>5
  <2>5. 0 <= F.tot[g.seq]
    BY <1>2, <1>3, LedgerType DEF World
  <2>6. Len(<<>>) = 0
    OBVIOUS
  <2>7. "ESTABLISHED" \notin Unsynchronized
    BY DEF Unsynchronized
  <2> QED
    BY <1>3, <1>18, <2>2, <2>3, <2>4, <2>5, <2>6, <2>7 DEF RecvPos
<1>20. /\ e.t.una = g.ack /\ e.t.nxt = t.nxt /\ e.t.iss = t.iss /\ e.t.sndq = t.sndq
       /\ e.t.sfree = t.sfree /\ e.t.psend = t.psend /\ e.t.flags = t.flags
  BY <1>10, <1>18 DEF SameStream, SameOut
<1>21. Aligned(e.t, F, D, B)
  BY <1>2, <1>4, <1>18, <1>19, <1>20, HandshakeDone
<1>22. Flow(e, F, D, B)
  BY <1>17, <1>18, <1>21, FlowPut
<1>23. Owns(e.t)
  BY <1>18 DEF Owns
<1> QED
  BY <1>12, <1>18, <1>22, <1>23, TimersOfFlow

(* A segment in SYN_SENT. *)
LEMMA SynSentInputFlow ==
    ASSUME NEW x, NEW n, Kept(x, n), x.t.state = "SYN_SENT",
           NEW F, NEW D, NEW B, Flow(x, F, D, B),
           NEW g, SegOK(g), Carries(g, F, D), x.t.lport = g.dport, NEW z, z = SynSentInput(x, g)
    PROVE  Flow(z, F, D, B)
<1>1. Result(x) /\ CallOK(x.t)
  BY DEF Kept, TcbInv
<1>2. "SYN" \in g.fl => "ACK" \in g.fl
  BY <1>1 DEF CallOK, SegOK
<1>3. CASE "ACK" \in g.fl /\ (SeqLEQ(g.ack, x.t.iss) \/ SeqGT(g.ack, x.t.nxt))
  <2>1. z = x \/ z = Send(x, RstFor(g))
    BY <1>3 DEF SynSentInput
  <2> QED
    BY <1>1, <2>1, RstFlow
<1>4. CASE /\ ~("ACK" \in g.fl /\ (SeqLEQ(g.ack, x.t.iss) \/ SeqGT(g.ack, x.t.nxt)))
           /\ "RST" \in g.fl
  <2>1. z = x \/ z = Gone(x)
    BY <1>4 DEF SynSentInput
  <2>2. z.t = x.t /\ z.out = x.out
    BY <1>1, <2>1 DEF Gone, Result, ResultFields
  <2> QED
    BY <2>2 DEF Flow
<1>5. CASE /\ ~("ACK" \in g.fl /\ (SeqLEQ(g.ack, x.t.iss) \/ SeqGT(g.ack, x.t.nxt)))
           /\ "RST" \notin g.fl
  <2>1. z = IF "SYN" \in g.fl THEN SynSentSyn(x, g, "ACK" \in g.fl) ELSE x
    BY <1>5 DEF SynSentInput
  <2>2. CASE "SYN" \in g.fl
    <3>1. ("ACK" \in g.fl) = TRUE
      BY <1>2, <2>2
    <3>2. z = SynSentSyn(x, g, TRUE)
      BY <2>1, <2>2, <3>1
    <3>3. SeqGT(g.ack, x.t.iss) /\ ~SeqGT(g.ack, x.t.nxt)
      BY <1>5, <3>1 DEF SeqLEQ
    <3> QED
      BY <1>1, <2>2, <3>2, <3>3, SynSentSynFlow
  <2>3. CASE "SYN" \notin g.fl
    BY <2>1, <2>3
  <2> QED
    BY <2>2, <2>3
<1> QED
  BY <1>3, <1>4, <1>5

(* tcp_state_input. *)
LEMMA StateInputFlow ==
    ASSUME NEW x, NEW n, Kept(x, n), Quiet => FinOK(x.t, Before(x, n)),
           x.t.state \notin {"FREE", "LISTEN"}, ~x.grad, ~x.gone,
           NEW F, NEW D, NEW B, Flow(x, F, D, B),
           NEW g, SegOK(g), Carries(g, F, D), x.t.lport = g.dport, NEW z, z = StateInput(x, g)
    PROVE  Flows(x, z, F, D, B)
<1>1. Result(x) /\ x.t.state \in States
  BY DEF Kept, Result, DataOK
<1>2. CASE x.t.state = "SYN_SENT"
  <2>1. z = SynSentInput(x, g)
    BY <1>2 DEF StateInput
  <2> QED
    BY <1>2, <2>1, SynSentInputFlow, FlowsNow
<1>3. CASE x.t.state = "CLOSED"
  <2>1. z = x \/ z = Send(x, RstFor(g))
    BY <1>3 DEF StateInput
  <2> QED
    BY <1>1, <2>1, RstFlow, FlowsNow
<1>4. CASE x.t.state \notin {"SYN_SENT", "CLOSED"}
  <2>1. z = SynchronizedInput(x, g)
    BY <1>4 DEF StateInput
  <2>2. x.t.state \in {"SYN_RCVD"} \cup Opened \cup Ending
    BY <1>1, <1>4 DEF States, Opened, Ending
  <2> QED
    BY <2>1, <2>2, SynchronizedInputFlow
<1> QED
  BY <1>2, <1>3, <1>4

-----------------------------------------------------------------------------
(* The timers and CLOSE.                                                    *)
(* A result whose connection is torn down.                                  *)
LEMMA GoneFlow ==
    ASSUME NEW x, Result(x), NEW F, NEW D, NEW B, Flow(x, F, D, B), NEW y, y = Gone(x)
    PROVE  Flow(y, F, D, B)
<1>1. y.t = x.t /\ y.out = x.out
  BY DEF Gone, Result, ResultFields
<1> QED
  BY <1>1 DEF Flow

(* What is sent again is in the stream already. *)
LEMMA RexmitOneFlow ==
    ASSUME NEW x, Result(x), NEW F, NEW D, NEW B, Flow(x, F, D, B), Owns(x.t),
           x.t.state \in Ending => DataPhase(x.t), NEW y, y = RexmitOne(x)
    PROVE  Flow(y, F, D, B)
<1>1. PICK t : t = x.t
  OBVIOUS
<1>2. /\ DataOK(t) /\ SendPos(t) /\ Booked(t, F, D, B) /\ World(F, D, B)
      /\ t.state \in States /\ t.state \in Opening \cup Opened \cup Ending
  BY <1>1 DEF Result, Flow, Aligned, Owns, DataOK, States, Opening, Opened, Ending
<1>3. t.iss \in D /\ t.iss \in Seq32 /\ t.una \in Seq32
  BY <1>2 DEF Booked, DataOK
<1>4. PICK q \in Nat, f \in Nat : q = t.sndq /\ f = t.sfree
  BY <1>2, QueueSize
<1>5. CASE t.state = "SYN_SENT"
  <2>1. y = Emit(x, {"SYN"}) /\ "FIN" \notin {"SYN"}
    BY <1>1, <1>5 DEF RexmitOne
  <2> QED
    BY <1>1, <1>3, <2>1, EmitFlow
<1>6. CASE t.state = "SYN_RCVD"
  <2>1. y = Emit(x, {"SYN", "ACK"}) /\ "FIN" \notin {"SYN", "ACK"}
    BY <1>1, <1>6 DEF RexmitOne
  <2> QED
    BY <1>1, <1>3, <2>1, EmitFlow
<1>7. CASE t.state \notin {"SYN_SENT", "SYN_RCVD"} /\ t.sndq > 0
  <2>1. PICK len : len = Min({q, Mss})
    OBVIOUS
  <2>2. len \in Nat /\ len > 0 /\ 0 + len <= q
    <3>1. len = IF q <= Mss THEN q ELSE Mss
      BY <2>1, MinOf, HalfSpace
    <3> QED
      BY <1>4, <1>7, <3>1, HalfSpace
  <2>3. DataPhase(t)
    <3>1. t.state \notin Opening
      BY <1>2, <1>4, <1>7 DEF SendPos, SynPhase
    <3> QED
      BY <1>1, <1>2, <3>1 DEF SendPos
  <2>4. t.una = Plus(t.una, 0)
    <3>1. t.una \in Int /\ t.una < SeqMod /\ 0 \in Seq32
      BY <1>3, SeqNat, HalfSpace
    <3> QED
      BY <1>3, <3>1, PlusIs
  <2>5. PICK g : g = Segment(t, {"ACK"}, t.una, 0, len)
    OBVIOUS
  <2>6. Carries(g, F, D)
    BY <1>2, <1>4, <2>2, <2>3, <2>4, <2>5, PieceCarries
  <2>7. y = Send(x, g)
    BY <1>1, <1>4, <1>7, <2>1, <2>5 DEF RexmitOne
  <2> QED
    BY <2>6, <2>7, SendFlow
<1>8. CASE t.state \notin {"SYN_SENT", "SYN_RCVD"} /\ ~(t.sndq > 0)
  <2>1. q = 0
    BY <1>4, <1>8
  <2>2. y = IF "FINSENT" \in t.flags THEN EmitSeq(x, {"FIN", "ACK"}, t.una) ELSE x
    BY <1>1, <1>4, <1>8, <2>1 DEF RexmitOne
  <2>3. CASE "FINSENT" \in t.flags
    <3>1. DataPhase(t)
      <4>1. t.state \notin Opening
        BY <1>2, <2>3 DEF SendPos, SynPhase
      <4> QED
        BY <1>1, <1>2, <4>1 DEF SendPos
    <3>2. t.una = Plus(t.iss, 1 + f)
      BY <1>4, <3>1 DEF DataPhase
    <3>3. t.iss \in F.fin /\ F.tot[t.iss] = f
      BY <1>2, <1>4, <2>1, <2>3 DEF Booked, Held
    <3>4. "SYN" \notin {"FIN", "ACK"}
      OBVIOUS
    <3> QED
      BY <1>1, <1>3, <2>2, <2>3, <3>2, <3>3, <3>4, EmitSeqFlow
  <2>4. CASE "FINSENT" \notin t.flags
    BY <2>2, <2>4
  <2> QED
    BY <2>3, <2>4
<1> QED
  BY <1>5, <1>6, <1>7, <1>8

(* The retransmission timer. *)
LEMMA RexmitFlow ==
    ASSUME NEW x, Result(x), x.t.state = "SYN_SENT" => x.t.fport = Service, x.t.rexmit,
           NEW F, NEW D, NEW B, Flow(x, F, D, B),
           NEW w, w = [x EXCEPT !.t.rexmit = FALSE], NEW y, y = RexmitExpire(w)
    PROVE  Flow(y, F, D, B)
<1>1. PICK t : t = x.t
  OBVIOUS
<1>2. DataOK(t) /\ SendPos(t) /\ t.rexmit
  BY <1>1 DEF Result, Flow, Aligned
<1>3. Owns(t) /\ (t.state \in Ending => DataPhase(t))
  BY <1>2 DEF SendPos, EndPhase
<1>4. PICK u : u = [t EXCEPT !.rexmit = FALSE]
  OBVIOUS
<1>5. w = [x EXCEPT !.t = u]
  BY <1>1, <1>2, <1>4 DEF Result, ResultFields
<1>6. DataOK(u)
  BY <1>2, <1>4 DEF DataOK, TcbFields
<1>7. SameIn(t, u) /\ u.state = t.state /\ ~u.rexmit /\ u.fport = t.fport
  BY <1>2, <1>4 DEF DataOK, TcbFields, SameIn
<1>8. SameOut(t, u)
  BY <1>2, <1>4 DEF DataOK, TcbFields, SameOut
<1>9. Result(w) /\ w.t = u
  BY <1>5, <1>6, PutBlock, ZenonT(60)
<1>10. w.out = x.out
  BY <1>5 DEF Result, ResultFields
<1>11. Flow(w, F, D, B)
  BY <1>1, <1>3, <1>7, <1>8, <1>9, <1>10, FlowSame DEF SameStream, SameKind
<1>12. CASE u.backoff >= MaxTries
  <2>1. y = Gone(w)
    BY <1>9, <1>12 DEF RexmitExpire
  <2> QED
    BY <1>9, <1>11, <2>1, GoneFlow
<1>13. CASE ~(u.backoff >= MaxTries)
  <2>1. PICK r : r = RexmitOne(w)
    OBVIOUS
  <2>2. Flow(r, F, D, B)
    <3>1. Owns(u) /\ (u.state \in Ending => DataPhase(u))
      BY <1>3, <1>7, <1>8, PhasesCarried DEF Owns
    <3> QED
      BY <1>9, <1>11, <2>1, <3>1, RexmitOneFlow
  <2>3. Result(r) /\ r.t = u
    BY <1>1, <1>7, <1>9, <2>1, RexmitOneKeeps
  <2>4. PICK v : v = [u EXCEPT !.backoff = @ + 1, !.rexmit = TRUE]
    OBVIOUS
  <2>5. y = [r EXCEPT !.t.backoff = @ + 1, !.t.rexmit = TRUE]
    BY <1>9, <1>13, <2>1 DEF RexmitExpire
  <2>6. y.t = v /\ y.out = r.out
    BY <1>6, <2>3, <2>4, <2>5 DEF Result, ResultFields, DataOK, TcbFields
  <2>7. SameIn(u, v) /\ v.state = u.state
    BY <1>6, <2>4 DEF DataOK, TcbFields, SameIn
  <2>8. SameOut(u, v)
    BY <1>6, <2>4 DEF DataOK, TcbFields, SameOut
  <2>9. SameIn(t, v) /\ SameOut(t, v) /\ v.state = t.state
    BY <1>7, <1>8, <2>7, <2>8 DEF SameIn, SameOut
  <2>10. Aligned(v, F, D, B)
    <3>1. Aligned(t, F, D, B)
      BY <1>1 DEF Flow
    <3> QED
      BY <1>2, <1>3, <2>9, <3>1, AlignedStays DEF SameStream, SameKind
  <2> QED
    BY <2>2, <2>6, <2>10, FlowPut
<1> QED
  BY <1>12, <1>13

(* A probe is the next byte of the stream. *)
Probed(x) ==
    LET off == Minus(x.t.nxt, x.t.una)
    IN IF x.t.sndq > off THEN Send(x, Segment(x.t, {"ACK"}, x.t.nxt, off, 1)) ELSE x

(* It is in the stream already. *)
LEMMA ProbedFlow ==
    ASSUME NEW x, Result(x), NEW F, NEW D, NEW B, Flow(x, F, D, B), Owns(x.t),
           NEW y, y = Probed(x)
    PROVE  Flow(y, F, D, B) /\ y.t = x.t /\ {"t", "out"} \subseteq DOMAIN y
<1>1. PICK t, off : t = x.t /\ off = Sent(t)
  OBVIOUS
<1>2. /\ DataOK(t) /\ SendPos(t) /\ Booked(t, F, D, B) /\ World(F, D, B)
      /\ t.state \in Opening \cup Opened \cup Ending
  BY <1>1 DEF Result, Flow, Aligned, Owns, DataOK, States, Opening, Opened, Ending
<1>3. PICK q \in Nat, s \in Nat : q = t.sndq /\ s = off
  BY <1>1, <1>2, QueueSize, NextIs
<1>4. PICK g : g = Segment(t, {"ACK"}, t.nxt, off, 1)
  OBVIOUS
<1>5. y = IF q > s THEN Send(x, g) ELSE x
  BY <1>1, <1>3, <1>4 DEF Probed, Sent
<1>6. CASE q > s
  <2>1. DataPhase(t)
    <3>1. ~SynPhase(t) /\ ~EndPhase(t)
      BY <1>1, <1>3, <1>6 DEF SynPhase, EndPhase
    <3> QED
      BY <1>2, <3>1 DEF SendPos
  <2>2. t.nxt = Plus(t.una, s)
    BY <1>1, <1>2, <1>3, NextIs
  <2>3. s + 1 <= q
    BY <1>6
  <2>4. Carries(g, F, D)
    <3>1. 1 \in Nat /\ 1 > 0
      OBVIOUS
    <3> QED
      BY <1>2, <1>3, <1>4, <2>1, <2>2, <2>3, <3>1, PieceCarries
  <2>5. y = Send(x, g)
    BY <1>5, <1>6
  <2>6. Flow(y, F, D, B) /\ y.t = x.t
    BY <2>4, <2>5, SendFlow
  <2> QED
    BY <2>5, <2>6 DEF Send, Result, ResultFields
<1>7. CASE ~(q > s)
  BY <1>5, <1>7 DEF Result, ResultFields
<1> QED
  BY <1>6, <1>7

(* The persist timer. *)
LEMMA PersistFlow ==
    ASSUME NEW x, Result(x), x.t.persist, NEW F, NEW D, NEW B, Flow(x, F, D, B),
           NEW w, w = [x EXCEPT !.t.persist = FALSE], NEW y, y = PersistExpire(w)
    PROVE  Flow(y, F, D, B)
<1>1. PICK t : t = x.t
  OBVIOUS
<1>2. DataOK(t) /\ SendPos(t) /\ t.persist
  BY <1>1 DEF Result, Flow, Aligned
<1>3. Owns(t)
  BY <1>2 DEF SendPos
<1>4. PICK u : u = [t EXCEPT !.persist = FALSE]
  OBVIOUS
<1>5. w = [x EXCEPT !.t = u]
  BY <1>1, <1>2, <1>4 DEF Result, ResultFields
<1>6. DataOK(u)
  BY <1>2, <1>4 DEF DataOK, TcbFields
<1>7. SameIn(t, u) /\ u.state = t.state /\ u.rexmit = t.rexmit
  BY <1>2, <1>4 DEF DataOK, TcbFields, SameIn
<1>8. SameOut(t, u)
  BY <1>2, <1>4 DEF DataOK, TcbFields, SameOut
<1>9. Result(w) /\ w.t = u
  BY <1>5, <1>6, PutBlock, ZenonT(60)
<1>10. w.out = x.out
  BY <1>5 DEF Result, ResultFields
<1>11. Flow(w, F, D, B)
  BY <1>1, <1>3, <1>7, <1>8, <1>9, <1>10, FlowSame DEF SameStream, SameKind
<1>12. CASE u.backoff >= MaxTries /\ "PROBEACK" \notin u.flags
  <2>1. y = Gone(w)
    BY <1>9, <1>12 DEF PersistExpire
  <2> QED
    BY <1>9, <1>11, <2>1, GoneFlow
<1>13. CASE ~(u.backoff >= MaxTries /\ "PROBEACK" \notin u.flags)
  <2>1. PICK r : r = Probed(w)
    OBVIOUS
  <2>2. Owns(w.t)
    BY <1>3, <1>7, <1>9 DEF Owns
  <2>3. Flow(r, F, D, B) /\ r.t = u /\ {"t", "out"} \subseteq DOMAIN r
    BY <1>9, <1>11, <2>1, <2>2, ProbedFlow
  <2>4. PICK v : v = [u EXCEPT !.backoff = Min({u.backoff + 1, MaxTries}), !.persist = TRUE]
    OBVIOUS
  <2>5. y = [r EXCEPT !.t.backoff = Min({@ + 1, MaxTries}), !.t.persist = TRUE]
    <3>1. ~(w.t.backoff >= MaxTries /\ "PROBEACK" \notin w.t.flags)
      BY <1>9, <1>13
    <3> QED
      BY <2>1, <3>1 DEF PersistExpire, Probed
  <2>6. y.t = v /\ y.out = r.out
    BY <1>6, <2>3, <2>4, <2>5 DEF DataOK, TcbFields
  <2>7. SameIn(u, v) /\ v.state = u.state /\ v.rexmit = u.rexmit
    BY <1>6, <2>4 DEF DataOK, TcbFields, SameIn
  <2>8. SameOut(u, v)
    BY <1>6, <2>4 DEF DataOK, TcbFields, SameOut
  <2>9. SameIn(t, v) /\ SameOut(t, v) /\ v.state = t.state /\ v.rexmit = t.rexmit
    BY <1>7, <1>8, <2>7, <2>8 DEF SameIn, SameOut
  <2>10. Aligned(v, F, D, B)
    <3>1. Aligned(t, F, D, B)
      BY <1>1 DEF Flow
    <3> QED
      BY <1>2, <1>3, <2>9, <3>1, AlignedStays DEF SameStream, SameKind
  <2> QED
    BY <2>3, <2>6, <2>10, FlowPut
<1> QED
  BY <1>12, <1>13

(* Flags that steer nothing of what is sent. *)
LEMMA FlagsFlow ==
    ASSUME NEW x, Result(x), NEW F, NEW D, NEW B, Flow(x, F, D, B), NEW fl, Idle(fl),
           NEW y, y = [x EXCEPT !.t.flags = @ \cup fl]
    PROVE  Flow(y, F, D, B)
<1>1. PICK u : u = [x.t EXCEPT !.flags = @ \cup fl]
  OBVIOUS
<1>2. DataOK(x.t) /\ Aligned(x.t, F, D, B)
  BY DEF Result, Flow
<1>3. y.t = u /\ y.out = x.out
  BY <1>1, <1>2 DEF Result, ResultFields, DataOK, TcbFields
<1>4. SameStream(x.t, u) /\ SameState(x.t, u) /\ SameTimers(x.t, u)
  BY <1>1, <1>2, FlagsBlock
<1>5. Owns(x.t) \/ (~u.rexmit /\ ~u.persist)
  BY <1>2, <1>4 DEF Aligned, SendPos, SameTimers
<1>6. Aligned(u, F, D, B)
  BY <1>2, <1>4, <1>5, AlignedStays DEF SameKind, SameState, SameTimers
<1> QED
  BY <1>3, <1>6, FlowPut

(* CLOSE. *)
LEMMA CloseCallFlow ==
    ASSUME NEW x, Result(x), NEW F, NEW D, NEW B, Flow(x, F, D, B),
           x.t.state \notin {"FREE", "SYN_RCVD"}, x.t.psend = 0, NEW y, y = CloseCall(x)
    PROVE  Flows(x, y, F, D, B)
<1>1. DataOK(x.t) /\ x.t.state \in States
  BY DEF Result, DataOK
<1>2. CASE x.t.state \in {"CLOSED", "LISTEN", "SYN_SENT"}
  <2>1. y = Gone(x)
    BY <1>2 DEF CloseCall
  <2> QED
    BY <2>1, GoneFlow, FlowsNow
<1>3. CASE x.t.state \in Opened
  <2>1. y = FinQueued(x, {"APPCLOSED"})
    BY <1>3 DEF CloseCall, Opened
  <2> QED
    BY <1>3, <2>1, FinQueuedFlow
<1>4. CASE x.t.state \in Ending
  <2>1. y = [x EXCEPT !.t.flags = @ \cup {"APPCLOSED"}]
    BY <1>4 DEF CloseCall, Ending
  <2>2. Idle({"APPCLOSED"})
    BY DEF Idle, Unended
  <2> QED
    BY <2>1, <2>2, FlagsFlow, FlowsNow
<1> QED
  BY <1>1, <1>2, <1>3, <1>4 DEF States, Opened, Ending

-----------------------------------------------------------------------------
(* The streams of the whole table.                                          *)
(* A block whose stream and timers are as they were.                        *)
Seems(t, u) ==
    SameStream(t, u) /\ u.state = t.state /\ u.rexmit = t.rexmit /\ u.persist = t.persist

(* It stands in its stream as it did. *)
LEMMA SeemsAligned ==
    ASSUME NEW t, DataOK(t), NEW u, Seems(t, u), NEW F, NEW D, NEW B, Aligned(t, F, D, B)
    PROVE  Aligned(u, F, D, B)
<1>1. ~Owns(t) => ~t.rexmit /\ ~t.persist
  BY DEF Aligned, SendPos
<1>2. SameStream(t, u) /\ SameKind(t.state, u.state)
  BY DEF Seems, SameKind
<1>3. u.rexmit => t.rexmit \/ t.una # t.nxt
  BY DEF Seems
<1>4. Owns(t) \/ (~u.rexmit /\ ~u.persist)
  BY <1>1 DEF Seems
<1> QED
  BY <1>2, <1>3, <1>4, AlignedStays

(* A block that is FREE or a listener, as tcp_attach makes it. *)
LEMMA IdleAligned ==
    ASSUME NEW t, t.state \in {"FREE", "LISTEN"}, ~t.rexmit, ~t.persist, t.psend = 0,
           t.rxq = <<>>, t.rcvd = 0, t.flags = {}, NEW F, NEW D, NEW B
    PROVE  Aligned(t, F, D, B) /\ ~Owns(t)
<1>1. ~Owns(t) /\ t.state \in Unsynchronized
  BY DEF Owns, Unsynchronized
<1>2. t.state \notin Opening /\ t.state \notin Opened /\ t.state \notin Ending
  BY DEF Opening, Opened, Ending
<1>3. SendPos(t)
  BY <1>1, <1>2 DEF SendPos
<1>4. RecvPos(t, F, D)
  <2>1. Len(t.rxq) = 0 /\ "RCVFIN" \notin t.flags
    OBVIOUS
  <2>2. \A i \in 1 .. Len(t.rxq) : FALSE
    BY <2>1
  <2> QED
    BY <1>1, <2>1, <2>2 DEF RecvPos
<1> QED
  BY <1>1, <1>3, <1>4 DEF Aligned

(* So does a block in the pool. *)
LEMMA BlankAligned ==
    ASSUME NEW s, NEW F, NEW D, NEW B
    PROVE  Aligned(Blank(s), F, D, B) /\ ~Owns(Blank(s))
<1>1. PICK t : t = Blank(s)
  OBVIOUS
<1>2. /\ t.state = "FREE" /\ ~t.rexmit /\ ~t.persist /\ t.psend = 0 /\ t.rxq = <<>>
      /\ t.rcvd = 0 /\ t.flags = {}
  BY <1>1 DEF Blank, Fresh
<1> QED
  BY <1>1, <1>2, IdleAligned

(* A table whose blocks are as they were, or in the pool. *)
LEMMA TableSeems ==
    ASSUME NEW tab, NEW new, \A c \in Slot : DataOK(tab[c]),
           \A c \in Slot : new[c] = Blank(c) \/ Seems(tab[c], new[c]),
           NEW F, NEW D, NEW B, TableFits(tab, F, D, B)
    PROVE  TableFits(new, F, D, B)
<1>1. ASSUME NEW s \in Slot
      PROVE  Aligned(new[s], F, D, B)
  <2>1. CASE new[s] = Blank(s)
    BY <2>1, BlankAligned
  <2>2. CASE Seems(tab[s], new[s])
    <3>1. DataOK(tab[s]) /\ Aligned(tab[s], F, D, B)
      BY DEF TableFits
    <3> QED
      BY <2>2, <3>1, SeemsAligned
  <2> QED
    BY <2>1, <2>2
<1>2. ASSUME NEW s \in Slot, Owns(new[s])
      PROVE  Owns(tab[s]) /\ new[s].iss = tab[s].iss
  <2>1. Seems(tab[s], new[s])
    BY <1>2, BlankAligned
  <2> QED
    BY <1>2, <2>1 DEF Seems, SameStream, SameOut, Owns
<1>3. ASSUME NEW s \in Slot, NEW r \in Slot, Owns(new[s]), Owns(new[r]), new[s].iss = new[r].iss
      PROVE  s = r
  <2>1. Owns(tab[s]) /\ Owns(tab[r]) /\ tab[s].iss = tab[r].iss
    BY <1>2, <1>3
  <2> QED
    BY <2>1 DEF TableFits
<1> QED
  BY <1>1, <1>3 DEF TableFits

(* What a block is told of another's place leaves its streams alone. *)
LEMMA PlaceSeems ==
    ASSUME NEW t, TcbFields \subseteq DOMAIN t, NEW u,
           \/ \E q : u = [t EXCEPT !.acceptq = q]
           \/ u = [t EXCEPT !.pacc = FALSE]
           \/ u = [t EXCEPT !.pacc = TRUE]
           \/ u = [t EXCEPT !.listener = NoTcb]
           \/ u = t
    PROVE  Seems(t, u)
<1>1. CASE \E q : u = [t EXCEPT !.acceptq = q]
  BY <1>1 DEF Seems, SameStream, SameIn, SameOut, TcbFields
<1>2. CASE u = [t EXCEPT !.pacc = FALSE]
  BY <1>2 DEF Seems, SameStream, SameIn, SameOut, TcbFields
<1>3. CASE u = [t EXCEPT !.pacc = TRUE]
  BY <1>3 DEF Seems, SameStream, SameIn, SameOut, TcbFields
<1>4. CASE u = [t EXCEPT !.listener = NoTcb]
  BY <1>4 DEF Seems, SameStream, SameIn, SameOut, TcbFields
<1>5. CASE u = t
  BY <1>5 DEF Seems, SameStream, SameIn, SameOut
<1> QED
  BY <1>1, <1>2, <1>3, <1>4, <1>5

(* tcp_destroy gives blocks back, and leaves the others' streams alone. *)
LEMMA DestroyedSeems ==
    ASSUME NEW tab, \A c \in Slot : TcbFields \subseteq DOMAIN tab[c],
           NEW s \in Slot, NEW new, new = Destroyed(tab, s)
    PROVE  /\ \A c \in Slot : new[c] = Blank(c) \/ Seems(tab[c], new[c])
           /\ new[s] = Blank(s)
<1>1. ASSUME NEW c \in Slot
      PROVE  new[c] = Blank(c) \/ Seems(tab[c], new[c])
  <2>1. CASE c \in Doomed(tab, s)
    BY <2>1 DEF Destroyed, Doomed
  <2>2. CASE c \notin Doomed(tab, s)
    <3>1. PICK q : q = SeqOps!RemoveFirst(tab[c].acceptq, s)
      OBVIOUS
    <3>2. PICK t : t = tab[c] /\ TcbFields \subseteq DOMAIN t
      OBVIOUS
    <3>3. new[c] = [t EXCEPT !.acceptq = q]
      BY <2>2, <3>1, <3>2 DEF Destroyed, Doomed
    <3> QED
      BY <3>2, <3>3, PlaceSeems
  <2> QED
    BY <2>1, <2>2
<1>2. new[s] = Blank(s)
  BY DEF Destroyed
<1> QED
  BY <1>1, <1>2

(* So does tcp_graduate. *)
LEMMA GraduatedSeems ==
    ASSUME NEW tab, DOMAIN tab = Slot, \A c \in Slot : TcbFields \subseteq DOMAIN tab[c],
           NEW s \in Slot, NEW new, new = Graduated(tab, s)
    PROVE  \A c \in Slot : Seems(tab[c], new[c])
<1> SUFFICES ASSUME NEW c \in Slot
             PROVE  Seems(tab[c], new[c])
  OBVIOUS
<1>1. PICK l : l = tab[s].listener
  OBVIOUS
<1>2. CASE new = [tab EXCEPT ![l].pacc = FALSE, ![s].listener = NoTcb]
  <2>1. /\ new[c].irs = tab[c].irs /\ new[c].rnxt = tab[c].rnxt /\ new[c].rxq = tab[c].rxq
        /\ new[c].rcvd = tab[c].rcvd /\ new[c].flags = tab[c].flags
    BY <1>2 DEF TcbFields
  <2>2. /\ new[c].iss = tab[c].iss /\ new[c].una = tab[c].una /\ new[c].nxt = tab[c].nxt
        /\ new[c].sndq = tab[c].sndq /\ new[c].sfree = tab[c].sfree
        /\ new[c].psend = tab[c].psend
    BY <1>2 DEF TcbFields
  <2>3. /\ new[c].state = tab[c].state /\ new[c].rexmit = tab[c].rexmit
        /\ new[c].persist = tab[c].persist
    BY <1>2 DEF TcbFields
  <2> QED
    BY <2>1, <2>2, <2>3 DEF Seems, SameStream, SameIn, SameOut
<1>3. CASE new = [tab EXCEPT ![l].acceptq = Append(@, s)]
  <2>1. PICK q : q = Append(tab[l].acceptq, s)
    OBVIOUS
  <2>2. PICK t : t = tab[c] /\ TcbFields \subseteq DOMAIN t
    OBVIOUS
  <2>3. new[c] = t \/ new[c] = [t EXCEPT !.acceptq = q]
    BY <1>3, <2>1, <2>2
  <2> QED
    BY <2>2, <2>3, PlaceSeems
<1>4. CASE new = tab
  BY <1>4, PlaceSeems
<1> QED
  BY <1>1, <1>2, <1>3, <1>4 DEF Graduated

-----------------------------------------------------------------------------
(* The streams after an event of one block.                                 *)
(* How a ledger F becomes E when the block t becomes u.                     *)
Turns(t, u, F, E) == (Owns(t) /\ Grows(F, E, t.iss)) \/ (E = F /\ u.state = t.state)

(* Another block stands in its streams as before. *)
LEMMA OtherAligned ==
    ASSUME NEW F, NEW E, NEW D, NEW B, World(F, D, B), World(E, D, B), NEW i, Grows(F, E, i),
           NEW t, DataOK(t), Aligned(t, F, D, B), Owns(t) => t.iss # i
    PROVE  Aligned(t, E, D, B)
<1>1. RecvPos(t, E, D)
  <2>1. RecvPos(t, F, D)
    BY DEF Aligned
  <2> QED
    BY <2>1, WorldIs, StillReceived
<1>2. ASSUME Owns(t)
      PROVE  Booked(t, E, D, B)
  <2>1. Booked(t, F, D, B) /\ t.iss \in Seq32
    BY <1>2 DEF Aligned, DataOK
  <2>2. E.tot[t.iss] = F.tot[t.iss] /\ (t.iss \in E.fin <=> t.iss \in F.fin)
    BY <1>2, <2>1 DEF Grows
  <2> QED
    BY <2>1, <2>2 DEF Booked
<1> QED
  BY <1>1, <1>2 DEF Aligned

(* The table with the block s changed. *)
LEMMA TablePutFits ==
    ASSUME NEW tab, DOMAIN tab = Slot, \A c \in Slot : DataOK(tab[c]),
           NEW s \in Slot, NEW u, u.iss = tab[s].iss,
           NEW F, NEW E, NEW D, NEW B, World(F, D, B), World(E, D, B), Turns(tab[s], u, F, E),
           TableFits(tab, F, D, B), Aligned(u, E, D, B),
           NEW new, new = [tab EXCEPT ![s] = u]
    PROVE  TableFits(new, E, D, B)
<1>1. \A c \in Slot : new[c] = IF c = s THEN u ELSE tab[c]
  OBVIOUS
<1>2. ASSUME NEW c \in Slot
      PROVE  Aligned(new[c], E, D, B)
  <2>1. CASE c = s
    BY <1>1, <2>1
  <2>2. CASE c # s
    <3>1. new[c] = tab[c] /\ DataOK(tab[c]) /\ Aligned(tab[c], F, D, B)
      BY <1>1, <2>2 DEF TableFits
    <3>2. Owns(tab[s]) => (Owns(tab[c]) => tab[c].iss # tab[s].iss)
      BY <2>2 DEF TableFits
    <3> QED
      BY <3>1, <3>2, OtherAligned DEF Turns
  <2> QED
    BY <2>1, <2>2
<1>3. \A c \in Slot : Owns(new[c]) => Owns(tab[c]) /\ new[c].iss = tab[c].iss
  BY <1>1 DEF Turns, Owns
<1>4. ASSUME NEW c \in Slot, NEW r \in Slot, Owns(new[c]), Owns(new[r]), new[c].iss = new[r].iss
      PROVE  c = r
  <2>1. Owns(tab[c]) /\ Owns(tab[r]) /\ tab[c].iss = tab[r].iss
    BY <1>3, <1>4
  <2> QED
    BY <2>1 DEF TableFits
<1> QED
  BY <1>2, <1>4 DEF TableFits

(* The table after an event of s, whatever follows for the others. *)
LEMMA AfterFits ==
    ASSUME NEW tab, DOMAIN tab = Slot, \A c \in Slot : DataOK(tab[c]),
           NEW s \in Slot, NEW y, Result(y), y.t.iss = tab[s].iss,
           NEW F, NEW E, NEW D, NEW B, World(F, D, B), Flow(y, E, D, B), Turns(tab[s], y.t, F, E),
           TableFits(tab, F, D, B), NEW new, new = After(tab, s, y)
    PROVE  TableFits(new, E, D, B)
<1>1. PICK mid : mid = [tab EXCEPT ![s] = y.t]
  OBVIOUS
<1>2. PICK u : u = y.t
  OBVIOUS
<1>3. World(E, D, B) /\ Aligned(u, E, D, B) /\ DataOK(u)
  BY <1>2 DEF Flow, Result
<1>4. TableFits(mid, E, D, B)
  BY <1>1, <1>2, <1>3, TablePutFits
<1>5. DOMAIN mid = Slot /\ \A c \in Slot : mid[c] = IF c = s THEN u ELSE tab[c]
  BY <1>1, <1>2
<1>6. \A c \in Slot : DataOK(mid[c])
  BY <1>3, <1>5
<1>7. \A c \in Slot : TcbFields \subseteq DOMAIN mid[c] /\ TcbFields \subseteq DOMAIN tab[c]
  BY <1>6 DEF DataOK
<1>8. CASE y.gone
  <2>1. new = Destroyed(tab, s)
    BY <1>8 DEF After
  <2>2. (\A c \in Slot : new[c] = Blank(c) \/ Seems(tab[c], new[c])) /\ new[s] = Blank(s)
    BY <1>7, <2>1, DestroyedSeems
  <2>3. \A c \in Slot : new[c] = Blank(c) \/ Seems(mid[c], new[c])
    BY <1>5, <2>2
  <2> QED
    BY <1>4, <1>6, <2>3, TableSeems
<1>9. CASE ~y.gone /\ y.grad
  <2>1. new = Graduated(mid, s)
    BY <1>1, <1>9 DEF After
  <2>2. \A c \in Slot : Seems(mid[c], new[c])
    BY <1>5, <1>7, <2>1, GraduatedSeems
  <2> QED
    BY <1>4, <1>6, <2>2, TableSeems
<1>10. CASE ~y.gone /\ ~y.grad
  BY <1>1, <1>4, <1>10 DEF After
<1> QED
  BY <1>8, <1>9, <1>10 DEF Result

(* The network after it. *)
LEMMA CarriedOn ==
    ASSUME NEW F, NEW E, NEW D, NEW B, World(F, D, B), World(E, D, B), NEW i, Grows(F, E, i),
           NEW old, \A g \in old : SegOK(g) /\ Carries(g, F, D),
           NEW out, \A g \in out : Carries(g, E, D)
    PROVE  \A g \in Carry(old, out) : Carries(g, E, D)
<1>1. \A g \in old : Carries(g, E, D)
  BY WorldIs, StillCarries
<1> QED
  BY <1>1 DEF Carry

-----------------------------------------------------------------------------
(* What it says of one block, at the beginning of an event. *)
LEMMA BlockFlow ==
    ASSUME Inv, NEW F, NEW B, Streams(F, B), NEW s \in Slot, NEW x, x.t = tcb[s], x.out = {}
    PROVE  Flow(x, F, Drawn(opens), B)
  BY DEF Streams, TableFits, Flow

(* An event of one block keeps it. *)
LEMMA EventFlow ==
    ASSUME Inv, opens \in 0 .. Len(Iss), NEW F, NEW B, Streams(F, B),
           NEW s \in Slot, NEW x, x.t = tcb[s], NEW y, Result(y), SamePlace(x.t, y.t),
           NEW D, D = Drawn(opens),
           (Owns(x.t) /\ Flows(x, y, F, D, B)) \/ (Flow(y, F, D, B) /\ y.t.state = x.t.state),
           NEW rest \in SUBSET net, tcb' = After(tcb, s, y), net' = Carry(rest, y.out),
           opens' = opens
    PROVE  StreamInv(B)'
<1>1. World(F, D, B) /\ TableFits(tcb, F, D, B) /\ \A g \in net : Carries(g, F, D)
  BY DEF Streams
<1>2. DOMAIN tcb = Slot /\ (\A c \in Slot : DataOK(tcb[c])) /\ \A g \in net : SegOK(g)
  BY DEF Inv, TableOK, TcbInv
<1>3. PICK i : i = tcb[s].iss
  OBVIOUS
<1>4. PICK E : Grows(F, E, i) /\ Flow(y, E, D, B) /\ Turns(tcb[s], y.t, F, E)
  <2>1. CASE Owns(x.t) /\ Flows(x, y, F, D, B)
    BY <1>3, <2>1 DEF Flows, Turns
  <2>2. CASE Flow(y, F, D, B) /\ y.t.state = x.t.state
    <3>1. Grows(F, F, i)
      BY <1>1, WorldIs, GrowsNot
    <3> QED
      BY <2>2, <3>1 DEF Turns
  <2> QED
    BY <2>1, <2>2
<1>5. y.t.iss = tcb[s].iss
  BY DEF SamePlace
<1>6. TableFits(tcb', E, D, B)
  BY <1>1, <1>2, <1>4, <1>5, AfterFits
<1>7. World(E, D, B) /\ \A g \in y.out : Carries(g, E, D)
  BY <1>4 DEF Flow
<1>8. PICK out : out = y.out
  OBVIOUS
<1>9. \A g \in rest : SegOK(g) /\ Carries(g, F, D)
  BY <1>1, <1>2
<1>10. \A g \in Carry(rest, out) : Carries(g, E, D)
  BY <1>1, <1>4, <1>7, <1>8, <1>9, CarriedOn
<1>11. \A g \in net' : Carries(g, E, D)
  BY <1>8, <1>10
<1>12. D = Drawn(opens')
  OBVIOUS
<1>13. Streams(E, B)'
  BY <1>6, <1>7, <1>11, <1>12 DEF Streams
<1> QED
  BY <1>13 DEF StreamInv

-----------------------------------------------------------------------------
(* The events that move the streams.                                        *)
(* What a call or a timer finds.                                            *)
LEMMA BegunFlow ==
    ASSUME Inv, NEW F, NEW B, Streams(F, B), NEW s \in Slot, NEW x \in Begun(s)
    PROVE  /\ Flow(x, F, Drawn(opens), B) /\ Kept(x, nobufs + 1) /\ Result(x)
           /\ x.t = tcb[s] /\ ~x.grad
<1>1. PICK room \in BOOLEAN : x = Begin(tcb[s], room)
  BY BegunIs
<1>2. x.out = {}
  BY <1>1 DEF Begin
<1>3. Kept(x, nobufs + 1) /\ x.t = tcb[s] /\ ~x.grad
  BY BegunAnyway
<1>4. Result(x)
  BY <1>3 DEF Kept
<1> QED
  BY <1>2, <1>3, <1>4, BlockFlow

(* A call or a timer whose result is known. *)
LEMMA CallFlow ==
    ASSUME Inv, opens \in 0 .. Len(Iss), NEW F, NEW B, Streams(F, B),
           NEW s \in Slot, NEW x \in Begun(s), NEW y, Result(y), SamePlace(x.t, y.t),
           \/ Owns(x.t) /\ Flows(x, y, F, Drawn(opens), B)
           \/ Flow(y, F, Drawn(opens), B) /\ y.t.state = x.t.state,
           Event(s, y)
    PROVE  StreamInv(B)'
<1>1. PICK D : D = Drawn(opens)
  OBVIOUS
<1>2. x.t = tcb[s]
  BY BegunFlow
<1>3. tcb' = After(tcb, s, y) /\ net' = Carry(net, y.out) /\ opens' = opens
  BY DEF Event
<1>4. (Owns(x.t) /\ Flows(x, y, F, D, B)) \/ (Flow(y, F, D, B) /\ y.t.state = x.t.state)
  BY <1>1
<1>5. net \in SUBSET net
  OBVIOUS
<1> QED
  BY <1>1, <1>2, <1>3, <1>4, <1>5, EventFlow

(* SEND: an application gives no more than B bytes to one connection. *)
LEMMA SendDataFlow ==
    ASSUME Inv, opens \in 0 .. Len(Iss), NEW F, NEW B \in Nat, Streams(F, B),
           \A h \in Hosts : ByteMax[h] \in Nat /\ ByteMax[h] <= B,
           NEW s \in Slot, SendData(s)
    PROVE  StreamInv(B)'
<1>1. PICK m \in 1 .. ByteMax[HostOf[s]] - Accepted(tcb[s]), parks \in BOOLEAN, x \in Begun(s) :
         Event(s, SendCall(x, m, parks))
  BY DEF SendData
<1>2. PICK y : y = SendCall(x, m, parks)
  OBVIOUS
<1>3. PICK D : D = Drawn(opens)
  OBVIOUS
<1>4. /\ Flow(x, F, D, B) /\ Kept(x, nobufs + 1) /\ Result(x) /\ x.t = tcb[s]
  BY <1>1, <1>3, BegunFlow
<1>5. x.t.state \in Opened /\ Owns(x.t)
  BY <1>4 DEF SendData, Opened, Owns
<1>6. m \in Nat /\ Held(x.t) + m <= B
  <2>1. PICK sf \in Nat, q \in Nat, p \in Nat : sf = x.t.sfree /\ q = x.t.sndq /\ p = x.t.psend
    <3>1. DataOK(x.t)
      BY <1>4 DEF Result
    <3> QED
      BY <3>1, QueueSize
  <2>2. PICK b \in Nat : b = ByteMax[HostOf[s]] /\ b <= B
    BY DEF Hosts
  <2>3. m \in 1 .. b - (sf + q + p)
    BY <1>1, <1>4, <2>1, <2>2 DEF Accepted
  <2>4. m \in Nat /\ sf + q + m <= B
    BY <2>2, <2>3
  <2> QED
    BY <2>1, <2>4 DEF Held
<1>7. Flows(x, y, F, D, B)
  BY <1>1, <1>2, <1>4, <1>5, <1>6, SendCallFlow
<1>8. Kept(y, nobufs + 1) /\ SamePlace(x.t, y.t)
  BY <1>1, <1>2, <1>4, <1>5, <1>6, SendCallKeeps
<1>9. Result(y)
  BY <1>8 DEF Kept
<1> QED
  BY <1>1, <1>2, <1>3, <1>5, <1>7, <1>8, <1>9, CallFlow

(* RECV. *)
LEMMA RecvEventFlow ==
    ASSUME Inv, opens \in 0 .. Len(Iss), NEW F, NEW B, Streams(F, B), NEW s \in Slot, Recv(s)
    PROVE  StreamInv(B)'
<1>1. PICK want \in {1, RcvWnd}, x \in Begun(s) : Event(s, RecvCall(x, want))
  BY DEF Recv
<1>2. want \in Nat
  BY HalfSpace
<1>3. PICK y : y = RecvCall(x, want)
  OBVIOUS
<1>4. PICK D : D = Drawn(opens)
  OBVIOUS
<1>5. Flow(x, F, D, B) /\ Kept(x, nobufs + 1) /\ x.t = tcb[s]
  BY <1>1, <1>4, BegunFlow
<1>6. Owns(x.t)
  <2>1. RecvPos(x.t, F, D)
    BY <1>5 DEF Flow, Aligned
  <2>2. x.t.rxq # <<>> => x.t.state \notin Unsynchronized
    BY <2>1 DEF RecvPos
  <2>3. x.t.rxq # <<>> \/ x.t.state \in {"ESTABLISHED", "FIN_WAIT_1", "FIN_WAIT_2"}
    BY <1>5 DEF Recv
  <2> QED
    BY <2>2, <2>3 DEF Unsynchronized, Owns
<1>7. Flow(y, F, D, B)
  BY <1>2, <1>3, <1>5, <1>6, RecvCallFlow
<1>8. Kept(y, nobufs + 1) /\ RecvOnly(x.t, y.t)
  BY <1>2, <1>3, <1>5, RecvCallKeeps
<1>9. Result(y) /\ SamePlace(x.t, y.t)
  BY <1>8 DEF Kept, RecvOnly
<1>10. Flows(x, y, F, D, B)
  BY <1>7, FlowsNow
<1> QED
  BY <1>1, <1>3, <1>4, <1>6, <1>9, <1>10, CallFlow

(* SHUTDOWN: no SEND waits in an application that waits for its calls. *)
LEMMA ShutdownCallFlow ==
    ASSUME NEW x, Result(x), NEW F, NEW D, NEW B, Flow(x, F, D, B), x.t.psend = 0,
           NEW how, NEW y, y = ShutdownCall(x, how)
    PROVE  \/ x.t.state \in Opened /\ Flows(x, y, F, D, B)
           \/ y.t.state = x.t.state /\ Flow(y, F, D, B)
<1>1. PICK z : z = [x EXCEPT !.t.flags = @ \cup LocalEof(how)]
  OBVIOUS
<1>2. Idle(LocalEof(how))
  BY DEF Idle, Unended, LocalEof
<1>3. Flow(z, F, D, B)
  BY <1>1, <1>2, FlagsFlow
<1>4. PICK u : u = [x.t EXCEPT !.flags = @ \cup LocalEof(how)]
  OBVIOUS
<1>5. DataOK(u) /\ u.state = x.t.state /\ SameStream(x.t, u)
  BY <1>2, <1>4, FlagsBlock DEF Result, SameState
<1>6. Result(z) /\ z.t = u
  <2>1. z = [x EXCEPT !.t = u]
    BY <1>1, <1>4 DEF Result, ResultFields
  <2> QED
    BY <1>5, <2>1, PutBlock
<1>7. CASE how # "rd" /\ x.t.state \in Opened
  <2>1. y = FinQueued(z, {}) /\ {} \in SUBSET {"APPCLOSED"}
    BY <1>1, <1>7 DEF ShutdownCall, Opened
  <2>2. z.t.state \in Opened /\ z.t.psend = 0 /\ z.t.iss = x.t.iss
    BY <1>5, <1>6, <1>7 DEF SameStream, SameOut
  <2>3. Flows(z, y, F, D, B)
    BY <1>3, <1>6, <2>1, <2>2, FinQueuedFlow
  <2> QED
    BY <1>7, <2>2, <2>3 DEF Flows
<1>8. CASE ~(how # "rd" /\ x.t.state \in Opened)
  <2>1. y = z
    BY <1>1, <1>8 DEF ShutdownCall, Opened
  <2> QED
    BY <1>3, <1>5, <1>6, <2>1
<1> QED
  BY <1>7, <1>8

LEMMA ShutdownFlow ==
    ASSUME ~Subtasks, Inv, opens \in 0 .. Len(Iss), NEW F, NEW B, Streams(F, B),
           NEW s \in Slot, Shutdown(s)
    PROVE  StreamInv(B)'
<1>1. PICK how \in Shuts[HostOf[s]], x \in Begun(s) :
         (how = "rd" \/ Early \/ AllSent(tcb[s])) /\ Event(s, ShutdownCall(x, how))
  BY DEF Shutdown
<1>2. PICK y : y = ShutdownCall(x, how)
  OBVIOUS
<1>3. PICK D : D = Drawn(opens)
  OBVIOUS
<1>4. Flow(x, F, D, B) /\ Kept(x, nobufs + 1) /\ Result(x) /\ x.t = tcb[s]
  BY <1>1, <1>3, BegunFlow
<1>5. tcb[s].psend = 0 /\ tcb[s].precv = 0
  BY MayCallQuiet DEF Shutdown
<1>6. Kept(y, nobufs + 1) /\ SamePlace(x.t, y.t)
  BY <1>1, <1>2, <1>4, <1>5, ShutdownCallKeeps
<1>7. Result(y)
  BY <1>6 DEF Kept
<1>8. \/ x.t.state \in Opened /\ Flows(x, y, F, D, B)
      \/ y.t.state = x.t.state /\ Flow(y, F, D, B)
  BY <1>2, <1>4, <1>5, ShutdownCallFlow
<1> QED
  BY <1>1, <1>2, <1>3, <1>6, <1>7, <1>8, CallFlow DEF Owns, Opened

(* CLOSE. *)
LEMMA CloseFlow ==
    ASSUME ~Subtasks, Inv, opens \in 0 .. Len(Iss), NEW F, NEW B, Streams(F, B),
           NEW s \in Slot, Close(s)
    PROVE  StreamInv(B)'
<1>1. PICK x \in Begun(s) : Event(s, CloseCall(x))
  BY DEF Close
<1>2. PICK y : y = CloseCall(x)
  OBVIOUS
<1>3. PICK D : D = Drawn(opens)
  OBVIOUS
<1>4. Flow(x, F, D, B) /\ Kept(x, nobufs + 1) /\ Result(x) /\ x.t = tcb[s] /\ ~x.grad
  BY <1>1, <1>3, BegunFlow
<1>5. /\ tcb[s].state \notin {"FREE", "SYN_RCVD"} /\ tcb[s].psend = 0
      /\ Quiet => AllSent(tcb[s])
  BY EndsHere, MayCallQuiet DEF Close, MayCall, Live
<1>6. Flows(x, y, F, D, B)
  BY <1>2, <1>4, <1>5, CloseCallFlow
<1>7. Outcome(x.t, y, nobufs + 1)
  BY <1>2, <1>4, <1>5, CloseCallKeeps
<1>8. Result(y) /\ SamePlace(x.t, y.t)
  BY <1>7 DEF Outcome
<1>9. CASE Owns(x.t)
  BY <1>1, <1>2, <1>3, <1>6, <1>8, <1>9, CallFlow
<1>10. CASE ~Owns(x.t)
  <2>1. x.t.state = "LISTEN"
    BY <1>4, <1>5, <1>10 DEF Owns
  <2>2. y = Gone(x)
    BY <1>2, <2>1 DEF CloseCall
  <2>3. Flow(y, F, D, B)
    BY <1>4, <2>2, GoneFlow
  <2>4. y.t = x.t
    BY <1>4, <2>2 DEF Gone, Result, ResultFields
  <2> QED
    BY <1>1, <1>2, <1>3, <1>8, <2>3, <2>4, CallFlow
<1> QED
  BY <1>9, <1>10

(* The retransmission timer. *)
LEMMA RexmitEventFlow ==
    ASSUME Inv, opens \in 0 .. Len(Iss), NEW F, NEW B, Streams(F, B), NEW s \in Slot, Rexmit(s)
    PROVE  StreamInv(B)'
<1>1. PICK x \in Begun(s) : Event(s, RexmitExpire([x EXCEPT !.t.rexmit = FALSE]))
  BY DEF Rexmit
<1>2. PICK w : w = [x EXCEPT !.t.rexmit = FALSE]
  OBVIOUS
<1>3. PICK y : y = RexmitExpire(w)
  OBVIOUS
<1>4. PICK D : D = Drawn(opens)
  OBVIOUS
<1>5. Flow(x, F, D, B) /\ Kept(x, nobufs + 1) /\ Result(x) /\ x.t = tcb[s] /\ ~x.grad
  BY <1>1, <1>4, BegunFlow
<1>6. x.t.rexmit /\ (x.t.state = "SYN_SENT" => x.t.fport = Service)
  BY <1>5 DEF Rexmit, Kept, TcbInv, CallOK
<1>7. Owns(x.t)
  BY <1>5, <1>6 DEF Flow, Aligned, SendPos
<1>8. Flow(y, F, D, B)
  BY <1>2, <1>3, <1>5, <1>6, RexmitFlow
<1>9. Outcome(x.t, y, nobufs + 1)
  BY <1>2, <1>3, <1>5, <1>6, RexmitKeeps
<1>10. Result(y) /\ SamePlace(x.t, y.t)
  BY <1>9 DEF Outcome
<1>11. Flows(x, y, F, D, B)
  BY <1>8, FlowsNow
<1> QED
  BY <1>1, <1>2, <1>3, <1>4, <1>7, <1>10, <1>11, CallFlow

(* The persist timer. *)
LEMMA PersistEventFlow ==
    ASSUME Inv, opens \in 0 .. Len(Iss), NEW F, NEW B, Streams(F, B), NEW s \in Slot, Persist(s)
    PROVE  StreamInv(B)'
<1>1. PICK x \in Begun(s) : Event(s, PersistExpire([x EXCEPT !.t.persist = FALSE]))
  BY DEF Persist
<1>2. PICK w : w = [x EXCEPT !.t.persist = FALSE]
  OBVIOUS
<1>3. PICK y : y = PersistExpire(w)
  OBVIOUS
<1>4. PICK D : D = Drawn(opens)
  OBVIOUS
<1>5. Flow(x, F, D, B) /\ Kept(x, nobufs + 1) /\ Result(x) /\ x.t = tcb[s] /\ ~x.grad
  BY <1>1, <1>4, BegunFlow
<1>6. x.t.persist
  BY <1>5 DEF Persist
<1>7. Owns(x.t)
  BY <1>5, <1>6 DEF Flow, Aligned, SendPos
<1>8. Flow(y, F, D, B)
  BY <1>2, <1>3, <1>5, <1>6, PersistFlow
<1>9. Outcome(x.t, y, nobufs + 1)
  BY <1>2, <1>3, <1>5, <1>6, PersistKeeps
<1>10. Result(y) /\ SamePlace(x.t, y.t)
  BY <1>9 DEF Outcome
<1>11. Flows(x, y, F, D, B)
  BY <1>8, FlowsNow
<1> QED
  BY <1>1, <1>2, <1>3, <1>4, <1>7, <1>10, <1>11, CallFlow

(* TIME_WAIT ends. *)
LEMMA TimeWaitEndsFlow ==
    ASSUME Inv, opens \in 0 .. Len(Iss), NEW F, NEW B, Streams(F, B), NEW s \in Slot,
           TimeWaitEnds(s)
    PROVE  StreamInv(B)'
<1>1. PICK x \in Begun(s) : Event(s, Gone(x))
  BY DEF TimeWaitEnds
<1>2. PICK y : y = Gone(x)
  OBVIOUS
<1>3. PICK D : D = Drawn(opens)
  OBVIOUS
<1>4. Flow(x, F, D, B) /\ Kept(x, nobufs + 1) /\ Result(x)
  BY <1>1, <1>3, BegunFlow
<1>5. Flow(y, F, D, B)
  BY <1>2, <1>4, GoneFlow
<1>6. y.t = x.t
  BY <1>2, <1>4 DEF Gone, Result, ResultFields
<1>7. Outcome(x.t, y, nobufs + 1)
  BY <1>2, <1>4, GoneKeeps
<1>8. Result(y) /\ SamePlace(x.t, y.t)
  BY <1>7 DEF Outcome
<1> QED
  BY <1>1, <1>2, <1>3, <1>5, <1>6, <1>8, CallFlow

-----------------------------------------------------------------------------
(* The network, and what leaves the streams alone.                          *)
(* A segment for a connection.                                              *)
LEMMA ToConnectionFlow ==
    ASSUME Inv, opens \in 0 .. Len(Iss), NEW F, NEW B, Streams(F, B),
           NEW g \in net, NEW rest \in SUBSET net, NEW s \in Connection(g),
           ToConnection(s, g, rest)
    PROVE  StreamInv(B)'
<1>1. PICK room \in BOOLEAN :
         LET x == StateInput(Begin(tcb[s], room), g)
         IN /\ Room(room) /\ tcb' = After(tcb, s, x) /\ net' = Carry(rest, x.out)
            /\ UNCHANGED <<ephem, opens>>
  BY DEF ToConnection
<1>2. PICK x : x = Begin(tcb[s], room)
  OBVIOUS
<1>3. PICK y : y = StateInput(x, g)
  OBVIOUS
<1>4. /\ Room(room) /\ tcb' = After(tcb, s, y) /\ net' = Carry(rest, y.out)
      /\ opens' = opens
  BY <1>1, <1>2, <1>3
<1>5. /\ s \in Slot /\ tcb[s].state \notin {"FREE", "LISTEN"} /\ tcb[s].lport = g.dport
      /\ SegOK(g)
  BY DEF Connection, Live, Inv
<1>6. /\ Kept(x, nobufs') /\ (Quiet => FinOK(x.t, Before(x, nobufs')))
      /\ x.t = tcb[s] /\ ~x.grad /\ ~x.gone
  BY <1>2, <1>4, <1>5, BeginKept
<1>7. PICK n : n = nobufs'
  OBVIOUS
<1>8. Kept(x, n) /\ (Quiet => FinOK(x.t, Before(x, n)))
  BY <1>6, <1>7
<1>9. Outcome(x.t, y, n)
  BY <1>3, <1>5, <1>6, <1>8, StateInputKeeps
<1>10. Result(y) /\ SamePlace(x.t, y.t)
  BY <1>9 DEF Outcome
<1>11. PICK D : D = Drawn(opens)
  OBVIOUS
<1>12. Flow(x, F, D, B) /\ Carries(g, F, D)
  <2>1. x.out = {}
    BY <1>2 DEF Begin
  <2>2. Carries(g, F, D)
    BY <1>11 DEF Streams
  <2> QED
    BY <1>5, <1>6, <1>11, <2>1, <2>2, BlockFlow
<1>13. Flows(x, y, F, D, B)
  BY <1>3, <1>5, <1>6, <1>8, <1>12, StateInputFlow
<1>14. Owns(x.t)
  BY <1>5, <1>6 DEF Owns
<1> QED
  BY <1>4, <1>5, <1>6, <1>10, <1>11, <1>13, <1>14, EventFlow

(* The table stays, and the network carries what it did. *)
LEMMA NetFlow ==
    ASSUME opens \in 0 .. Len(Iss), NEW F, NEW B, Streams(F, B), tcb' = tcb, opens' = opens,
           \A g \in net' : g \in net \/ Carries(g, F, Drawn(opens))
    PROVE  StreamInv(B)'
<1>1. PICK D : D = Drawn(opens)
  OBVIOUS
<1>2. World(F, D, B) /\ TableFits(tcb, F, D, B) /\ \A g \in net : Carries(g, F, D)
  BY <1>1 DEF Streams
<1>3. (\A g \in net' : Carries(g, F, D)) /\ D = Drawn(opens')
  BY <1>1, <1>2
<1>4. TableFits(tcb', F, D, B)
  BY <1>2
<1>5. Streams(F, B)'
  BY <1>2, <1>3, <1>4 DEF Streams
<1> QED
  BY <1>5 DEF StreamInv

(* A segment that belongs to nothing. *)
LEMMA AnswerFlow ==
    ASSUME opens \in 0 .. Len(Iss), NEW F, NEW B, Streams(F, B),
           NEW g \in net, NEW rest \in SUBSET net, Answer(g, rest)
    PROVE  StreamInv(B)'
<1>1. PICK r : r = RstFor(g)
  OBVIOUS
<1>2. Carries(r, F, Drawn(opens))
  BY <1>1, RstCarries
<1>3. tcb' = tcb /\ opens' = opens /\ (net' = rest \/ net' = Carry(rest, {r}))
  BY <1>1 DEF Answer
<1>4. \A z \in Carry(rest, {r}) : z \in net \/ z = r
  BY DEF Carry
<1> QED
  BY <1>2, <1>3, <1>4, NetFlow

(* A table whose blocks stand in their streams as they did. *)
LEMMA SeemsFlow ==
    ASSUME Inv, opens \in 0 .. Len(Iss), NEW F, NEW B, Streams(F, B), opens' = opens,
           net' = net, \A c \in Slot : Seems(tcb[c], tcb'[c])
    PROVE  StreamInv(B)'
<1>1. PICK D : D = Drawn(opens)
  OBVIOUS
<1>2. World(F, D, B) /\ TableFits(tcb, F, D, B) /\ \A g \in net : Carries(g, F, D)
  BY <1>1 DEF Streams
<1>3. \A c \in Slot : DataOK(tcb[c])
  BY DEF Inv, TableOK, TcbInv
<1>4. TableFits(tcb', F, D, B)
  BY <1>2, <1>3, TableSeems
<1>5. (\A g \in net' : Carries(g, F, D)) /\ D = Drawn(opens')
  BY <1>1, <1>2
<1>6. Streams(F, B)'
  BY <1>2, <1>4, <1>5 DEF Streams
<1> QED
  BY <1>6 DEF StreamInv

(* ACCEPT. *)
LEMMA AcceptFlow ==
    ASSUME Inv, opens \in 0 .. Len(Iss), NEW F, NEW B, Streams(F, B), NEW s \in Slot, Accept(s)
    PROVE  StreamInv(B)'
<1>1. PICK q : q = tcb[s].acceptq
  OBVIOUS
<1>2. /\ tcb' = IF q = <<>> THEN [tcb EXCEPT ![s].pacc = TRUE]
                ELSE [tcb EXCEPT ![s].acceptq = Tail(q), ![Head(q)].listener = NoTcb]
      /\ net' = net /\ opens' = opens
  BY <1>1 DEF Accept
<1>3. /\ DOMAIN tcb = Slot /\ QueueOf(tcb, s)
      /\ \A c \in Slot : TcbFields \subseteq DOMAIN tcb[c]
  BY TableFields DEF Inv, TableOK, AcceptInv
<1>4. ASSUME NEW c \in Slot
      PROVE  Seems(tcb[c], tcb'[c])
  <2>1. PICK t : t = tcb[c] /\ TcbFields \subseteq DOMAIN t
    BY <1>3
  <2>2. CASE q = <<>>
    <3>1. tcb'[c] = t \/ tcb'[c] = [t EXCEPT !.pacc = TRUE]
      BY <1>2, <1>3, <2>1, <2>2
    <3> QED
      BY <2>1, <3>1, PlaceSeems
  <2>3. CASE q # <<>>
    <3>1. PICK r, k : r = Tail(q) /\ k = Head(q)
      OBVIOUS
    <3>2. PICK mid : mid = [tcb EXCEPT ![s].acceptq = r]
      OBVIOUS
    <3>3. mid[c] = t \/ mid[c] = [t EXCEPT !.acceptq = r]
      BY <1>3, <2>1, <3>2
    <3>4. PICK m : m = mid[c] /\ Seems(t, m) /\ TcbFields \subseteq DOMAIN m
      BY <2>1, <3>3, PlaceSeems
    <3>5. tcb' = [mid EXCEPT ![k].listener = NoTcb]
      BY <1>2, <2>3, <3>1, <3>2
    <3>6. DOMAIN mid = Slot
      BY <1>3, <3>2
    <3>7. PICK u : u = tcb'[c] /\ (u = m \/ u = [m EXCEPT !.listener = NoTcb])
      BY <3>4, <3>5, <3>6
    <3>8. Seems(m, u)
      BY <3>4, <3>7, PlaceSeems
    <3>9. Seems(t, u)
      BY <3>4, <3>8 DEF Seems, SameStream, SameIn, SameOut
    <3> QED
      BY <2>1, <3>7, <3>9
  <2> QED
    BY <2>2, <2>3
<1> QED
  BY <1>2, <1>4, SeemsFlow

(* A table with a block in place of one that ended. *)
LEMMA PlacedFits ==
    ASSUME NEW tab, DOMAIN tab = Slot, \A c \in Slot : DataOK(tab[c]), NEW s \in Slot, NEW u,
           NEW F, NEW D, NEW B, TableFits(tab, F, D, B), Aligned(u, F, D, B),
           Owns(u) => \A c \in Slot : Owns(tab[c]) => tab[c].iss # u.iss,
           NEW new, new = [Destroyed(tab, s) EXCEPT ![s] = u]
    PROVE  TableFits(new, F, D, B)
<1>1. PICK dst : dst = Destroyed(tab, s)
  OBVIOUS
<1>2. DOMAIN dst = Slot
  BY <1>1 DEF Destroyed
<1>3. \A c \in Slot : TcbFields \subseteq DOMAIN tab[c]
  BY DEF DataOK
<1>4. \A c \in Slot : dst[c] = Blank(c) \/ Seems(tab[c], dst[c])
  BY <1>1, <1>3, DestroyedSeems
<1>5. TableFits(dst, F, D, B)
  BY <1>4, TableSeems
<1>6. \A c \in Slot : new[c] = IF c = s THEN u ELSE dst[c]
  BY <1>1, <1>2
<1>7. ASSUME NEW c \in Slot
      PROVE  Aligned(new[c], F, D, B)
  BY <1>5, <1>6 DEF TableFits
<1>8. ASSUME NEW c \in Slot, Owns(dst[c])
      PROVE  Owns(tab[c]) /\ tab[c].iss = dst[c].iss
  <2>1. Seems(tab[c], dst[c])
    BY <1>4, <1>8, BlankAligned
  <2> QED
    BY <1>8, <2>1 DEF Seems, SameStream, SameOut, Owns
<1>9. ASSUME NEW c \in Slot, NEW r \in Slot, Owns(new[c]), Owns(new[r]), new[c].iss = new[r].iss
      PROVE  c = r
  <2>1. CASE c = s /\ r # s
    BY <1>6, <1>8, <1>9, <2>1
  <2>2. CASE c # s /\ r = s
    BY <1>6, <1>8, <1>9, <2>2
  <2>3. CASE c # s /\ r # s
    BY <1>5, <1>6, <1>9, <2>3 DEF TableFits
  <2> QED
    BY <2>1, <2>2, <2>3
<1> QED
  BY <1>7, <1>9 DEF TableFits

(* LISTEN. *)
LEMMA ListenFlow ==
    ASSUME Inv, opens \in 0 .. Len(Iss), NEW F, NEW B, Streams(F, B), NEW h \in Hosts, Listen(h)
    PROVE  StreamInv(B)'
<1>1. PICK s \in Available(h), b \in Backlogs :
        tcb' = [Destroyed(tcb, s) EXCEPT ![s] = NewListener(h, b)]
  BY DEF Listen, NewListener
<1>2. net' = net /\ opens' = opens /\ s \in Slot
  BY <1>1, AvailableIs DEF Listen
<1>3. PICK u : u = NewListener(h, b)
  OBVIOUS
<1>4. PICK D : D = Drawn(opens)
  OBVIOUS
<1>5. World(F, D, B) /\ TableFits(tcb, F, D, B) /\ \A g \in net : Carries(g, F, D)
  BY <1>4 DEF Streams
<1>6. DOMAIN tcb = Slot /\ \A c \in Slot : DataOK(tcb[c])
  BY DEF Inv, TableOK, TcbInv
<1>7. /\ u.state = "LISTEN" /\ ~u.rexmit /\ ~u.persist /\ u.psend = 0 /\ u.rxq = <<>>
      /\ u.rcvd = 0 /\ u.flags = {}
  BY <1>3 DEF NewListener, Fresh
<1>8. Aligned(u, F, D, B) /\ ~Owns(u)
  BY <1>7, IdleAligned
<1>9. tcb' = [Destroyed(tcb, s) EXCEPT ![s] = u]
  BY <1>1, <1>3
<1>10. TableFits(tcb', F, D, B)
  BY <1>2, <1>5, <1>6, <1>8, <1>9, PlacedFits
<1>11. (\A g \in net' : Carries(g, F, D)) /\ D = Drawn(opens')
  BY <1>2, <1>4, <1>5
<1>12. Streams(F, B)'
  BY <1>5, <1>10, <1>11 DEF Streams
<1> QED
  BY <1>2, <1>12 DEF StreamInv

-----------------------------------------------------------------------------
(* A stream begins.                                                         *)
(* A number that is drawn is drawn once, and meets no stream.               *)
LEMMA DrawnApart ==
    ASSUME NEW k \in Nat, k < Len(Iss), NEW B \in Nat, B + 2 < SeqMod, Apart(B),
           NEW iss, iss = Iss[k + 1], NEW D, D = Drawn(k)
    PROVE  /\ iss \in Seq32 /\ iss \notin D /\ D \in SUBSET Seq32
           /\ Drawn(k + 1) = D \cup {iss} /\ Spread(D \cup {iss}, B)
<1>1. Len(Iss) \in Nat /\ DOMAIN Iss = 1 .. Len(Iss) /\ \A i \in 1 .. Len(Iss) : Iss[i] \in Seq32
  BY PortsAssumption
<1>2. k + 1 \in 1 .. Len(Iss) /\ 1 .. k \subseteq 1 .. Len(Iss) /\ k + 1 \notin 1 .. k
  BY <1>1
<1>3. iss \in Seq32 /\ D \in SUBSET Seq32
  BY <1>1, <1>2 DEF Drawn
<1>4. 1 .. k + 1 = (1 .. k) \cup {k + 1}
  OBVIOUS
<1>5. Drawn(k + 1) = D \cup {iss}
  BY <1>4 DEF Drawn
<1>6. iss \notin D
  <2>1. SUFFICES ASSUME NEW j \in 1 .. k, iss = Iss[j]
                 PROVE  FALSE
    BY DEF Drawn
  <2>2. j # k + 1 /\ j \in DOMAIN Iss /\ k + 1 \in DOMAIN Iss /\ 0 \in 0 .. B + 2
    BY <1>1, <1>2
  <2>3. Plus(Iss[k + 1], 0) # Plus(Iss[j], 0)
    BY <2>2 DEF Apart
  <2> QED
    BY <2>1, <2>3
<1>7. ASSUME NEW i \in D \cup {iss}, NEW j \in D \cup {iss}, NEW m \in 0 .. B + 2,
             NEW n \in 0 .. B + 2, Plus(i, m) = Plus(j, n)
      PROVE  i = j /\ m = n
  <2>1. PICK a \in DOMAIN Iss, b \in DOMAIN Iss : i = Iss[a] /\ j = Iss[b]
    BY <1>1, <1>2 DEF Drawn
  <2>2. a = b
    BY <1>7, <2>1 DEF Apart
  <2>3. i = j /\ i \in Seq32
    BY <1>3, <2>1, <2>2
  <2>4. m \in Nat /\ n \in Nat /\ m < SeqMod /\ n < SeqMod
    BY HalfSpace
  <2>5. m = n
    BY <1>7, <2>3, <2>4, OnePlace
  <2> QED
    BY <2>3, <2>5
<1>8. Spread(D \cup {iss}, B)
  BY <1>7 DEF Spread
<1> QED
  BY <1>3, <1>5, <1>6, <1>8

(* The ledger of the streams with a new one, which is empty. *)
LEMMA StreamOpens ==
    ASSUME opens \in Nat, opens < Len(Iss), NEW F, NEW B, Apart(B),
           NEW D, D = Drawn(opens), World(F, D, B), NEW i, i = Iss[opens + 1]
    PROVE  \E E : Opens(F, E, D, Drawn(opens + 1), B, i)
<1>1. B \in Nat /\ B + 2 < SeqMod /\ F \in Ledgers(B)
  BY WorldIs
<1>2. PICK k \in Nat : k = opens /\ k < Len(Iss) /\ i = Iss[k + 1] /\ D = Drawn(k)
  OBVIOUS
<1>3. /\ i \in Seq32 /\ i \notin D /\ D \in SUBSET Seq32
      /\ Drawn(k + 1) = D \cup {i} /\ Spread(D \cup {i}, B)
  <2>1. k < Len(Iss) /\ i = Iss[k + 1] /\ D = Drawn(k) /\ B \in Nat /\ B + 2 < SeqMod
    BY <1>1, <1>2
  <2> QED
    BY <2>1, DrawnApart, Zenon
<1>4. PICK E : E = [tot |-> [F.tot EXCEPT ![i] = 0], fin |-> F.fin \ {i}]
  OBVIOUS
<1>5. F.tot \in [Seq32 -> 0 .. B] /\ F.fin \in SUBSET Seq32
  BY <1>1 DEF Ledgers
<1>6. E.tot = [F.tot EXCEPT ![i] = 0] /\ E.fin = F.fin \ {i} /\ 0 \in 0 .. B
  BY <1>1, <1>4
<1>7. E \in Ledgers(B)
  <2>1. [F.tot EXCEPT ![i] = 0] \in [Seq32 -> 0 .. B]
    BY <1>5, <1>6
  <2>2. F.fin \ {i} \in SUBSET Seq32
    BY <1>5
  <2> QED
    BY <1>4, <2>1, <2>2 DEF Ledgers
<1>8. E.tot[i] = 0 /\ i \notin E.fin
  BY <1>3, <1>5, <1>6
<1>9. Agrees(F, E, D, D \cup {i})
  BY <1>3, <1>5, <1>6 DEF Agrees
<1>10. World(E, D \cup {i}, B)
  BY <1>1, <1>3, <1>7 DEF World
<1>11. Opens(F, E, D, D \cup {i}, B, i)
  BY <1>3, <1>8, <1>9, <1>10 DEF Opens
<1>12. PICK m : m = opens + 1
  OBVIOUS
<1>13. m = k + 1
  BY <1>2, <1>12
<1>14. Drawn(m) = D \cup {i}
  BY <1>3, <1>13
<1>15. Drawn(opens + 1) = D \cup {i}
  BY <1>12, <1>14
<1> QED
  BY <1>11, <1>15

(* What was said of the streams before stays true. *)
LEMMA AgreesAligned ==
    ASSUME NEW F, NEW E, NEW D, NEW C, Agrees(F, E, D, C), NEW t, NEW B, Aligned(t, F, D, B)
    PROVE  Aligned(t, E, C, B)
<1>1. RecvPos(t, F, D)
  BY DEF Aligned
<1>2. RecvPos(t, E, C)
  BY <1>1 DEF RecvPos, Agrees
<1>3. Booked(t, F, D, B) => Booked(t, E, C, B)
  BY DEF Booked, Agrees
<1> QED
  BY <1>2, <1>3 DEF Aligned

(* Of a segment, *)
LEMMA AgreesCarries ==
    ASSUME NEW F, NEW E, NEW D, NEW C, Agrees(F, E, D, C), NEW g, Carries(g, F, D)
    PROVE  Carries(g, E, C)
  BY DEF Carries, Agrees

(* and of the table. *)
LEMMA AgreesFits ==
    ASSUME NEW F, NEW E, NEW D, NEW C, Agrees(F, E, D, C), NEW tab, NEW B,
           TableFits(tab, F, D, B)
    PROVE  TableFits(tab, E, C, B)
  BY AgreesAligned DEF TableFits

(* A block whose SYN is numbered and not acknowledged. *)
Starts(t, i) ==
    /\ t.iss = i /\ t.una = i /\ t.nxt = Plus(i, 1)
    /\ t.sndq = 0 /\ t.sfree = 0 /\ t.psend = 0
    /\ Unended(t.flags) /\ "RCVFIN" \notin t.flags /\ t.rxq = <<>> /\ t.rcvd = 0

(* It stands at the beginning of its stream. *)
LEMMA StartsAligned ==
    ASSUME NEW t, NEW i, Starts(t, i), t.state \in Opening,
           NEW F, NEW E, NEW D, NEW C, NEW B, Opens(F, E, D, C, B, i),
           t.state = "SYN_RCVD" => t.irs \in C /\ t.rnxt = Plus(t.irs, 1)
    PROVE  Aligned(t, E, C, B)
<1>1. i \in Seq32 /\ i \in C /\ World(E, C, B) /\ E.tot[i] = 0 /\ i \notin E.fin
  BY DEF Opens
<1>2. t.state \notin Opened /\ t.state \notin Ending /\ Owns(t)
  BY DEF Opening, Opened, Ending, Owns
<1>3. Sent(t) = 1
  <2>1. PICK n \in Seq32 : n = Plus(i, 1)
    BY <1>1, PlusOne
  <2>2. 1 \in Seq32
    BY HalfSpace DEF Seq32
  <2>3. Minus(n, i) = 1
    BY <1>1, <2>1, <2>2, PlusMinus
  <2> QED
    BY <2>1, <2>3 DEF Starts, Sent
<1>4. SendPos(t)
  BY <1>2, <1>3 DEF SendPos, SynPhase, Starts, Unended
<1>5. Len(t.rxq) = 0 /\ t.rcvd = 0 /\ "RCVFIN" \notin t.flags /\ t.rxq = <<>>
  BY DEF Starts
<1>6. Received(t) = 0 /\ Eof(t) = 0
  BY <1>5 DEF Received, Eof
<1>7. RecvPos(t, E, C)
  <2>1. \A k \in 1 .. Len(t.rxq) : FALSE
    BY <1>5
  <2>2. ASSUME t.state \notin Unsynchronized
        PROVE  /\ t.irs \in C /\ t.rnxt = Plus(t.irs, 1 + Received(t) + Eof(t))
               /\ Received(t) <= E.tot[t.irs]
    <3>1. t.irs \in C /\ t.rnxt = Plus(t.irs, 1)
      BY <2>2 DEF Opening, Unsynchronized
    <3>2. C \in SUBSET Seq32 /\ B \in Nat /\ E \in Ledgers(B)
      BY <1>1, WorldIs
    <3>3. E.tot[t.irs] \in Nat
      BY <3>1, <3>2, LedgerType
    <3> QED
      BY <1>6, <3>1, <3>3
  <2> QED
    BY <1>5, <2>1, <2>2 DEF RecvPos
<1>8. Booked(t, E, C, B)
  <2>1. Held(t) = 0 /\ t.psend = 0 /\ t.iss = i /\ "FINSENT" \notin t.flags
    BY DEF Held, Starts, Unended
  <2>2. B \in Nat
    BY <1>1, WorldIs
  <2> QED
    BY <1>1, <2>1, <2>2 DEF Booked
<1> QED
  BY <1>4, <1>7, <1>8 DEF Aligned

(* With its timer set, too. *)
LEMMA StartsFlow ==
    ASSUME NEW t, DataOK(t), NEW i, Starts(t, i), t.state \in Opening,
           NEW F, NEW E, NEW D, NEW C, NEW B, Opens(F, E, D, C, B, i),
           t.state = "SYN_RCVD" => t.irs \in C /\ t.rnxt = Plus(t.irs, 1),
           NEW u, u = Timers(t)
    PROVE  Aligned(u, E, C, B) /\ u.iss = i
<1>1. Aligned(t, E, C, B)
  BY StartsAligned
<1>2. SameStream(t, u) /\ u.state = t.state /\ (u.rexmit => t.una # t.nxt)
  BY TimersSame
<1>3. Owns(t)
  BY DEF Opening, Owns
<1>4. Aligned(u, E, C, B)
  BY <1>1, <1>2, <1>3, AlignedStays DEF SameKind
<1> QED
  BY <1>2, <1>4 DEF SameStream, SameOut, Starts

(* Its SYN is at its place in the stream. *)
LEMMA SynCarries ==
    ASSUME NEW t, DataOK(t), NEW i, Starts(t, i), t.state \in Opening,
           NEW F, NEW E, NEW D, NEW C, NEW B, Opens(F, E, D, C, B, i),
           t.state = "SYN_RCVD" => t.irs \in C /\ t.rnxt = Plus(t.irs, 1),
           NEW room \in BOOLEAN, NEW fl, fl \in {{"SYN"}, {"SYN", "ACK"}}
    PROVE  \A g \in Emit(Begin(t, room), fl).out : Carries(g, E, C)
<1>1. Aligned(t, E, C, B)
  BY StartsAligned
<1>2. PICK x : x = Begin(t, room)
  OBVIOUS
<1>3. Result(x) /\ x.t = t
  BY <1>2, BeginResult
<1>4. x.out = {}
  BY <1>2 DEF Begin
<1>5. World(E, C, B) /\ i \in C
  BY DEF Opens
<1>6. Flow(x, E, C, B)
  BY <1>1, <1>3, <1>4, <1>5 DEF Flow
<1>7. PICK y : y = Emit(x, fl)
  OBVIOUS
<1>8. x.t.iss \in C /\ "FIN" \notin fl
  BY <1>3, <1>5 DEF Starts
<1>9. Flow(y, E, C, B)
  BY <1>3, <1>6, <1>7, <1>8, EmitFlow
<1> QED
  BY <1>2, <1>7, <1>9 DEF Flow

(* The table and the network once a stream began in the place s. *)
LEMMA OpenFlow ==
    ASSUME Inv, opens < Len(Iss), NEW F, NEW B, Streams(F, B), NEW i, NEW E,
           NEW D, D = Drawn(opens), NEW C, C = Drawn(opens + 1), Opens(F, E, D, C, B, i),
           NEW s \in Slot, NEW u, Aligned(u, E, C, B), Owns(u) => u.iss = i,
           tcb' = [Destroyed(tcb, s) EXCEPT ![s] = u], opens' = opens + 1,
           \A g \in net' : g \in net \/ Carries(g, E, C)
    PROVE  StreamInv(B)'
<1>1. World(F, D, B) /\ TableFits(tcb, F, D, B) /\ \A g \in net : Carries(g, F, D)
  BY DEF Streams
<1>2. DOMAIN tcb = Slot /\ \A c \in Slot : DataOK(tcb[c])
  BY DEF Inv, TableOK, TcbInv
<1>3. Agrees(F, E, D, C) /\ i \notin D /\ World(E, C, B)
  BY DEF Opens
<1>4. TableFits(tcb, E, C, B)
  BY <1>1, <1>3, AgreesFits
<1>5. \A c \in Slot : Owns(tcb[c]) => tcb[c].iss # i
  BY <1>1, <1>3 DEF TableFits, Aligned, Booked
<1>6. Owns(u) => \A c \in Slot : Owns(tcb[c]) => tcb[c].iss # u.iss
  BY <1>5
<1>7. TableFits(tcb', E, C, B)
  BY <1>2, <1>4, <1>6, PlacedFits
<1>8. \A g \in net : Carries(g, E, C)
  BY <1>1, <1>3, AgreesCarries
<1>9. (\A g \in net' : Carries(g, E, C)) /\ C = Drawn(opens')
  BY <1>8
<1>10. Streams(E, B)'
  BY <1>3, <1>7, <1>9 DEF Streams
<1>11. opens' \in 0 .. Len(Iss)
  <2>1. opens \in Nat /\ Len(Iss) \in Nat
    BY PortsAssumption DEF Inv
  <2> QED
    BY <2>1
<1> QED
  BY <1>10, <1>11 DEF StreamInv

(* The block of CONNECT. *)
LEMMA CallerStarts ==
    ASSUME NEW h, NEW f, NEW p, NEW fl, Unended(fl), "RCVFIN" \notin fl, NEW i \in Seq32,
           NEW t, t = NewCaller(h, f, p, fl, i)
    PROVE  DataOK(t) /\ Starts(t, i) /\ t.state = "SYN_SENT"
<1>1. PICK b : b = Fresh(h, "SYN_SENT")
  OBVIOUS
<1>2. "SYN_SENT" \in States
  BY DEF States
<1>3. DataOK(b)
  BY <1>1, <1>2, FreshIs
<1>4. PICK m \in Seq32 : m = Plus(i, 1)
  BY PlusOne
<1>5. PICK v : v = CallerOf(b, f, p, fl, i, m)
  OBVIOUS
<1>6. DataOK(v)
  BY <1>3, <1>4, <1>5, CallerBlock
<1>7. t = v
  BY <1>1, <1>4, <1>5 DEF NewCaller
<1>8. /\ t.iss = i /\ t.una = i /\ t.nxt = m /\ t.sndq = 0 /\ t.sfree = 0 /\ t.psend = 0
      /\ t.flags = fl /\ t.rxq = <<>> /\ t.rcvd = 0 /\ t.state = "SYN_SENT"
  BY <1>1, <1>5, <1>7 DEF CallerOf, Fresh
<1> QED
  BY <1>4, <1>6, <1>7, <1>8 DEF Starts

(* With its SYN sent, or CLOSED without a buffer for it. *)
LEMMA CalledFlow ==
    ASSUME NEW t, DataOK(t), NEW i, Starts(t, i), t.state = "SYN_SENT",
           NEW F, NEW E, NEW D, NEW C, NEW B, Opens(F, E, D, C, B, i),
           NEW parks \in BOOLEAN, NEW room \in BOOLEAN, NEW u, u = Called(t, parks, room)
    PROVE  Aligned(u, E, C, B) /\ u.iss = i
<1>1. CASE room
  <2>1. PICK v : v = [t EXCEPT !.pconn = parks]
    OBVIOUS
  <2>2. DataOK(v)
    BY <2>1 DEF DataOK, TcbFields
  <2>3. Starts(v, i) /\ v.state = "SYN_SENT"
    BY <2>1 DEF Starts, DataOK, TcbFields
  <2>4. v.state \in Opening /\ v.state # "SYN_RCVD"
    BY <2>3 DEF Opening
  <2>5. u = Timers(v)
    BY <1>1, <2>1 DEF Called
  <2> QED
    BY <2>2, <2>3, <2>4, <2>5, StartsFlow
<1>2. CASE ~room
  <2>1. u = [t EXCEPT !.state = "CLOSED"]
    BY <1>2 DEF Called
  <2>2. Starts(u, i) /\ u.state = "CLOSED"
    BY <2>1 DEF Starts, DataOK, TcbFields
  <2>3. u.state \in Opening /\ u.state # "SYN_RCVD"
    BY <2>2 DEF Opening
  <2> QED
    BY <2>2, <2>3, StartsAligned DEF Starts
<1> QED
  BY <1>1, <1>2

(* CONNECT. *)
LEMMA ConnectFlow ==
    ASSUME Inv, NEW F, NEW B, Apart(B), Streams(F, B), NEW h \in Hosts, Connect(h)
    PROVE  StreamInv(B)'
<1>1. PICK i, D, C : i = Iss[opens + 1] /\ D = Drawn(opens) /\ C = Drawn(opens + 1)
  OBVIOUS
<1>2. opens \in Nat /\ opens < Len(Iss) /\ opens' = opens + 1 /\ World(F, D, B)
  BY <1>1 DEF Inv, Connect, Streams
<1>3. PICK E : Opens(F, E, D, C, B, i)
  BY <1>1, <1>2, StreamOpens
<1>4. PICK s \in Available(h) \cup {s \in Slot : HostOf[s] = h /\ tcb[s].state = "CLOSED"},
         p \in FreePorts(h), parks \in BOOLEAN, room \in BOOLEAN : Connects(h, s, p, parks, room)
  BY ConnectIs
<1>5. s \in Slot /\ parks \in BOOLEAN /\ room \in BOOLEAN
  BY <1>4, AvailableIs
<1>6. PICK k, fl : /\ k = IF tcb[s].state = "CLOSED" THEN tcb[s].lport ELSE p
                   /\ fl = IF tcb[s].state = "CLOSED" THEN tcb[s].flags ELSE {}
  OBVIOUS
<1>7. PICK t : t = NewCaller(h, Other(h), k, fl, i)
  OBVIOUS
<1>8. PICK u : u = Called(t, parks, room)
  OBVIOUS
<1>9. PICK out : out = SynSent(t, room)
  OBVIOUS
<1>10. tcb' = [Destroyed(tcb, s) EXCEPT ![s] = u] /\ net' = Carry(net, out)
  BY <1>1, <1>4, <1>6, <1>7, <1>8, <1>9 DEF Connects
<1>11. i \in Seq32 /\ Unended(fl) /\ "RCVFIN" \notin fl
  <2>1. Aligned(tcb[s], F, D, B)
    BY <1>1, <1>5 DEF Streams, TableFits
  <2>2. tcb[s].state = "CLOSED" => SynPhase(tcb[s]) /\ "RCVFIN" \notin tcb[s].flags
    BY <2>1 DEF Aligned, SendPos, RecvPos, Opening, Unsynchronized
  <2> QED
    BY <1>3, <1>6, <2>2 DEF Opens, SynPhase, Unended
<1>12. DataOK(t) /\ Starts(t, i) /\ t.state = "SYN_SENT"
  BY <1>7, <1>11, CallerStarts
<1>13. Aligned(u, E, C, B) /\ u.iss = i
  BY <1>3, <1>5, <1>8, <1>12, CalledFlow
<1>14. \A g \in out : Carries(g, E, C)
  <2>1. t.state \in Opening /\ t.state # "SYN_RCVD" /\ {"SYN"} \in {{"SYN"}, {"SYN", "ACK"}}
    BY <1>12 DEF Opening
  <2> QED
    BY <1>3, <1>5, <1>9, <1>12, <2>1, SynCarries DEF SynSent
<1>15. \A g \in net' : g \in net \/ Carries(g, E, C)
  BY <1>10, <1>14 DEF Carry
<1> QED
  BY <1>1, <1>2, <1>3, <1>5, <1>10, <1>13, <1>15, OpenFlow

(* The block of tcp_passive_open: it begins to receive the peer's stream. *)
LEMMA ChildStarts ==
    ASSUME NEW h, NEW l, NEW g, SegOK(g), NEW i \in Seq32, NEW t, t = NewChild(h, l, g, i)
    PROVE  /\ DataOK(t) /\ Starts(t, i) /\ t.state = "SYN_RCVD"
           /\ t.irs = g.seq /\ t.rnxt = Plus(t.irs, 1)
<1>1. PICK b : b = Fresh(h, "SYN_RCVD")
  OBVIOUS
<1>2. PICK m, r : m = Plus(i, 1) /\ r = Plus(g.seq, 1)
  OBVIOUS
<1>3. t = ChildOf(b, g.from, g.dport, g.sport, l, i, m, g.seq, r, g.wnd)
  BY <1>1, <1>2 DEF NewChild
<1>4. /\ t.iss = i /\ t.una = i /\ t.nxt = m /\ t.sndq = 0 /\ t.sfree = 0 /\ t.psend = 0
      /\ t.flags = {} /\ t.rxq = <<>> /\ t.rcvd = 0 /\ t.state = "SYN_RCVD"
      /\ t.irs = g.seq /\ t.rnxt = r
  BY <1>1, <1>3 DEF ChildOf, Fresh
<1>5. DataOK(t)
  <2>1. PICK n \in Nat : n = 0
    OBVIOUS
  <2>2. PICK u : u = Timers(t)
    OBVIOUS
  <2> QED
    BY <2>1, <2>2, ChildKept
<1> QED
  BY <1>2, <1>4, <1>5 DEF Starts, Unended

(* tcp_passive_open. *)
LEMMA PassiveOpenFlow ==
    ASSUME Inv, NEW F, NEW B, Apart(B), Streams(F, B), NEW g \in net, NEW rest \in SUBSET net,
           NEW l \in Slot, "SYN" \in g.fl, opens < Len(Iss), PassiveOpen(l, g, rest)
    PROVE  StreamInv(B)'
<1>1. PICK i, D, C : i = Iss[opens + 1] /\ D = Drawn(opens) /\ C = Drawn(opens + 1)
  OBVIOUS
<1>2. /\ opens \in Nat /\ World(F, D, B) /\ Carries(g, F, D) /\ SegOK(g)
  BY <1>1 DEF Inv, Streams
<1>3. PICK E : Opens(F, E, D, C, B, i)
  BY <1>1, <1>2, StreamOpens
<1>4. PICK s \in Available(HostOf[l]), room \in BOOLEAN :
        LET t == [Fresh(HostOf[l], "SYN_RCVD") EXCEPT
                    !.faddr = g.from, !.lport = g.dport, !.fport = g.sport, !.listener = l,
                    !.iss = i, !.una = i, !.nxt = Plus(i, 1), !.irs = g.seq,
                    !.rnxt = Plus(g.seq, 1), !.wnd = g.wnd, !.wl1 = g.seq, !.wl2 = i]
        IN /\ tcb' = [Destroyed(tcb, s) EXCEPT ![s] = IF room THEN Timers(t) ELSE Blank(s)]
           /\ net' = Carry(rest, Emit(Begin(t, room), {"SYN", "ACK"}).out)
           /\ opens' = opens + 1
  BY <1>1 DEF PassiveOpen
<1>5. PICK t : t = NewChild(HostOf[l], l, g, i)
  OBVIOUS
<1>6. PICK u : u = IF room THEN Timers(t) ELSE Blank(s)
  OBVIOUS
<1>7. PICK out : out = Emit(Begin(t, room), {"SYN", "ACK"}).out
  OBVIOUS
<1>8. /\ tcb' = [Destroyed(tcb, s) EXCEPT ![s] = u] /\ net' = Carry(rest, out)
      /\ opens' = opens + 1
  BY <1>4, <1>5, <1>6, <1>7 DEF ChildOf, NewChild
<1>9. s \in Slot /\ i \in Seq32
  BY <1>3, AvailableIs DEF Opens
<1>10. /\ DataOK(t) /\ Starts(t, i) /\ t.state = "SYN_RCVD"
       /\ t.irs = g.seq /\ t.rnxt = Plus(t.irs, 1)
  BY <1>2, <1>5, <1>9, ChildStarts
<1>11. t.irs \in C /\ t.state \in Opening
  BY <1>2, <1>3, <1>10 DEF Carries, Opens, Opening
<1>12. Aligned(u, E, C, B) /\ (Owns(u) => u.iss = i)
  <2>1. CASE room
    BY <1>3, <1>6, <1>10, <1>11, <2>1, StartsFlow
  <2>2. CASE ~room
    BY <1>6, <2>2, BlankAligned
  <2> QED
    BY <2>1, <2>2
<1>13. \A z \in out : Carries(z, E, C)
  <2>1. {"SYN", "ACK"} \in {{"SYN"}, {"SYN", "ACK"}} /\ room \in BOOLEAN
    BY <1>4
  <2> QED
    BY <1>3, <1>7, <1>10, <1>11, <2>1, SynCarries
<1>14. \A z \in net' : z \in net \/ Carries(z, E, C)
  BY <1>8, <1>13 DEF Carry
<1> QED
  BY <1>1, <1>3, <1>8, <1>9, <1>12, <1>14, OpenFlow

(* A segment arrives. *)
LEMMA ArriveFlow ==
    ASSUME Inv, opens \in 0 .. Len(Iss), NEW F, NEW B, Apart(B), Streams(F, B),
           NEW g \in net, Arrive(g)
    PROVE  StreamInv(B)'
<1>1. PICK rest \in SUBSET net :
        IF Connection(g) # {} THEN \E s \in Connection(g) : ToConnection(s, g, rest)
        ELSE IF ListenerOf(g) # {} THEN \E l \in ListenerOf(g) : ToListener(l, g, rest)
             ELSE Answer(g, rest)
  BY DEF Arrive
<1>2. CASE \E s \in Connection(g) : ToConnection(s, g, rest)
  BY <1>2, ToConnectionFlow
<1>3. CASE \E l \in ListenerOf(g) : ToListener(l, g, rest)
  <2>1. PICK l \in ListenerOf(g) : ToListener(l, g, rest)
    BY <1>3
  <2>2. l \in Slot
    BY DEF ListenerOf
  <2>3. CASE Answer(g, rest)
    BY <2>3, AnswerFlow
  <2>4. CASE "SYN" \in g.fl /\ opens < Len(Iss) /\ PassiveOpen(l, g, rest)
    BY <2>2, <2>4, PassiveOpenFlow
  <2>5. CASE net' = rest /\ UNCHANGED <<tcb, ephem, opens, nobufs>>
    BY <2>5, NetFlow
  <2> QED
    BY <2>1, <2>3, <2>4, <2>5 DEF ToListener
<1>4. CASE Answer(g, rest)
  BY <1>4, AnswerFlow
<1> QED
  BY <1>1, <1>2, <1>3, <1>4

(* No stream has begun at the start. *)
LEMMA InitFlow ==
    ASSUME NEW B \in Nat, B + 2 < SeqMod, Init
    PROVE  StreamInv(B)
<1>1. opens = 0 /\ net = {} /\ \A s \in Slot : tcb[s] = Blank(s)
  BY DEF Init
<1>2. Len(Iss) \in Nat /\ 0 \in 0 .. Len(Iss)
  BY PortsAssumption
<1>3. PICK D : D = Drawn(opens) /\ D = {}
  BY <1>1 DEF Drawn
<1>4. PICK F : F = [tot |-> [j \in Seq32 |-> 0], fin |-> {}]
  OBVIOUS
<1>5. F \in Ledgers(B)
  <2>1. [j \in Seq32 |-> 0] \in [Seq32 -> 0 .. B]
    OBVIOUS
  <2> QED
    BY <1>4, <2>1 DEF Ledgers
<1>6. World(F, D, B)
  BY <1>3, <1>5 DEF World, Spread
<1>7. TableFits(tcb, F, D, B)
  BY <1>1, BlankAligned DEF TableFits
<1>8. \A g \in net : Carries(g, F, D)
  BY <1>1
<1>9. Streams(F, B)
  BY <1>3, <1>6, <1>7, <1>8 DEF Streams
<1> QED
  BY <1>1, <1>2, <1>9 DEF StreamInv

(* Every step keeps the streams. *)
LEMMA NextFlow ==
    ASSUME ~Subtasks, NEW B \in Nat, \A h \in Hosts : ByteMax[h] \in Nat /\ ByteMax[h] <= B,
           Apart(B), Inv, StreamInv(B), [Next]_vars
    PROVE  StreamInv(B)'
<1>1. PICK F : Streams(F, B)
  BY DEF StreamInv
<1>2. opens \in 0 .. Len(Iss)
  BY DEF StreamInv
<1>3. CASE \E h \in Hosts : Listen(h) \/ Connect(h)
  <2>1. CASE \E h \in Hosts : Listen(h)
    BY <1>1, <1>2, <2>1, ListenFlow
  <2>2. CASE \E h \in Hosts : Connect(h)
    BY <1>1, <2>2, ConnectFlow
  <2> QED
    BY <1>3, <2>1, <2>2
<1>4. ASSUME NEW s \in Slot,
             \/ Accept(s) \/ SendData(s) \/ Recv(s) \/ Shutdown(s) \/ Close(s)
             \/ Rexmit(s) \/ Persist(s) \/ TimeWaitEnds(s)
      PROVE  StreamInv(B)'
  <2>1. CASE Accept(s)
    BY <1>1, <1>2, <2>1, AcceptFlow
  <2>2. CASE SendData(s)
    BY <1>1, <1>2, <2>2, SendDataFlow
  <2>3. CASE Recv(s)
    BY <1>1, <1>2, <2>3, RecvEventFlow
  <2>4. CASE Shutdown(s)
    BY <1>1, <1>2, <2>4, ShutdownFlow
  <2>5. CASE Close(s)
    BY <1>1, <1>2, <2>5, CloseFlow
  <2>6. CASE Rexmit(s)
    BY <1>1, <1>2, <2>6, RexmitEventFlow
  <2>7. CASE Persist(s)
    BY <1>1, <1>2, <2>7, PersistEventFlow
  <2>8. CASE TimeWaitEnds(s)
    BY <1>1, <1>2, <2>8, TimeWaitEndsFlow
  <2> QED
    BY <1>4, <2>1, <2>2, <2>3, <2>4, <2>5, <2>6, <2>7, <2>8
<1>5. ASSUME NEW g \in net, Arrive(g) \/ Lose(g)
      PROVE  StreamInv(B)'
  <2>1. CASE Arrive(g)
    BY <1>1, <1>2, <2>1, ArriveFlow
  <2>2. CASE Lose(g)
    BY <1>1, <1>2, <2>2, NetFlow DEF Lose
  <2> QED
    BY <1>5, <2>1, <2>2
<1>6. CASE UNCHANGED vars
  BY <1>1, <1>2, <1>6, NetFlow DEF vars
<1> QED
  BY <1>3, <1>4, <1>5, <1>6 DEF Next

(* What the invariant of the streams says of the two ends of a connection. *)
LEMMA StreamsIntact ==
    ASSUME Inv, NEW B, StreamInv(B)
    PROVE  StreamIntact
<1>1. PICK F : Streams(F, B)
  BY DEF StreamInv
<1>2. PICK D : D = Drawn(opens)
  OBVIOUS
<1>3. \A s \in Slot : Aligned(tcb[s], F, D, B) /\ DataOK(tcb[s])
  BY <1>1, <1>2 DEF Streams, TableFits, Inv, TableOK, TcbInv
<1>4. ASSUME NEW s \in Slot
      PROVE  \A i \in DOMAIN tcb[s].rxq :
               tcb[s].rxq[i][1] = tcb[s].irs /\ tcb[s].rxq[i][2] = tcb[s].rcvd + i
  <2>1. RecvPos(tcb[s], F, D)
    BY <1>3 DEF Aligned
  <2>2. DOMAIN tcb[s].rxq = 1 .. Len(tcb[s].rxq)
    BY <1>3 DEF DataOK
  <2> QED
    BY <2>1, <2>2 DEF RecvPos
<1>5. ASSUME NEW s \in Slot, NEW r \in Slot, Paired(s, r)
      PROVE  /\ Received(tcb[s]) <= tcb[r].sfree + tcb[r].sndq
             /\ "RCVFIN" \in tcb[s].flags =>
                  /\ "FINSENT" \in tcb[r].flags
                  /\ Received(tcb[s]) = tcb[r].sfree + tcb[r].sndq
  <2>1. /\ tcb[s].state \notin Unsynchronized /\ tcb[r].state \notin Unsynchronized
        /\ tcb[s].irs = tcb[r].iss
    BY <1>5 DEF Paired
  <2>2. Owns(tcb[r])
    BY <2>1 DEF Unsynchronized, Owns
  <2>3. RecvPos(tcb[s], F, D) /\ Booked(tcb[r], F, D, B)
    BY <1>3, <2>2 DEF Aligned
  <2>4. F.tot[tcb[s].irs] = tcb[r].sfree + tcb[r].sndq
    BY <2>1, <2>3 DEF Booked, Held
  <2>5. tcb[s].irs \in F.fin <=> "FINSENT" \in tcb[r].flags
    BY <2>1, <2>3 DEF Booked
  <2> QED
    BY <2>1, <2>3, <2>4, <2>5 DEF RecvPos
<1> QED
  BY <1>4, <1>5 DEF StreamIntact

(* However segments are lost, repeated and reordered, and wherever the      *)
(* sequence space wraps, what RECV delivers is what SEND was given, and an  *)
(* end of file comes after all of it (tcp_recv_data, tcp_process_fin,       *)
(* tcp_sndq_slice, tcp_output).  The application waits for its calls, and   *)
(* the streams the stack draws numbers for have room for all their bytes:   *)
(* a network that may hold a segment forever asks no less.                  *)
THEOREM TcpStreamIntact ==
    ASSUME ~Subtasks, NEW B \in Nat, \A h \in Hosts : ByteMax[h] \in Nat /\ ByteMax[h] <= B,
           B + 2 < SeqMod, Apart(B)
    PROVE  Spec => []StreamIntact
<1>1. Init => Inv /\ StreamInv(B)
  BY InitKeeps, InitFlow
<1>2. (Inv /\ StreamInv(B)) /\ [Next]_vars => (Inv /\ StreamInv(B))'
  BY NextKeeps, NextFlow
<1>3. Inv /\ StreamInv(B) => StreamIntact
  BY StreamsIntact
<1> QED
  BY <1>1, <1>2, <1>3, PTL DEF Spec
=============================================================================

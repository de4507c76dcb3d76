------------------------------ MODULE NsfTcpCb ------------------------------
(***************************************************************************)
(* The TCP control block and what one event does to it (nsftcp.c): the     *)
(* sequence arithmetic, the transmit clock, the two timers, and RFC 793's  *)
(* "segment arrives" up to the point where other control blocks are        *)
(* touched.  Every handler maps a result to a result: the control block t, *)
(* the segments out it sent, whether buffers can be had (room), whether    *)
(* input processing goes on, and whether the connection was established    *)
(* for a listener (grad) or torn down (gone).                              *)
(* A byte of data is <<stream, position>>; the stream is named by the      *)
(* initial sequence number it was sent under.                              *)
(* A definition called a mutant is a wrong variant and no part of a run.   *)
(***************************************************************************)
EXTENDS Integers, Sequences, FiniteSets, FiniteSetsExt

CONSTANTS
    SeqMod,      \* the sequence space, 2^32
    RcvWnd,      \* NSFTCP_RCVWND_DEFAULT
    SndBuf,      \* NSFTCP_SNDBUF
    Mss,         \* the agreed segment size
    RxqMax,      \* NSFSOC_RXQ_MAX
    MaxTries,    \* NSFTCP_RTO_MAXTRIES
    NoTcb        \* no control block

ASSUME SpaceAssumption ==
    /\ SeqMod \in Nat /\ SeqMod % 2 = 0 /\ Mss \in Nat \ {0}
    /\ RcvWnd \in 1 .. SeqMod \div 2 - 1 /\ SndBuf \in 1 .. SeqMod \div 2 - 1
    /\ RxqMax \in Nat \ {0} /\ MaxTries \in Nat

-----------------------------------------------------------------------------
(* Sequence arithmetic: 32-bit differences taken as signed numbers.        *)
Seq32 == 0 .. SeqMod - 1
Plus(a, b)  == (a + b) % SeqMod
Minus(a, b) == (a - b) % SeqMod
SeqLT(a, b)  == Minus(a, b) >= SeqMod \div 2
SeqGT(a, b)  == Minus(a, b) \in 1 .. SeqMod \div 2 - 1
SeqLEQ(a, b) == ~SeqGT(a, b)
SeqGEQ(a, b) == ~SeqLT(a, b)
(* A signed difference, or 0 when it is negative.                          *)
Ahead(a, b) == IF SeqGT(a, b) THEN Minus(a, b) ELSE 0

SegLen(g) == g.len + Cardinality(g.fl \cap {"SYN", "FIN"})

-----------------------------------------------------------------------------
(* The control block attach makes, and one that is not in use.             *)
Fresh(host, state) ==
    [host |-> host, faddr |-> host, state |-> state, flags |-> {}, lport |-> 0, fport |-> 0,
     una |-> 0, nxt |-> 0, wnd |-> 0, wl1 |-> 0, wl2 |-> 0, iss |-> 0, irs |-> 0,
     rnxt |-> 0, rwnd |-> RcvWnd,
     sndq |-> 0, sfree |-> 0,        \* bytes in the send queue, and acknowledged before
     rxq |-> <<>>, rcvd |-> 0,       \* bytes to be read, and read before
     rexmit |-> FALSE, persist |-> FALSE, msl |-> FALSE, backoff |-> 0,
     pconn |-> FALSE, pacc |-> FALSE, precv |-> 0, psend |-> 0,
     listener |-> NoTcb, acceptq |-> <<>>, backlog |-> 0]

Begin(t, room) == [t |-> t, out |-> {}, room |-> room, go |-> TRUE, grad |-> FALSE, gone |-> FALSE]

(* A segment of the connection; its data is the len bytes at offset off of  *)
(* the send queue.                                                         *)
Segment(t, fl, seq, off, len) ==
    [from |-> t.host, to |-> t.faddr, sport |-> t.lport, dport |-> t.fport, fl |-> fl, seq |-> seq,
     ack |-> IF "ACK" \in fl THEN t.rnxt ELSE 0, wnd |-> t.rwnd,
     iss |-> t.iss, first |-> t.sfree + off + 1, len |-> len]

Send(x, g) == IF x.room THEN [x EXCEPT !.out = @ \cup {g}] ELSE x

EmitSeq(x, fl, seq) == Send(x, Segment(x.t, fl, seq, 0, 0))
Emit(x, fl) == EmitSeq(x, fl, IF "SYN" \in fl THEN x.t.iss ELSE x.t.nxt)
Ack(x) == Emit(x, {"ACK"})

(* The reset a segment draws that belongs to no connection.                 *)
RstFor(g) ==
    LET r == [from |-> g.to, to |-> g.from, sport |-> g.dport, dport |-> g.sport, seq |-> 0,
              ack |-> 0, fl |-> {"RST"}, wnd |-> 0, iss |-> 0, first |-> 0, len |-> 0]
    IN IF "ACK" \in g.fl THEN [r EXCEPT !.seq = g.ack]
       ELSE [r EXCEPT !.fl = {"RST", "ACK"}, !.ack = Plus(g.seq, SegLen(g))]

-----------------------------------------------------------------------------
(* Mutant of Timers: the persist timer is left running beside rexmit.       *)
TimersBoth(t) ==
    IF SeqLT(t.una, t.nxt) THEN [t EXCEPT !.rexmit = TRUE]
    ELSE IF t.sndq > 0 /\ t.wnd = 0 THEN [t EXCEPT !.persist = TRUE]
         ELSE [t EXCEPT !.rexmit = FALSE, !.persist = FALSE]

(* tcp_timers_update: what is in flight is retransmitted, a closed window   *)
(* is probed, and otherwise neither timer runs.                             *)
Timers(t) ==
    IF SeqLT(t.una, t.nxt)
    THEN [t EXCEPT !.rexmit = TRUE, !.persist = FALSE, !.backoff = IF t.persist THEN 0 ELSE @]
    ELSE IF t.sndq > 0 /\ t.wnd = 0
    THEN IF t.persist THEN [t EXCEPT !.rexmit = FALSE]
         ELSE [t EXCEPT !.rexmit = FALSE, !.persist = TRUE, !.backoff = 0,
                        !.flags = @ \ {"PROBEACK"}]
    ELSE [t EXCEPT !.rexmit = FALSE, !.persist = FALSE]
TimersOf(x) == [x EXCEPT !.t = Timers(@)]

(* How much of the send queue tcp_output sends now: what is not in flight   *)
(* and fits the window.                                                     *)
Sendable(t) ==
    LET sent == Minus(t.nxt, t.una)
    IN Min({Ahead(t.sndq, sent), Ahead(Plus(t.una, t.wnd), t.nxt)})

(* The data goes out in pieces of at most one segment size.                 *)
OutputData(x) ==
    LET t == x.t
        n == IF x.room THEN Sendable(t) ELSE 0
        sent == Minus(t.nxt, t.una)
        piece(i) == Segment(t, {"ACK"}, Plus(t.nxt, i * Mss), sent + i * Mss,
                            Min({Mss, n - i * Mss}))
    IN [x EXCEPT !.t.nxt = Plus(@, n),
                 !.out = @ \cup {piece(i) : i \in {i \in 0 .. n : i * Mss < n}}]

(* The FIN follows the last byte, once.                                     *)
OutputFin(x) ==
    LET t == x.t
    IN IF /\ "FINQ" \in t.flags /\ "FINSENT" \notin t.flags
          /\ t.nxt = Plus(t.una, t.sndq) /\ x.room
       THEN [Emit(x, {"FIN", "ACK"}) EXCEPT !.t.nxt = Plus(@, 1),
                                            !.t.flags = @ \cup {"FINSENT"}]
       ELSE x

Output(x) == TimersOf(OutputFin(OutputData(x)))

(* tcp_send_resume: a parked SEND goes on from where it stopped.            *)
SendResume(x) ==
    LET got == IF x.room THEN Min({x.t.psend, Ahead(SndBuf, x.t.sndq)}) ELSE 0
    IN IF x.t.psend = 0 THEN x
       ELSE Output([x EXCEPT !.t.psend = @ - got, !.t.sndq = @ + got])

-----------------------------------------------------------------------------
(* Receiving.                                                               *)
Pbufs(t) == Cardinality({t.rxq[i][3] : i \in DOMAIN t.rxq})

(* Mutant of Drained: the window does not grow with what is read.           *)
DrainedShut(t, want) ==
    LET n == Min({want, Len(t.rxq)})
    IN [t EXCEPT !.rxq = SubSeq(@, n + 1, Len(@)), !.rcvd = @ + n, !.precv = 0]

(* tcp_recv_drain_to: the request takes what there is, and the window grows *)
(* by it.                                                                   *)
Drained(t, want) ==
    LET n == Min({want, Len(t.rxq)})
    IN [t EXCEPT !.rxq = SubSeq(@, n + 1, Len(@)), !.rcvd = @ + n, !.precv = 0,
                 !.rwnd = Min({@ + n, RcvWnd})]

(* The bytes of a segment that are new and inside the window.               *)
NewBytes(t, g) ==
    LET below == Minus(t.rnxt, g.seq)
    IN IF below < g.len THEN Min({g.len - below, t.rwnd}) ELSE 0

(* Data is taken in a receiving state, when it leaves no gap, brings        *)
(* something new and finds room.                                            *)
Accepts(t, g) ==
    /\ t.state \in {"ESTABLISHED", "FIN_WAIT_1", "FIN_WAIT_2"}
    /\ SeqLEQ(g.seq, t.rnxt)
    /\ NewBytes(t, g) > 0
    /\ Pbufs(t) < RxqMax

Queued(t, g) ==
    LET n == NewBytes(t, g)
        first == g.first + Minus(t.rnxt, g.seq)
        bytes == [i \in 1 .. n |-> <<g.iss, first + i - 1, first>>]
    IN [t EXCEPT !.rxq = @ \o bytes, !.rnxt = Plus(@, n), !.rwnd = @ - n]

(* tcp_recv_data: whatever becomes of the data, it is answered by an ACK.   *)
RecvData(x, g) ==
    LET t == IF Accepts(x.t, g) THEN Queued(x.t, g) ELSE x.t
    IN Ack([x EXCEPT !.t = IF Accepts(x.t, g) /\ t.precv > 0 THEN Drained(t, t.precv) ELSE t])

EnterTimeWait(t) == [t EXCEPT !.rexmit = FALSE, !.persist = FALSE, !.state = "TIME_WAIT",
                              !.msl = TRUE]

(* Mutant of ProcessFin: a FIN behind a gap is taken.                       *)
ProcessFinAnywhere(x, g) ==
    [Ack([x EXCEPT !.t.rnxt = Plus(g.seq, g.len + 1), !.t.flags = @ \cup {"RCVFIN"}])
        EXCEPT !.t.state = IF @ \in {"SYN_RCVD", "ESTABLISHED"} THEN "CLOSE_WAIT" ELSE @]

(* Mutant of ProcessFin: the RECV that waits is not told.                   *)
ProcessFinSilent(x, g) ==
    IF Plus(g.seq, g.len) # x.t.rnxt THEN x
    ELSE [Ack([x EXCEPT !.t.rnxt = Plus(@, 1), !.t.flags = @ \cup {"RCVFIN"}])
            EXCEPT !.t.state = IF @ \in {"SYN_RCVD", "ESTABLISHED"} THEN "CLOSE_WAIT" ELSE @]

(* tcp_process_fin: only the FIN that is next counts.                       *)
ProcessFin(x, g) ==
    LET y == Ack([x EXCEPT !.t.rnxt = Plus(@, 1), !.t.flags = @ \cup {"RCVFIN"},
                           !.t.precv = IF x.t.rxq = <<>> THEN 0 ELSE @])
        t == y.t
    IN IF Plus(g.seq, g.len) # x.t.rnxt THEN x
       ELSE [y EXCEPT !.t =
              CASE t.state \in {"SYN_RCVD", "ESTABLISHED"} -> [t EXCEPT !.state = "CLOSE_WAIT"]
                [] t.state = "FIN_WAIT_1" -> [t EXCEPT !.state = "CLOSING"]
                [] t.state = "FIN_WAIT_2" -> EnterTimeWait(t)
                [] OTHER -> t]

-----------------------------------------------------------------------------
(* tcp_seq_acceptable.                                                      *)
InWindow(t, seq) == SeqGEQ(seq, t.rnxt) /\ SeqLT(seq, Plus(t.rnxt, t.rwnd))

Acceptable(t, g) ==
    IF t.rwnd = 0 THEN SegLen(g) = 0 /\ g.seq = t.rnxt
    ELSE \/ InWindow(t, g.seq)
         \/ SegLen(g) > 0 /\ InWindow(t, Plus(g.seq, SegLen(g) - 1))

UpdateWindow(t, g) ==
    IF SeqLT(t.wl1, g.seq) \/ (t.wl1 = g.seq /\ SeqLEQ(t.wl2, g.ack))
    THEN [t EXCEPT !.wnd = g.wnd, !.wl1 = g.seq, !.wl2 = g.ack] ELSE t

(* tcp_enter_established: the waiting CONNECT ends; a child goes to its     *)
(* listener.                                                                *)
EnterEstablished(x) ==
    [x EXCEPT !.t.state = "ESTABLISHED", !.t.backoff = 0, !.t.pconn = FALSE,
              !.grad = x.t.listener # NoTcb]

Gone(x) == [x EXCEPT !.gone = TRUE, !.go = FALSE]

(* Step 5 of "segment arrives" in SYN_RCVD.                                 *)
AckOfSyn(x, g) ==
    IF SeqLEQ(g.ack, x.t.una) \/ SeqGT(g.ack, x.t.nxt)
    THEN [Send(x, RstFor(g)) EXCEPT !.go = FALSE]
    ELSE TimersOf(EnterEstablished(
            [x EXCEPT !.t = UpdateWindow([x.t EXCEPT !.una = g.ack], g)]))

(* The byte a probe sent is not counted in SND.NXT; its ACK counts it.      *)
AcksProbe(t, g) ==
    /\ g.ack = Plus(t.nxt, 1) /\ t.persist /\ t.sndq > Minus(t.nxt, t.una)

(* What the peer acknowledged leaves the send queue, and a parked SEND uses *)
(* the space.                                                               *)
Progress(x, g) ==
    LET acked == Minus(g.ack, x.t.una)
        free == Min({acked, x.t.sndq})
    IN SendResume([x EXCEPT !.t.una = g.ack, !.t.backoff = 0, !.t.rexmit = FALSE,
                            !.t.sndq = @ - free, !.t.sfree = @ + free])

(* Where an acknowledgment leads a connection that is closing.              *)
AckedState(x) ==
    LET t == x.t
        done == t.una = t.nxt
    IN CASE t.state = "FIN_WAIT_1" /\ done -> [x EXCEPT !.t.state = "FIN_WAIT_2"]
         [] t.state = "CLOSING" /\ done -> [x EXCEPT !.t = EnterTimeWait(t)]
         [] t.state = "LAST_ACK" /\ done -> Gone(x)
         [] t.state = "TIME_WAIT" -> [x EXCEPT !.t.msl = TRUE]
         [] OTHER -> x

(* tcp_process_ack past the handshake.                                      *)
AckOfData(x, g) ==
    LET probed == SeqGT(g.ack, x.t.nxt) /\ AcksProbe(x.t, g)
        a == [x EXCEPT !.t = UpdateWindow([x.t EXCEPT !.nxt = IF probed THEN g.ack ELSE @], g)]
        b == IF SeqGT(g.ack, x.t.una) THEN Progress(a, g) ELSE a
        c == IF b.t.state \in {"ESTABLISHED", "CLOSE_WAIT", "FIN_WAIT_1"} THEN Output(b) ELSE b
    IN IF SeqGT(g.ack, x.t.nxt) /\ ~probed THEN [Ack(x) EXCEPT !.go = FALSE]
       ELSE AckedState(TimersOf(c))

ProcessAck(x, g) == IF x.t.state = "SYN_RCVD" THEN AckOfSyn(x, g) ELSE AckOfData(x, g)

-----------------------------------------------------------------------------
(* A segment in a synchronized state, RFC 793's steps in order.             *)
SynchronizedText(x, g) ==
    LET a == ProcessAck(x, g)
        b == IF a.go /\ g.len > 0 THEN RecvData(a, g) ELSE a
    IN IF b.go /\ "FIN" \in g.fl THEN ProcessFin(b, g) ELSE b

SynchronizedInput(x, g) ==
    LET y == [x EXCEPT !.t.flags = @ \cup {"PROBEACK"}]
    IN CASE ~Acceptable(x.t, g) -> IF "RST" \in g.fl THEN x ELSE Ack(x)
         [] Acceptable(x.t, g) /\ "RST" \in g.fl -> Gone(y)
         [] Acceptable(x.t, g) /\ "RST" \notin g.fl /\ "SYN" \in g.fl -> Gone(Emit(y, {"RST"}))
         [] Acceptable(x.t, g) /\ g.fl \cap {"RST", "SYN"} = {} ->
                IF "ACK" \in g.fl THEN SynchronizedText(y, g) ELSE y

(* A segment in SYN_SENT.                                                   *)
SynSentSyn(x, g, ackok) ==
    LET t == [x.t EXCEPT !.irs = g.seq, !.rnxt = Plus(g.seq, 1),
                         !.una = IF ackok THEN g.ack ELSE @,
                         !.wnd = g.wnd, !.wl1 = g.seq, !.wl2 = g.ack]
        y == [x EXCEPT !.t = t]
    IN TimersOf(IF SeqGT(t.una, t.iss) THEN EnterEstablished(Ack(y))
                ELSE Emit([y EXCEPT !.t.state = "SYN_RCVD"], {"SYN", "ACK"}))

SynSentInput(x, g) ==
    LET hasack == "ACK" \in g.fl
        bad == hasack /\ (SeqLEQ(g.ack, x.t.iss) \/ SeqGT(g.ack, x.t.nxt))
    IN CASE bad -> IF "RST" \in g.fl THEN x ELSE Send(x, RstFor(g))
         [] ~bad /\ "RST" \in g.fl -> IF hasack THEN Gone(x) ELSE x
         [] ~bad /\ "RST" \notin g.fl ->
                IF "SYN" \in g.fl THEN SynSentSyn(x, g, hasack) ELSE x

-----------------------------------------------------------------------------
(* The timer callbacks.                                                     *)
(* tcp_rexmit_one: the SYN, one segment of data from SND.UNA, or the FIN.   *)
RexmitOne(x) ==
    LET t == x.t
    IN CASE t.state = "SYN_SENT" -> Emit(x, {"SYN"})
         [] t.state = "SYN_RCVD" -> Emit(x, {"SYN", "ACK"})
         [] t.state \notin {"SYN_SENT", "SYN_RCVD"} /\ t.sndq > 0 ->
                Send(x, Segment(t, {"ACK"}, t.una, 0, Min({t.sndq, Mss})))
         [] t.state \notin {"SYN_SENT", "SYN_RCVD"} /\ t.sndq = 0 ->
                IF "FINSENT" \in t.flags THEN EmitSeq(x, {"FIN", "ACK"}, t.una) ELSE x

(* Mutant of RexmitExpire: it never gives up.                               *)
RexmitExpireForever(x) == [RexmitOne(x) EXCEPT !.t.rexmit = TRUE]

RexmitExpire(x) ==
    IF x.t.backoff >= MaxTries THEN Gone(x)
    ELSE [RexmitOne(x) EXCEPT !.t.backoff = @ + 1, !.t.rexmit = TRUE]

(* A probe is one byte beyond the window; the count stops at the limit.     *)
PersistExpire(x) ==
    LET t == x.t
        off == Minus(t.nxt, t.una)
        y == IF t.sndq > off THEN Send(x, Segment(t, {"ACK"}, t.nxt, off, 1)) ELSE x
    IN IF t.backoff >= MaxTries /\ "PROBEACK" \notin t.flags THEN Gone(x)
       ELSE [y EXCEPT !.t.backoff = Min({@ + 1, MaxTries}), !.t.persist = TRUE]
=============================================================================

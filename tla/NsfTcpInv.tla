----------------------------- MODULE NsfTcpInv ------------------------------
(***************************************************************************)
(* The inductive invariants behind the safety properties of NsfTcp.  The   *)
(* theorems are in NsfTcpProofs.                                           *)
(*                                                                         *)
(* Inv says of every control block what its fields hold and how they hang  *)
(* together (TcbInv), of the table how listeners and children do           *)
(* (AcceptInv), and of the network what its segments carry (SegOK).        *)
(*                                                                         *)
(* StreamInv is an invariant beside Inv: there is a ledger of all streams  *)
(* ever begun, how long each is and whether it ended, with which every     *)
(* block (Aligned) and every segment under way (Carries) agrees.           *)
(***************************************************************************)
EXTENDS NsfTcp

-----------------------------------------------------------------------------
(* The control block's invariant, in parts.                                *)
States == {"FREE", "CLOSED", "LISTEN", "SYN_SENT", "SYN_RCVD", "ESTABLISHED", "CLOSE_WAIT",
           "FIN_WAIT_1", "FIN_WAIT_2", "CLOSING", "LAST_ACK", "TIME_WAIT"}
Opening == {"CLOSED", "SYN_SENT", "SYN_RCVD"}
Opened == {"ESTABLISHED", "CLOSE_WAIT"}
Ending == {"FIN_WAIT_1", "FIN_WAIT_2", "CLOSING", "LAST_ACK", "TIME_WAIT"}
Sent(t) == Minus(t.nxt, t.una)

TcbFields == {"host", "faddr", "state", "flags", "lport", "fport", "una", "nxt", "wnd", "wl1",
              "wl2", "iss", "irs", "rnxt", "rwnd", "sndq", "sfree", "rxq", "rcvd", "rexmit",
              "persist", "msl", "backoff", "pconn", "pacc", "precv", "psend", "listener",
              "acceptq", "backlog"}
Byte == Seq32 \X Int \X Int

(* What every field that an event works on may hold.                       *)
DataOK(t) ==
    /\ TcbFields \subseteq DOMAIN t
    /\ t.state \in States
    /\ t.una \in Seq32 /\ t.nxt \in Seq32 /\ t.wl1 \in Seq32 /\ t.wl2 \in Seq32
    /\ t.iss \in Seq32 /\ t.irs \in Seq32 /\ t.rnxt \in Seq32
    /\ t.wnd \in 0 .. RcvWnd /\ t.rwnd \in 0 .. RcvWnd
    /\ t.sndq \in 0 .. SndBuf /\ t.sfree \in Nat /\ t.psend \in Nat
    /\ t.rxq \in Seq(Byte) /\ t.rcvd \in Nat /\ t.precv \in Nat /\ t.backoff \in Nat
    /\ t.rexmit \in BOOLEAN /\ t.persist \in BOOLEAN /\ t.msl \in BOOLEAN
    /\ t.pconn \in BOOLEAN /\ t.pacc \in BOOLEAN

(* The receiving side: the window, the RECV that waits, the end of file.   *)
RecvOK(t) ==
    /\ Len(t.rxq) + t.rwnd = RcvWnd
    /\ t.precv > 0 => t.rxq = <<>> /\ "RCVFIN" \notin t.flags
    /\ t.precv > 0 /\ ~Subtasks => "SHUTRD" \notin t.flags
    /\ t.state \in {"CLOSE_WAIT", "CLOSING", "LAST_ACK", "TIME_WAIT"} => "RCVFIN" \in t.flags

(* A block that connects, to the service from an ephemeral port.           *)
CallOK(t) ==
    /\ t.pconn => t.state = "SYN_SENT"
    /\ t.state \in {"CLOSED", "SYN_SENT"} => t.fport = Service /\ t.lport # Service

(* A SEND waits for space only, unless an event found no buffer.           *)
SpaceOK(t, n) == t.psend > 0 /\ n = 0 => t.sndq = SndBuf

(* The sending side: what is in flight, against what is queued.            *)
SendOK(t) ==
    /\ t.state \in {"FREE", "LISTEN"} => Sent(t) = 0 /\ t.sndq = 0
    /\ t.state \in Opening => Sent(t) = 1 /\ t.sndq = 0
    /\ t.state = "SYN_SENT" => t.una = t.iss
    /\ t.state \in Opened => Sent(t) <= t.sndq /\ "FINSENT" \notin t.flags
    /\ t.state \in Ending /\ "FINSENT" \in t.flags =>
            Sent(t) = t.sndq + 1 \/ (Sent(t) = 0 /\ t.sndq = 0)
    /\ t.state \in Ending /\ "FINSENT" \notin t.flags => Sent(t) = t.sndq
    /\ t.state \in {"FIN_WAIT_2", "TIME_WAIT"} => Sent(t) = 0 /\ t.sndq = 0
    /\ t.state \notin Opened => t.psend = 0
    /\ "FINQ" \in t.flags <=> t.state \in Ending
    /\ "FINSENT" \in t.flags => "FINQ" \in t.flags

TimerOK(t, n) ==
    /\ ~(t.rexmit /\ t.persist)
    /\ t.msl <=> t.state = "TIME_WAIT"
    /\ t.msl => ~t.rexmit /\ ~t.persist
    /\ t.una # t.nxt /\ t.state # "CLOSED" => t.rexmit
    /\ t.sndq > 0 /\ n = 0 => t.rexmit \/ t.persist

(* A FIN that was not sent found no buffer, once or twice.                 *)
FinOK(t, n) ==
    /\ t.state \in Ending /\ "FINSENT" \notin t.flags => n >= 1
    /\ t.state \in {"FIN_WAIT_2", "CLOSING", "TIME_WAIT"} /\ "FINSENT" \notin t.flags => n >= 2

SegOK(g) ==
    /\ g.seq \in Seq32 /\ g.ack \in Seq32 /\ g.iss \in Seq32
    /\ g.wnd \in 0 .. RcvWnd /\ g.len \in Nat /\ g.first \in Int
    /\ "SYN" \in g.fl /\ "ACK" \notin g.fl => g.dport = Service

TcbInv(t, n) ==
    /\ DataOK(t) /\ RecvOK(t) /\ CallOK(t) /\ SpaceOK(t, n)
    /\ ~Early /\ ~Subtasks => SendOK(t) /\ TimerOK(t, n) /\ FinOK(t, n)

Past(tab, c) == tab[c].state \in Opened \cup Ending

Distinct(q) == \A i, j \in 1 .. Len(q) : q[i] = q[j] => i = j
Holds(q, c) == \E i \in 1 .. Len(q) : q[i] = c

(* The accept queue of l holds its children past the handshake, each once.  *)
QueueOf(tab, l) ==
    LET q == tab[l].acceptq
    IN /\ q \in Seq(Slot) /\ Distinct(q)
       /\ \A c \in Slot : Holds(q, c) <=> tab[c].listener = l /\ Past(tab, c)

AcceptInv(tab) ==
    /\ \A c \in Slot : tab[c].state = "SYN_RCVD" => tab[c].listener # NoTcb
    /\ \A c \in Slot : tab[c].listener # NoTcb =>
          /\ tab[c].listener \in Slot /\ tab[tab[c].listener].state = "LISTEN"
          /\ tab[c].state = "SYN_RCVD" \/ Past(tab, c)
    /\ \A l \in Slot : QueueOf(tab, l)
    /\ \A l \in Slot : Children(tab, l) # {} => Cardinality(Children(tab, l)) <= tab[l].backlog
    /\ \A l \in Slot : tab[l].pacc => tab[l].acceptq = <<>>
    /\ \A l \in Slot : tab[l].backlog \in Nat

TableOK(tab, n) ==
    DOMAIN tab = Slot /\ AcceptInv(tab) /\ \A s \in Slot : TcbInv(tab[s], n)

Inv ==
    /\ TableOK(tcb, nobufs) /\ \A g \in net : SegOK(g)
    /\ opens \in Nat /\ nobufs \in Nat /\ ephem \in [Hosts -> EphemLo .. EphemHi]

-----------------------------------------------------------------------------
(* Results, and what a step of a handler leaves as it was.                  *)
ResultFields == {"t", "out", "room", "go", "grad", "gone"}
Result(x) ==
    /\ ResultFields \subseteq DOMAIN x
    /\ x.room \in BOOLEAN /\ x.go \in BOOLEAN /\ x.grad \in BOOLEAN /\ x.gone \in BOOLEAN
    /\ DataOK(x.t)
    /\ \A g \in x.out : SegOK(g)

SameControl(x, y) ==
    y.room = x.room /\ y.go = x.go /\ y.grad = x.grad /\ y.gone = x.gone
(* What no handler touches.                                                *)
SamePlace(t, u) ==
    /\ u.host = t.host /\ u.lport = t.lport /\ u.fport = t.fport /\ u.iss = t.iss
    /\ u.listener = t.listener /\ u.acceptq = t.acceptq /\ u.backlog = t.backlog
    /\ u.pacc = t.pacc
SameState(t, u) == u.state = t.state /\ u.pconn = t.pconn
SameRecv(t, u) ==
    /\ u.rxq = t.rxq /\ u.rwnd = t.rwnd /\ u.precv = t.precv
    /\ "RCVFIN" \in u.flags <=> "RCVFIN" \in t.flags
    /\ "SHUTRD" \in u.flags <=> "SHUTRD" \in t.flags
SameSend(t, u) ==
    /\ u.una = t.una /\ u.nxt = t.nxt /\ u.sndq = t.sndq /\ u.psend = t.psend /\ u.wnd = t.wnd
    /\ "FINQ" \in u.flags <=> "FINQ" \in t.flags
    /\ "FINSENT" \in u.flags <=> "FINSENT" \in t.flags
SameTimers(t, u) == u.rexmit = t.rexmit /\ u.persist = t.persist /\ u.msl = t.msl

(* The invariant of a result: that of its control block, as the event found *)
(* buffers (x.room) or one more was missed (n counts it already).           *)
Quiet == ~Early /\ ~Subtasks
Missed(x, n) == ~x.room => n >= 1
Before(x, n) == IF x.room THEN n ELSE n - 1
Kept(x, n) == Result(x) /\ n \in Nat /\ Missed(x, n) /\ TcbInv(x.t, n)

-----------------------------------------------------------------------------
(* The streams.                                                             *)
(* A stream is named by the initial sequence number it was drawn for, and   *)
(* outlives the control block it began in: segments of it may still be      *)
(* under way, and what its peer has read of it stays read.  A ledger F says *)
(* of every stream how many bytes were queued for it and whether its end    *)
(* was sent; D are the numbers drawn, B bounds the bytes of a stream.       *)
Ledgers(B) == [tot : [Seq32 -> 0 .. B], fin : SUBSET Seq32]

(* No two places of the streams, the SYN and the FIN included, have the     *)
(* same sequence number.                                                    *)
Spread(D, B) ==
    \A i, j \in D : \A m, n \in 0 .. B + 2 : Plus(i, m) = Plus(j, n) => i = j /\ m = n

World(F, D, B) ==
    B \in Nat /\ B + 2 < SeqMod /\ D \in SUBSET Seq32 /\ Spread(D, B) /\ F \in Ledgers(B)

Held(t) == t.sfree + t.sndq
Owns(t) == t.state \notin {"FREE", "LISTEN"}

(* A ledger after an event of the stream i: it gains bytes until its end is *)
(* sent, and none after.                                                    *)
Grows(F, E, i) ==
    \A j \in Seq32 :
        /\ F.tot[j] <= E.tot[j]
        /\ j \in F.fin => j \in E.fin /\ E.tot[j] = F.tot[j]
        /\ j # i => E.tot[j] = F.tot[j] /\ (j \in E.fin <=> j \in F.fin)

(* Where SND.UNA stands: before the SYN, at a byte, or past the FIN.        *)
SynPhase(t) ==
    /\ t.una = t.iss /\ Sent(t) = 1 /\ t.sfree = 0 /\ t.sndq = 0
    /\ "FINQ" \notin t.flags /\ "FINSENT" \notin t.flags
DataPhase(t) ==
    /\ t.una = Plus(t.iss, 1 + t.sfree)
    /\ "FINSENT" \notin t.flags => Sent(t) <= t.sndq
    /\ "FINSENT" \in t.flags => Sent(t) = t.sndq + 1 /\ "FINQ" \in t.flags
EndPhase(t) ==
    /\ t.una = Plus(t.iss, 2 + t.sfree) /\ Sent(t) = 0 /\ t.sndq = 0
    /\ "FINQ" \in t.flags /\ "FINSENT" \in t.flags /\ ~t.rexmit

SendPos(t) ==
    /\ t.state \in Opening => SynPhase(t)
    /\ t.state \in Opened => DataPhase(t) /\ "FINQ" \notin t.flags
    /\ t.state \in Ending => DataPhase(t) \/ EndPhase(t)
    /\ ~Owns(t) => ~t.rexmit /\ ~t.persist
    /\ t.psend > 0 => t.state \in Opened

Eof(t) == IF "RCVFIN" \in t.flags THEN 1 ELSE 0

(* What a block has received are the first bytes of its peer's stream.      *)
RecvPos(t, F, D) ==
    /\ \A i \in 1 .. Len(t.rxq) : t.rxq[i][1] = t.irs /\ t.rxq[i][2] = t.rcvd + i
    /\ t.state \in Unsynchronized => t.rxq = <<>> /\ t.rcvd = 0 /\ "RCVFIN" \notin t.flags
    /\ t.state \notin Unsynchronized =>
         /\ t.irs \in D /\ t.rnxt = Plus(t.irs, 1 + Received(t) + Eof(t))
         /\ Received(t) <= F.tot[t.irs]
         /\ "RCVFIN" \in t.flags => t.irs \in F.fin /\ Received(t) = F.tot[t.irs]

Booked(t, F, D, B) ==
    /\ t.iss \in D /\ F.tot[t.iss] = Held(t) /\ Held(t) + t.psend <= B
    /\ t.iss \in F.fin <=> "FINSENT" \in t.flags

Aligned(t, F, D, B) == SendPos(t) /\ RecvPos(t, F, D) /\ (Owns(t) => Booked(t, F, D, B))

(* What a segment carries is in its stream, at the place it says.           *)
Carries(g, F, D) ==
    /\ "SYN" \in g.fl => g.seq \in D
    /\ "FIN" \in g.fl => /\ g.len = 0 /\ g.iss \in D /\ g.iss \in F.fin
                         /\ g.seq = Plus(g.iss, 1 + F.tot[g.iss])
    /\ g.len > 0 => /\ g.iss \in D /\ g.first >= 1 /\ g.first + g.len - 1 <= F.tot[g.iss]
                    /\ g.seq = Plus(g.iss, g.first)

Flow(x, F, D, B) ==
    World(F, D, B) /\ Aligned(x.t, F, D, B) /\ \A g \in x.out : Carries(g, F, D)
Flows(x, y, F, D, B) == \E E : Grows(F, E, x.t.iss) /\ Flow(y, E, D, B)

(* Every block stands in its streams, and none shares the one it sends.     *)
TableFits(tab, F, D, B) ==
    /\ \A s \in Slot : Aligned(tab[s], F, D, B)
    /\ \A s, r \in Slot : Owns(tab[s]) /\ Owns(tab[r]) /\ tab[s].iss = tab[r].iss => s = r

(* The invariant of the streams: there is a ledger that the numbers drawn,  *)
(* the blocks and the network agree with.                                   *)
Drawn(k) == {Iss[i] : i \in 1 .. k}
Streams(F, B) ==
    /\ World(F, Drawn(opens), B) /\ TableFits(tcb, F, Drawn(opens), B)
    /\ \A g \in net : Carries(g, F, Drawn(opens))
StreamInv(B) == opens \in 0 .. Len(Iss) /\ \E F : Streams(F, B)

(* No two of the numbers the stack draws are so close that their streams,   *)
(* of B bytes each with SYN and FIN, meet.                                  *)
Apart(B) ==
    \A i, j \in DOMAIN Iss : i # j =>
        \A m, n \in 0 .. B + 2 : Plus(Iss[i], m) # Plus(Iss[j], n)

(* A ledger E of the streams C goes on from F of the streams D.             *)
Agrees(F, E, D, C) ==
    D \subseteq C /\ \A j \in D : E.tot[j] = F.tot[j] /\ (j \in E.fin <=> j \in F.fin)

(* The ledger once the number i was drawn.                                  *)
Opens(F, E, D, C, B, i) ==
    /\ i \in Seq32 /\ i \notin D /\ C = D \cup {i} /\ World(E, C, B) /\ Agrees(F, E, D, C)
    /\ E.tot[i] = 0 /\ i \notin E.fin

(* What leaves the streams of a block as they are.                          *)
SameIn(t, u) ==
    /\ u.irs = t.irs /\ u.rnxt = t.rnxt /\ u.rxq = t.rxq /\ u.rcvd = t.rcvd
    /\ "RCVFIN" \in u.flags <=> "RCVFIN" \in t.flags
SameOut(t, u) ==
    /\ u.iss = t.iss /\ u.una = t.una /\ u.nxt = t.nxt
    /\ u.sndq = t.sndq /\ u.sfree = t.sfree /\ u.psend = t.psend
    /\ "FINQ" \in u.flags <=> "FINQ" \in t.flags
    /\ "FINSENT" \in u.flags <=> "FINSENT" \in t.flags
SameStream(t, u) == SameIn(t, u) /\ SameOut(t, u)
=============================================================================

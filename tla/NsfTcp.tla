------------------------------- MODULE NsfTcp -------------------------------
(***************************************************************************)
(* TCP between two hosts that both run this stack (nsftcp.c): control      *)
(* blocks and their pool, demultiplexing, listeners and their accept       *)
(* queues, the calls of the applications, the timers, and a network that   *)
(* loses, repeats and reorders segments.                                   *)
(*                                                                         *)
(* The executive runs one request, one timer callback or one inbound       *)
(* segment to completion, so each of these is one action; NsfTcpCb says    *)
(* what it does to one control block, this module what follows for others: *)
(* a child that is established goes to its listener, a listener that ends  *)
(* takes its children with it, and a full pool gives up a TIME_WAIT.       *)
(***************************************************************************)
EXTENDS NsfTcpCb

SeqOps == INSTANCE SequencesExt    \* its SeqMod would clash with this one

CONSTANTS
    Slot,        \* the control blocks of both pools
    HostOf,      \* the host a control block belongs to
    EphemLo, EphemHi,  \* NSFTCP_EPHEM_LO and NSFTCP_EPHEM_HI
    Service,     \* the port servers listen on
    Iss,         \* the initial sequence numbers in the order they are drawn
    Backlogs,    \* the backlogs LISTEN is given
    Servers,     \* the hosts whose application listens; the others connect
    Subtasks,    \* whether an application calls while a call of it is parked
    Shuts,       \* host -> its uses of SHUTDOWN: of "rd", "wr", "rdwr"
    Closers,     \* the hosts whose application closes its sockets
    Early,       \* whether an application ends its side before all it gave was sent
    NetMax,      \* model bound: segments in the network
    ByteMax,     \* model bound: bytes a host's application sends on one connection
    NoBufMax     \* model bound: events that find no buffer

Hosts == {HostOf[s] : s \in Slot}
ASSUME PortsAssumption ==
    /\ EphemLo \in Nat \ {0} /\ EphemHi \in Nat /\ EphemLo <= EphemHi
    /\ Service \in 1 .. EphemLo - 1 /\ IsFiniteSet(Slot) /\ NoTcb \notin Slot
    /\ Iss \in Seq(Seq32) /\ Backlogs \subseteq Nat \ {0} /\ Servers \subseteq Hosts
    /\ Closers \subseteq Hosts /\ Shuts \in [Hosts -> SUBSET {"rd", "wr", "rdwr"}]

VARIABLES
    tcb,         \* the control blocks; state "FREE" is one in the pool
    net,         \* the segments under way
    ephem,       \* where each host's search for an ephemeral port begins
    opens,       \* how many initial sequence numbers were drawn
    nobufs       \* how many events found no buffer

vars == <<tcb, net, ephem, opens, nobufs>>

Other(h) == CHOOSE k \in Hosts : k # h
Live(s) == tcb[s].state # "FREE"
Blank(s) == Fresh(HostOf[s], "FREE")

Init ==
    /\ tcb = [s \in Slot |-> Blank(s)]
    /\ net = {} /\ ephem = [h \in Hosts |-> EphemLo] /\ opens = 0 /\ nobufs = 0

-----------------------------------------------------------------------------
(* Teardown and graduation.                                                 *)
Children(tab, l) == {c \in Slot : tab[c].listener = l}

(* Mutant of Destroyed: the child is left on the accept queue.              *)
DestroyedQueued(tab, s) ==
    [q \in Slot |-> IF q \in {s} \cup Children(tab, s) THEN Blank(q) ELSE tab[q]]

(* tcp_destroy: a listener takes its children with it; a child leaves the   *)
(* accept queue it waits on.                                                *)
Destroyed(tab, s) ==
    [q \in Slot |-> IF q \in {s} \cup Children(tab, s) THEN Blank(q)
                    ELSE [tab[q] EXCEPT !.acceptq = SeqOps!RemoveFirst(@, s)]]

(* tcp_graduate: an established child meets the ACCEPT that waits, or       *)
(* queues for one.                                                          *)
Graduated(tab, c) ==
    LET l == tab[c].listener
    IN IF tab[l].pacc THEN [tab EXCEPT ![l].pacc = FALSE, ![c].listener = NoTcb]
       ELSE IF Len(tab[l].acceptq) < tab[l].backlog
            THEN [tab EXCEPT ![l].acceptq = Append(@, c)] ELSE tab

(* The table after the result x of an event on s.                           *)
After(tab, s, x) ==
    LET new == [tab EXCEPT ![s] = x.t]
    IN IF x.gone THEN Destroyed(tab, s) ELSE IF x.grad THEN Graduated(new, s) ELSE new

(* A network that is full loses what is sent.                               *)
Carry(old, out) == IF Cardinality(old \cup out) <= NetMax THEN old \cup out ELSE old

(* An event finds buffers, or none.                                         *)
Room(r) ==
    \/ r = TRUE /\ UNCHANGED nobufs
    \/ r = FALSE /\ nobufs < NoBufMax /\ nobufs' = nobufs + 1

(* An event of control block s alone: how it may begin, and its result x.   *)
Begun(s) == {Begin(tcb[s], room) : room \in {r \in BOOLEAN : r \/ nobufs < NoBufMax}}
Event(s, x) ==
    /\ Room(x.room)
    /\ tcb' = After(tcb, s, x)
    /\ net' = Carry(net, x.out)
    /\ UNCHANGED <<ephem, opens>>

-----------------------------------------------------------------------------
(* Control blocks: tcp_attach and tcp_reclaim_timewait.                     *)
Spare(h) == {s \in Slot : HostOf[s] = h /\ ~Live(s)}
Reclaimable(h) == {s \in Slot : HostOf[s] = h /\ tcb[s].state = "TIME_WAIT"}

(* Mutant of Available: a connection that still closes is taken as well.    *)
AvailableClosing(h) ==
    IF Spare(h) # {} THEN {CHOOSE s \in Spare(h) : TRUE}
    ELSE {s \in Slot : HostOf[s] = h /\ tcb[s].state \in {"TIME_WAIT", "LAST_ACK"}}

(* Where a new control block can go: a spare one, or else the place of a    *)
(* connection in TIME_WAIT.                                                 *)
Available(h) ==
    IF Spare(h) # {} THEN {CHOOSE s \in Spare(h) : TRUE} ELSE Reclaimable(h)

-----------------------------------------------------------------------------
(* The calls of the applications.                                           *)
(* An application uses a socket it has and has not closed; unless it has    *)
(* subtasks, it waits for the call it made.                                 *)
MayCall(s) ==
    /\ Live(s) /\ tcb[s].listener = NoTcb /\ "APPCLOSED" \notin tcb[s].flags
    /\ Subtasks \/ (~tcb[s].pconn /\ ~tcb[s].pacc /\ tcb[s].precv = 0 /\ tcb[s].psend = 0)

(* BIND and LISTEN.                                                         *)
Listen(h) ==
    /\ h \in Servers /\ ~\E s \in Slot : HostOf[s] = h /\ tcb[s].state = "LISTEN"
    /\ \E s \in Available(h), b \in Backlogs :
        tcb' = [Destroyed(tcb, s) EXCEPT
                  ![s] = [Fresh(h, "LISTEN") EXCEPT !.lport = Service, !.backlog = b]]
    /\ UNCHANGED <<net, ephem, opens, nobufs>>

(* tcp_ephemeral: the first port from ephem on, around, that no socket has.  *)
Turn(h, p) == (p - ephem[h]) % (EphemHi - EphemLo + 1)
FreePorts(h) ==
    LET free == {p \in EphemLo .. EphemHi : ~\E s \in Slot : HostOf[s] = h /\ tcb[s].lport = p}
    IN {p \in free : \A q \in free : Turn(h, p) <= Turn(h, q)}
NextPort(p) == IF p >= EphemHi THEN EphemLo ELSE p + 1

(* SOCKET and CONNECT: a port is chosen, the SYN goes out, and the call     *)
(* parks or, non-blocking, reports EINPROGRESS.  When the SYN cannot be     *)
(* sent the socket stays CLOSED and CONNECT may be tried again.             *)
Connect(h) ==
    /\ h \notin Servers /\ opens < Len(Iss)
    /\ \E s \in Available(h) \cup {s \in Slot : HostOf[s] = h /\ tcb[s].state = "CLOSED"},
         p \in FreePorts(h), parks \in BOOLEAN, room \in BOOLEAN :
        LET iss == Iss[opens + 1]
            bound == tcb[s].state = "CLOSED"
            t == [Fresh(h, "SYN_SENT") EXCEPT
                    !.faddr = Other(h), !.lport = IF bound THEN tcb[s].lport ELSE p,
                    !.flags = IF bound THEN tcb[s].flags ELSE {},
                    !.fport = Service, !.iss = iss, !.una = iss, !.nxt = Plus(iss, 1)]
        IN /\ Room(room)
           /\ ephem' = IF bound THEN ephem ELSE [ephem EXCEPT ![h] = NextPort(p)]
           /\ tcb' = [Destroyed(tcb, s) EXCEPT ![s] =
                        IF room THEN Timers([t EXCEPT !.pconn = parks])
                        ELSE [t EXCEPT !.state = "CLOSED"]]
           /\ net' = Carry(net, Emit(Begin(t, room), {"SYN"}).out)
    /\ opens' = opens + 1

(* ACCEPT: the oldest child, or the call parks.                             *)
Accept(s) ==
    LET q == tcb[s].acceptq
    IN /\ MayCall(s) /\ tcb[s].state = "LISTEN"
       /\ tcb' = IF q = <<>> THEN [tcb EXCEPT ![s].pacc = TRUE]
                 ELSE [tcb EXCEPT ![s].acceptq = Tail(q), ![Head(q)].listener = NoTcb]
       /\ UNCHANGED <<net, ephem, opens, nobufs>>

Accepted(t) == t.sfree + t.sndq + t.psend    \* what the application gave to SEND

(* SEND: what fits the send queue is queued and sent; the call waits to     *)
(* give the rest, or returns a short count.                                 *)
SendCall(x, n, parks) ==
    LET take == IF x.room THEN Min({n, Ahead(SndBuf, x.t.sndq)}) ELSE 0
    IN Output([x EXCEPT !.t.sndq = @ + take, !.t.psend = IF parks THEN n - take ELSE 0])
SendData(s) ==
    /\ MayCall(s) /\ tcb[s].state \in {"ESTABLISHED", "CLOSE_WAIT"} /\ tcb[s].psend = 0
    /\ \E n \in 1 .. ByteMax[HostOf[s]] - Accepted(tcb[s]), parks \in BOOLEAN, x \in Begun(s) :
        Event(s, SendCall(x, n, parks))

(* The code has one bit, TCB_F_RCVFIN, for the end of file the peer sent    *)
(* ("RCVFIN" here) and the one SHUTDOWN made ("SHUTRD"): RECV asks for either. *)
AtEof(t) == {"RCVFIN", "SHUTRD"} \cap t.flags # {}

(* RECV: what there is, end of file, or the call parks.  A read that opens  *)
(* the window tells the peer.                                               *)
RecvCall(x, want) ==
    LET t == x.t
        y == [x EXCEPT !.t = Drained(t, want)]
        n == Min({want, Len(t.rxq)})
    IN IF t.rxq # <<>> THEN IF t.rwnd = 0 \/ n >= Mss THEN Ack(y) ELSE y
       ELSE IF AtEof(t) THEN x ELSE [x EXCEPT !.t.precv = want]
Recv(s) ==
    /\ MayCall(s) /\ tcb[s].precv = 0
    /\ \/ tcb[s].rxq # <<>>
       \/ ~AtEof(tcb[s])
            /\ tcb[s].state \in {"ESTABLISHED", "FIN_WAIT_1", "FIN_WAIT_2"}
    /\ \E want \in {1, RcvWnd}, x \in Begun(s) : Event(s, RecvCall(x, want))

(* The write side ends: the FIN is queued behind the data.                  *)
FinQueued(x, flags) ==
    LET t == x.t
        next == IF t.state = "CLOSE_WAIT" THEN "LAST_ACK" ELSE "FIN_WAIT_1"
    IN Output([x EXCEPT !.t.flags = @ \cup {"FINQ"} \cup flags, !.t.state = next])

(* Every byte given to SEND was sent once.                                  *)
AllSent(t) == t.sndq = 0 \/ t.nxt = Plus(t.una, t.sndq)

(* SHUTDOWN: for reading the application gets an end of file of its own, of *)
(* which a RECV that waits is not told; for writing the FIN is queued.      *)
LocalEof(how) == IF how = "wr" THEN {} ELSE {"SHUTRD"}
ShutdownCall(x, how) ==
    LET y == [x EXCEPT !.t.flags = @ \cup LocalEof(how)]
    IN IF how # "rd" /\ x.t.state \in {"ESTABLISHED", "CLOSE_WAIT"} THEN FinQueued(y, {}) ELSE y
Shutdown(s) ==
    /\ MayCall(s)
    /\ \E how \in Shuts[HostOf[s]], x \in Begun(s) :
         /\ how = "rd" \/ Early \/ AllSent(tcb[s])
         /\ Event(s, ShutdownCall(x, how))

(* CLOSE: what has nothing on the wire is destroyed, an open connection     *)
(* ends with a FIN, and one that closes already only learns of it.          *)
CloseCall(x) ==
    CASE x.t.state \in {"CLOSED", "LISTEN", "SYN_SENT"} -> Gone(x)
      [] x.t.state \in {"SYN_RCVD", "ESTABLISHED", "CLOSE_WAIT"} -> FinQueued(x, {"APPCLOSED"})
      [] OTHER -> [x EXCEPT !.t.flags = @ \cup {"APPCLOSED"}]
Close(s) ==
    /\ HostOf[s] \in Closers /\ MayCall(s)
    /\ Early \/ AllSent(tcb[s])
    /\ \E x \in Begun(s) : Event(s, CloseCall(x))

-----------------------------------------------------------------------------
(* The timers.  Time is not modelled: one that is armed may expire.         *)
Rexmit(s) ==
    tcb[s].rexmit /\ \E x \in Begun(s) : Event(s, RexmitExpire([x EXCEPT !.t.rexmit = FALSE]))
Persist(s) ==
    tcb[s].persist /\ \E x \in Begun(s) : Event(s, PersistExpire([x EXCEPT !.t.persist = FALSE]))
TimeWaitEnds(s) == tcb[s].msl /\ \E x \in Begun(s) : Event(s, Gone(x))
Expire(s) == Rexmit(s) \/ Persist(s) \/ TimeWaitEnds(s)

-----------------------------------------------------------------------------
(* The network.                                                             *)
(* tcp_demux: the connection of the segment's ports, or else a listener.    *)
Connection(g) == {s \in Slot : /\ Live(s) /\ HostOf[s] = g.to /\ tcb[s].state # "LISTEN"
                               /\ tcb[s].lport = g.dport /\ tcb[s].fport = g.sport}
ListenerOf(g) == {s \in Slot : HostOf[s] = g.to /\ tcb[s].state = "LISTEN"
                               /\ tcb[s].lport = g.dport}

RoomFor(l) == Cardinality(Children(tcb, l)) < tcb[l].backlog

(* tcp_passive_open: a child in SYN_RCVD answers, unless the backlog, the   *)
(* pool or the buffers are used up.                                         *)
PassiveOpen(l, g, rest) ==
    \E s \in Available(HostOf[l]), room \in BOOLEAN :
        LET iss == Iss[opens + 1]
            t == [Fresh(HostOf[l], "SYN_RCVD") EXCEPT
                    !.faddr = g.from, !.lport = g.dport, !.fport = g.sport, !.listener = l,
                    !.iss = iss, !.una = iss, !.nxt = Plus(iss, 1), !.irs = g.seq,
                    !.rnxt = Plus(g.seq, 1), !.wnd = g.wnd, !.wl1 = g.seq, !.wl2 = iss]
        IN /\ Room(room)
           /\ tcb' = [Destroyed(tcb, s) EXCEPT ![s] = IF room THEN Timers(t) ELSE Blank(s)]
           /\ net' = Carry(rest, Emit(Begin(t, room), {"SYN", "ACK"}).out)
           /\ opens' = opens + 1 /\ UNCHANGED ephem

Answer(g, rest) ==
    /\ net' = IF "RST" \in g.fl THEN rest ELSE Carry(rest, {RstFor(g)})
    /\ UNCHANGED <<tcb, ephem, opens, nobufs>>

(* tcp_listen_input.                                                        *)
ToListener(l, g, rest) ==
    IF "ACK" \in g.fl \/ "RST" \in g.fl THEN Answer(g, rest)
    ELSE IF /\ "SYN" \in g.fl /\ RoomFor(l) /\ Available(HostOf[l]) # {} /\ opens < Len(Iss)
         THEN PassiveOpen(l, g, rest)
         ELSE net' = rest /\ UNCHANGED <<tcb, ephem, opens, nobufs>>

(* tcp_state_input of a connection.                                         *)
StateInput(x, g) ==
    CASE x.t.state = "SYN_SENT" -> SynSentInput(x, g)
      [] x.t.state = "CLOSED" -> IF "RST" \in g.fl THEN x ELSE Send(x, RstFor(g))
      [] OTHER -> SynchronizedInput(x, g)

ToConnection(s, g, rest) ==
    \E room \in BOOLEAN :
        LET x == StateInput(Begin(tcb[s], room), g)
        IN /\ Room(room) /\ tcb' = After(tcb, s, x) /\ net' = Carry(rest, x.out)
           /\ UNCHANGED <<ephem, opens>>

(* A segment arrives; a copy of it may arrive again.                        *)
Arrive(g) ==
    \E rest \in {net, net \ {g}} :
        IF Connection(g) # {} THEN \E s \in Connection(g) : ToConnection(s, g, rest)
        ELSE IF ListenerOf(g) # {} THEN \E l \in ListenerOf(g) : ToListener(l, g, rest)
             ELSE Answer(g, rest)

(* A segment is lost on the way, or dropped for its header or checksum.     *)
Lose(g) == net' = net \ {g} /\ UNCHANGED <<tcb, ephem, opens, nobufs>>

-----------------------------------------------------------------------------
Next ==
    \/ \E h \in Hosts : Listen(h) \/ Connect(h)
    \/ \E s \in Slot : \/ Accept(s) \/ SendData(s) \/ Recv(s) \/ Shutdown(s) \/ Close(s)
                       \/ Rexmit(s) \/ Persist(s) \/ TimeWaitEnds(s)
    \/ \E g \in net : Arrive(g) \/ Lose(g)

Spec == Init /\ [][Next]_vars

(* The timer manager runs what has expired.                                 *)
FairSpec == Spec /\ \A s \in Slot : WF_vars(Expire(s))

-----------------------------------------------------------------------------
Unsynchronized == {"FREE", "CLOSED", "LISTEN", "SYN_SENT"}
(* The two ends of one connection.                                          *)
Paired(s, r) ==
    /\ HostOf[s] # HostOf[r] /\ {tcb[s].state, tcb[r].state} \cap Unsynchronized = {}
    /\ tcb[s].irs = tcb[r].iss /\ tcb[r].irs = tcb[s].iss

Received(t) == t.rcvd + Len(t.rxq)
SentBytes(t) == t.sfree + Min({t.sndq, Minus(t.nxt, t.una)})

(* However segments are lost, repeated and reordered, and wherever the      *)
(* sequence space wraps, what RECV delivers is what SEND was given: the     *)
(* bytes queued for the application are the next ones of the peer's stream, *)
(* in order, and an end of file comes after all of them (tcp_recv_data,     *)
(* tcp_process_fin, tcp_sndq_slice).                                        *)
StreamIntact ==
    \A s \in Slot :
        LET t == tcb[s]
        IN /\ \A i \in DOMAIN t.rxq : t.rxq[i][1] = t.irs /\ t.rxq[i][2] = t.rcvd + i
           /\ \A r \in Slot : Paired(s, r) =>
                /\ Received(t) <= tcb[r].sfree + tcb[r].sndq
                /\ "RCVFIN" \in t.flags => /\ "FINSENT" \in tcb[r].flags
                                          /\ Received(t) = tcb[r].sfree + tcb[r].sndq

(* What a receiver has queued and what it still offers is always the whole  *)
(* buffer, and an end that has sent nothing itself is never sent more than  *)
(* it offered: no window is lost by reads and none is overrun               *)
(* (tcp_recv_drain_to, tcp_output).  An end that sends may be overrun for a *)
(* while: its own retransmissions carry acknowledgments whose window is     *)
(* older than SND.WL1 and is not taken.                                     *)
WindowHonest ==
    \A s \in Slot : Live(s) =>
        /\ Len(tcb[s].rxq) + tcb[s].rwnd = RcvWnd
        /\ \A r \in Slot :
             Paired(s, r) /\ tcb[s].sfree + tcb[s].sndq = 0 /\ "FINSENT" \notin tcb[s].flags =>
             SentBytes(tcb[r]) <= Received(tcb[s]) + tcb[s].rwnd

(* Nothing waits without a timer that will move it, and the timers exclude  *)
(* each other as the callbacks that free a control block rely on: what is   *)
(* in flight is retransmitted, data behind a closed window is probed, and   *)
(* TIME_WAIT runs its own timer alone (tcp_timers_update).  Data a send     *)
(* found no buffer for waits untimed until the next call, so the last part  *)
(* holds while buffers are found.                                           *)
NothingUntimed ==
    \A s \in Slot :
        LET t == tcb[s]
        IN /\ ~(t.rexmit /\ t.persist)
           /\ t.msl <=> t.state = "TIME_WAIT"
           /\ t.msl => ~t.rexmit /\ ~t.persist
           /\ t.una # t.nxt /\ t.state # "CLOSED" => t.rexmit
           /\ t.sndq > 0 /\ nobufs = 0 => t.rexmit \/ t.persist

(* A call is parked only while what it waits for has not come: no data and  *)
(* no end of file for RECV, no child for ACCEPT, no space for SEND, no end  *)
(* of the handshake for CONNECT.  Two cases are excepted that the code      *)
(* leaves parked: a SEND that found no buffer, with space in its queue, and *)
(* a RECV whose socket another subtask shuts down for reading.              *)
ParkedForCause ==
    \A s \in Slot :
        LET t == tcb[s]
        IN /\ t.precv > 0 => /\ t.rxq = <<>> /\ "RCVFIN" \notin t.flags
                             /\ Subtasks \/ ~AtEof(t)
           /\ t.pacc => t.acceptq = <<>>
           /\ t.psend > 0 /\ nobufs = 0 => t.sndq = SndBuf
           /\ t.pconn => t.state \in {"SYN_SENT", "SYN_RCVD"}

(* The accept queue of a listener holds its children that got past the      *)
(* handshake, each once, and its children never outgrow the backlog: the    *)
(* full queue tcp_graduate calls unreachable is.                            *)
AcceptQueueExact ==
    \A l \in Slot :
        LET q == tcb[l].acceptq
            past == {c \in Children(tcb, l) : tcb[c].state # "SYN_RCVD"}
        IN /\ {q[i] : i \in DOMAIN q} = past /\ Len(q) = Cardinality(past)
           /\ Children(tcb, l) # {} => /\ tcb[l].state = "LISTEN"
                                       /\ Cardinality(Children(tcb, l)) <= tcb[l].backlog

(* A pool that is empty takes the place of no connection the peer still     *)
(* needs: when one block passes from a connection to the next, the old one  *)
(* had everything acknowledged, its end included, and had the peer's end    *)
(* (tcp_reclaim_timewait).                                                  *)
ReclaimsTheDead ==
    [][\A s \in Slot :
        /\ tcb[s].state \notin {"FREE", "CLOSED"}
        /\ tcb'[s].state # "FREE" /\ tcb'[s].iss # tcb[s].iss
        => /\ tcb[s].una = tcb[s].nxt /\ tcb[s].sndq = 0
           /\ {"FINSENT", "RCVFIN"} \subseteq tcb[s].flags]_vars

(* A CONNECT that waits comes to an end, whatever the network does: the     *)
(* handshake completes, is refused, or the SYN is given up.                 *)
ConnectEnds == \A s \in Slot : tcb[s].pconn ~> ~tcb[s].pconn

(* CLOSE and SHUTDOWN send the FIN "once the sndq drains": a connection     *)
(* whose end the peer has acknowledged has sent all its data and its FIN.   *)
CloseSendsAll ==
    \A s \in Slot : tcb[s].state \in {"FIN_WAIT_2", "TIME_WAIT"} =>
        "FINSENT" \in tcb[s].flags /\ tcb[s].sndq = 0

(* Not true of this code, and checked by no run (see the README): a         *)
(* retransmitted segment is one that was sent, and no data is under way     *)
(* that SND.NXT does not count, but for the byte of a probe.                *)
OnlySentIsResent ==
    \A g \in net, s \in Slot :
        g.len > 0 /\ Live(s) /\ g.iss = tcb[s].iss /\ g.from = HostOf[s] /\ ~tcb[s].persist =>
            SeqLEQ(Plus(g.seq, g.len), tcb[s].nxt)
=============================================================================

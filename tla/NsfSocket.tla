------------------------------ MODULE NsfSocket ------------------------------
(***************************************************************************)
(* The executive side of a socket request: the application registry and    *)
(* dispatcher (nsfreq.c), the socket table and its one teardown checklist  *)
(* (nsfsoc.c), the SELECT engine (nsfsel.c) and UDP, the protocol that     *)
(* parks and completes RECV (nsfudp.c).                                    *)
(*                                                                         *)
(* The executive is single-task and run-to-completion, so one dispatch,    *)
(* one timer callback or one inbound datagram is one action.  What is      *)
(* interleaved is what happens while requests are parked.  In phase 1 the  *)
(* clients are subtasks of the stack's address space: requests carry no    *)
(* identity and many may be parked.  In phase 2 each client is an address  *)
(* space the SVC routine identified, and one request is in service at a    *)
(* time; a client may die, and the registry is swept for dead ones.        *)
(* A definition called a mutant is a wrong variant and no part of Next.    *)
(***************************************************************************)
EXTENDS Naturals, FiniteSets

CONSTANTS
    Task,        \* the client tasks
    Space,       \* the client address spaces (ASCB and ASID)
    Home,        \* the address space each task runs in
    Phases,      \* the phases a run starts in: a subset of {1, 2}
    AppMax,      \* NSFREQ_APP_MAX
    SockMax,     \* the socket table's size, and its pool's
    PcbMax,      \* NSFUDP_MAX_PCB
    SelMax,      \* NSFSEL_MAX
    RxMax,       \* NSFSOC_RXQ_MAX
    GenMax,      \* the last generation before the wrap to 1 (2^16 - 1)
    HomeAddr,    \* the stack's own addresses; AnyAddr is INADDR_ANY
    Port, Ephem, \* the ports a client asks for, and the ephemeral range
    OpenMax,     \* model bound: how many INITAPIs and SOCKETs succeed
    ItemMax,     \* model bound: how many descriptors one SELECT names
    AnyAddr, NoTask, NoSpace

ASSUME SizesAssumption ==
    /\ AppMax \in Nat \ {0} /\ SockMax \in Nat \ {0} /\ PcbMax \in Nat
    /\ SelMax \in Nat /\ RxMax \in Nat /\ GenMax \in Nat \ {0}
ASSUME NamesAssumption ==
    /\ NoTask \notin Task /\ NoSpace \notin Space /\ AnyAddr \notin HomeAddr
    /\ Home \in [Task -> Space] /\ Phases \subseteq {1, 2}
    /\ 0 \notin Port \cup Ephem

VARIABLES
    phase,
    apptab,      \* the application registry
    socktab,     \* the socket table and its SOCKCBs
    pcblist,     \* the bound UDP pcbs
    selcb,       \* the parked SELECTs
    seltmr,      \* the SELECT blocks whose timer is armed
    waiting,     \* the tasks in WAIT on the ecb of a parked request
    cur,         \* the identity of the last request dispatched
    dead,        \* the address spaces that ended without TERMAPI
    opens        \* how many INITAPIs and SOCKETs succeeded

vars == <<phase, apptab, socktab, pcblist, selcb, seltmr, waiting, cur, dead, opens>>

AppSlot  == 0 .. AppMax - 1
SockSlot == 0 .. SockMax - 1
SelSlot  == 0 .. SelMax - 1
Token    == [idx : AppSlot, gen : 1 .. GenMax]
Desc     == [id : SockSlot, gen : 1 .. GenMax]
NoToken  == [idx |-> 0, gen |-> 0]
Addr     == HomeAddr \cup {AnyAddr}
Verdict  == {"LIVE", "DEAD", "UNKNOWN"}

NextGen(g) == IF g = GenMax THEN 1 ELSE g + 1

(* A table is searched from its first slot on.                             *)
Lowest(S) == {x \in S : \A y \in S : x <= y}

(***************************************************************************)
(* The application registry.                                               *)
(***************************************************************************)
FreeApp(g) == [inuse |-> FALSE, gen |-> g, who |-> NoSpace]

AppToken(k) == [idx |-> k, gen |-> apptab[k].gen]
AppKnown(tok) == tok \in {AppToken(k) : k \in {k \in AppSlot : apptab[k].inuse}}

(* What the registry becomes when the applications in gone are freed: each *)
(* slot names nobody, and its next token is a new one.                     *)
AppsFreed(gone) ==
    [k \in AppSlot |-> IF k \in gone THEN FreeApp(NextGen(apptab[k].gen)) ELSE apptab[k]]

(* The token a request comes with is worth something only when the slot it *)
(* names was registered by the address space that asks.                    *)
Authenticate(tok, who) ==
    IF who = NoSpace \/ (AppKnown(tok) /\ apptab[tok.idx].who = who) THEN tok ELSE NoToken

(* What the classifier may answer of a registered application: nothing of  *)
(* one without an identity, and DEAD only of an address space that ended.  *)
Answers(k) ==
    CASE apptab[k].who = NoSpace -> {"NONE"}
      [] apptab[k].who \in dead -> Verdict
      [] OTHER -> Verdict \ {"DEAD"}

Verdicts == {v \in [AppSlot -> Verdict \cup {"NONE"}] :
                \A k \in AppSlot : v[k] \in Answers(k)}

(* Mutant of Reclaimable: UNKNOWN is taken for a verdict.                  *)
ReclaimableUnproved(v) == {k \in AppSlot : apptab[k].inuse /\ v[k] \in {"DEAD", "UNKNOWN"}}

Reclaimable(v) == {k \in AppSlot : apptab[k].inuse /\ v[k] = "DEAD"}

(***************************************************************************)
(* The socket table.                                                       *)
(***************************************************************************)
Vacant(g) == [gen |-> g, state |-> "FREE", tok |-> NoToken, laddr |-> AnyAddr,
              lport |-> 0, pcb |-> FALSE, rxq |-> 0, pend |-> NoTask]

Live(i) == socktab[i].state # "FREE"
SockDesc(i) == [id |-> i, gen |-> socktab[i].gen]
Resolves(d) == Live(d.id) /\ socktab[d.id].gen = d.gen

(* The one ownership check: the socket names its application, and the      *)
(* application's slot names the address space it was registered from.      *)
Owned(d, who) ==
    /\ Resolves(d)
    /\ \/ who = NoSpace
       \/ /\ AppKnown(socktab[d.id].tok)
          /\ apptab[socktab[d.id].tok.idx].who = who

SocketsOf(toks) == {i \in SockSlot : Live(i) /\ socktab[i].tok \in toks}

(* The descriptors and tokens a client can have been given so far.         *)
Issued == {d \in Desc : d.gen < socktab[d.id].gen \/ Resolves(d)}
IssuedTokens == {k \in Token : k.gen < apptab[k.idx].gen \/ AppKnown(k)}

(***************************************************************************)
(* SELECT.                                                                 *)
(***************************************************************************)
FreeSel == [busy |-> FALSE, req |-> NoTask, items |-> {}, want |-> {},
            who |-> NoSpace, timed |-> FALSE]

(* The descriptors of a set that are ready for the client who asks: what   *)
(* is closed, reused or another's counts for nothing.                      *)
Ready(items, want, who, tab) ==
    {d \in items : /\ Owned(d, who)
                   /\ \/ "READ" \in want /\ tab[d.id].rxq > 0
                      \/ "WRITE" \in want}

(* Mutant of Awake: the datagram is not yet on the queue.                  *)
AwakeEarly(tab) ==
    {j \in SelSlot : /\ selcb[j].busy
                     /\ Ready(selcb[j].items, selcb[j].want, selcb[j].who, socktab) # {}}

(* The parked SELECTs a rescan would complete, with tab the socket table.  *)
Awake(tab) ==
    {j \in SelSlot : /\ selcb[j].busy
                     /\ Ready(selcb[j].items, selcb[j].want, selcb[j].who, tab) # {}}

(* Mutant of Watching: the generation was bumped before the poke.          *)
WatchingLate(gone) ==
    {j \in SelSlot : selcb[j].busy /\ \E i \in gone :
        [id |-> i, gen |-> NextGen(socktab[i].gen)] \in selcb[j].items}

(* The parked SELECTs that name a socket which is about to be destroyed;   *)
(* its descriptor still carries the generation it was handed out with.     *)
Watching(gone) ==
    {j \in SelSlot : selcb[j].busy /\ \E i \in gone : SockDesc(i) \in selcb[j].items}

SelReqs(done) == {selcb[j].req : j \in done}

(* Completing a parked SELECT frees its block and cancels its timer.       *)
SelFinished(done) ==
    /\ selcb' = [j \in SelSlot |-> IF j \in done THEN FreeSel ELSE selcb[j]]
    /\ seltmr' = seltmr \ done

(***************************************************************************)
(* The one teardown checklist, for all the sockets in gone: abort the      *)
(* SELECTs that watch them, detach the pcbs, flush the receive queues,     *)
(* complete the parked requests, end the descriptors, vacate the slots.    *)
(***************************************************************************)
Vacated(gone) ==
    [i \in SockSlot |-> IF i \in gone THEN Vacant(NextGen(socktab[i].gen)) ELSE socktab[i]]

Detached(gone) == {p \in pcblist : ~(p.sock \in gone /\ socktab[p.sock].pcb)}

(* Mutant of Parked: the parked requests are forgotten.                    *)
ParkedForgotten(gone) == {}

Parked(gone) == {socktab[i].pend : i \in gone} \ {NoTask}

Destroy(gone) ==
    /\ SelFinished(Watching(gone))
    /\ pcblist' = Detached(gone)
    /\ socktab' = Vacated(gone)
    /\ waiting' = waiting \ (Parked(gone) \cup SelReqs(Watching(gone)))

(* Mutant of EndApps: the token is read after the slot was freed.          *)
EndAppsFreedFirst(gone) ==
    /\ Destroy(SocketsOf({[idx |-> k, gen |-> NextGen(apptab[k].gen)] : k \in gone}))
    /\ apptab' = AppsFreed(gone)

(* An application ends through the same checklist whoever ends it.  Its    *)
(* token is taken before the slot is freed, for the sockets carry it.      *)
EndApps(gone) ==
    /\ Destroy(SocketsOf({AppToken(k) : k \in gone}))
    /\ apptab' = AppsFreed(gone)

(***************************************************************************)
(* Dispatch.  A client in WAIT asks for nothing; in phase 2 the next       *)
(* request is taken only when none is in service.                          *)
(***************************************************************************)
Caller(t) == IF phase = 2 THEN Home[t] ELSE NoSpace

Dispatch(t) ==
    /\ t \notin waiting
    /\ phase = 2 => waiting = {} /\ Home[t] \notin dead
    /\ cur' = Caller(t)
    /\ UNCHANGED <<phase, dead>>

NothingDone == UNCHANGED <<apptab, socktab, pcblist, selcb, seltmr, waiting, opens>>
OnlySockets == UNCHANGED <<apptab, pcblist, selcb, seltmr, opens>>

FreeAppSlots(tab) == {k \in AppSlot : ~tab[k].inuse}
FreeSockSlots == {i \in SockSlot : ~Live(i)}
FreeSelSlots == {j \in SelSlot : ~selcb[j].busy}

(* INITAPI: a full registry is swept once, whatever the interval.          *)
Swept(v) == IF FreeAppSlots(apptab) = {} THEN Reclaimable(v) ELSE {}

InitApi(t) ==
    /\ opens < OpenMax
    /\ Dispatch(t)
    /\ \E v \in Verdicts :
         LET tab == AppsFreed(Swept(v)) IN
         /\ Destroy(SocketsOf({AppToken(k) : k \in Swept(v)}))
         /\ IF FreeAppSlots(tab) = {}
            THEN apptab' = tab /\ opens' = opens
            ELSE /\ \E k \in Lowest(FreeAppSlots(tab)) :
                      apptab' = [tab EXCEPT ![k] =
                                   [@ EXCEPT !.inuse = TRUE, !.who = Caller(t)]]
                 /\ opens' = opens + 1

(* TERMAPI.                                                                *)
TermApi(t, tok) ==
    /\ Dispatch(t)
    /\ UNCHANGED opens
    /\ LET token == Authenticate(tok, Caller(t)) IN
       IF AppKnown(token)
       THEN EndApps({token.idx})
       ELSE NothingDone

(* SOCKET: the first vacant slot, under the generation the slot has.       *)
Socket(t, tok) ==
    /\ opens < OpenMax
    /\ Dispatch(t)
    /\ LET token == Authenticate(tok, Caller(t)) IN
       IF AppKnown(token) /\ FreeSockSlots # {}
       THEN /\ \E i \in Lowest(FreeSockSlots) :
                 socktab' = [socktab EXCEPT ![i] =
                               [@ EXCEPT !.state = "OPEN", !.tok = token]]
            /\ opens' = opens + 1
            /\ UNCHANGED <<apptab, pcblist, selcb, seltmr, waiting>>
       ELSE NothingDone

(* CLOSE: UDP has no close callback, so the checklist runs at once.        *)
Close(t, d) ==
    /\ Dispatch(t)
    /\ UNCHANGED <<apptab, opens>>
    /\ IF Owned(d, cur')
       THEN Destroy({d.id})
       ELSE UNCHANGED <<socktab, pcblist, selcb, seltmr, waiting>>

(***************************************************************************)
(* UDP.  The pcb list demultiplexes by the exact local name first, then by *)
(* INADDR_ANY on the port.                                                 *)
(***************************************************************************)
Pcb(i, laddr, lport) == [sock |-> i, laddr |-> laddr, lport |-> lport]

BoundTo(laddr, lport) == {p \in pcblist : p.laddr = laddr /\ p.lport = lport}

Demux(dst, dport) ==
    IF BoundTo(dst, dport) # {} THEN BoundTo(dst, dport) ELSE BoundTo(AnyAddr, dport)

FreePorts == {p \in Ephem : \A q \in pcblist : q.lport # p}

(* Mutant of Bindable: nobody looks for the name.                          *)
BindableBlind(laddr, lport) == IF lport = 0 THEN FreePorts ELSE {lport}

(* The ports udp_bind may settle on; none when the name is taken.          *)
Bindable(laddr, lport) ==
    IF lport = 0 THEN FreePorts
    ELSE IF BoundTo(laddr, lport) = {} THEN {lport} ELSE {}

(* BIND records the name and the state before the protocol is asked; UDP   *)
(* then refuses a second bind, a taken name and a full pcb list.           *)
Bind(t, d, laddr, lport) ==
    /\ Dispatch(t)
    /\ UNCHANGED <<apptab, selcb, seltmr, waiting, opens>>
    /\ IF ~Owned(d, cur')
       THEN UNCHANGED <<socktab, pcblist>>
       ELSE LET s == [socktab[d.id] EXCEPT !.laddr = laddr, !.lport = lport, !.state = "BOUND"]
            IN
            \/ /\ s.pcb \/ Bindable(laddr, lport) = {}
               /\ socktab' = [socktab EXCEPT ![d.id] = s]
               /\ UNCHANGED pcblist
            \/ /\ ~s.pcb
               /\ \E p \in Bindable(laddr, lport) :
                    LET room == Cardinality(pcblist) < PcbMax IN
                    /\ socktab' = [socktab EXCEPT ![d.id] =
                                     [s EXCEPT !.lport = p, !.pcb = room]]
                    /\ pcblist' = IF room THEN pcblist \cup {Pcb(d.id, laddr, p)}
                                  ELSE pcblist

(* RECV and RECVFROM: a queued datagram, or park; one request per socket.  *)
Recv(t, d, nonblock) ==
    /\ Dispatch(t)
    /\ OnlySockets
    /\ LET s == socktab[d.id] IN
       \/ /\ Owned(d, cur')
          /\ s.rxq > 0
          /\ socktab' = [socktab EXCEPT ![d.id].rxq = @ - 1]
          /\ UNCHANGED waiting
       \/ /\ Owned(d, cur')
          /\ s.rxq = 0 /\ ~nonblock /\ s.pend = NoTask
          /\ socktab' = [socktab EXCEPT ![d.id].pend = t]
          /\ waiting' = waiting \cup {t}
       \/ /\ \/ ~Owned(d, cur')
             \/ s.rxq = 0 /\ (nonblock \/ s.pend # NoTask)
          /\ UNCHANGED <<socktab, waiting>>

(* A datagram goes to the parked RECV, else on the receive queue -- and    *)
(* then every parked SELECT is rescanned -- else it is dropped.            *)
Delivered(i) == [socktab EXCEPT ![i].pend = NoTask]
Queued(i)    == [socktab EXCEPT ![i].rxq = @ + 1]

UdpInput(dst, dport) ==
    /\ UNCHANGED <<phase, apptab, pcblist, cur, dead, opens>>
    /\ \E p \in Demux(dst, dport) :
         LET s == socktab[p.sock] IN
         \/ /\ s.pend # NoTask
            /\ socktab' = Delivered(p.sock)
            /\ waiting' = waiting \ {s.pend}
            /\ UNCHANGED <<selcb, seltmr>>
         \/ /\ s.pend = NoTask /\ s.rxq < RxMax
            /\ socktab' = Queued(p.sock)
            /\ SelFinished(Awake(Queued(p.sock)))
            /\ waiting' = waiting \ SelReqs(Awake(Queued(p.sock)))

(***************************************************************************)
(* SELECT: answer at once when something is ready or only a poll was       *)
(* asked, else park for good or with a timer, if a block is free.          *)
(***************************************************************************)
Select(t, items, want, how) ==
    /\ Dispatch(t)
    /\ UNCHANGED <<apptab, socktab, pcblist, opens>>
    /\ IF \/ Ready(items, want, cur', socktab) # {}
          \/ how = "poll"
          \/ FreeSelSlots = {}
       THEN UNCHANGED <<selcb, seltmr, waiting>>
       ELSE \E j \in Lowest(FreeSelSlots) :
            /\ selcb' = [selcb EXCEPT ![j] =
                  [busy |-> TRUE, req |-> t, items |-> items, want |-> want,
                   who |-> cur', timed |-> how = "timed"]]
            /\ seltmr' = IF how = "timed" THEN seltmr \cup {j} ELSE seltmr
            /\ waiting' = waiting \cup {t}

(* The timer was disarmed before its callback runs.                        *)
SelTimeout(j) ==
    /\ j \in seltmr
    /\ SelFinished({j})
    /\ waiting' = waiting \ SelReqs({j})
    /\ UNCHANGED <<phase, apptab, socktab, pcblist, cur, dead, opens>>

(* The periodic sweep, only while no request is in service.                *)
Sweep ==
    /\ phase = 2 /\ waiting = {}
    /\ \E v \in Verdicts : Reclaimable(v) # {} /\ EndApps(Reclaimable(v))
    /\ UNCHANGED <<phase, cur, dead, opens>>

(* A client address space ends without TERMAPI.                            *)
Die(a) ==
    /\ phase = 2 /\ a \notin dead
    /\ dead' = dead \cup {a}
    /\ UNCHANGED <<phase, apptab, socktab, pcblist, selcb, seltmr, waiting, cur, opens>>

Init ==
    /\ phase \in Phases
    /\ apptab = [k \in AppSlot |-> FreeApp(1)]
    /\ socktab = [i \in SockSlot |-> Vacant(1)]
    /\ pcblist = {}
    /\ selcb = [j \in SelSlot |-> FreeSel]
    /\ seltmr = {}
    /\ waiting = {}
    /\ cur = NoSpace
    /\ dead = {}
    /\ opens = 0

Wants == SUBSET {"READ", "WRITE"} \ {{}}
Names(S) == {items \in SUBSET S : items # {} /\ Cardinality(items) <= ItemMax}

Request(t) ==
    \/ InitApi(t)
    \/ \E tok \in IssuedTokens : TermApi(t, tok) \/ Socket(t, tok)
    \/ \E d \in Issued :
         \/ Close(t, d)
         \/ \E laddr \in Addr, lport \in Port \cup {0} : Bind(t, d, laddr, lport)
         \/ \E nonblock \in BOOLEAN : Recv(t, d, nonblock)
    \/ \E items \in Names(Issued), want \in Wants, how \in {"poll", "timed", "block"} :
         Select(t, items, want, how)

Next ==
    \/ \E t \in Task : Request(t)
    \/ \E dst \in HomeAddr, dport \in Port \cup Ephem : UdpInput(dst, dport)
    \/ \E j \in SelSlot : SelTimeout(j)
    \/ Sweep
    \/ \E a \in Space : Die(a)

Spec == Init /\ [][Next]_vars
-----------------------------------------------------------------------------
(* A task is in WAIT exactly while one live socket or one SELECT block     *)
(* holds its request: no close, mass teardown, sweep, timeout or datagram  *)
(* forgets a parked request, wakes its task and keeps the request, or      *)
(* lets two owners complete it (soc_park, soc_complete, soc_destroy,       *)
(* sel_finish).                                                            *)
Holders(t) ==
    {<<"recv", i>> : i \in {i \in SockSlot : Live(i) /\ socktab[i].pend = t}} \cup
    {<<"select", j>> : j \in {j \in SelSlot : selcb[j].busy /\ selcb[j].req = t}}

HeldOnce == \A t \in Task : Cardinality(Holders(t)) = (IF t \in waiting THEN 1 ELSE 0)

(* Nobody sleeps through what it waits for: no RECV is parked on a socket  *)
(* with a datagram queued, and no SELECT on a set with a ready descriptor  *)
(* of its client (udp_recv, nsfudp_input's poke, nsfsel_on_notify).        *)
NobodySleeps ==
    /\ \A i \in SockSlot : socktab[i].pend # NoTask => socktab[i].rxq = 0
    /\ \A j \in SelSlot :
         selcb[j].busy => Ready(selcb[j].items, selcb[j].want, selcb[j].who, socktab) = {}

(* The demultiplexer names live sockets only, each the one that bound the  *)
(* name, and no name twice: a datagram reaches a socket that asked for it  *)
(* and none that was destroyed (udp_bind, udp_detach).                     *)
DemuxExact ==
    /\ \A p \in pcblist : Live(p.sock) /\ socktab[p.sock].pcb
    /\ \A i \in SockSlot : socktab[i].pcb => \E p \in pcblist : p.sock = i
    /\ \A p, q \in pcblist :
         p.sock = q.sock \/ (p.laddr = q.laddr /\ p.lport = q.lport) => p = q

(* A SELECT timer is armed exactly for a block in use with a finite        *)
(* timeout: every early end cancels it, so it never completes the SELECT   *)
(* that took the block over (sel_free's tmr_cancel).  And a socket does    *)
(* not vanish under a SELECT that stays parked: the one that destroys it   *)
(* completes every SELECT that names it (soc_destroy step 0, before the    *)
(* generation is bumped).                                                   *)
SelectsKept ==
    /\ [](seltmr = {j \in SelSlot : selcb[j].busy /\ selcb[j].timed})
    /\ [][\A j \in SelSlot :
           selcb[j].busy /\ selcb'[j] = selcb[j] =>
              \A d \in selcb[j].items : Resolves(d) => Resolves(d)']_vars

(* In phase 2 a socket is named, drained, parked on or ended only by a     *)
(* request of the address space that registered its application, or once   *)
(* that address space is dead (app_authenticate, nsfreq_sock_owned,        *)
(* nsfreq_app_sweep).                                                      *)
Touched(i) ==
    \/ ~Live(i)'
    \/ socktab'[i].rxq < socktab[i].rxq
    \/ socktab'[i].pend \notin {socktab[i].pend, NoTask}
    \/ <<socktab'[i].laddr, socktab'[i].lport>> # <<socktab[i].laddr, socktab[i].lport>>

OnlyOwnerTouches ==
    [][\A i \in SockSlot :
         LET owner == apptab[socktab[i].tok.idx].who IN
         phase = 2 /\ Live(i) /\ Touched(i) => cur' = owner \/ owner \in dead]_vars

(* The names the code hands out keep the promise of NsfDescSpec.           *)
OpenSocks == {[desc |-> SockDesc(i), app |-> socktab[i].tok] : i \in {i \in SockSlot : Live(i)}}

Names_ == INSTANCE NsfDescSpec WITH
    apps <- {AppToken(k) : k \in {k \in AppSlot : apptab[k].inuse}},
    socks <- OpenSocks,
    usedTokens <- IssuedTokens,
    usedDescs <- Issued

(* A token and a descriptor are given out once, every open socket belongs  *)
(* to a registered application, and an application ends together with all  *)
(* its sockets (app_free, do_termapi, nsfreq_app_sweep, soc_destroy).      *)
KeepsDescriptors == Names_!Spec

=============================================================================

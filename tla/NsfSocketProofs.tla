--------------------------- MODULE NsfSocketProofs ---------------------------
(***************************************************************************)
(* Proofs about NsfSocket: its type invariant, its safety invariants and   *)
(* action properties from one inductive invariant, and that it keeps the   *)
(* promise of NsfDescSpec.                                                 *)
(***************************************************************************)
EXTENDS NsfSocket, FiniteSetTheorems, TLAPS

App  == [inuse : BOOLEAN, gen : 1 .. GenMax, who : Space \cup {NoSpace}]
Sock == [gen : 1 .. GenMax, state : {"FREE", "OPEN", "BOUND"}, tok : Token \cup {NoToken},
         laddr : Addr, lport : Port \cup Ephem \cup {0}, pcb : BOOLEAN, rxq : 0 .. RxMax,
         pend : Task \cup {NoTask}]
Name == [sock : SockSlot, laddr : Addr, lport : Port \cup Ephem]
Sel  == [busy : BOOLEAN, req : Task \cup {NoTask}, items : SUBSET Desc,
         want : SUBSET {"READ", "WRITE"}, who : Space \cup {NoSpace}, timed : BOOLEAN]

TypeOK ==
    /\ phase \in Phases
    /\ apptab \in [AppSlot -> App]
    /\ socktab \in [SockSlot -> Sock]
    /\ pcblist \in SUBSET Name
    /\ selcb \in [SelSlot -> Sel]
    /\ seltmr \in SUBSET SelSlot
    /\ waiting \in SUBSET Task
    /\ cur \in Space \cup {NoSpace}
    /\ dead \in SUBSET Space
    /\ opens \in Nat

(***************************************************************************)
(* The inductive invariant.  A slot's generation tells how often it can    *)
(* have been used; a live socket is a registered application's, and a slot *)
(* without one holds nothing; a task in WAIT has exactly one holder; what  *)
(* a parked SELECT names exists or has been destroyed, and is no           *)
(* descriptor yet to come.                                                 *)
(***************************************************************************)
GenOK ==
    /\ \A i \in SockSlot : socktab[i].gen <= IF Live(i) THEN opens ELSE opens + 1
    /\ \A k \in AppSlot : apptab[k].gen <= IF apptab[k].inuse THEN opens ELSE opens + 1

RegistryOK == \A i \in SockSlot : Live(i) => AppKnown(socktab[i].tok)

VacantOK ==
    \A i \in SockSlot : ~Live(i) => /\ socktab[i].pend = NoTask /\ socktab[i].rxq = 0
                                    /\ ~socktab[i].pcb

HeldInWait ==
    /\ \A i \in SockSlot : socktab[i].pend # NoTask => socktab[i].pend \in waiting
    /\ \A j \in SelSlot : selcb[j].busy => selcb[j].req \in waiting

HeldApart ==
    /\ \A h, i \in SockSlot : socktab[h].pend = socktab[i].pend => h = i \/ socktab[h].pend = NoTask
    /\ \A h, j \in SelSlot : selcb[h].busy /\ selcb[j].busy /\ selcb[h].req = selcb[j].req => h = j
    /\ \A i \in SockSlot, j \in SelSlot : selcb[j].busy => socktab[i].pend # selcb[j].req

InWaitHeld ==
    \A t \in waiting : \/ \E i \in SockSlot : socktab[i].pend = t
                       \/ \E j \in SelSlot : selcb[j].busy /\ selcb[j].req = t

Drained == \A i \in SockSlot : socktab[i].pend # NoTask => socktab[i].rxq = 0

TimersOK == seltmr = {j \in SelSlot : selcb[j].busy /\ selcb[j].timed}

Past(d) == d.gen < socktab[d.id].gen \/ Resolves(d)

WatchedOK == \A j \in SelSlot : selcb[j].busy => \A d \in selcb[j].items : Past(d)

Quiet ==
    \A j \in SelSlot :
       selcb[j].busy => Ready(selcb[j].items, selcb[j].want, selcb[j].who, socktab) = {}

(* No generation has gone round: as many names were given out as it takes. *)
NoWrap == opens < GenMax

Tables == GenOK /\ RegistryOK /\ VacantOK /\ DemuxExact
Waits  == HeldInWait /\ HeldApart /\ InWaitHeld /\ Drained /\ TimersOK
Selects == WatchedOK /\ Quiet

IInv == TypeOK /\ Tables /\ Waits /\ (NoWrap => Selects)
-----------------------------------------------------------------------------
(* What the types say of the records of the tables.                        *)
LEMMA Records ==
    /\ 1 \in 1 .. GenMax
    /\ \A g \in 1 .. GenMax : /\ NextGen(g) \in 1 .. GenMax /\ NextGen(g) <= g + 1
                              /\ g < GenMax => g < NextGen(g) /\ NextGen(g) = g + 1
    /\ \A g \in 1 .. GenMax : Vacant(g) \in Sock /\ FreeApp(g) \in App
    /\ FreeSel \in Sel
    /\ \A s \in Sock : /\ s.gen \in 1 .. GenMax /\ s.tok \in Token \cup {NoToken}
                       /\ s.pend \in Task \cup {NoTask} /\ s.rxq \in 0 .. RxMax
    /\ \A r \in App : r.gen \in 1 .. GenMax /\ r.who \in Space \cup {NoSpace}
    /\ \A b \in Sel : b.req \in Task \cup {NoTask} /\ b.items \in SUBSET Desc
<1>1. 1 \in 1 .. GenMax
  BY SizesAssumption
<1>2. \A g \in 1 .. GenMax : /\ NextGen(g) \in 1 .. GenMax /\ NextGen(g) <= g + 1
                             /\ g < GenMax => g < NextGen(g) /\ NextGen(g) = g + 1
  BY SizesAssumption DEF NextGen
<1>3. 0 \in 0 .. RxMax
  BY SizesAssumption
<1>4. \A g \in 1 .. GenMax : Vacant(g) \in Sock /\ FreeApp(g) \in App
  BY <1>3 DEF Vacant, FreeApp, Sock, App, Addr
<1>5. FreeSel \in Sel
  BY DEF FreeSel, Sel
<1> QED
  BY <1>1, <1>2, <1>4, <1>5 DEF Sock, App, Sel

LEMMA Updates ==
    /\ \A s \in Sock : /\ \A t \in Task \cup {NoTask} : [s EXCEPT !.pend = t] \in Sock
                       /\ \A n \in 0 .. RxMax : [s EXCEPT !.rxq = n] \in Sock
                       /\ \A t \in Token \cup {NoToken} :
                             [s EXCEPT !.state = "OPEN", !.tok = t] \in Sock
    /\ \A r \in App, a \in Space \cup {NoSpace} : [r EXCEPT !.inuse = TRUE, !.who = a] \in App
BY DEF Sock, App

(* Descriptors and tokens are pairs.                                       *)
LEMMA Pairs ==
    /\ \A d \in Desc : d.id \in SockSlot /\ d.gen \in 1 .. GenMax
    /\ \A d, e \in Desc : d.id = e.id /\ d.gen = e.gen => d = e
    /\ \A t \in Token : t.idx \in AppSlot /\ t.gen \in 1 .. GenMax
    /\ \A t, u \in Token : t.idx = u.idx /\ t.gen = u.gen => t = u
    /\ \A i \in SockSlot, g \in 1 .. GenMax :
          /\ [id |-> i, gen |-> g] \in Desc
          /\ [id |-> i, gen |-> g].id = i /\ [id |-> i, gen |-> g].gen = g
    /\ \A k \in AppSlot, g \in 1 .. GenMax :
          /\ [idx |-> k, gen |-> g] \in Token
          /\ [idx |-> k, gen |-> g].idx = k /\ [idx |-> k, gen |-> g].gen = g
    /\ NoToken \notin Token
BY DEF NoToken, Desc, Token

LEMMA Slots ==
    ASSUME TypeOK
    PROVE  /\ \A i \in SockSlot : /\ socktab[i] \in Sock /\ SockDesc(i) \in Desc
                                  /\ SockDesc(i).id = i /\ SockDesc(i).gen = socktab[i].gen
           /\ \A k \in AppSlot : /\ apptab[k] \in App /\ AppToken(k) \in Token
                                 /\ AppToken(k).idx = k /\ AppToken(k).gen = apptab[k].gen
           /\ \A j \in SelSlot : selcb[j] \in Sel
<1>1. /\ \A i \in SockSlot : socktab[i] \in Sock
      /\ \A k \in AppSlot : apptab[k] \in App
      /\ \A j \in SelSlot : selcb[j] \in Sel
  BY DEF TypeOK
<1> QED
  BY <1>1, Records, Pairs DEF SockDesc, AppToken

(* A token is known when it is that of a slot in use.                      *)
LEMMA Known ==
    ASSUME TypeOK
    PROVE  \A tok : AppKnown(tok) <=> /\ tok \in Token /\ apptab[tok.idx].inuse
                                      /\ tok = AppToken(tok.idx)
BY Slots, Pairs DEF AppKnown

LEMMA FreedType ==
    ASSUME apptab \in [AppSlot -> App], NEW gone
    PROVE  /\ AppsFreed(gone) \in [AppSlot -> App]
           /\ \A k \in AppSlot :
                 /\ k \in gone => AppsFreed(gone)[k] = FreeApp(NextGen(apptab[k].gen))
                 /\ k \notin gone => AppsFreed(gone)[k] = apptab[k]
BY Records DEF AppsFreed

LEMMA VacatedType ==
    ASSUME socktab \in [SockSlot -> Sock], NEW gone
    PROVE  /\ Vacated(gone) \in [SockSlot -> Sock]
           /\ \A i \in SockSlot :
                 /\ i \in gone => Vacated(gone)[i] = Vacant(NextGen(socktab[i].gen))
                 /\ i \notin gone => Vacated(gone)[i] = socktab[i]
BY Records DEF Vacated

LEMMA FinishedType ==
    ASSUME TypeOK, NEW done, SelFinished(done)
    PROVE  /\ selcb' \in [SelSlot -> Sel] /\ seltmr' \in SUBSET SelSlot
           /\ \A j \in SelSlot : /\ j \in done => selcb'[j] = FreeSel
                                 /\ j \notin done => selcb'[j] = selcb[j]
BY Records DEF SelFinished, TypeOK

LEMMA DestroyType ==
    ASSUME TypeOK, NEW gone, Destroy(gone)
    PROVE  /\ socktab' \in [SockSlot -> Sock] /\ pcblist' \in SUBSET Name
           /\ selcb' \in [SelSlot -> Sel] /\ seltmr' \in SUBSET SelSlot
           /\ waiting' \in SUBSET Task
<1>1. socktab' \in [SockSlot -> Sock]
  BY VacatedType DEF Destroy, TypeOK
<1>2. pcblist' \in SUBSET Name /\ waiting' \in SUBSET Task
  BY DEF Destroy, Detached, TypeOK
<1> QED
  BY <1>1, <1>2, FinishedType DEF Destroy

LEMMA CallerType == \A t \in Task : Caller(t) \in Space \cup {NoSpace}
BY NamesAssumption DEF Caller

LEMMA InitType == Init => TypeOK
<1> SUFFICES ASSUME Init PROVE TypeOK
  OBVIOUS
<1> QED
  BY Records DEF Init, TypeOK

LEMMA InitApiType == ASSUME TypeOK, NEW t \in Task, InitApi(t) PROVE TypeOK'
<1>1. PICK v \in Verdicts :
         LET tab == AppsFreed(Swept(v)) IN
         /\ Destroy(SocketsOf({AppToken(k) : k \in Swept(v)}))
         /\ IF FreeAppSlots(tab) = {}
            THEN apptab' = tab /\ opens' = opens
            ELSE /\ \E k \in Lowest(FreeAppSlots(tab)) :
                      apptab' = [tab EXCEPT ![k] = [@ EXCEPT !.inuse = TRUE, !.who = Caller(t)]]
                 /\ opens' = opens + 1
  BY DEF InitApi
<1> DEFINE tab == AppsFreed(Swept(v))
<1>2. tab \in [AppSlot -> App]
  BY FreedType DEF TypeOK
<1>3. apptab' \in [AppSlot -> App] /\ opens' \in Nat
  <2>1. CASE FreeAppSlots(tab) = {}
    BY <1>1, <1>2, <2>1 DEF TypeOK
  <2>2. CASE FreeAppSlots(tab) # {}
    <3>0. opens' = opens + 1
      BY <1>1, <2>2
    <3>1. PICK k \in AppSlot : apptab' = [tab EXCEPT ![k] = [@ EXCEPT !.inuse = TRUE, !.who = Caller(t)]]
      BY <1>1, <2>2 DEF Lowest, FreeAppSlots
    <3>2. [tab[k] EXCEPT !.inuse = TRUE, !.who = Caller(t)] \in App
      BY <1>2, Updates, CallerType
    <3> HIDE DEF tab
    <3>3. apptab' \in [AppSlot -> App]
      BY <1>2, <3>1, <3>2
    <3> QED
      BY <3>0, <3>3 DEF TypeOK
  <2> QED
    BY <2>1, <2>2
<1>4. phase' = phase /\ dead' = dead /\ cur' \in Space \cup {NoSpace}
  BY CallerType DEF InitApi, Dispatch
<1> QED
  BY <1>1, <1>3, <1>4, DestroyType DEF TypeOK

LEMMA EndAppsType ==
    ASSUME TypeOK, NEW gone, EndApps(gone), phase' = phase, dead' = dead, opens' = opens,
           cur' \in Space \cup {NoSpace}
    PROVE  TypeOK'
<1>1. apptab' \in [AppSlot -> App]
  BY FreedType DEF EndApps, TypeOK
<1> QED
  BY <1>1, DestroyType DEF EndApps, TypeOK

LEMMA SocketType ==
    ASSUME TypeOK, NEW t \in Task, NEW tok, Socket(t, tok) PROVE TypeOK'
<1>1. phase' = phase /\ dead' = dead /\ cur' \in Space \cup {NoSpace}
  BY CallerType DEF Socket, Dispatch
<1>2. CASE NothingDone
  BY <1>1, <1>2 DEF NothingDone, TypeOK
<1>3. CASE ~NothingDone
  <2> DEFINE token == Authenticate(tok, Caller(t))
  <2>1. AppKnown(token)
    BY <1>3 DEF Socket
  <2>2. /\ UNCHANGED <<apptab, pcblist, selcb, seltmr, waiting>> /\ opens' = opens + 1
        /\ \E i \in FreeSockSlots :
              socktab' = [socktab EXCEPT ![i] = [@ EXCEPT !.state = "OPEN", !.tok = token]]
    BY <1>3 DEF Socket, Lowest
  <2> HIDE DEF token
  <2>3. PICK i \in SockSlot :
          socktab' = [socktab EXCEPT ![i] = [@ EXCEPT !.state = "OPEN", !.tok = token]]
    BY <2>2 DEF FreeSockSlots
  <2>4. token \in Token
    BY <2>1, Known
  <2>5. [socktab[i] EXCEPT !.state = "OPEN", !.tok = token] \in Sock
    BY <2>4, Updates DEF TypeOK
  <2>6. socktab' \in [SockSlot -> Sock]
    BY <2>3, <2>5 DEF TypeOK
  <2> QED
    BY <1>1, <2>2, <2>6 DEF TypeOK
<1> QED
  BY <1>2, <1>3

(* BIND gives a socket without a name one that nobody has.                 *)
Bound(i, laddr, p) ==
    /\ ~socktab[i].pcb /\ socktab'[i].pcb
    /\ pcblist' = pcblist \cup {Pcb(i, laddr, p)}
    /\ \A q \in pcblist : q.laddr # laddr \/ q.lport # p

LEMMA BindStep ==
    ASSUME TypeOK, NEW t \in Task, NEW d \in Desc, NEW laddr \in Addr,
           NEW lport \in Port \cup {0}, Bind(t, d, laddr, lport)
    PROVE  /\ UNCHANGED <<phase, apptab, selcb, seltmr, waiting, opens, dead>>
           /\ cur' = Caller(t) /\ socktab' \in [SockSlot -> Sock]
           /\ \/ UNCHANGED <<socktab, pcblist>>
              \/ /\ Owned(d, cur')
                 /\ \A i \in SockSlot : i # d.id => socktab'[i] = socktab[i]
                 /\ socktab'[d.id].gen = socktab[d.id].gen
                 /\ socktab'[d.id].tok = socktab[d.id].tok
                 /\ socktab'[d.id].rxq = socktab[d.id].rxq
                 /\ socktab'[d.id].pend = socktab[d.id].pend
                 /\ socktab'[d.id].state # "FREE"
                 /\ \/ pcblist' = pcblist /\ socktab'[d.id].pcb = socktab[d.id].pcb
                    \/ \E p \in Port \cup Ephem : Bound(d.id, laddr, p)
<1>1. /\ UNCHANGED <<phase, apptab, selcb, seltmr, waiting, opens, dead>> /\ cur' = Caller(t)
  BY DEF Bind, Dispatch
<1>2. CASE UNCHANGED <<socktab, pcblist>>
  BY <1>1, <1>2 DEF TypeOK
<1>3. CASE ~UNCHANGED <<socktab, pcblist>>
  <2> DEFINE s == [socktab[d.id] EXCEPT !.laddr = laddr, !.lport = lport, !.state = "BOUND"]
  <2>1. Owned(d, cur')
    BY <1>3 DEF Bind
  <2>2. d.id \in SockSlot /\ socktab[d.id] \in Sock
    BY Pairs, Slots
  <2>3. CASE socktab' = [socktab EXCEPT ![d.id] = s] /\ UNCHANGED pcblist
    <3>1. /\ s \in Sock /\ s.pcb = socktab[d.id].pcb /\ s.gen = socktab[d.id].gen
          /\ s.tok = socktab[d.id].tok /\ s.rxq = socktab[d.id].rxq
          /\ s.pend = socktab[d.id].pend /\ s.state # "FREE"
      BY <2>2 DEF Sock
    <3> HIDE DEF s
    <3>2. socktab' \in [SockSlot -> Sock] /\ socktab'[d.id] = s
      BY <2>2, <2>3, <3>1 DEF TypeOK
    <3>3. \A i \in SockSlot : i # d.id => socktab'[i] = socktab[i]
      BY <2>3 DEF TypeOK
    <3> QED
      BY <1>1, <2>1, <2>3, <3>1, <3>2, <3>3
  <2>4. CASE ~(socktab' = [socktab EXCEPT ![d.id] = s] /\ UNCHANGED pcblist)
    <3>1. PICK p \in Bindable(laddr, lport) :
            LET room == Cardinality(pcblist) < PcbMax IN
            /\ socktab' = [socktab EXCEPT ![d.id] = [s EXCEPT !.lport = p, !.pcb = room]]
            /\ pcblist' = IF room THEN pcblist \cup {Pcb(d.id, laddr, p)} ELSE pcblist
      BY <2>1, <2>4 DEF Bind
    <3>2. ~s.pcb
      BY <2>1, <2>4 DEF Bind
    <3>3. PICK room \in BOOLEAN : 
            /\ socktab' = [socktab EXCEPT ![d.id] = [s EXCEPT !.lport = p, !.pcb = room]]
            /\ pcblist' = IF room THEN pcblist \cup {Pcb(d.id, laddr, p)} ELSE pcblist
      <4>1. (Cardinality(pcblist) < PcbMax) \in BOOLEAN
        OBVIOUS
      <4> QED
        BY <3>1, <4>1
    <3>4. p \in Port \cup Ephem /\ \A q \in pcblist : q.laddr # laddr \/ q.lport # p
      BY DEF Bindable, FreePorts, BoundTo
    <3>5. LET b == [s EXCEPT !.lport = p, !.pcb = room]
          IN  /\ b \in Sock /\ b.gen = socktab[d.id].gen /\ b.tok = socktab[d.id].tok
              /\ b.rxq = socktab[d.id].rxq /\ b.pend = socktab[d.id].pend
              /\ b.pcb = room /\ b.state # "FREE"
      <4>1. \A r \in Sock : LET b == [[r EXCEPT !.laddr = laddr, !.lport = lport, !.state = "BOUND"]
                                     EXCEPT !.lport = p, !.pcb = room]
                           IN  /\ b \in Sock /\ b.gen = r.gen /\ b.tok = r.tok
                               /\ b.rxq = r.rxq /\ b.pend = r.pend
                               /\ b.pcb = room /\ b.state # "FREE"
        BY <3>4 DEF Sock
      <4> QED
        BY <2>2, <4>1
    <3>6. s.pcb = socktab[d.id].pcb
      BY <2>2 DEF Sock
    <3> DEFINE b == [s EXCEPT !.lport = p, !.pcb = room]
    <3> HIDE DEF b, s
    <3>7. socktab' = [socktab EXCEPT ![d.id] = b]
      BY <3>3 DEF b
    <3>8. /\ b \in Sock /\ b.gen = socktab[d.id].gen /\ b.tok = socktab[d.id].tok
          /\ b.rxq = socktab[d.id].rxq /\ b.pend = socktab[d.id].pend
          /\ b.pcb = room /\ b.state # "FREE"
      BY <3>5 DEF b
    <3>9. socktab' \in [SockSlot -> Sock] /\ socktab'[d.id] = b
      BY <2>2, <3>7, <3>8 DEF TypeOK
    <3>10. \A i \in SockSlot : i # d.id => socktab'[i] = socktab[i]
      BY <3>7 DEF TypeOK
    <3>11. CASE room
      <4>1. Bound(d.id, laddr, p)
        BY <3>2, <3>3, <3>4, <3>6, <3>8, <3>9, <3>11 DEF Bound
      <4> QED
        BY <1>1, <2>1, <3>4, <3>8, <3>9, <3>10, <4>1
    <3>12. CASE ~room
      <4>1. pcblist' = pcblist
        BY <3>3, <3>12
      <4>2. socktab'[d.id].pcb = socktab[d.id].pcb
        <5>1. socktab[d.id].pcb \in BOOLEAN
          BY <2>2 DEF Sock
        <5> QED
          BY <3>2, <3>6, <3>8, <3>9, <3>12, <5>1
      <4> QED
        BY <1>1, <2>1, <3>8, <3>9, <3>10, <4>1, <4>2
    <3> QED
      BY <3>11, <3>12
  <2> QED
    BY <2>3, <2>4
<1> QED
  BY <1>2, <1>3

(* RECV takes a datagram or parks.                                         *)
Takes(d) ==
    /\ Owned(d, cur') /\ socktab[d.id].rxq > 0
    /\ socktab' = [socktab EXCEPT ![d.id].rxq = @ - 1]
    /\ UNCHANGED waiting

ParksOn(t, d) ==
    /\ Owned(d, cur') /\ socktab[d.id].rxq = 0 /\ socktab[d.id].pend = NoTask
    /\ socktab' = [socktab EXCEPT ![d.id].pend = t]
    /\ waiting' = waiting \cup {t}

LEMMA RecvStep ==
    ASSUME TypeOK, NEW t \in Task, NEW d \in Desc, NEW nonblock \in BOOLEAN,
           Recv(t, d, nonblock)
    PROVE  /\ UNCHANGED <<phase, apptab, pcblist, selcb, seltmr, opens, dead>>
           /\ cur' = Caller(t) /\ socktab' \in [SockSlot -> Sock] /\ t \notin waiting
           /\ UNCHANGED <<socktab, waiting>> \/ Takes(d) \/ ParksOn(t, d)
<1>1. /\ UNCHANGED <<phase, apptab, pcblist, selcb, seltmr, opens, dead>>
      /\ cur' = Caller(t) /\ t \notin waiting
  BY DEF Recv, Dispatch, OnlySockets
<1>2. UNCHANGED <<socktab, waiting>> \/ Takes(d) \/ ParksOn(t, d)
  BY DEF Recv, Takes, ParksOn
<1>3. d.id \in SockSlot /\ socktab[d.id] \in Sock
  BY Pairs, Slots
<1>4. \A n \in 0 .. RxMax : n > 0 => n - 1 \in 0 .. RxMax
  BY SizesAssumption
<1>5. ASSUME Takes(d) PROVE socktab' \in [SockSlot -> Sock]
  <2>1. [socktab[d.id] EXCEPT !.rxq = @ - 1] \in Sock
    BY <1>3, <1>4, <1>5, Records, Updates DEF Takes
  <2> QED
    BY <1>5, <2>1 DEF Takes, TypeOK
<1>6. ASSUME ParksOn(t, d) PROVE socktab' \in [SockSlot -> Sock]
  <2>1. [socktab[d.id] EXCEPT !.pend = t] \in Sock
    BY <1>3, Updates
  <2> QED
    BY <1>6, <2>1 DEF ParksOn, TypeOK
<1>7. UNCHANGED socktab => socktab' \in [SockSlot -> Sock]
  BY DEF TypeOK
<1> QED
  BY <1>1, <1>2, <1>5, <1>6, <1>7

LEMMA InputStep ==
    ASSUME TypeOK, NEW dst, NEW dport, UdpInput(dst, dport)
    PROVE  \E p \in pcblist :
             LET i == p.sock IN
             /\ i \in SockSlot /\ socktab' \in [SockSlot -> Sock]
             /\ \/ /\ socktab[i].pend # NoTask
                   /\ socktab' = Delivered(i)
                   /\ waiting' = waiting \ {socktab[i].pend}
                   /\ UNCHANGED <<selcb, seltmr>>
                \/ /\ socktab[i].pend = NoTask
                   /\ socktab' = Queued(i)
                   /\ SelFinished(Awake(Queued(i)))
                   /\ waiting' = waiting \ SelReqs(Awake(Queued(i)))
<1>1. PICK p \in Demux(dst, dport) :
         LET s == socktab[p.sock] IN
         \/ /\ s.pend # NoTask
            /\ socktab' = Delivered(p.sock)
            /\ waiting' = waiting \ {s.pend}
            /\ UNCHANGED <<selcb, seltmr>>
         \/ /\ s.pend = NoTask /\ s.rxq < RxMax
            /\ socktab' = Queued(p.sock)
            /\ SelFinished(Awake(Queued(p.sock)))
            /\ waiting' = waiting \ SelReqs(Awake(Queued(p.sock)))
  BY DEF UdpInput
<1>2. p \in pcblist /\ p.sock \in SockSlot
  BY DEF Demux, BoundTo, TypeOK, Name
<1>3. socktab[p.sock] \in Sock
  BY <1>2, Slots
<1>4. \A n \in 0 .. RxMax : n < RxMax => n + 1 \in 0 .. RxMax
  BY SizesAssumption
<1>5. Delivered(p.sock) \in [SockSlot -> Sock]
  <2>1. [socktab[p.sock] EXCEPT !.pend = NoTask] \in Sock
    BY <1>3, Updates
  <2> QED
    BY <2>1 DEF Delivered, TypeOK
<1>6. socktab[p.sock].rxq < RxMax => Queued(p.sock) \in [SockSlot -> Sock]
  <2>1. ASSUME socktab[p.sock].rxq < RxMax
        PROVE  [socktab[p.sock] EXCEPT !.rxq = @ + 1] \in Sock
    BY <1>3, <1>4, <2>1, Records, Updates
  <2> QED
    BY <2>1 DEF Queued, TypeOK
<1> QED
  BY <1>1, <1>2, <1>5, <1>6

(* SELECT parks on a block that was free.                                  *)
Blocks(t, items, want, how, j, b) ==
    /\ ~selcb[j].busy /\ b.busy /\ b.req = t /\ b.items = items
    /\ b.want = want /\ b.who = cur' /\ (b.timed <=> how = "timed")
    /\ selcb' = [selcb EXCEPT ![j] = b]
    /\ seltmr' = IF how = "timed" THEN seltmr \cup {j} ELSE seltmr
    /\ waiting' = waiting \cup {t}

LEMMA SelectStep ==
    ASSUME TypeOK, NEW t \in Task, NEW items \in SUBSET Desc,
           NEW want \in SUBSET {"READ", "WRITE"}, NEW how, Select(t, items, want, how)
    PROVE  /\ UNCHANGED <<phase, apptab, socktab, pcblist, opens, dead>>
           /\ cur' = Caller(t) /\ t \notin waiting
           /\ \/ UNCHANGED <<selcb, seltmr, waiting>>
              \/ /\ Ready(items, want, cur', socktab) = {}
                 /\ \E j \in SelSlot, b \in Sel : Blocks(t, items, want, how, j, b)
<1>1. UNCHANGED <<phase, apptab, socktab, pcblist, opens, dead>> /\ cur' = Caller(t) /\ t \notin waiting
  BY DEF Select, Dispatch
<1>2. CASE ~UNCHANGED <<selcb, seltmr, waiting>>
  <2>1. Ready(items, want, cur', socktab) = {}
    BY <1>2 DEF Select
  <2> DEFINE b == [busy |-> TRUE, req |-> t, items |-> items, want |-> want,
                   who |-> cur', timed |-> how = "timed"]
  <2>2. \E j \in Lowest(FreeSelSlots) :
           /\ selcb' = [selcb EXCEPT ![j] = b]
           /\ seltmr' = IF how = "timed" THEN seltmr \cup {j} ELSE seltmr
           /\ waiting' = waiting \cup {t}
    BY <1>2 DEF Select
  <2>3. PICK j \in SelSlot :
           /\ ~selcb[j].busy
           /\ selcb' = [selcb EXCEPT ![j] = b]
           /\ seltmr' = IF how = "timed" THEN seltmr \cup {j} ELSE seltmr
           /\ waiting' = waiting \cup {t}
    BY <2>2 DEF Lowest, FreeSelSlots
  <2>4. cur' \in Space \cup {NoSpace}
    BY <1>1, CallerType
  <2>5. /\ b \in Sel /\ b.busy /\ b.req = t /\ b.items = items /\ b.want = want
        /\ b.who = cur' /\ (b.timed <=> how = "timed")
    BY <2>4 DEF Sel
  <2> HIDE DEF b
  <2> QED
    BY <1>1, <2>1, <2>3, <2>5 DEF Blocks
<1> QED
  BY <1>1, <1>2

(* A client may name what was given out, no more.                          *)
LEMMA RequestTypes ==
    /\ Issued \subseteq Desc /\ IssuedTokens \subseteq Token /\ \A S : \A n \in Names(S) : n \subseteq S
    /\ Wants \subseteq SUBSET {"READ", "WRITE"}
BY DEF Issued, IssuedTokens, Names, Wants

LEMMA NextType == TypeOK /\ [Next]_vars => TypeOK'
<1> SUFFICES ASSUME TypeOK, [Next]_vars PROVE TypeOK'
  OBVIOUS
<1>1. ASSUME NEW t \in Task, InitApi(t) PROVE TypeOK'
  BY <1>1, InitApiType
<1>2. ASSUME NEW t \in Task, NEW tok \in IssuedTokens, TermApi(t, tok) PROVE TypeOK'
  <2>1. phase' = phase /\ dead' = dead /\ opens' = opens /\ cur' \in Space \cup {NoSpace}
    BY <1>2, CallerType DEF TermApi, Dispatch
  <2>2. NothingDone => TypeOK'
    BY <2>1 DEF NothingDone, TypeOK
  <2> QED
    BY <1>2, <2>1, <2>2, EndAppsType DEF TermApi
<1>3. ASSUME NEW t \in Task, NEW tok \in IssuedTokens, Socket(t, tok) PROVE TypeOK'
  BY <1>3, SocketType
<1>4. ASSUME NEW t \in Task, NEW d \in Issued, Close(t, d) PROVE TypeOK'
  <2>1. /\ UNCHANGED <<phase, dead, opens, apptab>> /\ cur' \in Space \cup {NoSpace}
    BY <1>4, CallerType DEF Close, Dispatch
  <2>2. UNCHANGED <<socktab, pcblist, selcb, seltmr, waiting>> => TypeOK'
    BY <2>1 DEF TypeOK
  <2>3. Destroy({d.id}) => TypeOK'
    BY <2>1, DestroyType DEF TypeOK
  <2> QED
    BY <1>4, <2>2, <2>3 DEF Close
<1>5. ASSUME NEW t \in Task, NEW d \in Issued, NEW laddr \in Addr, NEW lport \in Port \cup {0},
             Bind(t, d, laddr, lport)
      PROVE  TypeOK'
  <2>1. d \in Desc
    BY RequestTypes
  <2>2. /\ UNCHANGED <<phase, apptab, selcb, seltmr, waiting, opens, dead>>
        /\ cur' \in Space \cup {NoSpace} /\ socktab' \in [SockSlot -> Sock]
    BY <1>5, <2>1, BindStep, CallerType
  <2>3. pcblist' \in SUBSET Name
    <3>1. \A i \in SockSlot, p \in Port \cup Ephem : Pcb(i, laddr, p) \in Name
      BY DEF Pcb, Name
    <3>2. pcblist' = pcblist \/ \E p \in Port \cup Ephem : Bound(d.id, laddr, p)
      BY <1>5, <2>1, BindStep
    <3> QED
      BY <2>1, <3>1, <3>2, Pairs DEF Bound, TypeOK
  <2> QED
    BY <2>2, <2>3 DEF TypeOK
<1>6. ASSUME NEW t \in Task, NEW d \in Issued, NEW nonblock \in BOOLEAN, Recv(t, d, nonblock)
      PROVE  TypeOK'
  <2>1. d \in Desc
    BY RequestTypes
  <2>2. /\ UNCHANGED <<phase, apptab, pcblist, selcb, seltmr, opens, dead>>
        /\ cur' \in Space \cup {NoSpace} /\ socktab' \in [SockSlot -> Sock]
    BY <1>6, <2>1, RecvStep, CallerType
  <2>3. waiting' = waiting \/ waiting' = waiting \cup {t}
    <3>1. UNCHANGED <<socktab, waiting>> \/ Takes(d) \/ ParksOn(t, d)
      BY <1>6, <2>1, RecvStep
    <3> QED
      BY <3>1 DEF Takes, ParksOn
  <2> QED
    BY <2>2, <2>3 DEF TypeOK
<1>7. ASSUME NEW t \in Task, NEW items \in Names(Issued), NEW want \in Wants,
             NEW how \in {"poll", "timed", "block"}, Select(t, items, want, how)
      PROVE  TypeOK'
  <2>1. items \in SUBSET Desc /\ want \in SUBSET {"READ", "WRITE"}
    BY RequestTypes
  <2>2. /\ UNCHANGED <<phase, apptab, socktab, pcblist, opens, dead>>
        /\ cur' \in Space \cup {NoSpace}
    BY <1>7, <2>1, SelectStep, CallerType
  <2>3. \/ UNCHANGED <<selcb, seltmr, waiting>>
        \/ \E j \in SelSlot, b \in Sel : /\ selcb' = [selcb EXCEPT ![j] = b]
                                         /\ seltmr' = seltmr \/ seltmr' = seltmr \cup {j}
                                         /\ waiting' = waiting \cup {t}
    <3>1. \/ UNCHANGED <<selcb, seltmr, waiting>>
          \/ \E j \in SelSlot, b \in Sel : Blocks(t, items, want, how, j, b)
      BY <1>7, <2>1, SelectStep
    <3> QED
      BY <3>1 DEF Blocks
  <2> QED
    BY <2>2, <2>3 DEF TypeOK
<1>8. ASSUME NEW dst \in HomeAddr, NEW dport \in Port \cup Ephem, UdpInput(dst, dport) PROVE TypeOK'
  <2>1. UNCHANGED <<phase, apptab, pcblist, cur, dead, opens>>
    BY <1>8 DEF UdpInput
  <2>2. socktab' \in [SockSlot -> Sock] /\ waiting' \in SUBSET waiting
    BY <1>8, InputStep
  <2>3. (UNCHANGED <<selcb, seltmr>>) \/ \E done : SelFinished(done)
    BY <1>8, InputStep
  <2>4. selcb' \in [SelSlot -> Sel] /\ seltmr' \in SUBSET SelSlot
    BY <2>3, FinishedType DEF TypeOK
  <2> QED
    BY <2>1, <2>2, <2>4 DEF TypeOK
<1>9. ASSUME NEW j \in SelSlot, SelTimeout(j) PROVE TypeOK'
  <2>1. selcb' \in [SelSlot -> Sel] /\ seltmr' \in SUBSET SelSlot
    BY <1>9, FinishedType DEF SelTimeout
  <2> QED
    BY <1>9, <2>1 DEF SelTimeout, TypeOK
<1>10. ASSUME Sweep PROVE TypeOK'
  BY <1>10, EndAppsType DEF Sweep, TypeOK
<1>11. ASSUME NEW a \in Space, Die(a) PROVE TypeOK'
  BY <1>11 DEF Die, TypeOK
<1>12. ASSUME UNCHANGED vars PROVE TypeOK'
  BY <1>12 DEF vars, TypeOK
<1> QED
  BY <1>1, <1>2, <1>3, <1>4, <1>5, <1>6, <1>7, <1>8, <1>9, <1>10, <1>11, <1>12 DEF Next, Request
-----------------------------------------------------------------------------
Rest == Tables /\ Waits /\ (NoWrap => Selects)

(* The two lemmas above, of the next state.                                *)
LEMMA SlotsNext ==
    ASSUME TypeOK'
    PROVE  /\ \A i \in SockSlot : /\ socktab'[i] \in Sock /\ SockDesc(i)' \in Desc
                                  /\ SockDesc(i)'.id = i /\ SockDesc(i)'.gen = socktab'[i].gen
           /\ \A k \in AppSlot : /\ apptab'[k] \in App /\ AppToken(k)' \in Token
                                 /\ AppToken(k)'.idx = k /\ AppToken(k)'.gen = apptab'[k].gen
           /\ \A j \in SelSlot : selcb'[j] \in Sel
<1>1. /\ \A i \in SockSlot : socktab'[i] \in Sock
      /\ \A k \in AppSlot : apptab'[k] \in App
      /\ \A j \in SelSlot : selcb'[j] \in Sel
  BY DEF TypeOK
<1> QED
  BY <1>1, Records, Pairs DEF SockDesc, AppToken

LEMMA KnownNext ==
    ASSUME TypeOK'
    PROVE  \A tok : AppKnown(tok)' <=> /\ tok \in Token /\ apptab'[tok.idx].inuse
                                       /\ tok = AppToken(tok.idx)'
BY SlotsNext, Pairs DEF AppKnown

(* A token whose slot is not touched is known as before.                   *)
LEMMA KnownStays ==
    ASSUME TypeOK, TypeOK', NEW tok \in Token, apptab'[tok.idx] = apptab[tok.idx]
    PROVE  AppKnown(tok)' <=> AppKnown(tok)
<1>1. AppToken(tok.idx)' = AppToken(tok.idx)
  BY DEF AppToken
<1> QED
  BY <1>1, Known, KnownNext

(* Parked SELECTs stay asleep when what they name does not come to life,   *)
(* to their client, or to a datagram.                                      *)
LEMMA SelectsStay ==
    ASSUME TypeOK, Selects,
           \A j \in SelSlot : selcb'[j].busy => selcb'[j] = selcb[j],
           \A j \in SelSlot : selcb'[j].busy => \A d \in selcb[j].items :
              Past(d) => /\ Past(d)'
                         /\ \A a : Owned(d, a)' => /\ Owned(d, a)
                                                   /\ socktab'[d.id].rxq > 0 => socktab[d.id].rxq > 0
    PROVE  Selects'
<1>1. WatchedOK'
  BY DEF Selects, WatchedOK
<1>2. ASSUME NEW j \in SelSlot, selcb'[j].busy
      PROVE  Ready(selcb[j].items, selcb[j].want, selcb[j].who, socktab)' = {}
  <2>1. selcb'[j] = selcb[j] /\ selcb[j].busy
    BY <1>2
  <2>2. Ready(selcb[j].items, selcb[j].want, selcb[j].who, socktab) = {}
    BY <2>1 DEF Selects, Quiet
  <2>3. \A d \in selcb[j].items : Past(d)
    BY <2>1 DEF Selects, WatchedOK
  <2>4. ASSUME NEW d \in selcb[j].items, Owned(d, selcb[j].who)',
               ("READ" \in selcb[j].want /\ socktab'[d.id].rxq > 0) \/ "WRITE" \in selcb[j].want
        PROVE  FALSE
    <3>1. Owned(d, selcb[j].who) /\ (socktab'[d.id].rxq > 0 => socktab[d.id].rxq > 0)
      <4>1. \A a : Owned(d, a)' => /\ Owned(d, a)
                                   /\ socktab'[d.id].rxq > 0 => socktab[d.id].rxq > 0
        BY <1>2, <2>3
      <4>2. \A a : a = selcb[j].who => Owned(d, a)'
        BY <2>1, <2>4 DEF Owned, Resolves, Live, AppKnown, AppToken
      <4> QED
        BY <4>1, <4>2
    <3> QED
      BY <2>2, <2>4, <3>1 DEF Ready
  <2> QED
    BY <2>1, <2>4 DEF Ready, Owned, Resolves, Live, AppKnown, AppToken
<1>3. Quiet'
  BY <1>2 DEF Quiet
<1> QED
  BY <1>1, <1>3 DEF Selects

(* What the teardown checklist leaves behind.                              *)
LEMMA DestroyStep ==
    ASSUME TypeOK, NEW gone \in SUBSET SockSlot, Destroy(gone)
    PROVE  /\ \A i \in gone : /\ socktab'[i].gen = NextGen(socktab[i].gen)
                              /\ socktab'[i].state = "FREE" /\ socktab'[i].pend = NoTask
                              /\ socktab'[i].rxq = 0 /\ ~socktab'[i].pcb /\ ~Live(i)'
           /\ \A i \in SockSlot \ gone : socktab'[i] = socktab[i] /\ (Live(i)' <=> Live(i))
           /\ \A j \in SelSlot : /\ j \in Watching(gone) => selcb'[j] = FreeSel /\ ~selcb'[j].busy
                                 /\ j \notin Watching(gone) => selcb'[j] = selcb[j]
           /\ \A j \in SelSlot : selcb'[j].busy => selcb'[j] = selcb[j] /\ j \notin Watching(gone)
<1>1. \A i \in SockSlot : /\ i \in gone => socktab'[i] = Vacant(NextGen(socktab[i].gen))
                          /\ i \notin gone => socktab'[i] = socktab[i]
  BY VacatedType DEF Destroy, TypeOK
<1>2. \A j \in SelSlot : /\ j \in Watching(gone) => selcb'[j] = FreeSel
                         /\ j \notin Watching(gone) => selcb'[j] = selcb[j]
  BY FinishedType DEF Destroy
<1>3. ~FreeSel.busy
  BY DEF FreeSel
<1>4. \A i \in SockSlot \ gone : socktab'[i] = socktab[i] /\ (Live(i)' <=> Live(i))
  BY <1>1 DEF Live
<1>5. \A i \in gone : /\ socktab'[i].gen = NextGen(socktab[i].gen)
                      /\ socktab'[i].state = "FREE" /\ socktab'[i].pend = NoTask
                      /\ socktab'[i].rxq = 0 /\ ~socktab'[i].pcb /\ ~Live(i)'
  <2>1. \A g : /\ Vacant(g).gen = g /\ Vacant(g).state = "FREE" /\ Vacant(g).pend = NoTask
               /\ Vacant(g).rxq = 0 /\ ~Vacant(g).pcb
    BY DEF Vacant
  <2> QED
    BY <1>1, <2>1 DEF Live
<1> QED
  BY <1>2, <1>3, <1>4, <1>5

LEMMA DestroyTables ==
    ASSUME TypeOK, TypeOK', Tables, NEW gone \in SUBSET SockSlot, \A i \in gone : Live(i),
           Destroy(gone), opens <= opens',
           \A k \in AppSlot : apptab'[k].gen <= IF apptab'[k].inuse THEN opens' ELSE opens' + 1,
           \A i \in SockSlot \ gone : Live(i) => apptab'[socktab[i].tok.idx] = apptab[socktab[i].tok.idx]
    PROVE  Tables'
<1>1. GenOK'
  <2>1. \A i \in SockSlot : socktab'[i].gen <= IF Live(i)' THEN opens' ELSE opens' + 1
    <3>1. ASSUME NEW i \in gone PROVE socktab'[i].gen <= opens' + 1
      <4>1. socktab[i].gen <= opens /\ socktab[i].gen \in 1 .. GenMax
        BY Slots, Records DEF Tables, GenOK
      <4>2. socktab'[i].gen <= socktab[i].gen + 1 /\ socktab'[i].gen \in 1 .. GenMax
        BY <4>1, DestroyStep, Records
      <4> QED
        BY <4>1, <4>2 DEF TypeOK
    <3>2. ASSUME NEW i \in SockSlot \ gone
          PROVE  socktab'[i].gen <= IF Live(i)' THEN opens' ELSE opens' + 1
      <4>1. socktab[i].gen <= IF Live(i) THEN opens ELSE opens + 1
        BY DEF Tables, GenOK
      <4>2. socktab'[i].gen = socktab[i].gen /\ (Live(i)' <=> Live(i)) /\ socktab[i].gen \in 1 .. GenMax
        BY DestroyStep, Slots, Records
      <4> QED
        BY <4>1, <4>2 DEF TypeOK
    <3> QED
      BY <3>1, <3>2, DestroyStep
  <2> QED
    BY <2>1 DEF GenOK
<1>2. RegistryOK'
  <2>1. ASSUME NEW i \in SockSlot, Live(i)' PROVE AppKnown(socktab[i].tok)'
    <3>1. i \notin gone /\ Live(i)
      BY <2>1, DestroyStep
    <3>2. AppKnown(socktab[i].tok) /\ socktab[i].tok \in Token
      BY <3>1, Known DEF Tables, RegistryOK
    <3>3. \A tok \in Token : tok = socktab[i].tok => AppKnown(tok)'
      BY <3>1, <3>2, KnownStays
    <3>4. socktab'[i].tok = socktab[i].tok
      BY <3>1, DestroyStep
    <3> QED
      BY <3>2, <3>3, <3>4 DEF AppKnown, AppToken
  <2> QED
    BY <2>1 DEF RegistryOK
<1>3. VacantOK'
  BY DestroyStep DEF Tables, VacantOK
<1>4. DemuxExact'
  <2>1. \A p \in pcblist : p.sock \in SockSlot /\ Live(p.sock) /\ socktab[p.sock].pcb
    BY DEF Tables, DemuxExact, TypeOK, Name
  <2>2. pcblist' = {p \in pcblist : p.sock \notin gone}
    BY <2>1 DEF Destroy, Detached
  <2>3. \A p \in pcblist' : Live(p.sock)' /\ socktab'[p.sock].pcb
    BY <2>1, <2>2, DestroyStep
  <2>4. \A i \in SockSlot : socktab'[i].pcb => \E p \in pcblist' : p.sock = i
    BY <2>2, DestroyStep DEF Tables, DemuxExact
  <2>5. \A p, q \in pcblist' :
           p.sock = q.sock \/ (p.laddr = q.laddr /\ p.lport = q.lport) => p = q
    BY <2>2 DEF Tables, DemuxExact
  <2> QED
    BY <2>3, <2>4, <2>5 DEF DemuxExact
<1> QED
  BY <1>1, <1>2, <1>3, <1>4 DEF Tables

LEMMA DestroyWaits ==
    ASSUME TypeOK, Waits, NEW gone \in SUBSET SockSlot, Destroy(gone)
    PROVE  Waits'
<1>1. waiting' = waiting \ (Parked(gone) \cup SelReqs(Watching(gone)))
  BY DEF Destroy
<1>2. Watching(gone) \subseteq SelSlot /\ \A j \in Watching(gone) : selcb[j].busy
  BY DEF Watching
<1>3. HeldInWait'
  <2>1. ASSUME NEW i \in SockSlot, socktab'[i].pend # NoTask PROVE socktab'[i].pend \in waiting'
    <3>1. i \notin gone /\ socktab'[i].pend = socktab[i].pend /\ socktab[i].pend # NoTask
      BY <2>1, DestroyStep
    <3>2. socktab[i].pend \notin Parked(gone)
      BY <3>1 DEF Parked, Waits, HeldApart
    <3>3. socktab[i].pend \notin SelReqs(Watching(gone))
      BY <1>2 DEF SelReqs, Waits, HeldApart
    <3> QED
      BY <1>1, <3>1, <3>2, <3>3 DEF Waits, HeldInWait
  <2>2. ASSUME NEW j \in SelSlot, selcb'[j].busy PROVE selcb'[j].req \in waiting'
    <3>1. j \notin Watching(gone) /\ selcb'[j] = selcb[j] /\ selcb[j].busy
      BY <2>2, DestroyStep
    <3>2. selcb[j].req \notin Parked(gone)
      BY <3>1 DEF Parked, Waits, HeldApart
    <3>3. selcb[j].req \notin SelReqs(Watching(gone))
      BY <1>2, <3>1 DEF SelReqs, Waits, HeldApart
    <3> QED
      BY <1>1, <3>1, <3>2, <3>3 DEF Waits, HeldInWait
  <2> QED
    BY <2>1, <2>2 DEF HeldInWait
<1>4. HeldApart'
  <2>1. \A i \in SockSlot : socktab'[i].pend \in {socktab[i].pend, NoTask}
    BY DestroyStep
  <2>2. \A j \in SelSlot : selcb'[j].busy => selcb[j].busy /\ selcb'[j].req = selcb[j].req
    BY DestroyStep
  <2>3. \A i \in SockSlot, j \in SelSlot : selcb'[j].busy => socktab'[i].pend # selcb'[j].req
    <3>1. ASSUME NEW j \in SelSlot, selcb'[j].busy PROVE selcb[j].req # NoTask
      BY <2>2, <3>1, NamesAssumption DEF Waits, HeldInWait, TypeOK
    <3> QED
      BY <2>1, <2>2, <3>1 DEF Waits, HeldApart
  <2> QED
    BY <2>1, <2>2, <2>3 DEF Waits, HeldApart
<1>5. InWaitHeld'
  <2>1. ASSUME NEW t \in waiting'
        PROVE  \/ \E i \in SockSlot : socktab'[i].pend = t
               \/ \E j \in SelSlot : selcb'[j].busy /\ selcb'[j].req = t
    <3>1. t \in waiting /\ t \notin Parked(gone) /\ t \notin SelReqs(Watching(gone)) /\ t # NoTask
      BY <1>1, NamesAssumption DEF TypeOK
    <3>2. CASE \E i \in SockSlot : socktab[i].pend = t
      <4>1. PICK i \in SockSlot : socktab[i].pend = t
        BY <3>2
      <4>2. i \notin gone
        BY <3>1, <4>1 DEF Parked
      <4> QED
        BY <4>1, <4>2, DestroyStep
    <3>3. CASE \E j \in SelSlot : selcb[j].busy /\ selcb[j].req = t
      <4>1. PICK j \in SelSlot : selcb[j].busy /\ selcb[j].req = t
        BY <3>3
      <4>2. j \notin Watching(gone)
        BY <3>1, <4>1 DEF SelReqs
      <4> QED
        BY <4>1, <4>2, DestroyStep
    <3> QED
      BY <3>1, <3>2, <3>3 DEF Waits, InWaitHeld
  <2> QED
    BY <2>1 DEF InWaitHeld
<1>6. Drained'
  BY DestroyStep DEF Waits, Drained
<1>7. TimersOK'
  <2>1. seltmr' = seltmr \ Watching(gone)
    BY DEF Destroy, SelFinished
  <2> QED
    BY <2>1, DestroyStep DEF Waits, TimersOK
<1> QED
  BY <1>3, <1>4, <1>5, <1>6, <1>7 DEF Waits

(* No SELECT that stays parked names a socket that goes.                   *)
LEMMA DestroySelects ==
    ASSUME TypeOK, TypeOK', Tables, NoWrap, Selects,
           NEW gone \in SUBSET SockSlot, \A i \in gone : Live(i), Destroy(gone),
           \A i \in SockSlot \ gone : Live(i) => apptab'[socktab[i].tok.idx] = apptab[socktab[i].tok.idx]
    PROVE  Selects'
<1>1. ASSUME NEW j \in SelSlot, selcb'[j].busy, NEW d \in selcb[j].items, Past(d)
      PROVE  /\ Past(d)'
             /\ \A a : Owned(d, a)' => /\ Owned(d, a)
                                       /\ socktab'[d.id].rxq > 0 => socktab[d.id].rxq > 0
  <2>1. /\ selcb'[j] = selcb[j] /\ selcb[j].busy /\ j \notin Watching(gone)
        /\ d \in Desc /\ d.id \in SockSlot /\ d.gen \in 1 .. GenMax
    BY <1>1, DestroyStep, Slots, Records, Pairs
  <2>2. CASE d.id \in gone
    <3>1. d # SockDesc(d.id)
      BY <2>1, <2>2 DEF Watching
    <3>2. d.gen # socktab[d.id].gen
      BY <2>1, <3>1, Slots, Pairs
    <3>3. d.gen < socktab[d.id].gen
      BY <1>1, <3>2 DEF Past, Resolves
    <3>4. socktab[d.id].gen < GenMax /\ socktab[d.id].gen \in 1 .. GenMax
      <4>1. socktab[d.id].gen <= opens /\ socktab[d.id].gen \in 1 .. GenMax
        BY <2>2, Slots, Records DEF Tables, GenOK
      <4> QED
        BY <4>1, SizesAssumption DEF NoWrap, TypeOK
    <3>5. socktab[d.id].gen < socktab'[d.id].gen /\ socktab'[d.id].gen \in 1 .. GenMax
      BY <2>2, <3>4, DestroyStep, Records
    <3>6. d.gen < socktab'[d.id].gen
      BY <2>1, <3>3, <3>4, <3>5
    <3>7. ~Live(d.id)'
      BY <2>2, DestroyStep
    <3> QED
      BY <3>6, <3>7 DEF Past, Owned, Resolves
  <2>3. CASE d.id \notin gone
    <3>1. socktab'[d.id] = socktab[d.id] /\ (Live(d.id)' <=> Live(d.id))
      BY <2>1, <2>3, DestroyStep
    <3>2. Past(d)'
      BY <1>1, <3>1 DEF Past, Resolves
    <3>3. ASSUME NEW a, Owned(d, a)' PROVE Owned(d, a)
      <4>1. Resolves(d)
        BY <3>1, <3>3 DEF Owned, Resolves
      <4>2. AppKnown(socktab[d.id].tok)
        BY <2>1, <4>1 DEF Tables, RegistryOK, Resolves
      <4>3. apptab'[socktab[d.id].tok.idx] = apptab[socktab[d.id].tok.idx]
        BY <2>1, <2>3, <4>1 DEF Resolves
      <4>4. a = NoSpace \/ apptab'[socktab'[d.id].tok.idx].who = a
        BY <3>3 DEF Owned
      <4> QED
        BY <3>1, <4>1, <4>2, <4>3, <4>4 DEF Owned
    <3> QED
      BY <3>1, <3>2, <3>3
  <2> QED
    BY <2>2, <2>3
<1> QED
  BY <1>1, DestroyStep, SelectsStay

(* The sockets of the applications that end are all of theirs.             *)
LEMMA AppsGone ==
    ASSUME TypeOK, Tables, NEW G \in SUBSET AppSlot,
           \A k \in AppSlot : k \notin G /\ apptab[k].inuse => apptab'[k] = apptab[k]
    PROVE  LET gone == SocketsOf({AppToken(k) : k \in G})
           IN  /\ gone \in SUBSET SockSlot /\ \A i \in gone : Live(i)
               /\ \A i \in SockSlot \ gone :
                     Live(i) => apptab'[socktab[i].tok.idx] = apptab[socktab[i].tok.idx]
<1> DEFINE gone == SocketsOf({AppToken(k) : k \in G})
<1>1. gone \in SUBSET SockSlot /\ \A i \in gone : Live(i)
  BY DEF SocketsOf
<1>2. ASSUME NEW i \in SockSlot \ gone, Live(i)
      PROVE  apptab'[socktab[i].tok.idx] = apptab[socktab[i].tok.idx]
  <2> DEFINE tok == socktab[i].tok
  <2>1. tok \in Token /\ apptab[tok.idx].inuse /\ tok = AppToken(tok.idx)
    BY <1>2, Known DEF Tables, RegistryOK
  <2>2. tok.idx \in AppSlot
    BY <2>1, Pairs
  <2>3. tok \notin {AppToken(k) : k \in G}
    BY <1>2 DEF SocketsOf
  <2> HIDE DEF tok
  <2>4. tok.idx \notin G
    BY <2>1, <2>3
  <2> QED
    BY <2>1, <2>2, <2>4 DEF tok
<1> QED
  BY <1>1, <1>2

LEMMA TeardownRest ==
    ASSUME TypeOK, TypeOK', Rest, NEW gone \in SUBSET SockSlot, \A i \in gone : Live(i),
           Destroy(gone), opens <= opens',
           \A k \in AppSlot : apptab'[k].gen <= IF apptab'[k].inuse THEN opens' ELSE opens' + 1,
           \A i \in SockSlot \ gone : Live(i) => apptab'[socktab[i].tok.idx] = apptab[socktab[i].tok.idx]
    PROVE  Rest'
<1>1. Tables' /\ Waits'
  BY DestroyTables, DestroyWaits DEF Rest
<1>2. NoWrap' => NoWrap
  BY SizesAssumption DEF NoWrap, TypeOK
<1>3. NoWrap' => Selects'
  BY <1>2, DestroySelects DEF Rest
<1> QED
  BY <1>1, <1>3 DEF Rest

(* Freeing applications and, perhaps, registering one in a free slot.      *)
Registers(G, t) ==
    \/ apptab' = AppsFreed(G) /\ opens' = opens
    \/ /\ opens' = opens + 1
       /\ \E k \in AppSlot :
             /\ ~AppsFreed(G)[k].inuse
             /\ apptab' = [AppsFreed(G) EXCEPT ![k] = [@ EXCEPT !.inuse = TRUE, !.who = Caller(t)]]

LEMMA RegistersStep ==
    ASSUME TypeOK, NEW G \in SUBSET AppSlot, NEW t, Registers(G, t)
    PROVE  \/ /\ opens' = opens
              /\ \A k \in G : apptab'[k] = FreeApp(NextGen(apptab[k].gen))
              /\ \A k \in AppSlot \ G : apptab'[k] = apptab[k]
           \/ /\ opens' = opens + 1
              /\ \E k \in AppSlot :
                    /\ k \in G \/ ~apptab[k].inuse
                    /\ apptab'[k].inuse
                    /\ apptab'[k].gen = IF k \in G THEN NextGen(apptab[k].gen) ELSE apptab[k].gen
                    /\ \A j \in G \ {k} : apptab'[j] = FreeApp(NextGen(apptab[j].gen))
                    /\ \A j \in AppSlot \ (G \cup {k}) : apptab'[j] = apptab[j]
<1>1. /\ AppsFreed(G) \in [AppSlot -> App]
      /\ \A k \in G : AppsFreed(G)[k] = FreeApp(NextGen(apptab[k].gen))
      /\ \A k \in AppSlot \ G : AppsFreed(G)[k] = apptab[k]
  BY FreedType DEF TypeOK
<1>2. CASE apptab' = AppsFreed(G) /\ opens' = opens
  BY <1>1, <1>2
<1>3. ASSUME opens' = opens + 1, NEW k \in AppSlot, ~AppsFreed(G)[k].inuse,
             apptab' = [AppsFreed(G) EXCEPT ![k] = [@ EXCEPT !.inuse = TRUE, !.who = Caller(t)]]
      PROVE  /\ k \in G \/ ~apptab[k].inuse
             /\ apptab'[k].inuse
             /\ apptab'[k].gen = IF k \in G THEN NextGen(apptab[k].gen) ELSE apptab[k].gen
             /\ \A j \in G \ {k} : apptab'[j] = FreeApp(NextGen(apptab[j].gen))
             /\ \A j \in AppSlot \ (G \cup {k}) : apptab'[j] = apptab[j]
  <2>1. apptab'[k] = [AppsFreed(G)[k] EXCEPT !.inuse = TRUE, !.who = Caller(t)]
    BY <1>1, <1>3
  <2>2. \A j \in AppSlot \ {k} : apptab'[j] = AppsFreed(G)[j]
    BY <1>1, <1>3
  <2>3. \A r \in App : /\ [r EXCEPT !.inuse = TRUE, !.who = Caller(t)].inuse
                       /\ [r EXCEPT !.inuse = TRUE, !.who = Caller(t)].gen = r.gen
    BY DEF App
  <2>4. apptab'[k].inuse /\ apptab'[k].gen = AppsFreed(G)[k].gen
    BY <1>1, <2>1, <2>3
  <2>5. \A g : FreeApp(g).gen = g
    BY DEF FreeApp
  <2> QED
    BY <1>1, <1>3, <2>2, <2>4, <2>5
<1> QED
  BY <1>2, <1>3 DEF Registers

LEMMA EndRest ==
    ASSUME TypeOK, TypeOK', Rest, NEW G \in SUBSET AppSlot, \A k \in G : apptab[k].inuse,
           NEW t, Registers(G, t), Destroy(SocketsOf({AppToken(k) : k \in G}))
    PROVE  Rest'
<1>1. opens <= opens' /\ opens \in Nat /\ opens' \in Nat
  <2>1. opens' = opens \/ opens' = opens + 1
    BY RegistersStep
  <2> QED
    BY <2>1 DEF TypeOK
<1>2. \A k \in AppSlot : k \notin G /\ apptab[k].inuse => apptab'[k] = apptab[k]
  BY RegistersStep
<1>3. \A k \in AppSlot : /\ apptab[k].gen <= IF apptab[k].inuse THEN opens ELSE opens + 1
                         /\ apptab[k].gen \in 1 .. GenMax
                         /\ NextGen(apptab[k].gen) <= apptab[k].gen + 1
                         /\ NextGen(apptab[k].gen) \in 1 .. GenMax
  BY Slots, Records DEF Rest, Tables, GenOK
<1>4. \A k \in G : NextGen(apptab[k].gen) <= opens + 1
  BY <1>1, <1>3
<1>5. \A g : FreeApp(g).gen = g /\ ~FreeApp(g).inuse
  BY DEF FreeApp
<1>6. \A k \in AppSlot : apptab'[k].gen <= IF apptab'[k].inuse THEN opens' ELSE opens' + 1
  <2>1. CASE /\ opens' = opens
             /\ \A k \in G : apptab'[k] = FreeApp(NextGen(apptab[k].gen))
             /\ \A k \in AppSlot \ G : apptab'[k] = apptab[k]
    BY <1>1, <1>3, <1>4, <1>5, <2>1
  <2>2. ASSUME opens' = opens + 1, NEW k \in AppSlot, apptab'[k].inuse, k \in G \/ ~apptab[k].inuse,
               apptab'[k].gen = IF k \in G THEN NextGen(apptab[k].gen) ELSE apptab[k].gen,
               \A j \in G \ {k} : apptab'[j] = FreeApp(NextGen(apptab[j].gen)),
               \A j \in AppSlot \ (G \cup {k}) : apptab'[j] = apptab[j],
               NEW j \in AppSlot
        PROVE  apptab'[j].gen <= IF apptab'[j].inuse THEN opens' ELSE opens' + 1
    <3>1. CASE j = k
      BY <1>1, <1>3, <1>4, <2>2, <3>1
    <3>2. CASE j # k /\ j \in G
      <4>1. apptab'[j].gen = NextGen(apptab[j].gen) /\ ~apptab'[j].inuse
        BY <1>5, <2>2, <3>2
      <4> QED
        BY <1>1, <1>3, <1>4, <2>2, <3>2, <4>1
    <3>3. CASE j # k /\ j \notin G
      <4>1. apptab'[j] = apptab[j]
        BY <2>2, <3>3
      <4> QED
        BY <1>1, <1>3, <2>2, <4>1
    <3> QED
      BY <3>1, <3>2, <3>3
  <2> QED
    BY <2>1, <2>2, RegistersStep
<1> DEFINE gone == SocketsOf({AppToken(k) : k \in G})
<1>7. /\ gone \in SUBSET SockSlot /\ \A i \in gone : Live(i)
      /\ \A i \in SockSlot \ gone :
            Live(i) => apptab'[socktab[i].tok.idx] = apptab[socktab[i].tok.idx]
  BY <1>2, AppsGone DEF Rest
<1> HIDE DEF gone
<1>8. Destroy(gone)
  BY DEF gone
<1> QED
  BY <1>1, <1>6, <1>7, <1>8, TeardownRest

LEMMA InitApiStep ==
    ASSUME TypeOK, NEW t \in Task, InitApi(t)
    PROVE  \E G \in SUBSET AppSlot :
              /\ \A k \in G : apptab[k].inuse /\ apptab[k].who \in dead
              /\ Registers(G, t) /\ Destroy(SocketsOf({AppToken(k) : k \in G}))
<1>1. PICK v \in Verdicts :
         LET tab == AppsFreed(Swept(v)) IN
         /\ Destroy(SocketsOf({AppToken(k) : k \in Swept(v)}))
         /\ IF FreeAppSlots(tab) = {}
            THEN apptab' = tab /\ opens' = opens
            ELSE /\ \E k \in Lowest(FreeAppSlots(tab)) :
                      apptab' = [tab EXCEPT ![k] = [@ EXCEPT !.inuse = TRUE, !.who = Caller(t)]]
                 /\ opens' = opens + 1
  BY DEF InitApi
<1>2. Registers(Swept(v), t)
  BY <1>1 DEF Registers, Lowest, FreeAppSlots
<1>3. \A k \in Reclaimable(v) : k \in AppSlot /\ apptab[k].inuse /\ apptab[k].who \in dead
  BY DEF Reclaimable, Verdicts, Answers, Verdict
<1>4. Swept(v) \in SUBSET AppSlot /\ \A k \in Swept(v) : apptab[k].inuse /\ apptab[k].who \in dead
  BY <1>3 DEF Swept
<1> QED
  BY <1>1, <1>2, <1>4

(* TERMAPI ends at most the caller's own application, the sweep only dead  *)
(* ones, and CLOSE at most the caller's own socket.                        *)
LEMMA EndAppsStep ==
    ASSUME TypeOK, NEW G, EndApps(G), opens' = opens, NEW t
    PROVE  Registers(G, t) /\ Destroy(SocketsOf({AppToken(k) : k \in G}))
BY DEF EndApps, Registers

LEMMA TermApiStep ==
    ASSUME TypeOK, NEW t \in Task, NEW tok \in Token, TermApi(t, tok)
    PROVE  \/ NothingDone
           \/ \E k \in AppSlot : /\ apptab[k].inuse /\ Caller(t) \in {NoSpace, apptab[k].who}
                                 /\ EndApps({k}) /\ opens' = opens
<1> DEFINE token == Authenticate(tok, Caller(t))
<1>1. CASE AppKnown(token)
  <2>1. token \in Token /\ apptab[token.idx].inuse /\ token.idx \in AppSlot
    BY <1>1, Known, Pairs
  <2>2. Caller(t) \in {NoSpace, apptab[token.idx].who}
    BY <2>1, Pairs DEF Authenticate
  <2>3. EndApps({token.idx}) /\ opens' = opens
    BY <1>1 DEF TermApi
  <2> QED
    BY <2>1, <2>2, <2>3
<1>2. CASE ~AppKnown(token)
  BY <1>2 DEF TermApi
<1> QED
  BY <1>1, <1>2

LEMMA SweepStep ==
    ASSUME TypeOK, Sweep
    PROVE  \E G \in SUBSET AppSlot :
              /\ \A k \in G : apptab[k].inuse /\ apptab[k].who \in dead
              /\ EndApps(G) /\ opens' = opens
<1>1. PICK v \in Verdicts : EndApps(Reclaimable(v))
  BY DEF Sweep
<1>2. \A k \in Reclaimable(v) : k \in AppSlot /\ apptab[k].inuse /\ apptab[k].who \in dead
  BY DEF Reclaimable, Verdicts, Answers, Verdict
<1> QED
  BY <1>1, <1>2 DEF Sweep

LEMMA SocketStep ==
    ASSUME TypeOK, NEW t \in Task, NEW tok, Socket(t, tok)
    PROVE  \/ NothingDone
           \/ /\ UNCHANGED <<apptab, pcblist, selcb, seltmr, waiting>> /\ opens' = opens + 1
              /\ \E i \in SockSlot, token \in Token :
                    /\ ~Live(i) /\ Live(i)' /\ AppKnown(token)
                    /\ socktab'[i].tok = token /\ socktab'[i].gen = socktab[i].gen
                    /\ socktab'[i].pend = socktab[i].pend /\ socktab'[i].rxq = socktab[i].rxq
                    /\ socktab'[i].pcb = socktab[i].pcb
                    /\ \A h \in SockSlot \ {i} : socktab'[h] = socktab[h]
<1>1. CASE ~NothingDone
  <2> DEFINE token == Authenticate(tok, Caller(t))
  <2>1. AppKnown(token) /\ token \in Token
    BY <1>1, Known DEF Socket
  <2>2. /\ UNCHANGED <<apptab, pcblist, selcb, seltmr, waiting>> /\ opens' = opens + 1
        /\ \E i \in FreeSockSlots :
              socktab' = [socktab EXCEPT ![i] = [@ EXCEPT !.state = "OPEN", !.tok = token]]
    BY <1>1 DEF Socket, Lowest
  <2> HIDE DEF token
  <2>3. PICK i \in SockSlot :
          /\ ~Live(i)
          /\ socktab' = [socktab EXCEPT ![i] = [@ EXCEPT !.state = "OPEN", !.tok = token]]
    BY <2>2 DEF FreeSockSlots
  <2>4. socktab'[i] = [socktab[i] EXCEPT !.state = "OPEN", !.tok = token]
    BY <2>3 DEF TypeOK
  <2>5. \A h \in SockSlot \ {i} : socktab'[h] = socktab[h]
    BY <2>3 DEF TypeOK
  <2>6. \A s \in Sock : LET n == [s EXCEPT !.state = "OPEN", !.tok = token]
                        IN  /\ n.state # "FREE" /\ n.tok = token /\ n.gen = s.gen
                            /\ n.pend = s.pend /\ n.rxq = s.rxq /\ n.pcb = s.pcb
    BY DEF Sock
  <2>7. /\ socktab'[i].state # "FREE" /\ socktab'[i].tok = token /\ socktab'[i].gen = socktab[i].gen
        /\ socktab'[i].pend = socktab[i].pend /\ socktab'[i].rxq = socktab[i].rxq
        /\ socktab'[i].pcb = socktab[i].pcb
    BY <2>4, <2>6, Slots
  <2> QED
    BY <2>1, <2>2, <2>3, <2>5, <2>7 DEF Live
<1> QED
  BY <1>1
-----------------------------------------------------------------------------
LEMMA SocketRest ==
    ASSUME TypeOK, TypeOK', Rest, NEW t \in Task, NEW tok, Socket(t, tok), ~NothingDone
    PROVE  Rest'
<1>1. UNCHANGED <<apptab, pcblist, selcb, seltmr, waiting>> /\ opens' = opens + 1
  BY SocketStep
<1>2. PICK i \in SockSlot, token \in Token :
         /\ ~Live(i) /\ Live(i)' /\ AppKnown(token)
         /\ socktab'[i].tok = token /\ socktab'[i].gen = socktab[i].gen
         /\ socktab'[i].pend = socktab[i].pend /\ socktab'[i].rxq = socktab[i].rxq
         /\ socktab'[i].pcb = socktab[i].pcb
         /\ \A h \in SockSlot \ {i} : socktab'[h] = socktab[h]
  BY SocketStep
<1>3. \A h \in SockSlot : /\ socktab'[h].gen = socktab[h].gen /\ socktab'[h].pend = socktab[h].pend
                          /\ socktab'[h].rxq = socktab[h].rxq /\ socktab'[h].pcb = socktab[h].pcb
                          /\ h # i => socktab'[h].tok = socktab[h].tok /\ (Live(h)' <=> Live(h))
  BY <1>2 DEF Live
<1>4. \A tok_ \in Token : AppKnown(tok_)' <=> AppKnown(tok_)
  BY <1>1 DEF AppKnown, AppToken
<1>5. GenOK'
  <2>1. \A h \in SockSlot : /\ socktab[h].gen <= IF Live(h) THEN opens ELSE opens + 1
                            /\ socktab[h].gen \in 1 .. GenMax
    BY Slots, Records DEF Rest, Tables, GenOK
  <2>2. \A k \in AppSlot : /\ apptab[k].gen <= IF apptab[k].inuse THEN opens ELSE opens + 1
                           /\ apptab[k].gen \in 1 .. GenMax
    BY Slots, Records DEF Rest, Tables, GenOK
  <2>3. \A h \in SockSlot : socktab'[h].gen <= opens + 1
    BY <1>3, <2>1 DEF TypeOK
  <2>4. \A k \in AppSlot : apptab'[k].gen <= opens + 1
    BY <1>1, <2>2 DEF TypeOK
  <2>5. opens' \in Nat /\ opens \in Nat /\ \A h \in SockSlot : socktab'[h].gen \in 1 .. GenMax
    BY <1>3, <2>1 DEF TypeOK
  <2>6. \A k \in AppSlot : apptab'[k].gen \in 1 .. GenMax
    BY <1>1, <2>2
  <2>7. \A h \in SockSlot : socktab'[h].gen <= IF Live(h)' THEN opens' ELSE opens' + 1
    BY <1>1, <2>3, <2>5
  <2>8. \A k \in AppSlot : apptab'[k].gen <= IF apptab'[k].inuse THEN opens' ELSE opens' + 1
    BY <1>1, <2>4, <2>5, <2>6
  <2> QED
    BY <2>7, <2>8 DEF GenOK
<1>6. RegistryOK'
  <2>1. \A h \in SockSlot : Live(h)' => AppKnown(socktab'[h].tok)
    BY <1>2, <1>3 DEF Rest, Tables, RegistryOK
  <2>2. \A h \in SockSlot : Live(h)' => socktab'[h].tok \in Token
    BY <2>1, Known
  <2>3. \A h \in SockSlot : Live(h)' => AppKnown(socktab[h].tok)'
    BY <1>4, <2>1, <2>2 DEF AppKnown, AppToken
  <2> QED
    BY <2>3 DEF RegistryOK
<1>7. VacantOK'
  BY <1>2, <1>3 DEF Rest, Tables, VacantOK
<1>8. DemuxExact'
  <2>1. \A p \in pcblist : p.sock \in SockSlot
    BY DEF TypeOK, Name
  <2>2. \A p \in pcblist' : Live(p.sock)' /\ socktab'[p.sock].pcb
    BY <1>1, <1>2, <1>3, <2>1 DEF Rest, Tables, DemuxExact
  <2> QED
    BY <1>1, <1>3, <2>2 DEF Rest, Tables, DemuxExact
<1>9. Waits'
  <2>1. HeldInWait' /\ HeldApart'
    BY <1>1, <1>3 DEF Rest, Waits, HeldInWait, HeldApart
  <2>2. InWaitHeld'
    BY <1>1, <1>3 DEF Rest, Waits, InWaitHeld
  <2>3. Drained' /\ TimersOK'
    BY <1>1, <1>3 DEF Rest, Waits, Drained, TimersOK
  <2> QED
    BY <2>1, <2>2, <2>3 DEF Waits
<1>10. ASSUME NoWrap' PROVE Selects'
  <2>1. NoWrap
    BY <1>1, <1>10, SizesAssumption DEF NoWrap, TypeOK
  <2>2. ASSUME NEW j \in SelSlot, selcb'[j].busy, NEW d \in selcb[j].items, Past(d)
        PROVE  /\ Past(d)'
               /\ \A a : Owned(d, a)' => /\ Owned(d, a)
                                         /\ socktab'[d.id].rxq > 0 => socktab[d.id].rxq > 0
    <3>1. d.id \in SockSlot /\ d.gen \in 1 .. GenMax
      BY Slots, Records, Pairs
    <3>2. CASE d.id = i
      <4>1. d.gen < socktab'[i].gen
        BY <1>2, <2>2, <3>2 DEF Past, Resolves
      <4>2. socktab'[i].gen \in 1 .. GenMax
        BY SlotsNext, Records
      <4>3. d.gen # socktab'[i].gen
        BY <3>1, <4>1, <4>2
      <4> QED
        BY <3>2, <4>1, <4>3 DEF Past, Owned, Resolves
    <3>3. CASE d.id # i
      <4>1. socktab'[d.id] = socktab[d.id] /\ (Live(d.id)' <=> Live(d.id))
        BY <1>2, <1>3, <3>1, <3>3
      <4>2. Past(d)'
        BY <2>2, <4>1 DEF Past, Resolves
      <4>3. ASSUME NEW a, Owned(d, a)' PROVE Owned(d, a)
        BY <1>1, <4>1, <4>3 DEF Owned, Resolves, AppKnown, AppToken
      <4> QED
        BY <4>1, <4>2, <4>3
    <3> QED
      BY <3>2, <3>3
  <2> QED
    BY <1>1, <2>1, <2>2, SelectsStay DEF Rest
<1> QED
  BY <1>5, <1>6, <1>7, <1>8, <1>9, <1>10 DEF Rest, Tables

(* What does not open, close or hand on a socket.                          *)
SameSockets ==
    /\ UNCHANGED <<apptab, opens>>
    /\ \A i \in SockSlot : /\ socktab'[i].gen = socktab[i].gen /\ socktab'[i].tok = socktab[i].tok
                           /\ Live(i)' <=> Live(i)

LEMMA SameNames ==
    ASSUME TypeOK, SameSockets
    PROVE  /\ \A tok : AppKnown(tok)' <=> AppKnown(tok)
           /\ \A a : \A d \in Desc : (Past(d)' <=> Past(d)) /\ (Owned(d, a)' <=> Owned(d, a))
           /\ Tables => GenOK' /\ RegistryOK'
           /\ NoWrap' <=> NoWrap
<1>1. \A tok : AppKnown(tok)' <=> AppKnown(tok)
  BY DEF SameSockets, AppKnown, AppToken
<1>2. \A a : \A d \in Desc : (Past(d)' <=> Past(d)) /\ (Owned(d, a)' <=> Owned(d, a))
  <2>1. ASSUME NEW d \in Desc, NEW a
        PROVE  (Past(d)' <=> Past(d)) /\ (Owned(d, a)' <=> Owned(d, a))
    <3>1. /\ d.id \in SockSlot /\ socktab'[d.id].gen = socktab[d.id].gen
          /\ socktab'[d.id].tok = socktab[d.id].tok /\ (Live(d.id)' <=> Live(d.id))
          /\ apptab' = apptab
      BY Pairs DEF SameSockets
    <3> QED
      BY <1>1, <3>1 DEF Past, Owned, Resolves, AppKnown, AppToken
  <2> QED
    BY <2>1
<1>3. Tables => GenOK'
  BY DEF SameSockets, Tables, GenOK
<1>4. Tables => RegistryOK'
  BY <1>1 DEF SameSockets, Tables, RegistryOK, AppKnown, AppToken
<1>5. NoWrap' <=> NoWrap
  BY DEF SameSockets, NoWrap
<1> QED
  BY <1>1, <1>2, <1>3, <1>4, <1>5

LEMMA BindRest ==
    ASSUME TypeOK, TypeOK', Rest, NEW t \in Task, NEW d \in Desc, NEW laddr \in Addr,
           NEW lport \in Port \cup {0}, Bind(t, d, laddr, lport), ~UNCHANGED <<socktab, pcblist>>
    PROVE  Rest'
<1>1. /\ UNCHANGED <<apptab, selcb, seltmr, waiting, opens>> /\ Owned(d, cur')
      /\ \A i \in SockSlot : i # d.id => socktab'[i] = socktab[i]
      /\ socktab'[d.id].gen = socktab[d.id].gen
      /\ socktab'[d.id].tok = socktab[d.id].tok
      /\ socktab'[d.id].rxq = socktab[d.id].rxq
      /\ socktab'[d.id].pend = socktab[d.id].pend
      /\ socktab'[d.id].state # "FREE"
      /\ \/ pcblist' = pcblist /\ socktab'[d.id].pcb = socktab[d.id].pcb
         \/ \E p \in Port \cup Ephem : Bound(d.id, laddr, p)
  BY BindStep
<1>2. d.id \in SockSlot /\ Live(d.id) /\ Live(d.id)'
  BY <1>1, Pairs DEF Owned, Resolves, Live
<1>3. SameSockets
  BY <1>1, <1>2 DEF SameSockets, Live
<1>4. \A i \in SockSlot : socktab'[i].pend = socktab[i].pend /\ socktab'[i].rxq = socktab[i].rxq
  BY <1>1
<1>5. VacantOK'
  <2>1. ASSUME NEW i \in SockSlot, ~Live(i)' PROVE socktab'[i] = socktab[i] /\ ~Live(i)
    BY <1>1, <1>2, <1>3, <2>1 DEF SameSockets
  <2> QED
    BY <2>1 DEF Rest, Tables, VacantOK
<1>6. DemuxExact'
  <2>1. \A q \in pcblist : q.sock \in SockSlot /\ Live(q.sock) /\ socktab[q.sock].pcb
    BY DEF TypeOK, Name, Rest, Tables, DemuxExact
  <2>2. CASE pcblist' = pcblist /\ socktab'[d.id].pcb = socktab[d.id].pcb
    <3>1. \A i \in SockSlot : socktab'[i].pcb = socktab[i].pcb
      BY <1>1, <2>2
    <3>2. \A i \in SockSlot : Live(i)' <=> Live(i)
      BY <1>3 DEF SameSockets
    <3> QED
      BY <2>1, <2>2, <3>1, <3>2 DEF Rest, Tables, DemuxExact
  <2>3. ASSUME NEW p \in Port \cup Ephem, Bound(d.id, laddr, p) PROVE DemuxExact'
    <3> DEFINE n == Pcb(d.id, laddr, p)
    <3>1. n.sock = d.id /\ n.laddr = laddr /\ n.lport = p
      BY DEF Pcb
    <3>2. /\ ~socktab[d.id].pcb /\ socktab'[d.id].pcb /\ pcblist' = pcblist \cup {n}
          /\ \A q \in pcblist : q.laddr # laddr \/ q.lport # p
      BY <2>3 DEF Bound
    <3>3. \A q \in pcblist : q.sock # d.id
      BY <2>1, <3>2
    <3> HIDE DEF n
    <3>4. \A q \in pcblist' : Live(q.sock)' /\ socktab'[q.sock].pcb
      <4>1. \A q \in pcblist : Live(q.sock)' /\ socktab'[q.sock].pcb
        BY <1>1, <1>3, <2>1, <3>3 DEF SameSockets
      <4> QED
        BY <1>2, <3>1, <3>2, <4>1
    <3>5. \A i \in SockSlot : socktab'[i].pcb => \E q \in pcblist' : q.sock = i
      BY <1>1, <3>1, <3>2 DEF Rest, Tables, DemuxExact
    <3>6. \A q, r \in pcblist' : q.sock = r.sock \/ (q.laddr = r.laddr /\ q.lport = r.lport) => q = r
      BY <3>1, <3>2, <3>3 DEF Rest, Tables, DemuxExact
    <3> QED
      BY <3>4, <3>5, <3>6 DEF DemuxExact
  <2> QED
    BY <1>1, <2>2, <2>3
<1>7. Waits'
  <2>1. HeldInWait' /\ HeldApart'
    BY <1>1, <1>4 DEF Rest, Waits, HeldInWait, HeldApart
  <2>2. InWaitHeld'
    BY <1>1, <1>4 DEF Rest, Waits, InWaitHeld
  <2>3. Drained' /\ TimersOK'
    BY <1>1, <1>4 DEF Rest, Waits, Drained, TimersOK
  <2> QED
    BY <2>1, <2>2, <2>3 DEF Waits
<1>8. ASSUME NoWrap' PROVE Selects'
  <2>1. ASSUME NEW j \in SelSlot, selcb'[j].busy, NEW e \in selcb[j].items
        PROVE  e \in Desc /\ e.id \in SockSlot
    BY Slots, Records, Pairs
  <2>2. NoWrap
    BY <1>3, <1>8, SameNames
  <2> QED
    BY <1>1, <1>3, <1>4, <2>1, <2>2, SameNames, SelectsStay DEF Rest
<1> QED
  BY <1>3, <1>5, <1>6, <1>7, <1>8, SameNames DEF Rest, Tables

(* What RECV leaves of its socket, and what it does to it.                 *)
RecvKeeps(d) ==
    /\ \A i \in SockSlot \ {d.id} : socktab'[i] = socktab[i]
    /\ socktab'[d.id].gen = socktab[d.id].gen /\ socktab'[d.id].tok = socktab[d.id].tok
    /\ socktab'[d.id].state = socktab[d.id].state /\ socktab'[d.id].pcb = socktab[d.id].pcb
    /\ socktab'[d.id].laddr = socktab[d.id].laddr /\ socktab'[d.id].lport = socktab[d.id].lport

RecvMoves(t, d) ==
    \/ /\ socktab'[d.id].pend = socktab[d.id].pend /\ socktab'[d.id].rxq = socktab[d.id].rxq - 1
       /\ socktab[d.id].rxq > 0 /\ waiting' = waiting
    \/ /\ socktab'[d.id].pend = t /\ socktab'[d.id].rxq = 0 /\ socktab[d.id].rxq = 0
       /\ socktab[d.id].pend = NoTask /\ waiting' = waiting \cup {t}

LEMMA RecvSlot ==
    ASSUME TypeOK, NEW t \in Task, NEW d \in Desc, Takes(d) \/ ParksOn(t, d)
    PROVE  /\ d.id \in SockSlot /\ socktab[d.id] \in Sock /\ Live(d.id)
           /\ RecvKeeps(d) /\ RecvMoves(t, d)
<1>2. d.id \in SockSlot /\ socktab[d.id] \in Sock /\ Live(d.id)
  BY Pairs, Slots DEF Takes, ParksOn, Owned, Resolves
<1>3. RecvKeeps(d)
  <2>1. /\ \A n : \A s \in Sock : LET r == [s EXCEPT !.rxq = n]
                                      IN  /\ r.gen = s.gen /\ r.tok = s.tok /\ r.state = s.state
                                          /\ r.pcb = s.pcb /\ r.laddr = s.laddr /\ r.lport = s.lport
        /\ \A p : \A s \in Sock : LET r == [s EXCEPT !.pend = p]
                                      IN  /\ r.gen = s.gen /\ r.tok = s.tok /\ r.state = s.state
                                          /\ r.pcb = s.pcb /\ r.laddr = s.laddr /\ r.lport = s.lport
    BY DEF Sock
  <2>2. CASE Takes(d)
    <3>1. socktab'[d.id] = [socktab[d.id] EXCEPT !.rxq = @ - 1]
      BY <1>2, <2>2 DEF Takes, TypeOK
    <3>2. \A i \in SockSlot \ {d.id} : socktab'[i] = socktab[i]
      BY <1>2, <2>2 DEF Takes, TypeOK
    <3> QED
      BY <1>2, <2>1, <3>1, <3>2 DEF RecvKeeps
  <2>3. CASE ParksOn(t, d)
    <3>1. socktab'[d.id] = [socktab[d.id] EXCEPT !.pend = t]
      BY <1>2, <2>3 DEF ParksOn, TypeOK
    <3>2. \A i \in SockSlot \ {d.id} : socktab'[i] = socktab[i]
      BY <1>2, <2>3 DEF ParksOn, TypeOK
    <3> QED
      BY <1>2, <2>1, <3>1, <3>2 DEF RecvKeeps
  <2> QED
    BY <2>2, <2>3
<1>4. RecvMoves(t, d)
  <2>1. \A n, p : \A s \in Sock :
         /\ [s EXCEPT !.rxq = n].rxq = n /\ [s EXCEPT !.rxq = n].pend = s.pend
         /\ [s EXCEPT !.pend = p].rxq = s.rxq /\ [s EXCEPT !.pend = p].pend = p
    BY DEF Sock
  <2>2. CASE Takes(d)
    <3>1. socktab'[d.id] = [socktab[d.id] EXCEPT !.rxq = @ - 1]
      BY <1>2, <2>2 DEF Takes, TypeOK
    <3> QED
      <4>1. socktab[d.id].rxq > 0 /\ waiting' = waiting
        BY <2>2 DEF Takes
      <4>2. socktab'[d.id].pend = socktab[d.id].pend /\ socktab'[d.id].rxq = socktab[d.id].rxq - 1
        BY <1>2, <2>1, <3>1
      <4> QED
        BY <4>1, <4>2 DEF RecvMoves
  <2>3. CASE ParksOn(t, d)
    <3>1. socktab'[d.id] = [socktab[d.id] EXCEPT !.pend = t]
      BY <1>2, <2>3 DEF ParksOn, TypeOK
    <3> QED
      <4>1. socktab[d.id].rxq = 0 /\ socktab[d.id].pend = NoTask /\ waiting' = waiting \cup {t}
        BY <2>3 DEF ParksOn
      <4>2. socktab'[d.id].pend = t /\ socktab'[d.id].rxq = socktab[d.id].rxq
        BY <1>2, <2>1, <3>1
      <4> QED
        BY <4>1, <4>2 DEF RecvMoves
  <2> QED
    BY <2>2, <2>3
<1> QED
  BY <1>2, <1>3, <1>4

LEMMA RecvRest ==
    ASSUME TypeOK, TypeOK', Rest, NEW t \in Task, NEW d \in Desc, NEW nonblock \in BOOLEAN,
           Recv(t, d, nonblock), ~UNCHANGED <<socktab, waiting>>
    PROVE  Rest'
<1>1. /\ UNCHANGED <<apptab, pcblist, selcb, seltmr, opens>> /\ t \notin waiting
      /\ Takes(d) \/ ParksOn(t, d)
  BY RecvStep
<1>2. d.id \in SockSlot /\ socktab[d.id] \in Sock /\ Live(d.id)
  BY <1>1, RecvSlot
<1>3. /\ \A i \in SockSlot \ {d.id} : socktab'[i] = socktab[i]
      /\ socktab'[d.id].gen = socktab[d.id].gen /\ socktab'[d.id].tok = socktab[d.id].tok
      /\ socktab'[d.id].state = socktab[d.id].state /\ socktab'[d.id].pcb = socktab[d.id].pcb
  BY <1>1, RecvSlot DEF RecvKeeps
<1>4. \/ /\ socktab'[d.id].pend = socktab[d.id].pend /\ socktab'[d.id].rxq = socktab[d.id].rxq - 1
         /\ socktab[d.id].rxq > 0 /\ waiting' = waiting
      \/ /\ socktab'[d.id].pend = t /\ socktab'[d.id].rxq = 0 /\ socktab[d.id].rxq = 0
         /\ socktab[d.id].pend = NoTask /\ waiting' = waiting \cup {t}
  BY <1>1, RecvSlot DEF RecvMoves
<1>5. SameSockets
  BY <1>1, <1>2, <1>3 DEF SameSockets, Live
<1>6. \A i \in SockSlot : socktab'[i].pcb = socktab[i].pcb
  BY <1>3
<1>7. VacantOK' /\ DemuxExact'
  <2>1. \A i \in SockSlot : (Live(i)' <=> Live(i)) /\ (~Live(i) => socktab'[i] = socktab[i])
    BY <1>2, <1>3, <1>5 DEF SameSockets
  <2>2. \A p \in pcblist : p.sock \in SockSlot
    BY DEF TypeOK, Name
  <2>3. VacantOK'
    BY <2>1 DEF Rest, Tables, VacantOK
  <2> QED
    BY <1>1, <1>6, <2>1, <2>2, <2>3 DEF Rest, Tables, DemuxExact
<1>8. \A i \in SockSlot : socktab[i].pend # t
  BY <1>1, NamesAssumption DEF Rest, Waits, HeldInWait
<1>9. \A j \in SelSlot : selcb[j].busy => selcb[j].req # t
  BY <1>1 DEF Rest, Waits, HeldInWait
<1>10. t # NoTask /\ socktab[d.id].rxq \in 0 .. RxMax
  BY <1>2, NamesAssumption, Records
<1>11. HeldInWait'
  BY <1>1, <1>3, <1>4 DEF Rest, Waits, HeldInWait
<1>12. HeldApart'
  BY <1>1, <1>3, <1>4, <1>8, <1>9, <1>10 DEF Rest, Waits, HeldApart
<1>13. InWaitHeld'
  <2>1. ASSUME NEW u \in waiting
        PROVE  \/ \E i \in SockSlot : socktab'[i].pend = u
               \/ \E j \in SelSlot : selcb'[j].busy /\ selcb'[j].req = u
    <3>1. u # NoTask
      BY NamesAssumption DEF TypeOK
    <3>2. \A i \in SockSlot : socktab[i].pend = u => socktab'[i].pend = u
      BY <1>3, <1>4, <3>1
    <3> QED
      BY <1>1, <3>2 DEF Rest, Waits, InWaitHeld
  <2> QED
    BY <1>2, <1>4, <2>1 DEF InWaitHeld
<1>14. Drained'
  BY <1>3, <1>4, <1>10 DEF Rest, Waits, Drained
<1>15. TimersOK'
  BY <1>1 DEF Rest, Waits, TimersOK
<1>16. ASSUME NoWrap' PROVE Selects'
  <2>1. ASSUME NEW j \in SelSlot, selcb'[j].busy, NEW e \in selcb[j].items
        PROVE  e \in Desc /\ e.id \in SockSlot
    BY Slots, Records, Pairs
  <2>2. \A i \in SockSlot : socktab'[i].rxq > 0 => socktab[i].rxq > 0
    BY <1>3, <1>4, <1>10
  <2>3. NoWrap
    BY <1>5, <1>16, SameNames
  <2> QED
    BY <1>1, <1>5, <2>1, <2>2, <2>3, SameNames, SelectsStay DEF Rest
<1> QED
  BY <1>5, <1>7, <1>11, <1>12, <1>13, <1>14, <1>15, <1>16, SameNames DEF Rest, Tables, Waits

(* A datagram changes nothing but the queue, or the request parked there.  *)
LEMMA DatagramStep ==
    ASSUME TypeOK, NEW i \in SockSlot,
           socktab' \in {Delivered(i), Queued(i)}
    PROVE  /\ \A h \in SockSlot \ {i} : socktab'[h] = socktab[h]
           /\ socktab'[i].gen = socktab[i].gen /\ socktab'[i].tok = socktab[i].tok
           /\ socktab'[i].state = socktab[i].state /\ socktab'[i].pcb = socktab[i].pcb
           /\ socktab'[i].laddr = socktab[i].laddr /\ socktab'[i].lport = socktab[i].lport
           /\ socktab' = Delivered(i) => socktab'[i].pend = NoTask /\ socktab'[i].rxq = socktab[i].rxq
           /\ socktab' = Queued(i) => socktab'[i].pend = socktab[i].pend /\ socktab'[i].rxq = socktab[i].rxq + 1
<1>1. \A h \in SockSlot \ {i} : Delivered(i)[h] = socktab[h] /\ Queued(i)[h] = socktab[h]
  BY DEF Delivered, Queued, TypeOK
<1>2. /\ Delivered(i)[i] = [socktab[i] EXCEPT !.pend = NoTask]
      /\ Queued(i)[i] = [socktab[i] EXCEPT !.rxq = @ + 1]
  BY DEF Delivered, Queued, TypeOK
<1>3. /\ \A s \in Sock : LET n == [s EXCEPT !.pend = NoTask]
                         IN  /\ n.gen = s.gen /\ n.tok = s.tok /\ n.state = s.state
                             /\ n.laddr = s.laddr /\ n.lport = s.lport
                             /\ n.pcb = s.pcb /\ n.rxq = s.rxq /\ n.pend = NoTask
      /\ \A s \in Sock : LET n == [s EXCEPT !.rxq = @ + 1]
                         IN  /\ n.gen = s.gen /\ n.tok = s.tok /\ n.state = s.state
                             /\ n.laddr = s.laddr /\ n.lport = s.lport
                             /\ n.pcb = s.pcb /\ n.pend = s.pend /\ n.rxq = s.rxq + 1
  BY DEF Sock
<1>4. socktab[i] \in Sock
  BY Slots
<1>5. LET n == Delivered(i)[i]
      IN  /\ n.gen = socktab[i].gen /\ n.tok = socktab[i].tok /\ n.state = socktab[i].state
          /\ n.laddr = socktab[i].laddr /\ n.lport = socktab[i].lport
          /\ n.pcb = socktab[i].pcb /\ n.rxq = socktab[i].rxq /\ n.pend = NoTask
  BY <1>2, <1>3, <1>4
<1>6. LET n == Queued(i)[i]
      IN  /\ n.gen = socktab[i].gen /\ n.tok = socktab[i].tok /\ n.state = socktab[i].state
          /\ n.laddr = socktab[i].laddr /\ n.lport = socktab[i].lport
          /\ n.pcb = socktab[i].pcb /\ n.pend = socktab[i].pend /\ n.rxq = socktab[i].rxq + 1
  BY <1>2, <1>3, <1>4
<1> QED
  BY <1>1, <1>5, <1>6

LEMMA InputRest ==
    ASSUME TypeOK, TypeOK', Rest, NEW dst \in HomeAddr, NEW dport \in Port \cup Ephem,
           UdpInput(dst, dport)
    PROVE  Rest'
<1>1. UNCHANGED <<apptab, pcblist, opens>>
  BY DEF UdpInput
<1>2. PICK p \in pcblist :
         LET i == p.sock IN
         /\ i \in SockSlot /\ socktab' \in [SockSlot -> Sock]
         /\ \/ /\ socktab[i].pend # NoTask
               /\ socktab' = Delivered(i)
               /\ waiting' = waiting \ {socktab[i].pend}
               /\ UNCHANGED <<selcb, seltmr>>
            \/ /\ socktab[i].pend = NoTask
               /\ socktab' = Queued(i)
               /\ SelFinished(Awake(Queued(i)))
               /\ waiting' = waiting \ SelReqs(Awake(Queued(i)))
  BY InputStep
<1> DEFINE i == p.sock
<1>3. i \in SockSlot /\ socktab[i] \in Sock /\ Live(i)
  BY <1>2, Slots DEF Rest, Tables, DemuxExact
<1> HIDE DEF i
<1>4. \/ /\ socktab[i].pend # NoTask
         /\ socktab' = Delivered(i)
         /\ waiting' = waiting \ {socktab[i].pend}
         /\ UNCHANGED <<selcb, seltmr>>
      \/ /\ socktab[i].pend = NoTask
         /\ socktab' = Queued(i)
         /\ SelFinished(Awake(Queued(i)))
         /\ waiting' = waiting \ SelReqs(Awake(Queued(i)))
  BY <1>2 DEF i
<1>5. /\ \A h \in SockSlot \ {i} : socktab'[h] = socktab[h]
      /\ socktab'[i].gen = socktab[i].gen /\ socktab'[i].tok = socktab[i].tok
      /\ socktab'[i].state = socktab[i].state /\ socktab'[i].pcb = socktab[i].pcb
  BY <1>3, <1>4, DatagramStep
<1>7. \A h \in SockSlot : /\ socktab'[h].gen = socktab[h].gen /\ socktab'[h].tok = socktab[h].tok
                          /\ socktab'[h].state = socktab[h].state /\ socktab'[h].pcb = socktab[h].pcb
  BY <1>5
<1>8. SameSockets
  BY <1>1, <1>7 DEF SameSockets, Live
<1>9. VacantOK' /\ DemuxExact'
  <2>1. \A h \in SockSlot : (Live(h)' <=> Live(h)) /\ (~Live(h) => socktab'[h] = socktab[h])
    BY <1>3, <1>5, <1>8 DEF SameSockets
  <2>2. \A q \in pcblist : q.sock \in SockSlot
    BY DEF TypeOK, Name
  <2>3. VacantOK'
    BY <2>1 DEF Rest, Tables, VacantOK
  <2> QED
    BY <1>1, <1>7, <2>1, <2>2, <2>3 DEF Rest, Tables, DemuxExact
<1>10. CASE /\ socktab[i].pend # NoTask
            /\ socktab' = Delivered(i)
            /\ waiting' = waiting \ {socktab[i].pend}
            /\ UNCHANGED <<selcb, seltmr>>
  <2>1. /\ socktab'[i].pend = NoTask /\ socktab'[i].rxq = socktab[i].rxq
        /\ \A h \in SockSlot \ {i} : socktab'[h] = socktab[h]
    BY <1>3, <1>5, <1>10, DatagramStep
  <2>2. HeldInWait'
    BY <1>3, <1>10, <2>1 DEF Rest, Waits, HeldInWait, HeldApart
  <2>3. HeldApart'
    <3>1. \A j \in SelSlot : selcb[j].busy => selcb[j].req # NoTask
      BY NamesAssumption DEF Rest, Waits, HeldInWait, TypeOK
    <3> QED
      BY <1>10, <2>1, <3>1 DEF Rest, Waits, HeldApart
  <2>4. InWaitHeld'
    <3>1. ASSUME NEW u \in waiting'
          PROVE  \/ \E h \in SockSlot : socktab'[h].pend = u
                 \/ \E j \in SelSlot : selcb'[j].busy /\ selcb'[j].req = u
      <4>1. u \in waiting /\ u # socktab[i].pend
        BY <1>10
      <4>2. \A h \in SockSlot : socktab[h].pend = u => socktab'[h].pend = u
        BY <2>1, <4>1
      <4> QED
        BY <1>10, <4>1, <4>2 DEF Rest, Waits, InWaitHeld
    <3> QED
      BY <3>1 DEF InWaitHeld
  <2>5. Drained' /\ TimersOK'
    BY <1>10, <2>1 DEF Rest, Waits, Drained, TimersOK
  <2>6. ASSUME NoWrap' PROVE Selects'
    <3>1. ASSUME NEW j \in SelSlot, selcb'[j].busy, NEW e \in selcb[j].items
          PROVE  e \in Desc /\ e.id \in SockSlot
      BY <1>10, Slots, Records, Pairs
    <3>2. \A h \in SockSlot : socktab'[h].rxq > 0 => socktab[h].rxq > 0
      BY <2>1
    <3>3. NoWrap
      BY <1>8, <2>6, SameNames
    <3> QED
      BY <1>8, <1>10, <3>1, <3>2, <3>3, SameNames, SelectsStay DEF Rest
  <2> QED
    BY <1>8, <1>9, <2>2, <2>3, <2>4, <2>5, <2>6, SameNames DEF Rest, Tables, Waits
<1>11. CASE /\ socktab[i].pend = NoTask
            /\ socktab' = Queued(i)
            /\ SelFinished(Awake(Queued(i)))
            /\ waiting' = waiting \ SelReqs(Awake(Queued(i)))
  <2> DEFINE up == Awake(Queued(i))
  <2>1. /\ socktab'[i].pend = NoTask /\ \A h \in SockSlot : socktab'[h].pend = socktab[h].pend
        /\ \A h \in SockSlot \ {i} : socktab'[h] = socktab[h]
    BY <1>3, <1>5, <1>11, DatagramStep
  <2>2. /\ \A j \in SelSlot : /\ j \in up => selcb'[j] = FreeSel /\ ~selcb'[j].busy
                              /\ j \notin up => selcb'[j] = selcb[j]
        /\ \A j \in SelSlot : selcb'[j].busy => selcb'[j] = selcb[j] /\ j \notin up
    <3>1. SelFinished(up)
      BY <1>11
    <3> HIDE DEF up
    <3>2. ~FreeSel.busy
      BY DEF FreeSel
    <3> QED
      BY <3>1, <3>2, FinishedType
  <2>3. up \subseteq SelSlot /\ \A j \in up : selcb[j].busy
    BY DEF Awake
  <2>4. \A j \in SelSlot : j \notin up /\ selcb[j].busy
           => Ready(selcb[j].items, selcb[j].want, selcb[j].who, Queued(i)) = {}
    BY DEF Awake
  <2>5. waiting' = waiting \ SelReqs(up) /\ seltmr' = seltmr \ up
    BY <1>11 DEF SelFinished
  <2> HIDE DEF up
  <2>6. HeldInWait'
    <3>1. \A h \in SockSlot : socktab[h].pend \notin SelReqs(up)
      BY <2>3 DEF SelReqs, Rest, Waits, HeldApart
    <3>2. \A j \in SelSlot : selcb'[j].busy => selcb[j].req \notin SelReqs(up)
      BY <2>2, <2>3 DEF SelReqs, Rest, Waits, HeldApart
    <3> QED
      BY <2>1, <2>2, <2>5, <3>1, <3>2 DEF Rest, Waits, HeldInWait
  <2>7. HeldApart'
    BY <2>1, <2>2 DEF Rest, Waits, HeldApart
  <2>8. InWaitHeld'
    <3>1. ASSUME NEW u \in waiting'
          PROVE  \/ \E h \in SockSlot : socktab'[h].pend = u
                 \/ \E j \in SelSlot : selcb'[j].busy /\ selcb'[j].req = u
      <4>1. u \in waiting /\ u \notin SelReqs(up)
        BY <2>5
      <4>2. \A j \in SelSlot : selcb[j].busy /\ selcb[j].req = u => j \notin up
        BY <4>1 DEF SelReqs
      <4> QED
        BY <2>1, <2>2, <4>1, <4>2 DEF Rest, Waits, InWaitHeld
    <3> QED
      BY <3>1 DEF InWaitHeld
  <2>9. Drained'
    BY <2>1 DEF Rest, Waits, Drained
  <2>10. TimersOK'
    BY <2>2, <2>5 DEF Rest, Waits, TimersOK
  (* The rescan left asleep what it found nothing for.                     *)
  <2>11. ASSUME NoWrap' PROVE Selects'
    <3>1. NoWrap
      BY <1>8, <2>11, SameNames
    <3>2. \A j \in SelSlot : selcb'[j].busy => selcb'[j] = selcb[j] /\ selcb[j].busy
      BY <2>2
    <3>3. WatchedOK'
      <4>1. ASSUME NEW j \in SelSlot, selcb'[j].busy, NEW e \in selcb[j].items PROVE Past(e)'
        <5>1. e \in Desc
          BY Slots, Records
        <5>2. Past(e)
          BY <3>1, <3>2, <4>1 DEF Rest, Selects, WatchedOK
        <5> QED
          BY <1>8, <5>1, <5>2, SameNames
      <4> QED
        BY <3>2, <4>1 DEF WatchedOK
    <3>4. ASSUME NEW j \in SelSlot, selcb'[j].busy
          PROVE  Ready(selcb[j].items, selcb[j].want, selcb[j].who, socktab)' = {}
      <4>1. selcb'[j] = selcb[j] /\ selcb[j].busy /\ j \notin up
        BY <2>2, <3>4
      <4>2. Ready(selcb[j].items, selcb[j].want, selcb[j].who, Queued(i)) = {}
        BY <2>4, <4>1
      <4>3. ASSUME NEW e \in selcb[j].items, Owned(e, selcb[j].who)',
                   ("READ" \in selcb[j].want /\ socktab'[e.id].rxq > 0) \/ "WRITE" \in selcb[j].want
            PROVE  FALSE
        <5>1. e \in Desc
          BY Slots, Records
        <5>2. \A a : a = selcb[j].who => Owned(e, a)'
          BY <4>1, <4>3 DEF Owned, Resolves, Live, AppKnown, AppToken
        <5>3. Owned(e, selcb[j].who)
          BY <1>8, <5>1, <5>2, SameNames
        <5> QED
          BY <1>11, <4>2, <4>3, <5>3 DEF Ready
      <4> QED
        BY <4>1, <4>3 DEF Ready, Owned, Resolves, Live, AppKnown, AppToken
    <3>5. Quiet'
      BY <3>4 DEF Quiet
    <3> QED
      BY <3>3, <3>5 DEF Selects
  <2> QED
    BY <1>8, <1>9, <2>6, <2>7, <2>8, <2>9, <2>10, <2>11, SameNames DEF Rest, Tables, Waits
<1> QED
  BY <1>4, <1>10, <1>11

LEMMA SelectRest ==
    ASSUME TypeOK, TypeOK', Rest, NEW t \in Task, NEW items \in SUBSET Desc,
           \A d \in items : Past(d),
           NEW want \in SUBSET {"READ", "WRITE"}, NEW how, Select(t, items, want, how),
           ~UNCHANGED <<selcb, seltmr, waiting>>
    PROVE  Rest'
<1>1. UNCHANGED <<apptab, socktab, pcblist, opens>> /\ t \notin waiting
  BY SelectStep
<1>2. Ready(items, want, cur', socktab) = {}
  BY SelectStep
<1>3. PICK j \in SelSlot, b \in Sel : Blocks(t, items, want, how, j, b)
  BY SelectStep
<1>4. /\ ~selcb[j].busy /\ b.busy /\ b.req = t /\ b.items = items
      /\ b.want = want /\ b.who = cur' /\ (b.timed <=> how = "timed")
      /\ selcb'[j] = b /\ \A h \in SelSlot \ {j} : selcb'[h] = selcb[h]
      /\ seltmr' = IF how = "timed" THEN seltmr \cup {j} ELSE seltmr
      /\ waiting' = waiting \cup {t}
  BY <1>3 DEF Blocks, TypeOK
<1>5. Tables'
  <2>1. GenOK' /\ RegistryOK' /\ VacantOK'
    BY <1>1 DEF Rest, Tables, GenOK, RegistryOK, VacantOK, Live, AppKnown, AppToken
  <2>2. DemuxExact'
    BY <1>1 DEF Rest, Tables, DemuxExact, Live
  <2> QED
    BY <2>1, <2>2 DEF Tables
<1>6. \A i \in SockSlot : socktab[i].pend # t
  BY <1>1, NamesAssumption DEF Rest, Waits, HeldInWait
<1>7. \A h \in SelSlot : selcb[h].busy => selcb[h].req # t
  BY <1>1 DEF Rest, Waits, HeldInWait
<1>8. HeldInWait'
  BY <1>1, <1>4 DEF Rest, Waits, HeldInWait
<1>9. HeldApart'
  BY <1>1, <1>4, <1>6, <1>7 DEF Rest, Waits, HeldApart
<1>10. InWaitHeld'
  <2>1. ASSUME NEW u \in waiting
        PROVE  \/ \E i \in SockSlot : socktab'[i].pend = u
               \/ \E h \in SelSlot : selcb'[h].busy /\ selcb'[h].req = u
    <3>1. \A h \in SelSlot : selcb[h].busy => selcb'[h] = selcb[h]
      BY <1>4
    <3> QED
      BY <1>1, <3>1 DEF Rest, Waits, InWaitHeld
  <2> QED
    BY <1>4, <2>1 DEF InWaitHeld
<1>11. Drained'
  BY <1>1 DEF Rest, Waits, Drained
<1>12. TimersOK'
  BY <1>4 DEF Rest, Waits, TimersOK
<1>13. ASSUME NoWrap' PROVE Selects'
  <2>1. Selects
    BY <1>1, <1>13 DEF Rest, NoWrap
  <2>2. WatchedOK'
    <3>1. \A d : Past(d)' <=> Past(d)
      BY <1>1 DEF Past, Resolves, Live
    <3> QED
      BY <1>4, <2>1, <3>1 DEF Selects, WatchedOK, Past, Resolves, Live
  <2>4. \A d, a : Owned(d, a)' <=> Owned(d, a)
    BY <1>1 DEF Owned, Resolves, Live, AppKnown, AppToken
  <2>5. \A h \in SelSlot \ {j} : selcb'[h].busy =>
            Ready(selcb[h].items, selcb[h].want, selcb[h].who, socktab) = {}
    BY <1>4, <2>1 DEF Selects, Quiet
  <2>6. ASSUME NEW h \in SelSlot, selcb'[h].busy
        PROVE  {d \in selcb'[h].items : /\ Owned(d, selcb'[h].who)
                                        /\ \/ "READ" \in selcb'[h].want /\ socktab[d.id].rxq > 0
                                           \/ "WRITE" \in selcb'[h].want} = {}
    BY <1>2, <1>4, <2>5, <2>6 DEF Ready
  <2>7. Quiet'
    BY <1>1, <2>4, <2>6 DEF Quiet, Ready, Owned, Resolves, Live, AppKnown, AppToken
  <2> QED
    BY <2>2, <2>7 DEF Selects
<1> QED
  BY <1>5, <1>8, <1>9, <1>10, <1>11, <1>12, <1>13 DEF Rest, Waits

LEMMA TimeoutRest ==
    ASSUME TypeOK, TypeOK', Rest, NEW j \in SelSlot, SelTimeout(j)
    PROVE  Rest'
<1>1. /\ UNCHANGED <<apptab, socktab, pcblist, opens>> /\ waiting' = waiting \ SelReqs({j})
      /\ seltmr' = seltmr \ {j} /\ SelFinished({j})
  BY DEF SelTimeout, SelFinished
<1>2. /\ selcb'[j] = FreeSel /\ ~selcb'[j].busy /\ \A h \in SelSlot \ {j} : selcb'[h] = selcb[h]
  <2>1. ~FreeSel.busy
    BY DEF FreeSel
  <2> QED
    BY <1>1, <2>1, FinishedType
<1>3. selcb[j].busy /\ waiting' = waiting \ {selcb[j].req}
  BY <1>1 DEF SelTimeout, Rest, Waits, TimersOK, SelReqs
<1>4. SameSockets
  BY <1>1 DEF SameSockets, Live
<1>5. VacantOK' /\ DemuxExact'
  BY <1>1 DEF Rest, Tables, VacantOK, DemuxExact, Live
<1>6. HeldInWait' /\ HeldApart'
  <2>1. \A h \in SelSlot : selcb'[h].busy => selcb'[h] = selcb[h] /\ selcb[h].busy /\ h # j
    BY <1>2
  <2>2. \A i \in SockSlot : socktab[i].pend # selcb[j].req
    BY <1>3 DEF Rest, Waits, HeldApart
  <2>3. \A h \in SelSlot : selcb'[h].busy => selcb[h].req # selcb[j].req
    BY <1>3, <2>1 DEF Rest, Waits, HeldApart
  <2>4. HeldInWait'
    BY <1>1, <1>3, <2>1, <2>2, <2>3 DEF Rest, Waits, HeldInWait
  <2>5. HeldApart'
    BY <1>1, <2>1 DEF Rest, Waits, HeldApart
  <2> QED
    BY <2>4, <2>5
<1>7. InWaitHeld'
  BY <1>1, <1>2, <1>3 DEF Rest, Waits, InWaitHeld
<1>8. Drained' /\ TimersOK'
  BY <1>1, <1>2 DEF Rest, Waits, Drained, TimersOK
<1>9. ASSUME NoWrap' PROVE Selects'
  <2>1. ASSUME NEW h \in SelSlot, selcb'[h].busy, NEW e \in selcb[h].items
        PROVE  e \in Desc /\ e.id \in SockSlot
    BY Slots, Records, Pairs
  <2>2. \A h \in SelSlot : selcb'[h].busy => selcb'[h] = selcb[h]
    BY <1>2
  <2>3. NoWrap
    BY <1>4, <1>9, SameNames
  <2> QED
    BY <1>1, <1>4, <2>1, <2>2, <2>3, SameNames, SelectsStay DEF Rest
<1> QED
  BY <1>4, <1>5, <1>6, <1>7, <1>8, <1>9, SameNames DEF Rest, Tables, Waits

LEMMA InitIInv == Init => IInv
<1> SUFFICES ASSUME Init PROVE IInv
  OBVIOUS
<1>1. TypeOK
  BY InitType
<1>2. /\ \A g : /\ Vacant(g).gen = g /\ Vacant(g).state = "FREE" /\ Vacant(g).pend = NoTask
                /\ Vacant(g).rxq = 0 /\ ~Vacant(g).pcb
      /\ \A g : FreeApp(g).gen = g /\ ~FreeApp(g).inuse
      /\ ~FreeSel.busy
  BY DEF Vacant, FreeApp, FreeSel
<1>3. /\ \A i \in SockSlot : /\ socktab[i].gen = 1 /\ ~Live(i) /\ socktab[i].pend = NoTask
                             /\ socktab[i].rxq = 0 /\ ~socktab[i].pcb
      /\ \A k \in AppSlot : apptab[k].gen = 1
      /\ \A j \in SelSlot : ~selcb[j].busy
      /\ waiting = {} /\ pcblist = {} /\ seltmr = {} /\ opens = 0
  BY <1>2 DEF Init, Live
<1>4. Tables
  <2>1. GenOK
    BY <1>2, <1>3 DEF GenOK, Init
  <2> QED
    BY <1>3, <2>1 DEF Tables, RegistryOK, VacantOK, DemuxExact
<1>5. Waits
  <2>1. HeldInWait /\ HeldApart /\ InWaitHeld
    BY <1>3 DEF HeldInWait, HeldApart, InWaitHeld
  <2>2. Drained /\ TimersOK
    BY <1>3 DEF Drained, TimersOK
  <2> QED
    BY <2>1, <2>2 DEF Waits
<1>6. Selects
  BY <1>3 DEF Selects, WatchedOK, Quiet
<1> QED
  BY <1>1, <1>4, <1>5, <1>6 DEF IInv

(* What neither tables nor waits look at changes nothing of the rest.      *)
LEMMA StillRest ==
    ASSUME Rest, UNCHANGED <<apptab, socktab, pcblist, selcb, seltmr, waiting, opens>>
    PROVE  Rest'
<1>1. Tables'
  BY DEF Rest, Tables, GenOK, RegistryOK, VacantOK, DemuxExact, Live, AppKnown, AppToken
<1>2. Waits'
  BY DEF Rest, Waits, HeldInWait, HeldApart, InWaitHeld, Drained, TimersOK
<1>3. NoWrap' => NoWrap
  BY DEF NoWrap
<1>4. Selects => Selects'
  BY DEF Selects, WatchedOK, Quiet, Past, Ready, Owned, Resolves, Live, AppKnown, AppToken
<1> QED
  BY <1>1, <1>2, <1>3, <1>4 DEF Rest

LEMMA CloseRest ==
    ASSUME TypeOK, TypeOK', Rest, NEW t \in Task, NEW d \in Desc, Close(t, d),
           ~UNCHANGED <<socktab, pcblist, selcb, seltmr, waiting>>
    PROVE  Rest'
<1>1. Owned(d, cur') /\ Destroy({d.id}) /\ UNCHANGED <<apptab, opens>>
  BY DEF Close
<1>2. d.id \in SockSlot /\ Live(d.id)
  BY <1>1, Pairs DEF Owned, Resolves
<1>3. opens <= opens'
  BY <1>1 DEF TypeOK
<1>4. \A k \in AppSlot : apptab'[k].gen <= IF apptab'[k].inuse THEN opens' ELSE opens' + 1
  BY <1>1 DEF Rest, Tables, GenOK
<1> QED
  BY <1>1, <1>2, <1>3, <1>4, TeardownRest

LEMMA NextRest == TypeOK /\ TypeOK' /\ Rest /\ [Next]_vars => Rest'
<1> SUFFICES ASSUME TypeOK, TypeOK', Rest, [Next]_vars PROVE Rest'
  OBVIOUS
<1>1. ASSUME NEW t \in Task, InitApi(t) PROVE Rest'
  BY <1>1, InitApiStep, EndRest
<1>2. ASSUME NEW t \in Task, NEW tok \in IssuedTokens, TermApi(t, tok) PROVE Rest'
  <2>1. tok \in Token
    BY RequestTypes
  <2>2. CASE NothingDone
    BY <2>2, StillRest DEF NothingDone
  <2>3. ASSUME NEW k \in AppSlot, apptab[k].inuse, EndApps({k}), opens' = opens PROVE Rest'
    <3>1. Registers({k}, t) /\ Destroy(SocketsOf({AppToken(h) : h \in {k}}))
      BY <2>3, EndAppsStep
    <3> QED
      BY <2>3, <3>1, EndRest
  <2> QED
    BY <1>2, <2>1, <2>2, <2>3, TermApiStep
<1>3. ASSUME NEW t \in Task, NEW tok \in IssuedTokens, Socket(t, tok) PROVE Rest'
  <2>1. NothingDone => Rest'
    BY StillRest DEF NothingDone
  <2> QED
    BY <1>3, <2>1, SocketRest
<1>4. ASSUME NEW t \in Task, NEW d \in Issued, Close(t, d) PROVE Rest'
  <2>1. d \in Desc
    BY RequestTypes
  <2>2. UNCHANGED <<apptab, opens>>
    BY <1>4 DEF Close
  <2>3. UNCHANGED <<socktab, pcblist, selcb, seltmr, waiting>> => Rest'
    BY <2>2, StillRest
  <2> QED
    BY <1>4, <2>1, <2>3, CloseRest
<1>5. ASSUME NEW t \in Task, NEW d \in Issued, NEW laddr \in Addr, NEW lport \in Port \cup {0},
             Bind(t, d, laddr, lport)
      PROVE  Rest'
  <2>1. d \in Desc
    BY RequestTypes
  <2>2. UNCHANGED <<apptab, selcb, seltmr, waiting, opens>>
    BY <1>5 DEF Bind
  <2>3. UNCHANGED <<socktab, pcblist>> => Rest'
    BY <2>2, StillRest
  <2> QED
    BY <1>5, <2>1, <2>3, BindRest
<1>6. ASSUME NEW t \in Task, NEW d \in Issued, NEW nonblock \in BOOLEAN, Recv(t, d, nonblock)
      PROVE  Rest'
  <2>1. d \in Desc
    BY RequestTypes
  <2>2. UNCHANGED <<apptab, pcblist, selcb, seltmr, opens>>
    BY <1>6 DEF Recv, OnlySockets
  <2>3. UNCHANGED <<socktab, waiting>> => Rest'
    BY <2>2, StillRest
  <2> QED
    BY <1>6, <2>1, <2>3, RecvRest
<1>7. ASSUME NEW t \in Task, NEW items \in Names(Issued), NEW want \in Wants,
             NEW how \in {"poll", "timed", "block"}, Select(t, items, want, how)
      PROVE  Rest'
  <2>1. items \in SUBSET Desc /\ want \in SUBSET {"READ", "WRITE"}
    BY RequestTypes
  <2>2. \A d \in items : Past(d)
    BY DEF Names, Issued, Past
  <2>3. UNCHANGED <<apptab, socktab, pcblist, opens>>
    BY <1>7 DEF Select
  <2>4. UNCHANGED <<selcb, seltmr, waiting>> => Rest'
    BY <2>3, StillRest
  <2> QED
    BY <1>7, <2>1, <2>2, <2>4, SelectRest
<1>8. ASSUME NEW dst \in HomeAddr, NEW dport \in Port \cup Ephem, UdpInput(dst, dport) PROVE Rest'
  BY <1>8, InputRest
<1>9. ASSUME NEW j \in SelSlot, SelTimeout(j) PROVE Rest'
  BY <1>9, TimeoutRest
<1>10. ASSUME Sweep PROVE Rest'
  <2>1. PICK G \in SUBSET AppSlot : /\ \A k \in G : apptab[k].inuse /\ apptab[k].who \in dead
                                    /\ EndApps(G) /\ opens' = opens
    BY <1>10, SweepStep
  <2>2. Registers(G, NoTask) /\ Destroy(SocketsOf({AppToken(k) : k \in G}))
    BY <2>1, EndAppsStep
  <2> QED
    BY <2>1, <2>2, EndRest
<1>11. ASSUME NEW a \in Space, Die(a) PROVE Rest'
  BY <1>11, StillRest DEF Die
<1>12. ASSUME UNCHANGED vars PROVE Rest'
  BY <1>12, StillRest DEF vars
<1> QED
  BY <1>1, <1>2, <1>3, <1>4, <1>5, <1>6, <1>7, <1>8, <1>9, <1>10, <1>11, <1>12 DEF Next, Request
-----------------------------------------------------------------------------
(* The inductive invariant holds of every behaviour.                       *)
THEOREM Inductive == Spec => []IInv
<1>1. IInv /\ [Next]_vars => IInv'
  <2> SUFFICES ASSUME IInv, [Next]_vars PROVE IInv'
    OBVIOUS
  <2>1. TypeOK /\ Rest
    BY DEF IInv, Rest
  <2>2. TypeOK'
    BY <2>1, NextType
  <2>3. Rest'
    BY <2>1, <2>2, NextRest
  <2> QED
    BY <2>2, <2>3 DEF IInv, Rest
<1> QED
  BY <1>1, InitIInv, PTL DEF Spec

(* Every table, queue and set of the socket layer keeps its type.          *)
THEOREM TypeCorrect == Spec => []TypeOK
<1>1. IInv => TypeOK
  BY DEF IInv
<1> QED
  BY <1>1, Inductive, PTL

LEMMA OneHolder ==
    ASSUME TypeOK, Tables, Waits, NEW t \in Task
    PROVE  Cardinality(Holders(t)) = IF t \in waiting THEN 1 ELSE 0
<1> DEFINE R == {i \in SockSlot : Live(i) /\ socktab[i].pend = t}
           S == {j \in SelSlot : selcb[j].busy /\ selcb[j].req = t}
<1>1. Holders(t) = {<<"recv", i>> : i \in R} \cup {<<"select", j>> : j \in S}
  BY DEF Holders
<1>2. t # NoTask
  BY NamesAssumption
<1>3. R = {i \in SockSlot : socktab[i].pend = t}
  BY <1>2 DEF Tables, VacantOK
<1>4. CASE t \in waiting
  <2>1. ASSUME NEW i \in SockSlot, socktab[i].pend = t PROVE R = {i} /\ S = {}
    BY <1>2, <1>3, <2>1 DEF Waits, HeldApart
  <2>2. ASSUME NEW j \in SelSlot, selcb[j].busy, selcb[j].req = t PROVE S = {j} /\ R = {}
    BY <1>3, <2>2 DEF Waits, HeldApart
  <2>3. (\E i \in R : R = {i} /\ S = {}) \/ (\E j \in S : S = {j} /\ R = {})
    BY <1>4, <2>1, <2>2 DEF Waits, InWaitHeld
  <2> HIDE DEF R, S
  <2>4. ASSUME NEW i \in R, R = {i}, S = {} PROVE Holders(t) = {<<"recv", i>>}
    BY <1>1, <2>4
  <2>5. ASSUME NEW j \in S, S = {j}, R = {} PROVE Holders(t) = {<<"select", j>>}
    BY <1>1, <2>5
  <2>6. \E x : Holders(t) = {x}
    BY <2>3, <2>4, <2>5
  <2> QED
    BY <1>4, <2>6, FS_Singleton
<1>5. CASE t \notin waiting
  <2>1. R = {} /\ S = {}
    BY <1>2, <1>3, <1>5 DEF Waits, HeldInWait
  <2> HIDE DEF R, S
  <2>2. Holders(t) = {}
    BY <1>1, <2>1
  <2> QED
    BY <1>5, <2>2, FS_EmptySet
<1> QED
  BY <1>4, <1>5

(* A task in WAIT has one holder of its request and no other task has one: *)
(* nothing is forgotten and nothing is completed twice.                    *)
THEOREM OneHolderEach == Spec => []HeldOnce
<1>1. IInv => HeldOnce
  BY OneHolder DEF IInv, HeldOnce
<1> QED
  BY <1>1, Inductive, PTL

(* The demultiplexer and the socket table agree, name by name.             *)
THEOREM Demultiplexes == Spec => []DemuxExact
<1>1. IInv => DemuxExact
  BY DEF IInv, Tables
<1> QED
  BY <1>1, Inductive, PTL

(* Until a generation could have gone round, nobody sleeps through what it *)
(* waits for.                                                              *)
THEOREM WakesAll == Spec => [](NoWrap => NobodySleeps)
<1>1. IInv => (NoWrap => NobodySleeps)
  BY DEF IInv, Waits, Drained, Selects, Quiet, NobodySleeps
<1> QED
  BY <1>1, Inductive, PTL

(* The teardown checklist leaves no parked SELECT naming what it ends.     *)
KeepsSelects ==
    \A j \in SelSlot :
       selcb[j].busy /\ selcb'[j] = selcb[j] =>
          \A d \in selcb[j].items : Resolves(d) => Resolves(d)'

LEMMA DestroyKeepsSelects ==
    ASSUME TypeOK, NEW gone \in SUBSET SockSlot, Destroy(gone)
    PROVE  KeepsSelects
<1> SUFFICES ASSUME NEW j \in SelSlot, selcb[j].busy, selcb'[j] = selcb[j],
                    NEW d \in selcb[j].items, Resolves(d)
             PROVE  Resolves(d)'
  BY DEF KeepsSelects
<1>1. d \in Desc /\ d.id \in SockSlot
  BY Slots, Records, Pairs
<1>2. d = SockDesc(d.id)
  BY <1>1, Slots, Pairs DEF Resolves
<1>3. j \notin Watching(gone)
  BY DestroyStep
<1>4. d.id \notin gone
  BY <1>2, <1>3 DEF Watching
<1> QED
  BY <1>1, <1>4, DestroyStep DEF Resolves

LEMMA SocketsKeepSelects ==
    ASSUME TypeOK,
           \A i \in SockSlot : socktab'[i].gen = socktab[i].gen /\ (Live(i) => Live(i)')
    PROVE  KeepsSelects
<1> SUFFICES ASSUME NEW j \in SelSlot, NEW d \in selcb[j].items, Resolves(d)
             PROVE  Resolves(d)'
  BY DEF KeepsSelects
<1>1. d.id \in SockSlot
  BY Slots, Records, Pairs
<1> QED
  BY <1>1 DEF Resolves

(* What one step does to the sockets.                                      *)
LEMMA StepSockets ==
    ASSUME TypeOK, [Next]_vars
    PROVE  \/ \E gone \in SUBSET SockSlot : Destroy(gone)
           \/ \A i \in SockSlot : socktab'[i].gen = socktab[i].gen /\ (Live(i) => Live(i)')
<1> DEFINE Kept == \A i \in SockSlot : socktab'[i].gen = socktab[i].gen /\ (Live(i) => Live(i)')
           Ended == \E gone \in SUBSET SockSlot : Destroy(gone)
<1>1. socktab' = socktab => Kept
  BY DEF Live
<1>2. \A toks : SocketsOf(toks) \in SUBSET SockSlot
  BY DEF SocketsOf
<1>3. \A gone : EndApps(gone) => Ended
  BY <1>2 DEF EndApps
<1> HIDE DEF Kept, Ended
<1>4. ASSUME NEW t \in Task, InitApi(t) PROVE Ended
  BY <1>2, <1>4 DEF InitApi, Ended
<1>5. ASSUME NEW t \in Task, NEW tok, TermApi(t, tok) PROVE Kept \/ Ended
  BY <1>1, <1>3, <1>5 DEF TermApi, NothingDone
<1>6. ASSUME NEW t \in Task, NEW tok, Socket(t, tok) PROVE Kept
  <2>1. CASE NothingDone
    BY <1>1, <2>1 DEF NothingDone
  <2>2. CASE ~NothingDone
    <3>1. PICK i \in SockSlot : /\ ~Live(i) /\ socktab'[i].gen = socktab[i].gen
                                /\ \A h \in SockSlot \ {i} : socktab'[h] = socktab[h]
      BY <1>6, <2>2, SocketStep
    <3> QED
      BY <3>1 DEF Kept, Live
  <2> QED
    BY <2>1, <2>2
<1>7. ASSUME NEW t \in Task, NEW d \in Desc, Close(t, d) PROVE Kept \/ Ended
  <2>1. {d.id} \in SUBSET SockSlot
    BY Pairs
  <2> QED
    BY <1>1, <1>7, <2>1 DEF Close, Ended
<1>8. ASSUME NEW t \in Task, NEW d \in Desc, NEW laddr \in Addr, NEW lport \in Port \cup {0},
             Bind(t, d, laddr, lport)
      PROVE  Kept
  <2>1. \/ UNCHANGED <<socktab, pcblist>>
        \/ /\ \A i \in SockSlot : i # d.id => socktab'[i] = socktab[i]
           /\ socktab'[d.id].gen = socktab[d.id].gen /\ socktab'[d.id].state # "FREE"
    BY <1>8, BindStep
  <2> QED
    BY <1>1, <2>1 DEF Kept, Live
<1>9. ASSUME NEW t \in Task, NEW d \in Desc, NEW nonblock \in BOOLEAN, Recv(t, d, nonblock)
      PROVE  Kept
  <2>1. UNCHANGED <<socktab, waiting>> \/ Takes(d) \/ ParksOn(t, d)
    BY <1>9, RecvStep
  <2>2. Takes(d) \/ ParksOn(t, d) => RecvKeeps(d)
    BY RecvSlot
  <2> QED
    BY <1>1, <2>1, <2>2 DEF Kept, RecvKeeps, Live
<1>10. ASSUME NEW dst, NEW dport, UdpInput(dst, dport) PROVE Kept
  <2>1. PICK p \in pcblist : p.sock \in SockSlot /\ socktab' \in {Delivered(p.sock), Queued(p.sock)}
    BY <1>10, InputStep
  <2>2. /\ \A h \in SockSlot \ {p.sock} : socktab'[h] = socktab[h]
        /\ socktab'[p.sock].gen = socktab[p.sock].gen
        /\ socktab'[p.sock].state = socktab[p.sock].state
    BY <2>1, DatagramStep
  <2> QED
    BY <2>1, <2>2 DEF Kept, Live
<1>11. ASSUME NEW t \in Task, NEW items, NEW want, NEW how, Select(t, items, want, how) PROVE Kept
  BY <1>1, <1>11 DEF Select
<1>12. ASSUME NEW j \in SelSlot, SelTimeout(j) PROVE Kept
  BY <1>1, <1>12 DEF SelTimeout
<1>13. ASSUME Sweep PROVE Ended
  BY <1>3, <1>13 DEF Sweep
<1>14. ASSUME NEW a \in Space, Die(a) PROVE Kept
  BY <1>1, <1>14 DEF Die
<1>15. UNCHANGED vars => Kept
  BY <1>1 DEF vars
<1>16. Kept \/ Ended
  BY <1>4, <1>5, <1>6, <1>7, <1>8, <1>9, <1>10, <1>11, <1>12, <1>13, <1>14, <1>15, RequestTypes
     DEF Next, Request
<1> QED
  BY <1>16 DEF Kept, Ended

(* A SELECT's timer is armed exactly while the block is parked with one,   *)
(* and no socket vanishes under a SELECT that stays parked.                *)
THEOREM KeepsSelectsParked == Spec => SelectsKept
<1>1. IInv => seltmr = {j \in SelSlot : selcb[j].busy /\ selcb[j].timed}
  BY DEF IInv, Waits, TimersOK
<1>2. TypeOK /\ [Next]_vars => KeepsSelects
  BY StepSockets, DestroyKeepsSelects, SocketsKeepSelects
<1>3. IInv /\ [Next]_vars =>
        [\A j \in SelSlot : selcb[j].busy /\ selcb'[j] = selcb[j] =>
            \A d \in selcb[j].items : Resolves(d) => Resolves(d)']_vars
  BY <1>2 DEF KeepsSelects, IInv
<1> QED
  BY <1>1, <1>3, Inductive, PTL DEF Spec, SelectsKept
-----------------------------------------------------------------------------
(* Whose a socket is, and who may touch it.                                *)
Owner(i) == apptab[socktab[i].tok.idx].who

Allowed(i) == cur' = Owner(i) \/ Owner(i) \in dead

LEMMA LeftAlone ==
    ASSUME NEW i \in SockSlot, Live(i), socktab'[i] = socktab[i], TypeOK
    PROVE  ~Touched(i)
<1>1. socktab[i].rxq \in Nat
  BY Slots, Records
<1> QED
  BY <1>1 DEF Touched, Live

(* A request of an address space owns what the ownership check lets pass.  *)
LEMMA OwnerPasses ==
    ASSUME TypeOK, phase = 2, NEW t \in Task, cur' = Caller(t), NEW d, Owned(d, cur')
    PROVE  Allowed(d.id)
<1>1. cur' # NoSpace
  BY NamesAssumption DEF Caller
<1> QED
  BY <1>1 DEF Owned, Allowed, Owner

(* The checklist touches the sockets it ends and no others.                *)
LEMMA DestroyTouches ==
    ASSUME TypeOK, NEW G \in SUBSET AppSlot, Destroy(SocketsOf({AppToken(k) : k \in G})),
           NEW i \in SockSlot, Live(i), Touched(i)
    PROVE  socktab[i].tok.idx \in G
<1> DEFINE gone == SocketsOf({AppToken(k) : k \in G})
<1>1. gone \in SUBSET SockSlot
  BY DEF SocketsOf
<1>2. i \in gone
  <2> HIDE DEF gone
  <2>1. i \notin gone => socktab'[i] = socktab[i]
    BY <1>1, DestroyStep DEF gone
  <2> QED
    BY <2>1, LeftAlone
<1>3. PICK k \in G : socktab[i].tok = AppToken(k)
  BY <1>2 DEF SocketsOf
<1> QED
  BY <1>3, Slots

LEMMA OwnerSteps ==
    ASSUME TypeOK, [Next]_vars, phase = 2, NEW i \in SockSlot, Live(i), Touched(i)
    PROVE  Allowed(i)
<1> USE DEF Allowed, Owner
<1>1. socktab' # socktab
  BY LeftAlone
<1>2. ASSUME NEW t \in Task, InitApi(t) PROVE Allowed(i)
  <2>1. PICK G \in SUBSET AppSlot :
           /\ \A k \in G : apptab[k].inuse /\ apptab[k].who \in dead
           /\ Registers(G, t) /\ Destroy(SocketsOf({AppToken(k) : k \in G}))
    BY <1>2, InitApiStep
  <2> QED
    BY <2>1, DestroyTouches
<1>3. ASSUME NEW t \in Task, NEW tok \in Token, TermApi(t, tok) PROVE Allowed(i)
  <2>1. cur' = Caller(t) /\ cur' # NoSpace
    BY <1>3, NamesAssumption DEF TermApi, Dispatch, Caller
  <2>2. PICK k \in AppSlot : cur' = apptab[k].who /\ EndApps({k})
    BY <1>1, <1>3, <2>1, TermApiStep DEF NothingDone
  <2>3. Destroy(SocketsOf({AppToken(h) : h \in {k}})) /\ {k} \in SUBSET AppSlot
    BY <2>2 DEF EndApps
  <2>4. socktab[i].tok.idx \in {k}
    BY <2>3, DestroyTouches
  <2> QED
    BY <2>2, <2>4
<1>4. ASSUME NEW t \in Task, NEW tok, Socket(t, tok) PROVE Allowed(i)
  <2>1. PICK h \in SockSlot : ~Live(h) /\ \A g \in SockSlot \ {h} : socktab'[g] = socktab[g]
    BY <1>1, <1>4, SocketStep DEF NothingDone
  <2> QED
    BY <2>1, LeftAlone
<1>5. ASSUME NEW t \in Task, NEW d \in Desc, Close(t, d) PROVE Allowed(i)
  <2>1. Owned(d, cur') /\ Destroy({d.id}) /\ cur' = Caller(t)
    BY <1>1, <1>5 DEF Close, Dispatch
  <2>2. {d.id} \in SUBSET SockSlot
    BY Pairs
  <2>3. i # d.id => socktab'[i] = socktab[i]
    BY <2>1, <2>2, DestroyStep
  <2> QED
    BY <2>1, <2>3, LeftAlone, OwnerPasses
<1>6. ASSUME NEW t \in Task, NEW d \in Desc, NEW laddr \in Addr, NEW lport \in Port \cup {0},
             Bind(t, d, laddr, lport)
      PROVE  Allowed(i)
  <2>1. cur' = Caller(t) /\ Owned(d, cur') /\ \A h \in SockSlot : h # d.id => socktab'[h] = socktab[h]
    BY <1>1, <1>6, BindStep
  <2> QED
    BY <2>1, LeftAlone, OwnerPasses
<1>7. ASSUME NEW t \in Task, NEW d \in Desc, NEW nonblock \in BOOLEAN, Recv(t, d, nonblock)
      PROVE  Allowed(i)
  <2>1. cur' = Caller(t) /\ (Takes(d) \/ ParksOn(t, d))
    BY <1>1, <1>7, RecvStep
  <2>2. Owned(d, cur')
    BY <2>1 DEF Takes, ParksOn
  <2>3. \A h \in SockSlot \ {d.id} : socktab'[h] = socktab[h]
    BY <2>1, RecvSlot DEF RecvKeeps
  <2> QED
    BY <2>1, <2>2, <2>3, LeftAlone, OwnerPasses
<1>8. ASSUME NEW dst, NEW dport, UdpInput(dst, dport) PROVE Allowed(i)
  <2>1. PICK p \in pcblist : p.sock \in SockSlot /\ socktab' \in {Delivered(p.sock), Queued(p.sock)}
    BY <1>8, InputStep
  <2>2. i = p.sock
    BY <2>1, DatagramStep, LeftAlone
  <2>3. /\ socktab'[i].state = socktab[i].state
        /\ socktab'[i].laddr = socktab[i].laddr /\ socktab'[i].lport = socktab[i].lport
    BY <2>1, <2>2, DatagramStep
  <2>4. /\ socktab'[i].pend \in {socktab[i].pend, NoTask}
        /\ socktab'[i].rxq = socktab[i].rxq \/ socktab'[i].rxq = socktab[i].rxq + 1
    BY <2>1, <2>2, DatagramStep
  <2>5. socktab[i].rxq \in 0 .. RxMax
    BY Slots, Records
  <2>6. ~(socktab'[i].rxq < socktab[i].rxq)
    BY <2>4, <2>5, SizesAssumption
  <2> QED
    BY <2>3, <2>4, <2>6 DEF Touched, Live
<1>9. ASSUME NEW t \in Task, NEW items, NEW want, NEW how, Select(t, items, want, how) PROVE FALSE
  BY <1>1, <1>9 DEF Select
<1>10. ASSUME NEW j \in SelSlot, SelTimeout(j) PROVE FALSE
  BY <1>1, <1>10 DEF SelTimeout
<1>11. ASSUME Sweep PROVE Allowed(i)
  <2>1. PICK G \in SUBSET AppSlot : (\A k \in G : apptab[k].inuse /\ apptab[k].who \in dead) /\ EndApps(G)
    BY <1>11, SweepStep
  <2>2. Destroy(SocketsOf({AppToken(k) : k \in G}))
    BY <2>1 DEF EndApps
  <2> QED
    BY <2>1, <2>2, DestroyTouches
<1>12. ASSUME NEW a \in Space, Die(a) PROVE FALSE
  BY <1>1, <1>12 DEF Die
<1>13. UNCHANGED vars => FALSE
  BY <1>1 DEF vars
<1> QED
  BY <1>2, <1>3, <1>4, <1>5, <1>6, <1>7, <1>8, <1>9, <1>10, <1>11, <1>12, <1>13, RequestTypes
     DEF Next, Request

(* In phase 2 only the address space a socket belongs to names it, drains  *)
(* it, parks on it or ends it; another does so only once that one is dead. *)
THEOREM OwnersOnly == Spec => OnlyOwnerTouches
<1>1. TypeOK /\ [Next]_vars =>
        [\A i \in SockSlot :
           LET owner == apptab[socktab[i].tok.idx].who IN
           phase = 2 /\ Live(i) /\ Touched(i) => cur' = owner \/ owner \in dead]_vars
  BY OwnerSteps DEF Allowed, Owner
<1> QED
  BY <1>1, TypeCorrect, PTL DEF Spec, OnlyOwnerTouches
-----------------------------------------------------------------------------
(***************************************************************************)
(* The refinement of NsfDescSpec.  A generation goes round only after      *)
(* GenMax names; while fewer are given out, every name is a new one.       *)
(***************************************************************************)
OpenSock(i) == [desc |-> SockDesc(i), app |-> socktab[i].tok]

LEMMA MappedNames ==
    /\ OpenSocks = {OpenSock(i) : i \in {i \in SockSlot : Live(i)}}
    /\ Issued = {d \in Desc : Past(d)}
    /\ Issued' = {d \in Desc : Past(d)'}
BY DEF OpenSocks, OpenSock, Issued, Past

LEMMA SocketsSame ==
    ASSUME \A i \in SockSlot : /\ socktab'[i].gen = socktab[i].gen /\ socktab'[i].tok = socktab[i].tok
                               /\ Live(i)' <=> Live(i)
    PROVE  OpenSocks' = OpenSocks /\ Issued' = Issued
<1>1. \A i \in SockSlot : OpenSock(i)' = OpenSock(i)
  BY DEF OpenSock, SockDesc
<1>2. OpenSocks' = OpenSocks
  BY <1>1 DEF OpenSocks, OpenSock
<1>3. \A d \in Desc : Past(d)' <=> Past(d)
  BY Pairs DEF Past, Resolves
<1> QED
  BY <1>2, <1>3, MappedNames

LEMMA TokensSame ==
    ASSUME apptab' = apptab
    PROVE  /\ \A tok : AppKnown(tok)' <=> AppKnown(tok)
           /\ {AppToken(k) : k \in {k \in AppSlot : apptab[k].inuse}}' =
                {AppToken(k) : k \in {k \in AppSlot : apptab[k].inuse}}
           /\ IssuedTokens' = IssuedTokens
BY DEF IssuedTokens, AppKnown, AppToken

(* Destroying sockets gives out no descriptor and takes none back.         *)
LEMMA DestroyNames ==
    ASSUME TypeOK, TypeOK', NEW gone \in SUBSET SockSlot, Destroy(gone),
           \A i \in gone : Live(i) /\ socktab[i].gen < GenMax
    PROVE  /\ Issued' = Issued
           /\ OpenSocks' = {OpenSock(i) : i \in {i \in SockSlot : Live(i)} \ gone}
<1>1. ASSUME NEW d \in Desc PROVE Past(d)' <=> Past(d)
  <2>1. d.id \in SockSlot /\ d.gen \in Nat /\ socktab[d.id].gen \in Nat
    BY Pairs, Slots, Records
  <2>2. CASE d.id \in gone
    <3>1. socktab'[d.id].gen = socktab[d.id].gen + 1 /\ ~Live(d.id)' /\ Live(d.id)
      BY <2>1, <2>2, DestroyStep, Records, Slots
    <3> QED
      BY <2>1, <3>1 DEF Past, Resolves
  <2>3. CASE d.id \notin gone
    <3>1. socktab'[d.id] = socktab[d.id] /\ (Live(d.id)' <=> Live(d.id))
      BY <2>1, <2>3, DestroyStep
    <3> QED
      BY <3>1 DEF Past, Resolves
  <2> QED
    BY <2>2, <2>3
<1>2. \A i \in SockSlot : Live(i)' <=> (Live(i) /\ i \notin gone)
  BY DestroyStep
<1>3. \A i \in SockSlot \ gone : OpenSock(i)' = OpenSock(i)
  BY DestroyStep DEF OpenSock, SockDesc
<1>4. OpenSocks' = {OpenSock(i)' : i \in {i \in SockSlot : Live(i)'}}
  BY DEF OpenSocks, OpenSock
<1>5. {i \in SockSlot : Live(i)'} = {i \in SockSlot : Live(i)} \ gone
  BY <1>2
<1>6. OpenSocks' = {OpenSock(i) : i \in {i \in SockSlot : Live(i)} \ gone}
  BY <1>3, <1>4, <1>5
<1> QED
  BY <1>1, <1>6, MappedNames

(* Distinct sockets have distinct names.                                   *)
LEMMA Apart ==
    ASSUME TypeOK
    PROVE  \A h, i \in SockSlot : /\ OpenSock(h) = OpenSock(i) => h = i
                                  /\ OpenSock(i).app = socktab[i].tok
<1>1. \A h, i \in SockSlot : SockDesc(h) = SockDesc(i) => h = i
  BY Slots
<1> QED
  BY <1>1 DEF OpenSock

LEMMA CloseNames ==
    ASSUME TypeOK, TypeOK', NEW i \in SockSlot, Live(i), socktab[i].gen < GenMax,
           Destroy({i}), apptab' = apptab
    PROVE  Names_!Next
<1>1. Issued' = Issued /\ OpenSocks' = {OpenSock(h) : h \in {h \in SockSlot : Live(h)} \ {i}}
  BY DestroyNames
<1>2. OpenSock(i) \in OpenSocks /\ OpenSocks' = OpenSocks \ {OpenSock(i)}
  BY <1>1, Apart, MappedNames
<1>3. Names_!Close(OpenSock(i))
  BY <1>1, <1>2, TokensSame DEF Names_!Close
<1> QED
  BY <1>2, <1>3 DEF Names_!Next

LEMMA OpenNames ==
    ASSUME TypeOK, TypeOK', NEW t \in Task, NEW tok, Socket(t, tok), ~NothingDone
    PROVE  Names_!Next
<1>1. apptab' = apptab
  BY SocketStep
<1>2. PICK i \in SockSlot, token \in Token :
         /\ ~Live(i) /\ Live(i)' /\ AppKnown(token)
         /\ socktab'[i].tok = token /\ socktab'[i].gen = socktab[i].gen
         /\ \A h \in SockSlot \ {i} : socktab'[h] = socktab[h]
  BY SocketStep
<1> DEFINE new == [desc |-> SockDesc(i), app |-> token]
<1>3. OpenSocks' = OpenSocks \cup {new}
  <2>1. OpenSock(i)' = new /\ \A h \in SockSlot \ {i} : OpenSock(h)' = OpenSock(h)
    BY <1>2 DEF OpenSock, SockDesc
  <2>2. {h \in SockSlot : Live(h)'} = {h \in SockSlot : Live(h)} \cup {i}
    BY <1>2 DEF Live
  <2>3. OpenSocks' = {OpenSock(h)' : h \in {h \in SockSlot : Live(h)'}}
    BY DEF OpenSocks, OpenSock
  <2> QED
    BY <1>2, <2>1, <2>2, <2>3, MappedNames
<1>4. \A d : d = SockDesc(i) => d \in Desc /\ ~Past(d) /\ Past(d)'
  <2>1. SockDesc(i) \in Desc /\ SockDesc(i).id = i /\ SockDesc(i).gen = socktab[i].gen
    BY Slots
  <2>2. socktab[i].gen \in Nat
    BY Slots, Records
  <2> QED
    BY <1>2, <2>1, <2>2 DEF Past, Resolves
<1>5. \A d \in Desc \ {SockDesc(i)} : Past(d)' <=> Past(d)
  <2>1. ASSUME NEW d \in Desc \ {SockDesc(i)} PROVE Past(d)' <=> Past(d)
    <3>1. d.id \in SockSlot /\ socktab'[d.id].gen = socktab[d.id].gen
      BY <1>2, Pairs
    <3>2. Resolves(d)' <=> Resolves(d)
      <4>1. CASE d.id = i
        <5>1. d.gen # socktab[i].gen
          BY <4>1, Slots, Pairs
        <5> QED
          BY <3>1, <4>1, <5>1 DEF Resolves
      <4>2. CASE d.id # i
        BY <1>2, <3>1, <4>2 DEF Resolves, Live
      <4> QED
        BY <4>1, <4>2
    <3> QED
      BY <3>1, <3>2 DEF Past
  <2> QED
    BY <2>1
<1>6. SockDesc(i) \notin Issued /\ Issued' = Issued \cup {SockDesc(i)}
  BY <1>4, <1>5, MappedNames
<1>7. token \in {AppToken(k) : k \in {k \in AppSlot : apptab[k].inuse}}
  BY <1>2 DEF AppKnown
<1>8. Names_!Open(SockDesc(i), token)
  BY <1>1, <1>3, <1>6, TokensSame DEF Names_!Open
<1> QED
  BY <1>4, <1>7, <1>8 DEF Names_!Next

Known_ == {AppToken(k) : k \in {k \in AppSlot : apptab[k].inuse}}

TokenPast(k) == k.gen < apptab[k.idx].gen \/ AppKnown(k)

LEMMA MappedTokens ==
    /\ \A tok : AppKnown(tok) <=> tok \in Known_
    /\ \A tok : AppKnown(tok)' <=> tok \in Known_'
    /\ IssuedTokens = {k \in Token : TokenPast(k)}
    /\ IssuedTokens' = {k \in Token : TokenPast(k)'}
BY DEF AppKnown, Known_, IssuedTokens, TokenPast

(* What the applications that end take with them, and a new one brings.    *)
LEMMA EndNames ==
    ASSUME TypeOK, TypeOK', Tables, opens < GenMax, NEW G \in SUBSET AppSlot, NEW t,
           \A k \in G : apptab[k].inuse, opens' < GenMax,
           Registers(G, t), Destroy(SocketsOf({AppToken(k) : k \in G}))
    PROVE  Names_!Next
<1>0. PICK gone : gone = {AppToken(k) : k \in G}
  OBVIOUS
<1> DEFINE ended == SocketsOf(gone)
<1>1. gone \in SUBSET Known_
  BY <1>0 DEF Known_
<1>2. ended \in SUBSET SockSlot /\ \A i \in ended : Live(i) /\ socktab[i].gen < GenMax
  <2>1. \A i \in SockSlot : Live(i) => socktab[i].gen <= opens
    BY DEF Tables, GenOK
  <2>2. \A i \in SockSlot : socktab[i].gen \in Nat
    BY Slots, Records
  <2> QED
    BY <2>1, <2>2, SizesAssumption DEF SocketsOf, TypeOK
<1>3. Issued' = Issued /\ OpenSocks' = {OpenSock(i) : i \in {i \in SockSlot : Live(i)} \ ended}
  <2> HIDE DEF ended
  <2> QED
    BY <1>0, <1>2, DestroyNames DEF ended
<1>4. OpenSocks' = {s \in OpenSocks : s.app \notin gone}
  <2>1. {i \in SockSlot : Live(i)} \ ended = {i \in SockSlot : Live(i) /\ socktab[i].tok \notin gone}
    BY DEF SocketsOf
  <2> HIDE DEF ended
  <2> QED
    BY <1>3, <2>1, Apart, MappedNames
<1>5. \A k \in AppSlot : /\ apptab[k].gen \in Nat
                         /\ k \in G => NextGen(apptab[k].gen) = apptab[k].gen + 1
  <2>1. \A k \in G : apptab[k].gen <= opens
    BY DEF Tables, GenOK
  <2>2. \A k \in AppSlot : apptab[k].gen \in 1 .. GenMax
    BY Slots, Records
  <2>3. \A k \in G : apptab[k].gen < GenMax
    BY <2>1, <2>2, SizesAssumption DEF TypeOK
  <2> QED
    BY <2>2, <2>3, Records
<1>6. CASE opens' = opens
  <2>1. \A k \in AppSlot :
           /\ k \in G => apptab'[k].gen = apptab[k].gen + 1 /\ ~apptab'[k].inuse
           /\ k \notin G => apptab'[k] = apptab[k]
    <3>1. \A g : FreeApp(g).gen = g /\ ~FreeApp(g).inuse
      BY DEF FreeApp
    <3>2. opens' # opens + 1
      BY <1>6 DEF TypeOK
    <3> QED
      BY <1>5, <3>1, <3>2, RegistersStep
  <2>2. \A tok \in Token : /\ AppKnown(tok)' <=> (AppKnown(tok) /\ tok \notin gone)
                           /\ TokenPast(tok)' <=> TokenPast(tok)
    <3>1. ASSUME NEW tok \in Token
          PROVE  /\ AppKnown(tok)' <=> (AppKnown(tok) /\ tok \notin gone)
                 /\ TokenPast(tok)' <=> TokenPast(tok)
      <4>1. tok.idx \in AppSlot /\ tok.gen \in Nat
        BY Pairs
      <4>2. CASE tok.idx \in G
        <5>1. ~AppKnown(tok)' /\ apptab'[tok.idx].gen = apptab[tok.idx].gen + 1
          BY <2>1, <4>2, KnownNext
        <5>2. AppKnown(tok) <=> tok.gen = apptab[tok.idx].gen
          BY <4>1, <4>2, Known, Slots, Pairs
        <5>3. AppKnown(tok) => tok \in gone
          BY <1>0, <4>2, Known
        <5> QED
          BY <1>5, <4>1, <5>1, <5>2, <5>3 DEF TokenPast
      <4>3. CASE tok.idx \notin G
        <5>1. apptab'[tok.idx] = apptab[tok.idx]
          BY <2>1, <4>1, <4>3
        <5>2. tok \notin gone
          BY <1>0, <4>3, Slots
        <5> QED
          BY <5>1, <5>2, KnownStays DEF TokenPast
      <4> QED
        BY <4>2, <4>3
    <3> QED
      BY <3>1
  <2> HIDE DEF ended
  <2>3. Known_' = Known_ \ gone
    BY <2>2, MappedTokens, Known, KnownNext
  <2>4. IssuedTokens' = IssuedTokens
    BY <2>2, MappedTokens
  <2>5. Names_!End(gone)
    BY <1>3, <1>4, <2>3, <2>4 DEF Names_!End, Names_!Without, Known_
  <2>6. \E S \in SUBSET Known_ : Names_!End(S)
    BY <1>1, <2>5, Zenon
  <2> QED
    BY <2>6, Zenon DEF Names_!Next, Known_
<1>7. CASE opens' = opens + 1
  <2>1. PICK k \in AppSlot :
           /\ k \in G \/ ~apptab[k].inuse
           /\ apptab'[k].inuse
           /\ apptab'[k].gen = IF k \in G THEN apptab[k].gen + 1 ELSE apptab[k].gen
           /\ \A j \in AppSlot \ {k} :
                 /\ j \in G => apptab'[j].gen = apptab[j].gen + 1 /\ ~apptab'[j].inuse
                 /\ j \notin G => apptab'[j] = apptab[j]
    <3>1. \A g : FreeApp(g).gen = g /\ ~FreeApp(g).inuse
      BY DEF FreeApp
    <3>2. opens' # opens
      BY <1>7 DEF TypeOK
    <3> QED
      BY <1>5, <3>1, <3>2, RegistersStep
  <2> DEFINE Is(x) == x.idx = k /\ x.gen = apptab'[k].gen
  <2>2. PICK new \in Token : Is(new)
    <3>1. apptab'[k].gen \in 1 .. GenMax
      BY SlotsNext, Records
    <3>2. \A g \in 1 .. GenMax : [idx |-> k, gen |-> g] \in Token /\ [idx |-> k, gen |-> g].idx = k
                                /\ [idx |-> k, gen |-> g].gen = g
      BY Pairs
    <3> QED
      BY <3>1, <3>2
  <2>3. AppKnown(new)' /\ \A tok : AppKnown(tok)' /\ tok.idx = k => tok = new
    BY <2>1, <2>2, KnownNext, SlotsNext, Pairs
  <2>4. ~TokenPast(new)
    <3>1. AppKnown(new) => new.gen = apptab[k].gen /\ apptab[k].inuse
      BY <2>2, Known, Slots
    <3>2. new.gen = apptab[k].gen \/ (k \in G /\ new.gen = apptab[k].gen + 1)
      BY <2>1, <2>2
    <3>3. ~(new.gen < apptab[k].gen)
      BY <1>5, <3>2
    <3>4. k \in G => new.gen = apptab[k].gen + 1
      BY <2>1, <2>2
    <3>5. ~AppKnown(new)
      BY <1>5, <2>1, <3>1, <3>4
    <3> QED
      BY <2>2, <3>3, <3>5 DEF TokenPast
  <2>5. \A tok \in Token \ {new} : /\ AppKnown(tok)' <=> (AppKnown(tok) /\ tok \notin gone)
                                   /\ TokenPast(tok)' <=> TokenPast(tok)
    <3>1. ASSUME NEW tok \in Token \ {new}
          PROVE  /\ AppKnown(tok)' <=> (AppKnown(tok) /\ tok \notin gone)
                 /\ TokenPast(tok)' <=> TokenPast(tok)
      <4>1. tok.idx \in AppSlot /\ tok.gen \in Nat
        BY Pairs
      <4>2. CASE tok.idx \in G
        <5>1. ~AppKnown(tok)' /\ apptab'[tok.idx].gen = apptab[tok.idx].gen + 1
          BY <2>1, <2>3, <4>2, KnownNext
        <5>2. AppKnown(tok) <=> tok.gen = apptab[tok.idx].gen
          BY <4>1, <4>2, Known, Slots, Pairs
        <5>3. AppKnown(tok) => tok \in gone
          BY <1>0, <4>2, Known
        <5> QED
          BY <1>5, <4>1, <5>1, <5>2, <5>3 DEF TokenPast
      <4>3. CASE tok.idx \notin G /\ tok.idx # k
        <5>1. apptab'[tok.idx] = apptab[tok.idx]
          BY <2>1, <4>1, <4>3
        <5>2. tok \notin gone
          BY <1>0, <4>3, Slots
        <5> QED
          BY <5>1, <5>2, KnownStays DEF TokenPast
      <4>4. CASE tok.idx \notin G /\ tok.idx = k
        <5>1. ~AppKnown(tok)' /\ ~AppKnown(tok)
          BY <2>1, <2>3, <4>4, Known
        <5>2. apptab'[tok.idx].gen = apptab[tok.idx].gen
          BY <2>1, <4>4
        <5> QED
          BY <5>1, <5>2 DEF TokenPast
      <4> QED
        BY <4>2, <4>3, <4>4
    <3> QED
      BY <3>1
  <2>6. new \notin Known_
    BY <2>4, MappedTokens DEF TokenPast
  <2>7. TokenPast(new)'
    BY <2>3 DEF TokenPast
  <2> HIDE DEF ended
  <2>8. Known_' = (Known_ \ gone) \cup {new}
    BY <2>3, <2>5, <2>6, MappedTokens, Known, KnownNext
  <2>9. IssuedTokens' = IssuedTokens \cup {new} /\ new \notin IssuedTokens
    BY <2>4, <2>5, <2>7, MappedTokens
  <2>10. Names_!Register(new, gone)
    BY <1>3, <1>4, <2>8, <2>9 DEF Names_!Register, Names_!Without, Known_
  <2>11. \E x \in Token, S \in SUBSET Known_ : Names_!Register(x, S)
    BY <1>1, <2>10, Zenon
  <2> QED
    BY <2>11, Zenon DEF Names_!Next, Known_
<1>8. opens' = opens \/ opens' = opens + 1
  BY RegistersStep
<1> QED
  BY <1>6, <1>7, <1>8

LEMMA StepNames ==
    ASSUME OpenMax \in Nat, OpenMax < GenMax, IInv, IInv', opens <= OpenMax, opens' <= OpenMax,
           [Next]_vars
    PROVE  Names_!Next \/ UNCHANGED Names_!vars
<1> DEFINE Same == UNCHANGED Names_!vars
<1>1. TypeOK /\ TypeOK' /\ Tables /\ opens < GenMax /\ opens' < GenMax
  BY SizesAssumption DEF IInv, TypeOK
<1>2. ASSUME apptab' = apptab,
             \A i \in SockSlot : /\ socktab'[i].gen = socktab[i].gen
                                 /\ socktab'[i].tok = socktab[i].tok /\ (Live(i)' <=> Live(i))
      PROVE  Same
  <2>1. OpenSocks' = OpenSocks /\ Issued' = Issued
    BY <1>2, SocketsSame
  <2> QED
    BY <1>2, <2>1, TokensSame DEF Names_!vars
<1>3. apptab' = apptab /\ socktab' = socktab => Same
  BY <1>2 DEF Live
<1>4. \A i \in SockSlot : Live(i) => socktab[i].gen < GenMax
  <2>1. \A i \in SockSlot : Live(i) => socktab[i].gen <= opens
    BY <1>1 DEF Tables, GenOK
  <2>2. \A i \in SockSlot : socktab[i].gen \in Nat
    BY <1>1, Slots, Records
  <2> QED
    BY <1>1, <2>1, <2>2, SizesAssumption DEF TypeOK
<1> HIDE DEF Same
<1>5. ASSUME NEW t \in Task, InitApi(t) PROVE Names_!Next
  BY <1>1, <1>5, InitApiStep, EndNames
<1>6. ASSUME NEW t \in Task, NEW tok \in Token, TermApi(t, tok) PROVE Names_!Next \/ Same
  <2>1. CASE NothingDone
    BY <1>3, <2>1 DEF NothingDone
  <2>2. ASSUME NEW k \in AppSlot, apptab[k].inuse, EndApps({k}), opens' = opens PROVE Names_!Next
    <3>1. Registers({k}, t) /\ Destroy(SocketsOf({AppToken(h) : h \in {k}}))
      BY <1>1, <2>2, EndAppsStep
    <3> QED
      BY <1>1, <2>2, <3>1, EndNames
  <2> QED
    BY <1>1, <1>6, <2>1, <2>2, TermApiStep
<1>7. ASSUME NEW t \in Task, NEW tok, Socket(t, tok) PROVE Names_!Next \/ Same
  <2>1. NothingDone => Same
    BY <1>3 DEF NothingDone
  <2> QED
    BY <1>1, <1>7, <2>1, OpenNames
<1>8. ASSUME NEW t \in Task, NEW d \in Desc, Close(t, d) PROVE Names_!Next \/ Same
  <2>1. apptab' = apptab
    BY <1>8 DEF Close
  <2>2. socktab' = socktab \/ (d.id \in SockSlot /\ Live(d.id) /\ Destroy({d.id}))
    BY <1>8, Pairs DEF Close, Owned, Resolves
  <2> QED
    BY <1>1, <1>3, <1>4, <2>1, <2>2, CloseNames
<1>9. ASSUME NEW t \in Task, NEW d \in Desc, NEW laddr \in Addr, NEW lport \in Port \cup {0},
             Bind(t, d, laddr, lport)
      PROVE  Same
  <2>1. apptab' = apptab
    BY <1>9 DEF Bind
  <2>2. CASE socktab' # socktab
    <3>1. /\ Owned(d, cur') /\ socktab'[d.id].state # "FREE"
          /\ \A i \in SockSlot : i # d.id => socktab'[i] = socktab[i]
          /\ socktab'[d.id].gen = socktab[d.id].gen /\ socktab'[d.id].tok = socktab[d.id].tok
      BY <1>1, <1>9, <2>2, BindStep
    <3> QED
      BY <1>2, <2>1, <3>1 DEF Owned, Resolves, Live
  <2> QED
    BY <1>3, <2>1, <2>2
<1>10. ASSUME NEW t \in Task, NEW d \in Desc, NEW nonblock \in BOOLEAN, Recv(t, d, nonblock)
       PROVE  Same
  <2>1. apptab' = apptab /\ (socktab' = socktab \/ Takes(d) \/ ParksOn(t, d))
    BY <1>1, <1>10, RecvStep
  <2>2. Takes(d) \/ ParksOn(t, d) => RecvKeeps(d)
    BY <1>1, RecvSlot
  <2>3. RecvKeeps(d) => Same
    BY <1>2, <2>1 DEF RecvKeeps, Live
  <2> QED
    BY <1>3, <2>1, <2>2, <2>3
<1>11. ASSUME NEW dst, NEW dport, UdpInput(dst, dport) PROVE Same
  <2>1. PICK p \in pcblist : p.sock \in SockSlot /\ socktab' \in {Delivered(p.sock), Queued(p.sock)}
    BY <1>1, <1>11, InputStep
  <2>2. /\ \A h \in SockSlot \ {p.sock} : socktab'[h] = socktab[h]
        /\ socktab'[p.sock].gen = socktab[p.sock].gen /\ socktab'[p.sock].tok = socktab[p.sock].tok
        /\ socktab'[p.sock].state = socktab[p.sock].state
    BY <1>1, <2>1, DatagramStep
  <2>3. apptab' = apptab
    BY <1>11 DEF UdpInput
  <2> QED
    BY <1>2, <2>1, <2>2, <2>3 DEF Live
<1>12. ASSUME NEW t \in Task, NEW items, NEW want, NEW how, Select(t, items, want, how) PROVE Same
  BY <1>3, <1>12 DEF Select
<1>13. ASSUME NEW j \in SelSlot, SelTimeout(j) PROVE Same
  BY <1>3, <1>13 DEF SelTimeout
<1>14. ASSUME Sweep PROVE Names_!Next
  <2>1. PICK G \in SUBSET AppSlot : /\ \A k \in G : apptab[k].inuse /\ apptab[k].who \in dead
                                    /\ EndApps(G) /\ opens' = opens
    BY <1>1, <1>14, SweepStep
  <2>2. Registers(G, NoTask) /\ Destroy(SocketsOf({AppToken(k) : k \in G}))
    BY <1>1, <2>1, EndAppsStep
  <2> QED
    BY <1>1, <2>1, <2>2, EndNames
<1>15. ASSUME NEW a \in Space, Die(a) PROVE Same
  BY <1>3, <1>15 DEF Die
<1>16. UNCHANGED vars => Same
  BY <1>3 DEF vars
<1>17. Names_!Next \/ Same
  BY <1>5, <1>6, <1>7, <1>8, <1>9, <1>10, <1>11, <1>12, <1>13, <1>14, <1>15, <1>16, RequestTypes
     DEF Next, Request
<1> QED
  BY <1>17 DEF Same

LEMMA InitNames == Init => Names_!Init
<1> SUFFICES ASSUME Init PROVE Names_!Init
  OBVIOUS
<1>1. TypeOK
  BY InitType
<1>2. /\ \A g : Vacant(g).gen = g /\ Vacant(g).state = "FREE"
      /\ \A g : FreeApp(g).gen = g /\ ~FreeApp(g).inuse
  BY DEF Vacant, FreeApp
<1>3. /\ \A i \in SockSlot : socktab[i].gen = 1 /\ ~Live(i)
      /\ \A k \in AppSlot : apptab[k].gen = 1 /\ ~apptab[k].inuse
  BY <1>2 DEF Init, Live
<1>4. OpenSocks = {} /\ Known_ = {}
  BY <1>3 DEF OpenSocks, Known_
<1>5. Issued = {}
  <2>1. \A d \in Desc : ~Past(d)
    BY <1>3, Pairs DEF Past, Resolves
  <2> QED
    BY <2>1, MappedNames
<1>6. IssuedTokens = {}
  <2>1. \A tok \in Token : ~TokenPast(tok)
    BY <1>1, <1>3, Pairs, Known DEF TokenPast
  <2> QED
    BY <2>1, MappedTokens
<1> QED
  BY <1>4, <1>5, <1>6 DEF Names_!Init, Known_

OpensOK == opens <= OpenMax

LEMMA OpensBounded == ASSUME OpenMax \in Nat PROVE Spec => []OpensOK
<1>1. Init => OpensOK
  BY DEF Init, OpensOK
<1>2. TypeOK /\ OpensOK /\ [Next]_vars => OpensOK'
  <2> SUFFICES ASSUME TypeOK, OpensOK, [Next]_vars PROVE OpensOK'
    OBVIOUS
  <2> DEFINE Step == opens' = opens \/ (opens < OpenMax /\ opens' = opens + 1)
  <2>1. NothingDone => Step
    BY DEF NothingDone
  <2>2. \A t : InitApi(t) => Step
    BY DEF InitApi
  <2>3. \A t, tok : TermApi(t, tok) => Step
    BY DEF TermApi
  <2>4. \A t, tok : Socket(t, tok) => Step
    BY <2>1 DEF Socket
  <2>5. /\ \A t, d : Close(t, d) => Step
        /\ \A t, d, laddr, lport : Bind(t, d, laddr, lport) => Step
        /\ \A t, d, nonblock : Recv(t, d, nonblock) => Step
    BY DEF Close, Bind, Recv, OnlySockets
  <2>6. /\ \A dst, dport : UdpInput(dst, dport) => Step
        /\ \A t, items, want, how : Select(t, items, want, how) => Step
        /\ \A j : SelTimeout(j) => Step
    BY DEF UdpInput, Select, SelTimeout
  <2>7. (Sweep => Step) /\ (\A a : Die(a) => Step) /\ (UNCHANGED vars => Step)
    BY DEF Sweep, Die, vars
  <2> HIDE DEF Step
  <2>8. Step
    BY <2>2, <2>3, <2>4, <2>5, <2>6, <2>7 DEF Next, Request
  <2> QED
    BY <2>8 DEF Step, OpensOK, TypeOK
<1> QED
  BY <1>1, <1>2, TypeCorrect, PTL DEF Spec

(* A token and a descriptor are given out once, every open socket belongs  *)
(* to a registered application, and an application ends together with all  *)
(* its sockets -- as long as no generation can have gone round.            *)
THEOREM Refines ==
    ASSUME OpenMax \in Nat, OpenMax < GenMax PROVE Spec => KeepsDescriptors
<1>1. IInv /\ IInv' /\ OpensOK /\ OpensOK' /\ [Next]_vars =>
        [Names_!Next]_(Names_!vars)
  BY StepNames DEF OpensOK
<1>2. Spec => []OpensOK
  BY OpensBounded
<1> QED
  BY <1>1, <1>2, InitNames, Inductive, PTL DEF Spec, KeepsDescriptors, Names_!Spec
=============================================================================

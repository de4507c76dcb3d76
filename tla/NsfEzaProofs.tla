---------------------------- MODULE NsfEzaProofs ----------------------------
(***************************************************************************)
(* Proofs about NsfEza: its type invariant and the three safety            *)
(* invariants of its table of socket numbers, from one inductive           *)
(* invariant.                                                              *)
(***************************************************************************)
EXTENDS NsfEza, TLAPS

(***************************************************************************)
(* The inductive invariant.  While no generation has gone round: a slot's  *)
(* generation tells how often it was used; a live socket is somebody's and *)
(* a queued connection hangs under a listener of the same application; a   *)
(* registration outlives the stack only in its program's memory; a number  *)
(* of a standing registration names an open socket of it or one that is    *)
(* gone; and a parked call stands on such a number.                        *)
(***************************************************************************)
GenOK ==
    /\ \A i \in SockSlot : socktab[i].gen <= IF Live(i) THEN opens ELSE opens + 1
    /\ \A k \in AppSlot :
          apptab[k].gen <= IF apptab[k].who # NoSpace THEN opens ELSE opens + 1

OwnersOK == \A i \in SockSlot : Live(i) => \E a \in Space : Holds(socktab[i].tok, a)

QueuesOK ==
    \A c \in SockSlot :
       socktab[c].st = "QUEUED" => /\ socktab[socktab[c].lis].st = "LISTEN"
                                   /\ socktab[socktab[c].lis].tok = socktab[c].tok

StaleOK ==
    \A a \in Space :
       /\ g_apptok[a] = NoToken => InUse(a) = {}
       /\ g_apptok[a] # NoToken =>
             Holds(g_apptok[a], a) \/ \A k \in AppSlot : apptab[k].who # a
       /\ \A s \in InUse(a) : s < g_maxsoc[a]

OneToOne ==
    \A a \in Space : \A s, t \in InUse(a) : g_sockmap[a][t] = g_sockmap[a][s] => t = s

OpenTo(d, a) ==
    /\ d.gen = socktab[d.id].gen /\ socktab[d.id].tok = g_apptok[a]
    /\ socktab[d.id].st \in {"OPEN", "LISTEN"}

MappedOK ==
    \A a \in Space : \A s \in InUse(a) :
       Holds(g_apptok[a], a) =>
          \/ g_sockmap[a][s].gen < socktab[g_sockmap[a][s].id].gen
          \/ OpenTo(g_sockmap[a][s], a)

Named(i, a) ==
    \/ \E s \in Number : g_sockmap[a][s] = SockDesc(i)
    \/ SockDesc(i) \in unsent
    \/ socktab[i].gen >= SignGen

OrphansOK ==
    \A a \in Space, i \in SockSlot :
       /\ Holds(g_apptok[a], a) /\ socktab[i].tok = g_apptok[a]
       /\ socktab[i].st \in {"OPEN", "LISTEN"}
       => Named(i, a)

ParkedOK ==
    \A a \in Space :
       Parked(a) => /\ up /\ call[a].s \in InUse(a) /\ Holds(g_apptok[a], a)
                    /\ OpenTo(g_sockmap[a][call[a].s], a)
                    /\ call[a].do = "accept" =>
                          /\ call[a].n \in FreeNumbers(a)
                          /\ socktab[g_sockmap[a][call[a].s].id].st = "LISTEN"

TableInv ==
    /\ GenOK /\ OwnersOK /\ QueuesOK /\ StaleOK
    /\ OneToOne /\ MappedOK /\ OrphansOK /\ ParkedOK

IInv == TypeOK /\ (NoWrap => TableInv)
-----------------------------------------------------------------------------
(* What the types say of the records of the stack and of a call.           *)
LEMMA Records ==
    /\ 0 \in SockSlot /\ 0 \in Number /\ SockSlot = Number /\ 1 \in Gen /\ 0 \in 0 .. SockMax
    /\ \A g \in Gen : NextGen(g) \in Gen /\ Vacant(g) \in Sock /\ FreeApp(g) \in App
    /\ Idle \in Call
    /\ \A s \in Sock : /\ s.gen \in Gen /\ s.tok \in Token \cup {NoToken} /\ s.lis \in SockSlot
                       /\ \A t \in Token \cup {NoToken}, i \in SockSlot :
                             /\ [s EXCEPT !.st = "OPEN", !.tok = t] \in Sock
                             /\ [s EXCEPT !.st = "OPEN", !.lis = 0] \in Sock
                             /\ [s EXCEPT !.st = "QUEUED", !.tok = t, !.lis = i] \in Sock
                       /\ [s EXCEPT !.st = "LISTEN"] \in Sock
                       /\ [s EXCEPT !.st = "CLOSING"] \in Sock
    /\ \A r \in App : /\ r.gen \in Gen
                      /\ \A a \in Space : [r EXCEPT !.who = a] \in App
<1> USE SizesAssumption DEF AppSlot, SockSlot, Number, Gen
<1>1. 0 \in SockSlot /\ 0 \in Number /\ SockSlot = Number /\ 1 \in Gen /\ 0 \in 0 .. SockMax
  OBVIOUS
<1>2. \A g \in Gen : NextGen(g) \in Gen
  BY DEF NextGen
<1> HIDE SizesAssumption DEF Gen, SockSlot, Number
<1>3. \A g \in Gen : Vacant(g) \in Sock /\ FreeApp(g) \in App
  BY <1>1 DEF Vacant, FreeApp, Sock, App
<1>4. Idle \in Call
  BY <1>1 DEF Idle, Doing, Call
<1>5. \A s \in Sock : /\ s.gen \in Gen /\ s.tok \in Token \cup {NoToken} /\ s.lis \in SockSlot
                      /\ \A t \in Token \cup {NoToken}, i \in SockSlot :
                             /\ [s EXCEPT !.st = "OPEN", !.tok = t] \in Sock
                             /\ [s EXCEPT !.st = "OPEN", !.lis = 0] \in Sock
                             /\ [s EXCEPT !.st = "QUEUED", !.tok = t, !.lis = i] \in Sock
                      /\ [s EXCEPT !.st = "LISTEN"] \in Sock
                      /\ [s EXCEPT !.st = "CLOSING"] \in Sock
  BY <1>1 DEF Sock
<1>6. \A r \in App : /\ r.gen \in Gen
                     /\ \A a \in Space : [r EXCEPT !.who = a] \in App
  BY DEF App
<1> QED
  BY <1>1, <1>2, <1>3, <1>4, <1>5, <1>6

LEMMA Names ==
    /\ NoDesc \notin Desc /\ NoToken \notin Token
    /\ \A d \in Desc : d.id \in SockSlot /\ d.gen \in Gen
    /\ \A d, e \in Desc : d.id = e.id /\ d.gen = e.gen => d = e
    /\ \A t \in Token : t.idx \in AppSlot /\ t.gen \in Gen
    /\ \A t, u \in Token : t.idx = u.idx /\ t.gen = u.gen => t = u
    /\ \A i \in SockSlot, g \in Gen : [id |-> i, gen |-> g] \in Desc
    /\ \A k \in AppSlot, g \in Gen : [idx |-> k, gen |-> g] \in Token
BY DEF NoDesc, NoToken, Desc, Token, Gen

LEMMA VacatedType ==
    ASSUME socktab \in [SockSlot -> Sock], NEW gone
    PROVE  /\ Vacated(gone) \in [SockSlot -> Sock]
           /\ \A i \in SockSlot : 
                /\ i \in gone => Vacated(gone)[i] = Vacant(NextGen(socktab[i].gen))
                /\ i \notin gone => Vacated(gone)[i] = socktab[i]
BY Records DEF Vacated

LEMMA InitIInv == Init => IInv
<1> SUFFICES ASSUME Init PROVE IInv
  OBVIOUS
<1>1. TypeOK
  <2>1. StackType
    BY Records DEF Init, StackType
  <2>2. TableType
    BY Records DEF Init, TableType
  <2>3. call \in [Space -> Call]
    BY Records DEF Init
  <2> QED
    BY <2>1, <2>2, <2>3 DEF TypeOK
<1>2. GenOK
  BY DEF Init, GenOK, FreeApp, Vacant, Live
<1>3. OwnersOK /\ QueuesOK
  BY DEF Init, OwnersOK, QueuesOK, Vacant, Live
<1>4. StaleOK /\ OneToOne /\ MappedOK /\ OrphansOK
  BY DEF Init, StaleOK, OneToOne, MappedOK, OrphansOK, InUse, Holds
<1>5. ParkedOK
  BY DEF Init, ParkedOK, Parked, Parking, Idle, Doing
<1> QED
  BY <1>1, <1>2, <1>3, <1>4, <1>5 DEF IInv, TableInv

LEMMA TableUpdate ==
    ASSUME TableType, NEW a \in Space, NEW s \in Number, NEW d \in Desc \cup {NoDesc}
    PROVE  [g_sockmap EXCEPT ![a][s] = d] \in [Space -> [Number -> Desc \cup {NoDesc}]]
BY DEF TableType

LEMMA TableReset ==
    ASSUME TableType, NEW a \in Space
    PROVE  /\ [g_sockmap EXCEPT ![a] = [n \in Number |-> NoDesc]]
                 \in [Space -> [Number -> Desc \cup {NoDesc}]]
           /\ \A nb \in SUBSET Number : [g_socknb EXCEPT ![a] = nb] \in [Space -> SUBSET Number]
BY DEF TableType

LEMMA NextType == TypeOK /\ [Next]_vars => TypeOK'
<1> SUFFICES ASSUME TypeOK, [Next]_vars PROVE TypeOK'
  OBVIOUS
<1> USE DEF StackType, TableType, TypeOK
<1>1. ASSUME NEW a \in Space, NEW m \in 1 .. SockMax, NEW next \in Call, Register(a, m, next)
      PROVE  TypeOK'
  <2>2. CASE UNCHANGED <<apptab, tables, opens>> /\ Returns(a)
    BY <1>1, <2>2, Records DEF Register, tables, Returns
  <2>3. CASE ~ UNCHANGED <<apptab, tables, opens>>
    <3>1. PICK k \in FreeApps : /\ apptab' = [apptab EXCEPT ![k].who = a]
                                /\ g_apptok' = [g_apptok EXCEPT ![a] = AppToken(k)]
      BY <1>1, <2>3 DEF Register, Lowest
    <3>2. apptab' \in [AppSlot -> App]
      BY <3>1, Records DEF FreeApps
    <3>3. AppToken(k) \in Token
      BY <3>1, Names, Records DEF AppToken, FreeApps
    <3>4. m \in 0 .. SockMax
      BY SizesAssumption
    <3>5. TableType'
      <4>1. g_apptok' \in [Space -> Token \cup {NoToken}]
        BY <3>1, <3>3
      <4>2. g_maxsoc' \in [Space -> 0 .. SockMax]
        BY <1>1, <2>3, <3>4 DEF Register
      <4>3. g_sockmap' \in [Space -> [Number -> Desc \cup {NoDesc}]] /\ g_socknb' \in [Space -> SUBSET Number]
        <5>1. FreshTable(a)
          BY <1>1, <2>3 DEF Register
        <5>2. {} \in SUBSET Number
          OBVIOUS
        <5> QED
          BY <5>1, <5>2, TableReset DEF FreshTable
      <4> QED
        BY <4>1, <4>2, <4>3
    <3>6. StackType'
      BY <1>1, <2>3, <3>2 DEF Register
    <3>7. call' \in [Space -> Call]
      BY <1>1, <2>3 DEF Register
    <3> QED
      BY <3>5, <3>6, <3>7
  <2> QED
    BY <1>1, <2>2, <2>3 DEF Register
<1>2. ASSUME NEW a \in Space, NEW n \in Number, NEW i \in SockSlot, Take(a, n, SockDesc(i)) 
      PROVE  /\ g_sockmap' \in [Space -> [Number -> Desc \cup {NoDesc}]]
             /\ g_socknb' \in [Space -> SUBSET Number]
  <2>1. SockDesc(i) \in Desc
    BY Names, Records DEF SockDesc
  <2>2. g_socknb[a] \ {n} \in SUBSET Number
    OBVIOUS
  <2>3. CASE SockDesc(i).gen < SignGen
    <3>1. /\ g_sockmap' = [g_sockmap EXCEPT ![a][n] = SockDesc(i)]
          /\ g_socknb'  = [g_socknb EXCEPT ![a] = g_socknb[a] \ {n}]
      BY <1>2, <2>3 DEF Take
    <3> QED
      BY <2>1, <2>2, <3>1, TableUpdate, TableReset
  <2>4. CASE ~(SockDesc(i).gen < SignGen)
    BY <1>2, <2>4 DEF Take
  <2> QED
    BY <2>3, <2>4
<1>3. ASSUME NEW a \in Space, Socket(a) PROVE TypeOK'
  <2>1. CASE UNCHANGED <<socktab, g_sockmap, g_socknb, opens>>
    BY <1>3, <2>1, Records DEF Socket, Returns
  <2>2. ASSUME NEW n \in FreeNumbers(a), NEW i \in FreeSocks, 
               socktab' = [socktab EXCEPT ![i].st = "OPEN", ![i].tok = g_apptok[a]],
               Take(a, n, SockDesc(i)), opens' = opens + 1
        PROVE  TypeOK'
    <3>1. n \in Number /\ i \in SockSlot
      BY DEF FreeNumbers, FreeSocks
    <3>2. socktab' \in [SockSlot -> Sock]
      BY <2>2, <3>1, Records
    <3>3. TableType'
      BY <1>2, <1>3, <2>2, <3>1 DEF Socket
    <3>4. call' \in [Space -> Call]
      BY <1>3, Records DEF Socket, Returns
    <3> QED
      BY <1>3, <2>2, <3>2, <3>3, <3>4 DEF Socket
  <2> QED
    BY <1>3, <2>1, <2>2 DEF Socket, Lowest
<1>4. ASSUME NEW a \in Space, NEW s \in Number, Listen(a, s) PROVE TypeOK'
  <2>1. Desc_(a, s) \in Desc
    BY <1>4 DEF Listen, Owned, Resolves, Desc_
  <2>2. Desc_(a, s).id \in SockSlot
    BY <2>1, Names
  <2> QED
    BY <1>4, <2>2, Records DEF Listen, tables
<1>5. ASSUME NEW a \in Space, NEW n \in Number, NEW c \in SockSlot, Deliver(a, n, c)
      PROVE  TypeOK'
  <2>1. socktab' \in [SockSlot -> Sock]
    BY <1>5, Records DEF Deliver
  <2> QED
    BY <1>2, <1>5, <2>1, Records DEF Deliver, Returns
<1>6. ASSUME NEW a \in Space, NEW s \in Number, Accept(a, s) PROVE TypeOK'
  <2>1. PICK n \in Number : 
            \/ \E c \in Queue(Desc_(a, s).id) : Deliver(a, n, c)
            \/ call' = [call EXCEPT ![a] = Doing("accept", s, n)] /\ UNCHANGED <<stack, tables>>
    BY <1>6 DEF Accept, Lowest, FreeNumbers
  <2>2. Doing("accept", s, n) \in Call
    BY DEF Doing, Call, Parking
  <2> QED
    BY <1>5, <2>1, <2>2 DEF Queue, stack, tables
<1>7. ASSUME NEW a \in Space, AcceptAnswered(a) PROVE TypeOK'
  BY <1>5, <1>7 DEF AcceptAnswered, Queue, Call
<1>8. ASSUME NEW a \in Space, NEW s \in Number, NEW verb \in Parking, NEW dw \in BOOLEAN,
             Transfer(a, s, verb, dw)
      PROVE  TypeOK'
  <2>1. Doing(verb, s, 0) \in Call
    BY Records DEF Doing, Call
  <2> QED
    BY <1>8, <2>1 DEF Transfer, stack, tables
<1>9. ASSUME NEW a \in Space, TransferAnswered(a) PROVE TypeOK'
  BY <1>9, Records DEF TransferAnswered, Returns, stack, tables
<1>10. ASSUME NEW a \in Space, NEW s \in Number, NEW nb \in BOOLEAN, SetMode(a, s, nb)
       PROVE  TypeOK'
  BY <1>10 DEF SetMode, stack
<1>11. ASSUME NEW a \in Space, NEW s \in InUse(a), CloseNumber(a, s), call' \in [Space -> Call]
       PROVE  TypeOK'
  <2>1. g_sockmap[a][s] \in Desc /\ s \in Number
    BY DEF InUse
  <2>2. g_sockmap[a][s].id \in SockSlot
    BY <2>1, Names
  <2>3. socktab' \in [SockSlot -> Sock]
    <3>1. [socktab EXCEPT ![g_sockmap[a][s].id].st = "CLOSING"] \in [SockSlot -> Sock]
      BY <2>2, Records
    <3> QED
      BY <1>11, <3>1, VacatedType DEF CloseNumber, StackCloses
  <2>4. unsent' \in SUBSET Desc
    BY <1>11, <2>1 DEF CloseNumber
  <2>5. TableType'
    <3>1. g_socknb[a] \ {s} \in SUBSET Number
      OBVIOUS
    <3> QED
      BY <1>11, <2>1, <3>1, TableUpdate, TableReset DEF CloseNumber, Unmap
  <2> QED
    BY <1>11, <2>3, <2>4, <2>5 DEF CloseNumber
<1>12. ASSUME NEW a \in Space, NEW s \in Number, Close(a, s) PROVE TypeOK'
  <2>1. s \in InUse(a)
    BY <1>12 DEF Close, Desc_, InUse
  <2> QED
    BY <1>11, <1>12, <2>1 DEF Close
<1>13. ASSUME NEW a \in Space, TermClose(a) PROVE TypeOK'
  <2>1. Doing("term", 0, 0) \in Call
    BY Records DEF Doing, Call
  <2> QED
    BY <1>11, <1>13, <2>1 DEF TermClose, Lowest
<1>14. ASSUME NEW a \in Space, TermEnd(a) PROVE TypeOK'
  <2>1. g_apptok[a] \in Token /\ g_apptok[a].idx \in AppSlot
    BY <1>14, Names DEF TermEnd
  <2>2. socktab' \in [SockSlot -> Sock] /\ apptab' \in [AppSlot -> App]
    <3>1. [apptab EXCEPT ![g_apptok[a].idx] = FreeApp(NextGen(@.gen))] \in [AppSlot -> App]
      BY <2>1, Records
    <3> QED
      BY <1>14, <3>1, VacatedType DEF TermEnd, StackTerms
  <2>3. TableType'
    BY <1>14, Records DEF TermEnd
  <2>4. call' \in [Space -> Call]
    BY <1>14, Records DEF TermEnd, Returns
  <2> QED
    BY <1>14, <2>2, <2>3, <2>4 DEF TermEnd
<1>15. ASSUME NEW a \in Space, NextProgram(a) PROVE TypeOK'
  <2>1. TableType'
    BY <1>15, Records, TableReset DEF NextProgram, FreshTable
  <2>2. call' \in [Space -> Call]
    BY <1>15, Records DEF NextProgram, Returns
  <2> QED
    BY <1>15, <2>1, <2>2 DEF NextProgram, stack
<1>16. ASSUME NEW i \in SockSlot, Arrive(i) PROVE TypeOK'
  <2>1. PICK c \in FreeSocks : socktab' = [socktab EXCEPT ![c].st = "QUEUED",
                  ![c].tok = socktab[i].tok, ![c].lis = i]
    BY <1>16 DEF Arrive, Lowest
  <2>2. socktab' \in [SockSlot -> Sock]
    BY <2>1, Records DEF FreeSocks
  <2> QED
    BY <1>16, <2>2 DEF Arrive, tables
<1>17. ASSUME NEW gone, call' = Aborted(gone) PROVE call' \in [Space -> Call]
  BY <1>17, Records DEF Aborted
<1>18. ASSUME NEW i \in SockSlot, PeerEnds(i) PROVE TypeOK'
  BY <1>17, <1>18, VacatedType DEF PeerEnds, tables
<1>19. CASE StackEnds
  <2>1. StackType'
    <3>1. [k \in AppSlot |-> FreeApp(1)] \in [AppSlot -> App]
      BY Records
    <3>2. [i \in SockSlot |-> Vacant(1)] \in [SockSlot -> Sock]
      BY Records
    <3>3. up' \in BOOLEAN
      BY <1>19 DEF StackEnds
    <3>4. unsent' = {} /\ opens' = opens /\ ends' = ends + 1
      BY <1>19 DEF StackEnds
    <3> QED
      BY <1>19, <3>1, <3>2, <3>3, <3>4 DEF StackEnds
  <2> QED
    BY <1>17, <1>19, <2>1 DEF StackEnds, tables
<1>20. CASE StackStarts
  BY <1>20 DEF StackStarts, tables
<1>21. CASE UNCHANGED vars
  BY <1>21 DEF vars, stack, tables
<1> HIDE DEF TypeOK, StackType, TableType
<1>22. ASSUME NEW a \in Space, Client(a) PROVE TypeOK'
  <2>1. CASE InitApi(a)
    BY <1>1, <2>1, Records DEF InitApi
  <2>4. CASE ImplicitInit(a)
    <3>1. Doing("socket", 0, 0) \in Call
      BY Records DEF Doing, Call
    <3>2. SockMax \in 1 .. SockMax
      BY SizesAssumption
    <3> QED
      BY <1>1, <2>4, <3>1, <3>2 DEF ImplicitInit
  <2>2. CASE Socket(a) \/ TermClose(a) \/ TermEnd(a)
    BY <1>3, <1>13, <1>14, <2>2
  <2>3. ASSUME NEW s \in Number, OnNumber(a, s) PROVE TypeOK'
    BY <1>4, <1>6, <1>8, <1>10, <1>12, <2>3 DEF OnNumber
  <2> QED
    BY <1>22, <2>1, <2>2, <2>3, <2>4 DEF Client
<1> QED
  BY <1>7, <1>9, <1>15, <1>16, <1>18, <1>19, <1>20, <1>21, <1>22 DEF Next

-----------------------------------------------------------------------------
(* What the types say of the state.                                        *)
LEMMA Shapes ==
    ASSUME TypeOK
    PROVE  /\ opens \in Nat
           /\ \A i \in SockSlot : /\ socktab[i] \in Sock /\ socktab[i].gen \in Nat /\ socktab[i].gen >= 1
                                  /\ socktab[i].tok \in Token \cup {NoToken}
                                  /\ socktab[i].lis \in SockSlot
                                  /\ SockDesc(i) \in Desc /\ SockDesc(i).id = i
                                  /\ SockDesc(i).gen = socktab[i].gen
           /\ \A k \in AppSlot : apptab[k].gen \in Nat /\ apptab[k].gen >= 1
           /\ \A k \in AppSlot : /\ AppToken(k) \in Token /\ AppToken(k).idx = k
                                 /\ AppToken(k).gen = apptab[k].gen
           /\ \A a \in Space : /\ g_apptok[a] \in Token \cup {NoToken}
                               /\ g_maxsoc[a] \in Nat
                               /\ call[a].s \in Number /\ call[a].n \in Number
           /\ \A a \in Space : \A s \in InUse(a) : /\ s \in Number /\ s \in SockSlot
                                                   /\ g_sockmap[a][s] \in Desc
                                                   /\ g_sockmap[a][s].id \in SockSlot
                                                   /\ g_sockmap[a][s].gen \in Nat
           /\ \A t \in Token : t.idx \in AppSlot
<1> USE DEF TypeOK, StackType, TableType
<1>1. opens \in Nat
  OBVIOUS
<1>2. \A i \in SockSlot : /\ socktab[i] \in Sock /\ socktab[i].gen \in Gen
                          /\ socktab[i].tok \in Token \cup {NoToken} /\ socktab[i].lis \in SockSlot
                          /\ SockDesc(i) \in Desc /\ SockDesc(i).id = i
                          /\ SockDesc(i).gen = socktab[i].gen
  BY Records, Names DEF SockDesc
<1>3. \A k \in AppSlot : /\ apptab[k].gen \in Gen /\ AppToken(k) \in Token
                         /\ AppToken(k).idx = k /\ AppToken(k).gen = apptab[k].gen
  BY Records, Names DEF AppToken
<1>4. \A a \in Space : g_apptok[a] \in Token \cup {NoToken} /\ g_maxsoc[a] \in 0 .. SockMax
  OBVIOUS
<1>5. \A a \in Space : call[a].s \in Number /\ call[a].n \in Number
  BY DEF Call
<1>6. \A a \in Space : \A s \in InUse(a) : s \in Number /\ g_sockmap[a][s] \in Desc
  BY DEF InUse
<1>7. \A g \in Gen : g \in Nat /\ g >= 1
  BY DEF Gen
<1>8. \A m \in 0 .. SockMax : m \in Nat
  BY SizesAssumption
<1> HIDE DEF TypeOK, StackType, TableType
<1> QED
  BY <1>1, <1>2, <1>3, <1>4, <1>5, <1>6, <1>7, <1>8, Names, Records

LEMMA NextGenStep ==
    ASSUME NoWrap, TypeOK, NEW g \in Nat, g <= opens PROVE NextGen(g) = g + 1
BY SizesAssumption, Shapes DEF NoWrap, NextGen

(* A token is held by one address space.                                   *)
LEMMA OneHolder ==
    ASSUME NEW t, NEW a, NEW b, Holds(t, a), Holds(t, b) PROVE a = b
BY DEF Holds

(* A number of a standing registration that resolves names an open socket  *)
(* of it; and what a program owns through a number, it owns by a standing  *)
(* registration.                                                           *)
LEMMA OwnNumber ==
    ASSUME TypeOK, TableInv, NEW a \in Space, NEW s \in InUse(a)
    PROVE  /\ Holds(g_apptok[a], a) /\ Resolves(g_sockmap[a][s]) => OpenTo(g_sockmap[a][s], a)
           /\ Owned(g_sockmap[a][s], a) =>
                 Holds(g_apptok[a], a) /\ OpenTo(g_sockmap[a][s], a)
           /\ Holds(g_apptok[a], a) /\ OpenTo(g_sockmap[a][s], a) =>
                 Owned(g_sockmap[a][s], a)
<1> DEFINE d == g_sockmap[a][s]
<1>1. d \in Desc /\ d.id \in SockSlot /\ d # NoDesc
  BY Shapes, Names
<1>2. ASSUME Holds(g_apptok[a], a), Resolves(d) PROVE OpenTo(d, a)
  BY <1>1, <1>2, Shapes DEF TableInv, MappedOK, Resolves
<1>3. ASSUME Owned(d, a) PROVE Holds(g_apptok[a], a)
  <2>1. socktab[d.id].tok \in Token
    BY <1>1, <1>3, Shapes DEF Owned, Holds
  <2>2. socktab[d.id].tok.idx \in AppSlot /\ apptab[socktab[d.id].tok.idx].who = a
    BY <1>3, <2>1, Shapes DEF Owned, Holds
  <2>3. g_apptok[a] # NoToken
    BY DEF TableInv, StaleOK
  <2> QED
    BY <2>2, <2>3 DEF TableInv, StaleOK
<1>4. ASSUME Holds(g_apptok[a], a), OpenTo(d, a) PROVE Owned(d, a)
  BY <1>1, <1>4 DEF Owned, OpenTo, Resolves, Live
<1> QED
  BY <1>2, <1>3, <1>4 DEF Owned


-----------------------------------------------------------------------------
(* A parked call keeps its ground when nothing it stands on changes.       *)
LEMMA ParkedStays ==
    ASSUME ParkedOK, up => up',
           \A b \in Space :
              Parked(b)' =>
                 /\ call'[b] = call[b] /\ g_apptok'[b] = g_apptok[b]
                 /\ g_maxsoc'[b] = g_maxsoc[b] /\ g_sockmap'[b] = g_sockmap[b]
                 /\ Holds(g_apptok[b], b) => Holds(g_apptok[b], b)'
                 /\ \A i \in SockSlot : OpenTo(g_sockmap[b][call[b].s], b) /\ i = g_sockmap[b][call[b].s].id =>
                       socktab'[i] = socktab[i],
           TypeOK
    PROVE  ParkedOK'
<1> SUFFICES ASSUME NEW b \in Space, Parked(b)'
             PROVE  (/\ up /\ call[b].s \in InUse(b) /\ Holds(g_apptok[b], b)
                     /\ OpenTo(g_sockmap[b][call[b].s], b)
                     /\ call[b].do = "accept" =>
                          /\ call[b].n \in FreeNumbers(b)
                          /\ socktab[g_sockmap[b][call[b].s].id].st = "LISTEN")'
  BY DEF ParkedOK
<1> DEFINE d == g_sockmap[b][call[b].s]
<1>1. /\ call'[b] = call[b] /\ g_apptok'[b] = g_apptok[b]
      /\ g_maxsoc'[b] = g_maxsoc[b] /\ g_sockmap'[b] = g_sockmap[b]
  OBVIOUS
<1>2. Parked(b)
  BY <1>1 DEF Parked
<1>3. /\ up /\ call[b].s \in InUse(b) /\ Holds(g_apptok[b], b) /\ OpenTo(d, b)
      /\ call[b].do = "accept" => call[b].n \in FreeNumbers(b) /\ socktab[d.id].st = "LISTEN"
  BY <1>2 DEF ParkedOK
<1>4. d.id \in SockSlot
  BY <1>3, Shapes
<1>5. socktab'[d.id] = socktab[d.id] /\ Holds(g_apptok[b], b)'
  BY <1>3, <1>4
<1>6. InUse(b)' = InUse(b) /\ FreeNumbers(b)' = FreeNumbers(b)
  BY <1>1 DEF InUse, FreeNumbers
<1>7. OpenTo(d, b)'
  BY <1>1, <1>3, <1>5 DEF OpenTo
<1> QED
  BY <1>1, <1>3, <1>5, <1>6, <1>7

(* Nothing else of the invariant looks at the calls.                       *)
LEMMA CallOnly ==
    ASSUME TypeOK, TableInv, UNCHANGED <<apptab, socktab, unsent, opens>>,
           UNCHANGED <<g_apptok, g_maxsoc, g_sockmap>>, ParkedOK'
    PROVE  TableInv'
<1>1. GenOK' /\ OwnersOK' /\ QueuesOK'
  BY DEF TableInv, GenOK, OwnersOK, QueuesOK, Live, Holds
<1>2. StaleOK' /\ OneToOne'
  BY DEF TableInv, StaleOK, OneToOne, InUse, Holds
<1>3. MappedOK' /\ OrphansOK'
  BY DEF TableInv, MappedOK, OrphansOK, InUse, Holds, OpenTo, Named, SockDesc
<1> QED
  BY <1>1, <1>2, <1>3 DEF TableInv

LEMMA RegisterInv ==
    ASSUME TypeOK, TypeOK', NoWrap, TableInv, NEW a \in Space, NEW m \in 1 .. SockMax,
           NEW next \in {Idle, Doing("socket", 0, 0)}, Register(a, m, next)
    PROVE  TableInv'
<1>1. \A b \in Space : Parked(b)' => b # a /\ call'[b] = call[b]
  BY DEF Register, Returns, Parked, Parking, Idle, Doing, TypeOK
<1>2. UNCHANGED <<up, socktab, unsent>> /\ g_apptok[a] = NoToken /\ InUse(a) = {}
  BY DEF Register, TableInv, StaleOK
<1>3. CASE UNCHANGED <<apptab, tables, opens>>
  <2>1. ParkedOK'
    BY <1>1, <1>2, <1>3, ParkedStays DEF TableInv, tables, Holds
  <2> QED
    BY <1>2, <1>3, <2>1, CallOnly DEF tables
<1>4. CASE ~ UNCHANGED <<apptab, tables, opens>>
  <2>1. PICK k \in FreeApps : /\ apptab' = [apptab EXCEPT ![k].who = a]
                              /\ g_apptok' = [g_apptok EXCEPT ![a] = AppToken(k)]
    BY <1>4 DEF Register, Lowest
  <2>2. opens' = opens + 1 /\ g_maxsoc' = [g_maxsoc EXCEPT ![a] = m] /\ FreshTable(a)
    BY <1>4 DEF Register
  <2>3. /\ k \in AppSlot /\ apptab[k].who = NoSpace /\ AppToken(k) \in Token
        /\ AppToken(k).idx = k /\ AppToken(k).gen = apptab[k].gen
    BY Shapes DEF FreeApps
  <2>4. /\ \A j \in AppSlot : /\ apptab'[j].gen = apptab[j].gen
                              /\ j # k => apptab'[j] = apptab[j]
        /\ apptab'[k].who = a
    BY <2>1, <2>3 DEF TypeOK, StackType, App
  <2>5. \A b \in Space \ {a} : /\ g_apptok'[b] = g_apptok[b] /\ g_maxsoc'[b] = g_maxsoc[b]
                               /\ g_sockmap'[b] = g_sockmap[b] /\ InUse(b)' = InUse(b)
    BY <2>1, <2>2 DEF FreshTable, TypeOK, TableType, InUse
  <2>6. g_apptok'[a] = AppToken(k) /\ InUse(a)' = {}
    BY <2>1, <2>2 DEF FreshTable, TypeOK, TableType, InUse
  (* What was held stays held; the new token is held by a alone.           *)
  <2>7. \A t, b : t \in Token \cup {NoToken} /\ b \in Space /\ Holds(t, b) => Holds(t, b)'
    BY <2>3, <2>4, NamesAssumption, Shapes DEF Holds
  <2>8. \A t \in Token \cup {NoToken}, b \in Space \ {a} : Holds(t, b)' => Holds(t, b)
    BY <2>3, <2>4, NamesAssumption, Shapes DEF Holds
  <2>9. Holds(g_apptok[a], a)'
    BY <2>3, <2>4, <2>6, Names DEF Holds
  <2>10. \A i \in SockSlot : Live(i) => socktab[i].tok # g_apptok'[a]
    BY <2>3, <2>6, NamesAssumption DEF TableInv, OwnersOK, Holds
  <2>11. GenOK'
    <3>1. \A i \in SockSlot : socktab'[i].gen <= IF Live(i)' THEN opens' ELSE opens' + 1
      BY <1>2, <2>2, Shapes DEF TableInv, GenOK, Live
    <3>2. \A j \in AppSlot : apptab'[j].gen <= opens + 1
      BY <2>4, Shapes DEF TableInv, GenOK
    <3>3. \A j \in AppSlot : apptab'[j].gen <= IF apptab'[j].who # NoSpace THEN opens' ELSE opens' + 1
      BY <2>2, <2>4, <3>2, Shapes
    <3> QED
      BY <3>1, <3>3 DEF GenOK
  <2>12. OwnersOK'
    BY <1>2, <2>7, Shapes DEF TableInv, OwnersOK, Live
  <2>13. QueuesOK'
    BY <1>2 DEF TableInv, QueuesOK
  <2>14. StaleOK'
    <3>1. \A b \in Space \ {a} : (\A j \in AppSlot : apptab[j].who # b) => \A j \in AppSlot : apptab'[j].who # b
      BY <2>4
    <3> QED
      BY <2>5, <2>6, <2>7, <2>9, <3>1, Shapes DEF TableInv, StaleOK
  <2>15. OneToOne'
    BY <2>5, <2>6 DEF TableInv, OneToOne
  <2>16. MappedOK'
    BY <1>2, <2>5, <2>6, <2>8, Shapes DEF TableInv, MappedOK, OpenTo
  <2>17. OrphansOK'
    BY <1>2, <2>5, <2>8, <2>10, Shapes DEF TableInv, OrphansOK, Named, SockDesc, Live
  <2>18. ParkedOK'
    BY <1>1, <1>2, <2>5, <2>7, Shapes, ParkedStays DEF TableInv
  <2> QED
    BY <2>11, <2>12, <2>13, <2>14, <2>15, <2>16, <2>17, <2>18 DEF TableInv
<1> QED
  BY <1>3, <1>4

(* A socket that was nobody's to use becomes open to a under a number that *)
(* was free, or under none when its descriptor is taken for an error.      *)
LEMMA TakeInv ==
    ASSUME TypeOK, TypeOK', NoWrap, TableInv, NEW a \in Space, NEW n \in FreeNumbers(a),
           NEW i \in SockSlot, Holds(g_apptok[a], a), Take(a, n, SockDesc(i)),
           socktab[i].st \in {"FREE", "QUEUED"}, socktab'[i].st = "OPEN",
           socktab'[i].tok = g_apptok[a], socktab'[i].gen = socktab[i].gen,
           \A j \in SockSlot \ {i} : socktab'[j] = socktab[j],
           UNCHANGED <<up, apptab, unsent, g_apptok, g_maxsoc>>,
           opens <= opens', socktab[i].gen <= opens',
           \A b \in Space : Parked(b)' => b # a /\ call'[b] = call[b]
    PROVE  TableInv'
<1> DEFINE d == SockDesc(i)
<1>1. /\ d \in Desc /\ d.id = i /\ d.gen = socktab[i].gen /\ d # NoDesc
      /\ opens \in Nat /\ opens' \in Nat
  BY Shapes, Names DEF TypeOK, StackType
<1>2. /\ n \in Number /\ n < g_maxsoc[a] /\ g_sockmap[a][n] = NoDesc /\ g_apptok[a] # NoToken
  BY DEF FreeNumbers, InUse, Holds
<1>3. \A b \in Space, s \in Number :
         g_sockmap'[b][s] = IF b = a /\ s = n /\ d.gen < SignGen THEN d ELSE g_sockmap[b][s]
  BY <1>2 DEF Take, TypeOK, TableType
<1>4. \A b \in Space : b # a => InUse(b)' = InUse(b) /\ g_sockmap'[b] = g_sockmap[b]
  <2>1. \A b \in Space : b # a => g_sockmap'[b] = g_sockmap[b]
    BY DEF Take, TypeOK, TableType
  <2> QED
    BY <2>1 DEF InUse
<1>5. \A b \in Space : \A s \in InUse(b)' :
         \/ s \in InUse(b) /\ g_sockmap'[b][s] = g_sockmap[b][s]
         \/ b = a /\ s = n /\ g_sockmap'[b][s] = d
  BY <1>3 DEF InUse
<1>6. \A b \in Space, s \in Number : g_sockmap[b][s] # NoDesc => g_sockmap'[b][s] = g_sockmap[b][s]
  BY <1>2, <1>3
(* No number of a led to the socket, and none of a standing registration.  *)
<1>7. \A b \in Space : \A s \in InUse(b) :
         Holds(g_apptok[b], b) /\ g_sockmap[b][s].id = i => g_sockmap[b][s].gen < socktab[i].gen
  BY DEF TableInv, MappedOK, OpenTo
<1>8. \A s \in InUse(a) : g_sockmap[a][s] # d
  BY <1>1, <1>7, Shapes
<1>9. \A t, b : Holds(t, b)' <=> Holds(t, b)
  BY DEF Holds
<1>10. \A b \in Space : Holds(g_apptok[b], b)' <=> Holds(g_apptok[b], b)
  BY DEF Holds
<1>11. GenOK'
  <2>1. \A j \in SockSlot : socktab'[j].gen <= IF Live(j)' THEN opens' ELSE opens' + 1
    <3>1. \A j \in SockSlot \ {i} : socktab'[j].gen <= IF Live(j)' THEN opens' ELSE opens' + 1
      BY <1>1, Shapes DEF TableInv, GenOK, Live
    <3>2. socktab'[i].gen <= opens' /\ Live(i)'
      BY DEF Live
    <3> QED
      BY <3>1, <3>2
  <2>2. \A k \in AppSlot : apptab'[k].gen <= IF apptab'[k].who # NoSpace THEN opens' ELSE opens' + 1
    BY <1>1, Shapes DEF TableInv, GenOK
  <2> QED
    BY <2>1, <2>2 DEF GenOK
<1>12. OwnersOK'
  BY <1>9 DEF TableInv, OwnersOK, Live
<1>13. QueuesOK'
  BY Shapes DEF TableInv, QueuesOK
<1>14. StaleOK'
  <2>1. \A b \in Space : /\ g_apptok'[b] = NoToken => InUse(b)' = {}
                         /\ \A s \in InUse(b)' : s < g_maxsoc'[b]
    BY <1>2, <1>5 DEF TableInv, StaleOK
  <2> QED
    BY <2>1, <1>10 DEF TableInv, StaleOK
<1>15. OneToOne'
  <2>1. \A b \in Space : \A s, t \in InUse(b)' : g_sockmap'[b][t] = g_sockmap'[b][s] => t = s
    BY <1>5, <1>8 DEF TableInv, OneToOne
  <2> QED
    BY <2>1 DEF OneToOne
<1>16. MappedOK'
  <2>1. SUFFICES ASSUME NEW b \in Space, NEW s \in InUse(b)', Holds(g_apptok[b], b)
                 PROVE  \/ g_sockmap'[b][s].gen < socktab'[g_sockmap'[b][s].id].gen
                        \/ OpenTo(g_sockmap[b][s], b)'
    BY <1>10 DEF MappedOK
  <2>2. CASE s \in InUse(b) /\ g_sockmap'[b][s] = g_sockmap[b][s]
    <3>1. CASE g_sockmap[b][s].id = i
      BY <1>7, <2>1, <2>2, <3>1
    <3>2. CASE g_sockmap[b][s].id # i
      BY <2>1, <2>2, <3>2, Shapes DEF TableInv, MappedOK, OpenTo
    <3> QED
      BY <3>1, <3>2
  <2>3. CASE b = a /\ s = n /\ g_sockmap'[b][s] = d
    BY <1>1, <2>3 DEF OpenTo
  <2> QED
    BY <1>5, <2>2, <2>3
<1>17. OrphansOK'
  <2>1. SUFFICES ASSUME NEW b \in Space, NEW j \in SockSlot, Holds(g_apptok[b], b),
                        socktab'[j].tok = g_apptok[b], socktab'[j].st \in {"OPEN", "LISTEN"}
                 PROVE  Named(j, b)'
    BY <1>10 DEF OrphansOK
  <2>2. CASE j = i
    <3>1. b = a
      BY <2>1, <2>2, OneHolder
    <3>2. SockDesc(i)' = d
      BY DEF SockDesc
    <3>3. g_sockmap'[a][n] = d \/ socktab'[i].gen >= SignGen
      BY <1>1, <1>2, <1>3, SizesAssumption, Shapes
    <3> QED
      BY <1>2, <2>2, <3>1, <3>2, <3>3 DEF Named
  <2>3. CASE j # i
    <3>1. Named(j, b)
      BY <2>1, <2>3 DEF TableInv, OrphansOK
    <3>2. SockDesc(j)' = SockDesc(j) /\ SockDesc(j) # NoDesc /\ socktab'[j] = socktab[j]
      BY <2>3, Shapes, Names DEF SockDesc
    <3> QED
      BY <1>6, <3>1, <3>2 DEF Named
  <2> QED
    BY <2>2, <2>3
<1>18. ParkedOK'
  <2>1. ParkedOK
    BY DEF TableInv
  <2>2. \A b \in Space : OpenTo(g_sockmap[b][call[b].s], b) => g_sockmap[b][call[b].s].id # i
    BY DEF OpenTo
  <2> QED
    BY <1>4, <1>10, <2>1, <2>2, ParkedStays
<1> QED
  BY <1>11, <1>12, <1>13, <1>14, <1>15, <1>16, <1>17, <1>18 DEF TableInv

LEMMA SocketInv ==
    ASSUME TypeOK, TypeOK', NoWrap, TableInv, NEW a \in Space, Socket(a)
    PROVE  TableInv'
<1>1. \A b \in Space : Parked(b)' => b # a /\ call'[b] = call[b]
  BY DEF Socket, Returns, Parked, Parking, Idle, Doing, TypeOK
<1>2. UNCHANGED <<up, apptab, unsent, g_apptok, g_maxsoc>>
  BY DEF Socket
<1>3. CASE UNCHANGED <<socktab, g_sockmap, g_socknb, opens>>
  <2>1. ParkedOK'
    BY <1>1, <1>2, <1>3, ParkedStays DEF TableInv, Holds
  <2> QED
    BY <1>2, <1>3, <2>1, CallOnly
<1>4. CASE ~ UNCHANGED <<socktab, g_sockmap, g_socknb, opens>>
  <2>1. Holds(g_apptok[a], a) /\ opens' = opens + 1
    BY <1>4 DEF Socket
  <2>2. PICK n \in FreeNumbers(a), i \in FreeSocks :
           /\ socktab' = [socktab EXCEPT ![i].st = "OPEN", ![i].tok = g_apptok[a]]
           /\ Take(a, n, SockDesc(i))
    BY <1>4 DEF Socket, Lowest
  <2>3. i \in SockSlot /\ socktab[i].st = "FREE" /\ socktab[i].gen <= opens + 1
    BY DEF FreeSocks, Live, TableInv, GenOK
  <2>4. /\ socktab'[i].st = "OPEN" /\ socktab'[i].tok = g_apptok[a] /\ socktab'[i].gen = socktab[i].gen
        /\ \A j \in SockSlot \ {i} : socktab'[j] = socktab[j]
    BY <2>2, <2>3 DEF TypeOK, StackType, Sock
  <2>5. opens <= opens' /\ socktab[i].gen <= opens'
    BY <2>1, <2>3, Shapes
  <2> QED
    BY <1>1, <1>2, <2>1, <2>2, <2>3, <2>4, <2>5, TakeInv
<1> QED
  BY <1>3, <1>4

LEMMA DeliverInv ==
    ASSUME TypeOK, TypeOK', NoWrap, TableInv, NEW a \in Space, NEW n \in FreeNumbers(a),
           NEW l \in SockSlot, NEW c \in Queue(l), socktab[l].tok = g_apptok[a],
           Holds(g_apptok[a], a), Deliver(a, n, c)
    PROVE  TableInv'
<1>1. \A b \in Space : Parked(b)' => b # a /\ call'[b] = call[b]
  BY DEF Deliver, Returns, Parked, Parking, Idle, Doing, TypeOK
<1>2. c \in SockSlot /\ socktab[c].st = "QUEUED" /\ socktab[c].tok = g_apptok[a]
  BY DEF Queue, TableInv, QueuesOK
<1>3. /\ socktab'[c].st = "OPEN" /\ socktab'[c].tok = g_apptok[a] /\ socktab'[c].gen = socktab[c].gen
      /\ \A j \in SockSlot \ {c} : socktab'[j] = socktab[j]
  BY <1>2 DEF Deliver, TypeOK, StackType, Sock
<1>4. opens <= opens' /\ socktab[c].gen <= opens'
  BY <1>2, Shapes DEF Deliver, TableInv, GenOK, Live
<1> QED
  BY <1>1, <1>2, <1>3, <1>4, TakeInv DEF Deliver

(* The number a call may be made on, and the socket behind it.             *)
LEMMA OwnDesc ==
    ASSUME TypeOK, TableInv, NEW a \in Space, NEW s \in Number, Owned(Desc_(a, s), a)
    PROVE  /\ s \in InUse(a) /\ Desc_(a, s) = g_sockmap[a][s] /\ Desc_(a, s).id \in SockSlot
           /\ Holds(g_apptok[a], a) /\ OpenTo(g_sockmap[a][s], a)
<1>1. s \in InUse(a) /\ Desc_(a, s) = g_sockmap[a][s]
  BY DEF Owned, Resolves, Desc_, InUse
<1> QED
  BY <1>1, OwnNumber, Shapes

(* A task that parks does so on a number that leads to its own socket.     *)
LEMMA ParksInv ==
    ASSUME TypeOK, TypeOK', NoWrap, TableInv, NEW a \in Space, NEW s \in Number, NEW n \in Number,
           NEW verb \in Parking, up, Owned(Desc_(a, s), a),
           verb = "accept" => n \in FreeNumbers(a) /\ socktab[Desc_(a, s).id].st = "LISTEN",
           call' = [call EXCEPT ![a] = Doing(verb, s, n)], UNCHANGED <<stack, tables>>
    PROVE  TableInv'
<1>1. /\ s \in InUse(a) /\ Desc_(a, s) = g_sockmap[a][s]
      /\ Holds(g_apptok[a], a) /\ OpenTo(g_sockmap[a][s], a)
  BY OwnDesc
<1>2. /\ \A b \in Space \ {a} : call'[b] = call[b]
      /\ call'[a].do = verb /\ call'[a].s = s /\ call'[a].n = n
  BY DEF TypeOK, Doing
<1>3. ParkedOK'
  <2>1. ASSUME NEW b \in Space, b # a, Parked(b)'
        PROVE  (/\ up /\ call[b].s \in InUse(b) /\ Holds(g_apptok[b], b)
                /\ OpenTo(g_sockmap[b][call[b].s], b)
                /\ call[b].do = "accept" =>
                     /\ call[b].n \in FreeNumbers(b)
                     /\ socktab[g_sockmap[b][call[b].s].id].st = "LISTEN")'
    <3>1. Parked(b) /\ call'[b] = call[b]
      BY <1>2, <2>1 DEF Parked
    <3>2. /\ up /\ call[b].s \in InUse(b) /\ Holds(g_apptok[b], b)
          /\ OpenTo(g_sockmap[b][call[b].s], b)
          /\ call[b].do = "accept" => /\ call[b].n \in FreeNumbers(b)
                                      /\ socktab[g_sockmap[b][call[b].s].id].st = "LISTEN"
      BY <3>1 DEF TableInv, ParkedOK
    <3> QED
      BY <3>1, <3>2 DEF stack, tables, InUse, FreeNumbers, Holds, OpenTo
  <2>2. (/\ up /\ call[a].s \in InUse(a) /\ Holds(g_apptok[a], a)
         /\ OpenTo(g_sockmap[a][call[a].s], a)
         /\ call[a].do = "accept" =>
              /\ call[a].n \in FreeNumbers(a)
              /\ socktab[g_sockmap[a][call[a].s].id].st = "LISTEN")'
    BY <1>1, <1>2 DEF stack, tables, InUse, FreeNumbers, Holds, OpenTo
  <2> QED
    BY <2>1, <2>2 DEF ParkedOK
<1> QED
  BY <1>3, CallOnly DEF stack, tables

LEMMA AcceptInv ==
    ASSUME TypeOK, TypeOK', NoWrap, TableInv, NEW a \in Space, NEW s \in Number, Accept(a, s)
    PROVE  TableInv'
<1>1. /\ up /\ Owned(Desc_(a, s), a) /\ socktab[Desc_(a, s).id].st = "LISTEN"
      /\ Desc_(a, s).id \in SockSlot /\ Holds(g_apptok[a], a)
      /\ socktab[Desc_(a, s).id].tok = g_apptok[a]
  BY OwnDesc DEF Accept, Served, OpenTo
<1>2. PICK n \in FreeNumbers(a) :
         \/ \E c \in Queue(Desc_(a, s).id) : Deliver(a, n, c)
         \/ /\ call' = [call EXCEPT ![a] = Doing("accept", s, n)]
            /\ UNCHANGED <<stack, tables>>
  BY DEF Accept, Lowest
<1>3. n \in Number /\ "accept" \in Parking
  BY DEF FreeNumbers, Parking
<1>4. CASE \E c \in Queue(Desc_(a, s).id) : Deliver(a, n, c)
  BY <1>1, <1>4, DeliverInv
<1>5. CASE /\ call' = [call EXCEPT ![a] = Doing("accept", s, n)]
           /\ UNCHANGED <<stack, tables>>
  BY <1>1, <1>3, <1>5, ParksInv
<1> QED
  BY <1>2, <1>4, <1>5

LEMMA AcceptAnsweredInv ==
    ASSUME TypeOK, TypeOK', NoWrap, TableInv, NEW a \in Space, AcceptAnswered(a)
    PROVE  TableInv'
<1> DEFINE s == call[a].s
<1>1. Parked(a) /\ call[a].do = "accept"
  BY DEF AcceptAnswered, Parked, Parking
<1>2. /\ s \in InUse(a) /\ Holds(g_apptok[a], a) /\ OpenTo(g_sockmap[a][s], a)
      /\ call[a].n \in FreeNumbers(a) /\ s < g_maxsoc[a]
  BY <1>1 DEF TableInv, ParkedOK, StaleOK
<1>3. Desc_(a, s) = g_sockmap[a][s] /\ Desc_(a, s).id \in SockSlot
      /\ socktab[Desc_(a, s).id].tok = g_apptok[a]
  BY <1>2, Shapes DEF Desc_, OpenTo
<1>4. PICK c \in Queue(Desc_(a, s).id) : Deliver(a, call[a].n, c)
  BY DEF AcceptAnswered
<1> QED
  BY <1>2, <1>3, <1>4, DeliverInv

LEMMA TransferInv ==
    ASSUME TypeOK, TypeOK', NoWrap, TableInv, NEW a \in Space, NEW s \in Number,
           NEW verb \in Parking \ {"accept"}, NEW dontwait \in BOOLEAN, Transfer(a, s, verb, dontwait)
    PROVE  TableInv'
<1>1. /\ up /\ Owned(Desc_(a, s), a) /\ UNCHANGED <<stack, tables>>
      /\ call' = [call EXCEPT ![a] = Doing(verb, s, 0)]
  BY DEF Transfer, Served
<1>2. 0 \in Number
  BY Records
<1> QED
  BY <1>1, <1>2, ParksInv

(* A call returns and changes nothing else here.                           *)
LEMMA TransferAnsweredInv ==
    ASSUME TypeOK, TypeOK', NoWrap, TableInv, NEW a \in Space, TransferAnswered(a)
    PROVE  TableInv'
<1>1. UNCHANGED <<stack, tables>>
  BY DEF TransferAnswered
<1>2. \A b \in Space : Parked(b)' => call'[b] = call[b]
  BY DEF TransferAnswered, Returns, Parked, Parking, Idle, Doing, TypeOK
<1>3. ParkedOK'
  BY <1>1, <1>2, ParkedStays DEF TableInv, stack, tables, Holds
<1> QED
  BY <1>1, <1>3, CallOnly DEF stack, tables

LEMMA SetModeInv ==
    ASSUME TypeOK, TypeOK', NoWrap, TableInv, NEW a \in Space, NEW s \in Number,
           NEW nonblock \in BOOLEAN, SetMode(a, s, nonblock)
    PROVE  TableInv'
<1>1. UNCHANGED <<stack, g_apptok, g_maxsoc, g_sockmap, call>>
  BY DEF SetMode
<1>2. ParkedOK'
  BY <1>1, ParkedStays DEF TableInv, stack, Holds
<1> QED
  BY <1>1, <1>2, CallOnly DEF stack

LEMMA ListenInv ==
    ASSUME TypeOK, TypeOK', NoWrap, TableInv, NEW a \in Space, NEW s \in Number, Listen(a, s)
    PROVE  TableInv'
<1> DEFINE i == Desc_(a, s).id
<1>1. /\ UNCHANGED <<up, apptab, unsent, opens, ends, tables, call>>
      /\ socktab' = [socktab EXCEPT ![i].st = "LISTEN"]
      /\ socktab[i].st = "OPEN" /\ i \in SockSlot
  BY OwnDesc DEF Listen
<1>2. \A j \in SockSlot : /\ socktab'[j].gen = socktab[j].gen /\ socktab'[j].tok = socktab[j].tok
                          /\ socktab'[j].lis = socktab[j].lis
                          /\ socktab'[j].st = IF j = i THEN "LISTEN" ELSE socktab[j].st
  BY <1>1 DEF TypeOK, StackType, Sock
<1>3. \A j \in SockSlot : /\ Live(j)' <=> Live(j)
                          /\ SockDesc(j)' = SockDesc(j)
                          /\ socktab'[j].st \in {"OPEN", "LISTEN"} <=> socktab[j].st \in {"OPEN", "LISTEN"}
  BY <1>1, <1>2 DEF Live, SockDesc
<1>4. \A b \in Space : /\ InUse(b)' = InUse(b) /\ FreeNumbers(b)' = FreeNumbers(b)
                       /\ Holds(g_apptok[b], b)' <=> Holds(g_apptok[b], b)
  BY <1>1 DEF tables, InUse, FreeNumbers, Holds
<1>5. GenOK' /\ OwnersOK' /\ QueuesOK'
  <2>1. GenOK'
    BY <1>1, <1>2, <1>3 DEF TableInv, GenOK
  <2>2. OwnersOK'
    BY <1>1, <1>2, <1>3 DEF TableInv, OwnersOK, Holds
  <2>3. QueuesOK'
    BY <1>1, <1>2, Shapes DEF TableInv, QueuesOK
  <2> QED
    BY <2>1, <2>2, <2>3
<1>6. StaleOK' /\ OneToOne'
  BY <1>1, <1>4 DEF TableInv, StaleOK, OneToOne, tables
<1>7. \A b \in Space : \A t \in InUse(b) : OpenTo(g_sockmap[b][t], b)' <=> OpenTo(g_sockmap[b][t], b)
  BY <1>1, <1>2, <1>3, Shapes DEF OpenTo, tables
<1>8. MappedOK'
  BY <1>1, <1>2, <1>4, <1>7, Shapes DEF TableInv, MappedOK, tables
<1>9. OrphansOK'
  BY <1>1, <1>2, <1>3, <1>4 DEF TableInv, OrphansOK, Named, tables
<1>10. ParkedOK'
  <2>1. SUFFICES ASSUME NEW b \in Space, Parked(b)
                 PROVE  (/\ up /\ call[b].s \in InUse(b) /\ Holds(g_apptok[b], b)
                         /\ OpenTo(g_sockmap[b][call[b].s], b)
                         /\ call[b].do = "accept" =>
                              /\ call[b].n \in FreeNumbers(b)
                              /\ socktab[g_sockmap[b][call[b].s].id].st = "LISTEN")'
    BY <1>1 DEF ParkedOK, Parked
  <2>2. /\ up /\ call[b].s \in InUse(b) /\ Holds(g_apptok[b], b)
        /\ OpenTo(g_sockmap[b][call[b].s], b)
        /\ call[b].do = "accept" => /\ call[b].n \in FreeNumbers(b)
                                    /\ socktab[g_sockmap[b][call[b].s].id].st = "LISTEN"
    BY <2>1 DEF TableInv, ParkedOK
  <2>3. OpenTo(g_sockmap[b][call[b].s], b)'
    BY <1>1, <1>7, <2>2 
  <2>4. socktab[g_sockmap[b][call[b].s].id].st = "LISTEN" =>
           socktab'[g_sockmap[b][call[b].s].id].st = "LISTEN"
    BY <1>2, <2>2, Shapes
  <2>5. up' /\ UNCHANGED <<g_sockmap, call>>
    BY <1>1, <2>2 DEF tables
  <2> QED
    BY <1>4, <2>2, <2>3, <2>4, <2>5
<1> QED
  BY <1>5, <1>6, <1>8, <1>9, <1>10 DEF TableInv

(* Sockets end or are left to TCP, and numbers go.  What stays open keeps  *)
(* its number or has an unsent CLOSE, and no parked call loses its ground. *)
LEMMA FadeInv ==
    ASSUME TypeOK, TypeOK', NoWrap, TableInv,
           UNCHANGED <<up, apptab, opens, g_apptok, g_maxsoc>>, unsent \subseteq unsent',
           \A j \in SockSlot :
              \/ socktab'[j] = socktab[j]
              \/ Live(j) /\ socktab'[j] = Vacant(NextGen(socktab[j].gen))
              \/ socktab[j].st = "OPEN" /\ socktab'[j] = [socktab[j] EXCEPT !.st = "CLOSING"],
           \A c \in SockSlot : socktab'[c].st = "QUEUED" =>
                                  socktab'[socktab[c].lis] = socktab[socktab[c].lis],
           \A b \in Space, s \in Number : g_sockmap'[b][s] \in {g_sockmap[b][s], NoDesc},
           \A b \in Space, s \in Number, j \in SockSlot :
              /\ Holds(g_apptok[b], b) /\ g_sockmap[b][s] = SockDesc(j) /\ OpenTo(SockDesc(j), b)
              /\ socktab'[j] = socktab[j]
              => g_sockmap'[b][s] = SockDesc(j) \/ SockDesc(j) \in unsent',
           \A b \in Space : \A s \in InUse(b)' :
              Holds(g_apptok[b], b) /\ OpenTo(g_sockmap[b][s], b) =>
                 socktab'[g_sockmap[b][s].id].st # "CLOSING",
           \A b \in Space : Parked(b)' =>
              /\ call'[b] = call[b] /\ g_sockmap'[b] = g_sockmap[b]
              /\ OpenTo(g_sockmap[b][call[b].s], b) /\ call[b].s \in InUse(b) =>
                   LET i == g_sockmap[b][call[b].s].id IN socktab'[i] = socktab[i]
    PROVE  TableInv'
<1>1. \A j \in SockSlot :
         \/ socktab'[j] = socktab[j]
         \/ /\ Live(j) /\ socktab'[j].gen = socktab[j].gen + 1 /\ socktab'[j].st = "FREE"
         \/ /\ socktab[j].st = "OPEN" /\ socktab'[j].st = "CLOSING" /\ socktab'[j].gen = socktab[j].gen
            /\ socktab'[j].tok = socktab[j].tok
  <2>1. \A j \in SockSlot : Live(j) => NextGen(socktab[j].gen) = socktab[j].gen + 1
    BY NextGenStep, Shapes DEF TableInv, GenOK
  <2>2. \A g : Vacant(g).gen = g /\ Vacant(g).st = "FREE"
    BY DEF Vacant
  <2>3. ASSUME NEW j \in SockSlot, socktab'[j] = [socktab[j] EXCEPT !.st = "CLOSING"]
        PROVE  /\ socktab'[j].st = "CLOSING" /\ socktab'[j].gen = socktab[j].gen
               /\ socktab'[j].tok = socktab[j].tok
    BY <2>3 DEF TypeOK, StackType, Sock
  <2>4. ASSUME NEW j \in SockSlot, Live(j), socktab'[j] = Vacant(NextGen(socktab[j].gen))
        PROVE  socktab'[j].gen = socktab[j].gen + 1 /\ socktab'[j].st = "FREE"
    BY <2>1, <2>2, <2>4
  <2> QED
    BY <2>3, <2>4
<1>2. \A t, b : Holds(t, b)' <=> Holds(t, b)
  BY DEF Holds
<1>3. \A b \in Space : Holds(g_apptok[b], b)' <=> Holds(g_apptok[b], b)
  BY DEF Holds
<1>4. \A b \in Space : \A s \in InUse(b)' : s \in InUse(b) /\ g_sockmap'[b][s] = g_sockmap[b][s]
  BY DEF InUse
<1>5. \A j \in SockSlot : socktab'[j].st \in {"OPEN", "LISTEN", "QUEUED"} => socktab'[j] = socktab[j]
  BY <1>1
<1>6. GenOK'
  <2>1. \A j \in SockSlot : socktab'[j].gen <= IF Live(j)' THEN opens' ELSE opens' + 1
    BY <1>1, Shapes DEF TableInv, GenOK, Live
  <2>2. \A k \in AppSlot : apptab'[k].gen <= IF apptab'[k].who # NoSpace THEN opens' ELSE opens' + 1
    BY DEF TableInv, GenOK
  <2> QED
    BY <2>1, <2>2 DEF GenOK
<1>7. OwnersOK'
  BY <1>1, <1>2 DEF TableInv, OwnersOK, Live
<1>8. QueuesOK'
  BY <1>5, Shapes DEF TableInv, QueuesOK
<1>9. StaleOK'
  BY <1>3, <1>4 DEF TableInv, StaleOK
<1>10. OneToOne'
  BY <1>4 DEF TableInv, OneToOne
<1>11. MappedOK'
  <2>1. SUFFICES ASSUME NEW b \in Space, NEW s \in InUse(b)', Holds(g_apptok[b], b)
                 PROVE  \/ g_sockmap[b][s].gen < socktab'[g_sockmap[b][s].id].gen
                        \/ OpenTo(g_sockmap[b][s], b)'
    BY <1>3, <1>4 DEF MappedOK
  <2> DEFINE d == g_sockmap[b][s]
  <2>2. /\ s \in InUse(b) /\ g_sockmap'[b][s] = d
        /\ d.id \in SockSlot /\ d.gen \in Nat /\ socktab[d.id].gen \in Nat
    BY <1>4, Shapes
  <2>3. \A g, h \in Nat : h < g + 1 <=> h <= g
    OBVIOUS
  <2>4. \/ socktab'[d.id] = socktab[d.id]
        \/ /\ socktab[d.id].gen < socktab'[d.id].gen
           /\ \A g \in Nat : g < socktab[d.id].gen => g < socktab'[d.id].gen
        \/ socktab'[d.id].st = "CLOSING" /\ socktab'[d.id].gen = socktab[d.id].gen
    BY <1>1, <2>2, <2>3
  <2>5. CASE d.gen < socktab[d.id].gen
    BY <2>2, <2>4, <2>5
  <2>6. CASE OpenTo(d, b)
    <3>1. d.gen = socktab[d.id].gen /\ socktab'[d.id].st # "CLOSING"
      BY <2>1, <2>6 DEF OpenTo
    <3>2. CASE socktab'[d.id] = socktab[d.id]
      BY <2>2, <2>6, <3>2 DEF OpenTo
    <3> QED
      BY <2>4, <3>1, <3>2
  <2> QED
    BY <2>1, <2>2, <2>5, <2>6 DEF TableInv, MappedOK
<1>12. OrphansOK'
  <2>1. SUFFICES ASSUME NEW b \in Space, NEW j \in SockSlot, Holds(g_apptok[b], b),
                        socktab'[j].tok = g_apptok[b], socktab'[j].st \in {"OPEN", "LISTEN"}
                 PROVE  Named(j, b)'
    BY <1>3 DEF OrphansOK
  <2>2. /\ socktab'[j] = socktab[j] /\ SockDesc(j)' = SockDesc(j)
        /\ SockDesc(j).id = j /\ SockDesc(j).gen = socktab[j].gen
    BY <1>5, <2>1, Shapes DEF SockDesc
  <2>3. Named(j, b) /\ OpenTo(SockDesc(j), b)
    BY <2>1, <2>2 DEF TableInv, OrphansOK, OpenTo
  <2> QED
    BY <2>1, <2>2, <2>3 DEF Named
<1>13. ParkedOK'
  <2>1. ParkedOK
    BY DEF TableInv
  <2>2. ASSUME NEW b \in Space, Parked(b)' PROVE call[b].s \in InUse(b)
    BY <2>1, <2>2 DEF ParkedOK, Parked
  <2> QED
    BY <1>3, <2>1, <2>2, ParkedStays
<1> QED
  BY <1>6, <1>7, <1>8, <1>9, <1>10, <1>11, <1>12, <1>13 DEF TableInv

(* The number of a CLOSE goes, whatever the stack made of it.              *)
LEMMA CloseNumberInv ==
    ASSUME TypeOK, TypeOK', NoWrap, TableInv, NEW a \in Space, NEW s \in InUse(a),
           ~Parked(a), CloseNumber(a, s), ~Parked(a)', \A b \in Space \ {a} : call'[b] = call[b]
    PROVE  TableInv'
<1> DEFINE d == g_sockmap[a][s]
<1>1. /\ s \in Number /\ d \in Desc /\ d.id \in SockSlot
      /\ UNCHANGED <<up, apptab, opens, g_apptok, g_maxsoc>>
      /\ \A b \in Space, t \in Number : g_sockmap'[b][t] = IF b = a /\ t = s THEN NoDesc ELSE g_sockmap[b][t]
      /\ \A b \in Space \ {a} : g_sockmap'[b] = g_sockmap[b]
  BY Shapes DEF CloseNumber, Unmap, TypeOK, TableType
<1>2. s \notin InUse(a)'
  BY <1>1 DEF InUse
<1>3. \A b \in Space : Parked(b)' => b # a /\ Parked(b) /\ call'[b] = call[b] /\ g_sockmap'[b] = g_sockmap[b]
  BY <1>1 DEF Parked
<1>4. \A b \in Space, t \in Number : g_sockmap'[b][t] \in {g_sockmap[b][t], NoDesc}
  BY <1>1
(* The transport refuses, or the stack finds the descriptor stale.         *)
<1>5. ASSUME UNCHANGED socktab, unsent \subseteq unsent',
             Holds(g_apptok[a], a) /\ OpenTo(d, a) => d \in unsent'
      PROVE  TableInv'
  <2>1. \A b \in Space, t \in Number, j \in SockSlot :
           /\ Holds(g_apptok[b], b) /\ g_sockmap[b][t] = SockDesc(j) /\ OpenTo(SockDesc(j), b)
           => g_sockmap'[b][t] = SockDesc(j) \/ SockDesc(j) \in unsent'
    BY <1>1, <1>5
  <2>2. \A b \in Space : \A t \in InUse(b)' :
           Holds(g_apptok[b], b) /\ OpenTo(g_sockmap[b][t], b) =>
              socktab'[g_sockmap[b][t].id].st # "CLOSING"
    BY <1>5 DEF OpenTo
  <2> QED
    BY <1>1, <1>3, <1>4, <1>5, <2>1, <2>2, FadeInv
<1>6. ASSUME Served, Owned(d, a), UNCHANGED unsent,
             socktab'[d.id] # socktab[d.id],
             \A j \in SockSlot :
                \/ socktab'[j] = socktab[j]
                \/ Live(j) /\ socktab'[j] = Vacant(NextGen(socktab[j].gen))
                \/ /\ j = d.id /\ socktab[j].st = "OPEN"
                   /\ socktab'[j] = [socktab[j] EXCEPT !.st = "CLOSING"],
             \A c \in SockSlot : socktab'[c].st = "QUEUED" =>
                                    socktab'[socktab[c].lis] = socktab[socktab[c].lis]
      PROVE  TableInv'
  <2>1. Holds(g_apptok[a], a) /\ OpenTo(d, a)
    BY <1>6, OwnNumber
  <2>2. \A b \in Space : ~Parked(b)'
    BY <1>3, <1>6 DEF Served
  <2>3. ASSUME NEW b \in Space, NEW t \in Number, NEW j \in SockSlot,
               Holds(g_apptok[b], b), g_sockmap[b][t] = SockDesc(j), socktab'[j] = socktab[j]
        PROVE  g_sockmap'[b][t] = SockDesc(j)
    BY <1>1, <1>6, <2>3, Shapes
  <2>4. ASSUME NEW b \in Space, NEW t \in InUse(b)', Holds(g_apptok[b], b), OpenTo(g_sockmap[b][t], b),
               socktab'[g_sockmap[b][t].id].st = "CLOSING"
        PROVE  FALSE
    <3>1. t \in InUse(b) /\ g_sockmap[b][t] \in Desc /\ g_sockmap[b][t].id \in SockSlot
      BY <1>1, Shapes DEF InUse
    <3>2. g_sockmap[b][t].id = d.id
      <4>1. socktab[g_sockmap[b][t].id].st # "CLOSING"
        BY <2>4 DEF OpenTo
      <4>2. \A g : Vacant(g).st # "CLOSING"
        BY DEF Vacant
      <4>3. ASSUME NEW j \in SockSlot, socktab'[j].st = "CLOSING", socktab[j].st # "CLOSING"
            PROVE  j = d.id
        <5>1. CASE socktab'[j] = socktab[j]
          BY <4>3, <5>1
        <5>2. CASE socktab'[j] = Vacant(NextGen(socktab[j].gen))
          BY <4>2, <4>3, <5>2
        <5> QED
          BY <1>6, <5>1, <5>2
      <4> QED
        BY <2>4, <3>1, <4>1, <4>3
    <3>3. b = a
      BY <2>1, <2>4, <3>2, OneHolder DEF OpenTo
    <3>4. g_sockmap[b][t] = d
      BY <1>1, <2>1, <2>4, <3>1, <3>2, Names DEF OpenTo
    <3> QED
      BY <1>2, <2>4, <3>1, <3>3, <3>4 DEF TableInv, OneToOne
  <2>5. \A b \in Space, t \in Number, j \in SockSlot :
           /\ Holds(g_apptok[b], b) /\ g_sockmap[b][t] = SockDesc(j) /\ OpenTo(SockDesc(j), b)
           /\ socktab'[j] = socktab[j]
           => g_sockmap'[b][t] = SockDesc(j) \/ SockDesc(j) \in unsent'
    BY <2>3
  <2>6. \A b \in Space : \A t \in InUse(b)' :
           Holds(g_apptok[b], b) /\ OpenTo(g_sockmap[b][t], b) =>
              socktab'[g_sockmap[b][t].id].st # "CLOSING"
    BY <2>4
  <2>7. \A j \in SockSlot :
           \/ socktab'[j] = socktab[j]
           \/ Live(j) /\ socktab'[j] = Vacant(NextGen(socktab[j].gen))
           \/ socktab[j].st = "OPEN" /\ socktab'[j] = [socktab[j] EXCEPT !.st = "CLOSING"]
    BY <1>6
  <2> QED
    BY <1>1, <1>4, <1>6, <2>2, <2>5, <2>6, <2>7, FadeInv
<1>7. CASE unsent' = unsent \cup {d} /\ UNCHANGED socktab
  BY <1>5, <1>7
<1>8. CASE Served /\ ~Owned(d, a) /\ UNCHANGED <<unsent, socktab>>
  BY <1>5, <1>8, OwnNumber
<1>9. CASE /\ Served /\ Owned(d, a) /\ UNCHANGED unsent
           /\ socktab' = Vacated({d.id} \cup Queue(d.id))
  <2>1. \A j \in SockSlot :
           /\ j \in {d.id} \cup Queue(d.id) =>
                 Live(j) /\ socktab'[j] = Vacant(NextGen(socktab[j].gen))
           /\ j \notin {d.id} \cup Queue(d.id) => socktab'[j] = socktab[j]
    BY <1>1, <1>9, VacatedType DEF Owned, Resolves, Queue, Live, TypeOK, StackType
  <2>2. \A g : Vacant(g).st = "FREE"
    BY DEF Vacant
  <2>3. socktab'[d.id] # socktab[d.id]
    BY <1>1, <2>1, <2>2 DEF Live
  <2>4. ASSUME NEW c \in SockSlot, socktab'[c].st = "QUEUED"
        PROVE  socktab'[socktab[c].lis] = socktab[socktab[c].lis]
    <3>1. c \notin {d.id} \cup Queue(d.id) /\ socktab[c].st = "QUEUED"
      BY <2>1, <2>2, <2>4
    <3>2. socktab[c].lis # d.id /\ socktab[socktab[c].lis].st = "LISTEN"
      BY <3>1 DEF Queue, TableInv, QueuesOK
    <3>3. socktab[c].lis \notin Queue(d.id)
      BY <3>2 DEF Queue
    <3> QED
      BY <2>1, <3>2, <3>3, Shapes
  <2> QED
    BY <1>6, <1>9, <2>1, <2>3, <2>4
<1>10. CASE /\ Served /\ Owned(d, a) /\ UNCHANGED unsent /\ socktab[d.id].st = "OPEN"
            /\ socktab' = [socktab EXCEPT ![d.id].st = "CLOSING"]
  <2>1. /\ socktab'[d.id] = [socktab[d.id] EXCEPT !.st = "CLOSING"]
        /\ socktab'[d.id].st = "CLOSING"
        /\ \A j \in SockSlot \ {d.id} : socktab'[j] = socktab[j]
    <3>1. /\ socktab'[d.id] = [socktab[d.id] EXCEPT !.st = "CLOSING"]
          /\ \A j \in SockSlot \ {d.id} : socktab'[j] = socktab[j]
      BY <1>1, <1>10 DEF TypeOK, StackType
    <3>2. [socktab[d.id] EXCEPT !.st = "CLOSING"].st = "CLOSING"
      BY <1>1 DEF TypeOK, StackType, Sock
    <3> QED
      BY <3>1, <3>2
  <2>2. \A c \in SockSlot : socktab'[c].st = "QUEUED" =>
                               socktab'[socktab[c].lis] = socktab[socktab[c].lis]
    BY <1>10, <2>1, Shapes DEF TableInv, QueuesOK
  <2> QED
    BY <1>1, <1>6, <1>10, <2>1, <2>2
<1> QED
  BY <1>7, <1>8, <1>9, <1>10 DEF CloseNumber, StackCloses

LEMMA TermCloseInv ==
    ASSUME TypeOK, TypeOK', NoWrap, TableInv, NEW a \in Space, TermClose(a)
    PROVE  TableInv'
<1>1. PICK s \in InUse(a) : CloseNumber(a, s)
  BY DEF TermClose, Lowest
<1>2. ~Parked(a) /\ ~Parked(a)' /\ \A b \in Space \ {a} : call'[b] = call[b]
  BY DEF TermClose, Parked, Parking, Idle, Doing, TypeOK
<1> QED
  BY <1>1, <1>2, CloseNumberInv

LEMMA CloseInv ==
    ASSUME TypeOK, TypeOK', NoWrap, TableInv, NEW a \in Space, NEW s \in Number, Close(a, s)
    PROVE  TableInv'
<1>1. s \in InUse(a)
  BY DEF Close, Desc_, InUse
<1>2. ~Parked(a) /\ ~Parked(a)' /\ \A b \in Space \ {a} : call'[b] = call[b]
  BY DEF Close, Parked, Parking, Idle, Doing
<1> QED
  BY <1>1, <1>2, CloseNumberInv DEF Close

LEMMA PeerEndsInv ==
    ASSUME TypeOK, TypeOK', NoWrap, TableInv, NEW i \in SockSlot, PeerEnds(i)
    PROVE  TableInv'
<1>1. /\ UNCHANGED <<up, apptab, unsent, opens, g_apptok, g_maxsoc, g_sockmap>>
      /\ socktab' = Vacated({i}) /\ call' = Aborted({i})
      /\ socktab[i].st \in {"OPEN", "QUEUED", "CLOSING"}
  BY DEF PeerEnds, tables
<1>2. /\ socktab'[i] = Vacant(NextGen(socktab[i].gen)) /\ Live(i)
      /\ \A j \in SockSlot : j # i => socktab'[j] = socktab[j]
  BY <1>1, VacatedType DEF TypeOK, StackType, Live
<1>3. socktab'[i].st = "FREE"
  BY <1>2 DEF Vacant
<1>4. ASSUME NEW c \in SockSlot, socktab'[c].st = "QUEUED"
      PROVE  socktab'[socktab[c].lis] = socktab[socktab[c].lis]
  <2>1. socktab[c].st = "QUEUED"
    BY <1>2, <1>3, <1>4
  <2>2. socktab[c].lis \in SockSlot /\ socktab[c].lis # i
    BY <1>1, <2>1, Shapes DEF TableInv, QueuesOK
  <2> QED
    BY <1>2, <2>2
<1>5. ASSUME NEW b \in Space, NEW s \in InUse(b)', OpenTo(g_sockmap[b][s], b),
             socktab'[g_sockmap[b][s].id].st = "CLOSING"
      PROVE  FALSE
  <2>1. g_sockmap[b][s].id \in SockSlot
    BY <1>1, Shapes DEF InUse
  <2> QED
    BY <1>2, <1>3, <1>5, <2>1 DEF OpenTo
<1>6. ASSUME NEW b \in Space, Parked(b)'
      PROVE  /\ call'[b] = call[b]
             /\ call[b].s \in InUse(b) =>
                   socktab'[g_sockmap[b][call[b].s].id] = socktab[g_sockmap[b][call[b].s].id]
  <2>1. call'[b] = call[b] /\ ~(Parked(b) /\ Desc_(b, call[b].s).id \in {i})
    BY <1>1, <1>6 DEF Aborted, Parked, Parking, Idle, Doing
  <2>2. Parked(b)
    BY <1>6, <2>1 DEF Parked
  <2>3. call[b].s \in InUse(b) => g_sockmap[b][call[b].s].id # i
    BY <2>1, <2>2 DEF Desc_, TableInv, StaleOK
  <2> QED
    BY <1>2, <2>1, <2>3, Shapes
<1>7. \A b \in Space, s \in Number : g_sockmap'[b][s] = g_sockmap[b][s]
  BY <1>1
<1> QED
  BY <1>1, <1>2, <1>4, <1>5, <1>6, <1>7, FadeInv

(* The table of one space goes; the stack is as it was.                    *)
LEMMA LeavesInv ==
    ASSUME TypeOK, TypeOK', NoWrap, TableInv, NEW a \in Space,
           UNCHANGED <<up, apptab, socktab, unsent, opens>>,
           g_apptok'[a] = NoToken, InUse(a)' = {},
           \A b \in Space \ {a} : /\ g_apptok'[b] = g_apptok[b] /\ g_maxsoc'[b] = g_maxsoc[b]
                                  /\ g_sockmap'[b] = g_sockmap[b],
           \A b \in Space : Parked(b)' => b # a /\ call'[b] = call[b]
    PROVE  TableInv'
<1>1. GenOK' /\ QueuesOK'
  BY DEF TableInv, GenOK, QueuesOK, Live
<1>2. \A t, b : Holds(t, b)' <=> Holds(t, b)
  BY DEF Holds
<1>3. \A b \in Space : Holds(g_apptok[b], b)' => b # a /\ Holds(g_apptok[b], b)
  BY DEF Holds
<1>4. \A b \in Space \ {a} : Holds(g_apptok[b], b)' <=> Holds(g_apptok[b], b)
  BY DEF Holds
<1>5. \A b \in Space \ {a} : InUse(b)' = InUse(b)
  BY DEF InUse
<1>6. OwnersOK'
  BY <1>2 DEF TableInv, OwnersOK, Live
<1>7. StaleOK'
  BY <1>4, <1>5 DEF TableInv, StaleOK
<1>8. OneToOne'
  BY <1>5 DEF TableInv, OneToOne
<1>9. MappedOK'
  BY <1>3, <1>5 DEF TableInv, MappedOK, OpenTo
<1>10. OrphansOK'
  BY <1>3 DEF TableInv, OrphansOK, Named, SockDesc
<1>11. ParkedOK'
  BY <1>4, ParkedStays DEF TableInv
<1> QED
  BY <1>1, <1>6, <1>7, <1>8, <1>9, <1>10, <1>11 DEF TableInv

LEMMA NextProgramInv ==
    ASSUME TypeOK, TypeOK', NoWrap, TableInv, NEW a \in Space, NextProgram(a)
    PROVE  TableInv'
<1>1. g_apptok'[a] = NoToken /\ InUse(a)' = {}
  BY DEF NextProgram, FreshTable, InUse, TypeOK, TableType
<1>2. \A b \in Space \ {a} : /\ g_apptok'[b] = g_apptok[b] /\ g_maxsoc'[b] = g_maxsoc[b]
                             /\ g_sockmap'[b] = g_sockmap[b]
  BY DEF NextProgram, FreshTable, TypeOK, TableType
<1>3. \A b \in Space : Parked(b)' => b # a /\ call'[b] = call[b]
  BY DEF NextProgram, Returns, Parked, Parking, Idle, Doing, TypeOK
<1> QED
  BY <1>1, <1>2, <1>3, LeavesInv DEF NextProgram, stack

(* The registration of a table with no number in use goes, at the stack    *)
(* with the sockets it still has, or on this side alone.                   *)
LEMMA TermEndInv ==
    ASSUME TypeOK, TypeOK', NoWrap, TableInv, NEW a \in Space, TermEnd(a)
    PROVE  TableInv'
<1> DEFINE tok == g_apptok[a]
<1>1. /\ UNCHANGED <<up, unsent, opens, g_sockmap>> /\ InUse(a) = {} /\ tok # NoToken
      /\ g_apptok'[a] = NoToken /\ InUse(a)' = {}
      /\ \A b \in Space \ {a} : /\ g_apptok'[b] = g_apptok[b] /\ g_maxsoc'[b] = g_maxsoc[b]
                                /\ g_sockmap'[b] = g_sockmap[b] /\ InUse(b)' = InUse(b)
  BY DEF TermEnd, InUse, TypeOK, TableType
<1>2. \A b \in Space : Parked(b)' => b # a /\ call'[b] = call[b] /\ Parked(b)
  BY DEF TermEnd, Returns, Parked, Parking, Idle, Doing, TypeOK
<1>3. CASE UNCHANGED <<socktab, apptab>>
  BY <1>1, <1>2, <1>3, LeavesInv
<1>4. CASE /\ Served /\ Holds(tok, a)
           /\ socktab' = Vacated({i \in SockSlot : Live(i) /\ socktab[i].tok = tok})
           /\ apptab' = [apptab EXCEPT ![tok.idx] = FreeApp(NextGen(apptab[tok.idx].gen))]
  <2>1. /\ tok \in Token /\ tok.idx \in AppSlot /\ apptab[tok.idx].who = a
        /\ apptab[tok.idx].gen = tok.gen
    BY <1>1, <1>4, Shapes DEF Holds
  <2>2. /\ \A j \in AppSlot \ {tok.idx} : apptab'[j] = apptab[j]
        /\ apptab'[tok.idx].who = NoSpace /\ apptab'[tok.idx].gen = apptab[tok.idx].gen + 1
    <3>1. NextGen(apptab[tok.idx].gen) = apptab[tok.idx].gen + 1
      BY <2>1, NamesAssumption, NextGenStep, Shapes DEF TableInv, GenOK
    <3> QED
      BY <1>4, <2>1, <3>1 DEF TypeOK, StackType, FreeApp
  <2>3. \A j \in SockSlot :
           \/ socktab'[j] = socktab[j] /\ (Live(j) => socktab[j].tok # tok)
           \/ /\ Live(j) /\ socktab[j].tok = tok
              /\ socktab'[j].gen = socktab[j].gen + 1 /\ socktab'[j].st = "FREE"
    <3>1. \A j \in SockSlot : Live(j) => NextGen(socktab[j].gen) = socktab[j].gen + 1
      BY NextGenStep, Shapes DEF TableInv, GenOK
    <3>2. \A g : Vacant(g).gen = g /\ Vacant(g).st = "FREE"
      BY DEF Vacant
    <3>3. \A j \in SockSlot :
             \/ socktab'[j] = socktab[j] /\ ~(Live(j) /\ socktab[j].tok = tok)
             \/ Live(j) /\ socktab[j].tok = tok /\ socktab'[j] = Vacant(NextGen(socktab[j].gen))
      BY <1>4, VacatedType DEF TypeOK, StackType
    <3> QED
      BY <3>1, <3>2, <3>3
  <2>4. \A b \in Space : ~Parked(b)'
    BY <1>2, <1>4 DEF Served
  (* Every other token is held as before.                                  *)
  <2>5. \A t \in Token \cup {NoToken}, b \in Space : t # tok => (Holds(t, b)' <=> Holds(t, b))
    <3>1. \A t \in Token : t # tok => t.idx # tok.idx \/ t.gen # tok.gen
      BY <2>1, Names
    <3> QED
      BY <2>1, <2>2, <3>1, NamesAssumption, Shapes DEF Holds
  <2>6. \A b \in Space : b # a => ~Holds(tok, b)
    BY <1>4, OneHolder
  <2>7. \A b \in Space \ {a} : /\ Holds(g_apptok[b], b)' => Holds(g_apptok[b], b) /\ g_apptok[b] # tok
                               /\ Holds(g_apptok[b], b) => Holds(g_apptok[b], b)'
    <3>1. \A t, b : t = tok /\ b \in Space \ {a} => ~Holds(t, b)'
      BY <2>1, <2>2, NamesAssumption DEF Holds
    <3>2. \A b \in Space \ {a} :
             g_apptok[b] = tok => ~Holds(g_apptok[b], b)' /\ ~Holds(g_apptok[b], b)
      BY <1>1, <2>6, <3>1
    <3>3. \A b \in Space \ {a} : g_apptok[b] # tok => (Holds(g_apptok[b], b)' <=> Holds(g_apptok[b], b))
      BY <1>1, <2>5, Shapes
    <3> QED
      BY <3>2, <3>3
  <2>8. ~Holds(g_apptok[a], a)'
    BY <1>1 DEF Holds
  <2>9. GenOK'
    <3>1. \A j \in SockSlot : socktab'[j].gen <= IF Live(j)' THEN opens' ELSE opens' + 1
      BY <1>1, <2>3, Shapes DEF TableInv, GenOK, Live
    <3>2. \A k \in AppSlot : apptab'[k].gen <= IF apptab'[k].who # NoSpace THEN opens' ELSE opens' + 1
      BY <1>1, <2>1, <2>2, NamesAssumption, Shapes DEF TableInv, GenOK
    <3> QED
      BY <3>1, <3>2 DEF GenOK
  <2>10. OwnersOK'
    <3>1. SUFFICES ASSUME NEW j \in SockSlot, Live(j)' PROVE \E b \in Space : Holds(socktab[j].tok, b)'
      BY DEF OwnersOK
    <3>2. socktab'[j] = socktab[j] /\ Live(j) /\ socktab[j].tok # tok
      BY <2>3, <3>1 DEF Live
    <3>3. PICK b \in Space : Holds(socktab[j].tok, b)
      BY <3>2 DEF TableInv, OwnersOK
    <3>4. \A t : t = socktab[j].tok => Holds(t, b)'
      BY <2>5, <3>2, <3>3, Shapes
    <3> QED
      BY <3>2, <3>4
  <2>11. QueuesOK'
    BY <2>3, Shapes DEF TableInv, QueuesOK, Live
  <2>12. StaleOK'
    <3>1. \A b \in Space \ {a} : (\A k \in AppSlot : apptab[k].who # b) => \A k \in AppSlot : apptab'[k].who # b
      BY <2>2, NamesAssumption
    <3> QED
      BY <1>1, <2>7, <3>1 DEF TableInv, StaleOK
  <2>13. OneToOne'
    BY <1>1 DEF TableInv, OneToOne
  <2>14. MappedOK'
    <3>1. SUFFICES ASSUME NEW b \in Space \ {a}, NEW s \in InUse(b), Holds(g_apptok[b], b), g_apptok[b] # tok
                   PROVE  \/ g_sockmap[b][s].gen < socktab'[g_sockmap[b][s].id].gen
                          \/ OpenTo(g_sockmap[b][s], b)'
      BY <1>1, <2>7, <2>8 DEF MappedOK
    <3> DEFINE d == g_sockmap[b][s]
    <3>2. d.id \in SockSlot /\ d.gen \in Nat /\ socktab[d.id].gen \in Nat
      BY Shapes
    <3>3. CASE d.gen < socktab[d.id].gen
      BY <2>3, <3>2, <3>3
    <3>4. CASE OpenTo(d, b)
      <4>1. socktab'[d.id] = socktab[d.id]
        BY <2>3, <3>1, <3>2, <3>4 DEF OpenTo
      <4> QED
        BY <1>1, <3>4, <4>1 DEF OpenTo
    <3> QED
      BY <3>1, <3>3, <3>4 DEF TableInv, MappedOK
  <2>15. OrphansOK'
    <3>1. SUFFICES ASSUME NEW b \in Space \ {a}, NEW j \in SockSlot, Holds(g_apptok[b], b),
                          socktab'[j].tok = g_apptok[b], socktab'[j].st \in {"OPEN", "LISTEN"}
                   PROVE  Named(j, b)'
      BY <1>1, <2>7, <2>8 DEF OrphansOK
    <3>2. socktab'[j] = socktab[j]
      BY <2>3, <3>1
    <3>3. Named(j, b)
      BY <3>1, <3>2 DEF TableInv, OrphansOK
    <3> QED
      BY <1>1, <3>2, <3>3 DEF Named, SockDesc
  <2>16. ParkedOK'
    BY <2>4 DEF ParkedOK
  <2> QED
    BY <2>9, <2>10, <2>11, <2>12, <2>13, <2>14, <2>15, <2>16 DEF TableInv
<1> QED
  BY <1>3, <1>4 DEF TermEnd, StackTerms

(* A connection arrives in a slot no number of a standing registration     *)
(* leads to.                                                               *)
LEMMA ArriveInv ==
    ASSUME TypeOK, TypeOK', NoWrap, TableInv, NEW i \in SockSlot, Arrive(i)
    PROVE  TableInv'
<1>1. PICK c \in FreeSocks :
         socktab' = [socktab EXCEPT ![c].st = "QUEUED", ![c].tok = socktab[i].tok, ![c].lis = i]
  BY DEF Arrive, Lowest
<1>2. /\ UNCHANGED <<up, apptab, unsent, tables, call>> /\ opens' = opens + 1
      /\ socktab[i].st = "LISTEN"
  BY DEF Arrive
<1>3. c \in SockSlot /\ socktab[c].st = "FREE" /\ c # i /\ Live(i)
  BY <1>2 DEF FreeSocks, Live
<1>4. /\ socktab'[c].st = "QUEUED" /\ socktab'[c].tok = socktab[i].tok /\ socktab'[c].lis = i
      /\ socktab'[c].gen = socktab[c].gen
      /\ \A j \in SockSlot \ {c} : socktab'[j] = socktab[j]
  BY <1>1, <1>3 DEF TypeOK, StackType, Sock
<1>5. \A t, b : Holds(t, b)' <=> Holds(t, b)
  BY <1>2 DEF Holds
<1>6. \A b \in Space : /\ Holds(g_apptok[b], b)' <=> Holds(g_apptok[b], b)
                       /\ InUse(b)' = InUse(b)
  BY <1>2 DEF Holds, tables, InUse
<1>7. GenOK'
  <2>1. \A j \in SockSlot : socktab'[j].gen <= IF Live(j)' THEN opens' ELSE opens' + 1
    BY <1>2, <1>3, <1>4, Shapes DEF TableInv, GenOK, Live
  <2>2. \A k \in AppSlot : apptab'[k].gen <= IF apptab'[k].who # NoSpace THEN opens' ELSE opens' + 1
    BY <1>2, Shapes DEF TableInv, GenOK
  <2> QED
    BY <2>1, <2>2 DEF GenOK
<1>8. OwnersOK'
  <2>1. \A j \in SockSlot : Live(j)' => \E h \in SockSlot : Live(h) /\ socktab'[j].tok = socktab[h].tok
    BY <1>3, <1>4 DEF Live
  <2>2. ASSUME NEW j \in SockSlot, Live(j)'
        PROVE  \E b \in Space : Holds(socktab[j].tok, b)'
    <3>1. PICK h \in SockSlot : Live(h) /\ socktab'[j].tok = socktab[h].tok
      BY <2>1, <2>2
    <3>2. PICK b \in Space : Holds(socktab[h].tok, b)
      BY <3>1 DEF TableInv, OwnersOK
    <3> QED
      BY <1>2, <3>1, <3>2 DEF Holds
  <2> QED
    BY <2>2 DEF OwnersOK
<1>9. QueuesOK'
  BY <1>2, <1>3, <1>4, Shapes DEF TableInv, QueuesOK
<1>10. StaleOK' /\ OneToOne'
  BY <1>2, <1>6 DEF TableInv, StaleOK, OneToOne, tables
<1>11. MappedOK'
  <2>1. ASSUME NEW b \in Space, NEW s \in InUse(b), Holds(g_apptok[b], b)
        PROVE  \/ g_sockmap[b][s].gen < socktab'[g_sockmap[b][s].id].gen
               \/ OpenTo(g_sockmap[b][s], b)'
    <3>1. g_sockmap[b][s].id \in SockSlot
      BY Shapes
    <3>2. CASE g_sockmap[b][s].id = c
      BY <1>3, <1>4, <2>1, <3>2 DEF TableInv, MappedOK, OpenTo
    <3>3. CASE g_sockmap[b][s].id # c
      BY <1>2, <1>4, <2>1, <3>1, <3>3 DEF TableInv, MappedOK, OpenTo, tables
    <3> QED
      BY <3>2, <3>3
  <2> QED
    BY <1>2, <1>6, <2>1 DEF MappedOK, tables
<1>12. OrphansOK'
  BY <1>2, <1>4, <1>6 DEF TableInv, OrphansOK, Named, SockDesc, tables
<1>13. ParkedOK'
  <2>1. \A b \in Space : OpenTo(g_sockmap[b][call[b].s], b) => g_sockmap[b][call[b].s].id # c
    BY <1>3 DEF OpenTo
  <2>2. /\ ParkedOK
        /\ \A b \in Space : /\ call'[b] = call[b] /\ g_apptok'[b] = g_apptok[b]
                            /\ g_maxsoc'[b] = g_maxsoc[b] /\ g_sockmap'[b] = g_sockmap[b]
    BY <1>2 DEF TableInv, tables
  <2> QED
    BY <1>2, <1>4, <1>6, <2>1, <2>2, ParkedStays
<1> QED
  BY <1>7, <1>8, <1>9, <1>10, <1>11, <1>12, <1>13 DEF TableInv

(* With the stack go the registry, the sockets and every parked call; the  *)
(* programs keep their stale tables.                                       *)
LEMMA StackEndsInv ==
    ASSUME TypeOK, TypeOK', NoWrap, TableInv, StackEnds
    PROVE  TableInv'
<1>1. /\ apptab' = [k \in AppSlot |-> FreeApp(1)]
      /\ socktab' = [i \in SockSlot |-> Vacant(1)]
      /\ UNCHANGED <<opens, tables>> /\ call' = Aborted(SockSlot)
  BY DEF StackEnds
<1>2. \A k \in AppSlot : apptab'[k].who = NoSpace /\ apptab'[k].gen = 1
  BY <1>1 DEF FreeApp
<1>3. \A i \in SockSlot : socktab'[i].st = "FREE" /\ socktab'[i].gen = 1
  BY <1>1 DEF Vacant
<1>4. \A b \in Space : ~Holds(g_apptok[b], b)'
  <2>1. \A b \in Space : g_apptok'[b] # NoToken => g_apptok'[b].idx \in AppSlot
    BY <1>1, Shapes DEF tables
  <2> QED
    BY <1>2, <2>1, NamesAssumption DEF Holds
<1>5. ParkedOK'
  <2>1. SUFFICES ASSUME NEW b \in Space, Parked(b)' PROVE FALSE
    BY DEF ParkedOK
  <2>2. Parked(b) /\ Desc_(b, call[b].s).id \notin SockSlot
    BY <1>1, <2>1 DEF Aborted, Parked, Parking, Idle, Doing
  <2>3. call[b].s \in InUse(b) /\ call[b].s < g_maxsoc[b]
    BY <2>2 DEF TableInv, ParkedOK, StaleOK
  <2> QED
    BY <2>2, <2>3, Shapes DEF Desc_
<1>6. GenOK'
  BY <1>1, <1>2, <1>3, Shapes DEF GenOK, Live
<1>7. OwnersOK' /\ QueuesOK'
  BY <1>3 DEF OwnersOK, QueuesOK, Live
<1>8. StaleOK'
  BY <1>1, <1>2, NamesAssumption DEF TableInv, StaleOK, tables, InUse
<1>9. OneToOne'
  BY <1>1 DEF TableInv, OneToOne, tables, InUse
<1>10. MappedOK' /\ OrphansOK'
  BY <1>4 DEF MappedOK, OrphansOK
<1> QED
  BY <1>5, <1>6, <1>7, <1>8, <1>9, <1>10 DEF TableInv

LEMMA StackStartsInv ==
    ASSUME TypeOK, TypeOK', NoWrap, TableInv, StackStarts
    PROVE  TableInv'
<1>1. up' /\ UNCHANGED <<apptab, socktab, unsent, opens, tables, call>>
  BY DEF StackStarts
<1>2. ParkedOK'
  BY <1>1, ParkedStays DEF TableInv, tables, Holds
<1> QED
  BY <1>1, <1>2, CallOnly DEF tables

LEMMA StutterInv ==
    ASSUME TypeOK, TypeOK', NoWrap, TableInv, UNCHANGED vars
    PROVE  TableInv'
<1>1. ParkedOK'
  BY ParkedStays DEF TableInv, vars, stack, tables, Holds
<1> QED
  BY <1>1, CallOnly DEF vars, stack, tables

(* Generations only go round when more was opened than there are of them.  *)
LEMMA OpensGrow == ASSUME TypeOK, [Next]_vars PROVE opens <= opens'
<1>1. opens \in Nat
  BY DEF TypeOK, StackType
<1>2. UNCHANGED opens \/ opens' = opens + 1
  <2>1. ASSUME NEW a \in Space, Client(a) PROVE UNCHANGED opens \/ opens' = opens + 1
    <3>1. ASSUME NEW m, NEW next, Register(a, m, next) PROVE UNCHANGED opens \/ opens' = opens + 1
      BY <3>1 DEF Register
    <3>2. CASE InitApi(a) \/ ImplicitInit(a)
      BY <3>1, <3>2 DEF InitApi, ImplicitInit
    <3>3. CASE Socket(a)
      BY <3>3 DEF Socket
    <3>4. CASE TermClose(a) \/ TermEnd(a)
      BY <3>4 DEF TermClose, TermEnd, CloseNumber
    <3>5. ASSUME NEW s \in Number, OnNumber(a, s) PROVE UNCHANGED opens
      <4>1. CASE Listen(a, s) \/ Close(a, s)
        BY <4>1 DEF Listen, Close, CloseNumber
      <4>2. CASE Accept(a, s)
        BY <4>2 DEF Accept, Deliver, stack
      <4>3. CASE \E nonblock \in BOOLEAN : SetMode(a, s, nonblock)
        BY <4>3 DEF SetMode, stack
      <4>4. CASE \E verb \in Parking \ {"accept"}, dontwait \in BOOLEAN : Transfer(a, s, verb, dontwait)
        BY <4>4 DEF Transfer, stack
      <4> QED
        BY <3>5, <4>1, <4>2, <4>3, <4>4 DEF OnNumber
    <3> QED
      BY <2>1, <3>2, <3>3, <3>4, <3>5 DEF Client
  <2>2. ASSUME NEW a \in Space, NextProgram(a) \/ AcceptAnswered(a) \/ TransferAnswered(a)
        PROVE  UNCHANGED opens
    BY <2>2 DEF NextProgram, AcceptAnswered, TransferAnswered, Deliver, stack
  <2>3. ASSUME NEW i \in SockSlot, Arrive(i) \/ PeerEnds(i)
        PROVE  UNCHANGED opens \/ opens' = opens + 1
    BY <2>3 DEF Arrive, PeerEnds
  <2>4. CASE StackEnds \/ StackStarts \/ UNCHANGED vars
    BY <2>4 DEF StackEnds, StackStarts, vars, stack
  <2> QED
    BY <2>1, <2>2, <2>3, <2>4 DEF Next
<1> QED
  BY <1>1, <1>2

LEMMA NextIInv == IInv /\ [Next]_vars => IInv'
<1> SUFFICES ASSUME IInv, [Next]_vars PROVE IInv'
  OBVIOUS
<1>1. TypeOK /\ TypeOK'
  BY NextType DEF IInv
<1>2. SUFFICES ASSUME NoWrap' PROVE TableInv'
  BY <1>1 DEF IInv
<1>3. NoWrap
  <2>1. opens \in Nat /\ opens' \in Nat /\ opens <= opens'
    BY <1>1, OpensGrow DEF TypeOK, StackType
  <2> QED
    BY <1>2, <2>1, SizesAssumption DEF NoWrap
<1>4. TableInv
  BY <1>3 DEF IInv
<1>5. ASSUME NEW a \in Space, Client(a) PROVE TableInv'
  <2>1. CASE InitApi(a)
    <3>1. PICK m \in 1 .. SockMax : Register(a, m, Idle)
      BY <2>1 DEF InitApi
    <3> QED
      BY <1>1, <1>3, <1>4, <3>1, RegisterInv
  <2>2. CASE ImplicitInit(a)
    <3>1. SockMax \in 1 .. SockMax
      BY SizesAssumption
    <3> QED
      BY <1>1, <1>3, <1>4, <2>2, <3>1, RegisterInv DEF ImplicitInit
  <2>3. CASE Socket(a)
    BY <1>1, <1>3, <1>4, <2>3, SocketInv
  <2>4. CASE TermClose(a)
    BY <1>1, <1>3, <1>4, <2>4, TermCloseInv
  <2>5. CASE TermEnd(a)
    BY <1>1, <1>3, <1>4, <2>5, TermEndInv
  <2>6. ASSUME NEW s \in Number, OnNumber(a, s) PROVE TableInv'
    <3>1. CASE Listen(a, s)
      BY <1>1, <1>3, <1>4, <3>1, ListenInv
    <3>2. CASE Accept(a, s)
      BY <1>1, <1>3, <1>4, <3>2, AcceptInv
    <3>3. CASE Close(a, s)
      BY <1>1, <1>3, <1>4, <3>3, CloseInv
    <3>4. ASSUME NEW nonblock \in BOOLEAN, SetMode(a, s, nonblock) PROVE TableInv'
      BY <1>1, <1>3, <1>4, <3>4, SetModeInv
    <3>5. ASSUME NEW verb \in Parking \ {"accept"}, NEW dontwait \in BOOLEAN,
                 Transfer(a, s, verb, dontwait)
          PROVE  TableInv'
      BY <1>1, <1>3, <1>4, <3>5, TransferInv
    <3> QED
      BY <2>6, <3>1, <3>2, <3>3, <3>4, <3>5 DEF OnNumber
  <2> QED
    BY <1>5, <2>1, <2>2, <2>3, <2>4, <2>5, <2>6 DEF Client
<1>6. ASSUME NEW a \in Space, NextProgram(a) PROVE TableInv'
  BY <1>1, <1>3, <1>4, <1>6, NextProgramInv
<1>7. ASSUME NEW a \in Space, AcceptAnswered(a) PROVE TableInv'
  BY <1>1, <1>3, <1>4, <1>7, AcceptAnsweredInv
<1>8. ASSUME NEW a \in Space, TransferAnswered(a) PROVE TableInv'
  BY <1>1, <1>3, <1>4, <1>8, TransferAnsweredInv
<1>9. ASSUME NEW i \in SockSlot, Arrive(i) PROVE TableInv'
  BY <1>1, <1>3, <1>4, <1>9, ArriveInv
<1>10. ASSUME NEW i \in SockSlot, PeerEnds(i) PROVE TableInv'
  BY <1>1, <1>3, <1>4, <1>10, PeerEndsInv
<1>11. CASE StackEnds
  BY <1>1, <1>3, <1>4, <1>11, StackEndsInv
<1>12. CASE StackStarts
  BY <1>1, <1>3, <1>4, <1>12, StackStartsInv
<1>13. CASE UNCHANGED vars
  BY <1>1, <1>3, <1>4, <1>13, StutterInv
<1> QED
  BY <1>5, <1>6, <1>7, <1>8, <1>9, <1>10, <1>11, <1>12, <1>13 DEF Next

THEOREM SpecIInv == Spec => []IInv
<1> QED
  BY InitIInv, NextIInv, PTL DEF Spec
-----------------------------------------------------------------------------
(* The types of the table, the stack and the calls hold (nsfeza.c 39-48,   *)
(* nsfreq.c, nsfsoc.c), through any number of wraps of a generation.       *)
THEOREM TypeCorrect == Spec => []TypeOK
<1>1. IInv => TypeOK
  BY DEF IInv
<1> QED
  BY <1>1, SpecIInv, PTL

(* A number names one socket of its program's own registration, or nothing *)
(* (nsf_socket, nsf_accept, nsf_close; soc_destroy's generation).          *)
THEOREM NumbersStayTrue == Spec => []NumbersTrue
<1>1. IInv => NumbersTrue
  <2>1. SUFFICES ASSUME TypeOK, TableInv, NEW a \in Space, NEW s \in InUse(a)
                 PROVE  /\ \A t \in InUse(a) : g_sockmap[a][t] = g_sockmap[a][s] => t = s
                        /\ Owned(g_sockmap[a][s], a) =>
                             LET sock == socktab[g_sockmap[a][s].id] IN
                             sock.tok = g_apptok[a] /\ sock.st \in {"OPEN", "LISTEN"}
    BY DEF IInv, NumbersTrue
  <2>2. \A t \in InUse(a) : g_sockmap[a][t] = g_sockmap[a][s] => t = s
    BY <2>1 DEF TableInv, OneToOne
  <2>3. Owned(g_sockmap[a][s], a) => OpenTo(g_sockmap[a][s], a)
    BY <2>1, OwnNumber
  <2> QED
    BY <2>2, <2>3 DEF OpenTo
<1> QED
  BY <1>1, SpecIInv, PTL

(* No open socket of a running program is without a number, but for a      *)
(* refused CLOSE or a descriptor taken for an error (nsf_close, nsf_socket,*)
(* nsf_accept, nsf_termapi).                                               *)
THEOREM NothingStaysOrphaned == Spec => []NothingOrphaned
<1>1. IInv => NothingOrphaned
  BY DEF IInv, NothingOrphaned, TableInv, OrphansOK, Named
<1> QED
  BY <1>1, SpecIInv, PTL

(* A task parks only on a live socket of its own that its number still     *)
(* names, and an ACCEPT's reserved number stays free (nsf_accept 388,      *)
(* soc_destroy's answer to the parked request).                            *)
THEOREM ParkedStaysOnOwn == Spec => []ParkedOnOwn
<1>1. IInv => ParkedOnOwn
  <2>1. SUFFICES ASSUME TypeOK, TableInv, NEW a \in Space, Parked(a)
                 PROVE  /\ up /\ Owned(Desc_(a, call[a].s), a)
                        /\ call[a].do = "accept" => call[a].n \in FreeNumbers(a)
    BY DEF IInv, ParkedOnOwn
  <2>2. /\ up /\ call[a].s \in InUse(a) /\ Holds(g_apptok[a], a)
        /\ OpenTo(g_sockmap[a][call[a].s], a)
        /\ call[a].do = "accept" => call[a].n \in FreeNumbers(a)
    BY <2>1 DEF TableInv, ParkedOK
  <2>3. Desc_(a, call[a].s) = g_sockmap[a][call[a].s]
    BY <2>1, <2>2 DEF TableInv, StaleOK, Desc_
  <2> QED
    BY <2>1, <2>2, <2>3, OwnNumber
<1> QED
  BY <1>1, SpecIInv, PTL
=============================================================================

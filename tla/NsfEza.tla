------------------------------- MODULE NsfEza -------------------------------
(***************************************************************************)
(* The application interface (nsfeza.c): per address space one             *)
(* registration and the table from socket numbers to descriptors, beside   *)
(* what the calls find at the other end, the stack's application registry  *)
(* and socket table (nsfreq.c, nsfsoc.c, nsftcp.c).                        *)
(*                                                                         *)
(* One task of an address space calls, so between the calls it makes its   *)
(* table stands still; other address spaces, the peers and the operator    *)
(* who ends and starts the stack go on.  A call reaches the stack only     *)
(* while no other is in service, and may be refused by the transport: the  *)
(* slot pool is full, or there is no stack.  Verbs with no effect here     *)
(* (BIND, SHUTDOWN, the options and names) are left out.                   *)
(* A definition called a mutant is a wrong variant and no part of Next.    *)
(***************************************************************************)
EXTENDS Naturals

CONSTANTS
    Space,       \* the client address spaces
    AppMax,      \* NSFREQ_APP_MAX
    SockMax,     \* NSFEZA_MAXSOC, which is the size of the socket table
    GenMax,      \* the last generation before the wrap to 1 (2^16 - 1)
    SignGen,     \* the first generation of a descriptor whose sign is minus (2^15)
    OpenMax,     \* model bound: how many applications and sockets are made
    EndMax,      \* model bound: how often the stack ends
    NoSpace

ASSUME SizesAssumption ==
    /\ AppMax \in Nat \ {0} /\ SockMax \in Nat \ {0} /\ GenMax \in Nat \ {0}
    /\ SignGen \in 2 .. GenMax /\ OpenMax \in Nat /\ EndMax \in Nat
ASSUME NamesAssumption == NoSpace \notin Space

VARIABLES
    up,          \* the stack runs
    apptab,      \* its application registry
    socktab,     \* its socket table
    g_apptok,    \* the token of each space's registration
    g_maxsoc,    \* how many numbers each space may use
    g_sockmap,   \* the descriptor behind each number of each space
    g_socknb,    \* the numbers each space made non-blocking
    call,        \* what each space's task is in the middle of
    unsent,      \* the sockets whose CLOSE the transport refused
    opens, ends

stack  == <<up, apptab, socktab, unsent, opens, ends>>
tables == <<g_apptok, g_maxsoc, g_sockmap, g_socknb>>
vars   == <<stack, tables, call>>

AppSlot  == 0 .. AppMax - 1
SockSlot == 0 .. SockMax - 1
Number   == 0 .. SockMax - 1
Gen      == 1 .. GenMax
Desc     == [id : SockSlot, gen : Gen]
Token    == [idx : AppSlot, gen : Gen]
NoDesc   == [id |-> 0, gen |-> 0]
NoToken  == [idx |-> 0, gen |-> 0]

NextGen(g) == IF g = GenMax THEN 1 ELSE g + 1

(* Where a scan from below stops: the least member, if there is one.       *)
Lowest(S) == {x \in S : \A y \in S : x <= y}

(***************************************************************************)
(* The stack.  A socket is OPEN, a LISTENer, QUEUED under a listener as a  *)
(* connection not yet accepted, or CLOSING: its application let go of it   *)
(* and TCP finishes the connection in the background.                      *)
(***************************************************************************)
Vacant(g)  == [gen |-> g, st |-> "FREE", tok |-> NoToken, lis |-> 0]
FreeApp(g) == [gen |-> g, who |-> NoSpace]

Live(i)     == socktab[i].st # "FREE"
SockDesc(i) == [id |-> i, gen |-> socktab[i].gen]
Resolves(d) == d # NoDesc /\ Live(d.id) /\ socktab[d.id].gen = d.gen

AppToken(k) == [idx |-> k, gen |-> apptab[k].gen]

(* The address space a token was registered from.                          *)
Holds(tok, a) ==
    tok # NoToken /\ apptab[tok.idx].who = a /\ apptab[tok.idx].gen = tok.gen

Owned(d, a) == Resolves(d) /\ Holds(socktab[d.id].tok, a)

FreeApps  == {k \in AppSlot : apptab[k].who = NoSpace}
FreeSocks == {i \in SockSlot : ~Live(i)}
Queue(i)  == {c \in SockSlot : socktab[c].st = "QUEUED" /\ socktab[c].lis = i}

Vacated(gone) ==
    [i \in SockSlot |-> IF i \in gone THEN Vacant(NextGen(socktab[i].gen)) ELSE socktab[i]]

(***************************************************************************)
(* Calls.  s is the number a call is made on, n the one reserved for the   *)
(* socket it will return.                                                  *)
(***************************************************************************)
Doing(do, s, n) == [do |-> do, s |-> s, n |-> n]
Idle      == Doing("idle", 0, 0)
Parking   == {"accept", "connect", "recv", "recvfrom", "send", "sendto"}
Parked(a) == call[a].do \in Parking
Returns(a) == call' = [call EXCEPT ![a] = Idle]

(* The stack serves one request at a time.                                 *)
Served == up /\ \A a \in Space : ~Parked(a)

(* eza_desc: the descriptor behind a number; NoDesc makes EBADF.           *)
Desc_(a, s) == IF s < g_maxsoc[a] THEN g_sockmap[a][s] ELSE NoDesc

InUse(a)       == {n \in Number : g_sockmap[a][n] # NoDesc}
FreeNumbers(a) == {n \in Number : n < g_maxsoc[a]} \ InUse(a)

FreshTable(a) ==
    /\ g_sockmap' = [g_sockmap EXCEPT ![a] = [n \in Number |-> NoDesc]]
    /\ g_socknb'  = [g_socknb EXCEPT ![a] = {}]

(***************************************************************************)
(* INITAPI: refused when registered, when the transport fails and when the *)
(* registry is full.  MAXSOC is clamped to the table.                      *)
(***************************************************************************)
Register(a, maxsoc, next) ==
    /\ g_apptok[a] = NoToken
    /\ UNCHANGED <<up, socktab, unsent, ends>>
    /\ \/ /\ Served /\ opens < OpenMax
          /\ \E k \in Lowest(FreeApps) :
             /\ apptab' = [apptab EXCEPT ![k].who = a]
             /\ g_apptok' = [g_apptok EXCEPT ![a] = AppToken(k)]
          /\ g_maxsoc' = [g_maxsoc EXCEPT ![a] = maxsoc]
          /\ FreshTable(a)
          /\ call' = [call EXCEPT ![a] = next]
          /\ opens' = opens + 1
       \/ UNCHANGED <<apptab, tables, opens>> /\ Returns(a)

InitApi(a) ==
    /\ call[a] = Idle
    /\ \E maxsoc \in 1 .. SockMax : Register(a, maxsoc, Idle)

(* SOCKET registers first when nothing is registered yet.                  *)
ImplicitInit(a) == call[a] = Idle /\ Register(a, SockMax, Doing("socket", 0, 0))

(* What the caller makes of the descriptor it is answered: a negative      *)
(* RETCODE is an error, else the reserved number stands for the socket and *)
(* the number is blocking.                                                 *)
Take(a, n, d) ==
    IF d.gen < SignGen
    THEN /\ g_sockmap' = [g_sockmap EXCEPT ![a][n] = d]
         /\ g_socknb'  = [g_socknb EXCEPT ![a] = @ \ {n}]
    ELSE UNCHANGED <<g_sockmap, g_socknb>>

(* Mutant of Socket: the socket is made before a number is looked for.     *)
SocketFirst(a) ==
    /\ \/ call[a] = Idle /\ g_apptok[a] # NoToken
       \/ call[a].do = "socket"
    /\ Returns(a)
    /\ UNCHANGED <<up, apptab, unsent, ends, g_apptok, g_maxsoc>>
    /\ \/ /\ Served /\ Holds(g_apptok[a], a) /\ opens < OpenMax
          /\ \E i \in Lowest(FreeSocks) :
             /\ socktab' = [socktab EXCEPT ![i].st = "OPEN", ![i].tok = g_apptok[a]]
             /\ \/ \E n \in Lowest(FreeNumbers(a)) : Take(a, n, SockDesc(i))
                \/ FreeNumbers(a) = {} /\ UNCHANGED <<g_sockmap, g_socknb>>
          /\ opens' = opens + 1
       \/ UNCHANGED <<socktab, g_sockmap, g_socknb, opens>>

(* SOCKET: a number is reserved before the socket is made; without one,    *)
(* EMFILE.                                                                 *)
Socket(a) ==
    /\ \/ call[a] = Idle /\ g_apptok[a] # NoToken
       \/ call[a].do = "socket"
    /\ Returns(a)
    /\ UNCHANGED <<up, apptab, unsent, ends, g_apptok, g_maxsoc>>
    /\ \/ /\ Served /\ Holds(g_apptok[a], a) /\ opens < OpenMax
          /\ \E n \in Lowest(FreeNumbers(a)), i \in Lowest(FreeSocks) :
             /\ socktab' = [socktab EXCEPT ![i].st = "OPEN", ![i].tok = g_apptok[a]]
             /\ Take(a, n, SockDesc(i))
          /\ opens' = opens + 1
       \/ UNCHANGED <<socktab, g_sockmap, g_socknb, opens>>

(* LISTEN on a socket that is not a listener yet.                          *)
Listen(a, s) ==
    /\ call[a] = Idle /\ Served
    /\ Owned(Desc_(a, s), a) /\ socktab[Desc_(a, s).id].st = "OPEN"
    /\ socktab' = [socktab EXCEPT ![Desc_(a, s).id].st = "LISTEN"]
    /\ UNCHANGED <<up, apptab, unsent, opens, ends, tables, call>>

(* A connection of the listener's queue becomes the caller's.              *)
Deliver(a, n, c) ==
    /\ socktab' = [socktab EXCEPT ![c].st = "OPEN", ![c].lis = 0]
    /\ Take(a, n, SockDesc(c))
    /\ Returns(a)
    /\ UNCHANGED <<up, apptab, unsent, opens, ends, g_apptok, g_maxsoc>>

(* ACCEPT: again the number first; a blocking number parks the call.       *)
Accept(a, s) ==
    /\ call[a] = Idle /\ Served
    /\ Owned(Desc_(a, s), a) /\ socktab[Desc_(a, s).id].st = "LISTEN"
    /\ \E n \in Lowest(FreeNumbers(a)) :
       \/ \E c \in Queue(Desc_(a, s).id) : Deliver(a, n, c)
       \/ /\ Queue(Desc_(a, s).id) = {} /\ s \notin g_socknb[a]
          /\ call' = [call EXCEPT ![a] = Doing("accept", s, n)]
          /\ UNCHANGED <<stack, tables>>

AcceptAnswered(a) ==
    /\ call[a].do = "accept"
    /\ \E c \in Queue(Desc_(a, call[a].s).id) : Deliver(a, call[a].n, c)

(* The verbs that move data park unless they may not: the flag of the call *)
(* is heard by all but CONNECT, the number's mode by CONNECT, SEND and     *)
(* RECV.  An answer at once changes nothing here.                          *)
Transfer(a, s, verb, dontwait) ==
    /\ call[a] = Idle /\ Served
    /\ Owned(Desc_(a, s), a) /\ socktab[Desc_(a, s).id].st = "OPEN"
    /\ dontwait => verb = "connect"
    /\ s \in g_socknb[a] => verb \in {"sendto", "recvfrom"}
    /\ call' = [call EXCEPT ![a] = Doing(verb, s, 0)]
    /\ UNCHANGED <<stack, tables>>

TransferAnswered(a) ==
    /\ Parked(a) /\ call[a].do # "accept"
    /\ Returns(a)
    /\ UNCHANGED <<stack, tables>>

(* FCNTL(F_SETFL) and IOCTL(FIONBIO): the mode of a number in use.         *)
SetMode(a, s, nonblock) ==
    /\ call[a] = Idle
    /\ Desc_(a, s) # NoDesc
    /\ g_socknb' = [g_socknb EXCEPT ![a] = IF nonblock THEN @ \cup {s} ELSE @ \ {s}]
    /\ UNCHANGED <<stack, g_apptok, g_maxsoc, g_sockmap, call>>

(* RQ_CLOSE at the stack: a listener dies with its queue, a connection may *)
(* finish first, any other socket dies at once, and what is not the        *)
(* caller's is EBADF.                                                      *)
StackCloses(d, a) ==
    IF Owned(d, a)
    THEN \/ socktab' = Vacated({d.id} \cup Queue(d.id))
         \/ /\ socktab[d.id].st = "OPEN"
            /\ socktab' = [socktab EXCEPT ![d.id].st = "CLOSING"]
    ELSE UNCHANGED socktab

(* Mutant of Unmap: the number is kept for another try.                    *)
UnmapNothing(a, s) == UNCHANGED <<g_sockmap, g_socknb>>

Unmap(a, s) ==
    /\ g_sockmap' = [g_sockmap EXCEPT ![a][s] = NoDesc]
    /\ g_socknb'  = [g_socknb EXCEPT ![a] = @ \ {s}]

(* One number is closed, whatever the call comes to.                       *)
CloseNumber(a, s) ==
    /\ Unmap(a, s)
    /\ UNCHANGED <<up, apptab, opens, ends, g_apptok, g_maxsoc>>
    /\ \/ Served /\ StackCloses(g_sockmap[a][s], a) /\ UNCHANGED unsent
       \/ unsent' = unsent \cup {g_sockmap[a][s]} /\ UNCHANGED socktab

Close(a, s) ==
    /\ call[a] = Idle
    /\ Desc_(a, s) # NoDesc
    /\ CloseNumber(a, s)
    /\ UNCHANGED call

(* TERMAPI closes the numbers in use one by one, in order, then ends the   *)
(* registration; what the calls answer is not looked at.                   *)
TermClose(a) ==
    /\ call[a] = Idle \/ call[a].do = "term"
    /\ g_apptok[a] # NoToken
    /\ \E s \in Lowest(InUse(a)) : CloseNumber(a, s)
    /\ call' = [call EXCEPT ![a] = Doing("term", 0, 0)]

(* RQ_TERMAPI at the stack: every socket of the token, then the token.     *)
StackTerms(a) ==
    IF Holds(g_apptok[a], a)
    THEN /\ socktab' = Vacated({i \in SockSlot : Live(i) /\ socktab[i].tok = g_apptok[a]})
         /\ apptab' = [apptab EXCEPT ![g_apptok[a].idx] = FreeApp(NextGen(@.gen))]
    ELSE UNCHANGED <<socktab, apptab>>

TermEnd(a) ==
    /\ call[a] = Idle \/ call[a].do = "term"
    /\ g_apptok[a] # NoToken /\ InUse(a) = {}
    /\ \/ Served /\ StackTerms(a)
       \/ UNCHANGED <<socktab, apptab>>
    /\ g_apptok' = [g_apptok EXCEPT ![a] = NoToken]
    /\ g_maxsoc' = [g_maxsoc EXCEPT ![a] = 0]
    /\ Returns(a)
    /\ UNCHANGED <<up, unsent, opens, ends, g_sockmap, g_socknb>>

(* A program ends without TERMAPI and the next one in the address space    *)
(* starts with nsfeza_init.                                                *)
NextProgram(a) ==
    /\ ~Parked(a)
    /\ g_apptok' = [g_apptok EXCEPT ![a] = NoToken]
    /\ g_maxsoc' = [g_maxsoc EXCEPT ![a] = 0]
    /\ FreshTable(a)
    /\ Returns(a)
    /\ UNCHANGED stack

(***************************************************************************)
(* The stack's own events.  A call parked on a socket that dies is         *)
(* answered.                                                               *)
(***************************************************************************)
(* Mutant of Aborted: a reset forgets who waits for the socket.            *)
AbortedForgets(gone) == call

Aborted(gone) ==
    [a \in Space |-> IF Parked(a) /\ Desc_(a, call[a].s).id \in gone THEN Idle ELSE call[a]]

Arrive(i) ==
    /\ up /\ opens < OpenMax
    /\ socktab[i].st = "LISTEN"
    /\ \E c \in Lowest(FreeSocks) :
          socktab' = [socktab EXCEPT ![c].st = "QUEUED", ![c].tok = socktab[i].tok,
                                     ![c].lis = i]
    /\ opens' = opens + 1
    /\ UNCHANGED <<up, apptab, unsent, ends, tables, call>>

(* A reset, a timeout, or the end of a connection its application closed.  *)
PeerEnds(i) ==
    /\ up /\ socktab[i].st \in {"OPEN", "QUEUED", "CLOSING"}
    /\ socktab' = Vacated({i})
    /\ call' = Aborted({i})
    /\ UNCHANGED <<up, apptab, unsent, opens, ends, tables>>

(* The stack ends; its next instance starts with fresh tables.             *)
StackEnds ==
    /\ up /\ ends < EndMax
    /\ up' = FALSE
    /\ apptab' = [k \in AppSlot |-> FreeApp(1)]
    /\ socktab' = [i \in SockSlot |-> Vacant(1)]
    /\ unsent' = {}
    /\ ends' = ends + 1
    /\ call' = Aborted(SockSlot)
    /\ UNCHANGED <<opens, tables>>

StackStarts ==
    /\ ~up
    /\ up' = TRUE
    /\ UNCHANGED <<apptab, socktab, unsent, opens, ends, tables, call>>

Init ==
    /\ up = TRUE
    /\ apptab = [k \in AppSlot |-> FreeApp(1)]
    /\ socktab = [i \in SockSlot |-> Vacant(1)]
    /\ g_apptok = [a \in Space |-> NoToken]
    /\ g_maxsoc = [a \in Space |-> 0]
    /\ g_sockmap = [a \in Space |-> [n \in Number |-> NoDesc]]
    /\ g_socknb = [a \in Space |-> {}]
    /\ call = [a \in Space |-> Idle]
    /\ unsent = {}
    /\ opens = 0 /\ ends = 0

(* The verbs a program can call, by name or through the EZASOH03 plist.    *)
OnNumber(a, s) ==
    \/ Listen(a, s) \/ Accept(a, s) \/ Close(a, s)
    \/ \E nonblock \in BOOLEAN : SetMode(a, s, nonblock)
    \/ \E verb \in Parking \ {"accept"}, dontwait \in BOOLEAN : Transfer(a, s, verb, dontwait)

Client(a) ==
    \/ InitApi(a) \/ ImplicitInit(a) \/ Socket(a) \/ TermClose(a) \/ TermEnd(a)
    \/ \E s \in Number : OnNumber(a, s)

Next ==
    \/ \E a \in Space : Client(a) \/ NextProgram(a) \/ AcceptAnswered(a) \/ TransferAnswered(a)
    \/ \E i \in SockSlot : Arrive(i) \/ PeerEnds(i)
    \/ StackEnds \/ StackStarts

Spec == Init /\ [][Next]_vars
-----------------------------------------------------------------------------
App  == [gen : Gen, who : Space \cup {NoSpace}]
Sock == [gen : Gen, st : {"FREE", "OPEN", "LISTEN", "QUEUED", "CLOSING"},
         tok : Token \cup {NoToken}, lis : SockSlot]
Call == [do : Parking \cup {"idle", "socket", "term"}, s : Number, n : Number]

StackType ==
    /\ up \in BOOLEAN
    /\ apptab \in [AppSlot -> App]
    /\ socktab \in [SockSlot -> Sock]
    /\ unsent \in SUBSET Desc
    /\ opens \in Nat /\ ends \in Nat

TableType ==
    /\ g_apptok \in [Space -> Token \cup {NoToken}]
    /\ g_maxsoc \in [Space -> 0 .. SockMax]
    /\ g_sockmap \in [Space -> [Number -> Desc \cup {NoDesc}]]
    /\ g_socknb \in [Space -> SUBSET Number]

TypeOK == StackType /\ TableType /\ call \in [Space -> Call]

(* The generations of one slot have not gone round.                        *)
NoWrap == opens < GenMax

(* A number leads to one socket, of its program's own registration and     *)
(* open to it, or to nothing: no two numbers name one socket, and what a   *)
(* number named before a reset, a restart of the stack or another          *)
(* program's TERMAPI is never taken over by a later socket.                *)
NumbersTrue ==
    NoWrap =>
    \A a \in Space : \A s \in InUse(a) :
       /\ \A t \in InUse(a) : g_sockmap[a][t] = g_sockmap[a][s] => t = s
       /\ Owned(g_sockmap[a][s], a) =>
            LET sock == socktab[g_sockmap[a][s].id] IN
            sock.tok = g_apptok[a] /\ sock.st \in {"OPEN", "LISTEN"}

(* The stack holds no open socket of a running program without a number:   *)
(* only a CLOSE the transport refused leaves one, or a descriptor the      *)
(* program took for an error (nsf_socket and nsf_accept reserve the number *)
(* first, nsf_close and nsf_termapi free it with the socket).              *)
NothingOrphaned ==
    NoWrap =>
    \A a \in Space, i \in SockSlot :
       /\ Holds(g_apptok[a], a) /\ socktab[i].tok = g_apptok[a]
       /\ socktab[i].st \in {"OPEN", "LISTEN"}
       => \/ \E s \in Number : g_sockmap[a][s] = SockDesc(i)
          \/ SockDesc(i) \in unsent
          \/ socktab[i].gen >= SignGen

(* A task parks only on a live socket of its own, under a number that is   *)
(* still the socket's; the number an ACCEPT reserved stays free until its  *)
(* answer, and when the socket or the stack goes the task is answered.     *)
ParkedOnOwn ==
    NoWrap =>
    \A a \in Space :
       Parked(a) => /\ up /\ Owned(Desc_(a, call[a].s), a)
                    /\ call[a].do = "accept" => call[a].n \in FreeNumbers(a)

(* What follows does not hold of this code, and no run checks it: the      *)
(* README says how each comes to fail.                                     *)

(* nsfeza.h of the mode of a number: while it is set, every request built  *)
(* for the socket carries RQ_F_NONBLOCK, so no call on it parks.           *)
NonblockingNeverParks ==
    \A a \in Space : Parked(a) => call[a].s \notin g_socknb[a]

(* The interface's documents: SOCKET answers the descriptor, which is not  *)
(* negative; so an open socket whose CLOSE was not refused has a number.   *)
SocketsHaveNumbers ==
    \A a \in Space, i \in SockSlot :
       Holds(g_apptok[a], a) /\ socktab[i].tok = g_apptok[a] /\ socktab[i].st = "OPEN"
       => SockDesc(i) \in unsent \/ \E s \in Number : g_sockmap[a][s] = SockDesc(i)

(* The interface's documents: TERMAPI closes all sockets of the            *)
(* application, then drops the registration.                               *)
TermapiDropsAll ==
    [][\A a \in Space :
         TermEnd(a) => LET tok == g_apptok[a] IN
                       apptab'[tok.idx].gen = tok.gen => apptab'[tok.idx].who # a]_vars
=============================================================================

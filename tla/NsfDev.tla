------------------------------- MODULE NsfDev -------------------------------
(***************************************************************************)
(* A network device (src/src/nsfdev.c) and its CTCI driver                  *)
(* (src/src/nsfctcib.c, src/src/nsfctcif.c): the executive, a subtask for the  *)
(* read subchannel and one for the write subchannel, the channel they share,    *)
(* and what IP (NsfIp) does with the packets, here and in the host opposite.     *)
(*                                                                         *)
(* Subtasks and executive run in parallel and hand work over by flags and    *)
(* ECBs.  The executive serves the device once a pass and ends the pass with *)
(* the kick of its output.  The channel (src/asm/nsfctcio.asm and below) is   *)
(* external: a WRITE started while a READ is outstanding waits for it.         *)
(* Definitions that a comment calls a mutant are wrong on purpose and no part *)
(* of Next.                                                                   *)
(***************************************************************************)
EXTENDS NsfIp, FiniteSets, SequencesExt

CONSTANTS
    Bufs,       \* packet buffers
    Host, Peer, \* this host and the one opposite
    Blocks,     \* bound: what blocks may hold, but for answers of the Peer
    Ours,       \* bound: packets the applications here originate
    SendMax,    \* NSFDEV_SENDQ_MAX
    MaxFrames,  \* bound: blocks that arrive, but for answers of the Peer
    MaxSends,   \* bound: packets the applications originate
    Slow,       \* which of OPEN and CLOSE may outlast the executive's waits
    NONE        \* no buffer

(* A packet in its buffer, on a queue or with the WRITE. *)
Carried == [buf : Bufs, pkt : Packets]

ASSUME DevAssumption ==
    /\ IsFiniteSet(Bufs) /\ SendMax \in Nat \ {0}
    /\ NONE \notin Bufs /\ NONE \notin Carried
    /\ Ours \subseteq Packets /\ Blocks \subseteq Seq(Packets)
    /\ MaxFrames \in Nat /\ MaxSends \in Nat /\ Slow \subseteq {"open", "close"}

VARIABLES
    state,      \* NETDEV.state
    priv,       \* NETDEV.priv names the device's storage
    storage,    \* that storage: "none", "held", "released"
    region,     \* the pools it comes from still exist
    xpc,        \* where the executive is
    joined,     \* ctci_stop_and_join: every subtask joined so far has ended
    rpc, wpc,   \* where the subtasks are
    rstart, wstart,     \* what their OPEN reported: "none", "ok", "bad"
    ecb, recb, returnecb, wecb, txgoecb,    \* NETDEV.ecb and the CTCIDEV's
    wakeecb,    \* g_wakeecb, set by nsfevt_wake
    stop, rarmed, rready, rpost, wready,    \* CTCIDEV fields subtasks write
    txbusy, txpbuf, rhold, halting,         \* ... and the executive's own
    sendq,      \* NETDEV.sendq: packets to be written, in their buffers
    evq,        \* received packets on the event queue, in their buffers
    rxq,        \* buffers on the receive queues of sockets
    freed,      \* how many times each buffer is on its pool's free list
    reading,    \* a READ is outstanding
    writing,    \* a WRITE has been started and not completed
    rblk,       \* CTCIDEV.rbuf: the packets of the block read last
    wire,       \* the Peer's answers under way
    frames, sends   \* what bounds arrivals and originated packets

device  == <<state, priv, storage, region>>
subs    == <<rpc, wpc, rstart, wstart>>
ecbs    == <<ecb, recb, returnecb, wecb, txgoecb>>
shared  == <<stop, rarmed, rready, rpost, wready>>
own     == <<txbusy, txpbuf, rhold, halting>>
packets == <<sendq, evq, rxq, freed>>
blocks  == <<rblk, wire, frames>>
channel == <<reading, writing, blocks>>
vars    == <<device, xpc, joined, subs, ecbs, wakeecb, shared, own, packets,
             channel, sends>>

Init ==
    /\ state = "DOWN" /\ priv = FALSE /\ storage = "none" /\ region = TRUE
    /\ xpc = "start" /\ joined = TRUE
    /\ rpc = "none" /\ wpc = "none" /\ rstart = "none" /\ wstart = "none"
    /\ ecb = FALSE /\ recb = FALSE /\ returnecb = FALSE /\ wecb = FALSE
    /\ txgoecb = FALSE /\ wakeecb = FALSE
    /\ stop = FALSE /\ rarmed = FALSE /\ rready = FALSE /\ rpost = "none"
    /\ wready = FALSE
    /\ txbusy = FALSE /\ txpbuf = NONE /\ rhold = FALSE /\ halting = FALSE
    /\ sendq = <<>> /\ evq = <<>> /\ rxq = {} /\ freed = [b \in Bufs |-> 1]
    /\ reading = FALSE /\ writing = FALSE /\ rblk = <<>> /\ wire = <<>>
    /\ frames = MaxFrames /\ sends = MaxSends

-----------------------------------------------------------------------------
(* read_sub.  Its OPEN reports to ctci_op_start. *)
ReadOpen ==
    /\ rpc = "open"
    /\ rstart' \in {"ok", "bad"}
    /\ rpc' = IF rstart' = "ok" THEN "read" ELSE "ended"
    /\ UNCHANGED <<device, xpc, joined, wpc, wstart, ecbs, wakeecb, shared, own,
                   packets, channel, sends>>

(* The loop: a stop ends it, else the READ is started, which clears its ECB. *)
ReadStart ==
    /\ rpc = "read"
    /\ IF stop THEN rpc' = "close" /\ UNCHANGED <<recb, reading>>
               ELSE rpc' = "armed" /\ recb' = FALSE /\ reading' = TRUE
    /\ UNCHANGED <<device, xpc, joined, wpc, rstart, wstart, ecb, returnecb, wecb,
                   txgoecb, wakeecb, shared, own, packets, writing, blocks, sends>>

(* Only now is the READ told to be outstanding ... *)
ReadArmed ==
    /\ rpc = "armed"
    /\ rpc' = "tellarm" /\ rarmed' = TRUE
    /\ UNCHANGED <<device, xpc, joined, wpc, rstart, wstart, ecbs, wakeecb, stop,
                   rready, rpost, wready, own, packets, channel, sends>>

(* Mutant of ReadTellArmed: the executive is not told of the armed READ. *)
ReadArmedUntold ==
    /\ rpc = "tellarm"
    /\ rpc' = "wait"
    /\ UNCHANGED <<device, xpc, joined, wpc, rstart, wstart, ecbs, wakeecb, shared,
                   own, packets, channel, sends>>

(* ... and the executive posted, which may have a frame to write. *)
ReadTellArmed ==
    /\ rpc = "tellarm"
    /\ rpc' = "wait" /\ ecb' = TRUE
    /\ UNCHANGED <<device, xpc, joined, wpc, rstart, wstart, recb, returnecb, wecb,
                   txgoecb, wakeecb, shared, own, packets, channel, sends>>

(* wait_or_stop, which looks for the stop first: the read's completion. *)
ReadDone ==
    /\ rpc = "wait" /\ (stop \/ recb)
    /\ IF stop THEN rpc' = "close" /\ UNCHANGED rarmed
               ELSE rpc' = "done" /\ rarmed' = FALSE
    /\ UNCHANGED <<device, xpc, joined, wpc, rstart, wstart, ecbs, wakeecb, stop,
                   rready, rpost, wready, own, packets, channel, sends>>

(* The return ECB is cleared before the block is handed over. *)
ReadClear ==
    /\ rpc = "done"
    /\ rpc' = "ready" /\ returnecb' = FALSE
    /\ UNCHANGED <<device, xpc, joined, wpc, rstart, wstart, ecb, recb, wecb,
                   txgoecb, wakeecb, shared, own, packets, channel, sends>>

ReadReady ==
    /\ rpc = "ready"
    /\ rpc' = "tell" /\ rready' = TRUE
    /\ UNCHANGED <<device, xpc, joined, wpc, rstart, wstart, ecbs, wakeecb, stop,
                   rarmed, rpost, wready, own, packets, channel, sends>>

ReadTell ==
    /\ rpc = "tell"
    /\ rpc' = "parked" /\ ecb' = TRUE
    /\ UNCHANGED <<device, xpc, joined, wpc, rstart, wstart, recb, returnecb, wecb,
                   txgoecb, wakeecb, shared, own, packets, channel, sends>>

(* The read stays parked until the executive gives the buffer back. *)
ReadReturned ==
    /\ rpc = "parked" /\ (stop \/ returnecb)
    /\ rpc' = IF stop THEN "close" ELSE "read"
    /\ UNCHANGED <<device, xpc, joined, wpc, rstart, wstart, ecbs, wakeecb, shared,
                   own, packets, channel, sends>>

(* CLOSE purges the subtask's own outstanding EXCP. *)
ReadClose ==
    /\ rpc = "close"
    /\ rpc' = "ended" /\ reading' = FALSE
    /\ UNCHANGED <<device, xpc, joined, wpc, rstart, wstart, ecbs, wakeecb, shared,
                   own, packets, writing, blocks, sends>>

read_sub ==
    \/ ReadOpen \/ ReadStart \/ ReadArmed \/ ReadTellArmed \/ ReadDone \/ ReadClear
    \/ ReadReady \/ ReadTell \/ ReadReturned \/ ReadClose

-----------------------------------------------------------------------------
(* write_sub. *)
WriteOpen ==
    /\ wpc = "open"
    /\ wstart' \in {"ok", "bad"}
    /\ wpc' = IF wstart' = "ok" THEN "idle" ELSE "ended"
    /\ UNCHANGED <<device, xpc, joined, rpc, rstart, ecbs, wakeecb, shared, own,
                   packets, channel, sends>>

(* Work is ready, or the stop; the ECB is cleared before the WRITE. *)
WriteGo ==
    /\ wpc = "idle" /\ (stop \/ txgoecb)
    /\ IF stop THEN wpc' = "close" /\ UNCHANGED txgoecb
               ELSE wpc' = "write" /\ txgoecb' = FALSE
    /\ UNCHANGED <<device, xpc, joined, rpc, rstart, wstart, ecb, recb, returnecb,
                   wecb, wakeecb, shared, own, packets, channel, sends>>

WriteStart ==
    /\ wpc = "write"
    /\ IF stop THEN wpc' = "close" /\ UNCHANGED <<wecb, writing>>
               ELSE wpc' = "wait" /\ wecb' = FALSE /\ writing' = TRUE
    /\ UNCHANGED <<device, xpc, joined, rpc, rstart, wstart, ecb, recb, returnecb,
                   txgoecb, wakeecb, shared, own, packets, reading, blocks, sends>>

WriteDone ==
    /\ wpc = "wait" /\ (stop \/ wecb)
    /\ wpc' = IF stop THEN "close" ELSE "ready"
    /\ UNCHANGED <<device, xpc, joined, rpc, rstart, wstart, ecbs, wakeecb, shared,
                   own, packets, channel, sends>>

WriteReady ==
    /\ wpc = "ready"
    /\ wpc' = "tell" /\ wready' = TRUE
    /\ UNCHANGED <<device, xpc, joined, rpc, rstart, wstart, ecbs, wakeecb, stop,
                   rarmed, rready, rpost, own, packets, channel, sends>>

WriteTell ==
    /\ wpc = "tell"
    /\ wpc' = IF stop THEN "close" ELSE "idle"
    /\ ecb' = TRUE
    /\ UNCHANGED <<device, xpc, joined, rpc, rstart, wstart, recb, returnecb, wecb,
                   txgoecb, wakeecb, shared, own, packets, channel, sends>>

WriteClose ==
    /\ wpc = "close"
    /\ wpc' = "ended" /\ writing' = FALSE
    /\ UNCHANGED <<device, xpc, joined, rpc, rstart, wstart, ecbs, wakeecb, shared,
                   own, packets, reading, blocks, sends>>

write_sub ==
    \/ WriteOpen \/ WriteGo \/ WriteStart \/ WriteDone \/ WriteReady \/ WriteTell
    \/ WriteClose

-----------------------------------------------------------------------------
(* The channel.  A block, or an error, completes the READ; blocks that come *)
(* while none is outstanding wait in the adapter.                             *)
Completes(post, blk) ==
    /\ reading /\ reading' = FALSE
    /\ recb' = TRUE /\ rpost' = post /\ rblk' = blk
    /\ UNCHANGED <<device, xpc, joined, subs, ecb, returnecb, wecb, txgoecb, wakeecb,
                   stop, rarmed, rready, wready, own, packets, writing, sends>>

Arrive ==
    /\ frames > 0 /\ frames' = frames - 1
    /\ Completes("error", <<>>) \/ \E blk \in Blocks : Completes("normal", blk)
    /\ UNCHANGED wire

ArriveAnswer ==
    /\ wire # <<>> /\ wire' = Tail(wire)
    /\ Completes("normal", <<Head(wire)>>)
    /\ UNCHANGED frames

(* A WRITE gets the channel when no READ is outstanding, and the Peer reads it. *)
Written ==
    /\ writing /\ ~reading
    /\ writing' = FALSE /\ wecb' = TRUE
    /\ wire' = wire \o SetToSeq(Answers(Peer, txpbuf.pkt))
    /\ UNCHANGED <<device, xpc, joined, subs, ecb, recb, returnecb, txgoecb, wakeecb,
                   shared, own, packets, reading, rblk, frames, sends>>

-----------------------------------------------------------------------------
Goto(next) == xpc' = next

Free(b) == freed' = [freed EXCEPT ![b] = @ + 1]
(* mm_alloc: the head of the free list; which buffer that is tells nothing.  *)
HasFree == \E b \in Bufs : freed[b] > 0
FreeHead == CHOOSE b \in Bufs : freed[b] > 0

BufsOf(q) == {q[i].buf : i \in DOMAIN q}
InWrite == IF txpbuf = NONE THEN {} ELSE {txpbuf.buf}
FreeAll(S) == freed' = [b \in Bufs |-> IF b \in S THEN freed[b] + 1 ELSE freed[b]]

(* dev_start and ctci_op_start: storage, channel and the read subtask. *)
StartRead ==
    /\ xpc = "start"
    /\ Goto("openread")
    /\ state' = "STARTING" /\ priv' = TRUE /\ storage' = "held" /\ rpc' = "open"
    /\ UNCHANGED <<region, joined, wpc, rstart, wstart, ecbs, wakeecb, shared, own,
                   packets, channel, sends>>

(* ... no storage, no channel: the start fails with nothing half built.     *)
StartFails ==
    /\ xpc = "start"
    /\ Goto("gate")
    /\ UNCHANGED <<device, joined, subs, ecbs, wakeecb, shared, own, packets,
                   channel, sends>>

(* The wait for the OPEN ends with its report, or by its timeout. *)
Reported(report, pc) == report # "none" \/ (pc = "open" /\ "open" \in Slow)

(* The read subchannel is open: the write subtask is created.  Else (or      *)
(* without a UCB to halt, or a task) the start fails.                         *)
StartWrite ==
    /\ xpc = "openread" /\ Reported(rstart, rpc)
    /\ \/ rstart = "ok" /\ Goto("openwrite") /\ wpc' = "open"
       \/ Goto("stopsubs") /\ UNCHANGED wpc
    /\ UNCHANGED <<device, joined, rpc, rstart, wstart, ecbs, wakeecb, shared, own,
                   packets, channel, sends>>

StartEnds ==
    /\ xpc = "openwrite" /\ Reported(wstart, wpc)
    /\ IF wstart = "ok" THEN state' = "UP" /\ Goto("gate")
                        ELSE Goto("stopsubs") /\ UNCHANGED state
    /\ UNCHANGED <<priv, storage, region, joined, subs, ecbs, wakeecb, shared, own,
                   packets, channel, sends>>

-----------------------------------------------------------------------------
(* ctci_io_pending: the WAIT gate's probe. *)
Pending == rready \/ (wready /\ txbusy)

Begin == Goto("poll") /\ wakeecb' = FALSE

(* evt_mainloop's gate looks once for work that is already there: then the   *)
(* pass does not wait ...                                                     *)
Pass ==
    /\ xpc = "gate" /\ (evq # <<>> \/ (state = "UP" /\ Pending))
    /\ Begin
    /\ UNCHANGED <<device, joined, subs, ecbs, shared, own, packets, channel, sends>>

(* ... otherwise it sleeps in nsfevt_plat_wait, which looks at no flag ...    *)
Sleep ==
    /\ xpc = "gate" /\ evq = <<>> /\ ~(state = "UP" /\ Pending)
    /\ Goto("asleep")
    /\ UNCHANGED <<device, joined, subs, ecbs, wakeecb, shared, own, packets,
                   channel, sends>>

(* ... until the device's ECB is posted, or the loop's own ...                *)
Wake ==
    /\ xpc = "asleep" /\ (ecb \/ wakeecb)
    /\ Begin
    /\ UNCHANGED <<device, joined, subs, ecbs, shared, own, packets, channel, sends>>

(* ... or something else calls for a pass: a request, the timer.              *)
PassOther ==
    /\ xpc \in {"gate", "asleep"}
    /\ Begin
    /\ UNCHANGED <<device, joined, subs, ecbs, shared, own, packets, channel, sends>>

(* nsfdev_poll_input clears the ECB before the device is served. *)
PollInput ==
    /\ xpc = "poll"
    /\ Goto(IF state = "UP" THEN "service" ELSE "dispatch") /\ ecb' = FALSE
    /\ UNCHANGED <<device, joined, subs, recb, returnecb, wecb, txgoecb, wakeecb,
                   shared, own, packets, channel, sends>>

(* The elements of a sequence that are in a set, in their order. *)
Only(q, S) ==
    LET upto[n \in 0 .. Len(q)] ==
            IF n = 0 THEN <<>>
            ELSE IF q[n] \in S THEN Append(upto[n - 1], q[n]) ELSE upto[n - 1]
    IN  upto[Len(q)]

(* ctcif_dec_next: segments that are no IPv4 are skipped, and the walk ends *)
(* at one whose length cannot be.                                             *)
Decoded(blk) ==
    LET bad == {i \in DOMAIN blk : blk[i].fault = "segment"}
        n   == IF bad = {} THEN Len(blk) ELSE Min(bad) - 1
    IN  Only(SubSeq(blk, 1, n), {p \in ToSet(blk) : p.fault # "nonip"})

(* ctci_decode_block: every packet gets a buffer and an event, or is dropped *)
(* for want of either.                                                         *)
Post(pkts) ==
    \E at \in [DOMAIN pkts -> {b \in Bufs : freed[b] > 0} \cup {NONE}] :
        /\ \A i, j \in DOMAIN pkts : i # j /\ at[i] = at[j] => at[i] = NONE
        /\ LET got == [i \in DOMAIN pkts |-> [buf |-> at[i], pkt |-> pkts[i]]]
           IN  evq' = evq \o Only(got, Carried)
        /\ freed' = [b \in Bufs |-> IF \E i \in DOMAIN pkts : at[i] = b
                                    THEN freed[b] - 1 ELSE freed[b]]

(* ctci_io_service, the read half: a block is decoded, a purge or an error  *)
(* is not; either way the buffer is held until the writes are out.            *)
ServiceRead ==
    /\ xpc = "service"
    /\ Goto("reap")
    /\ IF rready
       THEN /\ Post(IF rpost = "normal" THEN Decoded(rblk) ELSE <<>>)
            /\ rready' = FALSE /\ rhold' = TRUE /\ rblk' = <<>>
       ELSE UNCHANGED <<rready, rhold, rblk, evq, freed>>
    /\ UNCHANGED <<device, joined, subs, ecbs, wakeecb, stop, rarmed, rpost, wready,
                   txbusy, txpbuf, halting, sendq, rxq, reading, writing, wire, frames,
                   sends>>

(* ... and the write half: the frame of a completed WRITE is freed. *)
ServiceWrite ==
    /\ xpc = "reap"
    /\ Goto("dispatch")
    /\ IF wready /\ txbusy
       THEN Free(txpbuf.buf) /\ txpbuf' = NONE /\ wready' = FALSE /\ txbusy' = FALSE
       ELSE UNCHANGED <<freed, txpbuf, wready, txbusy>>
    /\ UNCHANGED <<device, joined, subs, ecbs, wakeecb, stop, rarmed, rready, rpost,
                   rhold, halting, sendq, evq, rxq, channel, sends>>

(* nsfip_output and dev_send of a packet in buffer b, which is free n times:  *)
(* queued, or freed for want of a route, an open device or room.               *)
Output(b, n, p) ==
    IF nsfip_route(Host, p.dst) /\ state = "UP" /\ Len(sendq) < SendMax
    THEN /\ sendq' = Append(sendq, [buf |-> b, pkt |-> p]) /\ wakeecb' = TRUE
         /\ freed' = [freed EXCEPT ![b] = n]
    ELSE freed' = [freed EXCEPT ![b] = n + 1] /\ UNCHANGED <<sendq, wakeecb>>

(* Mutant of Refuse: the answer takes the packet's own buffer. *)
RefuseInPlace(b, p) ==
    IF HasFree THEN Output(b, freed[b] + 1, p)
    ELSE Free(b) /\ UNCHANGED <<sendq, wakeecb>>

(* nsficmp_send_error or tcp_output_rst in a new buffer, if there is one; the *)
(* packet's own is freed.                                                       *)
Refuse(b, p) ==
    IF HasFree /\ nsfip_route(Host, p.dst) /\ state = "UP" /\ Len(sendq) < SendMax
    THEN /\ sendq' = Append(sendq, [buf |-> FreeHead, pkt |-> p]) /\ wakeecb' = TRUE
         /\ freed' = [freed EXCEPT ![b] = @ + 1, ![FreeHead] = @ - 1]
    ELSE Free(b) /\ UNCHANGED <<sendq, wakeecb>>

(* nsf_rx_packet: the packet is dropped, answered in its buffer or in another, *)
(* or is a socket's, which copies or drops it or queues the buffer.              *)
Handle ==
    /\ xpc = "dispatch" /\ evq # <<>>
    /\ evq' = Tail(evq)
    /\ LET b == Head(evq).buf
           r == nsfip_input(Host, Head(evq).pkt)
           hold == rxq' = rxq \cup {b} /\ UNCHANGED <<sendq, freed, wakeecb>>
           drop == Free(b) /\ UNCHANGED <<sendq, wakeecb, rxq>>
       IN  \/ r.what \in {"drop", "socket"} /\ drop
           \/ r.what = "turned" /\ Output(b, freed[b], r.pkt) /\ UNCHANGED rxq
           \/ r.what = "refused" /\ Refuse(b, r.pkt) /\ UNCHANGED rxq
           \/ r.what = "socket" /\ hold
    /\ UNCHANGED <<device, xpc, joined, subs, ecbs, shared, own, channel, sends>>

(* An application takes a packet from its socket, or the socket ends. *)
Receive ==
    /\ xpc = "dispatch"
    /\ \E b \in rxq : Free(b) /\ rxq' = rxq \ {b}
    /\ UNCHANGED <<device, xpc, joined, subs, ecbs, wakeecb, shared, own, sendq, evq,
                   channel, sends>>

(* A request or a timer originates a packet. *)
Originate ==
    /\ xpc = "dispatch" /\ sends > 0
    /\ sends' = sends - 1
    /\ HasFree /\ \E p \in Ours : Output(FreeHead, freed[FreeHead] - 1, p)
    /\ UNCHANGED <<device, xpc, joined, subs, ecbs, shared, own, evq, rxq, channel>>

DispatchEnds ==
    /\ xpc = "dispatch"
    /\ Goto("kick")
    /\ UNCHANGED <<device, joined, subs, ecbs, wakeecb, shared, own, packets,
                   channel, sends>>

-----------------------------------------------------------------------------
(* nsfdev_kick_output and ctci_io_kick.  Nothing to do: no device, a WRITE  *)
(* outstanding, or the read neither parked nor to be parked.                  *)
MayHalt == ~rhold /\ sendq # <<>> /\ ~halting /\ rarmed
KickIdle ==
    /\ xpc = "kick" /\ (state # "UP" \/ txbusy \/ ~(rhold \/ MayHalt))
    /\ Goto("last")
    /\ UNCHANGED <<device, joined, subs, ecbs, wakeecb, shared, own, packets,
                   channel, sends>>

(* A frame waits behind an armed READ: the READ is halted once ... *)
KickHalt ==
    /\ xpc = "kick" /\ state = "UP" /\ ~txbusy
    /\ MayHalt
    /\ halting' = TRUE
    /\ Goto("halt")
    /\ UNCHANGED <<device, joined, subs, ecbs, wakeecb, shared, txbusy, txpbuf,
                   rhold, packets, channel, sends>>

(* ... which purges it, unless a block has completed it in between. *)
HaltRead ==
    /\ xpc = "halt"
    /\ IF reading THEN reading' = FALSE /\ rpost' = "purged" /\ recb' = TRUE
                  ELSE UNCHANGED <<reading, rpost, recb>>
    /\ Goto("last")
    /\ UNCHANGED <<device, joined, subs, ecb, returnecb, wecb, txgoecb, wakeecb, stop,
                   rarmed, rready, wready, own, packets, writing, blocks, sends>>

(* Mutant of KickWrite: a READ not told to be outstanding is taken for none. *)
KickWriteUnparked ==
    /\ xpc = "kick" /\ state = "UP" /\ ~txbusy /\ (rhold \/ ~rarmed)
    /\ sendq # <<>>
    /\ txpbuf' = Head(sendq) /\ txbusy' = TRUE /\ txgoecb' = TRUE
    /\ sendq' = Tail(sendq)
    /\ Goto("last")
    /\ UNCHANGED <<device, joined, subs, ecb, recb, returnecb, wecb, wakeecb, shared,
                   rhold, halting, evq, rxq, freed, channel, sends>>

(* The read is parked: frames that cannot be encoded are dropped, the next  *)
(* one is handed to the write subtask.                                        *)
KickWrite ==
    /\ xpc = "kick" /\ state = "UP" /\ ~txbusy /\ rhold
    /\ \E n \in DOMAIN sendq :
        /\ FreeAll({sendq[i].buf : i \in 1 .. n - 1})
        /\ txpbuf' = sendq[n] /\ txbusy' = TRUE /\ txgoecb' = TRUE
        /\ sendq' = SubSeq(sendq, n + 1, Len(sendq))
    /\ Goto("last")
    /\ UNCHANGED <<device, joined, subs, ecb, recb, returnecb, wecb, wakeecb, shared,
                   rhold, halting, evq, rxq, channel, sends>>

(* Nothing is left to write: the read buffer goes back to its subtask. *)
KickRelease ==
    /\ xpc = "kick" /\ state = "UP" /\ ~txbusy /\ rhold
    /\ FreeAll(BufsOf(sendq)) /\ sendq' = <<>>
    /\ rhold' = FALSE /\ halting' = FALSE /\ returnecb' = TRUE
    /\ Goto("last")
    /\ UNCHANGED <<device, joined, subs, ecb, recb, wecb, txgoecb, wakeecb, shared,
                   txbusy, txpbuf, evq, rxq, channel, sends>>

(* The pass ends; a stop may have been requested.  evt_shutdown then frees    *)
(* the events still queued, but not the packets they carry.                    *)
PassEnds ==
    /\ xpc = "last"
    /\ \/ Goto("gate") /\ UNCHANGED <<state, evq>>
       \/ /\ evq' = <<>>
          /\ IF state = "UP" THEN state' = "QUIESCING" /\ Goto("stopsubs")
                             ELSE Goto("teardown") /\ UNCHANGED state
    /\ UNCHANGED <<priv, storage, region, joined, subs, ecbs, wakeecb, shared, own,
                   sendq, rxq, freed, channel, sends>>

-----------------------------------------------------------------------------
(* ctci_stop_and_join: the flag and every ECB; then each subtask is waited  *)
(* for, but not without end.                                                  *)
StopSubs ==
    /\ xpc = "stopsubs"
    /\ Goto("joinread")
    /\ stop' = TRUE /\ recb' = TRUE /\ wecb' = TRUE /\ returnecb' = TRUE
    /\ txgoecb' = TRUE
    /\ UNCHANGED <<device, joined, subs, ecb, wakeecb, rarmed, rready, rpost, wready,
                   own, packets, channel, sends>>

Ended(pc) == pc \in {"none", "ended"}

Joins(pc) ==
    \/ Ended(pc) /\ UNCHANGED joined
    \/ pc \in Slow /\ joined' = FALSE

JoinRead ==
    /\ xpc = "joinread" /\ Joins(rpc)
    /\ Goto("joinwrite")
    /\ UNCHANGED <<device, subs, ecbs, wakeecb, shared, own, packets, channel, sends>>

JoinWrite ==
    /\ xpc = "joinwrite" /\ Joins(wpc)
    /\ Goto("release")
    /\ UNCHANGED <<device, subs, ecbs, wakeecb, shared, own, packets, channel, sends>>

(* Mutant of ReleaseStopped: a subtask that did not end is not waited for. *)
ReleaseUnjoined ==
    /\ xpc = "release" /\ state = "QUIESCING"
    /\ priv' = FALSE /\ storage' = "released" /\ state' = "DOWN"
    /\ FreeAll(BufsOf(sendq) \cup InWrite) /\ sendq' = <<>>
    /\ txpbuf' = NONE /\ ecb' = FALSE
    /\ Goto("teardown")
    /\ UNCHANGED <<region, joined, subs, recb, returnecb, wecb, txgoecb, wakeecb,
                   shared, txbusy, rhold, halting, evq, rxq, channel, sends>>

(* ctci_op_shutdown and dev_shutdown: with a subtask that did not end the    *)
(* storage is retained, and the frame being written with it.                  *)
ReleaseStopped ==
    /\ xpc = "release" /\ state = "QUIESCING"
    /\ IF joined THEN /\ priv' = FALSE /\ storage' = "released" /\ txpbuf' = NONE
                      /\ FreeAll(BufsOf(sendq) \cup InWrite)
                 ELSE FreeAll(BufsOf(sendq)) /\ UNCHANGED <<priv, storage, txpbuf>>
    /\ sendq' = <<>> /\ ecb' = FALSE /\ state' = "DOWN"
    /\ Goto("teardown")
    /\ UNCHANGED <<region, joined, subs, recb, returnecb, wecb, txgoecb, wakeecb,
                   shared, txbusy, rhold, halting, evq, rxq, channel, sends>>

(* The failed start releases whatever the join said. *)
ReleaseFailed ==
    /\ xpc = "release" /\ state = "STARTING"
    /\ priv' = FALSE /\ storage' = "released" /\ state' = "DOWN"
    /\ Goto("gate")
    /\ UNCHANGED <<region, joined, subs, ecbs, wakeecb, shared, own, packets,
                   channel, sends>>

(* nsf_shutdown: the pools go unless dev_busy_count finds the device.        *)
Teardown ==
    /\ xpc = "teardown"
    /\ region' = (state # "DOWN" \/ priv)
    /\ Goto("ended")
    /\ UNCHANGED <<state, priv, storage, joined, subs, ecbs, wakeecb, shared, own,
                   packets, channel, sends>>

-----------------------------------------------------------------------------
Start == StartRead \/ StartFails \/ StartWrite \/ StartEnds
Serve == PollInput \/ ServiceRead \/ ServiceWrite \/ Handle \/ DispatchEnds
Kick  == KickIdle \/ KickHalt \/ HaltRead \/ KickWrite \/ KickRelease
Stop  == StopSubs \/ JoinRead \/ JoinWrite \/ ReleaseStopped \/ ReleaseFailed
             \/ Teardown

(* What the executive does without being asked from outside. *)
Exec == Start \/ Pass \/ Sleep \/ Wake \/ Serve \/ Kick \/ PassEnds \/ Stop

Next ==
    \/ Exec \/ PassOther \/ Receive \/ Originate
    \/ read_sub \/ write_sub \/ Arrive \/ ArriveAnswer \/ Written

Spec == Init /\ [][Next]_vars

(* Tasks keep running and a WRITE that has the channel completes; no block  *)
(* need arrive and nobody else need call the executive.                       *)
FairSpec ==
    Spec /\ WF_vars(Exec) /\ WF_vars(read_sub) /\ WF_vars(write_sub)
         /\ WF_vars(Written)

-----------------------------------------------------------------------------
(* No packet buffer is freed twice, or free while in use, and while the       *)
(* executive runs none is lost: each is in exactly one place, on the free list, *)
(* the event queue, a socket's queue, the send queue, or with the WRITE.        *)
Times(b, q) == Cardinality({i \in DOMAIN q : q[i].buf = b})
Places(b) ==
    freed[b] + Times(b, sendq) + Times(b, evq)
             + Cardinality({b} \cap InWrite) + Cardinality({b} \cap rxq)
BuffersKept ==
    \A b \in Bufs : Places(b) <= 1 /\ (state = "UP" => Places(b) = 1)

(* The pair shares one channel: no WRITE is started while a READ is         *)
(* outstanding, where it would wait for the next inbound block, nor a READ    *)
(* while a WRITE is (ADR-0025).                                               *)
PairSequenced == ~(reading /\ writing)

(* A device that came up gives neither its storage nor, at the end, the     *)
(* pools back while a subtask that uses them lives (ctci_op_shutdown; a start *)
(* that fails makes no such distinction, ReleaseFailed).                       *)
StorageOutlives ==
    wstart = "ok" /\ (storage = "released" \/ ~region) => Ended(rpc) /\ Ended(wpc)

(* The pair keeps moving with no inbound traffic and no other caller: a      *)
(* queued frame leaves the queue, a read that completed is armed again.       *)
PairMoves ==
    /\ \A b \in Bufs : b \in BufsOf(sendq) ~> b \notin BufsOf(sendq)
    /\ rpc = "parked" ~> reading \/ stop
=============================================================================

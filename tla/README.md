# NSF/370: specification and proofs

NSF/370 is a TCP/IP stack for MVS 3.8j. One started task, NSFS, runs a
single-threaded executive that owns every socket, timer and device. Programs in
other address spaces reach it through an SVC routine and a pool of request slots
in common storage; interrupt exits and channel subtasks hand work to it through
lock-free queues and ECBs. This directory holds TLA+ modules translated from the
sources, the configurations that model-check them, and TLAPS proofs.

## Inventory

State, operations, neighbours and what makes each part correct. "C" marks the
behaviour that is hard: concurrency, failure, ordering or timing.

| Part | State | Operations | Talks to | What must hold |
|---|---|---|---|---|
| SVC transport (`asm/nsfvsvc.asm`, `src/nsfsx.c`) C | anchor, slots, in-flight word, SVC entry, wake ECB | client: claim, stage, publish, post, wait, copy out, release; server: drain, reap, stop, recover, adopt | clients in other address spaces; executive | one owner a slot; the right answer to each call; nothing freed under a client; every call returns |
| Crossing rules (`src/nsfreqx.c`) | none | classify, slot action, reap and adopt decisions, copy in and out | slot pool | decisions agree with each other |
| Rendezvous (`src/nsfsct.c`, `src/nsfsct_plat.c`, `src/nsfsx.c`, `src/nsfsmain.c`) C | subsystem chain entry, anchor, copy of the SVC routine, SVC entry | find, classify, adopt, replace, stand aside, register, retain, remove | instances before and beside it; clients still parked | nothing in common storage freed while used; one server an anchor; a registration is not lost |
| Timer manager (`src/nsftmr.c`, `asm/nsfstim.asm`) C | delta queue, armed interval, STIMER, ECB | start, cancel, wake, run, STIMER exit | executive loop, TCP, select | deadlines kept; STIMER armed iff needed |
| Executive (`src/nsfevt.c`, `asm/nsfxq.asm`) C | event queue, handoff stack, ECBs, stop flag | post, push, main loop pass, stop, shutdown | everything | no lost wake-up, no starvation, orderly stop |
| Requests and sockets (`src/nsfreq.c`, `src/nsfsoc.c`, `src/nsfsel.c`) C | sockets, parked requests, application slots, select blocks | dispatch, park, complete, destroy, select, sweep | transport, protocols, timers | each request completed exactly once; stale descriptors refused |
| TCP (`src/nsftcp.c`) C | connection blocks, send and receive queues, timers | segment arrival, user calls, timer expiry | sockets, IP, timers | in-order delivery, bounded retransmission, single release |
| Application interface (`src/nsfeza.c`) C | registration, table of socket numbers, their modes | INITAPI, SOCKET, ACCEPT, CLOSE, TERMAPI, data verbs, plist decoder | transport, programs | a number names its own socket or nothing; no socket without a number; parked only on what is its own |
| UDP (`src/nsfudp.c`) | control blocks, receive queues | bind, receive, input, detach | sockets, IP | right demultiplexing, nobody sleeps over data |
| IP and ICMP (`src/nsfip.c`, `src/nsficmp.c`) | routes, counters | input, output, echo, errors | devices, protocols | a packet has one fate; answers are not answered |
| Devices and CTC driver (`src/nsfdev.c`, `src/nsfctcib.c`, `src/nsfctcif.c`) C | queues, flags, ECBs of two subtasks | start, service, send, halt, stop, release | executive, channel | no buffer lost or freed twice; the pair of subchannels keeps moving; nothing released under a subtask |
| Pools and buffers (`src/nsfmm.c`, `src/nsfbuf.c`, `src/nsfque.c`) | free lists, buffer chains | alloc, free, prepend, trim | everything | no double free, bounds |
| Operator, main programs, configuration, statistics, trace, messages, probe STC, loopback device | | | | not modelled: conversion, text, start-up order, diagnostics, test aids |

## The modules

| Part | Component | Abstract specification | Instance | Proofs |
|---|---|---|---|---|
| Transport | `NsfSlotPool` over `NsfReqX` | `NsfCallSpec` | `MCNsfSlotPool` | `NsfSlotPoolInv`, `NsfSlotPoolProofs` |
| Rendezvous | `NsfSct` | | `MCNsfSct` | `NsfSctProofs` |
| Timers | `NsfTmr` | `NsfTmrSpec` | `MCNsfTmr` | `NsfTmrProofs` |
| Executive | `NsfExec` | `NsfReqQueueSpec` | `MCNsfExec` | `NsfExecProofs` |
| Sockets, UDP | `NsfSocket` | `NsfDescSpec` | `MCNsfSocket` | `NsfSocketProofs` |
| Application interface | `NsfEza` | | `MCNsfEza` | `NsfEzaProofs` |
| TCP | `NsfTcp` over `NsfTcpCb` | | `MCNsfTcp` | `NsfTcpInv`, `NsfTcpProofs` |
| Devices, IP, ICMP, buffers | `NsfDev` over `NsfIp` | | `MCNsfDev` | `NsfDevProofs` |

How they meet: `NsfSlotPool` has the executive as the taker of one request at a time,
`NsfSocket` has the transport as a client that waits for one answer; `NsfSct` reduces
a client to being inside an anchor and a copy of the routine, `NsfSlotPool` fixes the
anchor and follows the client instruction by instruction. `NsfTcp` has the network
where `NsfDev` has the packets, and an armed timer where `NsfTmr` has the queue. `NsfEza`
looks at the registry and the sockets of `NsfSocket` and at the accept queue of `NsfTcp`
from the program's side, through a transport that may refuse.

Still to come, in the order of worth: a composition of one slot of the pool with the
socket layer's cancellation of parked requests; MSS negotiation; several devices; the
route table against a reference definition.

A definition whose comment calls it a mutant is a plausible mistake in the code, kept
beside the definition it would replace. It is no part of any specification: it shows
that the property a run checks would notice.

## The slot pool

`NsfSlotPool` models one anchor with `NSlots` slots, `Clients` executing the SVC
routine and the single thread of the STC.

* A client's `pc` follows `nsfvsvc.asm`: `check` (eye catcher, version, ACTIVE),
  `scan` (compare-and-swap on `req_state`), `inc` (UINCLP), `stage` and `publish`
  (RQEIN), `post` (DOPOST with the POST under error recovery), `wait`, then `out`,
  `free`, `dec` (RQEOUT, REPLYC, UDEC1). Each shared access is an action of its
  own, since clients and server are address spaces that run in parallel.
* The server's `spc` follows one executive pass: the WAIT gate, which probes the pool
  once (`nsfsx_pending`: `Pass` if it finds work, else `Sleep`), the WAIT itself
  (`asleep`), which the POST of the wake ECB ends (`Wake`) and no store into a slot does,
  `nsfsx_drain` (reset of the wake ECB, completion of the
  request in service, one slot action after another), then dispatch. `PassOther` is
  whatever else keeps the executive from the WAIT or ends it. `reap_*` is
  `nsfsx_reap` with the load and the store of `inflight--` apart. `stop_*` is
  `nsfsx_stop` and `nsfsx_drain_inflight`, `adopt_*` is `nsfsx_adopt` with its
  scrub, settle, reload, and the new steal of the SVC.
* `Die` ends an address space anywhere in the routine, `Reborn` re-creates its
  ASID and ASCB, `Abend` runs `nsfsx_recover_quiesce` at any point of the STC.
* Buffers, keys and sizes are left out: an image is only *which call it asks for
  and which call it answers*, enough to tell a wrong answer from a right one.

`NsfReqX` holds the pure decisions as operators with the source's names.
`NsfCallSpec` is the promise to a caller: a call ends once, "ok" only after its
request was taken and answered. `KeepsPromise` is the refinement.

| Run | What is explored | Properties |
|---|---|---|
| PoolServe | three clients, two slots, a stop, an abend or a failed start, and a start that adopts; nobody dies | ExclusiveOwner, RightAnswer, InServiceIntact, InflightCovers, NoHotSpin, NotPulledAway, KeepsPromise |
| PoolLive | fairness; two clients, a death, the reuse of its ASID and ASCB, an abend and an adopting start | DispatchOnce, CallReturns, AdoptionReleases |
| PoolPulled | a client dies and its slot is reaped while others enter and the STC stops | NotPulledAway: violated |

Bounds. Two or three clients on two slots make contention, exhaustion and
reuse happen; one death, one rebirth, one stop, one abend and one adopting start
each are enough for the pairs of these that a run explores to meet, and the proofs do
not depend on them. `Wrap` is the range of the in-flight word: 8 instead of 2^32 still
shows an underflow. `DrainMax` is the number of polls of a stop. `Unreadable` names the
places where the ASVT may be unreadable. Deadlock is not checked because bounded clients
really stop.

Assumptions. `LongPauses`: a pause of `nsfsx_stop` or `nsfsx_adopt` (seconds)
outlasts the running part of a call (instructions), so that no client that was
between two instructions when the pause began is still there when it ends;
parked clients and dead ones are unaffected. The source relies on it
(`NSFSX_DRAIN_SETTLE`, ADR-0048). `NotPulledAway` and `InflightCovers` are checked
without deaths: with them they fail, which is the finding below. DispatchOnce assumes
that an adopting start can read the ASVT (`Unreadable = {}`): an owner of verdict
UNKNOWN keeps its PENDING slot, and if that request had been dispatched before the
stop, the new server dispatches it again (`nsfreqx.c:284`).

Fairness. A task in the routine keeps running, and so does the executive; a
request in service is completed by an event that repeatedly may arrive (strong
fairness of `ExecComplete`). `PassOther` has no fairness: an executive that sleeps is
assumed to be woken by nothing but its wake ECB, so a POST that is lost in the routine
(mutant `PostUnheard`) leaves its caller waiting and CallReturns is refuted. `RestartSpec` adds an operator who starts the STC again.

### Proofs

`NsfSlotPoolProofs` proves, for any finite set of clients, any number of slots
and any bounds:

* `TypeCorrect`: `Spec => []TypeOK`.
* `Inductive`: `Spec => []IInv`, assuming `LongPauses` and `DrainMax # 0`.
* `SafeOwnership`, `ServiceKept`, `AnswersMatch`: ExclusiveOwner, InServiceIntact
  and RightAnswer follow from `IInv`.

None of these is inductive. `IInv` (`NsfSlotPoolInv`) adds what the code
relies on without saying: a slot that is claimed, published or answered has the
owner recorded in it unless that owner has died; the private copy matches the
slot in service; a reaper that has won its compare-and-swap holds a slot whose
recorded owner is dead; no living client is between two instructions of the
routine while the anchor is being freed or scrubbed; the state the server
remembers of a slot (`want`) can have changed only in ways the next
compare-and-swap detects. The argument goes action by action: client actions
touch only their own slot, which no other owner names; the server's actions touch
the slot in service, or a slot whose owner is dead. Each action is a lemma, and a
lemma has one step per conjunct the action can disturb.

On top of `IInv`, with the same two assumptions, stand three more arguments:

* The in-flight word. As long as no address space has ended, the word is exactly the
  number of clients that are counted or left with their count (`Tallied`): nothing is ever
  reaped then, so the plain store of `nsfsx_reap` is never executed. `CountsAll` gives
  `[](NoDeaths => InflightCovers)`; `NeverPulled` gives `NotPulledAway` when
  `MaxDeaths = 0`, since a second look that finds zero after a pause finds nobody in the
  routine, and nobody enters while the SVC is restored. `Cardinality(Clients) < Wrap`
  is assumed: the word holds every client. With a death both fail (run PoolPulled).
* Requests (`RequestsInductive`). A request is staged into one slot and is nowhere before;
  a PENDING slot whose request was dispatched before is the one in service, or was left by
  an ended STC and the adopting one has yet to come to it; what is answered was dispatched.
  From it `DispatchedOnce` gives `DispatchOnce` and `PromiseKept` gives `KeepsPromise`,
  the refinement of `NsfCallSpec`, step by step: `Enter` issues, `ActDispatch` takes,
  `ExecComplete` answers, the exits of the routine and the end of the client's address
  space return, and everything else stutters. The assumption is that the ASVT can be read
  while slots are adopted (`"adopt_scrub" \notin Unreadable`); without it a request can be
  dispatched again, as said above.
* The WAIT gate (`GateHonest`). From the probe that found work to the step of the drain
  that does it, the slot waits where the scan will meet it: `[](births = 0 => NoHotSpin)`,
  if the gate can read the ASVT. An address space re-created between probe and scan turns
  a slot to be reaped into one to be dispatched, which waits while another is in service.

All but the liveness properties (CallReturns, AdoptionReleases) of the pool's passing runs
are thus proved. `NsfCallSpec` writes a return as one record, which the provers can compare.

## The rendezvous

`NsfSct` models what outlives an instance of NSFS and what the next one does with it:
the anchor (`shape`, `tail`, `active`, `ecb`, `server`, `router`), the copies of the SVC
routine (`loaded`, `patch`), the SVC table entry (`svc`) and the SSCT chain (`chain`).
Anchors and copies are named after the instance that obtained them, or after the key
they were left under; `Init` admits every kind of leftover: a sound one, one of an older
layout, one whose eye catcher or slot table is spoilt, one whose routine leads
elsewhere, with clients inside and the ended server's ASCB free, reused, or in use.

* A start is `Start`, `Look` (`nsfsct_find`, the posture, the start action), then
  `Replace`, or `AdoptStamp`, `AdoptScrub`, `AdoptReuse`/`AdoptReload`/`AdoptFails`,
  `AdoptActive`, or `Alloc`; then `Steal` or its failure (`StealFails`, `Unadopt`),
  `Register` or its refusal, and `Protect`, from where the ESTAE exit covers it.
* A stop is `StopRestore`, `StopClear`, `Drained` or `StopRetain`, `Unname`, `StopFree`;
  `Recover` is `nsf_recover` at any place the ESTAE covers, `End` the end of the address
  space at any place at all, without recovery.
* A client is inside an anchor and a copy of the routine, or not. `Reap` and
  `AdoptScrub` give back the slots of any subset of the dead: one that died between claim
  and publication, or whose owner cannot be classified, stays counted.

| Run | What is explored | Properties |
|---|---|---|
| Sct | two instances over any leftover under one of three job names, two clients, two ASCBs | StorageHeld, RetainedFound |

Bounds. Leftovers make a third instance of the first start, so that two instances give
an adoption of an adopted anchor, a start beside a living server (`P NSFS` and at once
`S NSFS`: the posture is ALIVE, the start stands aside), and competing registrations.
Two of the job names share a key; the third has no letter and is refused a registration.
Two ASCBs make their reuse happen. The proofs below depend on none of these.

Overlapping starts. Nothing in the code keeps a second start under the same SSCT name from
looking at the chain between another start's look and its stamp or its removal of a
replaced entry (`nsfsx.c:856`), and nothing in `Look` does. `crossed` records that two starts
had thus decided at once, both to adopt or replace what one entry leads to; a second start
that stands aside or registers afresh does not count. From then on the two properties
claim nothing: TLC refutes StorageHeld without the exception after six steps of two starts
(both adopt the same anchor and serve it), RetainedFound after nine (the second one's
removal by name takes the registration the first has just made). The other interleavings
of two instances, stops and abends included, are claimed. The SVC entry is stolen
atomically. There is no fairness: both properties are about safety.

An instance that ends between the steal and its ESTAE (`nsfsmain.c:463` to 501) leaves the SVC
entry stolen and the anchor SERVED for good, and an anchor retained by an instance that
stood aside is found by nobody; both are by design of the code, waste storage and break no
property. `BADVER` is not checked against a server of another build that still runs
(`nsfsct.h:154`); such servers are left out.

### Proofs

`NsfSctProofs` proves for any sets of instances, clients, names and ASCBs, with no
assumption on how starts interleave:

* `SctInductive`: `Spec => [](~crossed => SInv)`.
* `InUseNotFreed`: `Spec => []StorageHeld`.
* `RegistrationsKept`: `Spec => []RetainedFound`.

The last two carry the exception for `crossed` in the property itself.

Neither property is inductive: whether an anchor may be freed depends on who may believe
it to be its own. `SInv` is a conjunction of named parts:

* `Identity`: living instances have distinct ASCBs; `Served`: an instance that holds an
  anchor has its ASCB recorded there. Together they make the server of an anchor unique,
  and keep the anchor of a living instance from ever looking RETAINED to another
  (`nsfreqx_server_gone` answers no).
* `Copied`, `Recorded`: an instance's copy is loaded, leads to its anchor and is the one
  recorded there; no copy is recorded twice. `Entered`: the SVC entry leads to a loaded copy
  whose anchor has its wake ECB published, so that no start adopts it, and is served by
  nobody but the instance that stole the entry. `Occupied`: what a client is in exists,
  and its copy leads to its anchor. `Emptied`: nobody is inside an anchor past its drain,
  nor in a copy just loaded.
* `Chained`, `Titled`, `Registered`: an anchor that is served is chained under its
  server's name exactly if the server remembers the registration (`owned`) or is still
  adopting, so a stop by name removes its own entry and no other.
* `Decided`: what a start found and decided still holds when it acts on it, and no two
  starts have decided about one entry (this is where `~crossed` is used). `Unborn`: nobody knows an anchor or copy not yet obtained.

Each action is a lemma with one leaf for every part of `SInv`.

## Timers

`NsfTmr` has the delta queue as a sequence of timers with deltas (`g_tmrq`), the
module word `g_armed`, the hardware (`hw` ticks left, `ival` the interval its exit
re-arms, `ecb`), and `pc`/`cb` to run callbacks inside `nsftmr_run`, from which
timers may be started and cancelled. `Tick` is one tick of real time. The exit of a
replaced interval may be taken between NSFTMARM's XC and STIMER.
`NsfTmrSpec` is the promise on the queue's own clock: deadlines, and callbacks in
order, exactly when due. `asked`, `age`, `slack` are history.

| Run | Properties |
|---|---|
| Tmr: three timers, one of them restarted, cancelled and started from callbacks; wakes served late; fairness | ArmedForHead, KeepsDeadlines (refinement), EarlyBounded, EveryTimerFires |

`Asks` gives one timer the intervals 1 (asked for as 0) and 2, the others 1 and 3: insertion
before, between and behind others, ties, and head and middle cancels happen; `Moved` names the
timers that are restarted and cancelled while pending. Fairness: time passes, and the executive serves
its ECB and leaves `nsftmr_run`; starts are not fair. EveryTimerFires holds
unless pending timers are restarted or cancelled for ever; with a short timer
restarted for ever at the head a longer one never fires (each restart re-arms
from now). A timer queued behind the head after part of the armed interval has passed
fires early by that part, since its deadline is reckoned on the queue's clock
(`nsftmr.c:108`); EarlyBounded says that it is no more than that part and, where the exit of a
replaced interval was taken inside the arming, the interval it posted for. The
model starts with the STIMER disarmed, as `nsftmr_init` leaves it; the one-tick
heartbeat the main programs arm before the loop is displaced by the first timer.

**Proved** (`NsfTmrProofs`), for any set of timers, intervals and bound: ArmedForHead,
EarlyBounded, and the refinement KeepsDeadlines. The inductive invariant `IInv` joins five
parts. `TypeOK` says that the queue holds a timer at most once; `HardwareOK` ties the running
interval to `g_armed`; `RunOK` says that the ticks `nsftmr_run` has left never pass the head, which
is why a deadline is never missed; `ArmedForHead` makes that so at the next wake; `EarlyOK` carries
the bound from the start of a timer to its callback. ArmedForHead alone is not inductive: what is
armed when a wake begins comes back as what `nsftmr_run` may consume, so the two states of
the executive need each other. Most of the proof is about the queue as data: `Togo` maps a queue
of differences to deadlines, and a lemma for each of Unlink, Splice, the head's removal and the
shortening of the head says which deadlines move. They rest on one induction over positions
(`Climb`, from the well-foundedness of strict inclusion on finite sets, since the induction
theorems of the library take an operator), used for the recursion of `Clock` (`ClockSum`) and
for the distance between two deadlines (`SameGaps`). EveryTimerFires is liveness and
stays with TLC, which also checked `IInv` on the instance before it was proved.

## The executive

`NsfExec` is one pass of `evt_mainloop` after another, `xpc` its place: the terms
of the WAIT gate, WAIT, the clearing of the handoff ECB, `evt_drain_handoff`,
`nsfreq_drain`, dispatch under the budget, the timer, the stop test, shutdown.
Beside it run applications (`apc`: load and compare-and-swap of `xq_push`, the
POST, the wait), an exit that pushes an event block, the STIMER exit and a task
that stops the loop. `next` is the link field of each request block, so the stack
and the reversed chain run through blocks their applications reuse as soon as they
are answered. A POST wakes an executive in WAIT; `nsfevt_plat_post` does not.
Handlers are one step each and may answer held requests, post an event and
allocate one for an exit; events are counted, not told apart. An event keeps its block
until its handler has returned.
`NsfReqQueueSpec` is the promise of the request queue: first come, first served.

| Run | Properties |
|---|---|
| Exec: two applications, an exit, the timer, a stop, a pool of two events and a budget of one; fairness | NoLostWake, FirstComeFirstServed (refinement), WorkServed, StopHonoured |

Bounds. One application calls twice, the other once: the second call gives the reuse of a
block, and with it a push that succeeds against a head that was drained and pushed again
in between, which `nsfxq.h` says cannot happen; FirstComeFirstServed shows that it does no
harm. A pool of two is what a flood needs: a handler that posts the next event still
holds its own block. `ExitMax` bounds the events exits hold or have pushed. Fairness: tasks
keep running; nobody need call, interrupt or stop. WorkServed and StopHonoured are checked
with a bounded number of calls: the loop of `nsfreq_drain` rechecks without a budget
(`nsfreq.c:1021`), and does not end while an application that was answered in it pushes
its next request before the recheck.

### Proof

`NsfExecProofs` proves NoLostWake and FirstComeFirstServed for any set of applications,
without further assumption; liveness is model-checked only.

NoLostWake is not inductive. `WakeInv` says when the stack may be non-empty with the
request ECB clear: while some application has pushed and not yet posted, or after
`nsfreq_drain` has cleared the ECB and before it takes the stack. Every step that
clears the ECB leads to a take, every push owes a POST, and WAIT is never entered
with the ECB posted.

FirstComeFirstServed is the refinement of `NsfReqQueueSpec`; its queue is what is left of the
last drain, then the stack from its bottom. `QInv` says that the two are separate chains
(Split), that their blocks are exactly those of the callers whose requests wait, and that
outside of the drain the executive holds no block. The link fields belong to whoever owns
the block, so each step that writes one must write outside of both chains: the load of
`xq_push` does because the block is free or not yet pushed, the take because it rewrites
the whole stack. A compare-and-swap that succeeds prepends to the chain the head starts
then, whatever was drained and pushed in between. `Chain` picks the sequence that is linked
from a block; that there is one only (OneChain) is shown by the first place at which two
would differ, and that it is no longer than there are blocks by counting.

## Requests, sockets and UDP

`NsfSocket` models the executive side of a request. The executive runs each
dispatch, timer callback and inbound datagram to completion, so each is one action,
a whole checklist included: `Destroy` is `soc_destroy` for one socket or, from
TERMAPI and the sweep, for all sockets of an application at once (their teardowns do
not affect each other). What is interleaved is everything that can happen while
requests are parked.

* `apptab`, `socktab`, `pcblist`, `selcb` are the tables of the same names; a token or
  descriptor is index and generation. `seltmr` are the armed SELECT timers, `waiting`
  the tasks in WAIT on a parked request, `cur` is `g_cur_ascb`/`g_cur_asid`.
* `phase` 1: subtasks without identity, many requests parked. `phase` 2: identified
  address spaces, one request in service, deaths (`Die`), the sweep from INITAPI on a
  full registry and from the idle drain. `Answers` is what `nsfreqx_classify` may say;
  UNKNOWN and, for a dead batch client, LIVE included.
* A datagram is a unit on a queue, a name is an address and a port, an ephemeral port
  is any free one. A client names any descriptor or token handed out so far, also
  stale ones. The retry interval of the periodic sweep is left out: it may run
  whenever nothing is in service. Sending is left out: it changes no table.

`NsfDescSpec` is the promise about names: each is given out once, a socket belongs to
a registered application and ends with it. KeepsDescriptors is the refinement, with
the names used so far read off the generations.

| Run | Properties |
|---|---|
| SockServe: two clients, both phases, one registry slot, two sockets, one SELECT block, a queue of one datagram | HeldOnce, NobodySleeps, DemuxExact, SelectsKept, OnlyOwnerTouches, KeepsDescriptors |

Bounds. Four successful INITAPIs and SOCKETs allow an application with two sockets
and the reuse of a slot, or two lives of an application with a socket each. One
registry slot makes INITAPI meet a full table, one SELECT block makes SELECT meet
EMFILE, one queued datagram fills the queue; `PcbMax` is never reached. A local name
is INADDR_ANY or the one home address with one port, which is also the ephemeral
range, so that taken names, exhaustion and the preference of the specific name occur.
`GenMax` is above what the run uses: after 65535 lives of one slot an old descriptor
is valid again, and KeepsDescriptors does not hold beyond that. The clients may all be
parked for good, so deadlock is not checked, and no fairness is assumed.

`do_bind` records name and state before UDP may refuse (`nsfreq.c:685`). After EADDRINUSE
a socket is BOUND without a pcb, against `nsfudp.h:20`; after a refused second BIND it
reports a port it does not receive on. DemuxExact, which holds, is about the names
datagrams are delivered by.

### Proofs

`NsfSocketProofs` proves for any sets of tasks, address spaces, names and ports and for any
sizes of the tables, phases and identities included:

* `Inductive`: `Spec => []IInv`, and from it `TypeCorrect`, `OneHolderEach` (HeldOnce),
  `Demultiplexes` (DemuxExact), `KeepsSelectsParked` (SelectsKept), `OwnersOnly`
  (OnlyOwnerTouches).
* `WakesAll`: `Spec => [](NoWrap => NobodySleeps)`.
* `Refines`: `Spec => KeepsDescriptors`, if `OpenMax < GenMax`.

The last two are about names, and a name comes back after `GenMax` lives of a slot:
`NoWrap` says that fewer names were given out so far, `OpenMax < GenMax` that fewer ever
will be. Beyond that they are not true of the code: a SELECT may be parked on a stale
descriptor that comes to name a new socket, and nobody rescans it. The other five hold
whether generations go round or not.

`IInv` is a conjunction of named parts:

* `GenOK`: a slot's generation is at most the number of names given out, one more when
  the slot is vacant. `RegistryOK`: a live socket's token is known. `VacantOK`: a vacant
  slot holds no request, no datagram and no pcb. DemuxExact is inductive beside them.
* `HeldInWait`, `HeldApart`, `InWaitHeld` split HeldOnce into what a step can disturb:
  what is held is in WAIT, two holders hold two tasks, a task in WAIT is held. `Drained`
  and `TimersOK` are the first halves of NobodySleeps and SelectsKept.
* `WatchedOK`: what a parked SELECT names is live or belongs to the past, so a socket that
  opens cannot be one that is watched already. `Quiet` is the second half of NobodySleeps;
  without `WatchedOK` it would not survive SOCKET.

The steps of the proof are those of the code: what `soc_destroy` does to the tables, to
the waits and to the SELECTs are three lemmas, used for CLOSE, TERMAPI, INITAPI's sweep
and the periodic one alike; so are what an application that ends takes with it
(`AppsGone`) and what leaves every socket alone (`SameNames`).

## The application interface

`NsfEza` models `nsfeza.c`, the library in every client address space, and beside it as
much of the stack as its table can be wrong about: the application registry, the socket
table with its generations, accept queues, resets by the peer, and the end and next start
of the stack.

* `g_apptok`, `g_maxsoc`, `g_sockmap`, `g_socknb` are the library's variables, one set for
  each address space. `call` is what the space's one task is in the middle of: parked in
  a verb, between the implicit INITAPI and its SOCKET, or between two CLOSEs of TERMAPI.
* A request reaches the stack only while none is in service (`Served`), as the slot pool
  has it, and may be refused by the transport at any time. A TERMAPI is a request per
  number in use (`TermClose`) and one for the token (`TermEnd`), with other spaces and
  the network between them.
* `NextProgram` is a job step that ends without TERMAPI and the next one in the same
  address space, whose table is fresh while the stack still holds the old registration.
* On the stack's side a slot is free, open, a listener, queued under a listener or left
  to TCP to finish (CLOSING). Addresses, data and the verbs that leave the table alone
  are left out, SELECT with its masks too.

NumbersTrue says what a number is worth, NothingOrphaned what a socket in the stack is
worth to a program, ParkedOnOwn what a parked task stands on. All three are about tables
of several parties that are never locked together: a number is only a copy of a
descriptor, and the stack is never told that a table forgot one.

| Run | Properties |
|---|---|
| EzaTable: two programs, two registry slots, three sockets, two generations before the sign and two after, one end of the stack | NumbersTrue, NothingOrphaned, ParkedOnOwn |

Bounds. Four applications and sockets altogether let one program hold a listener, its
child and a third socket, or let a slot be reused after a close, a reset or a TERMAPI by
the other program. MAXSOC below the table's size is among the values, so that EMFILE
meets a free socket. `GenMax` is above what the run reaches: beyond 65535 lives of a slot
a stale number is valid again, and the three properties say so (`NoWrap`). `SignGen` is
the generation whose descriptor is negative.

**Proved** (`NsfEzaProofs`), for any number of address spaces, sockets, applications and
generations: the types, through wraps too, and the three properties. The properties
are not inductive: that a number of a program leads to its own socket rests on what the
stack has under the number, so `TableInv` adds that a slot's generation tells how often
it was used (`GenOK`; a new descriptor is new), that a live socket has a registered owner
(`OwnersOK`; a fresh token owns nothing yet), that a queued child shares its
listener's owner (`QueuesOK`), that a program whose registration the stack forgot has no
other there (`StaleOK`), and that a mapped descriptor is either of an earlier
generation or open to its program (`MappedOK`). One lemma for each action shows each conjunct kept; `TakeInv`
(a socket gets a number) and `FadeInv` (sockets and numbers go) carry the argument for SOCKET and both
ACCEPTs, and for CLOSE, TERMAPI and resets.

## TCP

`NsfTcpCb` is what an event does to one control block: sending and what may be sent,
acknowledgement, data in and out of order, FIN, reset, retransmission, persist, the
timers' update. A result says how the block looks, what was sent, and whether it
graduated to its listener or is gone. `NsfTcp` has two hosts, their pools of control
blocks and the network between them: calls (LISTEN, CONNECT, ACCEPT, SEND, RECV, SHUTDOWN,
CLOSE), timer expiries, and segments that arrive in any order, again, or never. The
executive runs each to completion, so each is one action.

* Sequence numbers are numbers modulo `SeqMod` (64 for 2^32), compared as the code
  compares them, and start close to the wrap. A byte is known by its place in its
  connection's stream, so a byte of an earlier life on the same ports is told from one
  of this; `iss` in a segment tells for the properties whose it is.
* The socket above a block is in the block's record: its parked calls (`pconn`, `pacc`,
  `precv`, `psend`), its end (`APPCLOSED`).
* SHUTDOWN (`Shuts` says which directions each host's
  application uses): for writing it queues the FIN;
  for reading it sets the bit TCB_F_RCVFIN that the peer's FIN also sets. The model keeps
  the two apart, as `RCVFIN` and `SHUTRD`, so that the properties can tell the peer's end
  of file from a local one; RECV asks for either (`AtEof`), after the data.
* `room` says whether an event finds a buffer; `NoBufMax` bounds how often one does not.
* Time is left out: a timer that is armed may expire. So are options and the MSS
  negotiated by them, checksums, and the sizes of buffers.

| Run | What is explored | Properties |
|---|---|---|
| TcpStream | one connection, three bytes through a window of two, loss, duplication and reordering, SHUTDOWN for reading by the receiver, close by the sender | StreamIntact, WindowHonest, NothingUntimed, ParkedForCause |
| TcpOpen | three initial sequence numbers: SYNs and segments of earlier lives, a backlog of one, SHUTDOWN in both directions, a missing buffer; fairness | AcceptQueueExact, ReclaimsTheDead, ConnectEnds |
| TcpClose | an application closes before all it gave was sent | CloseSendsAll: violated |

Bounds. A window of two and three bytes make the window close, open by a read, and
segments pass one another; `MaxTries` 1 for 12 makes giving up happen. Two segments may
be under way in TcpStream, one in the others. `Closers` keeps TcpStream small: the
receiver's end is closed in the others. Two blocks of the server are a listener
and a child, so that the pool is empty, a backlog is full and a TIME_WAIT is reclaimed;
with one child block the pool bounds the accept queue as well as the backlog does.
`Early = FALSE` in the passing runs keeps the two findings out of the way of the other properties:
there an application closes when all it gave was sent. `Subtasks = FALSE`: nobody calls while a
call of the same socket is parked; another subtask's SHUTDOWN or CLOSE while a SEND is
parked queues the rest of that SEND behind the FIN, and its SHUTDOWN for reading leaves a
parked RECV parked (`nsftcp.c:1929` sets the bit and pokes SELECT only). Fairness is that of the timer manager:
what is armed and stays armed expires. FIN_WAIT_2 has no timer and waits for its peer for ever,
so the statement of liveness is about CONNECT.

WindowHonest's second part and the exceptions of NothingUntimed and ParkedForCause for
`nobufs` say what the code does not do: retransmissions carry an old window
(so an end that sends may be overrun), and nothing wakes a connection for
a buffer that returns (`nsftcp.c:2035`). ParkedForCause also excepts a RECV that
another subtask's SHUTDOWN finds parked: it ends with data, the peer's FIN or a reset.
A connection that gives up sends no RST, and `TCB_F_APPCLOSED` is set
and never read.

### Proof

`NsfTcpProofs` proves for any finite set of control blocks, any hosts, backlogs, windows and
sequence space, and any network:

* AcceptQueueExact, ParkedForCause (with its two exceptions) and the first part of
  WindowHonest, whatever the applications do;
* NothingUntimed, where an application ends its side only when what it gave was sent and waits
  for its calls (`~Early`, `~Subtasks`, as in TcpStream and TcpOpen). Without the first TLC
  refutes it (TcpClose with this property): the close that is taken too far leaves data
  behind without a timer. Without the second the rest of a parked SEND may be queued
  behind a FIN that was sent, and SND.NXT no longer says what is in flight; TLC finds no
  violation on the small instance, so the condition is one of the proof;
* ReclaimsTheDead, under the same conditions and with at most one event that finds no buffer
  (`NoBufMax` 0 or 1). A connection comes to TIME_WAIT with its FIN unsent when a buffer is
  missing twice: for the FIN, and again for the answer to the peer's segment that would have
  sent it; TLC refutes the property in TcpOpen with `NoBufMax = 2`;
* about the end of a connection, where applications close no earlier and wait for their
  calls (`~Early`, `~Subtasks`): the send queue is empty in FIN_WAIT_2 and TIME_WAIT,
  however many buffers are missing (QueueSent), and CloseSendsAll as long as not more than
  one event met an empty pool. A FIN that finds no buffer twice is passed over as TcpClose
  shows for one behind a shut window, so closing early is not the only cause;
* StreamIntact, where an application waits for its calls (`~Subtasks`), with any number of
  buffers missing and also for applications that close early. What it asks of the
  sequence numbers is `Apart(B)`: no application sends more than `B` bytes on a connection,
  `B` and two fit the sequence space, and no two numbers ISS draws are so close that the
  streams which begin at them meet. The modelled network may hold a segment for ever, so
  streams that meet would be mixed up by any TCP. The code has the clock of
  `tcp_gen_iss` and TIME_WAIT for the same end; the model has no time.
  `~Subtasks` is needed: the rest of a parked SEND would be queued behind the FIN.

The assumptions on the constants are SpaceAssumption and PortsAssumption: windows and queues
below half of the sequence space, as `nsftcp.h` has them, a service port below the
ephemeral ones, finitely many control blocks.

None of these is inductive. Inv (`NsfTcpInv`) has three parts. TcbInv speaks of one block: what a receiver
has and offers (RecvOK), the calls that wait (CallOK, SpaceOK), what is in flight
against the send queue, state by state (SendOK: all of it and the FIN once the FIN was sent, at
most the queue before, one in an opening), the timers (TimerOK), and how often a buffer
must have been missing for a FIN to be unsent (FinOK). AcceptInv speaks of listeners and
children: a child has a listener that listens, an accept queue holds the children past the
handshake, each once. SegOK speaks of the network: sequence numbers and windows in
range, and a SYN without an ACK goes to the service, so no connection's SYN finds one that
connects itself (which is why `pconn` means SYN_SENT). TLC checked Inv on the three
instances before it was proved.

The arithmetic comes first: a distance below half of the space is seen by the signed
comparisons (FlightSeen, AckTakes, AheadIs), so that an acceptable acknowledgement takes out of
the flight what it says. Then each handler is followed as `NsfTcpCb` composes it; its
lemma says what it leaves alone, and that a block that kept TcbInv keeps it. The lemmas about
the table (GivenAway, ChildQueued, DestroyedKeeps, Placed) do the same for AcceptInv, and
each action combines the two. ReclaimsTheDead needs besides that a block keeps its `iss` until
it is given back (Orderly).

StreamIntact relates the two ends of a connection, but either end may be gone while segments
of it are under way, its block may serve another connection, and what the peer has read stays
read. StreamInv therefore speaks of streams, each named by the initial number it was drawn for: there
is a ledger with the bytes queued for every stream so far, and whether its FIN was sent. Against
it stand every block (Aligned: SND.UNA is at the SYN, at the first byte
that is not acknowledged, or past the FIN; RCV.NXT is past the bytes that were received, which
are the first ones of the peer's stream, and past its FIN when that was received) and every segment
(Carries: its data lies in its stream at the place its number says, and a FIN behind the last byte).
An event of a block lets the ledger grow for its own stream only, and not once the
FIN was sent (Grows), so what was said of others stays true. That a segment is taken for another
connection's is what `Apart` rules out: two places of streams have the same number only
if they are the same place (Spread). The handlers are followed once more, one lemma for each
(OutputFlow, RecvDataFlow, ProcessFinFlow, ProcessAckFlow and the others), then the table
(AfterFits, PlacedFits) and the actions; CONNECT and tcp_passive_open add an empty stream
(StreamOpens). The ledger is not a state function, so TLC checked what follows from it,
StreamIntact, and not StreamInv.

The second part of WindowHonest and ConnectEnds stay with TLC: the first relates the
window every segment under way offers to both ends, the second is liveness.

## Devices, IP and ICMP

`NsfIp` is what becomes of a packet at a host: the checks of `nsfip_input` in their
order, the echo reply in place, the errors of `nsficmp_send_error` with what they are not
sent for, the reset for a segment without a connection. A packet is a record of what
these rules look at and the first thing that is wrong with it.

`NsfDev` is one CTCI device: `read_sub` and `write_sub` (each step between two accesses to
shared fields an action), the executive's pass as far as it touches the device (`xpc`: gate
and WAIT as in the slot pool, with `ctci_io_pending` looked at once and the POSTs of
`dev->ecb` and the loop's own ECB to end the WAIT, `nsfdev_poll_input`, `ctci_io_service`, dispatch, `nsfdev_kick_output`), start, stop with its
bounded joins, and release; the channel; the host opposite, which follows `NsfIp` too.
All buffers come from one pool and are followed by name from the free list and back.

* The channel is external (`asm/nsfctcio.asm` and the machine below): a WRITE that is
  started while a READ is outstanding waits for it, as ADR-0025 found, and a halt purges
  the READ only if it is outstanding.
* Waits with a time limit leave their ECB unposted (`nsfthr.c:42`), so that late ends
  meet a stop in progress; `Slow` says which of OPEN and CLOSE may outlast them.

| Run | What is explored | Properties |
|---|---|---|
| Dev | a start that may fail, one block out of four kinds, one packet of our own, answers both ways, a stop anywhere, a CLOSE slower than the stop; fairness | BuffersKept, PairSequenced, StorageOutlives, PairMoves |

Bounds. Two buffers and blocks of two to four packets exhaust the pool; a send queue of
one overflows; the blocks hold an echo, datagrams for an open and a closed port, a
segment for no connection, an unknown protocol, a broadcast source, an unreachable
destination, and each kind of damage. Fairness: the executive and the subtasks
run, and a WRITE that has the channel completes; nothing need arrive and nobody else
need call the executive, which is what PairMoves is about (issue #28, ADR-0030); a reader that
arms a READ without its POST (mutant `ReadArmedUntold`) is noticed, since an executive in WAIT
looks at no flag of the device.
BuffersKept says "exactly one place" of a device that is UP: an orderly end of the loop
drops the packets of events still queued (`nsfevt.c:253`), when their pools go too.

StorageOutlives is about devices that came up. A start that fails drops the verdict of the join
(`nsfctcib.c:650`) and releases storage a subtask may still use, against the comment
at line 676; said of every device TLC refutes the property.

### Proof

`NsfDevProofs` proves the three safety properties for any buffers, packets, blocks and
bounds; liveness (PairMoves) stays with TLC. PairSequenced and BuffersKept need no
assumption. StorageOutlives assumes that an OPEN reports before the executive's wait for it
ends (`"open" \notin Slow`, as in Dev): one that opens after its start has failed finds
the storage gone.

None is inductive. DInv is the hand-over written out: a READ is outstanding only between
its start and its subtask's look at the completion (Reading); while the executive holds a
block or may take one, the reader is parked or about to be, and has not been given the
buffer back (Held); there is one WRITE, asked for, under way or to be reaped (Writing), and
until it is reaped the executive holds the read buffer (Busy). So a WRITE implies
`txbusy`, that implies `rhold`, and that no READ. Storage ties the device's state to its
storage and to what the joins saw; Opening adds, where no OPEN is slow, that a subtask lives
only as long as the device is started. Each group of actions has a lemma with a step per
action and, under it, one per part the action disturbs.

BuffersKept has an invariant of its own, BInv: the queues hold packets in buffers, the pool
counts no buffer negatively (Typed); what decides whether the packets still count is known
at each point of the executive (Frame); and the places of every buffer add up to one
(Counted). What an action does to the sum follows from lemmas on Times, the number of a
buffer's occurrences on a queue: a concatenation adds them, taking the head takes at most
one away, a queue without repetition holds a buffer at most once. The filter of the decoder
and of the event post (Only) is a recursive function over the positions of its sequence, so
that it keeps order and adds nothing is shown by the least position at which it would fail.

## What disagrees with the documents

The first two are runs that TLC refutes; PROJECT.json quotes the line each contradicts.

* PoolPulled: `nsfsx_reap` decrements the in-flight word by a plain load and store
  (`nsfsx.c:573`) against clients' compare-and-swap. A lost increment makes the
  word too small (InflightCovers fails as soon as one client may die); a later
  stop then frees routine and anchor under a living client.
* TcpClose: `tcp_process_ack` takes a closing connection to its next state when all
  that was sent is acknowledged (`nsftcp.c:1279`), though data and FIN still wait behind a closed
  window; they are never sent.

The next four are stated as properties that do not hold and are left out of the runs. TLC
refutes each in seconds, as an invariant (TermapiDropsAll: as a property) of the
configuration named here without its own properties.

* OnlySentIsResent (TcpStream with `Mss = 2`, `NetMax = 1`, both `Closers`):
  `tcp_rexmit_one` resends from SND.UNA all that fits a segment
  (`nsftcp.c:963`), which may reach beyond SND.NXT; the acknowledgement of it is then
  rejected as one of something unsent (1207 to 1227), until the connection gives up.
* NonblockingNeverParks (EzaTable): RECVFROM and SENDTO do not hear the mode that FIONBIO or
  F_SETFL gave a number (`nsfeza.c:285`) and park, where `nsfeza.h:166` promises the flag on
  every request.
* SocketsHaveNumbers (EzaTable): a descriptor carries its generation in the upper half of a
  fullword that is answered as a signed RETCODE; after 32767 lives of a socket slot it is
  negative, SOCKET and ACCEPT report an error, and the socket stays in the stack
  (`nsfeza.c:217`).
* TermapiDropsAll (EzaTable): TERMAPI forgets token and numbers also when the transport
  refused its requests (`nsfeza.c:618`); the stack keeps registration and sockets until
  the address space ends, where `ezasoket-conformance.md:252` has the registration dropped.

Further disagreements met while modelling: a timer early by
the elapsed part of an interval, the release after a failed start, and overlapping starts,
all described above; and:

* the drain loop of the executive rechecks its queue without a budget (`nsfreq.c:1021`): an
  application that calls again fast enough holds up timers and stop;
* BIND records name and state before the protocol may refuse (`nsfreq.c:685`): a second or
  failed BIND leaves a socket BOUND with a name the demultiplexer does not know;
* an adopting start that cannot read the ASVT keeps a request the ended instance had
  dispatched PENDING (`nsfsx.c:662`), and the new one dispatches it again;
* DONE is stored before the cross-memory post (`nsfsx.c:1669`): an abend between the two
  leaves a caller nobody posts;
* `nsfsx_drain_inflight` does not nudge again when its settle look finds a new client
  (`nsfsx.c:1064`), so one that entered and waited in the pause stays parked until the
  next start;
* `nsfevt_handoff_push` and `nsfevt_wake` set a bit without a POST (`nsfevt.c:151`): an
  executive already in WAIT does not see it. Nothing in production pushes from another
  task yet (`nsfevtp.h:34`).

## What is proved, what is checked

Proved for every value of the constants: every property of the slot pool but its two
liveness properties, its refinement of NsfCallSpec included; NoLostWake of the executive and its refinement of
NsfReqQueueSpec;
StorageHeld and RetainedFound of the rendezvous; PairSequenced, StorageOutlives and BuffersKept
of the device; AcceptQueueExact, StreamIntact, ParkedForCause, NothingUntimed, ReclaimsTheDead and the first part
of WindowHonest of TCP; the types, NumbersTrue, NothingOrphaned and ParkedOnOwn of the application
interface; every property of the socket layer, its refinement of NsfDescSpec included; every
property of the timer manager but EveryTimerFires, its refinement of NsfTmrSpec included. Each
theorem states what it assumes of the constants, and the section of its module says why the
code justifies it or what fails without it. The other properties are model-checked on the
instances above. Liveness under fairness is out of the prover's reach. The second part of TCP's
WindowHonest speaks of both ends and every window under way and is left to TLC.

## Not modelled

See `components` in PROJECT.json for the reason of each. Within the modelled
parts: the probe verbs and the buffer bounce of the SVC routine, storage keys and
the checks of pointers and guard words, statistics and messages; in TCP the options, the MSS
they negotiate, checksums and the readiness answer to SELECT; of the devices more than
one at a time, allocation of the channel by SVC 99, devices without a service routine; the building of
the route table; creation and sealing of pools, lengths and chains inside a buffer; of the
rendezvous the failures to reach key 0 or to chain an SSCT. Configuration, operator commands,
messages and trace convert data and keep no state that another actor can disturb.

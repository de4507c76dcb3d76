---------------------------- MODULE NsfSlotPool ----------------------------
(***************************************************************************)
(* The phase-2 transport: a pool of request slots in common storage,       *)
(* shared by client tasks executing the SVC routine (src/asm/nsfvsvc.asm)  *)
(* in their own address spaces and by the NSFS started task, the STC       *)
(* (src/src/nsfsx.c).                                                       *)
(*                                                                         *)
(* One action is one access (or one run of accesses nobody else can tell   *)
(* apart) to the shared storage: clients and server are separate address   *)
(* spaces on a preemptive, possibly multi-processor machine, so every      *)
(* order of these accesses is possible.                                     *)
(*                                                                         *)
(* A definition named in a comment "Mutant of ..." is a wrong variant of   *)
(* the definition it precedes; no specification uses it.                    *)
(***************************************************************************)
EXTENDS NsfReqX, FiniteSets

CONSTANTS
    Clients,        \* client address spaces; a client is its own ASCB and ASID
    NSlots,         \* ANCNSLOT
    MaxCalls,       \* bound: requests issued by one client
    MaxDeaths,      \* bound: client address spaces that end
    MaxBirths,      \* bound: address spaces created with a reused ASCB and ASID
    MaxStarts,      \* bound: starts of the STC that adopt the anchor
    MaxStops,       \* bound: operator stops of the STC
    MaxAbends,      \* bound: abends and failed starts of the STC
    DrainMax,       \* NSFSX_DRAIN_MAX and NSFSX_ADOPT_POLLS
    Wrap,           \* 2^32, the range of the in-flight word
    LongPauses,     \* assumption: a pause outlasts the running part of a call
    Unreadable      \* bound: places of the server where the ASVT may be unreadable

ASSUME ClientsAssumption ==
    /\ IsFiniteSet(Clients)
    /\ NULL \notin Clients /\ AVAIL \notin Clients /\ NULL # AVAIL
    /\ NULL \notin Clients \X (1 .. MaxCalls)
ASSUME BoundsAssumption ==
    /\ NSlots \in Nat \ {0} /\ Wrap \in Nat \ {0}
    /\ MaxCalls \in Nat /\ MaxDeaths \in Nat /\ MaxBirths \in Nat
    /\ MaxStarts \in Nat /\ MaxStops \in Nat /\ MaxAbends \in Nat
    /\ DrainMax \in Nat
    /\ LongPauses \in BOOLEAN /\ Unreadable \subseteq STRING

VARIABLES
    \* the anchor in common storage
    eye,        \* its eye catcher is intact: it has not been freed
    active,     \* NSFV_ANCHOR_ACTIVE
    ecbptr,     \* server_ecb_ptr # NULL
    server,     \* server_ascb: the STC instance it names
    inflight,   \* inflight, a word
    \* the slots in common storage
    req_state,  \* req_state
    owner,      \* req_ascb and req_asid
    img,        \* rqe and stage: the request and its results
    reply_ecb,  \* reply_ecb is posted
    \* the SVC
    svc,        \* the SVC table entry leads to the routine
    router,     \* copies of the routine loaded so far
    \* the client tasks
    pc,         \* where the task is in the routine
    cs,         \* its slot cursor, the slot it claimed
    rc,         \* the return code of its last call
    got,        \* the image its last call brought back
    calls,      \* calls it has issued
    \* the system
    asvt,       \* the ASVT: client ASID -> its ASCB, or AVAIL
    births,     \* address spaces re-created so far
    \* the started task
    wake,       \* g_wake_ecb is posted
    spc,        \* where its single thread is ("down": the STC has ended)
    gen,        \* instances of the STC so far
    stops, abends,              \* stops, and abends or failed starts, so far
    busy,       \* g_busy_slot, 0 for none
    priv,       \* g_svcreq: the private copy of the request in service
    privecb,    \* its completion ECB is posted
    \* locals of the thread: the slot looked at, the verdict on its owner, the
    \* state a compare-and-swap expects, where the reaper returns to, its copy
    \* of inflight, polls made, somebody was posted, the in-flight word settled
    idx, verd, want, back, tmp, polls, posted, quiet,
    \* history, read by no action: dispatches and completions, what the gate's
    \* probe said and what the drain then did
    disp, done, probe, did

anchor   == <<eye, active, ecbptr, server, inflight>>
pool     == <<req_state, owner, img, reply_ecb>>
routine  == <<svc, router>>
common   == <<anchor, pool, routine>>
tasks    == <<pc, cs, rc, got, calls>>
world    == <<asvt, births>>
instance == <<gen, stops, abends>>
service  == <<busy, priv, privecb>>
scratch  == <<verd, want, back, tmp, polls, posted, quiet>>
locals   == <<idx, scratch>>
history  == <<disp, done, probe, did>>
stc      == <<spc, instance, service, locals, history>>
vars     == <<common, tasks, world, wake, stc>>

Slots    == 1 .. NSlots
Requests == Clients \X (1 .. MaxCalls)
Images   == [req : Requests \cup {NULL}, ans : Requests \cup {NULL}]

ClientPcs == {"idle", "check", "scan", "inc", "stage", "publish", "post",
              "wait", "out", "free", "dec", "dead"}

(* Places at which a client owns the slot it claimed. *)
OwnerPcs  == {"inc", "stage", "publish", "post", "wait", "out", "free"}

ServePcs  == {"gate", "asleep", "reset", "complete", "mark", "reply", "look",
              "scan", "act", "exec"}
ReapPcs   == {"reap_clear", "reap_read", "reap_write"}
StopPcs   == {"stop_clear", "stop_poll", "stop_wake", "stop_pause",
              "stop_settle", "stop_free", "stop_retain"}
AdoptPcs  == {"adopt_stamp", "adopt_scrub", "adopt_act", "adopt_post",
              "adopt_next", "adopt_poll", "adopt_pause", "adopt_settle",
              "adopt_router", "adopt_active", "adopt_steal"}
ServerPcs == {"down"} \cup ServePcs \cup ReapPcs \cup StopPcs \cup AdoptPcs

FreshLocals ==
    /\ idx = 1 /\ verd = LIVE /\ want = FREE /\ back = "exec" /\ tmp = 0
    /\ polls = 0 /\ posted = FALSE /\ quiet = FALSE
Idle == busy = 0 /\ priv = NoImage /\ privecb = FALSE

(* The state nsfsx_start's fresh path leaves behind: anchor allocated and  *)
(* ACTIVE, routine loaded, wake ECB published, SVC stolen.                  *)
Init ==
    /\ eye = TRUE /\ active = TRUE /\ ecbptr = TRUE /\ server = 1
    /\ inflight = 0
    /\ req_state = [s \in Slots |-> FREE] /\ owner = [s \in Slots |-> NULL]
    /\ img = [s \in Slots |-> NoImage] /\ reply_ecb = [s \in Slots |-> FALSE]
    /\ svc = TRUE /\ router = 1
    /\ pc = [c \in Clients |-> "idle"] /\ cs = [c \in Clients |-> 0]
    /\ rc = [c \in Clients |-> "none"] /\ got = [c \in Clients |-> NoImage]
    /\ calls = [c \in Clients |-> 0]
    /\ asvt = [c \in Clients |-> c] /\ births = 0
    /\ wake = FALSE /\ spc = "gate"
    /\ gen = 1 /\ stops = 0 /\ abends = 0
    /\ Idle /\ FreshLocals
    /\ disp = [r \in Requests |-> 0] /\ done = {}
    /\ probe = FALSE /\ did = FALSE

-----------------------------------------------------------------------------
(* The client task inside NSFVSVC.                                          *)

Mine(c) == cs[c]
Go(c, next) == pc' = [pc EXCEPT ![c] = next]

(* The caller issues the SVC: it reaches the routine only while the SVC    *)
(* table entry is stolen.                                                   *)
Enter(c) ==
    /\ pc[c] = "idle" /\ svc /\ calls[c] < MaxCalls
    /\ Go(c, "check")
    /\ rc' = [rc EXCEPT ![c] = "none"] /\ got' = [got EXCEPT ![c] = NoImage]
    /\ calls' = [calls EXCEPT ![c] = @ + 1]
    /\ UNCHANGED <<common, cs, world, wake, stc>>

(* Eye catcher, version and ACTIVE. *)
CheckAnchor(c) ==
    /\ pc[c] = "check" /\ eye /\ active
    /\ Go(c, "scan") /\ cs' = [cs EXCEPT ![c] = 1]
    /\ UNCHANGED <<common, rc, got, calls, world, wake, stc>>

BadAnchor(c) ==
    /\ pc[c] = "check" /\ ~(eye /\ active)
    /\ Go(c, "idle") /\ rc' = [rc EXCEPT ![c] = "corrupt"]
    /\ UNCHANGED <<common, cs, got, calls, world, wake, stc>>

(* Mutant of Claim: the slot is claimed by a plain store. *)
ClaimByStore(c) ==
    /\ pc[c] = "scan"
    /\ req_state' = [req_state EXCEPT ![Mine(c)] = CLAIMED]
    /\ owner' = [owner EXCEPT ![Mine(c)] = c]
    /\ Go(c, "inc")
    /\ UNCHANGED <<anchor, img, reply_ecb, routine, cs, rc, got, calls, world,
                   wake, stc>>

(* CLAIMOK: the compare-and-swap took the slot under the cursor; the       *)
(* owner's identity is recorded in it (nobody reads the identity of a      *)
(* CLAIMED slot to any effect that survives the staging below).            *)
Claim(c) ==
    /\ pc[c] = "scan" /\ req_state[Mine(c)] = FREE
    /\ req_state' = [req_state EXCEPT ![Mine(c)] = CLAIMED]
    /\ owner' = [owner EXCEPT ![Mine(c)] = c]
    /\ Go(c, "inc")
    /\ UNCHANGED <<anchor, img, reply_ecb, routine, cs, rc, got, calls, world,
                   wake, stc>>

(* The compare failed: advance, or POOLFUL after the last slot. *)
ClaimNext(c) ==
    /\ pc[c] = "scan" /\ req_state[Mine(c)] # FREE /\ Mine(c) < NSlots
    /\ cs' = [cs EXCEPT ![c] = @ + 1]
    /\ UNCHANGED <<common, pc, rc, got, calls, world, wake, stc>>

(* Mutant of PoolFull: POOLFUL leaves by the path that gives back the count. *)
PoolFullCounts(c) ==
    /\ pc[c] = "scan" /\ req_state[Mine(c)] # FREE /\ Mine(c) = NSlots
    /\ Go(c, "dec") /\ rc' = [rc EXCEPT ![c] = "nobuf"]
    /\ UNCHANGED <<common, cs, got, calls, world, wake, stc>>

PoolFull(c) ==
    /\ pc[c] = "scan" /\ req_state[Mine(c)] # FREE /\ Mine(c) = NSlots
    /\ Go(c, "idle") /\ rc' = [rc EXCEPT ![c] = "nobuf"]
    /\ cs' = [cs EXCEPT ![c] = 0]
    /\ UNCHANGED <<common, got, calls, world, wake, stc>>

(* UINCLP: the in-flight increment, a compare-and-swap loop. *)
CountIn(c) ==
    /\ pc[c] = "inc"
    /\ inflight' = (inflight + 1) % Wrap
    /\ Go(c, "stage")
    /\ UNCHANGED <<eye, active, ecbptr, server, pool, routine, cs, rc, got,
                   calls, world, wake, stc>>

(* Mutant of Stage: reply_ecb is not cleared for the new use of the slot. *)
StageKeepsEcb(c) ==
    /\ pc[c] = "stage"
    /\ img' = [img EXCEPT ![Mine(c)] = [req |-> <<c, calls[c]>>, ans |-> NULL]]
    /\ Go(c, "publish")
    /\ UNCHANGED <<anchor, req_state, owner, reply_ecb, routine, cs, rc, got,
                   calls, world, wake, stc>>

(* RQEIN: the image and the data go into the slot, reply_ecb is cleared. *)
Stage(c) ==
    /\ pc[c] = "stage"
    /\ img' = [img EXCEPT ![Mine(c)] = [req |-> <<c, calls[c]>>, ans |-> NULL]]
    /\ reply_ecb' = [reply_ecb EXCEPT ![Mine(c)] = FALSE]
    /\ Go(c, "publish")
    /\ UNCHANGED <<anchor, req_state, owner, routine, cs, rc, got, calls, world,
                   wake, stc>>

(* RQINPUB: PENDING is stored last. *)
Publish(c) ==
    /\ pc[c] = "publish"
    /\ req_state' = [req_state EXCEPT ![Mine(c)] = PENDING]
    /\ Go(c, "post")
    /\ UNCHANGED <<anchor, owner, img, reply_ecb, routine, cs, rc, got, calls,
                   world, wake, stc>>

ServerUp == spc # "down"

(* Mutant of PostServer: the post goes to the STC but not to its wake ECB. *)
PostUnheard(c) ==
    /\ pc[c] = "post" /\ ServerUp /\ server = gen
    /\ Go(c, "wait")
    /\ UNCHANGED <<common, cs, rc, got, calls, world, wake, stc>>

(* DOPOST: wake the STC whose ASCB the anchor names.  The wake ECB is the  *)
(* published one; without one the post goes to the anchor's own ECB, which *)
(* the STC does not wait on.                                                 *)
PostServer(c) ==
    /\ pc[c] = "post" /\ ServerUp /\ server = gen
    /\ wake' = (wake \/ ecbptr)
    /\ Go(c, "wait")
    /\ UNCHANGED <<common, cs, rc, got, calls, world, stc>>

(* PSTERR, PSTFAIL: that STC has ended. *)
PostFails(c) ==
    /\ pc[c] = "post" /\ ~(ServerUp /\ server = gen)
    /\ Go(c, "free") /\ rc' = [rc EXCEPT ![c] = "corrupt"]
    /\ UNCHANGED <<common, cs, got, calls, world, wake, stc>>

(* Mutant of WakeServed: any post of reply_ecb is taken for the reply. *)
WakeTrusting(c) ==
    /\ pc[c] = "wait" /\ reply_ecb[Mine(c)]
    /\ Go(c, "out")
    /\ UNCHANGED <<common, cs, rc, got, calls, world, wake, stc>>

(* The WAIT ends once reply_ecb is posted: the request was served ... *)
WakeServed(c) ==
    /\ pc[c] = "wait" /\ reply_ecb[Mine(c)]
    /\ eye /\ req_state[Mine(c)] = DONE
    /\ Go(c, "out")
    /\ UNCHANGED <<common, cs, rc, got, calls, world, wake, stc>>

(* ... or the STC quiesces (WQUIES), or the anchor was freed (WGONE). *)
WakeQuiesced(c) ==
    /\ pc[c] = "wait" /\ reply_ecb[Mine(c)]
    /\ ~eye \/ req_state[Mine(c)] # DONE
    /\ Go(c, IF eye THEN "free" ELSE "idle")
    /\ rc' = [rc EXCEPT ![c] = "corrupt"]
    /\ UNCHANGED <<common, cs, got, calls, world, wake, stc>>

(* RQEOUT: data and image back to the caller, rc = OK. *)
CopyOut(c) ==
    /\ pc[c] = "out"
    /\ Go(c, "free")
    /\ rc' = [rc EXCEPT ![c] = "ok"]
    /\ got' = [got EXCEPT ![c] = img[Mine(c)]]
    /\ UNCHANGED <<common, cs, calls, world, wake, stc>>

(* The owner releases its slot by a plain store (REPLYC, WQUIES, PSTFAIL). *)
Release(c) ==
    /\ pc[c] = "free"
    /\ req_state' = [req_state EXCEPT ![Mine(c)] = FREE]
    /\ Go(c, "dec")
    /\ UNCHANGED <<anchor, owner, img, reply_ecb, routine, cs, rc, got, calls,
                   world, wake, stc>>

(* UDEC1..3: the in-flight decrement comes last. *)
CountOut(c) ==
    /\ pc[c] = "dec"
    /\ inflight' = (inflight + Wrap - 1) % Wrap
    /\ Go(c, "idle") /\ cs' = [cs EXCEPT ![c] = 0]
    /\ UNCHANGED <<eye, active, ecbptr, server, pool, routine, rc, got, calls,
                   world, wake, stc>>

(* The client's address space ends, wherever its task is. *)
Died == births + Cardinality({c \in Clients : pc[c] = "dead"})
Die(c) ==
    /\ pc[c] \notin {"idle", "dead"} /\ Died < MaxDeaths
    /\ Go(c, "dead") /\ cs' = [cs EXCEPT ![c] = 0]
    /\ asvt' = [asvt EXCEPT ![c] = AVAIL]
    /\ UNCHANGED <<common, rc, got, calls, births, wake, stc>>

(* MVS gives the same ASID and the same ASCB address to a new one. *)
Reborn(c) ==
    /\ pc[c] = "dead" /\ births < MaxBirths
    /\ births' = births + 1
    /\ Go(c, "idle")
    /\ rc' = [rc EXCEPT ![c] = "none"] /\ got' = [got EXCEPT ![c] = NoImage]
    /\ asvt' = [asvt EXCEPT ![c] = c]
    /\ UNCHANGED <<common, cs, calls, wake, stc>>

ClientStep(c) ==
    \/ CheckAnchor(c) \/ BadAnchor(c) \/ Claim(c) \/ ClaimNext(c) \/ PoolFull(c)
    \/ CountIn(c) \/ Stage(c) \/ Publish(c) \/ PostServer(c) \/ PostFails(c)
    \/ WakeServed(c) \/ WakeQuiesced(c) \/ CopyOut(c) \/ Release(c)
    \/ CountOut(c)

-----------------------------------------------------------------------------
(* The started task: one executive pass is gate, drain, dispatch.          *)

Goto(next) == spc' = next
NextSlot == idx' = IF idx < NSlots THEN idx + 1 ELSE 1

(* nsfsx_client_state: what classifying the owner of slot s may answer. *)
ClientState(s) ==
    {nsfreqx_classify(owner[s], owner[s], asvt)}
        \cup (IF spc \in Unreadable THEN {UNKNOWN} ELSE {})

(* nsfsx_any_pending_other looks for one of these. *)
Other(s) == req_state[s] = PENDING /\ s # busy

(* nsfsx_next_actionable looks for the first of these (the slot's guard is *)
(* taken to be intact: nothing in the program writes it).                   *)
Actionable(s, v) ==
    /\ Other(s)
    /\ nsfreqx_actionable(nsfreqx_slot_action(req_state[s], v, TRUE, ecbptr),
                          busy # 0)

(* Mutant of Pending: the probe ignores that a request is in service. *)
PendingLouder ==
    \/ busy # 0 /\ privecb
    \/ \E s \in Slots : Other(s)

(* nsfsx_pending, the probe of the WAIT gate. *)
Pending ==
    \/ busy # 0 /\ privecb
    \/ \E s \in Slots : /\ Other(s)
                        /\ \/ busy = 0
                           \/ \E v \in ClientState(s) : Actionable(s, v)

(* evt_mainloop's gate asks the probe once: a pass that found work does not *)
(* wait ...                                                                  *)
Pass ==
    /\ spc = "gate" /\ Pending
    /\ Goto("reset")
    /\ probe' = TRUE /\ did' = FALSE
    /\ UNCHANGED <<common, tasks, world, wake, instance, service, locals, disp,
                   done>>

(* ... any other goes to sleep in nsfevt_plat_wait, where the pool is not    *)
(* looked at again ...                                                       *)
Sleep ==
    /\ spc = "gate" /\ ~Pending
    /\ Goto("asleep")
    /\ UNCHANGED <<common, tasks, world, wake, instance, service, locals,
                   history>>

(* ... and which the posted wake ECB ends (at once if it was posted before). *)
Wake ==
    /\ spc = "asleep" /\ wake
    /\ Goto("reset")
    /\ probe' = FALSE /\ did' = FALSE
    /\ UNCHANGED <<common, tasks, world, wake, instance, service, locals, disp,
                   done>>

(* The pass that a device, the timer or the operator does not let wait, or   *)
(* wakes.                                                                    *)
PassOther ==
    /\ spc = "asleep" \/ (spc = "gate" /\ ~Pending)
    /\ Goto("reset")
    /\ probe' = FALSE /\ did' = FALSE
    /\ UNCHANGED <<common, tasks, world, wake, instance, service, locals, disp,
                   done>>

(* nsfsx_drain, step 0: the wake ECB is cleared before anything is looked at. *)
Reset ==
    /\ spc = "reset"
    /\ wake' = FALSE
    /\ Goto(IF busy # 0 /\ privecb THEN "complete" ELSE "look")
    /\ UNCHANGED <<common, tasks, world, instance, service, locals, history>>

(* Step 1: results into the slot in service, and its owner classified. *)
Complete ==
    /\ spc = "complete"
    /\ img' = [img EXCEPT ![busy] = nsfreqx_result_out(img[busy], priv)]
    /\ verd' \in ClientState(busy) /\ want' = PENDING
    /\ did' = TRUE
    /\ Goto("mark")
    /\ UNCHANGED <<anchor, req_state, owner, reply_ecb, routine, tasks, world,
                   wake, instance, service, idx, back, tmp, polls, posted,
                   quiet, disp, done, probe>>

OutOfService == busy' = 0 /\ priv' = NoImage /\ privecb' = FALSE

(* Step 1, by verdict: HELD, or DONE and then the post, or reaped (below). *)
MarkHeld ==
    /\ spc = "mark" /\ verd = UNKNOWN
    /\ req_state' = [req_state EXCEPT ![busy] = HELD]
    /\ OutOfService
    /\ Goto("look")
    /\ UNCHANGED <<anchor, owner, img, reply_ecb, routine, tasks, world, wake,
                   instance, locals, history>>

MarkDone ==
    /\ spc = "mark" /\ verd = LIVE
    /\ req_state' = [req_state EXCEPT ![busy] = DONE]
    /\ Goto("reply")
    /\ UNCHANGED <<anchor, owner, img, reply_ecb, routine, tasks, world, wake,
                   instance, service, locals, history>>

Reply ==
    /\ spc = "reply"
    /\ reply_ecb' = [reply_ecb EXCEPT ![busy] = TRUE]
    /\ OutOfService
    /\ Goto("look")
    /\ UNCHANGED <<anchor, req_state, owner, img, routine, tasks, world, wake,
                   instance, locals, history>>

(* nsfsx_any_pending_other: is there anything to scan for? *)
Look ==
    /\ spc = "look"
    /\ Goto(IF \E s \in Slots : Other(s) THEN "scan" ELSE "exec")
    /\ idx' = 1
    /\ UNCHANGED <<common, tasks, world, wake, instance, service, scratch,
                   history>>

(* nsfsx_next_actionable, one slot per step: this one, or the next. *)
ScanHit ==
    /\ spc = "scan"
    /\ verd' \in ClientState(idx) /\ want' = PENDING
    /\ Actionable(idx, verd')
    /\ Goto("act")
    /\ UNCHANGED <<common, tasks, world, wake, instance, service, idx, back,
                   tmp, polls, posted, quiet, history>>

ScanMiss ==
    /\ spc = "scan"
    /\ \E v \in ClientState(idx) : ~Actionable(idx, v)
    /\ NextSlot
    /\ Goto(IF idx < NSlots THEN "scan" ELSE "exec")
    /\ UNCHANGED <<common, tasks, world, wake, instance, service, scratch,
                   history>>

(* Step 2, by action: hold, or take the private copy and hand the request  *)
(* to the executive, or reap (below).                                       *)
ActHold ==
    /\ spc = "act" /\ verd = UNKNOWN
    /\ req_state' = [req_state EXCEPT ![idx] = HELD]
    /\ did' = TRUE
    /\ Goto("exec")
    /\ UNCHANGED <<anchor, owner, img, reply_ecb, routine, tasks, world, wake,
                   instance, service, locals, disp, done, probe>>

ActDispatch ==
    /\ spc = "act" /\ verd = LIVE
    /\ busy' = idx /\ priv' = nsfreqx_dispatch_in(img[idx]) /\ privecb' = FALSE
    /\ did' = TRUE /\ disp' = [disp EXCEPT ![img[idx].req] = @ + 1]
    /\ Goto("exec")
    /\ UNCHANGED <<common, tasks, world, wake, instance, locals, done, probe>>

(* The executive completes the request in service, at once or when the     *)
(* event it was parked for arrives: soc_complete posts the private ECB.     *)
ExecComplete ==
    /\ spc = "exec" /\ busy # 0 /\ ~privecb
    /\ priv' = [req |-> priv.req, ans |-> priv.req] /\ privecb' = TRUE
    /\ done' = done \cup {priv.req}
    /\ UNCHANGED <<common, tasks, world, wake, spc, instance, busy, locals,
                   disp, probe, did>>

ExecEnd ==
    /\ spc = "exec"
    /\ Goto("gate")
    /\ UNCHANGED <<common, tasks, world, wake, instance, service, locals,
                   history>>

-----------------------------------------------------------------------------
(* nsfsx_reap: claim by compare-and-swap, clear, free; then the count is   *)
(* given back by an ordinary load, test and store.                          *)

ReapStart(s, next) ==
    IF req_state[s] = want /\ nsfreqx_reap_ok(want, verd, TRUE)
    THEN /\ req_state' = [req_state EXCEPT ![s] = CLAIMED]
         /\ idx' = s /\ back' = next /\ Goto("reap_clear")
    ELSE Goto(next) /\ UNCHANGED <<req_state, idx, back>>

(* Step 1 of the drain, owner DEAD. *)
MarkReap ==
    /\ spc = "mark" /\ verd = DEAD
    /\ ReapStart(busy, "look")
    /\ OutOfService
    /\ UNCHANGED <<anchor, owner, img, reply_ecb, routine, tasks, world, wake,
                   instance, verd, want, tmp, polls, posted, quiet, history>>

(* Step 2 of the drain, owner DEAD. *)
ActReap ==
    /\ spc = "act" /\ verd = DEAD
    /\ ReapStart(idx, "exec")
    /\ did' = TRUE
    /\ UNCHANGED <<anchor, owner, img, reply_ecb, routine, tasks, world, wake,
                   instance, service, verd, want, tmp, polls, posted, quiet,
                   disp, done, probe>>

ReapClear ==
    /\ spc = "reap_clear"
    /\ img' = [img EXCEPT ![idx] = NoImage]
    /\ owner' = [owner EXCEPT ![idx] = NULL]
    /\ req_state' = [req_state EXCEPT ![idx] = FREE]
    /\ Goto("reap_read")
    /\ UNCHANGED <<anchor, reply_ecb, routine, tasks, world, wake, instance,
                   service, locals, history>>

ReapRead ==
    /\ spc = "reap_read"
    /\ tmp' = inflight
    /\ Goto(IF inflight = 0 THEN back ELSE "reap_write")
    /\ UNCHANGED <<common, tasks, world, wake, instance, service, idx, verd,
                   want, back, polls, posted, quiet, history>>

ReapWrite ==
    /\ spc = "reap_write"
    /\ inflight' = tmp - 1 /\ tmp' = 0
    /\ Goto(back)
    /\ UNCHANGED <<eye, active, ecbptr, server, pool, routine, tasks, world,
                   wake, instance, service, idx, verd, want, back, polls,
                   posted, quiet, history>>

Serve ==
    \/ Pass \/ Sleep \/ Wake \/ Reset
    \/ Complete \/ MarkHeld \/ MarkDone \/ MarkReap \/ Reply
    \/ Look \/ ScanHit \/ ScanMiss \/ ActHold \/ ActDispatch \/ ActReap
    \/ ReapClear \/ ReapRead \/ ReapWrite

-----------------------------------------------------------------------------
(* nsfsx_stop: quiesce, drain to zero in flight, free or retain.            *)

(* A client has come to rest: with its caller, or parked and unposted. *)
AtRest(c) == \/ pc[c] \in {"idle", "dead"}
             \/ pc[c] = "wait" /\ ~reply_ecb[Mine(c)]
PauseOver == LongPauses => \A c \in Clients : AtRest(c)

(* The operator stops the STC at the end of a pass; the SVC entry is       *)
(* restored first.                                                           *)
StopBegin ==
    /\ spc = "exec" /\ stops < MaxStops
    /\ stops' = stops + 1
    /\ svc' = FALSE
    /\ Goto("stop_clear")
    /\ UNCHANGED <<anchor, pool, router, tasks, world, wake, gen, abends,
                   service, locals, history>>

FreshenLocals ==
    /\ idx' = 1 /\ verd' = LIVE /\ want' = FREE /\ back' = "exec" /\ tmp' = 0
    /\ polls' = 0 /\ posted' = FALSE /\ quiet' = FALSE

StopClear ==
    /\ spc = "stop_clear"
    /\ active' = FALSE /\ ecbptr' = FALSE
    /\ FreshenLocals
    /\ Goto("stop_poll")
    /\ UNCHANGED <<eye, server, inflight, pool, routine, tasks, world, wake,
                   instance, service, history>>

(* Mutant of StopPoll: the first zero is believed, without the settle pause. *)
StopPollAtOnce ==
    /\ spc = "stop_poll"
    /\ Goto(IF polls = DrainMax THEN "stop_retain"
            ELSE IF inflight = 0 THEN "stop_free" ELSE "stop_wake")
    /\ UNCHANGED <<common, tasks, world, wake, instance, service, locals,
                   history>>

(* nsfsx_drain_inflight, one poll. *)
StopPoll ==
    /\ spc = "stop_poll"
    /\ Goto(IF polls = DrainMax THEN "stop_retain"
            ELSE IF inflight = 0 THEN "stop_settle" ELSE "stop_wake")
    /\ UNCHANGED <<common, tasks, world, wake, instance, service, locals,
                   history>>

(* nsfsx_wake_parked, one slot: posted when in use by a living client. *)
StopWake ==
    /\ spc = "stop_wake"
    /\ \E v \in ClientState(idx) :
          reply_ecb' = [reply_ecb EXCEPT
                          ![idx] = @ \/ (req_state[idx] # FREE /\ v = LIVE)]
    /\ NextSlot
    /\ Goto(IF idx < NSlots THEN "stop_wake" ELSE "stop_pause")
    /\ UNCHANGED <<anchor, req_state, owner, img, routine, tasks, world, wake,
                   instance, service, scratch, history>>

StopPause ==
    /\ spc = "stop_pause" /\ PauseOver
    /\ polls' = polls + 1
    /\ Goto("stop_poll")
    /\ UNCHANGED <<common, tasks, world, wake, instance, service, idx, verd,
                   want, back, tmp, posted, quiet, history>>

(* The settle pause, then the second look at the counter. *)
StopSettle ==
    /\ spc = "stop_settle" /\ PauseOver
    /\ Goto(IF inflight = 0 THEN "stop_free" ELSE "stop_retain")
    /\ UNCHANGED <<common, tasks, world, wake, instance, service, locals,
                   history>>

(* The STC's own storage is gone with it. *)
ServerEnds ==
    /\ Goto("down")
    /\ wake' = FALSE /\ OutOfService /\ FreshenLocals
    /\ probe' = FALSE /\ did' = FALSE

(* Routine unloaded and anchor freed. *)
StopFree ==
    /\ spc = "stop_free"
    /\ eye' = FALSE /\ router' = router + 1
    /\ ServerEnds
    /\ UNCHANGED <<active, ecbptr, server, inflight, pool, svc, tasks, world,
                   instance, disp, done>>

(* Anchor and routine retained for a later start. *)
StopRetain ==
    /\ spc = "stop_retain"
    /\ ServerEnds
    /\ UNCHANGED <<common, tasks, world, instance, disp, done>>

Stop == StopClear \/ StopPoll \/ StopWake \/ StopPause \/ StopSettle
            \/ StopFree \/ StopRetain

(* An abend anywhere in the STC: the ESTAE exit runs nsfsx_recover_quiesce. *)
Abend ==
    /\ ServerUp /\ abends < MaxAbends
    /\ abends' = abends + 1
    /\ svc' = FALSE
    /\ active' = FALSE /\ ecbptr' = FALSE
    /\ ServerEnds
    /\ UNCHANGED <<eye, server, inflight, pool, router, tasks, world, gen,
                   stops, disp, done>>

-----------------------------------------------------------------------------
(* nsfsx_start when it finds the anchor retained: nsfsx_adopt.              *)

(* nsfsct_start_action answers ADOPT: the anchor is registered, not in     *)
(* service, and its server has ended.                                       *)
AdoptBegin ==
    /\ eye /\ ~active /\ ~ecbptr /\ ~ServerUp
    /\ gen <= MaxStarts
    /\ gen' = gen + 1
    /\ Goto("adopt_stamp")
    /\ UNCHANGED <<common, tasks, world, wake, stops, abends, service, locals,
                   history>>

(* The server fields are re-stamped and the wake ECB published. *)
AdoptStamp ==
    /\ spc = "adopt_stamp"
    /\ server' = gen /\ ecbptr' = TRUE
    /\ wake' = FALSE
    /\ Goto("adopt_scrub")
    /\ UNCHANGED <<eye, active, inflight, pool, routine, tasks, world,
                   instance, service, locals, history>>

(* nsfsx_adopt_scrub: look at one slot ... *)
AdoptScrub ==
    /\ spc = "adopt_scrub" /\ req_state[idx] # FREE
    /\ verd' \in ClientState(idx) /\ want' = req_state[idx]
    /\ Goto("adopt_act")
    /\ UNCHANGED <<common, tasks, world, wake, instance, service, idx, back,
                   tmp, polls, posted, quiet, history>>

AdoptSkip ==
    /\ spc = "adopt_scrub" /\ req_state[idx] = FREE
    /\ Goto("adopt_next")
    /\ UNCHANGED <<common, tasks, world, wake, instance, service, locals,
                   history>>

AdoptAct == nsfreqx_adopt_action(want, verd, ecbptr)

(* ... and reap it, or set it HELD by compare-and-swap and post it, or     *)
(* leave it alone (also when the compare fails).                            *)
AdoptReap ==
    /\ spc = "adopt_act" /\ AdoptAct = "adopt_reap"
    /\ ReapStart(idx, "adopt_next")
    /\ UNCHANGED <<anchor, owner, img, reply_ecb, routine, tasks, world, wake,
                   instance, service, verd, want, tmp, polls, posted, quiet,
                   history>>

(* A slot found HELD is posted as it is; a PENDING one must still be so. *)
AdoptHold ==
    /\ spc = "adopt_act" /\ AdoptAct = "adopt_post"
    /\ want = HELD \/ req_state[idx] = want
    /\ req_state' = IF want = HELD THEN req_state
                    ELSE [req_state EXCEPT ![idx] = HELD]
    /\ Goto("adopt_post")
    /\ UNCHANGED <<anchor, owner, img, reply_ecb, routine, tasks, world, wake,
                   instance, service, locals, history>>

AdoptLeave ==
    /\ spc = "adopt_act"
    /\ \/ AdoptAct = "adopt_none"
       \/ AdoptAct = "adopt_post" /\ want # HELD /\ req_state[idx] # want
    /\ Goto("adopt_next")
    /\ UNCHANGED <<common, tasks, world, wake, instance, service, locals,
                   history>>

(* Mutant of AdoptPost: the client of a slot set HELD is not posted. *)
AdoptPostForgets ==
    /\ spc = "adopt_post"
    /\ posted' = TRUE
    /\ Goto("adopt_next")
    /\ UNCHANGED <<common, tasks, world, wake, instance, service, idx, verd,
                   want, back, tmp, polls, quiet, history>>

AdoptPost ==
    /\ spc = "adopt_post"
    /\ reply_ecb' = [reply_ecb EXCEPT ![idx] = TRUE]
    /\ posted' = TRUE
    /\ Goto("adopt_next")
    /\ UNCHANGED <<anchor, req_state, owner, img, routine, tasks, world, wake,
                   instance, service, idx, verd, want, back, tmp, polls, quiet,
                   history>>

AdoptNext ==
    /\ spc = "adopt_next"
    /\ NextSlot
    /\ Goto(IF idx < NSlots THEN "adopt_scrub" ELSE "adopt_poll")
    /\ UNCHANGED <<common, tasks, world, wake, instance, service, scratch,
                   history>>

(* nsfsx_settle_inflight: a single poll when nobody was posted. *)
AdoptPoll ==
    /\ spc = "adopt_poll"
    /\ Goto(IF polls >= (IF posted THEN DrainMax ELSE 1) THEN "adopt_router"
            ELSE IF inflight = 0 THEN "adopt_settle" ELSE "adopt_pause")
    /\ UNCHANGED <<common, tasks, world, wake, instance, service, locals,
                   history>>

AdoptPause ==
    /\ spc = "adopt_pause" /\ PauseOver
    /\ polls' = polls + 1
    /\ Goto("adopt_poll")
    /\ UNCHANGED <<common, tasks, world, wake, instance, service, idx, verd,
                   want, back, tmp, posted, quiet, history>>

AdoptSettle ==
    /\ spc = "adopt_settle" /\ PauseOver
    /\ quiet' = (inflight = 0)
    /\ Goto("adopt_router")
    /\ UNCHANGED <<common, tasks, world, wake, instance, service, idx, verd,
                   want, back, tmp, polls, posted, history>>

(* Quiet: the retained routine is freed and a fresh one loaded.  Otherwise *)
(* the retained one, which somebody may be inside, is used again.           *)
AdoptRouter ==
    /\ spc = "adopt_router"
    /\ router' = IF quiet THEN router + 1 ELSE router
    /\ Goto("adopt_active")
    /\ UNCHANGED <<anchor, pool, svc, tasks, world, wake, instance, service,
                   locals, history>>

AdoptActive ==
    /\ spc = "adopt_active"
    /\ active' = TRUE
    /\ Goto("adopt_steal")
    /\ UNCHANGED <<eye, ecbptr, server, inflight, pool, routine, tasks, world,
                   wake, instance, service, locals, history>>

AdoptSteal ==
    /\ spc = "adopt_steal"
    /\ svc' = TRUE
    /\ FreshenLocals
    /\ Goto("gate")
    /\ UNCHANGED <<anchor, pool, router, tasks, world, wake, instance, service,
                   history>>

(* A failure after the settle (no routine loaded, SVC in use) retains the  *)
(* anchor again: nsfsx_adopt's fail path, nsfsx_unadopt.                     *)
AdoptFail ==
    /\ spc \in {"adopt_active", "adopt_steal"} /\ abends < MaxAbends
    /\ abends' = abends + 1
    /\ active' = FALSE /\ ecbptr' = FALSE
    /\ ServerEnds
    /\ UNCHANGED <<eye, server, inflight, pool, routine, tasks, world, gen,
                   stops, disp, done>>

Adopt == \/ AdoptStamp \/ AdoptScrub \/ AdoptSkip \/ AdoptReap \/ AdoptHold
         \/ AdoptLeave \/ AdoptPost \/ AdoptNext \/ AdoptPoll \/ AdoptPause
         \/ AdoptSettle \/ AdoptRouter \/ AdoptActive \/ AdoptSteal

-----------------------------------------------------------------------------
Next ==
    \/ \E c \in Clients : Enter(c) \/ ClientStep(c) \/ Die(c) \/ Reborn(c)
    \/ Serve \/ PassOther \/ ExecComplete \/ ExecEnd
    \/ StopBegin \/ Stop \/ Abend
    \/ AdoptBegin \/ Adopt \/ AdoptFail

Spec == Init /\ [][Next]_vars

(* Tasks in the routine and the executive keep running; while a request is *)
(* parked in the executive, the event it waits for wakes the executive in   *)
(* the end and completes it.  An idle executive is assumed to be woken by    *)
(* nothing but its wake ECB: the heartbeat armed before its loop ends with   *)
(* the first timer that drains the timer queue.                              *)
Fairness ==
    /\ \A c \in Clients : WF_vars(ClientStep(c))
    /\ WF_vars(Serve) /\ WF_vars(ExecEnd)
    /\ WF_vars(PassOther /\ busy # 0 /\ ~privecb)
    /\ WF_vars(Stop) /\ WF_vars(Adopt)
    /\ SF_vars(ExecComplete)
FairSpec == Spec /\ Fairness

(* ... and the operator starts the STC again after it ended. *)
RestartSpec == FairSpec /\ WF_vars(AdoptBegin)

-----------------------------------------------------------------------------
FlagTypes ==
    /\ eye \in BOOLEAN /\ active \in BOOLEAN /\ ecbptr \in BOOLEAN
    /\ svc \in BOOLEAN /\ wake \in BOOLEAN /\ privecb \in BOOLEAN
    /\ posted \in BOOLEAN /\ quiet \in BOOLEAN
    /\ probe \in BOOLEAN /\ did \in BOOLEAN
    /\ reply_ecb \in [Slots -> BOOLEAN]
DataTypes ==
    /\ server \in Nat /\ inflight \in 0 .. Wrap - 1
    /\ req_state \in [Slots -> SlotStates]
    /\ owner \in [Slots -> Clients \cup {NULL}]
    /\ img \in [Slots -> Images] /\ router \in Nat
    /\ pc \in [Clients -> ClientPcs] /\ cs \in [Clients -> 0 .. NSlots]
    /\ rc \in [Clients -> RcCodes \cup {"none"}]
    /\ got \in [Clients -> Images] /\ calls \in [Clients -> 0 .. MaxCalls]
    /\ asvt \in [Clients -> Clients \cup {AVAIL}] /\ births \in Nat
    /\ spc \in ServerPcs
    /\ gen \in Nat /\ stops \in Nat /\ abends \in Nat
    /\ busy \in 0 .. NSlots /\ priv \in Images
    /\ idx \in Slots /\ verd \in Verdicts /\ want \in SlotStates
    /\ back \in {"look", "exec", "adopt_next"} /\ tmp \in 0 .. Wrap - 1
    /\ polls \in Nat
    /\ disp \in [Requests -> Nat] /\ done \in SUBSET (Requests \cup {NULL})
TypeOK == FlagTypes /\ DataTypes

Owns(c) == pc[c] \in OwnerPcs

(* No slot is handed to two owners, whatever dies and whatever the STC     *)
(* reclaims ("the worst failure this layer can produce", nsfsx_reap), and   *)
(* no owner finds its slot freed under it.                                   *)
ExclusiveOwner ==
    \A c \in Clients : Owns(c) =>
        /\ req_state[Mine(c)] # FREE /\ owner[Mine(c)] = c
        /\ \A d \in Clients \ {c} : Owns(d) => Mine(d) # Mine(c)

(* A call that returns OK brings back the answer to that very call, though *)
(* all calls share one pool and one private copy in the STC.                 *)
RightAnswer ==
    \A c \in Clients : rc[c] = "ok" =>
        LET r == <<c, calls[c]>>
        IN  got[c] = [req |-> r, ans |-> r] /\ disp[r] > 0

(* From dispatch to reply the slot in service stays PENDING and keeps the  *)
(* request that was dispatched: nobody reaps it, redispatches it or reuses  *)
(* it (the skip of g_busy_slot in nsfsx_next_actionable).                    *)
InServiceIntact ==
    spc \in ServePcs /\ busy # 0 =>
        /\ img[busy].req = priv.req
        /\ req_state[busy] = IF spc = "reply" THEN DONE ELSE PENDING

(* A request goes to the executive at most once, across aborted service,   *)
(* restarts of the STC and reuse of its slot.                                *)
DispatchOnce == [][\A r \in Requests : disp'[r] # disp[r] => disp[r] = 0]_vars

(* The routine and the anchor are never taken away from under a client     *)
(* that is executing in the routine.                                         *)
NobodyInside == \A c \in Clients : pc[c] \in {"idle", "dead"}
NotPulledAway == [][(router' # router \/ eye' # eye) => NobodyInside]_vars

(* The in-flight word never counts fewer clients than there are between    *)
(* their increment and their decrement.                                      *)
Counted == {"stage", "publish", "post", "wait", "out", "free", "dec"}
InflightCovers == Cardinality({c \in Clients : pc[c] \in Counted}) <= inflight

(* A pass the WAIT gate let through because its probe found work does find *)
(* work in the drain: the gate and the drain agree, so the executive does   *)
(* not spin (nsfsx_pending's "hot spin").                                    *)
NoHotSpin == spc = "gate" /\ probe => did

(* The pool keeps the promise made to callers (NsfCallSpec): a call is     *)
(* open while its task is in the routine, its outcome shows on return.      *)
Promise == INSTANCE NsfCallSpec WITH
    call <- [c \in Clients |->
                [n |-> calls[c], open |-> pc[c] \notin {"idle", "dead"},
                 rc |-> IF pc[c] = "idle" THEN rc[c] ELSE "none"]],
    taken <- disp,
    answered <- done
KeepsPromise == Promise!Spec

(* Every call returns to its caller, unless the caller's own address space *)
(* or the STC ends: no wake-up is lost between client, drain and WAIT gate.  *)
CallReturns ==
    \A c \in Clients :
        pc[c] = "check" ~> pc[c] \in {"idle", "dead"} \/ spc = "down"

(* A client an abend of the STC left parked with its request unserved is   *)
(* released by the next start that adopts the anchor.                        *)
AdoptionReleases ==
    \A c \in Clients :
        spc = "down" /\ pc[c] = "wait" /\ req_state[Mine(c)] \in {PENDING, HELD}
            ~> pc[c] # "wait"
=============================================================================

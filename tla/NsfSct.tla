------------------------------- MODULE NsfSct -------------------------------
(***************************************************************************)
(* The rendezvous of successive instances of the NSFS started task         *)
(* (src/src/nsfsct.c, src/src/nsfsct_plat.c, and start, stop and recovery   *)
(* of the transport in src/src/nsfsx.c and src/src/nsfsmain.c).             *)
(*                                                                         *)
(* Three things outlive an instance: its anchor and its copy of the SVC    *)
(* routine in common storage, the SVC table entry, and an SSCT, chained    *)
(* under a name derived from the job name, that leads to the anchor.  What  *)
(* a start does with what it finds decides who may free it.  The slots of  *)
(* an anchor are NsfSlotPool's; here a client is inside an anchor or not.  *)
(*                                                                         *)
(* An anchor and a copy of the routine are named after the instance that   *)
(* obtained them, or after the key they were left under before the first.  *)
(***************************************************************************)
EXTENDS Naturals, FiniteSets

CONSTANTS
    Instances,      \* address spaces that run NSFS, one life each
    Clients,        \* client tasks
    Keys,           \* SSCT names
    Jobs,           \* job names: [key, tail, letters |-> the key has a letter]
    Ascbs,          \* addresses of ASCBs
    NONE            \* a null pointer

ASSUME JobsAssumption ==
    /\ \A j \in Jobs : j.key \in Keys /\ j.letters \in BOOLEAN /\ j.tail # NONE
    /\ \A j, l \in Jobs : j.key = l.key => j.letters = l.letters
ASSUME NamesAssumption ==
    /\ Instances \cap Keys = {} /\ NONE \notin Instances \cup Keys \cup Ascbs
    /\ IsFiniteSet(Clients)

Anchors == Instances \cup Keys

VARIABLES
    chain,      \* the SSCT chain: key -> SSCTSUSE
    csa,        \* anchors that are allocated
    shape,      \* eye, version and NSLOTS of an anchor: "ours" if all match
    tail,       \* jobname_tail
    active,     \* NSFV_ANCHOR_ACTIVE
    ecb,        \* server_ecb_ptr is published
    server,     \* server_ascb
    router,     \* router_lpa, router_epa: the copy recorded in the anchor
    loaded,     \* copies of the routine in common storage
    patch,      \* copy -> the anchor it was patched with
    svc,        \* the copy the SVC table entry leads to, NONE if unused
    at,         \* client -> anchor and copy it is inside
    dead,       \* clients whose address space ended inside the routine
    others,     \* ASCBs in use by address spaces that are not NSFS
    pc,         \* instance -> where its start or stop is
    job, ascb,  \* its job name and its ASCB
    found,      \* what nsfsct_find handed back
    plan,       \* what nsfsct_start_action answered
    anch,       \* g_anchor
    mine,       \* g_router_epa
    owned,      \* g_sct_owned
    named,      \* history: registrations not undone by their owner
    crossed     \* history: two starts had decided at once about one entry

storage == <<csa, shape, tail, active, ecb, server, router>>
code    == <<loaded, patch, svc>>
users   == <<at, dead>>
self    == <<job, ascb, found, plan>>
holds   == <<anch, mine, owned>>
history == <<named, crossed>>
vars    == <<chain, storage, code, users, others, pc, self, holds, history>>

(* The ASVT: the ASCBs of all address spaces. *)
Asvt == others \cup {ascb[i] : i \in {n \in Instances : pc[n] \notin {"new", "gone"}}}

Inside(a)   == {c \in Clients : at[c] # NONE /\ at[c].anchor = a}
Inflight(a) == Cardinality(Inside(a))

-----------------------------------------------------------------------------
(* The pure rules.                                                          *)
nsfsct_classify(kind, stored, ours) ==
    IF kind = "bad_eye" THEN "BADEYE"
    ELSE IF kind = "older" THEN "BADVER"
    ELSE IF stored # ours THEN "FOREIGN" ELSE "OK"

nsfreqx_server_gone(of, ours, table) ==
    of # NONE /\ (of = ours \/ (table # {} /\ of \notin table))

nsfsct_posture(slots, act, pub, gone) ==
    IF ~slots THEN "DAMAGED"
    ELSE IF act \/ pub THEN "SERVED"
    ELSE IF ~gone THEN "ALIVE" ELSE "RETAINED"

nsfsct_start_action(verdict, posture) ==
    CASE verdict = "NONE" -> "FRESH"
      [] verdict = "OK" /\ posture = "RETAINED" -> "ADOPT"
      [] verdict = "OK" /\ posture = "DAMAGED" -> "REPLACE"
      [] verdict \in {"BADEYE", "BADVER"} -> "REPLACE"
      [] OTHER -> "ASIDE"

-----------------------------------------------------------------------------
(* An earlier instance may have left an anchor chained, or something that  *)
(* is none any more, with clients inside and its server's ASCB in any use. *)
Init ==
    /\ chain \in [Keys -> Anchors \cup {NONE}]
    /\ \A k \in Keys : chain[k] \in {k, NONE}
    /\ \A j \in Jobs : ~j.letters => chain[j.key] = NONE
    /\ csa = {k \in Keys : chain[k] = k}
    /\ shape \in [Anchors -> {"ours", "older", "bad_eye", "damaged"}]
    /\ \A a \in Anchors \ csa : shape[a] = "ours"
    /\ tail \in [Anchors -> {j.tail : j \in Jobs} \cup {NONE}]
    /\ \A a \in Anchors : a \in csa <=> tail[a] # NONE
    /\ active = [a \in Anchors |-> FALSE] /\ ecb = [a \in Anchors |-> FALSE]
    /\ server \in [Anchors -> Ascbs \cup {NONE}]
    /\ \A a \in Anchors : a \in csa <=> server[a] # NONE
    /\ router = [a \in Anchors |-> IF a \in csa THEN a ELSE NONE]
    /\ loaded = csa /\ svc = NONE
    /\ patch \in [Anchors -> Anchors \cup {NONE}]
    /\ \A a \in Anchors : patch[a] \in (IF a \in csa THEN {a, NONE} ELSE {NONE})
    /\ at \in [Clients -> {NONE} \cup {[anchor |-> a, copy |-> a] :
                                        a \in {k \in csa : patch[k] = k}}]
    /\ dead = {}
    /\ others \in SUBSET Ascbs
    /\ pc = [i \in Instances |-> "new"]
    /\ job = [i \in Instances |-> NONE]
    /\ ascb = [i \in Instances |-> NONE] /\ found = [i \in Instances |-> NONE]
    /\ plan = [i \in Instances |-> "NONE"]
    /\ anch = [i \in Instances |-> NONE] /\ mine = [i \in Instances |-> NONE]
    /\ owned = [i \in Instances |-> FALSE]
    /\ named = {<<k, k>> : k \in {k \in csa : shape[k] = "ours"}}
    /\ crossed = FALSE

To(i, place) == pc' = [pc EXCEPT ![i] = place]

-----------------------------------------------------------------------------
(* Clients and other address spaces.                                        *)
Enter(c) ==
    /\ at[c] = NONE /\ c \notin dead
    /\ svc # NONE /\ active[patch[svc]]
    /\ at' = [at EXCEPT ![c] = [anchor |-> patch[svc], copy |-> svc]]
    /\ UNCHANGED <<chain, storage, code, dead, others, pc, self, holds, history>>

Leave(c) ==
    /\ at[c] # NONE /\ c \notin dead
    /\ at' = [at EXCEPT ![c] = NONE]
    /\ UNCHANGED <<chain, storage, code, dead, others, pc, self, holds, history>>

Die(c) ==
    /\ at[c] # NONE
    /\ dead' = dead \cup {c}
    /\ UNCHANGED <<chain, storage, code, at, others, pc, self, holds, history>>

OtherStarts(x) ==
    /\ x \notin Asvt
    /\ others' = others \cup {x}
    /\ UNCHANGED <<chain, storage, code, users, pc, self, holds, history>>

OtherEnds(x) ==
    /\ others' = others \ {x}
    /\ UNCHANGED <<chain, storage, code, users, pc, self, holds, history>>

(* Dead owners' slots are given back; one still CLAIMED, or of an unknown  *)
(* owner, stays counted.                                                    *)
Reaped(a) ==
    \E D \in SUBSET (dead \cap Inside(a)) :
        at' = [c \in Clients |-> IF c \in D THEN NONE ELSE at[c]]

Reap(i) ==
    /\ pc[i] \in {"register", "open", "run"} /\ Reaped(anch[i])
    /\ UNCHANGED <<chain, storage, code, dead, others, pc, self, holds, history>>

-----------------------------------------------------------------------------
(* Start.                                                                   *)
Start(i) ==
    /\ pc[i] = "new"
    /\ \E x \in Ascbs \ Asvt : ascb' = [ascb EXCEPT ![i] = x]
    /\ \E j \in Jobs : job' = [job EXCEPT ![i] = j]
    /\ To(i, "look")
    /\ UNCHANGED <<chain, storage, code, users, others, found, plan, holds, history>>

(* nsfsct_find: a key that could be a procedure name is never read. *)
Find(i) ==
    LET k == job[i].key a == chain[k]
    IN  IF ~job[i].letters \/ a = NONE THEN "NONE"
        ELSE nsfsct_classify(shape[a], tail[a], job[i].tail)

Posture(a, ours, table) ==
    nsfsct_posture(shape[a] # "damaged", active[a], ecb[a],
                   nsfreqx_server_gone(server[a], ours, table))

(* What nsfsct_find and the posture lead to.  Nothing keeps a second start *)
(* from looking before an adoption is stamped or a replaced entry removed.  *)
Look(i) ==
    /\ pc[i] = "look"
    /\ LET verdict == Find(i)
       IN  /\ found' = [found EXCEPT ![i] =
                IF verdict \in {"NONE", "BADEYE"} THEN NONE ELSE chain[job[i].key]]
           /\ \E table \in {Asvt, {}} :
                plan' = [plan EXCEPT ![i] = nsfsct_start_action(verdict,
                    IF verdict = "OK" THEN Posture(chain[job[i].key], ascb[i], table)
                    ELSE "RETAINED")]
    /\ To(i, IF plan'[i] \in {"ADOPT", "REPLACE"} THEN "decided" ELSE "alloc")
    /\ crossed' = \/ crossed
                  \/ /\ pc'[i] = "decided"
                     /\ \E n \in Instances : pc[n] = "decided" /\ job[n].key = job[i].key
    /\ UNCHANGED <<chain, storage, code, users, others, job, ascb, holds, named>>

(* nsfsct_remove goes by name and never reads what the entry leads to. *)
Replace(i) ==
    /\ pc[i] = "decided" /\ plan[i] = "REPLACE"
    /\ chain' = [chain EXCEPT ![job[i].key] = NONE]
    /\ To(i, "alloc")
    /\ UNCHANGED <<storage, code, users, others, self, holds, history>>

(* A new anchor with a new copy of the routine, ACTIVE and its wake ECB    *)
(* published: nobody can reach it yet.                                      *)
Alloc(i) ==
    /\ pc[i] = "alloc"
    /\ csa' = csa \cup {i} /\ loaded' = loaded \cup {i}
    /\ active' = [active EXCEPT ![i] = TRUE] /\ ecb' = [ecb EXCEPT ![i] = TRUE]
    /\ server' = [server EXCEPT ![i] = ascb[i]]
    /\ router' = [router EXCEPT ![i] = i] /\ patch' = [patch EXCEPT ![i] = i]
    /\ anch' = [anch EXCEPT ![i] = i] /\ mine' = [mine EXCEPT ![i] = i]
    /\ To(i, "steal")
    /\ UNCHANGED <<chain, shape, tail, svc, users, others, self, owned, history>>

(* No storage for the anchor, or the routine does not load. *)
AllocFails(i) ==
    /\ pc[i] = "alloc" /\ To(i, "exit")
    /\ UNCHANGED <<chain, storage, code, users, others, self, holds, history>>

AdoptStamp(i) ==
    /\ pc[i] = "decided" /\ plan[i] = "ADOPT"
    /\ anch' = [anch EXCEPT ![i] = found[i]]
    /\ server' = [server EXCEPT ![found[i]] = ascb[i]]
    /\ ecb' = [ecb EXCEPT ![found[i]] = TRUE]
    /\ To(i, "scrub")
    /\ UNCHANGED <<chain, csa, shape, tail, active, router, code, users, others,
                   self, mine, owned, history>>

(* Slots of dead owners go back; living ones are posted and will Leave. *)
AdoptScrub(i) ==
    /\ pc[i] = "scrub" /\ Reaped(anch[i])
    /\ To(i, "settle")
    /\ UNCHANGED <<chain, storage, code, dead, others, self, holds, history>>

OldIsOurs(a) == router[a] # NONE /\ patch[router[a]] = a
Quiet(a)     == Inflight(a) = 0

(* Clients are left inside the recorded copy: it stays the only one. *)
AdoptReuse(i) ==
    /\ pc[i] = "settle" /\ OldIsOurs(anch[i]) /\ ~Quiet(anch[i])
    /\ mine' = [mine EXCEPT ![i] = router[anch[i]]]
    /\ To(i, "activate")
    /\ UNCHANGED <<chain, storage, code, users, others, self, anch, owned, history>>

(* The recorded copy is freed, or forgotten if it does not lead back here; *)
(* a fresh one is loaded.                                                   *)
AdoptReload(i) ==
    LET a == anch[i] old == router[a]
    IN  /\ pc[i] = "settle" /\ (OldIsOurs(a) => Quiet(a))
        /\ loaded' = (IF OldIsOurs(a) THEN loaded \ {old} ELSE loaded) \cup {i}
        /\ patch' = [patch EXCEPT ![i] = a]
        /\ router' = [router EXCEPT ![a] = i]
        /\ mine' = [mine EXCEPT ![i] = i]
        /\ To(i, "activate")
        /\ UNCHANGED <<chain, csa, shape, tail, active, ecb, server, svc, users,
                       others, self, anch, owned, history>>

(* The routine does not load: the anchor is retained as it was, but for    *)
(* the old copy.                                                            *)
AdoptFails(i) ==
    LET a == anch[i]
    IN  /\ pc[i] = "settle" /\ (OldIsOurs(a) => Quiet(a))
        /\ loaded' = IF OldIsOurs(a) THEN loaded \ {router[a]} ELSE loaded
        /\ router' = [router EXCEPT ![a] = NONE]
        /\ ecb' = [ecb EXCEPT ![a] = FALSE]
        /\ anch' = [anch EXCEPT ![i] = NONE]
        /\ To(i, "exit")
        /\ UNCHANGED <<chain, csa, shape, tail, active, server, patch, svc, users,
                       others, self, mine, owned, history>>

AdoptActive(i) ==
    /\ pc[i] = "activate"
    /\ active' = [active EXCEPT ![anch[i]] = TRUE]
    /\ owned' = [owned EXCEPT ![i] = TRUE]
    /\ To(i, "steal")
    /\ UNCHANGED <<chain, csa, shape, tail, ecb, server, router, code, users,
                   others, self, anch, mine, history>>

Steal(i) ==
    /\ pc[i] = "steal" /\ svc = NONE
    /\ svc' = mine[i]
    /\ To(i, IF plan[i] = "ADOPT" THEN "open" ELSE "register")
    /\ UNCHANGED <<chain, storage, loaded, patch, users, others, self, holds, history>>

(* nsfsx_router_unload withdraws the record with the copy. *)
Unloaded(i) ==
    /\ loaded' = loaded \ {mine[i]}
    /\ router' = [router EXCEPT ![anch[i]] = IF @ = mine[i] THEN NONE ELSE @]
    /\ mine' = [mine EXCEPT ![i] = NONE]

(* nsfsx_anchor_free: nothing of the anchor can be read any more. *)
Freed(a) ==
    /\ csa' = csa \ {a}
    /\ active' = [active EXCEPT ![a] = FALSE] /\ ecb' = [ecb EXCEPT ![a] = FALSE]
    /\ server' = [server EXCEPT ![a] = NONE] /\ tail' = [tail EXCEPT ![a] = NONE]

(* The entry is in use: nobody ever saw the new anchor. *)
StealFails(i) ==
    /\ pc[i] = "steal" /\ svc # NONE /\ plan[i] # "ADOPT"
    /\ Unloaded(i) /\ Freed(anch[i])
    /\ anch' = [anch EXCEPT ![i] = NONE]
    /\ To(i, "exit")
    /\ UNCHANGED <<chain, shape, patch, svc, users, others, self, owned, history>>

(* nsfsx_unadopt: a copy that was loaded goes, one that was reused stays, *)
(* the anchor is retained again.                                            *)
Unadopt(i) ==
    /\ pc[i] = "steal" /\ svc # NONE /\ plan[i] = "ADOPT"
    /\ IF mine[i] = i THEN Unloaded(i)
       ELSE mine' = [mine EXCEPT ![i] = NONE] /\ UNCHANGED <<loaded, router>>
    /\ active' = [active EXCEPT ![anch[i]] = FALSE]
    /\ ecb' = [ecb EXCEPT ![anch[i]] = FALSE]
    /\ anch' = [anch EXCEPT ![i] = NONE] /\ owned' = [owned EXCEPT ![i] = FALSE]
    /\ To(i, "exit")
    /\ UNCHANGED <<chain, csa, shape, tail, server, patch, svc, users, others,
                   self, history>>

(* The tail is stamped before the SSCT is chained, so no reader of the     *)
(* chain meets an unstamped anchor.                                         *)
Register(i) ==
    /\ pc[i] = "register" /\ plan[i] # "ASIDE"
    /\ job[i].letters /\ chain[job[i].key] = NONE
    /\ tail' = [tail EXCEPT ![anch[i]] = job[i].tail]
    /\ chain' = [chain EXCEPT ![job[i].key] = anch[i]]
    /\ owned' = [owned EXCEPT ![i] = TRUE]
    /\ named' = named \cup {<<job[i].key, anch[i]>>}
    /\ To(i, "open")
    /\ UNCHANGED <<csa, shape, active, ecb, server, router, code, users, others,
                   self, anch, mine, crossed>>

(* Sent aside, refused for the key or for an entry that is there already:   *)
(* the transport runs without a registration.                               *)
RegisterRefused(i) ==
    /\ pc[i] = "register"
    /\ plan[i] = "ASIDE" \/ ~job[i].letters \/ chain[job[i].key] # NONE
    /\ To(i, "open")
    /\ UNCHANGED <<chain, storage, code, users, others, self, holds, history>>

(* From here on nsf_recover is the ESTAE exit. *)
Protect(i) ==
    /\ pc[i] = "open" /\ To(i, "run")
    /\ UNCHANGED <<chain, storage, code, users, others, self, holds, history>>

-----------------------------------------------------------------------------
(* Stop.                                                                    *)
Restored(i) == svc' = IF svc = mine[i] THEN NONE ELSE svc

StopRestore(i) ==
    /\ pc[i] = "run" /\ Restored(i)
    /\ To(i, "quiesce")
    /\ UNCHANGED <<chain, storage, loaded, patch, users, others, self, holds, history>>

Quiesced(i) ==
    /\ active' = [active EXCEPT ![anch[i]] = FALSE]
    /\ ecb' = [ecb EXCEPT ![anch[i]] = FALSE]

StopClear(i) ==
    /\ pc[i] = "quiesce" /\ Quiesced(i)
    /\ To(i, "drain")
    /\ UNCHANGED <<chain, csa, shape, tail, server, router, code, users, others,
                   self, holds, history>>

(* Nobody inside, and none after the settling pause. *)
Drained(i) ==
    /\ pc[i] = "drain" /\ Quiet(anch[i])
    /\ To(i, "unname")
    /\ UNCHANGED <<chain, storage, code, users, others, self, holds, history>>

(* Mutant of StopRetain: the copy of the routine is unloaded all the same. *)
StopRetainUnloads(i) ==
    /\ pc[i] = "drain" /\ ~Quiet(anch[i])
    /\ Unloaded(i)
    /\ anch' = [anch EXCEPT ![i] = NONE] /\ owned' = [owned EXCEPT ![i] = FALSE]
    /\ To(i, "exit")
    /\ UNCHANGED <<chain, csa, shape, tail, active, ecb, server, patch, svc,
                   users, others, self, history>>

(* Somebody is still inside after the last poll: anchor, routine and SSCT  *)
(* stay.                                                                    *)
StopRetain(i) ==
    /\ pc[i] = "drain" /\ ~Quiet(anch[i])
    /\ anch' = [anch EXCEPT ![i] = NONE] /\ owned' = [owned EXCEPT ![i] = FALSE]
    /\ To(i, "exit")
    /\ UNCHANGED <<chain, storage, code, users, others, self, mine, history>>

(* Mutant of Unname: an instance that was refused unchains another's SSCT. *)
UnnameAnyway(i) ==
    /\ pc[i] = "unname"
    /\ chain' = [chain EXCEPT ![job[i].key] = NONE]
    /\ named' = named \ {<<job[i].key, anch[i]>>}
    /\ To(i, "free")
    /\ UNCHANGED <<storage, code, users, others, self, holds, crossed>>

(* The registration goes before the storage it names, and only one this    *)
(* instance made or took over.                                              *)
Unname(i) ==
    /\ pc[i] = "unname"
    /\ chain' = IF owned[i] THEN [chain EXCEPT ![job[i].key] = NONE] ELSE chain
    /\ named' = named \ {<<job[i].key, anch[i]>>}
    /\ To(i, "free")
    /\ UNCHANGED <<storage, code, users, others, self, holds, crossed>>

StopFree(i) ==
    /\ pc[i] = "free"
    /\ Unloaded(i) /\ Freed(anch[i])
    /\ anch' = [anch EXCEPT ![i] = NONE] /\ owned' = [owned EXCEPT ![i] = FALSE]
    /\ To(i, "exit")
    /\ UNCHANGED <<chain, shape, patch, svc, users, others, self, history>>

-----------------------------------------------------------------------------
(* Abends.                                                                  *)
(* nsf_recover: the SVC entry is restored and the anchor quiesced; nothing  *)
(* is drained, unloaded, unchained or freed.                                *)
Recover(i) ==
    /\ pc[i] \in {"run", "quiesce", "drain", "unname", "free"}
    /\ Restored(i) /\ Quiesced(i)
    /\ To(i, "exit")
    /\ UNCHANGED <<chain, csa, shape, tail, server, router, loaded, patch, users,
                   others, self, holds, history>>

(* The address space ends: after a stop or a recovery, or at any place     *)
(* without either (FORCE, or an abend before the ESTAE is established); its  *)
(* private storage goes with it.                                            *)
End(i) ==
    /\ pc[i] \notin {"new", "gone"} /\ To(i, "gone")
    /\ ascb' = [ascb EXCEPT ![i] = NONE] /\ job' = [job EXCEPT ![i] = NONE]
    /\ found' = [found EXCEPT ![i] = NONE] /\ plan' = [plan EXCEPT ![i] = "NONE"]
    /\ anch' = [anch EXCEPT ![i] = NONE] /\ mine' = [mine EXCEPT ![i] = NONE]
    /\ owned' = [owned EXCEPT ![i] = FALSE]
    /\ UNCHANGED <<chain, storage, code, users, others, history>>

-----------------------------------------------------------------------------
Client == \E c \in Clients : Enter(c) \/ Leave(c) \/ Die(c)
System == \E x \in Ascbs : OtherStarts(x) \/ OtherEnds(x)
Starts(i) ==
    \/ Start(i) \/ Look(i) \/ Replace(i) \/ Alloc(i) \/ AllocFails(i)
    \/ AdoptStamp(i) \/ AdoptScrub(i) \/ AdoptReuse(i) \/ AdoptReload(i)
    \/ AdoptFails(i) \/ AdoptActive(i) \/ Steal(i) \/ StealFails(i)
    \/ Unadopt(i) \/ Register(i) \/ RegisterRefused(i) \/ Protect(i)
Stops(i) ==
    \/ Reap(i) \/ StopRestore(i) \/ StopClear(i) \/ Drained(i)
    \/ StopRetain(i) \/ Unname(i) \/ StopFree(i) \/ Recover(i) \/ End(i)
Next == Client \/ System \/ \E i \in Instances : Starts(i) \/ Stops(i)
Spec == Init /\ [][Next]_vars

-----------------------------------------------------------------------------
(* Properties.                                                              *)
(* Instances that serve an anchor, or are about to, or are leaving it. *)
Holds == {"scrub", "settle", "activate", "steal", "register", "open", "run",
          "quiesce", "drain", "unname", "free"}
Holders(a) == {i \in Instances : pc[i] \in Holds /\ anch[i] = a}

(* Storage that is still in use is not freed: not the anchor and the copy  *)
(* of the routine a living client is inside, not those the SVC entry leads *)
(* to, not an anchor an SSCT names or an instance serves, nor a copy an     *)
(* anchor records; and no anchor is served by two instances, one of which   *)
(* would free it under the other ("adopting an anchor its owner may yet     *)
(* free is a use-after-free in common storage", nsfsct.h).  Nothing of it   *)
(* is claimed once two starts had decided at once to adopt or replace the   *)
(* same entry: nsfsx_start does not exclude that, and it breaks all of it.  *)
ClientsStand == \A c \in Clients \ dead :
    at[c] # NONE => at[c].anchor \in csa /\ at[c].copy \in loaded
EntryStands  == svc # NONE => svc \in loaded /\ patch[svc] \in csa
ChainStands  == \A k \in Keys : chain[k] # NONE => chain[k] \in csa
RecordStands == \A a \in csa : router[a] # NONE => router[a] \in loaded
SoleServer   == \A i, n \in Instances :
    pc[i] \in Holds /\ pc[n] \in Holds /\ anch[i] = anch[n] => i = n
ServedStands == \A i \in Instances : pc[i] \in Holds => anch[i] \in csa
StorageHeld == ~crossed =>
    /\ ClientsStand /\ EntryStands /\ ChainStands
    /\ RecordStands /\ SoleServer /\ ServedStands

(* What was registered can be found: a sound anchor whose SSCT was chained *)
(* is named by it until the instance that holds the registration removes   *)
(* it on the way to freeing the anchor, whoever else starts, is refused,   *)
(* stops or ends meanwhile - short of two starts that decided at once.      *)
RetainedFound == ~crossed => \A r \in named : chain[r[1]] = r[2]
=============================================================================

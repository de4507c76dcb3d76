---------------------------- MODULE NsfSctProofs ----------------------------
(***************************************************************************)
(* NsfSct for any number of instances, clients and job names: no storage    *)
(* that is in use is freed, and what was registered can be found, until two *)
(* starts have decided at once to adopt or replace what one SSCT leads to.  *)
(***************************************************************************)
EXTENDS NsfSct, FiniteSetTheorems, TLAPS

Places == Holds \cup {"new", "look", "decided", "alloc", "exit", "gone"}
Plans  == {"NONE", "FRESH", "ADOPT", "REPLACE", "ASIDE"}
Shapes == {"ours", "older", "bad_eye", "damaged"}

Types ==
    /\ pc \in [Instances -> Places] /\ plan \in [Instances -> Plans]
    /\ job \in [Instances -> Jobs \cup {NONE}]
    /\ ascb \in [Instances -> Ascbs \cup {NONE}]
    /\ found \in [Instances -> Anchors \cup {NONE}]
    /\ anch \in [Instances -> Anchors \cup {NONE}]
    /\ mine \in [Instances -> Anchors \cup {NONE}]
    /\ owned \in [Instances -> BOOLEAN]
    /\ csa \subseteq Anchors /\ loaded \subseteq Anchors
    /\ chain \in [Keys -> Anchors \cup {NONE}]
    /\ shape \in [Anchors -> Shapes]
    /\ active \in [Anchors -> BOOLEAN] /\ ecb \in [Anchors -> BOOLEAN]
    /\ server \in [Anchors -> Ascbs \cup {NONE}]
    /\ router \in [Anchors -> Anchors \cup {NONE}]
    /\ patch \in [Anchors -> Anchors \cup {NONE}]
    /\ svc \in Anchors \cup {NONE}
    /\ at \in [Clients -> {NONE} \cup [anchor : Anchors, copy : Anchors]]
    /\ named \subseteq Keys \X Anchors

(* Address spaces that live at once are told apart by their ASCBs. *)
Live(i) == pc[i] \notin {"new", "gone"}
Identity ==
    /\ \A i \in Instances : Live(i) => job[i] \in Jobs /\ ascb[i] \in Ascbs
    /\ \A i, n \in Instances :
           Live(i) /\ Live(n) /\ ascb[i] = ascb[n] => i = n

(* What an instance is yet to allocate, nobody knows. *)
Unborn == \A i \in Instances :
    pc[i] \in {"new", "look", "decided", "alloc", "scrub", "settle"} =>
        i \notin csa /\ i \notin loaded /\ shape[i] = "ours"

(* The anchor says who serves it. *)
Served == \A i \in Instances : pc[i] \in Holds =>
    /\ anch[i] \in csa /\ server[anch[i]] = ascb[i] /\ shape[anch[i]] = "ours"
    /\ pc[i] \in {"scrub", "settle", "activate", "steal"} => ecb[anch[i]]

(* Its server has the copy that leads to it. *)
Copied == \A i \in Instances : pc[i] \in Holds \ {"scrub", "settle"} =>
    mine[i] \in loaded /\ patch[mine[i]] = anch[i] /\ router[anch[i]] = mine[i]

(* The SVC entry leads to an anchor that cannot be adopted and that no     *)
(* instance serves but the one that stole the entry.                        *)
Entered == svc # NONE =>
    /\ svc \in loaded /\ patch[svc] \in csa /\ ecb[patch[svc]]
    /\ \A i \in Instances : pc[i] \in Holds /\ anch[i] = patch[svc] =>
           pc[i] \in {"register", "open", "run"} /\ mine[i] = svc

Recorded ==
    /\ \A a \in Anchors : router[a] # NONE => router[a] \in loaded
    /\ \A a, b \in Anchors : router[a] = router[b] /\ router[a] # NONE => a = b

Occupied == \A c \in Clients : at[c] # NONE =>
    /\ at[c].anchor \in csa /\ at[c].copy \in loaded
    /\ patch[at[c].copy] = at[c].anchor

(* Nobody is inside an anchor about to be freed, or a copy just loaded. *)
Emptied == \A i \in Instances, c \in Clients : at[c] # NONE =>
    /\ \/ pc[i] \in {"unname", "free"}
       \/ pc[i] = "steal" /\ plan[i] # "ADOPT"
       => at[c].anchor # anch[i]
    /\ pc[i] \in {"activate", "steal"} /\ mine[i] = i => at[c].copy # i

(* Which starts hold a registration. *)
Adopting(i) == pc[i] \in {"scrub", "settle", "activate"}
Titled == \A i \in Instances :
    /\ pc[i] \in {"new", "look", "decided", "alloc", "register"} \/ Adopting(i)
       => ~owned[i]
    /\ pc[i] = "steal" => (owned[i] <=> plan[i] = "ADOPT")
    /\ Adopting(i) => plan[i] = "ADOPT"
    /\ pc[i] \in {"alloc", "register"} => plan[i] # "ADOPT"

(* The chain leads to an anchor that is served by one entry, its server's. *)
Chained ==
    /\ \A k \in Keys : chain[k] # NONE => chain[k] \in csa
    /\ \A k, l \in Keys : chain[k] = chain[l] /\ chain[k] # NONE => k = l
    /\ \A i \in Instances : pc[i] \in Holds =>
           \A k \in Keys : chain[k] = anch[i] <=>
               /\ k = job[i].key /\ pc[i] # "free"
               /\ owned[i] \/ Adopting(i)

(* What a start decided to do about an anchor remains right. *)
Decided ==
    /\ \A i, n \in Instances : pc[i] = "decided" /\ pc[n] = "decided"
           /\ job[i].key = job[n].key => i = n
    /\ \A i \in Instances : pc[i] = "decided" =>
           LET a == chain[job[i].key]
           IN  /\ a # NONE
               /\ plan[i] = "ADOPT" =>
                    /\ found[i] = a /\ shape[a] = "ours" /\ ~ecb[a]
                    /\ \A n \in Instances : pc[n] \in Holds => anch[n] # a
               /\ plan[i] # "ADOPT" => shape[a] # "ours"

Registered == \A r \in named : chain[r[1]] = r[2] /\ shape[r[2]] = "ours"

SInv ==
    /\ Types /\ Identity /\ Unborn /\ Served /\ Copied /\ Entered
    /\ Recorded /\ Occupied /\ Emptied /\ Titled /\ Chained /\ Decided
    /\ Registered

USE DEF storage, code, users, self, holds, history, To, Holds, Adopting, Live, Places

(* No anchor is served twice: its server's ASCB is in it. *)
LEMMA Alone == ASSUME Identity, Served PROVE SoleServer
  BY DEF Identity, Served, SoleServer

(* The count of an anchor is zero only if nobody is inside. *)
LEMMA QuietIsEmpty ==
    ASSUME NEW a, Quiet(a)
    PROVE  \A c \in Clients : at[c] # NONE => at[c].anchor # a
<1>1. IsFiniteSet(Inside(a))
  BY NamesAssumption, FS_Subset DEF Inside
<1>2. Inside(a) = {}
  BY <1>1, FS_EmptySet DEF Quiet, Inflight
<1> QED
  BY <1>2 DEF Inside

(* A live instance's key is an SSCT name. *)
LEMMA KeyType ==
    ASSUME Identity, NEW i \in Instances, Live(i) PROVE job[i].key \in Keys
  BY JobsAssumption DEF Identity

(* The parts hold of whatever was left before the first instance. *)
LEMMA SInvInit == Init => SInv
<1> SUFFICES ASSUME Init PROVE SInv
  OBVIOUS
<1> USE NamesAssumption DEF Init, Anchors
<1>1. Types
  BY DEF Types, Plans, Shapes
<1>2. /\ csa \subseteq Keys
      /\ \A k \in Keys : chain[k] # NONE => chain[k] = k /\ k \in csa
  OBVIOUS
<1>3. Identity /\ Served /\ Copied /\ Entered /\ Emptied /\ Decided /\ Titled
  BY DEF Identity, Served, Copied, Entered, Emptied, Decided, Titled
<1>4. Unborn
  BY <1>2 DEF Unborn
<1>5. Recorded
  BY DEF Recorded
<1>6. Occupied
  <2> SUFFICES ASSUME NEW c \in Clients, at[c] # NONE
               PROVE  \E a \in csa : patch[a] = a
                                     /\ at[c] = [anchor |-> a, copy |-> a]
    BY DEF Occupied
  <2> QED
    OBVIOUS
<1>7. Chained
  BY <1>2 DEF Chained
<1>8. Registered
  <2> SUFFICES ASSUME NEW r \in named
               PROVE  chain[r[1]] = r[2] /\ shape[r[2]] = "ours"
    BY DEF Registered
  <2>1. PICK k \in csa : r = <<k, k>> /\ shape[k] = "ours"
    OBVIOUS
  <2> QED
    BY <1>2, <2>1
<1> QED
  BY <1>1, <1>3, <1>4, <1>5, <1>6, <1>7, <1>8 DEF SInv

(* What the look at the chain establishes about what it found. *)
LEMMA LookEffect ==
    ASSUME SInv, NEW i \in Instances, Look(i)
    PROVE  \E p \in Plans, f \in Anchors \cup {NONE} :
               /\ plan' = [plan EXCEPT ![i] = p]
               /\ found' = [found EXCEPT ![i] = f]
               /\ pc' = [pc EXCEPT ![i] = IF p \in {"ADOPT", "REPLACE"}
                                          THEN "decided" ELSE "alloc"]
               /\ p = "ADOPT" =>
                    LET a == chain[job[i].key]
                    IN  /\ a # NONE /\ f = a /\ shape[a] = "ours" /\ ~ecb[a]
                        /\ server[a] = ascb[i] \/ server[a] \notin Asvt
               /\ p = "REPLACE" =>
                    /\ chain[job[i].key] # NONE
                    /\ shape[chain[job[i].key]] # "ours"
<1> DEFINE a == chain[job[i].key]
           verdict == Find(i)
<1>1. pc[i] = "look" /\ job[i].key \in Keys
  BY KeyType DEF SInv, Look
<1>2. a \in Anchors \cup {NONE}
  BY <1>1 DEF SInv, Types
<1>3. PICK table \in {Asvt, {}} : plan' = [plan EXCEPT ![i] =
          nsfsct_start_action(verdict, IF verdict = "OK"
              THEN Posture(a, ascb[i], table) ELSE "RETAINED")]
  BY DEF Look
<1> DEFINE posture == IF verdict = "OK" THEN Posture(a, ascb[i], table)
                      ELSE "RETAINED"
           p == nsfsct_start_action(verdict, posture)
           f == IF verdict \in {"NONE", "BADEYE"} THEN NONE ELSE a
<1>4. plan'[i] = p
  BY <1>3 DEF SInv, Types
<1>5. found' = [found EXCEPT ![i] = f] /\ f \in Anchors \cup {NONE}
  BY <1>2 DEF Look
<1>6. pc' = [pc EXCEPT ![i] =
                IF p \in {"ADOPT", "REPLACE"} THEN "decided" ELSE "alloc"]
  BY <1>4 DEF Look
<1>7. verdict = "OK" => a # NONE /\ shape[a] \in {"ours", "damaged"}
  BY <1>2 DEF Find, nsfsct_classify, SInv, Types, Shapes
<1>8. verdict \in {"BADEYE", "BADVER"} => a # NONE /\ shape[a] # "ours"
  BY DEF Find, nsfsct_classify
<1>9. verdict = "OK" /\ posture = "RETAINED" =>
          /\ shape[a] # "damaged" /\ ~ecb[a]
          /\ server[a] = ascb[i] \/ server[a] \notin Asvt
  BY DEF Posture, nsfsct_posture, nsfreqx_server_gone
<1>10. verdict = "OK" /\ posture = "DAMAGED" => shape[a] = "damaged"
  BY DEF Posture, nsfsct_posture
<1>11. p \in Plans
  BY DEF nsfsct_start_action, Plans
<1>12. p = "ADOPT" => verdict = "OK" /\ posture = "RETAINED"
  BY DEF nsfsct_start_action
<1>13. p = "REPLACE" =>
           \/ verdict \in {"BADEYE", "BADVER"}
           \/ verdict = "OK" /\ posture = "DAMAGED"
  BY DEF nsfsct_start_action
<1>14. p = "ADOPT" => /\ a # NONE /\ f = a /\ shape[a] = "ours" /\ ~ecb[a]
                      /\ server[a] = ascb[i] \/ server[a] \notin Asvt
  BY <1>7, <1>9, <1>12
<1>15. p = "REPLACE" => a # NONE /\ shape[a] # "ours"
  BY <1>7, <1>8, <1>10, <1>13
<1> HIDE DEF p, f, a
<1> QED
  BY <1>3, <1>5, <1>6, <1>11, <1>14, <1>15 DEF p, a

(* A retained anchor has no living server but the start itself. *)
LEMMA LookKeeps ==
    ASSUME SInv, NEW i \in Instances, Look(i), ~crossed'
    PROVE  SInv'
<1> DEFINE a == chain[job[i].key]
<1>1. PICK p \in Plans, f \in Anchors \cup {NONE} :
          /\ plan' = [plan EXCEPT ![i] = p]
          /\ found' = [found EXCEPT ![i] = f]
          /\ pc' = [pc EXCEPT ![i] = IF p \in {"ADOPT", "REPLACE"}
                                     THEN "decided" ELSE "alloc"]
          /\ p = "ADOPT" =>
               /\ a # NONE /\ f = a /\ shape[a] = "ours" /\ ~ecb[a]
               /\ server[a] = ascb[i] \/ server[a] \notin Asvt
          /\ p = "REPLACE" => a # NONE /\ shape[a] # "ours"
  BY LookEffect
<1>2. /\ pc[i] = "look"
      /\ pc'[i] = "decided" => \A n \in Instances :
             pc[n] = "decided" => job[n].key # job[i].key
      /\ UNCHANGED <<chain, storage, code, users, others, job, ascb, holds,
                     named>>
  BY DEF Look
<1> USE <1>1, <1>2 DEF SInv, Types
<1>3. p = "ADOPT" => \A n \in Instances : pc[n] \in Holds => anch[n] # a
  BY DEF Identity, Served, Asvt
<1>4. Types'
  BY DEF Plans
<1>5. Identity' /\ Unborn' /\ Served' /\ Copied'
  BY DEF Identity, Unborn, Served, Copied
<1>6. Entered' /\ Recorded' /\ Occupied' /\ Emptied'
  BY DEF Entered, Recorded, Occupied, Emptied
<1>7. Titled'
  BY DEF Titled
<1>8. Chained' /\ Registered'
  BY DEF Chained, Registered
<1>9. Decided'
  BY <1>3 DEF Decided
<1> QED
  BY <1>4, <1>5, <1>6, <1>7, <1>8, <1>9

(* A client enters through the SVC entry, which leads to a served anchor.   *)
LEMMA EnterKeeps ==
    ASSUME SInv, NEW c \in Clients, Enter(c)
    PROVE  SInv'
<1> USE DEF SInv, Types, Enter
<1>1. Identity' /\ Unborn' /\ Served'
  BY DEF Identity, Unborn, Served
<1>2. Copied' /\ Entered' /\ Recorded'
  BY DEF Copied, Entered, Recorded
<1>3. Titled' /\ Chained' /\ Decided'
  BY DEF Titled, Chained, Decided
<1>4. Registered'
  BY DEF Registered
<1>5. Types'
  BY DEF Plans, Shapes, Entered
<1>6. Occupied'
  BY DEF Occupied, Entered
<1>7. Emptied'
  BY DEF Emptied, Entered, Copied
<1> QED
  BY <1>1, <1>2, <1>3, <1>4, <1>5, <1>6, <1>7

(* Clients leave or die.                                                    *)
LEMMA LeaveKeeps ==
    ASSUME SInv, NEW c \in Clients, Leave(c) \/ Die(c)
    PROVE  SInv'
<1> USE DEF SInv, Types, Leave, Die
<1>1. Types'
  BY DEF Plans, Shapes
<1>2. Identity' /\ Unborn' /\ Served'
  BY DEF Identity, Unborn, Served
<1>3. Copied' /\ Entered' /\ Recorded'
  BY DEF Copied, Entered, Recorded
<1>4. Occupied' /\ Emptied' /\ Titled'
  BY DEF Occupied, Emptied, Titled
<1>5. Chained' /\ Decided' /\ Registered'
  BY DEF Chained, Decided, Registered
<1> QED
  BY <1>1, <1>2, <1>3, <1>4, <1>5

(* Other address spaces come and go.                                        *)
LEMMA OthersKeep ==
    ASSUME SInv, NEW x \in Ascbs, OtherStarts(x) \/ OtherEnds(x)
    PROVE  SInv'
<1> USE DEF SInv, Types, OtherStarts, OtherEnds
<1>1. Types'
  BY DEF Plans, Shapes
<1>2. Identity' /\ Unborn' /\ Served'
  BY DEF Identity, Unborn, Served
<1>3. Copied' /\ Entered' /\ Recorded'
  BY DEF Copied, Entered, Recorded
<1>4. Occupied' /\ Emptied' /\ Titled'
  BY DEF Occupied, Emptied, Titled
<1>5. Chained' /\ Decided' /\ Registered'
  BY DEF Chained, Decided, Registered
<1> QED
  BY <1>1, <1>2, <1>3, <1>4, <1>5

(* Slots of dead clients are given back.                                    *)
LEMMA ReapKeeps ==
    ASSUME SInv, NEW i \in Instances, Reap(i) \/ AdoptScrub(i)
    PROVE  SInv'
<1> USE DEF SInv, Types, Reap, AdoptScrub, Reaped
<1>1. Types'
  BY DEF Plans, Shapes
<1>2. Identity' /\ Unborn' /\ Served'
  BY DEF Identity, Unborn, Served
<1>3. Copied' /\ Entered' /\ Recorded'
  BY DEF Copied, Entered, Recorded
<1>4. Occupied' /\ Emptied' /\ Titled'
  BY DEF Occupied, Emptied, Titled
<1>5. Chained' /\ Decided' /\ Registered'
  BY DEF Chained, Decided, Registered
<1> QED
  BY <1>1, <1>2, <1>3, <1>4, <1>5

(* Steps that only move on.                                                 *)
LEMMA MovesOn ==
    ASSUME SInv, NEW i \in Instances,
           AllocFails(i) \/ RegisterRefused(i) \/ Protect(i)
    PROVE  SInv'
<1> USE DEF SInv, Types, AllocFails, RegisterRefused, Protect
<1>1. Types'
  BY DEF Plans, Shapes
<1>2. Identity' /\ Unborn' /\ Served'
  BY DEF Identity, Unborn, Served
<1>3. Copied' /\ Entered'
  BY DEF Copied, Entered
<1>4. Occupied' /\ Emptied' /\ Titled'
  BY DEF Occupied, Emptied, Titled
<1>5. Chained' /\ Decided' /\ Registered'
  BY DEF Chained, Decided, Registered
<1>6. Recorded'
  BY DEF Recorded
<1> QED
  BY <1>1, <1>2, <1>3, <1>4, <1>5, <1>6

(* A stop that retains lets go of everything.                               *)
LEMMA StopRetainKeeps ==
    ASSUME SInv, NEW i \in Instances, StopRetain(i)
    PROVE  SInv'
<1> USE DEF SInv, Types, StopRetain
<1>1. Types'
  BY DEF Plans, Shapes
<1>2. Identity' /\ Unborn' /\ Served'
  BY DEF Identity, Unborn, Served
<1>3. Copied' /\ Entered' /\ Recorded'
  BY DEF Copied, Entered, Recorded
<1>4. Occupied' /\ Emptied' /\ Titled'
  BY DEF Occupied, Emptied, Titled
<1>5. Chained' /\ Decided' /\ Registered'
  BY DEF Chained, Decided, Registered
<1> QED
  BY <1>1, <1>2, <1>3, <1>4, <1>5

(* A start takes an ASCB no live address space has.                         *)
LEMMA StartKeeps ==
    ASSUME SInv, NEW i \in Instances, Start(i)
    PROVE  SInv'
<1> USE DEF SInv, Types, Start, Asvt
<1>1. Types'
  BY DEF Plans, Shapes
<1>2. Identity' /\ Unborn' /\ Served'
  BY DEF Identity, Unborn, Served
<1>3. Copied' /\ Entered' /\ Recorded'
  BY DEF Copied, Entered, Recorded
<1>4. Occupied' /\ Emptied' /\ Titled'
  BY DEF Occupied, Emptied, Titled
<1>5. Chained' /\ Decided' /\ Registered'
  BY DEF Chained, Decided, Registered
<1> QED
  BY <1>1, <1>2, <1>3, <1>4, <1>5

(* What is unchained is no registration.                                    *)
LEMMA ReplaceKeeps ==
    ASSUME SInv, NEW i \in Instances, Replace(i)
    PROVE  SInv'
<1> USE DEF SInv, Types, Replace
<1>1. Types'
  BY DEF Plans, Shapes
<1>2. Identity' /\ Unborn' /\ Served'
  BY DEF Identity, Unborn, Served
<1>3. Copied' /\ Entered' /\ Recorded'
  BY DEF Copied, Entered, Recorded
<1>4. Occupied' /\ Emptied' /\ Titled'
  BY DEF Occupied, Emptied, Titled
<1>5. Chained'
  BY NamesAssumption, KeyType DEF Chained, Served, Decided, Anchors
<1>6. Decided'
  BY NamesAssumption DEF Decided
<1>7. Registered'
  BY DEF Registered, Decided
<1> QED
  BY <1>1, <1>2, <1>3, <1>4, <1>5, <1>6, <1>7

(* A new anchor and its copy were unknown before.                           *)
LEMMA AllocKeeps ==
    ASSUME SInv, NEW i \in Instances, Alloc(i)
    PROVE  SInv'
<1> USE DEF SInv, Types, Alloc, Anchors
<1>1. Identity' /\ Unborn' /\ Titled'
  BY DEF Identity, Unborn, Titled
<1>2. Registered'
  BY DEF Registered
<1>3. Types'
  BY DEF Plans, Shapes, Identity
<1>4. Served'
  BY DEF Served, Unborn, Identity
<1>5. Copied'
  BY DEF Copied, Unborn, Served
<1>6. Entered'
  BY DEF Entered, Unborn, Served
<1>7. Recorded'
  BY DEF Recorded, Unborn
<1>8. Occupied'
  BY DEF Occupied, Unborn
<1>9. Emptied'
  BY DEF Emptied, Unborn, Occupied
<1>10. Chained'
  BY NamesAssumption DEF Chained, Unborn, Titled
<1>11. Decided'
  BY KeyType DEF Decided, Unborn, Chained
<1> QED
  BY <1>1, <1>2, <1>3, <1>4, <1>5, <1>6, <1>7, <1>8, <1>9, <1>10, <1>11

(* The adopted anchor gets its only server.                                 *)
LEMMA AdoptStampKeeps ==
    ASSUME SInv, NEW i \in Instances, AdoptStamp(i)
    PROVE  SInv'
<1> USE DEF SInv, Types, AdoptStamp
<1>1. Types'
  BY DEF Plans, Shapes
<1>2. Identity' /\ Unborn' /\ Copied'
  BY DEF Identity, Unborn, Copied
<1>3. Recorded' /\ Occupied' /\ Emptied'
  BY DEF Recorded, Occupied, Emptied
<1>4. Titled' /\ Registered'
  BY DEF Titled, Registered
<1>5. Served'
  BY KeyType, NamesAssumption DEF Served, Decided, Identity, Chained
<1>6. Entered'
  BY DEF Entered, Decided, Served
<1>7. Chained'
  BY KeyType DEF Chained, Decided, Titled, Served
<1>8. Decided'
  <2>1. \A n \in Instances : pc'[n] = "decided" =>
            pc[n] = "decided" /\ chain[job[n].key] # found[i]
    BY KeyType, NamesAssumption DEF Decided, Chained
  <2> QED
    BY <2>1 DEF Decided
<1> QED
  BY <1>1, <1>2, <1>3, <1>4, <1>5, <1>6, <1>7, <1>8

(* The recorded copy is kept.                                               *)
LEMMA AdoptReuseKeeps ==
    ASSUME SInv, NEW i \in Instances, AdoptReuse(i)
    PROVE  SInv'
<1> USE DEF SInv, Types, AdoptReuse, OldIsOurs
<1>1. Identity' /\ Unborn' /\ Served'
  BY DEF Identity, Unborn, Served
<1>2. Entered' /\ Recorded' /\ Occupied'
  BY DEF Entered, Recorded, Occupied
<1>3. Titled' /\ Chained' /\ Decided'
  BY DEF Titled, Chained, Decided
<1>4. Registered'
  BY DEF Registered
<1>5. Types'
  BY DEF Plans, Shapes, Served
<1>6. Copied'
  BY DEF Copied, Recorded, Served
<1>7. Emptied'
  BY DEF Emptied, Unborn, Recorded, Served
<1> QED
  BY <1>1, <1>2, <1>3, <1>4, <1>5, <1>6, <1>7

(* The recorded copy is freed only if it leads here and nobody is inside.   *)
LEMMA AdoptReloadKeeps ==
    ASSUME SInv, NEW i \in Instances, AdoptReload(i)
    PROVE  SInv'
<1> USE DEF SInv, Types, AdoptReload, OldIsOurs, Anchors
<1>1. Identity' /\ Unborn' /\ Served'
  BY DEF Identity, Unborn, Served
<1>2. Titled' /\ Chained' /\ Decided'
  BY DEF Titled, Chained, Decided
<1>3. Registered'
  BY DEF Registered
<1>4. Types'
  BY DEF Plans, Shapes, Served
<1>5. Copied'
  BY Alone DEF Copied, Served, Unborn, Recorded, SoleServer
<1>6. Entered'
  BY DEF Entered, Served, Unborn
<1>7. Recorded'
  BY NamesAssumption DEF Recorded, Served, Unborn
<1>8. Occupied'
  BY QuietIsEmpty DEF Occupied, Served, Unborn
<1>9. Emptied'
  BY DEF Emptied, Unborn, Occupied
<1> QED
  BY <1>1, <1>2, <1>3, <1>4, <1>5, <1>6, <1>7, <1>8, <1>9

(* As for a reload, but nothing is loaded.                                  *)
LEMMA AdoptFailsKeeps ==
    ASSUME SInv, NEW i \in Instances, AdoptFails(i)
    PROVE  SInv'
<1> USE DEF SInv, Types, AdoptFails, OldIsOurs
<1>1. Types'
  BY DEF Plans, Shapes
<1>2. Identity' /\ Unborn' /\ Entered'
  BY DEF Identity, Unborn, Entered
<1>3. Emptied' /\ Titled' /\ Chained'
  BY DEF Emptied, Titled, Chained
<1>4. Decided' /\ Registered'
  BY DEF Decided, Registered
<1>5. Served'
  BY Alone DEF Served, SoleServer
<1>6. Copied'
  BY Alone DEF Copied, Served, SoleServer
<1>7. Recorded'
  BY DEF Recorded, Served
<1>8. Occupied'
  BY QuietIsEmpty DEF Occupied
<1> QED
  BY <1>1, <1>2, <1>3, <1>4, <1>5, <1>6, <1>7, <1>8

(* Becoming active, taking the SVC entry.                                   *)
LEMMA AdoptActiveKeeps ==
    ASSUME SInv, NEW i \in Instances, AdoptActive(i)
    PROVE  SInv'
<1> USE DEF SInv, Types, AdoptActive
<1>1. Types'
  BY DEF Plans, Shapes
<1>2. Identity' /\ Unborn' /\ Served'
  BY DEF Identity, Unborn, Served
<1>3. Copied' /\ Entered' /\ Recorded'
  BY DEF Copied, Entered, Recorded
<1>4. Occupied' /\ Titled' /\ Chained'
  BY DEF Occupied, Titled, Chained
<1>5. Decided' /\ Registered'
  BY DEF Decided, Registered
<1>6. Emptied'
  BY DEF Emptied, Titled
<1> QED
  BY <1>1, <1>2, <1>3, <1>4, <1>5, <1>6

LEMMA StealKeeps ==
    ASSUME SInv, NEW i \in Instances, Steal(i)
    PROVE  SInv'
<1> USE DEF SInv, Types, Steal
<1>1. Types'
  BY DEF Plans, Shapes
<1>2. Identity' /\ Unborn' /\ Served'
  BY DEF Identity, Unborn, Served
<1>3. Copied' /\ Recorded' /\ Occupied'
  BY DEF Copied, Recorded, Occupied
<1>4. Emptied' /\ Titled' /\ Chained'
  BY DEF Emptied, Titled, Chained
<1>5. Decided' /\ Registered'
  BY DEF Decided, Registered
<1>6. Entered'
  BY Alone DEF Entered, Copied, Served, SoleServer
<1> QED
  BY <1>1, <1>2, <1>3, <1>4, <1>5, <1>6

(* The anchor that is freed was never entered or chained.                   *)
LEMMA StealFailsKeeps ==
    ASSUME SInv, NEW i \in Instances, StealFails(i)
    PROVE  SInv'
<1> USE DEF SInv, Types, StealFails, Unloaded, Freed
<1>1. Types'
  BY DEF Plans, Shapes
<1>2. Identity' /\ Unborn' /\ Emptied'
  BY DEF Identity, Unborn, Emptied
<1>3. Titled' /\ Decided' /\ Registered'
  BY DEF Titled, Decided, Registered
<1>4. Served'
  BY Alone DEF Served, SoleServer
<1>5. Copied'
  BY Alone DEF Copied, Served, SoleServer
<1>6. Entered'
  BY DEF Entered, Copied
<1>7. Recorded'
  BY DEF Recorded, Copied, Served
<1>8. Occupied'
  BY DEF Occupied, Copied, Emptied
<1>9. Chained'
  BY Alone DEF Chained, Titled, SoleServer
<1> QED
  BY <1>1, <1>2, <1>3, <1>4, <1>5, <1>6, <1>7, <1>8, <1>9

(* The copy that is unloaded was never entered.                             *)
LEMMA UnadoptKeeps ==
    ASSUME SInv, NEW i \in Instances, Unadopt(i)
    PROVE  SInv'
<1> USE DEF SInv, Types, Unadopt, Unloaded
<1>1. Identity' /\ Unborn' /\ Emptied'
  BY DEF Identity, Unborn, Emptied
<1>2. Titled' /\ Chained' /\ Decided'
  BY DEF Titled, Chained, Decided
<1>3. Registered'
  BY DEF Registered
<1>4. Types'
  BY DEF Plans, Shapes, Served
<1>5. Served'
  BY Alone DEF Served, SoleServer
<1>6. Copied'
  BY Alone DEF Copied, Served, SoleServer
<1>7. Entered'
  BY DEF Entered, Copied
<1>8. Recorded'
  <2>1. router[anch[i]] = mine[i] /\ anch[i] \in Anchors
    BY DEF Copied, Served
  <2>2. CASE mine[i] = i
    <3>1. \A a \in Anchors : router'[a] # NONE =>
              a # anch[i] /\ router'[a] = router[a]
      BY <2>1, <2>2
    <3>2. loaded' = loaded \ {mine[i]}
      BY <2>2
    <3> QED
      BY <2>1, <3>1, <3>2 DEF Recorded
  <2>3. CASE mine[i] # i
    BY <2>3 DEF Recorded
  <2> QED
    BY <2>2, <2>3
<1>9. Occupied'
  BY DEF Occupied, Copied, Emptied
<1> QED
  BY <1>1, <1>2, <1>3, <1>4, <1>5, <1>6, <1>7, <1>8, <1>9

(* A registration is made under a free name.                                *)
LEMMA RegisterKeeps ==
    ASSUME SInv, NEW i \in Instances, Register(i)
    PROVE  SInv'
<1> USE DEF SInv, Types, Register
<1>1. Identity' /\ Unborn' /\ Served'
  BY DEF Identity, Unborn, Served
<1>2. Copied' /\ Entered' /\ Recorded'
  BY DEF Copied, Entered, Recorded
<1>3. Occupied' /\ Emptied' /\ Titled'
  BY DEF Occupied, Emptied, Titled
<1>4. Decided'
  BY DEF Decided
<1>5. Types'
  <2>1. job[i].key \in Keys /\ anch[i] \in Anchors
    BY KeyType DEF Served
  <2>2. /\ chain' \in [Keys -> Anchors \cup {NONE}]
        /\ named' \subseteq Keys \X Anchors
    BY <2>1
  <2> QED
    BY <2>2 DEF Plans, Shapes
<1>6. Chained'
  BY Alone, KeyType, NamesAssumption
     DEF Chained, Titled, Served, SoleServer, Anchors
<1>7. Registered'
  BY KeyType, NamesAssumption DEF Registered, Served, Anchors
<1> QED
  BY <1>1, <1>2, <1>3, <1>4, <1>5, <1>6, <1>7

(* Giving up the SVC entry, then the anchor.                                *)
LEMMA StopRestoreKeeps ==
    ASSUME SInv, NEW i \in Instances, StopRestore(i)
    PROVE  SInv'
<1> USE DEF SInv, Types, StopRestore, Restored
<1>1. Types'
  BY DEF Plans, Shapes
<1>2. Identity' /\ Unborn' /\ Served'
  BY DEF Identity, Unborn, Served
<1>3. Copied' /\ Entered' /\ Recorded'
  BY DEF Copied, Entered, Recorded
<1>4. Occupied' /\ Emptied' /\ Titled'
  BY DEF Occupied, Emptied, Titled
<1>5. Chained' /\ Decided' /\ Registered'
  BY DEF Chained, Decided, Registered
<1> QED
  BY <1>1, <1>2, <1>3, <1>4, <1>5

LEMMA StopClearKeeps ==
    ASSUME SInv, NEW i \in Instances, StopClear(i)
    PROVE  SInv'
<1> USE DEF SInv, Types, StopClear, Quiesced
<1>1. Types'
  BY DEF Plans, Shapes
<1>2. Identity' /\ Unborn' /\ Copied'
  BY DEF Identity, Unborn, Copied
<1>3. Recorded' /\ Occupied' /\ Emptied'
  BY DEF Recorded, Occupied, Emptied
<1>4. Titled' /\ Chained' /\ Decided'
  BY DEF Titled, Chained, Decided
<1>5. Registered'
  BY DEF Registered
<1>6. Served'
  BY Alone DEF Served, SoleServer
<1>7. Entered'
  BY DEF Entered
<1> QED
  BY <1>1, <1>2, <1>3, <1>4, <1>5, <1>6, <1>7

(* Nobody is inside, and nobody can enter.                                  *)
LEMMA DrainedKeeps ==
    ASSUME SInv, NEW i \in Instances, Drained(i)
    PROVE  SInv'
<1> USE DEF SInv, Types, Drained
<1>1. Types'
  BY DEF Plans, Shapes
<1>2. Identity' /\ Unborn' /\ Served'
  BY DEF Identity, Unborn, Served
<1>3. Copied' /\ Entered' /\ Recorded'
  BY DEF Copied, Entered, Recorded
<1>4. Occupied' /\ Titled' /\ Chained'
  BY DEF Occupied, Titled, Chained
<1>5. Decided' /\ Registered'
  BY DEF Decided, Registered
<1>6. Emptied'
  BY QuietIsEmpty DEF Emptied
<1> QED
  BY <1>1, <1>2, <1>3, <1>4, <1>5, <1>6

(* The registration removed is the own one.                                 *)
LEMMA UnnameKeeps ==
    ASSUME SInv, NEW i \in Instances, Unname(i)
    PROVE  SInv'
<1> USE DEF SInv, Types, Unname
<1>1. Types'
  BY DEF Plans, Shapes
<1>2. Identity' /\ Unborn' /\ Served'
  BY DEF Identity, Unborn, Served
<1>3. Copied' /\ Entered' /\ Recorded'
  BY DEF Copied, Entered, Recorded
<1>4. Occupied' /\ Emptied' /\ Titled'
  BY DEF Occupied, Emptied, Titled
<1>5. Chained'
  BY Alone, KeyType, NamesAssumption DEF Chained, Served, SoleServer, Anchors
<1>6. Decided'
  BY KeyType, NamesAssumption DEF Decided, Chained, Served
<1>7. Registered'
  BY KeyType, NamesAssumption DEF Registered, Chained, Served
<1> QED
  BY <1>1, <1>2, <1>3, <1>4, <1>5, <1>6, <1>7

(* What is freed is empty, unchained and not entered.                       *)
LEMMA StopFreeKeeps ==
    ASSUME SInv, NEW i \in Instances, StopFree(i)
    PROVE  SInv'
<1> USE DEF SInv, Types, StopFree, Unloaded, Freed
<1>1. Types'
  BY DEF Plans, Shapes
<1>2. Identity' /\ Unborn' /\ Emptied'
  BY DEF Identity, Unborn, Emptied
<1>3. Titled' /\ Chained' /\ Decided'
  BY DEF Titled, Chained, Decided
<1>4. Registered'
  BY DEF Registered
<1>5. Served'
  BY Alone DEF Served, SoleServer
<1>6. Copied'
  BY Alone DEF Copied, Served, SoleServer
<1>7. Entered'
  BY DEF Entered, Copied
<1>8. Recorded'
  BY DEF Recorded, Copied, Served
<1>9. Occupied'
  BY DEF Occupied, Copied, Emptied
<1> QED
  BY <1>1, <1>2, <1>3, <1>4, <1>5, <1>6, <1>7, <1>8, <1>9

(* Recovery quiesces the anchor, an end leaves everything.                  *)
LEMMA RecoverKeeps ==
    ASSUME SInv, NEW i \in Instances, Recover(i)
    PROVE  SInv'
<1> USE DEF SInv, Types, Recover, Restored, Quiesced
<1>1. Types'
  BY DEF Plans, Shapes
<1>2. Identity' /\ Unborn' /\ Copied'
  BY DEF Identity, Unborn, Copied
<1>3. Entered' /\ Recorded' /\ Occupied'
  BY DEF Entered, Recorded, Occupied
<1>4. Emptied' /\ Titled' /\ Chained'
  BY DEF Emptied, Titled, Chained
<1>5. Decided' /\ Registered'
  BY DEF Decided, Registered
<1>6. Served'
  BY Alone DEF Served, SoleServer
<1> QED
  BY <1>1, <1>2, <1>3, <1>4, <1>5, <1>6

LEMMA EndKeeps ==
    ASSUME SInv, NEW i \in Instances, End(i)
    PROVE  SInv'
<1> USE DEF SInv, Types, End
<1>1. Types'
  BY DEF Plans, Shapes
<1>2. Identity' /\ Unborn' /\ Served'
  BY DEF Identity, Unborn, Served
<1>3. Copied' /\ Entered' /\ Recorded'
  BY DEF Copied, Entered, Recorded
<1>4. Occupied' /\ Emptied' /\ Titled'
  BY DEF Occupied, Emptied, Titled
<1>5. Chained' /\ Decided' /\ Registered'
  BY DEF Chained, Decided, Registered
<1> QED
  BY <1>1, <1>2, <1>3, <1>4, <1>5

(* Every step keeps the invariant. *)
LEMMA SInvStep ==
    ASSUME SInv, [Next]_vars, ~crossed'
    PROVE  SInv'
<1>1. CASE Client
  BY <1>1, EnterKeeps, LeaveKeeps DEF Client
<1>2. CASE System
  BY <1>2, OthersKeep DEF System
<1>3. ASSUME NEW i \in Instances, Starts(i) PROVE SInv'
  BY <1>3, StartKeeps, LookKeeps, ReplaceKeeps, AllocKeeps, AdoptStampKeeps,
     ReapKeeps, AdoptReuseKeeps, AdoptReloadKeeps, AdoptFailsKeeps,
     AdoptActiveKeeps, StealKeeps, StealFailsKeeps, UnadoptKeeps,
     RegisterKeeps, MovesOn
     DEF Starts
<1>4. ASSUME NEW i \in Instances, Stops(i) PROVE SInv'
  BY <1>4, ReapKeeps, StopRestoreKeeps, StopClearKeeps, DrainedKeeps,
     StopRetainKeeps, UnnameKeeps, StopFreeKeeps, RecoverKeeps, EndKeeps
     DEF Stops
<1>5. CASE UNCHANGED vars
  BY <1>5 DEF vars, SInv, Types, Identity, Unborn, Served, Copied, Entered,
     Recorded, Occupied, Emptied, Titled, Chained, Decided, Registered
<1> QED
  BY <1>1, <1>2, <1>3, <1>4, <1>5 DEF Next

(* A decision that was crossed stays on record.                             *)
LEMMA CrossedStays ==
    ASSUME [Next]_vars, ~crossed'
    PROVE  ~crossed
<1>1. CASE Client
  BY <1>1 DEF Client, Enter, Leave, Die
<1>2. CASE System
  BY <1>2 DEF System, OtherStarts, OtherEnds
<1>3. ASSUME NEW i \in Instances, Starts(i) PROVE ~crossed
  BY <1>3 DEF Starts, Start, Look, Replace, Alloc, AllocFails, AdoptStamp,
     AdoptScrub, AdoptReuse, AdoptReload, AdoptFails, AdoptActive, Steal,
     StealFails, Unadopt, Register, RegisterRefused, Protect
<1>4. ASSUME NEW i \in Instances, Stops(i) PROVE ~crossed
  BY <1>4 DEF Stops, Reap, StopRestore, StopClear, Drained, StopRetain,
     Unname, StopFree, Recover, End
<1>5. CASE UNCHANGED vars
  BY <1>5 DEF vars
<1> QED
  BY <1>1, <1>2, <1>3, <1>4, <1>5 DEF Next

(* The invariant holds in every reachable state until two starts have       *)
(* decided at once to adopt or replace what the same SSCT leads to          *)
(* (nsfsx_start between nsfsct_find and the stamp or nsfsct_remove).        *)
THEOREM SctInductive == Spec => [](~crossed => SInv)
<1>1. Init => (~crossed => SInv)
  BY SInvInit
<1>2. (~crossed => SInv) /\ [Next]_vars => (~crossed => SInv)'
  BY CrossedStays, SInvStep
<1> QED
  BY <1>1, <1>2, PTL DEF Spec

(* No instance frees an anchor or a copy of the routine that a living      *)
(* client, the SVC entry, an SSCT, an anchor or another instance still uses *)
(* (nsfsx_start, nsfsx_adopt, nsfsx_stop, nsfsx_recover), unless two starts *)
(* have decided at once about one entry.                                    *)
THEOREM InUseNotFreed == Spec => []StorageHeld
<1>1. SInv => ClientsStand
  BY DEF SInv, Occupied, ClientsStand
<1>2. SInv => EntryStands /\ ChainStands
  BY DEF SInv, Entered, Chained, EntryStands, ChainStands
<1>3. SInv => RecordStands
  BY DEF SInv, Types, Recorded, RecordStands
<1>4. SInv => SoleServer /\ ServedStands
  BY Alone DEF SInv, Served, ServedStands
<1>5. (~crossed => SInv) => StorageHeld
  BY <1>1, <1>2, <1>3, <1>4 DEF StorageHeld
<1> QED
  BY <1>5, SctInductive, PTL

(* An SSCT that was chained leads to its anchor until its own instance      *)
(* takes it back (nsfsct_remove by name), under the same exception.         *)
THEOREM RegistrationsKept == Spec => []RetainedFound
<1>1. (~crossed => SInv) => RetainedFound
  BY DEF SInv, Registered, RetainedFound
<1> QED
  BY <1>1, SctInductive, PTL

=============================================================================

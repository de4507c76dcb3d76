------------------------- MODULE NsfSlotPoolProofs -------------------------
(***************************************************************************)
(* Theorems about NsfSlotPool, for every number of clients, slots, calls,  *)
(* deaths, restarts and stops.  Types hold always.  Everything else        *)
(* assumes that a pause of the STC outlasts the running part of a call     *)
(* (LongPauses) and that a stop or an adopting start pauses at least once  *)
(* (DrainMax). With that, a slot has one owner, the slot in service is     *)
(* left alone and an OK call gets its own answer.  The in-flight word is   *)
(* exact, and nothing is pulled from under a client, as long as no address *)
(* space has ended.  A request is dispatched once, and callers are told    *)
(* the truth, if adopting starts can classify the owners of the slots they *)
(* find.  The WAIT gate and the drain agree if the gate can classify       *)
(* owners too and no address space was re-created.                         *)
(***************************************************************************)
EXTENDS NsfSlotPoolInv, FiniteSetTheorems, TLAPS

USE DEF common, anchor, pool, routine, tasks, world, instance, service,
        scratch, locals, history, stc

-----------------------------------------------------------------------------
(* Types.                                                                    *)

(* The literals the code stores are of the types they are stored in. *)
LEMMA Literals ==
    /\ NoImage \in Images
    /\ {FREE, CLAIMED, PENDING, HELD, DONE} \subseteq SlotStates
    /\ {LIVE, DEAD, UNKNOWN} \subseteq Verdicts
    /\ 1 \in Slots
BY BoundsAssumption DEF NoImage, Images, SlotStates, Verdicts, Slots

(* Images built from parts of images are images. *)
LEMMA ImageParts ==
    \A i \in Images, j \in Images :
        /\ i.req \in Requests \cup {NULL}
        /\ [req |-> i.req, ans |-> j.ans] \in Images
        /\ [req |-> i.req, ans |-> i.req] \in Images
        /\ i = [req |-> i.req, ans |-> i.ans]
BY DEF Images

(* What a client stages is an image. *)
LEMMA StagedImage ==
    \A c \in Clients, n \in 1 .. MaxCalls :
        [req |-> <<c, n>>, ans |-> NULL] \in Images
BY DEF Images, Requests

(* Counting a request keeps a table of counts one. *)
LEMMA CountType ==
    ASSUME NEW S, NEW f \in [S -> Nat], NEW x
    PROVE  [f EXCEPT ![x] = @ + 1] \in [S -> Nat]
<1>1. CASE x \in S
  BY <1>1
<1>2. CASE x \notin S
  <2>1. [f EXCEPT ![x] = @ + 1] = f
    BY <1>2
  <2> QED
    BY <2>1
<1> QED
  BY <1>1, <1>2

LEMMA PendingType == Pending \in BOOLEAN
BY DEF Pending

LEMMA VerdictType == \A s : ClientState(s) \subseteq Verdicts
BY DEF ClientState, nsfreqx_classify, Verdicts, LIVE, DEAD, UNKNOWN

(* Every step keeps the flags Boolean. *)
LEMMA FlagStep ==
    ASSUME FlagTypes, Next
    PROVE  FlagTypes'
<1> USE DEF FlagTypes, Go, Goto, OutOfService, FreshenLocals, ServerEnds
<1>1. ASSUME NEW c \in Clients, Enter(c) PROVE FlagTypes' BY <1>1 DEF Enter
<1>2. ASSUME NEW c \in Clients, CheckAnchor(c) PROVE FlagTypes'
  BY <1>2 DEF CheckAnchor
<1>3. ASSUME NEW c \in Clients, BadAnchor(c) PROVE FlagTypes'
  BY <1>3 DEF BadAnchor
<1>4. ASSUME NEW c \in Clients, Claim(c) PROVE FlagTypes' BY <1>4 DEF Claim
<1>5. ASSUME NEW c \in Clients, ClaimNext(c) PROVE FlagTypes'
  BY <1>5 DEF ClaimNext
<1>6. ASSUME NEW c \in Clients, PoolFull(c) PROVE FlagTypes'
  BY <1>6 DEF PoolFull
<1>7. ASSUME NEW c \in Clients, CountIn(c) PROVE FlagTypes'
  BY <1>7 DEF CountIn
<1>8. ASSUME NEW c \in Clients, Stage(c) PROVE FlagTypes' BY <1>8 DEF Stage
<1>9. ASSUME NEW c \in Clients, Publish(c) PROVE FlagTypes'
  BY <1>9 DEF Publish
<1>10. ASSUME NEW c \in Clients, PostServer(c) PROVE FlagTypes'
  BY <1>10 DEF PostServer
<1>11. ASSUME NEW c \in Clients, PostFails(c) PROVE FlagTypes'
  BY <1>11 DEF PostFails
<1>12. ASSUME NEW c \in Clients, WakeServed(c) PROVE FlagTypes'
  BY <1>12 DEF WakeServed
<1>13. ASSUME NEW c \in Clients, WakeQuiesced(c) PROVE FlagTypes'
  BY <1>13 DEF WakeQuiesced
<1>14. ASSUME NEW c \in Clients, CopyOut(c) PROVE FlagTypes'
  BY <1>14 DEF CopyOut
<1>15. ASSUME NEW c \in Clients, Release(c) PROVE FlagTypes'
  BY <1>15 DEF Release
<1>16. ASSUME NEW c \in Clients, CountOut(c) PROVE FlagTypes'
  BY <1>16 DEF CountOut
<1>17. ASSUME NEW c \in Clients, Die(c) PROVE FlagTypes' BY <1>17 DEF Die
<1>18. ASSUME NEW c \in Clients, Reborn(c) PROVE FlagTypes'
  BY <1>18 DEF Reborn
<1>19. CASE Pass BY <1>19, PendingType DEF Pass
<1>20. CASE Sleep \/ Wake \/ PassOther BY <1>20, PendingType DEF Sleep, Wake, PassOther
<1>21. CASE Reset BY <1>21 DEF Reset
<1>22. CASE Look BY <1>22 DEF Look
<1>23. CASE ScanMiss BY <1>23 DEF ScanMiss
<1>24. CASE ExecEnd BY <1>24 DEF ExecEnd
<1>25. CASE ExecComplete BY <1>25 DEF ExecComplete
<1>26. CASE Complete BY <1>26 DEF Complete
<1>27. CASE MarkHeld BY <1>27 DEF MarkHeld
<1>28. CASE MarkDone BY <1>28 DEF MarkDone
<1>29. CASE Reply BY <1>29 DEF Reply
<1>30. CASE ScanHit BY <1>30 DEF ScanHit
<1>31. CASE ActHold BY <1>31 DEF ActHold
<1>32. CASE ActDispatch BY <1>32 DEF ActDispatch
<1>33. CASE ReapClear BY <1>33 DEF ReapClear
<1>34. CASE ReapRead BY <1>34 DEF ReapRead
<1>35. CASE ReapWrite BY <1>35 DEF ReapWrite
<1>36. CASE StopBegin BY <1>36 DEF StopBegin
<1>37. CASE StopClear BY <1>37 DEF StopClear
<1>38. CASE StopPoll BY <1>38 DEF StopPoll
<1>39. CASE StopWake BY <1>39 DEF StopWake
<1>40. CASE StopPause BY <1>40 DEF StopPause
<1>41. CASE StopSettle BY <1>41 DEF StopSettle
<1>42. CASE StopFree BY <1>42 DEF StopFree
<1>43. CASE StopRetain BY <1>43 DEF StopRetain
<1>44. CASE Abend BY <1>44 DEF Abend
<1>45. CASE AdoptFail BY <1>45 DEF AdoptFail
<1>46. CASE AdoptBegin BY <1>46 DEF AdoptBegin
<1>47. CASE AdoptStamp BY <1>47 DEF AdoptStamp
<1>48. CASE AdoptScrub BY <1>48 DEF AdoptScrub
<1>49. CASE AdoptSkip BY <1>49 DEF AdoptSkip
<1>50. CASE AdoptHold BY <1>50 DEF AdoptHold
<1>51. CASE AdoptLeave BY <1>51 DEF AdoptLeave
<1>52. CASE AdoptPost BY <1>52 DEF AdoptPost
<1>53. CASE AdoptNext BY <1>53 DEF AdoptNext
<1>54. CASE AdoptPoll BY <1>54 DEF AdoptPoll
<1>55. CASE AdoptPause BY <1>55 DEF AdoptPause
<1>56. CASE AdoptSettle BY <1>56 DEF AdoptSettle
<1>57. CASE AdoptRouter BY <1>57 DEF AdoptRouter
<1>58. CASE AdoptActive BY <1>58 DEF AdoptActive
<1>59. CASE AdoptSteal BY <1>59 DEF AdoptSteal
<1>60. CASE MarkReap BY <1>60 DEF MarkReap
<1>61. CASE ActReap BY <1>61 DEF ActReap
<1>62. CASE AdoptReap BY <1>62 DEF AdoptReap
<1> QED
  BY <1>1, <1>2, <1>3, <1>4, <1>5, <1>6, <1>7, <1>8, <1>9, <1>10, <1>11,
     <1>12, <1>13, <1>14, <1>15, <1>16, <1>17, <1>18, <1>19, <1>20, <1>21,
     <1>22, <1>23, <1>24, <1>25, <1>26, <1>27, <1>28, <1>29, <1>30, <1>31,
     <1>32, <1>33, <1>34, <1>35, <1>36, <1>37, <1>38, <1>39, <1>40, <1>41,
     <1>42, <1>43, <1>44, <1>45, <1>46, <1>47, <1>48, <1>49, <1>50, <1>51,
     <1>52, <1>53, <1>54, <1>55, <1>56, <1>57, <1>58, <1>59, <1>60, <1>61,
     <1>62
  DEF Next, ClientStep, Serve, Stop, Adopt

(* Reaping the slot in service keeps the types: it names a real slot. *)
LEMMA MarkReapTypes ==
    ASSUME DataTypes, LocalsOK, MarkReap
    PROVE  DataTypes' /\ LocalsOK'
<1>1. /\ UNCHANGED <<server, inflight, owner, img, router, tasks, world, instance,
                    verd, want, tmp, polls, disp, done>>
      /\ busy' = 0 /\ priv' = NoImage
  BY DEF MarkReap, OutOfService
<1>2. busy \in Slots
  BY DEF MarkReap, DataTypes, LocalsOK, Slots
<1>3. /\ req_state' \in [Slots -> SlotStates] /\ idx' \in Slots
      /\ back' \in {"look", "exec", "adopt_next"}
      /\ spc' \in {"reap_clear", "look"}
  BY <1>2 DEF MarkReap, ReapStart, DataTypes, Goto, SlotStates, CLAIMED
<1>4. DataTypes'
  BY <1>1, <1>3, Literals, BoundsAssumption
  DEF DataTypes, ServerPcs, ServePcs, ReapPcs
<1>5. LocalsOK'
  BY <1>1, <1>3 DEF LocalsOK, Mine
<1> QED
  BY <1>4, <1>5

(* Every step keeps the other types and the facts they rest on. *)
LEMMA DataStep ==
    ASSUME DataTypes, LocalsOK, Next
    PROVE  DataTypes' /\ LocalsOK'
<1> USE BoundsAssumption, Literals DEF DataTypes, LocalsOK, Mine, Go, Goto,
        Slots, ClientPcs, OwnerPcs, RcCodes, ServerPcs, ServePcs, ReapPcs,
        StopPcs, AdoptPcs, OutOfService, FreshenLocals, ServerEnds, NextSlot,
        nsfreqx_result_out, nsfreqx_dispatch_in
<1>1. ASSUME NEW c \in Clients, Enter(c) PROVE DataTypes' /\ LocalsOK'
  BY <1>1 DEF Enter
<1>2. ASSUME NEW c \in Clients, CheckAnchor(c) PROVE DataTypes' /\ LocalsOK'
  BY <1>2 DEF CheckAnchor
<1>3. ASSUME NEW c \in Clients, BadAnchor(c) PROVE DataTypes' /\ LocalsOK'
  BY <1>3 DEF BadAnchor
<1>4. ASSUME NEW c \in Clients, Claim(c) PROVE DataTypes' /\ LocalsOK'
  BY <1>4 DEF Claim
<1>5. ASSUME NEW c \in Clients, ClaimNext(c) PROVE DataTypes' /\ LocalsOK'
  BY <1>5 DEF ClaimNext
<1>6. ASSUME NEW c \in Clients, PoolFull(c) PROVE DataTypes' /\ LocalsOK'
  BY <1>6 DEF PoolFull
<1>7. ASSUME NEW c \in Clients, CountIn(c) PROVE DataTypes' /\ LocalsOK'
  BY <1>7 DEF CountIn
<1>8. ASSUME NEW c \in Clients, Stage(c) PROVE DataTypes' /\ LocalsOK'
  BY <1>8, StagedImage DEF Stage
<1>9. ASSUME NEW c \in Clients, Publish(c) PROVE DataTypes' /\ LocalsOK'
  BY <1>9 DEF Publish
<1>10. ASSUME NEW c \in Clients, PostServer(c) PROVE DataTypes' /\ LocalsOK'
  BY <1>10 DEF PostServer
<1>11. ASSUME NEW c \in Clients, PostFails(c) PROVE DataTypes' /\ LocalsOK'
  BY <1>11 DEF PostFails
<1>12. ASSUME NEW c \in Clients, WakeServed(c) PROVE DataTypes' /\ LocalsOK'
  BY <1>12 DEF WakeServed
<1>13. ASSUME NEW c \in Clients, WakeQuiesced(c) PROVE DataTypes' /\ LocalsOK'
  BY <1>13 DEF WakeQuiesced
<1>14. ASSUME NEW c \in Clients, CopyOut(c) PROVE DataTypes' /\ LocalsOK'
  BY <1>14 DEF CopyOut
<1>15. ASSUME NEW c \in Clients, Release(c) PROVE DataTypes' /\ LocalsOK'
  BY <1>15 DEF Release
<1>16. ASSUME NEW c \in Clients, CountOut(c) PROVE DataTypes' /\ LocalsOK'
  BY <1>16 DEF CountOut
<1>17. ASSUME NEW c \in Clients, Die(c) PROVE DataTypes' /\ LocalsOK'
  BY <1>17 DEF Die
<1>18. ASSUME NEW c \in Clients, Reborn(c) PROVE DataTypes' /\ LocalsOK'
  BY <1>18 DEF Reborn
<1>19. CASE Pass BY <1>19 DEF Pass
<1>20. CASE Sleep \/ Wake \/ PassOther BY <1>20 DEF Sleep, Wake, PassOther
<1>21. CASE Reset BY <1>21 DEF Reset
<1>22. CASE Look BY <1>22 DEF Look
<1>23. CASE ScanMiss BY <1>23 DEF ScanMiss
<1>24. CASE ExecEnd BY <1>24 DEF ExecEnd
<1>25. CASE ExecComplete BY <1>25, ImageParts DEF ExecComplete
<1>26. CASE Complete BY <1>26, ImageParts, VerdictType DEF Complete
<1>27. CASE MarkHeld BY <1>27 DEF MarkHeld
<1>28. CASE MarkDone BY <1>28 DEF MarkDone
<1>29. CASE Reply BY <1>29 DEF Reply
<1>30. CASE ScanHit BY <1>30, VerdictType DEF ScanHit
<1>31. CASE ActHold BY <1>31 DEF ActHold
<1>32. CASE ActDispatch
  <2>1. disp' \in [Requests -> Nat]
    BY <1>32, CountType DEF ActDispatch
  <2>2. priv' \in Images /\ busy' \in 0 .. NSlots
    BY <1>32 DEF ActDispatch
  <2> QED
    BY <1>32, <2>1, <2>2 DEF ActDispatch
<1>33. CASE ReapClear BY <1>33 DEF ReapClear
<1>34. CASE ReapRead BY <1>34 DEF ReapRead
<1>35. CASE ReapWrite BY <1>35 DEF ReapWrite
<1>36. CASE StopBegin BY <1>36 DEF StopBegin
<1>37. CASE StopClear BY <1>37 DEF StopClear
<1>38. CASE StopPoll BY <1>38 DEF StopPoll
<1>39. CASE StopWake BY <1>39 DEF StopWake
<1>40. CASE StopPause BY <1>40 DEF StopPause
<1>41. CASE StopSettle BY <1>41 DEF StopSettle
<1>42. CASE StopFree BY <1>42 DEF StopFree
<1>43. CASE StopRetain BY <1>43 DEF StopRetain
<1>44. CASE Abend BY <1>44 DEF Abend
<1>45. CASE AdoptFail BY <1>45 DEF AdoptFail
<1>46. CASE AdoptBegin BY <1>46 DEF AdoptBegin
<1>47. CASE AdoptStamp BY <1>47 DEF AdoptStamp
<1>48. CASE AdoptScrub BY <1>48, VerdictType DEF AdoptScrub
<1>49. CASE AdoptSkip BY <1>49 DEF AdoptSkip
<1>50. CASE AdoptHold BY <1>50 DEF AdoptHold
<1>51. CASE AdoptLeave BY <1>51 DEF AdoptLeave
<1>52. CASE AdoptPost BY <1>52 DEF AdoptPost
<1>53. CASE AdoptNext BY <1>53 DEF AdoptNext
<1>54. CASE AdoptPoll BY <1>54 DEF AdoptPoll
<1>55. CASE AdoptPause BY <1>55 DEF AdoptPause
<1>56. CASE AdoptSettle BY <1>56 DEF AdoptSettle
<1>57. CASE AdoptRouter BY <1>57 DEF AdoptRouter
<1>58. CASE AdoptActive BY <1>58 DEF AdoptActive
<1>59. CASE AdoptSteal BY <1>59 DEF AdoptSteal
<1>60. CASE MarkReap
  BY <1>60, MarkReapTypes
<1>61. CASE ActReap BY <1>61 DEF ActReap, ReapStart
<1>62. CASE AdoptReap BY <1>62 DEF AdoptReap, ReapStart
<1> QED
  BY <1>1, <1>2, <1>3, <1>4, <1>5, <1>6, <1>7, <1>8, <1>9, <1>10, <1>11,
     <1>12, <1>13, <1>14, <1>15, <1>16, <1>17, <1>18, <1>19, <1>20, <1>21,
     <1>22, <1>23, <1>24, <1>25, <1>26, <1>27, <1>28, <1>29, <1>30, <1>31,
     <1>32, <1>33, <1>34, <1>35, <1>36, <1>37, <1>38, <1>39, <1>40, <1>41,
     <1>42, <1>43, <1>44, <1>45, <1>46, <1>47, <1>48, <1>49, <1>50, <1>51,
     <1>52, <1>53, <1>54, <1>55, <1>56, <1>57, <1>58, <1>59, <1>60, <1>61,
     <1>62
  DEF Next, ClientStep, Serve, Stop, Adopt

(* The initial state has the right types. *)
LEMMA InitTypes == Init => TypeOK /\ LocalsOK
<1> USE BoundsAssumption, Literals DEF Init
<1>1. Init => FlagTypes
  <2> SUFFICES ASSUME Init PROVE FlagTypes
    OBVIOUS
  <2>1. reply_ecb \in [Slots -> BOOLEAN]
    OBVIOUS
  <2>2. /\ eye \in BOOLEAN /\ active \in BOOLEAN /\ ecbptr \in BOOLEAN
        /\ svc \in BOOLEAN /\ wake \in BOOLEAN
    OBVIOUS
  <2>3. privecb \in BOOLEAN /\ posted \in BOOLEAN /\ quiet \in BOOLEAN
    BY DEF Idle, FreshLocals
  <2>4. probe \in BOOLEAN /\ did \in BOOLEAN
    OBVIOUS
  <2> QED
    BY <2>1, <2>2, <2>3, <2>4 DEF FlagTypes
<1>2. Init => DataTypes /\ LocalsOK
  BY DEF DataTypes, LocalsOK, Idle, FreshLocals, Slots, ClientPcs, OwnerPcs,
         RcCodes, ServerPcs, ServePcs
<1> QED
  BY <1>1, <1>2 DEF TypeOK

(* Every variable keeps its type: in particular the cursor of a client      *)
(* that owns a slot and g_busy_slot while a request is completed name real  *)
(* slots, and the reaper never takes the in-flight word below zero.          *)
THEOREM TypeCorrect == Spec => []TypeOK
<1> DEFINE TypeInv == FlagTypes /\ DataTypes /\ LocalsOK
<1>1. Init => TypeInv
  BY InitTypes DEF TypeOK
<1>2. TypeInv /\ [Next]_vars => TypeInv'
  <2> SUFFICES ASSUME TypeInv, [Next]_vars PROVE TypeInv'
    OBVIOUS
  <2>1. CASE Next
    BY <2>1, FlagStep, DataStep
  <2>2. CASE UNCHANGED vars
    BY <2>2 DEF vars, FlagTypes, DataTypes, LocalsOK, Mine
  <2> QED
    BY <2>1, <2>2
<1>3. TypeInv => TypeOK
  BY DEF TypeOK
<1> QED
  BY <1>1, <1>2, <1>3, PTL DEF Spec

-----------------------------------------------------------------------------
(* What the reaper does to the pool.                                        *)

Reap == MarkReap \/ ActReap \/ AdoptReap

(* The verdict DEAD is right: no task owns a slot whose recorded owner has  *)
(* ended, though ASID and ASCB may be in use again by the time it is read.  *)
LEMMA DeadOwner ==
    ASSUME OwnerInv, NEW s \in Slots, DEAD \in ClientState(s)
    PROVE  Unowned(s)
BY ClientsAssumption
DEF OwnerInv, TypeOK, DataTypes, AsvtOK, ExclusiveOwner, Unowned, Owns, OwnerPcs,
    ClientState, nsfreqx_classify, Mine, LIVE, DEAD, UNKNOWN

(* What is reaped is a doomed slot, and not the one that stays in service. *)
LEMMA ReapDoomed ==
    ASSUME OwnerInv, Reap
    PROVE  \E s \in Slots, next \in {"look", "exec", "adopt_next"} :
              /\ Doomed(s) /\ ReapStart(s, next) /\ (busy' # 0 => busy' # s)
              /\ Serving => next # "adopt_next"
              /\ ~Serving => next = "adopt_next"
<1> USE DEF OwnerInv, TypeOK, DataTypes, ReaperOK, Slots, Serving, ServePcs,
        ReapPcs
<1>1. CASE MarkReap
  <2>1. Doomed(busy) /\ busy \in Slots
    BY <1>1 DEF MarkReap, LocalsOK
  <2> QED
    BY <1>1, <2>1 DEF MarkReap, OutOfService
<1>2. CASE ActReap
  <2>1. Doomed(idx) /\ busy # idx
    BY <1>2 DEF ActReap, ServiceOK
  <2> QED
    BY <1>2, <2>1 DEF ActReap
<1>3. CASE AdoptReap
  <2>1. verd = DEAD
    BY <1>3 DEF AdoptReap, AdoptAct, nsfreqx_adopt_action
  <2>2. Doomed(idx) /\ busy = 0
    BY <1>3, <2>1 DEF AdoptReap, AnchorOK, AdoptPcs
  <2> QED
    BY <1>3, <2>2 DEF AdoptReap
<1> QED
  BY <1>1, <1>2, <1>3 DEF Reap

(* A reap changes the state of a slot no task owns, and nothing else a task *)
(* can see.                                                                  *)
LEMMA ReapEffect ==
    ASSUME OwnerInv, Reap
    PROVE  /\ UNCHANGED <<anchor, owner, img, reply_ecb, tasks, world, svc, gen,
                         verd, want, polls, disp>>
           /\ \A c \in Clients : Owns(c) => req_state'[Mine(c)] = req_state[Mine(c)]
           /\ busy' # 0 => /\ req_state'[busy] = req_state[busy]
                           /\ UNCHANGED <<busy, priv, privecb>>
           /\ spc' \in {"reap_clear", "look", "exec", "adopt_next"}
           /\ spc' = "reap_clear" => /\ idx' \in Slots /\ Unowned(idx')
                                     /\ req_state'[idx'] = CLAIMED
           /\ Serving' <=> Serving
           /\ \A t \in Slots : req_state'[t] \in {req_state[t], CLAIMED}
<1>1. PICK s \in Slots, next \in {"look", "exec", "adopt_next"} :
              /\ Doomed(s) /\ ReapStart(s, next) /\ (busy' # 0 => busy' # s)
              /\ Serving => next # "adopt_next"
              /\ ~Serving => next = "adopt_next"
  BY ReapDoomed
<1>2. /\ UNCHANGED <<anchor, owner, img, reply_ecb, tasks, world, svc, gen, verd,
                    want, polls, disp>>
      /\ busy' # 0 => UNCHANGED <<busy, priv, privecb>>
  BY DEF Reap, MarkReap, ActReap, AdoptReap, OutOfService
<1>3. \A c \in Clients : Owns(c) => Mine(c) \in Slots /\ Mine(c) # s
  BY <1>1 DEF Doomed, Unowned, OwnerInv, TypeOK, DataTypes, LocalsOK, Owns, Mine,
              Slots
<1>4. \A t \in Slots \ {s} : req_state'[t] = req_state[t]
  BY <1>1 DEF ReapStart, OwnerInv, TypeOK, DataTypes
<1>5. req_state'[s] \in {req_state[s], CLAIMED}
  BY <1>1 DEF ReapStart, OwnerInv, TypeOK, DataTypes
<1>6. busy \in 0 .. NSlots
  BY DEF OwnerInv, TypeOK, DataTypes
<1>7. \/ spc' = next
      \/ /\ spc' = "reap_clear" /\ idx' = s /\ req_state'[s] = CLAIMED
         /\ back' = next
  BY <1>1 DEF ReapStart, Goto, OwnerInv, TypeOK, DataTypes
<1>8. Serving' <=> Serving
  BY <1>1, <1>7 DEF Serving, ServePcs, ReapPcs
<1> QED
  BY <1>1, <1>2, <1>3, <1>4, <1>5, <1>6, <1>7, <1>8 DEF Doomed, Slots

(* So a reap keeps the invariant's parts. *)
LEMMA ReapKeeps ==
    ASSUME OwnerInv, Reap
    PROVE  /\ ExclusiveOwner' /\ OwnerStates' /\ ReaperOK' /\ RestOK'
           /\ PostedOK' /\ ServiceOK' /\ AnchorOK' /\ AsvtOK'
<1> USE ReapEffect DEF Mine, Owns, OwnerPcs, OwnerInv
<1>1. ExclusiveOwner' /\ OwnerStates'
  BY DEF ExclusiveOwner, OwnerStates
<1>2. ReaperOK'
  BY DEF ReaperOK, Unowned
<1>3. RestOK'
  BY DEF RestOK, Settled, Settling
<1>4. PostedOK'
  BY DEF PostedOK
<1>5. ServiceOK'
  BY DEF ServiceOK, Reap, MarkReap, ActReap, AdoptReap, Serving, ServePcs, ReapPcs
<1>6. AnchorOK'
  <2>1. Serving \/ spc = "adopt_act"
    BY DEF Reap, MarkReap, ActReap, AdoptReap, Serving, ServePcs
  <2>2. polls = 0
    BY <2>1 DEF AnchorOK, AdoptPcs, Settled, Settling
  <2>3. ~Serving => ~svc /\ eye /\ ecbptr /\ server = gen /\ busy' = 0
    BY <2>1 DEF AnchorOK, AdoptPcs
  <2>4. Serving => eye /\ active /\ ecbptr /\ server = gen
    BY DEF AnchorOK
  <2>5. Serving' \/ spc' \in {"reap_clear", "adopt_next"}
    BY DEF Serving, ServePcs
  <2>6. eye' = eye /\ active' = active /\ ecbptr' = ecbptr /\ svc' = svc
    OBVIOUS
  <2>7. server' = server /\ gen' = gen /\ polls' = polls
    OBVIOUS
  <2>8. CASE Serving
    <3>1. /\ Serving' /\ spc' \in {"reap_clear", "look", "exec"}
          /\ ~(spc' \in ReapPcs /\ back' = "adopt_next")
      BY <2>8 DEF Serving, ServePcs, ReapPcs
    <3> QED
      BY <2>2, <2>4, <2>6, <2>7, <2>8, <3>1 DEF AnchorOK, AdoptPcs
  <2>9. CASE ~Serving
    <3>1. ~Serving' /\ spc' \in {"reap_clear", "adopt_next"}
      BY <2>5, <2>9
    <3> QED
      BY <2>2, <2>3, <2>6, <2>7, <2>9, <3>1 DEF AnchorOK, AdoptPcs, ReapPcs
  <2> QED
    BY <2>8, <2>9
<1>7. AsvtOK'
  BY DEF AsvtOK
<1> QED
  BY <1>1, <1>2, <1>3, <1>4, <1>5, <1>6, <1>7

-----------------------------------------------------------------------------
(* The inductive invariant, part by part: its part about owners first.     *)

(* Most steps of the STC leave the slots' states and owners alone. *)
LEMMA QuietSteps ==
    ASSUME Pass \/ Sleep \/ Wake \/ PassOther \/ Reset \/ Look \/ ScanMiss \/ ExecEnd \/
           ExecComplete \/ Complete \/ Reply \/ ScanHit \/ ActDispatch \/
           ReapRead \/ ReapWrite \/ StopBegin \/ StopClear \/ StopPoll \/
           StopWake \/ StopPause \/ StopSettle \/ StopFree \/ StopRetain \/
           Abend \/ AdoptFail \/ AdoptBegin \/ AdoptStamp \/ AdoptScrub \/
           AdoptSkip \/ AdoptLeave \/ AdoptPost \/ AdoptNext \/ AdoptPoll \/
           AdoptPause \/ AdoptSettle \/ AdoptRouter \/ AdoptActive \/
           AdoptSteal
    PROVE  UNCHANGED <<req_state, owner, pc, cs>>
BY
DEF Pass, Sleep, Wake, PassOther, Reset, Look, ScanMiss, ExecEnd, ExecComplete, Complete,
    Reply, ScanHit, ActDispatch, ReapRead, ReapWrite, StopBegin, StopClear,
    StopPoll, StopWake, StopPause, StopSettle, StopFree, StopRetain, Abend,
    AdoptFail, AdoptBegin, AdoptStamp, AdoptScrub, AdoptSkip, AdoptLeave,
    AdoptPost, AdoptNext, AdoptPoll, AdoptPause, AdoptSettle, AdoptRouter,
    AdoptActive, AdoptSteal, ServerEnds

(* The ASVT follows the deaths and re-creations of address spaces. *)
LEMMA AsvtStep ==
    ASSUME OwnerInv, Next
    PROVE  AsvtOK'
<1> USE BoundsAssumption, ClientsAssumption DEF OwnerInv, TypeOK, DataTypes,
        Mine, Go, Goto, Slots, ClientPcs, FREE, CLAIMED, PENDING, HELD, DONE,
        LIVE, DEAD, UNKNOWN, SlotStates, NextSlot, ServerEnds, FreshenLocals,
        OutOfService, AsvtOK
<1>1. ASSUME NEW c \in Clients, Enter(c) PROVE AsvtOK' BY <1>1 DEF Enter
<1>2. ASSUME NEW c \in Clients, CheckAnchor(c) PROVE AsvtOK'
  BY <1>2 DEF CheckAnchor
<1>3. ASSUME NEW c \in Clients, BadAnchor(c) PROVE AsvtOK'
  BY <1>3 DEF BadAnchor
<1>4. ASSUME NEW c \in Clients, Claim(c) PROVE AsvtOK' BY <1>4 DEF Claim
<1>5. ASSUME NEW c \in Clients, ClaimNext(c) PROVE AsvtOK'
  BY <1>5 DEF ClaimNext
<1>6. ASSUME NEW c \in Clients, PoolFull(c) PROVE AsvtOK' BY <1>6 DEF PoolFull
<1>7. ASSUME NEW c \in Clients, CountIn(c) PROVE AsvtOK' BY <1>7 DEF CountIn
<1>8. ASSUME NEW c \in Clients, Stage(c) PROVE AsvtOK' BY <1>8 DEF Stage
<1>9. ASSUME NEW c \in Clients, Publish(c) PROVE AsvtOK' BY <1>9 DEF Publish
<1>10. ASSUME NEW c \in Clients, PostServer(c) PROVE AsvtOK'
  BY <1>10 DEF PostServer
<1>11. ASSUME NEW c \in Clients, PostFails(c) PROVE AsvtOK'
  BY <1>11 DEF PostFails
<1>12. ASSUME NEW c \in Clients, WakeServed(c) PROVE AsvtOK'
  BY <1>12 DEF WakeServed
<1>13. ASSUME NEW c \in Clients, WakeQuiesced(c) PROVE AsvtOK'
  BY <1>13 DEF WakeQuiesced
<1>14. ASSUME NEW c \in Clients, CopyOut(c) PROVE AsvtOK' BY <1>14 DEF CopyOut
<1>15. ASSUME NEW c \in Clients, Release(c) PROVE AsvtOK' BY <1>15 DEF Release
<1>16. ASSUME NEW c \in Clients, CountOut(c) PROVE AsvtOK'
  BY <1>16 DEF CountOut
<1>17. ASSUME NEW c \in Clients, Die(c) PROVE AsvtOK' BY <1>17 DEF Die
<1>18. ASSUME NEW c \in Clients, Reborn(c) PROVE AsvtOK' BY <1>18 DEF Reborn
<1>19. CASE Pass \/ Sleep \/ Wake \/ PassOther \/ Reset \/ Look \/ ScanMiss \/ ExecEnd \/
          ExecComplete \/ Complete \/ MarkHeld \/ MarkDone \/ Reply \/ ScanHit
          \/ ActHold \/ ActDispatch \/ ReapClear \/ ReapRead \/ ReapWrite
  <2>1. CASE Pass BY <2>1 DEF Pass
  <2>2. CASE Sleep \/ Wake \/ PassOther BY <2>2 DEF Sleep, Wake, PassOther
  <2>3. CASE Reset BY <2>3 DEF Reset
  <2>4. CASE Look BY <2>4 DEF Look
  <2>5. CASE ScanMiss BY <2>5 DEF ScanMiss
  <2>6. CASE ExecEnd BY <2>6 DEF ExecEnd
  <2>7. CASE ExecComplete BY <2>7 DEF ExecComplete
  <2>8. CASE Complete BY <2>8 DEF Complete
  <2>9. CASE MarkHeld BY <2>9 DEF MarkHeld
  <2>10. CASE MarkDone BY <2>10 DEF MarkDone
  <2>11. CASE Reply BY <2>11 DEF Reply
  <2>12. CASE ScanHit BY <2>12 DEF ScanHit
  <2>13. CASE ActHold BY <2>13 DEF ActHold
  <2>14. CASE ActDispatch BY <2>14 DEF ActDispatch
  <2>15. CASE ReapClear BY <2>15 DEF ReapClear
  <2>16. CASE ReapRead BY <2>16 DEF ReapRead
  <2>17. CASE ReapWrite BY <2>17 DEF ReapWrite
  <2> QED
    BY <1>19, <2>1, <2>2, <2>3, <2>4, <2>5, <2>6, <2>7, <2>8, <2>9, <2>10,
       <2>11, <2>12, <2>13, <2>14, <2>15, <2>16, <2>17
<1>20. CASE StopBegin \/ StopClear \/ StopPoll \/ StopWake \/ StopPause \/
          StopSettle \/ StopFree \/ StopRetain \/ Abend \/ AdoptFail \/
          AdoptBegin \/ AdoptStamp \/ AdoptScrub \/ AdoptSkip \/ AdoptHold \/
          AdoptLeave \/ AdoptPost \/ AdoptNext \/ AdoptPoll \/ AdoptPause \/
          AdoptSettle \/ AdoptRouter \/ AdoptActive \/ AdoptSteal
  <2>1. CASE StopBegin BY <2>1 DEF StopBegin
  <2>2. CASE StopClear BY <2>2 DEF StopClear
  <2>3. CASE StopPoll BY <2>3 DEF StopPoll
  <2>4. CASE StopWake BY <2>4 DEF StopWake
  <2>5. CASE StopPause BY <2>5 DEF StopPause
  <2>6. CASE StopSettle BY <2>6 DEF StopSettle
  <2>7. CASE StopFree BY <2>7 DEF StopFree
  <2>8. CASE StopRetain BY <2>8 DEF StopRetain
  <2>9. CASE Abend BY <2>9 DEF Abend
  <2>10. CASE AdoptFail BY <2>10 DEF AdoptFail
  <2>11. CASE AdoptBegin BY <2>11 DEF AdoptBegin
  <2>12. CASE AdoptStamp BY <2>12 DEF AdoptStamp
  <2>13. CASE AdoptScrub BY <2>13 DEF AdoptScrub
  <2>14. CASE AdoptSkip BY <2>14 DEF AdoptSkip
  <2>15. CASE AdoptHold BY <2>15 DEF AdoptHold
  <2>16. CASE AdoptLeave BY <2>16 DEF AdoptLeave
  <2>17. CASE AdoptPost BY <2>17 DEF AdoptPost
  <2>18. CASE AdoptNext BY <2>18 DEF AdoptNext
  <2>19. CASE AdoptPoll BY <2>19 DEF AdoptPoll
  <2>20. CASE AdoptPause BY <2>20 DEF AdoptPause
  <2>21. CASE AdoptSettle BY <2>21 DEF AdoptSettle
  <2>22. CASE AdoptRouter BY <2>22 DEF AdoptRouter
  <2>23. CASE AdoptActive BY <2>23 DEF AdoptActive
  <2>24. CASE AdoptSteal BY <2>24 DEF AdoptSteal
  <2> QED
    BY <1>20, <2>1, <2>2, <2>3, <2>4, <2>5, <2>6, <2>7, <2>8, <2>9, <2>10,
       <2>11, <2>12, <2>13, <2>14, <2>15, <2>16, <2>17, <2>18, <2>19, <2>20,
       <2>21, <2>22, <2>23, <2>24
<1>21. CASE Reap
  BY <1>21, ReapKeeps
<1> QED
  BY <1>1, <1>2, <1>3, <1>4, <1>5, <1>6, <1>7, <1>8, <1>9, <1>10, <1>11,
     <1>12, <1>13, <1>14, <1>15, <1>16, <1>17, <1>18, <1>19, <1>20, <1>21
  DEF Next, ClientStep, Serve, Stop, Adopt, Reap

(* No step gives a slot a second owner or frees it under its owner. *)
LEMMA OwnerStep ==
    ASSUME OwnerInv, Next
    PROVE  ExclusiveOwner'
<1> USE BoundsAssumption, ClientsAssumption DEF OwnerInv, TypeOK, DataTypes,
        Mine, Go, Goto, Slots, ClientPcs, FREE, CLAIMED, PENDING, HELD, DONE,
        LIVE, DEAD, UNKNOWN, SlotStates, NextSlot, ServerEnds, FreshenLocals,
        OutOfService, ExclusiveOwner, Owns, OwnerPcs, LocalsOK, ReaperOK,
        OwnerStates, AnchorOK, ServiceOK, Unowned, Doomed
<1>1. ASSUME NEW c \in Clients, Enter(c) PROVE ExclusiveOwner'
  BY <1>1 DEF Enter
<1>2. ASSUME NEW c \in Clients, CheckAnchor(c) PROVE ExclusiveOwner'
  BY <1>2 DEF CheckAnchor
<1>3. ASSUME NEW c \in Clients, BadAnchor(c) PROVE ExclusiveOwner'
  BY <1>3 DEF BadAnchor
<1>4. ASSUME NEW c \in Clients, Claim(c) PROVE ExclusiveOwner'
  BY <1>4 DEF Claim
<1>5. ASSUME NEW c \in Clients, ClaimNext(c) PROVE ExclusiveOwner'
  BY <1>5 DEF ClaimNext
<1>6. ASSUME NEW c \in Clients, PoolFull(c) PROVE ExclusiveOwner'
  BY <1>6 DEF PoolFull
<1>7. ASSUME NEW c \in Clients, CountIn(c) PROVE ExclusiveOwner'
  BY <1>7 DEF CountIn
<1>8. ASSUME NEW c \in Clients, Stage(c) PROVE ExclusiveOwner'
  BY <1>8 DEF Stage
<1>9. ASSUME NEW c \in Clients, Publish(c) PROVE ExclusiveOwner'
  BY <1>9 DEF Publish
<1>10. ASSUME NEW c \in Clients, PostServer(c) PROVE ExclusiveOwner'
  BY <1>10 DEF PostServer
<1>11. ASSUME NEW c \in Clients, PostFails(c) PROVE ExclusiveOwner'
  BY <1>11 DEF PostFails
<1>12. ASSUME NEW c \in Clients, WakeServed(c) PROVE ExclusiveOwner'
  BY <1>12 DEF WakeServed
<1>13. ASSUME NEW c \in Clients, WakeQuiesced(c) PROVE ExclusiveOwner'
  BY <1>13 DEF WakeQuiesced
<1>14. ASSUME NEW c \in Clients, CopyOut(c) PROVE ExclusiveOwner'
  BY <1>14 DEF CopyOut
<1>15. ASSUME NEW c \in Clients, Release(c) PROVE ExclusiveOwner'
  BY <1>15 DEF Release
<1>16. ASSUME NEW c \in Clients, CountOut(c) PROVE ExclusiveOwner'
  BY <1>16 DEF CountOut
<1>17. ASSUME NEW c \in Clients, Die(c) PROVE ExclusiveOwner' BY <1>17 DEF Die
<1>18. ASSUME NEW c \in Clients, Reborn(c) PROVE ExclusiveOwner'
  BY <1>18 DEF Reborn
<1>19. CASE Pass \/ Sleep \/ Wake \/ PassOther \/ Reset \/ Look \/ ScanMiss \/ ExecEnd \/
          ExecComplete \/ Complete \/ Reply \/ ScanHit \/ ActDispatch \/
          ReapRead \/ ReapWrite \/ StopBegin \/ StopClear \/ StopPoll \/
          StopWake \/ StopPause \/ StopSettle \/ StopFree \/ StopRetain \/
          Abend \/ AdoptFail \/ AdoptBegin \/ AdoptStamp \/ AdoptScrub \/
          AdoptSkip \/ AdoptLeave \/ AdoptPost \/ AdoptNext \/ AdoptPoll \/
          AdoptPause \/ AdoptSettle \/ AdoptRouter \/ AdoptActive \/
          AdoptSteal
  BY <1>19, QuietSteps
<1>20. CASE MarkHeld BY <1>20 DEF MarkHeld
<1>21. CASE MarkDone BY <1>21 DEF MarkDone
<1>22. CASE ActHold BY <1>22 DEF ActHold
<1>23. CASE ReapClear BY <1>23 DEF ReapClear
<1>24. CASE AdoptHold BY <1>24 DEF AdoptHold
<1>25. CASE Reap
  BY <1>25, ReapKeeps
<1> QED
  BY <1>1, <1>2, <1>3, <1>4, <1>5, <1>6, <1>7, <1>8, <1>9, <1>10, <1>11,
     <1>12, <1>13, <1>14, <1>15, <1>16, <1>17, <1>18, <1>19, <1>20, <1>21,
     <1>22, <1>23, <1>24, <1>25
  DEF Next, ClientStep, Serve, Stop, Adopt, Reap

(* Nor changes the state of a slot against its owner's place. *)
LEMMA OwnerStatesStep ==
    ASSUME OwnerInv, Next
    PROVE  OwnerStates'
<1> USE BoundsAssumption, ClientsAssumption DEF OwnerInv, TypeOK, DataTypes,
        Mine, Go, Goto, Slots, ClientPcs, FREE, CLAIMED, PENDING, HELD, DONE,
        LIVE, DEAD, UNKNOWN, SlotStates, NextSlot, ServerEnds, FreshenLocals,
        OutOfService, OwnerStates, ExclusiveOwner, ReaperOK, ServiceOK,
        Unowned, Doomed, Owns, OwnerPcs, LocalsOK, Serving, ServePcs, ReapPcs,
        AdoptPcs, AnchorOK
<1>1. ASSUME NEW c \in Clients, Enter(c) PROVE OwnerStates' BY <1>1 DEF Enter
<1>2. ASSUME NEW c \in Clients, CheckAnchor(c) PROVE OwnerStates'
  BY <1>2 DEF CheckAnchor
<1>3. ASSUME NEW c \in Clients, BadAnchor(c) PROVE OwnerStates'
  BY <1>3 DEF BadAnchor
<1>4. ASSUME NEW c \in Clients, Claim(c) PROVE OwnerStates' BY <1>4 DEF Claim
<1>5. ASSUME NEW c \in Clients, ClaimNext(c) PROVE OwnerStates'
  BY <1>5 DEF ClaimNext
<1>6. ASSUME NEW c \in Clients, PoolFull(c) PROVE OwnerStates'
  BY <1>6 DEF PoolFull
<1>7. ASSUME NEW c \in Clients, CountIn(c) PROVE OwnerStates'
  BY <1>7 DEF CountIn
<1>8. ASSUME NEW c \in Clients, Stage(c) PROVE OwnerStates' BY <1>8 DEF Stage
<1>9. ASSUME NEW c \in Clients, Publish(c) PROVE OwnerStates'
  BY <1>9 DEF Publish
<1>10. ASSUME NEW c \in Clients, PostServer(c) PROVE OwnerStates'
  BY <1>10 DEF PostServer
<1>11. ASSUME NEW c \in Clients, PostFails(c) PROVE OwnerStates'
  BY <1>11 DEF PostFails
<1>12. ASSUME NEW c \in Clients, WakeServed(c) PROVE OwnerStates'
  BY <1>12 DEF WakeServed
<1>13. ASSUME NEW c \in Clients, WakeQuiesced(c) PROVE OwnerStates'
  BY <1>13 DEF WakeQuiesced
<1>14. ASSUME NEW c \in Clients, CopyOut(c) PROVE OwnerStates'
  BY <1>14 DEF CopyOut
<1>15. ASSUME NEW c \in Clients, Release(c) PROVE OwnerStates'
  BY <1>15 DEF Release
<1>16. ASSUME NEW c \in Clients, CountOut(c) PROVE OwnerStates'
  BY <1>16 DEF CountOut
<1>17. ASSUME NEW c \in Clients, Die(c) PROVE OwnerStates' BY <1>17 DEF Die
<1>18. ASSUME NEW c \in Clients, Reborn(c) PROVE OwnerStates'
  BY <1>18 DEF Reborn
<1>19. CASE Pass \/ Sleep \/ Wake \/ PassOther \/ Reset \/ Look \/ ScanMiss \/ ExecEnd \/
          ExecComplete \/ Complete \/ Reply \/ ScanHit \/ ActDispatch \/
          ReapRead \/ ReapWrite \/ StopBegin \/ StopClear \/ StopPoll \/
          StopWake \/ StopPause \/ StopSettle \/ StopFree \/ StopRetain \/
          Abend \/ AdoptFail \/ AdoptBegin \/ AdoptStamp \/ AdoptScrub \/
          AdoptSkip \/ AdoptLeave \/ AdoptPost \/ AdoptNext \/ AdoptPoll \/
          AdoptPause \/ AdoptSettle \/ AdoptRouter \/ AdoptActive \/
          AdoptSteal
  BY <1>19, QuietSteps
<1>20. CASE MarkHeld BY <1>20 DEF MarkHeld
<1>21. CASE MarkDone BY <1>21 DEF MarkDone
<1>22. CASE ActHold BY <1>22 DEF ActHold
<1>23. CASE ReapClear BY <1>23 DEF ReapClear
<1>24. CASE AdoptHold
  <2>1. want \in {PENDING, HELD}
    BY <1>24 DEF AdoptHold, AdoptAct, nsfreqx_adopt_action
  <2>2. CASE want = HELD
    BY <1>24, <2>2 DEF AdoptHold
  <2>3. CASE want = PENDING
    BY <1>24, <2>3 DEF AdoptHold
  <2> QED
    BY <2>1, <2>2, <2>3
<1>25. CASE Reap
  BY <1>25, ReapKeeps
<1> QED
  BY <1>1, <1>2, <1>3, <1>4, <1>5, <1>6, <1>7, <1>8, <1>9, <1>10, <1>11,
     <1>12, <1>13, <1>14, <1>15, <1>16, <1>17, <1>18, <1>19, <1>20, <1>21,
     <1>22, <1>23, <1>24, <1>25
  DEF Next, ClientStep, Serve, Stop, Adopt, Reap

(* What is about to be reaped stays without an owner until it is. *)
LEMMA ReaperStep ==
    ASSUME OwnerInv, Next
    PROVE  ReaperOK'
<1> USE BoundsAssumption, ClientsAssumption DEF OwnerInv, TypeOK, DataTypes,
        Mine, Go, Goto, Slots, ClientPcs, FREE, CLAIMED, PENDING, HELD, DONE,
        LIVE, DEAD, UNKNOWN, SlotStates, NextSlot, ServerEnds, FreshenLocals,
        OutOfService, ReaperOK, ExclusiveOwner, OwnerStates, ServiceOK,
        Unowned, Doomed, AsvtOK, ClientState, nsfreqx_classify,
        nsfreqx_reap_ok, Owns, OwnerPcs, LocalsOK, Serving, ServePcs, ReapPcs,
        AdoptPcs, AnchorOK
<1>1. ASSUME NEW c \in Clients, Enter(c) PROVE ReaperOK' BY <1>1 DEF Enter
<1>2. ASSUME NEW c \in Clients, CheckAnchor(c) PROVE ReaperOK'
  BY <1>2 DEF CheckAnchor
<1>3. ASSUME NEW c \in Clients, BadAnchor(c) PROVE ReaperOK'
  BY <1>3 DEF BadAnchor
<1>4. ASSUME NEW c \in Clients, Claim(c) PROVE ReaperOK' BY <1>4 DEF Claim
<1>5. ASSUME NEW c \in Clients, ClaimNext(c) PROVE ReaperOK'
  BY <1>5 DEF ClaimNext
<1>6. ASSUME NEW c \in Clients, PoolFull(c) PROVE ReaperOK'
  BY <1>6 DEF PoolFull
<1>7. ASSUME NEW c \in Clients, CountIn(c) PROVE ReaperOK' BY <1>7 DEF CountIn
<1>8. ASSUME NEW c \in Clients, Stage(c) PROVE ReaperOK' BY <1>8 DEF Stage
<1>9. ASSUME NEW c \in Clients, Publish(c) PROVE ReaperOK' BY <1>9 DEF Publish
<1>10. ASSUME NEW c \in Clients, PostServer(c) PROVE ReaperOK'
  BY <1>10 DEF PostServer
<1>11. ASSUME NEW c \in Clients, PostFails(c) PROVE ReaperOK'
  BY <1>11 DEF PostFails
<1>12. ASSUME NEW c \in Clients, WakeServed(c) PROVE ReaperOK'
  BY <1>12 DEF WakeServed
<1>13. ASSUME NEW c \in Clients, WakeQuiesced(c) PROVE ReaperOK'
  BY <1>13 DEF WakeQuiesced
<1>14. ASSUME NEW c \in Clients, CopyOut(c) PROVE ReaperOK'
  BY <1>14 DEF CopyOut
<1>15. ASSUME NEW c \in Clients, Release(c) PROVE ReaperOK'
  BY <1>15 DEF Release
<1>16. ASSUME NEW c \in Clients, CountOut(c) PROVE ReaperOK'
  BY <1>16 DEF CountOut
<1>17. ASSUME NEW c \in Clients, Die(c) PROVE ReaperOK' BY <1>17 DEF Die
<1>18. ASSUME NEW c \in Clients, Reborn(c) PROVE ReaperOK' BY <1>18 DEF Reborn
<1>19. CASE Pass BY <1>19 DEF Pass
<1>20. CASE Sleep \/ Wake \/ PassOther BY <1>20 DEF Sleep, Wake, PassOther
<1>21. CASE Reset BY <1>21 DEF Reset
<1>22. CASE Look BY <1>22 DEF Look
<1>23. CASE ScanMiss BY <1>23 DEF ScanMiss
<1>24. CASE ExecEnd BY <1>24 DEF ExecEnd
<1>25. CASE ExecComplete BY <1>25 DEF ExecComplete
<1>26. CASE Complete BY <1>26 DEF Complete
<1>27. CASE MarkHeld BY <1>27 DEF MarkHeld
<1>28. CASE MarkDone BY <1>28 DEF MarkDone
<1>29. CASE Reply BY <1>29 DEF Reply
<1>30. CASE ActHold BY <1>30 DEF ActHold
<1>31. CASE ActDispatch BY <1>31 DEF ActDispatch
<1>32. CASE ScanHit
  <2>1. verd' = DEAD => Unowned(idx)
    BY <1>32, DeadOwner DEF ScanHit
  <2>2. req_state[idx] = PENDING
    BY <1>32 DEF ScanHit, Actionable, Other
  <2> QED
    BY <1>32, <2>1, <2>2 DEF ScanHit
<1>33. CASE ReapClear BY <1>33 DEF ReapClear
<1>34. CASE ReapRead BY <1>34 DEF ReapRead
<1>35. CASE ReapWrite BY <1>35 DEF ReapWrite
<1>36. CASE StopBegin BY <1>36 DEF StopBegin
<1>37. CASE StopClear BY <1>37 DEF StopClear
<1>38. CASE StopPoll BY <1>38 DEF StopPoll
<1>39. CASE StopWake BY <1>39 DEF StopWake
<1>40. CASE StopPause BY <1>40 DEF StopPause
<1>41. CASE StopSettle BY <1>41 DEF StopSettle
<1>42. CASE StopFree BY <1>42 DEF StopFree
<1>43. CASE StopRetain BY <1>43 DEF StopRetain
<1>44. CASE Abend BY <1>44 DEF Abend
<1>45. CASE AdoptFail BY <1>45 DEF AdoptFail
<1>46. CASE AdoptBegin BY <1>46 DEF AdoptBegin
<1>47. CASE AdoptStamp BY <1>47 DEF AdoptStamp
<1>48. CASE AdoptSkip BY <1>48 DEF AdoptSkip
<1>49. CASE AdoptHold BY <1>49 DEF AdoptHold
<1>50. CASE AdoptLeave BY <1>50 DEF AdoptLeave
<1>51. CASE AdoptPost BY <1>51 DEF AdoptPost
<1>52. CASE AdoptNext BY <1>52 DEF AdoptNext
<1>53. CASE AdoptScrub
  <2>1. verd' = DEAD => Unowned(idx)
    BY <1>53, DeadOwner DEF AdoptScrub
  <2> QED
    BY <1>53, <2>1 DEF AdoptScrub
<1>54. CASE AdoptPoll \/ AdoptPause \/ AdoptSettle \/ AdoptRouter \/
          AdoptActive \/ AdoptSteal
  <2>1. CASE AdoptPoll BY <2>1 DEF AdoptPoll
  <2>2. CASE AdoptPause BY <2>2 DEF AdoptPause
  <2>3. CASE AdoptSettle BY <2>3 DEF AdoptSettle
  <2>4. CASE AdoptRouter BY <2>4 DEF AdoptRouter
  <2>5. CASE AdoptActive BY <2>5 DEF AdoptActive
  <2>6. CASE AdoptSteal BY <2>6 DEF AdoptSteal
  <2> QED
    BY <1>54, <2>1, <2>2, <2>3, <2>4, <2>5, <2>6
<1>55. CASE Reap
  BY <1>55, ReapKeeps
<1> QED
  BY <1>1, <1>2, <1>3, <1>4, <1>5, <1>6, <1>7, <1>8, <1>9, <1>10, <1>11,
     <1>12, <1>13, <1>14, <1>15, <1>16, <1>17, <1>18, <1>19, <1>20, <1>21,
     <1>22, <1>23, <1>24, <1>25, <1>26, <1>27, <1>28, <1>29, <1>30, <1>31,
     <1>32, <1>33, <1>34, <1>35, <1>36, <1>37, <1>38, <1>39, <1>40, <1>41,
     <1>42, <1>43, <1>44, <1>45, <1>46, <1>47, <1>48, <1>49, <1>50, <1>51,
     <1>52, <1>53, <1>54, <1>55
  DEF Next, ClientStep, Serve, Stop, Adopt, Reap

(* The anchor names the STC that serves. *)
LEMMA AnchorStep ==
    ASSUME OwnerInv, Next
    PROVE  AnchorOK'
<1> USE BoundsAssumption, ClientsAssumption DEF OwnerInv, TypeOK, DataTypes,
        Mine, Go, Goto, Slots, ClientPcs, FREE, CLAIMED, PENDING, HELD, DONE,
        LIVE, DEAD, UNKNOWN, SlotStates, NextSlot, ServerEnds, FreshenLocals,
        OutOfService, ServerPcs, StopPcs, Settling, Settled, ServerUp,
        FlagTypes, Owns, OwnerPcs, LocalsOK, Serving, ServePcs, ReapPcs,
        AdoptPcs, AnchorOK
<1>1. ASSUME NEW c \in Clients, Enter(c) PROVE AnchorOK' BY <1>1 DEF Enter
<1>2. ASSUME NEW c \in Clients, CheckAnchor(c) PROVE AnchorOK'
  BY <1>2 DEF CheckAnchor
<1>3. ASSUME NEW c \in Clients, BadAnchor(c) PROVE AnchorOK'
  BY <1>3 DEF BadAnchor
<1>4. ASSUME NEW c \in Clients, Claim(c) PROVE AnchorOK' BY <1>4 DEF Claim
<1>5. ASSUME NEW c \in Clients, ClaimNext(c) PROVE AnchorOK'
  BY <1>5 DEF ClaimNext
<1>6. ASSUME NEW c \in Clients, PoolFull(c) PROVE AnchorOK'
  BY <1>6 DEF PoolFull
<1>7. ASSUME NEW c \in Clients, CountIn(c) PROVE AnchorOK' BY <1>7 DEF CountIn
<1>8. ASSUME NEW c \in Clients, Stage(c) PROVE AnchorOK' BY <1>8 DEF Stage
<1>9. ASSUME NEW c \in Clients, Publish(c) PROVE AnchorOK' BY <1>9 DEF Publish
<1>10. ASSUME NEW c \in Clients, PostServer(c) PROVE AnchorOK'
  BY <1>10 DEF PostServer
<1>11. ASSUME NEW c \in Clients, PostFails(c) PROVE AnchorOK'
  BY <1>11 DEF PostFails
<1>12. ASSUME NEW c \in Clients, WakeServed(c) PROVE AnchorOK'
  BY <1>12 DEF WakeServed
<1>13. ASSUME NEW c \in Clients, WakeQuiesced(c) PROVE AnchorOK'
  BY <1>13 DEF WakeQuiesced
<1>14. ASSUME NEW c \in Clients, CopyOut(c) PROVE AnchorOK'
  BY <1>14 DEF CopyOut
<1>15. ASSUME NEW c \in Clients, Release(c) PROVE AnchorOK'
  BY <1>15 DEF Release
<1>16. ASSUME NEW c \in Clients, CountOut(c) PROVE AnchorOK'
  BY <1>16 DEF CountOut
<1>17. ASSUME NEW c \in Clients, Die(c) PROVE AnchorOK' BY <1>17 DEF Die
<1>18. ASSUME NEW c \in Clients, Reborn(c) PROVE AnchorOK' BY <1>18 DEF Reborn
<1>19. CASE Pass \/ Sleep \/ Wake \/ PassOther \/ Reset \/ Look \/ ScanMiss \/ ExecEnd \/
          ExecComplete
  <2>1. CASE Pass BY <2>1 DEF Pass
  <2>2. CASE Sleep \/ Wake \/ PassOther BY <2>2 DEF Sleep, Wake, PassOther
  <2>3. CASE Reset BY <2>3 DEF Reset
  <2>4. CASE Look BY <2>4 DEF Look
  <2>5. CASE ScanMiss BY <2>5 DEF ScanMiss
  <2>6. CASE ExecEnd BY <2>6 DEF ExecEnd
  <2>7. CASE ExecComplete BY <2>7 DEF ExecComplete
  <2> QED
    BY <1>19, <2>1, <2>2, <2>3, <2>4, <2>5, <2>6, <2>7
<1>20. CASE Complete \/ MarkHeld \/ MarkDone \/ Reply \/ ScanHit \/ ActHold \/
          ActDispatch
  <2>1. CASE Complete BY <2>1 DEF Complete
  <2>2. CASE MarkHeld BY <2>2 DEF MarkHeld
  <2>3. CASE MarkDone BY <2>3 DEF MarkDone
  <2>4. CASE Reply BY <2>4 DEF Reply
  <2>5. CASE ScanHit BY <2>5 DEF ScanHit
  <2>6. CASE ActHold BY <2>6 DEF ActHold
  <2>7. CASE ActDispatch BY <2>7 DEF ActDispatch
  <2> QED
    BY <1>20, <2>1, <2>2, <2>3, <2>4, <2>5, <2>6, <2>7
<1>21. CASE ReapClear \/ ReapRead \/ ReapWrite
  <2>1. CASE ReapClear BY <2>1 DEF ReapClear
  <2>2. CASE ReapRead BY <2>2 DEF ReapRead
  <2>3. CASE ReapWrite BY <2>3 DEF ReapWrite
  <2> QED
    BY <1>21, <2>1, <2>2, <2>3
<1>22. CASE StopBegin BY <1>22 DEF StopBegin
<1>23. CASE StopClear BY <1>23 DEF StopClear
<1>24. CASE StopPoll BY <1>24 DEF StopPoll
<1>25. CASE StopWake BY <1>25 DEF StopWake
<1>26. CASE StopPause BY <1>26 DEF StopPause
<1>27. CASE StopSettle BY <1>27 DEF StopSettle
<1>28. CASE StopFree BY <1>28 DEF StopFree
<1>29. CASE StopRetain BY <1>29 DEF StopRetain
<1>30. CASE Abend BY <1>30 DEF Abend
<1>31. CASE AdoptFail BY <1>31 DEF AdoptFail
<1>32. CASE AdoptBegin \/ AdoptStamp \/ AdoptScrub \/ AdoptSkip \/ AdoptHold
          \/ AdoptLeave \/ AdoptPost \/ AdoptNext
  <2>1. CASE AdoptBegin BY <2>1 DEF AdoptBegin
  <2>2. CASE AdoptStamp BY <2>2 DEF AdoptStamp
  <2>3. CASE AdoptScrub BY <2>3 DEF AdoptScrub
  <2>4. CASE AdoptSkip BY <2>4 DEF AdoptSkip
  <2>5. CASE AdoptHold BY <2>5 DEF AdoptHold
  <2>6. CASE AdoptLeave BY <2>6 DEF AdoptLeave
  <2>7. CASE AdoptPost BY <2>7 DEF AdoptPost
  <2>8. CASE AdoptNext BY <2>8 DEF AdoptNext
  <2> QED
    BY <1>32, <2>1, <2>2, <2>3, <2>4, <2>5, <2>6, <2>7, <2>8
<1>33. CASE AdoptPoll BY <1>33 DEF AdoptPoll
<1>34. CASE AdoptPause BY <1>34 DEF AdoptPause
<1>35. CASE AdoptSettle BY <1>35 DEF AdoptSettle
<1>36. CASE AdoptRouter BY <1>36 DEF AdoptRouter
<1>37. CASE AdoptActive BY <1>37 DEF AdoptActive
<1>38. CASE AdoptSteal BY <1>38 DEF AdoptSteal
<1>39. CASE Reap
  BY <1>39, ReapKeeps
<1> QED
  BY <1>1, <1>2, <1>3, <1>4, <1>5, <1>6, <1>7, <1>8, <1>9, <1>10, <1>11,
     <1>12, <1>13, <1>14, <1>15, <1>16, <1>17, <1>18, <1>19, <1>20, <1>21,
     <1>22, <1>23, <1>24, <1>25, <1>26, <1>27, <1>28, <1>29, <1>30, <1>31,
     <1>32, <1>33, <1>34, <1>35, <1>36, <1>37, <1>38, <1>39
  DEF Next, ClientStep, Serve, Stop, Adopt, Reap

(* After its pause an adopting start finds nobody running in the routine. *)
LEMMA RestStep ==
    ASSUME OwnerInv, LongPauses, DrainMax # 0, Next
    PROVE  RestOK'
<1> USE BoundsAssumption, ClientsAssumption DEF OwnerInv, TypeOK, DataTypes,
        Mine, Go, Goto, Slots, ClientPcs, FREE, CLAIMED, PENDING, HELD, DONE,
        LIVE, DEAD, UNKNOWN, SlotStates, NextSlot, ServerEnds, FreshenLocals,
        OutOfService, RestOK, AtRest, PauseOver, Settling, Settled,
        ExclusiveOwner, ServerPcs, StopPcs, FlagTypes, Owns, OwnerPcs,
        LocalsOK, Serving, ServePcs, ReapPcs, AdoptPcs, AnchorOK
<1>1. ASSUME NEW c \in Clients, Enter(c) PROVE RestOK' BY <1>1 DEF Enter
<1>2. ASSUME NEW c \in Clients, CheckAnchor(c) PROVE RestOK'
  BY <1>2 DEF CheckAnchor
<1>3. ASSUME NEW c \in Clients, BadAnchor(c) PROVE RestOK'
  BY <1>3 DEF BadAnchor
<1>4. ASSUME NEW c \in Clients, Claim(c) PROVE RestOK' BY <1>4 DEF Claim
<1>5. ASSUME NEW c \in Clients, ClaimNext(c) PROVE RestOK'
  BY <1>5 DEF ClaimNext
<1>6. ASSUME NEW c \in Clients, PoolFull(c) PROVE RestOK' BY <1>6 DEF PoolFull
<1>7. ASSUME NEW c \in Clients, CountIn(c) PROVE RestOK' BY <1>7 DEF CountIn
<1>8. ASSUME NEW c \in Clients, Stage(c) PROVE RestOK' BY <1>8 DEF Stage
<1>9. ASSUME NEW c \in Clients, Publish(c) PROVE RestOK' BY <1>9 DEF Publish
<1>10. ASSUME NEW c \in Clients, PostServer(c) PROVE RestOK'
  BY <1>10 DEF PostServer
<1>11. ASSUME NEW c \in Clients, PostFails(c) PROVE RestOK'
  BY <1>11 DEF PostFails
<1>12. ASSUME NEW c \in Clients, WakeServed(c) PROVE RestOK'
  BY <1>12 DEF WakeServed
<1>13. ASSUME NEW c \in Clients, WakeQuiesced(c) PROVE RestOK'
  BY <1>13 DEF WakeQuiesced
<1>14. ASSUME NEW c \in Clients, CopyOut(c) PROVE RestOK' BY <1>14 DEF CopyOut
<1>15. ASSUME NEW c \in Clients, Release(c) PROVE RestOK' BY <1>15 DEF Release
<1>16. ASSUME NEW c \in Clients, CountOut(c) PROVE RestOK'
  BY <1>16 DEF CountOut
<1>17. ASSUME NEW c \in Clients, Die(c) PROVE RestOK' BY <1>17 DEF Die
<1>18. ASSUME NEW c \in Clients, Reborn(c) PROVE RestOK' BY <1>18 DEF Reborn
<1>19. CASE Pass \/ Sleep \/ Wake \/ PassOther \/ Reset \/ Look \/ ScanMiss \/ ExecEnd \/
          ExecComplete
  <2>1. CASE Pass BY <2>1 DEF Pass
  <2>2. CASE Sleep \/ Wake \/ PassOther BY <2>2 DEF Sleep, Wake, PassOther
  <2>3. CASE Reset BY <2>3 DEF Reset
  <2>4. CASE Look BY <2>4 DEF Look
  <2>5. CASE ScanMiss BY <2>5 DEF ScanMiss
  <2>6. CASE ExecEnd BY <2>6 DEF ExecEnd
  <2>7. CASE ExecComplete BY <2>7 DEF ExecComplete
  <2> QED
    BY <1>19, <2>1, <2>2, <2>3, <2>4, <2>5, <2>6, <2>7
<1>20. CASE Complete \/ MarkHeld \/ MarkDone \/ Reply \/ ScanHit \/ ActHold \/
          ActDispatch
  <2>1. CASE Complete BY <2>1 DEF Complete
  <2>2. CASE MarkHeld BY <2>2 DEF MarkHeld
  <2>3. CASE MarkDone BY <2>3 DEF MarkDone
  <2>4. CASE Reply BY <2>4 DEF Reply
  <2>5. CASE ScanHit BY <2>5 DEF ScanHit
  <2>6. CASE ActHold BY <2>6 DEF ActHold
  <2>7. CASE ActDispatch BY <2>7 DEF ActDispatch
  <2> QED
    BY <1>20, <2>1, <2>2, <2>3, <2>4, <2>5, <2>6, <2>7
<1>21. CASE ReapClear BY <1>21 DEF ReapClear
<1>22. CASE ReapRead BY <1>22 DEF ReapRead
<1>23. CASE ReapWrite BY <1>23 DEF ReapWrite
<1>24. CASE StopBegin \/ StopClear \/ StopPoll \/ StopWake \/ StopPause \/
          StopSettle \/ StopFree \/ StopRetain \/ Abend \/ AdoptFail
  <2>1. CASE StopBegin BY <2>1 DEF StopBegin
  <2>2. CASE StopClear BY <2>2 DEF StopClear
  <2>3. CASE StopPoll BY <2>3 DEF StopPoll
  <2>4. CASE StopWake BY <2>4 DEF StopWake
  <2>5. CASE StopPause BY <2>5 DEF StopPause
  <2>6. CASE StopSettle BY <2>6 DEF StopSettle
  <2>7. CASE StopFree BY <2>7 DEF StopFree
  <2>8. CASE StopRetain BY <2>8 DEF StopRetain
  <2>9. CASE Abend BY <2>9 DEF Abend
  <2>10. CASE AdoptFail BY <2>10 DEF AdoptFail
  <2> QED
    BY <1>24, <2>1, <2>2, <2>3, <2>4, <2>5, <2>6, <2>7, <2>8, <2>9, <2>10
<1>25. CASE AdoptBegin \/ AdoptStamp \/ AdoptScrub \/ AdoptSkip \/ AdoptHold
          \/ AdoptLeave \/ AdoptPost \/ AdoptNext
  <2>1. CASE AdoptBegin BY <2>1 DEF AdoptBegin
  <2>2. CASE AdoptStamp BY <2>2 DEF AdoptStamp
  <2>3. CASE AdoptScrub BY <2>3 DEF AdoptScrub
  <2>4. CASE AdoptSkip BY <2>4 DEF AdoptSkip
  <2>5. CASE AdoptHold BY <2>5 DEF AdoptHold
  <2>6. CASE AdoptLeave BY <2>6 DEF AdoptLeave
  <2>7. CASE AdoptPost BY <2>7 DEF AdoptPost
  <2>8. CASE AdoptNext BY <2>8 DEF AdoptNext
  <2> QED
    BY <1>25, <2>1, <2>2, <2>3, <2>4, <2>5, <2>6, <2>7, <2>8
<1>26. CASE AdoptPoll BY <1>26 DEF AdoptPoll
<1>27. CASE AdoptPause BY <1>27 DEF AdoptPause
<1>28. CASE AdoptSettle BY <1>28 DEF AdoptSettle
<1>29. CASE AdoptRouter BY <1>29 DEF AdoptRouter
<1>30. CASE AdoptActive BY <1>30 DEF AdoptActive
<1>31. CASE AdoptSteal BY <1>31 DEF AdoptSteal
<1>32. CASE Reap
  BY <1>32, ReapKeeps
<1> QED
  BY <1>1, <1>2, <1>3, <1>4, <1>5, <1>6, <1>7, <1>8, <1>9, <1>10, <1>11,
     <1>12, <1>13, <1>14, <1>15, <1>16, <1>17, <1>18, <1>19, <1>20, <1>21,
     <1>22, <1>23, <1>24, <1>25, <1>26, <1>27, <1>28, <1>29, <1>30, <1>31,
     <1>32
  DEF Next, ClientStep, Serve, Stop, Adopt, Reap

(* While the STC serves, only DONE slots are posted. *)
LEMMA PostedStep ==
    ASSUME OwnerInv, LongPauses, DrainMax # 0, Next
    PROVE  PostedOK'
<1> USE BoundsAssumption, ClientsAssumption DEF OwnerInv, TypeOK, DataTypes,
        Mine, Go, Goto, Slots, ClientPcs, FREE, CLAIMED, PENDING, HELD, DONE,
        LIVE, DEAD, UNKNOWN, SlotStates, NextSlot, ServerEnds, FreshenLocals,
        OutOfService, PostedOK, RestOK, AtRest, Settled, Settling,
        ExclusiveOwner, OwnerStates, ReaperOK, ServiceOK, Unowned, Doomed,
        StopPcs, FlagTypes, ServerUp, Owns, OwnerPcs, LocalsOK, Serving,
        ServePcs, ReapPcs, AdoptPcs, AnchorOK
<1>1. ASSUME NEW c \in Clients, Enter(c) PROVE PostedOK' BY <1>1 DEF Enter
<1>2. ASSUME NEW c \in Clients, CheckAnchor(c) PROVE PostedOK'
  BY <1>2 DEF CheckAnchor
<1>3. ASSUME NEW c \in Clients, BadAnchor(c) PROVE PostedOK'
  BY <1>3 DEF BadAnchor
<1>4. ASSUME NEW c \in Clients, Claim(c) PROVE PostedOK' BY <1>4 DEF Claim
<1>5. ASSUME NEW c \in Clients, ClaimNext(c) PROVE PostedOK'
  BY <1>5 DEF ClaimNext
<1>6. ASSUME NEW c \in Clients, PoolFull(c) PROVE PostedOK'
  BY <1>6 DEF PoolFull
<1>7. ASSUME NEW c \in Clients, CountIn(c) PROVE PostedOK' BY <1>7 DEF CountIn
<1>8. ASSUME NEW c \in Clients, Stage(c) PROVE PostedOK' BY <1>8 DEF Stage
<1>9. ASSUME NEW c \in Clients, Publish(c) PROVE PostedOK' BY <1>9 DEF Publish
<1>10. ASSUME NEW c \in Clients, PostServer(c) PROVE PostedOK'
  BY <1>10 DEF PostServer
<1>11. ASSUME NEW c \in Clients, PostFails(c) PROVE PostedOK'
  BY <1>11 DEF PostFails
<1>12. ASSUME NEW c \in Clients, WakeServed(c) PROVE PostedOK'
  BY <1>12 DEF WakeServed
<1>13. ASSUME NEW c \in Clients, WakeQuiesced(c) PROVE PostedOK'
  BY <1>13 DEF WakeQuiesced
<1>14. ASSUME NEW c \in Clients, CopyOut(c) PROVE PostedOK'
  BY <1>14 DEF CopyOut
<1>15. ASSUME NEW c \in Clients, Release(c) PROVE PostedOK'
  BY <1>15 DEF Release
<1>16. ASSUME NEW c \in Clients, CountOut(c) PROVE PostedOK'
  BY <1>16 DEF CountOut
<1>17. ASSUME NEW c \in Clients, Die(c) PROVE PostedOK' BY <1>17 DEF Die
<1>18. ASSUME NEW c \in Clients, Reborn(c) PROVE PostedOK' BY <1>18 DEF Reborn
<1>19. CASE Pass BY <1>19 DEF Pass
<1>20. CASE Sleep \/ Wake \/ PassOther BY <1>20 DEF Sleep, Wake, PassOther
<1>21. CASE Reset BY <1>21 DEF Reset
<1>22. CASE Look BY <1>22 DEF Look
<1>23. CASE ScanMiss BY <1>23 DEF ScanMiss
<1>24. CASE ExecEnd BY <1>24 DEF ExecEnd
<1>25. CASE ExecComplete BY <1>25 DEF ExecComplete
<1>26. CASE Complete BY <1>26 DEF Complete
<1>27. CASE MarkHeld BY <1>27 DEF MarkHeld
<1>28. CASE Reply BY <1>28 DEF Reply
<1>29. CASE ScanHit BY <1>29 DEF ScanHit
<1>30. CASE ActHold BY <1>30 DEF ActHold
<1>31. CASE ActDispatch BY <1>31 DEF ActDispatch
<1>32. CASE MarkDone
  <2>1. req_state[busy] = PENDING /\ busy \in Slots
    BY <1>32 DEF MarkDone
  <2>2. \A c \in Clients : Owns(c) /\ Mine(c) = busy
           => pc[c] \in {"post", "wait"} /\ ~reply_ecb[busy]
    BY <1>32, <2>1 DEF MarkDone
  <2>3. \A s \in Slots \ {busy} : req_state'[s] = req_state[s]
    BY <1>32 DEF MarkDone
  <2>4. req_state'[busy] = DONE
    BY <1>32, <2>1 DEF MarkDone
  <2> QED
    BY <1>32, <2>2, <2>3, <2>4 DEF MarkDone
<1>33. CASE ReapClear BY <1>33 DEF ReapClear
<1>34. CASE ReapRead BY <1>34 DEF ReapRead
<1>35. CASE ReapWrite BY <1>35 DEF ReapWrite
<1>36. CASE StopBegin BY <1>36 DEF StopBegin
<1>37. CASE StopClear BY <1>37 DEF StopClear
<1>38. CASE StopPoll BY <1>38 DEF StopPoll
<1>39. CASE StopWake BY <1>39 DEF StopWake
<1>40. CASE StopPause BY <1>40 DEF StopPause
<1>41. CASE StopSettle BY <1>41 DEF StopSettle
<1>42. CASE StopFree BY <1>42 DEF StopFree
<1>43. CASE StopRetain BY <1>43 DEF StopRetain
<1>44. CASE Abend BY <1>44 DEF Abend
<1>45. CASE AdoptFail BY <1>45 DEF AdoptFail
<1>46. CASE AdoptBegin BY <1>46 DEF AdoptBegin
<1>47. CASE AdoptStamp BY <1>47 DEF AdoptStamp
<1>48. CASE AdoptScrub BY <1>48 DEF AdoptScrub
<1>49. CASE AdoptSkip BY <1>49 DEF AdoptSkip
<1>50. CASE AdoptHold BY <1>50 DEF AdoptHold
<1>51. CASE AdoptLeave BY <1>51 DEF AdoptLeave
<1>52. CASE AdoptPost BY <1>52 DEF AdoptPost
<1>53. CASE AdoptNext BY <1>53 DEF AdoptNext
<1>54. CASE AdoptPoll BY <1>54 DEF AdoptPoll
<1>55. CASE AdoptPause BY <1>55 DEF AdoptPause
<1>56. CASE AdoptSettle BY <1>56 DEF AdoptSettle
<1>57. CASE AdoptRouter BY <1>57 DEF AdoptRouter
<1>58. CASE AdoptActive BY <1>58 DEF AdoptActive
<1>59. CASE AdoptSteal BY <1>59 DEF AdoptSteal
<1>60. CASE Reap
  BY <1>60, ReapKeeps
<1> QED
  BY <1>1, <1>2, <1>3, <1>4, <1>5, <1>6, <1>7, <1>8, <1>9, <1>10, <1>11,
     <1>12, <1>13, <1>14, <1>15, <1>16, <1>17, <1>18, <1>19, <1>20, <1>21,
     <1>22, <1>23, <1>24, <1>25, <1>26, <1>27, <1>28, <1>29, <1>30, <1>31,
     <1>32, <1>33, <1>34, <1>35, <1>36, <1>37, <1>38, <1>39, <1>40, <1>41,
     <1>42, <1>43, <1>44, <1>45, <1>46, <1>47, <1>48, <1>49, <1>50, <1>51,
     <1>52, <1>53, <1>54, <1>55, <1>56, <1>57, <1>58, <1>59, <1>60
  DEF Next, ClientStep, Serve, Stop, Adopt, Reap

(* The slot in service stays PENDING until the STC makes it DONE. *)
LEMMA ServiceStep ==
    ASSUME OwnerInv, Next
    PROVE  ServiceOK'
<1> USE BoundsAssumption, ClientsAssumption DEF OwnerInv, TypeOK, DataTypes,
        Mine, Go, Goto, Slots, ClientPcs, FREE, CLAIMED, PENDING, HELD, DONE,
        LIVE, DEAD, UNKNOWN, SlotStates, NextSlot, ServerEnds, FreshenLocals,
        OutOfService, ServiceOK, PostedOK, ExclusiveOwner, OwnerStates,
        ReaperOK, Unowned, Doomed, Other, Actionable, nsfreqx_actionable,
        nsfreqx_slot_action, StopPcs, FlagTypes, Owns, OwnerPcs, LocalsOK,
        Serving, ServePcs, ReapPcs, AdoptPcs, AnchorOK
<1>1. ASSUME NEW c \in Clients, Enter(c) PROVE ServiceOK' BY <1>1 DEF Enter
<1>2. ASSUME NEW c \in Clients, CheckAnchor(c) PROVE ServiceOK'
  BY <1>2 DEF CheckAnchor
<1>3. ASSUME NEW c \in Clients, BadAnchor(c) PROVE ServiceOK'
  BY <1>3 DEF BadAnchor
<1>4. ASSUME NEW c \in Clients, Claim(c) PROVE ServiceOK' BY <1>4 DEF Claim
<1>5. ASSUME NEW c \in Clients, ClaimNext(c) PROVE ServiceOK'
  BY <1>5 DEF ClaimNext
<1>6. ASSUME NEW c \in Clients, PoolFull(c) PROVE ServiceOK'
  BY <1>6 DEF PoolFull
<1>7. ASSUME NEW c \in Clients, CountIn(c) PROVE ServiceOK'
  BY <1>7 DEF CountIn
<1>8. ASSUME NEW c \in Clients, Stage(c) PROVE ServiceOK' BY <1>8 DEF Stage
<1>9. ASSUME NEW c \in Clients, Publish(c) PROVE ServiceOK'
  BY <1>9 DEF Publish
<1>10. ASSUME NEW c \in Clients, PostServer(c) PROVE ServiceOK'
  BY <1>10 DEF PostServer
<1>11. ASSUME NEW c \in Clients, PostFails(c) PROVE ServiceOK'
  BY <1>11 DEF PostFails
<1>12. ASSUME NEW c \in Clients, WakeServed(c) PROVE ServiceOK'
  BY <1>12 DEF WakeServed
<1>13. ASSUME NEW c \in Clients, WakeQuiesced(c) PROVE ServiceOK'
  BY <1>13 DEF WakeQuiesced
<1>14. ASSUME NEW c \in Clients, CopyOut(c) PROVE ServiceOK'
  BY <1>14 DEF CopyOut
<1>15. ASSUME NEW c \in Clients, CountOut(c) PROVE ServiceOK'
  BY <1>15 DEF CountOut
<1>16. ASSUME NEW c \in Clients, Die(c) PROVE ServiceOK' BY <1>16 DEF Die
<1>17. ASSUME NEW c \in Clients, Reborn(c) PROVE ServiceOK'
  BY <1>17 DEF Reborn
<1>18. ASSUME NEW c \in Clients, Release(c) PROVE ServiceOK'
  <2>1. Serving /\ busy # 0 => Mine(c) # busy
    BY <1>18 DEF Release
  <2> QED
    BY <1>18, <2>1 DEF Release
<1>19. CASE Pass \/ Sleep \/ Wake \/ PassOther \/ Reset \/ Look \/ ScanMiss \/ ExecEnd \/
          ExecComplete
  <2>1. CASE Pass BY <2>1 DEF Pass
  <2>2. CASE Sleep \/ Wake \/ PassOther BY <2>2 DEF Sleep, Wake, PassOther
  <2>3. CASE Reset BY <2>3 DEF Reset
  <2>4. CASE Look BY <2>4 DEF Look
  <2>5. CASE ScanMiss BY <2>5 DEF ScanMiss
  <2>6. CASE ExecEnd BY <2>6 DEF ExecEnd
  <2>7. CASE ExecComplete BY <2>7 DEF ExecComplete
  <2> QED
    BY <1>19, <2>1, <2>2, <2>3, <2>4, <2>5, <2>6, <2>7
<1>20. CASE Complete BY <1>20 DEF Complete
<1>21. CASE MarkHeld BY <1>21 DEF MarkHeld
<1>22. CASE MarkDone BY <1>22 DEF MarkDone
<1>23. CASE Reply BY <1>23 DEF Reply
<1>24. CASE ScanHit BY <1>24 DEF ScanHit
<1>25. CASE ActHold BY <1>25 DEF ActHold
<1>26. CASE ActDispatch BY <1>26 DEF ActDispatch
<1>27. CASE ReapClear \/ ReapRead \/ ReapWrite
  <2>1. CASE ReapClear BY <2>1 DEF ReapClear
  <2>2. CASE ReapRead BY <2>2 DEF ReapRead
  <2>3. CASE ReapWrite BY <2>3 DEF ReapWrite
  <2> QED
    BY <1>27, <2>1, <2>2, <2>3
<1>28. CASE StopBegin \/ StopClear \/ StopPoll \/ StopWake \/ StopPause \/
          StopSettle \/ StopFree \/ StopRetain \/ Abend \/ AdoptFail
  <2>1. CASE StopBegin BY <2>1 DEF StopBegin
  <2>2. CASE StopClear BY <2>2 DEF StopClear
  <2>3. CASE StopPoll BY <2>3 DEF StopPoll
  <2>4. CASE StopWake BY <2>4 DEF StopWake
  <2>5. CASE StopPause BY <2>5 DEF StopPause
  <2>6. CASE StopSettle BY <2>6 DEF StopSettle
  <2>7. CASE StopFree BY <2>7 DEF StopFree
  <2>8. CASE StopRetain BY <2>8 DEF StopRetain
  <2>9. CASE Abend BY <2>9 DEF Abend
  <2>10. CASE AdoptFail BY <2>10 DEF AdoptFail
  <2> QED
    BY <1>28, <2>1, <2>2, <2>3, <2>4, <2>5, <2>6, <2>7, <2>8, <2>9, <2>10
<1>29. CASE AdoptBegin \/ AdoptStamp \/ AdoptScrub \/ AdoptSkip \/ AdoptHold
          \/ AdoptLeave \/ AdoptPost \/ AdoptNext
  <2>1. CASE AdoptBegin BY <2>1 DEF AdoptBegin
  <2>2. CASE AdoptStamp BY <2>2 DEF AdoptStamp
  <2>3. CASE AdoptScrub BY <2>3 DEF AdoptScrub
  <2>4. CASE AdoptSkip BY <2>4 DEF AdoptSkip
  <2>5. CASE AdoptHold BY <2>5 DEF AdoptHold
  <2>6. CASE AdoptLeave BY <2>6 DEF AdoptLeave
  <2>7. CASE AdoptPost BY <2>7 DEF AdoptPost
  <2>8. CASE AdoptNext BY <2>8 DEF AdoptNext
  <2> QED
    BY <1>29, <2>1, <2>2, <2>3, <2>4, <2>5, <2>6, <2>7, <2>8
<1>30. CASE AdoptPoll \/ AdoptPause \/ AdoptSettle \/ AdoptRouter \/
          AdoptActive \/ AdoptSteal
  <2>1. CASE AdoptPoll BY <2>1 DEF AdoptPoll
  <2>2. CASE AdoptPause BY <2>2 DEF AdoptPause
  <2>3. CASE AdoptSettle BY <2>3 DEF AdoptSettle
  <2>4. CASE AdoptRouter BY <2>4 DEF AdoptRouter
  <2>5. CASE AdoptActive BY <2>5 DEF AdoptActive
  <2>6. CASE AdoptSteal BY <2>6 DEF AdoptSteal
  <2> QED
    BY <1>30, <2>1, <2>2, <2>3, <2>4, <2>5, <2>6
<1>31. CASE Reap
  BY <1>31, ReapKeeps
<1> QED
  BY <1>1, <1>2, <1>3, <1>4, <1>5, <1>6, <1>7, <1>8, <1>9, <1>10, <1>11,
     <1>12, <1>13, <1>14, <1>15, <1>16, <1>17, <1>18, <1>19, <1>20, <1>21,
     <1>22, <1>23, <1>24, <1>25, <1>26, <1>27, <1>28, <1>29, <1>30, <1>31
  DEF Next, ClientStep, Serve, Stop, Adopt, Reap

-----------------------------------------------------------------------------
(* Requests and answers.                                                    *)

(* Counts of dispatches never go down. *)
LEMMA DispGrows ==
    ASSUME IInv, ActDispatch
    PROVE  /\ \A r \in Requests : disp[r] > 0 => disp'[r] > 0
           /\ img[idx].req \in Requests /\ disp'[img[idx].req] > 0
<1>1. img[idx].req \in Requests
  BY DEF IInv, OwnerInv, TypeOK, DataTypes, ImageOK, ServiceOK, ActDispatch
<1>2. /\ disp \in [Requests -> Nat]
      /\ disp' = [disp EXCEPT ![img[idx].req] = @ + 1]
  BY DEF IInv, OwnerInv, TypeOK, DataTypes, ActDispatch
<1> QED
  BY <1>1, <1>2

(* The slot of an owner that has staged its request holds that request. *)
LEMMA OwnerImage ==
    ASSUME IInv, NEW c \in Clients,
           pc[c] \in {"publish", "post", "wait", "out"}
    PROVE  /\ cs[c] \in Slots /\ <<c, calls[c]>> \in Requests
           /\ img[cs[c]].req = <<c, calls[c]>>
           /\ req_state[cs[c]] = DONE /\ pc[c] # "publish"
                => img[cs[c]].ans = <<c, calls[c]>> /\ disp[<<c, calls[c]>>] > 0
<1>1. cs[c] # 0 /\ calls[c] # 0
  BY DEF IInv, OwnerInv, LocalsOK, Mine, OwnerPcs
<1>2. cs[c] \in 0 .. NSlots /\ calls[c] \in 0 .. MaxCalls
  BY DEF IInv, OwnerInv, TypeOK, DataTypes
<1>3. cs[c] \in Slots /\ <<c, calls[c]>> \in Requests
  BY <1>1, <1>2, BoundsAssumption DEF Slots, Requests
<1>4. ImageOK
  BY DEF IInv
<1> QED
  BY <1>3, <1>4 DEF ImageOK, Mine

(* What is being completed is a request in service. *)
LEMMA InService ==
    ASSUME IInv, spc \in {"complete", "mark", "reply"}
    PROVE  busy \in Slots
  BY DEF IInv, OwnerInv, TypeOK, DataTypes, LocalsOK, Slots

(* The private copy keeps answering the request in service. *)
LEMMA CopyStep ==
    ASSUME IInv, Next
    PROVE  CopyOK'
<1> USE BoundsAssumption, ClientsAssumption DEF IInv, OwnerInv, TypeOK,
        DataTypes, Mine, Go, Goto, Slots, ClientPcs, FREE, CLAIMED, PENDING,
        HELD, DONE, LIVE, DEAD, UNKNOWN, SlotStates, NextSlot, ServerEnds,
        FreshenLocals, OutOfService, CopyOK, FlagTypes, StopPcs,
        nsfreqx_result_out, nsfreqx_dispatch_in, Owns, OwnerPcs, Serving,
        ServePcs, ReapPcs, AdoptPcs
<1>1. ASSUME NEW c \in Clients, Enter(c) PROVE CopyOK' BY <1>1 DEF Enter
<1>2. ASSUME NEW c \in Clients, CheckAnchor(c) PROVE CopyOK'
  BY <1>2 DEF CheckAnchor
<1>3. ASSUME NEW c \in Clients, BadAnchor(c) PROVE CopyOK'
  BY <1>3 DEF BadAnchor
<1>4. ASSUME NEW c \in Clients, Claim(c) PROVE CopyOK' BY <1>4 DEF Claim
<1>5. ASSUME NEW c \in Clients, ClaimNext(c) PROVE CopyOK'
  BY <1>5 DEF ClaimNext
<1>6. ASSUME NEW c \in Clients, PoolFull(c) PROVE CopyOK' BY <1>6 DEF PoolFull
<1>7. ASSUME NEW c \in Clients, CountIn(c) PROVE CopyOK' BY <1>7 DEF CountIn
<1>8. ASSUME NEW c \in Clients, Stage(c) PROVE CopyOK'
  BY <1>8 DEF Stage, OwnerStates, ServiceOK
<1>9. ASSUME NEW c \in Clients, Publish(c) PROVE CopyOK' BY <1>9 DEF Publish
<1>10. ASSUME NEW c \in Clients, PostServer(c) PROVE CopyOK'
  BY <1>10 DEF PostServer
<1>11. ASSUME NEW c \in Clients, PostFails(c) PROVE CopyOK'
  BY <1>11 DEF PostFails
<1>12. ASSUME NEW c \in Clients, WakeServed(c) PROVE CopyOK'
  BY <1>12 DEF WakeServed
<1>13. ASSUME NEW c \in Clients, WakeQuiesced(c) PROVE CopyOK'
  BY <1>13 DEF WakeQuiesced
<1>14. ASSUME NEW c \in Clients, CopyOut(c) PROVE CopyOK' BY <1>14 DEF CopyOut
<1>15. ASSUME NEW c \in Clients, Release(c) PROVE CopyOK' BY <1>15 DEF Release
<1>16. ASSUME NEW c \in Clients, CountOut(c) PROVE CopyOK'
  BY <1>16 DEF CountOut
<1>17. ASSUME NEW c \in Clients, Die(c) PROVE CopyOK' BY <1>17 DEF Die
<1>18. ASSUME NEW c \in Clients, Reborn(c) PROVE CopyOK' BY <1>18 DEF Reborn
<1>19. CASE Pass BY <1>19 DEF Pass
<1>20. CASE Sleep \/ Wake \/ PassOther BY <1>20 DEF Sleep, Wake, PassOther
<1>21. CASE Reset BY <1>21 DEF Reset
<1>22. CASE Look BY <1>22 DEF Look
<1>23. CASE ScanMiss BY <1>23 DEF ScanMiss
<1>24. CASE ExecEnd BY <1>24 DEF ExecEnd
<1>25. CASE ExecComplete BY <1>25 DEF ExecComplete
<1>26. CASE Complete
  <2>1. UNCHANGED <<busy, priv, privecb, disp>> /\ spc' = "mark"
    BY <1>26 DEF Complete
  <2>2. spc = "complete" /\ busy \in Slots
    <3>1. spc = "complete"
      BY <1>26 DEF Complete
    <3> QED
      BY <3>1, InService
  <2>3. /\ img[busy].req = priv.req /\ disp[priv.req] > 0
        /\ privecb /\ priv.ans = priv.req
    BY <2>2
  <2>4. img'[busy] = [req |-> img[busy].req, ans |-> priv.ans]
    BY <1>26, <2>2 DEF Complete
  <2> QED
    BY <2>1, <2>3, <2>4
<1>27. CASE MarkHeld BY <1>27 DEF MarkHeld
<1>28. CASE MarkDone BY <1>28 DEF MarkDone
<1>29. CASE Reply BY <1>29 DEF Reply
<1>30. CASE ScanHit BY <1>30 DEF ScanHit
<1>31. CASE ActHold BY <1>31 DEF ActHold
<1>32. CASE ActDispatch
  <2>1. busy' = idx /\ priv' = img[idx] /\ ~privecb' /\ spc' = "exec"
    BY <1>32 DEF ActDispatch
  <2>2. img' = img
    BY <1>32 DEF ActDispatch
  <2> QED
    BY <1>32, <2>1, <2>2, DispGrows
<1>33. CASE ReapClear BY <1>33 DEF ReapClear, ReaperOK, ServiceOK
<1>34. CASE ReapRead BY <1>34 DEF ReapRead
<1>35. CASE ReapWrite BY <1>35 DEF ReapWrite
<1>36. CASE StopBegin \/ StopClear \/ StopPoll \/ StopWake \/ StopPause \/
          StopSettle \/ StopFree \/ StopRetain \/ Abend \/ AdoptFail
  <2>1. CASE StopBegin BY <2>1 DEF StopBegin
  <2>2. CASE StopClear BY <2>2 DEF StopClear
  <2>3. CASE StopPoll BY <2>3 DEF StopPoll
  <2>4. CASE StopWake BY <2>4 DEF StopWake
  <2>5. CASE StopPause BY <2>5 DEF StopPause
  <2>6. CASE StopSettle BY <2>6 DEF StopSettle
  <2>7. CASE StopFree BY <2>7 DEF StopFree
  <2>8. CASE StopRetain BY <2>8 DEF StopRetain
  <2>9. CASE Abend BY <2>9 DEF Abend
  <2>10. CASE AdoptFail BY <2>10 DEF AdoptFail
  <2> QED
    BY <1>36, <2>1, <2>2, <2>3, <2>4, <2>5, <2>6, <2>7, <2>8, <2>9, <2>10
<1>37. CASE AdoptBegin \/ AdoptStamp \/ AdoptScrub \/ AdoptSkip \/ AdoptHold
          \/ AdoptLeave \/ AdoptPost \/ AdoptNext
  <2>1. CASE AdoptBegin BY <2>1 DEF AdoptBegin
  <2>2. CASE AdoptStamp BY <2>2 DEF AdoptStamp
  <2>3. CASE AdoptScrub BY <2>3 DEF AdoptScrub
  <2>4. CASE AdoptSkip BY <2>4 DEF AdoptSkip
  <2>5. CASE AdoptHold BY <2>5 DEF AdoptHold
  <2>6. CASE AdoptLeave BY <2>6 DEF AdoptLeave
  <2>7. CASE AdoptPost BY <2>7 DEF AdoptPost
  <2>8. CASE AdoptNext BY <2>8 DEF AdoptNext
  <2> QED
    BY <1>37, <2>1, <2>2, <2>3, <2>4, <2>5, <2>6, <2>7, <2>8
<1>38. CASE AdoptPoll \/ AdoptPause \/ AdoptSettle \/ AdoptRouter \/
          AdoptActive \/ AdoptSteal
  <2>1. CASE AdoptPoll BY <2>1 DEF AdoptPoll
  <2>2. CASE AdoptPause BY <2>2 DEF AdoptPause
  <2>3. CASE AdoptSettle BY <2>3 DEF AdoptSettle
  <2>4. CASE AdoptRouter BY <2>4 DEF AdoptRouter
  <2>5. CASE AdoptActive BY <2>5 DEF AdoptActive
  <2>6. CASE AdoptSteal BY <2>6 DEF AdoptSteal, AnchorOK
  <2> QED
    BY <1>38, <2>1, <2>2, <2>3, <2>4, <2>5, <2>6
<1>39. CASE Reap
  <2>1. /\ UNCHANGED <<img, disp>> /\ (Serving' <=> Serving)
        /\ busy' # 0 => UNCHANGED <<busy, priv, privecb>>
        /\ spc' \in {"reap_clear", "look", "exec", "adopt_next"}
    BY <1>39, ReapEffect
  <2>2. CASE Serving' /\ busy' # 0
    <3>1. CopyOK /\ Serving /\ busy # 0
      BY <2>1, <2>2
    <3>2. /\ img[busy].req = priv.req /\ disp[priv.req] > 0
          /\ privecb => priv.ans = priv.req
      BY <3>1 DEF CopyOK
    <3> QED
      BY <2>1, <2>2, <3>2
  <2> QED
    BY <2>2
<1> QED
  BY <1>1, <1>2, <1>3, <1>4, <1>5, <1>6, <1>7, <1>8, <1>9, <1>10, <1>11,
     <1>12, <1>13, <1>14, <1>15, <1>16, <1>17, <1>18, <1>19, <1>20, <1>21,
     <1>22, <1>23, <1>24, <1>25, <1>26, <1>27, <1>28, <1>29, <1>30, <1>31,
     <1>32, <1>33, <1>34, <1>35, <1>36, <1>37, <1>38, <1>39
  DEF Next, ClientStep, Serve, Stop, Adopt, Reap

(* The image of an owner's slot stays its request, a DONE one its answer. *)
LEMMA ImageStep ==
    ASSUME IInv, Next
    PROVE  ImageOK'
<1> USE BoundsAssumption, ClientsAssumption DEF IInv, OwnerInv, TypeOK,
        DataTypes, Mine, Go, Goto, Slots, ClientPcs, FREE, CLAIMED, PENDING,
        HELD, DONE, LIVE, DEAD, UNKNOWN, SlotStates, NextSlot, ServerEnds,
        FreshenLocals, OutOfService, ImageOK, NoImage, FlagTypes,
        nsfreqx_result_out, nsfreqx_dispatch_in, Owns, OwnerPcs, Serving,
        ServePcs, ReapPcs, AdoptPcs
<1>1. ASSUME NEW c \in Clients, Enter(c) PROVE ImageOK' BY <1>1 DEF Enter
<1>2. ASSUME NEW c \in Clients, CheckAnchor(c) PROVE ImageOK'
  BY <1>2 DEF CheckAnchor
<1>3. ASSUME NEW c \in Clients, BadAnchor(c) PROVE ImageOK'
  BY <1>3 DEF BadAnchor
<1>4. ASSUME NEW c \in Clients, Claim(c) PROVE ImageOK' BY <1>4 DEF Claim
<1>5. ASSUME NEW c \in Clients, ClaimNext(c) PROVE ImageOK'
  BY <1>5 DEF ClaimNext
<1>6. ASSUME NEW c \in Clients, PoolFull(c) PROVE ImageOK'
  BY <1>6 DEF PoolFull
<1>7. ASSUME NEW c \in Clients, CountIn(c) PROVE ImageOK' BY <1>7 DEF CountIn
<1>8. ASSUME NEW c \in Clients, Stage(c) PROVE ImageOK'
  BY <1>8 DEF Stage, OwnerStates, ExclusiveOwner, LocalsOK
<1>9. ASSUME NEW c \in Clients, PostServer(c) PROVE ImageOK'
  BY <1>9 DEF PostServer
<1>10. ASSUME NEW c \in Clients, PostFails(c) PROVE ImageOK'
  BY <1>10 DEF PostFails
<1>11. ASSUME NEW c \in Clients, WakeServed(c) PROVE ImageOK'
  BY <1>11 DEF WakeServed
<1>12. ASSUME NEW c \in Clients, WakeQuiesced(c) PROVE ImageOK'
  BY <1>12 DEF WakeQuiesced
<1>13. ASSUME NEW c \in Clients, CopyOut(c) PROVE ImageOK'
  BY <1>13 DEF CopyOut
<1>14. ASSUME NEW c \in Clients, Release(c) PROVE ImageOK'
  BY <1>14 DEF Release
<1>15. ASSUME NEW c \in Clients, CountOut(c) PROVE ImageOK'
  BY <1>15 DEF CountOut
<1>16. ASSUME NEW c \in Clients, Die(c) PROVE ImageOK' BY <1>16 DEF Die
<1>17. ASSUME NEW c \in Clients, Reborn(c) PROVE ImageOK' BY <1>17 DEF Reborn
<1>18. ASSUME NEW c \in Clients, Publish(c) PROVE ImageOK'
  <2>1. /\ cs[c] \in Slots /\ <<c, calls[c]>> \in Requests
        /\ img[cs[c]].req = <<c, calls[c]>>
    BY <1>18, OwnerImage DEF Publish
  <2>2. /\ UNCHANGED <<img, cs, calls, disp>>
        /\ req_state' = [req_state EXCEPT ![cs[c]] = PENDING]
        /\ pc' = [pc EXCEPT ![c] = "post"]
    BY <1>18 DEF Publish
  <2>3. ASSUME NEW s \in Slots, req_state'[s] = PENDING
        PROVE  img[s].req \in Requests
    <3>1. CASE s = cs[c]
      BY <2>1, <3>1, ZenonT(60)
    <3>2. CASE s # cs[c]
      BY <2>2, <2>3, <3>2
    <3> QED
      BY <3>1, <3>2
  <2>4. \A d \in Clients \ {c} : Owns(d) => cs[d] # cs[c]
    BY <1>18 DEF Publish, ExclusiveOwner
  <2>5. \A d \in Clients \ {c} : /\ pc'[d] = pc[d]
                                 /\ Owns(d) => req_state'[cs[d]] = req_state[cs[d]]
    BY <2>1, <2>2, <2>4
  <2>6. pc'[c] = "post" /\ req_state'[cs[c]] = PENDING
    BY <2>1, <2>2
  <2> QED
    BY <2>1, <2>2, <2>3, <2>5, <2>6
<1>19. CASE Pass BY <1>19 DEF Pass
<1>20. CASE Sleep \/ Wake \/ PassOther BY <1>20 DEF Sleep, Wake, PassOther
<1>21. CASE Reset BY <1>21 DEF Reset
<1>22. CASE Look BY <1>22 DEF Look
<1>23. CASE ScanMiss BY <1>23 DEF ScanMiss
<1>24. CASE ExecEnd BY <1>24 DEF ExecEnd
<1>25. CASE ExecComplete BY <1>25 DEF ExecComplete
<1>26. CASE Complete
  <2>1. busy \in Slots /\ req_state[busy] = PENDING
    <3>1. spc = "complete"
      BY <1>26 DEF Complete
    <3> QED
      BY <3>1, InService DEF ServiceOK
  <2>2. img'[busy] = [req |-> img[busy].req, ans |-> priv.ans]
    BY <1>26, <2>1 DEF Complete
  <2>3. \A s \in Slots \ {busy} : img'[s] = img[s]
    BY <1>26 DEF Complete
  <2>4. UNCHANGED <<req_state, pc, cs, calls, disp>>
    BY <1>26 DEF Complete
  <2> QED
    BY <2>1, <2>2, <2>3, <2>4 DEF PostedOK, CopyOK, OwnerStates, LocalsOK
<1>27. CASE MarkHeld BY <1>27 DEF MarkHeld
<1>28. CASE MarkDone
  <2>1. busy \in Slots /\ req_state[busy] = PENDING
    BY <1>28 DEF MarkDone, ServiceOK, LocalsOK
  <2>2. img[busy].ans = img[busy].req /\ disp[img[busy].req] > 0
    BY <1>28 DEF MarkDone, CopyOK, LocalsOK
  <2>3. \A s \in Slots \ {busy} : req_state'[s] = req_state[s]
    BY <1>28 DEF MarkDone
  <2>4. UNCHANGED <<img, pc, cs, calls, disp>> /\ req_state'[busy] = DONE
    BY <1>28, <2>1 DEF MarkDone
  <2>5. \A s \in Slots : req_state'[s] = PENDING => img'[s].req \in Requests
    BY <2>1, <2>3, <2>4
  <2>6. ASSUME NEW c \in Clients, pc[c] \in {"post", "wait", "out"}
        PROVE  req_state'[Mine(c)] = DONE => /\ img[Mine(c)].ans = <<c, calls[c]>>
                                            /\ disp[<<c, calls[c]>>] > 0
    <3>1. Mine(c) \in Slots /\ img[Mine(c)].req = <<c, calls[c]>>
      BY <2>6, OwnerImage
    <3>2. CASE Mine(c) = busy
      BY <2>2, <3>1, <3>2
    <3>3. CASE Mine(c) # busy
      BY <2>3, <2>6, <3>1, <3>3
    <3> QED
      BY <3>2, <3>3
  <2> QED
    BY <2>4, <2>5, <2>6
<1>29. CASE Reply BY <1>29 DEF Reply
<1>30. CASE ScanHit BY <1>30 DEF ScanHit
<1>31. CASE ActHold BY <1>31 DEF ActHold
<1>32. CASE ActDispatch
  <2>1. UNCHANGED <<req_state, img, pc, cs, calls>>
    BY <1>32 DEF ActDispatch
  <2>2. ASSUME NEW c \in Clients, pc[c] \in {"post", "wait", "out"},
               req_state[Mine(c)] = DONE
        PROVE  disp'[<<c, calls[c]>>] > 0
    BY <2>2, <1>32, DispGrows, OwnerImage
  <2> QED
    BY <2>1, <2>2
<1>33. CASE ReapClear BY <1>33 DEF ReapClear, ReaperOK, Unowned
<1>34. CASE ReapRead BY <1>34 DEF ReapRead
<1>35. CASE ReapWrite BY <1>35 DEF ReapWrite
<1>36. CASE StopBegin BY <1>36 DEF StopBegin
<1>37. CASE StopClear BY <1>37 DEF StopClear
<1>38. CASE StopPoll BY <1>38 DEF StopPoll
<1>39. CASE StopWake BY <1>39 DEF StopWake
<1>40. CASE StopPause BY <1>40 DEF StopPause
<1>41. CASE StopSettle BY <1>41 DEF StopSettle
<1>42. CASE StopFree BY <1>42 DEF StopFree
<1>43. CASE StopRetain BY <1>43 DEF StopRetain
<1>44. CASE Abend BY <1>44 DEF Abend
<1>45. CASE AdoptFail BY <1>45 DEF AdoptFail
<1>46. CASE AdoptBegin BY <1>46 DEF AdoptBegin
<1>47. CASE AdoptStamp BY <1>47 DEF AdoptStamp
<1>48. CASE AdoptScrub BY <1>48 DEF AdoptScrub
<1>49. CASE AdoptSkip BY <1>49 DEF AdoptSkip
<1>50. CASE AdoptHold BY <1>50 DEF AdoptHold
<1>51. CASE AdoptLeave BY <1>51 DEF AdoptLeave
<1>52. CASE AdoptPost BY <1>52 DEF AdoptPost
<1>53. CASE AdoptNext BY <1>53 DEF AdoptNext
<1>54. CASE AdoptPoll BY <1>54 DEF AdoptPoll
<1>55. CASE AdoptPause BY <1>55 DEF AdoptPause
<1>56. CASE AdoptSettle BY <1>56 DEF AdoptSettle
<1>57. CASE AdoptRouter BY <1>57 DEF AdoptRouter
<1>58. CASE AdoptActive BY <1>58 DEF AdoptActive
<1>59. CASE AdoptSteal BY <1>59 DEF AdoptSteal
<1>60. CASE Reap
  <2>1. UNCHANGED <<img, pc, cs, calls, disp>>
    BY <1>60, ReapEffect
  <2>2. \A s \in Slots : req_state'[s] = PENDING => req_state[s] = PENDING
    BY <1>60, ReapEffect
  <2>3. \A c \in Clients : Owns(c) => req_state'[Mine(c)] = req_state[Mine(c)]
    BY <1>60, ReapEffect
  <2> QED
    BY <2>1, <2>2, <2>3
<1> QED
  BY <1>1, <1>2, <1>3, <1>4, <1>5, <1>6, <1>7, <1>8, <1>9, <1>10, <1>11,
     <1>12, <1>13, <1>14, <1>15, <1>16, <1>17, <1>18, <1>19, <1>20, <1>21,
     <1>22, <1>23, <1>24, <1>25, <1>26, <1>27, <1>28, <1>29, <1>30, <1>31,
     <1>32, <1>33, <1>34, <1>35, <1>36, <1>37, <1>38, <1>39, <1>40, <1>41,
     <1>42, <1>43, <1>44, <1>45, <1>46, <1>47, <1>48, <1>49, <1>50, <1>51,
     <1>52, <1>53, <1>54, <1>55, <1>56, <1>57, <1>58, <1>59, <1>60
  DEF Next, ClientStep, Serve, Stop, Adopt, Reap

(* A call that is told OK is told its own answer. *)
LEMMA AnswerStep ==
    ASSUME IInv, Next
    PROVE  RightAnswer'
<1> USE BoundsAssumption, ClientsAssumption DEF IInv, OwnerInv, TypeOK,
        DataTypes, Mine, Go, Goto, Slots, ClientPcs, FREE, CLAIMED, PENDING,
        HELD, DONE, LIVE, DEAD, UNKNOWN, SlotStates, NextSlot, ServerEnds,
        FreshenLocals, OutOfService, RightAnswer, NoImage, Owns, OwnerPcs,
        Serving, ServePcs, ReapPcs, AdoptPcs
<1>1. ASSUME NEW c \in Clients, Enter(c) PROVE RightAnswer'
  BY <1>1, ZenonT(60) DEF Enter
<1>2. ASSUME NEW c \in Clients, CheckAnchor(c) PROVE RightAnswer'
  BY <1>2 DEF CheckAnchor
<1>3. ASSUME NEW c \in Clients, BadAnchor(c) PROVE RightAnswer'
  BY <1>3 DEF BadAnchor
<1>4. ASSUME NEW c \in Clients, Claim(c) PROVE RightAnswer' BY <1>4 DEF Claim
<1>5. ASSUME NEW c \in Clients, ClaimNext(c) PROVE RightAnswer'
  BY <1>5 DEF ClaimNext
<1>6. ASSUME NEW c \in Clients, PoolFull(c) PROVE RightAnswer'
  BY <1>6 DEF PoolFull
<1>7. ASSUME NEW c \in Clients, CountIn(c) PROVE RightAnswer'
  BY <1>7 DEF CountIn
<1>8. ASSUME NEW c \in Clients, Stage(c) PROVE RightAnswer' BY <1>8 DEF Stage
<1>9. ASSUME NEW c \in Clients, Publish(c) PROVE RightAnswer'
  BY <1>9 DEF Publish
<1>10. ASSUME NEW c \in Clients, PostServer(c) PROVE RightAnswer'
  BY <1>10 DEF PostServer
<1>11. ASSUME NEW c \in Clients, PostFails(c) PROVE RightAnswer'
  BY <1>11 DEF PostFails
<1>12. ASSUME NEW c \in Clients, WakeServed(c) PROVE RightAnswer'
  BY <1>12 DEF WakeServed
<1>13. ASSUME NEW c \in Clients, WakeQuiesced(c) PROVE RightAnswer'
  BY <1>13 DEF WakeQuiesced
<1>14. ASSUME NEW c \in Clients, Release(c) PROVE RightAnswer'
  BY <1>14 DEF Release
<1>15. ASSUME NEW c \in Clients, CountOut(c) PROVE RightAnswer'
  BY <1>15 DEF CountOut
<1>16. ASSUME NEW c \in Clients, Die(c) PROVE RightAnswer' BY <1>16 DEF Die
<1>17. ASSUME NEW c \in Clients, Reborn(c) PROVE RightAnswer'
  BY <1>17, ZenonT(60) DEF Reborn
<1>18. ASSUME NEW c \in Clients, CopyOut(c) PROVE RightAnswer'
  <2> DEFINE r == <<c, calls[c]>>
  <2>2. img[Mine(c)].req = r /\ img[Mine(c)].ans = r /\ disp[r] > 0
    BY <1>18 DEF CopyOut, ImageOK, OwnerStates
  <2>3. img[Mine(c)] \in Images
    BY <1>18 DEF CopyOut, LocalsOK
  <2>4. img[Mine(c)] = [req |-> r, ans |-> r]
    BY <2>2, <2>3, ImageParts
  <2>5. /\ rc' = [rc EXCEPT ![c] = "ok"]
        /\ got' = [got EXCEPT ![c] = img[Mine(c)]]
        /\ UNCHANGED <<calls, disp>>
    BY <1>18 DEF CopyOut
  <2> QED
    BY <2>2, <2>4, <2>5, ZenonT(60)
<1>19. CASE Pass \/ Sleep \/ Wake \/ PassOther \/ Reset \/ Look \/ ScanMiss \/ ExecEnd \/
          ExecComplete \/ Complete \/ MarkHeld \/ MarkDone \/ Reply \/ ScanHit
          \/ ActHold
  <2>1. CASE Pass BY <2>1 DEF Pass
  <2>2. CASE Sleep \/ Wake \/ PassOther BY <2>2 DEF Sleep, Wake, PassOther
  <2>3. CASE Reset BY <2>3 DEF Reset
  <2>4. CASE Look BY <2>4 DEF Look
  <2>5. CASE ScanMiss BY <2>5 DEF ScanMiss
  <2>6. CASE ExecEnd BY <2>6 DEF ExecEnd
  <2>7. CASE ExecComplete BY <2>7 DEF ExecComplete
  <2>8. CASE Complete BY <2>8 DEF Complete
  <2>9. CASE MarkHeld BY <2>9 DEF MarkHeld
  <2>10. CASE MarkDone BY <2>10 DEF MarkDone
  <2>11. CASE Reply BY <2>11 DEF Reply
  <2>12. CASE ScanHit BY <2>12 DEF ScanHit
  <2>13. CASE ActHold BY <2>13 DEF ActHold
  <2> QED
    BY <1>19, <2>1, <2>2, <2>3, <2>4, <2>5, <2>6, <2>7, <2>8, <2>9, <2>10,
       <2>11, <2>12, <2>13
<1>20. CASE ActDispatch
  <2>1. UNCHANGED <<rc, got, calls>>
    BY <1>20 DEF ActDispatch
  <2>2. \A c \in Clients : rc[c] = "ok" => got[c].req \in Requests \cup {NULL}
    BY ImageParts
  <2>3. \A c \in Clients : rc[c] = "ok" => <<c, calls[c]>> \in Requests
    BY DEF Requests, LocalsOK
  <2> QED
    BY <2>1, <2>3, <1>20, DispGrows
<1>21. CASE ReapClear \/ ReapRead \/ ReapWrite \/ StopBegin \/ StopClear \/
          StopPoll \/ StopWake \/ StopPause \/ StopSettle \/ StopFree \/
          StopRetain \/ Abend \/ AdoptFail
  <2>1. CASE ReapClear BY <2>1 DEF ReapClear
  <2>2. CASE ReapRead BY <2>2 DEF ReapRead
  <2>3. CASE ReapWrite BY <2>3 DEF ReapWrite
  <2>4. CASE StopBegin BY <2>4 DEF StopBegin
  <2>5. CASE StopClear BY <2>5 DEF StopClear
  <2>6. CASE StopPoll BY <2>6 DEF StopPoll
  <2>7. CASE StopWake BY <2>7 DEF StopWake
  <2>8. CASE StopPause BY <2>8 DEF StopPause
  <2>9. CASE StopSettle BY <2>9 DEF StopSettle
  <2>10. CASE StopFree BY <2>10 DEF StopFree
  <2>11. CASE StopRetain BY <2>11 DEF StopRetain
  <2>12. CASE Abend BY <2>12 DEF Abend
  <2>13. CASE AdoptFail BY <2>13 DEF AdoptFail
  <2> QED
    BY <1>21, <2>1, <2>2, <2>3, <2>4, <2>5, <2>6, <2>7, <2>8, <2>9, <2>10,
       <2>11, <2>12, <2>13
<1>22. CASE AdoptBegin \/ AdoptStamp \/ AdoptScrub \/ AdoptSkip \/ AdoptHold
          \/ AdoptLeave \/ AdoptPost \/ AdoptNext
  <2>1. CASE AdoptBegin BY <2>1 DEF AdoptBegin
  <2>2. CASE AdoptStamp BY <2>2 DEF AdoptStamp
  <2>3. CASE AdoptScrub BY <2>3 DEF AdoptScrub
  <2>4. CASE AdoptSkip BY <2>4 DEF AdoptSkip
  <2>5. CASE AdoptHold BY <2>5 DEF AdoptHold
  <2>6. CASE AdoptLeave BY <2>6 DEF AdoptLeave
  <2>7. CASE AdoptPost BY <2>7 DEF AdoptPost
  <2>8. CASE AdoptNext BY <2>8 DEF AdoptNext
  <2> QED
    BY <1>22, <2>1, <2>2, <2>3, <2>4, <2>5, <2>6, <2>7, <2>8
<1>23. CASE AdoptPoll \/ AdoptPause \/ AdoptSettle \/ AdoptRouter \/
          AdoptActive \/ AdoptSteal
  <2>1. CASE AdoptPoll BY <2>1 DEF AdoptPoll
  <2>2. CASE AdoptPause BY <2>2 DEF AdoptPause
  <2>3. CASE AdoptSettle BY <2>3 DEF AdoptSettle
  <2>4. CASE AdoptRouter BY <2>4 DEF AdoptRouter
  <2>5. CASE AdoptActive BY <2>5 DEF AdoptActive
  <2>6. CASE AdoptSteal BY <2>6 DEF AdoptSteal
  <2> QED
    BY <1>23, <2>1, <2>2, <2>3, <2>4, <2>5, <2>6
<1>24. CASE Reap
  <2>1. UNCHANGED <<rc, got, calls, disp>>
    BY <1>24, ReapEffect
  <2> QED
    BY <2>1
<1> QED
  BY <1>1, <1>2, <1>3, <1>4, <1>5, <1>6, <1>7, <1>8, <1>9, <1>10, <1>11,
     <1>12, <1>13, <1>14, <1>15, <1>16, <1>17, <1>18, <1>19, <1>20, <1>21,
     <1>22, <1>23, <1>24
  DEF Next, ClientStep, Serve, Stop, Adopt, Reap

-----------------------------------------------------------------------------
(* The theorems.                                                            *)

(* The invariant holds at first. *)
LEMMA InitIInv == Init => IInv
<1> SUFFICES ASSUME Init PROVE IInv
  OBVIOUS
<1> USE BoundsAssumption, ClientsAssumption DEF Init
<1>1. TypeOK /\ LocalsOK
  BY InitTypes
<1>2. spc = "gate" /\ \A c \in Clients : pc[c] = "idle" /\ rc[c] = "none"
  OBVIOUS
<1>3. AsvtOK /\ ExclusiveOwner /\ OwnerStates /\ RightAnswer
  BY <1>2 DEF AsvtOK, ExclusiveOwner, OwnerStates, RightAnswer, Owns, OwnerPcs
<1>4. ReaperOK /\ RestOK /\ PostedOK
  BY <1>2 DEF ReaperOK, RestOK, PostedOK, Settled, Settling, Serving
<1>5. AnchorOK
  <2>1. Serving /\ spc \notin AdoptPcs \cup {"down"} \cup ReapPcs
    BY <1>2 DEF Serving, ServePcs, AdoptPcs, ReapPcs
  <2>2. eye /\ active /\ ecbptr /\ server = gen /\ polls = 0
    BY DEF FreshLocals
  <2> QED
    BY <1>2, <2>1, <2>2 DEF AnchorOK
<1>6. ServiceOK /\ CopyOK
  BY <1>2 DEF ServiceOK, CopyOK, Idle
<1>7. ImageOK
  BY <1>2 DEF ImageOK, FREE, PENDING
<1> QED
  BY <1>1, <1>3, <1>4, <1>5, <1>6, <1>7 DEF IInv, OwnerInv, TypeOK

(* A stutter keeps it. *)
LEMMA StutterIInv == IInv /\ UNCHANGED vars => IInv'
<1> SUFFICES ASSUME IInv, UNCHANGED vars PROVE IInv'
  OBVIOUS
<1> USE DEF IInv, OwnerInv, vars, Mine, Owns, Serving
<1>1. TypeOK' /\ LocalsOK' /\ AsvtOK' /\ ExclusiveOwner'
  BY DEF TypeOK, FlagTypes, DataTypes, LocalsOK, AsvtOK, ExclusiveOwner
<1>2. OwnerStates' /\ ReaperOK' /\ AnchorOK' /\ RestOK'
  BY DEF OwnerStates, ReaperOK, Doomed, Unowned, AnchorOK, RestOK, AtRest
<1>3. PostedOK' /\ ServiceOK' /\ CopyOK'
  BY DEF PostedOK, ServiceOK, CopyOK
<1>4. ImageOK' /\ RightAnswer'
  BY DEF ImageOK, RightAnswer
<1> QED
  BY <1>1, <1>2, <1>3, <1>4

(* A step keeps it, if a pause lasts long enough and there is one. *)
LEMMA NextIInv ==
    ASSUME LongPauses, DrainMax # 0, IInv, Next
    PROVE  IInv'
<1>1. OwnerInv
  BY DEF IInv
<1>2. TypeOK' /\ LocalsOK'
  BY <1>1, FlagStep, DataStep DEF OwnerInv, TypeOK
<1>3. AsvtOK' /\ ExclusiveOwner' /\ OwnerStates' /\ ReaperOK'
  BY <1>1, AsvtStep, OwnerStep, OwnerStatesStep, ReaperStep
<1>4. AnchorOK' /\ RestOK' /\ PostedOK' /\ ServiceOK'
  BY <1>1, AnchorStep, RestStep, PostedStep, ServiceStep
<1>5. CopyOK' /\ ImageOK' /\ RightAnswer'
  BY CopyStep, ImageStep, AnswerStep
<1> QED
  BY <1>2, <1>3, <1>4, <1>5 DEF IInv, OwnerInv

(* The invariant as a whole is an invariant of the pool. *)
THEOREM Inductive ==
    ASSUME LongPauses, DrainMax # 0
    PROVE  Spec => []IInv
<1>1. IInv /\ [Next]_vars => IInv'
  BY NextIInv, StutterIInv
<1> QED
  BY <1>1, InitIInv, PTL DEF Spec

(* No slot is ever handed to two owners, nor freed under its owner, however *)
(* many clients die at any point of the routine, address spaces come back   *)
(* with the same ASID and ASCB, and STCs stop, abend and adopt the pool.    *)
THEOREM SafeOwnership ==
    ASSUME LongPauses, DrainMax # 0
    PROVE  Spec => []ExclusiveOwner
<1>1. IInv => ExclusiveOwner
  BY DEF IInv, OwnerInv
<1> QED
  BY <1>1, Inductive, PTL

(* The slot in service keeps its request and stays PENDING until replied:   *)
(* the drain never reaps it, redispatches it or lets its owner reuse it.     *)
THEOREM ServiceKept ==
    ASSUME LongPauses, DrainMax # 0
    PROVE  Spec => []InServiceIntact
<1>1. IInv => InServiceIntact
  BY DEF IInv, OwnerInv, ServiceOK, CopyOK, InServiceIntact, Serving
<1> QED
  BY <1>1, Inductive, PTL

(* A call told OK got the answer to that very call, of a request that was   *)
(* really dispatched.                                                        *)
THEOREM AnswersMatch ==
    ASSUME LongPauses, DrainMax # 0
    PROVE  Spec => []RightAnswer
<1>1. IInv => RightAnswer
  BY DEF IInv
<1> QED
  BY <1>1, Inductive, PTL

-----------------------------------------------------------------------------
(* The in-flight word.                                                      *)

(* Steps of the STC that leave the tasks, the slots' states and the word   *)
(* alone, and do not free the reaper's path.                                 *)
LEMMA CalmSteps ==
    ASSUME Pass \/ Sleep \/ Wake \/ PassOther \/ Reset \/ Look \/ ScanMiss \/ ExecEnd \/
           ExecComplete \/ Complete \/ Reply \/ ScanHit \/ ActDispatch \/
           StopBegin \/ StopClear \/ StopPoll \/
           StopWake \/ StopPause \/ StopSettle \/ StopFree \/ StopRetain \/
           Abend \/ AdoptFail \/ AdoptBegin \/ AdoptStamp \/ AdoptScrub \/
           AdoptSkip \/ AdoptLeave \/ AdoptPost \/ AdoptNext \/ AdoptPoll \/
           AdoptPause \/ AdoptSettle \/ AdoptRouter \/ AdoptActive \/
           AdoptSteal
    PROVE  /\ UNCHANGED <<req_state, pc, cs, births, inflight>>
           /\ eye' => eye
           /\ spc' \notin ReapPcs
BY
DEF Pass, Sleep, Wake, PassOther, Reset, Look, ScanMiss, ExecEnd, ExecComplete, Complete,
    Reply, ScanHit, ActDispatch, StopBegin, StopClear,
    StopPoll, StopWake, StopPause, StopSettle, StopFree, StopRetain, Abend,
    AdoptFail, AdoptBegin, AdoptStamp, AdoptScrub, AdoptSkip, AdoptLeave,
    AdoptPost, AdoptNext, AdoptPoll, AdoptPause, AdoptSettle, AdoptRouter,
    AdoptActive, AdoptSteal, ServerEnds, ReapPcs, Goto

(* What a task's step does to the pool, as far as the word is concerned. *)
LEMMA TaskSteps ==
    ASSUME IInv, NEW c \in Clients, Enter(c) \/ ClientStep(c) \/ Die(c) \/ Reborn(c)
    PROVE  /\ UNCHANGED <<eye, spc>>
           /\ \A d \in Clients \ {c} : pc'[d] = pc[d] /\ cs'[d] = cs[d]
           /\ NoDeaths' => NoDeaths
BY BoundsAssumption, ClientsAssumption
DEF IInv, OwnerInv, TypeOK, DataTypes, NoDeaths, ClientPcs, Go,
    Enter, ClientStep, CheckAnchor, BadAnchor, Claim, ClaimNext, PoolFull, CountIn,
    Stage, Publish, PostServer, PostFails, WakeServed, WakeQuiesced, CopyOut, Release,
    CountOut, Die, Reborn

(* Without deaths nothing is ever reaped. *)
LEMMA NoReap ==
    ASSUME IInv, CountOK, NoDeaths
    PROVE  ~ Reap /\ ~ ReapClear /\ ~ ReapRead /\ ~ ReapWrite
<1>1. ~ Reap
  <2>1. SUFFICES ASSUME Reap PROVE FALSE
    OBVIOUS
  <2>2. \E s \in Slots : Doomed(s)
    BY <2>1, ReapDoomed DEF IInv
  <2>3. eye
    BY <2>1 DEF IInv, OwnerInv, AnchorOK, Reap, MarkReap, ActReap, AdoptReap, Serving, ServePcs, AdoptPcs
  <2> QED
    BY <2>2, <2>3 DEF CountOK
<1> QED
  BY <1>1 DEF CountOK, ReapClear, ReapRead, ReapWrite, ReapPcs

(* The word is exact, whatever tasks and STC do. *)
LEMMA CountStep ==
    ASSUME IInv, CountOK, Next, Cardinality(Clients) < Wrap
    PROVE  CountOK'
<1> SUFFICES ASSUME NoDeaths'
             PROVE  /\ inflight' = Cardinality(Tallied') /\ spc' \notin ReapPcs
                    /\ eye' => /\ \A c \in Clients : pc'[c] \in {"idle", "check"} => cs'[c] = 0
                               /\ \A s \in Slots : ~Doomed(s)'
  BY DEF CountOK
<1>1. CASE Pass \/ Sleep \/ Wake \/ PassOther \/ Reset \/ Look \/ ScanMiss \/ ExecEnd \/
           ExecComplete \/ Complete \/ Reply \/ ScanHit \/ ActDispatch \/
           StopBegin \/ StopClear \/ StopPoll \/
           StopWake \/ StopPause \/ StopSettle \/ StopFree \/ StopRetain \/
           Abend \/ AdoptFail \/ AdoptBegin \/ AdoptStamp \/ AdoptScrub \/
           AdoptSkip \/ AdoptLeave \/ AdoptPost \/ AdoptNext \/ AdoptPoll \/
           AdoptPause \/ AdoptSettle \/ AdoptRouter \/ AdoptActive \/
           AdoptSteal
  <2>1. /\ UNCHANGED <<req_state, pc, cs, births, inflight>>
        /\ eye' => eye
        /\ spc' \notin ReapPcs
    BY <1>1, CalmSteps
  <2>2. NoDeaths /\ Tallied' = Tallied /\ \A s \in Slots : Doomed(s)' <=> Doomed(s)
    BY <2>1 DEF NoDeaths, Tallied, Doomed, Unowned, Owns, Mine
  <2> QED
    BY <2>1, <2>2 DEF CountOK
<1>2. CASE MarkHeld \/ MarkDone \/ ActHold \/ AdoptHold
  <2>1. UNCHANGED <<pc, cs, births, inflight, eye>> /\ spc' \notin ReapPcs
    BY <1>2 DEF MarkHeld, MarkDone, ActHold, AdoptHold, Goto, ReapPcs
  <2>2. \A s \in Slots : req_state[s] = FREE => req_state'[s] = FREE
    BY <1>2 DEF MarkHeld, MarkDone, ActHold, AdoptHold, IInv, OwnerInv, ServiceOK, TypeOK,
                DataTypes, LocalsOK, AdoptAct, nsfreqx_adopt_action, Serving, ServePcs,
                FREE, PENDING, HELD, DONE, Slots
  <2>3. NoDeaths /\ Tallied' = Tallied /\ \A s \in Slots : Doomed(s)' => Doomed(s)
    BY <2>1, <2>2 DEF NoDeaths, Tallied, Doomed, Unowned, Owns, Mine
  <2> QED
    BY <2>1, <2>3 DEF CountOK
<1>3. CASE Reap \/ ReapClear \/ ReapRead \/ ReapWrite
  <2>1. NoDeaths
    BY <1>3 DEF Reap, MarkReap, ActReap, AdoptReap, ReapClear, ReapRead, ReapWrite, NoDeaths
  <2> QED
    BY <1>3, <2>1, NoReap
<1>4. ASSUME NEW c \in Clients, Enter(c) \/ ClientStep(c) \/ Die(c) \/ Reborn(c)
      PROVE  /\ inflight' = Cardinality(Tallied') /\ spc' \notin ReapPcs
             /\ eye' => /\ \A d \in Clients : pc'[d] \in {"idle", "check"} => cs'[d] = 0
                        /\ \A s \in Slots : ~Doomed(s)'
  <2>1. /\ UNCHANGED <<eye, spc>>
        /\ \A d \in Clients \ {c} : pc'[d] = pc[d] /\ cs'[d] = cs[d]
        /\ NoDeaths
    BY <1>4, TaskSteps
  <2>2. ~ Die(c) /\ ~ Reborn(c)
    BY <2>1 DEF NoDeaths, Die, Reborn, Go, IInv, OwnerInv, TypeOK, DataTypes, ClientPcs
  <2>3. /\ pc \in [Clients -> ClientPcs] /\ pc' \in [Clients -> ClientPcs]
        /\ cs \in [Clients -> 0 .. NSlots] /\ cs' \in [Clients -> 0 .. NSlots]
        /\ req_state \in [Slots -> SlotStates]
    BY FlagStep, DataStep DEF IInv, OwnerInv, TypeOK, DataTypes
  <2>4. inflight' = Cardinality(Tallied')
    <3>1. IsFiniteSet(Tallied) /\ Tallied \subseteq Clients /\ Tallied' \subseteq Clients
      BY ClientsAssumption, FS_Subset DEF Tallied
    <3>2. inflight = Cardinality(Tallied) /\ inflight \in Nat
      BY <2>1, <3>1, FS_CardinalityType DEF CountOK
    <3>3. CASE CountIn(c)
      <4>1. c \notin Tallied /\ Tallied' = Tallied \cup {c}
        BY <2>1, <2>3, <3>3 DEF Tallied, CountIn, Go, Counted
      <4>2. Cardinality(Tallied') = Cardinality(Tallied) + 1
        BY <3>1, <4>1, FS_AddElement
      <4>3. Cardinality(Tallied') <= Cardinality(Clients) /\ Cardinality(Clients) \in Nat
        BY <3>1, ClientsAssumption, FS_Subset, FS_CardinalityType
      <4>4. inflight + 1 \in 0 .. Wrap - 1 /\ inflight' = (inflight + 1) % Wrap
        BY <3>2, <3>3, <4>2, <4>3, BoundsAssumption DEF CountIn
      <4> QED
        BY <3>2, <4>2, <4>4, BoundsAssumption
    <3>4. CASE CountOut(c)
      <4>1. c \in Tallied /\ Tallied' = Tallied \ {c}
        BY <2>1, <2>3, <3>4 DEF Tallied, CountOut, Go, Counted
      <4>2. Cardinality(Tallied') = Cardinality(Tallied) - 1
        BY <3>1, <4>1, FS_RemoveElement
      <4>3. Cardinality(Tallied) <= Cardinality(Clients) /\ Cardinality(Clients) \in Nat
        BY <3>1, ClientsAssumption, FS_Subset, FS_CardinalityType
      <4>4. Cardinality(Tallied') \in Nat
        BY <3>1, <4>1, FS_Subset, FS_CardinalityType
      <4>5. inflight - 1 \in 0 .. Wrap - 1 /\ inflight' = (inflight + Wrap - 1) % Wrap
        BY <3>2, <3>4, <4>2, <4>3, <4>4, BoundsAssumption DEF CountOut
      <4>6. (inflight + Wrap - 1) % Wrap = inflight - 1
        BY <3>2, <4>5, BoundsAssumption
      <4> QED
        BY <3>2, <4>2, <4>5, <4>6
    <3>5. CASE ~ CountIn(c) /\ ~ CountOut(c)
      <4>1. inflight' = inflight
        BY <1>4, <2>2, <3>5 DEF Enter, ClientStep, CheckAnchor, BadAnchor, Claim, ClaimNext,
             PoolFull, Stage, Publish, PostServer, PostFails, WakeServed, WakeQuiesced,
             CopyOut, Release
      <4>2. c \in Tallied' <=> c \in Tallied
        <5> USE <2>1, <2>3 DEF Tallied, Go, Counted, CountOK
        <5>1. CASE Enter(c) BY <5>1 DEF Enter
        <5>2. CASE CheckAnchor(c) BY <5>2 DEF CheckAnchor
        <5>3. CASE BadAnchor(c) BY <5>3 DEF BadAnchor
        <5>4. CASE Claim(c) BY <5>4 DEF Claim
        <5>5. CASE ClaimNext(c) BY <5>5 DEF ClaimNext
        <5>6. CASE PoolFull(c) BY <5>6 DEF PoolFull
        <5>7. CASE Stage(c) BY <5>7 DEF Stage
        <5>8. CASE Publish(c) BY <5>8 DEF Publish
        <5>9. CASE PostServer(c) BY <5>9 DEF PostServer
        <5>10. CASE PostFails(c) BY <5>10 DEF PostFails
        <5>11. CASE WakeServed(c) BY <5>11 DEF WakeServed
        <5>12. CASE WakeQuiesced(c) BY <5>12 DEF WakeQuiesced, IInv, OwnerInv, LocalsOK, OwnerPcs, Mine
        <5>13. CASE CopyOut(c) BY <5>13 DEF CopyOut
        <5>14. CASE Release(c) BY <5>14 DEF Release
        <5> QED
          BY <1>4, <2>2, <3>5, <5>1, <5>2, <5>3, <5>4, <5>5, <5>6, <5>7, <5>8, <5>9, <5>10,
             <5>11, <5>12, <5>13, <5>14 DEF ClientStep
      <4>3. Tallied' = Tallied
        BY <2>1, <4>2 DEF Tallied
      <4> QED
        BY <3>2, <4>1, <4>3
    <3> QED
      BY <3>3, <3>4, <3>5
  <2>5. ASSUME eye', NEW d \in Clients, pc'[d] \in {"idle", "check"} PROVE cs'[d] = 0
    <3>1. CASE d # c
      BY <2>1, <2>5, <3>1 DEF CountOK
    <3>2. CASE d = c
      BY <1>4, <2>1, <2>2, <2>3, <2>5, <3>2 DEF CountOK, Go, Enter, ClientStep, CheckAnchor,
         BadAnchor, Claim, ClaimNext, PoolFull, CountIn, Stage, Publish, PostServer, PostFails,
         WakeServed, WakeQuiesced, CopyOut, Release, CountOut
    <3> QED
      BY <3>1, <3>2
  <2>6. ASSUME eye', NEW s \in Slots, Doomed(s)' PROVE FALSE
    <3>1. ~ Doomed(s)
      BY <2>1, <2>6 DEF CountOK
    <3>2. /\ req_state'[s] # FREE
          /\ \A d \in Clients : pc'[d] \in OwnerPcs => cs'[d] # s
      BY <2>6 DEF Doomed, Unowned, Owns, Mine
    <3>3. CASE Claim(c)
      BY <2>1, <2>3, <3>1, <3>2, <3>3 DEF Claim, Go, Doomed, Unowned, Owns, Mine, OwnerPcs
    <3>4. CASE Release(c)
      BY <2>1, <2>3, <3>1, <3>2, <3>4 DEF Release, Go, Doomed, Unowned, Owns, Mine, OwnerPcs
    <3>5. CASE Publish(c)
      BY <2>1, <2>3, <3>1, <3>2, <3>5 DEF Publish, Go, Doomed, Unowned, Owns, Mine, OwnerPcs
    <3>6. CASE ~ Claim(c) /\ ~ Release(c) /\ ~ Publish(c)
      <4>1. req_state' = req_state
        BY <1>4, <2>2, <3>6 DEF Enter, ClientStep, CheckAnchor, BadAnchor, ClaimNext,
           PoolFull, CountIn, Stage, PostServer, PostFails, WakeServed, WakeQuiesced, CopyOut, CountOut
      <4>2. pc[c] \in OwnerPcs => pc'[c] \in OwnerPcs /\ cs'[c] = cs[c]
        BY <1>4, <2>2, <2>3, <2>6, <2>1, <3>6 DEF Enter, ClientStep, CheckAnchor, BadAnchor, ClaimNext,
           PoolFull, CountIn, Stage, PostServer, PostFails, WakeServed, WakeQuiesced, CopyOut, CountOut,
           OwnerPcs, Go
      <4> QED
        BY <2>1, <3>1, <3>2, <4>1, <4>2 DEF Doomed, Unowned, Owns, Mine
    <3> QED
      BY <3>3, <3>4, <3>5, <3>6
  <2> QED
    BY <2>1, <2>4, <2>5, <2>6 DEF CountOK
<1> QED
  BY <1>1, <1>2, <1>3, <1>4 DEF Next, Serve, Stop, Adopt, Reap

-----------------------------------------------------------------------------
(* The pause before the second look lets every task come to rest; what is  *)
(* at rest and not counted is with its caller.                              *)
LEMMA EmptyRoutine ==
    ASSUME LongPauses, IInv, CountOK, NoDeaths, PauseOver, inflight = 0
    PROVE  NobodyInside
<1>1. IsFiniteSet(Tallied)
  BY ClientsAssumption, FS_Subset DEF Tallied
<1>2. Tallied = {}
  BY <1>1, FS_EmptySet DEF CountOK
<1>3. \A c \in Clients : pc[c] \in {"idle", "dead", "wait"}
  BY DEF PauseOver, AtRest
<1> QED
  BY <1>2, <1>3 DEF Tallied, Counted, NobodyInside

(* Nobody gets into the routine until routine and anchor are gone. *)
LEMMA StillStep ==
    ASSUME LongPauses, IInv, CountOK, StillOK, Next
    PROVE  StillOK'
<1> USE DEF StillOK, Goto
<1>0. /\ spc = "stop_free" \/ quiet => ~ svc
      /\ pc \in [Clients -> ClientPcs]
  BY DEF IInv, OwnerInv, AnchorOK, TypeOK, DataTypes
<1>1. ASSUME NEW c \in Clients, Enter(c) \/ ClientStep(c) \/ Die(c) \/ Reborn(c)
      PROVE  StillOK'
  <2>1. UNCHANGED <<spc, quiet, back>>
    BY <1>1 DEF Enter, ClientStep, CheckAnchor, BadAnchor, Claim, ClaimNext, PoolFull, CountIn,
       Stage, Publish, PostServer, PostFails, WakeServed, WakeQuiesced, CopyOut, Release,
       CountOut, Die, Reborn
  <2>2. NoDeaths' => NoDeaths
    BY <1>1, TaskSteps
  <2>3. NobodyInside /\ ~ svc => NobodyInside'
    <3>1. SUFFICES ASSUME NobodyInside, ~ svc, NEW d \in Clients
                   PROVE  pc'[d] \in {"idle", "dead"}
      BY DEF NobodyInside
    <3>2. pc[d] \in {"idle", "dead"} /\ pc[c] \in {"idle", "dead"}
      BY <3>1 DEF NobodyInside
    <3>3. pc'[c] \in {"idle", "dead"}
      <4>1. Reborn(c)
        BY <1>1, <3>1, <3>2 DEF Enter, ClientStep, CheckAnchor, BadAnchor, Claim, ClaimNext,
           PoolFull, CountIn, Stage, Publish, PostServer, PostFails, WakeServed, WakeQuiesced,
           CopyOut, Release, CountOut, Die
      <4> QED
        BY <1>0, <4>1 DEF Reborn, Go
    <3>4. d # c => pc'[d] = pc[d]
      BY <1>1, TaskSteps
    <3> QED
      BY <3>2, <3>3, <3>4
  <2>4. (Serving' <=> Serving) /\ (quiet' <=> quiet) /\ spc' = spc
    BY <2>1 DEF Serving
  <2>5. SUFFICES ASSUME spc = "stop_free" \/ quiet
                 PROVE  ~ Serving' /\ (NoDeaths' => NobodyInside')
    BY <2>4
  <2> QED
    BY <1>0, <2>2, <2>3, <2>4, <2>5
<1>2. CASE StopSettle
  <2>1. UNCHANGED <<pc, births, quiet>> /\ spc' \in {"stop_free", "stop_retain"}
        /\ PauseOver /\ (spc' = "stop_free" => inflight = 0)
    BY <1>2 DEF StopSettle
  <2>2. ~ Serving'
    BY <2>1 DEF Serving, ServePcs, ReapPcs
  <2>3. NoDeaths' => NoDeaths /\ (NobodyInside => NobodyInside')
    BY <2>1 DEF NoDeaths, NobodyInside
  <2> QED
    BY <2>1, <2>2, <2>3, EmptyRoutine
<1>3. CASE AdoptSettle
  <2>1. UNCHANGED <<pc, births>> /\ spc' = "adopt_router" /\ PauseOver /\ (quiet' => inflight = 0)
    BY <1>3 DEF AdoptSettle
  <2>2. ~ Serving'
    BY <2>1 DEF Serving, ServePcs, ReapPcs
  <2>3. NoDeaths' => NoDeaths /\ (NobodyInside => NobodyInside')
    BY <2>1 DEF NoDeaths, NobodyInside
  <2> QED
    BY <2>1, <2>2, <2>3, EmptyRoutine
<1>4. CASE StopClear \/ StopFree \/ StopRetain \/ Abend \/ AdoptFail \/ AdoptSteal
  BY <1>4 DEF StopClear, StopFree, StopRetain, Abend, AdoptFail, AdoptSteal, ServerEnds, FreshenLocals
<1>5. CASE Reap \/ ReapClear \/ ReapRead \/ ReapWrite
  <2>1. UNCHANGED <<pc, births, quiet>> /\ spc' # "stop_free" /\ (Serving' => Serving)
    <3>1. CASE Reap
      <4>1. UNCHANGED pc /\ spc' \in {"reap_clear", "look", "exec", "adopt_next"} /\ (Serving' <=> Serving)
        BY <3>1, ReapEffect DEF IInv
      <4> QED
        BY <3>1, <4>1 DEF Reap, MarkReap, ActReap, AdoptReap
    <3>2. CASE ReapClear
      BY <3>2 DEF ReapClear, Serving, ServePcs, ReapPcs
    <3>3. CASE ReapRead
      BY <3>3 DEF ReapRead, Serving, ServePcs, ReapPcs, IInv, OwnerInv, TypeOK, DataTypes
    <3>4. CASE ReapWrite
      BY <3>4 DEF ReapWrite, Serving, ServePcs, ReapPcs, IInv, OwnerInv, TypeOK, DataTypes
    <3> QED
      BY <1>5, <3>1, <3>2, <3>3, <3>4
  <2> QED
    BY <2>1 DEF NoDeaths, NobodyInside
<1>6. CASE Pass \/ Sleep \/ Wake \/ PassOther \/ Reset \/ Look \/ ScanMiss \/ ExecEnd \/ ExecComplete \/ Complete
           \/ Reply \/ ScanHit \/ ActDispatch \/ StopBegin \/ MarkHeld \/ MarkDone \/ ActHold
  <2>1. UNCHANGED <<pc, births, quiet>> /\ spc' # "stop_free" /\ Serving
    BY <1>6 DEF Pass, Sleep, Wake, PassOther, Reset, Look, ScanMiss, ExecEnd, ExecComplete, Complete, Reply, ScanHit,
       ActDispatch, StopBegin, MarkHeld, MarkDone, ActHold, Serving, ServePcs
  <2> QED
    BY <2>1
<1>7. CASE StopPoll \/ StopWake \/ StopPause \/ AdoptBegin \/ AdoptStamp \/ AdoptScrub \/ AdoptSkip
           \/ AdoptHold \/ AdoptLeave \/ AdoptPost \/ AdoptNext \/ AdoptPoll \/ AdoptPause
           \/ AdoptRouter \/ AdoptActive
  <2>1. UNCHANGED <<pc, births, quiet>> /\ spc' # "stop_free" /\ ~ Serving'
    BY <1>7 DEF StopPoll, StopWake, StopPause, AdoptBegin, AdoptStamp, AdoptScrub, AdoptSkip, AdoptHold,
       AdoptLeave, AdoptPost, AdoptNext, AdoptPoll, AdoptPause, AdoptRouter, AdoptActive,
       Serving, ServePcs, ReapPcs
  <2> QED
    BY <2>1 DEF NoDeaths, NobodyInside
<1> QED
  BY <1>1, <1>2, <1>3, <1>4, <1>5, <1>6, <1>7 DEF Next, Serve, Stop, Adopt, Reap

(* With no deaths allowed there are none. *)
LEMMA Deathless ==
    ASSUME MaxDeaths = 0
    PROVE  Spec => []NoDeaths
<1> DEFINE Alive == NoDeaths /\ TypeOK
<1>1. Init => NoDeaths
  BY DEF Init, NoDeaths
<1>2. TypeOK /\ NoDeaths /\ [Next]_vars => NoDeaths'
  <2> SUFFICES ASSUME TypeOK, NoDeaths, [Next]_vars PROVE NoDeaths'
    OBVIOUS
  <2>1. ASSUME NEW c \in Clients, Enter(c) \/ ClientStep(c) \/ Die(c) \/ Reborn(c)
        PROVE  NoDeaths'
    <3>1. ~ Die(c)
      <4>1. Cardinality({d \in Clients : pc[d] = "dead"}) \in Nat
        BY ClientsAssumption, FS_Subset, FS_CardinalityType
      <4> QED
        BY <4>1 DEF Die, Died, TypeOK, DataTypes
    <3>2. ~ Reborn(c)
      BY DEF Reborn, NoDeaths
    <3> QED
      BY <2>1, <3>1, <3>2 DEF NoDeaths, Go, TypeOK, DataTypes, Enter, ClientStep, CheckAnchor, BadAnchor,
         Claim, ClaimNext, PoolFull, CountIn, Stage, Publish, PostServer, PostFails, WakeServed,
         WakeQuiesced, CopyOut, Release, CountOut
  <2>2. CASE Reap \/ MarkHeld \/ MarkDone \/ ActHold \/ AdoptHold \/ ReapClear \/ ReapRead \/ ReapWrite
    BY <2>2 DEF NoDeaths, Reap, MarkReap, ActReap, AdoptReap, MarkHeld, MarkDone, ActHold, AdoptHold,
       ReapClear, ReapRead, ReapWrite
  <2>3. CASE UNCHANGED vars
    BY <2>3 DEF NoDeaths, vars
  <2> QED
    BY <2>1, <2>2, <2>3, CalmSteps DEF Next, Serve, Stop, Adopt, Reap, NoDeaths
<1> QED
  BY <1>1, <1>2, TypeCorrect, PTL DEF Spec

LEMMA CountInit == Init => CountOK /\ StillOK
<1> SUFFICES ASSUME Init PROVE CountOK /\ StillOK
  OBVIOUS
<1>1. Tallied = {}
  BY DEF Init, Tallied, Counted
<1>2. \A s \in Slots : ~ Doomed(s)
  BY DEF Init, Doomed
<1> QED
  BY <1>1, <1>2, FS_EmptySet DEF Init, FreshLocals, CountOK, StillOK, ReapPcs

LEMMA CountStutters == (CountOK /\ StillOK) /\ UNCHANGED vars => (CountOK /\ StillOK)'
BY DEF vars, CountOK, StillOK, NoDeaths, Tallied, Doomed, Unowned, Owns, Mine, Serving, NobodyInside

(* As long as no address space has ended, the in-flight word covers every  *)
(* client between its increment and its decrement, through stops, abends    *)
(* and restarts.                                                             *)
THEOREM CountsAll ==
    ASSUME LongPauses, DrainMax # 0, Cardinality(Clients) < Wrap
    PROVE  Spec => [](NoDeaths => InflightCovers)
<1>1. Spec => []IInv
  BY Inductive
<1>2. IInv /\ CountOK /\ [Next]_vars => CountOK'
  BY CountStep, CountStutters DEF CountOK, NoDeaths, Tallied, Doomed, Unowned, Owns, Mine, vars
<1>3. CountOK => (NoDeaths => InflightCovers)
  <2>1. SUFFICES ASSUME CountOK, NoDeaths PROVE InflightCovers
    OBVIOUS
  <2>2. {c \in Clients : pc[c] \in Counted} \subseteq Tallied /\ IsFiniteSet(Tallied)
    BY ClientsAssumption, FS_Subset DEF Tallied
  <2> QED
    BY <2>1, <2>2, FS_Subset DEF CountOK, InflightCovers
<1>4. Init => CountOK
  BY CountInit
<1> QED
  BY <1>1, <1>2, <1>3, <1>4, PTL DEF Spec

(* Neither routine nor anchor is taken away from under a client, as long as *)
(* no address space ends (with a death it can happen: run PoolPulled).       *)
THEOREM NeverPulled ==
    ASSUME LongPauses, DrainMax # 0, Cardinality(Clients) < Wrap, MaxDeaths = 0
    PROVE  Spec => NotPulledAway
<1> DEFINE Sure == CountOK /\ StillOK
<1>1. Spec => []IInv
  BY Inductive
<1>2. IInv /\ Sure /\ [Next]_vars => Sure'
  BY CountStep, StillStep, CountStutters
<1>3. Spec => []NoDeaths
  BY Deathless
<1>4. IInv /\ Sure /\ NoDeaths /\ [Next]_vars
        => [(router' # router \/ eye' # eye) => NobodyInside]_vars
  <2> SUFFICES ASSUME IInv, Sure, NoDeaths, Next, router' # router \/ eye' # eye
               PROVE  NobodyInside
    BY DEF vars
  <2>1. ASSUME NEW c \in Clients, Enter(c) \/ ClientStep(c) \/ Die(c) \/ Reborn(c)
        PROVE  UNCHANGED <<router, eye>>
    BY <2>1 DEF Enter, ClientStep, CheckAnchor, BadAnchor, Claim, ClaimNext, PoolFull, CountIn, Stage,
       Publish, PostServer, PostFails, WakeServed, WakeQuiesced, CopyOut, Release, CountOut, Die, Reborn
  <2>2. StopFree \/ (AdoptRouter /\ quiet)
    BY <2>1 DEF Next, Serve, Stop, Adopt, Pass, Sleep, Wake, PassOther, Reset, Look, ScanMiss, ExecEnd, ExecComplete,
       Complete, Reply, ScanHit, ActDispatch, StopBegin, StopClear, StopPoll, StopWake, StopPause,
       StopSettle, StopRetain, Abend, AdoptFail, AdoptBegin, AdoptStamp, AdoptScrub, AdoptSkip,
       AdoptLeave, AdoptPost, AdoptNext, AdoptPoll, AdoptPause, AdoptSettle, AdoptRouter, AdoptActive,
       AdoptSteal, MarkHeld, MarkDone, ActHold, AdoptHold, MarkReap, ActReap, AdoptReap, ReapClear,
       ReapRead, ReapWrite
  <2> QED
    BY <2>2 DEF StillOK, StopFree
<1>5. Init => Sure
  BY CountInit
<1> QED
  BY <1>1, <1>2, <1>3, <1>4, <1>5, PTL DEF Spec, NotPulledAway

-----------------------------------------------------------------------------
(* Requests: each is staged once and dispatched once.                      *)

Task(c) == Enter(c) \/ ClientStep(c) \/ Die(c) \/ Reborn(c)

(* What no step of the STC does to tasks and slots. *)
LEMMA ServerSteps ==
    ASSUME IInv, Next, \A c \in Clients : ~ Task(c)
    PROVE  /\ UNCHANGED <<tasks, world>>
           /\ \A s \in Slots : req_state'[s] # FREE => req_state[s] # FREE
           /\ \A s \in Slots : req_state'[s] = PENDING => req_state[s] = PENDING
           /\ \A s \in Slots : img'[s].req \in {img[s].req, NULL}
           /\ \A s \in Slots : owner'[s] = owner[s] \/ req_state'[s] = FREE
           /\ ActDispatch \/ disp' = disp
<1> USE DEF IInv, OwnerInv, TypeOK, DataTypes, Goto, SlotStates, FREE, CLAIMED, PENDING, HELD, DONE
<1>1. CASE Pass \/ Sleep \/ Wake \/ PassOther \/ Reset \/ Look \/ ScanMiss \/ ExecEnd \/ ExecComplete
           \/ Reply \/ ScanHit \/ ActDispatch \/ StopBegin
  BY <1>1 DEF Pass, Sleep, Wake, PassOther, Reset, Look, ScanMiss, ExecEnd, ExecComplete, Reply, ScanHit,
     ActDispatch, StopBegin
<1>2. CASE Stop \/ Abend \/ AdoptFail \/ AdoptBegin
  BY <1>2 DEF Stop, StopClear, StopPoll, StopWake, StopPause, StopSettle, StopFree, StopRetain, Abend,
     AdoptFail, AdoptBegin, ServerEnds
<1>3. CASE AdoptStamp \/ AdoptScrub \/ AdoptSkip \/ AdoptLeave \/ AdoptPost \/ AdoptNext \/ AdoptPoll
           \/ AdoptPause \/ AdoptSettle \/ AdoptRouter \/ AdoptActive \/ AdoptSteal \/ ReapRead
           \/ ReapWrite
  BY <1>3 DEF AdoptStamp, AdoptScrub, AdoptSkip, AdoptLeave, AdoptPost, AdoptNext, AdoptPoll, AdoptPause,
     AdoptSettle, AdoptRouter, AdoptActive, AdoptSteal, ReapRead, ReapWrite
<1>4. CASE Complete
  <2>1. UNCHANGED <<tasks, world, req_state, owner, disp>>
        /\ img' = [img EXCEPT ![busy] = [req |-> img[busy].req, ans |-> priv.ans]]
    BY <1>4 DEF Complete, nsfreqx_result_out
  <2> QED
    BY <2>1
<1>5. CASE MarkHeld \/ MarkDone
  <2>1. busy \in Slots /\ req_state[busy] = PENDING
    BY <1>5 DEF MarkHeld, MarkDone, LocalsOK, ServiceOK, Slots, Serving, ServePcs
  <2> QED
    BY <1>5, <2>1 DEF MarkHeld, MarkDone
<1>6. CASE ActHold
  BY <1>6 DEF ActHold, ServiceOK
<1>7. CASE AdoptHold
  BY <1>7 DEF AdoptHold, AdoptAct, nsfreqx_adopt_action
<1>8. CASE Reap
  <2>1. PICK s \in Slots, next \in {"look", "exec", "adopt_next"} : Doomed(s) /\ ReapStart(s, next)
    BY <1>8, ReapDoomed
  <2>2. UNCHANGED <<tasks, world, owner, img, disp>>
    BY <1>8, ReapEffect DEF Reap, MarkReap, ActReap, AdoptReap
  <2>3. req_state' = req_state \/ (req_state' = [req_state EXCEPT ![s] = CLAIMED] /\ req_state[s] # FREE)
    BY <2>1 DEF ReapStart, Doomed
  <2> QED
    BY <2>2, <2>3
<1>9. CASE ReapClear
  BY <1>9 DEF ReapClear, NoImage
<1> QED
  BY <1>1, <1>2, <1>3, <1>4, <1>5, <1>6, <1>7, <1>8, <1>9 DEF Next, Task, Serve, Adopt, Reap

(* What no step of a task but the one named does to requests and slots. *)
LEMMA TaskRequests ==
    ASSUME IInv, NEW c \in Clients, Task(c)
    PROVE  /\ UNCHANGED stc
           /\ \A d \in Clients \ {c} : pc'[d] = pc[d] /\ calls'[d] = calls[d]
           /\ \A s \in Slots \ {cs[c]} : req_state'[s] = req_state[s] /\ img'[s] = img[s]
                                         /\ owner'[s] = owner[s]
           /\ ~ Enter(c) => calls'[c] = calls[c]
           /\ ~ Stage(c) => img' = img
           /\ ~ Claim(c) => owner' = owner
           /\ ~ Claim(c) /\ ~ Publish(c) /\ ~ Release(c) => req_state' = req_state
           /\ ~ Enter(c) => /\ pc'[c] \in {"check", "scan", "inc", "stage"}
                                => pc[c] \in {"check", "scan", "inc", "stage"}
           /\ pc'[c] = "publish" => Stage(c)
BY DEF IInv, OwnerInv, TypeOK, DataTypes, Task, Go, Enter, ClientStep, CheckAnchor, BadAnchor, Claim,
   ClaimNext, PoolFull, CountIn, Stage, Publish, PostServer, PostFails, WakeServed, WakeQuiesced,
   CopyOut, Release, CountOut, Die, Reborn, Mine

(* A request is staged into one slot, and is nowhere before. *)
LEMMA OneSlotStep ==
    ASSUME IInv, OneSlotOK, Next
    PROVE  OneSlotOK'
<1>0. /\ req_state \in [Slots -> SlotStates] /\ img \in [Slots -> Images]
      /\ owner \in [Slots -> Clients \cup {NULL}]
      /\ pc \in [Clients -> ClientPcs] /\ calls \in [Clients -> 0 .. MaxCalls]
      /\ disp \in [Requests -> Nat] /\ MaxCalls \in Nat
  BY BoundsAssumption DEF IInv, OwnerInv, TypeOK, DataTypes
<1>1. ASSUME NEW c \in Clients, Task(c)
      PROVE  OneSlotOK'
  <2>1. CASE Stage(c)
    <3> DEFINE r == <<c, calls[c]>>
    <3>1. pc[c] = "stage" /\ cs[c] \in Slots /\ calls[c] \in 1 .. MaxCalls
      <4>1. pc[c] = "stage"
        BY <2>1 DEF Stage
      <4>2. cs[c] # 0 /\ calls[c] # 0
        BY <4>1 DEF IInv, OwnerInv, LocalsOK, Mine, OwnerPcs
      <4>3. cs[c] \in 0 .. NSlots /\ calls[c] \in 0 .. MaxCalls
        BY DEF IInv, OwnerInv, TypeOK, DataTypes
      <4> QED
        BY <1>0, <4>1, <4>2, <4>3, BoundsAssumption DEF Slots
    <3>2. disp[r] = 0 /\ \A s \in Slots : img[s].req # r
      BY <3>1 DEF OneSlotOK, Unstaged
    <3>3. /\ img' = [img EXCEPT ![cs[c]] = [req |-> r, ans |-> NULL]]
          /\ pc' = [pc EXCEPT ![c] = "publish"]
          /\ UNCHANGED <<calls, disp, owner, req_state>>
      BY <2>1 DEF Stage, Mine, Go
    <3>4. \A d \in Clients, n \in 1 .. MaxCalls :
             Unstaged(d, n)' => Unstaged(d, n) /\ <<d, n>> # r
      BY <1>0, <3>1, <3>3 DEF Unstaged
    <3>5. \A s \in Slots : img'[s].req = IF s = cs[c] THEN r ELSE img[s].req
      BY <1>0, <3>3
    <3> HIDE DEF r
    <3>6. \A s, t \in Slots : s # t /\ img'[s].req = img'[t].req => img'[s].req = NULL
      BY <3>1, <3>2, <3>5 DEF OneSlotOK
    <3>7. ASSUME NEW d \in Clients, NEW n \in 1 .. MaxCalls, Unstaged(d, n)'
          PROVE  disp'[<<d, n>>] = 0 /\ \A s \in Slots : img'[s].req # <<d, n>>
      BY <3>1, <3>3, <3>4, <3>5, <3>7 DEF OneSlotOK
    <3> QED
      BY <3>3, <3>6, <3>7 DEF OneSlotOK
  <2>2. CASE ~ Stage(c)
    <3>1. img' = img /\ disp' = disp
      BY <1>1, <2>2, TaskRequests
    <3>2. \A d \in Clients, n \in 1 .. MaxCalls : Unstaged(d, n)' => Unstaged(d, n)
      <4>1. SUFFICES ASSUME NEW d \in Clients, NEW n \in 1 .. MaxCalls, Unstaged(d, n)'
                     PROVE  Unstaged(d, n)
        OBVIOUS
      <4>2. CASE d # c
        BY <1>1, <4>1, <4>2, TaskRequests DEF Unstaged
      <4>3. CASE d = c /\ Enter(c)
        <5>1. calls'[c] = calls[c] + 1 /\ calls[c] \in Nat
          BY <1>0, <4>3 DEF Enter
        <5> QED
          BY <4>1, <4>3, <5>1 DEF Unstaged
      <4>4. CASE d = c /\ ~ Enter(c)
        BY <1>1, <4>1, <4>4, TaskRequests DEF Unstaged
      <4> QED
        BY <4>2, <4>3, <4>4
    <3>3. \A s \in Slots : req_state'[s] # FREE => owner'[s] # NULL
      <4>1. CASE Claim(c)
        BY <1>0, <4>1, ClientsAssumption DEF Claim, OneSlotOK
      <4>2. CASE Publish(c)
        <5>1. req_state[cs[c]] = CLAIMED
          BY <4>2 DEF Publish, IInv, OwnerInv, OwnerStates, Mine
        <5> QED
          BY <1>0, <4>2, <5>1 DEF Publish, OneSlotOK, Mine, FREE, CLAIMED
      <4>3. CASE Release(c)
        BY <1>0, <4>3 DEF Release, OneSlotOK, Mine
      <4> QED
        BY <1>1, <4>1, <4>2, <4>3, TaskRequests DEF OneSlotOK
    <3> QED
      BY <3>1, <3>2, <3>3 DEF OneSlotOK
  <2> QED
    BY <2>1, <2>2
<1>2. CASE \A c \in Clients : ~ Task(c)
  <2>1. /\ UNCHANGED <<pc, calls>>
        /\ \A s \in Slots : req_state'[s] # FREE => req_state[s] # FREE
        /\ \A s \in Slots : img'[s].req \in {img[s].req, NULL}
        /\ \A s \in Slots : owner'[s] = owner[s] \/ req_state'[s] = FREE
    BY <1>2, ServerSteps
  <2>2. \A d \in Clients, n \in 1 .. MaxCalls :
           Unstaged(d, n)' => disp'[<<d, n>>] = 0 /\ \A s \in Slots : img[s].req # <<d, n>>
    <3>1. CASE ActDispatch
      <4>1. disp' = [disp EXCEPT ![img[idx].req] = @ + 1] /\ idx \in Slots
        BY <3>1 DEF ActDispatch, IInv, OwnerInv, TypeOK, DataTypes
      <4> QED
        BY <1>0, <2>1, <4>1 DEF OneSlotOK, Unstaged, Requests
    <3>2. CASE disp' = disp
      BY <2>1, <3>2 DEF OneSlotOK, Unstaged
    <3> QED
      BY <1>2, <3>1, <3>2, ServerSteps
  <2>3. \A d \in Clients, n \in 1 .. MaxCalls : <<d, n>> # NULL
    BY ClientsAssumption
  <2> QED
    BY <2>1, <2>2, <2>3 DEF OneSlotOK
<1> QED
  BY <1>1, <1>2

-----------------------------------------------------------------------------
Stale(s) == req_state[s] = PENDING /\ disp[img[s].req] > 0

(* What is dispatched was never dispatched before. *)
LEMMA DispatchesFresh ==
    ASSUME IInv, FreshOK, ActDispatch
    PROVE  /\ idx \in Slots /\ img[idx].req \in Requests /\ disp[img[idx].req] = 0
           /\ busy = 0 /\ req_state[idx] = PENDING
           /\ disp' = [disp EXCEPT ![img[idx].req] = 1] /\ busy' = idx
           /\ Serving /\ Serving'
<1>1. idx \in Slots /\ disp \in [Requests -> Nat]
  BY DEF IInv, OwnerInv, TypeOK, DataTypes
<1>2. busy = 0 /\ req_state[idx] = PENDING /\ spc = "act" /\ spc' = "exec"
  BY DEF ActDispatch, IInv, OwnerInv, ServiceOK, Goto
<1>3. img[idx].req \in Requests
  BY <1>1, <1>2 DEF IInv, ImageOK
<1>4. Serving /\ Serving'
  BY <1>2 DEF Serving, ServePcs
<1>5. ~ Ahead(idx)
  BY <1>2 DEF Ahead, ReapPcs, StopPcs
<1>6. idx # busy
  BY <1>1, <1>2 DEF Slots
<1>7. ~ (disp[img[idx].req] > 0)
  BY <1>1, <1>2, <1>5, <1>6 DEF FreshOK
<1>8. disp[img[idx].req] = 0
  BY <1>1, <1>3, <1>7
<1>9. disp' = [disp EXCEPT ![img[idx].req] = disp[img[idx].req] + 1] /\ busy' = idx
  BY DEF ActDispatch
<1> QED
  BY <1>1, <1>2, <1>3, <1>4, <1>8, <1>9

(* No slot becomes one that holds a request dispatched before. *)
LEMMA StaysFresh ==
    ASSUME IInv, IInv', OneSlotOK, FreshOK, Next, ~ ActDispatch, NEW s \in Slots, Stale(s)'
    PROVE  Stale(s)
<1>1. img'[s].req \in Requests
  BY DEF Stale, IInv, ImageOK
<1>2. ASSUME NEW c \in Clients, Task(c)
      PROVE  Stale(s)
  <2>1. disp' = disp
    BY <1>2, TaskRequests
  <2>2. CASE s # cs[c]
    BY <1>2, <2>1, <2>2, TaskRequests DEF Stale
  <2>3. CASE s = cs[c] /\ Publish(c)
    <3>1. /\ pc[c] = "publish" /\ img' = img /\ disp[<<c, calls[c]>>] = 0
          /\ img[s].req = <<c, calls[c]>>
      BY <2>3, OwnerImage DEF Publish, FreshOK
    <3> QED
      BY <2>1, <3>1 DEF Stale
  <2>4. CASE s = cs[c] /\ Stage(c)
    BY <2>4 DEF Stage, Stale, IInv, OwnerInv, OwnerStates, Mine, CLAIMED, PENDING
  <2>5. CASE s = cs[c] /\ ~ Publish(c) /\ ~ Stage(c)
    <3>1. img' = img
      BY <1>2, <2>5, TaskRequests
    <3>2. ~ Claim(c) /\ ~ Release(c)
      BY <2>5 DEF Claim, Release, Stale, Mine, IInv, OwnerInv, TypeOK, DataTypes, FREE, CLAIMED, PENDING
    <3>3. req_state' = req_state
      BY <1>2, <2>5, <3>2, TaskRequests
    <3> QED
      BY <2>1, <3>1, <3>3 DEF Stale
  <2> QED
    BY <2>2, <2>3, <2>4, <2>5
<1>3. CASE \A c \in Clients : ~ Task(c)
  <2>1. /\ req_state'[s] = PENDING => req_state[s] = PENDING
        /\ img'[s].req \in {img[s].req, NULL} /\ disp' = disp
    BY <1>3, ServerSteps
  <2>2. NULL \notin Requests
    BY ClientsAssumption DEF Requests
  <2> QED
    BY <1>1, <2>1, <2>2 DEF Stale
<1> QED
  BY <1>2, <1>3

(* The slots an adopting start has yet to come to: it leaves none behind it *)
(* that was dispatched before, as long as it can classify their owners.      *)
LEMMA StaleStep ==
    ASSUME "adopt_scrub" \notin Unreadable, IInv, IInv', OneSlotOK, FreshOK, Next,
           NEW s \in Slots, Stale(s)'
    PROVE  (Serving' /\ s = busy') \/ Ahead(s)'
<1>0. /\ NSlots \in Nat /\ s \in 1 .. NSlots /\ s \in Nat /\ idx \in 1 .. NSlots /\ idx \in Nat
      /\ req_state \in [Slots -> SlotStates]
  <2>1. idx \in Slots /\ req_state \in [Slots -> SlotStates]
    BY DEF IInv, OwnerInv, TypeOK, DataTypes
  <2> QED
    BY <2>1, BoundsAssumption DEF Slots
<1>1. CASE ActDispatch
  <2>1. CASE s = idx
    BY <1>1, <2>1, DispatchesFresh
  <2>2. CASE s # idx
    <3>1. /\ req_state' = req_state /\ img' = img /\ busy = 0 /\ img[idx].req \in Requests
          /\ disp' = [disp EXCEPT ![img[idx].req] = 1] /\ idx \in Slots /\ spc = "act"
      BY <1>1, DispatchesFresh DEF ActDispatch
    <3>2. img[s].req \in Requests /\ req_state[s] = PENDING
      BY <3>1 DEF Stale, IInv, ImageOK
    <3>3. NULL \notin Requests
      BY ClientsAssumption DEF Requests
    <3>4. img[s].req # img[idx].req
      BY <2>2, <3>1, <3>2, <3>3 DEF OneSlotOK
    <3>5. disp \in [Requests -> Nat]
      BY DEF IInv, OwnerInv, TypeOK, DataTypes
    <3>6. Stale(s)
      BY <3>1, <3>2, <3>4, <3>5 DEF Stale
    <3>7. ~ Ahead(s) /\ s # busy
      BY <1>0, <3>1 DEF Ahead, ReapPcs, StopPcs
    <3> QED
      BY <3>6, <3>7 DEF FreshOK, Stale
  <2> QED
    BY <2>1, <2>2
<1>2. CASE ~ ActDispatch
  <2>1. Stale(s) /\ ((Serving /\ s = busy) \/ Ahead(s))
    BY <1>2, StaysFresh DEF FreshOK, Stale
  <2>2. req_state[s] = PENDING /\ req_state'[s] = PENDING
    BY <2>1 DEF Stale
  <2> USE <2>1, <2>2, <1>0 DEF Serving, Ahead, ServePcs, ReapPcs, StopPcs, Goto
  <2>3. ASSUME NEW c \in Clients, Task(c) PROVE (Serving' /\ s = busy') \/ Ahead(s)'
    <3>1. UNCHANGED <<spc, idx, want, verd, back, busy>>
      BY <2>3, TaskRequests
    <3> QED
      BY <3>1
  <2>4. CASE Pass \/ Sleep \/ Wake \/ PassOther \/ Reset \/ Complete \/ Look \/ ScanHit \/ ScanMiss \/ ActHold
             \/ ExecComplete \/ ExecEnd
    <3>1. Serving' /\ busy' = busy /\ Serving
      BY <2>4 DEF Pass, Sleep, Wake, PassOther, Reset, Complete, Look, ScanHit, ScanMiss, ActHold, ExecComplete, ExecEnd
    <3>2. ~ Ahead(s)
      BY <2>4 DEF Pass, Sleep, Wake, PassOther, Reset, Complete, Look, ScanHit, ScanMiss, ActHold, ExecComplete, ExecEnd
    <3> QED
      BY <3>1, <3>2
  <2>5. CASE MarkHeld \/ MarkDone \/ Reply
    <3>1. s # busy
      BY <2>5 DEF MarkHeld, MarkDone, Reply, IInv, OwnerInv, ServiceOK, HELD, DONE, PENDING
    <3>2. ~ Ahead(s)
      BY <2>5 DEF MarkHeld, MarkDone, Reply
    <3> QED
      BY <3>1, <3>2
  <2>6. CASE MarkReap
    <3>1. req_state[busy] = want /\ want = PENDING /\ verd = DEAD /\ busy \in Slots
      BY <2>6 DEF MarkReap, IInv, OwnerInv, ServiceOK, LocalsOK, TypeOK, DataTypes, Slots
    <3>2. nsfreqx_reap_ok(want, verd, TRUE)
      BY <3>1 DEF nsfreqx_reap_ok, DEAD, UNKNOWN
    <3>3. req_state'[busy] = CLAIMED
      BY <2>6, <3>1, <3>2 DEF MarkReap, ReapStart
    <3>4. s # busy
      BY <3>3 DEF CLAIMED, PENDING
    <3>5. ~ Ahead(s)
      BY <2>6 DEF MarkReap
    <3> QED
      BY <3>4, <3>5
  <2>7. CASE ActReap
    <3>1. ~ Ahead(s) /\ busy' = busy
      BY <2>7 DEF ActReap
    <3>2. Serving'
      BY <2>7, ReapEffect DEF IInv, Reap, ActReap
    <3> QED
      BY <3>1, <3>2
  <2>8. CASE StopBegin \/ StopClear \/ StopPoll \/ StopWake \/ StopPause \/ StopSettle
    BY <2>8 DEF StopBegin, StopClear, StopPoll, StopWake, StopPause, StopSettle
  <2>9. CASE StopFree \/ StopRetain \/ Abend \/ AdoptFail
    BY <2>9 DEF StopFree, StopRetain, Abend, AdoptFail, ServerEnds
  <2>10. CASE AdoptBegin
    BY <2>10 DEF AdoptBegin
  <2>11. CASE AdoptStamp
    <3>1. idx = 1 /\ idx' = 1 /\ spc' = "adopt_scrub"
      BY <2>11 DEF AdoptStamp, FreshOK
    <3> QED
      BY <3>1
  <2>12. CASE AdoptScrub
    <3>1. s >= idx /\ spc' = "adopt_act" /\ idx' = idx /\ want' = req_state[idx] /\ verd' \in ClientState(idx)
      BY <2>12 DEF AdoptScrub
    <3>2. ASSUME s = idx PROVE verd' # UNKNOWN
      <4>1. owner[s] # NULL /\ owner[s] \in Clients /\ asvt \in [Clients -> Clients \cup {AVAIL}]
        BY DEF OneSlotOK, IInv, OwnerInv, TypeOK, DataTypes, Slots, PENDING, FREE
      <4> QED
        BY <2>12, <3>1, <3>2, <4>1
           DEF AdoptScrub, ClientState, nsfreqx_classify, LIVE, DEAD, UNKNOWN
    <3> QED
      BY <3>1, <3>2
  <2>13. CASE AdoptSkip
    <3>1. s # idx /\ s >= idx /\ spc' = "adopt_next" /\ idx' = idx
      BY <2>13 DEF AdoptSkip, FREE, PENDING
    <3> QED
      BY <3>1
  <2>14. CASE AdoptReap \/ AdoptHold \/ AdoptLeave
    <3>1. spc = "adopt_act" /\ (s > idx \/ (s = idx /\ want = PENDING /\ verd # UNKNOWN))
      BY <2>14 DEF AdoptReap, AdoptHold, AdoptLeave
    <3>2. s # idx
      <4>1. SUFFICES ASSUME s = idx PROVE FALSE
        OBVIOUS
      <4>2. want = PENDING /\ verd \in {LIVE, DEAD} /\ ecbptr /\ idx \in Slots
        BY <3>1, <4>1 DEF IInv, OwnerInv, AnchorOK, AdoptPcs, TypeOK, DataTypes, Verdicts, Slots
      <4>3. AdoptAct = IF verd = DEAD THEN "adopt_reap" ELSE "adopt_post"
        BY <4>2 DEF AdoptAct, nsfreqx_adopt_action, nsfreqx_reap_ok, LIVE, DEAD, UNKNOWN, PENDING
      <4>4. CASE verd = DEAD
        <5>1. AdoptReap /\ nsfreqx_reap_ok(want, verd, TRUE)
          BY <2>14, <4>2, <4>3, <4>4 DEF AdoptHold, AdoptLeave, nsfreqx_reap_ok, DEAD, UNKNOWN
        <5>2. req_state'[idx] = CLAIMED
          BY <4>1, <4>2, <5>1 DEF AdoptReap, ReapStart
        <5> QED
          BY <4>1, <5>2 DEF CLAIMED, PENDING
      <4>5. CASE verd # DEAD
        <5>1. AdoptHold
          BY <2>14, <4>1, <4>2, <4>3, <4>5 DEF AdoptReap, AdoptLeave
        <5>2. req_state'[idx] = HELD
          BY <4>1, <4>2, <5>1 DEF AdoptHold, HELD, PENDING
        <5> QED
          BY <4>1, <5>2 DEF HELD, PENDING
      <4> QED
        BY <4>4, <4>5
    <3>3. CASE AdoptReap
      <4>1. ~ Serving' /\ spc' \in {"reap_clear", "adopt_next"} /\ idx' = idx
        <5>1. spc' \in {"reap_clear", "look", "exec", "adopt_next"} /\ ~ Serving'
          BY <3>1, <3>3, ReapEffect DEF IInv, Reap
        <5>2. AdoptReap => idx' = idx
          BY DEF AdoptReap, ReapStart
        <5> QED
          BY <3>3, <5>1, <5>2
      <4> QED
        BY <3>1, <3>2, <4>1
    <3>4. CASE AdoptHold \/ AdoptLeave
      <4>1. spc' \in {"adopt_post", "adopt_next"} /\ idx' = idx
        BY <3>4 DEF AdoptHold, AdoptLeave
      <4> QED
        BY <3>1, <3>2, <4>1
    <3> QED
      BY <2>14, <3>3, <3>4
  <2>15. CASE AdoptPost
    BY <2>15 DEF AdoptPost
  <2>16. CASE AdoptNext
    <3>1. s > idx /\ idx < NSlots /\ idx' = idx + 1 /\ spc' = "adopt_scrub"
      BY <2>16 DEF AdoptNext, NextSlot
    <3> QED
      BY <3>1
  <2>17. CASE AdoptPoll \/ AdoptPause \/ AdoptSettle \/ AdoptRouter \/ AdoptActive \/ AdoptSteal
    BY <2>17 DEF AdoptPoll, AdoptPause, AdoptSettle, AdoptRouter, AdoptActive, AdoptSteal
  <2>18. CASE ReapClear \/ ReapRead \/ ReapWrite
    <3>1. UNCHANGED <<idx, back, busy>> /\ spc \in ReapPcs /\ spc' \in {"reap_read", "reap_write", back}
      BY <2>18 DEF ReapClear, ReapRead, ReapWrite
    <3>2. back \in {"look", "exec", "adopt_next"}
      BY DEF IInv, OwnerInv, TypeOK, DataTypes
    <3> QED
      BY <3>1, <3>2
  <2> QED
    BY <1>2, <2>3, <2>4, <2>5, <2>6, <2>7, <2>8, <2>9, <2>10, <2>11, <2>12, <2>13, <2>14, <2>15,
       <2>16, <2>17, <2>18 DEF Next, Serve, Stop, Adopt, Task
<1> QED
  BY <1>1, <1>2

LEMMA FreshStep ==
    ASSUME "adopt_scrub" \notin Unreadable, IInv, IInv', OneSlotOK, FreshOK, Next
    PROVE  FreshOK'
<1>1. ASSUME spc' \in {"down", "adopt_stamp"} PROVE idx' = 1
  <2>1. ASSUME NEW c \in Clients, Task(c) PROVE idx' = 1
    BY <1>1, <2>1, TaskRequests DEF FreshOK
  <2>2. CASE Serve \/ PassOther \/ ExecComplete \/ ExecEnd \/ StopBegin
    <3>1. CASE MarkReap \/ ActReap
      BY <1>1, <3>1, ReapEffect DEF Reap, IInv
    <3>2. CASE ReapRead \/ ReapWrite
      BY <1>1, <3>2 DEF ReapRead, ReapWrite, Goto, IInv, OwnerInv, TypeOK, DataTypes
    <3> QED
      BY <1>1, <2>2, <3>1, <3>2 DEF Serve, Pass, Sleep, Wake, PassOther, Reset, Complete, MarkHeld, MarkDone, Reply,
         Look, ScanHit, ScanMiss, ActHold, ActDispatch, ReapClear, ExecComplete, ExecEnd, StopBegin, Goto
  <2>3. CASE Stop \/ Abend \/ AdoptFail \/ AdoptBegin
    BY <1>1, <2>3 DEF Stop, StopClear, StopPoll, StopWake, StopPause, StopSettle, StopFree, StopRetain,
       Abend, AdoptFail, AdoptBegin, ServerEnds, FreshenLocals, Goto, FreshOK, ServerUp
  <2>4. CASE Adopt
    <3>1. CASE AdoptReap
      BY <1>1, <3>1, ReapEffect DEF Reap, IInv
    <3> QED
      BY <1>1, <2>4, <3>1 DEF Adopt, AdoptStamp, AdoptScrub, AdoptSkip, AdoptHold, AdoptLeave,
         AdoptPost, AdoptNext, AdoptPoll, AdoptPause, AdoptSettle, AdoptRouter, AdoptActive, AdoptSteal, Goto
  <2> QED
    BY <2>1, <2>2, <2>3, <2>4 DEF Next, Task
<1>2. ASSUME NEW d \in Clients, pc'[d] = "publish" PROVE disp'[<<d, calls'[d]>>] = 0
  <2>1. ASSUME NEW c \in Clients, Task(c) PROVE disp'[<<d, calls'[d]>>] = 0
    <3>1. disp' = disp
      BY <2>1, TaskRequests
    <3>2. CASE d # c
      BY <1>2, <2>1, <3>1, <3>2, TaskRequests DEF FreshOK
    <3>3. CASE d = c
      <4>1. Stage(c)
        BY <1>2, <2>1, <3>3, TaskRequests
      <4>2. pc[c] = "stage" /\ calls' = calls /\ calls[c] \in 1 .. MaxCalls
        BY <4>1, BoundsAssumption DEF Stage, IInv, OwnerInv, LocalsOK, TypeOK, DataTypes
      <4> QED
        BY <3>1, <3>3, <4>2 DEF OneSlotOK, Unstaged
    <3> QED
      BY <3>2, <3>3
  <2>2. CASE \A c \in Clients : ~ Task(c)
    <3>1. UNCHANGED <<pc, calls, cs>> /\ (ActDispatch \/ disp' = disp)
      BY <2>2, ServerSteps
    <3>2. CASE ActDispatch
      <4>1. cs[d] \in Slots /\ img[cs[d]].req = <<d, calls[d]>> /\ <<d, calls[d]>> \in Requests
        BY <1>2, <3>1, OwnerImage
      <4>2. req_state[cs[d]] = CLAIMED
        BY <1>2, <3>1 DEF IInv, OwnerInv, OwnerStates, Mine
      <4>3. idx \in Slots /\ req_state[idx] = PENDING /\ disp' = [disp EXCEPT ![img[idx].req] = 1]
            /\ img[idx].req \in Requests
        BY <3>2, DispatchesFresh
      <4>4. img[idx].req # <<d, calls[d]>>
        <5>1. NULL \notin Requests
          BY ClientsAssumption DEF Requests
        <5>2. idx # cs[d]
          BY <4>2, <4>3 DEF CLAIMED, PENDING
        <5> QED
          BY <4>1, <4>3, <5>1, <5>2 DEF OneSlotOK
      <4>5. disp[<<d, calls[d]>>] = 0 /\ disp \in [Requests -> Nat]
        BY <1>2, <3>1 DEF FreshOK, IInv, OwnerInv, TypeOK, DataTypes
      <4> QED
        BY <3>1, <4>1, <4>3, <4>4, <4>5
    <3>3. CASE disp' = disp
      BY <1>2, <3>1, <3>3 DEF FreshOK
    <3> QED
      BY <3>1, <3>2, <3>3
  <2> QED
    BY <2>1, <2>2
<1>3. \A s \in Slots : Stale(s)' => (Serving' /\ s = busy') \/ Ahead(s)'
  BY StaleStep
<1> QED
  BY <1>1, <1>2, <1>3 DEF FreshOK, Stale

-----------------------------------------------------------------------------
(* The request in service, where it is completed. *)
LEMMA Serviced ==
    ASSUME IInv, Serving, busy # 0, spc # "reply"
    PROVE  busy \in Slots /\ priv.req \in Requests /\ disp[priv.req] > 0 /\ img[busy].req = priv.req
<1>1. busy \in Slots
  BY DEF IInv, OwnerInv, TypeOK, DataTypes, Slots
<1>2. req_state[busy] = PENDING
  BY DEF IInv, OwnerInv, ServiceOK
<1>3. img[busy].req = priv.req /\ disp[priv.req] > 0
  BY DEF IInv, CopyOK
<1> QED
  BY <1>1, <1>2, <1>3 DEF IInv, ImageOK

(* Answers only ever answer requests that were dispatched, and once. *)
LEMMA DoneStep ==
    ASSUME IInv, FreshOK, AnsweredOK, Next
    PROVE  /\ \A r \in done' : r \in Requests /\ disp'[r] > 0
           /\ Serving' /\ busy' # 0 /\ ~ privecb' => priv'.req \notin done'
           /\ done \subseteq done'
<1>0. disp \in [Requests -> Nat]
  BY DEF IInv, OwnerInv, TypeOK, DataTypes
<1>1. CASE ActDispatch
  <2>1. /\ img[idx].req \in Requests /\ disp[img[idx].req] = 0
        /\ disp' = [disp EXCEPT ![img[idx].req] = 1]
    BY <1>1, DispatchesFresh
  <2>2. done' = done /\ priv' = img[idx]
    BY <1>1 DEF ActDispatch, nsfreqx_dispatch_in
  <2> QED
    BY <1>0, <2>1, <2>2 DEF AnsweredOK
<1>2. CASE ExecComplete
  <2>1. Serving /\ busy # 0 /\ spc = "exec"
    BY <1>2 DEF ExecComplete, Serving, ServePcs
  <2>2. priv.req \in Requests /\ disp[priv.req] > 0
    BY <2>1, Serviced
  <2> QED
    BY <1>2, <2>2 DEF ExecComplete, AnsweredOK
<1>3. CASE ~ ActDispatch /\ ~ ExecComplete
  <2>1. /\ done' = done /\ disp' = disp
        /\ Serving' /\ busy' # 0 => Serving /\ UNCHANGED <<busy, priv, privecb>>
    <3>1. ASSUME NEW c \in Clients, Task(c)
          PROVE  UNCHANGED <<done, disp, spc, back, busy, priv, privecb>>
      BY <3>1, TaskRequests
    <3>2. CASE Reap
      BY <3>2, ReapEffect DEF IInv, Reap, MarkReap, ActReap, AdoptReap
    <3>3. CASE (Serve /\ ~ Reap) \/ PassOther \/ ExecEnd \/ StopBegin
      <4>1. UNCHANGED <<done, disp>> /\ (busy' # 0 => UNCHANGED <<busy, priv, privecb>>)
        BY <1>3, <3>3 DEF Reap, Serve, Pass, Sleep, Wake, PassOther, Reset, Complete, MarkHeld, MarkDone, Reply, Look,
           ScanHit, ScanMiss, ActHold, ReapClear, ReapRead, ReapWrite, ExecEnd, StopBegin, OutOfService
      <4>2. Serving' => Serving
        <5>1. CASE ReapClear \/ ReapRead \/ ReapWrite
          BY <5>1 DEF ReapClear, ReapRead, ReapWrite, Serving, ServePcs, ReapPcs, Goto, IInv, OwnerInv,
             TypeOK, DataTypes
        <5> QED
          BY <1>3, <3>3, <5>1 DEF Reap, Serve, Pass, Sleep, Wake, PassOther, Reset, Complete, MarkHeld, MarkDone,
             Reply, Look, ScanHit, ScanMiss, ActHold, ExecEnd, StopBegin, Serving, ServePcs
      <4> QED
        BY <4>1, <4>2
    <3>4. CASE Stop \/ Abend \/ AdoptFail \/ AdoptBegin
      BY <3>4 DEF Stop, StopClear, StopPoll, StopWake, StopPause, StopSettle, StopFree, StopRetain, Abend,
         AdoptFail, AdoptBegin, ServerEnds, OutOfService, Goto, Serving, ServePcs, ReapPcs
    <3>5. CASE Adopt /\ ~ Reap
      <4>1. UNCHANGED <<done, disp, busy, priv, privecb>>
        BY <3>5 DEF Adopt, AdoptStamp, AdoptScrub, AdoptSkip, AdoptReap, AdoptHold, AdoptLeave, AdoptPost,
           AdoptNext, AdoptPoll, AdoptPause, AdoptSettle, AdoptRouter, AdoptActive, AdoptSteal
      <4>2. busy = 0
        BY <3>5 DEF Adopt, AdoptStamp, AdoptScrub, AdoptSkip, AdoptReap, AdoptHold, AdoptLeave, AdoptPost,
           AdoptNext, AdoptPoll, AdoptPause, AdoptSettle, AdoptRouter, AdoptActive, AdoptSteal, IInv,
           OwnerInv, AnchorOK, AdoptPcs
      <4> QED
        BY <4>1, <4>2
    <3> QED
      BY <1>3, <3>1, <3>2, <3>3, <3>4, <3>5 DEF Next, Task, Reap, Serve, Adopt, Serving
  <2> QED
    BY <2>1 DEF AnsweredOK
<1> QED
  BY <1>1, <1>2, <1>3

LEMMA AnsweredStep ==
    ASSUME IInv, FreshOK, AnsweredOK, Next
    PROVE  AnsweredOK'
<1>0. /\ img \in [Slots -> Images] /\ got \in [Clients -> Images] /\ priv \in Images
      /\ rc \in [Clients -> RcCodes \cup {"none"}] /\ pc \in [Clients -> ClientPcs]
      /\ \A c \in Clients : pc[c] = "out" => cs[c] \in Slots
  <2>1. ASSUME NEW c \in Clients, pc[c] = "out" PROVE cs[c] \in Slots
    BY <2>1, OwnerImage
  <2> QED
    BY <2>1 DEF IInv, OwnerInv, TypeOK, DataTypes
<1>1. /\ \A r \in done' : r \in Requests /\ disp'[r] > 0
      /\ Serving' /\ busy' # 0 /\ ~ privecb' => priv'.req \notin done'
      /\ done \subseteq done'
  BY DoneStep
<1>2. ASSUME NEW c \in Clients, Task(c)
      PROVE  /\ \A s \in Slots : img'[s].ans \in done \cup {NULL}
             /\ priv'.ans \in done \cup {NULL}
             /\ \A d \in Clients : got'[d].ans \in done \cup {NULL}
             /\ \A d \in Clients : /\ rc'[d] \in {"none", "ok", "nobuf", "corrupt"}
                                   /\ rc'[d] = "nobuf" => pc'[d] \in {"idle", "dead"}
  <2>1. priv' = priv
    BY <1>2, TaskRequests
  <2>2. \A s \in Slots : img'[s].ans \in done \cup {NULL}
    <3>1. CASE Stage(c)
      BY <1>0, <3>1 DEF Stage, AnsweredOK
    <3>2. CASE ~ Stage(c)
      BY <1>2, <3>2, TaskRequests DEF AnsweredOK
    <3> QED
      BY <3>1, <3>2
  <2>3. \A d \in Clients : got'[d].ans \in done \cup {NULL}
    <3>1. CASE CopyOut(c)
      BY <1>0, <3>1 DEF CopyOut, AnsweredOK, Mine
    <3>2. CASE Enter(c) \/ Reborn(c)
      BY <1>0, <3>2 DEF Enter, Reborn, AnsweredOK, NoImage
    <3>3. CASE ~ CopyOut(c) /\ ~ Enter(c) /\ ~ Reborn(c)
      <4>1. got' = got
        BY <1>2, <3>3 DEF Task, ClientStep, CheckAnchor, BadAnchor, Claim, ClaimNext, PoolFull, CountIn,
           Stage, Publish, PostServer, PostFails, WakeServed, WakeQuiesced, Release, CountOut, Die
      <4> QED
        BY <4>1 DEF AnsweredOK
    <3> QED
      BY <3>1, <3>2, <3>3
  <2>4. /\ rc'[c] \in {"none", "ok", "nobuf", "corrupt"}
        /\ rc'[c] = "nobuf" => pc'[c] \in {"idle", "dead"}
    BY <1>0, <1>2 DEF AnsweredOK, Task, Go, Enter, ClientStep, CheckAnchor, BadAnchor, Claim, ClaimNext,
       PoolFull, CountIn, Stage, Publish, PostServer, PostFails, WakeServed, WakeQuiesced, CopyOut, Release,
       CountOut, Die, Reborn
  <2>5. \A d \in Clients \ {c} : rc'[d] = rc[d] /\ pc'[d] = pc[d]
    BY <1>0, <1>2 DEF Task, Go, Enter, ClientStep, CheckAnchor, BadAnchor, Claim, ClaimNext,
       PoolFull, CountIn, Stage, Publish, PostServer, PostFails, WakeServed, WakeQuiesced, CopyOut, Release,
       CountOut, Die, Reborn
  <2> QED
    BY <2>1, <2>2, <2>3, <2>4, <2>5 DEF AnsweredOK
<1>3. ASSUME \A c \in Clients : ~ Task(c)
      PROVE  /\ \A s \in Slots : img'[s].ans \in done' \cup {NULL}
             /\ priv'.ans \in done' \cup {NULL}
             /\ UNCHANGED <<got, rc, pc>>
  <2>1. UNCHANGED <<got, rc, pc>>
    BY <1>3, ServerSteps
  <2>2. \A s \in Slots : img'[s].ans \in done \cup {NULL}
    <3>1. CASE Complete
      BY <1>0, <3>1 DEF Complete, nsfreqx_result_out, AnsweredOK
    <3>2. CASE ReapClear
      BY <1>0, <3>2 DEF ReapClear, NoImage, AnsweredOK
    <3>3. CASE ~ Complete /\ ~ ReapClear
      <4>1. img' = img
        BY <1>3, <3>3 DEF Next, Task, Serve, Stop, Adopt, Pass, Sleep, Wake, PassOther, Reset, Look, ScanMiss, ExecEnd,
           ExecComplete, Reply, ScanHit, ActDispatch, StopBegin, StopClear, StopPoll, StopWake, StopPause,
           StopSettle, StopFree, StopRetain, Abend, AdoptFail, AdoptBegin, AdoptStamp, AdoptScrub,
           AdoptSkip, AdoptLeave, AdoptPost, AdoptNext, AdoptPoll, AdoptPause, AdoptSettle, AdoptRouter,
           AdoptActive, AdoptSteal, MarkHeld, MarkDone, ActHold, AdoptHold, MarkReap, ActReap, AdoptReap,
           ReapRead, ReapWrite, ServerEnds
      <4> QED
        BY <4>1 DEF AnsweredOK
    <3> QED
      BY <3>1, <3>2, <3>3
  <2>3. priv'.ans \in done' \cup {NULL}
    <3>1. CASE ActDispatch
      BY <3>1 DEF ActDispatch, nsfreqx_dispatch_in, AnsweredOK, IInv, OwnerInv, TypeOK, DataTypes
    <3>2. CASE ExecComplete
      BY <3>2 DEF ExecComplete
    <3>3. CASE ~ ActDispatch /\ ~ ExecComplete
      <4>1. priv' \in {priv, NoImage}
        BY <1>3, <3>3 DEF Next, Task, Serve, Stop, Adopt, Pass, Sleep, Wake, PassOther, Reset, Look, ScanMiss, ExecEnd,
           Complete, Reply, ScanHit, StopBegin, StopClear, StopPoll, StopWake, StopPause,
           StopSettle, StopFree, StopRetain, Abend, AdoptFail, AdoptBegin, AdoptStamp, AdoptScrub,
           AdoptSkip, AdoptLeave, AdoptPost, AdoptNext, AdoptPoll, AdoptPause, AdoptSettle, AdoptRouter,
           AdoptActive, AdoptSteal, MarkHeld, MarkDone, ActHold, AdoptHold, MarkReap, ActReap, AdoptReap,
           ReapClear, ReapRead, ReapWrite, ServerEnds, OutOfService
      <4> QED
        BY <1>1, <4>1 DEF AnsweredOK, NoImage
    <3> QED
      BY <3>1, <3>2, <3>3
  <2> QED
    BY <1>1, <2>1, <2>2, <2>3
<1>4. CASE \E c \in Clients : Task(c)
  <2>1. PICK c \in Clients : Task(c)
    BY <1>4
  <2> QED
    BY <1>1, <1>2, <2>1 DEF AnsweredOK
<1>5. CASE \A c \in Clients : ~ Task(c)
  BY <1>1, <1>3, <1>5 DEF AnsweredOK
<1> QED
  BY <1>4, <1>5

LEMMA RequestsInit == Init => OneSlotOK /\ FreshOK /\ AnsweredOK
<1> SUFFICES ASSUME Init PROVE OneSlotOK /\ FreshOK /\ AnsweredOK
  OBVIOUS
<1>1. /\ \A c \in Clients, n \in 1 .. MaxCalls : <<c, n>> # NULL /\ <<c, n>> \in Requests
      /\ NoImage.req = NULL /\ NoImage.ans = NULL
  BY ClientsAssumption DEF Requests, NoImage
<1>2. OneSlotOK
  BY <1>1 DEF Init, OneSlotOK
<1>3. FreshOK
  BY DEF Init, FreshOK, FREE, PENDING
<1>4. AnsweredOK
  BY <1>1 DEF Init, AnsweredOK, Idle
<1> QED
  BY <1>2, <1>3, <1>4

RequestsOK == IInv /\ OneSlotOK /\ FreshOK /\ AnsweredOK

LEMMA RequestsStutter == RequestsOK /\ UNCHANGED vars => RequestsOK'
<1> SUFFICES ASSUME RequestsOK, UNCHANGED vars PROVE RequestsOK'
  OBVIOUS
<1>1. IInv'
  BY StutterIInv DEF RequestsOK
<1>2. OneSlotOK'
  BY DEF vars, RequestsOK, OneSlotOK, Unstaged
<1>3. FreshOK'
  BY DEF vars, RequestsOK, FreshOK, Ahead, Serving
<1>4. AnsweredOK'
  BY DEF vars, RequestsOK, AnsweredOK, Serving
<1> QED
  BY <1>1, <1>2, <1>3, <1>4 DEF RequestsOK

(* Requests and answers as a whole. *)
THEOREM RequestsInductive ==
    ASSUME LongPauses, DrainMax # 0, "adopt_scrub" \notin Unreadable
    PROVE  Spec => []RequestsOK
<1>1. Init => RequestsOK
  BY InitIInv, RequestsInit DEF RequestsOK
<1>2. RequestsOK /\ [Next]_vars => RequestsOK'
  <2>1. SUFFICES ASSUME RequestsOK, Next PROVE RequestsOK'
    BY RequestsStutter
  <2>2. IInv'
    BY <2>1, NextIInv DEF RequestsOK
  <2> QED
    BY <2>1, <2>2, OneSlotStep, FreshStep, AnsweredStep DEF RequestsOK
<1> QED
  BY <1>1, <1>2, PTL DEF Spec

(* A request is dispatched at most once, whatever ends between its dispatch *)
(* and its reply, as long as an adopting start can classify the owners of    *)
(* the slots it finds.                                                       *)
THEOREM DispatchedOnce ==
    ASSUME LongPauses, DrainMax # 0, "adopt_scrub" \notin Unreadable
    PROVE  Spec => DispatchOnce
<1>1. RequestsOK /\ [Next]_vars => [\A r \in Requests : disp'[r] # disp[r] => disp[r] = 0]_vars
  <2>1. SUFFICES ASSUME RequestsOK, Next, NEW r \in Requests, disp'[r] # disp[r]
                 PROVE  disp[r] = 0
    OBVIOUS
  <2>2. ActDispatch
    BY <2>1, TaskRequests, ServerSteps DEF RequestsOK
  <2>3. img[idx].req \in Requests /\ disp[img[idx].req] = 0 /\ disp' = [disp EXCEPT ![img[idx].req] = 1]
    BY <2>1, <2>2, DispatchesFresh DEF RequestsOK
  <2>4. disp \in [Requests -> Nat]
    BY <2>1 DEF RequestsOK, IInv, OwnerInv, TypeOK, DataTypes
  <2> QED
    BY <2>1, <2>3, <2>4
<1>2. Spec => []RequestsOK
  BY RequestsInductive
<1> QED
  BY <1>1, <1>2, PTL DEF Spec, DispatchOnce

-----------------------------------------------------------------------------
(* The call the promise sees of a client. *)
CallOf(c) == [n |-> calls[c], open |-> pc[c] \notin {"idle", "dead"},
              rc |-> IF pc[c] = "idle" THEN rc[c] ELSE "none"]
CallsSeen == [c \in Clients |-> CallOf(c)]

(* A step of one client changes the call of that client only. *)
LEMMA OneCall ==
    ASSUME IInv, NEW c \in Clients, Task(c)
    PROVE  CallsSeen' = [CallsSeen EXCEPT ![c] = CallOf(c)']
<1>1. \A d \in Clients \ {c} : pc'[d] = pc[d] /\ calls'[d] = calls[d] /\ rc'[d] = rc[d]
  <2>1. \A d \in Clients \ {c} : pc'[d] = pc[d] /\ calls'[d] = calls[d]
    BY TaskRequests
  <2>2. \A d \in Clients \ {c} : rc'[d] = rc[d]
    BY DEF IInv, OwnerInv, TypeOK, DataTypes, Task, Go, Enter, ClientStep, CheckAnchor, BadAnchor,
       Claim, ClaimNext, PoolFull, CountIn, Stage, Publish, PostServer, PostFails, WakeServed,
       WakeQuiesced, CopyOut, Release, CountOut, Die, Reborn
  <2> QED
    BY <2>1, <2>2
<1>2. \A d \in Clients \ {c} : CallOf(d)' = CallOf(d)
  BY <1>1 DEF CallOf
<1> QED
  BY <1>2 DEF CallsSeen

(* What a client's step shows its caller: a call begins, returns, or goes on. *)
LEMMA TaskPromise ==
    ASSUME RequestsOK, NEW c \in Clients, Task(c)
    PROVE  \/ Promise!Issue(c) \/ \E r \in Promise!Outcomes : Promise!Return(c, r)
           \/ UNCHANGED <<CallsSeen, disp, done>>
<1> USE DEF RequestsOK
<1>1. /\ pc \in [Clients -> ClientPcs] /\ calls \in [Clients -> 0 .. MaxCalls]
      /\ rc \in [Clients -> RcCodes \cup {"none"}] /\ MaxCalls \in Nat
  BY BoundsAssumption DEF IInv, OwnerInv, TypeOK, DataTypes
<1>2. UNCHANGED <<disp, done>>
  BY TaskRequests
<1>3. CallsSeen' = [CallsSeen EXCEPT ![c] = CallOf(c)']
  BY OneCall
<1>4. CallsSeen[c] = CallOf(c)
  BY DEF CallsSeen
<1>5. CASE CallOf(c)' = CallOf(c)
  <2>1. CallsSeen' = CallsSeen
    BY <1>3, <1>4, <1>5 DEF CallsSeen
  <2> QED
    BY <1>2, <2>1
<1>6. CASE Enter(c)
  <2>1. CallOf(c)' = [n |-> calls[c] + 1, open |-> TRUE, rc |-> "none"]
    BY <1>1, <1>6 DEF Enter, Go, CallOf
  <2>2. ~ CallOf(c).open /\ CallOf(c).n = calls[c] /\ calls[c] < MaxCalls
    BY <1>6 DEF Enter, CallOf
  <2>3. Promise!Issue(c)
    BY <1>2, <1>3, <1>4, <2>1, <2>2 DEF Promise!Issue, CallsSeen, CallOf
  <2> QED
    BY <2>3
<1>7. ASSUME NEW r \in Promise!Outcomes, pc[c] \notin {"idle", "dead"}, calls'[c] = calls[c],
             \/ pc'[c] = "idle" /\ rc'[c] = r
             \/ pc'[c] = "dead" /\ r = "none",
             r = "ok" => <<c, calls[c]>> \in done,
             r = "nobuf" => disp[<<c, calls[c]>>] = 0
      PROVE  Promise!Return(c, r)
  <2>1. CallOf(c)' = [n |-> calls[c], open |-> FALSE, rc |-> r]
    BY <1>7 DEF CallOf
  <2>2. CallOf(c) = [n |-> calls[c], open |-> TRUE, rc |-> "none"]
    BY <1>7 DEF CallOf
  <2>3. CallsSeen' = [CallsSeen EXCEPT ![c] = [n |-> calls[c], open |-> FALSE, rc |-> r]]
    BY <1>3, <2>1
  <2>4. CallsSeen[c].open /\ CallsSeen[c].n = calls[c]
    BY <1>4, <2>2
  <2> QED
    BY <1>2, <1>7, <2>3, <2>4 DEF Promise!Return, Promise!Current, CallsSeen, CallOf
<1>8. CASE BadAnchor(c) \/ (WakeQuiesced(c) /\ ~ eye)
  <2>1. /\ pc[c] \notin {"idle", "dead"} /\ calls' = calls
        /\ pc'[c] = "idle" /\ rc'[c] = "corrupt"
    BY <1>1, <1>8 DEF BadAnchor, WakeQuiesced, Go
  <2> QED
    BY <1>7, <2>1 DEF Promise!Outcomes
<1>9. CASE PoolFull(c)
  <2>1. /\ pc[c] = "scan" /\ calls' = calls /\ pc'[c] = "idle" /\ rc'[c] = "nobuf"
    BY <1>1, <1>9 DEF PoolFull, Go
  <2>2. calls[c] \in 1 .. MaxCalls
    BY <1>1, <2>1 DEF IInv, OwnerInv, LocalsOK
  <2>3. disp[<<c, calls[c]>>] = 0
    BY <2>1, <2>2 DEF OneSlotOK, Unstaged
  <2> QED
    BY <1>7, <2>1, <2>3 DEF Promise!Outcomes
<1>10. CASE CountOut(c)
  <2>1. pc[c] = "dec" /\ calls' = calls /\ rc' = rc /\ pc'[c] = "idle"
    BY <1>1, <1>10 DEF CountOut, Go
  <2>2. rc[c] \in {"none", "ok", "corrupt"}
    BY <2>1 DEF AnsweredOK
  <2>3. rc[c] = "ok" => <<c, calls[c]>> \in done
    <3>1. calls[c] \in 1 .. MaxCalls
      BY <1>1, <2>1 DEF IInv, OwnerInv, LocalsOK
    <3>2. <<c, calls[c]>> # NULL
      BY <3>1, ClientsAssumption
    <3>3. SUFFICES ASSUME rc[c] = "ok" PROVE <<c, calls[c]>> \in done
      OBVIOUS
    <3>4. got[c].ans = <<c, calls[c]>>
      <4>1. got[c] = [req |-> <<c, calls[c]>>, ans |-> <<c, calls[c]>>]
        BY <3>3, Zenon DEF IInv, RightAnswer
      <4> QED
        BY <4>1
    <3>5. got[c].ans \in done \cup {NULL}
      BY DEF AnsweredOK
    <3> QED
      BY <3>2, <3>4, <3>5
  <2> QED
    BY <1>7, <2>1, <2>2, <2>3 DEF Promise!Outcomes
<1>11. CASE Die(c)
  <2>1. pc[c] \notin {"idle", "dead"} /\ calls' = calls /\ pc'[c] = "dead"
    BY <1>1, <1>11 DEF Die, Go
  <2> QED
    BY <1>7, <2>1 DEF Promise!Outcomes
<1>12. CASE Reborn(c)
  <2>1. CallOf(c)' = CallOf(c)
    BY <1>1, <1>12 DEF Reborn, Go, CallOf
  <2> QED
    BY <1>5, <2>1
<1>13. CASE \/ CheckAnchor(c) \/ Claim(c) \/ ClaimNext(c) \/ CountIn(c) \/ Stage(c) \/ Publish(c)
            \/ PostServer(c) \/ PostFails(c) \/ WakeServed(c) \/ (WakeQuiesced(c) /\ eye)
            \/ CopyOut(c) \/ Release(c)
  <2>1. pc[c] \notin {"idle", "dead"} /\ calls' = calls /\ pc'[c] \notin {"idle", "dead"}
    BY <1>1, <1>13 DEF CheckAnchor, Claim, ClaimNext, CountIn, Stage, Publish, PostServer, PostFails,
       WakeServed, WakeQuiesced, CopyOut, Release, Go
  <2>2. CallOf(c)' = CallOf(c)
    BY <2>1 DEF CallOf
  <2> QED
    BY <1>5, <2>2
<1> QED
  BY <1>6, <1>8, <1>9, <1>10, <1>11, <1>12, <1>13 DEF Task, ClientStep

(* What the started task's step shows: a request is taken, or answered. *)
LEMMA ServerPromise ==
    ASSUME RequestsOK, Next, \A c \in Clients : ~ Task(c)
    PROVE  \/ \E c \in Clients, n \in 1 .. MaxCalls : Promise!Take(c, n)
           \/ \E r \in Promise!Requests : Promise!Answer(r)
           \/ UNCHANGED <<CallsSeen, disp, done>>
<1> USE DEF RequestsOK
<1>1. CallsSeen' = CallsSeen
  BY ServerSteps DEF CallsSeen, CallOf
<1>2. CASE ActDispatch
  <2>1. /\ idx \in Slots /\ img[idx].req \in Requests /\ disp[img[idx].req] = 0
        /\ disp' = [disp EXCEPT ![img[idx].req] = 1]
    BY <1>2, DispatchesFresh
  <2>2. PICK c \in Clients, n \in 1 .. MaxCalls : img[idx].req = <<c, n>>
    BY <2>1 DEF Requests
  <2>3. n <= calls[c]
    <3>1. ~ Unstaged(c, n)
      BY <2>1, <2>2 DEF OneSlotOK
    <3>2. calls[c] \in Nat
      BY BoundsAssumption DEF IInv, OwnerInv, TypeOK, DataTypes
    <3> QED
      BY <3>1, <3>2, BoundsAssumption DEF Unstaged
  <2>4. n \in 1 .. calls[c] /\ done' = done /\ calls[c] \in Nat
    BY <1>2, <2>3, BoundsAssumption DEF ActDispatch, IInv, OwnerInv, TypeOK, DataTypes
  <2>5. Promise!Take(c, n)
    BY <1>1, <2>1, <2>2, <2>4 DEF Promise!Take, CallsSeen, CallOf
  <2> QED
    BY <2>5
<1>3. CASE ExecComplete
  <2>1. Serving /\ busy # 0 /\ ~ privecb /\ spc = "exec" /\ done' = done \cup {priv.req} /\ disp' = disp
    BY <1>3 DEF ExecComplete, Serving, ServePcs
  <2>2. priv.req \in Requests /\ disp[priv.req] > 0 /\ priv.req \notin done
    BY <2>1, Serviced DEF AnsweredOK
  <2>3. Promise!Answer(priv.req)
    BY <1>1, <2>1, <2>2 DEF Promise!Answer, CallsSeen, CallOf
  <2> QED
    BY <2>2, <2>3 DEF Requests, Promise!Requests
<1>4. CASE ~ ActDispatch /\ ~ ExecComplete
  <2>1. disp' = disp
    BY <1>4, ServerSteps
  <2>2. done' = done
    BY <1>4 DEF Next, Task, Serve, Stop, Adopt, Pass, Sleep, Wake, PassOther, Reset, Look, ScanMiss, ExecEnd,
       Complete, Reply, ScanHit, StopBegin, StopClear, StopPoll, StopWake, StopPause,
       StopSettle, StopFree, StopRetain, Abend, AdoptFail, AdoptBegin, AdoptStamp, AdoptScrub,
       AdoptSkip, AdoptLeave, AdoptPost, AdoptNext, AdoptPoll, AdoptPause, AdoptSettle, AdoptRouter,
       AdoptActive, AdoptSteal, MarkHeld, MarkDone, ActHold, AdoptHold, MarkReap, ActReap, AdoptReap,
       ReapClear, ReapRead, ReapWrite, ServerEnds, OutOfService
  <2> QED
    BY <1>1, <2>1, <2>2
<1> QED
  BY <1>2, <1>3, <1>4

(* The pool keeps the promise made to the callers of nsfreq_call: a request *)
(* is carried out at most once, OK means it was carried out and answered,    *)
(* "nobuf" that it was not -- across stops, abends and adopting starts, as   *)
(* long as a start that adopts can classify the owners of the slots.         *)
THEOREM PromiseKept ==
    ASSUME LongPauses, DrainMax # 0, "adopt_scrub" \notin Unreadable
    PROVE  Spec => KeepsPromise
<1>1. Init => Promise!Init
  <2>1. SUFFICES ASSUME Init PROVE Promise!Init
    OBVIOUS
  <2>2. \A c \in Clients : calls[c] = 0 /\ pc[c] = "idle" /\ rc[c] = "none"
    BY <2>1 DEF Init
  <2>3. \A c \in Clients : [n |-> calls[c], open |-> pc[c] \notin {"idle", "dead"},
                             rc |-> IF pc[c] = "idle" THEN rc[c] ELSE "none"]
                            = [n |-> 0, open |-> FALSE, rc |-> "none"]
    BY <2>2
  <2>4. disp = [r \in Promise!Requests |-> 0] /\ done = {}
    BY <2>1 DEF Init, Requests, Promise!Requests
  <2> QED
    BY <2>3, <2>4 DEF Promise!Init
<1>2. RequestsOK /\ [Next]_vars => [Promise!Next]_(Promise!vars)
  <2>1. SUFFICES ASSUME RequestsOK, [Next]_vars
                 PROVE  Promise!Next \/ UNCHANGED Promise!vars
    OBVIOUS
  <2>2. UNCHANGED <<CallsSeen, disp, done>> => UNCHANGED Promise!vars
    BY DEF CallsSeen, CallOf, Promise!vars
  <2>3. CASE UNCHANGED vars
    <3>1. UNCHANGED <<CallsSeen, disp, done>>
      BY <2>3 DEF vars, CallsSeen, CallOf
    <3> QED
      BY <2>2, <3>1
  <2>4. ASSUME NEW c \in Clients, Task(c) PROVE Promise!Next \/ UNCHANGED Promise!vars
    BY <2>1, <2>2, <2>4, TaskPromise DEF Promise!Next
  <2>5. CASE Next /\ \A c \in Clients : ~ Task(c)
    BY <2>1, <2>2, <2>5, ServerPromise DEF Promise!Next
  <2> QED
    BY <2>1, <2>3, <2>4, <2>5
<1>3. Spec => []RequestsOK
  BY RequestsInductive
<1> QED
  BY <1>1, <1>2, <1>3, PTL DEF Spec, KeepsPromise, Promise!Spec

-----------------------------------------------------------------------------
(* While the STC serves and no address space is re-created, what a slot    *)
(* waits for stays there until the STC itself comes to it.                   *)
LEMMA WaitingStays ==
    ASSUME IInv, Serving, NEW c \in Clients, Task(c), ~ Reborn(c), NEW s \in Slots, Waiting(s)
    PROVE  Waiting(s)'
<1>1. req_state[s] = PENDING /\ s # busy
  BY DEF Waiting, Other
<1>2. busy' = busy
  BY TaskRequests
<1>3. req_state'[s] = PENDING /\ owner'[s] = owner[s]
  <2>1. CASE s # cs[c]
    BY <1>1, <2>1, TaskRequests
  <2>2. CASE s = cs[c]
    <3>1. ~ Claim(c)
      BY <1>1, <2>2 DEF Claim, Mine, FREE, PENDING
    <3>2. ~ Release(c)
      BY <1>1, <2>2 DEF Release, Mine, IInv, OwnerInv, PostedOK, DONE, PENDING
    <3>3. Publish(c) => req_state'[s] = PENDING
      BY <2>2 DEF Publish, Mine, IInv, OwnerInv, TypeOK, DataTypes
    <3> QED
      BY <1>1, <3>1, <3>2, <3>3, TaskRequests
  <2> QED
    BY <2>1, <2>2
<1>4. asvt' = asvt \/ asvt' = [asvt EXCEPT ![c] = AVAIL]
  BY DEF Task, Enter, ClientStep, CheckAnchor, BadAnchor, Claim, ClaimNext, PoolFull, CountIn, Stage,
     Publish, PostServer, PostFails, WakeServed, WakeQuiesced, CopyOut, Release, CountOut, Die
<1>5. /\ owner[s] \in Clients \cup {NULL} /\ NULL \notin Clients /\ AVAIL \notin Clients
      /\ asvt \in [Clients -> Clients \cup {AVAIL}]
  BY ClientsAssumption DEF IInv, OwnerInv, TypeOK, DataTypes
<1>6. busy # 0 => nsfreqx_classify(owner'[s], owner'[s], asvt') # LIVE
  BY <1>1, <1>3, <1>4, <1>5 DEF Waiting, Other, nsfreqx_classify, LIVE, DEAD, UNKNOWN
<1> QED
  BY <1>1, <1>2, <1>3, <1>6 DEF Waiting, Other

(* The WAIT gate's probe and the drain agree on what is work. *)
LEMMA GateAgrees ==
    ASSUME IInv, Serving, "gate" \notin Unreadable, spc = "gate", Pending
    PROVE  (busy # 0 /\ privecb) \/ \E s \in Slots : Waiting(s)
<1>1. SUFFICES ASSUME NEW s \in Slots, Other(s), busy = 0 \/ \E v \in ClientState(s) : Actionable(s, v)
               PROVE  Waiting(s)
  BY DEF Pending
<1>2. CASE busy = 0
  BY <1>1, <1>2 DEF Waiting
<1>3. CASE busy # 0
  <2>1. Actionable(s, nsfreqx_classify(owner[s], owner[s], asvt))
    BY <1>1, <1>3 DEF ClientState
  <2>2. nsfreqx_classify(owner[s], owner[s], asvt) # LIVE
    BY <2>1, <1>3 DEF Actionable, nsfreqx_actionable, nsfreqx_slot_action, IInv, OwnerInv, AnchorOK,
       LIVE, DEAD, UNKNOWN
  <2> QED
    BY <1>1, <2>2 DEF Waiting
<1> QED
  BY <1>2, <1>3

(* The scan does not pass a slot that waits. *)
LEMMA ScanStops ==
    ASSUME IInv, Serving, NEW s \in Slots, Waiting(s), NEW v \in ClientState(s)
    PROVE  Actionable(s, v)
<1>1. ecbptr /\ req_state[s] = PENDING /\ Other(s)
  BY DEF Waiting, Other, IInv, OwnerInv, AnchorOK
<1>2. v = UNKNOWN \/ v = nsfreqx_classify(owner[s], owner[s], asvt)
  BY DEF ClientState
<1>3. v \in Verdicts /\ (v = LIVE => busy = 0)
  BY <1>2 DEF Waiting, nsfreqx_classify, Verdicts, LIVE, DEAD, UNKNOWN
<1> QED
  BY <1>1, <1>3 DEF Actionable, nsfreqx_slot_action, nsfreqx_actionable, Verdicts, LIVE, DEAD, UNKNOWN

SpinInv == births = 0 => SpinOK

LEMMA SpinStep ==
    ASSUME IInv, IInv', SpinInv, Next, "gate" \notin Unreadable
    PROVE  SpinInv'
<1>0. SUFFICES ASSUME births' = 0 PROVE SpinOK'
  BY DEF SpinInv
<1>1. births = 0 /\ \A c \in Clients : ~ Reborn(c)
  <2>1. ASSUME NEW c \in Clients, Reborn(c) PROVE FALSE
    BY <1>0, <2>1 DEF Reborn, IInv, OwnerInv, TypeOK, DataTypes
  <2>2. births' = births
    <3>1. ASSUME NEW c \in Clients, Task(c) PROVE births' = births
      BY <2>1, <3>1 DEF Task, Enter, ClientStep, CheckAnchor, BadAnchor, Claim, ClaimNext, PoolFull,
         CountIn, Stage, Publish, PostServer, PostFails, WakeServed, WakeQuiesced, CopyOut, Release,
         CountOut, Die
    <3> QED
      BY <3>1, ServerSteps
  <2> QED
    BY <1>0, <2>1, <2>2
<1>2. SpinOK /\ NSlots \in Nat /\ idx \in 1 .. NSlots
  BY <1>1, BoundsAssumption DEF SpinInv, IInv, OwnerInv, TypeOK, DataTypes, Slots
<1>3. ASSUME NEW c \in Clients, Task(c) PROVE SpinOK'
  <2>1. UNCHANGED <<spc, idx, back, busy, privecb, probe, did>>
    BY <1>3, TaskRequests
  <2>2. ASSUME NEW s \in Slots, Waiting(s), Serving PROVE Waiting(s)'
    BY <1>1, <1>3, <2>2, WaitingStays
  <2>3. Serving' <=> Serving
    BY <2>1 DEF Serving
  <2>4. CASE Serving /\ probe /\ ~ did
    <3>1. CASE spc \in {"reset", "complete"} /\ busy # 0 /\ privecb
      BY <2>1, <2>3, <2>4, <3>1 DEF SpinOK
    <3>2. CASE spc \in {"reset", "look"} /\ \E s \in Slots : Waiting(s)
      BY <2>1, <2>2, <2>3, <2>4, <3>2 DEF SpinOK
    <3>3. CASE spc = "scan" /\ \E s \in Slots : s >= idx /\ Waiting(s)
      <4>1. PICK s \in Slots : s >= idx /\ Waiting(s)
        BY <3>3
      <4> QED
        BY <2>1, <2>2, <2>3, <2>4, <3>3, <4>1 DEF SpinOK
    <3>4. CASE spc = "act"
      BY <2>1, <2>3, <2>4, <3>4 DEF SpinOK
    <3> QED
      BY <1>2, <2>4, <3>1, <3>2, <3>3, <3>4 DEF SpinOK
  <2>5. CASE ~ (Serving /\ probe /\ ~ did)
    BY <1>2, <2>1, <2>3, <2>5 DEF SpinOK
  <2> QED
    BY <2>4, <2>5
<1>4. CASE Pass
  <2>1. Serving /\ Pending \in BOOLEAN
    BY <1>4, PendingType DEF Pass, Serving, ServePcs
  <2>2. spc' = "reset" /\ Pending /\ UNCHANGED <<busy, privecb, req_state, owner, asvt>>
    BY <1>4 DEF Pass, Goto
  <2>3. \A s : Waiting(s)' <=> Waiting(s)
    BY <2>2 DEF Waiting, Other
  <2>4. Pending => (busy # 0 /\ privecb) \/ \E s \in Slots : Waiting(s)
    BY <1>4, <2>1, GateAgrees DEF Pass
  <2> QED
    BY <2>1, <2>2, <2>3, <2>4 DEF SpinOK, Serving, ServePcs
<1>5. CASE Sleep \/ Wake \/ PassOther
  BY <1>2, <1>5 DEF Sleep, Wake, PassOther, SpinOK, Goto, Serving, ServePcs
<1>6. CASE Reset
  <2>1. /\ spc = "reset" /\ spc' = IF busy # 0 /\ privecb THEN "complete" ELSE "look"
        /\ UNCHANGED <<busy, privecb, req_state, owner, asvt, probe, did>>
    BY <1>6 DEF Reset, Goto
  <2>2. \A s : Waiting(s)' <=> Waiting(s)
    BY <2>1 DEF Waiting, Other
  <2> QED
    BY <1>2, <2>1, <2>2 DEF SpinOK, Serving, ServePcs
<1>7. CASE Look
  <2>1. /\ spc = "look" /\ spc' = IF \E s \in Slots : Other(s) THEN "scan" ELSE "exec"
        /\ idx' = 1 /\ UNCHANGED <<busy, privecb, req_state, owner, asvt, probe, did>>
    BY <1>7 DEF Look, Goto
  <2>2. \A s : Waiting(s)' <=> Waiting(s)
    BY <2>1 DEF Waiting, Other
  <2>3. \A s \in Slots : s >= 1
    BY <1>2 DEF Slots
  <2>4. (\E s \in Slots : Waiting(s)) => spc' = "scan" /\ \E s \in Slots : s >= idx' /\ Waiting(s)'
    BY <2>1, <2>2, <2>3 DEF Waiting
  <2> QED
    BY <1>2, <2>1, <2>4 DEF SpinOK, Serving, ServePcs
<1>8. CASE ScanHit
  BY <1>2, <1>8 DEF ScanHit, Goto, SpinOK, Serving, ServePcs
<1>9. CASE ScanMiss
  <2>1. /\ spc = "scan" /\ UNCHANGED <<busy, privecb, req_state, owner, asvt, probe, did>>
        /\ spc' = (IF idx < NSlots THEN "scan" ELSE "exec")
        /\ idx' = (IF idx < NSlots THEN idx + 1 ELSE 1)
    BY <1>9 DEF ScanMiss, Goto, NextSlot
  <2>2. \A s : Waiting(s)' <=> Waiting(s)
    BY <2>1 DEF Waiting, Other
  <2>3. Serving
    BY <2>1 DEF Serving, ServePcs
  <2>4. ~ Waiting(idx)
    BY <1>2, <1>9, <2>3, ScanStops DEF ScanMiss, Slots
  <2>5. SUFFICES ASSUME probe, ~ did PROVE spc' = "scan" /\ \E s \in Slots : s >= idx' /\ Waiting(s)'
    BY <2>1 DEF SpinOK, Serving, ServePcs
  <2>6. PICK s \in Slots : s >= idx /\ Waiting(s)
    BY <1>2, <2>1, <2>3, <2>5 DEF SpinOK
  <2>7. s \in 1 .. NSlots /\ s # idx
    BY <2>4, <2>6 DEF Slots
  <2> QED
    BY <1>2, <2>1, <2>2, <2>6, <2>7
<1>10. CASE Complete \/ ActHold \/ ActDispatch \/ ActReap
  <2>1. did'
    BY <1>10 DEF Complete, ActHold, ActDispatch, ActReap
  <2>2. Serving'
    <3>1. CASE ActReap
      <4>1. Serving
        BY <3>1 DEF ActReap, Serving, ServePcs
      <4> QED
        BY <3>1, <4>1, ReapEffect DEF Reap, IInv
    <3> QED
      BY <1>10, <3>1 DEF Complete, ActHold, ActDispatch, Goto, Serving, ServePcs
  <2> QED
    BY <2>1, <2>2 DEF SpinOK
<1>11. CASE \/ MarkHeld \/ MarkDone \/ MarkReap \/ Reply \/ ReapClear \/ ReapRead \/ ReapWrite \/ AdoptReap
            \/ ExecComplete \/ ExecEnd
  <2>1. UNCHANGED <<probe, did>>
    BY <1>11 DEF MarkHeld, MarkDone, MarkReap, Reply, ReapClear, ReapRead, ReapWrite, AdoptReap,
       ExecComplete, ExecEnd
  <2>2. spc \notin {"reset", "complete", "look", "scan", "act"} \cup StopPcs
    BY <1>11 DEF MarkHeld, MarkDone, MarkReap, Reply, ReapClear, ReapRead, ReapWrite, AdoptReap,
       ExecComplete, ExecEnd, StopPcs
  <2>3. Serving' <=> Serving
    <3>1. CASE MarkReap \/ AdoptReap
      BY <3>1, ReapEffect DEF Reap, IInv
    <3>2. CASE ReapClear \/ ReapRead \/ ReapWrite
      BY <3>2 DEF ReapClear, ReapRead, ReapWrite, Serving, ServePcs, ReapPcs, Goto, IInv, OwnerInv,
         TypeOK, DataTypes
    <3> QED
      BY <1>11, <3>1, <3>2 DEF MarkHeld, MarkDone, Reply, ExecComplete, ExecEnd, Goto, Serving, ServePcs
  <2>4. ~ (probe /\ ~ did) \/ (~ Serving /\ ~ probe)
    BY <1>2, <2>2 DEF SpinOK
  <2> QED
    BY <1>2, <2>1, <2>2, <2>3, <2>4 DEF SpinOK
<1>12. CASE StopBegin \/ Stop \/ Abend \/ AdoptFail \/ AdoptBegin
  <2>1. ~ Serving' /\ (spc' \in StopPcs \/ ~ probe')
    BY <1>2, <1>12 DEF Stop, StopBegin, StopClear, StopPoll, StopWake, StopPause, StopSettle, StopFree,
       StopRetain, Abend, AdoptFail, AdoptBegin, ServerEnds, Goto, SpinOK, Serving, ServePcs, ReapPcs,
       StopPcs, ServerUp
  <2> QED
    BY <2>1 DEF SpinOK
<1>13. CASE Adopt /\ ~ AdoptReap
  <2>1. probe' = probe /\ ~ probe
    BY <1>2, <1>13 DEF Adopt, AdoptStamp, AdoptScrub, AdoptSkip, AdoptHold, AdoptLeave, AdoptPost,
       AdoptNext, AdoptPoll, AdoptPause, AdoptSettle, AdoptRouter, AdoptActive, AdoptSteal, SpinOK,
       Serving, ServePcs, ReapPcs, StopPcs
  <2> QED
    BY <2>1 DEF SpinOK
<1> QED
  BY <1>3, <1>4, <1>5, <1>6, <1>7, <1>8, <1>9, <1>10, <1>11, <1>12, <1>13 DEF Next, Task, Serve, Adopt

(* A pass the WAIT gate let through because its probe found work does find *)
(* work, as long as the ASVT can be read at the gate and no ended address    *)
(* space has been re-created with its ASCB and ASID.                         *)
THEOREM GateHonest ==
    ASSUME LongPauses, DrainMax # 0, "gate" \notin Unreadable
    PROVE  Spec => [](births = 0 => NoHotSpin)
<1>1. Init => SpinInv
  BY DEF Init, SpinInv, SpinOK
<1>2. IInv /\ IInv' /\ SpinInv /\ [Next]_vars => SpinInv'
  <2>1. CASE UNCHANGED vars
    BY <2>1 DEF vars, SpinInv, SpinOK, Serving, Waiting, Other
  <2> QED
    BY <2>1, SpinStep
<1>3. SpinInv => (births = 0 => NoHotSpin)
  BY DEF SpinInv, SpinOK, NoHotSpin, Serving, ServePcs
<1>4. Spec => []IInv
  BY Inductive
<1> QED
  BY <1>1, <1>2, <1>3, <1>4, PTL DEF Spec
=============================================================================

---------------------------- MODULE NsfDevProofs ----------------------------
(***************************************************************************)
(* NsfDev for any buffers, packets and bounds: the two subchannels never    *)
(* have work outstanding at once, a device that came up releases nothing     *)
(* that a subtask of it still uses, and every packet buffer is in one place.  *)
(*                                                                         *)
(* The first two follow from what executive and subtasks know of each other   *)
(* (DInv).  Buffers are counted: Times says how often one is in a queue, and   *)
(* each step that moves one takes from one place what it adds to another.       *)
(***************************************************************************)
EXTENDS NsfDev, FiniteSetTheorems, SequenceTheorems, TLAPS

ReadPlaces  == {"none", "open", "read", "armed", "tellarm", "wait", "done", "ready",
                "tell", "parked", "close", "ended"}
WritePlaces == {"none", "open", "idle", "write", "wait", "ready", "tell", "close",
                "ended"}
ExecPlaces  == {"start", "openread", "openwrite", "gate", "asleep", "poll", "service",
                "reap", "dispatch", "kick", "halt", "last", "stopsubs", "joinread",
                "joinwrite", "release", "teardown", "ended"}

Types ==
    /\ rpc \in ReadPlaces /\ wpc \in WritePlaces /\ xpc \in ExecPlaces
    /\ state \in {"DOWN", "STARTING", "UP", "QUIESCING"}
    /\ storage \in {"none", "held", "released"}
    /\ rstart \in {"none", "ok", "bad"} /\ wstart \in {"none", "ok", "bad"}

(* The device is served, and its output kicked, only before it is stopped. *)
Stops == {"stopsubs", "joinread", "joinwrite", "release"}
Phase ==
    /\ state = "UP" => ~stop
    /\ xpc = "start" => state = "DOWN" /\ ~stop
    /\ xpc \in {"openread", "openwrite"} => state = "STARTING" /\ ~stop
    /\ xpc \in {"service", "reap", "halt"} => state = "UP"
    /\ xpc \in Stops => state \in {"STARTING", "QUIESCING"}
    /\ xpc \in {"teardown", "ended"} => state # "UP"

(* A READ is outstanding only between its start and its subtask's look at   *)
(* its completion, or while it is purged.                                    *)
Reading ==
    /\ reading => rpc \in {"armed", "tellarm", "wait", "close"}
    /\ rpc \in {"armed", "tellarm", "wait"} /\ recb => ~reading \/ stop

(* While the executive has a block, or may have it, the reader is parked or *)
(* on its way there, and has not been given the buffer back.                 *)
Held ==
    /\ ~(rready /\ rhold)
    /\ rready \/ rhold =>
           /\ rpc \in {"tell", "parked", "close", "ended"} /\ ~reading
           /\ ~stop => rpc \in {"tell", "parked"} /\ ~returnecb
    /\ rpc = "ready" /\ returnecb => stop

(* There is one WRITE: to be picked up, under way, or to be reaped.         *)
AtWrite == wpc \in {"write", "wait", "ready"}
Called  == txgoecb /\ ~stop
Writing ==
    /\ writing => wpc \in {"wait", "close"}
    /\ wpc = "wait" /\ wecb => ~writing \/ stop
    /\ Called => ~AtWrite /\ ~wready /\ ~writing
    /\ wready => ~AtWrite /\ ~writing /\ wpc \notin {"none", "open"}

(* The executive knows of it, and holds the read buffer meanwhile.          *)
Busy ==
    /\ AtWrite \/ writing \/ wready \/ Called => txbusy
    /\ txbusy => rhold

(* The storage is the device's from the start of its first subtask until it *)
(* is released, and goes only after subtasks that were seen to end.          *)
Storage ==
    /\ priv <=> storage = "held"
    /\ ~region => ~priv
    /\ storage = "none" => wpc = "none"
    /\ xpc = "start" => storage = "none" /\ region /\ rpc = "none" /\ wpc = "none"
    /\ state # "DOWN" => storage = "held"
    /\ xpc = "openread" => wpc = "none"
    /\ wstart = "none" <=> wpc \in {"none", "open"}
    /\ joined /\ xpc \in {"joinwrite", "release"} => Ended(rpc)
    /\ joined /\ xpc = "release" => Ended(wpc)

DInv ==
    /\ Types /\ Phase /\ Reading /\ Held /\ Writing /\ Busy /\ Storage

USE DEF device, subs, ecbs, shared, own, packets, blocks, channel, Goto, Ended,
        ReadPlaces, WritePlaces, ExecPlaces, Stops, AtWrite, Called

-----------------------------------------------------------------------------
(* At first nothing is started, outstanding or held. *)
LEMMA DInvInit ==
    Init => DInv
  BY DEF Init, DInv, Types, Phase, Reading, Held, Writing, Busy, Storage

(* The read subtask. *)
LEMMA ReaderKeeps ==
    ASSUME DInv, read_sub
    PROVE  DInv'
<1> USE DEF DInv
<1>1. CASE ReadOpen
  <2> USE <1>1 DEF ReadOpen
  <2>1. Types' /\ Phase' /\ Writing' /\ Busy'
    BY DEF Types, Phase, Writing, Busy
  <2>2. Reading'
    BY DEF Reading
  <2>3. Held'
    BY DEF Held
  <2>4. Storage'
    BY DEF Storage
  <2> QED
    BY <2>1, <2>2, <2>3, <2>4
<1>2. CASE ReadStart
  <2> USE <1>2 DEF ReadStart
  <2>1. Types' /\ Phase' /\ Writing' /\ Busy'
    BY DEF Types, Phase, Writing, Busy
  <2>2. Reading'
    BY DEF Reading
  <2>3. Held'
    BY DEF Held
  <2>4. Storage'
    BY DEF Storage
  <2> QED
    BY <2>1, <2>2, <2>3, <2>4
<1>3. CASE ReadArmed
  <2> USE <1>3 DEF ReadArmed
  <2>1. Types' /\ Phase' /\ Writing' /\ Busy'
    BY DEF Types, Phase, Writing, Busy
  <2>2. Reading'
    BY DEF Reading
  <2>3. Held'
    BY DEF Held
  <2>4. Storage'
    BY DEF Storage
  <2> QED
    BY <2>1, <2>2, <2>3, <2>4
<1>4. CASE ReadTellArmed
  <2> USE <1>4 DEF ReadTellArmed
  <2>1. Types' /\ Phase' /\ Writing' /\ Busy'
    BY DEF Types, Phase, Writing, Busy
  <2>2. Reading'
    BY DEF Reading
  <2>3. Held'
    BY DEF Held
  <2>4. Storage'
    BY DEF Storage
  <2> QED
    BY <2>1, <2>2, <2>3, <2>4
<1>5. CASE ReadDone
  <2> USE <1>5 DEF ReadDone
  <2>1. Types' /\ Phase' /\ Writing' /\ Busy'
    BY DEF Types, Phase, Writing, Busy
  <2>2. Reading'
    BY DEF Reading
  <2>3. Held'
    BY DEF Held
  <2>4. Storage'
    BY DEF Storage
  <2> QED
    BY <2>1, <2>2, <2>3, <2>4
<1>6. CASE ReadClear
  <2> USE <1>6 DEF ReadClear
  <2>1. Types' /\ Phase' /\ Writing' /\ Busy'
    BY DEF Types, Phase, Writing, Busy
  <2>2. Reading'
    BY DEF Reading
  <2>3. Held'
    BY DEF Held
  <2>4. Storage'
    BY DEF Storage
  <2> QED
    BY <2>1, <2>2, <2>3, <2>4
<1>7. CASE ReadReady
  <2> USE <1>7 DEF ReadReady
  <2>1. Types' /\ Phase' /\ Writing' /\ Busy'
    BY DEF Types, Phase, Writing, Busy
  <2>2. Reading'
    BY DEF Reading
  <2>3. Held'
    BY DEF Reading, Held
  <2>4. Storage'
    BY DEF Storage
  <2> QED
    BY <2>1, <2>2, <2>3, <2>4
<1>8. CASE ReadTell
  <2> USE <1>8 DEF ReadTell
  <2>1. Types' /\ Phase' /\ Writing' /\ Busy'
    BY DEF Types, Phase, Writing, Busy
  <2>2. Reading'
    BY DEF Reading
  <2>3. Held'
    BY DEF Held
  <2>4. Storage'
    BY DEF Storage
  <2> QED
    BY <2>1, <2>2, <2>3, <2>4
<1>9. CASE ReadReturned
  <2> USE <1>9 DEF ReadReturned
  <2>1. Types' /\ Phase' /\ Writing' /\ Busy'
    BY DEF Types, Phase, Writing, Busy
  <2>2. Reading'
    BY DEF Reading
  <2>3. Held'
    BY DEF Held
  <2>4. Storage'
    BY DEF Storage
  <2> QED
    BY <2>1, <2>2, <2>3, <2>4
<1>10. CASE ReadClose
  <2> USE <1>10 DEF ReadClose
  <2>1. Types' /\ Phase' /\ Writing' /\ Busy'
    BY DEF Types, Phase, Writing, Busy
  <2>2. Reading'
    BY DEF Reading
  <2>3. Held'
    BY DEF Held
  <2>4. Storage'
    BY DEF Storage
  <2> QED
    BY <2>1, <2>2, <2>3, <2>4
<1> QED
  BY <1>1, <1>2, <1>3, <1>4, <1>5, <1>6, <1>7, <1>8, <1>9, <1>10 DEF read_sub

(* The write subtask. *)
LEMMA WriterKeeps ==
    ASSUME DInv, write_sub
    PROVE  DInv'
<1> USE DEF DInv
<1>1. CASE WriteOpen
  <2> USE <1>1 DEF WriteOpen
  <2>1. Types' /\ Phase' /\ Reading' /\ Held'
    BY DEF Types, Phase, Reading, Held
  <2>2. Writing'
    BY DEF Writing
  <2>3. Busy'
    BY DEF Busy
  <2>4. Storage'
    BY DEF Storage
  <2> QED
    BY <2>1, <2>2, <2>3, <2>4
<1>2. CASE WriteGo
  <2> USE <1>2 DEF WriteGo
  <2>1. Types' /\ Phase' /\ Reading' /\ Held'
    BY DEF Types, Phase, Reading, Held
  <2>2. Writing'
    BY DEF Writing
  <2>3. Busy'
    BY DEF Busy
  <2>4. Storage'
    BY DEF Storage
  <2> QED
    BY <2>1, <2>2, <2>3, <2>4
<1>3. CASE WriteStart
  <2> USE <1>3 DEF WriteStart
  <2>1. Types' /\ Phase' /\ Reading' /\ Held'
    BY DEF Types, Phase, Reading, Held
  <2>2. Writing'
    BY DEF Writing
  <2>3. Busy'
    BY DEF Busy
  <2>4. Storage'
    BY DEF Storage
  <2> QED
    BY <2>1, <2>2, <2>3, <2>4
<1>4. CASE WriteDone
  <2> USE <1>4 DEF WriteDone
  <2>1. Types' /\ Phase' /\ Reading' /\ Held'
    BY DEF Types, Phase, Reading, Held
  <2>2. Writing'
    BY DEF Writing
  <2>3. Busy'
    BY DEF Busy
  <2>4. Storage'
    BY DEF Storage
  <2> QED
    BY <2>1, <2>2, <2>3, <2>4
<1>5. CASE WriteReady
  <2> USE <1>5 DEF WriteReady
  <2>1. Types' /\ Phase' /\ Reading' /\ Held'
    BY DEF Types, Phase, Reading, Held
  <2>2. Writing'
    BY DEF Writing
  <2>3. Busy'
    BY DEF Busy
  <2>4. Storage'
    BY DEF Storage
  <2> QED
    BY <2>1, <2>2, <2>3, <2>4
<1>6. CASE WriteTell
  <2> USE <1>6 DEF WriteTell
  <2>1. Types' /\ Phase' /\ Reading' /\ Held'
    BY DEF Types, Phase, Reading, Held
  <2>2. Writing'
    BY DEF Writing
  <2>3. Busy'
    BY DEF Busy
  <2>4. Storage'
    BY DEF Storage
  <2> QED
    BY <2>1, <2>2, <2>3, <2>4
<1>7. CASE WriteClose
  <2> USE <1>7 DEF WriteClose
  <2>1. Types' /\ Phase' /\ Reading' /\ Held'
    BY DEF Types, Phase, Reading, Held
  <2>2. Writing'
    BY DEF Writing
  <2>3. Busy'
    BY DEF Busy
  <2>4. Storage'
    BY DEF Storage
  <2> QED
    BY <2>1, <2>2, <2>3, <2>4
<1> QED
  BY <1>1, <1>2, <1>3, <1>4, <1>5, <1>6, <1>7 DEF write_sub

(* The channel. *)
LEMMA ChannelKeeps ==
    ASSUME DInv, Arrive \/ ArriveAnswer \/ Written
    PROVE  DInv'
<1> USE DEF DInv
<1>1. CASE Arrive
  <2> USE <1>1 DEF Arrive, Completes
  <2>1. Types' /\ Phase' /\ Writing' /\ Busy' /\ Storage'
    BY DEF Types, Phase, Writing, Busy, Storage
  <2>2. Reading'
    BY DEF Reading
  <2>3. Held'
    BY DEF Held
  <2> QED
    BY <2>1, <2>2, <2>3
<1>2. CASE ArriveAnswer
  <2> USE <1>2 DEF ArriveAnswer, Completes
  <2>1. Types' /\ Phase' /\ Writing' /\ Busy' /\ Storage'
    BY DEF Types, Phase, Writing, Busy, Storage
  <2>2. Reading'
    BY DEF Reading
  <2>3. Held'
    BY DEF Held
  <2> QED
    BY <2>1, <2>2, <2>3
<1>3. CASE Written
  <2> USE <1>3 DEF Written
  <2>1. Types' /\ Phase' /\ Reading' /\ Held' /\ Storage'
    BY DEF Types, Phase, Reading, Held, Storage
  <2>2. Writing'
    BY DEF Writing
  <2>3. Busy'
    BY DEF Busy
  <2> QED
    BY <2>1, <2>2, <2>3
<1> QED
  BY <1>1, <1>2, <1>3

(* The start.  An OPEN reports before the wait for it ends. *)
LEMMA StartKeeps ==
    ASSUME DInv, Start
    PROVE  DInv'
<1> USE DEF DInv
<1>1. CASE StartRead
  <2> USE <1>1 DEF StartRead
  <2>1. Types' /\ Writing' /\ Busy'
    BY DEF Types, Writing, Busy
  <2>2. Phase'
    BY DEF Phase
  <2>3. Reading'
    BY DEF Reading, Storage
  <2>4. Held'
    BY DEF Held, Storage
  <2>5. Storage'
    BY DEF Storage
  <2> QED
    BY <2>1, <2>2, <2>3, <2>4, <2>5
<1>2. CASE StartFails
  <2> USE <1>2 DEF StartFails
  <2>1. Types' /\ Reading' /\ Held' /\ Writing' /\ Busy'
    BY DEF Types, Reading, Held, Writing, Busy
  <2>2. Phase'
    BY DEF Phase
  <2>3. Storage'
    BY DEF Storage
  <2> QED
    BY <2>1, <2>2, <2>3
<1>3. CASE StartWrite
  <2> USE <1>3 DEF StartWrite, Reported
  <2>1. Types' /\ Reading' /\ Held'
    BY DEF Types, Reading, Held
  <2>2. Phase'
    BY DEF Phase
  <2>3. Writing'
    BY DEF Writing, Storage
  <2>4. Busy'
    BY DEF Busy
  <2>5. Storage'
    BY DEF Phase, Storage
  <2> QED
    BY <2>1, <2>2, <2>3, <2>4, <2>5
<1>4. CASE StartEnds
  <2> USE <1>4 DEF StartEnds, Reported
  <2>1. Types' /\ Reading' /\ Held' /\ Writing' /\ Busy'
    BY DEF Types, Reading, Held, Writing, Busy
  <2>2. Phase'
    BY DEF Phase
  <2>3. Storage'
    BY DEF Phase, Storage
  <2> QED
    BY <2>1, <2>2, <2>3
<1> QED
  BY <1>1, <1>2, <1>3, <1>4 DEF Start

(* A pass begins and ends. *)
LEMMA PassKeeps ==
    ASSUME DInv, Pass \/ Sleep \/ Wake \/ PassOther \/ PassEnds
    PROVE  DInv'
<1> USE DEF DInv
<1>1. CASE Pass
  <2> USE <1>1 DEF Pass, Begin
  <2>1. Types' /\ Reading' /\ Held' /\ Writing' /\ Busy'
    BY DEF Types, Reading, Held, Writing, Busy
  <2>2. Phase'
    BY DEF Phase
  <2>3. Storage'
    BY DEF Storage
  <2> QED
    BY <2>1, <2>2, <2>3
<1>2. CASE Sleep \/ Wake \/ PassOther
  <2> USE <1>2 DEF Sleep, Wake, PassOther, Begin
  <2>1. Types' /\ Reading' /\ Held' /\ Writing' /\ Busy'
    BY DEF Types, Reading, Held, Writing, Busy
  <2>2. Phase'
    BY DEF Phase
  <2>3. Storage'
    BY DEF Storage
  <2> QED
    BY <2>1, <2>2, <2>3
<1>3. CASE PassEnds
  <2> USE <1>3 DEF PassEnds
  <2>1. Types' /\ Reading' /\ Held' /\ Writing' /\ Busy'
    BY DEF Types, Reading, Held, Writing, Busy
  <2>2. Phase'
    BY DEF Phase
  <2>3. Storage'
    BY DEF Storage
  <2> QED
    BY <2>1, <2>2, <2>3
<1> QED
  BY <1>1, <1>2, <1>3

(* What a pass does before the kick. *)
LEMMA ServeKeeps ==
    ASSUME DInv, Serve \/ Receive \/ Originate
    PROVE  DInv'
<1> USE DEF DInv
<1>1. CASE PollInput
  <2> USE <1>1 DEF PollInput
  <2>1. Types' /\ Reading' /\ Held' /\ Writing' /\ Busy'
    BY DEF Types, Reading, Held, Writing, Busy
  <2>2. Phase'
    BY DEF Phase
  <2>3. Storage'
    BY DEF Storage
  <2> QED
    BY <2>1, <2>2, <2>3
<1>2. CASE ServiceRead
  <2> USE <1>2 DEF ServiceRead
  <2>1. Types' /\ Reading' /\ Writing'
    BY DEF Types, Reading, Writing
  <2>2. Phase'
    BY DEF Phase
  <2>3. Held'
    BY DEF Held
  <2>4. Busy'
    BY DEF Busy
  <2>5. Storage'
    BY DEF Storage
  <2> QED
    BY <2>1, <2>2, <2>3, <2>4, <2>5
<1>3. CASE ServiceWrite
  <2> USE <1>3 DEF ServiceWrite
  <2>1. Types' /\ Reading' /\ Held'
    BY DEF Types, Reading, Held
  <2>2. Phase'
    BY DEF Phase
  <2>3. Writing'
    BY DEF Writing
  <2>4. Busy'
    BY DEF Writing, Busy
  <2>5. Storage'
    BY DEF Storage
  <2> QED
    BY <2>1, <2>2, <2>3, <2>4, <2>5
<1>4. CASE Handle
  <2> USE <1>4 DEF Handle
  <2>1. Types' /\ Phase' /\ Reading' /\ Held' /\ Writing'
       /\ Busy' /\ Storage'
    BY DEF Types, Phase, Reading, Held, Writing, Busy, Storage
  <2> QED
    BY <2>1
<1>5. CASE DispatchEnds
  <2> USE <1>5 DEF DispatchEnds
  <2>1. Types' /\ Reading' /\ Held' /\ Writing' /\ Busy'
    BY DEF Types, Reading, Held, Writing, Busy
  <2>2. Phase'
    BY DEF Phase
  <2>3. Storage'
    BY DEF Storage
  <2> QED
    BY <2>1, <2>2, <2>3
<1>6. CASE Receive
  <2> USE <1>6 DEF Receive
  <2>1. Types' /\ Phase' /\ Reading' /\ Held' /\ Writing'
       /\ Busy' /\ Storage'
    BY DEF Types, Phase, Reading, Held, Writing, Busy, Storage
  <2> QED
    BY <2>1
<1>7. CASE Originate
  <2> USE <1>7 DEF Originate
  <2>1. Types' /\ Phase' /\ Reading' /\ Held' /\ Writing'
       /\ Busy' /\ Storage'
    BY DEF Types, Phase, Reading, Held, Writing, Busy, Storage
  <2> QED
    BY <2>1
<1> QED
  BY <1>1, <1>2, <1>3, <1>4, <1>5, <1>6, <1>7 DEF Serve

(* The kick. *)
LEMMA KickKeeps ==
    ASSUME DInv, Kick
    PROVE  DInv'
<1> USE DEF DInv
<1>1. CASE KickIdle
  <2> USE <1>1 DEF KickIdle
  <2>1. Types' /\ Reading' /\ Held' /\ Writing' /\ Busy'
    BY DEF Types, Reading, Held, Writing, Busy
  <2>2. Phase'
    BY DEF Phase
  <2>3. Storage'
    BY DEF Storage
  <2> QED
    BY <2>1, <2>2, <2>3
<1>2. CASE KickHalt
  <2> USE <1>2 DEF KickHalt, MayHalt
  <2>1. Types' /\ Reading' /\ Held' /\ Writing' /\ Busy'
    BY DEF Types, Reading, Held, Writing, Busy
  <2>2. Phase'
    BY DEF Phase
  <2>3. Storage'
    BY DEF Storage
  <2> QED
    BY <2>1, <2>2, <2>3
<1>3. CASE HaltRead
  <2> USE <1>3 DEF HaltRead
  <2>1. Types' /\ Writing' /\ Busy'
    BY DEF Types, Writing, Busy
  <2>2. Phase'
    BY DEF Phase
  <2>3. Reading'
    BY DEF Reading
  <2>4. Held'
    BY DEF Held
  <2>5. Storage'
    BY DEF Storage
  <2> QED
    BY <2>1, <2>2, <2>3, <2>4, <2>5
<1>4. CASE KickWrite
  <2> USE <1>4 DEF KickWrite
  <2>1. Types' /\ Reading' /\ Held'
    BY DEF Types, Reading, Held
  <2>2. Phase'
    BY DEF Phase
  <2>3. Writing'
    BY DEF Writing, Busy
  <2>4. Busy'
    BY DEF Busy
  <2>5. Storage'
    BY DEF Storage
  <2> QED
    BY <2>1, <2>2, <2>3, <2>4, <2>5
<1>5. CASE KickRelease
  <2> USE <1>5 DEF KickRelease
  <2>1. Types' /\ Reading' /\ Writing'
    BY DEF Types, Reading, Writing
  <2>2. Phase'
    BY DEF Phase
  <2>3. Held'
    BY DEF Held
  <2>4. Busy'
    BY DEF Busy
  <2>5. Storage'
    BY DEF Storage
  <2> QED
    BY <2>1, <2>2, <2>3, <2>4, <2>5
<1> QED
  BY <1>1, <1>2, <1>3, <1>4, <1>5 DEF Kick

(* The stop. *)
LEMMA StopKeeps ==
    ASSUME DInv, Stop
    PROVE  DInv'
<1> USE DEF DInv
<1>1. CASE StopSubs
  <2> USE <1>1 DEF StopSubs
  <2>1. Types'
    BY DEF Types
  <2>2. Phase'
    BY DEF Phase
  <2>3. Reading'
    BY DEF Reading
  <2>4. Held'
    BY DEF Held
  <2>5. Writing'
    BY DEF Writing
  <2>6. Busy'
    BY DEF Busy
  <2>7. Storage'
    BY DEF Storage
  <2> QED
    BY <2>1, <2>2, <2>3, <2>4, <2>5, <2>6, <2>7
<1>2. CASE JoinRead
  <2> USE <1>2 DEF JoinRead, Joins
  <2>1. Types' /\ Reading' /\ Held' /\ Writing' /\ Busy'
    BY DEF Types, Reading, Held, Writing, Busy
  <2>2. Phase'
    BY DEF Phase
  <2>3. Storage'
    BY DEF Storage
  <2> QED
    BY <2>1, <2>2, <2>3
<1>3. CASE JoinWrite
  <2> USE <1>3 DEF JoinWrite, Joins
  <2>1. Types' /\ Reading' /\ Held' /\ Writing' /\ Busy'
    BY DEF Types, Reading, Held, Writing, Busy
  <2>2. Phase'
    BY DEF Phase
  <2>3. Storage'
    BY DEF Storage
  <2> QED
    BY <2>1, <2>2, <2>3
<1>4. CASE ReleaseStopped
  <2> USE <1>4 DEF ReleaseStopped
  <2>1. Types' /\ Reading' /\ Held' /\ Writing' /\ Busy'
    BY DEF Types, Reading, Held, Writing, Busy
  <2>2. Phase'
    BY DEF Phase
  <2>3. Storage'
    BY DEF Storage
  <2> QED
    BY <2>1, <2>2, <2>3
<1>5. CASE ReleaseFailed
  <2> USE <1>5 DEF ReleaseFailed
  <2>1. Types' /\ Reading' /\ Held' /\ Writing' /\ Busy'
    BY DEF Types, Reading, Held, Writing, Busy
  <2>2. Phase'
    BY DEF Phase
  <2>3. Storage'
    BY DEF Storage
  <2> QED
    BY <2>1, <2>2, <2>3
<1>6. CASE Teardown
  <2> USE <1>6 DEF Teardown
  <2>1. Types' /\ Reading' /\ Held' /\ Writing' /\ Busy'
    BY DEF Types, Reading, Held, Writing, Busy
  <2>2. Phase'
    BY DEF Phase
  <2>3. Storage'
    BY DEF Storage
  <2> QED
    BY <2>1, <2>2, <2>3
<1> QED
  BY <1>1, <1>2, <1>3, <1>4, <1>5, <1>6 DEF Stop

(* A stutter. *)
LEMMA StutterKeeps ==
    ASSUME DInv, UNCHANGED vars
    PROVE  DInv'
  BY DEF vars, DInv, Types, Phase, Reading, Held, Writing, Busy, Storage

-----------------------------------------------------------------------------
(* The hand-over between the subtasks and the executive holds at every step, *)
(* however long OPEN and CLOSE take (ctci_op_start, ctci_stop_and_join).        *)
THEOREM DevInductive ==
    Spec => []DInv
<1>1. DInv /\ [Next]_vars => DInv'
  <2> SUFFICES ASSUME DInv, [Next]_vars
               PROVE  DInv'
    OBVIOUS
  <2>1. CASE read_sub
    BY <2>1, ReaderKeeps
  <2>2. CASE write_sub
    BY <2>2, WriterKeeps
  <2>3. CASE Arrive \/ ArriveAnswer \/ Written
    BY <2>3, ChannelKeeps
  <2>4. CASE Start
    BY <2>4, StartKeeps
  <2>5. CASE Pass \/ Sleep \/ Wake \/ PassOther \/ PassEnds
    BY <2>5, PassKeeps
  <2>6. CASE Serve \/ Receive \/ Originate
    BY <2>6, ServeKeeps
  <2>7. CASE Kick
    BY <2>7, KickKeeps
  <2>8. CASE Stop
    BY <2>8, StopKeeps
  <2>9. CASE UNCHANGED vars
    BY <2>9, StutterKeeps
  <2> QED
    BY <2>1, <2>2, <2>3, <2>4, <2>5, <2>6, <2>7, <2>8, <2>9 DEF Next, Exec
<1> QED
  BY <1>1, DInvInit, PTL DEF Spec

(* A READ and a WRITE are never outstanding at once: a WRITE is only known to *)
(* be asked for while the executive holds the read buffer, and then the reader *)
(* is parked with no READ started (ctci_io_kick, ADR-0025).                     *)
THEOREM PairNeverBoth ==
    Spec => []PairSequenced
<1>1. DInv => PairSequenced
  BY DEF DInv, Busy, Held, PairSequenced
<1> QED
  BY <1>1, DevInductive, PTL

-----------------------------------------------------------------------------
(* The write subtask opens only while the executive waits for it, so that of *)
(* a start that fails no OPEN of the writer succeeds.                          *)
Opening ==
    /\ wpc = "open" => xpc = "openwrite"
    /\ state = "STARTING" /\ xpc \in Stops => wstart # "ok"

(* The subtasks leave what the device is. *)
LEMMA SubtasksOutlived ==
    ASSUME DInv, Opening, StorageOutlives, read_sub \/ write_sub
    PROVE  Opening' /\ StorageOutlives'
<1> USE DEF DInv, Opening, StorageOutlives
<1>1. CASE read_sub
  BY <1>1 DEF read_sub, ReadOpen, ReadStart, ReadArmed, ReadTellArmed, ReadDone,
              ReadClear, ReadReady, ReadTell, ReadReturned, ReadClose
<1>2. CASE WriteOpen
  BY <1>2 DEF WriteOpen, Phase, Storage
<1>3. CASE write_sub /\ ~WriteOpen
  BY <1>3 DEF write_sub, WriteGo, WriteStart, WriteDone, WriteReady, WriteTell,
              WriteClose
<1> QED
  BY <1>1, <1>2, <1>3

(* A start, if an OPEN reports before the executive's wait for it ends. *)
LEMMA StartOutlived ==
    ASSUME DInv, Opening, StorageOutlives, Start, "open" \notin Slow
    PROVE  Opening' /\ StorageOutlives'
<1> USE DEF DInv, Opening, StorageOutlives
<1>1. CASE StartRead
  BY <1>1 DEF StartRead, Storage
<1>2. CASE StartFails
  BY <1>2 DEF StartFails
<1>3. CASE StartWrite
  BY <1>3 DEF StartWrite, Phase, Storage
<1>4. CASE StartEnds
  BY <1>4 DEF StartEnds, Reported, Types, Phase, Storage
<1> QED
  BY <1>1, <1>2, <1>3, <1>4 DEF Start

(* The stop. *)
LEMMA StopOutlived ==
    ASSUME DInv, Opening, StorageOutlives, Stop
    PROVE  Opening' /\ StorageOutlives'
<1> USE DEF DInv, Opening, StorageOutlives
<1>1. CASE StopSubs
  BY <1>1 DEF StopSubs
<1>2. CASE JoinRead \/ JoinWrite
  BY <1>2 DEF JoinRead, JoinWrite, Joins
<1>3. CASE ReleaseStopped
  BY <1>3 DEF ReleaseStopped, Storage
<1>4. CASE ReleaseFailed
  BY <1>4 DEF ReleaseFailed, Storage
<1>5. CASE Teardown
  BY <1>5 DEF Teardown, Types, Storage
<1> QED
  BY <1>1, <1>2, <1>3, <1>4, <1>5 DEF Stop

(* Everything else the executive and the channel do. *)
LEMMA RestOutlived ==
    ASSUME DInv, Opening, StorageOutlives,
           \/ Arrive \/ ArriveAnswer \/ Written
           \/ Pass \/ Sleep \/ Wake \/ PassOther \/ PassEnds \/ Serve \/ Receive
           \/ Originate \/ Kick
    PROVE  Opening' /\ StorageOutlives'
<1> USE DEF DInv, Opening, StorageOutlives
<1>1. CASE Arrive \/ ArriveAnswer \/ Written
  BY <1>1 DEF Arrive, ArriveAnswer, Completes, Written
<1>2. CASE Pass \/ Sleep \/ Wake \/ PassOther
  BY <1>2 DEF Pass, Sleep, Wake, PassOther, Begin
<1>3. CASE PassEnds
  BY <1>3 DEF PassEnds
<1>4. CASE Serve \/ Receive \/ Originate
  BY <1>4 DEF Serve, PollInput, ServiceRead, ServiceWrite, Handle, DispatchEnds,
              Receive, Originate
<1>5. CASE Kick
  BY <1>5 DEF Kick, KickIdle, KickHalt, HaltRead, KickWrite, KickRelease
<1> QED
  BY <1>1, <1>2, <1>3, <1>4, <1>5

(* A device that came up gives back neither its storage nor the pools while   *)
(* a subtask that uses them lives (ctci_op_shutdown), if an OPEN reports        *)
(* before the executive's wait for it ends (ctci_op_start).                      *)
THEOREM NothingUsedReleased ==
    ASSUME "open" \notin Slow
    PROVE  Spec => []StorageOutlives
<1>1. Init => Opening /\ StorageOutlives
  BY DEF Init, Opening, StorageOutlives
<1>2. DInv /\ (Opening /\ StorageOutlives) /\ [Next]_vars => (Opening /\ StorageOutlives)'
  <2> SUFFICES ASSUME DInv, Opening, StorageOutlives, [Next]_vars
               PROVE  Opening' /\ StorageOutlives'
    OBVIOUS
  <2>1. CASE read_sub \/ write_sub
    BY <2>1, SubtasksOutlived
  <2>2. CASE Start
    BY <2>2, StartOutlived
  <2>3. CASE Stop
    BY <2>3, StopOutlived
  <2>4. CASE \/ Arrive \/ ArriveAnswer \/ Written
             \/ Pass \/ Sleep \/ Wake \/ PassOther \/ PassEnds \/ Serve \/ Receive
             \/ Originate \/ Kick
    BY <2>4, RestOutlived
  <2>5. CASE UNCHANGED vars
    BY <2>5 DEF vars, Opening, StorageOutlives
  <2> QED
    BY <2>1, <2>2, <2>3, <2>4, <2>5 DEF Next, Exec
<1> QED
  BY <1>1, <1>2, DevInductive, PTL DEF Spec

-----------------------------------------------------------------------------
(* A set with at most one element, counted. *)
LEMMA OneOf ==
    ASSUME NEW b, NEW S
    PROVE  Cardinality({b} \cap S) = IF b \in S THEN 1 ELSE 0
<1>1. CASE b \in S
  <2>1. {b} \cap S = {b}
    BY <1>1
  <2> QED
    BY <1>1, <2>1, FS_Singleton
<1>2. CASE b \notin S
  <2>1. {b} \cap S = {}
    BY <1>2
  <2> QED
    BY <1>2, <2>1, FS_EmptySet
<1> QED
  BY <1>1, <1>2

(* The positions of a buffer in a queue are a finite set. *)
LEMMA TimesNat ==
    ASSUME NEW q \in Seq(Carried), NEW b
    PROVE  /\ {i \in 1 .. Len(q) : q[i].buf = b} = {i \in DOMAIN q : q[i].buf = b}
           /\ IsFiniteSet({i \in 1 .. Len(q) : q[i].buf = b})
           /\ Times(b, q) \in Nat
           /\ Times(b, q) = 0 <=> b \notin BufsOf(q)
<1> DEFINE P == {i \in 1 .. Len(q) : q[i].buf = b}
<1>1. DOMAIN q = 1 .. Len(q) /\ Len(q) \in Nat
  BY LenProperties
<1>2. IsFiniteSet(1 .. Len(q)) /\ P \in SUBSET (1 .. Len(q))
  BY <1>1, FS_Interval
<1>3. IsFiniteSet(P)
  BY <1>2, FS_Subset
<1>4. P = {i \in DOMAIN q : q[i].buf = b} /\ Times(b, q) = Cardinality(P)
  BY <1>1 DEF Times
<1>5. Cardinality(P) \in Nat
  BY <1>3, FS_CardinalityType
<1>6. Cardinality(P) = 0 <=> P = {}
  BY <1>3, FS_EmptySet
<1>7. P = {} <=> b \notin BufsOf(q)
  BY <1>1 DEF BufsOf
<1> QED
  BY <1>3, <1>4, <1>5, <1>6, <1>7

(* Two queues in a row hold what each of them does. *)
LEMMA TimesConcat ==
    ASSUME NEW p \in Seq(Carried), NEW q \in Seq(Carried), NEW b
    PROVE  Times(b, p \o q) = Times(b, p) + Times(b, q)
<1> DEFINE R == p \o q
           A == {i \in 1 .. Len(p) : p[i].buf = b}
           B == {i \in 1 .. Len(q) : q[i].buf = b}
           C == {i \in 1 .. Len(R) : R[i].buf = b}
           D == {i \in C : i > Len(p)}
           f == [i \in B |-> i + Len(p)]
<1>1. /\ R \in Seq(Carried) /\ Len(R) = Len(p) + Len(q) /\ Len(p) \in Nat /\ Len(q) \in Nat
      /\ \A i \in 1 .. Len(p) + Len(q) : R[i] = IF i <= Len(p) THEN p[i] ELSE q[i - Len(p)]
  BY ConcatProperties, LenProperties
<1>2. /\ IsFiniteSet(A) /\ IsFiniteSet(B) /\ IsFiniteSet(C)
      /\ Times(b, p) = Cardinality(A) /\ Times(b, q) = Cardinality(B)
      /\ Times(b, R) = Cardinality(C)
  BY <1>1, TimesNat DEF Times
<1>3. C = A \cup D /\ A \cap D = {}
  <2>1. A \subseteq C
    BY <1>1
  <2>2. \A i \in C : i > Len(p) \/ i \in A
    BY <1>1
  <2>3. A \cap D = {}
    BY <1>1
  <2> QED
    BY <2>1, <2>2, <2>3
<1>4. f \in [B -> D]
  <2>1. \A i \in B : i + Len(p) \in 1 .. Len(R) /\ i + Len(p) > Len(p) /\ (i + Len(p)) - Len(p) = i
    BY <1>1
  <2>2. \A i \in B : R[i + Len(p)] = q[i]
    BY <1>1, <2>1
  <2> QED
    BY <2>1, <2>2
<1>5. \A i \in D : i - Len(p) \in B /\ f[i - Len(p)] = i
  <2>1. \A i \in D : i - Len(p) \in 1 .. Len(q) /\ R[i] = q[i - Len(p)] /\ (i - Len(p)) + Len(p) = i
    BY <1>1
  <2> QED
    BY <2>1
<1>6. \A i, j \in B : f[i] = f[j] => i = j
  BY <1>1
<1>7. f \in Bijection(B, D)
  BY <1>4, <1>5, <1>6 DEF Bijection, Injection, Surjection, IsInjective
<1>8. ExistsBijection(B, D)
  BY <1>7 DEF ExistsBijection
<1>9. IsFiniteSet(D) /\ Cardinality(D) = Cardinality(B)
  BY <1>2, <1>8, FS_Bijection
<1>10. Cardinality(A \cup D) = Cardinality(A) + Cardinality(D) - Cardinality(A \cap D)
  BY <1>2, <1>9, FS_Union
<1>11. Cardinality(A \cap D) = 0
  BY <1>3, FS_EmptySet
<1>12. Cardinality(A) \in Nat /\ Cardinality(B) \in Nat
  BY <1>2, FS_CardinalityType
<1>13. Cardinality(C) = Cardinality(A) + Cardinality(B) - 0
  BY <1>3, <1>9, <1>10, <1>11, Zenon
<1> HIDE DEF A, B, C, D
<1> QED
  BY <1>2, <1>12, <1>13

(* A queue of none, and of one. *)
LEMMA TimesFew ==
    ASSUME NEW b
    PROVE  /\ Times(b, <<>>) = 0
           /\ \A e \in Carried : Times(b, <<e>>) = IF e.buf = b THEN 1 ELSE 0
<1>1. Times(b, <<>>) = 0
  <2>1. {i \in DOMAIN <<>> : <<>>[i].buf = b} = {}
    OBVIOUS
  <2> QED
    BY <2>1, FS_EmptySet DEF Times
<1>2. ASSUME NEW e \in Carried
      PROVE  Times(b, <<e>>) = IF e.buf = b THEN 1 ELSE 0
  <2>1. {i \in DOMAIN <<e>> : <<e>>[i].buf = b} = IF e.buf = b THEN {1} ELSE {}
    OBVIOUS
  <2> QED
    BY <2>1, FS_EmptySet, FS_Singleton DEF Times
<1> QED
  BY <1>1, <1>2

(* One more at the end, one less at the head. *)
LEMMA TimesEnds ==
    ASSUME NEW q \in Seq(Carried), NEW b
    PROVE  /\ \A e \in Carried :
                  Times(b, Append(q, e)) = Times(b, q) + (IF e.buf = b THEN 1 ELSE 0)
           /\ q # <<>> => Times(b, q) = Times(b, Tail(q)) + (IF Head(q).buf = b THEN 1 ELSE 0)
<1>1. ASSUME NEW e \in Carried
      PROVE  Times(b, Append(q, e)) = Times(b, q) + (IF e.buf = b THEN 1 ELSE 0)
  <2>1. Append(q, e) = q \o <<e>> /\ <<e>> \in Seq(Carried)
    BY AppendIsConcat
  <2>2. Times(b, Append(q, e)) = Times(b, q) + Times(b, <<e>>)
    BY <2>1, TimesConcat, Zenon
  <2> QED
    BY <2>2, TimesFew
<1>2. ASSUME q # <<>>
      PROVE  Times(b, q) = Times(b, Tail(q)) + (IF Head(q).buf = b THEN 1 ELSE 0)
  <2>1. Head(q) \in Carried /\ Tail(q) \in Seq(Carried) /\ <<Head(q)>> \in Seq(Carried)
    BY <1>2, HeadTailProperties
  <2>2. q = <<Head(q)>> \o Tail(q)
    <3>1. 1 \in 1 .. Len(q) /\ Len(q) \in 1 .. Len(q) /\ Head(q) = q[1]
      BY <1>2
    <3>2. SubSeq(q, 1, Len(q)) = <<q[1]>> \o SubSeq(q, 1 + 1, Len(q))
      BY <3>1, SubSeqRecursiveFirst
    <3>3. Tail(q) = SubSeq(q, 2, Len(q)) /\ SubSeq(q, 1, Len(q)) = q
      BY <1>2, TailIsSubSeq, SubSeqFull
    <3>4. 1 + 1 = 2
      OBVIOUS
    <3> QED
      BY <3>1, <3>2, <3>3, <3>4, Zenon
  <2>3. Times(b, q) = Times(b, <<Head(q)>>) + Times(b, Tail(q))
    <3>1. \A p, r \in Seq(Carried) : Times(b, p \o r) = Times(b, p) + Times(b, r)
      BY TimesConcat
    <3>2. Times(b, <<Head(q)>> \o Tail(q)) = Times(b, <<Head(q)>>) + Times(b, Tail(q))
      BY <2>1, <3>1
    <3> QED
      BY <2>2, <3>2, Zenon
  <2>4. Times(b, Tail(q)) \in Nat
    BY <2>1, TimesNat
  <2>5. Times(b, <<Head(q)>>) = IF Head(q).buf = b THEN 1 ELSE 0
    BY <2>1, TimesFew
  <2> QED
    BY <2>3, <2>4, <2>5
<1> QED
  BY <1>1, <1>2

-----------------------------------------------------------------------------
(* A set of numbers that is not empty has a least one: the intervals 1 .. n*)
(* are well-founded under strict inclusion.                                *)
LEMMA Least ==
    ASSUME NEW T, T \subseteq Nat, T # {}
    PROVE  \E x \in T : \A y \in T : x <= y
<1>1. PICK F : F = {1 .. n : n \in T}
  OBVIOUS
<1>2. F # {} /\ F \subseteq FiniteSubsetsOf(Nat)
  <2>1. \A n \in T : 1 .. n \in FiniteSubsetsOf(Nat)
    <3>1. \A n \in T : IsFiniteSet(1 .. n)
      BY FS_Interval
    <3>2. \A n \in T : 1 .. n \in SUBSET Nat
      OBVIOUS
    <3> QED
      BY <3>1, <3>2 DEF FiniteSubsetsOf
  <2> QED
    BY <1>1, <2>1
<1>3. PICK X \in F : \A Y \in F : <<Y, X>> \notin StrictSubsetOrdering(Nat)
  BY <1>2, FS_StrictSubsetOrderingWellFounded, WFMin
<1>4. PICK x \in T : X = 1 .. x
  BY <1>1
<1>5. ASSUME NEW y \in T, y < x
      PROVE  FALSE
  <2>1. 1 .. y \in F
    BY <1>1
  <2>2. /\ <<1 .. y, 1 .. x>> \in (SUBSET Nat) \X (SUBSET Nat)
        /\ 1 .. y \subseteq 1 .. x /\ 1 .. y # 1 .. x
    <3>1. x \in 1 .. x /\ x \notin 1 .. y
      BY <1>5
    <3> QED
      BY <1>5, <3>1
  <2> QED
    BY <1>3, <1>4, <2>1, <2>2 DEF StrictSubsetOrdering
<1> QED
  BY <1>5

(* Induction over an interval, with the property given as a set.            *)
LEMMA Climb ==
    ASSUME NEW a \in Nat, NEW b \in Int, NEW S, a \in S,
           \A n \in a + 1 .. b : n - 1 \in S => n \in S
    PROVE  a .. b \subseteq S
<1>1. PICK T : T = (a .. b) \ S
  OBVIOUS
<1>2. ASSUME T # {}
      PROVE  FALSE
  <2>1. T \subseteq Nat
    BY <1>1
  <2>2. PICK n \in T : \A m \in T : n <= m
    BY <1>2, <2>1, Least
  <2>3. n \in a + 1 .. b /\ n - 1 \in a .. b /\ ~ (n <= n - 1) /\ n \notin S
    BY <1>1, <2>2
  <2>4. n - 1 \notin T
    BY <2>2, <2>3
  <2> QED
    BY <1>1, <2>3, <2>4
<1> QED
  BY <1>1, <1>2

(* The recursion that defines Only has its value at every position. *)
LEMMA OnlyUpto ==
    ASSUME NEW q, Len(q) \in Nat, NEW S
    PROVE  \E f : /\ f = [n \in 0 .. Len(q) |->
                             IF n = 0 THEN <<>>
                             ELSE IF q[n] \in S THEN Append(f[n - 1], q[n]) ELSE f[n - 1]]
                  /\ Only(q, S) = f[Len(q)]
<1> DEFINE Step(f, n) == [k \in 0 .. n |->
                             IF k = 0 THEN <<>>
                             ELSE IF q[k] \in S THEN Append(f[k - 1], q[k]) ELSE f[k - 1]]
           Upto(n) == \E f : f = Step(f, n)
<1>0. Len(q) \in Nat /\ Len(q) \in Int /\ 0 \in Nat
  OBVIOUS
<1>1. PICK T : T = {n \in 0 .. Len(q) : Upto(n)}
  OBVIOUS
<1>2. 0 \in T
  <2>1. [k \in 0 .. 0 |-> <<>>] = Step([k \in 0 .. 0 |-> <<>>], 0)
    OBVIOUS
  <2>2. Upto(0)
    BY <2>1
  <2> QED
    BY <1>0, <1>1, <2>2
<1>3. ASSUME NEW n \in 0 + 1 .. Len(q), n - 1 \in T
      PROVE  n \in T
  <2>1. PICK f : f = Step(f, n - 1)
    BY <1>1, <1>3
  <2>2. PICK g : g = [k \in 0 .. n |->
                         IF k < n THEN f[k]
                         ELSE IF q[n] \in S THEN Append(f[n - 1], q[n]) ELSE f[n - 1]]
    OBVIOUS
  <2>3. n \in Nat \ {0}
    BY <1>0
  <2>4. ASSUME NEW k \in 0 .. n
        PROVE  g[k] = IF k = 0 THEN <<>>
                      ELSE IF q[k] \in S THEN Append(g[k - 1], q[k]) ELSE g[k - 1]
    <3>1. CASE k < n
      <4>1. k \in 0 .. n - 1 /\ g[k] = f[k] /\ (k # 0 => k - 1 \in 0 .. n /\ k - 1 < n)
        BY <2>2, <2>3, <3>1
      <4>2. k # 0 => g[k - 1] = f[k - 1]
        BY <2>2, <4>1
      <4>3. f[k] = IF k = 0 THEN <<>>
                   ELSE IF q[k] \in S THEN Append(f[k - 1], q[k]) ELSE f[k - 1]
        BY <2>1, <4>1
      <4> QED
        BY <4>1, <4>2, <4>3
    <3>2. CASE k = n
      <4>1. n - 1 \in 0 .. n /\ n - 1 < n /\ n \in 0 .. n /\ ~ (n < n) /\ n # 0
        BY <2>3
      <4>2. g[n - 1] = f[n - 1]
        BY <2>2, <4>1
      <4>3. g[n] = IF q[n] \in S THEN Append(f[n - 1], q[n]) ELSE f[n - 1]
        BY <2>2, <4>1
      <4> QED
        BY <3>2, <4>1, <4>2, <4>3
    <3> QED
      BY <2>3, <3>1, <3>2
  <2>5. g = Step(g, n)
    BY <2>2, <2>4
  <2>6. Upto(n)
    BY <2>5
  <2>7. n \in 0 .. Len(q)
    BY <1>0
  <2> QED
    BY <1>1, <2>6, <2>7, Zenon
<1>4. PICK f : f = Step(f, Len(q))
  <2>1. 0 .. Len(q) \subseteq T
    BY <1>0, <1>2, <1>3, Climb, Zenon
  <2>2. Len(q) \in T
    BY <1>0, <2>1
  <2> QED
    BY <1>1, <2>2
<1>5. PICK u : u = CHOOSE g : g = Step(g, Len(q))
  OBVIOUS
<1>6. u = Step(u, Len(q))
  BY <1>4, <1>5, Zenon
<1>7. Only(q, S) = u[Len(q)]
  BY <1>5 DEF Only
<1> QED
  BY <1>6, <1>7

(* What is left of a sequence is in the set. *)
LEMMA OnlyOf ==
    ASSUME NEW q, Len(q) \in Nat, NEW S
    PROVE  Only(q, S) \in Seq(S)
<1>1. PICK f : /\ f = [n \in 0 .. Len(q) |->
                          IF n = 0 THEN <<>>
                          ELSE IF q[n] \in S THEN Append(f[n - 1], q[n]) ELSE f[n - 1]]
               /\ Only(q, S) = f[Len(q)]
  BY OnlyUpto
<1>2. PICK T : T = {n \in 0 .. Len(q) : f[n] \in Seq(S)}
  OBVIOUS
<1>3. 0 \in T
  BY <1>1, <1>2
<1>4. ASSUME NEW n \in 0 + 1 .. Len(q), n - 1 \in T
      PROVE  n \in T
  <2>1. n \in 0 .. Len(q) /\ n # 0 /\ f[n - 1] \in Seq(S)
    BY <1>2, <1>4
  <2>2. f[n] = IF q[n] \in S THEN Append(f[n - 1], q[n]) ELSE f[n - 1]
    BY <1>1, <2>1
  <2>3. f[n] \in Seq(S)
    BY <2>1, <2>2, AppendProperties
  <2> QED
    BY <1>2, <2>1, <2>3
<1>5. 0 .. Len(q) \subseteq T
  <2>1. 0 \in Nat /\ Len(q) \in Int
    OBVIOUS
  <2> QED
    BY <1>3, <1>4, <2>1, Climb, Zenon
<1>6. Len(q) \in T
  BY <1>5
<1> QED
  BY <1>1, <1>2, <1>6

(* Of packets with a buffer each, or none, those with a buffer are carried once. *)
LEMMA OnlyTimes ==
    ASSUME NEW q, Len(q) \in Nat,
           \A i \in 1 .. Len(q) : q[i] \in [buf : Bufs \cup {NONE}, pkt : Packets],
           NEW b \in Bufs,
           \A i, j \in 1 .. Len(q) : i # j /\ q[i].buf = q[j].buf => q[i].buf = NONE
    PROVE  Times(b, Only(q, Carried)) = IF \E i \in 1 .. Len(q) : q[i].buf = b THEN 1 ELSE 0
<1>0. b # NONE
  BY DevAssumption
<1>1. PICK f : /\ f = [n \in 0 .. Len(q) |->
                          IF n = 0 THEN <<>>
                          ELSE IF q[n] \in Carried THEN Append(f[n - 1], q[n]) ELSE f[n - 1]]
               /\ Only(q, Carried) = f[Len(q)]
  BY OnlyUpto
<1>2. PICK T : T = {n \in 0 .. Len(q) :
                        /\ f[n] \in Seq(Carried)
                        /\ Times(b, f[n]) = IF \E i \in 1 .. n : q[i].buf = b THEN 1 ELSE 0}
  OBVIOUS
<1>3. 0 \in T
  <2>1. f[0] = <<>>
    BY <1>1
  <2>2. <<>> \in Seq(Carried) /\ 0 \in 0 .. Len(q) /\ 1 .. 0 = {}
    OBVIOUS
  <2> QED
    BY <1>2, <2>1, <2>2, TimesFew
<1>4. ASSUME NEW n \in 0 + 1 .. Len(q), n - 1 \in T
      PROVE  n \in T
  <2>1. /\ n \in 0 .. Len(q) /\ n \in 1 .. Len(q) /\ n # 0 /\ f[n - 1] \in Seq(Carried)
        /\ Times(b, f[n - 1]) = IF \E i \in 1 .. n - 1 : q[i].buf = b THEN 1 ELSE 0
    BY <1>2, <1>4
  <2>2. f[n] = IF q[n] \in Carried THEN Append(f[n - 1], q[n]) ELSE f[n - 1]
    BY <1>1, <2>1
  <2>3. 1 .. n = (1 .. n - 1) \cup {n}
    BY <2>1
  <2>4. CASE q[n] \in Carried
    <3>1. f[n] \in Seq(Carried)
      BY <2>1, <2>2, <2>4, AppendProperties
    <3>2. Times(b, f[n]) = Times(b, f[n - 1]) + (IF q[n].buf = b THEN 1 ELSE 0)
      BY <2>1, <2>2, <2>4, TimesEnds
    <3>3. q[n].buf = b => \A i \in 1 .. n - 1 : q[i].buf # b
      <4>1. \A i \in 1 .. n - 1 : i \in 1 .. Len(q) /\ i # n
        BY <2>1
      <4> QED
        BY <1>0, <2>1, <4>1
    <3>4. Times(b, f[n]) = IF \E i \in 1 .. n : q[i].buf = b THEN 1 ELSE 0
      <4>1. CASE q[n].buf = b
        BY <2>1, <2>3, <3>2, <3>3, <4>1
      <4>2. CASE q[n].buf # b
        <5>1. (\E i \in 1 .. n : q[i].buf = b) <=> \E i \in 1 .. n - 1 : q[i].buf = b
          BY <2>3, <4>2
        <5> QED
          BY <2>1, <3>2, <4>2, <5>1
      <4> QED
        BY <4>1, <4>2
    <3> QED
      BY <1>2, <2>1, <3>1, <3>4
  <2>5. CASE q[n] \notin Carried
    <3>1. q[n].buf # b
      BY <2>1, <2>5 DEF Carried
    <3>2. (\E i \in 1 .. n : q[i].buf = b) <=> \E i \in 1 .. n - 1 : q[i].buf = b
      BY <2>3, <3>1
    <3> QED
      BY <1>2, <2>1, <2>2, <2>5, <3>2
  <2> QED
    BY <2>4, <2>5
<1>5. 0 .. Len(q) \subseteq T
  <2>1. 0 \in Nat /\ Len(q) \in Int
    OBVIOUS
  <2> QED
    BY <1>3, <1>4, <2>1, Climb, Zenon
<1>6. Len(q) \in T
  BY <1>5
<1> QED
  BY <1>1, <1>2, <1>6

-----------------------------------------------------------------------------
(* A packet's answer is a packet. *)
LEMMA InputTyped ==
    ASSUME NEW h, NEW p \in Packets, nsfip_input(h, p).what \in {"turned", "refused"}
    PROVE  nsfip_input(h, p).pkt \in Packets
<1> DEFINE r == nsfip_input(h, p)
<1>1. \A c \in {"icmp", "tcp"}, of \in {"reply", "error", "reset"} : Answer(p, c, of) \in Packets
  BY DEF Answer, Packets, Protocols, Contents, Faults
<1>2. \/ r = Dropped \/ r = ToSocket
      \/ \E q \in Packets : r = Turned(q) \/ r = Refused(q)
  BY <1>1 DEF nsfip_input, nsficmp_input, nsfudp_input, nsftcp_input, nsficmp_send_error
<1> QED
  BY <1>2 DEF Dropped, ToSocket, Turned, Refused

(* What another host sends back is a sequence of packets. *)
LEMMA AnswersTyped ==
    ASSUME NEW h, NEW p \in Packets
    PROVE  SetToSeq(Answers(h, p)) \in Seq(Packets)
<1> DEFINE A == Answers(h, p)
<1>1. A = {} \/ \E q \in Packets : A = {q}
  BY InputTyped DEF Answers
<1>2. CASE A = {}
  <2>1. Cardinality(A) = 0
    BY <1>2, FS_EmptySet
  <2>2. \E f \in [1 .. 0 -> A] : IsInjective(f)
    <3>1. [i \in 1 .. 0 |-> i] \in [1 .. 0 -> A] /\ IsInjective([i \in 1 .. 0 |-> i])
      BY DEF IsInjective
    <3> QED
      BY <3>1
  <2>3. SetToSeq(A) \in [1 .. 0 -> A]
    BY <2>1, <2>2 DEF SetToSeq
  <2> QED
    BY <1>2, <2>3
<1>3. ASSUME NEW q \in Packets, A = {q}
      PROVE  SetToSeq(A) \in Seq(Packets)
  <2>1. Cardinality(A) = 1
    BY <1>3, FS_Singleton
  <2>2. \E f \in [1 .. 1 -> A] : IsInjective(f)
    <3>1. [i \in 1 .. 1 |-> q] \in [1 .. 1 -> A] /\ IsInjective([i \in 1 .. 1 |-> q])
      BY <1>3 DEF IsInjective
    <3> QED
      BY <3>1
  <2>3. SetToSeq(A) \in [1 .. 1 -> A]
    BY <2>1, <2>2 DEF SetToSeq
  <2> QED
    BY <1>3, <2>3
<1> QED
  BY <1>1, <1>2, <1>3

-----------------------------------------------------------------------------
(* Queues hold packets in their buffers, and the blocks hold packets. *)
Typed ==
    /\ freed \in [Bufs -> Nat] /\ rxq \subseteq Bufs
    /\ sendq \in Seq(Carried) /\ evq \in Seq(Carried)
    /\ txpbuf \in Carried \cup {NONE}
    /\ rblk \in Seq(Packets) /\ wire \in Seq(Packets)

(* There is a frame with the WRITE while the executive says so, until the     *)
(* end of a stop frees it.                                                     *)
Frame ==
    /\ xpc \in {"joinread", "joinwrite", "release"} => stop
    /\ txpbuf # NONE => txbusy
    /\ txbusy /\ txpbuf = NONE => stop /\ xpc \in {"teardown", "ended"}
    /\ writing => txpbuf # NONE

(* Until the loop ends nothing is lost. *)
Running == state # "QUIESCING" /\ xpc \notin {"teardown", "ended"}
Counted == \A b \in Bufs : Places(b) <= 1 /\ (Running => Places(b) = 1)

BInv == Typed /\ Frame /\ Counted

(* The places of a buffer are numbers. *)
LEMMA Parts ==
    ASSUME Typed, NEW b \in Bufs
    PROVE  /\ freed[b] \in Nat /\ Times(b, sendq) \in Nat /\ Times(b, evq) \in Nat
           /\ Places(b) = freed[b] + Times(b, sendq) + Times(b, evq)
                  + (IF b \in InWrite THEN 1 ELSE 0) + (IF b \in rxq THEN 1 ELSE 0)
  BY TimesNat, OneOf DEF Typed, Places

LEMMA PartsNext ==
    ASSUME Typed', NEW b \in Bufs
    PROVE  /\ freed'[b] \in Nat /\ Times(b, sendq') \in Nat /\ Times(b, evq') \in Nat
           /\ Places(b)' = freed'[b] + Times(b, sendq') + Times(b, evq')
                  + (IF b \in InWrite' THEN 1 ELSE 0) + (IF b \in rxq' THEN 1 ELSE 0)
  BY TimesNat, OneOf DEF Typed, Places

LEMMA BInvInit ==
    Init => BInv
<1> SUFFICES ASSUME Init PROVE BInv
  OBVIOUS
<1>1. Typed
  BY DEF Init, Typed
<1>2. Frame
  BY DEF Init, Frame
<1>3. Counted
  <2>1. ASSUME NEW b \in Bufs
        PROVE  Places(b) = 1
    <3>1. /\ freed[b] = 1 /\ Times(b, sendq) = 0 /\ Times(b, evq) = 0
          /\ b \notin InWrite /\ b \notin rxq
      BY TimesFew DEF Init, InWrite
    <3> QED
      BY <1>1, <3>1, Parts
  <2> QED
    BY <2>1 DEF Counted
<1> QED
  BY <1>1, <1>2, <1>3 DEF BInv

(* A buffer that stays where it is stays counted. *)
LEMMA Stays ==
    ASSUME Counted, \A b \in Bufs : Places(b)' = Places(b), Running' => Running
    PROVE  Counted'
  BY DEF Counted

(* A step that moves no buffer. *)
LEMMA Quiet ==
    ASSUME BInv, UNCHANGED <<freed, rxq, sendq, evq, txpbuf>>,
           rblk' \in Seq(Packets), wire' \in Seq(Packets), Running' => Running, Frame'
    PROVE  BInv'
<1>1. Typed'
  BY DEF BInv, Typed
<1>2. \A b \in Bufs : Places(b)' = Places(b)
  BY DEF Places, InWrite
<1>3. Counted'
  BY <1>2, Stays DEF BInv
<1> QED
  BY <1>1, <1>3 DEF BInv

(* The subtasks. *)
LEMMA SubtasksKeepBuffers ==
    ASSUME DInv, BInv, read_sub \/ write_sub
    PROVE  BInv'
<1>1. /\ UNCHANGED <<freed, rxq, sendq, evq, txpbuf, txbusy, rblk, wire, state, xpc, stop>>
      /\ writing' => writing \/ (wpc = "write" /\ ~stop)
  <2>1. CASE read_sub
    BY <2>1 DEF read_sub, ReadOpen, ReadStart, ReadArmed, ReadTellArmed, ReadDone,
                ReadClear, ReadReady, ReadTell, ReadReturned, ReadClose
  <2>2. CASE write_sub
    BY <2>2 DEF write_sub, WriteOpen, WriteGo, WriteStart, WriteDone, WriteReady,
                WriteTell, WriteClose
  <2> QED
    BY <2>1, <2>2
<1>2. wpc = "write" /\ ~stop => txpbuf # NONE
  BY DEF DInv, Busy, BInv, Frame
<1>3. Frame'
  BY <1>1, <1>2 DEF BInv, Frame
<1>4. (Running' => Running) /\ rblk' \in Seq(Packets) /\ wire' \in Seq(Packets)
  BY <1>1 DEF Running, BInv, Typed
<1> QED
  BY <1>1, <1>3, <1>4, Quiet

(* The channel: a frame under way is there, and the answers to it are packets. *)
LEMMA ChannelKeepsBuffers ==
    ASSUME BInv, Arrive \/ ArriveAnswer \/ Written
    PROVE  BInv'
<1>1. /\ UNCHANGED <<freed, rxq, sendq, evq, txpbuf, txbusy, state, xpc, stop>>
      /\ writing' => writing
  BY DEF Arrive, ArriveAnswer, Completes, Written
<1>2. Frame' /\ (Running' => Running)
  BY <1>1 DEF BInv, Frame, Running
<1>3. rblk' \in Seq(Packets) /\ wire' \in Seq(Packets)
  <2>1. CASE Arrive
    <3>1. (rblk' = <<>> \/ rblk' \in Blocks) /\ wire' = wire
      BY <2>1 DEF Arrive, Completes
    <3>2. <<>> \in Seq(Packets) /\ Blocks \subseteq Seq(Packets) /\ wire \in Seq(Packets)
      BY DevAssumption DEF BInv, Typed
    <3> QED
      BY <3>1, <3>2
  <2>2. CASE ArriveAnswer
    <3>1. Head(wire) \in Packets /\ Tail(wire) \in Seq(Packets)
      BY <2>2, HeadTailProperties DEF ArriveAnswer, BInv, Typed
    <3> QED
      BY <2>2, <3>1 DEF ArriveAnswer, Completes
  <2>3. CASE Written
    <3>1. txpbuf \in Carried
      BY <2>3 DEF Written, BInv, Frame, Typed
    <3>2. SetToSeq(Answers(Peer, txpbuf.pkt)) \in Seq(Packets)
      BY <3>1, AnswersTyped DEF Carried
    <3>3. wire \in Seq(Packets) /\ rblk \in Seq(Packets)
      BY DEF BInv, Typed
    <3>4. wire \o SetToSeq(Answers(Peer, txpbuf.pkt)) \in Seq(Packets)
      BY <3>2, <3>3, ConcatProperties
    <3> QED
      BY <2>3, <3>3, <3>4 DEF Written
  <2> QED
    BY <2>1, <2>2, <2>3
<1> QED
  BY <1>1, <1>2, <1>3, Quiet

(* The start, and the passes that only begin or end. *)
LEMMA PassesKeepBuffers ==
    ASSUME DInv, BInv, Start \/ Pass \/ Sleep \/ Wake \/ PassOther \/ PassEnds
    PROVE  BInv'
<1>1. CASE Start \/ Pass \/ Sleep \/ Wake \/ PassOther
  <2>1. /\ UNCHANGED <<freed, rxq, sendq, evq, txpbuf, txbusy, rblk, wire, stop, writing>>
        /\ xpc \notin {"joinread", "joinwrite", "release", "teardown", "ended"}
        /\ xpc' \notin {"joinread", "joinwrite", "release", "teardown", "ended"}
        /\ Running' => Running
    BY <1>1 DEF Start, StartRead, StartFails, StartWrite, StartEnds, Pass, Sleep, Wake, PassOther,
                Begin, DInv, Phase, Running
  <2>2. Frame'
    BY <2>1 DEF BInv, Frame
  <2>3. rblk' \in Seq(Packets) /\ wire' \in Seq(Packets)
    BY <2>1 DEF BInv, Typed
  <2> QED
    BY <2>1, <2>2, <2>3, Quiet
<1>2. CASE PassEnds
  <2>1. /\ UNCHANGED <<freed, rxq, sendq, txpbuf, txbusy, rblk, wire, stop, writing>>
        /\ xpc = "last"
    BY <1>2 DEF PassEnds
  <2>2. Frame'
    BY <1>2, <2>1 DEF PassEnds, BInv, Frame
  <2>3. rblk' \in Seq(Packets) /\ wire' \in Seq(Packets)
    BY <2>1 DEF BInv, Typed
  <2>4. CASE evq' = evq /\ (Running' => Running)
    BY <2>1, <2>2, <2>3, <2>4, Quiet
  <2>5. CASE evq' = <<>> /\ ~Running'
    <3>1. Typed'
      BY <2>1, <2>3, <2>5 DEF BInv, Typed
    <3>2. ASSUME NEW b \in Bufs
          PROVE  Places(b)' <= 1
      <4>1. /\ freed'[b] = freed[b] /\ sendq' = sendq /\ Times(b, evq') = 0
            /\ (b \in InWrite' <=> b \in InWrite) /\ (b \in rxq' <=> b \in rxq)
        BY <2>1, <2>5, TimesFew DEF InWrite
      <4>2. Places(b) <= 1
        BY DEF BInv, Counted
      <4> QED
        BY <3>1, <4>1, <4>2, Parts, PartsNext DEF BInv
    <3>3. Counted'
      BY <2>5, <3>2 DEF Counted
    <3> QED
      BY <2>2, <3>1, <3>3 DEF BInv
  <2>6. (evq' = evq /\ (Running' => Running)) \/ (evq' = <<>> /\ ~Running')
    BY <1>2 DEF PassEnds, Running
  <2> QED
    BY <2>4, <2>5, <2>6
<1> QED
  BY <1>1, <1>2

(* Decoding a block gives packets. *)
LEMMA DecodedTyped ==
    ASSUME NEW blk \in Seq(Packets)
    PROVE  Decoded(blk) \in Seq(Packets)
<1> DEFINE bad == {i \in DOMAIN blk : blk[i].fault = "segment"}
           n   == IF bad = {} THEN Len(blk) ELSE Min(bad) - 1
           T   == {p \in ToSet(blk) : p.fault # "nonip"}
<1>1. DOMAIN blk = 1 .. Len(blk) /\ Len(blk) \in Nat
  BY LenProperties
<1>2. n \in Int /\ n <= Len(blk)
  <2>1. CASE bad = {}
    BY <1>1, <2>1
  <2>2. CASE bad # {}
    <3>1. bad \subseteq Nat
      BY <1>1
    <3>2. \E x \in bad : \A y \in bad : x <= y
      BY <2>2, <3>1, Least
    <3>3. Min(bad) \in bad
      BY <3>2 DEF Min
    <3> QED
      BY <1>1, <2>2, <3>3
  <2> QED
    BY <2>1, <2>2
<1>3. PICK m : m = n
  OBVIOUS
<1>4. \A i \in 1 .. m : blk[i] \in Packets
  BY <1>1, <1>2, <1>3
<1>5. Len(SubSeq(blk, 1, m)) \in Nat
  <2>1. SubSeq(blk, 1, m) \in Seq(Packets)
    BY <1>2, <1>3, <1>4, SubSeqProperties
  <2> QED
    BY <2>1, LenProperties
<1>6. Only(SubSeq(blk, 1, m), T) \in Seq(T)
  BY <1>5, OnlyOf
<1>7. T \subseteq Packets
  BY <1>1 DEF ToSet
<1>8. Decoded(blk) = Only(SubSeq(blk, 1, m), T)
  BY <1>3 DEF Decoded
<1> QED
  BY <1>6, <1>7, <1>8, SeqMonotonic

(* Every packet of a block takes one buffer from the free list to the event  *)
(* queue, or none (ctci_decode_block).                                         *)
LEMMA PostMoves ==
    ASSUME BInv, NEW pkts \in Seq(Packets), Post(pkts)
    PROVE  /\ freed' \in [Bufs -> Nat] /\ evq' \in Seq(Carried)
           /\ \A b \in Bufs : freed'[b] + Times(b, evq') = freed[b] + Times(b, evq)
<1>0. /\ DOMAIN pkts = 1 .. Len(pkts) /\ Len(pkts) \in Nat
      /\ freed \in [Bufs -> Nat] /\ evq \in Seq(Carried) /\ NONE \notin Bufs
  BY LenProperties, DevAssumption DEF BInv, Typed
<1>1. PICK at \in [DOMAIN pkts -> {b \in Bufs : freed[b] > 0} \cup {NONE}] :
          /\ \A i, j \in DOMAIN pkts : i # j /\ at[i] = at[j] => at[i] = NONE
          /\ LET got == [i \in DOMAIN pkts |-> [buf |-> at[i], pkt |-> pkts[i]]]
             IN  evq' = evq \o Only(got, Carried)
          /\ freed' = [b \in Bufs |-> IF \E i \in DOMAIN pkts : at[i] = b
                                      THEN freed[b] - 1 ELSE freed[b]]
  BY DEF Post
<1>2. PICK got : got = [i \in 1 .. Len(pkts) |-> [buf |-> at[i], pkt |-> pkts[i]]]
  OBVIOUS
<1>3. evq' = evq \o Only(got, Carried)
  BY <1>0, <1>1, <1>2
<1>4. /\ Len(got) = Len(pkts)
      /\ \A i \in 1 .. Len(got) : got[i] \in [buf : Bufs \cup {NONE}, pkt : Packets]
      /\ \A i \in 1 .. Len(got) : got[i].buf = at[i]
  <2>1. got \in Seq([buf : Bufs \cup {NONE}, pkt : Packets])
    <3>1. \A i \in 1 .. Len(pkts) : pkts[i] \in Packets
      OBVIOUS
    <3>2. \A i \in 1 .. Len(pkts) : at[i] \in {b \in Bufs : freed[b] > 0} \cup {NONE}
      BY <1>0, <1>1, Zenon
    <3>3. \A i \in 1 .. Len(pkts) : at[i] \in Bufs \cup {NONE}
      BY <3>2
    <3> QED
      BY <1>0, <1>2, <3>1, <3>3
  <2>2. DOMAIN got = 1 .. Len(got) /\ DOMAIN got = 1 .. Len(pkts) /\ Len(got) \in Nat
    BY <1>2, <2>1, LenProperties
  <2>3. Len(got) = Len(pkts)
    <3>1. \A m, n \in Nat : 1 .. m = 1 .. n => m = n
      OBVIOUS
    <3> QED
      BY <1>0, <2>2, <3>1, Zenon
  <2>4. \A i \in 1 .. Len(got) : got[i] \in [buf : Bufs \cup {NONE}, pkt : Packets]
    BY <2>1, ElementOfSeq, Zenon
  <2>5. \A i \in 1 .. Len(pkts) : got[i].buf = at[i]
    BY <1>2
  <2> QED
    BY <2>3, <2>4, <2>5
<1>5. \A i, j \in 1 .. Len(got) : i # j /\ got[i].buf = got[j].buf => got[i].buf = NONE
  BY <1>0, <1>1, <1>4
<1>6. Only(got, Carried) \in Seq(Carried)
  BY <1>0, <1>4, OnlyOf
<1>7. evq' \in Seq(Carried)
  BY <1>0, <1>3, <1>6, ConcatProperties
<1>8. freed' \in [Bufs -> Nat]
  <2>1. \A b \in Bufs : (\E i \in DOMAIN pkts : at[i] = b) => freed[b] - 1 \in Nat
    BY <1>0, <1>1
  <2> QED
    BY <1>0, <1>1, <2>1
<1>9. ASSUME NEW b \in Bufs
      PROVE  freed'[b] + Times(b, evq') = freed[b] + Times(b, evq)
  <2>1. Times(b, Only(got, Carried)) = IF \E i \in 1 .. Len(got) : got[i].buf = b THEN 1 ELSE 0
    BY <1>0, <1>4, <1>5, OnlyTimes
  <2>2. Times(b, evq') = Times(b, evq) + Times(b, Only(got, Carried))
    BY <1>0, <1>3, <1>6, TimesConcat
  <2>3. (\E i \in DOMAIN pkts : at[i] = b) <=> (\E i \in 1 .. Len(got) : got[i].buf = b)
    BY <1>0, <1>4
  <2>4. freed'[b] = IF \E i \in 1 .. Len(got) : got[i].buf = b THEN freed[b] - 1 ELSE freed[b]
    BY <1>1, <2>3
  <2>5. freed[b] \in Nat /\ Times(b, evq) \in Nat
    BY <1>0, TimesNat
  <2> QED
    BY <2>1, <2>2, <2>4, <2>5
<1> QED
  BY <1>7, <1>8, <1>9

(* The service of the device: a block read, a WRITE completed. *)
LEMMA ServiceKeepsBuffers ==
    ASSUME DInv, BInv, ServiceRead \/ ServiceWrite
    PROVE  BInv'
<1>1. CASE ServiceRead /\ ~rready
  <2>1. /\ UNCHANGED <<freed, rxq, sendq, evq, txpbuf, txbusy, rblk, wire, stop, writing, state>>
        /\ xpc = "service" /\ xpc' = "reap"
    BY <1>1 DEF ServiceRead
  <2>2. Frame' /\ (Running' => Running) /\ rblk' \in Seq(Packets) /\ wire' \in Seq(Packets)
    BY <2>1 DEF BInv, Typed, Frame, Running
  <2> QED
    BY <2>1, <2>2, Quiet
<1>2. CASE ServiceRead /\ rready
  <2>1. /\ UNCHANGED <<rxq, sendq, txpbuf, txbusy, wire, stop, writing, state>>
        /\ xpc = "service" /\ xpc' = "reap" /\ rblk' = <<>>
        /\ Post(IF rpost = "normal" THEN Decoded(rblk) ELSE <<>>)
    BY <1>2 DEF ServiceRead
  <2>2. (IF rpost = "normal" THEN Decoded(rblk) ELSE <<>>) \in Seq(Packets)
    BY DecodedTyped DEF BInv, Typed
  <2>3. /\ freed' \in [Bufs -> Nat] /\ evq' \in Seq(Carried)
        /\ \A b \in Bufs : freed'[b] + Times(b, evq') = freed[b] + Times(b, evq)
    BY <2>1, <2>2, PostMoves
  <2>4. Typed' /\ Frame' /\ (Running' => Running)
    BY <2>1, <2>3 DEF BInv, Typed, Frame, Running
  <2>5. ASSUME NEW b \in Bufs
        PROVE  Places(b)' = Places(b)
    <3>1. /\ sendq' = sendq /\ (b \in InWrite' <=> b \in InWrite) /\ (b \in rxq' <=> b \in rxq)
          /\ freed'[b] + Times(b, evq') = freed[b] + Times(b, evq)
      BY <2>1, <2>3 DEF InWrite
    <3> QED
      BY <2>4, <3>1, Parts, PartsNext DEF BInv
  <2>6. Counted'
    BY <2>4, <2>5, Stays DEF BInv
  <2> QED
    BY <2>4, <2>6 DEF BInv
<1>3. CASE ServiceWrite /\ ~(wready /\ txbusy)
  <2>1. /\ UNCHANGED <<freed, rxq, sendq, evq, txpbuf, txbusy, rblk, wire, stop, writing, state>>
        /\ xpc = "reap" /\ xpc' = "dispatch"
    BY <1>3 DEF ServiceWrite
  <2>2. Frame' /\ (Running' => Running) /\ rblk' \in Seq(Packets) /\ wire' \in Seq(Packets)
    BY <2>1 DEF BInv, Typed, Frame, Running
  <2> QED
    BY <2>1, <2>2, Quiet
<1>4. CASE ServiceWrite /\ wready /\ txbusy
  <2>1. /\ UNCHANGED <<rxq, sendq, evq, rblk, wire, stop, writing, state>>
        /\ xpc = "reap" /\ xpc' = "dispatch"
        /\ Free(txpbuf.buf) /\ txpbuf' = NONE /\ txbusy' = FALSE
    BY <1>4 DEF ServiceWrite
  <2>2. txpbuf \in Carried /\ txpbuf # NONE /\ ~writing
    BY <1>4, <2>1 DEF BInv, Typed, Frame, DInv, Writing
  <2>3. txpbuf.buf \in Bufs /\ freed \in [Bufs -> Nat]
    BY <2>2 DEF Carried, BInv, Typed
  <2>4. freed' = [freed EXCEPT ![txpbuf.buf] = @ + 1]
    BY <2>1 DEF Free
  <2>5. Typed' /\ Frame' /\ (Running' => Running)
    BY <2>1, <2>2, <2>3, <2>4 DEF BInv, Typed, Frame, Running
  <2>6. ASSUME NEW b \in Bufs
        PROVE  Places(b)' = Places(b)
    <3>1. /\ sendq' = sendq /\ evq' = evq /\ (b \in rxq' <=> b \in rxq)
          /\ b \notin InWrite' /\ (b \in InWrite <=> b = txpbuf.buf)
          /\ freed'[b] = IF b = txpbuf.buf THEN freed[b] + 1 ELSE freed[b]
      BY <2>1, <2>2, <2>3, <2>4 DEF InWrite
    <3> QED
      BY <2>5, <3>1, Parts, PartsNext DEF BInv
  <2>7. Counted'
    BY <2>5, <2>6, Stays DEF BInv
  <2> QED
    BY <2>5, <2>7 DEF BInv
<1> QED
  BY <1>1, <1>2, <1>3, <1>4

(* A buffer goes to the send queue, or to its pool (nsfip_output). *)
LEMMA OutputMoves ==
    ASSUME BInv, NEW b \in Bufs, NEW n \in Nat, NEW p \in Packets, Output(b, n, p)
    PROVE  /\ freed' \in [Bufs -> Nat] /\ sendq' \in Seq(Carried)
           /\ \A c \in Bufs : freed'[c] + Times(c, sendq') =
                  (IF c = b THEN n + 1 ELSE freed[c]) + Times(c, sendq)
<1> DEFINE e == [buf |-> b, pkt |-> p]
<1>1. freed \in [Bufs -> Nat] /\ sendq \in Seq(Carried) /\ e \in Carried /\ e.buf = b
  BY DEF BInv, Typed, Carried
<1>2. \A c \in Bufs : Times(c, sendq) \in Nat
  BY <1>1, TimesNat
<1>3. CASE sendq' = Append(sendq, e) /\ freed' = [freed EXCEPT ![b] = n]
  <2>1. sendq' \in Seq(Carried) /\ freed' \in [Bufs -> Nat]
    BY <1>1, <1>3, AppendProperties
  <2>2. \A c \in Bufs : Times(c, sendq') = Times(c, sendq) + (IF b = c THEN 1 ELSE 0)
    BY <1>1, <1>3, TimesEnds
  <2>3. \A c \in Bufs : freed'[c] = IF c = b THEN n ELSE freed[c]
    BY <1>1, <1>3
  <2>4. ASSUME NEW c \in Bufs
        PROVE  freed'[c] + Times(c, sendq') =
                   (IF c = b THEN n + 1 ELSE freed[c]) + Times(c, sendq)
    <3>1. Times(c, sendq) \in Nat /\ freed[c] \in Nat
      BY <1>1, <1>2
    <3>2. Times(c, sendq') = Times(c, sendq) + (IF b = c THEN 1 ELSE 0)
      BY <2>2
    <3>3. freed'[c] = IF c = b THEN n ELSE freed[c]
      BY <2>3
    <3> QED
      BY <3>1, <3>2, <3>3
  <2> QED
    BY <2>1, <2>4
<1>4. CASE sendq' = sendq /\ freed' = [freed EXCEPT ![b] = n + 1]
  BY <1>1, <1>2, <1>4
<1> QED
  BY <1>3, <1>4 DEF Output

(* A buffer leaves the event queue for another place. *)
LEMMA Regrouped ==
    ASSUME Typed, Typed', NEW b, NEW c \in Bufs, c \in InWrite' <=> c \in InWrite,
           Times(c, evq) = Times(c, evq') + (IF b = c THEN 1 ELSE 0),
           freed'[c] + Times(c, sendq') + (IF c \in rxq' THEN 1 ELSE 0)
             = freed[c] + Times(c, sendq) + (IF c \in rxq THEN 1 ELSE 0)
                   + (IF b = c THEN 1 ELSE 0)
    PROVE  Places(c)' = Places(c)
  BY Parts, PartsNext

(* The head of the event queue is handled: its buffer leaves the queue. *)
LEMMA HandleKeepsBuffers ==
    ASSUME BInv, Handle
    PROVE  BInv'
<1>1. /\ evq # <<>> /\ evq' = Tail(evq)
      /\ UNCHANGED <<txpbuf, txbusy, rblk, wire, stop, writing, state, xpc>>
  BY DEF Handle
<1>2. /\ freed \in [Bufs -> Nat] /\ sendq \in Seq(Carried) /\ evq \in Seq(Carried)
      /\ rxq \subseteq Bufs /\ Head(evq) \in Carried /\ Tail(evq) \in Seq(Carried)
  BY <1>1, HeadTailProperties DEF BInv, Typed
<1>3. PICK b \in Bufs, p \in Packets : b = Head(evq).buf /\ p = Head(evq).pkt
  BY <1>2 DEF Carried
<1>4. PICK r : r = nsfip_input(Host, p)
  OBVIOUS
<1>5. \A c \in Bufs : Times(c, evq) = Times(c, evq') + (IF b = c THEN 1 ELSE 0)
  BY <1>1, <1>2, <1>3, TimesEnds
<1>6. \/ Free(b) /\ UNCHANGED <<sendq, rxq>>
      \/ r.what = "turned" /\ Output(b, freed[b], r.pkt) /\ UNCHANGED rxq
      \/ r.what = "refused" /\ Refuse(b, r.pkt) /\ UNCHANGED rxq
      \/ rxq' = rxq \cup {b} /\ UNCHANGED <<sendq, freed>>
  BY <1>3, <1>4 DEF Handle
<1>7. r.what \in {"turned", "refused"} => r.pkt \in Packets
  BY <1>4, InputTyped
<1>8. \A c \in Bufs : /\ Places(c) <= 1 /\ freed[c] \in Nat
                      /\ Times(c, sendq) \in Nat /\ Times(c, evq) \in Nat /\ Times(c, evq') \in Nat
                      /\ Places(c) = freed[c] + Times(c, sendq) + Times(c, evq)
                             + (IF c \in InWrite THEN 1 ELSE 0) + (IF c \in rxq THEN 1 ELSE 0)
  BY <1>1, <1>2, Parts, TimesNat DEF BInv, Counted
<1>9. Times(b, evq) >= 1 /\ freed[b] = 0 /\ b \notin rxq
  <2>1. Times(b, evq) >= 1
    BY <1>3, <1>5, <1>8
  <2> QED
    BY <1>3, <1>8, <2>1
<1>10. SUFFICES /\ freed' \in [Bufs -> Nat] /\ sendq' \in Seq(Carried) /\ rxq' \subseteq Bufs
                /\ \A c \in Bufs :
                      freed'[c] + Times(c, sendq') + (IF c \in rxq' THEN 1 ELSE 0)
                      = freed[c] + Times(c, sendq) + (IF c \in rxq THEN 1 ELSE 0)
                            + (IF b = c THEN 1 ELSE 0)
  <2>1. Typed' /\ Frame' /\ (Running' => Running)
    BY <1>1, <1>2, <1>10 DEF BInv, Typed, Frame, Running
  <2>2. ASSUME NEW c \in Bufs
        PROVE  Places(c)' = Places(c)
    <3>1. c \in InWrite' <=> c \in InWrite
      BY <1>1 DEF InWrite
    <3>2. Times(c, evq) = Times(c, evq') + (IF b = c THEN 1 ELSE 0)
      BY <1>5
    <3>3. freed'[c] + Times(c, sendq') + (IF c \in rxq' THEN 1 ELSE 0)
             = freed[c] + Times(c, sendq) + (IF c \in rxq THEN 1 ELSE 0)
                   + (IF b = c THEN 1 ELSE 0)
      BY <1>10
    <3> QED
      BY <2>1, <3>1, <3>2, <3>3, Regrouped DEF BInv
  <2>3. Counted'
    BY <2>1, <2>2, Stays DEF BInv
  <2> QED
    BY <2>1, <2>3 DEF BInv
<1>11. CASE Free(b) /\ UNCHANGED <<sendq, rxq>>
  <2>1. freed' = [freed EXCEPT ![b] = @ + 1]
    BY <1>11 DEF Free
  <2>2. /\ freed' \in [Bufs -> Nat]
        /\ \A c \in Bufs : freed'[c] = IF b = c THEN freed[c] + 1 ELSE freed[c]
    BY <1>2, <1>3, <2>1
  <2>3. ASSUME NEW c \in Bufs
        PROVE  freed'[c] + Times(c, sendq') + (IF c \in rxq' THEN 1 ELSE 0)
               = freed[c] + Times(c, sendq) + (IF c \in rxq THEN 1 ELSE 0)
                     + (IF b = c THEN 1 ELSE 0)
    <3>1. freed[c] \in Nat /\ Times(c, sendq) \in Nat /\ sendq' = sendq /\ rxq' = rxq
      BY <1>8, <1>11
    <3>2. freed'[c] = IF b = c THEN freed[c] + 1 ELSE freed[c]
      BY <2>2
    <3> QED
      BY <3>1, <3>2
  <2> QED
    BY <1>2, <1>11, <2>2, <2>3
<1>12. CASE r.what = "turned" /\ Output(b, freed[b], r.pkt) /\ UNCHANGED rxq
  <2>1. freed[b] \in Nat /\ r.pkt \in Packets
    BY <1>3, <1>7, <1>8, <1>12
  <2>2. /\ freed' \in [Bufs -> Nat] /\ sendq' \in Seq(Carried)
        /\ \A c \in Bufs : freed'[c] + Times(c, sendq') =
               (IF c = b THEN freed[b] + 1 ELSE freed[c]) + Times(c, sendq)
    BY <1>3, <1>12, <2>1, OutputMoves
  <2>3. ASSUME NEW c \in Bufs
        PROVE  freed'[c] + Times(c, sendq') + (IF c \in rxq' THEN 1 ELSE 0)
               = freed[c] + Times(c, sendq) + (IF c \in rxq THEN 1 ELSE 0)
                     + (IF b = c THEN 1 ELSE 0)
    <3>1. freed'[c] \in Nat /\ Times(c, sendq') \in Nat /\ rxq' = rxq
      BY <1>12, <2>2, TimesNat
    <3>2. freed[c] \in Nat /\ Times(c, sendq) \in Nat
      BY <1>8
    <3>3. freed'[c] + Times(c, sendq') =
              (IF c = b THEN freed[b] + 1 ELSE freed[c]) + Times(c, sendq)
      BY <2>2
    <3> QED
      BY <3>1, <3>2, <3>3
  <2> QED
    BY <1>2, <1>12, <2>2, <2>3
<1>13. CASE r.what = "refused" /\ Refuse(b, r.pkt) /\ UNCHANGED rxq
  <2>1. r.pkt \in Packets
    BY <1>7, <1>13
  <2>2. CASE Free(b) /\ UNCHANGED sendq
    BY <1>11, <1>13, <2>2
  <2>3. CASE /\ HasFree /\ sendq' = Append(sendq, [buf |-> FreeHead, pkt |-> r.pkt])
             /\ freed' = [freed EXCEPT ![b] = @ + 1, ![FreeHead] = @ - 1]
    <3>1. PICK h : h = FreeHead
      OBVIOUS
    <3>2. h \in Bufs /\ freed[h] > 0
      BY <2>3, <3>1 DEF HasFree, FreeHead
    <3>3. h # b
      BY <1>9, <3>2
    <3>4. [buf |-> h, pkt |-> r.pkt] \in Carried
      BY <2>1, <3>2 DEF Carried
    <3>5. /\ sendq' \in Seq(Carried)
          /\ \A c \in Bufs : Times(c, sendq') = Times(c, sendq) + (IF h = c THEN 1 ELSE 0)
      <4>1. sendq' = Append(sendq, [buf |-> h, pkt |-> r.pkt])
        BY <2>3, <3>1
      <4> QED
        BY <1>2, <3>4, <4>1, AppendProperties, TimesEnds
    <3>6. /\ freed' \in [Bufs -> Nat]
          /\ \A c \in Bufs : freed'[c] = IF c = b THEN freed[c] + 1
                                         ELSE IF c = h THEN freed[c] - 1 ELSE freed[c]
      <4>1. freed' = [freed EXCEPT ![b] = @ + 1, ![h] = @ - 1]
        BY <2>3, <3>1
      <4>2. freed[h] - 1 \in Nat /\ freed[b] + 1 \in Nat
        BY <1>2, <1>3, <3>2
      <4> QED
        BY <1>2, <1>3, <3>2, <3>3, <4>1, <4>2
    <3>7. ASSUME NEW c \in Bufs
          PROVE  freed'[c] + Times(c, sendq') + (IF c \in rxq' THEN 1 ELSE 0)
                 = freed[c] + Times(c, sendq) + (IF c \in rxq THEN 1 ELSE 0)
                       + (IF b = c THEN 1 ELSE 0)
      <4>1. freed[c] \in Nat /\ Times(c, sendq) \in Nat /\ rxq' = rxq
        BY <1>8, <1>13
      <4>2. Times(c, sendq') = Times(c, sendq) + (IF h = c THEN 1 ELSE 0)
        BY <3>5
      <4>3. freed'[c] = IF c = b THEN freed[c] + 1
                        ELSE IF c = h THEN freed[c] - 1 ELSE freed[c]
        BY <3>6
      <4> QED
        BY <3>3, <4>1, <4>2, <4>3
    <3> QED
      BY <1>2, <1>13, <3>5, <3>6, <3>7
  <2> QED
    BY <1>13, <2>2, <2>3 DEF Refuse
<1>14. CASE rxq' = rxq \cup {b} /\ UNCHANGED <<sendq, freed>>
  <2>1. \A c \in Bufs : c \in rxq' <=> c \in rxq \/ c = b
    BY <1>14
  <2> QED
    BY <1>2, <1>3, <1>8, <1>9, <1>14, <2>1
<1> QED
  BY <1>6, <1>11, <1>12, <1>13, <1>14

(* An application takes a packet, a request or a timer originates one. *)
LEMMA UsersKeepBuffers ==
    ASSUME BInv, Receive \/ Originate
    PROVE  BInv'
<1>1. /\ freed \in [Bufs -> Nat] /\ sendq \in Seq(Carried) /\ rxq \subseteq Bufs
      /\ \A b \in Bufs : freed[b] \in Nat
  BY DEF BInv, Typed
<1>2. CASE Receive
  <2>1. PICK b \in rxq : /\ freed' = [freed EXCEPT ![b] = @ + 1] /\ rxq' = rxq \ {b}
                         /\ UNCHANGED <<txpbuf, txbusy, rblk, wire, stop, writing, state, xpc,
                                        sendq, evq>>
    BY <1>2 DEF Receive, Free
  <2>2. Typed' /\ Frame' /\ (Running' => Running)
    BY <1>1, <2>1 DEF BInv, Typed, Frame, Running
  <2>3. ASSUME NEW c \in Bufs
        PROVE  Places(c)' = Places(c)
    <3>1. /\ c \in InWrite' <=> c \in InWrite
          /\ sendq' = sendq /\ evq' = evq
      BY <2>1 DEF InWrite
    <3>2. /\ c \in rxq' <=> c \in rxq /\ c # b
          /\ c = b => c \in rxq
          /\ freed'[c] = IF c = b THEN freed[c] + 1 ELSE freed[c]
      BY <1>1, <2>1
    <3> QED
      BY <2>2, <3>1, <3>2, Parts, PartsNext DEF BInv
  <2>4. Counted'
    BY <2>2, <2>3, Stays DEF BInv
  <2> QED
    BY <2>2, <2>4 DEF BInv
<1>3. CASE Originate
  <2>1. PICK p \in Ours : Output(FreeHead, freed[FreeHead] - 1, p)
    BY <1>3 DEF Originate
  <2>2. /\ HasFree
        /\ UNCHANGED <<txpbuf, txbusy, rblk, wire, stop, writing, state, xpc, evq, rxq>>
    BY <1>3 DEF Originate
  <2>3. PICK b \in Bufs : b = FreeHead /\ freed[b] > 0
    BY <2>2 DEF HasFree, FreeHead
  <2>4. freed[b] - 1 \in Nat /\ p \in Packets
    BY <1>1, <2>3, DevAssumption
  <2>5. /\ freed' \in [Bufs -> Nat] /\ sendq' \in Seq(Carried)
        /\ \A c \in Bufs : freed'[c] + Times(c, sendq') =
               (IF c = b THEN freed[b] - 1 + 1 ELSE freed[c]) + Times(c, sendq)
    BY <2>1, <2>3, <2>4, OutputMoves
  <2>6. Typed' /\ Frame' /\ (Running' => Running)
    BY <2>2, <2>5 DEF BInv, Typed, Frame, Running
  <2>7. ASSUME NEW c \in Bufs
        PROVE  Places(c)' = Places(c)
    <3>1. /\ c \in InWrite' <=> c \in InWrite
          /\ evq' = evq /\ (c \in rxq' <=> c \in rxq)
      BY <2>2 DEF InWrite
    <3>2. freed'[c] + Times(c, sendq') = freed[c] + Times(c, sendq)
      <4>1. freed[c] \in Nat /\ Times(c, sendq) \in Nat
        BY <1>1, TimesNat
      <4>2. freed'[c] + Times(c, sendq') =
               (IF c = b THEN freed[b] - 1 + 1 ELSE freed[c]) + Times(c, sendq)
        BY <2>5
      <4> QED
        BY <4>1, <4>2
    <3> QED
      BY <2>6, <3>1, <3>2, Parts, PartsNext DEF BInv
  <2>8. Counted'
    BY <2>6, <2>7, Stays DEF BInv
  <2> QED
    BY <2>6, <2>8 DEF BInv
<1> QED
  BY <1>2, <1>3

(* What a pass does otherwise, and the kick that writes nothing. *)
LEMMA IdleKeepsBuffers ==
    ASSUME DInv, BInv, PollInput \/ DispatchEnds \/ KickIdle \/ KickHalt \/ HaltRead
    PROVE  BInv'
<1>1. /\ UNCHANGED <<freed, rxq, sendq, evq, txpbuf, txbusy, rblk, wire, stop, writing, state>>
      /\ xpc \in {"poll", "dispatch", "kick", "halt"}
      /\ xpc' \in {"service", "dispatch", "kick", "halt", "last"}
  BY DEF PollInput, DispatchEnds, KickIdle, KickHalt, HaltRead
<1>2. Frame' /\ (Running' => Running) /\ rblk' \in Seq(Packets) /\ wire' \in Seq(Packets)
  BY <1>1 DEF BInv, Typed, Frame, Running
<1> QED
  BY <1>1, <1>2, Quiet

(* Buffers that are in a queue once are freed once. *)
LEMMA FreedOnce ==
    ASSUME Typed, NEW q \in Seq(Carried), NEW b \in Bufs, Times(b, q) <= 1,
           NEW S, b \in S <=> b \in BufsOf(q), FreeAll(S)
    PROVE  freed'[b] = freed[b] + Times(b, q)
<1>1. freed[b] \in Nat /\ freed'[b] = IF b \in S THEN freed[b] + 1 ELSE freed[b]
  BY DEF Typed, FreeAll
<1>2. Times(b, q) \in Nat /\ (Times(b, q) = 0 <=> b \notin S)
  BY TimesNat
<1> QED
  BY <1>1, <1>2

(* The send queue, when there are buffers to drop, a frame to write and a rest. *)
LEMMA KickKeepsBuffers ==
    ASSUME DInv, BInv, KickWrite \/ KickRelease
    PROVE  BInv'
<1>0. /\ freed \in [Bufs -> Nat] /\ sendq \in Seq(Carried)
      /\ DOMAIN sendq = 1 .. Len(sendq) /\ Len(sendq) \in Nat
      /\ \A b \in Bufs : Places(b) <= 1
  BY LenProperties DEF BInv, Typed, Counted
<1>1. CASE KickWrite
  <2>1. /\ xpc = "kick" /\ xpc' = "last" /\ state = "UP" /\ ~txbusy /\ txbusy' = TRUE
        /\ UNCHANGED <<rxq, evq, rblk, wire, stop, writing, state>>
    BY <1>1 DEF KickWrite
  <2>2. PICK n \in 1 .. Len(sendq) :
            /\ FreeAll({sendq[i].buf : i \in 1 .. n - 1})
            /\ txpbuf' = sendq[n] /\ sendq' = SubSeq(sendq, n + 1, Len(sendq))
    BY <1>0, <1>1 DEF KickWrite
  <2>3. PICK pre : pre = SubSeq(sendq, 1, n - 1)
    OBVIOUS
  <2>4. /\ pre \in Seq(Carried) /\ Len(pre) = n - 1
        /\ \A i \in 1 .. n - 1 : pre[i] = sendq[i]
    <3>1. \A i \in 1 .. n - 1 : sendq[i] \in Carried
      BY <1>0
    <3> QED
      BY <1>0, <2>3, <3>1, SubSeqProperties
  <2>5. sendq[n] \in Carried /\ <<sendq[n]>> \in Seq(Carried) /\ sendq' \in Seq(Carried)
    <3>1. \A i \in n + 1 .. Len(sendq) : sendq[i] \in Carried
      BY <1>0
    <3> QED
      BY <1>0, <2>2, <3>1, SubSeqProperties
  <2>6. sendq = pre \o (<<sendq[n]>> \o sendq') /\ <<sendq[n]>> \o sendq' \in Seq(Carried)
    <3>1. SubSeq(sendq, n, Len(sendq)) = <<sendq[n]>> \o sendq'
      BY <1>0, <2>2, SubSeqRecursiveFirst
    <3>2. pre \o SubSeq(sendq, n, Len(sendq)) = SubSeq(sendq, 1, Len(sendq))
      <4>1. /\ 1 \in 1 .. Len(sendq) + 1 /\ n - 1 \in 1 - 1 .. Len(sendq)
            /\ Len(sendq) \in n - 1 .. Len(sendq) /\ (n - 1) + 1 = n
        BY <1>0
      <4>2. SubSeq(sendq, 1, n - 1) \o SubSeq(sendq, (n - 1) + 1, Len(sendq))
                = SubSeq(sendq, 1, Len(sendq))
        BY <1>0, <4>1, ConcatAdjacentSubSeq
      <4> QED
        BY <2>3, <4>1, <4>2
    <3> QED
      BY <1>0, <2>5, <3>1, <3>2, SubSeqFull, ConcatProperties
  <2>7. \A b \in Bufs : Times(b, sendq) = Times(b, pre)
            + ((IF sendq[n].buf = b THEN 1 ELSE 0) + Times(b, sendq'))
    <3>1. \A b \in Bufs : Times(b, sendq) = Times(b, pre) + Times(b, <<sendq[n]>> \o sendq')
      BY <2>4, <2>6, TimesConcat
    <3>2. \A b \in Bufs : Times(b, <<sendq[n]>> \o sendq') = Times(b, <<sendq[n]>>) + Times(b, sendq')
      BY <2>5, TimesConcat
    <3>3. \A b \in Bufs : Times(b, <<sendq[n]>>) = IF sendq[n].buf = b THEN 1 ELSE 0
      BY <2>5, TimesFew
    <3> QED
      BY <3>1, <3>2, <3>3
  <2>8. \A b \in Bufs : b \in {sendq[i].buf : i \in 1 .. n - 1} <=> b \in BufsOf(pre)
    <3>1. DOMAIN pre = 1 .. n - 1
      BY <2>4, LenProperties
    <3> QED
      BY <2>4, <3>1 DEF BufsOf
  <2>9. txpbuf = NONE /\ txpbuf' # NONE
    <3>1. NONE \notin Carried
      BY DevAssumption
    <3> QED
      BY <2>1, <2>2, <2>5, <3>1 DEF BInv, Frame
  <2>10. freed' \in [Bufs -> Nat]
    BY <1>0, <2>2 DEF FreeAll
  <2>11. Typed' /\ Frame' /\ (Running' => Running)
    BY <2>1, <2>2, <2>5, <2>9, <2>10 DEF BInv, Typed, Frame, Running
  <2>12. ASSUME NEW b \in Bufs
         PROVE  Places(b)' = Places(b)
    <3>1. /\ b \notin InWrite /\ (b \in InWrite' <=> sendq[n].buf = b)
          /\ evq' = evq /\ (b \in rxq' <=> b \in rxq)
      BY <2>1, <2>2, <2>9 DEF InWrite
    <3>2. Times(b, sendq) = Times(b, pre)
            + ((IF sendq[n].buf = b THEN 1 ELSE 0) + Times(b, sendq'))
      BY <2>7
    <3>3. Times(b, pre) \in Nat /\ Times(b, sendq') \in Nat /\ freed[b] \in Nat
      BY <1>0, <2>4, <2>5, TimesNat
    <3>4. /\ Places(b) = freed[b] + Times(b, sendq) + Times(b, evq)
                  + (IF b \in InWrite THEN 1 ELSE 0) + (IF b \in rxq THEN 1 ELSE 0)
          /\ Times(b, evq) \in Nat /\ Places(b) <= 1
      BY <1>0, Parts DEF BInv
    <3>5. Times(b, pre) <= 1
      BY <3>2, <3>3, <3>4
    <3>6. freed'[b] = freed[b] + Times(b, pre)
      BY <2>2, <2>4, <2>8, <3>5, FreedOnce DEF BInv
    <3>7. Places(b)' = freed'[b] + Times(b, sendq') + Times(b, evq')
                  + (IF b \in InWrite' THEN 1 ELSE 0) + (IF b \in rxq' THEN 1 ELSE 0)
      BY <2>11, PartsNext
    <3> QED
      BY <3>1, <3>2, <3>3, <3>4, <3>6, <3>7
  <2>13. Counted'
    BY <2>11, <2>12, Stays DEF BInv
  <2> QED
    BY <2>11, <2>13 DEF BInv
<1>2. CASE KickRelease
  <2>1. /\ xpc = "kick" /\ xpc' = "last" /\ FreeAll(BufsOf(sendq)) /\ sendq' = <<>>
        /\ UNCHANGED <<rxq, evq, rblk, wire, stop, writing, state, txpbuf, txbusy>>
    BY <1>2 DEF KickRelease
  <2>2. freed' \in [Bufs -> Nat]
    BY <1>0, <2>1 DEF FreeAll
  <2>3. Typed' /\ Frame' /\ (Running' => Running)
    BY <2>1, <2>2 DEF BInv, Typed, Frame, Running
  <2>4. ASSUME NEW b \in Bufs
        PROVE  Places(b)' = Places(b)
    <3>1. /\ (b \in InWrite' <=> b \in InWrite) /\ evq' = evq /\ (b \in rxq' <=> b \in rxq)
          /\ Times(b, sendq') = 0
      BY <2>1, TimesFew DEF InWrite
    <3>2. Times(b, sendq) <= 1
      <4>1. Places(b) <= 1
        BY <1>0
      <4> QED
        BY <4>1, Parts DEF BInv
    <3>3. freed'[b] = freed[b] + Times(b, sendq)
      BY <1>0, <2>1, <3>2, FreedOnce DEF BInv
    <3> QED
      BY <2>3, <3>1, <3>3, Parts, PartsNext DEF BInv
  <2>5. Counted'
    BY <2>3, <2>4, Stays DEF BInv
  <2> QED
    BY <2>3, <2>5 DEF BInv
<1> QED
  BY <1>1, <1>2

(* The end of the device frees its queue and, once the writer has ended, the *)
(* frame with it.                                                              *)
LEMMA StopKeepsBuffers ==
    ASSUME DInv, BInv, Stop
    PROVE  BInv'
<1>0. /\ freed \in [Bufs -> Nat] /\ sendq \in Seq(Carried) /\ txpbuf \in Carried \cup {NONE}
      /\ \A b \in Bufs : Places(b) <= 1
  BY DEF BInv, Typed, Counted
<1>1. CASE ~ReleaseStopped
  <2>1. /\ UNCHANGED <<freed, rxq, sendq, evq, txpbuf, txbusy, rblk, wire, writing>>
        /\ xpc \in {"stopsubs", "joinread", "joinwrite", "release", "teardown"}
        /\ xpc' \in {"joinread", "joinwrite", "release"} => stop'
        /\ stop => stop'
        /\ xpc = "teardown" => xpc' = "ended"
        /\ Running' => Running
    BY <1>1 DEF Stop, StopSubs, JoinRead, JoinWrite, ReleaseFailed, Teardown, BInv, Frame,
                Running
  <2>2. Frame' /\ rblk' \in Seq(Packets) /\ wire' \in Seq(Packets)
    BY <2>1 DEF BInv, Typed, Frame
  <2> QED
    BY <2>1, <2>2, Quiet
<1>2. CASE ReleaseStopped
  <2>1. /\ xpc = "release" /\ xpc' = "teardown" /\ sendq' = <<>> /\ stop
        /\ UNCHANGED <<rxq, evq, rblk, wire, stop, writing, txbusy>>
    BY <1>2 DEF ReleaseStopped, BInv, Frame
  <2>2. /\ joined => ~writing /\ txpbuf' = NONE /\ FreeAll(BufsOf(sendq) \cup InWrite)
        /\ ~joined => txpbuf' = txpbuf /\ FreeAll(BufsOf(sendq))
    BY <1>2 DEF ReleaseStopped, DInv, Storage, Writing
  <2>3. freed' \in [Bufs -> Nat]
    BY <1>0, <2>2 DEF FreeAll
  <2>4. Typed' /\ Frame' /\ ~Running'
    BY <1>0, <2>1, <2>2, <2>3 DEF BInv, Typed, Frame, Running
  <2>5. ASSUME NEW b \in Bufs
        PROVE  Places(b)' = Places(b)
    <3>1. evq' = evq /\ (b \in rxq' <=> b \in rxq) /\ Times(b, sendq') = 0
      BY <2>1, TimesFew
    <3>2. /\ Places(b) = freed[b] + Times(b, sendq) + Times(b, evq)
                  + (IF b \in InWrite THEN 1 ELSE 0) + (IF b \in rxq THEN 1 ELSE 0)
          /\ freed[b] \in Nat /\ Times(b, sendq) \in Nat /\ Times(b, evq) \in Nat
          /\ Places(b) <= 1
      BY <1>0, Parts DEF BInv
    <3>3. Places(b)' = freed'[b] + Times(b, sendq') + Times(b, evq')
                  + (IF b \in InWrite' THEN 1 ELSE 0) + (IF b \in rxq' THEN 1 ELSE 0)
      BY <2>4, PartsNext
    <3>4. Times(b, sendq) <= 1 /\ (Times(b, sendq) = 0 <=> b \notin BufsOf(sendq))
      <4>1. Times(b, sendq) <= 1
        BY <3>2
      <4> QED
        BY <1>0, <4>1, TimesNat
    <3>5. CASE joined
      <4>1. freed'[b] = IF b \in BufsOf(sendq) \cup InWrite THEN freed[b] + 1 ELSE freed[b]
        BY <2>2, <3>5 DEF FreeAll
      <4>2. b \notin InWrite'
        BY <2>2, <3>5 DEF InWrite
      <4>3. ASSUME b \in BufsOf(sendq), b \in InWrite
            PROVE  FALSE
        <5>1. Times(b, sendq) = 1
          BY <3>2, <3>4, <4>3
        <5>2. Places(b) = freed[b] + 1 + Times(b, evq) + 1 + (IF b \in rxq THEN 1 ELSE 0)
          BY <3>2, <4>3, <5>1, Zenon
        <5> QED
          BY <3>2, <5>2
      <4>4. CASE b \in InWrite
        <5>1. Times(b, sendq) = 0 /\ freed'[b] = freed[b] + 1
          BY <3>4, <4>1, <4>3, <4>4
        <5> QED
          BY <3>1, <3>2, <3>3, <4>2, <4>4, <5>1
      <4>5. CASE b \notin InWrite
        <5>1. freed'[b] = freed[b] + Times(b, sendq)
          BY <3>2, <3>4, <4>1, <4>5
        <5> QED
          BY <3>1, <3>2, <3>3, <4>2, <4>5, <5>1
      <4> QED
        BY <4>4, <4>5
    <3>6. CASE ~joined
      <4>1. freed'[b] = IF b \in BufsOf(sendq) THEN freed[b] + 1 ELSE freed[b]
        BY <2>2, <3>6 DEF FreeAll
      <4>2. b \in InWrite' <=> b \in InWrite
        BY <2>2, <3>6 DEF InWrite
      <4> QED
        BY <3>1, <3>2, <3>3, <3>4, <4>1, <4>2
    <3> QED
      BY <3>5, <3>6
  <2>6. Counted'
    BY <2>4, <2>5, Stays DEF BInv
  <2> QED
    BY <2>4, <2>6 DEF BInv
<1> QED
  BY <1>1, <1>2

(* No packet buffer is freed twice, or free while in use, and while the        *)
(* executive runs none is lost, whatever comes in and goes out (nsf_rx_packet,  *)
(* dev_send, ctci_io_service and ctci_io_kick, dev_shutdown).                    *)
THEOREM EveryBufferKept ==
    Spec => []BuffersKept
<1>1. DInv /\ BInv /\ [Next]_vars => BInv'
  <2> SUFFICES ASSUME DInv, BInv, [Next]_vars
               PROVE  BInv'
    OBVIOUS
  <2>1. CASE read_sub \/ write_sub
    BY <2>1, SubtasksKeepBuffers
  <2>2. CASE Arrive \/ ArriveAnswer \/ Written
    BY <2>2, ChannelKeepsBuffers
  <2>3. CASE Start \/ Pass \/ Sleep \/ Wake \/ PassOther \/ PassEnds
    BY <2>3, PassesKeepBuffers
  <2>4. CASE ServiceRead \/ ServiceWrite
    BY <2>4, ServiceKeepsBuffers
  <2>5. CASE Handle
    BY <2>5, HandleKeepsBuffers
  <2>6. CASE Receive \/ Originate
    BY <2>6, UsersKeepBuffers
  <2>7. CASE PollInput \/ DispatchEnds \/ KickIdle \/ KickHalt \/ HaltRead
    BY <2>7, IdleKeepsBuffers
  <2>8. CASE KickWrite \/ KickRelease
    BY <2>8, KickKeepsBuffers
  <2>9. CASE Stop
    BY <2>9, StopKeepsBuffers
  <2>10. CASE UNCHANGED vars
    <3>1. /\ UNCHANGED <<freed, rxq, sendq, evq, txpbuf>>
          /\ rblk' \in Seq(Packets) /\ wire' \in Seq(Packets) /\ (Running' => Running) /\ Frame'
      BY <2>10 DEF vars, BInv, Typed, Frame, Running
    <3> QED
      BY <3>1, Quiet
  <2> QED
    BY <2>1, <2>2, <2>3, <2>4, <2>5, <2>6, <2>7, <2>8, <2>9, <2>10 DEF Next, Exec, Serve, Kick
<1>2. DInv /\ BInv => BuffersKept
  <2> SUFFICES ASSUME DInv, BInv
               PROVE  BuffersKept
    OBVIOUS
  <2>1. state = "UP" => Running
    BY DEF DInv, Phase, Running
  <2> QED
    BY <2>1 DEF BuffersKept, BInv, Counted
<1>3. Spec => []BInv
  BY <1>1, BInvInit, DevInductive, PTL DEF Spec
<1> QED
  BY <1>2, <1>3, DevInductive, PTL
=============================================================================

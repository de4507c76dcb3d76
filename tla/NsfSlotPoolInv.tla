-------------------------- MODULE NsfSlotPoolInv ---------------------------
(***************************************************************************)
(* The inductive invariant behind the safety properties of NsfSlotPool.    *)
(* The theorems are in NsfSlotPoolProofs.                                  *)
(***************************************************************************)
EXTENDS NsfSlotPool

(* Facts the types rest on. *)
LocalsOK ==
    /\ \A c \in Clients : pc[c] \in OwnerPcs \cup {"scan"} => Mine(c) # 0
    /\ \A c \in Clients :
           pc[c] \notin {"idle", "dead"} \/ rc[c] # "none" => calls[c] # 0
    /\ spc \in {"complete", "mark", "reply"} => busy # 0
    /\ spc = "reap_write" => tmp # 0

(* The ASVT says which clients live. *)
AsvtOK == \A c \in Clients : asvt[c] = IF pc[c] = "dead" THEN AVAIL ELSE c

(* What an owner's slot may look like, by how far the owner has come. *)
OwnerStates ==
    \A c \in Clients :
        /\ pc[c] \in {"inc", "stage", "publish"} => req_state[Mine(c)] = CLAIMED
        /\ pc[c] \in {"post", "wait", "free"}
               => req_state[Mine(c)] \in {PENDING, HELD, DONE}
        /\ pc[c] = "out" => req_state[Mine(c)] = DONE

Unowned(s) == \A c \in Clients : Owns(c) => Mine(c) # s

(* A slot its owner is proved to have left: no living owner, and not FREE, *)
(* so that nobody else takes it before the reaper does.                      *)
Doomed(s) == Unowned(s) /\ req_state[s] # FREE
ReaperOK ==
    /\ spc = "reap_clear" => Unowned(idx) /\ req_state[idx] = CLAIMED
    /\ spc \in {"act", "adopt_act"} /\ verd = DEAD => Doomed(idx)
    /\ spc = "mark" /\ verd = DEAD => Doomed(busy)

Serving == spc \in ServePcs \/ (spc \in ReapPcs /\ back # "adopt_next")

(* An STC that serves is the one the anchor names; one that does not serve *)
(* has taken the SVC back, and an adopting one has no request in service.    *)
Settling == {"adopt_poll", "adopt_pause", "adopt_settle"}
Settled  == {"adopt_router", "adopt_active", "adopt_steal"}
AnchorOK ==
    /\ Serving => eye /\ active /\ ecbptr /\ server = gen
    /\ ~Serving => ~svc
    /\ spc \in AdoptPcs \cup {"down"} => busy = 0
    /\ spc \in AdoptPcs \ {"adopt_stamp"} => eye /\ ecbptr /\ server = gen
    /\ spc = "adopt_stamp" => eye
    /\ spc \in ReapPcs /\ back = "adopt_next"
           => busy = 0 /\ eye /\ ecbptr /\ server = gen
    /\ spc = "adopt_steal" => active
    /\ Serving \/ spc \in {"down"} \cup ReapPcs
                          \cup (AdoptPcs \ (Settling \cup Settled))
           => polls = 0

(* Past its pause, an adopting start has nobody running in the routine. *)
RestOK ==
    spc \in Settled \/ (spc \in Settling /\ polls # 0)
        => \A c \in Clients : AtRest(c)

(* While the STC serves, a client is posted only for a DONE slot, and the  *)
(* owner of a slot made DONE waits until it is posted.                       *)
PostedOK ==
    /\ Serving => \A c \in Clients :
           \/ pc[c] \in {"publish", "post", "wait"} /\ reply_ecb[Mine(c)]
           \/ pc[c] = "free"
           => req_state[Mine(c)] = DONE
    /\ spc = "reply" => \A c \in Clients :
           Owns(c) /\ Mine(c) = busy
               => pc[c] \in {"post", "wait"} /\ ~reply_ecb[busy]

(* The slot in service, and the slot about to be acted on. *)
ServiceOK ==
    /\ Serving /\ busy # 0
           => req_state[busy] = IF spc = "reply" THEN DONE ELSE PENDING
    /\ spc \in {"mark", "act"} => want = PENDING
    /\ spc = "act" => /\ idx # busy /\ req_state[idx] = PENDING
                      /\ verd = LIVE => busy = 0

(* The private copy answers the request in service. *)
CopyOK ==
    Serving /\ busy # 0 =>
        /\ img[busy].req = priv.req /\ disp[priv.req] > 0
        /\ privecb => priv.ans = priv.req
        /\ spc \in {"complete", "mark", "reply"} => privecb
        /\ spc \in {"mark", "reply"} => img[busy].ans = priv.req

(* The image of an owner's slot is its request; a DONE one is answered.    *)
(* A PENDING slot, its owner living or not, holds some call's request.      *)
ImageOK ==
    /\ \A c \in Clients :
          LET r == <<c, calls[c]>>
          IN  /\ pc[c] \in {"publish", "post", "wait", "out"}
                     => img[Mine(c)].req = r
              /\ pc[c] \in {"post", "wait", "out"} /\ req_state[Mine(c)] = DONE
                     => img[Mine(c)].ans = r /\ disp[r] > 0
    /\ \A s \in Slots : req_state[s] = PENDING => img[s].req \in Requests

OwnerInv == /\ TypeOK /\ LocalsOK /\ AsvtOK /\ ExclusiveOwner /\ OwnerStates
            /\ ReaperOK /\ AnchorOK /\ RestOK /\ PostedOK /\ ServiceOK
IInv == OwnerInv /\ CopyOK /\ ImageOK /\ RightAnswer

-----------------------------------------------------------------------------
(* The in-flight word, as long as no address space has ended: then nothing *)
(* is ever reaped and the word is exact.  A client that found its anchor    *)
(* freed (WGONE) went without giving its count back.                         *)
NoDeaths == births = 0 /\ \A c \in Clients : pc[c] # "dead"
Tallied  == {c \in Clients : \/ pc[c] \in Counted
                             \/ pc[c] \in {"idle", "check"} /\ cs[c] # 0}
CountOK ==
    NoDeaths =>
        /\ inflight = Cardinality(Tallied) /\ spc \notin ReapPcs
        /\ eye => /\ \A c \in Clients : pc[c] \in {"idle", "check"} => cs[c] = 0
                  /\ \A s \in Slots : ~Doomed(s)

(* Nobody is in the routine from the second look at the word until routine *)
(* and anchor are gone.                                                      *)
StillOK == spc = "stop_free" \/ quiet => ~Serving /\ (NoDeaths => NobodyInside)

-----------------------------------------------------------------------------
(* Requests: one not yet staged is nowhere, and one is in one slot only.   *)
Unstaged(c, n) ==
    n > calls[c] \/ (n = calls[c] /\ pc[c] \in {"check", "scan", "inc", "stage"})
OneSlotOK ==
    /\ \A c \in Clients, n \in 1 .. MaxCalls :
          Unstaged(c, n) => /\ disp[<<c, n>>] = 0
                            /\ \A s \in Slots : img[s].req # <<c, n>>
    /\ \A s, t \in Slots : s # t /\ img[s].req = img[t].req => img[s].req = NULL
    /\ \A s \in Slots : req_state[s] # FREE => owner[s] # NULL

(* A PENDING slot whose request was dispatched before is the one in        *)
(* service, or was left by an ended STC and the adopting one has yet to      *)
(* come to it.                                                               *)
Ahead(s) ==
    \/ spc \in {"down", "adopt_stamp"} \cup StopPcs
    \/ spc = "adopt_scrub" /\ s >= idx
    \/ spc = "adopt_act" /\ s = idx /\ want = PENDING /\ verd # UNKNOWN
    \/ spc \in {"adopt_act", "adopt_post", "adopt_next"} \cup ReapPcs
           /\ ~Serving /\ s > idx
FreshOK ==
    /\ spc \in {"down", "adopt_stamp"} => idx = 1
    /\ \A c \in Clients : pc[c] = "publish" => disp[<<c, calls[c]>>] = 0
    /\ \A s \in Slots :
          req_state[s] = PENDING /\ disp[img[s].req] > 0
              => (Serving /\ s = busy) \/ Ahead(s)

(* What is answered was dispatched; results are answers.                    *)
AnsweredOK ==
    /\ \A r \in done : r \in Requests /\ disp[r] > 0
    /\ Serving /\ busy # 0 /\ ~privecb => priv.req \notin done
    /\ priv.ans \in done \cup {NULL}
    /\ \A s \in Slots : img[s].ans \in done \cup {NULL}
    /\ \A c \in Clients : got[c].ans \in done \cup {NULL}
    /\ \A c \in Clients : /\ rc[c] \in {"none", "ok", "nobuf", "corrupt"}
                          /\ rc[c] = "nobuf" => pc[c] \in {"idle", "dead"}

-----------------------------------------------------------------------------
(* A pass that began because the probe found work still has it before it.  *)
Waiting(s) ==
    /\ Other(s)
    /\ busy = 0 \/ nsfreqx_classify(owner[s], owner[s], asvt) # LIVE
SpinOK ==
    /\ ~Serving /\ spc \notin StopPcs => ~probe
    /\ Serving /\ probe /\ ~did =>
          \/ spc \in {"reset", "complete"} /\ busy # 0 /\ privecb
          \/ spc \in {"reset", "look"} /\ \E s \in Slots : Waiting(s)
          \/ spc = "scan" /\ \E s \in Slots : s >= idx /\ Waiting(s)
          \/ spc = "act"
=============================================================================

------------------------------ MODULE NsfReqX ------------------------------
(***************************************************************************)
(* The pure rules of the phase-2 request crossing (src/src/nsfreqx.c):     *)
(* who a slot's owner is, what a drain pass may do with a slot, when a     *)
(* slot may be reclaimed, what an adopting start does with it, and which   *)
(* fields of a request cross the slot.  No state: NsfSlotPool is the       *)
(* machine that applies these rules to the shared pool.                    *)
(*                                                                         *)
(* A request image is abstracted to a record                               *)
(*     [req |-> which call this is, ans |-> which call the results answer] *)
(* "req" stands for the caller-owned fields (fn, sockdesc, ubuf, ...) and  *)
(* "ans" for the result fields (retcode, errno_, apptok, p1..p3).          *)
(***************************************************************************)
EXTENDS Naturals

CONSTANTS
    NULL,       \* a zero ASCB pointer, and "no request" in an image
    AVAIL       \* an ASVT entry whose AVAILABLE bit is on

(* Slot states NSFREQX_ST_xxx. *)
FREE    == "free"
CLAIMED == "claimed"
PENDING == "pending"
HELD    == "held"
DONE    == "done"
SlotStates == {FREE, CLAIMED, PENDING, HELD, DONE}

(* Client verdicts NSFREQX_CL_xxx. *)
LIVE    == "live"
DEAD    == "dead"
UNKNOWN == "unknown"
Verdicts == {LIVE, DEAD, UNKNOWN}

(* Return codes of the SVC routine, NSFREQX_RC_xxx. *)
RcCodes == {"ok", "invalid", "corrupt", "noreq", "nobuf"}

-----------------------------------------------------------------------------
(* The owner of a request, judged against the ASVT.  The empty table is    *)
(* the unreadable one (NULL or maxu = 0).                                   *)
nsfreqx_classify(ascb, asid, asvt) ==
    IF ascb = NULL \/ asid \notin DOMAIN asvt THEN UNKNOWN
    ELSE IF asvt[asid] # ascb THEN DEAD ELSE LIVE

-----------------------------------------------------------------------------
nsfreqx_slot_action(state, verdict, guardOk, ptrOk) ==
    IF state # PENDING THEN "none"
    ELSE IF verdict = DEAD THEN "reap"
    ELSE IF verdict = UNKNOWN THEN "hold"
    ELSE IF guardOk /\ ptrOk THEN "dispatch"
    ELSE "reap_bad"

nsfreqx_actionable(act, busy) ==
    act \in {"reap", "hold", "reap_bad"} \/ (act = "dispatch" /\ ~busy)

nsfreqx_reap_ok(observed, verdict, storageOk) ==
    /\ verdict # UNKNOWN
    /\ verdict = DEAD \/ ~storageOk
    /\ observed \in {PENDING, HELD, DONE}

(* Mutant of nsfreqx_adopt_action: PENDING slots are overlooked. *)
AdoptHeldOnly(state, verdict, storageOk) ==
    IF verdict = DEAD /\ nsfreqx_reap_ok(state, DEAD, TRUE) THEN "adopt_reap"
    ELSE IF verdict = LIVE /\ storageOk /\ state = HELD THEN "adopt_post"
    ELSE "adopt_none"

nsfreqx_adopt_action(state, verdict, storageOk) ==
    IF verdict = DEAD /\ nsfreqx_reap_ok(state, DEAD, TRUE) THEN "adopt_reap"
    ELSE IF verdict = LIVE /\ storageOk /\ state \in {PENDING, HELD}
         THEN "adopt_post"
    ELSE "adopt_none"

-----------------------------------------------------------------------------
(* Field policy of the crossing. *)
NoImage == [req |-> NULL, ans |-> NULL]

(* Slot image to the private copy: every field crosses (the link, ECB and  *)
(* buffer pointer are replaced by the server's own).                        *)
nsfreqx_dispatch_in(slotImg) == slotImg

(* Mutant of nsfreqx_result_out: the results stay in the private copy. *)
ResultsNotCopied(slotImg, priv) == slotImg

(* Results back to the slot: the result fields only. *)
nsfreqx_result_out(slotImg, priv) ==
    [req |-> slotImg.req, ans |-> priv.ans]
=============================================================================

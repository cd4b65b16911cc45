------------------------------ MODULE VendorSlot -------------------------------
(***************************************************************************)
(* The one vendor transfer slot (ADAPTOID_VENDOR_SLOT): AdaptoidVendorSend *)
(* and AdaptoidVendorComplete under everyone who uses them - the blocking  *)
(* callers (AdaptoidQueryFirmwareInfo, AdaptoidCoreVendorSync,             *)
(* AdaptoidCmdXfer), the core's own sends, the effect tick the poll        *)
(* completion drives, and the work a completion passes the slot on to -    *)
(* with the bus completing transfers and REMOVE closing the remove locks.  *)
(*                                                                         *)
(* Every Vendor.Lock section is one step.  What the core sends is left     *)
(* out: here it has something to send or it does not.                      *)
(***************************************************************************)
EXTENDS Naturals, FiniteSets

CONSTANTS Callers,          \* threads that make blocking calls, one after the other
          Kind,             \* Kind[c]: "sync" (AdaptoidCoreVendorSync), "cmd" (AdaptoidCmdXfer)
                            \*          or "query" (AdaptoidQueryFirmwareInfo, in START)
          Core,             \* a thread in the core: an effect IOCTL, a pak change
          Tick,             \* core_tick, from the poll completion
          Dpcs,             \* processors a transfer can complete on
          Nobody,
          DeferredTries,    \* CORE_EFFECT_SLOTS: turns of core_effect_run_deferred's loop
          Together,         \* bound: blocking calls under way at the same time
          AllocationFails,  \* the URB or its IRP may be refused
          InlineFailures    \* the bus may complete a transfer with an error inside IoCallDriver

ASSUME SlotConstants ==
    /\ DeferredTries \in Nat \ {0} /\ Together \in Nat
    /\ Kind \in [Callers -> {"sync", "cmd", "query"}]
    /\ AllocationFails \in BOOLEAN /\ InlineFailures \in BOOLEAN

ASSUME DistinctThreads ==
    /\ IsFiniteSet(Callers) /\ IsFiniteSet(Dpcs)
    /\ Callers \cap Dpcs = {}
    /\ Core \notin Callers \cup Dpcs
    /\ Tick \notin Callers \cup Dpcs \cup {Core}
    /\ Nobody \notin Callers \cup Dpcs \cup {Core, Tick}

Senders == Callers \cup Dpcs \cup {Core, Tick}

VARIABLES
    State,                  \* Vendor.State
    Callback,               \* Vendor.Callback is the core's
    Done,                   \* Vendor.Done is signalled
    deferred,               \* one of the core's claim_* flags is set
    at,                     \* where each thread is
    half,                   \* which of its two transfers a long command is on
    bus,                    \* the transfers out: each blocking caller's, and the core's
    completing,             \* per processor: what AdaptoidVendorComplete has in its locals
    refsA, refsB,           \* references on the two remove locks
    removal,
    claimant                \* history: who claimed the slot, or is passing it on

slotVars == <<State, Callback>>
lockVars == <<refsA, refsB, removal>>
vars == <<slotVars, Done, deferred, at, half, bus, completing, lockVars, claimant>>

Owner(t) == IF t \in Callers THEN t ELSE Core
Owners == Callers \cup {Core}

NoWork == [inside |-> Nobody, ok |-> FALSE, cb |-> FALSE, held |-> FALSE,
           dropped |-> FALSE, tries |-> 0]

TypeOK ==
    /\ State \in {"FREE", "CLAIMED", "IN_FLIGHT"}
    /\ Callback \in BOOLEAN /\ Done \in BOOLEAN /\ deferred \in BOOLEAN
    /\ at \in [Senders -> {"idle", "claimed", "refused", "send", "inline", "rollback", "fail",
                           "waiting", "again", "returned", "take", "chain", "free", "finish"}]
    /\ bus \in [Owners -> 0..2]
    /\ completing \in [Dpcs -> [inside : Senders \cup {Nobody}, ok : BOOLEAN, cb : BOOLEAN,
                                held : BOOLEAN, dropped : BOOLEAN,
                                tries : 0..DeferredTries]]
    /\ refsA \in Nat /\ refsB \in Nat
    /\ removal \in {"none", "closingA", "closingB", "unwired"}
    /\ claimant \in Senders \cup {Nobody}
    /\ half \in [Callers -> {1, 2}]

Init ==
    /\ State = "FREE" /\ Callback = FALSE /\ Done = FALSE /\ deferred = FALSE
    /\ at = [t \in Senders |-> IF t = Tick THEN "send" ELSE "idle"]
    /\ bus = [t \in Owners |-> 0]
    /\ completing = [d \in Dpcs |-> NoWork]
    /\ refsA = 0 /\ refsB = 0 /\ removal = "none"
    /\ claimant = Nobody
    /\ half = [c \in Callers |-> 1]

Goto(t, from, to) == at[t] = from /\ at' = [at EXCEPT ![t] = to]

(***************************************************************************)
(* AdaptoidVendorTryClaim                                                  *)
(***************************************************************************)
TryClaim(t, from, got, refused) ==
    IF State = "FREE"
    THEN State' = "CLAIMED" /\ claimant' = t /\ Goto(t, from, got)
    ELSE Goto(t, from, refused) /\ UNCHANGED <<State, claimant>>

(***************************************************************************)
(* Where a thread goes after AdaptoidVendorSend.  Only                     *)
(* AdaptoidCoreVendorSync among the blocking callers looks at the status   *)
(* before it waits.  A completion whose send worked has passed the slot    *)
(* on.  A tick can come at any time.                                       *)
(***************************************************************************)
AfterSend(t, ok) ==
    CASE t \in Callers -> IF ok \/ Kind[t] # "sync" THEN "waiting" ELSE "returned"
      [] t \in Dpcs -> IF ok THEN "finish" ELSE "chain"
      [] t = Core -> "idle"
      [] t = Tick -> "send"

--------------------------------------------------------------------------------
(* AdaptoidVendorSend, by any thread that is at "send" *)

(***************************************************************************)
(* Whoever gets here with the slot CLAIMED submits; the slot does not say  *)
(* whose claim it is.  The transfer goes to the bus, or the URB cannot be  *)
(* had, or the bus completes it with an error before IoCallDriver returns. *)
(***************************************************************************)
SendSubmit(t) ==
    /\ at[t] = "send"
    /\ removal \in {"none", "closingA"}
    /\ State = "CLAIMED"
    /\ State' = "IN_FLIGHT"
    /\ Callback' = (t \notin Callers)
    /\ refsB' = refsB + 1
    /\ claimant' = Nobody
    /\ \/ /\ at' = [at EXCEPT ![t] = AfterSend(t, TRUE)]
          /\ bus' = [bus EXCEPT ![Owner(t)] = @ + 1]
          /\ UNCHANGED completing
       \/ /\ AllocationFails
          /\ at' = [at EXCEPT ![t] = "rollback"]
          /\ UNCHANGED <<bus, completing>>
       \/ /\ InlineFailures
          /\ \E d \in Dpcs \ {t} :
                /\ at[d] = "idle"
                /\ at' = [at EXCEPT ![t] = "inline", ![d] = "take"]
                /\ completing' = [completing EXCEPT ![d].inside = t]
          /\ UNCHANGED bus
    /\ UNCHANGED <<Done, deferred, half, refsA, removal>>

SendBusy(t) ==
    /\ removal \in {"none", "closingA"}
    /\ State # "CLAIMED"
    /\ Goto(t, "send", AfterSend(t, FALSE))
    /\ UNCHANGED <<slotVars, Done, deferred, bus, completing, lockVars, half, claimant>>

(***************************************************************************)
(* VendorFail: a CLAIMED slot goes back to FREE, whoever claimed it.       *)
(***************************************************************************)
VendorFail ==
    /\ State' = IF State = "CLAIMED" THEN "FREE" ELSE State
    /\ claimant' = IF State = "CLAIMED" THEN Nobody ELSE claimant

SendRefused(t) ==                       \* RemoveLockB is closed
    /\ removal \notin {"none", "closingA"}
    /\ Goto(t, "send", AfterSend(t, FALSE))
    /\ VendorFail
    /\ UNCHANGED <<Callback, Done, deferred, bus, completing, lockVars, half>>

(***************************************************************************)
(* The transfer was not accepted: undo IN_FLIGHT, then fail the claim and  *)
(* drop the reference.                                                     *)
(***************************************************************************)
FaultNoRollback(t) ==
    /\ Goto(t, "rollback", "fail")
    /\ UNCHANGED <<slotVars, claimant, Done, deferred, bus, completing, lockVars, half>>

SendRollback(t) ==
    /\ Goto(t, "rollback", "fail")
    /\ IF State = "IN_FLIGHT"
       THEN State' = "CLAIMED" /\ Callback' = FALSE /\ claimant' = t
       ELSE UNCHANGED <<slotVars, claimant>>
    /\ UNCHANGED <<Done, deferred, bus, completing, lockVars, half>>

SendFail(t) ==
    /\ Goto(t, "fail", AfterSend(t, FALSE))
    /\ VendorFail
    /\ refsB' = refsB - 1
    /\ UNCHANGED <<Callback, Done, deferred, bus, completing, refsA, removal, half>>

Send(t) == SendSubmit(t) \/ SendBusy(t) \/ SendRefused(t) \/ SendRollback(t) \/ SendFail(t)

--------------------------------------------------------------------------------
(* The blocking callers *)

(***************************************************************************)
(* A call claims; whoever returned may call again, and finds the event the *)
(* calls before it used.  START holds both remove locks while it queries;  *)
(* a control-device request holds neither.                                 *)
(***************************************************************************)
Called(c) == at[c] \notin {"idle", "returned"}

CallerClaim(c) ==
    /\ removal = "none"
    /\ ~Called(c) /\ Cardinality({d \in Callers : Called(d)}) < Together
    /\ TryClaim(c, at[c], "claimed", "returned")
    /\ half' = [half EXCEPT ![c] = 1]
    /\ IF Kind[c] = "query" /\ State = "FREE"
       THEN refsA' = refsA + 1 /\ refsB' = refsB + 1
       ELSE UNCHANGED <<refsA, refsB>>
    /\ UNCHANGED <<Callback, Done, deferred, bus, completing, removal>>

CallerInitEvent(c) ==
    /\ Goto(c, "claimed", "send")
    /\ Done' = FALSE
    /\ UNCHANGED <<slotVars, deferred, bus, completing, lockVars, half, claimant>>

CallerWoken(c) ==
    /\ Done
    /\ Goto(c, "waiting", IF Kind[c] = "cmd" /\ half[c] = 1 THEN "again" ELSE "returned")
    /\ IF Kind[c] = "query"
       THEN refsA' = refsA - 1 /\ refsB' = refsB - 1
       ELSE UNCHANGED <<refsA, refsB>>
    /\ UNCHANGED <<slotVars, Done, deferred, bus, completing, removal, half, claimant>>

(***************************************************************************)
(* AdaptoidCmdXfer with keep: the completion has freed the slot, so it is  *)
(* claimed again, and the result of that is not looked at; the second      *)
(* transfer of the command follows.                                        *)
(***************************************************************************)
CmdKeep(c) ==
    /\ TryClaim(c, "again", "claimed", "claimed")
    /\ half' = [half EXCEPT ![c] = 2]
    /\ UNCHANGED <<Callback, Done, deferred, bus, completing, lockVars>>

Call(c) ==
    Send(c) \/ CallerInitEvent(c) \/ CallerWoken(c) \/ CmdKeep(c)

--------------------------------------------------------------------------------
(* The core *)

(***************************************************************************)
(* core_effect_claim, with something to send or (core_effect_run)          *)
(* perhaps not; a refused claim is recorded, after the fact.               *)
(***************************************************************************)
CoreClaim ==
    /\ removal # "unwired"
    /\ \/ TryClaim(Core, "idle", "send", "refused")
       \/ State = "FREE" /\ TryClaim(Core, "idle", "claimed", "refused")
    /\ UNCHANGED <<Callback, Done, deferred, bus, completing, lockVars, half>>

CoreDefer ==
    /\ Goto(Core, "refused", "idle")
    /\ deferred' = TRUE
    /\ UNCHANGED <<slotVars, Done, bus, completing, lockVars, half, claimant>>

(***************************************************************************)
(* core_effect_run when the window has not changed: core_effect_run_       *)
(* deferred takes over the claim if anything is deferred; otherwise it     *)
(* returns, and the slot stays CLAIMED.                                    *)
(***************************************************************************)
CoreNothingToSend ==
    /\ Goto(Core, "claimed", IF deferred THEN "send" ELSE "idle")
    /\ deferred' = FALSE
    /\ claimant' = IF deferred THEN Core ELSE Nobody
    /\ UNCHANGED <<slotVars, Done, bus, completing, lockVars, half>>

--------------------------------------------------------------------------------
(* VendorUrbComplete and AdaptoidVendorComplete *)

BusCompletes(d, t) ==
    /\ at[d] = "idle"
    /\ bus[t] > 0
    /\ bus' = [bus EXCEPT ![t] = @ - 1]
    /\ \E ok \in BOOLEAN : completing' = [completing EXCEPT ![d].ok = ok]
    /\ at' = [at EXCEPT ![d] = "take"]
    /\ UNCHANGED <<slotVars, Done, deferred, lockVars, half, claimant>>

CompleteTake(d) ==
    LET held == removal = "none"
        found == State = "IN_FLIGHT"
    IN  /\ Goto(d, "take", IF found THEN "chain" ELSE "finish")
        /\ completing' = [completing EXCEPT ![d].cb = found /\ Callback /\ held /\ completing[d].ok,
                                            ![d].ok = FALSE, ![d].held = held, ![d].dropped = ~found]
        /\ refsA' = IF held THEN refsA + 1 ELSE refsA
        /\ IF found
           THEN State' = "CLAIMED" /\ Callback' = FALSE /\ claimant' = d
           ELSE UNCHANGED <<slotVars, claimant>>
        /\ UNCHANGED <<Done, deferred, half, bus, refsB, removal>>

(***************************************************************************)
(* The callback may send again; otherwise deferred work does; a send that  *)
(* works keeps the slot.                                                   *)
(***************************************************************************)
CompleteChain(d) ==
    LET more == deferred /\ completing[d].tries < DeferredTries IN
    /\ \/ /\ completing[d].cb
          /\ Goto(d, "chain", "send")
          /\ completing' = [completing EXCEPT ![d].cb = FALSE]
          /\ UNCHANGED deferred
       \/ /\ more
          /\ Goto(d, "chain", "send")
          /\ deferred' = FALSE
          /\ completing' = [completing EXCEPT ![d].cb = FALSE, ![d].tries = @ + 1]
       \/ /\ ~more
          /\ Goto(d, "chain", "free")
          /\ UNCHANGED <<deferred, completing>>
    /\ UNCHANGED <<slotVars, Done, bus, lockVars, half, claimant>>

CompleteFree(d) ==
    /\ Goto(d, "free", "finish")
    /\ VendorFail
    /\ UNCHANGED <<Callback, Done, deferred, bus, completing, lockVars, half>>

FaultSignalOnlyWhenFree(d) ==
    /\ at[d] = "finish"
    /\ Done' = (Done \/ State = "FREE")
    /\ at' = [t \in Senders |-> CASE t = d -> "idle"
                                 [] t = completing[d].inside -> "rollback"
                                 [] OTHER -> at[t]]
    /\ refsA' = IF completing[d].held THEN refsA - 1 ELSE refsA
    /\ refsB' = refsB - 1
    /\ completing' = [completing EXCEPT ![d] = NoWork]
    /\ UNCHANGED <<slotVars, deferred, bus, removal, half, claimant>>

CompleteFinish(d) ==
    /\ at[d] = "finish"
    /\ Done' = (Done \/ ~completing[d].dropped)
    /\ at' = [t \in Senders |-> CASE t = d -> "idle"
                                 [] t = completing[d].inside -> "rollback"
                                 [] OTHER -> at[t]]
    /\ refsA' = IF completing[d].held THEN refsA - 1 ELSE refsA
    /\ refsB' = refsB - 1
    /\ completing' = [completing EXCEPT ![d] = NoWork]
    /\ UNCHANGED <<slotVars, deferred, bus, removal, half, claimant>>

Completion(d) ==
    \/ CompleteTake(d) \/ CompleteChain(d) \/ Send(d)
    \/ CompleteFree(d) \/ CompleteFinish(d)

--------------------------------------------------------------------------------
(* REMOVE_DEVICE: close and drain A, later B *)

Remove ==
    /\ \/ removal = "none" /\ removal' = "closingA"
       \/ removal = "closingA" /\ refsA = 0 /\ removal' = "closingB"
       \/ removal = "closingB" /\ refsB = 0 /\ removal' = "unwired"
    /\ UNCHANGED <<slotVars, Done, deferred, at, bus, completing, refsA, refsB, half, claimant>>

--------------------------------------------------------------------------------

Next ==
    \/ \E c \in Callers : CallerClaim(c) \/ Call(c)
    \/ CoreClaim \/ CoreDefer \/ CoreNothingToSend \/ Send(Core)
    \/ removal # "unwired" /\ Send(Tick)
    \/ \E d \in Dpcs : Completion(d) \/ \E t \in Owners : BusCompletes(d, t)
    \/ Remove

Spec == Init /\ [][Next]_vars

(***************************************************************************)
(* Threads keep running and the bus completes what it was given (a vendor  *)
(* request to a device that is gone is completed with an error).           *)
(***************************************************************************)
FairSpec ==
    /\ Spec
    /\ \A c \in Callers : WF_vars(Call(c))
    /\ WF_vars(CoreDefer \/ CoreNothingToSend \/ Send(Core))
    /\ WF_vars(at[Tick] # "send" /\ Send(Tick))
    /\ \A d \in Dpcs : WF_vars(Completion(d))
    /\ \A t \in Owners : WF_vars(\E d \in Dpcs : BusCompletes(d, t))
    /\ WF_vars(removal # "none" /\ Remove)

--------------------------------------------------------------------------------

Outstanding == {t \in Owners : bus[t] > 0}

Undoing == {t \in Senders : at[t] \in {"inline", "rollback"}}

(***************************************************************************)
(* IN_FLIGHT says what the bus says: one transfer is out, or one that was  *)
(* refused is about to be rolled back, and never two.                      *)
(***************************************************************************)
SlotMatchesBus ==
    /\ Cardinality(Outstanding \cup Undoing \cup {d \in Dpcs : at[d] = "take"}) <= 1
    /\ State = "IN_FLIGHT" <=> Outstanding \cup Undoing \cup {d \in Dpcs : at[d] = "take"} # {}

Undone == {t \in Senders : at[t] \in {"rollback", "fail"}}     \* still to give up its reference
Busy == {d \in Dpcs : at[d] # "idle"}
Querying == {c \in Callers : Kind[c] = "query" /\ at[c] \notin {"idle", "returned"}}

(***************************************************************************)
(* RemoveLockB counts the transfers: one reference for each from its       *)
(* submission to the end of its completion or of its rollback, and one     *)
(* for a START that is querying.                                           *)
(***************************************************************************)
ReferencePerTransfer ==
    refsB = Cardinality(Outstanding) + Cardinality(Undone) + Cardinality(Busy)
            + Cardinality(Querying)

(***************************************************************************)
(* A completion always finds its slot IN_FLIGHT: none is dropped, so no    *)
(* caller is left waiting by one.                                          *)
(***************************************************************************)
NoCompletionDropped == \A d \in Dpcs : at[d] = "take" => State = "IN_FLIGHT"

(***************************************************************************)
(* A blocking call that looks at the status of its send, as                *)
(* AdaptoidCoreVendorSync does, returns: whatever the core and the tick do *)
(* with the slot, and though a completion of an earlier call, or of theirs *)
(* signals the event late, before or after this call reset it.             *)
(***************************************************************************)
Calling == {c \in Callers : Kind[c] = "sync" /\ at[c] \notin {"idle", "returned"}}
CallReturns == (Calling # {}) ~> (Calling = {})

(***************************************************************************)
(* REMOVE gets past both locks.  (The comment in AdaptoidVendorSend        *)
(* names what it must avoid: "THE DRIVER CANNOT BE UNLOADED AGAIN".)       *)
(***************************************************************************)
RemovalEnds == (removal # "none") ~> (removal = "unwired")

(***************************************************************************)
(* The comment in AdaptoidVendorSend: "Only a caller that already claimed  *)
(* the slot may submit."                                                   *)
(***************************************************************************)
OnlyClaimantSubmits == [][\A t \in Senders : SendSubmit(t) => claimant = t]_vars

MidCommand(c) ==
    /\ Kind[c] = "cmd"
    /\ IF half[c] = 1 THEN at[c] \in {"waiting", "again"} ELSE at[c] \in {"claimed", "send"}

(***************************************************************************)
(* The comment in core_cmd_exec: "The first transfer KEEPS THE SLOT so     *)
(* nothing can come between the two."                                      *)
(***************************************************************************)
NothingBetweenHalves ==
    [][\A t \in Senders, c \in Callers : SendSubmit(t) /\ t # c => ~MidCommand(c)]_vars

(***************************************************************************)
(* The comment in AdaptoidVendorComplete: the waiter is waiting for "this  *)
(* transfer is over", and when it is woken it is.                          *)
(***************************************************************************)
WokenWhenOver ==
    \A c \in Callers : at[c] \in {"again", "returned"} => bus[c] = 0

(***************************************************************************)
(* The comment in core_effect_run: nothing went out, "so hand the slot on  *)
(* rather than holding it".  A CLAIMED slot is somebody's.                 *)
(***************************************************************************)
ClaimIsHeld == State = "CLAIMED" => claimant # Nobody

(***************************************************************************)
(* The comment on AdaptoidVendorTryClaim: the caller records refused work  *)
(* as deferred "and the completion path picks it up".                      *)
(***************************************************************************)
DeferredIsPickedUp == deferred ~> ~deferred
================================================================================

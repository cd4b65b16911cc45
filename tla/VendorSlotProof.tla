---------------------------- MODULE VendorSlotProof ----------------------------
(***************************************************************************)
(* Proofs about VendorSlot for any number of blocking callers and          *)
(* processors, as long as the bus does not complete a transfer with an     *)
(* error inside IoCallDriver.  The invariant that carries them: there is   *)
(* at most one transfer that the slot can be IN_FLIGHT for, it is in one   *)
(* place, and each place it can be in holds its reference.                 *)
(***************************************************************************)
EXTENDS VendorSlot, FiniteSetTheorems, TLAPS

(***************************************************************************)
(* The senders that have the transfer the slot is IN_FLIGHT for in their   *)
(* hands: a completion that has not taken the slot yet, a send that is to  *)
(* be rolled back.                                                         *)
(***************************************************************************)
InHand == {t \in Senders : at[t] \in {"rollback", "take"}}

OneTransfer ==
    /\ \A t \in Owners : bus[t] <= 1
    /\ \A t, u \in Owners : bus[t] > 0 /\ bus[u] > 0 => t = u
    /\ \A t, u \in InHand : t = u
    /\ \A t \in Owners : bus[t] > 0 => InHand = {}

InFlightSomewhere ==
    State = "IN_FLIGHT" <=> (\E t \in Owners : bus[t] > 0) \/ InHand # {}

(* Nothing completes inside a send. *)
NothingInline ==
    /\ \A t \in Senders : at[t] # "inline"
    /\ \A d \in Dpcs : completing[d].inside = Nobody

(* The places of a completion are for processors only. *)
PlacesOfDpcs ==
    /\ \A t \in Senders : at[t] \in {"take", "chain", "free", "finish"} => t \in Dpcs
    /\ \A d \in Dpcs : at[d] \in {"idle", "take"} => ~completing[d].held

Places == {"idle", "claimed", "refused", "send", "inline", "rollback", "fail",
           "waiting", "again", "returned", "take", "chain", "free", "finish"}

Work == [inside : Senders \cup {Nobody}, ok : BOOLEAN, cb : BOOLEAN, held : BOOLEAN,
         dropped : BOOLEAN, tries : 0..DeferredTries]

(* TypeOK without the two counts, which are natural numbers because they are counts. *)
Typed ==
    /\ State \in {"FREE", "CLAIMED", "IN_FLIGHT"}
    /\ Callback \in BOOLEAN /\ Done \in BOOLEAN /\ deferred \in BOOLEAN
    /\ at \in [Senders -> Places]
    /\ bus \in [Owners -> 0..2]
    /\ completing \in [Dpcs -> Work]
    /\ removal \in {"none", "closingA", "closingB", "unwired"}
    /\ claimant \in Senders \cup {Nobody}
    /\ half \in [Callers -> {1, 2}]

TransferInv ==
    /\ Typed
    /\ OneTransfer
    /\ InFlightSomewhere
    /\ NothingInline
    /\ PlacesOfDpcs

Held == {d \in Dpcs : completing[d].held}

ReferencesOnA == refsA = Cardinality(Held) + Cardinality(Querying)

CountInv == ReferencePerTransfer /\ ReferencesOnA

SlotInv == TransferInv /\ CountInv

--------------------------------------------------------------------------------
(* The transfer is in one place *)

LEMMA AfterSendTyped ==
    ASSUME NEW t \in Senders, NEW ok \in BOOLEAN
    PROVE  /\ AfterSend(t, ok) \in Places \ {"inline", "rollback", "take", "fail", "free"}
           /\ AfterSend(t, ok) \in {"chain", "finish"} => t \in Dpcs
           /\ t \in Dpcs => AfterSend(t, ok) \in {"chain", "finish"}
           /\ t \in Callers => AfterSend(t, ok) \in {"waiting", "returned"}
  BY DistinctThreads DEF AfterSend, Senders, Places

LEMMA OwnerTyped == \A t \in Senders : Owner(t) \in Owners
  BY DEF Owner, Owners, Senders

LEMMA TransferInit == Init => TransferInv
<1> SUFFICES ASSUME Init PROVE TransferInv
  OBVIOUS
<1> USE DistinctThreads, SlotConstants DEF Init
<1>1. at \in [Senders -> {"idle", "send", "returned"}]
  BY DEF Senders
<1>2. NoWork \in Work
  BY DEF NoWork, Work
<1>3. Typed
  <2>1. Callback \in BOOLEAN /\ Done \in BOOLEAN /\ deferred \in BOOLEAN
    BY Zenon
  <2> QED
    BY <1>1, <1>2, <2>1 DEF Typed, Places, Owners
<1>4. InHand = {}
  BY <1>1 DEF InHand
<1>5. OneTransfer /\ InFlightSomewhere
  BY <1>4 DEF OneTransfer, InFlightSomewhere, Owners
<1>6. NothingInline /\ PlacesOfDpcs
  BY <1>1 DEF NothingInline, PlacesOfDpcs, NoWork
<1> QED
  BY <1>3, <1>5, <1>6 DEF TransferInv

(***************************************************************************)
(* A sender moves between places that have nothing to do with the          *)
(* transfer the slot is IN_FLIGHT for, and the slot, if it changes at all, *)
(* changes between FREE and CLAIMED.                                       *)
(***************************************************************************)
Aside == Places \ {"inline", "rollback", "take"}

LEMMA MovesAside ==
    ASSUME TransferInv, NEW t \in Senders, NEW s \in Aside,
           at[t] \notin {"rollback", "take"},
           at' = [at EXCEPT ![t] = s],
           s \in {"chain", "free", "finish"} => t \in Dpcs,
           State' \in {"FREE", "CLAIMED", "IN_FLIGHT"},
           State' = "IN_FLIGHT" <=> State = "IN_FLIGHT",
           UNCHANGED bus
    PROVE  /\ at' \in [Senders -> Places]
           /\ OneTransfer' /\ InFlightSomewhere'
           /\ \A u \in Senders : at'[u] # "inline"
           /\ \A u \in Senders : at'[u] \in {"take", "chain", "free", "finish"} => u \in Dpcs
<1> USE DEF TransferInv, Typed, Aside, Places
<1>1. InHand' = InHand
  BY DEF InHand
<1>2. OneTransfer' /\ InFlightSomewhere'
  BY <1>1 DEF OneTransfer, InFlightSomewhere
<1>3. \A u \in Senders : at'[u] # "inline"
  BY DEF NothingInline
<1>4. \A u \in Senders : at'[u] \in {"take", "chain", "free", "finish"} => u \in Dpcs
  BY DEF PlacesOfDpcs
<1> QED
  BY <1>2, <1>3, <1>4

(***************************************************************************)
(* The steps of AdaptoidVendorSend.                                        *)
(***************************************************************************)
LEMMA SubmitInv ==
    ASSUME TransferInv, InlineFailures = FALSE, NEW t \in Senders, SendSubmit(t)
    PROVE  TransferInv'
<1> USE DEF TransferInv
<1>0. PICK s \in {AfterSend(t, TRUE), "rollback"} :
        /\ at' = [at EXCEPT ![t] = s]
        /\ completing' = completing
        /\ \/ s = "rollback" /\ bus' = bus
           \/ s = AfterSend(t, TRUE) /\ bus' = [bus EXCEPT ![Owner(t)] = @ + 1]
  BY DEF SendSubmit
<1>a. /\ State = "CLAIMED" /\ State' = "IN_FLIGHT" /\ claimant' = Nobody
      /\ UNCHANGED <<Done, deferred, half, removal>>
      /\ Callback' = (t \notin Callers)
  BY DEF SendSubmit
<1>1. s \in Places \ {"inline", "take", "free"} /\ (s \in {"chain", "finish"} => t \in Dpcs)
      /\ (t \in Dpcs => s \notin {"idle", "take"})
      /\ (s # "rollback" => s = AfterSend(t, TRUE) /\ s \notin {"rollback", "take"})
  BY <1>0, AfterSendTyped DEF Places
<1>2. InHand = {} /\ \A u \in Owners : bus[u] = 0
  BY <1>a DEF InFlightSomewhere, Typed
<1>b. Owner(t) \in Owners /\ bus[Owner(t)] + 1 = 1
  BY <1>2, OwnerTyped
<1>3. Typed'
  <2>0. at' \in [Senders -> Places]
    BY <1>0, <1>1 DEF Typed
  <2>1. bus' \in [Owners -> 0..2]
    <3>1. bus' = bus \/ bus' = [bus EXCEPT ![Owner(t)] = 1]
      BY <1>0, <1>b
    <3> QED
      BY <3>1, <1>b DEF Typed
  <2>2. Callback' \in BOOLEAN
    BY <1>a, Zenon
  <2> QED
    BY <1>a, <1>0, <2>0, <2>1, <2>2 DEF Typed
<1>4. NothingInline' /\ PlacesOfDpcs'
  BY <1>0, <1>1 DEF NothingInline, PlacesOfDpcs, Typed
<1>5. CASE s = "rollback"
  <2>1. at[t] \notin {"rollback", "take"} /\ \A u \in Senders : at[u] \notin {"rollback", "take"}
    BY <1>2 DEF InHand
  <2>2. InHand' = {t}
    BY <1>0, <1>5, <2>1 DEF InHand, Typed
  <2>3. bus' = bus
    BY <1>0, <1>5, AfterSendTyped
  <2> QED
    BY <1>a, <2>2, <2>3, <1>2, <1>3, <1>4 DEF OneTransfer, InFlightSomewhere
<1>6. CASE s # "rollback"
  <2>1. \A u \in Senders : at[u] \notin {"rollback", "take"}
    BY <1>2 DEF InHand
  <2>2. InHand' = {}
    BY <1>0, <1>1, <1>6, <2>1 DEF InHand, Typed
  <2>3. bus' = [bus EXCEPT ![Owner(t)] = 1]
    BY <1>0, <1>b, <1>6
  <2> QED
    BY <1>a, <2>2, <2>3, <1>2, <1>3, <1>4, OwnerTyped DEF OneTransfer, InFlightSomewhere, Typed
<1> QED
  BY <1>5, <1>6

LEMMA SendInv ==
    ASSUME TransferInv, InlineFailures = FALSE, NEW t \in Senders, Send(t)
    PROVE  TransferInv'
<1> USE DEF TransferInv
<1>1. CASE SendSubmit(t)
  BY <1>1, SubmitInv
<1>2. CASE SendBusy(t) \/ SendRefused(t) \/ SendFail(t)
  <2>1. /\ State' \in {"FREE", "CLAIMED", "IN_FLIGHT"}
        /\ State' = "IN_FLIGHT" <=> State = "IN_FLIGHT"
        /\ claimant' \in Senders \cup {Nobody}
        /\ UNCHANGED <<Callback, Done, deferred, bus, completing, removal, half>>
    BY <1>2 DEF SendBusy, SendRefused, SendFail, VendorFail, slotVars, lockVars, Typed
  <2>2. /\ at[t] \in {"send", "fail"} 
        /\ at' = [at EXCEPT ![t] = AfterSend(t, FALSE)]
    BY <1>2 DEF SendBusy, SendRefused, SendFail, Goto
  <2>3. AfterSend(t, FALSE) \in Aside
        /\ (AfterSend(t, FALSE) \in {"chain", "free", "finish"} => t \in Dpcs)
        /\ (t \in Dpcs => AfterSend(t, FALSE) \notin {"idle", "take"})
    BY AfterSendTyped DEF Aside
  <2>4. /\ at' \in [Senders -> Places]
        /\ OneTransfer' /\ InFlightSomewhere'
        /\ \A u \in Senders : at'[u] # "inline"
        /\ \A u \in Senders : at'[u] \in {"take", "chain", "free", "finish"} => u \in Dpcs
    BY <2>1, <2>2, <2>3, MovesAside
  <2>5. \A d \in Dpcs : at'[d] \in {"idle", "take"} => at'[d] = at[d]
    BY <2>2, <2>3 DEF Senders, Typed
  <2>6. NothingInline' /\ PlacesOfDpcs'
    BY <2>1, <2>4, <2>5 DEF NothingInline, PlacesOfDpcs
  <2> QED
    BY <2>1, <2>4, <2>6 DEF Typed
<1>3. CASE SendRollback(t)
  <2> USE DEF SendRollback, Goto
  <2>1. State = "IN_FLIGHT" /\ InHand = {t}
    BY <1>3 DEF InHand, InFlightSomewhere, OneTransfer
  <2>2. InHand' = {} /\ \A u \in Owners : bus'[u] = 0
    BY <1>3, <2>1 DEF InHand, OneTransfer, Typed
  <2>3. Typed'
    <3>1. Callback' \in BOOLEAN
      BY <1>3, <2>1, Zenon
    <3> QED
      BY <1>3, <2>1, <3>1 DEF Typed, Places, lockVars
  <2>4. NothingInline' /\ PlacesOfDpcs'
    BY <1>3 DEF NothingInline, PlacesOfDpcs, Typed
  <2> QED
    BY <1>3, <2>1, <2>2, <2>3, <2>4 DEF OneTransfer, InFlightSomewhere
<1> QED
  BY <1>1, <1>2, <1>3 DEF Send

(***************************************************************************)
(* A caller or the core moves, perhaps with a claim on a free slot.        *)
(***************************************************************************)
LEMMA ThreadMoveInv ==
    ASSUME TransferInv, NEW t \in Senders \ Dpcs,
           NEW s \in {"idle", "claimed", "refused", "send", "waiting", "again", "returned"},
           at[t] \notin {"rollback", "take"}, at' = [at EXCEPT ![t] = s],
           State' = State \/ (State = "FREE" /\ State' = "CLAIMED"),
           claimant' \in Senders \cup {Nobody},
           Done' \in BOOLEAN, deferred' \in BOOLEAN, half' \in [Callers -> {1, 2}],
           UNCHANGED <<Callback, bus, completing, removal>>
    PROVE  TransferInv'
<1> USE DEF TransferInv
<1>1. /\ State' \in {"FREE", "CLAIMED", "IN_FLIGHT"}
      /\ State' = "IN_FLIGHT" <=> State = "IN_FLIGHT"
  BY DEF Typed
<1>2. s \in Aside /\ s \notin {"chain", "free", "finish"}
  BY DEF Aside, Places
<1>3. /\ at' \in [Senders -> Places]
      /\ OneTransfer' /\ InFlightSomewhere'
      /\ \A u \in Senders : at'[u] # "inline"
      /\ \A u \in Senders : at'[u] \in {"take", "chain", "free", "finish"} => u \in Dpcs
  BY <1>1, <1>2, MovesAside
<1>4. \A d \in Dpcs : at'[d] = at[d]
  BY DEF Senders, Typed
<1>5. NothingInline' /\ PlacesOfDpcs'
  BY <1>3, <1>4 DEF NothingInline, PlacesOfDpcs
<1> QED
  BY <1>1, <1>3, <1>5 DEF Typed

LEMMA CallerInv ==
    ASSUME TransferInv, NEW c \in Callers,
           CallerClaim(c) \/ CallerInitEvent(c) \/ CallerWoken(c) \/ CmdKeep(c)
    PROVE  TransferInv'
<1>0. c \in Senders \ Dpcs
  BY DistinctThreads DEF Senders
<1>1. Done' \in BOOLEAN /\ deferred' \in BOOLEAN
  BY Zenon DEF TransferInv, Typed, CallerClaim, CallerInitEvent, CallerWoken, CmdKeep
<1>2. half' \in [Callers -> {1, 2}]
  BY DEF TransferInv, Typed, CallerClaim, CallerInitEvent, CallerWoken, CmdKeep
<1>3. /\ State' = State \/ (State = "FREE" /\ State' = "CLAIMED")
      /\ claimant' \in Senders \cup {Nobody}
      /\ UNCHANGED <<Callback, bus, completing, removal>>
  BY <1>0 DEF TransferInv, Typed, CallerClaim, CallerInitEvent, CallerWoken, CmdKeep, TryClaim,
     slotVars, lockVars
<1>4. PICK s \in {"idle", "claimed", "refused", "send", "waiting", "again", "returned"} :
        at[c] \notin {"rollback", "take"} /\ at' = [at EXCEPT ![c] = s]
  BY DEF CallerClaim, Called, CallerInitEvent, CallerWoken, CmdKeep, TryClaim, Goto
<1> QED
  BY <1>0, <1>1, <1>2, <1>3, <1>4, ThreadMoveInv

LEMMA CoreInv ==
    ASSUME TransferInv, CoreClaim \/ CoreDefer \/ CoreNothingToSend
    PROVE  TransferInv'
<1>0. Core \in Senders \ Dpcs
  BY DistinctThreads DEF Senders
<1>1. Done' \in BOOLEAN /\ deferred' \in BOOLEAN
  BY Zenon DEF TransferInv, Typed, CoreClaim, CoreDefer, CoreNothingToSend
<1>2. half' \in [Callers -> {1, 2}]
  BY DEF TransferInv, Typed, CoreClaim, CoreDefer, CoreNothingToSend
<1>3. /\ State' = State \/ (State = "FREE" /\ State' = "CLAIMED")
      /\ claimant' \in Senders \cup {Nobody}
      /\ UNCHANGED <<Callback, bus, completing, removal>>
  BY <1>0 DEF TransferInv, Typed, CoreClaim, CoreDefer, CoreNothingToSend, TryClaim,
     slotVars, lockVars
<1>4. PICK s \in {"idle", "claimed", "refused", "send", "waiting", "again", "returned"} :
        at[Core] \notin {"rollback", "take"} /\ at' = [at EXCEPT ![Core] = s]
  BY DEF CoreClaim, CoreDefer, CoreNothingToSend, TryClaim, Goto
<1> QED
  BY <1>0, <1>1, <1>2, <1>3, <1>4, ThreadMoveInv

(***************************************************************************)
(* The bus gives a transfer back, and AdaptoidVendorComplete takes the     *)
(* slot for it: found IN_FLIGHT, because the transfer is where it is.      *)
(***************************************************************************)
LEMMA BusCompletesInv ==
    ASSUME TransferInv, NEW d \in Dpcs, NEW t \in Owners, BusCompletes(d, t)
    PROVE  TransferInv'
<1> USE DEF TransferInv, BusCompletes
<1>0. d \in Senders
  BY DEF Senders
<1>1. /\ bus[t] = 1 /\ \A u \in Owners \ {t} : bus[u] = 0
      /\ InHand = {} /\ State = "IN_FLIGHT"
  BY DEF OneTransfer, InFlightSomewhere, Typed
<1>2. bus' = [bus EXCEPT ![t] = 0] /\ \A u \in Owners : bus'[u] = 0
  BY <1>1 DEF Typed
<1>3. InHand' = {d}
  <2>1. \A u \in Senders : at[u] \notin {"rollback", "take"}
    BY <1>1 DEF InHand
  <2> QED
    BY <1>0, <2>1 DEF InHand, Typed
<1>4. \A e \in Dpcs : completing'[e].inside = completing[e].inside
                      /\ completing'[e].held = completing[e].held
  BY DEF Typed, Work
<1>5. completing' \in [Dpcs -> Work]
  BY DEF Typed, Work
<1>6. Typed'
  BY <1>0, <1>2, <1>5 DEF Typed, Places, slotVars, lockVars
<1>7. NothingInline' /\ PlacesOfDpcs'
  BY <1>0, <1>4 DEF NothingInline, PlacesOfDpcs, Typed
<1> QED
  BY <1>1, <1>2, <1>3, <1>6, <1>7 DEF OneTransfer, InFlightSomewhere, slotVars

LEMMA CompleteTakeInv ==
    ASSUME TransferInv, NEW d \in Dpcs, CompleteTake(d)
    PROVE  TransferInv' /\ at' = [at EXCEPT ![d] = "chain"]
<1> USE DEF TransferInv
<1>0. d \in Senders
  BY DEF Senders
<1>1. State = "IN_FLIGHT" /\ InHand = {d} /\ \A u \in Owners : bus[u] = 0
  BY <1>0 DEF CompleteTake, Goto, InHand, InFlightSomewhere, OneTransfer, Typed
<1>2. /\ at' = [at EXCEPT ![d] = "chain"] /\ State' = "CLAIMED" /\ claimant' = d
      /\ Callback' = FALSE
      /\ UNCHANGED <<Done, deferred, half, bus, removal>>
  BY <1>1 DEF CompleteTake, Goto
<1>3. InHand' = {}
  BY <1>0, <1>1, <1>2 DEF InHand, Typed
<1>4. completing' \in [Dpcs -> Work]
      /\ \A e \in Dpcs : completing'[e].inside = completing[e].inside
                         /\ (e # d => completing'[e] = completing[e])
  <2> DEFINE held == removal = "none"
             cb == State = "IN_FLIGHT" /\ Callback /\ held /\ completing[d].ok
             dropped == ~(State = "IN_FLIGHT")
  <2>1. completing' = [completing EXCEPT ![d].cb = cb, ![d].ok = FALSE,
                                         ![d].held = held, ![d].dropped = dropped]
    BY DEF CompleteTake
  <2>2. held \in BOOLEAN /\ cb \in BOOLEAN /\ dropped \in BOOLEAN /\ FALSE \in BOOLEAN
    BY Zenon
  <2> HIDE DEF held, cb, dropped
  <2>3. completing[d] \in Work
    BY DEF Typed
  <2> DEFINE w == [completing[d] EXCEPT !.cb = cb, !.ok = FALSE, !.held = held, !.dropped = dropped]
  <2>4. w \in Work /\ w.inside = completing[d].inside
    BY <2>2, <2>3 DEF Work
  <2>5. completing' = [completing EXCEPT ![d] = w]
    BY <2>1 DEF Typed
  <2> HIDE DEF w
  <2> QED
    BY <2>4, <2>5 DEF Typed
<1>5. Typed'
  <2>1. Callback' \in BOOLEAN
    BY <1>2, Zenon
  <2> QED
    BY <1>0, <1>2, <1>4, <2>1 DEF Typed, Places
<1>6. NothingInline' /\ PlacesOfDpcs'
  BY <1>0, <1>2, <1>4 DEF NothingInline, PlacesOfDpcs, Typed
<1> QED
  BY <1>1, <1>2, <1>3, <1>5, <1>6 DEF OneTransfer, InFlightSomewhere

(***************************************************************************)
(* The rest of a completion moves its processor aside.                     *)
(***************************************************************************)
LEMMA DpcMoveInv ==
    ASSUME TransferInv, NEW d \in Dpcs, NEW s \in {"send", "free", "finish", "idle"},
           at[d] \in {"chain", "free", "finish"}, at' = [at EXCEPT ![d] = s],
           State' \in {"FREE", "CLAIMED", "IN_FLIGHT"},
           State' = "IN_FLIGHT" <=> State = "IN_FLIGHT",
           claimant' \in Senders \cup {Nobody},
           Done' \in BOOLEAN, deferred' \in BOOLEAN,
           completing' \in [Dpcs -> Work],
           \A e \in Dpcs : completing'[e].inside = Nobody,
           \A e \in Dpcs \ {d} : completing'[e] = completing[e],
           s = "idle" => ~completing'[d].held,
           UNCHANGED <<Callback, bus, removal, half>>
    PROVE  TransferInv'
<1> USE DEF TransferInv
<1>0. d \in Senders
  BY DEF Senders
<1>1. s \in Aside
  BY DEF Aside, Places
<1>2. /\ at' \in [Senders -> Places]
      /\ OneTransfer' /\ InFlightSomewhere'
      /\ \A u \in Senders : at'[u] # "inline"
      /\ \A u \in Senders : at'[u] \in {"take", "chain", "free", "finish"} => u \in Dpcs
  BY <1>0, <1>1, MovesAside
<1>3. \A e \in Dpcs : at'[e] \in {"idle", "take"} => ~completing'[e].held
  <2> SUFFICES ASSUME NEW e \in Dpcs, at'[e] \in {"idle", "take"}
               PROVE  ~completing'[e].held
    OBVIOUS
  <2>1. CASE e = d
    BY <2>1, <1>0 DEF Typed
  <2>2. CASE e # d
    <3>1. at'[e] = at[e]
      BY <2>2 DEF Typed, Senders
    <3> QED
      BY <2>2, <3>1 DEF PlacesOfDpcs
  <2> QED
    BY <2>1, <2>2
<1>4. NothingInline' /\ PlacesOfDpcs'
  BY <1>2, <1>3 DEF NothingInline, PlacesOfDpcs
<1> QED
  BY <1>2, <1>4 DEF Typed

LEMMA CompleteChainInv ==
    ASSUME TransferInv, NEW d \in Dpcs, CompleteChain(d)
    PROVE  TransferInv' /\ \A e \in Dpcs : completing'[e].held = completing[e].held
<1> USE DEF TransferInv
<1>1. PICK s \in {"send", "free"} : at[d] = "chain" /\ at' = [at EXCEPT ![d] = s]
  BY DEF CompleteChain, Goto
<1>2. deferred' \in BOOLEAN /\ Done' \in BOOLEAN
  BY Zenon DEF CompleteChain, Typed
<1>3. UNCHANGED <<State, claimant, Callback, Done, bus, removal, half>>
  BY DEF CompleteChain, slotVars, lockVars
<1>4. PICK w \in Work : /\ completing' = [completing EXCEPT ![d] = w]
                        /\ w.inside = completing[d].inside /\ w.held = completing[d].held
  <2>0. completing[d] \in Work
    BY DEF Typed
  <2>1. CASE completing' = completing
    BY <2>0, <2>1 DEF Typed
  <2>2. CASE completing' = [completing EXCEPT ![d].cb = FALSE]
    <3> DEFINE w == [completing[d] EXCEPT !.cb = FALSE]
    <3>1. w \in Work /\ w.inside = completing[d].inside /\ w.held = completing[d].held
      BY <2>0 DEF Work
    <3> QED
      BY <2>2, <3>1 DEF Typed
  <2>3. CASE /\ completing' = [completing EXCEPT ![d].cb = FALSE, ![d].tries = @ + 1]
             /\ completing[d].tries < DeferredTries
    <3> DEFINE n == completing[d].tries + 1
               w == [completing[d] EXCEPT !.cb = FALSE, !.tries = n]
    <3>0. n \in 0..DeferredTries
      BY <2>0, <2>3, SlotConstants DEF Work
    <3>2. completing' = [completing EXCEPT ![d] = w]
      BY <2>0, <2>3 DEF Typed, Work
    <3> HIDE DEF n
    <3>1. w \in Work /\ w.inside = completing[d].inside /\ w.held = completing[d].held
      BY <2>0, <3>0 DEF Work
    <3> QED
      BY <3>1, <3>2
  <2> QED
    BY <2>1, <2>2, <2>3 DEF CompleteChain
<1>5. /\ completing' \in [Dpcs -> Work]
      /\ \A e \in Dpcs : completing'[e].inside = Nobody
      /\ \A e \in Dpcs \ {d} : completing'[e] = completing[e]
      /\ \A e \in Dpcs : completing'[e].held = completing[e].held
  BY <1>4 DEF Typed, NothingInline
<1>6. /\ State' \in {"FREE", "CLAIMED", "IN_FLIGHT"}
      /\ State' = "IN_FLIGHT" <=> State = "IN_FLIGHT"
      /\ claimant' \in Senders \cup {Nobody}
      /\ UNCHANGED <<Callback, bus, removal, half>>
  BY <1>3 DEF Typed
<1>7. s \in {"send", "free", "finish", "idle"} /\ s # "idle" /\ at[d] \in {"chain", "free", "finish"}
  BY <1>1
<1> QED
  BY <1>1, <1>2, <1>5, <1>6, <1>7, DpcMoveInv

LEMMA CompleteFreeInv ==
    ASSUME TransferInv, NEW d \in Dpcs, CompleteFree(d)
    PROVE  TransferInv'
<1> USE DEF TransferInv, CompleteFree, Goto, VendorFail
<1>1. /\ State' \in {"FREE", "CLAIMED", "IN_FLIGHT"}
      /\ State' = "IN_FLIGHT" <=> State = "IN_FLIGHT"
      /\ claimant' \in Senders \cup {Nobody}
      /\ UNCHANGED <<Callback, bus, removal, half, completing>>
  BY DEF Typed, lockVars
<1>2. Done' \in BOOLEAN /\ deferred' \in BOOLEAN
  BY Zenon DEF Typed
<1>3. completing' \in [Dpcs -> Work] /\ \A e \in Dpcs : completing'[e].inside = Nobody
  BY <1>1 DEF Typed, NothingInline
<1> QED
  BY <1>1, <1>2, <1>3, DpcMoveInv

LEMMA CompleteFinishInv ==
    ASSUME TransferInv, NEW d \in Dpcs, CompleteFinish(d)
    PROVE  TransferInv' /\ at' = [at EXCEPT ![d] = "idle"]
<1> USE DEF TransferInv
<1>1. at[d] = "finish" /\ at' = [at EXCEPT ![d] = "idle"]
  <2>1. at[d] = "finish" /\ at' = [t \in Senders |-> CASE t = d -> "idle"
                                 [] t = completing[d].inside -> "rollback"
                                 [] OTHER -> at[t]]
    BY DEF CompleteFinish
  <2>2. completing[d].inside \notin Senders
    BY DistinctThreads DEF NothingInline, Senders
  <2> QED
    BY <2>1, <2>2 DEF Typed
<1>2. NoWork \in Work /\ NoWork.inside = Nobody /\ ~NoWork.held
  BY SlotConstants DEF NoWork, Work
<1>3. /\ completing' \in [Dpcs -> Work]
      /\ \A e \in Dpcs : completing'[e].inside = Nobody
      /\ \A e \in Dpcs \ {d} : completing'[e] = completing[e]
      /\ ~completing'[d].held
  BY <1>2 DEF CompleteFinish, Typed, NothingInline
<1>4. Done' \in BOOLEAN /\ deferred' \in BOOLEAN
  BY Zenon DEF CompleteFinish, Typed
<1>5. /\ State' \in {"FREE", "CLAIMED", "IN_FLIGHT"}
      /\ State' = "IN_FLIGHT" <=> State = "IN_FLIGHT"
      /\ claimant' \in Senders \cup {Nobody}
      /\ UNCHANGED <<Callback, bus, removal, half>>
  BY DEF CompleteFinish, Typed, slotVars
<1> QED
  BY <1>1, <1>3, <1>4, <1>5, DpcMoveInv

LEMMA TransferNext ==
    ASSUME TransferInv, InlineFailures = FALSE, [Next]_vars
    PROVE  TransferInv'
<1>1. ASSUME NEW c \in Callers, CallerClaim(c) \/ Call(c) PROVE TransferInv'
  <2>1. c \in Senders
    BY DEF Senders
  <2> QED
    BY <1>1, <2>1, CallerInv, SendInv DEF Call
<1>2. CASE CoreClaim \/ CoreDefer \/ CoreNothingToSend
  BY <1>2, CoreInv
<1>3. CASE Send(Core) \/ Send(Tick)
  <2>1. Core \in Senders /\ Tick \in Senders
    BY DEF Senders
  <2> QED
    BY <1>3, <2>1, SendInv
<1>4. ASSUME NEW d \in Dpcs, Completion(d) PROVE TransferInv'
  <2>1. d \in Senders
    BY DEF Senders
  <2> QED
    BY <1>4, <2>1, CompleteTakeInv, CompleteChainInv, SendInv, CompleteFreeInv, CompleteFinishInv
       DEF Completion
<1>5. ASSUME NEW d \in Dpcs, NEW t \in Owners, BusCompletes(d, t) PROVE TransferInv'
  BY <1>5, BusCompletesInv
<1>6. CASE Remove
  BY <1>6 DEF Remove, slotVars, TransferInv, Typed, OneTransfer, InFlightSomewhere, InHand,
     NothingInline, PlacesOfDpcs
<1>7. CASE UNCHANGED vars
  BY <1>7 DEF vars, slotVars, lockVars, TransferInv, Typed, OneTransfer, InFlightSomewhere,
     InHand, NothingInline, PlacesOfDpcs
<1> QED
  BY <1>1, <1>2, <1>3, <1>4, <1>5, <1>6, <1>7 DEF Next

--------------------------------------------------------------------------------
(* The references *)

LEMMA SetsFinite ==
    /\ IsFiniteSet(Outstanding) /\ IsFiniteSet(Undone) /\ IsFiniteSet(Busy)
    /\ IsFiniteSet(Querying) /\ IsFiniteSet(Held)
<1>1. IsFiniteSet({Core, Tick}) /\ IsFiniteSet({Core})
  <2>1. IsFiniteSet({Core}) /\ IsFiniteSet({Tick})
    BY FS_Singleton
  <2>2. {Core, Tick} = {Core} \cup {Tick}
    OBVIOUS
  <2> QED
    BY <2>1, <2>2, FS_Union
<1>2. IsFiniteSet(Callers \cup Dpcs)
  BY DistinctThreads, FS_Union
<1>3. IsFiniteSet(Senders) /\ IsFiniteSet(Owners)
  BY <1>1, <1>2, DistinctThreads, FS_Union DEF Senders, Owners
<1>4. /\ Outstanding \subseteq Owners /\ Undone \subseteq Senders /\ Busy \subseteq Dpcs
      /\ Querying \subseteq Callers /\ Held \subseteq Dpcs
  BY DEF Outstanding, Undone, Busy, Querying, Held
<1> QED
  BY <1>3, <1>4, DistinctThreads, FS_Subset

LEMMA CountsTyped ==
    /\ Cardinality(Outstanding) \in Nat /\ Cardinality(Undone) \in Nat
    /\ Cardinality(Busy) \in Nat /\ Cardinality(Querying) \in Nat /\ Cardinality(Held) \in Nat
  BY SetsFinite, FS_CardinalityType

(***************************************************************************)
(* What a move of one sender does to the sets that are counted.            *)
(***************************************************************************)
LEMMA MovedSets ==
    ASSUME Typed, NEW t \in Senders, NEW s, at' = [at EXCEPT ![t] = s]
    PROVE  /\ Undone' = IF s \in {"rollback", "fail"} THEN Undone \cup {t} ELSE Undone \ {t}
           /\ t \notin Dpcs => Busy' = Busy
           /\ t \in Dpcs => Busy' = IF s = "idle" THEN Busy \ {t} ELSE Busy \cup {t}
           /\ t \notin Callers \/ Kind[t] # "query" => Querying' = Querying
           /\ t \in Callers /\ Kind[t] = "query" =>
                 Querying' = IF s \in {"idle", "returned"} THEN Querying \ {t} ELSE Querying \cup {t}
<1>1. Undone' = IF s \in {"rollback", "fail"} THEN Undone \cup {t} ELSE Undone \ {t}
  BY DEF Typed, Undone
<1>2. /\ t \notin Dpcs => Busy' = Busy
      /\ t \in Dpcs => Busy' = IF s = "idle" THEN Busy \ {t} ELSE Busy \cup {t}
  BY DEF Typed, Busy, Senders
<1>3. /\ t \notin Callers \/ Kind[t] # "query" => Querying' = Querying
      /\ t \in Callers /\ Kind[t] = "query" =>
            Querying' = IF s \in {"idle", "returned"} THEN Querying \ {t} ELSE Querying \cup {t}
  BY DEF Typed, Querying, Senders
<1> QED
  BY <1>1, <1>2, <1>3

LEMMA KeptSets ==
    ASSUME Typed, NEW t \in Senders, NEW s, at' = [at EXCEPT ![t] = s],
           t \in Dpcs => (at[t] = "idle" <=> s = "idle"),
           t \in Callers /\ Kind[t] = "query" =>
               (at[t] \in {"idle", "returned"} <=> s \in {"idle", "returned"})
    PROVE  Busy' = Busy /\ Querying' = Querying
  BY DEF Typed, Busy, Querying, Senders

LEMMA SameCounts ==
    ASSUME CountInv, Outstanding' = Outstanding, Undone' = Undone, Busy' = Busy,
           Querying' = Querying, Held' = Held, refsA' = refsA, refsB' = refsB
    PROVE  CountInv'
  BY DEF CountInv, ReferencePerTransfer, ReferencesOnA

LEMMA SendCount ==
    ASSUME TransferInv, CountInv, InlineFailures = FALSE, NEW t \in Senders, Send(t)
    PROVE  CountInv'
<1> USE DEF TransferInv
<1>0. /\ Held' = Held /\ refsA' = refsA
  BY DEF Send, SendSubmit, SendBusy, SendRefused, SendRollback, SendFail, Held, lockVars
<1>3. \A ok \in BOOLEAN : /\ AfterSend(t, ok) \notin {"rollback", "fail"}
                          /\ t \in Dpcs => AfterSend(t, ok) # "idle"
                          /\ t \in Callers /\ Kind[t] = "query"
                                => AfterSend(t, ok) \notin {"idle", "returned"}
  BY DistinctThreads DEF AfterSend, Senders
<1>4. CASE SendSubmit(t)
  <2>0. at[t] = "send" /\ t \notin Undone /\ refsB' = refsB + 1 /\ Owner(t) \in Owners
    BY <1>4, OwnerTyped DEF SendSubmit, Undone
  <2>1. Outstanding = {}
    BY <1>4 DEF SendSubmit, InFlightSomewhere, Outstanding, Typed
  <2>2. CASE at' = [at EXCEPT ![t] = AfterSend(t, TRUE)] /\ bus' = [bus EXCEPT ![Owner(t)] = @ + 1]
    <3>0. Busy' = Busy /\ Querying' = Querying
      BY <2>0, <2>2, <1>3, KeptSets
    <3>1. Undone' = Undone
      BY <2>0, <2>2, <1>3 DEF Undone, Typed
    <3>2. Outstanding' = Outstanding \cup {Owner(t)} /\ Owner(t) \notin Outstanding
      BY <2>0, <2>1, <2>2 DEF Outstanding, Typed
    <3>3. Cardinality(Outstanding') = Cardinality(Outstanding) + 1
      BY <3>2, SetsFinite, FS_AddElement
    <3> QED
      BY <1>0, <2>0, <3>0, <3>1, <3>3, CountsTyped
         DEF CountInv, ReferencePerTransfer, ReferencesOnA
  <2>3. CASE at' = [at EXCEPT ![t] = "rollback"] /\ bus' = bus
    <3>0. Busy' = Busy /\ Querying' = Querying
      BY <2>0, <2>3, KeptSets
    <3>1. Undone' = Undone \cup {t}
      BY <2>3, MovedSets
    <3>2. Outstanding' = Outstanding
      BY <2>3 DEF Outstanding
    <3>3. Cardinality(Undone') = Cardinality(Undone) + 1
      BY <3>1, <2>0, SetsFinite, FS_AddElement
    <3> QED
      BY <1>0, <2>0, <3>0, <3>1, <3>2, <3>3, CountsTyped
         DEF CountInv, ReferencePerTransfer, ReferencesOnA
  <2> QED
    BY <1>4, <2>2, <2>3 DEF SendSubmit
<1>5. CASE SendBusy(t) \/ SendRefused(t) \/ SendRollback(t)
  <2>1. PICK s : /\ at' = [at EXCEPT ![t] = s]
                 /\ \/ at[t] = "send" /\ s = AfterSend(t, FALSE)
                    \/ at[t] = "rollback" /\ s = "fail"
    BY <1>5 DEF SendBusy, SendRefused, SendRollback, Goto
  <2>2. Undone' = Undone /\ Busy' = Busy /\ Querying' = Querying
    <3>1. Busy' = Busy /\ Querying' = Querying
      BY <2>1, <1>3, KeptSets
    <3>2. Undone' = Undone
      BY <2>1, <1>3 DEF Undone, Typed
    <3> QED
      BY <3>1, <3>2
  <2>3. Outstanding' = Outstanding /\ refsB' = refsB
    BY <1>5 DEF SendBusy, SendRefused, SendRollback, Outstanding, lockVars
  <2> QED
    BY <1>0, <2>2, <2>3, SameCounts
<1>6. CASE SendFail(t)
  <2>0. at[t] = "fail" /\ t \in Undone /\ refsB' = refsB - 1 /\ Outstanding' = Outstanding
        /\ at' = [at EXCEPT ![t] = AfterSend(t, FALSE)]
    BY <1>6 DEF SendFail, Goto, Undone, Outstanding
  <2>1. Undone' = Undone \ {t}
    BY <2>0, <1>3 DEF Undone, Typed
  <2>3. Busy' = Busy /\ Querying' = Querying
    BY <2>0, <1>3, KeptSets
  <2>2. Cardinality(Undone') = Cardinality(Undone) - 1
    BY <2>0, <2>1, SetsFinite, FS_RemoveElement
  <2> QED
    BY <1>0, <2>0, <2>1, <2>2, <2>3, CountsTyped
       DEF CountInv, ReferencePerTransfer, ReferencesOnA
<1> QED
  BY <1>4, <1>5, <1>6 DEF Send

(***************************************************************************)
(* A query takes its references on both locks with its claim and gives     *)
(* them back when it is woken; the other moves of a caller keep them.      *)
(***************************************************************************)
LEMMA CallerCount ==
    ASSUME TransferInv, CountInv, NEW c \in Callers,
           CallerClaim(c) \/ CallerInitEvent(c) \/ CallerWoken(c) \/ CmdKeep(c)
    PROVE  CountInv'
<1> USE DEF TransferInv
<1>0. c \in Senders /\ c \notin Dpcs
  BY DistinctThreads DEF Senders
<1>1. Held' = Held /\ Outstanding' = Outstanding
  BY DEF CallerClaim, CallerInitEvent, CallerWoken, CmdKeep, Held, Outstanding
<1>2. PICK s \in {"claimed", "returned", "send", "again"} :
        at' = [at EXCEPT ![c] = s] /\ at[c] \in {"idle", "returned", "claimed", "waiting", "again"}
  BY DEF CallerClaim, Called, CallerInitEvent, CallerWoken, CmdKeep, TryClaim, Goto
<1>3. Undone' = Undone
  BY <1>0, <1>2 DEF Undone, Typed
<1>4. Busy' = Busy
  BY <1>0, <1>2, MovedSets
<1>5. CASE Kind[c] = "query" /\ CallerClaim(c) /\ State = "FREE"
  <2>1. /\ at[c] \in {"idle", "returned"} /\ at' = [at EXCEPT ![c] = "claimed"]
        /\ refsA' = refsA + 1 /\ refsB' = refsB + 1
    BY <1>5 DEF CallerClaim, Called, TryClaim, Goto
  <2>2. Querying' = Querying \cup {c} /\ c \notin Querying
    BY <1>5, <2>1, <1>0 DEF Querying, Typed
  <2>3. Cardinality(Querying') = Cardinality(Querying) + 1
    BY <2>2, SetsFinite, FS_AddElement
  <2> QED
    BY <1>1, <1>3, <1>4, <2>1, <2>3, CountsTyped
       DEF CountInv, ReferencePerTransfer, ReferencesOnA
<1>6. CASE Kind[c] = "query" /\ CallerWoken(c)
  <2>1. /\ at[c] = "waiting" /\ at' = [at EXCEPT ![c] = "returned"]
        /\ refsA' = refsA - 1 /\ refsB' = refsB - 1
    BY <1>6 DEF CallerWoken, Goto
  <2>2. Querying' = Querying \ {c} /\ c \in Querying
    BY <1>6, <2>1, <1>0 DEF Querying, Typed
  <2>3. Cardinality(Querying') = Cardinality(Querying) - 1
    BY <2>2, SetsFinite, FS_RemoveElement
  <2> QED
    BY <1>1, <1>3, <1>4, <2>1, <2>3, CountsTyped
       DEF CountInv, ReferencePerTransfer, ReferencesOnA
<1>7. CASE \/ Kind[c] # "query"
           \/ CallerClaim(c) /\ State # "FREE"
           \/ CallerInitEvent(c) \/ CmdKeep(c)
  <2>1. refsA' = refsA /\ refsB' = refsB
    BY <1>7 DEF CallerClaim, CallerInitEvent, CallerWoken, CmdKeep, lockVars, TryClaim, Goto
  <2>2. Kind[c] = "query" => (at[c] \in {"idle", "returned"} <=> s \in {"idle", "returned"})
    BY <1>7, <1>2, <1>0 DEF CallerClaim, Called, CallerInitEvent, CmdKeep, TryClaim, Goto, Typed
  <2>3. Querying' = Querying
    BY <1>0, <1>2, <2>2, KeptSets
  <2> QED
    BY <1>1, <1>3, <1>4, <2>1, <2>3, SameCounts
<1> QED
  BY <1>5, <1>6, <1>7

LEMMA CoreCount ==
    ASSUME TransferInv, CountInv, CoreClaim \/ CoreDefer \/ CoreNothingToSend
    PROVE  CountInv'
<1>0. Core \in Senders /\ Core \notin Dpcs /\ Core \notin Callers
  BY DistinctThreads DEF Senders
<1>1. Held' = Held /\ Outstanding' = Outstanding /\ refsA' = refsA /\ refsB' = refsB
  BY DEF CoreClaim, CoreDefer, CoreNothingToSend, Held, Outstanding, lockVars
<1>2. PICK s \in {"claimed", "refused", "send", "idle"} :
        at' = [at EXCEPT ![Core] = s] /\ at[Core] \in {"idle", "claimed", "refused"}
  BY DEF CoreClaim, CoreDefer, CoreNothingToSend, TryClaim, Goto
<1>3. Undone' = Undone
  BY <1>0, <1>2 DEF Undone, Typed, TransferInv
<1>4. Busy' = Busy /\ Querying' = Querying
  BY <1>0, <1>2, KeptSets DEF TransferInv
<1> QED
  BY <1>1, <1>3, <1>4, SameCounts

LEMMA BusCompletesCount ==
    ASSUME TransferInv, CountInv, NEW d \in Dpcs, NEW t \in Owners, BusCompletes(d, t)
    PROVE  CountInv'
<1> USE DEF TransferInv, BusCompletes
<1>0. d \in Senders /\ d \notin Callers
  BY DistinctThreads DEF Senders
<1>1. Outstanding' = Outstanding \ {t} /\ t \in Outstanding
  BY DEF Outstanding, OneTransfer, Typed
<1>2. Busy' = Busy \cup {d} /\ d \notin Busy
  BY <1>0 DEF Busy, Typed
<1>3. Undone' = Undone /\ Querying' = Querying
  BY <1>0 DEF Undone, Querying, Typed, Senders
<1>4. Held' = Held /\ refsA' = refsA /\ refsB' = refsB
  BY DEF Held, Typed, Work, lockVars
<1>5. /\ Cardinality(Outstanding') = Cardinality(Outstanding) - 1
      /\ Cardinality(Busy') = Cardinality(Busy) + 1
  BY <1>1, <1>2, SetsFinite, FS_AddElement, FS_RemoveElement
<1> QED
  BY <1>3, <1>4, <1>5, CountsTyped DEF CountInv, ReferencePerTransfer, ReferencesOnA

(***************************************************************************)
(* AdaptoidVendorComplete holds RemoveLockA, if it is open, from its first *)
(* section to its end, where the transfer's RemoveLockB reference goes.    *)
(***************************************************************************)
LEMMA CompleteCount ==
    ASSUME TransferInv, CountInv, NEW d \in Dpcs,
           CompleteTake(d) \/ CompleteChain(d) \/ CompleteFree(d) \/ CompleteFinish(d)
    PROVE  CountInv'
<1> USE DEF TransferInv
<1>0. d \in Senders /\ d \notin Callers
  BY DistinctThreads DEF Senders
<1>1. Outstanding' = Outstanding
  BY DEF CompleteTake, CompleteChain, CompleteFree, CompleteFinish, Outstanding
<1>2. CASE CompleteTake(d)
  <2>1. at[d] = "take" /\ at' = [at EXCEPT ![d] = "chain"]
    BY <1>2, CompleteTakeInv DEF CompleteTake, Goto
  <2>2. Busy' = Busy /\ Querying' = Querying /\ Undone' = Undone
    BY <2>1, <1>0 DEF Busy, Querying, Undone, Typed, Senders
  <2>3. /\ refsB' = refsB
        /\ refsA' = IF removal = "none" THEN refsA + 1 ELSE refsA
    BY <1>2 DEF CompleteTake
  <2>4. d \notin Held
    BY <2>1 DEF Held, PlacesOfDpcs
  <2>5. Held' = IF removal = "none" THEN Held \cup {d} ELSE Held
    <3>1. completing'[d].held <=> removal = "none"
      BY <1>2 DEF CompleteTake, Typed, Work
    <3>2. \A e \in Dpcs \ {d} : completing'[e] = completing[e]
      BY <1>2 DEF CompleteTake, Typed
    <3> QED
      BY <3>1, <3>2, <2>4 DEF Held
  <2>6. removal = "none" => Cardinality(Held') = Cardinality(Held) + 1
    BY <2>4, <2>5, SetsFinite, FS_AddElement
  <2> QED
    BY <1>1, <2>2, <2>3, <2>5, <2>6, CountsTyped
       DEF CountInv, ReferencePerTransfer, ReferencesOnA
<1>3. CASE CompleteChain(d) \/ CompleteFree(d)
  <2>1. PICK s \in {"send", "free", "finish"} :
          at[d] \in {"chain", "free"} /\ at' = [at EXCEPT ![d] = s]
    BY <1>3 DEF CompleteChain, CompleteFree, Goto
  <2>2. Busy' = Busy /\ Querying' = Querying /\ Undone' = Undone
    BY <2>1, <1>0 DEF Busy, Querying, Undone, Typed, Senders
  <2>3. refsA' = refsA /\ refsB' = refsB
    BY <1>3 DEF CompleteChain, CompleteFree, lockVars
  <2>4. Held' = Held
    BY <1>3, CompleteChainInv DEF Held, CompleteFree
  <2> QED
    BY <1>1, <2>2, <2>3, <2>4, SameCounts
<1>4. CASE CompleteFinish(d)
  <2>1. at[d] = "finish" /\ at' = [at EXCEPT ![d] = "idle"]
    BY <1>4, CompleteFinishInv DEF CompleteFinish
  <2>2. Busy' = Busy \ {d} /\ d \in Busy /\ Querying' = Querying /\ Undone' = Undone
    BY <2>1, <1>0 DEF Busy, Querying, Undone, Typed, Senders
  <2>3. Cardinality(Busy') = Cardinality(Busy) - 1
    BY <2>2, SetsFinite, FS_RemoveElement
  <2>4. /\ refsB' = refsB - 1
        /\ refsA' = IF d \in Held THEN refsA - 1 ELSE refsA
    BY <1>4 DEF CompleteFinish, Held
  <2>5. Held' = Held \ {d}
    BY <1>4 DEF CompleteFinish, Held, NoWork, Typed
  <2>6. Cardinality(Held') = IF d \in Held THEN Cardinality(Held) - 1 ELSE Cardinality(Held)
    BY <2>5, SetsFinite, FS_RemoveElement
  <2> QED
    BY <1>1, <2>2, <2>3, <2>4, <2>6, CountsTyped
       DEF CountInv, ReferencePerTransfer, ReferencesOnA
<1> QED
  BY <1>2, <1>3, <1>4

LEMMA CountInit == Init => CountInv
<1> SUFFICES ASSUME Init PROVE CountInv
  OBVIOUS
<1> USE DistinctThreads DEF Init
<1>1. at \in [Senders -> {"idle", "send", "returned"}]
  BY DEF Senders
<1>2. \A d \in Dpcs : at[d] = "idle"
  BY DEF Senders
<1>3. \A c \in Callers : at[c] \in {"idle", "returned"}
  BY DEF Senders
<1>4. Outstanding = {} /\ Undone = {} /\ Busy = {} /\ Querying = {} /\ Held = {}
  BY <1>1, <1>2, <1>3 DEF Outstanding, Undone, Busy, Querying, Held, NoWork
<1> QED
  BY <1>4, FS_EmptySet DEF CountInv, ReferencePerTransfer, ReferencesOnA

LEMMA CountNext ==
    ASSUME TransferInv, CountInv, InlineFailures = FALSE, [Next]_vars
    PROVE  CountInv'
<1>1. Callers \subseteq Senders /\ Dpcs \subseteq Senders /\ Core \in Senders /\ Tick \in Senders
  BY DEF Senders
<1>2. CASE \E t \in Senders : Send(t)
  BY <1>2, SendCount
<1>3. CASE \E c \in Callers : CallerClaim(c) \/ CallerInitEvent(c) \/ CallerWoken(c) \/ CmdKeep(c)
  BY <1>3, CallerCount
<1>4. CASE CoreClaim \/ CoreDefer \/ CoreNothingToSend
  BY <1>4, CoreCount
<1>5. CASE \E d \in Dpcs : CompleteTake(d) \/ CompleteChain(d) \/ CompleteFree(d) \/ CompleteFinish(d)
  BY <1>5, CompleteCount
<1>6. CASE \E d \in Dpcs, t \in Owners : BusCompletes(d, t)
  BY <1>6, BusCompletesCount
<1>7. CASE Remove \/ UNCHANGED vars
  <2>1. /\ Outstanding' = Outstanding /\ Undone' = Undone /\ Busy' = Busy /\ Querying' = Querying
        /\ Held' = Held /\ refsA' = refsA /\ refsB' = refsB
    BY <1>7 DEF Remove, vars, lockVars, Outstanding, Undone, Busy, Querying, Held
  <2> QED
    BY <2>1, SameCounts
<1> QED
  BY <1>1, <1>2, <1>3, <1>4, <1>5, <1>6, <1>7 DEF Next, Call, Completion

--------------------------------------------------------------------------------
(* The theorems *)

(***************************************************************************)
(* The inductive invariant.  InlineFailures = FALSE is needed: a transfer  *)
(* that is completed with an error inside IoCallDriver frees the slot      *)
(* before AdaptoidVendorSend rolls it back, so the rollback can undo the   *)
(* transfer of somebody who claimed the slot in between.                   *)
(***************************************************************************)
THEOREM SlotInvariant ==
    ASSUME InlineFailures = FALSE
    PROVE  Spec => []SlotInv
<1>1. Init => SlotInv
  BY TransferInit, CountInit DEF SlotInv
<1>2. SlotInv /\ [Next]_vars => SlotInv'
  BY TransferNext, CountNext DEF SlotInv
<1> QED
  BY <1>1, <1>2, PTL DEF Spec

(***************************************************************************)
(* IN_FLIGHT says what the bus says, for any number of callers and         *)
(* processors: the slot is IN_FLIGHT exactly while one transfer is out,    *)
(* about to be taken by its completion, or about to be rolled back.        *)
(***************************************************************************)
THEOREM SlotMatchesBusHolds ==
    ASSUME InlineFailures = FALSE
    PROVE  Spec => []SlotMatchesBus
<1>1. SlotInv => SlotMatchesBus
  <2> SUFFICES ASSUME TransferInv PROVE SlotMatchesBus
    BY DEF SlotInv
  <2> DEFINE Taking == {d \in Dpcs : at[d] = "take"}
             All == Outstanding \cup Undoing \cup Taking
  <2>1. Undoing \cup Taking = InHand
    BY DEF TransferInv, NothingInline, PlacesOfDpcs, Undoing, InHand, Senders
  <2>2. \A t, u \in All : t = u
    BY <2>1 DEF TransferInv, OneTransfer, Outstanding
  <2>3. State = "IN_FLIGHT" <=> All # {}
    BY <2>1 DEF TransferInv, InFlightSomewhere, Outstanding
  <2>4. Cardinality(All) <= 1
    <3>1. CASE All = {}
      BY <3>1, FS_EmptySet
    <3>2. CASE All # {}
      <4>1. PICK t : t \in All
        BY <3>2
      <4>2. All = {t}
        BY <4>1, <2>2
      <4> QED
        BY <4>2, FS_Singleton
    <3> QED
      BY <3>1, <3>2
  <2> QED
    BY <2>3, <2>4 DEF SlotMatchesBus
<1> QED
  BY <1>1, SlotInvariant, PTL

(***************************************************************************)
(* RemoveLockB holds one reference for each transfer, from its submission  *)
(* to the end of its completion or rollback, and one for each START that   *)
(* is querying, so REMOVE gets past the lock only when there is none; and  *)
(* neither lock's count goes below zero (TypeOK).                          *)
(***************************************************************************)
THEOREM ReferencePerTransferHolds ==
    ASSUME InlineFailures = FALSE
    PROVE  Spec => [](TypeOK /\ ReferencePerTransfer)
<1>1. SlotInv => TypeOK /\ ReferencePerTransfer
  <2> SUFFICES ASSUME SlotInv PROVE TypeOK /\ ReferencePerTransfer
    OBVIOUS
  <2>1. refsA \in Nat /\ refsB \in Nat
    BY CountsTyped DEF SlotInv, CountInv, ReferencePerTransfer, ReferencesOnA
  <2> QED
    BY <2>1 DEF SlotInv, TransferInv, CountInv, Typed, TypeOK, Places, Work
<1> QED
  BY <1>1, SlotInvariant, PTL
================================================================================

---------------------------- MODULE PollEngineProof ----------------------------
(***************************************************************************)
(* Proofs about PollEngine for any number of processors, IRPs, starts,     *)
(* failures and tries.  Two invariants carry them: each slot is in one     *)
(* hand at a time (SlotInv), and RemoveLockB counts the restarts           *)
(* (RestartInv).                                                           *)
(***************************************************************************)
EXTENDS PollEngine, SequenceTheorems, TLAPS

Ops == Reasons \cup {"abort", "unconfigure", "close", "unwire"}

Places == {"idle", "complete", "resubmit", "stop", "cancel", "settle",
           "stopped", "run", "aborting", "submit", "recover", "release"}

ThreadStates ==
    [at : Places, todo : Seq(Ops), cancel : [Slots -> Irps \cup {NoIrp}],
     submit : SUBSET Slots, slot : Slots \cup {NoSlot}, ok : BOOLEAN,
     last : BOOLEAN, tries : 0..RecoverTries]

PoolStates == [at : {"free", "bus", "cancelled", "done"}, slot : Slots \cup {NoSlot}]

(* What a thread has in its hands where it is, and where the worker can be. *)
Shape(t, w) ==
    /\ w.at = "submit" => w.submit # {}
    /\ w.at = "recover" => w.tries > 0
    /\ w.at \in {"complete", "resubmit", "stop"} => w.slot \in Slots
    /\ t = Worker => w.at \in {"idle", "recover", "submit", "release"}

TypeInv ==
    /\ TypeOK
    /\ th \in [Threads -> ThreadStates]
    /\ \A t \in Threads : Shape(t, th[t])
    /\ \A p \in Irps : OnBus(p) => pool[p].slot \in Slots

(* One step replaces the record of one thread. *)
Becomes(t, w) == th' = [th EXCEPT ![t] = w] /\ w \in ThreadStates /\ Shape(t, w)

--------------------------------------------------------------------------------
(* Types *)

LEMMA IdleTyped == IdleThread \in ThreadStates /\ \A t : Shape(t, IdleThread)
BY PollConstants, EmptySeq DEF IdleThread, ThreadStates, Shape, Places, NoCancel

LEMMA OnwardTyped ==
    ASSUME NEW t \in Threads, NEW r \in ThreadStates
    PROVE  Onward(t, r) \in ThreadStates /\ Shape(t, Onward(t, r))
<1>0. IdleThread \in ThreadStates /\ Shape(t, IdleThread)
  BY IdleTyped
<1>1. CASE t \in Dpcs
  <2>1. Onward(t, r) = [r EXCEPT !.at = "stopped"]
    BY <1>1 DEF Onward
  <2>2. t # Worker
    BY <1>1, DistinctThreads
  <2> QED
    BY <2>1, <2>2 DEF ThreadStates, Shape, Places
<1>2. CASE t \notin Dpcs /\ t = Worker
  <2>1. Onward(t, r) = [r EXCEPT !.at = "release"]
    BY <1>2 DEF Onward
  <2> QED
    BY <2>1 DEF ThreadStates, Shape, Places
<1>3. CASE t \notin Dpcs /\ t # Worker /\ Len(r.todo) > 1
  <2>1. Tail(r.todo) \in Seq(Ops)
    BY <1>3, HeadTailProperties DEF ThreadStates
  <2>2. Onward(t, r) = [r EXCEPT !.at = "run", !.todo = Tail(@)]
    BY <1>3 DEF Onward
  <2> QED
    BY <1>3, <2>1, <2>2 DEF ThreadStates, Shape, Places
<1>4. CASE t \notin Dpcs /\ t # Worker /\ ~(Len(r.todo) > 1)
  BY <1>0, <1>4 DEF Onward
<1> QED
  BY <1>1, <1>2, <1>3, <1>4

LEMMA DoneBecomes ==
    ASSUME TypeInv, NEW t \in Threads, Done(t)
    PROVE  Becomes(t, Onward(t, th[t]))
<1>1. th[t] \in ThreadStates
  BY DEF TypeInv
<1> QED
  BY <1>1, OnwardTyped DEF Done, Becomes

LEMMA StartBecomes ==
    ASSUME TypeInv, NEW t \in Threads, NEW reason, PollStart(t, reason)
    PROVE  \E w : Becomes(t, w)
<1> DEFINE out == {i \in Slots : ~Active[i]}
           w == [th[t] EXCEPT !.at = "submit", !.submit = out]
<1>1. CASE Done(t)
  BY <1>1, DoneBecomes
<1>2. CASE ~Done(t)
  <2>1. out # {} /\ th' = [th EXCEPT ![t].at = "submit", ![t].submit = out]
    BY <1>2, Zenon DEF PollStart
  <2>2. th' = [th EXCEPT ![t] = w]
    BY <2>1 DEF TypeInv
  <2>3. w \in ThreadStates /\ Shape(t, w)
    BY <2>1 DEF TypeInv, ThreadStates, Shape, Places
  <2> QED
    BY <2>2, <2>3 DEF Becomes
<1> QED
  BY <1>1, <1>2

LEMMA StopBecomes ==
    ASSUME TypeInv, NEW t \in Threads, t # Worker, NEW reasons, NEW s, PollStop(t, reasons, s)
    PROVE  \E w : Becomes(t, w)
<1> DEFINE taken == {i \in Slots : (Active[i] /\ i # s) /\ ~CancelLatch[i]}
           cancel == [i \in Slots |-> IF i \in taken THEN Irp[i] ELSE NoIrp]
           last == s # NoSlot /\ Irp[Other(s)] = NoIrp
           r == [th[t] EXCEPT !.at = "cancel", !.cancel = cancel, !.last = last]
           w == IF cancel = NoCancel THEN Onward(t, r) ELSE r
<1>1. th' = [th EXCEPT ![t] = w]
  BY DEF PollStop
<1>2. cancel \in [Slots -> Irps \cup {NoIrp}]
  BY DEF TypeInv, TypeOK
<1>3. last \in BOOLEAN
  OBVIOUS
<1> HIDE DEF cancel, last
<1>4. r \in ThreadStates /\ Shape(t, r)
  <2>1. th[t] \in ThreadStates
    BY DEF TypeInv
  <2>2. r \in ThreadStates
    BY <1>2, <1>3, <2>1 DEF ThreadStates, Places
  <2>3. r.at = "cancel"
    BY <2>1 DEF ThreadStates
  <2> HIDE DEF r
  <2> QED
    BY <2>2, <2>3 DEF Shape
<1> HIDE DEF r
<1>5. w \in ThreadStates /\ Shape(t, w)
  BY <1>4, OnwardTyped
<1> QED
  BY <1>1, <1>5 DEF Becomes

(* The steps of a thread, whichever it is. *)
LEMMA ThreadsDiffer ==
    /\ Worker \in Threads /\ Pnp \in Threads /\ Power \in Threads
    /\ \A t \in Dpcs \cup {Pnp, Power} : t \in Threads /\ t # Worker
    /\ \A t \in Dpcs \cup {Power} : t # Pnp
BY DistinctThreads DEF Threads, Clients

LEMMA StopStepBecomes ==
    ASSUME TypeInv, NEW t \in Threads, t # Worker, InStop(t)
    PROVE  \E w : Becomes(t, w)
<1>1. CASE StopCancel(t)
  <2> DEFINE w == [th[t] EXCEPT !.at = "settle"]
  <2>1. th' = [th EXCEPT ![t] = w]
    BY <1>1 DEF StopCancel, Goto, TypeInv
  <2>2. w \in ThreadStates /\ Shape(t, w)
    <3>1. th[t] \in ThreadStates
      BY DEF TypeInv
    <3>2. w \in ThreadStates
      BY <3>1 DEF ThreadStates, Places
    <3>3. w.at = "settle"
      BY <3>1 DEF ThreadStates
    <3> HIDE DEF w
    <3> QED
      BY <3>2, <3>3 DEF Shape
  <2> QED
    BY <2>1, <2>2 DEF Becomes
<1>2. CASE StopSettle(t)
  <2> DEFINE r == [th[t] EXCEPT !.cancel = NoCancel]
  <2>1. th' = [th EXCEPT ![t] = Onward(t, r)]
    BY <1>2 DEF StopSettle
  <2>2. NoCancel \in [Slots -> Irps \cup {NoIrp}]
    BY DEF NoCancel
  <2>3. r \in ThreadStates
    BY <2>2 DEF TypeInv, ThreadStates
  <2> QED
    BY <2>1, <2>3, OnwardTyped DEF Becomes
<1> QED
  BY <1>1, <1>2 DEF InStop

(* The slot AdaptoidPollStart submits next. *)
NextSubmit(t) == CHOOSE i \in th[t].submit : \A j \in th[t].submit : i <= j

LEMMA NextSubmitIn ==
    ASSUME TypeInv, NEW t \in Threads, th[t].at = "submit"
    PROVE  NextSubmit(t) \in th[t].submit /\ NextSubmit(t) \in Slots
<1>1. th[t].submit \subseteq {0, 1} /\ th[t].submit # {}
  BY DEF TypeInv, ThreadStates, Shape, Slots
<1>2. \E i \in th[t].submit : \A j \in th[t].submit : i <= j
  BY <1>1
<1> QED
  BY <1>1, <1>2 DEF NextSubmit, Slots

LEMMA SubmitBecomes ==
    ASSUME TypeInv, NEW t \in Threads, StartSubmit(t)
    PROVE  \E w : Becomes(t, w)
<1> DEFINE s == NextSubmit(t)
<1>1. s \in th[t].submit /\ th[t].at = "submit"
  BY NextSubmitIn DEF StartSubmit
<1>2. CASE th[t].submit = {s}
  <2> DEFINE r == [th[t] EXCEPT !.submit = {}]
  <2>1. th' = [th EXCEPT ![t] = Onward(t, r)]
    BY <1>2 DEF StartSubmit, NextSubmit
  <2>2. r \in ThreadStates
    BY DEF TypeInv, ThreadStates
  <2> QED
    BY <2>1, <2>2, OnwardTyped DEF Becomes
<1>3. CASE th[t].submit # {s}
  <2> DEFINE w == [th[t] EXCEPT !.submit = @ \ {s}]
  <2>1. th' = [th EXCEPT ![t].submit = @ \ {s}]
    BY <1>3 DEF StartSubmit, NextSubmit
  <2>2. th' = [th EXCEPT ![t] = w]
    BY <2>1 DEF TypeInv
  <2> HIDE DEF s
  <2>3. w \in ThreadStates /\ Shape(t, w)
    BY <1>1, <1>3 DEF TypeInv, ThreadStates, Shape, Places
  <2> QED
    BY <2>2, <2>3 DEF Becomes
<1> QED
  BY <1>2, <1>3

LEMMA DispatcherBecomes ==
    ASSUME TypeInv, NEW t \in {Pnp, Power}, Dispatcher(t)
    PROVE  \E w : Becomes(t, w)
<1>0. t \in Threads /\ t # Worker
  BY ThreadsDiffer
<1>1. CASE InStop(t)
  BY <1>0, <1>1, StopStepBecomes
<1>2. CASE ClientStop(t)
  BY <1>0, <1>2, StopBecomes DEF ClientStop
<1>3. CASE StartSubmit(t)
  BY <1>0, <1>3, SubmitBecomes
<1>4. CASE AbortPipes(t) /\ InterruptPipe
  <2> DEFINE w == [th[t] EXCEPT !.at = "aborting"]
  <2>1. th' = [th EXCEPT ![t] = w]
    BY <1>0, <1>4 DEF AbortPipes, Goto, TypeInv
  <2>2. w \in ThreadStates /\ Shape(t, w)
    BY <1>0 DEF TypeInv, ThreadStates, Shape, Places
  <2> QED
    BY <2>1, <2>2 DEF Becomes
<1>5. CASE Done(t)
  BY <1>0, <1>5, DoneBecomes
<1> QED
  BY <1>1, <1>2, <1>3, <1>4, <1>5 DEF Dispatcher, AbortPipes, AbortReturns

LEMMA CompletionBecomes ==
    ASSUME TypeInv, NEW t \in Dpcs, Completion(t)
    PROVE  \E w : Becomes(t, w)
<1>0. t \in Threads /\ t # Worker
  BY ThreadsDiffer
<1>1. CASE InStop(t)
  BY <1>0, <1>1, StopStepBecomes
<1>2. CASE CompleteTake(t)
  <2> DEFINE to == IF PollStopMask = {} /\ th[t].ok THEN "resubmit" ELSE "stop"
             w == [th[t] EXCEPT !.at = to]
  <2>0. to \in {"resubmit", "stop"} /\ th[t].at = "complete"
    BY <1>2 DEF CompleteTake
  <2>1. th' = [th EXCEPT ![t].at = to]
    BY <1>2, Zenon DEF CompleteTake, Goto
  <2> HIDE DEF to
  <2>2. th' = [th EXCEPT ![t] = w]
    BY <1>0, <2>1 DEF TypeInv
  <2>3. w \in ThreadStates /\ Shape(t, w)
    BY <1>0, <2>0 DEF TypeInv, ThreadStates, Shape, Places
  <2> QED
    BY <2>2, <2>3 DEF Becomes
<1>3. CASE CompleteStop(t)
  BY <1>0, <1>3, StopBecomes DEF CompleteStop
<1>4. CASE CompleteResubmit(t) \/ CompleteReturn(t)
  <2>1. th' = [th EXCEPT ![t] = IdleThread]
    BY <1>4 DEF CompleteResubmit, CompleteReturn
  <2> QED
    BY <1>0, <2>1, IdleTyped DEF Becomes
<1> QED
  BY <1>1, <1>2, <1>3, <1>4 DEF Completion

LEMMA BusBecomes ==
    ASSUME TypeInv, NEW t \in Dpcs, NEW p \in Irps, NEW ok \in BOOLEAN, HostComplete(t, p, ok)
    PROVE  \E w : Becomes(t, w)
<1> DEFINE w == [th[t] EXCEPT !.at = "complete", !.slot = pool[p].slot, !.ok = ok]
<1>0. t \in Threads /\ t # Worker /\ pool[p].slot \in Slots
  BY ThreadsDiffer DEF HostComplete, TypeInv
<1>1. th' = [th EXCEPT ![t].at = "complete", ![t].slot = pool[p].slot, ![t].ok = ok]
  BY DEF HostComplete
<1>2. th' = [th EXCEPT ![t] = w]
  BY <1>0, <1>1 DEF TypeInv
<1>3. w \in ThreadStates /\ Shape(t, w)
  BY <1>0 DEF TypeInv, ThreadStates, Shape, Places
<1> QED
  BY <1>2, <1>3 DEF Becomes

LEMMA RequestBecomes ==
    ASSUME TypeInv, Requests
    PROVE  \E t \in {Pnp, Power} : \E w : Becomes(t, w)
<1>1. CASE StartDevice \/ PowerUp
  BY <1>1, StartBecomes, ThreadsDiffer DEF StartDevice, PowerUp
<1>2. ASSUME NEW t \in {Pnp, Power}, NEW program \in Seq(Ops), Dispatch(t, program)
      PROVE  \E w : Becomes(t, w)
  <2> DEFINE w == [th[t] EXCEPT !.at = "run", !.todo = program]
  <2>0. t \in Threads /\ t # Worker
    BY ThreadsDiffer
  <2>1. th' = [th EXCEPT ![t] = w]
    BY <1>2, <2>0 DEF Dispatch, TypeInv
  <2>2. w \in ThreadStates /\ Shape(t, w)
    BY <2>0 DEF TypeInv, ThreadStates, Shape, Places
  <2> QED
    BY <2>1, <2>2 DEF Becomes
<1>3. /\ <<"pnp", "pnp", "abort", "unconfigure">> \in Seq(Ops)
      /\ <<"remove", "pnp", "abort", "abort", "close", "unwire">> \in Seq(Ops)
      /\ <<"power", "pnp", "abort">> \in Seq(Ops)
  BY DEF Ops, Reasons
<1>4. CASE StopDevice \/ RemoveDevice \/ PowerDown
  BY <1>2, <1>3, <1>4 DEF StopDevice, RemoveDevice, PowerDown
<1> QED
  BY <1>1, <1>4 DEF Requests

LEMMA WorkerBecomes ==
    ASSUME TypeInv, WorkerThread
    PROVE  \E w : Becomes(Worker, w)
<1>0. Worker \in Threads /\ RecoverTries \in Nat \ {0}
  BY ThreadsDiffer, PollConstants
<1>1. CASE WorkerBegin
  <2> DEFINE to == IF PollRestartPending THEN "recover" ELSE "release"
             n == IF PollRestartPending THEN RecoverTries ELSE 0
             w == [th[Worker] EXCEPT !.at = to, !.tries = n]
  <2>1. th' = [th EXCEPT ![Worker].at = to, ![Worker].tries = n]
    BY <1>1, Zenon DEF WorkerBegin
  <2>2. to \in {"recover", "release"} /\ n \in 0..RecoverTries /\ (to = "recover" => n > 0)
    BY <1>0
  <2> HIDE DEF to, n
  <2>3. th' = [th EXCEPT ![Worker] = w]
    BY <1>0, <2>1 DEF TypeInv
  <2>4. w \in ThreadStates /\ Shape(Worker, w)
    BY <1>0, <2>2 DEF TypeInv, ThreadStates, Shape, Places
  <2> QED
    BY <2>3, <2>4 DEF Becomes
<1>2. CASE RecoverReset
  BY <1>0, <1>2, StartBecomes DEF RecoverReset
<1>3. CASE RecoverResetFails
  <2> DEFINE to == IF th[Worker].tries = 1 THEN "release" ELSE th[Worker].at
             n == th[Worker].tries - 1
             w == [th[Worker] EXCEPT !.tries = n, !.at = to]
  <2>1. th' = [th EXCEPT ![Worker] = w]
    BY <1>0, <1>3 DEF RecoverResetFails, TypeInv
  <2>2. /\ th[Worker].tries \in 0..RecoverTries /\ th[Worker].tries > 0
        /\ th[Worker].at = "recover"
    BY <1>0, <1>3 DEF RecoverResetFails, TypeInv, ThreadStates, Shape
  <2>3. to \in {"recover", "release"} /\ n \in 0..RecoverTries /\ (to = "recover" => n > 0)
    BY <1>0, <2>2
  <2> HIDE DEF to, n
  <2>4. w \in ThreadStates /\ Shape(Worker, w)
    BY <1>0, <2>3 DEF TypeInv, ThreadStates, Shape, Places
  <2> QED
    BY <2>1, <2>4 DEF Becomes
<1>4. CASE RecoverGivesUp
  <2> DEFINE w == [th[Worker] EXCEPT !.at = "release"]
  <2>1. th' = [th EXCEPT ![Worker] = w]
    BY <1>0, <1>4 DEF RecoverGivesUp, Goto, TypeInv
  <2>2. w \in ThreadStates /\ Shape(Worker, w)
    BY <1>0 DEF TypeInv, ThreadStates, Shape, Places
  <2> QED
    BY <2>1, <2>2 DEF Becomes
<1>5. CASE StartSubmit(Worker)
  BY <1>0, <1>5, SubmitBecomes
<1>6. CASE WorkerRelease
  BY <1>0, <1>6, IdleTyped DEF WorkerRelease, Becomes
<1> QED
  BY <1>1, <1>2, <1>3, <1>4, <1>5, <1>6 DEF WorkerThread, Ladder

LEMMA ThreadTyped ==
    ASSUME TypeInv, [Next]_vars
    PROVE  th' \in [Threads -> ThreadStates] /\ \A t \in Threads : Shape(t, th'[t])
<1>0. th \in [Threads -> ThreadStates] /\ \A t \in Threads : Shape(t, th[t])
  BY DEF TypeInv
<1>1. CASE UNCHANGED vars
  BY <1>0, <1>1 DEF vars
<1>2. CASE Next
  <2>1. \E t \in Threads : \E w : Becomes(t, w)
    <3>1. ASSUME NEW t \in {Pnp, Power}, Done(t) PROVE \E w : Becomes(t, w)
      BY <3>1, DoneBecomes, ThreadsDiffer
    <3>2. CASE PnpThread
      BY <3>1, <3>2, DispatcherBecomes, ThreadsDiffer
         DEF PnpThread, UnconfigureDevice, CloseB, Unwire
    <3> QED
      BY <1>2, <3>2, DispatcherBecomes, CompletionBecomes, BusBecomes, RequestBecomes,
         WorkerBecomes, ThreadsDiffer DEF Next, BusCompletes
  <2>2. PICK t \in Threads : \E w : Becomes(t, w)
    BY <2>1
  <2>3. PICK w : Becomes(t, w)
    BY <2>2
  <2> QED
    BY <1>0, <2>3 DEF Becomes
<1> QED
  BY <1>1, <1>2

(* A read's IRP is submitted, freed, or stays for the slot it was submitted for. *)
PoolKept(p) ==
    \/ pool'[p] = pool[p]
    \/ pool'[p] = FreeIrp
    \/ /\ OnBus(p)
       /\ pool'[p].at \in {"cancelled", "done"}
       /\ pool'[p].slot = pool[p].slot

PoolShrinks == pool' \in [Irps -> PoolStates] /\ \A p \in Irps : PoolKept(p)

Submits(p, s) == pool' = [pool EXCEPT ![p] = [at |-> "bus", slot |-> s]]

LEMMA FreeShrinks ==
    ASSUME TypeInv, NEW P, FreePollIrps(P)
    PROVE  PoolShrinks
BY DEF FreePollIrps, PoolShrinks, PoolKept, PoolStates, FreeIrp, TypeInv, TypeOK

LEMMA CancelShrinks ==
    ASSUME TypeInv, NEW P,
           pool' = [p \in Irps |-> IF p \in P /\ OnBus(p) THEN [pool[p] EXCEPT !.at = "cancelled"]
                                   ELSE pool[p]]
    PROVE  PoolShrinks
<1>1. ASSUME NEW p \in Irps PROVE pool'[p] \in PoolStates /\ PoolKept(p)
  <2>0. pool[p] \in PoolStates
    BY DEF TypeInv, TypeOK, PoolStates
  <2>1. CASE p \in P /\ OnBus(p)
    <3>1. pool'[p] = [pool[p] EXCEPT !.at = "cancelled"]
      BY <2>1
    <3>2. /\ [pool[p] EXCEPT !.at = "cancelled"] \in PoolStates
          /\ [pool[p] EXCEPT !.at = "cancelled"].at = "cancelled"
          /\ [pool[p] EXCEPT !.at = "cancelled"].slot = pool[p].slot
      BY <2>0 DEF PoolStates
    <3> QED
      BY <2>1, <3>1, <3>2 DEF PoolKept
  <2>2. CASE ~(p \in P /\ OnBus(p))
    BY <2>0, <2>2 DEF PoolKept
  <2> QED
    BY <2>1, <2>2
<1>2. DOMAIN pool' = Irps /\ pool' = [p \in Irps |-> pool'[p]]
  OBVIOUS
<1> QED
  BY <1>1, <1>2 DEF PoolShrinks

LEMMA InStopPool ==
    ASSUME TypeInv, NEW t \in Threads, InStop(t)
    PROVE  PoolShrinks
<1>1. CASE StopCancel(t)
  <2> DEFINE P == {p \in Cancelling(t) : p \in Irps /\ pool[p].at = "bus"}
  <2>1. pool' = [p \in Irps |-> IF p \in P /\ OnBus(p) THEN [pool[p] EXCEPT !.at = "cancelled"]
                                ELSE pool[p]]
    BY <1>1 DEF StopCancel, OnBus
  <2> HIDE DEF P
  <2> QED
    BY <2>1, CancelShrinks
<1>2. CASE StopSettle(t)
  BY <1>2, FreeShrinks DEF StopSettle
<1> QED
  BY <1>1, <1>2 DEF InStop

LEMMA BusReturnsAllPool ==
    ASSUME TypeInv, BusReturnsAll
    PROVE  PoolShrinks
<1>1. pool' = [p \in Irps |-> IF p \in Irps /\ OnBus(p) THEN [pool[p] EXCEPT !.at = "cancelled"]
                              ELSE pool[p]]
  BY DEF BusReturnsAll
<1> QED
  BY <1>1, CancelShrinks

LEMMA SamePool == ASSUME TypeInv, pool' = pool PROVE PoolShrinks
BY DEF PoolShrinks, PoolKept, PoolStates, TypeInv, TypeOK

LEMMA HostCompletePool ==
    ASSUME TypeInv, NEW t \in Dpcs, NEW p \in Irps, NEW ok \in BOOLEAN, HostComplete(t, p, ok)
    PROVE  PoolShrinks /\ ~OnBus(p)' /\ \A q \in Irps \ {p} : pool'[q] = pool[q]
<1> DEFINE w == [pool[p] EXCEPT !.at = "done"]
<1>1. pool' = [pool EXCEPT ![p] = w] /\ OnBus(p)
  BY DEF HostComplete, TypeInv, TypeOK
<1>2. w \in PoolStates /\ w.at = "done" /\ w.slot = pool[p].slot
  BY DEF TypeInv, TypeOK, PoolStates
<1>3. pool \in [Irps -> PoolStates]
  BY DEF TypeInv, TypeOK, PoolStates
<1> HIDE DEF w
<1>4. pool'[p] = w /\ \A q \in Irps \ {p} : pool'[q] = pool[q]
  BY <1>1, <1>3
<1>5. pool' \in [Irps -> PoolStates]
  BY <1>1, <1>2, <1>3
<1> QED
  BY <1>1, <1>2, <1>4, <1>5 DEF PoolShrinks, PoolKept, OnBus

LEMMA PollSubmitPool ==
    ASSUME TypeInv, NEW s \in Slots, PollSubmit(s)
    PROVE  \/ pool' = pool /\ Irp' = Irp
           \/ \E p \in Irps : Submits(p, s) /\ Irp' = [Irp EXCEPT ![s] = p]
BY DEF PollSubmit, Submits

LEMMA PoolStep ==
    ASSUME TypeInv, [Next]_vars
    PROVE  PoolShrinks \/ \E p \in Irps, s \in Slots : Submits(p, s)
<1>1. CASE pool' = pool
  BY <1>1, SamePool
<1>2. ASSUME NEW t \in Threads, InStop(t) PROVE PoolShrinks
  BY <1>2, InStopPool
<1>3. ASSUME NEW t \in Threads, StartSubmit(t)
      PROVE  pool' = pool \/ \E p \in Irps, s \in Slots : Submits(p, s)
  <2>1. PollSubmit(NextSubmit(t)) /\ NextSubmit(t) \in Slots
    BY <1>3, NextSubmitIn DEF StartSubmit, NextSubmit
  <2> QED
    BY <2>1, PollSubmitPool
<1>4. ASSUME NEW t \in {Pnp, Power}, Dispatcher(t)
      PROVE  PoolShrinks \/ \E p \in Irps, s \in Slots : Submits(p, s)
  BY <1>2, <1>3, <1>4, SamePool, BusReturnsAllPool, ThreadsDiffer
     DEF Dispatcher, ClientStop, AbortPipes, AbortReturns
<1>5. ASSUME NEW t \in Dpcs, Completion(t)
      PROVE  PoolShrinks \/ \E p \in Irps, s \in Slots : Submits(p, s)
  <2>1. CASE CompleteTake(t)
    BY <2>1, FreeShrinks DEF CompleteTake
  <2>2. CASE CompleteResubmit(t)
    <3>1. th[t].slot \in Slots
      BY <2>2, ThreadsDiffer DEF CompleteResubmit, TypeInv, Shape
    <3> QED
      BY <2>2, <3>1, PollSubmitPool, SamePool DEF CompleteResubmit
  <2> QED
    BY <1>2, <1>5, <2>1, <2>2, SamePool, ThreadsDiffer DEF Completion, CompleteStop, CompleteReturn
<1>6. ASSUME UnconfigureDevice \/ CloseB \/ Unwire \/ Requests \/ WorkerBegin \/ Ladder \/ WorkerRelease
      PROVE  PoolShrinks
  BY <1>6, SamePool, BusReturnsAllPool
     DEF UnconfigureDevice, CloseB, Unwire, Requests, StartDevice, StopDevice, RemoveDevice,
         PowerDown, PowerUp, WorkerBegin, Ladder, RecoverReset, RecoverResetFails, RecoverGivesUp,
         WorkerRelease
<1>7. CASE BusCompletes
  BY <1>7, HostCompletePool DEF BusCompletes
<1>8. CASE UNCHANGED vars
  BY <1>1, <1>8 DEF vars
<1> QED
  BY <1>3, <1>4, <1>5, <1>6, <1>7, <1>8, SamePool, ThreadsDiffer DEF Next, PnpThread, WorkerThread

--------------------------------------------------------------------------------
(* The references of the restart worker *)

(* A request that still has to close RemoveLockB is REMOVE's, and has not yet. *)
CloseAhead(q, rem) ==
    \A i \in DOMAIN q :
        q[i] = "close" =>
            /\ rem = "removing"
            /\ \A j \in DOMAIN q : q[j] \in {"close", "unwire"} => i <= j

WorkerOut == IF th[Worker].at = "idle" THEN 0 ELSE 1

(***************************************************************************)
(* RemoveLockB is held once for each restart queued and once for the one   *)
(* that runs; REMOVE closes it once; and the device is not unwired with a  *)
(* reference out.                                                          *)
(***************************************************************************)
RestartInv ==
    /\ refsB = work + WorkerOut
    /\ CloseAhead(th[Pnp].todo, removal)
    /\ removal = "unwired" => work = 0 /\ th[Worker].at = "idle"

(* Every other step leaves the worker where it is. *)
LEMMA WorkerKept ==
    ASSUME TypeInv, [Next]_vars, ~WorkerThread
    PROVE  th'[Worker] = th[Worker]
<1>0. th \in [Threads -> ThreadStates] /\ Worker \in Threads
  BY ThreadsDiffer DEF TypeInv
<1>1. ASSUME NEW t \in Dpcs \cup {Pnp, Power}, \E w : Becomes(t, w)
      PROVE  th'[Worker] = th[Worker]
  BY <1>0, <1>1, ThreadsDiffer DEF Becomes
<1>2. ASSUME NEW t \in {Pnp, Power}, Done(t) PROVE th'[Worker] = th[Worker]
  BY <1>1, <1>2, DoneBecomes, ThreadsDiffer
<1>3. CASE PnpThread
  BY <1>1, <1>2, <1>3, DispatcherBecomes DEF PnpThread, UnconfigureDevice, CloseB, Unwire
<1>4. CASE UNCHANGED vars
  BY <1>4 DEF vars
<1> QED
  BY <1>1, <1>3, <1>4, DispatcherBecomes, CompletionBecomes, BusBecomes, RequestBecomes
     DEF Next, BusCompletes

(* The worker leaves its ladder only by its release. *)
LEMMA LadderKeeps ==
    ASSUME TypeInv, Ladder \/ StartSubmit(Worker)
    PROVE  /\ th'[Worker].at # "idle" /\ th[Worker].at # "idle"
           /\ th'[Pnp] = th[Pnp]
           /\ refsB' = refsB /\ work' = work /\ removal' = removal
<1>0. th \in [Threads -> ThreadStates] /\ Worker \in Threads /\ Pnp \in Threads /\ Pnp # Worker
  BY ThreadsDiffer, DistinctThreads DEF TypeInv
<1>1. refsB' = refsB /\ work' = work /\ removal' = removal /\ th[Worker].at # "idle"
  BY DEF Ladder, RecoverReset, RecoverResetFails, RecoverGivesUp, StartSubmit, restartVars,
         deviceVars
<1>2. th'[Pnp] = th[Pnp]
  <2>1. \E w : Becomes(Worker, w)
    BY WorkerBecomes DEF WorkerThread
  <2> QED
    BY <1>0, <2>1 DEF Becomes
<1>3. ASSUME NEW r \in ThreadStates PROVE Onward(Worker, r).at = "release"
  <2>1. Onward(Worker, r) = [r EXCEPT !.at = "release"]
    BY DistinctThreads DEF Onward
  <2> QED
    BY <2>1 DEF ThreadStates
<1>4. th'[Worker].at # "idle"
  <2>1. CASE RecoverReset
    <3>1. CASE Done(Worker)
      <4>1. th'[Worker] = Onward(Worker, th[Worker])
        BY <1>0, <3>1 DEF Done
      <4> QED
        BY <1>0, <1>3, <4>1
    <3>2. CASE ~Done(Worker)
      <4> DEFINE out == {i \in Slots : ~Active[i]}
      <4>1. th' = [th EXCEPT ![Worker].at = "submit", ![Worker].submit = out]
        BY <2>1, <3>2, Zenon DEF RecoverReset, PollStart
      <4> HIDE DEF out
      <4> QED
        BY <1>0, <4>1 DEF ThreadStates
    <3> QED
      BY <3>1, <3>2
  <2>2. CASE RecoverResetFails \/ RecoverGivesUp
    BY <1>0, <2>2 DEF RecoverResetFails, RecoverGivesUp, Goto, ThreadStates
  <2>3. CASE StartSubmit(Worker)
    <3> DEFINE s == NextSubmit(Worker)
               r == [th[Worker] EXCEPT !.submit = {}]
    <3>1. r \in ThreadStates
      BY <1>0 DEF ThreadStates
    <3>2. CASE th[Worker].submit = {s}
      <4>1. th' = [th EXCEPT ![Worker] = Onward(Worker, r)]
        BY <2>3, <3>2 DEF StartSubmit, NextSubmit
      <4> HIDE DEF r
      <4> QED
        BY <1>0, <1>3, <3>1, <4>1
    <3>3. CASE th[Worker].submit # {s}
      <4>1. th' = [th EXCEPT ![Worker].submit = @ \ {s}]
        BY <2>3, <3>3 DEF StartSubmit, NextSubmit
      <4> HIDE DEF s
      <4> QED
        BY <1>0, <1>1, <4>1 DEF ThreadStates
    <3> QED
      BY <3>2, <3>3
  <2> QED
    BY <2>1, <2>2, <2>3 DEF Ladder
<1> QED
  BY <1>1, <1>2, <1>4

LEMMA RefsStep ==
    ASSUME TypeInv, RestartInv, [Next]_vars
    PROVE  /\ work' \in Nat /\ refsB' = work' + WorkerOut'
           /\ removal # "unwired" \/ (work' = 0 /\ th'[Worker].at = "idle")
<1>0. th \in [Threads -> ThreadStates] /\ Worker \in Threads /\ work \in Nat /\ refsB \in Nat
  BY ThreadsDiffer DEF TypeInv, TypeOK
<1> USE DEF RestartInv, WorkerOut
<1>1. CASE WorkerBegin
  <2>1. th'[Worker].at # "idle"
    BY <1>0, <1>1 DEF WorkerBegin, ThreadStates
  <2>2. work > 0 /\ work' = work - 1 /\ refsB' = refsB /\ th[Worker].at = "idle"
    BY <1>1 DEF WorkerBegin
  <2> QED
    BY <1>0, <2>1, <2>2
<1>2. CASE WorkerRelease
  <2>1. th'[Worker].at = "idle" /\ th[Worker].at = "release"
    BY <1>0, <1>2 DEF WorkerRelease, IdleThread
  <2>2. work' = work /\ refsB' = refsB - 1
    BY <1>2 DEF WorkerRelease
  <2> QED
    BY <1>0, <2>1, <2>2
<1>3. CASE Ladder \/ StartSubmit(Worker)
  BY <1>0, <1>3, LadderKeeps
<1>4. CASE ~WorkerThread
  <2>1. th'[Worker] = th[Worker]
    BY <1>4, WorkerKept
  <2>2. \/ refsB' = refsB /\ work' = work
        \/ removal # "unwired" /\ refsB' = refsB + 1 /\ work' = work + 1
    <3> USE DEF restartVars
    <3>1. ASSUME NEW t, Dispatcher(t) PROVE refsB' = refsB /\ work' = work
      BY <3>1 DEF Dispatcher, InStop, StopCancel, StopSettle, ClientStop, StartSubmit, AbortPipes,
         AbortReturns
    <3>2. ASSUME NEW t, CompleteReturn(t)
          PROVE  \/ refsB' = refsB /\ work' = work
                 \/ removal # "unwired" /\ refsB' = refsB + 1 /\ work' = work + 1
      BY <3>2 DEF CompleteReturn
    <3>3. ASSUME NEW t, Completion(t), ~CompleteReturn(t) PROVE refsB' = refsB /\ work' = work
      BY <3>3 DEF Completion, InStop, StopCancel, StopSettle, CompleteTake, CompleteResubmit,
         CompleteStop
    <3>4. CASE UnconfigureDevice \/ CloseB \/ Unwire \/ Requests \/ BusCompletes \/ UNCHANGED vars
      BY <3>4 DEF UnconfigureDevice, CloseB, Unwire, Requests, StartDevice, StopDevice,
         RemoveDevice, PowerDown, PowerUp, BusCompletes, HostComplete, vars
    <3> QED
      BY <1>4, <3>1, <3>2, <3>3, <3>4 DEF Next, PnpThread
  <2> QED
    BY <1>0, <2>1, <2>2
<1> QED
  BY <1>1, <1>2, <1>3, <1>4 DEF WorkerThread

(* A request only goes forward in what it has left to do. *)
AtNext(t) == Len(th[t].todo) > 1 /\ th'[t].todo = Tail(th[t].todo)

Forward(t) == th'[t].todo \in {th[t].todo, <<>>} \/ AtNext(t)

LEMMA OnwardTodo ==
    ASSUME NEW t \in {Pnp, Power}, NEW r \in ThreadStates
    PROVE  Onward(t, r).todo = IF Len(r.todo) > 1 THEN Tail(r.todo) ELSE <<>>
<1>1. CASE Len(r.todo) > 1
  <2>1. Onward(t, r) = [r EXCEPT !.at = "run", !.todo = Tail(@)]
    BY <1>1, DistinctThreads DEF Onward
  <2> HIDE DEF Onward
  <2> QED
    BY <1>1, <2>1 DEF ThreadStates
<1>2. CASE ~(Len(r.todo) > 1)
  BY <1>2, DistinctThreads DEF Onward, IdleThread
<1> QED
  BY <1>1, <1>2

LEMMA DoneTodo ==
    ASSUME TypeInv, NEW t \in {Pnp, Power}, Done(t)
    PROVE  th'[t].todo = IF Len(th[t].todo) > 1 THEN Tail(th[t].todo) ELSE <<>>
<1>1. th'[t] = Onward(t, th[t]) /\ th[t] \in ThreadStates
  BY ThreadsDiffer DEF Done, TypeInv
<1> QED
  BY <1>1, OnwardTodo

LEMMA StartTodo ==
    ASSUME TypeInv, NEW t \in {Pnp, Power}, NEW reason, PollStart(t, reason)
    PROVE  Forward(t)
<1> DEFINE out == {i \in Slots : ~Active[i]}
<1>1. CASE Done(t)
  BY <1>1, DoneTodo DEF Forward, AtNext
<1>2. CASE ~Done(t)
  <2>1. th' = [th EXCEPT ![t].at = "submit", ![t].submit = out]
    BY <1>2, Zenon DEF PollStart
  <2> HIDE DEF out
  <2>2. th'[t].todo = th[t].todo
    BY <2>1, ThreadsDiffer DEF TypeInv, ThreadStates
  <2> QED
    BY <2>2 DEF Forward
<1> QED
  BY <1>1, <1>2

LEMMA StopTodo ==
    ASSUME TypeInv, NEW t \in {Pnp, Power}, NEW reasons, NEW s, PollStop(t, reasons, s)
    PROVE  Forward(t)
<1> DEFINE taken == {i \in Slots : (Active[i] /\ i # s) /\ ~CancelLatch[i]}
           cancel == [i \in Slots |-> IF i \in taken THEN Irp[i] ELSE NoIrp]
           last == s # NoSlot /\ Irp[Other(s)] = NoIrp
           r == [th[t] EXCEPT !.at = "cancel", !.cancel = cancel, !.last = last]
<1>0. th \in [Threads -> ThreadStates] /\ t \in Threads
  BY ThreadsDiffer DEF TypeInv
<1>1. th' = [th EXCEPT ![t] = IF cancel = NoCancel THEN Onward(t, r) ELSE r]
  BY DEF PollStop
<1>2. cancel \in [Slots -> Irps \cup {NoIrp}] /\ last \in BOOLEAN
  BY DEF TypeInv, TypeOK
<1> HIDE DEF cancel, last
<1>3. r \in ThreadStates /\ r.todo = th[t].todo
  <2>1. th[t] \in ThreadStates
    BY <1>0
  <2> QED
    BY <1>2, <2>1 DEF ThreadStates, Places
<1> HIDE DEF r
<1>4. Onward(t, r).todo = IF Len(th[t].todo) > 1 THEN Tail(th[t].todo) ELSE <<>>
  BY <1>3, OnwardTodo
<1>5. th'[t] = Onward(t, r) \/ th'[t] = r
  BY <1>0, <1>1
<1> QED
  BY <1>3, <1>4, <1>5 DEF Forward, AtNext

LEMMA DispatcherTodo ==
    ASSUME TypeInv, NEW t \in {Pnp, Power}, Dispatcher(t)
    PROVE  Forward(t)
<1>0. th \in [Threads -> ThreadStates] /\ t \in Threads
  BY ThreadsDiffer DEF TypeInv
<1>1. ASSUME NEW r \in ThreadStates, r.todo = th[t].todo, th' = [th EXCEPT ![t] = Onward(t, r)]
      PROVE  Forward(t)
  <2>1. th'[t] = Onward(t, r)
    BY <1>0, <1>1
  <2>2. Onward(t, r).todo = IF Len(th[t].todo) > 1 THEN Tail(th[t].todo) ELSE <<>>
    BY <1>1, OnwardTodo
  <2> QED
    BY <2>1, <2>2 DEF Forward, AtNext
<1>2. CASE StopCancel(t)
  <2>1. th'[t].todo = th[t].todo
    BY <1>0, <1>2 DEF StopCancel, Goto, ThreadStates
  <2> QED
    BY <2>1 DEF Forward
<1>3. CASE StopSettle(t)
  <2> DEFINE r == [th[t] EXCEPT !.cancel = NoCancel]
  <2>1. th' = [th EXCEPT ![t] = Onward(t, r)]
    BY <1>3 DEF StopSettle
  <2>2. NoCancel \in [Slots -> Irps \cup {NoIrp}]
    BY DEF NoCancel
  <2>3. r \in ThreadStates /\ r.todo = th[t].todo
    BY <1>0, <2>2 DEF ThreadStates
  <2> HIDE DEF r
  <2> QED
    BY <1>1, <2>1, <2>3
<1>4. CASE ClientStop(t)
  BY <1>4, StopTodo DEF ClientStop
<1>5. CASE StartSubmit(t)
  <2> DEFINE s == NextSubmit(t)
             r == [th[t] EXCEPT !.submit = {}]
  <2>1. r \in ThreadStates /\ r.todo = th[t].todo
    BY <1>0 DEF ThreadStates
  <2>2. CASE th[t].submit = {s}
    <3>1. th' = [th EXCEPT ![t] = Onward(t, r)]
      BY <1>5, <2>2 DEF StartSubmit, NextSubmit
    <3> HIDE DEF r
    <3> QED
      BY <1>1, <2>1, <3>1
  <2>3. CASE th[t].submit # {s}
    <3>1. th' = [th EXCEPT ![t].submit = @ \ {s}]
      BY <1>5, <2>3 DEF StartSubmit, NextSubmit
    <3> HIDE DEF s
    <3>2. th'[t].todo = th[t].todo
      BY <1>0, <3>1 DEF ThreadStates
    <3> QED
      BY <3>2 DEF Forward
  <2> QED
    BY <2>2, <2>3
<1>6. CASE AbortPipes(t) /\ InterruptPipe
  <2>1. th'[t].todo = th[t].todo
    BY <1>0, <1>6 DEF AbortPipes, Goto, ThreadStates
  <2> QED
    BY <2>1 DEF Forward
<1>7. CASE Done(t)
  BY <1>7, DoneTodo DEF Forward, AtNext
<1> QED
  BY <1>2, <1>3, <1>4, <1>5, <1>6, <1>7 DEF Dispatcher, InStop, AbortPipes, AbortReturns

LEMMA CloseAheadTail ==
    ASSUME NEW q \in Seq(Ops), q # <<>>, NEW rem, CloseAhead(q, rem)
    PROVE  CloseAhead(Tail(q), rem)
<1>1. /\ Tail(q) \in Seq(Ops) /\ Len(Tail(q)) = Len(q) - 1
      /\ \A i \in 1..Len(Tail(q)) : Tail(q)[i] = q[i + 1]
  BY HeadTailProperties
<1> DEFINE u == Tail(q)
<1>2. DOMAIN u = 1..(Len(q) - 1) /\ DOMAIN q = 1..Len(q) /\ Len(q) \in Nat
  BY <1>1
<1>3. \A i \in DOMAIN u : i \in Nat /\ i + 1 \in DOMAIN q /\ u[i] = q[i + 1]
  BY <1>1, <1>2
<1> HIDE DEF u
<1>4. CloseAhead(u, rem)
  <2> SUFFICES ASSUME NEW i \in DOMAIN u, u[i] = "close"
               PROVE  /\ rem = "removing"
                      /\ \A j \in DOMAIN u : u[j] \in {"close", "unwire"} => i <= j
    BY DEF CloseAhead
  <2>1. rem = "removing" /\ \A j \in DOMAIN q : q[j] \in {"close", "unwire"} => i + 1 <= j
    BY <1>3 DEF CloseAhead
  <2>2. ASSUME NEW j \in DOMAIN u, u[j] \in {"close", "unwire"} PROVE i <= j
    <3>1. i + 1 <= j + 1 /\ i \in Nat /\ j \in Nat
      BY <1>3, <2>1, <2>2
    <3> QED
      BY <3>1
  <2> QED
    BY <2>1, <2>2
<1> QED
  BY <1>4 DEF u

(* With close or unwire next, no close is left after it. *)
LEMMA CloseAheadLast ==
    ASSUME NEW q \in Seq(Ops), q # <<>>, NEW rem, NEW after, CloseAhead(q, rem),
           Head(q) \in {"close", "unwire"}
    PROVE  CloseAhead(Tail(q), after)
<1>1. /\ Tail(q) \in Seq(Ops) /\ Len(Tail(q)) = Len(q) - 1
      /\ \A i \in 1..Len(Tail(q)) : Tail(q)[i] = q[i + 1]
  BY HeadTailProperties
<1> DEFINE u == Tail(q)
<1>2. DOMAIN u = 1..(Len(q) - 1) /\ DOMAIN q = 1..Len(q) /\ Len(q) \in Nat \ {0}
  BY <1>1, EmptySeq
<1>3. 1 \in DOMAIN q /\ q[1] \in {"close", "unwire"}
  BY <1>2
<1>4. \A i \in DOMAIN u : i \in Nat \ {0} /\ i + 1 \in DOMAIN q /\ u[i] = q[i + 1]
  BY <1>1, <1>2
<1> HIDE DEF u
<1>5. ASSUME NEW i \in DOMAIN u, u[i] = "close" PROVE FALSE
  <2>1. i + 1 <= 1
    BY <1>3, <1>4, <1>5 DEF CloseAhead
  <2> QED
    BY <1>4, <2>1
<1>6. CloseAhead(u, after)
  BY <1>5 DEF CloseAhead
<1> QED
  BY <1>6 DEF u

(* The step leaves what Pnp has to do, and REMOVE, as they are. *)
LEMMA PnpKept ==
    ASSUME TypeInv, NEW t \in Threads \ {Pnp}, \E w : Becomes(t, w)
    PROVE  th'[Pnp] = th[Pnp]
BY ThreadsDiffer DEF Becomes, TypeInv

LEMMA CloseAheadStep ==
    ASSUME TypeInv, RestartInv, [Next]_vars
    PROVE  CloseAhead(th'[Pnp].todo, removal')
<1> DEFINE q == th[Pnp].todo
           u == th'[Pnp].todo
<1>0. q \in Seq(Ops) /\ CloseAhead(q, removal) /\ Pnp \in Threads
  BY ThreadsDiffer DEF TypeInv, ThreadStates, RestartInv
<1>1. CloseAhead(<<>>, removal')
  BY DEF CloseAhead
<1>2. CASE removal' = removal /\ Forward(Pnp)
  <2>1. CASE u = Tail(q) /\ Len(q) > 1
    <3>1. q # <<>>
      BY <2>1, <1>0, EmptySeq
    <3> QED
      BY <1>0, <1>2, <2>1, <3>1, CloseAheadTail
  <2> QED
    BY <1>0, <1>1, <1>2, <2>1 DEF Forward, AtNext
<1>3. CASE removal' = removal /\ th'[Pnp] = th[Pnp]
  BY <1>0, <1>3
<1>4. CASE CloseB \/ Unwire
  <2>1. Done(Pnp) /\ Head(q) \in {"close", "unwire"}
    BY <1>4 DEF CloseB, Unwire, NextIs
  <2>2. u = IF Len(q) > 1 THEN Tail(q) ELSE <<>>
    BY <2>1, DoneTodo
  <2>3. CASE Len(q) > 1
    <3>1. q # <<>>
      BY <2>3, <1>0, EmptySeq
    <3> QED
      BY <1>0, <2>1, <2>2, <2>3, <3>1, CloseAheadLast
  <2> QED
    BY <1>1, <2>2, <2>3
<1>5. ASSUME NEW program \in Seq(Ops), Dispatch(Pnp, program)
      PROVE  u = program
  <2> HIDE DEF q
  <2> QED
    BY <1>0, <1>5 DEF Dispatch, TypeInv, ThreadStates
<1>6. CASE StopDevice
  <2> DEFINE program == <<"pnp", "pnp", "abort", "unconfigure">>
  <2>0. program \in Seq(Ops) /\ Dispatch(Pnp, program)
    BY <1>6 DEF StopDevice, Ops, Reasons
  <2>1. u = program
    <3> HIDE DEF program, q, u
    <3> QED
      BY <2>0, <1>5 DEF u
  <2>2. CloseAhead(program, removal')
    BY DEF CloseAhead
  <2> QED
    BY <2>1, <2>2
<1>7. CASE RemoveDevice
  <2> DEFINE program == <<"remove", "pnp", "abort", "abort", "close", "unwire">>
  <2>0. program \in Seq(Ops) /\ Dispatch(Pnp, program) /\ removal' = "removing"
    BY <1>7 DEF RemoveDevice, Ops, Reasons
  <2>1. u = program /\ removal' = "removing"
    <3> HIDE DEF program, q, u
    <3> QED
      BY <2>0, <1>5 DEF u
  <2>2. CloseAhead(program, "removing")
    BY DEF CloseAhead
  <2> QED
    BY <2>1, <2>2
<1>8. CASE Dispatcher(Pnp) \/ UnconfigureDevice \/ StartDevice
  <2>1. Forward(Pnp)
    BY <1>8, DispatcherTodo, StartTodo, DoneTodo
       DEF UnconfigureDevice, StartDevice, Forward, AtNext
  <2>2. removal' = removal
    BY <1>8 DEF Dispatcher, InStop, StopCancel, StopSettle, ClientStop, StartSubmit, AbortPipes,
       AbortReturns, UnconfigureDevice, StartDevice, deviceVars
  <2> QED
    BY <1>2, <2>1, <2>2
<1>9. CASE Dispatcher(Power) \/ PowerDown \/ PowerUp \/ WorkerThread
           \/ (\E t \in Dpcs : Completion(t)) \/ BusCompletes
  <2>1. removal' = removal
    BY <1>9 DEF Dispatcher, InStop, StopCancel, StopSettle, ClientStop, StartSubmit, AbortPipes,
       AbortReturns, PowerDown, PowerUp, WorkerThread, WorkerBegin, Ladder, RecoverReset,
       RecoverResetFails, RecoverGivesUp, WorkerRelease, Completion, CompleteTake,
       CompleteResubmit, CompleteStop, CompleteReturn, BusCompletes, HostComplete, deviceVars
  <2>2. \E t \in Threads \ {Pnp} : \E w : Becomes(t, w)
    <3>1. Power \in Threads \ {Pnp} /\ Worker \in Threads \ {Pnp} /\ Dpcs \subseteq Threads \ {Pnp}
      BY ThreadsDiffer, DistinctThreads
    <3>2. CASE PowerDown
      <4> DEFINE program == <<"power", "pnp", "abort">>
                 w == [th[Power] EXCEPT !.at = "run", !.todo = program]
      <4>1. program \in Seq(Ops)
        BY DEF Ops, Reasons
      <4>2. th' = [th EXCEPT ![Power].at = "run", ![Power].todo = program]
        BY <3>2 DEF PowerDown, Dispatch
      <4> HIDE DEF program
      <4>3. th' = [th EXCEPT ![Power] = w]
        BY <3>1, <4>2 DEF TypeInv
      <4>4. w \in ThreadStates /\ Shape(Power, w)
        <5>1. th[Power] \in ThreadStates
          BY <3>1 DEF TypeInv
        <5>2. w \in ThreadStates
          BY <4>1, <5>1 DEF ThreadStates, Places
        <5>3. w.at = "run"
          BY <5>1 DEF ThreadStates
        <5> HIDE DEF w
        <5> QED
          BY <5>2, <5>3, DistinctThreads DEF Shape
      <4> QED
        BY <3>1, <4>3, <4>4 DEF Becomes
    <3>3. CASE PowerUp
      BY <3>1, <3>3, StartBecomes DEF PowerUp
    <3> QED
      BY <1>9, <3>1, <3>2, <3>3, DispatcherBecomes, WorkerBecomes, CompletionBecomes, BusBecomes
         DEF BusCompletes
  <2> QED
    BY <1>3, <2>1, <2>2, PnpKept
<1>10. CASE UNCHANGED vars
  BY <1>3, <1>10 DEF vars, deviceVars
<1> QED
  BY <1>4, <1>6, <1>7, <1>8, <1>9, <1>10 DEF Next, PnpThread, Requests

LEMMA RestartStep ==
    ASSUME TypeInv, RestartInv, [Next]_vars
    PROVE  RestartInv'
<1>1. removal' = "unwired" => removal = "unwired" \/ refsB = 0
  BY DEF Next, PnpThread, Requests, Dispatcher, InStop, StopCancel, StopSettle, ClientStop,
     StartSubmit, AbortPipes, AbortReturns, UnconfigureDevice, CloseB, Unwire, StartDevice,
     StopDevice, RemoveDevice, PowerDown, PowerUp, WorkerThread, WorkerBegin, Ladder,
     RecoverReset, RecoverResetFails, RecoverGivesUp, WorkerRelease, Completion, CompleteTake,
     CompleteResubmit, CompleteStop, CompleteReturn, BusCompletes, HostComplete, deviceVars,
     restartVars, vars
<1>2. removal' = "unwired" /\ refsB = 0 /\ removal # "unwired" => refsB' = 0
  BY DEF Next, PnpThread, Requests, Dispatcher, InStop, StopCancel, StopSettle, ClientStop,
     StartSubmit, AbortPipes, AbortReturns, UnconfigureDevice, CloseB, Unwire, StartDevice,
     StopDevice, RemoveDevice, PowerDown, PowerUp, WorkerThread, WorkerBegin, Ladder,
     RecoverReset, RecoverResetFails, RecoverGivesUp, WorkerRelease, Completion, CompleteTake,
     CompleteResubmit, CompleteStop, CompleteReturn, BusCompletes, HostComplete, deviceVars,
     restartVars, vars
<1>3. work' \in Nat /\ refsB' = work' + WorkerOut'
  BY RefsStep
<1>4. removal' = "unwired" => work' = 0 /\ th'[Worker].at = "idle"
  <2>1. CASE removal = "unwired"
    BY <2>1, RefsStep
  <2>2. CASE removal' = "unwired" /\ removal # "unwired"
    <3>1. work' \in Nat /\ work' + WorkerOut' = 0
      BY <1>1, <1>2, <1>3, <2>2
    <3>2. WorkerOut' \in {0, 1} /\ (th'[Worker].at = "idle" <=> WorkerOut' = 0)
      BY DEF WorkerOut
    <3>3. \A m \in Nat, n \in {0, 1} : m + n = 0 => m = 0 /\ n = 0
      OBVIOUS
    <3>4. work' = 0 /\ WorkerOut' = 0
      BY <3>1, <3>2, <3>3, Zenon
    <3> QED
      BY <3>2, <3>4
  <2> QED
    BY <2>1, <2>2
<1> QED
  BY <1>3, <1>4, CloseAheadStep DEF RestartInv

--------------------------------------------------------------------------------
(* The type invariant *)

LEMMA PoolTyped ==
    ASSUME TypeInv, [Next]_vars
    PROVE  /\ pool' \in [Irps -> PoolStates]
           /\ \A p \in Irps : OnBus(p)' => pool'[p].slot \in Slots
<1>0. pool \in [Irps -> PoolStates] /\ \A p \in Irps : OnBus(p) => pool[p].slot \in Slots
  BY DEF TypeInv, TypeOK, PoolStates
<1>1. CASE PoolShrinks
  BY <1>0, <1>1 DEF PoolShrinks, PoolKept, OnBus, FreeIrp
<1>2. ASSUME NEW p \in Irps, NEW s \in Slots, Submits(p, s)
      PROVE  /\ pool' \in [Irps -> PoolStates]
             /\ \A q \in Irps : OnBus(q)' => pool'[q].slot \in Slots
  <2>1. [at |-> "bus", slot |-> s] \in PoolStates
    BY DEF PoolStates
  <2>2. pool'[p] = [at |-> "bus", slot |-> s] /\ \A q \in Irps \ {p} : pool'[q] = pool[q]
    BY <1>0, <1>2 DEF Submits
  <2> QED
    BY <1>0, <1>2, <2>1, <2>2 DEF Submits, OnBus
<1> QED
  BY <1>1, <1>2, PoolStep

(* Everything but the threads and the pool. *)
Rest ==
    /\ PollStopMask \subseteq Reasons
    /\ Active \in [Slots -> BOOLEAN]
    /\ CancelLatch \in [Slots -> BOOLEAN]
    /\ Irp \in [Slots -> Irps \cup {NoIrp}]
    /\ InterruptPipe \in BOOLEAN
    /\ PollRestartPending \in BOOLEAN
    /\ removal \in {"none", "removing", "closed", "unwired"}
    /\ DevicePowerState \in {"D0", "D3"}
    /\ starts \in 0..MaxStarts /\ upsets \in 0..MaxUpsets

LEMMA StartRest ==
    ASSUME TypeInv, NEW t, NEW reason, PollStart(t, reason)
    PROVE  PollStopMask' \subseteq Reasons /\ Active' \in [Slots -> BOOLEAN]
BY DEF PollStart, TypeInv, TypeOK

LEMMA StopRest ==
    ASSUME TypeInv, NEW t, NEW reasons \in SUBSET Reasons, NEW s, PollStop(t, reasons, s)
    PROVE  /\ PollStopMask' \subseteq Reasons /\ Active' \in [Slots -> BOOLEAN]
           /\ CancelLatch' \in [Slots -> BOOLEAN]
<1>1. PollStopMask' \subseteq Reasons
  BY DEF PollStop, TypeInv, TypeOK
<1>2. \A i \in Slots : (Active[i] /\ i # s) \in BOOLEAN
  BY Zenon
<1>3. Active' = [i \in Slots |-> Active[i] /\ i # s]
  BY DEF PollStop
<1>4. \E T : CancelLatch' = [i \in Slots |-> CancelLatch[i] \/ i \in T]
  BY DEF PollStop
<1>5. PICK T : CancelLatch' = [i \in Slots |-> CancelLatch[i] \/ i \in T]
  BY <1>4
<1>6. \A i \in Slots : (CancelLatch[i] \/ i \in T) \in BOOLEAN
  BY Zenon
<1> QED
  BY <1>1, <1>2, <1>3, <1>5, <1>6, Zenon

LEMMA InStopRest ==
    ASSUME TypeInv, NEW t, InStop(t)
    PROVE  Rest'
<1>0. Rest
  BY DEF TypeInv, TypeOK, Rest
<1>1. CASE StopCancel(t)
  BY <1>0, <1>1 DEF StopCancel, Rest, slotVars, restartVars, deviceVars, bounds
<1>2. CASE StopSettle(t)
  <2>1. CancelLatch' \in [Slots -> BOOLEAN]
    <3>1. CancelLatch' = [i \in Slots |-> CancelLatch[i] /\ th[t].cancel[i] = NoIrp]
      BY <1>2 DEF StopSettle
    <3>2. \A i \in Slots : (CancelLatch[i] /\ th[t].cancel[i] = NoIrp) \in BOOLEAN
      BY Zenon
    <3> QED
      BY <3>1, <3>2, Zenon
  <2> QED
    BY <1>0, <1>2, <2>1 DEF StopSettle, Rest, restartVars, deviceVars, bounds
<1> QED
  BY <1>1, <1>2 DEF InStop

LEMMA SubmitRest ==
    ASSUME TypeInv, NEW s \in Slots, PollSubmit(s)
    PROVE  Irp' \in [Slots -> Irps \cup {NoIrp}]
BY PollSubmitPool DEF TypeInv, TypeOK

LEMMA RestStep ==
    ASSUME TypeInv, [Next]_vars
    PROVE  Rest'
<1>0. Rest
  BY DEF TypeInv, TypeOK, Rest
<1> USE DEF slotVars, restartVars, deviceVars, bounds
<1>1. ASSUME NEW t \in Threads, StartSubmit(t) PROVE Rest'
  <2>1. PollSubmit(NextSubmit(t)) /\ NextSubmit(t) \in Slots
    BY <1>1, NextSubmitIn DEF StartSubmit, NextSubmit
  <2> QED
    BY <1>0, <1>1, <2>1, SubmitRest DEF StartSubmit, Rest
<1>2. ASSUME NEW t, ClientStop(t) PROVE Rest'
  BY <1>0, <1>2, StopRest DEF ClientStop, Rest
<1>3. ASSUME NEW t, AbortPipes(t) \/ AbortReturns(t) PROVE Rest'
  BY <1>0, <1>3 DEF AbortPipes, AbortReturns, Rest
<1>4. ASSUME NEW t \in {Pnp, Power}, Dispatcher(t) PROVE Rest'
  BY <1>1, <1>2, <1>3, <1>4, InStopRest, ThreadsDiffer DEF Dispatcher
<1>5. ASSUME NEW t \in Dpcs, Completion(t) PROVE Rest'
  <2>1. CASE CompleteTake(t)
    <3>1. /\ Irp' = [Irp EXCEPT ![th[t].slot] = NoIrp]
          /\ CancelLatch' = [CancelLatch EXCEPT ![th[t].slot] = FALSE]
      BY <2>1 DEF CompleteTake
    <3> QED
      BY <1>0, <2>1, <3>1 DEF CompleteTake, Rest
  <2>2. CASE CompleteResubmit(t)
    <3>1. th[t].slot \in Slots
      BY <2>2, ThreadsDiffer DEF CompleteResubmit, TypeInv, Shape
    <3> QED
      BY <1>0, <2>2, <3>1, SubmitRest DEF CompleteResubmit, Rest
  <2>3. CASE CompleteStop(t)
    <3> DEFINE reasons == IF th[t].ok THEN {} ELSE {"error"}
    <3>1. reasons \in SUBSET Reasons /\ PollStop(t, reasons, th[t].slot)
      BY <2>3 DEF CompleteStop, Reasons
    <3> HIDE DEF reasons
    <3> QED
      BY <1>0, <2>3, <3>1, StopRest DEF CompleteStop, Rest
  <2>4. CASE CompleteReturn(t)
    BY <1>0, <2>4 DEF CompleteReturn, Rest
  <2> QED
    BY <1>5, <2>1, <2>2, <2>3, <2>4, InStopRest DEF Completion
<1>6. CASE UnconfigureDevice \/ CloseB \/ Unwire
  BY <1>0, <1>6 DEF UnconfigureDevice, CloseB, Unwire, Rest
<1>7. CASE StopDevice \/ RemoveDevice
  BY <1>0, <1>7 DEF StopDevice, RemoveDevice, Rest
<1>8. CASE StartDevice
  <2>1. starts' \in 0..MaxStarts
    BY <1>0, <1>8, PollConstants DEF StartDevice, Rest
  <2> QED
    BY <1>0, <1>8, <2>1, StartRest DEF StartDevice, Rest
<1>9. CASE PowerDown
  <2>1. upsets' \in 0..MaxUpsets
    BY <1>0, <1>9, PollConstants DEF PowerDown, Rest
  <2> QED
    BY <1>0, <1>9, <2>1 DEF PowerDown, Rest
<1>10. CASE PowerUp
  BY <1>0, <1>10, StartRest DEF PowerUp, Rest
<1>11. CASE WorkerBegin \/ RecoverResetFails \/ RecoverGivesUp \/ WorkerRelease
  BY <1>0, <1>11 DEF WorkerBegin, RecoverResetFails, RecoverGivesUp, WorkerRelease, Rest
<1>12. CASE RecoverReset
  BY <1>0, <1>12, StartRest DEF RecoverReset, Rest
<1>13. ASSUME NEW t, NEW p, NEW ok, HostComplete(t, p, ok) PROVE Rest'
  <2>1. upsets' \in 0..MaxUpsets
    BY <1>0, <1>13, PollConstants DEF HostComplete, Rest
  <2> QED
    BY <1>0, <1>13, <2>1 DEF HostComplete, Rest
<1>14. CASE UNCHANGED vars
  BY <1>0, <1>14 DEF vars, Rest
<1> QED
  BY <1>1, <1>4, <1>5, <1>6, <1>7, <1>8, <1>9, <1>10, <1>11, <1>12, <1>13, <1>14, ThreadsDiffer
     DEF Next, PnpThread, WorkerThread, Ladder, Requests, BusCompletes

LEMMA TypeStep ==
    ASSUME TypeInv, RestartInv, [Next]_vars
    PROVE  TypeInv'
<1>1. work' \in Nat /\ refsB' \in Nat
  <2>1. work' \in Nat /\ refsB' = work' + WorkerOut'
    BY RefsStep
  <2>2. WorkerOut' \in {0, 1}
    BY DEF WorkerOut
  <2>3. \A m \in Nat, n \in {0, 1} : m + n \in Nat
    OBVIOUS
  <2> QED
    BY <2>1, <2>2, <2>3, Zenon
<1>2. /\ th' \in [Threads -> ThreadStates] /\ \A t \in Threads : Shape(t, th'[t])
      /\ pool' \in [Irps -> PoolStates]
      /\ \A p \in Irps : OnBus(p)' => pool'[p].slot \in Slots
  BY ThreadTyped, PoolTyped
<1>3. Rest'
  BY RestStep
<1>4. \A t \in Threads :
          /\ th'[t].at \in Places
          /\ th'[t].cancel \in [Slots -> Irps \cup {NoIrp}]
          /\ th'[t].submit \subseteq Slots
          /\ th'[t].slot \in Slots \cup {NoSlot}
          /\ th'[t].tries \in 0..RecoverTries
  BY <1>2 DEF ThreadStates
<1>5. TypeOK'
  BY <1>1, <1>2, <1>3, <1>4 DEF TypeOK, Rest, PoolStates, Places
<1> QED
  BY <1>2, <1>5 DEF TypeInv

LEMMA TypeInit == ASSUME Init PROVE TypeInv /\ RestartInv
<1>1. IdleThread \in ThreadStates /\ \A t : Shape(t, IdleThread)
  BY IdleTyped
<1>2. th \in [Threads -> ThreadStates] /\ \A t \in Threads : th[t] = IdleThread
  BY <1>1 DEF Init
<1>3. \A t \in Threads :
          /\ th[t].at \in Places
          /\ th[t].cancel \in [Slots -> Irps \cup {NoIrp}]
          /\ th[t].submit \subseteq Slots
          /\ th[t].slot \in Slots \cup {NoSlot}
          /\ th[t].tries \in 0..RecoverTries
  BY <1>2 DEF ThreadStates
<1>4. TypeOK
  <2>0. 0 \in 0..MaxStarts /\ 0 \in 0..MaxUpsets
    BY PollConstants
  <2>1. Rest /\ work \in Nat /\ refsB \in Nat
    <3>1. \A x \in BOOLEAN : [i \in Slots |-> x] \in [Slots -> BOOLEAN]
      BY Zenon
    <3>2. Active \in [Slots -> BOOLEAN] /\ CancelLatch \in [Slots -> BOOLEAN]
      BY <3>1, Zenon DEF Init
    <3>3. InterruptPipe \in BOOLEAN /\ PollRestartPending \in BOOLEAN
      BY Zenon DEF Init
    <3> QED
      BY <2>0, <3>2, <3>3 DEF Init, Rest, Reasons
  <2>2. pool \in [Irps -> PoolStates]
    BY DEF Init, FreeIrp, PoolStates
  <2> QED
    BY <1>3, <2>1, <2>2 DEF TypeOK, Rest, PoolStates, Places
<1>5. TypeInv
  BY <1>1, <1>2, <1>4 DEF TypeInv, Init, OnBus, FreeIrp
<1>6. th[Pnp].todo = <<>> /\ th[Worker].at = "idle"
  BY <1>2, ThreadsDiffer DEF IdleThread
<1>7. RestartInv
  BY <1>6 DEF RestartInv, CloseAhead, WorkerOut, Init
<1> QED
  BY <1>5, <1>7

--------------------------------------------------------------------------------
(* A slot is in one hand at a time *)

Holding == {"complete", "resubmit", "stop"}

OnBusFor(p, s) == OnBus(p) /\ pool[p].slot = s

(* A thread may submit for slot s, or is completing the read it had. *)
HasSlot(t, s) ==
    \/ th[t].at \in Holding /\ th[t].slot = s
    \/ th[t].at = "submit" /\ s \in th[t].submit

(***************************************************************************)
(* A slot that is not active is nobody's; an active one is with one read   *)
(* out, or with one thread, or was lost to a submit that failed.           *)
(***************************************************************************)
SlotInvOf(s) ==
    /\ \A p, q \in Irps : OnBusFor(p, s) /\ OnBusFor(q, s) => p = q
    /\ \A t, u \in Threads : HasSlot(t, s) /\ HasSlot(u, s) => t = u
    /\ \A p \in Irps, t \in Threads : ~(OnBusFor(p, s) /\ HasSlot(t, s))
    /\ \A p \in Irps : OnBusFor(p, s) => Active[s] /\ Irp[s] = p
    /\ \A t \in Threads : HasSlot(t, s) => Active[s]

SlotInv == \A s \in Slots : SlotInvOf(s)

(* The step gives slot s to no one new. *)
NoNewRead(s) == \A p \in Irps : OnBusFor(p, s)' => OnBusFor(p, s)
NoNewHolder(s) == \A t \in Threads : HasSlot(t, s)' => HasSlot(t, s)

LEMMA QuietStep ==
    ASSUME NEW s \in Slots, SlotInvOf(s), NoNewRead(s), NoNewHolder(s),
           Active[s] => Active'[s], Irp'[s] = Irp[s]
    PROVE  SlotInvOf(s)'
BY DEF SlotInvOf, NoNewRead, NoNewHolder

LEMMA ShrinkNoNewRead ==
    ASSUME PoolShrinks, NEW s \in Slots
    PROVE  NoNewRead(s)
BY DEF PoolShrinks, PoolKept, NoNewRead, OnBusFor, OnBus, FreeIrp

(* A thread that goes where no slot is held gives up what it had. *)
LEMMA AwayNoHolder ==
    ASSUME TypeInv, NEW t \in Threads, NEW w, th' = [th EXCEPT ![t] = w],
           w.at \notin Holding \cup {"submit"}, NEW s \in Slots
    PROVE  NoNewHolder(s) /\ ~HasSlot(t, s)' /\ \A u \in Threads \ {t} : th'[u] = th[u]
BY DEF TypeInv, NoNewHolder, HasSlot

LEMMA OnwardAway ==
    ASSUME NEW t \in Threads, NEW r \in ThreadStates
    PROVE  Onward(t, r).at \notin Holding \cup {"submit"}
<1>1. CASE t \in Dpcs
  <2>1. Onward(t, r) = [r EXCEPT !.at = "stopped"]
    BY <1>1 DEF Onward
  <2> QED
    BY <2>1 DEF ThreadStates, Holding
<1>2. CASE t \notin Dpcs /\ t = Worker
  <2>1. Onward(t, r) = [r EXCEPT !.at = "release"]
    BY <1>2 DEF Onward
  <2> QED
    BY <2>1 DEF ThreadStates, Holding
<1>3. CASE t \notin Dpcs /\ t # Worker /\ Len(r.todo) > 1
  <2>1. Onward(t, r) = [r EXCEPT !.at = "run", !.todo = Tail(@)]
    BY <1>3 DEF Onward
  <2> QED
    BY <2>1 DEF ThreadStates, Holding
<1>4. CASE t \notin Dpcs /\ t # Worker /\ ~(Len(r.todo) > 1)
  BY <1>4 DEF Onward, IdleThread, Holding
<1> QED
  BY <1>1, <1>2, <1>3, <1>4

(* The step leaves the slots alone, and the thread t goes where none is held. *)
Away(t) == \E w : th' = [th EXCEPT ![t] = w] /\ w.at \notin Holding \cup {"submit"}

LEMMA DoneAway ==
    ASSUME TypeInv, NEW t \in Threads, Done(t)
    PROVE  Away(t)
BY OnwardAway DEF Done, Away, TypeInv

LEMMA GotoAway ==
    ASSUME TypeInv, NEW t \in Threads, NEW to, Goto(t, to), to \notin Holding \cup {"submit"}
    PROVE  Away(t)
<1> DEFINE w == [th[t] EXCEPT !.at = to]
<1>1. th' = [th EXCEPT ![t] = w] /\ w.at = to
  BY DEF Goto, TypeInv, ThreadStates
<1> HIDE DEF w
<1> QED
  BY <1>1 DEF Away

LEMMA AwayQuiet ==
    ASSUME TypeInv, SlotInv, NEW t \in Threads, Away(t), PoolShrinks,
           Active' = Active, Irp' = Irp
    PROVE  SlotInv'
<1>1. PICK w : th' = [th EXCEPT ![t] = w] /\ w.at \notin Holding \cup {"submit"}
  BY DEF Away
<1>2. ASSUME NEW s \in Slots PROVE SlotInvOf(s)'
  <2>1. NoNewRead(s)
    BY ShrinkNoNewRead
  <2>2. NoNewHolder(s)
    BY <1>1, AwayNoHolder
  <2> QED
    BY <2>1, <2>2, QuietStep DEF SlotInv
<1> QED
  BY <1>2 DEF SlotInv

LEMMA InStopAway ==
    ASSUME TypeInv, NEW t \in Threads, InStop(t)
    PROVE  Away(t) /\ PoolShrinks /\ Active' = Active /\ Irp' = Irp
<1>1. CASE StopCancel(t)
  BY <1>1, GotoAway, InStopPool DEF StopCancel, InStop, Holding, slotVars
<1>2. CASE StopSettle(t)
  <2> DEFINE r == [th[t] EXCEPT !.cancel = NoCancel]
  <2>1. th' = [th EXCEPT ![t] = Onward(t, r)]
    BY <1>2 DEF StopSettle
  <2>2. NoCancel \in [Slots -> Irps \cup {NoIrp}]
    BY DEF NoCancel
  <2>3. r \in ThreadStates
    BY <2>2 DEF TypeInv, ThreadStates
  <2> HIDE DEF r
  <2>4. Away(t)
    BY <2>1, <2>3, OnwardAway DEF Away
  <2> QED
    BY <1>2, <2>4, InStopPool DEF StopSettle, InStop
<1> QED
  BY <1>1, <1>2 DEF InStop

LEMMA StartSlots ==
    ASSUME TypeInv, SlotInv, NEW t \in Threads, NEW reason, PollStart(t, reason),
           th[t].at \in {"idle", "recover"}, pool' = pool, Irp' = Irp
    PROVE  SlotInv'
<1> DEFINE out == {i \in Slots : ~Active[i]}
<1>0. th \in [Threads -> ThreadStates] /\ \A s \in Slots : ~HasSlot(t, s)
  BY DEF TypeInv, HasSlot, Holding
<1>1. \A i \in Slots : Active[i] => Active'[i]
  BY DEF PollStart
<1>2. PoolShrinks
  BY SamePool
<1> SUFFICES ASSUME NEW s \in Slots PROVE SlotInvOf(s)'
  BY DEF SlotInv
<1>3. NoNewRead(s)
  BY <1>2, ShrinkNoNewRead
<1>4. CASE Done(t)
  <2>1. Away(t)
    BY <1>4, DoneAway
  <2>2. PICK w : th' = [th EXCEPT ![t] = w] /\ w.at \notin Holding \cup {"submit"}
    BY <2>1 DEF Away
  <2>3. NoNewHolder(s)
    BY <2>2, AwayNoHolder
  <2> QED
    BY <1>1, <1>3, <2>3, QuietStep DEF SlotInv
<1>5. CASE ~Done(t)
  <2>1. /\ th' = [th EXCEPT ![t].at = "submit", ![t].submit = out]
        /\ Active' = [i \in Slots |-> TRUE]
    BY <1>5, Zenon DEF PollStart
  <2>2. s \in out <=> ~Active[s]
    OBVIOUS
  <2> HIDE DEF out
  <2>3. /\ th'[t].at = "submit" /\ th'[t].submit = out
        /\ \A u \in Threads \ {t} : th'[u] = th[u]
    BY <1>0, <2>1 DEF ThreadStates
  <2>4. HasSlot(t, s)' <=> ~Active[s]
    BY <2>2, <2>3 DEF HasSlot, Holding
  <2>5. \A u \in Threads \ {t} : HasSlot(u, s)' <=> HasSlot(u, s)
    BY <2>3 DEF HasSlot
  <2>6. Active'[s] = TRUE
    BY <2>1
  <2>7. \A p \in Irps : OnBusFor(p, s)' <=> OnBusFor(p, s)
    BY DEF OnBusFor, OnBus
  <2>8. SlotInvOf(s)
    BY DEF SlotInv
  <2> QED
    BY <1>0, <2>4, <2>5, <2>6, <2>7, <2>8 DEF SlotInvOf
<1> QED
  BY <1>4, <1>5

(* AdaptoidPollStop retires slot z, if any: then it is the completion's own. *)
LEMMA StopSlots ==
    ASSUME TypeInv, SlotInv, NEW t \in Threads, NEW reasons, NEW z, PollStop(t, reasons, z),
           z \in Slots => th[t].at = "stop" /\ th[t].slot = z,
           pool' = pool, Irp' = Irp
    PROVE  SlotInv'
<1> DEFINE taken == {i \in Slots : (Active[i] /\ i # z) /\ ~CancelLatch[i]}
           cancel == [i \in Slots |-> IF i \in taken THEN Irp[i] ELSE NoIrp]
           last == z # NoSlot /\ Irp[Other(z)] = NoIrp
           r == [th[t] EXCEPT !.at = "cancel", !.cancel = cancel, !.last = last]
           w == IF cancel = NoCancel THEN Onward(t, r) ELSE r
<1>1. th' = [th EXCEPT ![t] = w]
  BY DEF PollStop
<1>2. cancel \in [Slots -> Irps \cup {NoIrp}] /\ last \in BOOLEAN
  BY DEF TypeInv, TypeOK
<1> HIDE DEF cancel, last
<1>3. r \in ThreadStates /\ r.at = "cancel"
  <2>1. th[t] \in ThreadStates
    BY DEF TypeInv
  <2> QED
    BY <1>2, <2>1 DEF ThreadStates, Places
<1> HIDE DEF r
<1>4. w.at \notin Holding \cup {"submit"}
  BY <1>3, OnwardAway DEF Holding
<1> HIDE DEF w
<1> SUFFICES ASSUME NEW s \in Slots PROVE SlotInvOf(s)'
  BY DEF SlotInv
<1>5. NoNewRead(s) /\ NoNewHolder(s) /\ ~HasSlot(t, s)'
  BY <1>1, <1>4, AwayNoHolder, SamePool, ShrinkNoNewRead
<1>6. Active' = [i \in Slots |-> Active[i] /\ i # z]
  BY DEF PollStop
<1>7. CASE s # z
  <2>1. Active[s] => Active'[s]
    BY <1>6, <1>7
  <2> QED
    BY <1>5, <2>1, QuietStep DEF SlotInv
<1>8. CASE s = z
  <2>1. HasSlot(t, s)
    BY <1>8 DEF HasSlot, Holding
  <2>2. (\A p \in Irps : ~OnBusFor(p, s)) /\ (\A u \in Threads : HasSlot(u, s) => u = t)
    BY <2>1 DEF SlotInv, SlotInvOf
  <2> QED
    BY <1>5, <2>2 DEF SlotInvOf, NoNewRead, NoNewHolder
<1> QED
  BY <1>7, <1>8

(***************************************************************************)
(* The holder of slot z gives it up, to the read it submits if there is    *)
(* memory and a pipe for one.                                              *)
(***************************************************************************)
LEMMA SubmitSlots ==
    ASSUME TypeInv, SlotInv, NEW t \in Threads, NEW z \in Slots, HasSlot(t, z), PollSubmit(z),
           ~HasSlot(t, z)', \A s \in Slots : NoNewHolder(s), Active' = Active
    PROVE  SlotInv'
<1> SUFFICES ASSUME NEW s \in Slots PROVE SlotInvOf(s)'
  BY DEF SlotInv
<1>0. SlotInvOf(s) /\ SlotInvOf(z) /\ NoNewHolder(s) /\ NoNewHolder(z)
  BY DEF SlotInv
<1>1. CASE pool' = pool /\ Irp' = Irp
  BY <1>0, <1>1, SamePool, ShrinkNoNewRead, QuietStep
<1>2. ASSUME NEW p \in Irps, Submits(p, z), Irp' = [Irp EXCEPT ![z] = p]
      PROVE  SlotInvOf(s)'
  <2>0. pool \in [Irps -> PoolStates] /\ Irp \in [Slots -> Irps \cup {NoIrp}]
    BY DEF TypeInv, TypeOK, PoolStates
  <2>1. /\ pool'[p].at = "bus" /\ pool'[p].slot = z
        /\ \A q \in Irps \ {p} : pool'[q] = pool[q]
    BY <1>2, <2>0 DEF Submits
  <2>2. Irp'[z] = p /\ \A i \in Slots \ {z} : Irp'[i] = Irp[i]
    BY <1>2, <2>0
  <2>3. CASE s # z
    <3>1. NoNewRead(s)
      BY <2>1, <2>3 DEF NoNewRead, OnBusFor, OnBus
    <3> QED
      BY <1>0, <2>2, <2>3, <3>1, QuietStep
  <2>4. CASE s = z
    <3>1. (\A q \in Irps : ~OnBusFor(q, z)) /\ (\A u \in Threads : HasSlot(u, z) => u = t)
          /\ Active[z]
      BY <1>0 DEF SlotInvOf
    <3>2. \A q \in Irps : OnBusFor(q, z)' => q = p
      BY <2>1, <3>1 DEF OnBusFor, OnBus
    <3>3. \A u \in Threads : ~HasSlot(u, z)'
      BY <1>0, <3>1 DEF NoNewHolder
    <3> QED
      BY <2>2, <2>4, <3>1, <3>2, <3>3 DEF SlotInvOf
  <2> QED
    BY <2>3, <2>4
<1> QED
  BY <1>1, <1>2, PollSubmitPool

LEMMA StartSubmitSlots ==
    ASSUME TypeInv, SlotInv, NEW t \in Threads, StartSubmit(t)
    PROVE  SlotInv'
<1> DEFINE r == [th[t] EXCEPT !.submit = {}]
<1> PICK z \in Slots : z = NextSubmit(t)
  BY NextSubmitIn DEF StartSubmit
<1>0. th \in [Threads -> ThreadStates] /\ th[t].at = "submit" /\ z \in th[t].submit
  BY NextSubmitIn DEF TypeInv, StartSubmit
<1>1. PollSubmit(z) /\ HasSlot(t, z) /\ Active' = Active
  BY <1>0 DEF StartSubmit, NextSubmit, HasSlot
<1>2. ~HasSlot(t, z)' /\ \A s \in Slots : NoNewHolder(s)
  <2>1. CASE th[t].submit = {z}
    <3>1. th' = [th EXCEPT ![t] = Onward(t, r)]
      BY <2>1 DEF StartSubmit, NextSubmit
    <3>2. r \in ThreadStates
      BY <1>0 DEF ThreadStates
    <3> HIDE DEF r
    <3> QED
      BY <1>0, <3>1, <3>2, OnwardAway, AwayNoHolder
  <2>2. CASE th[t].submit # {z}
    <3>1. th' = [th EXCEPT ![t].submit = @ \ {z}]
      BY <2>2 DEF StartSubmit, NextSubmit
    <3>2. /\ th'[t].at = "submit" /\ th'[t].submit = th[t].submit \ {z}
          /\ \A u \in Threads \ {t} : th'[u] = th[u]
      BY <1>0, <3>1 DEF ThreadStates
    <3>3. ~HasSlot(t, z)'
      BY <3>2 DEF HasSlot, Holding
    <3>4. ASSUME NEW s \in Slots, NEW u \in Threads, HasSlot(u, s)' PROVE HasSlot(u, s)
      <4>1. CASE u = t
        BY <1>0, <3>2, <3>4, <4>1 DEF HasSlot, Holding
      <4>2. CASE u # t
        BY <3>2, <3>4, <4>2 DEF HasSlot
      <4> QED
        BY <4>1, <4>2
    <3> QED
      BY <3>3, <3>4 DEF NoNewHolder
  <2> QED
    BY <2>1, <2>2
<1> QED
  BY <1>0, <1>1, <1>2, SubmitSlots

LEMMA IdleAway == IdleThread.at \notin Holding \cup {"submit"}
BY DEF IdleThread, Holding

LEMMA ResubmitSlots ==
    ASSUME TypeInv, SlotInv, NEW t \in Threads, CompleteResubmit(t)
    PROVE  SlotInv'
<1> PICK z \in Slots : z = th[t].slot
  BY DEF CompleteResubmit, TypeInv, Shape
<1>1. PollSubmit(z) /\ HasSlot(t, z) /\ Active' = Active
      /\ th' = [th EXCEPT ![t] = IdleThread]
  BY DEF CompleteResubmit, TypeInv, Shape, HasSlot, Holding
<1>2. ~HasSlot(t, z)' /\ \A s \in Slots : NoNewHolder(s)
  BY <1>1, IdleAway, AwayNoHolder
<1> QED
  BY <1>1, <1>2, SubmitSlots

LEMMA TakeSlots ==
    ASSUME TypeInv, SlotInv, NEW t \in Threads, CompleteTake(t)
    PROVE  SlotInv'
<1> DEFINE to == IF PollStopMask = {} /\ th[t].ok THEN "resubmit" ELSE "stop"
<1> PICK z \in Slots : z = th[t].slot
  BY DEF CompleteTake, TypeInv, Shape
<1>0. th \in [Threads -> ThreadStates] /\ th[t].at = "complete"
      /\ Irp \in [Slots -> Irps \cup {NoIrp}]
  BY DEF CompleteTake, TypeInv, TypeOK, Shape
<1>1. th' = [th EXCEPT ![t].at = to] /\ to \in Holding
  BY Zenon DEF CompleteTake, Goto, Holding
<1>2. Irp' = [Irp EXCEPT ![z] = NoIrp] /\ Active' = Active /\ PoolShrinks
  BY FreeShrinks DEF CompleteTake
<1> HIDE DEF to
<1>3. /\ th'[t].at = to /\ th'[t].slot = z
      /\ \A u \in Threads \ {t} : th'[u] = th[u]
  BY <1>0, <1>1 DEF ThreadStates
<1> SUFFICES ASSUME NEW s \in Slots PROVE SlotInvOf(s)'
  BY DEF SlotInv
<1>4. NoNewHolder(s)
  <2> SUFFICES ASSUME NEW u \in Threads, HasSlot(u, s)' PROVE HasSlot(u, s)
    BY DEF NoNewHolder
  <2>1. CASE u = t
    <3>1. th'[t].at # "submit"
      BY <1>1, <1>3 DEF Holding
    <3> QED
      BY <1>0, <1>3, <2>1, <3>1 DEF HasSlot, Holding
  <2>2. CASE u # t
    BY <1>3, <2>2 DEF HasSlot
  <2> QED
    BY <2>1, <2>2
<1>5. NoNewRead(s)
  BY <1>2, ShrinkNoNewRead
<1>6. CASE s # z
  BY <1>0, <1>2, <1>4, <1>5, <1>6, QuietStep DEF SlotInv
<1>7. CASE s = z
  <2>1. HasSlot(t, s)
    BY <1>0, <1>7 DEF HasSlot, Holding
  <2>2. SlotInvOf(s) /\ \A p \in Irps : ~OnBusFor(p, s)
    BY <2>1 DEF SlotInv, SlotInvOf
  <2> QED
    BY <1>2, <1>4, <1>5, <2>2 DEF SlotInvOf, NoNewRead, NoNewHolder
<1> QED
  BY <1>6, <1>7

LEMMA HostSlots ==
    ASSUME TypeInv, SlotInv, NEW t \in Dpcs, NEW p \in Irps, NEW ok \in BOOLEAN,
           HostComplete(t, p, ok)
    PROVE  SlotInv'
<1> PICK z \in Slots : z = pool[p].slot
  BY DEF HostComplete, TypeInv
<1>0. th \in [Threads -> ThreadStates] /\ t \in Threads /\ th[t].at = "idle" /\ OnBus(p)
  BY ThreadsDiffer DEF TypeInv, HostComplete
<1>1. th' = [th EXCEPT ![t].at = "complete", ![t].slot = z, ![t].ok = ok]
      /\ Active' = Active /\ Irp' = Irp
  BY DEF HostComplete, slotVars
<1>2. PoolShrinks /\ ~OnBus(p)'
  BY HostCompletePool
<1>3. /\ th'[t].at = "complete" /\ th'[t].slot = z
      /\ \A u \in Threads \ {t} : th'[u] = th[u]
  BY <1>0, <1>1 DEF ThreadStates
<1> SUFFICES ASSUME NEW s \in Slots PROVE SlotInvOf(s)'
  BY DEF SlotInv
<1>4. NoNewRead(s) /\ ~OnBusFor(p, s)' /\ SlotInvOf(s)
  BY <1>2, ShrinkNoNewRead DEF SlotInv, OnBusFor
<1>5. HasSlot(t, s)' <=> s = z
  BY <1>3 DEF HasSlot, Holding
<1>6. \A u \in Threads \ {t} : HasSlot(u, s)' <=> HasSlot(u, s)
  BY <1>3 DEF HasSlot
<1>7. CASE s # z
  <2>1. NoNewHolder(s)
    BY <1>5, <1>6, <1>7 DEF NoNewHolder
  <2> QED
    BY <1>1, <1>4, <2>1, QuietStep
<1>8. CASE s = z
  <2>1. OnBusFor(p, s)
    BY <1>0, <1>8 DEF OnBusFor
  <2>2. /\ Active[s] /\ \A q \in Irps : OnBusFor(q, s) => q = p
        /\ \A u \in Threads : ~HasSlot(u, s)
    BY <1>4, <2>1 DEF SlotInvOf
  <2>3. \A q \in Irps : ~OnBusFor(q, s)'
    BY <1>4, <2>2 DEF NoNewRead
  <2>4. \A u \in Threads : HasSlot(u, s)' => u = t
    BY <1>6, <2>2
  <2> QED
    BY <1>1, <2>2, <2>3, <2>4 DEF SlotInvOf
<1> QED
  BY <1>7, <1>8

LEMMA SlotStep ==
    ASSUME TypeInv, SlotInv, [Next]_vars
    PROVE  SlotInv'
<1> USE DEF slotVars
<1>1. ASSUME NEW t \in Threads, InStop(t) PROVE SlotInv'
  BY <1>1, InStopAway, AwayQuiet
<1>2. ASSUME NEW t \in Threads, Done(t), pool' = pool \/ BusReturnsAll, UNCHANGED slotVars
      PROVE  SlotInv'
  BY <1>2, DoneAway, AwayQuiet, SamePool, BusReturnsAllPool
<1>3. ASSUME NEW t \in {Pnp, Power}, Dispatcher(t) PROVE SlotInv'
  <2>0. t \in Threads
    BY ThreadsDiffer
  <2>1. CASE ClientStop(t)
    BY <2>0, <2>1, StopSlots, NoSlotIsNoSlot DEF ClientStop
  <2>2. CASE AbortPipes(t) /\ InterruptPipe
    BY <2>0, <2>2, GotoAway, AwayQuiet, BusReturnsAllPool DEF AbortPipes, Holding
  <2>3. CASE AbortReturns(t) \/ (AbortPipes(t) /\ ~InterruptPipe)
    BY <1>2, <2>0, <2>3 DEF AbortPipes, AbortReturns
  <2> QED
    BY <1>1, <1>3, <2>0, <2>1, <2>2, <2>3, StartSubmitSlots DEF Dispatcher
<1>4. ASSUME NEW t \in Dpcs, Completion(t) PROVE SlotInv'
  <2>0. t \in Threads
    BY ThreadsDiffer
  <2>1. CASE CompleteStop(t)
    BY <2>0, <2>1, StopSlots DEF CompleteStop
  <2>2. CASE CompleteReturn(t)
    <3>1. Away(t)
      BY <2>2, IdleAway DEF CompleteReturn, Away
    <3> QED
      BY <2>0, <2>2, <3>1, AwayQuiet, SamePool DEF CompleteReturn
  <2> QED
    BY <1>1, <1>4, <2>0, <2>1, <2>2, TakeSlots, ResubmitSlots DEF Completion
<1>5. CASE UnconfigureDevice \/ CloseB \/ Unwire
  BY <1>2, <1>5, ThreadsDiffer DEF UnconfigureDevice, CloseB, Unwire
<1>6. ASSUME NEW t \in {Pnp, Power}, NEW program, Dispatch(t, program), pool' = pool,
             UNCHANGED slotVars
      PROVE  SlotInv'
  <2> DEFINE w == [th[t] EXCEPT !.at = "run", !.todo = program]
  <2>0. t \in Threads
    BY ThreadsDiffer
  <2>1. th' = [th EXCEPT ![t] = w] /\ w.at = "run"
    BY <1>6, <2>0 DEF Dispatch, TypeInv, ThreadStates
  <2> HIDE DEF w
  <2>2. Away(t)
    BY <2>1 DEF Away, Holding
  <2> QED
    BY <1>6, <2>0, <2>2, AwayQuiet, SamePool
<1>7. CASE Requests
  BY <1>6, <1>7, StartSlots, ThreadsDiffer
     DEF Requests, StartDevice, StopDevice, RemoveDevice, PowerDown, PowerUp
<1>8. CASE WorkerThread
  <2>0. Worker \in Threads /\ th \in [Threads -> ThreadStates]
    BY ThreadsDiffer DEF TypeInv
  <2>1. CASE WorkerBegin \/ RecoverResetFails \/ RecoverGivesUp \/ WorkerRelease
    <3>1. \E w : th' = [th EXCEPT ![Worker] = w] /\ w \in ThreadStates /\ Shape(Worker, w)
      BY <2>1, WorkerBecomes DEF Becomes, WorkerThread, Ladder
    <3>2. PICK w : th' = [th EXCEPT ![Worker] = w] /\ w \in ThreadStates /\ Shape(Worker, w)
      BY <3>1
    <3>3. th'[Worker].at # "submit"
      <4>1. CASE WorkerBegin \/ RecoverGivesUp
        BY <2>0, <4>1 DEF WorkerBegin, RecoverGivesUp, Goto, ThreadStates
      <4>2. CASE WorkerRelease
        BY <2>0, <4>2 DEF WorkerRelease, IdleThread
      <4>3. CASE RecoverResetFails
        BY <2>0, <4>3 DEF RecoverResetFails, ThreadStates
      <4> QED
        BY <2>1, <4>1, <4>2, <4>3
    <3>4. w.at \in {"idle", "recover", "release"}
      <4>1. th'[Worker] = w
        BY <2>0, <3>2
      <4> QED
        BY <3>2, <3>3, <4>1 DEF Shape
    <3>5. Away(Worker)
      BY <3>2, <3>4 DEF Away, Holding
    <3> QED
      BY <2>0, <2>1, <3>5, AwayQuiet, SamePool
         DEF WorkerBegin, RecoverResetFails, RecoverGivesUp, WorkerRelease
  <2>2. CASE RecoverReset
    BY <2>0, <2>2, StartSlots DEF RecoverReset
  <2> QED
    BY <1>8, <2>0, <2>1, <2>2, StartSubmitSlots DEF WorkerThread, Ladder
<1>9. CASE UNCHANGED vars
  BY <1>9 DEF vars, SlotInv, SlotInvOf, OnBusFor, OnBus, HasSlot
<1> QED
  BY <1>3, <1>4, <1>5, <1>7, <1>8, <1>9, HostSlots, ThreadsDiffer
     DEF Next, PnpThread, BusCompletes

--------------------------------------------------------------------------------
(* The theorems *)

PollInv == TypeInv /\ RestartInv /\ SlotInv

(***************************************************************************)
(* For any number of processors reads complete on: every slot is in one    *)
(* hand at a time, and RemoveLockB counts the restarts queued and running. *)
(***************************************************************************)
THEOREM PollInvariant == Spec => []PollInv
<1>1. Init => PollInv
  <2> SUFFICES ASSUME Init PROVE PollInv
    OBVIOUS
  <2>1. \A t \in Threads : th[t].at = "idle"
    BY DEF Init, IdleThread
  <2>2. \A p \in Irps : ~OnBus(p)
    BY DEF Init, OnBus, FreeIrp
  <2>3. SlotInv
    BY <2>1, <2>2 DEF SlotInv, SlotInvOf, OnBusFor, HasSlot, Holding
  <2> QED
    BY <2>3, TypeInit DEF PollInv
<1>2. PollInv /\ [Next]_vars => PollInv'
  BY TypeStep, RestartStep, SlotStep DEF PollInv
<1> QED
  BY <1>1, <1>2, PTL DEF Spec

(***************************************************************************)
(* The types of PollEngine's state, for every value of the constants.      *)
(***************************************************************************)
THEOREM PollTyped == Spec => []TypeOK
<1>1. PollInv => TypeOK
  BY DEF PollInv, TypeInv
<1> QED
  BY <1>1, PollInvariant, PTL

(***************************************************************************)
(* A slot never has two reads out, and its Irp field is the one it has:    *)
(* AdaptoidPollStart, racing completions and the restart worker included,  *)
(* never submits a second.                                                 *)
(***************************************************************************)
THEOREM OneReadPerSlotHolds == Spec => []OneReadPerSlot
<1>1. PollInv => OneReadPerSlot
  BY DEF PollInv, TypeInv, SlotInv, SlotInvOf, OnBusFor, OneReadPerSlot
<1> QED
  BY <1>1, PollInvariant, PTL

(***************************************************************************)
(* REMOVE does not take the device apart while a restart is queued or      *)
(* running: the completion's RemoveLockB reference covers the whole of it. *)
(***************************************************************************)
THEOREM RestartPinsDeviceHolds == Spec => []RestartPinsDevice
<1>1. PollInv => RestartPinsDevice
  BY DEF PollInv, RestartInv, RestartPinsDevice
<1> QED
  BY <1>1, PollInvariant, PTL
================================================================================

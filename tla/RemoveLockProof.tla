---------------------------- MODULE RemoveLockProof ----------------------------
(***************************************************************************)
(* Proofs about RemoveLock for every finite set of users.  The invariant   *)
(* that carries them: the count is exactly the references outstanding, the *)
(* flag follows the REMOVE thread, and whoever has signalled or is about   *)
(* to has seen the count reach zero with nobody inside.                    *)
(*                                                                         *)
(* And about ControlDevice, for any adapters, handles and requests and     *)
(* whatever the threads do to the unlocked queue: a WAIT_NOTIFY is with    *)
(* its cancel routine, with a cancellation, with one thread that claimed   *)
(* it or completed, in one of these at most.                               *)
(***************************************************************************)
EXTENDS RemoveLock, ControlDevice, FiniteSetTheorems, SequenceTheorems, TLAPS

FlagFollowsRemover == Removed <=> remover \notin {"running", "owner"}

QuietOnceSignalled ==
    (RemoveEvent \/ \E u \in Users : pc[u] = "signal")
        => remover \in {"waiting", "drained"} /\ Holders = {}

DrainedAfterEvent == remover = "drained" => RemoveEvent

LockInv ==
    /\ TypeOK
    /\ CountIsReferences
    /\ FlagFollowsRemover
    /\ QuietOnceSignalled
    /\ DrainedAfterEvent

(***************************************************************************)
(* Counted is finite, so its cardinality is a natural number.              *)
(***************************************************************************)
LEMMA CountedFinite ==
    /\ IsFiniteSet(Counted)
    /\ Cardinality(Counted) \in Nat
<1>1. Counted \subseteq Users
  BY DEF Counted
<1> QED
  BY <1>1, UsersFinite, FS_Subset, FS_CardinalityType

(***************************************************************************)
(* A user that goes from uncounted to counted adds one to Counted; one     *)
(* that goes the other way takes one away; other moves leave it alone.     *)
(***************************************************************************)
LEMMA CountedAdd ==
    ASSUME TypeOK, NEW u \in Users, NEW s \in {"counted", "refused", "held"},
           pc[u] \in {"idle", "signal"}, pc' = [pc EXCEPT ![u] = s]
    PROVE  Cardinality(Counted') = Cardinality(Counted) + 1
<1>1. Counted' = Counted \cup {u} /\ u \notin Counted
  BY DEF Counted, TypeOK
<1> QED
  BY <1>1, CountedFinite, FS_AddElement

LEMMA CountedRemove ==
    ASSUME TypeOK, NEW u \in Users, NEW s \in {"idle", "signal"},
           pc[u] \in {"counted", "refused", "held"}, pc' = [pc EXCEPT ![u] = s]
    PROVE  Cardinality(Counted') = Cardinality(Counted) - 1
<1>1. Counted' = Counted \ {u} /\ u \in Counted
  BY DEF Counted, TypeOK
<1> QED
  BY <1>1, CountedFinite, FS_RemoveElement

(***************************************************************************)
(* A count of one that a counted user accounts for means that user is the  *)
(* only one counted and the REMOVE thread has dropped both its references. *)
(***************************************************************************)
LEMMA LastReference ==
    ASSUME LockInv, NEW u \in Users, pc[u] \in {"refused", "held"}, IoCount = 1
    PROVE  Counted = {u} /\ remover \in {"waiting", "drained"}
<1>1. u \in Counted
  BY DEF Counted
<1>2. Cardinality(Counted \ {u}) = Cardinality(Counted) - 1
  BY <1>1, CountedFinite, FS_RemoveElement
<1>3. IsFiniteSet(Counted \ {u}) /\ Cardinality(Counted \ {u}) \in Nat
  BY CountedFinite, FS_Subset, FS_CardinalityType
<1>4. RemoverReferences \in 0..2 /\
      (RemoverReferences = 0 => remover \in {"waiting", "drained"})
  BY DEF RemoverReferences, LockInv, TypeOK, RemoverStates
<1>5. Cardinality(Counted \ {u}) = 0 /\ RemoverReferences = 0
  BY <1>2, <1>3, <1>4, CountedFinite DEF LockInv, CountIsReferences
<1>6. Counted \ {u} = {}
  BY <1>3, <1>5, FS_EmptySet
<1> QED
  BY <1>1, <1>4, <1>5, <1>6

LEMMA LockInitInv == Init => LockInv
<1> SUFFICES ASSUME Init PROVE LockInv
  OBVIOUS
<1> USE DEF Init, LockInit
<1>1. Counted = {} /\ Cardinality(Counted) = 0
  BY FS_EmptySet DEF Counted
<1>2. CountIsReferences
  BY <1>1 DEF CountIsReferences, RemoverReferences
<1> QED
  BY <1>2 DEF LockInv, TypeOK, UserStates, RemoverStates, FlagFollowsRemover,
     QuietOnceSignalled, DrainedAfterEvent

(***************************************************************************)
(* A user's decrement, on the refused path or in Release.                  *)
(***************************************************************************)
LEMMA DropReferenceInv ==
    ASSUME LockInv, NEW u \in Users, pc[u] \in {"refused", "held"}, DropReference(u)
    PROVE  LockInv'
<1> USE DEF LockInv
<1>0. PICK s \in {"idle", "signal"} :
         pc' = [pc EXCEPT ![u] = s] /\ (s = "signal" <=> IoCount = 1)
  BY DEF DropReference, Goto
<1>1. Cardinality(Counted') = Cardinality(Counted) - 1
  BY <1>0, CountedRemove
<1>2. Cardinality(Counted') \in Nat
  <2>1. Counted' \subseteq Users
    BY DEF Counted
  <2> QED
    BY <2>1, UsersFinite, FS_Subset, FS_CardinalityType
<1>3. RemoverReferences \in 0..2 /\ RemoverReferences' = RemoverReferences
  BY DEF RemoverReferences, DropReference, TypeOK, RemoverStates
<1>4. CountIsReferences' /\ IoCount' \in Nat
  BY <1>1, <1>2, <1>3, CountedFinite DEF CountIsReferences, DropReference
<1>5. TypeOK'
  BY <1>0, <1>4 DEF TypeOK, UserStates, DropReference
<1>6. FlagFollowsRemover' /\ DrainedAfterEvent'
  BY DEF FlagFollowsRemover, DrainedAfterEvent, DropReference
<1>7. QuietOnceSignalled'
  <2>1. Holders' \subseteq Holders
    BY <1>0 DEF Holders, TypeOK
  <2>2. CASE s = "signal"
    <3>1. Counted = {u} /\ remover \in {"waiting", "drained"}
      BY <2>2, <1>0, LastReference
    <3>2. Holders' = {}
      BY <3>1, <1>0, <2>2 DEF Holders, Counted, TypeOK
    <3> QED
      BY <3>1, <3>2 DEF QuietOnceSignalled, DropReference
  <2>3. CASE s = "idle"
    BY <2>1, <2>3, <1>0 DEF QuietOnceSignalled, DropReference, TypeOK
  <2> QED
    BY <2>2, <2>3
<1> QED
  BY <1>4, <1>5, <1>6, <1>7

(***************************************************************************)
(* A decrement by the REMOVE thread.  Only its second can be the last.     *)
(***************************************************************************)
LEMMA RemoverReleaseInv ==
    ASSUME LockInv, DropOwnReference \/ DropInitialReference
    PROVE  LockInv'
<1> USE DEF LockInv, DropOwnReference, DropInitialReference, RemoverRelease
<1>1. Counted' = Counted /\ Holders' = Holders
  BY DEF Counted, Holders
<1>2. RemoverReferences' = RemoverReferences - 1 /\ RemoverReferences \in 1..2
  BY DEF RemoverReferences
<1>3. CountIsReferences' /\ IoCount' \in Nat
  BY <1>1, <1>2, CountedFinite DEF CountIsReferences
<1>4. TypeOK'
  BY <1>3 DEF TypeOK, RemoverStates
<1>5. FlagFollowsRemover' /\ DrainedAfterEvent'
  BY DEF FlagFollowsRemover, DrainedAfterEvent
<1>6. ASSUME IoCount = 1
      PROVE  remover' = "waiting" /\ Holders = {}
  <2>1. RemoverReferences = 1 /\ Cardinality(Counted) = 0
    BY <1>2, <1>6, CountedFinite DEF CountIsReferences
  <2>2. Counted = {}
    BY <2>1, CountedFinite, FS_EmptySet
  <2>3. remover = "own_dropped"
    BY <2>1 DEF RemoverReferences
  <2> QED
    BY <2>2, <2>3 DEF Holders, Counted
<1>7. QuietOnceSignalled'
  BY <1>1, <1>6 DEF QuietOnceSignalled
<1> QED
  BY <1>3, <1>4, <1>5, <1>7

LEMMA LockNextInv == LockInv /\ [Next]_vars => LockInv'
<1> SUFFICES ASSUME LockInv, [Next]_vars PROVE LockInv'
  OBVIOUS
<1> USE DEF LockInv
<1>1. ASSUME NEW u \in Users, AcquireIncrement(u) PROVE LockInv'
  <2>1. Cardinality(Counted') = Cardinality(Counted) + 1
    BY <1>1, CountedAdd DEF AcquireIncrement, Goto
  <2>2. RemoverReferences \in 0..2 /\ RemoverReferences' = RemoverReferences
    BY <1>1 DEF RemoverReferences, AcquireIncrement, TypeOK, RemoverStates
  <2>3. CountIsReferences'
    BY <1>1, <2>1, <2>2, CountedFinite DEF CountIsReferences, AcquireIncrement, TypeOK
  <2>4. TypeOK'
    BY <1>1 DEF TypeOK, AcquireIncrement, Goto, UserStates
  <2>5. Holders' = Holders /\ \A v \in Users : pc'[v] = "signal" => pc[v] = "signal"
    BY <1>1 DEF Holders, TypeOK, AcquireIncrement, Goto
  <2> QED
    BY <1>1, <2>3, <2>4, <2>5 DEF FlagFollowsRemover, QuietOnceSignalled,
       DrainedAfterEvent, AcquireIncrement
<1>2. ASSUME NEW u \in Users, AcquireTest(u) PROVE LockInv'
  <2>1. Counted' = Counted
    BY <1>2 DEF Counted, TypeOK, AcquireTest, Goto
  <2>2. CountIsReferences'
    BY <1>2, <2>1 DEF CountIsReferences, AcquireTest, RemoverReferences
  <2>3. TypeOK'
    BY <1>2 DEF TypeOK, AcquireTest, Goto, UserStates
  <2>4. \A v \in Users : pc'[v] = "signal" => pc[v] = "signal"
    BY <1>2 DEF TypeOK, AcquireTest, Goto
  <2>5. Removed => Holders' = Holders
    BY <1>2 DEF Holders, TypeOK, AcquireTest, Goto
  <2> QED
    BY <1>2, <2>2, <2>3, <2>4, <2>5 DEF FlagFollowsRemover, QuietOnceSignalled,
       DrainedAfterEvent, AcquireTest
<1>3. ASSUME NEW u \in Users, AcquireUndo(u) PROVE LockInv'
  BY <1>3, DropReferenceInv DEF AcquireUndo
<1>4. ASSUME NEW u \in Users, Release(u) PROVE LockInv'
  BY <1>4, DropReferenceInv DEF Release
<1>5. ASSUME NEW u \in Users, Signal(u) PROVE LockInv'
  <2>1. Counted' = Counted /\ Holders' = Holders
    BY <1>5 DEF Counted, Holders, TypeOK, Signal, Goto
  <2>2. CountIsReferences'
    BY <1>5, <2>1 DEF CountIsReferences, Signal, RemoverReferences
  <2>3. TypeOK'
    BY <1>5 DEF TypeOK, Signal, Goto, UserStates
  <2> QED
    BY <1>5, <2>1, <2>2, <2>3 DEF FlagFollowsRemover, QuietOnceSignalled,
       DrainedAfterEvent, Signal
<1>6. CASE RemoverAcquire \/ SetRemoved \/ WaitReturns
  <2> USE DEF RemoverAcquire, SetRemoved, WaitReturns
  <2>1. Counted' = Counted /\ Holders' = Holders
    BY <1>6 DEF Counted, Holders
  <2>2. CountIsReferences'
    BY <1>6, <2>1, CountedFinite DEF CountIsReferences, RemoverReferences, TypeOK
  <2>3. IoCount' \in Nat /\ remover' \in RemoverStates /\ pc' = pc
    BY <1>6 DEF TypeOK, RemoverStates
  <2>4. Removed' \in BOOLEAN /\ RemoveEvent' \in BOOLEAN
    BY <1>6, Zenon DEF TypeOK
  <2>5. TypeOK'
    BY <2>3, <2>4 DEF TypeOK
  <2> QED
    BY <1>6, <2>1, <2>2, <2>5 DEF FlagFollowsRemover, QuietOnceSignalled,
       DrainedAfterEvent
<1>7. CASE DropOwnReference \/ DropInitialReference
  BY <1>7, RemoverReleaseInv
<1>8. CASE UNCHANGED vars
  BY <1>8 DEF vars, TypeOK, CountIsReferences, Counted, RemoverReferences, Holders,
     FlagFollowsRemover, QuietOnceSignalled, DrainedAfterEvent
<1> QED
  BY <1>1, <1>2, <1>3, <1>4, <1>5, <1>6, <1>7, <1>8 DEF Next, Acquire, ReleaseAndWait

(***************************************************************************)
(* The lock's invariant holds in every reachable state: for any number of  *)
(* users IoCount never loses or invents a reference.                       *)
(***************************************************************************)
THEOREM CountCorrect == Spec => [](TypeOK /\ CountIsReferences)
<1>1. LockInv => TypeOK /\ CountIsReferences
  BY DEF LockInv
<1> QED
  BY <1>1, LockInitInv, LockNextInv, PTL DEF Spec

(***************************************************************************)
(* When AdaptoidLockReleaseAndWait has returned, no user holds the lock.   *)
(***************************************************************************)
THEOREM DrainIsSafe == Spec => []NoHolderAfterDrain
<1>1. LockInv => NoHolderAfterDrain
  BY DEF LockInv, QuietOnceSignalled, DrainedAfterEvent, NoHolderAfterDrain
<1> QED
  BY <1>1, LockInitInv, LockNextInv, PTL DEF Spec

(***************************************************************************)
(* The count, flag and event implement the abstract gate: every step is a  *)
(* gate step or a stutter.                                                 *)
(***************************************************************************)
THEOREM LockImplementsGate == Spec => ImplementsGate
<1> USE DEF Gate!gateVars, GateOf
<1>1. Init => Gate!GateInit
  BY DEF Init, LockInit, Gate!GateInit, Holders
<1>2. LockInv /\ [Next]_vars => [Gate!GateNext]_(Gate!gateVars)
  <2> SUFFICES ASSUME LockInv, [Next]_vars
               PROVE  Gate!GateNext \/ UNCHANGED Gate!gateVars
    OBVIOUS
  <2> USE DEF LockInv, FlagFollowsRemover
  <2>1. ASSUME NEW u \in Users, AcquireTest(u), ~Removed
        PROVE  Gate!Enter(u)
    BY <2>1 DEF AcquireTest, Goto, Gate!Enter, Holders, TypeOK
  <2>2. ASSUME NEW u \in Users, Release(u)
        PROVE  Gate!Leave(u)
    BY <2>2 DEF Release, DropReference, Goto, Gate!Leave, Holders, TypeOK
  <2>3. ASSUME NEW u \in Users,
               AcquireIncrement(u) \/ AcquireUndo(u) \/ Signal(u)
                   \/ (AcquireTest(u) /\ Removed)
        PROVE  UNCHANGED Gate!gateVars
    BY <2>3 DEF AcquireIncrement, AcquireTest, AcquireUndo, Signal, DropReference,
       Goto, Holders, TypeOK
  <2>4. CASE SetRemoved
    BY <2>4 DEF SetRemoved, Holders, Gate!GateNext, Gate!StartClosing
  <2>5. CASE RemoverAcquire \/ DropOwnReference \/ DropInitialReference
    BY <2>5 DEF RemoverAcquire, DropOwnReference, DropInitialReference,
       RemoverRelease, Holders
  <2>6. CASE WaitReturns
    BY <2>6 DEF WaitReturns, Holders, QuietOnceSignalled, Gate!GateNext,
       Gate!FinishClosing
  <2>7. CASE UNCHANGED vars
    BY <2>7 DEF vars, Holders
  <2> QED
    BY <2>1, <2>2, <2>3, <2>4, <2>5, <2>6, <2>7
       DEF Next, Acquire, ReleaseAndWait, Gate!GateNext
<1> QED
  BY <1>1, <1>2, LockInitInv, LockNextInv, PTL DEF Spec, ImplementsGate, Gate!GateSpec
--------------------------------------------------------------------------------
(* The control device *)

(* A thread that claimed the request it has in hand and will complete it. *)
Won == {"pumpDeliver", "flushAbort", "cancelWon", "cancelAllWon"}

(* What a thread may still have to do when it returns. *)
Labels == {"unlock", "cancel", "cleaned", "uncount", "maybeDelete", "closed", "cancelAll", "flush",
           "delete", "post", "lastLeft", "release"}

Places == {"at", "w", "todo"}

Holds(t, r) == th[t].at \in Won /\ th[t].w = r

NobodyHas(r) == completions[r] = 0 /\ \A t \in Threads : ~Holds(t, r)

ThreadsShape ==
    /\ DOMAIN th = Threads
    /\ \A t \in Threads : DOMAIN th[t] = Places /\ th[t].todo \in Seq(Labels)

(* A request is with its cancel routine, with a cancellation, with one      *)
(* thread that claimed it, or completed: in one of these at most.           *)
ClaimedOnce(r) ==
    /\ completions[r] \in {0, 1}
    /\ th[r].at = "park" => irp[r] # "unsent"
    /\ irp[r] = "unsent" \/ th[r].at = "park" => r \notin routine /\ r \notin cancelling /\ NobodyHas(r)
    /\ r \in routine => r \notin cancelling /\ NobodyHas(r)
    /\ r \in cancelling => NobodyHas(r)
    /\ \A t \in Threads : Holds(t, r) => completions[r] = 0 /\ \A u \in Threads : Holds(u, r) => u = t

QueueInv ==
    /\ ThreadsShape
    /\ DOMAIN completions = Requests /\ DOMAIN irp = Requests
    /\ \A r \in Requests : ClaimedOnce(r)

LEMMA LabelsAre == \A l \in Labels \cup {"idle"} : l \notin Won /\ l # "park"
BY DEF Labels, Won

LEMMA ThenIs ==
    ASSUME NEW x, DOMAIN x = Places, x.todo \in Seq(Labels)
    PROVE  /\ DOMAIN Then(x) = Places /\ Then(x).todo \in Seq(Labels)
           /\ Then(x).at \in Labels \cup {"idle"}
<1>1. CASE x.todo = <<>>
  BY <1>1 DEF Then, Places
<1>2. CASE x.todo # <<>>
  <2>1. Head(x.todo) \in Labels /\ Tail(x.todo) \in Seq(Labels)
    BY <1>2, HeadTailProperties
  <2> QED
    BY <1>2, <2>1 DEF Then, Places
<1> QED
  BY <1>1, <1>2

(* Thread t goes to a place where it has claimed nothing. *)
Leaves(t) ==
    /\ DOMAIN th' = Threads /\ \A u \in Threads \ {t} : th'[u] = th[u]
    /\ DOMAIN th'[t] = Places /\ th'[t].todo \in Seq(Labels)
    /\ th'[t].at \notin Won /\ th'[t].at # "park"

LEMMA ReturnLeaves ==
    ASSUME ThreadsShape, NEW t \in Threads, Return(t)
    PROVE  Leaves(t)
<1>1. DOMAIN th[t] = Places /\ th[t].todo \in Seq(Labels) /\ DOMAIN th = Threads
  BY DEF ThreadsShape
<1>2. th'[t] = Then(th[t]) /\ DOMAIN th' = Threads /\ \A u \in Threads \ {t} : th'[u] = th[u]
  BY <1>1 DEF Return
<1> QED
  BY <1>1, <1>2, ThenIs, LabelsAre DEF Leaves

LEMMA CallLeaves ==
    ASSUME ThreadsShape, NEW t \in Threads, NEW program \in Seq(Labels), Call(t, program)
    PROVE  Leaves(t)
<1> DEFINE x == [th[t] EXCEPT !.todo = program \o @]
<1>1. DOMAIN th[t] = Places /\ th[t].todo \in Seq(Labels) /\ DOMAIN th = Threads
  BY DEF ThreadsShape
<1>2. DOMAIN x = Places /\ x.todo \in Seq(Labels)
  BY <1>1, ConcatProperties DEF Places
<1>3. th' = [th EXCEPT ![t] = Then(x)]
  BY DEF Call
<1> HIDE DEF x
<1>4. th'[t] = Then(x) /\ DOMAIN th' = Threads /\ \A u \in Threads \ {t} : th'[u] = th[u]
  BY <1>1, <1>3
<1> QED
  BY <1>2, <1>4, ThenIs, LabelsAre DEF Leaves

LEMMA GoOnIs ==
    ASSUME ThreadsShape, NEW t \in Threads, NEW place, GoOn(t, place)
    PROVE  /\ DOMAIN th' = Threads /\ \A u \in Threads \ {t} : th'[u] = th[u]
           /\ DOMAIN th'[t] = Places /\ th'[t].todo \in Seq(Labels)
           /\ th'[t].at = place /\ th'[t].w = th[t].w
BY DEF ThreadsShape, GoOn, Places

LEMMA GoOnLeaves ==
    ASSUME ThreadsShape, NEW t \in Threads, NEW place, GoOn(t, place), place \notin Won, place # "park"
    PROVE  Leaves(t)
BY GoOnIs DEF Leaves

LEMMA TakeLeaves ==
    ASSUME ThreadsShape, NEW t \in Threads, NEW w, NEW place, Take(t, w, place), place \notin Won, place # "park"
    PROVE  Leaves(t)
BY DEF ThreadsShape, Take, Places, Leaves

(* A step of a thread that claims and completes nothing. *)
LEMMA QuietStep ==
    ASSUME QueueInv, UNCHANGED irpVars, UNCHANGED th \/ \E t \in Threads : Leaves(t)
    PROVE  QueueInv'
<1>1. UNCHANGED <<irp, routine, cancelling, completions>>
  BY DEF irpVars
<1>2. CASE UNCHANGED th
  BY <1>1, <1>2 DEF QueueInv, ThreadsShape, ClaimedOnce, NobodyHas, Holds
<1>3. ASSUME NEW t \in Threads, Leaves(t) PROVE QueueInv'
  <2>1. \A u \in Threads, r \in Requests : Holds(u, r)' => Holds(u, r)
    BY <1>3 DEF Leaves, Holds
  <2>2. ThreadsShape'
    BY <1>3 DEF Leaves, ThreadsShape, QueueInv
  <2>3. ASSUME NEW r \in Requests PROVE ClaimedOnce(r)'
    <3>1. ClaimedOnce(r) /\ (NobodyHas(r) => NobodyHas(r)')
      BY <1>1, <2>1 DEF QueueInv, NobodyHas
    <3>2. th'[r].at = "park" => th[r].at = "park"
      BY <1>3 DEF Leaves, Threads
    <3> QED
      BY <1>1, <2>1, <3>1, <3>2 DEF ClaimedOnce
  <2> QED
    BY <1>1, <2>2, <2>3 DEF QueueInv
<1> QED
  BY <1>2, <1>3

(* The request that t has in hand is claimed, or was already. *)
LEMMA ClaimStep ==
    ASSUME QueueInv, NEW t \in Threads, NEW from, NEW won, NEW lost, ClaimIrp(t, from, won, lost),
           from \notin Won, lost \notin Won, lost # "park", won # "park"
    PROVE  QueueInv'
<1> DEFINE w == th[t].w
<1>1. /\ th[t].at = from /\ routine' = routine \ {w} /\ UNCHANGED <<irp, cancelling, completions>>
      /\ GoOn(t, IF w \in routine THEN won ELSE lost) /\ ThreadsShape
  BY DEF ClaimIrp, At, QueueInv
<1>2. /\ DOMAIN th' = Threads /\ \A u \in Threads \ {t} : th'[u] = th[u]
      /\ DOMAIN th'[t] = Places /\ th'[t].todo \in Seq(Labels)
      /\ th'[t].at = (IF w \in routine THEN won ELSE lost) /\ th'[t].w = w
  BY <1>1, GoOnIs
<1>3. ThreadsShape'
  BY <1>1, <1>2 DEF ThreadsShape
<1>4. \A u \in Threads, r \in Requests : Holds(u, r)' => Holds(u, r) \/ (u = t /\ r = w /\ w \in routine)
  BY <1>2 DEF Holds
<1>5. ASSUME NEW r \in Requests PROVE ClaimedOnce(r)'
  <2>1. ClaimedOnce(r)
    BY DEF QueueInv
  <2>2. th'[r].at = "park" => th[r].at = "park"
    BY <1>2 DEF Threads
  <2>3. CASE r = w /\ w \in routine
    <3>1. r \notin cancelling /\ NobodyHas(r) /\ irp[r] # "unsent" /\ th[r].at # "park"
      BY <2>1, <2>3 DEF ClaimedOnce
    <3>2. \A u \in Threads : Holds(u, r)' => u = t
      BY <1>4, <3>1 DEF NobodyHas
    <3> QED
      BY <1>1, <2>2, <2>3, <3>1, <3>2 DEF ClaimedOnce, NobodyHas
  <2>4. CASE ~(r = w /\ w \in routine)
    <3>1. \A u \in Threads : Holds(u, r)' => Holds(u, r)
      BY <1>4, <2>4
    <3>2. NobodyHas(r) => NobodyHas(r)'
      BY <1>1, <3>1 DEF NobodyHas
    <3> QED
      BY <1>1, <2>1, <2>2, <3>1, <3>2 DEF ClaimedOnce
  <2> QED
    BY <2>3, <2>4
<1> QED
  BY <1>1, <1>3, <1>5 DEF QueueInv

(* A thread completes the request it claimed, and goes on. *)
LEMMA CompleteStep ==
    ASSUME QueueInv, NEW t \in Threads, th[t].at \in Won, Complete(th[t].w), Leaves(t),
           UNCHANGED <<routine, cancelling>>
    PROVE  QueueInv'
<1> DEFINE w == th[t].w
<1>1. /\ DOMAIN completions' = Requests /\ DOMAIN irp' = Requests
      /\ \A r \in Requests : r # w => completions'[r] = completions[r] /\ irp'[r] = irp[r]
      /\ w \in Requests => completions'[w] = completions[w] + 1 /\ irp'[w] = "done"
  BY DEF Complete, QueueInv
<1>2. ThreadsShape'
  BY DEF Leaves, ThreadsShape, QueueInv
<1>3. \A u \in Threads, r \in Requests : Holds(u, r)' => Holds(u, r) /\ u # t
  BY DEF Leaves, Holds
<1>4. ASSUME NEW r \in Requests PROVE ClaimedOnce(r)'
  <2>1. ClaimedOnce(r)
    BY DEF QueueInv
  <2>2. th'[r].at = "park" => th[r].at = "park"
    BY DEF Leaves, Threads
  <2>3. CASE r = w
    <3>1. Holds(t, r)
      BY <2>3 DEF Holds
    <3>2. completions[r] = 0 /\ (\A u \in Threads : Holds(u, r) => u = t)
          /\ r \notin routine /\ r \notin cancelling /\ th[r].at # "park"
      BY <2>1, <3>1 DEF ClaimedOnce, NobodyHas
    <3>3. \A u \in Threads : ~Holds(u, r)'
      BY <1>3, <3>2
    <3>4. completions'[r] = 1 /\ irp'[r] = "done"
      BY <1>1, <2>3, <3>2
    <3> QED
      BY <2>2, <3>2, <3>3, <3>4 DEF ClaimedOnce
  <2>4. CASE r # w
    <3>1. completions'[r] = completions[r] /\ irp'[r] = irp[r]
      BY <1>1, <2>4
    <3>2. NobodyHas(r) => NobodyHas(r)'
      BY <1>3, <3>1 DEF NobodyHas
    <3> QED
      BY <1>3, <2>1, <2>2, <3>1, <3>2 DEF ClaimedOnce
  <2> QED
    BY <2>3, <2>4
<1> QED
  BY <1>1, <1>2, <1>4 DEF QueueInv

(* A cancellation takes the request, or completes the one it took. *)
LEMMA CancelStep ==
    ASSUME QueueInv, NEW r \in Requests, IoCancelIrp(r) \/ NotifyCancelRoutine(r)
    PROVE  QueueInv'
<1>1. th' = th /\ ThreadsShape'
  BY DEF IoCancelIrp, NotifyCancelRoutine, QueueInv, ThreadsShape
<1>2. \A u \in Threads, q \in Requests : Holds(u, q)' <=> Holds(u, q)
  BY <1>1 DEF Holds
<1>3. CASE IoCancelIrp(r)
  <2>1. /\ r \in routine /\ routine' = routine \ {r} /\ cancelling' = cancelling \cup {r}
        /\ UNCHANGED <<irp, completions>>
    BY <1>3 DEF IoCancelIrp
  <2>2. \A q \in Requests : NobodyHas(q)' <=> NobodyHas(q)
    BY <1>2, <2>1 DEF NobodyHas
  <2>3. ASSUME NEW q \in Requests PROVE ClaimedOnce(q)'
    <3>1. ClaimedOnce(q) /\ ClaimedOnce(r)
      BY DEF QueueInv
    <3> QED
      BY <1>1, <1>2, <2>1, <2>2, <3>1 DEF ClaimedOnce
  <2> QED
    BY <1>1, <2>1, <2>3 DEF QueueInv
<1>4. CASE NotifyCancelRoutine(r)
  <2>1. /\ r \in cancelling /\ cancelling' = cancelling \ {r} /\ routine' = routine
        /\ irp' = [irp EXCEPT ![r] = "done"] /\ completions' = [completions EXCEPT ![r] = @ + 1]
    BY <1>4 DEF NotifyCancelRoutine, Complete
  <2>2. /\ DOMAIN completions' = Requests /\ DOMAIN irp' = Requests
        /\ completions'[r] = completions[r] + 1 /\ irp'[r] = "done"
        /\ \A q \in Requests : q # r => completions'[q] = completions[q] /\ irp'[q] = irp[q]
    BY <2>1 DEF QueueInv
  <2>3. ASSUME NEW q \in Requests PROVE ClaimedOnce(q)'
    <3>1. ClaimedOnce(q)
      BY DEF QueueInv
    <3>2. CASE q = r
      <4>1. NobodyHas(q) /\ q \notin routine /\ th[q].at # "park"
        BY <2>1, <3>1, <3>2 DEF ClaimedOnce
      <4>2. completions'[q] = 1 /\ irp'[q] = "done"
        BY <2>2, <3>2, <4>1 DEF NobodyHas
      <4>3. \A u \in Threads : ~Holds(u, q)'
        BY <1>2, <4>1 DEF NobodyHas
      <4> QED
        BY <1>1, <2>1, <3>2, <4>1, <4>2, <4>3 DEF ClaimedOnce
    <3>3. CASE q # r
      <4>1. NobodyHas(q)' <=> NobodyHas(q)
        BY <1>2, <2>2, <3>3 DEF NobodyHas
      <4> QED
        BY <1>1, <1>2, <2>1, <2>2, <3>1, <3>3, <4>1 DEF ClaimedOnce
    <3> QED
      BY <3>2, <3>3
  <2> QED
    BY <1>1, <2>2, <2>3 DEF QueueInv
<1> QED
  BY <1>3, <1>4

(* A request is sent, and parked once. *)
LEMMA SendStep ==
    ASSUME QueueInv, NEW r \in Requests, Send(r)
    PROVE  QueueInv'
<1>1. /\ irp[r] = "unsent" /\ irp' = [irp EXCEPT ![r] = "sent"] /\ GoOn(r, "park") /\ r \in Threads
      /\ UNCHANGED <<routine, cancelling, completions>>
  BY DEF Send, Threads
<1>2. /\ DOMAIN th' = Threads /\ \A u \in Threads \ {r} : th'[u] = th[u]
      /\ DOMAIN th'[r] = Places /\ th'[r].todo \in Seq(Labels) /\ th'[r].at = "park"
  BY <1>1, GoOnIs DEF QueueInv
<1>3. ThreadsShape'
  BY <1>2 DEF ThreadsShape, QueueInv
<1>4. \A u \in Threads, q \in Requests : Holds(u, q)' => Holds(u, q)
  BY <1>2 DEF Holds, Won
<1>5. ASSUME NEW q \in Requests PROVE ClaimedOnce(q)'
  <2>1. ClaimedOnce(q) /\ (NobodyHas(q) => NobodyHas(q)')
    BY <1>1, <1>4 DEF QueueInv, NobodyHas
  <2>2. /\ q # r => (th'[q].at = "park" => th[q].at = "park") /\ irp'[q] = irp[q]
        /\ irp'[r] = "sent"
    BY <1>1, <1>2 DEF Threads, QueueInv
  <2> QED
    BY <1>1, <1>4, <2>1, <2>2 DEF ClaimedOnce
<1> QED
  BY <1>1, <1>3, <1>5 DEF QueueInv

LEMMA ParkStep ==
    ASSUME QueueInv, NEW r \in Requests, WaitPark(r)
    PROVE  QueueInv'
<1>1. /\ th[r].at = "park" /\ routine' = routine \cup {r} /\ r \in Threads
      /\ th' = [th EXCEPT ![r].at = "latch", ![r].todo = <<"unlock">>]
      /\ UNCHANGED <<irp, cancelling, completions>>
  BY DEF WaitPark, At, Threads
<1>2. <<"unlock">> \in Seq(Labels)
  BY DEF Labels
<1>3. Leaves(r)
  BY <1>1, <1>2 DEF Leaves, QueueInv, ThreadsShape, Places, Won
<1>4. ThreadsShape'
  BY <1>3 DEF Leaves, ThreadsShape, QueueInv
<1>5. \A u \in Threads, q \in Requests : Holds(u, q)' => Holds(u, q)
  BY <1>3 DEF Leaves, Holds
<1>6. ASSUME NEW q \in Requests PROVE ClaimedOnce(q)'
  <2>1. ClaimedOnce(q) /\ (NobodyHas(q) => NobodyHas(q)')
    BY <1>1, <1>5 DEF QueueInv, NobodyHas
  <2>2. th'[q].at = "park" => th[q].at = "park" /\ q # r
    BY <1>3 DEF Leaves, Threads
  <2>3. q = r => q \notin routine /\ q \notin cancelling /\ NobodyHas(q)
    BY <1>1, <2>1 DEF ClaimedOnce
  <2> QED
    BY <1>1, <1>5, <2>1, <2>2, <2>3 DEF ClaimedOnce
<1> QED
  BY <1>1, <1>4, <1>6 DEF QueueInv

LEMMA PumpKeeps ==
    ASSUME QueueInv, NEW t \in Threads, Pump(t)
    PROVE  QueueInv'
<1> USE DEF Won
<1>1. ThreadsShape
  BY DEF QueueInv
<1>2. CASE LatchTest(t)
  <2>1. Leaves(t)
    BY <1>1, <1>2, ReturnLeaves, GoOnLeaves DEF LatchTest
  <2> QED
    BY <1>2, <2>1, QuietStep DEF LatchTest
<1>3. CASE LatchSet(t)
  <2>1. Leaves(t)
    BY <1>1, <1>3, GoOnLeaves DEF LatchSet
  <2> QED
    BY <1>3, <2>1, QuietStep DEF LatchSet
<1>4. CASE PumpNext(t)
  <2>1. Leaves(t)
    BY <1>1, <1>4, GoOnLeaves, TakeLeaves DEF PumpNext
  <2> QED
    BY <1>4, <2>1, QuietStep DEF PumpNext
<1>5. CASE UnlinkHead(t, "pumpUnlink", "pumpClaim")
  <2>1. Leaves(t) \/ UNCHANGED th
    BY <1>1, <1>5, GoOnLeaves DEF UnlinkHead
  <2> QED
    BY <1>5, <2>1, QuietStep DEF UnlinkHead
<1>6. CASE ClaimIrp(t, "pumpClaim", "pumpDeliver", "pump")
  BY <1>6, ClaimStep
<1>7. CASE PumpDeliver(t)
  <2>1. CASE count = 0
    BY <1>7, <2>1, QuietStep DEF PumpDeliver, irpVars
  <2>2. CASE count # 0
    <3>1. Leaves(t) /\ th[t].at \in Won /\ Complete(th[t].w)
      BY <1>1, <1>7, <2>2, GoOnLeaves DEF PumpDeliver, At
    <3> QED
      BY <1>7, <3>1, CompleteStep DEF PumpDeliver
  <2> QED
    BY <2>1, <2>2
<1>8. CASE Unlatch(t)
  <2>1. Leaves(t)
    BY <1>1, <1>8, ReturnLeaves DEF Unlatch
  <2> QED
    BY <1>8, <2>1, QuietStep DEF Unlatch
<1> QED
  BY <1>2, <1>3, <1>4, <1>5, <1>6, <1>7, <1>8 DEF Pump

LEMMA FlushKeeps ==
    ASSUME QueueInv, NEW t \in Threads, Flush(t)
    PROVE  QueueInv'
<1> USE DEF Won
<1>1. ThreadsShape
  BY DEF QueueInv
<1>2. CASE FlushNext(t)
  <2>1. Leaves(t)
    BY <1>1, <1>2, ReturnLeaves, TakeLeaves DEF FlushNext
  <2> QED
    BY <1>2, <2>1, QuietStep DEF FlushNext
<1>3. CASE UnlinkHead(t, "flushUnlink", "flushClaim")
  <2>1. Leaves(t) \/ UNCHANGED th
    BY <1>1, <1>3, GoOnLeaves DEF UnlinkHead
  <2> QED
    BY <1>3, <2>1, QuietStep DEF UnlinkHead
<1>4. CASE ClaimIrp(t, "flushClaim", "flushAbort", "flush")
  BY <1>4, ClaimStep
<1>5. CASE FlushAbort(t)
  <2>1. Leaves(t) /\ th[t].at \in Won
    BY <1>1, <1>5, GoOnLeaves DEF FlushAbort, At
  <2> QED
    BY <1>5, <2>1, CompleteStep DEF FlushAbort
<1> QED
  BY <1>2, <1>3, <1>4, <1>5 DEF Flush

LEMMA CancelKeeps ==
    ASSUME QueueInv, NEW t \in Threads, CancelNotifications(t)
    PROVE  QueueInv'
<1> USE DEF Won
<1>1. ThreadsShape
  BY DEF QueueInv
<1>2. CASE CancelNext(t)
  <2>1. CASE Mine(t) = {}
    BY <1>1, <1>2, <2>1, ReturnLeaves, QuietStep DEF CancelNext
  <2>2. CASE Mine(t) # {}
    <3>1. \E w : Take(t, w, "cancelClaim") \/ Take(t, w, "cancelAllClaim")
      BY <1>2, <2>2 DEF CancelNext
    <3>2. Leaves(t)
      BY <1>1, <3>1, TakeLeaves
    <3> QED
      BY <1>2, <3>2, QuietStep DEF CancelNext
  <2> QED
    BY <2>1, <2>2
<1>3. CASE ClaimIrp(t, "cancelClaim", "cancelWon", "cancel")
  BY <1>3, ClaimStep
<1>4. CASE ClaimIrp(t, "cancelAllClaim", "cancelAllWon", "cancelAll")
  BY <1>4, ClaimStep
<1>5. CASE CancelComplete(t)
  <2>1. Leaves(t) /\ th[t].at \in Won
    BY <1>1, <1>5, GoOnLeaves DEF CancelComplete
  <2> QED
    BY <1>5, <2>1, CompleteStep DEF CancelComplete
<1> QED
  BY <1>2, <1>3, <1>4, <1>5 DEF CancelNotifications

LEMMA TeardownKeeps ==
    ASSUME QueueInv, NEW t \in Threads, Teardown(t)
    PROVE  QueueInv'
<1>1. ThreadsShape
  BY DEF QueueInv
<1>2. CASE MaybeDelete(t)
  <2>1. <<"cancelAll", "flush", "delete">> \in Seq(Labels)
    BY DEF Labels
  <2>2. Leaves(t)
    BY <1>1, <1>2, <2>1, CallLeaves, ReturnLeaves DEF MaybeDelete
  <2> QED
    BY <1>2, <2>2, QuietStep DEF MaybeDelete
<1>3. CASE IoDeleteDevice(t)
  BY <1>1, <1>3, ReturnLeaves, QuietStep DEF IoDeleteDevice
<1> QED
  BY <1>2, <1>3, CancelKeeps, FlushKeeps DEF Teardown

LEMMA HandleKeeps ==
    ASSUME QueueInv, NEW h \in Handles, CreateTest(h) \/ Cleanup(h) \/ HandleThread(h)
    PROVE  QueueInv'
<1>1. ThreadsShape /\ h \in Threads
  BY DEF QueueInv, Threads
<1>2. <<"cancel", "cleaned">> \in Seq(Labels)
      /\ <<"cancel", "uncount", "maybeDelete", "closed">> \in Seq(Labels)
  BY DEF Labels
<1>3. CASE CreateTest(h)
  BY <1>1, <1>3, GoOnLeaves, QuietStep DEF CreateTest, Won
<1>4. CASE Cleanup(h)
  BY <1>1, <1>2, <1>4, CallLeaves, QuietStep DEF Cleanup
<1>5. CASE CreateCount(h)
  BY <1>1, <1>5, GoOnLeaves, QuietStep DEF CreateCount, Won
<1>6. CASE Close(h)
  BY <1>1, <1>2, <1>6, CallLeaves, QuietStep DEF Close
<1>7. CASE CloseCount(h)
  BY <1>1, <1>7, ReturnLeaves, QuietStep DEF CloseCount
<1> QED
  BY <1>1, <1>3, <1>4, <1>5, <1>6, <1>7, TeardownKeeps DEF HandleThread

LEMMA SetLiveLeaves ==
    ASSUME ThreadsShape, NEW a \in Threads, NEW on, NEW after \in Seq(Labels), SetLive(a, on, after)
    PROVE  Leaves(a)
<1>1. CASE (a \in live) = on
  BY <1>1, CallLeaves DEF SetLive
<1>2. CASE (a \in live) # on
  <2> DEFINE left == IF on THEN <<>> ELSE <<"lastLeft">>
             program == <<"post">> \o left \o after
  <2>1. <<"post">> \in Seq(Labels) /\ left \in Seq(Labels)
    <3>1. <<"post">> \in Seq(Labels) /\ <<"lastLeft">> \in Seq(Labels) /\ <<>> \in Seq(Labels)
      BY DEF Labels
    <3>2. left = <<>> \/ left = <<"lastLeft">>
      BY Zenon
    <3> QED
      BY <3>1, <3>2
  <2>2. program \in Seq(Labels)
    BY <2>1, ConcatProperties
  <2>3. Call(a, program)
    BY <1>2 DEF SetLive
  <2> HIDE DEF program
  <2> QED
    BY <2>2, <2>3, CallLeaves
<1> QED
  BY <1>1, <1>2

LEMMA AdapterKeeps ==
    ASSUME QueueInv, NEW a \in Adapters,
           \/ CreateControlDevice(a) \/ ScriptEvent(a) \/ UnwireDevice(a) \/ AdapterThread(a)
           \/ \E on \in BOOLEAN : NotifyInterfaceChange(a, on)
    PROVE  QueueInv'
<1>1. ThreadsShape /\ a \in Threads
  BY DEF QueueInv, Threads
<1>2. <<"flush">> \in Seq(Labels) /\ <<>> \in Seq(Labels) /\ <<"release", "maybeDelete">> \in Seq(Labels)
  BY DEF Labels
<1>3. CASE CreateControlDevice(a)
  BY <1>3, QuietStep DEF CreateControlDevice
<1>4. CASE ScriptEvent(a)
  BY <1>1, <1>4, GoOnLeaves, QuietStep DEF ScriptEvent, Won
<1>5. CASE UnwireDevice(a)
  BY <1>1, <1>2, <1>5, SetLiveLeaves, QuietStep DEF UnwireDevice
<1>6. CASE PostAppend(a)
  BY <1>1, <1>6, GoOnLeaves, QuietStep DEF PostAppend, Won
<1>7. CASE LastLeft(a)
  BY <1>1, <1>2, <1>7, CallLeaves, QuietStep DEF LastLeft
<1>8. CASE ReleaseControlDevice(a)
  BY <1>1, <1>8, ReturnLeaves, QuietStep DEF ReleaseControlDevice
<1>9. ASSUME NEW on \in BOOLEAN, NotifyInterfaceChange(a, on) PROVE QueueInv'
  BY <1>1, <1>2, <1>9, SetLiveLeaves, QuietStep DEF NotifyInterfaceChange
<1> QED
  BY <1>1, <1>3, <1>4, <1>5, <1>6, <1>7, <1>8, <1>9, PumpKeeps, TeardownKeeps DEF AdapterThread

LEMMA RequestKeeps ==
    ASSUME QueueInv, NEW r \in Requests,
           Send(r) \/ Wait(r) \/ IoCancelIrp(r) \/ NotifyCancelRoutine(r)
    PROVE  QueueInv'
<1>1. ThreadsShape /\ r \in Threads
  BY DEF QueueInv, Threads
<1>2. CASE WaitUnlock(r)
  BY <1>1, <1>2, ReturnLeaves, QuietStep DEF WaitUnlock
<1> QED
  BY <1>1, <1>2, SendStep, ParkStep, PumpKeeps, CancelStep DEF Wait

(* Delivery, the flush of the last departure, the cancel routine, cleanup   *)
(* and the teardown of the device race for a parked WAIT_NOTIFY, on any     *)
(* number of threads, and at most one of them completes it.                 *)
THEOREM NotifyCompletedOnce == ControlSpec => []CompletedOnce
<1>1. ControlInit => QueueInv
  <2> SUFFICES ASSUME ControlInit PROVE QueueInv
    OBVIOUS
  <2>1. /\ th = [t \in Threads |-> Idle] /\ irp = [r \in Requests |-> "unsent"]
        /\ routine = {} /\ cancelling = {} /\ completions = [r \in Requests |-> 0]
    BY DEF ControlInit
  <2>2. DOMAIN Idle = Places /\ Idle.todo \in Seq(Labels) /\ Idle.at = "idle"
    BY DEF Idle, Places
  <2>3. \A t \in Threads : th[t] = Idle
    BY <2>1
  <2>4. ThreadsShape
    BY <2>1, <2>2, <2>3 DEF ThreadsShape
  <2>5. ASSUME NEW r \in Requests PROVE ClaimedOnce(r)
    BY <2>1, <2>2, <2>3 DEF ClaimedOnce, NobodyHas, Holds, Won, Threads
  <2> QED
    BY <2>1, <2>4, <2>5 DEF QueueInv
<1>2. QueueInv /\ [ControlNext]_controlVars => QueueInv'
  <2> SUFFICES ASSUME QueueInv, [ControlNext]_controlVars PROVE QueueInv'
    OBVIOUS
  <2>1. CASE UNCHANGED controlVars
    BY <2>1, QuietStep DEF controlVars
  <2> QED
    BY <2>1, AdapterKeeps, HandleKeeps, RequestKeeps DEF ControlNext
<1>3. QueueInv => CompletedOnce
  BY DEF QueueInv, ClaimedOnce, CompletedOnce
<1> QED
  BY <1>1, <1>2, <1>3, PTL DEF ControlSpec
================================================================================

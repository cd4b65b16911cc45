------------------------------ MODULE RemoveLock -------------------------------
(***************************************************************************)
(* ADAPTOID_REMOVE_LOCK: the count, flag and event that let REMOVE_DEVICE  *)
(* wait for outstanding work.  One step per interlocked operation, flag    *)
(* access or event call, so that an acquire and a drain interleave the way *)
(* they can on two processors.  The driver has two of these locks per      *)
(* device, RemoveLockA and RemoveLockB; both are used as modelled here.    *)
(***************************************************************************)
EXTENDS Naturals, FiniteSets

CONSTANT Users              \* IRPs, transfers and work items that take the lock

ASSUME UsersFinite == IsFiniteSet(Users)

VARIABLES IoCount, Removed, RemoveEvent,
          pc,               \* what each user is doing with the lock
          remover           \* how far the REMOVE_DEVICE thread has come

vars == <<IoCount, Removed, RemoveEvent, pc, remover>>

UserStates == {"idle", "counted", "refused", "held", "signal"}
RemoverStates == {"running", "owner", "flagged", "own_dropped", "waiting", "drained"}

TypeOK ==
    /\ IoCount \in Nat
    /\ Removed \in BOOLEAN
    /\ RemoveEvent \in BOOLEAN
    /\ pc \in [Users -> UserStates]
    /\ remover \in RemoverStates

(***************************************************************************)
(* AdaptoidLockInit.  The count starts at one: the reference that          *)
(* ReleaseAndWait drops, without which an idle device would signal at once.*)
(***************************************************************************)
LockInit ==
    /\ IoCount = 1
    /\ Removed = FALSE
    /\ RemoveEvent = FALSE

Init ==
    /\ LockInit
    /\ pc = [u \in Users |-> "idle"]
    /\ remover = "running"

Goto(u, s) == pc' = [pc EXCEPT ![u] = s]

(***************************************************************************)
(* A user's InterlockedDecrement; whoever takes the count to zero goes on  *)
(* to KeSetEvent.                                                          *)
(***************************************************************************)
DropReference(u) ==
    /\ IoCount' = IoCount - 1
    /\ Goto(u, IF IoCount = 1 THEN "signal" ELSE "idle")
    /\ UNCHANGED <<Removed, RemoveEvent, remover>>

(***************************************************************************)
(* Seeded faults, for checking that the properties below notice them:      *)
(* a refused acquire that keeps its reference, one that never signals, an  *)
(* acquire that does not look at the flag, a release that drops two.       *)
(***************************************************************************)
FaultUndoKeepsReference(u) ==
    /\ pc[u] = "refused"
    /\ Goto(u, "idle")
    /\ UNCHANGED <<IoCount, Removed, RemoveEvent, remover>>

FaultUndoNeverSignals(u) ==
    /\ pc[u] = "refused"
    /\ IoCount' = IoCount - 1
    /\ Goto(u, "idle")
    /\ UNCHANGED <<Removed, RemoveEvent, remover>>

FaultAcquireIgnoresFlag(u) ==
    /\ pc[u] = "counted"
    /\ Goto(u, "held")
    /\ UNCHANGED <<IoCount, Removed, RemoveEvent, remover>>

(***************************************************************************)
(* AdaptoidLockAcquire: increment first, test the flag second, put the     *)
(* reference straight back if the device is going.                         *)
(***************************************************************************)
AcquireIncrement(u) ==
    /\ pc[u] = "idle"
    /\ IoCount' = IoCount + 1
    /\ Goto(u, "counted")
    /\ UNCHANGED <<Removed, RemoveEvent, remover>>

AcquireTest(u) ==
    /\ pc[u] = "counted"
    /\ Goto(u, IF Removed THEN "refused" ELSE "held")
    /\ UNCHANGED <<IoCount, Removed, RemoveEvent, remover>>

AcquireUndo(u) ==
    /\ pc[u] = "refused"
    /\ DropReference(u)

(***************************************************************************)
(* AdaptoidLockRelease by a user that holds the lock.                      *)
(***************************************************************************)
Release(u) ==
    /\ pc[u] = "held"
    /\ DropReference(u)

Signal(u) ==
    /\ pc[u] = "signal"
    /\ RemoveEvent' = TRUE
    /\ Goto(u, "idle")
    /\ UNCHANGED <<IoCount, Removed, remover>>

(***************************************************************************)
(* The REMOVE_DEVICE thread: it takes a reference of its own (its result   *)
(* is not looked at: nobody else sets the flag), then                      *)
(* AdaptoidLockReleaseAndWait, which drops two and waits.                  *)
(***************************************************************************)
RemoverAcquire ==
    /\ remover = "running"
    /\ IoCount' = IoCount + 1
    /\ remover' = "owner"
    /\ UNCHANGED <<Removed, RemoveEvent, pc>>

FaultFlagNotRaised ==
    /\ remover = "owner"
    /\ remover' = "flagged"
    /\ UNCHANGED <<IoCount, Removed, RemoveEvent, pc>>

SetRemoved ==
    /\ remover = "owner"
    /\ Removed' = TRUE
    /\ remover' = "flagged"
    /\ UNCHANGED <<IoCount, RemoveEvent, pc>>

(***************************************************************************)
(* AdaptoidLockRelease by the REMOVE thread.  Its KeSetEvent comes before  *)
(* its own wait and nobody else waits, so it is one step with the          *)
(* decrement.                                                              *)
(***************************************************************************)
RemoverRelease(from, to) ==
    /\ remover = from
    /\ IoCount' = IoCount - 1
    /\ RemoveEvent' = (RemoveEvent \/ IoCount = 1)
    /\ remover' = to
    /\ UNCHANGED <<Removed, pc>>

DropOwnReference == RemoverRelease("flagged", "own_dropped")

DropInitialReference == RemoverRelease("own_dropped", "waiting")

WaitReturns ==
    /\ remover = "waiting"
    /\ RemoveEvent
    /\ remover' = "drained"
    /\ UNCHANGED <<IoCount, Removed, RemoveEvent, pc>>

Acquire(u) == AcquireIncrement(u) \/ AcquireTest(u) \/ AcquireUndo(u)

ReleaseAndWait ==
    \/ SetRemoved
    \/ DropOwnReference
    \/ DropInitialReference
    \/ WaitReturns

Next ==
    \/ \E u \in Users : Acquire(u) \/ Release(u) \/ Signal(u)
    \/ RemoverAcquire
    \/ ReleaseAndWait

Spec == Init /\ [][Next]_vars

(***************************************************************************)
(* A thread inside one of these routines keeps running, and work that      *)
(* holds the lock ends: IRPs complete or are cancelled.  Nothing makes a   *)
(* user acquire, and nothing makes a REMOVE arrive.                        *)
(***************************************************************************)
Fairness ==
    /\ \A u \in Users :
          WF_vars(AcquireTest(u) \/ AcquireUndo(u) \/ Release(u) \/ Signal(u))
    /\ WF_vars(ReleaseAndWait)

FairSpec == Spec /\ Fairness

--------------------------------------------------------------------------------

Holders == {u \in Users : pc[u] = "held"}

(***************************************************************************)
(* The users whose reference is in IoCount: holders, and acquirers that    *)
(* have incremented and not yet given it back.                             *)
(***************************************************************************)
Counted == {u \in Users : pc[u] \in {"counted", "refused", "held"}}

(***************************************************************************)
(* References of the REMOVE thread still in IoCount, the initial one       *)
(* included.                                                               *)
(***************************************************************************)
RemoverReferences ==
    CASE remover \in {"running", "own_dropped"} -> 1
      [] remover \in {"owner", "flagged"} -> 2
      [] OTHER -> 0

(***************************************************************************)
(* IoCount is exactly the references outstanding: no path of Acquire,      *)
(* Release or ReleaseAndWait loses or invents one.                         *)
(***************************************************************************)
CountIsReferences == IoCount = Cardinality(Counted) + RemoverReferences

(***************************************************************************)
(* Once ReleaseAndWait has returned, nobody holds the lock: REMOVE may     *)
(* free what holders use.  A refused acquirer may still be passing through.*)
(***************************************************************************)
NoHolderAfterDrain == remover = "drained" => Holders = {}

(***************************************************************************)
(* ReleaseAndWait returns: the last reference out always signals, even if  *)
(* it belongs to an acquirer that was refused.  Acquirers that overlap     *)
(* without end would hold the count above zero, so the promise is made     *)
(* for when new requests stop arriving.                                    *)
(***************************************************************************)
RequestsStop == <>[][\A u \in Users : ~AcquireIncrement(u)]_vars

DrainCompletes == RequestsStop => (remover = "flagged" ~> remover = "drained")

(***************************************************************************)
(* The lock implements the gate: count, flag and event are how it is done. *)
(***************************************************************************)
GateOf ==
    IF remover = "drained" THEN "closed" ELSE IF Removed THEN "closing" ELSE "open"

Gate == INSTANCE DrainGate WITH inside <- Holders, gate <- GateOf

ImplementsGate == Gate!GateSpec
================================================================================

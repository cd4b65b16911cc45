------------------------------ MODULE ReportPath -------------------------------
(***************************************************************************)
(* The report queue and the parked reads: IOCTL_HID_READ_REPORT requests   *)
(* (AdaptoidReadReport, AdaptoidQueueRead), the report sink the core emits *)
(* into (AdaptoidReportSink, AdaptoidDequeueRead) and cancellation         *)
(* (IoCancelIrp, AdaptoidCancelReadIrp), interleaved.                      *)
(*                                                                         *)
(* ReportLock sections are single steps, except the parking one, which is  *)
(* two: IoCancelIrp does not take that lock and may come between them.     *)
(* RemoveLockB is the set of reads that hold a reference (module           *)
(* RemoveLock shows that this is what the lock amounts to).                *)
(***************************************************************************)
EXTENDS Naturals, Sequences, FiniteSets

CONSTANTS Reads,            \* IOCTL_HID_READ_REPORT requests, each sent once
          Sinks,            \* threads in the report sink: poll completion, script passes
          QueueMax,         \* ADAPTOID_REPORT_QUEUE_MAX
          MaxReports,       \* bound: reports emitted in a behaviour
          NoRead,           \* a null IRP pointer
          NoReport

ASSUME PathConstants ==
    /\ QueueMax \in Nat \ {0}
    /\ MaxReports \in Nat
    /\ NoRead \notin Reads
    /\ NoReport \notin 1..MaxReports

VARIABLES
    queue,                  \* ReportQueue from ReportHead, ReportCount long
    parked,                 \* PendingReads, oldest first
    reportLock,             \* the read parking under ReportLock, or NoRead
    routine,                \* routine[r]: the IRP has a CancelRoutine to exchange
    cancelFlag,             \* Irp->Cancel
    refsB,                  \* the reads holding a RemoveLockB reference
    completed,              \* how often each read has been completed
    reader,                 \* where AdaptoidReadReport(r) is
    canceller,              \* where IoCancelIrp(r) is
    sink,                   \* each sink thread: where it is, its report and its IRP
    emitted,                \* reports emitted so far: report n is the n-th
    delivered,              \* history: reports in the order they were given to reads
    ReportsDropped,         \* the reports that found the queue full
    removal                 \* REMOVE_DEVICE as far as RemoveLockB goes

cancelVars == <<cancelFlag, canceller>>
queueVars == <<queue, parked, reportLock>>
vars == <<queueVars, routine, refsB, completed, reader, cancelVars, sink, emitted,
          delivered, ReportsDropped, removal>>

Reports == 1..MaxReports

SinkIdle == [at |-> "idle", report |-> NoReport, irp |-> NoRead]

TypeOK ==
    /\ queue \in Seq(Reports) /\ Len(queue) <= QueueMax
    /\ parked \in Seq(Reads)
    /\ reportLock \in Reads \cup {NoRead}
    /\ routine \in [Reads -> BOOLEAN]
    /\ cancelFlag \in [Reads -> BOOLEAN]
    /\ refsB \subseteq Reads
    /\ completed \in [Reads -> Nat]
    /\ reader \in [Reads -> {"new", "popped", "empty", "holding", "linked", "cancelled",
                             "returned"}]
    /\ canceller \in [Reads -> {"none", "flagged", "took", "unlinked", "done"}]
    /\ sink \in [Sinks -> [at : {"idle", "scan", "claim", "deliver", "release", "enqueue"},
                           report : Reports \cup {NoReport},
                           irp : Reads \cup {NoRead}]]
    /\ emitted \in 0..MaxReports
    /\ delivered \in Seq(Reports)
    /\ ReportsDropped \subseteq Reports
    /\ removal \in {"none", "removed", "drained", "unwired"}

Init ==
    /\ queue = <<>> /\ parked = <<>> /\ reportLock = NoRead
    /\ routine = [r \in Reads |-> FALSE]
    /\ cancelFlag = [r \in Reads |-> FALSE]
    /\ refsB = {}
    /\ completed = [r \in Reads |-> 0]
    /\ reader = [r \in Reads |-> "new"]
    /\ canceller = [r \in Reads |-> "none"]
    /\ sink = [s \in Sinks |-> SinkIdle]
    /\ emitted = 0
    /\ delivered = <<>>
    /\ ReportsDropped = {}
    /\ removal = "none"

ReadAt(r, from, to) == reader[r] = from /\ reader' = [reader EXCEPT ![r] = to]

CancelAt(r, from, to) == canceller[r] = from /\ canceller' = [canceller EXCEPT ![r] = to]

SinkGoto(s, to, n, i) == sink' = [sink EXCEPT ![s] = [at |-> to, report |-> n, irp |-> i]]

(***************************************************************************)
(* AdaptoidCompleteIrp.  From here the IRP is the I/O manager's again.     *)
(***************************************************************************)
Complete(r) == completed' = [completed EXCEPT ![r] = @ + 1]

Listed(r) == \E i \in DOMAIN parked : parked[i] = r

Unlink(list, r) ==
    IF \E i \in DOMAIN list : list[i] = r
    THEN LET i == CHOOSE i \in DOMAIN list : list[i] = r
         IN  SubSeq(list, 1, i - 1) \o SubSeq(list, i + 1, Len(list))
    ELSE list

(***************************************************************************)
(* AdaptoidClaimIrp: exchange the cancel routine for null; whoever finds   *)
(* one there owns the completion.                                          *)
(***************************************************************************)
FaultClaimAlwaysWins(r) == TRUE

ClaimIrp(r) == routine[r]

--------------------------------------------------------------------------------
(* AdaptoidReadReport *)

(***************************************************************************)
(* The oldest queued report, if there is one, answers the read.            *)
(***************************************************************************)
ReadPop(r) ==
    /\ reportLock = NoRead
    /\ queue # <<>>
    /\ ReadAt(r, "new", "popped")
    /\ delivered' = Append(delivered, Head(queue))
    /\ queue' = Tail(queue)
    /\ UNCHANGED <<parked, reportLock, routine, refsB, completed, cancelVars, sink, emitted,
                   ReportsDropped, removal>>

ReadFindsEmpty(r) ==
    /\ reportLock = NoRead
    /\ queue = <<>>
    /\ ReadAt(r, "new", "empty")
    /\ UNCHANGED <<queueVars, routine, refsB, completed, cancelVars, sink, emitted,
                   delivered, ReportsDropped, removal>>

ReadCompletePopped(r) ==
    /\ ReadAt(r, "popped", "returned")
    /\ Complete(r)
    /\ UNCHANGED <<queueVars, routine, refsB, cancelVars, sink, emitted, delivered,
                   ReportsDropped, removal>>

(***************************************************************************)
(* A parked read holds RemoveLockB; a departing device refuses it.         *)
(***************************************************************************)
ReadAcquire(r) ==
    /\ removal = "none"
    /\ ReadAt(r, "empty", "holding")
    /\ refsB' = refsB \cup {r}
    /\ UNCHANGED <<queueVars, routine, completed, cancelVars, sink, emitted, delivered,
                   ReportsDropped, removal>>

ReadRefused(r) ==
    /\ removal # "none"
    /\ ReadAt(r, "empty", "returned")
    /\ Complete(r)
    /\ UNCHANGED <<queueVars, routine, refsB, cancelVars, sink, emitted, delivered,
                   ReportsDropped, removal>>

(***************************************************************************)
(* AdaptoidQueueRead under ReportLock: link and install the cancel routine;*)
(* then, if IoCancelIrp came first and so found no routine to call, take   *)
(* the routine back and unlink; complete after the lock is dropped.        *)
(***************************************************************************)
QueueReadLink(r) ==
    /\ reportLock = NoRead
    /\ ReadAt(r, "holding", "linked")
    /\ parked' = Append(parked, r)
    /\ routine' = [routine EXCEPT ![r] = TRUE]
    /\ reportLock' = r
    /\ UNCHANGED <<queue, refsB, completed, cancelVars, sink, emitted, delivered,
                   ReportsDropped, removal>>

FaultParkIgnoresCancel(r) ==
    /\ reader[r] = "linked"
    /\ IF ClaimIrp(r)
       THEN /\ routine' = [routine EXCEPT ![r] = FALSE]
            /\ parked' = Unlink(parked, r)
            /\ ReadAt(r, "linked", "cancelled")
       ELSE /\ ReadAt(r, "linked", "returned")
            /\ UNCHANGED <<routine, parked>>
    /\ reportLock' = NoRead
    /\ UNCHANGED <<queue, refsB, completed, cancelVars, sink, emitted, delivered,
                   ReportsDropped, removal>>

QueueReadCheckCancel(r) ==
    /\ reader[r] = "linked"
    /\ IF cancelFlag[r] /\ ClaimIrp(r)
       THEN /\ routine' = [routine EXCEPT ![r] = FALSE]
            /\ parked' = Unlink(parked, r)
            /\ ReadAt(r, "linked", "cancelled")
       ELSE /\ ReadAt(r, "linked", "returned")
            /\ UNCHANGED <<routine, parked>>
    /\ reportLock' = NoRead
    /\ UNCHANGED <<queue, refsB, completed, cancelVars, sink, emitted, delivered,
                   ReportsDropped, removal>>

QueueReadCompleteCancelled(r) ==
    /\ ReadAt(r, "cancelled", "returned")
    /\ Complete(r)
    /\ refsB' = refsB \ {r}
    /\ UNCHANGED <<queueVars, routine, cancelVars, sink, emitted, delivered,
                   ReportsDropped, removal>>

--------------------------------------------------------------------------------
(* Cancellation *)

(***************************************************************************)
(* IoCancelIrp: raise Irp->Cancel, exchange the routine, call it if one    *)
(* was there.  hidclass cancels a request it has sent, once.               *)
(***************************************************************************)
IoCancelFlag(r) ==
    /\ completed[r] = 0
    /\ CancelAt(r, "none", "flagged")
    /\ cancelFlag' = [cancelFlag EXCEPT ![r] = TRUE]
    /\ UNCHANGED <<queueVars, routine, refsB, completed, reader, sink, emitted, delivered,
                   ReportsDropped, removal>>

IoCancelExchange(r) ==
    /\ CancelAt(r, "flagged", IF routine[r] THEN "took" ELSE "done")
    /\ routine' = [routine EXCEPT ![r] = FALSE]
    /\ UNCHANGED <<queueVars, refsB, completed, reader, cancelFlag, sink, emitted,
                   delivered, ReportsDropped, removal>>

(***************************************************************************)
(* AdaptoidCancelReadIrp: unlink if still listed, then complete whatever   *)
(* the unlink found.                                                       *)
(***************************************************************************)
FaultCancelTrustsList(r) ==
    /\ reportLock = NoRead
    /\ CancelAt(r, "took", IF Listed(r) THEN "unlinked" ELSE "done")
    /\ parked' = Unlink(parked, r)
    /\ UNCHANGED <<queue, reportLock, routine, refsB, completed, reader, cancelFlag, sink,
                   emitted, delivered, ReportsDropped, removal>>

CancelReadUnlink(r) ==
    /\ reportLock = NoRead
    /\ CancelAt(r, "took", "unlinked")
    /\ parked' = Unlink(parked, r)
    /\ UNCHANGED <<queue, reportLock, routine, refsB, completed, reader, cancelFlag, sink,
                   emitted, delivered, ReportsDropped, removal>>

CancelReadComplete(r) ==
    /\ CancelAt(r, "unlinked", "done")
    /\ Complete(r)
    /\ refsB' = refsB \ {r}
    /\ UNCHANGED <<queueVars, routine, reader, cancelFlag, sink, emitted, delivered,
                   ReportsDropped, removal>>

--------------------------------------------------------------------------------
(* AdaptoidReportSink *)

SinkEmit(s) ==
    /\ sink[s].at = "idle"
    /\ emitted < MaxReports
    /\ removal # "unwired"
    /\ emitted' = emitted + 1
    /\ SinkGoto(s, "scan", emitted + 1, NoRead)
    /\ UNCHANGED <<queueVars, routine, refsB, completed, reader, cancelVars, delivered,
                   ReportsDropped, removal>>

(***************************************************************************)
(* AdaptoidDequeueRead: unlink the oldest under the lock, claim it outside *)
(* the lock, go round again if cancellation had it first.                  *)
(***************************************************************************)
DequeueUnlink(s) ==
    /\ sink[s].at = "scan"
    /\ reportLock = NoRead
    /\ IF parked = <<>>
       THEN SinkGoto(s, "enqueue", sink[s].report, NoRead) /\ UNCHANGED parked
       ELSE SinkGoto(s, "claim", sink[s].report, Head(parked)) /\ parked' = Tail(parked)
    /\ UNCHANGED <<queue, reportLock, routine, refsB, completed, reader, cancelVars,
                   emitted, delivered, ReportsDropped, removal>>

DequeueClaim(s) ==
    LET r == sink[s].irp IN
    /\ sink[s].at = "claim"
    /\ IF ClaimIrp(r)
       THEN /\ delivered' = Append(delivered, sink[s].report)
            /\ SinkGoto(s, "deliver", NoReport, r)
       ELSE SinkGoto(s, "scan", sink[s].report, NoRead) /\ UNCHANGED delivered
    /\ routine' = [routine EXCEPT ![r] = FALSE]
    /\ UNCHANGED <<queueVars, refsB, completed, reader, cancelVars, emitted, ReportsDropped,
                   removal>>

SinkDeliver(s) ==
    /\ sink[s].at = "deliver"
    /\ Complete(sink[s].irp)
    /\ SinkGoto(s, "release", NoReport, sink[s].irp)
    /\ UNCHANGED <<queueVars, routine, refsB, reader, cancelVars, emitted, delivered,
                   ReportsDropped, removal>>

SinkRelease(s) ==
    /\ sink[s].at = "release"
    /\ refsB' = refsB \ {sink[s].irp}
    /\ SinkGoto(s, "idle", NoReport, NoRead)
    /\ UNCHANGED <<queueVars, routine, completed, reader, cancelVars, emitted, delivered,
                   ReportsDropped, removal>>

(***************************************************************************)
(* Nobody waiting: queue the report, or drop it if the queue is full.      *)
(***************************************************************************)
SinkEnqueue(s) ==
    /\ sink[s].at = "enqueue"
    /\ reportLock = NoRead
    /\ IF Len(queue) >= QueueMax
       THEN ReportsDropped' = ReportsDropped \cup {sink[s].report} /\ UNCHANGED queue
       ELSE queue' = Append(queue, sink[s].report) /\ UNCHANGED ReportsDropped
    /\ SinkGoto(s, "idle", NoReport, NoRead)
    /\ UNCHANGED <<parked, reportLock, routine, refsB, completed, reader, cancelVars,
                   emitted, delivered, removal>>

--------------------------------------------------------------------------------
(* Removal, as far as these reads see it *)

RaiseRemoved ==
    /\ removal = "none"
    /\ removal' = "removed"
    /\ UNCHANGED <<queueVars, routine, refsB, completed, reader, cancelVars, sink, emitted,
                   delivered, ReportsDropped>>

(***************************************************************************)
(* AdaptoidLockReleaseAndWait(RemoveLockB) returns.  A poll completion or  *)
(* a script pass in the timer DPC holds no reference and may still be      *)
(* emitting.                                                               *)
(***************************************************************************)
DrainB ==
    /\ removal = "removed"
    /\ refsB = {}
    /\ removal' = "drained"
    /\ UNCHANGED <<queueVars, routine, refsB, completed, reader, cancelVars, sink, emitted,
                   delivered, ReportsDropped>>

(***************************************************************************)
(* AdaptoidCancelPendingReads, from AdaptoidUnwireDevice: fail what is     *)
(* still parked and drop its references.  KeFlushQueuedDpcs has run: no    *)
(* script pass is left.                                                    *)
(***************************************************************************)
CancelPendingReads ==
    /\ removal = "drained"
    /\ \A s \in Sinks : sink[s].at = "idle"
    /\ reportLock = NoRead
    /\ LET mine == {r \in Reads : Listed(r) /\ ClaimIrp(r)} IN
       /\ completed' = [r \in Reads |-> completed[r] + (IF r \in mine THEN 1 ELSE 0)]
       /\ routine' = [r \in Reads |-> routine[r] /\ ~Listed(r)]
       /\ refsB' = refsB \ mine
    /\ parked' = <<>>
    /\ removal' = "unwired"
    /\ UNCHANGED <<queue, reportLock, reader, cancelVars, sink, emitted, delivered,
                   ReportsDropped>>

--------------------------------------------------------------------------------

ReadReport(r) ==
    \/ ReadPop(r) \/ ReadFindsEmpty(r) \/ ReadCompletePopped(r)
    \/ ReadAcquire(r) \/ ReadRefused(r)

QueueRead(r) == QueueReadLink(r) \/ QueueReadCheckCancel(r) \/ QueueReadCompleteCancelled(r)

CancelRead(r) == IoCancelExchange(r) \/ CancelReadUnlink(r) \/ CancelReadComplete(r)

ReportSink(s) ==
    \/ DequeueUnlink(s) \/ DequeueClaim(s)
    \/ SinkDeliver(s) \/ SinkRelease(s) \/ SinkEnqueue(s)

Next ==
    \/ \E r \in Reads : ReadReport(r) \/ QueueRead(r) \/ IoCancelFlag(r) \/ CancelRead(r)
    \/ \E s \in Sinks : SinkEmit(s) \/ ReportSink(s)
    \/ RaiseRemoved
    \/ DrainB
    \/ CancelPendingReads

Spec == Init /\ [][Next]_vars

(***************************************************************************)
(* Threads inside the driver keep running.  Nobody is made to send a       *)
(* read, cancel one, emit a report or remove the device.                   *)
(***************************************************************************)
Progress ==
    /\ \A r \in Reads :
          /\ WF_vars((reader[r] # "new" /\ ReadReport(r)) \/ QueueRead(r))
          /\ WF_vars(CancelRead(r))
    /\ \A s \in Sinks : WF_vars(ReportSink(s))
    /\ WF_vars(DrainB)
    /\ WF_vars(CancelPendingReads)

FairSpec == Spec /\ Progress

(***************************************************************************)
(* hidclass cancels every read it still has parked when the device goes    *)
(* (HIDCLASS!CancelAllPingPongIrps).                                       *)
(***************************************************************************)
HidclassCancels == \A r \in Reads : WF_vars(removal # "none" /\ IoCancelFlag(r))

RemovalSpec == FairSpec /\ HidclassCancels

--------------------------------------------------------------------------------

(***************************************************************************)
(* The claim decides: a read is completed at most once, whichever of the   *)
(* sink, the cancel routine and the parking thread gets there first.       *)
(***************************************************************************)
CompletedOnce == \A r \in Reads : completed[r] <= 1

(***************************************************************************)
(* Exactly the reads that are parked, or on their way into or out of the   *)
(* parked list, hold RemoveLockB: the count REMOVE waits for is neither    *)
(* short (freed under a read) nor over (a hang).                           *)
(***************************************************************************)
OwesReference(r) ==
    \/ reader[r] \in {"holding", "linked", "cancelled"}
    \/ routine[r]
    \/ canceller[r] \in {"took", "unlinked"}
    \/ \E s \in Sinks : sink[s].irp = r /\ sink[s].at \in {"deliver", "release"}

ReferencePerParkedRead == \A r \in Reads : r \in refsB <=> OwesReference(r)

(***************************************************************************)
(* No report is lost or duplicated: each one emitted is in exactly one of  *)
(* the sink's hands, the queue, the history of deliveries and the drop     *)
(* count.                                                                  *)
(***************************************************************************)
Copies(n) ==
    Cardinality({s \in Sinks : sink[s].report = n})
    + Cardinality({i \in DOMAIN queue : queue[i] = n})
    + Cardinality({i \in DOMAIN delivered : delivered[i] = n})
    + (IF n \in ReportsDropped THEN 1 ELSE 0)

ReportsAccounted == \A n \in Reports : Copies(n) = IF n <= emitted THEN 1 ELSE 0

(***************************************************************************)
(* A read that hidclass cancels comes back: the cancel landing between     *)
(* AdaptoidDequeueRead's unlink and its claim, or before the routine was   *)
(* installed, strands nobody.                                              *)
(***************************************************************************)
CancelledReadReturns ==
    \A r \in Reads : (cancelFlag[r] /\ reader[r] # "new") ~> completed[r] > 0

(***************************************************************************)
(* The wait for RemoveLockB ends once hidclass has cancelled what it       *)
(* parked, whatever the sinks and readers were doing.                      *)
(***************************************************************************)
RemovalEnds == removal = "removed" ~> removal = "unwired"

(***************************************************************************)
(* The comment on AdaptoidCancelPendingReads: "Fail every parked read. The *)
(* device going away does this."  Without anybody cancelling it, a read    *)
(* that is parked when REMOVE closes RemoveLockB comes back.               *)
(***************************************************************************)
RemovalFailsParkedReads ==
    \A r \in Reads : (removal # "none" /\ Listed(r)) ~> completed[r] > 0

(***************************************************************************)
(* Reports are given to reads in the order they were emitted, as the       *)
(* comment on AdaptoidReadReport promises ("keeps reports in order").      *)
(***************************************************************************)
ReportsInOrder ==
    \A i, j \in DOMAIN delivered : i < j => delivered[i] < delivered[j]

(***************************************************************************)
(* The comment on AdaptoidCancelReadIrp: "this routine holds the request   *)
(* exclusively".  When it completes the request, and the IRP stops being   *)
(* this driver's memory, no sink is still about to exchange its routine.   *)
(***************************************************************************)
CancelHoldsExclusively ==
    \A r \in Reads : completed[r] > 0 =>
        \A s \in Sinks : ~(sink[s].at = "claim" /\ sink[s].irp = r)

(***************************************************************************)
(* AdaptoidReadReport and AdaptoidReportSink implement the service of      *)
(* module ReadService: a read is served when it is given a report, and     *)
(* done when it is completed (twice is no state of the service); a report  *)
(* is in hand while a sink carries it.                                     *)
(***************************************************************************)
ReadState(r) ==
    IF completed[r] > 0 THEN IF completed[r] = 1 THEN "done" ELSE "twice"
    ELSE IF reader[r] = "popped" \/ \E s \in Sinks : sink[s].at = "deliver" /\ sink[s].irp = r
    THEN "served" ELSE "out"

ReadStates == [r \in Reads |-> ReadState(r)]
InHand == {sink[s].report : s \in Sinks} \ {NoReport}
CancelledReads == {r \in Reads : cancelFlag[r]}
Device ==
    IF removal = "none" THEN "there" ELSE IF removal = "unwired" THEN "gone" ELSE "leaving"

Service == INSTANCE ReadService WITH
    read <- ReadStates, waiting <- queue, hand <- InHand, given <- delivered,
    dropped <- ReportsDropped, cancelled <- CancelledReads, device <- Device

ImplementsService == Service!ServiceSpec
================================================================================

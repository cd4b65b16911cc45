------------------------------ MODULE ReportsProof ------------------------------
(***************************************************************************)
(* Proofs about the reports: which of them there are (InputReports), and   *)
(* how they reach the reads that wait for them (ReportPath).               *)
(*                                                                         *)
(* ReportPath is for any set of reads, any set of threads in the sink,     *)
(* every queue length and every number of reports.  Two invariants carry   *)
(* it: the right to complete a read is in one hand at a time (ReadInv),    *)
(* and a report is in one place at a time (ReportInv).                     *)
(*                                                                         *)
(* InputReports is for any adapters, clients, keys and scenarios.  There   *)
(* too it is two invariants: a table the host does not know of has a       *)
(* client that is about to tell (AllTold), and an enumeration has passed   *)
(* nobody it owes a name (Walked).                                         *)
(***************************************************************************)
EXTENDS ReportPath, InputReports, SequenceTheorems, FiniteSetTheorems, TLAPS

SinkPlaces == {"idle", "scan", "claim", "deliver", "release", "enqueue"}

SinkStates == [at : SinkPlaces, report : Reports \cup {NoReport}, irp : Reads \cup {NoRead}]

(* What a sink thread has in its hands where it is. *)
Shape(w) ==
    /\ w.at \in {"claim", "deliver", "release"} => w.irp \in Reads
    /\ w.at \in {"scan", "claim", "enqueue"} => w.report \in Reports
    /\ w.at \in {"idle", "deliver", "release"} => w.report = NoReport

TypeInv == TypeOK /\ \A s \in Sinks : Shape(sink[s])

--------------------------------------------------------------------------------
(* Types *)

(* AdaptoidUnlinkRead takes something off the list or leaves it as it is. *)
LEMMA UnlinkKeeps ==
    ASSUME NEW S, NEW list \in Seq(S), NEW r
    PROVE  /\ Unlink(list, r) \in Seq(S)
           /\ \A i \in DOMAIN Unlink(list, r) : \E j \in DOMAIN list : Unlink(list, r)[i] = list[j]
<1>1. CASE \E i \in DOMAIN list : list[i] = r
  <2> DEFINE k == CHOOSE i \in DOMAIN list : list[i] = r
             a == SubSeq(list, 1, k - 1)
             b == SubSeq(list, k + 1, Len(list))
  <2>1. k \in 1..Len(list)
    BY <1>1
  <2>2. Unlink(list, r) = a \o b
    BY <1>1 DEF Unlink
  <2> HIDE DEF k
  <2>3. /\ a \in Seq(S) /\ Len(a) = k - 1
        /\ \A i \in 1..(k - 1) : a[i] = list[i]
    BY <2>1, SubSeqProperties
  <2>4. /\ b \in Seq(S) /\ Len(b) = Len(list) - k
        /\ \A i \in 1..(Len(list) - k) : b[i] = list[k + i]
    <3>1. /\ b \in Seq(S) /\ Len(b) = IF k + 1 <= Len(list) THEN Len(list) - (k + 1) + 1 ELSE 0
          /\ \A i \in 1..(Len(list) - (k + 1) + 1) : b[i] = list[(k + 1) + i - 1]
      BY <2>1, SubSeqProperties
    <3> HIDE DEF b
    <3> QED
      BY <3>1, <2>1
  <2> HIDE DEF a, b
  <2>5. a \o b \in Seq(S) /\ Len(a \o b) = Len(list) - 1
    <3>1. a \o b \in Seq(S) /\ Len(a \o b) = Len(a) + Len(b)
      BY <2>3, <2>4, ConcatProperties, Zenon
    <3>2. Len(a) + Len(b) = Len(list) - 1
      BY <2>1, <2>3, <2>4
    <3> QED
      BY <3>1, <3>2
  <2>6. \A i \in 1..(Len(list) - 1) : (a \o b)[i] = IF i <= k - 1 THEN list[i] ELSE list[i + 1]
    <3>1. \A i \in 1..(Len(list) - 1) : (a \o b)[i] = IF i <= k - 1 THEN a[i] ELSE b[i - (k - 1)]
      BY <2>1, <2>3, <2>4, ConcatProperties
    <3> QED
      BY <3>1, <2>1, <2>3, <2>4
  <2> DEFINE u == Unlink(list, r)
  <2>7. u \in Seq(S) /\ DOMAIN u = 1..(Len(list) - 1)
    BY <2>2, <2>5
  <2>8. ASSUME NEW i \in 1..(Len(list) - 1) PROVE \E j \in DOMAIN list : u[i] = list[j]
    <3>1. i \in 1..Len(list) /\ i + 1 \in 1..Len(list) /\ DOMAIN list = 1..Len(list)
      BY <2>1
    <3>2. u[i] = list[i] \/ u[i] = list[i + 1]
      BY <2>2, <2>6
    <3> QED
      BY <3>1, <3>2
  <2> QED
    BY <2>7, <2>8
<1>2. CASE ~ \E i \in DOMAIN list : list[i] = r
  BY <1>2 DEF Unlink
<1> QED
  BY <1>1, <1>2

LEMMA SinkStep ==
    ASSUME TypeInv, NEW s \in Sinks, SinkEmit(s) \/ ReportSink(s)
    PROVE  \E a \in SinkPlaces, n \in Reports \cup {NoReport}, i \in Reads \cup {NoRead} :
               SinkGoto(s, a, n, i) /\ Shape([at |-> a, report |-> n, irp |-> i])
<1> USE PathConstants DEF TypeInv
<1>0. /\ sink[s].report \in Reports \cup {NoReport} /\ sink[s].irp \in Reads \cup {NoRead}
      /\ Shape(sink[s])
  BY DEF TypeOK
<1>1. CASE SinkEmit(s)
  <2>1. emitted + 1 \in Reports
    BY <1>1 DEF SinkEmit, TypeOK, Reports
  <2> QED
    BY <1>1, <2>1 DEF SinkEmit, SinkPlaces, Shape
<1>2. CASE SinkRelease(s) \/ SinkEnqueue(s)
  BY <1>2 DEF SinkRelease, SinkEnqueue, SinkPlaces, Shape
<1>3. CASE DequeueUnlink(s)
  <2>1. parked # <<>> => Head(parked) \in Reads
    BY HeadTailProperties DEF TypeOK
  <2> QED
    BY <1>0, <1>3, <2>1 DEF DequeueUnlink, SinkPlaces, Shape
<1>4. CASE DequeueClaim(s)
  BY <1>0, <1>4 DEF DequeueClaim, SinkPlaces, Shape
<1>5. CASE SinkDeliver(s)
  BY <1>0, <1>5 DEF SinkDeliver, SinkPlaces, Shape
<1> QED
  BY <1>1, <1>2, <1>3, <1>4, <1>5 DEF ReportSink

LEMMA SinkTyped ==
    ASSUME TypeInv, [Next]_vars
    PROVE  /\ sink' \in [Sinks -> SinkStates]
           /\ \A s \in Sinks : Shape(sink'[s])
<1>1. sink \in [Sinks -> SinkStates]
  BY DEF TypeInv, TypeOK, SinkStates, SinkPlaces
<1>2. CASE sink' = sink
  BY <1>1, <1>2 DEF TypeInv
<1>3. ASSUME NEW s \in Sinks, SinkEmit(s) \/ ReportSink(s)
      PROVE  /\ sink' \in [Sinks -> SinkStates]
             /\ \A t \in Sinks : Shape(sink'[t])
  <2>1. PICK a \in SinkPlaces, n \in Reports \cup {NoReport}, i \in Reads \cup {NoRead} :
          SinkGoto(s, a, n, i) /\ Shape([at |-> a, report |-> n, irp |-> i])
    BY <1>3, SinkStep
  <2> DEFINE w == [at |-> a, report |-> n, irp |-> i]
  <2>2. w \in SinkStates
    BY DEF SinkStates
  <2>3. sink' = [sink EXCEPT ![s] = w] /\ Shape(w)
    BY <2>1 DEF SinkGoto
  <2> HIDE DEF w
  <2> QED
    BY <1>1, <2>2, <2>3 DEF TypeInv
<1> QED
  BY <1>2, <1>3 DEF Next, vars, ReadReport, ReadPop, ReadFindsEmpty, ReadCompletePopped,
     ReadAcquire, ReadRefused, QueueRead, QueueReadLink, QueueReadCheckCancel,
     QueueReadCompleteCancelled, IoCancelFlag, CancelRead, IoCancelExchange, CancelReadUnlink,
     CancelReadComplete, RaiseRemoved, DrainB, CancelPendingReads

LEMMA FunctionsTyped ==
    ASSUME TypeOK, NEW r \in Reads
    PROVE  /\ [routine EXCEPT ![r] = TRUE] \in [Reads -> BOOLEAN]
           /\ [routine EXCEPT ![r] = FALSE] \in [Reads -> BOOLEAN]
           /\ [cancelFlag EXCEPT ![r] = TRUE] \in [Reads -> BOOLEAN]
           /\ [completed EXCEPT ![r] = @ + 1] \in [Reads -> Nat]
<1>1. /\ [routine EXCEPT ![r] = TRUE] \in [Reads -> BOOLEAN]
      /\ [routine EXCEPT ![r] = FALSE] \in [Reads -> BOOLEAN]
      /\ [cancelFlag EXCEPT ![r] = TRUE] \in [Reads -> BOOLEAN]
  BY DEF TypeOK
<1>2. [completed EXCEPT ![r] = @ + 1] \in [Reads -> Nat]
  BY DEF TypeOK
<1> QED
  BY <1>1, <1>2

(***************************************************************************)
(* Every step of the reads' threads, the sinks and REMOVE keeps the types. *)
(***************************************************************************)
Lists ==
    /\ queue \in Seq(Reports) /\ Len(queue) <= QueueMax
    /\ parked \in Seq(Reads)
    /\ delivered \in Seq(Reports)

Marks ==
    /\ routine \in [Reads -> BOOLEAN]
    /\ cancelFlag \in [Reads -> BOOLEAN]
    /\ completed \in [Reads -> Nat]

Threads ==
    /\ reportLock \in Reads \cup {NoRead}
    /\ refsB \subseteq Reads
    /\ reader \in [Reads -> {"new", "popped", "empty", "holding", "linked", "cancelled",
                             "returned"}]
    /\ canceller \in [Reads -> {"none", "flagged", "took", "unlinked", "done"}]
    /\ emitted \in 0..MaxReports
    /\ ReportsDropped \subseteq Reports
    /\ removal \in {"none", "removed", "drained", "unwired"}

LEMMA ReadTyped ==
    ASSUME TypeInv, NEW r \in Reads,
           ReadReport(r) \/ QueueRead(r) \/ IoCancelFlag(r) \/ CancelRead(r)
    PROVE  Lists' /\ Marks' /\ Threads'
<1> USE PathConstants DEF TypeInv
<1>1. Lists'
  <2>1. queue # <<>> => /\ Head(queue) \in Reports /\ Tail(queue) \in Seq(Reports)
                        /\ Len(Tail(queue)) <= QueueMax
                        /\ Append(delivered, Head(queue)) \in Seq(Reports)
    BY HeadTailProperties, AppendProperties DEF TypeOK
  <2>2. Append(parked, r) \in Seq(Reads) /\ Unlink(parked, r) \in Seq(Reads)
    BY UnlinkKeeps, AppendProperties DEF TypeOK
  <2> QED
    BY <2>1, <2>2 DEF TypeOK, Lists, ReadReport, ReadPop, ReadFindsEmpty, ReadCompletePopped,
       ReadAcquire, ReadRefused, QueueRead, QueueReadLink, QueueReadCheckCancel,
       QueueReadCompleteCancelled, IoCancelFlag, CancelRead, IoCancelExchange, CancelReadUnlink,
       CancelReadComplete, queueVars
<1>2. Marks'
  <2>1. /\ routine' \in {routine, [routine EXCEPT ![r] = TRUE], [routine EXCEPT ![r] = FALSE]}
        /\ cancelFlag' \in {cancelFlag, [cancelFlag EXCEPT ![r] = TRUE]}
        /\ completed' \in {completed, [completed EXCEPT ![r] = @ + 1]}
    BY DEF ReadReport, ReadPop, ReadFindsEmpty, ReadCompletePopped,
       ReadAcquire, ReadRefused, QueueRead, QueueReadLink, QueueReadCheckCancel,
       QueueReadCompleteCancelled, IoCancelFlag, CancelRead, IoCancelExchange, CancelReadUnlink,
       CancelReadComplete, cancelVars, Complete
  <2>2. routine' \in [Reads -> BOOLEAN] /\ cancelFlag' \in [Reads -> BOOLEAN]
    BY <2>1, FunctionsTyped, Zenon DEF TypeOK
  <2>3. completed' \in [Reads -> Nat]
    <3>1. completed \in [Reads -> Nat]
      BY DEF TypeOK
    <3>2. [completed EXCEPT ![r] = @ + 1] \in [Reads -> Nat]
      BY FunctionsTyped
    <3> QED
      BY <2>1, <3>1, <3>2, Zenon
  <2> QED
    BY <2>2, <2>3 DEF Marks
<1>3. Threads'
  BY DEF TypeOK, Threads, ReadReport, ReadPop, ReadFindsEmpty, ReadCompletePopped,
     ReadAcquire, ReadRefused, QueueRead, QueueReadLink, QueueReadCheckCancel,
     QueueReadCompleteCancelled, IoCancelFlag, CancelRead, IoCancelExchange, CancelReadUnlink,
     CancelReadComplete, cancelVars, queueVars, ReadAt, CancelAt
<1> QED
  BY <1>1, <1>2, <1>3

LEMMA SinkRestTyped ==
    ASSUME TypeInv, NEW s \in Sinks, SinkEmit(s) \/ ReportSink(s)
    PROVE  Lists' /\ Marks' /\ Threads'
<1> USE PathConstants DEF TypeInv
<1>0. sink[s].irp \in Reads \cup {NoRead} /\ Shape(sink[s])
  BY DEF TypeOK
<1>1. parked # <<>> => Tail(parked) \in Seq(Reads)
  BY HeadTailProperties DEF TypeOK
<1>2. /\ sink[s].at \in {"claim", "enqueue"} =>
            /\ sink[s].report \in Reports
            /\ Append(delivered, sink[s].report) \in Seq(Reports)
            /\ Append(queue, sink[s].report) \in Seq(Reports)
            /\ Len(Append(queue, sink[s].report)) = Len(queue) + 1
      /\ sink[s].at \in {"claim", "deliver"} => sink[s].irp \in Reads
  BY <1>0, AppendProperties DEF TypeOK, Shape
<1>3. Lists'
  <2>1. CASE SinkEnqueue(s)
    <3>1. /\ parked' = parked /\ delivered' = delivered
          /\ \/ queue' = queue
             \/ Len(queue) < QueueMax /\ queue' = Append(queue, sink[s].report)
      BY <2>1 DEF SinkEnqueue, TypeOK
    <3>2. sink[s].at = "enqueue"
      BY <2>1 DEF SinkEnqueue
    <3>3. queue' \in Seq(Reports) /\ Len(queue') <= QueueMax
      <4>1. /\ Append(queue, sink[s].report) \in Seq(Reports)
            /\ Len(Append(queue, sink[s].report)) = Len(queue) + 1
        BY <3>2, <1>2
      <4>2. /\ Len(queue) \in Nat /\ QueueMax \in Nat /\ Len(queue) <= QueueMax
            /\ queue \in Seq(Reports)
        BY DEF TypeOK
      <4> QED
        BY <3>1, <4>1, <4>2
    <3> QED
      BY <3>1, <3>3 DEF TypeOK, Lists
  <2>2. CASE SinkEmit(s) \/ DequeueUnlink(s) \/ DequeueClaim(s) \/ SinkDeliver(s) \/ SinkRelease(s)
    BY <2>2, <1>1, <1>2 DEF TypeOK, Lists, SinkEmit, DequeueUnlink, DequeueClaim,
       SinkDeliver, SinkRelease, queueVars
  <2> QED
    BY <2>1, <2>2 DEF ReportSink
<1>4. Marks'
  <2>1. /\ routine' = routine \/ (sink[s].irp \in Reads /\ routine' = [routine EXCEPT ![sink[s].irp] = FALSE])
        /\ cancelFlag' = cancelFlag
        /\ \/ completed' = completed
           \/ sink[s].irp \in Reads /\ completed' = [completed EXCEPT ![sink[s].irp] = @ + 1]
    BY <1>2 DEF SinkEmit, ReportSink, DequeueUnlink, DequeueClaim,
       SinkDeliver, SinkRelease, SinkEnqueue, cancelVars, Complete
  <2>2. routine' \in [Reads -> BOOLEAN] /\ cancelFlag' \in [Reads -> BOOLEAN]
    BY <2>1, FunctionsTyped, Zenon DEF TypeOK
  <2>3. completed' \in [Reads -> Nat]
    <3>1. completed \in [Reads -> Nat]
      BY DEF TypeOK
    <3> QED
      BY <2>1, <3>1
  <2> QED
    BY <2>2, <2>3 DEF Marks
<1>5. Threads'
  BY <1>2 DEF TypeOK, Threads, SinkEmit, ReportSink, DequeueUnlink, DequeueClaim,
     SinkDeliver, SinkRelease, SinkEnqueue, cancelVars, queueVars
<1> QED
  BY <1>3, <1>4, <1>5

LEMMA RemovalTyped ==
    ASSUME TypeInv, RaiseRemoved \/ DrainB \/ CancelPendingReads \/ UNCHANGED vars
    PROVE  Lists' /\ Marks' /\ Threads'
<1> USE DEF TypeInv
<1>1. CASE RaiseRemoved \/ DrainB \/ UNCHANGED vars
  BY <1>1 DEF TypeOK, Lists, Marks, Threads, RaiseRemoved, DrainB, vars, queueVars, cancelVars
<1>2. CASE CancelPendingReads
  <2>1. routine' \in [Reads -> BOOLEAN]
    BY <1>2, Zenon DEF CancelPendingReads
  <2>2. completed' \in [Reads -> Nat]
    BY <1>2 DEF CancelPendingReads, TypeOK
  <2> QED
    BY <1>2, <2>1, <2>2
       DEF TypeOK, Lists, Marks, Threads, CancelPendingReads, queueVars, cancelVars
<1> QED
  BY <1>1, <1>2

LEMMA TypeNext ==
    ASSUME TypeInv, [Next]_vars
    PROVE  TypeInv'
<1>1. Lists' /\ Marks' /\ Threads'
  BY ReadTyped, SinkRestTyped, RemovalTyped DEF Next
<1> QED
  BY <1>1, SinkTyped DEF TypeInv, TypeOK, Lists, Marks, Threads, SinkStates, SinkPlaces
LEMMA TypeInit == Init => TypeInv
<1> SUFFICES ASSUME Init PROVE TypeInv
  OBVIOUS
<1> USE PathConstants DEF Init
<1>1. SinkIdle \in SinkStates /\ Shape(SinkIdle)
  BY DEF SinkIdle, SinkStates, SinkPlaces, Shape
<1>2. sink \in [Sinks -> SinkStates] /\ \A s \in Sinks : Shape(sink[s])
  BY <1>1
<1>3. Lists
  BY DEF Lists
<1>4. Marks
  BY DEF Marks
<1>5. Threads
  BY DEF Threads
<1> QED
  BY <1>2, <1>3, <1>4, <1>5 DEF TypeInv, TypeOK, Lists, Marks, Threads, SinkStates, SinkPlaces

--------------------------------------------------------------------------------
(* The right to complete a read is in one hand at a time *)

(* The thread of the request itself still has it. *)
WithReader(r) == reader[r] \in {"new", "popped", "empty", "holding", "cancelled"}

(* IoCancelIrp exchanged the routine. *)
WithCanceller(r) == canceller[r] \in {"took", "unlinked"}

(* A sink exchanged the routine, and has not dropped the reference yet. *)
WithSink(s, r) == sink[s].at \in {"deliver", "release"} /\ sink[s].irp = r

Delivering(s, r) == sink[s].at = "deliver" /\ sink[s].irp = r

Claiming(s, r) == sink[s].at = "claim" /\ sink[s].irp = r

OneHand(r) ==
    /\ WithReader(r) => ~routine[r] /\ ~WithCanceller(r)
    /\ routine[r] => ~WithCanceller(r)
    /\ \A s \in Sinks : WithSink(s, r) => ~WithReader(r) /\ ~routine[r] /\ ~WithCanceller(r)
    /\ \A s, t \in Sinks : WithSink(s, r) /\ WithSink(t, r) => s = t

HandNotCompleted(r) ==
    /\ completed[r] \in {0, 1}
    /\ WithReader(r) \/ routine[r] \/ WithCanceller(r) => completed[r] = 0
    /\ \A s \in Sinks : Delivering(s, r) => completed[r] = 0

(***************************************************************************)
(* What the list, the lock and the threads say about where the request's   *)
(* own thread is: until it lets go of ReportLock nobody unlinks its IRP.   *)
(***************************************************************************)
Parking(r) ==
    /\ reader[r] = "linked" <=> reportLock = r
    /\ reader[r] = "linked" => routine[r] \/ canceller[r] = "took"
    /\ canceller[r] = "unlinked" => reader[r] = "returned"
    /\ Listed(r) => reader[r] \in {"linked", "cancelled", "returned"}
    /\ \A s \in Sinks : Claiming(s, r) => reader[r] \in {"cancelled", "returned"}

Referenced(r) == r \in refsB <=> OwesReference(r)

ReadInvOf(r) == OneHand(r) /\ HandNotCompleted(r) /\ Parking(r) /\ Referenced(r)

ReadInv == TypeInv /\ \A r \in Reads : ReadInvOf(r)

LEMMA ReadInit == Init => ReadInv
<1> SUFFICES ASSUME Init PROVE ReadInv
  OBVIOUS
<1>1. TypeInv
  BY TypeInit
<1>2. ASSUME NEW r \in Reads PROVE ReadInvOf(r)
  <2>1. /\ reader[r] = "new" /\ ~routine[r] /\ canceller[r] = "none" /\ completed[r] = 0
        /\ r \notin refsB /\ reportLock # r /\ ~Listed(r)
    BY PathConstants DEF Init, Listed
  <2>2. \A s \in Sinks : sink[s].at = "idle"
    BY DEF Init, SinkIdle
  <2> QED
    BY <2>1, <2>2 DEF ReadInvOf, OneHand, HandNotCompleted, Parking, Referenced, OwesReference,
       WithReader, WithCanceller, WithSink, Delivering, Claiming
<1> QED
  BY <1>1, <1>2 DEF ReadInv

(***************************************************************************)
(* A step that is about another read.                                      *)
(***************************************************************************)
LEMMA OtherRead ==
    ASSUME NEW r \in Reads, ReadInvOf(r),
           reader'[r] = reader[r], routine'[r] = routine[r], canceller'[r] = canceller[r],
           completed'[r] = completed[r], r \in refsB' <=> r \in refsB,
           reportLock' = r <=> reportLock = r,
           Listed(r)' => Listed(r),
           \A s \in Sinks : /\ WithSink(s, r)' <=> WithSink(s, r)
                            /\ Delivering(s, r)' => Delivering(s, r)
                            /\ Claiming(s, r)' => Claiming(s, r) \/ reader[r] \in {"cancelled", "returned"}
    PROVE  ReadInvOf(r)'
<1>1. WithReader(r)' <=> WithReader(r)
  BY DEF WithReader
<1>2. WithCanceller(r)' <=> WithCanceller(r)
  BY DEF WithCanceller
<1>3. OneHand(r)' /\ HandNotCompleted(r)'
  BY <1>1, <1>2 DEF ReadInvOf, OneHand, HandNotCompleted
<1>4. Parking(r)'
  BY DEF ReadInvOf, Parking
<1>5. Referenced(r)'
  BY DEF ReadInvOf, Referenced, OwesReference, WithSink
<1> QED
  BY <1>3, <1>4, <1>5 DEF ReadInvOf

(***************************************************************************)
(* The steps of a request's own thread and of its cancellation.            *)
(***************************************************************************)
LEMMA ListedBefore ==
    ASSUME parked \in Seq(Reads), NEW q \in Reads, NEW r \in Reads,
           parked' = parked \/ parked' = Unlink(parked, q) \/ (parked' = Append(parked, q) /\ r # q)
    PROVE  Listed(r)' => Listed(r)
<1>1. CASE parked' = parked
  BY <1>1 DEF Listed
<1>2. CASE parked' = Unlink(parked, q)
  BY <1>2, UnlinkKeeps DEF Listed
<1>3. CASE parked' = Append(parked, q) /\ r # q
  <2>1. ASSUME NEW i \in DOMAIN parked', parked'[i] = r PROVE Listed(r)
    <3>1. i \in 1..(Len(parked) + 1)
      BY <1>3, AppendProperties
    <3>2. i # Len(parked) + 1
      BY <1>3, <2>1, AppendProperties
    <3>3. i \in 1..Len(parked) /\ parked'[i] = parked[i]
      BY <1>3, <3>1, <3>2, AppendProperties
    <3> QED
      BY <2>1, <3>3 DEF Listed
  <2> QED
    BY <2>1 DEF Listed
<1> QED
  BY <1>1, <1>2, <1>3

LEMMA OneThreadInv ==
    ASSUME ReadInv, NEW q \in Reads,
           ReadReport(q) \/ QueueRead(q) \/ IoCancelFlag(q) \/ CancelRead(q),
           NEW r \in Reads, r # q
    PROVE  ReadInvOf(r)'
<1> USE PathConstants DEF ReadInv, TypeInv
<1>1. /\ reader'[r] = reader[r] /\ routine'[r] = routine[r] /\ canceller'[r] = canceller[r]
      /\ completed'[r] = completed[r] /\ (r \in refsB' <=> r \in refsB) /\ sink' = sink
  BY DEF TypeOK, ReadReport, ReadPop, ReadFindsEmpty, ReadCompletePopped,
     ReadAcquire, ReadRefused, QueueRead, QueueReadLink, QueueReadCheckCancel,
     QueueReadCompleteCancelled, IoCancelFlag, CancelRead, IoCancelExchange, CancelReadUnlink,
     CancelReadComplete, cancelVars, queueVars, ReadAt, CancelAt, Complete
<1>2. /\ parked' = parked \/ parked' = Unlink(parked, q) \/ (parked' = Append(parked, q) /\ r # q)
      /\ \/ reportLock' = reportLock
         \/ reportLock = NoRead /\ reportLock' = q
         \/ reader[q] = "linked" /\ reportLock' = NoRead
  BY DEF ReadReport, ReadPop, ReadFindsEmpty, ReadCompletePopped,
     ReadAcquire, ReadRefused, QueueRead, QueueReadLink, QueueReadCheckCancel,
     QueueReadCompleteCancelled, IoCancelFlag, CancelRead, IoCancelExchange, CancelReadUnlink,
     CancelReadComplete, queueVars
<1>3. Listed(r)' => Listed(r)
  BY <1>2, ListedBefore DEF TypeOK
<1>4. reportLock' = r <=> reportLock = r
  BY <1>2 DEF ReadInvOf, Parking
<1>5. \A s \in Sinks : /\ WithSink(s, r)' <=> WithSink(s, r)
                       /\ Delivering(s, r)' => Delivering(s, r)
                       /\ Claiming(s, r)' => Claiming(s, r)
  BY <1>1 DEF WithSink, Delivering, Claiming
<1> QED
  BY <1>1, <1>3, <1>4, <1>5, OtherRead

LEMMA ReaderInv ==
    ASSUME ReadInv, NEW q \in Reads, ReadReport(q) \/ QueueRead(q)
    PROVE  ReadInvOf(q)'
<1> USE PathConstants DEF ReadInv, TypeInv
<1>0. \A s \in Sinks : /\ WithSink(s, q)' <=> WithSink(s, q)
                       /\ Delivering(s, q)' <=> Delivering(s, q)
                       /\ Claiming(s, q)' <=> Claiming(s, q)
  BY DEF WithSink, Delivering, Claiming, ReadReport, ReadPop, ReadFindsEmpty, ReadCompletePopped,
     ReadAcquire, ReadRefused, QueueRead, QueueReadLink, QueueReadCheckCancel,
     QueueReadCompleteCancelled
<1>1. CASE ReadPop(q) \/ ReadFindsEmpty(q) \/ ReadAcquire(q)
  <2>1. /\ \/ reader[q] = "new" /\ reader'[q] \in {"popped", "empty"} /\ refsB' = refsB
           \/ reader[q] = "empty" /\ reader'[q] = "holding" /\ refsB' = refsB \cup {q}
        /\ routine' = routine /\ canceller' = canceller /\ completed' = completed
        /\ parked' = parked /\ reportLock' = reportLock
    BY <1>1 DEF ReadPop, ReadFindsEmpty, ReadAcquire, ReadAt, cancelVars, queueVars, TypeOK
  <2>2. /\ ~routine[q] /\ ~WithCanceller(q) /\ completed[q] = 0 /\ ~Listed(q)
        /\ \A s \in Sinks : ~WithSink(s, q) /\ ~Claiming(s, q)
    BY <2>1 DEF ReadInvOf, OneHand, HandNotCompleted, Parking, WithReader
  <2>3. ~Listed(q)'
    BY <2>1, <2>2 DEF Listed
  <2> QED
    BY <1>0, <2>1, <2>2, <2>3 DEF ReadInvOf, OneHand, HandNotCompleted, Parking, Referenced,
       OwesReference, WithReader, WithCanceller, WithSink
<1>2. CASE ReadCompletePopped(q) \/ ReadRefused(q)
  <2>1. /\ reader[q] \in {"popped", "empty"} /\ reader'[q] = "returned"
        /\ routine' = routine /\ canceller' = canceller /\ refsB' = refsB
        /\ parked' = parked /\ reportLock' = reportLock
    BY <1>2 DEF ReadCompletePopped, ReadRefused, ReadAt, cancelVars, queueVars, TypeOK
  <2>2. /\ ~routine[q] /\ ~WithCanceller(q) /\ completed[q] = 0
        /\ \A s \in Sinks : ~WithSink(s, q)
    BY <2>1 DEF ReadInvOf, OneHand, HandNotCompleted, WithReader
  <2>3. completed'[q] = 1
    BY <1>2, <2>2 DEF ReadCompletePopped, ReadRefused, Complete, TypeOK
  <2> QED
    BY <1>0, <2>1, <2>2, <2>3 DEF ReadInvOf, OneHand, HandNotCompleted, Parking, Referenced,
       OwesReference, Listed, WithReader, WithCanceller, WithSink, Delivering
<1>4. CASE QueueReadLink(q)
  <2>1. /\ reader[q] = "holding" /\ reader'[q] = "linked" /\ routine'[q] = TRUE
        /\ canceller' = canceller /\ refsB' = refsB /\ reportLock' = q
        /\ completed' = completed
    BY <1>4 DEF QueueReadLink, ReadAt, cancelVars, TypeOK
  <2>2. /\ ~WithCanceller(q) /\ completed[q] = 0 /\ q \in refsB
        /\ \A s \in Sinks : ~WithSink(s, q) /\ ~Delivering(s, q) /\ ~Claiming(s, q)
    BY <2>1 DEF ReadInvOf, OneHand, HandNotCompleted, Parking, Referenced, OwesReference,
       WithReader, WithSink, Delivering
  <2> QED
    BY <1>0, <2>1, <2>2 DEF ReadInvOf, OneHand, HandNotCompleted, Parking, Referenced,
       OwesReference, WithReader, WithCanceller
<1>5. CASE QueueReadCheckCancel(q)
  <2>1. /\ reader[q] = "linked" /\ canceller' = canceller /\ refsB' = refsB
        /\ reportLock' = NoRead /\ completed' = completed
    BY <1>5 DEF QueueReadCheckCancel, cancelVars
  <2>2. /\ q \in refsB /\ completed[q] = 0 /\ canceller[q] # "unlinked"
        /\ routine[q] \/ canceller[q] = "took"
        /\ \A s \in Sinks : ~WithSink(s, q) /\ ~Delivering(s, q) /\ ~Claiming(s, q)
    BY <2>1 DEF ReadInvOf, OneHand, HandNotCompleted, Parking, Referenced, OwesReference,
       WithReader, WithCanceller, WithSink, Delivering
  <2>3. CASE cancelFlag[q] /\ routine[q]
    <3>1. reader'[q] = "cancelled" /\ routine'[q] = FALSE
      BY <1>5, <2>3 DEF QueueReadCheckCancel, ClaimIrp, ReadAt, TypeOK
    <3>2. ~WithCanceller(q)
      BY <2>3 DEF ReadInvOf, OneHand
    <3> QED
      BY <1>0, <2>1, <2>2, <3>1, <3>2 DEF ReadInvOf, OneHand, HandNotCompleted, Parking,
         Referenced, OwesReference, WithReader, WithCanceller
  <2>4. CASE ~(cancelFlag[q] /\ routine[q])
    <3>1. reader'[q] = "returned" /\ routine' = routine /\ parked' = parked
      BY <1>5, <2>4 DEF QueueReadCheckCancel, ClaimIrp, ReadAt, TypeOK
    <3> QED
      BY <1>0, <2>1, <2>2, <3>1 DEF ReadInvOf, OneHand, HandNotCompleted, Parking,
         Referenced, OwesReference, WithReader, WithCanceller
  <2> QED
    BY <2>3, <2>4
<1>6. CASE QueueReadCompleteCancelled(q)
  BY <1>0, <1>6 DEF QueueReadCompleteCancelled, ReadAt, Complete, cancelVars, queueVars, TypeOK, ReadInvOf,
     OneHand, HandNotCompleted, Parking, Referenced, OwesReference, Listed, WithReader,
     WithCanceller, WithSink, Delivering
<1> QED
  BY <1>1, <1>2, <1>4, <1>5, <1>6 DEF ReadReport, QueueRead

LEMMA CancellerInv ==
    ASSUME ReadInv, NEW q \in Reads, IoCancelFlag(q) \/ CancelRead(q)
    PROVE  ReadInvOf(q)'
<1> USE PathConstants DEF ReadInv, TypeInv
<1>0. \A s \in Sinks : /\ WithSink(s, q)' <=> WithSink(s, q)
                       /\ Delivering(s, q)' <=> Delivering(s, q)
                       /\ Claiming(s, q)' <=> Claiming(s, q)
  BY DEF WithSink, Delivering, Claiming, IoCancelFlag, CancelRead, IoCancelExchange,
     CancelReadUnlink, CancelReadComplete
<1>1. CASE IoCancelFlag(q) \/ IoCancelExchange(q)
  BY <1>0, <1>1 DEF IoCancelFlag, IoCancelExchange, CancelAt, queueVars, TypeOK, ReadInvOf, OneHand,
     HandNotCompleted, Parking, Referenced, OwesReference, Listed, WithReader, WithCanceller,
     WithSink
<1>2. CASE CancelReadUnlink(q)
  <2>1. Listed(q)' => Listed(q)
    BY <1>2, ListedBefore DEF CancelReadUnlink, TypeOK
  <2> QED
    BY <1>0, <1>2, <2>1 DEF CancelReadUnlink, CancelAt, TypeOK, ReadInvOf, OneHand,
       HandNotCompleted, Parking, Referenced, OwesReference, WithReader, WithCanceller,
       WithSink
<1>3. CASE CancelReadComplete(q)
  BY <1>0, <1>3 DEF CancelReadComplete, CancelAt, Complete, queueVars, TypeOK, ReadInvOf, OneHand,
     HandNotCompleted, Parking, Referenced, OwesReference, Listed, WithReader, WithCanceller,
     WithSink, Delivering
<1> QED
  BY <1>1, <1>2, <1>3 DEF CancelRead

(***************************************************************************)
(* The steps of the sinks: AdaptoidDequeueRead gets the right with the     *)
(* cancel routine, and AdaptoidReportSink uses it up.                      *)
(***************************************************************************)
LEMMA SinkPasses ==
    ASSUME ReadInv, NEW s \in Sinks,
           \/ SinkEmit(s) \/ DequeueUnlink(s) \/ SinkEnqueue(s)
           \/ DequeueClaim(s) /\ ~ClaimIrp(sink[s].irp),
           NEW r \in Reads
    PROVE  ReadInvOf(r)'
<1> USE PathConstants DEF ReadInv, TypeInv
<1>0. Shape(sink[s]) /\ parked \in Seq(Reads) /\ sink \in [Sinks -> SinkStates]
  BY DEF TypeOK, SinkStates, SinkPlaces
<1>1. PICK a \in {"scan", "enqueue", "claim", "idle"} : \E n, i :
         /\ sink' = [sink EXCEPT ![s] = [at |-> a, report |-> n, irp |-> i]]
         /\ sink[s].at \in {"idle", "scan", "claim", "enqueue"}
         /\ a = "claim" => /\ parked # <<>> /\ i = Head(parked) /\ reportLock = NoRead
         /\ parked' = parked \/ (parked # <<>> /\ parked' = Tail(parked))
  BY DEF SinkEmit, DequeueUnlink, SinkEnqueue, DequeueClaim, SinkGoto, queueVars
<1>1a. PICK n, i :
         /\ sink' = [sink EXCEPT ![s] = [at |-> a, report |-> n, irp |-> i]]
         /\ sink[s].at \in {"idle", "scan", "claim", "enqueue"}
         /\ a = "claim" => /\ parked # <<>> /\ i = Head(parked) /\ reportLock = NoRead
         /\ parked' = parked \/ (parked # <<>> /\ parked' = Tail(parked))
  BY <1>1
<1>2. /\ UNCHANGED <<reader, canceller, completed, refsB, reportLock>>
      /\ routine'[r] = routine[r]
  <2>1. UNCHANGED <<reader, canceller, completed, refsB, reportLock>>
    BY DEF SinkEmit, DequeueUnlink, SinkEnqueue, DequeueClaim, queueVars, cancelVars
  <2>2. CASE DequeueClaim(s) /\ ~ClaimIrp(sink[s].irp)
    <3>1. ~routine[sink[s].irp] /\ routine' = [routine EXCEPT ![sink[s].irp] = FALSE]
      BY <2>2 DEF DequeueClaim, ClaimIrp
    <3>2. routine \in [Reads -> BOOLEAN]
      BY DEF TypeOK
    <3> QED
      BY <2>1, <3>1, <3>2
  <2>3. CASE SinkEmit(s) \/ DequeueUnlink(s) \/ SinkEnqueue(s)
    BY <2>1, <2>3 DEF SinkEmit, DequeueUnlink, SinkEnqueue
  <2> QED
    BY <2>2, <2>3
<1>3. Listed(r)' => Listed(r)
  <2>1. CASE parked' = parked
    BY <2>1 DEF Listed
  <2>2. CASE parked # <<>> /\ parked' = Tail(parked)
    <3>1. \A i1 \in 1..Len(parked') : parked'[i1] = parked[i1 + 1] /\ i1 + 1 \in 1..Len(parked)
      BY <1>0, <2>2, HeadTailProperties
    <3>2. DOMAIN parked' = 1..Len(parked') /\ DOMAIN parked = 1..Len(parked)
      BY <1>0, <2>2, HeadTailProperties
    <3> QED
      BY <3>1, <3>2 DEF Listed
  <2> QED
    BY <1>1a, <2>1, <2>2
<1>4. (parked # <<>> /\ Head(parked) = r) => Listed(r)
  BY <1>0 DEF Listed
<1>5. ASSUME NEW t \in Sinks
      PROVE  /\ WithSink(t, r)' <=> WithSink(t, r)
             /\ Delivering(t, r)' => Delivering(t, r)
             /\ Claiming(t, r)' => Claiming(t, r) \/ reader[r] \in {"cancelled", "returned"}
  <2>1. CASE t # s
    <3>1. sink'[t] = sink[t]
      BY <1>0, <1>1a, <2>1
    <3> QED
      BY <3>1 DEF WithSink, Delivering, Claiming
  <2>2. CASE t = s
    <3>1. sink'[s].at = a /\ sink'[s].irp = i
      BY <1>0, <1>1a
    <3>2. ~WithSink(s, r)' /\ ~WithSink(s, r) /\ ~Delivering(s, r)'
      BY <1>1a, <3>1 DEF WithSink, Delivering
    <3>3. Claiming(s, r)' => reader[r] \in {"cancelled", "returned"}
      <4> SUFFICES ASSUME a = "claim", i = r PROVE reader[r] \in {"cancelled", "returned"}
        BY <3>1 DEF Claiming
      <4>1. Listed(r) /\ reportLock = NoRead
        BY <1>1a, <1>4
      <4> QED
        BY <4>1 DEF ReadInvOf, Parking
    <3> QED
      BY <2>2, <3>2, <3>3
  <2> QED
    BY <2>1, <2>2
<1> QED
  BY <1>2, <1>3, <1>5, OtherRead

LEMMA SinkHasRead ==
    ASSUME ReadInv, NEW s \in Sinks, NEW r \in Reads, WithSink(s, r)
    PROVE  /\ reader[r] = "returned" /\ ~routine[r] /\ ~WithCanceller(r) /\ reportLock # r
           /\ \A t \in Sinks : WithSink(t, r) => t = s
<1>1. /\ ~WithReader(r) /\ ~routine[r] /\ ~WithCanceller(r)
      /\ \A t \in Sinks : WithSink(t, r) => t = s
  BY DEF ReadInv, ReadInvOf, OneHand
<1>2. reader[r] # "linked" /\ reportLock # r
  BY <1>1 DEF ReadInv, ReadInvOf, Parking, WithCanceller
<1> QED
  BY <1>1, <1>2 DEF ReadInv, TypeInv, TypeOK, WithReader

LEMMA SinkTakes ==
    ASSUME ReadInv, NEW s \in Sinks, DequeueClaim(s), ClaimIrp(sink[s].irp), NEW r \in Reads
    PROVE  ReadInvOf(r)'
<1> USE DEF ReadInv, TypeInv
<1>a. sink \in [Sinks -> SinkStates] /\ sink[s].irp \in Reads /\ sink[s].at = "claim"
  BY DEF TypeOK, SinkStates, SinkPlaces, DequeueClaim, Shape
<1>b. PICK q \in Reads : q = sink[s].irp
  BY <1>a
<1>0. sink \in [Sinks -> SinkStates] /\ q \in Reads /\ sink[s].at = "claim" /\ q = sink[s].irp
  BY <1>a, <1>b
<1>1. /\ sink' = [sink EXCEPT ![s] = [at |-> "deliver", report |-> NoReport, irp |-> q]]
      /\ routine' = [routine EXCEPT ![q] = FALSE]
      /\ UNCHANGED <<reader, canceller, completed, refsB, reportLock, parked>>
  BY <1>0 DEF DequeueClaim, SinkGoto, ClaimIrp, queueVars, cancelVars
<1>2. routine[q]
  BY <1>0 DEF ClaimIrp
<1>3. \A t \in Sinks \ {s} : sink'[t] = sink[t]
  BY <1>0, <1>1
<1>4. sink'[s].at = "deliver" /\ sink'[s].irp = q
  BY <1>0, <1>1
<1>5. Listed(r)' <=> Listed(r)
  BY <1>1 DEF Listed
<1>6. Claiming(s, q)
  BY <1>0 DEF Claiming
<1>x. routine'[r] = IF r = q THEN FALSE ELSE routine[r]
  BY <1>0, <1>1 DEF TypeOK
<1>7. CASE r # q
  <2>1. \A t \in Sinks : /\ WithSink(t, r)' <=> WithSink(t, r)
                         /\ Delivering(t, r)' => Delivering(t, r)
                         /\ Claiming(t, r)' => Claiming(t, r)
    BY <1>3, <1>4, <1>7, <1>0 DEF WithSink, Delivering, Claiming
  <2> QED
    BY <1>1, <1>5, <1>7, <1>x, <2>1, OtherRead
<1>8. CASE r = q
  <2>1. /\ ~WithReader(q) /\ ~WithCanceller(q) /\ completed[q] = 0 /\ q \in refsB
        /\ \A t \in Sinks : ~WithSink(t, q)
        /\ reader[q] \in {"cancelled", "returned"} /\ reportLock # q
    BY <1>0, <1>2, <1>6 DEF ReadInvOf, OneHand, HandNotCompleted, Parking, Referenced, OwesReference
  <2>2. reader[q] = "returned"
    BY <2>1 DEF WithReader
  <2>3. \A t \in Sinks : WithSink(t, q)' <=> t = s
    BY <1>3, <1>4, <2>1 DEF WithSink
  <2>4. /\ reader'[q] = "returned" /\ ~routine'[q] /\ ~WithCanceller(q)' /\ ~WithReader(q)'
        /\ completed'[q] = 0 /\ q \in refsB' /\ reportLock' # q
    BY <1>1, <1>8, <1>x, <2>1, <2>2 DEF WithCanceller, WithReader
  <2> QED
    BY <1>8, <2>3, <2>4 DEF ReadInvOf, OneHand, HandNotCompleted, Parking, Referenced,
       OwesReference, WithSink, WithCanceller, Delivering
<1> QED
  BY <1>7, <1>8

LEMMA SinkGives ==
    ASSUME ReadInv, NEW s \in Sinks, SinkDeliver(s) \/ SinkRelease(s), NEW r \in Reads
    PROVE  ReadInvOf(r)'
<1> USE DEF ReadInv, TypeInv
<1>a. /\ sink \in [Sinks -> SinkStates] /\ sink[s].irp \in Reads
      /\ sink[s].at \in {"deliver", "release"}
  BY DEF TypeOK, SinkStates, SinkPlaces, SinkDeliver, SinkRelease, Shape
<1>b. PICK q \in Reads : q = sink[s].irp
  BY <1>a
<1>0. /\ sink \in [Sinks -> SinkStates] /\ q \in Reads /\ q = sink[s].irp
      /\ sink[s].at \in {"deliver", "release"}
  BY <1>a, <1>b
<1>1. UNCHANGED <<reader, canceller, routine, reportLock, parked>>
  BY DEF SinkDeliver, SinkRelease, queueVars, cancelVars
<1>2. WithSink(s, q)
  BY <1>0 DEF WithSink
<1>3. /\ reader[q] = "returned" /\ ~routine[q] /\ ~WithCanceller(q) /\ reportLock # q
      /\ \A t \in Sinks : WithSink(t, q) => t = s
  BY <1>0, <1>2, SinkHasRead
<1>4. \A t \in Sinks \ {s} : sink'[t] = sink[t]
  BY <1>0 DEF SinkDeliver, SinkRelease, SinkGoto
<1>5. Listed(r)' <=> Listed(r)
  BY <1>1 DEF Listed
<1>6. \/ /\ sink[s].at = "deliver" /\ sink'[s].at = "release" /\ sink'[s].irp = q
         /\ completed' = [completed EXCEPT ![q] = @ + 1] /\ refsB' = refsB
      \/ /\ sink[s].at = "release" /\ sink'[s].at = "idle"
         /\ completed' = completed /\ refsB' = refsB \ {q}
  BY <1>0 DEF SinkDeliver, SinkRelease, SinkGoto, Complete
<1>7. CASE r # q
  <2>1. completed'[r] = completed[r] /\ (r \in refsB' <=> r \in refsB)
    BY <1>6, <1>7, <1>0 DEF TypeOK
  <2>2. \A t \in Sinks : /\ WithSink(t, r)' <=> WithSink(t, r)
                         /\ Delivering(t, r)' => Delivering(t, r)
                         /\ Claiming(t, r)' => Claiming(t, r)
    BY <1>0, <1>4, <1>6, <1>7 DEF WithSink, Delivering, Claiming
  <2> QED
    BY <1>1, <1>5, <2>1, <2>2, OtherRead
<1>8. CASE r = q
  <2>1. /\ reader'[q] = "returned" /\ ~routine'[q] /\ ~WithCanceller(q)' /\ ~WithReader(q)'
        /\ reportLock' # q /\ canceller'[q] # "unlinked" /\ canceller'[q] # "took"
    BY <1>1, <1>3 DEF WithCanceller, WithReader
  <2>2. \A t \in Sinks \ {s} : ~WithSink(t, q)'
    BY <1>3, <1>4 DEF WithSink
  <2>3. CASE sink[s].at = "deliver"
    <3>1. completed'[q] = 1 /\ q \in refsB'
      <4>1. completed[q] = 0 /\ q \in refsB
        BY <1>0, <1>2, <2>3 DEF ReadInvOf, HandNotCompleted, Delivering, Referenced,
           OwesReference, WithSink
      <4> QED
        BY <1>0, <1>6, <2>3, <4>1 DEF TypeOK
    <3>2. \A t \in Sinks : (WithSink(t, q)' <=> t = s) /\ ~Delivering(t, q)'
      BY <1>6, <2>2, <2>3 DEF WithSink, Delivering
    <3> QED
      BY <1>8, <2>1, <3>1, <3>2 DEF ReadInvOf, OneHand, HandNotCompleted, Parking, Referenced,
         OwesReference, WithSink, WithCanceller
  <2>4. CASE sink[s].at = "release"
    <3>1. q \notin refsB' /\ completed'[q] \in {0, 1}
      BY <1>0, <1>6, <2>4 DEF ReadInvOf, HandNotCompleted
    <3>2. \A t \in Sinks : ~WithSink(t, q)' /\ ~Delivering(t, q)'
      BY <1>6, <2>2, <2>4 DEF WithSink, Delivering
    <3> QED
      BY <1>8, <2>1, <3>1, <3>2 DEF ReadInvOf, OneHand, HandNotCompleted, Parking, Referenced,
         OwesReference, WithSink, WithCanceller
  <2> QED
    BY <1>0, <2>3, <2>4
<1> QED
  BY <1>7, <1>8

(***************************************************************************)
(* AdaptoidCancelPendingReads takes the right to what is listed and still  *)
(* has its routine, and uses it up.                                        *)
(***************************************************************************)
LEMMA RemovalInv ==
    ASSUME ReadInv, RaiseRemoved \/ DrainB \/ CancelPendingReads \/ UNCHANGED vars, NEW r \in Reads
    PROVE  ReadInvOf(r)'
<1> USE DEF ReadInv, TypeInv
<1>1. /\ reader' = reader /\ canceller' = canceller /\ reportLock' = reportLock
      /\ \A s \in Sinks : /\ WithSink(s, r)' <=> WithSink(s, r)
                          /\ Delivering(s, r)' => Delivering(s, r)
                          /\ Claiming(s, r)' => Claiming(s, r)
  BY DEF RaiseRemoved, DrainB, CancelPendingReads, vars, queueVars, cancelVars, WithSink,
     Delivering, Claiming
<1>2. CASE RaiseRemoved \/ DrainB \/ UNCHANGED vars
  <2>1. routine' = routine /\ completed' = completed /\ refsB' = refsB /\ parked' = parked
    BY <1>2 DEF RaiseRemoved, DrainB, vars, queueVars
  <2>2. Listed(r)' => Listed(r)
    BY <2>1 DEF Listed
  <2> QED
    BY <1>1, <2>1, <2>2, OtherRead
<1>3. CASE CancelPendingReads
  <2>1. ~Listed(r)'
    BY <1>3 DEF CancelPendingReads, Listed
  <2>2. /\ completed'[r] = completed[r] + (IF Listed(r) /\ routine[r] THEN 1 ELSE 0)
        /\ routine'[r] <=> routine[r] /\ ~Listed(r)
        /\ r \in refsB' <=> r \in refsB /\ ~(Listed(r) /\ routine[r])
        /\ reportLock = NoRead
    BY <1>3 DEF CancelPendingReads, ClaimIrp
  <2>3. CASE ~(Listed(r) /\ routine[r])
    <3>1. completed'[r] = completed[r] /\ (r \in refsB' <=> r \in refsB)
      BY <2>2, <2>3 DEF TypeOK
    <3>2. routine'[r] = routine[r]
      <4>1. routine[r] \in BOOLEAN /\ routine'[r] \in BOOLEAN
        BY <1>3, Zenon DEF TypeOK, CancelPendingReads
      <4> QED
        BY <2>2, <2>3, <4>1
    <3> QED
      BY <1>1, <2>1, <3>1, <3>2, OtherRead
  <2>4. CASE Listed(r) /\ routine[r]
    <3>1. /\ ~WithReader(r) /\ ~WithCanceller(r) /\ completed[r] = 0 /\ reader[r] # "linked"
          /\ \A s \in Sinks : ~WithSink(s, r)
      BY <2>2, <2>4, PathConstants DEF ReadInvOf, OneHand, HandNotCompleted, Parking
    <3>2. /\ ~WithReader(r)' /\ ~WithCanceller(r)' /\ reader'[r] = "returned"
      BY <1>1, <3>1 DEF WithReader, WithCanceller, TypeOK
    <3>3. completed'[r] = 1 /\ ~routine'[r] /\ r \notin refsB' /\ reportLock' # r
      BY <1>1, <2>2, <2>4, <3>1, PathConstants
    <3> QED
      BY <1>1, <2>1, <3>1, <3>2, <3>3 DEF ReadInvOf, OneHand, HandNotCompleted, Parking, Referenced,
         OwesReference, WithSink, WithCanceller, WithReader, Delivering
  <2> QED
    BY <2>3, <2>4
<1> QED
  BY <1>2, <1>3

LEMMA ReadNext ==
    ASSUME ReadInv, [Next]_vars
    PROVE  ReadInv'
<1>1. TypeInv'
  BY TypeNext DEF ReadInv
<1>2. ASSUME NEW r \in Reads PROVE ReadInvOf(r)'
  <2>1. CASE \E q \in Reads : ReadReport(q) \/ QueueRead(q) \/ IoCancelFlag(q) \/ CancelRead(q)
    BY <2>1, OneThreadInv, ReaderInv, CancellerInv
  <2>2. CASE \E s \in Sinks : SinkEmit(s) \/ ReportSink(s)
    BY <2>2, SinkPasses, SinkTakes, SinkGives DEF ReportSink
  <2>3. CASE RaiseRemoved \/ DrainB \/ CancelPendingReads \/ UNCHANGED vars
    BY <2>3, RemovalInv
  <2> QED
    BY <2>1, <2>2, <2>3 DEF Next
<1> QED
  BY <1>1, <1>2 DEF ReadInv

--------------------------------------------------------------------------------
(* A report is in one place at a time *)

Occurs(seq, n) == \E i \in DOMAIN seq : seq[i] = n

Once(seq, n) == \A i, j \in DOMAIN seq : seq[i] = n /\ seq[j] = n => i = j

Carried(n) == \E s \in Sinks : sink[s].report = n

OnePlace(n) ==
    /\ n <= emitted <=> Carried(n) \/ Occurs(queue, n) \/ Occurs(delivered, n) \/ n \in ReportsDropped
    /\ Carried(n) => ~Occurs(queue, n) /\ ~Occurs(delivered, n) /\ n \notin ReportsDropped
    /\ Occurs(queue, n) => ~Occurs(delivered, n) /\ n \notin ReportsDropped
    /\ Occurs(delivered, n) => n \notin ReportsDropped
    /\ \A s, t \in Sinks : sink[s].report = n /\ sink[t].report = n => s = t
    /\ Once(queue, n) /\ Once(delivered, n)

ReportInv == TypeInv /\ \A n \in Reports : OnePlace(n)

LEMMA OccursAppend ==
    ASSUME NEW S, NEW seq \in Seq(S), NEW x \in S, NEW n
    PROVE  /\ Occurs(Append(seq, x), n) <=> Occurs(seq, n) \/ n = x
           /\ Once(seq, n) /\ (n = x => ~Occurs(seq, n)) => Once(Append(seq, x), n)
<1> DEFINE longer == Append(seq, x)
<1>1. /\ longer \in Seq(S) /\ Len(longer) = Len(seq) + 1 /\ longer[Len(seq) + 1] = x
      /\ \A i \in 1..Len(seq) : longer[i] = seq[i]
  BY AppendProperties
<1>2. /\ DOMAIN seq = 1..Len(seq) /\ DOMAIN longer = 1..(Len(seq) + 1) /\ Len(seq) \in Nat
      /\ \A i \in DOMAIN longer : i \in DOMAIN seq \/ i = Len(seq) + 1
      /\ \A i \in DOMAIN seq : i \in DOMAIN longer /\ i # Len(seq) + 1
  BY <1>1
<1> HIDE DEF longer
<1>3. Occurs(longer, n) <=> Occurs(seq, n) \/ n = x
  BY <1>1, <1>2 DEF Occurs
<1>4. Once(seq, n) /\ (n = x => ~Occurs(seq, n)) => Once(longer, n)
  BY <1>1, <1>2 DEF Once, Occurs
<1> QED
  BY <1>3, <1>4 DEF longer

LEMMA OccursTail ==
    ASSUME NEW S, NEW seq \in Seq(S), seq # <<>>, NEW n, Once(seq, n)
    PROVE  /\ Occurs(Tail(seq), n) <=> Occurs(seq, n) /\ n # Head(seq)
           /\ Once(Tail(seq), n)
<1> DEFINE rest == Tail(seq)
<1>1. /\ rest \in Seq(S) /\ Len(rest) = Len(seq) - 1 /\ Head(seq) = seq[1]
      /\ \A i \in 1..Len(rest) : rest[i] = seq[i + 1]
  BY HeadTailProperties
<1>2. /\ DOMAIN seq = 1..Len(seq) /\ DOMAIN rest = 1..(Len(seq) - 1) /\ Len(seq) \in Nat
      /\ 1 \in DOMAIN seq
  BY <1>1
<1> HIDE DEF rest
<1>3. \A i \in DOMAIN rest : i + 1 \in DOMAIN seq /\ i + 1 # 1 /\ rest[i] = seq[i + 1]
  BY <1>1, <1>2
<1>4. \A i \in DOMAIN seq : i = 1 \/ (i - 1 \in DOMAIN rest /\ rest[i - 1] = seq[i])
  BY <1>1, <1>2
<1>5. Occurs(rest, n) => Occurs(seq, n) /\ n # Head(seq)
  BY <1>1, <1>2, <1>3 DEF Occurs, Once
<1>6. Occurs(seq, n) /\ n # Head(seq) => Occurs(rest, n)
  BY <1>1, <1>4 DEF Occurs
<1>7. Once(rest, n)
  <2> SUFFICES ASSUME NEW i \in DOMAIN rest, NEW j \in DOMAIN rest, rest[i] = n, rest[j] = n
               PROVE  i = j
    BY DEF Once
  <2>1. i + 1 = j + 1
    BY <1>3 DEF Once
  <2> QED
    BY <2>1, <1>2
<1> QED
  BY <1>5, <1>6, <1>7 DEF rest

LEMMA ReportInit == Init => ReportInv
<1> SUFFICES ASSUME Init PROVE ReportInv
  OBVIOUS
<1>1. ASSUME NEW n \in Reports PROVE OnePlace(n)
  <2>1. DOMAIN queue = {} /\ DOMAIN delivered = {} /\ ReportsDropped = {} /\ ~(n <= emitted)
    BY PathConstants DEF Init, Reports
  <2>2. \A s \in Sinks : sink[s].report # n
    BY PathConstants DEF Init, SinkIdle, Reports
  <2> QED
    BY <2>1, <2>2 DEF OnePlace, Carried, Occurs, Once
<1> QED
  BY <1>1, TypeInit DEF ReportInv

LEMMA SameReports ==
    ASSUME ReportInv, NEW n \in Reports,
           queue' = queue, delivered' = delivered, ReportsDropped' = ReportsDropped,
           emitted' = emitted,
           \A s \in Sinks : sink'[s].report = sink[s].report
    PROVE  OnePlace(n)'
  BY DEF ReportInv, OnePlace, Carried, Occurs, Once

(* The oldest report goes from the queue to a read. *)
LEMMA PopReport ==
    ASSUME ReportInv, NEW n \in Reports, NEW r \in Reads, ReadPop(r)
    PROVE  OnePlace(n)'
<1> USE DEF ReportInv, TypeInv
<1>1. /\ queue # <<>> /\ queue' = Tail(queue) /\ delivered' = Append(delivered, Head(queue))
      /\ sink' = sink /\ emitted' = emitted /\ ReportsDropped' = ReportsDropped
  BY DEF ReadPop
<1>2. queue \in Seq(Reports) /\ delivered \in Seq(Reports) /\ Head(queue) \in Reports
  BY <1>1, HeadTailProperties DEF TypeOK
<1>3. Occurs(queue, Head(queue))
  BY <1>1, <1>2 DEF Occurs
<1>4. Once(queue, n) /\ Once(delivered, n) /\ (n = Head(queue) => ~Occurs(delivered, n))
  BY <1>3 DEF OnePlace
<1>5. (Occurs(queue, n)' <=> Occurs(queue, n) /\ n # Head(queue)) /\ Once(queue, n)'
  BY <1>1, <1>2, <1>4, OccursTail
<1>6. (Occurs(delivered, n)' <=> Occurs(delivered, n) \/ n = Head(queue)) /\ Once(delivered, n)'
  BY <1>1, <1>2, <1>4, OccursAppend
<1>7. Carried(n)' <=> Carried(n)
  BY <1>1 DEF Carried
<1> QED
  BY <1>1, <1>3, <1>5, <1>6, <1>7 DEF OnePlace

LEMMA EmitReport ==
    ASSUME ReportInv, NEW n \in Reports, NEW s \in Sinks, SinkEmit(s)
    PROVE  OnePlace(n)'
<1> USE DEF ReportInv, TypeInv
<1>1. /\ queue' = queue /\ delivered' = delivered /\ ReportsDropped' = ReportsDropped
      /\ emitted' = emitted + 1 /\ sink[s].at = "idle" /\ emitted \in Nat /\ n \in Nat
  BY PathConstants DEF SinkEmit, queueVars, TypeOK, Reports
<1>2. sink[s].report = NoReport /\ NoReport # n
  BY <1>1, PathConstants DEF Shape, Reports
<1>3. sink'[s].report = emitted + 1 /\ \A t \in Sinks \ {s} : sink'[t] = sink[t]
  BY DEF SinkEmit, SinkGoto, TypeOK
<1>4. Occurs(queue, n)' <=> Occurs(queue, n)
  BY <1>1 DEF Occurs
<1>5. Occurs(delivered, n)' <=> Occurs(delivered, n)
  BY <1>1 DEF Occurs
<1>6. Once(queue, n)' /\ Once(delivered, n)'
  BY <1>1 DEF OnePlace, Once
<1>7. CASE n = emitted + 1
  <2>1. ~Carried(n) /\ ~Occurs(queue, n) /\ ~Occurs(delivered, n) /\ n \notin ReportsDropped
    BY <1>1, <1>7 DEF OnePlace
  <2>2. \A t \in Sinks : sink'[t].report = n <=> t = s
    BY <1>3, <1>7, <2>1 DEF Carried
  <2>3. Carried(n)' /\ n <= emitted'
    BY <1>1, <1>7, <2>2 DEF Carried
  <2> QED
    BY <1>1, <1>4, <1>5, <1>6, <2>1, <2>2, <2>3 DEF OnePlace
<1>8. CASE n # emitted + 1
  <2>1. \A t \in Sinks : sink'[t].report = n <=> sink[t].report = n
    BY <1>2, <1>3, <1>8
  <2>2. Carried(n)' <=> Carried(n)
    BY <2>1 DEF Carried
  <2>3. n <= emitted' <=> n <= emitted
    BY <1>1, <1>8
  <2> QED
    BY <1>1, <1>4, <1>5, <1>6, <2>1, <2>2, <2>3 DEF OnePlace
<1> QED
  BY <1>7, <1>8

(* A sink's report goes to a read, to the queue, or is dropped. *)
LEMMA PassReport ==
    ASSUME ReportInv, NEW n \in Reports, NEW s \in Sinks,
           (DequeueClaim(s) /\ ClaimIrp(sink[s].irp)) \/ SinkEnqueue(s)
    PROVE  OnePlace(n)'
<1> USE DEF ReportInv, TypeInv
<1>1. PICK m \in Reports : m = sink[s].report
  BY DEF DequeueClaim, SinkEnqueue, Shape
<1>2. sink'[s].report = NoReport /\ \A t \in Sinks \ {s} : sink'[t] = sink[t]
  BY DEF DequeueClaim, SinkEnqueue, SinkGoto, TypeOK
<1>3. NoReport # n
  BY PathConstants DEF Reports
<1>4. emitted' = emitted /\ queue \in Seq(Reports) /\ delivered \in Seq(Reports)
  BY DEF DequeueClaim, SinkEnqueue, TypeOK
<1>5. \/ delivered' = Append(delivered, m) /\ queue' = queue /\ ReportsDropped' = ReportsDropped
      \/ queue' = Append(queue, m) /\ delivered' = delivered /\ ReportsDropped' = ReportsDropped
      \/ ReportsDropped' = ReportsDropped \cup {m} /\ queue' = queue /\ delivered' = delivered
  BY <1>1 DEF DequeueClaim, SinkEnqueue, queueVars
<1>6. Carried(m)
  BY <1>1 DEF Carried
<1>7. ~Occurs(queue, m) /\ ~Occurs(delivered, m) /\ m \notin ReportsDropped
  BY <1>6 DEF OnePlace
<1>8. \A t \in Sinks : sink'[t].report = n => sink[t].report = n /\ t # s
  BY <1>2, <1>3
<1>9. Carried(n)' <=> Carried(n) /\ n # m
  <2>1. CASE n = m
    BY <1>1, <1>8, <2>1 DEF OnePlace, Carried
  <2>2. CASE n # m
    BY <1>1, <1>2, <1>8, <2>2 DEF Carried
  <2> QED
    BY <2>1, <2>2
<1>10. /\ Once(queue, n)' /\ Once(delivered, n)'
       /\ \/ /\ Occurs(delivered, n)' <=> Occurs(delivered, n) \/ n = m
             /\ Occurs(queue, n)' <=> Occurs(queue, n)
             /\ n \in ReportsDropped' <=> n \in ReportsDropped
          \/ /\ Occurs(delivered, n)' <=> Occurs(delivered, n)
             /\ Occurs(queue, n)' <=> Occurs(queue, n) \/ n = m
             /\ n \in ReportsDropped' <=> n \in ReportsDropped
          \/ /\ Occurs(delivered, n)' <=> Occurs(delivered, n)
             /\ Occurs(queue, n)' <=> Occurs(queue, n)
             /\ n \in ReportsDropped' <=> n \in ReportsDropped \/ n = m
  <2>1. Once(queue, n) /\ Once(delivered, n)
    BY DEF OnePlace
  <2>2. /\ Occurs(Append(delivered, m), n) <=> Occurs(delivered, n) \/ n = m
        /\ Once(Append(delivered, m), n)
    BY <1>4, <1>7, <2>1, OccursAppend
  <2>3. /\ Occurs(Append(queue, m), n) <=> Occurs(queue, n) \/ n = m
        /\ Once(Append(queue, m), n)
    BY <1>4, <1>7, <2>1, OccursAppend
  <2>4. queue' = queue => (Occurs(queue, n)' <=> Occurs(queue, n)) /\ Once(queue, n)'
    BY <2>1 DEF Occurs, Once
  <2>5. delivered' = delivered => (Occurs(delivered, n)' <=> Occurs(delivered, n)) /\ Once(delivered, n)'
    BY <2>1 DEF Occurs, Once
  <2>6. delivered' = Append(delivered, m) =>
          (Occurs(delivered, n)' <=> Occurs(delivered, n) \/ n = m) /\ Once(delivered, n)'
    BY <2>2
  <2>7. queue' = Append(queue, m) =>
          (Occurs(queue, n)' <=> Occurs(queue, n) \/ n = m) /\ Once(queue, n)'
    BY <2>3
  <2> QED
    BY <1>5, <2>4, <2>5, <2>6, <2>7
<1> QED
  BY <1>4, <1>6, <1>7, <1>8, <1>9, <1>10 DEF OnePlace

LEMMA ReportNext ==
    ASSUME ReportInv, [Next]_vars
    PROVE  ReportInv'
<1>1. TypeInv'
  BY TypeNext DEF ReportInv
<1>2. ASSUME NEW n \in Reports PROVE OnePlace(n)'
  <2>1. ASSUME NEW r \in Reads, ReadReport(r) \/ QueueRead(r) \/ IoCancelFlag(r) \/ CancelRead(r)
        PROVE  OnePlace(n)'
    <3>1. CASE ReadPop(r)
      BY <3>1, PopReport
    <3>2. CASE ~ReadPop(r)
      <4>1. /\ queue' = queue /\ delivered' = delivered /\ ReportsDropped' = ReportsDropped
            /\ emitted' = emitted /\ sink' = sink
        BY <2>1, <3>2 DEF ReadReport, ReadFindsEmpty, ReadCompletePopped, ReadAcquire, ReadRefused,
           QueueRead, QueueReadLink, QueueReadCheckCancel, QueueReadCompleteCancelled, IoCancelFlag,
           CancelRead, IoCancelExchange, CancelReadUnlink, CancelReadComplete, queueVars
      <4> QED
        BY <4>1, SameReports
    <3> QED
      BY <3>1, <3>2
  <2>2. ASSUME NEW s \in Sinks, SinkEmit(s) \/ ReportSink(s) PROVE OnePlace(n)'
    <3>1. CASE SinkEmit(s)
      BY <3>1, EmitReport
    <3>2. CASE (DequeueClaim(s) /\ ClaimIrp(sink[s].irp)) \/ SinkEnqueue(s)
      BY <3>2, PassReport
    <3>3. CASE \/ DequeueUnlink(s) \/ SinkDeliver(s) \/ SinkRelease(s)
               \/ DequeueClaim(s) /\ ~ClaimIrp(sink[s].irp)
      <4>1. /\ queue' = queue /\ delivered' = delivered /\ ReportsDropped' = ReportsDropped
            /\ emitted' = emitted
        BY <3>3 DEF DequeueUnlink, SinkDeliver, SinkRelease, DequeueClaim, queueVars
      <4>2. sink'[s].report = sink[s].report /\ \A t \in Sinks \ {s} : sink'[t] = sink[t]
        BY <3>3 DEF DequeueUnlink, SinkDeliver, SinkRelease, DequeueClaim, SinkGoto, ReportInv,
           TypeInv, TypeOK, Shape
      <4> QED
        BY <4>1, <4>2, SameReports
    <3> QED
      BY <2>2, <3>1, <3>2, <3>3 DEF ReportSink
  <2>3. CASE RaiseRemoved \/ DrainB \/ CancelPendingReads \/ UNCHANGED vars
    <3>1. /\ queue' = queue /\ delivered' = delivered /\ ReportsDropped' = ReportsDropped
          /\ emitted' = emitted /\ sink' = sink
      BY <2>3 DEF RaiseRemoved, DrainB, CancelPendingReads, vars, queueVars
    <3> QED
      BY <3>1, SameReports
  <2> QED
    BY <2>1, <2>2, <2>3 DEF Next
<1> QED
  BY <1>1, <1>2 DEF ReportInv

--------------------------------------------------------------------------------
(* The theorems *)

(***************************************************************************)
(* The invariants of the reads and of the reports, for any reads, sinks,   *)
(* queue length and number of reports.                                     *)
(***************************************************************************)
THEOREM PathInvariant == Spec => [](ReadInv /\ ReportInv)
<1>1. Init => ReadInv /\ ReportInv
  BY ReadInit, ReportInit
<1>2. ReadInv /\ ReportInv /\ [Next]_vars => (ReadInv /\ ReportInv)'
  BY ReadNext, ReportNext
<1> QED
  BY <1>1, <1>2, PTL DEF Spec

(***************************************************************************)
(* A read is completed at most once, however many sinks, cancellations     *)
(* and parking threads race for it: the exchange of the cancel routine     *)
(* hands the right on, and nobody completes without it.                    *)
(***************************************************************************)
THEOREM CompletedOnceHolds == Spec => [](TypeOK /\ CompletedOnce)
<1>1. ReadInv => TypeOK /\ CompletedOnce
  BY DEF ReadInv, TypeInv, ReadInvOf, HandNotCompleted, CompletedOnce
<1> QED
  BY <1>1, PathInvariant, PTL

(***************************************************************************)
(* RemoveLockB is held for exactly the reads that are parked or on their   *)
(* way in or out, so REMOVE waits for them all and for nothing else.       *)
(***************************************************************************)
THEOREM ReferencePerParkedReadHolds == Spec => []ReferencePerParkedRead
<1>1. ReadInv => ReferencePerParkedRead
  BY DEF ReadInv, ReadInvOf, Referenced, ReferencePerParkedRead
<1> QED
  BY <1>1, PathInvariant, PTL

LEMMA AtMostOneMember ==
    ASSUME NEW S, \A x, y \in S : x = y
    PROVE  Cardinality(S) = IF S = {} THEN 0 ELSE 1
<1>1. CASE S = {}
  BY <1>1, FS_EmptySet
<1>2. CASE S # {}
  <2>1. PICK x : x \in S
    BY <1>2
  <2>2. S = {x}
    BY <2>1
  <2> QED
    BY <2>2, FS_Singleton
<1> QED
  BY <1>1, <1>2

(***************************************************************************)
(* Each report emitted is in exactly one of a sink's hands, the queue, the *)
(* deliveries and the drop count: the path loses and duplicates nothing,   *)
(* however sinks and readers interleave.                                   *)
(***************************************************************************)
THEOREM ReportsAccountedHolds == Spec => []ReportsAccounted
<1>1. ReportInv => ReportsAccounted
  <2> SUFFICES ASSUME ReportInv, NEW n \in Reports
               PROVE  Copies(n) = IF n <= emitted THEN 1 ELSE 0
    BY DEF ReportsAccounted
  <2> DEFINE C == {s \in Sinks : sink[s].report = n}
             Q == {i \in DOMAIN queue : queue[i] = n}
             D == {i \in DOMAIN delivered : delivered[i] = n}
  <2>1. OnePlace(n)
    BY DEF ReportInv
  <2>2. (C = {} <=> ~Carried(n)) /\ (Q = {} <=> ~Occurs(queue, n)) /\ (D = {} <=> ~Occurs(delivered, n))
    BY DEF Carried, Occurs
  <2>3. /\ Cardinality(C) = IF C = {} THEN 0 ELSE 1
        /\ Cardinality(Q) = IF Q = {} THEN 0 ELSE 1
        /\ Cardinality(D) = IF D = {} THEN 0 ELSE 1
    <3>1. (\A x, y \in C : x = y) /\ (\A x, y \in Q : x = y) /\ (\A x, y \in D : x = y)
      BY <2>1 DEF OnePlace, Once
    <3> HIDE DEF C, Q, D
    <3> QED
      BY <3>1, AtMostOneMember
  <2>4. Copies(n) = Cardinality(C) + Cardinality(Q) + Cardinality(D)
                    + (IF n \in ReportsDropped THEN 1 ELSE 0)
    BY DEF Copies
  <2> HIDE DEF C, Q, D
  <2> QED
    BY <2>1, <2>2, <2>3, <2>4 DEF OnePlace
<1> QED
  BY <1>1, PathInvariant, PTL
--------------------------------------------------------------------------------
(* ReportPath implements ReadService *)

(***************************************************************************)
(* Why a read is failed: it was cancelled, or the device is leaving; and   *)
(* past the drain nobody holds RemoveLockB, so nobody is parked.           *)
(***************************************************************************)
Reasons ==
    /\ \A r \in Reads : reader[r] = "cancelled" \/ canceller[r] # "none" => cancelFlag[r]
    /\ removal \in {"drained", "unwired"} => refsB = {}

LEMMA ReasonsInit == Init => Reasons
BY DEF Init, Reasons

LEMMA ReasonsNext ==
    ASSUME TypeOK, Reasons, [Next]_vars
    PROVE  Reasons'
<1> USE DEF TypeOK, Reasons
<1>1. ASSUME NEW r \in Reads, ReadReport(r)
      PROVE  Reasons'
  BY <1>1 DEF ReadReport, ReadPop, ReadFindsEmpty, ReadCompletePopped, ReadAcquire, ReadRefused,
              ReadAt, cancelVars
<1>2. ASSUME NEW r \in Reads, QueueRead(r)
      PROVE  Reasons'
  BY <1>2 DEF QueueRead, QueueReadLink, QueueReadCheckCancel, QueueReadCompleteCancelled, ReadAt,
              cancelVars
<1>3. ASSUME NEW r \in Reads, IoCancelFlag(r)
      PROVE  Reasons'
  BY <1>3 DEF IoCancelFlag, CancelAt
<1>4. ASSUME NEW r \in Reads, CancelRead(r)
      PROVE  Reasons'
  BY <1>4 DEF CancelRead, IoCancelExchange, CancelReadUnlink, CancelReadComplete, CancelAt
<1>5. ASSUME NEW s \in Sinks, SinkEmit(s) \/ ReportSink(s)
      PROVE  Reasons'
  BY <1>5 DEF SinkEmit, ReportSink, DequeueUnlink, DequeueClaim, SinkDeliver, SinkRelease,
              SinkEnqueue, cancelVars
<1>6. CASE RaiseRemoved \/ DrainB \/ CancelPendingReads \/ UNCHANGED vars
  BY <1>6 DEF RaiseRemoved, DrainB, CancelPendingReads, cancelVars, vars
<1> QED
  BY <1>1, <1>2, <1>3, <1>4, <1>5, <1>6 DEF Next

Served(r) == reader[r] = "popped" \/ \E s \in Sinks : Delivering(s, r)

(* A read whose completion count and giver are as before. *)
LEMMA StateKept ==
    ASSUME NEW r \in Reads, completed'[r] = completed[r], Served(r)' <=> Served(r)
    PROVE  ReadState(r)' = ReadState(r)
BY DEF ReadState, Served, Delivering

LEMMA StatesKept ==
    ASSUME completed' = completed, \A r \in Reads : Served(r)' <=> Served(r)
    PROVE  ReadStates' = ReadStates
<1>1. \A r \in Reads : ReadState(r)' = ReadState(r)
  BY StateKept
<1> QED
  BY <1>1 DEF ReadStates

LEMMA StateGoes ==
    ASSUME NEW r \in Reads, NEW to, ReadState(r)' = to,
           \A q \in Reads : q # r => ReadState(q)' = ReadState(q)
    PROVE  ReadStates' = [ReadStates EXCEPT ![r] = to]
BY DEF ReadStates

LEMMA StateIs ==
    ASSUME NEW r \in Reads
    PROVE  ReadStates[r] = ReadState(r)
BY DEF ReadStates
(* A step that gives no report away, answers nothing and cancels nothing. *)
LEMMA QuietService ==
    ASSUME completed' = completed, \A r \in Reads : Served(r)' <=> Served(r),
           \A s \in Sinks : sink'[s].report = sink[s].report,
           UNCHANGED <<queue, delivered, ReportsDropped, emitted, cancelFlag>>,
           Device' = Device
    PROVE  UNCHANGED Service!serviceVars
<1>1. ReadStates' = ReadStates
  BY StatesKept
<1>2. InHand' = InHand /\ CancelledReads' = CancelledReads
  BY DEF InHand, CancelledReads
<1> QED
  BY <1>1, <1>2 DEF Service!serviceVars, Service!reports

(* The thread that holds the right to complete a read fails it. *)
LEMMA FailService ==
    ASSUME ReadInv, NEW r \in Reads, WithReader(r) \/ WithCanceller(r), reader[r] # "popped",
           reader'[r] # "popped", \A q \in Reads : q # r => reader'[q] = reader[q],
           Complete(r), cancelFlag[r] \/ removal # "none",
           UNCHANGED <<sink, queue, delivered, ReportsDropped, emitted, cancelFlag, removal>>
    PROVE  Service!Fail(r)
<1>1. completed \in [Reads -> Nat] /\ completed[r] = 0 /\ ~Served(r)
  BY DEF ReadInv, TypeInv, TypeOK, ReadInvOf, OneHand, HandNotCompleted, Served, Delivering,
         WithSink, WithReader, WithCanceller, Parking
<1>2. ReadState(r) = "out" /\ ReadState(r)' = "done"
  BY <1>1 DEF ReadState, Served, Delivering, Complete
<1>3. \A q \in Reads : q # r => ReadState(q)' = ReadState(q)
  <2>1. \A q \in Reads : q # r => completed'[q] = completed[q] /\ (Served(q)' <=> Served(q))
    BY <1>1 DEF Complete, Served, Delivering
  <2> QED
    BY <2>1, StateKept
<1>4. ReadStates[r] = "out" /\ ReadStates' = [ReadStates EXCEPT ![r] = "done"]
  BY <1>2, <1>3, StateGoes, StateIs
<1>5. /\ InHand' = InHand /\ CancelledReads' = CancelledReads /\ Device' = Device
      /\ r \in CancelledReads \/ Device # "there"
  BY DEF InHand, CancelledReads, Device
<1> QED
  BY <1>4, <1>5 DEF Service!Fail, Service!ReadGoes, Service!reports

LEMMA PopServes ==
    ASSUME ReadInv, NEW r \in Reads, ReadPop(r)
    PROVE  Service!ServeOldest(r)
<1>1. /\ reader[r] = "new" /\ reader' = [reader EXCEPT ![r] = "popped"] /\ completed' = completed
      /\ queue # <<>> /\ queue' = Tail(queue) /\ delivered' = Append(delivered, Head(queue))
      /\ UNCHANGED <<sink, ReportsDropped, emitted, cancelFlag, removal>>
  BY DEF ReadPop, ReadAt, cancelVars
<1>2. DOMAIN reader = Reads /\ completed[r] = 0 /\ ~Served(r)
  BY <1>1 DEF ReadInv, TypeInv, TypeOK, ReadInvOf, OneHand, HandNotCompleted, Served, Delivering,
              WithSink, WithReader
<1>3. ReadState(r) = "out" /\ ReadState(r)' = "served"
  BY <1>1, <1>2 DEF ReadState, Served, Delivering
<1>4. \A q \in Reads : q # r => ReadState(q)' = ReadState(q)
  BY <1>1, <1>2, StateKept DEF Served, Delivering
<1>5. ReadStates[r] = "out" /\ ReadStates' = [ReadStates EXCEPT ![r] = "served"]
  BY <1>3, <1>4, StateGoes, StateIs
<1>6. InHand' = InHand /\ CancelledReads' = CancelledReads /\ Device' = Device
  BY <1>1 DEF InHand, CancelledReads, Device
<1> QED
  BY <1>1, <1>5, <1>6 DEF Service!ServeOldest, Service!ReadGoes

LEMMA PoppedAnswers ==
    ASSUME ReadInv, NEW r \in Reads, ReadCompletePopped(r)
    PROVE  Service!Answer(r)
<1>1. /\ reader[r] = "popped" /\ reader' = [reader EXCEPT ![r] = "returned"] /\ Complete(r)
      /\ UNCHANGED <<queue, delivered, sink, ReportsDropped, emitted, cancelFlag, removal>>
  BY DEF ReadCompletePopped, ReadAt, cancelVars, queueVars
<1>2. DOMAIN reader = Reads /\ completed \in [Reads -> Nat] /\ completed[r] = 0
  BY <1>1 DEF ReadInv, TypeInv, TypeOK, ReadInvOf, HandNotCompleted, WithReader
<1>3. ReadState(r) = "served" /\ ReadState(r)' = "done"
  BY <1>1, <1>2 DEF ReadState, Complete
<1>4. \A q \in Reads : q # r => ReadState(q)' = ReadState(q)
  BY <1>1, <1>2, StateKept DEF Served, Delivering, Complete
<1>5. ReadStates[r] = "served" /\ ReadStates' = [ReadStates EXCEPT ![r] = "done"]
  BY <1>3, <1>4, StateGoes, StateIs
<1>6. InHand' = InHand /\ CancelledReads' = CancelledReads /\ Device' = Device
  BY <1>1 DEF InHand, CancelledReads, Device
<1> QED
  BY <1>1, <1>5, <1>6 DEF Service!Answer, Service!ReadGoes, Service!reports

LEMMA FlagCancels ==
    ASSUME ReadInv, NEW r \in Reads, IoCancelFlag(r), ~cancelFlag[r]
    PROVE  Service!Cancel(r)
<1>1. /\ completed[r] = 0 /\ cancelFlag' = [cancelFlag EXCEPT ![r] = TRUE]
      /\ UNCHANGED <<queue, delivered, sink, ReportsDropped, emitted, reader, completed, removal>>
  BY DEF IoCancelFlag, CancelAt, queueVars
<1>2. cancelFlag \in [Reads -> BOOLEAN]
  BY DEF ReadInv, TypeInv, TypeOK
<1>3. ReadStates' = ReadStates /\ ReadStates[r] # "done"
  BY <1>1, StatesKept, StateIs DEF Served, Delivering, ReadState
<1>4. r \notin CancelledReads /\ CancelledReads' = CancelledReads \cup {r}
  BY <1>1, <1>2 DEF CancelledReads
<1>5. InHand' = InHand /\ Device' = Device
  BY <1>1 DEF InHand, Device
<1> QED
  BY <1>1, <1>3, <1>4, <1>5 DEF Service!Cancel, Service!reports

LEMMA ReadServes ==
    ASSUME ReadInv, Reasons, NEW r \in Reads,
           ReadReport(r) \/ QueueRead(r) \/ IoCancelFlag(r) \/ CancelRead(r)
    PROVE  Service!ServiceNext \/ UNCHANGED Service!serviceVars
<1>1. TypeOK /\ DOMAIN reader = Reads
  BY DEF ReadInv, TypeInv, TypeOK
<1>2. CASE \/ ReadFindsEmpty(r) \/ ReadAcquire(r) \/ QueueReadLink(r) \/ QueueReadCheckCancel(r)
           \/ IoCancelExchange(r) \/ CancelReadUnlink(r)
  <2>1. UNCHANGED <<completed, sink, queue, delivered, ReportsDropped, emitted, cancelFlag, removal>>
    BY <1>2 DEF ReadFindsEmpty, ReadAcquire, QueueReadLink, QueueReadCheckCancel,
                IoCancelExchange, CancelReadUnlink, cancelVars, queueVars
  <2>2. \A q \in Reads : reader[q] = "popped" <=> reader'[q] = "popped"
    BY <1>1, <1>2 DEF ReadFindsEmpty, ReadAcquire, QueueReadLink, QueueReadCheckCancel,
                      IoCancelExchange, CancelReadUnlink, ReadAt
  <2>3. \A q \in Reads : Served(q)' <=> Served(q)
    BY <2>1, <2>2 DEF Served, Delivering
  <2> QED
    BY <2>1, <2>3, QuietService DEF Device
<1>3. CASE ReadRefused(r) \/ QueueReadCompleteCancelled(r)
  <2>1. /\ reader[r] \in {"empty", "cancelled"} /\ reader' = [reader EXCEPT ![r] = "returned"]
        /\ Complete(r) /\ (removal # "none" \/ reader[r] = "cancelled")
        /\ UNCHANGED <<sink, queue, delivered, ReportsDropped, emitted, cancelFlag, removal>>
    BY <1>3 DEF ReadRefused, QueueReadCompleteCancelled, ReadAt, cancelVars, queueVars
  <2>2. Service!Fail(r)
    BY <1>1, <2>1, FailService DEF WithReader, Reasons
  <2> QED
    BY <2>2 DEF Service!ServiceNext
<1>4. CASE CancelReadComplete(r)
  <2>1. /\ canceller[r] = "unlinked" /\ reader' = reader /\ Complete(r)
        /\ UNCHANGED <<sink, queue, delivered, ReportsDropped, emitted, cancelFlag, removal>>
    BY <1>4 DEF CancelReadComplete, CancelAt, cancelVars, queueVars
  <2>2. reader[r] = "returned"
    BY <2>1 DEF ReadInv, ReadInvOf, Parking
  <2>3. Service!Fail(r)
    BY <2>1, <2>2, FailService DEF WithCanceller, Reasons
  <2> QED
    BY <2>3 DEF Service!ServiceNext
<1>5. CASE IoCancelFlag(r)
  <2>1. CASE ~cancelFlag[r]
    BY <1>5, <2>1, FlagCancels DEF Service!ServiceNext
  <2>2. CASE cancelFlag[r]
    <3>1. /\ cancelFlag' = cancelFlag
          /\ UNCHANGED <<completed, reader, sink, queue, delivered, ReportsDropped, emitted, removal>>
      BY <1>1, <1>5, <2>2 DEF IoCancelFlag, queueVars, TypeOK
    <3> QED
      BY <3>1, QuietService DEF Served, Delivering, Device
  <2> QED
    BY <2>1, <2>2
<1>6. CASE ReadPop(r) \/ ReadCompletePopped(r)
  BY <1>6, PopServes, PoppedAnswers DEF Service!ServiceNext
<1> QED
  BY <1>2, <1>3, <1>4, <1>5, <1>6 DEF ReadReport, QueueRead, CancelRead
--------------------------------------------------------------------------------

(* A sink thread parts with its report: nobody else has it. *)
LEMMA HandsOver ==
    ASSUME ReportInv, NEW s \in Sinks, NEW w, sink' = [sink EXCEPT ![s] = w],
           w.report = NoReport, sink[s].report \in Reports
    PROVE  /\ sink[s].report \in InHand
           /\ InHand' = InHand \ {sink[s].report}
<1> DEFINE n == sink[s].report
<1>1. n # NoReport /\ sink'[s].report = NoReport /\ \A t \in Sinks : t # s => sink'[t] = sink[t]
  BY PathConstants DEF ReportInv, TypeInv, TypeOK, Reports
<1>2. \A t \in Sinks : sink[t].report = n => t = s
  BY DEF ReportInv, OnePlace
<1> HIDE DEF n
<1>3. n \in InHand
  BY <1>1 DEF InHand, n
<1>4. ASSUME NEW m, m \in InHand' PROVE m \in InHand /\ m # n
  <2>1. PICK t \in Sinks : m = sink'[t].report /\ m # NoReport
    BY <1>4 DEF InHand
  <2>2. t # s /\ m = sink[t].report
    BY <1>1, <2>1
  <2> QED
    BY <1>2, <2>1, <2>2 DEF InHand
<1>5. ASSUME NEW m, m \in InHand, m # n PROVE m \in InHand'
  <2>1. PICK t \in Sinks : m = sink[t].report /\ m # NoReport
    BY <1>5 DEF InHand
  <2>2. t # s
    BY <1>5, <2>1 DEF n
  <2> QED
    BY <1>1, <2>1, <2>2 DEF InHand
<1> QED
  BY <1>3, <1>4, <1>5 DEF n

LEMMA SinkEmits ==
    ASSUME ReadInv, NEW s \in Sinks, SinkEmit(s)
    PROVE  Service!Emit
<1> DEFINE w == [at |-> "scan", report |-> emitted + 1, irp |-> NoRead]
<1>1. /\ sink[s].at = "idle" /\ emitted < MaxReports /\ removal # "unwired"
      /\ emitted' = emitted + 1 /\ sink' = [sink EXCEPT ![s] = w]
      /\ UNCHANGED <<queue, completed, reader, cancelFlag, delivered, ReportsDropped, removal>>
  BY DEF SinkEmit, SinkGoto, queueVars, cancelVars
<1>2. /\ sink[s].report = NoReport /\ emitted + 1 \in Reports /\ emitted + 1 # NoReport
      /\ DOMAIN sink = Sinks
  BY <1>1, PathConstants DEF ReadInv, TypeInv, TypeOK, Shape, Reports
<1>3. /\ w.at = "scan" /\ w.report = emitted + 1
      /\ sink'[s] = w /\ \A t \in Sinks : t # s => sink'[t] = sink[t]
  BY <1>1, <1>2
<1> HIDE DEF w
<1>4. InHand' = InHand \cup {emitted + 1}
  <2>1. ASSUME NEW m, m \in InHand' PROVE m \in InHand \cup {emitted + 1}
    BY <1>3, <2>1 DEF InHand
  <2>2. ASSUME NEW m, m \in InHand PROVE m \in InHand'
    <3>1. PICK t \in Sinks : m = sink[t].report /\ m # NoReport
      BY <2>2 DEF InHand
    <3> QED
      BY <1>2, <1>3, <3>1 DEF InHand
  <2>3. emitted + 1 \in InHand'
    BY <1>2, <1>3 DEF InHand
  <2> QED
    BY <2>1, <2>2, <2>3
<1>5. ReadStates' = ReadStates
  <2>1. \A r \in Reads : Served(r)' <=> Served(r)
    BY <1>1, <1>3 DEF Served, Delivering
  <2> QED
    BY <1>1, <2>1, StatesKept
<1>6. CancelledReads' = CancelledReads /\ Device' = Device /\ Device # "gone"
  BY <1>1 DEF CancelledReads, Device, ReadInv, TypeInv, TypeOK
<1> QED
  BY <1>1, <1>4, <1>5, <1>6 DEF Service!Emit

(* Unlinking, losing the exchange, and dropping the reference. *)
LEMMA SinkQuiet ==
    ASSUME ReadInv, NEW s \in Sinks,
           \/ DequeueUnlink(s) \/ SinkRelease(s)
           \/ DequeueClaim(s) /\ ~ClaimIrp(sink[s].irp)
    PROVE  UNCHANGED Service!serviceVars
<1>1. /\ UNCHANGED <<queue, completed, reader, cancelFlag, emitted, delivered, ReportsDropped, removal>>
      /\ sink[s].at # "deliver" /\ sink'[s].at # "deliver" /\ sink'[s].report = sink[s].report
      /\ \A t \in Sinks : t # s => sink'[t] = sink[t]
  BY DEF DequeueUnlink, SinkRelease, DequeueClaim, SinkGoto, queueVars, cancelVars, ReadInv,
         TypeInv, TypeOK, Shape
<1>2. \A r \in Reads : Served(r)' <=> Served(r)
  BY <1>1 DEF Served, Delivering
<1> QED
  BY <1>1, <1>2, QuietService DEF Device

LEMMA ClaimServes ==
    ASSUME ReadInv, ReportInv, NEW s \in Sinks, DequeueClaim(s), ClaimIrp(sink[s].irp)
    PROVE  \E n \in InHand, r \in Reads : Service!Serve(r, n)
<1>a. sink[s].at = "claim" /\ sink[s].irp \in Reads /\ sink[s].report \in Reports
  BY DEF DequeueClaim, ReadInv, TypeInv, Shape
<1>b. PICK r \in Reads : r = sink[s].irp
  BY <1>a
<1> DEFINE w == [at |-> "deliver", report |-> NoReport, irp |-> r]
<1>1. /\ sink' = [sink EXCEPT ![s] = w] /\ delivered' = Append(delivered, sink[s].report)
      /\ UNCHANGED <<queue, completed, reader, cancelFlag, emitted, ReportsDropped, removal>>
  BY <1>b DEF DequeueClaim, SinkGoto, queueVars, cancelVars
<1>2. /\ w.report = NoReport /\ w.at = "deliver" /\ w.irp = r /\ sink'[s] = w
      /\ \A t \in Sinks : t # s => sink'[t] = sink[t]
  BY <1>1 DEF ReadInv, TypeInv, TypeOK
<1> HIDE DEF w
<1>3. sink[s].report \in InHand /\ InHand' = InHand \ {sink[s].report}
  BY <1>a, <1>1, <1>2, HandsOver
<1>4. routine[r] /\ completed[r] = 0 /\ ~Served(r)
  BY <1>b DEF ClaimIrp, ReadInv, ReadInvOf, OneHand, HandNotCompleted, Served, Delivering,
         WithReader, WithSink
<1>5. ReadState(r) = "out" /\ ReadState(r)' = "served"
  BY <1>1, <1>2, <1>4 DEF ReadState, Served, Delivering
<1>6. \A q \in Reads : q # r => ReadState(q)' = ReadState(q)
  <2>1. \A q \in Reads : q # r => (Served(q)' <=> Served(q))
    BY <1>a, <1>1, <1>2 DEF Served, Delivering
  <2> QED
    BY <1>1, <2>1, StateKept
<1>7. ReadStates[r] = "out" /\ ReadStates' = [ReadStates EXCEPT ![r] = "served"]
  BY <1>5, <1>6, StateGoes, StateIs
<1>8. CancelledReads' = CancelledReads /\ Device' = Device
  BY <1>1 DEF CancelledReads, Device
<1>9. Service!Serve(r, sink[s].report)
  BY <1>1, <1>3, <1>7, <1>8 DEF Service!Serve, Service!ReadGoes
<1> QED
  BY <1>3, <1>9

LEMMA DeliverAnswers ==
    ASSUME ReadInv, NEW s \in Sinks, SinkDeliver(s)
    PROVE  \E r \in Reads : Service!Answer(r)
<1>a. sink[s].at = "deliver" /\ sink[s].irp \in Reads /\ sink[s].report = NoReport
  BY DEF SinkDeliver, ReadInv, TypeInv, Shape
<1>b. PICK r \in Reads : r = sink[s].irp
  BY <1>a
<1>1. /\ sink' = [sink EXCEPT ![s] = [at |-> "release", report |-> NoReport, irp |-> r]]
      /\ Complete(r)
      /\ UNCHANGED <<queue, delivered, reader, cancelFlag, emitted, ReportsDropped, removal>>
  BY <1>b DEF SinkDeliver, SinkGoto, queueVars, cancelVars
<1>2. /\ sink'[s].at = "release" /\ sink'[s].report = NoReport
      /\ \A t \in Sinks : t # s => sink'[t] = sink[t]
  BY <1>1 DEF ReadInv, TypeInv, TypeOK
<1>3. Delivering(s, r) /\ completed \in [Reads -> Nat] /\ completed[r] = 0
  BY <1>a, <1>b DEF Delivering, ReadInv, TypeInv, TypeOK, ReadInvOf, HandNotCompleted
<1>4. ReadState(r) = "served" /\ ReadState(r)' = "done"
  BY <1>1, <1>3 DEF ReadState, Complete, Delivering
<1>5. \A q \in Reads : q # r => ReadState(q)' = ReadState(q)
  <2>1. \A q \in Reads : q # r => completed'[q] = completed[q] /\ (Served(q)' <=> Served(q))
    BY <1>b, <1>1, <1>2, <1>3 DEF Served, Delivering, Complete
  <2> QED
    BY <2>1, StateKept
<1>6. ReadStates[r] = "served" /\ ReadStates' = [ReadStates EXCEPT ![r] = "done"]
  BY <1>4, <1>5, StateGoes, StateIs
<1>7. InHand' = InHand
  <2>1. \A t \in Sinks : sink'[t].report = sink[t].report
    BY <1>a, <1>2
  <2> QED
    BY <2>1 DEF InHand
<1>8. CancelledReads' = CancelledReads /\ Device' = Device
  BY <1>1 DEF CancelledReads, Device
<1>9. Service!Answer(r)
  BY <1>1, <1>6, <1>7, <1>8 DEF Service!Answer, Service!ReadGoes, Service!reports
<1> QED
  BY <1>9

LEMMA EnqueueWaits ==
    ASSUME ReadInv, ReportInv, NEW s \in Sinks, SinkEnqueue(s)
    PROVE  \E n \in InHand : Service!Wait(n) \/ Service!Drop(n)
<1> DEFINE n == sink[s].report
           w == [at |-> "idle", report |-> NoReport, irp |-> NoRead]
<1>1. /\ sink[s].at = "enqueue" /\ sink' = [sink EXCEPT ![s] = w]
      /\ \/ Len(queue) >= QueueMax /\ ReportsDropped' = ReportsDropped \cup {n} /\ queue' = queue
         \/ ~(Len(queue) >= QueueMax) /\ queue' = Append(queue, n) /\ ReportsDropped' = ReportsDropped
      /\ UNCHANGED <<completed, reader, cancelFlag, emitted, delivered, removal>>
  BY DEF SinkEnqueue, SinkGoto, cancelVars
<1>2. /\ w.report = NoReport /\ w.at = "idle" /\ sink'[s] = w /\ n \in Reports
      /\ Len(queue) \in Nat /\ QueueMax \in Nat
      /\ \A t \in Sinks : t # s => sink'[t] = sink[t]
  BY <1>1, PathConstants DEF ReadInv, TypeInv, TypeOK, Shape
<1> HIDE DEF w
<1>3. n \in InHand /\ InHand' = InHand \ {n}
  BY <1>1, <1>2, HandsOver
<1>4. ReadStates' = ReadStates
  <2>1. \A r \in Reads : Served(r)' <=> Served(r)
    BY <1>1, <1>2 DEF Served, Delivering
  <2> QED
    BY <1>1, <2>1, StatesKept
<1>5. CancelledReads' = CancelledReads /\ Device' = Device
  BY <1>1 DEF CancelledReads, Device
<1> HIDE DEF n
<1>6. CASE Len(queue) >= QueueMax
  BY <1>1, <1>3, <1>4, <1>5, <1>6 DEF Service!Drop
<1>7. CASE Len(queue) < QueueMax
  BY <1>1, <1>2, <1>3, <1>4, <1>5, <1>7 DEF Service!Wait
<1> QED
  BY <1>2, <1>6, <1>7
LEMMA SinkServes ==
    ASSUME ReadInv, ReportInv, NEW s \in Sinks, SinkEmit(s) \/ ReportSink(s)
    PROVE  Service!ServiceNext \/ UNCHANGED Service!serviceVars
<1>1. CASE SinkEmit(s)
  BY <1>1, SinkEmits DEF Service!ServiceNext
<1>2. CASE DequeueUnlink(s) \/ SinkRelease(s) \/ (DequeueClaim(s) /\ ~ClaimIrp(sink[s].irp))
  BY <1>2, SinkQuiet
<1>3. CASE DequeueClaim(s) /\ ClaimIrp(sink[s].irp)
  BY <1>3, ClaimServes DEF Service!ServiceNext
<1>4. CASE SinkDeliver(s)
  BY <1>4, DeliverAnswers DEF Service!ServiceNext
<1>5. CASE SinkEnqueue(s)
  BY <1>5, EnqueueWaits DEF Service!ServiceNext
<1> QED
  BY <1>1, <1>2, <1>3, <1>4, <1>5 DEF ReportSink

(***************************************************************************)
(* AdaptoidCancelPendingReads finds nobody to fail: a read that still had  *)
(* its cancel routine would hold RemoveLockB, and the wait has ended.      *)
(***************************************************************************)
LEMMA UnwireCloses ==
    ASSUME ReadInv, Reasons, CancelPendingReads
    PROVE  Service!Close
<1>1. /\ removal = "drained" /\ removal' = "unwired" /\ \A s \in Sinks : sink[s].at = "idle"
      /\ completed' = [r \in Reads |-> completed[r] + (IF Listed(r) /\ routine[r] THEN 1 ELSE 0)]
      /\ UNCHANGED <<queue, reader, cancelFlag, sink, emitted, delivered, ReportsDropped>>
  BY DEF CancelPendingReads, ClaimIrp, cancelVars
<1>2. \A r \in Reads : ~routine[r]
  <2>1. refsB = {}
    BY <1>1 DEF Reasons
  <2> QED
    BY <2>1 DEF ReadInv, ReadInvOf, Referenced, OwesReference
<1>3. \A r \in Reads : completed'[r] = completed[r]
  BY <1>1, <1>2 DEF ReadInv, TypeInv, TypeOK
<1>4. ReadStates' = ReadStates
  <2>1. \A r \in Reads : ReadState(r)' = ReadState(r)
    BY <1>1, <1>3, StateKept DEF Served, Delivering
  <2> QED
    BY <2>1 DEF ReadStates
<1>5. InHand = {} /\ InHand' = {}
  <2>1. \A s \in Sinks : sink[s].report = NoReport
    BY <1>1 DEF ReadInv, TypeInv, Shape
  <2> QED
    BY <1>1, <2>1 DEF InHand
<1>6. CancelledReads' = CancelledReads /\ Device = "leaving" /\ Device' = "gone"
  BY <1>1 DEF CancelledReads, Device
<1> QED
  BY <1>1, <1>4, <1>5, <1>6 DEF Service!Close, Service!reports

LEMMA RemovalServes ==
    ASSUME ReadInv, Reasons, RaiseRemoved \/ DrainB \/ CancelPendingReads \/ UNCHANGED vars
    PROVE  Service!ServiceNext \/ UNCHANGED Service!serviceVars
<1>1. CASE RaiseRemoved
  <2>1. UNCHANGED <<completed, reader, sink, queue, delivered, ReportsDropped, emitted, cancelFlag>>
    BY <1>1 DEF RaiseRemoved, queueVars, cancelVars
  <2>2. /\ ReadStates' = ReadStates /\ InHand' = InHand /\ CancelledReads' = CancelledReads
    BY <2>1, StatesKept DEF Served, Delivering, InHand, CancelledReads
  <2>3. Device = "there" /\ Device' = "leaving"
    BY <1>1 DEF RaiseRemoved, Device
  <2>4. Service!Leave
    BY <2>1, <2>2, <2>3 DEF Service!Leave, Service!reports
  <2> QED
    BY <2>4 DEF Service!ServiceNext
<1>2. CASE DrainB \/ UNCHANGED vars
  <2>1. UNCHANGED <<completed, reader, sink, queue, delivered, ReportsDropped, emitted, cancelFlag>>
    BY <1>2 DEF DrainB, vars, queueVars, cancelVars
  <2>2. Device' = Device
    BY <1>2 DEF DrainB, vars, Device
  <2> QED
    BY <2>1, <2>2, QuietService DEF Served, Delivering
<1>3. CASE CancelPendingReads
  BY <1>3, UnwireCloses DEF Service!ServiceNext
<1> QED
  BY <1>1, <1>2, <1>3

LEMMA InitServes ==
    ASSUME Init
    PROVE  Service!ServiceInit
<1>1. ReadStates = [r \in Reads |-> "out"]
  <2>1. \A r \in Reads : ReadState(r) = "out"
    BY DEF Init, ReadState, SinkIdle
  <2> QED
    BY <2>1 DEF ReadStates
<1>2. InHand = {} /\ CancelledReads = {} /\ Device = "there"
  BY DEF Init, InHand, SinkIdle, CancelledReads, Device
<1> QED
  BY <1>1, <1>2 DEF Init, Service!ServiceInit

(***************************************************************************)
(* AdaptoidReadReport, AdaptoidReportSink and cancellation, interleaved in *)
(* any way, are the service of module ReadService: each read is answered   *)
(* once, with a report nobody else got or with a failure it has a reason   *)
(* for, and no report leaves the path but through a read or a full queue.  *)
(***************************************************************************)
THEOREM PathImplementsService == Spec => ImplementsService
<1> DEFINE Inv == ReadInv /\ ReportInv /\ Reasons
<1>1. Init => Inv /\ Service!ServiceInit
  BY ReadInit, ReportInit, ReasonsInit, InitServes
<1>2. Inv /\ [Next]_vars => Inv'
  BY ReadNext, ReportNext, ReasonsNext DEF ReadInv, TypeInv
<1>3. Inv /\ [Next]_vars => [Service!ServiceNext]_Service!serviceVars
  BY ReadServes, SinkServes, RemovalServes DEF Next
<1> HIDE DEF Inv
<1> QED
  BY <1>1, <1>2, <1>3, PTL DEF Spec, ImplementsService, Service!ServiceSpec

--------------------------------------------------------------------------------
(* InputReports: what the host was told *)

Collections == {Joystick, Keyboard, Mouse}

CoreFields ==
    {"mask", "clip", "stretch", "map", "tune", "period", "duty", "strength", "raw", "pending",
     "gate", "prev_status", "stick", "buttons", "modifiers", "keys", "mouse", "virtual",
     "reports_enabled"}

Viewed(s) ==
    /\ DOMAIN s = {"cs", "host", "lapse"} /\ DOMAIN s.cs = CoreFields
    /\ DOMAIN s.host = Collections

(* The host has been told of the keys, of the buttons; and only declared collections told it. *)
KeysTold(s) ==
    Keyboard \in s.cs.mask \ s.lapse =>
        /\ s.host[Keyboard].modifiers = s.cs.modifiers
        /\ s.host[Keyboard].keys =
              IF Len(s.cs.keys) > CORE_HID_KEYS_REPORTED THEN Rollover ELSE s.cs.keys

MouseTold(s) == Mouse \in s.cs.mask \ s.lapse => s.host[Mouse].buttons = s.cs.mouse

Masked(s) == \A c \in Collections : s.host[c] # Silent[c] => c \in s.cs.mask

(* Only fields in F have changed. *)
Differ(core, next, F) ==
    DOMAIN next = CoreFields /\ \A f \in CoreFields \ F : next[f] = core[f]

LEMMA EmitTells ==
    ASSUME NEW s, Viewed(s), NEW collection \in Collections, NEW report
    PROVE  LET r == Emit(s, collection, report)
           IN  /\ Viewed(r) /\ r.cs = s.cs
               /\ \A c \in Collections \ {collection} :
                     r.host[c] = s.host[c] /\ (c \in r.lapse <=> c \in s.lapse)
               /\ collection \in s.cs.mask => r.host[collection] = report
               /\ Masked(s) => Masked(r)
BY DEF Viewed, Emit, Masked

LEMMA EmitKeysTells ==
    ASSUME NEW s, Viewed(s)
    PROVE  LET r == KeyReport(s)
           IN  /\ Viewed(r) /\ r.cs = s.cs /\ KeysTold(r)
               /\ MouseTold(s) => MouseTold(r)
               /\ Masked(s) => Masked(r)
               /\ r.host[Joystick] = s.host[Joystick]
<1> DEFINE r == Emit(s, Keyboard, KeyboardReport(s.cs))
<1>1. /\ Viewed(r) /\ r.cs = s.cs
      /\ \A c \in Collections \ {Keyboard} :
            r.host[c] = s.host[c] /\ (c \in r.lapse <=> c \in s.lapse)
      /\ Keyboard \in s.cs.mask => r.host[Keyboard] = KeyboardReport(s.cs)
      /\ Masked(s) => Masked(r)
  BY EmitTells DEF Collections
<1>2. /\ KeyboardReport(s.cs).modifiers = s.cs.modifiers
      /\ KeyboardReport(s.cs).keys =
            IF Len(s.cs.keys) > CORE_HID_KEYS_REPORTED THEN Rollover ELSE s.cs.keys
  BY DEF KeyboardReport, KeysOf
<1> HIDE DEF r
<1>3. Joystick \in Collections \ {Keyboard} /\ Mouse \in Collections \ {Keyboard}
  BY DEF Collections, Joystick, Keyboard, Mouse
<1>4. KeysTold(r)
  BY <1>1, <1>2 DEF KeysTold
<1>5. (MouseTold(s) => MouseTold(r)) /\ r.host[Joystick] = s.host[Joystick]
  BY <1>1, <1>3 DEF MouseTold
<1> QED
  BY <1>1, <1>4, <1>5 DEF r, KeyReport

LEMMA EmitMouseTells ==
    ASSUME NEW s, Viewed(s), NEW report, report.buttons = s.cs.mouse
    PROVE  LET r == Emit(s, Mouse, report)
           IN  /\ Viewed(r) /\ r.cs = s.cs /\ MouseTold(r)
               /\ KeysTold(s) => KeysTold(r)
               /\ Masked(s) => Masked(r)
               /\ r.host[Joystick] = s.host[Joystick]
<1> DEFINE r == Emit(s, Mouse, report)
<1>1. /\ Viewed(r) /\ r.cs = s.cs
      /\ \A c \in Collections \ {Mouse} :
            r.host[c] = s.host[c] /\ (c \in r.lapse <=> c \in s.lapse)
      /\ Mouse \in s.cs.mask => r.host[Mouse] = report
      /\ Masked(s) => Masked(r)
  BY EmitTells DEF Collections
<1> HIDE DEF r
<1>3. Joystick \in Collections \ {Mouse} /\ Keyboard \in Collections \ {Mouse}
  BY DEF Collections, Joystick, Keyboard, Mouse
<1>4. MouseTold(r)
  BY <1>1 DEF MouseTold
<1>5. (KeysTold(s) => KeysTold(r)) /\ r.host[Joystick] = s.host[Joystick]
  BY <1>1, <1>3 DEF KeysTold
<1> QED
  BY <1>1, <1>4, <1>5 DEF r

--------------------------------------------------------------------------------
(* What a call of a native may do *)

Scripted == {"stick", "buttons", "modifiers", "keys", "mouse"}

Told(s, r) ==
    /\ Viewed(r)
    /\ KeysTold(s) => KeysTold(r)
    /\ MouseTold(s) => MouseTold(r)
    /\ Masked(s) => Masked(r)

Called(s, r) ==
    /\ Told(s, r) /\ Differ(s.cs, r.cs, Scripted) /\ r.host[Joystick] = s.host[Joystick]

LEMMA TableDiffers ==
    ASSUME NEW core, DOMAIN core = CoreFields, NEW usage, NEW down
    PROVE  Differ(core, KeyTable(core, usage, down), {"modifiers", "keys"})
<1>1. \A x : Differ(core, [core EXCEPT !.modifiers = x], {"modifiers", "keys"})
  BY DEF Differ, CoreFields
<1>2. \A x : Differ(core, [core EXCEPT !.keys = x], {"modifiers", "keys"})
  BY DEF Differ, CoreFields
<1>3. \A x, y : Differ(core, [core EXCEPT !.modifiers = x, !.keys = y], {"modifiers", "keys"})
  BY DEF Differ, CoreFields
<1>4. Differ(core, core, {"modifiers", "keys"})
  BY DEF Differ
<1>5. /\ Differ(core, Released(core, usage), {"modifiers", "keys"})
      /\ Differ(core, Pressed(core, usage), {"modifiers", "keys"})
  BY <1>2, <1>4 DEF Released, Pressed
<1> QED
  BY <1>1, <1>3, <1>4, <1>5 DEF KeyTable

LEMMA KeyEventCalled ==
    ASSUME NEW s, Viewed(s), NEW usage, NEW down
    PROVE  Called(s, KeyEvent(s, usage, down))
<1> DEFINE core == KeyTable(s.cs, usage, down)
           t == [s EXCEPT !.cs = core]
<1>1. Differ(s.cs, core, {"modifiers", "keys"})
  BY TableDiffers DEF Viewed
<1> HIDE DEF core
<1>2. Viewed(t) /\ t.cs = core /\ t.host = s.host /\ t.lapse = s.lapse
  BY <1>1 DEF Viewed, Differ
<1>3. core.mouse = s.cs.mouse /\ core.mask = s.cs.mask
  BY <1>1 DEF Differ, CoreFields
<1>4. (MouseTold(s) => MouseTold(t)) /\ (Masked(s) => Masked(t))
  BY <1>2, <1>3 DEF MouseTold, Masked
<1>5. Called(s, KeyReport(t))
  <2> HIDE DEF t
  <2>1. /\ Viewed(KeyReport(t)) /\ KeyReport(t).cs = core /\ KeysTold(KeyReport(t))
        /\ MouseTold(t) => MouseTold(KeyReport(t))
        /\ Masked(t) => Masked(KeyReport(t))
        /\ KeyReport(t).host[Joystick] = s.host[Joystick]
    BY <1>2, EmitKeysTells
  <2> QED
    BY <1>1, <1>4, <2>1 DEF Called, Told, Differ, Scripted
<1>6. Called(s, s)
  BY DEF Called, Told, Differ, Viewed
<1> QED
  BY <1>5, <1>6 DEF KeyEvent, core, t

LEMMA MouseReportCalled ==
    ASSUME NEW s, Viewed(s), NEW buttons, NEW move
    PROVE  Called(s, MouseReport([s EXCEPT !.cs.mouse = buttons], move))
<1> DEFINE t == [s EXCEPT !.cs.mouse = buttons]
           rep == [buttons |-> t.cs.mouse, move |-> move]
           r == Emit(t, Mouse, rep)
<1>1. /\ Viewed(t) /\ Differ(s.cs, t.cs, {"mouse"}) /\ t.host = s.host /\ t.lapse = s.lapse
  BY DEF Viewed, Differ, CoreFields
<1> HIDE DEF t
<1>2. /\ t.cs.modifiers = s.cs.modifiers /\ t.cs.keys = s.cs.keys /\ t.cs.mask = s.cs.mask
  BY <1>1 DEF Differ, CoreFields
<1>3. (KeysTold(s) => KeysTold(t)) /\ (Masked(s) => Masked(t))
  BY <1>1, <1>2 DEF KeysTold, Masked
<1>4. /\ Viewed(r) /\ r.cs = t.cs /\ MouseTold(r)
      /\ KeysTold(t) => KeysTold(r)
      /\ Masked(t) => Masked(r)
      /\ r.host[Joystick] = t.host[Joystick]
  <2>1. rep.buttons = t.cs.mouse
    OBVIOUS
  <2> HIDE DEF rep
  <2> QED
    BY <1>1, <2>1, EmitMouseTells
<1> HIDE DEF r
<1>5. Called(s, r)
  BY <1>1, <1>3, <1>4 DEF Called, Told, Differ, Scripted
<1> QED
  BY <1>5 DEF r, t, MouseReport

LEMMA FieldCalled ==
    ASSUME NEW s, Viewed(s), NEW x
    PROVE  /\ Called(s, [s EXCEPT !.cs.stick = x])
           /\ Called(s, [s EXCEPT !.cs.buttons = x])
<1>1. Called(s, [s EXCEPT !.cs.stick = x])
  BY DEF Called, Told, Differ, Viewed, KeysTold, MouseTold, Masked, CoreFields, Scripted
<1>2. Called(s, [s EXCEPT !.cs.buttons = x])
  BY DEF Called, Told, Differ, Viewed, KeysTold, MouseTold, Masked, CoreFields, Scripted
<1> QED
  BY <1>1, <1>2

LEMMA NativeCalled ==
    ASSUME NEW s, Viewed(s), NEW n
    PROVE  Called(s, Native(s, n))
<1>0. Called(s, s)
  BY DEF Called, Told, Differ, Viewed
<1>1. Called(s, KeyEvent(s, n.usage, n.down))
  BY KeyEventCalled
<1>2. Called(s, MouseButton(s, n.button, n.down))
  BY <1>0, MouseReportCalled DEF MouseButton
<1>3. Called(s, MouseMove(s, n.dx, n.dy))
  <2>1. Emit(s, Mouse, [buttons |-> s.cs.mouse, move |-> <<n.dx % 256, n.dy % 256>>])
          = MouseMove(s, n.dx, n.dy)
    BY DEF MouseMove, MouseReport
  <2> DEFINE rep == [buttons |-> s.cs.mouse, move |-> <<n.dx % 256, n.dy % 256>>]
             r == Emit(s, Mouse, rep)
  <2>2. rep.buttons = s.cs.mouse
    OBVIOUS
  <2> HIDE DEF rep
  <2>3. /\ Viewed(r) /\ r.cs = s.cs /\ MouseTold(r)
        /\ KeysTold(s) => KeysTold(r)
        /\ Masked(s) => Masked(r)
        /\ r.host[Joystick] = s.host[Joystick]
    BY <2>2, EmitMouseTells
  <2> HIDE DEF r
  <2>4. Called(s, r)
    BY <2>3 DEF Called, Told, Differ, Viewed
  <2> QED
    BY <2>1, <2>4 DEF r, rep
<1>4. \A x : Called(s, [s EXCEPT !.cs.stick = x]) /\ Called(s, [s EXCEPT !.cs.buttons = x])
  BY FieldCalled
<1>5. CASE n.op = "key"
  BY <1>1, <1>5 DEF Native
<1>6. CASE n.op = "mouse"
  BY <1>2, <1>6 DEF Native
<1>7. CASE n.op = "move"
  BY <1>3, <1>7 DEF Native
<1>8. CASE n.op \in {"button", "stick", "stickrel"}
  BY <1>0, <1>4, <1>8 DEF Native
<1>9. CASE n.op \notin {"key", "mouse", "move", "button", "stick", "stickrel"}
  BY <1>0, <1>9 DEF Native
<1> QED
  BY <1>5, <1>6, <1>7, <1>8, <1>9

--------------------------------------------------------------------------------
(* What a packet may do *)

Untold == CoreFields \ {"mask", "modifiers", "keys", "mouse"}

Packed(s, r, p) ==
    /\ Told(s, r) /\ r.cs.mask = s.cs.mask /\ r.cs.raw = p
    /\ \/ r.cs.tune = s.cs.tune
       \/ /\ s.cs.gate = "found" /\ p.valid
          /\ r.cs.tune = TuneMode(TuneEntered(s.cs, p.held).tune, p.held)

LEMMA DifferUntold ==
    ASSUME NEW s, Viewed(s), NEW core, Differ(s.cs, core, Untold)
    PROVE  LET r == [s EXCEPT !.cs = core]
           IN  /\ Told(s, r) /\ r.cs = core /\ r.host = s.host /\ r.lapse = s.lapse
<1> DEFINE r == [s EXCEPT !.cs = core]
<1>1. Viewed(r) /\ r.cs = core /\ r.host = s.host /\ r.lapse = s.lapse
  BY DEF Viewed, Differ
<1>2. \A f \in {"mask", "modifiers", "keys", "mouse"} : core[f] = s.cs[f]
  BY DEF Differ, Untold, CoreFields
<1> HIDE DEF r
<1>3. Told(s, r)
  BY <1>1, <1>2 DEF Told, KeysTold, MouseTold, Masked
<1> QED
  BY <1>1, <1>3 DEF r

LEMMA DifferTwice ==
    ASSUME NEW a, NEW b, NEW c, NEW F, NEW G, Differ(a, b, F), Differ(b, c, G)
    PROVE  Differ(a, c, F \cup G)
BY DEF Differ

LEMMA ArrivedDiffers ==
    ASSUME NEW core, DOMAIN core = CoreFields, NEW p
    PROVE  /\ Differ(core, Arrived(core, p), {"raw", "pending"})
           /\ Arrived(core, p).raw = p
BY DEF Differ, Arrived, CoreFields

LEMMA DecodedDiffers ==
    ASSUME NEW core, DOMAIN core = CoreFields, NEW p
    PROVE  LET next == [Probed(Decoded(core, p), p) EXCEPT !.prev_status = p.pak]
           IN  /\ Differ(core, next, {"stick", "buttons", "gate", "prev_status"})
               /\ next.stick = DecodeStick(core, p.x, p.y)
<1> DEFINE d == Decoded(core, p)
           b == Probed(d, p)
<1>1. Differ(core, d, {"stick", "buttons"}) /\ d.stick = DecodeStick(core, p.x, p.y)
  BY DEF Decoded, Differ, CoreFields
<1> HIDE DEF d
<1>2. Differ(d, b, {"gate"})
  BY <1>1 DEF Probed, Differ, CoreFields
<1> HIDE DEF b
<1>3. Differ(b, [b EXCEPT !.prev_status = p.pak], {"prev_status"})
  BY <1>2 DEF Differ, CoreFields
<1> QED
  BY <1>1, <1>2, <1>3 DEF b, d, Differ, CoreFields

LEMMA TuneDiffers ==
    ASSUME NEW core, DOMAIN core = CoreFields, NEW p
    PROVE  /\ Differ(core, TuneUpdate(core, p), {"tune", "period", "duty", "strength"})
           /\ TuneUpdate(core, p).tune = TuneMode(TuneEntered(core, p.held).tune, p.held)
<1> DEFINE e == TuneEntered(core, p.held)
           t == Calibrated(e, p)
<1>1. Differ(core, e, {"tune", "period"})
  BY DEF TuneEntered, Differ, CoreFields
<1> HIDE DEF e
<1>2. Differ(e, t, {"period", "duty", "strength"})
  BY <1>1 DEF Calibrated, Differ, CoreFields
<1> HIDE DEF t
<1>3. t.tune = e.tune
  BY <1>2 DEF Differ, CoreFields
<1>4. /\ TuneUpdate(core, p).tune = TuneMode(e.tune, p.held)
      /\ Differ(t, TuneUpdate(core, p), {"tune"})
  BY <1>2, <1>3 DEF TuneUpdate, t, e, Differ, CoreFields
<1> QED
  BY <1>1, <1>2, <1>4 DEF e, Differ, CoreFields

LEMMA EnteredByMode ==
    ASSUME NEW core, DOMAIN core = CoreFields, NEW next, DOMAIN next = CoreFields,
           next.tune = core.tune, NEW held
    PROVE  TuneEntered(next, held).tune = TuneEntered(core, held).tune
BY DEF TuneEntered, CoreFields

LEMMA HookTold ==
    ASSUME NEW s, Viewed(s), NEW n
    PROVE  LET r == InputHook(s, n)
           IN  /\ Told(s, r) /\ Differ(s.cs, r.cs, Scripted \ {"stick"})
               /\ r.host[Joystick] = s.host[Joystick]
<1> DEFINE t == Native(s, n)
           core == [t.cs EXCEPT !.stick = s.cs.stick]
           r == [t EXCEPT !.cs = core]
<1>1. Told(s, t) /\ Viewed(t) /\ Differ(s.cs, t.cs, Scripted) /\ t.host[Joystick] = s.host[Joystick]
  BY NativeCalled DEF Called, Told
<1> HIDE DEF t
<1>2. DOMAIN t.cs = CoreFields /\ DOMAIN s.cs = CoreFields /\ "stick" \in CoreFields
  BY <1>1 DEF Viewed, CoreFields
<1>3. Differ(t.cs, core, {"stick"}) /\ core.stick = s.cs.stick
  BY <1>2 DEF Differ
<1> HIDE DEF core
<1>4. Differ(s.cs, core, Scripted \ {"stick"})
  BY <1>1, <1>3 DEF Differ, Scripted
<1>5. Differ(t.cs, core, Untold)
  BY <1>3 DEF Differ, Untold
<1>6. Told(t, r) /\ r.cs = core /\ r.host = t.host
  BY <1>1, <1>5, DifferUntold
<1>7. r = InputHook(s, n)
  BY DEF InputHook, t, core
<1> HIDE DEF r
<1>8. Told(s, r)
  BY <1>1, <1>6 DEF Told
<1> QED
  BY <1>1, <1>4, <1>6, <1>7, <1>8

LEMMA PacketPacked ==
    ASSUME NEW s, Viewed(s), NEW p, NEW fx, NEW n
    PROVE  Packed(s, OnRawPacket(s, p, fx, n), p)
<1> DEFINE arrived == Arrived(s.cs, p)
           core == [Probed(Decoded(arrived, p), p) EXCEPT !.prev_status = p.pak]
           tuned == TuneUpdate(core, p)
           t == [s EXCEPT !.cs = tuned]
           hooked == InputHook(t, n)
           probing == [arrived EXCEPT !.gate = "probing"]
<1>1. DOMAIN s.cs = CoreFields
  BY DEF Viewed
<1>2. Differ(s.cs, arrived, {"raw", "pending"}) /\ arrived.raw = p
  BY <1>1, ArrivedDiffers
<1> HIDE DEF arrived
<1>3. DOMAIN arrived = CoreFields
  BY <1>2 DEF Differ
<1>4. /\ Differ(arrived, core, {"stick", "buttons", "gate", "prev_status"})
      /\ core.stick = DecodeStick(arrived, p.x, p.y)
  BY <1>3, DecodedDiffers
<1> HIDE DEF core
<1>5. DOMAIN core = CoreFields
  BY <1>4 DEF Differ
<1>6. /\ Differ(core, tuned, {"tune", "period", "duty", "strength"})
      /\ tuned.tune = TuneMode(TuneEntered(core, p.held).tune, p.held)
  BY <1>5, TuneDiffers
<1> HIDE DEF tuned
<1>7. Differ(arrived, probing, {"gate"})
  BY <1>3 DEF Differ, CoreFields
<1> HIDE DEF probing
<1>8. CASE arrived.gate # "found"
  <2>1. Differ(s.cs, probing, Untold)
    BY <1>2, <1>7 DEF Differ, Untold
  <2>2. probing.raw = p /\ probing.tune = s.cs.tune /\ probing.mask = s.cs.mask
    BY <1>2, <1>7 DEF Differ, CoreFields
  <2>3. OnRawPacket(s, p, fx, n) = [s EXCEPT !.cs = probing]
    BY <1>8 DEF OnRawPacket, arrived, probing
  <2> QED
    BY <2>1, <2>2, <2>3, DifferUntold DEF Packed
<1>9. CASE arrived.gate = "found" /\ ~p.valid
  <2>1. Differ(s.cs, arrived, Untold) /\ arrived.tune = s.cs.tune /\ arrived.mask = s.cs.mask
    BY <1>2 DEF Differ, Untold, CoreFields
  <2>2. OnRawPacket(s, p, fx, n) = [s EXCEPT !.cs = arrived]
    BY <1>9 DEF OnRawPacket, arrived
  <2> QED
    BY <1>2, <2>1, <2>2, DifferUntold DEF Packed
<1>10. CASE arrived.gate = "found" /\ p.valid /\ Promotes(Probed(arrived, p), p, fx)
  <2>1. Differ(s.cs, core, Untold)
    BY <1>2, <1>4 DEF Differ, Untold
  <2>2. core.raw = p /\ core.tune = s.cs.tune /\ core.mask = s.cs.mask
    BY <1>2, <1>4 DEF Differ, CoreFields
  <2>3. OnRawPacket(s, p, fx, n) = [s EXCEPT !.cs = core]
    BY <1>10 DEF OnRawPacket, arrived, core
  <2> QED
    BY <2>1, <2>2, <2>3, DifferUntold DEF Packed
<1>11. CASE arrived.gate = "found" /\ p.valid /\ ~Promotes(Probed(arrived, p), p, fx)
  <2>1. OnRawPacket(s, p, fx, n) = hooked
    BY <1>11 DEF OnRawPacket, arrived, core, tuned
  <2>2. Differ(s.cs, tuned, Untold)
    BY <1>2, <1>4, <1>6 DEF Differ, Untold
  <2>3. Told(s, t) /\ t.cs = tuned /\ t.host = s.host
    BY <2>2, DifferUntold
  <2> HIDE DEF t
  <2>4. Told(t, hooked) /\ Differ(tuned, hooked.cs, Scripted \ {"stick"})
    BY <2>3, HookTold DEF Told
  <2> HIDE DEF hooked
  <2>5. Told(s, hooked)
    BY <2>3, <2>4 DEF Told
  <2>6. hooked.cs.raw = p /\ hooked.cs.mask = s.cs.mask /\ hooked.cs.tune = tuned.tune
    BY <1>2, <1>4, <1>6, <2>4 DEF Differ, CoreFields, Scripted
  <2>7. tuned.tune = TuneMode(TuneEntered(s.cs, p.held).tune, p.held) /\ s.cs.gate = "found"
    <3>1. core.tune = s.cs.tune /\ arrived.gate = s.cs.gate
      BY <1>2, <1>4 DEF Differ, CoreFields
    <3> QED
      BY <1>1, <1>5, <1>6, <1>11, <3>1, EnteredByMode
  <2> QED
    BY <1>11, <2>1, <2>5, <2>6, <2>7 DEF Packed
<1> QED
  BY <1>8, <1>9, <1>10, <1>11
--------------------------------------------------------------------------------
(* The invariant *)

ClientFields ==
    {"at", "on", "private", "req", "changed", "button", "before", "from", "payload", "copy", "enum"}

Based ==
    /\ sc \in Scenarios /\ devices \in Seq(Adapters)
    /\ DOMAIN cs = Adapters /\ DOMAIN host = Adapters /\ DOMAIN lapse = Adapters
    /\ DOMAIN rested = Adapters /\ DOMAIN cl = Clients
    /\ \A a \in Adapters : Viewed(View(a)) /\ cs[a].mask = sc.mask /\ Masked(View(a))
    /\ \A c \in Clients : DOMAIN cl[c] = ClientFields

SendsKeys(c, a) == cl[c].at = "sendkeys" /\ cl[c].on = a
SendsMouse(c, a) == cl[c].at = "sendmouse" /\ cl[c].on = a

(* Who has not been told is about to be, by the client that changed the table. *)
AllTold ==
    \A a \in ToSet(devices) :
        /\ KeysTold(View(a)) \/ \E c \in Clients : SendsKeys(c, a)
        /\ MouseTold(View(a)) \/ \E c \in Clients : SendsMouse(c, a)

(* The tuning mode waits for a press only after everything was let go. *)
TuneModes ==
    \A a \in Adapters :
        /\ cs[a].tune \in {{}, {"active"}, {"active", "held"}}
        /\ cs[a].tune = {"active"} => rested[a]

InputInv == Based /\ AllTold /\ TuneModes

(* Steps that tell what they change, leave the tuning mode and let no sender go. *)
CalmCores ==
    /\ DOMAIN cs' = Adapters /\ DOMAIN host' = Adapters /\ DOMAIN lapse' = Adapters
    /\ \A a \in Adapters : Told(View(a), View(a)') /\ cs'[a].mask = cs[a].mask
CalmClients ==
    /\ DOMAIN cl' = Clients /\ \A c \in Clients : DOMAIN cl'[c] = ClientFields
    /\ \A c \in Clients, a \in ToSet(devices') :
          (SendsKeys(c, a) => SendsKeys(c, a)') /\ (SendsMouse(c, a) => SendsMouse(c, a)')
CalmList == devices' \in Seq(Adapters) /\ ToSet(devices') \subseteq ToSet(devices)
CalmTune == (\A a \in Adapters : cs'[a].tune = cs[a].tune) /\ rested' = rested

LEMMA ListOf ==
    ASSUME NEW S, NEW list \in Seq(S)
    PROVE  ToSet(list) \subseteq S
BY DEF ToSet

LEMMA CalmKeeps ==
    ASSUME InputInv, CalmCores, CalmClients, CalmList, sc' = sc, DOMAIN rested' = Adapters
    PROVE  Based' /\ AllTold'
<1>1. \A a \in Adapters : Viewed(View(a)') /\ (Masked(View(a)) => Masked(View(a)'))
  BY DEF CalmCores, Told
<1>2. Based'
  BY <1>1 DEF InputInv, Based, CalmCores, CalmClients, CalmList
<1>3. ASSUME NEW a \in ToSet(devices')
      PROVE  /\ KeysTold(View(a))' \/ \E c \in Clients : SendsKeys(c, a)'
             /\ MouseTold(View(a))' \/ \E c \in Clients : SendsMouse(c, a)'
  <2>1. a \in ToSet(devices) /\ a \in Adapters
    BY ListOf DEF CalmList, InputInv, Based
  <2>2. (KeysTold(View(a)) => KeysTold(View(a))') /\ (MouseTold(View(a)) => MouseTold(View(a))')
    BY <2>1 DEF CalmCores, Told
  <2> QED
    BY <2>1, <2>2 DEF InputInv, AllTold, CalmClients
<1> QED
  BY <1>2, <1>3 DEF AllTold

LEMMA CalmTuneKeeps ==
    ASSUME InputInv, CalmCores, CalmClients, CalmList, sc' = sc, CalmTune
    PROVE  InputInv' /\ CalmTune
<1>1. DOMAIN rested' = Adapters /\ TuneModes'
  BY DEF InputInv, Based, TuneModes, CalmTune
<1> QED
  BY <1>1, CalmKeeps DEF InputInv

LEMMA ToldTwice ==
    ASSUME NEW s, Viewed(s)
    PROVE  Told(s, s)
BY DEF Told

(* Who is at an adapter of the list, is at an adapter. *)
LEMMA OnAdapter ==
    ASSUME Based, NEW c, NEW pc, AtDevice(c, pc)
    PROVE  On(c) \in Adapters /\ cl[c].at = pc
BY DEF Based, AtDevice, ToSet, At

LEMMA CoresStay ==
    ASSUME Based, UNCHANGED <<cs, host, lapse>>
    PROVE  CalmCores /\ (rested' = rested => CalmTune)
<1>1. \A a \in Adapters : Told(View(a), View(a)) /\ View(a)' = View(a)
  BY ToldTwice DEF Based, View
<1> QED
  BY <1>1 DEF Based, CalmCores, CalmTune

LEMMA OneMoves ==
    ASSUME Based, NEW a \in Adapters, NEW s, Told(View(a), s), s.cs.mask = cs[a].mask,
           DOMAIN cs' = Adapters, DOMAIN host' = Adapters, DOMAIN lapse' = Adapters,
           cs'[a] = s.cs, host'[a] = s.host, lapse'[a] = s.lapse,
           \A b \in Adapters \ {a} : cs'[b] = cs[b] /\ host'[b] = host[b] /\ lapse'[b] = lapse[b]
    PROVE  CalmCores /\ (s.cs.tune = cs[a].tune /\ rested' = rested => CalmTune)
<1>1. Told(View(a), View(a)')
  BY DEF Told, View, Viewed, KeysTold, MouseTold, Masked
<1>2. ASSUME NEW b \in Adapters \ {a} PROVE Told(View(b), View(b)')
  <2>1. View(b)' = View(b)
    BY DEF View
  <2> QED
    BY <2>1, ToldTwice DEF Based
<1> QED
  BY <1>1, <1>2 DEF CalmCores, CalmTune

LEMMA OneViewMoves ==
    ASSUME Based, NEW a \in Adapters, NEW s, Told(View(a), s), s.cs.mask = cs[a].mask, Put(a, s)
    PROVE  CalmCores /\ cs'[a] = s.cs /\ (s.cs.tune = cs[a].tune /\ rested' = rested => CalmTune)
BY OneMoves DEF Based, Put

LEMMA OneCoreMoves ==
    ASSUME Based, NEW a \in Adapters, NEW core, cs' = [cs EXCEPT ![a] = core],
           Differ(cs[a], core, Untold \ {"tune"}), UNCHANGED <<host, lapse>>
    PROVE  CalmCores /\ (rested' = rested => CalmTune)
<1> DEFINE s == [View(a) EXCEPT !.cs = core]
<1>1. View(a).cs = cs[a] /\ View(a).host = host[a] /\ View(a).lapse = lapse[a] /\ Viewed(View(a))
  BY DEF View, Based
<1>2. Told(View(a), s) /\ s.cs = core /\ s.host = host[a] /\ s.lapse = lapse[a]
  <2>1. Differ(View(a).cs, core, Untold)
    BY <1>1 DEF Differ, Untold
  <2> QED
    BY <1>1, <2>1, DifferUntold
<1>3. core.mask = cs[a].mask /\ core.tune = cs[a].tune
  BY DEF Differ, Untold, CoreFields
<1> HIDE DEF s
<1> QED
  BY <1>2, <1>3, OneMoves DEF Based

(* Only this client moves. *)
Alone(c) ==
    /\ DOMAIN cl' = Clients /\ DOMAIN cl'[c] = ClientFields
    /\ \A d \in Clients \ {c} : cl'[d] = cl[d]

(* A client that sends nothing moves; whoever sends to an adapter of the list goes on. *)
LEMMA OneClientMoves ==
    ASSUME Based, NEW c \in Clients, Alone(c),
           \/ cl[c].at \notin {"sendkeys", "sendmouse"}
           \/ cl[c].on \notin ToSet(devices')
    PROVE  CalmClients
<1>1. \A d \in Clients \ {c} : \A a : SendsKeys(d, a)' = SendsKeys(d, a) /\ SendsMouse(d, a)' = SendsMouse(d, a)
  BY DEF Alone, SendsKeys, SendsMouse
<1>2. \A a \in ToSet(devices') : ~SendsKeys(c, a) /\ ~SendsMouse(c, a)
  BY DEF SendsKeys, SendsMouse
<1> QED
  BY <1>1, <1>2 DEF Based, Alone, CalmClients

LEMMA ClientsStay ==
    ASSUME Based, cl' = cl
    PROVE  CalmClients
BY DEF Based, CalmClients, SendsKeys, SendsMouse

LEMMA ListStays ==
    ASSUME Based, devices' = devices
    PROVE  CalmList
BY DEF Based, CalmList
--------------------------------------------------------------------------------
(* The steps of clients *)

LEMMA RestingFields == DOMAIN Resting = ClientFields /\ Resting.enum.over = FALSE
BY DEF Resting, ClientFields

(* A request that looks around, and one that writes nothing the host is told of. *)
LEMMA LookKeeps ==
    ASSUME InputInv, sc' = sc, NEW c \in Clients,
           \/ DeviceRequest(c) \/ SnapRead(c) \/ UnloadTestKeys(c) \/ UnloadReadButtons(c)
           \/ LoadScript(c) \/ ButtonMap(c) \/ PushNext(c) \/ SetReports(c) \/ SweepNext(c)
           \/ StartEnum(c) \/ EnumDevices(c)
    PROVE  InputInv' /\ CalmTune
<1>1. UNCHANGED <<cs, host, lapse, devices, rested>>
  BY DEF DeviceRequest, SnapRead, UnloadTestKeys, UnloadReadButtons, LoadScript, ButtonMap,
         PushNext, SetReports, SweepNext, StartEnum, EnumDevices, history
<1>2. Alone(c)
  <2>1. DOMAIN cl = Clients /\ DOMAIN cl[c] = ClientFields
    BY DEF InputInv, Based
  <2> USE RestingFields
  <2>2. CASE DeviceRequest(c)
    BY <2>1, <2>2 DEF DeviceRequest, Alone
  <2>3. CASE SnapRead(c)
    BY <2>1, <2>3 DEF SnapRead, Alone
  <2>4. CASE UnloadTestKeys(c)
    BY <2>1, <2>4 DEF UnloadTestKeys, Alone
  <2>5. CASE UnloadReadButtons(c)
    BY <2>1, <2>5 DEF UnloadReadButtons, Alone
  <2>6. CASE LoadScript(c)
    BY <2>1, <2>6 DEF LoadScript, Alone, Goto
  <2>7. CASE ButtonMap(c)
    BY <2>1, <2>7 DEF ButtonMap, Alone
  <2>8. CASE PushNext(c)
    BY <2>1, <2>8 DEF PushNext, Alone
  <2>9. CASE SetReports(c)
    BY <2>1, <2>9 DEF SetReports, Alone
  <2>10. CASE SweepNext(c)
    BY <2>1, <2>10 DEF SweepNext, Alone
  <2>11. CASE StartEnum(c)
    BY <2>1, <2>11 DEF StartEnum, Alone
  <2>12. CASE EnumDevices(c)
    BY <2>1, <2>12 DEF EnumDevices, Alone
  <2> QED
    BY <2>2, <2>3, <2>4, <2>5, <2>6, <2>7, <2>8, <2>9, <2>10, <2>11, <2>12
<1>3. cl[c].at \notin {"sendkeys", "sendmouse"}
  BY DEF DeviceRequest, SnapRead, UnloadTestKeys, UnloadReadButtons, LoadScript, ButtonMap,
         PushNext, SetReports, SweepNext, StartEnum, EnumDevices, AtDevice, At
<1>4. CalmClients
  BY <1>2, <1>3, OneClientMoves DEF InputInv
<1> QED
  BY <1>1, <1>4, CoresStay, ListStays, CalmTuneKeeps DEF InputInv

LEMMA AstrayKeeps ==
    ASSUME InputInv, sc' = sc, NEW c \in Clients, Astray(c)
    PROVE  InputInv' /\ CalmTune
<1>1. UNCHANGED <<cs, host, lapse, devices, rested>>
  BY DEF Astray
<1>2. Alone(c)
  BY DEF Astray, Goto, InputInv, Based, Alone
<1>3. cl[c].on \notin ToSet(devices')
  BY <1>1 DEF Astray, On
<1>4. CalmClients
  BY <1>2, <1>3, OneClientMoves DEF InputInv
<1> QED
  BY <1>1, <1>4, CoresStay, ListStays, CalmTuneKeeps DEF InputInv

LEMMA SettingKeeps ==
    ASSUME InputInv, sc' = sc, NEW c \in Clients, SnapClear(c) \/ GetSet(c) \/ PushMap(c)
    PROVE  InputInv' /\ CalmTune
<1>1. On(c) \in Adapters
  BY OnAdapter DEF SnapClear, GetSet, PushMap, InputInv
<1>2. UNCHANGED <<host, lapse, devices, rested>>
  BY DEF SnapClear, GetSet, PushMap, history
<1>3. PICK core : cs' = [cs EXCEPT ![On(c)] = core] /\ Differ(cs[On(c)], core, {"pending", "clip", "stretch", "map"})
  <2> DEFINE was == cs[On(c)]
  <2>1. DOMAIN was = CoreFields
    BY <1>1 DEF InputInv, Based, Viewed, View
  <2>2. CASE SnapClear(c)
    <3>1. Differ(was, [was EXCEPT !.pending = FALSE], {"pending", "clip", "stretch", "map"})
      BY <2>1 DEF Differ, CoreFields
    <3> QED
      BY <2>2, <3>1 DEF SnapClear
  <2>3. CASE GetSet(c)
    <3> DEFINE core == IF cl[c].req.field = "clip" THEN [was EXCEPT !.clip = cl[c].req.value]
                       ELSE [was EXCEPT !.stretch = cl[c].req.value]
    <3>1. Differ(was, core, {"pending", "clip", "stretch", "map"})
      BY <2>1 DEF Differ, CoreFields
    <3>2. cs' = [cs EXCEPT ![On(c)] = core]
      BY <2>3 DEF GetSet
    <3> QED
      BY <3>1, <3>2
  <2>4. CASE PushMap(c)
    <3>1. PICK m : cs' = [cs EXCEPT ![On(c)] = [was EXCEPT !.map = m]]
      BY <2>4 DEF PushMap
    <3>2. Differ(was, [was EXCEPT !.map = m], {"pending", "clip", "stretch", "map"})
      BY <2>1 DEF Differ, CoreFields
    <3> QED
      BY <3>1, <3>2
  <2> QED
    BY <2>2, <2>3, <2>4
<1>4. Differ(cs[On(c)], core, Untold \ {"tune"})
  BY <1>3 DEF Differ, Untold
<1>5. Alone(c)
  BY DEF SnapClear, GetSet, PushMap, Goto, InputInv, Based, Alone
<1>6. cl[c].at \notin {"sendkeys", "sendmouse"}
  BY DEF SnapClear, GetSet, PushMap, AtDevice, At
<1>7. CalmClients
  BY <1>5, <1>6, OneClientMoves DEF InputInv
<1> QED
  BY <1>1, <1>2, <1>3, <1>4, <1>7, OneCoreMoves, ListStays, CalmTuneKeeps DEF InputInv

LEMMA SubmitKeeps ==
    ASSUME InputInv, sc' = sc, NEW c \in Clients, SubmitJoystick(c)
    PROVE  InputInv' /\ CalmTune
<1> DEFINE a == On(c)
           core == [cs[a] EXCEPT !.reports_enabled = reg.reports_enabled, !.virtual = reg.reports_enabled]
           s == [View(a) EXCEPT !.cs = core]
           report == IF s.cs.virtual THEN [stick |-> <<1, InstanceId[a]>>, buttons |-> {}] ELSE Silent[Joystick]
           r == Emit(s, Joystick, report)
<1>1. a \in Adapters /\ cl[c].at = "submit"
  BY OnAdapter DEF SubmitJoystick, InputInv
<1>2. Viewed(View(a)) /\ View(a).cs = cs[a] /\ DOMAIN cs[a] = CoreFields
  BY <1>1 DEF InputInv, Based, View, Viewed
<1>3. Differ(View(a).cs, core, {"reports_enabled", "virtual"})
  BY <1>2 DEF Differ, CoreFields
<1>4. Put(a, r) /\ cl' = [cl EXCEPT ![c].at = "sweep", ![c].on = "none"]
      /\ UNCHANGED <<devices, rested>>
  BY DEF SubmitJoystick, Submitted
<1> HIDE DEF core, a
<1>5. Told(View(a), s) /\ s.cs = core
  <2>1. Differ(View(a).cs, core, Untold)
    BY <1>3 DEF Differ, Untold
  <2> QED
    BY <1>2, <2>1, DifferUntold
<1> HIDE DEF s, report
<1>6. /\ Viewed(r) /\ r.cs = s.cs
      /\ \A k \in Collections \ {Joystick} :
            r.host[k] = s.host[k] /\ (k \in r.lapse <=> k \in s.lapse)
      /\ Masked(s) => Masked(r)
  BY <1>5, EmitTells DEF Told, Collections
<1>7. Keyboard \in Collections \ {Joystick} /\ Mouse \in Collections \ {Joystick}
  BY DEF Collections, Joystick, Keyboard, Mouse
<1> HIDE DEF r
<1>8. Told(View(a), r)
  BY <1>5, <1>6, <1>7 DEF Told, KeysTold, MouseTold
<1>9. r.cs.mask = cs[a].mask /\ r.cs.tune = cs[a].tune
  BY <1>2, <1>3, <1>5, <1>6 DEF Differ, CoreFields
<1>10. CalmClients
  BY <1>1, <1>4 DEF InputInv, Based, CalmClients, SendsKeys, SendsMouse
<1> QED
  BY <1>1, <1>4, <1>8, <1>9, <1>10, OneViewMoves, ListStays, CalmTuneKeeps DEF InputInv

LEMMA CreateKeeps ==
    ASSUME InputInv, sc' = sc, NEW c \in Clients, ControlCreate(c)
    PROVE  InputInv' /\ CalmTune
<1>1. UNCHANGED <<host, lapse, devices, rested, cl>>
  BY DEF ControlCreate, history
<1>2. DOMAIN cs' = Adapters
  BY DEF ControlCreate
<1>3. ASSUME NEW a \in Adapters
      PROVE  Told(View(a), View(a)') /\ cs'[a].mask = cs[a].mask /\ cs'[a].tune = cs[a].tune
  <2>1. DOMAIN cs[a] = CoreFields /\ Viewed(View(a))
    BY DEF InputInv, Based, View, Viewed
  <2>2. Differ(cs[a], cs'[a], {"clip", "stretch"})
    BY <2>1 DEF ControlCreate, Differ, CoreFields
  <2>3. \A f \in {"mask", "modifiers", "keys", "mouse", "tune"} : cs'[a][f] = cs[a][f]
    BY <2>2 DEF Differ, CoreFields
  <2> QED
    BY <1>1, <2>1, <2>2, <2>3 DEF Told, Differ, View, Viewed, KeysTold, MouseTold, Masked
<1>4. CalmCores /\ CalmTune
  BY <1>1, <1>2, <1>3 DEF InputInv, Based, CalmCores, CalmTune
<1> QED
  BY <1>1, <1>4, ClientsStay, ListStays, CalmTuneKeeps DEF InputInv
--------------------------------------------------------------------------------
(* The unloading of a script *)

LEMMA OneSenderMoves ==
    ASSUME InputInv, sc' = sc, NEW a \in Adapters, NEW c \in Clients, Alone(c),
           cl[c].on = a, cl'[c].on = a, UNCHANGED <<devices, rested>>,
           DOMAIN cs' = Adapters, DOMAIN host' = Adapters, DOMAIN lapse' = Adapters,
           \A b \in Adapters \ {a} : cs'[b] = cs[b] /\ host'[b] = host[b] /\ lapse'[b] = lapse[b],
           Viewed(View(a)'), Masked(View(a)'),
           cs'[a].mask = cs[a].mask, cs'[a].tune = cs[a].tune,
           KeysTold(View(a)) \/ cl[c].at = "sendkeys" =>
               KeysTold(View(a))' \/ cl'[c].at = "sendkeys",
           MouseTold(View(a)) \/ cl[c].at = "sendmouse" =>
               MouseTold(View(a))' \/ cl'[c].at = "sendmouse"
    PROVE  InputInv' /\ CalmTune
<1>1. \A b \in Adapters \ {a} : View(b)' = View(b)
  BY DEF View
<1>2. Based'
  BY <1>1 DEF InputInv, Based, Alone
<1>3. TuneModes' /\ CalmTune
  BY DEF InputInv, TuneModes, CalmTune
<1>4. ASSUME NEW b \in ToSet(devices')
      PROVE  /\ KeysTold(View(b))' \/ \E d \in Clients : SendsKeys(d, b)'
             /\ MouseTold(View(b))' \/ \E d \in Clients : SendsMouse(d, b)'
  <2>1. b \in ToSet(devices) /\ b \in Adapters
    BY ListOf DEF InputInv, Based
  <2>2. \A d \in Clients \ {c} :
           (SendsKeys(d, b) => SendsKeys(d, b)') /\ (SendsMouse(d, b) => SendsMouse(d, b)')
    BY DEF Alone, SendsKeys, SendsMouse
  <2>3. /\ KeysTold(View(b)) \/ \E d \in Clients : SendsKeys(d, b)
        /\ MouseTold(View(b)) \/ \E d \in Clients : SendsMouse(d, b)
    BY <2>1 DEF InputInv, AllTold
  <2>4. CASE b = a
    BY <2>2, <2>3, <2>4 DEF SendsKeys, SendsMouse
  <2>5. CASE b # a
    <3>1. ~SendsKeys(c, b) /\ ~SendsMouse(c, b)
      BY <2>5 DEF SendsKeys, SendsMouse
    <3>2. (KeysTold(View(b)) => KeysTold(View(b))') /\ (MouseTold(View(b)) => MouseTold(View(b))')
      BY <1>1, <2>1, <2>5
    <3> QED
      BY <2>2, <2>3, <3>1, <3>2
  <2> QED
    BY <2>4, <2>5
<1> QED
  BY <1>2, <1>3, <1>4 DEF InputInv, AllTold

LEMMA ClearKeysKeeps ==
    ASSUME InputInv, sc' = sc, NEW c \in Clients, UnloadClearKeys(c)
    PROVE  InputInv' /\ CalmTune
<1>0. PICK a \in Adapters : a = On(c)
  BY OnAdapter DEF UnloadClearKeys, InputInv
<1> DEFINE core == KeyTable(cs[a], 0, FALSE)
<1>1. cl[c].at = "keys" /\ cl[c].on = a /\ a = On(c)
  BY <1>0 DEF UnloadClearKeys, On, AtDevice, At
<1>2. /\ Viewed(View(a)) /\ Masked(View(a)) /\ DOMAIN cs[a] = CoreFields
      /\ DOMAIN cs = Adapters /\ DOMAIN host = Adapters /\ DOMAIN lapse = Adapters
  BY <1>1 DEF InputInv, Based, View, Viewed
<1>3. Differ(cs[a], core, {"modifiers", "keys"})
  BY <1>2, TableDiffers
<1>4. /\ cs' = [cs EXCEPT ![a] = core] /\ UNCHANGED <<host, devices, rested>>
      /\ lapse' = [lapse EXCEPT ![a] = IF core # cs[a] /\ ~cl[c].changed THEN @ \cup {Keyboard} ELSE @]
  BY <1>0 DEF UnloadClearKeys
<1>5. Alone(c) /\ cl'[c].on = a /\ (cl[c].changed => cl'[c].at = "sendkeys")
  BY <1>1 DEF UnloadClearKeys, InputInv, Based, Alone, ClientFields
<1> HIDE DEF core
<1>6. /\ cs'[a] = core /\ host'[a] = host[a]
      /\ lapse'[a] = IF core # cs[a] /\ ~cl[c].changed THEN lapse[a] \cup {Keyboard} ELSE lapse[a]
      /\ DOMAIN cs' = Adapters /\ DOMAIN host' = Adapters /\ DOMAIN lapse' = Adapters
      /\ \A b \in Adapters \ {a} : cs'[b] = cs[b] /\ host'[b] = host[b] /\ lapse'[b] = lapse[b]
  BY <1>1, <1>2, <1>4
<1>7. core.mask = cs[a].mask /\ core.tune = cs[a].tune /\ core.mouse = cs[a].mouse
  BY <1>3 DEF Differ, CoreFields
<1>8. Viewed(View(a)') /\ Masked(View(a)')
  BY <1>2, <1>3, <1>6, <1>7 DEF Differ, Viewed, View, Masked
<1>9. KeysTold(View(a)) => KeysTold(View(a))' \/ cl'[c].at = "sendkeys"
  <2>1. CASE cl[c].changed
    BY <1>5, <2>1
  <2>2. CASE core = cs[a]
    BY <1>6, <2>2 DEF KeysTold, View
  <2>3. CASE ~cl[c].changed /\ core # cs[a]
    BY <1>6, <2>3 DEF KeysTold, View
  <2> QED
    BY <2>1, <2>2, <2>3
<1>10. MouseTold(View(a)) => MouseTold(View(a))'
  <2>1. Mouse \notin {Keyboard}
    BY DEF Mouse, Keyboard
  <2> QED
    BY <1>6, <1>7, <2>1 DEF MouseTold, View
<1> QED
  BY <1>1, <1>4, <1>5, <1>6, <1>7, <1>8, <1>9, <1>10, OneSenderMoves

LEMMA LetGoKeeps ==
    ASSUME InputInv, sc' = sc, NEW c \in Clients, UnloadLetGo(c)
    PROVE  InputInv' /\ CalmTune
<1>0. PICK a \in Adapters : a = On(c)
  BY OnAdapter DEF UnloadLetGo, InputInv
<1> DEFINE after == MouseTable(cl[c].before, cl[c].button, FALSE)
           changed == after # cl[c].before
           core == [cs[a] EXCEPT !.mouse = after]
<1>1. cl[c].at = "letgo" /\ cl[c].on = a /\ a = On(c)
  BY <1>0 DEF UnloadLetGo, On, AtDevice, At
<1>2. /\ Viewed(View(a)) /\ Masked(View(a)) /\ DOMAIN cs[a] = CoreFields
      /\ DOMAIN cs = Adapters /\ DOMAIN host = Adapters /\ DOMAIN lapse = Adapters
  BY <1>1 DEF InputInv, Based, View, Viewed
<1>3. Differ(cs[a], core, {"mouse"}) /\ core.mouse = after
  BY <1>2 DEF Differ, CoreFields
<1>4. /\ cs' = [cs EXCEPT ![a] = core] /\ UNCHANGED <<host, devices, rested>>
      /\ lapse' = [lapse EXCEPT ![a] = IF ~changed /\ cs[a].mouse # after THEN @ \cup {Mouse} ELSE @]
  BY <1>0 DEF UnloadLetGo
<1>5. Alone(c) /\ cl'[c].on = a /\ (changed => cl'[c].at = "sendmouse")
  BY <1>1 DEF UnloadLetGo, InputInv, Based, Alone, ClientFields
<1> HIDE DEF core, changed, after
<1>6. /\ cs'[a] = core /\ host'[a] = host[a]
      /\ lapse'[a] = IF ~changed /\ cs[a].mouse # after THEN lapse[a] \cup {Mouse} ELSE lapse[a]
      /\ DOMAIN cs' = Adapters /\ DOMAIN host' = Adapters /\ DOMAIN lapse' = Adapters
      /\ \A b \in Adapters \ {a} : cs'[b] = cs[b] /\ host'[b] = host[b] /\ lapse'[b] = lapse[b]
  BY <1>1, <1>2, <1>4
<1>7. /\ core.mask = cs[a].mask /\ core.tune = cs[a].tune
      /\ core.keys = cs[a].keys /\ core.modifiers = cs[a].modifiers
  BY <1>3 DEF Differ, CoreFields
<1>8. Viewed(View(a)') /\ Masked(View(a)')
  BY <1>2, <1>3, <1>6, <1>7 DEF Differ, Viewed, View, Masked
<1>9. MouseTold(View(a)) => MouseTold(View(a))' \/ cl'[c].at = "sendmouse"
  <2>1. CASE changed
    BY <1>5, <2>1
  <2>2. CASE cs[a].mouse = after
    BY <1>3, <1>6, <1>7, <2>2 DEF MouseTold, View
  <2>3. CASE ~changed /\ cs[a].mouse # after
    BY <1>6, <2>3 DEF MouseTold, View
  <2> QED
    BY <2>1, <2>2, <2>3
<1>10. KeysTold(View(a)) => KeysTold(View(a))'
  <2>1. Keyboard \notin {Mouse}
    BY DEF Mouse, Keyboard
  <2> QED
    BY <1>6, <1>7, <2>1 DEF KeysTold, View
<1> QED
  BY <1>1, <1>4, <1>5, <1>6, <1>7, <1>8, <1>9, <1>10, OneSenderMoves

(* The report a client built goes out: the host is told, or the report overtook another. *)
LEMMA BuiltSent ==
    ASSUME InputInv, NEW c \in Clients, NEW a \in Adapters, a = On(c), NEW collection \in {Keyboard, Mouse},
           NEW current, NEW next, SendBuilt(c, collection, current, next)
    PROVE  /\ UNCHANGED <<devices, rested>> /\ Alone(c) /\ cl'[c].on = a /\ cl'[c].at = next
           /\ DOMAIN cs' = Adapters /\ DOMAIN host' = Adapters /\ DOMAIN lapse' = Adapters
           /\ \A b \in Adapters \ {a} :
                 cs'[b] = cs[b] /\ host'[b] = host[b] /\ lapse'[b] = lapse[b]
           /\ cs'[a] = cs[a] /\ Viewed(View(a)') /\ Masked(View(a)')
           /\ \A k \in Collections \ {collection} :
                 host'[a][k] = host[a][k] /\ (k \in lapse'[a] <=> k \in lapse[a])
           /\ collection \in cs[a].mask /\ collection \notin lapse'[a]
                 => host'[a][collection] = current
<1> DEFINE sent == Emit(View(a), collection, cl[c].payload)
           s == [sent EXCEPT !.lapse = IF current = cl[c].payload THEN @ ELSE @ \cup {collection}]
<1>1. /\ Put(a, s) /\ UNCHANGED <<devices, rested>> /\ Alone(c)
      /\ cl'[c].on = a /\ cl'[c].at = next
  BY DEF SendBuilt, InputInv, Based, Alone, ClientFields, On
<1>2. Viewed(View(a)) /\ Masked(View(a)) /\ View(a).cs = cs[a] /\ View(a).host = host[a] /\ View(a).lapse = lapse[a]
  BY DEF InputInv, Based, View
<1>3. collection \in Collections
  BY DEF Collections
<1>4. /\ Viewed(sent) /\ sent.cs = cs[a] /\ Masked(sent)
      /\ \A k \in Collections \ {collection} :
            sent.host[k] = host[a][k] /\ (k \in sent.lapse <=> k \in lapse[a])
      /\ collection \in cs[a].mask => sent.host[collection] = cl[c].payload
  BY <1>2, <1>3, EmitTells
<1> HIDE DEF sent
<1>5. /\ s.cs = sent.cs /\ s.host = sent.host
      /\ s.lapse = IF current = cl[c].payload THEN sent.lapse ELSE sent.lapse \cup {collection}
  BY <1>4 DEF Viewed
<1> HIDE DEF s
<1>6. /\ DOMAIN cs' = Adapters /\ DOMAIN host' = Adapters /\ DOMAIN lapse' = Adapters
      /\ cs'[a] = s.cs /\ host'[a] = s.host /\ lapse'[a] = s.lapse
      /\ \A b \in Adapters \ {a} : cs'[b] = cs[b] /\ host'[b] = host[b] /\ lapse'[b] = lapse[b]
  BY <1>1 DEF Put, InputInv, Based
<1>7. Viewed(View(a)') /\ Masked(View(a)')
  BY <1>4, <1>5, <1>6 DEF Viewed, Masked, View
<1> QED
  BY <1>1, <1>4, <1>5, <1>6, <1>7

LEMMA SendKeysKeeps ==
    ASSUME InputInv, sc' = sc, NEW c \in Clients, UnloadSendKeys(c)
    PROVE  InputInv' /\ CalmTune
<1>0. PICK a \in Adapters : a = On(c)
  BY OnAdapter DEF UnloadSendKeys, InputInv
<1> DEFINE current == KeyboardReport(cs[a])
<1>1. cl[c].at = "sendkeys" /\ cl[c].on = a /\ a = On(c)
  BY <1>0 DEF UnloadSendKeys, On, AtDevice, At
<1>2. SendBuilt(c, Keyboard, current, "button")
  BY <1>0 DEF UnloadSendKeys
<1>3. /\ current.modifiers = cs[a].modifiers
      /\ current.keys = IF Len(cs[a].keys) > CORE_HID_KEYS_REPORTED THEN Rollover ELSE cs[a].keys
  BY DEF KeyboardReport, KeysOf
<1> HIDE DEF current
<1>4. /\ UNCHANGED <<devices, rested>> /\ Alone(c) /\ cl'[c].on = a /\ cl'[c].at = "button"
      /\ DOMAIN cs' = Adapters /\ DOMAIN host' = Adapters /\ DOMAIN lapse' = Adapters
      /\ \A b \in Adapters \ {a} :
            cs'[b] = cs[b] /\ host'[b] = host[b] /\ lapse'[b] = lapse[b]
      /\ cs'[a] = cs[a] /\ Viewed(View(a)') /\ Masked(View(a)')
      /\ \A k \in Collections \ {Keyboard} :
            host'[a][k] = host[a][k] /\ (k \in lapse'[a] <=> k \in lapse[a])
      /\ Keyboard \in cs[a].mask /\ Keyboard \notin lapse'[a] => host'[a][Keyboard] = current
  BY <1>1, <1>2, BuiltSent
<1>5. KeysTold(View(a))'
  BY <1>3, <1>4 DEF KeysTold, View
<1>6. MouseTold(View(a)) => MouseTold(View(a))'
  <2>1. Mouse \in Collections \ {Keyboard}
    BY DEF Collections, Mouse, Keyboard
  <2> QED
    BY <1>4, <2>1 DEF MouseTold, View
<1> QED
  BY <1>1, <1>4, <1>5, <1>6, OneSenderMoves

LEMMA SendMouseKeeps ==
    ASSUME InputInv, sc' = sc, NEW c \in Clients, UnloadSendMouse(c)
    PROVE  InputInv' /\ CalmTune
<1>0. PICK a \in Adapters : a = On(c)
  BY OnAdapter DEF UnloadSendMouse, InputInv
<1> DEFINE current == [buttons |-> cs[a].mouse, move |-> <<0, 0>>]
<1>1. cl[c].at = "sendmouse" /\ cl[c].on = a /\ a = On(c)
  BY <1>0 DEF UnloadSendMouse, On, AtDevice, At
<1>2. SendBuilt(c, Mouse, current, "button")
  BY <1>0 DEF UnloadSendMouse
<1>3. current.buttons = cs[a].mouse
  OBVIOUS
<1> HIDE DEF current
<1>4. /\ UNCHANGED <<devices, rested>> /\ Alone(c) /\ cl'[c].on = a /\ cl'[c].at = "button"
      /\ DOMAIN cs' = Adapters /\ DOMAIN host' = Adapters /\ DOMAIN lapse' = Adapters
      /\ \A b \in Adapters \ {a} :
            cs'[b] = cs[b] /\ host'[b] = host[b] /\ lapse'[b] = lapse[b]
      /\ cs'[a] = cs[a] /\ Viewed(View(a)') /\ Masked(View(a)')
      /\ \A k \in Collections \ {Mouse} :
            host'[a][k] = host[a][k] /\ (k \in lapse'[a] <=> k \in lapse[a])
      /\ Mouse \in cs[a].mask /\ Mouse \notin lapse'[a] => host'[a][Mouse] = current
  BY <1>1, <1>2, BuiltSent
<1>5. MouseTold(View(a))'
  BY <1>3, <1>4 DEF MouseTold, View
<1>6. KeysTold(View(a)) => KeysTold(View(a))'
  <2>1. Keyboard \in Collections \ {Mouse}
    BY DEF Collections, Mouse, Keyboard
  <2> QED
    BY <1>4, <2>1 DEF KeysTold, View
<1> QED
  BY <1>1, <1>4, <1>5, <1>6, OneSenderMoves

LEMMA ClientKeeps ==
    ASSUME InputInv, sc' = sc, NEW c \in Clients, Client(c)
    PROVE  InputInv' /\ CalmTune
BY LookKeeps, AstrayKeeps, SettingKeeps, SubmitKeeps, CreateKeeps, ClearKeysKeeps, LetGoKeeps,
   SendKeysKeeps, SendMouseKeeps DEF Client
--------------------------------------------------------------------------------
(* Lists *)

LEMMA WithoutOne ==
    ASSUME NEW S, NEW seq \in Seq(S), NEW k \in 1..Len(seq)
    PROVE  LET r == RemoveAt(seq, k) IN
           /\ r \in Seq(S) /\ Len(r) = Len(seq) - 1
           /\ \A i \in 1..Len(seq) - 1 : r[i] = IF i < k THEN seq[i] ELSE seq[i + 1]
<1> DEFINE a == SubSeq(seq, 1, k - 1)
           b == SubSeq(seq, k + 1, Len(seq))
<1>1. /\ a \in Seq(S) /\ Len(a) = k - 1 /\ \A i \in 1..k - 1 : a[i] = seq[i]
  BY SubSeqProperties
<1>2. /\ b \in Seq(S) /\ Len(b) = Len(seq) - k
      /\ \A i \in 1..Len(seq) - k : b[i] = seq[k + i]
  <2>1. /\ b \in Seq(S)
        /\ Len(b) = IF k + 1 <= Len(seq) THEN Len(seq) - (k + 1) + 1 ELSE 0
        /\ \A i \in 1..Len(seq) - (k + 1) + 1 : b[i] = seq[(k + 1) + i - 1]
    BY SubSeqProperties
  <2> HIDE DEF b
  <2> QED
    BY <2>1
<1> HIDE DEF a, b
<1>3. a \o b \in Seq(S) /\ Len(a \o b) = Len(seq) - 1
  <2>1. a \o b \in Seq(S) /\ Len(a \o b) = Len(a) + Len(b)
    BY <1>1, <1>2, ConcatProperties, Zenon
  <2> QED
    BY <1>1, <1>2, <2>1
<1>4. \A i \in 1..Len(seq) - 1 : (a \o b)[i] = IF i < k THEN seq[i] ELSE seq[i + 1]
  <2>1. \A i \in 1..Len(a) + Len(b) : (a \o b)[i] = IF i <= Len(a) THEN a[i] ELSE b[i - Len(a)]
    BY <1>1, <1>2, ConcatProperties, Zenon
  <2> DEFINE c == a \o b
  <2> HIDE DEF c
  <2>2. ASSUME NEW i \in 1..Len(seq) - 1
        PROVE  c[i] = IF i < k THEN seq[i] ELSE seq[i + 1]
    <3>1. CASE i < k
      <4>1. c[i] = a[i] /\ i \in 1..k - 1
        BY <1>1, <1>2, <2>1, <3>1 DEF c
      <4> QED
        BY <1>1, <3>1, <4>1
    <3>2. CASE i >= k
      <4>1. c[i] = b[i - (k - 1)]
        BY <1>1, <1>2, <2>1, <3>2 DEF c
      <4>2. i - (k - 1) \in 1..Len(seq) - k
        BY <3>2
      <4>3. b[i - (k - 1)] = seq[k + (i - (k - 1))] /\ k + (i - (k - 1)) = i + 1
        BY <1>2, <4>2
      <4> QED
        BY <3>2, <4>1, <4>3
    <3> QED
      BY <3>1, <3>2
  <2> QED
    BY <2>2 DEF c
<1> QED
  BY <1>3, <1>4 DEF RemoveAt, a, b

LEMMA WithoutOneIsWithin ==
    ASSUME NEW S, NEW list \in Seq(S), NEW k \in 1..Len(list)
    PROVE  ToSet(RemoveAt(list, k)) \subseteq ToSet(list)
<1> DEFINE r == RemoveAt(list, k)
<1>1. /\ r \in Seq(S) /\ Len(r) = Len(list) - 1
      /\ \A i \in 1..Len(list) - 1 : r[i] = IF i < k THEN list[i] ELSE list[i + 1]
  BY WithoutOne
<1> HIDE DEF r
<1>2. ASSUME NEW i \in DOMAIN r PROVE r[i] \in ToSet(list)
  <2>1. Len(list) \in Nat /\ i \in 1..Len(list) - 1
    BY <1>1
  <2>2. r[i] = IF i < k THEN list[i] ELSE list[i + 1]
    BY <1>1, <2>1
  <2>3. i \in DOMAIN list /\ i + 1 \in DOMAIN list
    BY <2>1
  <2> QED
    BY <2>2, <2>3 DEF ToSet
<1> QED
  BY <1>2 DEF ToSet, r

LEMMA AppendIs ==
    ASSUME NEW S, NEW list \in Seq(S), NEW x \in S
    PROVE  /\ Append(list, x) \in Seq(S) /\ Len(Append(list, x)) = Len(list) + 1
           /\ \A i \in 1..Len(list) : Append(list, x)[i] = list[i]
           /\ Append(list, x)[Len(list) + 1] = x
           /\ ToSet(Append(list, x)) = ToSet(list) \cup {x}
<1> DEFINE r == Append(list, x)
<1>1. /\ r \in Seq(S) /\ Len(r) = Len(list) + 1
      /\ \A i \in 1..Len(list) : r[i] = list[i]
      /\ r[Len(list) + 1] = x
  BY AppendProperties
<1> HIDE DEF r
<1>2. DOMAIN r = 1..Len(list) + 1 /\ DOMAIN list = 1..Len(list) /\ Len(list) \in Nat
  BY <1>1
<1>3. ToSet(r) \subseteq ToSet(list) \cup {x}
  <2>1. ASSUME NEW i \in DOMAIN r PROVE r[i] \in ToSet(list) \cup {x}
    BY <1>1, <1>2, <2>1 DEF ToSet
  <2> QED
    BY <2>1 DEF ToSet
<1>4. ToSet(list) \cup {x} \subseteq ToSet(r)
  BY <1>1, <1>2 DEF ToSet
<1> QED
  BY <1>1, <1>3, <1>4 DEF r

--------------------------------------------------------------------------------
(* Packets, timers, Plug and Play *)

Modes == {{}, {"active"}, {"active", "held"}}

LEMMA ModeMoves ==
    ASSUME NEW core, DOMAIN core = CoreFields, core.tune \in Modes, NEW held
    PROVE  LET t == TuneMode(TuneEntered(core, held).tune, held)
           IN  /\ t \in Modes
               /\ t = {"active"} => \/ core.tune = {"active"}
                                    \/ core.tune # {} /\ held \cap (ShoulderC \cup Face) = {}
               /\ "active" \in core.tune /\ "active" \notin t => core.tune = {"active"}
<1> DEFINE e == TuneEntered(core, held).tune
<1>1. e = IF TuneCombination(held) THEN {"active", "held"} ELSE core.tune
  BY DEF TuneEntered, CoreFields
<1>2. TuneCombination(held) => ~LetGo(held)
  BY DEF TuneCombination, LetGo, ShoulderC, L, R
<1> HIDE DEF e
<1>3. TuneMode(e, held) = IF LetGo(held) THEN e \ {"held"} ELSE IF e = {"active"} THEN {} ELSE e
  BY DEF TuneMode
<1>4. CASE TuneCombination(held)
  <2>1. TuneMode(e, held) = {"active", "held"}
    BY <1>1, <1>2, <1>3, <1>4
  <2> QED
    BY <2>1 DEF Modes, e
<1>5. CASE ~TuneCombination(held) /\ LetGo(held)
  <2>1. TuneMode(e, held) = core.tune \ {"held"}
    BY <1>1, <1>3, <1>5
  <2> QED
    BY <1>5, <2>1 DEF Modes, e, LetGo
<1>6. CASE ~TuneCombination(held) /\ ~LetGo(held)
  <2>1. TuneMode(e, held) = IF core.tune = {"active"} THEN {} ELSE core.tune
    BY <1>1, <1>3, <1>6
  <2> QED
    BY <2>1 DEF Modes, e
<1> QED
  BY <1>4, <1>5, <1>6

LEMMA ViewIs ==
    ASSUME Based, NEW a \in Adapters
    PROVE  /\ Viewed(View(a)) /\ View(a).cs = cs[a] /\ View(a).host = host[a]
           /\ View(a).lapse = lapse[a] /\ DOMAIN cs[a] = CoreFields
BY DEF Based, View, Viewed

LEMMA PacketKeeps ==
    ASSUME InputInv, sc' = sc, NEW a \in Adapters, Packet(a)
    PROVE  InputInv'
<1>1. PICK p \in sc.packets, fx \in {"tick", "periodic", "pak"}, n \in ScriptCalls(a) :
         /\ Put(a, OnRawPacket(View(a), p, fx, n))
         /\ rested' = [rested EXCEPT ![a] =
               IF cs'[a].tune = {} \/ "held" \in cs'[a].tune \ cs[a].tune THEN FALSE
               ELSE @ \/ (cs[a].gate = "found" /\ p.valid /\ p.held \cap (ShoulderC \cup Face) = {})]
         /\ devices' = devices /\ cl' = cl
  BY DEF Packet
<1> DEFINE r == OnRawPacket(View(a), p, fx, n)
<1>2. Packed(View(a), r, p)
  BY ViewIs, PacketPacked DEF InputInv
<1>3. Put(a, r)
  BY <1>1
<1> HIDE DEF r
<1>4. CalmCores /\ cs'[a] = r.cs
  BY <1>2, <1>3, ViewIs, OneViewMoves DEF InputInv, Packed
<1>5. Based' /\ AllTold'
  <2>1. DOMAIN rested' = Adapters
    BY <1>1 DEF InputInv, Based
  <2>2. CalmClients /\ CalmList
    BY <1>1, ClientsStay, ListStays DEF InputInv
  <2> QED
    BY <1>4, <2>1, <2>2, CalmKeeps
<1>6. \A b \in Adapters \ {a} : cs'[b] = cs[b] /\ rested'[b] = rested[b]
  BY <1>1, <1>3 DEF Put, InputInv, Based
<1>7. cs[a].tune \in Modes /\ (cs[a].tune = {"active"} => rested[a]) /\ DOMAIN cs[a] = CoreFields
  BY ViewIs DEF InputInv, TuneModes, Modes
<1>8. \/ cs'[a].tune = cs[a].tune
      \/ /\ cs[a].gate = "found" /\ p.valid
         /\ cs'[a].tune = TuneMode(TuneEntered(cs[a], p.held).tune, p.held)
  BY <1>2, <1>4, ViewIs DEF Packed, InputInv
<1>9. cs'[a].tune \in Modes /\ (cs'[a].tune = {"active"} => rested'[a])
  <2>1. rested'[a] <=> (IF cs'[a].tune = {} \/ "held" \in cs'[a].tune \ cs[a].tune THEN FALSE
               ELSE rested[a] \/ (cs[a].gate = "found" /\ p.valid /\ p.held \cap (ShoulderC \cup Face) = {}))
    BY <1>1 DEF InputInv, Based
  <2>2. CASE cs'[a].tune = cs[a].tune
    BY <1>7, <2>1, <2>2
  <2>3. CASE cs[a].gate = "found" /\ p.valid /\ cs'[a].tune = TuneMode(TuneEntered(cs[a], p.held).tune, p.held)
    <3>1. /\ cs'[a].tune \in Modes
          /\ cs'[a].tune = {"active"} => cs[a].tune = {"active"} \/ p.held \cap (ShoulderC \cup Face) = {}
      BY <1>7, <2>3, ModeMoves
    <3> QED
      BY <1>7, <2>1, <2>3, <3>1
  <2> QED
    BY <1>8, <2>2, <2>3
<1>10. TuneModes'
  BY <1>6, <1>9 DEF InputInv, TuneModes, Modes
<1> QED
  BY <1>5, <1>10 DEF InputInv

LEMMA PackKeeps ==
    ASSUME InputInv, sc' = sc, NEW a \in Adapters, Pack(a)
    PROVE  InputInv' /\ CalmTune
<1> DEFINE r == Emit(View(a), Joystick, PackJoystick(cs[a]))
<1>1. Put(a, r) /\ UNCHANGED <<devices, cl, rested>>
  BY DEF Pack
<1>2. /\ Viewed(r) /\ r.cs = View(a).cs
      /\ \A c \in Collections \ {Joystick} :
            r.host[c] = View(a).host[c] /\ (c \in r.lapse <=> c \in View(a).lapse)
      /\ Masked(View(a)) => Masked(r)
  BY ViewIs, EmitTells DEF InputInv, Collections
<1> HIDE DEF r
<1>3. Keyboard \in Collections \ {Joystick} /\ Mouse \in Collections \ {Joystick}
  BY DEF Collections, Joystick, Keyboard, Mouse
<1>4. Told(View(a), r)
  BY <1>2, <1>3 DEF Told, KeysTold, MouseTold
<1>5. CalmCores /\ CalmTune
  BY <1>1, <1>2, <1>4, ViewIs, OneViewMoves DEF InputInv
<1> QED
  BY <1>1, <1>5, ClientsStay, ListStays, CalmTuneKeeps DEF InputInv

LEMMA TimerKeeps ==
    ASSUME InputInv, sc' = sc, NEW a \in Adapters, ScriptTimer(a)
    PROVE  InputInv' /\ CalmTune
<1>1. PICK n : Put(a, Native(View(a), n)) /\ UNCHANGED <<devices, cl, rested>>
  BY DEF ScriptTimer
<1> DEFINE r == Native(View(a), n)
<1>2. Called(View(a), r)
  BY ViewIs, NativeCalled DEF InputInv
<1>3. Put(a, r)
  BY <1>1
<1> HIDE DEF r
<1>4. r.cs.mask = cs[a].mask /\ r.cs.tune = cs[a].tune
  BY <1>2, ViewIs DEF Called, Differ, Scripted, CoreFields, InputInv
<1>5. CalmCores /\ CalmTune
  BY <1>1, <1>2, <1>3, <1>4, OneViewMoves DEF InputInv, Called
<1> QED
  BY <1>1, <1>5, ClientsStay, ListStays, CalmTuneKeeps DEF InputInv

LEMMA ProbeKeeps ==
    ASSUME InputInv, sc' = sc, NEW a \in Adapters, ProbeEnds(a)
    PROVE  InputInv' /\ CalmTune
<1>1. PICK g : cs' = [cs EXCEPT ![a] = [cs[a] EXCEPT !.gate = g]] /\ UNCHANGED <<host, lapse, devices, cl, rested>>
  BY DEF ProbeEnds, history
<1>2. Differ(cs[a], [cs[a] EXCEPT !.gate = g], Untold \ {"tune"})
  BY ViewIs DEF Differ, CoreFields, Untold, InputInv
<1> QED
  BY <1>1, <1>2, OneCoreMoves, ClientsStay, ListStays, CalmTuneKeeps DEF InputInv

LEMMA StartKeeps ==
    ASSUME InputInv, sc' = sc, NEW a \in Adapters, StartDevice(a)
    PROVE  InputInv' /\ CalmTune
<1>1. UNCHANGED <<cs, host, lapse, devices, cl, rested>>
  BY DEF StartDevice, history
<1> QED
  BY <1>1, CoresStay, ClientsStay, ListStays, CalmTuneKeeps DEF InputInv

LEMMA NotContinuouslyIsCalm ==
    ASSUME InputInv, NEW a, NotContinuously(a)
    PROVE  CalmClients
BY DEF InputInv, Based, NotContinuously, CalmClients, SendsKeys, SendsMouse, ClientFields

LEMMA RemoveKeeps ==
    ASSUME InputInv, sc' = sc, NEW a \in Adapters, RemoveDevice(a)
    PROVE  InputInv' /\ CalmTune
<1>1. UNCHANGED <<cs, host, lapse, rested>>
  BY DEF RemoveDevice
<1>2. PICK i \in DOMAIN devices : devices' = RemoveAt(devices, i)
  BY DEF RemoveDevice
<1>3. CalmList
  <2>1. devices \in Seq(Adapters) /\ i \in 1..Len(devices)
    BY DEF InputInv, Based
  <2> QED
    BY <1>2, <2>1, WithoutOne, WithoutOneIsWithin DEF CalmList
<1> QED
  BY <1>1, <1>3, CoresStay, NotContinuouslyIsCalm, CalmTuneKeeps DEF InputInv, RemoveDevice

LEMMA FreshIs ==
    ASSUME NEW mask
    PROVE  LET core == FreshCore(mask)
           IN  /\ DOMAIN core = CoreFields /\ core.mask = mask /\ core.tune = {}
               /\ core.modifiers = {} /\ core.keys = <<>> /\ core.mouse = {}
BY DEF FreshCore, CoreFields

LEMMA SilentIs ==
    /\ DOMAIN Silent = Collections /\ Silent[Keyboard].modifiers = {} /\ Silent[Keyboard].keys = <<>>
    /\ Silent[Mouse].buttons = {}
BY DEF Silent, Collections, Joystick, Keyboard, Mouse

LEMMA StopKeeps ==
    ASSUME InputInv, sc' = sc, NEW a \in Adapters, StopDevice(a)
    PROVE  InputInv'
<1> DEFINE fresh == FreshCore(cs[a].mask)
           core == [fresh EXCEPT !.map = cs[a].map]
           lost == (IF KeyTable(cs[a], 0, FALSE) = cs[a] THEN {} ELSE {Keyboard})
                   \cup (IF cs[a].mouse = {} THEN {} ELSE {Mouse})
           s == [cs |-> core, host |-> host[a], lapse |-> lapse[a] \cup lost]
<1>1. /\ DOMAIN core = CoreFields /\ core.mask = cs[a].mask /\ core.tune = {}
      /\ core.modifiers = {} /\ core.keys = <<>> /\ core.mouse = {}
  <2>1. /\ DOMAIN fresh = CoreFields /\ fresh.mask = cs[a].mask /\ fresh.tune = {}
        /\ fresh.modifiers = {} /\ fresh.keys = <<>> /\ fresh.mouse = {}
    BY FreshIs
  <2> HIDE DEF fresh
  <2> QED
    BY <2>1
<1>2. /\ cs' = [cs EXCEPT ![a] = core] /\ host' = host /\ devices' = devices
      /\ lapse' = [lapse EXCEPT ![a] = lapse[a] \cup lost]
      /\ rested' = [rested EXCEPT ![a] = FALSE]
      /\ NotContinuously(a)
  BY DEF StopDevice, CoreReset
<1>3. /\ DOMAIN cs[a] = CoreFields /\ Viewed(View(a))
      /\ View(a).cs = cs[a] /\ View(a).host = host[a] /\ View(a).lapse = lapse[a]
  BY ViewIs DEF InputInv
<1>4. Keyboard \notin lost => cs[a].modifiers = {} /\ cs[a].keys = <<>>
  <2>1. 0 \notin Modifiers /\ 0 \notin Keys
    BY InputConstants
  <2>2. KeyTable(cs[a], 0, FALSE) = [cs[a] EXCEPT !.modifiers = {}, !.keys = <<>>]
    BY <2>1 DEF KeyTable
  <2>3. "modifiers" \in CoreFields /\ "keys" \in CoreFields
    BY DEF CoreFields
  <2> QED
    BY <1>3, <2>2, <2>3
<1>5. Mouse \notin lost => cs[a].mouse = {}
  OBVIOUS
<1> HIDE DEF lost, core
<1>6. Told(View(a), s)
  BY <1>1, <1>3, <1>4, <1>5 DEF Told, Viewed, KeysTold, MouseTold, Masked
<1>8. CalmCores /\ cs'[a] = core
  BY <1>1, <1>2, <1>6, OneMoves DEF InputInv, Based
<1>9. Based' /\ AllTold'
  <2>1. DOMAIN rested' = Adapters /\ CalmClients /\ CalmList
    BY <1>2, NotContinuouslyIsCalm, ListStays DEF InputInv, Based
  <2> QED
    BY <1>8, <2>1, CalmKeeps
<1>10. TuneModes'
  BY <1>1, <1>2, <1>8 DEF InputInv, Based, TuneModes
<1> QED
  BY <1>9, <1>10 DEF InputInv

LEMMA AddKeeps ==
    ASSUME InputInv, sc' = sc, NEW a \in Adapters, AddDevice(a)
    PROVE  InputInv'
<1> DEFINE core == FreshCore(cs[a].mask)
<1>1. /\ DOMAIN core = CoreFields /\ core.mask = cs[a].mask /\ core.tune = {}
      /\ core.modifiers = {} /\ core.keys = <<>> /\ core.mouse = {}
  BY FreshIs
<1>2. /\ cs' = [cs EXCEPT ![a] = core] /\ host' = [host EXCEPT ![a] = Silent]
      /\ lapse' = [lapse EXCEPT ![a] = {}] /\ rested' = [rested EXCEPT ![a] = FALSE]
      /\ devices' = Append(devices, a) /\ cl' = cl
  BY DEF AddDevice
<1> HIDE DEF core
<1>3. /\ DOMAIN cs' = Adapters /\ DOMAIN host' = Adapters /\ DOMAIN lapse' = Adapters
      /\ DOMAIN rested' = Adapters
      /\ cs'[a] = core /\ host'[a] = Silent /\ lapse'[a] = {}
      /\ \A b \in Adapters \ {a} : /\ cs'[b] = cs[b] /\ host'[b] = host[b] /\ lapse'[b] = lapse[b]
                                   /\ rested'[b] = rested[b]
  BY <1>2 DEF InputInv, Based
<1>4. devices' \in Seq(Adapters) /\ ToSet(devices') = ToSet(devices) \cup {a}
  BY <1>2, AppendIs DEF InputInv, Based
<1>5. \A b \in Adapters \ {a} : View(b)' = View(b)
  BY <1>3 DEF View
<1>6. /\ Viewed(View(a)') /\ Masked(View(a)')
      /\ KeysTold(View(a))' /\ MouseTold(View(a))'
  <2>1. ~(Len(<<>>) > CORE_HID_KEYS_REPORTED)
    BY InputConstants
  <2> QED
    BY <1>1, <1>3, <2>1, SilentIs DEF View, Viewed, Masked, KeysTold, MouseTold
<1>7. Based'
  BY <1>1, <1>2, <1>3, <1>4, <1>5, <1>6 DEF InputInv, Based
<1>8. TuneModes'
  BY <1>1, <1>3 DEF InputInv, TuneModes
<1>9. ASSUME NEW b \in ToSet(devices')
      PROVE  /\ KeysTold(View(b))' \/ \E c \in Clients : SendsKeys(c, b)'
             /\ MouseTold(View(b))' \/ \E c \in Clients : SendsMouse(c, b)'
  <2>1. CASE b = a
    BY <1>6, <2>1
  <2>2. CASE b # a
    <3>1. b \in ToSet(devices) /\ b \in Adapters
      BY <1>4, <2>2, ListOf DEF InputInv, Based
    <3>2. /\ KeysTold(View(b)) \/ \E c \in Clients : SendsKeys(c, b)
          /\ MouseTold(View(b)) \/ \E c \in Clients : SendsMouse(c, b)
      BY <3>1 DEF InputInv, AllTold
    <3>3. (KeysTold(View(b)) => KeysTold(View(b))') /\ (MouseTold(View(b)) => MouseTold(View(b))')
      BY <1>5, <2>2, <3>1
    <3>4. \A c \in Clients : (SendsKeys(c, b) => SendsKeys(c, b)') /\ (SendsMouse(c, b) => SendsMouse(c, b)')
      BY <1>2 DEF SendsKeys, SendsMouse
    <3> QED
      BY <3>2, <3>3, <3>4
  <2> QED
    BY <2>1, <2>2
<1> QED
  BY <1>7, <1>8, <1>9 DEF InputInv, AllTold
--------------------------------------------------------------------------------
(* The theorems *)

LEMMA InitInputInv == InputInit => InputInv
<1> SUFFICES ASSUME InputInit PROVE InputInv
  OBVIOUS
<1>1. /\ sc \in Scenarios /\ cs = [a \in Adapters |-> FreshCore(sc.mask)]
      /\ host = [a \in Adapters |-> Silent] /\ devices = sc.up
      /\ cl = [c \in Clients |-> Resting] /\ lapse = [a \in Adapters |-> {}]
      /\ rested = [a \in Adapters |-> FALSE]
  BY DEF InputInit
<1>2. devices \in Seq(Adapters)
  BY <1>1, InputConstants
<1>3. ASSUME NEW a \in Adapters
      PROVE  /\ Viewed(View(a)) /\ cs[a].mask = sc.mask /\ Masked(View(a)) /\ cs[a].tune = {}
             /\ KeysTold(View(a)) /\ MouseTold(View(a))
  <2>1. ~(Len(<<>>) > CORE_HID_KEYS_REPORTED)
    BY InputConstants
  <2>2. cs[a] = FreshCore(sc.mask) /\ host[a] = Silent /\ lapse[a] = {}
    BY <1>1
  <2>3. /\ DOMAIN cs[a] = CoreFields /\ cs[a].mask = sc.mask /\ cs[a].tune = {}
        /\ cs[a].modifiers = {} /\ cs[a].keys = <<>> /\ cs[a].mouse = {}
    BY <2>2, FreshIs
  <2> QED
    BY <2>1, <2>2, <2>3, SilentIs DEF View, Viewed, Masked, KeysTold, MouseTold
<1>4. Based
  BY <1>1, <1>2, <1>3, RestingFields DEF Based
<1>5. AllTold /\ TuneModes
  BY <1>2, <1>3, ListOf DEF AllTold, TuneModes
<1> QED
  BY <1>4, <1>5 DEF InputInv

LEMMA NextKeepsInputInv ==
    ASSUME InputInv, [InputNext]_inputVars
    PROVE  InputInv'
<1>1. CASE UNCHANGED inputVars
  <2>1. UNCHANGED <<sc, cs, host, lapse, devices, cl, rested>>
    BY <1>1 DEF inputVars, history
  <2> QED
    BY <2>1, CoresStay, ClientsStay, ListStays, CalmTuneKeeps DEF InputInv
<1>2. CASE InputNext
  BY <1>2, ClientKeeps, PacketKeeps, PackKeeps, TimerKeeps, ProbeKeeps, AddKeeps, StartKeeps, StopKeeps, RemoveKeeps
     DEF InputNext
<1> QED
  BY <1>1, <1>2

THEOREM InputInvariant == InputSpec => []InputInv
BY InitInputInv, NextKeepsInputInv, PTL DEF InputSpec

(***************************************************************************)
(* For any adapters, clients, inputs and sizes of the report the host      *)
(* holds the keys and buttons of core_hid_key_event and                    *)
(* core_hid_mouse_button: a client that changed a table and has not yet    *)
(* sent its report is the only one that may keep it out of step.           *)
(***************************************************************************)
THEOREM HostInSyncHolds == InputSpec => []HostInSync
<1>1. InputInv => HostInSync
  <2> SUFFICES ASSUME InputInv, NEW a \in ToSet(devices), ~Sending(a)
               PROVE  KeysTold(View(a)) /\ MouseTold(View(a))
    BY DEF HostInSync, KeysTold, MouseTold, View
  <2>1. \A c \in Clients : ~SendsKeys(c, a) /\ ~SendsMouse(c, a)
    BY DEF Sending, SendsKeys, SendsMouse, On
  <2> QED
    BY <2>1 DEF InputInv, AllTold
<1> QED
  BY <1>1, InputInvariant, PTL

(***************************************************************************)
(* core_tune_update, for any packets and any number of them: the buttons   *)
(* that enter the tuning mode do not leave it, and it is left by a press   *)
(* after everything was let go.                                            *)
(***************************************************************************)
THEOREM TuneLeavesHolds == InputSpec => TuneLeavesOnFreshPress
<1> DEFINE Leaves ==
        \A a \in Adapters : "active" \in cs[a].tune /\ "active" \notin cs'[a].tune
            => rested[a] \/ cs'[a] = CoreReset(cs[a]) \/ a \notin ToSet(devices)
<1>1. InputInv /\ [InputNext]_inputVars => [Leaves]_inputVars
  <2> SUFFICES ASSUME InputInv, InputNext, NEW a \in Adapters,
                      "active" \in cs[a].tune, "active" \notin cs'[a].tune
               PROVE  rested[a] \/ cs'[a] = CoreReset(cs[a]) \/ a \notin ToSet(devices)
    BY DEF Leaves
  <2>1. cs[a].tune \in Modes /\ (cs[a].tune = {"active"} => rested[a]) /\ DOMAIN cs[a] = CoreFields
        /\ cs[a].tune # cs'[a].tune
    BY ViewIs DEF InputInv, TuneModes, Modes
  <2>2. ASSUME NEW b \in Adapters, Packet(b)
        PROVE  rested[a]
    <3>1. PICK p \in sc.packets, fx \in {"tick", "periodic", "pak"}, n \in ScriptCalls(b) :
             Put(b, OnRawPacket(View(b), p, fx, n))
      BY <2>2 DEF Packet
    <3> DEFINE r == OnRawPacket(View(b), p, fx, n)
    <3>2. Packed(View(b), r, p)
      BY ViewIs, PacketPacked DEF InputInv
    <3>3. cs' = [cs EXCEPT ![b] = r.cs]
      BY <3>1 DEF Put
    <3> HIDE DEF r
    <3>4. a = b /\ cs'[a] = r.cs
      BY <2>1, <3>3 DEF InputInv, Based
    <3>5. cs'[a].tune = TuneMode(TuneEntered(cs[a], p.held).tune, p.held)
      BY <2>1, <3>2, <3>4, ViewIs DEF Packed, InputInv
    <3>6. cs[a].tune = {"active"}
      BY <2>1, <3>5, ModeMoves
    <3> QED
      BY <2>1, <3>6
  <2>3. ASSUME NEW b \in Adapters, StopDevice(b)
        PROVE  cs'[a] = CoreReset(cs[a])
    BY <2>1, <2>3 DEF StopDevice, InputInv, Based
  <2>4. ASSUME NEW b \in Adapters, AddDevice(b)
        PROVE  a \notin ToSet(devices)
    BY <2>1, <2>4 DEF AddDevice, InputInv, Based
  <2>5. ASSUME CalmTune PROVE FALSE
    BY <2>1, <2>5 DEF CalmTune
  <2> QED
    BY <2>2, <2>3, <2>4, <2>5, ClientKeeps, PackKeeps, TimerKeeps, ProbeKeeps, StartKeeps, RemoveKeeps DEF InputNext
<1> QED
  BY <1>1, InputInvariant, PTL DEF InputSpec, TuneLeavesOnFreshPress

--------------------------------------------------------------------------------
(* Enumerations *)

EnumFields == {"prev", "seen", "must", "over"}

(* The list names nobody twice and nobody who has left; who is live is on it. *)
OnceListed ==
    /\ devices \in Seq(Adapters)
    /\ \A i, j \in DOMAIN devices : devices[i] = devices[j] => i = j
    /\ live \subseteq ToSet(devices)
    /\ \A a \in gone : a \notin ToSet(devices)

(***************************************************************************)
(* Where an enumeration is: nobody behind the adapter it named last has    *)
(* been named, and everybody up to it that was live all the while has.     *)
(***************************************************************************)
Reached(e) ==
    IF e.prev = "none" THEN e.seen = <<>>
    ELSE /\ e.prev \in ToSet(devices) \cup gone
         /\ \A p \in DOMAIN devices : devices[p] = e.prev =>
               \A i \in DOMAIN devices :
                  IF i > p THEN devices[i] \notin ToSet(e.seen)
                  ELSE devices[i] \in e.must => devices[i] \in ToSet(e.seen)

Walked(c) ==
    LET e == cl[c].enum
    IN  /\ DOMAIN e = EnumFields /\ e.seen \in Seq(Adapters)
        /\ \A i, j \in DOMAIN e.seen : e.seen[i] = e.seen[j] => i = j
        /\ e.must \subseteq live
        /\ e.over => e.must \subseteq ToSet(e.seen)
        /\ cl[c].at = "enum" =>
              cl[c].on = "none" /\ Reached(e) /\ ToSet(e.seen) \subseteq ToSet(devices) \cup gone

EnumInv == OnceListed /\ \A c \in Clients : Walked(c)

LEMMA BehindIs ==
    ASSUME OnceListed, NEW prev, prev = "none" \/ prev \in ToSet(devices)
    PROVE  \E p \in 0..Len(devices) :
              /\ Behind(prev) = p + 1..Len(devices)
              /\ IF prev = "none" THEN p = 0 ELSE p \in DOMAIN devices /\ devices[p] = prev
<1>1. DOMAIN devices = 1..Len(devices) /\ Len(devices) \in Nat
  BY DEF OnceListed
<1>2. CASE prev = "none"
  BY <1>1, <1>2 DEF Behind
<1>3. CASE prev # "none"
  <2> DEFINE p == CHOOSE i \in DOMAIN devices : devices[i] = prev
  <2>1. \E i \in DOMAIN devices : devices[i] = prev
    BY <1>3 DEF ToSet
  <2>2. p \in DOMAIN devices /\ devices[p] = prev
    BY <2>1
  <2>3. Behind(prev) = p + 1..Len(devices)
    BY <1>3 DEF Behind
  <2> HIDE DEF p
  <2> QED
    BY <1>1, <1>3, <2>2, <2>3
<1> QED
  BY <1>2, <1>3

(* Who does not enumerate leaves the enumerations of all where they are. *)
LEMMA OthersWalk ==
    ASSUME Based, EnumInv, NEW c \in Clients, Alone(c), UNCHANGED <<devices, live, gone>>,
           cl[c].at # "enum", cl'[c].at # "enum", cl'[c].enum \in {cl[c].enum, Resting.enum}
    PROVE  EnumInv'
<1>1. OnceListed'
  BY DEF EnumInv, OnceListed
<1>2. ASSUME NEW d \in Clients \ {c} PROVE Walked(d)'
  <2>1. cl'[d] = cl[d] /\ Walked(d)
    BY DEF Alone, EnumInv
  <2> QED
    BY <2>1 DEF Walked, Reached
<1>3. Walked(c)'
  <2>1. Walked(c)
    BY DEF EnumInv
  <2>2. /\ DOMAIN Resting.enum = EnumFields /\ Resting.enum.seen = <<>>
        /\ Resting.enum.must = {} /\ Resting.enum.over = FALSE
    BY DEF Resting, EnumFields
  <2>3. CASE cl'[c].enum = cl[c].enum
    BY <2>1, <2>3 DEF Walked
  <2>4. CASE cl'[c].enum = Resting.enum
    <3>1. <<>> \in Seq(Adapters) /\ DOMAIN <<>> = {}
      OBVIOUS
    <3> QED
      BY <2>2, <2>4, <3>1 DEF Walked
  <2> QED
    BY <2>3, <2>4
<1> QED
  BY <1>1, <1>2, <1>3 DEF EnumInv

LEMMA ClientWalks ==
    ASSUME Based, EnumInv, NEW c \in Clients, Client(c), ~StartEnum(c), ~EnumDevices(c)
    PROVE  EnumInv'
<1> DEFINE Moved == /\ Alone(c) /\ UNCHANGED <<devices, live, gone>>
                    /\ cl[c].at # "enum" /\ cl'[c].at # "enum" /\ cl'[c].enum \in {cl[c].enum, Resting.enum}
<1>0. DOMAIN cl = Clients /\ DOMAIN cl[c] = ClientFields
  BY DEF Based
<1>1. CASE DeviceRequest(c) \/ ButtonMap(c) \/ SetReports(c)
  <2>1. cl[c].at = "idle" /\ UNCHANGED <<devices, live, gone>>
    BY <1>1 DEF DeviceRequest, ButtonMap, SetReports, At, history
  <2>2. DeviceRequest(c) => Alone(c) /\ cl'[c].at # "enum" /\ cl'[c].enum = Resting.enum
    <3> HAVE DeviceRequest(c)
    <3>1. PICK r \in sc.requests, a \in live, b \in BOOLEAN :
             /\ At(c, "idle") /\ calls[c] < sc.maxCalls[c]
             /\ r.op \in {"snap", "set", "load"}
             /\ cl' = [cl EXCEPT ![c] = [Resting EXCEPT !.at = r.op, !.req = r, !.on = a, !.private = b]]
             /\ calls' = [calls EXCEPT ![c] = @ + 1]
             /\ UNCHANGED <<cs, host, reg, devices, live, script, history, packets, natives, pnp>>
      BY Zenon DEF DeviceRequest
    <3> QED
      BY <1>0, <3>1, RestingFields DEF Alone, ClientFields
  <2>3. ButtonMap(c) => Alone(c) /\ cl'[c].at # "enum" /\ cl'[c].enum = Resting.enum
    <3> HAVE ButtonMap(c)
    <3>1. PICK r \in sc.requests :
             cl' = [cl EXCEPT ![c] = [Resting EXCEPT !.at = "push", !.req = r, !.on = Head(devices)]]
      BY DEF ButtonMap
    <3> QED
      BY <1>0, <3>1, RestingFields DEF Alone, ClientFields
  <2>4. SetReports(c) => Alone(c) /\ cl'[c].at # "enum" /\ cl'[c].enum = Resting.enum
    <3> HAVE SetReports(c)
    <3>1. PICK r \in sc.requests : cl' = [cl EXCEPT ![c] = [Resting EXCEPT !.at = "sweep", !.req = r]]
      BY DEF SetReports
    <3> QED
      BY <1>0, <3>1, RestingFields DEF Alone, ClientFields
  <2> QED
    BY <1>1, <2>1, <2>2, <2>3, <2>4, OthersWalk
<1>2. CASE Astray(c)
  <2>1. cl[c].at # "enum"
    BY <1>2, InputConstants DEF Astray, On, EnumInv, Walked
  <2> QED
    BY <1>0, <1>2, <2>1, OthersWalk DEF Astray, Goto, Alone, ClientFields
<1>3. CASE SnapRead(c) \/ SnapClear(c) \/ GetSet(c) \/ PushMap(c)
  <2>1. Moved
    BY <1>0, <1>3 DEF SnapRead, SnapClear, GetSet, PushMap, AtDevice, At, Goto, Alone, ClientFields, history
  <2> QED
    BY <2>1, OthersWalk
<1>4. CASE UnloadTestKeys(c) \/ UnloadClearKeys(c) \/ UnloadReadButtons(c) \/ UnloadLetGo(c) \/ LoadScript(c)
  <2>1. UnloadTestKeys(c) => Moved
    BY <1>0 DEF UnloadTestKeys, AtDevice, At, Alone, ClientFields, history
  <2>2. UnloadClearKeys(c) => Moved
    BY <1>0 DEF UnloadClearKeys, AtDevice, At, Alone, ClientFields, history
  <2>3. UnloadReadButtons(c) => Moved
    BY <1>0 DEF UnloadReadButtons, AtDevice, At, Alone, ClientFields, history
  <2>4. UnloadLetGo(c) => Moved
    BY <1>0 DEF UnloadLetGo, AtDevice, At, Alone, ClientFields, history
  <2>5. LoadScript(c) => Moved
    BY <1>0 DEF LoadScript, AtDevice, At, Goto, Alone, ClientFields, history
  <2> QED
    BY <1>4, <2>1, <2>2, <2>3, <2>4, <2>5, OthersWalk
<1>5. CASE UnloadSendKeys(c) \/ UnloadSendMouse(c)
  <2>1. Moved
    BY <1>0, <1>5 DEF UnloadSendKeys, UnloadSendMouse, SendBuilt, AtDevice, At, Alone, ClientFields
  <2> QED
    BY <2>1, OthersWalk
<1>6. CASE PushNext(c)
  <2>1. Moved
    BY <1>0, <1>6 DEF PushNext, AtDevice, At, Alone, ClientFields, history
  <2> QED
    BY <2>1, OthersWalk
<1>7. CASE SweepNext(c) \/ SubmitJoystick(c)
  <2>1. SweepNext(c) => Moved
    <3> HAVE SweepNext(c)
    <3> DEFINE marked == SelectSeq(devices, LAMBDA a : a \in reg.resubmit)
    <3>1. cl' = [cl EXCEPT ![c].at = IF marked = <<>> THEN "idle" ELSE "submit",
                           ![c].on = IF marked = <<>> THEN @ ELSE Head(marked)]
      BY DEF SweepNext
    <3> HIDE DEF marked
    <3>2. cl[c].at = "sweep" /\ UNCHANGED <<devices, live, gone>>
      BY DEF SweepNext, At, history
    <3> QED
      BY <1>0, <3>1, <3>2 DEF Alone, ClientFields
  <2>2. SubmitJoystick(c) => Moved
    BY <1>0 DEF SubmitJoystick, AtDevice, At, Alone, ClientFields
  <2> QED
    BY <1>7, <2>1, <2>2, OthersWalk
<1>8. CASE ControlCreate(c)
  <2>1. Moved
    BY <1>0, <1>8 DEF ControlCreate, At, Alone, history
  <2> QED
    BY <2>1, OthersWalk
<1> QED
  BY <1>1, <1>2, <1>3, <1>4, <1>5, <1>6, <1>7, <1>8 DEF Client

(* The enumeration's own steps. *)
LEMMA WalkersApart ==
    ASSUME EnumInv, NEW c \in Clients, Alone(c), UNCHANGED <<devices, live, gone>>, Walked(c)'
    PROVE  EnumInv'
<1>1. OnceListed'
  BY DEF EnumInv, OnceListed
<1>2. ASSUME NEW d \in Clients \ {c} PROVE Walked(d)'
  <2>1. cl'[d] = cl[d] /\ Walked(d)
    BY DEF Alone, EnumInv
  <2> QED
    BY <2>1 DEF Walked, Reached
<1> QED
  BY <1>1, <1>2 DEF EnumInv

LEMMA StartWalks ==
    ASSUME Based, EnumInv, NEW c \in Clients, StartEnum(c)
    PROVE  EnumInv'
<1>1. /\ cl' = [cl EXCEPT ![c] = [Resting EXCEPT !.at = "enum", !.enum.must = live]]
      /\ UNCHANGED <<devices, live, gone>>
  BY DEF StartEnum, history
<1>2. /\ cl'[c].at = "enum" /\ cl'[c].on = "none" /\ cl'[c].enum.must = live /\ cl'[c].enum.over = FALSE
      /\ cl'[c].enum.seen = <<>> /\ cl'[c].enum.prev = "none" /\ DOMAIN cl'[c].enum = EnumFields
      /\ Alone(c)
  BY <1>1 DEF Based, Alone, Resting, ClientFields, EnumFields
<1>3. <<>> \in Seq(Adapters) /\ DOMAIN <<>> = {} /\ ToSet(<<>>) = {}
  BY DEF ToSet
<1>4. Walked(c)'
  BY <1>1, <1>2, <1>3 DEF Walked, Reached
<1> QED
  BY <1>1, <1>2, <1>4, WalkersApart

LEMMA EnumWalks ==
    ASSUME Based, EnumInv, NEW c \in Clients, EnumDevices(c)
    PROVE  EnumInv'
<1> DEFINE e == cl[c].enum
<1>1. UNCHANGED <<devices, live, gone>> /\ cl[c].at = "enum"
  BY DEF EnumDevices, history, At
<1>2. OnceListed /\ Walked(c) /\ DOMAIN cl = Clients /\ DOMAIN cl[c] = ClientFields
  BY DEF EnumInv, Based
<1>3. /\ DOMAIN e = EnumFields /\ e.seen \in Seq(Adapters) /\ e.must \subseteq live /\ cl[c].on = "none"
      /\ \A i, j \in DOMAIN e.seen : e.seen[i] = e.seen[j] => i = j
      /\ Reached(e) /\ ToSet(e.seen) \subseteq ToSet(devices) \cup gone
      /\ e.over => e.must \subseteq ToSet(e.seen)
  BY <1>1, <1>2 DEF Walked
<1>4. CASE cl' = [cl EXCEPT ![c] = Resting]
  <2>1. Alone(c) /\ cl'[c] = Resting
    BY <1>2, <1>4, RestingFields DEF Alone
  <2>2. <<>> \in Seq(Adapters) /\ DOMAIN <<>> = {}
    OBVIOUS
  <2>4. /\ cl'[c].at = "idle" /\ DOMAIN cl'[c].enum = EnumFields /\ cl'[c].enum.seen = <<>>
        /\ cl'[c].enum.must = {} /\ cl'[c].enum.over = FALSE
    BY <2>1 DEF Resting, EnumFields
  <2>3. Walked(c)'
    BY <2>2, <2>4 DEF Walked
  <2> QED
    BY <1>1, <2>1, <2>3, WalkersApart
<1>5. ASSUME e.prev = "none" \/ e.prev \in ToSet(devices)
      PROVE  \E p \in 0..Len(devices) :
                /\ LiveBehind(e.prev) = {i \in p + 1..Len(devices) : devices[i] \in live}
                /\ IF e.prev = "none" THEN p = 0 ELSE p \in DOMAIN devices /\ devices[p] = e.prev
                /\ \A i \in DOMAIN devices :
                      IF i > p THEN devices[i] \notin ToSet(e.seen)
                      ELSE devices[i] \in e.must => devices[i] \in ToSet(e.seen)
  <2> HIDE DEF e
  <2>1. PICK p \in 0..Len(devices) :
            /\ Behind(e.prev) = p + 1..Len(devices)
            /\ IF e.prev = "none" THEN p = 0 ELSE p \in DOMAIN devices /\ devices[p] = e.prev
    BY <1>2, <1>5, BehindIs
  <2>2. LiveBehind(e.prev) = {i \in p + 1..Len(devices) : devices[i] \in live}
    BY <2>1 DEF LiveBehind
  <2>3. DOMAIN devices = 1..Len(devices) /\ Len(devices) \in Nat
    BY <1>2 DEF OnceListed
  <2>4. \A i \in DOMAIN devices :
           IF i > p THEN devices[i] \notin ToSet(e.seen)
           ELSE devices[i] \in e.must => devices[i] \in ToSet(e.seen)
    <3>1. CASE e.prev = "none"
      <4>1. e.seen = <<>> /\ ToSet(<<>>) = {}
        BY <1>3, <3>1 DEF Reached, ToSet
      <4> QED
        BY <2>1, <2>3, <3>1, <4>1
    <3>2. CASE e.prev # "none"
      BY <1>3, <2>1, <3>2 DEF Reached
    <3> QED
      BY <3>1, <3>2
  <2> QED
    BY <2>1, <2>2, <2>4
<1>6. CASE /\ e.prev = "none" \/ e.prev \in ToSet(devices)
           /\ LiveBehind(e.prev) = {}
           /\ cl' = [cl EXCEPT ![c].at = "idle", ![c].enum.over = TRUE]
  <2>1. /\ Alone(c) /\ cl'[c].at = "idle" /\ DOMAIN cl'[c].enum = EnumFields
        /\ cl'[c].enum.seen = e.seen /\ cl'[c].enum.must = e.must
    BY <1>2, <1>3, <1>6 DEF Alone, ClientFields, EnumFields
  <2> HIDE DEF e
  <2>2. PICK p \in 0..Len(devices) :
            /\ {i \in p + 1..Len(devices) : devices[i] \in live} = {}
            /\ \A i \in DOMAIN devices : i <= p => (devices[i] \in e.must => devices[i] \in ToSet(e.seen))
    BY <1>5, <1>6
  <2>3. ASSUME NEW a \in e.must PROVE a \in ToSet(e.seen)
    <3>1. PICK j \in DOMAIN devices : a = devices[j]
      BY <1>2, <1>3 DEF OnceListed, ToSet
    <3>2. j \in 1..Len(devices) /\ Len(devices) \in Nat
      BY <1>2, <3>1 DEF OnceListed
    <3>3. j \notin p + 1..Len(devices)
      BY <1>3, <2>2, <3>1
    <3> QED
      BY <2>2, <3>1, <3>2, <3>3
  <2>4. Walked(c)'
    BY <1>1, <1>3, <2>1, <2>3 DEF Walked
  <2> QED
    BY <1>1, <2>1, <2>4, WalkersApart
<1>7. ASSUME e.prev = "none" \/ e.prev \in ToSet(devices),
             NEW i \in LiveBehind(e.prev), \A j \in LiveBehind(e.prev) : i <= j,
             cl' = [cl EXCEPT ![c].enum.prev = devices[i], ![c].enum.seen = Append(@, devices[i])]
      PROVE  EnumInv'
  <2> DEFINE x == devices[i]
  <2>1. /\ Alone(c) /\ cl'[c].at = "enum" /\ cl'[c].on = "none" /\ DOMAIN cl'[c].enum = EnumFields
        /\ cl'[c].enum.seen = Append(e.seen, x) /\ cl'[c].enum.prev = x
        /\ cl'[c].enum.must = e.must /\ cl'[c].enum.over = e.over
    BY <1>1, <1>2, <1>3, <1>7 DEF Alone, ClientFields, EnumFields
  <2>2. PICK p \in 0..Len(devices) :
            /\ LiveBehind(e.prev) = {k \in p + 1..Len(devices) : devices[k] \in live}
            /\ \A k \in DOMAIN devices :
                  IF k > p THEN devices[k] \notin ToSet(e.seen)
                  ELSE devices[k] \in e.must => devices[k] \in ToSet(e.seen)
    BY <1>5, <1>7
  <2> HIDE DEF e
  <2>3. DOMAIN devices = 1..Len(devices) /\ Len(devices) \in Nat /\ devices \in Seq(Adapters)
    BY <1>2 DEF OnceListed
  <2>4. i \in p + 1..Len(devices) /\ i \in DOMAIN devices /\ x \in Adapters /\ x \in ToSet(devices)
    BY <1>7, <2>2, <2>3 DEF ToSet
  <2>5. x \notin ToSet(e.seen) /\ x # "none"
    BY <2>2, <2>3, <2>4, InputConstants
  <2> DEFINE seen == Append(e.seen, x)
  <2>6. /\ seen \in Seq(Adapters) /\ Len(seen) = Len(e.seen) + 1
        /\ \A k \in 1..Len(e.seen) : seen[k] = e.seen[k]
        /\ seen[Len(e.seen) + 1] = x
        /\ ToSet(seen) = ToSet(e.seen) \cup {x}
    BY <1>3, <2>4, AppendIs
  <2>7. DOMAIN e.seen = 1..Len(e.seen) /\ Len(e.seen) \in Nat
    BY <1>3
  <2> HIDE DEF seen, x
  <2>8. \A k, l \in DOMAIN seen : seen[k] = seen[l] => k = l
    <3>1. DOMAIN seen = 1..Len(e.seen) + 1
      BY <2>6, <2>7
    <3>2. \A k \in 1..Len(e.seen) : seen[k] # x
      BY <2>5, <2>6, <2>7 DEF ToSet
    <3> TAKE k, l \in DOMAIN seen
    <3>3. k \in 1..Len(e.seen) \/ k = Len(e.seen) + 1
      BY <2>7, <3>1
    <3>4. l \in 1..Len(e.seen) \/ l = Len(e.seen) + 1
      BY <2>7, <3>1
    <3>5. CASE k \in 1..Len(e.seen) /\ l \in 1..Len(e.seen)
      BY <1>3, <2>6, <2>7, <3>5
    <3> QED
      BY <2>6, <3>2, <3>3, <3>4, <3>5
  <2>9. \A k \in DOMAIN devices :
           IF k > i THEN devices[k] \notin ToSet(seen)
           ELSE devices[k] \in e.must => devices[k] \in ToSet(seen)
    <3> TAKE k \in DOMAIN devices
    <3>1. CASE k > i
      <4>1. devices[k] # x
        BY <1>2, <2>4, <3>1 DEF OnceListed, x
      <4>2. k > p
        BY <2>3, <2>4, <3>1
      <4> QED
        BY <2>2, <2>6, <3>1, <4>1, <4>2
    <3>2. CASE k <= p
      <4>1. ~(k > i)
        BY <2>3, <2>4, <3>2
      <4>2. devices[k] \in e.must => devices[k] \in ToSet(e.seen)
        BY <2>2, <2>3, <3>2
      <4> QED
        BY <2>6, <4>1, <4>2
    <3>3. CASE p < k /\ k < i
      <4>1. k \notin LiveBehind(e.prev)
        BY <1>7, <2>3, <2>4, <3>3
      <4>2. devices[k] \notin e.must
        BY <1>3, <2>2, <2>3, <3>3, <4>1
      <4> QED
        BY <2>3, <2>4, <3>3, <4>2
    <3>4. CASE k = i
      BY <2>6, <3>4 DEF x
    <3> QED
      BY <2>3, <2>4, <3>1, <3>2, <3>3, <3>4
  <2>10. \A q \in DOMAIN devices : devices[q] = x => q = i
    BY <1>2, <2>4 DEF OnceListed, x
  <2>11. /\ cl'[c].enum.prev \in ToSet(devices') /\ cl'[c].enum.prev # "none"
         /\ \A q \in DOMAIN devices' : devices'[q] = cl'[c].enum.prev =>
               \A k \in DOMAIN devices' :
                  IF k > q THEN devices'[k] \notin ToSet(cl'[c].enum.seen)
                  ELSE devices'[k] \in cl'[c].enum.must => devices'[k] \in ToSet(cl'[c].enum.seen)
    BY <1>1, <2>1, <2>4, <2>5, <2>9, <2>10 DEF seen
  <2>12. /\ ToSet(cl'[c].enum.seen) \subseteq ToSet(devices') \cup gone'
         /\ cl'[c].enum.must \subseteq live'
         /\ cl'[c].enum.over => cl'[c].enum.must \subseteq ToSet(cl'[c].enum.seen)
    BY <1>1, <1>3, <2>1, <2>4, <2>6 DEF seen
  <2>14. /\ DOMAIN cl'[c].enum = EnumFields /\ cl'[c].enum.seen \in Seq(Adapters)
         /\ \A k, l \in DOMAIN cl'[c].enum.seen : cl'[c].enum.seen[k] = cl'[c].enum.seen[l] => k = l
    BY <2>1, <2>6, <2>8 DEF seen
  <2>13. Walked(c)'
    BY <2>1, <2>11, <2>12, <2>14 DEF Walked, Reached
  <2> QED
    BY <1>1, <2>1, <2>13, WalkersApart
<1> QED
  BY <1>4, <1>6, <1>7 DEF EnumDevices
(***************************************************************************)
(* What Plug and Play does to a list: those behind a place are still       *)
(* behind it, newcomers are at the end, and who leaves is named no more.   *)
(***************************************************************************)
ListMoves ==
    /\ devices' \in Seq(Adapters)
    /\ \A i, j \in DOMAIN devices' : devices'[i] = devices'[j] => i = j
    /\ \A a \in ToSet(devices) \cup gone : a \in ToSet(devices') \cup gone'
    /\ \A i, j \in DOMAIN devices' : i < j /\ devices'[j] \in ToSet(devices) =>
          \E k, l \in DOMAIN devices :
             k < l /\ devices[k] = devices'[i] /\ devices[l] = devices'[j]
    /\ \A a \in ToSet(devices') \ ToSet(devices) : a \notin gone
    /\ gone \subseteq gone' /\ \A a \in gone' : a \notin ToSet(devices')
    /\ live' \subseteq ToSet(devices')

(* The clients stay where they are; who stops or leaves was not live all the while. *)
Waiting ==
    \A c \in Clients :
        /\ cl'[c].at = cl[c].at /\ cl'[c].on = cl[c].on /\ DOMAIN cl'[c].enum = DOMAIN cl[c].enum
        /\ cl'[c].enum.prev = cl[c].enum.prev /\ cl'[c].enum.seen = cl[c].enum.seen
        /\ cl'[c].enum.over = cl[c].enum.over
        /\ cl'[c].enum.must \subseteq cl[c].enum.must /\ cl'[c].enum.must \subseteq live'

LEMMA WaitersWalk ==
    ASSUME EnumInv, ListMoves, Waiting
    PROVE  EnumInv'
<1>1. OnceListed'
  BY DEF ListMoves, OnceListed
<1>2. ASSUME NEW c \in Clients PROVE Walked(c)'
  <2> DEFINE e == cl[c].enum
             f == cl'[c].enum
  <2>1. /\ cl'[c].at = cl[c].at /\ cl'[c].on = cl[c].on /\ DOMAIN f = DOMAIN e
        /\ f.prev = e.prev /\ f.seen = e.seen /\ f.over = e.over
        /\ f.must \subseteq e.must /\ f.must \subseteq live'
    BY DEF Waiting
  <2>2. /\ DOMAIN e = EnumFields /\ e.seen \in Seq(Adapters)
        /\ \A i, j \in DOMAIN e.seen : e.seen[i] = e.seen[j] => i = j
        /\ e.over => e.must \subseteq ToSet(e.seen)
        /\ cl[c].at = "enum" =>
              cl[c].on = "none" /\ Reached(e) /\ ToSet(e.seen) \subseteq ToSet(devices) \cup gone
    BY DEF EnumInv, Walked
  <2>3. devices \in Seq(Adapters) /\ DOMAIN devices \subseteq Nat /\ DOMAIN devices' \subseteq Nat
    BY DEF EnumInv, OnceListed, ListMoves
  <2> HIDE DEF e, f
  <2>4. ASSUME cl[c].at = "enum"
        PROVE  ToSet(f.seen) \subseteq ToSet(devices') \cup gone'
    BY <2>1, <2>2, <2>4 DEF ListMoves
  <2>5. ASSUME cl[c].at = "enum", e.prev # "none"
        PROVE  /\ e.prev \in ToSet(devices') \cup gone'
               /\ \A p \in DOMAIN devices' : devices'[p] = e.prev =>
                     \A i \in DOMAIN devices' :
                        IF i > p THEN devices'[i] \notin ToSet(e.seen)
                        ELSE devices'[i] \in f.must => devices'[i] \in ToSet(e.seen)
    <3>1. /\ e.prev \in ToSet(devices) \cup gone
          /\ \A p \in DOMAIN devices : devices[p] = e.prev =>
                \A i \in DOMAIN devices :
                   IF i > p THEN devices[i] \notin ToSet(e.seen)
                   ELSE devices[i] \in e.must => devices[i] \in ToSet(e.seen)
      BY <2>2, <2>5 DEF Reached
    <3>2. e.prev \in ToSet(devices') \cup gone'
      BY <3>1 DEF ListMoves
    <3>3. ASSUME NEW p \in DOMAIN devices', devices'[p] = e.prev, NEW i \in DOMAIN devices', i > p
          PROVE  devices'[i] \notin ToSet(e.seen)
      <4>1. CASE devices'[i] \in ToSet(devices)
        <5>1. PICK k, l \in DOMAIN devices : k < l /\ devices[k] = devices'[p] /\ devices[l] = devices'[i]
          BY <2>3, <3>3, <4>1 DEF ListMoves
        <5> QED
          BY <2>3, <3>1, <3>3, <5>1
      <4>2. CASE devices'[i] \notin ToSet(devices)
        <5>1. devices'[i] \in ToSet(devices')
          BY DEF ToSet
        <5> QED
          BY <2>2, <2>5, <4>2, <5>1 DEF ListMoves
      <4> QED
        BY <4>1, <4>2
    <3>4. ASSUME NEW p \in DOMAIN devices', devices'[p] = e.prev, NEW i \in DOMAIN devices', ~(i > p),
                 devices'[i] \in f.must
          PROVE  devices'[i] \in ToSet(e.seen)
      <4>1. devices'[i] \in e.must /\ e.must \subseteq live /\ live \subseteq ToSet(devices)
        BY <2>1, <3>4 DEF EnumInv, Walked, OnceListed, e
      <4>2. e.prev \in ToSet(devices)
        BY <3>1, <3>4 DEF ListMoves, ToSet
      <4>3. CASE i = p
        <5>1. PICK k \in DOMAIN devices : devices[k] = e.prev
          BY <4>2 DEF ToSet
        <5> QED
          BY <2>3, <3>1, <3>4, <4>1, <4>3, <5>1
      <4>4. CASE i < p
        <5>1. PICK k, l \in DOMAIN devices : k < l /\ devices[k] = devices'[i] /\ devices[l] = devices'[p]
          BY <3>4, <4>2, <4>4 DEF ListMoves
        <5> QED
          BY <2>3, <3>1, <3>4, <4>1, <5>1
      <4> QED
        BY <2>3, <3>4, <4>3, <4>4
    <3> QED
      BY <3>2, <3>3, <3>4
  <2>6. /\ DOMAIN f = EnumFields /\ f.seen \in Seq(Adapters)
        /\ \A i, j \in DOMAIN f.seen : f.seen[i] = f.seen[j] => i = j
        /\ f.must \subseteq live' /\ (f.over => f.must \subseteq ToSet(f.seen))
    BY <2>1, <2>2
  <2>7. cl'[c].at = "enum" => (f.prev = "none" => f.seen = <<>>) /\ cl'[c].on = "none"
    BY <2>1, <2>2 DEF Reached
  <2>8. cl'[c].at = "enum" =>
           (IF f.prev = "none" THEN f.seen = <<>>
            ELSE /\ f.prev \in ToSet(devices') \cup gone'
                 /\ \A p \in DOMAIN devices' : devices'[p] = f.prev =>
                       \A i \in DOMAIN devices' :
                          IF i > p THEN devices'[i] \notin ToSet(f.seen)
                          ELSE devices'[i] \in f.must => devices'[i] \in ToSet(f.seen))
    BY <2>1, <2>5, <2>7
  <2> QED
    BY <2>1, <2>4, <2>6, <2>7, <2>8 DEF Walked, Reached, f
<1> QED
  BY <1>1, <1>2 DEF EnumInv
LEMMA StillWalks ==
    ASSUME EnumInv, UNCHANGED <<devices, live, gone, cl>>
    PROVE  EnumInv'
<1>1. \A c \in Clients : Walked(c) => Walked(c)'
  BY DEF Walked, Reached
<1> QED
  BY <1>1 DEF EnumInv, OnceListed

LEMMA AddWalks ==
    ASSUME AddressReused = FALSE, Based, EnumInv, NEW a \in Adapters, AddDevice(a)
    PROVE  EnumInv'
<1>1. /\ devices' = Append(devices, a) /\ a \notin ToSet(devices) \cup gone
      /\ UNCHANGED <<cl, live, gone>>
  BY DEF AddDevice
<1>2. devices \in Seq(Adapters) /\ DOMAIN devices = 1..Len(devices) /\ Len(devices) \in Nat
  BY DEF Based
<1>3. /\ devices' \in Seq(Adapters) /\ Len(devices') = Len(devices) + 1
      /\ \A i \in 1..Len(devices) : devices'[i] = devices[i]
      /\ devices'[Len(devices) + 1] = a
      /\ ToSet(devices') = ToSet(devices) \cup {a}
  BY <1>1, <1>2, AppendIs
<1>4. /\ DOMAIN devices' = 1..Len(devices) + 1
      /\ \A i \in 1..Len(devices) : devices[i] \in ToSet(devices) /\ devices[i] # a
  BY <1>1, <1>2, <1>3 DEF ToSet
<1>5. ASSUME NEW i \in DOMAIN devices' PROVE i \in 1..Len(devices) \/ i = Len(devices) + 1
  BY <1>2, <1>4
<1>6. ASSUME NEW i \in DOMAIN devices', NEW j \in DOMAIN devices', devices'[i] = devices'[j]
      PROVE  i = j
  <2>1. CASE i \in 1..Len(devices) /\ j \in 1..Len(devices)
    BY <1>2, <1>3, <1>6, <2>1 DEF EnumInv, OnceListed
  <2> QED
    BY <1>3, <1>4, <1>5, <1>6, <2>1
<1>7. ASSUME NEW i \in DOMAIN devices', NEW j \in DOMAIN devices', i < j, devices'[j] \in ToSet(devices)
      PROVE  \E k, l \in DOMAIN devices : k < l /\ devices[k] = devices'[i] /\ devices[l] = devices'[j]
  <2>1. j # Len(devices) + 1
    BY <1>1, <1>3, <1>7
  <2>2. i \in 1..Len(devices) /\ j \in 1..Len(devices)
    BY <1>2, <1>4, <1>7, <2>1
  <2> QED
    BY <1>2, <1>3, <1>7, <2>2
<1>8. ListMoves
  BY <1>1, <1>3, <1>6, <1>7 DEF ListMoves, EnumInv, OnceListed
<1>9. Waiting
  BY <1>1 DEF Waiting, EnumInv, Walked
<1> QED
  BY <1>8, <1>9, WaitersWalk

LEMMA StartStopWalks ==
    ASSUME Based, EnumInv, NEW a \in Adapters, StartDevice(a) \/ StopDevice(a)
    PROVE  EnumInv'
<1>1. UNCHANGED <<devices, gone>> /\ live' \subseteq ToSet(devices)
  BY DEF StartDevice, StopDevice, history, EnumInv, OnceListed
<1>2. ListMoves
  BY <1>1 DEF ListMoves, EnumInv, OnceListed
<1>3. Waiting
  <2>1. CASE StartDevice(a)
    BY <2>1 DEF StartDevice, Waiting, EnumInv, Walked
  <2>2. CASE StopDevice(a)
    <3>1. NotContinuously(a) /\ live' = live \ {a}
      BY <2>2 DEF StopDevice
    <3> QED
      BY <3>1 DEF NotContinuously, Waiting, EnumInv, Walked, Based, ClientFields, EnumFields
  <2> QED
    BY <2>1, <2>2
<1> QED
  BY <1>2, <1>3, WaitersWalk

LEMMA RemoveWalks ==
    ASSUME Based, EnumInv, NEW a \in Adapters, RemoveDevice(a)
    PROVE  EnumInv'
<1>1. NotContinuously(a) /\ live' = live \ {a} /\ gone' = gone \cup {a}
  BY DEF RemoveDevice
<1>2. PICK q \in DOMAIN devices : devices[q] = a /\ devices' = RemoveAt(devices, q)
  BY DEF RemoveDevice
<1>3. /\ devices \in Seq(Adapters) /\ DOMAIN devices = 1..Len(devices) /\ Len(devices) \in Nat
      /\ \A i, j \in 1..Len(devices) : devices[i] = devices[j] => i = j
  BY DEF EnumInv, OnceListed
<1>4. /\ devices' \in Seq(Adapters) /\ Len(devices') = Len(devices) - 1
      /\ \A i \in 1..Len(devices) - 1 : devices'[i] = IF i < q THEN devices[i] ELSE devices[i + 1]
  <2>1. LET r == RemoveAt(devices, q) IN
        /\ r \in Seq(Adapters) /\ Len(r) = Len(devices) - 1
        /\ \A i \in 1..Len(devices) - 1 : r[i] = IF i < q THEN devices[i] ELSE devices[i + 1]
    <3>1. devices \in Seq(Adapters) /\ q \in 1..Len(devices)
      BY <1>2, <1>3
    <3> QED
      BY <3>1, WithoutOne, Zenon
  <2> DEFINE r == RemoveAt(devices, q)
  <2> HIDE DEF r
  <2>2. devices' = r
    BY <1>2 DEF r
  <2> QED
    BY <2>1, <2>2 DEF r
<1> DEFINE was(i) == IF i < q THEN i ELSE i + 1
<1>5. /\ DOMAIN devices' = 1..Len(devices) - 1
      /\ \A i \in DOMAIN devices' :
            was(i) \in 1..Len(devices) /\ was(i) # q /\ devices'[i] = devices[was(i)]
      /\ \A i, j \in DOMAIN devices' : (i < j => was(i) < was(j)) /\ (was(i) = was(j) => i = j)
  BY <1>2, <1>3, <1>4
<1> HIDE DEF was
<1>6. \A i, j \in DOMAIN devices' : devices'[i] = devices'[j] => i = j
  BY <1>3, <1>5
<1>7. \A i, j \in DOMAIN devices' : i < j =>
         \E k, l \in DOMAIN devices : k < l /\ devices[k] = devices'[i] /\ devices[l] = devices'[j]
  BY <1>3, <1>5
<1>8. ToSet(devices') = ToSet(devices) \ {a}
  <2>1. ASSUME NEW i \in DOMAIN devices' PROVE devices'[i] \in ToSet(devices) \ {a}
    BY <1>2, <1>3, <1>5, <2>1 DEF ToSet
  <2>2. ASSUME NEW k \in DOMAIN devices, k # q PROVE devices[k] \in ToSet(devices')
    <3>1. \E i \in 1..Len(devices) - 1 : devices'[i] = devices[k]
      <4>1. CASE k < q
        <5>1. k \in 1..Len(devices) - 1 /\ devices'[k] = devices[k]
          BY <1>2, <1>3, <1>4, <4>1
        <5> QED
          BY <5>1
      <4>2. CASE k > q
        <5>1. k - 1 \in 1..Len(devices) - 1 /\ ~(k - 1 < q) /\ (k - 1) + 1 = k
          BY <1>2, <1>3, <4>2
        <5>2. devices'[k - 1] = devices[k]
          BY <1>4, <5>1
        <5> QED
          BY <5>1, <5>2
      <4> QED
        BY <1>2, <1>3, <2>2, <4>1, <4>2
    <3> QED
      BY <1>5, <3>1 DEF ToSet
  <2> QED
    BY <1>2, <2>1, <2>2 DEF ToSet
<1>9. ListMoves
  BY <1>1, <1>4, <1>6, <1>7, <1>8 DEF ListMoves, EnumInv, OnceListed
<1>10. Waiting
  BY <1>1 DEF NotContinuously, Waiting, EnumInv, Walked, Based, ClientFields, EnumFields
<1> QED
  BY <1>9, <1>10, WaitersWalk

LEMMA InitEnumInv == InputInit => EnumInv
<1> SUFFICES ASSUME InputInit PROVE EnumInv
  OBVIOUS
<1>1. devices \in Seq(Adapters) /\ \A i, j \in DOMAIN devices : devices[i] = devices[j] => i = j
  BY InputConstants DEF InputInit, IsInjective
<1>2. OnceListed
  BY <1>1 DEF InputInit, OnceListed
<1>3. <<>> \in Seq(Adapters) /\ DOMAIN <<>> = {}
  OBVIOUS
<1>4. /\ DOMAIN Resting.enum = EnumFields /\ Resting.enum.seen = <<>> /\ Resting.at = "idle"
      /\ Resting.enum.must = {} /\ Resting.enum.over = FALSE
  BY DEF Resting, EnumFields
<1>5. \A c \in Clients : cl[c] = Resting
  BY DEF InputInit
<1> QED
  BY <1>2, <1>3, <1>4, <1>5 DEF EnumInv, Walked

LEMMA NextKeepsEnumInv ==
    ASSUME AddressReused = FALSE, InputInv, EnumInv, [InputNext]_inputVars
    PROVE  EnumInv'
<1> USE DEF InputInv
<1>1. CASE UNCHANGED inputVars
  BY <1>1, StillWalks DEF inputVars, history
<1>2. ASSUME NEW c \in Clients, Client(c) PROVE EnumInv'
  BY <1>2, ClientWalks, StartWalks, EnumWalks
<1>3. ASSUME NEW a \in Adapters, Packet(a) \/ Pack(a) \/ ScriptTimer(a) \/ ProbeEnds(a) PROVE EnumInv'
  BY <1>3, StillWalks DEF Packet, Pack, ScriptTimer, ProbeEnds, history
<1>4. ASSUME NEW a \in Adapters, AddDevice(a) \/ StartDevice(a) \/ StopDevice(a) \/ RemoveDevice(a)
      PROVE EnumInv'
  BY <1>4, AddWalks, StartStopWalks, RemoveWalks
<1> QED
  BY <1>1, <1>2, <1>3, <1>4 DEF InputNext

(***************************************************************************)
(* As long as no adapter registers at the address of one that has left, an *)
(* enumeration with function 0x821 that reaches the end has named every    *)
(* adapter that was live all the while, and none twice, whoever comes,     *)
(* goes and stops between its calls (AdaptoidControlDispatch).             *)
(***************************************************************************)
THEOREM EnumerationCompleteHolds ==
    ASSUME AddressReused = FALSE
    PROVE  InputSpec => []EnumerationComplete
<1>1. EnumInv /\ InputInv /\ [InputNext]_inputVars => EnumInv'
  BY NextKeepsEnumInv
<1>2. EnumInv => EnumerationComplete
  BY DEF EnumInv, Walked, EnumerationComplete
<1> QED
  BY <1>1, <1>2, InitEnumInv, InputInvariant, PTL DEF InputSpec
================================================================================

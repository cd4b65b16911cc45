------------------------------ MODULE ReadService ------------------------------
(***************************************************************************)
(* What the report path of an adapter promises hidclass, with no list, no  *)
(* lock and no cancel routine in it.  Every read is answered once: with a  *)
(* report nobody else got, or with a failure, and that only if it was      *)
(* cancelled or the device is leaving.  Every report emitted is given to a *)
(* read, or waits in a bounded queue that is served oldest first, or is    *)
(* dropped because that queue is full.                                     *)
(***************************************************************************)
EXTENDS Naturals, Sequences

CONSTANTS Reads,
          QueueMax,
          MaxReports        \* bound: reports emitted in a behaviour

VARIABLES read,             \* each read: "out", "served" (a report is its own) or "done"
          waiting,          \* the reports that wait for a read, oldest first
          hand,             \* the reports on their way to a read or to the queue
          given,            \* the reports that reads were served with, in that order
          dropped,
          emitted,
          cancelled,        \* the reads hidclass wants back
          device            \* "there", "leaving" or "gone"

reports == <<waiting, hand, given, dropped, emitted>>
serviceVars == <<read, reports, cancelled, device>>

ServiceInit ==
    /\ read = [r \in Reads |-> "out"]
    /\ waiting = <<>> /\ hand = {} /\ given = <<>> /\ dropped = {} /\ emitted = 0
    /\ cancelled = {}
    /\ device = "there"

ReadGoes(r, from, to) == read[r] = from /\ read' = [read EXCEPT ![r] = to]

Emit ==
    /\ device # "gone"
    /\ emitted < MaxReports
    /\ emitted' = emitted + 1
    /\ hand' = hand \cup {emitted + 1}
    /\ UNCHANGED <<read, waiting, given, dropped, cancelled, device>>

Serve(r, n) ==
    /\ ReadGoes(r, "out", "served")
    /\ hand' = hand \ {n}
    /\ given' = Append(given, n)
    /\ UNCHANGED <<waiting, dropped, emitted, cancelled, device>>

ServeOldest(r) ==
    /\ waiting # <<>>
    /\ ReadGoes(r, "out", "served")
    /\ given' = Append(given, Head(waiting))
    /\ waiting' = Tail(waiting)
    /\ UNCHANGED <<hand, dropped, emitted, cancelled, device>>

Wait(n) ==
    /\ Len(waiting) < QueueMax
    /\ waiting' = Append(waiting, n)
    /\ hand' = hand \ {n}
    /\ UNCHANGED <<read, given, dropped, emitted, cancelled, device>>

Drop(n) ==
    /\ Len(waiting) >= QueueMax
    /\ dropped' = dropped \cup {n}
    /\ hand' = hand \ {n}
    /\ UNCHANGED <<read, waiting, given, emitted, cancelled, device>>

Answer(r) ==
    /\ ReadGoes(r, "served", "done")
    /\ UNCHANGED <<reports, cancelled, device>>

Fail(r) ==
    /\ r \in cancelled \/ device # "there"
    /\ ReadGoes(r, "out", "done")
    /\ UNCHANGED <<reports, cancelled, device>>

Cancel(r) ==
    /\ read[r] # "done" /\ r \notin cancelled
    /\ cancelled' = cancelled \cup {r}
    /\ UNCHANGED <<read, reports, device>>

Leave ==
    /\ device = "there"
    /\ device' = "leaving"
    /\ UNCHANGED <<read, reports, cancelled>>

(***************************************************************************)
(* The device is gone when nothing is on its way any more.                 *)
(***************************************************************************)
Close ==
    /\ device = "leaving" /\ hand = {}
    /\ device' = "gone"
    /\ UNCHANGED <<read, reports, cancelled>>

ServiceNext ==
    \/ Emit \/ Leave \/ Close
    \/ \E r \in Reads : ServeOldest(r) \/ Answer(r) \/ Fail(r) \/ Cancel(r)
    \/ \E n \in hand : Wait(n) \/ Drop(n) \/ \E r \in Reads : Serve(r, n)

ServiceSpec == ServiceInit /\ [][ServiceNext]_serviceVars
================================================================================

-------------------------- MODULE DeviceLifecycleProof --------------------------
(***************************************************************************)
(* Proofs about DeviceLifecycle for any topology, bound and number of      *)
(* refused power requests.  PnP requests come one at a time, so the step   *)
(* one is at says what the extension is like there (PnpInv); everything    *)
(* else that is under way holds RemoveLockB (HoldInv), or is the poll read *)
(* on the bus, in its completion or in the hands of a thread (ReadInv),    *)
(* and a removal waits for both before it frees.                           *)
(*                                                                         *)
(* The name of a listed device is right for any topology, of any depth     *)
(* and number of ports: what the recursion of FindOnHub finds is a trail   *)
(* of ports that starts at the root hub and spells the name (FoundLeads),  *)
(* every trail that fits is found (TrailFound), and following a name is    *)
(* following trails (TrailFollowed, ReachedByTrail).  The induction over   *)
(* the depth is on the least member of a set of numbers (StepByStep).      *)
(***************************************************************************)
EXTENDS DeviceLifecycle, SequenceTheorems, WellFoundedInduction, TLAPS

Blocks == {"PollWorkItem", "InterfaceName", "ConfigDescriptor", "InterfaceInfo"}
Fetched == {"ConfigDescriptor", "InterfaceInfo"}
Fields ==
    {"Started", "Removing", "RemovePending", "StopPending", "ConfigurationHandle",
     "InterruptPipe", "ptr", "interface", "Registration", "Topology", "UsbAddress",
     "device_name", "PollStopMask", "Active", "read", "DevicePowerState",
     "WakeIdleDeviceState", "WaitWakePending", "PowerRequestInProgress",
     "PendingSystemPowerIrp"}
Reads == {"none", "out", "passed", "failed"} \cup Threads

Steps ==
    {"start_down", "descriptor", "configure", "started", "address", "name", "poll",
     "publish", "start_answer", "stop_pnp", "quiesce", "unconfigure", "stopped",
     "stop_down", "drain_A", "unregister", "stop_remove", "abort", "remove_down",
     "close_B", "drain_B", "unwire", "free", "stop_power", "power_down", "power_answer"}

PowerPlaces ==
    {"none", "requested", "prepared", "going_down", "coming_up", "came_up", "complete"}

Managed == {"absent", "new", "starting", "running", "stop_asked", "remove_asked",
            "stopping", "stopped", "failed", "surprised", "removing"}

(* The types as far as the argument needs them. *)
Types ==
    /\ DOMAIN dx = Fields /\ dx.ptr \subseteq Blocks /\ dx.read \in Reads
    /\ DOMAIN os = {"mgr", "bus", "present"} /\ os.mgr \in Managed
    /\ todo \in [Threads -> Seq(Steps)]
    /\ DOMAIN A = {"holders", "closed"} /\ DOMAIN B = {"holders", "closed"}
    /\ DOMAIN irp = {"device", "system", "wake"} /\ DOMAIN irp.device = {"at", "state"}
    /\ irp.device.at \in PowerPlaces
    /\ DOMAIN count = {"starts", "queries", "transitions", "refusals", "hid"}
    /\ count.starts \in Nat

--------------------------------------------------------------------------------
(* Where a request is: what is left of it. *)

Rest(steps, k) == SubSeq(steps, k, Len(steps))
Ending(steps) == <<steps[Len(steps)]>>

StartSteps == <<"start_down", "descriptor", "configure", "started", "address", "name",
                "poll", "publish", "start_answer">>
StopSteps == <<"stop_pnp", "quiesce", "unconfigure", "stopped", "stop_down">>
RemoveSteps == <<"drain_A", "unregister", "stop_remove", "quiesce", "abort", "remove_down",
                 "close_B", "drain_B", "unwire", "free">>
DeviceSteps == <<"stop_power", "quiesce", "power_down", "power_answer">>

Starting(k) ==
    /\ todo["pnp"] = Rest(StartSteps, k)
    /\ count.starts > 0
    /\ count.starts = 1 /\ k \in 1..2 => "ConfigDescriptor" \notin dx.ptr
    /\ count.starts = 1 /\ k \in 1..3 => "InterfaceInfo" \notin dx.ptr

Stopping(k) == todo["pnp"] = Rest(StopSteps, k)

Removing(k) ==
    /\ todo["pnp"] = Rest(RemoveSteps, k)
    /\ A.closed
    /\ k >= 2 => A.holders = {}
    /\ k >= 7 => os.bus = "removed"
    /\ k >= 8 => B.closed
    /\ k >= 9 => B.holders = {}
    /\ k >= 10 => dx.read = "none" /\ dx.ptr \subseteq Fetched
    /\ k = 11 => dx.ptr = {}
    /\ k = 11 <=> phase = "freed"

PnpInv ==
    /\ todo["pnp"] # <<>> => os.mgr \in {"starting", "stopping", "removing"}
    /\ os.mgr = "starting" => \E k \in 1..9 : Starting(k)
    /\ os.mgr = "stopping" => \E k \in 1..5 : Stopping(k)
    /\ os.mgr = "removing" => \E k \in 1..11 : Removing(k)
    /\ os.mgr # "absent" => phase \in {"added", "freed"}
    /\ phase = "freed" => os.mgr = "removing"
    /\ phase = "added" => os.mgr # "absent"

(* A thread that is to submit the read is where it can, and the bus that   *)
(* was told of the removal has none.                                       *)
ReadInv ==
    /\ dx.read # "none" => phase = "added"
    /\ dx.read = "pnp" => todo["pnp"] # <<>> /\ Head(todo["pnp"]) = "publish"
    /\ dx.read = "device" => irp.device.at = "came_up"
    /\ os.bus = "removed" => dx.read # "out"

(* What is under way besides the PnP request holds RemoveLockB. *)
Descending(k) ==
    /\ todo["device"] = Rest(DeviceSteps, k)
    /\ k <= 3 <=> irp.device.at = "prepared"
    /\ k <= 4 => phase = "added" /\ "device" \in B.holders
    /\ irp.device.at \in {"requested", "coming_up", "came_up"} => k = 5

HoldInv ==
    /\ irp.device.at # "none" => phase = "added" /\ "system" \in B.holders
    /\ irp.wake \in {"pending", "woken"} => phase = "added" /\ "wake" \in B.holders
    /\ \E k \in 1..5 : Descending(k)
    /\ A.holders # {} => phase = "added"

LostInv ==
    /\ count.starts = 0 => dx.ptr \cap Fetched = {}
    /\ phase = "absent" => count.starts = 0
    /\ count.starts <= 1 /\ phase # "refused" => lost = {}

Kept == PnpInv /\ HoldInv /\ LostInv
Inv == Types /\ Kept /\ ReadInv /\ ~misuse

--------------------------------------------------------------------------------
(* Programs and what is left of them *)

LEMMA RestProperties ==
    ASSUME NEW p \in Seq(Steps), NEW k \in 1..(Len(p) + 1)
    PROVE  /\ Rest(p, k) \in Seq(Steps)
           /\ Rest(p, 1) = p
           /\ Rest(p, k) = <<>> <=> k = Len(p) + 1
           /\ k <= Len(p) => /\ Head(Rest(p, k)) = p[k]
                             /\ Tail(Rest(p, k)) = Rest(p, k + 1)
                             /\ Ending(Rest(p, k)) = Rest(p, Len(p))
<1> DEFINE r == Rest(p, k)
<1>1. /\ r \in Seq(Steps)
      /\ Len(r) = Len(p) + 1 - k
      /\ \A i \in 1..(Len(p) + 1 - k) : r[i] = p[k + i - 1]
  BY SubSeqProperties DEF Rest
<1>2. Rest(p, 1) = p
  BY SubSeqProperties, SeqEqual DEF Rest
<1>3. r = <<>> <=> k = Len(p) + 1
  BY <1>1, EmptySeq
<1>4. ASSUME k <= Len(p)
      PROVE  Head(r) = p[k] /\ Tail(r) = Rest(p, k + 1) /\ Ending(r) = Rest(p, Len(p))
  <2>1. Head(r) = p[k]
    BY <1>1, <1>4
  <2>2. /\ Tail(r) \in Seq(Steps)
        /\ Len(Tail(r)) = Len(p) - k
        /\ \A i \in 1..(Len(p) - k) : Tail(r)[i] = p[k + i]
    BY <1>1, <1>4, HeadTailProperties
  <2>3. /\ Rest(p, k + 1) \in Seq(Steps)
        /\ Len(Rest(p, k + 1)) = Len(p) - k
        /\ \A i \in 1..(Len(p) - k) : Rest(p, k + 1)[i] = p[k + i]
    BY <1>4, SubSeqProperties DEF Rest
  <2>4. Tail(r) = Rest(p, k + 1)
    BY <2>2, <2>3, SeqEqual
  <2>5. r[Len(r)] = p[Len(p)] /\ p[Len(p)] \in Steps
    BY <1>1, <1>4
  <2>6. /\ Rest(p, Len(p)) \in Seq(Steps)
        /\ Len(Rest(p, Len(p))) = 1
        /\ Rest(p, Len(p))[1] = p[Len(p)]
    BY <1>4, SubSeqProperties DEF Rest
  <2>7. Ending(r) = Rest(p, Len(p))
    BY <2>5, <2>6, SeqEqual DEF Ending
  <2> QED
    BY <2>1, <2>4, <2>7
<1> QED
  BY <1>1, <1>2, <1>3, <1>4

LEMMA Programs ==
    /\ StartSteps \in Seq(Steps) /\ Len(StartSteps) = 9
    /\ StopSteps \in Seq(Steps) /\ Len(StopSteps) = 5
    /\ RemoveSteps \in Seq(Steps) /\ Len(RemoveSteps) = 10
    /\ DeviceSteps \in Seq(Steps) /\ Len(DeviceSteps) = 4
<1>1. StartSteps \in Seq(Steps) /\ Len(StartSteps) = 9
  BY DEF StartSteps, Steps
<1>2. StopSteps \in Seq(Steps) /\ Len(StopSteps) = 5
  BY DEF StopSteps, Steps
<1>3. RemoveSteps \in Seq(Steps) /\ Len(RemoveSteps) = 10
  BY DEF RemoveSteps, Steps
<1>4. DeviceSteps \in Seq(Steps) /\ Len(DeviceSteps) = 4
  BY DEF DeviceSteps, Steps
<1> QED
  BY <1>1, <1>2, <1>3, <1>4

(* What RestProperties says of each program. *)
LEMMA ProgramRests ==
    /\ \A k \in 1..10 :
          /\ Rest(StartSteps, 1) = StartSteps
          /\ Rest(StartSteps, k) = <<>> <=> k = 10
          /\ k <= 9 => /\ Head(Rest(StartSteps, k)) = StartSteps[k]
                      /\ Tail(Rest(StartSteps, k)) = Rest(StartSteps, k + 1)
                      /\ Ending(Rest(StartSteps, k)) = Rest(StartSteps, 9)
    /\ \A k \in 1..6 :
          /\ Rest(StopSteps, 1) = StopSteps
          /\ Rest(StopSteps, k) = <<>> <=> k = 6
          /\ k <= 5 => /\ Head(Rest(StopSteps, k)) = StopSteps[k]
                      /\ Tail(Rest(StopSteps, k)) = Rest(StopSteps, k + 1)
                      /\ Ending(Rest(StopSteps, k)) = Rest(StopSteps, 5)
    /\ \A k \in 1..11 :
          /\ Rest(RemoveSteps, 1) = RemoveSteps
          /\ Rest(RemoveSteps, k) = <<>> <=> k = 11
          /\ k <= 10 => /\ Head(Rest(RemoveSteps, k)) = RemoveSteps[k]
                      /\ Tail(Rest(RemoveSteps, k)) = Rest(RemoveSteps, k + 1)
                      /\ Ending(Rest(RemoveSteps, k)) = Rest(RemoveSteps, 10)
    /\ \A k \in 1..5 :
          /\ Rest(DeviceSteps, 1) = DeviceSteps
          /\ Rest(DeviceSteps, k) = <<>> <=> k = 5
          /\ k <= 4 => /\ Head(Rest(DeviceSteps, k)) = DeviceSteps[k]
                      /\ Tail(Rest(DeviceSteps, k)) = Rest(DeviceSteps, k + 1)
                      /\ Ending(Rest(DeviceSteps, k)) = Rest(DeviceSteps, 4)
<1>1. \A p \in Seq(Steps) : \A k \in 1..(Len(p) + 1) :
          /\ Rest(p, 1) = p
          /\ Rest(p, k) = <<>> <=> k = Len(p) + 1
          /\ k <= Len(p) => /\ Head(Rest(p, k)) = p[k]
                            /\ Tail(Rest(p, k)) = Rest(p, k + 1)
                            /\ Ending(Rest(p, k)) = Rest(p, Len(p))
  BY RestProperties
<1>2. ASSUME NEW k \in 1..10
      PROVE  /\ Rest(StartSteps, 1) = StartSteps
             /\ Rest(StartSteps, k) = <<>> <=> k = 10
             /\ k <= 9 => /\ Head(Rest(StartSteps, k)) = StartSteps[k]
                         /\ Tail(Rest(StartSteps, k)) = Rest(StartSteps, k + 1)
                         /\ Ending(Rest(StartSteps, k)) = Rest(StartSteps, 9)
  <2>1. StartSteps \in Seq(Steps) /\ Len(StartSteps) = 9
    BY Programs
  <2>2. k \in 1..(Len(StartSteps) + 1)
    BY <2>1
  <2>3. /\ Rest(StartSteps, 1) = StartSteps
        /\ Rest(StartSteps, k) = <<>> <=> k = Len(StartSteps) + 1
        /\ k <= Len(StartSteps) => /\ Head(Rest(StartSteps, k)) = StartSteps[k]
                            /\ Tail(Rest(StartSteps, k)) = Rest(StartSteps, k + 1)
                            /\ Ending(Rest(StartSteps, k)) = Rest(StartSteps, Len(StartSteps))
    BY <1>1, <2>2, Programs, Zenon
  <2> QED
    BY <2>1, <2>3
<1>3. ASSUME NEW k \in 1..6
      PROVE  /\ Rest(StopSteps, 1) = StopSteps
             /\ Rest(StopSteps, k) = <<>> <=> k = 6
             /\ k <= 5 => /\ Head(Rest(StopSteps, k)) = StopSteps[k]
                         /\ Tail(Rest(StopSteps, k)) = Rest(StopSteps, k + 1)
                         /\ Ending(Rest(StopSteps, k)) = Rest(StopSteps, 5)
  <2>1. StopSteps \in Seq(Steps) /\ Len(StopSteps) = 5
    BY Programs
  <2>2. k \in 1..(Len(StopSteps) + 1)
    BY <2>1
  <2>3. /\ Rest(StopSteps, 1) = StopSteps
        /\ Rest(StopSteps, k) = <<>> <=> k = Len(StopSteps) + 1
        /\ k <= Len(StopSteps) => /\ Head(Rest(StopSteps, k)) = StopSteps[k]
                            /\ Tail(Rest(StopSteps, k)) = Rest(StopSteps, k + 1)
                            /\ Ending(Rest(StopSteps, k)) = Rest(StopSteps, Len(StopSteps))
    BY <1>1, <2>2, Programs, Zenon
  <2> QED
    BY <2>1, <2>3
<1>4. ASSUME NEW k \in 1..11
      PROVE  /\ Rest(RemoveSteps, 1) = RemoveSteps
             /\ Rest(RemoveSteps, k) = <<>> <=> k = 11
             /\ k <= 10 => /\ Head(Rest(RemoveSteps, k)) = RemoveSteps[k]
                         /\ Tail(Rest(RemoveSteps, k)) = Rest(RemoveSteps, k + 1)
                         /\ Ending(Rest(RemoveSteps, k)) = Rest(RemoveSteps, 10)
  <2>1. RemoveSteps \in Seq(Steps) /\ Len(RemoveSteps) = 10
    BY Programs
  <2>2. k \in 1..(Len(RemoveSteps) + 1)
    BY <2>1
  <2>3. /\ Rest(RemoveSteps, 1) = RemoveSteps
        /\ Rest(RemoveSteps, k) = <<>> <=> k = Len(RemoveSteps) + 1
        /\ k <= Len(RemoveSteps) => /\ Head(Rest(RemoveSteps, k)) = RemoveSteps[k]
                            /\ Tail(Rest(RemoveSteps, k)) = Rest(RemoveSteps, k + 1)
                            /\ Ending(Rest(RemoveSteps, k)) = Rest(RemoveSteps, Len(RemoveSteps))
    BY <1>1, <2>2, Programs, Zenon
  <2> QED
    BY <2>1, <2>3
<1>5. ASSUME NEW k \in 1..5
      PROVE  /\ Rest(DeviceSteps, 1) = DeviceSteps
             /\ Rest(DeviceSteps, k) = <<>> <=> k = 5
             /\ k <= 4 => /\ Head(Rest(DeviceSteps, k)) = DeviceSteps[k]
                         /\ Tail(Rest(DeviceSteps, k)) = Rest(DeviceSteps, k + 1)
                         /\ Ending(Rest(DeviceSteps, k)) = Rest(DeviceSteps, 4)
  <2>1. DeviceSteps \in Seq(Steps) /\ Len(DeviceSteps) = 4
    BY Programs
  <2>2. k \in 1..(Len(DeviceSteps) + 1)
    BY <2>1
  <2>3. /\ Rest(DeviceSteps, 1) = DeviceSteps
        /\ Rest(DeviceSteps, k) = <<>> <=> k = Len(DeviceSteps) + 1
        /\ k <= Len(DeviceSteps) => /\ Head(Rest(DeviceSteps, k)) = DeviceSteps[k]
                            /\ Tail(Rest(DeviceSteps, k)) = Rest(DeviceSteps, k + 1)
                            /\ Ending(Rest(DeviceSteps, k)) = Rest(DeviceSteps, Len(DeviceSteps))
    BY <1>1, <2>2, Programs, Zenon
  <2> QED
    BY <2>1, <2>3
<1> QED
  BY <1>2, <1>3, <1>4, <1>5

(* The programs, step by step. *)
LEMMA StepNames ==
    /\ \A k \in 1..9 :
          \/ k = 1 /\ StartSteps[k] = "start_down"
          \/ k = 2 /\ StartSteps[k] = "descriptor"
          \/ k = 3 /\ StartSteps[k] = "configure"
          \/ k = 4 /\ StartSteps[k] = "started"
          \/ k = 5 /\ StartSteps[k] = "address"
          \/ k = 6 /\ StartSteps[k] = "name"
          \/ k = 7 /\ StartSteps[k] = "poll"
          \/ k = 8 /\ StartSteps[k] = "publish"
          \/ k = 9 /\ StartSteps[k] = "start_answer"
    /\ \A k \in 1..5 :
          \/ k = 1 /\ StopSteps[k] = "stop_pnp"
          \/ k = 2 /\ StopSteps[k] = "quiesce"
          \/ k = 3 /\ StopSteps[k] = "unconfigure"
          \/ k = 4 /\ StopSteps[k] = "stopped"
          \/ k = 5 /\ StopSteps[k] = "stop_down"
    /\ \A k \in 1..10 :
          \/ k = 1 /\ RemoveSteps[k] = "drain_A"
          \/ k = 2 /\ RemoveSteps[k] = "unregister"
          \/ k = 3 /\ RemoveSteps[k] = "stop_remove"
          \/ k = 4 /\ RemoveSteps[k] = "quiesce"
          \/ k = 5 /\ RemoveSteps[k] = "abort"
          \/ k = 6 /\ RemoveSteps[k] = "remove_down"
          \/ k = 7 /\ RemoveSteps[k] = "close_B"
          \/ k = 8 /\ RemoveSteps[k] = "drain_B"
          \/ k = 9 /\ RemoveSteps[k] = "unwire"
          \/ k = 10 /\ RemoveSteps[k] = "free"
    /\ \A k \in 1..4 :
          \/ k = 1 /\ DeviceSteps[k] = "stop_power"
          \/ k = 2 /\ DeviceSteps[k] = "quiesce"
          \/ k = 3 /\ DeviceSteps[k] = "power_down"
          \/ k = 4 /\ DeviceSteps[k] = "power_answer"
<1>1. ASSUME NEW k \in 1..9
      PROVE
         \/ k = 1 /\ StartSteps[k] = "start_down"
         \/ k = 2 /\ StartSteps[k] = "descriptor"
         \/ k = 3 /\ StartSteps[k] = "configure"
         \/ k = 4 /\ StartSteps[k] = "started"
         \/ k = 5 /\ StartSteps[k] = "address"
         \/ k = 6 /\ StartSteps[k] = "name"
         \/ k = 7 /\ StartSteps[k] = "poll"
         \/ k = 8 /\ StartSteps[k] = "publish"
         \/ k = 9 /\ StartSteps[k] = "start_answer"
  <2>1. /\ StartSteps[1] = "start_down" /\ StartSteps[2] = "descriptor"
        /\ StartSteps[3] = "configure" /\ StartSteps[4] = "started"
        /\ StartSteps[5] = "address" /\ StartSteps[6] = "name" /\ StartSteps[7] = "poll"
        /\ StartSteps[8] = "publish" /\ StartSteps[9] = "start_answer"
    BY DEF StartSteps
  <2>2. \/ k = 1 \/ k = 2 \/ k = 3 \/ k = 4 \/ k = 5
        \/ k = 6 \/ k = 7 \/ k = 8 \/ k = 9
    OBVIOUS
  <2> QED
    BY <2>1, <2>2
<1>2. ASSUME NEW k \in 1..5
      PROVE
         \/ k = 1 /\ StopSteps[k] = "stop_pnp"
         \/ k = 2 /\ StopSteps[k] = "quiesce"
         \/ k = 3 /\ StopSteps[k] = "unconfigure"
         \/ k = 4 /\ StopSteps[k] = "stopped"
         \/ k = 5 /\ StopSteps[k] = "stop_down"
  <2>1. /\ StopSteps[1] = "stop_pnp" /\ StopSteps[2] = "quiesce"
        /\ StopSteps[3] = "unconfigure" /\ StopSteps[4] = "stopped"
        /\ StopSteps[5] = "stop_down"
    BY DEF StopSteps
  <2>2. \/ k = 1 \/ k = 2 \/ k = 3 \/ k = 4 \/ k = 5
    OBVIOUS
  <2> QED
    BY <2>1, <2>2
<1>3. ASSUME NEW k \in 1..10
      PROVE
         \/ k = 1 /\ RemoveSteps[k] = "drain_A"
         \/ k = 2 /\ RemoveSteps[k] = "unregister"
         \/ k = 3 /\ RemoveSteps[k] = "stop_remove"
         \/ k = 4 /\ RemoveSteps[k] = "quiesce"
         \/ k = 5 /\ RemoveSteps[k] = "abort"
         \/ k = 6 /\ RemoveSteps[k] = "remove_down"
         \/ k = 7 /\ RemoveSteps[k] = "close_B"
         \/ k = 8 /\ RemoveSteps[k] = "drain_B"
         \/ k = 9 /\ RemoveSteps[k] = "unwire"
         \/ k = 10 /\ RemoveSteps[k] = "free"
  <2>1. /\ RemoveSteps[1] = "drain_A" /\ RemoveSteps[2] = "unregister"
        /\ RemoveSteps[3] = "stop_remove" /\ RemoveSteps[4] = "quiesce"
        /\ RemoveSteps[5] = "abort" /\ RemoveSteps[6] = "remove_down"
        /\ RemoveSteps[7] = "close_B" /\ RemoveSteps[8] = "drain_B"
        /\ RemoveSteps[9] = "unwire" /\ RemoveSteps[10] = "free"
    BY DEF RemoveSteps
  <2>2. \/ k = 1 \/ k = 2 \/ k = 3 \/ k = 4 \/ k = 5
        \/ k = 6 \/ k = 7 \/ k = 8 \/ k = 9 \/ k = 10
    OBVIOUS
  <2> QED
    BY <2>1, <2>2
<1>4. ASSUME NEW k \in 1..4
      PROVE
         \/ k = 1 /\ DeviceSteps[k] = "stop_power"
         \/ k = 2 /\ DeviceSteps[k] = "quiesce"
         \/ k = 3 /\ DeviceSteps[k] = "power_down"
         \/ k = 4 /\ DeviceSteps[k] = "power_answer"
  <2>1. /\ DeviceSteps[1] = "stop_power" /\ DeviceSteps[2] = "quiesce"
        /\ DeviceSteps[3] = "power_down" /\ DeviceSteps[4] = "power_answer"
    BY DEF DeviceSteps
  <2>2. \/ k = 1 \/ k = 2 \/ k = 3 \/ k = 4
    OBVIOUS
  <2> QED
    BY <2>1, <2>2
<1> QED
  BY <1>1, <1>2, <1>3, <1>4

(***************************************************************************)
(* The step the PnP request is at, and what is left when it is done or     *)
(* fails.                                                                  *)
(***************************************************************************)
OnStart(k) ==
    /\ os.mgr = "starting" /\ Starting(k)
    /\ Tail(todo["pnp"]) = Rest(StartSteps, k + 1)
    /\ Ending(todo["pnp"]) = Rest(StartSteps, 9)
OnStop(k) ==
    /\ os.mgr = "stopping" /\ Stopping(k)
    /\ Tail(todo["pnp"]) = Rest(StopSteps, k + 1)
OnRemove(k) ==
    /\ os.mgr = "removing" /\ Removing(k)
    /\ Tail(todo["pnp"]) = Rest(RemoveSteps, k + 1)

LEMMA StepOfRequest ==
    ASSUME PnpInv, todo["pnp"] # <<>>
    PROVE  \/ \E k \in 1..9 : OnStart(k) /\ Head(todo["pnp"]) = StartSteps[k]
           \/ \E k \in 1..5 : OnStop(k) /\ Head(todo["pnp"]) = StopSteps[k]
           \/ \E k \in 1..10 : OnRemove(k) /\ Head(todo["pnp"]) = RemoveSteps[k]
<1>1. CASE os.mgr = "starting"
  <2>1. PICK k \in 1..9 : Starting(k)
    BY <1>1 DEF PnpInv
  <2>2. todo["pnp"] = Rest(StartSteps, k)
    BY <2>1 DEF Starting
  <2>3. /\ Head(todo["pnp"]) = StartSteps[k] /\ Tail(todo["pnp"]) = Rest(StartSteps, k + 1)
        /\ Ending(todo["pnp"]) = Rest(StartSteps, 9)
    <3>1. k \in 1..10 /\ k <= 9
      OBVIOUS
    <3>2. /\ Head(Rest(StartSteps, k)) = StartSteps[k] /\ Tail(Rest(StartSteps, k)) = Rest(StartSteps, k + 1)
          /\ Ending(Rest(StartSteps, k)) = Rest(StartSteps, 9)
      BY <3>1, ProgramRests
    <3> QED
      BY <2>2, <3>2, Zenon
  <2> QED
    BY <1>1, <2>1, <2>3 DEF OnStart
<1>2. CASE os.mgr = "stopping"
  <2>1. PICK k \in 1..5 : Stopping(k)
    BY <1>2 DEF PnpInv
  <2>2. todo["pnp"] = Rest(StopSteps, k)
    BY <2>1 DEF Stopping
  <2>3. /\ Head(todo["pnp"]) = StopSteps[k] /\ Tail(todo["pnp"]) = Rest(StopSteps, k + 1)
    <3>1. k \in 1..6 /\ k <= 5
      OBVIOUS
    <3> QED
      BY <2>2, <3>1, ProgramRests, Zenon
  <2> QED
    BY <1>2, <2>1, <2>3 DEF OnStop
<1>3. CASE os.mgr = "removing"
  <2>1. PICK k \in 1..11 : Removing(k)
    BY <1>3 DEF PnpInv
  <2>2. k # 11
    BY <2>1, ProgramRests DEF Removing
  <2>3. todo["pnp"] = Rest(RemoveSteps, k)
    BY <2>1 DEF Removing
  <2>4. /\ Head(todo["pnp"]) = RemoveSteps[k] /\ Tail(todo["pnp"]) = Rest(RemoveSteps, k + 1)
    <3>1. k \in 1..11 /\ k <= 10
      BY <2>2
    <3> QED
      BY <2>3, <3>1, ProgramRests, Zenon
  <2>5. k \in 1..10
    BY <2>2
  <2> QED
    BY <1>3, <2>1, <2>4, <2>5 DEF OnRemove
<1> QED
  BY <1>1, <1>2, <1>3 DEF PnpInv

LEMMA StepAt ==
    ASSUME PnpInv, todo["pnp"] # <<>>
    PROVE  \A s : s = Head(todo["pnp"]) =>
           /\ s = "start_down" => OnStart(1)
           /\ s = "descriptor" => OnStart(2)
           /\ s = "configure" => OnStart(3)
           /\ s = "started" => OnStart(4)
           /\ s = "address" => OnStart(5)
           /\ s = "name" => OnStart(6)
           /\ s = "poll" => OnStart(7)
           /\ s = "publish" => OnStart(8)
           /\ s = "start_answer" => OnStart(9)
           /\ s = "stop_pnp" => OnStop(1)
           /\ s = "quiesce" => OnStop(2) \/ OnRemove(4)
           /\ s = "unconfigure" => OnStop(3)
           /\ s = "stopped" => OnStop(4)
           /\ s = "stop_down" => OnStop(5)
           /\ s = "drain_A" => OnRemove(1)
           /\ s = "unregister" => OnRemove(2)
           /\ s = "stop_remove" => OnRemove(3)
           /\ s = "abort" => OnRemove(5)
           /\ s = "remove_down" => OnRemove(6)
           /\ s = "close_B" => OnRemove(7)
           /\ s = "drain_B" => OnRemove(8)
           /\ s = "unwire" => OnRemove(9)
           /\ s = "free" => OnRemove(10)
<1> TAKE s
<1> HAVE s = Head(todo["pnp"])
<1>1. CASE \E k \in 1..9 : OnStart(k) /\ s = StartSteps[k]
  BY <1>1, StepNames
<1>2. CASE \E k \in 1..5 : OnStop(k) /\ s = StopSteps[k]
  BY <1>2, StepNames
<1>3. CASE \E k \in 1..10 : OnRemove(k) /\ s = RemoveSteps[k]
  BY <1>3, StepNames
<1> QED
  BY <1>1, <1>2, <1>3, StepOfRequest

(* The same for the device power request. *)
OnDescent(k) == Descending(k) /\ Tail(todo["device"]) = Rest(DeviceSteps, k + 1)

LEMMA DescentAt ==
    ASSUME HoldInv, todo["device"] # <<>>
    PROVE  \A s : s = Head(todo["device"]) =>
           /\ \E k \in 1..4 : OnDescent(k)
           /\ s = "stop_power" => OnDescent(1)
           /\ s = "quiesce" => OnDescent(2)
           /\ s = "power_down" => OnDescent(3)
           /\ s = "power_answer" => OnDescent(4)
<1>1. PICK k \in 1..5 : Descending(k)
  BY DEF HoldInv
<1>2. k # 5
  BY <1>1, ProgramRests DEF Descending
<1>3. todo["device"] = Rest(DeviceSteps, k)
  BY <1>1 DEF Descending
<1>4. Head(todo["device"]) = DeviceSteps[k] /\ Tail(todo["device"]) = Rest(DeviceSteps, k + 1)
  <2>1. k \in 1..5 /\ k <= 4
    BY <1>1, <1>2
  <2> QED
    BY <1>3, <2>1, ProgramRests, Zenon
<1>5. OnDescent(k)
  BY <1>1, <1>4 DEF OnDescent
<1>6. k \in 1..4
  BY <1>2
<1>7. \/ k = 1 /\ DeviceSteps[k] = "stop_power"
      \/ k = 2 /\ DeviceSteps[k] = "quiesce"
      \/ k = 3 /\ DeviceSteps[k] = "power_down"
      \/ k = 4 /\ DeviceSteps[k] = "power_answer"
  BY <1>6, StepNames, Zenon
<1> QED
  BY <1>4, <1>5, <1>6, <1>7

--------------------------------------------------------------------------------
(* Types *)

LEMMA MovesTyped ==
    ASSUME Types, NEW t \in Threads
    PROVE  /\ todo[t] # <<>> /\ Onward(t) => todo' \in [Threads -> Seq(Steps)]
           /\ todo[t] # <<>> /\ Failing(t) => todo' \in [Threads -> Seq(Steps)]
<1>1. todo[t] \in Seq(Steps) /\ todo \in [Threads -> Seq(Steps)]
  BY DEF Types
<1>2. ASSUME todo[t] # <<>>, Onward(t)
      PROVE  todo' \in [Threads -> Seq(Steps)]
  <2>1. Tail(todo[t]) \in Seq(Steps)
    BY <1>1, <1>2, HeadTailProperties
  <2> QED
    BY <1>1, <1>2, <2>1 DEF Onward
<1>3. ASSUME todo[t] # <<>>, Failing(t)
      PROVE  todo' \in [Threads -> Seq(Steps)]
  <2> DEFINE last == todo[t][Len(todo[t])]
  <2>1. last \in Steps
    BY <1>1, <1>3, EmptySeq
  <2> HIDE DEF last
  <2>2. <<last>> \in Seq(Steps)
    BY <2>1
  <2>3. todo' = [todo EXCEPT ![t] = <<last>>]
    BY <1>3 DEF Failing, last
  <2> QED
    BY <1>1, <2>2, <2>3
<1> QED
  BY <1>2, <1>3

(* A device power request moves on. *)
LEMMA RequestMoves ==
    ASSUME Types, NEW a, irp' = [irp EXCEPT !.device.at = a]
    PROVE  /\ DOMAIN irp' = DOMAIN irp /\ DOMAIN irp'.device = DOMAIN irp.device
           /\ irp'.device.at = a /\ irp'.wake = irp.wake
BY DEF Types

LEMMA RequestsTyped ==
    ASSUME Types,
           \/ AddDevice \/ StartDevice \/ QueryRemove \/ CancelRemove \/ QueryStop
           \/ CancelStop \/ StopDevice \/ Unplug \/ SurpriseRemoval \/ RemoveDevice
    PROVE  Types'
<1>1. CASE AddDevice
  <2>1. /\ DOMAIN Initialised(dx) = Fields /\ Initialised(dx).ptr = dx.ptr
        /\ Initialised(dx).read = dx.read
    BY DEF Initialised, Types, Fields
  <2>2. DOMAIN dx' = Fields /\ dx'.ptr \subseteq Blocks /\ dx'.read \in Reads
    <3>1. CASE dx' = Initialised(dx)
      BY <2>1, <3>1 DEF Types
    <3>2. CASE dx' = [Initialised(dx) EXCEPT !.ptr = {"PollWorkItem", "InterfaceName"},
                                             !.Registration = "down"]
      <4>1. /\ DOMAIN dx' = Fields /\ dx'.ptr = {"PollWorkItem", "InterfaceName"}
            /\ dx'.read = Initialised(dx).read
        BY <2>1, <3>2 DEF Fields
      <4> QED
        BY <2>1, <4>1 DEF Blocks, Types
    <3> QED
      BY <1>1, <3>1, <3>2 DEF AddDevice
  <2>3. DOMAIN os' = {"mgr", "bus", "present"} /\ os'.mgr \in Managed
    BY <1>1 DEF AddDevice, Types, Managed
  <2> QED
    BY <1>1, <2>2, <2>3 DEF AddDevice, Types
<1>2. CASE StartDevice
  <2>1. StartSteps \in Seq(Steps)
    BY Programs
  <2>2. todo' = [todo EXCEPT !["pnp"] = StartSteps]
    BY <1>2 DEF StartDevice, Enters, StartSteps
  <2>3. todo' \in [Threads -> Seq(Steps)]
    BY <2>1, <2>2 DEF Types, Threads
  <2>4. DOMAIN count' = DOMAIN count /\ count'.starts = count.starts + 1
    BY <1>2 DEF StartDevice, Spend, Types
  <2> QED
    <3>1. dx' = dx /\ irp' = irp
      BY <1>2 DEF StartDevice
    <3>2. DOMAIN os' = DOMAIN os /\ os'.mgr \in Managed
      BY <1>2 DEF StartDevice, Enters, Types, Managed
    <3>3. DOMAIN A' = DOMAIN A /\ DOMAIN B' = DOMAIN B
      BY <1>2 DEF StartDevice, Enters
    <3> QED
      BY <2>3, <2>4, <3>1, <3>2, <3>3 DEF Types
<1>3. CASE QueryRemove \/ CancelRemove \/ QueryStop \/ CancelStop
  BY <1>3 DEF QueryRemove, CancelRemove, QueryStop, CancelStop, Query, Spend, Types,
              Fields, Managed, histories
<1>4. CASE StopDevice
  <2>1. StopSteps \in Seq(Steps)
    BY Programs
  <2>2. todo' = [todo EXCEPT !["pnp"] = StopSteps]
    BY <1>4 DEF StopDevice, Enters, StopSteps
  <2>3. todo' \in [Threads -> Seq(Steps)]
    BY <2>1, <2>2 DEF Types, Threads
  <2> QED
    BY <1>4, <2>3 DEF StopDevice, Enters, Types, Managed, histories
<1>5. CASE Unplug \/ SurpriseRemoval
  BY <1>5 DEF Unplug, SurpriseRemoval, Types, Managed, histories
<1>6. CASE RemoveDevice
  <2>1. RemoveSteps \in Seq(Steps)
    BY Programs
  <2>2. todo' = [todo EXCEPT !["pnp"] = RemoveSteps]
    BY <1>6 DEF RemoveDevice, Enters, RemoveSteps
  <2>3. todo' \in [Threads -> Seq(Steps)]
    BY <2>1, <2>2 DEF Types, Threads
  <2> QED
    BY <1>6, <2>3 DEF RemoveDevice, Enters, Types, Fields, Managed, histories
<1> QED
  BY <1>1, <1>2, <1>3, <1>4, <1>5, <1>6

LEMMA StartStepsTyped ==
    ASSUME Types,
           \/ StartDown \/ FetchDeviceDescriptor \/ SelectConfiguration \/ SetStarted
           \/ QueryFirmwareInfo \/ SetDeviceName \/ StartPolling \/ Publish \/ StartAnswered
    PROVE  Types'
<1>0. "pnp" \in Threads
  BY DEF Threads
<1>1. todo' \in [Threads -> Seq(Steps)]
  BY <1>0, MovesTyped, Zenon DEF StartDown, FetchDeviceDescriptor, SelectConfiguration, SetStarted,
         QueryFirmwareInfo, SetDeviceName, StartPolling, Publish, StartAnswered, Doing, Types
<1>2. CASE StartDown
  BY <1>1, <1>2 DEF StartDown, Doing, Uses, Types
<1>3. CASE FetchDeviceDescriptor
  BY <1>1, <1>3 DEF FetchDeviceDescriptor, Repoint, DropDescriptor, Doing, Uses, Types,
                    Fields, Blocks
<1>4. CASE SelectConfiguration
  <2>1. DOMAIN dx' = Fields /\ dx'.read = dx.read
    BY <1>4 DEF SelectConfiguration, Types, Fields
  <2>2. dx'.ptr \subseteq dx.ptr \cup {"InterfaceInfo"}
    <3>1. CASE dx' = dx
      BY <3>1
    <3>2. CASE dx' # dx
      <4>1. PICK pool \in BOOLEAN, pipe \in BOOLEAN :
                dx' = [dx EXCEPT !.ConfigurationHandle = TRUE,
                             !.ptr = IF pool THEN @ \cup {"InterfaceInfo"}
                                             ELSE @ \ {"InterfaceInfo"},
                             !.InterruptPipe = IF pool THEN pipe ELSE @]
        BY <1>4, <3>2 DEF SelectConfiguration
      <4>2. dx'.ptr = IF pool THEN dx.ptr \cup {"InterfaceInfo"} ELSE dx.ptr \ {"InterfaceInfo"}
        BY <4>1 DEF Types, Fields
      <4> QED
        BY <4>2
    <3> QED
      BY <3>1, <3>2
  <2>3. dx'.ptr \subseteq Blocks
    BY <2>2 DEF Types, Blocks
  <2> QED
    BY <1>1, <1>4, <2>1, <2>3 DEF SelectConfiguration, Doing, Uses, Types
<1>5. CASE SetStarted \/ QueryFirmwareInfo \/ StartPolling \/ Publish
  <2>1. DOMAIN dx' = Fields /\ dx'.ptr = dx.ptr
    BY <1>5 DEF SetStarted, QueryFirmwareInfo, StartPolling, PollStart, Publish, Types, Fields
  <2>2. dx'.read \in {dx.read, "pnp"}
    BY <1>5 DEF SetStarted, QueryFirmwareInfo, StartPolling, PollStart, Publish, Types, Fields
  <2> QED
    BY <1>1, <1>5, <2>1, <2>2
       DEF SetStarted, QueryFirmwareInfo, StartPolling, Publish, Types, Reads, Threads
<1>6. CASE SetDeviceName
  BY <1>1, <1>6 DEF SetDeviceName, Doing, Uses, Types, Fields
<1>7. CASE StartAnswered
  BY <1>1, <1>7 DEF StartAnswered, Doing, Uses, Types, Managed
<1> QED
  BY <1>2, <1>3, <1>4, <1>5, <1>6, <1>7

(* AdaptoidPollStop and AdaptoidAbortPipes touch the reads only. *)
LEMMA PollingOnly ==
    ASSUME Types, NEW reason,
           \/ dx' = PollStop(dx, reason) \/ dx' = AbortPipes(dx)
           \/ dx' = AbortPipes(PollStop(dx, reason))
    PROVE  /\ DOMAIN dx' = Fields /\ dx'.ptr = dx.ptr
           /\ (dx'.read = dx.read \/ dx'.read = "none")
<1> DEFINE d == PollStop(dx, reason)
<1>1. DOMAIN d = Fields /\ d.ptr = dx.ptr /\ d.read = dx.read
  BY DEF PollStop, Types, Fields
<1> HIDE DEF d
<1>2. CASE dx' = d
  BY <1>1, <1>2
<1>3. CASE dx' = AbortPipes(dx)
  BY <1>3 DEF AbortPipes, Retired, Types, Fields
<1>4. CASE dx' = AbortPipes(d)
  BY <1>1, <1>4 DEF AbortPipes, Retired, Fields
<1> QED
  BY <1>2, <1>3, <1>4 DEF d

LEMMA TearDownTyped ==
    ASSUME Types,
           \/ StopPolling("pnp", "stop_pnp", "pnp") \/ QuiesceIo("pnp") \/ UnconfigureDevice
           \/ Stopped \/ StopDown
           \/ DrainA \/ RegistryRemove \/ StopPolling("pnp", "stop_remove", "remove") \/ Abort
           \/ RemoveDown \/ CloseB \/ DrainB \/ UnwireDevice \/ FreeDeviceResources
           \/ StopPolling("device", "stop_power", "power") \/ QuiesceIo("device")
    PROVE  Types'
<1>0. "pnp" \in Threads /\ "device" \in Threads
  BY DEF Threads
<1>1. todo' \in [Threads -> Seq(Steps)]
  BY <1>0, MovesTyped, Zenon
     DEF StopPolling, QuiesceIo, UnconfigureDevice, Stopped, StopDown, DrainA, RegistryRemove,
         Abort, RemoveDown, CloseB, DrainB, UnwireDevice, FreeDeviceResources, Doing
<1>2. CASE \/ \E t, s : \E r \in {"pnp", "power", "remove"} : StopPolling(t, s, r)
           \/ \E t : QuiesceIo(t)
           \/ Abort
  <2>1. DOMAIN dx' = Fields /\ dx'.ptr = dx.ptr /\ (dx'.read = dx.read \/ dx'.read = "none")
    BY <1>2, PollingOnly DEF StopPolling, QuiesceIo, Abort
  <2> QED
    BY <1>1, <1>2, <2>1 DEF StopPolling, QuiesceIo, Abort, Types, Reads
<1>3. CASE UnconfigureDevice \/ Stopped \/ RegistryRemove \/ UnwireDevice \/ FreeDeviceResources
  <2>1. CASE UnconfigureDevice \/ Stopped \/ FreeDeviceResources
    <3>1. DOMAIN dx' = Fields /\ dx'.ptr \subseteq dx.ptr /\ dx'.read = dx.read
      <4>1. CASE UnconfigureDevice \/ Stopped
        BY <4>1 DEF UnconfigureDevice, Stopped, Types, Fields
      <4>2. CASE FreeDeviceResources
        <5>1. DOMAIN dx' = Fields /\ dx'.read = dx.read
          BY <4>2 DEF FreeDeviceResources, Types, Fields
        <5>2. dx'.ptr = dx.ptr \ {"ConfigDescriptor", "InterfaceInfo", "PollWorkItem"}
          BY <4>2 DEF FreeDeviceResources, Types, Fields
        <5> QED
          BY <5>1, <5>2
      <4> QED
        BY <2>1, <4>1, <4>2
    <3> QED
      BY <1>1, <2>1, <3>1 DEF UnconfigureDevice, Stopped, FreeDeviceResources, Types
  <2>2. CASE RegistryRemove \/ UnwireDevice
    <3>1. DOMAIN dx' = Fields /\ dx'.ptr \subseteq dx.ptr /\ dx'.read = dx.read
      <4>1. /\ DOMAIN Unregistered(dx) = Fields /\ Unregistered(dx).ptr \subseteq dx.ptr
            /\ Unregistered(dx).read = dx.read
        BY DEF Unregistered, Types, Fields
      <4> QED
        BY <2>2, <4>1 DEF RegistryRemove, UnwireDevice, Fields
    <3> QED
      BY <1>1, <2>2, <3>1 DEF RegistryRemove, UnwireDevice, Types
  <2> QED
    BY <1>3, <2>1, <2>2
<1>4. CASE StopDown \/ DrainA \/ CloseB \/ DrainB
  BY <1>1, <1>4 DEF StopDown, DrainA, CloseB, DrainB, Doing, Uses, Types, Managed
<1>5. CASE RemoveDown
  BY <1>1, <1>5 DEF RemoveDown, Doing, Uses, Types, Fields, Reads
<1> QED
  BY <1>2, <1>3, <1>4, <1>5

LEMMA HidAndPowerTyped ==
    ASSUME Types,
           \/ ReadReturns \/ ReadStops \/ PollSubmit
           \/ HidRequest \/ HidRequestReturns \/ ParkedReadEnds
           \/ \E s \in {S0, S3} : SystemPower(s)
           \/ DevicePower \/ PowerDown \/ PowerAnswered \/ BusPoweredDown
           \/ PowerUpComplete \/ PowerUpReturns \/ SystemPowerComplete \/ WaitWakeReturns
           \/ WaitWake \/ WakeEnds
    PROVE  Types'
<1>0. CASE ReadReturns \/ ReadStops \/ PollSubmit
  BY <1>0 DEF ReadReturns, ReadStops, PollSubmit, Retired, Types, Fields, Reads
<1>1. CASE HidRequest \/ HidRequestReturns \/ ParkedReadEnds
  BY <1>1 DEF HidRequest, HidRequestReturns, ParkedReadEnds, Spend, Types, histories
<1>2. CASE \E s \in {S0, S3} : SystemPower(s)
  <2>1. DOMAIN count' = DOMAIN count /\ count'.starts = count.starts
    BY <1>2 DEF SystemPower, Spend, Types
  <2>2. DOMAIN irp' = DOMAIN irp /\ DOMAIN irp'.device = {"at", "state"}
           /\ irp'.device.at \in PowerPlaces
    <3>1. CASE \E want : irp' = [irp EXCEPT !.device = [at |-> "requested", state |-> want]]
      <4>1. PICK want : irp' = [irp EXCEPT !.device = [at |-> "requested", state |-> want]]
        BY <3>1
      <4>2. DOMAIN irp' = DOMAIN irp /\ irp'.device = [at |-> "requested", state |-> want]
        BY <4>1 DEF Types
      <4> QED
        BY <4>2 DEF PowerPlaces
    <3>2. CASE \E s : irp' = [irp EXCEPT !.system = s]
      BY <3>2 DEF Types
    <3>3. CASE irp' = irp
      BY <3>3 DEF Types
    <3> QED
      BY <1>2, <3>1, <3>2, <3>3 DEF SystemPower
  <2>3. DOMAIN dx' = Fields /\ dx'.ptr = dx.ptr /\ dx'.read = dx.read
    BY <1>2 DEF SystemPower, Park, Types, Fields
  <2>4. DOMAIN B' = DOMAIN B
    BY <1>2 DEF SystemPower, Park
  <2> QED
    BY <1>2, <2>1, <2>2, <2>3, <2>4 DEF SystemPower, Types
<1>3. CASE DevicePower
  <2>1. todo' \in [Threads -> Seq(Steps)]
    <3>1. /\ <<"stop_power", "quiesce", "power_down", "power_answer">> \in Seq(Steps)
          /\ <<"power_down", "power_answer">> \in Seq(Steps)
      BY DEF Steps
    <3> QED
      BY <1>3, <3>1 DEF DevicePower, Types
  <2>2. DOMAIN irp' = DOMAIN irp /\ DOMAIN irp'.device = {"at", "state"}
           /\ irp'.device.at \in PowerPlaces
    <3>1. \E a \in PowerPlaces : irp' = [irp EXCEPT !.device.at = a]
      BY <1>3 DEF DevicePower, PowerPlaces
    <3> QED
      BY <3>1, RequestMoves DEF Types
  <2>3. /\ DOMAIN dx' = Fields /\ dx'.ptr = dx.ptr /\ dx'.read = dx.read
        /\ DOMAIN B' = DOMAIN B
    BY <1>3 DEF DevicePower, Types, Fields
  <2> QED
    BY <1>3, <2>1, <2>2, <2>3 DEF DevicePower, Types
<1>4. CASE PowerDown \/ PowerAnswered
  <2>1. todo' \in [Threads -> Seq(Steps)]
    BY <1>4, MovesTyped, Zenon DEF PowerDown, PowerAnswered, Doing, Threads
  <2> QED
    BY <1>4, <2>1, RequestMoves DEF PowerDown, PowerAnswered, Types, PowerPlaces
<1>5. CASE BusPoweredDown \/ PowerUpReturns
  <2>1. irp' = [irp EXCEPT !.device.at = "complete"] /\ DOMAIN B' = DOMAIN B
    BY <1>5 DEF BusPoweredDown, PowerUpReturns
  <2> QED
    BY <1>5, <2>1, RequestMoves DEF BusPoweredDown, PowerUpReturns, Types, PowerPlaces, histories
<1>8. CASE PowerUpComplete
  <2> DEFINE d == [dx EXCEPT !.DevicePowerState = D0]
  <2>1. /\ DOMAIN d = Fields /\ d.ptr = dx.ptr /\ d.read = dx.read
    BY DEF Types, Fields
  <2>2. dx' = PollStart(d, "power", "device")
    BY <1>8 DEF PowerUpComplete
  <2> HIDE DEF d
  <2>3. DOMAIN dx' = Fields /\ dx'.ptr = dx.ptr /\ dx'.read \in {dx.read, "device"}
    BY <2>1, <2>2 DEF PollStart, Fields
  <2>4. irp' = [irp EXCEPT !.device.at = "came_up"]
    BY <1>8 DEF PowerUpComplete
  <2> QED
    BY <1>8, <2>3, <2>4, RequestMoves DEF PowerUpComplete, Types, PowerPlaces, Reads, Threads
<1>6. CASE SystemPowerComplete
  BY <1>6 DEF SystemPowerComplete, Types, Fields, PowerPlaces, NoPower
<1>7. CASE WaitWakeReturns \/ WaitWake \/ WakeEnds
  BY <1>7 DEF WaitWakeReturns, WaitWake, WakeEnds, Types, Fields, PowerPlaces, histories
<1> QED
  BY <1>0, <1>1, <1>2, <1>3, <1>4, <1>5, <1>6, <1>7, <1>8

LEMMA TypesKept == Types /\ [Next]_vars => Types'
<1> SUFFICES ASSUME Types, [Next]_vars
             PROVE  Types'
  OBVIOUS
<1>1. CASE UNCHANGED vars
  BY <1>1 DEF vars, Types
<1>2. CASE Next
  BY <1>2, RequestsTyped, StartStepsTyped, TearDownTyped, HidAndPowerTyped
     DEF Next, PnpSteps, PowerSteps
<1> QED
  BY <1>1, <1>2

--------------------------------------------------------------------------------
(* What a step leaves alone *)

BlocksKept == dx'.ptr = dx.ptr /\ lost' = lost

LEMMA PnpAside ==
    ASSUME PnpInv, os'.mgr = os.mgr, os'.bus = os.bus, todo'["pnp"] = todo["pnp"],
           phase' = phase, dx'.ptr = dx.ptr,
           B.holders = {} /\ dx.read = "none" => dx'.read = "none",
           A'.closed = A.closed, A.closed => A'.holders \subseteq A.holders,
           B'.closed = B.closed, B.closed => B'.holders \subseteq B.holders,
           count'.starts = count.starts
    PROVE  PnpInv'
<1>1. \A k \in 1..9 : Starting(k) => Starting(k)'
  BY DEF Starting
<1>2. \A k \in 1..5 : Stopping(k) => Stopping(k)'
  BY DEF Stopping
<1>3. ASSUME NEW k \in 1..11, Removing(k)
      PROVE  Removing(k)'
  <2>1. A.closed
    BY <1>3 DEF Removing
  <2>2. k >= 8 => B.closed
    BY <1>3 DEF Removing
  <2>3. k >= 9 => B.holders = {} /\ B.closed
    BY <1>3 DEF Removing
  <2> QED
    BY <1>3, <2>1, <2>2, <2>3 DEF Removing
<1> QED
  BY <1>1, <1>2, <1>3 DEF PnpInv

LEMMA ReadAside ==
    ASSUME ReadInv, dx'.read = dx.read, phase' = phase,
           irp.device.at = "came_up" => irp'.device.at = "came_up" \/ dx.read # "device",
           os'.bus = "removed" => os.bus = "removed",
           todo'["pnp"] = todo["pnp"] \/ dx.read # "pnp"
    PROVE  ReadInv'
BY DEF ReadInv

LEMMA HoldAside ==
    ASSUME HoldInv, phase' = phase, irp' = irp, todo'["device"] = todo["device"],
           B.holders \ {"pnp", "hid"} \subseteq B'.holders, A'.holders # {} => phase' = "added"
    PROVE  HoldInv'
<1>1. \A k \in 1..5 : Descending(k) => Descending(k)'
  BY DEF Descending
<1> QED
  BY <1>1 DEF HoldInv

LEMMA LostAside ==
    ASSUME LostInv, BlocksKept, count'.starts = count.starts, phase' = phase
    PROVE  LostInv'
BY DEF LostInv, BlocksKept

--------------------------------------------------------------------------------
(* Where the PnP request is now *)

LEMMA NowStarting ==
    ASSUME NEW k \in 1..9, os'.mgr = "starting", Starting(k)', phase' = "added"
    PROVE  PnpInv'
BY DEF PnpInv

LEMMA NowStopping ==
    ASSUME NEW k \in 1..5, os'.mgr = "stopping", Stopping(k)', phase' = "added"
    PROVE  PnpInv'
BY DEF PnpInv

LEMMA NowRemoving ==
    ASSUME NEW k \in 1..11, os'.mgr = "removing", Removing(k)', phase' \in {"added", "freed"}
    PROVE  PnpInv'
BY DEF PnpInv

LEMMA NowBetween ==
    ASSUME todo'["pnp"] = <<>>, phase' = "added",
           os'.mgr \in Managed \ {"absent", "starting", "stopping", "removing"}
    PROVE  PnpInv'
BY DEF PnpInv

(* A request that is under way has the extension. *)
LEMMA UnderWay ==
    ASSUME PnpInv
    PROVE  /\ \A k \in 1..9 : OnStart(k) => phase = "added"
           /\ \A k \in 1..5 : OnStop(k) => phase = "added"
           /\ \A k \in 1..10 : OnRemove(k) => phase = "added"
<1>1. \A k \in 1..10 : OnRemove(k) => phase # "freed"
  BY DEF OnRemove, Removing
<1> QED
  BY <1>1 DEF OnStart, OnStop, OnRemove, PnpInv

(***************************************************************************)
(* After the extension is freed nothing of the driver's is left: each step *)
(* that uses it has a holder of RemoveLockB, of RemoveLockA or the read.   *)
(***************************************************************************)
LEMMA FreedIsStill ==
    ASSUME Kept, phase = "freed"
    PROVE  /\ todo["pnp"] = <<>> /\ todo["device"] = <<>>
           /\ A.holders = {} /\ B.holders = {}
           /\ dx.read = "none" /\ irp.device.at = "none"
           /\ irp.wake \notin {"pending", "woken"}
<1>1. todo["pnp"] = <<>>
  <2>1. PICK k \in 1..11 : Removing(k)
    BY DEF Kept, PnpInv
  <2>2. k = 11 /\ todo["pnp"] = Rest(RemoveSteps, k)
    BY <2>1 DEF Removing
  <2>3. 11 \in 1..11
    OBVIOUS
  <2> QED
    BY <2>2, <2>3, ProgramRests, Zenon
<1>2. todo["device"] = <<>>
  <2>1. PICK k \in 1..5 : Descending(k)
    BY DEF Kept, HoldInv
  <2>2. ~(k <= 4) /\ todo["device"] = Rest(DeviceSteps, k)
    BY <2>1 DEF Descending
  <2>4. k = 5
    BY <2>2
  <2>3. 5 \in 1..5
    OBVIOUS
  <2> QED
    BY <2>2, <2>3, <2>4, ProgramRests, Zenon
<1>3. A.holders = {} /\ B.holders = {} /\ dx.read = "none"
  <2>1. PICK k \in 1..11 : Removing(k)
    BY DEF Kept, PnpInv
  <2> QED
    BY <2>1 DEF Removing
<1> QED
  BY <1>1, <1>2, <1>3 DEF Kept, HoldInv

LEMMA NotMisused ==
    ASSUME Inv, [Next]_vars
    PROVE  ~misuse'
<1>0. ~misuse /\ Kept
  BY DEF Inv
<1>1. CASE UNCHANGED vars
  BY <1>0, <1>1 DEF vars, histories
<1>2. CASE UNCHANGED misuse
  BY <1>0, <1>2
<1>3. ASSUME Uses,
             \/ \E t \in Threads : todo[t] # <<>>
             \/ dx.read # "none" \/ A.holders # {} \/ B.holders # {}
             \/ irp.device.at # "none"
             \/ irp.wake = "woken"
      PROVE  ~misuse'
  <2>1. phase # "freed"
    BY <1>0, <1>3, FreedIsStill DEF Threads
  <2> QED
    BY <1>0, <1>3, <2>1, Zenon DEF Uses
<1>4. CASE Next
  <2>1. CASE PnpSteps
    BY <1>2, <1>3, <2>1
       DEF PnpSteps, StartDown, FetchDeviceDescriptor, SelectConfiguration, SetStarted,
           QueryFirmwareInfo, SetDeviceName, StartPolling, Publish, StartAnswered, StopPolling,
           QuiesceIo, UnconfigureDevice, Stopped, StopDown, DrainA, RegistryRemove, Abort,
           RemoveDown, CloseB, DrainB, UnwireDevice, FreeDeviceResources, Doing, Threads
  <2>2. CASE PowerSteps
    BY <1>2, <1>3, <2>2
       DEF PowerSteps, DevicePower, StopPolling, QuiesceIo, PowerDown, PowerAnswered,
           BusPoweredDown, PowerUpComplete, PowerUpReturns, SystemPowerComplete, WaitWakeReturns,
           Doing, Threads, histories
  <2>5. CASE ReadReturns \/ ReadStops \/ PollSubmit
    BY <1>3, <2>5 DEF ReadReturns, ReadStops, PollSubmit, Threads
  <2>3. CASE \/ HidRequest \/ HidRequestReturns \/ ParkedReadEnds \/ WaitWake \/ WakeEnds
             \/ \E s \in {S0, S3} : SystemPower(s)
    BY <1>2, <1>3, <2>3
       DEF HidRequest, HidRequestReturns, ParkedReadEnds, WaitWake, WakeEnds, SystemPower,
           histories
  <2>4. CASE \/ AddDevice \/ StartDevice \/ QueryRemove \/ CancelRemove \/ QueryStop
             \/ CancelStop \/ StopDevice \/ Unplug \/ SurpriseRemoval \/ RemoveDevice
    BY <1>2, <2>4
       DEF AddDevice, StartDevice, QueryRemove, CancelRemove, QueryStop, CancelStop, Query,
           StopDevice, Unplug, SurpriseRemoval, RemoveDevice, histories
  <2> QED
    BY <1>4, <2>1, <2>2, <2>3, <2>4, <2>5 DEF Next
<1> QED
  BY <1>1, <1>4

--------------------------------------------------------------------------------
(* START_DEVICE *)

(* One step of a START, on to the next or to its answer. *)
Starts(k, j) ==
    /\ k \in 1..8 /\ j \in 2..9 /\ OnStart(k)
    /\ \/ j = k + 1 /\ Onward("pnp")
       \/ j = 9 /\ Failing("pnp")
    /\ os'.mgr = os.mgr /\ phase' = phase /\ irp' = irp /\ A' = A /\ B' = B
    /\ count'.starts = count.starts
    /\ count.starts = 1 /\ j = 2 => "ConfigDescriptor" \notin dx'.ptr
    /\ count.starts = 1 /\ j \in 2..3 => "InterfaceInfo" \notin dx'.ptr

LEMMA StartGoesOn ==
    ASSUME Types, PnpInv, HoldInv, NEW k, NEW j, Starts(k, j)
    PROVE  PnpInv' /\ HoldInv'
<1>0. k \in 1..8 /\ k \in 1..9 /\ j \in 2..9 /\ j \in 1..9 /\ OnStart(k)
  BY DEF Starts
<1>1. phase = "added"
  BY <1>0, UnderWay
<1>2. todo'["pnp"] = Rest(StartSteps, j) /\ todo'["device"] = todo["device"]
  <2>1. todo' = [todo EXCEPT !["pnp"] = Rest(StartSteps, j)]
    BY <1>0, Zenon DEF OnStart, Onward, Failing, Ending, Starts
  <2> QED
    BY <2>1 DEF Types, Threads
<1>3. Starting(j)'
  BY <1>0, <1>2 DEF OnStart, Starting, Starts
<1>4. PnpInv'
  BY <1>0, <1>1, <1>3, NowStarting DEF OnStart, Starts
<1>5. HoldInv'
  BY <1>1, <1>2, HoldAside DEF HoldInv, Starts
<1> QED
  BY <1>4, <1>5

LEMMA StartDownKeeps ==
    ASSUME Types, Kept, StartDown
    PROVE  Kept'
<1>1. OnStart(1)
  BY StepAt, Zenon DEF StartDown, Doing, Kept
<1>2. Starting(1)
  BY <1>1 DEF OnStart
<1>3. BlocksKept
  BY DEF StartDown, BlocksKept
<1>4. PnpInv' /\ HoldInv'
  <2>1. CASE Onward("pnp") /\ os' = [os EXCEPT !.bus = "started"]
    <3>1. os'.mgr = os.mgr
      BY <2>1 DEF Types
    <3>2. Starts(1, 2)
      BY <1>1, <1>2, <1>3, <2>1, <3>1 DEF StartDown, Doing, Starting, Starts, BlocksKept
    <3> QED
      BY <3>2, StartGoesOn, Zenon DEF Kept
  <2>2. CASE Failing("pnp") /\ os' = os
    <3>1. Starts(1, 9)
      BY <1>1, <2>2 DEF StartDown, Doing, Starts
    <3> QED
      BY <3>1, StartGoesOn, Zenon DEF Kept
  <2> QED
    BY <2>1, <2>2 DEF StartDown
<1>5. LostInv'
  BY <1>3, LostAside DEF StartDown, Kept
<1> QED
  BY <1>4, <1>5 DEF Kept

LEMMA FetchKeeps ==
    ASSUME Types, Kept, FetchDeviceDescriptor
    PROVE  Kept'
<1>1. OnStart(2)
  BY StepAt, Zenon DEF FetchDeviceDescriptor, Doing, Kept
<1>2. Starting(2) /\ count.starts > 0 /\ phase = "added"
  BY <1>1, UnderWay DEF OnStart, Starting, Kept
<1>4. /\ count.starts = 1 => lost' = lost
      /\ count.starts = 1 => ("InterfaceInfo" \in dx'.ptr => "InterfaceInfo" \in dx.ptr)
  <2>1. CASE UNCHANGED <<dx, lost>>
    BY <2>1
  <2>2. CASE Repoint("ConfigDescriptor", TRUE) \/ DropDescriptor
    <3>1. lost' = lost \cup (dx.ptr \cap {"ConfigDescriptor"})
      BY <2>2 DEF Repoint, DropDescriptor
    <3>2. count.starts = 1 => "ConfigDescriptor" \notin dx.ptr
      BY <1>2 DEF Starting
    <3>3. "InterfaceInfo" \in dx'.ptr => "InterfaceInfo" \in dx.ptr
      BY <2>2 DEF Repoint, DropDescriptor, Types, Fields
    <3> QED
      BY <3>1, <3>2, <3>3
  <2> QED
    BY <2>1, <2>2 DEF FetchDeviceDescriptor
<1>5. PnpInv' /\ HoldInv'
  <2>1. CASE Onward("pnp")
    <3>1. Starts(2, 3)
      BY <1>1, <1>2, <1>4, <2>1 DEF FetchDeviceDescriptor, Starting, Starts
    <3> QED
      BY <3>1, StartGoesOn, Zenon DEF Kept
  <2>2. CASE Failing("pnp")
    <3>1. Starts(2, 9)
      BY <1>1, <2>2 DEF FetchDeviceDescriptor, Starts
    <3> QED
      BY <3>1, StartGoesOn, Zenon DEF Kept
  <2>3. CASE todo' = todo /\ DropDescriptor
    <3>1. "ConfigDescriptor" \notin dx'.ptr
      BY <2>3 DEF DropDescriptor, Repoint, Types, Fields
    <3>2. Starting(2)'
      BY <1>2, <1>4, <2>3, <3>1 DEF FetchDeviceDescriptor, Starting
    <3>3. PnpInv'
      BY <1>1, <1>2, <3>2, NowStarting DEF FetchDeviceDescriptor, OnStart
    <3>4. HoldInv'
      BY <1>2, <2>3, HoldAside DEF FetchDeviceDescriptor, Kept
    <3> QED
      BY <3>3, <3>4
  <2> QED
    BY <2>1, <2>2, <2>3 DEF FetchDeviceDescriptor
<1>7. LostInv'
  BY <1>2, <1>4 DEF FetchDeviceDescriptor, LostInv, Kept, Types
<1> QED
  BY <1>5, <1>7 DEF Kept

LEMMA SelectKeeps ==
    ASSUME Types, Kept, SelectConfiguration
    PROVE  Kept'
<1>1. OnStart(3)
  BY StepAt, Zenon DEF SelectConfiguration, Doing, Kept
<1>2. Starting(3) /\ count.starts > 0 /\ phase = "added"
  BY <1>1, UnderWay DEF OnStart, Starting, Kept
<1>0. UNCHANGED <<phase, os, A, B, irp, count>>
  BY DEF SelectConfiguration
<1>5. count.starts = 1 => lost' = lost
  <2>1. lost' \subseteq lost \cup (dx.ptr \cap {"InterfaceInfo"}) /\ lost \subseteq lost'
    BY DEF SelectConfiguration
  <2>2. count.starts = 1 => "InterfaceInfo" \notin dx.ptr
    BY <1>2 DEF Starting
  <2> QED
    BY <2>1, <2>2
<1>6. PnpInv' /\ HoldInv'
  <2>1. CASE Onward("pnp")
    <3>1. Starts(3, 4)
      BY <1>0, <1>1, <1>2, <2>1 DEF Starts
    <3> QED
      BY <3>1, StartGoesOn, Zenon DEF Kept
  <2>2. CASE Failing("pnp")
    <3>1. Starts(3, 9)
      BY <1>0, <1>1, <2>2 DEF Starts
    <3> QED
      BY <3>1, StartGoesOn, Zenon DEF Kept
  <2> QED
    BY <2>1, <2>2 DEF SelectConfiguration
<1>8. LostInv'
  BY <1>0, <1>2, <1>5 DEF LostInv, Kept, Types
<1> QED
  BY <1>6, <1>8 DEF Kept

(* The steps of a START that do not touch the blocks. *)
LEMMA PlainStartKeeps ==
    ASSUME Types, Kept, NEW k \in 4..8, OnStart(k), Onward("pnp"), BlocksKept,
           UNCHANGED <<phase, os, irp, A, B, count>>
    PROVE  Kept'
<1>1. Starting(k)
  BY DEF OnStart
<1>2. Starts(k, k + 1)
  BY <1>1 DEF Starting, Starts
<1>3. PnpInv' /\ HoldInv'
  BY <1>2, StartGoesOn, Zenon DEF Kept
<1> QED
  BY <1>3, LostAside DEF Kept

LEMMA StartAnsweredKeeps ==
    ASSUME Types, Kept, StartAnswered
    PROVE  Kept'
<1>1. OnStart(9)
  BY StepAt, Zenon DEF StartAnswered, Doing, Kept
<1>2. phase = "added"
  BY <1>1, UnderWay DEF Kept
<1>3. todo'["pnp"] = <<>> /\ todo'["device"] = todo["device"]
  <2>1. todo' = [todo EXCEPT !["pnp"] = Tail(todo["pnp"])]
    BY DEF StartAnswered, Onward
  <2>2. Tail(todo["pnp"]) = Rest(StartSteps, 10) /\ 10 \in 1..10
    BY <1>1 DEF OnStart
  <2>3. Tail(todo["pnp"]) = <<>>
    BY <2>2, ProgramRests, Zenon
  <2> QED
    BY <2>1, <2>3 DEF Types, Threads
<1>4. os'.mgr \in {"running", "failed"}
  BY DEF StartAnswered, Types
<1>5. PnpInv'
  BY <1>2, <1>3, <1>4, NowBetween DEF StartAnswered, Managed
<1>6. HoldInv'
  <2>1. B.holders \ {"pnp"} \subseteq B'.holders
    BY DEF StartAnswered, Types
  <2> QED
    BY <1>2, <1>3, <2>1, HoldAside DEF StartAnswered, Kept
<1>7. BlocksKept
  BY DEF StartAnswered, BlocksKept
<1> QED
  BY <1>5, <1>6, <1>7, LostAside DEF StartAnswered, Kept

--------------------------------------------------------------------------------
(* STOP_DEVICE and REMOVE_DEVICE *)

Stops(k) ==
    /\ k \in 1..4 /\ OnStop(k) /\ Onward("pnp")
    /\ phase' = phase /\ os' = os /\ irp' = irp /\ A' = A /\ B' = B

LEMMA StopGoesOn ==
    ASSUME Types, PnpInv, HoldInv, NEW k, Stops(k)
    PROVE  PnpInv' /\ HoldInv'
<1>1. k \in 1..4 /\ k \in 1..5 /\ k + 1 \in 1..5 /\ OnStop(k)
  BY DEF Stops
<1>2. phase = "added"
  BY <1>1, UnderWay
<1>3. todo'["pnp"] = Rest(StopSteps, k + 1) /\ todo'["device"] = todo["device"]
  BY <1>1 DEF Stops, OnStop, Onward, Types, Threads
<1>4. Stopping(k + 1)'
  BY <1>1, <1>3 DEF Stops, Stopping
<1>5. PnpInv'
  BY <1>1, <1>2, <1>4, NowStopping DEF OnStop, Stops
<1>6. HoldInv'
  BY <1>2, <1>3, HoldAside DEF Stops
<1> QED
  BY <1>5, <1>6

Removes(k) ==
    /\ k \in 1..9 /\ OnRemove(k) /\ Onward("pnp")
    /\ phase' = phase /\ os'.mgr = os.mgr /\ irp' = irp /\ A' = A
    /\ B.holders \ {"pnp"} \subseteq B'.holders
    /\ k = 1 => A.holders = {}
    /\ k >= 6 => os'.bus = "removed"
    /\ k >= 7 => B'.closed
    /\ k >= 8 => B'.holders = {}
    /\ k = 9 => dx'.read = "none" /\ dx'.ptr \subseteq Fetched

LEMMA RemoveGoesOn ==
    ASSUME Types, PnpInv, HoldInv, NEW k, Removes(k)
    PROVE  PnpInv' /\ HoldInv'
<1>1. k \in 1..9 /\ k \in 1..10 /\ k + 1 \in 1..11 /\ OnRemove(k)
  BY DEF Removes
<1>2. phase = "added"
  BY <1>1, UnderWay
<1>3. todo'["pnp"] = Rest(RemoveSteps, k + 1) /\ todo'["device"] = todo["device"]
  BY <1>1 DEF Removes, OnRemove, Onward, Types, Threads
<1>4. Removing(k + 1)'
  <2>1. A.closed /\ (k >= 2 => A.holders = {})
    BY <1>1 DEF OnRemove, Removing
  <2> QED
    BY <1>1, <1>2, <1>3, <2>1 DEF Removes, Removing
<1>5. PnpInv'
  BY <1>1, <1>2, <1>4, NowRemoving DEF OnRemove, Removes
<1>6. HoldInv'
  BY <1>2, <1>3, HoldAside DEF Removes
<1> QED
  BY <1>5, <1>6

LEMMA PnpStopPollingKeeps ==
    ASSUME Types, Kept,
           StopPolling("pnp", "stop_pnp", "pnp") \/ StopPolling("pnp", "stop_remove", "remove")
    PROVE  Kept'
<1>0. UNCHANGED <<phase, os, A, B, irp, lost, count>> /\ Onward("pnp")
  BY DEF StopPolling
<1>1. dx'.ptr = dx.ptr
  BY PollingOnly DEF StopPolling
<1>2. PnpInv' /\ HoldInv'
  <2>1. CASE StopPolling("pnp", "stop_pnp", "pnp")
    <3>1. OnStop(1)
      BY <2>1, StepAt, Zenon DEF StopPolling, Doing, Kept
    <3>2. Stops(1)
      BY <1>0, <3>1 DEF Stops
    <3> QED
      BY <3>2, StopGoesOn, Zenon DEF Kept
  <2>2. CASE StopPolling("pnp", "stop_remove", "remove")
    <3>1. OnRemove(3)
      BY <2>2, StepAt, Zenon DEF StopPolling, Doing, Kept
    <3>2. Removes(3)
      BY <1>0, <3>1 DEF Removes
    <3> QED
      BY <3>2, RemoveGoesOn, Zenon DEF Kept
  <2> QED
    BY <2>1, <2>2
<1> QED
  BY <1>0, <1>1, <1>2, LostAside DEF Kept, BlocksKept

LEMMA PnpQuiesceKeeps ==
    ASSUME Types, Kept, QuiesceIo("pnp")
    PROVE  Kept'
<1>0. UNCHANGED <<phase, os, A, B, irp, lost, count>> /\ Onward("pnp")
  BY DEF QuiesceIo
<1>1. dx'.ptr = dx.ptr
  BY PollingOnly DEF QuiesceIo
<1>2. OnStop(2) \/ OnRemove(4)
  BY StepAt, Zenon DEF QuiesceIo, Doing, Kept
<1>3. PnpInv' /\ HoldInv'
  <2>1. CASE OnStop(2)
    <3>1. Stops(2)
      BY <1>0, <2>1 DEF Stops
    <3> QED
      BY <3>1, StopGoesOn, Zenon DEF Kept
  <2>2. CASE OnRemove(4)
    <3>1. Removes(4)
      BY <1>0, <2>2 DEF Removes
    <3> QED
      BY <3>1, RemoveGoesOn, Zenon DEF Kept
  <2> QED
    BY <1>2, <2>1, <2>2
<1> QED
  BY <1>0, <1>1, <1>3, LostAside DEF Kept, BlocksKept

LEMMA UnconfigureKeeps ==
    ASSUME Types, Kept, UnconfigureDevice \/ Stopped
    PROVE  Kept'
<1>0. UNCHANGED <<phase, os, A, B, irp, lost, count>> /\ Onward("pnp")
  BY DEF UnconfigureDevice, Stopped
<1>1. dx'.ptr = dx.ptr
  BY DEF UnconfigureDevice, Stopped, Types, Fields
<1>2. PICK k \in {3, 4} : OnStop(k)
  <2>1. UnconfigureDevice => OnStop(3)
    BY StepAt, Zenon DEF UnconfigureDevice, Doing, Kept
  <2>2. Stopped => OnStop(4)
    BY StepAt, Zenon DEF Stopped, Doing, Kept
  <2> QED
    BY <2>1, <2>2
<1>3. Stops(k)
  BY <1>0, <1>2 DEF Stops
<1>4. PnpInv' /\ HoldInv'
  BY <1>3, StopGoesOn, Zenon DEF Kept
<1> QED
  BY <1>0, <1>1, <1>4, LostAside DEF Kept, BlocksKept

LEMMA StopDownKeeps ==
    ASSUME Types, Kept, StopDown
    PROVE  Kept'
<1>0. UNCHANGED <<dx, phase, A, irp, lost, count>>
  BY DEF StopDown
<1>1. OnStop(5)
  BY StepAt, Zenon DEF StopDown, Doing, Kept
<1>2. phase = "added"
  BY <1>1, UnderWay DEF Kept
<1>4. todo'["pnp"] = <<>> /\ todo'["device"] = todo["device"]
  <2>1. todo' = [todo EXCEPT !["pnp"] = Tail(todo["pnp"])]
    BY DEF StopDown, Onward
  <2>2. Tail(todo["pnp"]) = Rest(StopSteps, 6) /\ 6 \in 1..6
    BY <1>1 DEF OnStop
  <2>3. Tail(todo["pnp"]) = <<>>
    BY <2>2, ProgramRests, Zenon
  <2> QED
    BY <2>1, <2>3 DEF Types, Threads
<1>5. os'.mgr = "stopped"
  BY DEF StopDown, Types
<1>6. PnpInv'
  BY <1>0, <1>2, <1>4, <1>5, NowBetween DEF Managed
<1>7. HoldInv'
  <2>1. B.holders \ {"pnp"} \subseteq B'.holders
    BY DEF StopDown, Types
  <2> QED
    BY <1>0, <1>2, <1>4, <2>1, HoldAside DEF Kept
<1> QED
  BY <1>0, <1>6, <1>7, LostAside DEF Kept, BlocksKept

LEMMA DrainKeeps ==
    ASSUME Types, Kept, DrainA \/ CloseB \/ DrainB
    PROVE  Kept'
<1>0. UNCHANGED <<dx, phase, os, A, irp, lost, count>> /\ Onward("pnp")
  BY DEF DrainA, CloseB, DrainB
<1>2. PnpInv' /\ HoldInv'
  <2>1. CASE DrainA
    <3>1. OnRemove(1)
      BY <2>1, StepAt, Zenon DEF DrainA, Doing, Kept
    <3>2. Removes(1)
      BY <1>0, <2>1, <3>1 DEF DrainA, Removes
    <3> QED
      BY <3>2, RemoveGoesOn, Zenon DEF Kept
  <2>2. CASE CloseB
    <3>1. OnRemove(7)
      BY <2>2, StepAt, Zenon DEF CloseB, Doing, Kept
    <3>2. os.bus = "removed" /\ B'.closed /\ B.holders \ {"pnp"} \subseteq B'.holders
      BY <2>2, <3>1 DEF CloseB, OnRemove, Removing
    <3>3. Removes(7)
      BY <1>0, <3>1, <3>2 DEF Removes
    <3> QED
      BY <3>3, RemoveGoesOn, Zenon DEF Kept
  <2>3. CASE DrainB
    <3>1. OnRemove(8)
      BY <2>3, StepAt, Zenon DEF DrainB, Doing, Kept
    <3>2. os.bus = "removed" /\ B.closed /\ B.holders = {} /\ B' = B
      BY <2>3, <3>1 DEF DrainB, OnRemove, Removing
    <3>3. Removes(8)
      BY <1>0, <3>1, <3>2 DEF Removes
    <3> QED
      BY <3>3, RemoveGoesOn, Zenon DEF Kept
  <2> QED
    BY <2>1, <2>2, <2>3
<1> QED
  BY <1>0, <1>2, LostAside DEF Kept, BlocksKept

LEMMA RegistryRemoveKeeps ==
    ASSUME Types, Kept, RegistryRemove
    PROVE  Kept'
<1>0. UNCHANGED <<phase, os, A, B, irp, lost, count>> /\ Onward("pnp")
  BY DEF RegistryRemove
<1>1. dx'.ptr \subseteq dx.ptr
  BY DEF RegistryRemove, Unregistered, Types, Fields
<1>2. OnRemove(2)
  BY StepAt, Zenon DEF RegistryRemove, Doing, Kept
<1>3. Removes(2)
  BY <1>0, <1>2 DEF Removes
<1>4. PnpInv' /\ HoldInv'
  BY <1>3, RemoveGoesOn, Zenon DEF Kept
<1>5. LostInv'
  BY <1>0, <1>1 DEF Kept, LostInv
<1> QED
  BY <1>4, <1>5 DEF Kept

LEMMA AbortKeeps ==
    ASSUME Types, Kept, Abort
    PROVE  Kept'
<1>0. UNCHANGED <<phase, os, A, B, irp, lost, count>> /\ Onward("pnp")
  BY DEF Abort
<1>1. OnRemove(5)
  BY StepAt, Zenon DEF Abort, Doing, Kept
<1>2. dx'.ptr = dx.ptr
  BY PollingOnly DEF Abort
<1>3. Removes(5)
  BY <1>0, <1>1 DEF Removes
<1>4. PnpInv' /\ HoldInv'
  BY <1>3, RemoveGoesOn, Zenon DEF Kept
<1> QED
  BY <1>0, <1>2, <1>4, LostAside DEF Kept, BlocksKept

LEMMA RemoveDownKeeps ==
    ASSUME Types, Kept, RemoveDown
    PROVE  Kept'
<1>0. /\ UNCHANGED <<phase, A, B, irp, lost, count>> /\ Onward("pnp")
      /\ os'.mgr = os.mgr /\ os'.bus = "removed"
  BY DEF RemoveDown, Types
<1>1. OnRemove(6)
  BY StepAt, Zenon DEF RemoveDown, Doing, Kept
<1>2. dx'.ptr = dx.ptr
  BY DEF RemoveDown, Types, Fields
<1>3. Removes(6)
  BY <1>0, <1>1 DEF Removes
<1>4. PnpInv' /\ HoldInv'
  BY <1>3, RemoveGoesOn, Zenon DEF Kept
<1> QED
  BY <1>0, <1>2, <1>4, LostAside DEF Kept, BlocksKept

(***************************************************************************)
(* Where the row goes the read is nobody's any more: the bus has given it  *)
(* back, its completion is over, and no thread is left that would submit.  *)
(***************************************************************************)
LEMMA UnwireKeeps ==
    ASSUME Types, Kept, ReadInv, UnwireDevice
    PROVE  Kept'
<1>0. UNCHANGED <<phase, os, A, B, irp, lost, count>> /\ Onward("pnp")
  BY DEF UnwireDevice
<1>1. OnRemove(9)
  BY StepAt, Zenon DEF UnwireDevice, Doing, Kept
<1>2. B.closed /\ B.holders = {} /\ os.bus = "removed"
  BY <1>1 DEF OnRemove, Removing
<1>3. dx.read = "none"
  <2>1. dx.read \notin {"passed", "failed", "out"}
    BY <1>2 DEF UnwireDevice, DpcsFlushed, ReadInv
  <2>2. dx.read # "pnp"
    BY DEF UnwireDevice, Doing, ReadInv
  <2>3. dx.read # "device"
    BY <1>2 DEF ReadInv, Kept, HoldInv
  <2> QED
    BY <2>1, <2>2, <2>3 DEF Types, Reads, Threads
<1>4. dx'.read = dx.read /\ dx'.ptr \subseteq dx.ptr \ {"InterfaceName", "PollWorkItem"}
  <2>1. /\ DOMAIN Unregistered(dx) = Fields /\ Unregistered(dx).ptr = dx.ptr \ {"InterfaceName"}
        /\ Unregistered(dx).read = dx.read
    BY DEF Unregistered, Types, Fields
  <2> QED
    BY <2>1 DEF UnwireDevice, Fields
<1>5. dx'.ptr \subseteq Fetched
  BY <1>4 DEF Types, Blocks, Fetched
<1>6. Removes(9)
  BY <1>0, <1>1, <1>2, <1>3, <1>4, <1>5 DEF Removes
<1>7. PnpInv' /\ HoldInv'
  BY <1>6, RemoveGoesOn, Zenon DEF Kept
<1>8. LostInv'
  BY <1>0, <1>4 DEF Kept, LostInv
<1> QED
  BY <1>7, <1>8 DEF Kept

(* The end of a removal: nothing is left that would come back to the extension. *)
LEMMA FreeKeeps ==
    ASSUME Types, Kept, FreeDeviceResources
    PROVE  Kept'
<1>0. UNCHANGED <<os, A, B, irp, lost, count>> /\ phase' = "freed"
  BY DEF FreeDeviceResources
<1>1. OnRemove(10)
  BY StepAt, Zenon DEF FreeDeviceResources, Doing, Kept
<1>2. /\ B.closed /\ B.holders = {} /\ A.closed /\ A.holders = {} /\ os.bus = "removed"
      /\ dx.read = "none" /\ dx.ptr \subseteq Fetched
  BY <1>1 DEF OnRemove, Removing
<1>3. phase = "added" /\ os.mgr = "removing"
  BY <1>1, UnderWay DEF Kept, OnRemove
<1>4. dx'.read = dx.read /\ dx'.ptr = {}
  <2>1. dx'.read = dx.read /\ dx'.ptr \subseteq dx.ptr \ {"ConfigDescriptor", "InterfaceInfo"}
    BY DEF FreeDeviceResources, Types, Fields
  <2> QED
    BY <1>2, <2>1 DEF Fetched
<1>6. todo'["pnp"] = Rest(RemoveSteps, 11) /\ todo'["device"] = todo["device"]
  BY <1>1 DEF FreeDeviceResources, Onward, OnRemove, Types, Threads
<1>7. PnpInv'
  <2>1. Removing(11)'
    BY <1>0, <1>2, <1>4, <1>6 DEF Removing
  <2> QED
    BY <1>0, <1>3, <2>1, NowRemoving
<1>8. HoldInv'
  <2>1. irp.device.at = "none" /\ irp.wake \notin {"pending", "woken"}
    BY <1>2 DEF Kept, HoldInv
  <2>2. PICK k \in 1..5 : Descending(k)
    BY DEF Kept, HoldInv
  <2>3. Descending(k)'
    BY <1>0, <1>2, <1>6, <2>1, <2>2 DEF Descending
  <2> QED
    BY <1>0, <1>2, <2>1, <2>3 DEF HoldInv
<1>9. LostInv'
  BY <1>0, <1>3, <1>4 DEF Kept, LostInv
<1> QED
  BY <1>7, <1>8, <1>9 DEF Kept

--------------------------------------------------------------------------------
(* AddDevice and the requests of the PnP manager *)

LEMMA AddKeeps ==
    ASSUME Types, Kept, AddDevice
    PROVE  Kept'
<1>0. UNCHANGED <<todo, A, B, irp, count>> /\ phase = "absent"
  BY DEF AddDevice
<1>1. os.mgr = "absent" /\ todo["pnp"] = <<>> /\ count.starts = 0
  BY <1>0 DEF Kept, PnpInv, LostInv
<1>2. /\ dx.ptr \cap Fetched = {} /\ lost = {} /\ A.holders = {}
      /\ irp.device.at = "none" /\ irp.wake \notin {"pending", "woken"}
  BY <1>0, <1>1 DEF Kept, LostInv, HoldInv
<1>3. dx'.ptr \cap Fetched = {}
  <2>1. DOMAIN Initialised(dx) = Fields /\ Initialised(dx).ptr = dx.ptr
    BY DEF Initialised, Types, Fields
  <2>2. CASE dx' = Initialised(dx)
    BY <1>2, <2>1, <2>2
  <2>3. CASE dx' = [Initialised(dx) EXCEPT !.ptr = {"PollWorkItem", "InterfaceName"},
                                           !.Registration = "down"]
    <3>1. dx'.ptr = {"PollWorkItem", "InterfaceName"}
      BY <2>1, <2>3 DEF Fields
    <3> QED
      BY <3>1 DEF Fetched
  <2> QED
    BY <2>2, <2>3 DEF AddDevice
<1>4. PnpInv'
  <2>1. CASE phase' = "refused" /\ os' = os
    BY <1>0, <1>1, <2>1 DEF PnpInv
  <2>2. CASE phase' = "added" /\ os'.mgr = "new"
    BY <1>0, <1>1, <2>2, NowBetween DEF Managed
  <2> QED
    BY <2>1, <2>2 DEF AddDevice, Types
<1>5. HoldInv'
  <2>1. PICK k \in 1..5 : Descending(k)
    BY DEF Kept, HoldInv
  <2>2. ~(k <= 4)
    BY <1>0, <2>1 DEF Descending
  <2>3. Descending(k)'
    BY <1>0, <2>1, <2>2 DEF Descending
  <2> QED
    BY <1>0, <1>2, <2>3 DEF HoldInv
<1>6. LostInv'
  BY <1>0, <1>1, <1>2, <1>3 DEF LostInv, AddDevice
<1> QED
  BY <1>4, <1>5, <1>6 DEF Kept

LEMMA StartRequestKeeps ==
    ASSUME Types, Kept, StartDevice
    PROVE  Kept'
<1>0. /\ UNCHANGED <<dx, phase, irp, lost>> /\ phase = "added"
      /\ os.mgr \in {"new", "stopped"}
  BY DEF StartDevice, Idle, histories
<1>2. count'.starts = count.starts + 1 /\ count.starts \in Nat
  BY DEF StartDevice, Spend, Types
<1>3. todo'["pnp"] = Rest(StartSteps, 1) /\ todo'["device"] = todo["device"]
  <2>1. todo' = [todo EXCEPT !["pnp"] = StartSteps]
    BY DEF StartDevice, Enters, StartSteps
  <2>2. 1 \in 1..10
    OBVIOUS
  <2>3. Rest(StartSteps, 1) = StartSteps
    BY <2>2, ProgramRests, Zenon
  <2> QED
    BY <2>1, <2>3 DEF Types, Threads
<1>4. os'.mgr = "starting" /\ B.holders \subseteq B'.holders
  BY DEF StartDevice, Enters, Types
<1>5. Starting(1)'
  <2>1. count'.starts = 1 => dx'.ptr \cap Fetched = {}
    BY <1>0, <1>2 DEF Kept, LostInv
  <2> QED
    BY <1>2, <1>3, <2>1 DEF Starting, Fetched
<1>6. PnpInv'
  BY <1>0, <1>4, <1>5, NowStarting
<1>7. HoldInv'
  BY <1>0, <1>3, <1>4, HoldAside DEF Kept
<1>8. LostInv'
  BY <1>0, <1>2 DEF Kept, LostInv
<1> QED
  BY <1>6, <1>7, <1>8 DEF Kept

LEMMA QueryKeeps ==
    ASSUME Types, Kept,
           \/ QueryRemove \/ CancelRemove \/ QueryStop \/ CancelStop \/ SurpriseRemoval
    PROVE  Kept'
<1>0. UNCHANGED <<phase, todo, A, B, irp, lost>> /\ phase = "added" /\ todo["pnp"] = <<>>
  BY DEF QueryRemove, CancelRemove, QueryStop, CancelStop, Query, SurpriseRemoval, Idle,
         histories
<1>1. os'.mgr \in {"running", "stop_asked", "remove_asked", "surprised"}
  BY DEF QueryRemove, CancelRemove, QueryStop, CancelStop, Query, SurpriseRemoval, Types
<1>2. BlocksKept
  <2>1. CASE QueryRemove \/ CancelRemove
    BY <1>0, <2>1 DEF QueryRemove, CancelRemove, BlocksKept, Types, Fields
  <2>2. CASE QueryStop \/ CancelStop
    BY <1>0, <2>2 DEF QueryStop, CancelStop, BlocksKept, Types, Fields
  <2>3. CASE SurpriseRemoval
    BY <1>0, <2>3 DEF SurpriseRemoval, BlocksKept
  <2> QED
    BY <2>1, <2>2, <2>3
<1>3. count'.starts = count.starts
  BY DEF QueryRemove, CancelRemove, QueryStop, CancelStop, Query, SurpriseRemoval, Spend, Types
<1>4. PnpInv'
  BY <1>0, <1>1, NowBetween DEF Managed
<1>5. HoldInv'
  BY <1>0, HoldAside DEF Kept
<1> QED
  BY <1>0, <1>1, <1>2, <1>3, <1>4, <1>5, LostAside DEF Kept

LEMMA UnplugKeeps ==
    ASSUME Types, Kept, Unplug
    PROVE  Kept'
<1>0. UNCHANGED <<dx, phase, todo, A, B, irp, lost, count>> /\ phase = "added"
  BY DEF Unplug, histories
<1>1. os'.mgr = os.mgr /\ os'.bus = os.bus
  BY DEF Unplug, Types
<1>2. BlocksKept
  BY <1>0 DEF BlocksKept
<1>3. PnpInv'
  BY <1>0, <1>1, <1>2, PnpAside DEF Kept
<1>4. HoldInv'
  BY <1>0, HoldAside DEF Kept
<1> QED
  BY <1>0, <1>1, <1>2, <1>3, <1>4, LostAside DEF Kept

LEMMA StopRequestKeeps ==
    ASSUME Types, Kept, StopDevice
    PROVE  Kept'
<1>0. UNCHANGED <<dx, phase, A, irp, lost, count>> /\ phase = "added"
  BY DEF StopDevice, Idle, histories
<1>1. todo'["pnp"] = Rest(StopSteps, 1) /\ todo'["device"] = todo["device"]
  <2>1. todo' = [todo EXCEPT !["pnp"] = StopSteps]
    BY DEF StopDevice, Enters, StopSteps
  <2>2. 1 \in 1..6
    OBVIOUS
  <2>3. Rest(StopSteps, 1) = StopSteps
    BY <2>2, ProgramRests, Zenon
  <2> QED
    BY <2>1, <2>3 DEF Types, Threads
<1>2. os'.mgr = "stopping" /\ B.holders \subseteq B'.holders
  BY DEF StopDevice, Enters, Types
<1>3. Stopping(1)'
  BY <1>1 DEF Stopping
<1>4. PnpInv'
  BY <1>0, <1>2, <1>3, NowStopping
<1>5. HoldInv'
  BY <1>0, <1>1, <1>2, HoldAside DEF Kept
<1> QED
  BY <1>0, <1>4, <1>5, LostAside DEF Kept, BlocksKept

LEMMA RemoveRequestKeeps ==
    ASSUME Types, Kept, RemoveDevice
    PROVE  Kept'
<1>0. UNCHANGED <<phase, irp, lost, count>> /\ phase = "added"
  BY DEF RemoveDevice, Idle, histories
<1>1. todo'["pnp"] = Rest(RemoveSteps, 1) /\ todo'["device"] = todo["device"]
  <2>1. todo' = [todo EXCEPT !["pnp"] = RemoveSteps]
    BY DEF RemoveDevice, Enters, RemoveSteps
  <2>2. 1 \in 1..11
    OBVIOUS
  <2>3. Rest(RemoveSteps, 1) = RemoveSteps
    BY <2>2, ProgramRests, Zenon
  <2> QED
    BY <2>1, <2>3 DEF Types, Threads
<1>2. os'.mgr = "removing" /\ B.holders \subseteq B'.holders
  BY DEF RemoveDevice, Enters, Types
<1>3. A'.closed /\ A'.holders = A.holders
  BY DEF RemoveDevice, Types
<1>4. BlocksKept
  BY <1>0 DEF RemoveDevice, BlocksKept, Types, Fields
<1>5. PnpInv'
  <2>1. Removing(1)'
    BY <1>0, <1>1, <1>3 DEF Removing
  <2> QED
    BY <1>0, <1>2, <2>1, NowRemoving
<1>6. HoldInv'
  BY <1>0, <1>1, <1>2, HoldAside DEF Kept
<1> QED
  BY <1>0, <1>4, <1>5, <1>6, LostAside DEF Kept

LEMMA PlainStepsKeep ==
    ASSUME Types, Kept,
           SetStarted \/ QueryFirmwareInfo \/ SetDeviceName \/ StartPolling \/ Publish
    PROVE  Kept'
<1>1. PICK k \in 4..8 : OnStart(k)
  <2>1. SetStarted => OnStart(4)
    BY StepAt, Zenon DEF SetStarted, Doing, Kept
  <2>2. QueryFirmwareInfo => OnStart(5)
    BY StepAt, Zenon DEF QueryFirmwareInfo, Doing, Kept
  <2>3. SetDeviceName => OnStart(6)
    BY StepAt, Zenon DEF SetDeviceName, Doing, Kept
  <2>4. StartPolling => OnStart(7)
    BY StepAt, Zenon DEF StartPolling, Doing, Kept
  <2>5. Publish => OnStart(8)
    BY StepAt, Zenon DEF Publish, Doing, Kept
  <2>6. {4, 5, 6, 7, 8} \subseteq 4..8
    OBVIOUS
  <2> QED
    BY <2>1, <2>2, <2>3, <2>4, <2>5, <2>6
<1>2. Onward("pnp") /\ UNCHANGED <<phase, os, irp, A, B, lost, count>>
  BY DEF SetStarted, QueryFirmwareInfo, SetDeviceName, StartPolling, Publish
<1>3. dx'.ptr = dx.ptr
  <2>1. CASE SetStarted \/ QueryFirmwareInfo \/ StartPolling
    BY <2>1 DEF SetStarted, QueryFirmwareInfo, StartPolling, PollStart, Types, Fields
  <2>2. CASE SetDeviceName \/ Publish
    BY <2>2 DEF SetDeviceName, Publish, Types, Fields
  <2> QED
    BY <2>1, <2>2
<1> QED
  BY <1>1, <1>2, <1>3, PlainStartKeeps DEF BlocksKept

--------------------------------------------------------------------------------
(* Reads, hidclass and power *)

LEMMA PollKeeps ==
    ASSUME Types, Kept, ReadReturns \/ ReadStops \/ PollSubmit
    PROVE  Kept'
<1>0. /\ UNCHANGED <<phase, os, todo, A, B, irp, lost, count>>
      /\ dx.read # "none"
  BY DEF ReadReturns, ReadStops, PollSubmit, Threads
<1>1. dx'.ptr = dx.ptr
  BY DEF ReadReturns, ReadStops, PollSubmit, Retired, Types, Fields
<1>2. PnpInv'
  BY <1>0, <1>1, PnpAside DEF Kept
<1>3. HoldInv'
  BY <1>0, HoldAside DEF Kept, HoldInv
<1> QED
  BY <1>0, <1>1, <1>2, <1>3, LostAside DEF Kept, BlocksKept

LEMMA HidKeeps ==
    ASSUME Types, Kept, HidRequest \/ HidRequestReturns \/ ParkedReadEnds
    PROVE  Kept'
<1>0. UNCHANGED <<dx, phase, os, todo, irp, lost>>
  BY DEF HidRequest, HidRequestReturns, ParkedReadEnds, histories
<1>1. /\ count'.starts = count.starts /\ A'.closed = A.closed
      /\ A.closed => A'.holders \subseteq A.holders
      /\ A'.holders # {} => phase = "added"
  <2>1. CASE HidRequest
    BY <2>1 DEF HidRequest, Spend, Types
  <2>2. CASE HidRequestReturns \/ ParkedReadEnds
    BY <2>2 DEF HidRequestReturns, ParkedReadEnds, Types, Kept, HoldInv
  <2> QED
    BY <2>1, <2>2
<1>2. /\ B'.closed = B.closed /\ B.holders \ {"hid"} \subseteq B'.holders
      /\ B.closed => B'.holders \subseteq B.holders
  BY DEF HidRequest, HidRequestReturns, ParkedReadEnds, Types
<1>3. PnpInv'
  BY <1>0, <1>1, <1>2, PnpAside DEF Kept
<1>4. HoldInv'
  <2>1. B.holders \ {"pnp", "hid"} \subseteq B'.holders
    BY <1>2
  <2> QED
    BY <1>0, <1>1, <2>1, HoldAside DEF Kept
<1> QED
  BY <1>0, <1>1, <1>3, <1>4, LostAside DEF Kept, BlocksKept

(***************************************************************************)
(* A step of the power dispatcher or of a wake: the PnP request, the bus   *)
(* and the blocks are left alone, and RemoveLockB is taken only while it   *)
(* is open.                                                                *)
(***************************************************************************)
PowerAlone ==
    /\ UNCHANGED <<phase, os, A, lost>> /\ todo'["pnp"] = todo["pnp"]
    /\ dx'.ptr = dx.ptr /\ (B.holders = {} /\ dx.read = "none" => dx'.read = "none")
    /\ B'.closed = B.closed /\ (B.closed => B'.holders \subseteq B.holders)
    /\ count'.starts = count.starts

LEMMA PowerAloneKeeps ==
    ASSUME Kept, PowerAlone
    PROVE  PnpInv' /\ LostInv'
<1>1. PnpInv'
  BY PnpAside DEF Kept, PowerAlone
<1>2. LostInv'
  BY LostAside DEF Kept, PowerAlone, BlocksKept
<1> QED
  BY <1>1, <1>2

LEMMA SystemPowerKeeps ==
    ASSUME Types, Kept, \E s \in {S0, S3} : SystemPower(s)
    PROVE  Kept'
<1>0. UNCHANGED <<phase, os, todo, A, lost>> /\ phase = "added" /\ ~B.closed
  BY DEF SystemPower, histories
<1>1. irp.device.at = "none" /\ todo["device"] = <<>>
  BY DEF SystemPower
<1>2. dx'.read = dx.read /\ dx'.ptr = dx.ptr
  BY DEF SystemPower, Park, Types, Fields
<1>3. B'.closed = B.closed /\ B.holders \subseteq B'.holders
  BY DEF SystemPower, Park, Types
<1>4. count'.starts = count.starts
  BY DEF SystemPower, Spend, Types
<1>5. PnpInv' /\ LostInv'
  BY <1>0, <1>2, <1>3, <1>4, PowerAloneKeeps DEF PowerAlone
<1>6. /\ irp'.wake = irp.wake
      /\ irp'.device.at \in {"none", "requested"}
      /\ irp'.device.at # "none" => "system" \in B'.holders
  <2>1. CASE \E s \in {S0, S3} : irp' = [irp EXCEPT !.system = s]
    BY <1>1, <2>1 DEF Types
  <2>2. CASE irp' = irp
    BY <1>1, <2>2
  <2>3. CASE \E s \in {S0, S3} : Park(s) /\ \E want :
                irp' = [irp EXCEPT !.device = [at |-> "requested", state |-> want]]
    <3>1. "system" \in B'.holders
      BY <2>3 DEF Park, Types
    <3>2. irp'.wake = irp.wake /\ irp'.device.at = "requested"
      BY <2>3 DEF Types
    <3> QED
      BY <3>1, <3>2
  <2> QED
    BY <2>1, <2>2, <2>3 DEF SystemPower
<1>7. Descending(5)'
  <2>1. 5 \in 1..5
    OBVIOUS
  <2>2. Rest(DeviceSteps, 5) = <<>>
    BY <2>1, ProgramRests, Zenon
  <2> QED
    BY <1>0, <1>1, <1>6, <2>2 DEF Descending
<1>8. HoldInv'
  BY <1>0, <1>3, <1>6, <1>7 DEF Kept, HoldInv
<1> QED
  BY <1>5, <1>8 DEF Kept

LEMMA DevicePowerKeeps ==
    ASSUME Types, Kept, DevicePower
    PROVE  Kept'
<1>0. UNCHANGED <<phase, os, A, lost, count>> /\ irp.device.at = "requested"
  BY DEF DevicePower
<1>1. phase = "added" /\ "system" \in B.holders
  BY <1>0 DEF Kept, HoldInv
<1>2. todo["device"] = Rest(DeviceSteps, 5)
  BY <1>0 DEF Kept, HoldInv, Descending
<1>3. dx'.read = dx.read /\ dx'.ptr = dx.ptr
  BY DEF DevicePower, Types, Fields
<1>4. /\ todo'["pnp"] = todo["pnp"] /\ B'.closed = B.closed
      /\ B.closed => B' = B /\ B.holders \subseteq B'.holders
      /\ B.holders \subseteq B'.holders
  BY DEF DevicePower, Types, Threads
<1>5. PnpInv' /\ LostInv'
  BY <1>0, <1>3, <1>4, PowerAloneKeeps DEF PowerAlone
<1>6. irp'.wake = irp.wake /\ \E k \in 1..5 : Descending(k)'
  <2>1. CASE irp' = [irp EXCEPT !.device.at = "complete"] /\ todo' = todo
    <3>1. irp'.device.at = "complete" /\ irp'.wake = irp.wake
      BY <2>1, RequestMoves
    <3> QED
      BY <1>2, <2>1, <3>1 DEF Descending
  <2>2. CASE irp' = [irp EXCEPT !.device.at = "coming_up"] /\ todo' = todo
    <3>1. irp'.device.at = "coming_up" /\ irp'.wake = irp.wake
      BY <2>2, RequestMoves
    <3> QED
      BY <1>2, <2>2, <3>1 DEF Descending
  <2>3. CASE /\ irp' = [irp EXCEPT !.device.at = "prepared"]
             /\ B' = [B EXCEPT !.holders = @ \cup {"device"}]
             /\ \/ todo' = [todo EXCEPT !["device"] = DeviceSteps]
                \/ todo' = [todo EXCEPT !["device"] = <<"power_down", "power_answer">>]
    <3>1. /\ irp'.device.at = "prepared" /\ irp'.wake = irp.wake
          /\ "device" \in B'.holders
      BY <2>3, RequestMoves DEF Types
    <3>2. Rest(DeviceSteps, 1) = DeviceSteps
      <4>1. 1 \in 1..5
        OBVIOUS
      <4> QED
        BY <4>1, ProgramRests, Zenon
    <3>3. Rest(DeviceSteps, 3) = <<"power_down", "power_answer">>
      <4>1. /\ Rest(DeviceSteps, 2) = Tail(DeviceSteps)
            /\ Rest(DeviceSteps, 3) = Tail(Rest(DeviceSteps, 2))
        <5>1. /\ 1 \in 1..5 /\ 1 <= 4 /\ 1 + 1 = 2
              /\ 2 \in 1..5 /\ 2 <= 4 /\ 2 + 1 = 3
          OBVIOUS
        <5> QED
          BY <3>2, <5>1, ProgramRests, Zenon
      <4>2. Tail(DeviceSteps) = <<"quiesce", "power_down", "power_answer">>
        BY DEF DeviceSteps
      <4>3. Tail(<<"quiesce", "power_down", "power_answer">>) = <<"power_down", "power_answer">>
        OBVIOUS
      <4> QED
        BY <4>1, <4>2, <4>3
    <3>4. CASE todo' = [todo EXCEPT !["device"] = DeviceSteps]
      <4>1. todo'["device"] = Rest(DeviceSteps, 1)
        BY <3>2, <3>4 DEF Types, Threads
      <4>2. Descending(1)'
        BY <1>0, <1>1, <3>1, <4>1 DEF Descending
      <4> QED
        BY <3>1, <4>2
    <3>5. CASE todo' = [todo EXCEPT !["device"] = <<"power_down", "power_answer">>]
      <4>1. todo'["device"] = Rest(DeviceSteps, 3)
        BY <3>3, <3>5 DEF Types, Threads
      <4>2. Descending(3)'
        BY <1>0, <1>1, <3>1, <4>1 DEF Descending
      <4> QED
        BY <3>1, <4>2
    <3> QED
      BY <2>3, <3>4, <3>5
  <2> QED
    BY <2>1, <2>2, <2>3 DEF DevicePower, DeviceSteps
<1>7. HoldInv'
  BY <1>0, <1>1, <1>4, <1>6 DEF Kept, HoldInv
<1> QED
  BY <1>5, <1>7 DEF Kept
(* The preparation of a device request that goes down, a step further. *)
LEMMA DescentGoesOn ==
    ASSUME Types, HoldInv, NEW k \in 1..4, OnDescent(k), Onward("device"),
           UNCHANGED <<phase, A>>, irp'.wake = irp.wake,
           irp'.device.at = irp.device.at \/ (k = 3 /\ irp'.device.at = "going_down"),
           k = 3 => irp'.device.at = "going_down",
           B.holders \ {"device"} \subseteq B'.holders,
           k \in 1..3 => B' = B
    PROVE  HoldInv' /\ todo'["pnp"] = todo["pnp"]
<1>1. k + 1 \in 1..5 /\ phase = "added" /\ "device" \in B.holders
  BY DEF OnDescent, Descending
<1>2. todo'["device"] = Rest(DeviceSteps, k + 1) /\ todo'["pnp"] = todo["pnp"]
  BY DEF OnDescent, Onward, Types, Threads
<1>3. /\ k <= 3 <=> irp.device.at = "prepared"
      /\ irp.device.at \notin {"requested", "coming_up", "came_up"}
  BY DEF OnDescent, Descending
<1>4. Descending(k + 1)'
  BY <1>1, <1>2, <1>3 DEF Descending
<1>5. HoldInv'
  BY <1>1, <1>3, <1>4 DEF HoldInv
<1> QED
  BY <1>2, <1>5

LEMMA DevicePollingKeeps ==
    ASSUME Types, Kept,
           StopPolling("device", "stop_power", "power") \/ QuiesceIo("device")
    PROVE  Kept'
<1>0. UNCHANGED <<phase, os, A, B, irp, lost, count>> /\ Onward("device")
  BY DEF StopPolling, QuiesceIo
<1>1. dx'.ptr = dx.ptr /\ (dx'.read = dx.read \/ dx'.read = "none")
  BY PollingOnly DEF StopPolling, QuiesceIo
<1>2. PICK k \in {1, 2} : OnDescent(k)
  <2>1. StopPolling("device", "stop_power", "power") => OnDescent(1)
    BY DescentAt, Zenon DEF StopPolling, Doing, Kept
  <2>2. QuiesceIo("device") => OnDescent(2)
    BY DescentAt, Zenon DEF QuiesceIo, Doing, Kept
  <2> QED
    BY <2>1, <2>2
<1>3. HoldInv' /\ todo'["pnp"] = todo["pnp"]
  BY <1>0, <1>2, DescentGoesOn DEF Kept
<1>4. PnpInv' /\ LostInv'
  BY <1>0, <1>1, <1>3, PowerAloneKeeps DEF PowerAlone
<1> QED
  BY <1>3, <1>4 DEF Kept

LEMMA PowerDownKeeps ==
    ASSUME Types, Kept, PowerDown \/ PowerAnswered
    PROVE  Kept'
<1>0. UNCHANGED <<dx, phase, os, A, lost, count>> /\ Onward("device")
  BY DEF PowerDown, PowerAnswered
<1>2. /\ B'.closed = B.closed /\ B'.holders \subseteq B.holders
      /\ B.holders \ {"device"} \subseteq B'.holders
  BY DEF PowerDown, PowerAnswered, Types
<1>3. HoldInv' /\ todo'["pnp"] = todo["pnp"]
  <2>1. CASE PowerDown
    <3>1. OnDescent(3)
      BY <2>1, DescentAt, Zenon DEF PowerDown, Doing, Kept
    <3>2. irp'.wake = irp.wake /\ irp'.device.at = "going_down" /\ B' = B
      BY <2>1, RequestMoves DEF PowerDown
    <3> QED
      BY <1>0, <3>1, <3>2, DescentGoesOn DEF Kept
  <2>2. CASE PowerAnswered
    <3>1. OnDescent(4)
      BY <2>2, DescentAt, Zenon DEF PowerAnswered, Doing, Kept
    <3>2. irp' = irp
      BY <2>2 DEF PowerAnswered
    <3> QED
      BY <1>0, <1>2, <3>1, <3>2, DescentGoesOn DEF Kept
  <2> QED
    BY <2>1, <2>2
<1>4. PnpInv' /\ LostInv'
  BY <1>0, <1>2, <1>3, PowerAloneKeeps DEF PowerAlone
<1> QED
  BY <1>3, <1>4 DEF Kept

LEMMA BusPoweredDownKeeps ==
    ASSUME Types, Kept, BusPoweredDown
    PROVE  Kept'
<1>0. UNCHANGED <<dx, phase, os, todo, A, B, lost, count>>
  BY DEF BusPoweredDown, histories
<1>1. /\ irp.device.at = "going_down" /\ irp'.device.at = "complete"
      /\ irp'.wake = irp.wake
  BY RequestMoves DEF BusPoweredDown
<1>3. HoldInv'
  <2>1. PICK k \in 1..5 : Descending(k)
    BY DEF Kept, HoldInv
  <2>2. Descending(k)'
    BY <1>0, <1>1, <2>1 DEF Descending
  <2> QED
    BY <1>0, <1>1, <2>2 DEF Kept, HoldInv
<1>4. PnpInv' /\ LostInv'
  BY <1>0, PowerAloneKeeps DEF PowerAlone
<1> QED
  BY <1>3, <1>4 DEF Kept

LEMMA PowerUpKeeps ==
    ASSUME Types, Kept, PowerUpComplete \/ PowerUpReturns
    PROVE  Kept'
<1>0. UNCHANGED <<phase, os, todo, A, lost, count>>
  BY DEF PowerUpComplete, PowerUpReturns
<1>1. /\ irp.device.at \in {"coming_up", "came_up"}
      /\ irp'.device.at \in {"came_up", "complete"} /\ irp'.wake = irp.wake
  BY RequestMoves DEF PowerUpComplete, PowerUpReturns
<1>2. phase = "added" /\ "system" \in B.holders
  BY <1>1 DEF Kept, HoldInv
<1>3. /\ B'.closed = B.closed /\ B'.holders \subseteq B.holders
      /\ B.holders \ {"device"} \subseteq B'.holders
  BY DEF PowerUpComplete, PowerUpReturns, Types
<1>4. dx'.ptr = dx.ptr
  <2>1. CASE PowerUpComplete
    <3> DEFINE d == [dx EXCEPT !.DevicePowerState = D0]
    <3>1. DOMAIN d = Fields /\ d.ptr = dx.ptr
      BY DEF Types, Fields
    <3>2. dx' = PollStart(d, "power", "device")
      BY <2>1 DEF PowerUpComplete
    <3> HIDE DEF d
    <3> QED
      BY <3>1, <3>2 DEF PollStart, Fields
  <2>2. CASE PowerUpReturns
    BY <2>2 DEF PowerUpReturns
  <2> QED
    BY <2>1, <2>2
<1>5. HoldInv'
  <2>1. PICK k \in 1..5 : Descending(k)
    BY DEF Kept, HoldInv
  <2>2. k = 5
    BY <1>1, <2>1 DEF Descending
  <2>3. Descending(k)'
    BY <1>0, <1>1, <2>1, <2>2 DEF Descending
  <2> QED
    BY <1>0, <1>1, <1>2, <1>3, <2>3 DEF Kept, HoldInv
<1>6. PnpInv' /\ LostInv'
  BY <1>0, <1>2, <1>3, <1>4, PowerAloneKeeps DEF PowerAlone
<1> QED
  BY <1>5, <1>6 DEF Kept

LEMMA SystemPowerCompleteKeeps ==
    ASSUME Types, Kept, SystemPowerComplete
    PROVE  Kept'
<1>0. UNCHANGED <<phase, os, todo, A, lost, count>> /\ irp.device.at = "complete"
  BY DEF SystemPowerComplete
<1>1. irp'.device.at = "none" /\ irp'.wake = irp.wake
  BY DEF SystemPowerComplete, NoPower, Types
<1>2. B'.closed = B.closed /\ B'.holders = B.holders \ {"system"}
  BY DEF SystemPowerComplete, Types
<1>3. dx'.read = dx.read /\ dx'.ptr = dx.ptr
  BY DEF SystemPowerComplete, Types, Fields
<1>4. HoldInv'
  <2>1. PICK k \in 1..5 : Descending(k)
    BY DEF Kept, HoldInv
  <2>2. Descending(k)'
    BY <1>0, <1>1, <1>2, <2>1 DEF Descending
  <2> QED
    BY <1>0, <1>1, <1>2, <2>2 DEF Kept, HoldInv
<1>5. PnpInv' /\ LostInv'
  BY <1>0, <1>2, <1>3, PowerAloneKeeps DEF PowerAlone
<1> QED
  BY <1>4, <1>5 DEF Kept

LEMMA WakeKeeps ==
    ASSUME Types, Kept, WaitWake \/ WakeEnds \/ WaitWakeReturns
    PROVE  Kept'
<1>0. UNCHANGED <<phase, os, todo, A, lost, count>>
  BY DEF WaitWake, WakeEnds, WaitWakeReturns, histories
<1>1. /\ irp'.device.at = irp.device.at
      /\ irp'.wake \in {"pending", "woken"} => phase = "added" /\ "wake" \in B'.holders
  <2>1. CASE WaitWake
    BY <2>1 DEF WaitWake, Types
  <2>2. CASE WakeEnds
    BY <2>2 DEF WakeEnds, histories, Types, Kept, HoldInv
  <2>3. CASE WaitWakeReturns
    BY <2>3 DEF WaitWakeReturns, Types
  <2> QED
    BY <2>1, <2>2, <2>3
<1>2. /\ B'.closed = B.closed /\ B.holders \ {"wake"} \subseteq B'.holders
      /\ B.closed => B'.holders \subseteq B.holders
  BY DEF WaitWake, WakeEnds, WaitWakeReturns, Types
<1>3. dx'.read = dx.read /\ dx'.ptr = dx.ptr
  BY DEF WaitWake, WakeEnds, WaitWakeReturns, Types, Fields
<1>4. HoldInv'
  <2>1. PICK k \in 1..5 : Descending(k)
    BY DEF Kept, HoldInv
  <2>2. Descending(k)'
    BY <1>0, <1>1, <1>2, <2>1 DEF Descending
  <2> QED
    BY <1>0, <1>1, <1>2, <2>2 DEF Kept, HoldInv
<1>5. PnpInv' /\ LostInv'
  BY <1>0, <1>2, <1>3, PowerAloneKeeps DEF PowerAlone
<1> QED
  BY <1>4, <1>5 DEF Kept

--------------------------------------------------------------------------------
(* The poll read *)

(* A thread that is to submit the read does nothing else before. *)
LEMMA NotToSubmit ==
    ASSUME ReadInv, NEW s, s # "publish", todo["pnp"] = <<>> \/ Doing("pnp", s)
    PROVE  dx.read # "pnp"
BY DEF ReadInv, Doing

LEMMA RequestsKeepRead ==
    ASSUME Types, Kept, ReadInv,
           \/ AddDevice \/ StartDevice \/ QueryRemove \/ CancelRemove \/ QueryStop
           \/ CancelStop \/ StopDevice \/ Unplug \/ SurpriseRemoval \/ RemoveDevice
    PROVE  ReadInv'
<1>1. CASE AddDevice
  <2>1. dx.read = "none" /\ phase = "absent"
    BY <1>1 DEF AddDevice, ReadInv
  <2>2. dx'.read = dx.read
    <3>1. DOMAIN Initialised(dx) = Fields /\ Initialised(dx).read = dx.read
      BY DEF Initialised, Types, Fields
    <3> QED
      BY <1>1, <3>1 DEF AddDevice, Fields
  <2> QED
    BY <2>1, <2>2 DEF ReadInv
<1>2. CASE ~AddDevice
  <2>1. phase' = phase /\ irp' = irp /\ os'.bus = os.bus
    BY <1>2 DEF StartDevice, QueryRemove, CancelRemove, QueryStop, CancelStop, Query, StopDevice,
                Unplug, SurpriseRemoval, RemoveDevice, Enters, Types, histories
  <2>2. dx'.read = dx.read
    <3>1. CASE QueryRemove \/ CancelRemove \/ QueryStop \/ CancelStop
      BY <3>1 DEF QueryRemove, CancelRemove, QueryStop, CancelStop, Types, Fields
    <3>2. CASE StartDevice \/ StopDevice \/ Unplug \/ SurpriseRemoval \/ RemoveDevice
      BY <3>2 DEF StartDevice, StopDevice, Unplug, SurpriseRemoval, RemoveDevice, Types, Fields
    <3> QED
      BY <1>2, <3>1, <3>2
  <2>3. todo'["pnp"] = todo["pnp"] \/ todo["pnp"] = <<>>
    BY <1>2 DEF StartDevice, QueryRemove, CancelRemove, QueryStop, CancelStop, Query, StopDevice,
                Unplug, SurpriseRemoval, RemoveDevice, Idle
  <2>4. todo'["pnp"] = todo["pnp"] \/ dx.read # "pnp"
    BY <2>3, NotToSubmit
  <2> QED
    BY <2>1, <2>2, <2>4, ReadAside
<1> QED
  BY <1>1, <1>2

(* The polling of a START is on, and its thread has the read to submit. *)
LEMMA StartPollingKeepsRead ==
    ASSUME Types, Kept, ReadInv, StartPolling
    PROVE  ReadInv'
<1>1. OnStart(7) /\ phase = "added"
  <2>1. OnStart(7)
    BY StepAt, Zenon DEF StartPolling, Doing, Kept
  <2> QED
    BY <2>1, UnderWay DEF Kept
<1>2. todo'["pnp"] # <<>> /\ Head(todo'["pnp"]) = "publish"
  <2>1. todo'["pnp"] = Rest(StartSteps, 8)
    BY <1>1 DEF StartPolling, Onward, OnStart, Types, Threads
  <2>2. 8 \in 1..10 /\ 8 <= 9 /\ 8 # 10
    OBVIOUS
  <2>3. Rest(StartSteps, 8) # <<>> /\ Head(Rest(StartSteps, 8)) = StartSteps[8]
    BY <2>2, ProgramRests, Zenon
  <2>4. StartSteps[8] = "publish"
    BY DEF StartSteps
  <2> QED
    BY <2>1, <2>3, <2>4
<1>3. dx'.read \in {dx.read, "pnp"}
  BY DEF StartPolling, PollStart, Types, Fields
<1> QED
  BY <1>1, <1>2, <1>3 DEF StartPolling, ReadInv

LEMMA PnpStepsKeepRead ==
    ASSUME Types, Kept, ReadInv, PnpSteps
    PROVE  ReadInv'
<1>1. CASE StartPolling
  BY <1>1, StartPollingKeepsRead
<1>2. CASE Publish
  <2>1. dx'.read = dx.read /\ dx.read # "pnp"
    BY <1>2 DEF Publish, Types, Fields
  <2> QED
    BY <1>2, <2>1, ReadAside DEF Publish
<1>3. CASE \/ StartDown \/ FetchDeviceDescriptor \/ SelectConfiguration \/ SetStarted
           \/ QueryFirmwareInfo \/ SetDeviceName \/ StartAnswered
  <2>1. dx.read # "pnp"
    BY <1>3, NotToSubmit
       DEF StartDown, FetchDeviceDescriptor, SelectConfiguration, SetStarted,
           QueryFirmwareInfo, SetDeviceName, StartAnswered
  <2>2. dx'.read = dx.read
    <3>1. CASE StartDown \/ SetStarted \/ QueryFirmwareInfo \/ SetDeviceName \/ StartAnswered
      BY <3>1 DEF StartDown, SetStarted, QueryFirmwareInfo, SetDeviceName, StartAnswered, Types,
                  Fields
    <3>2. CASE FetchDeviceDescriptor
      BY <3>2 DEF FetchDeviceDescriptor, Repoint, DropDescriptor, Types, Fields
    <3>3. CASE SelectConfiguration
      BY <3>3 DEF SelectConfiguration, Types, Fields
    <3> QED
      BY <1>3, <3>1, <3>2, <3>3
  <2>3. phase' = phase /\ irp' = irp /\ (os'.bus = "removed" => os.bus = "removed")
    BY <1>3 DEF StartDown, FetchDeviceDescriptor, SelectConfiguration, SetStarted,
                QueryFirmwareInfo, SetDeviceName, StartAnswered, Types
  <2> QED
    BY <2>1, <2>2, <2>3, ReadAside
<1>4. CASE \/ UnconfigureDevice \/ Stopped \/ StopDown \/ DrainA \/ RegistryRemove
           \/ CloseB \/ DrainB \/ UnwireDevice
  <2>1. dx.read # "pnp"
    BY <1>4, NotToSubmit
       DEF UnconfigureDevice, Stopped, StopDown, DrainA, RegistryRemove, CloseB, DrainB,
           UnwireDevice
  <2>2. dx'.read = dx.read
    <3>1. CASE UnconfigureDevice \/ Stopped \/ StopDown \/ DrainA \/ CloseB \/ DrainB
      BY <3>1 DEF UnconfigureDevice, Stopped, StopDown, DrainA, CloseB, DrainB, Types, Fields
    <3>2. CASE RegistryRemove \/ UnwireDevice
      <4>1. DOMAIN Unregistered(dx) = Fields /\ Unregistered(dx).read = dx.read
        BY DEF Unregistered, Types, Fields
      <4> QED
        BY <3>2, <4>1 DEF RegistryRemove, UnwireDevice, Fields
    <3> QED
      BY <1>4, <3>1, <3>2
  <2>3. phase' = phase /\ irp' = irp /\ (os'.bus = "removed" => os.bus = "removed")
    BY <1>4 DEF UnconfigureDevice, Stopped, StopDown, DrainA, RegistryRemove, CloseB, DrainB,
                UnwireDevice, Types
  <2> QED
    BY <2>1, <2>2, <2>3, ReadAside
<1>5. CASE \/ \E s \in {"stop_pnp", "stop_remove"} : \E r \in {"pnp", "remove"} :
                 StopPolling("pnp", s, r)
           \/ QuiesceIo("pnp") \/ Abort
  <2>1. dx.read # "pnp"
    BY <1>5, NotToSubmit DEF StopPolling, QuiesceIo, Abort
  <2>2. dx'.read = dx.read \/ dx'.read = "none"
    BY <1>5, PollingOnly DEF StopPolling, QuiesceIo, Abort
  <2>3. phase' = phase /\ irp' = irp /\ os' = os
    BY <1>5 DEF StopPolling, QuiesceIo, Abort
  <2> QED
    BY <2>1, <2>2, <2>3 DEF ReadInv
<1>6. CASE RemoveDown
  <2>1. dx.read # "pnp"
    BY <1>6, NotToSubmit DEF RemoveDown
  <2>2. dx'.read = IF dx.read = "out" THEN "failed" ELSE dx.read
    BY <1>6 DEF RemoveDown, Types, Fields
  <2> QED
    BY <1>6, <2>1, <2>2 DEF RemoveDown, ReadInv
<1>7. CASE FreeDeviceResources
  <2>1. OnRemove(10)
    BY <1>7, StepAt, Zenon DEF FreeDeviceResources, Doing, Kept
  <2>2. dx'.read = "none"
    BY <1>7, <2>1 DEF FreeDeviceResources, OnRemove, Removing, Types, Fields
  <2> QED
    BY <2>2 DEF ReadInv
<1> QED
  BY <1>1, <1>2, <1>3, <1>4, <1>5, <1>6, <1>7 DEF PnpSteps

LEMMA PollKeepsRead ==
    ASSUME Types, ReadInv, ReadReturns \/ ReadStops \/ PollSubmit
    PROVE  ReadInv'
<1>1. UNCHANGED <<phase, os, todo, irp>> /\ dx.read # "none"
  BY DEF ReadReturns, ReadStops, PollSubmit, Threads
<1>2. \/ dx'.read \in {"none", "passed", "failed"}
      \/ dx'.read = "out" /\ os.bus # "removed"
  BY DEF ReadReturns, ReadStops, PollSubmit, Retired, Types, Fields
<1> QED
  BY <1>1, <1>2 DEF ReadInv

LEMMA PowerUpKeepsRead ==
    ASSUME Types, Kept, ReadInv, PowerUpComplete
    PROVE  ReadInv'
<1> DEFINE d == [dx EXCEPT !.DevicePowerState = D0]
<1>1. DOMAIN d = Fields /\ d.read = dx.read
  BY DEF Types, Fields
<1>2. dx' = PollStart(d, "power", "device")
  BY DEF PowerUpComplete
<1> HIDE DEF d
<1>3. dx'.read \in {dx.read, "device"}
  BY <1>1, <1>2 DEF PollStart, Fields
<1>4. irp'.device.at = "came_up" /\ UNCHANGED <<phase, os, todo>> /\ phase = "added"
  BY RequestMoves DEF PowerUpComplete, Kept, HoldInv
<1> QED
  BY <1>3, <1>4 DEF ReadInv

LEMMA PowerKeepsRead ==
    ASSUME Types, Kept, ReadInv,
           \/ HidRequest \/ HidRequestReturns \/ ParkedReadEnds \/ WaitWake \/ WakeEnds
           \/ (\E s \in {S0, S3} : SystemPower(s)) \/ PowerSteps
    PROVE  ReadInv'
<1>1. CASE PowerUpComplete
  BY <1>1, PowerUpKeepsRead
<1>2. CASE PowerUpReturns
  <2>1. UNCHANGED <<dx, phase, os, todo>> /\ dx.read # "device"
    BY <1>2 DEF PowerUpReturns
  <2> QED
    BY <2>1 DEF ReadInv
<1>3. CASE StopPolling("device", "stop_power", "power") \/ QuiesceIo("device")
  <2>1. dx'.read = dx.read \/ dx'.read = "none"
    BY <1>3, PollingOnly DEF StopPolling, QuiesceIo
  <2>2. UNCHANGED <<phase, os, irp>> /\ todo'["pnp"] = todo["pnp"]
    BY <1>3 DEF StopPolling, QuiesceIo, Onward, Types, Threads
  <2> QED
    BY <2>1, <2>2 DEF ReadInv
<1>4. CASE DevicePower
  <2>1. dx'.read = dx.read /\ todo'["pnp"] = todo["pnp"] /\ irp.device.at # "came_up"
    BY <1>4 DEF DevicePower, Types, Fields, Threads
  <2> QED
    BY <1>4, <2>1, ReadAside DEF DevicePower
<1>5. CASE \/ PowerDown \/ PowerAnswered \/ BusPoweredDown \/ SystemPowerComplete
  <2>1. dx'.read = dx.read /\ UNCHANGED <<phase, os>>
    BY <1>5 DEF PowerDown, PowerAnswered, BusPoweredDown, SystemPowerComplete, Types, Fields,
                histories
  <2>2. todo'["pnp"] = todo["pnp"]
    BY <1>5 DEF PowerDown, PowerAnswered, BusPoweredDown, SystemPowerComplete, Onward, Types,
                Threads
  <2>3. irp' = irp \/ irp.device.at # "came_up"
    <3>1. CASE PowerDown
      <4>1. OnDescent(3)
        BY <3>1, DescentAt, Zenon DEF PowerDown, Doing, Kept
      <4> QED
        BY <4>1 DEF OnDescent, Descending
    <3>2. CASE PowerAnswered \/ BusPoweredDown \/ SystemPowerComplete
      BY <3>2 DEF PowerAnswered, BusPoweredDown, SystemPowerComplete
    <3> QED
      BY <1>5, <3>1, <3>2
  <2> QED
    BY <2>1, <2>2, <2>3, ReadAside
<1>6. CASE \/ HidRequest \/ HidRequestReturns \/ ParkedReadEnds
           \/ WaitWake \/ WakeEnds \/ WaitWakeReturns
  <2>1. UNCHANGED <<phase, os, todo>>
    BY <1>6 DEF HidRequest, HidRequestReturns, ParkedReadEnds, WaitWake, WakeEnds,
                WaitWakeReturns, histories
  <2>2. dx'.read = dx.read /\ irp'.device.at = irp.device.at
    BY <1>6 DEF HidRequest, HidRequestReturns, ParkedReadEnds, WaitWake, WakeEnds,
                WaitWakeReturns, Types, Fields, histories
  <2> QED
    BY <2>1, <2>2, ReadAside
<1>7. CASE \E s \in {S0, S3} : SystemPower(s)
  <2>1. UNCHANGED <<phase, os, todo>> /\ irp.device.at = "none"
    BY <1>7 DEF SystemPower, histories
  <2>2. dx'.read = dx.read
    BY <1>7 DEF SystemPower, Park, Types, Fields
  <2> QED
    BY <2>1, <2>2, ReadAside
<1> QED
  BY <1>1, <1>2, <1>3, <1>4, <1>5, <1>6, <1>7 DEF PowerSteps

LEMMA ReadKept ==
    ASSUME Types, Kept, ReadInv, Next
    PROVE  ReadInv'
BY RequestsKeepRead, PnpStepsKeepRead, PollKeepsRead, PowerKeepsRead DEF Next

--------------------------------------------------------------------------------
(* The theorems *)

LEMMA InitInv == Init => Inv
<1> SUFFICES ASSUME Init
             PROVE  Inv
  OBVIOUS
<1>1. /\ DOMAIN dx = Fields /\ dx.ptr = {} /\ dx.read = "none"
  BY DEF Init, Zeroed, Fields
<1>2. todo = [t \in Threads |-> <<>>] /\ phase = "absent" /\ os.mgr = "absent"
  BY DEF Init
<1>3. Types
  <2>1. <<>> \in Seq(Steps)
    OBVIOUS
  <2>2. todo \in [Threads -> Seq(Steps)]
    BY <1>2, <2>1
  <2>3. DOMAIN irp = {"device", "system", "wake"} /\ DOMAIN irp.device = {"at", "state"}
           /\ irp.device.at \in PowerPlaces
    BY DEF Init, NoPower, PowerPlaces
  <2> QED
    BY <1>1, <2>2, <2>3 DEF Init, Types, Managed, Reads
<1>4. HoldInv
  <2>1. 5 \in 1..5
    OBVIOUS
  <2>2. Rest(DeviceSteps, 5) = <<>>
    BY <2>1, ProgramRests, Zenon
  <2>3. irp.device.at = "none" /\ irp.wake = "none" /\ A.holders = {}
    BY DEF Init, NoPower
  <2>4. Descending(5)
    BY <1>2, <2>2, <2>3 DEF Descending, Threads
  <2> QED
    BY <2>3, <2>4 DEF HoldInv
<1>5. PnpInv
  BY <1>2 DEF PnpInv, Threads
<1>6. ReadInv /\ LostInv /\ ~misuse
  BY <1>1, <1>2 DEF Init, ReadInv, LostInv
<1> QED
  BY <1>3, <1>4, <1>5, <1>6 DEF Inv, Kept

LEMMA InvKept == Inv /\ [Next]_vars => Inv'
<1> SUFFICES ASSUME Inv, [Next]_vars
             PROVE  Inv'
  OBVIOUS
<1>0. Types /\ Kept /\ ReadInv
  BY DEF Inv
<1>1. CASE UNCHANGED vars
  BY <1>1 DEF vars, histories, Inv, Types, Kept, PnpInv, ReadInv, HoldInv, LostInv,
              Starting, Stopping, Removing, Descending
<1>2. Kept' /\ Next => Inv'
  BY <1>0, TypesKept, NotMisused, ReadKept DEF Inv
<1>3. CASE PnpSteps
  <2>1. StartDown \/ FetchDeviceDescriptor \/ SelectConfiguration => Kept'
    BY <1>0, StartDownKeeps, FetchKeeps, SelectKeeps
  <2>2. SetStarted \/ QueryFirmwareInfo \/ SetDeviceName \/ StartPolling \/ Publish => Kept'
    BY <1>0, PlainStepsKeep
  <2>3. StartAnswered => Kept'
    BY <1>0, StartAnsweredKeeps
  <2>4. StopPolling("pnp", "stop_pnp", "pnp") \/ QuiesceIo("pnp")
           \/ StopPolling("pnp", "stop_remove", "remove") => Kept'
    BY <1>0, PnpStopPollingKeeps, PnpQuiesceKeeps
  <2>5. UnconfigureDevice \/ Stopped \/ StopDown => Kept'
    BY <1>0, UnconfigureKeeps, StopDownKeeps
  <2>6. DrainA \/ RegistryRemove \/ Abort \/ RemoveDown => Kept'
    BY <1>0, DrainKeeps, RegistryRemoveKeeps, AbortKeeps, RemoveDownKeeps
  <2>7. CloseB \/ DrainB \/ UnwireDevice \/ FreeDeviceResources => Kept'
    BY <1>0, DrainKeeps, UnwireKeeps, FreeKeeps
  <2> QED
    BY <1>2, <1>3, <2>1, <2>2, <2>3, <2>4, <2>5, <2>6, <2>7 DEF PnpSteps, Next
<1>4. CASE PowerSteps
  <2>1. DevicePower \/ PowerDown \/ PowerAnswered \/ BusPoweredDown => Kept'
    BY <1>0, DevicePowerKeeps, PowerDownKeeps, BusPoweredDownKeeps
  <2>2. StopPolling("device", "stop_power", "power") \/ QuiesceIo("device") => Kept'
    BY <1>0, DevicePollingKeeps
  <2>3. PowerUpComplete \/ PowerUpReturns \/ SystemPowerComplete \/ WaitWakeReturns => Kept'
    BY <1>0, PowerUpKeeps, SystemPowerCompleteKeeps, WakeKeeps
  <2> QED
    BY <1>2, <1>4, <2>1, <2>2, <2>3 DEF PowerSteps, Next
<1>5. CASE Next /\ ~PnpSteps /\ ~PowerSteps
  <2>1. AddDevice \/ StartDevice \/ StopDevice \/ RemoveDevice \/ Unplug => Kept'
    BY <1>0, AddKeeps, StartRequestKeeps, StopRequestKeeps, RemoveRequestKeeps, UnplugKeeps
  <2>2. QueryRemove \/ CancelRemove \/ QueryStop \/ CancelStop \/ SurpriseRemoval => Kept'
    BY <1>0, QueryKeeps
  <2>3. HidRequest \/ HidRequestReturns \/ ParkedReadEnds \/ WaitWake \/ WakeEnds => Kept'
    BY <1>0, HidKeeps, WakeKeeps
  <2>5. ReadReturns \/ ReadStops \/ PollSubmit => Kept'
    BY <1>0, PollKeeps
  <2>4. (\E s \in {S0, S3} : SystemPower(s)) => Kept'
    BY <1>0, SystemPowerKeeps
  <2> QED
    BY <1>2, <1>5, <2>1, <2>2, <2>3, <2>4, <2>5 DEF Next
<1> QED
  BY <1>1, <1>3, <1>4, <1>5

(***************************************************************************)
(* The inductive invariant of one adapter's life: where the PnP request is *)
(* says what is drained, given back and freed, and everything else under   *)
(* way holds RemoveLockB or is the poll read.                              *)
(***************************************************************************)
THEOREM LifecycleInvariant == Spec => []Inv
<1>1. Init => Inv
  BY InitInv
<1>2. Inv /\ [Next]_vars => Inv'
  BY InvKept
<1> QED
  BY <1>1, <1>2, PTL DEF Spec

(***************************************************************************)
(* No step of the driver touches the extension after hidclass has it back, *)
(* whatever power, wake, HID and read requests are under way when a        *)
(* removal comes, a poll read sent again behind the abort among them       *)
(* (AdaptoidPnp, IRP_MN_REMOVE_DEVICE: both remove locks are waited for,   *)
(* the bus gives back the reads, and AdaptoidUnwireDevice flushes their    *)
(* DPCs before AdaptoidFreeDeviceResources).                               *)
(***************************************************************************)
THEOREM NeverUsedAfterFreeHolds == Spec => []NeverUsedAfterFree
<1>1. Inv => NeverUsedAfterFree
  BY DEF Inv, NeverUsedAfterFree
<1> QED
  BY <1>1, LifecycleInvariant, PTL

(***************************************************************************)
(* A removal gives back every block the extension points at, and a device  *)
(* that is started at most once loses none on the way, however often its   *)
(* descriptor fetch grows the buffer and wherever the bring-up fails       *)
(* (AdaptoidFetchDeviceDescriptor, AdaptoidFreeDeviceResources).           *)
(***************************************************************************)
THEOREM BlocksReturnedHolds == Spec => []BlocksReturned
<1>1. Inv => BlocksReturned
  <2> SUFFICES ASSUME Inv
               PROVE  BlocksReturned
    OBVIOUS
  <2>1. ASSUME phase = "freed"
        PROVE  dx.ptr = {}
    <3>1. \E k \in 1..11 : Removing(k)
      BY <2>1 DEF Inv, Kept, PnpInv
    <3> QED
      BY <2>1, <3>1 DEF Removing
  <2> QED
    BY <2>1 DEF Inv, Kept, LostInv, BlocksReturned
<1> QED
  BY <1>1, LifecycleInvariant, PTL

--------------------------------------------------------------------------------
(* Induction and recursion over the natural numbers up to a bound *)

LEMMA LeastMember ==
    ASSUME NEW T \in SUBSET Nat, T # {}
    PROVE  \E m \in T : \A k \in T : m <= k
<1> DEFINE R == OpToRel(<, Nat)
<1>1. IsWellFoundedOn(R, Nat)
  BY NatLessThanWellFounded
<1>2. \A i, j \in Nat : i < j => <<i, j>> \in R
  BY DEF OpToRel
<1> HIDE DEF R
<1>3. PICK m \in T : \A k \in T : ~(<<k, m>> \in R)
  BY <1>1, WFMin, Zenon
<1>4. ASSUME NEW k \in T PROVE m <= k
  <2>1. m \in Nat /\ k \in Nat /\ ~(k < m)
    BY <1>2, <1>3
  <2> QED
    BY <2>1
<1> QED
  BY <1>4

LEMMA LowestIs ==
    ASSUME NEW T \in SUBSET Nat, T # {}
    PROVE  Lowest(T) \in T
BY LeastMember DEF Lowest

(* What holds at 0, and one further wherever it holds, holds up to N. *)
LEMMA StepByStep ==
    ASSUME NEW N \in Nat, NEW T, 0 \in T, \A n \in 0..(N - 1) : n \in T => n + 1 \in T
    PROVE  \A n \in 0..N : n \in T
<1> DEFINE U == {n \in 0..N : n \notin T}
<1>1. SUFFICES ASSUME U # {} PROVE FALSE
  OBVIOUS
<1>2. U \in SUBSET Nat
  OBVIOUS
<1>3. PICK m \in U : \A k \in U : m <= k
  BY <1>1, <1>2, LeastMember, Zenon
<1>4. m \in 1..N /\ m - 1 \in 0..(N - 1) /\ (m - 1) + 1 = m
  BY <1>3
<1>5. m - 1 \in T
  BY <1>3, <1>4
<1> QED
  BY <1>3, <1>4, <1>5

(* A function defined step by step exists. *)
Runs(f, S, first, Step, N) ==
    /\ f \in [0..N -> S] /\ f[0] = first
    /\ \A n \in 1..N : f[n] = Step[n][f[n - 1]]

LEMMA RecursionRuns ==
    ASSUME NEW S, NEW first \in S, NEW N \in Nat, NEW Step \in [1..N -> [S -> S]]
    PROVE  \E f : Runs(f, S, first, Step, N)
<1> DEFINE T == {n \in 0..N : \E f : Runs(f, S, first, Step, n)}
<1>1. 0 \in T
  <2> DEFINE f == [n \in 0..0 |-> first]
  <2>1. Runs(f, S, first, Step, 0)
    BY DEF Runs
  <2> QED
    BY <2>1
<1>2. ASSUME NEW n \in 0..(N - 1), n \in T
      PROVE  n + 1 \in T
  <2>1. PICK f : Runs(f, S, first, Step, n)
    BY <1>2
  <2>2. f \in [0..n -> S] /\ f[0] = first /\ \A k \in 1..n : f[k] = Step[k][f[k - 1]]
    BY <2>1 DEF Runs
  <2>3. n + 1 \in 1..N /\ n \in Nat /\ n \in 0..n
    OBVIOUS
  <2>4. f[n] \in S /\ Step[n + 1][f[n]] \in S
    BY <2>2, <2>3
  <2> DEFINE g == [k \in 0..(n + 1) |-> IF k = n + 1 THEN Step[n + 1][f[n]] ELSE f[k]]
  <2>5. g \in [0..(n + 1) -> S]
    <3>1. ASSUME NEW k \in 0..(n + 1) PROVE g[k] \in S
      <4>1. k = n + 1 \/ k \in 0..n
        OBVIOUS
      <4> QED
        BY <2>2, <2>4, <4>1
    <3> QED
      BY <3>1
  <2>6. g[0] = first
    BY <2>2, <2>3
  <2>7. ASSUME NEW k \in 1..(n + 1) PROVE g[k] = Step[k][g[k - 1]]
    <3>1. CASE k = n + 1
      <4>1. k - 1 = n /\ k \in 0..(n + 1) /\ n \in 0..(n + 1) /\ n # n + 1
        BY <3>1
      <4> QED
        BY <3>1, <4>1
    <3>2. CASE k # n + 1
      <4>1. k \in 1..n /\ k - 1 \in 0..n /\ k \in 0..(n + 1) /\ k - 1 \in 0..(n + 1) /\ k - 1 # n + 1
        BY <3>2
      <4> QED
        BY <2>2, <3>2, <4>1
    <3> QED
      BY <3>1, <3>2
  <2> HIDE DEF g
  <2>8. Runs(g, S, first, Step, n + 1)
    BY <2>5, <2>6, <2>7 DEF Runs
  <2> QED
    BY <2>3, <2>8
<1> HIDE DEF T
<1>3. N \in T
  <2>1. \A n \in 0..N : n \in T
    BY <1>1, <1>2, StepByStep
  <2> QED
    BY <2>1
<1> QED
  BY <1>3 DEF T

(* What a recursion starts in and does not leave. *)
LEMMA StaysIn ==
    ASSUME NEW N \in Nat, NEW S, NEW f, f[0] \in S, \A n \in 1..N : f[n - 1] \in S => f[n] \in S
    PROVE  \A n \in 0..N : f[n] \in S
<1> DEFINE T == {n \in 0..N : f[n] \in S}
<1>1. 0 \in T
  OBVIOUS
<1>2. ASSUME NEW n \in 0..(N - 1), n \in T PROVE n + 1 \in T
  <2>1. n + 1 \in 1..N /\ (n + 1) - 1 = n
    OBVIOUS
  <2> QED
    BY <1>2, <2>1
<1>3. \A n \in 0..N : n \in T
  <2> HIDE DEF T
  <2> QED
    BY <1>1, <1>2, StepByStep
<1> QED
  BY <1>3


--------------------------------------------------------------------------------
(* The walk over the hubs *)

Paths(topo) == [DOMAIN topo.ports -> Seq(Nat)]

IsIt(topo, address, x) ==
    x \in DOMAIN topo.port /\ topo.port[x].kind = "adapter" /\ topo.port[x].address = address

HubAt(topo, x, child) ==
    x \in DOMAIN topo.port /\ topo.port[x].kind = "hub" /\ topo.port[x].child = child

LEMMA PortPathIs ==
    ASSUME NEW p \in Nat, NEW s \in Seq(Nat)
    PROVE  /\ PortPath(p, s) \in Seq(Nat) /\ Len(PortPath(p, s)) = Len(s) + 1
           /\ PortPath(p, s) # NotFound /\ PortPath(p, s)[1] = p % 10
           /\ \A i \in 1..Len(s) : PortPath(p, s)[i + 1] = s[i]
<1> DEFINE d == p % 10
<1>1. d \in Nat
  OBVIOUS
<1> HIDE DEF d
<1>2. <<d>> \in Seq(Nat) /\ Len(<<d>>) = 1 /\ <<d>>[1] = d
  BY <1>1
<1>3. /\ <<d>> \o s \in Seq(Nat) /\ Len(<<d>> \o s) = 1 + Len(s)
      /\ \A i \in 1..(1 + Len(s)) : (<<d>> \o s)[i] = IF i <= 1 THEN <<d>>[i] ELSE s[i - 1]
  BY <1>1, <1>2, ConcatProperties
<1>4. Len(s) \in Nat
  OBVIOUS
<1>5. PortPath(p, s) = <<d>> \o s
  BY DEF PortPath, d
<1>6. \A i \in 1..Len(s) : i + 1 \in 1..(1 + Len(s)) /\ ~(i + 1 <= 1) /\ (i + 1) - 1 = i
  BY <1>4
<1>7. 1 \in 1..(1 + Len(s))
  BY <1>4
<1> QED
  BY <1>2, <1>3, <1>4, <1>5, <1>6, <1>7 DEF NotFound, d

(* What a path from a port stands for. *)
Explained(topo, address, below, x, path) ==
    \/ IsIt(topo, address, x) /\ path = PortPath(x[2], <<>>)
    \/ \E child \in DOMAIN topo.ports :
          /\ HubAt(topo, x, child) /\ below[child] # NotFound
          /\ path = PortPath(x[2], below[child])

LEMMA PathFromIs ==
    ASSUME NEW topo, IsTopology(topo), NEW address, NEW below \in Paths(topo), NEW x,
           NEW path, path = PathFrom(topo, address, below, x)
    PROVE  /\ path \in Seq(Nat)
           /\ path # NotFound =>
                 x \in DOMAIN topo.port /\ Explained(topo, address, below, x, path)
           /\ IsIt(topo, address, x) => path # NotFound
           /\ \A child \in DOMAIN topo.ports :
                 HubAt(topo, x, child) /\ below[child] # NotFound => path # NotFound
<1>1. <<>> \in Seq(Nat) /\ NotFound = <<>>
  BY DEF NotFound
<1>2. CASE x \notin DOMAIN topo.port
  BY <1>1, <1>2 DEF PathFrom, IsIt, HubAt
<1>3. CASE x \in DOMAIN topo.port
  <2> DEFINE at == topo.port[x]
  <2>1. x[2] \in Nat
    BY <1>3 DEF IsTopology
  <2>2. \A s \in Seq(Nat) : PortPath(x[2], s) \in Seq(Nat) /\ PortPath(x[2], s) # NotFound
    BY <2>1, PortPathIs
  <2>3. CASE at.kind = "adapter" /\ at.address = address
    <3>1. path = PortPath(x[2], <<>>)
      BY <1>3, <2>3 DEF PathFrom
    <3> QED
      BY <1>1, <1>3, <2>2, <2>3, <3>1 DEF IsIt, Explained
  <2>4. CASE at.kind = "adapter" /\ at.address # address
    <3>1. path = NotFound
      BY <1>3, <2>4 DEF PathFrom
    <3> QED
      BY <1>1, <2>4, <3>1 DEF IsIt, HubAt
  <2>5. CASE at.kind = "hub" /\ at.child \in DOMAIN topo.ports /\ below[at.child] # NotFound
    <3> DEFINE child == at.child
    <3>1. path = PortPath(x[2], below[child])
      BY <1>3, <2>5 DEF PathFrom
    <3>2. below[child] \in Seq(Nat)
      BY <2>5 DEF Paths
    <3>3. path \in Seq(Nat) /\ path # NotFound
      BY <2>2, <3>1, <3>2
    <3>4. HubAt(topo, x, child)
      BY <1>3, <2>5 DEF HubAt
    <3>5. Explained(topo, address, below, x, path)
      BY <2>5, <3>1, <3>4 DEF Explained
    <3> QED
      BY <1>3, <2>5, <3>3, <3>5
  <2>6. CASE at.kind = "hub" /\ ~(at.child \in DOMAIN topo.ports /\ below[at.child] # NotFound)
    <3>1. path = NotFound
      BY <1>3, <2>6 DEF PathFrom
    <3> QED
      BY <1>1, <2>6, <3>1 DEF IsIt, HubAt
  <2>7. CASE at.kind # "adapter" /\ at.kind # "hub"
    <3>1. path = NotFound
      BY <1>3, <2>7 DEF PathFrom
    <3> QED
      BY <1>1, <2>7, <3>1 DEF IsIt, HubAt
  <2> QED
    BY <2>3, <2>4, <2>5, <2>6, <2>7
<1> QED
  BY <1>2, <1>3

LEMMA PortsWalked ==
    ASSUME NEW topo, IsTopology(topo), NEW address, NEW below \in Paths(topo),
           NEW hub \in DOMAIN topo.ports
    PROVE  LET path == FindOnPorts(topo, address, below)[hub] IN
           /\ path \in Seq(Nat)
           /\ path # NotFound =>
                \E p \in 1..topo.ports[hub] : path = PathFrom(topo, address, below, <<hub, p>>)
           /\ \A p \in 1..topo.ports[hub] :
                 PathFrom(topo, address, below, <<hub, p>>) # NotFound => path # NotFound
<1> DEFINE path == FindOnPorts(topo, address, below)[hub]
           L == Leading(topo, address, below, hub)
           From(p) == PathFrom(topo, address, below, <<hub, p>>)
<1>1. path = IF L = {} THEN NotFound ELSE From(Lowest(L))
  BY DEF FindOnPorts
<1>2. L = {p \in 1..topo.ports[hub] : From(p) # NotFound}
  BY DEF Leading
<1>3. \A p : From(p) \in Seq(Nat)
  BY PathFromIs
<1>4. L \in SUBSET Nat
  BY <1>2 DEF IsTopology
<1>5. NotFound \in Seq(Nat)
  BY DEF NotFound
<1> HIDE DEF path, L, From
<1>6. CASE L = {}
  BY <1>1, <1>2, <1>5, <1>6 DEF path, From
<1>7. CASE L # {}
  <2>1. Lowest(L) \in L
    BY <1>4, <1>7, LowestIs
  <2> QED
    BY <1>1, <1>2, <1>3, <1>7, <2>1 DEF path, From
<1> QED
  BY <1>6, <1>7

LEMMA FoundIs ==
    ASSUME NEW topo, IsTopology(topo), NEW address, NEW N \in Nat
    PROVE  LET F == Found(topo, address, N) IN
           /\ F \in [0..N -> Paths(topo)]
           /\ \A hub \in DOMAIN topo.ports : F[0][hub] = NotFound
           /\ \A n \in 1..N : F[n] = FindOnPorts(topo, address, F[n - 1])
<1> DEFINE S == Paths(topo)
           first == [hub \in DOMAIN topo.ports |-> NotFound]
           Step == [n \in 1..N |-> [below \in S |-> FindOnPorts(topo, address, below)]]
           F == Found(topo, address, N)
<1>1. first \in S
  BY DEF Paths, NotFound
<1>2. \A below \in S : FindOnPorts(topo, address, below) \in S
  <2> SUFFICES ASSUME NEW below \in S PROVE FindOnPorts(topo, address, below) \in S
    OBVIOUS
  <2>1. \A hub \in DOMAIN topo.ports : FindOnPorts(topo, address, below)[hub] \in Seq(Nat)
    BY PortsWalked
  <2>2. FindOnPorts(topo, address, below)
           = [hub \in DOMAIN topo.ports |-> FindOnPorts(topo, address, below)[hub]]
    BY DEF FindOnPorts
  <2> QED
    BY <2>1, <2>2 DEF Paths
<1>3. Step \in [1..N -> [S -> S]]
  BY <1>2
<1>4. PICK f : Runs(f, S, first, Step, N)
  <2> HIDE DEF S, first, Step
  <2> QED
    BY <1>1, <1>3, RecursionRuns
<1>5. f = [n \in 0..N |-> IF n = 0 THEN first ELSE FindOnPorts(topo, address, f[n - 1])]
  <2>1. f \in [0..N -> S] /\ f[0] = first /\ \A n \in 1..N : f[n] = Step[n][f[n - 1]]
    BY <1>4 DEF Runs
  <2>2. ASSUME NEW n \in 0..N
        PROVE  f[n] = IF n = 0 THEN first ELSE FindOnPorts(topo, address, f[n - 1])
    <3>1. CASE n = 0
      BY <2>1, <3>1
    <3>2. CASE n # 0
      <4>1. n \in 1..N /\ n - 1 \in 0..N
        BY <3>2
      <4>2. f[n] = Step[n][f[n - 1]] /\ f[n - 1] \in S
        BY <2>1, <4>1
      <4> QED
        BY <3>2, <4>1, <4>2
    <3> QED
      BY <3>1, <3>2
  <2>3. f = [n \in 0..N |-> f[n]]
    BY <2>1
  <2> QED
    BY <2>2, <2>3
<1>6. F = [n \in 0..N |-> IF n = 0 THEN first ELSE FindOnPorts(topo, address, F[n - 1])]
  BY <1>5 DEF Found
<1> HIDE DEF F, S
<1>7. F[0] = first /\ \A n \in 1..N : F[n] = FindOnPorts(topo, address, F[n - 1])
  BY <1>6
<1>8. \A n \in 0..N : F[n] \in S
  <2> HIDE DEF first
  <2>1. \A n \in 1..N : F[n - 1] \in S => F[n] \in S
    BY <1>2, <1>7
  <2> QED
    BY <1>1, <1>7, <2>1, StaysIn
<1>9. F \in [0..N -> S]
  BY <1>6, <1>8
<1> QED
  BY <1>7, <1>9 DEF F, S


--------------------------------------------------------------------------------
(* Trails: ports one below the other *)

IsTrail(topo, hub, k, trail) ==
    /\ trail \in [1..k -> DOMAIN topo.port] /\ trail[1][1] = hub
    /\ \A i \in 1..(k - 1) : HubAt(topo, trail[i], trail[i + 1][1])

Spells(k, trail, path) ==
    path \in Seq(Nat) /\ Len(path) = k /\ \A i \in 1..k : trail[i][2] % 10 = path[i]

LEMMA ShortTrail ==
    ASSUME NEW topo, IsTopology(topo), NEW x \in DOMAIN topo.port
    PROVE  LET trail == [i \in 1..1 |-> x] IN
           IsTrail(topo, x[1], 1, trail) /\ Spells(1, trail, PortPath(x[2], <<>>))
<1> DEFINE path == PortPath(x[2], <<>>)
<1>1. x[2] \in Nat
  BY DEF IsTopology
<1>2. path \in Seq(Nat) /\ Len(path) = 1 /\ path[1] = x[2] % 10
  <2>1. <<>> \in Seq(Nat) /\ Len(<<>>) = 0
    OBVIOUS
  <2>2. path \in Seq(Nat) /\ Len(path) = Len(<<>>) + 1 /\ path[1] = x[2] % 10
    BY <1>1, <2>1, PortPathIs
  <2> QED
    BY <2>1, <2>2
<1> HIDE DEF path
<1>3. Spells(1, [i \in 1..1 |-> x], path)
  BY <1>2 DEF Spells
<1> QED
  BY <1>3 DEF IsTrail, path

(* A port in front of a trail that starts at the hub in it. *)
Below(x, k, trail) == [i \in 1..(k + 1) |-> IF i = 1 THEN x ELSE trail[i - 1]]

LEMMA LongerTrail ==
    ASSUME NEW topo, IsTopology(topo), NEW x \in DOMAIN topo.port, NEW child, HubAt(topo, x, child),
           NEW k \in Nat \ {0}, NEW trail, IsTrail(topo, child, k, trail)
    PROVE  /\ IsTrail(topo, x[1], k + 1, Below(x, k, trail))
           /\ Below(x, k, trail)[k + 1] = trail[k]
           /\ \A path : Spells(k, trail, path) =>
                          Spells(k + 1, Below(x, k, trail), PortPath(x[2], path))
<1> DEFINE b == Below(x, k, trail)
<1>1. /\ trail \in [1..k -> DOMAIN topo.port] /\ trail[1][1] = child
      /\ \A i \in 1..(k - 1) : HubAt(topo, trail[i], trail[i + 1][1])
  BY DEF IsTrail
<1>2. b \in [1..(k + 1) -> DOMAIN topo.port]
  <2>1. ASSUME NEW i \in 1..(k + 1) PROVE (IF i = 1 THEN x ELSE trail[i - 1]) \in DOMAIN topo.port
    <3>1. i = 1 \/ i - 1 \in 1..k
      OBVIOUS
    <3> QED
      BY <1>1, <3>1
  <2> QED
    BY <2>1 DEF Below
<1>3. b[1] = x /\ \A i \in 1..k : b[i + 1] = trail[i]
  BY DEF Below
<1> HIDE DEF b
<1>4. \A i \in 1..k : HubAt(topo, b[i], b[i + 1][1])
  <2> SUFFICES ASSUME NEW i \in 1..k PROVE HubAt(topo, b[i], b[i + 1][1])
    OBVIOUS
  <2>1. CASE i = 1
    BY <1>1, <1>3, <2>1
  <2>2. CASE i # 1
    <3>1. i - 1 \in 1..(k - 1) /\ i - 1 \in 1..k /\ (i - 1) + 1 = i
      BY <2>2
    <3>2. b[i] = trail[i - 1] /\ b[i + 1] = trail[i]
      BY <1>3, <3>1
    <3> QED
      BY <1>1, <3>1, <3>2
  <2> QED
    BY <2>1, <2>2
<1>5. IsTrail(topo, x[1], k + 1, b)
  <2>1. (k + 1) - 1 = k
    OBVIOUS
  <2> QED
    BY <1>2, <1>3, <1>4, <2>1 DEF IsTrail
<1>6. ASSUME NEW path, Spells(k, trail, path)
      PROVE  Spells(k + 1, b, PortPath(x[2], path))
  <2> DEFINE longer == PortPath(x[2], path)
  <2>1. path \in Seq(Nat) /\ Len(path) = k /\ \A i \in 1..k : trail[i][2] % 10 = path[i]
    BY <1>6 DEF Spells
  <2>2. x[2] \in Nat
    BY DEF IsTopology
  <2>3. /\ longer \in Seq(Nat) /\ Len(longer) = k + 1 /\ longer[1] = x[2] % 10
        /\ \A i \in 1..k : longer[i + 1] = path[i]
    BY <2>1, <2>2, PortPathIs
  <2> HIDE DEF longer
  <2>4. ASSUME NEW i \in 1..(k + 1) PROVE b[i][2] % 10 = longer[i]
    <3>1. CASE i = 1
      BY <1>3, <2>3, <3>1
    <3>2. CASE i # 1
      <4>1. i - 1 \in 1..k /\ (i - 1) + 1 = i
        BY <3>2
      <4>2. b[i] = trail[i - 1] /\ longer[i] = path[i - 1]
        BY <1>3, <2>3, <4>1
      <4> QED
        BY <2>1, <4>1, <4>2
    <3> QED
      BY <3>1, <3>2
  <2>5. Spells(k + 1, b, longer)
    BY <2>3, <2>4 DEF Spells
  <2> QED
    BY <2>5 DEF longer
<1>7. b[k + 1] = trail[k]
  BY <1>3
<1> QED
  BY <1>5, <1>6, <1>7 DEF b

(* What the walk finds below a hub is spelt by a trail to the adapter. *)
LEMMA FoundLeads ==
    ASSUME NEW topo, IsTopology(topo), NEW address, NEW N \in Nat
    PROVE  \A n \in 0..N : \A hub \in DOMAIN topo.ports :
              Found(topo, address, N)[n][hub] # NotFound =>
                 \E k \in 1..n : \E trail :
                    /\ IsTrail(topo, hub, k, trail) /\ IsIt(topo, address, trail[k])
                    /\ Spells(k, trail, Found(topo, address, N)[n][hub])
<1> DEFINE F == Found(topo, address, N)
           Led(n, hub) == F[n][hub] # NotFound =>
                            \E k \in 1..n : \E trail :
                               /\ IsTrail(topo, hub, k, trail) /\ IsIt(topo, address, trail[k])
                               /\ Spells(k, trail, F[n][hub])
           T == {n \in 0..N : \A hub \in DOMAIN topo.ports : Led(n, hub)}
<1>1. /\ F \in [0..N -> Paths(topo)] /\ \A hub \in DOMAIN topo.ports : F[0][hub] = NotFound
      /\ \A n \in 1..N : F[n] = FindOnPorts(topo, address, F[n - 1])
  BY FoundIs
<1> HIDE DEF F
<1>2. 0 \in T
  BY <1>1
<1>3. ASSUME NEW n \in 0..(N - 1), n \in T
      PROVE  n + 1 \in T
  <2>1. n + 1 \in 1..N /\ (n + 1) - 1 = n /\ n \in 0..N /\ n + 1 \in 0..N
    OBVIOUS
  <2>2. F[n] \in Paths(topo) /\ F[n + 1] = FindOnPorts(topo, address, F[n])
    BY <1>1, <2>1
  <2>3. ASSUME NEW hub \in DOMAIN topo.ports, F[n + 1][hub] # NotFound
        PROVE  \E k \in 1..(n + 1) : \E trail :
                  /\ IsTrail(topo, hub, k, trail) /\ IsIt(topo, address, trail[k])
                  /\ Spells(k, trail, F[n + 1][hub])
    <3>0. LET path == FindOnPorts(topo, address, F[n])[hub]
          IN  path # NotFound =>
                \E p \in 1..topo.ports[hub] : path = PathFrom(topo, address, F[n], <<hub, p>>)
      BY <2>2, PortsWalked, Zenon
    <3>1. PICK p \in 1..topo.ports[hub] :
                  F[n + 1][hub] = PathFrom(topo, address, F[n], <<hub, p>>)
      BY <2>2, <2>3, <3>0
    <3> DEFINE x == <<hub, p>>
    <3>2. x[1] = hub /\ x[2] = p
      OBVIOUS
    <3> HIDE DEF x
    <3>3. /\ x \in DOMAIN topo.port
          /\ Explained(topo, address, F[n], x, F[n + 1][hub])
      <4>1. F[n + 1][hub] = PathFrom(topo, address, F[n], x)
        BY <3>1 DEF x
      <4> QED
        BY <2>2, <2>3, <4>1, PathFromIs
    <3>4. CASE IsIt(topo, address, x) /\ F[n + 1][hub] = PortPath(x[2], <<>>)
      <4> DEFINE trail == [i \in 1..1 |-> x]
      <4>1. IsTrail(topo, hub, 1, trail) /\ Spells(1, trail, F[n + 1][hub])
        BY <3>2, <3>3, <3>4, ShortTrail
      <4>2. IsIt(topo, address, trail[1]) /\ 1 \in 1..(n + 1)
        BY <3>4
      <4> QED
        BY <4>1, <4>2
    <3>5. ASSUME NEW child \in DOMAIN topo.ports, HubAt(topo, x, child), F[n][child] # NotFound,
                 F[n + 1][hub] = PortPath(x[2], F[n][child])
          PROVE  \E k \in 1..(n + 1) : \E trail :
                    /\ IsTrail(topo, hub, k, trail) /\ IsIt(topo, address, trail[k])
                    /\ Spells(k, trail, F[n + 1][hub])
      <4>1. PICK k \in 1..n : \E trail :
                    /\ IsTrail(topo, child, k, trail) /\ IsIt(topo, address, trail[k])
                    /\ Spells(k, trail, F[n][child])
        BY <1>3, <3>5
      <4>2. PICK trail :
                    /\ IsTrail(topo, child, k, trail) /\ IsIt(topo, address, trail[k])
                    /\ Spells(k, trail, F[n][child])
        BY <4>1
      <4> DEFINE b == Below(x, k, trail)
      <4>3. k \in Nat \ {0} /\ k + 1 \in 1..(n + 1)
        OBVIOUS
      <4>4. /\ IsTrail(topo, hub, k + 1, b) /\ b[k + 1] = trail[k]
            /\ Spells(k + 1, b, F[n + 1][hub])
        BY <3>2, <3>3, <3>5, <4>2, <4>3, LongerTrail
      <4> HIDE DEF b
      <4> QED
        BY <4>2, <4>3, <4>4
    <3> QED
      BY <3>3, <3>4, <3>5 DEF Explained
  <2> QED
    BY <2>1, <2>3
<1>4. \A n \in 0..N : n \in T
  <2> HIDE DEF T
  <2> QED
    BY <1>2, <1>3, StepByStep
<1> QED
  BY <1>4 DEF F


(* The walk misses no adapter that a trail leads to. *)
LEMMA TrailFound ==
    ASSUME NEW topo, IsTopology(topo), NEW address, NEW N \in Nat
    PROVE  \A n \in 0..N : \A hub \in DOMAIN topo.ports : \A k \in 1..n : \A trail :
              IsTrail(topo, hub, k, trail) /\ IsIt(topo, address, trail[k])
                 => Found(topo, address, N)[n][hub] # NotFound
<1> DEFINE F == Found(topo, address, N)
           T == {n \in 0..N : \A hub \in DOMAIN topo.ports : \A k \in 1..n : \A trail :
                    IsTrail(topo, hub, k, trail) /\ IsIt(topo, address, trail[k])
                       => F[n][hub] # NotFound}
<1>1. /\ F \in [0..N -> Paths(topo)]
      /\ \A n \in 1..N : F[n] = FindOnPorts(topo, address, F[n - 1])
  BY FoundIs
<1> HIDE DEF F
<1>2. 0 \in T
  OBVIOUS
<1>3. ASSUME NEW n \in 0..(N - 1), n \in T
      PROVE  n + 1 \in T
  <2>1. n + 1 \in 1..N /\ (n + 1) - 1 = n /\ n \in 0..N /\ n + 1 \in 0..N
    OBVIOUS
  <2>2. F[n] \in Paths(topo) /\ F[n + 1] = FindOnPorts(topo, address, F[n])
    BY <1>1, <2>1
  <2>3. ASSUME NEW hub \in DOMAIN topo.ports, NEW k \in 1..(n + 1), NEW trail,
               IsTrail(topo, hub, k, trail), IsIt(topo, address, trail[k])
        PROVE  F[n + 1][hub] # NotFound
    <3> DEFINE x == trail[1]
    <3>1. /\ trail \in [1..k -> DOMAIN topo.port] /\ x[1] = hub /\ 1 \in 1..k
          /\ \A i \in 1..(k - 1) : HubAt(topo, trail[i], trail[i + 1][1])
      BY <2>3 DEF IsTrail
    <3>2. x \in DOMAIN topo.port /\ x = <<hub, x[2]>> /\ x[2] \in 1..topo.ports[hub]
      BY <3>1 DEF IsTopology
    <3>3. PathFrom(topo, address, F[n], x) # NotFound
      <4>1. CASE k = 1
        <5>1. IsIt(topo, address, x)
          BY <2>3, <4>1
        <5> HIDE DEF x
        <5> QED
          BY <2>2, <5>1, PathFromIs
      <4>2. CASE k # 1
        <5> DEFINE rest == [i \in 1..(k - 1) |-> trail[i + 1]]
                   child == trail[2][1]
        <5>1. k - 1 \in 1..n /\ 1 \in 1..(k - 1) /\ 1 + 1 = 2 /\ 2 \in 1..k
          BY <4>2
        <5>2. HubAt(topo, x, child)
          BY <3>1, <5>1
        <5>3. child \in DOMAIN topo.ports
          BY <3>1, <5>1 DEF IsTopology
        <5>4. rest \in [1..(k - 1) -> DOMAIN topo.port]
          BY <3>1
        <5>5. rest[1][1] = child /\ rest[k - 1] = trail[k]
          BY <5>1
        <5>6. ASSUME NEW i \in 1..((k - 1) - 1) PROVE HubAt(topo, rest[i], rest[i + 1][1])
          <6>1. i + 1 \in 1..(k - 1) /\ i \in 1..(k - 1)
            OBVIOUS
          <6>2. HubAt(topo, trail[i + 1], trail[(i + 1) + 1][1])
            BY <3>1, <6>1
          <6>3. rest[i] = trail[i + 1] /\ rest[i + 1] = trail[(i + 1) + 1]
            BY <6>1
          <6> QED
            BY <6>2, <6>3
        <5>7. IsTrail(topo, child, k - 1, rest)
          <6> HIDE DEF rest
          <6> QED
            BY <5>4, <5>5, <5>6 DEF IsTrail
        <5>8. IsIt(topo, address, rest[k - 1])
          BY <2>3, <5>5
        <5>9. F[n][child] # NotFound
          <6> HIDE DEF rest, child
          <6> QED
            BY <1>3, <5>1, <5>3, <5>7, <5>8
        <5> HIDE DEF x, child
        <5> QED
          BY <2>2, <5>2, <5>3, <5>9, PathFromIs
      <4> QED
        BY <4>1, <4>2
    <3> DEFINE p == x[2]
    <3>4. p \in 1..topo.ports[hub] /\ PathFrom(topo, address, F[n], <<hub, p>>) # NotFound
      BY <3>2, <3>3
    <3> HIDE DEF p
    <3> QED
      BY <2>2, <3>4, PortsWalked
  <2> QED
    BY <2>1, <2>3
<1>4. \A n \in 0..N : n \in T
  <2> HIDE DEF T
  <2> QED
    BY <1>2, <1>3, StepByStep
<1> QED
  BY <1>4 DEF F

--------------------------------------------------------------------------------
(* Where a name leads *)

Held(topo) == {topo.port[x] : x \in DOMAIN topo.port}

Follows(topo, name, F) ==
    /\ F[0] = RootHubs(topo, {name.controller})
    /\ \A n \in 1..Len(name.path) :
          F[n] = {topo.port[x] :
                    x \in {y \in PortsOf(topo, F[n - 1]) : y[2] % 10 = name.path[n]}}

LEMMA FollowedIs ==
    ASSUME NEW topo, NEW name, name.path \in Seq(Nat)
    PROVE  Follows(topo, name, Followed(topo, name))
<1> DEFINE N == Len(name.path)
           first == RootHubs(topo, {name.controller})
           S == SUBSET (first \cup Held(topo))
           On(n, hubs) ==
              {topo.port[x] : x \in {y \in PortsOf(topo, hubs) : y[2] % 10 = name.path[n]}}
           Step == [n \in 1..N |-> [hubs \in S |-> On(n, hubs)]]
           F == Followed(topo, name)
<1>1. N \in Nat /\ first \in S
  OBVIOUS
<1>2. \A n, hubs : On(n, hubs) \in S
  BY DEF PortsOf, Held
<1>3. Step \in [1..N -> [S -> S]]
  <2> HIDE DEF S, On
  <2> QED
    BY <1>2
<1>4. PICK f : Runs(f, S, first, Step, N)
  <2> HIDE DEF S, first, Step, N
  <2> QED
    BY <1>1, <1>3, RecursionRuns
<1>5. f = [n \in 0..N |-> IF n = 0 THEN first ELSE On(n, f[n - 1])]
  <2> HIDE DEF S, N, On, first
  <2>1. f \in [0..N -> S] /\ f[0] = first /\ \A n \in 1..N : f[n] = Step[n][f[n - 1]]
    BY <1>4 DEF Runs
  <2>2. ASSUME NEW n \in 0..N PROVE f[n] = IF n = 0 THEN first ELSE On(n, f[n - 1])
    <3>1. CASE n = 0
      BY <2>1, <3>1
    <3>2. CASE n # 0
      <4>1. n \in 1..N /\ n - 1 \in 0..N
        BY <1>1, <3>2
      <4>2. f[n] = Step[n][f[n - 1]] /\ f[n - 1] \in S
        BY <2>1, <4>1
      <4> QED
        BY <3>2, <4>1, <4>2
    <3> QED
      BY <3>1, <3>2
  <2>3. f = [n \in 0..N |-> f[n]]
    BY <2>1
  <2> QED
    BY <2>2, <2>3
<1>6. F = [n \in 0..N |-> IF n = 0 THEN first ELSE On(n, F[n - 1])]
  BY <1>5 DEF Followed
<1> HIDE DEF F
<1>7. F[0] = first /\ \A n \in 1..N : F[n] = On(n, F[n - 1])
  <2> HIDE DEF first, On, N
  <2> QED
    BY <1>1, <1>6
<1>8. Follows(topo, name, F)
  BY <1>7 DEF Follows
<1> QED
  BY <1>8 DEF F

LEMMA ReachedIs ==
    ASSUME NEW topo, NEW N \in Nat
    PROVE  LET F == Reached(topo, N) IN
           /\ F[0] = RootHubs(topo, DOMAIN topo.roots)
           /\ \A n \in 1..N : F[n] = {topo.port[x] : x \in PortsOf(topo, F[n - 1])} \cup F[n - 1]
<1> DEFINE first == RootHubs(topo, DOMAIN topo.roots)
           S == SUBSET (first \cup Held(topo))
           On(hubs) == {topo.port[x] : x \in PortsOf(topo, hubs)} \cup hubs
           Step == [n \in 1..N |-> [hubs \in S |-> On(hubs)]]
           F == Reached(topo, N)
<1>1. first \in S
  OBVIOUS
<1>2. \A hubs \in S : On(hubs) \in S
  BY DEF PortsOf, Held
<1>3. Step \in [1..N -> [S -> S]]
  <2> HIDE DEF S, On
  <2> QED
    BY <1>2
<1>4. PICK f : Runs(f, S, first, Step, N)
  <2> HIDE DEF S, first, Step
  <2> QED
    BY <1>1, <1>3, RecursionRuns
<1>5. f = [n \in 0..N |-> IF n = 0 THEN first ELSE On(f[n - 1])]
  <2> HIDE DEF S, On, first
  <2>1. f \in [0..N -> S] /\ f[0] = first /\ \A n \in 1..N : f[n] = Step[n][f[n - 1]]
    BY <1>4 DEF Runs
  <2>2. ASSUME NEW n \in 0..N PROVE f[n] = IF n = 0 THEN first ELSE On(f[n - 1])
    <3>1. CASE n = 0
      BY <2>1, <3>1
    <3>2. CASE n # 0
      <4>1. n \in 1..N /\ n - 1 \in 0..N
        BY <3>2
      <4>2. f[n] = Step[n][f[n - 1]] /\ f[n - 1] \in S
        BY <2>1, <4>1
      <4> QED
        BY <3>2, <4>1, <4>2
    <3> QED
      BY <3>1, <3>2
  <2>3. f = [n \in 0..N |-> f[n]]
    BY <2>1
  <2> QED
    BY <2>2, <2>3
<1>6. F = [n \in 0..N |-> IF n = 0 THEN first ELSE On(F[n - 1])]
  BY <1>5 DEF Reached
<1> HIDE DEF F
<1>7. F[0] = first /\ \A n \in 1..N : F[n] = On(F[n - 1])
  <2> HIDE DEF first, On
  <2> QED
    BY <1>6
<1> QED
  BY <1>7 DEF F

(* A trail that spells the name is followed to its end. *)
LEMMA TrailFollowed ==
    ASSUME NEW topo, NEW name, name.path \in Seq(Nat), NEW k \in Nat \ {0}, NEW trail,
           IsTrail(topo, topo.roots[name.controller], k, trail), Spells(k, trail, name.path)
    PROVE  topo.port[trail[k]] \in Followed(topo, name)[Len(name.path)]
<1> DEFINE F == Followed(topo, name)
           hub == topo.roots[name.controller]
           T == {n \in 0..k : n > 0 => topo.port[trail[n]] \in F[n]}
<1>1. Len(name.path) = k /\ \A n \in 1..k : trail[n][2] % 10 = name.path[n]
  BY DEF Spells
<1>2. /\ F[0] = RootHubs(topo, {name.controller})
      /\ \A n \in 1..Len(name.path) :
            F[n] = {topo.port[x] :
                      x \in {y \in PortsOf(topo, F[n - 1]) : y[2] % 10 = name.path[n]}}
  <2>1. Follows(topo, name, F)
    BY FollowedIs, Zenon
  <2> HIDE DEF F
  <2> QED
    BY <2>1 DEF Follows
<1>3. /\ trail \in [1..k -> DOMAIN topo.port] /\ trail[1][1] = hub
      /\ \A i \in 1..(k - 1) : HubAt(topo, trail[i], trail[i + 1][1])
  BY DEF IsTrail
<1> HIDE DEF F
<1>4. 0 \in T
  OBVIOUS
<1>5. ASSUME NEW n \in 0..(k - 1), n \in T
      PROVE  n + 1 \in T
  <2>1. n + 1 \in 1..k /\ (n + 1) - 1 = n /\ n + 1 \in 0..k
    OBVIOUS
  <2> DEFINE x == trail[n + 1]
  <2>2. x \in DOMAIN topo.port
    BY <1>3, <2>1
  <2>3. \E at \in F[n] : at.kind = "hub" /\ at.child = x[1]
    <3>1. CASE n = 0
      <4> DEFINE at == [kind |-> "hub", child |-> hub]
      <4>1. at \in F[0]
        BY <1>2 DEF RootHubs
      <4>2. at.kind = "hub" /\ at.child = x[1]
        BY <1>3, <3>1
      <4> HIDE DEF at, x
      <4> QED
        BY <3>1, <4>1, <4>2
    <3>2. CASE n # 0
      <4>1. n \in 1..(k - 1) /\ n > 0
        BY <3>2
      <4>2. HubAt(topo, trail[n], x[1])
        BY <1>3, <4>1
      <4>3. topo.port[trail[n]] \in F[n]
        BY <1>5, <4>1
      <4> QED
        BY <4>2, <4>3 DEF HubAt
    <3> QED
      BY <3>1, <3>2
  <2>4. x \in PortsOf(topo, F[n])
    BY <2>2, <2>3 DEF PortsOf
  <2>5. x[2] % 10 = name.path[n + 1]
    BY <1>1, <2>1
  <2>6. F[n + 1] = {topo.port[y] :
                      y \in {z \in PortsOf(topo, F[n]) : z[2] % 10 = name.path[n + 1]}}
    BY <1>1, <1>2, <2>1
  <2> HIDE DEF x
  <2>7. topo.port[x] \in F[n + 1]
    BY <2>4, <2>5, <2>6
  <2> QED
    BY <2>1, <2>7 DEF x
<1>6. \A n \in 0..k : n \in T
  <2> HIDE DEF T
  <2> QED
    BY <1>4, <1>5, StepByStep
<1>7. k \in 0..k /\ k > 0
  OBVIOUS
<1> QED
  BY <1>1, <1>6, <1>7 DEF F

(* What is reached is a root hub or at the end of a trail from one. *)
AtEnd(topo, n, at) ==
    \E c \in DOMAIN topo.roots : \E k \in 1..n : \E trail :
       IsTrail(topo, topo.roots[c], k, trail) /\ at = topo.port[trail[k]]

(* A trail and the port it goes on to. *)
Onto(x, k, trail) == [i \in 1..(k + 1) |-> IF i = k + 1 THEN x ELSE trail[i]]

LEMMA TrailExtends ==
    ASSUME NEW topo, NEW hub, NEW k \in Nat \ {0}, NEW trail, IsTrail(topo, hub, k, trail),
           NEW x \in DOMAIN topo.port, HubAt(topo, trail[k], x[1])
    PROVE  IsTrail(topo, hub, k + 1, Onto(x, k, trail)) /\ Onto(x, k, trail)[k + 1] = x
<1> DEFINE b == Onto(x, k, trail)
<1>1. /\ trail \in [1..k -> DOMAIN topo.port] /\ trail[1][1] = hub
      /\ \A i \in 1..(k - 1) : HubAt(topo, trail[i], trail[i + 1][1])
  BY DEF IsTrail
<1>2. b \in [1..(k + 1) -> DOMAIN topo.port]
  <2>1. ASSUME NEW i \in 1..(k + 1) PROVE (IF i = k + 1 THEN x ELSE trail[i]) \in DOMAIN topo.port
    <3>1. i = k + 1 \/ i \in 1..k
      OBVIOUS
    <3> QED
      BY <1>1, <3>1
  <2> QED
    BY <2>1 DEF Onto
<1>3. b[k + 1] = x /\ \A i \in 1..k : b[i] = trail[i]
  BY DEF Onto
<1> HIDE DEF b
<1>4. \A i \in 1..k : HubAt(topo, b[i], b[i + 1][1])
  <2> SUFFICES ASSUME NEW i \in 1..k PROVE HubAt(topo, b[i], b[i + 1][1])
    OBVIOUS
  <2>1. CASE i = k
    BY <1>3, <2>1
  <2>2. CASE i # k
    <3>1. i \in 1..(k - 1) /\ i + 1 \in 1..k
      BY <2>2
    <3> QED
      BY <1>1, <1>3, <3>1
  <2> QED
    BY <2>1, <2>2
<1>5. (k + 1) - 1 = k /\ b[1][1] = hub
  BY <1>1, <1>3
<1> QED
  BY <1>2, <1>3, <1>4, <1>5 DEF IsTrail, b

LEMMA ReachedByTrail ==
    ASSUME NEW topo, IsTopology(topo), NEW N \in Nat
    PROVE  \A n \in 0..N : \A at \in Reached(topo, N)[n] :
              at \in RootHubs(topo, DOMAIN topo.roots) \/ AtEnd(topo, n, at)
<1> DEFINE F == Reached(topo, N)
           roots == RootHubs(topo, DOMAIN topo.roots)
           T == {n \in 0..N : \A at \in F[n] : at \in roots \/ AtEnd(topo, n, at)}
<1>1. /\ F[0] = roots
      /\ \A n \in 1..N : F[n] = {topo.port[x] : x \in PortsOf(topo, F[n - 1])} \cup F[n - 1]
  BY ReachedIs
<1> HIDE DEF F
<1>2. 0 \in T
  BY <1>1
<1>3. ASSUME NEW n \in 0..(N - 1), n \in T
      PROVE  n + 1 \in T
  <2>1. n + 1 \in 1..N /\ (n + 1) - 1 = n /\ n + 1 \in 0..N
    OBVIOUS
  <2>2. F[n + 1] = {topo.port[x] : x \in PortsOf(topo, F[n])} \cup F[n]
    BY <1>1, <2>1
  <2>3. ASSUME NEW at \in F[n] PROVE at \in roots \/ AtEnd(topo, n + 1, at)
    <3>1. 1..n \subseteq 1..(n + 1)
      OBVIOUS
    <3>2. at \in roots \/ AtEnd(topo, n, at)
      BY <1>3, <2>3
    <3> QED
      BY <3>1, <3>2 DEF AtEnd
  <2>4. ASSUME NEW x \in PortsOf(topo, F[n]) PROVE AtEnd(topo, n + 1, topo.port[x])
    <3>1. x \in DOMAIN topo.port
      BY DEF PortsOf
    <3>2. PICK at \in F[n] : at.kind = "hub" /\ at.child = x[1]
      BY DEF PortsOf
    <3>3. CASE at \in roots
      <4>1. PICK c \in DOMAIN topo.roots : at = [kind |-> "hub", child |-> topo.roots[c]]
        BY <3>3 DEF RootHubs
      <4> DEFINE trail == [i \in 1..1 |-> x]
      <4>2. x[1] = topo.roots[c]
        BY <3>2, <4>1
      <4>3. IsTrail(topo, x[1], 1, trail)
        BY <3>1, ShortTrail
      <4>4. 1 \in 1..(n + 1) /\ trail[1] = x
        OBVIOUS
      <4> HIDE DEF trail
      <4> QED
        BY <4>2, <4>3, <4>4 DEF AtEnd
    <3>4. CASE AtEnd(topo, n, at)
      <4>1. PICK c \in DOMAIN topo.roots : \E k \in 1..n : \E trail :
               IsTrail(topo, topo.roots[c], k, trail) /\ at = topo.port[trail[k]]
        BY <3>4 DEF AtEnd
      <4>2. PICK k \in 1..n : \E trail :
               IsTrail(topo, topo.roots[c], k, trail) /\ at = topo.port[trail[k]]
        BY <4>1
      <4>3. PICK trail : IsTrail(topo, topo.roots[c], k, trail) /\ at = topo.port[trail[k]]
        BY <4>2
      <4>4. k \in Nat \ {0} /\ k + 1 \in 1..(n + 1) /\ k \in 1..k
        OBVIOUS
      <4>5. HubAt(topo, trail[k], x[1])
        BY <3>2, <4>3, <4>4 DEF HubAt, IsTrail
      <4> DEFINE b == Onto(x, k, trail)
      <4>6. IsTrail(topo, topo.roots[c], k + 1, b) /\ b[k + 1] = x
        BY <3>1, <4>3, <4>4, <4>5, TrailExtends
      <4> HIDE DEF b
      <4> QED
        BY <4>4, <4>6 DEF AtEnd
    <3> QED
      <4>1. at \in roots \/ AtEnd(topo, n, at)
        BY <1>3
      <4> QED
        BY <3>3, <3>4, <4>1
  <2>5. \A at \in F[n + 1] : at \in roots \/ AtEnd(topo, n + 1, at)
    BY <2>2, <2>3, <2>4
  <2> QED
    BY <2>1, <2>5
<1>4. \A n \in 0..N : n \in T
  <2> HIDE DEF T
  <2> QED
    BY <1>2, <1>3, StepByStep
<1> QED
  BY <1>4 DEF F

(***************************************************************************)
(* The name of an adapter, in any topology: it leads to an adapter with    *)
(* the address it was built for, and there is none only if no adapter at   *)
(* a depth that fits has that address (AdaptoidBuildLocationName).         *)
(***************************************************************************)
THEOREM LocationNameIsRight ==
    ASSUME NEW topo, IsTopology(topo), NEW address, NEW bytes \in Nat, bytes >= 2
    PROVE  LET name == LocationName(topo, address, bytes) IN
           IF name # Nameless THEN \E at \in LeadsTo(topo, name) : at.address = address
           ELSE ~\E at \in Within(topo, bytes - 2) : at.address = address
<1> DEFINE N == bytes - 2
           On(c) == FindOnHub(topo, address, topo.roots[c], N)
           found == {c \in DOMAIN topo.roots : On(c) # NotFound}
           name == LocationName(topo, address, bytes)
<1>1. N \in Nat /\ N \in 0..N
  OBVIOUS
<1> HIDE DEF N
<1>2. name = IF found = {} THEN Nameless
             ELSE [controller |-> Lowest(found), path |-> On(Lowest(found))]
  BY DEF LocationName, N
<1>3. CASE found # {}
  <2> DEFINE c == Lowest(found)
             hub == topo.roots[c]
             path == On(c)
  <2>1. c \in found
    <3>1. found \in SUBSET Nat
      BY DEF IsTopology
    <3> HIDE DEF found
    <3> QED
      BY <1>3, <3>1, LowestIs
  <2>2. c \in DOMAIN topo.roots /\ path # NotFound
    BY <2>1
  <2> HIDE DEF c
  <2>3. hub \in DOMAIN topo.ports /\ path = Found(topo, address, N)[N][hub]
    BY <2>2 DEF FindOnHub
  <2> HIDE DEF On
  <2>4. PICK k \in 1..N : \E trail :
                /\ IsTrail(topo, hub, k, trail) /\ IsIt(topo, address, trail[k])
                /\ Spells(k, trail, path)
    <3> HIDE DEF path, hub
    <3> QED
      BY <1>1, <2>2, <2>3, FoundLeads
  <2>5. PICK trail :
                /\ IsTrail(topo, hub, k, trail) /\ IsIt(topo, address, trail[k])
                /\ Spells(k, trail, path)
    BY <2>4
  <2> HIDE DEF path
  <2>6. name = [controller |-> c, path |-> path]
    BY <1>2, <1>3 DEF path, c
  <2> HIDE DEF name
  <2>7. /\ name.controller = c /\ name.path = path /\ path \in Seq(Nat)
        /\ k \in Nat \ {0}
    BY <2>5, <2>6, <1>1 DEF Spells
  <2>8. topo.port[trail[k]] \in Followed(topo, name)[Len(name.path)]
    BY <2>5, <2>7, TrailFollowed
  <2>9. topo.port[trail[k]] \in LeadsTo(topo, name) /\ topo.port[trail[k]].address = address
    BY <2>5, <2>8 DEF LeadsTo, IsIt
  <2>10. name # Nameless
    BY <2>2, <2>7 DEF Nameless
  <2> QED
    BY <2>9, <2>10 DEF name
<1>4. CASE found = {}
  <2>1. name = Nameless
    BY <1>2, <1>4
  <2>2. ASSUME NEW at \in Within(topo, N), at.address = address PROVE FALSE
    <3>1. at \in Reached(topo, N)[N] /\ at.kind = "adapter"
      BY DEF Within
    <3>2. at \notin RootHubs(topo, DOMAIN topo.roots)
      BY <3>1 DEF RootHubs
    <3>3. AtEnd(topo, N, at)
      BY <1>1, <3>1, <3>2, ReachedByTrail
    <3>4. PICK c \in DOMAIN topo.roots : \E k \in 1..N : \E trail :
             IsTrail(topo, topo.roots[c], k, trail) /\ at = topo.port[trail[k]]
      BY <3>3 DEF AtEnd
    <3>5. PICK k \in 1..N : \E trail :
             IsTrail(topo, topo.roots[c], k, trail) /\ at = topo.port[trail[k]]
      BY <3>4
    <3>6. PICK trail : IsTrail(topo, topo.roots[c], k, trail) /\ at = topo.port[trail[k]]
      BY <3>5
    <3> DEFINE hub == topo.roots[c]
    <3>7. /\ trail \in [1..k -> DOMAIN topo.port] /\ trail[1][1] = hub
          /\ 1 \in 1..k /\ k \in 1..k
      BY <1>1, <3>6 DEF IsTrail
    <3>8. IsIt(topo, address, trail[k])
      BY <2>2, <3>1, <3>6, <3>7 DEF IsIt
    <3>9. hub \in DOMAIN topo.ports
      BY <3>7 DEF IsTopology
    <3>10. Found(topo, address, N)[N][hub] # NotFound
      <4> HIDE DEF hub
      <4>1. IsTrail(topo, hub, k, trail)
        BY <3>6 DEF hub
      <4> QED
        BY <1>1, <3>8, <3>9, <4>1, TrailFound
    <3>11. On(c) # NotFound
      BY <3>9, <3>10 DEF FindOnHub
    <3> HIDE DEF On
    <3> QED
      BY <1>4, <3>11
  <2> QED
    BY <2>1, <2>2 DEF N
<1> QED
  BY <1>3, <1>4


--------------------------------------------------------------------------------
(* The name of a listed device *)

Named == dx.device_name = LocationNames[dx.Topology][dx.UsbAddress]
Listed == dx.Registration = "live"

(* The steps at which a device is not listed as live. *)
Unlisted == {"start_down", "descriptor", "configure", "started", "address", "name", "poll",
             "publish", "stop_down"}

(***************************************************************************)
(* A listed device has the name of its address: between the address and    *)
(* the name, and on to the listing, a START has the device unlisted.       *)
(***************************************************************************)
NameInv ==
    /\ dx.Topology \in Topologies /\ dx.UsbAddress \in Addresses \cup {0}
    /\ Listed => Named
    /\ os.mgr \in {"absent", "new", "stopped"} => ~Listed
    /\ todo["pnp"] # <<>> =>
          /\ Head(todo["pnp"]) \in Unlisted => ~Listed
          /\ Head(todo["pnp"]) \in {"poll", "publish"} => Named

(* What a step of the PnP request leaves at the head of the list. *)
LEMMA Ahead ==
    ASSUME Types, PnpInv, todo["pnp"] # <<>>, todo'["pnp"] # <<>>
    PROVE  /\ Onward("pnp") =>
              /\ Head(todo'["pnp"]) \in Unlisted =>
                    Head(todo["pnp"]) \in (Unlisted \ {"publish"}) \cup {"stopped"}
              /\ Head(todo'["pnp"]) \in {"poll", "publish"} =>
                    Head(todo["pnp"]) \in {"name", "poll"}
           /\ Failing("pnp") /\ (\E k \in 1..9 : OnStart(k)) =>
                 Head(todo'["pnp"]) = "start_answer"
<1> DEFINE h == todo'["pnp"]
           s == Head(todo["pnp"])
<1>1. DOMAIN todo = Threads /\ "pnp" \in Threads
  BY DEF Types, Threads
<1>2. ASSUME Onward("pnp")
      PROVE  /\ Head(h) \in Unlisted => s \in (Unlisted \ {"publish"}) \cup {"stopped"}
             /\ Head(h) \in {"poll", "publish"} => s \in {"name", "poll"}
  <2>1. h = Tail(todo["pnp"])
    BY <1>1, <1>2 DEF Onward
  <2>2. ASSUME NEW k \in 1..9, OnStart(k), s = StartSteps[k]
        PROVE  k # 9 /\ Head(h) = StartSteps[k + 1]
    <3>1. h = Rest(StartSteps, k + 1)
      BY <2>1, <2>2 DEF OnStart
    <3>2. k + 1 \in 1..10
      OBVIOUS
    <3>3. k + 1 # 10
      BY <3>1, <3>2, ProgramRests
    <3>4. k + 1 <= 9 /\ k # 9
      BY <3>3
    <3>5. Head(Rest(StartSteps, k + 1)) = StartSteps[k + 1]
      BY <3>2, <3>4, ProgramRests, Zenon
    <3> QED
      BY <3>1, <3>4, <3>5
  <2>3. ASSUME NEW k \in 1..5, OnStop(k), s = StopSteps[k]
        PROVE  k # 5 /\ Head(h) = StopSteps[k + 1]
    <3>1. h = Rest(StopSteps, k + 1)
      BY <2>1, <2>3 DEF OnStop
    <3>2. k + 1 \in 1..6
      OBVIOUS
    <3>3. k + 1 # 6
      BY <3>1, <3>2, ProgramRests
    <3>4. k + 1 <= 5 /\ k # 5
      BY <3>3
    <3>5. Head(Rest(StopSteps, k + 1)) = StopSteps[k + 1]
      BY <3>2, <3>4, ProgramRests, Zenon
    <3> QED
      BY <3>1, <3>4, <3>5
  <2>4. ASSUME NEW k \in 1..10, OnRemove(k), s = RemoveSteps[k]
        PROVE  k # 10 /\ Head(h) = RemoveSteps[k + 1]
    <3>1. h = Rest(RemoveSteps, k + 1)
      BY <2>1, <2>4 DEF OnRemove
    <3>2. k + 1 \in 1..11
      OBVIOUS
    <3>3. k + 1 # 11
      BY <3>1, <3>2, ProgramRests
    <3>4. k + 1 <= 10 /\ k # 10
      BY <3>3
    <3>5. Head(Rest(RemoveSteps, k + 1)) = RemoveSteps[k + 1]
      BY <3>2, <3>4, ProgramRests, Zenon
    <3> QED
      BY <3>1, <3>4, <3>5
  <2> HIDE DEF h, s
  <2>5. CASE \E k \in 1..9 : OnStart(k) /\ s = StartSteps[k]
    <3>1. PICK k \in 1..9 : OnStart(k) /\ s = StartSteps[k]
      BY <2>5
    <3>2. k \in 1..8 /\ Head(h) = StartSteps[k + 1]
      BY <2>2, <3>1
    <3> QED
      BY <3>1, <3>2 DEF StartSteps, Unlisted
  <2>6. CASE \E k \in 1..5 : OnStop(k) /\ s = StopSteps[k]
    <3>1. PICK k \in 1..5 : OnStop(k) /\ s = StopSteps[k]
      BY <2>6
    <3>2. k \in 1..4 /\ Head(h) = StopSteps[k + 1]
      BY <2>3, <3>1
    <3> QED
      BY <3>1, <3>2 DEF StopSteps, Unlisted
  <2>7. CASE \E k \in 1..10 : OnRemove(k) /\ s = RemoveSteps[k]
    <3>1. PICK k \in 1..10 : OnRemove(k) /\ s = RemoveSteps[k]
      BY <2>7
    <3>2. k \in 1..9 /\ Head(h) = RemoveSteps[k + 1]
      BY <2>4, <3>1
    <3> QED
      BY <3>1, <3>2 DEF RemoveSteps, Unlisted
  <2> QED
    BY <2>5, <2>6, <2>7, StepOfRequest DEF s
<1>3. ASSUME Failing("pnp"), NEW k \in 1..9, OnStart(k)
      PROVE  Head(h) = "start_answer"
  <2>1. h = Ending(todo["pnp"])
    BY <1>1, <1>3 DEF Failing, Ending
  <2>2. h = Rest(StartSteps, 9)
    BY <1>3, <2>1 DEF OnStart
  <2>3. Head(Rest(StartSteps, 9)) = StartSteps[9] /\ StartSteps[9] = "start_answer"
    <3>1. 9 \in 1..9 /\ 9 \in 1..10 /\ 9 <= 9
      OBVIOUS
    <3>2. StartSteps[9] = "start_answer"
      BY DEF StartSteps
    <3> QED
      BY <3>1, <3>2, ProgramRests, Zenon
  <2> QED
    BY <2>2, <2>3
<1> QED
  BY <1>2, <1>3

--------------------------------------------------------------------------------
(* Every step keeps NameInv *)

NameKept ==
    /\ dx'.Topology = dx.Topology /\ dx'.UsbAddress = dx.UsbAddress
    /\ dx'.device_name = dx.device_name

(* Steps that leave what NameInv is about. *)
LEMMA NameAside ==
    ASSUME NameInv, NameKept, dx'.Registration = dx.Registration,
           os'.mgr = os.mgr \/ os'.mgr \notin {"absent", "new", "stopped"},
           todo'["pnp"] = todo["pnp"]
    PROVE  NameInv'
BY DEF NameInv, NameKept, Listed, Named

LEMMA NameGoesOn ==
    ASSUME Types, PnpInv, NameInv, NameKept, dx'.Registration = dx.Registration,
           os'.mgr = os.mgr \/ os'.mgr \notin {"absent", "new", "stopped"},
           todo["pnp"] # <<>>, Head(todo["pnp"]) \notin {"name", "stopped"}, Onward("pnp")
    PROVE  NameInv'
<1>1. /\ Named' <=> Named
      /\ Listed' <=> Listed
  BY DEF NameKept, Named, Listed
<1>2. ASSUME todo'["pnp"] # <<>>
      PROVE  /\ Head(todo'["pnp"]) \in Unlisted => ~Listed'
             /\ Head(todo'["pnp"]) \in {"poll", "publish"} => Named'
  <2>1. /\ Head(todo'["pnp"]) \in Unlisted => Head(todo["pnp"]) \in Unlisted
        /\ Head(todo'["pnp"]) \in {"poll", "publish"} => Head(todo["pnp"]) = "poll"
    BY <1>2, Ahead
  <2> QED
    BY <1>1, <2>1 DEF NameInv
<1>3. /\ Listed' => Named'
      /\ os'.mgr \in {"absent", "new", "stopped"} => ~Listed'
      /\ dx'.Topology \in Topologies /\ dx'.UsbAddress \in Addresses \cup {0}
  BY <1>1 DEF NameInv, NameKept
<1> QED
  BY <1>2, <1>3 DEF NameInv

LEMMA NameFails ==
    ASSUME Types, PnpInv, NameInv, NameKept, dx'.Registration = dx.Registration,
           os'.mgr = os.mgr, todo["pnp"] # <<>>, NEW k \in 1..9, OnStart(k), Failing("pnp")
    PROVE  NameInv'
<1>1. /\ Named' <=> Named
      /\ Listed' <=> Listed
  BY DEF NameKept, Named, Listed
<1>2. todo'["pnp"] # <<>> => Head(todo'["pnp"]) = "start_answer"
  BY Ahead
<1>3. /\ Listed' => Named'
      /\ os'.mgr \in {"absent", "new", "stopped"} => ~Listed'
      /\ dx'.Topology \in Topologies /\ dx'.UsbAddress \in Addresses \cup {0}
  BY <1>1 DEF NameInv, NameKept
<1> QED
  BY <1>2, <1>3 DEF NameInv, Unlisted

LEMMA NameAtStart == Init => NameInv
<1> SUFFICES ASSUME Init PROVE NameInv
  OBVIOUS
<1>1. PICK topology \in Topologies : dx = Zeroed(topology)
  BY DEF Init
<1>2. dx.Topology = topology /\ dx.UsbAddress = 0 /\ ~Listed
  BY <1>1 DEF Zeroed, Listed
<1>3. todo["pnp"] = <<>>
  BY DEF Init, Threads
<1> QED
  BY <1>2, <1>3 DEF NameInv

LEMMA NameAdded ==
    ASSUME Inv, NameInv, AddDevice
    PROVE  NameInv'
<1>1. PnpInv /\ Types
  BY DEF Inv, Kept
<1>2. os.mgr = "absent" /\ todo["pnp"] = <<>> /\ ~Listed
  BY <1>1 DEF AddDevice, PnpInv, NameInv
<1>3. NameKept
  BY <1>1 DEF AddDevice, Types, Fields, Initialised, NameKept
<1>4. dx'.Registration \in {dx.Registration, "down"} /\ todo' = todo
  BY <1>1 DEF AddDevice, Types, Fields, Initialised
<1>5. ~Listed'
  BY <1>2, <1>4 DEF Listed
<1> QED
  BY <1>2, <1>3, <1>4, <1>5 DEF NameInv, NameKept

(* The requests of the PnP manager. *)
LEMMA NameRequested ==
    ASSUME Inv, NameInv,
           \/ StartDevice \/ QueryRemove \/ CancelRemove \/ QueryStop \/ CancelStop
           \/ StopDevice \/ Unplug \/ SurpriseRemoval \/ RemoveDevice
    PROVE  NameInv'
<1>1. PnpInv /\ Types
  BY DEF Inv, Kept
<1>2. /\ DOMAIN todo = Threads /\ "pnp" \in Threads
      /\ DOMAIN os = {"mgr", "bus", "present"} /\ DOMAIN dx = Fields
  BY <1>1 DEF Types, Threads
<1>3. CASE StartDevice
  <2>1. os.mgr \in {"new", "stopped"} /\ os'.mgr = "starting" /\ dx' = dx
    BY <1>2, <1>3 DEF StartDevice, Idle, Enters
  <2>2. Head(todo'["pnp"]) = "start_down"
    BY <1>2, <1>3 DEF StartDevice, Enters
  <2>3. ~Listed /\ (Listed' <=> Listed)
    BY <2>1 DEF NameInv, Listed
  <2> QED
    BY <2>1, <2>2, <2>3 DEF NameInv
<1>4. CASE QueryRemove \/ CancelRemove \/ QueryStop \/ CancelStop
  <2>1. /\ NameKept /\ dx'.Registration = dx.Registration /\ todo' = todo
        /\ os'.mgr \notin {"absent", "new", "stopped"}
    BY <1>2, <1>4 DEF QueryRemove, CancelRemove, QueryStop, CancelStop, Query, NameKept, Fields
  <2> QED
    BY <2>1, NameAside
<1>5. CASE StopDevice
  <2>1. os'.mgr = "stopping" /\ dx' = dx
    BY <1>2, <1>5 DEF StopDevice, Enters
  <2>2. Head(todo'["pnp"]) = "stop_pnp"
    BY <1>2, <1>5 DEF StopDevice, Enters
  <2> QED
    BY <2>1, <2>2 DEF NameInv, Unlisted, Listed, Named
<1>6. CASE Unplug \/ SurpriseRemoval
  <2>1. /\ dx' = dx /\ todo' = todo
        /\ os'.mgr = os.mgr \/ os'.mgr \notin {"absent", "new", "stopped"}
    BY <1>2, <1>6 DEF Unplug, SurpriseRemoval
  <2> QED
    BY <2>1, NameAside DEF NameKept
<1>7. CASE RemoveDevice
  <2>1. /\ os'.mgr = "removing" /\ NameKept /\ dx'.Registration = dx.Registration
    BY <1>2, <1>7 DEF RemoveDevice, Enters, NameKept, Fields
  <2>2. Head(todo'["pnp"]) = "drain_A"
    BY <1>2, <1>7 DEF RemoveDevice, Enters
  <2> QED
    BY <2>1, <2>2 DEF NameInv, Unlisted, Listed, Named, NameKept
<1> QED
  BY <1>3, <1>4, <1>5, <1>6, <1>7

(* START up to the address, where a failure leaves only the answer. *)
LEMMA NameBroughtUp ==
    ASSUME Inv, NameInv, StartDown \/ FetchDeviceDescriptor \/ SelectConfiguration
    PROVE  NameInv'
<1>1. PnpInv /\ Types
  BY DEF Inv, Kept
<1>2. DOMAIN os = {"mgr", "bus", "present"} /\ DOMAIN dx = Fields
  BY <1>1 DEF Types
<1>3. /\ todo["pnp"] # <<>> /\ Head(todo["pnp"]) \in {"start_down", "descriptor", "configure"}
      /\ os'.mgr = os.mgr
  BY <1>2 DEF StartDown, FetchDeviceDescriptor, SelectConfiguration, Doing
<1>4. \E k \in 1..9 : OnStart(k)
  <2>1. OnStart(1) \/ OnStart(2) \/ OnStart(3)
    BY <1>1, <1>3, StepAt
  <2> QED
    BY <2>1
<1>5. NameKept /\ dx'.Registration = dx.Registration
  BY <1>2 DEF StartDown, FetchDeviceDescriptor, SelectConfiguration, Repoint, DropDescriptor,
              NameKept, Fields
<1>6. Onward("pnp") \/ Failing("pnp") \/ todo' = todo
  BY DEF StartDown, FetchDeviceDescriptor, SelectConfiguration
<1>7. CASE Onward("pnp")
  BY <1>1, <1>3, <1>5, <1>7, NameGoesOn
<1>8. CASE Failing("pnp")
  BY <1>1, <1>3, <1>4, <1>5, <1>8, NameFails
<1>9. CASE todo' = todo
  BY <1>3, <1>5, <1>9, NameAside
<1> QED
  BY <1>6, <1>7, <1>8, <1>9

(* The address and the name it stands for. *)
LEMMA NameGiven ==
    ASSUME Inv, NameInv, QueryFirmwareInfo \/ SetDeviceName
    PROVE  NameInv'
<1>1. PnpInv /\ Types
  BY DEF Inv, Kept
<1>2. DOMAIN dx = Fields
  BY <1>1 DEF Types
<1>3. /\ todo["pnp"] # <<>> /\ Head(todo["pnp"]) \in {"address", "name"}
      /\ Onward("pnp") /\ os' = os
  BY DEF QueryFirmwareInfo, SetDeviceName, Doing
<1>4. ~Listed
  BY <1>3 DEF NameInv, Unlisted
<1>5. /\ dx'.Topology = dx.Topology /\ dx'.Registration = dx.Registration
      /\ dx'.UsbAddress \in Addresses \cup {0, dx.UsbAddress}
  BY <1>2 DEF QueryFirmwareInfo, SetDeviceName, Fields
<1>6. ~Listed'
  BY <1>4, <1>5 DEF Listed
<1>7. ASSUME todo'["pnp"] # <<>>, Head(todo'["pnp"]) \in {"poll", "publish"}
      PROVE  Named'
  <2>1. Head(todo["pnp"]) = "name"
    BY <1>1, <1>3, <1>7, Ahead
  <2>2. SetDeviceName
    BY <2>1 DEF QueryFirmwareInfo, Doing
  <2> QED
    BY <1>2, <2>2 DEF SetDeviceName, Named, Fields
<1> QED
  BY <1>5, <1>6, <1>7 DEF NameInv

(* The listing, the answers, and what takes the device off the list. *)
LEMMA NameListed ==
    ASSUME Inv, NameInv, Publish
    PROVE  NameInv'
<1>1. PnpInv /\ Types
  BY DEF Inv, Kept
<1>2. DOMAIN dx = Fields
  BY <1>1 DEF Types
<1>3. /\ todo["pnp"] # <<>> /\ Head(todo["pnp"]) = "publish"
      /\ Onward("pnp") /\ os' = os
  BY DEF Publish, Doing
<1>4. NameKept
  BY <1>2 DEF Publish, NameKept, Fields
<1>5. Named /\ (Named' <=> Named)
  BY <1>3, <1>4 DEF NameInv, NameKept, Named
<1>6. os.mgr = "starting"
  BY <1>1, <1>3, StepAt DEF OnStart
<1>7. todo'["pnp"] # <<>> => Head(todo'["pnp"]) \notin Unlisted
  <2>1. ASSUME todo'["pnp"] # <<>>, Head(todo'["pnp"]) \in Unlisted
        PROVE  "publish" \in (Unlisted \ {"publish"}) \cup {"stopped"}
    BY <1>1, <1>3, <2>1, Ahead
  <2> QED
    BY <2>1
<1> QED
  BY <1>3, <1>4, <1>5, <1>6, <1>7 DEF NameInv, NameKept

LEMMA NameDropped ==
    ASSUME Inv, NameInv, Stopped \/ UnwireDevice
    PROVE  NameInv'
<1>1. PnpInv /\ Types
  BY DEF Inv, Kept
<1>2. DOMAIN dx = Fields
  BY <1>1 DEF Types
<1>3. /\ todo["pnp"] # <<>> /\ Head(todo["pnp"]) \in {"stopped", "unwire"}
      /\ Onward("pnp") /\ os' = os
  BY DEF Stopped, UnwireDevice, Doing
<1>4. NameKept /\ ~Listed'
  BY <1>2 DEF Stopped, UnwireDevice, Unregistered, NameKept, Listed, Fields
<1>5. todo'["pnp"] # <<>> => Head(todo'["pnp"]) \notin {"poll", "publish"}
  BY <1>1, <1>3, Ahead
<1> QED
  BY <1>3, <1>4, <1>5 DEF NameInv, NameKept

LEMMA NameStopDown ==
    ASSUME Inv, NameInv, StopDown
    PROVE  NameInv'
<1>1. PnpInv /\ Types
  BY DEF Inv, Kept
<1>2. /\ todo["pnp"] # <<>> /\ Head(todo["pnp"]) = "stop_down"
      /\ Onward("pnp") /\ dx' = dx
  BY DEF StopDown, Doing
<1>3. ~Listed /\ (Listed' <=> Listed)
  BY <1>2 DEF NameInv, Unlisted, Listed
<1>4. todo'["pnp"] # <<>> => Head(todo'["pnp"]) \notin {"poll", "publish"}
  BY <1>1, <1>2, Ahead
<1> QED
  BY <1>2, <1>3, <1>4 DEF NameInv

(* Every other step of the PnP request. *)
LEMMA NamePassed ==
    ASSUME Inv, NameInv,
           \/ SetStarted \/ StartPolling \/ StartAnswered
           \/ StopPolling("pnp", "stop_pnp", "pnp") \/ QuiesceIo("pnp") \/ UnconfigureDevice
           \/ DrainA \/ RegistryRemove \/ StopPolling("pnp", "stop_remove", "remove") \/ Abort
           \/ RemoveDown \/ CloseB \/ DrainB \/ FreeDeviceResources
    PROVE  NameInv'
<1>1. PnpInv /\ Types
  BY DEF Inv, Kept
<1>2. DOMAIN os = {"mgr", "bus", "present"} /\ DOMAIN dx = Fields
  BY <1>1 DEF Types
<1>3. /\ todo["pnp"] # <<>> /\ Head(todo["pnp"]) \notin {"name", "stopped"}
      /\ Onward("pnp")
  BY DEF SetStarted, StartPolling, StartAnswered, StopPolling, QuiesceIo, UnconfigureDevice,
         DrainA, RegistryRemove, Abort, RemoveDown, CloseB, DrainB, FreeDeviceResources, Doing
<1>4. NameKept /\ dx'.Registration = dx.Registration
  <2>1. CASE SetStarted \/ StartPolling \/ StartAnswered
    BY <1>2, <2>1 DEF SetStarted, StartPolling, StartAnswered, PollStart, NameKept, Fields
  <2>2. CASE \/ StopPolling("pnp", "stop_pnp", "pnp") \/ QuiesceIo("pnp") \/ UnconfigureDevice
             \/ DrainA \/ RegistryRemove
    BY <1>2, <2>2 DEF StopPolling, QuiesceIo, UnconfigureDevice, DrainA, RegistryRemove, PollStop,
                      AbortPipes, Retired, Unregistered, NameKept, Fields
  <2>3. CASE \/ StopPolling("pnp", "stop_remove", "remove") \/ Abort
             \/ RemoveDown \/ CloseB \/ DrainB \/ FreeDeviceResources
    BY <1>2, <2>3 DEF StopPolling, Abort, RemoveDown, CloseB, DrainB, FreeDeviceResources, PollStop,
                      AbortPipes, Retired, Unregistered, NameKept, Fields
  <2> QED
    BY <2>1, <2>2, <2>3
<1>5. os'.mgr = os.mgr \/ os'.mgr \in {"running", "failed"}
  BY <1>2 DEF SetStarted, StartPolling, StartAnswered, StopPolling, QuiesceIo,
              UnconfigureDevice, DrainA, RegistryRemove, Abort, RemoveDown, CloseB, DrainB,
              FreeDeviceResources
<1> QED
  BY <1>1, <1>3, <1>4, <1>5, NameGoesOn

(* Reads, HID and power requests. *)
LEMMA NameElsewhere ==
    ASSUME Inv, NameInv,
           \/ ReadReturns \/ ReadStops \/ PollSubmit
           \/ HidRequest \/ HidRequestReturns \/ ParkedReadEnds
           \/ \E s \in {S0, S3} : SystemPower(s)
           \/ PowerSteps \/ WaitWake \/ WakeEnds
    PROVE  NameInv'
<1>1. Types
  BY DEF Inv
<1>2. /\ DOMAIN todo = Threads /\ Threads = {"pnp", "device"}
      /\ DOMAIN os = {"mgr", "bus", "present"} /\ DOMAIN dx = Fields
  BY <1>1 DEF Types, Threads
<1>3. os' = os /\ todo'["pnp"] = todo["pnp"]
  <2>1. CASE \/ ReadReturns \/ ReadStops \/ PollSubmit
             \/ HidRequest \/ HidRequestReturns \/ ParkedReadEnds
             \/ \E s \in {S0, S3} : SystemPower(s)
    BY <2>1 DEF ReadReturns, ReadStops, PollSubmit, HidRequest, HidRequestReturns,
                ParkedReadEnds, SystemPower
  <2>2. CASE WaitWake \/ WakeEnds \/ WaitWakeReturns \/ BusPoweredDown
             \/ PowerUpComplete \/ PowerUpReturns \/ SystemPowerComplete
    BY <2>2 DEF WaitWake, WakeEnds, WaitWakeReturns, BusPoweredDown, PowerUpComplete,
                PowerUpReturns, SystemPowerComplete
  <2>3. CASE \/ DevicePower \/ StopPolling("device", "stop_power", "power")
             \/ QuiesceIo("device") \/ PowerDown \/ PowerAnswered
    BY <1>2, <2>3 DEF DevicePower, StopPolling, QuiesceIo, PowerDown, PowerAnswered, Onward
  <2> QED
    BY <2>1, <2>2, <2>3 DEF PowerSteps
<1>4. NameKept /\ dx'.Registration = dx.Registration
  <2>1. CASE ReadReturns \/ ReadStops \/ PollSubmit
    <3>1. CASE ReadReturns
      BY <1>2, <3>1 DEF ReadReturns, NameKept, Fields
    <3>2. CASE ReadStops \/ dx' = Retired(dx)
      BY <1>2, <3>2 DEF ReadStops, Retired, NameKept, Fields
    <3>3. CASE PollSubmit /\ dx' # Retired(dx)
      BY <1>2, <3>3 DEF PollSubmit, NameKept, Fields
    <3> QED
      BY <2>1, <3>1, <3>2, <3>3
  <2>4. CASE \/ HidRequest \/ HidRequestReturns \/ ParkedReadEnds
             \/ \E s \in {S0, S3} : SystemPower(s)
    BY <1>2, <2>4
       DEF HidRequest, HidRequestReturns, ParkedReadEnds, SystemPower, Park, NameKept, Fields
  <2>2. CASE PowerSteps
    <3>1. CASE DevicePower
      BY <1>2, <3>1 DEF DevicePower, NameKept, Fields
    <3>2. CASE PowerDown \/ PowerAnswered \/ BusPoweredDown
      BY <1>2, <3>2 DEF PowerDown, PowerAnswered, BusPoweredDown, NameKept, Fields
    <3>3. CASE PowerUpComplete
      <4> DEFINE d == [dx EXCEPT !.DevicePowerState = D0]
      <4>1. /\ DOMAIN d = Fields /\ d.Registration = dx.Registration
            /\ d.Topology = dx.Topology /\ d.UsbAddress = dx.UsbAddress
            /\ d.device_name = dx.device_name
        BY <1>2 DEF Fields
      <4>2. dx' = PollStart(d, "power", "device")
        BY <3>3 DEF PowerUpComplete
      <4> HIDE DEF d
      <4> QED
        BY <4>1, <4>2 DEF PollStart, NameKept, Fields
    <3>6. CASE PowerUpReturns \/ SystemPowerComplete \/ WaitWakeReturns
      BY <1>2, <3>6 DEF PowerUpReturns, SystemPowerComplete, WaitWakeReturns, NameKept, Fields
    <3>4. CASE StopPolling("device", "stop_power", "power")
      BY <1>2, <3>4 DEF StopPolling, PollStop, NameKept, Fields
    <3>5. CASE QuiesceIo("device")
      BY <1>2, <3>5 DEF QuiesceIo, AbortPipes, Retired, PollStop, NameKept, Fields
    <3> QED
      BY <2>2, <3>1, <3>2, <3>3, <3>4, <3>5, <3>6 DEF PowerSteps
  <2>3. CASE WaitWake \/ WakeEnds
    BY <1>2, <2>3 DEF WaitWake, WakeEnds, NameKept, Fields
  <2> QED
    BY <2>1, <2>2, <2>3, <2>4
<1> QED
  BY <1>3, <1>4, NameAside

LEMMA NameInvKept == Inv /\ NameInv /\ [Next]_vars => NameInv'
<1> SUFFICES ASSUME Inv, NameInv, [Next]_vars
             PROVE  NameInv'
  OBVIOUS
<1>1. CASE UNCHANGED vars
  BY <1>1, NameAside DEF vars, NameKept
<1>2. CASE Next
  BY <1>2, NameAdded, NameRequested, NameBroughtUp, NameGiven, NameListed, NameDropped,
     NameStopDown, NamePassed, NameElsewhere DEF Next, PnpSteps
<1> QED
  BY <1>1, <1>2

(***************************************************************************)
(* Whenever a device is listed as live its name leads to an adapter with   *)
(* the address it reported, or no such adapter is at a depth that fits     *)
(* (AdaptoidQueryFirmwareInfo, AdaptoidBuildLocationName): a START has the *)
(* device off the list from the moment it may change the address until it  *)
(* has made the name again, and nothing else changes either.               *)
(***************************************************************************)
THEOREM NameLeadsToAdapterHolds == Spec => []NameLeadsToAdapter
<1>1. Init => NameInv
  BY NameAtStart
<1>2. Inv /\ NameInv /\ [Next]_vars => NameInv'
  BY NameInvKept
<1>3. NameInv => NameLeadsToAdapter
  <2> SUFFICES ASSUME NameInv, Listed
               PROVE  LET Here(found) == \E at \in found : at.address = dx.UsbAddress IN
                      IF dx.device_name # Nameless
                      THEN Here(LeadsTo(dx.Topology, dx.device_name))
                      ELSE ~Here(Within(dx.Topology, NameBytes - 2))
    BY DEF NameLeadsToAdapter, Listed
  <2> DEFINE topo == dx.Topology
             address == dx.UsbAddress
             name == dx.device_name
  <2>1. IsTopology(topo) /\ NameBytes \in Nat /\ NameBytes >= 2
    BY LifecycleConstants DEF NameInv
  <2>2. name = LocationName(topo, address, NameBytes)
    <3>1. topo \in Topologies /\ address \in Addresses \cup {0} /\ Named
      BY DEF NameInv
    <3>2. name = LocationNames[topo][address]
      BY <3>1 DEF Named
    <3> HIDE DEF name, topo, address
    <3> QED
      BY <3>1, <3>2 DEF LocationNames
  <2> HIDE DEF name, topo, address
  <2>3. IF name # Nameless THEN \E at \in LeadsTo(topo, name) : at.address = address
        ELSE ~\E at \in Within(topo, NameBytes - 2) : at.address = address
    BY <2>1, <2>2, LocationNameIsRight, Zenon
  <2> QED
    BY <2>3 DEF name, topo, address
<1> QED
  BY <1>1, <1>2, <1>3, LifecycleInvariant, PTL DEF Spec
================================================================================

------------------------------- MODULE DrainGate -------------------------------
(***************************************************************************)
(* What a remove lock promises, with no counter and no event in it: work   *)
(* may enter while the gate is open, nothing may enter once it is closing, *)
(* and it is closed only when everything that entered has left.            *)
(* AdaptoidPnp's IRP_MN_REMOVE_DEVICE relies on this of RemoveLockA and    *)
(* RemoveLockB before it frees what the work was using.                    *)
(***************************************************************************)
CONSTANT Users              \* whatever may hold the lock: IRPs, transfers, work items

VARIABLES inside,           \* the users that hold the lock
          gate              \* "open", "closing" or "closed"

gateVars == <<inside, gate>>

GateInit == inside = {} /\ gate = "open"

Enter(u) ==
    /\ gate = "open"
    /\ u \notin inside
    /\ inside' = inside \cup {u}
    /\ UNCHANGED gate

Leave(u) ==
    /\ u \in inside
    /\ inside' = inside \ {u}
    /\ UNCHANGED gate

StartClosing ==
    /\ gate = "open"
    /\ gate' = "closing"
    /\ UNCHANGED inside

FinishClosing ==
    /\ gate = "closing"
    /\ inside = {}
    /\ gate' = "closed"
    /\ UNCHANGED inside

GateNext ==
    \/ \E u \in Users : Enter(u) \/ Leave(u)
    \/ StartClosing
    \/ FinishClosing

GateSpec == GateInit /\ [][GateNext]_gateVars
================================================================================

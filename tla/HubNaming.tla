------------------------------- MODULE HubNaming -------------------------------
(***************************************************************************)
(* AdaptoidBuildLocationName: the adapter reports its own USB address and  *)
(* the driver walks every controller's hubs for the port that holds an     *)
(* Adaptoid at that address.  The name is the controller's letter and the  *)
(* last digit of each port on the way, outermost first.                    *)
(*                                                                         *)
(* A topology is what the seam of the four USB requests answers:           *)
(*   roots  the root hub of each controller the search finds one for,      *)
(*   ports  the number of ports of each hub that answers,                  *)
(*   port   what each answering, connected port holds: an adapter with its *)
(*          address, a hub, or something else.                             *)
(* FindOnHub calls itself on the hub of a port with one byte less to write *)
(* to: that is the recursion of Found, which has the answer for every hub  *)
(* and every room.                                                         *)
(***************************************************************************)
EXTENDS Naturals, Sequences, FiniteSets

NotFound == <<>>

NoTopology == [roots |-> <<>>, ports |-> <<>>, port |-> <<>>]

(* What the seam can answer: ports are asked for by hub and number, from 1. *)
IsTopology(topo) ==
    /\ DOMAIN topo.roots \subseteq Nat
    /\ \A hub \in DOMAIN topo.ports : topo.ports[hub] \in Nat
    /\ \A x \in DOMAIN topo.port :
          /\ x = <<x[1], x[2]>> /\ x[1] \in DOMAIN topo.ports
          /\ x[2] \in 1..topo.ports[x[1]]

Lowest(S) == CHOOSE n \in S : \A k \in S : n <= k

(***************************************************************************)
(* A port's digit in front of what was found below it.                     *)
(***************************************************************************)
FaultInnermostFirst(port, deeper) == deeper \o <<port % 10>>

PortPath(port, deeper) == <<port % 10>> \o deeper

(***************************************************************************)
(* One port of a hub: the adapter, a hub it was found below, or neither.   *)
(***************************************************************************)
PathFrom(topo, address, below, x) ==
    IF x \notin DOMAIN topo.port THEN NotFound
    ELSE LET at == topo.port[x] IN
         CASE at.kind = "adapter" ->
                IF at.address = address THEN PortPath(x[2], <<>>) ELSE NotFound
           [] at.kind = "hub" ->
                IF at.child \in DOMAIN topo.ports /\ below[at.child] # NotFound
                THEN PortPath(x[2], below[at.child]) ELSE NotFound
           [] OTHER -> NotFound

(***************************************************************************)
(* The first port of a hub, in order, that is the adapter or leads to it.  *)
(***************************************************************************)
Leading(topo, address, below, hub) ==
    {p \in 1..topo.ports[hub] : PathFrom(topo, address, below, <<hub, p>>) # NotFound}

FindOnPorts(topo, address, below) ==
    [hub \in DOMAIN topo.ports |->
        IF Leading(topo, address, below, hub) = {} THEN NotFound
        ELSE PathFrom(topo, address, below, <<hub, Lowest(Leading(topo, address, below, hub))>>)]

(* FindOnHub with room for so many digits, for every hub that answers. *)
Found(topo, address, pathBytes) ==
    LET Find[n \in 0..pathBytes] ==
          IF n = 0 THEN [hub \in DOMAIN topo.ports |-> NotFound]
          ELSE FindOnPorts(topo, address, Find[n - 1])
    IN  Find

FindOnHub(topo, address, hubName, pathBytes) ==
    IF hubName \in DOMAIN topo.ports THEN Found(topo, address, pathBytes)[pathBytes][hubName]
    ELSE NotFound

(***************************************************************************)
(* The first controller under which the adapter is found; one byte of the  *)
(* name is the letter and one the terminator.  "?" when it is nowhere.     *)
(***************************************************************************)
Nameless == [controller |-> 0, path |-> NotFound]

LocationName(topo, address, nameBytes) ==
    LET On(c) == FindOnHub(topo, address, topo.roots[c], nameBytes - 2)
        found == {c \in DOMAIN topo.roots : On(c) # NotFound}
    IN  IF found = {} THEN Nameless
        ELSE [controller |-> Lowest(found), path |-> On(Lowest(found))]

--------------------------------------------------------------------------------
(* A reference definition of what a name means: where it leads. *)

RootHubs(topo, controllers) == {[kind |-> "hub", child |-> topo.roots[c]] : c \in controllers}

(* The ports of some hubs that are in use. *)
PortsOf(topo, hubs) ==
    {x \in DOMAIN topo.port : \E at \in hubs : at.kind = "hub" /\ at.child = x[1]}

(***************************************************************************)
(* The adapters a name leads to, followed digit by digit from the root of  *)
(* its controller (a digit stands for every port that ends in it), and the *)
(* adapters that are so many ports, or fewer, from a root.                 *)
(***************************************************************************)
Followed(topo, name) ==
    LET Follow[n \in 0..Len(name.path)] ==
          IF n = 0 THEN RootHubs(topo, {name.controller})
          ELSE {topo.port[x] :
                  x \in {y \in PortsOf(topo, Follow[n - 1]) : y[2] % 10 = name.path[n]}}
    IN  Follow

Reached(topo, depth) ==
    LET Reach[n \in 0..depth] ==
          IF n = 0 THEN RootHubs(topo, DOMAIN topo.roots)
          ELSE {topo.port[x] : x \in PortsOf(topo, Reach[n - 1])} \cup Reach[n - 1]
    IN  Reach

LeadsTo(topo, name) ==
    {at \in Followed(topo, name)[Len(name.path)] : at.kind = "adapter"}

Within(topo, depth) == {at \in Reached(topo, depth)[depth] : at.kind = "adapter"}
================================================================================

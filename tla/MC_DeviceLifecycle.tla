--------------------------- MODULE MC_DeviceLifecycle ---------------------------
(***************************************************************************)
(* DeviceLifecycle for TLC.  The harness's kind of topology (the driver    *)
(* leaves the seam zeroed and every name "?"): a controller without a root *)
(* hub, one whose hubs hold other devices, and one with the adapter three  *)
(* hubs deep behind a hub that does not answer.                            *)
(***************************************************************************)
EXTENDS DeviceLifecycle, TLC

Adapter(n) == [kind |-> "adapter", address |-> n]
Hub(h) == [kind |-> "hub", child |-> h]
Mouse == [kind |-> "other"]

MCTopology ==
    [roots |-> <<"none", "r1", "r2">>,
     ports |-> ("r1" :> 2 @@ "r2" :> 2 @@ "h1" :> 3 @@ "h2" :> 2),
     port |-> (<<"r1", 1>> :> Adapter(6) @@ <<"r1", 2>> :> Mouse
               @@ <<"r2", 1>> :> Mouse @@ <<"r2", 2>> :> Hub("h1")
               @@ <<"h1", 1>> :> Hub("absent") @@ <<"h1", 3>> :> Hub("h2")
               @@ <<"h2", 1>> :> Adapter(7) @@ <<"h2", 2>> :> Adapter(5))]
MCTopologies == {MCTopology}
================================================================================

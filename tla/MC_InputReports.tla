---------------------------- MODULE MC_InputReports -----------------------------
(* InputReports with five kinds of behaviour, each with the inputs and bounds it needs. *)
EXTENDS InputReports, TLC

CONSTANTS a1, a2, a3, c1, c2

All == {Joystick, Keyboard, Mouse}

P(x, y, held) == [x |-> x, y |-> y, valid |-> TRUE, pak |-> {}, held |-> held]

Key(u, down) == [op |-> "key", usage |-> u, down |-> down]

Button(b, down) == [op |-> "mouse", button |-> b, down |-> down]

Calls(n1, n2) == c1 :> n1 @@ c2 :> n2

Nothing == [up |-> <<a1>>, mask |-> All, packets |-> {}, natives |-> {}, requests |-> {},
            maxPackets |-> 0, maxNatives |-> 0, maxCalls |-> Calls(0, 0), maxPnp |-> 0]

(* Tuning from the controller, with a script on the stick and a client on its settings. *)
Tuning ==
    [Nothing EXCEPT
        !.packets = {P(0, 0, {}), P(70, -128, {A}), P(-75, 60, {L, R, Z, Start}), P(-71, 1, {L, Up, Left})},
        !.natives = {[op |-> "stick", x |-> 2000, y |-> 5], [op |-> "stickrel", x |-> -9, y |-> 0],
                     [op |-> "button", n |-> 3, on |-> TRUE]},
        !.requests = {[op |-> "load", some |-> TRUE], [op |-> "set", field |-> "clip", value |-> 60]},
        !.maxPackets = 4, !.maxNatives = 1, !.maxCalls = Calls(1, 1), !.maxPnp = 1]

(* A script that holds keys and buttons is replaced, or its adapter stopped. *)
Typing ==
    [Nothing EXCEPT
        !.natives = {Key(4, TRUE), Key(5, TRUE), Key(4, FALSE), Key(224, TRUE), Key(0, FALSE), Button(1, TRUE),
                     Button(2, TRUE), Button(1, FALSE), [op |-> "move", dx |-> -3, dy |-> 7]},
        !.requests = {[op |-> "load", some |-> TRUE], [op |-> "load", some |-> FALSE]},
        !.maxNatives = 4, !.maxCalls = Calls(2, 0), !.maxPnp = 1]

(* Adapters come, go and stop under an enumeration. *)
Plugging ==
    [Nothing EXCEPT !.up = <<a1, a2>>, !.requests = {[op |-> "enum"]}, !.maxCalls = Calls(2, 1), !.maxPnp = 5]

(* Corrupt packets, a Pak that comes and goes, and no joystick collection. *)
Paks ==
    [Nothing EXCEPT
        !.packets = {P(0, 0, {}), [P(9, 9, {B}) EXCEPT !.valid = FALSE],
                     [P(70, -128, {A}) EXCEPT !.pak = {"present"}], [P(1, 1, {}) EXCEPT !.pak = {"removed"}]},
        !.requests = {[op |-> "snap"]}, !.maxPackets = 4, !.maxCalls = Calls(1, 0), !.mask = {Keyboard, Mouse}]

(* Driver-wide settings and snapshots while packets come in and an adapter goes. *)
Controls ==
    [Nothing EXCEPT
        !.up = <<a1, a2>>,
        !.packets = {P(0, 0, {A})},
        !.requests = {[op |-> "map", map |-> (0 :> 5 @@ 1 :> 14 @@ 15 :> 6)], [op |-> "reports", on |-> TRUE],
                      [op |-> "reports", on |-> FALSE], [op |-> "open"],
                      [op |-> "set", field |-> "stretch", value |-> 0]},
        !.maxPackets = 2, !.maxCalls = Calls(2, 0), !.maxPnp = 1]

MCScenarios == {Tuning, Typing, Plugging, Paks, Controls}

(* Values of VirtualDevices for which the descriptor leaves a collection out. *)
MCOddDevices == {[Typing EXCEPT !.mask = {Joystick, Keyboard}, !.maxNatives = 1]}

MCInstanceId == a1 :> 51 @@ a2 :> 52 @@ a3 :> 53

================================================================================

------------------------------ MODULE InputReports ------------------------------
(***************************************************************************)
(* What an adapter tells the host, and what changes it.  A packet of the   *)
(* interrupt pipe is decoded, shown to the script and sent on as joystick  *)
(* report; a script presses keys and moves the mouse; the requests of user *)
(* mode set the stick, the button map and the virtual mode, and replace    *)
(* the script.  Requests run at PASSIVE_LEVEL, hold no lock that a packet  *)
(* takes, and are preempted between any two of their steps.                *)
(*                                                                         *)
(* Packets and the script timer run at DISPATCH_LEVEL, under no lock: the  *)
(* two interrupt reads may complete on two processors at once, and the     *)
(* timer's DPC on a third.  Between the decode and the script on the one   *)
(* hand and the pack on the other another packet, the timer and requests   *)
(* may come; up to there, and in the script's passes, the model runs one   *)
(* after the other, as one processor would.                                *)
(*                                                                         *)
(* Requests come by the adapter's own interface, under RemoveLockA, or by  *)
(* the control device, whose list of adapters has no lock.  The accessory  *)
(* probe and the effect engine are in CoreChains: here the probe ends and  *)
(* effect_state is found as they may leave them.  A script is the calls of *)
(* its natives, in any order.                                              *)
(***************************************************************************)
EXTENDS Integers, Sequences, SequencesExt, FiniteSets

CONSTANTS Adapters,
          Clients,          \* user-mode threads
          InstanceId,       \* instance_id of each adapter, 50..1149
          Keys, Modifiers,  \* usages of 0x04..0xA4 and of 0xE0..0xE7
          CORE_HID_KEYS_REPORTED, CORE_HID_KEYS_MAX, CORE_HID_MOUSE_BUTTONS,
          AddressReused,    \* a device object can be where a deleted one was
          Scenarios         \* inputs and bounds, of which a behaviour has one

ASSUME InputConstants ==
    /\ CORE_HID_KEYS_REPORTED \in Nat \ {0} /\ CORE_HID_MOUSE_BUTTONS \in Nat \ {0}
    /\ CORE_HID_KEYS_MAX \in Nat /\ Cardinality(Keys) <= CORE_HID_KEYS_MAX
    /\ Keys \subseteq 4..164 /\ Modifiers \subseteq 224..231
    /\ "none" \notin Adapters             \* a handle is an address, and 0 is none
    /\ AddressReused \in BOOLEAN /\ InstanceId \in [Adapters -> 50..1149]
    /\ \A s \in Scenarios :
          /\ s.up \in Seq(Adapters) /\ IsInjective(s.up)  \* the adapters that are there at the start
          /\ s.mask \subseteq {"joystick", "keyboard", "mouse"}  \* the registry's VirtualDevices
          /\ s.maxPackets \in Nat             \* packets of each adapter
          /\ s.maxNatives \in Nat             \* calls of natives by scripts
          /\ s.maxCalls \in [Clients -> Nat]  \* requests of each client
          /\ s.maxPnp \in Nat                 \* starts, stops, arrivals and departures

Joystick == "joystick"
Keyboard == "keyboard"
Mouse == "mouse"

(* Bit indices of the raw button word. *)
A == 0
B == 1
Z == 2
Start == 3
Up == 4
Down == 5
Left == 6
Right == 7
Reset == 8
L == 10
R == 11
CORE_RAW_BUTTON_BITS == 16
ShoulderC == 10..15
Face == {A, B, Z, Start}
DPad == {Up, Down, Left, Right}

CORE_STICK_SCALE == 16
CORE_STICK_CLIP_DEFAULT == 75
CORE_STICK_STRETCH_DEF == 10
CORE_STICK_LIMIT == 1200
CORE_BUTTON_NONE == 255
HidButtons == 14
Rollover == [i \in 1..CORE_HID_KEYS_REPORTED |-> 1]

CORE_BUTTON_MAP_DEFAULT ==
    LET map == <<0, 3, 9, 8, 10, 11, 12, 13, CORE_BUTTON_NONE, CORE_BUTTON_NONE, 6, 7, 5, 1, 4, 2>>
    IN  [i \in 0..CORE_RAW_BUTTON_BITS - 1 |-> map[i + 1]]

VARIABLES
    sc,         \* the scenario
    cs,         \* the core of each adapter
    host,       \* the last report of each collection that went to the sink
    reg,        \* the driver-wide settings, and the entries whose needs_resubmit is set
    devices,    \* the registry's list
    live,       \* the adapters whose interface is up
    script,     \* the adapters that have a script
    cl,         \* where each client is, and its locals
    lapse,      \* history: the tables that changed with no report, on each adapter
    rested,     \* history: everything was let go since the tuning mode was entered
    astray,     \* history: clients that use an adapter that has left the list
    gone,       \* history: adapters that have left
    packets,    \* of each adapter: those that came, and the sticks of those not packed yet
    natives, calls, pnp

bounds == <<packets, natives, calls, pnp>>
history == <<lapse, rested, astray, gone>>
inputVars == <<sc, cs, host, reg, devices, live, script, cl, history, bounds>>

Quiet == [op |-> "none"]

NoPacket == [x |-> 0, y |-> 0, valid |-> FALSE, pak |-> {}, held |-> {}]

(* core_init *)
FreshCore(mask) ==
    [mask |-> mask, clip |-> CORE_STICK_CLIP_DEFAULT, stretch |-> CORE_STICK_STRETCH_DEF,
     map |-> CORE_BUTTON_MAP_DEFAULT,
     tune |-> {}, period |-> 500, duty |-> 50, strength |-> 100,
     raw |-> NoPacket, pending |-> FALSE, gate |-> "needed", prev_status |-> {},
     stick |-> <<0, 0>>, buttons |-> {},
     modifiers |-> {}, keys |-> <<>>, mouse |-> {},
     virtual |-> FALSE, reports_enabled |-> FALSE]

Silent == [c \in {Joystick, Keyboard, Mouse} |->
              IF c = Mouse THEN [buttons |-> {}, move |-> <<0, 0>>]
              ELSE IF c = Keyboard THEN [modifiers |-> {}, keys |-> <<>>]
              ELSE [stick |-> <<0, 0>>, buttons |-> {}]]

Resting == [at |-> "idle", on |-> "none", private |-> FALSE, req |-> Quiet,
            changed |-> FALSE, button |-> 1, before |-> {}, from |-> 0, payload |-> Quiet, copy |-> NoPacket,
            enum |-> [prev |-> "none", seen |-> <<>>, must |-> {}, over |-> FALSE]]

InputInit ==
    /\ sc \in Scenarios
    /\ cs = [a \in Adapters |-> FreshCore(sc.mask)]
    /\ host = [a \in Adapters |-> Silent]
    /\ reg = [map |-> CORE_BUTTON_MAP_DEFAULT, reports_enabled |-> FALSE, resubmit |-> {}]
    /\ devices = sc.up /\ live = ToSet(sc.up) /\ script = {}
    /\ cl = [c \in Clients |-> Resting]
    /\ lapse = [a \in Adapters |-> {}] /\ rested = [a \in Adapters |-> FALSE] /\ astray = {} /\ gone = {}
    /\ packets = [a \in Adapters |-> [came |-> 0, unpacked |-> <<>>]] /\ natives = 0
    /\ calls = [c \in Clients |-> 0] /\ pnp = 0

--------------------------------------------------------------------------------
(* Reports.  Operators work on a core and what the host was told: s = [cs, host, lapse]. *)

(* core_emit: nothing goes out of a collection the mask leaves out. *)
Emit(s, collection, report) ==
    IF collection \in s.cs.mask
    THEN [s EXCEPT !.host[collection] = report, !.lapse = @ \ {collection}]
    ELSE s

FaultKeysCutOff(core) ==
    IF Len(core.keys) > CORE_HID_KEYS_REPORTED THEN SubSeq(core.keys, 1, CORE_HID_KEYS_REPORTED) ELSE core.keys

(* More keys than fit: every position says ErrorRollOver. *)
KeysOf(core) == IF Len(core.keys) > CORE_HID_KEYS_REPORTED THEN Rollover ELSE core.keys

KeyboardReport(core) == [modifiers |-> core.modifiers, keys |-> KeysOf(core)]

KeyReport(s) == Emit(s, Keyboard, KeyboardReport(s.cs))

Released(core, usage) == [core EXCEPT !.keys = SelectSeq(@, LAMBDA k : k # usage)]

Pressed(core, usage) ==
    IF Len(core.keys) < CORE_HID_KEYS_MAX THEN [core EXCEPT !.keys = Append(@, usage)] ELSE core

KeyTable(core, usage, down) ==
    CASE usage \in Modifiers -> [core EXCEPT !.modifiers = IF down THEN @ \cup {usage} ELSE @ \ {usage}]
      [] usage \in Keys /\ down # (usage \in ToSet(core.keys)) ->
            IF down THEN Pressed(core, usage) ELSE Released(core, usage)
      [] usage = 0 -> [core EXCEPT !.modifiers = {}, !.keys = <<>>]
      [] OTHER -> core

(* A report goes out when the table changed. *)
KeyEvent(s, usage, down) ==
    LET core == KeyTable(s.cs, usage, down)
    IN  IF core = s.cs THEN s ELSE KeyReport([s EXCEPT !.cs = core])

MouseReport(s, move) == Emit(s, Mouse, [buttons |-> s.cs.mouse, move |-> move])

MouseTable(before, button, down) == IF down THEN before \cup {button} ELSE before \ {button}

MouseButton(s, button, down) ==
    LET after == MouseTable(s.cs.mouse, button, down)
    IN  IF button \notin 1..CORE_HID_MOUSE_BUTTONS \/ after = s.cs.mouse THEN s
        ELSE MouseReport([s EXCEPT !.cs.mouse = after], <<0, 0>>)

MouseMove(s, dx, dy) == MouseReport(s, <<dx % 256, dy % 256>>)

Clamped(v) == IF v > CORE_STICK_LIMIT THEN CORE_STICK_LIMIT
              ELSE IF v < -CORE_STICK_LIMIT THEN -CORE_STICK_LIMIT ELSE v

(* A native of the script; the events it posts are drained by the same pass. *)
Native(s, n) ==
    CASE n.op = "key" -> KeyEvent(s, n.usage, n.down)
      [] n.op = "mouse" -> MouseButton(s, n.button, n.down)
      [] n.op = "move" -> MouseMove(s, n.dx, n.dy)
      [] n.op = "button" -> IF n.n \notin 1..16 THEN s
                            ELSE [s EXCEPT !.cs.buttons = IF n.on THEN @ \cup {n.n - 1} ELSE @ \ {n.n - 1}]
      [] n.op = "stick" -> [s EXCEPT !.cs.stick = <<Clamped(n.x), Clamped(n.y)>>]
      [] n.op = "stickrel" -> [s EXCEPT !.cs.stick = <<Clamped(n.x + @[1]), Clamped(n.y + @[2])>>]
      [] OTHER -> s

--------------------------------------------------------------------------------
(* A packet *)

Magnitude(v) == IF v < 0 THEN -v ELSE v

(* C's division, which truncates towards zero. *)
Quotient(a, b) == IF (a < 0) = (b < 0) THEN Magnitude(a) \div Magnitude(b) ELSE -(Magnitude(a) \div Magnitude(b))

Flipped(y) == IF -y > 127 THEN -128 ELSE -y

Stretched(core, v, other) ==
    v * CORE_STICK_SCALE + Quotient(Magnitude(other) * core.stretch * v, 256)

Clipped(core, v) ==
    IF core.clip \in {0, CORE_STICK_CLIP_DEFAULT} THEN v
    ELSE Quotient(v * CORE_STICK_CLIP_DEFAULT, core.clip)

DecodeStick(core, x, rawy) ==
    LET y == Flipped(rawy)
    IN  <<Clamped(Clipped(core, Stretched(core, x, y))), Clamped(Clipped(core, Stretched(core, y, x)))>>

DecodeButtons(core, held) == {core.map[i] : i \in held} \ {CORE_BUTTON_NONE}

(* Twelve bits for an axis. *)
PackJoystick(core) == [stick |-> <<core.stick[1] % 4096, core.stick[2] % 4096>>, buttons |-> core.buttons]

TuneCombination(held) ==
    /\ held \cap ShoulderC = {L, R}
    /\ held \cap ((Face \ {Start}) \cup DPad) = {Z}
    /\ held \cap {Reset, Start} # {}

StrengthFor(dpad, strength) ==
    CASE dpad \in {{Left}, {Right}} -> 25
      [] dpad = {Down} -> 0
      [] dpad \in {{Down, Left}, {Down, Right}} -> 12
      [] dpad = {Up} -> 100
      [] dpad \in {{Up, Left}, {Up, Right}} -> 50
      [] OTHER -> strength

Period(x) == IF x < 76 THEN 0 ELSE LET ticks == 2400000 \div x IN 1000000000 \div (ticks * ticks)

Calibrated(core, p) ==
    LET x == Clamped(p.x * CORE_STICK_SCALE) + CORE_STICK_LIMIT
        y == Clamped(Flipped(p.y) * CORE_STICK_SCALE) + CORE_STICK_LIMIT
    IN  IF "active" \notin core.tune THEN core
        ELSE [core EXCEPT !.period = Period(x), !.duty = y \div 24,
                          !.strength = StrengthFor(p.held \cap DPad, @)]

FaultShouldersIgnored(held) == held \cap Face = {}

LetGo(held) == held \cap (ShoulderC \cup Face) = {}

(* The combination is let go, and then the next press leaves. *)
TuneMode(mode, held) == IF LetGo(held) THEN mode \ {"held"} ELSE IF mode = {"active"} THEN {} ELSE mode

TuneEntered(core, held) ==
    IF ~TuneCombination(held) THEN core
    ELSE [core EXCEPT !.tune = {"active", "held"}, !.period = IF "active" \in core.tune THEN @ ELSE 0]

TuneUpdate(core, p) ==
    LET tuned == Calibrated(TuneEntered(core, p.held), p)
    IN  [tuned EXCEPT !.tune = TuneMode(@, p.held)]

Decoded(core, p) ==
    [core EXCEPT !.stick = DecodeStick(core, p.x, p.y), !.buttons = DecodeButtons(core, p.held)]

(* A falling edge of the removed bit asks for a new probe. *)
Probed(core, p) ==
    IF "removed" \in core.prev_status \ p.pak THEN [core EXCEPT !.gate = "needed"] ELSE core

(* The accessory comes or goes while the effect engine is in state PERIODIC: no report. *)
Promotes(core, p, fx) == fx = "periodic" /\ ("present" \in core.prev_status) # ("present" \in p.pak)

(* The script sees the packet before the report is packed; script_owns_stick is never set. *)
InputHook(s, n) == [Native(s, n) EXCEPT !.cs.stick = s.cs.stick]

Arrived(core, p) == [core EXCEPT !.raw = p, !.pending = TRUE]

(* Whether a packet goes on to be packed. *)
Packs(core, p, fx) == core.gate = "found" /\ p.valid /\ ~Promotes(Probed(core, p), p, fx)

OnRawPacket(s, p, fx, n) ==
    LET arrived == Arrived(s.cs, p)
        core == [Probed(Decoded(arrived, p), p) EXCEPT !.prev_status = p.pak]
        hooked == InputHook([s EXCEPT !.cs = TuneUpdate(core, p)], n)
    IN  CASE arrived.gate # "found" -> [s EXCEPT !.cs = [arrived EXCEPT !.gate = "probing"]]
          [] arrived.gate = "found" /\ ~p.valid -> [s EXCEPT !.cs = arrived]
          [] arrived.gate = "found" /\ p.valid /\ Promotes(Probed(arrived, p), p, fx) -> [s EXCEPT !.cs = core]
          [] OTHER -> hooked

--------------------------------------------------------------------------------
(* What runs at DISPATCH_LEVEL *)

View(a) == [cs |-> cs[a], host |-> host[a], lapse |-> lapse[a]]

Put(a, s) ==
    /\ cs' = [cs EXCEPT ![a] = s.cs]
    /\ host' = [host EXCEPT ![a] = s.host]
    /\ lapse' = [lapse EXCEPT ![a] = s.lapse]

ScriptCalls(a) == {Quiet} \cup IF a \in script /\ natives < sc.maxNatives THEN sc.natives ELSE {}

Spent(n) == natives' = natives + (IF n = Quiet THEN 0 ELSE 1)

(* ADAPTOID_POLL_SLOTS: a read goes out again when its packet is done with. *)
PollSlots == 2

(* What the packet decoded is a local of its own; what it packs is in the core. *)
Packet(a) ==
    \E p \in sc.packets, fx \in {"tick", "periodic", "pak"}, n \in ScriptCalls(a) :
        /\ a \in live /\ packets[a].came < sc.maxPackets /\ Len(packets[a].unpacked) < PollSlots
        /\ Put(a, OnRawPacket(View(a), p, fx, n))
        /\ Spent(n)
        /\ rested' = [rested EXCEPT ![a] = IF cs'[a].tune = {} \/ "held" \in cs'[a].tune \ cs[a].tune THEN FALSE
                                           ELSE @ \/ (cs[a].gate = "found" /\ p.valid /\ p.held \cap (ShoulderC \cup Face) = {})]
        /\ packets' = [packets EXCEPT
                ![a].came = @ + 1,
                ![a].unpacked = IF Packs(cs[a], p, fx) THEN Append(@, DecodeStick(cs[a], p.x, p.y)) ELSE @]
        /\ UNCHANGED <<reg, devices, live, script, cl, astray, gone, calls, pnp>>

Pack(a) ==
    \E i \in DOMAIN packets[a].unpacked :
        /\ Put(a, Emit(View(a), Joystick, PackJoystick(cs[a])))
        /\ packets' = [packets EXCEPT ![a].unpacked = RemoveAt(@, i)]
        /\ UNCHANGED <<reg, devices, live, script, cl, rested, astray, gone, natives, calls, pnp>>

ScriptTimer(a) ==
    \E n \in ScriptCalls(a) \ {Quiet} :
        /\ Put(a, Native(View(a), n))
        /\ Spent(n)
        /\ UNCHANGED <<reg, devices, live, script, cl, rested, astray, gone, packets, calls, pnp>>

ProbeEnds(a) ==
    /\ cs[a].gate = "probing"
    /\ \E gate \in {"found", "needed"} : cs' = [cs EXCEPT ![a].gate = gate]
    /\ UNCHANGED <<host, reg, devices, live, script, cl, history, bounds>>

--------------------------------------------------------------------------------
(* Requests, at PASSIVE_LEVEL *)

At(c, pc) == cl[c].at = pc

On(c) == cl[c].on

Goto(c, pc) == cl' = [cl EXCEPT ![c].at = pc]

(* A request of one adapter: by its interface, or forwarded by the control device to a live entry. *)
DeviceRequest(c) ==
    \E r \in sc.requests, a \in live, private \in BOOLEAN :
        /\ At(c, "idle") /\ calls[c] < sc.maxCalls[c]
        /\ r.op \in {"snap", "set", "load"}
        /\ cl' = [cl EXCEPT ![c] = [Resting EXCEPT !.at = r.op, !.req = r, !.on = a, !.private = private]]
        /\ calls' = [calls EXCEPT ![c] = @ + 1]
        /\ UNCHANGED <<cs, host, reg, devices, live, script, history, packets, natives, pnp>>

(* The adapter a client is at has left the list: its entry links to nothing. *)
Astray(c) ==
    /\ ~At(c, "idle") /\ On(c) \in Adapters /\ On(c) \notin ToSet(devices)
    /\ astray' = astray \cup {c}
    /\ Goto(c, "idle")
    /\ UNCHANGED <<cs, host, reg, devices, live, script, lapse, rested, gone, bounds>>

AtDevice(c, pc) == At(c, pc) /\ On(c) \in ToSet(devices)

(* STATUS_SNAP reads the flag and the packet, and clears the flag. *)
SnapRead(c) ==
    /\ AtDevice(c, "snap")
    /\ cl' = [cl EXCEPT ![c].at = "snapclear", ![c].copy = cs[On(c)].raw]
    /\ UNCHANGED <<cs, host, reg, devices, live, script, history, bounds>>

SnapClear(c) ==
    /\ AtDevice(c, "snapclear")
    /\ cs' = [cs EXCEPT ![On(c)].pending = FALSE]
    /\ Goto(c, "idle")
    /\ UNCHANGED <<host, reg, devices, live, script, history, bounds>>

(* STICK_CLIP and STICK_STRETCH: any value is taken. *)
GetSet(c) ==
    /\ AtDevice(c, "set")
    /\ cs' = [cs EXCEPT ![On(c)] = IF cl[c].req.field = "clip" THEN [@ EXCEPT !.clip = cl[c].req.value]
                                   ELSE [@ EXCEPT !.stretch = cl[c].req.value]]
    /\ Goto(c, "idle")
    /\ UNCHANGED <<host, reg, devices, live, script, history, bounds>>

(***************************************************************************)
(* SCRIPT_LOAD: core_sched_unload lets everything go before it frees the   *)
(* script, which until then may be called.  core_hid_key_event(0) decides  *)
(* whether there is something to report, empties the table and sends; the  *)
(* mouse buttons are let go one by one, from a copy of the byte.           *)
(***************************************************************************)
UnloadTestKeys(c) ==
    /\ AtDevice(c, "load")
    /\ cl' = [cl EXCEPT ![c].at = "keys", ![c].changed = cs[On(c)].modifiers # {} \/ cs[On(c)].keys # <<>>]
    /\ UNCHANGED <<cs, host, reg, devices, live, script, history, bounds>>

UnloadClearKeys(c) ==
    LET a == On(c)
        core == KeyTable(cs[a], 0, FALSE)
    IN  /\ AtDevice(c, "keys")
        /\ cs' = [cs EXCEPT ![a] = core]
        /\ cl' = [cl EXCEPT ![c].at = IF cl[c].changed THEN "sendkeys" ELSE "button", ![c].payload = KeyboardReport(core)]
        /\ lapse' = [lapse EXCEPT ![a] = IF core # cs[a] /\ ~cl[c].changed THEN @ \cup {Keyboard} ELSE @]
        /\ UNCHANGED <<host, reg, devices, live, script, rested, astray, gone, bounds>>

(* The report a client built goes out, late if the table has changed since. *)
SendBuilt(c, collection, current, next) ==
    LET a == On(c)
        sent == Emit(View(a), collection, cl[c].payload)
    IN  /\ Put(a, [sent EXCEPT !.lapse = IF current = cl[c].payload THEN @ ELSE @ \cup {collection}])
        /\ cl' = [cl EXCEPT ![c].at = next, ![c].payload = Quiet]
        /\ UNCHANGED <<reg, devices, live, script, rested, astray, gone, bounds>>

UnloadSendKeys(c) ==
    /\ AtDevice(c, "sendkeys")
    /\ SendBuilt(c, Keyboard, KeyboardReport(cs[On(c)]), "button")

UnloadReadButtons(c) ==
    /\ AtDevice(c, "button")
    /\ cl' = [cl EXCEPT ![c].at = IF cl[c].button > CORE_HID_MOUSE_BUTTONS THEN "free" ELSE "letgo",
                        ![c].before = cs[On(c)].mouse]
    /\ UNCHANGED <<cs, host, reg, devices, live, script, history, bounds>>

UnloadLetGo(c) ==
    LET a == On(c)
        after == MouseTable(cl[c].before, cl[c].button, FALSE)
        changed == after # cl[c].before
    IN  /\ AtDevice(c, "letgo")
        /\ cs' = [cs EXCEPT ![a].mouse = after]
        /\ cl' = [cl EXCEPT ![c].at = IF changed THEN "sendmouse" ELSE "button", ![c].button = @ + 1,
                            ![c].payload = [buttons |-> after, move |-> <<0, 0>>]]
        /\ lapse' = [lapse EXCEPT ![a] = IF ~changed /\ cs[a].mouse # after THEN @ \cup {Mouse} ELSE @]
        /\ UNCHANGED <<host, reg, devices, live, script, rested, astray, gone, bounds>>

UnloadSendMouse(c) ==
    /\ AtDevice(c, "sendmouse")
    /\ SendBuilt(c, Mouse, [buttons |-> cs[On(c)].mouse, move |-> <<0, 0>>], "button")

(* The old script is freed and, unless the request was for none, another one installed. *)
LoadScript(c) ==
    /\ AtDevice(c, "free")
    /\ script' = IF cl[c].req.some THEN script \cup {On(c)} ELSE script \ {On(c)}
    /\ Goto(c, "idle")
    /\ UNCHANGED <<cs, host, reg, devices, live, history, bounds>>

(* BUTTON_MAP: only values below 14 are taken; the whole map is then copied to every entry. *)
ButtonMap(c) ==
    \E r \in sc.requests :
        /\ At(c, "idle") /\ calls[c] < sc.maxCalls[c] /\ r.op = "map" /\ devices # <<>>
        /\ reg' = [reg EXCEPT !.map = [i \in DOMAIN @ |->
                       IF i \in DOMAIN r.map /\ r.map[i] < HidButtons THEN r.map[i] ELSE @[i]]]
        /\ cl' = [cl EXCEPT ![c] = [Resting EXCEPT !.at = "push", !.req = r, !.on = Head(devices)]]
        /\ calls' = [calls EXCEPT ![c] = @ + 1]
        /\ UNCHANGED <<cs, host, devices, live, script, history, packets, natives, pnp>>

(* Some bytes of the map, up to wherever the copy is preempted. *)
PushMap(c) ==
    \E upto \in cl[c].from + 1..CORE_RAW_BUTTON_BITS :
        /\ AtDevice(c, "push")
        /\ cs' = [cs EXCEPT ![On(c)].map = [i \in DOMAIN @ |->
                      IF i \in cl[c].from..upto - 1 THEN reg.map[i] ELSE @[i]]]
        /\ cl' = [cl EXCEPT ![c].from = upto]
        /\ UNCHANGED <<host, reg, devices, live, script, history, bounds>>

PushNext(c) ==
    LET i == CHOOSE i \in DOMAIN devices : devices[i] = On(c)
    IN  /\ AtDevice(c, "push") /\ cl[c].from = CORE_RAW_BUTTON_BITS
        /\ cl' = [cl EXCEPT ![c] = IF i = Len(devices) THEN [@ EXCEPT !.at = "idle"]
                                   ELSE [@ EXCEPT !.on = devices[i + 1], !.from = 0]]
        /\ UNCHANGED <<cs, host, reg, devices, live, script, history, bounds>>

(* SET_REPORTS marks every entry, and takes the marked ones one by one from the head. *)
SetReports(c) ==
    \E r \in sc.requests :
        /\ At(c, "idle") /\ calls[c] < sc.maxCalls[c] /\ r.op = "reports"
        /\ reg' = [reg EXCEPT !.reports_enabled = r.on, !.resubmit = ToSet(devices)]
        /\ cl' = [cl EXCEPT ![c] = [Resting EXCEPT !.at = "sweep", !.req = r]]
        /\ calls' = [calls EXCEPT ![c] = @ + 1]
        /\ UNCHANGED <<cs, host, devices, live, script, history, packets, natives, pnp>>

SweepNext(c) ==
    LET marked == SelectSeq(devices, LAMBDA a : a \in reg.resubmit)
    IN  /\ At(c, "sweep")
        /\ cl' = [cl EXCEPT ![c].at = IF marked = <<>> THEN "idle" ELSE "submit",
                            ![c].on = IF marked = <<>> THEN @ ELSE Head(marked)]
        /\ reg' = [reg EXCEPT !.resubmit = IF marked = <<>> THEN @ ELSE @ \ {Head(marked)}]
        /\ UNCHANGED <<cs, host, devices, live, script, history, bounds>>

(* core_submit_joystick(NULL): last_report has never been written. *)
Submitted(s, id) ==
    Emit(s, Joystick, IF s.cs.virtual THEN [stick |-> <<1, id>>, buttons |-> {}] ELSE Silent[Joystick])

SubmitJoystick(c) ==
    LET a == On(c)
        core == [cs[a] EXCEPT !.reports_enabled = reg.reports_enabled, !.virtual = reg.reports_enabled]
    IN  /\ AtDevice(c, "submit")
        /\ Put(a, Submitted([View(a) EXCEPT !.cs = core], InstanceId[a]))
        /\ cl' = [cl EXCEPT ![c].at = "sweep", ![c].on = "none"]
        /\ UNCHANGED <<reg, devices, live, script, rested, astray, gone, bounds>>

(* AdaptoidControlCreate; whether it is the first handle is in ControlDevice. *)
ControlCreate(c) ==
    /\ At(c, "idle") /\ calls[c] < sc.maxCalls[c] /\ live # {}
    /\ \E r \in sc.requests : r.op = "open"
    /\ cs' = [a \in Adapters |-> IF a \notin ToSet(devices) THEN cs[a]
                ELSE [cs[a] EXCEPT !.clip = CORE_STICK_CLIP_DEFAULT, !.stretch = CORE_STICK_STRETCH_DEF]]
    /\ calls' = [calls EXCEPT ![c] = @ + 1]
    /\ UNCHANGED <<host, reg, devices, live, script, cl, history, packets, natives, pnp>>

(* ENUM_DEVICES: the first live entry behind the one the caller was given last. *)
Behind(prev) ==
    LET place == IF prev = "none" THEN 0 ELSE CHOOSE i \in DOMAIN devices : devices[i] = prev
    IN  place + 1..Len(devices)

FaultEnumStopsAtDown(prev) ==
    {i \in Behind(prev) : \A j \in Behind(prev) : j <= i => devices[j] \in live}

LiveBehind(prev) == {i \in Behind(prev) : devices[i] \in live}

EnumDevices(c) ==
    LET e == cl[c].enum
        known == e.prev = "none" \/ e.prev \in ToSet(devices)
        found == LiveBehind(e.prev)
    IN  /\ At(c, "enum")
        /\ \/ /\ ~known
              /\ cl' = [cl EXCEPT ![c] = Resting]                  \* STATUS_NO_SUCH_DEVICE
           \/ /\ known /\ found = {}
              /\ cl' = [cl EXCEPT ![c].at = "idle", ![c].enum.over = TRUE]
           \/ /\ known
              /\ \E i \in found :
                    /\ \A j \in found : i <= j
                    /\ cl' = [cl EXCEPT ![c].enum.prev = devices[i], ![c].enum.seen = Append(@, devices[i])]
        /\ UNCHANGED <<cs, host, reg, devices, live, script, history, bounds>>

StartEnum(c) ==
    /\ At(c, "idle") /\ calls[c] < sc.maxCalls[c]
    /\ \E r \in sc.requests : r.op = "enum"
    /\ cl' = [cl EXCEPT ![c] = [Resting EXCEPT !.at = "enum", !.enum.must = live]]
    /\ calls' = [calls EXCEPT ![c] = @ + 1]
    /\ UNCHANGED <<cs, host, reg, devices, live, script, history, packets, natives, pnp>>

Client(c) ==
    \/ DeviceRequest(c) \/ Astray(c) \/ SnapRead(c) \/ SnapClear(c) \/ GetSet(c)
    \/ UnloadTestKeys(c) \/ UnloadClearKeys(c) \/ UnloadSendKeys(c)
    \/ UnloadReadButtons(c) \/ UnloadLetGo(c) \/ UnloadSendMouse(c) \/ LoadScript(c)
    \/ ButtonMap(c) \/ PushMap(c) \/ PushNext(c)
    \/ SetReports(c) \/ SweepNext(c) \/ SubmitJoystick(c)
    \/ ControlCreate(c) \/ StartEnum(c) \/ EnumDevices(c)

--------------------------------------------------------------------------------
(* Plug and Play, as far as it reaches the core and the registry *)

NotContinuously(a) == cl' = [c \in Clients |-> [cl[c] EXCEPT !.enum.must = @ \ {a}]]

(* AdaptoidAddDevice wires a fresh core and appends the registration.  Where it is at the *)
(* address of one that has left, that one's packets were done with (KeFlushQueuedDpcs).   *)
AddDevice(a) ==
    /\ a \notin ToSet(devices) /\ pnp < sc.maxPnp /\ packets[a].unpacked = <<>>
    /\ AddressReused \/ a \notin gone
    /\ devices' = Append(devices, a)
    /\ cs' = [cs EXCEPT ![a] = FreshCore(cs[a].mask)]
    /\ host' = [host EXCEPT ![a] = Silent]
    /\ lapse' = [lapse EXCEPT ![a] = {}] /\ rested' = [rested EXCEPT ![a] = FALSE]
    /\ pnp' = pnp + 1
    /\ UNCHANGED <<reg, live, script, cl, astray, gone, packets, natives, calls>>

StartDevice(a) ==
    /\ a \in ToSet(devices) \ live /\ pnp < sc.maxPnp
    /\ live' = live \cup {a}
    /\ pnp' = pnp + 1
    /\ UNCHANGED <<cs, host, reg, devices, script, cl, history, packets, natives, calls>>

(* core_reset keeps the mask and the map.  No report says that the tables are empty now. *)
CoreReset(core) == [FreshCore(core.mask) EXCEPT !.map = core.map]

StopDevice(a) ==
    /\ a \in live /\ pnp < sc.maxPnp
    /\ live' = live \ {a}
    /\ cs' = [cs EXCEPT ![a] = CoreReset(@)]
    /\ lapse' = [lapse EXCEPT ![a] = @ \cup (IF KeyTable(cs[a], 0, FALSE) = cs[a] THEN {} ELSE {Keyboard})
                                        \cup (IF cs[a].mouse = {} THEN {} ELSE {Mouse})]
    /\ rested' = [rested EXCEPT ![a] = FALSE]
    /\ NotContinuously(a)
    /\ pnp' = pnp + 1
    /\ UNCHANGED <<host, reg, devices, script, astray, gone, packets, natives, calls>>

(* REMOVE waits for the requests of the adapter's own interface, and for no others. *)
RemoveDevice(a) ==
    /\ pnp < sc.maxPnp
    /\ \A c \in Clients : ~(cl[c].private /\ On(c) = a /\ ~At(c, "idle"))
    /\ \E i \in DOMAIN devices : devices[i] = a /\ devices' = RemoveAt(devices, i)
    /\ live' = live \ {a} /\ script' = script \ {a} /\ gone' = gone \cup {a}
    /\ NotContinuously(a)
    /\ pnp' = pnp + 1
    /\ UNCHANGED <<cs, host, reg, lapse, rested, astray, packets, natives, calls>>

InputNext ==
    /\ UNCHANGED sc
    /\ \/ \E c \in Clients : Client(c)
       \/ \E a \in Adapters :
          \/ Packet(a) \/ Pack(a) \/ ScriptTimer(a) \/ ProbeEnds(a)
          \/ AddDevice(a) \/ StartDevice(a) \/ StopDevice(a) \/ RemoveDevice(a)

InputSpec == InputInit /\ [][InputNext]_inputVars

--------------------------------------------------------------------------------
(* Properties *)

Sending(a) == \E c \in Clients : On(c) = a /\ cl[c].at \in {"sendkeys", "sendmouse"}

(***************************************************************************)
(* HID reports are absolute: the host holds what the last one said.  The   *)
(* keyboard and mouse it has been told of are the ones in the tables of    *)
(* core_hid_key_event and core_hid_mouse_button, with a rollover when more *)
(* keys are down than fit, whatever the script and the requests do, unless *)
(* a table was changed with no report or a report overtook another (lapse) *)
(* and until the next one goes out.                                        *)
(***************************************************************************)
HostInSync ==
    \A a \in ToSet(devices) : ~Sending(a) =>
        /\ Keyboard \in cs[a].mask \ lapse[a] =>
              /\ host[a][Keyboard].modifiers = cs[a].modifiers
              /\ host[a][Keyboard].keys =
                    IF Len(cs[a].keys) > CORE_HID_KEYS_REPORTED THEN Rollover ELSE cs[a].keys
        /\ Mouse \in cs[a].mask \ lapse[a] => host[a][Mouse].buttons = cs[a].mouse

(***************************************************************************)
(* core_tune_update: the buttons that enter the tuning mode do not leave   *)
(* it again.  It ends, short of a reset, with a press after a packet in    *)
(* which every shoulder, C and face button was up.                         *)
(***************************************************************************)
TuneLeavesOnFreshPress ==
    [][\A a \in Adapters : "active" \in cs[a].tune /\ "active" \notin cs'[a].tune
            => rested[a] \/ cs'[a] = CoreReset(cs[a]) \/ a \notin ToSet(devices)]_inputVars

(***************************************************************************)
(* An enumeration with function 0x821, one call after the other while      *)
(* adapters come, go and stop, that reaches the end has named every        *)
(* adapter that was live all the while, and none of them twice.            *)
(***************************************************************************)
EnumerationComplete ==
    \A c \in Clients : cl[c].enum.over =>
        /\ cl[c].enum.must \subseteq ToSet(cl[c].enum.seen)
        /\ \A i, j \in DOMAIN cl[c].enum.seen : cl[c].enum.seen[i] = cl[c].enum.seen[j] => i = j

--------------------------------------------------------------------------------
(* What the code's comments say and the code does not keep (see the README) *)

(* sched.c:367: what a script was holding is let go when it is replaced; core_reset forgets it. *)
KeysNeverStick == \A a \in Adapters : lapse[a] = {}

(* core.c:419: only a script that owns the stick keeps what it wrote, so a report shows the packet's. *)
StickIsThePackets ==
    [][\A a \in Adapters : \A i \in DOMAIN packets[a].unpacked :
            /\ packets'[a] = [packets[a] EXCEPT !.unpacked = RemoveAt(@, i)]
            /\ host'[a][Joystick] # host[a][Joystick]
            => LET xy == packets[a].unpacked[i]
               IN  host'[a][Joystick].stick = <<xy[1] % 4096, xy[2] % 4096>>]_inputVars

(* core_hid_descriptor: the collections the host is told of. *)
HidDescriptor(mask) ==
    IF {Keyboard, Mouse} \subseteq mask THEN mask ELSE {Joystick}

(* core.c:140: a report for a collection the descriptor does not declare is dropped. *)
ReportsDeclared ==
    \A a \in Adapters, c \in {Joystick, Keyboard, Mouse} :
        host[a][c] # Silent[c] => c \in HidDescriptor(cs[a].mask)

(* core.c:1780: in virtual mode "real reports are dropped". *)
VirtualReplaces ==
    [][\A a \in Adapters : cs[a].virtual /\ Len(packets'[a].unpacked) < Len(packets[a].unpacked)
            => host'[a][Joystick] = host[a][Joystick]]_inputVars

(* core.h:657, ioctl.h:434: the driver-wide settings are mirrored into each device. *)
MirrorsAgree ==
    (\A c \in Clients : At(c, "idle")) =>
        \A a \in ToSet(devices) : cs[a].map = reg.map /\ cs[a].reports_enabled = reg.reports_enabled

(* core.h:615: report_pending is set when a packet arrives and cleared by the snapshot that returned it. *)
SnapshotMissesNothing ==
    \A c \in Clients : At(c, "idle") /\ cl[c].req.op = "snap" /\ On(c) \in ToSet(devices) /\ ~cs[On(c)].pending
        => cl[c].copy = cs[On(c)].raw

(* A packet is decoded with one button map, not with parts of two. *)
OneMapPerReport ==
    [][\A a \in Adapters : packets'[a].came # packets[a].came => cs[a].map \in {CORE_BUTTON_MAP_DEFAULT, reg.map}]_inputVars

(* A request of the control device stays with adapters that are on the list. *)
RequestKeepsAdapter == astray = {}

================================================================================

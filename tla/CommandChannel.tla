----------------------------- MODULE CommandChannel -----------------------------
(***************************************************************************)
(* What user mode can put on the N64 bus.  The SDK command-block channel   *)
(* of the control device: a client writes a block of joybus commands,      *)
(* which runs pass 0 on the driver's copy, and reads it back, which runs   *)
(* pass 1 on the copy it is given.  And the Pak requests of a device       *)
(* handle: core_n64_transaction.  Both use the vendor slot, in competition *)
(* with the core, and both are answered by the controller in reversed      *)
(* byte order with a status byte in front.                                 *)
(*                                                                         *)
(* A block is a sequence of entries, an entry its command and reply bytes; *)
(* the walk also counts the bytes, since its limits are in bytes.  The     *)
(* adapter is the first of the registry and the only one.  The slot is     *)
(* that of VendorSlot with its lock sections joined where the callers are  *)
(* not told apart by them.                                                 *)
(***************************************************************************)
EXTENDS PakCrc, FiniteSets, FiniteSetsExt, TLC

CONSTANTS Clients,          \* user-mode threads
          ChannelClients,   \* the ones that use the command channel
          Blocks,           \* blocks a client may write
          Requests,         \* Pak requests a client may make
          Pages,            \* Pak blocks the model keeps apart, as block numbers
          Contents,         \* what a Pak block can hold: sequences of bytes
          Packets,          \* interrupt packets
          BlockBytes,       \* CORE_PAK_BLOCK_BYTES, 32
          CORE_CMD_GO,      \* 0x3F
          CORE_CMD_MAX_LEN, \* 0x26
          Workloads,        \* bounds, one for each behaviour: how many calls of each client there
                            \* are, and how many packets, accessory and adapter changes (events)
          MaxSignals        \* bound: completions between passing the slot on and setting the event

ASSUME ChannelConstants ==
    /\ ChannelClients \subseteq Clients
    /\ BlockBytes \in Nat \ {0, 1} /\ CORE_CMD_GO \in Nat /\ CORE_CMD_MAX_LEN \in Nat
    /\ Workloads \subseteq [calls : [Clients -> Nat], events : Nat] /\ MaxSignals \in Nat
    /\ Pages \subseteq 0..2047
    /\ \A d \in Contents : d \in Seq(0..255) /\ Len(d) = BlockBytes
    /\ \A r \in Requests :
          /\ r.op \in {"status", "read", "write", "passthru"}
          /\ r.op \in {"read", "write"} => r.page \in Pages
          /\ r.op = "write" => r.data \in Seq(0..255) /\ Len(r.data) = BlockBytes
          /\ r.op = "passthru" => r.tx \in Seq(0..255) /\ r.rx \in Nat
    /\ {"nobody", "core"} \cap Clients = {}
    /\ \A b \in Blocks :                 \* whatever bytes a client put there
          /\ DOMAIN b = {"entries", "first", "go", "order"}
          /\ b.entries \in Seq([cmd : 0..255, rep : 0..255, bytes : Seq(0..255), failed : BOOLEAN,
                                reply : Seq(0..255)])

CORE_CMD_PAD == 0
CORE_CMD_END == 254
CORE_CMD_SKIP == 255
CORE_CMD_MAX_DEVICES == 5
CORE_N64_RX_MAX == 63

Nobody == "nobody"
CoreOwn == "core"

VARIABLES
    channel,    \* cx->Channel: the driver's copy of the block, and swap_bytes
    live,       \* the adapter's interface is enabled: live_count is 1
    cl,         \* where each client is, and the locals of its walk or transaction
    buf,        \* the block each client's read is filling
    rx,         \* the reply buffer of each client's N64 transaction
    result,     \* what each client was answered last
    emu,        \* emu_pak_present and emu_pak_value
    keepalive,  \* the keep-alive window of the effect engine is open
    raw,        \* the last interrupt packet
    slot,       \* Vendor.State
    flight,     \* the transfer that is out
    Done,       \* Vendor.Done
    signals,    \* completions that have passed the slot on and have Vendor.Done still to set
    LastOk,     \* Vendor.LastStatus is a success
    claim_idle, \* claim_idle_command
    controller, \* external: the accessory, its memory, and the reply that waits for a fetch
    told,       \* history: the status the controller gave to the last identify
    held,       \* history: what the page of each client's request has held since it began
    echo,       \* history: whose write the waiting reply answers, and who fetched that of its own
    stray,      \* history: data came for a call that no longer waited for it
    calls, events    \* what is left of the workload

slotVars == <<slot, flight, Done, signals, LastOk, claim_idle>>
devVars == <<emu, keepalive, raw>>
envVars == <<controller, told>>
histVars == <<held, echo, stray>>
boundVars == <<calls, events>>
channelVars == <<channel, live, cl, buf, rx, result, devVars, slotVars, envVars, histVars, boundVars>>

(* first and go are the bytes at 0x3C and 0x3F, the ends of the last word. *)
EmptyBlock == [entries |-> <<>>, first |-> 0, go |-> 0, order |-> "n64"]

NoAnswer == [op |-> "none"]

NoFlight == [by |-> Nobody, what |-> "none", bytes |-> <<>>, rep |-> 0]

Away == [at |-> "idle", pass |-> 0, i |-> 1, p |-> 0, index |-> 0, half |-> 1,
         req |-> [op |-> "none"], saved |-> 0]

ChannelInit ==
    /\ channel = [block |-> EmptyBlock, swap |-> FALSE]
    /\ live = TRUE
    /\ cl = [c \in Clients |-> Away]
    /\ buf = [c \in Clients |-> EmptyBlock]
    /\ rx = [c \in Clients |-> <<>>]
    /\ result = [c \in Clients |-> NoAnswer]
    /\ emu = [present |-> FALSE, value |-> 0] /\ keepalive = FALSE
    /\ raw = CHOOSE p \in Packets : TRUE
    /\ slot = "FREE" /\ flight = NoFlight /\ Done = FALSE /\ signals = 0 /\ LastOk = TRUE
    /\ claim_idle = FALSE
    /\ controller \in {[status |-> 1, mem |-> [p \in Pages |-> d], answer |-> <<>>] : d \in Contents}
    /\ told = 0
    /\ held = [c \in Clients |-> {}]
    /\ echo = [of |-> Nobody, own |-> {}]
    /\ stray = FALSE
    /\ \E w \in Workloads : calls = w.calls /\ events = w.events

--------------------------------------------------------------------------------
(* The controller, as the driver uses it *)

PageOf(hi, lo) == (256 * hi + lo) \div 32

ReadLen == BlockBytes + 1               \* 0x21: a block and its CRC

WriteLen == BlockBytes + 3              \* 0x23: command, address and a block

Inverted(crc) == (crc + 128) % 256

WithAccessory(crc) == IF controller.status = 0 THEN Inverted(crc) ELSE crc

(* The reply to a command, in the controller's byte order; <<>> is silence. *)
Reply(b) ==
    LET page == PageOf(b[2], b[3])
        addressed == /\ Len(b) >= 3 /\ page \in Pages
                     /\ Divides(Poly5, Bits(256 * b[2] + b[3], 16))
    IN  CASE Len(b) = 1 /\ b[1] \in {0, 255} -> <<5, 0, controller.status>>
          [] Len(b) = 3 /\ b[1] = 2 /\ addressed ->
                controller.mem[page] \o <<WithAccessory(DataCrc8(controller.mem[page]))>>
          [] Len(b) = WriteLen /\ b[1] = 3 /\ addressed ->
                <<WithAccessory(DataCrc8(SubSeq(b, 4, WriteLen)))>>
          [] OTHER -> <<>>

Stores(b) == Len(b) = WriteLen /\ b[1] = 3 /\ Reply(b) # <<>> /\ controller.status # 0

AfterCommand(b) ==
    [controller EXCEPT
        !.status = IF Len(b) = 1 /\ @ = 3 THEN 1 ELSE @,
        !.mem = IF Stores(b) THEN [@ EXCEPT ![PageOf(b[2], b[3])] = SubSeq(b, 4, WriteLen)] ELSE @]

--------------------------------------------------------------------------------
(* The vendor slot *)

(* A transfer goes to the bus, with whoever's claim the slot carries. *)
PutOnBus(f) ==
    /\ slot' = "IN_FLIGHT"
    /\ flight' = f

(* core_tick and the other sends of the core, with a claim of its own or with one it finds. *)
CoreSends ==
    /\ slot # "IN_FLIGHT"
    /\ PutOnBus([NoFlight EXCEPT !.by = CoreOwn, !.what = "core"])
    /\ UNCHANGED <<channel, live, cl, buf, rx, result, devVars, Done, signals, LastOk, claim_idle, envVars, histVars, boundVars>>

(***************************************************************************)
(* AdaptoidSetDeviceEnable, for SET_ENABLE and for the emulated motor      *)
(* register: busy, an "off" is left for the next completion and an "on"    *)
(* refused; outside the keep-alive window the start comes before the kick. *)
(***************************************************************************)
SetDeviceEnable(on) ==
    /\ IF slot = "FREE"
       THEN PutOnBus([NoFlight EXCEPT !.by = CoreOwn,
                                      !.what = IF ~on THEN "idle" ELSE IF keepalive THEN "kick" ELSE "start"])
       ELSE UNCHANGED <<slot, flight>>
    /\ claim_idle' = (claim_idle \/ (slot # "FREE" /\ ~on))
    /\ keepalive' = (keepalive \/ (on /\ slot = "FREE"))

--------------------------------------------------------------------------------
(* One entry of a block *)

Block(c) == IF cl[c].pass = 0 THEN channel.block ELSE buf[c]

Entry(c) == Block(c).entries[cl[c].i]

SetEntry(c, e) ==
    IF cl[c].pass = 0
    THEN /\ channel' = [channel EXCEPT !.block.entries[cl[c].i] = e]
         /\ UNCHANGED buf
    ELSE /\ buf' = [buf EXCEPT ![c].entries[cl[c].i] = e]
         /\ UNCHANGED channel

Span(e) == IF e.cmd \in {CORE_CMD_PAD, CORE_CMD_SKIP} THEN 1 ELSE e.cmd + e.rep + 2

Advanced(w, e) ==
    [w EXCEPT !.at = "walk", !.i = @ + 1, !.p = @ + Span(e),
              !.index = IF e.cmd = CORE_CMD_SKIP THEN @ ELSE @ + 1, !.half = 1]

Marked(e) == [e EXCEPT !.failed = TRUE]

Structural(w, e) ==
    \/ e.cmd > CORE_CMD_MAX_LEN \/ e.rep > CORE_CMD_MAX_LEN
    \/ w.index >= CORE_CMD_MAX_DEVICES
    \/ e.cmd > 4 /\ e.rep > 3
    \/ w.p + e.cmd + e.rep + 2 >= CORE_CMD_GO

StateRead(e) == e.cmd = 1 /\ e.rep = 4 /\ e.bytes[1] = 1

Identify(e) == e.cmd = 1 /\ e.rep = 3 /\ e.bytes[1] \in {0, 255}

At8000(e) == e.bytes[2] = 128 /\ e.bytes[3] = 1

AtC000(e) == e.bytes[2] = 192 /\ e.bytes[3] = 27

EmulatedWrite(e) == e.cmd = WriteLen /\ e.rep = 1 /\ e.bytes[1] = 3 /\ (At8000(e) \/ AtC000(e))

EmulatedRead(e) == e.cmd = 3 /\ e.rep = ReadLen /\ e.bytes[1] = 2 /\ At8000(e)

(* cmd_emulated_crc: a value that is none of the four leaves the byte as it is. *)
EmulatedCrc(value, current) ==
    CASE value = 254 -> 225 [] value = 128 -> 184 [] value = 1 -> 235 [] value = 0 -> 0
      [] OTHER -> current

FaultInvertAlways(e) == 255 - EmulatedCrc(e.bytes[4], e.reply[1])

EmulatedAnswer(e) ==
    LET crc == EmulatedCrc(e.bytes[4], e.reply[1])
    IN  IF emu.present THEN crc ELSE 255 - crc

(* What an identify found: whether the accessory is there, and if it has changed. *)
KeepIdentify(e) ==
    IF Identify(e)
    THEN /\ emu' = [emu EXCEPT !.present = e.reply[3] % 2 = 1]
         /\ keepalive' = (keepalive /\ e.reply[3] % 4 = 1)
    ELSE UNCHANGED <<emu, keepalive>>

--------------------------------------------------------------------------------
(* The channel: AdaptoidControlReadWrite, core_cmd_write, core_cmd_read *)

May(c) == c \in ChannelClients /\ cl[c].at = "idle" /\ calls[c] > 0

Called(c) == calls' = [calls EXCEPT ![c] = @ - 1] /\ UNCHANGED events

Answer(c, what) == result' = [result EXCEPT ![c] = what]

Finished(c, st) == [op |-> "block", st |-> st, block |-> EmptyBlock]

(* cmd_swap: every four bytes reversed, so that a block reads in the other byte order. *)
Swapped(b) ==
    [b EXCEPT !.order = IF @ = "n64" THEN "swapped" ELSE "n64", !.go = b.first, !.first = b.go]

(* A word of 1 at 0x3C asks for the swap, and swapped it is the go flag. *)
CmdWrite(c) ==
    /\ May(c) /\ live
    /\ \E b \in Blocks :
          LET swap == b.first = 1 /\ b.go = 0
              stored == IF swap THEN Swapped(b) ELSE b
          IN  /\ channel' = [block |-> stored, swap |-> swap]
              /\ IF stored.go = 1
                 THEN /\ cl' = [cl EXCEPT ![c] = [Away EXCEPT !.at = "walk"]]
                      /\ Answer(c, NoAnswer)
                 ELSE Answer(c, Finished(c, "SUCCESS")) /\ UNCHANGED cl
    /\ Called(c)
    /\ UNCHANGED <<live, buf, rx, devVars, slotVars, envVars, histVars>>

CmdRead(c) ==
    /\ May(c) /\ live
    /\ buf' = [buf EXCEPT ![c] = channel.block]
    /\ cl' = [cl EXCEPT ![c] = [Away EXCEPT !.at = IF channel.block.go = 1 THEN "walk" ELSE "over",
                                            !.pass = 1]]
    /\ Answer(c, NoAnswer)
    /\ Called(c)
    /\ UNCHANGED <<channel, live, rx, devVars, slotVars, envVars, histVars>>

(* Every other length, and every length but 1 of a read when no adapter is live. *)
CmdOtherLength(c) ==
    /\ May(c)
    /\ \E st \in IF live THEN {"INVALID_PARAM", "SUCCESS"} ELSE {"NO_SUCH_DEVICE", "SUCCESS"} :
          Answer(c, Finished(c, st))
    /\ Called(c)
    /\ UNCHANGED <<channel, live, cl, buf, rx, devVars, slotVars, envVars, histVars>>

(***************************************************************************)
(* core_cmd_process, one entry a step.  An entry for the wire goes on to   *)
(* core_cmd_exec; the others are answered here.                            *)
(***************************************************************************)
Stop(c) == cl' = [cl EXCEPT ![c].at = "over"]

AtEntry(c) ==
    /\ cl[c].at = "walk"
    /\ cl[c].i <= Len(Block(c).entries) /\ cl[c].p < CORE_CMD_GO
    /\ Entry(c).cmd # CORE_CMD_END

WalkEnds(c) ==
    /\ cl[c].at = "walk"
    /\ ~AtEntry(c)
    /\ Stop(c)
    /\ UNCHANGED <<channel, live, buf, rx, result, devVars, slotVars, envVars, histVars, boundVars>>

WalkPadding(c) ==
    /\ AtEntry(c)
    /\ Entry(c).cmd \in {CORE_CMD_PAD, CORE_CMD_SKIP}
    /\ cl' = [cl EXCEPT ![c] = Advanced(@, Entry(c))]
    /\ UNCHANGED <<channel, live, buf, rx, result, devVars, slotVars, envVars, histVars, boundVars>>

AtCommand(c) == AtEntry(c) /\ Entry(c).cmd \notin {CORE_CMD_PAD, CORE_CMD_SKIP}

(* The mark goes into the byte after the length; at the last place that byte is the go flag. *)
FaultStructuralCarriesOn(c) ==
    /\ AtCommand(c)
    /\ Structural(cl[c], Entry(c))
    /\ SetEntry(c, Marked(Entry(c)))
    /\ cl' = [cl EXCEPT ![c] = Advanced(@, Entry(c))]
    /\ UNCHANGED <<live, rx, result, devVars, slotVars, envVars, histVars, boundVars>>

WalkStructural(c) ==
    /\ AtCommand(c)
    /\ Structural(cl[c], Entry(c))
    /\ IF cl[c].p = CORE_CMD_GO - 1
       THEN /\ channel' = IF cl[c].pass = 0 THEN [channel EXCEPT !.block.go = 129] ELSE channel
            /\ UNCHANGED buf           \* a read clears the flag of its copy after the walk
       ELSE SetEntry(c, Marked(Entry(c)))
    /\ Stop(c)
    /\ UNCHANGED <<live, rx, result, devVars, slotVars, envVars, histVars, boundVars>>

(* Which pass an entry belongs to, and which adapter: the others are not there. *)
Turn(e) == IF StateRead(e) \/ Identify(e) THEN 1 ELSE 0

Reachable(w, e) == w.index = 0 /\ (Turn(e) = 1 \/ e.rep < CORE_CMD_MAX_LEN)

WalkLocal(c) ==
    LET e == Entry(c)
        w == cl[c]
        mine == Turn(e) = w.pass
        here == mine /\ Reachable(w, e)
        answered == [e EXCEPT !.failed = FALSE]
    IN  /\ AtCommand(c)
        /\ ~Structural(w, e)
        /\ \/ /\ ~mine
              /\ UNCHANGED <<channel, buf, emu, keepalive, slotVars>>
           \/ /\ mine /\ ~Reachable(w, e)
              /\ SetEntry(c, Marked(e))
              /\ UNCHANGED <<emu, keepalive, slotVars>>
           \/ /\ here /\ StateRead(e)
              /\ SetEntry(c, [e EXCEPT !.reply = <<raw[5], raw[4], raw[1], raw[2]>>])
              /\ UNCHANGED <<emu, keepalive, slotVars>>
           \/ /\ here /\ EmulatedWrite(e)
              /\ SetEntry(c, [answered EXCEPT !.reply = <<EmulatedAnswer(e)>>])
              /\ emu' = [emu EXCEPT !.value = e.bytes[4]]
              /\ IF emu.present /\ AtC000(e) /\ e.bytes[4] \in {0, 1}
                 THEN SetDeviceEnable(e.bytes[4] = 1) /\ UNCHANGED <<Done, signals, LastOk>>
                 ELSE UNCHANGED <<keepalive, slotVars>>
           \/ /\ here /\ EmulatedRead(e)
              /\ SetEntry(c, [answered EXCEPT
                    !.reply = [i \in 1..BlockBytes |-> IF emu.present /\ emu.value # 254 THEN 128 ELSE 0]
                              \o <<IF ~emu.present THEN 255 ELSE IF emu.value = 254 THEN 0 ELSE 184>>])
              /\ UNCHANGED <<emu, keepalive, slotVars>>
        /\ cl' = [cl EXCEPT ![c] = Advanced(w, e)]
        /\ UNCHANGED <<live, rx, result, raw, envVars, histVars, boundVars>>

OnTheWire(c) ==
    LET e == Entry(c)
    IN  /\ AtCommand(c) /\ ~Structural(cl[c], e)
        /\ Turn(e) = cl[c].pass /\ Reachable(cl[c], e)
        /\ ~StateRead(e) /\ ~EmulatedWrite(e) /\ ~EmulatedRead(e)

(* The read hands the copy over: its go flag cleared, in the order the block was written in. *)
CallOver(c) ==
    LET ran == [buf[c] EXCEPT !.go = IF @ = 1 THEN 0 ELSE @]
        out == IF cl[c].pass = 0 THEN EmptyBlock ELSE IF channel.swap THEN Swapped(ran) ELSE ran
    IN  /\ cl[c].at = "over"
        /\ cl' = [cl EXCEPT ![c] = Away]
        /\ buf' = [buf EXCEPT ![c] = EmptyBlock]
        /\ Answer(c, [op |-> IF cl[c].pass = 0 THEN "block" ELSE "read", st |-> "SUCCESS", block |-> out])
        /\ UNCHANGED <<channel, live, rx, devVars, slotVars, envVars, histVars, boundVars>>

--------------------------------------------------------------------------------
(* core_cmd_exec on the wire *)

Long(e) == e.cmd >= 5

(* A busy slot is silent: the entry keeps the bytes it has, and the walk goes on. *)
ExecClaim(c) ==
    LET e == [Entry(c) EXCEPT !.failed = FALSE]
    IN  /\ OnTheWire(c)
        /\ SetEntry(c, e)
        /\ IF slot = "FREE"
           THEN /\ slot' = "CLAIMED"
                /\ cl' = [cl EXCEPT ![c].at = "reset", ![c].half = 1, ![c].saved = e.bytes[e.cmd]]
                /\ UNCHANGED <<emu, keepalive>>
           ELSE /\ cl' = [cl EXCEPT ![c] = Advanced(@, e)]
                /\ KeepIdentify(e)
                /\ UNCHANGED slot
        /\ UNCHANGED <<live, rx, result, raw, flight, Done, signals, LastOk, claim_idle, envVars, histVars, boundVars>>

CmdForm(c) == IF ~Long(Entry(c)) THEN "short" ELSE IF cl[c].half = 1 THEN "out" ELSE "fetch"

(* The caller, of either kind, resets the event before it sends. *)
EventReset(c) ==
    /\ cl[c].at = "reset"
    /\ Done' = FALSE
    /\ cl' = [cl EXCEPT ![c].at = "send"]
    /\ UNCHANGED <<channel, live, buf, rx, result, devVars, slot, flight, signals, LastOk, claim_idle,
                   envVars, histVars, boundVars>>

(***************************************************************************)
(* AdaptoidCmdXfer: the transfer is sent, and the event waited for whether *)
(* or not the send was accepted (or got its URB).                          *)
(***************************************************************************)
CmdXfer(c) ==
    /\ cl[c].at = "send" /\ cl[c].req.op = "none"
    /\ \/ /\ slot = "CLAIMED"
          /\ PutOnBus([by |-> c, what |-> CmdForm(c), bytes |-> Entry(c).bytes, rep |-> Entry(c).rep])
       \/ slot = "CLAIMED" /\ slot' = "FREE" /\ UNCHANGED flight
       \/ slot # "CLAIMED" /\ UNCHANGED <<slot, flight>>
    /\ cl' = [cl EXCEPT ![c].at = "wait"]
    /\ UNCHANGED <<channel, live, buf, rx, result, devVars, Done, signals, LastOk, claim_idle, envVars, histVars, boundVars>>

(* keep: the slot is claimed again for the second half; nobody looks whether it was. *)
CmdKeep(c) ==
    /\ cl[c].at = "wait" /\ cl[c].req.op = "none" /\ Done
    /\ Long(Entry(c)) /\ cl[c].half = 1
    /\ slot' = IF slot = "FREE" THEN "CLAIMED" ELSE slot
    /\ cl' = [cl EXCEPT ![c].at = "reset", ![c].half = 2]
    /\ UNCHANGED <<channel, live, buf, rx, result, devVars, flight, Done, signals, LastOk, claim_idle, envVars, histVars, boundVars>>

(* The status byte stands on the last command byte; put that back, reverse the reply. *)
FaultStatusLeft(c) ==
    LET e == Entry(c)
        status == e.bytes[e.cmd]
        bad == IF Long(e) THEN status < 128 \/ status % 64 # e.rep ELSE status = 0
        done == [e EXCEPT !.reply = Reverse(@), !.failed = bad]
    IN  /\ cl[c].at = "wait" /\ cl[c].req.op = "none" /\ Done
        /\ ~(Long(e) /\ cl[c].half = 1)
        /\ SetEntry(c, done)
        /\ KeepIdentify(done)
        /\ cl' = [cl EXCEPT ![c] = Advanced(@, e)]
        /\ UNCHANGED <<live, rx, result, raw, slotVars, envVars, histVars, boundVars>>

ExecFinish(c) ==
    LET e == Entry(c)
        status == e.bytes[e.cmd]
        bad == IF Long(e) THEN status < 128 \/ status % 64 # e.rep ELSE status = 0
        done == [e EXCEPT !.bytes[e.cmd] = cl[c].saved, !.reply = Reverse(@), !.failed = bad]
    IN  /\ cl[c].at = "wait" /\ cl[c].req.op = "none" /\ Done
        /\ ~(Long(e) /\ cl[c].half = 1)
        /\ SetEntry(c, done)
        /\ KeepIdentify(done)
        /\ cl' = [cl EXCEPT ![c] = Advanced(@, e)]
        /\ UNCHANGED <<live, rx, result, raw, slotVars, envVars, histVars, boundVars>>

--------------------------------------------------------------------------------
(* The Pak requests of a device handle, and core_n64_transaction *)

Tx(req) ==
    LET word == AddrEncode(req.page)
        address == <<word \div 256, word % 256>>
    IN  CASE req.op = "status" -> <<0>>
          [] req.op = "read" -> <<2>> \o address
          [] req.op = "write" -> <<3>> \o address \o req.data
          [] req.op = "passthru" -> req.tx

RxLen(req) ==
    CASE req.op = "status" -> 3 [] req.op = "read" -> ReadLen
      [] req.op = "write" -> 1 [] req.op = "passthru" -> req.rx

N64Long(req) == Len(Tx(req)) >= 5

(* The lengths core_n64_transaction refuses before it claims. *)
N64Refuses(req) ==
    \/ N64Long(req) /\ RxLen(req) >= 4
    \/ RxLen(req) > CORE_N64_RX_MAX

ReadCrc(data) == IF Len(data) = ReadLen THEN DataCrc8(SubSeq(data, 1, BlockBytes)) ELSE 0

(* pak_crc_status of computed XOR received *)
CrcVerdict(computed, received) ==
    CASE computed = received -> "SUCCESS"
      [] computed - received \in {128, -128} -> "DEVICE_NOT_READY"
      [] OTHER -> "CRC_ERROR"

FaultCrcUnchecked(req, data) ==
    IF req.op # "passthru" /\ Len(data) # RxLen(req) THEN "DATA_ERROR" ELSE "SUCCESS"

(* What a request answers with the bytes a transaction returned, <<>> when it returned none. *)
Verdict(req, data) ==
    IF req.op = "passthru" THEN IF req.rx > CORE_N64_RX_MAX THEN "INVALID_PARAM" ELSE "SUCCESS"
    ELSE IF Len(data) # RxLen(req) THEN "DATA_ERROR"
    ELSE CASE req.op = "status" -> "SUCCESS"
           [] req.op = "read" -> CrcVerdict(ReadCrc(data), data[ReadLen])
           [] req.op = "write" -> CrcVerdict(DataCrc8(req.data), data[1])

PakAnswer(c, req, attempted, data) ==
    Answer(c, [op |-> req.op, req |-> req, st |-> Verdict(req, data), data |-> data,
               attempted |-> attempted])

PageHeld(req) == IF req.op \in {"read", "write"} THEN {controller.mem[req.page]} ELSE {}

PakRequest(c) ==
    /\ cl[c].at = "idle" /\ c \notin ChannelClients /\ calls[c] > 0
    /\ \E req \in Requests :
          /\ held' = [held EXCEPT ![c] = PageHeld(req)]
          /\ echo' = [of |-> IF echo.of = c THEN Nobody ELSE echo.of, own |-> echo.own \ {c}]
          /\ IF N64Refuses(req)
             THEN PakAnswer(c, req, FALSE, <<>>) /\ UNCHANGED <<slot, cl, rx>>
             ELSE IF slot # "FREE"
             THEN PakAnswer(c, req, FALSE, <<>>) /\ UNCHANGED <<slot, cl, rx>>
             ELSE /\ slot' = "CLAIMED"
                  /\ rx' = [rx EXCEPT ![c] = [i \in 1..RxLen(req) + 1 |-> 0]]
                  /\ cl' = [cl EXCEPT ![c] = [Away EXCEPT !.at = "sync", !.req = req]]
                  /\ Answer(c, NoAnswer)
    /\ Called(c)
    /\ UNCHANGED stray
    /\ UNCHANGED <<channel, live, buf, devVars, flight, Done, signals, LastOk, claim_idle, envVars>>

N64Return(c, data) ==
    /\ PakAnswer(c, cl[c].req, TRUE, data)
    /\ cl' = [cl EXCEPT ![c] = Away]
    /\ rx' = [rx EXCEPT ![c] = <<>>]

(* AdaptoidCoreVendorSync takes the slot itself, also when core_n64_transaction has it. *)
SyncClaim(c) ==
    /\ cl[c].at = "sync"
    /\ IF slot = "FREE"
       THEN /\ slot' = "CLAIMED"
            /\ cl' = [cl EXCEPT ![c].at = "reset"]
            /\ UNCHANGED <<rx, result>>
       ELSE N64Return(c, <<>>) /\ UNCHANGED slot
    /\ UNCHANGED <<channel, live, buf, devVars, flight, Done, signals, LastOk, claim_idle, envVars, histVars, boundVars>>

N64Form(c) == IF ~N64Long(cl[c].req) THEN "short" ELSE IF cl[c].half = 1 THEN "out" ELSE "fetch"

SyncSend(c) ==
    /\ cl[c].at = "send" /\ cl[c].req.op # "none"
    /\ \/ /\ slot = "CLAIMED"
          /\ PutOnBus([by |-> c, what |-> N64Form(c), bytes |-> Tx(cl[c].req), rep |-> RxLen(cl[c].req)])
          /\ cl' = [cl EXCEPT ![c].at = "wait"]
          /\ UNCHANGED <<rx, result>>
       \/ /\ slot' = IF slot = "CLAIMED" THEN "FREE" ELSE slot
          /\ N64Return(c, <<>>)
          /\ UNCHANGED flight
    /\ UNCHANGED <<channel, live, buf, devVars, Done, signals, LastOk, claim_idle, envVars, histVars, boundVars>>

(* The reply, checked by its status byte and put the right way round. *)
N64Reply(c) ==
    LET n == RxLen(cl[c].req)
        status == rx[c][1]
        ok == IF N64Long(cl[c].req) THEN status >= 128 /\ status % 64 = n ELSE status # 0
    IN  IF ok THEN Reverse(Tail(rx[c])) ELSE <<>>

SyncDone(c) ==
    /\ cl[c].at = "wait" /\ cl[c].req.op # "none" /\ Done
    /\ IF ~LastOk
       THEN N64Return(c, <<>>)
       ELSE IF N64Long(cl[c].req) /\ cl[c].half = 1
       THEN cl' = [cl EXCEPT ![c].at = "sync", ![c].half = 2] /\ UNCHANGED <<rx, result>>
       ELSE N64Return(c, N64Reply(c))
    /\ UNCHANGED <<channel, live, buf, devVars, slotVars, envVars, histVars, boundVars>>

--------------------------------------------------------------------------------
(* The bus: VendorUrbComplete and AdaptoidVendorComplete *)

Delivers(f) == f.what \in {"short", "fetch"}

(* The damage a reply may take on its way: a bit of its first byte wrong. *)
Damaged(reply) == [reply EXCEPT ![1] = (@ + 64) % 256]

(* The data stage of an IN transfer: a status byte and the reply, last byte first. *)
DataStage(f, reply, corrupt) ==
    LET status == IF reply = <<>> THEN 0 ELSE IF f.what = "fetch" THEN 128 + Len(reply) ELSE Len(reply)
        wire == Reverse(IF corrupt /\ reply # <<>> THEN Damaged(reply) ELSE reply)
    IN  <<status>> \o [i \in 1..f.rep |-> IF i > Len(wire) THEN 0 ELSE wire[i]]

(***************************************************************************)
(* The data stage lands in the transaction's buffer, or in the block       *)
(* itself.  A call that was woken early has gone on: its command byte is   *)
(* put back, its copy handed over, its stack frame left.  Data that comes  *)
(* then overwrites what is there by now; of a state after that nothing is  *)
(* said here.                                                              *)
(***************************************************************************)
Land(c, stage) ==
    \/ /\ cl[c].at = "wait" /\ cl[c].req.op # "none"
       /\ rx' = [rx EXCEPT ![c] = stage]
       /\ UNCHANGED <<channel, buf, stray>>
    \/ LET e == Entry(c)
       IN  /\ cl[c].at = "wait" /\ cl[c].req.op = "none"
           /\ SetEntry(c, [e EXCEPT !.bytes[e.cmd] = Head(stage), !.reply = Tail(stage)])
           /\ UNCHANGED <<rx, stray>>
    \/ /\ cl[c].at # "wait"
       /\ stray' = TRUE
       /\ UNCHANGED <<channel, buf, rx>>

(* The slot after a completion: passed on to the second stage or the idle command, or free. *)
PassOn(ok) ==
    /\ LET second == ok /\ flight.what = "start"
       IN  /\ claim_idle' = (claim_idle /\ second)
           /\ IF second \/ claim_idle
              THEN PutOnBus([NoFlight EXCEPT !.by = CoreOwn, !.what = IF second THEN "kick" ELSE "idle"])
              ELSE slot' = "FREE" /\ flight' = NoFlight
    /\ LastOk' = ok
    /\ signals' = signals + 1
    /\ UNCHANGED Done

(* The end of AdaptoidVendorComplete: the event, without a lock, with the slot out of hand. *)
EventSet ==
    /\ signals > 0
    /\ signals' = signals - 1
    /\ Done' = TRUE
    /\ UNCHANGED <<channel, live, cl, buf, rx, result, devVars, slot, flight, LastOk, claim_idle,
                   envVars, histVars, boundVars>>

(***************************************************************************)
(* A transfer completes: with an error and no data; with a controller      *)
(* that says nothing; or with its reply, intact or with a bit of it wrong. *)
(***************************************************************************)
BusCompletes ==
    /\ slot = "IN_FLIGHT" /\ signals < MaxSignals
    /\ \E outcome \in {"error", "silent", "reply", "corrupt"} :
          LET heard == outcome \in {"reply", "corrupt"} /\ flight.by # CoreOwn
              reply == IF ~heard THEN <<>>
                       ELSE IF flight.what = "fetch" THEN controller.answer
                       ELSE Reply(flight.bytes)
          IN  /\ flight.by = CoreOwn => outcome \in {"error", "reply"}
              /\ PassOn(outcome # "error")
              /\ IF Delivers(flight) /\ outcome # "error"
                 THEN Land(flight.by, DataStage(flight, reply, outcome = "corrupt"))
                 ELSE UNCHANGED <<channel, buf, rx, stray>>
              /\ controller' = CASE flight.what = "out" /\ outcome # "error" ->
                                        [(IF heard THEN AfterCommand(flight.bytes) ELSE controller)
                                            EXCEPT !.answer = reply]
                                 [] flight.what = "short" /\ heard -> AfterCommand(flight.bytes)
                                 [] OTHER -> controller
              /\ echo' = CASE flight.what = "out" /\ outcome # "error" -> [echo EXCEPT !.of = flight.by]
                          [] flight.what = "fetch" /\ outcome # "error" /\ echo.of = flight.by ->
                                [echo EXCEPT !.own = @ \cup {flight.by}]
                          [] OTHER -> echo
              /\ told' = IF flight.what = "short" /\ Len(flight.bytes) = 1 /\ heard
                         THEN DataStage(flight, reply, outcome = "corrupt")[2] ELSE told
    /\ held' = [c \in Clients |-> held[c] \cup
                   (IF cl[c].at # "idle" THEN {controller'.mem[p] : p \in
                        IF cl[c].req.op \in {"read", "write"} THEN {cl[c].req.page} ELSE {}} ELSE {})]
    /\ UNCHANGED <<live, cl, result, devVars, boundVars>>

--------------------------------------------------------------------------------
(* The rest of the world *)

Happens == events > 0 /\ events' = events - 1 /\ UNCHANGED calls

Packet ==
    /\ Happens
    /\ \E p \in Packets : p # raw /\ raw' = p
    /\ UNCHANGED <<channel, live, cl, buf, rx, result, emu, keepalive, slotVars, envVars, histVars>>

AccessoryChanges ==
    /\ Happens
    /\ controller' = [controller EXCEPT !.status = IF @ = 0 THEN 3 ELSE 0]
    /\ UNCHANGED <<channel, live, cl, buf, rx, result, devVars, slotVars, told, histVars>>

InterfaceChanges ==
    /\ Happens
    /\ live' = ~live
    /\ UNCHANGED <<channel, cl, buf, rx, result, devVars, slotVars, envVars, histVars>>

Walk(c) ==
    \/ WalkEnds(c) \/ WalkPadding(c) \/ WalkStructural(c) \/ WalkLocal(c) \/ CallOver(c)
    \/ ExecClaim(c) \/ CmdXfer(c) \/ CmdKeep(c) \/ ExecFinish(c)

Transaction(c) == SyncClaim(c) \/ SyncSend(c) \/ SyncDone(c)

ChannelNext ==
    \/ \E c \in Clients : \/ CmdWrite(c) \/ CmdRead(c) \/ CmdOtherLength(c) \/ Walk(c)
                          \/ PakRequest(c) \/ Transaction(c) \/ EventReset(c)
    \/ CoreSends \/ BusCompletes \/ EventSet
    \/ Packet \/ AccessoryChanges \/ InterfaceChanges

ChannelSpec == ChannelInit /\ [][ChannelNext]_channelVars

--------------------------------------------------------------------------------
(* What the channel and the Pak requests promise *)

(***************************************************************************)
(* "It is saved and put back, which is why this works at all" (ioctl.c, of *)
(* the command byte a status lands on): data comes while its call waits.   *)
(* The code does not keep it - an event set late wakes the next caller at  *)
(* once - and the promises below are for as long as it has not happened.   *)
(***************************************************************************)
LandsWhereWaited == ~stray

(***************************************************************************)
(* What Pak answers rest on: the checksums fit their bits, and tell a      *)
(* block from the same block damaged, although the controller inverts the  *)
(* checksum to say that there is no accessory.                             *)
(***************************************************************************)
PakData == [1..BlockBytes -> 0..255]

ChecksumsTell ==
    /\ \A page \in Pages : AddrCrc5(page) \in 0..31
    /\ \A d \in PakData :
          LET crc == DataCrc8(d)
          IN  crc \in 0..255 /\ DataCrc8(Damaged(d)) \notin {crc, Inverted(crc)}

(* What eight bits, only those of wrong set, make of a register. *)
Eight(wrong) ==
    [reg \in [1..8 -> BOOLEAN] |->
        LET In[i \in 0..8] == IF i = 0 THEN reg ELSE Shift(Poly8, In[i - 1], i \in wrong)
        IN  In[8]]

(* It follows from the register that the wrong bits alone leave, for blocks of any number of bytes: *)
(* all of them are in the first byte.                                                              *)
ErrorsTold(bytes) ==
    \A wrong \in {{2}, {1, 2}} :
        LET Left[n \in 0..bytes] ==
              IF n = 0 THEN Zeros(8) ELSE Eight(IF n = 1 THEN wrong ELSE {})[Left[n - 1]]
        IN  Left[bytes] \notin {Zeros(8), [i \in 1..8 |-> i = 1]}

Succeeded(c, op) == result[c].op = op /\ result[c].st = "SUCCESS"

(***************************************************************************)
(* A Pak request that succeeds tells the truth: the block read is what     *)
(* that page held at some time while the request ran, and the block        *)
(* written was in the page if the echo that was fetched is that of this    *)
(* write - whatever the slot was used for in between, whoever the event of *)
(* another wakes early, and although replies come reversed, damaged or not *)
(* at all.                                                                 *)
(***************************************************************************)
PakAnswerIsTrue ==
    LandsWhereWaited => \A c \in Clients \ ChannelClients :
        /\ Succeeded(c, "read") => SubSeq(result[c].data, 1, BlockBytes) \in held[c]
        /\ Succeeded(c, "write") /\ c \in echo.own => result[c].req.data \in held[c]

(***************************************************************************)
(* "The controller echoes the CRC it computed; they must agree." (ioctl.c) *)
(* of this write: the echo that is compared is never that of another.      *)
(***************************************************************************)
EchoIsOwn == \A c \in Clients \ ChannelClients : Succeeded(c, "write") => c \in echo.own

(* What a block was written with: the entries of the block that has these commands. *)
Original(b) == {w \in Blocks : Len(w.entries) = Len(b.entries)
                     /\ \A i \in DOMAIN w.entries :
                           /\ w.entries[i].bytes = b.entries[i].bytes
                           /\ w.entries[i].cmd = b.entries[i].cmd}

(***************************************************************************)
(* A block comes back with the commands that were written: the status      *)
(* byte of a transfer lands on the last command byte and is taken off      *)
(* again on every path, in pass 0 and in pass 1, after an early wake too.  *)
(***************************************************************************)
CommandsComeBack ==
    LandsWhereWaited => \A c \in ChannelClients :
        result[c].op = "read" /\ result[c].block.entries # <<>> => Original(result[c].block) # {}

(***************************************************************************)
(* A structural error ends the walk: no entry behind it is ever answered,  *)
(* by which a client tells it from a failure that carries on.              *)
(***************************************************************************)
NothingBehindStructural ==
    LandsWhereWaited => \A c \in ChannelClients :
        result[c].op = "read" =>
            \A w \in Original(result[c].block) :
                \A i \in DOMAIN w.entries :
                    LET e == w.entries[i]
                    IN  e.cmd \notin {CORE_CMD_PAD, CORE_CMD_END, CORE_CMD_SKIP}
                        /\ (e.cmd > CORE_CMD_MAX_LEN \/ e.rep > CORE_CMD_MAX_LEN)
                        => \A j \in i + 1..Len(w.entries) :
                              result[c].block.entries[j] = w.entries[j]

RealCrc == [v \in {0, 1, 128, 254} |-> DataCrc8([i \in 1..32 |-> v])]

(* The four values of cmd_emulated_crc are the checksums they stand for. *)
TableIsReal == \A v \in DOMAIN RealCrc, any \in 0..255 : EmulatedCrc(v, any) = RealCrc[v]

(***************************************************************************)
(* An emulated Pak write cannot be told from one on the wire: its answer   *)
(* is the CRC of the 32 equal bytes it wrote, or that inverted when the    *)
(* last identify found no accessory.                                       *)
(***************************************************************************)
EmulationAnswersCrc ==
    [][LandsWhereWaited => \A c \in ChannelClients :
          LET i == cl[c].i
              v == Entry(c).bytes[4]
          IN  /\ cl[c].pass = 0 /\ AtCommand(c) /\ ~Structural(cl[c], Entry(c))
              /\ cl'[c].i = i + 1 /\ cl[c].index = 0
              /\ EmulatedWrite(Entry(c)) /\ v \in DOMAIN RealCrc
              => channel'.block.entries[i].reply[1]
                    = IF emu.present THEN RealCrc[v] ELSE 255 - RealCrc[v]]_channelVars

(***************************************************************************)
(* emu_pak_present changes only to what the controller said: the identify  *)
(* goes on the wire and its answer is kept (ioctl.c, core_cmd_process).    *)
(***************************************************************************)
PresenceIsReported == [][emu'.present # emu.present => emu'.present = (told % 2 = 1)]_channelVars

(***************************************************************************)
(* A claimed slot has a call that will use it: a transaction that has      *)
(* returned leaves no claim behind (core.c: "relies on the transport to    *)
(* release it").                                                           *)
(***************************************************************************)
ClaimHasUser == slot = "CLAIMED" => \E c \in Clients : cl[c].at \in {"sync", "reset", "send"}

(***************************************************************************)
(* An entry of a block read back without the failure mark was answered:    *)
(* no reply is what the client itself wrote there.                         *)
(***************************************************************************)
UnmarkedIsAnswered ==
    \A c \in ChannelClients :
        result[c].op = "read" =>
            \A w \in Original(result[c].block), i \in DOMAIN result[c].block.entries :
                LET e == result[c].block.entries[i]
                IN  Len(e.bytes) >= 1 /\ Identify(e) /\ ~e.failed => e.reply # w.entries[i].reply

(***************************************************************************)
(* "ch->block keeps its go flag, so every read re-runs pass 1" (ioctl.c):  *)
(* running a block does not change whether it is run.                      *)
(***************************************************************************)
GoFlagIsKept ==
    [][\A c \in ChannelClients :
          cl[c].at # "idle" => channel'.block.go = channel.block.go]_channelVars

================================================================================

# Adaptoid driver: TLA+ specifications

TLA+ models of the Windows driver in `src_drv/`, the TLC runs that check them on
small instances, and TLAPS proofs. The specifications are translated from the code;
where a comment of the code says something the code does not keep, that is
recorded below.

## 1. The system

The Adaptoid is a USB adapter for an N64 controller. The driver polls the
controller over an interrupt pipe, turns packets into HID reports, drives the rumble
motor over vendor control transfers, runs user-written scripts on the packets, and
serves a configuration program through device requests. `core.c`, `ioctl.c`, `sched.c`
and `script.c` are free of operating system calls; `wdm.c` joins them to Windows and
holds all the locking.

| component | state | operations | talks to |
|---|---|---|---|
| remove locks A and B (`wdm.c`) | `IoCount`, `Removed`, `RemoveEvent` | acquire, release, release-and-wait | everything that outlives a dispatch call |
| polling engine (`wdm.c`) | `PollStopMask`, two slots with IRP, active bit and cancel latch, restart flag | start, submit, stop, complete, restart worker, port recovery | PnP and power dispatch, the bus driver; feeds the core |
| report path (`wdm.c`) | report ring, list of parked reads, cancel routines | read, park, sink, cancel, fail at removal | hidclass above, the core's sink below |
| vendor slot (`wdm.c`) | one slot FREE, CLAIMED or IN_FLIGHT, callback, event | claim, send, complete, drain deferred work | the core's chains, blocking requests |
| probe and effect chains (`core.c`) | accessory state and probe step, `vendor_owner`, `effect_next`, effect state, four `claim_*` flags | packet, tick, completion, kick, enable, reset | vendor slot |
| script scheduler (`sched.c`, `wdm.c`) | ready list, free pool, token bucket, pass latch and pending time, fault slot, event ring, timer | pass, natives, input, load, unload, fault collection, teardown | timer DPC, poll completion, device requests, control device |
| control device (`wdm.c`, `ioctl.c`) | reference and handle counts, live registrations, notification ring, parked waits, delivery latch | create, open, wait, post, pump, cancel, cleanup, flush, delete | all adapters, clients |
| script VM (`script.c`, `sched_execute`) | code position, one array of globals and locals, a node per suspended thread | one instruction, suspend, resume | scheduler natives |
| effect engine (`core.c`, `ioctl.c`) | effect slots, ring of evaluated ticks, dither carry, window on the motor | evaluate, send, extend, keepalive, program, start, stop | vendor slot, packets, device requests |
| command channel and Pak requests (`ioctl.c`, `core.c`) | the shared command block, byte order flag | write, read, one transaction, long form, emulation | vendor slot, the controller and its accessory |
| decoding and reports (`core.c`, `ioctl.c`) | decoded packet, key and button tables, maps, masks, tuning mode, registry | packet, native, request, enumeration, unload | host, scripts, device requests |
| driver and device lifetime (`wdm.c`) | PnP flags, descriptors, configuration, interface, name, both locks | AddDevice, each PnP request, HID requests | PnP manager, bus driver, polling, registry |
| device power (`wdm.c`) | system and device state, parked system IRP, wake | system, device and wait-wake requests, their completions | power manager, polling, locks |
| hub naming (`wdm.c`) | none | walk, path, name | START |

What is hard here, and hard to test: completions arrive at DISPATCH_LEVEL, on any
processor and in any order with PnP, power and device requests; locks are dropped
around every call that can complete an IRP; ownership of an IRP is decided by an
atomic exchange with the cancel routine; the slot and the scheduler pass claims and
time stamps from one thread to another; and every wait at removal depends on
references somebody else must drop. `PROJECT.json` lists these hazards line by line.

What makes each part correct: the remove lock counts exactly and drains; a poll slot
never has two reads out and stopping drains; a read is completed once, cancelled or
not, and no report is lost except to a full queue; the slot agrees with the bus and a
blocking call returns; a completion reaches the chain that issued the transfer; the
probe, which gates all input, always has a step out; a script thread is owned once, due
threads run; a parked wait comes back when it is cancelled and when the last adapter
leaves; no bytecode leaves the machine's arrays or traps, and a suspended thread finds
its frame again; the effect ring answers for the tick it is asked about; a Pak access
that reports success moved that page; the host's view of keys and buttons is the
driver's; no PnP, power, wake or HID request and no interrupt read uses a device
extension that was given back, and every removal and parked power request ends.

## 2. Modules

| module | models | how state and actions correspond |
|---|---|---|
| `DrainGate` | abstract | what a remove lock promises: enter while open, closed only when empty |
| `RemoveLock` | `AdaptoidLock*` | fields by name; one step per interlocked operation, flag access and event call |
| `PollEngineProof`, `VendorSlotProof`, `ScriptSchedProof` | | the theorems of section 4, each module about the one it is named after |
| `RemoveLockProof` | | the theorems about who may still use a device: `RemoveLock`, and `ControlDevice` for the waits that end with it |
| `DeviceLifecycleProof` | | the theorems about `DeviceLifecycle` and about `HubNaming`, whose walk START makes |
| `CoreProof` | | the theorems about the two modules on `core.c`, `CoreChains` and `EffectRing` |
| `ReportsProof` | | the theorems about `InputReports` and `ReportPath`: which reports there are, and how they reach a read |
| `UserProgramsProof` | | the theorems about what user mode gives the driver to run: bytecode (`ScriptVM`), command blocks and Pak requests (`CommandChannel`, and the checksums of `PakCrc`) |
| `ReadService` | abstract | what the report path promises hidclass: each read served with a report of its own or failed for a reason, each report given to a read, waiting in a bounded queue served oldest first, or dropped because that is full |
| `ReportPath` | `AdaptoidReadReport` .. `AdaptoidReportSink` | `queue`, `parked`; one step per `ReportLock` section, per exchange of a cancel routine and per completion; parking takes two steps, as `IoCancelIrp` does not hold the lock |
| `PollEngine` | `AdaptoidPoll*`, restart worker, START, STOP, REMOVE, D0 transitions | one step per `PollLock` section and per thing done between two; the bus (external) completes, fails and cancels |
| `VendorSlot` | `AdaptoidVendor*`, `AdaptoidQueryFirmwareInfo`, `AdaptoidCmdXfer`, `AdaptoidCoreVendorSync` | one step per `Vendor.Lock` section; what the core sends is abstract |
| `CoreChains` | probe, effect chain, deferred work, device enable | one processor: a packet and a completion are DPCs and run to their end (the packet in two steps nothing comes between, to keep the branching small), a request at PASSIVE_LEVEL can be preempted between claim, compose and send. The handlers are operators on one record, named after the functions |
| `ControlDevice` | control device lifetime, notification queue | parking and cancelling hold `CdoExt->Lock`, posting and flushing hold nothing: every access is a step. Its specification is `ControlSpec`, so that one module can extend it together with `RemoveLock` |
| `ScriptSched` | scheduler and everyone who enters it | node = thread; an instruction is any effect an instruction can have on the scheduler; only the fault slot is locked |
| `EffectSynthesis` | `core_effect_wave` .. `core_effect_pulse` | the arithmetic of one tick, as operators: waveforms by the sine table, envelopes, conditions, the soft sum of slots, the pulse modulation with its carry |
| `EffectRing` | `core_effect_evaluate`, the sends that use it, the effect requests | the ring as a function of its index; one step per tick evaluated, so that (with `Overlap`) a DPC can come between two. Its specification is `RingSpec`, so that one module can extend it together with `CoreChains` |
| `ScriptVM` | `core_script_run`, `sched_execute`, natives | every instruction fetched may be any opcode with any operand of `Operands`: what is checked holds for every bytecode |
| `PakCrc` | address and data checksums | the two shift registers bit by bit, and the polynomial each one divides by |
| `CommandChannel` | `core_cmd_write`, `core_cmd_read`, `core_cmd_process`, `core_cmd_exec`, `core_n64_transaction`, the Pak requests | a block is a sequence of entries; each claim, reset of the event, send, completion and setting of the event and each entry walked is a step, so that a completion has freed or passed on the slot before it sets the event; controller and accessory are external and may be pulled. Its specification is `ChannelSpec`, so that one module can extend it together with `ScriptVM` |
| `InputReports` | `core_on_raw_packet` and decoding, key and mouse reports, tuning, the requests of the control device, the registry | requests are preempted between any two accesses; a packet is two steps, up to the script and the pack, and anything may come between; up to there, and in the passes of a script, packets and the timer run one after the other (below). The host keeps what it was last told. Its specification is `InputSpec`, so that one module can extend it together with `ReportPath` |
| `HubNaming` | `AdaptoidBuildLocationName`, `FindOnHub` | the walk over a topology, and apart from it where a name leads |
| `DeviceLifecycle` | AddDevice, `AdaptoidPnp`, START and its undoing, HID requests, `AdaptoidPower` | `dx` is the device extension by field name; locks A and B are the sets of their holders; each request is a thread of steps. One read stands for the two of the polling engine; looking at the stop mask and submitting are two steps. What a failed read adds to the mask, and its restart, are left to `PollEngine` |
| `MC_*` | | model values, symmetry sets and constant functions for TLC |

`RemoveLock` is shown to implement `DrainGate` and `ReportPath` to implement
`ReadService`, which has no list, lock or cancel routine in it (section 4). `ReportPath`, `PollEngine` and
`VendorSlot` use the gate's view of a remove lock (the set or number of references),
which that refinement justifies. `CoreChains` is the upper half of `VendorSlot`: the
former keeps what is sent and takes the handlers as atomic, the latter keeps every lock
section and forgets what is sent. `EffectRing` is what `CoreChains` calls "something
changed", `ScriptVM` what `ScriptSched` calls an instruction, and `CommandChannel` and
`DeviceLifecycle` use the slot and the polling engine at the grain their own properties
need.

Abstractions: reports are numbered, packets are two status bits and whether something
changed, payloads are left out. The doubly linked lists and rings are sequences and
one insertion or removal is one step. In `ScriptSched` a pass that overlaps another pass
or an unload leaves the one interpreter in a state about which nothing can be said; the
flag `corrupt` records it and the behaviour ends there (`OnePass` and `NoLoadInPass` say
that this is reachable). `InputReports` takes one processor for what packets, the script timer
and natives do up to the pack: in the code two reads may complete on two processors
into `core_on_raw_packet`, and the timer's DPC on a third, without a lock
(`wdm.c:2263`-`2277`), so that they could come between any two accesses to the core. What
its properties say of tables and of the tuning mode is said for that; only the window
between the restored stick and the pack (`core.c:427`-`433`) is open, and what is refuted
there is in section 5. `ControlDevice` treats concurrent unlocked list surgery the same way.

## 3. Runs

Run one with `tlc -config <cfg> <module>`; the module of a cfg is in `PROJECT.json`.
Times are of two workers.

| run | instance | what it shows |
|---|---|---|
| `remove_lock` | 3 users, a REMOVE | the count is the references, nobody inside after the drain, the drain completes, `DrainGate` is implemented. Three users are the least with one refused, one releasing last and one idle |
| `report_path` | 2 reads, 2 sinks, queue of 1, 3 reports | no read completed twice, cancelled reads return, `ReadService` is implemented (so each report is delivered, queued or, at the limit, dropped). Two sinks and two reads give every race of two parties for one IRP; three reports overflow the queue |
| `poll_engine` | 2 slots, 2 IRPs, 1 completing processor, 1 START, 2 upsets (failed reads, power-downs) | one read per slot, the restart ladder pins the device, stopped reads end. Two upsets are the least for a failure during a power transition and for a second failure after a restart; restarts and power-ups are bounded by them |
| `vendor_slot` | blocking calls without end, synchronous transfers and two-transfer commands of two callers, one call at a time, with the core, the tick, 1 processor, URB refusals | slot and bus agree; a call that looks at the status of its send returns, though an earlier transfer may set the event after this call has reset it (which wakes it early, `WokenWhenOver`). Two calls at a time are left out: the second reinitialises the event the first waits for, and then what the event does is undefined |
| `core_chains` | 1 requesting thread, all requests, 1 failed transfer, URB refusals, 1 probe write | completions reach their issuer, deferred work is drained. The register writes of the probe (five) all take the same branch, one write reaches it |
| `control_device` | 1 adapter, 1 handle, 2 waits, ring of 1, 2 events | cancelled waits return, the last departure releases parked ones |
| `sched` | 2 nodes, 2 threads, bursts of 2 instructions, 1 packet, 1 load | every node has one owner, a due thread runs. Two nodes are both threads; a third allocation is the failing one |
| `script_vm` | 2 threads, 1 global, 2 locals, operands on both sides of every bound, slices of 6 | nothing is read or written outside the arrays (whose size fits its `u32`: section 5 for one that does not), no division traps, a frame survives a suspension, a slice ends. Six instructions reach a call, a return and a store after each |
| `effect_ring` | 1 slot, a ramp and a spring, window 2, ring 6, 3 ticks of time, 2 requests, 4 sends | entries are found at their own tick, a payload is the ticks of its window, the dither is chained. The ring rolls (three windows of two fill it), starts over and is extended |
| `command_channel` | a client of the channel with 3 calls and 2 packets or changes of accessory or adapter; and the same client with 1 call and 1 such event beside another with 2 Pak requests, 2 pages; blocks with padding, long, short and malformed entries; the core; 1 completion between freeing the slot and setting the event | for as long as no data comes for a call that was woken early and has gone on (`LandsWhereWaited`, section 5): each command comes back as it was written; nothing goes out behind a structural error; emulation answers the checksum; a block read was in its page, and one written is there if its own echo came back. Three calls are an identify, its answer and the block that depends on it; two Pak requests are the least for one that starts while the transfer of the last is out; one late event is enough to wake the next call early |
| `input_reports` | 3 adapters of which 2 start, 2 clients, 2 keys and a modifier with room for one, 2 mouse buttons | the host is in step, enumerations miss nobody, tuning is left on a fresh press. Packets, the script timer and natives run one after the other up to the pack (section 2); two packets may wait to be packed |
| `lifecycle` | 1 adapter, 4 requests of up to 2 STARTs, 2 queries, 2 system transitions and 1 HID request; a wake, an unplug, removals at any point; 2 tries to select a configuration | nothing used after it is freed, a read sent again behind the abort included; blocks given back, the name leads to the adapter; removals and parked power requests end. Four requests are a START, a query, its STOP and another START, with one more of any kind beside them; or a START, a sleep, a wake-up and a HID request |

Every bound is a constant with "bound" in its comment or a `Max` name. Where
`CHECK_DEADLOCK FALSE` is set the bounded inputs run out or the device is gone: the
system may stop there. `RemoveLock` and `CoreChains` are checked for deadlock.

Each property is paired with a mutant, an operator named `Fault...` next to the
definition it replaces, that breaks it the way a slip in that code would: among them
are defects the code's comments tell of, such as the refused send that kept the owner
(`FaultOwnerNotRestored`).

### Fairness

Weak fairness of a thread in the driver: a kernel thread or DPC that can go on does, and
nothing holds a spin lock for ever. Of the bus: a transfer that is out completes, with or
without success (`HostComplete`, `BusCompletes`, `CompleteOk \/ CompleteFailed`), which is
what the bus driver guarantees of an IRP. Of the timer: `KeSetTimer` expires and its DPC
runs. None of the clients: opening, reading, cancelling, loading and collecting are never
forced. Two exceptions. `RemovalSpec` of `ReportPath` assumes that hidclass cancels the
reads it has parked when the device goes, because that is the only way they end
(`RemovalFailsParkedReads` below). In `CoreChains` completions get strong fairness: a
packet keeps them off the processor only until its tick ends. `ScriptVM` needs only that
the machine goes on. In `DeviceLifecycle` a submission and a completion go on once begun; the
bus driver gives back the reads it has when it is told of the removal (in the step that
tells it), and then ends the wake it holds; hidclass cancels the read it has parked at a removal; the power manager
delivers the device request it accepted; and a HID request in the driver ends. Power, PnP,
wake and HID requests themselves are never forced, nor is a read that nothing stops.

## 4. Proofs

Checked by TLAPS, every leaf by SMT, Zenon or LS4. Nothing is assumed but the `ASSUME`s of
the modules (which TLC evaluates on every run) and, where said, a hypothesis of the theorem.
Each proof is laid out the same way: an inductive invariant as a conjunction of named parts,
one lemma per action (or per group of actions that do the same to the invariant), and the
theorems as consequences. TLC checked each invariant on the instance of the module's run
before it was proved.

| theorem | for every | says |
|---|---|---|
| `CountCorrect`, `DrainIsSafe`, `LockImplementsGate` | finite set of users | the count is the references; nobody inside after the drain; `RemoveLock` implements `DrainGate` |
| `CompletedOnceHolds`, `ReportsAccountedHolds`, `ReferencePerParkedReadHolds` | reads, sinks, queue length, reports | a read is completed once; a report is in one place; RemoveLockB is held for the reads parked or on their way |
| `PathImplementsService` | reads, sinks, queue length, reports | `ReportPath` implements `ReadService`: every step of the code is a step of the service or a stutter |
| `OneReadPerSlotHolds`, `RestartPinsDeviceHolds`, `PollTyped` | slots, IRPs, **processors**, upsets | no slot has two reads out; REMOVE does not pass a restart queued or running; the lock's count stays a natural number |
| `SlotMatchesBusHolds`, `ReferencePerTransferHolds` | finite sets of callers and processors | the slot is IN_FLIGHT exactly while one transfer is out; RemoveLockB is held for transfers and querying STARTs |
| `RoutedToIssuerHolds`, `NothingLeftBehindHolds`, `ProbingIsOutHolds` | threads, requests, length of the probe, failures | completions reach their issuer; the step that frees the slot leaves no claim behind; PROBING has a step out |
| `RingIndexedByTickHolds`, `WindowCoversItsTicksHolds`, `CarryIsChainedHolds` | effects, slots, window, ring of two windows or more, times, requests, URB refusals | an entry is found at the tick it was computed for; a payload is of its window's ticks; the dither is chained from one stored tick to the next |
| `NeverAstrayHolds`, `NeverTrapsHolds`, `FrameKeptHolds`, `MachineInRangeHolds` | operands, threads, sizes of the arrays (`SizeFits`), widths, slices | no bytecode leaves the arrays or traps; a resumed thread finds its frame |
| `CommandsComeBackHolds`, `NothingBehindStructuralHolds`, `ChannelInvariant` | blocks, packets, contents, device requests beside the channel, claims and sends of the core, failures | for as long as no data comes for a call that was woken early and has gone on (`LandsWhereWaited`): a block comes back with its commands; behind a command that is too long nothing is touched |
| `ChecksumsTellHolds` | number of bytes in a block, contents | the checksum tells a block from the same block damaged, if the register that the wrong bits alone leave is neither zero nor its top bit |
| `PakAnswerIsTrueHolds` | blocks, pages, contents, requests, block length, failures | a block that a read returned was in its page meanwhile; one that a write reported, and whose own echo was fetched, was in the page; under the same condition, early wakes included |
| `EmulationAnswersCrcHolds` | as above | a write that the driver answers itself is answered with the checksum of what it wrote; under the same condition |
| `NotifyCompletedOnce` | handles, adapters, waits, length of the ring, events | no parked wait is completed twice |
| `NodesOwnedOnceHolds`, `ReadySortedHolds`, `FaultIsAnnouncedHolds`, `KeysGoWithScriptHolds` | nodes, budget, limits, packets, loads | until two passes overlap, a node is in one place or free; the ready list is sorted and counted; no fault sits unannounced unless the ring dropped its event; no key outlives its script |
| `HostInSyncHolds`, `TuneLeavesHolds`, `EnumerationCompleteHolds` | adapters, clients, keys and sizes of the report, packets, calls of natives, requests, arrivals and departures | the host holds the keys and buttons of the tables, but for a report about to go out and a change that had none; the tuning mode ends with a fresh press; an enumeration misses nobody and names nobody twice |
| `NeverUsedAfterFreeHolds`, `BlocksReturnedHolds` | topologies, bounds on every request, refusals | nothing is used after the removal freed it, not by a read that was sent again behind the abort either; every block is returned |
| `LocationNameIsRight`, `NameLeadsToAdapterHolds` | topologies of any shape and depth, addresses, STARTs, failures | the name built for an address leads to an adapter of that address, and is missing only where there is none within reach; a listed device has the name of where it is |

What carries each argument, and why the property alone is not inductive:

- **`RemoveLock`**. That nobody is inside after the wait depends on who may set the event:
  `LockInv` adds that the flag is raised exactly from the moment the REMOVE thread raised it,
  that whoever signals has seen the count at zero with both references of REMOVE gone, and
  that the wait returns only after the event. `LastReference` is the step of the argument.
- **`ReportPath`**. A read is completed once because of a discipline on `CancelRoutine`: of
  the sink, the parking thread and the cancel routine exactly one finds it set. `ReadInv` says
  for each place a read can be in who may still exchange it, and counts a reference for each;
  `ReportInv` says that a report is in one place. The refinement needs one part more,
  `Reasons`: a thread on its way to fail a read has seen its cancel flag, and past the drain
  nobody holds RemoveLockB. With it the exchange by a sink is `Serve`, popping the queue is
  `ServeOldest`, completions are `Answer` or `Fail`, and `AdaptoidCancelPendingReads` is
  `Close`: it finds nobody to fail (`UnwireCloses`), since whoever is still parked would
  have kept the wait before it from ending. A read may overtake another and a report another
  between two lock sections; the service promises no order but that of its queue.
- **`PollEngine`**. A slot's active bit, its IRP and the thread that carries the IRP are tied
  together, and a queued or running restart to its reference. `NeverFreedTwice` and its
  companions of section 5 fail with two processors; the theorems say what survives: one read
  per slot and the pinned device.
- **`VendorSlot`**. The slot's state, the transfer out and the threads between a claim and a
  send are tied, and each transfer and querying START to one reference. Hypothesis:
  `InlineFailures = FALSE`, the bus driver does not complete a transfer with an error inside
  `IoCallDriver`. With `TRUE` the code rolls such a transfer back twice and
  `NoCompletionDropped` is refuted, so the hypothesis cannot be dropped.
- **`CoreChains`**. Every handler is characterised by one predicate, `Outcome`: it sent a
  transfer of its own and is the owner, composed one as a preempted request, or sent nothing
  and left the owner. The invariant adds that a request between claim and send has the claim
  and the effect engine is then the owner, so that at most one is there, and that a probe
  under way is what the completion will be routed to. `stolen` excludes the behaviours in
  which a tick, which has no claim, uses up that of a request (`OwnerIsIssuer` fails there).
- **`EffectRing`**. Entries are named by their distance from `head`, so writing one or moving
  `head` on renames the others; `IndexIs`, `Written` and `Rolled` say how. `RingInv` adds to
  the three properties what holds in the middle of an evaluation (`Under`): it knows where its tick sits, everything behind it is chained, its carry is the one
  the tick before left, and nothing is stored ahead of it unless it verifies, in which case it
  goes on to the end of what is stored or truncates at the first disagreement. An evaluation
  that starts in the middle thus takes the right carry, and one that ends early leaves nothing
  behind it that it contradicts. Hypothesis: `Overlap = FALSE`, no DPC evaluates between two ticks of a
  request. With `TRUE` `RingIndexedByTick` is refuted (section 5), so the hypothesis cannot be
  dropped. That the carry stays in range is an induction over a sum and stays with TLC.
- **`ScriptVM`**. A bytecode is any sequence of opcodes and operands, so the invariant bounds
  the stack pointer, the pc and the locals of the running machine and of each suspended node;
  the bound is what the checks of `sched_execute` establish before each access. Hypothesis:
  `SizeFits`, the bytes of `var_count` and the locals fit the `u32` they are computed in. Nothing
  in the code bounds `var_count`, and without the hypothesis `NeverAstray` is refuted (section
  5). The budget may go below zero; nothing rests on it.
- **`CommandChannel`**. What is answered is the end of a walk, so `ChannelInv` follows the
  block from the write on: the driver's copy, and the copy of a read, is some written block of
  which the walk has only touched replies and marks (`Follows`), and the walk has not passed a
  command that is too long (`NotBehind`). The exception carries the argument: from the claim to the
  return of a transfer the last command byte is lent to its status, and `saved` is that byte
  (`Walked`), while completions and the events of others come between any two steps. An event
  that is set late ends the wait of a client whose own transfer is still out: it puts the byte
  back and goes on, so that of a transfer out the invariant only says whose it is
  (`FlightHasSender`). Data that comes for such a call lands on bytes that are its no longer;
  the model notes that (`stray`) instead of the damage, and the properties are for as long as it
  has not happened (`LandsWhereWaited`, refuted in section 5). Hypotheses: one client of the channel, as two
  share the copy without a lock and section 5 refutes `CommandsComeBack` for them; and, for
  `NothingBehindStructuralHolds`, that no two blocks have the same commands and different replies
  written into them, since the property finds the written block by its commands. Which block it
  was, the invariant says without that.
- **Pak requests**. A reply is looked at two steps after it landed, in a slot others used since.
  `PakInv` therefore says of a request under way what it would be told if it looked now (`Tells`),
  and of the controller's waiting reply that it agrees with the block of the write it answers only
  if the page took that block (`Echoes`). A request woken early has been delivered nothing
  (`Undelivered`) and its buffer says so, which is no success; it may go on to claim its second
  half while the first is out, or have returned (`Outstanding`). The property has to name the echo (`echo`, a history
  variable): a transfer of somebody else between the two halves of a write leaves another echo
  to fetch, and section 5 refutes `EchoIsOwn`. Everything else is that replies are reversed once
  and that damage shows. For that the proof unfolds the fold of the checksum (`RegisterRuns`),
  shows the register linear (`RegisterLinear`) and the damage to be a sum of bits (`DamageIs`);
  the damaged block then passes only if the wrong bits alone leave an empty register, or the top
  bit that tells an absent accessory. Hypothesis: they do not (`ErrorsTold`), a closed formula that
  TLC computes for 32 bytes and for the run's two, byte by byte (`ErrorsAre`). It cannot be dropped: for 16 bytes it is false,
  and there the damaged reply of an empty socket passes for a good one. `EmulationAnswersCrcHolds` rests in the same way on
  `TableIsReal`, the four checksums of `cmd_emulated_crc`, which TLC computes; and both on one
  client of the channel.
- **`ControlDevice`**. A parked wait is with its cancel routine, with a cancellation on its way,
  with one thread that claimed it, or completed (`ClaimedOnce`), although posting, flushing and
  the cancellation hold no common lock: the exchange of the routine decides.
- **`ScriptSched`**. The properties speak of lists, the slot and hands; what keeps them is
  control: while `corrupt` is false at most one process is in a pass, only over a loaded
  script, and a node is in hand exactly where a pass executes or faults and where the client
  frees. Each action then moves one node between two places, by one lemma per list operation
  (insertion by wake time, removal, push, pop). For the announcement, a pass that replaced a
  parked fault relies on the earlier announcement, which the invariant carries along. Beyond
  `corrupt` (`OnePass` is reachable otherwise, section 5) nothing is claimed but the order of
  the ready list.
- **`InputReports`**. `HostInSync` says nothing of an adapter some client is sending a report
  of. The invariant has to, as an unload may be preempted for long between a table and its
  report while packets and script calls change the same table: `AllTold` says for keys and
  buttons apart that the host has been told or that a client that tells is on its way. Every
  native, every packet and every send is characterised by one predicate (`Told`: what was told
  stays told and what it changes it tells). `TuneModes` ties the mode to what was let go since
  it was entered. For the enumeration `Walked` says where it is in a list that changes under
  it: nobody behind the entry named last has been named, everybody up to there that was live
  all the while has, and who was named is on the list or gone. Arrivals and departures keep
  that by one fact on lists (`ListMoves`): those behind a place stay behind it. Hypothesis
  of `EnumerationCompleteHolds`: `AddressReused = FALSE`; section 5 refutes the property without it.
- **`DeviceLifecycle`**. The invariant says for every place of each thread (PnP, power, query,
  HID request, wake) which lock it holds, which blocks it owns and how far START got, and for
  REMOVE, once past a drain, that no other thread is in a place that lock covers. The read holds
  no lock; `ReadInv` says who may have it: the bus until it is told of the removal, a START or a
  power-up that is about to submit it and is itself waited for, or a completion, which the flush
  of the DPCs waits for. So nobody has it when the extension goes, although one may have been
  sent again behind the abort. For the name,
  `NameInv` adds that between the address and the new name, through failures and a STOP, the
  device is not listed.
- **`HubNaming`**. `FindOnHub` goes into the first port that leads anywhere. `FoundLeads` says
  that what it returns is a path to the address, `TrailFound` and `ReachedByTrail` that it
  returns one if an adapter of that address is within the depth searched. The induction over depth and
  ports is a least counterexample (`StepByStep`), as the provers cannot instantiate the
  library's induction theorems.

`DistinctThreads` and `NoSlotIsNoSlot` of `PollEngine` only say that constants chosen as
names are different.

Only model-checked: all liveness properties (`TeardownEnds`, `ProbeEnds`, `DueThreadRuns`,
`RunEnds` and the like need fairness and ENABLED); `CarryStaysInRange` and the arithmetic of
`EffectSynthesis`; that the address checksum of `PakCrc` is the
remainder of a division by its polynomial (`Divides`, by which the controller of the model takes
an address); the closed formulas `ErrorsTold(32)` and `TableIsReal`; and the unlisted
invariants of `ControlDevice` other than that each wait is completed once.

## 5. Statements the code does not keep

These are stated in the modules and TLC refutes them for the code as it is; none is
assumed anywhere. Where a cfg is named, it refutes the statement as it stands; the others
are refuted by the cfg of the module's run with the property and the constants given in
its place (Spec suffices unless the property is temporal, then FairSpec). Most need two
processors or a DPC between two adjacent statements.

| property | how | what the code says | what happens |
|---|---|---|---|
| `PollEngine.PolledInD0` | `MC_PollPower` | "the device is powered by the time this is called, so polling can genuinely start again" (`wdm.c:2814`) | powering down adds the power and the PnP stop reason (`AdaptoidQuiesceIo`), powering up clears only the first |
| `PollEngine.NothingInFlightWhenUnconfigured` | `MC_PollQuiesce` | "nothing may be in flight when it goes out" (`wdm.c:1581`) | the mask is tested, stop and abort run, the read is submitted |
| `PollEngine.NeverFreedTwice` | 2 processors, 3 IRPs, 2 STARTs, 1 upset | "never freed twice and never leaked" (`wdm.h:285`) | a stop settles, under a new lock section, a read that has been replaced |
| `PollEngine.NeverLeaked` | 2 processors, 3 IRPs, no upset | as above | two stops overlap and the latch is cleared for a completion that has run |
| `PollEngine.RestartQueuedOnce` | 2 processors, 3 IRPs | "queue the restart work exactly once" (`wdm.c:2149`) | both reads fail together and both are told they were last |
| `PollEngine.ErrorIsRecovered` | 2 processors, 1 upset | as above | the other read had completed well: nobody queues it |
| `CoreChains.ProbeIsRetried` | `MC_ProbeStuck` | "Give up and let a later poll try again." (`core.c:2036`) | `AdaptoidVendorComplete` drops the callback of a failed transfer (`wdm.c:733`), the probe is never told, `accessory_state` stays PROBING and input stays gated |
| `CoreChains.NextOwnsCompletion` | | "Which step owns the completion of the transfer now in flight." (`core.h:489`) | a refused tick overwrites `effect_next` of the transfer in flight |
| `CoreChains.OwnerIsIssuer` | | "A REFUSED SEND MUST NOT CHANGE THE OWNER" (`core.c:1235`) | a preempted request restores an owner that is out of date |
| `ReportPath.ReportsInOrder` | | "serving it first keeps reports in order" (`wdm.c:2471`) | a sink scans before a read parks and appends after: the next report overtakes |
| `ReportPath.CancelHoldsExclusively` | | "this routine holds the request exclusively" (`wdm.c:2377`) | a sink that unlinked the IRP exchanges its routine after the cancel routine completed it |
| `ReportPath.RemovalFailsParkedReads` | | "Fail every parked read. The device going away does this." (`wdm.c:2446`) | it runs after the RemoveLockB wait, which only ends when nothing is parked |
| `VendorSlot.WokenWhenOver` | `MC_VendorWake` | the waiter waits for "this transfer is over" (`wdm.c:759`) | the slot is freed before the event is set: the next caller is woken early |
| `VendorSlot.NothingBetweenHalves` | `MC_VendorBetween` | "nothing can come between the two" (`ioctl.c:1591`) | the slot is freed, or passed on, and claimed again |
| `VendorSlot.RemovalEnds` | `MC_VendorUnload` | the rollback exists so that the driver can be unloaded (`wdm.c:657`) | `AdaptoidQueryFirmwareInfo` waits for a transfer that was never sent |
| `VendorSlot.OnlyClaimantSubmits` | 2 processors | "Only a caller that already claimed the slot may submit." (`wdm.c:630`) | `core_tick` submits on somebody else's claim |
| `VendorSlot.ClaimIsHeld` | 2 processors | "hand the slot on rather than holding it" (`core.c:1459`) | nothing deferred either: the slot stays CLAIMED with nobody |
| `VendorSlot.NoCompletionDropped` | `InlineFailures = TRUE` | "THE TRANSFER NEVER REACHED THE BUS" (`wdm.c:652`) | an error completed inside `IoCallDriver` is rolled back twice |
| `VendorSlot.DeferredIsPickedUp` | 2 processors | "the completion path picks it up" (`wdm.c:514`) | the completion comes between the refusal and the flag |
| `CommandChannel.LandsWhereWaited` | | "It is saved and put back, which is why this works at all" (`ioctl.c:1567`) | the slot is freed before the event is set (`wdm.c:747`, `761`): the late event of one transfer wakes the next call, which puts its command byte back while its own transfer is out, and the status of that lands on the byte afterwards. One client and the core suffice |
| `CommandChannel.ClaimHasUser` | | "relies on the transport to release it" (`core.c:1910`) | `core_n64_transaction` claims the slot, `AdaptoidCoreVendorSync` finds it claimed and refuses: the transfer is never made and the claim stays |
| `CommandChannel.PresenceIsReported` | | the identify answer is kept as the accessory's presence (`ioctl.c`, `core_cmd_process`) | a reply that was not delivered is kept too |
| `CommandChannel.UnmarkedIsAnswered` | | an unmarked entry has its reply (`ioctl.c:1556` calls a busy slot silent) | a busy slot leaves the client's own bytes, unmarked |
| `CommandChannel.EchoIsOwn` | | "The controller echoes the CRC it computed; they must agree." (`ioctl.c:315`) | between the two halves of a write another transaction can go out: the echo that is fetched, and compared, is that of the other |
| `CommandChannel.CommandsComeBack` | `ChannelClients = {c1, c2}`, `Blocks <- MCSharedBlocks` | one block per channel (`ioctl.c:1839`) | two writers share it without a lock |
| `CommandChannel.GoFlagIsKept` | `Blocks <- MCEdgeBlocks` | the block keeps its go flag, so that every read runs it again (`ioctl.c`, `core_cmd_read`) | a reply at the end of the block overwrites it |
| `InputReports.SnapshotMissesNothing` | | report_pending is "cleared by the snapshot call" (`core.h:616`) | a packet between the read and the clear is cleared unseen |
| `InputReports.KeysNeverStick` | | what a script holds is let go when it is replaced (`sched.c:367`) | the clear of the table and the report are separate steps, and `core_reset` forgets the table |
| `InputReports.VirtualReplaces` | | "real reports are dropped" (`core.c:1780`) | `core_on_raw_packet` emits its report itself (`core.c:434`) and never asks `core_submit_joystick`, the only one that looks at the mode |
| `InputReports.MirrorsAgree` | | "the OS layer mirrors it into each device" (`core.h:656`) | an adapter added during the sweep misses it |
| `InputReports.OneMapPerReport` | | a driver-wide map is written through (`ioctl.h:434`) | a packet is decoded while the map is half copied (`ioctl.c:1097`) |
| `InputReports.RequestKeepsAdapter` | | the walk of the registry (`ioctl.c:1093`) | the adapter leaves the list under it |
| `InputReports.StickIsThePackets` | | "only a script that owns the stick keeps it" (`core.c:419`) | between the restored stick and the pack another packet, or the script's timer on another processor, writes it |
| `InputReports.ReportsDeclared` | `Scenarios <- MCOddDevices` | "A report for a collection the descriptor does not declare is dropped rather than sent." (`core.c:140`) | the gate tests the mask: with masks 2 to 5 it lets keyboard or mouse reports out that the descriptor does not declare |
| `InputReports.EnumerationComplete` | `AddressReused = TRUE` | a handle is the extension's address (`wdm.c:3550`) | a new adapter at an old address is passed over |
| `EffectRing.AgreedIsOnMotor` | `Grace = 2`, `UrbRefused = FALSE` | "the next verify pass would then compare against a window the controller never received" (`core.h:273`) | `core_tick` evaluates and is refused the slot: the ring moves on without a transfer |
| `EffectRing.RingIndexedByTick` | `Overlap = TRUE` | "the tick ring_head stands for" (`core.h:571`) | a DPC evaluates between two ticks of a request |
| `ScriptVM.NeverAstray` | `VarCount = 11` | "the single check that makes an unvalidated var_count safe" (`script.h:169`) | the size of `vars`, `(var_count + 200) * 4` in `u32` (`sched.c:509`), wraps for a `var_count` near 0x40000000: the load gets a few words and clears `var_count` of them, before any index is checked |
| `ScriptVM.OnlyTheFrameIsRead` | | "Nothing reads them - the interpreter only touches [0, sp)" (`sched.c:592`) | a local operand reaches every slot of the frame |
| `ScriptSched.OnePass` | `MC_SchedOnePass` | a call while a pass is in flight returns (`sched.h:316`) | `running` is tested and set by two processors |
| `ScriptSched.NoLoadInPass` | 2 loads | "a load while a pass is running cannot happen" (`ioctl.c:378`) | the pass starts after the load looked |
| `ScriptSched.NothingReachesIt` | | "nothing can reach it" (`wdm.c:368`) | a timer set after the first cancel expires before the second |
| `ScriptSched.TimeCreditedOnce` | | "credits it with the real time that has elapsed" (`sched.h:21`) | passes carry different clocks, `sched_time` goes back |
| `ScriptSched.FaultAlwaysAnnounced` | | else "the fault would sit uncollected" (`sched.c:709`) | a full event ring drops the announcement |
| `ControlDevice.OnePump` | | "keeps exactly one pump in flight" (`ioctl.h:290`) | the latch is tested and set without a lock |
| `ControlDevice.NoWaitWithoutAdapter` | | "refused rather than parked forever" (`ioctl.c:1273`) | the last adapter leaves between the test and the parking |
| `DeviceLifecycle.BusOwnsReads` | | "That ordering is what keeps the poll loop from touching USB resources the bus driver has already reclaimed" (`wdm.c:1139`) | a completion that looked at the mask before the stop sends its read again after the abort |
| `DeviceLifecycle.AsleepIsPoweredDown` | `MaxTransitions = 3` | the driver maps states "out of the DEVICE_CAPABILITIES it fetched at start" (`wdm.h:448`) | nothing fetches them; with a wake pending the map answers 0 and the adapter stays in D0 under a sleeping system |
| `DeviceLifecycle.RunningIsReady` | | requests are taken by a started device (`AdaptoidIsDeviceReady`) | neither STOP nor START clears `StopPending` (`wdm.c:1195`) |
| `DeviceLifecycle.NothingLost` | | failures are propagated "with the buffer released" (`wdm.c:1437`) | a second START overwrites the descriptor and interface pointers; a refused AddDevice forgets the interface name (`wdm.c:307`) |
| `DeviceLifecycle.RemovalEnds` | `MaxRefusals = 1` | the completion releases the lock (`wdm.c:3000`) | a refused `PoRequestPowerIrp` leaves the system IRP parked and RemoveLockB held |
| `DeviceLifecycle.WakeIsCompleted` | | "The wake has happened, or the request was cancelled" (`wdm.c:2958`) | the IRP taken back by the completion routine is not completed again |
| `DeviceLifecycle.LiveIsOnBus` | | "Take the device off the registry first so nothing new can find it" (`wdm.c:339`) | the row stays live until the device is unwired |

The topology `HubNaming` walks is a seam that is "Filled at AddDevice" (`wdm.h:744`) by nobody
in `src_drv/`: in the driver as built every name is `?`. The model gives it the kind of
topology the harness does, the theorems any.

The modules also state, and TLC confirms, invariants that no run lists: `TypeOK` of each
older module, `IdleIsArmed`, `PassEnds`, `TeardownEnds`, `CleanupReleasesParked`, `DeviceIsDeleted`, `CarryStaysInRange`, and `RemovalEnds`
of `ReportPath` and `PollEngine`; and nine that are proved: `CompletedOnce` of `ControlDevice`,
`ReportsAccounted`, `ReferencePerParkedRead`, `ReferencePerTransfer`, `ProbingIsOut`, `MachineInRange`, `ReadySorted`, `FaultIsAnnounced` and
`KeysGoWithScript`.

## 6. Not modelled

The size checks of `core_ioctl_dispatch` and the settings it copies in and out without
acting on them; `core_hid_ioctl` and the descriptor tables (constants copied out with a
length check; which collections they declare is in `InputReports`); driver entry and the
dispatch routines that only choose a handler or pass an IRP down; the URBs themselves.
`DeviceLifecycle` runs one topology (three controllers, hubs three deep, one of them dead) and takes
the firmware query as answered. The harness, the kernel stubs, tools
and documents are not part of the running system.

## 7. Plan

Done, in this order: `RemoveLock` and `DrainGate` with their proofs; `ReportPath`;
`PollEngine`; `VendorSlot`; `ControlDevice`; `ScriptSched`; `CoreChains`; then
`EffectSynthesis` and `EffectRing`; `ScriptVM`; `PakCrc` and `CommandChannel`;
`InputReports`; `HubNaming` and `DeviceLifecycle`; then the proofs of `VendorSlot`,
`ReportPath`, `PollEngine`, `ScriptVM`, `DeviceLifecycle`, `CoreChains` and `ScriptSched`;
then `ReadService` and the refinement from `ReportPath`; then the proofs of `EffectRing`,
`InputReports` and `CommandChannel`; then those of the Pak requests and the checksum under
them, of `ControlDevice` and of `HubNaming`. Every safety property of a run is now a theorem.

Next, most important first:

1. `CommandChannel` as a user of `VendorSlot`: the slot of the former, whose sections are those
   of the latter, as a refinement of it.
2. The bounds of `EffectSynthesis` (`CarryStaysInRange`, the soft sum), by the induction that
   carries the checksum and the hub walk: a least counterexample, and a recursive function
   unfolded from the existence of its run (`RecursionRuns`).
3. An action property for the notification ring of `ControlDevice`, once stated.

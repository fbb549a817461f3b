# A TLA+ model of the LZ210 command station

This directory holds a formal model of the Version_2 firmware
(`Version_2/LZ210/`): TLA+ modules translated from the C++ sources, TLC
configurations that check them on small instances, and theorems about them that
TLAPS checks for every instance. Paths below are relative to `Version_2/LZ210/`;
`dcc_hal.cpp` stands for `src/dcc_hal.cpp`, and so on.

Contents: 1 the system, 2 its hard behaviours, 3 the modules, 4 the runs,
5 fairness, 6 the proofs, 7 disagreements between code and comments, 8 other
observations, 9 what is not modelled, 10 how to run it.

## 1. The system

An RP2350 with two cores drives a DCC track. **Core 0** (`loop()` in `LZ210.ino`)
does what has to be in time: the stall check on core 1, `CommandBus::poll()`,
`DccHal::loop()` (short detectors, automatic restart, resending of dirty locos,
service mode) and the RS feedback bus. **Core 1** (`loop1()`) runs the protocols:
XpressNet (RS485, USB, LAN), LocoNet (UART and TCP), Z21, the web server, and
`EventBus::poll()`. Nothing preempts a core; the two cores interleave freely.

They talk through four things:

* **CommandBus** (`command_bus.cpp`): a ring of commands from core 1 to core 0.
  On core 0 `dispatch()` calls the handlers at once.
* **EventBus** (`event_bus.cpp`): a ring of events from core 0 to core 1, where
  the protocol modules turn them into broadcasts.
* **gCentrale**: a struct of plain fields both cores read and write
  (`trackPowerOff`, `shortCircuit`, the service-mode result).
* **LocoRepository**: the table of locos, guarded by a spinlock with a time limit
  (though not on every path).

| Component | State | Operations | Correct if |
|---|---|---|---|
| CommandBus | ring, `_head`, `_tail`, drop log | `dispatch`, `poll`, `getRecentDrops` | a bounded FIFO: nothing lost, repeated, torn; a full bus refuses and logs |
| EventBus | ring, `_head`, `_tail` | `publish`, `poll` | the same |
| DccHal, power | `_power`, `_restartPending`, `_restartCount`, `_lastRestartMs`, rail shadow | `setPower`, `emergencyStop`, `_onGuardShort`, `_autoRestart`, `_checkCdeShort` | power comes on only when asked for or by a justified, bounded restart |
| Stall check (`LZ210.ino`) | `sTripped`, heartbeat | `_checkCore1Stall` | a hung core 1 loses power, and nothing on core 0 gives it back |
| DccHal, service mode | `_serviceModeRequested`, output enables | `cvRead`, `cvWrite`, `_exitServiceMode`, time limit | sessions end, the layout is isolated meanwhile and on again afterwards, clients hear the outcome |
| DccHal, locos | owner table, `_inEmergencyStop` | `setSpeed`, `_noteOwner`, `_stopLocosOf`, `_processDirtyLocos` | track and repository agree in the end; a lost client's locos stop, no others |
| LocoRepository | entries with dirty flags, spinlock | `findOrCreate`, `nextDirty`, `release`, `clearAll`, lock | every change reaches the track; entries are consistent |
| SlotServer, LocoNetModule | slots, track status, transmit queue | OPC handlers, `_cmdHandler`, purge | protocol of slots; queue neither loses nor repeats |
| XpressNetHandler | none but gCentrale | one handler per request | a request either takes effect or is refused as a whole |
| LenzLan, Z21Lan, LnTcp | client tables, buffers, time-outs | accept, receive, time-out, broadcast | a client is freed once; its locos stop exactly if it was lost |
| XpressNetRs485, LenzUsb | presence of handhelds, frame buffer | polling, frame reassembly | silent devices leave the poll and return |
| HBridgeGuard, NFaultSource | normal, inrush, pulse, shorted; edge queue | `update`, edge interrupt | a lasting short is found, an inrush is not taken for one |
| RsBusHal | feedback cache, watchdog | `loop` | each change is published |
| EepromStore | table, dirty flag, quiet timer | `set`, `commit` | a committed value survives |
| ModuleRegistry, Webserver, TraceLog, monitors, LEDs | | | see section 9 |

## 2. What is hard here

The list with lines is in `PROJECT.json`, "hazards". The themes:

* two cores on one ring, with indices published without locks, and rings at their
  limit;
* a fact in two places: `_power` and `trackPowerOff`; the rail shadow and the
  library; the repository and the track; `progModeActive` and the session;
* **two ways to the track**: a drive command is written to the repository (dirty)
  *and* dispatched, in no fixed order on core 0, and either way may fail alone;
* timers that fire after their reason is gone: automatic restart (also during a
  programming session), stall check, service-mode limit, lock time-out;
* a heartbeat per module call: one call may hang, go on and hang again, and the
  stall check trips once only;
* refused commands and lost events half way through a handler;
* tables and flags that one core changes without the lock the other one holds
  (`LocoRepository`, `EepromStore`, the RS feedback table);
* messages that come back: the echo of an own LocoNet request, the feedback that
  has been reported before, the dispatch of a slot;
* peers that fall silent, stall, or come and go: TCP and UDP clients, handhelds;
* an interrupt that records edges for a loop that may be late (`HBridgeGuard`);
* counters and tables at their limit: restart attempts, owner table, drop log.

## 3. The modules

| Module | Models |
|---|---|
| `RingIndex` | `(i + 1) % SIZE`, used by both buses |
| `BusSpec` | the abstract promise of a bus: a bounded FIFO that may refuse only when full |
| `CommandBus` | `command_bus.cpp`, one action per access to shared memory |
| `EventBus` | `event_bus.cpp`, the same, with the publishing cores as a parameter |
| `TrackPower` | power, shorts, restarts, the stall check, and the handlers of power requests |
| `HBridgeGuard` | the guards of the H-bridges and their edge queue, tick by tick |
| `ServiceMode` | programming sessions and results |
| `LocoDrive` | drive commands, dirty entries, owners, lost clients, emergency stop |
| `LocoTable` | the entries of `LocoRepository` and their dirty flags, access by access |
| `SpeedSteps` | the conversions between canonical speeds and 14 or 28 steps (pure functions) |
| `SlotServer` | LocoNet slots in the entries of the repository, and their announcements |
| `TurnoutRelay` | turnout requests, their execution and their echo on LocoNet |
| `LenzLan` | the XpressNet server on TCP: its table of clients |
| `Z21Clients` | the Z21 server on UDP: its table of clients |
| `FeedbackPath` | feedback from the RS-Bus to the TCP clients |
| `Rs485` | which handheld is called next |
| `EepromStore` | the settings and their file |
| `*Proofs` | the theorems about a module |
| `MC*` | the instances TLC checks, with their `.cfg` |

How state and actions correspond to the code is in `PROJECT.json`, "map", definition by
definition. In general: variables carry the names of the members they stand for (a
leading underscore dropped), an action is a handler or one pass of a loop, and it is
split where the other core can come in between. History variables are marked as such
where they are declared; guards read them only to bound the number of requests or to
keep to one request at a time.

**CommandBus, EventBus.** `_push()` is `PushTest` (read `_tail`, compare),
`PushWrite` (fill the slot), `PushCommit` (store `_head`); `_pop()` is `PopTest`,
`PopCopy`, `PopAdvance`. Every store is visible at once: the Cortex-M33 cores share
uncached SRAM, and the compiler's reordering is outside the model. `accepted` and
`delivered` are history variables, against which the invariants compare the ring.
Commands and events are opaque.

**TrackPower.** `pc0` walks through the phases of `loop()`: stall check, poll, CDE
detector, guards. A phase is atomic except that each queued command is a step, so
that core 1 can interleave. A handler on core 1 sets its gCentrale fields in one
step (`Receive`) and leaves the rest, dispatch and publish, in `todo`. Commands that
core 0 dispatches itself reach their handlers synchronously and are inlined.
Core 1 may hang between any two of its steps, and resume there: a call that
hangs, dispatches something and hangs again is one call, and only its return is a
heartbeat (`Heartbeat`). `beat` is the age of the heartbeat as core 0 sees it: new, old
once the stall check has run in a hang since, late when the limit is over.
`offCause` is history: what switched power off last; a cut by the stall check lapses
when core 1 moves again. Time is abstract: `restartDue`, `quiet` and `beat` change at some
moment after their start; two timing facts are used and named in comments:
the 2 s stall limit is far longer than a pass of core 0, and 10 s do not pass on a
shorted track before the guards act.

**HBridgeGuard.** One level below: what makes `GuardShort` of `TrackPower` happen. Each
bridge has a guard (normal, ignore, watch, inrush, verify, shorted); an interrupt
puts edges into a ring; `update()` works them off when `loop()` comes round, which may
be late by several ticks. Moments are kept as ages, so that time is bounded. All bridges
share one inrush pattern, and service mode hands it from one bridge to another.

**ServiceMode.** Operations are numbered; a CV and its value are represented by the
number, so an answer with another number is somebody else's. The five stores
of `_exitServiceMode()` are separate steps. The DCC library is external: it may answer or
stay silent, and a second operation may displace the first. Track power is switched by
POWER_ON and POWER_OFF commands and by core 0 itself (`StallTrip`, `CdeShort`,
`GuardShort`, `AutoRestart`, all through `SetPower`), also during a session. When a
short, a stall or a restart comes is left open; why it comes is `TrackPower`. `revived` is
history: power was switched on during this session.

**LocoDrive.** A handler is: write the repository, dispatch. `SlotServer` holds the
lock across both (`lock = "short"`), a web page holds it for long
(`lock = "long"`, the waiting core may time out). Speeds are canonical (0 stop,
1 emergency stop, others running). The loss of a client stops its locos here
(`xn.lan_lost_action` 1) and switches power off in `TrackPower` (action 2). Nothing in
the sources dispatches `LOCO_ESTOP`, so it is left out.

**LocoTable.** The same repository one level lower. Core 0 takes the spinlock and
reads and clears `_dirty`, `_dirtySpeed` and `_dirtyFn` one by one, copies the entry,
unlocks and sends. Core 1 changes an entry under the lock in one step (`updateLoco()`,
`_writeSnd()`), but `updateLocoFunctions()` and `release()` take no lock, so each of
their accesses is a step that may fall into core 0's critical section. Only the dirty
entry is a way to the track here; the command is `LocoDrive`'s.

**SlotServer.** Slots are fields of the repository's entries. Every handler runs on
core 1 and is one step; a slot report goes through a transmit queue whose length
is kept, and is dropped when it does not fit. `told[s]` says whether the last report of
slot s that was accepted is still true. Other modules create, delete and clear entries
at any time.

**TurnoutRelay.** A request is dispatched, executed on core 0, published back, and put
on the LocoNet wire, from which the station receives it again; `_handleSwReq()` must tell
that echo from a request of another device by one remembered request and one second.

**LenzLan.** `loop()` accepts one connection, serves the places of the table in order
and checks the time limits; serving a place is a loop over the frames in its buffer.
Bytes are halves of frames, so that a frame may be incomplete, overflow the buffer or
grow too old. The peer may close, die or stop reading at any moment, also between two
frames of one pass.

**Z21Clients.** An action is a pass of `loop()`: at most one packet, then
`_checkTimeouts()`. A peer enters by its first packet, even a malformed one.

**FeedbackPath.** The filter of `RsBusHal::loop()` on core 0 (compare, store, publish are
separate steps) against the resets that `onEvent()` and a web page do on core 1, and
clients that connect at any moment and are told everything the library holds.

**Rs485.** A pass calls one address and picks the next: round the present ones, a probe of
an absent one every eighth pass, and only the programming one while there is one.

**EepromStore.** Both cores write the whole table, setting by setting, and clear `_dirty`
at the end, without a lock; a reset in the middle leaves the old file.

## 4. The runs

Several models that share no variable are checked side by side in one run: a variable
`part` is chosen in the initial state and says which of them moves, while the others
stay where they begin. The state space is the sum, not the product, and every
property is checked on every part it speaks of.

Passing runs (bounds are in the `.cfg` files and the headers of the MC modules):

| Run | Parts and question | Bounds and why they suffice |
|---|---|---|
| `paths` | `CommandBus`, `EventBus` (core 0 publishes): are the rings FIFOs under every interleaving, do they deliver? `TurnoutRelay`: is the last request carried out, do echoes stop? `Rs485`: is a present handheld called again? `ServiceMode`: is the layout isolated and restored, do sessions end, are clients answered? | 3 slots, 5 messages: empty, full, wrapped. 2 turnouts, 3 requests of clients and devices, one at a time (section 8). 3 addresses, probes every other pass, a miss count that wraps. 3 programming and power requests on a bus of 2, so that one may be refused, with a silent library and all faults: a short, its restart and a stall fit into one session |
| `track_power` | `TrackPower`: restart, stall check and shorts with all faults. `HBridgeGuard`, alone and as a pair: pattern, charge time, lasting faults | 2 attempts, 2 requests, an event bus with one place shared with feedback: it is full most of the time. Times of 1 to 4 ticks and a `loop()` up to 2 ticks late, so that each limit may pass before, with and after an edge |
| `loco_drive` | `LocoDrive` three times: a lost client's locos stop, others do not (`clients`), also with a table of owners that is recycled (`crowd`); and, with every other disturbance, does the track end up as the repository says (`repo`)? | 2 locos, 4 requests: drive, lose, take over, drive again (3 in `crowd`: two modules drive, one is lost). A bus of 3 or 2 and an owner table of 2 or, in `repo` and `crowd`, 1 entries, which is recycled |
| `slots` | `SlotServer`: one loco per slot, throttles informed, dispatch | 3 locos, 3 entries, 2 slots: slots run out while there are entries left. A queue of 4 holds one report and a half |
| `clients` | `LenzLan`, `Z21Clients`, `FeedbackPath`, `EepromStore`, `LocoTable`, and `TrackPower` with the power requests of three modules | 2 connections for 2 places, each with up to a frame; 3 UDP peers for 2 places and a limit that changes; 2 clients, one decoder with 2 values; 2 settings of both kinds; 2 locos in 2 entries, 4 requests with deletion; 4 power requests: two on/off pairs can cross |

Each passing property has a mutant in `PROJECT.json`: a plausible bug, defined beside the
operator it replaces and marked as a bug, under which TLC finds the property violated.

Some properties carry exemptions that say where the code promises less:
`TrackFollowsRepo` leaves out locos halted by an emergency stop (the repository keeps
the old speed), released ones, and locos of which one queued command was overtaken by a
resend *and* another was refused or found power off, or a stop for a lost client was
written over it (`crossed`, section 8): there the older command is executed last and
nothing is dirty any more. `LostAreStopped` is `LostLocosStop` in the parts `clients` and
`repo`; it leaves out locos driven again, and those skipped because the lock timed out.
The part `repo` loses no client, and `crowd`, whose table forgets owners, is there for
`OthersCarryOn`. `StallHolds` is the part of `StalledMeansOff` the code achieves: it is
about power that the check itself has cut, until core 1 moves or a POWER_ON it had queued
is taken from the bus. Not covered by it: power that was off when the check tripped
and comes on by a pending restart (`MCPowerStallRestart.cfg`), and the queued command
(`power_stalled`). `StallCutsPower` speaks of every hang that begins before the limit has
passed since the last heartbeat. `IsolatedUntilPowerOn` is the part of `MainIsolated` the
code achieves: the main outputs are off in a session until power is switched on. `WrittenIsSent` speaks of what was written
under the lock. `BusKnows` leaves out the changes nobody announces (`leaked`).
`PowerAgreed` is checked without faults and with an event bus that has room; with either
it does not hold (`MCPowerFlag.cfg`, `MCPowerNews.cfg`).
`PatternOwned` and `ChargeTime` are checked for the guards of both tracks (the part
`pair`), without a POWER_ON while power is on (`inrush_power` is the run with it).

Violation runs (section 7): `event_bus_two`, `inrush_power`, `power_stalled`,
`service_torn`, `loco_estop`, `rs485_discovery`, `functions_lost`. Each switches on just
what its cause needs. Configurations that are kept beside them for sections 7 and 8, each
with a counterexample: `MCPowerStallRestart.cfg`, `MCPowerFlag.cfg` and `MCPowerNews.cfg`
(module `TrackPower`), `MCServiceMain.cfg` (`ServiceMode`), `MCSlotClaim.cfg`
(`SlotServer`), `MCLocoFlags.cfg` and `MCLocoStray.cfg` (`LocoTable`).

Deadlock is checked except where the bounded number of requests lets everything come to
rest (`paths`, `clients`, `slots`, `event_bus_two`, `inrush_power`,
`rs485_discovery`, `functions_lost`). In the other models core 0 loops for ever.

## 5. Fairness

* Each core is weakly fair: it is a loop without blocking operations. Core 1 is
  not fair while it hangs (its actions are disabled then), and `Resume` is not fair at
  all, so a hang may last for ever.
* Requests, shorts, feedback, answers of the library, of handhelds and of peers are
  never fair: nothing obliges them to happen.
* Clocks advance: `RestartFalls`, `BecomeLate`, `Expire`, and `TickAny` of
  `HBridgeGuard`, which is strongly fair because a loop that is as late as it may be
  stops the clock again and again.
* `SF(GuardShort)`: a guard that sees a lasting short again and again reports it at
  some time. `GuardQuiet` may come first any number of times, because detection takes
  many passes of the loop. `FaultCutsPower` of `HBridgeGuard` is the evidence: there a
  lasting fault always ends in a verdict, from the ticks and the loop alone.
* In `ServiceMode`, `SF` on the poll of a client that waits for a result: clients repeat
  `handleProgResult()` requests; a poll is enabled only while a result is ready.
* `TurnoutRelay`: `Carry`, that is both cores and the wire; `Rs485`: `Loop`.
* In a run of several parts each part has the fairness of its own model for its own steps.

## 6. The proofs

All hold for every value of the constants under the named assumptions (sizes are natural
numbers, a ring has at least two slots and the repository one entry, model values are
distinct). Every invariant and every action property of a passing run has a theorem; what
has none is named at the end of this section. A theorem that
needs more than the assumptions of its modules says so in its statement, and below. In
a module with several parts, a theorem about the specification of the whole is that of
the part: the others stand still.

**PathsProofs**. Of the command bus: `TypeCorrect`, `NoRace`, `BacklogSafe`,
`DropLogSafe`, `BusImplemented` (the refinement of `BusSpec` with `RingSize - 1` places).
The inductive invariant says where the indices may be in each phase of a push and a pop,
that the slots between them hold the accepted and undelivered commands in order, and the
same of the drop log. Without the phases the backlog is not inductive: between
`PushWrite` and `PushCommit` a slot holds a command that does not count yet. The drop log
is proved only, no run checks it. Of the event bus, with core 0 alone publishing as
`event_bus.h` says: `EventsImplemented`, the refinement of the same `BusSpec`, along the
same lines; `event_bus_two` is the counterexample with two. Of the turnout relay:
`LastCommandObeyed`, for any turnouts and number of requests, with one request at a time
(`OneAtATime`, section 8). Its invariant `Travels` says which of the queues the one
request under way is in, and that elsewhere nothing is left of an earlier one; `EchoRight`
that what `_handleSwReq()` takes for its own echo is the request that was carried
out last. `PathsTyped` is the types of the rings, the relay and the polling of handhelds.

**TrackPowerProofs**, the cores: `TypeCorrect`, which contains
`restartCount <= MaxRestart`, `RestartSafe`, `PowerOnSafe` and `StallSafe`. The types alone
are not inductive: a restart adds one to the count, so it must be known that an attempt was
left, which is `RestartJustified`. For `StallSafe` the invariant is strengthened by
`CutByStall`: while the last power-off is the check's, core 1 hangs and no POWER_ON is
on the command bus (`NoneOn`), and by `RestartJustified` no restart is pending. `offCause`
is "stall" only if core 1 hangs and no POWER_ON is queued when the check cuts the power
(`StallCause`); the other case is `power_stalled`, and the theorem does not speak of it.

**TrackPowerProofs**, the guards: `PatternSafe` and `ChargeSafe`, for any set of bridges,
all times, any ring of edges, any delay of `loop()` and any number of service mode
sessions; TLC has times of one or two ticks. `PatternOwned` is not inductive. Two guards may
be in their inrush phase at once, and the first to leave it would take the pattern from
the other. That this does no harm rests on the order of the guards in a pass: `GuardsInv`
says that both are in the phase only just after service mode has ended, between the turn
of the main track's guard and that of the programming track's, which then finds that it
may no longer charge and leaves (`Both`, `MainFirst`); that a guard of the programming
track in the phase has the pattern (`ProgHasPattern`); that a guard that cut the power ends
the pass (`CutOff`); and, for `ChargeTime`, that a guard in the phase is no older than the
pattern as long as service mode has not changed (`WholeTime`). The proof first shows what
a guard can come to in its turn, whatever its counters, chains and times are: it is
still charging, was not and is not, begins, or has ended and the pattern with it
(`Outcome`); the four ways then keep the invariant (`StillCharging`, `StillNot`,
`BeginsCharging`, `EndsCharging`, `PowerCut`).

**ServiceModeProofs**: `MainRestoredAlways`, `ProgModeBacked`, `TypeCorrect`,
`IsolatedSafe`, which **PathsProofs** brings to the specification the run `paths` checks
(`ServiceRestored`, `ServiceBacked`, `PathsTyped`, `ServiceIsolated`). The first needs
`main => power`; the second that programming mode always has a reason that will end it: a
handler before its dispatch, a queued operation, a session, or the end of one. The last
holds for every way power is switched, by commands or by core 0.

**LocoDriveProofs**: `OthersSafe`, `TypeCorrect`, `LostStopped`, `TrackRight`, for any
locos, command bus, owner table and number of requests, with any of the features. For `OthersSafe` the owner table may be smaller
than the set of locos and is recycled round-robin; the invariant is that each entry is
the only one of its loco and names the module that drove it last. `LostStopped` has the
hypothesis `AllKept`: the table, of 64 entries in the code, has a place for every loco,
and no entry of the repository is released. Both are needed: a loco whose owner was
recycled, or whose entry was released, is not found and runs on (section 8). Its
invariant follows a loco from the loss of the client: it is further down the table,
or stopped in the repository with the stop marked, copied out or on the track.
`TrackRight` needs no hypothesis. Its invariant says, for each loco, where the speed the
repository shows still is: a speed not yet dispatched, or last in the queue, is the one
shown, unless one was refused since or the loco was stopped for a lost client; while one
waits the entry is marked or copied out, unless a resend has overtaken it; what is copied
out is current or the entry is marked again; and the track is right, or will be
(`CurCurrent`, `LastCurrent`, `WaitingMarked`, `CopyCurrent`, `OnItsWay`).

**StationsProofs** brings these theorems to the specification the run `loco_drive` checks,
three stations side by side: `StationsTyped`, `StationsFollow`, `StationsCarryOn`,
`StationsStop`, for any locos and, but for `crowd`, number of requests. One station has the
constants of the run, the others their own features, bus and owner table; `Re` and `Cr`,
instances of `LocoDriveProofs`, have the theorems about the latter. Which station runs
never changes (`OneRuns`), so a behaviour of the three is one of the station that runs.
`StationsStop` keeps the hypothesis `AllKept` for the first station only. The second
releases entries and has a table for one loco, but no client that is lost, so that no loco
is ever to be stopped (`NothingToStop`). The third is exempt in the property.

**ClientsProofs**, a part of the run `clients` each:

* `PlacesRight` (`LenzLan`): places are left in six ways, most of them deep inside
  something else. `DropKeeps` says what they have in common: some places are left, the
  count goes down by as many, and those that did not close themselves are reported
  lost. The invariant adds that a place in use is that of one connection, which was made.
* `SettingsKept` (`EepromStore`): what core 0 has written of its new file is what the table
  holds, but for the settings in `late`; core 1 changes nothing while it writes its own.
* `PowerTold` (`TrackPower`): under the hypothesis `RoomLeft`, neither bus is ever full,
  and as in the run no faults. The flag says what the last switching command asks for, be it
  still to be dispatched, on the bus or done; what clients were last told, or are going
  to be, is what the track is, or a command is on the bus that will change it.
* `LockedWritesSent` (`LocoTable`): for each entry and each of its two marks, in which phase
  of `nextDirty()` and of the unlocked accesses of core 1 the value still is on its way
  (`SpeedDue`, `FnDue`).
* `FeedbackKnown` (`FeedbackPath`): what the library knows of a decoder is the last of
  what is still to come, or what was sent; and what a client knows, or is about to be told,
  is what was sent, or there is news (`Latter`, `Informed`). A decoder that has not
  reported since the power came on has the mark that lets its next report through.
* `SubscriptionSafe` (`Z21Clients`): of the limits it is assumed only that there is a
  longest one, as there is for a 16-bit setting. That a time-out drops nobody who is in
  touch needs to be known from the row, so the invariant adds that the row of a peer in
  touch is exactly as old as its last packet, and that every other row has the flags of a
  new one (a bad packet may have made it, and the next good one takes it over). A pass
  changes the table twice, for a packet and for the limits: `EnteredFine` and `LimitsKeep`
  are about these two ends, and the actions differ only in what they do in between.
* `ClientsTyped`, of all six: the types of the variables that the theorems above do not
  speak of. Most bounds are not inductive alone. The parser of `lenz_lan.cpp` is never
  ahead of what was read, nor that of what was sent; that the number of clients is at most
  `MAX_CLIENTS` is known only because it is the number of places in use
  (`PlacesAccounted`). An index of an entry is taken to exist also before the first is
  made, hence the assumption that `LOCO_REPO_SIZE` is not zero.

**SlotServerProofs**: `TypeCorrect`, `SlotsSafe`, `BusTold`, `PutSafe`. The inductive
invariant is types, `SlotsDistinct`, `Clean` (an unused entry holds no slot) and
`BusKnows`; without `Clean` a new entry could inherit the slot of a deleted one. Most
handlers change one entry and announce one slot, so the proof first shows two facts
about any step: if every entry keeps or gives up its slot (`Shrinks`), slots stay
distinct; if every entry that changes in a way throttles can see has its slot
announced or counted as silent (`Noted`), `BusKnows` stays. The handlers are then
brought under these two. `PutSafe` adds that a loco that is put up stays in the slot that
`_lastDispatchedSlot` names until something changes it. That `findFreeSlot()` and
`findBySlot()`, which return the first match, return one at all follows from the
well-ordering of the indices.

**SpeedSteps**: `StepKept` (the step asked for over XpressNet is the one that decoder and
clients get), `OnlyStopsStop` (a running speed is never sent as a stop code, a stop
always is), `ScaleMonotone`, `ShuffleInverse`. These are about pure functions and have no
run.

Only model-checked: everything about liveness (`BothDelivered`, `StallCutsPower`,
`LastingShortEndsOff`, `SessionEnds`, `Answered`, `FaultCutsPower`, `RelayComesToRest`,
`PresentCalled`), which needs fairness and ENABLED and is beyond the prover. The guard
alone on its bridge (the part `lone`) is there for `FaultCutsPower`. No module declares a
RECURSIVE operator.

## 7. Where the code and its comments disagree

Each has a run with a counterexample and an entry under "findings":

1. `event_bus_two`: `event_bus.h` documents one producer, but SlotServer publishes
   from core 1; two overlapping pushes share a slot and one accepted event is gone.
2. `inrush_power`: a POWER_ON while power is on resets the guards but leaves the inrush
   pattern on; the power-off that follows does not end it either.
3. `power_stalled`: the stall check trips once per stall and before the poll of the same
   pass. A module call that hangs, comes back to dispatch a POWER_ON and hangs again is
   cut and then switched on by the queued command; the track stays on with core 1 hung
   until the watchdog.
4. `service_torn`: `progResultReady` is stored before the fields it stands for.
5. `loco_estop`: a dirty entry from before an emergency stop restarts the loco.
6. `rs485_discovery`: an address that missed its probes is not probed again while another
   handheld is present, so a handheld plugged in there is never called.
7. `functions_lost`: a function command takes no lock and sets `_dirty` before
   `_dirtyFn`; core 0 in between consumes the first, and the functions are not sent.

Two more have a configuration but no run:

* `MCServiceMain.cfg` (`MainIsolated`): `dcc_hal.cpp:596-607` has the main outputs off for
  the whole session, "otherwise service-mode packets [...] would reach every loco on the
  whole layout simultaneously". `setPower(true)` switches them on whether there is a
  session or not (`:844`); a POWER_ON command or `_autoRestart()` after a short calls it.
* `MCPowerStallRestart.cfg` (`StalledMeansOff`): `_checkCore1Stall()` finds the power off, so
  it does not cancel the automatic restart that is pending, and trips no second time; the
  track comes on with core 1 hanging.

## 8. Other observations

Seen while modelling, without a run of their own (line numbers are where they bite).
Where a configuration shows it, it is named.

Power:

* `dcc_hal.cpp:235`: a short that is reported while a POWER_ON is on its way
  leaves power on with `trackPowerOff` set; GPOFF and lost clients are then ignored
  (`MCPowerFlag.cfg`, `FlagTracksPower`).
* `dcc_hal.cpp:1253`: a power event refused by a full event bus is not sent again, since
  the rail shadow has moved on (`MCPowerNews.cfg`, `ClientsKnow`).
* `LZ210.ino:562`: the stall check does not go through the command bus, so LocoNet's
  track status stays on.
* `xpressnet_handler.cpp:1548`: `handleReset()` is said to force track power off; it sets
  the flag, and core 0 waits for the watchdog with the outputs as they were.
* `HBridgeGuard`: the ring must hold the edges of one late pass; with a ring of one place
  (`EdgeSlots = 1` in `Lone`) a fault of which every second edge is lost is never judged.
  Service mode that ends while its guard is in the inrush phase, in the same pass in
  which the DCC guard enters its own, turns the pattern off under the latter.

Service mode:

* `xpressnet_handler.cpp:1320`: a new programming request does not clear
  `progResultReady`, so a result nobody fetched is taken for the new one.
* `xpressnet_handler.cpp:1373`: two programming clients share one result; the second
  polls for ever.

Locos:

* `dcc_hal.cpp:972`: the stop for a lost client may overwrite the entry of a loco that
  another module has just written but not yet dispatched; if the resend comes first, the
  loco then runs while the repository shows it stopped (`crossed` in `TrackFollowsRepo`).
* `dcc_hal.cpp:969`: locos are skipped when a web page holds the lock too long.
* `dcc_hal.cpp:970`: a loco whose entry was released counts as standing and runs on.
* `loco_repository.cpp:205`: `release()` leaves the speed and function flags, which a new
  entry at the same index inherits, so that speed 0 is sent for a loco nobody drove
  (`MCLocoFlags.cfg`, `OnlyMarkedReported`); `clearAll()` leaves all three. `release()`
  while core 0 is in `nextDirty()` may send for address 0 (`MCLocoStray.cfg`,
  `OnlyLocosAddressed`).
* `dcc_hal.cpp:1258`: `notifyLokAll()` calls the repository's `setSpeed()` without the lock,
  and it sets the generic flag only, which sends nothing.
* `z21_lan.cpp:613`: LAN_LOCO_SPEED and LAN_LOCO_FUNCTION are dispatched without writing
  the repository: track and repository diverge, and the next function command of another
  client undoes the function.
* F29 to F68 and binary states are stored or ignored, never sent.

LocoNet and turnouts:

* `slot_server.cpp:174`: a claim by WR_SL_DATA or SLOT_STAT1 does not renew
  `lastActivityMs`; the slot may be taken back at the next tick (`MCSlotClaim.cfg`,
  `ClaimIsFresh`).
* A move leaves its source FREE without an announcement; `dispatchByAddress()` does not
  set `ln.dirty` though its comment says so; a LACK for "busy" is queued without the slot
  report when the queue is nearly full, and `ln.dirty` is cleared all the same.
* `slot_server.cpp:96`: `_queueMsg()` is called from both cores without synchronisation.
* `slot_server.cpp:793`: two turnout commands in quick succession overwrite
  `_lastSentSw1/2`; the echo of the first is executed again, and the turnout may end
  where the first one put it (`OneAtATime <- FALSE` violates `LastCommandWins`).
* `handleTurnout()` writes `gAccessories` before it dispatches, also when the bus refuses;
  requests from LocoNet never update it.

Clients and feedback:

* `LenzLan::_processClient()` does not look at `active`, so frames that are buffered when
  a client is dropped are still executed; `_acceptNew()` does not reset `frameStartMs`.
  Feedback for a client whose transmit buffer is full is dropped silently.
* `lenz_lan.cpp:400`, `lenz_usb.cpp:162`: the frame timer is cleared only when the buffer is
  empty. If the rest of one frame arrives together with the start of the next, the timer
  goes on (`EndPlace` keeps `frame`), and the new frame is thrown away before its own
  250 ms are over, though the comment says the timer is that of a new partial frame.
* `trace_log.cpp:432`: `_push()` is called from both cores on a ring for one producer, as in
  finding 1; two lines may share an entry.
* `Z21Lan`: a client that timed out comes back with the default flags and is not told;
  `_buildSystemState()` never sets the bits for power off and emergency stop;
  FEEDBACK_BULK is not handled; `group * 10 + 1` wraps in 8 bits from group 26 on;
  `_z21ModuleState` survives `clearAll()`; `_buildLocoInfo()` reports the canonical speed
  also for 14 and 28 steps, whereas the XpressNet reply converts it.
* `RsBusHal`: the result of `publish()` is ignored, so a refused report is not repeated;
  `clearAll()` sets `lastSent` to 0, so that a following report of 0 is filtered.
* `XpressNetRs485`: a programming handheld that is unplugged leaves all others without
  calls, since nothing ends its mode; POWER_OFF can be pushed out of the broadcast queue
  of eight frames by other broadcasts.

Settings:

* `eeprom_store.cpp:70`: a setting that core 0 has passed already and that changes before it
  clears `_dirty` is not written (`NoSettingLost` of `EepromStore`).
* `resetToDefaults()` loses the defaults of strings and copies 20 bytes from a default of 4.

## 9. Not modelled

* Encodings and replies of the protocols, among them the conversion of LocoNet sensor
  messages to feedback bits: data, not control.
* `LenzUsb` and `xn_interface_layer`: reassembly for a single peer, simpler than
  `LenzLan`'s, with one pending reply. `LnTcp`: text lines in and out of the LocoNet
  dispatcher.
* The replies of `Z21Lan`, its fast clock and its cache of feedback.
* The broadcast queue and the PIO timing of `XpressNetRs485`.
* RailCom answers and POM: fire and forget, and external.
* `RsBusHal::_checkWatchdog()` (`rs_bus_hal.cpp:347-369`), which stops, initialises and starts
  the RS-Bus library again after 15 s of silence with the power on: what the library
  forgets then, and whether clients that connect later miss it, is decided in code that is
  not in this repository. `FeedbackTold` is about a library that is not re-initialised.
* The rule of `HBridgeGuard` that skips isolated pairs, the inrush curve, the estimate of
  the power and the measurement filters: arithmetic over samples, whose verdict is an
  input that may come at any time.
* Boot sequence, module registration, crash reports, LEDs, OLED; the trace log, which
  nothing reads back; the web pages apart from what they change.
* `Version_1`, an earlier copy of the same firmware, and the LZ210LogTrace viewer.

`PROJECT.json` gives the reason per component. The map covers about a tenth of the lines
of the repository. Most of the others are of these kinds: HTML and page scripts,
encodings, the copy of the firmware in `Version_1`, and the viewer; a model of them would
repeat their text.

Memory model: each modelled store is atomic and seen in program order. Where the code
relies on `volatile` indices this is what the build produces on this processor;
gCentrale's plain fields and the flags of the repository could be reordered further by
the compiler.

What could come next: the composition of `SlotServer` with `LocoTable`, so that a slot and
its loco's dirty flags are released in the same steps; the broadcast queue of
`XpressNetRs485`; `PatternSafe` with a POWER_ON while the power is on,
under the condition that no guard is in its inrush phase then.

## 10. Running it

    tlc -workers 2 -config MCTrackPower.cfg MCTrackPower
    tlapm TrackPowerProofs.tla

The longest run (`loco_drive`, about 7 million states) takes two to three minutes with two
workers, the other passing runs one to two minutes each.

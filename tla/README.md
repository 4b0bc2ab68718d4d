# A verification development of MaltbeeController

MaltbeeController is the firmware of model-railway turnout panels. Three
programs are built from one set of libraries:

| firmware | main | board | talks to the layout by |
|---|---|---|---|
| Mega | `src/src/mega/main.cpp` | Arduino Mega, 4 stations, 2 route buttons | LocoNet |
| panel | `src/src/esp32/main.cpp` | ESP32, 12 toggle stations on a button matrix | MQTT |
| node4 | `src/src/esp32node4/main.cpp` | ESP32, 4 toggle stations | MQTT |

Each is one thread: `setup()`, then `loop()` for ever, polling everything. What
is concurrent is the world around it: buttons that bounce, a clock that wraps,
turnout motors, other throttles, the LocoNet receive buffer, the MQTT broker,
links that drop, the power.

This directory holds TLA+ modules of that code, configurations that check them
with TLC, and proofs that TLAPS checks.

Paths below start at the repository root, `src/`.
`lib/McsCore/src`, `lib/McsLoconet/src` and `lib/McsEsp32/src` are abbreviated
Core, Loconet and Esp32.

## 1. Inventory

### Components, their state, operations and what makes them correct

| component | state | operations | correct when | module |
|---|---|---|---|---|
| Switch transport, `PulsingLocoNetTransport` | pending address and position, release time, pending flag | `sendPacket`, `update` | one coil on at a time; every coil off after its pulse, not before | `PulsingTransport` |
| Routes, `RouteExecutionService` | active route, next index, time of last send | `start`, `update` | every command once, in order, on time; no pulse of its own cut short; the run ends | `RouteExecution` |
| `Button` | last raw reading and its time, stable reading, previous one | `update`, `wasPressed` | no bounce gets through; every steady level does; one press is one report | `Button` |
| Mega configuration, `MegaCommissioningSession`, `EepromConfigurationRepository` | EEPROM, draft, the stations built from it | `address`, `name`, `save`, boot | what was saved is found again; a save that is cut off leaves no more than one station neither old nor new | `MegaCommissioning` |
| Mega panel, `TurnoutStation`, `TurnoutControl`, `TurnoutIndicator`, feedback source and decoder, `loop()` | LEDs, receive buffer, all of the above | one `loop()` pass | LEDs show where turnouts lie; a route sets every turnout nobody else touched | `MegaPanel` |
| `LedPairDriver` (and `IndependentLedPairDriver`) | two requests, mode, last colour, two blink phases and their times, pin | `setGreen`, `setRed`, `setIdentifying`, `update` | shows what was asked for; blinking and flash never stall | `LedPair` |
| ESP32 panel, `ToggleTurnoutStation`, `ToggleTurnoutControl`, Loco2MQTT adapters, `NodeIdentityGuard`, `GatedDigitalInput`, `loop()` | known positions, LEDs, collision flag, queued reports, link | one `loop()` pass | LEDs follow reports, blink without link; a node in a collision is silent | `EspPanel` |
| ESP32 commissioning, `BasicCommissioningSession`, `BasicNvsConfigStore`, `NvsSetupModeRequestStore`, serial and web form adapters, `BootModeSelector` | draft, reboot flag, NVS keys, request flag, boot mode | lines, form, save, setup request, boot | only valid configurations are stored; an answer is true of the integers; setup if and only if it was asked for | `NodeCommissioning` |
| `ButtonSetupModeTrigger` | hold and release times, flags | `update` | a hold of 3 s is answered once, when it is over; bounces are ignored | `SetupTrigger` |
| `MqttPresenceAnnouncer`, `NodeIdentityGuard` | connected before, last announcement, collision flag | `update`, a received announcement | nodes of one id all learn of it, within a time, whatever other messages come | `Presence` |
| `IdentifyModeTimer`, `ActivityTrackingTurnoutCommandPort` | triggered, time | `trigger`, `isActive` | lit in the pass that triggers it, for the duration, and then no more | `FlashTimer` |
| `MatrixScanner`, `MatrixDigitalInput` | current row, cached contacts | `update`, `isActive` | a level read once is not debounced from the cache; a key held is reported | `MatrixButton` |
| `StatusLedDriver` | state, phase and its time | `setState`, `update` | the four states of the network can be told apart | `StatusLed` |
| `SerialCommissioningAdapter`, `EspUartPort`, `pollSerialCommands` | characters of the line so far | `poll` | lines are not joined or mixed | `SerialLine` |
| `TurnoutService`, `RouteService`, `TurnoutCollection` | arrays | lookups, activation | linked into no firmware | not modelled |
| Topics, payloads, HTML, WiFi scan list, AP name | none | formatting | stateless | not modelled |

### How they interact

* Mega: `loop()` calls the four stations (throw button, then close button),
  the transport's `update`, one `poll` of the receive buffer and
  `applyFeedback` of every station, both route buttons, the route service, the
  serial line. Stations and the route service share the one transport, which
  has room for one pulse.
* ESP32: `loop()` polls the serial line, restarts if asked, and in wireless
  setup does nothing else but the web server. Otherwise it reads the collision
  flag, gates the buttons by it, polls the links, drains all reports into the
  stations or else clears every indicator, hands the identify flag to the LEDs
  and updates LEDs and stations. A station asks Loco2MQTT over the broker for
  the opposite of the position reported last; the LEDs change only when the
  report comes back.
* Configuration is read once, by the constructors of globals; commissioning
  edits a draft, saves it, and takes effect at the next boot.

### What is hard here

The clock wraps after 49.7 days, and the code compares times in two ways. The
power may go between two bytes of a save. A link may drop and come back
between two looks at it. Reports are dropped, repeated and overtaken by
commands. Button presses land anywhere in a route. `PROJECT.json` lists all of
this under `hazards`, each at its line, with the properties aimed at it and,
where they stop short of it, a note saying where.

## 2. Plan

Order, most important behaviour first. All of these exist.

1. `Millis`, `CoilPulse`, `PulsingTransport` and its proofs
2. `RouteRun`, `RouteExecution` (composes `PulsingTransport` by INSTANCE) and its proofs
3. `MegaCommissioning` and its proofs
4. `Button` and its theorems
5. `MegaPanel`: stations, routes, feedback and layout in one loop, without a clock, and its proofs
6. `LedPair` and its proofs
7. `EspPanel`: the node's loop against WiFi and broker, and its proofs
8. `NodeCommissioning` and its proofs
9. runs for the four disagreements between code and documents
10. `MatrixButton`: the scanner below a `Button`, and the proof that together they implement `Button`
11. `SetupTrigger`, `FlashTimer`, `StatusLed`, `Presence`, `SerialLine`, and `Devices`, which checks them and both buttons in one run
12. `DevicesProofs`: the theorems of 4, 10 and 11

What could follow:

* `RoutesEnd` and both `IndicatorsConverge`, should the prover ever reach liveness.
* the services of Core, once a firmware uses them.

## 3. Modules

| module | what it is | lines of code it stands for |
|---|---|---|
| `Millis` | the wrapping clock: `Plus`, `Minus`, `NextStamp`, and `Older` for true time in history variables | `ArduinoClock`, unsigned arithmetic |
| `CoilPulse` | abstract: what a layout expects of coil pulses | - |
| `PulsingTransport` | the transport, one action per operation | `Loconet/adapters/PulsingLocoNetTransport.cpp` |
| `PulsingTransportProofs` | theorems | - |
| `RouteRun` | abstract: what a route button promises | - |
| `RouteExecution`, `RouteExecutionProofs` | the route service over an instance of `PulsingTransport`, theorems | `Core/application/RouteExecutionService.cpp` |
| `Button` | debouncing | `Core/domain/Button.cpp` |
| `MatrixButton` | a `Button` on a contact that a scanner caches | `Esp32/domain/MatrixScanner.cpp`, `Esp32/adapters/MatrixDigitalInput.cpp`, `src/esp32/main.cpp` |
| `MegaCommissioning`, `MegaCommissioningProofs` | configuration in EEPROM, theorems | `Core/application/MegaCommissioningSession.cpp`, `Core/adapters/EepromConfigurationRepository.cpp`, `Core/domain/MegaConfig.cpp` |
| `MegaPanel`, `MegaPanelProofs` | the Mega's `loop()` and the layout, theorems | `src/mega/main.cpp`, `Core/application/TurnoutControl.cpp`, Loconet feedback |
| `LedPair`, `LedPairProofs` | one LED pair, theorems | `Esp32/domain/LedPairDriver.cpp`, `IndependentLedPairDriver.cpp` |
| `EspPanel`, `EspPanelProofs` | the node's `loop()`, links and broker, theorems | `src/esp32node4/main.cpp`, `src/esp32/main.cpp`, toggle stations, Loco2MQTT adapters |
| `NodeCommissioning`, `NodeCommissioningProofs` | configuration in NVS, boot modes, theorems | `Esp32/application/CommissioningSession.h`, `Esp32/adapters/Nvs*.cpp`, web form and serial adapters |
| `SetupTrigger` | holds of the setup buttons | `Esp32/adapters/ButtonSetupModeTrigger.cpp`, `EitherActiveDigitalInput.cpp` |
| `FlashTimer` | the timers of the identify and activity LEDs | `Esp32/domain/IdentifyModeTimer.cpp`, `ActivityTrackingTurnoutCommandPort.h` |
| `StatusLed` | the network LED of node4 | `Esp32/domain/StatusLedDriver.cpp` |
| `Presence` | announcements of nodes that share an id | `Esp32/application/MqttPresenceAnnouncer.cpp`, `Esp32/domain/NodeIdentityGuard.cpp` |
| `SerialLine` | characters to lines, on both boards | `Esp32/adapters/SerialCommissioningAdapter.h`, `src/mega/main.cpp` |
| `Devices`, `DevicesProofs` | the small machines above and both buttons, one per behaviour, theorems | - |
| `MC...` | constants and symmetry for TLC | - |

Definitions named like slips (`ReleaseDueLate`, `BeginSaveUnchecked`, ...)
are used by no specification. Each is a plausible bug; `PROJECT.json` names the
definition it would replace and the property that then fails.

### Conventions

* Variables carry the names of the fields without the trailing underscore; the
  comment beside a declaration names the field when they differ.
* History variables are marked `history`: they record true elapsed time or what
  happened before, and no action of the code reads them.
* A time bound on a pass of `loop()`: `MaxGap` lets time stand still when a poll
  is overdue. Every time bound that is claimed contains `MaxGap`. The code has
  no such bound of its own; the claims say how its delays add up.
* Every module has its type invariant. A run checks it where it bounds
  something by itself (an index, a length); elsewhere it is part of the proved
  invariant or left as documentation.
* `loop()` handlers appear in three grains. `PulsingTransport`, `RouteExecution`,
  `Button` and the other devices let them run in any order at any time, which
  includes the order of `main.cpp`; `MegaPanel` and `EspPanel` have a `turn` that follows
  `main.cpp`, with the world free to act between any two turns;
  `NodeCommissioning` and `MegaCommissioning` make single writes the steps,
  because the power may go between them.

### How state and actions correspond to the code

* `PulsingTransport`: `Send(c)` is `sendPacket`; `Update` is `update`;
  `outputs` is what the command station was told, so that "two coils on" is
  visible. `LastTick` cuts the behaviour off before the rollover or not.
* `RouteExecution`: `SendCommand(r, i)` is the common tail of `start` and
  `update` (send, count, forget the route or note the time). `Run` is `update`
  with its three early returns. `StationSend` is any station's button.
* `Button`: `Sample` is the comparison with the last raw reading, `Debounced`
  the unsigned comparison, `Bounce` the contact between samples.
* `MegaCommissioning`: `SetAddress`, `SetName`, `BeginSave` are the three
  commands of `handleLine`; refused lines change nothing and are stutters.
  An address is what `sscanf` makes of the number typed, its two lower bytes.
  `WriteByte` is one byte of the three `EEPROM.put` calls; `PowerCycle` is the
  loss of RAM followed by `load`, `validate`, and the constructors of stations.
* `MegaPanel`: `Turns` is the order of `loop()`. There is no clock. What the
  code decides by the time alone may happen at any: `TransportTurn` may release
  the coil in every pass, before the points have moved too, as the transport
  does with a release time that wrapped. `RunDue` waits for `spaced`,
  which `SpacingElapses` sets at any time after a command, with one condition:
  if the coil the route switched on has been on all the time, the points have
  moved. This is the `static_assert` of `main.cpp` (a pulse is shorter than the
  spacing) and what a pulse is long for. A turnout whose coil was switched off
  before it moved, by a button or by the transport, is `disturbed`; so is one
  that a button or another throttle commanded. The other turnouts of the route
  are not.
* `LedPair`: `driver` is the record of the fields. `Display` and `Clear` are the
  pairs of calls that `TurnoutIndicator` makes, in its order, so that the
  passing state with both requests set is computed, and so is a turnout shown
  during the flash.
* `EspPanel`: `CollisionTurn`, `MqttTurn`, `FeedbackTurn`, `StationTurn(c)` in
  this order. `MqttTurn` connects, reads one message or idles; a message is a
  report for the queue or the presence message of another node. `wifi` and
  `connected` are two links: without WiFi the MQTT link is not polled, goes on
  saying that it is connected, and what is published is lost. `Drained` is the
  loop over `poll` and `applyFeedback`. What the setup button and the serial
  line lead to is in `NodeCommissioning`.
* `NodeCommissioning`: `WriteKey(written)` writes one key and may fail; `ok`
  accumulates the results the code looks at. `Submit(form, prefix)` applies the
  fields up to the first that is not a number, and saves only after the last.
  `Boot` is the constructors of the globals, `Restart` the one asked for and
  `PowerCycle` the other kind; `consumeRequest` may find the flag out of reach,
  or read it and fail to clear it (`Readings`).
* `MatrixButton`: a pass is `Scan` (one row into the cache) and later `Look`
  (`Button`'s `update` on the cached contact), with time free to pass between
  them, as the links are polled there. `contact` is the cache, `key` the
  contact itself. One key stands for all: a scan writes the cache of its own
  row only. It is in the last row, the worst place at the start.
* `SetupTrigger`: `Update` is `update`, of which `Press`, `Release`, `Bounce`,
  `Settle` and `Wait` are the branches; `Observe` is the history of what it
  saw. `Move(b)` is either button of node4, which the gate ORs.
* `FlashTimer`: `Trigger` any number of times a pass, `Show` at its end.
  `StatusLed`: `Pass` is `setState` with the state `loop()` computes from the
  links, then `update`. Both leave out who calls them: every history of calls
  is allowed.
* `Presence`: `Pass(n, up)` is one pass of node n, which reads one message,
  sees whether its link is up and announces itself; the announcement gets to any
  of the nodes that have a link and room. `OtherTraffic` is every other message a
  node has subscribed to, which takes its place in the inbox and a pass to read.
  `Drop` and `PowerCycle` may come between any two passes, so that a reconnect
  may go unseen.
* `SerialLine`: `EspChar` and `MegaChar` are the two readers. They differ in
  which characters end a line and in what becomes of one that is too long.
* `Devices`: a behaviour is one of a single device. The devices share the clock
  and the rhythm of `loop()` and nothing else, none of them writes what another
  reads, and every property is about one of them: an interleaving of two
  violates it only if one of the two alone does.

Code of other repositories (LocoNet library, `MqttLink`, the Loco2MQTT state
source, Loco2MQTT itself, the broker) is modelled from how `src/` uses it and
marked external in `PROJECT.json`.

## 4. Runs

| run | question | properties | bounds |
|---|---|---|---|
| `pulse_before_rollover` | is a coil pulse what it should be? | `OnlyPendingOutput`, `PulseBounded`, implements `CoilPulse` | 2 turnouts, clock of 12 ticks stopped at 9, pulse 2, poll gap 2 |
| `pulse_rollover` | and across the rollover? | `PulseBounded` fails | the same, clock wraps |
| `route` | does a route run as it should, in spite of stations, restarts and rollover? | `TypeOK`, `RouteOnTime`, `RoutePulsesWhole`, implements `RouteRun`, `RoutesEnd` | routes of 0 to 3 commands over 2 turnouts, clock of 8 ticks, spacing 3 over pulse 2 |
| `button` | do the small machines keep their promises? | `DeviceTypes`; buttons: `Settles`, `OnlySteadyLevels`, `PressesApart`; matrix: these, `OnlyReadLevels`, `KeySettles`; `RequestsExact`, `FlashesInTime`, `StatusReadable`, `CollisionFound`, `LinesStayApart` | clock of 12 ticks, poll gap 2, debounce 3, 2 rows; hold 3 and settle 2, two setup buttons; duration 5; blink 5 and 2; 2 nodes, heartbeat 3, 2 messages to each; lines of 2 characters, 5 typed |
| `mega_commissioning` | what is found at the next boot, after saves and power failures? | `TypeOK`, `OneStationTorn`, `ValidSaveSurvives` | 2 stations, bytes of 4 values, good and bad addresses, one too large for an int |
| `mega_save` | does every answered save survive? | `SaveSurvives` fails | the same |
| `mega_torn` | is every address one somebody chose? | `NoGarbageAddress` fails | the same |
| `mega_panel` | do LEDs follow the layout, do routes set it? | `IndicatorsExplained`, `RouteSetsTurnouts`, `IndicatorsConverge` | 1 station, 2 turnouts, 2 routes that overlap, buffer of 2 |
| `led_pair` | does the pin show what it should at every time? | `ShowsRequest`, `Blinks`, `Flashes` | clock of 15 ticks, blink 3, flash 1, gap 2, flash for 7 at most |
| `esp_panel` | the same for the node, with two links, collision and power | `IndicatorsExplained`, `BlinksWhenCutOff`, `QueueDrained`, `SilentInCollision`, `PressesFlip`, `IndicatorsConverge` | 2 configured channels and one that is not, 1 message in flight, 2 queued, 1 command out |
| `esp_reconnect` | is everything shown confirmed since the reconnect? | `ShowsConfirmedOnly` fails | the same |
| `node_commissioning` | is what is stored valid, and what was answered true? | `TypeOK`, `StoredValid`, `SavedIsStored`, `FailureReported`, `SetupOnRequest`, `FormLeadsToNormal` | 2 channels, ids 0 and 1, two ssids, addresses unset, good and too large |

Why the bounds are enough: the clock is wide enough that every interval of the
code fits in it with a poll gap (the assumptions in the modules ask for
that), and so narrow that every stamp is met by every difference and the
rollover happens in every phase. Two turnouts show every conflict of the one
pulse slot, as it holds one command. Routes of three commands have a first, a
middle and a last one. A byte of 4 values and addresses up to 5 let the two
bytes of an address differ, and duplicates, too small and too large addresses
all occur. A receive buffer of 2 overflows, and can hold two reports about one
turnout. In `esp_panel` the queue of two fills up only in a collision, when
nothing drains it any more: otherwise a pass reads one message and drains the
queue, and a report that a lost link left there is drained in the pass that
makes the link again, which reads none. That is `QueueDrained`, which is
proved for queues of every length.

In `button`, the matrix has two rows, and the debounce time is longer than the
pass in which a key is not read, as on the board (30 ms, against the two passes
below 15 ms that its three rows make), and shorter than two passes, so that
`OnlyReadLevels` is a close thing. The theorems are about every number of rows. Two nodes are enough for `CollisionFound`,
which is about every pair of them; they are alike, and TLC takes them so
(`NodesAlike`). Their inboxes hold two messages of any kind, so that a mac may wait behind
one; what finds no room is lost. The claim is that both know of a collision one
heartbeat and three passes after the last time one of them had no link or an
announcement was lost: up to a heartbeat for the next announcement, a pass to
notice that it is due, and a pass for each place in the inbox. One millisecond
earlier a node may still know nothing. All of them read one clock in the model. The code uses differences of one
node's clock only, so that any offsets between clocks lead to the same
behaviours. Lines of two characters overflow in the third, and five typed ones
make an overlong line whose rest is itself too long.

### The four disagreements

* `pulse_rollover`: `PulsingLocoNetTransport.cpp:25` compares
  `now >= releaseAtMs_`. If the release time is just below 2^32 and no poll
  falls between it and the rollover, the coil stays on for 49.7 days, unless
  another command is sent. `RouteExecutionService` and `Button` compare
  `now - stamp >= interval` and do not have this fault.
* `mega_save`: `save` does not validate. A swap of two addresses that is saved
  halfway is answered OK and gone after the next boot.
* `mega_torn`: the configuration is overwritten in place under a header that
  stays valid. What is read back is validated, so the stations still get
  distinct addresses in range, but possibly one that nobody chose.
* `esp_reconnect`: indicators are cleared only if `loop()` sees the link down
  at one line; and a report that was queued before the loss is applied after
  the reconnect. The next re-publish corrects both.

## 5. Fairness

* `RouteExecution`: weak fairness of the clock and of the two `update` calls.
  `loop()` never ends and blocks on nothing. None is asked of buttons, and
  `RoutesEnd` excepts a user who goes on starting routes.
* `MegaPanel`: weak fairness of the loop. Nothing is asked of the layout.
  `IndicatorsConverge` has it come to rest as its premise.
* `EspPanel`: weak fairness of the loop, and strong fairness of `Republish(a)`:
  Loco2MQTT publishes every state again every 30 s, so a node whose link stays
  up keeps getting them. Strong, because a full channel blocks it from time to
  time. Link and broker have no fairness: `IndicatorsConverge` has the link
  stay up and the turnouts lie still as its premise.
* The other modules claim safety only. Their time bounds are invariants over
  history variables.

## 6. What is proved

TLAPS checks every proof for every value of the constants that meets the
assumptions named in the module.

* `PulsingTransportProofs`. `TypeCorrect`, and `OneCoil`: the coil that is on
  is the pending one; this is inductive with the types, and holds across
  rollovers. `CoilTimeBounded` and `KeepsCoilPulse` assume `BeforeRollover`
  (the last release time fits below `Wrap`): the strengthening is
  that a pending release time is the present plus what is left of the pulse,
  and that an overdue release is as old as the last poll. Every step is then a
  step of `CoilPulse` or a stutter. Without `BeforeRollover` the statement is
  false; that is run `pulse_rollover`.
* `DevicesProofs`, one section for each small machine and one that joins them.
  Four of them compute a difference of two stamps, and their invariants say how
  far that is the true time, rollovers included.
  * A button: `TypeCorrect`, `ReadingSettles`, `LevelsAreSteady`,
    `PressesFarApart`. `Steady`: the difference is the true time while that is
    below one turn of the clock. `Settled`: the stable reading is the sampled
    one from the first poll after the debounce time on, which carries the claim
    over the moment when the difference starts again at zero. `Apart`: how long
    ago the last press must be, by cases on the readings. Without `Settled` the
    invariant is not inductive: a level held for 49.7 days computes as fresh.
  * A key of the matrix: `ImplementsButton`: with the cached contact for the
    contact, scanner and debouncer implement `Button`, so that its theorems
    hold of the matrix (`KeysDebounced`). `LevelsReadTwice` and `KeysSettle` are
    what the cache adds; their invariant counts the looks since the key's row
    was read, each worth a pass of time at most.
  * The timers: `FlashesAreInTime`. `Lights`: the difference is the time since
    the trigger during the first turn of the clock, and a lit LED is no older
    than the duration and the pass that runs.
  * The status LED: `StatusIsReadable`. `Blinking`: a blinking LED was changed
    as long ago as its stamp says, less than its interval and the pass that
    runs; so the stamp never comes round, and a change is never early.
  * The setup trigger: `RequestsAreExact`. `Seen` relates its flags to what it
    saw, `Holds` both of its stamps to true time: the hold for a turn of the
    clock, the release until it has settled. `SetupSpan` then gives the
    difference of the two stamps, which the code compares, as that of their ages.
  * Presence: `CollisionsAreFound`, for every number of nodes and size of the
    inbox. A node that knows of no collision is in one of two states, each with a
    bound on the time since all links are up and nothing was lost. `NothingYet`: the
    others have been quiet all that time, which is less than a heartbeat and a
    pass. `Waiting`: the mac of one of them is somewhere in its inbox, and is due
    the sooner the further ahead it is; every pass reads one message, and
    other traffic goes to the end. An announcement of which not every other node is
    told starts the time again.
  * The serial line: `LinesAreApart`, for every length of the buffer. What is
    in the buffer is what was typed while that fits (`Whole`); later it is a
    beginning of it on the Mega, of full length, and an end of it on the node.
  * Together: `DevicesTypeCorrect`, `ButtonsAmongDevices`, and the theorems
    above, which are stated of `DevicesSpec`. `DevicesInv`: the device that runs
    keeps its invariant, and the others are as they began.
* `MegaCommissioningProofs`. `TypeCorrect`, `SavesSurvive`, `CutSavesTearOne`,
  for every number of stations and size of a byte. The strengthening says that
  the bytes written so far are those of the draft, and that those of the last
  intact save are those of its configuration. The rest is `LoadInvertsImage`:
  reading back the image of a configuration gives it again. Its lemmas are
  about offsets (each belongs to one station and field) and about splitting a
  number in two bytes. For `CutSavesTearOne` the bytes not yet written are
  those of the last intact save (`NotYetWritten`): what is read back of a station
  wholly below the next offset is new, of one wholly above it old, and it lies
  within one station only. That stations work on valid, distinct addresses is a
  lemma, `StationsAreValid`, which `MegaPanel` relies on.
* `RouteExecutionProofs`. `TypeCorrect`, `RoutesOnTime`, `PulsesAreWhole`,
  `KeepsRouteRun`, for all routes and every spacing longer than a pulse.
  `RouteOnTime` has both bounds: no command before the spacing is over, none
  later than a pass after. The
  invariant: while a route is active the difference the code computes is the
  true time since the last command and the last pass was not yet due
  (`OnTime`), and a pulse begun by the route is as old as that command
  (`PulseAge`). The second turns the `static_assert` of `main.cpp`, a
  comparison of two constants, into the statement about pulses. The
  refinement maps the index of the next command to the rest of the route.
* `LedPairProofs`. `ShowsAsked`, `BlinksInTime`, `FlashesOn`. Requests write the
  pin during the flash, so the invariant follows both stamps: `Settled` (the
  mode is the one requested, after both calls of `TurnoutIndicator`),
  `Coherent` (outside the flash the pin shows the current colour), `BlinkAge`
  (the stamp of the blinking ages during the flash, and must not come round
  before it ends; this is where `MaxFlash` is used) and `FlashAge` (if the pin has not
  the colour of the flash, it changed since the flash last did).
* `MegaPanelProofs`. `LedsAreExplained`, `RoutesSetTurnouts`, for all stations
  and routes and every size of the receive buffer. `Progress` counts the
  commands a route has sent: the rest of the route is still to do, and each
  one sent has set its turnout, or its turnout is `disturbed`, or it is the last
  and its coil is still on. That others undo one is what `disturbed`
  records, turnout by turnout, and that the route does not undo it itself is the
  assumption that no route names a turnout twice.
  `IndicatorsExplained` is inductive with the types as it stands: it speaks of
  the newest report in the buffer, and so survives the one read and the one
  that is dropped.
* `EspPanelProofs`. `BlinkingWhenCutOff`, `QueueStaysShort`,
  `SilentWhenClaimed`, `PressesAskForOther`, `IndicatorsAreExplained`, for every
  assignment of addresses to channels, and every length of inbox and queue.
  Three invariants, each
  about a point in the pass: from the first turn on a pass without link or
  in a collision stays one (`CutOff`); there is one report at most, and none
  outside the turn that drains it while the link is up (`Drains`); a pair that
  does not blink shows what its station goes by (`ShowsKnown`). A fourth
  carries `IndicatorsAreExplained`: a sequence that has a report about a
  turnout has a newest one (`Filed`, `Dated`). A message at the end of a
  sequence keeps that true and one read from its beginning does, so no
  induction over the sequence is needed.
* `NodeCommissioningProofs`. `TypeCorrect`, `StoreIsValid`,
  `AnswersAreStored`, `FailuresReported`, `SetupAskedFor`, `FormBringsUp`, for
  every number of channels and whatever is typed. `Writing` says how far the
  store agrees with the draft while a save is going on: in all keys below the
  next, but for the ssid, whose write is not looked at. `Stands` says what a
  completed save leaves. `SavedIsStored` holds in the middle of a save as well,
  and there says which mixture a boot would find. After a save that was cut off or answered
  as failed the store is `damaged`, and nothing is claimed of it until a save
  is answered "saved". A save answered so of which the ssid was not written is
  not `damaged`: `StoredValid` says valid but for the ssid, and
  `FormLeadsToNormal` that without one the node does not come up in normal mode.

Assumptions: `WrapAssumption`, `PulsingAssumption`, `RouteAssumption`,
`ButtonAssumption`, `MatrixAssumption`, `DevicesAssumption`, `PanelAssumption`, `LedPairAssumption`,
`EspPanelAssumption`, `CommissioningAssumption`,
`NodeCommissioningAssumption`. TLC evaluates each of them in the runs.
`DevicesAssumption` joins those of the instances: each interval and the passes
that may come on top of it are shorter than a turn of the clock, nodes of one id
are at least two, an inbox holds a message and a line a character.

So every safety property the passing runs check is a theorem. Only
model-checked is what is temporal under fairness (`RoutesEnd`, both
`IndicatorsConverge`): it is beyond the prover, as are `ENABLED`, induction over
recursive data and `RECURSIVE` operators; the modules declare none of the latter.

## 7. Limits of the claims

What the code does, found in modelling it, where no document says otherwise:

* A timer stays triggered for ever and compares differences: 49.7 days after
  the last identify message a node identifies itself once more. `FlashesInTime`
  speaks of the first turn of the clock.
* If two passes of the panel's `loop()` take 30 ms or more, the debouncer takes
  one read of the matrix for a steady level. `MatrixAssumption` excludes it.
* The queue of the state source is not drained in a collision and grows with
  every report. The model stops it at `Queued`.
* The rest of an overlong line is carried out as a line of its own on the ESP32,
  and its beginning is on the Mega; on the ESP32 a line of just the longest
  length followed by CR LF is lost. `LinesStayApart` says only that nothing is
  joined to another line.
* The Mega's routes command fixed addresses, whatever addresses the stations
  were given. Nothing ties the two together in the code, and no property does.
* A write of a string (ssid, password, broker host) that fails is answered as a
  success. Nor is it noticed that a request for wireless setup could not be
  cleared: the node boots into setup once more. `FailureReported`,
  `FormLeadsToNormal` and `SetupOnRequest` state both as they are.
* An announcement of a node's mac that is lost is not repeated before the next
  heartbeat. `CollisionFound` counts from the last one lost, and supposes that
  at most `Inbox` messages wait for a node.
* A pulse that the transport releases before the points have moved (across a
  rollover) leaves its turnout as it was, and the route goes on.
* Without WiFi, but before the MQTT link notices, LEDs go on showing the last
  positions, and commands are lost.

## 8. What is not modelled

* Catch2 (`lib/Catch2`), which is by far the largest part of the source files,
  is vendored and only tests use it. Of the project's own code the map covers
  above a third; the rest is declarations, wiring in `setup()`, texts and I/O.
* The bodies of texts: topics, payloads, HTML, messages, names longer than one
  value. A parser that refuses a line is a stutter.
* `WiFiLink`, `MqttLink` and their retry timers: another repository. The model
  has their effect, links that come and go.
* Servers and radio of the captive portal; its form handler is
  `NodeCommissioning!Submit`. GPIO and UART beyond levels and characters.
* The last will of a node, which the broker publishes for listeners that are
  not part of this repository.
* `TurnoutService`, `RouteService`, `TurnoutCollection`: no firmware uses them.
* Wear, brown-outs that corrupt a byte in the writing, and a failing NVS
  initialisation.

## 9. Running it

    tlc -workers 2 -config Pulse.cfg PulsingTransport
    tlc -workers 2 -config Devices.cfg MCDevices
    tlapm DevicesProofs.tla

`PROJECT.json` names module and configuration of every run.

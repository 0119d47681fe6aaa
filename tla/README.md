# A TLA+ model of the Calaos server

Calaos is a home automation server: it reads switches and sensors, applies the
rules of a configuration file, and drives relays and roller shutters through
Wago PLCs. This directory holds TLA+ specifications of its core logic, the TLC
configurations that check them on small instances, and proofs, checked by
TLAPS, of what matters most: a shutter motor is never driven both ways, never
left running with nobody to stop it, and does what its abstract specification
promises; the rules engine does for an event exactly what its rules ask for; a
command ends at the coil configured for it; no one lost datagram makes a short
press a long one; nothing is told before a login; what is broadcast reaches clients and Home
Assistant in order and whole, and Home Assistant is never shown a server that is gone.

- [The system](#the-system)
- [Modules](#modules)
- [How the models correspond to the code](#how-the-models-correspond-to-the-code)
- [What the runs check](#what-the-runs-check)
- [Fairness](#fairness)
- [What is proved](#what-is-proved)
- [Simplifications](#simplifications)
- [Not modelled](#not-modelled)
- [Plan](#plan)

## The system

One process (`server/src/main.rs`) runs all components as futures of a single
`tokio::select!`: the first one to return ends the server. They talk through
three channels of bounded capacity (`CHANNEL_CAPACITY` is 10,000):

```
 main server (UDP) ──┐                         ┌── dispatcher ──┬─ Wago controller 1 ── PLC 1
 input controllers ──┼─► input channel ─► rules engine ─►command│─ Wago controller 2 ── PLC 2
 websocket sessions ─┘   (mpsc)            ▲         ▲  channel └─ ...
                                           │         │  (mpsc)        │
                     MQTT client ──────────┼─────────┘                │
                          ▲                │                          │
 websocket sessions ◄─────┴────── broadcast channel ◄─────────────────┘
```

| Component | State | Operations | What is hard about it |
|---|---|---|---|
| **Wago modbus controller** `wago_modbus_controller.rs`, `task.rs` | the value it believes each output has, the tasks that stop the running shutters, its command channel; the coils in the PLC | startup loop, `recv` branch, `wait_for_task` branch, keep-alive branch, `stop_shutter`, `set_var_on`, `update_state` | every modbus call is an await and may fail; coils outlive the server; commands race expiries |
| **Modbus client** `modbus_client.rs` | the instant of the last write to each coil | `write_single_coil`, `connect` | the instant recorded is not the instant the relay switched; a restart forgets it |
| **Rules engine** `rules_engine.rs`, `config/rules.rs` | last value of each input, its own copy of the outputs | `handle_input`, `handle_output_feedback` | its two halves interleave at each send; requests share the channel with events; a lagging receiver |
| **Values** `io_value.rs` | none | `toggle`, comparisons, parsing, printing | partial comparisons, asymmetric conversions |
| **Channels and maps** `io_context.rs` | the command dispatcher's routes | `run_output_controllers`, `handle_rx`, `make_input_context_map` | one full controller holds up all the others |
| **MQTT client** `mqtt_client.rs` | request queue of 100, subscription, availability | event loop, `start`, `handle_command`, offline announcement | the event loop publishes into the queue only it drains; reconnects; lag |
| **Main server** `main_server.rs` | instant of each press of a long button | UDP datagrams to input events | datagrams are lost or late; press and release are paired by time |
| **Websocket sessions** `websocket_server.rs` | logged in or not | login, home data, set state, event | the answer and the broadcasts are two views of one state |
| **Server process** `main.rs` | the channels | start, `select!`, shutdown | `--no_output`, panics, a shutdown that waits for the MQTT task |
| **Heartbeat** `wago_controller.rs` | where it is in its one exchange | `print_info`, `async_send_heartbeat` | UDP without a timeout; a PLC that forgets; any error ends the server |
| **Time controller** `time_controller.rs` | what it sleeps until | `run`, `to_duration` | open dates are resolved at each reading; dates that do not exist |
| **Configuration** `config/*.rs`, **JSON protocol** `calaos_json_protocol.rs` | none | reading the files, home data | ids defined twice, malformed files |

What makes each of them correct:

- *Controller*: the interlock of the two coils of a shutter; every running motor
  has a task that will stop it, which ends it neither early nor never; what is
  broadcast agrees with the coils; commands are drained.
- *Modbus client*: no relay is switched twice within 15 ms.
- *Rules engine*: the commands an event causes are those of the rules that held
  when it was received, in order, once; an answer reflects what its client sent
  before it; the copy of the outputs never silently misses a broadcast.
- *MQTT client*: Home Assistant's view (availability, subscription, states)
  follows the server's through reconnections, restarts of Home Assistant and
  the shutdown.
- *Main server*: a press and a release make one event, short or long by the
  time between them.
- *Websocket sessions*: nothing is served before a login; a client's view
  converges to the state of the outputs.
- *Server process*: the tasks do not wait for each other in a circle; from a
  button to its relay nothing is lost or overtaken; the shutdown ends; no
  configuration, answer or date ends it by a panic but those that are listed.
- *Maps*: a command leads to the PLC and the coil configured for its output,
  whatever the order of the hash maps.
- *Heartbeat*: every PLC with buttons learns where the server is, again after it
  has been off.
- *Time controller*: it does not sleep over a time, but for open dates.
- *Text*: what is written of a value reads back as that value.

The hazards, each at its line of the source, are listed in `PROJECT.json` with
the properties that cover them.

## Modules

| Module | Models |
|---|---|
| `IOValue` | values, actions, `toggle` and the comparison operators |
| `Updates` | what a receiver will know of something once its queue is empty: the language of the properties about broadcasts |
| `WagoModbusController` | one controller with its coils, clock, command channel, crashes and restarts |
| `ShutterMotor` | the abstract specification of one shutter, which the controller implements |
| `ModbusClient` | the spacing of coil writes, against what the PLC does |
| `RulesEngine` | the engine between its three channels |
| `MqttClient` | the MQTT client's two tasks, their shared queue, the broker and Home Assistant |
| `MainServer` | datagrams of buttons, with faults and delays, turned into input events |
| `WebsocketSession` | a session between its client, the broadcasts and the rules engine |
| `House` | `MainServer`, `RulesEngine` and `WagoModbusController` joined by their channels, with the dispatcher, ends and restarts |
| `Line` | the abstract specification of a button wired to a relay, which the house implements |
| `IOText` | values and actions as text, read and written |
| `ContextMaps` | the maps made of the configuration: definitions, controllers, routes, numbers of buttons, home data |
| `Heartbeat` | the exchange and the heartbeats with each PLC |
| `TimeController` | the input times, over a calendar |
| `Driving` | how the output controllers hang on the process: the numbers they reckon with, the answers they take, where they end it |
| `Server` | the process: `ContextMaps`, `Heartbeat`, `Driving` and `TimeController` under start, panics, `select!` and shutdown |
| `MC...` | instances for TLC |
| `Updates_proofs` | induction over a queue, and how `Latest` changes when a queue does; used by the next five |
| `RulesEngine_proofs`, `MqttClient_proofs`, `MainServer_proofs`, `WebsocketSession_proofs`, `Server_proofs` | theorems and proofs about the module of that name; `Server_proofs` also about `IOText` and `ContextMaps` |
| `WagoModbusController_proofs`, `ModbusClient_proofs` | theorems and proofs; the first also that the controller implements `ShutterMotor` |

The controller instantiates `ShutterMotor` once for each shutter, with its own
variables substituted for the motor's. `House` instantiates the three components
with its variables for theirs, so that a channel is one variable of two modules,
and each of its actions is the conjunction of what a step means to each of them.
`Server` extends the modules it is made of.

## How the models correspond to the code

**WagoModbusController.** `pc` says where `run` stands between two awaits, and
`job` which output it is serving and why. `select` is the `tokio::select!`;
each of its branches is an action: `Recv...` (one action for each way the
command can go: ignored, a relay, a move, a halt), `BeginExpiry`/`ExpireNext`/
`EndExpiry` and `BeginKeepAlive`/`EndKeepAlive`. The two writes of
`stop_shutter` are `StopDown` and `StopThen...`; the second also does what its
caller does next without awaiting (`wait_task.insert` and `remove`,
`update_state`). `SwitchOn` is `set_var_on` with the insertion of the task and
the report. `value` is `OutputContext.value`, `feedback` the last broadcast for
each output, `task` the `wait_task` map with the time that is left in place of
an `Instant`. `Crash` stands for every way `run` can end: a modbus error (`?`),
a closed channel, or the end of another branch of the server's `select!`; the
write that was under way may reach its coil or not. The coils keep what they
have; `Restart` begins again with everything else lost.

**ModbusClient.** `Begin` computes the delay and `Wake` ends the sleep. The
request then reaches the PLC (`Apply`, the moment that wears the relay) and its
response the client (`Respond`, the moment that is remembered). `Fail` may come
between any two of them; a request that was under way then reaches the PLC without
a client (`Land`), within `Transit`, or is lost. Clock readings are kept as ages, counted up to
`MinDuration`.

**RulesEngine.** `pc`, `rules` and `acts` are `handle_input`'s loops: the rules
of the input still to be looked at, the actions of the rule at hand still to be
sent. Each send waits for room, and `Feedback`, the other half of the
`try_join!`, may run in between. `lagged` is the `RecvError::Lagged` of the
broadcast receiver. `plan`, `known`, `done` and `published` are history variables,
set by the `...Step` actions alone: what an event asked for, which of its actions were
sent and which were skipped, and what was broadcast. A request carries, as history, what its answer should contain.
With `NoOutput` nobody takes from the command channel, and as the output controllers
are not polled either, no value of an output is ever broadcast: `exec_action` skips
every action, and only what clients send to outputs goes into the channel.

**MqttClient.** `start` and `sending` are `MqttClient::start`: where it stands
and the requests it still has to put into the queue, one at a time, waiting for
room. `announcing`, `held` and `asleep` are what the event loop is doing when it
is not in `poll()`; only there does it take from `requests` (`Transmit`) or from
the broker (`Incoming`). `lagged` disables `RecvState` for good: the pattern
`Ok(state) = rx_state.recv()` does not match an error, and `select!` then waits
for the shutdown alone. `process` is `main`: running, waiting for `start` to
return (`stopping`), ended. The broker keeps the availability topics, executes the
last will when a connection ends, and forgets the subscriptions of a session with
it; unacknowledged publications are sent again by the library, so they are as good
as still in the queue.

**MainServer.** A datagram carries its age and, as history, how long the button
had been in its former state. `RecvPlain`, `RecvPress` and `RecvRelease` are the
branches of `run` for the two kinds of button that `make_input_var_map` knows;
`Send` is the send into the input channel, during which no datagram is read.
`last_change` is the map of that name, an age in place of an `Instant`. A datagram that
is lost, comes twice, or overtakes the one before it, and a restart, count as faults.

**WebsocketSession.** `pc` is where `handle_connection` stands: `select`, serving a
request (waiting for room in the input channel, then, for the home data, `await`ing the
answer), or sending (`reply`; `refuse` when it breaks off afterwards). The two branches of
the `select!` are `RecvFeedback`/`RecvLagged` and the `Take...` actions, one for each
kind of message. The receiver of the broadcasts is made at the accept, so what is
broadcast before the login waits in it. `view` is what the client has made of all it has
read. `EngineFeedback` and `EngineInput` are the halves of the rules engine, reduced to
its copy of the outputs and its answers; what it does to events is `RulesEngine`'s.
`trusted` is a history variable: the client has given its password on this connection,
and the session has not heard a wrong one since. So is `overtaken`: the outputs of which, when the engine answered, its
own share of the broadcasts still had news and the session's no longer had any.

**House and Line.** A press is a datagram (`Outside`), an event of the main server
(`ReadButton`, `SendEvent`), a rule's action (`HandleInput`), a command in two
channels in turn (`Dispatch`), a coil and a broadcast (`Report`), and what the
engine hears (`Feedback`). `WayOf` puts together all that is under way from a button
to its relay; with it the house is seen as a `Line`: a state of the button comes out
at the relay in the order it went in, and nothing is dropped but by a server that
has not yet heard of the relay, or that ends. `Report` is the only action in which
a controller broadcasts. The house has no clock: no long buttons and no shutters.

**ContextMaps.** Each operator is the function of its name; a map is a function, a
list of ids a set. `insert` into a map that has the key replaces, so the last
definition of an id (or of a button's number) wins. `append_map` makes the lists
of ids of all controllers at once. `Orders` are the orders in which a hash map may
give its entries.

**Heartbeat, TimeController, Server.** `beat` holds for each PLC where its
controller is, together with the two datagrams of its one exchange. `Turn` is one
turn of the loop of the time controller; `read` is the instant it resolved its
dates at, and a date that leaves its month open (`month = 0`) is resolved in the
month of that instant. `drive` holds for each output controller whether it
has asked a coil and what the answer was, `unread` the outputs it has not begun with.
`BeginOutput` is one turn of its startup loop, `AddressFails` the error of a number that
is no address, for reading or later for writing. `NumberOverflows`, `HearNoCoil` and
`MoveForEver` are its panics: `var + 0x200` where overflow is checked (`checked` of
`args`; otherwise it wraps), `values[0]` of an answer without a coil, and
`Instant::now() + time` of a run that would end after the last `Instant`. Commands that
end in none of these change nothing here. `Start` reads the files, `Leave` is the return
of one branch of `select!`, `Panic` the end of the process without a shutdown. The order of the
hash map is chosen anew at each start.

## What the runs check

| Run | States | Shows |
|---|---|---|
| `controller` | 94,464 | the inductive invariant, the interlock, timed motions, truthful reports, what the controller believes, and that no expiry cuts a run short; each of two shutters implements `ShutterMotor` while both are served by one task; motors stop, and the dispatcher is released |
| `controller_belief` | violation | after the startup loop the controller has no value for a shutter, although the comment there says it takes one |
| `modbus_client` | 5,512 | relays are spared, through failures, late requests and restarts |
| `rules` | 2,560,040 | events are served as if in one step; the engine's copy follows the broadcasts; answers see the events sent before them and none sent after |
| `rules_no_output` | violation | with `--no_output` the engine, and all who send to it, wait for ever once the command channel is full |
| `mqtt_safety` | 112,283 | a server that is gone is never shown as available; states are published in order, none lost, until the client lags; offline is the last word of a shutdown, which ends |
| `mqtt_announcement` | violation | the event loop waits for itself when Home Assistant comes online |
| `mqtt_reconnection` | violation | after a reconnection the server stays unavailable |
| `main_server` | 2,956,341 | one fault never makes a short press long; raw states follow the buttons |
| `websocket_session` | 3,926,470 | nothing of the house is told, and nothing commanded, before a login, or after a wrong one; the client's view follows the outputs, but for home data that were already old |
| `house` | 178,128 | the house implements `Line`; its four tasks come to rest with the engine's copy equal to the relays; a full input channel is drained |
| `server` | 39,887 | commands lead to their own PLC and coil; inputs and outputs end the process by a panic for the listed reasons only; what the time controller may sleep over; each PLC learns where the server is |

**Bounds.** The controller is checked with one relay and two shutters with run
times of 1 and 2 ticks, so that tasks fall due apart and together, and in the
middle of each other's expiry loops; commands of every variant for every
output and an unknown id; and a command channel of one, which is enough since
commands are arbitrary: a longer queue adds no order of arrival. Tasks count
down and never up, so time needs no bound. `MinDuration` is 3 ticks so that a
write can come at once, within and after the window, and a request may be on its way
for 2 more, so that it reaches the PLC well after its client has failed; the next
server comes 5 after it, the least that is allowed. The rules engine has two
inputs, two outputs and three rules: one with two conditions on one input
(pushed twice by the code), one with a `Start` condition, conditions on two
inputs and two actions. Its channels hold one message (the input channel two, so that
events and requests can be in either order), so that full channels and lag are
common. With `--no_output` one input and one command to an output are enough: the
input fills its channel behind an engine that waits with the command. The MQTT
queue holds two requests in place of 100: it is full as often as the tasks put
more into it than the event loop has taken out, which one entity (two requests
per announcement, three offline messages) is enough for. The 100 of the code only
mean that the announcement of more than 50 entities, or of fewer when states are
waiting, is what fills it. A long button's threshold is 3 ticks and the jitter 1,
so that holds shorter than, within and longer than the uncertain range exist; two
faults are what it takes to make a short press long, so one more than that shows
nothing. The websocket session has two outputs with two values each, channels of two and a
socket of one message in each direction: a lag that loses the last value of one output
while the other's is kept, a full input channel, a client that does not read, and an
engine that is one or two broadcasts behind the session all happen. Outputs and values
are only passed on, so both are symmetric. In the house every channel and the network
hold one message: each task finds the one it sends to full, as often as it can. One
button and one relay suffice, as `Line` is a property of each pair, and the second
of another pair would only share the channels with it, as do the repeated states of
this one. The server
has two PLCs, so that one id may be defined for both; configurations with a
controller for every kind of input, with none, with clashing ids, with a host that
does not parse; with output numbers that wrap to an address, that are none for reading
or for writing, and that are the greatest there is (4, 3 bits and an offset of 2 for the
32 bits, 16 bits and 0x200 of the code), and run times up to the last instant and beyond
it; builds with and without overflow checks; and three months of two, one and two
instants, so that an open date comes twice, passes unnoticed, or does not exist.

**Deadlock** is checked in every run: none of the models can stop.

**The findings.** `controller_belief` checks `InitBelief`: after the startup
loop there is a state to act on for every output. The comment in the loop says
"As there is no way to retrieve the current state then consider an arbitrary
value", but that value is only broadcast and never stored. A `Toggle` sent to a
shutter that has not moved since the start is therefore ignored, although
everybody has been told that it is up. `BeliefAtRest` is what holds instead.

`mqtt_announcement` checks that an announcement to Home Assistant ends ("Re-publish
discovery and set per-entity availability online"). The event loop's task makes
it, and waits for room in a queue that nobody else empties. The trace also shows
what follows: `start` can no longer send its offline messages, so a shutdown waits
for ever in `mqtt_handle.await`.

`mqtt_reconnection` checks that a server that stays connected is shown as available
in the end ("Set LWT for Home Assistant availability", "Publish availability
ONLINE"). When a connection is lost the broker publishes the last will; `poll()`
reconnects, but the announcements and the subscriptions were made once, in
`start`, and are not made again.

`rules_no_output` checks that a full input channel is drained, under the option that
is documented as "Ignore output devices". `tokio::select!` evaluates the expression of
a branch even if its precondition disables it, so `output_cmd_channel.subscribe()` is
called, the receiver lives and is never polled. As no output is ever heard of, the rules
send nothing (`rules_engine.rs:177-185`); but the commands of clients to outputs are
forwarded (`rules_engine.rs:113`), and are not ignored but kept. Once 10,000 of them are
there the rules engine waits in its send, then the main server and the websocket sessions
in theirs; the MQTT client, which sends into the same channel, waits there itself. With
outputs, `InputTaken` holds (run `house`).

## Fairness

`WagoModbusController!FairSpec` assumes

- weak fairness of `Work`: the PLC answers. No modbus call has a timeout, so
  without this a motor may run for ever; it is an assumption about the PLC;
- weak fairness of `Tick`: time passes;
- strong fairness of `Recv` and of `BeginExpiry`: `tokio::select!` polls its
  branches in random order, so a branch that is ready again and again is
  eventually the one taken, though not continuously enabled (it is not while
  another branch is being handled).

No crash, restart, command or keep-alive is ever forced. `MqttClient!FairSpec`
assumes weak fairness of both tasks, which tokio polls when they can go on, strong
fairness of the two things `poll()` does while connected, and weak fairness of
`main`'s exit. The connection and the end of an announcement are premises of
`ShutdownEnds`, not assumptions: they are what the findings show cannot be counted on.
`RulesEngine!FairSpec` assumes weak fairness of the two halves of the engine, which
tokio polls when they can go on, and of the dispatcher, which the run
`rules_no_output` disables.

`House!FairSpec` takes over the assumptions of its parts: weak fairness of each task,
strong fairness of the controller's `Recv`. That the dispatcher finds room is no longer
assumed but follows. The network is not fair, and nothing but a lagged engine forces
an end. `Server!FairSpec` assumes that a PLC answers what it receives, that the
controllers are polled, and that a network over which heartbeats are sent for ever lets
one pass now and then (strong fairness of `BeatPlc(p, TRUE)`), without which no PLC
could ever know the server. The heartbeats do not depend on the outputs: nothing is
assumed of their controllers.

## What is proved

Every safety invariant the passing runs check, every action property, and the
refinement of `ShutterMotor`, each for every value of the constants: any outputs, run
times, rules, configurations, capacities and thresholds. Only the refinement of `Line`
and the liveness properties are left to TLC.

| Module | Theorems |
|---|---|
| `WagoModbusController_proofs` | `Invariance` (`IInv`), `TypeCorrect`, `InterlockHolds`, `MotionTimedHolds`, `FullRunHolds`, `TruthfulReportHolds`, `BeliefAtRestHolds`; `Refinement`: `Spec => ImplementsMotor` |
| `ModbusClient_proofs` | `Invariance` (`IInv`), `RelaySparedHolds` |
| `RulesEngine_proofs` | `TypeCorrect`, `ReadsWhatWasWritten`, `OutputsFollowed`, `Invariance` (`IInv`), `PlansCarriedOut` (`EmitsPlan`) |
| `MqttClient_proofs` | `TypeCorrect`, `NoFalseOnlineHolds`, `StatesFollowed`, `Invariance` (`IInv`), `OfflineLast` |
| `MainServer_proofs` | `TypeCorrect`, `RawStatesFollow`, `Invariance` (`IInv`), `PressesClassified` |
| `WebsocketSession_proofs` | `TypeCorrect`, `GatedUntilLogin`, `Invariance` (`IInv`), `ViewFollowed` |
| `Server_proofs` | `TypeCorrect`, `PanicsAreExplained`, `NothingSleptOver`, `DestinedHolds`; of the configuration `Destination`, `OnlyTimes`, `OwnButton`, `HomeReadsBack`; of the text `PrintsBack`, `MovingIsLost`, `ActionPrintsBack` |
| `Updates_proofs` | lemmas only |

The assumptions are those of the modules: the ids of relays and shutters are
distinct and none is the "no id" marker; run times are naturals; capacities are
positive; no broadcast value is the marker of "none"; from the end of one client to the
next passes at least the time a request may still be on its way and the write window
(`GraceAssumption`: the shutdown sleeps a second, the window is 15 ms; `SHUTDOWN_GRACE_MS`
may be 0, and a panic or a kill skips the sleep, so that it is then left to the service
manager not to start the next server within that time); the ids of inputs and outputs, and those of plain and long buttons, are
different. Of the standard library the theorems about text assume that a
printed integer parses to itself, and that none of the server's words is a number.

Why the invariants are what they are:

*Controller.* `Interlock` is not inductive by itself: that `SwitchOn` finds both coils
off is known only because `stop_shutter` came first, which is `OffBeforeOn`, which in
turn needs to know that the program counter and the job agree (`JobFits`).
`MotionTimed` breaks in `EndExpiry`, which forgets a whole batch of tasks, unless every
shutter of the batch that was already served is off, and every task of the batch has
nothing left (`LoopFits`): the loop awaits, so other tasks fall due meanwhile, and the
code is right only because `retain` compares with the instant read before the loop.
Restarts are why the invariants speak of shutters the startup loop has reached: before
that a motor may still be running from the life before. `TruthfulReport` is proved from
`IInv`; `BeliefAtRest` from both and `Believed`, that at every await what the controller
believes of an output is what it has broadcast, or nothing, if that is what the startup
loop left. In the refinement, `halted` of a motor is "the controller is serving this
shutter for a reason other than an expiry".

*Broadcasts.* Five properties have one form: what a receiver knows, updated by the
queues on the way to it, is what the sender last said (`Latest` of `Updates`).
`Updates_proofs` says once how `Latest` changes when an entry is appended, taken or
moved from one queue to the next, and each step of a component is an application.
`OutputsFollow`, `StatesFollow` and `RawFollows` are inductive with the types.
`ViewFollows` is not: that an answer with the home data is no older than what the
session has forwarded can only be known from both shares of the broadcasts, the
engine's and the session's, ending in the last value (`SharesFollow`), and fails exactly
for the outputs whose news were still in the engine's share and no longer in the
session's (`overtaken`).

*Rules engine.* `ReadsItsWrites` is about one step, but the promise in a request was
made when it was queued: `Promised` says of every request in the channel that it
promises what its predecessors will leave behind, which taking the first message
does not change. `EmitsPlan` speaks of the end of an event; on the way there, what has
been done, what the rule at hand still asks for, and what the rules before it ask for
make up the plan (`OnPlan`; this is where rules are evaluated late, but on values that
no one else writes), and what was skipped was skipped before anything was sent to
the same output (`InTime`: outputs become known and stay so).

*MQTT client.* `NoFalseOnline` is inductive once the retained topics are known to keep
their domain: every step that ends a connection or the process executes the last will.
`OfflineIsLast` needs `EndsOffline`: from the shutdown on, the last word on the server
of all that is retained, queued or still to be sent is "offline". The event loop may
put an announcement between the offline messages, but the announcement is about the
entities only.

*Main server.* `Classified` follows from what is known of a long button at every
moment (`Known`): without a fault its datagrams alternate and there is an instant to
compare with exactly when a release is next (`Alternate`), which is at most the jitter
younger than the press (`Measured`); with one fault at most, no release is compared
with an instant older than its own press (`NoOlder`). A lost release and then a lost
press break the latter, which is the reason for the bound of two faults.

*Websocket session.* `Gated` needs `LoginSaid`: only on a connection on which a right
login has been said, and no wrong one heard since, is anyone authenticated or will be by
what is in the socket.

*Modbus client.* That a client without memory spares the relays after a restart is only
known from the age of the gap: a write is at least as old as the gap less `Transit`, and
a request that has not landed yet goes to a coil whose last write is out of the window
(it was sent then). `GraceAssumption` says that the gap is long enough.

*Server.* `Destination` is the reason for `DestinedHolds`: an id of its own is what makes
the last definition, the only list with the id and the last controller with it all be
the same; with an id that is used twice none of this can be said. `PanicsExplained` needs
the reason of the panic at the step that makes it, that no step changes the
configuration, and that a controller that can panic is one of this configuration and
was not told to keep out (`TypeOK` says which controllers a process has). Its list is
complete for the code of this repository that runs in a task of `main`, as read for it:
besides the actions that panic in the model, the candidates are `read().unwrap()` of
the value locks (`rules_engine.rs:199`; a lock is poisoned by a panic of a thread that
holds it, which no code does), the `select_all` of the outputs (never empty, as
`handle_rx` is one of them), differences of `Instant`s (which saturate), and `unwrap`s
of what the lines before have checked (`rules_engine.rs:83`,
`wago_modbus_controller.rs:73`) or what is taken once (`main.rs:239` and `244`). Panics inside
libraries are not considered. The MQTT event loop is spawned: its panics do not end
the process.
`SleptOver` needs that a sleeping time controller has read all its dates,
that all existed then, and that it sleeps until the first of them (`Sleeping`).

*Induction over data.* The library's induction theorems take an operator as a parameter,
which the provers cannot instantiate. `Updates_proofs` does without: from the
well-foundedness of the naturals, which is stated for a set, `Least` (a set of naturals
has a least element) and `Climbing` (a set that has 0 and is closed under successors has
all of `0..m`) follow, and from these `Recursion` and `OneSolution`, that a recursion
over `1..m` has a solution, and one only. That is enough to say what the community
modules' `FlattenSeq`, a recursive function, makes of a sequence of sequences
(`FlattenHead` and `FlattenType` of `RulesEngine_proofs`), which is what the engine's two
nested loops are compared with.

*Only model-checked*: the liveness properties (`MotorStops`, `DispatcherReleased`,
`ShutdownEnds`, `ComesToRest`, `InputTaken`, `HeartbeatsGoOn`), which are out of the
prover's reach; and `ImplementsLine` of the house, whose refinement mapping is made of
eight queues in a row. The safety of its parts is proved, but the house instantiates
them with other channels and other interleavings than their own `Spec`, so that those
theorems do not carry over by themselves.

## Simplifications

- The addresses of the coils of one PLC are distinct; a configuration that uses
  one twice is outside the model.
- In `WagoModbusController` a modbus request whose controller is gone reaches its
  coil, if at all, before the next server starts; in `ModbusClient` it may do so until
  `Transit` is over, which `GraceAssumption` puts before the next start.
- The keep-alive timer may fire in any turn of the loop. Its read changes nothing
  but may fail, like every other call.
- `HomeData` also reports the outputs; in `RulesEngine` it holds the inputs only
  (`make_room_ios` of `ContextMaps` has the items of both).
- In the house the dispatcher takes a command and puts it into the controller's channel
  in one step: nobody else takes from the first or puts into the second.
- The instants of the clock are few and its end is not left; what a date leaves open is
  its month, which stands for the year and the day as well. The clock is not set while
  the server runs: it does not jump. `LastInstant` is reckoned on the same clock, as the
  end of what an `Instant` can be.
- In `Driving` a controller's outputs are begun with, and commands move a shutter at any
  time afterwards; what the command does to the relays before the panic of
  `Task::from_now` (the motor is on, and no task will stop it) is a `Crash` of
  `WagoModbusController` in the middle of `SwitchOn`.
- Of the many orders in which UDP may deliver, one datagram overtakes the one before it
  per fault. More at once would make `Classified` false for one fault: a release that
  overtakes both its press and the release before it is compared with an old press.
- A TLS certificate or key that cannot be loaded is one of the files that cannot be read.
- `handle_input` does not yield between receiving an event and its first send; the
  model lets the other half run there too. What is checked holds with the
  extra steps.
- Integers are unbounded but in `Driving`, where their width decides what an output's
  number becomes; no other property depends on it.
- A running main server handles each datagram within `Jitter` of its being sent,
  including any wait for room in the input channel. `Classified` says how the
  lengths of presses depend on that bound; without one they mean nothing.
- The node id of the MQTT client has no slash in it (`handle_command` counts the
  parts of a topic), and the PLCs' variables are distinct.
- The session with the MQTT broker is a clean one, the library's default.

## Not modelled

- The accept loop of `websocket_server.rs`: its TLS handshake, and several sessions
  at once. Sessions share nothing but the channels.
- `calaos_json_protocol.rs`, `calaos_protocol.rs`, `config/*.rs`: the serialisation of
  messages and files, by serde and nom; what they say is in the messages of the
  models and in the constants of `Server`.
- The search for certificates and keys in `server/src/main.rs` (`load_certs`,
  `load_keys`), and its logging.
- `websocket_client.rs`: a command line client. `event.rs`: the names of events.

## Plan

Done: the components above, their composition in `House` and `Server`, and the proofs
listed. Next:

1. Proofs: that the house implements `Line`, from the invariants of its parts.
2. An abstract button (a click per release, short or long) that `MainServer`
   implements as long as nothing is lost.
3. The accept loop with several sessions.

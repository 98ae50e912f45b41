# Models and proofs of dual

dual is a multiplayer first-person game in Rust: an authoritative UDP server
(`crates/server`), a predicting client (`crates/client`) and the code they
share (`crates/game`). These modules model what is hard to get right in it:
the reliability layer over UDP, the life of a session, the replication of the
world by delta snapshots, the prediction, playback and drawing of the client,
the loops of both programs with their users, and the parts of the library that
wait for a caller.

Contents: [the system](#the-system), [modules](#modules), [runs](#runs),
[fairness](#fairness), [proofs](#proofs), [divergences](#divergences),
[abstractions](#abstractions), [what is not modelled](#not-modelled),
[plan](#plan).

## The system

| Component | State | Operations | What is hard about it | What makes it correct |
|---|---|---|---|---|
| Reliability layer: `game/src/net/connection.rs` (`ClientConnection`), `tracking.rs`, `protocol.rs` | send sequence, `AckTracker`, `ReceiveTracker`, pending and in-flight maps, reorder buffer, history | `send_packet`, `process_packet`, `collect_resends` | loss, reordering and duplication; resends travel under new wire sequences; 16-bit sequences wrap; bounded deques | at most once on every channel, in order on the ordered one, a message stays pending until the peer has it, and arrives in the end |
| Sessions: `ConnectionManager`, `NetworkClient`, handlers of `GameServer` | client state and salts, the connections by address, id counters, player entities | connect, challenge, response, accept, deny, disconnect, kick, timeouts, reset | late and duplicated handshake messages; an address that reconnects; kicks and timeouts between any two steps | slots are not exceeded; a connected client answered the present challenge, agrees with the server on its ids and owns its player; attempts end and slots become free |
| Snapshots: `game/src/snapshot`, `generate_client_snapshot`, the store of `interpolation.rs` | the world, the ring of 256 full snapshots, the last tick acknowledged, the client's store and known entities | tick, spawn, despawn, push, delta, expand, acknowledge, clean up | the baseline of a delta is stale by the time it is used, on either side; snapshots out of order | the client rebuilds every tick exactly; every delta can be expanded |
| Prediction: `client/src/net/prediction.rs`, `send_command`, `process_commands`, `CommandProcessor` | predicted position, pending commands, queue, acknowledgements | predict, send, queue, apply, acknowledge, reconcile, decay the error | a correction is about a position some commands ago; lost, late and overflowing commands | no predicted move is lost or counted twice; small corrections are invisible; the client ends up where the server is |
| Playback: `interpolation.rs`, `game/mod.rs` | render clock, clock offset, buffer of snapshots | `push_snapshot`, `update`, `find_interpolation_indices`, `extrapolate_from_latest`, `cleanup_old_snapshots`, `reset` | a clock slewed towards a moving target; snapshots late and out of order; frames that stall | the render time neither runs back nor ahead of the server; what is drawn brackets it; nothing still needed is dropped |
| Scene: `interpolate_at_indices`, `app.rs`, the cubes of `render/mod.rs` | pools of cubes for players and props | `update_player_cubes`, `update_dynamic_props`, draw | entities come in the order of a HashMap, cubes are reused | every other player and prop is drawn once, nobody else |
| Wire conversions: `protocol.rs`, `snapshot/entity.rs`, `net/input.rs` | | encode, decode, `lerp_wrapped` | casts that truncate and wrap, half a turn | what is decoded is within a step of what was meant |
| Client: `client/src/tui`, `main.rs`, `app.rs`, `game/input.rs`, `render/menu_overlay.rs`, `update` and `disconnect` of `NetworkClient` | screen, overlay, keys held, pending scroll, accumulator | keys, menus, frames, ticks, exits | events between frames, several or no ticks in a frame, errors in the middle of one | the server is told of every exit; no key sticks; a stall has a bounded price |
| Player controller: `player/controller.rs`, `state.rs` | velocity, coyote time, jump consumed, crouch | `process` | assignments whose order decides what a second press does | a press per jump, one jump in the air, the crouch in its range |
| Server loop: `server.rs` `tick_once`, `main.rs` `run_with_tui`, packet-loss simulation | accumulator, delay queues, connections | receive, delayed packets, resends, ticks, kick, settings, shutdown | an error in a batch, a stall, the end of a session from four sides | no time lost, nothing overdue left, every session ends once |
| Server console: `tui.rs` | selection, panel, pending kick and update | keys | the client list changes under the selection | a kick hits the session that was chosen, settings stay |
| World and bodies: `world.rs`, `physics/sync.rs`, `physics/world.rs`, `simulation/command.rs` | entities, bodies, player states, command queue | spawn, despawn, apply, step, synchronise | bodies and states outlive entities; commands outlive clients | no body or state is shared, a snapshot shows where the bodies are |
| Simulation loop: `simulation/tick.rs`, `physics/snapshot.rs`, `CommandBuffer` | accumulator, ring of snapshots, commands | `update`, `rollback_to`, `get`, `latest_before`, `push`, `drain_for_tick` | a ring that holds an abandoned future | the ring tells the truth about the past; bounded work per update; no command early |
| Lobby: `lobby/mod.rs` | lobbies, membership map, matchmaking queue | create, join, leave, countdown, queue | host handover, a player in two lobbies | members are listed, a lobby has its host, and only `create_lobby` leaves a player listed who is elsewhere |
| Events: `event/queue.rs` | pending events by sequence | push, ack, clean up, drain, evict | eviction at the limit, wrap of the sequence | a reliable event leaves only when acknowledged or drained |
| Endpoint | sockets | send, receive | a batch | as the network |
| Rapier, map geometry, GPU | | | floating point, drawing | not protocol state |

How they interact. `NetworkClient::update` and `GameServer::tick_once` are the
two loops. Each drains its socket through `process_packet`, hands the payloads
to its handlers, sends through `send_packet` and lets `collect_resends` repeat
what is overdue. The server's tick then applies the queued commands, steps the
physics, copies the bodies into the entities, pushes a snapshot and sends each
client a full or a delta snapshot; the client expands it, reconciles its
prediction, inserts it for playback and acknowledges the tick. The terminal
menu and the App start, poll and drop the `NetworkClient`; the server's console
kicks and sets the packet-loss simulation between two iterations. Each process
is single-threaded in this respect: the interleaving is between the processes,
the network, the clocks and the users. The lobby, the event queue and the
simulation loop have no caller outside their modules and tests.

## Modules

| Module | Models | Correspondence |
|---|---|---|
| `Connection` | one `ClientConnection` with its two trackers | a record per connection; `SendPacket`, `ProcessPacket` and `CollectResends` are functions from connection to connection, `Result` is what `process_packet` returns. No state of its own: `Reliability` and `Session` use it |
| `Reliability` | two connections and the network | `Send`, `Resend`, `Receive`; `net` keeps every datagram, so that it may arrive never, late or twice |
| `OrderedChannel` | the abstract specification of `Reliability::Ordered` | `Submit`, `Deliver`; `Reliability` implements it in each direction (`Abstract`) |
| `Session` | clients, connection manager, handlers | one action per handler, timer or user action of `NetworkClient` and `GameServer`; the handshake travels over `Connection` |
| `SnapshotSync` | world, ring, baselines, the client's store | `Tick`, `Spawn`, `Despawn`, `HandleSnapshotAck`, `HandleSnapshot`, `CleanupOldSnapshots` |
| `Prediction` | commands there, snapshots back | `ClientStep`, `HandleClientCommand`, `Tick`, `HandleSnapshot`, `HandleSnapshotAck`, `DecayError` |
| `Playback` | the render clock over the buffer of snapshots | `BeginFrame`, `Receive`, `Update`, `Reset`; what a snapshot contains is left to `SnapshotSync`, whose `CleanupOldSnapshots` is what `DropsOnlyOld` says of this one |
| `Scene` | the entities of two snapshots, the cubes of the renderer | `Frame` is `update_player_cubes`, `update_dynamic_props` and the draw; `Accept` gives the client its own entity |
| `Conversions` | the numbers of a command and an entity on the wire | one action per direction and one for `lerp_wrapped`; floats are integers of parts |
| `Controller` | the vertical half of `PlayerController::process` | a function from player state, input and outcome of the move to the next. No state of its own: `Client` uses it |
| `Client` | the client program from menu to exit | an action per key, click and event; a frame is `BeginFrame`, `Tick`s and `EndFrame`, so that an error can end it in the middle |
| `Console` | `TuiState` and its keys | functions from console to console. `Server` uses it |
| `Server` | the loop around `tick_once` with its delay queues and the console | the iteration is a chain of steps: `BeginTickOnce`, `Receive`, `HandleDelayed`, `ProcessResends`, `ProcessDelayedPackets`, `Tick`, `TakePending`, `Key`; `Shutdown` and `TerminalFails` end it |
| `Bodies` | entities, physics bodies and player states | `Join`, `Leave`, `QueueCommand`, `BeginTick`, `ProcessCommand`, `EndTick` |
| `Simulation` | `SimulationLoop`, `FixedTimestep`, `PhysicsHistory`, `CommandBuffer` | `BeginUpdate`, `SimTick`, `EndUpdate`, `RollbackTo`, `PushCommand` |
| `Lobby`, `EventQueue` | `LobbyManager` and `Queue`; `EventQueue` | an action per method |
| `MCReliability`, `MCSession`, `MCPrediction`, `MCServer` | | constants and symmetry for TLC; `SnapshotSync` and `Client` are run directly |
| `MCParts` | | the seven modules without shared state in one run: a behaviour moves one of them and leaves the others as they begin |
| `Subsequence` | | the elements of a sequence at given places, for `retain` and its like; used by `Prediction`, `Server`, `Lobby` and `EventQueue` |
| `ReliabilityProofs`, `SessionProofs`, `SnapshotProofs`, `PredictionProofs`, `ClientProofs`, `ServerProofs`, `PartsProofs` | | theorems and proofs about the module of the same name, and about those of `MCParts` |
| `Facts` | | lemmas that these use: minima and maxima, counting, sequences, quotients, loops |

Operators whose name ends in `_Something` are mutated forms of the definition
they follow. A run with the mutated form in its place violates the property
that `PROJECT.json` pairs it with, which shows that the property can see that
kind of mistake.

## Runs

Some properties are conjunctions of parts that the module defines one by one:
`OrderedIsExact`, `SnapshotsAreUsable`, `PredictionIsExact`, `MovementIsSound`,
`LoopKeepsUp`, `KicksAreObeyed`, `BufferIsShown`, `LobbiesAgree`,
`EventsInOrder`, `TimelinesAreExact`, `WireIsClose` and `BodiesAgree`.

`tlc -config <run>.cfg <module>`. Deadlock is not checked: every model has a
last message, tick or id, after which it may stop.

| Run | Module | Instance | Shows |
|---|---|---|---|
| `Channels` | MCReliability | server: 1 reliable and 2 ordered messages, client: 1 unreliable; 4 datagrams each | no channel delivers twice, every pending message can still be settled, the ordered channel implements `OrderedChannel`, and over a link that loses nothing everything arrives |
| `Wrap` | MCReliability | 6 ordered messages, sequences modulo 5, `Window` 2, 7 datagrams | the ordered channel survives the wrap; more than one full turn of the sequence space |
| `PhantomAck` | MCReliability | as `Channels`, client with 2 messages | violation: a gap acknowledges a datagram that never arrived |
| `StuckResend` | MCReliability | same | violation: acknowledging a resend settles nothing |
| `Handshake` | MCSession | 1 client, 1 connection, 4 datagrams each way, no duplication, timeouts | the ends agree on the ids, a connected client is not thrown back into the handshake, only a server timeout leaves a player without a connection, attempts end, slots become free |
| `Slots` | MCSession | 3 clients, 2 slots, 2 connections, 2 datagrams each way, one of which arrives twice | slots are never exceeded, players are owned, a connected client answered the challenge of its present connection; symmetric in the clients; the server's timeouts are off here, the clients' are not |
| `Snapshots` | SnapshotSync | one entity that spawns, changes between 2 states and despawns; 6 ticks, ring of 6, retention 4, latency 1 | the client rebuilds each tick exactly, and every delta expands |
| `Predict` | MCPrediction | 4 commands, 3 ticks, 2 pending commands, walls at -1 and 2 | corrections lose no predicted move, small ones do not move the picture |
| `NoCorrection` | MCPrediction | no wall in reach, 3 commands, 3 ticks | violation: a diverged client is not corrected while its player stands still |
| `Client` | Client | keys Space and Control, 2 presses or scrolls, step 2, cap 3, stalls up to 5, one send error | the server is told of every chosen exit, no key sticks, no scroll is lost, a frame's ticks are bounded, each jump has its press, one jump in the air |
| `Server` | MCServer | 3 addresses, 2 slots, 3 ids, 4 packets, 6 keys, clock up to 3 with step 2, stalls up to 3, latency 0 or 1 | time is kept, nothing overdue is left, sessions end once, kicks hit what was chosen and happen, settings last, ranges stay valid |
| `Parts` | MCParts | playback up to time 7; 2 players and a prop in the scene; conversions with a few dozen parts; 3 clients and 2 commands each for the bodies; 3 players, 2 lobbies; 8 events; 4 ticks with 2 rollbacks | see the properties of the seven modules |

Why the bounds are enough. *Connection sizes*: 3 acknowledgement bits make a
gap fall inside and outside the bitfield with 4 datagrams; the deques are not
reached in the runs, and the proofs hold for every size. *Wrap*: modulo 5 with
a window of 2 is the largest window below half of the space, so the comparison
is tested at its edge on both sides. *Sessions*: 4 datagrams of the server are
challenge, acceptance and two resends, pongs or a kick; 2 connections are what
an answer to an old challenge needs; 3 clients for 2 slots are what a denial
needs, and a duplicate of any one datagram what an answer given twice needs.
*Snapshots*: a baseline age of 3 (half the ring of 6) and 6 ticks let a baseline
go stale on both sides, and the ring turn. Entities do not influence each
other in any of these functions, so one that may be in every state is
representative; `FaithfulAlways` proves it for any number. *Predict*: with 2
pending commands the third is an overflow; a wall on either side of the spawn
point at distance 1 makes the two sides move differently. *Client*: frames of
no tick, one and two ticks, and one whose delta is capped; two presses are what
a jump in the air takes, and the proofs cover any number. *Server*: three ids
let a row and an address be taken over by another session after a kick was
chosen; six keys open the panel, change a field and apply it. *Playback*: a
buffer of 3 overflows, a stall of 3 is longer than the cap of 2, a latency of 2
swaps snapshots. *Scene*: two players of which one may be the own one, in both
orders, with a prop whose cube comes between theirs. *Conversions*: the
constants are scaled down so that every value up to a few times the clamps is
an input; the ratio of a step to the wire's range does not matter to the
properties. *Bodies*: the third client joins after one has left. *Lobby*:
lobbies of 2 are full with a third player outside. *Events*: 8 events wrap a
space of 7, with 2 pending at the limit. *Simulation*: a ring of 2 is
overwritten twice in 4 ticks, and a second rollback can go back over the first.

What the environment of the three parts without a caller may do: `Lobby` any
sequence of calls; `EventQueue` any pushes and acknowledgements of sequences
that were pushed, the events pending lying within half the space; `Simulation`
rollbacks to a tick of the past, between updates, and a tick function that
drains the commands of its tick, as the docs of the module have it.

`Window`, `MaxAge` and `MaxLatency` bound the age of what arrives; `MaxWire`,
`MaxDuplicates`, `MaxMsgs`, `MaxIds`, `MaxCommands`, `MaxTick`, `MaxTime`,
`MaxPackets`, `MaxKeys`, `MaxPresses`, `MaxErrors`, `MaxLobbies`, `MaxEvents`,
`LastTick`, `MaxRollbacks`, `MaxPushes`, `MaxClients` of `Bodies` and `MaxSent`
bound the length of a behaviour; all of them are guards of the actions they
bound.

## Fairness

* `Reliability!FairSpec`: weak fairness of receiving each datagram the peer has
  not yet seen. This is an assumption about the link, that it loses nothing,
  under which `AllArrive` asks whether the code can withhold what it received.
  No fairness of resends or of sending is assumed. Over a lossy link nothing
  is claimed: `StuckResend` and `PhantomAck` show why.
* `Session!FairSpec`: weak fairness of `ClientTimeout`, `Launch` and
  `CleanupTimedOut` for each client. `update` and `tick` are called for ever by
  the loops of the TUI, the App and the server, they compare a clock with a
  fixed limit, and clocks advance. Nothing is assumed of the network or of the
  user.

Both are weak: the actions stay enabled until taken or made pointless. The
other modules state no liveness: their loops run to the end of what they were
given in each iteration, and the rest is up to the user.

## Proofs

All for every value of the constants, under the `ASSUME`s of the modules (sizes
are positive numbers). tlapm checks them with Z3, Zenon and LS4.

* `ReliabilityProofs!TypeCorrect`: `Spec => []TypeOK`. Besides the types: the
  deques keep their capacities and no datagram carries a wire sequence that was
  not assigned. It is inductive as it stands; the proof is a lemma per
  operation of `Connection` and a step per action.
* `ReliabilityProofs!OrderedDelivery`: under `HalfWindow` (`2 * Window < ChanMod`),
  `Spec => []OrderedIsExact`, the conjunction of `OrderedInOrder`, `BufferAhead`
  and `SequencesTrackMessages`, through any number of wraps. None of the three is
  inductive alone: what is delivered
  depends on what the buffer holds and on what the sequence in a datagram
  stands for, which depends on the window. `OrderedInv` is their conjunction
  with `TypeOK`; the sequences carried by what is in flight, pending and
  buffered are parts of the three. The core is a lemma about
  arithmetic: within the window, equal sequences mean equal messages and
  `sequence_greater_than_u16` orders as the messages do. The drain loop is
  handled by `RunLength`, the length of the run that starts at the next
  sequence.
* `ReliabilityProofs!OrderedRefinement`: under `HalfWindow`,
  `Spec => ImplementsOrderedChannel`. Every step is a `Submit`, a `Deliver` or
  a stutter of `OrderedChannel` in each direction; it rests on `OrderedInv`.
* `ReliabilityProofs!OnceAlways`: under `HalfWindow` and `HistoriesSuffice`,
  `Spec => []AtMostOnce`. `OnceInv` says for the reliable channel that one
  sequence names one message and that `received_reliable_history` has the
  sequence of every message delivered; for the unreliable channel, where
  nothing is resent, that a datagram whose message was delivered is still in
  `recent_sequences` or too old to arrive. The second part rests on counting:
  what `record_received` drops was followed by `MaxRecent` different sequences,
  none of them `MaxAge` older, so that the newest of them is at least `MaxAge`
  newer. Both conditions are needed. A message that is resent for ever
  (`StuckResend`) is delivered again once the history has forgotten it, and
  TLC finds a repeated datagram when `2 * MaxAge` exceeds `MaxRecent + 1`.
* `ReliabilityProofs!FollowedAlways` and `SettlesAlways`: for all sizes, a
  pending message has a transmission that the `AckTracker` waits for, or one
  that it evicted after more than `MaxPending` later datagrams
  (`PendingIsFollowed`). As long as nothing is evicted (`NothingEvicted`) that
  is `PendingCanSettle`; after an eviction nothing settles the message any more,
  for resends are not tracked.
* `SessionProofs!OwnedAlways`: `Spec => []PlayersAreOwned`, with or without
  duplication and timeouts. `OwnedInv` adds that the ids in use are below the
  counters they come from and that the entities of the world are too, so that a
  new id is above all others; and that a connection that is removed with its
  entity takes nobody else's. The handlers reduce to four lemmas: a connection
  is added, replaced with the same ids, given a new player, or removed.
* `SessionProofs!SessionTyped` (`Spec => []TypeOK`, with the bound on the slots)
  and `AnsweredAlways` (`Spec => []ConnectedAnswered`), with or without
  duplication and timeouts. `SessionInv` says of every message under way or
  waiting for an acknowledgement that its sender can have sent it: the ids in a
  challenge had been given out, an answer is to a challenge the server made, and
  what a client knows came from such a message.
* `SessionProofs!IdsAlways`, `NeverRegresses` and `OrphansOfTimeouts`: under
  `NoDuplicates`, `IdsAgree`, `NoRegress` and `OnlyTimeoutsOrphan`. `OnceInv`
  follows one handshake: the one request of a client is taken once, so it is
  challenged under one reliable sequence and answered under one, and the
  histories of both ends suppress every resend of either. With a duplicate of
  the request all three fail, as the code takes it for a reconnection.
* `SnapshotProofs!FaithfulAlways`: `Spec => []Faithful`. `FaithfulInv` says of
  every place a snapshot can be, the ring, the network, the store and the known
  entities, that it holds the world at its tick or, for a delta, the difference
  to the world at its baseline; `DeltaApplies` says that such a difference
  applied to that baseline gives back the world. Neither the latency nor the
  retention matters for that: they decide whether a delta can be expanded, not
  what comes of it.
* `SnapshotProofs!UsableAlways`: under `TimelyAssumption`,
  `Spec => []SnapshotsAreUsable`: every delta that arrives expands. `TimelyInv`
  says of each tick that was acknowledged, and of each baseline under way, that
  the client stores it unless it is `Retention` ticks old. What `push_snapshot`
  drops is that old (`OldestIsOld`), since the store is then full of younger
  ticks; `cleanup_old_snapshots` drops nothing younger by its guard.
* `PredictionProofs!ExactAlways` and `SmoothAlways`: `Spec => []PredictionIsExact`
  and `Spec => SmoothCorrection`. `RememberedInv` says that every pending
  command remembers a position as far behind the present one as the commands
  after it were predicted to go; a correction shifts all of them alike. The
  rest says that the pending commands are the last that were issued, in
  sequence, and that nothing is acknowledged that was not sent. `travelled`,
  the prefix sums of the predicted moves, is history.
* `ServerProofs`: `KeepsUpAlways`, `EndsOnceAlways`, `KicksAlways` and
  `SettingsAlways` for the four properties of `Server`. `ServerInv` has a part
  for the connections (ids are given out once, so that removing by id removes
  one session), for the sessions that ended (a session has ended exactly when
  its connection is gone), for the loop, the console and the kick: a request is
  resolved to an id when the key is pressed, and the loop takes it before the
  next key.
* `PartsProofs!PlaybackIsBehind` and `PlaybackNeverRewinds`:
  `Spec => []RenderBehindServer` and `Spec => NoRewind`, for any delay, buffer,
  stall and latency. `ClockInv` adds where the clock is between `BeginFrame` and
  `Update`, and that the estimated offset is never above the true one; the
  correction of one frame is then at most the frame's delta, by the clamp.
* `PartsProofs!BufferAlways` and `DropsOnlyOldAlways`: `Spec => []BufferIsShown`
  and `Spec => DropsOnlyOld`. `BufferInv` says that the buffer is sorted and
  bounded; a clean-up then cuts off its beginning, nothing of it is later than
  the render clock less a second, and the pair that the scan finds is the
  closest.
* `PartsProofs!LobbiesAgreeAlways` and `GhostsOfCreate`, `EventsAlways` and
  `ReliableStaysAlways`, `TimelinesAlways`: the properties of `Lobby`,
  `EventQueue` and `Simulation`. For the lobby, nobody is in one twice, so that
  a lobby that loses a player and is not removed has somebody to be its host.
  For the queue, the numbers grow along it and span less than half of the
  sequence space. For the history, a slot has the state of a tick that belongs
  to it, and the one slot that a rollback leaves wrong is overwritten before its
  tick is past again.
* `PartsProofs!WireAlways`: `ConversionSpec => []WireIsClose`, for all scales and
  ranges. A cast drops less than one step, towards zero; `normalize_angle` takes
  off whole turns; and each key adds one bit to a sum that does not have it yet.
  What it says of a yaw rests on `PI * 10000` fitting an `i16`, which
  `ConversionAssumption` states of the constants.
* `PartsProofs!SceneAlways`: `SceneSpec => EachDrawnOnce`. `SceneInv` says that
  the two pools share out the cubes, so that a new cube is in one of them and
  painting one pool leaves the other as it was. Each visible cube then is at a
  place that only one entity can have, and there are as many of either.
* `PartsProofs`, on `Bodies`: `BodiesAgreeAlways` (`BodiesSpec => []BodiesAgree`) and
  `GhostsStandStill`, for any number of clients, props and places. `BodiesInv`
  adds that the props have the first ids and bodies and that every connection
  has a player's entity in the world, `StatesInv` that a movement state belongs
  to an id that was given out: what is new is then nobody else's, and a body
  without an entity never gets one again.
* `ClientProofs`: every property of `Client`, for any keys, steps, caps,
  stalls, numbers of presses and errors; `MovesSoundly` gathers `ClientIsTyped`,
  `JumpPerPress` and `AirJumpsOnce`. `ClientInv` has one part per property,
  none of which is inductive as it stands. `Told` follows the screens; `Current`
  adds that nothing is held while the overlay is open; `Credit` counts: the
  jumps so far, the press that the input of the frame has ready, and the one
  that waits are together at most the presses; `Budget` says that the ticks of a
  frame times their length, plus what the accumulator still has, are within the
  cap and a rest of less than a step; `Airborne` bounds the jumps of a flight by
  what is left of the coyote time.

Only model-checked: liveness (`AllArrive`, `AttemptEnds`, `SlotFreed`), which is
out of the provers' reach.

Two forms in the modules serve the proofs and change nothing that is computed.
The provers cannot reason about an operator that takes a test as a parameter
(`SelectSeq`), nor about a recursive operator. What the code does by `retain`,
`filter` or `remove` is therefore `Retain(s, I)`, the elements of `s` at the
places `I`; loops that carry a value (`process_commands`, the scan of
`latest_before`, the flags of a command) are recursive functions. That such a
function exists, and that an invariant holds of each of its values, is shown
from the least argument at which it would fail (`Facts!LoopExists`), because
the induction rules of the library are out of reach for the same reason.

Some theorems have conditions on the environment that the code does not
enforce. Each is a definition that the shipped numbers satisfy in ordinary use.

* `HalfWindow`: fewer than 2^15 ordered messages are under way at once.
* `HistoriesSuffice`: a datagram arrives before 64 newer ones were sent
  (`recent_sequences` has 128), and a peer sends at most 256 reliable messages.
  The program sends a handful in a session (`server.rs:140`, `456`, `513`,
  `client.rs:112`, `303`). In the runs `Channels` satisfies it.
* `NothingEvicted`: a peer sends at most 1024 datagrams, the capacity of the
  `AckTracker`. A longer session is covered by `FollowedAlways`.
* `NoDuplicates`: the network delivers no datagram twice. `Slots` checks, and
  the other theorems on `Session` prove, what holds with duplicates.
* `TimelyAssumption`: a baseline younger than 128 ticks, and a latency of up to
  52 ticks, stay within the 180 ticks the client retains; the store holds 256.

## Divergences

Where the code does something else than what the repository says of it, and a
run shows it:

* `PhantomAck`: `ReceiveTracker::record_received` (`tracking.rs:145`) shifts the
  bitfield by the whole gap and then sets bit 0, the bit of the datagram just
  before the new one, whether or not that one arrived.
* `StuckResend`: `collect_resends` (`connection.rs:240`) does not tell the
  `AckTracker` of the wire sequence of a resend, so its acknowledgement is
  ignored and the message is resent for ever.
* `NoCorrection`: `handle_snapshot` (`client.rs:348`) looks for the player in the
  raw delta, which leaves out an entity that did not change.

Met while reading, and part of the models, without a run of their own:

* `last_received` starts at 0 (`tracking.rs:125`), so a peer that has received
  nothing acknowledges datagram 0 of the other: the reliable ConnectionChallenge
  is then not sent again when lost, against `server.rs:450`.
* The ConnectionRequest is sent once and unreliably, and `kick_client` forgets
  the Disconnect it sent, although both are to be reliable
  (`ARCHITECTURE.md:133`); a command is sent once although the last N inputs are
  to be repeated (`README.md:56`).
* `handle_snapshot` (`client.rs:366`) acknowledges snapshots that
  `expand_snapshot` rejected, and the server goes on building on them. With the
  shipped numbers that takes a latency above 52 ticks.
* Commands are applied in order of arrival, not by tick (`ARCHITECTURE.md:152`);
  a correction shifts what was predicted instead of replaying it
  (`ARCHITECTURE.md:79`).
* `tick_once` (`server.rs:171`) catches up on any stall without the clamp of
  `README.md:62` and `ARCHITECTURE.md:176`; `TimeKept` shows that the time is all
  made up for. The client clamps, but an error in sending a command leaves the
  rest of the frame's time to the next one.
* The jump from the ground leaves the coyote time full (`controller.rs:219`
  refills what line 214 cleared), so that a second press within 3 ticks jumps
  once more in the air; `OneAirJump` (of `MovementIsSound`) says that there is no
  third.
* `despawn` removes an entity but not its body or its player state: the body
  stays in the way (`GhostsStand`).
* `create_lobby` does not look where the host is (`OnlyCreateLeavesGhosts`).
* A repeated ConnectionRequest resets the packet-loss settings that the console
  made for a connection, when a global loss is configured (`server.rs:442`).

## Abstractions

* A payload is a number (`Reliability`: its place among the messages of its
  channel) or a record of the fields the handlers look at.
* A client salt is the client, a server salt the client id; xor of two is the
  pair. Salts never collide.
* Clocks are not modelled. A resend may be due at any time for any pending
  message, a timeout may strike whenever its state allows, a ping may be sent
  at any time.
* The network is a set of datagrams, of which `MaxDuplicates` may arrive again.
  In `Session` the packet-loss simulation of the server is part of it; in
  `Server` its two delay queues are kept apart.
* `ShiftIn` is the shift of a release build, which masks the amount to 5 bits
  and so leaves the bitfield unshifted at a gap of exactly 32; a debug build
  panics there.
* The wire sequence does not wrap (2^32 datagrams); the channel sequences do.
* An entity's state is a model value, equality is `states_equal`. Time in
  `SnapshotSync` is counted in ticks.
* `Prediction` has one dimension, one player and integer positions; `Walk`
  stands for the horizontal controller: bounded acceleration, walls.
* `Controller` has the vertical dimension in integers; what the move meets
  (ground, ceiling) is an outcome that the environment chooses. A tick of
  `Client` runs it on the prediction.
* `Server` and `Client` keep of a connection only its state: the handshake is
  `Session`'s. Loss percentage and jitter are choices.
* The components of a vector are converted alike, one stands for all.
* The `dirty` flags and `removed_entities` of the world are not in `Bodies`:
  deltas compare whole snapshots. A client that comes back is a new client there.

## Not modelled

* Rapier, the geometry of the map, and the horizontal half of the controller
  (acceleration, air control, strafing): floating point without a protocol.
  Stun and impulses have no caller.
* Rendering behind the cubes, assets, the skybox, the debug overlay, the drawing
  of both terminals and their text fields and log: no state that another part
  reads.
* rkyv encoding, RTT estimation and statistics: they decide nothing the
  properties see; when a resend is due is nondeterministic.
* Reuse of a `NetworkClient` after `reset`: the program makes a new one for each
  attempt.
* The panics of a debug build, and those of a tick rate of 0.
* The clock of a lobby's countdown, which nothing reads.

## Plan

Done, in this order: `Connection` and `Reliability` with `OrderedChannel`,
`Session`, `SnapshotSync`, `Prediction`; `Playback`, `Controller` and `Client`,
`Console` and `Server`, `Lobby`, `EventQueue`, `Simulation`, `Conversions`,
`Scene`, `Bodies`; the proofs about all of them.

What would come next: the composition of `Playback` with `SnapshotSync`, so that
the retention follows the clock instead of the assumption on it; a refinement
from the delay queues of `Server` to the network of `Session`.

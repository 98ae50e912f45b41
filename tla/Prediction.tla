----------------------------- MODULE Prediction -----------------------------
(***************************************************************************)
(* A player's commands from the keyboard to the world and back:            *)
(* ClientPrediction (crates/client/src/net/prediction.rs), the command and *)
(* snapshot handling of NetworkClient (client.rs), the command queue and   *)
(* the snapshots of GameServer (crates/server/src/server.rs) and           *)
(* CommandProcessor (crates/game/src/simulation/command.rs).               *)
(*                                                                         *)
(* Space is a line with two walls.  Both sides move the player with the    *)
(* same controller (crates/game/src/player/controller.rs), here Walk: it   *)
(* accelerates towards the speed the command asks for and stops at a wall. *)
(* Only commands move the player.  Commands, snapshots and their           *)
(* acknowledgements are lost, delayed and reordered.                       *)
(***************************************************************************)
EXTENDS Integers, SequencesExt, Subsequence

CONSTANTS Speeds,             \* the speeds a command can ask for
          Accel,              \* bound on the change of speed in one command
          Lo, Hi,             \* the walls; the player spawns at 0
          MaxPendingCommands, \* MAX_PENDING_COMMANDS: 128
          SnapThreshold,      \* SNAP_THRESHOLD
          MaxDeltaAge,        \* snapshot_buffer_size / 2: 128
          MaxCommands,        \* bound on the commands
          MaxTick             \* bound on the ticks

ASSUME PredictionAssumption ==
  /\ Speeds \subseteq Int
  /\ Accel \in Nat
  /\ Lo \in Int /\ Hi \in Int /\ Lo <= 0 /\ 0 <= Hi
  /\ MaxPendingCommands \in Nat \ {0}
  /\ SnapThreshold \in Nat
  /\ MaxDeltaAge \in Nat
  /\ MaxCommands \in Nat
  /\ MaxTick \in Nat

VARIABLES
  \* the client
  position,      \* logical position
  prevPosition,  \* prev_position
  error,         \* position_error: what the picture still lags behind
  speed,         \* player_state.velocity
  pending,       \* pending_commands
  sequence,      \* command_sequence: that of the next command
  lastAcked,     \* last_acked_sequence
  \* the server
  player,        \* the entity's position and its PlayerState's speed
  queue,         \* command_queue
  commandAck,    \* last_command_ack
  tick,          \* World.tick
  ackedTick,     \* last_acked_tick
  \* the network: commands, snapshots, SnapshotAcks
  commands, snaps, acks,
  \* history
  past,          \* past[t]: the player when tick t was completed
  travelled,     \* travelled[n + 1]: how far the first n commands were predicted to go
  confirmed,     \* the last comparison with the server: sequence and position
  applied        \* the sequences the server applied, in that order

predictionVars == <<position, prevPosition, error, speed, pending, lastAcked>>
serverVars == <<player, queue, commandAck, tick, ackedTick, past, applied>>
vars == <<predictionVars, sequence, serverVars, commands, snaps, acks, travelled, confirmed>>

Init ==
  /\ position = 0 /\ prevPosition = 0 /\ error = 0 /\ speed = 0
  /\ pending = << >>
  /\ sequence = 0
  /\ lastAcked = 0
  /\ player = [position |-> 0, speed |-> 0]
  /\ queue = << >>
  /\ commandAck = 0
  /\ tick = 0
  /\ ackedTick = 0
  /\ commands = {} /\ snaps = {} /\ acks = {}
  /\ past = << >>
  /\ travelled = <<0>>
  /\ confirmed = [sequence |-> -1, position |-> 0]
  /\ applied = << >>

\* PlayerController::process on a body at b, for a command that asks for wish
Walk(b, wish) ==
  LET target  == IF wish > b.speed THEN Min({wish, b.speed + Accel})
                                   ELSE Max({wish, b.speed - Accel})
      stopped == Max({Lo, Min({Hi, b.position + target})})
  IN  [position |-> stopped, speed |-> stopped - b.position]
-----------------------------------------------------------------------------
(* The client.                                                             *)

\* store_command: the oldest is dropped when there are too many
StoreCommand(cmds, c) ==
  LET all == Append(cmds, c)
  IN  IF Len(all) > MaxPendingCommands THEN Tail(all) ELSE all

\* update: prepare_tick, apply_input, send_command
ClientStep(wish) ==
  LET b == Walk([position |-> position, speed |-> speed], wish)
  IN  /\ sequence < MaxCommands
      /\ prevPosition' = position
      /\ position' = b.position
      /\ speed' = b.speed
      /\ pending' = StoreCommand(pending, [sequence |-> sequence, wish |-> wish,
                                           after |-> b.position])
      /\ commands' = commands \cup {[sequence |-> sequence, wish |-> wish]}
      /\ sequence' = sequence + 1
      /\ travelled' = Append(travelled, travelled[sequence + 1] + (b.position - position))
      /\ UNCHANGED <<error, lastAcked, serverVars, snaps, acks, confirmed>>

\* ClientPrediction::update: the error decays
DecayError ==
  /\ \E e \in (0 .. error - 1) \cup (error + 1 .. 0) : error' = e
  /\ UNCHANGED <<position, prevPosition, speed, pending, lastAcked, sequence, serverVars,
                 commands, snaps, acks, travelled, confirmed>>

Distance(x) == IF x < 0 THEN -x ELSE x

Unacknowledged(ack) == Retain(pending, {i \in DOMAIN pending : pending[i].sequence >= ack})

\* Is the position predicted for command ack still known?
CanCompare(ack) ==
  LET rest == Unacknowledged(ack)
  IN  ack > lastAcked /\ rest # << >> /\ Head(rest).sequence = ack

Correct_KeepHistory(diff, rest) ==
  /\ position' = position + diff
  /\ prevPosition' = prevPosition + diff
  /\ pending' = rest
  /\ error' = IF Distance(diff) > SnapThreshold THEN 0 ELSE error - diff

Correct_KeepPrevious(diff, rest) ==
  /\ position' = position + diff
  /\ UNCHANGED prevPosition
  /\ pending' = [i \in DOMAIN rest |-> [rest[i] EXCEPT !.after = @ + diff]]
  /\ error' = IF Distance(diff) > SnapThreshold THEN 0 ELSE error - diff

\* reconcile, its end: shift everything predicted since by the difference,
\* and hide a small one in the error
Correct(diff, rest) ==
  /\ position' = position + diff
  /\ prevPosition' = prevPosition + diff
  /\ pending' = [i \in DOMAIN rest |-> [rest[i] EXCEPT !.after = @ + diff]]
  /\ error' = IF diff = 0 THEN error
              ELSE IF Distance(diff) > SnapThreshold THEN 0 ELSE error - diff

\* reconcile
Reconcile(serverPosition, ack) ==
  IF CanCompare(ack)
  THEN LET rest == Unacknowledged(ack)
       IN  /\ Correct(serverPosition - Head(rest).after, Tail(rest))
           /\ lastAcked' = ack
           /\ confirmed' = [sequence |-> ack, position |-> serverPosition]
           /\ UNCHANGED speed
  ELSE /\ pending' = IF ack > lastAcked THEN Unacknowledged(ack) ELSE pending
       /\ lastAcked' = IF ack > lastAcked THEN ack ELSE lastAcked
       /\ UNCHANGED <<position, prevPosition, error, speed, confirmed>>

\* handle_snapshot: reconcile if the player is in the snapshot, acknowledge
HandleSnapshot(d) ==
  /\ snaps' = snaps \ {d}
  /\ IF d.player = {}
     THEN UNCHANGED <<predictionVars, confirmed>>
     ELSE \E p \in d.player : Reconcile(p, d.commandAck)
  /\ acks' = acks \cup {d.tick}
  /\ UNCHANGED <<sequence, serverVars, commands, travelled>>
-----------------------------------------------------------------------------
(* The server.                                                             *)

\* handle_client_command
HandleClientCommand(c) ==
  /\ commands' = commands \ {c}
  /\ queue' = Append(queue, c)
  /\ UNCHANGED <<predictionVars, sequence, player, commandAck, tick, ackedTick, snaps, acks,
                 past, travelled, confirmed, applied>>

\* handle_snapshot_ack
HandleSnapshotAck(t) ==
  /\ acks' = acks \ {t}
  /\ ackedTick' = Max({t, ackedTick})
  /\ UNCHANGED <<predictionVars, sequence, player, queue, commandAck, tick, commands, snaps,
                 past, travelled, confirmed, applied>>

\* The player's position in the snapshot of the last tick of history: a delta
\* leaves the player out when its state is what it was in the baseline
PlayerIn(history) ==
  LET t == Len(history)
  IN  IF ackedTick > 0 /\ t - ackedTick < MaxDeltaAge /\ history[ackedTick] = history[t]
      THEN {} ELSE {history[t].position}

\* process_commands: the acknowledgement
AckAfter(ack, cmds) == Max({ack} \cup {c.sequence : c \in Range(cmds)})

\* process_commands: the player b after one command after the other
Moved(b, cmds) ==
  LET after[n \in 0 .. Len(cmds)] == IF n = 0 THEN b ELSE Walk(after[n - 1], cmds[n].wish)
  IN  after[Len(cmds)]

\* tick: process_commands, advance_tick, broadcast_snapshots
Tick ==
  LET moved == Moved(player, queue)
      ack   == AckAfter(commandAck, queue)
  IN  /\ tick < MaxTick
      /\ player' = moved
      /\ queue' = << >>
      /\ commandAck' = ack
      /\ tick' = tick + 1
      /\ past' = Append(past, moved)
      /\ snaps' = snaps \cup {[tick |-> tick + 1, commandAck |-> ack,
                               player |-> PlayerIn(past')]}
      /\ applied' = applied \o [i \in DOMAIN queue |-> queue[i].sequence]
      /\ UNCHANGED <<predictionVars, sequence, ackedTick, commands, acks, travelled, confirmed>>

Next ==
  \/ \E wish \in Speeds : ClientStep(wish)
  \/ DecayError
  \/ \E d \in snaps : HandleSnapshot(d)
  \/ \E c \in commands : HandleClientCommand(c)
  \/ \E t \in acks : HandleSnapshotAck(t)
  \/ Tick

Spec == Init /\ [][Next]_vars
-----------------------------------------------------------------------------
(* Properties.                                                             *)

\* TypeOK: the pending commands are the last ones issued, without a gap, none
\* of them older than the last one acknowledged, and at most
\* MaxPendingCommands; the acknowledgement sent is that of a command the
\* server applied, and both sides stay between the walls.
TypeOK ==
  /\ Len(pending) <= MaxPendingCommands
  /\ \A i \in DOMAIN pending :
       /\ pending[i].sequence = sequence - 1 - Len(pending) + i
       /\ pending[i].sequence >= lastAcked
       /\ pending[i].wish \in Speeds
  /\ Len(travelled) = sequence + 1 /\ sequence \in 0 .. MaxCommands
  /\ lastAcked \in 0 .. commandAck
  /\ commandAck = Max({0} \cup Range(applied))
  /\ ackedTick \in 0 .. tick /\ Len(past) = tick
  /\ player.position \in Lo .. Hi

\* ReconcileIsExact: wherever the corrections come from and however old they
\* are, the player is where the server last put it plus what was predicted for
\* the commands since: no move is lost or counted twice by the shifting.
ReconcileIsExact ==
  position = confirmed.position + (travelled[sequence + 1] - travelled[confirmed.sequence + 2])

\* PredictionIsExact: the pending commands are the tail of those issued and the
\* corrections are exact (prediction.rs).
PredictionIsExact == TypeOK /\ ReconcileIsExact

\* SmoothCorrection: a correction of at most SnapThreshold does not move the
\* picture, which is drawn between prev_position and position, plus the error.
SmoothCorrection ==
  [][\A d \in snaps : HandleSnapshot(d) /\ Distance(position' - position) <= SnapThreshold =>
       /\ position' + error' = position + error
       /\ prevPosition' + error' = prevPosition + error]_vars

\* SnapshotCorrects: a snapshot that acknowledges all commands puts the player
\* where it was on the server at the snapshot's tick.
SnapshotCorrects ==
  [][\A d \in snaps :
       HandleSnapshot(d) /\ d.commandAck > lastAcked /\ d.commandAck = sequence - 1 =>
         position' = past[d.tick].position]_vars
=============================================================================

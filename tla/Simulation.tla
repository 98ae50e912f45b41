----------------------------- MODULE Simulation -----------------------------
(***************************************************************************)
(* SimulationLoop, SimulationState and FixedTimestep                       *)
(* (crates/game/src/simulation/tick.rs), PhysicsHistory                    *)
(* (crates/game/src/physics/snapshot.rs) and CommandBuffer                 *)
(* (simulation/command.rs): the fixed time step with rollback.  No program *)
(* uses them yet: the environment calls update, rolls back to a tick of    *)
(* the past, and pushes commands.                                          *)
(*                                                                         *)
(* What a tick does to the physics is its input, and the state of the      *)
(* physics is the sequence of the inputs that led to it.  The tick         *)
(* function drains the commands of its tick.                               *)
(***************************************************************************)
EXTENDS Integers, FiniteSets, SequencesExt

CONSTANTS Inputs,
          TickTime,    \* dt
          MaxDelta,    \* the cap on a delta: 0.25 s
          MaxElapsed,  \* no update comes later than MaxElapsed
          Capacity,    \* of the PhysicsHistory
          MaxCommands, \* max_size of the CommandBuffer
          LastTick,    \* bound on the ticks
          MaxRollbacks,\* bound on the rollbacks
          MaxPushes    \* bound on the commands

ASSUME SimulationAssumption ==
  /\ TickTime \in Nat \ {0} /\ Capacity \in Nat \ {0} /\ MaxCommands \in Nat \ {0}
  /\ {MaxDelta, MaxElapsed, LastTick, MaxRollbacks, MaxPushes} \subseteq Nat

Empty == [tick |-> -1]  \* u32::MAX, and no snapshot

VARIABLES inUpdate,    \* is update running?
          accumulator,
          simTick,     \* World.tick
          physics,     \* PhysicsWorld
          history,     \* PhysicsHistory: slot -> tick and snapshot
          commands,    \* CommandBuffer.commands
          \* history of the model
          ticksRun,    \* ticks of this update
          rollbacks,
          commandsPushed,
          drained      \* the last tick, the commands it drained and those it left

simVars == <<inUpdate, accumulator, simTick, physics, history, commands, ticksRun, rollbacks,
             commandsPushed, drained>>

SimInit ==
  /\ inUpdate = FALSE /\ accumulator = 0 /\ ticksRun = 0
  /\ simTick = 0 /\ physics = << >>
  /\ history = [slot \in 0 .. Capacity - 1 |-> Empty]
  /\ commands = << >> /\ commandsPushed = 0
  /\ drained = [tick |-> -1, commands |-> << >>, left |-> << >>]
  /\ rollbacks = 0

\* FixedTimestep::accumulate
Accumulated(delta) == accumulator + (IF delta < MaxDelta THEN delta ELSE MaxDelta)

\* SimulationLoop::update begins
BeginUpdate(delta) ==
  /\ ~inUpdate
  /\ inUpdate' = TRUE
  /\ accumulator' = Accumulated(delta)
  /\ ticksRun' = 0
  /\ UNCHANGED <<simTick, physics, history, commands, rollbacks, commandsPushed, drained>>

\* PhysicsHistory::push, PhysicsHistory::get
StoreSnapshot(h, tick, snapshot) == [h EXCEPT ![tick % Capacity] = [tick |-> tick, snapshot |-> snapshot]]

Has_Unchecked(h, tick) == h[tick % Capacity] # Empty

Has(h, tick) == h[tick % Capacity].tick = tick

Snapshot(h, tick) == h[tick % Capacity].snapshot

\* latest_before: the scan over the slots, from the first to the last
Better(h, tick, found, slot) ==
  IF h[slot] # Empty /\ h[slot].tick < tick /\ h[slot].tick > found THEN h[slot].tick ELSE found

LatestBefore(h, tick) ==
  LET best[n \in 0 .. Capacity] == IF n = 0 THEN -1 ELSE Better(h, tick, best[n - 1], n - 1)
  IN  best[Capacity]

\* drain_for_tick: how many commands it takes, up to the first of a later tick
Due(cs, tick) ==
  LET later == {i \in DOMAIN cs : cs[i] > tick}
  IN  IF later = {} THEN Len(cs) ELSE (CHOOSE i \in later : \A j \in later : i <= j) - 1

\* store_physics_snapshot, before the tick changes anything
Stored(h, input) == StoreSnapshot(h, simTick, physics)

\* A round of the loop in update: store_physics_snapshot, the tick function,
\* step, sync_physics_to_world, advance_tick
SimTick(input) ==
  /\ inUpdate
  /\ accumulator >= TickTime
  /\ simTick < LastTick
  /\ accumulator' = accumulator - TickTime
  /\ history' = Stored(history, input)
  /\ LET n == Due(commands, simTick)
     IN  /\ commands' = SubSeq(commands, n + 1, Len(commands))
         /\ drained' = [tick |-> simTick, commands |-> SubSeq(commands, 1, n), left |-> commands']
  /\ physics' = Append(physics, input)
  /\ simTick' = simTick + 1
  /\ ticksRun' = ticksRun + 1
  /\ UNCHANGED <<inUpdate, rollbacks, commandsPushed>>

EndUpdate ==
  /\ inUpdate
  /\ accumulator < TickTime
  /\ inUpdate' = FALSE
  /\ UNCHANGED <<accumulator, simTick, physics, history, commands, ticksRun, rollbacks,
                 commandsPushed, drained>>

\* rollback_to a tick of the past that the history has.  The snapshots of the
\* ticks after it stay.
RollbackTo(tick) ==
  /\ ~inUpdate
  /\ rollbacks < MaxRollbacks
  /\ tick < simTick
  /\ Has(history, tick)
  /\ physics' = Snapshot(history, tick)
  /\ simTick' = tick
  /\ rollbacks' = rollbacks + 1
  /\ UNCHANGED <<inUpdate, accumulator, history, commands, ticksRun, commandsPushed, drained>>

\* CommandBuffer::push
PushCommand(tick) ==
  /\ ~inUpdate
  /\ commandsPushed < MaxPushes
  /\ commands' = Append(IF Len(commands) >= MaxCommands THEN Tail(commands) ELSE commands, tick)
  /\ commandsPushed' = commandsPushed + 1
  /\ UNCHANGED <<inUpdate, accumulator, simTick, physics, history, ticksRun, rollbacks, drained>>

SimNext ==
  \/ \E delta \in 0 .. MaxElapsed : BeginUpdate(delta)
  \/ \E input \in Inputs : SimTick(input)
  \/ EndUpdate
  \/ \E tick \in 0 .. LastTick : RollbackTo(tick) \/ PushCommand(tick)

SimSpec == SimInit /\ [][SimNext]_simVars
-----------------------------------------------------------------------------
(* Properties.                                                             *)

\* PastIsExact: what the history has of a past tick is the state in which that
\* tick began, on the timeline that led to the present: no snapshot of a
\* timeline that a rollback abandoned is mistaken for one of this.
PastIsExact ==
  /\ Len(physics) = simTick
  /\ \A tick \in 0 .. simTick - 1 : Has(history, tick) => Snapshot(history, tick) = SubSeq(physics, 1, tick)

\* LatestIsLatest: latest_before finds the last tick before a given one that
\* the history has.
LatestIsLatest ==
  \A tick \in 0 .. LastTick :
    LET earlier == {t \in 0 .. tick - 1 : Has(history, t)}
    IN  LatestBefore(history, tick) = IF earlier = {} THEN -1
                                      ELSE CHOOSE t \in earlier : \A s \in earlier : s <= t

\* UpdateIsBounded: an update runs no more ticks than the cap on its delta
\* allows, however late it comes.
UpdateIsBounded == ticksRun <= (MaxDelta + TickTime - 1) \div TickTime

\* NoneEarly: no command is drained before its tick, and none is left in front
\* of the buffer when its tick has been.
NoneEarly ==
  /\ \A i \in DOMAIN drained.commands : drained.commands[i] <= drained.tick
  /\ drained.left # << >> => Head(drained.left) > drained.tick

\* TimelinesAreExact: the history is that of the present timeline, and an update
\* runs a bounded number of ticks with the commands that are due.
TimelinesAreExact == PastIsExact /\ LatestIsLatest /\ UpdateIsBounded /\ NoneEarly
=============================================================================

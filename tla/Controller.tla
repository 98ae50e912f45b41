----------------------------- MODULE Controller -----------------------------
(***************************************************************************)
(* The movement of a player in one tick, as far as it has a memory:        *)
(* PlayerController::process (crates/game/src/player/controller.rs) on a   *)
(* PlayerState (state.rs).  Jumping, falling and crouching are modelled;   *)
(* the horizontal velocity is module Prediction's matter, and nothing in   *)
(* the program stuns a player or queues an impulse.                        *)
(*                                                                         *)
(* Times are in ticks.  What the physics answers to a move is an outcome:  *)
(* whether the player stands on something afterwards, and whether          *)
(* something stopped the vertical part of the move.                        *)
(***************************************************************************)
EXTENDS Integers

CONSTANTS JumpPower,   \* jump_power
          MaxFall,     \* max_fall_speed
          CoyoteTime,  \* coyote_time: 3 ticks
          CrouchFull,  \* the crouch_amount of a crouched player
          CrouchDown,  \* crouched further per tick: CrouchFull / crouch_time_down
          CrouchUp     \* and back: CrouchFull / crouch_time_up

ASSUME ControllerAssumption ==
  /\ JumpPower \in Nat \ {0} /\ MaxFall \in Nat /\ CoyoteTime \in Nat
  /\ CrouchFull \in Nat /\ CrouchDown \in Nat \ {0} /\ CrouchUp \in Nat \ {0}

Outcome == [grounded : BOOLEAN, stopped : BOOLEAN]

\* PlayerState::default.  sunk is how far crouching has moved the body down.
NewPlayer ==
  [grounded |-> TRUE, velocity |-> 0, coyote |-> 0, consumed |-> FALSE,
   crouch |-> 0, sunk |-> 0]

Limit(x, lo, hi) == IF x < lo THEN lo ELSE IF x > hi THEN hi ELSE x

\* tick_crouch
CrouchAfter(p, crouching) ==
  LET target == IF crouching THEN CrouchFull ELSE 0
      change == IF target > p.crouch THEN CrouchDown ELSE CrouchUp
  IN  p.crouch + Limit(target - p.crouch, -change, change)

\* handle_crouch_height_change: the body moves by what the crouch changed
SunkAfter(p, crouch) == p.sunk + (crouch - p.crouch)

\* can_jump, and the press has not had its jump
MayJump(p) == (p.grounded \/ p.coyote > 0) /\ ~p.consumed

\* compute_velocity: does the command make the player jump?
Jumps(p, command) == command.jump /\ MayJump(p)

\* compute_velocity and apply_gravity, the vertical part
VelocityAfter(p, command) ==
  IF Jumps(p, command) THEN JumpPower
  ELSE IF p.grounded THEN p.velocity
  ELSE Limit(p.velocity - 1, -MaxFall, JumpPower)

CoyoteAfter_Kept(p, command) ==
  IF p.grounded THEN CoyoteTime ELSE Limit(p.coyote - 1, 0, CoyoteTime)

\* compute_velocity: a jump in the air ends the coyote time; a jump from the
\* ground leaves the player with all of it
CoyoteAfter(p, command) ==
  IF p.grounded THEN CoyoteTime
  ELSE IF Jumps(p, command) THEN 0
  ELSE Limit(p.coyote - 1, 0, CoyoteTime)

\* compute_velocity: a command without a jump ends the press
ConsumedAfter(p, command) == command.jump /\ (p.consumed \/ Jumps(p, command))

\* resolve_vertical_velocity
ResolveVertical(velocity, outcome) ==
  IF outcome.stopped \/ (outcome.grounded /\ velocity <= 0) THEN 0 ELSE velocity

\* process
Process(p, command, outcome) ==
  LET crouch == CrouchAfter(p, command.crouch)
  IN  [grounded |-> outcome.grounded,
       velocity |-> ResolveVertical(VelocityAfter(p, command), outcome),
       coyote   |-> CoyoteAfter(p, command),
       consumed |-> ConsumedAfter(p, command),
       crouch   |-> crouch,
       sunk     |-> SunkAfter(p, crouch)]
=============================================================================

---------------------------- MODULE Conversions ----------------------------
(***************************************************************************)
(* What a command and an entity become on the wire, and back:              *)
(* InputState::to_command (crates/client/src/net/input.rs), ClientCommand  *)
(* and EntityState (crates/game/src/net/protocol.rs), to_network_state and *)
(* from_network_state (snapshot/entity.rs), and lerp_wrapped               *)
(* (crates/client/src/net/interpolation.rs).                               *)
(*                                                                         *)
(* A float is an integer number of parts: One parts are 1.0 where the code *)
(* scales a unit interval, and Fine parts are one step of the wire where   *)
(* it scales an angle or a velocity.  The three components of a vector are *)
(* converted alike, so that one stands for all.                            *)
(***************************************************************************)
EXTENDS Integers, FiniteSets, Sequences

CONSTANTS One,          \* parts in 1.0
          MoveSteps,    \* 127: steps of an i8 in 1.0
          Fine,         \* parts in a step of an angle or of a velocity
          HalfTurn,     \* parts in PI
          WireMax,      \* i16::MAX, also the steps of MAX_VELOCITY
          Frames,       \* 255: steps of an animation
          MaxAngle, MaxSpeed  \* bounds on the inputs, in parts

ASSUME ConversionAssumption ==
  /\ {One, MoveSteps, Fine, HalfTurn, WireMax, Frames} \subseteq Nat \ {0}
  /\ MaxAngle \in Nat /\ MaxSpeed \in Nat
  /\ HalfTurn < Fine * (WireMax + 1)  \* PI * 10000 fits an i16

Keys == {"sprint", "jump", "crouch", "fire1", "fire2", "use_key", "reload", "jump_held"}

VARIABLES input,        \* InputState
          command,      \* ClientCommand
          entity,       \* Entity
          entityState,  \* EntityState
          blend         \* arguments of lerp_wrapped, and its result

conversionVars == <<input, command, entity, entityState, blend>>

Magnitude(v) == IF v >= 0 THEN v ELSE -v

\* A cast of a float to an integer drops the fraction
Truncated(v, parts) == IF v >= 0 THEN v \div parts ELSE -((-v) \div parts)

\* The % of floats has the sign of the dividend
Remainder(v, parts) == v - parts * Truncated(v, parts)

ClampedTo(v, limit) == IF v > limit THEN limit ELSE IF v < -limit THEN -limit ELSE v

\* A cast to i16 saturates
AsI16(v) == IF v > WireMax THEN WireMax ELSE IF v < -WireMax - 1 THEN -WireMax - 1 ELSE v

\* encode_move_direction
EncodeMove(v) == Truncated(ClampedTo(v, One) * MoveSteps, One)

NormalizeAngle_OneSide(angle) ==
  LET normalized == Remainder(angle, 2 * HalfTurn)
  IN  IF normalized > HalfTurn THEN normalized - 2 * HalfTurn ELSE normalized

\* normalize_angle
NormalizeAngle(angle) ==
  LET normalized == Remainder(angle, 2 * HalfTurn)
  IN  IF normalized > HalfTurn THEN normalized - 2 * HalfTurn
      ELSE IF normalized < -HalfTurn THEN normalized + 2 * HalfTurn
      ELSE normalized

\* encode_view_angles, of the yaw
EncodeYaw(yaw) == AsI16(Truncated(NormalizeAngle(yaw), Fine))

\* FLAG_SPRINT .. FLAG_JUMP_HELD
Flag(key) ==
  CASE key = "sprint" -> 1 [] key = "jump" -> 2 [] key = "crouch" -> 4 [] key = "fire1" -> 8
    [] key = "fire2" -> 16 [] key = "use_key" -> 32 [] key = "reload" -> 64 [] key = "jump_held" -> 128

\* has_flag and set_flag(flag, true), bit by bit
HasFlag(flags, flag) == (flags \div flag) % 2 = 1

SetFlag(flags, flag) == IF HasFlag(flags, flag) THEN flags ELSE flags + flag

\* The flags that to_command sets, in its order
Flags(keys) ==
  LET order == <<"sprint", "jump", "jump_held", "crouch", "fire1", "fire2", "use_key", "reload">>
      f[i \in 0 .. Len(order)] ==
        IF i = 0 THEN 0 ELSE IF order[i] \in keys THEN SetFlag(f[i - 1], Flag(order[i])) ELSE f[i - 1]
  IN  f[Len(order)]

\* InputState::to_command
ToCommand(i) == [move |-> EncodeMove(i.move), yaw |-> EncodeYaw(i.yaw), flags |-> Flags(i.keys)]

\* encode_velocity
EncodeVelocity(v) == AsI16(Truncated(ClampedTo(v, Fine * WireMax), Fine))

\* encode_orientation, of a component of the quaternion
EncodeOrientation(v) == Truncated(ClampedTo(v, One) * WireMax, One)

\* (animation_time.fract() * 255.0) as u8: a cast to u8 saturates at 0
EncodeAnimation(time) ==
  LET frame == Truncated(Remainder(time, One) * Frames, One) IN IF frame < 0 THEN 0 ELSE frame

\* to_network_state; the position goes as it is
ToNetworkState(e) ==
  [velocity    |-> EncodeVelocity(e.velocity),
   orientation |-> EncodeOrientation(e.orientation),
   frame       |-> EncodeAnimation(e.animation)]

\* from_network_state, in parts; the orientation is times WireMax, and the
\* animation times Frames
FromNetworkState(s) ==
  [velocity |-> s.velocity * Fine, orientation |-> s.orientation * One, animation |-> s.frame * One]

\* lerp_wrapped of two frames; t and the result are in halves
LerpWrapped(from, to, t) ==
  IF 2 * Magnitude(to - from) > Frames
  THEN Remainder(IF to < from THEN 2 * from + (to + Frames - from) * t
                 ELSE 2 * (from + Frames) + (to - from - Frames) * t, 2 * Frames)
  ELSE 2 * from + (to - from) * t

NoInput == [move |-> 0, yaw |-> 0, keys |-> {}]
AtRest == [velocity |-> 0, orientation |-> 0, animation |-> 0]

ConversionInit ==
  /\ input = NoInput /\ command = ToCommand(NoInput)
  /\ entity = AtRest /\ entityState = ToNetworkState(AtRest)
  /\ blend = [from |-> 0, to |-> 0, t |-> 0, time |-> 0]

SendCommand(i) ==
  /\ input' = i
  /\ command' = ToCommand(i)
  /\ UNCHANGED <<entity, entityState, blend>>

SendEntity(e) ==
  /\ entity' = e
  /\ entityState' = ToNetworkState(e)
  /\ UNCHANGED <<input, command, blend>>

\* interpolate_entity_states, of the animation: t is at most 1.5
Blend(from, to, t) ==
  /\ blend' = [from |-> from, to |-> to, t |-> t, time |-> LerpWrapped(from, to, t)]
  /\ UNCHANGED <<input, command, entity, entityState>>

\* One input is varied at a time, and from rest: the conversions have no
\* memory and do not look at each other.
ConversionNext ==
  /\ ConversionInit
  /\ \/ \E v \in -2 * One .. 2 * One : SendCommand([NoInput EXCEPT !.move = v])
     \/ \E v \in -MaxAngle .. MaxAngle : SendCommand([NoInput EXCEPT !.yaw = v])
     \/ \E keys \in SUBSET Keys : SendCommand([NoInput EXCEPT !.keys = keys])
     \/ \E v \in -MaxSpeed .. MaxSpeed : SendEntity([AtRest EXCEPT !.velocity = v])
     \/ \E v \in -2 * One .. 2 * One : SendEntity([AtRest EXCEPT !.orientation = v])
     \/ \E v \in -One .. 3 * One : SendEntity([AtRest EXCEPT !.animation = v])
     \/ \E from, to \in 0 .. Frames, t \in 0 .. 3 : Blend(from, to, t)

ConversionSpec == ConversionInit /\ [][ConversionNext]_conversionVars
-----------------------------------------------------------------------------
(* Properties.                                                             *)

\* Less than a step smaller, and never of the other sign
Close(decoded, meant, step) ==
  /\ Magnitude(decoded - meant) < step
  /\ Magnitude(decoded) <= Magnitude(meant) /\ decoded * meant >= 0

\* MoveIsClose: the direction that the server decodes is less than a step
\* shorter than the one that the client meant, and never points the other way,
\* also where the input is longer than 1.
MoveIsClose == Close(command.move * One, ClampedTo(input.move, One) * MoveSteps, One)

\* YawIsTheSame: after any number of turns, the yaw that the server decodes is
\* less than a step from the direction in which the client looks.
YawIsTheSame ==
  /\ \E turns \in -MaxAngle .. MaxAngle :
       Magnitude(command.yaw * Fine - (input.yaw + turns * 2 * HalfTurn)) < Fine
  /\ Magnitude(command.yaw * Fine) <= HalfTurn

\* KeysReadBack: has_flag tells of each key whether it was down, whatever else
\* was.
KeysReadBack == \A key \in Keys : HasFlag(command.flags, Flag(key)) <=> key \in input.keys

\* MotionIsClose: the velocity and the orientation of an entity come back less
\* than a step smaller, and a velocity that is too large comes back as the
\* largest in its direction: it is not wrapped.
MotionIsClose ==
  LET decoded == FromNetworkState(entityState)
  IN  /\ Close(decoded.velocity, ClampedTo(entity.velocity, Fine * WireMax), Fine)
      /\ Close(decoded.orientation, ClampedTo(entity.orientation, One) * WireMax, One)

\* AnimationIsClose: the animation of an entity comes back less than a frame
\* earlier, in an interval that begins again at every whole; a negative time
\* comes back as 0.
AnimationIsClose ==
  LET decoded == FromNetworkState(entityState).animation
      meant == IF entity.animation < 0 THEN 0 ELSE (entity.animation % One) * Frames
  IN  decoded <= meant /\ meant - decoded < One

\* ShortWay: between two frames the animation goes the short way round, at
\* most half of it, and inside an interpolation it stays in the interval.
ShortWay ==
  /\ blend.t <= 2 => blend.time \in 0 .. 2 * Frames
  /\ \E way \in -Frames .. Frames :
       /\ 2 * Magnitude(way) <= Frames
       /\ (blend.from + way - blend.to) % Frames = 0
       /\ (2 * blend.from + way * blend.t - blend.time) % (2 * Frames) = 0

\* WireIsClose: a command and an entity come back from the wire as what was
\* meant, to less than a step.
WireIsClose ==
  MoveIsClose /\ YawIsTheSame /\ KeysReadBack /\ MotionIsClose /\ AnimationIsClose /\ ShortWay
=============================================================================

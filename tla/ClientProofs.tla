---------------------------- MODULE ClientProofs ----------------------------
(***************************************************************************)
(* The properties of Client hold for any keys, any speeds and times, and   *)
(* any number of presses and errors.                                       *)
(*                                                                         *)
(* The argument for each is a small invariant of its own, on top of the    *)
(* types: a connection is only ever made with the screen that leaves the   *)
(* menu (Told); what a frame puts into its commands is what is held        *)
(* (Current); a jump uses up a credit that only a press gives (Credit); a  *)
(* frame's ticks and what is left of its time add up to at most its time   *)
(* (Budget); the coyote time falls while the time in the air grows         *)
(* (Airborne).                                                             *)
(***************************************************************************)
EXTENDS Client, TLAPS

PlayerType ==
  [grounded : BOOLEAN, velocity : -MaxFall .. JumpPower, coyote : 0 .. CoyoteTime,
   consumed : BOOLEAN, crouch : 0 .. CrouchFull, sunk : 0 .. CrouchFull]

CommandType == [ticking : BOOLEAN, jump : BOOLEAN, crouch : BOOLEAN, ticks : Nat]

States == {"none", "Connecting", "ChallengeResponse", "Connected", "Disconnected"}

\* Typed: the types, and TypeOK
Typed ==
  /\ phase \in {"menu", "game", "exited"}
  /\ choice \in 0 .. 2
  /\ net \in States
  /\ overlay \in [visible : BOOLEAN, selected : 0 .. 2]
  /\ scroll \in BOOLEAN
  /\ frame \in CommandType
  /\ acc \in Nat
  /\ player \in PlayerType /\ player.sunk = player.crouch
  /\ presses \in Nat /\ jumps \in Nat /\ errors \in Nat
  /\ flight \in [ticks : 0 .. CoyoteTime + 1, jumps : Nat]

\* Told: in the menu a client is there only while its screen is, and leaves it
\* when it has connected
Told ==
  /\ phase = "menu" => net # "Connected" /\ (net # "none" => screen = "Connecting")
  /\ LeavesTold

\* Current: the input of a frame is what was held when it began, and still is
Current ==
  /\ frame.ticking => phase = "game" /\ (frame.jump <=> "Space" \in held \/ scroll)
  /\ held \subseteq down

\* Waiting: a press that the game has not been given yet
Waiting == "Space" \in down /\ "Space" \notin held

\* Ready: a press that the game has been given, and that has not had its jump
Ready == ~player.consumed /\ ("Space" \in held \/ scroll)

\* Credit: what is waiting and ready has been pressed, and has not jumped
Credit == jumps + (IF Waiting THEN 1 ELSE 0) + (IF Ready THEN 1 ELSE 0) <= presses

\* Budget: no frame is given more time than its cap and what was left over
Budget ==
  errors = 0 =>
    /\ frame.ticking => acc + frame.ticks * StepTime <= MaxFrame + (StepTime - 1)
    /\ ~frame.ticking => acc < StepTime /\ frame.ticks = 0

\* Airborne: in the air the coyote time falls, and a jump ends it
Airborne ==
  /\ player.grounded => flight = [ticks |-> 0, jumps |-> 0]
  /\ ~player.grounded =>
       /\ flight.ticks >= 1
       /\ player.coyote + flight.ticks <= CoyoteTime + 1
       /\ flight.jumps <= 1
       /\ flight.jumps = 1 => player.coyote = 0
-----------------------------------------------------------------------------
\* LimitBounds: Limit keeps a number between its bounds
LEMMA LimitBounds ==
  ASSUME NEW x \in Int, NEW lo \in Int, NEW hi \in Int, lo <= hi
  PROVE  /\ Limit(x, lo, hi) \in lo .. hi
         /\ x \in lo .. hi => Limit(x, lo, hi) = x
BY DEF Limit

\* CrouchStays: a tick keeps the crouch in its range
LEMMA CrouchStays ==
  ASSUME NEW p \in PlayerType, NEW c \in BOOLEAN
  PROVE  CrouchAfter(p, c) \in 0 .. CrouchFull
BY ControllerAssumption DEF CrouchAfter, Limit, PlayerType

\* ProcessTyped: process keeps the type of a player
LEMMA ProcessTyped ==
  ASSUME NEW p \in PlayerType, p.sunk = p.crouch,
         NEW command \in CommandType, NEW outcome \in Outcome
  PROVE  /\ Process(p, command, outcome) \in PlayerType
         /\ Process(p, command, outcome).sunk = Process(p, command, outcome).crouch
<1> DEFINE crouch == CrouchAfter(p, command.crouch)
<1>1. crouch \in 0 .. CrouchFull
  BY CrouchStays DEF CommandType
<1>2. SunkAfter(p, crouch) = crouch
  BY <1>1, ControllerAssumption DEF SunkAfter, PlayerType
<1>3. VelocityAfter(p, command) \in -MaxFall .. JumpPower
  BY ControllerAssumption DEF VelocityAfter, Limit, PlayerType
<1>4. ResolveVertical(VelocityAfter(p, command), outcome) \in -MaxFall .. JumpPower
  BY <1>3, ControllerAssumption DEF ResolveVertical
<1>5. CoyoteAfter(p, command) \in 0 .. CoyoteTime
  BY ControllerAssumption DEF CoyoteAfter, Limit, PlayerType
<1>6. ConsumedAfter(p, command) \in BOOLEAN
  BY DEF ConsumedAfter
<1> HIDE DEF crouch
<1> QED BY <1>1, <1>2, <1>4, <1>5, <1>6 DEF Process, PlayerType, Outcome, crouch

\* NetworkedStates: an update leads from a state to a state
LEMMA NetworkedStates ==
  ASSUME NEW state \in States \ {"none"}
  PROVE  Networked(state) \subseteq States \ {"none"}
BY DEF Networked, States
-----------------------------------------------------------------------------
\* TypedInit: the program starts in Typed
LEMMA TypedInit == Init => Typed
<1> SUFFICES ASSUME Init PROVE Typed
  OBVIOUS
<1>1. NewPlayer \in PlayerType /\ NewPlayer.sunk = NewPlayer.crouch
  BY ControllerAssumption DEF NewPlayer, PlayerType
<1>2. NoFrame \in CommandType
  BY DEF NoFrame, CommandType
<1>3. flight \in [ticks : 0 .. CoyoteTime + 1, jumps : Nat]
  BY ControllerAssumption DEF Init
<1>4. /\ phase \in {"menu", "game", "exited"} /\ net \in States
      /\ overlay \in [visible : BOOLEAN, selected : 0 .. 2]
  BY DEF Init, States
<1>5. choice \in 0 .. 2 /\ acc \in Nat
  BY DEF Init
<1>8. scroll \in BOOLEAN
  BY Zenon DEF Init
<1>6. presses \in Nat /\ jumps \in Nat /\ errors \in Nat
  BY DEF Init
<1>7. player \in PlayerType /\ player.sunk = player.crouch /\ frame \in CommandType
  BY <1>1, <1>2 DEF Init
<1> QED BY <1>3, <1>4, <1>5, <1>6, <1>7, <1>8 DEF Typed

\* TypedStep: every step keeps the types
LEMMA TypedStep == Typed /\ [Next]_vars => Typed'
<1> SUFFICES ASSUME Typed, [Next]_vars PROVE Typed'
  OBVIOUS
<1> USE ClientAssumption DEF Typed
<1>1. CASE MainMenuKey
  BY <1>1, LimitBounds DEF MainMenuKey, ChangeScreen, inMenu, menuVars, inputVars, Limit
<1>2. CASE ConnectKey
  BY <1>2 DEF ConnectKey, ChangeScreen, inMenu, menuVars, inputVars, States
<1>3. CASE ConnectingKey
  BY <1>3 DEF ConnectingKey, ChangeScreen, inMenu, menuVars, inputVars, States
<1>4. CASE QuitKey
  BY <1>4 DEF QuitKey, inMenu, menuVars, inputVars
<1>5. CASE MenuUpdate
  <2>1. net' \in States
    BY <1>5, NetworkedStates DEF MenuUpdate
  <2>2. acc' \in Nat
    BY <1>5 DEF MenuUpdate
  <2> QED BY <1>5, <2>1, <2>2 DEF MenuUpdate, inMenu, menuVars, inputVars
<1>6. ASSUME NEW k \in Keys, KeyPressed(k) PROVE Typed'
  BY <1>6 DEF KeyPressed, inWindow, menuVars, simVars
<1>7. ASSUME NEW k \in Keys, KeyReleased(k) PROVE Typed'
  BY <1>7 DEF KeyReleased, inWindow, menuVars, simVars
<1>8. CASE EscapePressed
  <2>1. [overlay EXCEPT !.visible = FALSE] \in [visible : BOOLEAN, selected : 0 .. 2]
    OBVIOUS
  <2>2. [visible |-> TRUE, selected |-> 0] \in [visible : BOOLEAN, selected : 0 .. 2]
    OBVIOUS
  <2>3. overlay' \in {[overlay EXCEPT !.visible = FALSE], [visible |-> TRUE, selected |-> 0]}
    BY <1>8, Zenon DEF EscapePressed
  <2>4. overlay' \in [visible : BOOLEAN, selected : 0 .. 2]
    BY <2>1, <2>2, <2>3
  <2> QED BY <1>8, <2>4 DEF EscapePressed, inWindow, menuVars, simVars
<1>9. CASE OverlayMove
  <2>1. PICK by \in {-1, 1} : overlay' = [overlay EXCEPT !.selected = Limit(@ + by, 0, 2)]
    BY <1>9 DEF OverlayMove
  <2>2. Limit(overlay.selected + by, 0, 2) \in 0 .. 2
    BY DEF Limit
  <2>3. overlay' \in [visible : BOOLEAN, selected : 0 .. 2]
    BY <2>1, <2>2
  <2> QED BY <1>9, <2>3 DEF OverlayMove, inWindow, menuVars, simVars, inputVars
<1>10. CASE OverlayEnter
  BY <1>10 DEF OverlayEnter, Exit, Disconnected, States, inWindow, menuVars, simVars
<1>11. CASE Close
  BY <1>11 DEF Close, Exit, Disconnected, States, inWindow, menuVars, simVars, inputVars
<1>12. CASE Click
  BY <1>12 DEF Click, inWindow, menuVars, simVars
<1>13. CASE ScrollUp
  BY <1>13 DEF ScrollUp, inWindow, menuVars, simVars
<1>14. ASSUME NEW elapsed \in 0 .. MaxStall, BeginFrame(elapsed) PROVE Typed'
  <2>1. net' \in States
    BY <1>14, NetworkedStates DEF BeginFrame, Playing
  <2>2. Capped(elapsed) \in 0 .. MaxFrame
    BY DEF Capped, Limit
  <2>3. acc' \in Nat
    BY <1>14, <2>2 DEF BeginFrame
  <2>4. NetInput \in CommandType
    BY DEF NetInput, CommandType
  <2>5. frame' \in CommandType
    BY <1>14, <2>4 DEF BeginFrame
  <2> QED BY <1>14, <2>1, <2>3, <2>5 DEF BeginFrame, inFrame, menuVars, Playing
<1>15. CASE Tick
  <2>1. player' \in PlayerType /\ player'.sunk = player'.crouch
    BY <1>15, ProcessTyped DEF Tick, Moves
  <2>2. flight' \in [ticks : 0 .. CoyoteTime + 1, jumps : Nat] /\ jumps' \in Nat
    BY <1>15, ControllerAssumption DEF Tick, Moves, Limit
  <2>3. acc' \in Nat
    BY <1>15 DEF Tick
  <2>4. [frame EXCEPT !.ticks = @ + 1] \in CommandType /\ NoFrame \in CommandType
    BY DEF CommandType, NoFrame
  <2>5. frame' \in CommandType /\ errors' \in Nat
    BY <1>15, <2>4 DEF Tick
  <2> QED BY <1>15, <2>1, <2>2, <2>3, <2>5 DEF Tick, inFrame, menuVars
<1>16. CASE EndFrame
  BY <1>16 DEF EndFrame, ScrollAfter, NoFrame, CommandType, States, simVars, inFrame, menuVars
<1>17. CASE UNCHANGED vars
  BY <1>17 DEF vars, menuVars, inputVars, simVars
<1> QED BY <1>1, <1>2, <1>3, <1>4, <1>5, <1>6, <1>7, <1>8, <1>9, <1>10, <1>11, <1>12,
           <1>13, <1>14, <1>15, <1>16, <1>17 DEF Next
-----------------------------------------------------------------------------
\* MenuActions, WindowActions, FrameActions: the actions by what they leave alone
MenuActions == MainMenuKey \/ ConnectKey \/ ConnectingKey \/ QuitKey \/ MenuUpdate

WindowActions ==
  \/ \E k \in Keys : KeyPressed(k) \/ KeyReleased(k)
  \/ EscapePressed \/ OverlayMove \/ OverlayEnter \/ Close \/ Click \/ ScrollUp

FrameActions == (\E elapsed \in 0 .. MaxStall : BeginFrame(elapsed)) \/ Tick \/ EndFrame

\* NextByPart: a step is a step of one of the parts
LEMMA NextByPart ==
  ASSUME [Next]_vars
  PROVE  MenuActions \/ WindowActions \/ FrameActions \/ UNCHANGED vars
BY DEF Next, MenuActions, WindowActions, FrameActions

\* MenuIsQuiet: the menu is apart from the game
LEMMA MenuIsQuiet ==
  ASSUME MenuActions
  PROVE  UNCHANGED <<overlay, inputVars, frame, player, jumps, flight, errors, down, presses, abandoned>>
<1>1. CASE MainMenuKey
  BY <1>1 DEF MainMenuKey, inMenu
<1>2. CASE ConnectKey
  BY <1>2 DEF ConnectKey, inMenu
<1>3. CASE ConnectingKey
  BY <1>3 DEF ConnectingKey, inMenu
<1>4. CASE QuitKey
  BY <1>4 DEF QuitKey, inMenu
<1>5. CASE MenuUpdate
  BY <1>5 DEF MenuUpdate, inMenu
<1> QED BY <1>1, <1>2, <1>3, <1>4, <1>5 DEF MenuActions

\* WindowIsQuiet: the window's events come between two frames, and leave the
\* menu and the simulation alone
LEMMA WindowIsQuiet ==
  ASSUME WindowActions
  PROVE  Playing /\ UNCHANGED <<menuVars, frame, simVars>>
<1>1. CASE \E k \in Keys : KeyPressed(k) \/ KeyReleased(k)
  BY <1>1 DEF KeyPressed, KeyReleased, inWindow
<1>2. CASE EscapePressed \/ Click \/ ScrollUp
  BY <1>2 DEF EscapePressed, Click, ScrollUp, inWindow
<1>3. CASE OverlayMove \/ OverlayEnter \/ Close
  BY <1>3 DEF OverlayMove, OverlayEnter, Close, inWindow
<1> QED BY <1>1, <1>2, <1>3 DEF WindowActions

\* FrameIsQuiet: a frame belongs to the game and leaves the keyboard alone
LEMMA FrameIsQuiet ==
  ASSUME FrameActions
  PROVE  phase = "game" /\ UNCHANGED <<menuVars, overlay, captured, held, down, presses>>
<1>1. CASE \E elapsed \in 0 .. MaxStall : BeginFrame(elapsed)
  BY <1>1 DEF BeginFrame, inFrame, Playing
<1>2. CASE Tick
  BY <1>2 DEF Tick, inFrame
<1>3. CASE EndFrame
  BY <1>3 DEF EndFrame, inFrame
<1> QED BY <1>1, <1>2, <1>3 DEF FrameActions
-----------------------------------------------------------------------------
\* ToldStep: whatever ends the program has told the server, or has no memory
LEMMA ToldStep == Typed /\ Told /\ [Next]_vars => Told'
<1> SUFFICES ASSUME Typed, Told, [Next]_vars PROVE Told'
  OBVIOUS
<1> USE DEF Told, LeavesTold
<1>1. CASE MenuActions
  <2>1. UNCHANGED abandoned
    BY <1>1, MenuIsQuiet
  <2>2. CASE MainMenuKey
    BY <2>1, <2>2 DEF MainMenuKey, ChangeScreen, menuVars
  <2>3. CASE ConnectKey
    BY <2>1, <2>3 DEF ConnectKey, ChangeScreen
  <2>4. CASE ConnectingKey
    BY <2>1, <2>4 DEF ConnectingKey
  <2>5. CASE QuitKey
    BY <2>1, <2>5 DEF QuitKey
  <2>6. CASE MenuUpdate
    BY <2>1, <2>6 DEF MenuUpdate, menuVars
  <2> QED BY <1>1, <2>2, <2>3, <2>4, <2>5, <2>6 DEF MenuActions
<1>2. CASE WindowActions
  <2>1. phase = "game"
    BY <1>2, WindowIsQuiet DEF Playing
  <2>2. CASE \E k \in Keys : KeyPressed(k) \/ KeyReleased(k)
    BY <2>1, <2>2 DEF KeyPressed, KeyReleased
  <2>3. CASE EscapePressed \/ OverlayMove \/ Click \/ ScrollUp
    BY <2>1, <2>3 DEF EscapePressed, OverlayMove, Click, ScrollUp
  <2>4. CASE OverlayEnter \/ Close
    BY <2>1, <2>4 DEF OverlayEnter, Close, Exit, Disconnected
  <2> QED BY <1>2, <2>2, <2>3, <2>4 DEF WindowActions
<1>3. CASE FrameActions
  <2>1. phase = "game"
    BY <1>3, FrameIsQuiet
  <2>2. CASE \E elapsed \in 0 .. MaxStall : BeginFrame(elapsed)
    BY <2>1, <2>2 DEF BeginFrame
  <2>3. CASE Tick
    BY <2>1, <2>3 DEF Tick
  <2>4. CASE EndFrame
    BY <2>1, <2>4 DEF EndFrame
  <2> QED BY <1>3, <2>2, <2>3, <2>4 DEF FrameActions
<1>4. CASE UNCHANGED vars
  BY <1>4 DEF vars, menuVars
<1> QED BY <1>1, <1>2, <1>3, <1>4, NextByPart
-----------------------------------------------------------------------------
\* CurrentStep: keys and scrolls change between two frames only
LEMMA CurrentStep == Typed /\ Current /\ [Next]_vars => Current'
<1> SUFFICES ASSUME Typed, Current, [Next]_vars PROVE Current'
  OBVIOUS
<1> USE DEF Current
<1>1. CASE MenuActions
  <2>1. phase = "menu"
    BY <1>1 DEF MenuActions, MainMenuKey, ConnectKey, ConnectingKey, QuitKey, MenuUpdate
  <2> QED BY <1>1, <2>1, MenuIsQuiet DEF inputVars
<1>2. CASE WindowActions
  <2>1. ~frame.ticking /\ frame' = frame
    BY <1>2, WindowIsQuiet DEF Playing
  <2>2. CASE \E k \in Keys : KeyPressed(k) \/ KeyReleased(k)
    BY <2>1, <2>2 DEF KeyPressed, KeyReleased
  <2>3. CASE EscapePressed \/ OverlayMove \/ OverlayEnter \/ Close \/ Click \/ ScrollUp
    BY <2>1, <2>3 DEF EscapePressed, OverlayMove, OverlayEnter, Close, Click, ScrollUp, inputVars
  <2> QED BY <1>2, <2>2, <2>3 DEF WindowActions
<1>3. CASE FrameActions
  <2>1. phase = "game" /\ UNCHANGED <<held, down>>
    BY <1>3, FrameIsQuiet
  <2>2. CASE \E elapsed \in 0 .. MaxStall : BeginFrame(elapsed)
    <3>1. /\ UNCHANGED scroll
          /\ \/ (frame' = NetInput) /\ (phase' = phase)
             \/ (frame' = frame) /\ ~frame.ticking
      BY <2>2 DEF BeginFrame, Playing
    <3>2. NetInput.jump <=> "Space" \in held \/ scroll
      BY DEF NetInput
    <3> QED BY <2>1, <3>1, <3>2
  <2>3. CASE Tick
    <3>1. UNCHANGED <<phase, scroll>> /\ frame.ticking
      BY <2>3 DEF Tick
    <3>2. CASE frame' = [frame EXCEPT !.ticks = @ + 1]
      <4>1. frame'.jump = frame.jump
        BY <3>2 DEF Typed, CommandType
      <4> QED BY <2>1, <3>1, <4>1
    <3>3. CASE frame' = NoFrame
      BY <2>1, <3>3 DEF NoFrame
    <3> QED BY <2>3, <3>2, <3>3 DEF Tick
  <2>4. CASE EndFrame
    BY <2>1, <2>4 DEF EndFrame, NoFrame
  <2> QED BY <1>3, <2>2, <2>3, <2>4 DEF FrameActions
<1>4. CASE UNCHANGED vars
  BY <1>4 DEF vars, inputVars
<1> QED BY <1>1, <1>2, <1>3, <1>4, NextByPart

\* CreditStep: a press gives a credit, a jump takes one
LEMMA CreditStep == Typed /\ Current /\ Credit /\ [Next]_vars => Credit'
<1> SUFFICES ASSUME Typed, Current, Credit, [Next]_vars PROVE Credit'
  OBVIOUS
<1>0. presses \in Nat /\ jumps \in Nat
  BY DEF Typed
<1> USE <1>0 DEF Credit, Waiting, Ready
<1>1. CASE MenuActions
  BY <1>1, MenuIsQuiet DEF inputVars
<1>2. CASE WindowActions
  <2>1. UNCHANGED <<player, jumps>>
    BY <1>2, WindowIsQuiet DEF simVars
  <2>2. ASSUME NEW k \in Keys, KeyPressed(k) PROVE Credit'
    <3>1. UNCHANGED scroll /\ down' = down \cup {k} /\ (held' = held \/ held' = held \cup {k})
      BY <2>2 DEF KeyPressed
    <3>2. CASE k # "Space"
      BY <2>1, <2>2, <3>1, <3>2 DEF KeyPressed
    <3>3. CASE k = "Space" /\ k \in down
      BY <2>1, <2>2, <3>1, <3>3 DEF KeyPressed
    <3>4. CASE k = "Space" /\ k \notin down
      BY <2>1, <2>2, <3>1, <3>4 DEF KeyPressed, Current
    <3> QED BY <3>2, <3>3, <3>4
  <2>3. ASSUME NEW k \in Keys, KeyReleased(k) PROVE Credit'
    BY <2>1, <2>3 DEF KeyReleased
  <2>4. CASE EscapePressed \/ OverlayMove \/ OverlayEnter \/ Close \/ Click
    BY <2>1, <2>4 DEF EscapePressed, OverlayMove, OverlayEnter, Close, Click, inputVars
  <2>5. CASE ScrollUp
    BY <2>1, <2>5 DEF ScrollUp
  <2> QED BY <1>2, <2>2, <2>3, <2>4, <2>5 DEF WindowActions
<1>3. CASE FrameActions
  <2>1. UNCHANGED <<held, down, presses>>
    BY <1>3, FrameIsQuiet
  <2>2. CASE \E elapsed \in 0 .. MaxStall : BeginFrame(elapsed)
    BY <2>1, <2>2 DEF BeginFrame
  <2>3. CASE Tick
    <3>1. PICK outcome \in Outcome : player' = Process(player, frame, outcome)
      BY <2>3 DEF Tick, Moves
    <3>2. player'.consumed = ConsumedAfter(player, frame)
      BY <3>1 DEF Process
    <3>3. UNCHANGED scroll /\ (frame.jump <=> "Space" \in held \/ scroll)
      BY <2>3 DEF Tick, Current
    <3>4. CASE Jumps(player, frame)
      <4>1. jumps' = jumps + 1
        BY <2>3, <3>4 DEF Tick, Moves
      <4>2. Ready /\ ~Ready'
        BY <3>2, <3>3, <3>4 DEF Jumps, MayJump, ConsumedAfter
      <4> QED BY <2>1, <4>1, <4>2
    <3>5. CASE ~Jumps(player, frame)
      <4>1. jumps' = jumps
        BY <2>3, <3>5 DEF Tick, Moves
      <4>2. Ready' => Ready
        BY <2>1, <3>2, <3>3, <3>5 DEF ConsumedAfter
      <4> QED BY <2>1, <4>1, <4>2
    <3> QED BY <3>4, <3>5
  <2>4. CASE EndFrame
    <3>1. UNCHANGED <<player, jumps>> /\ (scroll' => scroll)
      BY <2>4 DEF EndFrame, simVars, ScrollAfter
    <3> QED BY <2>1, <3>1
  <2> QED BY <1>3, <2>2, <2>3, <2>4 DEF FrameActions
<1>4. CASE UNCHANGED vars
  BY <1>4 DEF vars, inputVars, simVars
<1> QED BY <1>1, <1>2, <1>3, <1>4, NextByPart
-----------------------------------------------------------------------------
\* TicksFit: what a number of steps takes bounds the number of steps
LEMMA TicksFit ==
  ASSUME NEW ticks \in Nat, NEW time \in Nat, NEW step \in Nat \ {0}, ticks * step <= time
  PROVE  ticks <= time \div step
<1> DEFINE q == time \div step
<1>1. q \in Nat /\ time < (q + 1) * step
  <2>1. q \in Int /\ time = step * q + (time % step) /\ time % step \in 0 .. step - 1
    OBVIOUS
  <2>2. q >= 0
    OBVIOUS
  <2> HIDE DEF q
  <2>3. (q + 1) * step = step * q + step
    BY <2>1
  <2> QED BY <2>1, <2>2, <2>3
<1> HIDE DEF q
<1>2. ASSUME ticks > q PROVE FALSE
  <2>1. PICK n \in Nat : ticks = q + 1 + n
    BY <1>1, <1>2
  <2>2. ticks * step = (q + 1) * step + n * step
    BY <2>1, <1>1
  <2>3. n * step >= 0
    OBVIOUS
  <2>4. (q + 1) * step \in Int /\ n * step \in Int /\ ticks * step \in Int
    BY <1>1
  <2> QED BY <1>1, <2>2, <2>3, <2>4
<1> QED BY <1>1, <1>2 DEF q

\* BudgetStep: a tick takes its time from what the frame was given
LEMMA BudgetStep == Typed /\ Current /\ Budget /\ [Next]_vars => Budget'
<1> SUFFICES ASSUME Typed, Current, Budget, [Next]_vars PROVE Budget'
  OBVIOUS
<1> USE ClientAssumption DEF Budget
<1>0. acc \in Nat /\ errors \in Nat /\ frame \in CommandType
  BY DEF Typed
<1>1. CASE MenuActions
  <2>1. UNCHANGED <<frame, errors>>
    BY <1>1, MenuIsQuiet
  <2>2. acc' = acc \/ acc' < StepTime
    BY <1>0, <1>1 DEF MenuActions, MainMenuKey, ConnectKey, ConnectingKey, QuitKey, MenuUpdate
  <2>3. phase = "menu"
    BY <1>1 DEF MenuActions, MainMenuKey, ConnectKey, ConnectingKey, QuitKey, MenuUpdate
  <2> QED BY <2>1, <2>2, <2>3 DEF Current
<1>2. CASE WindowActions
  BY <1>2, WindowIsQuiet DEF simVars
<1>3. CASE FrameActions
  <2>1. CASE \E elapsed \in 0 .. MaxStall : BeginFrame(elapsed)
    <3>1. PICK elapsed \in 0 .. MaxStall : BeginFrame(elapsed)
      BY <2>1
    <3>2. ~frame.ticking /\ errors' = errors
      BY <3>1 DEF BeginFrame, Playing
    <3>3. CASE frame' = NetInput /\ acc' = acc + Capped(elapsed)
      <4>1. Capped(elapsed) \in 0 .. MaxFrame
        BY DEF Capped, Limit
      <4>2. frame'.ticking /\ frame'.ticks = 0
        BY <3>3 DEF NetInput
      <4>3. frame'.ticks * StepTime = 0
        BY <4>2
      <4> QED BY <1>0, <3>2, <3>3, <4>1, <4>2, <4>3
    <3>4. CASE UNCHANGED <<frame, acc>>
      BY <3>2, <3>4
    <3> QED BY <3>1, <3>3, <3>4 DEF BeginFrame
  <2>2. CASE Tick
    <3>1. frame.ticking /\ acc >= StepTime /\ acc' = acc - StepTime
      BY <2>2 DEF Tick
    <3>2. CASE frame' = [frame EXCEPT !.ticks = @ + 1] /\ errors' = errors
      <4>1. frame'.ticks = frame.ticks + 1 /\ frame'.ticking
        BY <1>0, <3>1, <3>2 DEF CommandType
      <4>2. frame.ticks \in Nat
        BY <1>0 DEF CommandType
      <4>3. frame'.ticks * StepTime = frame.ticks * StepTime + StepTime
        BY <4>1, <4>2
      <4>4. frame.ticks * StepTime \in Nat
        BY <4>2
      <4>5. errors = 0 => acc + frame.ticks * StepTime <= MaxFrame + (StepTime - 1)
        BY <3>1
      <4>6. errors = 0 => acc' + frame'.ticks * StepTime <= MaxFrame + (StepTime - 1)
        BY <1>0, <3>1, <4>3, <4>4, <4>5
      <4> QED BY <3>2, <4>1, <4>6
    <3>3. CASE frame' = NoFrame /\ errors' = errors + 1
      BY <1>0, <3>3
    <3> QED BY <2>2, <3>2, <3>3 DEF Tick
  <2>3. CASE EndFrame
    BY <2>3 DEF EndFrame, NoFrame, simVars
  <2> QED BY <1>3, <2>1, <2>2, <2>3 DEF FrameActions
<1>4. CASE UNCHANGED vars
  BY <1>4 DEF vars, simVars
<1> QED BY <1>1, <1>2, <1>3, <1>4, NextByPart

\* BudgetBounds: a frame that keeps to its budget is bounded
LEMMA BudgetBounds == Typed /\ Budget => FrameIsBounded
<1> SUFFICES ASSUME Typed, Budget, errors = 0
             PROVE  frame.ticks <= (MaxFrame + StepTime - 1) \div StepTime
  BY DEF FrameIsBounded
<1> USE ClientAssumption
<1>1. frame.ticks \in Nat /\ acc \in Nat
  BY DEF Typed, CommandType
<1>2. frame.ticks * StepTime \in Nat
  BY <1>1
<1>3. frame.ticks * StepTime <= MaxFrame + (StepTime - 1)
  <2>1. CASE frame.ticking
    BY <1>1, <1>2, <2>1 DEF Budget
  <2>2. CASE ~frame.ticking
    BY <2>2 DEF Budget
  <2> QED BY <2>1, <2>2
<1>4. MaxFrame + (StepTime - 1) \in Nat /\ MaxFrame + (StepTime - 1) = MaxFrame + StepTime - 1
  OBVIOUS
<1> QED BY <1>1, <1>3, <1>4, TicksFit

\* AirborneStep: only the ground gives back what a tick or a jump in the air takes
LEMMA AirborneStep == Typed /\ Airborne /\ [Next]_vars => Airborne'
<1> SUFFICES ASSUME Typed, Airborne, [Next]_vars PROVE Airborne'
  OBVIOUS
<1> USE DEF Airborne
<1>1. CASE MenuActions
  BY <1>1, MenuIsQuiet
<1>2. CASE WindowActions
  BY <1>2, WindowIsQuiet DEF simVars
<1>3. CASE FrameActions
  <2>1. CASE \E elapsed \in 0 .. MaxStall : BeginFrame(elapsed)
    BY <2>1 DEF BeginFrame
  <2>2. CASE EndFrame
    BY <2>2 DEF EndFrame, simVars
  <2>3. CASE Tick
    <3>1. PICK outcome \in Outcome :
            /\ player' = Process(player, frame, outcome)
            /\ flight' = IF outcome.grounded THEN [ticks |-> 0, jumps |-> 0]
                         ELSE [ticks |-> Limit(flight.ticks + 1, 0, CoyoteTime + 1),
                               jumps |-> IF Jumps(player, frame) /\ ~player.grounded
                                         THEN flight.jumps + 1 ELSE flight.jumps]
      BY <2>3 DEF Tick, Moves
    <3>2. player'.grounded = outcome.grounded /\ player'.coyote = CoyoteAfter(player, frame)
      BY <3>1 DEF Process
    <3>3. CASE outcome.grounded
      BY <3>1, <3>2, <3>3
    <3>4. CASE ~outcome.grounded
      <4>1. /\ flight'.ticks = Limit(flight.ticks + 1, 0, CoyoteTime + 1)
            /\ flight'.jumps = IF Jumps(player, frame) /\ ~player.grounded
                               THEN flight.jumps + 1 ELSE flight.jumps
        BY <3>1, <3>4
      <4>2. flight.ticks \in 0 .. CoyoteTime + 1 /\ flight.jumps \in Nat
        BY DEF Typed
      <4>3. player.coyote \in 0 .. CoyoteTime /\ CoyoteTime \in Nat
        BY ControllerAssumption DEF Typed, PlayerType
      <4>4. CASE player.grounded
        <5>1. flight.ticks = 0 /\ flight'.ticks = 1
          BY <4>1, <4>2, <4>3, <4>4 DEF Limit
        <5> QED BY <3>2, <3>4, <4>1, <4>3, <4>4, <5>1 DEF CoyoteAfter
      <4>5. CASE ~player.grounded /\ Jumps(player, frame)
        <5>1. player.coyote > 0 /\ flight.jumps = 0
          BY <4>2, <4>3, <4>5 DEF Jumps, MayJump
        <5>2. player'.coyote = 0
          BY <3>2, <4>5 DEF CoyoteAfter
        <5> QED BY <3>2, <3>4, <4>1, <4>2, <4>3, <4>5, <5>1, <5>2 DEF Limit
      <4>6. CASE ~player.grounded /\ ~Jumps(player, frame)
        BY <3>2, <3>4, <4>1, <4>2, <4>3, <4>6 DEF CoyoteAfter, Limit
      <4> QED BY <4>4, <4>5, <4>6
    <3> QED BY <3>3, <3>4
  <2> QED BY <1>3, <2>1, <2>2, <2>3 DEF FrameActions
<1>4. CASE UNCHANGED vars
  BY <1>4 DEF vars, simVars
<1> QED BY <1>1, <1>2, <1>3, <1>4, NextByPart
-----------------------------------------------------------------------------
\* ClientInv: everything the steps preserve
ClientInv == Typed /\ Told /\ Current /\ Credit /\ Budget /\ Airborne

\* ClientAlways: ClientInv is an invariant of the program
THEOREM ClientAlways == Spec => []ClientInv
<1>1. Init => ClientInv
  <2> SUFFICES ASSUME Init PROVE ClientInv
    OBVIOUS
  <2>1. Typed
    BY TypedInit
  <2>2. Told
    BY DEF Init, Told, LeavesTold
  <2>3. Current /\ Credit
    BY DEF Init, Current, Credit, Waiting, Ready, NoFrame
  <2>4. Budget
    BY ClientAssumption DEF Init, Budget, NoFrame
  <2>5. Airborne
    BY DEF Init, Airborne, NewPlayer
  <2> QED BY <2>1, <2>2, <2>3, <2>4, <2>5 DEF ClientInv
<1>2. ClientInv /\ [Next]_vars => ClientInv'
  BY TypedStep, ToldStep, CurrentStep, CreditStep, BudgetStep, AirborneStep DEF ClientInv
<1> QED BY <1>1, <1>2, PTL DEF Spec

\* ServerIsTold: for any number of events the program ends a connection only
\* after the Disconnect that tells the server, unless the graphics ran out of
\* memory (LeavesTold; app.rs, tui/mod.rs)
THEOREM ServerIsTold == Spec => []LeavesTold
<1>1. ClientInv => LeavesTold
  BY DEF ClientInv, Told
<1> QED BY <1>1, ClientAlways, PTL

\* NoKeySticks: whatever the overlay does, what the game takes for held is
\* down (InputMatchesKeyboard; app.rs, game/input.rs)
THEOREM NoKeySticks == Spec => []InputMatchesKeyboard
<1>1. ClientInv => InputMatchesKeyboard
  BY DEF ClientInv, Current, InputMatchesKeyboard
<1> QED BY <1>1, ClientAlways, PTL

\* NoSpiral: for any step, cap and stall, a frame without an error of the
\* socket runs at most the ticks of its cap (FrameIsBounded; net/client.rs)
THEOREM NoSpiral == Spec => []FrameIsBounded
<1>1. ClientInv => FrameIsBounded
  BY BudgetBounds DEF ClientInv
<1> QED BY <1>1, ClientAlways, PTL

\* JumpPerPress: the player never jumps more often than jumps were asked for
\* (JumpsArePressed; controller.rs with app.rs and game/input.rs)
THEOREM JumpPerPress == Spec => []JumpsArePressed
<1>1. ClientInv => JumpsArePressed
  BY DEF ClientInv, Typed, Credit, JumpsArePressed
<1> QED BY <1>1, ClientAlways, PTL

\* ScrollIsNotLost: a scroll goes away only with a command that jumps
\* (ScrollIsSent; app.rs, game/input.rs)
THEOREM ScrollIsNotLost == Spec => ScrollIsSent
<1>1. ClientInv /\ [Next]_vars => [scroll /\ ~scroll' => frame.ticks > 0 /\ frame.jump]_vars
  <2> SUFFICES ASSUME ClientInv, [Next]_vars, scroll, ~scroll'
               PROVE  frame.ticks > 0 /\ frame.jump
    OBVIOUS
  <2>1. CASE MenuActions
    BY <2>1, MenuIsQuiet DEF inputVars
  <2>2. CASE WindowActions
    BY <2>2 DEF WindowActions, KeyPressed, KeyReleased, EscapePressed, OverlayMove, OverlayEnter,
                Close, Click, ScrollUp, inputVars
  <2>3. CASE \E elapsed \in 0 .. MaxStall : BeginFrame(elapsed)
    BY <2>3 DEF BeginFrame
  <2>4. CASE Tick
    BY <2>4 DEF Tick
  <2>5. CASE EndFrame
    <3>1. frame.ticking /\ frame.ticks > 0
      BY <2>5 DEF EndFrame, ScrollAfter
    <3> QED BY <3>1 DEF ClientInv, Current
  <2>6. CASE UNCHANGED vars
    BY <2>6 DEF vars, inputVars
  <2> QED BY <2>1, <2>2, <2>3, <2>4, <2>5, <2>6, NextByPart DEF FrameActions
<1> QED BY <1>1, ClientAlways, PTL DEF Spec, ScrollIsSent

\* AirJumpsOnce: for any coyote time the player jumps in the air at most once
\* between two times on the ground (OneAirJump; controller.rs)
THEOREM AirJumpsOnce == Spec => []OneAirJump
<1>1. ClientInv => OneAirJump
  <2> SUFFICES ASSUME ClientInv PROVE OneAirJump
    OBVIOUS
  <2>1. flight.ticks \in 0 .. CoyoteTime + 1 /\ player.coyote \in 0 .. CoyoteTime /\ CoyoteTime \in Nat
    BY ControllerAssumption DEF ClientInv, Typed, PlayerType
  <2> QED BY <2>1 DEF ClientInv, Airborne, OneAirJump
<1> QED BY <1>1, ClientAlways, PTL

\* ClientIsTyped: the accumulator, the crouch and the fall keep their ranges
\* (TypeOK; client.rs, controller.rs)
THEOREM ClientIsTyped == Spec => []TypeOK
<1>1. ClientInv => TypeOK
  BY ControllerAssumption DEF ClientInv, Typed, PlayerType, TypeOK
<1> QED BY <1>1, ClientAlways, PTL

\* MovesSoundly: the movement is well formed, and jumps are pressed and in the
\* air rare (MovementIsSound)
THEOREM MovesSoundly == Spec => []MovementIsSound
<1>1. TypeOK /\ JumpsArePressed /\ OneAirJump => MovementIsSound
  BY DEF MovementIsSound
<1> QED BY <1>1, ClientIsTyped, JumpPerPress, AirJumpsOnce, PTL
=============================================================================

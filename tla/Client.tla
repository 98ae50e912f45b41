------------------------------- MODULE Client -------------------------------
(***************************************************************************)
(* The client program around its NetworkClient: the menu of the terminal   *)
(* (crates/client/src/tui/mod.rs), main, the App with its window           *)
(* (app.rs), the overlay (render/menu_overlay.rs), the keyboard            *)
(* (game/input.rs), and NetworkClient::update (net/client.rs) turning the  *)
(* time of a frame into commands, each of which moves the predicted player *)
(* (module Controller).                                                    *)
(*                                                                         *)
(* One thread does all of it.  The window's events are handled between two *)
(* frames; a frame is the steps BeginFrame, Tick and EndFrame, so that an  *)
(* error of the socket can end it in the middle.  What the handshake does  *)
(* is module Session's matter: here net is the state it leads to.          *)
(***************************************************************************)
EXTENDS Controller

CONSTANTS Keys,       \* the keys of the game that are played with
          StepTime,   \* command_interval
          MaxFrame,   \* the cap on the delta of a frame
          MaxStall,   \* no frame takes longer than MaxStall
          MaxPresses, \* bound on the presses of the jump key and the scrolls
          MaxErrors   \* bound on the commands that the socket refuses to send

ASSUME ClientAssumption ==
  /\ Keys \subseteq {"Space", "ControlLeft"}
  /\ StepTime \in Nat \ {0, 1} /\ MaxFrame \in Nat /\ MaxStall \in Nat
  /\ MaxPresses \in Nat /\ MaxErrors \in Nat

VARIABLES phase,     \* the menu, the game, or exited
          screen,    \* Tui.screen
          choice,    \* Tui.selected_index
          net,       \* the NetworkClient: none, or its ConnectionState
          overlay,   \* MenuOverlay: visible, selected
          captured,  \* Input.cursor_captured
          held,      \* Input.keys_held
          scroll,    \* Input.scroll_jump_pending
          frame,     \* the frame: is it ticking, its input, its ticks
          acc,       \* input_accumulator
          player,    \* ClientPrediction.player_state
          \* history
          down,      \* the keys that are down
          presses,   \* presses of the jump key and scrolls
          jumps,     \* jumps
          errors,    \* commands that could not be sent
          flight,    \* since the player stood: ticks, jumps in the air
          abandoned  \* did the graphics run out of memory?

menuVars  == <<screen, choice>>
inputVars == <<captured, held, scroll>>
simVars   == <<acc, player, jumps, flight, errors>>
vars == <<phase, menuVars, net, overlay, inputVars, frame, simVars, down, presses, abandoned>>

Options == <<"Resume", "Disconnect", "Quit">>

NoFrame == [ticking |-> FALSE, jump |-> FALSE, crouch |-> FALSE, ticks |-> 0]

\* main: the menu, or straight into the game with --server or --skip-menu
Init ==
  /\ \/ phase = "menu" /\ net = "none"
     \/ phase = "game" /\ net \in {"Connecting", "none"}
  /\ screen = "MainMenu" /\ choice = 0
  /\ overlay = [visible |-> FALSE, selected |-> 0]
  /\ captured = FALSE /\ held = {} /\ scroll = FALSE
  /\ frame = NoFrame
  /\ acc = 0
  /\ player = NewPlayer
  /\ down = {} /\ presses = 0 /\ jumps = 0 /\ errors = 0 /\ flight = [ticks |-> 0, jumps |-> 0]
  /\ abandoned = FALSE

\* What process_network and the timeouts of one update can make of the state
Networked(state) ==
  CASE state = "Connecting"        -> {state, "ChallengeResponse", "Disconnected"}
    [] state = "ChallengeResponse" -> {state, "Connected", "Disconnected"}
    [] state = "Connected"         -> {state, "Disconnected"}
    [] state = "Disconnected"      -> {state}

\* disconnect: reset, after telling the server if it is connected
Disconnected(state) == IF state = "none" THEN "none" ELSE "Disconnected"
-----------------------------------------------------------------------------
(* The menu of the terminal.                                               *)

inMenu == UNCHANGED <<overlay, inputVars, frame, player, jumps, flight, errors, down, presses, abandoned>>

ChangeScreen(s) == screen' = s /\ choice' = 0

\* handle_main_menu_key
MainMenuKey ==
  /\ phase = "menu" /\ screen = "MainMenu"
  /\ \/ choice' = Limit(choice - 1, 0, 2) /\ UNCHANGED <<phase, screen>>
     \/ choice' = Limit(choice + 1, 0, 2) /\ UNCHANGED <<phase, screen>>
     \/ choice \in {0, 1} /\ ChangeScreen("Connect") /\ UNCHANGED phase
     \/ choice = 2 /\ phase' = "exited" /\ UNCHANGED menuVars
  /\ UNCHANGED <<net, acc>> /\ inMenu

\* handle_connect_key and connect_to_server; with an invalid address or an
\* error of connect the screen stays
ConnectKey ==
  /\ phase = "menu" /\ screen = "Connect"
  /\ \/ ChangeScreen("MainMenu") /\ UNCHANGED net
     \/ net' = "Connecting" /\ screen' = "Connecting" /\ UNCHANGED choice
  /\ UNCHANGED <<phase, acc>> /\ inMenu

\* handle_connecting_key: Esc disconnects and drops the client
ConnectingKey ==
  /\ phase = "menu" /\ screen = "Connecting"
  /\ net' = "none"
  /\ ChangeScreen("MainMenu")
  /\ UNCHANGED <<phase, acc>> /\ inMenu

\* handle_key: Ctrl-C on every screen; q and Esc on the first one
QuitKey ==
  /\ phase = "menu"
  /\ phase' = "exited"
  /\ UNCHANGED <<menuVars, net, acc>> /\ inMenu

\* Tui::run: one update of the client, without input; a client that has
\* connected goes to the game
MenuUpdate ==
  /\ phase = "menu" /\ net # "none"
  /\ \E state \in Networked(net) :
       /\ net' = state
       /\ phase' = IF state = "Connected" /\ screen = "Connecting" THEN "game" ELSE "menu"
       /\ acc' = IF state = "Connected" THEN (acc + StepTime - 1) % StepTime ELSE acc
  /\ UNCHANGED menuVars /\ inMenu
-----------------------------------------------------------------------------
(* The events of the window.                                               *)

Playing == phase = "game" /\ ~frame.ticking

inWindow == UNCHANGED <<menuVars, frame, simVars>>

Exit_Silent == phase' = "exited" /\ UNCHANGED net

\* NetworkClient::shutdown and event_loop.exit
Exit == phase' = "exited" /\ net' = Disconnected(net)

\* handle_key_pressed for a key of the game: a visible overlay swallows it, and
\* holding it down repeats the event
KeyPressed(k) ==
  /\ Playing
  /\ k = "Space" /\ k \notin down => presses < MaxPresses
  /\ down' = down \cup {k}
  /\ presses' = IF k = "Space" /\ k \notin down THEN presses + 1 ELSE presses
  /\ held' = IF overlay.visible THEN held ELSE held \cup {k}
  /\ UNCHANGED <<phase, net, overlay, captured, scroll, abandoned>> /\ inWindow

KeyReleased_Hidden(k) ==
  /\ Playing
  /\ k \in down
  /\ down' = down \ {k}
  /\ held' = IF overlay.visible THEN held ELSE held \ {k}
  /\ UNCHANGED <<phase, net, overlay, captured, scroll, presses, abandoned>> /\ inWindow

\* handle_key_released for a key of the game, visible overlay or not
KeyReleased(k) ==
  /\ Playing
  /\ k \in down
  /\ down' = down \ {k}
  /\ held' = held \ {k}
  /\ UNCHANGED <<phase, net, overlay, captured, scroll, presses, abandoned>> /\ inWindow

\* Escape: show the overlay and free the cursor, or the other way round
EscapePressed ==
  /\ Playing
  /\ overlay' = IF overlay.visible THEN [overlay EXCEPT !.visible = FALSE]
                                   ELSE [visible |-> TRUE, selected |-> 0]
  /\ captured' = overlay.visible
  /\ UNCHANGED <<phase, net, held, scroll, down, presses, abandoned>> /\ inWindow

\* handle_menu_key: the arrows, and W and S
OverlayMove ==
  /\ Playing /\ overlay.visible
  /\ \E by \in {-1, 1} : overlay' = [overlay EXCEPT !.selected = Limit(@ + by, 0, 2)]
  /\ UNCHANGED <<phase, net, inputVars, down, presses, abandoned>> /\ inWindow

\* handle_menu_key: Enter
OverlayEnter ==
  /\ Playing /\ overlay.visible
  /\ IF Options[overlay.selected + 1] = "Resume"
     THEN /\ overlay' = [overlay EXCEPT !.visible = FALSE]
          /\ captured' = TRUE
          /\ UNCHANGED <<phase, net>>
     ELSE Exit /\ UNCHANGED <<overlay, captured>>
  /\ UNCHANGED <<held, scroll, down, presses, abandoned>> /\ inWindow

\* CloseRequested, or F12 released while Shift is held
Close ==
  /\ Playing
  /\ Exit
  /\ UNCHANGED <<overlay, inputVars, down, presses, abandoned>> /\ inWindow

\* The left button captures the cursor, visible overlay or not
Click ==
  /\ Playing
  /\ captured' = TRUE
  /\ UNCHANGED <<phase, net, overlay, held, scroll, down, presses, abandoned>> /\ inWindow

\* The wheel, scrolled up: trigger_scroll_jump
ScrollUp ==
  /\ Playing
  /\ captured
  /\ presses < MaxPresses
  /\ scroll' = TRUE
  /\ presses' = presses + 1
  /\ UNCHANGED <<phase, net, overlay, captured, held, down, abandoned>> /\ inWindow
-----------------------------------------------------------------------------
(* A frame: handle_redraw.                                                 *)

inFrame == UNCHANGED <<menuVars, overlay, captured, held, down, presses>>

Capped_Uncapped(elapsed) == elapsed

\* GameState::update: the delta of a frame that began elapsed after the last
Capped(elapsed) == Limit(elapsed, 0, MaxFrame)

\* to_net_input
NetInput ==
  [ticking |-> TRUE, jump |-> "Space" \in held \/ scroll, crouch |-> "ControlLeft" \in held,
   ticks |-> 0]

\* handle_redraw up to the loop of update, which an error in process_network
\* skips; a client that is disconnected ends the game
BeginFrame(elapsed) ==
  /\ Playing /\ net # "none"
  /\ \E state \in Networked(net), error \in BOOLEAN :
       /\ net' = state
       /\ phase' = IF state = "Disconnected" THEN "exited" ELSE phase
       /\ IF state = "Connected" /\ ~error
          THEN frame' = NetInput /\ acc' = acc + Capped(elapsed)
          ELSE UNCHANGED <<frame, acc>>
  /\ UNCHANGED <<scroll, player, jumps, flight, errors, abandoned>> /\ inFrame

ScrollAfter_Always(done) == FALSE

\* handle_redraw: consume_scroll_jump when update returned Ok(true)
ScrollAfter(done) == scroll /\ ~(done /\ frame.ticks > 0)

\* The player after a command of this frame, and what it did
Moves ==
  \E outcome \in Outcome :
    LET jumped == Jumps(player, frame)
    IN  /\ player' = Process(player, frame, outcome)
        /\ jumps' = IF jumped THEN jumps + 1 ELSE jumps
        /\ flight' = IF outcome.grounded THEN [ticks |-> 0, jumps |-> 0]
                     ELSE [ticks |-> Limit(flight.ticks + 1, 0, CoyoteTime + 1),
                           jumps |-> IF jumped /\ ~player.grounded THEN flight.jumps + 1
                                     ELSE flight.jumps]

\* One step of the loop: to_command, prepare_tick, apply_input, send_command.
\* An error of the socket ends the frame.
Tick ==
  /\ phase = "game" /\ frame.ticking
  /\ acc >= StepTime
  /\ acc' = acc - StepTime
  /\ Moves
  /\ \/ frame' = [frame EXCEPT !.ticks = @ + 1] /\ UNCHANGED errors
     \/ frame' = NoFrame /\ errors < MaxErrors /\ errors' = errors + 1
  /\ UNCHANGED <<phase, net, scroll, abandoned>> /\ inFrame

\* The rest of update (a ping that cannot be sent is an error, silence is a
\* timeout) and of handle_redraw (render may run out of memory)
EndFrame ==
  /\ phase = "game" /\ frame.ticking
  /\ acc < StepTime
  /\ frame' = NoFrame
  /\ \/ /\ \E done \in BOOLEAN : scroll' = ScrollAfter(done)
        /\ UNCHANGED <<phase, net, abandoned>>
     \/ /\ scroll' = ScrollAfter(TRUE)
        /\ net' = "Disconnected" /\ phase' = "exited"
        /\ UNCHANGED abandoned
     \/ /\ scroll' = ScrollAfter(TRUE)
        /\ phase' = "exited" /\ abandoned' = TRUE
        /\ UNCHANGED net
  /\ UNCHANGED simVars /\ inFrame

Next ==
  \/ MainMenuKey \/ ConnectKey \/ ConnectingKey \/ QuitKey \/ MenuUpdate
  \/ \E k \in Keys : KeyPressed(k) \/ KeyReleased(k)
  \/ EscapePressed \/ OverlayMove \/ OverlayEnter \/ Close \/ Click \/ ScrollUp
  \/ \E elapsed \in 0 .. MaxStall : BeginFrame(elapsed)
  \/ Tick \/ EndFrame

Spec == Init /\ [][Next]_vars
-----------------------------------------------------------------------------
(* Properties.                                                             *)

\* TypeOK: the accumulator keeps less than a step between frames, the crouch
\* stays in its range and moves the body by as much as it says.
TypeOK ==
  /\ phase \in {"menu", "game", "exited"}
  /\ choice \in 0 .. 2 /\ overlay.selected \in 0 .. 2
  /\ acc \in Nat
  /\ player.velocity \in -MaxFall .. JumpPower
  /\ player.coyote \in 0 .. CoyoteTime
  /\ player.crouch \in 0 .. CrouchFull /\ player.sunk = player.crouch

\* LeavesTold: unless the graphics ran out of memory, the program never ends
\* with a connection that the server has not been told is over.
LeavesTold == phase = "exited" /\ ~abandoned => net # "Connected"

\* InputMatchesKeyboard: no key is stuck: what the game takes for held is down,
\* however the overlay came and went between its press and its release.
InputMatchesKeyboard == held \subseteq down

\* FrameIsBounded: as long as the socket takes what is sent, a frame runs no
\* more ticks than the cap on its delta allows, however long it took.
FrameIsBounded == errors = 0 => frame.ticks <= (MaxFrame + StepTime - 1) \div StepTime

\* JumpsArePressed: every jump has a press of the key or a scroll of its own,
\* whatever ticks and errors lie between.
JumpsArePressed == jumps <= presses

\* ScrollIsSent: a scroll is forgotten only in a frame that ran a tick and so
\* put it in a command.
ScrollIsSent == [][scroll /\ ~scroll' => frame.ticks > 0 /\ frame.jump]_vars

\* OneAirJump: between two times on the ground the player jumps in the air at
\* most once, and only within the coyote time of having stood.
OneAirJump ==
  /\ flight.jumps <= 1
  /\ flight.ticks > CoyoteTime /\ ~player.grounded => player.coyote = 0

\* MovementIsSound: whatever the frames, the keys and the ground do, the player
\* keeps its types, jumps only when asked to, and in the air only once.
MovementIsSound == TypeOK /\ JumpsArePressed /\ OneAirJump
=============================================================================

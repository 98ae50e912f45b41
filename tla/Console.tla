------------------------------ MODULE Console ------------------------------
(***************************************************************************)
(* The console of the server: TuiState (crates/server/src/tui.rs) and the  *)
(* keys that run_with_tui (main.rs) gives it, as functions from a state of *)
(* the console to the next.                                                *)
(*                                                                         *)
(* A latency counts steps of the panel (5 ms).  The loss percentage and    *)
(* the jitter are numbers of their own and are left out, as are the log    *)
(* and its scrolling.                                                      *)
(***************************************************************************)
EXTENDS Integers, Sequences

CONSTANT MaxLatency  \* the greatest latency the panel sets

ASSUME ConsoleAssumption == MaxLatency \in Nat \ {0}

\* PacketLossSimulation
Sims  == {s \in [enabled : BOOLEAN, min : 0 .. MaxLatency, max : 0 .. MaxLatency] : s.min <= s.max}
NoSim == [enabled |-> FALSE, min |-> 0, max |-> 0]

\* packet_loss_sim and incoming_packet_loss_sim of a connection
BothWays(sim) == [outgoing |-> sim, incoming |-> sim]

\* delay_ms, without the jitter
Delays(sim) == IF ~sim.enabled \/ sim.max = 0 THEN {0} ELSE sim.min .. sim.max

Fields == <<"Direction", "Enabled", "LossPercent", "MinLatency", "MaxLatency", "Jitter">>

Nobody   == 0                \* the Option of a client id; ids start at 1
NoPanel  == [id |-> Nobody]
NoUpdate == [id |-> Nobody]

\* TuiState::new
NewConsole ==
  [tab |-> "Console", selected |-> 0, kick |-> Nobody, panel |-> NoPanel, update |-> NoUpdate]

PanelOpen(c) == c.panel # NoPanel

\* next_tab and prev_tab: there are two
NextTab(c) == [c EXCEPT !.tab = IF @ = "Console" THEN "Connections" ELSE "Console"]

\* select_next_connection, select_prev_connection: by is 1 or -1.  The list
\* may have become shorter than the index.
Select(c, by, max) ==
  IF max = 0 THEN c
  ELSE [c EXCEPT !.selected = IF by = 1 THEN (@ + 1) % max ELSE IF @ = 0 THEN max - 1 ELSE @ - 1]

\* clients.get(selected_connection)
HasSelected(c, clients) == c.selected < Len(clients)
Selected(c, clients)    == clients[c.selected + 1]

\* request_kick
RequestKick(c, clients) ==
  IF HasSelected(c, clients) THEN [c EXCEPT !.kick = Selected(c, clients).id] ELSE c

\* open_packet_loss_panel
OpenPanel(c, clients) ==
  IF HasSelected(c, clients)
  THEN [c EXCEPT !.panel = [id |-> Selected(c, clients).id, sims |-> Selected(c, clients).sims,
                            field |-> 1, direction |-> "outgoing"]]
  ELSE c

\* close_packet_loss_panel, cancel_packet_loss_panel
ClosePanel(c) ==
  [c EXCEPT !.panel = NoPanel, !.update = [id |-> c.panel.id, sims |-> c.panel.sims]]
CancelPanel(c) == [c EXCEPT !.panel = NoPanel]

\* packet_loss_panel_next_field, packet_loss_panel_prev_field
NextField(panel, by) == [panel EXCEPT !.field = ((@ - 1 + by + Len(Fields)) % Len(Fields)) + 1]

Within(x) == IF x < 0 THEN 0 ELSE IF x > MaxLatency THEN MaxLatency ELSE x

\* packet_loss_panel_adjust on a field of a simulation: a latency that passes
\* the other takes it along
Adjusted(sim, field, delta) ==
  LET min == Within(sim.min + delta)
      max == Within(sim.max + delta)
  IN  CASE field = "Enabled"    -> [sim EXCEPT !.enabled = ~@]
        [] field = "MinLatency" -> [sim EXCEPT !.min = min, !.max = IF min > @ THEN min ELSE @]
        [] field = "MaxLatency" -> [sim EXCEPT !.max = max, !.min = IF max < @ THEN max ELSE @]
        [] OTHER                -> sim

\* packet_loss_panel_adjust
Adjust(panel, delta) ==
  IF Fields[panel.field] = "Direction"
  THEN [panel EXCEPT !.direction = IF @ = "outgoing" THEN "incoming" ELSE "outgoing"]
  ELSE [panel EXCEPT !.sims[panel.direction] = Adjusted(@, Fields[panel.field], delta)]

\* run_with_tui: a key while the panel is open
PanelKey(c, key) ==
  CASE key = "Esc"   -> CancelPanel(c)
    [] key = "Enter" -> ClosePanel(c)
    [] key = "Up"    -> [c EXCEPT !.panel = NextField(@, -1)]
    [] key = "Down"  -> [c EXCEPT !.panel = NextField(@, 1)]
    [] key = "Left"  -> [c EXCEPT !.panel = Adjust(@, -1)]
    [] key = "Right" -> [c EXCEPT !.panel = Adjust(@, 1)]
    [] OTHER         -> c

\* run_with_tui: a key on a tab, with the client_infos of that moment
TabKey(c, key, clients) ==
  CASE key = "Tab"           -> NextTab(c)
    [] c.tab # "Connections" -> c
    [] key = "Up"            -> Select(c, -1, Len(clients))
    [] key = "Down"          -> Select(c, 1, Len(clients))
    [] key = "Enter"         -> OpenPanel(c, clients)
    [] key = "K"             -> RequestKick(c, clients)
    [] OTHER                 -> c

Keys == {"Esc", "Enter", "Up", "Down", "Left", "Right", "Tab", "K"}

PressKey(c, key, clients) == IF PanelOpen(c) THEN PanelKey(c, key) ELSE TabKey(c, key, clients)

\* q and Esc stop the server unless the panel is open
Quits(c, key) == ~PanelOpen(c) /\ key = "Esc"
=============================================================================

------------------------------- MODULE Server -------------------------------
(***************************************************************************)
(* The loop of the server program: GameServer::tick_once with its fixed    *)
(* time step, the packet loss simulation with its two delay queues, and    *)
(* the console that kicks clients and sets their simulation                *)
(* (crates/server/src/server.rs, main.rs, and tui.rs in module Console).   *)
(*                                                                         *)
(* One iteration is a chain of steps: receive, the delayed packets that    *)
(* are due, send, the ticks, the console's pending requests, one key.  The *)
(* clock advances between iterations.  Of a session only what the loop     *)
(* sees is kept; the handshake, the commands and the snapshots are the     *)
(* matter of Session, Prediction and SnapshotSync.                         *)
(***************************************************************************)
EXTENDS Console, FiniteSets, SequencesExt, Subsequence

CONSTANTS Addrs,       \* the addresses of clients
          MaxClients,  \* ServerConfig.max_clients
          StepTime,    \* tick_duration
          MaxStall,    \* the longest iteration
          MaxTime,     \* bound on the clock
          MaxIds,      \* bound on the client ids the server assigns
          MaxPackets,  \* bound on the packets received
          MaxKeys      \* bound on the keys pressed

ASSUME ServerAssumption ==
  /\ MaxClients \in Nat \ {0} /\ StepTime \in Nat \ {0}
  /\ {MaxStall, MaxTime, MaxIds, MaxPackets, MaxKeys} \subseteq Nat

VARIABLES phase,      \* what the loop does next
          running,    \* GameServer.running
          now, acc,   \* the clock, accumulator
          tick,       \* World.tick
          global,     \* config.global_packet_loss, if it is enabled
          conns,      \* the connections in the order in which they iterate
          nextId,     \* ConnectionManager.next_client_id
          inbox,      \* delayed_incoming_packets
          outbox,     \* delayed_packets: when they are due
          console,    \* TuiState
          \* history
          ended,      \* ended[id]: the ClientDisconnected events
          chosen,     \* the clients the operator chose to kick
          packets, keys

loopVars == <<running, now, acc, tick, global>>
sessionVars == <<conns, nextId, ended>>
vars == <<phase, loopVars, sessionVars, inbox, outbox, console, chosen, packets, keys>>

Ids == {conns[i].id : i \in DOMAIN conns}

\* GameServer::new; --simulate-packet-loss sets the global simulation
Init ==
  /\ phase = "loop" /\ running = TRUE
  /\ now = 0 /\ acc = 0 /\ tick = 0
  /\ global \in {NoSim, [enabled |-> TRUE, min |-> 1, max |-> MaxLatency]}
  /\ conns = << >> /\ nextId = 1
  /\ inbox = {} /\ outbox = {}
  /\ console = NewConsole
  /\ ended = [id \in 1 .. MaxIds |-> << >>]
  /\ chosen = {}
  /\ packets = 0 /\ keys = 0

\* get_by_addr
Known(a)  == \E i \in DOMAIN conns : conns[i].addr = a
ConnOf(a) == conns[CHOOSE i \in DOMAIN conns : conns[i].addr = a]

\* ConnectionManager::remove of a set of ids, and the events it leads to
Forget(ids, reason) ==
  /\ conns' = Retain(conns, {i \in DOMAIN conns : conns[i].id \notin ids})
  /\ ended' = [id \in DOMAIN ended |-> IF id \in ids THEN Append(ended[id], reason) ELSE ended[id]]

\* client_infos
ClientInfos == Retain(conns, {i \in DOMAIN conns : conns[i].connected})

\* The simulation of the packets that come from a or go there
SimOf(a, direction) == IF Known(a) THEN ConnOf(a).sims[direction] ELSE global

\* send_packet_simulated with sim: lost or sent, refused by the socket, or
\* put off.  An error ends the processing of the network.
SendSimulated(sim, then) ==
  \/ phase' = then /\ UNCHANGED outbox
  \/ 0 \in Delays(sim) /\ phase' = "send" /\ UNCHANGED outbox
  \/ /\ \E d \in Delays(sim) \ {0} : outbox' = outbox \cup {now + d}
     /\ phase' = then

\* What unreliable packets or resends to every client add to the outbox
\* (an error is ignored)
SendToAll ==
  \E put \in SUBSET UNION {{now + d : d \in Delays(c.sims.outgoing) \ {0}} : c \in ToSet(conns)} :
    outbox' = outbox \cup put
-----------------------------------------------------------------------------
(* tick_once: the network.                                                 *)

\* tick_once begins
BeginTickOnce(elapsed) ==
  /\ running /\ phase \in {"loop", "key"}
  /\ now + elapsed <= MaxTime
  /\ now' = now + elapsed
  /\ acc' = acc + elapsed
  /\ phase' = "receive"
  /\ UNCHANGED <<running, tick, global, sessionVars, inbox, outbox, console, chosen,
                 packets, keys>>

ConnectionRequest_Reset(a, then) ==
  IF Known(a)
  THEN /\ conns' = [i \in DOMAIN conns |->
                      IF conns[i].addr = a THEN [conns[i] EXCEPT !.sims = BothWays(global)] ELSE conns[i]]
       /\ SendSimulated(global, then)
       /\ UNCHANGED nextId
  ELSE IF Len(conns) >= MaxClients
  THEN SendSimulated(global, then) /\ UNCHANGED <<conns, nextId>>
  ELSE /\ nextId <= MaxIds
       /\ nextId' = nextId + 1
       /\ conns' \in SetToSeqs(ToSet(conns) \cup
                      {[id |-> nextId, addr |-> a, connected |-> FALSE, sims |-> BothWays(global)]})
       /\ SendSimulated(global, then)

\* handle_connection_request: a denial, or a challenge on a connection that is
\* new or was there; with a global simulation the connection gets it (again).
\* A new entry of a HashMap may change the order of the others.
ConnectionRequest(a, then) ==
  IF Known(a)
  THEN LET sims == IF global.enabled THEN BothWays(global) ELSE ConnOf(a).sims
       IN  /\ conns' = [i \in DOMAIN conns |->
                          IF conns[i].addr = a THEN [conns[i] EXCEPT !.sims = sims] ELSE conns[i]]
           /\ SendSimulated(sims.outgoing, then)
           /\ UNCHANGED nextId
  ELSE IF Len(conns) >= MaxClients
  THEN SendSimulated(global, then) /\ UNCHANGED <<conns, nextId>>
  ELSE /\ nextId <= MaxIds
       /\ nextId' = nextId + 1
       /\ conns' \in SetToSeqs(ToSet(conns) \cup
                      {[id |-> nextId, addr |-> a, connected |-> FALSE, sims |-> BothWays(global)]})
       /\ SendSimulated(global, then)

\* handle_received_packet for a packet of the session id: it concerns the
\* connection that its address has now
HandleReceivedPacket(p, then) ==
  IF p.kind = "ConnectionRequest"
  THEN ConnectionRequest(p.addr, then) /\ UNCHANGED ended
  ELSE IF p.kind = "ChallengeResponse" /\ Known(p.addr) /\ p.id = ConnOf(p.addr).id
  THEN /\ conns' = [i \in DOMAIN conns |->
                      IF conns[i].addr = p.addr THEN [conns[i] EXCEPT !.connected = TRUE] ELSE conns[i]]
       /\ SendSimulated(ConnOf(p.addr).sims.outgoing, then)
       /\ UNCHANGED <<nextId, ended>>
  ELSE IF p.kind = "Disconnect" /\ Known(p.addr)
  THEN /\ Forget({ConnOf(p.addr).id}, "Graceful")
       /\ phase' = then
       /\ UNCHANGED <<nextId, outbox>>
  ELSE phase' = then /\ UNCHANGED <<sessionVars, outbox>>

Kinds == {"ConnectionRequest", "ChallengeResponse", "Disconnect"}

\* process_network, the packets that have arrived (one that the simulation
\* drops leaves no trace)
Receive(a, kind) ==
  /\ phase = "receive"
  /\ packets < MaxPackets
  /\ packets' = packets + 1
  /\ LET p == [addr |-> a, kind |-> kind, id |-> IF Known(a) THEN ConnOf(a).id ELSE Nobody]
         delays == Delays(SimOf(a, "incoming"))
     IN  \/ /\ \E d \in delays \ {0} : inbox' = inbox \cup {[due |-> now + d, packet |-> p]}
            /\ UNCHANGED <<phase, sessionVars, outbox>>
         \/ /\ 0 \in delays
            /\ HandleReceivedPacket(p, "receive")
            /\ UNCHANGED inbox
  /\ UNCHANGED <<loopVars, console, chosen, keys>>

EndReceive ==
  /\ phase = "receive"
  /\ phase' = "delayed"
  /\ UNCHANGED <<loopVars, sessionVars, inbox, outbox, console, chosen, packets, keys>>

Top_Latest(times) == CHOOSE t \in times : \A s \in times : s <= t

\* The top of a BinaryHeap of DelayedPackets, by the reversed Ord: the earliest
Top(times) == CHOOSE t \in times : \A s \in times : t <= s

TopIsDue(times) == times # {} /\ Top(times) <= now

\* process_network, the packets that were put off and are due; those that are
\* due at the same time come in any order
HandleDelayed ==
  /\ phase = "delayed"
  /\ LET dues == {e.due : e \in inbox}
     IN  /\ TopIsDue(dues)
         /\ \E e \in inbox :
              /\ e.due = Top(dues)
              /\ inbox' = inbox \ {e}
              /\ HandleReceivedPacket(e.packet, "delayed")
  /\ UNCHANGED <<loopVars, console, chosen, packets, keys>>

\* process_network ends; process_resends
ProcessResends ==
  /\ phase = "delayed"
  /\ ~TopIsDue({e.due : e \in inbox})
  /\ phase' = "send"
  /\ SendToAll
  /\ UNCHANGED <<loopVars, sessionVars, inbox, console, chosen, packets, keys>>

\* process_delayed_packets; an error becomes an event, the packet is gone
ProcessDelayedPackets ==
  /\ phase = "send"
  /\ IF TopIsDue(outbox)
     THEN outbox' = outbox \ {Top(outbox)} /\ UNCHANGED phase
     ELSE phase' = "ticks" /\ UNCHANGED outbox
  /\ UNCHANGED <<loopVars, sessionVars, inbox, console, chosen, packets, keys>>
-----------------------------------------------------------------------------
(* tick_once: the ticks.                                                   *)

\* tick: the snapshots go out and the silent connections are cleaned up
Tick ==
  /\ phase = "ticks"
  /\ acc >= StepTime
  /\ acc' = acc - StepTime
  /\ tick' = tick + 1
  /\ SendToAll
  /\ \E silent \in SUBSET Ids : Forget(silent, "Timeout")
  /\ UNCHANGED <<phase, running, now, global, nextId, inbox, console, chosen, packets, keys>>
-----------------------------------------------------------------------------
(* run_with_tui: the console.                                              *)

KickClient_Unguarded(id) ==
  /\ conns' = Retain(conns, {i \in DOMAIN conns : conns[i].id # id})
  /\ ended' = [ended EXCEPT ![id] = Append(@, "Kicked")]

\* kick_client: an error in sending the Disconnect does not matter
KickClient(id) == Forget({id} \cap Ids, "Kicked")

KickedId_Row == IF HasSelected(console, ClientInfos) THEN Selected(console, ClientInfos).id ELSE Nobody

\* take_pending_kick
KickedId == console.kick

\* take_pending_packet_loss_update, set_packet_loss_sim
Updated(cs) ==
  [i \in DOMAIN cs |->
     IF cs[i].id = console.update.id THEN [cs[i] EXCEPT !.sims = console.update.sims] ELSE cs[i]]

\* Between tick_once and the keys.  drain_events only writes the log.
TakePending ==
  /\ phase = "ticks"
  /\ acc < StepTime
  /\ phase' = "key"
  /\ \/ console.kick # Nobody /\ KickClient(KickedId)
     \/ console.kick = Nobody /\ conns' = Updated(conns) /\ UNCHANGED ended
  /\ console' = [console EXCEPT !.kick = Nobody, !.update = NoUpdate]
  /\ UNCHANGED <<loopVars, nextId, inbox, outbox, chosen, packets, keys>>

\* A key, and the draw
Key(key) ==
  /\ running /\ phase = "key"
  /\ keys < MaxKeys
  /\ keys' = keys + 1
  /\ console' = PressKey(console, key, ClientInfos)
  /\ running' = ~Quits(console, key)
  /\ chosen' = IF console'.kick = Nobody THEN chosen ELSE chosen \cup {console'.kick}
  /\ phase' = "loop"
  /\ UNCHANGED <<now, acc, tick, global, sessionVars, inbox, outbox, packets>>

\* event::poll, event::read or draw fails: run_with_tui returns
TerminalFails ==
  /\ running /\ phase = "key"
  /\ phase' = "failed"
  /\ UNCHANGED <<loopVars, sessionVars, inbox, outbox, console, chosen, packets, keys>>

\* The loop ends: shutdown_connections
Shutdown ==
  /\ ~running /\ phase = "loop"
  /\ phase' = "stopped"
  /\ Forget(Ids, "Kicked")
  /\ UNCHANGED <<loopVars, nextId, inbox, outbox, console, chosen, packets, keys>>

Next ==
  \/ \E elapsed \in 0 .. MaxStall : BeginTickOnce(elapsed)
  \/ \E a \in Addrs, kind \in Kinds : Receive(a, kind)
  \/ EndReceive \/ HandleDelayed \/ ProcessResends \/ ProcessDelayedPackets
  \/ Tick
  \/ TakePending \/ (\E key \in Keys : Key(key)) \/ TerminalFails \/ Shutdown

Spec == Init /\ [][Next]_vars
-----------------------------------------------------------------------------
(* Properties.                                                             *)

BothSims == [outgoing : Sims, incoming : Sims]

\* TypeOK: no connection beyond the limit, none with the id or the address of
\* another, and no simulation, set or being set, with a latency range upside
\* down.
TypeOK ==
  /\ Len(conns) <= MaxClients
  /\ \A i \in DOMAIN conns :
       /\ conns[i] \in [id : 1 .. nextId - 1, addr : Addrs, connected : BOOLEAN, sims : BothSims]
       /\ \A j \in DOMAIN conns \ {i} : conns[j].id # conns[i].id /\ conns[j].addr # conns[i].addr
  /\ PanelOpen(console) => console.panel.sims \in BothSims
  /\ console.update # NoUpdate => console.update.sims \in BothSims

\* TimeKept: however long the iterations take, the ticks and the accumulator
\* account for all the time that has passed.
TimeKept == tick * StepTime + acc = now

\* NothingOverdue: when the ticks begin, no packet that the simulation put off
\* is still waiting although its time has come.
NothingOverdue == phase = "ticks" => \A due \in outbox : due > now

\* EndsOnce: every session is reported as ended exactly once, whichever of the
\* console, the client, the timeout and the shutdown come together, and the
\* shutdown leaves none.
EndsOnce ==
  \A id \in 1 .. nextId - 1 :
    Len(ended[id]) = IF id \in Ids /\ phase # "stopped" THEN 0 ELSE 1

\* KicksAreChosen: while the server runs it kicks only sessions that were
\* chosen, not one that took the row or the address of a chosen one.
KicksAreChosen ==
  phase # "stopped" => \A id \in 1 .. nextId - 1 : "Kicked" \in ToSet(ended[id]) => id \in chosen

\* KicksAreDone: a session that was chosen is gone once the console has no
\* request pending: none is lost or put off.
KicksAreDone == \A id \in chosen : ended[id] # << >> \/ console.kick = id

\* LoopKeepsUp: the connections are well formed, no time is lost and nothing
\* overdue is left (tick_once).
LoopKeepsUp == TypeOK /\ TimeKept /\ NothingOverdue

\* KicksAreObeyed: the sessions that are kicked are those that were chosen
\* (TuiState, run_with_tui, kick_client).
KicksAreObeyed == KicksAreChosen /\ KicksAreDone

\* SettingsLast: without a global simulation, the simulation of a session
\* changes only to what was saved in the panel that was opened for it.
SettingsLast ==
  [][~global.enabled =>
       \A c \in ToSet(conns), d \in ToSet(conns') :
         c.id = d.id /\ c.sims # d.sims => console.update = [id |-> c.id, sims |-> d.sims]]_vars
=============================================================================

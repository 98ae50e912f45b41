------------------------------ MODULE Session ------------------------------
(***************************************************************************)
(* How sessions begin and end: the handshake, the disconnections and the   *)
(* timeouts of NetworkClient (crates/client/src/net/client.rs), the        *)
(* ConnectionManager (crates/game/src/net/connection.rs) and the handlers  *)
(* of GameServer (crates/server/src/server.rs), over the connections of    *)
(* module Connection and a network that loses, delays and reorders.        *)
(*                                                                         *)
(* A member of Clients is one NetworkClient.  The program makes one per    *)
(* connection attempt and calls connect once on it, so it has an address   *)
(* (its UDP socket) of its own and sends one ConnectionRequest, under its  *)
(* first salt.  Every ClientConnection of the server has a client_id of    *)
(* its own and a random server_salt, so the client_id stands for the salt, *)
(* and the xor of two salts is the pair of them.                           *)
(***************************************************************************)
EXTENDS Connection

CONSTANTS Clients,
          MaxClients,   \* ServerConfig.max_clients
          MaxIds,       \* bound on the client ids the server assigns
          MaxWire,      \* bound on the datagrams of one connection
          MaxDuplicates,\* bound on the datagrams that arrive once more
          Timeouts      \* may the server hear nothing for so long that a
                        \* connection times out?

ASSUME SessionAssumption ==
  /\ MaxClients \in Nat \ {0}
  /\ MaxIds \in Nat
  /\ MaxWire \in Nat \ {0}
  /\ MaxDuplicates \in Nat
  /\ Timeouts \in BOOLEAN

None   == 0        \* the Option of an id; ids start at 1
Unsent == "unsent" \* a client salt that no request carries

VARIABLES client,      \* client[c]: the NetworkClient
          conns,       \* the ConnectionManager: address -> ClientConnection
          nextId,      \* ConnectionManager.next_client_id
          entities,    \* the player entities of World
          nextEntity,  \* World.next_entity_id
          up, down,    \* up[c], down[c]: datagrams sent by c, and to c
          taken        \* the datagrams received, and how many arrived again

serverVars == <<conns, nextId, entities, nextEntity>>
vars == <<client, serverVars, up, down, taken>>

Request(salt)       == [kind |-> "ConnectionRequest", salt |-> salt]
Challenge(salt, id) == [kind |-> "ConnectionChallenge", salt |-> salt, id |-> id]
Response(salt, id)  == [kind |-> "ChallengeResponse", salt |-> salt, id |-> id]
Accepted(id, e)     == [kind |-> "ConnectionAccepted", id |-> id, entity |-> e]
Denied              == [kind |-> "ConnectionDenied"]
Disconnect          == [kind |-> "Disconnect"]
Ping                == [kind |-> "Ping"]
Pong                == [kind |-> "Pong"]

\* NetworkClient::new.  phase says which loop calls update: the menu of the
\* TUI, the App, or none yet ("off") or any more ("gone").
NewClient(c) ==
  [phase |-> "off", state |-> "Disconnected", salt |-> c, clientId |-> None,
   entity |-> None, started |-> FALSE, conn |-> NewConnection]

\* NetworkClient::reset.  self.connection keeps what it holds.
Reset(cl) ==
  [cl EXCEPT !.state = "Disconnected", !.salt = Unsent, !.clientId = None,
             !.entity = None, !.started = FALSE]

Init ==
  /\ client = [c \in Clients |-> NewClient(c)]
  /\ conns = << >>
  /\ nextId = 1
  /\ entities = {}
  /\ nextEntity = 1
  /\ up = [c \in Clients |-> {}]
  /\ down = [c \in Clients |-> {}]
  /\ taken = [once |-> {}, again |-> 0]

\* A datagram arrives on its link, for the first time or once more
MayArrive(link, d) == <<link, d>> \notin taken.once \/ taken.again < MaxDuplicates

Take(link, d) ==
  taken' = IF <<link, d>> \in taken.once THEN [taken EXCEPT !.again = @ + 1]
           ELSE [taken EXCEPT !.once = @ \cup {<<link, d>>}]

Up(c)   == <<"up", c>>
Down(c) == <<"down", c>>

\* send_packet on the connection of r, a client or a server connection
Sending(r, ch, msg) == [r EXCEPT !.conn = SendPacket(@, ch, msg)]

MaySend(r) == r.conn.sendSeq < MaxWire
-----------------------------------------------------------------------------
(* The client.                                                             *)

Running(c) == client[c].phase \in {"menu", "game"}

\* The client sends msg from its state cl: send_packet and endpoint.send
ClientSends(c, cl, ch, msg) ==
  /\ MaySend(cl)
  /\ client' = [client EXCEPT ![c] = Sending(cl, ch, msg)]
  /\ up' = [up EXCEPT ![c] = @ \cup {SentPacket(cl.conn, ch, msg)}]

\* connect, called from the TUI or, with --server, from main
Connect(c) ==
  /\ client[c].phase = "off"
  /\ \E phase \in {"menu", "game"} :
       ClientSends(c, [client[c] EXCEPT !.phase = phase, !.state = "Connecting",
                                        !.started = TRUE],
                   Unreliable, Request(client[c].salt))
  /\ UNCHANGED <<serverVars, down, taken>>

\* handle_challenge: the state changes before the challenge is checked
HandleChallenge(c, cl, m) ==
  LET challenged == [cl EXCEPT !.state = "ChallengeResponse"]
  IN  IF m.salt = cl.salt
      THEN ClientSends(c, challenged, Reliable, Response(cl.salt, m.id))
      ELSE client' = [client EXCEPT ![c] = challenged] /\ UNCHANGED up

\* handle_connection_accepted, handle_connection_denied, Disconnect, Pong
ClientAfter(cl, m) ==
  CASE m.kind = "ConnectionAccepted" ->
         [cl EXCEPT !.state = "Connected", !.clientId = m.id, !.entity = m.entity]
    [] m.kind \in {"ConnectionDenied", "Disconnect"} -> Reset(cl)
    [] m.kind = "Pong" -> cl

\* process_network: process_packet, then handle_payload on its result
ClientReceive(c, d) ==
  LET result == Result(client[c].conn, d)
      cl     == [client[c] EXCEPT !.conn = ProcessPacket(@, d)]
  IN  /\ Running(c)
      /\ MayArrive(Down(c), d)
      /\ IF result # << >> /\ d.msg.kind = "ConnectionChallenge"
         THEN HandleChallenge(c, cl, d.msg)
         ELSE /\ client' = [client EXCEPT ![c] =
                              IF result = << >> THEN cl ELSE ClientAfter(cl, d.msg)]
              /\ UNCHANGED up
      /\ Take(Down(c), d)
      /\ UNCHANGED <<serverVars, down>>

\* update: send_ping
ClientPing(c) ==
  /\ Running(c)
  /\ client[c].state = "Connected"
  /\ ClientSends(c, client[c], Unreliable, Ping)
  /\ UNCHANGED <<serverVars, down, taken>>

\* update: process_resends, in every state
ClientResend(c) ==
  /\ Running(c)
  /\ \E due \in DueLists(client[c].conn.pending, MaxWire - client[c].conn.sendSeq) :
       /\ client' = [client EXCEPT ![c].conn = CollectResends(@, due)]
       /\ up' = [up EXCEPT ![c] = @ \cup ResentPackets(client[c].conn, due)]
  /\ UNCHANGED <<serverVars, down, taken>>

ClientTimeout_ConnectingOnly(c) ==
  /\ Running(c)
  /\ client[c].state \in {"Connecting", "Connected"}
  /\ client' = [client EXCEPT ![c] = Reset(@)]
  /\ UNCHANGED <<serverVars, up, down, taken>>

\* update: the connection attempt took too long, or the server is silent
ClientTimeout(c) ==
  /\ Running(c)
  /\ \/ client[c].state \in {"Connecting", "ChallengeResponse"} /\ client[c].started
     \/ client[c].state = "Connected"
  /\ client' = [client EXCEPT ![c] = Reset(@)]
  /\ UNCHANGED <<serverVars, up, down, taken>>

\* Tui::run hands the connected client to the App, App::handle_redraw drops
\* a disconnected one
Launch(c) ==
  /\ \/ /\ client[c].phase = "menu" /\ client[c].state = "Connected"
        /\ client' = [client EXCEPT ![c].phase = "game"]
     \/ /\ client[c].phase = "game" /\ client[c].state = "Disconnected"
        /\ client' = [client EXCEPT ![c].phase = "gone"]
  /\ UNCHANGED <<serverVars, up, down, taken>>

\* disconnect or shutdown, after which the client is dropped
Leave(c) ==
  /\ Running(c)
  /\ LET cl == [Reset(client[c]) EXCEPT !.phase = "gone"]
     IN  IF client[c].state = "Connected"
         THEN ClientSends(c, cl, Reliable, Disconnect)
         ELSE client' = [client EXCEPT ![c] = cl] /\ UNCHANGED up
  /\ UNCHANGED <<serverVars, down, taken>>

\* The process ends without disconnect: Ctrl-C in the TUI, or a crash
Crash(c) ==
  /\ Running(c)
  /\ client' = [client EXCEPT ![c] = [Reset(@) EXCEPT !.phase = "gone"]]
  /\ UNCHANGED <<serverVars, up, down, taken>>
-----------------------------------------------------------------------------
(* The server.                                                             *)

\* ClientConnection::new, with the client id that is assigned to it
NewServerConnection(salt) ==
  [id |-> nextId, state |-> "Connecting", salt |-> salt, entity |-> None,
   conn |-> NewConnection]

\* s is the connection of c, a new one or the one it had
PutConnection(c, s) ==
  conns' = [a \in DOMAIN conns \cup {c} |-> IF a = c THEN s ELSE conns[a]]

\* The server sends msg to c on s, which becomes the connection of c
ServerSends(c, s, msg, ch) ==
  /\ MaySend(s)
  /\ PutConnection(c, Sending(s, ch, msg))
  /\ down' = [down EXCEPT ![c] = @ \cup {SentPacket(s.conn, ch, msg)}]

\* ConnectionManager::remove, remove_by_addr
RemoveConnection(c) == conns' = [a \in DOMAIN conns \ {c} |-> conns[a]]

\* The answer to a ConnectionRequest from the address of s
SendChallenge(c, s) ==
  /\ ServerSends(c, s, Challenge(s.salt, s.id), Reliable)
  /\ UNCHANGED <<entities, nextEntity>>

ServerReceiveUnknown_SameId(c, d) ==
  /\ c \notin DOMAIN conns
  /\ MayArrive(Up(c), d)
  /\ d.msg.kind = "ConnectionRequest"
  /\ Cardinality(DOMAIN conns) < MaxClients
  /\ nextId <= MaxIds
  /\ UNCHANGED nextId
  /\ SendChallenge(c, NewServerConnection(d.msg.salt))
  /\ Take(Up(c), d)
  /\ UNCHANGED <<client, up>>

\* A datagram from an address without a connection: handle_connection_request
\* with a new connection or, when the server is full, a bare denial; any
\* other payload is dropped
ServerReceiveUnknown(c, d) ==
  /\ c \notin DOMAIN conns
  /\ MayArrive(Up(c), d)
  /\ IF d.msg.kind # "ConnectionRequest"
     THEN UNCHANGED <<serverVars, down>>
     ELSE IF Cardinality(DOMAIN conns) >= MaxClients
     THEN /\ down' = [down EXCEPT ![c] = @ \cup {Packet(NewConnection, 0, Unreliable, 0, Denied)}]
          /\ UNCHANGED serverVars
     ELSE /\ nextId <= MaxIds
          /\ nextId' = nextId + 1
          /\ SendChallenge(c, NewServerConnection(d.msg.salt))
  /\ Take(Up(c), d)
  /\ UNCHANGED <<client, up>>

HandleChallengeResponse_Unchecked(c, s, m) ==
  /\ ServerSends(c, [s EXCEPT !.state = "Connected", !.entity = nextEntity],
                 Accepted(s.id, nextEntity), Reliable)
  /\ entities' = entities \cup {nextEntity}
  /\ nextEntity' = nextEntity + 1

HandleChallengeResponse_SameId(c, s, m) ==
  /\ ServerSends(c, [s EXCEPT !.state = "Connected", !.entity = nextEntity],
                 Accepted(s.id, nextEntity), Reliable)
  /\ entities' = entities \cup {nextEntity}
  /\ UNCHANGED nextEntity

\* handle_challenge_response: a player is spawned for every valid response
HandleChallengeResponse(c, s, m) ==
  IF <<m.salt, m.id>> = <<s.salt, s.id>>
  THEN /\ ServerSends(c, [s EXCEPT !.state = "Connected", !.entity = nextEntity],
                      Accepted(s.id, nextEntity), Reliable)
       /\ entities' = entities \cup {nextEntity}
       /\ nextEntity' = nextEntity + 1
  ELSE PutConnection(c, s) /\ UNCHANGED <<entities, nextEntity, down>>

\* World::despawn of the entity of s
Despawn(s) == entities' = entities \ {s.entity}

\* handle_payload on the connection s that process_packet leaves
HandlePayload(c, s, m) ==
  \/ m.kind = "ConnectionRequest" /\ SendChallenge(c, s)
  \/ m.kind = "ChallengeResponse" /\ HandleChallengeResponse(c, s, m)
  \/ /\ m.kind = "Ping"
     /\ ServerSends(c, s, Pong, Unreliable)
     /\ UNCHANGED <<entities, nextEntity>>
  \/ /\ m.kind = "Disconnect"
     /\ RemoveConnection(c)
     /\ Despawn(s)
     /\ UNCHANGED <<nextEntity, down>>

\* handle_received_packet for an address with a connection
ServerReceive(c, d) ==
  /\ c \in DOMAIN conns
  /\ MayArrive(Up(c), d)
  /\ LET s == [conns[c] EXCEPT !.conn = ProcessPacket(@, d)]
     IN  IF Result(conns[c].conn, d) # << >>
         THEN HandlePayload(c, s, d.msg)
         ELSE PutConnection(c, s) /\ UNCHANGED <<entities, nextEntity, down>>
  /\ Take(Up(c), d)
  /\ UNCHANGED <<client, nextId, up>>

\* process_resends
ServerResend(c) ==
  /\ c \in DOMAIN conns
  /\ \E due \in DueLists(conns[c].conn.pending, MaxWire - conns[c].conn.sendSeq) :
       /\ conns' = [conns EXCEPT ![c].conn = CollectResends(@, due)]
       /\ down' = [down EXCEPT ![c] = @ \cup ResentPackets(conns[c].conn, due)]
  /\ UNCHANGED <<client, nextId, entities, nextEntity, up, taken>>

KickClient_NoDespawn(c) ==
  /\ c \in DOMAIN conns
  /\ MaySend(conns[c])
  /\ down' = [down EXCEPT ![c] = @ \cup {SentPacket(conns[c].conn, Reliable, Disconnect)}]
  /\ RemoveConnection(c)
  /\ UNCHANGED <<client, nextId, entities, nextEntity, up, taken>>

\* kick_client, from the TUI or from shutdown_connections
KickClient(c) ==
  /\ c \in DOMAIN conns
  /\ MaySend(conns[c])
  /\ down' = [down EXCEPT ![c] = @ \cup {SentPacket(conns[c].conn, Reliable, Disconnect)}]
  /\ RemoveConnection(c)
  /\ Despawn(conns[c])
  /\ UNCHANGED <<client, nextId, nextEntity, up, taken>>

CleanupTimedOut_ConnectedOnly(c) ==
  /\ Timeouts
  /\ c \in DOMAIN conns
  /\ conns[c].state = "Connected"
  /\ RemoveConnection(c)
  /\ UNCHANGED <<client, nextId, entities, nextEntity, up, down, taken>>

\* tick: cleanup_timed_out, which leaves the entity in the world
CleanupTimedOut(c) ==
  /\ Timeouts
  /\ c \in DOMAIN conns
  /\ RemoveConnection(c)
  /\ UNCHANGED <<client, nextId, entities, nextEntity, up, down, taken>>
-----------------------------------------------------------------------------
ClientStep(c) ==
  \/ Connect(c)
  \/ \E d \in down[c] : ClientReceive(c, d)
  \/ ClientPing(c)
  \/ ClientResend(c)
  \/ ClientTimeout(c)
  \/ Launch(c)
  \/ Leave(c)
  \/ Crash(c)

ServerStep(c) ==
  \/ \E d \in up[c] : ServerReceiveUnknown(c, d) \/ ServerReceive(c, d)
  \/ ServerResend(c)
  \/ KickClient(c)
  \/ CleanupTimedOut(c)

Next == \E c \in Clients : ClientStep(c) \/ ServerStep(c)

Spec == Init /\ [][Next]_vars

\* Clocks advance: update and tick run for ever and see a timeout elapse
Fairness == \A c \in Clients :
  /\ WF_vars(ClientTimeout(c))
  /\ WF_vars(Launch(c))
  /\ WF_vars(CleanupTimedOut(c))

FairSpec == Spec /\ Fairness
-----------------------------------------------------------------------------
(* Properties.                                                             *)

ClientState ==
  [phase    : {"off", "menu", "game", "gone"},
   state    : {"Disconnected", "Connecting", "ChallengeResponse", "Connected"},
   salt     : Clients \cup {Unsent},
   clientId : 0 .. MaxIds,
   entity   : Nat,
   started  : BOOLEAN]

WithoutConn(r) == [f \in DOMAIN r \ {"conn"} |-> r[f]]

\* TypeOK: the ids a client holds are ids the server can have assigned, the
\* server never holds more connections than it has slots, each id is below the
\* counter it was taken from, and a connection has an entity when connected.
TypeOK ==
  /\ \A c \in Clients : WithoutConn(client[c]) \in ClientState
  /\ DOMAIN conns \subseteq Clients
  /\ Cardinality(DOMAIN conns) <= MaxClients
  /\ nextId \in 1 .. MaxIds + 1
  /\ nextEntity \in Nat
  /\ entities \subseteq 1 .. nextEntity - 1
  /\ \A c \in DOMAIN conns :
       /\ WithoutConn(conns[c]) \in [id : 1 .. nextId - 1, state : {"Connecting", "Connected"},
                                     salt : Clients, entity : 0 .. nextEntity - 1]
       /\ conns[c].state = "Connected" <=> conns[c].entity # None

\* PlayersAreOwned: a connected client drives a player that is in the world
\* and that no other connection drives, and no two connections share a client
\* id: whatever arrives, nobody is left commanding a despawned or foreign body.
PlayersAreOwned ==
  \A c \in DOMAIN conns :
    /\ conns[c].state = "Connected" => conns[c].entity \in entities
    /\ \A a \in DOMAIN conns \ {c} :
         /\ conns[a].id # conns[c].id
         /\ conns[a].entity # conns[c].entity \/ conns[c].entity = None

\* ConnectedAnswered: the server takes a client for connected only when the
\* client answered the challenge of this very connection; an answer to the
\* challenge of an earlier connection from the same address, which a
\* duplicated ConnectionRequest replaced, does not count.
ConnectedAnswered ==
  \A c \in DOMAIN conns : conns[c].state = "Connected" =>
    \E d \in up[c] : d.msg = Response(conns[c].salt, conns[c].id)

\* IdsAgree: while both ends are connected they agree on the client id and on
\* the player entity, so that the client predicts the player it drives.  It
\* needs a network without duplicates: a duplicated ConnectionRequest makes
\* the server spawn twice and accept twice, in either order.
IdsAgree ==
  \A c \in DOMAIN conns :
    client[c].state = "Connected" /\ conns[c].state = "Connected" =>
      client[c].clientId = conns[c].id /\ client[c].entity = conns[c].entity

Orphans == entities \ {conns[c].entity : c \in DOMAIN conns}

\* OnlyTimeoutsOrphan: a player is left in the world without a connection only
\* by cleanup_timed_out, which forgets the entity of the connection it
\* removes; a kick, a Disconnect or a new connection never does.  It needs a
\* network without duplicates: a duplicated ConnectionRequest is challenged
\* twice and answered twice, and each answer spawns a player.
OnlyTimeoutsOrphan ==
  [][~(Orphans' \subseteq Orphans) => \E c \in Clients : CleanupTimedOut(c)]_vars

\* NoRegress: a connected client stays connected until it is disconnected: no
\* late or resent challenge throws it back into the handshake.  It needs a
\* network without duplicates, handle_challenge does not look at the state.
NoRegress ==
  [][\A c \in Clients : client[c].state = "Connected" =>
       client'[c].state \in {"Connected", "Disconnected"}]_vars

\* AttemptEnds: a connection attempt comes to an end: the client is connected,
\* or has given up, whatever is lost on the way.
AttemptEnds ==
  \A c \in Clients :
    client[c].state = "Connecting" ~> client[c].state \in {"Connected", "Disconnected"}

\* SlotFreed: the server forgets a client that is gone, even one whose
\* Disconnect was lost, and its slot can be given away.
SlotFreed ==
  \A c \in Clients : client[c].phase = "gone" ~> c \notin DOMAIN conns
=============================================================================

------------------------------- MODULE Bodies -------------------------------
(***************************************************************************)
(* The entities of the server's World (crates/game/src/snapshot/world.rs), *)
(* the bodies that the PhysicsWorld has for them (physics/world.rs,        *)
(* physics/sync.rs), and the PlayerStates of the CommandProcessor          *)
(* (simulation/command.rs), through joining, leaving, commands and ticks   *)
(* (crates/server/src/server.rs).                                          *)
(*                                                                         *)
(* What the physics does with a dynamic body, and how far a command moves  *)
(* a player, are choices.  A place is one number.  Nothing in the program  *)
(* removes a body, so that a handle is an index into the sequence of       *)
(* bodies.  A client that comes back is another client.                    *)
(***************************************************************************)
EXTENDS Integers, FiniteSets, Sequences, Functions

CONSTANTS PropCount,  \* dynamic boxes of the TestingGround
          LastPlace,  \* places are 0 .. LastPlace; all spawn at 0
          MaxClients, \* bound on the clients that ever join
          MaxSent     \* bound on the commands of a client

ASSUME BodiesAssumption == {PropCount, LastPlace, MaxClients, MaxSent} \subseteq Nat

NoBody == 0

VARIABLES entities,   \* World.entities: id -> type, physics_handle, position
          nextId,     \* World.next_entity_id
          bodies,     \* PhysicsWorld.bodies
          states,     \* CommandProcessor.player_states: id -> whose commands made it
          connected,  \* connections: client -> entity_id
          commandQueue, \* GameServer.command_queue, the clients of the commands
          inTick,     \* is tick running?
          joined,     \* the clients that ever joined: 1 .. joined
          \* history
          sent        \* client -> the commands that it queued

bodyVars == <<entities, nextId, bodies, states, connected, commandQueue, inTick, joined, sent>>

Dropped(f, x) == Restrict(f, DOMAIN f \ {x})

AllocateId_Reuse == Cardinality(DOMAIN entities) + 1

\* allocate_id
AllocateId == nextId

\* create_physics_body of an entity without one: add_player, add_dynamic_box
BodyFor(type, place) == [kind |-> IF type = "Player" THEN "kinematic" ELSE "dynamic", place |-> place]

\* bodies.insert
NewHandle == Len(bodies) + 1

\* GameServer::new: TestingGround::spawn
BodiesInit ==
  /\ entities = [id \in 1 .. PropCount |-> [type |-> "DynamicProp", body |-> id, place |-> 0]]
  /\ nextId = PropCount + 1
  /\ bodies = [h \in 1 .. PropCount |-> BodyFor("DynamicProp", 0)]
  /\ states = << >> /\ connected = << >> /\ commandQueue = << >>
  /\ inTick = FALSE /\ joined = 0 /\ sent = << >>

\* handle_challenge_response: spawn_player and create_physics_body
Join ==
  /\ ~inTick
  /\ joined < MaxClients
  /\ LET id == AllocateId
         client == joined + 1
     IN  /\ bodies' = Append(bodies, BodyFor("Player", 0))
         /\ entities' = [e \in DOMAIN entities \cup {id} |->
              IF e = id THEN [type |-> "Player", body |-> NewHandle, place |-> 0] ELSE entities[e]]
         /\ nextId' = nextId + 1
         /\ connected' = [c \in DOMAIN connected \cup {client} |-> IF c = client THEN id ELSE connected[c]]
         /\ joined' = client
         /\ sent' = Append(sent, 0)
  /\ UNCHANGED <<states, commandQueue, inTick>>

\* handle_client_command
QueueCommand(client) ==
  /\ ~inTick
  /\ client \in DOMAIN connected
  /\ sent[client] < MaxSent
  /\ commandQueue' = Append(commandQueue, client)
  /\ sent' = [sent EXCEPT ![client] = @ + 1]
  /\ UNCHANGED <<entities, nextId, bodies, states, connected, inTick, joined>>

EntityLeft_ClientId(client) == client

\* The entity that despawn is called with
EntityLeft(client) == connected[client]

\* handle_disconnect and kick_client: World::despawn.  The body, the
\* PlayerState and the commands in the queue stay.
Leave(client) ==
  /\ ~inTick
  /\ client \in DOMAIN connected
  /\ entities' = Dropped(entities, EntityLeft(client))
  /\ connected' = Dropped(connected, client)
  /\ UNCHANGED <<nextId, bodies, states, commandQueue, inTick, joined, sent>>

BeginTick ==
  /\ ~inTick
  /\ inTick' = TRUE
  /\ UNCHANGED <<entities, nextId, bodies, states, connected, commandQueue, joined, sent>>

\* process_commands: the entity of a client that is still there
EntityOf(client) == IF client \in DOMAIN connected THEN connected[client] ELSE 0

\* A round of process_commands.  CommandProcessor::process moves the body, and
\* the entity with it.
ProcessCommand(place) ==
  /\ inTick
  /\ commandQueue # << >>
  /\ commandQueue' = Tail(commandQueue)
  /\ LET id == EntityOf(Head(commandQueue))
     IN  IF id \in DOMAIN entities
         THEN /\ bodies' = [bodies EXCEPT ![entities[id].body].place = place]
              /\ entities' = [entities EXCEPT ![id].place = place]
              /\ states' = [e \in DOMAIN states \cup {id} |->
                   (IF e \in DOMAIN states THEN states[e] ELSE {})
                   \cup (IF e = id THEN {Head(commandQueue)} ELSE {})]
         ELSE UNCHANGED <<bodies, entities, states>>
  /\ UNCHANGED <<nextId, connected, inTick, joined, sent>>

\* sync_physics_to_world, after the step made new of old
Synced(old, new) == [id \in DOMAIN entities |-> [entities[id] EXCEPT !.place = new[entities[id].body].place]]

\* The rest of tick: step moves the dynamic bodies to places,
\* sync_physics_to_world follows, and cleanup_timed_out forgets the clients of
\* late but leaves their entities in the world.
EndTick(places, late) ==
  /\ inTick
  /\ commandQueue = << >>
  /\ inTick' = FALSE
  /\ bodies' = [h \in DOMAIN bodies |->
       IF bodies[h].kind = "dynamic" THEN [bodies[h] EXCEPT !.place = places[h]] ELSE bodies[h]]
  /\ entities' = Synced(bodies, bodies')
  /\ connected' = Restrict(connected, DOMAIN connected \ late)
  /\ UNCHANGED <<nextId, states, commandQueue, joined, sent>>

BodiesNext ==
  \/ Join
  \/ \E client \in 1 .. joined : QueueCommand(client) \/ Leave(client)
  \/ BeginTick
  \/ \E place \in 0 .. LastPlace : ProcessCommand(place)
  \/ \E places \in [1 .. PropCount -> 0 .. LastPlace], late \in SUBSET DOMAIN connected :
       EndTick(places, late)

BodiesSpec == BodiesInit /\ [][BodiesNext]_bodyVars
-----------------------------------------------------------------------------
(* Properties.                                                             *)

\* BodiesTypeOK: the state is well formed, and an entity has a body, of the
\* kind that its type asks for.
BodiesTypeOK ==
  /\ nextId \in Nat \ {0} /\ joined \in Nat /\ inTick \in BOOLEAN
  /\ bodies \in Seq([kind : {"kinematic", "dynamic"}, place : 0 .. LastPlace])
  /\ DOMAIN entities \subseteq 1 .. nextId - 1
  /\ \A id \in DOMAIN entities :
       /\ entities[id] \in [type : {"Player", "DynamicProp"}, body : DOMAIN bodies, place : 0 .. LastPlace]
       /\ bodies[entities[id].body].kind = "kinematic" <=> entities[id].type = "Player"
  /\ DOMAIN connected \subseteq 1 .. joined
  /\ commandQueue \in Seq(1 .. joined)

\* BodyIsOwn: no two entities have the same body, so that no command and no
\* collision moves two of them, and no client drives the entity of another.
BodyIsOwn ==
  /\ \A a, b \in DOMAIN entities : entities[a].body = entities[b].body => a = b
  /\ \A c, d \in DOMAIN connected : connected[c] = connected[d] => c = d

\* SnapshotsTellBodies: when a tick has ended, and until the next begins, every
\* entity is where its body is: a snapshot never shows the world of the tick
\* before.
SnapshotsTellBodies ==
  \A id \in DOMAIN entities : entities[id].place = bodies[entities[id].body].place

\* StateIsOwn: the movement state of a player, its velocity and its jumps, was
\* made by the commands of its own client, whoever left before.
StateIsOwn ==
  \A c \in DOMAIN connected : connected[c] \in DOMAIN states => states[connected[c]] \subseteq {c}

\* BodiesAgree: entities, bodies and states belong together, and no two
\* entities or clients share any of them.
BodiesAgree == BodiesTypeOK /\ BodyIsOwn /\ SnapshotsTellBodies /\ StateIsOwn

Owned(h) == \E id \in DOMAIN entities : entities[id].body = h

\* GhostsStand: a body that lost its entity was a player's.  It stays in the
\* way of the others for ever, and never moves again, whatever commands its
\* player had queued; and the body of a player who timed out stands, too.
GhostsStand ==
  [][\A h \in DOMAIN bodies :
       /\ ~Owned(h) => bodies[h].kind = "kinematic" /\ bodies'[h] = bodies[h] /\ ~Owned(h)'
       /\ bodies[h].kind = "kinematic" /\ bodies'[h] # bodies[h] =>
            \E c \in DOMAIN connected : entities[connected[c]].body = h]_bodyVars
=============================================================================

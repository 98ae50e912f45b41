---------------------------- MODULE SnapshotSync ----------------------------
(***************************************************************************)
(* How a client follows the world: World and SnapshotBuffer                *)
(* (crates/game/src/snapshot), the baselines GameServer chooses            *)
(* (crates/server/src/server.rs), handle_snapshot of NetworkClient and the *)
(* InterpolationEngine's store of snapshots                                *)
(* (crates/client/src/net/interpolation.rs).  One connected client; its    *)
(* snapshots and acknowledgements travel unreliably, and process_packet    *)
(* gives each of them to the application at most once.                     *)
(*                                                                         *)
(* A collection of entities, keyed by id, is a total function: an id that  *)
(* has no entity maps to Absent.  server_time_ms grows with the tick, so   *)
(* time is counted in ticks.  The tick does not reach 2^32.                *)
(***************************************************************************)
EXTENDS Integers, Sequences, FiniteSets, FiniteSetsExt

CONSTANTS MaxEntity,       \* bound on the entity ids
          InitialEntities, \* entities TestingGround spawns before the first tick
          State,           \* the states of an entity that states_equal tells apart
          Absent,
          BufferSize,      \* ServerConfig.snapshot_buffer_size: 256
          SendRate,        \* ServerConfig.snapshot_send_rate: 1
          MaxBuffer,       \* max_buffer_snapshots: 256
          MinBuffer,       \* min_buffer_snapshots: 3
          Retention,       \* snapshot_retention_ms, in ticks: 180
          MaxLatency,      \* no datagram arrives more than MaxLatency ticks late
          MaxTick          \* bound on the ticks

Entity == 1 .. MaxEntity
World  == [Entity -> State \cup {Absent}]
NoWorld == [e \in Entity |-> Absent]

\* The baseline a delta is based on is younger than this many ticks
MaxDeltaAge == BufferSize \div 2

\* What a client needs to keep every baseline until the deltas have arrived
TimelyAssumption == MaxDeltaAge + MaxLatency <= Retention /\ Retention <= MaxBuffer

ASSUME SnapshotAssumption ==
  /\ MaxEntity \in Nat
  /\ InitialEntities \in 0 .. MaxEntity
  /\ Absent \notin State
  /\ BufferSize \in Nat \ {0}
  /\ SendRate \in Nat \ {0}
  /\ MaxBuffer \in Nat \ {0}
  /\ MinBuffer \in Nat
  /\ Retention \in Nat
  /\ MaxLatency \in Nat
  /\ MaxTick \in Nat

VARIABLES world,      \* World.entities
          tick,       \* World.tick
          nextEntity, \* World.next_entity_id
          ring,       \* GameServer.snapshot_history: slot -> snapshot
          lastAcked,  \* ClientConnection.last_acked_tick
          snaps,      \* snapshots on their way to the client
          acks,       \* SnapshotAcks on their way to the server
          stored,     \* InterpolationEngine.snapshots
          known,      \* known_entities
          knowledge,  \* knowledge_tick
          ready,      \* ready
          past,       \* past[t]: the world when tick t was completed
          failed      \* ticks the client acknowledged but could not expand

serverVars == <<world, tick, nextEntity, ring, lastAcked, past>>
clientVars == <<stored, known, knowledge, ready, failed>>
vars == <<serverVars, snaps, acks, clientVars>>

\* A WorldSnapshot; base and removed are used by deltas only
FullSnapshot(w, t) ==
  [tick |-> t, delta |-> FALSE, base |-> 0, entities |-> w, removed |-> {}]

Init ==
  /\ world \in {w \in World : \A e \in Entity : w[e] # Absent <=> e <= InitialEntities}
  /\ tick = 0
  /\ nextEntity = InitialEntities + 1
  /\ ring = [i \in 0 .. BufferSize - 1 |-> FullSnapshot(NoWorld, 0)]  \* tick 0: None
  /\ lastAcked = 0
  /\ snaps = {}
  /\ acks = {}
  /\ stored = {}
  /\ known = NoWorld
  /\ knowledge = 0
  /\ ready = FALSE
  /\ past = << >>
  /\ failed = {}
-----------------------------------------------------------------------------
(* The server.                                                             *)

\* delta_from_baseline: the entities that differ from the baseline, and the
\* ids of those that are gone since
DeltaFromBaseline(w, t, b) ==
  [tick |-> t, delta |-> TRUE, base |-> b.tick,
   entities |-> [e \in Entity |-> IF w[e] = b.entities[e] THEN Absent ELSE w[e]],
   removed  |-> {e \in Entity : b.entities[e] # Absent /\ w[e] = Absent}]

\* SnapshotBuffer::push
Push(r, s) == [r EXCEPT ![s.tick % BufferSize] = s]

\* SnapshotBuffer::get is Some
Holds(r, t) == r[t % BufferSize].tick = t

\* generate_client_snapshot, for the world w at tick t and the history r
GenerateClientSnapshot(w, t, r) ==
  IF lastAcked > 0 /\ t - lastAcked < MaxDeltaAge /\ Holds(r, lastAcked)
  THEN DeltaFromBaseline(w, t, r[lastAcked % BufferSize])
  ELSE FullSnapshot(w, t)

\* tick: commands and physics move entities, the tick advances, the snapshot
\* is pushed and the client's snapshot is sent
Tick ==
  /\ tick < MaxTick
  /\ \E w \in World :
       /\ \A e \in Entity : w[e] = Absent <=> world[e] = Absent
       /\ world' = w
       /\ tick' = tick + 1
       /\ ring' = Push(ring, FullSnapshot(w, tick + 1))
       /\ snaps' = IF (tick + 1) % SendRate = 0
                   THEN snaps \cup {GenerateClientSnapshot(w, tick + 1, ring')}
                   ELSE snaps
       /\ past' = Append(past, w)
  /\ UNCHANGED <<nextEntity, lastAcked, acks, clientVars>>

\* spawn and spawn_player, between two ticks
Spawn ==
  /\ nextEntity <= MaxEntity
  /\ \E s \in State : world' = [world EXCEPT ![nextEntity] = s]
  /\ nextEntity' = nextEntity + 1
  /\ UNCHANGED <<tick, ring, lastAcked, past, snaps, acks, clientVars>>

\* despawn, between two ticks
Despawn(e) ==
  /\ world[e] # Absent
  /\ world' = [world EXCEPT ![e] = Absent]
  /\ UNCHANGED <<tick, nextEntity, ring, lastAcked, past, snaps, acks, clientVars>>

\* handle_snapshot_ack
HandleSnapshotAck(t) ==
  /\ acks' = acks \ {t}
  /\ lastAcked' = IF t > lastAcked THEN t ELSE lastAcked
  /\ UNCHANGED <<world, tick, nextEntity, ring, past, snaps, clientVars>>
-----------------------------------------------------------------------------
(* The client.                                                             *)

\* get_snapshot_by_tick is Some, and what it returns
IsStored(t) == \E s \in stored : s.tick = t
StoredAt(t) == (CHOOSE s \in stored : s.tick = t).entities

\* Does expand_snapshot succeed on d?
Expandable(d) == ~d.delta \/ d.base = knowledge \/ IsStored(d.base)

\* expand_snapshot: the entities a delta is applied to
Baseline(d) == IF d.base = knowledge THEN known ELSE StoredAt(d.base)

Expanded_NoRecovery(d) ==
  IF ~d.delta
  THEN d.entities
  ELSE [e \in Entity |->
          IF e \in d.removed THEN Absent
          ELSE IF d.entities[e] # Absent THEN d.entities[e] ELSE known[e]]

\* expand_snapshot: the entities of the full snapshot
Expanded(d) ==
  IF ~d.delta
  THEN d.entities
  ELSE [e \in Entity |->
          IF e \in d.removed THEN Absent
          ELSE IF d.entities[e] # Absent THEN d.entities[e] ELSE Baseline(d)[e]]

\* push_snapshot: while there are more than MaxBuffer, the oldest goes
Capped(snapshots) ==
  IF Cardinality(snapshots) <= MaxBuffer
  THEN snapshots
  ELSE snapshots \ {CHOOSE s \in snapshots : \A r \in snapshots : s.tick <= r.tick}

\* handle_snapshot: push_snapshot, then send_snapshot_ack whatever came of it
HandleSnapshot(d) ==
  /\ tick - d.tick <= MaxLatency
  /\ snaps' = snaps \ {d}
  /\ IF Expandable(d)
     THEN /\ stored' = Capped(stored \cup {[tick |-> d.tick, entities |-> Expanded(d)]})
          /\ known' = Expanded(d)
          /\ knowledge' = d.tick
          /\ ready' = (ready \/ Cardinality(stored') >= MinBuffer)
          /\ UNCHANGED failed
     ELSE /\ failed' = failed \cup {d.tick}
          /\ UNCHANGED <<stored, known, knowledge, ready>>
  /\ acks' = acks \cup {d.tick}
  /\ UNCHANGED serverVars

CleanupOldSnapshots_Early ==
  /\ ready /\ stored # {}
  /\ \E cutoff \in 0 .. tick - Retention + 1 :
       stored' = {s \in stored : s.tick > cutoff}
  /\ UNCHANGED <<serverVars, snaps, acks, known, knowledge, ready, failed>>

\* update: cleanup_old_snapshots.  The render time follows the server's clock
\* from behind, so the cutoff is at most Retention ticks behind it.
CleanupOldSnapshots ==
  /\ ready /\ stored # {}
  /\ \E cutoff \in 0 .. tick - Retention :
       stored' = {s \in stored : s.tick > cutoff}
  /\ UNCHANGED <<serverVars, snaps, acks, known, knowledge, ready, failed>>

Next ==
  \/ Tick
  \/ Spawn
  \/ \E e \in Entity : Despawn(e)
  \/ \E t \in acks : HandleSnapshotAck(t)
  \/ \E d \in snaps : HandleSnapshot(d)
  \/ CleanupOldSnapshots

Spec == Init /\ [][Next]_vars
-----------------------------------------------------------------------------
(* Properties.                                                             *)

Snapshot == [tick : Nat, delta : BOOLEAN, base : Nat, entities : World,
             removed : SUBSET Entity]

\* TypeOK: every variable keeps its type, the client stores at most
\* max_buffer_snapshots snapshots, and no tick that is acknowledged, stored or
\* under way is later than the server's.
TypeOK ==
  /\ world \in World
  /\ tick \in 0 .. MaxTick
  /\ nextEntity \in 1 .. MaxEntity + 1
  /\ ring \in [0 .. BufferSize - 1 -> Snapshot]
  /\ lastAcked \in 0 .. tick
  /\ snaps \subseteq Snapshot
  /\ \A d \in snaps : d.tick \in 1 .. tick
  /\ acks \subseteq 1 .. tick
  /\ stored \subseteq [tick : 1 .. tick, entities : World]
  /\ Cardinality(stored) <= MaxBuffer
  /\ known \in World
  /\ knowledge \in 0 .. tick
  /\ ready \in BOOLEAN
  /\ past \in [1 .. tick -> World]
  /\ failed \subseteq 1 .. tick

\* Faithful: what the client stores and knows for a tick is exactly the world
\* as it was at that tick, although it was put together from deltas that
\* arrive in any order, against baselines recovered from the store.
Faithful ==
  /\ \A s \in stored : s.entities = past[s.tick]
  /\ knowledge # 0 => known = past[knowledge]

\* DeltasExpand: every snapshot that arrives is expanded: the server bases no
\* delta on a tick whose snapshot the client may have dropped by then.
DeltasExpand == failed = {}

\* SnapshotsAreUsable: the replication is well typed and every delta that
\* arrives expands (generate_client_snapshot, expand_snapshot).
SnapshotsAreUsable == TypeOK /\ DeltasExpand
=============================================================================

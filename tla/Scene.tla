------------------------------- MODULE Scene -------------------------------
(***************************************************************************)
(* What a frame of the client shows: interpolate_at_indices                *)
(* (crates/client/src/net/interpolation.rs) makes the entities of two      *)
(* snapshots, update_player_cubes and update_dynamic_props                 *)
(* (crates/client/src/app.rs) give them cubes of the Renderer              *)
(* (crates/client/src/render/mod.rs), and record_render_pass draws the     *)
(* visible ones.                                                           *)
(*                                                                         *)
(* The entities are in a HashMap, so that each frame sees them in any      *)
(* order, and a cube shows now one entity and then another.  A snapshot is *)
(* the set of its entities: each is at a place of its own, From(id) in the *)
(* earlier of the two snapshots and To(id) in the later.  Indices of cubes *)
(* begin at 1.                                                             *)
(***************************************************************************)
EXTENDS Integers, FiniteSets, Sequences, Functions

CONSTANTS PlayerIds, PropIds,  \* entity ids of either type
          Fractions            \* t of interpolate_at_indices, in halves

ASSUME SceneAssumption ==
  /\ PlayerIds \cap PropIds = {} /\ PlayerIds \cup PropIds \subseteq Nat \ {0}
  /\ IsFiniteSet(PlayerIds \cup PropIds)
  /\ Fractions \subseteq 0 .. 3  \* at most 1.5

NoId == 0

VARIABLES me,            \* client.entity_id()
          cubes,         \* Renderer.player_cubes
          playerCubes,   \* App.player_cube_indices
          propCubes,     \* App.dynamic_prop_indices
          \* history
          present        \* the entities of the snapshots of the last frame

sceneVars == <<me, cubes, playerCubes, propCubes, present>>

SceneInit ==
  /\ me = NoId
  /\ present = {}
  /\ cubes = << >> /\ playerCubes = << >> /\ propCubes = << >>

From(id) == 4 * id
To(id) == 4 * id + 2

\* interpolate_at_indices: an entity that only one of the snapshots has is
\* shown where that has it.
Interpolated(from, to, t) ==
  [id \in from \cup to |->
     IF id \notin to THEN From(id)
     ELSE IF id \notin from THEN To(id)
     ELSE From(id) + ((To(id) - From(id)) * t) \div 2]

Orders(ids) == {order \in [1 .. Cardinality(ids) -> ids] : IsInjective(order)}

NewCube == [visible |-> FALSE, place |-> 0, scale |-> 0]

\* while indices.len() < entities.len(): add_player_cube, which cannot fail
WithCubes(pool, count, known) ==
  [cubes |-> known \o [i \in 1 .. count - Len(pool) |-> NewCube],
   pool |-> pool \o [i \in 1 .. count - Len(pool) |-> Len(known) + i]]

\* set_player_cube_transform, set_player_cube_visible(true)
Show(cube, place, scale) == [visible |-> TRUE, place |-> place, scale |-> scale]

\* set_player_cube_visible(false): the transform stays
Hide(cube) == [cube EXCEPT !.visible = FALSE]

\* The cubes with those of pool changed: the i-th is now new[i]
Changed(known, pool, new) ==
  [c \in DOMAIN known |->
     IF \E i \in DOMAIN pool : pool[i] = c THEN new[CHOOSE i \in DOMAIN pool : pool[i] = c]
     ELSE known[c]]

PlayersShown_Kept(order, entities, pool, known) ==
  LET with == WithCubes(pool, Len(order), known)
      new  == [i \in DOMAIN with.pool |->
                LET cube == with.cubes[with.pool[i]]
                IN  IF i > Len(order) THEN Hide(cube)
                    ELSE IF order[i] = me THEN cube ELSE Show(cube, entities[order[i]], 4)]
  IN  [pool |-> with.pool, cubes |-> Changed(with.cubes, with.pool, new)]

\* update_player_cubes: the client's own player has a cube that is hidden
PlayersShown(order, entities, pool, known) ==
  LET with == WithCubes(pool, Len(order), known)
      new  == [i \in DOMAIN with.pool |->
                LET cube == with.cubes[with.pool[i]]
                IN  IF i > Len(order) \/ order[i] = me THEN Hide(cube)
                    ELSE Show(cube, entities[order[i]], 4)]
  IN  [pool |-> with.pool, cubes |-> Changed(with.cubes, with.pool, new)]

\* update_dynamic_props
PropsShown(order, entities, pool, known) ==
  LET with == WithCubes(pool, Len(order), known)
      new  == [i \in DOMAIN with.pool |->
                LET cube == with.cubes[with.pool[i]]
                IN  IF i > Len(order) THEN Hide(cube) ELSE Show(cube, entities[order[i]], 5)]
  IN  [pool |-> with.pool, cubes |-> Changed(with.cubes, with.pool, new)]

\* handle_redraw, of a client that is connected
Frame(from, to, t) ==
  LET entities == Interpolated(from, to, t)
      players == PlayerIds \cap DOMAIN entities
      props == PropIds \cap DOMAIN entities
  IN  /\ present' = from \cup to
      /\ \E playerOrder \in Orders(players), propOrder \in Orders(props) :
           LET afterPlayers == PlayersShown(playerOrder, entities, playerCubes, cubes)
               afterProps == PropsShown(propOrder, entities, propCubes, afterPlayers.cubes)
           IN  /\ playerCubes' = afterPlayers.pool
               /\ propCubes' = afterProps.pool
               /\ cubes' = afterProps.cubes
      /\ UNCHANGED me

\* ConnectionAccepted gives the client its entity
Accept(id) ==
  /\ me = NoId
  /\ me' = id
  /\ UNCHANGED <<cubes, playerCubes, propCubes, present>>

SceneNext ==
  \/ \E from, to \in SUBSET (PlayerIds \cup PropIds), t \in Fractions : Frame(from, to, t)
  \/ \E id \in PlayerIds : Accept(id)

SceneSpec == SceneInit /\ [][SceneNext]_sceneVars
-----------------------------------------------------------------------------
(* Properties.                                                             *)

\* The visible ones of cs, which record_render_pass draws
Visible(cs) == {c \in DOMAIN cs : cs[c].visible}

\* PoolsAreApart: a cube belongs to the players or to the props.
PoolsAreApart ==
  /\ IsInjective(playerCubes \o propCubes)
  /\ Range(playerCubes \o propCubes) = DOMAIN cubes

\* EachDrawnOnce: a frame draws every other player and every prop of its two
\* snapshots once, on its own way from one to the next or at most half as far
\* again, and in its size, and nothing else: no cube of an entity that left,
\* or of the player that looks, stays from an earlier frame, and none is in
\* both pools.
EachDrawnOnce ==
  [][/\ PoolsAreApart'
     /\ me' = me =>
          LET scale(id) == IF id \in PlayerIds THEN 4 ELSE 5
              drawn(id) == {c \in Visible(cubes') : cubes'[c].scale = scale(id)
                                                  /\ cubes'[c].place \in From(id) .. From(id) + 3}
          IN  /\ \A id \in present' \ {me} : Cardinality(drawn(id)) = 1
              /\ Cardinality(Visible(cubes')) = Cardinality(present' \ {me})]_sceneVars
=============================================================================

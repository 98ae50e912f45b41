------------------------------ MODULE MCParts ------------------------------
(***************************************************************************)
(* Small instances of parts that share no state: the playback clock and    *)
(* the scene of the client, the conversions of the wire, the entities and  *)
(* bodies of the server, and the three parts of the library that no        *)
(* program calls yet.  A behaviour moves one of them and leaves the others *)
(* as they begin, so that the run checks each on its own.                  *)
(***************************************************************************)
EXTENDS Playback, Scene, Conversions, Bodies, Lobby, EventQueue, Simulation

PartsInit ==
  Init /\ SceneInit /\ ConversionInit /\ BodiesInit /\ LobbyInit /\ EventInit /\ SimInit

\* All parts but one are as they begin, and stay so
Playing == /\ SceneInit /\ ConversionInit /\ BodiesInit /\ LobbyInit /\ EventInit /\ SimInit
           /\ UNCHANGED <<sceneVars, conversionVars, bodyVars, lobbyVars, eventVars, simVars>>
Showing == /\ Init /\ ConversionInit /\ BodiesInit /\ LobbyInit /\ EventInit /\ SimInit
           /\ UNCHANGED <<vars, conversionVars, bodyVars, lobbyVars, eventVars, simVars>>
Converting == /\ Init /\ SceneInit /\ BodiesInit /\ LobbyInit /\ EventInit /\ SimInit
              /\ UNCHANGED <<vars, sceneVars, bodyVars, lobbyVars, eventVars, simVars>>
Living == /\ Init /\ SceneInit /\ ConversionInit /\ LobbyInit /\ EventInit /\ SimInit
          /\ UNCHANGED <<vars, sceneVars, conversionVars, lobbyVars, eventVars, simVars>>
Meeting == /\ Init /\ SceneInit /\ ConversionInit /\ BodiesInit /\ EventInit /\ SimInit
           /\ UNCHANGED <<vars, sceneVars, conversionVars, bodyVars, eventVars, simVars>>
Queueing == /\ Init /\ SceneInit /\ ConversionInit /\ BodiesInit /\ LobbyInit /\ SimInit
            /\ UNCHANGED <<vars, sceneVars, conversionVars, bodyVars, lobbyVars, simVars>>
Simulating == /\ Init /\ SceneInit /\ ConversionInit /\ BodiesInit /\ LobbyInit /\ EventInit
              /\ UNCHANGED <<vars, sceneVars, conversionVars, bodyVars, lobbyVars, eventVars>>

PartsNext ==
  \/ Playing /\ Next
  \/ Showing /\ SceneNext
  \/ Converting /\ ConversionNext
  \/ Living /\ BodiesNext
  \/ Meeting /\ LobbyNext
  \/ Queueing /\ EventNext
  \/ Simulating /\ SimNext

PartsSpec ==
  PartsInit /\ [][PartsNext]_<<vars, sceneVars, conversionVars, bodyVars, lobbyVars, eventVars, simVars>>

\* Players are alike
PlayerSymmetry == Permutations(Players)
=============================================================================

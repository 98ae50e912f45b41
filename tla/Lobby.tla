------------------------------- MODULE Lobby -------------------------------
(***************************************************************************)
(* LobbyManager, Lobby and Queue (crates/game/src/lobby/mod.rs).  No       *)
(* program calls them yet: the environment makes any sequence of calls.    *)
(*                                                                         *)
(* Of the settings, max_players, the password and public matter.  A        *)
(* password is given right or wrong, nobody gives one where none is asked. *)
(***************************************************************************)
EXTENDS Naturals, FiniteSets, SequencesExt, Subsequence

CONSTANTS Players,
          MaxPlayers,  \* settings.max_players
          MatchSize,   \* target_lobby_size
          MaxLobbies   \* bound on the lobbies created

ASSUME LobbyAssumption ==
  MaxPlayers \in Nat \ {0} /\ MatchSize \in Nat \ {0} /\ MaxLobbies \in Nat

VARIABLES lobbies,       \* id -> Lobby
          playerLobby,   \* player_lobbies: player -> id
          nextLobbyId,
          queue          \* Queue.players

lobbyVars == <<lobbies, playerLobby, nextLobbyId, queue>>

LobbyInit ==
  /\ lobbies = << >>
  /\ playerLobby = << >>
  /\ nextLobbyId = 0
  /\ queue = << >>

\* The function f with f[x] = y, and without x
With(f, x, y) == [z \in DOMAIN f \cup {x} |-> IF z = x THEN y ELSE f[z]]
Without(f, x) == [z \in DOMAIN f \ {x} |-> f[z]]

\* create_lobby and Lobby::new.  Where the host was does not matter to it.
CreateLobby(host, password) ==
  /\ nextLobbyId < MaxLobbies
  /\ nextLobbyId' = nextLobbyId + 1
  /\ lobbies' = With(lobbies, nextLobbyId,
                     [players |-> <<host>>, host |-> host, password |-> password,
                      state |-> "Waiting"])
  /\ playerLobby' = With(playerLobby, host, nextLobbyId)
  /\ UNCHANGED queue

\* add_player
Added(lobby, p) ==
  IF Len(lobby.players) >= MaxPlayers \/ p \in ToSet(lobby.players) THEN lobby
  ELSE [lobby EXCEPT !.players = Append(@, p)]

JoinLobby_Anyone(id, p, right) ==
  /\ id \in DOMAIN lobbies
  /\ Len(lobbies[id].players) < MaxPlayers
  /\ lobbies[id].password => right
  /\ lobbies' = [lobbies EXCEPT ![id] = Added(@, p)]
  /\ playerLobby' = With(playerLobby, p, id)
  /\ UNCHANGED <<nextLobbyId, queue>>

JoinLobby_Full(id, p, right) ==
  /\ p \notin DOMAIN playerLobby
  /\ id \in DOMAIN lobbies
  /\ lobbies[id].password => right
  /\ lobbies' = [lobbies EXCEPT ![id] = Added(@, p)]
  /\ playerLobby' = With(playerLobby, p, id)
  /\ UNCHANGED <<nextLobbyId, queue>>

\* join_lobby, when it succeeds
JoinLobby(id, p, right) ==
  /\ p \notin DOMAIN playerLobby
  /\ id \in DOMAIN lobbies
  /\ Len(lobbies[id].players) < MaxPlayers
  /\ lobbies[id].password => right
  /\ lobbies' = [lobbies EXCEPT ![id] = Added(@, p)]
  /\ playerLobby' = With(playerLobby, p, id)
  /\ UNCHANGED <<nextLobbyId, queue>>

\* remove_player: the longest-standing player becomes the host
Removed(lobby, p) ==
  LET rest == Retain(lobby.players, {i \in DOMAIN lobby.players : lobby.players[i] # p})
  IN  [lobby EXCEPT !.players = rest,
                    !.host = IF @ = p /\ rest # << >> THEN Head(rest) ELSE @]

\* leave_lobby
LeaveLobby(p) ==
  /\ p \in DOMAIN playerLobby
  /\ LET id   == playerLobby[p]
         left == Removed(lobbies[id], p)
     IN  lobbies' = IF left.players = << >> THEN Without(lobbies, id)
                    ELSE [lobbies EXCEPT ![id] = left]
  /\ playerLobby' = Without(playerLobby, p)
  /\ UNCHANGED <<nextLobbyId, queue>>

\* start_countdown, cancel_countdown, through get_mut
Countdown(id) ==
  /\ id \in DOMAIN lobbies
  /\ lobbies' = [lobbies EXCEPT ![id].state = IF @ = "Waiting" THEN "Countdown" ELSE "Waiting"]
  /\ UNCHANGED <<playerLobby, nextLobbyId, queue>>

\* Queue::enqueue
Enqueue(p) ==
  /\ p \notin ToSet(queue)
  /\ queue' = Append(queue, p)
  /\ UNCHANGED <<lobbies, playerLobby, nextLobbyId>>

\* Queue::dequeue
Dequeue(p) ==
  /\ p \in ToSet(queue)
  /\ queue' = Retain(queue, {i \in DOMAIN queue : queue[i] # p})
  /\ UNCHANGED <<lobbies, playerLobby, nextLobbyId>>

\* Queue::pop_match
PopMatch ==
  /\ Len(queue) >= MatchSize
  /\ queue' = SubSeq(queue, MatchSize + 1, Len(queue))
  /\ UNCHANGED <<lobbies, playerLobby, nextLobbyId>>

LobbyNext ==
  \/ \E p \in Players :
       \/ \E protected \in BOOLEAN : CreateLobby(p, protected)
       \/ \E id \in 0 .. MaxLobbies - 1, right \in BOOLEAN : JoinLobby(id, p, right)
       \/ LeaveLobby(p)
       \/ Enqueue(p)
       \/ Dequeue(p)
  \/ \E id \in 0 .. MaxLobbies - 1 : Countdown(id)
  \/ PopMatch

LobbySpec == LobbyInit /\ [][LobbyNext]_lobbyVars
-----------------------------------------------------------------------------
(* Properties.                                                             *)

\* LobbyTypeOK: a lobby never has more players than it takes nor one twice,
\* and the queue nobody twice.
LobbyTypeOK ==
  /\ DOMAIN lobbies \subseteq 0 .. nextLobbyId - 1
  /\ DOMAIN playerLobby \subseteq Players
  /\ \A id \in DOMAIN lobbies :
       /\ Len(lobbies[id].players) <= MaxPlayers
       /\ ToSet(lobbies[id].players) \subseteq Players
       /\ IsInjective(lobbies[id].players)
  /\ ToSet(queue) \subseteq Players /\ IsInjective(queue)

\* MembersAreListed: whoever the manager holds for a member of a lobby is in
\* its list, and the lobby exists: whatever was created, joined and left, a
\* player can always leave.
MembersAreListed ==
  \A p \in DOMAIN playerLobby :
    /\ playerLobby[p] \in DOMAIN lobbies
    /\ p \in ToSet(lobbies[playerLobby[p]].players)

\* LobbiesAreHosted: every lobby has players, and one of them is its host.
LobbiesAreHosted ==
  \A id \in DOMAIN lobbies : lobbies[id].host \in ToSet(lobbies[id].players)

\* LobbiesAgree: the lobbies, the map of their members and their hosts agree.
LobbiesAgree == LobbyTypeOK /\ MembersAreListed /\ LobbiesAreHosted

\* The players that a lobby lists although the manager has them elsewhere
Ghosts ==
  {g \in (DOMAIN lobbies) \X Players :
     /\ g[2] \in ToSet(lobbies[g[1]].players)
     /\ ~(g[2] \in DOMAIN playerLobby /\ playerLobby[g[2]] = g[1])}

\* OnlyCreateLeavesGhosts: a lobby goes on listing a player who is not in it
\* any more only when that player, while in it, created another one:
\* create_lobby does not look where the host is.
OnlyCreateLeavesGhosts ==
  [][\A g \in Ghosts' \ Ghosts :
       nextLobbyId' = nextLobbyId + 1 /\ playerLobby'[g[2]] = nextLobbyId]_lobbyVars
=============================================================================

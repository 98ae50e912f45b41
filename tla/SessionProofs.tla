---------------------------- MODULE SessionProofs ----------------------------
(***************************************************************************)
(* The invariants and the action properties of Session, for any number of  *)
(* clients, slots and ids, with or without timeouts.                       *)
(*                                                                         *)
(* PlayersAreOwned: client ids and entity ids come from counters that only *)
(* grow, so a connection that is made or a player that is spawned gets an  *)
(* id above all those in use, and an entity is despawned only together     *)
(* with the connection that drives it (OwnedInv).                          *)
(*                                                                         *)
(* TypeOK and ConnectedAnswered: every message in flight or waiting for an *)
(* acknowledgement is one its sender can have sent, with ids the server    *)
(* had assigned by then (SessionInv).                                      *)
(*                                                                         *)
(* IdsAgree, NoRegress and OnlyTimeoutsOrphan, when the network delivers   *)
(* no datagram twice: the one request of a client is taken once, so it is  *)
(* challenged under one reliable sequence, answered under one, and the     *)
(* histories of both ends suppress every resend of either (OnceInv).       *)
(***************************************************************************)
EXTENDS Session, FiniteSetTheorems, TLAPS

\* s is a ClientConnection with an id
ServerConn(s) ==
  s = [id |-> s.id, state |-> s.state, salt |-> s.salt, entity |-> s.entity,
       conn |-> s.conn]

\* The ids of s are below the counters and its entity is in the world es
Drives(s, n, e, es) ==
  /\ ServerConn(s)
  /\ s.id \in 1 .. n - 1
  /\ s.entity \in 0 .. e - 1
  /\ s.state = "Connected" => s.entity # None
  /\ s.entity # None => s.entity \in es

\* Two connections share no id
Apart(r, s) == r.id # s.id /\ (r.entity = s.entity => s.entity = None)

CountersInv ==
  /\ nextId \in Nat \ {0}
  /\ nextEntity \in Nat \ {0}
  /\ entities \subseteq 1 .. nextEntity - 1

ConnsInv ==
  /\ \A c \in DOMAIN conns : Drives(conns[c], nextId, nextEntity, entities)
  /\ \A a, c \in DOMAIN conns : a # c => Apart(conns[a], conns[c])

\* OwnedInv: the strengthening of PlayersAreOwned that the steps preserve
OwnedInv == CountersInv /\ ConnsInv
-----------------------------------------------------------------------------
\* PutKeeps: the invariant survives when the connection of one address is
\* added or replaced by s, if s has its ids to itself.
LEMMA PutKeeps ==
  ASSUME OwnedInv, CountersInv', NEW c, NEW s,
         PutConnection(c, s),
         Drives(s, nextId', nextEntity', entities'),
         \A a \in DOMAIN conns \ {c} : Apart(conns[a], s),
         nextId <= nextId', nextEntity <= nextEntity', entities \subseteq entities'
  PROVE  OwnedInv'
<1>1. CountersInv /\ ConnsInv
  BY DEF OwnedInv
<1>2. /\ DOMAIN conns' = DOMAIN conns \cup {c}
      /\ conns'[c] = s
      /\ \A a \in DOMAIN conns \ {c} : conns'[a] = conns[a]
  BY DEF PutConnection
<1>3. ASSUME NEW a \in DOMAIN conns'
      PROVE  Drives(conns'[a], nextId', nextEntity', entities')
  <2>1. CASE a = c
    BY <1>2, <2>1
  <2>2. CASE a # c
    <3>1. a \in DOMAIN conns /\ conns'[a] = conns[a]
      BY <1>2, <2>2
    <3>2. Drives(conns[a], nextId, nextEntity, entities)
      BY <1>1, <3>1 DEF ConnsInv
    <3> QED BY <1>1, <3>1, <3>2 DEF Drives, CountersInv
  <2> QED BY <2>1, <2>2
<1>4. ASSUME NEW a \in DOMAIN conns', NEW b \in DOMAIN conns', a # b
      PROVE  Apart(conns'[a], conns'[b])
  <2>1. CASE a # c /\ b # c
    BY <1>1, <1>2, <1>4, <2>1 DEF ConnsInv
  <2>2. CASE a # c /\ b = c
    BY <1>2, <2>2
  <2>3. CASE a = c
    BY <1>2, <1>4, <2>3 DEF Apart
  <2> QED BY <2>1, <2>2, <2>3
<1> QED BY <1>3, <1>4 DEF OwnedInv, ConnsInv

\* RemoveKeeps: it survives the removal of a connection, with its entity or
\* without.
LEMMA RemoveKeeps ==
  ASSUME OwnedInv, NEW c \in DOMAIN conns, RemoveConnection(c),
         \/ Despawn(conns[c])
         \/ UNCHANGED entities,
         UNCHANGED <<nextId, nextEntity>>
  PROVE  OwnedInv'
<1>1. CountersInv /\ ConnsInv
  BY DEF OwnedInv
<1>2. /\ DOMAIN conns' = DOMAIN conns \ {c}
      /\ \A a \in DOMAIN conns' : conns'[a] = conns[a]
  BY DEF RemoveConnection
<1>3. entities \ {conns[c].entity} \subseteq entities' /\ entities' \subseteq entities
  BY DEF Despawn
<1>4. CountersInv'
  BY <1>1, <1>3 DEF CountersInv
<1>5. ASSUME NEW a \in DOMAIN conns'
      PROVE  Drives(conns'[a], nextId', nextEntity', entities')
  <2>1. a \in DOMAIN conns /\ a # c /\ conns'[a] = conns[a]
    BY <1>2
  <2>2. Drives(conns[a], nextId, nextEntity, entities) /\ Apart(conns[c], conns[a])
    BY <1>1, <2>1 DEF ConnsInv
  <2> QED BY <1>3, <2>1, <2>2 DEF Drives, Apart
<1>6. ASSUME NEW a \in DOMAIN conns', NEW b \in DOMAIN conns', a # b
      PROVE  Apart(conns'[a], conns'[b])
  BY <1>1, <1>2, <1>6 DEF ConnsInv
<1> QED BY <1>4, <1>5, <1>6 DEF OwnedInv, ConnsInv

\* ConnUpdated: replacing what the reliability layer keeps leaves the ids.
LEMMA ConnUpdated ==
  ASSUME NEW s, ServerConn(s), NEW x, NEW t, t = [s EXCEPT !.conn = x]
  PROVE  /\ ServerConn(t)
         /\ t.id = s.id /\ t.state = s.state /\ t.entity = s.entity
<1> DEFINE i == s.id
           st == s.state
           sa == s.salt
           e == s.entity
           k == s.conn
<1>1. s = [id |-> i, state |-> st, salt |-> sa, entity |-> e, conn |-> k]
  BY DEF ServerConn
<1> HIDE DEF i, st, sa, e, k
<1>2. t = [id |-> i, state |-> st, salt |-> sa, entity |-> e, conn |-> x]
  BY <1>1
<1> QED BY <1>1, <1>2 DEF ServerConn

\* SameIdKeeps: replacing a connection by one with its ids and its state keeps
\* the invariant.
LEMMA SameIdKeeps ==
  ASSUME OwnedInv, NEW c \in DOMAIN conns,
         NEW s, ServerConn(s), s.id = conns[c].id, s.state = conns[c].state,
         s.entity = conns[c].entity,
         PutConnection(c, s),
         UNCHANGED <<nextId, nextEntity, entities>>
  PROVE  OwnedInv'
<1>1. CountersInv /\ ConnsInv
  BY DEF OwnedInv
<1>2. Drives(conns[c], nextId, nextEntity, entities)
  BY <1>1 DEF ConnsInv
<1>3. \A a \in DOMAIN conns \ {c} : Apart(conns[a], conns[c])
  BY <1>1 DEF ConnsInv
<1>4. Drives(s, nextId', nextEntity', entities')
  BY <1>2 DEF Drives
<1>5. \A a \in DOMAIN conns \ {c} : Apart(conns[a], s)
  BY <1>3 DEF Apart
<1>6. CountersInv' /\ nextId <= nextId' /\ nextEntity <= nextEntity'
  BY <1>1 DEF CountersInv
<1> QED BY <1>4, <1>5, <1>6, PutKeeps

\* AcceptKeeps: so does giving it a new player.
LEMMA AcceptKeeps ==
  ASSUME OwnedInv, NEW c \in DOMAIN conns,
         NEW s, ServerConn(s), s.id = conns[c].id, s.entity = nextEntity,
         PutConnection(c, s),
         entities' = entities \cup {nextEntity},
         nextEntity' = nextEntity + 1,
         UNCHANGED nextId
  PROVE  OwnedInv'
<1>1. CountersInv /\ ConnsInv
  BY DEF OwnedInv
<1>2. \A a \in DOMAIN conns : Drives(conns[a], nextId, nextEntity, entities)
  BY <1>1 DEF ConnsInv
<1>3. \A a \in DOMAIN conns \ {c} : Apart(conns[a], conns[c])
  BY <1>1 DEF ConnsInv
<1>4. nextEntity \in Nat \ {0} /\ nextId \in Nat \ {0} /\ entities \subseteq 1 .. nextEntity - 1
  BY <1>1 DEF CountersInv
<1>5. Drives(s, nextId', nextEntity', entities')
  BY <1>2, <1>4 DEF Drives, None
<1>6. ASSUME NEW a \in DOMAIN conns \ {c}
      PROVE  Apart(conns[a], s)
  <2>1. conns[a].entity \in 0 .. nextEntity - 1
    BY <1>2 DEF Drives
  <2>2. conns[a].entity # nextEntity
    BY <1>4, <2>1
  <2> QED BY <1>3, <2>2 DEF Apart
<1>7. /\ CountersInv' /\ nextId <= nextId' /\ nextEntity <= nextEntity'
      /\ entities \subseteq entities'
  BY <1>4 DEF CountersInv
<1> QED BY <1>5, <1>6, <1>7, PutKeeps

\* AddKeeps: so does a new connection.
LEMMA AddKeeps ==
  ASSUME OwnedInv, NEW c,
         NEW s, ServerConn(s), s.id = nextId, s.entity = None, s.state = "Connecting",
         PutConnection(c, s),
         nextId' = nextId + 1,
         UNCHANGED <<nextEntity, entities>>
  PROVE  OwnedInv'
<1>1. CountersInv /\ ConnsInv
  BY DEF OwnedInv
<1>2. nextEntity \in Nat \ {0} /\ nextId \in Nat \ {0} /\ entities \subseteq 1 .. nextEntity - 1
  BY <1>1 DEF CountersInv
<1>3. Drives(s, nextId', nextEntity', entities')
  BY <1>2 DEF Drives, None
<1>4. ASSUME NEW a \in DOMAIN conns \ {c}
      PROVE  Apart(conns[a], s)
  <2>1. conns[a].id \in 1 .. nextId - 1
    BY <1>1 DEF ConnsInv, Drives
  <2> QED BY <1>2, <2>1 DEF Apart
<1>5. CountersInv' /\ nextId <= nextId' /\ nextEntity <= nextEntity'
  BY <1>2 DEF CountersInv
<1> QED BY <1>3, <1>4, <1>5, PutKeeps
-----------------------------------------------------------------------------
\* SentConn: sending on a connection leaves its ids.
LEMMA SentConn ==
  ASSUME NEW s, ServerConn(s), NEW ch, NEW msg, NEW t, t = Sending(s, ch, msg)
  PROVE  /\ ServerConn(t)
         /\ t.id = s.id /\ t.state = s.state /\ t.entity = s.entity
<1> DEFINE x == SendPacket(s.conn, ch, msg)
<1>1. t = [s EXCEPT !.conn = x]
  BY DEF Sending
<1> HIDE DEF x
<1> QED BY <1>1, ConnUpdated

\* UnknownOwned: a datagram from an address without a connection.
LEMMA UnknownOwned ==
  ASSUME OwnedInv, NEW c, NEW d, ServerReceiveUnknown(c, d)
  PROVE  OwnedInv'
<1>1. CASE UNCHANGED <<conns, nextId, entities, nextEntity>>
  BY <1>1 DEF OwnedInv, CountersInv, ConnsInv
<1>2. CASE nextId' = nextId + 1 /\ SendChallenge(c, NewServerConnection(d.msg.salt))
  <2> DEFINE n == NewServerConnection(d.msg.salt)
             m == Challenge(n.salt, n.id)
             s == Sending(n, Reliable, m)
  <2>1. ServerConn(n) /\ n.id = nextId /\ n.entity = None /\ n.state = "Connecting"
    BY DEF NewServerConnection, ServerConn
  <2>2. PutConnection(c, s) /\ UNCHANGED <<nextEntity, entities>>
    BY <1>2 DEF SendChallenge, ServerSends
  <2> HIDE DEF n, m
  <2>3. ServerConn(s) /\ s.id = nextId /\ s.entity = None /\ s.state = "Connecting"
    <3>1. ServerConn(s) /\ s.id = n.id /\ s.state = n.state /\ s.entity = n.entity
      BY <2>1, SentConn
    <3> QED BY <2>1, <3>1
  <2> HIDE DEF s
  <2> QED BY <1>2, <2>2, <2>3, AddKeeps
<1> QED BY <1>1, <1>2 DEF ServerReceiveUnknown, serverVars

\* SendKeeps: sending to a client on a connection with its ids.
LEMMA SendKeeps ==
  ASSUME OwnedInv, NEW c \in DOMAIN conns,
         NEW s, ServerConn(s), s.id = conns[c].id, s.state = conns[c].state,
         s.entity = conns[c].entity,
         NEW msg, NEW ch, ServerSends(c, s, msg, ch),
         UNCHANGED <<nextId, nextEntity, entities>>
  PROVE  OwnedInv'
<1> DEFINE t == Sending(s, ch, msg)
<1>1. PutConnection(c, t)
  BY DEF ServerSends
<1>2. ServerConn(t) /\ t.id = s.id /\ t.state = s.state /\ t.entity = s.entity
  BY SentConn
<1> HIDE DEF t
<1> QED BY <1>1, <1>2, SameIdKeeps

\* ResponseOwned: handle_challenge_response, on the connection s.
LEMMA ResponseOwned ==
  ASSUME OwnedInv, NEW c \in DOMAIN conns,
         NEW s, ServerConn(s), s.id = conns[c].id, s.state = conns[c].state,
         s.entity = conns[c].entity,
         NEW m, HandleChallengeResponse(c, s, m), UNCHANGED nextId
  PROVE  OwnedInv'
<1>1. CASE PutConnection(c, s) /\ UNCHANGED <<entities, nextEntity>>
  BY <1>1, SameIdKeeps
<1>2. CASE /\ ServerSends(c, [s EXCEPT !.state = "Connected", !.entity = nextEntity],
                          Accepted(s.id, nextEntity), Reliable)
           /\ entities' = entities \cup {nextEntity}
           /\ nextEntity' = nextEntity + 1
  <2> DEFINE p == [s EXCEPT !.state = "Connected", !.entity = nextEntity]
             msg == Accepted(s.id, nextEntity)
             t == Sending(p, Reliable, msg)
  <2>1. p = [s EXCEPT !.state = "Connected", !.entity = nextEntity]
    OBVIOUS
  <2>2. ServerSends(c, p, msg, Reliable)
    BY <1>2
  <2> HIDE DEF p, msg
  <2>3. PutConnection(c, t)
    BY <2>2 DEF ServerSends
  <2>4. ServerConn(p) /\ p.id = s.id /\ p.entity = nextEntity
    <3> DEFINE i == s.id
               st == s.state
               sa == s.salt
               e == s.entity
               k == s.conn
    <3>1. s = [id |-> i, state |-> st, salt |-> sa, entity |-> e, conn |-> k]
      BY DEF ServerConn
    <3> HIDE DEF i, st, sa, e, k
    <3>2. /\ DOMAIN p = {"id", "state", "salt", "entity", "conn"}
          /\ p.id = i /\ p.state = "Connected" /\ p.salt = sa
          /\ p.entity = nextEntity /\ p.conn = k
      BY <2>1, <3>1
    <3>3. p = [f \in DOMAIN p |-> p[f]]
      BY <2>1
    <3>4. p = [id |-> p.id, state |-> p.state, salt |-> p.salt, entity |-> p.entity,
               conn |-> p.conn]
      BY <3>2, <3>3
    <3> QED BY <3>1, <3>2, <3>4 DEF ServerConn
  <2>5. ServerConn(t) /\ t.id = p.id /\ t.entity = p.entity
    BY <2>4, SentConn
  <2> HIDE DEF t
  <2>6. ServerConn(t) /\ t.id = conns[c].id /\ t.entity = nextEntity
    BY <2>4, <2>5
  <2> QED BY <1>2, <2>3, <2>6, AcceptKeeps
<1> QED BY <1>1, <1>2 DEF HandleChallengeResponse

\* ReceiveOwned: a datagram from an address with a connection.
LEMMA ReceiveOwned ==
  ASSUME OwnedInv, NEW c, NEW d, ServerReceive(c, d)
  PROVE  OwnedInv'
<1> DEFINE x == ProcessPacket(conns[c].conn, d)
           s == [conns[c] EXCEPT !.conn = x]
<1>1. /\ c \in DOMAIN conns
      /\ UNCHANGED nextId
      /\ \/ HandlePayload(c, s, d.msg)
         \/ PutConnection(c, s) /\ UNCHANGED <<entities, nextEntity>>
  BY DEF ServerReceive
<1>2. ServerConn(conns[c])
  BY <1>1 DEF OwnedInv, ConnsInv, Drives
<1> HIDE DEF x
<1>3. ServerConn(s) /\ s.id = conns[c].id /\ s.state = conns[c].state /\ s.entity = conns[c].entity
  BY <1>2, ConnUpdated
<1> HIDE DEF s
<1>4. CASE PutConnection(c, s) /\ UNCHANGED <<entities, nextEntity>>
  BY <1>1, <1>3, <1>4, SameIdKeeps
<1>5. CASE SendChallenge(c, s)
  <2>1. /\ ServerSends(c, s, Challenge(s.salt, s.id), Reliable)
        /\ UNCHANGED <<nextId, nextEntity, entities>>
    BY <1>1, <1>5 DEF SendChallenge
  <2> QED BY <1>1, <1>3, <2>1, SendKeeps
<1>6. CASE HandleChallengeResponse(c, s, d.msg)
  BY <1>1, <1>3, <1>6, ResponseOwned
<1>7. CASE ServerSends(c, s, Pong, Unreliable) /\ UNCHANGED <<entities, nextEntity>>
  BY <1>1, <1>3, <1>7, SendKeeps
<1>8. CASE RemoveConnection(c) /\ Despawn(s) /\ UNCHANGED nextEntity
  <2>1. Despawn(conns[c])
    BY <1>3, <1>8 DEF Despawn
  <2> QED BY <1>1, <1>8, <2>1, RemoveKeeps
<1> QED BY <1>1, <1>4, <1>5, <1>6, <1>7, <1>8 DEF HandlePayload

\* OthersOwned: resends, kicks and timeouts.
LEMMA OthersOwned ==
  ASSUME OwnedInv, NEW c, ServerResend(c) \/ KickClient(c) \/ CleanupTimedOut(c)
  PROVE  OwnedInv'
<1>1. CASE ServerResend(c)
  <2>1. PICK due : conns' = [conns EXCEPT ![c].conn = CollectResends(@, due)]
    BY <1>1 DEF ServerResend
  <2>2. c \in DOMAIN conns /\ UNCHANGED <<nextId, nextEntity, entities>>
    BY <1>1 DEF ServerResend
  <2> DEFINE x == CollectResends(conns[c].conn, due)
             s == [conns[c] EXCEPT !.conn = x]
  <2>3. PutConnection(c, s)
    BY <2>1, <2>2 DEF PutConnection
  <2>4. ServerConn(conns[c])
    BY <2>2 DEF OwnedInv, ConnsInv, Drives
  <2> HIDE DEF x
  <2>5. ServerConn(s) /\ s.id = conns[c].id /\ s.state = conns[c].state /\ s.entity = conns[c].entity
    BY <2>4, ConnUpdated
  <2> HIDE DEF s
  <2> QED BY <2>2, <2>3, <2>5, SameIdKeeps
<1>2. CASE KickClient(c)
  BY <1>2, RemoveKeeps DEF KickClient
<1>3. CASE CleanupTimedOut(c)
  BY <1>3, RemoveKeeps DEF CleanupTimedOut
<1> QED BY <1>1, <1>2, <1>3

\* ClientOwned: no step of a client changes what the server has.
LEMMA ClientOwned ==
  ASSUME NEW c \in Clients, ClientStep(c)
  PROVE  UNCHANGED serverVars
BY DEF ClientStep, Connect, ClientReceive, ClientPing, ClientResend, ClientTimeout,
       Launch, Leave, Crash
-----------------------------------------------------------------------------
\* OwnedAlways: every connected client drives a player of its own that is in
\* the world, and client ids are not shared (handle_connection_request,
\* handle_challenge_response, kick_client, cleanup_timed_out), for any number
\* of clients and slots, whatever is lost, reordered or duplicated.
THEOREM OwnedAlways == Spec => []PlayersAreOwned
<1>1. Init => OwnedInv
  BY DEF Init, OwnedInv, CountersInv, ConnsInv
<1>2. OwnedInv /\ [Next]_vars => OwnedInv'
  <2> SUFFICES ASSUME OwnedInv, [Next]_vars PROVE OwnedInv'
    OBVIOUS
  <2>1. CASE UNCHANGED serverVars
    BY <2>1 DEF serverVars, OwnedInv, CountersInv, ConnsInv
  <2>2. ASSUME NEW c \in Clients, ServerStep(c) PROVE OwnedInv'
    <3>1. ASSUME NEW d \in up[c], ServerReceiveUnknown(c, d) PROVE OwnedInv'
      BY <3>1, UnknownOwned
    <3>2. ASSUME NEW d \in up[c], ServerReceive(c, d) PROVE OwnedInv'
      BY <3>2, ReceiveOwned
    <3>3. CASE ServerResend(c) \/ KickClient(c) \/ CleanupTimedOut(c)
      BY <3>3, OthersOwned
    <3> QED BY <2>2, <3>1, <3>2, <3>3 DEF ServerStep
  <2>3. ASSUME NEW c \in Clients, ClientStep(c) PROVE OwnedInv'
    BY <2>1, <2>3, ClientOwned
  <2>4. CASE UNCHANGED vars
    BY <2>1, <2>4 DEF vars
  <2> QED BY <2>2, <2>3, <2>4 DEF Next
<1>3. OwnedInv => PlayersAreOwned
  BY DEF OwnedInv, ConnsInv, Drives, Apart, PlayersAreOwned
<1> QED BY <1>1, <1>2, <1>3, PTL DEF Spec
-----------------------------------------------------------------------------
(* The types, and the answers to challenges.                              *)

ConnFields == {"sendSeq", "track", "nextSeq", "inflight", "pending", "recv", "history",
               "expected", "buffer"}

\* k is a ClientConnection as far as the handshake needs to know it
IsConn(k) ==
  /\ DOMAIN k = ConnFields
  /\ k.nextSeq \in [{Reliable, Ordered} -> ChanSeq]
  /\ k.history \in Seq(ChanSeq)

\* NewConnFacts: ClientConnection::new has sent and received nothing.
LEMMA NewConnFacts ==
  /\ IsConn(NewConnection)
  /\ NewConnection.pending = {} /\ NewConnection.history = << >>
  /\ NewConnection.nextSeq[Reliable] = 0
BY SizesAssumption DEF NewConnection, IsConn, ConnFields, ChanSeq

\* SendFacts: what send_packet changes: a reliable message takes the next
\* channel sequence and is kept for resending, an unreliable one is forgotten.
LEMMA SendFacts ==
  ASSUME NEW k, IsConn(k), NEW ch \in {Unreliable, Reliable}, NEW msg
  PROVE  LET q == SendPacket(k, ch, msg)
             d == SentPacket(k, ch, msg)
         IN  /\ IsConn(q) /\ q.history = k.history
             /\ d.ch = ch /\ d.msg = msg /\ d.cseq \in ChanSeq
             /\ ch = Unreliable => q.pending = k.pending /\ q.nextSeq = k.nextSeq
             /\ ch = Reliable =>
                  /\ d.cseq = k.nextSeq[Reliable]
                  /\ q.nextSeq[Reliable] = WrapAdd(k.nextSeq[Reliable], 1, ChanMod)
                  /\ q.pending \subseteq k.pending \cup
                       {[ch |-> Reliable, cseq |-> k.nextSeq[Reliable], msg |-> msg]}
<1> DEFINE next == WrapAdd(k.nextSeq[Reliable], 1, ChanMod)
<1>1. k.nextSeq[Reliable] \in ChanSeq
  BY DEF IsConn
<1>2. next \in ChanSeq /\ 0 \in ChanSeq
  BY <1>1, SizesAssumption DEF WrapAdd, ChanSeq
<1>3. CASE ch = Unreliable
  BY <1>2, <1>3 DEF SendPacket, SentPacket, Packet, IsConn, ConnFields, Unreliable, Reliable
<1>4. CASE ch = Reliable
  <2> DEFINE seq == k.nextSeq[Reliable]
             seqs == [k.nextSeq EXCEPT ![Reliable] = next]
  <2>1. seqs \in [{Reliable, Ordered} -> ChanSeq] /\ seqs[Reliable] = next
    BY <1>2 DEF IsConn
  <2>2. LET q == SendPacket(k, ch, msg)
        IN  /\ DOMAIN q = ConnFields /\ q.history = k.history /\ q.nextSeq = seqs
            /\ q.pending \subseteq k.pending \cup {[ch |-> Reliable, cseq |-> seq, msg |-> msg]}
    BY <1>4 DEF SendPacket, IsConn, ConnFields, Unreliable, Reliable, InsertPending
  <2>3. LET d == SentPacket(k, ch, msg) IN d.ch = ch /\ d.msg = msg /\ d.cseq = seq
    BY <1>4 DEF SentPacket, Packet, Unreliable, Reliable
  <2> QED BY <1>1, <1>4, <2>1, <2>2, <2>3 DEF IsConn, Unreliable, Reliable
<1> QED BY <1>3, <1>4

\* ResendFacts: collect_resends sends again what is pending, unchanged.
LEMMA ResendFacts ==
  ASSUME NEW k, IsConn(k), NEW n, NEW due \in DueLists(k.pending, n)
  PROVE  LET q == CollectResends(k, due)
         IN  /\ IsConn(q) /\ q.history = k.history
             /\ q.pending = k.pending /\ q.nextSeq = k.nextSeq
             /\ \A d \in ResentPackets(k, due) : \E m \in k.pending :
                  d.ch = m.ch /\ d.cseq = m.cseq /\ d.msg = m.msg
<1>1. PICK i \in 1 .. n : due \in [1 .. i -> k.pending]
  BY DEF DueLists
<1> QED BY <1>1 DEF CollectResends, ResentPackets, Packet, IsConn, ConnFields

\* What collect_resends does to a connection k
SentAgain(k, due) ==
  LET q == CollectResends(k, due)
  IN  /\ IsConn(q) /\ q.history = k.history
      /\ q.pending = k.pending /\ q.nextSeq = k.nextSeq
      /\ \A d \in ResentPackets(k, due) : \E m \in k.pending :
           d.ch = m.ch /\ d.cseq = m.cseq /\ d.msg = m.msg

\* SendsAgain: ResendFacts, in that form.
LEMMA SendsAgain ==
  ASSUME NEW k, IsConn(k), NEW n, NEW due \in DueLists(k.pending, n)
  PROVE  SentAgain(k, due)
BY ResendFacts DEF SentAgain

\* ReceiveFacts: process_packet remembers a reliable message exactly when it
\* hands it on, and never hands on one it remembers.
LEMMA ReceiveFacts ==
  ASSUME NEW k, IsConn(k), NEW p, p.ch \in {Unreliable, Reliable}, p.cseq \in ChanSeq
  PROVE  LET q == ProcessPacket(k, p)
             kept == IF Len(k.history) >= HistorySize THEN Tail(k.history) ELSE k.history
         IN  /\ IsConn(q)
             /\ q.pending \subseteq k.pending /\ q.nextSeq = k.nextSeq
             /\ p.ch = Unreliable \/ Result(k, p) = << >> => q.history = k.history
             /\ p.ch = Reliable /\ Result(k, p) # << >> =>
                  ~InHistory(k, p) /\ q.history = Append(kept, p.cseq)
<1> DEFINE settled == HandleAcks(k, p)
           recorded == [settled EXCEPT !.recv = RecordReceived(@, p.seq)]
           kept == IF Len(k.history) >= HistorySize THEN Tail(k.history) ELSE k.history
<1>1. /\ IsConn(settled) /\ settled.history = k.history /\ settled.nextSeq = k.nextSeq
      /\ settled.pending \subseteq k.pending
  BY DEF HandleAcks, IsConn, ConnFields
<1> HIDE DEF settled
<1>2. /\ IsConn(recorded) /\ recorded.history = k.history /\ recorded.nextSeq = k.nextSeq
      /\ recorded.pending \subseteq k.pending
  BY <1>1 DEF IsConn, ConnFields
<1> HIDE DEF recorded
<1>3. CASE Seen(k.recv, p.seq)
  <2>1. ProcessPacket(k, p) = settled /\ Result(k, p) = << >>
    BY <1>3 DEF ProcessPacket, Result, settled, recorded
  <2> QED BY <1>1, <2>1
<1>4. CASE ~Seen(k.recv, p.seq) /\ p.ch = Unreliable
  <2>1. ProcessPacket(k, p) = recorded
    BY <1>4 DEF ProcessPacket, settled, recorded, Unreliable, Reliable, Ordered
  <2> QED BY <1>2, <1>4, <2>1 DEF Unreliable, Reliable
<1>5. CASE ~Seen(k.recv, p.seq) /\ p.ch = Reliable
  <2>1. /\ ProcessPacket(k, p) = AcceptReliable(recorded, p)
        /\ Result(k, p) = IF InHistory(k, p) THEN << >> ELSE <<p.msg>>
    BY <1>5 DEF ProcessPacket, Result, settled, recorded, Unreliable, Reliable, Ordered
  <2>2. InHistory(recorded, p) <=> InHistory(k, p)
    BY <1>2 DEF InHistory
  <2>3. CASE InHistory(k, p)
    <3>1. ProcessPacket(k, p) = recorded /\ Result(k, p) = << >>
      BY <2>1, <2>2, <2>3 DEF AcceptReliable
    <3> QED BY <1>2, <3>1
  <2>4. CASE ~InHistory(k, p)
    <3>1. ProcessPacket(k, p) = [recorded EXCEPT !.history = Append(kept, p.cseq)]
      BY <1>2, <2>1, <2>2, <2>4 DEF AcceptReliable
    <3>2. kept \in Seq(ChanSeq)
      BY SizesAssumption DEF IsConn
    <3>3. Append(kept, p.cseq) \in Seq(ChanSeq)
      BY <3>2
    <3>4. Result(k, p) # << >>
      BY <2>1, <2>4
    <3> HIDE DEF kept
    <3>5. LET q == ProcessPacket(k, p)
          IN IsConn(q) /\ q.pending \subseteq k.pending /\ q.nextSeq = k.nextSeq 
             /\ q.history = Append(kept, p.cseq)
      BY <1>2, <3>1, <3>3 DEF IsConn, ConnFields
    <3> QED BY <1>5, <2>4, <3>4, <3>5 DEF kept, Unreliable, Reliable
  <2> QED BY <2>3, <2>4
<1> QED BY <1>3, <1>4, <1>5

-----------------------------------------------------------------------------
\* What c may have sent or have pending, while the server has assigned the ids
\* below n
UpMsg(c, m, n) ==
  /\ m.cseq \in ChanSeq
  /\ \/ m.ch = Unreliable /\ m.msg \in {Request(c), Ping}
     \/ m.ch = Reliable /\ m.msg = Disconnect
     \/ m.ch = Reliable /\ \E id \in 1 .. n - 1 : m.msg = Response(c, id)

\* What the server may have sent to c, with the entities below e
DownMsg(c, m, n, e) ==
  /\ m.cseq \in ChanSeq
  /\ \/ m.ch = Unreliable /\ m.msg \in {Pong, Denied}
     \/ m.ch = Reliable /\ m.msg = Disconnect
     \/ m.ch = Reliable /\ \E id \in 1 .. n - 1 : m.msg = Challenge(c, id)
     \/ m.ch = Reliable /\ \E id \in 1 .. n - 1, x \in 1 .. e - 1 : m.msg = Accepted(id, x)

\* r is a state of the client c
ClientOf(c, r, n, e) ==
  /\ DOMAIN r = {"phase", "state", "salt", "clientId", "entity", "started", "conn"}
  /\ r.phase \in {"off", "menu", "game", "gone"}
  /\ r.state \in {"Disconnected", "Connecting", "ChallengeResponse", "Connected"}
  /\ r.salt \in {c, Unsent} /\ (r.phase = "off" => r.salt = c)
  /\ r.clientId \in 0 .. n - 1
  /\ r.entity \in 0 .. e - 1
  /\ r.started \in BOOLEAN
  /\ IsConn(r.conn)
  /\ \A m \in r.conn.pending : UpMsg(c, m, n)

\* s is a connection of the server with c
ServerOf(c, s, n, e) ==
  /\ DOMAIN s = {"id", "state", "salt", "entity", "conn"}
  /\ s.id \in 1 .. n - 1
  /\ s.state \in {"Connecting", "Connected"}
  /\ s.salt = c
  /\ s.entity \in 0 .. e - 1
  /\ s.state = "Connected" <=> s.entity # None
  /\ IsConn(s.conn)
  /\ \A m \in s.conn.pending : DownMsg(c, m, n, e)

\* c has answered the challenge of the connection s
Answered(c, s) ==
  s.state = "Connected" => \E d \in up[c] : d.msg = Response(s.salt, s.id)

ClientsInv ==
  /\ DOMAIN client = Clients /\ DOMAIN up = Clients /\ DOMAIN down = Clients
  /\ \A c \in Clients :
       /\ ClientOf(c, client[c], nextId, nextEntity)
       /\ \A d \in up[c] : UpMsg(c, d, nextId)
       /\ \A d \in down[c] : DownMsg(c, d, nextId, nextEntity)

ServerInv ==
  /\ nextId \in 1 .. MaxIds + 1
  /\ nextEntity \in Nat \ {0}
  /\ entities \subseteq 1 .. nextEntity - 1
  /\ DOMAIN conns \subseteq Clients
  /\ IsFiniteSet(DOMAIN conns) /\ Cardinality(DOMAIN conns) <= MaxClients
  /\ \A c \in DOMAIN conns : ServerOf(c, conns[c], nextId, nextEntity) /\ Answered(c, conns[c])

TakenInv == DOMAIN taken = {"once", "again"} /\ taken.again \in Nat

\* SessionInv: the strengthening of TypeOK and ConnectedAnswered
SessionInv == ClientsInv /\ ServerInv /\ TakenInv

-----------------------------------------------------------------------------
\* ClientKeeps: the invariant survives a step of c that leaves it in r with
\* the datagrams D sent.
LEMMA ClientKeeps ==
  ASSUME SessionInv, NEW c \in Clients,
         NEW r, ClientOf(c, r, nextId, nextEntity), client' = [client EXCEPT ![c] = r],
         NEW D, \A d \in D : UpMsg(c, d, nextId),
         up' = [up EXCEPT ![c] = @ \cup D] \/ UNCHANGED up,
         UNCHANGED <<serverVars, down>>, TakenInv'
  PROVE  SessionInv'
<1>1. ClientsInv /\ ServerInv
  BY DEF SessionInv
<1>2. UNCHANGED <<conns, nextId, entities, nextEntity, down>>
  BY DEF serverVars
<1>3. /\ DOMAIN client' = Clients /\ DOMAIN up' = Clients
      /\ client'[c] = r /\ up'[c] \in {up[c], up[c] \cup D}
      /\ \A a \in Clients \ {c} : client'[a] = client[a] /\ up'[a] = up[a]
  BY <1>1 DEF ClientsInv
<1>4. ClientsInv'
  <2>1. ASSUME NEW a \in Clients
        PROVE  /\ ClientOf(a, client'[a], nextId', nextEntity')
               /\ \A d \in up'[a] : UpMsg(a, d, nextId')
               /\ \A d \in down'[a] : DownMsg(a, d, nextId', nextEntity')
    BY <1>1, <1>2, <1>3 DEF ClientsInv
  <2> QED BY <1>1, <1>2, <1>3, <2>1 DEF ClientsInv
<1>5. ServerInv'
  <2>1. ASSUME NEW a \in DOMAIN conns
        PROVE  ServerOf(a, conns'[a], nextId', nextEntity') /\ Answered(a, conns[a])'
    <3>1. up[a] \subseteq up'[a]
      BY <1>1, <1>3 DEF ServerInv
    <3> QED BY <1>1, <1>2, <3>1 DEF ServerInv, Answered
  <2> QED BY <1>1, <1>2, <2>1 DEF ServerInv
<1> QED BY <1>4, <1>5 DEF SessionInv

\* ClientMoves: so it does when c sends nothing.
LEMMA ClientMoves ==
  ASSUME SessionInv, NEW c \in Clients,
         NEW r, ClientOf(c, r, nextId, nextEntity), client' = [client EXCEPT ![c] = r],
         UNCHANGED <<serverVars, up, down>>, TakenInv'
  PROVE  SessionInv'
<1> DEFINE D == {}
<1>1. \A d \in D : UpMsg(c, d, nextId)
  OBVIOUS
<1>2. up' = [up EXCEPT ![c] = @ \cup D] \/ UNCHANGED up
  OBVIOUS
<1> HIDE DEF D
<1> QED BY <1>1, <1>2, ClientKeeps

\* What c sends, and over which channel
Sendable(c, ch, msg, n) ==
  \/ ch = Unreliable /\ msg \in {Request(c), Ping}
  \/ ch = Reliable /\ msg = Disconnect
  \/ ch = Reliable /\ \E id \in 1 .. n - 1 : msg = Response(c, id)

\* ClientSendsKeeps: so it does when c goes to r and sends msg.
LEMMA ClientSendsKeeps ==
  ASSUME SessionInv, NEW c \in Clients,
         NEW r, ClientOf(c, r, nextId, nextEntity),
         NEW ch, NEW msg, Sendable(c, ch, msg, nextId), ClientSends(c, r, ch, msg),
         UNCHANGED <<serverVars, down>>, TakenInv'
  PROVE  SessionInv'
<1> DEFINE k == SendPacket(r.conn, ch, msg)
           d == SentPacket(r.conn, ch, msg)
           t == [r EXCEPT !.conn = k]
           m == [ch |-> Reliable, cseq |-> r.conn.nextSeq[Reliable], msg |-> msg]
<1>1. client' = [client EXCEPT ![c] = t] /\ up' = [up EXCEPT ![c] = @ \cup {d}]
  BY DEF ClientSends, Sending
<1>2. ch \in {Unreliable, Reliable} /\ IsConn(r.conn)
  BY DEF Sendable, ClientOf
<1>3. /\ IsConn(k) /\ d.ch = ch /\ d.msg = msg /\ d.cseq \in ChanSeq
      /\ k.pending \subseteq r.conn.pending \cup (IF ch = Reliable THEN {m} ELSE {})
      /\ r.conn.nextSeq[Reliable] \in ChanSeq
  <2>1. r.conn.nextSeq[Reliable] \in ChanSeq
    BY <1>2 DEF IsConn
  <2>2. IsConn(k) /\ d.ch = ch /\ d.msg = msg /\ d.cseq \in ChanSeq
    BY <1>2, SendFacts
  <2>3. CASE ch = Reliable
    BY <1>2, <2>1, <2>2, <2>3, SendFacts
  <2>4. CASE ch = Unreliable
    <3>1. k.pending = r.conn.pending
      BY <1>2, <2>4, SendFacts
    <3> QED BY <2>1, <2>2, <3>1
  <2> QED BY <1>2, <2>3, <2>4
<1> HIDE DEF k, d
<1>4. UpMsg(c, d, nextId)
  BY <1>3 DEF UpMsg, Sendable
<1>5. ch = Reliable => UpMsg(c, m, nextId)
  BY <1>3 DEF UpMsg, Sendable
<1> HIDE DEF m
<1>6. ClientOf(c, t, nextId, nextEntity)
  BY <1>3, <1>5 DEF ClientOf
<1> DEFINE D == {d}
<1>7. /\ \A x \in D : UpMsg(c, x, nextId)
      /\ up' = [up EXCEPT ![c] = @ \cup D] \/ UNCHANGED up
  BY <1>1, <1>4
<1> HIDE DEF t, D
<1> QED BY <1>1, <1>6, <1>7, ClientKeeps

\* ResetOf: NetworkClient::reset leaves a state of the client.
LEMMA ResetOf ==
  ASSUME NEW c, NEW r, NEW n \in Nat \ {0}, NEW e \in Nat \ {0}, ClientOf(c, r, n, e)
  PROVE  /\ r.phase # "off" => ClientOf(c, Reset(r), n, e)
         /\ ClientOf(c, [Reset(r) EXCEPT !.phase = "gone"], n, e)
BY DEF ClientOf, Reset, None

\* ProcessedOf: so does process_packet, and the message is of the kind that
\* the server sends.
LEMMA ProcessedOf ==
  ASSUME SessionInv, NEW c \in Clients, NEW d \in down[c]
  PROVE  /\ ClientOf(c, [client[c] EXCEPT !.conn = ProcessPacket(@, d)], nextId, nextEntity)
         /\ DownMsg(c, d, nextId, nextEntity)
<1>1. ClientOf(c, client[c], nextId, nextEntity) /\ DownMsg(c, d, nextId, nextEntity)
  BY DEF SessionInv, ClientsInv
<1> DEFINE k == ProcessPacket(client[c].conn, d)
<1>2. IsConn(client[c].conn) /\ d.ch \in {Unreliable, Reliable} /\ d.cseq \in ChanSeq
  BY <1>1 DEF ClientOf, DownMsg
<1>3. IsConn(k) /\ k.pending \subseteq client[c].conn.pending
  BY <1>2, ReceiveFacts
<1> HIDE DEF k
<1>4. ClientOf(c, [client[c] EXCEPT !.conn = k], nextId, nextEntity)
  BY <1>1, <1>3 DEF ClientOf
<1> QED BY <1>1, <1>4 DEF k

\* TakeKeeps: the history of what was received keeps its type.
LEMMA TakeKeeps ==
  ASSUME TakenInv, NEW link, NEW d, Take(link, d)
  PROVE  TakenInv'
BY DEF TakenInv, Take

\* DownKinds: what the kind of a message from the server tells of it.
LEMMA DownKinds ==
  ASSUME NEW c, NEW m, NEW n, NEW e, DownMsg(c, m, n, e)
  PROVE  \/ m.msg.kind = "ConnectionChallenge" /\ \E id \in 1 .. n - 1 : m.msg = Challenge(c, id)
         \/ m.msg.kind = "Pong"
         \/ m.msg.kind = "ConnectionDenied"
         \/ m.msg.kind = "Disconnect"
         \/ /\ m.msg.kind = "ConnectionAccepted"
            /\ \E id \in 1 .. n - 1, x \in 1 .. e - 1 : m.msg = Accepted(id, x)
<1>1. CASE m.msg \in {Pong, Denied} \/ m.msg = Disconnect
  BY <1>1 DEF Pong, Denied, Disconnect
<1>2. ASSUME NEW id \in 1 .. n - 1, m.msg = Challenge(c, id)
      PROVE  m.msg.kind = "ConnectionChallenge"
  BY <1>2 DEF Challenge
<1>3. ASSUME NEW id \in 1 .. n - 1, NEW x \in 1 .. e - 1, m.msg = Accepted(id, x)
      PROVE  m.msg.kind = "ConnectionAccepted"
  BY <1>3 DEF Accepted
<1> QED BY <1>1, <1>2, <1>3 DEF DownMsg, Pong, Denied, Disconnect

\* ClientReceiveKeeps: a datagram from the server (handle_payload).
LEMMA ClientReceiveKeeps ==
  ASSUME SessionInv, NEW c \in Clients, NEW d \in down[c], ClientReceive(c, d)
  PROVE  SessionInv'
<1> DEFINE cl == [client[c] EXCEPT !.conn = ProcessPacket(@, d)]
<1>1. ClientOf(c, cl, nextId, nextEntity) /\ DownMsg(c, d, nextId, nextEntity)
  BY ProcessedOf
<1>2. nextId \in Nat \ {0} /\ nextEntity \in Nat \ {0}
  BY SessionAssumption DEF SessionInv, ServerInv
<1>3. TakenInv' /\ UNCHANGED <<serverVars, down>> /\ client[c].phase \in {"menu", "game"}
  BY TakeKeeps DEF ClientReceive, SessionInv, Running
<1>4. /\ \/ HandleChallenge(c, cl, d.msg) /\ d.msg.kind = "ConnectionChallenge"
         \/ client' = [client EXCEPT ![c] = cl] /\ UNCHANGED up
         \/ /\ client' = [client EXCEPT ![c] = ClientAfter(cl, d.msg)] /\ UNCHANGED up
            /\ d.msg.kind # "ConnectionChallenge"
      /\ cl.phase = client[c].phase
  BY DEF ClientReceive, SessionInv, ClientsInv, ClientOf
<1> HIDE DEF cl
<1>5. CASE HandleChallenge(c, cl, d.msg) /\ d.msg.kind = "ConnectionChallenge"
  <2> DEFINE r == [cl EXCEPT !.state = "ChallengeResponse"]
  <2>1. ClientOf(c, r, nextId, nextEntity)
    BY <1>1 DEF ClientOf
  <2>2. PICK id \in 1 .. nextId - 1 : d.msg = Challenge(c, id)
    BY <1>1, <1>5, DownKinds
  <2>3. d.msg.salt = c /\ d.msg.id = id
    BY <2>2 DEF Challenge
  <2>4. CASE c = cl.salt
    <3>1. ClientSends(c, r, Reliable, Response(c, id))
      BY <1>5, <2>3, <2>4 DEF HandleChallenge
    <3>2. Sendable(c, Reliable, Response(c, id), nextId)
      BY DEF Sendable
    <3> HIDE DEF r
    <3> QED BY <1>3, <2>1, <3>1, <3>2, ClientSendsKeeps
  <2>5. CASE c # cl.salt
    <3>1. client' = [client EXCEPT ![c] = r] /\ UNCHANGED up
      BY <1>5, <2>3, <2>5 DEF HandleChallenge
    <3> HIDE DEF r
    <3> QED BY <1>3, <2>1, <3>1, ClientMoves
  <2> QED BY <2>4, <2>5
<1>6. CASE client' = [client EXCEPT ![c] = cl] /\ UNCHANGED up
  BY <1>1, <1>3, <1>6, ClientMoves
<1>7. CASE /\ client' = [client EXCEPT ![c] = ClientAfter(cl, d.msg)] /\ UNCHANGED up
           /\ d.msg.kind # "ConnectionChallenge"
  <2> DEFINE r == ClientAfter(cl, d.msg)
  <2>1. \/ d.msg.kind \in {"Pong", "ConnectionDenied", "Disconnect"}
        \/ \E id \in 1 .. nextId - 1, x \in 1 .. nextEntity - 1 : d.msg = Accepted(id, x)
    BY <1>1, <1>7, DownKinds
  <2>2. ClientOf(c, r, nextId, nextEntity)
    <3>1. CASE d.msg.kind = "Pong"
      BY <1>1, <3>1 DEF ClientAfter
    <3>2. CASE d.msg.kind \in {"ConnectionDenied", "Disconnect"}
      <4>1. r = Reset(cl)
        BY <3>2 DEF ClientAfter
      <4> HIDE DEF r
      <4> QED BY <1>1, <1>2, <1>3, <1>4, <4>1, ResetOf
    <3>3. ASSUME NEW id \in 1 .. nextId - 1, NEW x \in 1 .. nextEntity - 1, d.msg = Accepted(id, x)
          PROVE  ClientOf(c, r, nextId, nextEntity)
      <4>1. r = [cl EXCEPT !.state = "Connected", !.clientId = id, !.entity = x]
        BY <3>3 DEF ClientAfter, Accepted
      <4> QED BY <1>1, <1>2, <4>1 DEF ClientOf
    <3> QED BY <2>1, <3>1, <3>2, <3>3
  <2> HIDE DEF r
  <2> QED BY <1>3, <1>7, <2>2, ClientMoves DEF r
<1> QED BY <1>4, <1>5, <1>6, <1>7

\* ClientStepKeeps: any step of a client.
LEMMA ClientStepKeeps ==
  ASSUME SessionInv, NEW c \in Clients, ClientStep(c)
  PROVE  SessionInv'
<1>1. /\ ClientOf(c, client[c], nextId, nextEntity)
      /\ nextId \in Nat \ {0} /\ nextEntity \in Nat \ {0} /\ TakenInv
  BY SessionAssumption DEF SessionInv, ClientsInv, ServerInv
<1>2. UNCHANGED taken => TakenInv'
  BY <1>1 DEF TakenInv
<1>3. CASE Connect(c)
  <2>1. PICK phase \in {"menu", "game"} :
          ClientSends(c, [client[c] EXCEPT !.phase = phase, !.state = "Connecting", !.started = TRUE],
                      Unreliable, Request(client[c].salt))
    BY <1>3 DEF Connect
  <2> DEFINE r == [client[c] EXCEPT !.phase = phase, !.state = "Connecting", !.started = TRUE]
  <2>2. client[c].salt = c /\ UNCHANGED <<serverVars, down, taken>>
    BY <1>1, <1>3 DEF Connect, ClientOf
  <2>3. ClientOf(c, r, nextId, nextEntity)
    BY <1>1 DEF ClientOf
  <2>4. ClientSends(c, r, Unreliable, Request(c))
    BY <2>1, <2>2
  <2>5. Sendable(c, Unreliable, Request(c), nextId)
    BY DEF Sendable
  <2> HIDE DEF r
  <2> QED BY <1>2, <2>2, <2>3, <2>4, <2>5, ClientSendsKeeps
<1>4. CASE \E d \in down[c] : ClientReceive(c, d)
  BY <1>4, ClientReceiveKeeps
<1>5. CASE ClientPing(c)
  <2>1. Sendable(c, Unreliable, Ping, nextId)
    BY DEF Sendable
  <2> QED BY <1>1, <1>2, <1>5, <2>1, ClientSendsKeeps DEF ClientPing
<1>6. CASE ClientResend(c)
  <2>1. PICK due \in DueLists(client[c].conn.pending, MaxWire - client[c].conn.sendSeq) :
          /\ client' = [client EXCEPT ![c].conn = CollectResends(@, due)]
          /\ up' = [up EXCEPT ![c] = @ \cup ResentPackets(client[c].conn, due)]
    BY <1>6 DEF ClientResend
  <2> DEFINE k == CollectResends(client[c].conn, due)
             D == ResentPackets(client[c].conn, due)
             r == [client[c] EXCEPT !.conn = k]
  <2>2. IsConn(client[c].conn) /\ \A m \in client[c].conn.pending : UpMsg(c, m, nextId)
    BY <1>1 DEF ClientOf
  <2>3. /\ IsConn(k) /\ k.pending = client[c].conn.pending
        /\ \A d \in D : \E m \in client[c].conn.pending :
             d.ch = m.ch /\ d.cseq = m.cseq /\ d.msg = m.msg
    BY <2>2, ResendFacts
  <2>4. client' = [client EXCEPT ![c] = r] /\ up' = [up EXCEPT ![c] = @ \cup D]
    BY <2>1
  <2> HIDE DEF k, D
  <2>5. ClientOf(c, r, nextId, nextEntity)
    BY <1>1, <2>3 DEF ClientOf
  <2>6. \A d \in D : UpMsg(c, d, nextId)
    BY <2>2, <2>3 DEF UpMsg
  <2>7. UNCHANGED <<serverVars, down, taken>>
    BY <1>6 DEF ClientResend
  <2> HIDE DEF r
  <2> QED BY <1>2, <2>4, <2>5, <2>6, <2>7, ClientKeeps
<1>7. CASE ClientTimeout(c)
  <2>1. ClientOf(c, Reset(client[c]), nextId, nextEntity)
    BY <1>1, <1>7, ResetOf DEF ClientTimeout, Running
  <2> QED BY <1>2, <1>7, <2>1, ClientMoves DEF ClientTimeout
<1>8. CASE Launch(c)
  <2>1. PICK phase \in {"game", "gone"} : client' = [client EXCEPT ![c].phase = phase]
    BY <1>8 DEF Launch
  <2> DEFINE r == [client[c] EXCEPT !.phase = phase]
  <2>2. ClientOf(c, r, nextId, nextEntity)
    BY <1>1 DEF ClientOf
  <2>3. client' = [client EXCEPT ![c] = r]
    BY <2>1
  <2> HIDE DEF r
  <2> QED BY <1>2, <1>8, <2>2, <2>3, ClientMoves DEF Launch
<1>9. CASE Leave(c)
  <2> DEFINE r == [Reset(client[c]) EXCEPT !.phase = "gone"]
  <2>1. ClientOf(c, r, nextId, nextEntity)
    BY <1>1, ResetOf
  <2>2. Sendable(c, Reliable, Disconnect, nextId)
    BY DEF Sendable
  <2>3. /\ \/ ClientSends(c, r, Reliable, Disconnect)
           \/ client' = [client EXCEPT ![c] = r] /\ UNCHANGED up
        /\ UNCHANGED <<serverVars, down, taken>>
    BY <1>9 DEF Leave
  <2> HIDE DEF r
  <2>4. CASE ClientSends(c, r, Reliable, Disconnect)
    BY <1>2, <2>1, <2>2, <2>3, <2>4, ClientSendsKeeps
  <2>5. CASE client' = [client EXCEPT ![c] = r] /\ UNCHANGED up
    BY <1>2, <2>1, <2>3, <2>5, ClientMoves
  <2> QED BY <2>3, <2>4, <2>5
<1>10. CASE Crash(c)
  <2> DEFINE r == [Reset(client[c]) EXCEPT !.phase = "gone"]
  <2>1. ClientOf(c, r, nextId, nextEntity)
    BY <1>1, ResetOf
  <2>2. client' = [client EXCEPT ![c] = r] /\ UNCHANGED <<serverVars, up, down, taken>>
    BY <1>10 DEF Crash
  <2> HIDE DEF r
  <2> QED BY <1>2, <2>1, <2>2, ClientMoves
<1> QED BY <1>3, <1>4, <1>5, <1>6, <1>7, <1>8, <1>9, <1>10 DEF ClientStep
-----------------------------------------------------------------------------
\* ServerPuts: the invariant survives a step of the server that makes s the
\* connection of c and sends it D.
LEMMA ServerPuts ==
  ASSUME SessionInv, NEW c \in Clients,
         nextId' \in nextId .. MaxIds + 1,
         nextEntity' \in Nat, nextEntity <= nextEntity', entities' \subseteq 1 .. nextEntity' - 1,
         NEW s, ServerOf(c, s, nextId', nextEntity'), Answered(c, s), PutConnection(c, s),
         c \in DOMAIN conns \/ Cardinality(DOMAIN conns) < MaxClients,
         NEW D, \A d \in D : DownMsg(c, d, nextId', nextEntity'),
         down' = [down EXCEPT ![c] = @ \cup D] \/ UNCHANGED down,
         UNCHANGED <<client, up>>, TakenInv'
  PROVE  SessionInv'
<1>1. ClientsInv /\ ServerInv
  BY DEF SessionInv
<1>2. nextId \in Nat \ {0} /\ nextEntity \in Nat \ {0}
  BY <1>1, SessionAssumption DEF ServerInv
<1>3. /\ nextId' \in Nat /\ nextId <= nextId'
      /\ nextEntity' \in Nat /\ nextEntity <= nextEntity'
  BY <1>2, SessionAssumption
<1>a. /\ \A i \in 1 .. nextId - 1 : i \in 1 .. nextId' - 1
      /\ \A x \in 1 .. nextEntity - 1 : x \in 1 .. nextEntity' - 1
  <2>1. ASSUME NEW a \in Nat, NEW b \in Nat, a <= b, NEW i \in 1 .. a - 1
        PROVE  i \in 1 .. b - 1
    BY <2>1
  <2> QED BY <1>2, <1>3, <2>1
<1>4. \A a, m : UpMsg(a, m, nextId) => UpMsg(a, m, nextId')
  BY <1>a DEF UpMsg
<1>5. \A a, m : DownMsg(a, m, nextId, nextEntity) => DownMsg(a, m, nextId', nextEntity')
  <2> SUFFICES ASSUME NEW a, NEW m, DownMsg(a, m, nextId, nextEntity)
               PROVE  DownMsg(a, m, nextId', nextEntity')
    OBVIOUS
  <2> QED BY <1>a DEF DownMsg
<1>6. ClientsInv'
  <2>1. DOMAIN down' = Clients /\ \A a \in Clients \ {c} : down'[a] = down[a]
    BY <1>1 DEF ClientsInv
  <2>2. down'[c] \subseteq down[c] \cup D
    BY <1>1 DEF ClientsInv
  <2>3. ASSUME NEW a \in Clients, NEW d \in down'[a]
        PROVE  DownMsg(a, d, nextId', nextEntity')
    BY <1>1, <1>5, <2>1, <2>2 DEF ClientsInv
  <2>4. ASSUME NEW a \in Clients
        PROVE  ClientOf(a, client'[a], nextId', nextEntity')
    <3>1. ClientOf(a, client[a], nextId, nextEntity)
      BY <1>1 DEF ClientsInv
    <3> QED BY <1>2, <1>3, <1>4, <3>1 DEF ClientOf
  <2> QED BY <1>1, <1>4, <2>1, <2>3, <2>4 DEF ClientsInv
<1>7. ServerInv'
  <2>1. /\ DOMAIN conns' = DOMAIN conns \cup {c}
        /\ conns'[c] = s
        /\ \A a \in DOMAIN conns \ {c} : conns'[a] = conns[a]
    BY DEF PutConnection
  <2>2. IsFiniteSet(DOMAIN conns') /\ Cardinality(DOMAIN conns') <= MaxClients
    <3>1. IsFiniteSet(DOMAIN conns) /\ Cardinality(DOMAIN conns) \in Nat
      BY <1>1, FS_CardinalityType DEF ServerInv
    <3>2. /\ IsFiniteSet(DOMAIN conns \cup {c})
          /\ Cardinality(DOMAIN conns \cup {c}) =
               IF c \in DOMAIN conns THEN Cardinality(DOMAIN conns) ELSE Cardinality(DOMAIN conns) + 1
      BY <3>1, FS_AddElement
    <3> QED BY <1>1, <2>1, <3>1, <3>2, SessionAssumption DEF ServerInv
  <2>3. ASSUME NEW a \in DOMAIN conns'
        PROVE  ServerOf(a, conns'[a], nextId', nextEntity') /\ Answered(a, conns[a])'
    <3>1. CASE a = c
      BY <2>1, <3>1 DEF Answered
    <3>2. CASE a # c
      <4>1. a \in DOMAIN conns /\ conns'[a] = conns[a]
        BY <2>1, <3>2
      <4>2. ServerOf(a, conns[a], nextId, nextEntity) /\ Answered(a, conns[a])
        BY <1>1, <4>1 DEF ServerInv
      <4> QED BY <1>2, <1>3, <1>5, <4>1, <4>2 DEF ServerOf, Answered
    <3> QED BY <3>1, <3>2
  <2>4. nextId' \in 1 .. MaxIds + 1
    BY <1>2, <1>3, SessionAssumption
  <2>5. nextEntity' \in Nat \ {0}
    BY <1>2, <1>3
  <2>6. DOMAIN conns' \subseteq Clients
    BY <1>1, <2>1 DEF ServerInv
  <2> QED BY <2>2, <2>3, <2>4, <2>5, <2>6 DEF ServerInv
<1> QED BY <1>6, <1>7 DEF SessionInv

\* ServerRemoves: so it does when the server drops the connection of c, with
\* its entity or without, after it sent D.
LEMMA ServerRemoves ==
  ASSUME SessionInv, NEW c \in Clients, RemoveConnection(c),
         entities' \subseteq entities, UNCHANGED <<nextId, nextEntity>>,
         NEW D, \A d \in D : DownMsg(c, d, nextId, nextEntity),
         down' = [down EXCEPT ![c] = @ \cup D] \/ UNCHANGED down,
         UNCHANGED <<client, up>>, TakenInv'
  PROVE  SessionInv'
<1>1. ClientsInv /\ ServerInv
  BY DEF SessionInv
<1>2. ClientsInv'
  BY <1>1 DEF ClientsInv
<1>3. ServerInv'
  <2>1. /\ DOMAIN conns' = DOMAIN conns \ {c}
        /\ \A a \in DOMAIN conns' : conns'[a] = conns[a]
    BY DEF RemoveConnection
  <2>2. IsFiniteSet(DOMAIN conns') /\ Cardinality(DOMAIN conns') <= MaxClients
    <3>1. IsFiniteSet(DOMAIN conns) /\ Cardinality(DOMAIN conns) \in Nat
      BY <1>1, FS_CardinalityType DEF ServerInv
    <3>2. /\ IsFiniteSet(DOMAIN conns \ {c})
          /\ Cardinality(DOMAIN conns \ {c}) =
               IF c \in DOMAIN conns THEN Cardinality(DOMAIN conns) - 1 ELSE Cardinality(DOMAIN conns)
      BY <3>1, FS_RemoveElement
    <3> QED BY <1>1, <2>1, <3>1, <3>2, SessionAssumption DEF ServerInv
  <2> QED BY <1>1, <2>1, <2>2 DEF ServerInv, Answered
<1> QED BY <1>2, <1>3 DEF SessionInv

\* ServerSendsKeeps: so it does when the server makes s the connection of c
\* and sends msg on it.
LEMMA ServerSendsKeeps ==
  ASSUME SessionInv, NEW c \in Clients,
         nextId' \in nextId .. MaxIds + 1,
         nextEntity' \in Nat, nextEntity <= nextEntity', entities' \subseteq 1 .. nextEntity' - 1,
         NEW s, ServerOf(c, s, nextId', nextEntity'), Answered(c, s),
         NEW ch \in {Unreliable, Reliable}, NEW msg,
         \A m : m.ch = ch /\ m.msg = msg /\ m.cseq \in ChanSeq => DownMsg(c, m, nextId', nextEntity'),
         ServerSends(c, s, msg, ch),
         c \in DOMAIN conns \/ Cardinality(DOMAIN conns) < MaxClients,
         UNCHANGED <<client, up>>, TakenInv'
  PROVE  SessionInv'
<1> DEFINE k == SendPacket(s.conn, ch, msg)
           d == SentPacket(s.conn, ch, msg)
           t == [s EXCEPT !.conn = k]
           m == [ch |-> Reliable, cseq |-> s.conn.nextSeq[Reliable], msg |-> msg]
           D == {d}
<1>1. PutConnection(c, t) /\ down' = [down EXCEPT ![c] = @ \cup D]
  BY DEF ServerSends, Sending
<1>2. IsConn(s.conn)
  BY DEF ServerOf
<1>3. s.conn.nextSeq[Reliable] \in ChanSeq
  BY <1>2 DEF IsConn
<1>4. IsConn(k) /\ d.ch = ch /\ d.msg = msg /\ d.cseq \in ChanSeq
  BY <1>2, SendFacts
<1>5. k.pending \subseteq s.conn.pending \cup (IF ch = Reliable THEN {m} ELSE {})
  <2>1. CASE ch = Reliable
    BY <1>2, <2>1, SendFacts
  <2>2. CASE ch = Unreliable
    <3>1. k.pending = s.conn.pending
      BY <1>2, <2>2, SendFacts
    <3> QED BY <3>1
  <2> QED BY <2>1, <2>2
<1>6. ch = Reliable => DownMsg(c, m, nextId', nextEntity')
  BY <1>3
<1>7. \A x \in D : DownMsg(c, x, nextId', nextEntity')
  <2> HIDE DEF d
  <2>1. DownMsg(c, d, nextId', nextEntity')
    BY <1>4
  <2> QED BY <2>1
<1> HIDE DEF k, m, D
<1>8. ServerOf(c, t, nextId', nextEntity') /\ Answered(c, t)
  BY <1>4, <1>5, <1>6 DEF ServerOf, Answered
<1> HIDE DEF t
<1> QED BY <1>1, <1>7, <1>8, ServerPuts

\* UpKinds: what the kind of a message from a client tells of it.
LEMMA UpKinds ==
  ASSUME NEW c, NEW m, NEW n, UpMsg(c, m, n)
  PROVE  \/ m.msg.kind = "ConnectionRequest" /\ m.msg = Request(c) /\ m.ch = Unreliable
         \/ m.msg.kind = "Ping"
         \/ m.msg.kind = "Disconnect" /\ m.ch = Reliable
         \/ /\ m.msg.kind = "ChallengeResponse" /\ m.ch = Reliable
            /\ \E id \in 1 .. n - 1 : m.msg = Response(c, id)
<1>1. m.msg = Request(c) => m.msg.kind = "ConnectionRequest"
  BY DEF Request
<1>2. m.msg = Ping => m.msg.kind = "Ping"
  BY DEF Ping
<1>3. m.msg = Disconnect => m.msg.kind = "Disconnect"
  BY DEF Disconnect
<1>4. ASSUME NEW id \in 1 .. n - 1, m.msg = Response(c, id)
      PROVE  m.msg.kind = "ChallengeResponse"
  BY <1>4 DEF Response
<1> QED BY <1>1, <1>2, <1>3, <1>4 DEF UpMsg

\* ReceiveUnknownKeeps: a datagram from an address without a connection.
LEMMA ReceiveUnknownKeeps ==
  ASSUME SessionInv, NEW c \in Clients, NEW d \in up[c], ServerReceiveUnknown(c, d)
  PROVE  SessionInv'
<1>1. ClientsInv /\ ServerInv /\ UpMsg(c, d, nextId)
  BY DEF SessionInv, ClientsInv
<1>2. /\ nextId \in 1 .. MaxIds + 1 /\ nextId \in Nat \ {0} /\ MaxIds \in Nat
      /\ nextEntity \in Nat \ {0} /\ entities \subseteq 1 .. nextEntity - 1
  BY <1>1, SessionAssumption DEF ServerInv
<1>3. TakenInv' /\ UNCHANGED <<client, up>> /\ c \notin DOMAIN conns
  BY TakeKeeps DEF ServerReceiveUnknown, SessionInv
<1>4. CASE UNCHANGED serverVars /\ (down' = [down EXCEPT ![c] = @ \cup {Packet(NewConnection, 0, Unreliable, 0, Denied)}]
                                      \/ UNCHANGED down)
  <2> DEFINE x == Packet(NewConnection, 0, Unreliable, 0, Denied)
  <2>1. DownMsg(c, x, nextId, nextEntity)
    BY SizesAssumption DEF Packet, DownMsg, ChanSeq
  <2> HIDE DEF x
  <2>2. ClientsInv'
    <3>1. ASSUME NEW a \in Clients, NEW m \in down'[a]
          PROVE  DownMsg(a, m, nextId, nextEntity)
      BY <1>1, <1>4, <2>1 DEF ClientsInv, x
    <3>2. DOMAIN down' = Clients
      BY <1>1, <1>4 DEF ClientsInv
    <3> QED BY <1>1, <1>3, <1>4, <3>1, <3>2 DEF ClientsInv, serverVars
  <2>3. ServerInv'
    BY <1>1, <1>3, <1>4 DEF ServerInv, Answered, serverVars
  <2> QED BY <1>3, <2>2, <2>3 DEF SessionInv
<1>5. CASE /\ d.msg.kind = "ConnectionRequest"
           /\ Cardinality(DOMAIN conns) < MaxClients
           /\ nextId <= MaxIds
           /\ nextId' = nextId + 1
           /\ SendChallenge(c, NewServerConnection(d.msg.salt))
  <2> DEFINE s == NewServerConnection(c)
             msg == Challenge(c, nextId)
  <2>0. d.msg = Request(c)
    BY <1>1, <1>5, UpKinds
  <2>1. d.msg.salt = c
    BY <2>0 DEF Request
  <2>2. ServerSends(c, s, msg, Reliable) /\ UNCHANGED <<entities, nextEntity>>
    <3>1. NewServerConnection(c).salt = c /\ NewServerConnection(c).id = nextId
      BY DEF NewServerConnection
    <3> QED BY <1>5, <2>1, <3>1 DEF SendChallenge
  <2>3. ServerOf(c, s, nextId', nextEntity') /\ Answered(c, s)
    BY <1>2, <1>5, <2>2, NewConnFacts DEF ServerOf, Answered, NewServerConnection, None
  <2>4. \A m : m.ch = Reliable /\ m.msg = msg /\ m.cseq \in ChanSeq => DownMsg(c, m, nextId', nextEntity')
    <3>1. nextId \in 1 .. nextId' - 1
      BY <1>2, <1>5
    <3> QED BY <3>1 DEF DownMsg
  <2>5. nextId' \in nextId .. MaxIds + 1
    BY <1>2, <1>5
  <2>6. nextEntity' \in Nat /\ nextEntity <= nextEntity' /\ entities' \subseteq 1 .. nextEntity' - 1
    BY <1>2, <2>2
  <2> HIDE DEF s, msg
  <2>7. Cardinality(DOMAIN conns) < MaxClients
    BY <1>5
  <2> QED BY <1>3, <2>2, <2>3, <2>4, <2>5, <2>6, <2>7, ServerSendsKeeps
<1>6. Cardinality(DOMAIN conns) \in Nat /\ MaxClients \in Nat
  BY <1>1, FS_CardinalityType, SessionAssumption DEF ServerInv
<1>7. d.msg.kind # "ConnectionRequest" \/ Cardinality(DOMAIN conns) >= MaxClients
        \/ Cardinality(DOMAIN conns) < MaxClients
  BY <1>6
<1> QED BY <1>4, <1>5, <1>7 DEF ServerReceiveUnknown, serverVars

\* ResponseKeeps: handle_challenge_response on s, for an answer from c.
LEMMA ResponseKeeps ==
  ASSUME SessionInv, NEW c \in DOMAIN conns,
         NEW s, ServerOf(c, s, nextId, nextEntity), Answered(c, s),
         NEW d \in up[c], d.msg.kind = "ChallengeResponse",
         HandleChallengeResponse(c, s, d.msg),
         UNCHANGED <<client, up, nextId>>, TakenInv'
  PROVE  SessionInv'
<1>1. c \in Clients /\ UpMsg(c, d, nextId)
  BY DEF SessionInv, ServerInv, ClientsInv
<1>2. /\ nextId \in 1 .. MaxIds + 1 /\ nextId \in Nat \ {0} /\ MaxIds \in Nat
      /\ nextEntity \in Nat \ {0} /\ entities \subseteq 1 .. nextEntity - 1
  BY SessionAssumption DEF SessionInv, ServerInv
<1>3. nextId' \in nextId .. MaxIds + 1
  BY <1>2
<1>4. CASE /\ <<d.msg.salt, d.msg.id>> = <<s.salt, s.id>>
           /\ ServerSends(c, [s EXCEPT !.state = "Connected", !.entity = nextEntity],
                          Accepted(s.id, nextEntity), Reliable)
           /\ entities' = entities \cup {nextEntity}
           /\ nextEntity' = nextEntity + 1
  <2> DEFINE t == [s EXCEPT !.state = "Connected", !.entity = nextEntity]
             msg == Accepted(s.id, nextEntity)
  <2>1. nextEntity' \in Nat /\ nextEntity <= nextEntity' /\ entities' \subseteq 1 .. nextEntity' - 1
    BY <1>2, <1>4
  <2>2. \A m : DownMsg(c, m, nextId, nextEntity) => DownMsg(c, m, nextId', nextEntity')
    <3>1. \A x \in 1 .. nextEntity - 1 : x \in 1 .. nextEntity' - 1
      BY <1>2, <1>4
    <3> QED BY <3>1 DEF DownMsg
  <2>3. ServerOf(c, t, nextId', nextEntity')
    <3>1. nextEntity \in 0 .. nextEntity' - 1 /\ nextEntity # None
      BY <1>2, <1>4 DEF None
    <3> QED BY <2>2, <3>1 DEF ServerOf
  <2>4. Answered(c, t)
    <3>1. PICK id \in 1 .. nextId - 1 : d.msg = Response(c, id)
      BY <1>1, UpKinds
    <3>2. d.msg.salt = c /\ d.msg.id = id
      BY <3>1 DEF Response
    <3>3. t.salt = s.salt /\ t.id = s.id
      BY DEF ServerOf
    <3> QED BY <1>4, <3>1, <3>2, <3>3 DEF Answered
  <2>5. \A m : m.ch = Reliable /\ m.msg = msg /\ m.cseq \in ChanSeq => DownMsg(c, m, nextId', nextEntity')
    <3>1. nextEntity \in 1 .. nextEntity' - 1 /\ s.id \in 1 .. nextId' - 1
      BY <1>2, <1>4 DEF ServerOf
    <3> QED BY <3>1 DEF DownMsg
  <2>6. ServerSends(c, t, msg, Reliable)
    BY <1>4
  <2> HIDE DEF t, msg
  <2> QED BY <1>1, <1>3, <2>1, <2>3, <2>4, <2>5, <2>6, ServerSendsKeeps
<1>5. CASE PutConnection(c, s) /\ UNCHANGED <<entities, nextEntity, down>>
  <2> DEFINE D == {}
  <2>1. /\ \A x \in D : DownMsg(c, x, nextId', nextEntity')
        /\ down' = [down EXCEPT ![c] = @ \cup D] \/ UNCHANGED down
    BY <1>5
  <2>2. nextEntity' \in Nat /\ nextEntity <= nextEntity' /\ entities' \subseteq 1 .. nextEntity' - 1
    BY <1>2, <1>5
  <2>3. ServerOf(c, s, nextId', nextEntity')
    BY <1>5
  <2> HIDE DEF D
  <2> QED BY <1>1, <1>3, <1>5, <2>1, <2>2, <2>3, ServerPuts
<1> QED BY <1>4, <1>5 DEF HandleChallengeResponse

\* ServerReceiveKeeps: a datagram from an address with a connection.
LEMMA ServerReceiveKeeps ==
  ASSUME SessionInv, NEW c \in Clients, NEW d \in up[c], ServerReceive(c, d)
  PROVE  SessionInv'
<1> DEFINE k == ProcessPacket(conns[c].conn, d)
           s == [conns[c] EXCEPT !.conn = k]
<1>1. ClientsInv /\ ServerInv /\ UpMsg(c, d, nextId) /\ c \in DOMAIN conns
  BY DEF SessionInv, ClientsInv, ServerReceive
<1>2. /\ nextId \in 1 .. MaxIds + 1 /\ nextId \in Nat \ {0} /\ MaxIds \in Nat
      /\ nextEntity \in Nat \ {0} /\ entities \subseteq 1 .. nextEntity - 1
  BY <1>1, SessionAssumption DEF ServerInv
<1>3. TakenInv' /\ UNCHANGED <<client, up, nextId>>
  BY TakeKeeps DEF ServerReceive, SessionInv
<1>4. ServerOf(c, s, nextId, nextEntity) /\ Answered(c, s)
  <2>1. ServerOf(c, conns[c], nextId, nextEntity) /\ Answered(c, conns[c])
    BY <1>1 DEF ServerInv
  <2>2. IsConn(conns[c].conn) /\ d.ch \in {Unreliable, Reliable} /\ d.cseq \in ChanSeq
    BY <1>1, <2>1 DEF ServerOf, UpMsg
  <2>3. IsConn(k) /\ k.pending \subseteq conns[c].conn.pending
    BY <2>2, ReceiveFacts
  <2> HIDE DEF k
  <2> QED BY <2>1, <2>3 DEF ServerOf, Answered
<1>5. \/ d.msg.kind = "ConnectionRequest" /\ SendChallenge(c, s)
      \/ d.msg.kind = "ChallengeResponse" /\ HandleChallengeResponse(c, s, d.msg)
      \/ ServerSends(c, s, Pong, Unreliable) /\ UNCHANGED <<entities, nextEntity>>
      \/ RemoveConnection(c) /\ Despawn(s) /\ UNCHANGED <<nextEntity, down>>
      \/ PutConnection(c, s) /\ UNCHANGED <<entities, nextEntity, down>>
  BY DEF ServerReceive, HandlePayload
<1> HIDE DEF s
<1>6. nextId' \in nextId .. MaxIds + 1
  BY <1>2, <1>3
<1>7. CASE SendChallenge(c, s)
  <2>1. ServerSends(c, s, Challenge(c, s.id), Reliable) /\ UNCHANGED <<entities, nextEntity>>
    BY <1>4, <1>7 DEF SendChallenge, ServerOf
  <2>2. \A m : m.ch = Reliable /\ m.msg = Challenge(c, s.id) /\ m.cseq \in ChanSeq =>
                 DownMsg(c, m, nextId', nextEntity')
    BY <1>3, <1>4 DEF DownMsg, ServerOf
  <2>3. nextEntity' \in Nat /\ nextEntity <= nextEntity' /\ entities' \subseteq 1 .. nextEntity' - 1
    BY <1>2, <2>1
  <2>4. ServerOf(c, s, nextId', nextEntity')
    BY <1>3, <1>4, <2>1
  <2> QED BY <1>1, <1>3, <1>4, <1>6, <2>1, <2>2, <2>3, <2>4, ServerSendsKeeps
<1>8. CASE d.msg.kind = "ChallengeResponse" /\ HandleChallengeResponse(c, s, d.msg)
  BY <1>1, <1>3, <1>4, <1>8, ResponseKeeps
<1>9. CASE ServerSends(c, s, Pong, Unreliable) /\ UNCHANGED <<entities, nextEntity>>
  <2>1. \A m : m.ch = Unreliable /\ m.msg = Pong /\ m.cseq \in ChanSeq =>
                 DownMsg(c, m, nextId', nextEntity')
    BY DEF DownMsg
  <2>2. nextEntity' \in Nat /\ nextEntity <= nextEntity' /\ entities' \subseteq 1 .. nextEntity' - 1
    BY <1>2, <1>9
  <2>3. ServerOf(c, s, nextId', nextEntity')
    BY <1>3, <1>4, <1>9
  <2> QED BY <1>1, <1>3, <1>4, <1>6, <1>9, <2>1, <2>2, <2>3, ServerSendsKeeps
<1>10. CASE RemoveConnection(c) /\ Despawn(s) /\ UNCHANGED <<nextEntity, down>>
  <2> DEFINE D == {}
  <2>1. /\ \A x \in D : DownMsg(c, x, nextId, nextEntity)
        /\ down' = [down EXCEPT ![c] = @ \cup D] \/ UNCHANGED down
        /\ entities' \subseteq entities
    BY <1>10 DEF Despawn
  <2> HIDE DEF D
  <2> QED BY <1>3, <1>10, <2>1, ServerRemoves
<1>11. CASE PutConnection(c, s) /\ UNCHANGED <<entities, nextEntity, down>>
  <2> DEFINE D == {}
  <2>1. /\ \A x \in D : DownMsg(c, x, nextId', nextEntity')
        /\ down' = [down EXCEPT ![c] = @ \cup D] \/ UNCHANGED down
    BY <1>11
  <2>2. nextEntity' \in Nat /\ nextEntity <= nextEntity' /\ entities' \subseteq 1 .. nextEntity' - 1
    BY <1>2, <1>11
  <2>3. ServerOf(c, s, nextId', nextEntity')
    BY <1>3, <1>4, <1>11
  <2> HIDE DEF D
  <2> QED BY <1>1, <1>3, <1>4, <1>6, <1>11, <2>1, <2>2, <2>3, ServerPuts
<1> QED BY <1>5, <1>7, <1>8, <1>9, <1>10, <1>11

\* ServerOthersKeep: resends, kicks and timeouts.
LEMMA ServerOthersKeep ==
  ASSUME SessionInv, NEW c \in Clients, ServerResend(c) \/ KickClient(c) \/ CleanupTimedOut(c)
  PROVE  SessionInv'
<1>1. ClientsInv /\ ServerInv /\ c \in DOMAIN conns
  BY DEF SessionInv, ServerResend, KickClient, CleanupTimedOut
<1>2. /\ nextId \in 1 .. MaxIds + 1 /\ nextId \in Nat \ {0} /\ MaxIds \in Nat
      /\ nextEntity \in Nat \ {0} /\ entities \subseteq 1 .. nextEntity - 1
      /\ ServerOf(c, conns[c], nextId, nextEntity) /\ Answered(c, conns[c])
  BY <1>1, SessionAssumption DEF ServerInv
<1>3. TakenInv' /\ UNCHANGED <<client, up, nextId, nextEntity>>
  BY DEF ServerResend, KickClient, CleanupTimedOut, SessionInv, TakenInv
<1>4. CASE ServerResend(c)
  <2> DEFINE old == conns[c].conn
             room == MaxWire - old.sendSeq
  <2>1. PICK due \in DueLists(old.pending, room) :
          /\ conns' = [conns EXCEPT ![c].conn = CollectResends(@, due)]
          /\ down' = [down EXCEPT ![c] = @ \cup ResentPackets(conns[c].conn, due)]
    BY <1>4 DEF ServerResend
  <2> DEFINE k == CollectResends(conns[c].conn, due)
             D == ResentPackets(conns[c].conn, due)
             s == [conns[c] EXCEPT !.conn = k]
  <2>2. /\ IsConn(conns[c].conn)
        /\ \A m \in conns[c].conn.pending : DownMsg(c, m, nextId, nextEntity)
    BY <1>2 DEF ServerOf
  <2>3. /\ IsConn(k) /\ k.pending = conns[c].conn.pending
        /\ \A d \in D : \E m \in conns[c].conn.pending :
             d.ch = m.ch /\ d.cseq = m.cseq /\ d.msg = m.msg
    <3>1. IsConn(old)
      BY <2>2
    <3> HIDE DEF room, old
    <3>2. LET q == CollectResends(old, due)
          IN  /\ IsConn(q) /\ q.pending = old.pending
              /\ \A d \in ResentPackets(old, due) : \E m \in old.pending :
                   d.ch = m.ch /\ d.cseq = m.cseq /\ d.msg = m.msg
      BY <3>1, ResendFacts
    <3> QED BY <3>2 DEF old
  <2>4. PutConnection(c, s) /\ down' = [down EXCEPT ![c] = @ \cup D]
    BY <1>1, <2>1 DEF PutConnection
  <2> HIDE DEF k, D
  <2>5. ServerOf(c, s, nextId', nextEntity') /\ Answered(c, s)
    BY <1>2, <1>3, <2>3 DEF ServerOf, Answered
  <2>6. \A d \in D : DownMsg(c, d, nextId', nextEntity')
    BY <1>3, <2>2, <2>3 DEF DownMsg
  <2>7. /\ nextEntity' \in Nat /\ nextEntity <= nextEntity' /\ entities' \subseteq 1 .. nextEntity' - 1
        /\ nextId' \in nextId .. MaxIds + 1
    BY <1>2, <1>3, <1>4 DEF ServerResend
  <2> HIDE DEF s
  <2> QED BY <1>1, <1>3, <2>4, <2>5, <2>6, <2>7, ServerPuts
<1>5. CASE KickClient(c)
  <2> DEFINE d == SentPacket(conns[c].conn, Reliable, Disconnect)
             D == {d}
  <2>1. d.ch = Reliable /\ d.msg = Disconnect /\ d.cseq \in ChanSeq
    BY <1>2, SendFacts DEF ServerOf
  <2>2. down' = [down EXCEPT ![c] = @ \cup D] /\ RemoveConnection(c) /\ entities' \subseteq entities
    BY <1>5 DEF KickClient, Despawn
  <2> HIDE DEF d
  <2>3. \A x \in D : DownMsg(c, x, nextId, nextEntity)
    BY <2>1 DEF DownMsg
  <2> HIDE DEF D
  <2> QED BY <1>3, <2>2, <2>3, ServerRemoves
<1>6. CASE CleanupTimedOut(c)
  <2> DEFINE D == {}
  <2>1. /\ \A x \in D : DownMsg(c, x, nextId, nextEntity)
        /\ down' = [down EXCEPT ![c] = @ \cup D] \/ UNCHANGED down
        /\ entities' \subseteq entities /\ RemoveConnection(c)
    BY <1>6 DEF CleanupTimedOut
  <2> HIDE DEF D
  <2> QED BY <1>3, <2>1, ServerRemoves
<1> QED BY <1>4, <1>5, <1>6
-----------------------------------------------------------------------------
\* InitSession: the invariant holds before any client has connected.
LEMMA InitSession == Init => SessionInv
<1> SUFFICES ASSUME Init PROVE SessionInv
  OBVIOUS
<1>1. ClientsInv
  <2>1. ASSUME NEW c \in Clients PROVE ClientOf(c, client[c], nextId, nextEntity)
    <3>1. client[c] = NewClient(c) /\ nextId = 1 /\ nextEntity = 1
      BY DEF Init
    <3>2. ClientOf(c, NewClient(c), 1, 1)
      <4> DEFINE k == NewConnection
      <4>1. IsConn(k) /\ k.pending = {}
        BY NewConnFacts
      <4> HIDE DEF k
      <4>2. ClientOf(c, [phase |-> "off", state |-> "Disconnected", salt |-> c, clientId |-> None,
                         entity |-> None, started |-> FALSE, conn |-> k], 1, 1)
        BY <4>1 DEF ClientOf, None
      <4> QED BY <4>2 DEF k, NewClient
    <3> QED BY <3>1, <3>2
  <2> QED BY <2>1 DEF Init, ClientsInv
<1>2. ServerInv
  BY FS_EmptySet, SessionAssumption DEF Init, ServerInv
<1>3. TakenInv
  BY DEF Init, TakenInv
<1> QED BY <1>1, <1>2, <1>3 DEF SessionInv

\* SessionAlways: the invariant holds in every state, whatever is lost,
\* reordered or duplicated, crashed or timed out.
THEOREM SessionAlways == Spec => []SessionInv
<1>1. SessionInv /\ [Next]_vars => SessionInv'
  <2> SUFFICES ASSUME SessionInv, [Next]_vars PROVE SessionInv'
    OBVIOUS
  <2>1. CASE UNCHANGED vars
    BY <2>1 DEF vars, serverVars, SessionInv, ClientsInv, ServerInv, TakenInv, Answered
  <2>2. ASSUME NEW c \in Clients, ClientStep(c) PROVE SessionInv'
    BY <2>2, ClientStepKeeps
  <2>3. ASSUME NEW c \in Clients, ServerStep(c) PROVE SessionInv'
    <3>1. CASE \E d \in up[c] : ServerReceiveUnknown(c, d) \/ ServerReceive(c, d)
      BY <3>1, ReceiveUnknownKeeps, ServerReceiveKeeps
    <3>2. CASE ServerResend(c) \/ KickClient(c) \/ CleanupTimedOut(c)
      BY <3>2, ServerOthersKeep
    <3> QED BY <2>3, <3>1, <3>2 DEF ServerStep
  <2> QED BY <2>1, <2>2, <2>3 DEF Next
<1> QED BY <1>1, InitSession, PTL DEF Spec

\* AnsweredAlways: the server takes a client for connected only when that
\* client has answered the challenge of this very connection, and not that of
\* an earlier one from the same address (handle_challenge_response), for any
\* number of clients and on any network.
THEOREM AnsweredAlways == Spec => []ConnectedAnswered
<1>1. SessionInv => ConnectedAnswered
  BY DEF SessionInv, ServerInv, Answered, ConnectedAnswered
<1> QED BY <1>1, SessionAlways, PTL

\* SessionTyped: the ids a client holds are ids the server has assigned, the
\* server never holds more connections than max_clients, and a connection has
\* an entity exactly when it is connected.
THEOREM SessionTyped == Spec => []TypeOK
<1>1. SessionInv => TypeOK
  <2> SUFFICES ASSUME SessionInv PROVE TypeOK
    OBVIOUS
  <2>1. ClientsInv /\ ServerInv /\ nextId \in Nat /\ MaxIds \in Nat /\ nextEntity \in Nat
    BY SessionAssumption DEF SessionInv, ServerInv
  <2>2. ASSUME NEW c \in Clients PROVE WithoutConn(client[c]) \in ClientState
    <3>1. ClientOf(c, client[c], nextId, nextEntity)
      BY <2>1 DEF ClientsInv
    <3>2. DOMAIN client[c] \ {"conn"} = {"phase", "state", "salt", "clientId", "entity", "started"}
      BY <3>1 DEF ClientOf
    <3>3. WithoutConn(client[c]) =
            [phase |-> client[c].phase, state |-> client[c].state, salt |-> client[c].salt,
             clientId |-> client[c].clientId, entity |-> client[c].entity,
             started |-> client[c].started]
      BY <3>2 DEF WithoutConn
    <3>4. client[c].clientId \in 0 .. MaxIds /\ client[c].entity \in Nat
      BY <2>1, <3>1 DEF ClientOf, ServerInv
    <3> QED BY <3>1, <3>3, <3>4 DEF ClientOf, ClientState
  <2>3. ASSUME NEW c \in DOMAIN conns
        PROVE  /\ WithoutConn(conns[c]) \in [id : 1 .. nextId - 1, state : {"Connecting", "Connected"},
                                             salt : Clients, entity : 0 .. nextEntity - 1]
               /\ conns[c].state = "Connected" <=> conns[c].entity # None
    <3>1. ServerOf(c, conns[c], nextId, nextEntity) /\ c \in Clients
      BY <2>1 DEF ServerInv
    <3>2. DOMAIN conns[c] \ {"conn"} = {"id", "state", "salt", "entity"}
      BY <3>1 DEF ServerOf
    <3>3. WithoutConn(conns[c]) =
            [id |-> conns[c].id, state |-> conns[c].state, salt |-> conns[c].salt,
             entity |-> conns[c].entity]
      BY <3>2 DEF WithoutConn
    <3> QED BY <3>1, <3>3 DEF ServerOf
  <2> QED BY <2>1, <2>2, <2>3 DEF TypeOK, ServerInv
<1> QED BY <1>1, SessionAlways, PTL
-----------------------------------------------------------------------------
(* What holds when no datagram is delivered twice.                         *)

\* The history h remembers the channel sequence s
Remembers(h, s) == \E i \in DOMAIN h : h[i] = s

\* h remembers some of the sequences below n, each once
Short(h, n) ==
  /\ h \in Seq(0 .. n - 1)
  /\ \A i, j \in DOMAIN h : h[i] = h[j] => i = j

\* A message that a client with the history h has sent or has pending: its
\* answer to the challenge is the first of its reliable messages
UpOnce(m, h) ==
  /\ m.ch = Reliable => m.cseq \in 0 .. 1
  /\ m.msg.kind = "ChallengeResponse" => m.cseq = 0 /\ Remembers(h, 0)

\* A message that the server has sent to a client with the history h
DownOnce(m, h) ==
  /\ m.ch = Reliable => m.cseq \in 0 .. 2
  /\ m.msg.kind = "ConnectionChallenge" => m.cseq = 0
  /\ m.msg.kind = "ConnectionAccepted" => Remembers(h, 0)

\* What the server told of the connection s
Current(s, m) ==
  m.msg.kind = "ConnectionAccepted" =>
    s.state = "Connected" /\ m.msg = Accepted(s.id, s.entity)

\* No answer to a challenge yet, or one, to the challenge it remembers
AnswersOnce(k) ==
  \/ k.nextSeq[Reliable] = 0
  \/ k.nextSeq[Reliable] = 1 /\ Remembers(k.history, 0)

ClientOnce(r) ==
  /\ Short(r.conn.history, 3)
  /\ r.phase # "gone" => AnswersOnce(r.conn)
  /\ \A m \in r.conn.pending : m.ch = Reliable /\ UpOnce(m, r.conn.history)

ServerOnce(s, h) ==
  /\ Short(s.conn.history, 2)
  /\ s.conn.nextSeq[Reliable] = IF s.state = "Connecting" THEN 1 ELSE 2
  /\ s.state = "Connected" => Remembers(s.conn.history, 0)
  /\ \A m \in s.conn.pending : DownOnce(m, h) /\ Current(s, m)

\* A client sends one ConnectionRequest, when it is started
OneRequest(c) ==
  /\ client[c].phase = "off" => up[c] = {}
  /\ \A d, e \in up[c] : d.msg = Request(c) /\ e.msg = Request(c) => d = e

\* The server does nothing for c before it has taken that request
Admitted(c) ==
  c \in DOMAIN conns \/ down[c] # {} =>
    \E d \in up[c] : d.msg = Request(c) /\ <<Up(c), d>> \in taken.once

\* The client r was told that it is connected
Told(c, r) ==
  r.state = "Connected" => \E d \in down[c] : d.msg = Accepted(r.clientId, r.entity)

OnceOf(c) ==
  LET h == client[c].conn.history
  IN  /\ OneRequest(c) /\ Admitted(c)
      /\ ClientOnce(client[c]) /\ Told(c, client[c])
      /\ \A m \in up[c] : UpOnce(m, h)
      /\ \A m \in down[c] : DownOnce(m, h)
      /\ c \in DOMAIN conns =>
           ServerOnce(conns[c], h) /\ \A m \in down[c] : Current(conns[c], m)

\* OnceInv: a request is taken once, challenged once and answered once
OnceInv == \A c \in Clients : OnceOf(c)

\* The network delivers no datagram twice; the sequences of a handshake do not
\* wrap, and the history of a connection holds them all.
NoDuplicates == MaxDuplicates = 0 /\ ChanMod > 2 /\ HistorySize > 2
-----------------------------------------------------------------------------
\* ShortGrows: a history of a few sequences takes one more without forgetting.
LEMMA ShortGrows ==
  ASSUME HistorySize \in Nat, HistorySize > 2, NEW n \in {2, 3}, NEW h, Short(h, n),
         NEW s \in 0 .. n - 1, ~Remembers(h, s)
  PROVE  LET kept == IF Len(h) >= HistorySize THEN Tail(h) ELSE h
         IN  /\ Short(Append(kept, s), n)
             /\ Remembers(Append(kept, s), s)
             /\ \A x : Remembers(h, x) => Remembers(Append(kept, s), x)
<1>1. h \in Seq(0 .. n - 1) /\ Len(h) \in Nat /\ DOMAIN h = 1 .. Len(h)
  BY DEF Short
<1>2. Len(h) <= 2
  <2> SUFFICES ASSUME Len(h) >= 3 PROVE FALSE
    BY <1>1
  <2>1. 1 \in DOMAIN h /\ 2 \in DOMAIN h /\ 3 \in DOMAIN h
    BY <1>1
  <2>2. h[1] # h[2] /\ h[1] # h[3] /\ h[2] # h[3]
    BY <2>1 DEF Short
  <2>3. h[1] # s /\ h[2] # s /\ h[3] # s
    BY <2>1 DEF Remembers
  <2>4. h[1] \in 0 .. 2 /\ h[2] \in 0 .. 2 /\ h[3] \in 0 .. 2 /\ s \in 0 .. 2
    BY <1>1, <2>1
  <2> QED BY <2>2, <2>3, <2>4
<1> DEFINE t == Append(h, s)
<1>3. /\ t \in Seq(0 .. n - 1) /\ DOMAIN t = 1 .. Len(h) + 1
      /\ t[Len(h) + 1] = s /\ \A i \in 1 .. Len(h) : t[i] = h[i]
  BY <1>1
<1>4. (IF Len(h) >= HistorySize THEN Tail(h) ELSE h) = h
  <2>1. ~(Len(h) >= HistorySize)
    BY <1>1, <1>2
  <2> QED BY <2>1
<1> HIDE DEF t
<1>5. Short(t, n)
  <2>1. ASSUME NEW i \in DOMAIN t, NEW j \in DOMAIN t, t[i] = t[j] PROVE i = j
    <3>1. CASE i \in 1 .. Len(h) /\ j \in 1 .. Len(h)
      BY <1>1, <1>3, <2>1, <3>1 DEF Short
    <3>2. CASE i = Len(h) + 1 /\ j \in 1 .. Len(h)
      BY <1>1, <1>3, <2>1, <3>2 DEF Remembers
    <3>3. CASE j = Len(h) + 1 /\ i \in 1 .. Len(h)
      BY <1>1, <1>3, <2>1, <3>3 DEF Remembers
    <3> QED BY <1>1, <1>3, <3>1, <3>2, <3>3
  <2> QED BY <1>3, <2>1 DEF Short
<1>6. Remembers(t, s) /\ \A x : Remembers(h, x) => Remembers(t, x)
  BY <1>1, <1>3 DEF Remembers
<1> QED BY <1>4, <1>5, <1>6 DEF t

\* What receiving p does to a connection k that receives n sequences
HandsOnOnce(k, p, n) ==
  LET q == ProcessPacket(k, p)
  IN  /\ Short(q.history, n)
      /\ \A s : Remembers(k.history, s) => Remembers(q.history, s)
      /\ p.ch = Reliable /\ Result(k, p) # << >> =>
           ~Remembers(k.history, p.cseq) /\ Remembers(q.history, p.cseq)

\* ReceiveOnce: a connection that has received a few sequences hands on each
\* of them once.
LEMMA ReceiveOnce ==
  ASSUME HistorySize > 2, NEW k, IsConn(k), NEW n \in {2, 3}, Short(k.history, n),
         NEW p, p.ch \in {Unreliable, Reliable}, p.cseq \in ChanSeq,
         p.ch = Reliable => p.cseq \in 0 .. n - 1
  PROVE  HandsOnOnce(k, p, n)
<1> USE DEF HandsOnOnce
<1> DEFINE q == ProcessPacket(k, p)
           kept == IF Len(k.history) >= HistorySize THEN Tail(k.history) ELSE k.history
<1>1. CASE p.ch = Unreliable \/ Result(k, p) = << >>
  <2>1. q.history = k.history
    BY <1>1, ReceiveFacts
  <2> QED BY <1>1, <2>1 DEF Unreliable, Reliable
<1>2. CASE p.ch = Reliable /\ Result(k, p) # << >>
  <2>1. ~InHistory(k, p) /\ q.history = Append(kept, p.cseq)
    BY <1>2, ReceiveFacts
  <2>2. ~Remembers(k.history, p.cseq)
    BY <2>1 DEF InHistory, Remembers
  <2> HIDE DEF q
  <2>3. /\ Short(q.history, n) /\ Remembers(q.history, p.cseq)
        /\ \A x : Remembers(k.history, x) => Remembers(q.history, x)
    BY <1>2, <2>1, <2>2, ShortGrows, SizesAssumption
  <2> QED BY <2>2, <2>3 DEF q
<1> QED BY <1>1, <1>2

-----------------------------------------------------------------------------
\* OnceClient: the invariant survives a step of c that leaves it in r with the
\* datagrams D sent.
LEMMA OnceClient ==
  ASSUME SessionInv, OnceInv, NEW c \in Clients,
         NEW r, r.phase # "off", ClientOnce(r), Told(c, r),
         Remembers(client[c].conn.history, 0) => Remembers(r.conn.history, 0),
         client' = [client EXCEPT ![c] = r],
         NEW D, \A d \in D : UpOnce(d, r.conn.history),
         \/ \A d \in D : d.msg # Request(c)
         \/ up[c] = {} /\ \A d, e \in D : d = e,
         up' = [up EXCEPT ![c] = @ \cup D] \/ UNCHANGED up,
         UNCHANGED <<serverVars, down>>, taken.once \subseteq taken'.once
  PROVE  OnceInv'
<1>1. /\ client'[c] = r /\ \A a \in Clients \ {c} : client'[a] = client[a] /\ up'[a] = up[a]
      /\ up[c] \subseteq up'[c] /\ up'[c] \subseteq up[c] \cup D
      /\ \A a \in Clients : up[a] \subseteq up'[a]
  BY DEF SessionInv, ClientsInv
<1>2. UNCHANGED <<conns, down>>
  BY DEF serverVars
<1>3. ASSUME NEW a \in Clients PROVE Admitted(a)'
  <2>1. Admitted(a) /\ up[a] \subseteq up'[a]
    BY <1>1 DEF OnceInv, OnceOf
  <2> QED BY <1>2, <2>1 DEF Admitted, Up
<1>4. ASSUME NEW a \in Clients \ {c} PROVE OnceOf(a)'
  <2>1. OnceOf(a) /\ client'[a] = client[a] /\ up'[a] = up[a]
    BY <1>1 DEF OnceInv
  <2> QED BY <1>2, <1>3, <2>1 DEF OnceOf, OneRequest, Told
<1>5. OnceOf(c)'
  <2>1. OnceOf(c)
    BY DEF OnceInv
  <2>2. OneRequest(c)'
    <3>1. \A d, e \in up'[c] : d.msg = Request(c) /\ e.msg = Request(c) => d = e
      BY <1>1, <2>1 DEF OnceOf, OneRequest
    <3> QED BY <1>1, <3>1 DEF OneRequest
  <2>3. \A m, h : UpOnce(m, client[c].conn.history) => UpOnce(m, r.conn.history)
    BY DEF UpOnce
  <2>4. \A m, h : DownOnce(m, client[c].conn.history) => DownOnce(m, r.conn.history)
    BY DEF DownOnce
  <2>5. Told(c, client[c])'
    BY <1>1, <1>2 DEF Told
  <2>6. c \in DOMAIN conns => ServerOnce(conns[c], r.conn.history)
    BY <2>1, <2>4 DEF OnceOf, ServerOnce
  <2> QED BY <1>1, <1>2, <1>3, <2>1, <2>2, <2>3, <2>4, <2>5, <2>6 DEF OnceOf
<1> QED BY <1>4, <1>5 DEF OnceInv

\* OnceServer: it survives a step of the server for the address c that sends D.
LEMMA OnceServer ==
  ASSUME SessionInv, OnceInv, NEW c \in Clients, UNCHANGED <<client, up>>,
         taken.once \subseteq taken'.once,
         \A a \in Clients \ {c} : /\ a \in DOMAIN conns' <=> a \in DOMAIN conns
                                  /\ a \in DOMAIN conns => conns'[a] = conns[a],
         c \in DOMAIN conns' => /\ ServerOnce(conns'[c], client[c].conn.history)
                                /\ \A m \in down'[c] : Current(conns'[c], m),
         NEW D, \A m \in D : DownOnce(m, client[c].conn.history),
         down' = [down EXCEPT ![c] = @ \cup D] \/ UNCHANGED down,
         \E d \in up[c] : d.msg = Request(c) /\ <<Up(c), d>> \in taken'.once
  PROVE  OnceInv'
<1>1. /\ \A a \in Clients \ {c} : down'[a] = down[a]
      /\ down[c] \subseteq down'[c] /\ down'[c] \subseteq down[c] \cup D
  BY DEF SessionInv, ClientsInv
<1>2. ASSUME NEW a \in Clients \ {c} PROVE OnceOf(a)'
  <2>1. OnceOf(a) /\ down'[a] = down[a]
    BY <1>1 DEF OnceInv
  <2>2. Admitted(a)'
    BY <2>1 DEF OnceOf, Admitted, Up
  <2> QED BY <2>1, <2>2 DEF OnceOf, OneRequest, Told
<1>3. OnceOf(c)'
  <2>1. OnceOf(c)
    BY DEF OnceInv
  <2>2. Admitted(c)'
    BY DEF Admitted, Up
  <2>3. Told(c, client[c])'
    BY <1>1, <2>1 DEF OnceOf, Told
  <2>4. \A m \in down'[c] : DownOnce(m, client[c].conn.history)
    BY <1>1, <2>1 DEF OnceOf
  <2> QED BY <2>1, <2>2, <2>3, <2>4 DEF OnceOf, OneRequest
<1> QED BY <1>2, <1>3 DEF OnceInv

\* OnceSends: so it does when c goes to r and sends msg.
LEMMA OnceSends ==
  ASSUME SessionInv, OnceInv, ChanMod > 2, NEW c \in Clients,
         NEW r, r.phase # "off", ClientOf(c, r, nextId, nextEntity), Told(c, r),
         Short(r.conn.history, 3), \A m \in r.conn.pending : m.ch = Reliable /\ UpOnce(m, r.conn.history),
         Remembers(client[c].conn.history, 0) => Remembers(r.conn.history, 0),
         NEW ch \in {Unreliable, Reliable}, NEW msg, ClientSends(c, r, ch, msg),
         ch = Unreliable => AnswersOnce(r.conn) /\ msg.kind # "ChallengeResponse",
         ch = Reliable => \/ r.conn.nextSeq[Reliable] = 0 /\ Remembers(r.conn.history, 0)
                          \/ /\ r.phase = "gone" /\ msg.kind # "ChallengeResponse"
                             /\ r.conn.nextSeq[Reliable] \in 0 .. 1,
         msg = Request(c) => up[c] = {},
         UNCHANGED <<serverVars, down>>, taken.once \subseteq taken'.once
  PROVE  OnceInv'
<1> DEFINE h == r.conn.history
           k == SendPacket(r.conn, ch, msg)
           d == SentPacket(r.conn, ch, msg)
           t == [r EXCEPT !.conn = k]
           m == [ch |-> Reliable, cseq |-> r.conn.nextSeq[Reliable], msg |-> msg]
           D == {d}
<1>1. client' = [client EXCEPT ![c] = t] /\ up' = [up EXCEPT ![c] = @ \cup D]
  BY DEF ClientSends, Sending
<1>2. IsConn(r.conn)
  BY DEF ClientOf
<1>3. d.ch = ch /\ d.msg = msg /\ k.history = h
  BY <1>2, SendFacts
<1>4. UpOnce(d, h)
  <2>1. ch = Reliable => d.cseq = r.conn.nextSeq[Reliable]
    BY <1>2, SendFacts
  <2> HIDE DEF d, k
  <2> QED BY <1>3, <2>1 DEF UpOnce, Unreliable, Reliable
<1>5. /\ r.phase # "gone" => AnswersOnce(k)
      /\ \A x \in k.pending : x.ch = Reliable /\ UpOnce(x, h)
  <2>1. CASE ch = Unreliable
    <3>1. k.pending = r.conn.pending /\ k.nextSeq = r.conn.nextSeq
      BY <1>2, <2>1, SendFacts
    <3> HIDE DEF k
    <3> QED BY <1>3, <2>1, <3>1 DEF AnswersOnce
  <2>2. CASE ch = Reliable
    <3>1. /\ k.nextSeq[Reliable] = WrapAdd(r.conn.nextSeq[Reliable], 1, ChanMod)
          /\ k.pending \subseteq r.conn.pending \cup {m}
      BY <1>2, <2>2, SendFacts
    <3>2. m.ch = Reliable /\ UpOnce(m, h)
      BY <2>2 DEF UpOnce
    <3>3. WrapAdd(0, 1, ChanMod) = 1
      BY SizesAssumption DEF WrapAdd
    <3> HIDE DEF k, m
    <3> QED BY <1>3, <2>2, <3>1, <3>2, <3>3 DEF AnswersOnce
  <2> QED BY <2>1, <2>2
<1> HIDE DEF k, d, m
<1>6. /\ t.phase = r.phase /\ t.conn = k /\ t.state = r.state /\ t.clientId = r.clientId
      /\ t.entity = r.entity
  BY DEF ClientOf
<1> HIDE DEF t
<1>7. ClientOnce(t) /\ Told(c, t)
  BY <1>3, <1>5, <1>6 DEF ClientOnce, Told
<1>8. /\ \A x \in D : UpOnce(x, t.conn.history)
      /\ \/ \A x \in D : x.msg # Request(c)
         \/ up[c] = {} /\ \A x, y \in D : x = y
  BY <1>3, <1>4, <1>6
<1> HIDE DEF D
<1> QED BY <1>1, <1>3, <1>6, <1>7, <1>8, OnceClient

\* OnceMoves: so it does when c sends nothing.
LEMMA OnceMoves ==
  ASSUME SessionInv, OnceInv, NEW c \in Clients,
         NEW r, r.phase # "off", ClientOnce(r), Told(c, r),
         Remembers(client[c].conn.history, 0) => Remembers(r.conn.history, 0),
         client' = [client EXCEPT ![c] = r],
         UNCHANGED <<serverVars, up, down>>, taken.once \subseteq taken'.once
  PROVE  OnceInv'
<1> DEFINE D == {}
<1>1. /\ \A d \in D : UpOnce(d, r.conn.history) /\ d.msg # Request(c)
      /\ up' = [up EXCEPT ![c] = @ \cup D] \/ UNCHANGED up
  OBVIOUS
<1> HIDE DEF D
<1> QED BY <1>1, OnceClient

\* ReceivedOnce: what process_packet leaves of a client, and what it hands on.
LEMMA ReceivedOnce ==
  ASSUME SessionInv, OnceInv, HistorySize > 2, NEW c \in Clients, NEW d \in down[c]
  PROVE  LET k == client[c].conn
             q == ProcessPacket(k, d)
         IN  /\ IsConn(q) /\ q.nextSeq = k.nextSeq
             /\ Short(q.history, 3)
             /\ \A m \in q.pending : m.ch = Reliable /\ UpOnce(m, q.history)
             /\ Remembers(k.history, 0) => Remembers(q.history, 0)
             /\ client[c].phase # "gone" => AnswersOnce(q)
             /\ d.msg.kind = "ConnectionChallenge" /\ Result(k, d) # << >> =>
                  ~Remembers(k.history, 0) /\ Remembers(q.history, 0)
<1> DEFINE k == client[c].conn
           q == ProcessPacket(k, d)
<1>1. OnceOf(c) /\ ClientOf(c, client[c], nextId, nextEntity) /\ DownMsg(c, d, nextId, nextEntity)
  BY DEF OnceInv, SessionInv, ClientsInv
<1>2. /\ IsConn(k) /\ Short(k.history, 3) /\ DownOnce(d, k.history)
      /\ d.ch \in {Unreliable, Reliable} /\ d.cseq \in ChanSeq
      /\ client[c].phase # "gone" => AnswersOnce(k)
      /\ \A m \in k.pending : m.ch = Reliable /\ UpOnce(m, k.history)
  BY <1>1 DEF OnceOf, ClientOnce, ClientOf, DownMsg
<1>3. d.ch = Reliable => d.cseq \in 0 .. 3 - 1
  BY <1>2 DEF DownOnce
<1> HIDE DEF k
<1>4. IsConn(q) /\ q.nextSeq = k.nextSeq /\ q.pending \subseteq k.pending
  BY <1>2, ReceiveFacts
<1>5. /\ Short(q.history, 3)
      /\ \A s : Remembers(k.history, s) => Remembers(q.history, s)
      /\ d.ch = Reliable /\ Result(k, d) # << >> =>
           ~Remembers(k.history, d.cseq) /\ Remembers(q.history, d.cseq)
  <2> DEFINE n == 3
  <2>1. n \in {2, 3} /\ Short(k.history, n) /\ (d.ch = Reliable => d.cseq \in 0 .. n - 1)
    BY <1>2, <1>3
  <2>a. HistorySize > 2 /\ IsConn(k) /\ d.ch \in {Unreliable, Reliable} /\ d.cseq \in ChanSeq
    BY <1>2
  <2> HIDE DEF n, q
  <2>2. HandsOnOnce(k, d, n)
    BY <2>1, <2>a, ReceiveOnce
  <2> QED BY <2>2 DEF n, q, HandsOnOnce
<1>6. d.msg.kind = "ConnectionChallenge" => d.ch = Reliable /\ d.cseq = 0
  <2>1. d.msg.kind = "ConnectionChallenge" => d.msg \notin {Pong, Denied}
    BY DEF Pong, Denied
  <2> QED BY <1>1, <1>2, <2>1 DEF DownMsg, DownOnce
<1> HIDE DEF q
<1>7. \A m \in q.pending : m.ch = Reliable /\ UpOnce(m, q.history)
  BY <1>2, <1>4, <1>5 DEF UpOnce
<1>8. client[c].phase # "gone" => AnswersOnce(q)
  BY <1>2, <1>4, <1>5 DEF AnswersOnce
<1> QED BY <1>4, <1>5, <1>6, <1>7, <1>8 DEF k, q

\* OnceReceives: a datagram from the server.
LEMMA OnceReceives ==
  ASSUME SessionInv, OnceInv, NoDuplicates, NEW c \in Clients, NEW d \in down[c],
         ClientReceive(c, d)
  PROVE  OnceInv'
<1> DEFINE k == client[c].conn
           q == ProcessPacket(k, d)
           cl == [client[c] EXCEPT !.conn = q]
<1>1. /\ OnceOf(c) /\ ClientOf(c, cl, nextId, nextEntity)
      /\ DownMsg(c, d, nextId, nextEntity) /\ DownOnce(d, k.history)
  BY ProcessedOf DEF OnceInv, OnceOf
<1>2. /\ IsConn(q) /\ q.nextSeq = k.nextSeq
      /\ Short(q.history, 3)
      /\ \A m \in q.pending : m.ch = Reliable /\ UpOnce(m, q.history)
      /\ Remembers(k.history, 0) => Remembers(q.history, 0)
      /\ AnswersOnce(q) /\ AnswersOnce(k)
      /\ d.msg.kind = "ConnectionChallenge" /\ Result(k, d) # << >> =>
           ~Remembers(k.history, 0) /\ Remembers(q.history, 0)
  <2>1. client[c].phase # "gone"
    BY DEF ClientReceive, Running
  <2> QED BY <1>1, <2>1, ReceivedOnce DEF OnceOf, ClientOnce, NoDuplicates
<1>3. /\ UNCHANGED <<serverVars, down>> /\ client[c].phase \in {"menu", "game"}
      /\ taken.once \subseteq taken'.once
  BY DEF ClientReceive, Take, SessionInv, TakenInv, Running
<1>4. /\ \/ /\ HandleChallenge(c, cl, d.msg) /\ d.msg.kind = "ConnectionChallenge"
            /\ Result(k, d) # << >>
         \/ client' = [client EXCEPT ![c] = cl] /\ UNCHANGED up
         \/ /\ client' = [client EXCEPT ![c] = ClientAfter(cl, d.msg)] /\ UNCHANGED up
            /\ d.msg.kind # "ConnectionChallenge"
      /\ cl.phase = client[c].phase /\ cl.state = client[c].state /\ cl.conn = q
      /\ cl.clientId = client[c].clientId /\ cl.entity = client[c].entity
  BY DEF ClientReceive, SessionInv, ClientsInv, ClientOf
<1> HIDE DEF q, cl
<1>5. CASE /\ HandleChallenge(c, cl, d.msg) /\ d.msg.kind = "ConnectionChallenge"
           /\ Result(k, d) # << >>
  <2> DEFINE r == [cl EXCEPT !.state = "ChallengeResponse"]
  <2>1. /\ ClientOf(c, r, nextId, nextEntity) /\ r.conn = q /\ r.phase = cl.phase
        /\ r.state = "ChallengeResponse"
    BY <1>1, <1>4 DEF ClientOf
  <2>2. PICK id \in 1 .. nextId - 1 : d.msg = Challenge(c, id)
    BY <1>1, <1>5, DownKinds
  <2>3. d.msg.salt = c /\ d.msg.id = id
    BY <2>2 DEF Challenge
  <2>4. ~Remembers(k.history, 0) /\ Remembers(q.history, 0)
    BY <1>2, <1>5
  <2>5. Told(c, r)
    BY <2>1 DEF Told
  <2>6. CASE c = cl.salt
    <3>1. ClientSends(c, r, Reliable, Response(c, id))
      BY <1>5, <2>3, <2>6 DEF HandleChallenge
    <3>2. q.nextSeq[Reliable] = 0
      BY <1>2, <2>4 DEF AnswersOnce
    <3>3. Response(c, id) # Request(c)
      BY DEF Response, Request
    <3> HIDE DEF r, k
    <3> QED BY <1>2, <1>3, <1>4, <2>1, <2>4, <2>5, <3>1, <3>2, <3>3, OnceSends
            DEF NoDuplicates, Unreliable, Reliable, k
  <2>7. CASE c # cl.salt
    <3>1. client' = [client EXCEPT ![c] = r] /\ UNCHANGED up
      BY <1>5, <2>3, <2>7 DEF HandleChallenge
    <3>2. ClientOnce(r)
      BY <1>2, <2>1 DEF ClientOnce
    <3> HIDE DEF r
    <3> QED BY <1>2, <1>3, <1>4, <2>1, <2>5, <3>1, <3>2, OnceMoves
  <2> QED BY <2>6, <2>7
<1>6. CASE client' = [client EXCEPT ![c] = cl] /\ UNCHANGED up
  <2>1. ClientOnce(cl)
    BY <1>2, <1>4 DEF ClientOnce
  <2>2. Told(c, cl)
    BY <1>1, <1>4 DEF Told, OnceOf
  <2> QED BY <1>2, <1>3, <1>4, <1>6, <2>1, <2>2, OnceMoves
<1>7. CASE /\ client' = [client EXCEPT ![c] = ClientAfter(cl, d.msg)] /\ UNCHANGED up
           /\ d.msg.kind # "ConnectionChallenge"
  <2> DEFINE r == ClientAfter(cl, d.msg)
  <2>1. \/ d.msg.kind \in {"Pong", "ConnectionDenied", "Disconnect"}
        \/ \E id \in 1 .. nextId - 1, x \in 1 .. nextEntity - 1 : d.msg = Accepted(id, x)
    BY <1>1, <1>7, DownKinds
  <2>2. r.phase = cl.phase /\ r.conn = q /\ Told(c, r)
    <3>1. CASE d.msg.kind = "Pong"
      BY <1>1, <1>4, <3>1 DEF ClientAfter, Told, OnceOf
    <3>2. CASE d.msg.kind \in {"ConnectionDenied", "Disconnect"}
      BY <1>1, <1>4, <3>2 DEF ClientAfter, Told, Reset, ClientOf
    <3>3. ASSUME NEW id \in 1 .. nextId - 1, NEW x \in 1 .. nextEntity - 1, d.msg = Accepted(id, x)
          PROVE  r.phase = cl.phase /\ r.conn = q /\ Told(c, r)
      <4>1. r = [cl EXCEPT !.state = "Connected", !.clientId = id, !.entity = x]
        BY <3>3 DEF ClientAfter, Accepted
      <4> HIDE DEF r
      <4>2. r.clientId = id /\ r.entity = x /\ r.phase = cl.phase /\ r.conn = q
        BY <1>1, <1>4, <4>1 DEF ClientOf
      <4> QED BY <3>3, <4>2 DEF Told
    <3> QED BY <2>1, <3>1, <3>2, <3>3
  <2>3. ClientOnce(r)
    BY <1>2, <2>2 DEF ClientOnce
  <2> HIDE DEF r
  <2> QED BY <1>2, <1>3, <1>4, <1>7, <2>2, <2>3, OnceMoves DEF r
<1> QED BY <1>4, <1>5, <1>6, <1>7

\* OnceStep: any step of a client.
LEMMA OnceStep ==
  ASSUME SessionInv, OnceInv, NoDuplicates, NEW c \in Clients, ClientStep(c)
  PROVE  OnceInv'
<1> DEFINE k == client[c].conn
<1>1. /\ OnceOf(c) /\ ClientOf(c, client[c], nextId, nextEntity)
      /\ Short(k.history, 3) /\ \A m \in k.pending : m.ch = Reliable /\ UpOnce(m, k.history)
      /\ Told(c, client[c]) /\ ClientOnce(client[c])
      /\ client[c].phase # "gone" => AnswersOnce(k)
  BY DEF OnceInv, OnceOf, ClientOnce, SessionInv, ClientsInv
<1>2. UNCHANGED taken => taken.once \subseteq taken'.once
  OBVIOUS
<1>3. CASE Connect(c)
  <2>1. PICK phase \in {"menu", "game"} :
          ClientSends(c, [client[c] EXCEPT !.phase = phase, !.state = "Connecting", !.started = TRUE],
                      Unreliable, Request(client[c].salt))
    BY <1>3 DEF Connect
  <2> DEFINE r == [client[c] EXCEPT !.phase = phase, !.state = "Connecting", !.started = TRUE]
  <2>2. /\ client[c].salt = c /\ UNCHANGED <<serverVars, down, taken>>
        /\ client[c].phase = "off" /\ up[c] = {}
    BY <1>1, <1>3 DEF Connect, ClientOf, OnceOf, OneRequest
  <2>3. /\ ClientOf(c, r, nextId, nextEntity) /\ r.conn = k /\ r.phase = phase
        /\ r.state = "Connecting"
    BY <1>1 DEF ClientOf
  <2>4. ClientSends(c, r, Unreliable, Request(c))
    BY <2>1, <2>2
  <2>5. Told(c, r)
    BY <2>3 DEF Told
  <2>6. Request(c).kind # "ChallengeResponse"
    BY DEF Request
  <2> HIDE DEF r, k
  <2> QED BY <1>1, <1>2, <2>2, <2>3, <2>4, <2>5, <2>6, OnceSends
          DEF NoDuplicates, Unreliable, Reliable, k
<1>4. CASE \E d \in down[c] : ClientReceive(c, d)
  BY <1>4, OnceReceives
<1>5. CASE ClientPing(c)
  <2>1. /\ ClientSends(c, client[c], Unreliable, Ping) /\ UNCHANGED <<serverVars, down, taken>>
        /\ client[c].phase \in {"menu", "game"}
    BY <1>5 DEF ClientPing, Running
  <2>2. Ping.kind # "ChallengeResponse" /\ Ping # Request(c)
    BY DEF Ping, Request
  <2> HIDE DEF k
  <2> QED BY <1>1, <1>2, <2>1, <2>2, OnceSends DEF NoDuplicates, Unreliable, Reliable, k
<1>6. CASE ClientResend(c)
  <2> DEFINE room == MaxWire - k.sendSeq
  <2>1. PICK due \in DueLists(k.pending, room) :
          /\ client' = [client EXCEPT ![c].conn = CollectResends(@, due)]
          /\ up' = [up EXCEPT ![c] = @ \cup ResentPackets(client[c].conn, due)]
    BY <1>6 DEF ClientResend
  <2> DEFINE q == CollectResends(k, due)
             D == ResentPackets(k, due)
             r == [client[c] EXCEPT !.conn = q]
  <2>2. IsConn(k) /\ \A m \in k.pending : UpMsg(c, m, nextId)
    BY <1>1 DEF ClientOf
  <2>3. /\ q.pending = k.pending /\ q.nextSeq = k.nextSeq /\ q.history = k.history
        /\ \A d \in D : \E m \in k.pending : d.ch = m.ch /\ d.cseq = m.cseq /\ d.msg = m.msg
    <3>1. IsConn(k)
      BY <2>2
    <3> HIDE DEF room, k
    <3>2. SentAgain(k, due)
      BY <3>1, SendsAgain
    <3> QED BY <3>2 DEF SentAgain
  <2>4. client' = [client EXCEPT ![c] = r] /\ up' = [up EXCEPT ![c] = @ \cup D]
    BY <2>1
  <2> HIDE DEF q, D
  <2>5. /\ r.conn = q /\ r.phase = client[c].phase /\ r.state = client[c].state
        /\ r.clientId = client[c].clientId /\ r.entity = client[c].entity
    BY <1>1 DEF ClientOf
  <2>6. UNCHANGED <<serverVars, down, taken>> /\ r.phase \in {"menu", "game"}
    BY <1>6, <2>5 DEF ClientResend, Running
  <2> HIDE DEF r
  <2>7. \A d \in D : UpOnce(d, q.history) /\ d.msg # Request(c)
    <3>1. \A m \in k.pending : m.msg # Request(c)
      <4>1. ASSUME NEW m \in k.pending PROVE m.msg.kind # "ConnectionRequest"
        <5>1. UpMsg(c, m, nextId) /\ m.ch = Reliable
          BY <1>1, <2>2
        <5> QED BY <5>1, UpKinds DEF Unreliable, Reliable
      <4> QED BY <4>1 DEF Request
    <3> QED BY <1>1, <2>3, <3>1 DEF UpOnce
  <2>8. ClientOnce(r) /\ Told(c, r)
    BY <1>1, <2>3, <2>5 DEF ClientOnce, Told, AnswersOnce
  <2> QED BY <1>1, <1>2, <2>3, <2>4, <2>5, <2>6, <2>7, <2>8, OnceClient
<1>7. CASE ClientTimeout(c)
  <2> DEFINE r == Reset(client[c])
  <2>1. r.conn = k /\ r.phase = client[c].phase /\ r.state = "Disconnected"
    BY <1>1 DEF ClientOf, Reset
  <2>2. ClientOnce(r) /\ Told(c, r)
    BY <1>1, <2>1 DEF ClientOnce, Told
  <2>3. /\ client' = [client EXCEPT ![c] = r] /\ UNCHANGED <<serverVars, up, down, taken>>
        /\ client[c].phase \in {"menu", "game"}
    BY <1>7 DEF ClientTimeout, Running
  <2> HIDE DEF r
  <2> QED BY <1>2, <2>1, <2>2, <2>3, OnceMoves
<1>8. CASE Launch(c)
  <2>1. PICK phase \in {"game", "gone"} : client' = [client EXCEPT ![c].phase = phase]
    BY <1>8 DEF Launch
  <2> DEFINE r == [client[c] EXCEPT !.phase = phase]
  <2>2. /\ r.conn = k /\ r.phase = phase /\ r.state = client[c].state
        /\ r.clientId = client[c].clientId /\ r.entity = client[c].entity
    BY <1>1 DEF ClientOf
  <2>3. /\ client' = [client EXCEPT ![c] = r] /\ UNCHANGED <<serverVars, up, down, taken>>
        /\ client[c].phase \in {"menu", "game"}
    BY <1>8, <2>1 DEF Launch
  <2> HIDE DEF r
  <2>4. ClientOnce(r) /\ Told(c, r)
    BY <1>1, <2>2, <2>3 DEF ClientOnce, Told
  <2> QED BY <1>2, <2>2, <2>3, <2>4, OnceMoves
<1>9. CASE Leave(c) \/ Crash(c)
  <2> DEFINE r == [Reset(client[c]) EXCEPT !.phase = "gone"]
  <2>1. ClientOf(c, r, nextId, nextEntity)
    <3>1. nextId \in Nat \ {0} /\ nextEntity \in Nat \ {0}
      BY SessionAssumption DEF SessionInv, ServerInv
    <3> QED BY <1>1, <3>1, ResetOf
  <2>2. r.conn = k /\ r.phase = "gone" /\ r.state = "Disconnected"
    BY <1>1 DEF ClientOf, Reset
  <2>3. /\ \/ ClientSends(c, r, Reliable, Disconnect)
           \/ client' = [client EXCEPT ![c] = r] /\ UNCHANGED up
        /\ UNCHANGED <<serverVars, down, taken>> /\ client[c].phase \in {"menu", "game"}
    BY <1>9 DEF Leave, Crash, Running
  <2> HIDE DEF r
  <2>4. ClientOnce(r) /\ Told(c, r)
    BY <1>1, <2>2 DEF ClientOnce, Told
  <2>5. Disconnect.kind # "ChallengeResponse" /\ Disconnect # Request(c)
    BY DEF Disconnect, Request
  <2>6. k.nextSeq[Reliable] \in 0 .. 1
    BY <1>1, <2>3 DEF AnswersOnce
  <2> HIDE DEF k
  <2>7. CASE ClientSends(c, r, Reliable, Disconnect)
    BY <1>1, <1>2, <2>1, <2>2, <2>3, <2>4, <2>5, <2>6, <2>7, OnceSends
       DEF NoDuplicates, Unreliable, Reliable, k
  <2>8. CASE client' = [client EXCEPT ![c] = r] /\ UNCHANGED up
    BY <1>2, <2>2, <2>3, <2>4, <2>8, OnceMoves DEF k
  <2> QED BY <2>3, <2>7, <2>8
<1> QED BY <1>3, <1>4, <1>5, <1>6, <1>7, <1>8, <1>9 DEF ClientStep
-----------------------------------------------------------------------------
\* c has a ConnectionRequest that the server has taken
TakenRequest(c, once) == \E d \in up[c] : d.msg = Request(c) /\ <<Up(c), d>> \in once

\* NoSecondRequest: a ConnectionRequest that may arrive is the first, and the
\* server has nothing to do with the client yet.
LEMMA NoSecondRequest ==
  ASSUME SessionInv, OnceInv, NoDuplicates, NEW c \in Clients, NEW d \in up[c],
         d.msg = Request(c), MayArrive(Up(c), d)
  PROVE  c \notin DOMAIN conns /\ down[c] = {}
<1>1. OneRequest(c) /\ Admitted(c)
  BY DEF OnceInv, OnceOf
<1>2. <<Up(c), d>> \notin taken.once
  BY DEF MayArrive, NoDuplicates, SessionInv, TakenInv
<1> QED BY <1>1, <1>2 DEF OneRequest, Admitted

\* Takes: what Take adds.
LEMMA Takes ==
  ASSUME SessionInv, NEW link, NEW d, Take(link, d)
  PROVE  taken.once \subseteq taken'.once /\ <<link, d>> \in taken'.once
BY DEF Take, SessionInv, TakenInv

\* OncePuts: the invariant survives a step of the server that makes s the
\* connection of c and sends D.
LEMMA OncePuts ==
  ASSUME SessionInv, OnceInv, NEW c \in Clients, UNCHANGED <<client, up>>,
         taken.once \subseteq taken'.once, TakenRequest(c, taken'.once),
         NEW s, PutConnection(c, s), ServerOnce(s, client[c].conn.history),
         \A m \in down[c] : Current(s, m),
         NEW D, \A m \in D : DownOnce(m, client[c].conn.history) /\ Current(s, m),
         down' = [down EXCEPT ![c] = @ \cup D] \/ UNCHANGED down
  PROVE  OnceInv'
<1>1. /\ \A a \in Clients \ {c} : /\ a \in DOMAIN conns' <=> a \in DOMAIN conns
                                  /\ a \in DOMAIN conns => conns'[a] = conns[a]
      /\ conns'[c] = s
  BY DEF PutConnection
<1>2. down'[c] \subseteq down[c] \cup D
  BY DEF SessionInv, ClientsInv
<1>3. \A m \in down'[c] : Current(s, m)
  BY <1>2
<1>4. \E d \in up[c] : d.msg = Request(c) /\ <<Up(c), d>> \in taken'.once
  BY DEF TakenRequest
<1> QED BY <1>1, <1>3, <1>4, OnceServer

\* OnceServerSends: so it does when the server makes s the connection of c and
\* sends msg on it.
LEMMA OnceServerSends ==
  ASSUME SessionInv, OnceInv, NoDuplicates, NEW c \in Clients, UNCHANGED <<client, up>>,
         taken.once \subseteq taken'.once, TakenRequest(c, taken'.once),
         NEW s, DOMAIN s = {"id", "state", "salt", "entity", "conn"}, IsConn(s.conn),
         s.state \in {"Connecting", "Connected"},
         Short(s.conn.history, 2), s.state = "Connected" => Remembers(s.conn.history, 0),
         \A m \in s.conn.pending : DownOnce(m, client[c].conn.history) /\ Current(s, m),
         \A m \in down[c] : Current(s, m),
         NEW ch \in {Unreliable, Reliable}, NEW msg, ServerSends(c, s, msg, ch),
         s.conn.nextSeq[Reliable] =
           (IF s.state = "Connecting" THEN 0 ELSE 1) + (IF ch = Unreliable THEN 1 ELSE 0),
         msg.kind = "ConnectionChallenge" => s.state = "Connecting" /\ ch = Reliable,
         msg.kind = "ConnectionAccepted" =>
           /\ Remembers(client[c].conn.history, 0)
           /\ s.state = "Connected" /\ msg = Accepted(s.id, s.entity)
  PROVE  OnceInv'
<1> DEFINE h == client[c].conn.history
           seq == s.conn.nextSeq[Reliable]
           k == SendPacket(s.conn, ch, msg)
           d == SentPacket(s.conn, ch, msg)
           t == [s EXCEPT !.conn = k]
           m == [ch |-> Reliable, cseq |-> seq, msg |-> msg]
           D == {d}
<1>1. PutConnection(c, t) /\ down' = [down EXCEPT ![c] = @ \cup D]
  BY DEF ServerSends, Sending
<1>2. /\ d.ch = ch /\ d.msg = msg /\ k.history = s.conn.history
      /\ ch = Reliable => d.cseq = seq
  BY SendFacts
<1>3. ch = Reliable => seq \in 0 .. 1 /\ (s.state = "Connecting" => seq = 0)
  BY DEF Unreliable, Reliable
<1>4. Current(s, d) /\ Current(s, m)
  <2> HIDE DEF d
  <2> QED BY <1>2 DEF Current
<1>5. DownOnce(d, h)
  <2> HIDE DEF d, k, seq
  <2> QED BY <1>2, <1>3 DEF DownOnce, Unreliable, Reliable
<1>6. ch = Reliable => DownOnce(m, h)
  <2> HIDE DEF seq
  <2> QED BY <1>3 DEF DownOnce
<1>7. /\ k.pending \subseteq s.conn.pending \cup (IF ch = Reliable THEN {m} ELSE {})
      /\ k.nextSeq[Reliable] = IF s.state = "Connecting" THEN 1 ELSE 2
  <2>1. CASE ch = Unreliable
    <3>1. k.pending = s.conn.pending /\ k.nextSeq = s.conn.nextSeq
      BY <2>1, SendFacts
    <3> HIDE DEF k
    <3> QED BY <2>1, <3>1
  <2>2. CASE ch = Reliable
    <3>1. /\ k.nextSeq[Reliable] = WrapAdd(seq, 1, ChanMod)
          /\ k.pending \subseteq s.conn.pending \cup {m}
      BY <2>2, SendFacts
    <3>2. seq = IF s.state = "Connecting" THEN 0 ELSE 1
      BY <2>2 DEF Unreliable, Reliable
    <3>3. ChanMod \in Nat /\ ChanMod > 2
      BY SizesAssumption DEF NoDuplicates
    <3>4. WrapAdd(0, 1, ChanMod) = 1 /\ WrapAdd(1, 1, ChanMod) = 2
      BY <3>3 DEF WrapAdd
    <3> HIDE DEF k, m, seq
    <3> QED BY <2>2, <3>1, <3>2, <3>4
  <2> QED BY <2>1, <2>2
<1> HIDE DEF k, d, m, h
<1>8. t.conn = k /\ t.state = s.state /\ t.id = s.id /\ t.entity = s.entity
  OBVIOUS
<1> HIDE DEF t
<1>9. \A x : Current(s, x) => Current(t, x)
  BY <1>8 DEF Current
<1>10. ServerOnce(t, h)
  BY <1>2, <1>4, <1>6, <1>7, <1>8, <1>9 DEF ServerOnce, h
<1>11. \A x \in D : DownOnce(x, h) /\ Current(t, x)
  BY <1>4, <1>5, <1>9
<1>12. \A x \in down[c] : Current(t, x)
  BY <1>9
<1> HIDE DEF D
<1> QED BY <1>1, <1>10, <1>11, <1>12, OncePuts DEF h

\* OnceUnknown: a datagram from an address without a connection.
LEMMA OnceUnknown ==
  ASSUME SessionInv, OnceInv, NoDuplicates, NEW c \in Clients, NEW d \in up[c],
         ServerReceiveUnknown(c, d)
  PROVE  OnceInv'
<1> DEFINE h == client[c].conn.history
<1>1. /\ OnceOf(c) /\ UpMsg(c, d, nextId) /\ c \notin DOMAIN conns
      /\ UNCHANGED <<client, up>> /\ MayArrive(Up(c), d)
  BY DEF OnceInv, SessionInv, ClientsInv, ServerReceiveUnknown
<1>2. taken.once \subseteq taken'.once /\ <<Up(c), d>> \in taken'.once
  BY Takes DEF ServerReceiveUnknown
<1>3. CASE d.msg.kind # "ConnectionRequest"
  <2>1. UNCHANGED <<conns, down>>
    BY <1>3 DEF ServerReceiveUnknown, serverVars
  <2>2. ASSUME NEW a \in Clients PROVE OnceOf(a)'
    <3>1. OnceOf(a)
      BY DEF OnceInv
    <3>2. Admitted(a)'
      BY <1>1, <1>2, <2>1, <3>1 DEF OnceOf, Admitted, Up
    <3> QED BY <1>1, <2>1, <3>1, <3>2 DEF OnceOf, OneRequest, Told
  <2> QED BY <2>2 DEF OnceInv
<1>4. CASE d.msg.kind = "ConnectionRequest"
  <2>1. d.msg = Request(c) /\ d.msg.salt = c
    BY <1>1, <1>4, UpKinds DEF Request
  <2>2. down[c] = {} /\ TakenRequest(c, taken'.once)
    BY <1>1, <1>2, <2>1, NoSecondRequest DEF TakenRequest
  <2>3. CASE /\ down' = [down EXCEPT ![c] = @ \cup {Packet(NewConnection, 0, Unreliable, 0, Denied)}]
             /\ UNCHANGED serverVars
    <3> DEFINE x == Packet(NewConnection, 0, Unreliable, 0, Denied)
               D == {x}
    <3>1. \A m \in D : DownOnce(m, h)
      BY DEF Packet, DownOnce, Denied, Unreliable, Reliable
    <3>2. /\ UNCHANGED conns /\ down' = [down EXCEPT ![c] = @ \cup D]
          /\ \E p \in up[c] : p.msg = Request(c) /\ <<Up(c), p>> \in taken'.once
      BY <1>2, <2>1, <2>3 DEF serverVars
    <3> HIDE DEF x, D
    <3> QED BY <1>1, <1>2, <3>1, <3>2, OnceServer
  <2>4. CASE SendChallenge(c, NewServerConnection(d.msg.salt))
    <3> DEFINE s == NewServerConnection(c)
               msg == Challenge(c, nextId)
    <3>1. /\ DOMAIN s = {"id", "state", "salt", "entity", "conn"}
          /\ s.state = "Connecting" /\ s.conn = NewConnection /\ s.salt = c /\ s.id = nextId
      BY DEF NewServerConnection
    <3>2. ServerSends(c, s, msg, Reliable)
      BY <2>1, <2>4, <3>1 DEF SendChallenge
    <3>3. /\ IsConn(s.conn) /\ Short(s.conn.history, 2) /\ s.conn.pending = {}
          /\ s.conn.nextSeq[Reliable] = 0
      BY <3>1, NewConnFacts DEF Short
    <3>4. msg.kind = "ConnectionChallenge"
      BY DEF Challenge
    <3> HIDE DEF s, msg
    <3> QED BY <1>1, <1>2, <2>2, <3>1, <3>2, <3>3, <3>4, OnceServerSends DEF Unreliable, Reliable
  <2> QED BY <1>4, <2>3, <2>4 DEF ServerReceiveUnknown
<1> QED BY <1>3, <1>4

\* What process_packet leaves of the connection with c
Processed(c, d) == [conns[c] EXCEPT !.conn = ProcessPacket(@, d)]

\* ServedOnce: it is as before, but for the history.
LEMMA ServedOnce ==
  ASSUME SessionInv, OnceInv, NoDuplicates, NEW c \in DOMAIN conns, NEW d \in up[c]
  PROVE  LET s == Processed(c, d)
             h == client[c].conn.history
         IN  /\ DOMAIN s = {"id", "state", "salt", "entity", "conn"} /\ IsConn(s.conn)
             /\ s.state = conns[c].state /\ s.id = conns[c].id /\ s.entity = conns[c].entity
             /\ s.salt = c /\ s.state \in {"Connecting", "Connected"}
             /\ ServerOnce(s, h) /\ \A m \in down[c] : Current(s, m)
             /\ d.msg.kind = "ChallengeResponse" /\ Result(conns[c].conn, d) # << >> =>
                  /\ s.state = "Connecting" /\ Remembers(s.conn.history, 0)
                  /\ Remembers(h, 0)
<1> DEFINE k == conns[c].conn
           q == ProcessPacket(k, d)
           s == Processed(c, d)
           h == client[c].conn.history
<1>1. /\ c \in Clients /\ OnceOf(c) /\ UpMsg(c, d, nextId)
      /\ ServerOf(c, conns[c], nextId, nextEntity) /\ ServerOnce(conns[c], h)
      /\ UpOnce(d, h) /\ \A m \in down[c] : Current(conns[c], m)
  BY DEF OnceInv, OnceOf, SessionInv, ClientsInv, ServerInv
<1>2. s = [conns[c] EXCEPT !.conn = q]
  BY DEF Processed
<1>3. IsConn(k) /\ d.ch \in {Unreliable, Reliable} /\ d.cseq \in ChanSeq
  BY <1>1 DEF ServerOf, UpMsg
<1>4. IsConn(q) /\ q.pending \subseteq k.pending /\ q.nextSeq = k.nextSeq
  <2> HIDE DEF k
  <2> QED BY <1>3, ReceiveFacts
<1>5. HandsOnOnce(k, d, 2)
  <2> DEFINE n == 2
  <2>1. /\ n \in {2, 3} /\ Short(k.history, n) /\ HistorySize > 2
        /\ d.ch = Reliable => d.cseq \in 0 .. n - 1
    BY <1>1 DEF ServerOnce, UpOnce, NoDuplicates
  <2> HIDE DEF n, k
  <2>2. HandsOnOnce(k, d, n)
    BY <1>3, <2>1, ReceiveOnce
  <2> QED BY <2>2 DEF n
<1>6. /\ Short(q.history, 2) /\ \A x : Remembers(k.history, x) => Remembers(q.history, x)
      /\ d.ch = Reliable /\ Result(k, d) # << >> =>
           ~Remembers(k.history, d.cseq) /\ Remembers(q.history, d.cseq)
  BY <1>5 DEF HandsOnOnce
<1> HIDE DEF q, s
<1>7. /\ s.conn = q /\ s.state = conns[c].state /\ s.id = conns[c].id
      /\ s.entity = conns[c].entity /\ s.salt = c
      /\ DOMAIN s = {"id", "state", "salt", "entity", "conn"}
      /\ s.state \in {"Connecting", "Connected"}
  BY <1>1, <1>2 DEF ServerOf
<1>8. \A m : Current(conns[c], m) => Current(s, m)
  BY <1>7 DEF Current
<1>9. ServerOnce(s, h)
  BY <1>1, <1>4, <1>6, <1>7, <1>8 DEF ServerOnce
<1>10. ASSUME d.msg.kind = "ChallengeResponse", Result(k, d) # << >>
       PROVE  s.state = "Connecting" /\ Remembers(q.history, 0) /\ Remembers(h, 0)
  <2>1. d.ch = Reliable /\ d.cseq = 0 /\ Remembers(h, 0)
    BY <1>1, <1>10, UpKinds DEF UpOnce
  <2>2. ~Remembers(k.history, 0) /\ Remembers(q.history, 0)
    BY <1>6, <1>10, <2>1
  <2> QED BY <1>1, <1>7, <2>1, <2>2 DEF ServerOnce
<1> QED BY <1>1, <1>4, <1>7, <1>8, <1>9, <1>10 DEF s

\* OnceServes: a datagram from an address with a connection.
LEMMA OnceServes ==
  ASSUME SessionInv, OnceInv, NoDuplicates, NEW c \in Clients, NEW d \in up[c],
         ServerReceive(c, d)
  PROVE  OnceInv'
<1> DEFINE s == Processed(c, d)
           h == client[c].conn.history
<1>1. /\ c \in DOMAIN conns /\ UNCHANGED <<client, up>> /\ OnceOf(c)
      /\ UpMsg(c, d, nextId) /\ MayArrive(Up(c), d)
  BY DEF ServerReceive, OnceInv, SessionInv, ClientsInv
<1>2. /\ DOMAIN s = {"id", "state", "salt", "entity", "conn"} /\ IsConn(s.conn)
      /\ s.state \in {"Connecting", "Connected"}
      /\ ServerOnce(s, h) /\ \A m \in down[c] : Current(s, m)
      /\ d.msg.kind = "ChallengeResponse" /\ Result(conns[c].conn, d) # << >> =>
           s.state = "Connecting" /\ Remembers(s.conn.history, 0) /\ Remembers(h, 0)
  BY <1>1, ServedOnce
<1>3. taken.once \subseteq taken'.once /\ TakenRequest(c, taken'.once)
  <2>1. taken.once \subseteq taken'.once
    BY Takes DEF ServerReceive
  <2> QED BY <1>1, <2>1 DEF OnceOf, Admitted, TakenRequest
<1>4. \/ d.msg.kind = "ConnectionRequest"
      \/ /\ d.msg.kind = "ChallengeResponse" /\ HandleChallengeResponse(c, s, d.msg)
         /\ Result(conns[c].conn, d) # << >>
      \/ ServerSends(c, s, Pong, Unreliable)
      \/ RemoveConnection(c) /\ UNCHANGED down
      \/ PutConnection(c, s) /\ UNCHANGED down
  BY DEF ServerReceive, HandlePayload, Processed
<1> HIDE DEF s
<1>5. CASE d.msg.kind = "ConnectionRequest"
  <2>1. d.msg = Request(c)
    BY <1>1, <1>5, UpKinds
  <2> QED BY <1>1, <2>1, NoSecondRequest
<1>6. CASE PutConnection(c, s) /\ UNCHANGED down
  <2> DEFINE D == {}
  <2>1. /\ \A m \in D : DownOnce(m, h) /\ Current(s, m)
        /\ down' = [down EXCEPT ![c] = @ \cup D] \/ UNCHANGED down
    BY <1>6
  <2> HIDE DEF D
  <2> QED BY <1>1, <1>2, <1>3, <1>6, <2>1, OncePuts
<1>7. CASE ServerSends(c, s, Pong, Unreliable)
  <2>1. Pong.kind = "Pong"
    BY DEF Pong
  <2> QED BY <1>1, <1>2, <1>3, <1>7, <2>1, OnceServerSends DEF ServerOnce, Unreliable, Reliable
<1>8. CASE RemoveConnection(c) /\ UNCHANGED down
  <2> DEFINE D == {}
  <2>1. /\ \A m \in D : DownOnce(m, h)
        /\ down' = [down EXCEPT ![c] = @ \cup D] \/ UNCHANGED down
    BY <1>8
  <2>2. /\ \A a \in Clients \ {c} : /\ a \in DOMAIN conns' <=> a \in DOMAIN conns
                                    /\ a \in DOMAIN conns => conns'[a] = conns[a]
        /\ c \notin DOMAIN conns'
    BY <1>8 DEF RemoveConnection
  <2>3. \E p \in up[c] : p.msg = Request(c) /\ <<Up(c), p>> \in taken'.once
    BY <1>3 DEF TakenRequest
  <2> HIDE DEF D
  <2> QED BY <1>1, <1>3, <2>1, <2>2, <2>3, OnceServer
<1>9. CASE /\ d.msg.kind = "ChallengeResponse" /\ HandleChallengeResponse(c, s, d.msg)
           /\ Result(conns[c].conn, d) # << >>
  <2>1. s.state = "Connecting" /\ Remembers(s.conn.history, 0) /\ Remembers(h, 0)
    BY <1>2, <1>9
  <2>2. CASE PutConnection(c, s) /\ UNCHANGED down
    BY <1>6, <2>2
  <2>3. CASE ServerSends(c, [s EXCEPT !.state = "Connected", !.entity = nextEntity],
                         Accepted(s.id, nextEntity), Reliable)
    <3> DEFINE t == [s EXCEPT !.state = "Connected", !.entity = nextEntity]
               msg == Accepted(s.id, nextEntity)
    <3>1. /\ DOMAIN t = {"id", "state", "salt", "entity", "conn"} /\ t.conn = s.conn
          /\ t.state = "Connected" /\ t.id = s.id /\ t.entity = nextEntity
      BY <1>2
    <3>2. ServerSends(c, t, msg, Reliable)
      BY <2>3
    <3>3. msg.kind = "ConnectionAccepted" /\ msg = Accepted(t.id, t.entity)
      BY <3>1 DEF Accepted
    <3> HIDE DEF t, msg
    <3>4. \A m \in down[c] : Current(t, m)
      BY <1>2, <2>1 DEF Current
    <3>5. \A m \in t.conn.pending : DownOnce(m, h) /\ Current(t, m)
      BY <1>2, <2>1, <3>1 DEF ServerOnce, Current
    <3>6. Short(t.conn.history, 2) /\ t.conn.nextSeq[Reliable] = 1
      BY <1>2, <2>1, <3>1 DEF ServerOnce
    <3> QED BY <1>1, <1>2, <1>3, <2>1, <3>1, <3>2, <3>3, <3>4, <3>5, <3>6, OnceServerSends
            DEF Unreliable, Reliable
  <2> QED BY <1>9, <2>2, <2>3 DEF HandleChallengeResponse
<1> QED BY <1>4, <1>5, <1>6, <1>7, <1>8, <1>9

\* OnceOthers: resends, kicks and timeouts.
LEMMA OnceOthers ==
  ASSUME SessionInv, OnceInv, NoDuplicates, NEW c \in Clients,
         ServerResend(c) \/ KickClient(c) \/ CleanupTimedOut(c)
  PROVE  OnceInv'
<1> DEFINE k == conns[c].conn
           h == client[c].conn.history
<1>1. /\ c \in DOMAIN conns /\ UNCHANGED <<client, up>> /\ OnceOf(c) /\ taken.once \subseteq taken'.once
      /\ ServerOf(c, conns[c], nextId, nextEntity) /\ ServerOnce(conns[c], h)
      /\ \A m \in down[c] : Current(conns[c], m)
  BY DEF ServerResend, KickClient, CleanupTimedOut, OnceInv, OnceOf, SessionInv, ServerInv
<1>2. TakenRequest(c, taken'.once) /\ \E p \in up[c] : p.msg = Request(c) /\ <<Up(c), p>> \in taken'.once
  BY <1>1 DEF OnceOf, Admitted, TakenRequest
<1>3. CASE ServerResend(c)
  <2> DEFINE room == MaxWire - k.sendSeq
  <2>1. PICK due \in DueLists(k.pending, room) :
          /\ conns' = [conns EXCEPT ![c].conn = CollectResends(@, due)]
          /\ down' = [down EXCEPT ![c] = @ \cup ResentPackets(conns[c].conn, due)]
    BY <1>3 DEF ServerResend
  <2> DEFINE q == CollectResends(k, due)
             D == ResentPackets(k, due)
             s == [conns[c] EXCEPT !.conn = q]
  <2>2. PutConnection(c, s) /\ down' = [down EXCEPT ![c] = @ \cup D]
    BY <1>1, <2>1 DEF PutConnection
  <2>3. SentAgain(k, due)
    <3>1. IsConn(k)
      BY <1>1 DEF ServerOf
    <3> HIDE DEF room, k
    <3> QED BY <3>1, SendsAgain
  <2>4. /\ q.history = k.history /\ q.pending = k.pending /\ q.nextSeq = k.nextSeq
        /\ \A d \in D : \E m \in k.pending : d.ch = m.ch /\ d.cseq = m.cseq /\ d.msg = m.msg
    BY <2>3 DEF SentAgain
  <2> HIDE DEF q, D
  <2>5. /\ s.conn = q /\ s.state = conns[c].state /\ s.id = conns[c].id
        /\ s.entity = conns[c].entity
    BY <1>1 DEF ServerOf
  <2> HIDE DEF s
  <2>6. \A m : Current(conns[c], m) => Current(s, m)
    BY <2>5 DEF Current
  <2>7. ServerOnce(s, h)
    BY <1>1, <2>4, <2>5, <2>6 DEF ServerOnce
  <2>8. \A m \in D : DownOnce(m, h) /\ Current(s, m)
    <3>1. \A m \in k.pending : DownOnce(m, h) /\ Current(s, m)
      BY <2>4, <2>5, <2>7 DEF ServerOnce
    <3> HIDE DEF k, h
    <3> QED BY <2>4, <3>1 DEF DownOnce, Current
  <2>9. \A m \in down[c] : Current(s, m)
    BY <1>1, <2>6
  <2> QED BY <1>1, <1>2, <2>2, <2>7, <2>8, <2>9, OncePuts
<1>4. CASE KickClient(c) \/ CleanupTimedOut(c)
  <2> DEFINE d == SentPacket(k, Reliable, Disconnect)
             D == {d}
  <2>1. d.ch = Reliable /\ d.msg = Disconnect /\ d.cseq = k.nextSeq[Reliable]
    BY <1>1, SendFacts DEF ServerOf
  <2>2. /\ down' = [down EXCEPT ![c] = @ \cup D] \/ UNCHANGED down
        /\ RemoveConnection(c)
    BY <1>4 DEF KickClient, CleanupTimedOut
  <2> HIDE DEF d
  <2>3. DownOnce(d, h)
    <3>1. k.nextSeq[Reliable] \in 0 .. 2
      BY <1>1 DEF ServerOnce
    <3> QED BY <2>1, <3>1 DEF DownOnce, Disconnect
  <2>4. \A m \in D : DownOnce(m, h)
    BY <2>3
  <2>5. /\ \A a \in Clients \ {c} : /\ a \in DOMAIN conns' <=> a \in DOMAIN conns
                                    /\ a \in DOMAIN conns => conns'[a] = conns[a]
        /\ c \notin DOMAIN conns'
    BY <2>2 DEF RemoveConnection
  <2> HIDE DEF D
  <2> QED BY <1>1, <1>2, <2>2, <2>4, <2>5, OnceServer
<1> QED BY <1>3, <1>4

-----------------------------------------------------------------------------
\* OnceAlways: on a network without duplicates the request of a client is
\* taken once, challenged once and answered once.
LEMMA OnceAlways ==
  ASSUME NoDuplicates
  PROVE  Spec => []OnceInv
<1>1. Init => OnceInv
  <2> SUFFICES ASSUME Init, NEW c \in Clients PROVE OnceOf(c)
    BY DEF OnceInv
  <2>1. /\ client[c] = NewClient(c) /\ up[c] = {} /\ down[c] = {} /\ DOMAIN conns = {}
    BY DEF Init
  <2>2. /\ client[c].phase = "off" /\ client[c].state = "Disconnected"
        /\ client[c].conn = NewConnection
    BY <2>1 DEF NewClient
  <2>3. ClientOnce(client[c])
    BY <2>2, NewConnFacts DEF ClientOnce, Short, AnswersOnce
  <2> QED BY <2>1, <2>2, <2>3 DEF OnceOf, OneRequest, Admitted, Told
<1>2. SessionInv /\ OnceInv /\ [Next]_vars => OnceInv'
  <2> SUFFICES ASSUME SessionInv, OnceInv, [Next]_vars PROVE OnceInv'
    OBVIOUS
  <2>1. CASE UNCHANGED vars
    <3>1. UNCHANGED <<client, conns, up, down, taken>>
      BY <2>1 DEF vars, serverVars
    <3>2. ASSUME NEW c \in Clients PROVE OnceOf(c)'
      <4>1. OnceOf(c)
        BY DEF OnceInv
      <4> QED BY <3>1, <4>1 DEF OnceOf, OneRequest, Admitted, Told, Up
    <3> QED BY <3>2 DEF OnceInv
  <2>2. ASSUME NEW c \in Clients, ClientStep(c) PROVE OnceInv'
    BY <2>2, OnceStep
  <2>3. ASSUME NEW c \in Clients, ServerStep(c) PROVE OnceInv'
    <3>1. CASE \E d \in up[c] : ServerReceiveUnknown(c, d) \/ ServerReceive(c, d)
      BY <3>1, OnceUnknown, OnceServes
    <3>2. CASE ServerResend(c) \/ KickClient(c) \/ CleanupTimedOut(c)
      BY <3>2, OnceOthers
    <3> QED BY <2>3, <3>1, <3>2 DEF ServerStep
  <2> QED BY <2>1, <2>2, <2>3 DEF Next
<1> QED BY <1>1, <1>2, SessionAlways, PTL DEF Spec

\* IdsAlways: while both ends are connected they agree on the client id and on
\* the player, on a network that loses, delays and reorders but does not
\* duplicate.
THEOREM IdsAlways ==
  ASSUME NoDuplicates
  PROVE  Spec => []IdsAgree
<1>1. SessionInv /\ OnceInv => IdsAgree
  <2> SUFFICES ASSUME SessionInv, OnceInv, NEW c \in DOMAIN conns,
                      client[c].state = "Connected", conns[c].state = "Connected"
               PROVE  client[c].clientId = conns[c].id /\ client[c].entity = conns[c].entity
    BY DEF IdsAgree
  <2>1. c \in Clients
    BY DEF SessionInv, ServerInv
  <2>2. OnceOf(c)
    BY <2>1 DEF OnceInv
  <2>3. PICK d \in down[c] : d.msg = Accepted(client[c].clientId, client[c].entity)
    BY <2>2 DEF OnceOf, Told
  <2>4. Current(conns[c], d)
    BY <2>2 DEF OnceOf
  <2>5. d.msg.kind = "ConnectionAccepted" /\ d.msg = Accepted(conns[c].id, conns[c].entity)
    BY <2>3, <2>4 DEF Current, Accepted
  <2> QED BY <2>3, <2>5 DEF Accepted
<1> QED BY <1>1, SessionAlways, OnceAlways, PTL

\* NeverRegresses: no late or resent challenge throws a connected client back
\* into the handshake (handle_challenge), on such a network.
THEOREM NeverRegresses ==
  ASSUME NoDuplicates
  PROVE  Spec => NoRegress
<1>1. ASSUME SessionInv, OnceInv, [Next]_vars, NEW c \in Clients, client[c].state = "Connected"
      PROVE  client'[c].state \in {"Connected", "Disconnected"}
  <2>1. CASE UNCHANGED client
    BY <1>1, <2>1
  <2>2. ASSUME NEW a \in Clients, a # c, ClientStep(a)
        PROVE  client'[c].state \in {"Connected", "Disconnected"}
    <3>1. \E r : client' = [client EXCEPT ![a] = r]
      <4>1. ASSUME NEW d \in down[a], ClientReceive(a, d)
            PROVE  \E r : client' = [client EXCEPT ![a] = r]
        BY <4>1 DEF ClientReceive, HandleChallenge, ClientSends
      <4>2. CASE Connect(a) \/ ClientPing(a)
        BY <4>2 DEF Connect, ClientSends, ClientPing
      <4>3. CASE ClientResend(a) \/ ClientTimeout(a)
        BY <4>3 DEF ClientResend, ClientTimeout
      <4>4. CASE Launch(a) \/ Leave(a) \/ Crash(a)
        BY <4>4 DEF Launch, Leave, ClientSends, Crash
      <4> QED BY <2>2, <4>1, <4>2, <4>3, <4>4 DEF ClientStep
    <3>2. client'[c] = client[c]
      BY <1>1, <2>2, <3>1 DEF SessionInv, ClientsInv
    <3> QED BY <1>1, <3>2
  <2>3. CASE ClientStep(c)
    <3>1. /\ DOMAIN client = Clients /\ ClientOf(c, client[c], nextId, nextEntity) /\ OnceOf(c)
      BY <1>1 DEF SessionInv, ClientsInv, OnceInv
    <3>2. ASSUME NEW d \in down[c], ClientReceive(c, d)
          PROVE  client'[c].state \in {"Connected", "Disconnected"}
      <4> DEFINE k == client[c].conn
                 cl == [client[c] EXCEPT !.conn = ProcessPacket(@, d)]
      <4>1. ~(d.msg.kind = "ConnectionChallenge" /\ Result(k, d) # << >>)
        <5>1. PICK x \in down[c] : x.msg = Accepted(client[c].clientId, client[c].entity)
          BY <1>1, <3>1 DEF OnceOf, Told
        <5>2. DownOnce(x, k.history)
          BY <3>1 DEF OnceOf
        <5>3. Remembers(k.history, 0)
          BY <5>1, <5>2 DEF DownOnce, Accepted
        <5> QED BY <1>1, <5>3, ReceivedOnce DEF NoDuplicates
      <4>2. /\ \/ client' = [client EXCEPT ![c] = cl]
               \/ client' = [client EXCEPT ![c] = ClientAfter(cl, d.msg)]
                  /\ d.msg.kind # "ConnectionChallenge"
            /\ cl.state = "Connected" /\ ClientOf(c, cl, nextId, nextEntity)
        BY <1>1, <3>1, <3>2, <4>1, ProcessedOf DEF ClientReceive, ClientOf
      <4>3. DownMsg(c, d, nextId, nextEntity)
        BY <1>1, ProcessedOf
      <4> HIDE DEF cl
      <4>4. CASE client' = [client EXCEPT ![c] = cl]
        BY <3>1, <4>2, <4>4
      <4>5. CASE client' = [client EXCEPT ![c] = ClientAfter(cl, d.msg)]
                 /\ d.msg.kind # "ConnectionChallenge"
        <5>1. d.msg.kind \in {"Pong", "ConnectionDenied", "Disconnect", "ConnectionAccepted"}
          BY <4>3, <4>5, DownKinds
        <5>2. ClientAfter(cl, d.msg).state \in {"Connected", "Disconnected"}
          BY <4>2, <5>1 DEF ClientAfter, Reset, ClientOf
        <5> QED BY <3>1, <4>5, <5>2
      <4> QED BY <4>2, <4>4, <4>5
    <3>3. ASSUME NEW ch, NEW msg, NEW r, ClientSends(c, r, ch, msg), ClientOf(c, r, nextId, nextEntity)
          PROVE  client'[c].state = r.state
      BY <3>1, <3>3 DEF ClientSends, Sending, ClientOf
    <3>4. ~Connect(c)
      <4>1. client[c].phase # "off"
        <5>1. \E d \in down[c] : TRUE
          BY <1>1, <3>1 DEF OnceOf, Told
        <5>2. up[c] # {}
          BY <3>1, <5>1 DEF OnceOf, Admitted
        <5> QED BY <3>1, <5>2 DEF OnceOf, OneRequest
      <4> QED BY <4>1 DEF Connect
    <3>5. CASE ClientPing(c)
      BY <1>1, <3>1, <3>3, <3>5 DEF ClientPing
    <3>6. CASE ClientResend(c) \/ Launch(c)
      BY <1>1, <3>1, <3>6 DEF ClientResend, Launch, ClientOf
    <3>7. CASE ClientTimeout(c) \/ Crash(c)
      BY <3>1, <3>7 DEF ClientTimeout, Crash, Reset, ClientOf
    <3>8. CASE Leave(c)
      <4> DEFINE r == [Reset(client[c]) EXCEPT !.phase = "gone"]
      <4>1. ClientOf(c, r, nextId, nextEntity) /\ r.state = "Disconnected"
        <5>1. nextId \in Nat \ {0} /\ nextEntity \in Nat \ {0}
          BY <1>1, SessionAssumption DEF SessionInv, ServerInv
        <5>2. ClientOf(c, r, nextId, nextEntity)
          BY <3>1, <5>1, ResetOf
        <5> QED BY <3>1, <5>2 DEF ClientOf, Reset
      <4>2. ClientSends(c, r, Reliable, Disconnect) \/ client' = [client EXCEPT ![c] = r]
        BY <3>8 DEF Leave
      <4> HIDE DEF r
      <4> QED BY <3>1, <3>3, <4>1, <4>2
    <3> QED BY <2>3, <3>2, <3>4, <3>5, <3>6, <3>7, <3>8 DEF ClientStep
  <2>4. ASSUME NEW a \in Clients, ServerStep(a) PROVE UNCHANGED client
    BY <2>4 DEF ServerStep, ServerReceiveUnknown, ServerReceive, ServerResend, KickClient,
                CleanupTimedOut
  <2> QED BY <1>1, <2>1, <2>2, <2>3, <2>4 DEF Next, vars
<1>2. SessionInv /\ OnceInv /\ [Next]_vars =>
        [\A c \in Clients : client[c].state = "Connected" =>
           client'[c].state \in {"Connected", "Disconnected"}]_vars
  BY <1>1
<1> QED BY <1>2, SessionAlways, OnceAlways, PTL DEF Spec, NoRegress

\* OrphansOfTimeouts: a player is left without a connection only by
\* cleanup_timed_out, on such a network; the other ways in which a connection
\* ends or changes take its player with it.
THEOREM OrphansOfTimeouts ==
  ASSUME NoDuplicates
  PROVE  Spec => OnlyTimeoutsOrphan
<1> DEFINE Step == ~(Orphans' \subseteq Orphans) => \E c \in Clients : CleanupTimedOut(c)
<1>1. ASSUME SessionInv, OnceInv, [Next]_vars
      PROVE  Step
  <2>1. CASE UNCHANGED <<conns, entities>>
    BY <2>1 DEF Orphans
  <2>2. ASSUME NEW c \in Clients, ClientStep(c) PROVE Step
    BY <2>1, <2>2, ClientOwned DEF serverVars
  <2>3. ASSUME NEW c \in Clients, NEW s, PutConnection(c, s),
               entities' \subseteq entities \cup {s.entity},
               c \in DOMAIN conns => conns[c].entity \in {s.entity, None}
        PROVE  Orphans' \subseteq Orphans
    <3>1. /\ DOMAIN conns' = DOMAIN conns \cup {c} /\ conns'[c] = s
          /\ \A a \in DOMAIN conns \ {c} : conns'[a] = conns[a]
      BY <2>3 DEF PutConnection
    <3>2. None \notin entities
      BY <1>1 DEF SessionInv, ServerInv, None
    <3> SUFFICES ASSUME NEW e \in Orphans' PROVE e \in Orphans
      OBVIOUS
    <3>3. e \in entities' /\ \A a \in DOMAIN conns' : conns'[a].entity # e
      BY DEF Orphans
    <3>4. e \in entities
      BY <2>3, <3>1, <3>3
    <3>5. ASSUME NEW a \in DOMAIN conns PROVE conns[a].entity # e
      BY <2>3, <3>1, <3>2, <3>3, <3>4
    <3> QED BY <3>4, <3>5 DEF Orphans
  <2>4. ASSUME NEW c \in DOMAIN conns, NEW s, s.entity = conns[c].entity,
               RemoveConnection(c), Despawn(s)
        PROVE  Orphans' \subseteq Orphans
    <3>1. DOMAIN conns' = DOMAIN conns \ {c} /\ \A a \in DOMAIN conns' : conns'[a] = conns[a]
      BY <2>4 DEF RemoveConnection
    <3>2. entities' = entities \ {conns[c].entity}
      BY <2>4 DEF Despawn
    <3> SUFFICES ASSUME NEW e \in Orphans' PROVE e \in Orphans
      OBVIOUS
    <3>3. e \in entities' /\ \A a \in DOMAIN conns' : conns'[a].entity # e
      BY DEF Orphans
    <3>4. ASSUME NEW a \in DOMAIN conns PROVE conns[a].entity # e
      BY <3>1, <3>2, <3>3
    <3> QED BY <3>2, <3>3, <3>4 DEF Orphans
  <2>5. ASSUME NEW c \in Clients, NEW d \in up[c], ServerReceiveUnknown(c, d) PROVE Step
    <3>1. CASE UNCHANGED <<conns, entities>>
      BY <2>1, <3>1
    <3>2. CASE SendChallenge(c, NewServerConnection(d.msg.salt))
      <4> DEFINE s == Sending(NewServerConnection(d.msg.salt), Reliable,
                              Challenge(NewServerConnection(d.msg.salt).salt, NewServerConnection(d.msg.salt).id))
      <4>1. PutConnection(c, s) /\ entities' \subseteq entities \cup {s.entity} /\ c \notin DOMAIN conns
        BY <2>5, <3>2 DEF SendChallenge, ServerSends, ServerReceiveUnknown
      <4> HIDE DEF s
      <4> QED BY <2>3, <4>1
    <3> QED BY <2>5, <3>1, <3>2 DEF ServerReceiveUnknown, serverVars
  <2>6. ASSUME NEW c \in Clients, NEW d \in up[c], ServerReceive(c, d) PROVE Step
    <3> DEFINE s == Processed(c, d)
    <3>1. c \in DOMAIN conns
      BY <2>6 DEF ServerReceive
    <3>2. /\ DOMAIN s = {"id", "state", "salt", "entity", "conn"}
          /\ s.state = conns[c].state /\ s.entity = conns[c].entity
          /\ d.msg.kind = "ChallengeResponse" /\ Result(conns[c].conn, d) # << >> =>
               s.state = "Connecting"
      BY <1>1, <3>1, ServedOnce
    <3>3. ASSUME NEW ch, NEW msg, ServerSends(c, s, msg, ch), UNCHANGED entities
          PROVE  Step
      <4> DEFINE t == Sending(s, ch, msg)
      <4>1. /\ PutConnection(c, t) /\ conns[c].entity \in {t.entity, None}
            /\ entities' \subseteq entities \cup {t.entity}
        BY <3>2, <3>3 DEF ServerSends, Sending
      <4> HIDE DEF t
      <4> QED BY <2>3, <4>1
    <3>4. \/ SendChallenge(c, s)
          \/ /\ d.msg.kind = "ChallengeResponse" /\ HandleChallengeResponse(c, s, d.msg)
             /\ Result(conns[c].conn, d) # << >>
          \/ ServerSends(c, s, Pong, Unreliable) /\ UNCHANGED entities
          \/ RemoveConnection(c) /\ Despawn(s)
          \/ PutConnection(c, s) /\ UNCHANGED entities
      BY <2>6 DEF ServerReceive, HandlePayload, Processed
    <3> HIDE DEF s
    <3>5. CASE SendChallenge(c, s)
      BY <3>3, <3>5 DEF SendChallenge
    <3>6. CASE ServerSends(c, s, Pong, Unreliable) /\ UNCHANGED entities
      BY <3>3, <3>6
    <3>7. CASE RemoveConnection(c) /\ Despawn(s)
      BY <2>4, <3>1, <3>2, <3>7
    <3>8. CASE PutConnection(c, s) /\ UNCHANGED entities
      <4>1. conns[c].entity \in {s.entity, None} /\ entities' \subseteq entities \cup {s.entity}
        BY <3>2, <3>8
      <4> QED BY <2>3, <3>8, <4>1
    <3>9. CASE /\ d.msg.kind = "ChallengeResponse" /\ Result(conns[c].conn, d) # << >>
               /\ ServerSends(c, [s EXCEPT !.state = "Connected", !.entity = nextEntity],
                              Accepted(s.id, nextEntity), Reliable)
               /\ entities' = entities \cup {nextEntity}
      <4> DEFINE r == [s EXCEPT !.state = "Connected", !.entity = nextEntity]
                 t == Sending(r, Reliable, Accepted(s.id, nextEntity))
      <4>1. PutConnection(c, t)
        BY <3>9 DEF ServerSends
      <4>2. t.entity = nextEntity
        BY <3>2 DEF Sending
      <4>3. conns[c].entity = None
        <5>1. ServerOf(c, conns[c], nextId, nextEntity)
          BY <1>1, <3>1 DEF SessionInv, ServerInv
        <5> QED BY <3>2, <3>9, <5>1 DEF ServerOf
      <4> HIDE DEF t
      <4>4. conns[c].entity \in {t.entity, None} /\ entities' \subseteq entities \cup {t.entity}
        BY <3>9, <4>2, <4>3
      <4> QED BY <2>3, <4>1, <4>4
    <3> QED BY <3>4, <3>5, <3>6, <3>7, <3>8, <3>9 DEF HandleChallengeResponse
  <2>7. ASSUME NEW c \in Clients, ServerResend(c) PROVE Step
    <3>1. PICK due : conns' = [conns EXCEPT ![c].conn = CollectResends(@, due)]
      BY <2>7 DEF ServerResend
    <3> DEFINE s == [conns[c] EXCEPT !.conn = CollectResends(@, due)]
    <3>2. c \in DOMAIN conns /\ UNCHANGED entities
      BY <2>7 DEF ServerResend
    <3>3. PutConnection(c, s)
      BY <3>1, <3>2 DEF PutConnection
    <3>4. s.entity = conns[c].entity
      <4>1. ServerOf(c, conns[c], nextId, nextEntity)
        BY <1>1, <3>2 DEF SessionInv, ServerInv
      <4> QED BY <4>1 DEF ServerOf
    <3> HIDE DEF s
    <3>5. conns[c].entity \in {s.entity, None} /\ entities' \subseteq entities \cup {s.entity}
      BY <3>2, <3>4
    <3> QED BY <2>3, <3>3, <3>5
  <2>8. ASSUME NEW c \in Clients, KickClient(c) PROVE Step
    <3>1. c \in DOMAIN conns /\ RemoveConnection(c) /\ Despawn(conns[c])
      BY <2>8 DEF KickClient
    <3> QED BY <2>4, <3>1
  <2>9. ASSUME NEW c \in Clients, ServerStep(c) PROVE Step
    BY <2>5, <2>6, <2>7, <2>8, <2>9 DEF ServerStep
  <2>10. CASE UNCHANGED vars
    BY <2>1, <2>10 DEF vars, serverVars
  <2> QED BY <1>1, <2>2, <2>9, <2>10 DEF Next
<1>2. SessionInv /\ OnceInv /\ [Next]_vars =>
        [~(Orphans' \subseteq Orphans) => \E c \in Clients : CleanupTimedOut(c)]_vars
  BY <1>1
<1> QED BY <1>2, SessionAlways, OnceAlways, PTL DEF Spec, OnlyTimeoutsOrphan
==============================================================================

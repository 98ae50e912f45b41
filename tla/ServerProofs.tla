---------------------------- MODULE ServerProofs ----------------------------
(***************************************************************************)
(* Proofs about Server: for any number of clients, any capacity and any    *)
(* step time the connections stay well formed and the clock is accounted   *)
(* for (KeepsUpAlways), every session ends once (EndsOnceAlways), a kick   *)
(* hits the session that was chosen (KicksAlways), and a simulation        *)
(* changes only to what was saved for its session (SettingsAlways).        *)
(*                                                                         *)
(* The inductive invariant ServerInv ties the pieces together.  ConnsInv:  *)
(* ids are assigned once, so that removing by id removes one session;      *)
(* EndsInv: a session has ended exactly when its connection is gone;       *)
(* LoopInv: what is put off is due after now once it has been drained;     *)
(* ConsoleInv: what the panel holds is a valid simulation; KickInv: a      *)
(* request is resolved to an id when the key is pressed, and the loop      *)
(* takes it before the next key, so that at most one chosen session still  *)
(* has its connection and console.kick is its id.                          *)
(***************************************************************************)
EXTENDS Server, Facts

Conn(n) == [id : 1 .. n - 1, addr : Addrs, connected : BOOLEAN, sims : BothSims]

\* Distinct: no two connections share an id or an address
Distinct(cs) ==
  \A i, j \in DOMAIN cs : cs[i].id = cs[j].id \/ cs[i].addr = cs[j].addr => i = j

\* ConnsInv: the connections are well formed
ConnsInv ==
  /\ nextId \in 1 .. MaxIds + 1
  /\ conns \in Seq(Conn(nextId))
  /\ Len(conns) <= MaxClients
  /\ Distinct(conns)

Reasons == {"Graceful", "Timeout", "Kicked"}

\* EndsInv: a session that was begun has ended once or has a connection
EndsInv ==
  /\ ended \in [1 .. MaxIds -> Seq(Reasons)]
  /\ \A id \in 1 .. MaxIds : Len(ended[id]) = IF id < nextId /\ id \notin Ids THEN 1 ELSE 0

\* SimsKept: no connection gets another simulation
SimsKept == \A c \in ToSet(conns), d \in ToSet(conns') : c.id = d.id => c.sims = d.sims

\* EndsGrow: what has ended has ended, and no session is kicked
EndsGrow ==
  \A id \in 1 .. MaxIds :
    /\ ended[id] # << >> => ended'[id] # << >>
    /\ "Kicked" \in ToSet(ended'[id]) => "Kicked" \in ToSet(ended[id])
-----------------------------------------------------------------------------
(* The connections.                                                        *)

\* ConnsFacts: the connections by their positions and as a set.
LEMMA ConnsFacts ==
  ASSUME ConnsInv
  PROVE  /\ Len(conns) \in Nat /\ DOMAIN conns = 1 .. Len(conns)
         /\ MaxClients \in Nat /\ MaxIds \in Nat /\ nextId \in Nat
         /\ \A i \in DOMAIN conns :
              /\ conns[i] \in Conn(nextId)
              /\ conns[i].id \in 1 .. nextId - 1 /\ conns[i].addr \in Addrs
              /\ conns[i].id \in Ids
              /\ conns[i].sims \in BothSims
         /\ Ids \subseteq 1 .. nextId - 1
         /\ \A c, d \in ToSet(conns) : c.id = d.id => c = d
<1>1. MaxClients \in Nat /\ MaxIds \in Nat
  BY ServerAssumption
<1>2. nextId \in Nat
  BY <1>1 DEF ConnsInv
<1>3. Len(conns) \in Nat /\ DOMAIN conns = 1 .. Len(conns) /\ \A i \in DOMAIN conns : conns[i] \in Conn(nextId)
  BY DEF ConnsInv
<1>4. \A i \in DOMAIN conns : conns[i].id \in 1 .. nextId - 1 /\ conns[i].addr \in Addrs /\ conns[i].sims \in BothSims
  BY <1>3 DEF Conn
<1>5. \A i \in DOMAIN conns : conns[i].id \in Ids
  BY DEF Ids
<1>6. Ids \subseteq 1 .. nextId - 1
  BY <1>4 DEF Ids
<1>7. \A c, d \in ToSet(conns) : c.id = d.id => c = d
  BY DEF ToSet, ConnsInv, Distinct
<1> QED BY <1>1, <1>2, <1>3, <1>4, <1>5, <1>6, <1>7

\* ForgetConns: removing connections removes their ids and nothing else.
LEMMA ForgetConns ==
  ASSUME ConnsInv, NEW ids, NEW reason, Forget(ids, reason), nextId' = nextId
  PROVE  /\ ConnsInv'
         /\ Ids' = Ids \ ids
         /\ ToSet(conns') \subseteq ToSet(conns)
         /\ SimsKept
<1> DEFINE I == {i \in DOMAIN conns : conns[i].id \notin ids}
<1>1. conns' = Retain(conns, I)
  BY DEF Forget
<1>2. I \in SUBSET DOMAIN conns /\ I \in SUBSET (1 .. Len(conns)) /\ Len(conns) \in Nat
  BY ConnsFacts
<1>3. \A i \in DOMAIN conns : i \in I <=> conns[i].id \notin ids
  OBVIOUS
<1> HIDE DEF I
<1>4. /\ DOMAIN conns' = 1 .. Cardinality(I) /\ Len(conns') = Cardinality(I) /\ Cardinality(I) \in 0 .. Len(conns)
      /\ \A k \in 1 .. Cardinality(I) : Place(I, k) \in I /\ conns'[k] = conns[Place(I, k)]
      /\ \A i \in I : Rank(I, i) \in 1 .. Cardinality(I) /\ conns'[Rank(I, i)] = conns[i]
      /\ \A k, l \in 1 .. Cardinality(I) : k < l => Place(I, k) < Place(I, l)
  BY <1>1, <1>2, RetainFacts
<1>5. conns' \in Seq(Conn(nextId))
  <2>1. conns \in Seq(Conn(nextId))
    BY DEF ConnsInv
  <2> QED BY <1>1, <1>2, <2>1, RetainSeq
<1>6. Distinct(conns')
  <2> SUFFICES ASSUME NEW k \in DOMAIN conns', NEW l \in DOMAIN conns',
                      conns'[k].id = conns'[l].id \/ conns'[k].addr = conns'[l].addr, k # l
               PROVE  FALSE
    BY DEF Distinct
  <2>1. Place(I, k) \in DOMAIN conns /\ Place(I, l) \in DOMAIN conns
    BY <1>2, <1>4
  <2>2. Place(I, k) = Place(I, l)
    BY <1>4, <2>1 DEF ConnsInv, Distinct
  <2>3. Place(I, k) \in Int
    BY <2>1, ConnsFacts
  <2>4. k \in Int /\ l \in Int /\ (k < l \/ l < k)
    BY <1>4
  <2>5. Place(I, k) < Place(I, l) \/ Place(I, l) < Place(I, k)
    BY <1>4, <2>4
  <2> QED BY <2>2, <2>3, <2>5
<1>7. ConnsInv'
  <2>1. Len(conns') <= MaxClients
    BY <1>2, <1>4, ConnsFacts DEF ConnsInv
  <2>2. Conn(nextId)' = Conn(nextId)
    BY DEF Conn, BothSims
  <2> QED BY <1>5, <1>6, <2>1, <2>2 DEF ConnsInv
<1>8. Ids' = Ids \ ids
  <2>1. ASSUME NEW k \in DOMAIN conns' PROVE conns'[k].id \in Ids \ ids
    <3>1. Place(I, k) \in I /\ Place(I, k) \in DOMAIN conns /\ conns'[k] = conns[Place(I, k)]
      BY <1>2, <1>4
    <3> QED BY <1>3, <3>1 DEF Ids
  <2>2. ASSUME NEW i \in DOMAIN conns, conns[i].id \notin ids
        PROVE  \E k \in DOMAIN conns' : conns'[k].id = conns[i].id
    <3>1. i \in I
      BY <1>3, <2>2
    <3> QED BY <1>4, <3>1
  <2>3. Ids' = {conns'[k].id : k \in DOMAIN conns'} /\ Ids = {conns[i].id : i \in DOMAIN conns}
    BY DEF Ids
  <2> QED BY <2>1, <2>2, <2>3
<1>9. ToSet(conns') \subseteq ToSet(conns)
  BY <1>2, <1>4 DEF ToSet
<1>10. SimsKept
  BY <1>9, ConnsFacts DEF SimsKept
<1> QED BY <1>7, <1>8, <1>9, <1>10

\* ForgetEnds: with connections that were there, each of them has ended now.
LEMMA ForgetEnds ==
  ASSUME ConnsInv, EndsInv, NEW ids \in SUBSET Ids, NEW reason \in Reasons,
         Forget(ids, reason), nextId' = nextId
  PROVE  /\ EndsInv'
         /\ \A id \in ids : ended'[id] = <<reason>>
         /\ \A id \in (1 .. MaxIds) \ ids : ended'[id] = ended[id]
         /\ reason # "Kicked" => EndsGrow
<1>1. ConnsInv' /\ Ids' = Ids \ ids /\ Ids \subseteq 1 .. nextId - 1 /\ nextId \in 1 .. MaxIds + 1
      /\ MaxIds \in Nat
  BY ForgetConns, ConnsFacts DEF ConnsInv
<1>2. ended' = [id \in 1 .. MaxIds |-> IF id \in ids THEN Append(ended[id], reason) ELSE ended[id]]
  BY DEF Forget, EndsInv
<1>3. \A id \in 1 .. MaxIds : ended[id] \in Seq(Reasons)
  BY DEF EndsInv
<1>4. \A id \in ids : id \in 1 .. MaxIds /\ id < nextId /\ id \in Ids
  BY <1>1
<1>5. ASSUME NEW id \in ids PROVE ended'[id] = <<reason>>
  <2>1. ended[id] = << >>
    BY <1>3, <1>4 DEF EndsInv
  <2>2. ended'[id] = Append(<< >>, reason)
    BY <1>2, <1>4, <2>1
  <2>3. Append(<< >>, reason) = <<reason>>
    OBVIOUS
  <2> QED BY <2>2, <2>3
<1>6. \A id \in (1 .. MaxIds) \ ids : ended'[id] = ended[id]
  BY <1>2
<1>7. ended' \in [1 .. MaxIds -> Seq(Reasons)]
  BY <1>2, <1>3
<1>8. ASSUME NEW id \in 1 .. MaxIds
      PROVE  Len(ended'[id]) = IF id < nextId' /\ id \notin Ids' THEN 1 ELSE 0
  <2>1. CASE id \in ids
    <3>1. ended'[id] = <<reason>> /\ id < nextId' /\ id \notin Ids'
      BY <1>1, <1>4, <1>5, <2>1
    <3>2. Len(<<reason>>) = 1
      OBVIOUS
    <3> QED BY <3>1, <3>2
  <2>2. CASE id \notin ids
    <3>1. ended'[id] = ended[id] /\ (id \in Ids' <=> id \in Ids)
      BY <1>1, <1>6, <2>2
    <3> QED BY <3>1 DEF EndsInv
  <2> QED BY <2>1, <2>2
<1>9. EndsInv'
  BY <1>7, <1>8 DEF EndsInv
<1>10. ASSUME reason # "Kicked" PROVE EndsGrow
  <2> SUFFICES ASSUME NEW id \in 1 .. MaxIds
               PROVE  /\ ended[id] # << >> => ended'[id] # << >>
                      /\ "Kicked" \in ToSet(ended'[id]) => "Kicked" \in ToSet(ended[id])
    BY DEF EndsGrow
  <2>1. CASE id \in ids
    <3>1. ended'[id] = <<reason>>
      BY <1>5, <2>1
    <3>2. ToSet(<<reason>>) = {reason}
      BY DEF ToSet
    <3> QED BY <1>10, <3>1, <3>2
  <2>2. CASE id \notin ids
    BY <1>6, <2>2
  <2> QED BY <2>1, <2>2
<1> QED BY <1>5, <1>6, <1>9, <1>10

\* SameConns: connections that keep their ids and addresses stay well formed.
LEMMA SameConns ==
  ASSUME ConnsInv, nextId' = nextId, NEW F \in [DOMAIN conns -> Conn(nextId)], conns' = F,
         \A i \in DOMAIN conns : F[i].id = conns[i].id /\ F[i].addr = conns[i].addr
  PROVE  ConnsInv' /\ Ids' = Ids
<1>1. DOMAIN conns' = DOMAIN conns /\ Len(conns') = Len(conns) /\ conns' \in Seq(Conn(nextId))
  BY ConnsFacts
<1>2. Conn(nextId)' = Conn(nextId)
  BY DEF Conn, BothSims
<1>3. Distinct(conns')
  BY <1>1 DEF ConnsInv, Distinct
<1>4. ConnsInv'
  BY <1>1, <1>2, <1>3 DEF ConnsInv
<1>5. Ids' = Ids
  BY <1>1 DEF Ids
<1> QED BY <1>4, <1>5

\* SameEnds: the sessions that have ended do not change with them.
LEMMA SameEnds ==
  ASSUME EndsInv, UNCHANGED <<nextId, ended>>, Ids' = Ids
  PROVE  EndsInv' /\ EndsGrow
BY DEF EndsInv, EndsGrow

\* SetCount: a sequence has no more elements than positions.
LEMMA SetCount ==
  ASSUME NEW X, NEW s \in Seq(X)
  PROVE  IsFiniteSet(ToSet(s)) /\ Cardinality(ToSet(s)) \in Nat /\ Cardinality(ToSet(s)) <= Len(s)
<1> DEFINE n == Len(s)
           T == ToSet(s)
<1>1. n \in Nat /\ IsFiniteSet(1 .. n) /\ Cardinality(1 .. n) = n
  <2>1. n \in Nat
    OBVIOUS
  <2> HIDE DEF n
  <2> QED BY <2>1, FS_Interval
<1>2. s \in Surjection(1 .. n, T)
  BY DEF ToSet, Surjection
<1> HIDE DEF n, T
<1>3. IsFiniteSet(T) /\ Cardinality(T) <= Cardinality(1 .. n)
  BY <1>1, <1>2, FS_Surjection
<1>4. Cardinality(T) \in Nat
  BY <1>3, FS_CardinalityType
<1> QED BY <1>1, <1>3, <1>4 DEF n, T

\* OrderFacts: an order of a finite set has each element once.
LEMMA OrderFacts ==
  ASSUME NEW S, IsFiniteSet(S), NEW s \in SetToSeqs(S)
  PROVE  /\ s \in Seq(S) /\ Len(s) = Cardinality(S) /\ DOMAIN s = 1 .. Cardinality(S)
         /\ \A i, j \in DOMAIN s : s[i] = s[j] => i = j
         /\ \A x \in S : \E i \in DOMAIN s : s[i] = x
<1> DEFINE n == Cardinality(S)
<1>1. n \in Nat /\ IsFiniteSet(1 .. n) /\ Cardinality(1 .. n) = n
  BY FS_CardinalityType, FS_Interval
<1>2. s \in [1 .. n -> S] /\ \A i, j \in 1 .. n : i # j => s[i] # s[j]
  BY DEF SetToSeqs
<1> HIDE DEF n
<1>3. s \in Injection(1 .. n, S)
  BY <1>2 DEF Injection, IsInjective
<1>4. Cardinality(1 .. n) = Cardinality(S)
  BY <1>1 DEF n
<1>5. s \in Surjection(1 .. n, S)
  BY <1>3, <1>4, FS_Injection
<1>6. \A x \in S : \E i \in 1 .. n : s[i] = x
  BY <1>5 DEF Surjection
<1>7. s \in Seq(S) /\ Len(s) = n /\ DOMAIN s = 1 .. n
  BY <1>1, <1>2
<1> QED BY <1>2, <1>6, <1>7 DEF n

\* NewConn: a new connection is one more, whatever the order.
LEMMA NewConn ==
  ASSUME ConnsInv, EndsInv, NEW a \in Addrs, ~Known(a), Len(conns) < MaxClients,
         nextId <= MaxIds, nextId' = nextId + 1, ended' = ended, global \in Sims,
         conns' \in SetToSeqs(ToSet(conns) \cup
           {[id |-> nextId, addr |-> a, connected |-> FALSE, sims |-> BothWays(global)]})
  PROVE  ConnsInv' /\ EndsInv' /\ EndsGrow /\ SimsKept
<1> DEFINE new == [id |-> nextId, addr |-> a, connected |-> FALSE, sims |-> BothWays(global)]
           S == ToSet(conns) \cup {new}
<1>1. IsFiniteSet(S) /\ Cardinality(S) \in Nat /\ Cardinality(S) <= MaxClients
  <2>1. IsFiniteSet(ToSet(conns)) /\ Cardinality(ToSet(conns)) \in Nat /\ Cardinality(ToSet(conns)) <= Len(conns)
    BY SetCount DEF ConnsInv
  <2> HIDE DEF new
  <2>2. IsFiniteSet(S) /\ Cardinality(S) \in {Cardinality(ToSet(conns)), Cardinality(ToSet(conns)) + 1}
    BY <2>1, FS_AddElement
  <2>3. Len(conns) \in Nat /\ MaxClients \in Nat
    BY ConnsFacts
  <2> QED BY <2>1, <2>2, <2>3
<1>2. new \in Conn(nextId + 1) /\ \A c \in ToSet(conns) : c \in Conn(nextId + 1) /\ c.id < nextId /\ c.addr # a
  <2>1. nextId \in Nat \ {0}
    BY DEF ConnsInv
  <2>2. BothWays(global) \in BothSims
    BY DEF BothWays, BothSims
  <2>3. new \in Conn(nextId + 1)
    BY <2>1, <2>2 DEF Conn
  <2>4. ASSUME NEW i \in DOMAIN conns
        PROVE  conns[i] \in Conn(nextId + 1) /\ conns[i].id < nextId /\ conns[i].addr # a
    <3>1. conns[i] \in Conn(nextId) /\ conns[i].id \in 1 .. nextId - 1
      BY ConnsFacts
    <3>2. conns[i].addr # a
      BY DEF Known
    <3>3. Conn(nextId) \subseteq Conn(nextId + 1)
      BY <2>1 DEF Conn
    <3> QED BY <2>1, <3>1, <3>2, <3>3
  <2> QED BY <2>3, <2>4 DEF ToSet
<1>3. \A c, d \in S : c.id = d.id \/ c.addr = d.addr => c = d
  <2>1. \A c, d \in ToSet(conns) : c.id = d.id \/ c.addr = d.addr => c = d
    BY DEF ConnsInv, Distinct, ToSet
  <2>2. \A c \in ToSet(conns) : c.id # new.id /\ c.addr # new.addr
    <3>1. nextId \in Nat
      BY DEF ConnsInv
    <3>2. \A c \in ToSet(conns) : c.id \in Int
      BY ConnsFacts DEF ToSet
    <3> QED BY <1>2, <3>1, <3>2
  <2> HIDE DEF new
  <2> QED BY <2>1, <2>2
<1>4. \A c \in S : c \in Conn(nextId + 1)
  <2> HIDE DEF new
  <2> QED BY <1>2
<1>5. \A c \in S : c.id \in Ids \/ c.id = nextId
  <2>1. \A c \in ToSet(conns) : c.id \in Ids
    BY DEF ToSet, Ids
  <2> QED BY <2>1
<1>6. \A c \in ToSet(conns) : c \in S
  OBVIOUS
<1>7. \E c \in S : c.id = nextId
  <2>1. new \in S /\ new.id = nextId
    OBVIOUS
  <2> QED BY <2>1
<1>8. \A c \in ToSet(conns), d \in S : c.id = d.id => c = d
  BY <1>3
<1> HIDE DEF new, S
<1>9. conns' \in SetToSeqs(S)
  BY DEF S, new
<1>10. /\ conns' \in Seq(S) /\ Len(conns') = Cardinality(S) /\ DOMAIN conns' = 1 .. Cardinality(S)
       /\ \A i, j \in DOMAIN conns' : conns'[i] = conns'[j] => i = j
       /\ \A x \in S : \E i \in DOMAIN conns' : conns'[i] = x
  <2> DEFINE s == conns'
  <2>1. s \in SetToSeqs(S)
    BY <1>9
  <2> HIDE DEF s
  <2>2. /\ s \in Seq(S) /\ Len(s) = Cardinality(S) /\ DOMAIN s = 1 .. Cardinality(S)
        /\ \A i, j \in DOMAIN s : s[i] = s[j] => i = j
        /\ \A x \in S : \E i \in DOMAIN s : s[i] = x
    BY <1>1, <2>1, OrderFacts
  <2> QED BY <2>2 DEF s
<1>11. \A i \in DOMAIN conns' : conns'[i] \in S
  BY <1>10
<1>12. ConnsInv'
  <2>1. Distinct(conns')
    BY <1>3, <1>10, <1>11 DEF Distinct
  <2>2. conns' \in Seq(Conn(nextId + 1))
    BY <1>4, <1>10, <1>11
  <2>3. Conn(nextId)' = Conn(nextId + 1)
    BY DEF Conn, BothSims
  <2>4. nextId' \in 1 .. MaxIds + 1
    BY ConnsFacts DEF ConnsInv
  <2> QED BY <1>1, <1>10, <2>1, <2>2, <2>3, <2>4 DEF ConnsInv
<1>13. Ids' = Ids \cup {nextId}
  <2>1. Ids' = {conns'[i].id : i \in DOMAIN conns'}
    BY DEF Ids
  <2>2. \A i \in DOMAIN conns' : conns'[i].id \in Ids \cup {nextId}
    BY <1>5, <1>11
  <2>3. \A x \in S : \E i \in DOMAIN conns' : conns'[i].id = x.id
    BY <1>10
  <2>4. \A id \in Ids : \E x \in S : x.id = id
    BY <1>6 DEF Ids, ToSet
  <2> QED BY <1>7, <2>1, <2>2, <2>3, <2>4
<1>14. EndsInv'
  <2>1. nextId \in Nat /\ nextId' = nextId + 1 /\ Ids \subseteq 1 .. nextId - 1 /\ nextId \in 1 .. MaxIds
    BY ConnsFacts DEF ConnsInv
  <2>2. ASSUME NEW id \in 1 .. MaxIds
        PROVE  Len(ended'[id]) = IF id < nextId' /\ id \notin Ids' THEN 1 ELSE 0
    <3>1. (id < nextId' /\ id \notin Ids') <=> (id < nextId /\ id \notin Ids)
      BY <1>13, <2>1
    <3> QED BY <3>1 DEF EndsInv
  <2> QED BY <2>2 DEF EndsInv
<1>15. EndsGrow
  BY DEF EndsGrow
<1>16. SimsKept
  <2>1. \A d \in ToSet(conns') : d \in S
    BY <1>11 DEF ToSet
  <2> QED BY <1>8, <2>1 DEF SimsKept
<1> QED BY <1>12, <1>14, <1>15, <1>16
-----------------------------------------------------------------------------
(* The packets.                                                            *)

\* SimFacts: a delay is no later than MaxLatency, and not before now.
LEMMA SimFacts ==
  ASSUME NEW sim \in Sims
  PROVE  Delays(sim) \subseteq 0 .. MaxLatency
<1>1. MaxLatency \in Nat
  BY ConsoleAssumption
<1> QED BY <1>1 DEF Sims, Delays

\* KnownFacts: what there is to know of the connection of an address.
LEMMA KnownFacts ==
  ASSUME ConnsInv, NEW a, Known(a)
  PROVE  /\ ConnOf(a).id \in Ids /\ ConnOf(a).addr = a /\ ConnOf(a).sims \in BothSims
         /\ \A i \in DOMAIN conns : conns[i].addr = a => conns[i] = ConnOf(a)
<1> DEFINE j == CHOOSE i \in DOMAIN conns : conns[i].addr = a
<1>1. j \in DOMAIN conns /\ conns[j].addr = a
  BY DEF Known
<1>2. ConnOf(a) = conns[j]
  BY DEF ConnOf
<1> HIDE DEF j
<1>3. \A i \in DOMAIN conns : conns[i].addr = a => i = j
  BY <1>1 DEF ConnsInv, Distinct
<1> QED BY <1>1, <1>2, <1>3, ConnsFacts

\* SendFacts: a packet is sent, lost, refused or put off.
LEMMA SendFacts ==
  ASSUME NEW sim \in Sims, NEW then, SendSimulated(sim, then), now \in Nat, outbox \subseteq Nat
  PROVE  outbox' \subseteq Nat /\ phase' \in {then, "send"}
<1>1. \A d \in Delays(sim) : now + d \in Nat
  BY SimFacts, ConsoleAssumption
<1> QED BY <1>1 DEF SendSimulated

\* RequestConns: a ConnectionRequest adds one connection or none, and gives one
\* that is there the global simulation only if there is one.
LEMMA RequestConns ==
  ASSUME ConnsInv, EndsInv, global \in Sims, now \in Nat, outbox \subseteq Nat, NEW a \in Addrs, NEW then,
         ConnectionRequest(a, then), ended' = ended
  PROVE  /\ ConnsInv' /\ EndsInv' /\ EndsGrow /\ outbox' \subseteq Nat /\ phase' \in {then, "send"}
         /\ ~global.enabled => SimsKept
         /\ nextId' \in {nextId, nextId + 1}
<1>1. CASE Known(a)
  <2> DEFINE sims == IF global.enabled THEN BothWays(global) ELSE ConnOf(a).sims
             F == [i \in DOMAIN conns |->
                     IF conns[i].addr = a THEN [conns[i] EXCEPT !.sims = sims] ELSE conns[i]]
  <2>1. conns' = F /\ SendSimulated(sims.outgoing, then) /\ nextId' = nextId
    BY <1>1 DEF ConnectionRequest
  <2>2. sims \in BothSims
    BY <1>1, KnownFacts DEF BothSims, BothWays
  <2>3. ~global.enabled => sims = ConnOf(a).sims
    OBVIOUS
  <2> HIDE DEF sims
  <2>4. ASSUME NEW i \in DOMAIN conns
        PROVE  F[i] \in Conn(nextId) /\ F[i].id = conns[i].id /\ F[i].addr = conns[i].addr
    <3>1. conns[i] \in Conn(nextId)
      BY ConnsFacts
    <3> QED BY <2>2, <3>1 DEF Conn
  <2>5. F \in [DOMAIN conns -> Conn(nextId)]
    BY <2>4
  <2>6. ~global.enabled => \A i \in DOMAIN conns : F[i].sims = conns[i].sims
    <3> SUFFICES ASSUME ~global.enabled, NEW i \in DOMAIN conns PROVE F[i].sims = conns[i].sims
      OBVIOUS
    <3>1. conns[i] \in Conn(nextId)
      BY ConnsFacts
    <3>2. CASE conns[i].addr = a
      <4>1. conns[i].sims = sims
        BY <1>1, <2>3, <3>2, KnownFacts
      <4>2. F[i].sims = sims
        BY <3>1, <3>2 DEF Conn
      <4> QED BY <4>1, <4>2
    <3> QED BY <3>2
  <2> HIDE DEF F
  <2>7. ConnsInv' /\ Ids' = Ids
    BY <2>1, <2>4, <2>5, SameConns
  <2>8. EndsInv' /\ EndsGrow
    BY <2>1, <2>7, SameEnds
  <2>9. outbox' \subseteq Nat /\ phase' \in {then, "send"}
    <3>1. sims.outgoing \in Sims
      BY <2>2 DEF BothSims
    <3> QED BY <2>1, <3>1, SendFacts
  <2>10. ~global.enabled => SimsKept
    <3> SUFFICES ASSUME ~global.enabled, NEW i \in DOMAIN conns, NEW k \in DOMAIN conns',
                        conns[i].id = conns'[k].id
                 PROVE  conns[i].sims = conns'[k].sims
      BY DEF SimsKept, ToSet
    <3>1. k \in DOMAIN conns /\ F[k].id = conns[k].id /\ F[k].sims = conns[k].sims
      BY <2>1, <2>4, <2>5, <2>6
    <3>2. i = k
      BY <2>1, <3>1 DEF ConnsInv, Distinct
    <3> QED BY <2>1, <3>1, <3>2
  <2> QED BY <2>1, <2>7, <2>8, <2>9, <2>10
<1>2. CASE ~Known(a) /\ Len(conns) >= MaxClients
  <2>1. UNCHANGED <<conns, nextId>> /\ SendSimulated(global, then)
    BY <1>2 DEF ConnectionRequest
  <2>2. ConnsInv' /\ Ids' = Ids
    BY <2>1 DEF ConnsInv, Conn, BothSims, Ids, Distinct
  <2>3. SimsKept
    BY <2>1, ConnsFacts DEF SimsKept
  <2> QED BY <2>1, <2>2, <2>3, SameEnds, SendFacts
<1>3. CASE ~Known(a) /\ ~(Len(conns) >= MaxClients)
  <2>1. /\ nextId <= MaxIds /\ nextId' = nextId + 1
        /\ conns' \in SetToSeqs(ToSet(conns) \cup
             {[id |-> nextId, addr |-> a, connected |-> FALSE, sims |-> BothWays(global)]})
        /\ SendSimulated(global, then)
    BY <1>3 DEF ConnectionRequest
  <2>2. Len(conns) < MaxClients
    BY <1>3, ConnsFacts
  <2>3. ConnsInv' /\ EndsInv' /\ EndsGrow /\ SimsKept
    BY <1>3, <2>1, <2>2, NewConn
  <2> QED BY <2>1, <2>3, SendFacts
<1> QED BY <1>1, <1>2, <1>3

\* PacketConns: nor does any other packet that the server handles break the
\* books of the sessions, or touch a simulation.
LEMMA PacketConns ==
  ASSUME ConnsInv, EndsInv, global \in Sims, now \in Nat, outbox \subseteq Nat, NEW p, p.addr \in Addrs,
         NEW then, HandleReceivedPacket(p, then)
  PROVE  /\ ConnsInv' /\ EndsInv' /\ EndsGrow /\ outbox' \subseteq Nat /\ phase' \in {then, "send"}
         /\ ~global.enabled => SimsKept
         /\ nextId' \in {nextId, nextId + 1}
<1>1. CASE ConnectionRequest(p.addr, then) /\ ended' = ended
  BY <1>1, RequestConns
<1>2. CASE /\ Known(p.addr)
           /\ conns' = [i \in DOMAIN conns |->
                 IF conns[i].addr = p.addr THEN [conns[i] EXCEPT !.connected = TRUE] ELSE conns[i]]
           /\ SendSimulated(ConnOf(p.addr).sims.outgoing, then)
           /\ UNCHANGED <<nextId, ended>>
  <2> DEFINE F == [i \in DOMAIN conns |->
                     IF conns[i].addr = p.addr THEN [conns[i] EXCEPT !.connected = TRUE] ELSE conns[i]]
  <2>1. conns' = F
    BY <1>2
  <2>2. ASSUME NEW i \in DOMAIN conns
        PROVE  /\ F[i] \in Conn(nextId) /\ F[i].id = conns[i].id /\ F[i].addr = conns[i].addr
               /\ F[i].sims = conns[i].sims
    <3>1. conns[i] \in Conn(nextId)
      BY ConnsFacts
    <3> QED BY <3>1 DEF Conn
  <2>3. F \in [DOMAIN conns -> Conn(nextId)]
    BY <2>2
  <2> HIDE DEF F
  <2>4. ConnsInv' /\ Ids' = Ids
    BY <1>2, <2>1, <2>2, <2>3, SameConns
  <2>5. EndsInv' /\ EndsGrow
    BY <1>2, <2>4, SameEnds
  <2>6. outbox' \subseteq Nat /\ phase' \in {then, "send"}
    <3>1. ConnOf(p.addr).sims.outgoing \in Sims
      BY <1>2, KnownFacts DEF BothSims
    <3> QED BY <1>2, <3>1, SendFacts
  <2>7. SimsKept
    <3> SUFFICES ASSUME NEW i \in DOMAIN conns, NEW k \in DOMAIN conns', conns[i].id = conns'[k].id
                 PROVE  conns[i].sims = conns'[k].sims
      BY DEF SimsKept, ToSet
    <3>1. k \in DOMAIN conns /\ F[k].id = conns[k].id /\ F[k].sims = conns[k].sims
      BY <2>1, <2>2, <2>3
    <3>2. i = k
      BY <2>1, <3>1 DEF ConnsInv, Distinct
    <3> QED BY <2>1, <3>1, <3>2
  <2> QED BY <1>2, <2>4, <2>5, <2>6, <2>7
<1>3. CASE /\ Known(p.addr)
           /\ Forget({ConnOf(p.addr).id}, "Graceful")
           /\ phase' = then /\ UNCHANGED <<nextId, outbox>>
  <2>1. {ConnOf(p.addr).id} \in SUBSET Ids
    BY <1>3, KnownFacts
  <2>2. "Graceful" \in Reasons /\ "Graceful" # "Kicked"
    BY DEF Reasons
  <2> QED BY <1>3, <2>1, <2>2, ForgetConns, ForgetEnds
<1>4. CASE phase' = then /\ UNCHANGED <<sessionVars, outbox>>
  <2>1. ConnsInv' /\ Ids' = Ids
    BY <1>4 DEF ConnsInv, Conn, BothSims, Ids, Distinct, sessionVars
  <2>2. SimsKept
    BY <1>4, ConnsFacts DEF SimsKept, sessionVars
  <2> QED BY <1>4, <2>1, <2>2, SameEnds DEF sessionVars
<1> QED BY <1>1, <1>2, <1>3, <1>4 DEF HandleReceivedPacket
-----------------------------------------------------------------------------
(* The console.                                                            *)

Panels(n)  == [id : 1 .. n - 1, sims : BothSims, field : 1 .. Len(Fields), direction : {"outgoing", "incoming"}]
Updates(n) == [id : 1 .. n - 1, sims : BothSims]

Consoles(n) ==
  [tab : {"Console", "Connections"}, selected : Nat, kick : 0 .. n - 1,
   panel : {NoPanel} \cup Panels(n), update : {NoUpdate} \cup Updates(n)]

\* AdjustedSims: no key turns the range of a latency upside down.
LEMMA AdjustedSims ==
  ASSUME NEW sim \in Sims, NEW field, NEW delta \in {-1, 1}
  PROVE  Adjusted(sim, field, delta) \in Sims
<1>1. MaxLatency \in Nat
  BY ConsoleAssumption
<1>2. sim \in [enabled : BOOLEAN, min : 0 .. MaxLatency, max : 0 .. MaxLatency] /\ sim.min <= sim.max
  BY DEF Sims
<1>3. Within(sim.min + delta) \in 0 .. MaxLatency /\ Within(sim.max + delta) \in 0 .. MaxLatency
  BY <1>1, <1>2 DEF Within
<1> DEFINE min == Within(sim.min + delta)
           max == Within(sim.max + delta)
<1> HIDE DEF min, max
<1>4. min \in 0 .. MaxLatency /\ max \in 0 .. MaxLatency
  BY <1>3 DEF min, max
<1>5. Adjusted(sim, field, delta) =
        CASE field = "Enabled"    -> [sim EXCEPT !.enabled = ~@]
          [] field = "MinLatency" -> [sim EXCEPT !.min = min, !.max = IF min > @ THEN min ELSE @]
          [] field = "MaxLatency" -> [sim EXCEPT !.max = max, !.min = IF max < @ THEN max ELSE @]
          [] OTHER                -> sim
  BY DEF Adjusted, min, max
<1>6. [sim EXCEPT !.enabled = ~@] \in Sims
  BY <1>2 DEF Sims
<1>7. [sim EXCEPT !.min = min, !.max = IF min > @ THEN min ELSE @] \in Sims
  <2> DEFINE x == IF min > sim.max THEN min ELSE sim.max
  <2>1. x \in 0 .. MaxLatency /\ min <= x
    BY <1>1, <1>2, <1>4
  <2> HIDE DEF x
  <2>2. [sim EXCEPT !.min = min, !.max = x] \in Sims
    BY <1>2, <1>4, <2>1 DEF Sims
  <2> QED BY <2>2 DEF x
<1>8. [sim EXCEPT !.max = max, !.min = IF max < @ THEN max ELSE @] \in Sims
  <2> DEFINE x == IF max < sim.min THEN max ELSE sim.min
  <2>1. x \in 0 .. MaxLatency /\ x <= max
    BY <1>1, <1>2, <1>4
  <2> HIDE DEF x
  <2>2. [sim EXCEPT !.max = max, !.min = x] \in Sims
    BY <1>2, <1>4, <2>1 DEF Sims
  <2> QED BY <2>2 DEF x
<1> QED BY <1>5, <1>6, <1>7, <1>8

\* PanelTyped: nor does a key in the panel.
LEMMA PanelTyped ==
  ASSUME NEW n \in Nat, NEW panel \in Panels(n), NEW delta \in {-1, 1}
  PROVE  NextField(panel, delta) \in Panels(n) /\ Adjust(panel, delta) \in Panels(n)
<1>1. Len(Fields) = 6
  BY DEF Fields
<1>2. NextField(panel, delta) \in Panels(n)
  <2>1. panel.field \in 1 .. 6
    BY <1>1 DEF Panels
  <2>2. ((panel.field - 1 + delta + 6) % 6) + 1 \in 1 .. 6
    BY <2>1
  <2> QED BY <1>1, <2>2 DEF NextField, Panels
<1>3. [panel EXCEPT !.direction = IF @ = "outgoing" THEN "incoming" ELSE "outgoing"] \in Panels(n)
  BY DEF Panels
<1>4. [panel EXCEPT !.sims[panel.direction] = Adjusted(@, Fields[panel.field], delta)] \in Panels(n)
  <2> DEFINE x == Adjusted(panel.sims[panel.direction], Fields[panel.field], delta)
             both == [panel.sims EXCEPT ![panel.direction] = x]
  <2>1. panel.sims \in BothSims /\ panel.direction \in {"outgoing", "incoming"}
    BY DEF Panels
  <2>2. x \in Sims
    <3>1. panel.sims[panel.direction] \in Sims
      BY <2>1 DEF BothSims
    <3> QED BY <3>1, AdjustedSims
  <2> HIDE DEF x
  <2>3. both \in BothSims
    BY <2>1, <2>2 DEF BothSims
  <2>4. [panel EXCEPT !.sims = both] \in Panels(n)
    <3> HIDE DEF both
    <3> QED BY <2>3 DEF Panels
  <2>5. [panel EXCEPT !.sims[panel.direction] = Adjusted(@, Fields[panel.field], delta)]
          = [panel EXCEPT !.sims = both]
    BY DEF x, Panels
  <2> QED BY <2>4, <2>5
<1> QED BY <1>2, <1>3, <1>4 DEF Adjust

\* KeyTyped: a key keeps the console well formed, and asks at most for a
\* client of the list to be kicked.
LEMMA KeyTyped ==
  ASSUME NEW n \in Nat, NEW c \in Consoles(n), NEW clients \in Seq(Conn(n)), NEW key \in Keys
  PROVE  /\ PressKey(c, key, clients) \in Consoles(n)
         /\ \/ PressKey(c, key, clients).kick = c.kick
            \/ PressKey(c, key, clients).kick # Nobody
<1>1. CASE PanelOpen(c)
  <2>1. c.panel \in Panels(n)
    BY <1>1 DEF PanelOpen, Consoles
  <2>2. NextField(c.panel, -1) \in Panels(n) /\ NextField(c.panel, 1) \in Panels(n)
        /\ Adjust(c.panel, -1) \in Panels(n) /\ Adjust(c.panel, 1) \in Panels(n)
    BY <2>1, PanelTyped
  <2>3. ASSUME NEW x \in Panels(n) \cup {NoPanel}
        PROVE  [c EXCEPT !.panel = x] \in Consoles(n) /\ [c EXCEPT !.panel = x].kick = c.kick
    BY DEF Consoles
  <2>4. ClosePanel(c) \in Consoles(n) /\ ClosePanel(c).kick = c.kick
    <3>1. [id |-> c.panel.id, sims |-> c.panel.sims] \in Updates(n)
      BY <2>1 DEF Panels, Updates
    <3> QED BY <3>1 DEF ClosePanel, Consoles
  <2>5. /\ [c EXCEPT !.panel = NextField(@, -1)] = [c EXCEPT !.panel = NextField(c.panel, -1)]
        /\ [c EXCEPT !.panel = NextField(@, 1)] = [c EXCEPT !.panel = NextField(c.panel, 1)]
        /\ [c EXCEPT !.panel = Adjust(@, -1)] = [c EXCEPT !.panel = Adjust(c.panel, -1)]
        /\ [c EXCEPT !.panel = Adjust(@, 1)] = [c EXCEPT !.panel = Adjust(c.panel, 1)]
    BY DEF Consoles
  <2>6. PressKey(c, key, clients) \in
          {ClosePanel(c), c} \cup {[c EXCEPT !.panel = x] : x \in Panels(n) \cup {NoPanel}}
    BY <1>1, <2>2, <2>5 DEF PressKey, PanelKey, CancelPanel
  <2> QED BY <2>3, <2>4, <2>6
<1>2. CASE ~PanelOpen(c)
  <2>1. NextTab(c) \in Consoles(n) /\ NextTab(c).kick = c.kick
    BY DEF NextTab, Consoles
  <2>2. ASSUME NEW by \in {-1, 1}
        PROVE  Select(c, by, Len(clients)) \in Consoles(n) /\ Select(c, by, Len(clients)).kick = c.kick
    <3>1. Len(clients) \in Nat /\ c.selected \in Nat
      BY DEF Consoles
    <3>2. CASE Len(clients) = 0
      BY <3>2 DEF Select
    <3>3. CASE Len(clients) # 0
      <4> DEFINE max == Len(clients)
                 x == IF by = 1 THEN (c.selected + 1) % max
                      ELSE IF c.selected = 0 THEN max - 1 ELSE c.selected - 1
      <4>1. max \in Nat \ {0}
        BY <3>1, <3>3
      <4> HIDE DEF max
      <4>2. (c.selected + 1) % max \in Nat
        BY <3>1, <4>1
      <4>3. x \in Nat
        BY <3>1, <4>1, <4>2
      <4> HIDE DEF x
      <4>4. Select(c, by, Len(clients)) = [c EXCEPT !.selected = x]
        BY <3>3 DEF Select, x, max, Consoles
      <4> QED BY <4>3, <4>4 DEF Consoles
    <3> QED BY <3>2, <3>3
  <2>3. HasSelected(c, clients) => Selected(c, clients) \in Conn(n)
    <3>1. c.selected \in Nat
      BY DEF Consoles
    <3> QED BY <3>1 DEF HasSelected, Selected
  <2>4. OpenPanel(c, clients) \in Consoles(n) /\ OpenPanel(c, clients).kick = c.kick
    <3> DEFINE d == Selected(c, clients)
               x == [id |-> d.id, sims |-> d.sims, field |-> 1, direction |-> "outgoing"]
    <3>1. CASE HasSelected(c, clients)
      <4>1. d \in Conn(n)
        BY <2>3, <3>1
      <4> HIDE DEF d
      <4>2. Len(Fields) = 6
        BY DEF Fields
      <4>3. x \in Panels(n)
        BY <4>1, <4>2 DEF Conn, Panels
      <4> HIDE DEF x
      <4>4. OpenPanel(c, clients) = [c EXCEPT !.panel = x]
        BY <3>1 DEF OpenPanel, d, x
      <4> QED BY <4>3, <4>4 DEF Consoles
    <3>2. CASE ~HasSelected(c, clients)
      BY <3>2 DEF OpenPanel
    <3> QED BY <3>1, <3>2
  <2>5. /\ RequestKick(c, clients) \in Consoles(n)
        /\ RequestKick(c, clients).kick = c.kick \/ RequestKick(c, clients).kick # Nobody
    <3> DEFINE d == Selected(c, clients)
    <3>1. CASE HasSelected(c, clients)
      <4>1. d \in Conn(n)
        BY <2>3, <3>1
      <4> HIDE DEF d
      <4>2. d.id \in 1 .. n - 1
        BY <4>1 DEF Conn
      <4>3. RequestKick(c, clients) = [c EXCEPT !.kick = d.id]
        BY <3>1 DEF RequestKick, d
      <4> QED BY <4>2, <4>3 DEF Consoles, Nobody
    <3>2. CASE ~HasSelected(c, clients)
      BY <3>2 DEF RequestKick
    <3> QED BY <3>1, <3>2
  <2>6. PressKey(c, key, clients) \in
          {NextTab(c), c, Select(c, -1, Len(clients)), Select(c, 1, Len(clients)), OpenPanel(c, clients),
           RequestKick(c, clients)}
    BY <1>2 DEF PressKey, TabKey
  <2> QED BY <2>1, <2>2, <2>4, <2>5, <2>6
<1> QED BY <1>1, <1>2
-----------------------------------------------------------------------------
(* The steps.                                                              *)

\* LoopInv: the clock is accounted for, and nothing overdue is left in the
\* ticks
LoopInv ==
  /\ now \in Nat /\ acc \in Nat /\ tick \in Nat /\ TimeKept
  /\ global \in Sims
  /\ outbox \subseteq Nat /\ NothingOverdue
  /\ \A e \in inbox : e.packet.addr \in Addrs
  /\ phase = "stopped" => Ids = {}

ConsoleInv == console \in Consoles(nextId)

\* KickInv: a chosen session is asked to be kicked, or has ended
KickInv ==
  /\ chosen \subseteq 1 .. nextId - 1
  /\ phase = "key" => console.kick = Nobody
  /\ console.kick # Nobody => console.kick \in chosen
  /\ KicksAreDone
  /\ phase # "stopped" => \A id \in 1 .. MaxIds : "Kicked" \in ToSet(ended[id]) => id \in chosen

\* ServerInv: the strengthening that the steps preserve
ServerInv == ConnsInv /\ EndsInv /\ LoopInv /\ ConsoleInv /\ KickInv

\* SettingsStep: what SettingsLast says of a step
SettingsStep ==
  ~global.enabled =>
    \A c \in ToSet(conns), d \in ToSet(conns') :
      c.id = d.id /\ c.sims # d.sims => console.update = [id |-> c.id, sims |-> d.sims]

\* SameSessions: what holds of the sessions holds while they do not change.
LEMMA SameSessions ==
  ASSUME ConnsInv, EndsInv, UNCHANGED sessionVars
  PROVE  ConnsInv' /\ EndsInv' /\ Ids' = Ids /\ EndsGrow /\ SimsKept
<1>1. UNCHANGED <<conns, nextId, ended>>
  BY DEF sessionVars
<1>2. ConnsInv' /\ Ids' = Ids
  BY <1>1 DEF ConnsInv, Conn, BothSims, Ids, Distinct
<1>3. SimsKept
  BY <1>1, ConnsFacts DEF SimsKept
<1>4. EndsInv' /\ EndsGrow
  BY <1>1, <1>2, SameEnds
<1> QED BY <1>2, <1>3, <1>4

\* ConsoleKept: a console stays well formed when clients come.
LEMMA ConsoleKept ==
  ASSUME ConnsInv, ConsoleInv, UNCHANGED console, nextId' \in {nextId, nextId + 1}
  PROVE  ConsoleInv'
<1>1. nextId \in Nat
  BY ConnsFacts
<1>2. Panels(nextId) \subseteq Panels(nextId + 1) /\ Updates(nextId) \subseteq Updates(nextId + 1)
  BY <1>1 DEF Panels, Updates
<1>3. 0 .. nextId - 1 \subseteq 0 .. (nextId + 1) - 1
  BY <1>1
<1>4. Consoles(nextId) \subseteq Consoles(nextId + 1)
  <2> SUFFICES ASSUME NEW c \in Consoles(nextId) PROVE c \in Consoles(nextId + 1)
    OBVIOUS
  <2>1. c.kick \in 0 .. (nextId + 1) - 1
    BY <1>3 DEF Consoles
  <2>2. c.panel \in {NoPanel} \cup Panels(nextId + 1) /\ c.update \in {NoUpdate} \cup Updates(nextId + 1)
    BY <1>2 DEF Consoles
  <2> QED BY <2>1, <2>2 DEF Consoles
<1>5. ConsoleInv' <=> console' \in Consoles(nextId')
  BY DEF ConsoleInv, Consoles, Panels, Updates, BothSims
<1> QED BY <1>4, <1>5 DEF ConsoleInv

\* KickKept: the kicks stay in order while sessions begin and end otherwise.
LEMMA KickKept ==
  ASSUME ConnsInv, KickInv, EndsGrow, UNCHANGED <<console, chosen>>, nextId' \in {nextId, nextId + 1},
         phase # "stopped", phase' = "key" => phase = "key"
  PROVE  KickInv'
<1>1. nextId \in 1 .. MaxIds + 1 /\ MaxIds \in Nat
  BY ConnsFacts DEF ConnsInv
<1>2. chosen' \subseteq 1 .. nextId' - 1 /\ chosen \subseteq 1 .. MaxIds
  <2>1. \A id \in chosen : id \in 1 .. nextId - 1
    BY DEF KickInv
  <2>2. nextId \in Nat /\ nextId' \in Nat /\ nextId <= nextId' /\ nextId <= MaxIds + 1
    BY <1>1
  <2>3. \A id \in chosen : id \in 1 .. nextId' - 1 /\ id \in 1 .. MaxIds
    BY <1>1, <2>1, <2>2
  <2> QED BY <2>3
<1>3. KicksAreDone'
  BY <1>2 DEF KickInv, KicksAreDone, EndsGrow
<1>4. \A id \in 1 .. MaxIds : "Kicked" \in ToSet(ended'[id]) => id \in chosen'
  BY DEF KickInv, EndsGrow
<1> QED BY <1>2, <1>3, <1>4 DEF KickInv

\* TopFacts: nothing in the heap is due before its top.
LEMMA TopFacts ==
  ASSUME NEW times, times \subseteq Nat, now \in Nat, ~TopIsDue(times)
  PROVE  \A due \in times : due > now
<1> SUFFICES ASSUME NEW due \in times PROVE due > now
  OBVIOUS
<1>1. \E t \in times : \A s \in times : t <= s
  BY LeastNatural
<1>2. Top(times) \in times /\ Top(times) <= due
  BY <1>1 DEF Top
<1>3. ~(Top(times) <= now)
  BY DEF TopIsDue
<1> DEFINE t == Top(times)
<1>4. t \in Nat /\ t <= due /\ ~(t <= now)
  BY <1>2, <1>3
<1> HIDE DEF t
<1> QED BY <1>4

\* SendToAllFacts: what SendToAll puts off is due later.
LEMMA SendToAllFacts ==
  ASSUME ConnsInv, SendToAll, now \in Nat, outbox \subseteq Nat
  PROVE  outbox' \subseteq Nat /\ \A due \in outbox' \ outbox : due > now
<1>1. ASSUME NEW c \in ToSet(conns), NEW d \in Delays(c.sims.outgoing) \ {0}
      PROVE  now + d \in Nat /\ now + d > now
  <2>1. c.sims.outgoing \in Sims
    BY ConnsFacts DEF ToSet, BothSims
  <2>2. d \in 0 .. MaxLatency /\ MaxLatency \in Nat
    BY <2>1, SimFacts, ConsoleAssumption
  <2> QED BY <2>2
<1>2. PICK put \in SUBSET UNION {{now + d : d \in Delays(c.sims.outgoing) \ {0}} : c \in ToSet(conns)} :
        outbox' = outbox \cup put
  BY DEF SendToAll
<1>3. \A due \in put : due \in Nat /\ due > now
  BY <1>1
<1> QED BY <1>2, <1>3

\* InitInv: the server starts with the invariant.
LEMMA InitInv == Init => ServerInv
<1> SUFFICES ASSUME Init PROVE ServerInv
  OBVIOUS
<1>1. MaxIds \in Nat /\ MaxClients \in Nat /\ StepTime \in Nat /\ MaxLatency \in Nat \ {0}
  BY ServerAssumption, ConsoleAssumption
<1>2. ConnsInv
  <2>1. conns \in Seq(Conn(nextId)) /\ Len(conns) <= MaxClients
    BY <1>1 DEF Init
  <2>2. Distinct(conns)
    BY DEF Init, Distinct
  <2> QED BY <1>1, <2>1, <2>2 DEF Init, ConnsInv
<1>3. Ids = {}
  BY DEF Init, Ids
<1>4. EndsInv
  BY <1>1 DEF Init, EndsInv
<1>5. LoopInv
  <2>1. global \in Sims
    <3>1. NoSim \in Sims
      BY <1>1 DEF Sims, NoSim
    <3>2. [enabled |-> TRUE, min |-> 1, max |-> MaxLatency] \in Sims
      BY <1>1 DEF Sims
    <3> QED BY <3>1, <3>2 DEF Init
  <2>2. TimeKept
    BY <1>1 DEF Init, TimeKept
  <2> QED BY <1>3, <2>1, <2>2 DEF Init, LoopInv, NothingOverdue
<1>6. ConsoleInv
  BY DEF Init, ConsoleInv, Consoles, NewConsole, Nobody
<1>7. KickInv
  <2>1. ToSet(<< >>) = {}
    BY DEF ToSet
  <2> QED BY <2>1 DEF Init, KickInv, KicksAreDone, NewConsole, Nobody
<1> QED BY <1>2, <1>4, <1>5, <1>6, <1>7 DEF ServerInv

\* BeginInv: the clock advances before anything is received.
LEMMA BeginInv ==
  ASSUME ServerInv, NEW elapsed \in 0 .. MaxStall, BeginTickOnce(elapsed)
  PROVE  ServerInv' /\ SettingsStep
<1>1. ConnsInv /\ EndsInv /\ LoopInv /\ ConsoleInv /\ KickInv /\ elapsed \in Nat
  BY ServerAssumption DEF ServerInv
<1>2. ConnsInv' /\ EndsInv' /\ Ids' = Ids /\ EndsGrow /\ SimsKept
  BY <1>1, SameSessions DEF BeginTickOnce
<1>3. ConsoleInv'
  BY <1>1, ConsoleKept DEF BeginTickOnce, sessionVars
<1>4. KickInv'
  BY <1>1, <1>2, KickKept DEF BeginTickOnce, sessionVars
<1>5. TimeKept'
  <2>1. tick * StepTime \in Nat
    BY <1>1, ServerAssumption DEF LoopInv
  <2> DEFINE x == tick * StepTime
  <2>2. x + acc = now /\ x' = x /\ x \in Nat
    BY <1>1, <2>1 DEF LoopInv, TimeKept, BeginTickOnce
  <2> HIDE DEF x
  <2>3. x' + acc' = now'
    BY <1>1, <2>2 DEF LoopInv, BeginTickOnce
  <2> QED BY <2>3 DEF x, TimeKept
<1>6. LoopInv'
  BY <1>1, <1>5 DEF LoopInv, BeginTickOnce, NothingOverdue
<1>7. SettingsStep
  BY <1>2 DEF SimsKept, SettingsStep
<1> QED BY <1>2, <1>3, <1>4, <1>6, <1>7 DEF ServerInv

\* PacketInv: the invariant survives a packet, at once or put off.
LEMMA PacketInv ==
  ASSUME ServerInv, NEW p, p.addr \in Addrs, NEW then \in {"receive", "delayed"},
         phase # "stopped", HandleReceivedPacket(p, then), inbox' \subseteq inbox,
         UNCHANGED <<loopVars, console, chosen>>
  PROVE  ServerInv' /\ SettingsStep
<1>1. ConnsInv /\ EndsInv /\ LoopInv /\ ConsoleInv /\ KickInv
  BY DEF ServerInv
<1>2. /\ ConnsInv' /\ EndsInv' /\ EndsGrow /\ outbox' \subseteq Nat /\ phase' \in {then, "send"}
      /\ ~global.enabled => SimsKept
      /\ nextId' \in {nextId, nextId + 1}
  BY <1>1, PacketConns DEF LoopInv
<1>3. phase' \notin {"ticks", "stopped", "key"}
  BY <1>2
<1>4. ConsoleInv' /\ KickInv'
  BY <1>1, <1>2, <1>3, ConsoleKept, KickKept
<1>5. LoopInv'
  BY <1>1, <1>2, <1>3 DEF LoopInv, NothingOverdue, TimeKept, loopVars
<1>6. SettingsStep
  BY <1>2 DEF SimsKept, SettingsStep
<1> QED BY <1>2, <1>4, <1>5, <1>6 DEF ServerInv

\* NetworkInv: the invariant survives the rest of the network's steps.
LEMMA NetworkInv ==
  ASSUME ServerInv,
         \/ \E a \in Addrs, kind \in Kinds : Receive(a, kind)
         \/ EndReceive \/ HandleDelayed \/ ProcessResends \/ ProcessDelayedPackets \/ TerminalFails
  PROVE  ServerInv' /\ SettingsStep
<1>1. ConnsInv /\ EndsInv /\ LoopInv /\ ConsoleInv /\ KickInv
  BY DEF ServerInv
<1>2. ASSUME UNCHANGED <<sessionVars, loopVars, console, chosen>>, phase # "stopped",
             phase' \notin {"stopped", "key"}, outbox' \subseteq Nat,
             phase' = "ticks" => \A due \in outbox' : due > now,
             \A e \in inbox' : e.packet.addr \in Addrs
      PROVE  ServerInv' /\ SettingsStep
  <2>1. ConnsInv' /\ EndsInv' /\ EndsGrow /\ SimsKept /\ UNCHANGED nextId
    BY <1>1, <1>2, SameSessions DEF sessionVars
  <2>2. ConsoleInv' /\ KickInv'
    BY <1>1, <1>2, <2>1, ConsoleKept, KickKept
  <2>3. LoopInv'
    BY <1>1, <1>2 DEF LoopInv, NothingOverdue, TimeKept, loopVars
  <2>4. SettingsStep
    BY <2>1 DEF SimsKept, SettingsStep
  <2> QED BY <2>1, <2>2, <2>3, <2>4 DEF ServerInv
<1>3. ASSUME NEW a \in Addrs, NEW kind \in Kinds, Receive(a, kind) PROVE ServerInv' /\ SettingsStep
  <2> DEFINE p == [addr |-> a, kind |-> kind, id |-> IF Known(a) THEN ConnOf(a).id ELSE Nobody]
             delays == Delays(SimOf(a, "incoming"))
  <2>1. /\ phase = "receive" /\ UNCHANGED <<loopVars, console, chosen>>
        /\ \/ /\ \E d \in delays \ {0} : inbox' = inbox \cup {[due |-> now + d, packet |-> p]}
              /\ UNCHANGED <<phase, sessionVars, outbox>>
           \/ /\ HandleReceivedPacket(p, "receive")
              /\ UNCHANGED inbox
    BY <1>3 DEF Receive
  <2>2. p.addr \in Addrs
    OBVIOUS
  <2> HIDE DEF p, delays
  <2>3. CASE HandleReceivedPacket(p, "receive") /\ UNCHANGED inbox
    BY <2>1, <2>2, <2>3, PacketInv
  <2>4. ASSUME NEW d, inbox' = inbox \cup {[due |-> now + d, packet |-> p]},
               UNCHANGED <<phase, sessionVars, outbox>>
        PROVE  ServerInv' /\ SettingsStep
    <3>1. \A e \in inbox' : e.packet.addr \in Addrs
      BY <1>1, <2>2, <2>4 DEF LoopInv
    <3> QED BY <1>1, <1>2, <2>1, <2>4, <3>1 DEF LoopInv
  <2> QED BY <2>1, <2>3, <2>4
<1>4. CASE EndReceive
  BY <1>1, <1>2, <1>4 DEF EndReceive, LoopInv
<1>5. CASE HandleDelayed
  <2>1. PICK e \in inbox : HandleReceivedPacket(e.packet, "delayed") /\ inbox' = inbox \ {e}
    BY <1>5 DEF HandleDelayed
  <2>2. e.packet.addr \in Addrs /\ phase = "delayed" /\ UNCHANGED <<loopVars, console, chosen>>
    BY <1>1, <1>5 DEF LoopInv, HandleDelayed
  <2> QED BY <2>1, <2>2, PacketInv
<1>6. CASE ProcessResends
  <2>1. outbox' \subseteq Nat
    BY <1>1, <1>6, SendToAllFacts DEF LoopInv, ProcessResends
  <2> QED BY <1>1, <1>2, <1>6, <2>1 DEF ProcessResends, LoopInv
<1>7. CASE ProcessDelayedPackets
  <2>1. outbox' \subseteq Nat
    BY <1>1, <1>7 DEF LoopInv, ProcessDelayedPackets
  <2>2. phase' = "ticks" => \A due \in outbox' : due > now
    <3> SUFFICES ASSUME phase' = "ticks" PROVE \A due \in outbox' : due > now
      OBVIOUS
    <3>1. ~TopIsDue(outbox) /\ outbox' = outbox
      BY <1>7 DEF ProcessDelayedPackets
    <3> QED BY <1>1, <3>1, TopFacts DEF LoopInv
  <2>3. phase' \in {"send", "ticks"} /\ phase = "send"
    BY <1>7 DEF ProcessDelayedPackets
  <2> QED BY <1>1, <1>2, <1>7, <2>1, <2>2, <2>3 DEF ProcessDelayedPackets, LoopInv
<1>8. CASE TerminalFails
  BY <1>1, <1>2, <1>8 DEF TerminalFails, LoopInv
<1> QED BY <1>3, <1>4, <1>5, <1>6, <1>7, <1>8

\* TickInv: a tick accounts for its time, puts off nothing that is due, and
\* ends only sessions that have a connection.
LEMMA TickInv == ASSUME ServerInv, Tick PROVE ServerInv' /\ SettingsStep
<1>1. ConnsInv /\ EndsInv /\ LoopInv /\ ConsoleInv /\ KickInv
  BY DEF ServerInv
<1>2. PICK silent \in SUBSET Ids : Forget(silent, "Timeout")
  BY DEF Tick
<1>3. ConnsInv' /\ Ids' = Ids \ silent /\ SimsKept
  BY <1>1, <1>2, ForgetConns DEF Tick
<1>4. EndsInv' /\ EndsGrow
  <2>1. "Timeout" \in Reasons /\ "Timeout" # "Kicked"
    BY DEF Reasons
  <2> QED BY <1>1, <1>2, <2>1, ForgetEnds DEF Tick
<1>5. ConsoleInv' /\ KickInv'
  BY <1>1, <1>4, ConsoleKept, KickKept DEF Tick
<1>6. acc' = acc - StepTime /\ acc >= StepTime /\ tick' = tick + 1 /\ UNCHANGED <<phase, now, global, inbox>>
      /\ phase = "ticks"
  BY DEF Tick
<1>7. TimeKept' /\ acc' \in Nat /\ tick' \in Nat
  <2>1. StepTime \in Nat /\ tick \in Nat /\ acc \in Nat /\ now \in Nat
    BY <1>1, ServerAssumption DEF LoopInv
  <2>2. (tick + 1) * StepTime = tick * StepTime + StepTime
    BY <2>1
  <2>3. tick * StepTime \in Nat
    BY <2>1
  <2> DEFINE x == tick * StepTime
  <2>4. x + acc = now
    BY <1>1 DEF LoopInv, TimeKept
  <2> HIDE DEF x
  <2>5. x \in Nat
    BY <2>3 DEF x
  <2>6. (x + StepTime) + (acc - StepTime) = now
    BY <2>1, <2>4, <2>5
  <2>7. TimeKept'
    BY <1>6, <2>2, <2>6 DEF TimeKept, x
  <2> QED BY <1>6, <2>1, <2>7
<1>8. outbox' \subseteq Nat /\ \A due \in outbox' : due > now
  <2>1. outbox' \subseteq Nat /\ \A due \in outbox' \ outbox : due > now
    BY <1>1, SendToAllFacts DEF LoopInv, Tick
  <2> QED BY <1>1, <1>6, <2>1 DEF LoopInv, NothingOverdue
<1>9. LoopInv'
  BY <1>1, <1>6, <1>7, <1>8 DEF LoopInv, NothingOverdue
<1>10. SettingsStep
  BY <1>3 DEF SimsKept, SettingsStep
<1> QED BY <1>3, <1>4, <1>5, <1>9, <1>10 DEF ServerInv

\* TakePendingInv: the console's requests go to the client they were made for:
\* a kick ends the session that was chosen or one that has ended already, a
\* setting is the one that was saved for that client.
LEMMA TakePendingInv == ASSUME ServerInv, TakePending PROVE ServerInv' /\ SettingsStep
<1>1. ConnsInv /\ EndsInv /\ LoopInv /\ ConsoleInv /\ KickInv
  BY DEF ServerInv
<1>2. /\ phase = "ticks" /\ phase' = "key"
      /\ UNCHANGED <<running, now, acc, tick, global, nextId, inbox, outbox, chosen>>
      /\ console' = [console EXCEPT !.kick = Nobody, !.update = NoUpdate]
  BY DEF TakePending, loopVars
<1>3. nextId \in 1 .. MaxIds + 1 /\ MaxIds \in Nat
  BY <1>1, ConnsFacts DEF ConnsInv
<1>4. ConsoleInv' /\ console'.kick = Nobody
  <2>1. console \in Consoles(nextId) /\ 0 \in 0 .. nextId - 1
    BY <1>1, <1>3 DEF ConsoleInv
  <2>2. console' \in Consoles(nextId) /\ console'.kick = Nobody
    BY <1>2, <2>1 DEF Consoles, Nobody
  <2>3. ConsoleInv' <=> console' \in Consoles(nextId)
    BY <1>2 DEF ConsoleInv, Consoles, Panels, Updates, BothSims
  <2> QED BY <2>2, <2>3
<1>5. LoopInv'
  BY <1>1, <1>2 DEF LoopInv, NothingOverdue, TimeKept
<1>6. CASE console.kick # Nobody /\ KickClient(KickedId)
  <2> DEFINE k == console.kick
             ids == {k} \cap Ids
  <2>1. Forget(ids, "Kicked") /\ ids \in SUBSET Ids /\ "Kicked" \in Reasons
    BY <1>6 DEF KickClient, KickedId, Reasons
  <2>2. k \in chosen /\ \A id \in ids : id = k
    BY <1>1, <1>6 DEF KickInv
  <2>3. k \notin Ids => k \notin ids
    OBVIOUS
  <2>4. k \in Ids => k \in ids
    OBVIOUS
  <2>5. \A id \in chosen : ended[id] # << >> \/ k = id
    BY <1>1 DEF KickInv, KicksAreDone
  <2> HIDE DEF k, ids
  <2>6. ConnsInv' /\ Ids' = Ids \ ids /\ SimsKept
    BY <1>1, <1>2, <2>1, ForgetConns
  <2>7. /\ EndsInv'
        /\ \A id \in ids : ended'[id] = <<"Kicked">>
        /\ \A id \in (1 .. MaxIds) \ ids : ended'[id] = ended[id]
    BY <1>1, <1>2, <2>1, ForgetEnds
  <2>8. chosen \subseteq 1 .. MaxIds /\ \A id \in chosen : id < nextId
    BY <1>1, <1>3 DEF KickInv
  <2>9. KicksAreDone'
    <3> SUFFICES ASSUME NEW id \in chosen PROVE ended'[id] # << >>
      BY <1>2 DEF KicksAreDone
    <3>1. CASE id \in ids
      BY <2>7, <3>1
    <3>2. CASE id \notin ids
      <4>1. ended[id] # << >>
        <5>1. CASE id = k
          <6>1. id \notin Ids /\ id \in 1 .. MaxIds /\ id < nextId
            BY <2>4, <2>8, <3>2, <5>1
          <6>2. Len(ended[id]) = 1
            BY <1>1, <6>1 DEF EndsInv
          <6>3. Len(<< >>) = 0
            OBVIOUS
          <6> QED BY ONLY <6>2, <6>3
        <5> QED BY <2>5, <5>1
      <4> QED BY <2>7, <2>8, <3>2, <4>1
    <3> QED BY <3>1, <3>2
  <2>10. ASSUME NEW id \in 1 .. MaxIds, "Kicked" \in ToSet(ended'[id]) PROVE id \in chosen
    <3>1. CASE id \in ids
      BY <2>2, <3>1
    <3>2. CASE id \notin ids
      <4>1. ended'[id] = ended[id]
        BY <2>7, <3>2
      <4> QED BY <1>1, <1>2, <2>10, <4>1 DEF KickInv
    <3> QED BY <3>1, <3>2
  <2>11. KickInv'
    BY <1>1, <1>2, <1>4, <2>9, <2>10 DEF KickInv
  <2> QED BY <1>4, <1>5, <2>6, <2>7, <2>11 DEF ServerInv, SimsKept, SettingsStep
<1>7. CASE console.kick = Nobody /\ conns' = Updated(conns) /\ UNCHANGED ended
  <2> DEFINE F == Updated(conns)
  <2>1. console.update \in {NoUpdate} \cup Updates(nextId)
    BY <1>1 DEF ConsoleInv, Consoles
  <2>2. ASSUME NEW i \in DOMAIN conns
        PROVE  /\ F[i] \in Conn(nextId) /\ F[i].id = conns[i].id /\ F[i].addr = conns[i].addr
               /\ \/ F[i].sims = conns[i].sims
                  \/ console.update = [id |-> conns[i].id, sims |-> F[i].sims]
    <3>1. conns[i] \in Conn(nextId) /\ conns[i].id \in 1 .. nextId - 1
      BY <1>1, ConnsFacts
    <3>2. CASE conns[i].id = console.update.id
      <4>1. console.update \in Updates(nextId)
        <5>1. conns[i].id # 0
          BY <3>1
        <5> QED BY <2>1, <3>2, <5>1 DEF NoUpdate, Nobody
      <4>2. console.update = [id |-> conns[i].id, sims |-> console.update.sims]
            /\ console.update.sims \in BothSims
        BY <3>2, <4>1 DEF Updates
      <4>3. F[i] = [conns[i] EXCEPT !.sims = console.update.sims]
        BY <3>2 DEF Updated
      <4>4. /\ F[i] \in Conn(nextId) /\ F[i].id = conns[i].id /\ F[i].addr = conns[i].addr
            /\ F[i].sims = console.update.sims
        <5> HIDE DEF F
        <5> QED BY <3>1, <4>2, <4>3 DEF Conn
      <4> HIDE DEF F
      <4> QED BY <4>2, <4>4
    <3>3. CASE conns[i].id # console.update.id
      <4>1. F[i] = conns[i]
        BY <3>3 DEF Updated
      <4> QED BY <3>1, <4>1
    <3> QED BY <3>2, <3>3
  <2>3. F \in [DOMAIN conns -> Conn(nextId)]
    <3>1. F = [i \in DOMAIN conns |-> F[i]]
      BY DEF Updated
    <3> HIDE DEF F
    <3> QED BY <2>2, <3>1
  <2> HIDE DEF F
  <2>4. conns' = F
    BY <1>7 DEF F
  <2>5. ConnsInv' /\ Ids' = Ids
    BY <1>1, <1>2, <2>2, <2>3, <2>4, SameConns
  <2>6. EndsInv' /\ EndsGrow
    BY <1>1, <1>2, <1>7, <2>5, SameEnds
  <2>7. KickInv'
    <3>1. \A id \in chosen : ended[id] # << >>
      <4>1. \A id \in chosen : id # 0
        BY <1>1 DEF KickInv
      <4> QED BY <1>1, <1>7, <4>1 DEF KickInv, KicksAreDone, Nobody
    <3>2. KicksAreDone'
      BY <1>2, <1>7, <3>1 DEF KicksAreDone
    <3> QED BY <1>1, <1>2, <1>4, <1>7, <3>2 DEF KickInv
  <2>8. SettingsStep
    <3> SUFFICES ASSUME NEW i \in DOMAIN conns, NEW j \in DOMAIN conns',
                        conns[i].id = conns'[j].id, conns[i].sims # conns'[j].sims
                 PROVE  console.update = [id |-> conns[i].id, sims |-> conns'[j].sims]
      BY DEF SettingsStep, ToSet
    <3>1. j \in DOMAIN conns /\ F[j].id = conns[j].id
      BY <2>2, <2>3, <2>4
    <3>2. i = j
      BY <1>1, <2>4, <3>1 DEF ConnsInv, Distinct
    <3> QED BY <2>2, <2>4, <3>2
  <2> QED BY <1>4, <1>5, <2>5, <2>6, <2>7, <2>8 DEF ServerInv
<1> QED BY <1>6, <1>7 DEF TakePending

\* KeyInv: a key chooses at most one session, of those there are.
LEMMA KeyInv == ASSUME ServerInv, NEW key \in Keys, Key(key) PROVE ServerInv' /\ SettingsStep
<1>1. ConnsInv /\ EndsInv /\ LoopInv /\ ConsoleInv /\ KickInv
  BY DEF ServerInv
<1>2. /\ phase = "key" /\ phase' = "loop"
      /\ console' = PressKey(console, key, ClientInfos)
      /\ chosen' = IF console'.kick = Nobody THEN chosen ELSE chosen \cup {console'.kick}
      /\ UNCHANGED <<now, acc, tick, global, sessionVars, inbox, outbox>>
  BY DEF Key
<1>3. nextId \in 1 .. MaxIds + 1 /\ MaxIds \in Nat /\ nextId \in Nat
  BY <1>1, ConnsFacts DEF ConnsInv
<1>4. ConnsInv' /\ EndsInv' /\ Ids' = Ids /\ EndsGrow /\ SimsKept
  BY <1>1, <1>2, SameSessions
<1>5. console' \in Consoles(nextId)
  <2> DEFINE I == {i \in DOMAIN conns : conns[i].connected}
  <2>1. ClientInfos = Retain(conns, I) /\ I \in SUBSET DOMAIN conns
    BY DEF ClientInfos
  <2>2. conns \in Seq(Conn(nextId))
    BY <1>1 DEF ConnsInv
  <2> HIDE DEF I
  <2>3. ClientInfos \in Seq(Conn(nextId))
    BY <2>1, <2>2, RetainSeq
  <2>4. console \in Consoles(nextId)
    BY <1>1 DEF ConsoleInv
  <2> QED BY <1>2, <1>3, <2>3, <2>4, KeyTyped
<1>6. ConsoleInv'
  <2>1. nextId' = nextId
    BY <1>2 DEF sessionVars
  <2>2. ConsoleInv' <=> console' \in Consoles(nextId)
    BY <2>1 DEF ConsoleInv, Consoles, Panels, Updates, BothSims
  <2> QED BY <1>5, <2>2
<1>7. LoopInv'
  BY <1>1, <1>2, <1>4 DEF LoopInv, NothingOverdue, TimeKept
<1>8. KickInv'
  <2>1. UNCHANGED <<nextId, ended>>
    BY <1>2 DEF sessionVars
  <2>2. console'.kick \in 0 .. nextId - 1
    BY <1>5 DEF Consoles
  <2>3. chosen' \subseteq 1 .. nextId - 1
    <3>1. console'.kick # Nobody => console'.kick \in 1 .. nextId - 1
      BY <1>3, <2>2 DEF Nobody
    <3> QED BY <1>1, <1>2, <3>1 DEF KickInv
  <2>4. KicksAreDone'
    <3>1. \A id \in chosen : id # 0
      BY <1>1 DEF KickInv
    <3>2. \A id \in chosen : ended[id] # << >>
      BY <1>1, <1>2, <3>1 DEF KickInv, KicksAreDone, Nobody
    <3> QED BY <1>2, <2>1, <3>2 DEF KicksAreDone
  <2>5. chosen \subseteq chosen' /\ (console'.kick # Nobody => console'.kick \in chosen')
    BY <1>2
  <2> QED BY <1>1, <1>2, <2>1, <2>3, <2>4, <2>5 DEF KickInv
<1>9. SettingsStep
  BY <1>4 DEF SimsKept, SettingsStep
<1> QED BY <1>4, <1>6, <1>7, <1>8, <1>9 DEF ServerInv

\* ShutdownInv: the shutdown ends every session that is left.
LEMMA ShutdownInv == ASSUME ServerInv, Shutdown PROVE ServerInv' /\ SettingsStep
<1>1. ConnsInv /\ EndsInv /\ LoopInv /\ ConsoleInv /\ KickInv
  BY DEF ServerInv
<1>2. /\ phase' = "stopped" /\ Forget(Ids, "Kicked")
      /\ UNCHANGED <<now, acc, tick, global, nextId, inbox, outbox, console, chosen>>
  BY DEF Shutdown, loopVars
<1>3. ConnsInv' /\ Ids' = Ids \ Ids /\ SimsKept
  BY <1>1, <1>2, ForgetConns
<1>4. /\ EndsInv'
      /\ \A id \in Ids : ended'[id] = <<"Kicked">>
      /\ \A id \in (1 .. MaxIds) \ Ids : ended'[id] = ended[id]
  <2>1. "Kicked" \in Reasons /\ Ids \in SUBSET Ids
    BY DEF Reasons
  <2> QED BY <1>1, <1>2, <2>1, ForgetEnds
<1>5. ConsoleInv'
  BY <1>1, <1>2, ConsoleKept
<1>6. LoopInv'
  BY <1>1, <1>2, <1>3 DEF LoopInv, NothingOverdue, TimeKept
<1>7. KickInv'
  <2>1. chosen \subseteq 1 .. MaxIds
    BY <1>1, ConnsFacts DEF KickInv, ConnsInv
  <2>2. KicksAreDone'
    <3> SUFFICES ASSUME NEW id \in chosen PROVE ended'[id] # << >> \/ console.kick = id
      BY <1>2 DEF KicksAreDone
    <3>1. CASE id \in Ids
      BY <1>4, <3>1
    <3>2. CASE id \notin Ids
      BY <1>1, <1>4, <2>1, <3>2 DEF KickInv, KicksAreDone
    <3> QED BY <3>1, <3>2
  <2> QED BY <1>1, <1>2, <2>2 DEF KickInv
<1>8. SettingsStep
  BY <1>3 DEF SimsKept, SettingsStep
<1> QED BY <1>3, <1>4, <1>5, <1>6, <1>7, <1>8 DEF ServerInv

\* StepInv: every step keeps the invariant and the settings.
LEMMA StepInv == ASSUME ServerInv, [Next]_vars PROVE ServerInv' /\ SettingsStep
<1>1. CASE UNCHANGED vars
  <2>1. UNCHANGED <<phase, sessionVars, loopVars, inbox, outbox, console, chosen>>
    BY <1>1 DEF vars
  <2>2. ConnsInv /\ EndsInv /\ LoopInv /\ ConsoleInv /\ KickInv
    BY DEF ServerInv
  <2>3. ConnsInv' /\ EndsInv' /\ Ids' = Ids /\ EndsGrow /\ SimsKept
    BY <2>1, <2>2, SameSessions
  <2>4. ConsoleInv'
    BY <2>1, <2>2, ConsoleKept DEF sessionVars
  <2>5. LoopInv'
    BY <2>1, <2>2, <2>3 DEF LoopInv, NothingOverdue, TimeKept, loopVars
  <2>6. KickInv'
    BY <2>1, <2>2 DEF KickInv, KicksAreDone, sessionVars
  <2> QED BY <2>3, <2>4, <2>5, <2>6 DEF ServerInv, SimsKept, SettingsStep
<1>2. ASSUME NEW elapsed \in 0 .. MaxStall, BeginTickOnce(elapsed) PROVE ServerInv' /\ SettingsStep
  BY <1>2, BeginInv
<1>3. CASE \/ \E a \in Addrs, kind \in Kinds : Receive(a, kind)
           \/ EndReceive \/ HandleDelayed \/ ProcessResends \/ ProcessDelayedPackets \/ TerminalFails
  BY <1>3, NetworkInv
<1>4. ASSUME NEW key \in Keys, Key(key) PROVE ServerInv' /\ SettingsStep
  BY <1>4, KeyInv
<1> QED BY <1>1, <1>2, <1>3, <1>4, TickInv, TakePendingInv, ShutdownInv DEF Next
-----------------------------------------------------------------------------
\* ServerAlways: the strengthening holds in every reachable state.
THEOREM ServerAlways == Spec => []ServerInv
<1>1. ServerInv /\ [Next]_vars => ServerInv'
  BY StepInv
<1> QED BY <1>1, InitInv, PTL DEF Spec

\* KeepsUpAlways: for any step time, stalls, limits and latencies the
\* connections are well formed, the ticks and the accumulator account for all
\* the time, and no packet put off is overdue when the ticks begin (tick_once).
THEOREM KeepsUpAlways == Spec => []LoopKeepsUp
<1>1. ServerInv => LoopKeepsUp
  <2> SUFFICES ASSUME ServerInv PROVE LoopKeepsUp
    OBVIOUS
  <2>1. ConnsInv /\ LoopInv /\ ConsoleInv
    BY DEF ServerInv
  <2>2. console.panel \in {NoPanel} \cup Panels(nextId) /\ console.update \in {NoUpdate} \cup Updates(nextId)
    BY <2>1 DEF ConsoleInv, Consoles
  <2>3. /\ PanelOpen(console) => console.panel.sims \in BothSims
        /\ console.update # NoUpdate => console.update.sims \in BothSims
    BY <2>2 DEF PanelOpen, Panels, Updates
  <2>4. \A i \in DOMAIN conns :
          /\ conns[i] \in Conn(nextId)
          /\ \A j \in DOMAIN conns \ {i} : conns[j].id # conns[i].id /\ conns[j].addr # conns[i].addr
    BY <2>1, ConnsFacts DEF ConnsInv, Distinct
  <2> QED BY <2>1, <2>3, <2>4 DEF LoopKeepsUp, TypeOK, ConnsInv, LoopInv, Conn
<1> QED BY <1>1, ServerAlways, PTL

\* EndsOnceAlways: every session is reported as ended exactly once, by
\* whichever of the console, the client, the timeout and the shutdown comes
\* first (handle_disconnect, kick_client, cleanup_timed_out,
\* shutdown_connections), for any number of clients, ids, packets and keys.
THEOREM EndsOnceAlways == Spec => []EndsOnce
<1>1. ServerInv => EndsOnce
  <2> SUFFICES ASSUME ServerInv, NEW id \in 1 .. nextId - 1
               PROVE  Len(ended[id]) = IF id \in Ids /\ phase # "stopped" THEN 0 ELSE 1
    BY DEF EndsOnce
  <2>1. nextId \in 1 .. MaxIds + 1 /\ MaxIds \in Nat
    BY ConnsFacts DEF ConnsInv, ServerInv
  <2>2. id \in 1 .. MaxIds /\ id < nextId
    BY <2>1
  <2> QED BY <2>2 DEF ServerInv, EndsInv, LoopInv
<1> QED BY <1>1, ServerAlways, PTL

\* KicksAlways: for any keys, in whatever order clients come, go and fill the
\* list, the server kicks every session that was chosen and no other
\* (request_kick, take_pending_kick, kick_client).
THEOREM KicksAlways == Spec => []KicksAreObeyed
<1>1. ServerInv => KicksAreObeyed
  <2> SUFFICES ASSUME ServerInv PROVE KicksAreObeyed
    OBVIOUS
  <2>1. nextId \in 1 .. MaxIds + 1 /\ MaxIds \in Nat
    BY ConnsFacts DEF ConnsInv, ServerInv
  <2>2. \A id \in 1 .. nextId - 1 : id \in 1 .. MaxIds
    BY <2>1
  <2> QED BY <2>2 DEF ServerInv, KickInv, KicksAreObeyed, KicksAreChosen
<1> QED BY <1>1, ServerAlways, PTL

\* SettingsAlways: without a global simulation no step gives a connection
\* another simulation than the one that was saved for it
\* (handle_connection_request, set_packet_loss_sim).
THEOREM SettingsAlways == Spec => SettingsLast
<1>1. ServerInv /\ [Next]_vars => [SettingsStep]_vars
  BY StepInv
<1>2. [SettingsStep]_vars =>
        [~global.enabled =>
           \A c \in ToSet(conns), d \in ToSet(conns') :
             c.id = d.id /\ c.sims # d.sims => console.update = [id |-> c.id, sims |-> d.sims]]_vars
  BY DEF SettingsStep
<1> QED BY <1>1, <1>2, ServerAlways, PTL DEF Spec, SettingsLast
=============================================================================

--------------------------- MODULE SnapshotProofs ---------------------------
(***************************************************************************)
(* Faithful is an invariant of SnapshotSync, for any number of entities,   *)
(* any sizes of the ring and of the store, any latency and whatever is     *)
(* lost or reordered.                                                      *)
(*                                                                         *)
(* The argument: every place that holds a snapshot of tick t (the ring of  *)
(* the server, the network, the client's store, its known entities) holds  *)
(* past[t] or, in a delta, the difference between past[t] and the past of  *)
(* its baseline; and past only grows.  A delta applied to the past of its  *)
(* baseline gives past[t], wherever the client found that baseline.        *)
(*                                                                         *)
(* SnapshotsAreUsable needs timely links (TimelyAssumption).  Its          *)
(* invariant TimelyInv says of every tick that the client acknowledged,    *)
(* and of every baseline under way, that the client still stores it unless *)
(* it is Retention ticks old (KeptAt).  push_snapshot keeps it so: what it *)
(* drops is at least Retention ticks old (OldestIsOld), for the store is   *)
(* full of different ticks that are all younger than it.                   *)
(***************************************************************************)
EXTENDS SnapshotSync, Facts

\* What a delta says of w against b
Changes(w, b) == [e \in Entity |-> IF w[e] = b[e] THEN Absent ELSE w[e]]
Gone(w, b)    == {e \in Entity : b[e] # Absent /\ w[e] = Absent}

\* A delta applied to b
Apply(entities, removed, b) ==
  [e \in Entity |-> IF e \in removed THEN Absent
                    ELSE IF entities[e] # Absent THEN entities[e] ELSE b[e]]

\* The slot s of the ring is empty or the world at its tick
SlotFaithful(s, n, h) == s.tick # 0 => s.tick \in 1 .. n /\ s.entities = h[s.tick]

\* The snapshot d is the world at its tick, or the difference to an earlier one
SnapFaithful(d, n, h) ==
  /\ d.tick \in 1 .. n
  /\ ~d.delta => d.entities = h[d.tick]
  /\ d.delta => /\ d.base \in 1 .. n
                /\ d.entities = Changes(h[d.tick], h[d.base])
                /\ d.removed = Gone(h[d.tick], h[d.base])

StoreFaithful(s, n, h) == s.tick \in 1 .. n /\ s.entities = h[s.tick]

HistoryInv ==
  /\ tick \in Nat
  /\ world \in World
  /\ past \in Seq(World)
  /\ Len(past) = tick

RingInv ==
  /\ ring \in [0 .. BufferSize - 1 -> Snapshot]
  /\ \A i \in 0 .. BufferSize - 1 : SlotFaithful(ring[i], tick, past)

AckInv == lastAcked \in Nat /\ acks \subseteq Nat

NetInv == \A d \in snaps : SnapFaithful(d, tick, past)

ClientInv ==
  /\ \A s \in stored : StoreFaithful(s, tick, past)
  /\ knowledge \in 0 .. tick
  /\ knowledge # 0 => known = past[knowledge]

\* FaithfulInv: the strengthening of Faithful that the steps preserve
FaithfulInv == HistoryInv /\ RingInv /\ AckInv /\ NetInv /\ ClientInv
-----------------------------------------------------------------------------
\* DeltaApplies: the changes and removals from b to w, applied to b, give w:
\* what delta_from_baseline leaves out is what expand_snapshot fills in.
LEMMA DeltaApplies ==
  ASSUME NEW w \in World, NEW b \in World
  PROVE  Apply(Changes(w, b), Gone(w, b), b) = w
<1> DEFINE r == Apply(Changes(w, b), Gone(w, b), b)
<1>1. \A e \in Entity : Changes(w, b)[e] = IF w[e] = b[e] THEN Absent ELSE w[e]
  BY DEF Changes
<1>2. ASSUME NEW e \in Entity PROVE r[e] = w[e]
  <2>1. r[e] = IF e \in Gone(w, b) THEN Absent
               ELSE IF Changes(w, b)[e] # Absent THEN Changes(w, b)[e] ELSE b[e]
    BY DEF Apply
  <2>2. e \in Gone(w, b) <=> b[e] # Absent /\ w[e] = Absent
    BY DEF Gone
  <2> QED BY <1>1, <2>1, <2>2
<1>3. r = [e \in Entity |-> r[e]]
  BY DEF Apply
<1>4. w = [e \in Entity |-> w[e]]
  BY DEF World
<1> QED BY <1>2, <1>3, <1>4

\* PastGrows: appending a world to the history of n ticks adds the entry n + 1
\* and changes none.
LEMMA PastGrows ==
  ASSUME NEW n \in Nat, NEW h \in Seq(World), Len(h) = n, NEW w \in World
  PROVE  /\ Append(h, w) \in Seq(World)
         /\ Len(Append(h, w)) = n + 1
         /\ Append(h, w)[n + 1] = w
         /\ \A t \in 1 .. n : Append(h, w)[t] = h[t]
OBVIOUS

\* PastInWorld: every entry of the history is a world.
LEMMA PastInWorld ==
  ASSUME HistoryInv, NEW t \in 1 .. tick
  PROVE  past[t] \in World
BY DEF HistoryInv

\* InitFaithful: the strengthened invariant holds initially.
LEMMA InitFaithful == Init => FaithfulInv
<1> SUFFICES ASSUME Init PROVE FaithfulInv
  OBVIOUS
<1> USE DEF Init
<1>1. HistoryInv
  BY DEF HistoryInv
<1>2. NoWorld \in World
  BY DEF NoWorld, World
<1>3. FullSnapshot(NoWorld, 0) \in Snapshot
  BY <1>2 DEF FullSnapshot, Snapshot
<1>4. RingInv
  BY <1>3 DEF RingInv, SlotFaithful, FullSnapshot
<1>5. AckInv /\ NetInv /\ ClientInv
  BY DEF AckInv, NetInv, ClientInv
<1> QED BY <1>1, <1>4, <1>5 DEF FaithfulInv
-----------------------------------------------------------------------------
\* TickHistory: a tick appends the new world to the history.
LEMMA TickHistory ==
  ASSUME HistoryInv, NEW w \in World,
         tick' = tick + 1, past' = Append(past, w), world' = w
  PROVE  /\ HistoryInv'
         /\ past'[tick + 1] = w
         /\ \A t \in 1 .. tick : past'[t] = past[t]
<1>1. tick \in Nat /\ past \in Seq(World) /\ Len(past) = tick
  BY DEF HistoryInv
<1>2. /\ Append(past, w) \in Seq(World)
      /\ Len(Append(past, w)) = tick + 1
      /\ Append(past, w)[tick + 1] = w
      /\ \A t \in 1 .. tick : Append(past, w)[t] = past[t]
  BY <1>1, PastGrows
<1> QED BY <1>1, <1>2 DEF HistoryInv

\* TickRing: after a tick every slot of the ring still holds the past; the
\* slot that is overwritten holds the new world.
LEMMA TickRing ==
  ASSUME HistoryInv, RingInv, NEW w \in World,
         tick' = tick + 1, past'[tick + 1] = w,
         \A t \in 1 .. tick : past'[t] = past[t],
         ring' = Push(ring, FullSnapshot(w, tick + 1))
  PROVE  RingInv'
<1> DEFINE s == FullSnapshot(w, tick + 1)
           k == (tick + 1) % BufferSize
<1>1. tick \in Nat /\ ring \in [0 .. BufferSize - 1 -> Snapshot]
  BY DEF HistoryInv, RingInv
<1>2. s \in Snapshot /\ s.tick = tick + 1 /\ s.entities = w
  BY <1>1 DEF FullSnapshot, Snapshot
<1>3. ring' = [ring EXCEPT ![k] = s]
  BY <1>2 DEF Push
<1> HIDE DEF s, k
<1>4. ring' \in [0 .. BufferSize - 1 -> Snapshot]
  BY <1>1, <1>2, <1>3
<1>5. ASSUME NEW i \in 0 .. BufferSize - 1
      PROVE  SlotFaithful(ring'[i], tick + 1, past')
  <2>1. CASE ring'[i] = s
    BY <1>1, <1>2, <2>1 DEF SlotFaithful
  <2>2. CASE ring'[i] = ring[i]
    <3>1. SlotFaithful(ring[i], tick, past)
      BY DEF RingInv
    <3> QED BY <1>1, <2>2, <3>1 DEF SlotFaithful
  <2> QED BY <1>1, <1>3, <2>1, <2>2
<1> QED BY <1>4, <1>5 DEF RingInv

\* GeneratedFaithful: the snapshot generated for the world of the last tick is
\* that world, or its difference to the tick it names as its baseline.
LEMMA GeneratedFaithful ==
  ASSUME NEW n \in Nat, NEW h, NEW r, BufferSize \in Nat \ {0}, lastAcked \in Nat,
         n # 0,
         \A i \in 0 .. BufferSize - 1 : SlotFaithful(r[i], n, h)
  PROVE  SnapFaithful(GenerateClientSnapshot(h[n], n, r), n, h)
<1> DEFINE b == r[lastAcked % BufferSize]
           d == GenerateClientSnapshot(h[n], n, r)
<1>1. CASE d = FullSnapshot(h[n], n)
  BY <1>1 DEF FullSnapshot, SnapFaithful
<1>2. CASE lastAcked > 0 /\ Holds(r, lastAcked) /\ d = DeltaFromBaseline(h[n], n, b)
  <2>1. lastAcked % BufferSize \in 0 .. BufferSize - 1
    OBVIOUS
  <2>2. SlotFaithful(b, n, h)
    BY <2>1
  <2>3. b.tick = lastAcked
    BY <1>2 DEF Holds
  <2>4. b.tick \in 1 .. n /\ b.entities = h[b.tick]
    BY <1>2, <2>2, <2>3 DEF SlotFaithful
  <2> HIDE DEF b
  <2>5. /\ d.tick = n /\ d.delta /\ d.base = b.tick
        /\ d.entities = Changes(h[n], b.entities)
        /\ d.removed = Gone(h[n], b.entities)
    BY <1>2 DEF DeltaFromBaseline, Changes, Gone
  <2> QED BY <2>4, <2>5 DEF SnapFaithful
<1> QED BY <1>1, <1>2 DEF GenerateClientSnapshot

\* ExpandedFaithful: whatever baseline expand_snapshot takes, the entities the
\* client knows or a stored snapshot, the result is the world at the tick.
LEMMA ExpandedFaithful ==
  ASSUME HistoryInv, ClientInv, NEW d, SnapFaithful(d, tick, past), Expandable(d)
  PROVE  Expanded(d) = past[d.tick]
<1>1. CASE ~d.delta
  BY <1>1 DEF SnapFaithful, Expanded
<1>2. CASE d.delta
  <2> DEFINE b == past[d.base]
             w == past[d.tick]
  <2>1. d.tick \in 1 .. tick /\ d.base \in 1 .. tick
    BY <1>2 DEF SnapFaithful
  <2>2. b \in World /\ w \in World
    BY <2>1, PastInWorld
  <2>3. d.entities = Changes(w, b) /\ d.removed = Gone(w, b)
    BY <1>2 DEF SnapFaithful
  <2>4. Baseline(d) = b
    <3>1. CASE d.base = knowledge
      BY <2>1, <3>1 DEF HistoryInv, ClientInv, Baseline
    <3>2. CASE d.base # knowledge
      <4> DEFINE s == CHOOSE x \in stored : x.tick = d.base
      <4>1. \E x \in stored : x.tick = d.base
        BY <1>2, <3>2 DEF Expandable, IsStored
      <4>2. s \in stored /\ s.tick = d.base
        BY <4>1
      <4>3. s.entities = b
        BY <4>2 DEF ClientInv, StoreFaithful
      <4> QED BY <3>2, <4>3 DEF Baseline, StoredAt
    <3> QED BY <3>1, <3>2
  <2>5. Expanded(d) = Apply(d.entities, d.removed, Baseline(d))
    BY <1>2 DEF Expanded, Apply
  <2> HIDE DEF b, w
  <2>6. Expanded(d) = Apply(Changes(w, b), Gone(w, b), b)
    BY <2>3, <2>4, <2>5
  <2> QED BY <2>2, <2>6, DeltaApplies DEF w
<1> QED BY <1>1, <1>2

\* CappedKeeps: push_snapshot drops snapshots and adds none.
LEMMA CappedKeeps ==
  ASSUME NEW S
  PROVE  Capped(S) \subseteq S
BY DEF Capped
-----------------------------------------------------------------------------
\* TickFaithful: a tick preserves the invariant.
LEMMA TickFaithful ==
  ASSUME FaithfulInv, Tick
  PROVE  FaithfulInv'
<1>1. HistoryInv /\ RingInv /\ AckInv /\ NetInv /\ ClientInv
  BY DEF FaithfulInv
<1>2. PICK w \in World :
        /\ world' = w
        /\ tick' = tick + 1
        /\ ring' = Push(ring, FullSnapshot(w, tick + 1))
        /\ \/ snaps' = snaps \cup {GenerateClientSnapshot(w, tick + 1, ring')}
           \/ snaps' = snaps
        /\ past' = Append(past, w)
  BY DEF Tick
<1>3. UNCHANGED <<lastAcked, acks, stored, known, knowledge>>
  BY DEF Tick, clientVars
<1>4. /\ HistoryInv'
      /\ past'[tick + 1] = w
      /\ \A t \in 1 .. tick : past'[t] = past[t]
  BY <1>1, <1>2, TickHistory
<1>5. RingInv'
  BY <1>1, <1>2, <1>4, TickRing
<1>6. AckInv'
  BY <1>1, <1>3 DEF AckInv
<1>7. tick \in Nat /\ tick' = tick + 1 /\ \A t \in 1 .. tick : past'[t] = past[t]
  BY <1>1, <1>2, <1>4 DEF HistoryInv
<1>8. NetInv'
  <2>1. ASSUME NEW d \in snaps PROVE SnapFaithful(d, tick', past')
    <3>1. SnapFaithful(d, tick, past)
      BY <1>1 DEF NetInv
    <3> QED BY <1>7, <3>1 DEF SnapFaithful
  <2>2. SnapFaithful(GenerateClientSnapshot(w, tick + 1, ring'), tick', past')
    <3>1. \A i \in 0 .. BufferSize - 1 : SlotFaithful(ring'[i], tick + 1, past')
      BY <1>5, <1>7 DEF RingInv
    <3>2. BufferSize \in Nat \ {0} /\ lastAcked \in Nat /\ tick + 1 \in Nat /\ tick + 1 # 0
      BY <1>1, <1>7, SnapshotAssumption DEF AckInv
    <3>3. SnapFaithful(GenerateClientSnapshot(past'[tick + 1], tick + 1, ring'), tick + 1, past')
      BY <3>1, <3>2, GeneratedFaithful
    <3> QED BY <1>4, <1>7, <3>3
  <2> QED BY <1>2, <2>1, <2>2 DEF NetInv
<1>9. ClientInv'
  <2>1. ASSUME NEW s \in stored PROVE StoreFaithful(s, tick', past')
    <3>1. StoreFaithful(s, tick, past)
      BY <1>1 DEF ClientInv
    <3> QED BY <1>7, <3>1 DEF StoreFaithful
  <2>2. knowledge \in 0 .. tick' /\ (knowledge # 0 => known = past'[knowledge])
    BY <1>1, <1>7 DEF ClientInv
  <2> QED BY <1>3, <2>1, <2>2 DEF ClientInv
<1> QED BY <1>4, <1>5, <1>6, <1>8, <1>9 DEF FaithfulInv

\* HandleSnapshotFaithful: a snapshot that arrives, expanded or not, preserves
\* the invariant.
LEMMA HandleSnapshotFaithful ==
  ASSUME FaithfulInv, NEW d \in snaps, HandleSnapshot(d)
  PROVE  FaithfulInv'
<1>1. HistoryInv /\ RingInv /\ AckInv /\ NetInv /\ ClientInv
  BY DEF FaithfulInv
<1>2. UNCHANGED <<world, tick, ring, lastAcked, past>>
  BY DEF HandleSnapshot, serverVars
<1>3. SnapFaithful(d, tick, past)
  BY <1>1 DEF NetInv
<1>4. HistoryInv' /\ RingInv'
  BY <1>1, <1>2 DEF HistoryInv, RingInv
<1>5. AckInv'
  <2>1. acks' = acks \cup {d.tick}
    BY DEF HandleSnapshot
  <2>2. d.tick \in Nat
    BY <1>1, <1>3 DEF HistoryInv, SnapFaithful
  <2> QED BY <1>1, <1>2, <2>1, <2>2 DEF AckInv
<1>6. NetInv'
  <2>1. snaps' \subseteq snaps
    BY DEF HandleSnapshot
  <2> QED BY <1>1, <1>2, <2>1 DEF NetInv
<1>7. ClientInv'
  <2>1. CASE Expandable(d)
    <3> DEFINE x == [tick |-> d.tick, entities |-> Expanded(d)]
    <3>1. stored' = Capped(stored \cup {x}) /\ known' = Expanded(d) /\ knowledge' = d.tick
      BY <2>1 DEF HandleSnapshot
    <3>2. Expanded(d) = past[d.tick]
      BY <1>1, <1>3, <2>1, ExpandedFaithful
    <3>3. StoreFaithful(x, tick, past)
      BY <1>3, <3>2 DEF StoreFaithful, SnapFaithful
    <3> HIDE DEF x
    <3>4. stored' \subseteq stored \cup {x}
      BY <3>1, CappedKeeps
    <3>5. \A s \in stored' : StoreFaithful(s, tick, past)
      BY <1>1, <3>3, <3>4 DEF ClientInv
    <3>6. knowledge' \in 0 .. tick /\ known' = past[knowledge']
      BY <1>1, <1>3, <3>1, <3>2 DEF SnapFaithful, HistoryInv
    <3> QED BY <1>2, <3>5, <3>6 DEF ClientInv
  <2>2. CASE ~Expandable(d)
    <3>1. UNCHANGED <<stored, known, knowledge>>
      BY <2>2 DEF HandleSnapshot
    <3> QED BY <1>1, <1>2, <3>1 DEF ClientInv
  <2> QED BY <2>1, <2>2
<1> QED BY <1>4, <1>5, <1>6, <1>7 DEF FaithfulInv

\* OthersFaithful: so do the steps that move no snapshot into the client, and
\* stuttering.
LEMMA OthersFaithful ==
  ASSUME FaithfulInv,
         \/ Spawn
         \/ \E e \in Entity : Despawn(e)
         \/ \E t \in acks : HandleSnapshotAck(t)
         \/ CleanupOldSnapshots
         \/ UNCHANGED vars
  PROVE  FaithfulInv'
<1>1. HistoryInv /\ RingInv /\ AckInv /\ NetInv /\ ClientInv
  BY DEF FaithfulInv
<1>2. UNCHANGED <<tick, ring, past, snaps, known, knowledge>>
  BY DEF Spawn, Despawn, HandleSnapshotAck, CleanupOldSnapshots, vars, serverVars, clientVars
<1>3. world' \in World
  <2>1. world \in World
    BY <1>1 DEF HistoryInv
  <2>2. CASE Spawn
    BY <2>1, <2>2 DEF Spawn, World
  <2>3. ASSUME NEW e \in Entity, Despawn(e) PROVE world' \in World
    BY <2>1, <2>3 DEF Despawn, World
  <2>4. CASE world' = world
    BY <2>1, <2>4
  <2> QED
    BY <2>2, <2>3, <2>4 DEF HandleSnapshotAck, CleanupOldSnapshots, vars, serverVars
<1>4. HistoryInv' /\ RingInv' /\ NetInv'
  BY <1>1, <1>2, <1>3 DEF HistoryInv, RingInv, NetInv
<1>5. AckInv'
  BY <1>1 DEF AckInv, Spawn, Despawn, HandleSnapshotAck, CleanupOldSnapshots, vars,
              serverVars, clientVars
<1>6. stored' \subseteq stored
  BY DEF Spawn, Despawn, HandleSnapshotAck, CleanupOldSnapshots, vars, clientVars
<1>7. ClientInv'
  BY <1>1, <1>2, <1>6 DEF ClientInv
<1> QED BY <1>4, <1>5, <1>7 DEF FaithfulInv

\* FaithfulStep: every step preserves the strengthening.
LEMMA FaithfulStep == ASSUME FaithfulInv, [Next]_vars PROVE FaithfulInv'
<1>1. CASE Tick
  BY <1>1, TickFaithful
<1>2. ASSUME NEW d \in snaps, HandleSnapshot(d) PROVE FaithfulInv'
  BY <1>2, HandleSnapshotFaithful
<1>3. CASE \/ Spawn
           \/ \E e \in Entity : Despawn(e)
           \/ \E t \in acks : HandleSnapshotAck(t)
           \/ CleanupOldSnapshots
           \/ UNCHANGED vars
  BY <1>3, OthersFaithful
<1> QED BY <1>1, <1>2, <1>3 DEF Next
-----------------------------------------------------------------------------
\* FaithfulAlways: every snapshot the client stores, and what it knows, is the
\* world at its tick (generate_client_snapshot, delta_from_baseline,
\* expand_snapshot, push_snapshot), for any number of entities, any sizes and
\* latency, and whatever is lost or reordered.
THEOREM FaithfulAlways == Spec => []Faithful
<1>1. Init => FaithfulInv
  BY InitFaithful
<1>2. FaithfulInv /\ [Next]_vars => FaithfulInv'
  BY FaithfulStep
<1>3. FaithfulInv => Faithful
  BY DEF FaithfulInv, ClientInv, StoreFaithful, Faithful
<1> QED BY <1>1, <1>2, <1>3, PTL DEF Spec
-----------------------------------------------------------------------------
(* The types, and every delta expands.                                     *)

Stored == [tick : 1 .. tick, entities : World]

\* SyncType: what TypeOK says beyond FaithfulInv
SyncType ==
  /\ tick <= MaxTick
  /\ nextEntity \in 1 .. MaxEntity + 1
  /\ lastAcked \in 0 .. tick
  /\ snaps \subseteq Snapshot
  /\ acks \subseteq 1 .. tick
  /\ stored \subseteq Stored
  /\ IsFiniteSet(stored) /\ Cardinality(stored) <= MaxBuffer
  /\ known \in World
  /\ ready \in BOOLEAN
  /\ failed \subseteq 1 .. tick

\* CappedFacts: push_snapshot drops one snapshot, the oldest, when there are
\* too many.
LEMMA CappedFacts ==
  ASSUME NEW S, IsFiniteSet(S), Cardinality(S) <= MaxBuffer + 1, \A s \in S : s.tick \in Nat
  PROVE  /\ IsFiniteSet(Capped(S)) /\ Cardinality(Capped(S)) <= MaxBuffer
         /\ \/ Capped(S) = S
            \/ /\ Cardinality(S) > MaxBuffer
               /\ \E o \in S : Capped(S) = S \ {o} /\ \A r \in S : o.tick <= r.tick
<1>1. Cardinality(S) \in Nat /\ MaxBuffer \in Nat \ {0}
  BY FS_CardinalityType, SnapshotAssumption
<1>2. CASE Cardinality(S) <= MaxBuffer
  BY <1>2 DEF Capped
<1>3. CASE ~(Cardinality(S) <= MaxBuffer)
  <2> DEFINE o == CHOOSE s \in S : \A r \in S : s.tick <= r.tick
             T == {s.tick : s \in S}
  <2>1. S # {}
    BY <1>1, <1>3, FS_EmptySet
  <2>2. T \subseteq Nat /\ T # {}
    BY <2>1
  <2>3. PICK x \in T : \A y \in T : x <= y
    <3> HIDE DEF T
    <3> QED BY <2>2, LeastNatural
  <2>4. \E s \in S : \A r \in S : s.tick <= r.tick
    BY <2>3
  <2>5. o \in S /\ \A r \in S : o.tick <= r.tick
    BY <2>4
  <2>6. Capped(S) = S \ {o}
    BY <1>3 DEF Capped
  <2> HIDE DEF o
  <2>7. IsFiniteSet(S \ {o}) /\ Cardinality(S \ {o}) = Cardinality(S) - 1
    BY <2>5, FS_RemoveElement
  <2> QED BY <1>1, <1>3, <2>5, <2>6, <2>7
<1> QED BY <1>2, <1>3

\* PushedFacts: the store after push_snapshot.
LEMMA PushedFacts ==
  ASSUME SyncType, tick \in Nat, NEW x \in Stored
  PROVE  LET S == stored \cup {x}
         IN  /\ Capped(S) \subseteq Stored
             /\ IsFiniteSet(S)
             /\ IsFiniteSet(Capped(S)) /\ Cardinality(Capped(S)) <= MaxBuffer
             /\ \/ Capped(S) = S
                \/ /\ Cardinality(S) > MaxBuffer
                   /\ \E o \in S : Capped(S) = S \ {o} /\ \A r \in S : o.tick <= r.tick
<1> DEFINE S == stored \cup {x}
<1>1. IsFiniteSet(S) /\ Cardinality(S) <= MaxBuffer + 1
  <2>1. IsFiniteSet(stored) /\ Cardinality(stored) <= MaxBuffer
    BY DEF SyncType
  <2>2. Cardinality(stored) \in Nat /\ MaxBuffer \in Nat
    BY <2>1, FS_CardinalityType, SnapshotAssumption
  <2>3. /\ IsFiniteSet(stored \cup {x})
        /\ \/ Cardinality(stored \cup {x}) = Cardinality(stored)
           \/ Cardinality(stored \cup {x}) = Cardinality(stored) + 1
    BY <2>1, FS_AddElement
  <2>4. Cardinality(stored \cup {x}) <= MaxBuffer + 1
    BY <2>1, <2>2, <2>3
  <2> QED BY <2>3, <2>4
<1>2. S \subseteq Stored
  BY DEF SyncType
<1>3. \A s \in S : s.tick \in Nat
  BY <1>2 DEF Stored
<1> HIDE DEF S
<1>4. Capped(S) \subseteq S
  BY CappedKeeps
<1> QED BY <1>1, <1>2, <1>3, <1>4, CappedFacts DEF S

\* GeneratedTyped: generate_client_snapshot returns a snapshot.
LEMMA GeneratedTyped ==
  ASSUME NEW w \in World, NEW t \in Nat, NEW r \in [0 .. BufferSize - 1 -> Snapshot], lastAcked \in Nat
  PROVE  LET d == GenerateClientSnapshot(w, t, r)
         IN  /\ d \in Snapshot /\ d.tick = t
             /\ d.delta => /\ d.base = lastAcked /\ lastAcked > 0
                           /\ t - lastAcked < MaxDeltaAge
<1> DEFINE b == r[lastAcked % BufferSize]
           d == GenerateClientSnapshot(w, t, r)
<1>1. lastAcked % BufferSize \in 0 .. BufferSize - 1
  BY SnapshotAssumption
<1>2. b \in Snapshot
  BY <1>1
<1>3. CASE d = FullSnapshot(w, t)
  BY <1>3 DEF FullSnapshot, Snapshot
<1>4. CASE /\ lastAcked > 0 /\ t - lastAcked < MaxDeltaAge
           /\ Holds(r, lastAcked) /\ d = DeltaFromBaseline(w, t, b)
  <2>1. b.tick = lastAcked
    BY <1>4 DEF Holds
  <2> HIDE DEF b
  <2>2. [e \in Entity |-> IF w[e] = b.entities[e] THEN Absent ELSE w[e]] \in World
    BY DEF World
  <2>3. {e \in Entity : b.entities[e] # Absent /\ w[e] = Absent} \in SUBSET Entity
    OBVIOUS
  <2>4. DeltaFromBaseline(w, t, b) \in Snapshot
    BY <2>1, <2>2, <2>3 DEF DeltaFromBaseline, Snapshot
  <2>5. DeltaFromBaseline(w, t, b).tick = t /\ DeltaFromBaseline(w, t, b).base = b.tick
    BY DEF DeltaFromBaseline
  <2> QED BY <1>4, <2>1, <2>4, <2>5
<1> QED BY <1>3, <1>4 DEF GenerateClientSnapshot

\* SyncTypeInit: they have their types at first.
LEMMA SyncTypeInit == Init => SyncType
<1> SUFFICES ASSUME Init PROVE SyncType
  OBVIOUS
<1>1. NoWorld \in World
  BY DEF NoWorld, World
<1>2. IsFiniteSet(stored) /\ Cardinality(stored) <= MaxBuffer
  BY FS_EmptySet, SnapshotAssumption DEF Init
<1> QED BY <1>1, <1>2, SnapshotAssumption DEF Init, SyncType

\* SyncTypeStep: every step keeps them.
LEMMA SyncTypeStep ==
  ASSUME FaithfulInv, SyncType, [Next]_vars
  PROVE  SyncType'
<1>1. /\ tick \in Nat /\ world \in World /\ ring \in [0 .. BufferSize - 1 -> Snapshot]
      /\ lastAcked \in Nat /\ \A d \in snaps : SnapFaithful(d, tick, past)
      /\ FaithfulInv'
  <2>1. FaithfulInv'
    BY FaithfulStep
  <2> QED BY <2>1 DEF FaithfulInv, HistoryInv, RingInv, AckInv, NetInv
<1>2. CASE Tick
  <2>1. PICK w \in World :
          /\ tick' = tick + 1
          /\ ring' = Push(ring, FullSnapshot(w, tick + 1))
          /\ \/ snaps' = snaps \cup {GenerateClientSnapshot(w, tick + 1, ring')}
             \/ snaps' = snaps
    BY <1>2 DEF Tick
  <2>2. /\ UNCHANGED <<nextEntity, lastAcked, acks, stored, known, ready, failed>>
        /\ tick' <= MaxTick
    BY <1>1, <1>2, SnapshotAssumption DEF Tick, clientVars
  <2>3. GenerateClientSnapshot(w, tick + 1, ring') \in Snapshot
    <3>1. ring' \in [0 .. BufferSize - 1 -> Snapshot]
      BY <1>1 DEF FaithfulInv, RingInv
    <3> QED BY <1>1, <3>1, GeneratedTyped
  <2>4. snaps' \subseteq Snapshot
    BY <2>1, <2>3 DEF SyncType
  <2>5. \A i \in 0 .. tick : i \in 0 .. tick'
    BY <1>1, <2>1
  <2>6. \A i \in 1 .. tick : i \in 1 .. tick'
    BY <1>1, <2>1
  <2>7. stored \subseteq Stored'
    BY <2>6 DEF SyncType, Stored
  <2> QED BY <2>2, <2>4, <2>5, <2>6, <2>7 DEF SyncType
<1>3. CASE Spawn \/ \E e \in Entity : Despawn(e)
  <2>1. /\ UNCHANGED <<tick, lastAcked, snaps, acks, stored, known, ready, failed>>
        /\ \/ nextEntity' = nextEntity
           \/ nextEntity <= MaxEntity /\ nextEntity' = nextEntity + 1
    BY <1>3 DEF Spawn, Despawn, clientVars
  <2>2. nextEntity' \in 1 .. MaxEntity + 1
    BY <2>1, SnapshotAssumption DEF SyncType
  <2> QED BY <2>1, <2>2 DEF SyncType, Stored
<1>4. ASSUME NEW t \in acks, HandleSnapshotAck(t) PROVE SyncType'
  <2>1. /\ UNCHANGED <<tick, nextEntity, snaps, stored, known, ready, failed>>
        /\ acks' \subseteq acks /\ lastAcked' \in {t, lastAcked}
    BY <1>4 DEF HandleSnapshotAck, clientVars
  <2>2. lastAcked' \in 0 .. tick
    BY <1>1, <2>1 DEF SyncType
  <2> QED BY <2>1, <2>2 DEF SyncType, Stored
<1>5. ASSUME NEW d \in snaps, HandleSnapshot(d) PROVE SyncType'
  <2>1. /\ UNCHANGED <<tick, nextEntity, lastAcked>>
        /\ snaps' \subseteq snaps /\ acks' = acks \cup {d.tick}
    BY <1>5 DEF HandleSnapshot, serverVars
  <2>2. d \in Snapshot /\ d.tick \in 1 .. tick
    BY <1>1 DEF SyncType, SnapFaithful
  <2>3. CASE Expandable(d)
    <3> DEFINE x == [tick |-> d.tick, entities |-> Expanded(d)]
               S == stored \cup {x}
    <3>1. /\ stored' = Capped(S) /\ known' = Expanded(d) /\ UNCHANGED failed
          /\ ready' = (ready \/ Cardinality(stored') >= MinBuffer)
      BY <1>5, <2>3 DEF HandleSnapshot
    <3>2. Expanded(d) \in World
      <4>1. Expanded(d) = past[d.tick]
        BY <1>1, <2>3, ExpandedFaithful DEF FaithfulInv
      <4> QED BY <2>2, <4>1, PastInWorld DEF FaithfulInv
    <3>3. x \in Stored
      BY <2>2, <3>2 DEF Stored
    <3>4. Capped(S) \subseteq Stored /\ IsFiniteSet(Capped(S)) /\ Cardinality(Capped(S)) <= MaxBuffer
      <4> HIDE DEF x
      <4> QED BY <1>1, <3>3, PushedFacts
    <3>5. ready' \in BOOLEAN
      BY <3>1
    <3> HIDE DEF S
    <3> QED BY <2>1, <2>2, <3>1, <3>2, <3>4, <3>5 DEF SyncType, Stored
  <2>4. CASE ~Expandable(d)
    <3>1. UNCHANGED <<stored, known, ready>> /\ failed' = failed \cup {d.tick}
      BY <1>5, <2>4 DEF HandleSnapshot
    <3> QED BY <2>1, <2>2, <3>1 DEF SyncType, Stored
  <2> QED BY <2>3, <2>4
<1>6. CASE CleanupOldSnapshots
  <2>1. /\ UNCHANGED <<tick, nextEntity, lastAcked, snaps, acks, known, ready, failed>>
        /\ stored' \subseteq stored
    BY <1>6 DEF CleanupOldSnapshots, serverVars
  <2>2. IsFiniteSet(stored') /\ Cardinality(stored') <= MaxBuffer
    <3>1. /\ IsFiniteSet(stored') /\ Cardinality(stored') <= Cardinality(stored)
      BY <2>1, FS_Subset DEF SyncType
    <3>2. Cardinality(stored') \in Nat /\ Cardinality(stored) \in Nat /\ MaxBuffer \in Nat
      BY <3>1, FS_CardinalityType, SnapshotAssumption DEF SyncType
    <3> QED BY <3>1, <3>2 DEF SyncType
  <2> QED BY <2>1, <2>2 DEF SyncType, Stored
<1>7. CASE UNCHANGED vars
  BY <1>7 DEF vars, serverVars, clientVars, SyncType, Stored
<1> QED BY <1>2, <1>3, <1>4, <1>5, <1>6, <1>7 DEF Next

\* SyncTypeAlways: every variable of the replication keeps its type in every
\* reachable state: the client's store stays within max_buffer_snapshots, and
\* no tick acknowledged, stored or under way is later than the server's.
THEOREM SyncTypeAlways == Spec => []TypeOK
<1>1. Init => FaithfulInv /\ SyncType
  BY InitFaithful, SyncTypeInit
<1>2. FaithfulInv /\ SyncType /\ [Next]_vars => (FaithfulInv /\ SyncType)'
  <2> SUFFICES ASSUME FaithfulInv, SyncType, [Next]_vars PROVE (FaithfulInv /\ SyncType)'
    OBVIOUS
  <2>1. SyncType'
    BY SyncTypeStep
  <2>2. FaithfulInv'
    BY FaithfulStep
  <2> QED BY <2>1, <2>2
<1>3. FaithfulInv /\ SyncType => TypeOK
  BY DEF FaithfulInv, HistoryInv, RingInv, AckInv, NetInv, ClientInv, SyncType, TypeOK, SnapFaithful, Stored
<1> QED BY <1>1, <1>2, <1>3, PTL DEF Spec

-----------------------------------------------------------------------------
(* With TimelyAssumption the client still has every baseline it needs.     *)

\* Recent ticks the client has, or will be able to, expand a delta against
KeptAt(t) == t > 0 /\ tick - t < Retention => IsStored(t)

\* The deltas under way are based on a tick that was young when they were
\* made and that the client acknowledged
DeltaTimely(d) == d.delta => d.tick - d.base < MaxDeltaAge /\ KeptAt(d.base)

\* TimelyInv: the strengthening of DeltasExpand that the steps preserve
TimelyInv ==
  /\ \A t \in acks : KeptAt(t)
  /\ KeptAt(lastAcked)
  /\ \A d \in snaps : DeltaTimely(d)
  /\ failed = {}

\* TickTimely: a tick sends a delta only against a young tick that was
\* acknowledged.
LEMMA TickTimely ==
  ASSUME FaithfulInv, SyncType, SyncType', TimelyInv, Tick
  PROVE  TimelyInv'
<1>1. PICK w \in World :
        /\ tick' = tick + 1
        /\ ring' = Push(ring, FullSnapshot(w, tick + 1))
        /\ \/ snaps' = snaps \cup {GenerateClientSnapshot(w, tick + 1, ring')}
           \/ snaps' = snaps
  BY DEF Tick
<1>11. PICK d : d = GenerateClientSnapshot(w, tick + 1, ring')
  OBVIOUS
<1>2. UNCHANGED <<lastAcked, acks, stored, failed>>
  BY DEF Tick, clientVars
<1>3. tick \in Nat /\ Retention \in Nat /\ lastAcked \in Nat
  BY SnapshotAssumption DEF FaithfulInv, HistoryInv, AckInv
<1>4. ASSUME NEW t \in Nat, KeptAt(t) PROVE KeptAt(t)'
  BY <1>1, <1>2, <1>3, <1>4 DEF KeptAt, IsStored
<1>5. d.delta => d.base = lastAcked /\ d.tick = tick + 1 /\ tick + 1 - lastAcked < MaxDeltaAge
  <2>1. ring' \in [0 .. BufferSize - 1 -> Snapshot]
    <3>1. FaithfulInv'
      BY TickFaithful
    <3> QED BY <3>1 DEF FaithfulInv, RingInv
  <2> QED BY <1>1, <1>3, <1>11, <2>1, GeneratedTyped
<1>6. KeptAt(lastAcked)' /\ KeptAt(lastAcked)
  BY <1>2, <1>3, <1>4 DEF TimelyInv
<1>7. DeltaTimely(d)'
  <2>1. SUFFICES ASSUME d.delta PROVE (d.tick - d.base < MaxDeltaAge /\ KeptAt(d.base))'
    BY DEF DeltaTimely
  <2>2. d.tick - d.base < MaxDeltaAge
    <3>1. MaxDeltaAge \in Int
      BY SnapshotAssumption DEF MaxDeltaAge
    <3>2. d.tick = tick + 1 /\ d.base = lastAcked /\ tick + 1 - lastAcked < MaxDeltaAge
      BY <1>5, <2>1
    <3> QED BY <1>3, <3>1, <3>2
  <2>3. KeptAt(d.base)'
    BY <1>2, <1>5, <1>6, <2>1 DEF KeptAt, IsStored
  <2> QED BY <2>2, <2>3
<1>8. ASSUME NEW x \in snaps PROVE DeltaTimely(x)'
  <2>1. x.base \in Nat /\ DeltaTimely(x)
    BY DEF SyncType, Snapshot, TimelyInv
  <2> QED BY <1>4, <2>1 DEF DeltaTimely
<1>9. \A t \in acks : KeptAt(t)'
  <2>1. \A t \in acks : t \in Nat /\ KeptAt(t)
    BY DEF FaithfulInv, AckInv, TimelyInv
  <2> QED BY <1>4, <2>1
<1> QED BY <1>1, <1>2, <1>11, <1>6, <1>7, <1>8, <1>9 DEF TimelyInv

\* BaselineIsKept: a delta that arrives in time expands.
LEMMA BaselineIsKept ==
  ASSUME FaithfulInv, SyncType, TimelyInv, TimelyAssumption, NEW d \in snaps,
         tick - d.tick <= MaxLatency
  PROVE  Expandable(d)
<1>1. CASE ~d.delta
  BY <1>1 DEF Expandable
<1>2. CASE d.delta
  <2>1. d.base \in 1 .. tick /\ d.tick \in 1 .. tick /\ tick \in Nat
    BY <1>2 DEF FaithfulInv, HistoryInv, NetInv, SnapFaithful
  <2>2. d.tick - d.base < MaxDeltaAge /\ KeptAt(d.base)
    BY <1>2 DEF TimelyInv, DeltaTimely
  <2>3. MaxDeltaAge \in Int /\ MaxLatency \in Nat /\ Retention \in Nat
    BY SnapshotAssumption DEF MaxDeltaAge
  <2>4. MaxDeltaAge + MaxLatency <= Retention
    BY DEF TimelyAssumption
  <2>5. tick - d.base < Retention
    <3> HIDE DEF MaxDeltaAge
    <3> DEFINE b == d.base
               t == d.tick
    <3>1. b \in Int /\ t \in Int /\ tick \in Int /\ t - b < MaxDeltaAge /\ tick - t <= MaxLatency
      BY <2>1, <2>2
    <3> HIDE DEF b, t
    <3>2. tick - b < Retention
      BY <3>1, <2>3, <2>4
    <3> QED BY <3>2 DEF b
  <2>6. d.base > 0
    BY <2>1
  <2> QED BY <2>2, <2>5, <2>6 DEF KeptAt, Expandable
<1> QED BY <1>1, <1>2

\* OldestIsOld: the snapshot push_snapshot drops is at least Retention ticks
\* old, since no two stored snapshots have the same tick.
LEMMA OldestIsOld ==
  ASSUME TimelyAssumption, tick \in Nat, NEW S, S \subseteq Stored,
         \A r, s \in S : r.tick = s.tick => r = s,
         Cardinality(S) > MaxBuffer, NEW o \in S, \A r \in S : o.tick <= r.tick
  PROVE  tick - o.tick >= Retention
<1>1. \A r \in S : r.tick \in 1 .. tick
  BY DEF Stored
<1> DEFINE f == [r \in S |-> r.tick]
           a == o.tick
<1>2. a \in Int /\ tick \in Int /\ a <= tick + 1
  BY <1>1
<1>3. f \in [S -> a .. tick]
  <2>1. \A r \in S : r.tick \in a .. tick
    BY <1>1, <1>2
  <2> HIDE DEF a
  <2> QED BY <2>1
<1>4. \A r, s \in S : f[r] = f[s] => r = s
  OBVIOUS
<1>6. IsFiniteSet(S) /\ Cardinality(S) <= tick - a + 1
  <2> HIDE DEF f, a
  <2> QED BY <1>2, <1>3, <1>4, CountedBy
<1>7. Cardinality(S) \in Nat /\ MaxBuffer \in Nat /\ Retention \in Nat /\ Retention <= MaxBuffer
  BY <1>6, FS_CardinalityType, SnapshotAssumption DEF TimelyAssumption
<1> QED BY <1>2, <1>6, <1>7

\* HandleSnapshotTimely: what a snapshot that arrives pushes out of the store
\* is no longer needed, and what it acknowledges is stored.
LEMMA HandleSnapshotTimely ==
  ASSUME FaithfulInv, SyncType, TimelyInv, TimelyAssumption,
         NEW d \in snaps, HandleSnapshot(d)
  PROVE  TimelyInv'
<1> DEFINE x == [tick |-> d.tick, entities |-> Expanded(d)]
           S == stored \cup {x}
<1>1. Expandable(d)
  BY BaselineIsKept DEF HandleSnapshot
<1>2. /\ UNCHANGED <<tick, lastAcked, failed>>
      /\ snaps' \subseteq snaps /\ acks' = acks \cup {d.tick} /\ stored' = Capped(S)
  BY <1>1 DEF HandleSnapshot, serverVars
<1>3. tick \in Nat /\ d.tick \in 1 .. tick /\ Retention \in Nat
  BY SnapshotAssumption DEF FaithfulInv, HistoryInv, NetInv, SnapFaithful
<1>4. x \in Stored /\ Expanded(d) = past[d.tick]
  <2>1. Expanded(d) = past[d.tick]
    BY <1>1, ExpandedFaithful DEF FaithfulInv, NetInv
  <2> QED BY <1>3, <2>1, PastInWorld DEF Stored, FaithfulInv
<1>5. \A s \in S : s.entities = past[s.tick] /\ s.tick \in 1 .. tick /\ s = [tick |-> s.tick, entities |-> s.entities]
  <2>1. \A s \in stored : s.entities = past[s.tick] /\ s \in Stored
    BY DEF FaithfulInv, ClientInv, StoreFaithful, SyncType
  <2> QED BY <1>3, <1>4, <2>1 DEF Stored
<1>6. /\ \/ Capped(S) = S
         \/ /\ Cardinality(S) > MaxBuffer
            /\ \E o \in S : Capped(S) = S \ {o} /\ \A r \in S : o.tick <= r.tick
  <2>1. x \in Stored
    BY <1>4
  <2> HIDE DEF x
  <2> QED BY <1>3, <2>1, PushedFacts
<1>7. \A r, s \in S : r.tick = s.tick => r = s
  <2> HIDE DEF S
  <2> QED BY <1>5
<1>8. S \subseteq Stored
  BY <1>4 DEF SyncType
<1>9. ASSUME NEW t \in Nat, tick - t < Retention, \E s \in S : s.tick = t PROVE KeptAt(t)'
  <2> HIDE DEF S
  <2>1. PICK s \in S : s.tick = t
    BY <1>9
  <2>2. CASE Capped(S) = S
    BY <1>2, <2>1, <2>2 DEF KeptAt, IsStored
  <2>3. ASSUME Cardinality(S) > MaxBuffer, NEW o \in S, Capped(S) = S \ {o}, \A r \in S : o.tick <= r.tick
        PROVE  KeptAt(t)'
    <3>1. tick - o.tick >= Retention
      BY <1>3, <1>7, <1>8, <2>3, OldestIsOld
    <3>2. o.tick \in Nat
      BY <1>5
    <3>3. o # s
      <4> SUFFICES ASSUME o = s PROVE FALSE
        OBVIOUS
      <4>1. o.tick = t
        BY <2>1
      <4> QED BY <1>3, <1>9, <3>1, <4>1
    <3> QED BY <1>2, <2>1, <2>3, <3>3 DEF KeptAt, IsStored
  <2> QED BY <1>6, <2>2, <2>3
<1>10. ASSUME NEW t \in Nat, KeptAt(t) PROVE KeptAt(t)'
  <2>1. CASE t > 0 /\ tick - t < Retention
    <3>1. \E s \in S : s.tick = t
      BY <1>10, <2>1 DEF KeptAt, IsStored
    <3> QED BY <1>9, <2>1, <3>1
  <2>2. CASE ~(t > 0 /\ tick - t < Retention)
    BY <1>2, <2>2 DEF KeptAt
  <2> QED BY <2>1, <2>2
<1>11. KeptAt(d.tick)'
  <2>1. \E s \in S : s.tick = d.tick
    <3>1. x \in S /\ x.tick = d.tick
      OBVIOUS
    <3> QED BY <3>1
  <2>2. CASE tick - d.tick < Retention
    <3> HIDE DEF S
    <3> QED BY <1>3, <1>9, <2>1, <2>2
  <2>3. CASE ~(tick - d.tick < Retention)
    BY <1>2, <1>3, <2>3 DEF KeptAt
  <2> QED BY <2>2, <2>3
<1> HIDE DEF S, x
<1>12. \A t \in acks' : KeptAt(t)'
  <2>1. \A t \in acks : t \in Nat /\ KeptAt(t)
    BY DEF FaithfulInv, AckInv, TimelyInv
  <2>2. ASSUME NEW t \in acks' PROVE KeptAt(t)'
    BY <1>2, <1>10, <1>11, <2>1, <2>2
  <2> QED BY <2>2
<1>13. KeptAt(lastAcked)'
  <2>1. lastAcked \in Nat /\ KeptAt(lastAcked)
    BY DEF FaithfulInv, AckInv, TimelyInv
  <2>2. \A t \in Nat : KeptAt(t) => KeptAt(t)'
    BY <1>10
  <2> QED BY <1>2, <2>1, <2>2 DEF KeptAt, IsStored
<1>14. ASSUME NEW e \in snaps PROVE DeltaTimely(e)'
  <2>1. e.base \in Nat /\ DeltaTimely(e)
    BY DEF SyncType, Snapshot, TimelyInv
  <2> QED BY <1>10, <2>1 DEF DeltaTimely
<1> QED BY <1>2, <1>12, <1>13, <1>14 DEF TimelyInv

\* OthersTimely: nothing else drops a snapshot that may still be needed.
LEMMA OthersTimely ==
  ASSUME FaithfulInv, SyncType, TimelyInv,
         \/ Spawn
         \/ \E e \in Entity : Despawn(e)
         \/ \E t \in acks : HandleSnapshotAck(t)
         \/ CleanupOldSnapshots
         \/ UNCHANGED vars
  PROVE  TimelyInv'
<1>1. UNCHANGED <<tick, snaps, failed>> /\ acks' \subseteq acks /\ lastAcked' \in acks \cup {lastAcked}
  BY DEF Spawn, Despawn, HandleSnapshotAck, CleanupOldSnapshots, vars, serverVars, clientVars
<1>2. tick \in Nat /\ Retention \in Nat
  BY SnapshotAssumption DEF FaithfulInv, HistoryInv
<1>3. ASSUME NEW s \in stored, s.tick > 0, tick - s.tick < Retention PROVE s \in stored'
  <2>1. CASE CleanupOldSnapshots
    <3>1. PICK cutoff \in 0 .. tick - Retention : stored' = {r \in stored : r.tick > cutoff}
      BY <2>1 DEF CleanupOldSnapshots
    <3>2. s.tick \in Nat
      BY DEF SyncType, Stored
    <3> QED BY <1>2, <1>3, <3>1, <3>2
  <2>2. CASE stored' = stored
    BY <2>2
  <2> QED BY <2>1, <2>2 DEF Spawn, Despawn, HandleSnapshotAck, vars, serverVars, clientVars
<1>4. ASSUME NEW t \in Nat, KeptAt(t) PROVE KeptAt(t)'
  BY <1>1, <1>3, <1>4 DEF KeptAt, IsStored
<1>5. \A t \in acks \cup {lastAcked} : t \in Nat /\ KeptAt(t)
  BY DEF FaithfulInv, AckInv, TimelyInv
<1>6. \A t \in acks \cup {lastAcked} : KeptAt(t)'
  BY <1>4, <1>5
<1>7. KeptAt(lastAcked)'
  BY <1>1, <1>6 DEF KeptAt, IsStored
<1>8. ASSUME NEW d \in snaps PROVE DeltaTimely(d)'
  <2>1. d.base \in Nat /\ DeltaTimely(d)
    BY DEF SyncType, Snapshot, TimelyInv
  <2> QED BY <1>4, <2>1 DEF DeltaTimely
<1> QED BY <1>1, <1>6, <1>7, <1>8 DEF TimelyInv

\* UsableAlways: when the retention covers the oldest baseline and the latency,
\* and the store the retention, every delta that arrives expands
\* (generate_client_snapshot, expand_snapshot, push_snapshot,
\* cleanup_old_snapshots), for any sizes and any number of entities.
THEOREM UsableAlways ==
  ASSUME TimelyAssumption PROVE Spec => []SnapshotsAreUsable
<1> DEFINE Inv == FaithfulInv /\ SyncType /\ TimelyInv
<1>1. Init => Inv
  <2> SUFFICES ASSUME Init PROVE Inv
    OBVIOUS
  <2>1. TimelyInv
    BY DEF Init, TimelyInv, KeptAt
  <2> QED BY <2>1, InitFaithful, SyncTypeInit
<1>2. Inv /\ [Next]_vars => Inv'
  <2> SUFFICES ASSUME Inv, [Next]_vars PROVE Inv'
    OBVIOUS
  <2>1. FaithfulInv' /\ SyncType'
    BY FaithfulStep, SyncTypeStep
  <2>2. ASSUME Tick PROVE TimelyInv'
    BY <2>1, <2>2, TickTimely
  <2>3. ASSUME NEW d \in snaps, HandleSnapshot(d) PROVE TimelyInv'
    BY <2>3, HandleSnapshotTimely
  <2>4. ASSUME \/ Spawn
               \/ \E e \in Entity : Despawn(e)
               \/ \E t \in acks : HandleSnapshotAck(t)
               \/ CleanupOldSnapshots
               \/ UNCHANGED vars
        PROVE  TimelyInv'
    BY <2>4, OthersTimely
  <2>5. TimelyInv'
    BY <2>2, <2>3, <2>4 DEF Next
  <2> QED BY <2>1, <2>5
<1>3. Inv => TypeOK /\ DeltasExpand
  BY DEF FaithfulInv, HistoryInv, RingInv, AckInv, NetInv, ClientInv, SyncType, TypeOK, SnapFaithful,
         Stored, TimelyInv, DeltasExpand
<1>4. Inv => SnapshotsAreUsable
  BY <1>3 DEF SnapshotsAreUsable
<1> QED BY <1>1, <1>2, <1>4, PTL DEF Spec
=============================================================================

------------------------------- MODULE PartsProofs -------------------------------
(***************************************************************************)
(* What the parts of MCParts promise, for every value of their constants.  *)
(* They share no state, and each has a section of its own: an invariant    *)
(* that its steps preserve, with one lemma for each operation, and the     *)
(* theorems that follow.                                                   *)
(*                                                                         *)
(* Playback.  Every offset the engine learns is too low, so its target is  *)
(* never later than now - Delay.  A clock behind its target moves towards  *)
(* it by less than the distance, plus one frame; a clock ahead of it moves *)
(* by at most one frame while now has moved by no less.  The buffer is     *)
(* sorted, a cleanup cuts off its beginning and nothing that the clock has *)
(* not passed, and in a sorted buffer the two neighbours that the scan     *)
(* finds around a time are its closest.                                    *)
(*                                                                         *)
(* Bodies.  Handles and ids only grow, so that what is new is nobody       *)
(* else's; props come first and never leave, and every connection has an   *)
(* entity of its own in the world, which is a player.                      *)
(*                                                                         *)
(* Lobby.  Nobody is in a lobby twice, so that removing one of two or more *)
(* players leaves somebody to be the host.  A ghost is a player whose map  *)
(* entry names a lobby he is not in: only create_lobby writes the entry    *)
(* without asking which lobby the player is in.                            *)
(*                                                                         *)
(* EventQueue.  Numbers grow along the queue and span less than half of    *)
(* the sequence space, so that sequence_greater_than tells any two apart;  *)
(* a queue over its limit had no event to evict that is not reliable.      *)
(*                                                                         *)
(* Simulation.  A slot of the history has the state of a tick that belongs *)
(* to it.  A rollback only shortens the timeline, and a tick overwrites    *)
(* the one slot whose state is no longer that of its tick before the tick  *)
(* becomes past again.  The scan of latest_before is a recursive function: *)
(* that it exists and what it finds is shown from the least n at which it  *)
(* would not.                                                              *)
(*                                                                         *)
(* Conversions.  A cast drops less than one step, towards zero, and        *)
(* normalize_angle takes off whole turns, so that what is decoded is less  *)
(* than a step from what was meant.  The flags are a recursive function of *)
(* the keys: it exists, and each key it passes adds one bit to a sum that  *)
(* does not have it yet.                                                   *)
(*                                                                         *)
(* Scene.  The two pools share out the cubes, so that what is new is in    *)
(* one of them, and painting one leaves the other as it was.  After both   *)
(* are painted each visible cube is the place of one entity, and the ways  *)
(* of two entities have no place in common: there are as many of either.   *)
(***************************************************************************)
EXTENDS Playback, Scene, Conversions, Bodies, Lobby, EventQueue, Simulation, Facts
-----------------------------------------------------------------------------
(* Playback.                                                               *)

\* DivBounds: what \div by a divisor of at least two does to the size of a
\* number; the correction of the clock rests on it.
LEMMA DivBounds ==
  ASSUME NEW x \in Int, NEW d \in Nat, d >= 2
  PROVE  /\ x \div d \in Int
         /\ x >= 0 => 0 <= x \div d /\ x \div d <= x
         /\ x <= 0 => x <= x \div d /\ x \div d <= 0
<1> DEFINE q == x \div d
           r == x % d
<1>1. q \in Int /\ r \in 0 .. d - 1 /\ x = d * q + r
  BY SMT
<1>2. x >= 0 => q >= 0
  BY <1>1, SMT
<1>3. x <= 0 => q <= 0
  BY <1>1, SMT
<1>4. q >= 0 => d * q >= q
  BY <1>1, SMT
<1>5. q <= -1 => d * q <= q - 1 - (d - 2)
  BY <1>1, SMT
<1> QED BY <1>1, <1>2, <1>3, <1>4, <1>5, SMT

\* Playback may have moved ahead of its delay by what the open frame has left
Lead == IF step = "receives" THEN MaxFrame - delta ELSE MaxFrame

\* ClockInv: the strengthening of RenderBehindServer that the steps preserve
ClockInv ==
  /\ now \in Nat /\ delta \in 0 .. MaxFrame
  /\ offset \in Int /\ offset <= 0
  /\ render \in Int
  /\ DOMAIN coming = 0 .. MaxTime
  /\ ready \/ snapshots # << >> => render <= now - Delay + Lead

\* ClampBounds: the correction is as large as the distance or the bound
LEMMA ClampBounds ==
  ASSUME NEW x \in Int, NEW b \in Nat
  PROVE  /\ Clamp(x, b) \in Int
         /\ -b <= Clamp(x, b)
         /\ x >= 0 => 0 <= Clamp(x, b) /\ Clamp(x, b) <= x
         /\ x <= 0 => Clamp(x, b) <= 0
BY DEF Clamp

\* NextRenderBounds: one update moves the clock forwards, and not past what
\* the delay and one frame allow.
LEMMA NextRenderBounds ==
  ASSUME ClockInv, step = "receives", ready \/ snapshots # << >>
  PROVE  /\ NextRenderTime \in Int
         /\ render <= NextRenderTime
         /\ NextRenderTime <= now - Delay + MaxFrame
<1> DEFINE x == (now + offset - Delay) - render
           m == (3 * delta) \div 2
           c == Clamp(x, m)
           q == c \div CorrectionDivisor
<1> USE PlaybackAssumption DEF PlaybackAssumption
<1>1. NextRenderTime = render + delta + q
  BY Zenon DEF NextRenderTime
<1>2. x \in Int /\ delta \in Nat /\ render \in Int
  BY DEF ClockInv
<1>3. m \in Nat /\ 2 * m <= 3 * delta
  BY <1>2, SMT
<1>4. /\ c \in Int /\ -m <= c
      /\ x >= 0 => 0 <= c /\ c <= x
      /\ x <= 0 => c <= 0
  <2> HIDE DEF x, m
  <2> QED BY <1>2, <1>3, ClampBounds
<1>5. /\ q \in Int
      /\ c >= 0 => 0 <= q /\ q <= c
      /\ c <= 0 => q <= 0
  <2> HIDE DEF c
  <2> QED BY <1>4, DivBounds
<1>6. 0 <= delta + q
  <2>1. CASE c >= 0
    <3> HIDE DEF q, c, m, x
    <3> QED BY <2>1, <1>2, <1>5
  <2>2. CASE c < 0
    <3>1. -c \in Nat /\ 2 * (-c) <= 3 * delta
      <4> HIDE DEF q, c, m, x
      <4> QED BY <2>2, <1>2, <1>3, <1>4
    <3>2. c = (CorrectionDivisor * q) + (c % CorrectionDivisor)
          /\ c % CorrectionDivisor \in 0 .. CorrectionDivisor - 1
      <4> HIDE DEF c
      <4> QED BY <1>4, SMT
    <3>3. ASSUME q <= -delta - 1 PROVE FALSE
      <4>1. CorrectionDivisor * q <= CorrectionDivisor * (-delta - 1)
        <5> HIDE DEF q, c, m, x
        <5> QED BY <3>3, <1>2, <1>5, SMT
      <4>2. CorrectionDivisor * (-delta - 1) = -(CorrectionDivisor * delta) - CorrectionDivisor
        BY <1>2, SMT
      <4>3. CorrectionDivisor * delta >= 2 * delta
        BY <1>2, SMT
      <4>4. CorrectionDivisor * q \in Int /\ CorrectionDivisor * delta \in Int
        <5> HIDE DEF q
        <5> QED BY <1>2, <1>5
      <4> HIDE DEF q, c, m, x
      <4> DEFINE dq == CorrectionDivisor * q
                 dd == CorrectionDivisor * delta
      <4> HIDE DEF dq, dd
      <4> QED BY <3>1, <3>2, <4>1, <4>2, <4>3, <4>4, <1>2, <1>4 DEF dq, dd
    <3> HIDE DEF q, c, m, x
    <3> QED BY <3>3, <1>2, <1>5
  <2> HIDE DEF q, c, m, x
  <2> QED BY <2>1, <2>2, <1>4
<1>7. x >= 0 => render + q <= now - Delay
  <2>1. x >= 0 => q <= x
    <3> HIDE DEF q, c, m, x
    <3> QED BY <1>2, <1>4, <1>5
  <2> HIDE DEF q, c, m
  <2> QED BY <2>1, <1>2, <1>5 DEF ClockInv
<1>8. x < 0 => q <= 0
  <2> HIDE DEF q, c, m, x
  <2> QED BY <1>2, <1>4, <1>5
<1>9. render + delta <= now - Delay + MaxFrame
  BY DEF ClockInv, Lead
<1>10. delta <= MaxFrame /\ MaxFrame \in Nat /\ Delay \in Nat /\ now \in Nat
  BY DEF ClockInv
<1> HIDE DEF q, c, m
<1> QED BY <1>1, <1>2, <1>5, <1>6, <1>7, <1>8, <1>9, <1>10

\* OffsetTooLow: averaging in an offset that is too low leaves one that is
LEMMA OffsetTooLow ==
  ASSUME NEW o \in Int, o <= 0, NEW n \in Int, n <= 0
  PROVE  /\ o + (n - o) \div CorrectionDivisor \in Int
         /\ o + (n - o) \div CorrectionDivisor <= 0
<1> USE PlaybackAssumption DEF PlaybackAssumption
<1>1. n - o \in Int /\ CorrectionDivisor \in Nat /\ CorrectionDivisor >= 2
  OBVIOUS
<1> DEFINE y == n - o
<1>2. /\ y \div CorrectionDivisor \in Int
      /\ y >= 0 => y \div CorrectionDivisor <= y
      /\ y <= 0 => y \div CorrectionDivisor <= 0
  <2> HIDE DEF y
  <2> QED BY <1>1, DivBounds DEF y
<1> DEFINE q == y \div CorrectionDivisor
<1> HIDE DEF q
<1> QED BY <1>2 DEF q
-----------------------------------------------------------------------------
\* ClockInitially: an engine that has received nothing claims nothing.
LEMMA ClockInitially == Init => ClockInv
BY PlaybackAssumption DEF PlaybackAssumption, Init, ClockInv, Lead

\* ClockPreserved: every step keeps the clock within its bounds.
LEMMA ClockPreserved == ClockInv /\ [Next]_vars => ClockInv'
<1> SUFFICES ASSUME ClockInv, [Next]_vars PROVE ClockInv'
  OBVIOUS
<1> USE PlaybackAssumption DEF PlaybackAssumption
<1>1. ASSUME NEW elapsed \in 0 .. MaxStall, BeginFrame(elapsed) PROVE ClockInv'
  BY <1>1 DEF BeginFrame, ClockInv, Lead, engine
<1>2. ASSUME NEW s \in DOMAIN coming, NEW expands \in BOOLEAN, Receive(s, expands)
      PROVE  ClockInv'
  <2>1. s \in Int /\ s <= now /\ s - now \in Int /\ s - now <= 0
    BY <1>2 DEF Receive, ClockInv
  <2>2. offset + (s - now - offset) \div CorrectionDivisor \in Int
        /\ offset + (s - now - offset) \div CorrectionDivisor <= 0
    BY <2>1, OffsetTooLow DEF ClockInv
  <2>3. /\ now' = now /\ delta' = delta /\ step' = step /\ step = "receives"
        /\ DOMAIN coming' = 0 .. MaxTime
    BY <1>2 DEF Receive, ClockInv
  <2>4. CASE snapshots = << >>
    <3>1. offset' = s - now /\ render' = s - Delay
      BY <1>2, <2>4 DEF Receive, PushSnapshot, RenderTimeAt
    <3> QED BY <2>1, <2>3, <3>1 DEF ClockInv, Lead
  <2>5. CASE snapshots # << >>
    <3>1. offset' = offset + (s - now - offset) \div CorrectionDivisor /\ render' = render
      BY <1>2, <2>5 DEF Receive, PushSnapshot
    <3> QED BY <2>2, <2>3, <2>5, <3>1 DEF ClockInv, Lead
  <2> QED BY <2>4, <2>5
<1>3. CASE Update
  <2>1. CASE ~ready \/ snapshots = << >>
    BY <1>3, <2>1 DEF Update, ClockInv, Lead
  <2>2. CASE ready /\ snapshots # << >>
    <3>1. render' = NextRenderTime /\ step' = "over" /\ step = "receives"
      BY <1>3, <2>2 DEF Update
    <3>2. UNCHANGED <<now, coming, delta, offset, ready>>
      BY <1>3 DEF Update
    <3> QED BY <2>2, <3>1, <3>2, NextRenderBounds DEF ClockInv, Lead
  <2> QED BY <2>1, <2>2
<1>4. CASE Reset
  BY <1>4 DEF Reset, ClockInv, Lead
<1>5. CASE UNCHANGED vars
  BY <1>5 DEF vars, engine, ClockInv, Lead
<1> QED BY <1>1, <1>2, <1>3, <1>4, <1>5 DEF Next

\* ClockAlways: ClockInv holds in every reachable state.
THEOREM ClockAlways == Spec => []ClockInv
BY ClockInitially, ClockPreserved, PTL DEF Spec

\* PlaybackIsBehind: InterpolationEngine::update never moves playback to less
\* than the delay, up to one frame, behind the clock of the server.
THEOREM PlaybackIsBehind == Spec => []RenderBehindServer
<1>1. ClockInv => RenderBehindServer
  BY PlaybackAssumption DEF PlaybackAssumption, ClockInv, RenderBehindServer, Lead
<1> QED BY <1>1, ClockAlways, PTL

\* PlaybackNeverRewinds: while snapshots are in the buffer and the client does
\* not reset, the clock of playback does not run backwards.
THEOREM PlaybackNeverRewinds == Spec => NoRewind
<1>1. ASSUME ClockInv, [Next]_vars, ready', snapshots # << >> PROVE render' >= render
  <2>1. ASSUME NEW elapsed \in 0 .. MaxStall, BeginFrame(elapsed) PROVE render' >= render
    BY <1>1, <2>1 DEF BeginFrame, engine, ClockInv
  <2>2. ASSUME NEW s \in DOMAIN coming, NEW expands \in BOOLEAN, Receive(s, expands)
        PROVE  render' >= render
    BY <1>1, <2>2 DEF Receive, PushSnapshot, ClockInv
  <2>3. CASE Update
    <3>1. ready /\ step = "receives" /\ render' = NextRenderTime
      BY <1>1, <2>3 DEF Update
    <3> QED BY <1>1, <3>1, NextRenderBounds DEF ClockInv
  <2>4. CASE Reset
    BY <1>1, <2>4 DEF Reset
  <2>5. CASE UNCHANGED vars
    BY <1>1, <2>5 DEF vars, engine, ClockInv
  <2> QED BY <1>1, <2>1, <2>2, <2>3, <2>4, <2>5 DEF Next
<1>2. ClockInv /\ [Next]_vars => [ready' /\ snapshots # << >> => render' >= render]_vars
  BY <1>1
<1> QED BY <1>2, ClockAlways, PTL DEF Spec, NoRewind

\* Sorted: server times in their order
Sorted(buf) ==
  /\ buf \in Seq(Int)
  /\ \A i, j \in DOMAIN buf : i < j => buf[i] <= buf[j]

\* InsertSorted: push_snapshot keeps the order, whatever arrives.
LEMMA InsertSorted ==
  ASSUME NEW buf, Sorted(buf), NEW s \in Int
  PROVE  LET r == InsertSnapshot(buf, s)
         IN  Sorted(r) /\ Len(r) = Len(buf) + 1 /\ Range(r) = Range(buf) \cup {s}
<1> DEFINE n == Len(buf)
           T == {i \in DOMAIN buf : buf[i] <= s}
           c == Cardinality(T)
           r == InsertSnapshot(buf, s)
<1>1. buf \in Seq(Int) /\ n \in Nat /\ DOMAIN buf = 1 .. n /\ \A i \in 1 .. n : buf[i] \in Int
  BY DEF Sorted
<1>2. \A i \in 1 .. n, j \in T : i <= j => i \in T
  <2> SUFFICES ASSUME NEW i \in 1 .. n, NEW j \in 1 .. n, i <= j, buf[j] <= s PROVE buf[i] <= s
    BY <1>1
  <2>1. i = j \/ buf[i] <= buf[j]
    BY <1>1 DEF Sorted
  <2> QED BY <1>1, <2>1
<1>3. T \in SUBSET (1 .. n)
  BY <1>1
<1>4. c \in 0 .. n /\ T = 1 .. c
  <2> HIDE DEF T
  <2> QED BY <1>1, <1>2, <1>3, Initial
<1>5. \A i \in 1 .. n : buf[i] <= s <=> i <= c
  <2>1. \A i \in 1 .. n : buf[i] <= s <=> i \in T
    BY <1>1
  <2> HIDE DEF T
  <2> QED BY <1>1, <1>4, <2>1
<1> DEFINE k == 1 + c
<1>6. k \in 1 .. n + 1 /\ k = c + 1
  <2> HIDE DEF c
  <2> QED BY <1>1, <1>4
<1>7. r = InsertAt(buf, k, s)
  BY DEF InsertSnapshot
<1> HIDE DEF r, c, T, k
<1>8. /\ r \in Seq(Int) /\ Len(r) = n + 1
      /\ r[k] = s
      /\ \A j \in 1 .. n + 1 : (j < k => r[j] = buf[j]) /\ (j > k => r[j] = buf[j - 1])
  <2>1. k \in 1 .. Len(buf) + 1 /\ buf \in Seq(Int) /\ s \in Int /\ r = InsertAt(buf, k, s)
    BY <1>1, <1>6, <1>7
  <2>2. r \in Seq(Int) /\ Widened(r, buf, k, s)
    BY ONLY <2>1, InsertFacts
  <2> QED BY <2>2 DEF Widened
<1>9. DOMAIN r = 1 .. n + 1
  BY <1>8
<1>10. \A j \in 1 .. n + 1 : \/ j < k /\ j \in 1 .. n /\ r[j] = buf[j] /\ r[j] <= s
                             \/ j = k /\ r[j] = s
                             \/ j > k /\ j - 1 \in 1 .. n /\ r[j] = buf[j - 1] /\ s <= r[j]
  <2> SUFFICES ASSUME NEW j \in 1 .. n + 1
               PROVE  \/ j < k /\ j \in 1 .. n /\ r[j] = buf[j] /\ r[j] <= s
                      \/ j = k /\ r[j] = s
                      \/ j > k /\ j - 1 \in 1 .. n /\ r[j] = buf[j - 1] /\ s <= r[j]
    OBVIOUS
  <2>1. CASE j < k
    <3>1. j \in 1 .. n /\ j <= c
      BY <1>1, <1>4, <1>6, <2>1
    <3> QED BY <1>5, <1>8, <2>1, <3>1
  <2>2. CASE j = k
    BY <1>8, <2>2
  <2>3. CASE j > k
    <3>1. j - 1 \in 1 .. n /\ j > k /\ ~(j - 1 <= c)
      BY <1>1, <1>4, <1>6, <2>3
    <3>2. r[j] = buf[j - 1] /\ buf[j - 1] \in Int /\ ~(buf[j - 1] <= s)
      BY <1>1, <1>5, <1>8, <3>1
    <3>3. s <= r[j]
      BY <3>2
    <3> QED BY <2>3, <3>1, <3>2, <3>3
  <2> QED BY <1>4, <1>6, <2>1, <2>2, <2>3
<1>11. Sorted(r)
  <2> SUFFICES ASSUME NEW i \in 1 .. n + 1, NEW j \in 1 .. n + 1, i < j PROVE r[i] <= r[j]
    BY <1>8, <1>9 DEF Sorted
  <2>1. r[i] \in Int /\ r[j] \in Int
    BY <1>8, <1>9
  <2>2. i \in Int /\ j \in Int /\ k \in Int
    BY <1>6
  <2>3. CASE i < k /\ j < k
    <3>1. r[i] = buf[i] /\ r[j] = buf[j] /\ i \in 1 .. n /\ j \in 1 .. n
      BY <1>10, <2>2, <2>3
    <3> QED BY <1>1, <2>3, <3>1 DEF Sorted
  <2>4. CASE i > k /\ j > k
    <3>1. r[i] = buf[i - 1] /\ r[j] = buf[j - 1] /\ i - 1 \in 1 .. n /\ j - 1 \in 1 .. n /\ i - 1 < j - 1
      BY <1>10, <2>2, <2>4
    <3> QED BY <1>1, <3>1 DEF Sorted
  <2>5. CASE i <= k /\ k <= j
    <3>1. r[i] <= s /\ s <= r[j]
      BY <1>10, <2>1, <2>2, <2>5
    <3> QED BY <2>1, <3>1
  <2> QED BY <2>2, <2>3, <2>4, <2>5
<1>12. Range(r) = Range(buf) \cup {s}
  <2>1. ASSUME NEW j \in 1 .. n + 1 PROVE r[j] \in Range(buf) \cup {s}
    BY <1>1, <1>10 DEF Range
  <2>2. ASSUME NEW i \in 1 .. n PROVE buf[i] \in Range(r)
    <3>1. CASE i < k
      <4>1. i \in 1 .. n + 1
        BY <1>1, <1>6, <3>1
      <4> QED BY <1>8, <1>9, <3>1, <4>1 DEF Range
    <3>2. CASE ~(i < k)
      <4>1. i + 1 \in 1 .. n + 1 /\ i + 1 > k /\ (i + 1) - 1 = i
        BY <1>1, <1>6, <3>2
      <4>2. r[i + 1] = buf[(i + 1) - 1]
        BY <1>8, <4>1
      <4> QED BY <1>9, <4>1, <4>2 DEF Range
    <3> QED BY <3>1, <3>2
  <2>3. s \in Range(r)
    BY <1>6, <1>8, <1>9 DEF Range
  <2> QED BY <1>1, <1>9, <2>1, <2>2, <2>3 DEF Range
<1> QED BY <1>8, <1>11, <1>12 DEF r

\* SuffixSorted: what is left without the first one, or of those that are not
\* old, is in order.
LEMMA SuffixSorted ==
  ASSUME NEW buf, Sorted(buf), buf # << >>
  PROVE  Sorted(Tail(buf)) /\ Len(Tail(buf)) = Len(buf) - 1 /\ Range(Tail(buf)) \subseteq Range(buf)
<1> DEFINE n == Len(buf)
           r == Tail(buf)
<1>1. buf \in Seq(Int) /\ n \in Nat \ {0} /\ DOMAIN buf = 1 .. n
  BY DEF Sorted
<1>2. r \in Seq(Int) /\ Len(r) = n - 1 /\ DOMAIN r = 1 .. n - 1
  BY <1>1
<1>3. \A i \in 1 .. n - 1 : r[i] = buf[i + 1] /\ i + 1 \in 1 .. n
  BY <1>1
<1> HIDE DEF r
<1>4. Sorted(r)
  <2> SUFFICES ASSUME NEW i \in 1 .. n - 1, NEW j \in 1 .. n - 1, i < j PROVE r[i] <= r[j]
    BY <1>2 DEF Sorted
  <2>1. i + 1 \in DOMAIN buf /\ j + 1 \in DOMAIN buf /\ i + 1 < j + 1
    BY <1>1, <1>3
  <2> QED BY <1>3, <2>1 DEF Sorted
<1>5. Range(r) \subseteq Range(buf)
  BY <1>1, <1>2, <1>3 DEF Range
<1> QED BY <1>2, <1>4, <1>5 DEF r

\* CleanedSorted: cleanup_old_snapshots.
LEMMA CleanedSorted ==
  ASSUME NEW buf, Sorted(buf), NEW t
  PROVE  LET r == CleanupOldSnapshots(buf, t)
         IN  /\ Sorted(r) /\ Len(r) <= Len(buf)
             /\ Range(r) = {buf[i] : i \in {i \in DOMAIN buf : buf[i] > t - Retention}}
<1> DEFINE I == {i \in DOMAIN buf : buf[i] > t - Retention}
           r == Retain(buf, I)
<1>1. buf \in Seq(Int) /\ Len(buf) \in Nat /\ DOMAIN buf = 1 .. Len(buf)
  BY DEF Sorted
<1>2. I \in SUBSET DOMAIN buf /\ I \in SUBSET (1 .. Len(buf))
  BY <1>1
<1>3. CleanupOldSnapshots(buf, t) = r
  BY DEF CleanupOldSnapshots
<1> HIDE DEF I
<1>4. r \in Seq(Int) /\ Len(r) <= Len(buf) /\ ToSet(r) = {buf[i] : i \in I}
  BY <1>1, <1>2, RetainSeq, RetainSet
<1>5. /\ DOMAIN r = 1 .. Cardinality(I)
      /\ \A k \in 1 .. Cardinality(I) : Place(I, k) \in I /\ r[k] = buf[Place(I, k)]
      /\ \A k, l \in 1 .. Cardinality(I) : k < l => Place(I, k) < Place(I, l)
  <2> HIDE DEF r
  <2>1. r = Retain(buf, I)
    BY DEF r
  <2> QED BY <1>1, <1>2, <2>1, RetainFacts
<1> HIDE DEF r
<1>6. Sorted(r)
  <2> SUFFICES ASSUME NEW k \in DOMAIN r, NEW l \in DOMAIN r, k < l PROVE r[k] <= r[l]
    BY <1>4 DEF Sorted
  <2>1. Place(I, k) \in DOMAIN buf /\ Place(I, l) \in DOMAIN buf /\ Place(I, k) < Place(I, l)
    BY <1>2, <1>5
  <2> QED BY <1>5, <2>1 DEF Sorted
<1>7. Range(r) = ToSet(r)
  BY DEF Range, ToSet
<1> QED BY <1>3, <1>4, <1>6, <1>7 DEF I

\* PairBrackets: the pair of find_interpolation_indices holds the clock
\* between two neighbours, if the buffer spans it.
LEMMA PairBrackets ==
  ASSUME NEW buf, Sorted(buf), Len(buf) >= 2, NEW r \in Int
  PROVE  LET pair == InterpolationPair(buf, r)
         IN  /\ (\E s \in Range(buf) : s <= r) /\ (\E s \in Range(buf) : s >= r) =>
                  /\ pair[1] <= r /\ r <= pair[2]
                  /\ \A s \in Range(buf) : s <= pair[1] \/ s >= pair[2]
             /\ BeyondLast(pair, r) => \A s \in Range(buf) : s < r
<1> DEFINE n == Len(buf)
           B == Brackets(buf, r)
           pair == InterpolationPair(buf, r)
<1>1. n \in Nat /\ n >= 2 /\ DOMAIN buf = 1 .. n /\ \A i \in 1 .. n : buf[i] \in Int
  BY DEF Sorted
<1>2. \A i, j \in 1 .. n : i <= j => buf[i] <= buf[j]
  <2> SUFFICES ASSUME NEW i \in 1 .. n, NEW j \in 1 .. n, i <= j PROVE buf[i] <= buf[j]
    OBVIOUS
  <2>1. CASE i = j
    BY <1>1, <2>1
  <2>2. CASE i < j
    BY <1>1, <2>2 DEF Sorted
  <2> QED BY <1>1, <2>1, <2>2
<1>3. B = {i \in 1 .. n - 1 : buf[i] <= r /\ r <= buf[i + 1]}
  BY DEF Brackets
<1>4. CASE B # {}
  <2> DEFINE i == CHOOSE i \in B : \A j \in B : i <= j
  <2>1. B \subseteq Nat
    BY <1>1, <1>3
  <2>2. i \in B
    <3> HIDE DEF B
    <3>1. \E j \in B : \A k \in B : j <= k
      BY <1>4, <2>1, LeastNatural
    <3> QED BY <3>1
  <2>3. pair = <<buf[i], buf[i + 1]>>
    BY <1>4 DEF InterpolationPair
  <2> HIDE DEF i, B, pair
  <2>4. i \in 1 .. n /\ i + 1 \in 1 .. n /\ buf[i] <= r /\ r <= buf[i + 1]
    BY <1>1, <1>3, <2>2
  <2>5. pair[1] = buf[i] /\ pair[2] = buf[i + 1]
    BY <2>3
  <2>6. \A j \in 1 .. n : buf[j] <= buf[i] \/ buf[j] >= buf[i + 1]
    <3> SUFFICES ASSUME NEW j \in 1 .. n PROVE buf[j] <= buf[i] \/ buf[i + 1] <= buf[j]
      BY <1>1, <2>4
    <3>1. j <= i \/ i + 1 <= j
      BY <2>4
    <3> QED BY <1>2, <2>4, <3>1
  <2>7. ~BeyondLast(pair, r)
    BY <1>1, <2>4, <2>5 DEF BeyondLast
  <2>8. \A s \in Range(buf) : s <= pair[1] \/ s >= pair[2]
    BY <1>1, <2>5, <2>6 DEF Range
  <2> QED BY <2>4, <2>5, <2>7, <2>8 DEF pair
<1>5. CASE B = {}
  <2>1. ASSUME NEW a \in 1 .. n, buf[a] <= r, NEW b \in 1 .. n, buf[b] >= r PROVE FALSE
    <3> DEFINE L == {i \in 1 .. n : buf[i] <= r}
    <3>1. L \subseteq Nat /\ L # {} /\ \A x \in L : x <= n
      BY <2>1
    <3>2. PICK g \in L : \A y \in L : y <= g
      <4> HIDE DEF L
      <4> QED BY <1>1, <3>1, GreatestNatural
    <3>3. g \in 1 .. n /\ buf[g] <= r
      OBVIOUS
    <3>4. CASE g < n
      <4>1. g + 1 \in 1 .. n /\ g \in 1 .. n - 1 /\ ~(g + 1 <= g)
        BY <1>1, <3>3, <3>4
      <4>2. ~(buf[g + 1] <= r)
        BY <3>2, <4>1
      <4>3. r <= buf[g + 1]
        BY <1>1, <4>1, <4>2
      <4> QED BY <1>3, <1>5, <3>3, <4>1, <4>3
    <3>5. CASE g = n
      <4>1. n - 1 \in 1 .. n /\ n - 1 \in 1 .. n - 1 /\ n \in 1 .. n /\ (n - 1) + 1 = n /\ b <= n /\ n - 1 <= n
        BY <1>1
      <4>2. buf[n - 1] <= buf[n] /\ buf[b] <= buf[n]
        BY <1>2, <4>1
      <4>3. buf[n - 1] \in Int /\ buf[n] \in Int /\ buf[b] \in Int
        BY <1>1, <4>1
      <4>4. buf[n - 1] <= r /\ r <= buf[n]
        BY <2>1, <3>3, <3>5, <4>2, <4>3
      <4> QED BY <1>3, <1>5, <4>1, <4>4
    <3>6. g < n \/ g = n
      <4> HIDE DEF L, n
      <4> QED BY <1>1, <3>3
    <3> QED BY <3>4, <3>5, <3>6
  <2>2. ~((\E s \in Range(buf) : s <= r) /\ (\E s \in Range(buf) : s >= r))
    BY <1>1, <2>1 DEF Range
  <2>3. CASE r < buf[1]
    <3>1. pair = <<buf[1], buf[1]>>
      BY <1>5, <2>3 DEF InterpolationPair
    <3>2. pair[1] = buf[1] /\ pair[2] = buf[1] /\ buf[1] \in Int
      <4> HIDE DEF pair
      <4> QED BY <1>1, <3>1
    <3>3. ~BeyondLast(pair, r)
      <4> HIDE DEF pair
      <4> QED BY <3>2 DEF BeyondLast
    <3> QED BY <2>2, <3>3
  <2>4. CASE ~(r < buf[1])
    <3>1. pair = <<buf[n - 1], buf[n]>>
      BY <1>5, <2>4 DEF InterpolationPair
    <3>2. pair[2] = buf[n] /\ buf[n] \in Int
      <4> HIDE DEF pair
      <4> QED BY <1>1, <3>1
    <3>3. ASSUME BeyondLast(pair, r), NEW i \in 1 .. n PROVE buf[i] < r
      <4>1. r > buf[n]
        <5> HIDE DEF pair
        <5> QED BY <3>2, <3>3 DEF BeyondLast
      <4>2. n \in 1 .. n /\ i <= n /\ buf[i] \in Int
        BY <1>1
      <4>3. buf[i] <= buf[n]
        BY <1>2, <4>2
      <4> QED BY <3>2, <4>1, <4>2, <4>3
    <3>4. BeyondLast(pair, r) => \A s \in Range(buf) : s < r
      <4> HIDE DEF pair
      <4> QED BY <1>1, <3>3 DEF Range
    <3> HIDE DEF pair
    <3> QED BY <2>2, <3>4 DEF pair
  <2> QED BY <2>3, <2>4
<1> QED BY <1>4, <1>5
-----------------------------------------------------------------------------
(* The frames.                                                             *)

\* BufferInv: the buffer is in order and from the past, and what is drawn
\* after a frame was chosen from it
BufferInv ==
  /\ now <= MaxTime
  /\ ready \in BOOLEAN
  /\ Sorted(snapshots)
  /\ Len(snapshots) <= MaxBuffer
  /\ \A s \in Range(snapshots) : 0 <= s /\ s <= now
  /\ shown # << >> => ready
  /\ ShownBrackets

PlayInv == ClockInv /\ BufferInv

\* PlayInit: an engine that has nothing yet.
LEMMA PlayInit == Init => PlayInv
<1> SUFFICES ASSUME Init PROVE BufferInv
  BY ClockInitially DEF PlayInv
<1>1. now = 0 /\ ready = FALSE /\ snapshots = << >> /\ shown = << >>
  BY DEF Init
<1>2. snapshots \in Seq(Int) /\ DOMAIN snapshots = {} /\ Len(snapshots) = 0
  BY <1>1
<1>3. Sorted(snapshots) /\ Range(snapshots) = {}
  BY <1>2 DEF Sorted, Range
<1>4. ShownBrackets
  BY <1>1 DEF ShownBrackets
<1>5. Len(snapshots) <= MaxBuffer /\ now <= MaxTime
  BY <1>1, <1>2, PlaybackAssumption
<1>6. ready \in BOOLEAN /\ ~(shown # << >>)
  BY <1>1
<1> QED BY <1>3, <1>4, <1>5, <1>6 DEF BufferInv

\* FrameFacts: the types that the steps need.
LEMMA FrameFacts ==
  ASSUME PlayInv
  PROVE  /\ now \in Nat /\ render \in Int /\ DOMAIN coming = 0 .. MaxTime
         /\ snapshots \in Seq(Int) /\ Len(snapshots) \in Nat /\ MaxBuffer \in Nat /\ MaxBuffer > 0
         /\ DOMAIN snapshots = 1 .. Len(snapshots)
         /\ Range(snapshots) \subseteq Int
<1>1. snapshots \in Seq(Int)
  BY DEF PlayInv, BufferInv, Sorted
<1> QED BY <1>1, PlaybackAssumption DEF PlayInv, ClockInv, Range

\* DropsStep: the part of DropsOnlyOld that a step is about
DropsStep ==
  \A i \in DOMAIN snapshots :
    snapshots[i] > now - Retention /\ Delay >= MaxFrame /\ Len(snapshots) < MaxBuffer /\ ready' =>
      snapshots[i] \in Range(snapshots')

\* BeginFrameInv: a frame starts (Engine::update, the clock of the client).
LEMMA BeginFrameInv ==
  ASSUME PlayInv, NEW elapsed \in 0 .. MaxStall, BeginFrame(elapsed)
  PROVE  BufferInv' /\ DropsStep
<1>1. /\ UNCHANGED <<snapshots, ready, shown>> /\ step' = "receives"
      /\ now' \in Int /\ now <= now' /\ now' <= MaxTime
  <2>1. elapsed \in Nat /\ now \in Nat
    BY FrameFacts, PlaybackAssumption
  <2> QED BY <2>1 DEF BeginFrame, engine
<1>2. \A s \in Range(snapshots) : 0 <= s /\ s <= now'
  BY <1>1, FrameFacts DEF PlayInv, BufferInv
<1>3. ShownBrackets'
  BY <1>1 DEF ShownBrackets
<1>4. DropsStep
  BY <1>1 DEF DropsStep, Range
<1> QED BY <1>1, <1>2, <1>3, <1>4 DEF PlayInv, BufferInv

\* ReceiveInv: a snapshot arrives (push_snapshot).
LEMMA ReceiveInv ==
  ASSUME PlayInv, NEW s \in DOMAIN coming, NEW expands \in BOOLEAN, Receive(s, expands)
  PROVE  BufferInv' /\ DropsStep
<1> DEFINE r == InsertSnapshot(snapshots, s)
           new == Capped(r)
<1>1. /\ now' = now /\ step' = step /\ step = "receives" /\ shown' = shown /\ s <= now
      /\ snapshots' = IF expands THEN new ELSE snapshots
      /\ ready' = (ready \/ Len(snapshots') >= MinBuffer)
  BY DEF Receive, PushSnapshot
<1>2. s \in Nat /\ s \in Int
  BY FrameFacts
<1>3. Sorted(snapshots) /\ Len(snapshots) <= MaxBuffer
  BY DEF PlayInv, BufferInv
<1>4. Sorted(r) /\ Len(r) = Len(snapshots) + 1 /\ Range(r) = Range(snapshots) \cup {s}
  BY <1>2, <1>3, InsertSorted
<1> HIDE DEF r
<1>5. /\ Sorted(new) /\ Len(new) <= MaxBuffer /\ Range(new) \subseteq Range(snapshots) \cup {s}
      /\ Len(snapshots) < MaxBuffer => new = r
  <2>1. Len(snapshots) \in Nat /\ MaxBuffer \in Nat
    BY FrameFacts
  <2>2. CASE Len(r) > MaxBuffer
    <3>1. new = Tail(r)
      BY <2>2 DEF Capped
    <3>2. r # << >>
      <4>1. Len(r) # 0
        BY <1>4, <2>1
      <4>2. Len(<< >>) = 0
        OBVIOUS
      <4> QED BY <4>1, <4>2
    <3>3. Sorted(Tail(r)) /\ Len(Tail(r)) = Len(r) - 1 /\ Range(Tail(r)) \subseteq Range(r)
      BY <1>4, <3>2, SuffixSorted
    <3>4. ~(Len(snapshots) < MaxBuffer) /\ Len(r) - 1 <= MaxBuffer
      BY <1>3, <1>4, <2>1, <2>2
    <3> QED BY <1>4, <3>1, <3>3, <3>4
  <2>3. CASE ~(Len(r) > MaxBuffer)
    <3>1. new = r
      BY <2>3 DEF Capped
    <3>2. Len(r) <= MaxBuffer
      BY <1>4, <2>1, <2>3
    <3> QED BY <1>4, <3>1, <3>2
  <2> QED BY <2>2, <2>3
<1> HIDE DEF new
<1>6. /\ Sorted(snapshots') /\ Len(snapshots') <= MaxBuffer
      /\ Range(snapshots') \subseteq Range(snapshots) \cup {s}
  BY <1>1, <1>3, <1>5
<1>7. \A x \in Range(snapshots') : 0 <= x /\ x <= now'
  BY <1>1, <1>2, <1>6 DEF PlayInv, BufferInv
<1>8. ShownBrackets'
  BY <1>1 DEF ShownBrackets
<1>9. ready' \in BOOLEAN /\ (ready => ready')
  BY <1>1 DEF PlayInv, BufferInv
<1>10. DropsStep
  <2> SUFFICES ASSUME NEW i \in DOMAIN snapshots, Len(snapshots) < MaxBuffer
               PROVE  snapshots[i] \in Range(snapshots')
    BY DEF DropsStep
  <2>1. snapshots[i] \in Range(snapshots)
    BY DEF Range
  <2> QED BY <1>1, <1>4, <1>5, <2>1
<1> QED BY <1>1, <1>6, <1>7, <1>8, <1>9, <1>10 DEF PlayInv, BufferInv

\* UpdateInv: the engine moves its clock, drops what is old and shows a pair.
LEMMA UpdateInv ==
  ASSUME PlayInv, Update, render' <= now - Delay + MaxFrame \/ ~ready, render' \in Int
  PROVE  BufferInv' /\ DropsStep
<1>1. now' = now /\ ready' = ready
  BY DEF Update
<1>2. CASE ~ready \/ snapshots = << >>
  <2>1. UNCHANGED <<render, snapshots, extrapolating, shown>>
    BY <1>2 DEF Update
  <2>2. ShownBrackets'
    <3>1. CASE ~ready
      <4>1. shown' = << >>
        BY <2>1, <3>1 DEF PlayInv, BufferInv
      <4> QED BY <4>1 DEF ShownBrackets
    <3>2. CASE snapshots = << >>
      <4>1. Len(snapshots') = 0
        BY <2>1, <3>2
      <4>2. ~(Len(snapshots') >= 2)
        BY <4>1
      <4> QED BY <4>2 DEF ShownBrackets
    <3> QED BY <1>2, <3>1, <3>2
  <2>3. DropsStep
    BY <2>1 DEF DropsStep, Range
  <2> QED BY <1>1, <2>1, <2>2, <2>3 DEF PlayInv, BufferInv
<1>3. CASE ~(~ready \/ snapshots = << >>)
  <2> DEFINE new == CleanupOldSnapshots(snapshots, render')
  <2>1. /\ snapshots' = new
        /\ IF Len(snapshots') < 2
           THEN UNCHANGED shown
           ELSE /\ shown' = InterpolationPair(snapshots', render')
                /\ extrapolating' = BeyondLast(shown', render')
    BY <1>3 DEF Update, ExtrapolateFromLatest
  <2>2. /\ Sorted(new) /\ Len(new) <= Len(snapshots)
        /\ Range(new) = {snapshots[i] : i \in {i \in DOMAIN snapshots : snapshots[i] > render' - Retention}}
    <3>1. Sorted(snapshots)
      BY DEF PlayInv, BufferInv
    <3> QED BY <3>1, CleanedSorted
  <2> HIDE DEF new
  <2>3. Sorted(snapshots') /\ Len(snapshots') <= MaxBuffer /\ Range(snapshots') \subseteq Range(snapshots)
    <3>1. Len(new) \in Nat
      BY <2>2 DEF Sorted
    <3>2. Len(new) <= MaxBuffer
      BY <2>2, <3>1, FrameFacts DEF PlayInv, BufferInv
    <3>3. Range(new) \subseteq Range(snapshots)
      BY <2>2 DEF Range
    <3> QED BY <2>1, <2>2, <3>2, <3>3
  <2>4. ShownBrackets'
    <3> DEFINE buf == snapshots'
    <3> SUFFICES ASSUME Len(buf) >= 2
                 PROVE /\ (\E s \in Range(buf) : s <= render') /\ (\E s \in Range(buf) : s >= render') =>
                            /\ shown'[1] <= render' /\ render' <= shown'[2]
                            /\ \A s \in Range(buf) : s <= shown'[1] \/ s >= shown'[2]
                       /\ extrapolating' => \A s \in Range(buf) : s < render'
      BY DEF ShownBrackets
    <3>1. ~(Len(buf) < 2)
      <4>1. Len(buf) \in Nat
        BY <2>3 DEF Sorted
      <4> QED BY <4>1
    <3>2. shown' = InterpolationPair(buf, render') /\ extrapolating' = BeyondLast(shown', render')
      BY <2>1, <3>1
    <3> HIDE DEF buf
    <3>3. Sorted(buf)
      BY <2>3 DEF buf
    <3> QED BY <3>2, <3>3, PairBrackets
  <2>5. DropsStep
    <3> SUFFICES ASSUME NEW i \in DOMAIN snapshots, snapshots[i] > now - Retention, Delay >= MaxFrame
                 PROVE  snapshots[i] \in Range(snapshots')
      BY DEF DropsStep
    <3>1. render' <= now - Delay + MaxFrame
      BY <1>3
    <3>2. snapshots[i] \in Int /\ now \in Int
      BY FrameFacts
    <3>3. snapshots[i] > render' - Retention
      BY <3>1, <3>2, PlaybackAssumption
    <3> QED BY <2>1, <2>2, <3>3
  <2>6. \A s \in Range(snapshots') : 0 <= s /\ s <= now'
    BY <1>1, <2>3 DEF PlayInv, BufferInv
  <2> QED BY <1>1, <1>3, <2>3, <2>4, <2>5, <2>6 DEF PlayInv, BufferInv
<1> QED BY <1>2, <1>3

\* PlayStep: every step of the engine.
LEMMA PlayStep == ASSUME PlayInv, [Next]_vars PROVE PlayInv' /\ DropsStep
<1>1. ClockInv'
  BY ClockPreserved DEF PlayInv
<1>2. ASSUME Update PROVE BufferInv' /\ DropsStep
  <2>1. render' \in Int
    BY <1>1 DEF ClockInv
  <2>2. render' <= now - Delay + MaxFrame \/ ~ready
    <3>1. now' = now /\ ready' = ready /\ step' = "over"
      BY <1>2 DEF Update
    <3> QED BY <1>1, <3>1 DEF ClockInv, Lead
  <2> QED BY <1>2, <2>1, <2>2, UpdateInv
<1>3. CASE Reset
  <2>1. now' = now /\ snapshots' = << >> /\ ready' = FALSE /\ shown' = << >>
    BY <1>3 DEF Reset
  <2>2. snapshots' \in Seq(Int) /\ DOMAIN snapshots' = {} /\ Len(snapshots') = 0
    BY <2>1
  <2>3. Sorted(snapshots') /\ Range(snapshots') = {}
    BY <2>2 DEF Sorted, Range
  <2>4. BufferInv'
    <3>1. ShownBrackets'
      BY <2>1 DEF ShownBrackets
    <3>2. Len(snapshots') <= MaxBuffer
      BY <2>2, FrameFacts
    <3>3. now' <= MaxTime
      BY <2>1 DEF PlayInv, BufferInv
    <3>4. ready' \in BOOLEAN /\ ~(shown' # << >>)
      BY <2>1
    <3> QED BY <2>3, <3>1, <3>2, <3>3, <3>4 DEF BufferInv
  <2>5. DropsStep
    BY <2>1 DEF DropsStep
  <2> QED BY <1>1, <2>4, <2>5 DEF PlayInv
<1>4. CASE UNCHANGED vars
  <2>1. UNCHANGED <<now, step, render, snapshots, ready, extrapolating, shown>>
    BY <1>4 DEF vars, engine
  <2> QED BY <1>1, <2>1 DEF PlayInv, BufferInv, ShownBrackets, DropsStep, Range
<1> QED BY <1>1, <1>2, <1>3, <1>4, BeginFrameInv, ReceiveInv DEF Next, PlayInv

\* BufferAlways: whatever the order in which snapshots arrive, the buffer is
\* in the order of the server's clock, holds nothing from its future, and the
\* pair that is drawn holds the clock between neighbours (push_snapshot,
\* find_interpolation_indices).
THEOREM BufferAlways == Spec => []BufferIsShown
<1>1. ASSUME PlayInv PROVE BufferIsShown
  <2>1. \A i \in DOMAIN snapshots : snapshots[i] \in 0 .. now
    <3> SUFFICES ASSUME NEW i \in DOMAIN snapshots PROVE snapshots[i] \in 0 .. now
      OBVIOUS
    <3>1. snapshots[i] \in Range(snapshots)
      BY DEF Range
    <3> QED BY <1>1, <3>1, FrameFacts DEF PlayInv, BufferInv
  <2>2. now \in 0 .. MaxTime
    BY <1>1, FrameFacts, PlaybackAssumption DEF PlayInv, BufferInv
  <2> QED BY <1>1, <2>1, <2>2 DEF PlayInv, ClockInv, BufferInv, Sorted, TypeOK, BufferIsShown
<1> QED BY <1>1, PlayInit, PlayStep, PTL DEF Spec

\* DropsOnlyOldAlways: a snapshot leaves the buffer only when it is older than
\* the retention, when the buffer is full, or on a reset: for what the client
\* keeps SnapshotSync may rely on it (cleanup_old_snapshots).
THEOREM DropsOnlyOldAlways == Spec => DropsOnlyOld
<1>1. PlayInv /\ [Next]_vars =>
        [\A i \in DOMAIN snapshots :
           snapshots[i] > now - Retention /\ Delay >= MaxFrame /\ Len(snapshots) < MaxBuffer /\ ready' =>
             snapshots[i] \in Range(snapshots')]_vars
  BY PlayStep DEF DropsStep
<1>2. PlayInv /\ [Next]_vars => PlayInv'
  BY PlayStep
<1> QED BY <1>1, <1>2, PlayInit, PTL DEF Spec, DropsOnlyOld
-----------------------------------------------------------------------------
(* Bodies.                                                                 *)

\* PropsStay: the props have the first ids and the first bodies, and keep both
PropsStay ==
  /\ PropCount < nextId
  /\ \A id \in 1 .. PropCount : id \in DOMAIN entities /\ entities[id].body = id
  /\ \A h \in DOMAIN bodies : bodies[h].kind = "dynamic" <=> h <= PropCount

\* ClientsHavePlayers: a connection has a player's entity in the world
ClientsHavePlayers ==
  \A c \in DOMAIN connected : connected[c] \in DOMAIN entities /\ connected[c] > PropCount

\* BodiesInv: the strengthening that the steps preserve
BodiesInv ==
  BodiesTypeOK /\ BodyIsOwn /\ SnapshotsTellBodies /\ PropsStay /\ ClientsHavePlayers

\* SeqOfPart: a function on 1 .. n with values in S is a sequence over S
LEMMA SeqOfPart ==
  ASSUME NEW S, NEW n \in Nat, NEW f \in [1 .. n -> S]
  PROVE  f \in Seq(S) /\ DOMAIN f = 1 .. n /\ Len(f) = n
OBVIOUS

\* InSeqOf: the elements of a sequence over S are in S
LEMMA InSeqOf ==
  ASSUME NEW S, NEW s \in Seq(S), NEW i \in DOMAIN s
  PROVE  s[i] \in S
OBVIOUS

\* BodyOf: what the type invariant says of one body
LEMMA BodyOf ==
  ASSUME BodiesTypeOK, NEW h \in DOMAIN bodies
  PROVE  /\ bodies[h] \in [kind : {"kinematic", "dynamic"}, place : 0 .. LastPlace]
         /\ bodies[h].kind \in {"kinematic", "dynamic"}
<1>1. bodies \in Seq([kind : {"kinematic", "dynamic"}, place : 0 .. LastPlace])
  BY DEF BodiesTypeOK
<1>2. bodies[h] \in [kind : {"kinematic", "dynamic"}, place : 0 .. LastPlace]
  BY <1>1, InSeqOf
<1> QED BY <1>2

\* BodiesInitInv: the world begins in BodiesInv
LEMMA BodiesInitInv == BodiesInit => BodiesInv
<1> SUFFICES ASSUME BodiesInit PROVE BodiesInv
  OBVIOUS
<1> USE BodiesAssumption DEF BodiesInit, BodyFor
<1>1. PropCount \in Nat /\ LastPlace \in Nat
  OBVIOUS
<1>2. bodies \in Seq([kind : {"kinematic", "dynamic"}, place : 0 .. LastPlace]) /\ DOMAIN bodies = 1 .. PropCount
  BY <1>1
<1>3. BodiesTypeOK
  <2>1. DOMAIN connected = {} /\ commandQueue \in Seq(1 .. joined)
    OBVIOUS
  <2>2. DOMAIN entities = 1 .. PropCount /\ nextId = PropCount + 1
    OBVIOUS
  <2>3. ASSUME NEW id \in DOMAIN entities
        PROVE  /\ entities[id] \in [type : {"Player", "DynamicProp"}, body : DOMAIN bodies, place : 0 .. LastPlace]
               /\ bodies[entities[id].body].kind = "kinematic" <=> entities[id].type = "Player"
    BY <1>1, <1>2, <2>2
  <2>4. nextId \in Nat \ {0} /\ nextId - 1 = PropCount
    BY <1>1, <2>2
  <2>5. joined \in Nat
    OBVIOUS
  <2>6. inTick \in BOOLEAN
    BY Zenon
  <2> HIDE DEF BodiesInit
  <2> QED BY <1>1, <1>2, <2>1, <2>2, <2>3, <2>4, <2>5, <2>6 DEF BodiesTypeOK
<1>4. BodyIsOwn /\ SnapshotsTellBodies /\ PropsStay /\ ClientsHavePlayers
  BY <1>1, <1>2 DEF BodyIsOwn, SnapshotsTellBodies, PropsStay, ClientsHavePlayers
<1> QED BY <1>3, <1>4 DEF BodiesInv

\* BodiesJoinInv: what a player gets is new
LEMMA BodiesJoinInv ==
  ASSUME BodiesInv, Join
  PROVE  BodiesInv' /\ (\A h \in DOMAIN bodies : bodies'[h] = bodies[h] /\ (~Owned(h) => ~Owned(h)'))
<1> USE BodiesAssumption DEF BodiesInv
<1> DEFINE B == [kind : {"kinematic", "dynamic"}, place : 0 .. LastPlace]
           new == BodyFor("Player", 0)
<1>1. /\ bodies \in Seq(B) /\ new \in B /\ new.kind = "kinematic" /\ new.place = 0
      /\ bodies' = Append(bodies, new)
  BY DEF BodiesTypeOK, Join, BodyFor
<1>2. /\ Len(bodies) \in Nat /\ DOMAIN bodies = 1 .. Len(bodies)
      /\ bodies' \in Seq(B) /\ DOMAIN bodies' = 1 .. Len(bodies) + 1
      /\ bodies'[Len(bodies) + 1] = new
      /\ \A h \in DOMAIN bodies : bodies'[h] = bodies[h]
  BY <1>1
<1>3. /\ nextId \in Nat \ {0} /\ nextId' = nextId + 1 /\ joined \in Nat /\ joined' = joined + 1
      /\ nextId \notin DOMAIN entities /\ joined + 1 \notin DOMAIN connected
      /\ DOMAIN entities' = DOMAIN entities \cup {nextId}
      /\ entities'[nextId] = [type |-> "Player", body |-> Len(bodies) + 1, place |-> 0]
      /\ \A e \in DOMAIN entities : entities'[e] = entities[e]
      /\ DOMAIN connected' = DOMAIN connected \cup {joined + 1}
      /\ connected'[joined + 1] = nextId
      /\ \A c \in DOMAIN connected : connected'[c] = connected[c]
  BY DEF BodiesTypeOK, Join, AllocateId, NewHandle
<1>4. \A e \in DOMAIN entities : e \in 1 .. nextId - 1 /\ entities[e].body \in DOMAIN bodies
  BY DEF BodiesTypeOK
<1>5. BodiesTypeOK'
  <2>1. commandQueue' \in Seq(1 .. joined')
    BY <1>3 DEF BodiesTypeOK, Join
  <2>2. ASSUME NEW id \in DOMAIN entities'
        PROVE  /\ entities'[id] \in [type : {"Player", "DynamicProp"}, body : DOMAIN bodies', place : 0 .. LastPlace]
               /\ bodies'[entities'[id].body].kind = "kinematic" <=> entities'[id].type = "Player"
    <3>1. CASE id = nextId
      BY <3>1, <1>1, <1>2, <1>3
    <3>2. CASE id \in DOMAIN entities
      <4>1. /\ entities[id] \in [type : {"Player", "DynamicProp"}, body : DOMAIN bodies, place : 0 .. LastPlace]
            /\ bodies[entities[id].body].kind = "kinematic" <=> entities[id].type = "Player"
        BY <3>2 DEF BodiesTypeOK
      <4>2. entities'[id] = entities[id] /\ \A h \in DOMAIN bodies : h \in DOMAIN bodies' /\ bodies'[h] = bodies[h]
        BY <3>2, <1>2, <1>3
      <4> QED BY <4>1, <4>2
    <3> QED BY <3>1, <3>2, <1>3
  <2>3. DOMAIN entities' \subseteq 1 .. nextId' - 1 /\ nextId' \in Nat \ {0}
    BY <1>3, <1>4
  <2>4. DOMAIN connected' \subseteq 1 .. joined' /\ joined' \in Nat /\ inTick' \in BOOLEAN
    BY <1>3 DEF BodiesTypeOK, Join
  <2> QED BY <2>1, <2>2, <2>3, <2>4, <1>2 DEF BodiesTypeOK
<1>6. BodyIsOwn'
  <2>1. ASSUME NEW a \in DOMAIN entities', NEW b \in DOMAIN entities', entities'[a].body = entities'[b].body
        PROVE  a = b
    BY <2>1, <1>2, <1>3, <1>4 DEF BodyIsOwn
  <2>2. ASSUME NEW c \in DOMAIN connected', NEW d \in DOMAIN connected', connected'[c] = connected'[d]
        PROVE  c = d
    BY <2>2, <1>3, <1>4 DEF BodyIsOwn, ClientsHavePlayers
  <2> QED BY <2>1, <2>2 DEF BodyIsOwn
<1>7. SnapshotsTellBodies'
  BY <1>1, <1>2, <1>3, <1>4 DEF SnapshotsTellBodies
<1>8. PropsStay'
  <2>1. PropCount \in 0 .. Len(bodies)
    BY <1>2, <1>4 DEF PropsStay
  <2> QED BY <2>1, <1>1, <1>2, <1>3 DEF PropsStay
<1>9. ClientsHavePlayers'
  BY <1>3 DEF ClientsHavePlayers, PropsStay
<1>10. \A h \in DOMAIN bodies : ~Owned(h) => ~Owned(h)'
  BY <1>2, <1>3 DEF Owned
<1> QED BY <1>2, <1>5, <1>6, <1>7, <1>8, <1>9, <1>10

\* BodiesLeaveInv: a client takes its own entity along and no other
LEMMA BodiesLeaveInv ==
  ASSUME BodiesInv, NEW client \in DOMAIN connected, Leave(client)
  PROVE  BodiesInv' /\ bodies' = bodies /\ (\A h \in DOMAIN bodies : ~Owned(h) => ~Owned(h)')
<1> USE BodiesAssumption DEF BodiesInv
<1> DEFINE gone == connected[client]
<1>1. /\ DOMAIN entities' = DOMAIN entities \ {gone}
      /\ \A id \in DOMAIN entities' : entities'[id] = entities[id]
      /\ DOMAIN connected' = DOMAIN connected \ {client}
      /\ \A c \in DOMAIN connected' : connected'[c] = connected[c]
      /\ UNCHANGED <<nextId, bodies, states, commandQueue, inTick, joined, sent>>
  BY DEF Leave, Dropped, EntityLeft, Restrict
<1>2. gone \in DOMAIN entities /\ gone > PropCount
  BY DEF ClientsHavePlayers
<1>3. BodiesTypeOK'
  BY <1>1 DEF BodiesTypeOK
<1>4. BodyIsOwn' /\ SnapshotsTellBodies'
  BY <1>1 DEF BodyIsOwn, SnapshotsTellBodies
<1>5. PropsStay'
  BY <1>1, <1>2 DEF PropsStay
<1>6. ClientsHavePlayers'
  BY <1>1 DEF ClientsHavePlayers, BodyIsOwn
<1>7. \A h \in DOMAIN bodies : ~Owned(h) => ~Owned(h)'
  BY <1>1 DEF Owned
<1> QED BY <1>1, <1>3, <1>4, <1>5, <1>6, <1>7

\* BodiesProcessInv: a command moves the body of the client that sent it, with its
\* entity, or nothing.
LEMMA BodiesProcessInv ==
  ASSUME BodiesInv, NEW place \in 0 .. LastPlace, ProcessCommand(place)
  PROVE  /\ BodiesInv'
         /\ \A h \in DOMAIN bodies : Owned(h)' <=> Owned(h)
         /\ \A h \in DOMAIN bodies : bodies'[h] # bodies[h] =>
              \E c \in DOMAIN connected : entities[connected[c]].body = h
<1> USE BodiesAssumption DEF BodiesInv
<1> DEFINE client == Head(commandQueue)
           id == connected[client]
           h == entities[id].body
           moved == /\ client \in DOMAIN connected
                    /\ bodies' = [bodies EXCEPT ![h].place = place]
                    /\ entities' = [entities EXCEPT ![id].place = place]
<1>1. /\ UNCHANGED <<nextId, connected, inTick, joined, sent>>
      /\ commandQueue' = Tail(commandQueue) /\ commandQueue # << >>
      /\ moved \/ (bodies' = bodies /\ entities' = entities)
  <2>1. CASE client \in DOMAIN connected
    BY <2>1 DEF ProcessCommand, EntityOf, ClientsHavePlayers
  <2>2. CASE client \notin DOMAIN connected
    <3>1. EntityOf(client) = 0 /\ 0 \notin DOMAIN entities
      BY <2>2 DEF EntityOf, BodiesTypeOK
    <3> QED BY <3>1 DEF ProcessCommand
  <2> QED BY <2>1, <2>2
<1>2. commandQueue' \in Seq(1 .. joined')
  BY <1>1 DEF BodiesTypeOK
<1>3. CASE bodies' = bodies /\ entities' = entities
  BY <1>1, <1>2, <1>3 DEF BodiesTypeOK, BodyIsOwn, SnapshotsTellBodies, PropsStay, ClientsHavePlayers, Owned
<1>4. CASE moved
  <2>1. /\ id \in DOMAIN entities /\ h \in DOMAIN bodies
        /\ \A e \in DOMAIN entities : entities[e].body = h => e = id
    BY <1>4 DEF ClientsHavePlayers, BodiesTypeOK, BodyIsOwn
  <2>2. /\ bodies' \in Seq([kind : {"kinematic", "dynamic"}, place : 0 .. LastPlace])
        /\ DOMAIN bodies' = DOMAIN bodies
        /\ bodies'[h].place = place
        /\ \A g \in DOMAIN bodies : bodies'[g].kind = bodies[g].kind /\ (g # h => bodies'[g] = bodies[g])
    <3> DEFINE B == [kind : {"kinematic", "dynamic"}, place : 0 .. LastPlace]
    <3>1. bodies \in Seq(B) /\ DOMAIN bodies = 1 .. Len(bodies) /\ Len(bodies) \in Nat
      BY DEF BodiesTypeOK
    <3>2. bodies[h] \in B
      BY <2>1, BodyOf
    <3>3. /\ [bodies[h] EXCEPT !.place = place] \in B
          /\ [bodies[h] EXCEPT !.place = place].place = place
          /\ [bodies[h] EXCEPT !.place = place].kind = bodies[h].kind
      BY <3>2
    <3>4. /\ DOMAIN bodies' = DOMAIN bodies
          /\ bodies'[h] = [bodies[h] EXCEPT !.place = place]
          /\ \A g \in DOMAIN bodies : g # h => bodies'[g] = bodies[g]
      BY <1>4, <2>1
    <3>5. bodies' \in [1 .. Len(bodies) -> B]
      <4>1. bodies' = [g \in 1 .. Len(bodies) |-> bodies'[g]]
        BY <1>4, <3>1
      <4>2. \A g \in 1 .. Len(bodies) : bodies'[g] \in B
        BY <3>1, <3>3, <3>4, BodyOf
      <4> QED BY <4>1, <4>2
    <3>6. bodies' \in Seq(B)
      BY <3>1, <3>5, SeqOfPart
    <3> QED BY <3>3, <3>4, <3>6
  <2>3. /\ DOMAIN entities' = DOMAIN entities
        /\ entities'[id].place = place
        /\ \A e \in DOMAIN entities : /\ entities'[e].body = entities[e].body
                                      /\ entities'[e].type = entities[e].type
                                      /\ e # id => entities'[e] = entities[e]
    BY <1>4, <2>1 DEF BodiesTypeOK
  <2>4. ASSUME NEW e \in DOMAIN entities
        PROVE  entities'[e] \in [type : {"Player", "DynamicProp"}, body : DOMAIN bodies, place : 0 .. LastPlace]
    BY <1>4, <2>1 DEF BodiesTypeOK
  <2>5. BodiesTypeOK'
    <3>1. \A e \in DOMAIN entities' : bodies'[entities'[e].body].kind = "kinematic" <=> entities'[e].type = "Player"
      <4> SUFFICES ASSUME NEW e \in DOMAIN entities
                   PROVE  bodies'[entities'[e].body].kind = "kinematic" <=> entities'[e].type = "Player"
        BY <2>3
      <4>1. /\ entities[e].body \in DOMAIN bodies
            /\ bodies[entities[e].body].kind = "kinematic" <=> entities[e].type = "Player"
        BY DEF BodiesTypeOK
      <4>2. bodies'[entities[e].body].kind = bodies[entities[e].body].kind
        BY <4>1, <2>2
      <4> QED BY <4>1, <4>2, <2>3
    <3>2. /\ DOMAIN entities' \subseteq 1 .. nextId' - 1
          /\ DOMAIN connected' \subseteq 1 .. joined'
          /\ nextId' \in Nat \ {0} /\ joined' \in Nat /\ inTick' \in BOOLEAN
      BY <1>1, <2>3 DEF BodiesTypeOK
    <3> QED BY <1>2, <2>2, <2>3, <2>4, <3>1, <3>2 DEF BodiesTypeOK
  <2>6. BodyIsOwn' /\ PropsStay' /\ ClientsHavePlayers'
    BY <1>1, <2>2, <2>3 DEF BodyIsOwn, PropsStay, ClientsHavePlayers
  <2>7. SnapshotsTellBodies'
    <3> SUFFICES ASSUME NEW e \in DOMAIN entities
                 PROVE  entities'[e].place = bodies'[entities'[e].body].place
      BY <2>3 DEF SnapshotsTellBodies
    <3>1. CASE e = id
      BY <3>1, <2>2, <2>3
    <3>2. CASE e # id
      <4>1. entities[e].body # h /\ entities[e].body \in DOMAIN bodies
        BY <3>2, <2>1 DEF BodiesTypeOK
      <4> QED BY <4>1, <3>2, <2>2, <2>3 DEF SnapshotsTellBodies
    <3> QED BY <3>1, <3>2
  <2>8. \A g \in DOMAIN bodies : Owned(g)' <=> Owned(g)
    BY <2>3 DEF Owned
  <2>9. \A g \in DOMAIN bodies : bodies'[g] # bodies[g] =>
          \E c \in DOMAIN connected : entities[connected[c]].body = g
    BY <1>4, <2>2
  <2> QED BY <2>5, <2>6, <2>7, <2>8, <2>9
<1> QED BY <1>1, <1>3, <1>4

\* BodiesEndTickInv: only dynamic bodies move in the step, and every entity follows
\* its body.
LEMMA BodiesEndTickInv ==
  ASSUME BodiesInv, NEW places \in [1 .. PropCount -> 0 .. LastPlace],
         NEW late \in SUBSET DOMAIN connected, EndTick(places, late)
  PROVE  /\ BodiesInv'
         /\ \A h \in DOMAIN bodies : Owned(h)' <=> Owned(h)
         /\ \A h \in DOMAIN bodies : bodies[h].kind = "kinematic" => bodies'[h] = bodies[h]
<1> USE BodiesAssumption DEF BodiesInv
<1> DEFINE B == [kind : {"kinematic", "dynamic"}, place : 0 .. LastPlace]
<1>1. /\ DOMAIN connected' \subseteq DOMAIN connected
      /\ \A c \in DOMAIN connected' : connected'[c] = connected[c]
      /\ UNCHANGED <<nextId, states, commandQueue, joined, sent>> /\ inTick' = FALSE
  BY DEF EndTick, Restrict
<1>2. bodies \in Seq(B) /\ DOMAIN bodies = 1 .. Len(bodies) /\ Len(bodies) \in Nat
  BY DEF BodiesTypeOK
<1>3. ASSUME NEW h \in DOMAIN bodies
      PROVE  /\ bodies'[h] \in B /\ bodies'[h].kind = bodies[h].kind
             /\ bodies[h].kind = "kinematic" => bodies'[h] = bodies[h]
  <2>1. bodies[h] \in B /\ (bodies[h].kind = "dynamic" => places[h] \in 0 .. LastPlace)
    BY <1>2, BodyOf DEF PropsStay
  <2> QED BY <2>1 DEF EndTick
<1>4. DOMAIN bodies' = DOMAIN bodies /\ bodies' \in Seq(B)
  <2>1. bodies' = [h \in 1 .. Len(bodies) |-> bodies'[h]]
    BY <1>2 DEF EndTick
  <2>2. bodies' \in [1 .. Len(bodies) -> B]
    BY <2>1, <1>2, <1>3
  <2> QED BY <2>2, <1>2, SeqOfPart
<1>5. /\ DOMAIN entities' = DOMAIN entities
      /\ \A e \in DOMAIN entities :
           entities'[e] = [entities[e] EXCEPT !.place = bodies'[entities[e].body].place]
  BY DEF EndTick, Synced
<1>6. ASSUME NEW e \in DOMAIN entities
      PROVE  /\ entities'[e] \in [type : {"Player", "DynamicProp"}, body : DOMAIN bodies, place : 0 .. LastPlace]
             /\ entities'[e].body = entities[e].body /\ entities'[e].type = entities[e].type
             /\ entities'[e].place = bodies'[entities[e].body].place
             /\ entities[e].body \in DOMAIN bodies
  BY <1>3, <1>5 DEF BodiesTypeOK
<1>7. BodiesTypeOK'
  <2>1. \A e \in DOMAIN entities' : bodies'[entities'[e].body].kind = "kinematic" <=> entities'[e].type = "Player"
    BY <1>3, <1>5, <1>6 DEF BodiesTypeOK
  <2>2. /\ DOMAIN entities' \subseteq 1 .. nextId' - 1
        /\ DOMAIN connected' \subseteq 1 .. joined'
        /\ nextId' \in Nat \ {0} /\ joined' \in Nat
        /\ commandQueue' \in Seq(1 .. joined')
    BY <1>1, <1>5 DEF BodiesTypeOK
  <2>3. inTick' \in BOOLEAN
    BY <1>1, Zenon
  <2> QED BY <1>4, <1>5, <1>6, <2>1, <2>2, <2>3 DEF BodiesTypeOK
<1>8. BodyIsOwn' /\ SnapshotsTellBodies' /\ PropsStay' /\ ClientsHavePlayers'
  BY <1>1, <1>3, <1>4, <1>5, <1>6 DEF BodyIsOwn, SnapshotsTellBodies, PropsStay, ClientsHavePlayers
<1>9. \A h \in DOMAIN bodies : Owned(h)' <=> Owned(h)
  BY <1>5, <1>6 DEF Owned
<1> QED BY <1>3, <1>7, <1>8, <1>9

\* BodiesStepInv: every step preserves BodiesInv and does what GhostsStand says
LEMMA BodiesStepInv ==
  ASSUME BodiesInv, [BodiesNext]_bodyVars
  PROVE  /\ BodiesInv'
         /\ \A h \in DOMAIN bodies :
              /\ ~Owned(h) => bodies[h].kind = "kinematic" /\ bodies'[h] = bodies[h] /\ ~Owned(h)'
              /\ bodies[h].kind = "kinematic" /\ bodies'[h] # bodies[h] =>
                   \E c \in DOMAIN connected : entities[connected[c]].body = h
<1>1. ASSUME NEW h \in DOMAIN bodies, ~Owned(h) PROVE bodies[h].kind = "kinematic"
  <2>1. bodies[h].kind # "dynamic" \/ h \in 1 .. PropCount
    BY BodiesAssumption DEF BodiesInv, PropsStay, BodiesTypeOK
  <2>2. h \notin 1 .. PropCount
    BY <1>1 DEF BodiesInv, PropsStay, Owned
  <2> QED BY <2>1, <2>2, BodyOf DEF BodiesInv
<1>2. CASE Join
  BY <1>1, <1>2, BodiesJoinInv
<1>3. ASSUME NEW client \in 1 .. joined, QueueCommand(client) PROVE BodiesInv' /\ UNCHANGED <<entities, bodies>>
  <2>1. commandQueue' \in Seq(1 .. joined')
    BY <1>3 DEF QueueCommand, BodiesInv, BodiesTypeOK
  <2> QED BY <1>3, <2>1 DEF QueueCommand, BodiesInv, BodiesTypeOK, BodyIsOwn, SnapshotsTellBodies, PropsStay, ClientsHavePlayers
<1>4. ASSUME NEW client \in 1 .. joined, Leave(client)
      PROVE  BodiesInv' /\ bodies' = bodies /\ (\A h \in DOMAIN bodies : ~Owned(h) => ~Owned(h)')
  BY <1>4, BodiesLeaveInv DEF Leave
<1>5. ASSUME BeginTick \/ UNCHANGED bodyVars PROVE BodiesInv' /\ UNCHANGED <<entities, bodies>>
  BY <1>5 DEF BeginTick, bodyVars, BodiesInv, BodiesTypeOK, BodyIsOwn, SnapshotsTellBodies, PropsStay, ClientsHavePlayers
<1>6. ASSUME UNCHANGED <<entities, bodies>> PROVE \A h \in DOMAIN bodies : Owned(h)' <=> Owned(h)
  BY <1>6 DEF Owned
<1>7. CASE \E place \in 0 .. LastPlace : ProcessCommand(place)
  <2>1. PICK place \in 0 .. LastPlace : ProcessCommand(place)
    BY <1>7
  <2>2. /\ BodiesInv' /\ \A h \in DOMAIN bodies : Owned(h)' <=> Owned(h)
        /\ \A h \in DOMAIN bodies : bodies'[h] # bodies[h] =>
             \E c \in DOMAIN connected : entities[connected[c]].body = h
    BY <2>1, BodiesProcessInv
  <2>3. \A c \in DOMAIN connected : connected[c] \in DOMAIN entities
    BY DEF BodiesInv, ClientsHavePlayers
  <2> QED BY <2>2, <2>3, <1>1 DEF Owned
<1>8. CASE \E places \in [1 .. PropCount -> 0 .. LastPlace], late \in SUBSET DOMAIN connected :
             EndTick(places, late)
  BY <1>1, <1>8, BodiesEndTickInv
<1> QED BY <1>1, <1>2, <1>3, <1>4, <1>5, <1>6, <1>7, <1>8 DEF BodiesNext

\* BodiesAlways: the invariant of the entities and their bodies
THEOREM BodiesAlways == BodiesSpec => []BodiesInv
<1>1. BodiesInv /\ [BodiesNext]_bodyVars => BodiesInv'
  BY BodiesStepInv
<1> QED BY <1>1, BodiesInitInv, PTL DEF BodiesSpec

\* GhostsStandStill: a body that lost its entity never moves again, and a
\* player's body moves only by the commands of its own client.
THEOREM GhostsStandStill == BodiesSpec => GhostsStand
<1>1. BodiesInv /\ [BodiesNext]_bodyVars =>
        [\A h \in DOMAIN bodies :
           /\ ~Owned(h) => bodies[h].kind = "kinematic" /\ bodies'[h] = bodies[h] /\ ~Owned(h)'
           /\ bodies[h].kind = "kinematic" /\ bodies'[h] # bodies[h] =>
                \E c \in DOMAIN connected : entities[connected[c]].body = h]_bodyVars
  BY BodiesStepInv
<1> QED BY <1>1, BodiesAlways, PTL DEF BodiesSpec, GhostsStand
-----------------------------------------------------------------------------
\* StatesInv: a state belongs to an id that was given out, and was made by the
\* client that has the id, if any has
StatesInv == DOMAIN states \subseteq 1 .. nextId - 1 /\ StateIsOwn

\* StatesStep: an id that is given out has no state yet, and a command is its
\* client's
LEMMA StatesStep ==
  ASSUME BodiesInv, StatesInv, [BodiesNext]_bodyVars
  PROVE  StatesInv'
<1> USE DEF StatesInv, StateIsOwn
<1>1. nextId \in Nat \ {0} /\ DOMAIN entities \subseteq 1 .. nextId - 1 /\ joined \in Nat
  BY DEF BodiesInv, BodiesTypeOK
<1>2. CASE Join
  <2>1. /\ nextId' = nextId + 1 /\ states' = states
        /\ connected' = [c \in DOMAIN connected \cup {joined + 1} |->
                           IF c = joined + 1 THEN nextId ELSE connected[c]]
    BY <1>2 DEF Join, AllocateId
  <2> QED BY <1>1, <2>1
<1>3. ASSUME NEW client \in 1 .. joined, Leave(client) PROVE StatesInv'
  <2>1. /\ nextId' = nextId /\ states' = states
        /\ connected' = [c \in DOMAIN connected \cap (DOMAIN connected \ {client}) |-> connected[c]]
    BY <1>3 DEF Leave, Dropped, Restrict
  <2> QED BY <2>1
<1>4. ASSUME NEW place \in 0 .. LastPlace, ProcessCommand(place) PROVE StatesInv'
  <2> DEFINE sender == Head(commandQueue)
             id == EntityOf(sender)
  <2>1. nextId' = nextId /\ connected' = connected
    BY <1>4 DEF ProcessCommand
  <2>2. CASE id \notin DOMAIN entities
    BY <1>4, <2>1, <2>2 DEF ProcessCommand
  <2>3. CASE id \in DOMAIN entities
    <3>1. states' = [e \in DOMAIN states \cup {id} |->
                      (IF e \in DOMAIN states THEN states[e] ELSE {})
                      \cup (IF e = id THEN {sender} ELSE {})]
      BY <1>4, <2>3 DEF ProcessCommand
    <3>2. id \in 1 .. nextId - 1 /\ sender \in DOMAIN connected /\ connected[sender] = id
      BY <1>1, <2>3 DEF EntityOf
    <3>3. \A c \in DOMAIN connected : connected[c] = id => c = sender
      BY <3>2 DEF BodiesInv, BodyIsOwn
    <3> HIDE DEF id, sender
    <3>4. ASSUME NEW c \in DOMAIN connected', connected'[c] \in DOMAIN states'
          PROVE  states'[connected'[c]] \subseteq {c}
      <4>1. CASE connected[c] = id
        BY <2>1, <3>1, <3>3, <3>4, <4>1
      <4>2. CASE connected[c] # id
        BY <2>1, <3>1, <3>4, <4>2
      <4> QED BY <4>1, <4>2
    <3> QED BY <2>1, <3>1, <3>2, <3>4
  <2> QED BY <2>2, <2>3
<1>5. ASSUME NEW places \in [1 .. PropCount -> 0 .. LastPlace], NEW late \in SUBSET DOMAIN connected,
             EndTick(places, late)
      PROVE  StatesInv'
  <2>1. /\ nextId' = nextId /\ states' = states
        /\ connected' = [c \in DOMAIN connected \cap (DOMAIN connected \ late) |-> connected[c]]
    BY <1>5 DEF EndTick, Restrict
  <2> QED BY <2>1
<1>6. CASE UNCHANGED <<nextId, states, connected>>
  BY <1>6
<1>7. ASSUME NEW client \in 1 .. joined, QueueCommand(client) PROVE StatesInv'
  BY <1>6, <1>7 DEF QueueCommand
<1>8. CASE BeginTick \/ UNCHANGED bodyVars
  BY <1>6, <1>8 DEF BeginTick, bodyVars
<1> QED BY <1>2, <1>3, <1>4, <1>5, <1>7, <1>8 DEF BodiesNext

\* BodiesAgreeAlways: for any map and any clients, entities, bodies and player
\* states belong together and are nobody else's (BodiesAgree; world.rs,
\* physics/sync.rs, server.rs)
THEOREM BodiesAgreeAlways == BodiesSpec => []BodiesAgree
<1>1. BodiesInit => BodiesInv /\ StatesInv
  BY BodiesInitInv DEF BodiesInit, StatesInv, StateIsOwn
<1>2. BodiesInv /\ StatesInv /\ [BodiesNext]_bodyVars => BodiesInv' /\ StatesInv'
  BY BodiesStepInv, StatesStep
<1>3. BodiesInv /\ StatesInv => BodiesAgree
  BY DEF BodiesInv, StatesInv, BodiesAgree
<1> QED BY <1>1, <1>2, <1>3, PTL DEF BodiesSpec
-----------------------------------------------------------------------------
(* Lobby.                                                                  *)

\* Members: what a lobby is
Members == [players : Seq(Players), host : Players, password : BOOLEAN,
           state : {"Waiting", "Countdown"}]

\* GoodLobby: nobody is twice in it, and its host is in it
GoodLobby(l) ==
  /\ l \in Members
  /\ Len(l.players) <= MaxPlayers
  /\ IsInjective(l.players)
  /\ l.host \in ToSet(l.players)

\* LobbyInv: the lobbies, the map of their members and the queue
LobbyInv ==
  /\ nextLobbyId \in Nat
  /\ DOMAIN lobbies \subseteq 0 .. nextLobbyId - 1
  /\ \A id \in DOMAIN lobbies : GoodLobby(lobbies[id])
  /\ DOMAIN playerLobby \subseteq Players
  /\ MembersAreListed
  /\ queue \in Seq(Players) /\ IsInjective(queue)

\* GhostStep: the ghosts that a step makes
GhostStep ==
  \A g \in Ghosts' \ Ghosts : nextLobbyId' = nextLobbyId + 1 /\ playerLobby'[g[2]] = nextLobbyId

\* LobbyInitInv: without lobbies.
LEMMA LobbyInitInv == LobbyInit => LobbyInv
<1> SUFFICES ASSUME LobbyInit PROVE LobbyInv
  OBVIOUS
<1>1. DOMAIN << >> = {} /\ << >> \in Seq(Players)
  OBVIOUS
<1> QED BY <1>1 DEF LobbyInit, LobbyInv, MembersAreListed, IsInjective

\* CreateLobbyInv: a new lobby takes an id that no lobby has (create_lobby).
LEMMA CreateLobbyInv ==
  ASSUME LobbyInv, NEW host \in Players, NEW password \in BOOLEAN, CreateLobby(host, password)
  PROVE  LobbyInv' /\ GhostStep
<1> DEFINE id == nextLobbyId
           new == [players |-> <<host>>, host |-> host, password |-> password, state |-> "Waiting"]
<1>1. /\ id \in Nat /\ id \notin DOMAIN lobbies
      /\ \A i \in DOMAIN lobbies : i \in 0 .. id
  BY DEF LobbyInv
<1>2. nextLobbyId' = id + 1 /\ queue' = queue
  BY DEF CreateLobby
<1>3. /\ DOMAIN lobbies' = DOMAIN lobbies \cup {id}
      /\ lobbies'[id] = new
      /\ \A i \in DOMAIN lobbies : lobbies'[i] = lobbies[i]
  <2>1. lobbies' = With(lobbies, id, new)
    BY DEF CreateLobby
  <2> HIDE DEF new
  <2> QED BY <1>1, <2>1 DEF With
<1>4. /\ DOMAIN playerLobby' = DOMAIN playerLobby \cup {host}
      /\ playerLobby'[host] = id
      /\ \A p \in DOMAIN playerLobby : p # host => playerLobby'[p] = playerLobby[p]
  <2>1. playerLobby' = With(playerLobby, host, id)
    BY DEF CreateLobby
  <2> QED BY <2>1 DEF With
<1>5. GoodLobby(new) /\ ToSet(new.players) = {host}
  <2>1. <<host>> \in Seq(Players) /\ DOMAIN <<host>> = {1} /\ <<host>>[1] = host /\ Len(<<host>>) = 1
    OBVIOUS
  <2>2. ToSet(<<host>>) = {host} /\ IsInjective(<<host>>)
    BY <2>1 DEF ToSet, IsInjective
  <2>3. 1 <= MaxPlayers
    BY LobbyAssumption
  <2>4. new \in Members
    BY <2>1 DEF Members
  <2> QED BY <2>1, <2>2, <2>3, <2>4 DEF GoodLobby
<1> HIDE DEF new, id
<1>6. DOMAIN lobbies' \subseteq 0 .. nextLobbyId' - 1
  BY <1>1, <1>2, <1>3
<1>7. \A i \in DOMAIN lobbies' : GoodLobby(lobbies'[i])
  BY <1>3, <1>5 DEF LobbyInv
<1>8. DOMAIN playerLobby' \subseteq Players
  BY <1>4 DEF LobbyInv
<1>9. MembersAreListed'
  <2> SUFFICES ASSUME NEW p \in DOMAIN playerLobby'
      PROVE playerLobby'[p] \in DOMAIN lobbies' /\ p \in ToSet(lobbies'[playerLobby'[p]].players)
    BY DEF MembersAreListed
  <2>1. CASE p = host
    BY <1>3, <1>4, <1>5, <2>1
  <2>2. CASE p # host
    <3>1. p \in DOMAIN playerLobby /\ playerLobby'[p] = playerLobby[p]
      BY <1>4, <2>2
    <3>2. playerLobby[p] \in DOMAIN lobbies /\ p \in ToSet(lobbies[playerLobby[p]].players)
      BY <3>1 DEF LobbyInv, MembersAreListed
    <3> QED BY <1>3, <3>1, <3>2
  <2> QED BY <2>1, <2>2
<1>10. LobbyInv'
  BY <1>1, <1>2, <1>6, <1>7, <1>8, <1>9 DEF LobbyInv
<1>11. GhostStep
  <2> SUFFICES ASSUME NEW g \in Ghosts' \ Ghosts PROVE g[2] = host
    BY <1>2, <1>4 DEF GhostStep, id
  <2> SUFFICES ASSUME g[2] # host PROVE FALSE
    OBVIOUS
  <2> DEFINE p == g[2]
             i == g[1]
  <2>1. /\ i \in DOMAIN lobbies' /\ p \in Players /\ g = <<i, p>>
        /\ p \in ToSet(lobbies'[i].players)
        /\ ~(p \in DOMAIN playerLobby' /\ playerLobby'[p] = i)
    BY DEF Ghosts
  <2> HIDE DEF i, p
  <2>2. i # id
    BY <1>3, <1>5, <2>1 DEF p
  <2>3. i \in DOMAIN lobbies /\ p \in ToSet(lobbies[i].players)
    BY <1>3, <2>1, <2>2
  <2>4. ~(p \in DOMAIN playerLobby /\ playerLobby[p] = i)
    BY <1>4, <2>1 DEF p
  <2>5. <<i, p>> \in Ghosts
    BY <2>1, <2>3, <2>4 DEF Ghosts
  <2> QED BY <2>1, <2>5
<1> QED BY <1>10, <1>11

\* NoNewGhosts: a step makes no ghosts when who is listed after it was listed
\* or is a member, and stayed what it was or is listed nowhere else.
LEMMA NoNewGhosts ==
  ASSUME \A i \in DOMAIN lobbies' : \A p \in Players :
           p \in ToSet(lobbies'[i].players) /\ ~(p \in DOMAIN playerLobby' /\ playerLobby'[p] = i) =>
             /\ i \in DOMAIN lobbies /\ p \in ToSet(lobbies[i].players)
             /\ ~(p \in DOMAIN playerLobby /\ playerLobby[p] = i)
  PROVE  GhostStep
<1>1. Ghosts' \subseteq Ghosts
  <2> SUFFICES ASSUME NEW g \in Ghosts' PROVE g \in Ghosts
    OBVIOUS
  <2>1. /\ g[1] \in DOMAIN lobbies' /\ g[2] \in Players /\ g = <<g[1], g[2]>>
        /\ g[2] \in ToSet(lobbies'[g[1]].players)
        /\ ~(g[2] \in DOMAIN playerLobby' /\ playerLobby'[g[2]] = g[1])
    BY DEF Ghosts
  <2>2. /\ g[1] \in DOMAIN lobbies /\ g[2] \in ToSet(lobbies[g[1]].players)
        /\ ~(g[2] \in DOMAIN playerLobby /\ playerLobby[g[2]] = g[1])
    BY <2>1
  <2> QED BY <2>1, <2>2 DEF Ghosts
<1> QED BY <1>1 DEF GhostStep

\* JoinLobbyInv: one more player in a lobby with room, or a lobby of his own.
LEMMA JoinLobbyInv ==
  ASSUME LobbyInv, NEW id, NEW p \in Players, NEW right, JoinLobby(id, p, right)
  PROVE  LobbyInv' /\ GhostStep
<1> DEFINE old == lobbies[id]
           new == Added(lobbies[id], p)
<1>1. id \in DOMAIN lobbies /\ GoodLobby(old) /\ Len(old.players) < MaxPlayers
  BY DEF JoinLobby, LobbyInv
<1>2. nextLobbyId' = nextLobbyId /\ queue' = queue
  BY DEF JoinLobby
<1>3. /\ DOMAIN lobbies' = DOMAIN lobbies
      /\ lobbies'[id] = new
      /\ \A i \in DOMAIN lobbies : i # id => lobbies'[i] = lobbies[i]
  BY <1>1 DEF JoinLobby
<1>4. /\ p \notin DOMAIN playerLobby
      /\ DOMAIN playerLobby' = DOMAIN playerLobby \cup {p}
      /\ playerLobby'[p] = id
      /\ \A q \in DOMAIN playerLobby : q # p => playerLobby'[q] = playerLobby[q]
  <2>1. playerLobby' = With(playerLobby, p, id) /\ p \notin DOMAIN playerLobby
    BY DEF JoinLobby
  <2> QED BY <2>1 DEF With
<1>5. GoodLobby(new) /\ ToSet(new.players) = ToSet(old.players) \cup {p}
  <2> HIDE DEF old
  <2>1. CASE p \in ToSet(old.players)
    <3>1. new = old
      BY <2>1 DEF Added, old
    <3> QED BY <1>1, <2>1, <3>1
  <2>2. CASE p \notin ToSet(old.players)
    <3>1. old \in Members /\ old.players \in Seq(Players) /\ IsInjective(old.players)
      BY <1>1 DEF GoodLobby, Members
    <3> DEFINE ps == Append(old.players, p)
    <3>2. /\ ps \in Seq(Players) /\ Len(ps) = Len(old.players) + 1
          /\ ToSet(ps) = ToSet(old.players) \cup {p}
          /\ IsInjective(ps)
      BY <2>2, <3>1, AppendSet
    <3>3. Len(old.players) \in Nat /\ MaxPlayers \in Nat
      BY <3>1, LobbyAssumption
    <3>4. new = [old EXCEPT !.players = ps]
      BY <1>1, <2>2, <3>3 DEF Added, old
    <3> HIDE DEF ps, new
    <3>5. new \in Members /\ new.players = ps /\ new.host = old.host
      BY <3>1, <3>2, <3>4 DEF Members
    <3> QED BY <1>1, <3>2, <3>3, <3>5 DEF GoodLobby
  <2> QED BY <2>1, <2>2
<1> HIDE DEF new
<1>6. \A i \in DOMAIN lobbies' : GoodLobby(lobbies'[i])
  BY <1>3, <1>5 DEF LobbyInv
<1>7. DOMAIN playerLobby' \subseteq Players
  BY <1>4 DEF LobbyInv
<1>8. MembersAreListed'
  <2> SUFFICES ASSUME NEW q \in DOMAIN playerLobby'
      PROVE playerLobby'[q] \in DOMAIN lobbies' /\ q \in ToSet(lobbies'[playerLobby'[q]].players)
    BY DEF MembersAreListed
  <2>1. CASE q = p
    BY <1>1, <1>3, <1>4, <1>5, <2>1
  <2>2. CASE q # p
    <3>1. q \in DOMAIN playerLobby /\ playerLobby'[q] = playerLobby[q]
      BY <1>4, <2>2
    <3>2. playerLobby[q] \in DOMAIN lobbies /\ q \in ToSet(lobbies[playerLobby[q]].players)
      BY <3>1 DEF LobbyInv, MembersAreListed
    <3> QED BY <1>3, <1>5, <3>1, <3>2
  <2> QED BY <2>1, <2>2
<1>9. LobbyInv'
  BY <1>2, <1>3, <1>6, <1>7, <1>8 DEF LobbyInv
<1>10. GhostStep
  <2> SUFFICES ASSUME NEW i \in DOMAIN lobbies', NEW q \in Players,
                      q \in ToSet(lobbies'[i].players),
                      ~(q \in DOMAIN playerLobby' /\ playerLobby'[q] = i)
               PROVE /\ i \in DOMAIN lobbies /\ q \in ToSet(lobbies[i].players)
                     /\ ~(q \in DOMAIN playerLobby /\ playerLobby[q] = i)
    BY NoNewGhosts
  <2>1. i \in DOMAIN lobbies /\ ~(q = p /\ i = id)
    BY <1>3, <1>4
  <2>2. q \in ToSet(lobbies[i].players)
    BY <1>3, <1>5, <2>1
  <2>3. ~(q \in DOMAIN playerLobby /\ playerLobby[q] = i)
    BY <1>4
  <2> QED BY <2>1, <2>2, <2>3
<1> QED BY <1>9, <1>10

\* RemovedFacts: remove_player takes one player from the list, and the host
\* of a lobby that has players is one of them.
LEMMA RemovedFacts ==
  ASSUME NEW l, GoodLobby(l), NEW p \in Players
  PROVE  LET r == Removed(l, p)
         IN  /\ ToSet(r.players) = ToSet(l.players) \ {p}
             /\ r.players # << >> => GoodLobby(r)
             /\ r.players = << >> <=> ToSet(r.players) = {}
<1> DEFINE I    == {i \in DOMAIN l.players : l.players[i] # p}
           rest == Retain(l.players, I)
           r    == Removed(l, p)
<1>1. l \in Members /\ l.players \in Seq(Players) /\ l.host \in Players
  BY DEF GoodLobby, Members
<1>2. rest \in Seq(Players) /\ Len(rest) <= Len(l.players)
  <2>1. I \in SUBSET DOMAIN l.players
    OBVIOUS
  <2> HIDE DEF I
  <2> QED BY <1>1, <2>1, RetainSeq
<1>3. ToSet(rest) = {l.players[i] : i \in I} /\ IsInjective(rest)
  <2>1. I \in SUBSET DOMAIN l.players /\ IsInjective(l.players)
    BY DEF GoodLobby
  <2> HIDE DEF I
  <2> QED BY <1>1, <2>1, RetainSet
<1>4. ToSet(rest) = ToSet(l.players) \ {p}
  BY <1>3 DEF ToSet
<1>5. rest = << >> <=> ToSet(rest) = {}
  <2>1. rest = << >> => ToSet(rest) = {}
    BY DEF ToSet
  <2>2. rest # << >> => rest[1] \in ToSet(rest)
    <3>1. rest # << >> => 1 \in DOMAIN rest
      <4> HIDE DEF rest
      <4> QED BY <1>2
    <3> QED BY <3>1 DEF ToSet
  <2> QED BY <2>1, <2>2
<1>6. r = [l EXCEPT !.players = rest,
                    !.host = IF @ = p /\ rest # << >> THEN Head(rest) ELSE @]
  BY DEF Removed
<1> HIDE DEF rest, r, I
<1>7. r.players = rest
  BY <1>1, <1>6 DEF Members
<1>8. ASSUME rest # << >> PROVE GoodLobby(r)
  <2>1. Head(rest) \in Players /\ Head(rest) \in ToSet(rest)
    <3>1. 1 \in DOMAIN rest /\ Head(rest) = rest[1]
      BY <1>2, <1>8
    <3> QED BY <1>2, <3>1 DEF ToSet
  <2>2. r \in Members
    BY <1>1, <1>2, <1>6, <2>1 DEF Members
  <2>3. r.host \in ToSet(rest)
    <3>1. CASE l.host = p
      <4>1. r.host = Head(rest)
        BY <1>1, <1>6, <1>8, <3>1 DEF Members
      <4> QED BY <2>1, <4>1
    <3>2. CASE l.host # p
      <4>1. r.host = l.host
        BY <1>1, <1>6, <3>2 DEF Members
      <4>2. l.host \in ToSet(l.players)
        BY DEF GoodLobby
      <4> QED BY <1>4, <3>2, <4>1, <4>2
    <3> QED BY <3>1, <3>2
  <2>4. Len(rest) <= MaxPlayers
    <3>1. Len(rest) \in Nat /\ Len(l.players) \in Nat /\ MaxPlayers \in Nat /\ Len(l.players) <= MaxPlayers
      BY <1>1, <1>2, LobbyAssumption DEF GoodLobby
    <3> QED BY <1>2, <3>1
  <2> QED BY <1>3, <1>7, <2>2, <2>3, <2>4 DEF GoodLobby
<1> QED BY <1>4, <1>5, <1>7, <1>8 DEF r

\* LeaveLobbyInv: an emptied lobby goes, and a lobby without its host gets
\* another (leave_lobby).
LEMMA LeaveLobbyInv ==
  ASSUME LobbyInv, NEW p \in Players, LeaveLobby(p)
  PROVE  LobbyInv' /\ GhostStep
<1> DEFINE id   == playerLobby[p]
           old  == lobbies[id]
           left == Removed(lobbies[id], p)
<1>1. p \in DOMAIN playerLobby /\ id \in DOMAIN lobbies /\ GoodLobby(old) /\ p \in ToSet(old.players)
  BY DEF LeaveLobby, LobbyInv, MembersAreListed
<1>2. nextLobbyId' = nextLobbyId /\ queue' = queue
  BY DEF LeaveLobby
<1>3. /\ ToSet(left.players) = ToSet(old.players) \ {p}
      /\ left.players # << >> => GoodLobby(left)
      /\ left.players = << >> <=> ToSet(left.players) = {}
  <2> HIDE DEF old
  <2>1. left = Removed(old, p)
    BY DEF old
  <2> HIDE DEF left
  <2> QED BY <1>1, <2>1, RemovedFacts
<1>4. /\ DOMAIN playerLobby' = DOMAIN playerLobby \ {p}
      /\ \A q \in DOMAIN playerLobby' : playerLobby'[q] = playerLobby[q]
  <2>1. playerLobby' = Without(playerLobby, p)
    BY DEF LeaveLobby
  <2> QED BY <2>1 DEF Without
<1>5. lobbies' = IF left.players = << >> THEN Without(lobbies, id) ELSE [lobbies EXCEPT ![id] = left]
  BY DEF LeaveLobby
<1> HIDE DEF left, old, id
<1>6. /\ DOMAIN lobbies' \subseteq DOMAIN lobbies
      /\ \A i \in DOMAIN lobbies : i # id => i \in DOMAIN lobbies' /\ lobbies'[i] = lobbies[i]
      /\ id \in DOMAIN lobbies' => lobbies'[id] = left /\ left.players # << >>
      /\ left.players # << >> => id \in DOMAIN lobbies'
  <2>1. CASE left.players = << >>
    <3>1. lobbies' = Without(lobbies, id)
      BY <1>5, <2>1
    <3>2. DOMAIN lobbies' = DOMAIN lobbies \ {id} /\ \A i \in DOMAIN lobbies \ {id} : lobbies'[i] = lobbies[i]
      BY <3>1 DEF Without
    <3> QED BY <2>1, <3>2
  <2>2. CASE left.players # << >>
    <3>1. lobbies' = [lobbies EXCEPT ![id] = left]
      BY <1>5, <2>2
    <3> QED BY <1>1, <2>2, <3>1
  <2> QED BY <2>1, <2>2
<1>7. \A i \in DOMAIN lobbies' : GoodLobby(lobbies'[i])
  BY <1>3, <1>6 DEF LobbyInv
<1>8. MembersAreListed'
  <2> SUFFICES ASSUME NEW q \in DOMAIN playerLobby'
      PROVE playerLobby'[q] \in DOMAIN lobbies' /\ q \in ToSet(lobbies'[playerLobby'[q]].players)
    BY DEF MembersAreListed
  <2>1. q \in DOMAIN playerLobby /\ q # p /\ playerLobby'[q] = playerLobby[q]
    BY <1>4
  <2>2. playerLobby[q] \in DOMAIN lobbies /\ q \in ToSet(lobbies[playerLobby[q]].players)
    BY <2>1 DEF LobbyInv, MembersAreListed
  <2>3. CASE playerLobby[q] = id
    <3>1. q \in ToSet(left.players)
      BY <1>3, <2>1, <2>2, <2>3 DEF old
    <3> QED BY <1>3, <1>6, <2>1, <2>3, <3>1
  <2>4. CASE playerLobby[q] # id
    BY <1>6, <2>1, <2>2, <2>4
  <2> QED BY <2>3, <2>4
<1>9. LobbyInv'
  BY <1>2, <1>4, <1>6, <1>7, <1>8 DEF LobbyInv
<1>10. GhostStep
  <2> SUFFICES ASSUME NEW i \in DOMAIN lobbies', NEW q \in Players,
                      q \in ToSet(lobbies'[i].players),
                      ~(q \in DOMAIN playerLobby' /\ playerLobby'[q] = i)
               PROVE /\ i \in DOMAIN lobbies /\ q \in ToSet(lobbies[i].players)
                     /\ ~(q \in DOMAIN playerLobby /\ playerLobby[q] = i)
    BY NoNewGhosts
  <2>1. i \in DOMAIN lobbies /\ q \in ToSet(lobbies[i].players) /\ ~(q = p /\ i = id)
    BY <1>3, <1>6 DEF old
  <2>2. ~(q \in DOMAIN playerLobby /\ playerLobby[q] = i)
    BY <1>4, <2>1 DEF id
  <2> QED BY <2>1, <2>2
<1> QED BY <1>9, <1>10

\* CountdownInv: a countdown leaves the players of a lobby alone.
LEMMA CountdownInv ==
  ASSUME LobbyInv, NEW id, Countdown(id)
  PROVE  LobbyInv' /\ GhostStep
<1> DEFINE old == lobbies[id]
           new == [old EXCEPT !.state = IF old.state = "Waiting" THEN "Countdown" ELSE "Waiting"]
<1>1. id \in DOMAIN lobbies /\ GoodLobby(old) /\ old \in Members
  BY DEF Countdown, LobbyInv, GoodLobby
<1>2. UNCHANGED <<playerLobby, nextLobbyId, queue>>
  BY DEF Countdown
<1>3. lobbies' = [lobbies EXCEPT ![id] = new]
  BY DEF Countdown
<1>4. new \in Members /\ new.players = old.players /\ new.host = old.host
  <2> HIDE DEF old
  <2> QED BY <1>1 DEF Members
<1>5. GoodLobby(new)
  BY <1>1, <1>4 DEF GoodLobby
<1> HIDE DEF new
<1>6. /\ DOMAIN lobbies' = DOMAIN lobbies
      /\ \A i \in DOMAIN lobbies : lobbies'[i].players = lobbies[i].players
      /\ \A i \in DOMAIN lobbies : GoodLobby(lobbies'[i])
  BY <1>1, <1>3, <1>4, <1>5 DEF LobbyInv
<1>7. MembersAreListed'
  BY <1>2, <1>6 DEF LobbyInv, MembersAreListed
<1>8. GhostStep
  BY <1>2, <1>6, NoNewGhosts
<1> QED BY <1>2, <1>6, <1>7, <1>8 DEF LobbyInv

\* QueueInv: nobody waits twice.
LEMMA QueueInv ==
  ASSUME LobbyInv, UNCHANGED <<lobbies, playerLobby, nextLobbyId>>,
         queue' \in Seq(Players), IsInjective(queue')
  PROVE  LobbyInv' /\ GhostStep
<1>1. MembersAreListed'
  BY DEF LobbyInv, MembersAreListed
<1>2. GhostStep
  BY NoNewGhosts
<1> QED BY <1>1, <1>2 DEF LobbyInv

\* LobbyStep: every step of the lobbies.
LEMMA LobbyStep == ASSUME LobbyInv, [LobbyNext]_lobbyVars PROVE LobbyInv' /\ GhostStep
<1>1. queue \in Seq(Players) /\ IsInjective(queue)
  BY DEF LobbyInv
<1>2. ASSUME NEW p \in Players, Enqueue(p) PROVE LobbyInv' /\ GhostStep
  <2>1. queue' \in Seq(Players) /\ IsInjective(queue')
    BY <1>1, <1>2, AppendSet DEF Enqueue
  <2> QED BY <1>2, <2>1, QueueInv DEF Enqueue
<1>3. ASSUME NEW p \in Players, Dequeue(p) PROVE LobbyInv' /\ GhostStep
  <2> DEFINE I == {i \in DOMAIN queue : queue[i] # p}
  <2>1. I \in SUBSET DOMAIN queue /\ queue' = Retain(queue, I)
    BY <1>3 DEF Dequeue
  <2> HIDE DEF I
  <2>2. queue' \in Seq(Players) /\ IsInjective(queue')
    BY <1>1, <2>1, RetainSeq, RetainSet
  <2> QED BY <1>3, <2>2, QueueInv DEF Dequeue
<1>4. CASE PopMatch
  <2>1. Len(queue) \in Nat /\ MatchSize \in Nat /\ Len(queue) >= MatchSize
    BY <1>1, <1>4, LobbyAssumption DEF PopMatch
  <2>2. MatchSize + 1 \in 1 .. Len(queue) + 1
    BY <2>1
  <2>3. queue' \in Seq(Players) /\ IsInjective(queue')
    BY <1>1, <1>4, <2>2, SuffixSet DEF PopMatch
  <2> QED BY <1>4, <2>3, QueueInv DEF PopMatch
<1>5. CASE UNCHANGED lobbyVars
  <2>1. UNCHANGED <<lobbies, playerLobby, nextLobbyId>> /\ queue' = queue
    BY <1>5 DEF lobbyVars
  <2> QED BY <1>1, <2>1, QueueInv
<1>6. CASE LobbyNext
  BY <1>2, <1>3, <1>4, <1>6, CreateLobbyInv, JoinLobbyInv, LeaveLobbyInv, CountdownInv DEF LobbyNext
<1> QED BY <1>5, <1>6

\* LobbiesAgreeAlways: whatever players create, join and leave, the lobbies,
\* their hosts and the map of their members agree (LobbyManager).
THEOREM LobbiesAgreeAlways == LobbySpec => []LobbiesAgree
<1>1. LobbyInv => LobbiesAgree
  <2> SUFFICES ASSUME LobbyInv PROVE LobbiesAgree
    OBVIOUS
  <2>1. LobbyTypeOK
    <3>1. \A id \in DOMAIN lobbies : ToSet(lobbies[id].players) \subseteq Players
      <4> SUFFICES ASSUME NEW id \in DOMAIN lobbies PROVE ToSet(lobbies[id].players) \subseteq Players
        OBVIOUS
      <4>1. lobbies[id].players \in Seq(Players)
        BY DEF LobbyInv, GoodLobby, Members
      <4> QED BY <4>1 DEF ToSet
    <3>2. ToSet(queue) \subseteq Players
      BY DEF LobbyInv, ToSet
    <3> QED BY <3>1, <3>2 DEF LobbyInv, LobbyTypeOK, GoodLobby
  <2>2. LobbiesAreHosted
    BY DEF LobbyInv, GoodLobby, LobbiesAreHosted
  <2> QED BY <2>1, <2>2 DEF LobbyInv, LobbiesAgree
<1> QED BY <1>1, LobbyInitInv, LobbyStep, PTL DEF LobbySpec

\* GhostsOfCreate: and a player stays listed in a lobby that it is not in only
\* by creating another one while in it (create_lobby).
THEOREM GhostsOfCreate == LobbySpec => OnlyCreateLeavesGhosts
<1>1. LobbyInv /\ [LobbyNext]_lobbyVars =>
        [\A g \in Ghosts' \ Ghosts :
           nextLobbyId' = nextLobbyId + 1 /\ playerLobby'[g[2]] = nextLobbyId]_lobbyVars
  BY LobbyStep DEF GhostStep
<1>2. LobbyInv /\ [LobbyNext]_lobbyVars => LobbyInv'
  BY LobbyStep
<1> QED BY <1>1, <1>2, LobbyInitInv, PTL DEF LobbySpec, OnlyCreateLeavesGhosts
-----------------------------------------------------------------------------
(* EventQueue.                                                             *)

\* Events: what the queue holds
Events == [number : Nat, tick : 0 .. MaxTick, at : Nat, reliability : Reliabilities, acked : BOOLEAN]

\* Half: how far apart numbers may be and still be told apart
Half == (SeqSpace - 1) \div 2

\* InOrder: events in the order of their numbers, below n, within half of the
\* sequence space
InOrder(q, n) ==
  /\ q \in Seq(Events)
  /\ \A i \in DOMAIN q : q[i].number < n
  /\ \A i, j \in DOMAIN q : i < j => q[i].number < q[j].number
  /\ \A i, j \in DOMAIN q : q[j].number - q[i].number < Half

\* AckedUpTo: what is acknowledged is not newer than a
AckedUpTo(q, a) == \A i \in DOMAIN q : q[i].acked => q[i].number <= a

\* OneUnreliable: at most one event that is not reliable
OneUnreliable(q) == \A i, j \in DOMAIN q : ~IsReliable(q[i]) /\ ~IsReliable(q[j]) => i = j

\* EventInv: the queue is in order, acknowledged in order, and over its limit
\* with reliable events only but one
EventInv ==
  /\ pushed \in Nat /\ time \in Nat /\ acked \in Int
  /\ InOrder(pending, pushed)
  /\ AckedUpTo(pending, acked)
  /\ Len(pending) > MaxPending => OneUnreliable(pending)

\* ReliableStep: no step loses a reliable event
ReliableStep ==
  \A e \in ToSet(pending) :
    IsReliable(e) /\ ~e.acked =>
      \/ \E f \in ToSet(pending') : f.number = e.number
      \/ \A f \in ToSet(pending') : f.tick # e.tick

\* EventFacts: the types of the parts.
LEMMA EventFacts ==
  ASSUME NEW q \in Seq(Events)
  PROVE  /\ Len(q) \in Nat /\ DOMAIN q = 1 .. Len(q)
         /\ \A i \in DOMAIN q : /\ q[i] \in Events /\ q[i].number \in Nat /\ q[i].tick \in 0 .. MaxTick
                                /\ q[i].at \in Nat /\ q[i].reliability \in Reliabilities
                                /\ q[i].acked \in BOOLEAN
<1>1. Len(q) \in Nat /\ DOMAIN q = 1 .. Len(q) /\ \A i \in DOMAIN q : q[i] \in Events
  OBVIOUS
<1> QED BY <1>1 DEF Events

\* HalfFacts: half of the sequence space.
LEMMA HalfFacts == Half \in Nat /\ 2 * Half < SeqSpace /\ SeqSpace \in Nat /\ SeqSpace > 4
BY EventQueueAssumption DEF Half

\* Thinned: a queue some of whose events left is as good as it was.
LEMMA Thinned ==
  ASSUME NEW p, NEW n \in Nat, NEW a \in Int, InOrder(p, n), AckedUpTo(p, a),
         NEW q \in Seq(Events), NEW f \in [DOMAIN q -> DOMAIN p],
         \A k \in DOMAIN q : q[k] = p[f[k]],
         \A k, l \in DOMAIN q : k < l => f[k] < f[l]
  PROVE  InOrder(q, n) /\ AckedUpTo(q, a) /\ (OneUnreliable(p) => OneUnreliable(q))
<1>1. DOMAIN q = 1 .. Len(q) /\ Len(q) \in Nat
  OBVIOUS
<1>2. DOMAIN p = 1 .. Len(p) /\ Len(p) \in Nat
  BY DEF InOrder
<1>3. InOrder(q, n)
  BY DEF InOrder
<1>4. AckedUpTo(q, a)
  BY DEF AckedUpTo
<1>5. ASSUME OneUnreliable(p), NEW k \in DOMAIN q, NEW l \in DOMAIN q,
             ~IsReliable(q[k]), ~IsReliable(q[l])
      PROVE  k = l
  <2>1. f[k] = f[l]
    BY <1>5 DEF OneUnreliable
  <2>2. f[k] \in Int /\ f[l] \in Int /\ k \in Int /\ l \in Int
    BY <1>1, <1>2
  <2> QED BY <2>1, <2>2
<1> QED BY <1>3, <1>4, <1>5 DEF OneUnreliable

\* RetainThinned: when Retain took them.
LEMMA RetainThinned ==
  ASSUME NEW p, NEW n \in Nat, NEW a \in Int, InOrder(p, n), AckedUpTo(p, a), NEW I \in SUBSET DOMAIN p
  PROVE  LET q == Retain(p, I)
         IN  /\ InOrder(q, n) /\ AckedUpTo(q, a)
             /\ OneUnreliable(p) => OneUnreliable(q)
             /\ Len(q) <= Len(p)
             /\ ToSet(q) = {p[i] : i \in I}
<1> DEFINE q == Retain(p, I)
           f == [k \in DOMAIN q |-> Place(I, k)]
<1>1. p \in Seq(Events) /\ Len(p) \in Nat /\ DOMAIN p = 1 .. Len(p)
  BY DEF InOrder
<1>2. q \in Seq(Events) /\ Len(q) <= Len(p)
  BY <1>1, RetainSeq
<1>3. ToSet(q) = {p[i] : i \in I}
  BY <1>1, RetainSet
<1>0. Len(p) \in Nat /\ I \in SUBSET (1 .. Len(p))
  BY <1>1
<1>4. /\ DOMAIN q = 1 .. Cardinality(I)
      /\ \A k \in DOMAIN q : Place(I, k) \in I /\ q[k] = p[Place(I, k)]
      /\ \A k, l \in DOMAIN q : k < l => Place(I, k) < Place(I, l)
  <2> HIDE DEF q
  <2>1. q = Retain(p, I)
    BY DEF q
  <2> QED BY <1>0, <2>1, RetainFacts
<1> HIDE DEF q
<1>5. f \in [DOMAIN q -> DOMAIN p] /\ \A k \in DOMAIN q : f[k] = Place(I, k)
  BY <1>4
<1> HIDE DEF f
<1>7. \A k \in DOMAIN q : q[k] = p[f[k]]
  BY <1>4, <1>5
<1>8. \A k, l \in DOMAIN q : k < l => f[k] < f[l]
  BY <1>4, <1>5
<1>6. InOrder(q, n) /\ AckedUpTo(q, a) /\ (OneUnreliable(p) => OneUnreliable(q))
  BY <1>2, <1>5, <1>7, <1>8, Thinned
<1> QED BY <1>2, <1>3, <1>6 DEF q

\* EvictedFacts: when evict_oldest_unreliable took one.
LEMMA EvictedFacts ==
  ASSUME NEW p, NEW n \in Nat, NEW a \in Int, InOrder(p, n), AckedUpTo(p, a)
  PROVE  LET q == EvictOldestUnreliable(p)
         IN  /\ InOrder(q, n) /\ AckedUpTo(q, a)
             /\ \A e \in ToSet(p) : IsReliable(e) => e \in ToSet(q)
             /\ \A i \in DOMAIN q : q[1].number >= p[1].number
             /\ Len(q) = Len(p) \/ Len(q) = Len(p) - 1
             /\ Len(q) = Len(p) => \A i \in DOMAIN q : IsReliable(q[i])
             /\ Len(q) = Len(p) - 1 /\ OneUnreliable(p) => \A i \in DOMAIN q : IsReliable(q[i])
<1> DEFINE q == EvictOldestUnreliable(p)
           U == {i \in DOMAIN p : ~IsReliable(p[i])}
<1>1. p \in Seq(Events) /\ Len(p) \in Nat /\ DOMAIN p = 1 .. Len(p)
  BY DEF InOrder
<1>2. CASE U = {}
  <2>1. q = p
    BY <1>2 DEF EvictOldestUnreliable
  <2>2. \A i \in DOMAIN p : IsReliable(p[i])
    BY <1>2
  <2>3. \A i \in DOMAIN p : p[1].number >= p[1].number
    <3> SUFFICES ASSUME NEW i \in DOMAIN p PROVE p[1].number >= p[1].number
      OBVIOUS
    <3>1. 1 \in DOMAIN p
      BY <1>1
    <3>2. p[1].number \in Nat
      BY <1>1, <3>1, EventFacts
    <3> QED BY <3>2
  <2> HIDE DEF q, U
  <2> QED BY <1>1, <2>1, <2>2, <2>3 DEF q
<1>3. CASE U # {}
  <2> DEFINE i == CHOOSE i \in U : \A j \in U : i <= j
             f == [k \in 1 .. Len(p) - 1 |-> IF k < i THEN k ELSE k + 1]
             r == RemoveAt(p, i)
  <2>1. U \subseteq Nat /\ U \subseteq DOMAIN p
    BY <1>1
  <2>2. i \in U /\ \A j \in U : i <= j
    <3> HIDE DEF U
    <3>1. \E j \in U : \A k \in U : j <= k
      BY <1>3, <2>1, LeastNatural
    <3> QED BY <3>1
  <2>3. q = r
    BY <1>3 DEF EvictOldestUnreliable
  <2>4. ~IsReliable(p[i]) /\ i \in 1 .. Len(p) /\ i \in Nat
    BY <1>1, <2>2
  <2> HIDE DEF i
  <2>5. r \in Seq(Events) /\ Len(r) = Len(p) - 1
    <3> DEFINE s == SubSeq(p, 1, i - 1)
               t == SubSeq(p, i + 1, Len(p))
    <3>1. s \in Seq(Events) /\ Len(s) = i - 1
      BY <1>1, <2>4
    <3>2. i + 1 \in 1 .. Len(p) + 1
      BY <1>1, <2>4
    <3>3. t \in Seq(Events) /\ Len(t) = (Len(p) + 1) - (i + 1)
      BY <1>1, <3>2, SuffixSet
    <3>4. r = s \o t
      BY DEF RemoveAt
    <3> HIDE DEF s, t, r
    <3>5. s \o t \in Seq(Events) /\ Len(s \o t) = Len(s) + Len(t)
      BY ONLY <3>1, <3>3
    <3> QED BY <1>1, <2>4, <3>1, <3>3, <3>4, <3>5
  <2>6. DOMAIN r = 1 .. Len(p) - 1
    <3> HIDE DEF r
    <3> QED BY <1>1, <2>5
  <2>7. \A k \in 1 .. Len(p) - 1 : r[k] = p[IF k < i THEN k ELSE k + 1]
    <3> SUFFICES ASSUME NEW k \in 1 .. Len(p) - 1 PROVE r[k] = p[IF k < i THEN k ELSE k + 1]
      OBVIOUS
    <3> DEFINE s == SubSeq(p, 1, i - 1)
               t == SubSeq(p, i + 1, Len(p))
    <3>1. s \in Seq(Events) /\ Len(s) = i - 1 /\ \A j \in 1 .. i - 1 : s[j] = p[j]
      BY <1>1, <2>4
    <3>2. t \in Seq(Events) /\ Len(t) = Len(p) - i /\ \A j \in 1 .. Len(p) - i : t[j] = p[i + j]
      <4>1. i + 1 \in 1 .. Len(p) + 1
        BY <1>1, <2>4
      <4>2. /\ t \in Seq(Events) /\ Len(t) = (Len(p) + 1) - (i + 1)
            /\ \A j \in 1 .. (Len(p) + 1) - (i + 1) : t[j] = p[(j + (i + 1)) - 1]
        BY <1>1, <4>1, SuffixSet
      <4> HIDE DEF t
      <4>3. (Len(p) + 1) - (i + 1) = Len(p) - i
        BY <1>1, <2>4
      <4>4. \A j \in 1 .. Len(p) - i : (j + (i + 1)) - 1 = i + j
        BY <1>1, <2>4
      <4> QED BY <4>2, <4>3, <4>4
    <3>3. r = s \o t
      BY DEF RemoveAt
    <3> HIDE DEF s, t, r
    <3>4. CASE k < i
      <4>1. k \in 1 .. Len(s)
        BY <2>4, <3>1, <3>4
      <4> QED BY <2>4, <3>1, <3>2, <3>3, <3>4, <4>1
    <3>5. CASE ~(k < i)
      <4>1. k - Len(s) = (k - i) + 1 /\ k - Len(s) \in 1 .. Len(p) - i /\ k > Len(s) /\ k <= Len(s) + Len(t)
        BY <1>1, <2>4, <3>1, <3>2, <3>5
      <4>2. r[k] = t[k - Len(s)]
        BY <3>1, <3>2, <3>3, <4>1
      <4>3. t[k - Len(s)] = p[i + (k - Len(s))]
        BY <3>2, <4>1
      <4>4. i + (k - Len(s)) = k + 1
        BY <2>4, <4>1
      <4> QED BY <3>5, <4>2, <4>3, <4>4
    <3> QED BY <3>4, <3>5
  <2>8. f \in [DOMAIN r -> DOMAIN p]
    <3>1. \A k \in 1 .. Len(p) - 1 : (IF k < i THEN k ELSE k + 1) \in 1 .. Len(p)
      BY <1>1, <2>4
    <3> QED BY <1>1, <2>6, <3>1
  <2>9. \A k \in DOMAIN r : r[k] = p[f[k]] /\ f[k] # i
    BY <2>4, <2>6, <2>7
  <2>10. \A k, l \in DOMAIN r : k < l => f[k] < f[l]
    <3> SUFFICES ASSUME NEW k \in 1 .. Len(p) - 1, NEW l \in 1 .. Len(p) - 1, k < l PROVE f[k] < f[l]
      BY <2>6
    <3> QED BY <1>1, <2>4
  <2>11. \A k \in 1 .. Len(p) : k # i => \E l \in DOMAIN r : f[l] = k
    <3> SUFFICES ASSUME NEW k \in 1 .. Len(p), k # i PROVE \E l \in DOMAIN r : f[l] = k
      OBVIOUS
    <3>1. CASE k < i
      <4>1. k \in 1 .. Len(p) - 1
        BY <1>1, <2>4, <3>1
      <4> QED BY <2>6, <3>1, <4>1
    <3>2. CASE ~(k < i)
      <4>1. k - 1 \in 1 .. Len(p) - 1 /\ ~(k - 1 < i) /\ (k - 1) + 1 = k
        BY <1>1, <2>4, <3>2
      <4> QED BY <2>6, <4>1
    <3> QED BY <3>1, <3>2
  <2> HIDE DEF f, r, U
  <2>12. InOrder(r, n) /\ AckedUpTo(r, a)
    BY <2>5, <2>8, <2>9, <2>10, Thinned
  <2>13. \A e \in ToSet(p) : IsReliable(e) => e \in ToSet(r)
    <3> SUFFICES ASSUME NEW k \in DOMAIN p, IsReliable(p[k]) PROVE p[k] \in ToSet(r)
      BY DEF ToSet
    <3>1. k # i
      BY <2>4
    <3>2. PICK l \in DOMAIN r : f[l] = k
      BY <1>1, <2>11, <3>1
    <3> QED BY <2>9, <3>2 DEF ToSet
  <2>14. \A k \in DOMAIN r : r[1].number >= p[1].number
    <3> SUFFICES ASSUME NEW k \in DOMAIN r PROVE r[1].number >= p[1].number
      OBVIOUS
    <3>1. 1 \in DOMAIN r /\ 1 \in DOMAIN p
      BY <1>1, <2>6
    <3>2. r[1] = p[f[1]] /\ f[1] \in DOMAIN p
      BY <2>8, <2>9, <3>1
    <3>3. f[1] = 1 \/ 1 < f[1]
      BY <1>1, <3>2
    <3>4. p[1].number \in Nat /\ p[f[1]].number \in Nat
      BY <1>1, <3>1, <3>2, EventFacts
    <3>5. 1 < f[1] => p[1].number < p[f[1]].number
      BY <3>1, <3>2 DEF InOrder
    <3> QED BY <3>2, <3>3, <3>4, <3>5
  <2>15. ASSUME OneUnreliable(p), NEW k \in DOMAIN r PROVE IsReliable(r[k])
    BY <1>1, <2>4, <2>8, <2>9, <2>15 DEF OneUnreliable
  <2>16. Len(r) # Len(p)
    <3>1. Len(p) \in Nat
      BY <1>1
    <3> QED BY ONLY <2>5, <3>1
  <2> HIDE DEF q
  <2> QED BY <2>3, <2>5, <2>12, <2>13, <2>14, <2>15, <2>16 DEF q
<1> QED BY <1>2, <1>3

\* PushInv: push keeps the queue in order, and a reliable event in it.
LEMMA PushInv ==
  ASSUME EventInv, NEW tick \in 0 .. MaxTick, NEW r \in Reliabilities, Push(tick, r)
  PROVE  EventInv' /\ ReliableStep
<1> DEFINE p == IF Len(pending) >= MaxPending THEN EvictOldestUnreliable(pending) ELSE pending
           e == [number |-> pushed, tick |-> tick, at |-> time, reliability |-> r, acked |-> FALSE]
<1>1. /\ pushed' = pushed + 1 /\ time' = time /\ acked' = acked
      /\ pending' = Append(p, e)
  BY DEF Push, Pushed
<1>2. /\ pushed \in Nat /\ time \in Nat /\ acked \in Int
      /\ InOrder(pending, pushed) /\ AckedUpTo(pending, acked)
      /\ pending \in Seq(Events) /\ Len(pending) \in Nat /\ DOMAIN pending = 1 .. Len(pending)
      /\ MaxPending \in Nat
  <2>1. pending \in Seq(Events)
    BY DEF EventInv, InOrder
  <2> QED BY <2>1, EventFacts, EventQueueAssumption DEF EventInv
<1>3. e \in Events /\ e.number = pushed /\ e.acked = FALSE
  BY <1>2 DEF Events
<1>4. /\ InOrder(p, pushed) /\ AckedUpTo(p, acked)
      /\ \A x \in ToSet(pending) : IsReliable(x) => x \in ToSet(p)
      /\ \A i \in DOMAIN p : p[1].number >= pending[1].number
      /\ Len(p) + 1 > MaxPending => \A i \in DOMAIN p : IsReliable(p[i])
  <2>1. CASE Len(pending) < MaxPending
    <3>1. p = pending
      BY <1>2, <2>1
    <3>2. \A i \in DOMAIN p : p[1].number >= pending[1].number
      <4> SUFFICES ASSUME NEW i \in DOMAIN p PROVE p[1].number >= pending[1].number
        OBVIOUS
      <4>1. 1 \in DOMAIN pending
        BY <1>2, <3>1
      <4>2. pending[1].number \in Nat
        BY <1>2, <4>1, EventFacts
      <4> QED BY <3>1, <4>2
    <3> HIDE DEF p
    <3> QED BY <1>2, <2>1, <3>1, <3>2
  <2>2. CASE Len(pending) >= MaxPending
    <3>1. p = EvictOldestUnreliable(pending)
      BY <2>2
    <3> HIDE DEF p
    <3>2. /\ InOrder(p, pushed) /\ AckedUpTo(p, acked)
          /\ \A x \in ToSet(pending) : IsReliable(x) => x \in ToSet(p)
          /\ \A i \in DOMAIN p : p[1].number >= pending[1].number
          /\ Len(p) = Len(pending) \/ Len(p) = Len(pending) - 1
          /\ Len(p) = Len(pending) => \A i \in DOMAIN p : IsReliable(p[i])
          /\ Len(p) = Len(pending) - 1 /\ OneUnreliable(pending) => \A i \in DOMAIN p : IsReliable(p[i])
      BY <1>2, <3>1, EvictedFacts
    <3>3. ASSUME Len(p) + 1 > MaxPending PROVE \A i \in DOMAIN p : IsReliable(p[i])
      <4>1. CASE Len(p) = Len(pending)
        BY <3>2, <4>1
      <4>2. CASE Len(p) = Len(pending) - 1
        <5>1. Len(pending) > MaxPending
          BY <1>2, <3>3, <4>2
        <5> QED BY <3>2, <4>2, <5>1 DEF EventInv
      <4> QED BY <3>2, <4>1, <4>2
    <3> QED BY <3>2, <3>3
  <2> QED BY <1>2, <2>1, <2>2
<1>5. ASSUME NEW i \in DOMAIN p PROVE pushed - p[1].number < Half
  <2>1. 1 \in DOMAIN p /\ p \in Seq(Events) /\ p[1].number \in Nat
    <3>1. p \in Seq(Events)
      BY <1>4 DEF InOrder
    <3> HIDE DEF p
    <3>2. DOMAIN p = 1 .. Len(p)
      BY <3>1
    <3>3. 1 \in DOMAIN p
      BY <1>5, <3>1, <3>2
    <3> QED BY <3>1, <3>3, EventFacts
  <2>2. pending # << >>
    <3>1. DOMAIN pending = {} => p = pending
      BY <1>2 DEF EvictOldestUnreliable
    <3>2. pending = << >> => DOMAIN pending = {}
      OBVIOUS
    <3> HIDE DEF p
    <3> QED BY <1>5, <3>1, <3>2
  <2>3. pushed - Head(pending).number < Half /\ Head(pending) = pending[1] /\ 1 \in DOMAIN pending
    BY <1>2, <2>2 DEF Push, Half
  <2>4. pending[1].number \in Nat
    BY <1>2, <2>3, EventFacts
  <2>5. p[1].number >= pending[1].number
    BY <1>4, <1>5
  <2>6. pushed - pending[1].number < Half
    BY <2>3
  <2> HIDE DEF p
  <2>7. PICK a \in Nat, b \in Nat, c \in Nat : a = p[1].number /\ b = pending[1].number /\ c = pushed
    BY <1>2, <2>1, <2>4
  <2>8. b <= a /\ c - b < Half
    BY <2>5, <2>6, <2>7
  <2>9. c - a < Half
    BY ONLY <2>8, HalfFacts, a \in Nat, b \in Nat, c \in Nat
  <2> QED BY <2>7, <2>9
<1> HIDE DEF p, e
<1>6. p \in Seq(Events) /\ Len(p) \in Nat /\ DOMAIN p = 1 .. Len(p)
  BY <1>4 DEF InOrder
<1>7. /\ pending' \in Seq(Events) /\ Len(pending') = Len(p) + 1
      /\ DOMAIN pending' = 1 .. Len(p) + 1
      /\ \A i \in 1 .. Len(p) : pending'[i] = p[i]
      /\ pending'[Len(p) + 1] = e
  <2> DEFINE q == Append(p, e)
  <2>1. q \in Seq(Events) /\ Len(q) = Len(p) + 1
    BY <1>3, <1>6
  <2>2. DOMAIN q = 1 .. Len(p) + 1 /\ (\A i \in 1 .. Len(p) : q[i] = p[i]) /\ q[Len(p) + 1] = e
    BY <1>6
  <2> QED BY <1>1, <2>1, <2>2
<1>8. \A i \in DOMAIN pending' : (i \in DOMAIN p /\ pending'[i] = p[i]) \/ (i = Len(p) + 1 /\ pending'[i] = e)
  BY <1>6, <1>7
<1>9. \A i \in DOMAIN p : p[i].number \in Nat /\ p[i].number < pushed /\ pushed - p[i].number < Half
  <2> SUFFICES ASSUME NEW i \in DOMAIN p
               PROVE p[i].number \in Nat /\ p[i].number < pushed /\ pushed - p[i].number < Half
    OBVIOUS
  <2>1. p[i].number \in Nat /\ p[i].number < pushed
    BY <1>4, <1>6, EventFacts DEF InOrder
  <2>2. 1 \in DOMAIN p /\ (i = 1 \/ 1 < i)
    BY <1>6
  <2>3. p[1].number \in Nat /\ pushed - p[1].number < Half
    BY <1>5, <1>6, <2>2, EventFacts
  <2>4. i = 1 \/ p[1].number < p[i].number
    BY <1>4, <2>2 DEF InOrder
  <2> QED BY <1>2, <2>1, <2>3, <2>4, HalfFacts
<1>10. Half > 0
  BY HalfFacts, EventQueueAssumption DEF Half
<1>11. InOrder(pending', pushed')
  <2>1. ASSUME NEW i \in DOMAIN pending' PROVE pending'[i].number < pushed'
    BY <1>1, <1>2, <1>3, <1>8, <1>9
  <2>2. ASSUME NEW i \in DOMAIN pending', NEW j \in DOMAIN pending', i < j
        PROVE pending'[i].number < pending'[j].number
    <3>1. i \in DOMAIN p /\ pending'[i] = p[i]
      BY <1>6, <1>7, <1>8, <2>2
    <3>2. CASE j \in DOMAIN p /\ pending'[j] = p[j]
      BY <1>4, <2>2, <3>1, <3>2 DEF InOrder
    <3>3. CASE pending'[j] = e
      BY <1>3, <1>9, <3>1, <3>3
    <3> QED BY <1>8, <3>2, <3>3
  <2>3. ASSUME NEW i \in DOMAIN pending', NEW j \in DOMAIN pending'
        PROVE pending'[j].number - pending'[i].number < Half
    <3>1. CASE i \in DOMAIN p /\ pending'[i] = p[i] /\ j \in DOMAIN p /\ pending'[j] = p[j]
      BY <1>4, <3>1 DEF InOrder
    <3>2. CASE i \in DOMAIN p /\ pending'[i] = p[i] /\ pending'[j] = e
      BY <1>3, <1>9, <3>2
    <3>3. CASE pending'[i] = e /\ j \in DOMAIN p /\ pending'[j] = p[j]
      <4>1. p[j].number \in Nat /\ p[j].number < pushed
        BY <1>9, <3>3
      <4>2. pending'[i].number = pushed /\ pending'[j].number = p[j].number
        BY <1>3, <3>3
      <4> QED BY <1>2, <1>10, <4>1, <4>2, HalfFacts
    <3>4. CASE pending'[i] = e /\ pending'[j] = e
      BY <1>2, <1>3, <1>10, <3>4
    <3> QED BY <1>8, <3>1, <3>2, <3>3, <3>4
  <2> QED BY <1>7, <2>1, <2>2, <2>3 DEF InOrder
<1>12. AckedUpTo(pending', acked')
  BY <1>1, <1>3, <1>4, <1>8 DEF AckedUpTo
<1>13. Len(pending') > MaxPending => OneUnreliable(pending')
  BY <1>4, <1>7, <1>8 DEF OneUnreliable
<1>14. ReliableStep
  <2> SUFFICES ASSUME NEW x \in ToSet(pending), IsReliable(x) PROVE x \in ToSet(pending')
    BY DEF ReliableStep
  <2>1. PICK i \in DOMAIN p : p[i] = x
    BY <1>4 DEF ToSet
  <2>2. i \in DOMAIN pending' /\ pending'[i] = x
    BY <1>6, <1>7, <2>1
  <2> QED BY <2>2 DEF ToSet
<1> QED BY <1>1, <1>2, <1>11, <1>12, <1>13, <1>14 DEF EventInv
\* Marked: acknowledging some of the events changes nothing else.
LEMMA Marked ==
  ASSUME EventInv, NEW M \in SUBSET DOMAIN pending,
         pending' = [i \in DOMAIN pending |->
                       IF i \in M THEN [pending[i] EXCEPT !.acked = TRUE] ELSE pending[i]],
         NEW n \in Nat, acked' = Latest(acked, n), UNCHANGED <<pushed, time>>,
         \A i \in M : pending[i].number <= n
  PROVE  EventInv' /\ ReliableStep
<1>1. /\ pushed \in Nat /\ time \in Nat /\ acked \in Int
      /\ InOrder(pending, pushed) /\ AckedUpTo(pending, acked)
      /\ pending \in Seq(Events) /\ Len(pending) \in Nat /\ DOMAIN pending = 1 .. Len(pending)
      /\ \A i \in DOMAIN pending : pending[i] \in Events /\ pending[i].number \in Nat
  <2>1. pending \in Seq(Events)
    BY DEF EventInv, InOrder
  <2> QED BY <2>1, EventFacts DEF EventInv
<1>2. DOMAIN pending' = DOMAIN pending
  OBVIOUS
<1>3. \A i \in DOMAIN pending :
        pending'[i] = IF i \in M THEN [pending[i] EXCEPT !.acked = TRUE] ELSE pending[i]
  OBVIOUS
<1>4. \A i \in DOMAIN pending :
        /\ pending'[i] \in Events
        /\ pending'[i].number = pending[i].number
        /\ pending'[i].reliability = pending[i].reliability
        /\ pending'[i].acked => pending[i].acked \/ i \in M
  <2> SUFFICES ASSUME NEW i \in DOMAIN pending
               PROVE  /\ pending'[i] \in Events
                      /\ pending'[i].number = pending[i].number
                      /\ pending'[i].reliability = pending[i].reliability
                      /\ pending'[i].acked => pending[i].acked \/ i \in M
    OBVIOUS
  <2> DEFINE e == pending[i]
  <2>1. e \in Events
    BY <1>1
  <2>2. pending'[i] = IF i \in M THEN [e EXCEPT !.acked = TRUE] ELSE e
    BY <1>3
  <2> HIDE DEF e
  <2>3. CASE i \in M
    <3>1. pending'[i] = [e EXCEPT !.acked = TRUE]
      BY <2>2, <2>3
    <3>2. /\ [e EXCEPT !.acked = TRUE] \in Events
          /\ [e EXCEPT !.acked = TRUE].number = e.number
          /\ [e EXCEPT !.acked = TRUE].reliability = e.reliability
      BY ONLY <2>1 DEF Events
    <3> QED BY <2>3, <3>1, <3>2 DEF e
  <2>4. CASE i \notin M
    BY <2>1, <2>2, <2>4 DEF e
  <2> QED BY <2>3, <2>4
<1>5. pending' \in Seq(Events) /\ Len(pending') = Len(pending)
  <2>1. pending' \in [1 .. Len(pending) -> Events]
    BY <1>1, <1>4
  <2> QED BY <1>1, <2>1
<1>6. pushed' = pushed /\ time' = time
  OBVIOUS
<1>7. acked' \in Int /\ acked <= acked' /\ n <= acked'
  BY <1>1 DEF Latest
<1>8. InOrder(pending', pushed')
  BY <1>1, <1>2, <1>4, <1>5, <1>6 DEF InOrder
<1>9. AckedUpTo(pending', acked')
  <2> SUFFICES ASSUME NEW i \in DOMAIN pending, pending'[i].acked PROVE pending[i].number <= acked'
    BY <1>2, <1>4 DEF AckedUpTo
  <2>1. pending[i].number <= acked \/ pending[i].number <= n
    BY <1>1, <1>4 DEF AckedUpTo
  <2> QED BY <1>1, <1>7, <2>1
<1>10. Len(pending') > MaxPending => OneUnreliable(pending')
  BY <1>2, <1>4, <1>5 DEF EventInv, OneUnreliable, IsReliable
<1>11. ReliableStep
  <2> SUFFICES ASSUME NEW e \in ToSet(pending)
               PROVE \E f \in ToSet(pending') : f.number = e.number
    BY DEF ReliableStep
  <2>0. PICK i \in DOMAIN pending : e = pending[i]
    BY DEF ToSet
  <2>1. pending'[i] \in ToSet(pending') /\ pending'[i].number = pending[i].number
    BY <1>2, <1>4 DEF ToSet
  <2> QED BY <2>0, <2>1
<1> QED BY <1>1, <1>6, <1>11, <1>7, <1>8, <1>9, <1>10 DEF EventInv

\* Newer: an event later than an acknowledged number lies within half of the
\* sequence space of it, and its sequence wraps past it.
LEMMA Newer ==
  ASSUME EventInv, NEW n \in MayBeAcked, NEW i \in DOMAIN pending, pending[i].number > n
  PROVE  /\ Sequence(pending[i].number) # Sequence(n)
         /\ ~SequenceLte(Sequence(pending[i].number), Sequence(n))
<1> DEFINE b == pending[i].number
<1>1. b \in Nat /\ b < pushed /\ pushed \in Nat
  <2>1. pending \in Seq(Events)
    BY DEF EventInv, InOrder
  <2> QED BY <2>1, EventFacts DEF EventInv, InOrder
<1>2. n \in Nat /\ pushed - n <= Half
  BY <1>1 DEF MayBeAcked, Half
<1> HIDE DEF b
<1>3. n < b /\ b - n < Half
  BY <1>1, <1>2, HalfFacts DEF b
<1>4. SeqSpace \in Nat \ {0} /\ b - n < SeqSpace
  BY <1>1, <1>2, <1>3, HalfFacts
<1>5. n % SeqSpace # b % SeqSpace /\ ((n % SeqSpace) - (b % SeqSpace)) % SeqSpace = SeqSpace - (b - n)
  BY <1>1, <1>2, <1>3, <1>4, ModApart
<1>6. ~(SeqSpace - (b - n) < Half)
  BY <1>1, <1>2, <1>3, HalfFacts
<1> QED BY <1>5, <1>6 DEF Sequence, SequenceLte, Half, b

\* AckInv: ack and ack_up_to mark nothing that was pushed later.
LEMMA AckInv ==
  ASSUME EventInv, NEW n \in MayBeAcked, Ack(n) \/ AckUpTo(n)
  PROVE  EventInv' /\ ReliableStep
<1>1. n \in Nat /\ acked' = Latest(acked, n) /\ UNCHANGED <<pushed, time>>
  BY DEF Ack, AckUpTo, MayBeAcked
<1>2. \A i \in DOMAIN pending : pending[i].number \in Nat
  <2>1. pending \in Seq(Events)
    BY DEF EventInv, InOrder
  <2> QED BY <2>1, EventFacts
<1>3. ASSUME Ack(n) PROVE EventInv' /\ ReliableStep
  <2> DEFINE hits == {i \in DOMAIN pending : Sequence(pending[i].number) = Sequence(n)}
             M == {i \in hits : \A j \in hits : i <= j}
  <2>1. pending' = [i \in DOMAIN pending |->
                      IF i \in M THEN [pending[i] EXCEPT !.acked = TRUE] ELSE pending[i]]
    BY <1>3 DEF Ack
  <2>2. M \in SUBSET DOMAIN pending
    OBVIOUS
  <2>3. \A i \in M : pending[i].number <= n
    BY <1>1, <1>2, Newer
  <2> HIDE DEF M
  <2> QED BY <1>1, <2>1, <2>2, <2>3, Marked
<1>4. ASSUME AckUpTo(n) PROVE EventInv' /\ ReliableStep
  <2> DEFINE M == {i \in DOMAIN pending : SequenceLte(Sequence(pending[i].number), Sequence(n))}
  <2>1. pending' = [i \in DOMAIN pending |->
                      IF i \in M THEN [pending[i] EXCEPT !.acked = TRUE] ELSE pending[i]]
    BY <1>4 DEF AckUpTo
  <2>2. M \in SUBSET DOMAIN pending
    OBVIOUS
  <2>3. \A i \in M : pending[i].number <= n
    BY <1>1, <1>2, Newer
  <2> HIDE DEF M
  <2> QED BY <1>1, <2>1, <2>2, <2>3, Marked
<1> QED BY <1>3, <1>4

\* DropInv: cleanup and drain_events_for_tick keep the order.
LEMMA DropInv ==
  ASSUME EventInv, NEW I \in SUBSET DOMAIN pending, pending' = Retain(pending, I),
         UNCHANGED <<pushed, acked>>, time' \in Nat
  PROVE  EventInv' /\ ToSet(pending') = {pending[i] : i \in I}
<1>1. pushed \in Nat /\ acked \in Int /\ InOrder(pending, pushed) /\ AckedUpTo(pending, acked)
  BY DEF EventInv
<1>2. /\ InOrder(pending', pushed) /\ AckedUpTo(pending', acked)
      /\ OneUnreliable(pending) => OneUnreliable(pending')
      /\ Len(pending') <= Len(pending)
      /\ ToSet(pending') = {pending[i] : i \in I}
  BY <1>1, RetainThinned
<1>3. Len(pending') \in Nat /\ Len(pending) \in Nat /\ MaxPending \in Nat
  BY <1>1, <1>2, EventQueueAssumption DEF InOrder
<1>4. Len(pending') > MaxPending => OneUnreliable(pending')
  BY <1>2, <1>3 DEF EventInv
<1> QED BY <1>1, <1>2, <1>4 DEF EventInv

\* CleanupInv: what cleanup takes is acknowledged or has expired.
LEMMA CleanupInv ==
  ASSUME EventInv, NEW elapsed \in Nat, Cleanup(elapsed)
  PROVE  EventInv' /\ ReliableStep
<1> DEFINE I == {i \in DOMAIN pending : ~pending[i].acked /\ ~IsExpired(pending[i], time')}
<1>1. /\ I \in SUBSET DOMAIN pending /\ pending' = Retain(pending, I)
      /\ UNCHANGED <<pushed, acked>> /\ time' \in Nat
  BY DEF Cleanup, EventInv
<1>2. \A i \in DOMAIN pending : IsReliable(pending[i]) /\ ~pending[i].acked => i \in I
  BY DEF IsExpired, IsReliable
<1> HIDE DEF I
<1>3. EventInv' /\ ToSet(pending') = {pending[i] : i \in I}
  BY <1>1, DropInv
<1>4. ReliableStep
  BY <1>2, <1>3 DEF ReliableStep, ToSet
<1> QED BY <1>3, <1>4

\* DrainInv: drain_events_for_tick takes all the events of the tick.
LEMMA DrainInv ==
  ASSUME EventInv, NEW tick, DrainEventsForTick(tick)
  PROVE  EventInv' /\ ReliableStep
<1> DEFINE I == {i \in DOMAIN pending : pending[i].tick # tick}
<1>1. /\ I \in SUBSET DOMAIN pending /\ pending' = Retain(pending, I)
      /\ UNCHANGED <<pushed, acked>> /\ time' \in Nat
  BY DEF DrainEventsForTick, EventInv
<1>2. EventInv' /\ ToSet(pending') = {pending[i] : i \in I}
  <2> HIDE DEF I
  <2> QED BY <1>1, DropInv
<1>3. ReliableStep
  <2> SUFFICES ASSUME NEW e \in ToSet(pending)
               PROVE  \/ \E f \in ToSet(pending') : f.number = e.number
                      \/ \A f \in ToSet(pending') : f.tick # e.tick
    BY DEF ReliableStep
  <2>1. PICK i \in DOMAIN pending : e = pending[i]
    BY DEF ToSet
  <2>2. CASE i \in I
    BY <1>2, <2>1, <2>2
  <2>3. CASE i \notin I
    BY <1>2, <2>1, <2>3
  <2> QED BY <2>2, <2>3
<1> QED BY <1>2, <1>3

\* EventInitInv: an empty queue.
LEMMA EventInitInv == EventInit => EventInv
<1> SUFFICES ASSUME EventInit PROVE EventInv
  OBVIOUS
<1>1. pending \in Seq(Events) /\ DOMAIN pending = {} /\ pushed = 0 /\ time = 0 /\ acked = -1
  BY DEF EventInit
<1> QED BY <1>1 DEF EventInv, InOrder, AckedUpTo, OneUnreliable

\* EventStep: every step of the queue.
LEMMA EventStep == ASSUME EventInv, [EventNext]_eventVars PROVE EventInv' /\ ReliableStep
<1>1. CASE EventNext
  <2>1. \A elapsed \in 0 .. 1 : elapsed \in Nat
    OBVIOUS
  <2> QED BY <1>1, <2>1, PushInv, AckInv, CleanupInv, DrainInv DEF EventNext
<1>2. CASE UNCHANGED eventVars
  BY <1>2 DEF eventVars, EventInv, ReliableStep
<1> QED BY <1>1, <1>2

\* EventsAlways: the queue stays in order and is acknowledged in order on
\* both sides of the wrap, and only reliable events take it over its limit
\* (EventQueue).
THEOREM EventsAlways == EventSpec => []EventsInOrder
<1>1. ASSUME EventInv PROVE EventsInOrder
  <2>1. /\ pushed \in Nat /\ pending \in Seq(Events) /\ DOMAIN pending = 1 .. Len(pending)
        /\ \A i \in DOMAIN pending : pending[i].number \in Nat
    <3>1. pending \in Seq(Events) /\ pushed \in Nat
      BY <1>1 DEF EventInv, InOrder
    <3> QED BY <3>1, EventFacts
  <2>2. InOrder(pending, pushed)
    BY <1>1 DEF EventInv
  <2>3. EventTypeOK
    <3>1. ASSUME NEW i \in DOMAIN pending PROVE pending[i].number \in 0 .. pushed - 1
      BY <2>1, <2>2 DEF InOrder
    <3>2. ASSUME NEW i \in DOMAIN pending, NEW j \in DOMAIN pending, i < j
          PROVE  /\ pending[i].number < pending[j].number
                 /\ Sequence(pending[i].number) # Sequence(pending[j].number)
      <4> DEFINE a == pending[i].number
                 b == pending[j].number
      <4>1. a \in Nat /\ b \in Nat /\ a < b /\ b - a < Half
        BY <2>1, <2>2, <3>2 DEF InOrder
      <4> HIDE DEF a, b
      <4>2. SeqSpace \in Nat \ {0} /\ b - a < SeqSpace
        BY <4>1, HalfFacts
      <4>3. a % SeqSpace # b % SeqSpace
        BY <4>1, <4>2, ModApart
      <4> QED BY <4>1, <4>3 DEF Sequence, a, b
    <3> QED BY <3>1, <3>2 DEF EventTypeOK
  <2>4. NothingNewerAcked
    BY <1>1 DEF EventInv, AckedUpTo, NothingNewerAcked, ToSet
  <2>5. OnlyReliableOverflow
    <3> SUFFICES ASSUME OneUnreliable(pending)
                 PROVE  Cardinality({i \in DOMAIN pending : ~IsReliable(pending[i])}) <= 1
      BY <1>1 DEF EventInv, OnlyReliableOverflow
    <3> DEFINE U == {i \in DOMAIN pending : ~IsReliable(pending[i])}
    <3>1. \A i, j \in U : i = j
      BY DEF OneUnreliable
    <3> HIDE DEF U
    <3>2. CASE U = {}
      BY <3>2, FS_EmptySet DEF U
    <3>3. CASE U # {}
      <4>1. PICK i : i \in U
        BY <3>3
      <4>2. U = {i}
        BY <3>1, <4>1
      <4>3. Cardinality(U) = 1
        BY <4>2, FS_Singleton
      <4> QED BY <4>3 DEF U
    <3> QED BY <3>2, <3>3
  <2> QED BY <2>3, <2>4, <2>5 DEF EventsInOrder
<1> QED BY <1>1, EventInitInv, EventStep, PTL DEF EventSpec

\* ReliableStaysAlways: a reliable event leaves the queue only acknowledged or
\* with its tick (evict_oldest_unreliable, cleanup).
THEOREM ReliableStaysAlways == EventSpec => ReliableStays
<1>1. EventInv /\ [EventNext]_eventVars =>
        [\A e \in ToSet(pending) :
           IsReliable(e) /\ ~e.acked =>
             \/ \E f \in ToSet(pending') : f.number = e.number
             \/ \A f \in ToSet(pending') : f.tick # e.tick]_eventVars
  BY EventStep DEF ReliableStep
<1>2. EventInv /\ [EventNext]_eventVars => EventInv'
  BY EventStep
<1> QED BY <1>1, <1>2, EventInitInv, PTL DEF EventSpec, ReliableStays
-----------------------------------------------------------------------------
(* Simulation.                                                             *)

\* Scan: what the scan has found after n slots
Scan(f, h, tick, n) ==
  f = [k \in 0 .. n |-> IF k = 0 THEN -1 ELSE Better(h, tick, f[k - 1], k - 1)]

\* ScanExists: the recursion of the scan defines a function.
LEMMA ScanExists ==
  ASSUME NEW h, NEW tick, NEW n \in Nat,
         \A s \in 0 .. n - 1 : h[s] = Empty \/ h[s].tick \in Nat
  PROVE  \E f : Scan(f, h, tick, n)
<1> DEFINE g == [p \in (1 .. n) \X Int |-> Better(h, tick, p[2], p[1] - 1)]
<1>1. g \in [(1 .. n) \X Int -> Int]
  <2> SUFFICES ASSUME NEW k \in 1 .. n, NEW found \in Int PROVE Better(h, tick, found, k - 1) \in Int
    OBVIOUS
  <2>1. k - 1 \in 0 .. n - 1
    OBVIOUS
  <2> QED BY <2>1 DEF Better
<1>2. PICK f : Rounds(f, Int, -1, n, g)
  <2> HIDE DEF g
  <2>1. -1 \in Int
    OBVIOUS
  <2> QED BY <1>1, <2>1, LoopExists
<1>3. ASSUME NEW k \in 0 .. n PROVE f[k] = IF k = 0 THEN -1 ELSE Better(h, tick, f[k - 1], k - 1)
  <2> USE DEF Rounds
  <2>1. CASE k = 0
    BY <1>2, <2>1
  <2>2. CASE k # 0
    <3>1. k \in 1 .. n /\ k - 1 \in 0 .. n
      BY <2>2
    <3>2. f[k - 1] \in Int /\ f[k] = g[<<k, f[k - 1]>>]
      BY <1>2, <3>1
    <3>3. g[<<k, f[k - 1]>>] = Better(h, tick, f[k - 1], k - 1)
      BY <3>1, <3>2
    <3> QED BY <2>2, <3>2, <3>3
  <2> QED BY <2>1, <2>2
<1>4. f = [k \in 0 .. n |-> f[k]]
  BY <1>2 DEF Rounds
<1> QED BY <1>3, <1>4 DEF Scan

\* Greatest: v is the greatest of the ticks before tick in the first n slots
Greatest(v, h, tick, n) ==
  /\ v \in Int /\ v >= -1
  /\ v = -1 \/ \E s \in 0 .. n - 1 : h[s] # Empty /\ h[s].tick < tick /\ h[s].tick = v
  /\ \A s \in 0 .. n - 1 : h[s] # Empty /\ h[s].tick < tick => h[s].tick <= v

\* ScanFacts: and finds the greatest of the ticks before tick.
LEMMA ScanFacts ==
  ASSUME NEW h, NEW tick \in Int, NEW n \in Nat, NEW f, Scan(f, h, tick, n),
         \A s \in 0 .. n - 1 : h[s] = Empty \/ h[s].tick \in Nat
  PROVE  \A k \in 0 .. n : Greatest(f[k], h, tick, k)
<1> DEFINE P(k) == Greatest(f[k], h, tick, k)
           T == {k \in 0 .. n : ~P(k)}
<1>1. \A k \in 0 .. n : f[k] = IF k = 0 THEN -1 ELSE Better(h, tick, f[k - 1], k - 1)
  BY DEF Scan
<1> SUFFICES ASSUME T # {} PROVE FALSE
  OBVIOUS
<1> HIDE DEF P, Greatest
<1>2. PICK m \in T : \A k \in T : m <= k
  <2>1. T \subseteq Nat
    OBVIOUS
  <2> HIDE DEF T
  <2> QED BY <2>1, LeastNatural
<1>3. m \in 0 .. n /\ ~P(m)
  OBVIOUS
<1>4. CASE m = 0
  <2>1. f[0] = -1
    BY <1>1, <1>3, <1>4
  <2>2. \A s \in 0 .. 0 - 1 : FALSE
    OBVIOUS
  <2>3. P(0)
    BY <2>1, <2>2 DEF P, Greatest
  <2> QED BY <1>3, <1>4, <2>3
<1>5. CASE m # 0
  <2>1. m - 1 \in 0 .. n /\ ~(m <= m - 1) /\ m - 1 \in 0 .. n - 1 /\ m - 1 \in 0 .. m - 1
    BY <1>3, <1>5
  <2>2. P(m - 1)
    BY <1>2, <2>1
  <2>3. f[m] = Better(h, tick, f[m - 1], m - 1)
    BY <1>1, <1>3, <1>5
  <2> DEFINE p == m - 1
             a == f[p]
             e == h[p]
  <2>4. p \in 0 .. n - 1 /\ a = f[p] /\ e = h[p] /\ p \in 0 .. m - 1 /\ p \in Int
    BY <2>1
  <2>5. \A s \in 0 .. m - 1 : s = p \/ s \in 0 .. p - 1
    BY <1>3
  <2>6. \A s \in 0 .. p - 1 : s \in 0 .. m - 1
    BY <1>3
  <2>7. P(p) /\ f[m] = Better(h, tick, a, p)
    BY <2>2, <2>3
  <2> HIDE DEF p, a, e
  <2>8. a \in Int /\ a >= -1
    BY <2>4, <2>7 DEF P, Greatest
  <2>9. CASE e # Empty /\ e.tick < tick /\ e.tick > a
    <3>1. f[m] = e.tick /\ e.tick \in Nat
      BY <2>4, <2>7, <2>9 DEF Better
    <3>2. \A s \in 0 .. m - 1 : h[s] # Empty /\ h[s].tick < tick => h[s].tick <= f[m]
      <4> SUFFICES ASSUME NEW s \in 0 .. m - 1, h[s] # Empty, h[s].tick < tick PROVE h[s].tick <= f[m]
        OBVIOUS
      <4>1. CASE s = p
        BY <2>4, <3>1, <4>1
      <4>2. CASE s \in 0 .. p - 1
        <5>1. h[s].tick <= a
          BY <2>4, <2>7, <4>2 DEF P, Greatest
        <5>2. h[s].tick \in Nat
          <6>1. s \in 0 .. n - 1
            BY <1>3
          <6> QED BY <6>1
        <5> QED BY <2>8, <2>9, <3>1, <5>1, <5>2
      <4> QED BY <2>5, <4>1, <4>2
    <3>3. \E s \in 0 .. m - 1 : h[s] # Empty /\ h[s].tick < tick /\ h[s].tick = f[m]
      BY <2>4, <2>9, <3>1
    <3>4. f[m] \in Int /\ f[m] >= -1
      BY <3>1
    <3>5. P(m)
      BY <3>2, <3>3, <3>4 DEF P, Greatest
    <3> QED BY <1>3, <3>5
  <2>10. CASE ~(e # Empty /\ e.tick < tick /\ e.tick > a)
    <3>1. f[m] = a
      BY <2>4, <2>7, <2>10 DEF Better
    <3>2. \A s \in 0 .. m - 1 : h[s] # Empty /\ h[s].tick < tick => h[s].tick <= f[m]
      <4> SUFFICES ASSUME NEW s \in 0 .. m - 1, h[s] # Empty, h[s].tick < tick PROVE h[s].tick <= f[m]
        OBVIOUS
      <4>1. CASE s = p
        <5>1. h[s].tick \in Nat /\ ~(h[s].tick > a)
          <6>1. s \in 0 .. n - 1
            BY <1>3
          <6> QED BY <2>4, <2>10, <4>1, <6>1
        <5> QED BY <2>8, <3>1, <5>1
      <4>2. CASE s \in 0 .. p - 1
        BY <2>4, <2>7, <3>1, <4>2 DEF P, Greatest
      <4> QED BY <2>5, <4>1, <4>2
    <3>3. f[m] = -1 \/ \E s \in 0 .. m - 1 : h[s] # Empty /\ h[s].tick < tick /\ h[s].tick = f[m]
      <4>1. a = -1 \/ \E s \in 0 .. p - 1 : h[s] # Empty /\ h[s].tick < tick /\ h[s].tick = a
        BY <2>4, <2>7 DEF P, Greatest
      <4> QED BY <2>6, <3>1, <4>1
    <3>4. P(m)
      BY <2>8, <3>1, <3>2, <3>3 DEF P, Greatest
    <3> QED BY <1>3, <3>4
  <2> QED BY <2>9, <2>10
<1> QED BY <1>4, <1>5

\* LatestBeforeFacts: so that latest_before finds it among all slots.
LEMMA LatestBeforeFacts ==
  ASSUME NEW h, NEW tick \in Int,
         \A s \in 0 .. Capacity - 1 : h[s] = Empty \/ h[s].tick \in Nat
  PROVE  Greatest(LatestBefore(h, tick), h, tick, Capacity)
<1>1. Capacity \in Nat
  BY SimulationAssumption
<1> DEFINE f == CHOOSE f : Scan(f, h, tick, Capacity)
<1>2. Scan(f, h, tick, Capacity)
  BY <1>1, ScanExists
<1>3. LatestBefore(h, tick) = f[Capacity]
  BY DEF LatestBefore, Scan
<1> HIDE DEF f
<1>4. Capacity \in 0 .. Capacity
  BY <1>1
<1> QED BY <1>1, <1>2, <1>3, <1>4, ScanFacts
\* Slot: a slot that is taken
Slot == [tick : 0 .. LastTick, snapshot : Seq(Inputs)]

\* TimelineInv: a slot of the history has the state of a tick that belongs to
\* it, and that of a past tick is the state in which it began
TimelineInv ==
  /\ simTick \in 0 .. LastTick
  /\ physics \in Seq(Inputs) /\ Len(physics) = simTick
  /\ DOMAIN history = 0 .. Capacity - 1
  /\ \A slot \in 0 .. Capacity - 1 :
       history[slot] = Empty \/ (history[slot] \in Slot /\ history[slot].tick % Capacity = slot)
  /\ PastIsExact

\* TimeInv: what an update still has to run and what it has run make up what
\* it was given
TimeInv ==
  /\ inUpdate \in BOOLEAN /\ accumulator \in Nat /\ ticksRun \in Nat
  /\ ~inUpdate => accumulator < TickTime
  /\ accumulator + ticksRun * TickTime <= MaxDelta + (TickTime - 1)

\* CommandsInv: the commands are numbers of ticks, and none is early
CommandsInv ==
  /\ commands \in Seq(0 .. LastTick)
  /\ drained.tick \in Int /\ drained.commands \in Seq(0 .. LastTick) /\ drained.left \in Seq(0 .. LastTick)
  /\ NoneEarly

\* SimInv: the invariant of the loop
SimInv == TimelineInv /\ TimeInv /\ CommandsInv

\* SlotFacts: a tick has one slot.
LEMMA SlotFacts ==
  ASSUME NEW tick \in Nat
  PROVE  tick % Capacity \in 0 .. Capacity - 1 /\ Capacity \in Nat \ {0}
BY SimulationAssumption

\* DueFacts: drain_for_tick takes no command that is early, and leaves none
\* that is due in front.
LEMMA DueFacts ==
  ASSUME NEW X \in SUBSET Int, NEW cs \in Seq(X), NEW tick \in Int
  PROVE  LET n == Due(cs, tick)
         IN  /\ n \in 0 .. Len(cs)
             /\ \A i \in 1 .. n : cs[i] <= tick
             /\ n < Len(cs) => cs[n + 1] > tick
<1> DEFINE later == {i \in DOMAIN cs : cs[i] > tick}
           n == Due(cs, tick)
<1>1. Len(cs) \in Nat /\ DOMAIN cs = 1 .. Len(cs) /\ \A i \in 1 .. Len(cs) : cs[i] \in Int
  <2>1. Len(cs) \in Nat /\ DOMAIN cs = 1 .. Len(cs) /\ \A i \in 1 .. Len(cs) : cs[i] \in X
    BY ONLY cs \in Seq(X)
  <2> QED BY <2>1
<1>2. CASE later = {}
  <2>1. n = Len(cs)
    BY <1>2 DEF Due
  <2>2. \A i \in 1 .. Len(cs) : ~(cs[i] > tick)
    BY <1>1, <1>2
  <2> HIDE DEF n, later
  <2>3. /\ n \in 0 .. Len(cs)
        /\ \A i \in 1 .. n : cs[i] <= tick
        /\ ~(n < Len(cs))
    BY <1>1, <2>1, <2>2
  <2> QED BY <2>3 DEF n
<1>3. CASE later # {}
  <2> DEFINE i == CHOOSE i \in later : \A j \in later : i <= j
  <2>1. later \subseteq Nat
    BY <1>1
  <2>2. i \in later /\ \A j \in later : i <= j
    <3> HIDE DEF later
    <3>1. \E j \in later : \A k \in later : j <= k
      BY <1>3, <2>1, LeastNatural
    <3> QED BY <3>1
  <2>3. n = i - 1
    BY <1>3 DEF Due
  <2> HIDE DEF n, i
  <2>4. i \in 1 .. Len(cs) /\ cs[i] > tick
    BY <1>1, <2>2
  <2>5. \A j \in 1 .. i - 1 : cs[j] <= tick
    <3> SUFFICES ASSUME NEW j \in 1 .. i - 1 PROVE cs[j] <= tick
      OBVIOUS
    <3>1. j \in 1 .. Len(cs) /\ ~(i <= j)
      BY <1>1, <2>4
    <3>2. ~(cs[j] > tick)
      BY <1>1, <2>2, <3>1
    <3> QED BY <1>1, <3>1, <3>2
  <2>6. n \in 0 .. Len(cs) /\ n + 1 = i
    BY <1>1, <2>3, <2>4
  <2> HIDE DEF later
  <2> QED BY <2>3, <2>4, <2>5, <2>6 DEF n
<1> QED BY <1>2, <1>3

\* DrainedFacts: so that both parts are of commands and none is early.
LEMMA DrainedFacts ==
  ASSUME NEW X \in SUBSET Int, NEW cs \in Seq(X), NEW tick \in Int
  PROVE  LET n == Due(cs, tick)
         IN  /\ SubSeq(cs, 1, n) \in Seq(X)
             /\ SubSeq(cs, n + 1, Len(cs)) \in Seq(X)
             /\ \A i \in DOMAIN SubSeq(cs, 1, n) : SubSeq(cs, 1, n)[i] <= tick
             /\ SubSeq(cs, n + 1, Len(cs)) # << >> => Head(SubSeq(cs, n + 1, Len(cs))) > tick
<1> DEFINE n == Due(cs, tick)
           a == SubSeq(cs, 1, n)
           b == SubSeq(cs, n + 1, Len(cs))
<1>1. Len(cs) \in Nat
  OBVIOUS
<1>2. /\ n \in 0 .. Len(cs)
      /\ \A i \in 1 .. n : cs[i] <= tick
      /\ n < Len(cs) => cs[n + 1] > tick
  BY DueFacts
<1> HIDE DEF n
<1>3. a \in Seq(X) /\ DOMAIN a = 1 .. n /\ \A i \in 1 .. n : a[i] = cs[i]
  <2>1. n \in 0 .. Len(cs)
    BY <1>2
  <2> QED BY <2>1, PrefixSet
<1>4. /\ b \in Seq(X) /\ Len(b) = (Len(cs) + 1) - (n + 1)
      /\ \A i \in 1 .. (Len(cs) + 1) - (n + 1) : b[i] = cs[(i + (n + 1)) - 1]
  <2>1. n + 1 \in 1 .. Len(cs) + 1
    BY <1>1, <1>2
  <2> QED BY <2>1, SuffixSet
<1> HIDE DEF a, b
<1>5. ASSUME b # << >> PROVE Head(b) > tick
  <2>1. Len(b) # 0
    BY <1>4, <1>5
  <2>2. n < Len(cs) /\ 1 \in 1 .. (Len(cs) + 1) - (n + 1) /\ (1 + (n + 1)) - 1 = n + 1
    BY <1>1, <1>2, <1>4, <2>1
  <2>3. b[1] = cs[n + 1] /\ Head(b) = b[1]
    BY <1>4, <1>5, <2>2
  <2> QED BY <1>2, <2>2, <2>3
<1>6. \A i \in DOMAIN a : a[i] <= tick
  BY <1>2, <1>3
<1> QED BY <1>3, <1>4, <1>5, <1>6 DEF n, a, b

\* SimInitInv: at tick 0 without a past.
LEMMA SimInitInv == SimInit => SimInv
<1> SUFFICES ASSUME SimInit PROVE SimInv
  OBVIOUS
<1>0. {MaxDelta, LastTick} \subseteq Nat /\ TickTime \in Nat \ {0} /\ Capacity \in Nat \ {0}
  BY SimulationAssumption
<1>1. << >> \in Seq(Inputs) /\ << >> \in Seq(0 .. LastTick) /\ Len(<< >>) = 0 /\ DOMAIN << >> = {}
  OBVIOUS
<1>2. DOMAIN history = 0 .. Capacity - 1 /\ \A slot \in 0 .. Capacity - 1 : history[slot] = Empty
  BY DEF SimInit
<1>3. simTick = 0 /\ physics = << >>
  BY DEF SimInit
<1>4. PastIsExact
  <2>1. \A tick \in 0 .. 0 - 1 : FALSE
    OBVIOUS
  <2> QED BY <1>1, <1>3, <2>1 DEF PastIsExact
<1>5. TimelineInv
  BY <1>0, <1>1, <1>2, <1>3, <1>4 DEF TimelineInv
<1>6. TimeInv
  <2>1. inUpdate = FALSE /\ accumulator = 0 /\ ticksRun = 0
    BY DEF SimInit
  <2>2. 0 * TickTime = 0 /\ 0 + 0 <= MaxDelta + (TickTime - 1) /\ 0 < TickTime /\ 0 \in Nat
    BY <1>0
  <2> QED BY <2>1, <2>2 DEF TimeInv
<1>7. CommandsInv
  BY <1>1 DEF SimInit, CommandsInv, NoneEarly
<1> QED BY <1>5, <1>6, <1>7 DEF SimInv

\* SameTimeline: who leaves the world alone leaves its history right.
LEMMA SameTimeline ==
  ASSUME TimelineInv, UNCHANGED <<simTick, physics, history>>
  PROVE  TimelineInv'
BY DEF TimelineInv, PastIsExact, Has, Snapshot

\* SameCommands: and the buffer likewise.
LEMMA SameCommands ==
  ASSUME CommandsInv, UNCHANGED <<commands, drained>>
  PROVE  CommandsInv'
BY DEF CommandsInv, NoneEarly

\* SimTickTimeline: a tick stores the state in which it began.
LEMMA SimTickTimeline ==
  ASSUME TimelineInv, NEW given \in Inputs, SimTick(given)
  PROVE  TimelineInv'
<1>1. /\ simTick < LastTick /\ simTick' = simTick + 1 /\ physics' = Append(physics, given)
      /\ history' = [history EXCEPT ![simTick % Capacity] = [tick |-> simTick, snapshot |-> physics]]
  BY DEF SimTick, Stored, StoreSnapshot
<1>2. /\ simTick \in Nat /\ LastTick \in Nat /\ physics \in Seq(Inputs) /\ Len(physics) = simTick
      /\ DOMAIN history = 0 .. Capacity - 1
  BY SimulationAssumption DEF TimelineInv
<1> DEFINE here == simTick % Capacity
           new == [tick |-> simTick, snapshot |-> physics]
<1>3. here \in 0 .. Capacity - 1
  BY <1>2, SlotFacts
<1>4. new \in Slot /\ new.tick = simTick /\ new.snapshot = physics
  BY <1>1, <1>2 DEF Slot
<1>5. /\ DOMAIN history' = 0 .. Capacity - 1 /\ history'[here] = new
      /\ \A slot \in 0 .. Capacity - 1 : slot # here => history'[slot] = history[slot]
  BY <1>1, <1>2, <1>3
<1>6. physics' \in Seq(Inputs) /\ Len(physics') = simTick'
  BY <1>1, <1>2
<1>7. \A t \in 0 .. simTick : SubSeq(physics', 1, t) = SubSeq(physics, 1, t)
  BY <1>1, <1>2
<1>8. SubSeq(physics, 1, simTick) = physics
  BY <1>2
<1>9. ASSUME NEW t \in 0 .. simTick' - 1, history'[t % Capacity].tick = t
      PROVE  history'[t % Capacity].snapshot = SubSeq(physics', 1, t)
  <2>1. t \in Nat /\ t \in 0 .. simTick
    BY <1>1, <1>2
  <2>2. t % Capacity \in 0 .. Capacity - 1
    BY <2>1, SlotFacts
  <2>3. CASE t % Capacity = here
    <3>1. t = simTick
      BY <1>4, <1>5, <1>9, <2>3
    <3> QED BY <1>4, <1>5, <1>7, <1>8, <2>1, <2>3, <3>1
  <2>4. CASE t % Capacity # here
    <3>1. history'[t % Capacity] = history[t % Capacity]
      BY <1>5, <2>2, <2>4
    <3>2. t \in 0 .. simTick - 1
      BY <1>2, <2>1, <2>4
    <3>3. history[t % Capacity].snapshot = SubSeq(physics, 1, t)
      BY <1>9, <3>1, <3>2 DEF TimelineInv, PastIsExact, Has, Snapshot
    <3> QED BY <1>7, <2>1, <3>1, <3>3
  <2> QED BY <2>3, <2>4
<1> HIDE DEF new
<1>10. \A slot \in 0 .. Capacity - 1 :
         history'[slot] = Empty \/ (history'[slot] \in Slot /\ history'[slot].tick % Capacity = slot)
  BY <1>4, <1>5 DEF TimelineInv
<1>11. PastIsExact'
  BY <1>6, <1>9 DEF PastIsExact, Has, Snapshot
<1>12. simTick' \in 0 .. LastTick
  BY <1>1, <1>2
<1> QED BY <1>5, <1>6, <1>10, <1>11, <1>12 DEF TimelineInv

\* RollbackTimeline: and a rollback goes back on the same timeline.
LEMMA RollbackTimeline ==
  ASSUME TimelineInv, NEW tick \in 0 .. LastTick, RollbackTo(tick)
  PROVE  TimelineInv'
<1>1. tick < simTick /\ Has(history, tick) /\ physics' = Snapshot(history, tick) /\ simTick' = tick /\ history' = history
  BY DEF RollbackTo
<1>2. simTick \in Nat /\ physics \in Seq(Inputs) /\ Len(physics) = simTick /\ tick \in 0 .. simTick - 1 /\ tick \in Nat
  BY <1>1, SimulationAssumption DEF TimelineInv
<1>3. physics' = SubSeq(physics, 1, tick)
  BY <1>1, <1>2 DEF TimelineInv, PastIsExact
<1>4. physics' \in Seq(Inputs) /\ Len(physics') = tick
  BY <1>2, <1>3
<1>5. \A t \in 0 .. tick - 1 : SubSeq(physics', 1, t) = SubSeq(physics, 1, t) /\ t \in 0 .. simTick - 1
  BY <1>2, <1>3
<1>6. PastIsExact'
  BY <1>1, <1>4, <1>5 DEF TimelineInv, PastIsExact, Has, Snapshot
<1> QED BY <1>1, <1>4, <1>6 DEF TimelineInv

\* SimStep: every step keeps the parts of the invariant.
LEMMA SimStep == ASSUME SimInv, [SimNext]_simVars PROVE SimInv'
<1>0. /\ MaxDelta \in Nat /\ LastTick \in Nat /\ MaxElapsed \in Nat
      /\ TickTime \in Nat \ {0} /\ MaxCommands \in Nat \ {0}
  BY SimulationAssumption
<1>1. TimelineInv /\ TimeInv /\ CommandsInv
  BY DEF SimInv
<1>2. ASSUME NEW passed \in 0 .. MaxElapsed, BeginUpdate(passed) PROVE SimInv'
  <2>1. UNCHANGED <<simTick, physics, history>> /\ UNCHANGED <<commands, drained>>
    BY <1>2 DEF BeginUpdate
  <2>2. TimeInv'
    <3>1. ~inUpdate /\ inUpdate' = TRUE /\ ticksRun' = 0
          /\ accumulator' = accumulator + (IF passed < MaxDelta THEN passed ELSE MaxDelta)
      BY <1>2 DEF BeginUpdate, Accumulated
    <3>2. accumulator \in Nat /\ accumulator < TickTime
      BY <1>1, <3>1 DEF TimeInv
    <3>3. accumulator' \in Nat /\ accumulator' <= MaxDelta + (TickTime - 1) /\ 0 * TickTime = 0
      BY <1>0, <3>1, <3>2
    <3> QED BY <1>0, <3>1, <3>3 DEF TimeInv
  <2> QED BY <1>1, <2>1, <2>2, SameTimeline, SameCommands DEF SimInv
<1>3. ASSUME NEW given \in Inputs, SimTick(given) PROVE SimInv'
  <2>1. TimelineInv'
    BY <1>1, <1>3, SimTickTimeline
  <2>2. TimeInv'
    <3>1. /\ inUpdate' = inUpdate /\ inUpdate /\ accumulator >= TickTime
          /\ accumulator' = accumulator - TickTime /\ ticksRun' = ticksRun + 1
      BY <1>3 DEF SimTick
    <3>2. (ticksRun + 1) * TickTime = ticksRun * TickTime + TickTime /\ ticksRun * TickTime \in Int
      BY <1>0, <1>1 DEF TimeInv
    <3> QED BY <1>0, <1>1, <3>1, <3>2 DEF TimeInv
  <2>3. CommandsInv'
    <3> DEFINE n == Due(commands, simTick)
    <3>1. /\ commands' = SubSeq(commands, n + 1, Len(commands))
          /\ drained' = [tick |-> simTick, commands |-> SubSeq(commands, 1, n), left |-> commands']
      BY <1>3 DEF SimTick
    <3>2. drained'.tick = simTick /\ drained'.commands = SubSeq(commands, 1, n) /\ drained'.left = commands'
      <4> HIDE DEF n
      <4> QED BY <3>1
    <3>3. commands \in Seq(0 .. LastTick) /\ simTick \in Int
      BY <1>0, <1>1 DEF CommandsInv, TimelineInv
    <3>4. /\ SubSeq(commands, 1, n) \in Seq(0 .. LastTick)
          /\ SubSeq(commands, n + 1, Len(commands)) \in Seq(0 .. LastTick)
          /\ \A i \in DOMAIN SubSeq(commands, 1, n) : SubSeq(commands, 1, n)[i] <= simTick
          /\ SubSeq(commands, n + 1, Len(commands)) # << >> => Head(SubSeq(commands, n + 1, Len(commands))) > simTick
      <4>1. 0 .. LastTick \in SUBSET Int
        BY SimulationAssumption
      <4> HIDE DEF n
      <4>2. SubSeq(commands, 1, Due(commands, simTick)) \in Seq(0 .. LastTick)
        BY <3>3, <4>1, DrainedFacts
      <4>3. SubSeq(commands, Due(commands, simTick) + 1, Len(commands)) \in Seq(0 .. LastTick)
        BY <3>3, <4>1, DrainedFacts
      <4>4. \A i \in DOMAIN SubSeq(commands, 1, Due(commands, simTick)) :
              SubSeq(commands, 1, Due(commands, simTick))[i] <= simTick
        BY <3>3, <4>1, DrainedFacts
      <4>5. SubSeq(commands, Due(commands, simTick) + 1, Len(commands)) # << >>
            => Head(SubSeq(commands, Due(commands, simTick) + 1, Len(commands))) > simTick
        BY <3>3, <4>1, DrainedFacts
      <4> QED BY <4>2, <4>3, <4>4, <4>5 DEF n
    <3> HIDE DEF n
    <3> QED BY <3>1, <3>2, <3>3, <3>4 DEF CommandsInv, NoneEarly
  <2> QED BY <2>1, <2>2, <2>3 DEF SimInv
<1>4. CASE EndUpdate
  <2>1. UNCHANGED <<simTick, physics, history>> /\ UNCHANGED <<commands, drained>>
    BY <1>4 DEF EndUpdate
  <2>2. TimeInv'
    BY <1>1, <1>4 DEF EndUpdate, TimeInv
  <2> QED BY <1>1, <2>1, <2>2, SameTimeline, SameCommands DEF SimInv
<1>5. ASSUME NEW tick \in 0 .. LastTick, RollbackTo(tick) PROVE SimInv'
  <2>1. UNCHANGED <<commands, drained>> /\ UNCHANGED <<inUpdate, accumulator, ticksRun>>
    BY <1>5 DEF RollbackTo
  <2>2. TimeInv'
    BY <1>1, <2>1 DEF TimeInv
  <2> QED BY <1>1, <1>5, <2>1, <2>2, RollbackTimeline, SameCommands DEF SimInv
<1>6. ASSUME NEW tick \in 0 .. LastTick, PushCommand(tick) PROVE SimInv'
  <2>1. UNCHANGED <<simTick, physics, history>> /\ UNCHANGED <<inUpdate, accumulator, ticksRun>> /\ drained' = drained
        /\ commands' = Append(IF Len(commands) >= MaxCommands THEN Tail(commands) ELSE commands, tick)
    BY <1>6 DEF PushCommand
  <2>2. TimeInv'
    BY <1>1, <2>1 DEF TimeInv
  <2>3. commands' \in Seq(0 .. LastTick)
    <3> DEFINE kept == IF Len(commands) >= MaxCommands THEN Tail(commands) ELSE commands
    <3>1. commands \in Seq(0 .. LastTick)
      BY <1>1 DEF CommandsInv
    <3>2. kept \in Seq(0 .. LastTick)
      <4>1. Len(commands) >= MaxCommands => commands # << >>
        <5>1. Len(<< >>) = 0
          OBVIOUS
        <5> QED BY <1>0, <5>1
      <4>2. CASE Len(commands) >= MaxCommands
        <5>1. Tail(commands) \in Seq(0 .. LastTick)
          BY <3>1, <4>1, <4>2, TailSet
        <5> QED BY <4>2, <5>1
      <4>3. CASE ~(Len(commands) >= MaxCommands)
        BY <3>1, <4>3
      <4> QED BY <4>2, <4>3
    <3> HIDE DEF kept
    <3>3. Append(kept, tick) \in Seq(0 .. LastTick)
      BY <3>2
    <3> QED BY <2>1, <3>3 DEF kept
  <2>4. CommandsInv'
    BY <1>1, <2>1, <2>3 DEF CommandsInv, NoneEarly
  <2> QED BY <1>1, <2>1, <2>2, <2>4, SameTimeline DEF SimInv
<1>7. CASE UNCHANGED simVars
  <2>1. UNCHANGED <<simTick, physics, history>> /\ UNCHANGED <<commands, drained>>
        /\ UNCHANGED <<inUpdate, accumulator, ticksRun>>
    BY <1>7 DEF simVars
  <2>2. TimeInv'
    BY <1>1, <2>1 DEF TimeInv
  <2> QED BY <1>1, <2>1, <2>2, SameTimeline, SameCommands DEF SimInv
<1> QED BY <1>2, <1>3, <1>4, <1>5, <1>6, <1>7 DEF SimNext

\* TimelinesAlways: rolled back however often, the history is that of the
\* present timeline, latest_before finds the last tick before another, and an
\* update runs a bounded number of ticks with the commands that are due
\* (SimulationLoop, PhysicsHistory, CommandBuffer).
THEOREM TimelinesAlways == SimSpec => []TimelinesAreExact
<1>1. ASSUME SimInv PROVE TimelinesAreExact
  <2>1. PastIsExact /\ NoneEarly
    BY <1>1 DEF SimInv, TimelineInv, CommandsInv
  <2>2. UpdateIsBounded
    <3>1. /\ ticksRun \in Nat /\ accumulator \in Nat /\ TickTime \in Nat \ {0} /\ MaxDelta \in Nat
          /\ accumulator + ticksRun * TickTime <= MaxDelta + (TickTime - 1)
      BY <1>1, SimulationAssumption DEF SimInv, TimeInv
    <3> DEFINE q == (MaxDelta + TickTime - 1) \div TickTime
               r == (MaxDelta + TickTime - 1) % TickTime
               m == MaxDelta + TickTime - 1
    <3>2. m \in Nat /\ m = MaxDelta + (TickTime - 1)
      BY <3>1
    <3>3. m = TickTime * q + r /\ q \in Int /\ r \in 0 .. TickTime - 1
      <4> HIDE DEF m
      <4> QED BY <3>1, <3>2, DivMod, ModRange DEF m
    <3> HIDE DEF q, r, m
    <3>4. ASSUME ticksRun > q PROVE FALSE
      <4>1. ticksRun * TickTime >= (q + 1) * TickTime
        BY <3>1, <3>3, <3>4
      <4>2. (q + 1) * TickTime = TickTime * q + TickTime
        BY <3>1, <3>3
      <4>3. ticksRun * TickTime \in Int /\ TickTime * q \in Int
        BY <3>1, <3>3
      <4> QED BY <3>1, <3>2, <3>3, <4>1, <4>2, <4>3
    <3>5. ticksRun <= q
      BY <3>1, <3>3, <3>4
    <3> QED BY <3>5 DEF UpdateIsBounded, q
  <2>3. LatestIsLatest
    <3> SUFFICES ASSUME NEW tick \in 0 .. LastTick
                 PROVE  LET earlier == {t \in 0 .. tick - 1 : Has(history, t)}
                        IN  LatestBefore(history, tick) = IF earlier = {} THEN -1
                              ELSE CHOOSE t \in earlier : \A s \in earlier : s <= t
      BY DEF LatestIsLatest
    <3> DEFINE earlier == {t \in 0 .. tick - 1 : Has(history, t)}
               best == LatestBefore(history, tick)
    <3>1. tick \in Nat /\ Capacity \in Nat \ {0}
      BY SimulationAssumption
    <3>2. \A s \in 0 .. Capacity - 1 :
            history[s] = Empty \/ (history[s].tick \in Nat /\ history[s].tick % Capacity = s)
      BY <1>1, SimulationAssumption DEF SimInv, TimelineInv, Slot
    <3>3. Greatest(best, history, tick, Capacity)
      BY <3>1, <3>2, LatestBeforeFacts
    <3> HIDE DEF best
    <3>4. \A s \in 0 .. Capacity - 1 : history[s] # Empty /\ history[s].tick < tick => history[s].tick \in earlier
      BY <3>1, <3>2 DEF Has
    <3>5. \A t \in earlier : t % Capacity \in 0 .. Capacity - 1 /\ history[t % Capacity] # Empty
                             /\ history[t % Capacity].tick = t /\ t < tick
      <4> SUFFICES ASSUME NEW t \in 0 .. tick - 1, Has(history, t)
                   PROVE  t % Capacity \in 0 .. Capacity - 1 /\ history[t % Capacity] # Empty
                          /\ history[t % Capacity].tick = t /\ t < tick
        OBVIOUS
      <4>1. t % Capacity \in 0 .. Capacity - 1 /\ t \in Nat
        BY SlotFacts
      <4>2. history[t % Capacity].tick = t
        BY DEF Has
      <4>3. Empty.tick = -1
        BY DEF Empty
      <4>4. history[t % Capacity] # Empty
        BY <4>1, <4>2, <4>3
      <4> QED BY <3>1, <4>1, <4>2, <4>4
    <3>6. \A t \in earlier : t <= best
      BY <3>5, <3>3 DEF Greatest
    <3>7. best = -1 \/ best \in earlier
      BY <3>3, <3>4 DEF Greatest
    <3>8. earlier \subseteq Nat
      BY <3>1
    <3> HIDE DEF earlier
    <3>9. CASE earlier = {}
      BY <3>7, <3>9 DEF best, earlier
    <3>10. CASE earlier # {}
      <4>1. best \in earlier
        <5>1. PICK t : t \in earlier
          BY <3>10
        <5>2. t \in Nat /\ t <= best
          BY <3>6, <3>8, <5>1
        <5>3. best # -1
          BY <5>2
        <5> QED BY <3>7, <5>3
      <4>2. \A t \in earlier : (\A s \in earlier : s <= t) => t = best
        <5> SUFFICES ASSUME NEW t \in earlier, \A s \in earlier : s <= t PROVE t = best
          OBVIOUS
        <5>1. t <= best /\ best <= t /\ t \in Nat /\ best \in Nat
          BY <3>6, <3>8, <4>1
        <5> QED BY <5>1
      <4>3. (CHOOSE t \in earlier : \A s \in earlier : s <= t) = best
        BY <3>6, <4>1, <4>2
      <4> QED BY <3>10, <4>3 DEF best, earlier
    <3> QED BY <3>9, <3>10
  <2> QED BY <2>1, <2>2, <2>3 DEF TimelinesAreExact
<1> QED BY <1>1, SimInitInv, SimStep, PTL DEF SimSpec
-----------------------------------------------------------------------------
(* Conversions.                                                            *)

\* TruncatedFacts: a cast drops less than one, towards zero.
LEMMA TruncatedFacts ==
  ASSUME NEW v \in Int, NEW parts \in Nat \ {0}
  PROVE  /\ Truncated(v, parts) \in Int
         /\ v >= 0 => /\ Truncated(v, parts) >= 0 /\ Truncated(v, parts) * parts >= 0
                      /\ Truncated(v, parts) * parts <= v /\ v - Truncated(v, parts) * parts < parts
         /\ v <= 0 => /\ Truncated(v, parts) <= 0 /\ Truncated(v, parts) * parts <= 0
                      /\ v <= Truncated(v, parts) * parts /\ Truncated(v, parts) * parts - v < parts
<1>1. ASSUME NEW w \in Nat
      PROVE  \E q \in Nat : /\ w \div parts = q /\ q * parts \in Nat
                            /\ q * parts <= w /\ w - q * parts < parts
  <2>1. PICK q \in Nat, r \in 0 .. parts - 1 : w \div parts = q /\ w = parts * q + r
    BY DivMod, ModRange
  <2>2. q * parts = parts * q /\ q * parts \in Nat
    OBVIOUS
  <2>3. q * parts <= w /\ w - q * parts < parts
    BY <2>1, <2>2
  <2> QED BY <2>1, <2>2, <2>3
<1>2. CASE v >= 0
  <2>1. PICK q \in Nat : /\ v \div parts = q /\ q * parts \in Nat
                         /\ q * parts <= v /\ v - q * parts < parts
    BY <1>1, <1>2
  <2>2. Truncated(v, parts) = q
    BY <1>2, <2>1 DEF Truncated
  <2>3. v <= 0 => q * parts = 0 /\ q = 0
    <3> SUFFICES ASSUME v <= 0 PROVE q * parts = 0 /\ q = 0
      OBVIOUS
    <3>1. q * parts = 0
      BY <1>2, <2>1
    <3>2. q >= 1 => q * parts >= parts
      OBVIOUS
    <3> QED BY <3>1, <3>2
  <2> QED BY <1>2, <2>1, <2>2, <2>3
<1>3. CASE v < 0
  <2>1. PICK q \in Nat : /\ (-v) \div parts = q /\ q * parts \in Nat
                         /\ q * parts <= -v /\ -v - q * parts < parts
    <3>1. -v \in Nat
      BY <1>3
    <3> QED BY <1>1, <3>1
  <2>2. Truncated(v, parts) = -q
    BY <1>3, <2>1 DEF Truncated
  <2>3. (-q) * parts = -(q * parts)
    OBVIOUS
  <2> QED BY <1>3, <2>1, <2>2, <2>3
<1> QED BY <1>2, <1>3

\* TruncatedClose: what a cast makes of v, in parts again, is Close to v.
LEMMA TruncatedClose ==
  ASSUME NEW v \in Int, NEW parts \in Nat \ {0}
  PROVE  Close(Truncated(v, parts) * parts, v, parts)
<1>1. PICK d \in Int : d = Truncated(v, parts) * parts
  BY TruncatedFacts
<1>2. /\ v >= 0 => 0 <= d /\ d <= v /\ v - d < parts
      /\ v <= 0 => d <= 0 /\ v <= d /\ d - v < parts
  BY <1>1, TruncatedFacts
<1>3. Magnitude(d - v) < parts /\ Magnitude(d) <= Magnitude(v)
  BY <1>2 DEF Magnitude
<1>4. d * v >= 0
  <2>1. ASSUME NEW a \in Nat, NEW b \in Nat PROVE a * b >= 0
    OBVIOUS
  <2>2. CASE v >= 0
    BY <1>2, <2>1, <2>2
  <2>3. CASE v < 0
    <3>1. (-d) * (-v) >= 0
      BY <1>2, <2>1, <2>3
    <3>2. (-d) * (-v) = d * v
      OBVIOUS
    <3> QED BY <3>1, <3>2
  <2> QED BY <2>2, <2>3
<1> QED BY <1>1, <1>3, <1>4 DEF Close

\* TruncatedWithin: a cast of what is within limit steps is within limit.
LEMMA TruncatedWithin ==
  ASSUME NEW v \in Int, NEW parts \in Nat \ {0}, NEW limit \in Nat,
         v < parts * (limit + 1), -v < parts * (limit + 1)
  PROVE  Truncated(v, parts) \in -limit .. limit
<1>1. PICK q \in Int : q = Truncated(v, parts)
  BY TruncatedFacts
<1>2. q * parts < parts * (limit + 1) /\ -(q * parts) < parts * (limit + 1)
  <2>1. PICK d \in Int : d = q * parts
    OBVIOUS
  <2>2. PICK b \in Int : b = parts * (limit + 1)
    OBVIOUS
  <2>3. (v >= 0 => 0 <= d /\ d <= v) /\ (v <= 0 => d <= 0 /\ v <= d)
    BY <1>1, <2>1, TruncatedFacts
  <2>4. d < b /\ -d < b
    BY <2>2, <2>3
  <2> QED BY <2>1, <2>2, <2>4
<1>3. ASSUME NEW n \in Int, n * parts < parts * (limit + 1) PROVE n <= limit
  <2>1. n >= limit + 1 => n * parts >= (limit + 1) * parts
    <3> SUFFICES ASSUME n >= limit + 1 PROVE n * parts >= (limit + 1) * parts
      OBVIOUS
    <3>1. PICK k \in Nat : n = (limit + 1) + k
      <4>1. n - (limit + 1) \in Nat /\ n = (limit + 1) + (n - (limit + 1))
        OBVIOUS
      <4> QED BY <4>1
    <3>2. k * parts >= 0 /\ n * parts = (limit + 1) * parts + k * parts
      BY <3>1
    <3> QED BY <3>2
  <2>2. (limit + 1) * parts = parts * (limit + 1)
    OBVIOUS
  <2> QED BY <1>3, <2>1, <2>2
<1>4. -q <= limit
  <2>1. (-q) * parts = -(q * parts) /\ -q \in Int
    OBVIOUS
  <2> QED BY <1>2, <1>3, <2>1
<1> QED BY <1>1, <1>2, <1>3, <1>4

\* MultipleOf: k times m leaves nothing, also for a negative k.
LEMMA MultipleOf ==
  ASSUME NEW m \in Nat \ {0}, NEW k \in Int
  PROVE  (m * k) % m = 0
<1>1. PICK a \in Int : a = m * k
  OBVIOUS
<1>2. PICK q \in Int, r \in 0 .. m - 1 : a = m * q + r /\ a % m = r
  <2>1. a = m * (a \div m) + (a % m) /\ a \div m \in Int /\ a % m \in 0 .. m - 1
    OBVIOUS
  <2> QED BY <2>1
<1>3. m * k + 0 = m * q + r /\ 0 \in 0 .. m - 1
  BY <1>1, <1>2
<1>4. r = 0
  BY <1>3, DivModUnique
<1> QED BY <1>1, <1>2, <1>4

\* ConversionConstants: what the constants are.
LEMMA ConversionConstants ==
  /\ One \in Nat \ {0} /\ MoveSteps \in Nat \ {0} /\ Fine \in Nat \ {0}
  /\ HalfTurn \in Nat \ {0} /\ WireMax \in Nat \ {0} /\ Frames \in Nat \ {0}
  /\ MaxAngle \in Nat /\ MaxSpeed \in Nat /\ HalfTurn < Fine * (WireMax + 1)
BY ConversionAssumption

\* ClampedFacts: what is clamped is within the limit.
LEMMA ClampedFacts ==
  ASSUME NEW v \in Int, NEW limit \in Nat
  PROVE  ClampedTo(v, limit) \in -limit .. limit
BY DEF ClampedTo

\* MoveCloses, MotionCloses: directions, velocities and orientations.
LEMMA MoveCloses ==
  ASSUME NEW v \in Int
  PROVE  Close(EncodeMove(v) * One, ClampedTo(v, One) * MoveSteps, One)
<1>1. ClampedTo(v, One) * MoveSteps \in Int
  BY ConversionConstants, ClampedFacts
<1> QED BY <1>1, ConversionConstants, TruncatedClose DEF EncodeMove

LEMMA MotionCloses ==
  ASSUME NEW v \in Int
  PROVE  /\ Close(EncodeVelocity(v) * Fine, ClampedTo(v, Fine * WireMax), Fine)
         /\ Close(EncodeOrientation(v) * One, ClampedTo(v, One) * WireMax, One)
<1>1. ClampedTo(v, One) * WireMax \in Int
  BY ConversionConstants, ClampedFacts
<1>2. Close(EncodeOrientation(v) * One, ClampedTo(v, One) * WireMax, One)
  BY <1>1, ConversionConstants, TruncatedClose DEF EncodeOrientation
<1>3. PICK b \in Nat, u \in Int : b = Fine * WireMax /\ u = ClampedTo(v, Fine * WireMax) /\ u \in -b .. b
  <2>1. Fine * WireMax \in Nat
    BY ConversionConstants
  <2> QED BY <2>1, ClampedFacts
<1>4. u < Fine * (WireMax + 1) /\ -u < Fine * (WireMax + 1)
  <2>1. Fine * (WireMax + 1) = b + Fine
    BY <1>3, ConversionConstants
  <2> QED BY <1>3, <2>1, ConversionConstants
<1>5. Truncated(u, Fine) \in -WireMax .. WireMax
  BY <1>3, <1>4, ConversionConstants, TruncatedWithin
<1>6. EncodeVelocity(v) = Truncated(u, Fine)
  BY <1>3, <1>5, ConversionConstants DEF EncodeVelocity, AsI16
<1> QED BY <1>2, <1>3, <1>6, ConversionConstants, TruncatedClose

\* AnimationCloses: the animation.
LEMMA AnimationCloses ==
  ASSUME NEW moment \in Int
  PROVE  LET decoded == EncodeAnimation(moment) * One
             meant == IF moment < 0 THEN 0 ELSE (moment % One) * Frames
         IN  decoded <= meant /\ meant - decoded < One
<1>1. CASE moment < 0
  <2>1. PICK q \in Int, d \in Int : q = Truncated(moment, One) /\ d = q * One /\ moment <= d /\ d <= 0
    BY <1>1, ConversionConstants, TruncatedFacts
  <2>2. PICK r \in Int : r = Remainder(moment, One) /\ r <= 0
    <3>1. One * q = q * One
      BY ConversionConstants
    <3>2. Remainder(moment, One) = moment - d /\ moment - d <= 0
      BY <2>1, <3>1 DEF Remainder
    <3> QED BY <2>1, <3>2
  <2>3. r * Frames \in Int /\ r * Frames <= 0
    <3>1. (-r) * Frames >= 0 /\ (-r) * Frames = -(r * Frames)
      BY <2>2, ConversionConstants
    <3> QED BY <2>2, <3>1, ConversionConstants
  <2>4. Truncated(r * Frames, One) <= 0 /\ Truncated(r * Frames, One) \in Int
    BY <2>3, ConversionConstants, TruncatedFacts
  <2>5. EncodeAnimation(moment) = 0
    BY <2>2, <2>4 DEF EncodeAnimation
  <2> QED BY <1>1, <2>5, ConversionConstants
<1>2. CASE moment >= 0
  <2>1. PICK q \in Nat, r \in 0 .. One - 1 :
          moment \div One = q /\ moment % One = r /\ moment = One * q + r
    <3>1. moment \in Nat /\ One \in Nat \ {0}
      BY <1>2, ConversionConstants
    <3>2. moment \div One \in Nat /\ moment % One \in 0 .. One - 1
          /\ moment = One * (moment \div One) + (moment % One)
      BY <3>1, DivMod, ModRange
    <3> QED BY <3>2
  <2>2. Remainder(moment, One) = r
    BY <1>2, <2>1, ConversionConstants DEF Remainder, Truncated
  <2>3. PICK w \in Nat : w = r * Frames
    BY <2>1, ConversionConstants
  <2>4. PICK n \in Nat : n = Truncated(w, One) /\ n * One <= w /\ w - n * One < One
    <3>1. /\ Truncated(w, One) \in Int /\ Truncated(w, One) >= 0
          /\ Truncated(w, One) * One <= w /\ w - Truncated(w, One) * One < One
      BY ConversionConstants, TruncatedFacts
    <3> QED BY <3>1
  <2>5. EncodeAnimation(moment) = n
    BY <2>2, <2>3, <2>4 DEF EncodeAnimation
  <2> QED BY <1>2, <2>1, <2>3, <2>4, <2>5
<1> QED BY <1>1, <1>2


\* YawStays: the direction in which the client looks survives the turns that
\* normalize_angle takes off and the cast.
LEMMA YawStays ==
  ASSUME NEW yaw \in Int, yaw \in -MaxAngle .. MaxAngle
  PROVE  /\ \E turns \in -MaxAngle .. MaxAngle :
              Magnitude(EncodeYaw(yaw) * Fine - (yaw + turns * 2 * HalfTurn)) < Fine
         /\ Magnitude(EncodeYaw(yaw) * Fine) <= HalfTurn
<1>1. PICK full \in Nat \ {0} : full = 2 * HalfTurn
  BY ConversionConstants
<1>2. PICK k \in Int, d \in Int : k = Truncated(yaw, full) /\ d = k * full
  <2>1. PICK k \in Int : k = Truncated(yaw, full)
    BY <1>1, TruncatedFacts
  <2>2. k * full \in Int
    BY <1>1
  <2> QED BY <2>1, <2>2
<1>3. /\ yaw >= 0 => k >= 0 /\ d >= 0 /\ d <= yaw /\ yaw - d < full
      /\ yaw <= 0 => k <= 0 /\ d <= 0 /\ yaw <= d /\ d - yaw < full
  BY <1>1, <1>2, TruncatedFacts
<1>4. PICK n \in Int : n = Remainder(yaw, full) /\ n = yaw - d
  <2>1. full * k = k * full
    BY <1>1, <1>2
  <2> QED BY <1>1, <1>2, <2>1 DEF Remainder
<1>5. k \in -MaxAngle .. MaxAngle /\ (k >= 0 => d >= k) /\ (k <= 0 => d <= k)
  <2>1. ASSUME NEW a \in Nat PROVE a * full >= a
    BY <1>1
  <2>2. k = 0 => d = 0
    BY <1>1, <1>2
  <2>3. CASE yaw >= 0
    <3>1. d >= k
      BY <1>2, <1>3, <2>1, <2>3
    <3> QED BY <1>3, <2>2, <2>3, <3>1, ConversionConstants
  <2>4. CASE yaw < 0
    <3>1. (-k) * full >= -k /\ (-k) * full = -(k * full)
      BY <1>1, <1>2, <1>3, <2>1, <2>4
    <3>2. d <= k
      BY <1>2, <3>1
    <3> QED BY <1>3, <2>2, <2>4, <3>2, ConversionConstants
  <2> QED BY <2>3, <2>4
<1>6. PICK turns \in -MaxAngle .. MaxAngle :
        /\ NormalizeAngle(yaw) = yaw + turns * 2 * HalfTurn
        /\ NormalizeAngle(yaw) \in -HalfTurn .. HalfTurn
  <2>1. ASSUME NEW t \in Int PROVE t * 2 * HalfTurn = t * full
    BY <1>1, ConversionConstants
  <2>2. CASE n > HalfTurn
    <3>1. -(k + 1) \in -MaxAngle .. MaxAngle
      BY <1>1, <1>3, <1>4, <1>5, <2>2, ConversionConstants
    <3>2. NormalizeAngle(yaw) = n - full
      BY <1>1, <1>4, <2>2, ConversionConstants DEF NormalizeAngle
    <3>3. (-(k + 1)) * full = -d - full
      BY <1>1, <1>2
    <3>4. n - full = yaw + (-(k + 1)) * 2 * HalfTurn
      <4>1. PICK t \in Int : t = -(k + 1)
        OBVIOUS
      <4>2. t * 2 * HalfTurn = t * full
        BY <2>1
      <4> QED BY <1>4, <3>3, <4>1, <4>2
    <3>5. n - full \in -HalfTurn .. HalfTurn
      BY <1>1, <1>3, <1>4, <2>2, ConversionConstants
    <3> QED BY <3>1, <3>2, <3>4, <3>5
  <2>3. CASE n < -HalfTurn
    <3>1. -(k - 1) \in -MaxAngle .. MaxAngle
      BY <1>1, <1>3, <1>4, <1>5, <2>3, ConversionConstants
    <3>2. NormalizeAngle(yaw) = n + full
      BY <1>1, <1>4, <2>3, ConversionConstants DEF NormalizeAngle
    <3>3. (-(k - 1)) * full = -d + full
      BY <1>1, <1>2
    <3>4. n + full = yaw + (-(k - 1)) * 2 * HalfTurn
      <4>1. PICK t \in Int : t = -(k - 1)
        OBVIOUS
      <4>2. t * 2 * HalfTurn = t * full
        BY <2>1
      <4> QED BY <1>4, <3>3, <4>1, <4>2
    <3>5. n + full \in -HalfTurn .. HalfTurn
      BY <1>1, <1>3, <1>4, <2>3, ConversionConstants
    <3> QED BY <3>1, <3>2, <3>4, <3>5
  <2>4. CASE n \in -HalfTurn .. HalfTurn
    <3>1. -k \in -MaxAngle .. MaxAngle
      BY <1>5, ConversionConstants
    <3>2. NormalizeAngle(yaw) = n
      BY <1>1, <1>4, <2>4, ConversionConstants DEF NormalizeAngle
    <3>3. (-k) * full = -d
      BY <1>1, <1>2
    <3>4. n = yaw + (-k) * 2 * HalfTurn
      <4>1. PICK t \in Int : t = -k
        OBVIOUS
      <4>2. t * 2 * HalfTurn = t * full
        BY <2>1
      <4> QED BY <1>4, <3>3, <4>1, <4>2
    <3> QED BY <2>4, <3>1, <3>2, <3>4
  <2> QED BY <1>4, <2>2, <2>3, <2>4, ConversionConstants
<1>7. PICK a \in Int : a = NormalizeAngle(yaw) /\ a \in -HalfTurn .. HalfTurn
  BY <1>6
<1>8. EncodeYaw(yaw) = Truncated(a, Fine)
  <2>1. a < Fine * (WireMax + 1) /\ -a < Fine * (WireMax + 1)
    <3>1. PICK b \in Int : b = Fine * (WireMax + 1) /\ HalfTurn < b
      BY ConversionConstants
    <3> QED BY <1>7, <3>1, ConversionConstants
  <2>2. Truncated(a, Fine) \in -WireMax .. WireMax
    BY <2>1, ConversionConstants, TruncatedWithin
  <2> QED BY <1>7, <2>2, ConversionConstants DEF EncodeYaw, AsI16
<1>9. Close(EncodeYaw(yaw) * Fine, a, Fine)
  BY <1>8, ConversionConstants, TruncatedClose
<1>10. Magnitude(EncodeYaw(yaw) * Fine - (yaw + turns * 2 * HalfTurn)) < Fine
  BY <1>6, <1>7, <1>9 DEF Close
<1>11. Magnitude(EncodeYaw(yaw) * Fine) <= HalfTurn
  <2>1. PICK e \in Int : e = EncodeYaw(yaw) * Fine
    BY <1>8, ConversionConstants, TruncatedFacts
  <2>2. Magnitude(e) <= Magnitude(a)
    BY <1>9, <2>1 DEF Close
  <2> QED BY <1>7, <2>1, <2>2, ConversionConstants DEF Magnitude
<1> QED BY <1>10, <1>11

\* BlendsShort: the animation goes the short way round.
LEMMA BlendsShort ==
  ASSUME NEW from \in 0 .. Frames, NEW to \in 0 .. Frames, NEW t \in 0 .. 3
  PROVE  /\ t <= 2 => LerpWrapped(from, to, t) \in 0 .. 2 * Frames
         /\ \E way \in -Frames .. Frames :
              /\ 2 * Magnitude(way) <= Frames
              /\ (from + way - to) % Frames = 0
              /\ (2 * from + way * t - LerpWrapped(from, to, t)) % (2 * Frames) = 0
<1>1. Frames \in Nat \ {0} /\ 2 * Frames \in Nat \ {0}
  BY ConversionConstants
<1>2. 0 % Frames = 0 /\ 0 % (2 * Frames) = 0
  <2>1. (Frames * 0) % Frames = 0 /\ ((2 * Frames) * 0) % (2 * Frames) = 0
    BY <1>1, MultipleOf
  <2> QED BY <1>1, <2>1
<1>3. ASSUME NEW way \in Int
      PROVE  way * t \in Int /\ (t = 0 => way * t = 0) /\ (t = 1 => way * t = way)
             /\ (t = 2 => way * t = 2 * way) /\ (t = 3 => way * t = 3 * way)
  OBVIOUS
<1>4. CASE 2 * Magnitude(to - from) <= Frames
  <2> DEFINE way == to - from
  <2>1. LerpWrapped(from, to, t) = 2 * from + way * t
    BY <1>1, <1>4 DEF LerpWrapped, Magnitude
  <2>2. way \in -Frames .. Frames /\ 2 * Magnitude(way) <= Frames /\ from + way - to = 0
    BY <1>1, <1>4
  <2>3. PICK m \in Int : m = way * t /\ 2 * from + way * t - LerpWrapped(from, to, t) = 0
    BY <1>3, <2>1, <2>2
  <2>4. t <= 2 => 2 * from + m \in 0 .. 2 * Frames
    <3>1. t \in {0, 1, 2, 3}
      OBVIOUS
    <3> QED BY <1>1, <1>3, <2>2, <2>3, <3>1
  <2> QED BY <1>2, <2>1, <2>2, <2>3, <2>4
<1>5. CASE 2 * Magnitude(to - from) > Frames
  <2>1. PICK way \in -Frames .. Frames, y \in Nat, back \in {0, 1} :
          /\ 2 * Magnitude(way) <= Frames
          /\ from + way - to = Frames * (1 - 2 * back)
          /\ 2 * from + way * t = y - back * (2 * Frames)
          /\ LerpWrapped(from, to, t) = Remainder(y, 2 * Frames)
    <3>1. CASE to < from
      <4>1. PICK way \in Int : way = to + Frames - from
        BY <1>1
      <4>2. way \in -Frames .. Frames /\ 2 * Magnitude(way) <= Frames /\ way >= 0
        BY <1>1, <1>5, <3>1, <4>1 DEF Magnitude
      <4>3. PICK m \in Nat : m = way * t
        BY <4>2
      <4>4. LerpWrapped(from, to, t) = Remainder(2 * from + m, 2 * Frames)
        BY <1>1, <1>5, <3>1, <4>1, <4>3 DEF LerpWrapped
      <4>5. from + way - to = Frames * (1 - 2 * 0)
        BY <1>1, <4>1
      <4>6. 2 * from + m \in Nat /\ 2 * from + way * t = (2 * from + m) - 0 * (2 * Frames)
        BY <1>1, <4>3
      <4> QED BY <4>2, <4>4, <4>5, <4>6
    <3>2. CASE from < to
      <4>1. PICK way \in Int : way = to - from - Frames
        BY <1>1
      <4>2. way \in -Frames .. Frames /\ 2 * Magnitude(way) <= Frames /\ way <= 0 /\ 2 * way >= -Frames
        BY <1>1, <1>5, <3>2, <4>1 DEF Magnitude
      <4>3. PICK m \in Int : m = way * t /\ 2 * m >= -3 * Frames
        <5>1. t \in {0, 1, 2, 3}
          OBVIOUS
        <5>2. 2 * (way * t) >= -3 * Frames
          BY <1>1, <1>3, <4>2, <5>1
        <5> QED BY <1>3, <5>2
      <4>4. LerpWrapped(from, to, t) = Remainder(2 * (from + Frames) + m, 2 * Frames)
        BY <1>1, <1>5, <3>2, <4>1, <4>3 DEF LerpWrapped
      <4>5. from + way - to = Frames * (1 - 2 * 1)
        BY <1>1, <4>1
      <4>6. 2 * (from + Frames) + m \in Nat
        BY <1>1, <4>3
      <4>7. 2 * from + way * t = (2 * (from + Frames) + m) - 1 * (2 * Frames)
        BY <1>1, <4>3
      <4> QED BY <4>2, <4>4, <4>5, <4>6, <4>7
    <3>3. to # from
      BY <1>1, <1>5 DEF Magnitude
    <3> QED BY <3>1, <3>2, <3>3
  <2>2. PICK full \in Nat \ {0} : full = 2 * Frames
    BY <1>1
  <2>3. PICK q \in Nat, r \in 0 .. full - 1 : y \div full = q /\ y = full * q + r
    BY <2>2, DivMod, ModRange
  <2>4. LerpWrapped(from, to, t) = r
    BY <2>1, <2>2, <2>3 DEF Remainder, Truncated
  <2>5. (from + way - to) % Frames = 0
    <3>1. 1 - 2 * back \in Int
      OBVIOUS
    <3> QED BY <1>1, <2>1, <3>1, MultipleOf
  <2>6. (2 * from + way * t - LerpWrapped(from, to, t)) % (2 * Frames) = 0
    <3>1. q - back \in Int
      OBVIOUS
    <3>2. (y - back * full) - r = full * (q - back)
      BY <2>3
    <3>3. (full * (q - back)) % full = 0
      BY <3>1, MultipleOf
    <3> QED BY <2>1, <2>2, <2>4, <3>2, <3>3
  <2>7. LerpWrapped(from, to, t) \in 0 .. 2 * Frames
    BY <2>2, <2>4
  <2> QED BY <2>1, <2>5, <2>6, <2>7
<1>6. Magnitude(to - from) \in Nat
  BY DEF Magnitude
<1> QED BY <1>1, <1>4, <1>5, <1>6


\* Setting: f has the flags after each of the keys that order lists
Setting(f, keys, order) ==
  f = [i \in 0 .. Len(order) |->
         IF i = 0 THEN 0 ELSE IF order[i] \in keys THEN SetFlag(f[i - 1], Flag(order[i])) ELSE f[i - 1]]

\* SettingExists: the recursion over the keys defines a function.
LEMMA SettingExists ==
  ASSUME NEW keys, NEW order \in Seq(Keys)
  PROVE  \E f : Setting(f, keys, order)
<1> DEFINE n == Len(order)
           after(k, x) == IF order[k] \in keys THEN SetFlag(x, Flag(order[k])) ELSE x
           g == [p \in (1 .. n) \X Nat |-> after(p[1], p[2])]
<1>1. n \in Nat
  OBVIOUS
<1>2. g \in [(1 .. n) \X Nat -> Nat]
  <2> SUFFICES ASSUME NEW k \in 1 .. n, NEW x \in Nat PROVE after(k, x) \in Nat
    OBVIOUS
  <2>1. order[k] \in Keys
    OBVIOUS
  <2>2. Flag(order[k]) \in Nat
    BY <2>1 DEF Flag, Keys
  <2> QED BY <2>2 DEF SetFlag
<1>3. PICK f : Rounds(f, Nat, 0, n, g)
  <2> HIDE DEF g, n
  <2> QED BY <1>1, <1>2, LoopExists
<1>4. ASSUME NEW k \in 0 .. n PROVE f[k] = IF k = 0 THEN 0 ELSE after(k, f[k - 1])
  <2> HIDE DEF n, after
  <2> USE DEF Rounds
  <2>1. CASE k = 0
    BY <1>3, <2>1
  <2>2. CASE k # 0
    <3>1. k \in 1 .. n /\ k - 1 \in 0 .. n
      BY <1>1, <2>2
    <3>2. f[k - 1] \in Nat /\ f[k] = g[<<k, f[k - 1]>>]
      BY <1>3, <3>1
    <3>3. g[<<k, f[k - 1]>>] = after(k, f[k - 1])
      BY <3>1, <3>2
    <3> QED BY <2>2, <3>2, <3>3
  <2> QED BY <2>1, <2>2
<1>5. f = [k \in 0 .. n |-> f[k]]
  BY <1>3 DEF Rounds
<1> QED BY <1>4, <1>5 DEF Setting

\* FlagJoins: to set a flag that is not set adds its bit.
LEMMA FlagJoins ==
  ASSUME NEW x \in Nat, NEW flag \in Nat \ {0}, (x \div flag) % 2 = 0,
         NEW key, NEW keys, NEW b \in {0, 1}, b = IF key \in keys THEN 1 ELSE 0,
         NEW y, y = IF key \in keys THEN SetFlag(x, flag) ELSE x
  PROVE  y = x + flag * b
<1>1. CASE key \in keys
  <2>1. b = 1 /\ y = SetFlag(x, flag)
    BY <1>1
  <2>2. SetFlag(x, flag) = x + flag
    BY DEF SetFlag, HasFlag
  <2> QED BY <2>1, <2>2
<1>2. CASE key \notin keys
  BY <1>2
<1> QED BY <1>1, <1>2

\* KeysAreRead: every flag is one bit of the sum of those that are set.
LEMMA KeysAreRead ==
  ASSUME NEW keys \in SUBSET Keys, NEW key \in Keys
  PROVE  HasFlag(Flags(keys), Flag(key)) <=> key \in keys
<1> DEFINE order == <<"sprint", "jump", "jump_held", "crouch", "fire1", "fire2", "use_key", "reload">>
           f == CHOOSE f : Setting(f, keys, order)
           bit(k) == IF k \in keys THEN 1 ELSE 0
<1>1. order \in Seq(Keys) /\ Len(order) = 8
  BY DEF Keys
<1>2. Setting(f, keys, order)
  BY <1>1, SettingExists
<1>3. Flags(keys) = f[8]
  BY <1>1 DEF Flags, Setting
<1>4. /\ f[0] = 0
      /\ \A i \in 1 .. 8 : f[i] = IF order[i] \in keys THEN SetFlag(f[i - 1], Flag(order[i])) ELSE f[i - 1]
  <2> HIDE DEF f, order
  <2>1. ASSUME NEW i \in 0 .. 8
        PROVE  f[i] = IF i = 0 THEN 0
                      ELSE IF order[i] \in keys THEN SetFlag(f[i - 1], Flag(order[i])) ELSE f[i - 1]
    BY <1>1, <1>2 DEF Setting
  <2> QED BY <2>1
<1>5. f[0] = 0 /\ f[0] \in Nat
  BY <1>4
<1>6. PICK b1 \in {0, 1}, b2 \in {0, 1}, b3 \in {0, 1}, b4 \in {0, 1},
           b5 \in {0, 1}, b6 \in {0, 1}, b7 \in {0, 1}, b8 \in {0, 1} :
        /\ b1 = bit("sprint") /\ b2 = bit("jump") /\ b3 = bit("crouch") /\ b4 = bit("fire1")
        /\ b5 = bit("fire2") /\ b6 = bit("use_key") /\ b7 = bit("reload") /\ b8 = bit("jump_held")
  OBVIOUS
<1>7. f[1] = b1
  <2>1. PICK x \in Nat : x = f[0] /\ x = 0
    <3>1. PICK x \in Nat : x = 0
      OBVIOUS
    <3> HIDE DEF f, order, bit
    <3> QED BY <3>1, <1>5
  <2>2. (x \div 1) % 2 = 0
    BY <2>1
  <2>3. f[1] = IF "sprint" \in keys THEN SetFlag(x, 1) ELSE x
    <3>1. 1 \in 1 .. 8 /\ order[1] = "sprint" /\ 1 - 1 = 0 /\ Flag("sprint") = 1
      BY DEF Flag
    <3>2. f[1] = IF order[1] \in keys THEN SetFlag(f[1 - 1], Flag(order[1])) ELSE f[1 - 1]
      <4> HIDE DEF f, order
      <4> QED BY <1>4, <3>1
    <3> HIDE DEF f, order
    <3> QED BY <2>1, <3>1, <3>2
  <2>4. b1 = IF "sprint" \in keys THEN 1 ELSE 0
    BY <1>6
  <2>5. f[1] = x + 1 * b1
    <3>1. 1 \in Nat \ {0}
      OBVIOUS
    <3> HIDE DEF f, order, bit
    <3> QED BY <2>2, <2>3, <2>4, <3>1, FlagJoins
  <2> HIDE DEF f, order, bit
  <2> QED BY <2>1, <2>5
<1>8. f[2] = b1 + 2 * b2
  <2>1. PICK x \in Nat : x = f[1] /\ x = b1
    <3>1. PICK x \in Nat : x = b1
      OBVIOUS
    <3> HIDE DEF f, order, bit
    <3> QED BY <3>1, <1>7
  <2>2. (x \div 2) % 2 = 0
    BY <2>1
  <2>3. f[2] = IF "jump" \in keys THEN SetFlag(x, 2) ELSE x
    <3>1. 2 \in 1 .. 8 /\ order[2] = "jump" /\ 2 - 1 = 1 /\ Flag("jump") = 2
      BY DEF Flag
    <3>2. f[2] = IF order[2] \in keys THEN SetFlag(f[2 - 1], Flag(order[2])) ELSE f[2 - 1]
      <4> HIDE DEF f, order
      <4> QED BY <1>4, <3>1
    <3> HIDE DEF f, order
    <3> QED BY <2>1, <3>1, <3>2
  <2>4. b2 = IF "jump" \in keys THEN 1 ELSE 0
    BY <1>6
  <2>5. f[2] = x + 2 * b2
    <3>1. 2 \in Nat \ {0}
      OBVIOUS
    <3> HIDE DEF f, order, bit
    <3> QED BY <2>2, <2>3, <2>4, <3>1, FlagJoins
  <2> HIDE DEF f, order, bit
  <2> QED BY <2>1, <2>5
<1>9. f[3] = b1 + 2 * b2 + 128 * b8
  <2>1. PICK x \in Nat : x = f[2] /\ x = b1 + 2 * b2
    <3>1. PICK x \in Nat : x = b1 + 2 * b2
      OBVIOUS
    <3> HIDE DEF f, order, bit
    <3> QED BY <3>1, <1>8
  <2>2. (x \div 128) % 2 = 0
    BY <2>1
  <2>3. f[3] = IF "jump_held" \in keys THEN SetFlag(x, 128) ELSE x
    <3>1. 3 \in 1 .. 8 /\ order[3] = "jump_held" /\ 3 - 1 = 2 /\ Flag("jump_held") = 128
      BY DEF Flag
    <3>2. f[3] = IF order[3] \in keys THEN SetFlag(f[3 - 1], Flag(order[3])) ELSE f[3 - 1]
      <4> HIDE DEF f, order
      <4> QED BY <1>4, <3>1
    <3> HIDE DEF f, order
    <3> QED BY <2>1, <3>1, <3>2
  <2>4. b8 = IF "jump_held" \in keys THEN 1 ELSE 0
    BY <1>6
  <2>5. f[3] = x + 128 * b8
    <3>1. 128 \in Nat \ {0}
      OBVIOUS
    <3> HIDE DEF f, order, bit
    <3> QED BY <2>2, <2>3, <2>4, <3>1, FlagJoins
  <2> HIDE DEF f, order, bit
  <2> QED BY <2>1, <2>5
<1>10. f[4] = b1 + 2 * b2 + 4 * b3 + 128 * b8
  <2>1. PICK x \in Nat : x = f[3] /\ x = b1 + 2 * b2 + 128 * b8
    <3>1. PICK x \in Nat : x = b1 + 2 * b2 + 128 * b8
      OBVIOUS
    <3> HIDE DEF f, order, bit
    <3> QED BY <3>1, <1>9
  <2>2. (x \div 4) % 2 = 0
    BY <2>1
  <2>3. f[4] = IF "crouch" \in keys THEN SetFlag(x, 4) ELSE x
    <3>1. 4 \in 1 .. 8 /\ order[4] = "crouch" /\ 4 - 1 = 3 /\ Flag("crouch") = 4
      BY DEF Flag
    <3>2. f[4] = IF order[4] \in keys THEN SetFlag(f[4 - 1], Flag(order[4])) ELSE f[4 - 1]
      <4> HIDE DEF f, order
      <4> QED BY <1>4, <3>1
    <3> HIDE DEF f, order
    <3> QED BY <2>1, <3>1, <3>2
  <2>4. b3 = IF "crouch" \in keys THEN 1 ELSE 0
    BY <1>6
  <2>5. f[4] = x + 4 * b3
    <3>1. 4 \in Nat \ {0}
      OBVIOUS
    <3> HIDE DEF f, order, bit
    <3> QED BY <2>2, <2>3, <2>4, <3>1, FlagJoins
  <2> HIDE DEF f, order, bit
  <2> QED BY <2>1, <2>5
<1>11. f[5] = b1 + 2 * b2 + 4 * b3 + 8 * b4 + 128 * b8
  <2>1. PICK x \in Nat : x = f[4] /\ x = b1 + 2 * b2 + 4 * b3 + 128 * b8
    <3>1. PICK x \in Nat : x = b1 + 2 * b2 + 4 * b3 + 128 * b8
      OBVIOUS
    <3> HIDE DEF f, order, bit
    <3> QED BY <3>1, <1>10
  <2>2. (x \div 8) % 2 = 0
    BY <2>1
  <2>3. f[5] = IF "fire1" \in keys THEN SetFlag(x, 8) ELSE x
    <3>1. 5 \in 1 .. 8 /\ order[5] = "fire1" /\ 5 - 1 = 4 /\ Flag("fire1") = 8
      BY DEF Flag
    <3>2. f[5] = IF order[5] \in keys THEN SetFlag(f[5 - 1], Flag(order[5])) ELSE f[5 - 1]
      <4> HIDE DEF f, order
      <4> QED BY <1>4, <3>1
    <3> HIDE DEF f, order
    <3> QED BY <2>1, <3>1, <3>2
  <2>4. b4 = IF "fire1" \in keys THEN 1 ELSE 0
    BY <1>6
  <2>5. f[5] = x + 8 * b4
    <3>1. 8 \in Nat \ {0}
      OBVIOUS
    <3> HIDE DEF f, order, bit
    <3> QED BY <2>2, <2>3, <2>4, <3>1, FlagJoins
  <2> HIDE DEF f, order, bit
  <2> QED BY <2>1, <2>5
<1>12. f[6] = b1 + 2 * b2 + 4 * b3 + 8 * b4 + 16 * b5 + 128 * b8
  <2>1. PICK x \in Nat : x = f[5] /\ x = b1 + 2 * b2 + 4 * b3 + 8 * b4 + 128 * b8
    <3>1. PICK x \in Nat : x = b1 + 2 * b2 + 4 * b3 + 8 * b4 + 128 * b8
      OBVIOUS
    <3> HIDE DEF f, order, bit
    <3> QED BY <3>1, <1>11
  <2>2. (x \div 16) % 2 = 0
    BY <2>1
  <2>3. f[6] = IF "fire2" \in keys THEN SetFlag(x, 16) ELSE x
    <3>1. 6 \in 1 .. 8 /\ order[6] = "fire2" /\ 6 - 1 = 5 /\ Flag("fire2") = 16
      BY DEF Flag
    <3>2. f[6] = IF order[6] \in keys THEN SetFlag(f[6 - 1], Flag(order[6])) ELSE f[6 - 1]
      <4> HIDE DEF f, order
      <4> QED BY <1>4, <3>1
    <3> HIDE DEF f, order
    <3> QED BY <2>1, <3>1, <3>2
  <2>4. b5 = IF "fire2" \in keys THEN 1 ELSE 0
    BY <1>6
  <2>5. f[6] = x + 16 * b5
    <3>1. 16 \in Nat \ {0}
      OBVIOUS
    <3> HIDE DEF f, order, bit
    <3> QED BY <2>2, <2>3, <2>4, <3>1, FlagJoins
  <2> HIDE DEF f, order, bit
  <2> QED BY <2>1, <2>5
<1>13. f[7] = b1 + 2 * b2 + 4 * b3 + 8 * b4 + 16 * b5 + 32 * b6 + 128 * b8
  <2>1. PICK x \in Nat : x = f[6] /\ x = b1 + 2 * b2 + 4 * b3 + 8 * b4 + 16 * b5 + 128 * b8
    <3>1. PICK x \in Nat : x = b1 + 2 * b2 + 4 * b3 + 8 * b4 + 16 * b5 + 128 * b8
      OBVIOUS
    <3> HIDE DEF f, order, bit
    <3> QED BY <3>1, <1>12
  <2>2. (x \div 32) % 2 = 0
    BY <2>1
  <2>3. f[7] = IF "use_key" \in keys THEN SetFlag(x, 32) ELSE x
    <3>1. 7 \in 1 .. 8 /\ order[7] = "use_key" /\ 7 - 1 = 6 /\ Flag("use_key") = 32
      BY DEF Flag
    <3>2. f[7] = IF order[7] \in keys THEN SetFlag(f[7 - 1], Flag(order[7])) ELSE f[7 - 1]
      <4> HIDE DEF f, order
      <4> QED BY <1>4, <3>1
    <3> HIDE DEF f, order
    <3> QED BY <2>1, <3>1, <3>2
  <2>4. b6 = IF "use_key" \in keys THEN 1 ELSE 0
    BY <1>6
  <2>5. f[7] = x + 32 * b6
    <3>1. 32 \in Nat \ {0}
      OBVIOUS
    <3> HIDE DEF f, order, bit
    <3> QED BY <2>2, <2>3, <2>4, <3>1, FlagJoins
  <2> HIDE DEF f, order, bit
  <2> QED BY <2>1, <2>5
<1>14. f[8] = b1 + 2 * b2 + 4 * b3 + 8 * b4 + 16 * b5 + 32 * b6 + 64 * b7 + 128 * b8
  <2>1. PICK x \in Nat : x = f[7] /\ x = b1 + 2 * b2 + 4 * b3 + 8 * b4 + 16 * b5 + 32 * b6 + 128 * b8
    <3>1. PICK x \in Nat : x = b1 + 2 * b2 + 4 * b3 + 8 * b4 + 16 * b5 + 32 * b6 + 128 * b8
      OBVIOUS
    <3> HIDE DEF f, order, bit
    <3> QED BY <3>1, <1>13
  <2>2. (x \div 64) % 2 = 0
    BY <2>1
  <2>3. f[8] = IF "reload" \in keys THEN SetFlag(x, 64) ELSE x
    <3>1. 8 \in 1 .. 8 /\ order[8] = "reload" /\ 8 - 1 = 7 /\ Flag("reload") = 64
      BY DEF Flag
    <3>2. f[8] = IF order[8] \in keys THEN SetFlag(f[8 - 1], Flag(order[8])) ELSE f[8 - 1]
      <4> HIDE DEF f, order
      <4> QED BY <1>4, <3>1
    <3> HIDE DEF f, order
    <3> QED BY <2>1, <3>1, <3>2
  <2>4. b7 = IF "reload" \in keys THEN 1 ELSE 0
    BY <1>6
  <2>5. f[8] = x + 64 * b7
    <3>1. 64 \in Nat \ {0}
      OBVIOUS
    <3> HIDE DEF f, order, bit
    <3> QED BY <2>2, <2>3, <2>4, <3>1, FlagJoins
  <2> HIDE DEF f, order, bit
  <2> QED BY <2>1, <2>5
<1> HIDE DEF f
<1>15. PICK x \in Nat : x = Flags(keys)
                        /\ x = b1 + 2 * b2 + 4 * b3 + 8 * b4 + 16 * b5 + 32 * b6 + 64 * b7 + 128 * b8
  BY <1>3, <1>14
<1>16. /\ (x \div 1) % 2 = b1 /\ (x \div 2) % 2 = b2 /\ (x \div 4) % 2 = b3 /\ (x \div 8) % 2 = b4
       /\ (x \div 16) % 2 = b5 /\ (x \div 32) % 2 = b6 /\ (x \div 64) % 2 = b7 /\ (x \div 128) % 2 = b8
  BY <1>15
<1>17. \A k \in Keys : (x \div Flag(k)) % 2 = bit(k)
  <2>1. (x \div Flag("sprint")) % 2 = bit("sprint") /\ (x \div Flag("jump")) % 2 = bit("jump")
    BY <1>6, <1>16 DEF Flag
  <2>2. (x \div Flag("crouch")) % 2 = bit("crouch") /\ (x \div Flag("fire1")) % 2 = bit("fire1")
    BY <1>6, <1>16 DEF Flag
  <2>3. (x \div Flag("fire2")) % 2 = bit("fire2") /\ (x \div Flag("use_key")) % 2 = bit("use_key")
    BY <1>6, <1>16 DEF Flag
  <2>4. (x \div Flag("reload")) % 2 = bit("reload") /\ (x \div Flag("jump_held")) % 2 = bit("jump_held")
    BY <1>6, <1>16 DEF Flag
  <2> HIDE DEF bit
  <2> QED BY <2>1, <2>2, <2>3, <2>4 DEF Keys
<1> QED BY <1>15, <1>17 DEF HasFlag

\* ConversionInv: what is on the wire is what the inputs became.
ConversionInv ==
  /\ input.move \in Int /\ input.yaw \in -MaxAngle .. MaxAngle /\ input.keys \in SUBSET Keys
  /\ command = ToCommand(input)
  /\ entity.velocity \in Int /\ entity.orientation \in Int /\ entity.animation \in Int
  /\ entityState = ToNetworkState(entity)
  /\ blend.from \in 0 .. Frames /\ blend.to \in 0 .. Frames /\ blend.t \in 0 .. 3
  /\ blend.time = LerpWrapped(blend.from, blend.to, blend.t)

\* ConversionsType: one value is varied at a time.
LEMMA ConversionsType == ConversionInit => ConversionInv
<1>1. /\ NoInput.move = 0 /\ NoInput.yaw = 0 /\ NoInput.keys = {}
      /\ AtRest.velocity = 0 /\ AtRest.orientation = 0 /\ AtRest.animation = 0
  BY DEF NoInput, AtRest
<1>2. /\ 0 \in -MaxAngle .. MaxAngle /\ 0 \in 0 .. Frames /\ 0 \in 0 .. 3
      /\ LerpWrapped(0, 0, 0) = 0
  BY ConversionConstants DEF LerpWrapped, Magnitude
<1> QED BY <1>1, <1>2 DEF ConversionInit, ConversionInv

LEMMA ConversionStep == ConversionInv /\ [ConversionNext]_conversionVars => ConversionInv'
<1> SUFFICES ASSUME ConversionInv, [ConversionNext]_conversionVars PROVE ConversionInv'
  OBVIOUS
<1>1. MaxAngle \in Nat /\ MaxSpeed \in Nat /\ One \in Nat /\ Frames \in Nat
  BY ConversionConstants
<1>2. ASSUME NEW i, i.move \in Int, i.yaw \in -MaxAngle .. MaxAngle, i.keys \in SUBSET Keys,
             SendCommand(i)
      PROVE  ConversionInv'
  BY <1>2 DEF ConversionInv, SendCommand
<1>3. ASSUME NEW e, e.velocity \in Int, e.orientation \in Int, e.animation \in Int, SendEntity(e)
      PROVE  ConversionInv'
  BY <1>3 DEF ConversionInv, SendEntity
<1>4. ASSUME NEW from \in 0 .. Frames, NEW to \in 0 .. Frames, NEW t \in 0 .. 3, Blend(from, to, t)
      PROVE  ConversionInv'
  BY <1>4 DEF ConversionInv, Blend
<1>5. CASE UNCHANGED conversionVars
  BY <1>5 DEF ConversionInv, conversionVars
<1>6. CASE ConversionNext
  <2>1. ASSUME NEW v \in -2 * One .. 2 * One, SendCommand([NoInput EXCEPT !.move = v])
        PROVE  ConversionInv'
    <3>1. [NoInput EXCEPT !.move = v] = [move |-> v, yaw |-> 0, keys |-> {}]
      BY DEF NoInput
    <3>2. v \in Int /\ 0 \in -MaxAngle .. MaxAngle
      BY <1>1
    <3> QED BY <1>2, <2>1, <3>1, <3>2
  <2>2. ASSUME NEW v \in -MaxAngle .. MaxAngle, SendCommand([NoInput EXCEPT !.yaw = v])
        PROVE  ConversionInv'
    <3>1. [NoInput EXCEPT !.yaw = v] = [move |-> 0, yaw |-> v, keys |-> {}]
      BY DEF NoInput
    <3> QED BY <1>2, <2>2, <3>1
  <2>3. ASSUME NEW keys \in SUBSET Keys, SendCommand([NoInput EXCEPT !.keys = keys])
        PROVE  ConversionInv'
    <3>1. [NoInput EXCEPT !.keys = keys] = [move |-> 0, yaw |-> 0, keys |-> keys]
      BY DEF NoInput
    <3>2. 0 \in -MaxAngle .. MaxAngle
      BY <1>1
    <3> QED BY <1>2, <2>3, <3>1, <3>2
  <2>4. ASSUME NEW v \in -MaxSpeed .. MaxSpeed, SendEntity([AtRest EXCEPT !.velocity = v])
        PROVE  ConversionInv'
    <3>1. [AtRest EXCEPT !.velocity = v] = [velocity |-> v, orientation |-> 0, animation |-> 0]
      BY DEF AtRest
    <3>2. v \in Int
      BY <1>1
    <3> QED BY <1>3, <2>4, <3>1, <3>2
  <2>5. ASSUME NEW v \in -2 * One .. 2 * One, SendEntity([AtRest EXCEPT !.orientation = v])
        PROVE  ConversionInv'
    <3>1. [AtRest EXCEPT !.orientation = v] = [velocity |-> 0, orientation |-> v, animation |-> 0]
      BY DEF AtRest
    <3>2. v \in Int
      BY <1>1
    <3> QED BY <1>3, <2>5, <3>1, <3>2
  <2>6. ASSUME NEW v \in -One .. 3 * One, SendEntity([AtRest EXCEPT !.animation = v])
        PROVE  ConversionInv'
    <3>1. [AtRest EXCEPT !.animation = v] = [velocity |-> 0, orientation |-> 0, animation |-> v]
      BY DEF AtRest
    <3>2. v \in Int
      BY <1>1
    <3> QED BY <1>3, <2>6, <3>1, <3>2
  <2> QED BY <1>4, <1>6, <2>1, <2>2, <2>3, <2>4, <2>5, <2>6 DEF ConversionNext
<1> QED BY <1>5, <1>6

\* WireAlways: for all scales and ranges, what a peer decodes is less than a
\* step from what was meant, and every key reads back.
THEOREM WireAlways == ConversionSpec => []WireIsClose
<1>1. ConversionInv => WireIsClose
  <2> SUFFICES ASSUME ConversionInv PROVE WireIsClose
    OBVIOUS
  <2> USE DEF ConversionInv
  <2>1. MoveIsClose
    BY MoveCloses DEF MoveIsClose, ToCommand
  <2>2. YawIsTheSame
    <3>1. input.yaw \in Int /\ command.yaw = EncodeYaw(input.yaw)
      BY ConversionConstants DEF ToCommand
    <3> QED BY <3>1, YawStays DEF YawIsTheSame
  <2>3. KeysReadBack
    BY KeysAreRead DEF KeysReadBack, ToCommand
  <2>4. MotionIsClose
    BY MotionCloses DEF MotionIsClose, FromNetworkState, ToNetworkState
  <2>5. AnimationIsClose
    BY AnimationCloses DEF AnimationIsClose, FromNetworkState, ToNetworkState
  <2>6. ShortWay
    BY BlendsShort DEF ShortWay
  <2> QED BY <2>1, <2>2, <2>3, <2>4, <2>5, <2>6 DEF WireIsClose
<1>2. ConversionInit => ConversionInv
  BY ConversionsType
<1>3. ConversionInv /\ [ConversionNext]_conversionVars => ConversionInv'
  BY ConversionStep
<1> QED BY <1>1, <1>2, <1>3, PTL DEF ConversionSpec
-----------------------------------------------------------------------------
(* Scene.                                                                  *)

Cube == [visible : BOOLEAN, place : Nat, scale : Nat]

\* Apart: two pools share out n cubes
Apart(p, q, n) ==
  /\ IsInjective(p) /\ IsInjective(q)
  /\ Range(p) \cap Range(q) = {} /\ Range(p) \cup Range(q) = 1 .. n

LEMMA ApartSwaps ==
  ASSUME NEW p, NEW q, NEW n, Apart(p, q, n)
  PROVE  Apart(q, p, n)
BY DEF Apart

\* Joined: r is p, of length k, and then q, of length l
Joined(r, p, q, k, l) ==
  /\ Len(r) = k + l /\ DOMAIN r = 1 .. k + l /\ DOMAIN p = 1 .. k /\ DOMAIN q = 1 .. l
  /\ \A i \in 1 .. k : r[i] = p[i]
  /\ \A i \in 1 .. l : k + i \in k + 1 .. k + l /\ r[k + i] = q[i]
  /\ \A i \in 1 .. k + l : i \in 1 .. k \/ (i \in k + 1 .. k + l /\ i - k \in 1 .. l /\ r[i] = q[i - k])

\* JoinFacts: one sequence after another.
LEMMA JoinFacts ==
  ASSUME NEW X, NEW p \in Seq(X), NEW q \in Seq(X), NEW k \in Nat, NEW l \in Nat,
         k = Len(p), l = Len(q), NEW r, r = p \o q
  PROVE  r \in Seq(X) /\ Joined(r, p, q, k, l)
<1>1. r \in Seq(X) /\ Len(r) = k + l /\ DOMAIN r = 1 .. k + l
  OBVIOUS
<1>2. DOMAIN p = 1 .. k /\ DOMAIN q = 1 .. l /\ \A i \in 1 .. k : r[i] = p[i] /\ p[i] \in X
  OBVIOUS
<1>3. ASSUME NEW i \in k + 1 .. k + l PROVE i - k \in 1 .. l /\ r[i] = q[i - k]
  OBVIOUS
<1>4. ASSUME NEW i \in 1 .. l PROVE k + i \in k + 1 .. k + l /\ r[k + i] = q[i]
  <2>1. k + i \in k + 1 .. k + l /\ (k + i) - k = i
    OBVIOUS
  <2> QED BY <1>3, <2>1
<1>5. ASSUME NEW i \in 1 .. k + l PROVE i \in 1 .. k \/ i \in k + 1 .. k + l
  OBVIOUS
<1> QED BY <1>1, <1>2, <1>3, <1>4, <1>5 DEF Joined

\* ApartJoins: one after the other they name every cube once.
LEMMA ApartJoins ==
  ASSUME NEW p \in Seq(Nat), NEW q \in Seq(Nat), NEW n \in Nat, Apart(p, q, n)
  PROVE  IsInjective(p \o q) /\ Range(p \o q) = 1 .. n
<1> DEFINE r == p \o q
<1>1. PICK k \in Nat, l \in Nat : k = Len(p) /\ l = Len(q)
  OBVIOUS
<1> HIDE DEF r
<1>0. Joined(r, p, q, k, l)
  BY <1>1, JoinFacts DEF r
<1>2. DOMAIN p = 1 .. k /\ DOMAIN q = 1 .. l /\ DOMAIN r = 1 .. k + l
  BY <1>0 DEF Joined
<1>3. /\ \A i \in 1 .. k : r[i] = p[i]
      /\ \A i \in 1 .. l : r[k + i] = q[i]
      /\ \A i \in 1 .. k + l : i \in 1 .. k \/ (i > k /\ i - k \in 1 .. l /\ r[i] = q[i - k])
  <2>1. \A i \in k + 1 .. k + l : i > k
    OBVIOUS
  <2>2. /\ \A i \in 1 .. k : r[i] = p[i]
        /\ \A i \in 1 .. l : r[k + i] = q[i]
        /\ \A i \in 1 .. k + l : i \in 1 .. k \/ (i \in k + 1 .. k + l /\ i - k \in 1 .. l /\ r[i] = q[i - k])
    BY <1>0 DEF Joined
  <2> QED BY <2>1, <2>2
<1>4. /\ IsInjective(p) /\ IsInjective(q)
      /\ \A i \in 1 .. k, j \in 1 .. l : p[i] # q[j]
  BY <1>2 DEF Apart, Range
<1>5. ASSUME NEW i \in 1 .. k + l, NEW j \in 1 .. k + l, r[i] = r[j] PROVE i = j
  <2>1. CASE i \in 1 .. k /\ j \in 1 .. k
    BY <1>2, <1>3, <1>4, <1>5, <2>1 DEF IsInjective
  <2>2. CASE i \notin 1 .. k /\ j \notin 1 .. k
    <3>1. i - k \in 1 .. l /\ j - k \in 1 .. l /\ q[i - k] = q[j - k]
      BY <1>3, <1>5, <2>2
    <3>2. i - k = j - k
      BY <1>2, <1>4, <3>1 DEF IsInjective
    <3> QED BY <3>2
  <2>3. ~(i \in 1 .. k /\ j \notin 1 .. k) /\ ~(i \notin 1 .. k /\ j \in 1 .. k)
    BY <1>3, <1>4, <1>5
  <2> QED BY <2>1, <2>2, <2>3
<1>6. Range(r) = Range(p) \cup Range(q)
  <2>1. ASSUME NEW i \in 1 .. k + l PROVE r[i] \in Range(p) \cup Range(q)
    BY <1>2, <1>3 DEF Range
  <2>2. ASSUME NEW i \in 1 .. k PROVE p[i] \in Range(r)
    <3>1. i \in 1 .. k + l /\ r[i] = p[i]
      BY <1>3
    <3> QED BY <1>2, <3>1 DEF Range
  <2>3. ASSUME NEW i \in 1 .. l PROVE q[i] \in Range(r)
    <3>1. k + i \in 1 .. k + l /\ r[k + i] = q[i]
      BY <1>3
    <3> QED BY <1>2, <3>1 DEF Range
  <2> QED BY <1>2, <2>1, <2>2, <2>3 DEF Range
<1>7. IsInjective(r)
  BY <1>2, <1>5 DEF IsInjective
<1> QED BY <1>6, <1>7 DEF Apart, r

\* Grown: what WithCubes leaves: the cubes that were known, and a pool that
\* is long enough
Grown(p, cs, other, count, known) ==
  /\ p \in Seq(Nat) /\ cs \in Seq(Cube)
  /\ Len(p) >= count
  /\ Apart(p, other, Len(cs))
  /\ \A c \in Range(other) : cs[c] = known[c]

\* PoolGrows: a new cube is nobody else's.
LEMMA PoolGrows ==
  ASSUME NEW pool \in Seq(Nat), NEW other \in Seq(Nat), NEW known \in Seq(Cube), NEW count \in Nat,
         Apart(pool, other, Len(known))
  PROVE  LET w == WithCubes(pool, count, known) IN Grown(w.pool, w.cubes, other, count, known)
<1> DEFINE w == WithCubes(pool, count, known)
<1>1. PICK l \in Nat, n \in Nat : l = Len(pool) /\ n = Len(known)
  OBVIOUS
<1>2. PICK d \in Nat : d = (IF count > l THEN count - l ELSE 0) /\ 1 .. count - l = 1 .. d
  <2>1. CASE count > l
    BY <2>1
  <2>2. CASE ~(count > l)
    BY <2>2
  <2> QED BY <2>1, <2>2
<1> DEFINE more == [i \in 1 .. d |-> NewCube]
           fresh == [i \in 1 .. d |-> n + i]
<1>3. w.cubes = known \o more /\ w.pool = pool \o fresh
  BY <1>1, <1>2 DEF WithCubes
<1>4. more \in Seq(Cube) /\ Len(more) = d /\ fresh \in Seq(Nat) /\ Len(fresh) = d
  <2>1. NewCube \in Cube
    BY DEF NewCube, Cube
  <2> QED BY <2>1
<1> HIDE DEF more, fresh, w
<1>5. PICK wc, wp : wc = w.cubes /\ wp = w.pool
  OBVIOUS
<1>6. wc \in Seq(Cube) /\ Len(wc) = n + d /\ \A c \in 1 .. n : wc[c] = known[c]
  <2>1. wc = known \o more /\ d = Len(more) /\ more \in Seq(Cube)
    BY <1>3, <1>4, <1>5
  <2>2. wc \in Seq(Cube) /\ Joined(wc, known, more, n, d)
    BY <1>1, <2>1, JoinFacts
  <2> QED BY <2>2 DEF Joined
<1>7. /\ wp \in Seq(Nat) /\ Len(wp) = l + d /\ DOMAIN wp = 1 .. l + d /\ DOMAIN pool = 1 .. l
      /\ \A i \in 1 .. l : wp[i] = pool[i]
      /\ \A i \in 1 .. d : l + i \in l + 1 .. l + d /\ wp[l + i] = fresh[i]
      /\ \A i \in 1 .. l + d : i \in 1 .. l \/ (i \in l + 1 .. l + d /\ i - l \in 1 .. d /\ wp[i] = fresh[i - l])
  <2>1. wp = pool \o fresh /\ d = Len(fresh) /\ fresh \in Seq(Nat)
    BY <1>3, <1>4, <1>5
  <2>2. wp \in Seq(Nat) /\ Joined(wp, pool, fresh, l, d)
    BY <1>1, <2>1, JoinFacts
  <2> QED BY <2>2 DEF Joined
<1>8. \A i \in 1 .. d : fresh[i] = n + i
  BY DEF fresh
<1>9. \A i \in 1 .. l : pool[i] \in 1 .. n
  BY <1>1, <1>7 DEF Apart, Range
<1>10. IsInjective(wp)
  <2> SUFFICES ASSUME NEW i \in 1 .. l + d, NEW j \in 1 .. l + d, wp[i] = wp[j] PROVE i = j
    BY <1>7 DEF IsInjective
  <2>1. CASE i \in 1 .. l /\ j \in 1 .. l
    BY <1>7, <2>1 DEF Apart, IsInjective
  <2>2. CASE i \notin 1 .. l /\ j \notin 1 .. l
    <3>1. i - l \in 1 .. d /\ j - l \in 1 .. d /\ wp[i] = fresh[i - l] /\ wp[j] = fresh[j - l]
      BY <1>7, <2>2
    <3>2. n + (i - l) = n + (j - l)
      BY <1>8, <3>1
    <3> QED BY <3>2
  <2>3. ASSUME NEW a \in 1 .. l, NEW b \in 1 .. l + d, b \notin 1 .. l PROVE wp[a] # wp[b]
    <3>1. wp[a] \in 1 .. n
      BY <1>7, <1>9
    <3>2. b - l \in 1 .. d /\ wp[b] = n + (b - l)
      BY <1>7, <1>8, <2>3
    <3> QED BY <3>1, <3>2
  <2> QED BY <2>1, <2>2, <2>3
<1>11. Range(wp) = Range(pool) \cup (n + 1 .. n + d)
  <2>1. ASSUME NEW i \in 1 .. l + d PROVE wp[i] \in Range(pool) \cup (n + 1 .. n + d)
    <3>1. CASE i \in 1 .. l
      BY <1>7, <3>1 DEF Range
    <3>2. CASE i \notin 1 .. l
      <4>1. i - l \in 1 .. d /\ wp[i] = n + (i - l)
        BY <1>7, <1>8, <3>2
      <4> QED BY <4>1
    <3> QED BY <3>1, <3>2
  <2>2. ASSUME NEW i \in 1 .. l PROVE pool[i] \in Range(wp)
    <3>1. i \in 1 .. l + d /\ wp[i] = pool[i]
      BY <1>7
    <3> QED BY <1>7, <3>1 DEF Range
  <2>3. ASSUME NEW c \in n + 1 .. n + d PROVE c \in Range(wp)
    <3>1. c - n \in 1 .. d /\ n + (c - n) = c
      OBVIOUS
    <3>2. l + (c - n) \in l + 1 .. l + d /\ wp[l + (c - n)] = c
      BY <1>7, <1>8, <3>1
    <3>3. l + (c - n) \in 1 .. l + d
      BY <3>1
    <3> QED BY <1>7, <3>2, <3>3 DEF Range
  <2> QED BY <1>7, <2>1, <2>2, <2>3 DEF Range
<1>12. Apart(wp, other, n + d)
  <2>1. /\ IsInjective(other) /\ Range(pool) \cap Range(other) = {}
        /\ Range(pool) \cup Range(other) = 1 .. n
    BY <1>1 DEF Apart
  <2>2. (1 .. n) \cap (n + 1 .. n + d) = {} /\ (1 .. n) \cup (n + 1 .. n + d) = 1 .. n + d
    OBVIOUS
  <2> QED BY <1>10, <1>11, <2>1, <2>2 DEF Apart
<1>13. \A c \in Range(other) : wc[c] = known[c]
  BY <1>1, <1>6 DEF Apart
<1>14. l + d >= count
  BY <1>2
<1> QED BY <1>5, <1>6, <1>7, <1>12, <1>13, <1>14 DEF Grown, w

\* Replaced: the i-th cube of the pool is now new[i]
Replaced(r, known, pool, new) ==
  /\ r \in Seq(Cube) /\ Len(r) = Len(known)
  /\ \A i \in DOMAIN pool : r[pool[i]] = new[i]
  /\ \A c \in 1 .. Len(known) : c \notin Range(pool) => r[c] = known[c]

\* ChangedFacts: the cubes of the pool are the new ones, and no other is.
LEMMA ChangedFacts ==
  ASSUME NEW known \in Seq(Cube), NEW pool \in Seq(Nat), IsInjective(pool),
         Range(pool) \subseteq 1 .. Len(known), NEW new \in [DOMAIN pool -> Cube],
         NEW r, r = Changed(known, pool, new)
  PROVE  Replaced(r, known, pool, new)
<1>1. PICK n \in Nat : n = Len(known) /\ DOMAIN known = 1 .. n
  OBVIOUS
<1>2. DOMAIN r = 1 .. n
  BY <1>1 DEF Changed
<1>3. ASSUME NEW i \in DOMAIN pool PROVE pool[i] \in 1 .. n /\ r[pool[i]] = new[i]
  <2>1. pool[i] \in 1 .. n
    BY <1>1 DEF Range
  <2>2. \A j \in DOMAIN pool : pool[j] = pool[i] => j = i
    BY DEF IsInjective
  <2>3. (CHOOSE j \in DOMAIN pool : pool[j] = pool[i]) = i
    BY <2>2
  <2> QED BY <1>1, <2>1, <2>3 DEF Changed
<1>4. ASSUME NEW c \in 1 .. n, c \notin Range(pool) PROVE r[c] = known[c]
  BY <1>1, <1>4 DEF Changed, Range
<1>5. ASSUME NEW c \in 1 .. n PROVE r[c] \in Cube
  <2>1. CASE c \in Range(pool)
    BY <1>3, <2>1 DEF Range
  <2>2. CASE c \notin Range(pool)
    BY <1>1, <1>4, <2>2
  <2> QED BY <2>1, <2>2
<1>6. r = [c \in 1 .. n |-> r[c]]
  BY <1>1 DEF Changed
<1>7. r \in Seq(Cube) /\ Len(r) = n
  <2>1. r \in [1 .. n -> Cube]
    BY <1>5, <1>6
  <2> QED BY <2>1
<1> QED BY <1>1, <1>3, <1>4, <1>7 DEF Replaced

\* Paints: new has the entities of order, but hides the player that looks
Paints(new, order, places, scale) ==
  \A i \in DOMAIN new :
    IF i > Len(order) \/ order[i] = me THEN ~new[i].visible
    ELSE new[i].visible /\ new[i].place = places[order[i]] /\ new[i].scale = scale

\* Painted: the i-th cube of the pool shows the i-th entity of order
Painted(pool, order, places, cs, scale) ==
  /\ Len(pool) >= Len(order)
  /\ \A i \in DOMAIN pool :
       IF i > Len(order) \/ order[i] = me THEN ~cs[pool[i]].visible
       ELSE /\ cs[pool[i]].visible
            /\ cs[pool[i]].place = places[order[i]] /\ cs[pool[i]].scale = scale

\* Drawn: r has painted one pool, and left the cubes of the other alone
Drawn(r, other, order, places, known, scale) ==
  /\ r.pool \in Seq(Nat) /\ r.cubes \in Seq(Cube)
  /\ Apart(r.pool, other, Len(r.cubes))
  /\ Painted(r.pool, order, places, r.cubes, scale)
  /\ \A c \in Range(other) : r.cubes[c] = known[c]

\* PoolIsPainted: what both functions do with the cubes of their pool.
LEMMA PoolIsPainted ==
  ASSUME NEW pool \in Seq(Nat), NEW other \in Seq(Nat), NEW known \in Seq(Cube),
         NEW order \in Seq(Nat), NEW places, NEW scale,
         NEW p, NEW wc, Grown(p, wc, other, Len(order), known),
         NEW new \in [DOMAIN p -> Cube],
         Paints(new, order, places, scale),
         NEW r, r = [pool |-> p, cubes |-> Changed(wc, p, new)]
  PROVE  Drawn(r, other, order, places, known, scale)
<1>1. /\ p \in Seq(Nat) /\ wc \in Seq(Cube) /\ Len(p) >= Len(order)
      /\ IsInjective(p) /\ Range(p) \cap Range(other) = {}
      /\ Range(p) \cup Range(other) = 1 .. Len(wc)
      /\ Apart(p, other, Len(wc))
      /\ \A c \in Range(other) : wc[c] = known[c]
  BY DEF Grown, Apart
<1>2. PICK cs : cs = Changed(wc, p, new) /\ r.pool = p /\ r.cubes = cs
  OBVIOUS
<1>3. /\ cs \in Seq(Cube) /\ Len(cs) = Len(wc)
      /\ \A i \in DOMAIN p : cs[p[i]] = new[i]
      /\ \A c \in 1 .. Len(wc) : c \notin Range(p) => cs[c] = wc[c]
  <2>1. Range(p) \subseteq 1 .. Len(wc)
    BY <1>1
  <2>2. Replaced(cs, wc, p, new)
    BY <1>1, <1>2, <2>1, ChangedFacts
  <2> QED BY <2>2 DEF Replaced
<1>4. \A c \in Range(other) : cs[c] = known[c]
  BY <1>1, <1>3
<1>5. Painted(p, order, places, cs, scale)
  <2> SUFFICES ASSUME NEW i \in DOMAIN p
               PROVE  IF i > Len(order) \/ order[i] = me THEN ~cs[p[i]].visible
                      ELSE /\ cs[p[i]].visible
                           /\ cs[p[i]].place = places[order[i]] /\ cs[p[i]].scale = scale
    BY <1>1 DEF Painted
  <2>1. cs[p[i]] = new[i]
    BY <1>3
  <2> QED BY <2>1 DEF Paints
<1> QED BY <1>1, <1>2, <1>3, <1>4, <1>5 DEF Drawn

\* Shows: the entities of order are somewhere
Shows(order, places) == \A i \in DOMAIN order : places[order[i]] \in Nat

\* PlayersAreDrawn, PropsAreDrawn: what either function does; a prop is not
\* the player that looks.
LEMMA PlayersAreDrawn ==
  ASSUME NEW pool \in Seq(Nat), NEW other \in Seq(Nat), NEW known \in Seq(Cube),
         Apart(pool, other, Len(known)),
         NEW order \in Seq(Nat), NEW places, Shows(order, places)
  PROVE  Drawn(PlayersShown(order, places, pool, known), other, order, places, known, 4)
<1>1. PICK w, p, wc : w = WithCubes(pool, Len(order), known) /\ p = w.pool /\ wc = w.cubes
  OBVIOUS
<1>2. Grown(p, wc, other, Len(order), known)
  BY <1>1, PoolGrows
<1> DEFINE new == [i \in DOMAIN p |->
                     LET cube == wc[p[i]]
                     IN  IF i > Len(order) \/ order[i] = me THEN Hide(cube)
                         ELSE Show(cube, places[order[i]], 4)]
<1>3. PlayersShown(order, places, pool, known) = [pool |-> p, cubes |-> Changed(wc, p, new)]
  BY <1>1 DEF PlayersShown
<1>4. ASSUME NEW i \in DOMAIN p
      PROVE  /\ new[i] \in Cube
             /\ IF i > Len(order) \/ order[i] = me THEN ~new[i].visible
                ELSE new[i].visible /\ new[i].place = places[order[i]] /\ new[i].scale = 4
  <2>1. wc[p[i]] \in Cube /\ i \in Nat \ {0}
    <3>1. p[i] \in Range(p) /\ Range(p) \subseteq 1 .. Len(wc) /\ p \in Seq(Nat) /\ wc \in Seq(Cube)
      BY <1>2 DEF Grown, Apart, Range
    <3> QED BY <3>1
  <2>2. CASE i > Len(order) \/ order[i] = me
    <3>1. new[i] = Hide(wc[p[i]])
      BY <2>2
    <3> HIDE DEF new
    <3> QED BY <2>1, <2>2, <3>1 DEF Hide, Cube
  <2>3. CASE ~(i > Len(order) \/ order[i] = me)
    <3>1. new[i] = Show(wc[p[i]], places[order[i]], 4)
      BY <2>3
    <3>2. places[order[i]] \in Nat
      BY <2>1, <2>3 DEF Shows
    <3> HIDE DEF new
    <3> QED BY <2>3, <3>1, <3>2 DEF Show, Cube
  <2> QED BY <2>2, <2>3
<1>5. new \in [DOMAIN p -> Cube]
  BY <1>4
<1>6. Paints(new, order, places, 4)
  BY <1>4 DEF Paints
<1> HIDE DEF new
<1> QED BY <1>2, <1>3, <1>5, <1>6, PoolIsPainted

LEMMA PropsAreDrawn ==
  ASSUME NEW pool \in Seq(Nat), NEW other \in Seq(Nat), NEW known \in Seq(Cube),
         Apart(pool, other, Len(known)),
         NEW order \in Seq(Nat), NEW places, Shows(order, places),
         \A i \in DOMAIN order : order[i] # me
  PROVE  Drawn(PropsShown(order, places, pool, known), other, order, places, known, 5)
<1>1. PICK w, p, wc : w = WithCubes(pool, Len(order), known) /\ p = w.pool /\ wc = w.cubes
  OBVIOUS
<1>2. Grown(p, wc, other, Len(order), known)
  BY <1>1, PoolGrows
<1> DEFINE new == [i \in DOMAIN p |->
                     LET cube == wc[p[i]]
                     IN  IF i > Len(order) THEN Hide(cube) ELSE Show(cube, places[order[i]], 5)]
<1>3. PropsShown(order, places, pool, known) = [pool |-> p, cubes |-> Changed(wc, p, new)]
  BY <1>1 DEF PropsShown
<1>4. ASSUME NEW i \in DOMAIN p
      PROVE  /\ new[i] \in Cube
             /\ IF i > Len(order) \/ order[i] = me THEN ~new[i].visible
                ELSE new[i].visible /\ new[i].place = places[order[i]] /\ new[i].scale = 5
  <2>1. wc[p[i]] \in Cube /\ i \in Nat \ {0}
    <3>1. p[i] \in Range(p) /\ Range(p) \subseteq 1 .. Len(wc) /\ p \in Seq(Nat) /\ wc \in Seq(Cube)
      BY <1>2 DEF Grown, Apart, Range
    <3> QED BY <3>1
  <2>2. CASE i > Len(order)
    <3>1. new[i] = Hide(wc[p[i]])
      BY <2>2
    <3> HIDE DEF new
    <3> QED BY <2>1, <2>2, <3>1 DEF Hide, Cube
  <2>3. CASE ~(i > Len(order))
    <3>1. new[i] = Show(wc[p[i]], places[order[i]], 5)
      BY <2>3
    <3>2. places[order[i]] \in Nat /\ order[i] # me
      BY <2>1, <2>3 DEF Shows
    <3> HIDE DEF new
    <3> QED BY <2>3, <3>1, <3>2 DEF Show, Cube
  <2> QED BY <2>2, <2>3
<1>5. new \in [DOMAIN p -> Cube]
  BY <1>4
<1>6. Paints(new, order, places, 5)
  BY <1>4 DEF Paints
<1> HIDE DEF new
<1> QED BY <1>2, <1>3, <1>5, <1>6, PoolIsPainted

\* OrderFacts: an order names each of its entities.
LEMMA OrderFacts ==
  ASSUME NEW ids \in SUBSET Nat, IsFiniteSet(ids), NEW order \in Orders(ids)
  PROVE  /\ order \in Seq(Nat) /\ Range(order) = ids
         /\ DOMAIN order = 1 .. Len(order)
         /\ \A id \in ids : \E i \in DOMAIN order : order[i] = id
<1>1. PICK n \in Nat : n = Cardinality(ids)
  BY FS_CardinalityType
<1>2. order \in [1 .. n -> ids] /\ order \in Injection(1 .. n, ids)
  BY <1>1 DEF Orders, Injection
<1>3. Cardinality(1 .. n) = n /\ IsFiniteSet(1 .. n)
  BY FS_Interval
<1>4. order \in Surjection(1 .. n, ids)
  BY <1>1, <1>2, <1>3, FS_Injection
<1>5. \A id \in ids : \E i \in 1 .. n : order[i] = id
  BY <1>4 DEF Surjection
<1>6. DOMAIN order = 1 .. n /\ order \in Seq(Nat) /\ Len(order) = n
  <2>1. order \in [1 .. n -> Nat]
    BY <1>2
  <2> QED BY <2>1
<1> QED BY <1>2, <1>5, <1>6 DEF Range

\* InterpolatedFacts: each entity is on its own way.
LEMMA InterpolatedFacts ==
  ASSUME NEW from \in SUBSET Nat, NEW to \in SUBSET Nat, NEW t \in Fractions, NEW id \in from \cup to
  PROVE  /\ Interpolated(from, to, t)[id] \in Nat
         /\ Interpolated(from, to, t)[id] \in From(id) .. From(id) + 3
<1>1. t \in 0 .. 3 /\ id \in Nat
  BY SceneAssumption
<1>2. From(id) = 4 * id /\ To(id) = 4 * id + 2
  BY DEF From, To
<1>3. ((To(id) - From(id)) * t) \div 2 = t
  <2>1. To(id) - From(id) = 2
    BY <1>1, <1>2
  <2>2. (2 * t) \div 2 = t
    BY <1>1
  <2> QED BY <2>1, <2>2
<1>4. Interpolated(from, to, t)[id] \in {From(id), To(id), From(id) + t}
  BY <1>3 DEF Interpolated
<1> QED BY <1>1, <1>2, <1>4

Scale(id) == IF id \in PlayerIds THEN 4 ELSE 5

\* Matches: a cube shows an entity
Matches(cube, id) == cube.scale = Scale(id) /\ cube.place \in From(id) .. From(id) + 3

\* CubesMatch: every cube that is seen shows one of ids, every one of ids is
\* shown, and by one cube
CubesMatch(cs, ids) ==
  /\ \A c \in Visible(cs) : \E id \in ids : Matches(cs[c], id)
  /\ \A id \in ids : \E c \in Visible(cs) : Matches(cs[c], id)
  /\ \A id \in ids : \A c, d \in Visible(cs) : Matches(cs[c], id) /\ Matches(cs[d], id) => c = d

\* PaintedMatch: two pools that are painted, of players and of props.
LEMMA PaintedMatch ==
  ASSUME NEW players \in SUBSET PlayerIds, NEW props \in SUBSET PropIds, me \notin PropIds,
         NEW p \in Seq(Nat), NEW q \in Seq(Nat), NEW cs \in Seq(Cube), Apart(p, q, Len(cs)),
         NEW o1 \in Seq(Nat), Range(o1) = players, IsInjective(o1),
         NEW o2 \in Seq(Nat), Range(o2) = props, IsInjective(o2),
         NEW places, \A id \in players \cup props : places[id] \in From(id) .. From(id) + 3,
         Painted(p, o1, places, cs, 4), Painted(q, o2, places, cs, 5)
  PROVE  CubesMatch(cs, (players \cup props) \ {me})
<1>1. /\ PlayerIds \cap PropIds = {} /\ PlayerIds \subseteq Nat /\ PropIds \subseteq Nat
      /\ DOMAIN p = 1 .. Len(p) /\ DOMAIN q = 1 .. Len(q) /\ Len(p) \in Nat /\ Len(q) \in Nat
      /\ DOMAIN o1 = 1 .. Len(o1) /\ DOMAIN o2 = 1 .. Len(o2) /\ Len(o1) \in Nat /\ Len(o2) \in Nat
      /\ DOMAIN cs = 1 .. Len(cs)
  BY SceneAssumption
<1>2. \A id \in Nat : From(id) = 4 * id
  BY DEF From
\* the cubes of either pool
<1>3. ASSUME NEW i \in DOMAIN p, cs[p[i]].visible
      PROVE  /\ i \in DOMAIN o1 /\ o1[i] \in players \ {me}
             /\ Matches(cs[p[i]], o1[i]) /\ cs[p[i]].scale = 4
  <2>1. i \in DOMAIN o1 /\ o1[i] # me /\ cs[p[i]].place = places[o1[i]] /\ cs[p[i]].scale = 4
    BY <1>1, <1>3 DEF Painted
  <2>2. o1[i] \in players
    BY <2>1 DEF Range
  <2> QED BY <2>1, <2>2 DEF Matches, Scale
<1>4. ASSUME NEW i \in DOMAIN q, cs[q[i]].visible
      PROVE  /\ i \in DOMAIN o2 /\ o2[i] \in props \ {me}
             /\ Matches(cs[q[i]], o2[i]) /\ cs[q[i]].scale = 5
  <2>1. i \in DOMAIN o2 /\ o2[i] # me /\ cs[q[i]].place = places[o2[i]] /\ cs[q[i]].scale = 5
    BY <1>1, <1>4 DEF Painted
  <2>2. o2[i] \in props /\ o2[i] \notin PlayerIds
    BY <1>1, <2>1 DEF Range
  <2> QED BY <2>1, <2>2 DEF Matches, Scale
<1>5. \A c \in Visible(cs) : \/ \E i \in DOMAIN p : p[i] = c /\ cs[p[i]].visible
                             \/ \E i \in DOMAIN q : q[i] = c /\ cs[q[i]].visible
  <2> SUFFICES ASSUME NEW c \in Visible(cs)
               PROVE  \/ \E i \in DOMAIN p : p[i] = c /\ cs[p[i]].visible
                      \/ \E i \in DOMAIN q : q[i] = c /\ cs[q[i]].visible
    OBVIOUS
  <2>1. c \in DOMAIN cs /\ cs[c].visible
    BY DEF Visible
  <2>2. c \in Range(p) \/ c \in Range(q)
    BY <1>1, <2>1 DEF Apart
  <2> QED BY <2>1, <2>2 DEF Range
\* an entity is matched by the places of no other
<1>6. ASSUME NEW cube \in Cube, NEW a \in Nat, NEW b \in Nat, Matches(cube, a), Matches(cube, b)
      PROVE  a = b
  <2>1. PICK x \in Nat : x = cube.place
    BY DEF Cube
  <2>2. x \in 4 * a .. 4 * a + 3 /\ x \in 4 * b .. 4 * b + 3
    BY <1>2, <1>6, <2>1 DEF Matches
  <2>3. 4 * a <= x /\ x < 4 * a + 4 /\ 4 * b <= x /\ x < 4 * b + 4
    BY <2>2
  <2> QED BY <2>3
<1>7. ASSUME NEW c \in Visible(cs) PROVE \E id \in (players \cup props) \ {me} : Matches(cs[c], id)
  BY <1>3, <1>4, <1>5
<1>8. ASSUME NEW id \in (players \cup props) \ {me} PROVE \E c \in Visible(cs) : Matches(cs[c], id)
  <2>1. CASE id \in players
    <3>1. PICK i \in DOMAIN o1 : o1[i] = id
      BY <2>1 DEF Range
    <3>2. i \in DOMAIN p /\ cs[p[i]].visible
      BY <1>1, <3>1 DEF Painted
    <3>3. p[i] \in DOMAIN cs
      BY <1>1, <3>2 DEF Apart, Range
    <3> QED BY <1>3, <3>1, <3>2, <3>3 DEF Visible
  <2>2. CASE id \in props
    <3>1. PICK i \in DOMAIN o2 : o2[i] = id
      BY <2>2 DEF Range
    <3>2. i \in DOMAIN q /\ cs[q[i]].visible
      BY <1>1, <3>1 DEF Painted
    <3>3. q[i] \in DOMAIN cs
      BY <1>1, <3>2 DEF Apart, Range
    <3> QED BY <1>4, <3>1, <3>2, <3>3 DEF Visible
  <2> QED BY <2>1, <2>2
<1>9. ASSUME NEW id \in (players \cup props) \ {me}, NEW c \in Visible(cs), NEW d \in Visible(cs),
             Matches(cs[c], id), Matches(cs[d], id)
      PROVE  c = d
  <2>0. id \in Nat /\ cs[c] \in Cube /\ cs[d] \in Cube /\ cs[c].scale = cs[d].scale
    BY <1>1, <1>9 DEF Visible, Matches
  <2>1. ASSUME NEW i \in DOMAIN p, NEW j \in DOMAIN p, p[i] = c, p[j] = d PROVE c = d
    <3>1. cs[p[i]].visible /\ cs[p[j]].visible
      BY <2>1 DEF Visible
    <3>2. /\ i \in DOMAIN o1 /\ Matches(cs[c], o1[i]) /\ o1[i] \in Nat
          /\ j \in DOMAIN o1 /\ Matches(cs[d], o1[j]) /\ o1[j] \in Nat
      BY <1>1, <1>3, <2>1, <3>1
    <3>3. o1[i] = id /\ o1[j] = id
      BY <1>6, <1>9, <2>0, <3>2
    <3> QED BY <2>1, <3>2, <3>3 DEF IsInjective
  <2>2. ASSUME NEW i \in DOMAIN q, NEW j \in DOMAIN q, q[i] = c, q[j] = d PROVE c = d
    <3>1. cs[q[i]].visible /\ cs[q[j]].visible
      BY <2>2 DEF Visible
    <3>2. /\ i \in DOMAIN o2 /\ Matches(cs[c], o2[i]) /\ o2[i] \in Nat
          /\ j \in DOMAIN o2 /\ Matches(cs[d], o2[j]) /\ o2[j] \in Nat
      BY <1>1, <1>4, <2>2, <3>1
    <3>3. o2[i] = id /\ o2[j] = id
      BY <1>6, <1>9, <2>0, <3>2
    <3> QED BY <2>2, <3>2, <3>3 DEF IsInjective
  <2>3. ASSUME NEW i \in DOMAIN p, NEW j \in DOMAIN q, cs[p[i]].visible, cs[q[j]].visible
        PROVE  cs[p[i]].scale # cs[q[j]].scale
    <3>1. cs[p[i]].scale = 4
      BY <1>3, <2>3
    <3>2. cs[q[j]].scale = 5
      BY <1>4, <2>3
    <3> QED BY <3>1, <3>2
  <2>4. ~(/\ \E i \in DOMAIN p : p[i] = c /\ cs[p[i]].visible
          /\ \E j \in DOMAIN q : q[j] = d /\ cs[q[j]].visible)
    BY <2>0, <2>3
  <2>5. ~(/\ \E i \in DOMAIN p : p[i] = d /\ cs[p[i]].visible
          /\ \E j \in DOMAIN q : q[j] = c /\ cs[q[j]].visible)
    BY <2>0, <2>3
  <2> QED BY <1>5, <2>1, <2>2, <2>4, <2>5
<1> QED BY <1>7, <1>8, <1>9 DEF CubesMatch

\* MatchCounts: as many cubes as entities, and one for each.
LEMMA MatchCounts ==
  ASSUME NEW cs \in Seq(Cube), NEW ids \in SUBSET Nat, CubesMatch(cs, ids)
  PROVE  /\ Cardinality(Visible(cs)) = Cardinality(ids)
         /\ \A id \in ids : Cardinality({c \in Visible(cs) : Matches(cs[c], id)}) = 1
<1> DEFINE f == [c \in Visible(cs) |-> CHOOSE id \in ids : Matches(cs[c], id)]
<1>1. IsFiniteSet(Visible(cs))
  <2>1. PICK n \in Nat : DOMAIN cs = 1 .. n
    OBVIOUS
  <2>2. IsFiniteSet(1 .. n)
    BY FS_Interval
  <2>3. Visible(cs) \in SUBSET (1 .. n)
    BY <2>1 DEF Visible
  <2> QED BY <2>2, <2>3, FS_Subset
<1>2. ASSUME NEW c \in Visible(cs) PROVE f[c] \in ids /\ Matches(cs[c], f[c])
  BY DEF CubesMatch
<1>3. f \in Injection(Visible(cs), ids)
  <2>1. f \in [Visible(cs) -> ids]
    BY <1>2
  <2>2. ASSUME NEW c \in Visible(cs), NEW d \in Visible(cs), f[c] = f[d] PROVE c = d
    <3> HIDE DEF f
    <3> QED BY <1>2, <2>2 DEF CubesMatch
  <2> HIDE DEF f
  <2> QED BY <2>1, <2>2 DEF Injection, IsInjective
<1>4. f \in Surjection(Visible(cs), ids)
  <2>1. ASSUME NEW id \in ids PROVE \E c \in Visible(cs) : f[c] = id
    <3>1. PICK c \in Visible(cs) : Matches(cs[c], id)
      BY DEF CubesMatch
    <3>2. PICK x \in Nat, a \in Nat, b \in Nat : x = cs[c].place /\ a = id /\ b = f[c]
      <4>1. cs[c] \in Cube
        BY DEF Visible
      <4> HIDE DEF f
      <4> QED BY <1>2, <4>1 DEF Cube
    <3>3. x \in 4 * a .. 4 * a + 3 /\ x \in 4 * b .. 4 * b + 3
      <4> HIDE DEF f
      <4> QED BY <1>2, <3>1, <3>2 DEF Matches, From
    <3>4. a = b
      BY <3>3
    <3> HIDE DEF f
    <3> QED BY <3>2, <3>4
  <2> HIDE DEF f
  <2> QED BY <1>3, <2>1 DEF Injection, Surjection
<1>5. Cardinality(ids) = Cardinality(Visible(cs))
  <2> HIDE DEF f
  <2> QED BY <1>1, <1>3, <1>4, FS_Surjection
<1>6. ASSUME NEW id \in ids PROVE Cardinality({c \in Visible(cs) : Matches(cs[c], id)}) = 1
  <2>1. PICK c \in Visible(cs) : Matches(cs[c], id)
    BY DEF CubesMatch
  <2>2. {d \in Visible(cs) : Matches(cs[d], id)} = {c}
    BY <2>1 DEF CubesMatch
  <2> QED BY <2>2, FS_Singleton
<1> QED BY <1>5, <1>6

\* SceneInv: the two pools share out the cubes of the renderer.
SceneInv ==
  /\ me \in PlayerIds \cup {NoId}
  /\ playerCubes \in Seq(Nat) /\ propCubes \in Seq(Nat) /\ cubes \in Seq(Cube)
  /\ Apart(playerCubes, propCubes, Len(cubes))

LEMMA SceneInitInv == SceneInit => SceneInv
<1> SUFFICES ASSUME SceneInit PROVE SceneInv
  OBVIOUS
<1>1. /\ me = NoId /\ playerCubes = << >> /\ propCubes = << >> /\ cubes = << >>
      /\ << >> \in Seq(Nat) /\ << >> \in Seq(Cube) /\ Len(<< >>) = 0 /\ DOMAIN << >> = {}
  BY DEF SceneInit
<1>2. Apart(<< >>, << >>, 0)
  BY <1>1 DEF Apart, IsInjective, Range
<1> QED BY <1>1, <1>2 DEF SceneInv

\* OnlyThose: what EachDrawnOnce asks of a frame that shows ids
OnlyThose(cs, ids) ==
  /\ \A id \in ids : Cardinality({c \in Visible(cs) : Matches(cs[c], id)}) = 1
  /\ Cardinality(Visible(cs)) = Cardinality(ids)

LEMMA FrameDraws ==
  ASSUME SceneInv, NEW from \in SUBSET (PlayerIds \cup PropIds), NEW to \in SUBSET (PlayerIds \cup PropIds),
         NEW t \in Fractions, Frame(from, to, t)
  PROVE  SceneInv' /\ OnlyThose(cubes', present' \ {me})
<1> DEFINE places == Interpolated(from, to, t)
           players == PlayerIds \cap DOMAIN places
           props == PropIds \cap DOMAIN places
<1>1. /\ PlayerIds \subseteq Nat /\ PropIds \subseteq Nat /\ me \notin PropIds
      /\ IsFiniteSet(PlayerIds) /\ IsFiniteSet(PropIds)
  <2>1. /\ PlayerIds \cup PropIds \subseteq Nat \ {0} /\ PlayerIds \cap PropIds = {}
        /\ IsFiniteSet(PlayerIds \cup PropIds)
    BY SceneAssumption
  <2>2. IsFiniteSet(PlayerIds) /\ IsFiniteSet(PropIds)
    BY <2>1, FS_Subset
  <2> QED BY <2>1, <2>2 DEF SceneInv, NoId
<1>2. DOMAIN places = from \cup to /\ players \cup props = from \cup to
  BY DEF Interpolated
<1>3. \A id \in players \cup props : places[id] \in Nat /\ places[id] \in From(id) .. From(id) + 3
  <2>1. from \in SUBSET Nat /\ to \in SUBSET Nat
    BY <1>1
  <2> QED BY <1>2, <2>1, InterpolatedFacts
<1>0. PICK o1 \in Orders(players), o2 \in Orders(props) :
        LET afterPlayers == PlayersShown(o1, places, playerCubes, cubes)
            afterProps == PropsShown(o2, places, propCubes, afterPlayers.cubes)
        IN  playerCubes' = afterPlayers.pool /\ propCubes' = afterProps.pool /\ cubes' = afterProps.cubes
  BY DEF Frame
<1>4. PICK r, s : /\ r = PlayersShown(o1, places, playerCubes, cubes)
                  /\ s = PropsShown(o2, places, propCubes, r.cubes)
                  /\ playerCubes' = r.pool /\ propCubes' = s.pool /\ cubes' = s.cubes
  BY <1>0
<1>5. present' = from \cup to /\ me' = me
  BY DEF Frame
<1> HIDE DEF places
<1>6. /\ players \in SUBSET PlayerIds /\ props \in SUBSET PropIds
      /\ players \in SUBSET Nat /\ props \in SUBSET Nat /\ IsFiniteSet(players) /\ IsFiniteSet(props)
  BY <1>1, FS_Subset
<1> HIDE DEF players, props
<1>7. o1 \in Seq(Nat) /\ Range(o1) = players /\ IsInjective(o1)
  BY <1>6, OrderFacts DEF Orders
<1>8. o2 \in Seq(Nat) /\ Range(o2) = props /\ IsInjective(o2)
  BY <1>6, OrderFacts DEF Orders
<1>9. /\ Shows(o1, places) /\ Shows(o2, places)
      /\ \A i \in DOMAIN o2 : o2[i] # me
  BY <1>1, <1>3, <1>6, <1>7, <1>8 DEF Shows, Range
<1>10. /\ playerCubes \in Seq(Nat) /\ propCubes \in Seq(Nat) /\ cubes \in Seq(Cube)
       /\ Apart(playerCubes, propCubes, Len(cubes))
  BY DEF SceneInv
<1>11. Drawn(r, propCubes, o1, places, cubes, 4)
  BY <1>4, <1>7, <1>9, <1>10, PlayersAreDrawn
<1>12. PICK p, mid : p = r.pool /\ mid = r.cubes
  OBVIOUS
<1>13. /\ p \in Seq(Nat) /\ mid \in Seq(Cube) /\ Apart(p, propCubes, Len(mid))
       /\ Painted(p, o1, places, mid, 4)
  BY <1>11, <1>12 DEF Drawn
<1>14. Drawn(s, p, o2, places, mid, 5)
  <2>1. Apart(propCubes, p, Len(mid))
    BY <1>13, ApartSwaps
  <2> QED BY <1>4, <1>8, <1>9, <1>10, <1>12, <1>13, <2>1, PropsAreDrawn
<1>15. PICK q, cs : q = s.pool /\ cs = s.cubes
  OBVIOUS
<1>16. /\ q \in Seq(Nat) /\ cs \in Seq(Cube) /\ Apart(q, p, Len(cs))
       /\ Painted(q, o2, places, cs, 5) /\ \A c \in Range(p) : cs[c] = mid[c]
  BY <1>14, <1>15 DEF Drawn
<1>17. Apart(p, q, Len(cs))
  BY <1>16, ApartSwaps
<1>18. Painted(p, o1, places, cs, 4)
  <2>1. \A i \in DOMAIN p : cs[p[i]] = mid[p[i]]
    BY <1>16 DEF Range
  <2> QED BY <1>13, <2>1 DEF Painted
<1>19. CubesMatch(cs, (players \cup props) \ {me})
  BY <1>1, <1>3, <1>6, <1>7, <1>8, <1>13, <1>16, <1>17, <1>18, PaintedMatch
<1>20. (players \cup props) \ {me} \in SUBSET Nat
  BY <1>6
<1>21. OnlyThose(cs, (players \cup props) \ {me})
  BY <1>16, <1>19, <1>20, MatchCounts DEF OnlyThose
<1>22. present' \ {me} = (players \cup props) \ {me}
  BY <1>2, <1>5 DEF players, props
<1>23. playerCubes' = p /\ propCubes' = q /\ cubes' = cs
  BY <1>4, <1>12, <1>15
<1>24. SceneInv'
  BY <1>5, <1>13, <1>16, <1>17, <1>23 DEF SceneInv
<1> QED BY <1>21, <1>22, <1>23, <1>24

LEMMA SceneStep == SceneInv /\ [SceneNext]_sceneVars => SceneInv'
<1> SUFFICES ASSUME SceneInv, [SceneNext]_sceneVars PROVE SceneInv'
  OBVIOUS
<1>1. CASE \E from, to \in SUBSET (PlayerIds \cup PropIds), t \in Fractions : Frame(from, to, t)
  BY <1>1, FrameDraws
<1>2. ASSUME NEW id \in PlayerIds, Accept(id) PROVE SceneInv'
  BY <1>2 DEF Accept, SceneInv
<1>3. CASE UNCHANGED sceneVars
  BY <1>3 DEF sceneVars, SceneInv
<1> QED BY <1>1, <1>2, <1>3 DEF SceneNext

\* SceneAlways: a frame draws every other player and every prop of its two
\* snapshots once and nothing else, whatever order the entities come in and
\* whatever the frames before it have shown (update_player_cubes and
\* update_dynamic_props of crates/client/src/app.rs).
THEOREM SceneAlways == SceneSpec => EachDrawnOnce
<1>1. SceneInv /\ [SceneNext]_sceneVars
      => [/\ PoolsAreApart'
          /\ me' = me =>
               LET scale(id) == IF id \in PlayerIds THEN 4 ELSE 5
                   drawn(id) == {c \in Visible(cubes') : cubes'[c].scale = scale(id)
                                                       /\ cubes'[c].place \in From(id) .. From(id) + 3}
               IN  /\ \A id \in present' \ {me} : Cardinality(drawn(id)) = 1
                   /\ Cardinality(Visible(cubes')) = Cardinality(present' \ {me})]_sceneVars
  <2> SUFFICES ASSUME SceneInv, SceneNext
               PROVE  /\ PoolsAreApart'
                      /\ me' = me => OnlyThose(cubes', present' \ {me})
    BY DEF OnlyThose, Matches, Scale
  <2>1. PoolsAreApart'
    <3>1. /\ playerCubes' \in Seq(Nat) /\ propCubes' \in Seq(Nat) /\ cubes' \in Seq(Cube)
          /\ Apart(playerCubes', propCubes', Len(cubes'))
      BY SceneStep DEF SceneInv
    <3>2. Len(cubes') \in Nat /\ DOMAIN cubes' = 1 .. Len(cubes')
      BY <3>1
    <3> QED BY <3>1, <3>2, ApartJoins DEF PoolsAreApart
  <2>2. ASSUME NEW id \in PlayerIds, Accept(id) PROVE me' # me
    <3>1. id # 0
      BY SceneAssumption
    <3> QED BY <2>2, <3>1 DEF Accept, NoId
  <2>3. CASE \E from, to \in SUBSET (PlayerIds \cup PropIds), t \in Fractions : Frame(from, to, t)
    <3>1. OnlyThose(cubes', present' \ {me})
      BY <2>3, FrameDraws
    <3> QED BY <2>1, <3>1
  <2> QED BY <2>1, <2>2, <2>3 DEF SceneNext
<1> QED BY <1>1, SceneInitInv, SceneStep, PTL DEF SceneSpec, EachDrawnOnce
=============================================================================

-------------------------- MODULE PredictionProofs --------------------------
(***************************************************************************)
(* PredictionIsExact and SmoothCorrection hold of Prediction for any       *)
(* walls, speeds and limits, any number of commands and ticks, and         *)
(* whatever is lost, delayed or reordered.                                 *)
(*                                                                         *)
(* The argument: every pending command remembers a position that is as far *)
(* behind the present one as the commands issued after it were predicted   *)
(* to go, and a correction keeps that, because it shifts all of them alike. *)
(* The position that a correction takes for the one of command ack is      *)
(* therefore the server's, and what it adds is what was predicted since.   *)
(*                                                                         *)
(* The pending commands have consecutive sequences, so that retain cuts    *)
(* off their beginning; no acknowledgement is later than the last command. *)
(***************************************************************************)
EXTENDS Prediction, Facts

\* Body: the player, between the walls
Body == [position : Lo .. Hi, speed : Int]

\* What a pending command remembers, and what the server gets of it
Remembered == [sequence : Nat, wish : Speeds, after : Int]
Command == [sequence : Nat, wish : Speeds]

\* Consecutive: the pending commands are the last ones that were issued
Consecutive(cmds, next) ==
  /\ cmds \in Seq(Remembered)
  /\ \A i \in DOMAIN cmds : cmds[i].sequence = (next - 1 - Len(cmds)) + i

\* Since: how far the commands after the first n were predicted to go, when next
\* of them were issued
Since(went, next, n) == went[next + 1] - went[n + 1]

\* ClientInv: what the client keeps; its parts are about the types, the
\* pending commands, and what they remember
ClientTypes ==
  /\ position \in Int /\ prevPosition \in Int /\ error \in Int /\ speed \in Int
  /\ sequence \in 0 .. MaxCommands
  /\ travelled \in Seq(Int) /\ Len(travelled) = sequence + 1
  /\ lastAcked \in 0 .. commandAck
  /\ confirmed.sequence \in -1 .. sequence - 1 /\ confirmed.position \in Int

PendingInv ==
  /\ Consecutive(pending, sequence)
  /\ Len(pending) <= MaxPendingCommands
  /\ \A i \in DOMAIN pending : pending[i].sequence >= lastAcked

RememberedInv ==
  /\ \A i \in DOMAIN pending : position - pending[i].after = Since(travelled, sequence, pending[i].sequence + 1)
  /\ position - confirmed.position = Since(travelled, sequence, confirmed.sequence + 1)

ClientInv == ClientTypes /\ PendingInv /\ RememberedInv

\* ServerInv: what the server and the network keep is of commands that were
\* issued and of ticks that have been
ServerInv ==
  /\ player \in Body
  /\ queue \in Seq(Command) /\ \A i \in DOMAIN queue : queue[i].sequence < sequence
  /\ commands \subseteq Command /\ \A c \in commands : c.sequence < sequence
  /\ applied \in Seq(Nat) /\ \A i \in DOMAIN applied : applied[i] < sequence
  /\ commandAck \in 0 .. sequence
  /\ commandAck = Max({0} \cup Range(applied))
  /\ tick \in Nat /\ ackedTick \in 0 .. tick
  /\ past \in Seq(Body) /\ Len(past) = tick
  /\ \A d \in snaps : d.tick \in 1 .. tick /\ d.commandAck \in 0 .. commandAck /\ d.player \subseteq Int
  /\ acks \subseteq 1 .. tick

PredictionInv == ClientInv /\ ServerInv
-----------------------------------------------------------------------------
(* The controller.                                                         *)

\* WalkFacts: a command leaves the player between the walls.
LEMMA WalkFacts ==
  ASSUME NEW b, b.position \in Int, b.speed \in Int, NEW wish \in Speeds
  PROVE  Walk(b, wish) \in Body
<1> DEFINE up      == Min({wish, b.speed + Accel})
           down    == Max({wish, b.speed - Accel})
           target  == IF wish > b.speed THEN up ELSE down
           clipped == Min({Hi, b.position + target})
           stopped == Max({Lo, clipped})
<1>1. wish \in Int /\ Accel \in Int /\ Lo \in Int /\ Hi \in Int /\ Lo <= Hi
  BY PredictionAssumption
<1>2. up \in Int /\ down \in Int
  <2>1. b.speed + Accel \in Int /\ b.speed - Accel \in Int
    BY <1>1
  <2>2. up = IF wish <= b.speed + Accel THEN wish ELSE b.speed + Accel
    BY <1>1, <2>1, MinMaxOfTwo
  <2>3. down = IF wish >= b.speed - Accel THEN wish ELSE b.speed - Accel
    BY <1>1, <2>1, MinMaxOfTwo
  <2> HIDE DEF up, down
  <2> QED BY <1>1, <2>1, <2>2, <2>3
<1> HIDE DEF up, down
<1>3. target \in Int
  BY <1>2
<1> HIDE DEF target
<1>4. clipped \in Int /\ clipped <= Hi
  <2>1. b.position + target \in Int
    BY <1>3
  <2>2. clipped = IF Hi <= b.position + target THEN Hi ELSE b.position + target
    BY <1>1, <2>1, MinMaxOfTwo
  <2> HIDE DEF clipped
  <2> QED BY <1>1, <2>1, <2>2
<1> HIDE DEF clipped
<1>5. stopped \in Lo .. Hi
  <2>1. stopped = IF Lo >= clipped THEN Lo ELSE clipped
    BY <1>1, <1>4, MinMaxOfTwo
  <2> HIDE DEF stopped
  <2> QED BY <1>1, <1>4, <2>1
<1>6. Walk(b, wish) = [position |-> stopped, speed |-> stopped - b.position]
  BY DEF Walk, stopped, clipped, target, up, down
<1> HIDE DEF stopped
<1> QED BY <1>1, <1>5, <1>6 DEF Body

\* MovedFacts: and so does any number of them (process_commands).
LEMMA MovedFacts ==
  ASSUME NEW b \in Body, NEW cmds \in Seq(Command)
  PROVE  Moved(b, cmds) \in Body
<1> DEFINE n == Len(cmds)
           g == [p \in (1 .. n) \X Body |-> Walk(p[2], cmds[p[1]].wish)]
           Walked(f) == f = [k \in 0 .. n |-> IF k = 0 THEN b ELSE Walk(f[k - 1], cmds[k].wish)]
<1>1. n \in Nat /\ \A k \in 1 .. n : cmds[k].wish \in Speeds
  <2>1. n \in Nat /\ \A k \in 1 .. n : cmds[k] \in Command
    OBVIOUS
  <2> QED BY <2>1 DEF Command
<1>2. g \in [(1 .. n) \X Body -> Body]
  <2> SUFFICES ASSUME NEW k \in 1 .. n, NEW c \in Body PROVE Walk(c, cmds[k].wish) \in Body
    OBVIOUS
  <2>1. c.position \in Int /\ c.speed \in Int
    BY PredictionAssumption DEF Body
  <2> QED BY <1>1, <2>1, WalkFacts
<1>3. PICK f : Rounds(f, Body, b, n, g)
  <2> HIDE DEF g, n
  <2> QED BY <1>1, <1>2, LoopExists
<1>4. Walked(f)
  <2>1. ASSUME NEW k \in 0 .. n PROVE f[k] = IF k = 0 THEN b ELSE Walk(f[k - 1], cmds[k].wish)
    <3> USE DEF Rounds
    <3>1. CASE k = 0
      BY <1>3, <3>1
    <3>2. CASE k # 0
      <4>1. k \in 1 .. n /\ k - 1 \in 0 .. n
        BY <1>1, <3>2
      <4>2. f[k - 1] \in Body /\ f[k] = g[<<k, f[k - 1]>>]
        BY <1>3, <4>1
      <4>3. g[<<k, f[k - 1]>>] = Walk(f[k - 1], cmds[k].wish)
        BY <4>1, <4>2
      <4> QED BY <3>2, <4>2, <4>3
    <3> QED BY <3>1, <3>2
  <2>2. f = [k \in 0 .. n |-> f[k]]
    BY <1>3 DEF Rounds
  <2> QED BY <2>1, <2>2
<1> DEFINE c == CHOOSE e : Walked(e)
<1>5. Walked(c)
  BY <1>4
<1>6. Moved(b, cmds) = c[n]
  BY DEF Moved
<1> HIDE DEF c, g
<1>7. \A k \in 0 .. n : c[k] = IF k = 0 THEN b ELSE Walk(c[k - 1], cmds[k].wish)
  BY <1>5
<1> DEFINE T == {k \in 0 .. n : c[k] \notin Body}
<1>8. T = {}
  <2> SUFFICES ASSUME T # {} PROVE FALSE
    OBVIOUS
  <2>1. PICK m \in T : \A k \in T : m <= k
    <3>1. T \subseteq Nat
      OBVIOUS
    <3> HIDE DEF T
    <3> QED BY <3>1, LeastNatural
  <2>2. m \in 0 .. n /\ c[m] \notin Body
    OBVIOUS
  <2>3. CASE m = 0
    BY <1>7, <2>2, <2>3
  <2>4. CASE m # 0
    <3>1. m - 1 \in 0 .. n /\ ~(m <= m - 1) /\ m \in 1 .. n
      BY <1>1, <2>2, <2>4
    <3>2. c[m - 1] \in Body
      BY <2>1, <3>1
    <3>3. c[m - 1].position \in Int /\ c[m - 1].speed \in Int
      BY <3>2, PredictionAssumption DEF Body
    <3>4. Walk(c[m - 1], cmds[m].wish) \in Body
      BY <1>1, <3>1, <3>3, WalkFacts
    <3> QED BY <1>7, <2>2, <2>4, <3>4
  <2> QED BY <2>3, <2>4
<1>9. n \in 0 .. n
  BY <1>1
<1> QED BY <1>6, <1>8, <1>9
-----------------------------------------------------------------------------
(* The pending commands.                                                   *)

\* PartOf: the last ones of the commands cmds
PartOf(r, cmds, next) ==
  /\ Consecutive(r, next)
  /\ Len(r) <= Len(cmds)
  /\ \A i \in DOMAIN r : \E j \in DOMAIN cmds : r[i] = cmds[j]

\* ConsecutiveFacts: the types of the parts; what is pending was issued.
LEMMA ConsecutiveFacts ==
  ASSUME NEW cmds, NEW next \in Int, Consecutive(cmds, next)
  PROVE  /\ Len(cmds) \in Nat /\ DOMAIN cmds = 1 .. Len(cmds)
         /\ \A i \in 1 .. Len(cmds) :
              /\ cmds[i] \in Remembered
              /\ cmds[i].sequence \in Nat /\ cmds[i].wish \in Speeds /\ cmds[i].after \in Int
              /\ cmds[i].sequence = (next - 1 - Len(cmds)) + i
              /\ cmds[i].sequence < next
<1>1. cmds \in Seq(Remembered)
  BY DEF Consecutive
<1>2. Len(cmds) \in Nat /\ DOMAIN cmds = 1 .. Len(cmds) /\ \A i \in 1 .. Len(cmds) : cmds[i] \in Remembered
  BY <1>1
<1>3. \A i \in 1 .. Len(cmds) : cmds[i].sequence = (next - 1 - Len(cmds)) + i
  BY <1>2 DEF Consecutive
<1>4. \A i \in 1 .. Len(cmds) : (next - 1 - Len(cmds)) + i < next
  BY <1>2
<1>5. \A r \in Remembered : r.sequence \in Nat /\ r.wish \in Speeds /\ r.after \in Int
  BY DEF Remembered
<1> QED BY <1>2, <1>3, <1>4, <1>5

\* SuffixPart: what is left behind a beginning.
LEMMA SuffixPart ==
  ASSUME NEW cmds, NEW next \in Int, Consecutive(cmds, next), NEW k \in 1 .. Len(cmds) + 1,
         NEW r, r \in Seq(Remembered), Len(r) = (Len(cmds) + 1) - k,
         \A i \in 1 .. (Len(cmds) + 1) - k : r[i] = cmds[(i + k) - 1]
  PROVE  PartOf(r, cmds, next)
<1> DEFINE n == Len(cmds)
           m == (n + 1) - k
<1>1. /\ n \in Nat /\ DOMAIN cmds = 1 .. n
      /\ \A i \in 1 .. n : cmds[i].sequence = (next - 1 - n) + i
  BY ConsecutiveFacts
<1>2. DOMAIN r = 1 .. m /\ Len(r) = m
  OBVIOUS
<1>3. ASSUME NEW i \in 1 .. m
      PROVE  (i + k) - 1 \in 1 .. n /\ r[i] = cmds[(i + k) - 1] /\ r[i].sequence = (next - 1 - m) + i
  <2>1. (i + k) - 1 \in 1 .. n
    BY <1>1
  <2>2. r[i] = cmds[(i + k) - 1]
    OBVIOUS
  <2>3. cmds[(i + k) - 1].sequence = (next - 1 - n) + ((i + k) - 1)
    BY <1>1, <2>1
  <2>4. (next - 1 - n) + ((i + k) - 1) = (next - 1 - m) + i
    BY <1>1
  <2> QED BY <2>1, <2>2, <2>3, <2>4
<1>4. m <= n
  BY <1>1
<1> HIDE DEF m, n
<1>5. Consecutive(r, next)
  BY <1>2, <1>3 DEF Consecutive
<1>6. \A i \in DOMAIN r : \E j \in DOMAIN cmds : r[i] = cmds[j]
  BY <1>1, <1>2, <1>3
<1> QED BY <1>2, <1>4, <1>5, <1>6 DEF PartOf, n

\* TailPart: as without the first.
LEMMA TailPart ==
  ASSUME NEW cmds, NEW next \in Int, Consecutive(cmds, next), cmds # << >>
  PROVE  PartOf(Tail(cmds), cmds, next)
<1> DEFINE r == Tail(cmds)
<1>1. cmds \in Seq(Remembered)
  BY DEF Consecutive
<1>2. Len(cmds) \in Nat /\ Len(cmds) # 0
  BY <1>1
<1>3. r \in Seq(Remembered) /\ Len(r) = Len(cmds) - 1 /\ \A i \in 1 .. Len(cmds) - 1 : r[i] = cmds[i + 1]
  BY <1>1
<1> HIDE DEF r
<1>4. 2 \in 1 .. Len(cmds) + 1 /\ Len(r) = (Len(cmds) + 1) - 2
  BY <1>2, <1>3
<1>5. \A i \in 1 .. (Len(cmds) + 1) - 2 : i \in 1 .. Len(cmds) - 1 /\ (i + 2) - 1 = i + 1
  BY <1>2
<1>6. \A i \in 1 .. (Len(cmds) + 1) - 2 : r[i] = cmds[(i + 2) - 1]
  BY <1>3, <1>5
<1>7. PartOf(r, cmds, next)
  BY <1>3, <1>4, <1>6, SuffixPart
<1> QED BY <1>7 DEF r

\* RetainPart: and retain cuts off the beginning.
LEMMA RetainPart ==
  ASSUME NEW ack \in Nat, sequence \in Int, Consecutive(pending, sequence)
  PROVE  /\ PartOf(Unacknowledged(ack), pending, sequence)
         /\ \A i \in DOMAIN Unacknowledged(ack) : Unacknowledged(ack)[i].sequence >= ack
<1> DEFINE n == Len(pending)
           base == sequence - 1 - n
           k == IF ack <= base + 1 THEN 1 ELSE IF ack > base + n THEN n + 1 ELSE ack - base
           I == {i \in DOMAIN pending : pending[i].sequence >= ack}
           r == Retain(pending, k .. n)
<1>1. /\ n \in Nat /\ DOMAIN pending = 1 .. n
      /\ \A i \in 1 .. n : pending[i] \in Remembered /\ pending[i].sequence = base + i
  BY ConsecutiveFacts
<1>2. k \in 1 .. n + 1 /\ base \in Int
  BY <1>1
<1>3. I = k .. n
  <2>1. \A i \in 1 .. n : base + i >= ack <=> i >= k
    BY <1>1
  <2>2. k .. n \subseteq 1 .. n /\ \A i \in 1 .. n : i >= k <=> i \in k .. n
    BY <1>1, <1>2
  <2> HIDE DEF k, base, n
  <2> QED BY <1>1, <2>1, <2>2
<1>4. Unacknowledged(ack) = r
  BY <1>3 DEF Unacknowledged
<1> HIDE DEF I, k, base
<1>5. /\ Len(r) = (n + 1) - k
      /\ \A i \in 1 .. (n + 1) - k : r[i] = pending[(i + k) - 1]
  <2>1. n \in Nat /\ k \in 1 .. n + 1
    BY <1>1, <1>2
  <2> HIDE DEF n
  <2>3. Len(r) = (n + 1) - k
    BY <2>1, RetainSuffix
  <2>4. \A i \in 1 .. (n + 1) - k : r[i] = pending[(i + k) - 1]
    BY <2>1, RetainSuffix
  <2> QED BY <2>3, <2>4
<1>6. \A i \in 1 .. (n + 1) - k : (i + k) - 1 \in k .. n /\ (i + k) - 1 \in 1 .. n
  BY <1>1, <1>2
<1>7. r \in Seq(Remembered)
  <2>1. I \in SUBSET DOMAIN pending
    BY DEF I
  <2>2. pending \in Seq(Remembered)
    BY DEF Consecutive
  <2>3. Retain(pending, I) \in Seq(Remembered)
    BY <2>1, <2>2, RetainSeq
  <2> QED BY <1>3, <2>3
<1> HIDE DEF r
<1>8. PartOf(r, pending, sequence)
  BY <1>2, <1>5, <1>7, SuffixPart
<1>9. ASSUME NEW i \in DOMAIN r PROVE r[i].sequence >= ack
  <2>0. DOMAIN r = 1 .. (n + 1) - k
    BY <1>5, <1>7
  <2>1. r[i] = pending[(i + k) - 1] /\ (i + k) - 1 \in I
    BY <1>3, <1>5, <1>6, <2>0
  <2> QED BY <2>1 DEF I
<1> QED BY <1>4, <1>8, <1>9
-----------------------------------------------------------------------------
(* The client.                                                             *)

\* TravelFacts: how far there is to go from any command that was issued.
LEMMA TravelFacts ==
  ASSUME ClientTypes, NEW n \in 0 .. sequence
  PROVE  travelled[n + 1] \in Int /\ Since(travelled, sequence, n) \in Int /\ Since(travelled, sequence, sequence) = 0
<1>1. sequence \in Nat
  BY PredictionAssumption DEF ClientTypes
<1>2. \A k \in 1 .. sequence + 1 : travelled[k] \in Int
  BY DEF ClientTypes
<1>3. n + 1 \in 1 .. sequence + 1 /\ sequence + 1 \in 1 .. sequence + 1
  BY <1>1
<1>4. travelled[n + 1] \in Int /\ travelled[sequence + 1] \in Int
  BY <1>2, <1>3
<1> QED BY <1>4 DEF Since

\* ShorterInv: who forgets commands and acknowledges no more than it forgot
\* leaves the invariant of the client.
LEMMA ShorterInv ==
  ASSUME ClientInv, NEW ack \in 0 .. commandAck,
         PartOf(pending', pending, sequence), \A i \in DOMAIN pending' : pending'[i].sequence >= ack,
         lastAcked' = ack,
         UNCHANGED <<position, prevPosition, error, speed, sequence, travelled, confirmed, commandAck>>
  PROVE  ClientInv'
<1>1. ClientTypes'
  BY DEF ClientInv, ClientTypes
<1>2. PendingInv'
  <2>1. Len(pending') \in Nat /\ Len(pending) \in Nat /\ Len(pending) <= MaxPendingCommands
        /\ MaxPendingCommands \in Int /\ Len(pending') <= Len(pending)
    BY PredictionAssumption DEF ClientInv, PendingInv, PartOf, Consecutive
  <2> QED BY <2>1 DEF PendingInv, PartOf
<1>3. RememberedInv'
  <2>1. RememberedInv
    BY DEF ClientInv
  <2>2. ASSUME NEW i \in DOMAIN pending'
        PROVE  position - pending'[i].after = Since(travelled, sequence, pending'[i].sequence + 1)
    <3>1. PICK j \in DOMAIN pending : pending'[i] = pending[j]
      BY DEF PartOf
    <3> QED BY <2>1, <3>1 DEF RememberedInv
  <2> QED BY <2>1, <2>2 DEF RememberedInv
<1> QED BY <1>1, <1>2, <1>3 DEF ClientInv

\* CorrectInv: a correction shifts what is remembered along with the player.
LEMMA CorrectInv ==
  ASSUME ClientInv, ServerInv, NEW ack \in 0 .. commandAck, NEW p \in Int,
         NEW rest, PartOf(rest, pending, sequence), rest # << >>,
         \A i \in DOMAIN rest : rest[i].sequence >= ack,
         Head(rest).sequence = ack,
         Correct(p - Head(rest).after, Tail(rest)),
         lastAcked' = ack, confirmed' = [sequence |-> ack, position |-> p],
         UNCHANGED <<speed, sequence, travelled, commandAck>>
  PROVE  ClientInv'
<1> DEFINE diff == p - Head(rest).after
           tail == Tail(rest)
<1>0. ClientTypes /\ PendingInv /\ RememberedInv /\ sequence \in Nat /\ MaxPendingCommands \in Nat
  BY PredictionAssumption DEF ClientInv, ClientTypes
<1>1. Consecutive(pending, sequence) /\ Consecutive(rest, sequence)
  BY <1>0 DEF PendingInv, PartOf
<1>2. /\ Len(rest) \in Nat \ {0} /\ DOMAIN rest = 1 .. Len(rest) /\ Head(rest) = rest[1]
      /\ \A i \in 1 .. Len(rest) : rest[i].sequence \in Nat /\ rest[i].after \in Int /\ rest[i].sequence < sequence
  <2>1. rest \in Seq(Remembered)
    BY <1>1 DEF Consecutive
  <2>2. Len(rest) # 0 /\ Head(rest) = rest[1]
    BY <2>1
  <2> QED BY <1>0, <1>1, <2>2, ConsecutiveFacts
<1>3. \A i \in 1 .. Len(rest) : position - rest[i].after = Since(travelled, sequence, rest[i].sequence + 1)
  <2> SUFFICES ASSUME NEW i \in 1 .. Len(rest) PROVE position - rest[i].after = Since(travelled, sequence, rest[i].sequence + 1)
    OBVIOUS
  <2>1. PICK j \in DOMAIN pending : rest[i] = pending[j]
    BY <1>2 DEF PartOf
  <2> QED BY <1>0, <2>1 DEF RememberedInv
<1>4. /\ Head(rest).after \in Int /\ diff \in Int /\ position \in Int
      /\ ack \in 0 .. sequence - 1 /\ position - Head(rest).after = Since(travelled, sequence, ack + 1)
  <2>1. 1 \in 1 .. Len(rest)
    BY <1>2
  <2>2. Head(rest).after \in Int /\ ack \in Nat /\ ack < sequence
        /\ position - Head(rest).after = Since(travelled, sequence, ack + 1)
    BY <1>2, <1>3, <2>1
  <2> QED BY <1>0, <2>2 DEF ClientTypes
<1>5. PartOf(tail, rest, sequence)
  BY <1>0, <1>1, TailPart
<1>6. /\ Consecutive(tail, sequence) /\ Len(tail) <= Len(rest) /\ Len(rest) <= Len(pending)
      /\ \A i \in DOMAIN tail : \E j \in DOMAIN rest : tail[i] = rest[j]
  BY <1>5 DEF PartOf
<1> HIDE DEF tail
<1>7. /\ position' = position + diff /\ prevPosition' = prevPosition + diff
      /\ pending' = [i \in DOMAIN tail |-> [tail[i] EXCEPT !.after = @ + diff]]
      /\ error' = IF diff = 0 THEN error
                  ELSE IF Distance(diff) > SnapThreshold THEN 0 ELSE error - diff
  BY DEF Correct, tail
<1> HIDE DEF diff
<1>8. /\ Len(tail) \in Nat /\ DOMAIN tail = 1 .. Len(tail)
      /\ \A i \in 1 .. Len(tail) :
           /\ tail[i] \in Remembered
           /\ tail[i].sequence \in Nat /\ tail[i].after \in Int /\ tail[i].wish \in Speeds
           /\ tail[i].sequence = (sequence - 1 - Len(tail)) + i
           /\ tail[i].sequence < sequence
  BY <1>0, <1>6, ConsecutiveFacts
<1>9. /\ DOMAIN pending' = 1 .. Len(tail)
      /\ \A i \in 1 .. Len(tail) :
           pending'[i] = [sequence |-> tail[i].sequence, wish |-> tail[i].wish, after |-> tail[i].after + diff]
  <2>1. DOMAIN pending' = 1 .. Len(tail)
    BY <1>7, <1>8
  <2>2. ASSUME NEW i \in 1 .. Len(tail)
        PROVE pending'[i] = [sequence |-> tail[i].sequence, wish |-> tail[i].wish, after |-> tail[i].after + diff]
    BY <1>7, <1>8 DEF Remembered
  <2> QED BY <2>1, <2>2
<1>10. pending' \in Seq(Remembered) /\ Len(pending') = Len(tail)
  <2>1. \A i \in 1 .. Len(tail) : pending'[i] \in Remembered
    BY <1>4, <1>8, <1>9 DEF Remembered
  <2>2. pending' = [i \in 1 .. Len(tail) |-> pending'[i]]
    BY <1>7, <1>8
  <2>3. pending' \in [1 .. Len(tail) -> Remembered]
    BY <2>1, <2>2
  <2> QED BY <1>8, <2>3
<1>11. Consecutive(pending', sequence)
  BY <1>8, <1>9, <1>10 DEF Consecutive
<1>12. ClientTypes'
  <2>1. position' \in Int /\ prevPosition' \in Int /\ error' \in Int
    <3>1. position \in Int /\ prevPosition \in Int /\ error \in Int
      BY <1>0 DEF ClientTypes
    <3> QED BY <1>4, <1>7, <3>1
  <2>2. confirmed'.sequence \in -1 .. sequence - 1 /\ confirmed'.position \in Int
    BY <1>0, <1>4
  <2> QED BY <1>0, <2>1, <2>2 DEF ClientTypes
<1>13. PendingInv'
  <2>1. Len(pending') <= MaxPendingCommands
    <3>1. Len(pending) \in Nat /\ Len(pending) <= MaxPendingCommands
      BY <1>0, <1>1 DEF PendingInv, Consecutive
    <3> QED BY <1>0, <1>2, <1>6, <1>8, <1>10, <3>1
  <2>2. \A i \in DOMAIN pending' : pending'[i].sequence >= ack
    BY <1>6, <1>8, <1>9
  <2> QED BY <1>11, <2>1, <2>2 DEF PendingInv
<1>14. RememberedInv'
  <2>1. ASSUME NEW i \in DOMAIN pending'
        PROVE  position' - pending'[i].after = Since(travelled, sequence, pending'[i].sequence + 1)
    <3>1. i \in 1 .. Len(tail)
      BY <1>9
    <3>2. PICK j \in DOMAIN rest : tail[i] = rest[j]
      BY <1>6, <1>8, <3>1
    <3>3. position - tail[i].after = Since(travelled, sequence, tail[i].sequence + 1)
      BY <1>2, <1>3, <3>2
    <3>4. pending'[i].after = tail[i].after + diff /\ pending'[i].sequence = tail[i].sequence
      BY <1>9, <3>1
    <3>5. position' - pending'[i].after = position - tail[i].after
      <4>1. tail[i].after \in Int
        BY <1>8, <3>1
      <4> QED BY <1>4, <1>7, <3>4, <4>1
    <3> QED BY <3>3, <3>4, <3>5
  <2>2. position' - confirmed'.position = Since(travelled, sequence, confirmed'.sequence + 1)
    <3>1. position' - p = position - Head(rest).after
      BY <1>4, <1>7 DEF diff
    <3> QED BY <1>4, <3>1
  <2> QED BY <2>1, <2>2 DEF RememberedInv
<1> QED BY <1>12, <1>13, <1>14 DEF ClientInv

\* Shifted: two numbers that move by the same keep their distance.
LEMMA Shifted ==
  ASSUME NEW a \in Int, NEW b \in Int, NEW x \in Int, NEW l \in Int, NEW t \in Int, NEW u \in Int,
         l - t = b - a, a - x = t - u
  PROVE  l - u = b - x
OBVIOUS

\* ClientStepInv: a command is predicted, and remembered with the position it
\* led to; the oldest one may be forgotten for it.
LEMMA ClientStepInv ==
  ASSUME ClientInv, commandAck \in 0 .. sequence, NEW wish \in Speeds, ClientStep(wish)
  PROVE  ClientInv'
<1> DEFINE b == Walk([position |-> position, speed |-> speed], wish)
           c == [sequence |-> sequence, wish |-> wish, after |-> b.position]
           all == Append(pending, c)
           n == Len(pending)
           last == travelled[sequence + 1] + (b.position - position)
<1>0. /\ ClientTypes /\ PendingInv /\ RememberedInv
      /\ sequence \in Nat /\ MaxPendingCommands \in Nat \ {0} /\ MaxCommands \in Nat
  BY PredictionAssumption DEF ClientInv, ClientTypes
<1>1. b \in Body /\ b.position \in Int /\ b.speed \in Int /\ position \in Int
  <2>1. position \in Int /\ speed \in Int
    BY <1>0 DEF ClientTypes
  <2>2. b \in Body
    BY <2>1, WalkFacts
  <2> HIDE DEF b
  <2> QED BY <2>1, <2>2, PredictionAssumption DEF Body
<1>2. /\ sequence < MaxCommands /\ sequence' = sequence + 1
      /\ prevPosition' = position /\ position' = b.position /\ speed' = b.speed
      /\ travelled' = Append(travelled, last)
      /\ pending' = IF Len(all) > MaxPendingCommands THEN Tail(all) ELSE all
      /\ error' = error /\ lastAcked' = lastAcked /\ confirmed' = confirmed /\ commandAck' = commandAck
  BY DEF ClientStep, StoreCommand, serverVars
<1> HIDE DEF b
<1>3. c \in Remembered
  BY <1>0, <1>1 DEF Remembered
<1>4. /\ n \in Nat /\ DOMAIN pending = 1 .. n /\ pending \in Seq(Remembered)
      /\ \A i \in 1 .. n : /\ pending[i].sequence = (sequence - 1 - n) + i /\ pending[i].sequence \in Nat
                           /\ pending[i].sequence < sequence /\ pending[i].after \in Int
                           /\ pending[i] \in Remembered
  <2>1. Consecutive(pending, sequence) /\ sequence \in Int
    BY <1>0 DEF PendingInv
  <2>2. pending \in Seq(Remembered)
    BY <2>1 DEF Consecutive
  <2> QED BY <2>1, <2>2, ConsecutiveFacts
<1>5. /\ all \in Seq(Remembered) /\ Len(all) = n + 1 /\ DOMAIN all = 1 .. n + 1
      /\ all[n + 1] = c /\ \A i \in 1 .. n : all[i] = pending[i]
  BY <1>3, <1>4
<1>6. c.sequence = sequence /\ c.after = b.position
  OBVIOUS
<1> HIDE DEF c, n, all
<1>7. \A i \in 1 .. n + 1 : i = n + 1 \/ i \in 1 .. n
  BY <1>4
<1>8. Consecutive(all, sequence + 1)
  <2> SUFFICES ASSUME NEW i \in 1 .. n + 1
               PROVE  all[i].sequence = ((sequence + 1) - 1 - Len(all)) + i
    BY <1>5 DEF Consecutive
  <2>1. CASE i = n + 1
    BY <1>0, <1>4, <1>5, <1>6, <2>1
  <2>2. CASE i \in 1 .. n
    <3>1. all[i].sequence = (sequence - 1 - n) + i
      BY <1>4, <1>5, <2>2
    <3> QED BY <1>0, <1>4, <1>5, <2>2, <3>1
  <2> QED BY <1>7, <2>1, <2>2
<1>9. PartOf(pending', all, sequence + 1) /\ Len(pending') <= MaxPendingCommands
  <2>1. CASE Len(all) > MaxPendingCommands
    <3>1. all # << >>
      BY <1>4, <1>5
    <3>2. PartOf(Tail(all), all, sequence + 1)
      BY <1>0, <1>8, <3>1, TailPart
    <3>3. Len(Tail(all)) = n
      BY <1>4, <1>5, <3>1
    <3>4. n <= MaxPendingCommands
      BY <1>0 DEF PendingInv, n
    <3> QED BY <1>2, <2>1, <3>2, <3>3, <3>4
  <2>2. CASE ~(Len(all) > MaxPendingCommands)
    <3>1. PartOf(all, all, sequence + 1)
      BY <1>4, <1>5, <1>8 DEF PartOf
    <3>2. Len(all) <= MaxPendingCommands
      BY <1>0, <1>4, <1>5, <2>2
    <3> QED BY <1>2, <2>2, <3>1, <3>2
  <2> QED BY <2>1, <2>2
<1>10. /\ travelled \in Seq(Int) /\ Len(travelled) = sequence + 1
       /\ travelled[sequence + 1] \in Int
  <2>1. sequence \in 0 .. sequence
    BY <1>0
  <2> QED BY <1>0, <2>1, TravelFacts DEF ClientTypes
<1>11. last \in Int
  BY <1>1, <1>10
<1>12. last - travelled[sequence + 1] = b.position - position
  BY <1>1, <1>10
<1> HIDE DEF last
<1>13. /\ travelled' \in Seq(Int) /\ Len(travelled') = (sequence + 1) + 1
       /\ travelled'[(sequence + 1) + 1] = last
       /\ \A k \in 1 .. sequence + 1 : travelled'[k] = travelled[k]
  <2>1. Len(travelled) \in Nat
    BY <1>0, <1>10
  <2> QED BY <1>2, <1>10, <1>11, <2>1
<1>14. ASSUME NEW k \in 0 .. sequence, NEW x \in Int, position - x = Since(travelled, sequence, k)
       PROVE  b.position - x = Since(travelled', sequence', k)
  <2>1. k + 1 \in 1 .. sequence + 1 /\ travelled[k + 1] \in Int
    BY <1>0, TravelFacts
  <2>2. Since(travelled', sequence', k) = last - travelled[k + 1]
    BY <1>2, <1>13, <2>1 DEF Since
  <2>3. position - x = travelled[sequence + 1] - travelled[k + 1]
    BY <1>14 DEF Since
  <2>4. last - travelled[k + 1] = b.position - x
    <3>1. /\ travelled[sequence + 1] \in Int /\ travelled[k + 1] \in Int /\ last \in Int
          /\ b.position \in Int /\ position \in Int
      BY <1>1, <1>10, <1>11, <2>1
    <3>2. last - travelled[sequence + 1] = b.position - position
          /\ position - x = travelled[sequence + 1] - travelled[k + 1]
      BY <1>12, <2>3
    <3> QED BY <3>1, <3>2, Shifted
  <2> QED BY <2>2, <2>4
<1>15. ClientTypes'
  <2>1. sequence' \in 0 .. MaxCommands
    BY <1>0, <1>2
  <2>2. confirmed'.sequence \in -1 .. sequence' - 1 /\ confirmed'.position \in Int
    BY <1>0, <1>2 DEF ClientTypes
  <2>3. position' \in Int /\ prevPosition' \in Int /\ error' \in Int /\ speed' \in Int
        /\ lastAcked' \in 0 .. commandAck'
    BY <1>0, <1>1, <1>2 DEF ClientTypes
  <2>4. travelled' \in Seq(Int) /\ Len(travelled') = sequence' + 1
    BY <1>2, <1>13
  <2> QED BY <2>1, <2>2, <2>3, <2>4 DEF ClientTypes
<1>16. PendingInv'
  <2>1. \A i \in 1 .. n + 1 : all[i].sequence >= lastAcked
    <3> SUFFICES ASSUME NEW i \in 1 .. n + 1 PROVE all[i].sequence >= lastAcked
      OBVIOUS
    <3>1. CASE i = n + 1
      <4>1. lastAcked \in 0 .. commandAck
        BY <1>0 DEF ClientTypes
      <4>2. lastAcked <= sequence
        BY <1>0, <4>1
      <4> QED BY <1>5, <1>6, <3>1, <4>2
    <3>2. CASE i \in 1 .. n
      BY <1>0, <1>4, <1>5, <3>2 DEF PendingInv
    <3> QED BY <1>7, <3>1, <3>2
  <2>2. \A i \in DOMAIN pending' : pending'[i].sequence >= lastAcked
    BY <1>5, <1>9, <2>1 DEF PartOf
  <2>3. Consecutive(pending', sequence')
    BY <1>2, <1>9 DEF PartOf
  <2> QED BY <1>2, <1>9, <2>2, <2>3 DEF PendingInv
<1>17. RememberedInv'
  <2>1. ASSUME NEW i \in DOMAIN pending'
        PROVE  position' - pending'[i].after = Since(travelled', sequence', pending'[i].sequence + 1)
    <3>1. PICK j \in 1 .. n + 1 : pending'[i] = all[j]
      BY <1>5, <1>9 DEF PartOf
    <3>2. CASE j = n + 1
      <4>1. pending'[i].sequence = sequence /\ pending'[i].after = b.position
        BY <1>5, <1>6, <3>1, <3>2
      <4>2. Since(travelled', sequence', sequence + 1) = last - last
        BY <1>2, <1>13 DEF Since
      <4> QED BY <1>1, <1>2, <1>11, <4>1, <4>2
    <3>3. CASE j \in 1 .. n
      <4>1. pending'[i] = pending[j] /\ pending[j].sequence + 1 \in 0 .. sequence /\ pending[j].after \in Int
        BY <1>0, <1>4, <1>5, <3>1, <3>3
      <4>2. position - pending[j].after = Since(travelled, sequence, pending[j].sequence + 1)
        BY <1>0, <1>4, <3>3 DEF RememberedInv
      <4>3. b.position - pending[j].after = Since(travelled', sequence', pending[j].sequence + 1)
        BY <1>14, <4>1, <4>2
      <4> QED BY <1>2, <4>1, <4>3
    <3> QED BY <1>7, <3>2, <3>3
  <2>2. position' - confirmed'.position = Since(travelled', sequence', confirmed'.sequence + 1)
    <3>1. confirmed.position \in Int /\ confirmed.sequence + 1 \in 0 .. sequence
      BY <1>0 DEF ClientTypes
    <3>2. position - confirmed.position = Since(travelled, sequence, confirmed.sequence + 1)
      BY <1>0 DEF RememberedInv
    <3>3. b.position - confirmed.position = Since(travelled', sequence', confirmed.sequence + 1)
      BY <1>14, <3>1, <3>2
    <3> QED BY <1>2, <3>3
  <2> QED BY <2>1, <2>2 DEF RememberedInv
<1> QED BY <1>15, <1>16, <1>17 DEF ClientInv

\* SnapshotInv: a snapshot corrects, or at least forgets, or is too old.
LEMMA SnapshotInv ==
  ASSUME PredictionInv, NEW d \in snaps, HandleSnapshot(d)
  PROVE  ClientInv'
<1>0. /\ ClientInv /\ ServerInv /\ Consecutive(pending, sequence) /\ sequence \in Int
      /\ d.commandAck \in 0 .. commandAck /\ d.player \subseteq Int /\ commandAck \in Nat
  <2>1. ClientInv /\ ServerInv
    BY DEF PredictionInv
  <2>2. Consecutive(pending, sequence) /\ sequence \in Int
    BY <2>1, PredictionAssumption DEF ClientInv, PendingInv, ClientTypes
  <2>3. d.commandAck \in 0 .. commandAck /\ d.player \subseteq Int /\ commandAck \in Nat
    <3>1. commandAck \in 0 .. sequence
      BY <2>1 DEF ServerInv
    <3>2. \A e \in snaps : e.commandAck \in 0 .. commandAck /\ e.player \subseteq Int
      BY <2>1 DEF ServerInv
    <3>3. commandAck \in Nat
      BY <2>2, <3>1
    <3> QED BY <3>2, <3>3
  <2> QED BY <2>1, <2>2, <2>3
<1>1. UNCHANGED <<sequence, travelled, commandAck>>
  BY DEF HandleSnapshot, serverVars
<1>2. CASE d.player = {}
  <2>1. UNCHANGED <<position, prevPosition, error, speed, pending, lastAcked, confirmed>>
    BY <1>2 DEF HandleSnapshot, predictionVars
  <2>2. ClientTypes' /\ PendingInv' /\ RememberedInv'
    BY <1>0, <1>1, <2>1 DEF ClientInv, ClientTypes, PendingInv, RememberedInv
  <2> QED BY <2>2 DEF ClientInv
<1>3. CASE d.player # {}
  <2> DEFINE ack == d.commandAck
             rest == Unacknowledged(ack)
  <2>1. PICK p \in d.player : Reconcile(p, ack)
    BY <1>3 DEF HandleSnapshot
  <2>2. PartOf(rest, pending, sequence) /\ \A i \in DOMAIN rest : rest[i].sequence >= ack
    <3>1. ack \in Nat
      BY <1>0
    <3> HIDE DEF ack
    <3> QED BY <1>0, <3>1, RetainPart
  <2>3. ack \in 0 .. commandAck /\ p \in Int
    BY <1>0
  <2>4. CASE CanCompare(ack)
    <3>1. rest # << >> /\ Head(rest).sequence = ack
      BY <2>4 DEF CanCompare
    <3>2. /\ Correct(p - Head(rest).after, Tail(rest))
          /\ lastAcked' = ack /\ confirmed' = [sequence |-> ack, position |-> p] /\ speed' = speed
      BY <2>1, <2>4 DEF Reconcile
    <3> HIDE DEF rest, ack
    <3> QED BY <1>0, <1>1, <2>2, <2>3, <3>1, <3>2, CorrectInv
  <2>5. CASE ~CanCompare(ack)
    <3>1. /\ pending' = IF ack > lastAcked THEN rest ELSE pending
          /\ lastAcked' = IF ack > lastAcked THEN ack ELSE lastAcked
          /\ UNCHANGED <<position, prevPosition, error, speed, confirmed>>
      BY <2>1, <2>5 DEF Reconcile
    <3> HIDE DEF rest, ack
    <3>2. CASE ack > lastAcked
      <4>1. pending' = rest /\ lastAcked' = ack
        BY <3>1, <3>2
      <4> QED BY <1>0, <1>1, <2>2, <2>3, <3>1, <4>1, ShorterInv
    <3>3. CASE ~(ack > lastAcked)
      <4>1. pending' = pending /\ lastAcked' = lastAcked
        BY <3>1, <3>3
      <4>2. ClientTypes' /\ PendingInv' /\ RememberedInv'
        BY <1>0, <1>1, <3>1, <4>1 DEF ClientInv, ClientTypes, PendingInv, RememberedInv
      <4> QED BY <4>2 DEF ClientInv
    <3> QED BY <3>2, <3>3
  <2> QED BY <2>4, <2>5
<1> QED BY <1>2, <1>3
-----------------------------------------------------------------------------
(* The server and the network.                                             *)

\* SameClient: who leaves the client alone and acknowledges no less.
LEMMA SameClient ==
  ASSUME ClientInv, UNCHANGED <<predictionVars, sequence, travelled, confirmed>>,
         commandAck \in Nat, commandAck' \in Nat, commandAck <= commandAck'
  PROVE  ClientInv'
<1>1. ClientTypes'
  <2>1. lastAcked' \in 0 .. commandAck'
    BY DEF ClientInv, ClientTypes, predictionVars
  <2> QED BY <2>1 DEF ClientInv, ClientTypes, predictionVars
<1>2. PendingInv' /\ RememberedInv'
  BY DEF ClientInv, PendingInv, RememberedInv, predictionVars
<1> QED BY <1>1, <1>2 DEF ClientInv

\* AckFacts: the acknowledgement of a tick is the latest of what was applied.
LEMMA AckFacts ==
  ASSUME ServerInv, sequence \in Nat, NEW seqs, seqs = {c.sequence : c \in Range(queue)}
  PROVE  /\ AckAfter(commandAck, queue) \in 0 .. sequence
         /\ commandAck <= AckAfter(commandAck, queue)
         /\ AckAfter(commandAck, queue) = Max({0} \cup Range(applied) \cup seqs)
<1> DEFINE S == {commandAck} \cup seqs
           A == {0} \cup Range(applied)
           m == Max(S)
<1>1. seqs \subseteq Nat /\ \A x \in seqs : x < sequence
  <2> SUFFICES ASSUME NEW c \in Range(queue) PROVE c.sequence \in Nat /\ c.sequence < sequence
    OBVIOUS
  <2>1. PICK i \in DOMAIN queue : c = queue[i]
    BY DEF Range
  <2>2. queue[i] \in Command /\ queue[i].sequence < sequence
    BY DEF ServerInv
  <2> QED BY <2>1, <2>2 DEF Command
<1>2. commandAck \in 0 .. sequence
  BY DEF ServerInv
<1>3. S \in SUBSET Nat /\ S # {} /\ \A x \in S : x <= sequence
  BY <1>1, <1>2
<1> HIDE DEF S
<1>4. m \in S /\ \A y \in S : m >= y
  BY <1>3, MaxOfBounded
<1>5. A \in SUBSET Nat /\ A # {} /\ \A x \in A : x <= sequence
  <2>1. \A i \in DOMAIN applied : applied[i] \in Nat /\ applied[i] < sequence
    BY DEF ServerInv
  <2> QED BY <2>1 DEF Range
<1>6. commandAck = Max(A)
  BY DEF ServerInv
<1> HIDE DEF A, m
<1>7. commandAck \in A /\ \A y \in A : commandAck >= y
  BY <1>5, <1>6, MaxOfBounded
<1>8. commandAck \in S /\ m \in Nat /\ m <= sequence /\ commandAck <= m
  BY <1>3, <1>4 DEF S
<1>9. m \in A \cup seqs /\ A \cup seqs \in SUBSET Int
  <2>1. m = commandAck \/ m \in seqs
    BY <1>4 DEF S
  <2>2. \A x \in A \cup seqs : x \in Int
    BY <1>1, <1>5
  <2> QED BY <1>7, <2>1, <2>2
<1>10. \A y \in A \cup seqs : m >= y
  <2>1. ASSUME NEW y \in A PROVE m >= y
    <3>1. commandAck >= y /\ y \in Nat /\ commandAck \in Nat
      BY <1>2, <1>5, <1>7
    <3> QED BY <1>8, <3>1
  <2>2. \A y \in seqs : m >= y
    BY <1>4 DEF S
  <2> QED BY <2>1, <2>2
<1>11. Max(A \cup seqs) = m
  BY <1>9, <1>10, MaxUnique
<1>12. AckAfter(commandAck, queue) = m
  BY DEF AckAfter, m, S
<1> QED BY <1>8, <1>11, <1>12 DEF A

\* TickInv: a tick applies what is queued.
LEMMA TickInv ==
  ASSUME PredictionInv, Tick
  PROVE  PredictionInv'
<1> DEFINE moved == Moved(player, queue)
           ack == AckAfter(commandAck, queue)
           seqs == {c.sequence : c \in Range(queue)}
           sent == [i \in DOMAIN queue |-> queue[i].sequence]
<1>0. ClientInv /\ ServerInv /\ sequence \in Nat
  BY PredictionAssumption DEF PredictionInv, ClientInv, ClientTypes
<1>1. moved \in Body
  BY <1>0, MovedFacts DEF ServerInv
<1>2. ack \in 0 .. sequence /\ commandAck <= ack /\ ack = Max({0} \cup Range(applied) \cup seqs)
  BY <1>0, AckFacts
<1>3. /\ player' = moved /\ queue' = << >> /\ commandAck' = ack /\ tick' = tick + 1
      /\ past' = Append(past, moved)
      /\ snaps' = snaps \cup {[tick |-> tick + 1, commandAck |-> ack, player |-> PlayerIn(past')]}
      /\ applied' = applied \o sent
      /\ UNCHANGED <<predictionVars, sequence, travelled, confirmed>>
      /\ UNCHANGED <<ackedTick, commands, acks>>
  BY DEF Tick
<1> HIDE DEF moved, ack, seqs, sent
<1>4. commandAck \in 0 .. sequence
  BY <1>0 DEF ServerInv
<1>5. ClientInv'
  BY <1>0, <1>2, <1>3, <1>4, SameClient
<1>6. /\ tick \in Nat /\ ackedTick \in 0 .. tick /\ past \in Seq(Body) /\ Len(past) = tick
      /\ applied \in Seq(Nat) /\ queue \in Seq(Command) /\ acks \subseteq 1 .. tick
  BY <1>0 DEF ServerInv
<1>7. past' \in Seq(Body) /\ Len(past') = tick + 1 /\ past'[tick + 1] = moved
  BY <1>1, <1>3, <1>6
<1>8. PlayerIn(past') \subseteq Int
  <2>1. Body \subseteq [position : Int, speed : Int]
    BY PredictionAssumption DEF Body
  <2>2. moved.position \in Int
    BY <1>1, <2>1
  <2> QED BY <1>7, <2>2 DEF PlayerIn
<1>9. /\ \A i \in DOMAIN queue : queue[i].sequence \in Nat /\ queue[i].sequence < sequence
      /\ Len(queue) \in Nat /\ DOMAIN queue = 1 .. Len(queue)
  <2>1. \A i \in DOMAIN queue : queue[i] \in Command
    BY <1>6
  <2>2. \A i \in DOMAIN queue : queue[i].sequence < sequence
    BY <1>0 DEF ServerInv
  <2> QED BY <1>6, <2>1, <2>2 DEF Command
<1>10. sent \in Seq(Nat) /\ DOMAIN sent = DOMAIN queue /\ \A i \in DOMAIN queue : sent[i] = queue[i].sequence
  BY <1>9 DEF sent
<1>11. Range(sent) = seqs /\ Len(sent) \in Nat /\ DOMAIN sent = 1 .. Len(sent)
  BY <1>10 DEF Range, seqs
<1>12. /\ applied' \in Seq(Nat) /\ Len(applied') = Len(applied) + Len(sent)
       /\ Len(applied) \in Nat /\ DOMAIN applied = 1 .. Len(applied)
       /\ DOMAIN applied' = 1 .. Len(applied) + Len(sent)
       /\ \A i \in 1 .. Len(applied) : applied'[i] = applied[i]
       /\ \A i \in 1 .. Len(sent) : applied'[Len(applied) + i] = sent[i]
  BY <1>3, <1>6, <1>10
<1>13. Range(applied') = Range(applied) \cup Range(sent)
  <2>1. \A i \in DOMAIN applied' : i \in 1 .. Len(applied) \/ (i - Len(applied) \in 1 .. Len(sent)
                                                               /\ i = Len(applied) + (i - Len(applied)))
    BY <1>11, <1>12
  <2>2. \A i \in 1 .. Len(applied) : i \in DOMAIN applied'
    BY <1>11, <1>12
  <2>3. \A i \in 1 .. Len(sent) : Len(applied) + i \in DOMAIN applied'
    BY <1>11, <1>12
  <2>4. \A i \in DOMAIN applied' : applied'[i] \in Range(applied) \cup Range(sent)
    <3> SUFFICES ASSUME NEW i \in DOMAIN applied' PROVE applied'[i] \in Range(applied) \cup Range(sent)
      OBVIOUS
    <3>1. CASE i \in 1 .. Len(applied)
      BY <1>12, <3>1 DEF Range
    <3>2. CASE i - Len(applied) \in 1 .. Len(sent) /\ i = Len(applied) + (i - Len(applied))
      <4>1. applied'[Len(applied) + (i - Len(applied))] = sent[i - Len(applied)]
        BY <1>12, <3>2
      <4> QED BY <1>11, <3>2, <4>1 DEF Range
    <3> QED BY <2>1, <3>1, <3>2
  <2>5. \A i \in DOMAIN applied : applied[i] \in Range(applied')
    BY <1>12, <2>2 DEF Range
  <2>6. \A i \in DOMAIN sent : sent[i] \in Range(applied')
    BY <1>11, <1>12, <2>3 DEF Range
  <2> QED BY <2>4, <2>5, <2>6 DEF Range
<1>14. commandAck' = Max({0} \cup Range(applied'))
  <2>1. {0} \cup Range(applied') = {0} \cup Range(applied) \cup seqs
    BY <1>11, <1>13
  <2> QED BY <1>2, <1>3, <2>1
<1>15. \A i \in DOMAIN applied' : applied'[i] < sequence
  <2>1. \A x \in Range(applied) : x < sequence
    BY <1>0 DEF ServerInv, Range
  <2>2. \A x \in seqs : x < sequence
    <3> SUFFICES ASSUME NEW c \in Range(queue) PROVE c.sequence < sequence
      BY DEF seqs
    <3> QED BY <1>9 DEF Range
  <2>3. \A i \in DOMAIN applied' : applied'[i] \in Range(applied')
    BY DEF Range
  <2> QED BY <1>11, <1>13, <2>1, <2>2, <2>3
<1>16. \A d \in snaps' : d.tick \in 1 .. tick' /\ d.commandAck \in 0 .. commandAck' /\ d.player \subseteq Int
  <2> SUFFICES ASSUME NEW d \in snaps'
               PROVE  d.tick \in 1 .. tick + 1 /\ d.commandAck \in 0 .. ack /\ d.player \subseteq Int
    BY <1>3
  <2>1. CASE d \in snaps
    <3>1. d.tick \in 1 .. tick /\ d.commandAck \in 0 .. commandAck /\ d.player \subseteq Int
      BY <1>0, <2>1 DEF ServerInv
    <3> QED BY <1>2, <1>4, <1>6, <3>1
  <2>2. CASE d = [tick |-> tick + 1, commandAck |-> ack, player |-> PlayerIn(past')]
    BY <1>2, <1>6, <1>8, <2>2
  <2> QED BY <1>3, <2>1, <2>2
<1>17. /\ tick' \in Nat /\ ackedTick' \in 0 .. tick' /\ acks' \subseteq 1 .. tick'
       /\ past' \in Seq(Body) /\ Len(past') = tick'
  BY <1>3, <1>6, <1>7
<1>18. /\ player' \in Body /\ queue' \in Seq(Command) /\ (\A i \in DOMAIN queue' : FALSE)
       /\ commandAck' \in 0 .. sequence'
       /\ commands' \subseteq Command /\ \A c \in commands' : c.sequence < sequence'
  BY <1>0, <1>1, <1>2, <1>3 DEF ServerInv
<1>19. ServerInv'
  BY <1>3, <1>12, <1>14, <1>15, <1>16, <1>17, <1>18 DEF ServerInv
<1> QED BY <1>5, <1>19 DEF PredictionInv

\* PredictionInitInv: nothing was issued, and nobody moved.
LEMMA PredictionInitInv == Init => PredictionInv
<1> SUFFICES ASSUME Init PROVE PredictionInv
  OBVIOUS
<1>0. /\ Lo \in Int /\ Hi \in Int /\ Lo <= 0 /\ 0 <= Hi /\ MaxCommands \in Nat
      /\ MaxPendingCommands \in Nat \ {0}
  BY PredictionAssumption
<1>1. /\ << >> \in Seq(Remembered) /\ << >> \in Seq(Command) /\ << >> \in Seq(Body) /\ << >> \in Seq(Nat)
      /\ Len(<< >>) = 0 /\ DOMAIN << >> = {}
      /\ <<0>> \in Seq(Int) /\ Len(<<0>>) = 1 /\ <<0>>[1] = 0
  OBVIOUS
<1>2. ClientTypes
  BY <1>0, <1>1 DEF Init, ClientTypes
<1>3. PendingInv
  BY <1>0, <1>1 DEF Init, PendingInv, Consecutive
<1>4. RememberedInv
  <2>1. /\ pending = << >> /\ position = 0 /\ sequence = 0 /\ travelled = <<0>>
        /\ confirmed.position = 0 /\ confirmed.sequence = -1
    BY DEF Init
  <2>2. Since(travelled, sequence, confirmed.sequence + 1) = 0
    <3>1. sequence + 1 = 1 /\ (confirmed.sequence + 1) + 1 = 1
      BY <2>1
    <3> QED BY <1>1, <2>1, <3>1 DEF Since
  <2> QED BY <1>1, <2>1, <2>2 DEF RememberedInv
<1>5. ServerInv
  <2>1. player \in Body
    BY <1>0 DEF Init, Body
  <2>2. commandAck = Max({0} \cup Range(applied))
    <3>1. Range(applied) = {}
      BY <1>1 DEF Init, Range
    <3>2. Max({0}) = 0
      BY MaxUnique
    <3> QED BY <3>1, <3>2 DEF Init
  <2> QED BY <1>1, <2>1, <2>2 DEF Init, ServerInv
<1> QED BY <1>2, <1>3, <1>4, <1>5 DEF PredictionInv, ClientInv

\* SmoothStep: a step of SmoothCorrection
SmoothStep ==
  \A d \in snaps : HandleSnapshot(d) /\ Distance(position' - position) <= SnapThreshold =>
    /\ position' + error' = position + error
    /\ prevPosition' + error' = prevPosition + error

\* PredictionStep: every step of the player.
LEMMA PredictionStep ==
  ASSUME PredictionInv, [Next]_vars
  PROVE  PredictionInv'
<1>0. ClientInv /\ ServerInv /\ sequence \in Nat /\ commandAck \in 0 .. sequence
  <2>1. ClientInv /\ ServerInv
    BY DEF PredictionInv
  <2>2. sequence \in Nat
    BY <2>1, PredictionAssumption DEF ClientInv, ClientTypes
  <2>3. commandAck \in 0 .. sequence
    BY <2>1 DEF ServerInv
  <2> QED BY <2>1, <2>2, <2>3
<1>1. ASSUME NEW wish \in Speeds, ClientStep(wish) PROVE PredictionInv'
  <2>1. ClientInv'
    BY <1>0, <1>1, ClientStepInv
  <2>2. /\ sequence' = sequence + 1 /\ UNCHANGED <<serverVars, snaps, acks>>
        /\ commands' = commands \cup {[sequence |-> sequence, wish |-> wish]}
    BY <1>1 DEF ClientStep
  <2>3. commands' \subseteq Command /\ \A c \in commands' : c.sequence < sequence'
    BY <1>0, <2>2 DEF ServerInv, Command
  <2>4. /\ \A i \in DOMAIN queue : queue[i].sequence < sequence'
        /\ \A i \in DOMAIN applied : applied[i] < sequence'
    <3>1. \A i \in DOMAIN queue : queue[i].sequence \in Int /\ queue[i].sequence < sequence
      <4>1. \A i \in DOMAIN queue : queue[i] \in Command /\ queue[i].sequence < sequence
        BY <1>0 DEF ServerInv
      <4> QED BY <4>1 DEF Command
    <3>2. \A i \in DOMAIN applied : applied[i] \in Nat /\ applied[i] < sequence
      BY <1>0 DEF ServerInv
    <3> QED BY <1>0, <2>2, <3>1, <3>2
  <2>5. commandAck' \in 0 .. sequence'
    BY <1>0, <2>2 DEF serverVars
  <2>6. ServerInv'
    BY <1>0, <2>2, <2>3, <2>4, <2>5 DEF ServerInv, serverVars
  <2> QED BY <2>1, <2>6 DEF PredictionInv
<1>2. CASE DecayError
  <2>1. error' \in Int /\ UNCHANGED <<position, prevPosition, speed, pending, lastAcked, sequence, serverVars,
                                      commands, snaps, acks, travelled, confirmed>>
    <3>1. error \in Int
      BY <1>0 DEF ClientInv, ClientTypes
    <3> QED BY <1>2, <3>1 DEF DecayError
  <2>2. ClientInv'
    BY <1>0, <2>1 DEF ClientInv, ClientTypes, PendingInv, RememberedInv, serverVars
  <2>3. ServerInv'
    BY <1>0, <2>1 DEF ServerInv, serverVars
  <2> QED BY <2>2, <2>3 DEF PredictionInv
<1>3. ASSUME NEW d \in snaps, HandleSnapshot(d) PROVE PredictionInv'
  <2>1. ClientInv'
    BY <1>3, SnapshotInv
  <2>2. /\ snaps' = snaps \ {d} /\ acks' = acks \cup {d.tick}
        /\ UNCHANGED <<sequence, serverVars, commands>>
    BY <1>3 DEF HandleSnapshot
  <2>3. acks' \subseteq 1 .. tick
    BY <1>0, <2>2 DEF ServerInv
  <2>4. ServerInv'
    BY <1>0, <2>2, <2>3 DEF ServerInv, serverVars
  <2> QED BY <2>1, <2>4 DEF PredictionInv
<1>4. ASSUME NEW c \in commands, HandleClientCommand(c) PROVE PredictionInv'
  <2>1. /\ commands' = commands \ {c} /\ queue' = Append(queue, c)
        /\ UNCHANGED <<predictionVars, sequence, travelled, confirmed>>
        /\ UNCHANGED <<player, commandAck, tick, ackedTick, snaps, acks, past, applied>>
    BY <1>4 DEF HandleClientCommand
  <2>2. ClientInv'
    BY <1>0, <2>1, SameClient
  <2>3. queue' \in Seq(Command) /\ \A i \in DOMAIN queue' : queue'[i].sequence < sequence
    <3>1. queue \in Seq(Command) /\ c \in Command /\ c.sequence < sequence
          /\ \A i \in DOMAIN queue : queue[i].sequence < sequence
      BY <1>0 DEF ServerInv
    <3> QED BY <2>1, <3>1
  <2>4. ServerInv'
    BY <1>0, <2>1, <2>3 DEF ServerInv
  <2> QED BY <2>2, <2>4 DEF PredictionInv
<1>5. ASSUME NEW t \in acks, HandleSnapshotAck(t) PROVE PredictionInv'
  <2>1. /\ acks' = acks \ {t} /\ ackedTick' = Max({t, ackedTick})
        /\ UNCHANGED <<predictionVars, sequence, travelled, confirmed>>
        /\ UNCHANGED <<player, queue, commandAck, tick, commands, snaps, past, applied>>
    BY <1>5 DEF HandleSnapshotAck
  <2>2. ClientInv'
    BY <1>0, <2>1, SameClient
  <2>3. ackedTick' \in 0 .. tick
    <3>1. t \in 1 .. tick /\ ackedTick \in 0 .. tick /\ tick \in Nat
      BY <1>0 DEF ServerInv
    <3>2. ackedTick' = IF t >= ackedTick THEN t ELSE ackedTick
      BY <2>1, <3>1, MinMaxOfTwo
    <3> QED BY <3>1, <3>2
  <2>4. ServerInv'
    BY <1>0, <2>1, <2>3 DEF ServerInv
  <2> QED BY <2>2, <2>4 DEF PredictionInv
<1>6. CASE Tick
  BY <1>6, TickInv
<1>7. CASE UNCHANGED vars
  <2>1. UNCHANGED <<predictionVars, sequence, travelled, confirmed>> /\ UNCHANGED <<serverVars, commands, snaps, acks>>
    BY <1>7 DEF vars
  <2>2. ClientInv'
    BY <1>0, <2>1, SameClient DEF serverVars
  <2>3. ServerInv'
    BY <1>0, <2>1 DEF ServerInv, serverVars
  <2> QED BY <2>2, <2>3 DEF PredictionInv
<1> QED BY <1>1, <1>2, <1>3, <1>4, <1>5, <1>6, <1>7 DEF Next
-----------------------------------------------------------------------------
\* PredictionAlways: the invariant holds in every reachable state.
THEOREM PredictionAlways == Spec => []PredictionInv
<1>1. Init => PredictionInv
  BY PredictionInitInv
<1>2. PredictionInv /\ [Next]_vars => PredictionInv'
  BY PredictionStep
<1> QED BY <1>1, <1>2, PTL DEF Spec

\* ExactAlways: the pending commands are the last ones, none older than what is
\* acknowledged, and wherever and however late corrections come, the player is
\* where the server last put it plus what was predicted for the commands since
\* (store_command, reconcile, process_commands).
THEOREM ExactAlways == Spec => []PredictionIsExact
<1>1. ASSUME PredictionInv PROVE PredictionIsExact
  <2>0. ClientTypes /\ PendingInv /\ RememberedInv /\ ServerInv
    BY <1>1 DEF PredictionInv, ClientInv
  <2>1. TypeOK
    <3>1. \A i \in DOMAIN pending :
            /\ pending[i].sequence = sequence - 1 - Len(pending) + i
            /\ pending[i].sequence >= lastAcked
            /\ pending[i].wish \in Speeds
      <4>1. sequence \in Int /\ Consecutive(pending, sequence)
        BY <2>0, PredictionAssumption DEF ClientTypes, PendingInv
      <4> QED BY <2>0, <4>1, ConsecutiveFacts DEF PendingInv
    <3>2. player.position \in Lo .. Hi
      BY <2>0 DEF ServerInv, Body
    <3> QED BY <2>0, <3>1, <3>2 DEF ClientTypes, PendingInv, ServerInv, TypeOK
  <2>2. ReconcileIsExact
    <3>1. /\ position \in Int /\ confirmed.position \in Int
          /\ confirmed.sequence + 1 \in 0 .. sequence
          /\ (confirmed.sequence + 1) + 1 = confirmed.sequence + 2
      BY <2>0, PredictionAssumption DEF ClientTypes
    <3>2. Since(travelled, sequence, confirmed.sequence + 1) \in Int
      BY <2>0, <3>1, TravelFacts
    <3>3. position - confirmed.position = Since(travelled, sequence, confirmed.sequence + 1)
      BY <2>0 DEF RememberedInv
    <3>4. Since(travelled, sequence, confirmed.sequence + 1)
          = travelled[sequence + 1] - travelled[confirmed.sequence + 2]
      BY <3>1 DEF Since
    <3>5. position = confirmed.position + Since(travelled, sequence, confirmed.sequence + 1)
      BY <3>1, <3>2, <3>3
    <3> QED BY <3>4, <3>5 DEF ReconcileIsExact
  <2> QED BY <2>1, <2>2 DEF PredictionIsExact
<1> QED BY <1>1, PredictionAlways, PTL

\* SmoothAlways: a correction within SnapThreshold moves neither end of what is
\* drawn (reconcile, its position_error).
THEOREM SmoothAlways == Spec => SmoothCorrection
<1>1. ASSUME PredictionInv, [Next]_vars PROVE [SmoothStep]_vars
  <2> SUFFICES ASSUME NEW d \in snaps, HandleSnapshot(d), Distance(position' - position) <= SnapThreshold
               PROVE  /\ position' + error' = position + error
                      /\ prevPosition' + error' = prevPosition + error
    BY DEF SmoothStep
  <2>0. position \in Int /\ prevPosition \in Int /\ error \in Int
    BY <1>1 DEF PredictionInv, ClientInv, ClientTypes
  <2>1. CASE d.player = {}
    BY <2>1 DEF HandleSnapshot, predictionVars
  <2>2. CASE d.player # {}
    <3> DEFINE ack == d.commandAck
               rest == Unacknowledged(ack)
    <3>1. PICK p \in d.player : Reconcile(p, ack)
      BY <2>2 DEF HandleSnapshot
    <3>2. CASE ~CanCompare(ack)
      BY <3>1, <3>2 DEF Reconcile
    <3>3. CASE CanCompare(ack)
      <4> DEFINE diff == p - Head(rest).after
      <4>1. rest # << >> /\ Correct(diff, Tail(rest))
        BY <3>1, <3>3 DEF Reconcile, CanCompare
      <4>2. diff \in Int
        <5>1. /\ Consecutive(pending, sequence) /\ sequence \in Int /\ ack \in Nat /\ p \in Int
          <6>1. Consecutive(pending, sequence) /\ sequence \in Int
            BY <1>1, PredictionAssumption DEF PredictionInv, ClientInv, PendingInv, ClientTypes
          <6>2. ServerInv
            BY <1>1 DEF PredictionInv
          <6>3. d.commandAck \in 0 .. commandAck /\ d.player \subseteq Int
            BY <6>2 DEF ServerInv
          <6> QED BY <6>1, <6>3
        <5> HIDE DEF ack
        <5>2. PartOf(rest, pending, sequence)
          BY <5>1, RetainPart
        <5> HIDE DEF rest
        <5>3. Consecutive(rest, sequence)
          BY <5>2 DEF PartOf
        <5>4. rest \in Seq(Remembered)
          BY <5>3 DEF Consecutive
        <5>5. Head(rest) \in Remembered
          BY <4>1, <5>4
        <5> QED BY <5>1, <5>5 DEF Remembered
      <4> HIDE DEF diff
      <4>3. /\ position' = position + diff /\ prevPosition' = prevPosition + diff
            /\ error' = IF diff = 0 THEN error
                        ELSE IF Distance(diff) > SnapThreshold THEN 0 ELSE error - diff
        BY <4>1 DEF Correct
      <4>4. position' - position = diff
        BY <2>0, <4>2, <4>3
      <4>5. Distance(diff) <= SnapThreshold /\ Distance(diff) \in Int /\ SnapThreshold \in Int
        BY <4>2, <4>4, PredictionAssumption DEF Distance
      <4>6. error' = error - diff
        BY <2>0, <4>2, <4>3, <4>5
      <4> QED BY <2>0, <4>2, <4>3, <4>6
    <3> QED BY <3>2, <3>3
  <2> QED BY <2>1, <2>2
<1>2. Spec => [][SmoothStep]_vars
  BY <1>1, PredictionAlways, PTL DEF Spec
<1> QED BY <1>2 DEF SmoothCorrection, SmoothStep
=============================================================================

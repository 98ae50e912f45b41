------------------------- MODULE ReliabilityProofs -------------------------
(***************************************************************************)
(* Proofs about Reliability, for every value of its constants.             *)
(*                                                                         *)
(* First the operators of Connection and the types of the variables        *)
(* (TypeCorrect).  Then the ordered channel: it is correct for all sizes   *)
(* for which no ordered message strays half a sequence space from the one  *)
(* expected (HalfWindow), however often the sequences wrap.  The inductive *)
(* invariant is OrderedInv: TypeOK, SequencesTrackMessages, OrderedInOrder *)
(* and BufferAhead.  The step that matters is OrderedStep, about           *)
(* process_packet on the ordered channel; OrderedRefinement then maps      *)
(* every step to a step of OrderedChannel or to none.                      *)
(*                                                                         *)
(* Then AtMostOnce, when the histories suffice (HistoriesSuffice).  The    *)
(* invariant OnceInv says that one sequence of the reliable channel names  *)
(* one message, that received_reliable_history has the sequence of every   *)
(* message delivered, and that a datagram whose unreliable message was     *)
(* delivered is in recent_sequences or too old to arrive.  The last is     *)
(* kept by counting (Crowded): what record_received drops was followed by  *)
(* MaxRecent sequences that are different and none of which is MaxAge      *)
(* older, so that one of them is MaxAge newer.                             *)
(*                                                                         *)
(* Last PendingCanSettle: a pending message is Followed by a transmission  *)
(* that the AckTracker waits for or evicted (FollowedAlways), and what it  *)
(* evicts is older than MaxPending datagrams (Aged).                       *)
(***************************************************************************)
EXTENDS Reliability, Facts, SequenceTheorems
-----------------------------------------------------------------------------
(* Facts about Min and about the operators of Connection.                  *)

\* FiniteSetsExt!Min of a non-empty set of naturals is its least element.
LEMMA MinIsLeast ==
  ASSUME NEW T, T \subseteq Nat, T # {}
  PROVE  Min(T) \in T /\ \A y \in T : Min(T) <= y
BY LeastNatural DEF Min

\* track_packet keeps the tracker's type and capacity.
LEMMA TrackPacketType ==
  ASSUME NEW track \in Seq(TrackerEntry), Len(track) <= MaxPending, NEW s \in Nat
  PROVE  /\ TrackPacket(track, s) \in Seq(TrackerEntry)
         /\ Len(TrackPacket(track, s)) <= MaxPending
<1> DEFINE kept == IF Len(track) >= MaxPending THEN Tail(track) ELSE track
<1>1. MaxPending \in Nat \ {0}
  BY SizesAssumption
<1>2. kept \in Seq(TrackerEntry) /\ Len(kept) + 1 <= MaxPending
  <2>1. CASE Len(track) >= MaxPending
    <3>1. track # << >>
      BY <1>1, <2>1
    <3>2. QED BY <1>1, <2>1, <3>1, HeadTailProperties
  <2>2. CASE ~(Len(track) >= MaxPending)
    BY <1>1, <2>2
  <2>3. QED BY <2>1, <2>2
<1>3. [seq |-> s, acked |-> FALSE] \in TrackerEntry
  BY DEF TrackerEntry
<1> HIDE DEF kept
<1>4. QED
  BY <1>1, <1>2, <1>3 DEF TrackPacket, kept

\* process_ack keeps the tracker's type and does not lengthen it.
LEMMA ProcessAckType ==
  ASSUME NEW track \in Seq(TrackerEntry), NEW ack, NEW bits
  PROVE  /\ ProcessAck(track, ack, bits) \in Seq(TrackerEntry)
         /\ Len(ProcessAck(track, ack, bits)) <= Len(track)
<1> DEFINE E == TrackerEntry
           marked == [i \in DOMAIN track |->
                       [track[i] EXCEPT !.acked = @ \/ Acknowledges(ack, bits, track[i].seq)]]
           T == {i \in DOMAIN track : ~marked[i].acked} \cup {Len(track) + 1}
<1>1. Len(track) \in Nat /\ DOMAIN track = 1 .. Len(track)
  OBVIOUS
<1>2. marked \in Seq(E) /\ Len(marked) = Len(track)
  <2>1. ASSUME NEW i \in 1 .. Len(track) PROVE marked[i] \in E
    <3>1. track[i] \in E
      BY ElementOfSeq
    <3>2. (track[i].acked \/ Acknowledges(ack, bits, track[i].seq)) \in BOOLEAN
      OBVIOUS
    <3>3. QED BY <1>1, <3>1, <3>2 DEF TrackerEntry
  <2> HIDE DEF E
  <2>2. marked \in [1 .. Len(track) -> E]
    BY <1>1, <2>1
  <2>3. QED BY <1>1, <2>2
<1> HIDE DEF marked, E
<1>3. T \subseteq 1 .. Len(track) + 1 /\ T \subseteq Nat /\ T # {}
  <2>1. T \subseteq 1 .. Len(track) + 1 /\ Len(track) + 1 \in T
    BY <1>1
  <2>2. QED BY <1>1, <2>1
<1> HIDE DEF T
<1>4. Min(T) \in 1 .. Len(track) + 1
  <2>1. Min(T) \in T
    BY <1>3, MinIsLeast
  <2>2. QED BY <1>3, <2>1
<1>5. /\ SubSeq(marked, Min(T), Len(track)) \in Seq(E)
      /\ Len(SubSeq(marked, Min(T), Len(track))) <= Len(track)
  <2>1. Min(T) \in Int /\ Len(track) \in Int /\ Len(marked) \in Nat
    BY <1>1, <1>2, <1>4
  <2>2. \A i \in Min(T) .. Len(track) : i \in 1 .. Len(marked)
    BY <1>1, <1>2, <1>4
  <2>3. \A i \in Min(T) .. Len(track) : marked[i] \in E
    BY <1>2, <2>2, ElementOfSeq
  <2>4. QED BY <1>1, <1>2, <1>4, <2>1, <2>2, <2>3, SubSeqProperties
<1>6. ProcessAck(track, ack, bits) = SubSeq(marked, Min(T), Len(track))
  BY DEF ProcessAck, marked, T
<1>7. QED BY <1>5, <1>6 DEF E

\* record_received keeps the receive tracker's type and capacity.
LEMMA RecordReceivedType ==
  ASSUME NEW rt \in TrackerState,
         Len(rt.recent) <= MaxRecent, NEW s \in Nat
  PROVE  /\ RecordReceived(rt, s) \in TrackerState
         /\ Len(RecordReceived(rt, s).recent) <= MaxRecent
<1> DEFINE kept == IF Len(rt.recent) >= MaxRecent THEN Tail(rt.recent) ELSE rt.recent
           res  == RecordReceived(rt, s)
<1>1. MaxRecent \in Nat \ {0} /\ AckBits \in Nat \ {0} /\ rt.recent \in Seq(Nat) /\ rt.last \in Nat
  BY SizesAssumption DEF TrackerState
<1>2. kept \in Seq(Nat) /\ Len(kept) + 1 <= MaxRecent
  <2>1. CASE Len(rt.recent) >= MaxRecent
    <3>1. rt.recent # << >>
      BY <1>1, <2>1
    <3>2. QED BY <1>1, <2>1, <3>1, HeadTailProperties
  <2>2. CASE ~(Len(rt.recent) >= MaxRecent)
    BY <1>1, <2>2
  <2>3. QED BY <2>1, <2>2
<1>3. Append(kept, s) \in Seq(Nat) /\ Len(Append(kept, s)) <= MaxRecent
  BY <1>1, <1>2
<1>4. res.bits \in SUBSET (1 .. AckBits)
  <2>1. \A d : ShiftIn(rt.bits, d) \in SUBSET (1 .. AckBits)
    BY <1>1 DEF ShiftIn
  <2>2. rt.bits \in SUBSET (1 .. AckBits)
    BY DEF TrackerState
  <2>3. QED BY <2>1, <2>2, <1>1 DEF RecordReceived
<1>5. res.last \in Nat /\ res.recent = Append(kept, s)
  BY <1>1 DEF RecordReceived
<1>6. res = [last |-> res.last, bits |-> res.bits, recent |-> res.recent]
  BY DEF RecordReceived
<1> HIDE DEF res, kept
<1>7. QED
  <2>1. res \in TrackerState
    BY <1>3, <1>4, <1>5, <1>6 DEF TrackerState
  <2>2. QED BY <1>3, <1>5, <2>1 DEF res

\* What send_packet leaves: the next wire sequence, and for a reliable or
\* ordered message the next channel sequence and a pending entry.
LEMMA SendPacketFacts ==
  ASSUME NEW c \in ConnectionState, NEW ch \in Channels, NEW msg \in Nat,
         Len(c.track) <= MaxPending, c.sendSeq + 1 < WireMod
  PROVE  LET d == SendPacket(c, ch, msg) IN
         /\ d \in ConnectionState
         /\ d.sendSeq = c.sendSeq + 1
         /\ Len(d.track) <= MaxPending
         /\ d.recv = c.recv /\ d.history = c.history
         /\ d.expected = c.expected /\ d.buffer = c.buffer
         /\ \A x \in {Reliable, Ordered} : d.nextSeq[x] =
              IF x = ch THEN WrapAdd(c.nextSeq[x], 1, ChanMod) ELSE c.nextSeq[x]
         /\ \A m \in d.pending :
              \/ m \in c.pending
              \/ ch # Unreliable /\ m.ch = ch /\ m.cseq = c.nextSeq[ch] /\ m.msg = msg
<1> DEFINE d == SendPacket(c, ch, msg)
           trk == TrackPacket(c.track, c.sendSeq)
           key == [wire |-> c.sendSeq, ch |-> ch, cseq |-> c.nextSeq[ch]]
           ent == [ch |-> ch, cseq |-> c.nextSeq[ch], msg |-> msg]
<1>1. /\ WrapAdd(c.sendSeq, 1, WireMod) = c.sendSeq + 1
      /\ c.sendSeq \in Nat
      /\ WireMod \in Nat /\ ChanMod \in Nat \ {0}
  BY SizesAssumption DEF ConnectionState, WrapAdd
<1>2. /\ TrackPacket(c.track, c.sendSeq) \in Seq(TrackerEntry)
      /\ Len(TrackPacket(c.track, c.sendSeq)) <= MaxPending
  BY TrackPacketType DEF ConnectionState
<1>3. CASE ch = Unreliable
  <2>1. d = [c EXCEPT !.sendSeq = c.sendSeq + 1, !.track = TrackPacket(c.track, c.sendSeq)]
    BY <1>1, <1>3 DEF SendPacket
  <2>2. c.nextSeq = [x \in {Reliable, Ordered} |->
              IF x = ch THEN WrapAdd(c.nextSeq[x], 1, ChanMod) ELSE c.nextSeq[x]]
    <3>1. Unreliable \notin {Reliable, Ordered}
      BY DEF Unreliable, Reliable, Ordered
    <3>2. c.nextSeq \in ChannelSeqs
      BY DEF ConnectionState
    <3>3. QED BY <1>3, <3>1, <3>2 DEF ChannelSeqs
  <2> HIDE DEF d, trk
  <2>3. c.sendSeq + 1 \in Nat /\ trk \in Seq(TrackerEntry)
    BY <1>1, <1>2 DEF trk
  <2>4. d = [c EXCEPT !.sendSeq = c.sendSeq + 1, !.track = trk]
    BY <2>1 DEF trk
  <2>5. d \in ConnectionState
    BY <2>3, <2>4 DEF ConnectionState
  <2>6. /\ d.sendSeq = c.sendSeq + 1 /\ d.track = trk
        /\ d.recv = c.recv /\ d.history = c.history
        /\ d.expected = c.expected /\ d.buffer = c.buffer
        /\ d.nextSeq = c.nextSeq /\ d.pending = c.pending
    BY <2>4 DEF ConnectionState
  <2>7. QED BY <1>2, <1>3, <2>2, <2>5, <2>6 DEF d, trk
<1>4. CASE ch # Unreliable
  <2>1. ch \in {Reliable, Ordered}
    BY <1>4 DEF Channels
  <2>2. /\ c.nextSeq \in ChannelSeqs
        /\ c.nextSeq[ch] \in ChanSeq /\ WrapAdd(c.nextSeq[ch], 1, ChanMod) \in ChanSeq
    BY <1>1, <2>1 DEF ConnectionState, ChannelSeqs, ChanSeq, WrapAdd
  <2>3. key \in InflightEntry
    BY <1>1, <2>1, <2>2 DEF InflightEntry
  <2>4. InsertPending(c.pending, ent) \subseteq c.pending \cup {ent} /\ ent \in PendingEntry
    BY <2>1, <2>2 DEF InsertPending, PendingEntry
  <2>5. d = [c EXCEPT !.sendSeq  = c.sendSeq + 1,
                      !.track    = TrackPacket(c.track, c.sendSeq),
                      !.nextSeq  = [c.nextSeq EXCEPT ![ch] = WrapAdd(c.nextSeq[ch], 1, ChanMod)],
                      !.pending  = InsertPending(c.pending, ent),
                      !.inflight = c.inflight \cup {key}]
    BY <1>1, <1>4 DEF SendPacket, ConnectionState
  <2> DEFINE seqs == [c.nextSeq EXCEPT ![ch] = WrapAdd(c.nextSeq[ch], 1, ChanMod)]
             pend == InsertPending(c.pending, ent)
             infl == c.inflight \cup {key}
  <2>6. /\ seqs \in ChannelSeqs
        /\ seqs = [x \in {Reliable, Ordered} |->
              IF x = ch THEN WrapAdd(c.nextSeq[x], 1, ChanMod) ELSE c.nextSeq[x]]
    BY <2>1, <2>2 DEF ChannelSeqs
  <2>7. pend \in SUBSET PendingEntry /\ infl \in SUBSET InflightEntry
    BY <2>3, <2>4 DEF ConnectionState
  <2> HIDE DEF seqs, pend, infl, trk, d
  <2>8. c.sendSeq + 1 \in Nat /\ trk \in Seq(TrackerEntry)
    BY <1>1, <1>2 DEF trk
  <2>9. d = [c EXCEPT !.sendSeq = c.sendSeq + 1, !.track = trk, !.nextSeq = seqs,
                      !.pending = pend, !.inflight = infl]
    BY <2>5 DEF seqs, pend, infl, trk
  <2>10. d \in ConnectionState
    BY <2>6, <2>7, <2>8, <2>9 DEF ConnectionState
  <2>11. /\ d.sendSeq = c.sendSeq + 1 /\ d.track = trk
         /\ d.recv = c.recv /\ d.history = c.history
         /\ d.expected = c.expected /\ d.buffer = c.buffer
         /\ d.nextSeq = seqs /\ d.pending = pend
    BY <2>9 DEF ConnectionState
  <2>12. QED BY <1>2, <1>4, <2>4, <2>6, <2>10, <2>11 DEF d, ent, pend, trk
<1>5. QED BY <1>3, <1>4

\* What collect_resends leaves: only send_sequence and inflight_packets change.
LEMMA CollectResendsFacts ==
  ASSUME NEW c \in ConnectionState, NEW due \in Seq(c.pending), c.sendSeq + Len(due) < WireMod
  PROVE  LET d == CollectResends(c, due) IN
         /\ d \in ConnectionState
         /\ d.sendSeq = c.sendSeq + Len(due)
         /\ d.track = c.track /\ d.recv = c.recv /\ d.history = c.history
         /\ d.expected = c.expected /\ d.buffer = c.buffer
         /\ d.nextSeq = c.nextSeq /\ d.pending = c.pending
<1> DEFINE d    == CollectResends(c, due)
           entry(i) == [wire |-> WrapAdd(c.sendSeq, i - 1, WireMod),
                        ch |-> due[i].ch, cseq |-> due[i].cseq]
           infl == c.inflight \cup {entry(i) : i \in DOMAIN due}
           nseq == c.sendSeq + Len(due)
<1>1. /\ c.sendSeq \in Nat /\ Len(due) \in Nat /\ WireMod \in Nat
      /\ WrapAdd(c.sendSeq, Len(due), WireMod) = nseq /\ nseq \in Nat
  BY SizesAssumption DEF ConnectionState, WrapAdd
<1>2. ASSUME NEW i \in DOMAIN due PROVE entry(i) \in InflightEntry
  <2>1. due[i] \in c.pending /\ i \in 1 .. Len(due)
    BY ElementOfSeq
  <2>2. due[i] \in PendingEntry
    BY <2>1 DEF ConnectionState
  <2>3. WrapAdd(c.sendSeq, i - 1, WireMod) \in Nat
    BY <1>1, <2>1 DEF WrapAdd
  <2>4. QED BY <2>2, <2>3 DEF InflightEntry, PendingEntry
<1>3. infl \in SUBSET InflightEntry
  BY <1>2 DEF ConnectionState
<1>4. d = [c EXCEPT !.sendSeq = nseq, !.inflight = infl]
  BY <1>1 DEF CollectResends
<1> HIDE DEF d, infl, nseq
<1>5. d \in ConnectionState
  BY <1>1, <1>3, <1>4 DEF ConnectionState
<1>6. /\ d.sendSeq = nseq
      /\ d.track = c.track /\ d.recv = c.recv /\ d.history = c.history
      /\ d.expected = c.expected /\ d.buffer = c.buffer
      /\ d.nextSeq = c.nextSeq /\ d.pending = c.pending
  BY <1>4 DEF ConnectionState
<1>7. QED BY <1>5, <1>6 DEF d, nseq

\* What acknowledgements do: they only remove entries of the maps.
LEMMA HandleAcksFacts ==
  ASSUME NEW c \in ConnectionState, NEW p
  PROVE  LET d == HandleAcks(c, p) IN
         /\ d \in ConnectionState
         /\ Len(d.track) <= Len(c.track)
         /\ d.sendSeq = c.sendSeq /\ d.recv = c.recv /\ d.history = c.history
         /\ d.expected = c.expected /\ d.buffer = c.buffer
         /\ d.nextSeq = c.nextSeq /\ d.pending \subseteq c.pending
<1> DEFINE d       == HandleAcks(c, p)
           acked   == NewlyAcked(c.track, p.ack, p.bits)
           settled == {e \in c.inflight : e.wire \in acked}
           trk     == ProcessAck(c.track, p.ack, p.bits)
           infl    == c.inflight \ settled
           pend    == {m \in c.pending : \A e \in settled : <<e.ch, e.cseq>> # <<m.ch, m.cseq>>}
<1>1. trk \in Seq(TrackerEntry) /\ Len(trk) <= Len(c.track)
  BY ProcessAckType DEF ConnectionState
<1>2. infl \in SUBSET InflightEntry /\ pend \in SUBSET PendingEntry /\ pend \subseteq c.pending
  BY DEF ConnectionState
<1>3. d = [c EXCEPT !.track = trk, !.inflight = infl, !.pending = pend]
  BY DEF HandleAcks
<1> HIDE DEF d, trk, infl, pend
<1>4. d \in ConnectionState
  BY <1>1, <1>2, <1>3 DEF ConnectionState
<1>5. /\ d.sendSeq = c.sendSeq /\ d.recv = c.recv /\ d.history = c.history
      /\ d.expected = c.expected /\ d.buffer = c.buffer
      /\ d.nextSeq = c.nextSeq /\ d.pending = pend /\ d.track = trk
  BY <1>3 DEF ConnectionState
<1>6. QED BY <1>1, <1>2, <1>4, <1>5 DEF d

\* Receiving: the acknowledgements first, then record_received.
LEMMA RecordedFacts ==
  ASSUME NEW c \in ConnectionState, NEW p, p.seq \in Nat, Len(c.recv.recent) <= MaxRecent
  PROVE  LET s == HandleAcks(c, p)
             d == [s EXCEPT !.recv = RecordReceived(s.recv, p.seq)] IN
         /\ d \in ConnectionState
         /\ Len(d.track) <= Len(c.track) /\ Len(d.recv.recent) <= MaxRecent
         /\ d.sendSeq = c.sendSeq /\ d.history = c.history
         /\ d.expected = c.expected /\ d.buffer = c.buffer
         /\ d.nextSeq = c.nextSeq /\ d.pending \subseteq c.pending
<1> DEFINE s  == HandleAcks(c, p)
           rr == RecordReceived(s.recv, p.seq)
           d  == [s EXCEPT !.recv = rr]
<1>1. /\ s \in ConnectionState
      /\ Len(s.track) <= Len(c.track)
      /\ s.sendSeq = c.sendSeq /\ s.recv = c.recv /\ s.history = c.history
      /\ s.expected = c.expected /\ s.buffer = c.buffer
      /\ s.nextSeq = c.nextSeq /\ s.pending \subseteq c.pending
  BY HandleAcksFacts
<1> HIDE DEF s
<1>2. s.recv \in TrackerState
  BY <1>1 DEF ConnectionState
<1>3. rr \in TrackerState /\ Len(rr.recent) <= MaxRecent
  BY <1>1, <1>2, RecordReceivedType
<1> HIDE DEF rr
<1>4. d \in ConnectionState
  BY <1>1, <1>3 DEF ConnectionState
<1>5. /\ d.recv = rr /\ d.track = s.track /\ d.sendSeq = s.sendSeq /\ d.history = s.history
      /\ d.expected = s.expected /\ d.buffer = s.buffer
      /\ d.nextSeq = s.nextSeq /\ d.pending = s.pending
  BY <1>1 DEF ConnectionState
<1> HIDE DEF d
<1>6. /\ d \in ConnectionState
      /\ Len(d.track) <= Len(c.track) /\ Len(d.recv.recent) <= MaxRecent
      /\ d.sendSeq = c.sendSeq /\ d.history = c.history
      /\ d.expected = c.expected /\ d.buffer = c.buffer
      /\ d.nextSeq = c.nextSeq /\ d.pending \subseteq c.pending
  BY <1>1, <1>3, <1>4, <1>5
<1>7. QED BY <1>6 DEF d, rr, s

\* The reliable channel appends a new channel sequence to the history, or
\* changes nothing.
LEMMA AcceptReliableFacts ==
  ASSUME NEW c \in ConnectionState, NEW p, p.cseq \in ChanSeq, Len(c.history) <= HistorySize
  PROVE  LET d == AcceptReliable(c, p) IN
         /\ d \in ConnectionState
         /\ Len(d.history) <= HistorySize
         /\ d.sendSeq = c.sendSeq /\ d.recv = c.recv /\ d.track = c.track
         /\ d.expected = c.expected /\ d.buffer = c.buffer
         /\ d.nextSeq = c.nextSeq /\ d.pending = c.pending
         /\ InHistory(c, p) => d.history = c.history
         /\ ~InHistory(c, p) /\ Len(c.history) < HistorySize => d.history = Append(c.history, p.cseq)
<1> DEFINE d    == AcceptReliable(c, p)
           kept == IF Len(c.history) >= HistorySize THEN Tail(c.history) ELSE c.history
           hist == Append(kept, p.cseq)
<1>1. c.history \in Seq(ChanSeq) /\ HistorySize \in Nat \ {0}
  BY SizesAssumption DEF ConnectionState
<1>2. kept \in Seq(ChanSeq) /\ Len(kept) + 1 <= HistorySize
  <2>1. CASE Len(c.history) >= HistorySize
    <3>1. c.history # << >>
      BY <1>1, <2>1
    <3>2. QED BY <1>1, <2>1, <3>1, HeadTailProperties
  <2>2. CASE ~(Len(c.history) >= HistorySize)
    BY <1>1, <2>2
  <2>3. QED BY <2>1, <2>2
<1>3. Len(c.history) < HistorySize => kept = c.history
  BY <1>1
<1> HIDE DEF kept
<1>4. hist \in Seq(ChanSeq) /\ Len(hist) <= HistorySize
  BY <1>1, <1>2
<1>5. CASE InHistory(c, p)
  <2>1. d = c
    BY <1>5 DEF AcceptReliable
  <2>2. QED BY <1>5, <2>1
<1>6. CASE ~InHistory(c, p)
  <2>1. d = [c EXCEPT !.history = hist]
    BY <1>6 DEF AcceptReliable, kept
  <2>2. Len(c.history) < HistorySize => hist = Append(c.history, p.cseq)
    BY <1>3
  <2> HIDE DEF hist, d
  <2>3. d \in ConnectionState /\ d.history = hist
    BY <1>4, <2>1 DEF ConnectionState
  <2>4. /\ d.sendSeq = c.sendSeq /\ d.recv = c.recv /\ d.track = c.track
        /\ d.expected = c.expected /\ d.buffer = c.buffer
        /\ d.nextSeq = c.nextSeq /\ d.pending = c.pending
    BY <2>1 DEF ConnectionState
  <2>5. QED BY <1>4, <1>6, <2>2, <2>3, <2>4 DEF d
<1>7. QED BY <1>5, <1>6

\* The drained run: every sequence of it is buffered, and nothing is at its end.
LEMMA RunLengthFacts ==
  ASSUME NEW buffer, NEW next
  PROVE  LET run == RunLength(buffer, next) IN
         /\ run \in 0 .. ChanMod
         /\ \A k \in 0 .. run - 1 : Buffered(buffer, WrapAdd(next, k, ChanMod))
         /\ \A k \in 0 .. ChanMod : ~Buffered(buffer, WrapAdd(next, k, ChanMod)) => run <= k
         /\ run < ChanMod => ~Buffered(buffer, WrapAdd(next, run, ChanMod))
<1> DEFINE P(k) == k = ChanMod \/ ~Buffered(buffer, WrapAdd(next, k, ChanMod))
           T    == {k \in 0 .. ChanMod : P(k)}
<1>1. ChanMod \in Nat
  BY SizesAssumption
<1>2. T \subseteq Nat /\ T # {}
  <2>1. ChanMod \in T
    BY <1>1
  <2>2. QED BY <2>1
<1>3. Min(T) \in T /\ \A y \in T : Min(T) <= y
  BY <1>2, MinIsLeast
<1>4. RunLength(buffer, next) = Min(T)
  BY DEF RunLength
<1>5. Min(T) \in 0 .. ChanMod /\ P(Min(T))
  BY <1>3
<1>6. ASSUME NEW k \in 0 .. Min(T) - 1 PROVE Buffered(buffer, WrapAdd(next, k, ChanMod))
  <2>1. k \in 0 .. ChanMod /\ ~(Min(T) <= k)
    BY <1>1, <1>5
  <2>2. k \notin T
    BY <1>3, <2>1
  <2>3. QED BY <2>1, <2>2
<1>7. ASSUME NEW k \in 0 .. ChanMod, ~Buffered(buffer, WrapAdd(next, k, ChanMod)) PROVE Min(T) <= k
  <2>1. k \in T
    BY <1>7
  <2>2. QED BY <1>3, <2>1
<1>8. Min(T) < ChanMod => ~Buffered(buffer, WrapAdd(next, Min(T), ChanMod))
  BY <1>1, <1>5
<1> HIDE DEF T
<1>9. QED BY <1>4, <1>5, <1>6, <1>7, <1>8

\* The ordered channel keeps the connection's type and touches only
\* next_expected_ordered and ordered_buffer.
LEMMA AcceptOrderedFacts ==
  ASSUME NEW c \in ConnectionState, NEW p, p.cseq \in ChanSeq, p.msg \in Nat
  PROVE  LET d == AcceptOrdered(c, p) IN
         /\ d \in ConnectionState
         /\ d.sendSeq = c.sendSeq /\ d.recv = c.recv /\ d.track = c.track
         /\ d.history = c.history /\ d.nextSeq = c.nextSeq /\ d.pending = c.pending
         /\ \A e \in d.buffer : e \in c.buffer \/ e = [cseq |-> p.cseq, msg |-> p.msg]
         /\ p.cseq # c.expected => d.expected = c.expected
         /\ p.cseq = c.expected =>
              d.expected = LET next == WrapAdd(c.expected, 1, ChanMod)
                           IN  WrapAdd(next, RunLength(c.buffer, next), ChanMod)
<1> DEFINE d    == AcceptOrdered(c, p)
           next == WrapAdd(c.expected, 1, ChanMod)
           run  == RunLength(c.buffer, next)
           used == {WrapAdd(next, k, ChanMod) : k \in 0 .. run - 1}
           exp  == WrapAdd(next, run, ChanMod)
           left == {e \in c.buffer : e.cseq \notin used}
           ent  == [cseq |-> p.cseq, msg |-> p.msg]
           more == {e \in c.buffer : e.cseq # p.cseq} \cup {ent}
<1>1. ChanMod \in Nat \ {0} /\ c.expected \in 0 .. ChanMod - 1 /\ c.buffer \in SUBSET BufferEntry
  BY SizesAssumption DEF ConnectionState, ChanSeq
<1>2. next \in 0 .. ChanMod - 1
  BY <1>1 DEF WrapAdd
<1>3. run \in 0 .. ChanMod
  BY RunLengthFacts
<1>4. exp \in ChanSeq
  <2> HIDE DEF next, run
  <2>1. QED BY <1>1, <1>2, <1>3 DEF WrapAdd, ChanSeq
<1>5. ent \in BufferEntry
  BY DEF BufferEntry
<1>6. left \in SUBSET BufferEntry /\ more \in SUBSET BufferEntry
  BY <1>1, <1>5
<1>7. CASE p.cseq = c.expected
  <2>1. d = [c EXCEPT !.expected = exp, !.buffer = left]
    BY <1>7 DEF AcceptOrdered
  <2>2. \A e \in left : e \in c.buffer
    OBVIOUS
  <2> HIDE DEF exp, left, d
  <2>3. d \in ConnectionState
    BY <1>4, <1>6, <2>1 DEF ConnectionState
  <2>4. /\ d.sendSeq = c.sendSeq /\ d.recv = c.recv /\ d.track = c.track
        /\ d.history = c.history /\ d.nextSeq = c.nextSeq /\ d.pending = c.pending
        /\ d.buffer = left /\ d.expected = exp
    BY <2>1 DEF ConnectionState
  <2>5. QED BY <1>7, <2>2, <2>3, <2>4 DEF d, exp
<1>8. CASE p.cseq # c.expected /\ SeqGreater(p.cseq, c.expected, ChanMod)
  <2>1. d = [c EXCEPT !.buffer = more]
    BY <1>8 DEF AcceptOrdered
  <2>2. \A e \in more : e \in c.buffer \/ e = ent
    OBVIOUS
  <2> HIDE DEF more, d
  <2>3. d \in ConnectionState
    BY <1>6, <2>1 DEF ConnectionState
  <2>4. /\ d.sendSeq = c.sendSeq /\ d.recv = c.recv /\ d.track = c.track
        /\ d.history = c.history /\ d.nextSeq = c.nextSeq /\ d.pending = c.pending
        /\ d.buffer = more /\ d.expected = c.expected
    BY <2>1 DEF ConnectionState
  <2>5. QED BY <1>8, <2>2, <2>3, <2>4 DEF d, ent
<1>9. CASE p.cseq # c.expected /\ ~SeqGreater(p.cseq, c.expected, ChanMod)
  <2>1. d = c
    BY <1>9 DEF AcceptOrdered
  <2>2. QED BY <1>9, <2>1
<1>10. QED BY <1>7, <1>8, <1>9

\* What the ordered channel returns is a sequence of messages.
LEMMA OrderedResultType ==
  ASSUME NEW c \in ConnectionState, NEW p, p.msg \in Nat
  PROVE  OrderedResult(c, p) \in Seq(Nat)
<1> DEFINE next == WrapAdd(c.expected, 1, ChanMod)
           run  == RunLength(c.buffer, next)
           m(k) == (CHOOSE e \in c.buffer : e.cseq = WrapAdd(next, k - 1, ChanMod)).msg
           tail == [k \in 1 .. run |-> m(k)]
<1>1. run \in Nat /\ \A k \in 0 .. run - 1 : Buffered(c.buffer, WrapAdd(next, k, ChanMod))
  BY RunLengthFacts, SizesAssumption
<1>2. ASSUME NEW k \in 1 .. run PROVE m(k) \in Nat
  <2>1. k - 1 \in 0 .. run - 1
    BY <1>1
  <2>2. Buffered(c.buffer, WrapAdd(next, k - 1, ChanMod))
    BY <1>1, <2>1
  <2>3. (CHOOSE e \in c.buffer : e.cseq = WrapAdd(next, k - 1, ChanMod)) \in c.buffer
    BY <2>2 DEF Buffered
  <2>4. QED BY <2>3 DEF ConnectionState, BufferEntry
<1> HIDE DEF m, run
<1>3. tail \in Seq(Nat)
  <2>1. tail \in [1 .. run -> Nat]
    BY <1>2
  <2>2. QED BY <1>1, <2>1
<1>4. <<p.msg>> \in Seq(Nat)
  OBVIOUS
<1>5. <<p.msg>> \o tail \in Seq(Nat)
  BY <1>3, <1>4, ConcatProperties
<1>6. OrderedResult(c, p) = <<p.msg>> \o tail \/ OrderedResult(c, p) = << >>
  BY DEF OrderedResult, m, run
<1> HIDE DEF tail
<1>7. << >> \in Seq(Nat)
  OBVIOUS
<1>8. QED BY <1>5, <1>6, <1>7

\* process_packet as a whole keeps the connection's type and capacities.
LEMMA ProcessPacketFacts ==
  ASSUME NEW c \in ConnectionState, NEW p \in Datagram,
         Len(c.recv.recent) <= MaxRecent, Len(c.history) <= HistorySize
  PROVE  LET d == ProcessPacket(c, p) IN
         /\ d \in ConnectionState
         /\ Len(d.track) <= Len(c.track)
         /\ Len(d.recv.recent) <= MaxRecent /\ Len(d.history) <= HistorySize
         /\ d.sendSeq = c.sendSeq /\ d.nextSeq = c.nextSeq /\ d.pending \subseteq c.pending
         /\ Result(c, p) \in Seq(Nat)
<1> DEFINE s == HandleAcks(c, p)
           r == [s EXCEPT !.recv = RecordReceived(s.recv, p.seq)]
           d == ProcessPacket(c, p)
<1>1. /\ p.seq \in Nat /\ p.cseq \in ChanSeq /\ p.msg \in Nat
      /\ p.ch \in {Unreliable, Reliable, Ordered}
  BY DEF Datagram, Channels
<1>2. /\ s \in ConnectionState /\ Len(s.track) <= Len(c.track)
      /\ s.sendSeq = c.sendSeq /\ s.recv = c.recv /\ s.history = c.history
      /\ s.nextSeq = c.nextSeq /\ s.pending \subseteq c.pending
  BY HandleAcksFacts
<1>3. /\ r \in ConnectionState /\ Len(r.track) <= Len(c.track)
      /\ Len(r.recv.recent) <= MaxRecent
      /\ r.sendSeq = c.sendSeq /\ r.history = c.history
      /\ r.nextSeq = c.nextSeq /\ r.pending \subseteq c.pending
  BY <1>1, RecordedFacts
<1>4. /\ <<p.msg>> \in Seq(Nat) /\ << >> \in Seq(Nat)
      /\ OrderedResult(c, p) \in Seq(Nat)
  BY <1>1, OrderedResultType
<1>5. /\ Unreliable # Reliable /\ Unreliable # Ordered /\ Reliable # Ordered
  BY DEF Unreliable, Reliable, Ordered
<1> HIDE DEF s, r, d
<1>6. CASE Seen(c.recv, p.seq)
  <2>1. d = s /\ Result(c, p) = << >>
    BY <1>6 DEF ProcessPacket, Result, d, s
  <2>2. QED BY <1>2, <1>4, <2>1 DEF d
<1>7. CASE ~Seen(c.recv, p.seq) /\ p.ch = Unreliable
  <2>1. d = r /\ Result(c, p) = <<p.msg>>
    BY <1>5, <1>7 DEF ProcessPacket, Result, d, s, r
  <2>2. QED BY <1>3, <1>4, <2>1 DEF d
<1>8. CASE ~Seen(c.recv, p.seq) /\ p.ch = Reliable
  <2>1. d = AcceptReliable(r, p) /\ (Result(c, p) = << >> \/ Result(c, p) = <<p.msg>>)
    BY <1>5, <1>8 DEF ProcessPacket, Result, d, s, r
  <2>2. /\ d \in ConnectionState /\ Len(d.history) <= HistorySize
        /\ d.sendSeq = r.sendSeq /\ d.recv = r.recv /\ d.track = r.track
        /\ d.nextSeq = r.nextSeq /\ d.pending = r.pending
    BY <1>1, <1>3, <2>1, AcceptReliableFacts
  <2>3. QED BY <1>3, <1>4, <2>1, <2>2 DEF d
<1>9. CASE ~Seen(c.recv, p.seq) /\ p.ch = Ordered
  <2>1. d = AcceptOrdered(r, p) /\ Result(c, p) = OrderedResult(c, p)
    BY <1>5, <1>9 DEF ProcessPacket, Result, d, s, r
  <2>2. /\ d \in ConnectionState
        /\ d.sendSeq = r.sendSeq /\ d.recv = r.recv /\ d.track = r.track
        /\ d.history = r.history /\ d.nextSeq = r.nextSeq /\ d.pending = r.pending
    BY <1>1, <1>3, <2>1, AcceptOrderedFacts
  <2>3. QED BY <1>3, <1>4, <2>1, <2>2 DEF d
<1>10. QED BY <1>1, <1>6, <1>7, <1>8, <1>9
-----------------------------------------------------------------------------
(* Type correctness.                                                       *)

\* The other end of a connection is a peer, and one's own other end.
LEMMA OtherPeer == \A p \in Peers : Other(p) \in Peers /\ Other(p) # p /\ Other(Other(p)) = p
BY ReliabilityAssumption DEF Peers, Other

\* ClientConnection::new has the right type.
LEMMA NewConnectionType == NewConnection \in ConnectionState
<1>1. 0 \in ChanSeq
  BY SizesAssumption DEF ChanSeq
<1>2. NewConnection.nextSeq \in ChannelSeqs
  BY <1>1 DEF NewConnection, ChannelSeqs
<1>3. NewReceiveTracker \in TrackerState
  BY DEF NewReceiveTracker, TrackerState
<1>4. << >> \in Seq(TrackerEntry) /\ << >> \in Seq(ChanSeq)
  OBVIOUS
<1>5. QED BY <1>1, <1>2, <1>3, <1>4 DEF NewConnection, ConnectionState

\* A datagram built from a connection has the right type.
LEMMA PacketType ==
  ASSUME NEW c \in ConnectionState, NEW wire \in Nat, NEW ch \in Channels,
         NEW cseq \in ChanSeq, NEW msg \in Nat
  PROVE  Packet(c, wire, ch, cseq, msg) \in Datagram
BY DEF Packet, Datagram, ConnectionState, TrackerState

\* The datagram send_packet returns has the right type.
LEMMA SentPacketType ==
  ASSUME NEW c \in ConnectionState, NEW ch \in Channels, NEW msg \in Nat
  PROVE  /\ SentPacket(c, ch, msg) \in Datagram
         /\ SentPacket(c, ch, msg).seq = c.sendSeq
<1> DEFINE cseq == IF ch = Unreliable THEN 0 ELSE c.nextSeq[ch]
<1>1. cseq \in ChanSeq
  <2>1. 0 \in ChanSeq
    BY SizesAssumption DEF ChanSeq
  <2>2. ch # Unreliable => c.nextSeq[ch] \in ChanSeq
    BY DEF ConnectionState, ChannelSeqs, Channels
  <2>3. QED BY <2>1, <2>2
<1>2. c.sendSeq \in Nat
  BY DEF ConnectionState
<1> HIDE DEF cseq
<1>3. Packet(c, c.sendSeq, ch, cseq, msg) \in Datagram
  BY <1>1, <1>2, PacketType
<1>4. QED BY <1>3 DEF SentPacket, Packet, cseq

\* The lists collect_resends works through hold pending messages.
LEMMA DueListsFacts ==
  ASSUME NEW pending, NEW room \in Int, NEW due \in DueLists(pending, room)
  PROVE  due \in Seq(pending) /\ Len(due) <= room
<1>1. PICK n \in 1 .. room : due \in [1 .. n -> pending]
  BY DEF DueLists
<1>2. QED BY <1>1

\* The initial state is well typed: the client has sent its request.
LEMMA InitType == Init => TypeOK
<1> SUFFICES ASSUME Init PROVE TypeOK
  OBVIOUS
<1> DEFINE msg == 1
           c == SendPacket(NewConnection, Unreliable, msg)
           d == SentPacket(NewConnection, Unreliable, msg)
<1>1. /\ MaxWire \in Nat \ {0} /\ WireMod \in Nat /\ MaxWire < WireMod
      /\ MaxPending \in Nat /\ MaxRecent \in Nat /\ HistorySize \in Nat
  BY SizesAssumption, ReliabilityAssumption
<1>2. /\ NewConnection \in ConnectionState
      /\ NewConnection.sendSeq = 0 /\ NewConnection.track = << >>
      /\ NewConnection.recv.recent = << >> /\ NewConnection.history = << >>
      /\ Unreliable \in Channels /\ msg \in Nat
      /\ Len(NewConnection.track) <= MaxPending /\ NewConnection.sendSeq + 1 < WireMod
  <2>1. /\ NewConnection.sendSeq = 0 /\ NewConnection.track = << >>
        /\ NewConnection.recv.recent = << >> /\ NewConnection.history = << >>
    BY DEF NewConnection, NewReceiveTracker
  <2>2. 1 < WireMod /\ Len(<< >>) <= MaxPending
    BY <1>1
  <2>3. QED BY <2>1, <2>2, NewConnectionType DEF Channels
<1> HIDE DEF msg
<1>3. /\ c \in ConnectionState /\ c.sendSeq = 1 /\ Len(c.track) <= MaxPending
      /\ c.recv.recent = << >> /\ c.history = << >>
  BY <1>1, <1>2, SendPacketFacts
<1>4. d \in Datagram /\ d.seq = 0
  BY <1>2, SentPacketType
<1> HIDE DEF c, d
<1>5. /\ conn = [p \in Peers |-> IF p = Client THEN c ELSE NewConnection]
      /\ net = [p \in Peers |-> IF p = Client THEN {d} ELSE {}]
      /\ submitted = [p \in Peers |-> [ch \in Channels |->
                       IF p = Client /\ ch = Unreliable THEN 1 ELSE 0]]
      /\ delivered = [p \in Peers |-> [ch \in Channels |-> << >>]]
      /\ heard = [p \in Peers |-> IF p = Server THEN {0} ELSE {}]
  BY DEF Init, c, d, msg
<1>6. << >> \in Seq(Nat)
  OBVIOUS
<1>7. /\ conn \in [Peers -> ConnectionState]
      /\ net \in [Peers -> SUBSET Datagram]
      /\ submitted \in [Peers -> [Channels -> Nat]]
      /\ delivered \in [Peers -> [Channels -> Seq(Nat)]]
      /\ heard \in [Peers -> SUBSET Nat]
  BY <1>2, <1>3, <1>4, <1>5, <1>6
<1>8. ASSUME NEW p \in Peers
      PROVE  /\ conn[p].sendSeq <= MaxWire
             /\ Len(conn[p].track) <= MaxPending
             /\ Len(conn[p].recv.recent) <= MaxRecent
             /\ Len(conn[p].history) <= HistorySize
             /\ \A e \in net[p] : e.seq < conn[p].sendSeq
  BY <1>1, <1>2, <1>3, <1>4, <1>5
<1>9. QED BY <1>7, <1>8 DEF TypeOK

\* TypeOK is inductive: one lemma per action.
LEMMA SendType ==
  ASSUME TypeOK, NEW p \in Peers, NEW ch \in Channels, Send(p, ch)
  PROVE  TypeOK'
<1> DEFINE msg == submitted[p][ch] + 1
           c == SendPacket(conn[p], ch, msg)
           d == SentPacket(conn[p], ch, msg)
<1>1. /\ conn[p] \in ConnectionState /\ conn[p].sendSeq \in Nat
      /\ conn[p].sendSeq < MaxWire /\ conn[p].sendSeq + 1 < WireMod
      /\ msg \in Nat /\ Len(conn[p].track) <= MaxPending
  BY SizesAssumption, ReliabilityAssumption DEF TypeOK, ConnectionState, Send
<1> HIDE DEF msg
<1>2. /\ c \in ConnectionState /\ c.sendSeq = conn[p].sendSeq + 1
      /\ Len(c.track) <= MaxPending
      /\ c.recv = conn[p].recv /\ c.history = conn[p].history
  BY <1>1, SendPacketFacts
<1>3. d \in Datagram /\ d.seq = conn[p].sendSeq
  BY <1>1, SentPacketType
<1>4. /\ conn' = [conn EXCEPT ![p] = c]
      /\ net' = [net EXCEPT ![p] = @ \cup {d}]
      /\ submitted' = [submitted EXCEPT ![p][ch] = msg]
      /\ UNCHANGED <<delivered, heard>>
  BY DEF Send, msg
<1> HIDE DEF c, d
<1>5. /\ conn' \in [Peers -> ConnectionState]
      /\ net' \in [Peers -> SUBSET Datagram]
      /\ submitted' \in [Peers -> [Channels -> Nat]]
      /\ delivered' \in [Peers -> [Channels -> Seq(Nat)]]
      /\ heard' \in [Peers -> SUBSET Nat]
  BY <1>1, <1>2, <1>3, <1>4 DEF TypeOK
<1>6. ASSUME NEW q \in Peers
      PROVE  /\ conn'[q].sendSeq <= MaxWire
             /\ Len(conn'[q].track) <= MaxPending
             /\ Len(conn'[q].recv.recent) <= MaxRecent
             /\ Len(conn'[q].history) <= HistorySize
             /\ \A e \in net'[q] : e.seq < conn'[q].sendSeq
  <2>1. CASE q = p
    <3>1. conn'[q] = c /\ net'[q] = net[p] \cup {d}
      BY <1>4, <2>1 DEF TypeOK
    <3>2. \A e \in net[p] : e \in Datagram /\ e.seq < conn[p].sendSeq
      BY DEF TypeOK
    <3>3. \A e \in net[p] : e.seq < c.sendSeq
      BY <1>1, <1>2, <3>2 DEF Datagram
    <3>4. c.sendSeq <= MaxWire
      BY <1>1, <1>2, ReliabilityAssumption
    <3>5. QED BY <1>1, <1>2, <1>3, <3>1, <3>3, <3>4 DEF TypeOK
  <2>2. CASE q # p
    BY <1>4, <2>2 DEF TypeOK
  <2>3. QED BY <2>1, <2>2
<1>7. QED BY <1>5, <1>6 DEF TypeOK

\* collect_resends keeps TypeOK: every resent datagram has a new wire sequence.
LEMMA ResendType ==
  ASSUME TypeOK, NEW p \in Peers, Resend(p)
  PROVE  TypeOK'
<1>1. conn[p] \in ConnectionState /\ conn[p].sendSeq \in Nat /\ MaxWire \in Nat
  BY ReliabilityAssumption DEF TypeOK, ConnectionState
<1>2. PICK due \in DueLists(conn[p].pending, MaxWire - conn[p].sendSeq) :
        /\ conn' = [conn EXCEPT ![p] = CollectResends(@, due)]
        /\ net' = [net EXCEPT ![p] = @ \cup ResentPackets(conn[p], due)]
        /\ UNCHANGED <<submitted, delivered, heard>>
  BY DEF Resend
<1> DEFINE c == CollectResends(conn[p], due)
           D == ResentPackets(conn[p], due)
<1>3. /\ due \in Seq(conn[p].pending) /\ Len(due) \in Nat
      /\ conn[p].sendSeq + Len(due) <= MaxWire /\ conn[p].sendSeq + Len(due) < WireMod
  BY <1>1, DueListsFacts, SizesAssumption, ReliabilityAssumption
<1>4. /\ c \in ConnectionState /\ c.sendSeq = conn[p].sendSeq + Len(due)
      /\ c.track = conn[p].track /\ c.recv = conn[p].recv /\ c.history = conn[p].history
  BY <1>1, <1>3, CollectResendsFacts
<1>5. ASSUME NEW e \in D PROVE e \in Datagram /\ e.seq < c.sendSeq
  <2>1. PICK i \in DOMAIN due :
          e = Packet(conn[p], WrapAdd(conn[p].sendSeq, i - 1, WireMod), due[i].ch, due[i].cseq, due[i].msg)
    BY DEF ResentPackets
  <2>2. i \in 1 .. Len(due) /\ due[i] \in conn[p].pending
    BY <1>3, <2>1, ElementOfSeq
  <2>3. due[i] \in PendingEntry
    BY <1>1, <2>2 DEF ConnectionState
  <2>4. due[i].ch \in Channels /\ due[i].cseq \in ChanSeq /\ due[i].msg \in Nat
    BY <2>3 DEF PendingEntry, Channels
  <2>5. WrapAdd(conn[p].sendSeq, i - 1, WireMod) = conn[p].sendSeq + (i - 1)
    <3> DEFINE first == conn[p].sendSeq
               count == Len(due)
    <3>1. first \in Nat /\ count \in Nat /\ first + count < WireMod /\ i \in 1 .. count
      BY <1>1, <1>3, <2>2
    <3>2. WireMod \in Nat
      BY SizesAssumption
    <3> HIDE DEF first, count
    <3>3. first + (i - 1) < WireMod
      BY <3>1, <3>2
    <3>4. WrapAdd(first, i - 1, WireMod) = first + (i - 1)
      BY <3>1, <3>2, <3>3 DEF WrapAdd
    <3>5. QED BY <3>4 DEF first
  <2>6. conn[p].sendSeq + (i - 1) \in Nat /\ conn[p].sendSeq + (i - 1) < c.sendSeq
    BY <1>1, <1>3, <1>4, <2>2
  <2>7. e \in Datagram
    BY <1>1, <2>1, <2>4, <2>5, <2>6, PacketType
  <2>8. e.seq = conn[p].sendSeq + (i - 1)
    BY <2>1, <2>5 DEF Packet
  <2>9. QED BY <2>6, <2>7, <2>8
<1>6. /\ conn' = [conn EXCEPT ![p] = c]
      /\ net' = [net EXCEPT ![p] = @ \cup D]
  BY <1>2
<1> HIDE DEF c, D
<1>7. /\ conn' \in [Peers -> ConnectionState]
      /\ net' \in [Peers -> SUBSET Datagram]
      /\ submitted' \in [Peers -> [Channels -> Nat]]
      /\ delivered' \in [Peers -> [Channels -> Seq(Nat)]]
      /\ heard' \in [Peers -> SUBSET Nat]
  BY <1>2, <1>4, <1>5, <1>6 DEF TypeOK
<1>8. ASSUME NEW q \in Peers
      PROVE  /\ conn'[q].sendSeq <= MaxWire
             /\ Len(conn'[q].track) <= MaxPending
             /\ Len(conn'[q].recv.recent) <= MaxRecent
             /\ Len(conn'[q].history) <= HistorySize
             /\ \A e \in net'[q] : e.seq < conn'[q].sendSeq
  <2>1. CASE q = p
    <3>1. conn'[q] = c /\ net'[q] = net[p] \cup D
      BY <1>6, <2>1 DEF TypeOK
    <3>2. \A e \in net[p] : e \in Datagram /\ e.seq < conn[p].sendSeq
      BY DEF TypeOK
    <3>3. \A e \in net[p] : e.seq < c.sendSeq
      BY <1>1, <1>3, <1>4, <3>2 DEF Datagram
    <3>4. QED BY <1>3, <1>4, <1>5, <3>1, <3>3 DEF TypeOK
  <2>2. CASE q # p
    BY <1>6, <2>2 DEF TypeOK
  <2>3. QED BY <2>1, <2>2
<1>9. QED BY <1>7, <1>8 DEF TypeOK

\* process_packet keeps TypeOK, and what it delivers are messages.
LEMMA ReceiveType ==
  ASSUME TypeOK, NEW p \in Peers, NEW d \in net[Other(p)], Receive(p, d)
  PROVE  TypeOK'
<1> DEFINE c == ProcessPacket(conn[p], d)
           r == Result(conn[p], d)
<1>1. /\ conn[p] \in ConnectionState /\ d \in Datagram /\ d.ch \in Channels /\ d.seq \in Nat
      /\ Len(conn[p].recv.recent) <= MaxRecent /\ Len(conn[p].history) <= HistorySize
      /\ Len(conn[p].track) <= MaxPending
  BY OtherPeer DEF TypeOK, Datagram
<1>2. /\ c \in ConnectionState /\ Len(c.track) <= Len(conn[p].track)
      /\ Len(c.recv.recent) <= MaxRecent /\ Len(c.history) <= HistorySize
      /\ c.sendSeq = conn[p].sendSeq /\ r \in Seq(Nat)
  BY <1>1, ProcessPacketFacts
<1>3. Len(c.track) <= MaxPending
  <2>1. Len(c.track) \in Nat /\ Len(conn[p].track) \in Nat
    BY <1>1, <1>2 DEF ConnectionState
  <2>2. QED BY <1>1, <1>2, <2>1, SizesAssumption
<1>4. /\ conn' = [conn EXCEPT ![p] = c]
      /\ delivered' = [delivered EXCEPT ![p][d.ch] = @ \o r]
      /\ heard' = [heard EXCEPT ![p] = @ \cup {d.seq}]
      /\ UNCHANGED <<net, submitted>>
  BY DEF Receive
<1> HIDE DEF c, r
<1>5. delivered[p][d.ch] \o r \in Seq(Nat)
  <2>1. delivered[p][d.ch] \in Seq(Nat)
    BY <1>1 DEF TypeOK
  <2>2. QED BY <1>2, <2>1, ConcatProperties
<1>6. /\ conn' \in [Peers -> ConnectionState]
      /\ net' \in [Peers -> SUBSET Datagram]
      /\ submitted' \in [Peers -> [Channels -> Nat]]
      /\ delivered' \in [Peers -> [Channels -> Seq(Nat)]]
      /\ heard' \in [Peers -> SUBSET Nat]
  BY <1>1, <1>2, <1>4, <1>5 DEF TypeOK
<1>7. ASSUME NEW q \in Peers
      PROVE  /\ conn'[q].sendSeq <= MaxWire
             /\ Len(conn'[q].track) <= MaxPending
             /\ Len(conn'[q].recv.recent) <= MaxRecent
             /\ Len(conn'[q].history) <= HistorySize
             /\ \A e \in net'[q] : e.seq < conn'[q].sendSeq
  <2>1. CASE q = p
    <3>1. conn'[q] = c /\ net' = net
      BY <1>4, <2>1 DEF TypeOK
    <3>2. QED BY <1>2, <1>3, <2>1, <3>1 DEF TypeOK
  <2>2. CASE q # p
    BY <1>4, <2>2 DEF TypeOK
  <2>3. QED BY <2>1, <2>2
<1>8. QED BY <1>6, <1>7 DEF TypeOK

\* TypeCorrect: in every reachable state, whatever the constants and whatever
\* the network does, the two connections are well typed, their deques are
\* within capacity and no datagram uses a wire sequence not yet assigned.
THEOREM TypeCorrect == Spec => []TypeOK
<1>1. Init => TypeOK
  BY InitType
<1>2. TypeOK /\ [Next]_vars => TypeOK'
  <2> SUFFICES ASSUME TypeOK, [Next]_vars PROVE TypeOK'
    OBVIOUS
  <2>1. ASSUME NEW p \in Peers, NEW ch \in Channels, Send(p, ch) PROVE TypeOK'
    BY <2>1, SendType
  <2>2. ASSUME NEW p \in Peers, Resend(p) PROVE TypeOK'
    BY <2>2, ResendType
  <2>3. ASSUME NEW p \in Peers, NEW d \in net[Other(p)], Receive(p, d) PROVE TypeOK'
    BY <2>3, ReceiveType
  <2>4. CASE UNCHANGED vars
    BY <2>4 DEF vars, TypeOK
  <2>5. QED BY <2>1, <2>2, <2>3, <2>4 DEF Next
<1>3. QED BY <1>1, <1>2, PTL DEF Spec
-----------------------------------------------------------------------------
(* Sequence numbers that wrap.                                             *)

\* wrapping_add is addition modulo m.
LEMMA WrapAddMod ==
  ASSUME NEW a \in Nat, NEW m \in Nat \ {0}, NEW k \in 0 .. m - 1
  PROVE  WrapAdd(a % m, k, m) = (a + k) % m
<1> DEFINE b == a + k
           q == a \div m
           r == a % m
           u == b \div m
           v == b % m
<1>1. a = m * q + r /\ q \in Int /\ r \in 0 .. m - 1
  BY DivMod, ModRange
<1>2. b \in Nat /\ b = a + k
  OBVIOUS
<1> HIDE DEF b, q, r
<1>3. b = m * u + v /\ u \in Int /\ v \in 0 .. m - 1
  BY <1>2, DivMod, ModRange
<1> HIDE DEF u, v
<1>4. CASE r + k < m
  <2> DEFINE w == r + k
  <2>1. m * u + v = m * q + w /\ w \in 0 .. m - 1
    BY <1>1, <1>2, <1>3, <1>4
  <2> HIDE DEF w
  <2>2. v = w
    BY <1>1, <1>3, <2>1, DivModUnique
  <2>3. WrapAdd(r, k, m) = r + k
    BY <1>1, <1>4 DEF WrapAdd
  <2>4. QED BY <2>2, <2>3 DEF b, r, v, w
<1>5. CASE r + k >= m
  <2> DEFINE w == r + k - m
             p == q + 1
  <2>1. m * u + v = m * p + w /\ w \in 0 .. m - 1 /\ p \in Int
    BY <1>1, <1>2, <1>3, <1>5
  <2> HIDE DEF p, w
  <2>2. v = w
    BY <1>1, <1>3, <2>1, DivModUnique
  <2>3. WrapAdd(r, k, m) = r + k - m
    BY <1>1, <1>5 DEF WrapAdd
  <2>4. QED BY <2>2, <2>3 DEF b, r, v, w
<1>6. QED BY <1>1, <1>4, <1>5

\* Numbers less than m apart are equal if their residues are.
LEMMA ModInjective ==
  ASSUME NEW a \in Nat, NEW b \in Nat, NEW m \in Nat \ {0},
         b - a < m, a - b < m, a % m = b % m
  PROVE  a = b
<1>1. a % m \in 0 .. m - 1
  BY ModRange
<1>2. CASE a <= b
  <2>1. b - a \in 0 .. m - 1 /\ a + (b - a) = b
    BY <1>2
  <2>2. WrapAdd(a % m, b - a, m) = b % m
    BY <2>1, WrapAddMod
  <2>3. QED BY <1>1, <2>1, <2>2 DEF WrapAdd
<1>3. CASE b < a
  <2>1. a - b \in 0 .. m - 1 /\ b + (a - b) = a
    BY <1>3
  <2>2. WrapAdd(b % m, a - b, m) = a % m
    BY <2>1, WrapAddMod
  <2>3. QED BY <1>1, <2>1, <2>2 DEF WrapAdd
<1>4. QED BY <1>2, <1>3

\* sequence_greater_than_u16 does not take an older number for a newer one as
\* long as they are less than half the space apart.
LEMMA SeqGreaterMod ==
  ASSUME NEW a \in Nat, NEW b \in Nat, NEW m \in Nat \ {0},
         2 * (b - a) < m, a < b
  PROVE  ~SeqGreater(a % m, b % m, m)
<1>1. a % m \in 0 .. m - 1
  BY ModRange
<1>2. b - a \in 0 .. m - 1 /\ a + (b - a) = b
  OBVIOUS
<1>3. b % m = WrapAdd(a % m, b - a, m)
  BY <1>2, WrapAddMod
<1>4. PICK k \in 0 .. m - 1 : k = b - a
  BY <1>2
<1>5. 2 * k < m
  BY <1>4
<1> DEFINE r == a % m
           h == (m - 1) \div 2
<1>6. h \in Nat /\ 2 * h <= m - 1 /\ m - 1 <= 2 * h + 1
  OBVIOUS
<1>7. r \in 0 .. m - 1 /\ b % m = IF r + k >= m THEN r + k - m ELSE r + k
  BY <1>1, <1>3, <1>4 DEF WrapAdd
<1> DEFINE s == b % m
<1> HIDE DEF r, h, s
<1>8. s \in Int /\ ((s = r + k /\ r + k < m) \/ (s = r + k - m /\ r + k >= m))
  BY <1>7 DEF s
<1>9. ~(r > s /\ r - s <= h) /\ ~(r < s /\ s - r > h)
  BY <1>5, <1>6, <1>7, <1>8
<1>10. QED BY <1>9 DEF SeqGreater, r, s, h
-----------------------------------------------------------------------------
(* One packet on the ordered channel.                                      *)

FirstMessages(n) == [i \in 1 .. n |-> i]
MessagesAfter(L, n) == [i \in 1 .. n - L |-> L + i]

\* With L messages delivered of S submitted, an ordered packet makes the
\* channel deliver L+1 .. n for some n, and leaves expected and the buffer as
\* they should be after n messages: the drained run of buffered sequences is
\* the run of the messages that follow, since no two messages in the window
\* share a sequence number.
LEMMA OrderedStep ==
  ASSUME HalfWindow, NEW c \in ConnectionState, NEW p, NEW L \in Nat, NEW S \in Nat,
         L <= S, S - L <= Window, c.expected = L % ChanMod,
         \A e \in c.buffer : e.msg \in L + 2 .. S /\ e.cseq = (e.msg - 1) % ChanMod,
         p.msg \in 1 .. S, p.cseq = (p.msg - 1) % ChanMod, L - p.msg < Window
  PROVE  \E n \in L .. S :
           /\ OrderedResult(c, p) = MessagesAfter(L, n)
           /\ AcceptOrdered(c, p).expected = n % ChanMod
           /\ \A e \in AcceptOrdered(c, p).buffer :
                e.msg \in n + 2 .. S /\ e.cseq = (e.msg - 1) % ChanMod
<1>1. ChanMod \in Nat \ {0} /\ Window \in Nat /\ 2 * Window < ChanMod
  BY SizesAssumption, ReliabilityAssumption DEF HalfWindow
<1>2. CASE p.cseq = c.expected
  <2> DEFINE next == WrapAdd(c.expected, 1, ChanMod)
             run  == RunLength(c.buffer, next)
             n    == L + 1 + run
             used == {WrapAdd(next, k, ChanMod) : k \in 0 .. run - 1}
             left == {e \in c.buffer : e.cseq \notin used}
             m(k) == (CHOOSE e \in c.buffer : e.cseq = WrapAdd(next, k - 1, ChanMod)).msg
             tail == [k \in 1 .. run |-> m(k)]
  <2>1. p.msg = L + 1
    <3> DEFINE j == p.msg - 1
    <3>1. j \in Nat /\ j - L < ChanMod /\ L - j < ChanMod /\ j % ChanMod = L % ChanMod
      BY <1>1, <1>2
    <3> HIDE DEF j
    <3>2. j = L
      BY <1>1, <3>1, ModInjective
    <3>3. QED BY <3>2 DEF j
  <2>2. next = (L + 1) % ChanMod
    <3>1. 1 \in 0 .. ChanMod - 1
      BY <1>1, <2>1
    <3>2. QED BY <1>1, <3>1, WrapAddMod
  <2>3. /\ run \in 0 .. ChanMod
        /\ \A k \in 0 .. run - 1 : Buffered(c.buffer, WrapAdd(next, k, ChanMod))
        /\ run < ChanMod => ~Buffered(c.buffer, WrapAdd(next, run, ChanMod))
    BY RunLengthFacts
  <2> HIDE DEF next, run
  <2>4. ASSUME NEW k \in 0 .. ChanMod - 1
        PROVE  /\ WrapAdd(next, k, ChanMod) = (L + 1 + k) % ChanMod
               /\ \A e \in c.buffer : e.cseq = WrapAdd(next, k, ChanMod) <=> e.msg = L + 2 + k
    <3> DEFINE a == L + 1
               b == L + 1 + k
    <3>1. a \in Nat /\ b = a + k /\ b \in Nat /\ next = a % ChanMod /\ k \in Nat
      BY <1>1, <2>2
    <3> HIDE DEF a, b
    <3>2. WrapAdd(next, k, ChanMod) = b % ChanMod
      BY <1>1, <3>1, WrapAddMod
    <3>3. ASSUME NEW e \in c.buffer
          PROVE  e.cseq = WrapAdd(next, k, ChanMod) <=> e.msg = L + 2 + k
      <4> DEFINE j == e.msg - 1
      <4>1. /\ j \in Nat /\ e.cseq = j % ChanMod /\ j - b < ChanMod /\ b - j < ChanMod
            /\ j = b <=> e.msg = L + 2 + k
        BY <1>1, <3>1 DEF a, b
      <4> HIDE DEF j
      <4>2. j % ChanMod = b % ChanMod => j = b
        BY <1>1, <3>1, <4>1, ModInjective
      <4>3. QED BY <3>2, <4>1, <4>2
    <3>4. QED BY <3>2, <3>3 DEF b
  <2>5. run \in Nat /\ n \in L .. S /\ run < ChanMod
    <3>1. CASE run = 0
      BY <1>1, <2>1, <3>1
    <3>2. CASE run # 0
      <4>1. run - 1 \in 0 .. ChanMod - 1 /\ run - 1 \in 0 .. run - 1
        BY <1>1, <2>3, <3>2
      <4>2. PICK e \in c.buffer : e.cseq = WrapAdd(next, run - 1, ChanMod)
        BY <2>3, <4>1 DEF Buffered
      <4>3. e.msg = L + 2 + (run - 1)
        BY <2>4, <4>1, <4>2
      <4>4. QED BY <1>1, <2>3, <4>1, <4>3
    <3>3. QED BY <3>1, <3>2
  <2>6. ASSUME NEW k \in 1 .. run PROVE m(k) = L + 1 + k
    <3>1. k - 1 \in 0 .. run - 1 /\ k - 1 \in 0 .. ChanMod - 1
      BY <1>1, <2>5
    <3>2. \E e \in c.buffer : e.cseq = WrapAdd(next, k - 1, ChanMod)
      BY <2>3, <3>1 DEF Buffered
    <3> DEFINE f == CHOOSE e \in c.buffer : e.cseq = WrapAdd(next, k - 1, ChanMod)
    <3>3. f \in c.buffer /\ f.cseq = WrapAdd(next, k - 1, ChanMod)
      BY <3>2
    <3> HIDE DEF f
    <3>4. f.msg = L + 2 + (k - 1)
      BY <2>4, <3>1, <3>3
    <3>5. m(k) = f.msg
      BY DEF f
    <3>6. QED BY <3>4, <3>5, <2>5
  <2> HIDE DEF m
  <2>7. OrderedResult(c, p) = MessagesAfter(L, n)
    <3>1. OrderedResult(c, p) = <<p.msg>> \o tail
      BY <1>2 DEF OrderedResult, next, run, m
    <3>2. tail = [k \in 1 .. run |-> L + 1 + k]
      BY <2>6
    <3>3. n - L = run + 1
      BY <2>5
    <3> DEFINE t == [k \in 1 .. run |-> L + 1 + k]
    <3>4. <<L + 1>> \o t = [i \in 1 .. run + 1 |-> L + i]
      <4>1. /\ t \in Seq(Nat) /\ Len(t) = run /\ <<L + 1>> \in Seq(Nat) /\ Len(<<L + 1>>) = 1
            /\ \A k \in 1 .. run : t[k] = L + 1 + k
        BY <2>5
      <4> HIDE DEF t
      <4> DEFINE u == <<L + 1>> \o t
                 v == [i \in 1 .. run + 1 |-> L + i]
      <4>2. /\ u \in Seq(Nat) /\ Len(u) = run + 1 /\ u[1] = L + 1
            /\ \A i \in 2 .. run + 1 : u[i] = t[i - 1]
        BY <2>5, <4>1
      <4>3. v \in Seq(Nat) /\ Len(v) = run + 1 /\ \A i \in 1 .. run + 1 : v[i] = L + i
        BY <2>5
      <4> HIDE DEF u, v
      <4>4. ASSUME NEW i \in 1 .. run + 1 PROVE u[i] = v[i]
        <5>1. CASE i = 1
          BY <4>2, <4>3, <5>1, <2>5
        <5>2. CASE i # 1
          <6>1. i \in 2 .. run + 1 /\ i - 1 \in 1 .. run /\ i \in Nat
            BY <5>2, <2>5
          <6>2. QED BY <4>1, <4>2, <4>3, <6>1
        <5>3. QED BY <5>1, <5>2
      <4>5. u = v
        BY <4>2, <4>3, <4>4, SeqEqual
      <4>6. QED BY <4>5 DEF u, v
    <3>5. QED BY <2>1, <3>1, <3>2, <3>3, <3>4 DEF MessagesAfter
  <2>8. /\ AcceptOrdered(c, p).expected = WrapAdd(next, run, ChanMod)
        /\ AcceptOrdered(c, p).buffer = left
    <3>1. AcceptOrdered(c, p) = [c EXCEPT !.expected = WrapAdd(next, run, ChanMod), !.buffer = left]
      BY <1>2 DEF AcceptOrdered, next, run
    <3> HIDE DEF left
    <3>2. QED BY <3>1 DEF ConnectionState
  <2>9. WrapAdd(next, run, ChanMod) = n % ChanMod
    <3>1. run \in 0 .. ChanMod - 1
      BY <1>1, <2>5
    <3>2. QED BY <2>4, <3>1
  <2>10. ASSUME NEW e \in left PROVE e.msg \in n + 2 .. S /\ e.cseq = (e.msg - 1) % ChanMod
    <3> DEFINE k == e.msg - (L + 2)
    <3>1. e \in c.buffer /\ e.msg \in L + 2 .. S /\ e.cseq = (e.msg - 1) % ChanMod
      OBVIOUS
    <3>2. k \in 0 .. ChanMod - 1 /\ e.msg = L + 2 + k
      BY <1>1, <3>1
    <3> HIDE DEF k
    <3>3. e.cseq = WrapAdd(next, k, ChanMod)
      BY <2>4, <3>1, <3>2
    <3>4. ~(k < run)
      <4>1. SUFFICES ASSUME k < run PROVE e.cseq \in used
        OBVIOUS
      <4>2. k \in 0 .. run - 1
        BY <2>5, <3>2, <4>1
      <4>3. QED BY <3>3, <4>2
    <3>5. k # run
      BY <2>3, <2>5, <3>1, <3>3 DEF Buffered
    <3>6. QED BY <2>5, <3>1, <3>2, <3>4, <3>5
  <2>11. QED BY <2>5, <2>7, <2>8, <2>9, <2>10
<1>3. CASE p.cseq # c.expected
  <2> DEFINE ent  == [cseq |-> p.cseq, msg |-> p.msg]
             more == {e \in c.buffer : e.cseq # p.cseq} \cup {ent}
             d    == AcceptOrdered(c, p)
  <2>1. OrderedResult(c, p) = MessagesAfter(L, L)
    <3>1. OrderedResult(c, p) = << >>
      BY <1>3 DEF OrderedResult
    <3>2. 1 .. L - L = {}
      OBVIOUS
    <3>3. QED BY <3>1, <3>2 DEF MessagesAfter
  <2>2. p.msg # L + 1
    BY <1>3
  <2>3. SeqGreater(p.cseq, c.expected, ChanMod) => p.msg \in L + 2 .. S
    <3> SUFFICES ASSUME p.msg < L + 1 PROVE ~SeqGreater(p.cseq, c.expected, ChanMod)
      BY <2>2
    <3> DEFINE j == p.msg - 1
    <3>1. j \in Nat /\ j < L /\ 2 * (L - j) < ChanMod /\ p.cseq = j % ChanMod
      BY <1>1
    <3> HIDE DEF j
    <3>2. QED BY <1>1, <3>1, SeqGreaterMod
  <2>4. d = c \/ (SeqGreater(p.cseq, c.expected, ChanMod) /\ d = [c EXCEPT !.buffer = more])
    BY <1>3 DEF AcceptOrdered
  <2>5. \/ d.buffer = c.buffer /\ d.expected = c.expected
        \/ /\ SeqGreater(p.cseq, c.expected, ChanMod)
           /\ d.buffer = more /\ d.expected = c.expected
    <3> HIDE DEF more, d
    <3>1. QED BY <2>4 DEF ConnectionState
  <2>6. ASSUME NEW e \in d.buffer PROVE e.msg \in L + 2 .. S /\ e.cseq = (e.msg - 1) % ChanMod
    <3> HIDE DEF d
    <3>1. QED BY <2>3, <2>5
  <2>7. L \in L .. S /\ d.expected = L % ChanMod
    BY <2>5
  <2> HIDE DEF d
  <2>8. \E n \in L .. S :
           /\ OrderedResult(c, p) = MessagesAfter(L, n)
           /\ d.expected = n % ChanMod
           /\ \A e \in d.buffer : e.msg \in n + 2 .. S /\ e.cseq = (e.msg - 1) % ChanMod
    BY <2>1, <2>6, <2>7
  <2>9. QED BY <2>8 DEF d
<1>4. QED BY <1>2, <1>3
-----------------------------------------------------------------------------
(* The invariant of the ordered channel.                                   *)

OrderedInv == TypeOK /\ SequencesTrackMessages /\ OrderedInOrder /\ BufferAhead

\* The invariant holds initially: the client has sent an unreliable message.
LEMMA InitOrdered == Init => OrderedInv
<1> SUFFICES ASSUME Init PROVE OrderedInv
  OBVIOUS
<1> DEFINE msg == 1
           c == SendPacket(NewConnection, Unreliable, msg)
           d == SentPacket(NewConnection, Unreliable, msg)
<1>1. TypeOK
  BY InitType
<1>2. /\ MaxWire \in Nat \ {0} /\ WireMod \in Nat /\ MaxWire < WireMod
      /\ MaxPending \in Nat /\ ChanMod \in Nat \ {0} /\ Window \in Nat
  BY SizesAssumption, ReliabilityAssumption
<1>3. /\ NewConnection.expected = 0 /\ NewConnection.buffer = {} /\ NewConnection.pending = {}
      /\ NewConnection.nextSeq[Ordered] = 0
      /\ NewConnection.sendSeq = 0 /\ NewConnection.track = << >>
  BY DEF NewConnection
<1>4. /\ NewConnection \in ConnectionState /\ Unreliable \in Channels /\ msg \in Nat
      /\ Len(NewConnection.track) <= MaxPending /\ NewConnection.sendSeq + 1 < WireMod
  <2>1. 1 < WireMod /\ Len(<< >>) <= MaxPending
    BY <1>2
  <2>2. QED BY <1>3, <2>1, NewConnectionType DEF Channels
<1>5. Ordered # Unreliable /\ Ordered \in {Reliable, Ordered} /\ Ordered \in Channels
  BY DEF Ordered, Unreliable, Channels
<1>6. d.ch = Unreliable
  BY DEF SentPacket, Packet
<1> HIDE DEF msg
<1>7. /\ c.expected = 0 /\ c.buffer = {} /\ c.pending = {} /\ c.nextSeq[Ordered] = 0
  BY <1>3, <1>4, <1>5, SendPacketFacts
<1>8. /\ conn = [p \in Peers |-> IF p = Client THEN c ELSE NewConnection]
      /\ net = [p \in Peers |-> IF p = Client THEN {d} ELSE {}]
      /\ submitted = [p \in Peers |-> [ch \in Channels |->
                       IF p = Client /\ ch = Unreliable THEN 1 ELSE 0]]
      /\ delivered = [p \in Peers |-> [ch \in Channels |-> << >>]]
  BY DEF Init, c, d, msg
<1>9. 0 % ChanMod = 0
  BY <1>2
<1> HIDE DEF c, d
<1>10. ASSUME NEW p \in Peers
       PROVE  /\ conn[p].nextSeq[Ordered] = 0 /\ conn[p].expected = 0
              /\ conn[p].buffer = {} /\ conn[p].pending = {}
              /\ submitted[p][Ordered] = 0 /\ delivered[p][Ordered] = << >>
              /\ \A m \in net[p] : m.ch = Unreliable
  BY <1>3, <1>5, <1>6, <1>7, <1>8
<1>11. << >> = [i \in 1 .. Len(<< >>) |-> i] /\ Len(<< >>) = 0
  OBVIOUS
<1>12. SequencesTrackMessages
  BY <1>2, <1>5, <1>9, <1>10, <1>11, OtherPeer DEF SequencesTrackMessages
<1>13. OrderedInOrder /\ BufferAhead
  BY <1>10, <1>11, OtherPeer DEF OrderedInOrder, BufferAhead
<1>14. QED BY <1>1, <1>12, <1>13 DEF OrderedInv

\* Sending an ordered message assigns the sequence that names it.
LEMMA SendOrdered ==
  ASSUME HalfWindow, OrderedInv, NEW p \in Peers, NEW ch \in Channels, Send(p, ch)
  PROVE  SequencesTrackMessages' /\ OrderedInOrder' /\ BufferAhead'
<1> DEFINE msg == submitted[p][ch] + 1
           c == SendPacket(conn[p], ch, msg)
           d == SentPacket(conn[p], ch, msg)
<1>1. /\ conn[p] \in ConnectionState /\ conn[p].sendSeq + 1 < WireMod
      /\ submitted[p][ch] \in Nat /\ msg \in Nat /\ Len(conn[p].track) <= MaxPending
      /\ ChanMod \in Nat \ {0} /\ Window \in Nat /\ 2 * Window < ChanMod
  BY SizesAssumption, ReliabilityAssumption
  DEF OrderedInv, TypeOK, ConnectionState, Send, HalfWindow
<1>2. Ordered # Unreliable /\ Ordered \in {Reliable, Ordered} /\ Ordered \in Channels
  BY DEF Ordered, Unreliable, Channels
<1>3. /\ conn' = [conn EXCEPT ![p] = c]
      /\ net' = [net EXCEPT ![p] = @ \cup {d}]
      /\ submitted' = [submitted EXCEPT ![p][ch] = msg]
      /\ delivered' = delivered
      /\ ch = Ordered => msg - Len(delivered[Other(p)][Ordered]) <= Window
  BY DEF Send
<1>4. /\ d.ch = ch /\ d.msg = msg
      /\ ch # Unreliable => d.cseq = conn[p].nextSeq[ch]
  BY DEF SentPacket, Packet
<1>5. msg = submitted[p][ch] + 1 /\ msg - 1 = submitted[p][ch] /\ submitted[p][ch] <= msg
  BY <1>1
<1> HIDE DEF msg
<1>6. /\ c.expected = conn[p].expected /\ c.buffer = conn[p].buffer
      /\ c.nextSeq[Ordered] = IF Ordered = ch THEN WrapAdd(conn[p].nextSeq[Ordered], 1, ChanMod)
                                              ELSE conn[p].nextSeq[Ordered]
      /\ \A m \in c.pending :
           \/ m \in conn[p].pending
           \/ ch # Unreliable /\ m.ch = ch /\ m.cseq = conn[p].nextSeq[ch] /\ m.msg = msg
  BY <1>1, <1>2, SendPacketFacts
<1> HIDE DEF c, d
<1>7. ASSUME NEW q \in Peers
      PROVE  /\ conn'[q] = IF q = p THEN c ELSE conn[q]
             /\ net'[q] = IF q = p THEN net[q] \cup {d} ELSE net[q]
             /\ submitted'[q][Ordered] =
                  IF q = p /\ ch = Ordered THEN msg ELSE submitted[q][Ordered]
             /\ submitted[q][Ordered] \in Nat
             /\ submitted'[q][Ordered] \in Nat
             /\ submitted[q][Ordered] <= submitted'[q][Ordered]
             /\ Len(delivered[q][Ordered]) \in Nat
  <2>1. /\ conn \in [Peers -> ConnectionState] /\ net \in [Peers -> SUBSET Datagram]
        /\ submitted \in [Peers -> [Channels -> Nat]]
        /\ delivered \in [Peers -> [Channels -> Seq(Nat)]]
    BY DEF OrderedInv, TypeOK
  <2>2. /\ conn'[q] = IF q = p THEN c ELSE conn[q]
        /\ net'[q] = IF q = p THEN net[q] \cup {d} ELSE net[q]
    BY <1>3, <2>1
  <2>3. submitted[q][Ordered] \in Nat /\ Len(delivered[q][Ordered]) \in Nat
    BY <1>2, <2>1
  <2>4. submitted'[q][Ordered] =
          IF q = p /\ ch = Ordered THEN msg ELSE submitted[q][Ordered]
    BY <1>2, <1>3, <2>1
  <2>5. CASE q = p /\ ch = Ordered
    <3>1. submitted[q][Ordered] <= msg
      BY <1>5, <2>5
    <3>2. QED BY <1>1, <2>2, <2>3, <2>4, <2>5, <3>1
  <2>6. CASE ~(q = p /\ ch = Ordered)
    BY <2>2, <2>3, <2>4, <2>6
  <2>7. QED BY <2>5, <2>6
<1>8. ASSUME ch = Ordered
      PROVE  /\ conn[p].nextSeq[Ordered] = (msg - 1) % ChanMod
             /\ WrapAdd(conn[p].nextSeq[Ordered], 1, ChanMod) = msg % ChanMod
  <2>1. conn[p].nextSeq[Ordered] = submitted[p][Ordered] % ChanMod
    BY DEF OrderedInv, SequencesTrackMessages
  <2>2. 1 \in 0 .. ChanMod - 1
    <3> DEFINE s == submitted[p][Ordered]
               l == Len(delivered[Other(p)][Ordered])
    <3>1. msg = s + 1 /\ msg - l <= Window /\ s \in Nat /\ l \in Nat
      BY <1>3, <1>5, <1>7, <1>8, OtherPeer
    <3>2. l <= s
      BY OtherPeer DEF OrderedInv, OrderedInOrder
    <3> HIDE DEF s, l
    <3>3. QED BY <1>1, <3>1, <3>2
  <2>3. WrapAdd(submitted[p][ch] % ChanMod, 1, ChanMod) = (submitted[p][ch] + 1) % ChanMod
    BY <1>1, <2>2, WrapAddMod
  <2>4. submitted[p][ch] = msg - 1 /\ submitted[p][ch] + 1 = msg
    BY <1>1, <1>5
  <2>5. QED BY <1>8, <2>1, <2>3, <2>4
<1>9. SequencesTrackMessages'
  <2> SUFFICES ASSUME NEW q \in Peers
               PROVE  /\ conn'[q].nextSeq[Ordered] = submitted'[q][Ordered] % ChanMod
                      /\ conn'[q].expected = Len(delivered'[q][Ordered]) % ChanMod
                      /\ submitted'[Other(q)][Ordered] - Len(delivered'[q][Ordered]) <= Window
                      /\ \A m \in conn'[q].pending \cup net'[q] : m.ch = Ordered =>
                           /\ m.msg \in 1 .. submitted'[q][Ordered]
                           /\ m.cseq = (m.msg - 1) % ChanMod
    BY DEF SequencesTrackMessages
  <2>1. /\ conn[q].nextSeq[Ordered] = submitted[q][Ordered] % ChanMod
        /\ conn[q].expected = Len(delivered[q][Ordered]) % ChanMod
        /\ submitted[Other(q)][Ordered] - Len(delivered[q][Ordered]) <= Window
        /\ \A m \in conn[q].pending \cup net[q] : m.ch = Ordered =>
             /\ m.msg \in 1 .. submitted[q][Ordered]
             /\ m.cseq = (m.msg - 1) % ChanMod
    BY DEF OrderedInv, SequencesTrackMessages
  <2>2. conn'[q].nextSeq[Ordered] = submitted'[q][Ordered] % ChanMod
    BY <1>6, <1>7, <1>8, <2>1
  <2>3. conn'[q].expected = Len(delivered'[q][Ordered]) % ChanMod
    BY <1>3, <1>6, <1>7, <2>1
  <2>4. submitted'[Other(q)][Ordered] - Len(delivered'[q][Ordered]) <= Window
    <3>1. CASE Other(q) = p /\ ch = Ordered
      <4>1. q = Other(p)
        BY <3>1, OtherPeer
      <4>2. QED BY <1>3, <1>7, <3>1, <4>1
    <3>2. CASE ~(Other(q) = p /\ ch = Ordered)
      BY <1>3, <1>7, <2>1, <3>2, OtherPeer
    <3>3. QED BY <3>1, <3>2
  <2>5. submitted[q][Ordered] <= submitted'[q][Ordered]
    BY <1>7
  <2>6. ASSUME NEW m \in conn'[q].pending \cup net'[q], m.ch = Ordered
        PROVE  m.msg \in 1 .. submitted'[q][Ordered] /\ m.cseq = (m.msg - 1) % ChanMod
    <3>1. CASE m \in conn[q].pending \cup net[q]
      <4>1. m.msg \in 1 .. submitted[q][Ordered] /\ m.cseq = (m.msg - 1) % ChanMod
        BY <2>1, <2>6, <3>1
      <4>2. 1 .. submitted[q][Ordered] \subseteq 1 .. submitted'[q][Ordered]
        <5> DEFINE s == submitted[q][Ordered]
                   t == submitted'[q][Ordered]
        <5>1. s \in Nat /\ t \in Nat /\ s <= t
          BY <1>7
        <5> HIDE DEF s, t
        <5>2. 1 .. s \subseteq 1 .. t
          BY <5>1
        <5>3. QED BY <5>2 DEF s, t
      <4>3. QED BY <4>1, <4>2
    <3>2. CASE m \notin conn[q].pending \cup net[q]
      <4>1. q = p /\ (m \in c.pending \/ m = d)
        BY <1>7, <2>6, <3>2
      <4>2. m \in c.pending => m.ch = ch /\ m.cseq = conn[p].nextSeq[ch] /\ m.msg = msg
        BY <1>6, <3>2, <4>1
      <4>3. ch = Ordered /\ m.cseq = conn[p].nextSeq[Ordered] /\ m.msg = msg
        BY <1>2, <1>4, <2>6, <4>1, <4>2
      <4>4. submitted'[q][Ordered] = msg /\ msg \in Nat /\ msg - 1 \in Nat
        BY <1>1, <1>5, <1>7, <4>1, <4>3
      <4>5. msg \in 1 .. msg
        BY <4>4
      <4>6. QED BY <1>8, <4>3, <4>4, <4>5
    <3>3. QED BY <3>1, <3>2
  <2>7. QED BY <2>2, <2>3, <2>4, <2>6
<1>10. ASSUME NEW q \in Peers
       PROVE  /\ submitted[q][Ordered] <= submitted'[q][Ordered]
              /\ submitted'[q][Ordered] \in Nat
  BY <1>7
<1>11. OrderedInOrder'
  <2>1. ASSUME NEW q \in Peers
        PROVE  /\ delivered'[q][Ordered] = [i \in 1 .. Len(delivered'[q][Ordered]) |-> i]
               /\ Len(delivered'[q][Ordered]) <= submitted'[Other(q)][Ordered]
    <3>1. /\ delivered[q][Ordered] = [i \in 1 .. Len(delivered[q][Ordered]) |-> i]
          /\ Len(delivered[q][Ordered]) <= submitted[Other(q)][Ordered]
      BY DEF OrderedInv, OrderedInOrder
    <3>2. submitted[Other(q)][Ordered] <= submitted'[Other(q)][Ordered]
      BY <1>10, OtherPeer
    <3> DEFINE l == Len(delivered[q][Ordered])
               s == submitted[Other(q)][Ordered]
               u == submitted'[Other(q)][Ordered]
    <3>3. l \in Nat /\ s \in Nat /\ u \in Nat /\ l <= s /\ s <= u
      BY <1>7, <3>1, <3>2, OtherPeer
    <3> HIDE DEF l, s, u
    <3>4. l <= u
      BY <3>3
    <3>5. QED BY <1>3, <3>1, <3>4 DEF l, u
  <2>2. QED BY <2>1 DEF OrderedInOrder
<1>12. BufferAhead'
  <2>1. ASSUME NEW q \in Peers, NEW e \in conn'[q].buffer
        PROVE  /\ e.msg \in Len(delivered'[q][Ordered]) + 2 .. submitted'[Other(q)][Ordered]
               /\ e.cseq = (e.msg - 1) % ChanMod
    <3>1. e \in conn[q].buffer
      BY <1>6, <1>7, <2>1
    <3>2. /\ e.msg \in Len(delivered[q][Ordered]) + 2 .. submitted[Other(q)][Ordered]
          /\ e.cseq = (e.msg - 1) % ChanMod
      BY <3>1 DEF OrderedInv, BufferAhead
    <3> DEFINE l == Len(delivered[q][Ordered]) + 2
    <3>3. l .. submitted[Other(q)][Ordered] \subseteq l .. submitted'[Other(q)][Ordered]
      <4> DEFINE s == submitted[Other(q)][Ordered]
                 t == submitted'[Other(q)][Ordered]
      <4>1. l \in Nat
        BY <1>7
      <4>2. s \in Nat /\ t \in Nat /\ s <= t
        BY <1>7, <1>10, OtherPeer
      <4> HIDE DEF l, s, t
      <4>3. l .. s \subseteq l .. t
        BY <4>1, <4>2
      <4>4. QED BY <4>3 DEF s, t
    <3>4. QED BY <1>3, <3>2, <3>3
  <2>2. QED BY <2>1 DEF BufferAhead
<1>13. QED BY <1>9, <1>11, <1>12

\* A resend carries the sequence and the message it was first sent with.
LEMMA ResendOrdered ==
  ASSUME HalfWindow, OrderedInv, NEW p \in Peers, Resend(p)
  PROVE  SequencesTrackMessages' /\ OrderedInOrder' /\ BufferAhead'
<1>1. conn[p] \in ConnectionState /\ conn[p].sendSeq \in Nat /\ MaxWire \in Nat
  BY ReliabilityAssumption DEF OrderedInv, TypeOK, ConnectionState
<1>2. PICK due \in DueLists(conn[p].pending, MaxWire - conn[p].sendSeq) :
        /\ conn' = [conn EXCEPT ![p] = CollectResends(@, due)]
        /\ net' = [net EXCEPT ![p] = @ \cup ResentPackets(conn[p], due)]
        /\ UNCHANGED <<submitted, delivered, heard>>
  BY DEF Resend
<1> DEFINE c == CollectResends(conn[p], due)
           D == ResentPackets(conn[p], due)
<1>3. /\ due \in Seq(conn[p].pending) /\ Len(due) \in Nat
      /\ conn[p].sendSeq + Len(due) < WireMod
  BY <1>1, DueListsFacts, SizesAssumption, ReliabilityAssumption
<1>4. /\ c.nextSeq = conn[p].nextSeq /\ c.pending = conn[p].pending
      /\ c.expected = conn[p].expected /\ c.buffer = conn[p].buffer
  BY <1>1, <1>3, CollectResendsFacts
<1>5. ASSUME NEW e \in D
      PROVE  \E m \in conn[p].pending : e.ch = m.ch /\ e.cseq = m.cseq /\ e.msg = m.msg
  <2>1. PICK i \in DOMAIN due :
          e = Packet(conn[p], WrapAdd(conn[p].sendSeq, i - 1, WireMod), due[i].ch, due[i].cseq, due[i].msg)
    BY DEF ResentPackets
  <2>2. due[i] \in conn[p].pending
    BY <1>3, <2>1, ElementOfSeq
  <2>3. e.ch = due[i].ch /\ e.cseq = due[i].cseq /\ e.msg = due[i].msg
    BY <2>1 DEF Packet
  <2>4. QED BY <2>2, <2>3
<1>6. conn' = [conn EXCEPT ![p] = c] /\ net' = [net EXCEPT ![p] = @ \cup D]
  BY <1>2
<1> HIDE DEF c, D
<1>7. ASSUME NEW q \in Peers
      PROVE  /\ conn'[q].nextSeq = conn[q].nextSeq /\ conn'[q].pending = conn[q].pending
             /\ conn'[q].expected = conn[q].expected /\ conn'[q].buffer = conn[q].buffer
             /\ \A m \in net'[q] : m \in net[q] \/ (q = p /\ m \in D)
  BY <1>4, <1>6 DEF OrderedInv, TypeOK
<1>8. submitted' = submitted /\ delivered' = delivered
  BY <1>2
<1>9. SequencesTrackMessages'
  <2>1. ASSUME NEW q \in Peers
        PROVE  /\ conn'[q].nextSeq[Ordered] = submitted'[q][Ordered] % ChanMod
               /\ conn'[q].expected = Len(delivered'[q][Ordered]) % ChanMod
               /\ submitted'[Other(q)][Ordered] - Len(delivered'[q][Ordered]) <= Window
    BY <1>7, <1>8 DEF OrderedInv, SequencesTrackMessages
  <2>2. ASSUME NEW q \in Peers, NEW m \in conn'[q].pending \cup net'[q], m.ch = Ordered
        PROVE  m.msg \in 1 .. submitted[q][Ordered] /\ m.cseq = (m.msg - 1) % ChanMod
    <3>1. PICK o \in conn[q].pending \cup net[q] :
            m.ch = o.ch /\ m.cseq = o.cseq /\ m.msg = o.msg
      <4>1. CASE m \in conn[q].pending \cup net[q]
        BY <4>1
      <4>2. CASE q = p /\ m \in D
        BY <1>5, <4>2
      <4>3. QED BY <1>7, <2>2, <4>1, <4>2
    <3>2. QED BY <2>2, <3>1 DEF OrderedInv, SequencesTrackMessages
  <2>3. QED BY <1>8, <2>1, <2>2 DEF SequencesTrackMessages
<1>10. OrderedInOrder'
  BY <1>8 DEF OrderedInv, OrderedInOrder
<1>11. BufferAhead'
  BY <1>7, <1>8 DEF OrderedInv, BufferAhead
<1>12. QED BY <1>9, <1>10, <1>11

\* What process_packet does to the ordered channel: nothing, or one
\* AcceptOrdered on a connection with the same expected and buffer.
LEMMA ProcessPacketOrdered ==
  ASSUME NEW c \in ConnectionState, NEW p \in Datagram, Len(c.recv.recent) <= MaxRecent
  PROVE  \/ /\ p.ch = Ordered => Result(c, p) = << >>
            /\ ProcessPacket(c, p).expected = c.expected
            /\ ProcessPacket(c, p).buffer = c.buffer
         \/ /\ p.ch = Ordered
            /\ \E r \in ConnectionState :
                 /\ r.expected = c.expected /\ r.buffer = c.buffer
                 /\ Result(c, p) = OrderedResult(r, p)
                 /\ ProcessPacket(c, p) = AcceptOrdered(r, p)
<1> DEFINE s == HandleAcks(c, p)
           r == [s EXCEPT !.recv = RecordReceived(s.recv, p.seq)]
           d == ProcessPacket(c, p)
<1>1. p.seq \in Nat /\ p.ch \in {Unreliable, Reliable, Ordered} /\ p.cseq \in ChanSeq
  BY DEF Datagram, Channels
<1>2. s \in ConnectionState /\ s.expected = c.expected /\ s.buffer = c.buffer
  BY HandleAcksFacts
<1>3. r \in ConnectionState /\ r.expected = c.expected /\ r.buffer = c.buffer
  BY <1>1, RecordedFacts
<1>4. Unreliable # Reliable /\ Unreliable # Ordered /\ Reliable # Ordered
  BY DEF Unreliable, Reliable, Ordered
<1>5. OrderedResult(c, p) = OrderedResult(r, p)
  <2> HIDE DEF r
  <2>1. QED BY <1>3 DEF OrderedResult
<1> HIDE DEF s, r, d
<1>6. CASE Seen(c.recv, p.seq)
  <2>1. d = s /\ Result(c, p) = << >>
    BY <1>6 DEF ProcessPacket, Result, d, s
  <2>2. QED BY <1>2, <2>1 DEF d
<1>7. CASE ~Seen(c.recv, p.seq) /\ p.ch = Unreliable
  <2>1. d = r
    BY <1>4, <1>7 DEF ProcessPacket, d, s, r
  <2>2. QED BY <1>3, <1>4, <1>7, <2>1 DEF d
<1>8. CASE ~Seen(c.recv, p.seq) /\ p.ch = Reliable
  <2>1. d = AcceptReliable(r, p)
    BY <1>4, <1>8 DEF ProcessPacket, d, s, r
  <2>2. d.expected = r.expected /\ d.buffer = r.buffer
    <3>1. CASE InHistory(r, p)
      BY <2>1, <3>1 DEF AcceptReliable
    <3>2. CASE ~InHistory(r, p)
      <4> DEFINE kept == IF Len(r.history) >= HistorySize THEN Tail(r.history) ELSE r.history
                 hist == Append(kept, p.cseq)
      <4>1. d = [r EXCEPT !.history = hist]
        BY <2>1, <3>2 DEF AcceptReliable
      <4> HIDE DEF hist
      <4>2. QED BY <1>3, <4>1 DEF ConnectionState
    <3>3. QED BY <3>1, <3>2
  <2>3. QED BY <1>3, <1>4, <1>8, <2>2 DEF d
<1>9. CASE ~Seen(c.recv, p.seq) /\ p.ch = Ordered
  <2>1. d = AcceptOrdered(r, p) /\ Result(c, p) = OrderedResult(c, p)
    BY <1>4, <1>9 DEF ProcessPacket, Result, d, s, r
  <2>2. QED BY <1>3, <1>5, <1>9, <2>1 DEF d
<1>10. QED BY <1>1, <1>6, <1>7, <1>8, <1>9

\* Appending the next messages to the first L gives the first n.
LEMMA AppendNext ==
  ASSUME NEW L \in Nat, NEW n \in Nat, L <= n
  PROVE  FirstMessages(L) \o MessagesAfter(L, n) = FirstMessages(n)
<1> DEFINE a == [i \in 1 .. L |-> i]
           b == [i \in 1 .. n - L |-> L + i]
           u == a \o b
           v == [i \in 1 .. n |-> i]
<1>1. a \in Seq(Nat) /\ Len(a) = L /\ \A i \in 1 .. L : a[i] = i
  OBVIOUS
<1>2. b \in Seq(Nat) /\ Len(b) = n - L /\ \A i \in 1 .. n - L : b[i] = L + i
  OBVIOUS
<1>3. v \in Seq(Nat) /\ Len(v) = n /\ \A i \in 1 .. n : v[i] = i
  OBVIOUS
<1> HIDE DEF a, b, v
<1>4. /\ u \in Seq(Nat) /\ Len(u) = n
      /\ \A i \in 1 .. L : u[i] = a[i]
      /\ \A i \in L + 1 .. n : u[i] = b[i - L]
  BY <1>1, <1>2
<1> HIDE DEF u
<1>5. ASSUME NEW i \in 1 .. n PROVE u[i] = v[i]
  <2>1. CASE i <= L
    BY <1>1, <1>3, <1>4, <2>1
  <2>2. CASE i > L
    <3>1. i \in L + 1 .. n /\ i - L \in 1 .. n - L
      BY <2>2
    <3>2. u[i] = L + (i - L)
      BY <1>2, <1>4, <3>1
    <3>3. QED BY <1>3, <3>2
  <2>3. QED BY <2>1, <2>2
<1>6. u = v
  BY <1>3, <1>4, <1>5, SeqEqual
<1>7. QED BY <1>6 DEF a, b, u, v, FirstMessages, MessagesAfter

\* What a received datagram does to the ordered channel of its receiver:
\* messages L+1 .. n are delivered, for some n the sender has submitted.
LEMMA ReceiveStep ==
  ASSUME HalfWindow, OrderedInv, NEW p \in Peers, NEW d \in net[Other(p)], Receive(p, d)
  PROVE  \E n \in Len(delivered[p][Ordered]) .. submitted[Other(p)][Ordered] :
           /\ delivered'[p][Ordered] = FirstMessages(n)
           /\ conn'[p].expected = n % ChanMod
           /\ \A e \in conn'[p].buffer :
                /\ e.msg \in n + 2 .. submitted[Other(p)][Ordered]
                /\ e.cseq = (e.msg - 1) % ChanMod
<1> DEFINE L == Len(delivered[p][Ordered])
           S == submitted[Other(p)][Ordered]
           c == conn[p]
           x == ProcessPacket(c, d)
           r == Result(c, d)
<1>1. /\ c \in ConnectionState /\ d \in Datagram /\ d.ch \in Channels
      /\ Len(c.recv.recent) <= MaxRecent /\ Ordered \in Channels
      /\ delivered[p] \in [Channels -> Seq(Nat)]
  <2>1. /\ conn \in [Peers -> ConnectionState] /\ net \in [Peers -> SUBSET Datagram]
        /\ delivered \in [Peers -> [Channels -> Seq(Nat)]]
        /\ Len(conn[p].recv.recent) <= MaxRecent
    BY DEF OrderedInv, TypeOK
  <2>2. c \in ConnectionState /\ d \in Datagram /\ delivered[p] \in [Channels -> Seq(Nat)]
    BY <2>1, OtherPeer
  <2>3. d.ch \in Channels /\ Ordered \in Channels
    BY <2>2 DEF Datagram, Channels
  <2>4. QED BY <2>1, <2>2, <2>3
<1>2. L \in Nat /\ S \in Nat /\ delivered[p][Ordered] = FirstMessages(L)
  <2>1. Ordered \in Channels
    BY DEF Channels
  <2>2. delivered[p][Ordered] \in Seq(Nat) /\ submitted[Other(p)][Ordered] \in Nat
    BY <2>1, OtherPeer DEF OrderedInv, TypeOK
  <2>3. QED BY <2>2 DEF OrderedInv, OrderedInOrder, FirstMessages
<1>3. /\ L <= S /\ S - L <= Window
      /\ c.expected = L % ChanMod
      /\ \A e \in c.buffer : e.msg \in L + 2 .. S /\ e.cseq = (e.msg - 1) % ChanMod
  BY DEF OrderedInv, OrderedInOrder, SequencesTrackMessages, BufferAhead
<1>4. d.ch = Ordered =>
        d.msg \in 1 .. S /\ d.cseq = (d.msg - 1) % ChanMod /\ L - d.msg < Window
  BY OtherPeer DEF OrderedInv, SequencesTrackMessages, Receive, Arrives
<1>5. /\ conn'[p] = x
      /\ delivered'[p][Ordered] =
           IF d.ch = Ordered THEN delivered[p][Ordered] \o r ELSE delivered[p][Ordered]
  <2>1. /\ conn' = [conn EXCEPT ![p] = x]
        /\ delivered' = [delivered EXCEPT ![p][d.ch] = @ \o r]
    BY DEF Receive
  <2> HIDE DEF x, r
  <2>2. QED BY <1>1, <2>1 DEF OrderedInv, TypeOK
<1>6. CASE /\ d.ch = Ordered => r = << >>
           /\ x.expected = c.expected
           /\ x.buffer = c.buffer
  <2>1. delivered'[p][Ordered] = FirstMessages(L)
    <3>1. delivered[p][Ordered] \o << >> = delivered[p][Ordered]
      BY <1>1
    <3>2. QED BY <1>2, <1>5, <1>6, <3>1
  <2>2. L \in L .. S
    BY <1>2, <1>3
  <2> HIDE DEF L, S, c, x, r
  <2>3. QED BY <1>3, <1>5, <1>6, <2>1, <2>2 DEF L, S
<1>7. CASE /\ d.ch = Ordered
           /\ \E a \in ConnectionState :
                /\ a.expected = c.expected /\ a.buffer = c.buffer
                /\ r = OrderedResult(a, d)
                /\ x = AcceptOrdered(a, d)
  <2>1. PICK a \in ConnectionState :
          /\ a.expected = c.expected /\ a.buffer = c.buffer
          /\ r = OrderedResult(a, d) /\ x = AcceptOrdered(a, d)
    BY <1>7
  <2> HIDE DEF L, S, c, x, r
  <2>2. /\ L \in Nat /\ S \in Nat /\ L <= S /\ S - L <= Window
        /\ a.expected = L % ChanMod
        /\ \A e \in a.buffer : e.msg \in L + 2 .. S /\ e.cseq = (e.msg - 1) % ChanMod
        /\ d.msg \in 1 .. S /\ d.cseq = (d.msg - 1) % ChanMod /\ L - d.msg < Window
    BY <1>2, <1>3, <1>4, <1>7, <2>1
  <2>3. PICK n \in L .. S :
          /\ OrderedResult(a, d) = MessagesAfter(L, n)
          /\ AcceptOrdered(a, d).expected = n % ChanMod
          /\ \A e \in AcceptOrdered(a, d).buffer :
               e.msg \in n + 2 .. S /\ e.cseq = (e.msg - 1) % ChanMod
    BY <2>2, OrderedStep, Zenon
  <2>4. n \in Nat /\ L <= n
    BY <1>2
  <2>5. delivered'[p][Ordered] = FirstMessages(n)
    <3>1. delivered'[p][Ordered] = FirstMessages(L) \o MessagesAfter(L, n)
      BY <1>2, <1>5, <1>7, <2>1, <2>3
    <3>2. QED BY <1>2, <2>4, <3>1, AppendNext
  <2>6. QED BY <1>5, <2>1, <2>3, <2>5 DEF L, S
<1>8. QED
  <2> HIDE DEF x, r, c, L, S
  <2>1. \/ /\ d.ch = Ordered => r = << >>
           /\ x.expected = c.expected
           /\ x.buffer = c.buffer
        \/ /\ d.ch = Ordered
           /\ \E a \in ConnectionState :
                /\ a.expected = c.expected /\ a.buffer = c.buffer
                /\ r = OrderedResult(a, d)
                /\ x = AcceptOrdered(a, d)
    BY <1>1, ProcessPacketOrdered DEF x, r
  <2>2. QED BY <1>6, <1>7, <2>1

\* Receiving keeps the invariant of the ordered channel.
LEMMA ReceiveOrdered ==
  ASSUME HalfWindow, OrderedInv, NEW p \in Peers, NEW d \in net[Other(p)], Receive(p, d)
  PROVE  SequencesTrackMessages' /\ OrderedInOrder' /\ BufferAhead'
<1> DEFINE c == ProcessPacket(conn[p], d)
           r == Result(conn[p], d)
           L == Len(delivered[p][Ordered])
           S == submitted[Other(p)][Ordered]
<1>1. PICK n \in L .. S :
        /\ delivered'[p][Ordered] = FirstMessages(n)
        /\ conn'[p].expected = n % ChanMod
        /\ \A e \in conn'[p].buffer : e.msg \in n + 2 .. S /\ e.cseq = (e.msg - 1) % ChanMod
  BY ReceiveStep
<1>2. /\ conn[p] \in ConnectionState /\ d \in Datagram /\ d.ch \in Channels
      /\ Len(conn[p].recv.recent) <= MaxRecent /\ Len(conn[p].history) <= HistorySize
      /\ Ordered \in Channels
  <2>1. /\ conn \in [Peers -> ConnectionState] /\ net \in [Peers -> SUBSET Datagram]
        /\ Len(conn[p].recv.recent) <= MaxRecent /\ Len(conn[p].history) <= HistorySize
    BY DEF OrderedInv, TypeOK
  <2>2. conn[p] \in ConnectionState /\ d \in Datagram
    BY <2>1, OtherPeer
  <2>3. QED BY <2>1, <2>2 DEF Datagram, Channels
<1>3. c.nextSeq = conn[p].nextSeq /\ c.pending \subseteq conn[p].pending
  BY <1>2, ProcessPacketFacts
<1>4. /\ L \in Nat /\ S \in Nat /\ L <= S /\ S - L <= Window /\ Window \in Nat
  <2>1. delivered[p][Ordered] \in Seq(Nat) /\ submitted[Other(p)][Ordered] \in Nat
    BY <1>2, OtherPeer DEF OrderedInv, TypeOK
  <2>2. QED BY <2>1, ReliabilityAssumption DEF OrderedInv, OrderedInOrder, SequencesTrackMessages
<1>5. n \in Nat /\ L <= n /\ n <= S /\ S - n <= Window
  <2> HIDE DEF L, S
  <2>1. QED BY <1>4
<1>6. /\ delivered'[p][Ordered] = [i \in 1 .. Len(delivered'[p][Ordered]) |-> i]
      /\ Len(delivered'[p][Ordered]) = n
  <2>1. Len(FirstMessages(n)) = n
    BY <1>5 DEF FirstMessages
  <2>2. QED BY <1>1, <2>1 DEF FirstMessages
<1>7. ASSUME NEW q \in Peers, q # p
      PROVE  conn'[q] = conn[q] /\ delivered'[q][Ordered] = delivered[q][Ordered]
  BY <1>7 DEF Receive, OrderedInv, TypeOK
<1>8. /\ conn'[p] = c
      /\ net' = net /\ submitted' = submitted
  <2>1. conn' = [conn EXCEPT ![p] = c] /\ net' = net /\ submitted' = submitted
    BY DEF Receive
  <2> HIDE DEF c
  <2>2. QED BY <2>1 DEF OrderedInv, TypeOK
<1> HIDE DEF c, r, L
<1>9. SequencesTrackMessages'
  <2>1. ASSUME NEW q \in Peers
        PROVE  /\ conn'[q].nextSeq[Ordered] = submitted'[q][Ordered] % ChanMod
               /\ conn'[q].expected = Len(delivered'[q][Ordered]) % ChanMod
               /\ submitted'[Other(q)][Ordered] - Len(delivered'[q][Ordered]) <= Window
               /\ \A m \in conn'[q].pending \cup net'[q] : m.ch = Ordered =>
                    /\ m.msg \in 1 .. submitted'[q][Ordered]
                    /\ m.cseq = (m.msg - 1) % ChanMod
    <3>1. /\ conn[q].nextSeq[Ordered] = submitted[q][Ordered] % ChanMod
          /\ conn[q].expected = Len(delivered[q][Ordered]) % ChanMod
          /\ submitted[Other(q)][Ordered] - Len(delivered[q][Ordered]) <= Window
          /\ \A m \in conn[q].pending \cup net[q] : m.ch = Ordered =>
               /\ m.msg \in 1 .. submitted[q][Ordered]
               /\ m.cseq = (m.msg - 1) % ChanMod
      BY DEF OrderedInv, SequencesTrackMessages
    <3>2. CASE q = p
      BY <1>1, <1>3, <1>5, <1>6, <1>8, <3>1, <3>2
    <3>3. CASE q # p
      BY <1>7, <1>8, <3>1, <3>3
    <3>4. QED BY <3>2, <3>3
  <2>2. QED BY <2>1 DEF SequencesTrackMessages
<1>10. OrderedInOrder'
  <2>1. ASSUME NEW q \in Peers
        PROVE  /\ delivered'[q][Ordered] = [i \in 1 .. Len(delivered'[q][Ordered]) |-> i]
               /\ Len(delivered'[q][Ordered]) <= submitted'[Other(q)][Ordered]
    <3>1. CASE q = p
      BY <1>5, <1>6, <1>8, <3>1
    <3>2. CASE q # p
      BY <1>7, <1>8, <3>2 DEF OrderedInv, OrderedInOrder
    <3>3. QED BY <3>1, <3>2
  <2>2. QED BY <2>1 DEF OrderedInOrder
<1>11. BufferAhead'
  <2>1. ASSUME NEW q \in Peers, NEW e \in conn'[q].buffer
        PROVE  /\ e.msg \in Len(delivered'[q][Ordered]) + 2 .. submitted'[Other(q)][Ordered]
               /\ e.cseq = (e.msg - 1) % ChanMod
    <3>1. CASE q = p
      BY <1>1, <1>6, <1>8, <2>1, <3>1
    <3>2. CASE q # p
      BY <1>7, <1>8, <2>1, <3>2 DEF OrderedInv, BufferAhead
    <3>3. QED BY <3>1, <3>2
  <2>2. QED BY <2>1 DEF BufferAhead
<1>12. QED BY <1>9, <1>10, <1>11
-----------------------------------------------------------------------------
(* The theorems.                                                           *)

\* Every step keeps the invariant of the ordered channel.
LEMMA OrderedStepInv ==
  ASSUME HalfWindow
  PROVE  OrderedInv /\ [Next]_vars => OrderedInv'
<1> SUFFICES ASSUME OrderedInv, [Next]_vars PROVE OrderedInv'
  OBVIOUS
<1>1. TypeOK
  BY DEF OrderedInv
<1>2. ASSUME NEW p \in Peers, NEW ch \in Channels, Send(p, ch) PROVE OrderedInv'
  BY <1>1, <1>2, SendType, SendOrdered DEF OrderedInv
<1>3. ASSUME NEW p \in Peers, Resend(p) PROVE OrderedInv'
  BY <1>1, <1>3, ResendType, ResendOrdered DEF OrderedInv
<1>4. ASSUME NEW p \in Peers, NEW d \in net[Other(p)], Receive(p, d) PROVE OrderedInv'
  BY <1>1, <1>4, ReceiveType, ReceiveOrdered DEF OrderedInv
<1>5. CASE UNCHANGED vars
  BY <1>5 DEF vars, OrderedInv, TypeOK, SequencesTrackMessages, OrderedInOrder, BufferAhead
<1>6. QED BY <1>2, <1>3, <1>4, <1>5 DEF Next

\* OrderedDelivery: whatever the sizes of the two connections, and however
\* often the 16-bit sequences wrap, the ordered channel delivers messages
\* 1, 2, 3, ... and buffers only what is ahead, provided that no ordered
\* message strays half the sequence space from the one expected.
THEOREM OrderedDelivery ==
  ASSUME HalfWindow
  PROVE  Spec => []OrderedIsExact
<1>1. Init => OrderedInv
  BY InitOrdered
<1>2. OrderedInv /\ [Next]_vars => OrderedInv'
  BY OrderedStepInv
<1>3. OrderedInv => OrderedIsExact
  BY DEF OrderedInv, OrderedIsExact
<1>4. QED BY <1>1, <1>2, <1>3, PTL DEF Spec

\* Every step of the two connections is a step of OrderedChannel: an ordered
\* Send is a Submit, a Receive that hands ordered messages over is a Deliver,
\* everything else leaves the abstract variables unchanged.
LEMMA RefinementInit == Init => Abstract!Init
<1> SUFFICES ASSUME Init PROVE Abstract!Init
  OBVIOUS
<1>1. Ordered # Unreliable /\ Ordered \in Channels
  BY DEF Ordered, Unreliable, Channels
<1>2. ASSUME NEW p \in Peers PROVE submitted[p][Ordered] = 0 /\ ReceivedFrom(p) = << >>
  <2>1. /\ submitted = [q \in Peers |-> [ch \in Channels |->
                         IF q = Client /\ ch = Unreliable THEN 1 ELSE 0]]
        /\ delivered = [q \in Peers |-> [ch \in Channels |-> << >>]]
    BY DEF Init
  <2>2. Other(p) \in Peers
    BY OtherPeer
  <2>3. QED BY <1>1, <2>1, <2>2 DEF ReceivedFrom
<1>3. QED BY <1>2 DEF Abstract!Init

\* A step appends to at most one abstract channel, or stutters.
LEMMA RefinementStep ==
  ASSUME HalfWindow, OrderedInv, [Next]_vars
  PROVE  [Abstract!Next]_(Abstract!vars)
<1> DEFINE sent == [p \in Peers |-> submitted[p][Ordered]]
           received == [p \in Peers |-> ReceivedFrom(p)]
<1>1. /\ Ordered # Unreliable /\ Ordered \in Channels
      /\ submitted \in [Peers -> [Channels -> Nat]]
      /\ delivered \in [Peers -> [Channels -> Seq(Nat)]]
  BY DEF Ordered, Unreliable, Channels, OrderedInv, TypeOK
<1>2. ASSUME NEW p \in Peers, NEW ch \in Channels, Send(p, ch)
      PROVE  [Abstract!Next]_(Abstract!vars)
  <2>1. submitted' = [submitted EXCEPT ![p][ch] = submitted[p][ch] + 1] /\ delivered' = delivered
    BY <1>2 DEF Send
  <2>2. received' = received
    BY <2>1 DEF ReceivedFrom
  <2>3. CASE ch = Ordered
    <3>1. sent' = [sent EXCEPT ![p] = @ + 1]
      BY <1>1, <2>1, <2>3
    <3>2. Abstract!Submit(p)
      BY <2>2, <3>1 DEF Abstract!Submit
    <3>3. QED BY <3>2 DEF Abstract!Next
  <2>4. CASE ch # Ordered
    <3>1. sent' = sent
      BY <1>1, <2>1, <2>4
    <3>2. QED BY <2>2, <3>1 DEF Abstract!vars
  <2>5. QED BY <2>3, <2>4
<1>3. ASSUME NEW p \in Peers, Resend(p) PROVE [Abstract!Next]_(Abstract!vars)
  <2>1. submitted' = submitted /\ delivered' = delivered
    BY <1>3 DEF Resend
  <2>2. QED BY <2>1 DEF Abstract!vars, ReceivedFrom
<1>4. ASSUME NEW p \in Peers, NEW d \in net[Other(p)], Receive(p, d)
      PROVE  [Abstract!Next]_(Abstract!vars)
  <2> DEFINE q == Other(p)
             L == Len(delivered[p][Ordered])
  <2>1. q \in Peers /\ Other(q) = p
    BY OtherPeer
  <2>2. PICK n \in L .. submitted[q][Ordered] : delivered'[p][Ordered] = FirstMessages(n)
    BY <1>4, ReceiveStep
  <2>3. submitted' = submitted /\ \E x : delivered' = [delivered EXCEPT ![p][d.ch] = x]
    BY <1>4 DEF Receive
  <2>4. sent' = sent
    BY <2>3
  <2>5. received' = [received EXCEPT ![q] = FirstMessages(n)]
    <3>1. ASSUME NEW r \in Peers
          PROVE  received'[r] = IF r = q THEN FirstMessages(n) ELSE received[r]
      <4>1. CASE r = q
        BY <2>1, <2>2, <4>1 DEF ReceivedFrom
      <4>2. CASE r # q
        <5>1. Other(r) # p /\ Other(r) \in Peers
          BY <2>1, <4>2, OtherPeer
        <5>2. delivered'[Other(r)] = delivered[Other(r)]
          BY <1>1, <2>3, <5>1
        <5>3. QED BY <4>2, <5>2 DEF ReceivedFrom
      <4>3. QED BY <4>1, <4>2
    <3>2. QED BY <2>1, <3>1
  <2>6. L \in Nat /\ Len(received[q]) = L /\ received[q] = FirstMessages(L)
    <3>1. received[q] = delivered[p][Ordered]
      BY <2>1 DEF ReceivedFrom
    <3>2. delivered[p][Ordered] = FirstMessages(L)
      BY DEF OrderedInv, OrderedInOrder, FirstMessages
    <3>3. L \in Nat
      BY <1>1
    <3>4. QED BY <3>1, <3>2, <3>3
  <2>7. CASE n = L
    <3>1. received' = received
      BY <2>1, <2>5, <2>6, <2>7
    <3>2. QED BY <2>4, <3>1 DEF Abstract!vars
  <2>8. CASE n # L
    <3>1. submitted[q][Ordered] \in Nat /\ sent[q] = submitted[q][Ordered]
      BY <1>1, <2>1
    <3>2. n \in Len(received[q]) + 1 .. sent[q]
      <4> DEFINE S == submitted[q][Ordered]
      <4>1. n \in L + 1 .. S
        <5> HIDE DEF L, S
        <5>1. L \in Nat /\ S \in Nat /\ n \in L .. S
          BY <2>6, <3>1 DEF S
        <5>2. QED BY <2>8, <5>1
      <4>2. QED BY <2>6, <3>1, <4>1
    <3>3. Abstract!Deliver(q)
      BY <2>4, <2>5, <3>2 DEF Abstract!Deliver, FirstMessages
    <3>4. QED BY <2>1, <3>3 DEF Abstract!Next
  <2>9. QED BY <2>7, <2>8
<1>5. CASE UNCHANGED vars
  BY <1>5 DEF vars, Abstract!vars, ReceivedFrom
<1>6. QED BY <1>2, <1>3, <1>4, <1>5 DEF Next

\* OrderedRefinement: under the same assumption the two connections implement
\* OrderedChannel, in each direction.
THEOREM OrderedRefinement ==
  ASSUME HalfWindow
  PROVE  Spec => ImplementsOrderedChannel
<1>1. Init => OrderedInv /\ Abstract!Init
  BY InitOrdered, RefinementInit
<1>2. OrderedInv /\ [Next]_vars => OrderedInv'
  BY OrderedStepInv
<1>3. OrderedInv /\ [Next]_vars => [Abstract!Next]_(Abstract!vars)
  BY RefinementStep
<1>4. QED BY <1>1, <1>2, <1>3, PTL DEF Spec, Abstract!Spec, ImplementsOrderedChannel
-----------------------------------------------------------------------------
(* At most once.                                                           *)

\* SentRight: what c has sent, of the messages sub, is in N: a sequence of the
\* reliable channel names one message, and an unreliable message travels once
SentRight(c, N, sub) ==
  /\ sub[Reliable] <= HistorySize
  /\ sub[Reliable] < ChanMod => c.nextSeq[Reliable] = sub[Reliable]
  /\ \A m \in c.pending \cup N : m.ch = Reliable =>
       m.msg \in 1 .. sub[Reliable] /\ m.cseq = m.msg - 1
  /\ \A d \in N : d.ch = Unreliable => d.msg \in 1 .. sub[Unreliable]
  /\ \A d, e \in N : d.ch = Unreliable /\ e.ch = Unreliable /\ d.msg = e.msg => d.seq = e.seq

\* RecentRight: recent_sequences, of a peer that has used the sequences below n,
\* holds each once, and none arrived more than MaxAge late
RecentRight(recent, n) ==
  /\ IsInjective(recent)
  /\ \A i \in DOMAIN recent : recent[i] < n
  /\ \A i, j \in DOMAIN recent : i < j => recent[i] < recent[j] + MaxAge

\* ReliableRight: received_reliable_history has the sequence of every message
ReliableRight(history, del, sub) ==
  /\ IsInjective(del)
  /\ \A i \in DOMAIN del : del[i] \in 1 .. sub
  /\ Len(history) = Len(del)
  /\ \A i \in DOMAIN del : history[i] = del[i] - 1

\* UnreliableRight: a datagram of N whose message was delivered is remembered,
\* or too old to arrive again
UnreliableRight(recent, del, N, sub, n) ==
  /\ IsInjective(del)
  /\ \A i \in DOMAIN del : del[i] \in 1 .. sub
  /\ \A d \in N : d.ch = Unreliable /\ d.msg \in ToSet(del) =>
       d.seq \in ToSet(recent) \/ d.seq + MaxAge < n

\* ReceivedRight: the three of one end, which delivered del; N are the datagrams
\* of its peer, sub the messages and n the wire sequences
ReceivedRight(c, del, N, sub, n) ==
  /\ RecentRight(c.recv.recent, n)
  /\ ReliableRight(c.history, del[Reliable], sub[Reliable])
  /\ UnreliableRight(c.recv.recent, del[Unreliable], N, sub[Unreliable], n)

SentInv == \A p \in Peers : SentRight(conn[p], net[p], submitted[p])

ReceivedInv ==
  \A p \in Peers : ReceivedRight(conn[p], delivered[p], net[Other(p)], submitted[Other(p)],
                                 conn[Other(p)].sendSeq)

\* OnceInv: the strengthening of AtMostOnce on the two channels that have no
\* order of their own
OnceInv == SentInv /\ ReceivedInv

\* ProcessPacketOnce: what process_packet does to the two histories, and what it
\* delivers on the channels that have no order of their own.
LEMMA ProcessPacketOnce ==
  ASSUME NEW c \in ConnectionState, NEW p \in Datagram,
         Len(c.recv.recent) <= MaxRecent, Len(c.history) <= HistorySize
  PROVE  LET d == ProcessPacket(c, p)
             r == RecordReceived(c.recv, p.seq) IN
         \/ /\ Seen(c.recv, p.seq)
            /\ d.recv = c.recv /\ d.history = c.history /\ Result(c, p) = << >>
         \/ /\ ~Seen(c.recv, p.seq)
            /\ p.ch = Unreliable
            /\ d.recv = r /\ d.history = c.history /\ Result(c, p) = <<p.msg>>
         \/ /\ ~Seen(c.recv, p.seq)
            /\ p.ch = Reliable /\ InHistory(c, p)
            /\ d.recv = r /\ d.history = c.history /\ Result(c, p) = << >>
         \/ /\ ~Seen(c.recv, p.seq)
            /\ p.ch = Reliable /\ ~InHistory(c, p) /\ d.recv = r /\ Result(c, p) = <<p.msg>>
            /\ Len(c.history) < HistorySize => d.history = Append(c.history, p.cseq)
         \/ /\ ~Seen(c.recv, p.seq)
            /\ p.ch = Ordered /\ d.recv = r /\ d.history = c.history
<1> DEFINE s == HandleAcks(c, p)
           r == RecordReceived(c.recv, p.seq)
           t == [s EXCEPT !.recv = RecordReceived(s.recv, p.seq)]
           d == ProcessPacket(c, p)
<1>1. /\ p.seq \in Nat /\ p.cseq \in ChanSeq /\ p.msg \in Nat
      /\ p.ch \in {Unreliable, Reliable, Ordered}
      /\ Unreliable # Reliable /\ Unreliable # Ordered /\ Reliable # Ordered
  BY DEF Datagram, Channels, Unreliable, Reliable, Ordered
<1>2. s \in ConnectionState /\ s.recv = c.recv /\ s.history = c.history
  BY HandleAcksFacts
<1>3. t \in ConnectionState /\ t.history = c.history
  BY <1>1, RecordedFacts
<1>4. t.recv = r
  <2>1. t.recv = RecordReceived(s.recv, p.seq)
    <3> HIDE DEF s
    <3> QED BY <1>2 DEF ConnectionState
  <2> QED BY <1>2, <2>1
<1> HIDE DEF s, r, t, d
<1>5. CASE Seen(c.recv, p.seq)
  <2>1. d = s /\ Result(c, p) = << >>
    BY <1>5 DEF ProcessPacket, Result, d, s
  <2> QED BY <1>2, <1>5, <2>1 DEF d
<1>6. CASE ~Seen(c.recv, p.seq) /\ p.ch = Unreliable
  <2>1. d = t /\ Result(c, p) = <<p.msg>>
    BY <1>1, <1>6 DEF ProcessPacket, Result, d, s, t
  <2> QED BY <1>3, <1>4, <1>6, <2>1 DEF d, r
<1>7. CASE ~Seen(c.recv, p.seq) /\ p.ch = Reliable
  <2>1. /\ d = AcceptReliable(t, p)
        /\ Result(c, p) = IF InHistory(c, p) THEN << >> ELSE <<p.msg>>
    BY <1>1, <1>7 DEF ProcessPacket, Result, d, s, t
  <2>2. InHistory(t, p) <=> InHistory(c, p)
    BY <1>3 DEF InHistory
  <2>3. /\ d.recv = r
        /\ InHistory(c, p) => d.history = c.history
        /\ ~InHistory(c, p) /\ Len(c.history) < HistorySize => d.history = Append(c.history, p.cseq)
    <3>1. Len(t.history) <= HistorySize
      BY <1>3
    <3>2. /\ d.recv = t.recv
          /\ InHistory(t, p) => d.history = t.history
          /\ ~InHistory(t, p) /\ Len(t.history) < HistorySize =>
               d.history = Append(t.history, p.cseq)
      BY <1>1, <1>3, <2>1, <3>1, AcceptReliableFacts
    <3> QED BY <1>3, <1>4, <2>2, <3>2
  <2>4. CASE InHistory(c, p)
    BY <1>7, <2>1, <2>3, <2>4 DEF d, r
  <2>5. CASE ~InHistory(c, p)
    BY <1>7, <2>1, <2>3, <2>5 DEF d, r
  <2> QED BY <2>4, <2>5
<1>8. CASE ~Seen(c.recv, p.seq) /\ p.ch = Ordered
  <2>1. d = AcceptOrdered(t, p)
    BY <1>1, <1>8 DEF ProcessPacket, d, s, t
  <2>2. d.recv = t.recv /\ d.history = t.history
    BY <1>1, <1>3, <2>1, AcceptOrderedFacts
  <2> QED BY <1>3, <1>4, <1>8, <2>2 DEF d, r
<1> QED BY <1>1, <1>5, <1>6, <1>7, <1>8

\* RecentAfter: record_received appends a new sequence, and drops the oldest
\* when it is full.
LEMMA RecentAfter ==
  ASSUME NEW rt \in TrackerState, Len(rt.recent) <= MaxRecent, NEW s \in Nat
  PROVE  LET r == RecordReceived(rt, s).recent IN
         \/ Len(rt.recent) < MaxRecent /\ r = Append(rt.recent, s)
         \/ /\ Len(rt.recent) = MaxRecent /\ rt.recent # << >>
            /\ r = Append(Tail(rt.recent), s)
<1>1. MaxRecent \in Nat \ {0} /\ rt.recent \in Seq(Nat) /\ Len(rt.recent) \in Nat
  BY SizesAssumption DEF TrackerState
<1>2. RecordReceived(rt, s).recent =
        Append(IF Len(rt.recent) >= MaxRecent THEN Tail(rt.recent) ELSE rt.recent, s)
  BY DEF RecordReceived
<1>3. CASE Len(rt.recent) < MaxRecent
  BY <1>1, <1>2, <1>3
<1>4. CASE Len(rt.recent) = MaxRecent
  <2>1. rt.recent # << >>
    BY <1>1, <1>4
  <2> QED BY <1>1, <1>2, <1>4, <2>1
<1> QED BY <1>1, <1>3, <1>4

\* Crowded: distinct sequences that all lie less than MaxAge below n, or above
\* the first of them less MaxAge, leave the first behind when there are many.
LEMMA Crowded ==
  ASSUME NEW s \in Seq(Nat), NEW n \in Nat, s # << >>, 2 * MaxAge <= MaxRecent + 1,
         Len(s) = MaxRecent + 1, RecentRight(s, n)
  PROVE  s[1] + MaxAge < n
<1>1. /\ Len(s) \in Nat /\ DOMAIN s = 1 .. Len(s) /\ 1 \in DOMAIN s
      /\ MaxAge \in Nat /\ MaxRecent \in Nat /\ s[1] \in Nat
  BY SizesAssumption, ReliabilityAssumption
<1> DEFINE q == s[1]
           D == DOMAIN s
           a == (q + 1) - MaxAge
           b == n - 1
<1>2. ASSUME NEW i \in D PROVE s[i] \in Nat /\ s[i] < n /\ (i # 1 => q < s[i] + MaxAge)
  BY <1>1, <1>2 DEF RecentRight
<1>3. CASE MaxAge = 0
  <2>1. q < n
    BY <1>1, <1>2
  <2> QED BY <1>1, <1>3, <2>1
<1>4. CASE MaxAge # 0
  <2>1. ASSUME NEW i \in D PROVE s[i] \in a .. b
    <3>1. q \in Nat /\ n \in Nat
      BY <1>1
    <3>2. CASE i = 1
      <4>1. s[i] = q /\ q < n /\ MaxAge \in Nat /\ MaxAge >= 1
        BY <1>1, <1>2, <1>4, <3>2
      <4> HIDE DEF q, D
      <4> QED BY <3>1, <4>1
    <3>3. CASE i # 1
      <4>1. s[i] \in Nat /\ s[i] < n /\ q < s[i] + MaxAge
        BY <1>2, <3>3
      <4> HIDE DEF q, D
      <4> QED BY <1>1, <3>1, <4>1
    <3> QED BY <3>2, <3>3
  <2>2. s \in [D -> a .. b]
    BY <1>1, <2>1
  <2>3. \A x, y \in D : s[x] = s[y] => x = y
    BY DEF RecentRight, IsInjective
  <2>4. a \in Int /\ b \in Int /\ a <= b + 1
    <3>1. s[1] \in a .. b /\ q \in Nat /\ n \in Nat
      BY <1>1, <2>1
    <3> HIDE DEF D
    <3> QED BY <1>1, <3>1
  <2>5. Cardinality(D) <= b - a + 1
    <3> HIDE DEF a, b, D
    <3> QED BY <2>2, <2>3, <2>4, CountedBy
  <2>6. Cardinality(D) = MaxRecent + 1
    BY <1>1, FS_Interval
  <2>7. q \in Nat
    BY <1>1
  <2> HIDE DEF D, q
  <2>8. MaxRecent + 1 <= ((n - 1) - ((q + 1) - MaxAge)) + 1
    BY <2>5, <2>6
  <2>9. q + MaxAge < n
    BY <1>1, <2>7, <2>8
  <2> QED BY <2>9 DEF q
<1> QED BY <1>3, <1>4

\* RecentStep: recording a sequence that arrives in time keeps RecentRight, and
\* forgets only what is too old to arrive again.
LEMMA RecentStep ==
  ASSUME NEW rt \in TrackerState, Len(rt.recent) <= MaxRecent, NEW s \in Nat, NEW n \in Nat,
         2 * MaxAge <= MaxRecent + 1, RecentRight(rt.recent, n),
         ~Seen(rt, s), s < n, n - s <= MaxAge
  PROVE  LET r == RecordReceived(rt, s).recent IN
         /\ RecentRight(r, n)
         /\ s \in ToSet(r)
         /\ \A x \in ToSet(rt.recent) : x \in ToSet(r) \/ x + MaxAge < n
<1> DEFINE old == rt.recent
           all == Append(old, s)
           r == RecordReceived(rt, s).recent
<1>1. PICK m \in Nat : m = Len(old) /\ DOMAIN old = 1 .. m /\ old \in Seq(Nat)
  BY DEF TrackerState
<1>0. MaxAge \in Nat /\ MaxRecent \in Nat \ {0}
  BY SizesAssumption, ReliabilityAssumption
<1>2. /\ all \in Seq(Nat) /\ Len(all) = m + 1 /\ DOMAIN all = 1 .. m + 1
      /\ \A i \in 1 .. m : all[i] = old[i]
      /\ all[m + 1] = s
  BY <1>0, <1>1
<1>3. /\ IsInjective(old)
      /\ \A i \in 1 .. m : old[i] \in Nat /\ old[i] < n /\ old[i] # s
      /\ \A i, j \in 1 .. m : i < j => old[i] < old[j] + MaxAge
  <2>1. IsInjective(old)
    BY DEF RecentRight
  <2>2. \A i \in DOMAIN old : old[i] < n /\ old[i] # s
    BY DEF RecentRight, Seen
  <2>3. \A i, j \in DOMAIN old : i < j => old[i] < old[j] + MaxAge
    BY DEF RecentRight
  <2>4. \A i \in DOMAIN old : old[i] \in Nat
    BY <1>1, ElementOfSeq
  <2> HIDE DEF old
  <2> QED BY <1>1, <2>1, <2>2, <2>3, <2>4
<1>4. \/ m < MaxRecent /\ r = all
      \/ m = MaxRecent /\ old # << >> /\ r = Append(Tail(old), s)
  BY <1>1, RecentAfter
<1> HIDE DEF old, all, r
<1>5. RecentRight(all, n)
  <2>1. IsInjective(all)
    <3>1. ASSUME NEW i \in 1 .. m + 1, NEW j \in 1 .. m + 1, all[i] = all[j], i < j
          PROVE  FALSE
      <4>1. i \in 1 .. m /\ all[i] = old[i] /\ old[i] # s
        BY <1>0, <1>1, <1>2, <1>3, <3>1
      <4>2. j \in 1 .. m /\ all[j] = old[j]
        <5>1. CASE j = m + 1
          BY <1>2, <3>1, <4>1, <5>1
        <5>2. CASE j # m + 1
          <6>1. j \in 1 .. m
            BY <1>1, <5>2
          <6> QED BY <1>2, <6>1
        <5> QED BY <5>1, <5>2
      <4>3. \A k, l \in DOMAIN old : old[k] = old[l] => k = l
        BY <1>3 DEF IsInjective
      <4>4. i \in DOMAIN old /\ j \in DOMAIN old /\ old[i] = old[j]
        BY <1>1, <3>1, <4>1, <4>2
      <4>5. i = j
        BY <4>3, <4>4
      <4> QED BY <1>1, <3>1, <4>5
    <3>2. \A i, j \in 1 .. m + 1 : i # j => i < j \/ j < i
      BY <1>0, <1>1
    <3>3. \A i, j \in DOMAIN all : all[i] = all[j] => i = j
      BY <1>2, <3>1, <3>2
    <3> QED BY <3>3 DEF IsInjective
  <2>2. ASSUME NEW i \in 1 .. m + 1 PROVE all[i] < n
    BY <1>0, <1>1, <1>2, <1>3, <2>2
  <2>3. ASSUME NEW i \in 1 .. m + 1, NEW j \in 1 .. m + 1, i < j
        PROVE  all[i] < all[j] + MaxAge
    <3>1. i \in 1 .. m /\ all[i] = old[i] /\ old[i] \in Nat /\ old[i] < n
      BY <1>0, <1>1, <1>2, <1>3, <2>3
    <3>2. CASE j = m + 1
      <4>1. all[j] = s
        BY <1>2, <3>2
      <4> QED BY <1>0, <1>1, <3>1, <4>1
    <3>3. CASE j # m + 1
      <4>1. j \in 1 .. m /\ all[j] = old[j]
        BY <1>0, <1>1, <1>2, <3>3
      <4> QED BY <1>3, <2>3, <3>1, <4>1
    <3> QED BY <3>2, <3>3
  <2> QED BY <1>2, <2>1, <2>2, <2>3 DEF RecentRight
<1>6. CASE m < MaxRecent /\ r = all
  <2>1. /\ m + 1 \in DOMAIN all
        /\ \A i \in DOMAIN old : i \in DOMAIN all /\ all[i] = old[i]
    BY <1>0, <1>1, <1>2
  <2>2. s \in ToSet(all)
    BY <1>2, <2>1 DEF ToSet
  <2>3. \A x \in ToSet(old) : x \in ToSet(all)
    BY <2>1 DEF ToSet
  <2> QED BY <1>5, <1>6, <2>2, <2>3 DEF old, r
<1>7. CASE m = MaxRecent /\ old # << >> /\ r = Append(Tail(old), s)
  <2>1. /\ r \in Seq(Nat) /\ Len(r) = m /\ DOMAIN r = 1 .. m
        /\ \A i \in 1 .. m : r[i] = all[i + 1]
    <3>1. /\ Tail(old) \in Seq(Nat) /\ Len(Tail(old)) = m - 1
          /\ \A i \in 1 .. m - 1 : Tail(old)[i] = old[i + 1]
      BY <1>0, <1>1, <1>7
    <3>2. /\ r \in Seq(Nat) /\ Len(r) = m /\ DOMAIN r = 1 .. m
          /\ \A i \in 1 .. m - 1 : r[i] = Tail(old)[i]
          /\ r[m] = s
      BY <1>0, <1>1, <1>7, <3>1
    <3>3. ASSUME NEW i \in 1 .. m PROVE r[i] = all[i + 1]
      <4>1. CASE i = m
        BY <1>2, <3>2, <4>1
      <4>2. CASE i # m
        <5>1. m \in Nat /\ i \in 1 .. m /\ i # m
          BY <1>0, <1>1, <4>2
        <5>2. i \in 1 .. m - 1 /\ i + 1 \in 1 .. m
          BY <5>1
        <5> QED BY <1>2, <3>1, <3>2, <5>2
      <4> QED BY <4>1, <4>2
    <3> QED BY <3>2, <3>3
  <2>2. all[1] + MaxAge < n
    <3>1. all # << >> /\ Len(all) = MaxRecent + 1
      BY <1>2, <1>7
    <3> QED BY <1>2, <1>5, <3>1, Crowded
  <2>3. \A i \in 1 .. m : i + 1 \in 1 .. m + 1
    BY <1>0, <1>1
  <2>4. RecentRight(r, n)
    <3>1. IsInjective(r)
      <4>1. \A k, l \in DOMAIN all : all[k] = all[l] => k = l
        BY <1>5 DEF RecentRight, IsInjective
      <4>2. ASSUME NEW i \in 1 .. m, NEW j \in 1 .. m, r[i] = r[j] PROVE i = j
        <5>0. i + 1 \in DOMAIN all /\ j + 1 \in DOMAIN all
          BY <1>2, <2>3
        <5>2. all[i + 1] = all[j + 1]
          BY <2>1, <4>2
        <5>1. i + 1 = j + 1
          BY <4>1, <5>0, <5>2
        <5> QED BY <5>1
      <4> QED BY <2>1, <4>2 DEF IsInjective
    <3>2. \A i \in 1 .. m : r[i] < n
      BY <1>2, <1>5, <2>1, <2>3 DEF RecentRight
    <3>3. ASSUME NEW i \in 1 .. m, NEW j \in 1 .. m, i < j
          PROVE  r[i] < r[j] + MaxAge
      <4>1. i + 1 \in DOMAIN all /\ j + 1 \in DOMAIN all /\ i + 1 < j + 1
        BY <1>0, <1>1, <1>2, <2>3, <3>3
      <4>2. all[i + 1] < all[j + 1] + MaxAge
        BY <1>5, <4>1 DEF RecentRight
      <4> QED BY <2>1, <4>2
    <3> QED BY <2>1, <3>1, <3>2, <3>3 DEF RecentRight
  <2>5. s \in ToSet(r)
    <3>1. m \in 1 .. m /\ r[m] = s
      BY <1>0, <1>1, <1>2, <1>7, <2>1
    <3> QED BY <2>1, <3>1 DEF ToSet
  <2>6. ASSUME NEW x \in ToSet(old) PROVE x \in ToSet(r) \/ x + MaxAge < n
    <3>1. PICK i \in 1 .. m : x = old[i]
      BY <1>0, <1>1 DEF ToSet
    <3>2. CASE i = 1
      BY <1>2, <2>2, <3>1, <3>2
    <3>3. CASE i # 1
      <4>1. i - 1 \in 1 .. m /\ (i - 1) + 1 = i
        BY <1>0, <1>1, <3>3
      <4>2. r[i - 1] = x
        BY <1>2, <2>1, <3>1, <4>1
      <4> QED BY <2>1, <4>1, <4>2 DEF ToSet
    <3> QED BY <3>2, <3>3
  <2> QED BY <2>4, <2>5, <2>6 DEF old, r
<1> QED BY <1>4, <1>6, <1>7

\* AppendOne: concatenating one message appends it.
LEMMA AppendOne ==
  ASSUME NEW s \in Seq(Nat), NEW x \in Nat
  PROVE  /\ s \o <<x>> = Append(s, x) /\ s \o << >> = s
         /\ IsInjective(s) /\ x \notin ToSet(s) => IsInjective(Append(s, x))
         /\ ToSet(Append(s, x)) = ToSet(s) \cup {x}
<1>1. s \o <<x>> = Append(s, x) /\ s \o << >> = s
  OBVIOUS
<1> QED BY <1>1, AppendSet

\* ReliableStep: a message that the history does not know is new, and there is
\* room for it.
LEMMA ReliableStep ==
  ASSUME NEW history \in Seq(ChanSeq), NEW del \in Seq(Nat), NEW sub \in Nat,
         sub <= HistorySize, ReliableRight(history, del, sub),
         NEW msg \in 1 .. sub, NEW cseq \in ChanSeq, cseq = msg - 1,
         ~\E i \in DOMAIN history : history[i] = cseq
  PROVE  /\ Len(history) < HistorySize
         /\ ReliableRight(Append(history, cseq), Append(del, msg), sub)
<1> DEFINE more == Append(del, msg)
           seqs == Append(history, cseq)
<1>1. PICK m \in Nat : m = Len(del) /\ m = Len(history) /\ DOMAIN del = 1 .. m
                       /\ DOMAIN history = 1 .. m
  BY DEF ReliableRight
<1>2. /\ IsInjective(del) /\ msg \in Nat
      /\ \A i \in 1 .. m : del[i] \in 1 .. sub /\ history[i] = del[i] - 1
  BY <1>1 DEF ReliableRight
<1>3. msg \notin ToSet(del)
  <2>1. ASSUME NEW i \in 1 .. m, del[i] = msg PROVE FALSE
    BY <1>1, <1>2, <2>1
  <2> QED BY <1>1, <2>1 DEF ToSet
<1>4. /\ more \in Seq(Nat) /\ DOMAIN more = 1 .. m + 1 /\ Len(more) = m + 1
      /\ \A i \in 1 .. m : more[i] = del[i]
      /\ more[m + 1] = msg
  <2>1. more \in Seq(Nat) /\ Len(more) = m + 1
    BY <1>1, <1>2
  <2>2. DOMAIN more = 1 .. m + 1
    BY <2>1
  <2>3. more[m + 1] = msg
    BY <1>1
  <2>4. ASSUME NEW i \in 1 .. m PROVE more[i] = del[i]
    BY <1>1
  <2> QED BY <2>1, <2>2, <2>3, <2>4
<1>5. /\ DOMAIN seqs = 1 .. m + 1 /\ Len(seqs) = m + 1
      /\ \A i \in 1 .. m : seqs[i] = history[i]
      /\ seqs[m + 1] = cseq
  BY <1>1
<1>6. IsInjective(more)
  BY <1>2, <1>3, AppendOne
<1> HIDE DEF more, seqs
<1>7. ASSUME NEW i \in 1 .. m + 1 PROVE more[i] \in 1 .. sub /\ seqs[i] = more[i] - 1
  <2>1. CASE i = m + 1
    BY <1>4, <1>5, <2>1
  <2>2. CASE i # m + 1
    <3>1. i \in 1 .. m
      BY <1>1, <2>2
    <3> QED BY <1>2, <1>4, <1>5, <3>1
  <2> QED BY <2>1, <2>2
<1>8. m < HistorySize
  <2>1. more \in [1 .. m + 1 -> 1 .. sub]
    BY <1>4, <1>7
  <2>2. \A x, y \in 1 .. m + 1 : more[x] = more[y] => x = y
    BY <1>4, <1>6 DEF IsInjective
  <2>3. Cardinality(1 .. m + 1) <= (sub - 1) + 1
    <3> DEFINE D == 1 .. m + 1
               a == 1
    <3>1. a \in Int /\ sub \in Int /\ a <= sub + 1
      OBVIOUS
    <3>2. more \in [D -> a .. sub] /\ \A x, y \in D : more[x] = more[y] => x = y
      BY <2>1, <2>2
    <3> HIDE DEF D, a
    <3>3. Cardinality(D) <= (sub - a) + 1
      BY <3>1, <3>2, CountedBy
    <3> QED BY <3>3 DEF D, a
  <2>4. Cardinality(1 .. m + 1) = m + 1
    <3>1. 1 \in Int /\ m + 1 \in Int /\ ~(1 > m + 1) /\ ((m + 1) - 1) + 1 = m + 1
      BY <1>1
    <3>2. Cardinality(1 .. m + 1) = IF 1 > m + 1 THEN 0 ELSE (m + 1) - 1 + 1
      BY <3>1, FS_Interval
    <3> QED BY <3>1, <3>2
  <2>5. HistorySize \in Nat
    BY SizesAssumption
  <2> QED BY <1>1, <2>3, <2>4, <2>5
<1>9. ReliableRight(seqs, more, sub)
  BY <1>4, <1>5, <1>6, <1>7 DEF ReliableRight
<1> QED BY <1>1, <1>8, <1>9 DEF more, seqs

\* UnreliableStep: when a datagram of the peer arrives for the first time, its
\* message is new if it is an unreliable one, and the datagram is remembered.
LEMMA UnreliableStep ==
  ASSUME NEW rt \in TrackerState, Len(rt.recent) <= MaxRecent, NEW n \in Nat,
         NEW del \in Seq(Nat), NEW sub \in Nat, NEW N \in SUBSET Datagram, NEW d \in N,
         2 * MaxAge <= MaxRecent + 1, RecentRight(rt.recent, n),
         UnreliableRight(rt.recent, del, N, sub, n),
         \A e \in N : e.ch = Unreliable => e.msg \in 1 .. sub,
         \A e \in N : d.ch = Unreliable /\ e.ch = Unreliable /\ d.msg = e.msg => d.seq = e.seq,
         ~Seen(rt, d.seq), d.seq < n, n - d.seq <= MaxAge
  PROVE  LET r == RecordReceived(rt, d.seq).recent IN
         /\ UnreliableRight(r, del, N, sub, n)
         /\ d.ch = Unreliable => UnreliableRight(r, Append(del, d.msg), N, sub, n)
<1> DEFINE r == RecordReceived(rt, d.seq).recent
<1>1. d.seq \in Nat /\ d.msg \in Nat /\ MaxAge \in Nat
  BY ReliabilityAssumption DEF Datagram
<1>2. d.seq \in ToSet(r) /\ \A x \in ToSet(rt.recent) : x \in ToSet(r) \/ x + MaxAge < n
  BY <1>1, RecentStep
<1> HIDE DEF r
<1>3. UnreliableRight(r, del, N, sub, n)
  BY <1>2 DEF UnreliableRight
<1>4. ASSUME d.ch = Unreliable PROVE UnreliableRight(r, Append(del, d.msg), N, sub, n)
  <2> DEFINE more == Append(del, d.msg)
  <2>1. d.msg \notin ToSet(del)
    <3>1. SUFFICES ASSUME d.msg \in ToSet(del) PROVE FALSE
      OBVIOUS
    <3>2. d.seq \in ToSet(rt.recent) \/ d.seq + MaxAge < n
      BY <1>4, <3>1 DEF UnreliableRight
    <3>3. d.seq \notin ToSet(rt.recent)
      BY DEF Seen, ToSet
    <3> QED BY <1>1, <3>2, <3>3
  <2>2. IsInjective(more) /\ ToSet(more) = ToSet(del) \cup {d.msg}
    BY <1>1, <2>1, AppendOne DEF UnreliableRight
  <2>3. ASSUME NEW i \in DOMAIN more PROVE more[i] \in 1 .. sub
    <3>1. d.msg \in 1 .. sub
      BY <1>4
    <3>2. \A i2 \in DOMAIN del : del[i2] \in 1 .. sub
      BY DEF UnreliableRight
    <3>3. CASE i = Len(del) + 1
      BY <1>1, <3>1, <3>3
    <3>4. CASE i # Len(del) + 1
      <4>1. i \in DOMAIN del /\ more[i] = del[i]
        BY <1>1, <3>4
      <4> QED BY <3>2, <4>1
    <3> QED BY <3>3, <3>4
  <2> HIDE DEF more
  <2>4. ASSUME NEW e \in N, e.ch = Unreliable, e.msg \in ToSet(more)
        PROVE  e.seq \in ToSet(r) \/ e.seq + MaxAge < n
    <3>1. CASE e.msg = d.msg
      BY <1>2, <1>4, <2>4, <3>1
    <3>2. CASE e.msg # d.msg
      <4>1. e.msg \in ToSet(del)
        BY <2>2, <2>4, <3>2
      <4> QED BY <1>3, <2>4, <4>1 DEF UnreliableRight
    <3> QED BY <3>1, <3>2
  <2> QED BY <2>2, <2>3, <2>4 DEF UnreliableRight, more
<1> QED BY <1>3, <1>4 DEF r

\* ReceiveRight: process_packet delivers no message of these channels twice.
LEMMA ReceiveRight ==
  ASSUME HistoriesSuffice, NEW c \in ConnectionState,
         Len(c.recv.recent) <= MaxRecent, Len(c.history) <= HistorySize,
         NEW del \in [Channels -> Seq(Nat)], NEW sub \in [Channels -> Nat],
         NEW N \in SUBSET Datagram, NEW n \in Nat, NEW d \in N, NEW o, SentRight(o, N, sub),
         ReceivedRight(c, del, N, sub, n), d.seq < n, n - d.seq <= MaxAge
  PROVE  ReceivedRight(ProcessPacket(c, d), [del EXCEPT ![d.ch] = @ \o Result(c, d)], N, sub, n)
<1> DEFINE e == ProcessPacket(c, d)
           r == RecordReceived(c.recv, d.seq)
           res == Result(c, d)
           del2 == [del EXCEPT ![d.ch] = @ \o res]
<1>1. /\ d \in Datagram /\ d.seq \in Nat /\ d.cseq \in ChanSeq /\ d.msg \in Nat
      /\ d.ch \in Channels
  BY DEF Datagram
<1>2. /\ Unreliable \in Channels /\ Reliable \in Channels /\ Ordered \in Channels
      /\ Unreliable # Reliable /\ Unreliable # Ordered /\ Reliable # Ordered
  BY DEF Channels, Unreliable, Reliable, Ordered
<1>3. c.recv \in TrackerState /\ c.history \in Seq(ChanSeq)
  BY DEF ConnectionState
<1>4. /\ RecentRight(c.recv.recent, n)
      /\ ReliableRight(c.history, del[Reliable], sub[Reliable])
      /\ UnreliableRight(c.recv.recent, del[Unreliable], N, sub[Unreliable], n)
  BY DEF ReceivedRight
<1>5. \/ /\ Seen(c.recv, d.seq)
         /\ e.recv = c.recv /\ e.history = c.history /\ res = << >>
      \/ /\ ~Seen(c.recv, d.seq)
         /\ d.ch = Unreliable
         /\ e.recv = r /\ e.history = c.history /\ res = <<d.msg>>
      \/ /\ ~Seen(c.recv, d.seq)
         /\ d.ch = Reliable /\ InHistory(c, d)
         /\ e.recv = r /\ e.history = c.history /\ res = << >>
      \/ /\ ~Seen(c.recv, d.seq)
         /\ d.ch = Reliable /\ ~InHistory(c, d) /\ e.recv = r /\ res = <<d.msg>>
         /\ Len(c.history) < HistorySize => e.history = Append(c.history, d.cseq)
      \/ /\ ~Seen(c.recv, d.seq)
         /\ d.ch = Ordered /\ e.recv = r /\ e.history = c.history
  BY <1>1, ProcessPacketOnce
<1> HIDE DEF e, r, res
<1>6. ASSUME NEW ch \in Channels
      PROVE  /\ del[ch] \in Seq(Nat)
             /\ del2[ch] = IF ch = d.ch THEN del[ch] \o res ELSE del[ch]
             /\ res = << >> => del2[ch] = del[ch]
             /\ res = <<d.msg>> /\ ch = d.ch => del2[ch] = Append(del[ch], d.msg)
  BY <1>1, AppendOne
<1> HIDE DEF del2
<1>7. ASSUME ~Seen(c.recv, d.seq)
      PROVE  /\ RecentRight(r.recent, n)
             /\ UnreliableRight(r.recent, del[Unreliable], N, sub[Unreliable], n)
             /\ d.ch = Unreliable =>
                  UnreliableRight(r.recent, Append(del[Unreliable], d.msg), N, sub[Unreliable], n)
  <2>1. 2 * MaxAge <= MaxRecent + 1
    BY DEF HistoriesSuffice
  <2>2. RecentRight(r.recent, n)
    BY <1>1, <1>3, <1>4, <1>7, <2>1, RecentStep DEF r
  <2>3. /\ \A x \in N : x.ch = Unreliable => x.msg \in 1 .. sub[Unreliable]
        /\ \A x \in N : d.ch = Unreliable /\ x.ch = Unreliable /\ d.msg = x.msg => d.seq = x.seq
    BY DEF SentRight
  <2>4. sub[Unreliable] \in Nat /\ del[Unreliable] \in Seq(Nat)
    BY <1>2
  <2>5. /\ UnreliableRight(r.recent, del[Unreliable], N, sub[Unreliable], n)
        /\ d.ch = Unreliable =>
             UnreliableRight(r.recent, Append(del[Unreliable], d.msg), N, sub[Unreliable], n)
    BY <1>1, <1>3, <1>4, <1>7, <2>1, <2>3, <2>4, UnreliableStep DEF r
  <2> QED BY <2>2, <2>5
<1>8. CASE Seen(c.recv, d.seq)
  <2>1. e.recv = c.recv /\ e.history = c.history /\ res = << >>
    BY <1>5, <1>8
  <2>2. del2[Reliable] = del[Reliable] /\ del2[Unreliable] = del[Unreliable]
    BY <1>2, <1>6, <2>1
  <2> QED BY <1>4, <2>1, <2>2 DEF ReceivedRight, e, del2, res
<1>9. CASE ~Seen(c.recv, d.seq) /\ d.ch = Unreliable
  <2>1. e.recv = r /\ e.history = c.history /\ res = <<d.msg>>
    BY <1>2, <1>5, <1>9
  <2>2. del2[Reliable] = del[Reliable] /\ del2[Unreliable] = Append(del[Unreliable], d.msg)
    BY <1>2, <1>6, <1>9, <2>1
  <2> QED BY <1>4, <1>7, <1>9, <2>1, <2>2 DEF ReceivedRight, e, del2, res
<1>10. CASE ~Seen(c.recv, d.seq) /\ d.ch = Reliable /\ InHistory(c, d)
  <2>1. e.recv = r /\ e.history = c.history /\ res = << >>
    BY <1>2, <1>5, <1>10
  <2>2. del2[Reliable] = del[Reliable] /\ del2[Unreliable] = del[Unreliable]
    BY <1>2, <1>6, <2>1
  <2> QED BY <1>4, <1>7, <1>10, <2>1, <2>2 DEF ReceivedRight, e, del2, res
<1>11. CASE ~Seen(c.recv, d.seq) /\ d.ch = Reliable /\ ~InHistory(c, d)
  <2>1. /\ e.recv = r /\ res = <<d.msg>>
        /\ Len(c.history) < HistorySize => e.history = Append(c.history, d.cseq)
    BY <1>2, <1>5, <1>11
  <2>2. del2[Reliable] = Append(del[Reliable], d.msg) /\ del2[Unreliable] = del[Unreliable]
    BY <1>2, <1>6, <1>11, <2>1
  <2>3. /\ sub[Reliable] \in Nat /\ sub[Reliable] <= HistorySize
        /\ d.msg \in 1 .. sub[Reliable] /\ d.cseq = d.msg - 1
    BY <1>2, <1>11 DEF SentRight
  <2>4. ~\E i \in DOMAIN c.history : c.history[i] = d.cseq
    BY <1>11 DEF InHistory
  <2>5. del[Reliable] \in Seq(Nat)
    BY <1>2
  <2>6. /\ Len(c.history) < HistorySize
        /\ ReliableRight(Append(c.history, d.cseq), Append(del[Reliable], d.msg), sub[Reliable])
    BY <1>1, <1>3, <1>4, <2>3, <2>4, <2>5, ReliableStep
  <2> QED BY <1>7, <1>11, <2>1, <2>2, <2>6 DEF ReceivedRight, e, del2, res
<1>12. CASE ~Seen(c.recv, d.seq) /\ d.ch = Ordered
  <2>1. e.recv = r /\ e.history = c.history
    BY <1>2, <1>5, <1>12
  <2>2. del2[Reliable] = del[Reliable] /\ del2[Unreliable] = del[Unreliable]
    BY <1>2, <1>6, <1>12
  <2> QED BY <1>4, <1>7, <1>12, <2>1, <2>2 DEF ReceivedRight, e, del2, res
<1> QED BY <1>1, <1>8, <1>9, <1>10, <1>11, <1>12 DEF Channels

\* SentStep: what send_packet sends is right.
LEMMA SentStep ==
  ASSUME HistoriesSuffice, NEW c \in ConnectionState, Len(c.track) <= MaxPending,
         c.sendSeq + 1 < WireMod, NEW N \in SUBSET Datagram,
         NEW sub \in [Channels -> Nat], SentRight(c, N, sub),
         NEW ch \in Channels, NEW msg \in Nat, msg = sub[ch] + 1,
         ch = Reliable => msg <= HistorySize
  PROVE  SentRight(SendPacket(c, ch, msg), N \cup {SentPacket(c, ch, msg)},
                   [sub EXCEPT ![ch] = msg])
<1> DEFINE c2 == SendPacket(c, ch, msg)
           d == SentPacket(c, ch, msg)
           sub2 == [sub EXCEPT ![ch] = msg]
<1>1. /\ Unreliable \in Channels /\ Reliable \in Channels
      /\ Unreliable # Reliable /\ Reliable \in {Reliable, Ordered}
      /\ ChanMod \in Nat \ {0} /\ HistorySize \in Nat /\ HistorySize <= ChanMod
  BY SizesAssumption DEF Channels, Unreliable, Reliable, HistoriesSuffice
<1>2. /\ d.ch = ch /\ d.msg = msg
      /\ ch # Unreliable => d.cseq = c.nextSeq[ch]
  BY DEF SentPacket, Packet
<1>3. /\ c2.nextSeq[Reliable] = IF Reliable = ch THEN WrapAdd(c.nextSeq[Reliable], 1, ChanMod)
                                                ELSE c.nextSeq[Reliable]
      /\ \A m \in c2.pending :
           \/ m \in c.pending
           \/ ch # Unreliable /\ m.ch = ch /\ m.cseq = c.nextSeq[ch] /\ m.msg = msg
  BY <1>1, SendPacketFacts
<1> HIDE DEF c2, d
<1>4. /\ sub[Reliable] \in Nat /\ sub[Unreliable] \in Nat
      /\ sub2[Reliable] = IF ch = Reliable THEN msg ELSE sub[Reliable]
      /\ sub2[Unreliable] = IF ch = Unreliable THEN msg ELSE sub[Unreliable]
  BY <1>1
<1> HIDE DEF sub2
<1>5. /\ sub[Reliable] <= HistorySize
      /\ sub[Reliable] < ChanMod => c.nextSeq[Reliable] = sub[Reliable]
      /\ \A m \in c.pending \cup N : m.ch = Reliable =>
           m.msg \in 1 .. sub[Reliable] /\ m.cseq = m.msg - 1
      /\ \A x \in N : x.ch = Unreliable => x.msg \in 1 .. sub[Unreliable]
      /\ \A x, y \in N : x.ch = Unreliable /\ y.ch = Unreliable /\ x.msg = y.msg => x.seq = y.seq
  BY DEF SentRight
<1>6. ch = Reliable => /\ sub[Reliable] < ChanMod /\ c.nextSeq[Reliable] = sub[Reliable]
                       /\ msg = sub[Reliable] + 1 /\ msg - 1 = sub[Reliable]
  BY <1>1, <1>4, <1>5
<1>7. sub2[Reliable] <= HistorySize
  BY <1>4, <1>5
<1>8. ASSUME sub2[Reliable] < ChanMod PROVE c2.nextSeq[Reliable] = sub2[Reliable]
  <2>1. CASE ch = Reliable
    <3>1. msg < ChanMod /\ sub[Reliable] + 1 = msg
      BY <1>4, <1>6, <1>8, <2>1
    <3>2. WrapAdd(sub[Reliable], 1, ChanMod) = msg
      BY <1>1, <1>4, <3>1 DEF WrapAdd
    <3> QED BY <1>3, <1>4, <1>6, <2>1, <3>2
  <2>2. CASE ch # Reliable
    BY <1>3, <1>4, <1>5, <1>8, <2>2
  <2> QED BY <2>1, <2>2
<1>9. ASSUME NEW m \in c2.pending \cup (N \cup {d}), m.ch = Reliable
      PROVE  m.msg \in 1 .. sub2[Reliable] /\ m.cseq = m.msg - 1
  <2>1. CASE m \in c.pending \cup N
    <3>1. m.msg \in 1 .. sub[Reliable] /\ m.cseq = m.msg - 1
      BY <1>5, <1>9, <2>1
    <3>2. sub2[Reliable] \in Nat /\ sub[Reliable] <= sub2[Reliable]
      BY <1>4, <1>6
    <3> QED BY <1>4, <3>1, <3>2
  <2>2. CASE m \notin c.pending \cup N
    <3>1. ch = Reliable /\ m.cseq = c.nextSeq[ch] /\ m.msg = msg
      BY <1>1, <1>2, <1>3, <1>9, <2>2
    <3> QED BY <1>4, <1>6, <3>1
  <2> QED BY <2>1, <2>2
<1>10. ASSUME NEW x \in N \cup {d}, x.ch = Unreliable PROVE x.msg \in 1 .. sub2[Unreliable]
  <2>1. CASE x \in N
    <3>1. x.msg \in 1 .. sub[Unreliable] /\ sub2[Unreliable] \in Nat
          /\ sub[Unreliable] <= sub2[Unreliable]
      BY <1>4, <1>5, <1>10, <2>1
    <3> QED BY <1>4, <3>1
  <2>2. CASE x = d
    BY <1>2, <1>4, <1>10, <2>2
  <2> QED BY <2>1, <2>2
<1>11. ASSUME NEW x \in N \cup {d}, NEW y \in N \cup {d},
              x.ch = Unreliable, y.ch = Unreliable, x.msg = y.msg
       PROVE  x.seq = y.seq
  <2>1. ch = Unreliable => \A z \in N : z.ch = Unreliable => z.msg # msg
    BY <1>4, <1>5
  <2>2. CASE x \in N /\ y \in N
    BY <1>5, <1>11, <2>2
  <2>3. CASE x = d \/ y = d
    BY <1>2, <1>11, <2>1, <2>3
  <2> QED BY <2>2, <2>3
<1> QED BY <1>7, <1>8, <1>9, <1>10, <1>11 DEF SentRight, c2, d, sub2

\* ReceivedGrows: sending and resending leave right what was received: a new
\* datagram has a message that is new, or not an unreliable one.
LEMMA ReceivedGrows ==
  ASSUME TypeOK, ReceivedInv, delivered' = delivered,
         \A q \in Peers :
           /\ conn'[q].recv = conn[q].recv /\ conn'[q].history = conn[q].history
           /\ conn'[q].sendSeq \in Nat /\ conn[q].sendSeq <= conn'[q].sendSeq
           /\ \A ch \in Channels :
                submitted'[q][ch] \in Nat /\ submitted[q][ch] <= submitted'[q][ch]
           /\ \A e \in net'[q] : e \in net[q] \/
                (e.ch = Unreliable => e.msg \notin 1 .. submitted[q][Unreliable])
  PROVE  ReceivedInv'
<1> SUFFICES ASSUME NEW p \in Peers
             PROVE  ReceivedRight(conn'[p], delivered'[p], net'[Other(p)], submitted'[Other(p)],
                                  conn'[Other(p)].sendSeq)
  BY DEF ReceivedInv
<1>1. PICK o \in Peers : o = Other(p)
  BY OtherPeer
<1> DEFINE r == conn[p].recv.recent
           n == conn[o].sendSeq
           m == conn'[o].sendSeq
           N == net[o]
           M == net'[o]
           del == delivered[p]
           sub == submitted[o]
           tub == submitted'[o]
<1>2. /\ RecentRight(r, n)
      /\ ReliableRight(conn[p].history, del[Reliable], sub[Reliable])
      /\ UnreliableRight(r, del[Unreliable], N, sub[Unreliable], n)
  BY <1>1 DEF ReceivedInv, ReceivedRight
<1>3. /\ n \in Nat /\ m \in Nat /\ n <= m /\ MaxAge \in Nat
      /\ \A e \in N : e \in Datagram
      /\ \A e \in M : e \in N \/ (e.ch = Unreliable => e.msg \notin 1 .. sub[Unreliable])
      /\ r \in Seq(Nat)
  BY ReliabilityAssumption DEF TypeOK, ConnectionState, TrackerState
<1>4. \A ch \in {Reliable, Unreliable} : sub[ch] \in Nat /\ tub[ch] \in Nat /\ sub[ch] <= tub[ch]
  BY DEF TypeOK, Channels
<1>5. conn'[p].recv = conn[p].recv /\ conn'[p].history = conn[p].history /\ delivered'[p] = del
  OBVIOUS
<1> HIDE DEF r, n, m, N, M, del, sub, tub
<1>6. RecentRight(r, m)
  <2>1. \A i \in DOMAIN r : r[i] \in Nat
    BY <1>3, ElementOfSeq
  <2> QED BY <1>2, <1>3, <2>1 DEF RecentRight
<1>7. ReliableRight(conn[p].history, del[Reliable], tub[Reliable])
  <2>1. \A x \in 1 .. sub[Reliable] : x \in 1 .. tub[Reliable]
    BY <1>4
  <2> QED BY <1>2, <2>1 DEF ReliableRight
<1>8. UnreliableRight(r, del[Unreliable], M, tub[Unreliable], m)
  <2>1. /\ IsInjective(del[Unreliable])
        /\ \A i \in DOMAIN del[Unreliable] : del[Unreliable][i] \in 1 .. sub[Unreliable]
        /\ \A d \in N : d.ch = Unreliable /\ d.msg \in ToSet(del[Unreliable]) =>
             d.seq \in ToSet(r) \/ d.seq + MaxAge < n
    BY <1>2 DEF UnreliableRight
  <2>2. \A i \in DOMAIN del[Unreliable] : del[Unreliable][i] \in 1 .. tub[Unreliable]
    <3>1. \A x \in 1 .. sub[Unreliable] : x \in 1 .. tub[Unreliable]
      BY <1>4
    <3> QED BY <2>1, <3>1
  <2>3. \A x \in ToSet(del[Unreliable]) : x \in 1 .. sub[Unreliable]
    BY <2>1 DEF ToSet
  <2>4. ASSUME NEW d \in M, d.ch = Unreliable, d.msg \in ToSet(del[Unreliable])
        PROVE  d.seq \in ToSet(r) \/ d.seq + MaxAge < m
    <3>1. d \in N /\ d.seq \in Nat
      BY <1>3, <2>3, <2>4 DEF Datagram
    <3>2. d.seq \in ToSet(r) \/ d.seq + MaxAge < n
      BY <2>1, <2>4, <3>1
    <3> QED BY <1>3, <3>1, <3>2
  <2> QED BY <2>1, <2>2, <2>4 DEF UnreliableRight
<1>9. /\ conn'[p].recv.recent = r /\ conn'[p].history = conn[p].history
      /\ delivered'[p] = del
  BY <1>5 DEF r
<1> QED BY <1>1, <1>6, <1>7, <1>8, <1>9 DEF ReceivedRight, m, M, tub

\* InitOnce: the request of the client has not been delivered, and may arrive.
LEMMA InitOnce == Init => OnceInv
<1> SUFFICES ASSUME Init PROVE OnceInv
  OBVIOUS
<1> DEFINE msg == 1
           c == SendPacket(NewConnection, Unreliable, msg)
           d == SentPacket(NewConnection, Unreliable, msg)
<1>1. /\ Client # Server /\ Peers = {Client, Server} /\ TypeOK
      /\ Unreliable \in Channels /\ Reliable \in Channels /\ Unreliable # Reliable
      /\ HistorySize \in Nat /\ ChanMod \in Nat \ {0}
  BY InitType, ReliabilityAssumption, SizesAssumption DEF Peers, Channels, Unreliable, Reliable
<1>2. /\ NewConnection.recv.recent = << >> /\ NewConnection.history = << >>
      /\ NewConnection.pending = {} /\ NewConnection.nextSeq[Reliable] = 0
      /\ NewConnection.sendSeq = 0
  BY DEF NewConnection, NewReceiveTracker
<1>3. /\ c.recv = NewConnection.recv /\ c.history = << >> /\ c.pending = {}
      /\ c.nextSeq[Reliable] = 0
  <2>1. c = [NewConnection EXCEPT !.sendSeq = WrapAdd(@, 1, WireMod),
                                  !.track   = TrackPacket(@, NewConnection.sendSeq)]
    BY DEF SendPacket
  <2> QED BY <2>1, <1>2 DEF NewConnection
<1>4. d.ch = Unreliable /\ d.msg = 1
  BY DEF SentPacket, Packet
<1> HIDE DEF c, d
<1>5. /\ conn = [p \in Peers |-> IF p = Client THEN c ELSE NewConnection]
      /\ net = [p \in Peers |-> IF p = Client THEN {d} ELSE {}]
      /\ submitted = [p \in Peers |-> [ch \in Channels |->
                        IF p = Client /\ ch = Unreliable THEN 1 ELSE 0]]
      /\ delivered = [p \in Peers |-> [ch \in Channels |-> << >>]]
  BY DEF Init, c, d
<1>6. ASSUME NEW p \in Peers PROVE SentRight(conn[p], net[p], submitted[p])
  <2>1. /\ submitted[p][Reliable] = 0
        /\ submitted[p][Unreliable] = IF p = Client THEN 1 ELSE 0
        /\ conn[p].pending = {} /\ conn[p].nextSeq[Reliable] = 0
        /\ \A e \in net[p] : p = Client /\ e = d
    BY <1>1, <1>2, <1>3, <1>5
  <2>2. \A e \in net[p] : e.ch # Reliable /\ e.msg \in 1 .. submitted[p][Unreliable]
    BY <1>1, <1>4, <2>1
  <2> QED BY <1>1, <2>1, <2>2 DEF SentRight
<1>7. ASSUME NEW p \in Peers
      PROVE  ReceivedRight(conn[p], delivered[p], net[Other(p)], submitted[Other(p)],
                           conn[Other(p)].sendSeq)
  <2>1. /\ conn[p].recv.recent = << >> /\ conn[p].history = << >>
        /\ delivered[p][Reliable] = << >> /\ delivered[p][Unreliable] = << >>
    BY <1>1, <1>2, <1>3, <1>5
  <2>2. /\ DOMAIN << >> = {} /\ Len(<< >>) = 0
        /\ \A x : x \notin ToSet(<< >>)
    BY DEF ToSet
  <2>3. IsInjective(<< >>)
    BY <2>2 DEF IsInjective
  <2>4. RecentRight(<< >>, conn[Other(p)].sendSeq)
    BY <2>2, <2>3 DEF RecentRight
  <2>5. ReliableRight(<< >>, << >>, submitted[Other(p)][Reliable])
    BY <2>2, <2>3 DEF ReliableRight
  <2>6. UnreliableRight(<< >>, << >>, net[Other(p)], submitted[Other(p)][Unreliable],
                        conn[Other(p)].sendSeq)
    BY <2>2, <2>3 DEF UnreliableRight
  <2> QED BY <2>1, <2>4, <2>5, <2>6 DEF ReceivedRight
<1> QED BY <1>6, <1>7 DEF OnceInv, SentInv, ReceivedInv

\* SendOnce: a new message is one that the peer has not seen.
LEMMA SendOnce ==
  ASSUME HistoriesSuffice, TypeOK, OnceInv, NEW p \in Peers, NEW ch \in Channels, Send(p, ch)
  PROVE  OnceInv'
<1> DEFINE msg == submitted[p][ch] + 1
           c == SendPacket(conn[p], ch, msg)
           d == SentPacket(conn[p], ch, msg)
           s == [submitted[p] EXCEPT ![ch] = msg]
<1>1. /\ conn[p] \in ConnectionState /\ conn[p].sendSeq + 1 < WireMod /\ conn[p].sendSeq \in Nat
      /\ submitted[p][ch] \in Nat /\ msg \in Nat /\ Len(conn[p].track) <= MaxPending
      /\ submitted[p] \in [Channels -> Nat] /\ net[p] \in SUBSET Datagram
  BY SizesAssumption, ReliabilityAssumption DEF TypeOK, ConnectionState, Send
<1>2. /\ conn' = [conn EXCEPT ![p] = c]
      /\ net' = [net EXCEPT ![p] = @ \cup {d}]
      /\ submitted' = [submitted EXCEPT ![p] = s]
      /\ delivered' = delivered
      /\ msg <= MaxMsgs[p][ch]
  BY <1>1 DEF Send, TypeOK
<1>3. SentRight(c, net[p] \cup {d}, s)
  <2>1. ch = Reliable => msg <= HistorySize
    <3> SUFFICES ASSUME ch = Reliable PROVE msg <= HistorySize
      OBVIOUS
    <3>1. MaxMsgs[p][Reliable] <= HistorySize /\ MaxMsgs[p][Reliable] \in Nat
      BY ReliabilityAssumption DEF HistoriesSuffice, Channels
    <3>2. HistorySize \in Nat
      BY SizesAssumption
    <3> HIDE DEF msg
    <3> QED BY <1>1, <1>2, <3>1, <3>2
  <2>2. SentRight(conn[p], net[p], submitted[p])
    BY DEF OnceInv, SentInv
  <2> QED BY <1>1, <2>1, <2>2, SentStep
<1>4. /\ c.recv = conn[p].recv /\ c.history = conn[p].history
      /\ c.sendSeq = conn[p].sendSeq + 1
  BY <1>1, SendPacketFacts
<1>5. d.msg = msg /\ d.ch = ch
  BY DEF SentPacket, Packet
<1>6. \A x \in Channels : s[x] = IF x = ch THEN msg ELSE submitted[p][x]
  BY <1>1
<1>7. msg = submitted[p][ch] + 1
  OBVIOUS
<1> HIDE DEF c, d, s, msg
<1>8. ASSUME NEW q \in Peers
      PROVE  /\ conn'[q] = IF q = p THEN c ELSE conn[q]
             /\ net'[q] = IF q = p THEN net[p] \cup {d} ELSE net[q]
             /\ submitted'[q] = IF q = p THEN s ELSE submitted[q]
  BY <1>2 DEF TypeOK
<1>9. SentInv'
  <2>1. ASSUME NEW q \in Peers PROVE SentRight(conn'[q], net'[q], submitted'[q])
    <3>1. SentRight(conn[q], net[q], submitted[q])
      BY DEF OnceInv, SentInv
    <3> QED BY <1>3, <1>8, <3>1
  <2> QED BY <2>1 DEF SentInv
<1>10. ASSUME NEW q \in Peers
       PROVE  /\ conn'[q].recv = conn[q].recv /\ conn'[q].history = conn[q].history
              /\ conn'[q].sendSeq \in Nat /\ conn[q].sendSeq <= conn'[q].sendSeq
              /\ \A x \in Channels :
                   submitted'[q][x] \in Nat /\ submitted[q][x] <= submitted'[q][x]
              /\ \A e \in net'[q] : e \in net[q] \/
                   (e.ch = Unreliable => e.msg \notin 1 .. submitted[q][Unreliable])
  <2>1. conn[q].sendSeq \in Nat /\ submitted[q] \in [Channels -> Nat]
    BY DEF TypeOK, ConnectionState
  <2>2. CASE q = p
    <3>1. conn'[q] = c /\ net'[q] = net[p] \cup {d} /\ submitted'[q] = s
      BY <1>8, <2>2
    <3>2. conn'[q].sendSeq \in Nat /\ conn[q].sendSeq <= conn'[q].sendSeq
      BY <1>1, <1>4, <2>2, <3>1
    <3>3. ASSUME NEW x \in Channels
          PROVE  submitted'[q][x] \in Nat /\ submitted[q][x] <= submitted'[q][x]
      BY <1>1, <1>6, <1>7, <2>1, <2>2, <3>1
    <3>4. ASSUME NEW e \in net'[q], e \notin net[q], e.ch = Unreliable
          PROVE  e.msg \notin 1 .. submitted[q][Unreliable]
      <4>1. e = d
        BY <2>2, <3>1, <3>4
      <4>2. e.msg = submitted[q][Unreliable] + 1 /\ submitted[q][Unreliable] \in Nat
        BY <1>1, <1>5, <1>7, <2>2, <3>4, <4>1
      <4> QED BY <4>2
    <3> QED BY <1>4, <2>2, <3>1, <3>2, <3>3, <3>4
  <2>3. CASE q # p
    BY <1>8, <2>1, <2>3
  <2> QED BY <2>2, <2>3
<1>11. ReceivedInv'
  BY <1>2, <1>10, ReceivedGrows DEF OnceInv
<1> QED BY <1>9, <1>11 DEF OnceInv

\* ResendOnce: no unreliable message is sent again, and a reliable one keeps its
\* sequence.
LEMMA ResendOnce ==
  ASSUME TypeOK, OnceInv, NEW p \in Peers, Resend(p)
  PROVE  OnceInv'
<1>1. conn[p] \in ConnectionState /\ conn[p].sendSeq \in Nat /\ MaxWire \in Nat
  BY ReliabilityAssumption DEF TypeOK, ConnectionState
<1>2. PICK due \in DueLists(conn[p].pending, MaxWire - conn[p].sendSeq) :
        /\ conn' = [conn EXCEPT ![p] = CollectResends(@, due)]
        /\ net' = [net EXCEPT ![p] = @ \cup ResentPackets(conn[p], due)]
        /\ UNCHANGED <<submitted, delivered, heard>>
  BY DEF Resend
<1> DEFINE c == CollectResends(conn[p], due)
           D == ResentPackets(conn[p], due)
<1>3. /\ due \in Seq(conn[p].pending) /\ Len(due) \in Nat
      /\ conn[p].sendSeq + Len(due) < WireMod
  BY <1>1, DueListsFacts, SizesAssumption, ReliabilityAssumption
<1>4. /\ c.nextSeq = conn[p].nextSeq /\ c.pending = conn[p].pending
      /\ c.recv = conn[p].recv /\ c.history = conn[p].history
      /\ c.sendSeq = conn[p].sendSeq + Len(due)
  BY <1>1, <1>3, CollectResendsFacts
<1>5. ASSUME NEW e \in D
      PROVE  \E m \in conn[p].pending : e.ch = m.ch /\ e.cseq = m.cseq /\ e.msg = m.msg
  <2>1. PICK i \in DOMAIN due :
          e = Packet(conn[p], WrapAdd(conn[p].sendSeq, i - 1, WireMod), due[i].ch, due[i].cseq, due[i].msg)
    BY DEF ResentPackets
  <2>2. due[i] \in conn[p].pending
    BY <1>3, <2>1, ElementOfSeq
  <2>3. e.ch = due[i].ch /\ e.cseq = due[i].cseq /\ e.msg = due[i].msg
    BY <2>1 DEF Packet
  <2>4. QED BY <2>2, <2>3
<1>6. conn' = [conn EXCEPT ![p] = c] /\ net' = [net EXCEPT ![p] = @ \cup D]
  BY <1>2
<1> HIDE DEF c, D
<1>7. submitted' = submitted /\ delivered' = delivered
  BY <1>2
<1>8. ASSUME NEW e \in D PROVE e.ch # Unreliable
  BY <1>1, <1>5 DEF ConnectionState, PendingEntry, Unreliable, Reliable, Ordered
<1>9. ASSUME NEW q \in Peers
      PROVE  /\ conn'[q].nextSeq = conn[q].nextSeq /\ conn'[q].pending = conn[q].pending
             /\ conn'[q].recv = conn[q].recv /\ conn'[q].history = conn[q].history
             /\ conn'[q].sendSeq \in Nat /\ conn[q].sendSeq <= conn'[q].sendSeq
             /\ \A m \in net'[q] : m \in net[q] \/ (q = p /\ m \in D)
  <2>1. conn[q].sendSeq \in Nat
    BY DEF TypeOK, ConnectionState
  <2>2. CASE q = p
    BY <1>1, <1>3, <1>4, <1>6, <2>1, <2>2 DEF TypeOK
  <2>3. CASE q # p
    BY <1>6, <2>1, <2>3 DEF TypeOK
  <2> QED BY <2>2, <2>3
<1>10. SentInv'
  <2>1. ASSUME NEW q \in Peers PROVE SentRight(conn'[q], net'[q], submitted'[q])
    <3>1. /\ submitted[q][Reliable] <= HistorySize
          /\ submitted[q][Reliable] < ChanMod =>
               conn[q].nextSeq[Reliable] = submitted[q][Reliable]
          /\ \A m \in conn[q].pending \cup net[q] : m.ch = Reliable =>
               m.msg \in 1 .. submitted[q][Reliable] /\ m.cseq = m.msg - 1
          /\ \A x \in net[q] : x.ch = Unreliable => x.msg \in 1 .. submitted[q][Unreliable]
          /\ \A x, y \in net[q] :
               x.ch = Unreliable /\ y.ch = Unreliable /\ x.msg = y.msg => x.seq = y.seq
      BY DEF OnceInv, SentInv, SentRight
    <3>2. \A m \in net'[q] : m.ch = Unreliable => m \in net[q]
      BY <1>8, <1>9
    <3>3. ASSUME NEW m \in conn'[q].pending \cup net'[q], m.ch = Reliable
          PROVE  m.msg \in 1 .. submitted[q][Reliable] /\ m.cseq = m.msg - 1
      <4>1. CASE m \in conn[q].pending \cup net[q]
        BY <3>1, <3>3, <4>1
      <4>2. CASE q = p /\ m \in D
        BY <1>5, <3>1, <3>3, <4>2
      <4> QED BY <1>9, <3>3, <4>1, <4>2
    <3> QED BY <1>7, <1>9, <3>1, <3>2, <3>3 DEF SentRight
  <2> QED BY <2>1 DEF SentInv
<1>11. ReceivedInv'
  <2>1. ASSUME NEW q \in Peers, NEW ch \in Channels
        PROVE  submitted'[q][ch] \in Nat /\ submitted[q][ch] <= submitted'[q][ch]
    <3>1. submitted[q][ch] \in Nat
      BY DEF TypeOK
    <3> QED BY <1>7, <3>1
  <2> QED BY <1>7, <1>8, <1>9, <2>1, ReceivedGrows DEF OnceInv
<1> QED BY <1>10, <1>11 DEF OnceInv

\* ReceiveOnce: what arrives a second time is not delivered again.
LEMMA ReceiveOnce ==
  ASSUME HistoriesSuffice, TypeOK, OnceInv, NEW p \in Peers, NEW d \in net[Other(p)],
         Receive(p, d)
  PROVE  OnceInv'
<1> DEFINE c == ProcessPacket(conn[p], d)
           del == [delivered[p] EXCEPT ![d.ch] = @ \o Result(conn[p], d)]
<1>1. PICK o \in Peers : o = Other(p) /\ o # p /\ Other(o) = p
  BY OtherPeer
<1>2. /\ conn[p] \in ConnectionState /\ conn[o] \in ConnectionState /\ conn[o].sendSeq \in Nat
      /\ d \in Datagram /\ d.ch \in Channels /\ d.seq \in Nat
      /\ Len(conn[p].recv.recent) <= MaxRecent /\ Len(conn[p].history) <= HistorySize
      /\ d.seq < conn[o].sendSeq /\ net[o] \in SUBSET Datagram /\ d \in net[o]
      /\ submitted[o] \in [Channels -> Nat] /\ delivered[p] \in [Channels -> Seq(Nat)]
  BY <1>1 DEF TypeOK, Datagram, ConnectionState
<1>3. conn[o].sendSeq - d.seq <= MaxAge
  BY <1>1 DEF Receive, Arrives
<1>4. /\ conn' = [conn EXCEPT ![p] = c]
      /\ delivered' = [delivered EXCEPT ![p] = del]
      /\ net' = net /\ submitted' = submitted
  BY <1>2 DEF Receive, TypeOK
<1>5. c.nextSeq = conn[p].nextSeq /\ c.pending \subseteq conn[p].pending
      /\ c.sendSeq = conn[p].sendSeq
  BY <1>2, ProcessPacketFacts
<1>6. ReceivedRight(c, del, net[o], submitted[o], conn[o].sendSeq)
  <2>1. SentRight(conn[o], net[o], submitted[o])
    BY DEF OnceInv, SentInv
  <2>2. ReceivedRight(conn[p], delivered[p], net[o], submitted[o], conn[o].sendSeq)
    BY <1>1 DEF OnceInv, ReceivedInv
  <2> QED BY <1>2, <1>3, <2>1, <2>2, ReceiveRight
<1> HIDE DEF c, del
<1>7. ASSUME NEW q \in Peers
      PROVE  /\ conn'[q] = IF q = p THEN c ELSE conn[q]
             /\ delivered'[q] = IF q = p THEN del ELSE delivered[q]
             /\ conn'[q].sendSeq = conn[q].sendSeq
             /\ conn'[q].nextSeq = conn[q].nextSeq
             /\ conn'[q].pending \subseteq conn[q].pending
  BY <1>4, <1>5 DEF TypeOK
<1>8. SentInv'
  <2>1. ASSUME NEW q \in Peers PROVE SentRight(conn'[q], net'[q], submitted'[q])
    <3>1. SentRight(conn[q], net[q], submitted[q])
      BY DEF OnceInv, SentInv
    <3> QED BY <1>4, <1>7, <3>1 DEF SentRight
  <2> QED BY <2>1 DEF SentInv
<1>9. ReceivedInv'
  <2>1. ASSUME NEW q \in Peers
        PROVE  ReceivedRight(conn'[q], delivered'[q], net'[Other(q)], submitted'[Other(q)],
                             conn'[Other(q)].sendSeq)
    <3>1. CASE q = p
      BY <1>1, <1>4, <1>6, <1>7, <3>1
    <3>2. CASE q # p
      <4>1. ReceivedRight(conn[q], delivered[q], net[Other(q)], submitted[Other(q)],
                          conn[Other(q)].sendSeq)
        BY DEF OnceInv, ReceivedInv
      <4> QED BY <1>4, <1>7, <3>2, <4>1, OtherPeer
    <3> QED BY <3>1, <3>2
  <2> QED BY <2>1 DEF ReceivedInv
<1> QED BY <1>8, <1>9 DEF OnceInv

\* OnceAlways: when the histories suffice, no message of any channel is returned
\* twice by process_packet.  On the ordered channel that is OrderedInOrder.
THEOREM OnceAlways ==
  ASSUME HalfWindow, HistoriesSuffice
  PROVE  Spec => []AtMostOnce
<1>1. Init => OrderedInv /\ OnceInv
  BY InitOrdered, InitOnce
<1>2. OrderedInv /\ OnceInv /\ [Next]_vars => (OrderedInv /\ OnceInv)'
  <2> SUFFICES ASSUME OrderedInv, OnceInv, [Next]_vars PROVE OrderedInv' /\ OnceInv'
    OBVIOUS
  <2>1. OrderedInv' /\ TypeOK
    BY OrderedStepInv DEF OrderedInv
  <2>2. ASSUME NEW p \in Peers, NEW ch \in Channels, Send(p, ch) PROVE OnceInv'
    BY <2>1, <2>2, SendOnce
  <2>3. ASSUME NEW p \in Peers, Resend(p) PROVE OnceInv'
    BY <2>1, <2>3, ResendOnce
  <2>4. ASSUME NEW p \in Peers, NEW d \in net[Other(p)], Receive(p, d) PROVE OnceInv'
    BY <2>1, <2>4, ReceiveOnce
  <2>5. CASE UNCHANGED vars
    <3>1. conn' = conn /\ net' = net /\ submitted' = submitted /\ delivered' = delivered
      BY <2>5 DEF vars
    <3>2. SentInv'
      BY <3>1 DEF OnceInv, SentInv
    <3>3. ReceivedInv'
      <4>1. ASSUME NEW q \in Peers
            PROVE  ReceivedRight(conn'[q], delivered'[q], net'[Other(q)], submitted'[Other(q)],
                                 conn'[Other(q)].sendSeq)
        <5>1. ReceivedRight(conn[q], delivered[q], net[Other(q)], submitted[Other(q)],
                            conn[Other(q)].sendSeq)
          BY DEF OnceInv, ReceivedInv
        <5>2. /\ conn'[q] = conn[q] /\ conn'[Other(q)].sendSeq = conn[Other(q)].sendSeq
              /\ delivered'[q] = delivered[q] /\ net'[Other(q)] = net[Other(q)]
              /\ submitted'[Other(q)] = submitted[Other(q)]
          BY <3>1
        <5> QED BY <5>1, <5>2
      <4> QED BY <4>1 DEF ReceivedInv
    <3> QED BY <2>1, <3>2, <3>3 DEF OnceInv
  <2> QED BY <2>1, <2>2, <2>3, <2>4, <2>5 DEF Next
<1>3. OrderedInv /\ OnceInv => AtMostOnce
  <2> SUFFICES ASSUME OrderedInv, OnceInv, NEW p \in Peers, NEW ch \in Channels
               PROVE  IsInjective(delivered[p][ch])
    BY DEF AtMostOnce
  <2>1. ReceivedRight(conn[p], delivered[p], net[Other(p)], submitted[Other(p)],
                      conn[Other(p)].sendSeq)
    BY DEF OnceInv, ReceivedInv
  <2>2. IsInjective(delivered[p][Reliable]) /\ IsInjective(delivered[p][Unreliable])
    BY <2>1 DEF ReceivedRight, ReliableRight, UnreliableRight
  <2>3. IsInjective(delivered[p][Ordered])
    <3> DEFINE s == delivered[p][Ordered]
    <3>1. s = [i \in 1 .. Len(s) |-> i]
      BY DEF OrderedInv, OrderedInOrder
    <3> HIDE DEF s
    <3>2. \A i \in DOMAIN s : s[i] = i
      BY <3>1
    <3>3. IsInjective(s)
      BY <3>2 DEF IsInjective
    <3> QED BY <3>3 DEF s
  <2> QED BY <2>2, <2>3 DEF Channels
<1> QED BY <1>1, <1>2, <1>3, PTL DEF Spec
-----------------------------------------------------------------------------
(* A pending message can settle.                                           *)

\* Aged(track, s): the entries of an AckTracker have different sequences in the
\* order of sending, all before s: from one entry to the last there are at least
\* as many sequences as entries.
Aged(track, s) == \A i \in DOMAIN track : track[i].seq + (Len(track) - i) < s

\* Waits(track, w): the AckTracker still waits for an acknowledgement of w.
Waits(track, w) == \E i \in DOMAIN track : track[i] = [seq |-> w, acked |-> FALSE]

\* Followed(c, m): the pending message m has a transmission in inflight_packets
\* that the AckTracker waits for, or that it evicted: more than MaxPending
\* datagrams have been sent after it.
Followed(c, m) ==
  \E e \in c.inflight :
    /\ e.ch = m.ch /\ e.cseq = m.cseq
    /\ Waits(c.track, e.wire) \/ e.wire + MaxPending < c.sendSeq

\* PendingIsFollowed: a pending message is lost from sight only by eviction.
PendingIsFollowed == \A p \in Peers : \A m \in conn[p].pending : Followed(conn[p], m)

SettleInv == (\A p \in Peers : Aged(conn[p].track, conn[p].sendSeq)) /\ PendingIsFollowed

\* TrackPacketStep: track_packet evicts only an entry that MaxPending younger
\* ones follow.
LEMMA TrackPacketStep ==
  ASSUME NEW track \in Seq(TrackerEntry), Len(track) <= MaxPending, NEW s \in Nat, Aged(track, s)
  PROVE  /\ Aged(TrackPacket(track, s), s + 1)
         /\ Waits(TrackPacket(track, s), s)
         /\ \A w \in Nat : Waits(track, w) =>
              Waits(TrackPacket(track, s), w) \/ w + MaxPending < s + 1
<1> DEFINE new  == [seq |-> s, acked |-> FALSE]
           full == Len(track) >= MaxPending
           kept == IF full THEN Tail(track) ELSE track
           k    == IF full THEN 1 ELSE 0
           t    == TrackPacket(track, s)
<1>1. PICK n \in Nat : n = Len(track) /\ DOMAIN track = 1 .. n
  OBVIOUS
<1>2. MaxPending \in Nat \ {0} /\ n <= MaxPending /\ (full <=> n = MaxPending)
  BY <1>1, SizesAssumption
<1>3. k \in {0, 1} /\ (k = 1 => n = MaxPending) /\ n - k \in Nat
  BY <1>2
<1>4. /\ kept \in Seq(TrackerEntry) /\ Len(kept) = n - k
      /\ \A i \in 1 .. n - k : kept[i] = track[i + k]
  <2>1. CASE full
    <3>1. track # << >>
      BY <1>1, <1>2, <2>1
    <3>2. /\ Tail(track) \in Seq(TrackerEntry) /\ Len(Tail(track)) = n - 1
          /\ \A i \in 1 .. n - 1 : Tail(track)[i] = track[i + 1]
      BY <1>1, <3>1, HeadTailProperties
    <3> QED BY <2>1, <3>2
  <2>2. CASE ~full
    BY <1>1, <2>2
  <2> QED BY <2>1, <2>2
<1>5. new \in TrackerEntry
  BY DEF TrackerEntry
<1>6. t = Append(kept, new)
  BY DEF TrackPacket
<1> HIDE DEF kept, k, t, full
<1>7. /\ Len(t) = n - k + 1 /\ DOMAIN t = 1 .. n - k + 1 /\ t[n - k + 1] = new
      /\ \A i \in 1 .. n - k : t[i] = track[i + k]
  <2>1. /\ Append(kept, new) \in Seq(TrackerEntry) /\ Len(Append(kept, new)) = Len(kept) + 1
        /\ \A i \in 1 .. Len(kept) : Append(kept, new)[i] = kept[i]
        /\ Append(kept, new)[Len(kept) + 1] = new
    BY <1>4, <1>5, AppendProperties
  <2>2. DOMAIN t = 1 .. Len(t)
    BY <1>6, <2>1
  <2> QED BY <1>4, <1>6, <2>1, <2>2
<1>8. ASSUME NEW i \in 1 .. n PROVE track[i].seq \in Nat /\ track[i].seq + (n - i) < s
  <2>1. track[i] \in TrackerEntry
    BY <1>1, ElementOfSeq
  <2> QED BY <1>1, <2>1 DEF TrackerEntry, Aged
<1>9. Aged(t, s + 1)
  <2>1. ASSUME NEW i \in 1 .. n - k + 1 PROVE t[i].seq + ((n - k + 1) - i) < s + 1
    <3>1. CASE i = n - k + 1
      <4>1. t[i].seq = s
        BY <1>7, <3>1
      <4> QED BY <1>1, <1>3, <3>1, <4>1
    <3>2. CASE i # n - k + 1
      <4>1. i \in 1 .. n - k /\ i + k \in 1 .. n
        BY <1>1, <1>3, <3>2
      <4>2. t[i] = track[i + k]
        BY <1>7, <4>1
      <4>3. PICK w \in Nat : w = track[i + k].seq /\ w + (n - (i + k)) < s
        BY <1>8, <4>1
      <4>4. w + ((n - k + 1) - i) < s + 1
        BY <1>1, <1>3, <4>1, <4>3
      <4> QED BY <4>2, <4>3, <4>4
    <3> QED BY <3>1, <3>2
  <2> QED BY <1>7, <2>1 DEF Aged
<1>10. Waits(t, s)
  <2>1. n - k + 1 \in DOMAIN t
    BY <1>1, <1>3, <1>7
  <2> QED BY <1>7, <2>1 DEF Waits
<1>11. ASSUME NEW w \in Nat, Waits(track, w) PROVE Waits(t, w) \/ w + MaxPending < s + 1
  <2>1. PICK i \in 1 .. n : track[i] = [seq |-> w, acked |-> FALSE]
    BY <1>1, <1>11 DEF Waits
  <2>2. CASE i > k
    <3>1. i - k \in 1 .. n - k /\ (i - k) + k = i /\ i - k \in 1 .. n - k + 1
      BY <1>1, <1>3, <2>2
    <3>2. t[i - k] = track[i]
      BY <1>7, <3>1
    <3> QED BY <1>7, <2>1, <3>1, <3>2 DEF Waits
  <2>3. CASE i <= k
    <3>1. i = 1 /\ k = 1 /\ n = MaxPending
      BY <1>3, <2>3
    <3>2. w + (n - 1) < s
      BY <1>8, <2>1, <3>1
    <3> QED BY <1>1, <3>1, <3>2
  <2> QED BY <1>3, <2>2, <2>3
<1> QED BY <1>9, <1>10, <1>11 DEF t

\* ProcessAckStep: process_ack stops waiting only for what is acknowledged.
LEMMA ProcessAckStep ==
  ASSUME NEW track \in Seq(TrackerEntry), NEW ack, NEW bits, NEW s \in Nat, Aged(track, s)
  PROVE  /\ Aged(ProcessAck(track, ack, bits), s)
         /\ \A w \in Nat : Waits(track, w) /\ w \notin NewlyAcked(track, ack, bits) =>
              Waits(ProcessAck(track, ack, bits), w)
<1> DEFINE mark(i) == [track[i] EXCEPT !.acked = @ \/ Acknowledges(ack, bits, track[i].seq)]
           marked  == [i \in DOMAIN track |-> mark(i)]
           T == {i \in DOMAIN track : ~marked[i].acked} \cup {Len(track) + 1}
           f == Min(T)
           t == ProcessAck(track, ack, bits)
<1>1. PICK n \in Nat : n = Len(track) /\ DOMAIN track = 1 .. n
  OBVIOUS
<1>2. ASSUME NEW i \in 1 .. n
      PROVE  /\ track[i] \in TrackerEntry /\ track[i].seq \in Nat
             /\ marked[i] \in TrackerEntry /\ marked[i].seq = track[i].seq
             /\ ~track[i].acked /\ ~Acknowledges(ack, bits, track[i].seq) => marked[i] = track[i]
  <2>1. track[i] \in TrackerEntry
    BY <1>1, ElementOfSeq
  <2>2. marked[i] = mark(i)
    BY <1>1
  <2>3. PICK w \in Nat, b \in BOOLEAN : track[i] = [seq |-> w, acked |-> b]
    BY <2>1 DEF TrackerEntry
  <2>4. mark(i) = [seq |-> w, acked |-> b \/ Acknowledges(ack, bits, w)]
    BY <2>3
  <2>5. [seq |-> w, acked |-> b \/ Acknowledges(ack, bits, w)] \in TrackerEntry
    BY DEF TrackerEntry
  <2>6. track[i].seq = w /\ track[i].acked = b /\ mark(i).seq = w
    BY <2>3, <2>4
  <2>7. ~b /\ ~Acknowledges(ack, bits, w) => mark(i) = track[i]
    BY <2>3, <2>4
  <2> QED BY <2>1, <2>2, <2>4, <2>5, <2>6, <2>7
<1>3. marked \in Seq(TrackerEntry) /\ Len(marked) = n
  <2>1. marked \in [1 .. n -> TrackerEntry]
    BY <1>1, <1>2
  <2> QED BY <1>1, <2>1
<1>4. T \subseteq Nat /\ T # {} /\ T \subseteq 1 .. n + 1
  <2> HIDE DEF marked
  <2> QED BY <1>1
<1>5. f \in T /\ \A i \in T : f <= i
  <2> HIDE DEF T
  <2> QED BY <1>4, MinIsLeast
<1>6. t = SubSeq(marked, f, n)
  BY <1>1 DEF ProcessAck
<1>7. \A i \in 1 .. n : ~marked[i].acked => f <= i
  <2> HIDE DEF f, marked
  <2>1. \A i \in 1 .. n : ~marked[i].acked => i \in T
    BY <1>1
  <2> QED BY <1>5, <2>1
<1>8. f \in 1 .. n + 1
  BY <1>4, <1>5
<1> HIDE DEF f, T, marked, mark, t
<1>9. /\ Len(t) = n + 1 - f /\ DOMAIN t = 1 .. n + 1 - f
      /\ \A j \in 1 .. n + 1 - f : t[j] = marked[j + f - 1]
  <2>1. n + 1 - f \in Nat
    BY <1>1, <1>8
  <2>2. t = [j \in 1 .. n + 1 - f |-> marked[j + f - 1]]
    BY <1>1, <1>3, <1>6, <1>8
  <2> QED BY <2>1, <2>2
<1>10. Aged(t, s)
  <2>1. ASSUME NEW j \in 1 .. n + 1 - f PROVE t[j].seq + ((n + 1 - f) - j) < s
    <3>1. PICK i \in 1 .. n : i = j + f - 1
      BY <1>1, <1>8
    <3>2. t[j] = marked[i] /\ marked[i].seq = track[i].seq /\ track[i].seq \in Nat
      BY <1>2, <1>9, <3>1
    <3>3. track[i].seq + (n - i) < s
      BY <1>1 DEF Aged
    <3>4. (n + 1 - f) - j = n - i
      BY <1>1, <1>8, <3>1
    <3> QED BY <3>2, <3>3, <3>4
  <2> QED BY <1>9, <2>1 DEF Aged
<1>11. ASSUME NEW w \in Nat, Waits(track, w), w \notin NewlyAcked(track, ack, bits)
       PROVE  Waits(t, w)
  <2>1. PICK i \in 1 .. n : track[i] = [seq |-> w, acked |-> FALSE]
    BY <1>1, <1>11 DEF Waits
  <2>2. ~track[i].acked /\ track[i].seq = w
    BY <2>1
  <2>3. ~Acknowledges(ack, bits, track[i].seq)
    BY <1>1, <1>11, <2>2 DEF NewlyAcked
  <2>4. marked[i] = track[i]
    BY <1>2, <2>2, <2>3
  <2>5. f <= i
    BY <1>7, <2>2, <2>4
  <2>6. PICK j \in 1 .. n + 1 - f : j + f - 1 = i
    <3>1. i - f + 1 \in 1 .. n + 1 - f /\ (i - f + 1) + f - 1 = i
      BY <1>1, <1>8, <2>5
    <3> QED BY <3>1
  <2>7. t[j] = marked[j + f - 1]
    BY <1>9
  <2> QED BY <1>9, <2>1, <2>4, <2>6, <2>7 DEF Waits
<1> QED BY <1>10, <1>11 DEF t

\* ProcessPacketSettle: of what concerns pending messages, process_packet does
\* what its first part does.
LEMMA ProcessPacketSettle ==
  ASSUME NEW c \in ConnectionState, NEW p \in Datagram,
         Len(c.recv.recent) <= MaxRecent, Len(c.history) <= HistorySize
  PROVE  LET d == ProcessPacket(c, p)
             acked   == NewlyAcked(c.track, p.ack, p.bits)
             settled == {e \in c.inflight : e.wire \in acked} IN
         /\ d.sendSeq = c.sendSeq
         /\ d.track = ProcessAck(c.track, p.ack, p.bits)
         /\ d.inflight = c.inflight \ settled
         /\ d.pending = {m \in c.pending : \A e \in settled : <<e.ch, e.cseq>> # <<m.ch, m.cseq>>}
<1> DEFINE s == HandleAcks(c, p)
           t == [s EXCEPT !.recv = RecordReceived(s.recv, p.seq)]
           d == ProcessPacket(c, p)
           acked   == NewlyAcked(c.track, p.ack, p.bits)
           settled == {e \in c.inflight : e.wire \in acked}
           pend == {m \in c.pending : \A e \in settled : <<e.ch, e.cseq>> # <<m.ch, m.cseq>>}
           trk  == ProcessAck(c.track, p.ack, p.bits)
           infl == c.inflight \ settled
<1>1. /\ p.seq \in Nat /\ p.cseq \in ChanSeq /\ p.msg \in Nat
      /\ p.ch \in {Unreliable, Reliable, Ordered}
      /\ Unreliable # Reliable /\ Unreliable # Ordered /\ Reliable # Ordered
  BY DEF Datagram, Channels, Unreliable, Reliable, Ordered
<1>2. s \in ConnectionState
  BY HandleAcksFacts
<1>3. t \in ConnectionState
  BY <1>1, RecordedFacts
<1>4. s = [c EXCEPT !.track = trk, !.inflight = infl, !.pending = pend]
  BY DEF HandleAcks
<1> HIDE DEF infl, pend, trk
<1>5. s.sendSeq = c.sendSeq /\ s.track = trk /\ s.inflight = infl /\ s.pending = pend
  <2> HIDE DEF s
  <2> QED BY <1>4 DEF ConnectionState
<1> HIDE DEF s
<1>6. t.sendSeq = s.sendSeq /\ t.track = s.track /\ t.inflight = s.inflight /\ t.pending = s.pending
  BY <1>2 DEF ConnectionState
<1> HIDE DEF t, d
<1>7. /\ d.sendSeq = s.sendSeq /\ d.track = s.track
      /\ d.inflight = s.inflight /\ d.pending = s.pending
  <2>1. CASE Seen(c.recv, p.seq)
    <3>1. d = s
      BY <2>1 DEF ProcessPacket, d, s
    <3> QED BY <3>1
  <2>2. CASE ~Seen(c.recv, p.seq) /\ p.ch = Unreliable
    <3>1. d = t
      BY <1>1, <2>2 DEF ProcessPacket, d, s, t
    <3> QED BY <1>6, <3>1
  <2>3. CASE ~Seen(c.recv, p.seq) /\ p.ch = Reliable
    <3>1. d = AcceptReliable(t, p)
      BY <1>1, <2>3 DEF ProcessPacket, d, s, t
    <3>2. /\ d.sendSeq = t.sendSeq /\ d.track = t.track
          /\ d.inflight = t.inflight /\ d.pending = t.pending
      BY <1>3, <3>1 DEF AcceptReliable, ConnectionState
    <3> QED BY <1>6, <3>2
  <2>4. CASE ~Seen(c.recv, p.seq) /\ p.ch = Ordered
    <3>1. d = AcceptOrdered(t, p)
      BY <1>1, <2>4 DEF ProcessPacket, d, s, t
    <3>2. /\ d.sendSeq = t.sendSeq /\ d.track = t.track
          /\ d.inflight = t.inflight /\ d.pending = t.pending
      BY <1>3, <3>1 DEF AcceptOrdered, ConnectionState
    <3> QED BY <1>6, <3>2
  <2> QED BY <1>1, <2>1, <2>2, <2>3, <2>4
<1> QED BY <1>5, <1>7 DEF d, trk, infl, pend

\* SendSettles: send_packet tracks the datagram it enters into inflight_packets.
LEMMA SendSettles ==
  ASSUME NEW c \in ConnectionState, NEW ch \in Channels, NEW msg \in Nat,
         Len(c.track) <= MaxPending, c.sendSeq + 1 < WireMod,
         Aged(c.track, c.sendSeq), \A m \in c.pending : Followed(c, m)
  PROVE  LET d == SendPacket(c, ch, msg) IN
         Aged(d.track, d.sendSeq) /\ \A m \in d.pending : Followed(d, m)
<1> DEFINE d   == SendPacket(c, ch, msg)
           trk == TrackPacket(c.track, c.sendSeq)
           key == [wire |-> c.sendSeq, ch |-> ch, cseq |-> c.nextSeq[ch]]
           ent == [ch |-> ch, cseq |-> c.nextSeq[ch], msg |-> msg]
<1>1. /\ WrapAdd(c.sendSeq, 1, WireMod) = c.sendSeq + 1
      /\ c.sendSeq \in Nat /\ c.track \in Seq(TrackerEntry)
      /\ c.inflight \in SUBSET InflightEntry /\ MaxPending \in Nat
  BY SizesAssumption DEF ConnectionState, WrapAdd
<1>2. /\ Aged(trk, c.sendSeq + 1) /\ Waits(trk, c.sendSeq)
      /\ \A w \in Nat : Waits(c.track, w) => Waits(trk, w) \/ w + MaxPending < c.sendSeq + 1
  BY <1>1, TrackPacketStep
<1>3. d.sendSeq = c.sendSeq + 1 /\ c.inflight \subseteq d.inflight
  BY <1>1 DEF SendPacket, ConnectionState
<1>4. d.track = trk
  <2>1. CASE ch = Unreliable
    BY <2>1 DEF SendPacket, ConnectionState
  <2>2. CASE ch # Unreliable
    BY <2>2 DEF SendPacket, ConnectionState
  <2> QED BY <2>1, <2>2
<1>5. ASSUME NEW m \in d.pending
      PROVE  m \in c.pending \/ (m = ent /\ key \in d.inflight)
  <2>1. CASE ch = Unreliable
    <3>1. d.pending = c.pending
      BY <2>1 DEF SendPacket, ConnectionState
    <3> QED BY <3>1
  <2>2. CASE ch # Unreliable
    <3>1. d.pending = InsertPending(c.pending, ent) /\ d.inflight = c.inflight \cup {key}
      BY <2>2 DEF SendPacket, ConnectionState
    <3>2. InsertPending(c.pending, ent) \subseteq c.pending \cup {ent}
      BY DEF InsertPending
    <3> QED BY <3>1, <3>2
  <2> QED BY <2>1, <2>2
<1> HIDE DEF d, trk
<1>6. ASSUME NEW m \in d.pending PROVE Followed(d, m)
  <2>1. CASE m \in c.pending
    <3>1. PICK e \in c.inflight : /\ e.ch = m.ch /\ e.cseq = m.cseq
                                  /\ Waits(c.track, e.wire) \/ e.wire + MaxPending < c.sendSeq
      BY <2>1 DEF Followed
    <3>2. PICK w \in Nat : w = e.wire
      BY <1>1 DEF InflightEntry
    <3>3. Waits(trk, w) \/ w + MaxPending < c.sendSeq + 1
      <4>1. CASE Waits(c.track, w)
        BY <1>2, <4>1
      <4>2. CASE w + MaxPending < c.sendSeq
        BY <1>1, <4>2
      <4> QED BY <3>1, <3>2, <4>1, <4>2
    <3>4. Waits(d.track, e.wire) \/ e.wire + MaxPending < d.sendSeq
      BY <1>3, <1>4, <3>2, <3>3
    <3>5. e \in d.inflight
      BY <1>3
    <3> QED BY <3>1, <3>4, <3>5 DEF Followed
  <2>2. CASE m = ent /\ key \in d.inflight
    <3>1. key.ch = m.ch /\ key.cseq = m.cseq /\ key.wire = c.sendSeq
      BY <2>2
    <3>2. Waits(d.track, key.wire)
      BY <1>2, <1>4, <3>1
    <3> HIDE DEF key
    <3> QED BY <2>2, <3>1, <3>2 DEF Followed
  <2> QED BY <1>5, <2>1, <2>2
<1> QED BY <1>2, <1>3, <1>4, <1>6 DEF d

\* ReceiveSettles: an acknowledgement that removes the last trace of a message
\* settles it.
LEMMA ReceiveSettles ==
  ASSUME NEW c \in ConnectionState, NEW p \in Datagram,
         Len(c.recv.recent) <= MaxRecent, Len(c.history) <= HistorySize,
         Aged(c.track, c.sendSeq), \A m \in c.pending : Followed(c, m)
  PROVE  LET d == ProcessPacket(c, p) IN
         Aged(d.track, d.sendSeq) /\ \A m \in d.pending : Followed(d, m)
<1> DEFINE d == ProcessPacket(c, p)
           acked   == NewlyAcked(c.track, p.ack, p.bits)
           settled == {e \in c.inflight : e.wire \in acked}
           trk     == ProcessAck(c.track, p.ack, p.bits)
<1>1. /\ d.sendSeq = c.sendSeq /\ d.track = trk
      /\ d.inflight = c.inflight \ settled
      /\ d.pending = {m \in c.pending : \A e \in settled : <<e.ch, e.cseq>> # <<m.ch, m.cseq>>}
  BY ProcessPacketSettle
<1>2. /\ c.sendSeq \in Nat /\ c.track \in Seq(TrackerEntry)
      /\ c.inflight \in SUBSET InflightEntry
  BY DEF ConnectionState
<1>3. /\ Aged(trk, c.sendSeq)
      /\ \A w \in Nat : Waits(c.track, w) /\ w \notin acked => Waits(trk, w)
  BY <1>2, ProcessAckStep
<1> HIDE DEF d, trk, acked
<1>4. ASSUME NEW m \in d.pending PROVE Followed(d, m)
  <2>1. m \in c.pending /\ \A e \in settled : <<e.ch, e.cseq>> # <<m.ch, m.cseq>>
    BY <1>1
  <2>2. PICK e \in c.inflight : /\ e.ch = m.ch /\ e.cseq = m.cseq
                                /\ Waits(c.track, e.wire) \/ e.wire + MaxPending < c.sendSeq
    BY <2>1 DEF Followed
  <2>3. e \notin settled /\ e.wire \notin acked /\ e.wire \in Nat
    BY <1>2, <2>1, <2>2 DEF InflightEntry
  <2>4. e \in d.inflight
    BY <1>1, <2>3
  <2>5. Waits(d.track, e.wire) \/ e.wire + MaxPending < d.sendSeq
    BY <1>1, <1>3, <2>2, <2>3
  <2> QED BY <2>2, <2>4, <2>5 DEF Followed
<1> QED BY <1>1, <1>3, <1>4 DEF d

\* ResendSettles: a resend changes neither the tracker nor what is pending.
LEMMA ResendSettles ==
  ASSUME NEW c \in ConnectionState, NEW due \in Seq(c.pending), c.sendSeq + Len(due) < WireMod,
         Aged(c.track, c.sendSeq), \A m \in c.pending : Followed(c, m)
  PROVE  LET d == CollectResends(c, due) IN
         Aged(d.track, d.sendSeq) /\ \A m \in d.pending : Followed(d, m)
<1> DEFINE d == CollectResends(c, due)
<1>1. d.sendSeq = c.sendSeq + Len(due) /\ d.track = c.track /\ d.pending = c.pending
  BY CollectResendsFacts
<1>2. c.inflight \subseteq d.inflight
  BY DEF CollectResends, ConnectionState
<1>3. PICK s \in Nat, n \in Nat, k \in Nat, b \in Nat :
        s = c.sendSeq /\ n = Len(due) /\ k = Len(c.track) /\ b = MaxPending
  BY SizesAssumption DEF ConnectionState
<1> HIDE DEF d
<1>4. Aged(d.track, d.sendSeq)
  <2>1. ASSUME NEW i \in DOMAIN c.track PROVE c.track[i].seq + (k - i) < s + n
    <3>1. c.track \in Seq(TrackerEntry) /\ i \in 1 .. k
      BY <1>3 DEF ConnectionState
    <3>2. c.track[i] \in TrackerEntry
      BY <1>3, <3>1, ElementOfSeq
    <3>3. PICK w \in Nat : w = c.track[i].seq
      BY <3>2 DEF TrackerEntry
    <3>4. w + (k - i) < s
      BY <1>3, <3>3 DEF Aged
    <3>5. w + (k - i) < s + n
      BY <1>3, <3>1, <3>4
    <3> QED BY <3>3, <3>5
  <2> QED BY <1>1, <1>3, <2>1 DEF Aged
<1>5. ASSUME NEW m \in d.pending PROVE Followed(d, m)
  <2>1. PICK e \in c.inflight : /\ e.ch = m.ch /\ e.cseq = m.cseq
                                /\ Waits(c.track, e.wire) \/ e.wire + MaxPending < c.sendSeq
    BY <1>1 DEF Followed
  <2>2. PICK w \in Nat : w = e.wire
    BY DEF ConnectionState, InflightEntry
  <2>3. w + b < s => w + b < s + n
    BY <1>3
  <2>4. Waits(d.track, e.wire) \/ e.wire + MaxPending < d.sendSeq
    BY <1>1, <1>3, <2>1, <2>2, <2>3
  <2> QED BY <1>2, <2>1, <2>4 DEF Followed
<1> QED BY <1>4, <1>5 DEF d

\* InitSettle: nothing is pending and one datagram is tracked.
LEMMA InitSettle == Init => SettleInv
<1> SUFFICES ASSUME Init PROVE SettleInv
  OBVIOUS
<1> DEFINE msg == 1
           c == SendPacket(NewConnection, Unreliable, msg)
<1>1. /\ NewConnection \in ConnectionState /\ Unreliable \in Channels /\ msg \in Nat
      /\ NewConnection.sendSeq = 0 /\ NewConnection.track = << >> /\ NewConnection.pending = {}
  BY NewConnectionType DEF NewConnection, Channels
<1>2. Len(NewConnection.track) <= MaxPending /\ NewConnection.sendSeq + 1 < WireMod
  <2>1. MaxPending \in Nat /\ WireMod \in Nat /\ 1 < WireMod
    BY SizesAssumption, ReliabilityAssumption
  <2> QED BY <1>1, <2>1
<1>3. /\ Aged(NewConnection.track, NewConnection.sendSeq)
      /\ \A m \in NewConnection.pending : Followed(NewConnection, m)
  BY <1>1 DEF Aged
<1> HIDE DEF msg
<1>4. Aged(c.track, c.sendSeq) /\ \A m \in c.pending : Followed(c, m)
  BY <1>1, <1>2, <1>3, SendSettles
<1>5. conn = [p \in Peers |-> IF p = Client THEN c ELSE NewConnection]
  BY DEF Init, c, msg
<1> HIDE DEF c
<1> QED BY <1>3, <1>4, <1>5 DEF SettleInv, PendingIsFollowed

\* SettleStep: no step of a peer loses a pending message from sight.
LEMMA SettleStep == TypeOK /\ SettleInv /\ [Next]_vars => SettleInv'
<1> SUFFICES ASSUME TypeOK, SettleInv, [Next]_vars PROVE SettleInv'
  OBVIOUS
<1>1. ASSUME NEW p \in Peers, NEW c, conn' = [conn EXCEPT ![p] = c],
             Aged(c.track, c.sendSeq), \A m \in c.pending : Followed(c, m)
      PROVE  SettleInv'
  <2>1. ASSUME NEW q \in Peers
        PROVE  /\ Aged(conn'[q].track, conn'[q].sendSeq)
               /\ \A m \in conn'[q].pending : Followed(conn'[q], m)
    <3>1. conn'[q] = IF q = p THEN c ELSE conn[q]
      BY <1>1 DEF TypeOK
    <3>2. /\ Aged(conn[q].track, conn[q].sendSeq)
          /\ \A m \in conn[q].pending : Followed(conn[q], m)
      BY DEF SettleInv, PendingIsFollowed
    <3> QED BY <1>1, <3>1, <3>2
  <2> QED BY <2>1 DEF SettleInv, PendingIsFollowed
<1>2. ASSUME NEW p \in Peers
      PROVE  /\ conn[p] \in ConnectionState /\ conn[p].sendSeq \in Nat
             /\ Len(conn[p].track) <= MaxPending
             /\ Len(conn[p].recv.recent) <= MaxRecent /\ Len(conn[p].history) <= HistorySize
             /\ Aged(conn[p].track, conn[p].sendSeq)
             /\ \A m \in conn[p].pending : Followed(conn[p], m)
  BY DEF TypeOK, SettleInv, PendingIsFollowed, ConnectionState
<1>3. ASSUME NEW p \in Peers, NEW ch \in Channels, Send(p, ch) PROVE SettleInv'
  <2> DEFINE msg == submitted[p][ch] + 1
             c   == SendPacket(conn[p], ch, msg)
  <2>1. msg \in Nat /\ conn[p].sendSeq + 1 < WireMod
    BY <1>2, <1>3, SizesAssumption, ReliabilityAssumption DEF Send, TypeOK
  <2>2. conn' = [conn EXCEPT ![p] = c]
    BY <1>3 DEF Send
  <2> HIDE DEF msg
  <2>3. Aged(c.track, c.sendSeq) /\ \A m \in c.pending : Followed(c, m)
    BY <1>2, <2>1, SendSettles
  <2> HIDE DEF c
  <2> QED BY <1>1, <2>2, <2>3
<1>4. ASSUME NEW p \in Peers, Resend(p) PROVE SettleInv'
  <2>1. PICK due \in DueLists(conn[p].pending, MaxWire - conn[p].sendSeq) :
          conn' = [conn EXCEPT ![p] = CollectResends(@, due)]
    BY <1>4 DEF Resend
  <2> DEFINE c == CollectResends(conn[p], due)
  <2>2. MaxWire \in Nat /\ WireMod \in Nat /\ MaxWire < WireMod /\ MaxWire - conn[p].sendSeq \in Int
    BY <1>2, SizesAssumption, ReliabilityAssumption
  <2>3. due \in Seq(conn[p].pending) /\ Len(due) <= MaxWire - conn[p].sendSeq
    BY <2>2, DueListsFacts
  <2>4. conn[p].sendSeq + Len(due) < WireMod
    <3>1. PICK n \in Nat : n = Len(due)
      BY <2>3
    <3>2. n <= MaxWire - conn[p].sendSeq
      BY <2>3, <3>1
    <3>3. conn[p].sendSeq + n < WireMod
      BY <1>2, <2>2, <3>1, <3>2
    <3> QED BY <3>1, <3>3
  <2>5. Aged(c.track, c.sendSeq) /\ \A m \in c.pending : Followed(c, m)
    BY <1>2, <2>3, <2>4, ResendSettles
  <2>6. conn' = [conn EXCEPT ![p] = c]
    BY <2>1
  <2> HIDE DEF c
  <2> QED BY <1>1, <2>5, <2>6
<1>5. ASSUME NEW p \in Peers, NEW d \in net[Other(p)], Receive(p, d) PROVE SettleInv'
  <2> DEFINE c == ProcessPacket(conn[p], d)
  <2>1. d \in Datagram
    BY OtherPeer DEF TypeOK
  <2>2. conn' = [conn EXCEPT ![p] = c]
    BY <1>5 DEF Receive
  <2>3. Aged(c.track, c.sendSeq) /\ \A m \in c.pending : Followed(c, m)
    BY <1>2, <2>1, ReceiveSettles
  <2> HIDE DEF c
  <2> QED BY <1>1, <2>2, <2>3
<1>6. CASE UNCHANGED vars
  <2>1. conn' = conn
    BY <1>6 DEF vars
  <2> QED BY <2>1 DEF SettleInv, PendingIsFollowed
<1> QED BY <1>3, <1>4, <1>5, <1>6 DEF Next

\* FollowedAlways: whatever the sizes, a message stays pending only while an
\* acknowledgement can settle it, until MaxPending datagrams were sent after it.
THEOREM FollowedAlways == Spec => []PendingIsFollowed
<1>1. Init => SettleInv
  BY InitSettle
<1>2. TypeOK /\ SettleInv /\ [Next]_vars => SettleInv'
  BY SettleStep
<1>3. SettleInv => PendingIsFollowed
  BY DEF SettleInv
<1> QED BY <1>1, <1>2, <1>3, TypeCorrect, PTL DEF Spec

\* SettlesAlways: as long as the AckTracker evicts nothing, a pending message
\* can settle (collect_resends and process_ack leave its first transmission).
THEOREM SettlesAlways ==
  ASSUME NothingEvicted
  PROVE  Spec => []PendingCanSettle
<1>1. TypeOK /\ PendingIsFollowed => PendingCanSettle
  <2> SUFFICES ASSUME TypeOK, PendingIsFollowed, NEW p \in Peers, NEW m \in conn[p].pending
               PROVE  \E e \in conn[p].inflight : \E i \in DOMAIN conn[p].track :
                        /\ e.ch = m.ch /\ e.cseq = m.cseq
                        /\ conn[p].track[i] = [seq |-> e.wire, acked |-> FALSE]
    BY DEF PendingCanSettle
  <2>1. PICK e \in conn[p].inflight :
          /\ e.ch = m.ch /\ e.cseq = m.cseq
          /\ Waits(conn[p].track, e.wire) \/ e.wire + MaxPending < conn[p].sendSeq
    BY DEF PendingIsFollowed, Followed
  <2>2. PICK w \in Nat, s \in Nat : w = e.wire /\ s = conn[p].sendSeq /\ s <= MaxWire
    BY DEF TypeOK, ConnectionState, InflightEntry
  <2>3. ~(w + MaxPending < s)
    BY <2>2, SizesAssumption, ReliabilityAssumption DEF NothingEvicted
  <2>4. Waits(conn[p].track, e.wire)
    BY <2>1, <2>2, <2>3
  <2> QED BY <2>1, <2>4 DEF Waits
<1> QED BY <1>1, TypeCorrect, FollowedAlways, PTL
=============================================================================

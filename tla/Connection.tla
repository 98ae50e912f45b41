----------------------------- MODULE Connection -----------------------------
(***************************************************************************)
(* The per-peer reliability state of crates/game/src/net: ClientConnection *)
(* (connection.rs), AckTracker and ReceiveTracker (tracking.rs) and the    *)
(* packet header (protocol.rs), as operators on one connection record.     *)
(*                                                                         *)
(* A payload is abstracted to a number that identifies the message.  A     *)
(* HashMap is the set of its entries, records with a unique key.  The u32  *)
(* acknowledgement bitfield is the set of distances d such that bit d-1 is *)
(* set, that is, the wire sequences ack - d it claims were received.       *)
(* Clocks are not modelled: which pending messages are due for a resend is *)
(* an input of CollectResends.                                             *)
(*                                                                         *)
(* An operator whose name ends in _ and a word is a faulty variant of the  *)
(* operator that follows it: a plausible bug, which a run must reveal.     *)
(***************************************************************************)
EXTENDS Integers, Sequences, FiniteSets, SequencesExt

CONSTANTS WireMod,      \* the wire sequence is a u32: 2^32
          ChanMod,      \* a channel sequence is a u16: 2^16
          AckBits,      \* width of ack_bitfield: 32
          MaxPending,   \* capacity of AckTracker: 1024
          MaxRecent,    \* capacity of ReceiveTracker.recent_sequences: 128
          HistorySize   \* RELIABLE_HISTORY_SIZE: 256

ASSUME SizesAssumption ==
  /\ WireMod \in Nat \ {0}
  /\ ChanMod \in Nat \ {0}
  /\ AckBits \in Nat \ {0}
  /\ MaxPending \in Nat \ {0}
  /\ MaxRecent \in Nat \ {0}
  /\ HistorySize \in Nat \ {0}

Unreliable == "unreliable"
Reliable   == "reliable"
Ordered    == "ordered"
Channels   == {Unreliable, Reliable, Ordered}

WireSeq == 0 .. WireMod - 1
ChanSeq == 0 .. ChanMod - 1
-----------------------------------------------------------------------------
(* Sequence arithmetic.                                                    *)

\* wrapping_add on an integer of m values, for a, k < m + 1
WrapAdd(a, k, m) == IF a + k >= m THEN a + k - m ELSE a + k

\* wrapping_sub
WrapSub(a, b, m) == IF a >= b THEN a - b ELSE a - b + m

SeqGreater_NotEqual(a, b, m) == a # b
\* sequence_greater_than (m = 2^32) and sequence_greater_than_u16 (m = 2^16)
SeqGreater(a, b, m) ==
  LET half == (m - 1) \div 2
  IN  \/ a > b /\ a - b <= half
      \/ a < b /\ b - a > half
-----------------------------------------------------------------------------
(* AckTracker: the packets awaiting an acknowledgement, oldest first.      *)

\* track_packet: evict the oldest entry when full, then push
TrackPacket(track, seq) ==
  LET kept == IF Len(track) >= MaxPending THEN Tail(track) ELSE track
  IN  Append(kept, [seq |-> seq, acked |-> FALSE])

\* Does the header pair (ack, bits) acknowledge wire sequence seq?
Acknowledges(ack, bits, seq) ==
  \/ seq = ack
  \/ SeqGreater(ack, seq, WireMod) /\ WrapSub(ack, seq, WireMod) \in bits

\* process_ack, its result: the sequences acknowledged for the first time
NewlyAcked(track, ack, bits) ==
  {track[i].seq : i \in {j \in DOMAIN track : /\ ~track[j].acked
                                             /\ Acknowledges(ack, bits, track[j].seq)}}

\* process_ack, its effect: mark them, then pop the acknowledged prefix
ProcessAck(track, ack, bits) ==
  LET marked == [i \in DOMAIN track |->
                   [track[i] EXCEPT !.acked = @ \/ Acknowledges(ack, bits, track[i].seq)]]
      first  == Min({i \in DOMAIN track : ~marked[i].acked} \cup {Len(track) + 1})
  IN  SubSeq(marked, first, Len(track))
-----------------------------------------------------------------------------
(* ReceiveTracker: last_received, received_bitfield, recent_sequences.     *)

NewReceiveTracker == [last |-> 0, bits |-> {}, recent |-> << >>]

Seen(rt, seq) == \E i \in DOMAIN rt.recent : rt.recent[i] = seq

\* (bitfield << diff) | 1.  A u32 shift by 32 keeps the value in a release
\* build (the amount is masked), hence the % AckBits.
ShiftIn(bits, diff) ==
  ({b + (diff % AckBits) : b \in bits} \cap (1 .. AckBits)) \cup {1}

\* record_received on a sequence that is not in recent_sequences
RecordReceived(rt, seq) ==
  LET kept    == IF Len(rt.recent) >= MaxRecent THEN Tail(rt.recent) ELSE rt.recent
      ahead   == WrapSub(seq, rt.last, WireMod)
      behind  == WrapSub(rt.last, seq, WireMod)
      newBits == IF SeqGreater(seq, rt.last, WireMod)
                 THEN IF ahead <= AckBits THEN ShiftIn(rt.bits, ahead) ELSE {}
                 ELSE rt.bits \cup (IF behind \in 1 .. AckBits THEN {behind} ELSE {})
  IN  [last   |-> IF SeqGreater(seq, rt.last, WireMod) THEN seq ELSE rt.last,
       bits   |-> newBits,
       recent |-> Append(kept, seq)]
-----------------------------------------------------------------------------
(* ClientConnection.                                                       *)

\* ClientConnection::new
NewConnection ==
  [sendSeq  |-> 0,                  \* send_sequence
   track    |-> << >>,              \* ack_tracker.pending
   nextSeq  |-> [ch \in {Reliable, Ordered} |-> 0],  \* next_reliable_seq, next_ordered_seq
   inflight |-> {},                 \* inflight_packets
   pending  |-> {},                 \* pending_reliable and pending_ordered
   recv     |-> NewReceiveTracker,  \* receive_tracker
   history  |-> << >>,              \* received_reliable_history
   expected |-> 0,                  \* next_expected_ordered
   buffer   |-> {}]                 \* ordered_buffer

\* A packet: header and payload
Packet(c, wire, ch, cseq, msg) ==
  [seq |-> wire, ack |-> c.recv.last, bits |-> c.recv.bits,
   ch |-> ch, cseq |-> cseq, msg |-> msg]

\* send_packet, the packet it returns
SentPacket(c, ch, msg) ==
  Packet(c, c.sendSeq, ch, IF ch = Unreliable THEN 0 ELSE c.nextSeq[ch], msg)

\* HashMap::insert of the pending message m under its key
InsertPending(pending, m) ==
  {e \in pending : <<e.ch, e.cseq>> # <<m.ch, m.cseq>>} \cup {m}

\* send_packet, the connection it leaves
SendPacket(c, ch, msg) ==
  LET tracked == [c EXCEPT !.sendSeq = WrapAdd(@, 1, WireMod),
                           !.track   = TrackPacket(@, c.sendSeq)]
  IN  IF ch = Unreliable
      THEN tracked
      ELSE [tracked EXCEPT
              !.nextSeq[ch] = WrapAdd(@, 1, ChanMod),
              !.pending  = InsertPending(@, [ch |-> ch, cseq |-> c.nextSeq[ch], msg |-> msg]),
              !.inflight = @ \cup {[wire |-> c.sendSeq, ch |-> ch, cseq |-> c.nextSeq[ch]]}]

\* The lists collect_resends may work through: any of the pending messages
\* are due (at most room of them), reliable ones first, in HashMap order
DueLists(pending, room) ==
  UNION {{due \in [1 .. n -> pending] :
            /\ IsInjective(due)
            /\ \A i, j \in 1 .. n : i < j /\ due[i].ch = Ordered => due[j].ch = Ordered} :
         n \in 1 .. room}

\* collect_resends, the packets it returns: due is the sequence of the
\* pending messages whose timer ran out, in the order they are resent
ResentPackets(c, due) ==
  {Packet(c, WrapAdd(c.sendSeq, i - 1, WireMod), due[i].ch, due[i].cseq, due[i].msg) :
     i \in DOMAIN due}

CollectResends_NoAdvance(c, due) ==
  [c EXCEPT !.inflight = @ \cup {[wire |-> WrapAdd(c.sendSeq, i - 1, WireMod),
                                  ch |-> due[i].ch, cseq |-> due[i].cseq] : i \in DOMAIN due}]

\* collect_resends, the connection it leaves.  A resend enters
\* inflight_packets but not the AckTracker.
CollectResends(c, due) ==
  [c EXCEPT !.sendSeq  = WrapAdd(@, Len(due), WireMod),
            !.inflight = @ \cup {[wire |-> WrapAdd(c.sendSeq, i - 1, WireMod),
                                  ch |-> due[i].ch, cseq |-> due[i].cseq] : i \in DOMAIN due}]

HandleAcks_ReliableOnly(c, p) ==
  LET acked   == NewlyAcked(c.track, p.ack, p.bits)
      settled == {e \in c.inflight : e.wire \in acked}
  IN  [c EXCEPT !.track    = ProcessAck(@, p.ack, p.bits),
                !.inflight = @ \ settled,
                !.pending  = {m \in @ : \A e \in settled :
                                e.ch = Ordered \/ <<e.ch, e.cseq>> # <<m.ch, m.cseq>>}]

\* process_packet, first part: acknowledgements settle pending messages
HandleAcks(c, p) ==
  LET acked   == NewlyAcked(c.track, p.ack, p.bits)
      settled == {e \in c.inflight : e.wire \in acked}
  IN  [c EXCEPT !.track    = ProcessAck(@, p.ack, p.bits),
                !.inflight = @ \ settled,
                !.pending  = {m \in @ : \A e \in settled :
                                          <<e.ch, e.cseq>> # <<m.ch, m.cseq>>}]

Buffered(buffer, s) == \E e \in buffer : e.cseq = s

RunLength_NoDrain(buffer, next) == 0

\* The length of the run of buffered ordered messages that starts at next
RunLength(buffer, next) ==
  Min({k \in 0 .. ChanMod : k = ChanMod \/ ~Buffered(buffer, WrapAdd(next, k, ChanMod))})

OrderedResult_NoBuffering(c, p) ==
  IF p.cseq = c.expected \/ SeqGreater(p.cseq, c.expected, ChanMod) THEN <<p.msg>> ELSE << >>

\* process_packet, third part, ordered channel: what is delivered...
OrderedResult(c, p) ==
  LET next == WrapAdd(c.expected, 1, ChanMod)
  IN  IF p.cseq = c.expected
      THEN <<p.msg>> \o [k \in 1 .. RunLength(c.buffer, next) |->
                           (CHOOSE e \in c.buffer : e.cseq = WrapAdd(next, k - 1, ChanMod)).msg]
      ELSE << >>

\* ...and the state it leaves: deliver and drain, buffer, or drop
AcceptOrdered(c, p) ==
  LET next == WrapAdd(c.expected, 1, ChanMod)
      run  == RunLength(c.buffer, next)
      used == {WrapAdd(next, k, ChanMod) : k \in 0 .. run - 1}
  IN  IF p.cseq = c.expected
      THEN [c EXCEPT !.expected = WrapAdd(next, run, ChanMod),
                     !.buffer   = {e \in @ : e.cseq \notin used}]
      ELSE IF SeqGreater(p.cseq, c.expected, ChanMod)
           THEN [c EXCEPT !.buffer = {e \in @ : e.cseq # p.cseq}
                                       \cup {[cseq |-> p.cseq, msg |-> p.msg]}]
           ELSE c

\* The reliable channel delivers what is not in received_reliable_history
InHistory(c, p) == \E i \in DOMAIN c.history : c.history[i] = p.cseq

AcceptReliable_NoHistory(c, p) == c

AcceptReliable(c, p) ==
  LET kept == IF Len(c.history) >= HistorySize THEN Tail(c.history) ELSE c.history
  IN  IF InHistory(c, p) THEN c ELSE [c EXCEPT !.history = Append(kept, p.cseq)]

\* process_packet, the payloads it returns: none for a wire duplicate
Result(c, p) ==
  CASE Seen(c.recv, p.seq) -> << >>
    [] ~Seen(c.recv, p.seq) /\ p.ch = Unreliable -> <<p.msg>>
    [] ~Seen(c.recv, p.seq) /\ p.ch = Reliable   -> IF InHistory(c, p) THEN << >> ELSE <<p.msg>>
    [] ~Seen(c.recv, p.seq) /\ p.ch = Ordered    -> OrderedResult(c, p)

\* process_packet, the connection it leaves
ProcessPacket(c, p) ==
  LET settled  == HandleAcks(c, p)
      recorded == [settled EXCEPT !.recv = RecordReceived(@, p.seq)]
  IN  CASE Seen(c.recv, p.seq) -> settled
        [] ~Seen(c.recv, p.seq) /\ p.ch = Unreliable -> recorded
        [] ~Seen(c.recv, p.seq) /\ p.ch = Reliable   -> AcceptReliable(recorded, p)
        [] ~Seen(c.recv, p.seq) /\ p.ch = Ordered    -> AcceptOrdered(recorded, p)
=============================================================================

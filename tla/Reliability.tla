---------------------------- MODULE Reliability ----------------------------
(***************************************************************************)
(* Two ClientConnections over UDP: the reliability layer of the client and *)
(* the server.  A datagram may be lost, delayed, reordered and duplicated. *)
(*                                                                         *)
(* A behaviour starts when the server has accepted the client's first      *)
(* ConnectionRequest: that datagram (wire sequence 0 of the client) was    *)
(* handled without a connection, so the server's ReceiveTracker knows      *)
(* nothing of it, and a duplicate of it may still arrive.  The client      *)
(* sends nothing more before it has received something.                    *)
(***************************************************************************)
EXTENDS Connection

CONSTANTS Client, Server,
          MaxMsgs,    \* MaxMsgs[p][ch]: bound on the messages p submits on ch
          MaxWire,    \* bound on the datagrams of one peer
          MaxAge,     \* no datagram arrives after MaxAge newer ones were sent
          Window      \* bound on the distance, in ordered messages, between
                      \* what is sent or arrives and what is expected

Peers == {Client, Server}

\* What sequence_greater_than_u16 needs to tell older from newer
HalfWindow == 2 * Window < ChanMod

\* What the two histories of the receiver need to tell a repetition: no datagram
\* comes so late that recent_sequences has forgotten the ones around it, and
\* received_reliable_history holds every message of the reliable channel
HistoriesSuffice ==
  /\ 2 * MaxAge <= MaxRecent + 1
  /\ \A p \in Peers : MaxMsgs[p][Reliable] <= HistorySize
  /\ HistorySize <= ChanMod

\* The AckTracker never drops what is not acknowledged
NothingEvicted == MaxWire <= MaxPending

ASSUME ReliabilityAssumption ==
  /\ Client # Server
  /\ MaxMsgs \in [Peers -> [Channels -> Nat]]
  /\ MaxWire \in Nat \ {0}
  /\ MaxWire < WireMod
  /\ MaxAge \in Nat
  /\ Window \in Nat

VARIABLES conn,       \* conn[p]: the ClientConnection of p
          net,        \* net[p]: the datagrams p has sent
          submitted,  \* submitted[p][ch]: number of messages p has submitted
          delivered,  \* delivered[p][ch]: messages process_packet gave to p
          heard       \* heard[p]: wire sequences of the peer that reached p

vars == <<conn, net, submitted, delivered, heard>>

Other(p) == IF p = Client THEN Server ELSE Client

Init ==
  /\ conn = [p \in Peers |-> IF p = Client THEN SendPacket(NewConnection, Unreliable, 1)
                                           ELSE NewConnection]
  /\ net = [p \in Peers |-> IF p = Client THEN {SentPacket(NewConnection, Unreliable, 1)} ELSE {}]
  /\ submitted = [p \in Peers |-> [ch \in Channels |->
                    IF p = Client /\ ch = Unreliable THEN 1 ELSE 0]]
  /\ delivered = [p \in Peers |-> [ch \in Channels |-> << >>]]
  /\ heard = [p \in Peers |-> IF p = Server THEN {0} ELSE {}]
-----------------------------------------------------------------------------
MaySend(p) == p = Server \/ conn[p].recv.recent # << >>

\* The application of p sends a message: send_packet and send_to
Send(p, ch) ==
  LET msg == submitted[p][ch] + 1
  IN  /\ MaySend(p)
      /\ msg <= MaxMsgs[p][ch]
      /\ conn[p].sendSeq < MaxWire
      /\ ch = Ordered => msg - Len(delivered[Other(p)][ch]) <= Window
      /\ conn' = [conn EXCEPT ![p] = SendPacket(@, ch, msg)]
      /\ net' = [net EXCEPT ![p] = @ \cup {SentPacket(conn[p], ch, msg)}]
      /\ submitted' = [submitted EXCEPT ![p][ch] = msg]
      /\ UNCHANGED <<delivered, heard>>

\* process_resends: collect_resends and send_to
Resend(p) ==
  \E due \in DueLists(conn[p].pending, MaxWire - conn[p].sendSeq) :
    /\ conn' = [conn EXCEPT ![p] = CollectResends(@, due)]
    /\ net' = [net EXCEPT ![p] = @ \cup ResentPackets(conn[p], due)]
    /\ UNCHANGED <<submitted, delivered, heard>>

\* Can the datagram d of the peer of p reach p now?
Arrives(p, d) ==
  /\ conn[Other(p)].sendSeq - d.seq <= MaxAge
  /\ d.ch = Ordered => Len(delivered[p][Ordered]) - d.msg < Window

\* receive and process_packet
Receive(p, d) ==
  /\ Arrives(p, d)
  /\ conn' = [conn EXCEPT ![p] = ProcessPacket(@, d)]
  /\ delivered' = [delivered EXCEPT ![p][d.ch] = @ \o Result(conn[p], d)]
  /\ heard' = [heard EXCEPT ![p] = @ \cup {d.seq}]
  /\ UNCHANGED <<net, submitted>>

Next ==
  \E p \in Peers :
    \/ \E ch \in Channels : Send(p, ch)
    \/ Resend(p)
    \/ \E d \in net[Other(p)] : Receive(p, d)

Spec == Init /\ [][Next]_vars

\* The link loses nothing: a datagram that stays receivable is received
Fairness ==
  \A p \in Peers : \A s \in 0 .. MaxWire - 1 :
    WF_vars(\E d \in net[Other(p)] : d.seq = s /\ s \notin heard[p] /\ Receive(p, d))

FairSpec == Spec /\ Fairness
-----------------------------------------------------------------------------
(* Types.                                                                  *)

Datagram == [seq : Nat, ack : Nat, bits : SUBSET (1 .. AckBits),
             ch : Channels, cseq : ChanSeq, msg : Nat]

TrackerEntry  == [seq : Nat, acked : BOOLEAN]
InflightEntry == [wire : Nat, ch : {Reliable, Ordered}, cseq : ChanSeq]
PendingEntry  == [ch : {Reliable, Ordered}, cseq : ChanSeq, msg : Nat]
BufferEntry   == [cseq : ChanSeq, msg : Nat]
ChannelSeqs   == [{Reliable, Ordered} -> ChanSeq]
TrackerState  == [last : Nat, bits : SUBSET (1 .. AckBits), recent : Seq(Nat)]

ConnectionState ==
  [sendSeq  : Nat,
   track    : Seq(TrackerEntry),
   nextSeq  : ChannelSeqs,
   inflight : SUBSET InflightEntry,
   pending  : SUBSET PendingEntry,
   recv     : TrackerState,
   history  : Seq(ChanSeq),
   expected : ChanSeq,
   buffer   : SUBSET BufferEntry]

\* TypeOK: every field keeps the type of the struct member it models, the
\* deques stay within their capacities, and no datagram carries a wire
\* sequence that its sender has not used yet, whatever the network does.
TypeOK ==
  /\ conn \in [Peers -> ConnectionState]
  /\ net \in [Peers -> SUBSET Datagram]
  /\ submitted \in [Peers -> [Channels -> Nat]]
  /\ delivered \in [Peers -> [Channels -> Seq(Nat)]]
  /\ heard \in [Peers -> SUBSET Nat]
  /\ \A p \in Peers :
       /\ conn[p].sendSeq <= MaxWire
       /\ Len(conn[p].track) <= MaxPending
       /\ Len(conn[p].recv.recent) <= MaxRecent
       /\ Len(conn[p].history) <= HistorySize
       /\ \A d \in net[p] : d.seq < conn[p].sendSeq
-----------------------------------------------------------------------------
(* Safety.                                                                 *)

\* OrderedInOrder: the ordered channel hands over messages 1, 2, 3, ... with
\* no gap, repetition or swap, although process_packet sees datagrams in any
\* order and number (the CHANNEL_ORDERED branch and its reorder buffer).
OrderedInOrder ==
  \A p \in Peers :
    /\ delivered[p][Ordered] = [i \in 1 .. Len(delivered[p][Ordered]) |-> i]
    /\ Len(delivered[p][Ordered]) <= submitted[Other(p)][Ordered]

\* BufferAhead: the reorder buffer holds only messages the peer did submit and
\* that are still to be delivered, each under the sequence it was sent with:
\* nothing stale is left in ordered_buffer to surface after a wrap.
BufferAhead ==
  \A p \in Peers : \A e \in conn[p].buffer :
    /\ e.msg \in Len(delivered[p][Ordered]) + 2 .. submitted[Other(p)][Ordered]
    /\ e.cseq = (e.msg - 1) % ChanMod

\* SequencesTrackMessages: the two ends never disagree on which message an
\* ordered sequence number stands for: next_ordered_seq counts the messages
\* submitted, next_expected_ordered those delivered, and a message that is
\* pending or in a datagram carries the sequence it was submitted under.
SequencesTrackMessages ==
  \A p \in Peers :
    /\ conn[p].nextSeq[Ordered] = submitted[p][Ordered] % ChanMod
    /\ conn[p].expected = Len(delivered[p][Ordered]) % ChanMod
    /\ submitted[Other(p)][Ordered] - Len(delivered[p][Ordered]) <= Window
    /\ \A m \in conn[p].pending \cup net[p] : m.ch = Ordered =>
         /\ m.msg \in 1 .. submitted[p][Ordered]
         /\ m.cseq = (m.msg - 1) % ChanMod

\* OrderedIsExact: through every wrap the ordered channel delivers in order,
\* buffers only what is ahead, and both ends agree on the sequences.
OrderedIsExact == OrderedInOrder /\ BufferAhead /\ SequencesTrackMessages

\* AtMostOnce: process_packet never returns a message twice, on any channel:
\* recent_sequences stops network duplicates, received_reliable_history stops
\* resends that travel under a new wire sequence.
AtMostOnce ==
  \A p \in Peers, ch \in Channels : IsInjective(delivered[p][ch])

\* PendingCanSettle: a message that is still pending has a transmission that
\* an acknowledgement from the peer can still settle, being both in
\* inflight_packets and unacknowledged in the AckTracker.
PendingCanSettle ==
  \A p \in Peers : \A m \in conn[p].pending :
    \E e \in conn[p].inflight : \E i \in DOMAIN conn[p].track :
      /\ e.ch = m.ch /\ e.cseq = m.cseq
      /\ conn[p].track[i] = [seq |-> e.wire, acked |-> FALSE]

\* AcksSound: once the first datagram of the peer has arrived, so that the
\* initial last_received = 0 is true, the acknowledgement a peer puts into its
\* headers names only wire sequences that reached it (ReceiveTracker::ack_data).
AcksSound ==
  \A p \in Peers :
    LET rt == conn[p].recv
    IN  0 \in heard[p] => {rt.last} \cup {rt.last - b : b \in rt.bits} \subseteq heard[p]

\* AckedIsSettled: when process_packet handles a header that acknowledges a
\* transmission in inflight_packets, its message is not pending afterwards.
AckedIsSettled ==
  [][\A p \in Peers : \A d \in net[Other(p)] : Receive(p, d) =>
       \A e \in conn[p].inflight : Acknowledges(d.ack, d.bits, e.wire) =>
         ~\E m \in conn'[p].pending : m.ch = e.ch /\ m.cseq = e.cseq]_vars
-----------------------------------------------------------------------------
(* The ordered channel is an OrderedChannel in each direction.             *)

ReceivedFrom(p) == delivered[Other(p)][Ordered]

Abstract == INSTANCE OrderedChannel WITH
  Senders  <- Peers,
  sent     <- [p \in Peers |-> submitted[p][Ordered]],
  received <- [p \in Peers |-> ReceivedFrom(p)]

\* ImplementsOrderedChannel: every step of the two connections is a Submit or
\* a Deliver of OrderedChannel, or leaves its variables unchanged.
ImplementsOrderedChannel == Abstract!Spec

\* AllArrive: over a link that loses nothing, however it reorders and
\* duplicates, every reliable or ordered message reaches the application.
AllArrive ==
  \A p \in Peers, ch \in {Reliable, Ordered} : \A n \in 1 .. MaxMsgs[p][ch] :
    submitted[p][ch] >= n ~>
      \E i \in DOMAIN delivered[Other(p)][ch] : delivered[Other(p)][ch][i] = n
=============================================================================

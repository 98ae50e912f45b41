----------------------------- MODULE EventQueue -----------------------------
(***************************************************************************)
(* EventQueue (crates/game/src/event/queue.rs) with the reliability of the *)
(* events (types.rs).  No program uses it yet: the environment pushes      *)
(* events, and acknowledges sequences of events that were pushed.          *)
(*                                                                         *)
(* number is the sequence of an event before it wraps; the queue sees it   *)
(* modulo SeqSpace.  As long as acknowledgements are compared by half of the *)
(* space, the events that are pending must lie within it.                  *)
(***************************************************************************)
EXTENDS Integers, FiniteSets, SequencesExt, Subsequence

CONSTANTS MaxPending,  \* max_pending
          SeqSpace,    \* 2^32
          Ttl,         \* ttl_ms of the events that expire
          MaxTick,     \* bound on the ticks of the events
          MaxEvents    \* bound on the events pushed

ASSUME EventQueueAssumption ==
  /\ MaxPending \in Nat \ {0} /\ SeqSpace \in Nat /\ SeqSpace > 4
  /\ Ttl \in Nat /\ MaxTick \in Nat /\ MaxEvents \in Nat

\* GameEvent::reliability
Reliabilities == {"Reliable", "UnreliableExpiring", "Unreliable"}

VARIABLES pending,     \* EventQueue.pending
          pushed,      \* the events pushed: next_sequence before it wraps
          time,        \* current_time_ms
          \* history
          acked        \* the greatest number acknowledged, or -1

eventVars == <<pending, pushed, time, acked>>

IsReliable(e) == e.reliability = "Reliable"

EventInit == pending = << >> /\ pushed = 0 /\ time = 0 /\ acked = -1

Sequence(number) == number % SeqSpace

\* evict_oldest_unreliable: nothing, when every event is reliable
EvictOldestUnreliable(events) ==
  LET unreliable == {i \in DOMAIN events : ~IsReliable(events[i])}
  IN  IF unreliable = {} THEN events
      ELSE RemoveAt(events, CHOOSE i \in unreliable : \A j \in unreliable : i <= j)

\* push
Pushed(events, e) ==
  Append(IF Len(events) >= MaxPending THEN EvictOldestUnreliable(events) ELSE events, e)

\* A push keeps the events within half of the sequence space
Push(tick, reliability) ==
  /\ pushed < MaxEvents
  /\ pending # << >> => pushed - Head(pending).number < (SeqSpace - 1) \div 2
  /\ pending' = Pushed(pending, [number |-> pushed, tick |-> tick, at |-> time,
                                 reliability |-> reliability, acked |-> FALSE])
  /\ pushed' = pushed + 1
  /\ UNCHANGED <<time, acked>>

Latest(a, b) == IF a > b THEN a ELSE b

\* ack: the first event with this sequence
Ack(number) ==
  /\ LET hits == {i \in DOMAIN pending : Sequence(pending[i].number) = Sequence(number)}
     IN  pending' = [i \in DOMAIN pending |->
           IF i \in hits /\ \A j \in hits : i <= j THEN [pending[i] EXCEPT !.acked = TRUE]
           ELSE pending[i]]
  /\ acked' = Latest(acked, number)
  /\ UNCHANGED <<pushed, time>>

SequenceLte_Plain(a, b) == a <= b

\* sequence_lte
SequenceLte(a, b) == (b - a) % SeqSpace < (SeqSpace - 1) \div 2

\* ack_up_to
AckUpTo(number) ==
  /\ pending' = [i \in DOMAIN pending |->
       IF SequenceLte(Sequence(pending[i].number), Sequence(number))
       THEN [pending[i] EXCEPT !.acked = TRUE] ELSE pending[i]]
  /\ acked' = Latest(acked, number)
  /\ UNCHANGED <<pushed, time>>

IsExpired_Reliable(e, t) == IF e.reliability = "Unreliable" THEN TRUE ELSE t - e.at > Ttl

\* is_expired, at the time t
IsExpired(e, t) ==
  CASE e.reliability = "UnreliableExpiring" -> t - e.at > Ttl
    [] e.reliability = "Unreliable"         -> TRUE
    [] e.reliability = "Reliable"           -> FALSE

\* cleanup, some time later
Cleanup(elapsed) ==
  /\ time + elapsed <= Ttl + 1
  /\ time' = time + elapsed
  /\ pending' = Retain(pending, {i \in DOMAIN pending :
                               ~pending[i].acked /\ ~IsExpired(pending[i], time')})
  /\ UNCHANGED <<pushed, acked>>

\* drain_events_for_tick
DrainEventsForTick(tick) ==
  /\ pending' = Retain(pending, {i \in DOMAIN pending : pending[i].tick # tick})
  /\ UNCHANGED <<pushed, time, acked>>

\* An acknowledgement is of an event that was pushed, and not older than half
\* of the sequence space
MayBeAcked == {n \in 0 .. pushed - 1 : pushed - n <= (SeqSpace - 1) \div 2}

EventNext ==
  \/ \E tick \in 0 .. MaxTick, r \in Reliabilities : Push(tick, r)
  \/ \E n \in MayBeAcked : Ack(n) \/ AckUpTo(n)
  \/ \E elapsed \in 0 .. 1 : Cleanup(elapsed)
  \/ \E tick \in 0 .. MaxTick : DrainEventsForTick(tick)

EventSpec == EventInit /\ [][EventNext]_eventVars
-----------------------------------------------------------------------------
(* Properties.                                                             *)

\* EventTypeOK: the events are in the order in which they were pushed and have
\* sequences of their own.
EventTypeOK ==
  \A i \in DOMAIN pending :
    /\ pending[i].number \in 0 .. pushed - 1
    /\ \A j \in DOMAIN pending : i < j =>
         /\ pending[i].number < pending[j].number
         /\ Sequence(pending[i].number) # Sequence(pending[j].number)

\* ReliableStays: a reliable event leaves the queue only when it was
\* acknowledged or its tick is drained: it is never evicted and never expires,
\* however full the queue and however late.
ReliableStays ==
  [][\A e \in ToSet(pending) :
       IsReliable(e) /\ ~e.acked =>
         \/ \E f \in ToSet(pending') : f.number = e.number
         \/ \A f \in ToSet(pending') : f.tick # e.tick]_eventVars

\* NothingNewerAcked: the acknowledgement of a sequence never takes an event
\* that was pushed later, on either side of the wrap.
NothingNewerAcked == \A e \in ToSet(pending) : e.acked => e.number <= acked

\* OnlyReliableOverflow: the queue grows past its limit with reliable events
\* only, but for the last one that was pushed.
OnlyReliableOverflow ==
  Len(pending) > MaxPending =>
    Cardinality({i \in DOMAIN pending : ~IsReliable(pending[i])}) <= 1

\* EventsInOrder: the queue is in order, is acknowledged in order, and is over
\* its limit for the sake of reliable events only.
EventsInOrder == EventTypeOK /\ NothingNewerAcked /\ OnlyReliableOverflow
=============================================================================

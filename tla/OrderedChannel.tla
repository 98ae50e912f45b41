--------------------------- MODULE OrderedChannel ---------------------------
(***************************************************************************)
(* What Reliability::Ordered promises its user in each direction: the      *)
(* messages arrive in the order they were submitted, with no gap and no    *)
(* repetition.  Message number n of a sender is the number n itself.       *)
(***************************************************************************)
EXTENDS Integers, Sequences

CONSTANT Senders

VARIABLES sent,     \* sent[p]: how many messages sender p has submitted
          received  \* received[p]: the sequence of p's messages delivered

vars == <<sent, received>>

Init ==
  /\ sent = [p \in Senders |-> 0]
  /\ received = [p \in Senders |-> << >>]

Submit(p) ==
  /\ sent' = [sent EXCEPT ![p] = @ + 1]
  /\ UNCHANGED received

\* The next messages in order, as many as one packet makes available
Deliver(p) ==
  \E n \in Len(received[p]) + 1 .. sent[p] :
    /\ received' = [received EXCEPT ![p] = [i \in 1 .. n |-> i]]
    /\ UNCHANGED sent

Next == \E p \in Senders : Submit(p) \/ Deliver(p)

Spec == Init /\ [][Next]_vars
=============================================================================

--------------------------- MODULE MCReliability ---------------------------
(* Small instances of Reliability.  A quota lists the messages on the      *)
(* unreliable, the reliable and the ordered channel.                       *)
EXTENDS Reliability

Quota(u, r, o) == [ch \in Channels |->
  CASE ch = Unreliable -> u [] ch = Reliable -> r [] ch = Ordered -> o]

\* The server uses every channel, the client answers unreliably (its request
\* is the first of its unreliable messages)
MCDownlink == [p \in Peers |-> IF p = Server THEN Quota(0, 1, 2) ELSE Quota(2, 0, 0)]

\* Ordered messages enough to wrap a small channel sequence
MCOrdered == [p \in Peers |-> IF p = Server THEN Quota(0, 0, 6) ELSE Quota(1, 0, 0)]

\* Few enough for a liveness check
MCArrive == [p \in Peers |-> IF p = Server THEN Quota(0, 1, 2) ELSE Quota(1, 0, 0)]
=============================================================================

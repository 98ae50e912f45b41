------------------------------ MODULE Playback ------------------------------
(***************************************************************************)
(* The clock by which a client draws the other players: the                *)
(* InterpolationEngine (crates/client/src/net/interpolation.rs), pushed by *)
(* handle_snapshot and updated once per frame by NetworkClient::update     *)
(* (client.rs) with the delta that GameState::update                       *)
(* (crates/client/src/game/mod.rs) measures and caps.                      *)
(*                                                                         *)
(* The clocks of the two machines advance alike and the model reads both   *)
(* as now, so that an offset of 0 is exact; the engine only ever sees      *)
(* offsets that are too low, by the time a snapshot travelled.  Time       *)
(* stands still within a frame.  Products with the rates are rounded down. *)
(* What a snapshot says is module SnapshotSync's matter: here it is its    *)
(* server_time_ms, and expand_snapshot succeeds or not.                    *)
(***************************************************************************)
EXTENDS Integers, SequencesExt, Subsequence

CONSTANTS Delay,              \* target_delay_ms: 100
          MinBuffer,          \* min_buffer_snapshots: 3
          MaxBuffer,          \* max_buffer_snapshots: 256
          CorrectionDivisor,  \* 1 / time_correction_rate: 10
          ExtrapolationLimit, \* extrapolation_limit_ms: 250
          Retention,          \* snapshot_retention_ms: 3000
          MaxFrame,           \* the cap on the delta of a frame: 100
          MaxStall,           \* no frame takes longer than MaxStall
          PerTime,            \* the server sends at most PerTime snapshots at
                              \* one server time: it may catch up on ticks
          MaxLatency,         \* no snapshot arrives more than MaxLatency late
          MaxTime             \* bound on the time

ASSUME PlaybackAssumption ==
  /\ Delay \in Nat /\ Retention \in Nat /\ ExtrapolationLimit \in Nat
  /\ MinBuffer \in Nat /\ MaxBuffer \in Nat \ {0}
  /\ CorrectionDivisor \in Nat /\ CorrectionDivisor >= 2
  /\ MaxFrame \in Nat /\ MaxStall \in Nat
  /\ PerTime \in Nat /\ MaxLatency \in Nat /\ MaxTime \in Nat

VARIABLES now,
          coming,        \* coming[s]: how many snapshots of server time s may
                         \* still arrive
          step,          \* the frame is over, receives, or updates
          delta,         \* delta_time of the frame
          offset,        \* server_time_offset_ms
          render,        \* render_time_ms
          snapshots,     \* the server times of the snapshots, in their order
          ready,
          lastSnapshot,  \* last_snapshot_time_ms
          extrapolating, \* is_extrapolating
          shown          \* the two snapshots drawn between, << >> before that

engine == <<offset, render, snapshots, ready, lastSnapshot, extrapolating>>
vars == <<now, coming, step, delta, engine, shown>>

Init ==
  /\ now = 0
  /\ coming = [s \in 0 .. MaxTime |-> PerTime]
  /\ step = "over"
  /\ delta = 0
  /\ offset = 0 /\ render = 0 /\ snapshots = << >> /\ ready = FALSE
  /\ lastSnapshot = 0 /\ extrapolating = FALSE /\ shown = << >>

\* GameState::update: the frame begins, elapsed after the one before
BeginFrame(elapsed) ==
  /\ step = "over"
  /\ now + elapsed <= MaxTime
  /\ now' = now + elapsed
  /\ coming' = [s \in DOMAIN coming |-> IF s < now' - MaxLatency THEN 0 ELSE coming[s]]
  /\ delta' = IF elapsed < MaxFrame THEN elapsed ELSE MaxFrame
  /\ step' = "receives"
  /\ UNCHANGED <<engine, shown>>

InsertSnapshot_Last(buf, s) == Append(buf, s)

\* insert before the first later snapshot
InsertSnapshot(buf, s) ==
  InsertAt(buf, 1 + Cardinality({i \in DOMAIN buf : buf[i] <= s}), s)

\* while there are more than max_buffer_snapshots, remove(0)
Capped(buf) == IF Len(buf) > MaxBuffer THEN Tail(buf) ELSE buf

RenderTimeAt_Undelayed(s) == s

\* where playback starts for a first snapshot at server time s
RenderTimeAt(s) == s - Delay

\* push_snapshot at local time now: the clock is set by the first snapshot
\* of an empty buffer and drifts towards what later ones say
PushSnapshot(s, expands) ==
  /\ IF snapshots = << >>
     THEN /\ offset' = s - now
          /\ render' = RenderTimeAt(s)
     ELSE /\ offset' = offset + (s - now - offset) \div CorrectionDivisor
          /\ UNCHANGED render
  /\ snapshots' = IF expands THEN Capped(InsertSnapshot(snapshots, s)) ELSE snapshots
  /\ ready' = (ready \/ Len(snapshots') >= MinBuffer)
  /\ lastSnapshot' = now
  /\ extrapolating' = FALSE

\* process_network, for one snapshot that has arrived
Receive(s, expands) ==
  /\ step = "receives"
  /\ s <= now /\ coming[s] > 0
  /\ coming' = [coming EXCEPT ![s] = @ - 1]
  /\ PushSnapshot(s, expands)
  /\ UNCHANGED <<now, step, delta, shown>>

Clamp_Unbounded(x, bound) == x

Clamp(x, bound) == IF x > bound THEN bound ELSE IF x < -bound THEN -bound ELSE x

\* update, its clock: a frame further, corrected by at most 1.5 frames' share
NextRenderTime ==
  LET target == now + offset - Delay
  IN  render + delta + Clamp(target - render, (3 * delta) \div 2) \div CorrectionDivisor

CleanupOldSnapshots_Played(buf, r) == Retain(buf, {i \in DOMAIN buf : buf[i] > r})

\* cleanup_old_snapshots
CleanupOldSnapshots(buf, r) == Retain(buf, {i \in DOMAIN buf : buf[i] > r - Retention})

\* find_interpolation_indices and interpolate_at_indices, for two snapshots
\* or more: the pair around r, else the first one or the last pair
Brackets(buf, r) == {i \in 1 .. Len(buf) - 1 : buf[i] <= r /\ r <= buf[i + 1]}

InterpolationPair(buf, r) ==
  LET n == Len(buf)
  IN  CASE Brackets(buf, r) # {} ->
             LET i == CHOOSE i \in Brackets(buf, r) : \A j \in Brackets(buf, r) : i <= j
             IN  <<buf[i], buf[i + 1]>>
        [] Brackets(buf, r) = {} /\ r < buf[1] -> <<buf[1], buf[1]>>
        [] OTHER -> <<buf[n - 1], buf[n]>>

\* t > 1.0
BeyondLast(pair, r) == pair[1] < pair[2] /\ r > pair[2]

\* extrapolate_from_latest: the entities move on by their velocities
ExtrapolateFromLatest ==
  /\ extrapolating' = (extrapolating \/ now - lastSnapshot <= ExtrapolationLimit)
  /\ UNCHANGED shown

\* InterpolationEngine::update, the end of the frame
Update ==
  /\ step = "receives"
  /\ step' = "over"
  /\ IF ~ready \/ snapshots = << >>
     THEN UNCHANGED <<render, snapshots, extrapolating, shown>>
     ELSE /\ render' = NextRenderTime
          /\ snapshots' = CleanupOldSnapshots(snapshots, render')
          /\ IF Len(snapshots') < 2
             THEN ExtrapolateFromLatest
             ELSE /\ shown' = InterpolationPair(snapshots', render')
                  /\ extrapolating' = BeyondLast(shown', render')
  /\ UNCHANGED <<now, coming, delta, offset, ready, lastSnapshot>>

\* NetworkClient::reset, at the end of the frame
Reset ==
  /\ step = "over"
  /\ offset' = 0 /\ render' = 0 /\ snapshots' = << >> /\ ready' = FALSE
  /\ lastSnapshot' = 0 /\ extrapolating' = FALSE /\ shown' = << >>
  /\ UNCHANGED <<now, coming, step, delta>>

Next ==
  \/ \E elapsed \in 0 .. MaxStall : BeginFrame(elapsed)
  \/ \E s \in DOMAIN coming, expands \in BOOLEAN : Receive(s, expands)
  \/ Update
  \/ Reset

Spec == Init /\ [][Next]_vars
-----------------------------------------------------------------------------
(* Properties.                                                             *)

\* TypeOK: the buffer holds at most MaxBuffer snapshots in the order of their
\* server times, none from the future, and the offset errs on one side only.
TypeOK ==
  /\ now \in 0 .. MaxTime /\ delta \in 0 .. MaxFrame
  /\ offset \in Int /\ offset <= 0
  /\ Len(snapshots) <= MaxBuffer
  /\ \A i \in DOMAIN snapshots : snapshots[i] \in 0 .. now
  /\ \A i, j \in DOMAIN snapshots : i < j => snapshots[i] <= snapshots[j]

\* RenderBehindServer: however frames stall and snapshots are delayed,
\* playback stays Delay behind the server's clock, give or take one frame: it
\* never draws what the server has not had time to send.
RenderBehindServer == ready => render <= now - Delay + MaxFrame

\* NoRewind: the clock of playback never runs backwards, except when a
\* snapshot finds the buffer empty (or the client resets): that is what the
\* clamp of the correction is for.
NoRewind == [][ready' /\ snapshots # << >> => render' >= render]_vars

\* DropsOnlyOld: a snapshot leaves the buffer only when it is older than the
\* retention by the server's clock, when the buffer overflows, or on a reset.
\* (Module SnapshotSync takes this for what the client keeps.)
DropsOnlyOld ==
  [][\A i \in DOMAIN snapshots :
       snapshots[i] > now - Retention /\ Delay >= MaxFrame /\ Len(snapshots) < MaxBuffer /\ ready' =>
         snapshots[i] \in Range(snapshots')]_vars

\* ShownBrackets: what is drawn after a frame is the pair of neighbours around
\* the clock whenever the buffer spans it, in whatever order they arrived.
ShownBrackets ==
  step = "over" /\ shown # << >> /\ Len(snapshots) >= 2 =>
    LET times == Range(snapshots)
    IN  /\ (\E s \in times : s <= render) /\ (\E s \in times : s >= render) =>
             /\ shown[1] <= render /\ render <= shown[2]
             /\ \A s \in times : s <= shown[1] \/ s >= shown[2]
        /\ extrapolating => \A s \in times : s < render

\* BufferIsShown: the buffer is in order and the pair drawn brackets the clock
\* (push_snapshot, find_interpolation_indices).
BufferIsShown == TypeOK /\ ShownBrackets
=============================================================================

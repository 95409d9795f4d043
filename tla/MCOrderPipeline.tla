-------------------------- MODULE MCOrderPipeline ---------------------------
(* Small instances of OrderPipeline for TLC. *)
EXTENDS OrderPipeline, TLC

CONSTANTS k1, k2, alice

\* One buyer sends a small and a large request.
AllAlice == (k1 :> alice @@ k2 :> alice)
OneAndTwo == (k1 :> 1 @@ k2 :> 2)

\* A single request.
OnlyAlice == (k1 :> alice)
OneTicket == (k1 :> 1)

\* Bounds.  A circumstance that excuses a request counts as a failure.
Troubles == faults + Cardinality(overlapped) + Cardinality(lapsed)

\* Two relays are at work at once only where at most one thing has gone wrong.
Resting(v) == rows[v] = {} /\ marking[v] = None
OneRelay == \A v, w \in Relays : v = w \/ Resting(v) \/ Resting(w)

\* The first request was dead-lettered after two failures and has left the stream;
\* the second is handled at its first delivery.
FirstHasFailed ==
  /\ faults = 2 /\ Troubles = 2 /\ status[k1] = "none" /\ claim[k1] = "FAILED"
  /\ k1 \notin pel /\ idle = {} /\ deliveries[k2] <= 1

\* The second request comes after the first, where nothing has gone wrong so far or
\* after the first one has failed.
Bounded ==
  /\ Troubles <= MaxFaults
  /\ Troubles > 1 \/ taken[k2] > 0 => OneRelay
  /\ taken[k2] > 0 => taken[k1] > 0 /\ (Troubles = 0 \/ FirstHasFailed)

=============================================================================

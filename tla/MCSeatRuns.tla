----------------------------- MODULE MCSeatRuns -----------------------------
(* A small instance of SeatRuns for TLC. *)
EXTENDS SeatRuns, TLC

CONSTANTS k1, k2

OneTwo == k1 :> 1 @@ k2 :> 2

\* The clients differ in nothing.
AnyClient == Permutations(Clients)

\* Bounds.  Where the map was disturbed there is no fault, and one client and one
\* release at most are at work; after a fault one client at most is at work.  Where an
\* operator rebuilds, and after a fault, no dead letter is under way.
AtMostOne(pc) == \A p, q \in DOMAIN pc : pc[p] = "idle" \/ pc[q] = "idle" \/ p = q

Bounded ==
  /\ Disturbed => faults = 0 /\ AtMostOne(step)
  /\ Disturbed \/ faults > 0 => AtMostOne(cpc)
  /\ Meddled \/ faults > 0 => doomed = {}

MCNext == Next /\ Bounded'

MCSpec == Init /\ [][MCNext]_vars

=============================================================================

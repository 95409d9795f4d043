---------------------------- MODULE MCEventCache ----------------------------
(* A small instance of EventCache for TLC. *)
EXTENDS EventCache, TLC

CONSTANTS p1, p2, r1, r2, r3, t1, t2, t3, a1

\* Two readers and two tasks in one process, one of each in the other.
TwoProcesses ==
  r1 :> p1 @@ r2 :> p1 @@ r3 :> p2 @@ t1 :> p1 @@ t2 :> p1 @@ t3 :> p2

\* Bound: of a fault, a second administrator at work, an edit of the zone's
\* price and a second task in one process, a state shows at most one.  With a
\* second administrator, a second task, or an administrator at work after a
\* fault, only one process looks the event up.
AnyAdmin == \E a \in Admins : apc[a] # "idle"
SecondAdmin == \E a \in Admins \ {a1} : apc[a] # "idle"
ZoneEdited == \E z \in Zones : version[z] > 1 \/ \E a \in Admins : z \in edit[a]
SecondTask == t2 \in Tasks /\ tpc[t2] # "idle"
OneProcess == \A t \in Tasks : ProcOf[t] # p1 => tpc[t] = "idle"

Bounded ==
  /\ faults > 0 => ~SecondAdmin /\ ~ZoneEdited /\ ~SecondTask
  /\ faults > 0 /\ AnyAdmin => OneProcess
  /\ SecondAdmin => ~ZoneEdited /\ ~SecondTask /\ OneProcess
  /\ SecondTask => ~ZoneEdited /\ OneProcess

MCNext == Next /\ Bounded'

MCSpec == Init /\ [][MCNext]_vars /\ Fairness

=============================================================================

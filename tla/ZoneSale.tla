------------------------------ MODULE ZoneSale ------------------------------
(***************************************************************************)
(* The sale of a zone with seats: reserve_seats_and_enqueue as a loop of   *)
(* read, compute and compare-and-set, and the ratchet that gives up the    *)
(* strict policy when orders are refused again and again.                  *)
(*                                                                         *)
(* SeatRuns is about the way of one order through Redis and Postgres; here *)
(* an order that got seats has them until it gives them back.              *)
(***************************************************************************)
EXTENDS SeatPlacement

CONSTANTS
  Callers,      \* concurrent calls
  Quantities,   \* seats that a call asks for
  Threshold,    \* STRICT_MISS_THRESHOLD
  MaxAttempts,  \* MAX_CAS_ATTEMPTS
  TopK          \* TOP_K

ASSUME ZoneAssumption ==
  /\ IsFiniteSet(Callers) /\ Quantities \subseteq Nat \ {0}
  /\ {Threshold, MaxAttempts, TopK} \subseteq Nat \ {0}

VARIABLES
  freeRuns,     \* event:{e}:zone:{z}:runs
  sold,         \* seats that orders hold
  relaxed,      \* event:{e}:zone:{z}:relaxed
  misses,       \* event:{e}:zone:{z}:strict_misses
  call,         \* what each client is at
  refused       \* history: strict refusals since the counter was last removed

zoneVars == <<freeRuns, sold, relaxed, misses, call, refused>>

Idle == [pc |-> "idle"]
Goes(c, r) == call' = [call EXCEPT ![c] = r]
Policy(c) == IF call[c].relaxed THEN ENDGAME_POLICY ELSE NORMAL_POLICY

ZoneInit ==
  /\ freeRuns = {Run(b, 0, Geometry[b].capacity) : b \in Blocks} /\ sold = {}
  /\ relaxed = FALSE /\ misses = 0
  /\ call = [c \in Callers |-> Idle]
  /\ refused = 0

-----------------------------------------------------------------------------
\* is_relaxed is read once.
Call(c, q) ==
  /\ call[c] = Idle
  /\ Goes(c, [pc |-> "read", qty |-> q, relaxed |-> relaxed, attempt |-> 1])
  /\ UNCHANGED <<freeRuns, sold, relaxed, misses, refused>>

remaining == MapThenSumSet(LAMBDA run : run.length, freeRuns)

\* The next turn of the loop; after the last one the call fails with SeatContention.
NextAttempt(c, r) ==
  Goes(c, IF r.attempt = MaxAttempts THEN Idle
          ELSE [pc |-> "read", qty |-> r.qty, relaxed |-> r.relaxed, attempt |-> r.attempt + 1])

\* read_zone_state, legal_anchors: a pick among the best, or a refusal, which is
\* counted under the strict policy when there are seats enough.
ReadZone(c) ==
  LET r == call[c]
      anchors == legal_anchors(freeRuns, r.qty, Policy(c))
  IN /\ r.pc = "read"
     /\ IF anchors # {}
          THEN \E p \in TopAnchors(anchors, TopK), host \in freeRuns :
                 /\ Contains(host, p)
                 /\ Goes(c, [pc |-> "claim", qty |-> r.qty, relaxed |-> r.relaxed,
                             attempt |-> r.attempt, pick |-> Run(p.block, p.start, p.length),
                             host |-> host])
          ELSE Goes(c, IF remaining >= r.qty /\ ~r.relaxed THEN [r EXCEPT !.pc = "miss"] ELSE Idle)
     /\ UNCHANGED <<freeRuns, sold, relaxed, misses, refused>>

\* Variant: the policy is relaxed one refusal too late.
StrictMissLate(c) ==
  /\ call[c].pc = "miss"
  /\ misses' = misses + 1
  /\ IF misses' <= Threshold
       THEN Goes(c, Idle) /\ refused' = refused + 1
       ELSE Goes(c, [call[c] EXCEPT !.pc = "ratchet"]) /\ UNCHANGED refused
  /\ UNCHANGED <<freeRuns, sold, relaxed>>

\* _record_strict_miss: INCR and EXPIRE, then SET, then DEL.
StrictMiss(c) ==
  /\ call[c].pc = "miss"
  /\ misses' = misses + 1
  /\ IF misses' < Threshold
       THEN Goes(c, Idle) /\ refused' = refused + 1
       ELSE Goes(c, [call[c] EXCEPT !.pc = "ratchet"]) /\ UNCHANGED refused
  /\ UNCHANGED <<freeRuns, sold, relaxed>>

Ratchet(c) ==
  \/ /\ call[c].pc = "ratchet"
     /\ relaxed' = TRUE /\ Goes(c, [call[c] EXCEPT !.pc = "forget"])
     /\ UNCHANGED <<freeRuns, sold, misses, refused>>
  \/ /\ call[c].pc = "forget"
     /\ misses' = 0 /\ refused' = 0
     /\ NextAttempt(c, [call[c] EXCEPT !.relaxed = TRUE])
     /\ UNCHANGED <<freeRuns, sold, relaxed>>

\* Variant: the script only looks whether a run still starts there.
ClaimByStart(c) ==
  LET r == call[c]
  IN /\ r.pc = "claim"
     /\ IF \E run \in freeRuns : run.start = r.host.start /\ Contains(run, r.pick)
          THEN /\ freeRuns' = occupy(freeRuns, r.pick)
               /\ sold' = sold \cup {r.pick}
               /\ Goes(c, [pc |-> "served"])
          ELSE NextAttempt(c, r) /\ UNCHANGED <<freeRuns, sold>>
     /\ UNCHANGED <<relaxed, misses, refused>>

\* The claim script: the run must be the one the pick was made from.
Claim(c) ==
  LET r == call[c]
  IN /\ r.pc = "claim"
     /\ IF r.host \in freeRuns
          THEN /\ freeRuns' = occupy(freeRuns, r.pick)
               /\ sold' = sold \cup {r.pick}
               /\ Goes(c, [pc |-> "served"])
          ELSE NextAttempt(c, r) /\ UNCHANGED <<freeRuns, sold>>
     /\ UNCHANGED <<relaxed, misses, refused>>

\* Seats were found, so the zone is not stuck.
Served(c) ==
  /\ call[c].pc = "served" /\ misses' = 0 /\ refused' = 0 /\ Goes(c, Idle)
  /\ UNCHANGED <<freeRuns, sold, relaxed>>

\* release_seats for an order that was cancelled or has expired.
GiveBack(s) ==
  /\ s \in sold /\ sold' = sold \ {s}
  /\ freeRuns' = release(freeRuns, s.block, s.start, s.length)
  /\ UNCHANGED <<relaxed, misses, call, refused>>

\* STRICT_MISS_TTL_SECONDS without a miss.
MissesExpire ==
  /\ misses > 0 /\ misses' = 0 /\ refused' = 0
  /\ UNCHANGED <<freeRuns, sold, relaxed, call>>

Step(c) == ReadZone(c) \/ StrictMiss(c) \/ Ratchet(c) \/ Claim(c) \/ Served(c)

ZoneNext ==
  \/ \E c \in Callers : Step(c) \/ \E q \in Quantities : Call(c, q)
  \/ \E s \in sold : GiveBack(s)
  \/ MissesExpire

ZoneSpec == ZoneInit /\ [][ZoneNext]_zoneVars

-----------------------------------------------------------------------------
(***************************************************************************)
(* What the placement algorithm promises: reference definitions.           *)
(***************************************************************************)
\* Every cut that the policy admits, by the words of Policy: at an end of the
\* run only, and never with a rest shorter than min_run.
AllLegal(run, q, policy) ==
  LET tail == run.length - q
      legal == {o \in 0 .. tail : /\ 0 \in {o, tail - o}
                                  /\ {o, tail - o} \cap 1 .. policy.min_run - 1 = {}}
  IN {placement_at(run, o, q) : o \in legal}

LegalPlacements(c) == UNION {AllLegal(run, call[c].qty, Policy(c)) : run \in freeRuns}

Orphans == {run \in freeRuns : run.length = 1}

\* Call c picks p out of run host: fewer than TOP_K of all the legal placements
\* in the zone are better, and a single ticket cuts a longer run only where fewer
\* than TOP_K single seats are free.
GoodPick(c, host, p) ==
  /\ \E x \in LegalPlacements(c) :
       /\ Run(x.block, x.start, x.length) = p
       /\ Cardinality({y \in LegalPlacements(c) : y.score > x.score}) < TopK
  /\ call[c].qty = 1 /\ host.length > 1 => Cardinality(Orphans) < TopK

\* The draw is among the best: in whatever zone sales and returns lead to, a call
\* that reads it gets a good pick, and is turned away only when no placement is
\* legal ("every free run of length L can serve exactly {L} and 1 .. L - 2").
DrawIsAmongBest ==
  [][\A c \in Callers : call[c].pc = "read" /\ call'[c] # call[c] =>
       IF call'[c].pc = "claim" THEN GoodPick(c, call'[c].host, call'[c].pick)
                                ELSE LegalPlacements(c) = {}]_zoneVars

(***************************************************************************)
(* What the sale promises.                                                 *)
(***************************************************************************)
\* Free runs and sold seats tile every block, no seat twice and none missing, and
\* no two runs touch: occupy and release undo each other in whatever order.
TilesExactly ==
  /\ \A b \in Blocks : \A pos \in 0 .. Geometry[b].capacity :
       Cardinality({s \in freeRuns \cup sold : s.block = b /\ s.start <= pos /\ pos < s.start + s.length})
         = IF pos < Geometry[b].capacity THEN 1 ELSE 0
  /\ freeRuns \cap sold = {}
  /\ \A r1, r2 \in freeRuns : r1.block = r2.block => r1.start + r1.length # r2.start
  /\ \A r \in freeRuns : r.length > 0

\* A claim made under the strict policy never leaves a single free seat that was
\* not there, however old the snapshot it was computed from.
StrictLeavesNoOrphan ==
  [][\A c \in Callers :
       call[c].pc = "claim" /\ ~call[c].relaxed /\ call'[c].pc = "served" =>
         \A run \in freeRuns' : run.length = 1 => run \in freeRuns]_zoneVars

\* A zone that is stuck is noticed: between two times the counter is removed, no
\* more than Threshold - 1 calls are refused, with calls in parallel as well.
RefusalsBounded == refused < Threshold

\* Seats are neither lost nor doubled, and a stuck zone gets unstuck.
ZoneIsSound == TilesExactly /\ RefusalsBounded

=============================================================================

--------------------------- MODULE SeatPlacement ----------------------------
(***************************************************************************)
(* The placement algorithm of services/seating.py: which seats of a free   *)
(* run an order may get, how a placement is scored, and what it does to    *)
(* the set of free runs.                                                   *)
(*                                                                         *)
(* The program computes with floats.  All numbers here are multiples of a  *)
(* fraction of a seat, 1 / Unit, chosen so that every quality, phi(1) =    *)
(* 0.3 and lambda = 1.5 are whole numbers of it.                           *)
(***************************************************************************)
EXTENDS Integers, FiniteSetsExt

CONSTANTS
  Blocks,       \* ids of the blocks of the zone
  Geometry,     \* capacity, base and edge quality of each, in units
  Unit          \* the units of one seat

\* Steps from the seats nearest to the centre to the ones at the ends.
span(b) == (Geometry[b].capacity - 1) \div 2

ASSUME UnitAssumption == Unit \in Nat \ {0} /\ Unit % 20 = 0
\* ck_seat_blocks_capacity_pos and ck_seat_blocks_quality_range.
ASSUME GeometryAssumption ==
  /\ IsFiniteSet(Blocks) /\ Blocks \subseteq Nat
  /\ \A b \in Blocks :
       /\ Geometry[b].capacity \in Nat \ {0}
       /\ Geometry[b].base \in 0 .. Unit /\ Geometry[b].edge \in 0 .. Geometry[b].base
       /\ span(b) > 0 => (Geometry[b].base - Geometry[b].edge) % span(b) = 0

OrphanValue == (3 * Unit) \div 10      \* phi(1)

\* A maximal run of free seats [start, start + length).
Run(b, s, n) == [block |-> b, start |-> s, length |-> n]
NORMAL_POLICY == [min_run |-> 2, allow_mid_cut |-> FALSE, mid_cut_guard |-> 4]
ENDGAME_POLICY == [NORMAL_POLICY EXCEPT !.min_run = 1]

Larger(a, b) == IF a > b THEN a ELSE b
Smaller(a, b) == IF a < b THEN a ELSE b
Distance(a, b) == IF a > b THEN a - b ELSE b - a

mid_lo(policy) == Larger(2, policy.mid_cut_guard)

\* Seats that a free run of this length will sell.
phi(length) == IF length = 1 THEN OrphanValue ELSE length * Unit

-----------------------------------------------------------------------------
(***************************************************************************)
(* Seat quality: the seats nearest to the middle of a block have its base  *)
(* quality, the ones at its ends the edge quality.  Twice the centre is    *)
(* capacity - 1.                                                           *)
(***************************************************************************)
decay(b) ==
  IF span(b) = 0 THEN 0 ELSE (Geometry[b].base - Geometry[b].edge) \div span(b)

\* Seats between pos and the seat nearest to the centre on its side.
steps(b, pos) ==
  LET twice == Geometry[b].capacity - 1
  IN (Distance(2 * pos, twice) - (twice % 2)) \div 2

seat_quality(b, pos) == Geometry[b].base - decay(b) * steps(b, pos)

window_quality(b, start, length) ==
  LET total[n \in Nat] == IF n = 0 THEN 0 ELSE total[n - 1] + seat_quality(b, start + n - 1)
  IN total[length]

\* round() takes a half to the even number.
ideal_start(b, length) ==
  LET twice == Geometry[b].capacity - length
      low == twice \div 2
  IN IF twice % 2 = 0 \/ low % 2 = 0 THEN low ELSE low + 1

-----------------------------------------------------------------------------
\* Variant: an orphan counts like any other seat.
cut_cost_flat(run_length, left, right, taken) ==
  (run_length - left - right - taken) * Unit

\* What a cut costs beyond the seats it sells; less than nothing for an orphan
\* that is sold.
cut_cost(run_length, left, right, taken) ==
  phi(run_length) - phi(left) - phi(right) - taken * Unit

placement_at(run, offset, quantity) ==
  [block |-> run.block, start |-> run.start + offset, length |-> quantity,
   score |-> window_quality(run.block, run.start + offset, quantity)
             - (3 * cut_cost(run.length, offset, run.length - quantity - offset, quantity)) \div 2]

\* Variant: a single seat may stay at an end.
OffsetsLeaveOne(run, quantity, policy) ==
  LET tail == run.length - quantity
  IN IF tail >= 0 THEN {0, tail} ELSE {}

\* Where candidates cuts: at both ends unless that leaves too short a rest, and
\* in the middle window at the offset nearest to the ideal one.
Offsets(run, quantity, policy) ==
  LET tail == run.length - quantity
      lo == mid_lo(policy)
      hi == tail - lo
      ideal == ideal_start(run.block, quantity) - run.start
  IN (IF tail >= 0 /\ (tail = 0 \/ tail >= policy.min_run) THEN {0, tail} ELSE {})
       \cup (IF policy.allow_mid_cut /\ lo <= hi
               THEN {Smaller(Larger(ideal, lo), hi)} ELSE {})

candidates(run, quantity, policy) ==
  {placement_at(run, offset, quantity) : offset \in Offsets(run, quantity, policy)}

\* The order of legal_anchors: score, then block, then start.
Before(p, q) ==
  \/ p.score > q.score
  \/ p.score = q.score /\ p.block < q.block
  \/ p.score = q.score /\ p.block = q.block /\ p.start < q.start

legal_anchors(runs, quantity, policy) ==
  UNION {candidates(run, quantity, policy) : run \in runs}

\* Variant: one anchor too many.
TopAnchorsAndOne(anchors, k) == {p \in anchors : Cardinality({q \in anchors : Before(q, p)}) <= k}

\* The first k anchors.
TopAnchors(anchors, k) == {p \in anchors : Cardinality({q \in anchors : Before(q, p)}) < k}

-----------------------------------------------------------------------------
Contains(run, p) ==
  /\ run.block = p.block /\ run.start <= p.start
  /\ p.start + p.length <= run.start + run.length

\* The host run is replaced by what is left of it on both sides.
occupy(runs, p) ==
  LET host == CHOOSE run \in runs : Contains(run, p)
      left == p.start - host.start
      right == host.start + host.length - p.start - p.length
  IN (runs \ {host})
       \cup (IF left > 0 THEN {Run(p.block, host.start, left)} ELSE {})
       \cup (IF right > 0 THEN {Run(p.block, p.start + p.length, right)} ELSE {})

\* Variant: only the run on the left is absorbed.
ReleaseMergesLeft(runs, b, start, length) ==
  LET touches == {run \in runs : run.block = b /\ run.start + run.length = start}
      lo == Min({start} \cup {run.start : run \in touches})
  IN (runs \ touches) \cup {Run(b, lo, start + length - lo)}

\* The seats [start, start + length) come back and absorb the runs they touch.
release(runs, b, start, length) ==
  LET touches == {run \in runs : /\ run.block = b
                                 /\ run.start + run.length >= start
                                 /\ run.start <= start + length}
      lo == Min({start} \cup {run.start : run \in touches})
      hi == Max({start + length} \cup {run.start + run.length : run \in touches})
  IN (runs \ touches) \cup {Run(b, lo, hi - lo)}

=============================================================================

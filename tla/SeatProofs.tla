----------------------------- MODULE SeatProofs -----------------------------
(***************************************************************************)
(* Seat allocation, for every capacity, geometry, set of requests, clients *)
(* and relays.  The run structure (SeatRuns): claim, release and rebuild   *)
(* keep the runs maximal and their tags exact; until an operator rebuilds  *)
(* during the sale or a consumer commits what the dead letter refunded,    *)
(* nobody shares a seat and the structure implements SeatMap.              *)
(* The sale of a zone (ZoneSale): every seat is in one run or              *)
(* one order, the draw is among the best placements, and the strict policy *)
(* leaves no orphan.                                                       *)
(***************************************************************************)
EXTENDS SeatRuns, ZoneSale, FiniteSetTheorems, TLAPS

\* A set of natural numbers has a least element.
LEMMA LeastElement ==
  \A T \in SUBSET Nat : T # {} => \E x \in T : \A y \in T : x <= y
<1> TAKE T \in SUBSET Nat
<1> HAVE T # {}
<1>1. PICK x \in T : \A y \in T : ~ (<<y, x>> \in OpToRel(<, Nat))
  BY NatLessThanWellFounded, WFMin
<1>2. \A y \in T : ~ (y < x)
  BY <1>1 DEF OpToRel
<1> QED
  BY <1>2

RunTypeOK == runs \in [Positions -> 0 .. Capacity] /\ ends \in [Positions -> Seats \cup {NoSeat}]

\* Cutting a piece out of a run leaves maximal runs with exact tags.
LEMMA CutKeepsRuns ==
  ASSUME RunTypeOK, RunsAreMaximal,
         NEW rs \in Seats, NEW s \in Seats, NEW n \in 1 .. Capacity, NEW rl \in 1 .. Capacity,
         runs[rs] = rl, rs <= s, s + n <= rs + rl,
         CutRuns(s, n, rs, rl), CutEnds(s, n, rs, rl)
  PROVE  RunTypeOK' /\ RunsAreMaximal'
<1>c. Capacity \in Nat /\ Capacity > 0
  BY SeatBlockAssumption
<1>r. \A p \in Positions :
        /\ runs[p] \in Nat /\ runs[p] <= Capacity
        /\ ends[p] \in Int /\ -1 <= ends[p] /\ ends[p] < Capacity
  BY <1>c DEF RunTypeOK, Seats, NoSeat
<1> USE <1>c DEF Positions, Seats, NoSeat
<1>1. rs + rl <= Capacity /\ ends[rs + rl] = rs
  BY <1>r DEF RunsAreMaximal
<1>2. \A p \in Positions :
        runs'[p] = IF p = rs THEN s - rs
                   ELSE IF p = s + n /\ p < rs + rl THEN rs + rl - p
                   ELSE runs[p]
  BY DEF CutRuns
<1>3. \A p \in Positions :
        ends'[p] = IF p = s /\ s > rs THEN rs
                   ELSE IF p = rs + rl THEN IF s + n < p THEN s + n ELSE NoSeat
                   ELSE ends[p]
  BY DEF CutEnds
<1>4. RunTypeOK'
  <2>1. \A p \in Positions : runs'[p] \in 0 .. Capacity
    BY <1>1, <1>2, <1>r
  <2>2. \A p \in Positions : ends'[p] \in Seats \cup {NoSeat}
    BY <1>1, <1>3, <1>r
  <2> QED
    BY <2>1, <2>2 DEF RunTypeOK, CutRuns, CutEnds
<1>5. \A p \in Positions : runs[p] > 0 /\ p # rs => p + runs[p] < rs \/ rs + rl < p
  BY <1>r DEF RunsAreMaximal
<1>6. ASSUME NEW p \in Positions, runs'[p] > 0
      PROVE  /\ p + runs'[p] <= Capacity
             /\ ends'[p + runs'[p]] = p
  <2>1. CASE p = rs
    BY <1>1, <1>2, <1>3, <1>6, <2>1
  <2>2. CASE p = s + n /\ p < rs + rl
    BY <1>1, <1>2, <1>3, <2>2
  <2>3. CASE p # rs /\ ~(p = s + n /\ p < rs + rl)
    <3>1. runs'[p] = runs[p]
      BY <1>2, <2>3
    <3>2. p + runs[p] <= Capacity /\ ends[p + runs[p]] = p
      BY <1>6, <1>r, <3>1 DEF RunsAreMaximal
    <3>3. p + runs[p] < rs \/ rs + rl < p
      BY <1>5, <1>6, <2>3, <3>1
    <3> QED
      BY <1>1, <1>3, <1>r, <3>1, <3>2, <3>3
  <2> QED
    BY <2>1, <2>2, <2>3
<1>7. ASSUME NEW p \in Positions, NEW q \in Positions, runs'[p] > 0, runs'[q] > 0, p < q
      PROVE  p + runs'[p] < q
  BY <1>1, <1>2, <1>5, <1>7, <1>r DEF RunsAreMaximal
<1>8. ASSUME NEW e \in Positions, ends'[e] # NoSeat
      PROVE  ends'[e] < e /\ runs'[ends'[e]] = e - ends'[e]
  <2>1. CASE e = s /\ s > rs
    BY <1>2, <1>3, <2>1
  <2>2. CASE e = rs + rl
    BY <1>1, <1>2, <1>3, <1>8, <2>2
  <2>3. CASE e # rs + rl /\ ~(e = s /\ s > rs)
    <3>1. ends'[e] = ends[e]
      BY <1>3, <2>3
    <3>2. ends[e] \in Positions /\ ends[e] < e /\ runs[ends[e]] = e - ends[e]
      BY <1>8, <1>r, <3>1 DEF RunsAreMaximal
    <3>3. ends[e] # rs
      BY <2>3, <3>2
    <3>4. ends[e] + runs[ends[e]] < rs \/ rs + rl < ends[e]
      BY <1>5, <3>2, <3>3
    <3>5. runs'[ends[e]] = runs[ends[e]]
      BY <1>2, <3>2, <3>3, <3>4
    <3> QED
      BY <3>1, <3>2, <3>5
  <2> QED
    BY <2>1, <2>2, <2>3
<1> QED
  BY <1>4, <1>6, <1>7, <1>8 DEF RunsAreMaximal

\* The cut takes exactly its interval out of the free seats.
LEMMA CutTakesInterval ==
  ASSUME RunTypeOK, RunsAreMaximal,
         NEW rs \in Seats, NEW s \in Seats, NEW n \in 1 .. Capacity, NEW rl \in 1 .. Capacity,
         runs[rs] = rl, rs <= s, s + n <= rs + rl,
         CutRuns(s, n, rs, rl)
  PROVE  /\ Interval(s, n) \subseteq FreeSeats
         /\ FreeSeats' = FreeSeats \ Interval(s, n)
<1>c. Capacity \in Nat /\ Capacity > 0
  BY SeatBlockAssumption
<1>r. \A p \in Positions : runs[p] \in Nat
  BY <1>c DEF RunTypeOK
<1> USE <1>c DEF Positions, Seats
<1>1. rs + rl <= Capacity
  BY <1>r DEF RunsAreMaximal
<1>2. \A p \in Positions :
        runs'[p] = IF p = rs THEN s - rs
                   ELSE IF p = s + n /\ p < rs + rl THEN rs + rl - p
                   ELSE runs[p]
  BY DEF CutRuns
<1>3. \A p \in Positions : runs[p] > 0 /\ p # rs => p + runs[p] < rs \/ rs + rl < p
  BY <1>r DEF RunsAreMaximal
<1>4. Interval(s, n) \subseteq FreeSeats
  BY DEF Interval, FreeSeats
<1>5. ASSUME NEW p \in FreeSeats' PROVE p \in FreeSeats \ Interval(s, n)
  <2>1. PICK t \in Seats : runs'[t] > 0 /\ t <= p /\ p < t + runs'[t] /\ p \in Seats
    BY DEF FreeSeats
  <2> QED
    BY <2>1, <1>1, <1>2, <1>3, <1>r DEF FreeSeats, Interval
<1>6. ASSUME NEW p \in FreeSeats \ Interval(s, n) PROVE p \in FreeSeats'
  <2>1. PICK t \in Seats : runs[t] > 0 /\ t <= p /\ p < t + runs[t] /\ p \in Seats
    BY DEF FreeSeats
  <2>2. CASE t # rs
    BY <2>1, <2>2, <1>1, <1>2, <1>3, <1>r DEF FreeSeats
  <2>3. CASE t = rs /\ p < s
    BY <2>1, <2>3, <1>2 DEF FreeSeats
  <2>4. CASE t = rs /\ s + n <= p
    BY <2>1, <2>4, <1>1, <1>2 DEF FreeSeats
  <2> QED
    BY <2>1, <2>2, <2>3, <2>4 DEF Interval
<1> QED
  BY <1>4, <1>5, <1>6

-----------------------------------------------------------------------------
\* Giving an interval back leaves maximal runs with exact tags.
LEMMA MergeKeepsRuns ==
  ASSUME RunTypeOK, RunsAreMaximal,
         NEW lo \in Seats, NEW hi \in Positions, lo < hi, ~Overlaps(lo, hi),
         MergeRuns(lo, hi), MergeEnds(lo, hi)
  PROVE  RunTypeOK' /\ RunsAreMaximal'
<1>c. Capacity \in Nat /\ Capacity > 0
  BY SeatBlockAssumption
<1>r. \A p \in Positions :
        /\ runs[p] \in Nat /\ runs[p] <= Capacity
        /\ ends[p] \in Int /\ -1 <= ends[p] /\ ends[p] < Capacity
  BY <1>c DEF RunTypeOK, Seats, NoSeat
<1> USE <1>c DEF Positions, Seats, NoSeat
<1> DEFINE a == MergeStart(lo)
           b == MergeEnd(hi)
<1>1. a \in Seats /\ b \in Positions /\ a <= lo /\ hi <= b
  BY <1>r DEF RunsAreMaximal, MergeStart, MergeEnd
<1>2. /\ a < lo => runs[a] = lo - a
      /\ hi < b => runs[hi] = b - hi
      /\ runs[hi] = b - hi
      /\ a = lo => ends[lo] = NoSeat
  BY <1>r DEF RunsAreMaximal, MergeStart, MergeEnd
<1>3. \A p \in Positions :
        runs'[p] = IF p = a THEN b - a ELSE IF p = hi THEN 0 ELSE runs[p]
  BY DEF MergeRuns
<1>4. \A p \in Positions :
        ends'[p] = IF p = b THEN a ELSE IF p = lo THEN NoSeat ELSE ends[p]
  BY DEF MergeEnds
<1>5. RunTypeOK'
  <2>1. \A p \in Positions : runs'[p] \in 0 .. Capacity
    BY <1>1, <1>3, <1>r
  <2>2. \A p \in Positions : ends'[p] \in Seats \cup {NoSeat}
    BY <1>1, <1>4, <1>r
  <2> QED
    BY <2>1, <2>2 DEF RunTypeOK, MergeRuns, MergeEnds
<1>6. \A p \in Positions : runs[p] > 0 /\ p # a /\ p # hi => p + runs[p] < a \/ b < p
  <2> SUFFICES ASSUME NEW p \in Positions, runs[p] > 0, p # a, p # hi
               PROVE  p + runs[p] < a \/ b < p
    OBVIOUS
  <2>1. p >= hi \/ p + runs[p] <= lo
    BY <1>r DEF Overlaps
  <2>2. CASE p >= hi
    BY <2>2, <1>1, <1>2, <1>r DEF RunsAreMaximal
  <2>3. CASE p + runs[p] <= lo
    <3>1. CASE a < lo
      BY <2>3, <3>1, <1>1, <1>2, <1>r DEF RunsAreMaximal
    <3>2. CASE a = lo
      BY <2>3, <3>2, <1>1, <1>2, <1>r DEF RunsAreMaximal
    <3> QED
      BY <3>1, <3>2, <1>1
  <2> QED
    BY <2>1, <2>2, <2>3
<1>7. ASSUME NEW p \in Positions, runs'[p] > 0
      PROVE  /\ p + runs'[p] <= Capacity
             /\ ends'[p + runs'[p]] = p
  <2>1. CASE p = a
    BY <1>1, <1>3, <1>4, <2>1
  <2>2. CASE p # a
    <3>1. runs'[p] = runs[p] /\ p # hi
      BY <1>3, <1>7, <2>2
    <3>2. p + runs[p] <= Capacity /\ ends[p + runs[p]] = p
      BY <1>7, <1>r, <3>1 DEF RunsAreMaximal
    <3>3. p + runs[p] < a \/ b < p
      BY <1>6, <1>7, <2>2, <3>1
    <3> QED
      BY <1>1, <1>4, <1>r, <3>1, <3>2, <3>3
  <2> QED
    BY <2>1, <2>2
<1>8. ASSUME NEW p \in Positions, NEW q \in Positions, runs'[p] > 0, runs'[q] > 0, p < q
      PROVE  p + runs'[p] < q
  <2>1. (p # hi /\ q # hi) \/ hi = a
    BY <1>3, <1>8
  <2>2. CASE p = a
    BY <1>1, <1>3, <1>6, <1>8, <1>r, <2>1, <2>2
  <2>3. CASE q = a
    BY <1>1, <1>3, <1>6, <1>8, <1>r, <2>1, <2>3
  <2>4. CASE p # a /\ q # a
    BY <1>3, <1>8, <2>1, <2>4 DEF RunsAreMaximal
  <2> QED
    BY <2>2, <2>3, <2>4
<1>9. ASSUME NEW e \in Positions, ends'[e] # NoSeat
      PROVE  ends'[e] < e /\ runs'[ends'[e]] = e - ends'[e]
  <2>1. CASE e = b
    BY <1>1, <1>3, <1>4, <2>1
  <2>2. CASE e # b
    <3>1. ends'[e] = ends[e] /\ e # lo
      BY <1>4, <1>9, <2>2
    <3>2. ends[e] \in Positions /\ ends[e] < e /\ runs[ends[e]] = e - ends[e]
      BY <1>9, <1>r, <3>1 DEF RunsAreMaximal
    <3>3. ends[e] # hi
      BY <1>1, <1>2, <2>2, <3>2
    <3>4. ends[e] # a
      BY <1>1, <1>2, <1>r, <3>1, <3>2 DEF Overlaps
    <3> QED
      BY <1>3, <3>1, <3>2, <3>3, <3>4
  <2> QED
    BY <2>1, <2>2
<1> QED
  BY <1>5, <1>7, <1>8, <1>9 DEF RunsAreMaximal

\* The merge adds exactly its interval to the free seats.
LEMMA MergeGivesInterval ==
  ASSUME RunTypeOK, RunsAreMaximal,
         NEW lo \in Seats, NEW n \in 1 .. Capacity, lo + n <= Capacity,
         ~Overlaps(lo, lo + n), MergeRuns(lo, lo + n)
  PROVE  /\ Interval(lo, n) \cap FreeSeats = {}
         /\ FreeSeats' = FreeSeats \cup Interval(lo, n)
<1>c. Capacity \in Nat /\ Capacity > 0
  BY SeatBlockAssumption
<1>r. \A p \in Positions :
        /\ runs[p] \in Nat /\ runs[p] <= Capacity
        /\ ends[p] \in Int /\ -1 <= ends[p] /\ ends[p] < Capacity
  BY <1>c DEF RunTypeOK, Seats, NoSeat
<1> USE <1>c DEF Positions, Seats, NoSeat
<1> DEFINE hi == lo + n
           a == MergeStart(lo)
           b == MergeEnd(hi)
<1>1. a \in Seats /\ b \in Positions /\ a <= lo /\ hi <= b
  BY <1>r DEF RunsAreMaximal, MergeStart, MergeEnd
<1>2. /\ a < lo => runs[a] = lo - a
      /\ runs[hi] = b - hi
      /\ a = lo => ends[lo] = NoSeat
  BY <1>r DEF RunsAreMaximal, MergeStart, MergeEnd
<1>3. \A p \in Positions :
        runs'[p] = IF p = a THEN b - a ELSE IF p = hi THEN 0 ELSE runs[p]
  BY DEF MergeRuns
<1>4. Interval(lo, n) \cap FreeSeats = {}
  BY <1>r DEF Overlaps, Interval, FreeSeats
<1>5. ASSUME NEW p \in FreeSeats' PROVE p \in FreeSeats \cup Interval(lo, n)
  <2>1. PICK t \in Seats : runs'[t] > 0 /\ t <= p /\ p < t + runs'[t] /\ p \in Seats
    BY DEF FreeSeats
  <2>2. CASE t # a
    BY <2>1, <2>2, <1>1, <1>3, <1>r DEF FreeSeats
  <2>3. CASE t = a /\ p < lo
    BY <2>1, <2>3, <1>1, <1>2, <1>3 DEF FreeSeats
  <2>4. CASE t = a /\ hi <= p
    BY <2>1, <2>4, <1>1, <1>2, <1>3 DEF FreeSeats
  <2> QED
    BY <2>1, <2>2, <2>3, <2>4 DEF Interval
<1>6. ASSUME NEW p \in Interval(lo, n) PROVE p \in FreeSeats'
  BY <1>1, <1>3 DEF Interval, FreeSeats
<1>7. ASSUME NEW p \in FreeSeats PROVE p \in FreeSeats'
  <2>1. PICK t \in Seats : runs[t] > 0 /\ t <= p /\ p < t + runs[t] /\ p \in Seats
    BY DEF FreeSeats
  <2>2. CASE t = a
    <3>1. a < lo
      BY <2>1, <2>2, <1>1, <1>r DEF Overlaps
    <3> QED
      BY <2>1, <2>2, <3>1, <1>1, <1>2, <1>3 DEF FreeSeats
  <2>3. CASE t = hi
    BY <2>1, <2>3, <1>1, <1>2, <1>3 DEF FreeSeats
  <2>4. CASE t # a /\ t # hi
    BY <2>1, <2>4, <1>3 DEF FreeSeats
  <2> QED
    BY <2>2, <2>3, <2>4
<1> QED
  BY <1>4, <1>5, <1>6, <1>7

-----------------------------------------------------------------------------
(* The inductive invariant                                                 *)

\* A client holds a piece of the run it has read.
PickFits ==
  \A c \in Clients : cpc[c] = "claim" =>
    /\ ckey[c] \in Keys /\ clen[c] > 0
    /\ crun[c] <= cpick[c] /\ cpick[c] + Qty[ckey[c]] <= crun[c] + clen[c]

SeatsFit == \A k \in Keys : seat[k] # NoSeat => seat[k] + Qty[k] <= Capacity

\* What the markers, the rows and the entries of a request say of each other.
LifeCycle ==
  \A k \in Keys :
    /\ k \in inflight \/ k \in doomed \/ status[k] # "none" => seat[k] # NoSeat
    /\ k \in deadMarker => k \in doomed
    /\ k \in hold => status[k] # "none"
    /\ k \in owed => status[k] = "expired"
    /\ k \in orderMarker => status[k] = "expired" /\ k \notin hold

\* A release works for an expired order, and touches Redis only after the hold.
ReleaseInOrder ==
  \A v \in Releasers : step[v] # "idle" =>
    /\ job[v] \in Keys /\ status[job[v]] = "expired"
    /\ step[v] = "return" => job[v] \notin hold

\* Before the sale there is nothing to rebuild around.
BeforeSale ==
  ~onSale =>
       /\ bheld = {}
       /\ \A k \in Keys : seat[k] = NoSeat
       /\ \A c \in Clients : cpc[c] = "idle"

SeatInv ==
  /\ SeatTypeOK /\ RunsAreMaximal /\ CounterMatchesRuns
  /\ PickFits /\ SeatsFit /\ LifeCycle /\ ReleaseInOrder /\ BeforeSale

\* The size of an interval that fits in the block.
LEMMA IntervalSize ==
  ASSUME NEW s \in Seats, NEW n \in 1 .. Capacity, s + n <= Capacity
  PROVE  IsFiniteSet(Interval(s, n)) /\ Cardinality(Interval(s, n)) = n
<1>1. Capacity \in Nat /\ s \in Nat /\ n \in Nat /\ n > 0
  BY SeatBlockAssumption DEF Seats
<1>2. Interval(s, n) = s .. s + n - 1
  BY <1>1 DEF Interval, Seats
<1> HIDE DEF Interval
<1> QED
  BY <1>1, <1>2, FS_Interval

\* The free seats are finitely many.
LEMMA FreeIsFinite ==
  /\ IsFiniteSet(FreeSeats) /\ Cardinality(FreeSeats) \in 0 .. Capacity
  /\ IsFiniteSet(Seats) /\ Cardinality(Seats) = Capacity
<1>1. Capacity \in Nat /\ Capacity > 0
  BY SeatBlockAssumption
<1>2. IsFiniteSet(Seats) /\ Cardinality(Seats) = Capacity
  BY <1>1, FS_Interval DEF Seats
<1>3. FreeSeats \in SUBSET Seats
  BY DEF FreeSeats
<1>4. IsFiniteSet(FreeSeats) /\ Cardinality(FreeSeats) <= Capacity
  BY <1>2, <1>3, FS_Subset
<1>5. Cardinality(FreeSeats) \in Nat
  BY <1>4, FS_CardinalityType
<1> QED
  BY <1>1, <1>2, <1>4, <1>5

\* What a step does to the run structure.
ZoneOK == RunTypeOK /\ RunsAreMaximal /\ CounterMatchesRuns /\ left \in 0 .. Capacity

\* The claim script takes the picked seats and keeps the structure sound.
LEMMA ClaimZone ==
  ASSUME SeatInv, NEW c \in Clients, ClaimSeats(c)
  PROVE  /\ ZoneOK' /\ ckey[c] \in Keys /\ cpick[c] \in Seats
         /\ seat[ckey[c]] = NoSeat /\ cpick[c] + Qty[ckey[c]] <= Capacity
         /\ Interval(cpick[c], Qty[ckey[c]]) \subseteq FreeSeats
         /\ FreeSeats' = FreeSeats \ Interval(cpick[c], Qty[ckey[c]])
<1> DEFINE n == Qty[ckey[c]]
           s == cpick[c]
           rs == crun[c]
           rl == clen[c]
<1>1. RunTypeOK /\ RunsAreMaximal /\ CounterMatchesRuns /\ left \in 0 .. Capacity
  BY DEF SeatInv, SeatTypeOK, RunTypeOK
<1>2. cpc[c] = "claim" /\ ckey[c] \in Keys /\ seat[ckey[c]] = NoSeat /\ runs[rs] = rl
  BY DEF SeatInv, ClaimSeats, ClaimOutcome, PickFits
<1>3. Capacity \in Nat /\ n \in 1 .. Capacity
  BY <1>2, SeatBlockAssumption
<1>4. s \in Seats /\ rs \in Seats /\ rl \in 0 .. Capacity
  BY DEF SeatInv, SeatTypeOK
<1>5. rl > 0 /\ rs <= s /\ s + n <= rs + rl
  BY <1>2 DEF SeatInv, PickFits
<1>6. rl \in 1 .. Capacity
  BY <1>3, <1>4, <1>5
<1>7. CutRuns(s, n, rs, rl) /\ CutEnds(s, n, rs, rl) /\ left' = left - n
  BY DEF ClaimSeats
<1>8. RunTypeOK' /\ RunsAreMaximal'
  BY <1>1, <1>2, <1>3, <1>4, <1>5, <1>6, <1>7, CutKeepsRuns
<1>9. Interval(s, n) \subseteq FreeSeats /\ FreeSeats' = FreeSeats \ Interval(s, n)
  BY <1>1, <1>2, <1>3, <1>4, <1>5, <1>6, <1>7, CutTakesInterval
<1>10. s + n <= Capacity
  <2>1. rs \in Positions /\ rs \in Nat /\ s \in Nat
    BY <1>3, <1>4 DEF Seats, Positions
  <2>2. rs + rl <= Capacity
    BY <1>1, <1>2, <1>5, <2>1 DEF RunsAreMaximal
  <2> QED
    BY <1>3, <1>5, <1>6, <2>1, <2>2
<1>11. Cardinality(FreeSeats') = Cardinality(FreeSeats) - n
  <2>1. FreeSeats \cap Interval(s, n) = Interval(s, n)
    BY <1>9
  <2>2. Cardinality(FreeSeats \ Interval(s, n))
          = Cardinality(FreeSeats) - Cardinality(FreeSeats \cap Interval(s, n))
    BY FreeIsFinite, FS_Difference
  <2>3. Cardinality(Interval(s, n)) = n
    BY <1>3, <1>4, <1>10, IntervalSize
  <2> QED
    BY <1>9, <2>1, <2>2, <2>3
<1>12. Cardinality(FreeSeats') \in 0 .. Capacity
  <2>1. IsFiniteSet(FreeSeats') /\ FreeSeats' \in SUBSET FreeSeats
    BY <1>9, FreeIsFinite, FS_Difference
  <2>2. Cardinality(FreeSeats') <= Cardinality(FreeSeats) /\ Cardinality(FreeSeats') \in Nat
    BY <2>1, FreeIsFinite, FS_Subset, FS_CardinalityType
  <2> QED
    BY <1>3, <2>2, FreeIsFinite
<1>13. CounterMatchesRuns' /\ left' \in 0 .. Capacity
  BY <1>1, <1>7, <1>11, <1>12 DEF CounterMatchesRuns
<1> QED
  BY <1>2, <1>4, <1>8, <1>9, <1>10, <1>13 DEF ZoneOK

\* The release script adds the request's seats and keeps the structure sound.
LEMMA ReturnZone ==
  ASSUME SeatInv, NEW k \in Keys, seat[k] # NoSeat,
         ~Overlaps(seat[k], seat[k] + Qty[k]), ReturnRun(k)
  PROVE  ZoneOK' /\ FreeSeats' = FreeSeats \cup SeatsOf(k)
<1> DEFINE n == Qty[k]
           s == seat[k]
<1>1. RunTypeOK /\ RunsAreMaximal /\ CounterMatchesRuns /\ left \in 0 .. Capacity
  BY DEF SeatInv, SeatTypeOK, RunTypeOK
<1>2. Capacity \in Nat /\ n \in 1 .. Capacity
  BY SeatBlockAssumption
<1>3. s \in Seats /\ s + n <= Capacity
  BY DEF SeatInv, SeatTypeOK, SeatsFit
<1>4. s \in Nat /\ s + n \in Positions /\ s < s + n
  BY <1>2, <1>3 DEF Seats, Positions
<1>5. MergeRuns(s, s + n) /\ MergeEnds(s, s + n) /\ left' = left + n
  BY DEF ReturnRun
<1>6. RunTypeOK' /\ RunsAreMaximal'
  BY <1>1, <1>3, <1>4, <1>5, MergeKeepsRuns
<1>7. Interval(s, n) \cap FreeSeats = {} /\ FreeSeats' = FreeSeats \cup Interval(s, n)
  BY <1>1, <1>2, <1>3, <1>5, MergeGivesInterval
<1>8. Cardinality(FreeSeats') = Cardinality(FreeSeats) + n
  <2>1. FreeSeats \cap Interval(s, n) = {}
    BY <1>7
  <2>2. IsFiniteSet(Interval(s, n)) /\ Cardinality(Interval(s, n)) = n
    BY <1>2, <1>3, IntervalSize
  <2>3. Cardinality(FreeSeats \cup Interval(s, n))
          = Cardinality(FreeSeats) + Cardinality(Interval(s, n))
              - Cardinality(FreeSeats \cap Interval(s, n))
    BY <2>2, FreeIsFinite, FS_Union
  <2>4. Cardinality(FreeSeats \cap Interval(s, n)) = 0
    BY <2>1, FS_EmptySet
  <2> QED
    BY <1>2, <1>7, <2>2, <2>3, <2>4, FreeIsFinite
<1>9. Cardinality(FreeSeats') \in 0 .. Capacity
  <2>1. FreeSeats' \in SUBSET Seats
    BY DEF FreeSeats
  <2>2. IsFiniteSet(FreeSeats') /\ Cardinality(FreeSeats') <= Capacity
    BY <2>1, FreeIsFinite, FS_Subset
  <2> QED
    BY <1>2, <2>2, FS_CardinalityType
<1>10. CounterMatchesRuns' /\ left' \in 0 .. Capacity
  BY <1>1, <1>5, <1>8, <1>9 DEF CounterMatchesRuns
<1> QED
  BY <1>6, <1>7, <1>10 DEF ZoneOK, SeatsOf

\* Where the gaps between occupied seats begin and end.
LEMMA GapFacts ==
  ASSUME NEW busy \in SUBSET Seats
  PROVE  /\ \A s \in Seats \ busy :
              /\ RunEnd(s, busy) \in Positions /\ s < RunEnd(s, busy)
              /\ RunEnd(s, busy) = Capacity \/ RunEnd(s, busy) \in busy
              /\ \A p \in Seats : s <= p /\ p < RunEnd(s, busy) => p \notin busy
         /\ \A p \in Seats \ busy : \E s \in RunStarts(busy) :
              s <= p /\ \A x \in Seats : s <= x /\ x <= p => x \notin busy
         /\ \A s, t \in RunStarts(busy) : s < t => RunEnd(s, busy) < t
<1>0. Capacity \in Nat /\ Capacity > 0
  BY SeatBlockAssumption
<1> USE <1>0 DEF Positions, Seats
<1>1. ASSUME NEW s \in Seats \ busy
      PROVE  /\ RunEnd(s, busy) \in Positions /\ s < RunEnd(s, busy)
             /\ RunEnd(s, busy) = Capacity \/ RunEnd(s, busy) \in busy
             /\ \A p \in Seats : s <= p /\ p < RunEnd(s, busy) => p \notin busy
  <2> DEFINE E == {e \in Nat : s < e /\ (e = Capacity \/ e \in busy)}
  <2>1. Capacity \in E
    OBVIOUS
  <2>2. PICK e \in E : \A x \in E : e <= x
    <3> HIDE DEF E
    <3>1. E \in SUBSET Nat /\ E # {}
      BY <2>1 DEF E
    <3> QED BY <3>1, LeastElement
  <2>3. /\ e \in Positions /\ s < e /\ (e = Capacity \/ e \in busy)
        /\ \A p \in Seats : s <= p /\ p < e => p \notin busy
    BY <2>1, <2>2
  <2> HIDE DEF E
  <2>4. \E x \in Positions : /\ s < x /\ (x = Capacity \/ x \in busy)
                             /\ \A p \in Seats : s <= p /\ p < x => p \notin busy
    BY <2>3
  <2> QED BY <2>4 DEF RunEnd
<1>2. ASSUME NEW p \in Seats \ busy
      PROVE  \E s \in RunStarts(busy) : s <= p /\ \A x \in Seats : s <= x /\ x <= p => x \notin busy
  <2> DEFINE B == {s \in Nat : s <= p /\ \A x \in Seats : s <= x /\ x <= p => x \notin busy}
  <2>1. p \in B
    OBVIOUS
  <2>2. PICK s \in B : \A x \in B : s <= x
    <3> HIDE DEF B
    <3>1. B \in SUBSET Nat /\ B # {}
      BY <2>1 DEF B
    <3> QED BY <3>1, LeastElement
  <2>3. s = 0 \/ s - 1 \in busy
    <3> SUFFICES ASSUME s # 0, s - 1 \notin busy PROVE FALSE
      OBVIOUS
    <3>1. s - 1 \in B
      <4>1. s - 1 \in Nat /\ s - 1 <= p
        OBVIOUS
      <4>2. \A x \in Seats : s - 1 <= x /\ x <= p => x = s - 1 \/ s <= x
        OBVIOUS
      <4> QED BY <4>1, <4>2
    <3> QED BY <3>1, <2>2
  <2>4. s \in Seats \ busy
    BY <2>2
  <2> QED BY <2>2, <2>3, <2>4 DEF RunStarts
<1>3. ASSUME NEW s \in RunStarts(busy), NEW t \in RunStarts(busy), s < t
      PROVE  RunEnd(s, busy) < t
  <2>1. s \in Seats \ busy /\ t \in Seats \ busy /\ (t = 0 \/ t - 1 \in busy)
    BY DEF RunStarts
  <2>2. t - 1 \in Seats /\ s <= t - 1 /\ t - 1 \in busy
    BY <1>3, <2>1
  <2> QED BY <1>1, <2>1, <2>2
<1> QED
  BY <1>1, <1>2, <1>3

\* A rebuild offers exactly the seats without a hold, in maximal runs with exact
\* tags, whatever the runs were before.
LEMMA RebuildZone ==
  ASSUME RebuildWrite
  PROVE  ZoneOK' /\ FreeSeats' = Seats \ UNION {SeatsOf(k) : k \in bheld}
<1> DEFINE busy == UNION {SeatsOf(k) : k \in bheld}
           A == RunStarts(busy)
           Z(s) == RunEnd(s, busy)
<1>1. busy \in SUBSET Seats
  BY DEF SeatsOf, Interval
<1>2. /\ runs' = [p \in Positions |-> IF p \in A THEN Z(p) - p ELSE 0]
      /\ ends' = [p \in Positions |->
                   IF \E s \in A : Z(s) = p THEN CHOOSE s \in A : Z(s) = p ELSE NoSeat]
      /\ left' = Cardinality(Seats \ busy)
  BY DEF RebuildWrite
<1> HIDE DEF busy
<1>3. Capacity \in Nat /\ Capacity > 0
  BY SeatBlockAssumption
<1>4. A \subseteq Seats \ busy
  BY DEF RunStarts
<1>5. \A s \in Seats \ busy : /\ Z(s) \in Positions /\ s < Z(s)
                              /\ Z(s) = Capacity \/ Z(s) \in busy
                              /\ \A p \in Seats : s <= p /\ p < Z(s) => p \notin busy
  BY <1>1, GapFacts
<1>6. \A p \in Seats \ busy : \E s \in A :
        s <= p /\ \A x \in Seats : s <= x /\ x <= p => x \notin busy
  BY <1>1, GapFacts
<1>7. \A s, t \in A : s < t => Z(s) < t
  BY <1>1, GapFacts
<1> HIDE DEF A, Z
<1>8. \A s \in A : s \in Nat /\ s < Capacity /\ Z(s) \in Nat /\ s < Z(s) /\ Z(s) <= Capacity
  BY <1>3, <1>4, <1>5 DEF Seats, Positions
<1>9. \A s, t \in A : Z(s) = Z(t) => s = t
  BY <1>7, <1>8
<1>10. /\ \A p \in Positions : runs'[p] = IF p \in A THEN Z(p) - p ELSE 0
       /\ \A p \in A : p \in Positions /\ Z(p) \in Positions /\ ends'[Z(p)] = p
       /\ \A p \in Positions : ends'[p] # NoSeat => ends'[p] \in A /\ Z(ends'[p]) = p
  <2>1. \A p \in A : p \in Positions /\ Z(p) \in Positions
    BY <1>3, <1>8 DEF Positions
  <2>2. \A p \in A : (CHOOSE s \in A : Z(s) = Z(p)) = p
    BY <1>9
  <2>3. \A p \in A : ends'[Z(p)] = p
    BY <1>2, <2>1, <2>2
  <2>4. \A p \in Positions : ends'[p] # NoSeat => ends'[p] \in A /\ Z(ends'[p]) = p
    BY <1>2
  <2> QED BY <1>2, <2>1, <2>3, <2>4
<1>11. FreeSeats' = Seats \ busy
  <2>1. ASSUME NEW p \in Seats \ busy PROVE p \in FreeSeats'
    <3>1. PICK s \in A : s <= p /\ \A x \in Seats : s <= x /\ x <= p => x \notin busy
      BY <1>6
    <3>2. p < Z(s)
      BY <1>3, <1>4, <1>5, <1>8, <3>1 DEF Seats
    <3>3. runs'[s] = Z(s) - s /\ s \in Seats
      BY <1>4, <1>10
    <3> QED BY <1>8, <3>1, <3>2, <3>3 DEF FreeSeats, Seats
  <2>2. ASSUME NEW p \in FreeSeats' PROVE p \in Seats \ busy
    <3>1. PICK s \in Seats : runs'[s] > 0 /\ s <= p /\ p < s + runs'[s]
      BY DEF FreeSeats
    <3>2. p \in Seats /\ s \in Positions
      BY <1>3 DEF FreeSeats, Seats, Positions
    <3>3. s \in A /\ runs'[s] = Z(s) - s
      BY <1>10, <3>1, <3>2
    <3> QED BY <1>4, <1>5, <1>8, <3>1, <3>2, <3>3 DEF Seats
  <2> QED BY <2>1, <2>2
<1>12. RunTypeOK'
  <2>1. runs' \in [Positions -> 0 .. Capacity]
    BY <1>2, <1>3, <1>8
  <2>2. ends' \in [Positions -> Seats \cup {NoSeat}]
    <3>1. \A p \in Positions : ends'[p] \in Seats \cup {NoSeat}
      BY <1>4, <1>10
    <3> QED BY <1>2, <3>1
  <2> QED BY <2>1, <2>2 DEF RunTypeOK
<1>13. RunsAreMaximal'
  <2>1. \A s \in Positions : runs'[s] > 0 => s \in A /\ runs'[s] = Z(s) - s /\ s + runs'[s] = Z(s)
    BY <1>8, <1>10
  <2>2. \A e \in Positions : ends'[e] # NoSeat =>
           ends'[e] < e /\ runs'[ends'[e]] = e - ends'[e]
    BY <1>8, <1>10
  <2> QED BY <1>7, <1>8, <1>10, <2>1, <2>2 DEF RunsAreMaximal
<1>14. CounterMatchesRuns' /\ left' \in 0 .. Capacity
  <2>1. Seats \ busy \in SUBSET Seats
    OBVIOUS
  <2>2. IsFiniteSet(Seats \ busy) /\ Cardinality(Seats \ busy) <= Capacity
    BY <2>1, FreeIsFinite, FS_Subset
  <2>3. Cardinality(Seats \ busy) \in Nat
    BY <2>2, FS_CardinalityType
  <2> QED BY <1>2, <1>3, <1>11, <2>2, <2>3 DEF CounterMatchesRuns
<1> QED
  BY <1>11, <1>12, <1>13, <1>14 DEF ZoneOK, busy

\* Steps that leave the structure alone.
LEMMA SameZone ==
  ASSUME SeatInv, UNCHANGED zone
  PROVE  ZoneOK' /\ FreeSeats' = FreeSeats
<1>1. ZoneOK
  BY DEF SeatInv, SeatTypeOK, ZoneOK, RunTypeOK
<1>2. runs' = runs /\ ends' = ends /\ left' = left
  BY DEF zone
<1>3. FreeSeats' = FreeSeats
  BY <1>2 DEF FreeSeats
<1> QED
  BY <1>1, <1>2, <1>3 DEF ZoneOK, RunTypeOK, RunsAreMaximal, CounterMatchesRuns

-----------------------------------------------------------------------------
\* The invariant without the run structure.
RestInv == PickFits /\ SeatsFit /\ LifeCycle /\ ReleaseInOrder /\ BeforeSale

\* Every step preserves the invariant.
LEMMA SeatNext ==
  ASSUME SeatInv, [Next]_vars
  PROVE  SeatInv'
<1> USE RelaysAssumption, SeatFaultsAssumption
<1>q. \A k \in Keys : Qty[k] \in Nat /\ Qty[k] > 0
  BY SeatBlockAssumption
<1>c. Capacity \in Nat /\ Capacity > 0
  BY SeatBlockAssumption
<1>0. 0 \in Seats /\ 0 \in 0 .. Capacity /\ Seats \subseteq Positions
  BY <1>c DEF Seats, Positions
<1>z. ZoneOK' /\ SeatTypeOK' /\ RestInv' => SeatInv'
  BY DEF ZoneOK, SeatInv, RestInv
<1>1. ASSUME NEW c \in Clients, NEW k \in Keys, NEW rs \in Seats, NEW s \in Seats, ReadAndPick(c, k, rs, s) PROVE SeatInv'
  <2>1. UNCHANGED zone
    BY <1>1 DEF ReadAndPick, redis, zone, vars
  <2>2. ZoneOK'
    BY <2>1, SameZone
  <2>3. SeatTypeOK'
    BY <1>1, <1>0, <2>2, SMTT(20)
    DEF ZoneOK, RunTypeOK, SeatInv, SeatTypeOK, Releasers,
        ReadAndPick, redis, zone, db, client, releasing, rebuild, past
  <2>4. RestInv'
    BY <1>1, <1>q, SMTT(20)
    DEF SeatInv, SeatTypeOK, RestInv, PickFits, SeatsFit, LifeCycle, ReleaseInOrder, BeforeSale, Releasers,
        ReadAndPick, redis, zone, db, client, releasing, rebuild, past
  <2> QED
    BY <1>z, <2>2, <2>3, <2>4
<1>2. ASSUME NEW c \in Clients, ClaimSeats(c) PROVE SeatInv'
  <2>1. /\ ckey[c] \in Keys /\ cpick[c] \in Seats /\ seat[ckey[c]] = NoSeat
        /\ cpick[c] + Qty[ckey[c]] <= Capacity
    BY <1>2, ClaimZone
  <2>2. ZoneOK'
    BY <1>2, ClaimZone
  <2>3. SeatTypeOK'
    BY <1>2, <1>0, <2>2, <2>1, SMTT(20)
    DEF ZoneOK, RunTypeOK, SeatInv, SeatTypeOK, Releasers,
        ClaimSeats, ClientForgets, redis, zone, db, client, releasing, rebuild, past
  <2>4. RestInv'
    <3>1. PickFits' /\ SeatsFit'
      BY <1>2, <2>1, <1>q, SMTT(20)
      DEF SeatInv, SeatTypeOK, PickFits, SeatsFit, ClaimSeats, ClientForgets
    <3>2. LifeCycle'
      BY <1>2, <2>1, SMTT(20) DEF SeatInv, SeatTypeOK, LifeCycle, ClaimSeats, db, Seats, NoSeat
    <3>3. ReleaseInOrder' /\ BeforeSale'
      BY <1>2, <2>1, SMTT(20)
      DEF SeatInv, ReleaseInOrder, BeforeSale, ClaimSeats, db, releasing, rebuild, past
    <3> QED
      BY <3>1, <3>2, <3>3 DEF RestInv
  <2> QED
    BY <1>z, <2>2, <2>3, <2>4
<1>3. ASSUME NEW c \in Clients, ClaimRefused(c) PROVE SeatInv'
  <2>1. UNCHANGED zone
    BY <1>3 DEF ClaimRefused, ClientForgets, redis, zone, vars
  <2>2. ZoneOK'
    BY <2>1, SameZone
  <2>3. SeatTypeOK'
    BY <1>3, <1>0, <2>2, SMTT(20)
    DEF ZoneOK, RunTypeOK, SeatInv, SeatTypeOK, Releasers,
        ClaimRefused, ClientForgets, redis, zone, db, client, releasing, rebuild, past
  <2>4. RestInv'
    BY <1>3, <1>q, SMTT(20)
    DEF SeatInv, SeatTypeOK, RestInv, PickFits, SeatsFit, LifeCycle, ReleaseInOrder, BeforeSale, Releasers,
        ClaimRefused, ClientForgets, redis, zone, db, client, releasing, rebuild, past
  <2> QED
    BY <1>z, <2>2, <2>3, <2>4
<1>4. ASSUME NEW k \in Keys, PersistIntent(k) PROVE SeatInv'
  <2>1. UNCHANGED zone
    BY <1>4 DEF PersistIntent, redis, zone, vars
  <2>2. ZoneOK'
    BY <2>1, SameZone
  <2>3. SeatTypeOK'
    BY <1>4, <1>0, <2>2, SMTT(20)
    DEF ZoneOK, RunTypeOK, SeatInv, SeatTypeOK, Releasers,
        PersistIntent, redis, zone, db, client, releasing, rebuild, past
  <2>4. RestInv'
    BY <1>4, <1>q, SMTT(20)
    DEF SeatInv, SeatTypeOK, RestInv, PickFits, SeatsFit, LifeCycle, ReleaseInOrder, BeforeSale, Releasers,
        PersistIntent, redis, zone, db, client, releasing, rebuild, past
  <2> QED
    BY <1>z, <2>2, <2>3, <2>4
<1>5. ASSUME NEW k \in Keys, AckIntent(k) PROVE SeatInv'
  <2>1. UNCHANGED zone
    BY <1>5 DEF AckIntent, redis, zone, vars
  <2>2. ZoneOK'
    BY <2>1, SameZone
  <2>3. SeatTypeOK'
    BY <1>5, <1>0, <2>2, SMTT(20)
    DEF ZoneOK, RunTypeOK, SeatInv, SeatTypeOK, Releasers,
        AckIntent, redis, zone, db, client, releasing, rebuild, past
  <2>4. RestInv'
    BY <1>5, <1>q, SMTT(20)
    DEF SeatInv, SeatTypeOK, RestInv, PickFits, SeatsFit, LifeCycle, ReleaseInOrder, BeforeSale, Releasers,
        AckIntent, redis, zone, db, client, releasing, rebuild, past
  <2> QED
    BY <1>z, <2>2, <2>3, <2>4
<1>6. ASSUME NEW k \in Keys, GiveUp(k) PROVE SeatInv'
  <2>1. UNCHANGED zone
    BY <1>6 DEF GiveUp, redis, zone, vars
  <2>2. ZoneOK'
    BY <2>1, SameZone
  <2>3. SeatTypeOK'
    BY <1>6, <1>0, <2>2, SMTT(20)
    DEF ZoneOK, RunTypeOK, SeatInv, SeatTypeOK, Releasers,
        GiveUp, redis, zone, db, client, releasing, rebuild, past
  <2>4. RestInv'
    BY <1>6, <1>q, SMTT(20)
    DEF SeatInv, SeatTypeOK, RestInv, PickFits, SeatsFit, LifeCycle, ReleaseInOrder, BeforeSale, Releasers,
        GiveUp, redis, zone, db, client, releasing, rebuild, past
  <2> QED
    BY <1>z, <2>2, <2>3, <2>4
<1>7. ASSUME NEW k \in Keys, DeadLetterRefund(k) PROVE SeatInv'
  <2>1. seat[k] # NoSeat
    BY <1>7 DEF SeatInv, LifeCycle, DeadLetterRefund
  <2>2. ZoneOK'
    BY <1>7, <2>1, ReturnZone DEF DeadLetterRefund
  <2>3. SeatTypeOK'
    BY <1>7, <1>0, <2>2, SMTT(20)
    DEF ZoneOK, RunTypeOK, SeatInv, SeatTypeOK, Releasers,
        DeadLetterRefund, redis, zone, db, client, releasing, rebuild, past
  <2>4. RestInv'
    BY <1>7, <1>q, SMTT(20)
    DEF SeatInv, SeatTypeOK, RestInv, PickFits, SeatsFit, LifeCycle, ReleaseInOrder, BeforeSale, Releasers,
        DeadLetterRefund, redis, zone, db, client, releasing, rebuild, past
  <2> QED
    BY <1>z, <2>2, <2>3, <2>4
<1>8. ASSUME NEW k \in Keys, DeadLetterAck(k) PROVE SeatInv'
  <2>1. UNCHANGED zone
    BY <1>8 DEF DeadLetterAck, redis, zone, vars
  <2>2. ZoneOK'
    BY <2>1, SameZone
  <2>3. SeatTypeOK'
    BY <1>8, <1>0, <2>2, SMTT(20)
    DEF ZoneOK, RunTypeOK, SeatInv, SeatTypeOK, Releasers,
        DeadLetterAck, redis, zone, db, client, releasing, rebuild, past
  <2>4. RestInv'
    BY <1>8, <1>q, SMTT(20)
    DEF SeatInv, SeatTypeOK, RestInv, PickFits, SeatsFit, LifeCycle, ReleaseInOrder, BeforeSale, Releasers,
        DeadLetterAck, redis, zone, db, client, releasing, rebuild, past
  <2> QED
    BY <1>z, <2>2, <2>3, <2>4
<1>8f. ASSUME NEW k \in Keys, DeadLetterFails(k) PROVE SeatInv'
  <2>1. UNCHANGED zone
    BY <1>8f DEF DeadLetterFails, Fault, redis, zone, vars
  <2>2. ZoneOK'
    BY <2>1, SameZone
  <2>3. SeatTypeOK'
    BY <1>8f, <1>0, <2>2, SMTT(20)
    DEF ZoneOK, RunTypeOK, SeatInv, SeatTypeOK, Releasers,
        DeadLetterFails, Fault, redis, zone, db, client, releasing, rebuild, past
  <2>4. RestInv'
    BY <1>8f, <1>q, SMTT(20)
    DEF SeatInv, SeatTypeOK, RestInv, PickFits, SeatsFit, LifeCycle, ReleaseInOrder, BeforeSale, Releasers,
        DeadLetterFails, Fault, redis, zone, db, client, releasing, rebuild, past
  <2> QED
    BY <1>z, <2>2, <2>3, <2>4
<1>9. ASSUME NEW k \in Keys, ConfirmPaid(k) PROVE SeatInv'
  <2>1. UNCHANGED zone
    BY <1>9 DEF ConfirmPaid, redis, zone, vars
  <2>2. ZoneOK'
    BY <2>1, SameZone
  <2>3. SeatTypeOK'
    BY <1>9, <1>0, <2>2, SMTT(20)
    DEF ZoneOK, RunTypeOK, SeatInv, SeatTypeOK, Releasers,
        ConfirmPaid, redis, zone, db, client, releasing, rebuild, past
  <2>4. RestInv'
    BY <1>9, <1>q, SMTT(20)
    DEF SeatInv, SeatTypeOK, RestInv, PickFits, SeatsFit, LifeCycle, ReleaseInOrder, BeforeSale, Releasers,
        ConfirmPaid, redis, zone, db, client, releasing, rebuild, past
  <2> QED
    BY <1>z, <2>2, <2>3, <2>4
<1>10. ASSUME NEW k \in Keys, ExpireOrder(k) PROVE SeatInv'
  <2>1. UNCHANGED zone
    BY <1>10 DEF ExpireOrder, redis, zone, vars
  <2>2. ZoneOK'
    BY <2>1, SameZone
  <2>3. SeatTypeOK'
    BY <1>10, <1>0, <2>2, SMTT(20)
    DEF ZoneOK, RunTypeOK, SeatInv, SeatTypeOK, Releasers,
        ExpireOrder, redis, zone, db, client, releasing, rebuild, past
  <2>4. RestInv'
    BY <1>10, <1>q, SMTT(20)
    DEF SeatInv, SeatTypeOK, RestInv, PickFits, SeatsFit, LifeCycle, ReleaseInOrder, BeforeSale, Releasers,
        ExpireOrder, redis, zone, db, client, releasing, rebuild, past
  <2> QED
    BY <1>z, <2>2, <2>3, <2>4
<1>11. ASSUME NEW v \in Relays, NEW k \in Keys, RelayClaim(v, k) PROVE SeatInv'
  <2>1. UNCHANGED zone
    BY <1>11 DEF RelayClaim, redis, zone, vars
  <2>2. ZoneOK'
    BY <2>1, SameZone
  <2>3. SeatTypeOK'
    BY <1>11, <1>0, <2>2, SMTT(20)
    DEF ZoneOK, RunTypeOK, SeatInv, SeatTypeOK, Releasers,
        RelayClaim, redis, zone, db, client, releasing, rebuild, past
  <2>4. RestInv'
    BY <1>11, <1>q, SMTT(20)
    DEF SeatInv, SeatTypeOK, RestInv, PickFits, SeatsFit, LifeCycle, ReleaseInOrder, BeforeSale, Releasers,
        RelayClaim, redis, zone, db, client, releasing, rebuild, past
  <2> QED
    BY <1>z, <2>2, <2>3, <2>4
<1>12. ASSUME NEW v \in Releasers, ReadHold(v) PROVE SeatInv'
  <2>1. UNCHANGED zone
    BY <1>12 DEF ReadHold, ReleaseReturns, redis, zone, vars
  <2>2. ZoneOK'
    BY <2>1, SameZone
  <2>3. SeatTypeOK'
    BY <1>12, <1>0, <2>2, SMTT(20)
    DEF ZoneOK, RunTypeOK, SeatInv, SeatTypeOK, Releasers,
        ReadHold, ReleaseReturns, redis, zone, db, client, releasing, rebuild, past
  <2>4. RestInv'
    BY <1>12, <1>q, SMTT(20)
    DEF SeatInv, SeatTypeOK, RestInv, PickFits, SeatsFit, LifeCycle, ReleaseInOrder, BeforeSale, Releasers,
        ReadHold, ReleaseReturns, redis, zone, db, client, releasing, rebuild, past
  <2> QED
    BY <1>z, <2>2, <2>3, <2>4
<1>13. ASSUME NEW v \in Releasers, DeleteHold(v) PROVE SeatInv'
  <2>1. UNCHANGED zone
    BY <1>13 DEF DeleteHold, redis, zone, vars
  <2>2. ZoneOK'
    BY <2>1, SameZone
  <2>3. SeatTypeOK'
    BY <1>13, <1>0, <2>2, SMTT(20)
    DEF ZoneOK, RunTypeOK, SeatInv, SeatTypeOK, Releasers,
        DeleteHold, redis, zone, db, client, releasing, rebuild, past
  <2>4. RestInv'
    BY <1>13, <1>q, SMTT(20)
    DEF SeatInv, SeatTypeOK, RestInv, PickFits, SeatsFit, LifeCycle, ReleaseInOrder, BeforeSale, Releasers,
        DeleteHold, redis, zone, db, client, releasing, rebuild, past
  <2> QED
    BY <1>z, <2>2, <2>3, <2>4
<1>14. ASSUME NEW v \in Releasers, ReturnSeats(v) PROVE SeatInv'
  <2>1. job[v] \in Keys /\ seat[job[v]] # NoSeat
    BY <1>14 DEF SeatInv, LifeCycle, ReleaseInOrder, ReturnSeats
  <2>2. ZoneOK'
    <3>1. CASE UNCHANGED <<zone, orderMarker>>
      BY <3>1, SameZone
    <3>2. CASE ~Overlaps(seat[job[v]], seat[job[v]] + Qty[job[v]]) /\ ReturnRun(job[v])
      BY <3>2, <2>1, ReturnZone
    <3> QED
      BY <1>14, <3>1, <3>2 DEF ReturnSeats
  <2>3. SeatTypeOK'
    BY <1>14, <1>0, <2>2, <2>1, SMTT(20)
    DEF ZoneOK, RunTypeOK, SeatInv, SeatTypeOK, Releasers,
        ReturnSeats, ReleaseReturns, redis, zone, db, client, releasing, rebuild, past
  <2>4. RestInv'
    <3>1. PickFits' /\ SeatsFit' /\ BeforeSale'
      BY <1>14, SMTT(20)
      DEF SeatInv, PickFits, SeatsFit, BeforeSale, ReturnSeats, db, client, rebuild, past
    <3>2. LifeCycle'
      BY <1>14, <2>1, SMTT(20) DEF SeatInv, SeatTypeOK, LifeCycle, ReleaseInOrder, ReturnSeats, db
    <3>3. ReleaseInOrder'
      BY <1>14, <2>1, SMTT(20)
      DEF SeatInv, SeatTypeOK, ReleaseInOrder, ReturnSeats, ReleaseReturns, db
    <3> QED
      BY <3>1, <3>2, <3>3 DEF RestInv
  <2> QED
    BY <1>z, <2>2, <2>3, <2>4
<1>15. ASSUME NEW v \in Releasers, ReturnRejected(v) PROVE SeatInv'
  <2>1. UNCHANGED zone
    BY <1>15 DEF ReturnRejected, redis, zone, vars
  <2>2. ZoneOK'
    BY <2>1, SameZone
  <2>j. job[v] \in Keys
    BY <1>15 DEF SeatInv, ReleaseInOrder, ReturnRejected
  <2>3. SeatTypeOK'
    BY <1>15, <1>0, <2>2, <2>j, SMTT(20)
    DEF ZoneOK, RunTypeOK, SeatInv, SeatTypeOK, Releasers,
        ReturnRejected, redis, zone, db, client, releasing, rebuild, past
  <2>4. RestInv'
    BY <1>15, <1>q, SMTT(20)
    DEF SeatInv, SeatTypeOK, RestInv, PickFits, SeatsFit, LifeCycle, ReleaseInOrder, BeforeSale, Releasers,
        ReturnRejected, redis, zone, db, client, releasing, rebuild, past
  <2> QED
    BY <1>z, <2>2, <2>3, <2>4
<1>16. ASSUME NEW v \in Releasers, MarkProcessed(v) PROVE SeatInv'
  <2>1. UNCHANGED zone
    BY <1>16 DEF MarkProcessed, redis, zone, vars
  <2>2. ZoneOK'
    BY <2>1, SameZone
  <2>3. SeatTypeOK'
    BY <1>16, <1>0, <2>2, SMTT(20)
    DEF ZoneOK, RunTypeOK, SeatInv, SeatTypeOK, Releasers,
        MarkProcessed, redis, zone, db, client, releasing, rebuild, past
  <2>4. RestInv'
    BY <1>16, <1>q, SMTT(20)
    DEF SeatInv, SeatTypeOK, RestInv, PickFits, SeatsFit, LifeCycle, ReleaseInOrder, BeforeSale, Releasers,
        MarkProcessed, redis, zone, db, client, releasing, rebuild, past
  <2> QED
    BY <1>z, <2>2, <2>3, <2>4
<1>17. ASSUME NEW v \in Releasers, ReleaseFails(v) PROVE SeatInv'
  <2>1. UNCHANGED zone
    BY <1>17 DEF ReleaseFails, Fault, redis, zone, vars
  <2>2. ZoneOK'
    BY <2>1, SameZone
  <2>j. job[v] \in Keys
    BY <1>17 DEF SeatInv, ReleaseInOrder, ReleaseFails
  <2>3. SeatTypeOK'
    BY <1>17, <1>0, <2>2, <2>j, SMTT(20)
    DEF ZoneOK, RunTypeOK, SeatInv, SeatTypeOK, Releasers,
        ReleaseFails, Fault, TornBy, redis, zone, db, client, releasing, rebuild, past
  <2>4. RestInv'
    BY <1>17, <1>q, SMTT(20)
    DEF SeatInv, SeatTypeOK, RestInv, PickFits, SeatsFit, LifeCycle, ReleaseInOrder, BeforeSale, Releasers,
        ReleaseFails, Fault, redis, zone, db, client, releasing, rebuild, past
  <2> QED
    BY <1>z, <2>2, <2>3, <2>4
<1>18. ASSUME RebuildCheck PROVE SeatInv'
  <2>1. UNCHANGED zone
    BY <1>18 DEF RebuildCheck, redis, zone, vars
  <2>2. ZoneOK'
    BY <2>1, SameZone
  <2>3. SeatTypeOK'
    BY <1>18, <1>0, <2>2, SMTT(20)
    DEF ZoneOK, RunTypeOK, SeatInv, SeatTypeOK, Releasers,
        RebuildCheck, redis, zone, db, client, releasing, rebuild, past
  <2>4. RestInv'
    BY <1>18, <1>q, SMTT(20)
    DEF SeatInv, SeatTypeOK, RestInv, PickFits, SeatsFit, LifeCycle, ReleaseInOrder, BeforeSale, Releasers,
        RebuildCheck, redis, zone, db, client, releasing, rebuild, past
  <2> QED
    BY <1>z, <2>2, <2>3, <2>4
<1>19. ASSUME RebuildRead PROVE SeatInv'
  <2>1. UNCHANGED zone
    BY <1>19 DEF RebuildRead, redis, zone, vars
  <2>2. ZoneOK'
    BY <2>1, SameZone
  <2>3. SeatTypeOK'
    BY <1>19, <1>0, <2>2, SMTT(20)
    DEF ZoneOK, RunTypeOK, SeatInv, SeatTypeOK, Releasers,
        RebuildRead, redis, zone, db, client, releasing, rebuild, past
  <2>4. RestInv'
    BY <1>19, <1>q, SMTT(20)
    DEF SeatInv, SeatTypeOK, RestInv, PickFits, SeatsFit, LifeCycle, ReleaseInOrder, BeforeSale, Releasers,
        RebuildRead, redis, zone, db, client, releasing, rebuild, past
  <2> QED
    BY <1>z, <2>2, <2>3, <2>4
<1>20. ASSUME RebuildWrite PROVE SeatInv'
  <2>1. /\ bpc' \in {"idle", "rebuilt"} /\ bheld' = {}
        /\ UNCHANGED <<seat, inflight, doomed, orderMarker, deadMarker, db, client, releasing,
                       past>>
    BY <1>20 DEF RebuildWrite
  <2>2. ZoneOK'
    BY <1>20, RebuildZone
  <2>3. SeatTypeOK'
    BY <1>0, <2>2, <2>1, SMTT(20)
    DEF ZoneOK, RunTypeOK, SeatInv, SeatTypeOK, Releasers,
        redis, zone, db, client, releasing, rebuild, past
  <2>4. RestInv'
    BY <2>1, <1>q, SMTT(20)
    DEF SeatInv, RestInv, PickFits, SeatsFit, LifeCycle, ReleaseInOrder, BeforeSale,
        db, client, releasing
  <2> QED
    BY <1>z, <2>2, <2>3, <2>4
<1>21. ASSUME PublishEvent PROVE SeatInv'
  <2>1. UNCHANGED zone
    BY <1>21 DEF PublishEvent, redis, zone, vars
  <2>2. ZoneOK'
    BY <2>1, SameZone
  <2>3. SeatTypeOK'
    BY <1>21, <1>0, <2>2, SMTT(20)
    DEF ZoneOK, RunTypeOK, SeatInv, SeatTypeOK, Releasers,
        PublishEvent, redis, zone, db, client, releasing, rebuild, past
  <2>4. RestInv'
    BY <1>21, <1>q, SMTT(20)
    DEF SeatInv, SeatTypeOK, RestInv, PickFits, SeatsFit, LifeCycle, ReleaseInOrder, BeforeSale, Releasers,
        PublishEvent, redis, zone, db, client, releasing, rebuild, past
  <2> QED
    BY <1>z, <2>2, <2>3, <2>4
<1>22. ASSUME UNCHANGED vars PROVE SeatInv'
  <2>1. UNCHANGED zone
    BY <1>22 DEF redis, zone, vars
  <2>2. ZoneOK'
    BY <2>1, SameZone
  <2>3. SeatTypeOK'
    BY <1>22, <1>0, <2>2, SMTT(20)
    DEF ZoneOK, RunTypeOK, SeatInv, SeatTypeOK, Releasers,
        vars, redis, zone, db, client, releasing, rebuild, past
  <2>4. RestInv'
    BY <1>22, <1>q, SMTT(20)
    DEF SeatInv, SeatTypeOK, RestInv, PickFits, SeatsFit, LifeCycle, ReleaseInOrder, BeforeSale, Releasers,
        vars, redis, zone, db, client, releasing, rebuild, past
  <2> QED
    BY <1>z, <2>2, <2>3, <2>4
<1> QED
  BY <1>1, <1>2, <1>3, <1>4, <1>5, <1>6, <1>7, <1>8, <1>8f, <1>9, <1>10, <1>11,
     <1>12, <1>13, <1>14, <1>15, <1>16, <1>17, <1>18, <1>19, <1>20, <1>21, <1>22
  DEF Next, WorkerStep, ReleaseStep, RelayStep, Releasers, Quiescent

\* The invariant holds throughout, whatever an operator rebuilds.
LEMMA SeatIsInvariant == Spec => []SeatInv
<1>1. Init => SeatInv
  <2> SUFFICES ASSUME Init PROVE SeatInv
    OBVIOUS
  <2>1. Capacity \in Nat /\ Capacity > 0
    BY SeatBlockAssumption
  <2>2. SeatTypeOK
    <3>1. /\ 0 \in Seats /\ 0 \in 0 .. Capacity /\ NoSeat \in Seats \cup {NoSeat}
          /\ 0 \in 0 .. MaxFaults
      BY <2>1, SeatFaultsAssumption DEF Seats
    <3>2. /\ runs \in [Positions -> 0 .. Capacity]
          /\ ends \in [Positions -> Seats \cup {NoSeat}] /\ left \in 0 .. Capacity
          /\ seat \in [Keys -> Seats \cup {NoSeat}]
      BY <3>1 DEF Init
    <3>3. /\ cpc \in [Clients -> {"idle", "claim"}] /\ ckey \in [Clients -> Keys \cup {None}]
          /\ cpick \in [Clients -> Seats] /\ crun \in [Clients -> Seats]
          /\ clen \in [Clients -> 0 .. Capacity] /\ faults \in 0 .. MaxFaults
      BY <3>1 DEF Init
    <3> QED
      BY <3>2, <3>3 DEF Init, SeatTypeOK
  <2>3. RunsAreMaximal
    BY DEF Init, RunsAreMaximal
  <2>4. CounterMatchesRuns
    <3>1. FreeSeats = {}
      BY <2>1 DEF Init, FreeSeats, Seats, Positions
    <3> QED
      BY <3>1, FS_EmptySet DEF Init, CounterMatchesRuns
  <2>5. PickFits /\ SeatsFit /\ LifeCycle /\ ReleaseInOrder /\ BeforeSale
    BY DEF Init, PickFits, SeatsFit, LifeCycle, ReleaseInOrder, BeforeSale
  <2> QED
    BY <2>2, <2>3, <2>4, <2>5 DEF SeatInv
<1>2. SeatInv /\ [Next]_vars => SeatInv'
  BY SeatNext
<1> QED
  BY <1>1, <1>2, PTL DEF Spec

\* Every variable of the seat path keeps its type; in particular the zone's
\* counter stays between zero and the capacity of the block.
THEOREM SeatRunsTypeOK == Spec => []SeatTypeOK
<1>1. SeatInv => SeatTypeOK
  BY DEF SeatInv
<1> QED
  BY <1>1, SeatIsInvariant, PTL

\* The claim and release scripts keep the runs maximal and both boundary tags
\* exact, whatever clients, releases, rebuilds and failures interleave.
THEOREM SeatRunsStayMaximal == Spec => []RunsAreMaximal
<1>1. SeatInv => RunsAreMaximal
  BY DEF SeatInv
<1> QED
  BY <1>1, SeatIsInvariant, PTL

\* The counter that read_zone_state trusts is the number of free seats.
THEOREM SeatCounterIsExact == Spec => []CounterMatchesRuns
<1>1. SeatInv => CounterMatchesRuns
  BY DEF SeatInv
<1> QED
  BY <1>1, SeatIsInvariant, PTL

-----------------------------------------------------------------------------
(* The refinement of SeatMap                                               *)

\* Seats that are taken once and given back once stay apart.
LEMMA ApartStep ==
  Map!SeatsApart /\ [Map!SeatMapNext]_(Map!seatMap) => Map!SeatsApart'
<1> SUFFICES ASSUME Map!SeatsApart, [Map!SeatMapNext]_(Map!seatMap) PROVE Map!SeatsApart'
  OBVIOUS
<1>1. CASE Map!OpenSale
  BY <1>1 DEF Map!SeatsApart, Map!Holds, Map!OpenSale
<1>2. ASSUME NEW k \in Keys, Map!ReturnSeats(k) PROVE Map!SeatsApart'
  BY <1>2 DEF Map!SeatsApart, Map!Holds, Map!ReturnSeats
<1>3. ASSUME NEW k \in Keys, NEW s \in Map!Seats, Map!TakeSeats(k, s) PROVE Map!SeatsApart'
  BY <1>3 DEF Map!SeatsApart, Map!Holds, Map!TakeSeats
<1>4. CASE UNCHANGED Map!seatMap
  BY <1>4 DEF Map!SeatsApart, Map!Holds, Map!seatMap
<1> QED
  BY <1>1, <1>2, <1>3, <1>4 DEF Map!SeatMapNext

\* Only a rebuild and the publication move what tells whether an operator meddled.
LEMMA WhoMeddles ==
  ASSUME [Next]_vars
  PROVE  \/ UNCHANGED <<onSale, bpc>>
         \/ RebuildCheck \/ RebuildRead \/ RebuildWrite \/ PublishEvent
<1>1. CASE \E c \in Clients :
             \/ ClaimSeats(c) \/ ClaimRefused(c)
             \/ \E k \in Keys, rs, s \in Seats : ReadAndPick(c, k, rs, s)
  BY <1>1 DEF ClaimSeats, ClaimRefused, ReadAndPick, db, rebuild
<1>2. CASE \E k \in Keys : WorkerStep(k) \/ GiveUp(k) \/ ConfirmPaid(k) \/ ExpireOrder(k)
  BY <1>2
  DEF WorkerStep, PersistIntent, AckIntent, DeadLetterRefund, DeadLetterFails, DeadLetterAck,
      GiveUp, ConfirmPaid, ExpireOrder, db, rebuild
<1>3. CASE \E v \in Releasers :
             ReleaseStep(v) \/ ReleaseFails(v) \/ \E k \in Keys : RelayClaim(v, k)
  BY <1>3
  DEF ReleaseStep, ReadHold, DeleteHold, ReturnSeats, ReturnRejected, MarkProcessed, ReleaseFails,
      RelayClaim, db, rebuild
<1>4. CASE UNCHANGED vars
  BY <1>4 DEF vars, db, rebuild
<1> QED
  BY <1>1, <1>2, <1>3, <1>4 DEF Next, RelayStep, Releasers, Quiescent

\* A refund stays on record, and so does an order.
LEMMA OverlapStays ==
  ASSUME SeatInv, Overlapped, [Next]_vars
  PROVE  Overlapped'
<1>1. PICK k \in deadMarker : status[k] # "none"
  BY DEF Overlapped
<1>2. /\ k \in Keys
      /\ status \in [Keys -> {"none", "pending", "confirmed", "expired"}]
  BY <1>1 DEF SeatInv, SeatTypeOK
<1>3. deadMarker \subseteq deadMarker' /\ status'[k] # "none"
  <2>1. CASE \E c \in Clients :
               \/ ClaimSeats(c) \/ ClaimRefused(c)
               \/ \E j \in Keys, rs, s \in Seats : ReadAndPick(c, j, rs, s)
    BY <1>1, <2>1 DEF ClaimSeats, ClaimRefused, ReadAndPick, db, redis
  <2>2. CASE \E j \in Keys : PersistIntent(j) \/ ConfirmPaid(j) \/ ExpireOrder(j)
    BY <1>1, <1>2, <2>2 DEF PersistIntent, ConfirmPaid, ExpireOrder, redis
  <2>3. CASE \E j \in Keys :
               \/ AckIntent(j) \/ DeadLetterRefund(j) \/ DeadLetterFails(j)
               \/ DeadLetterAck(j) \/ GiveUp(j)
    BY <1>1, <2>3
    DEF AckIntent, DeadLetterRefund, DeadLetterFails, DeadLetterAck, GiveUp, db
  <2>4. CASE \E v \in Releasers :
               ReleaseStep(v) \/ ReleaseFails(v) \/ \E j \in Keys : RelayClaim(v, j)
    BY <1>1, <2>4
    DEF ReleaseStep, ReadHold, DeleteHold, ReturnSeats, ReturnRejected, MarkProcessed,
        ReleaseFails, RelayClaim, db, redis
  <2>5. CASE RebuildCheck \/ RebuildRead \/ RebuildWrite \/ PublishEvent \/ UNCHANGED vars
    BY <1>1, <2>5 DEF RebuildCheck, RebuildRead, RebuildWrite, PublishEvent, vars, db, redis
  <2> QED
    BY <2>1, <2>2, <2>3, <2>4, <2>5 DEF Next, WorkerStep, RelayStep, Releasers, Quiescent
<1> QED
  BY <1>1, <1>3 DEF Overlapped

\* A map that was disturbed stays so.
LEMMA DisturbanceStays ==
  ASSUME SeatInv, Disturbed, [Next]_vars
  PROVE  Disturbed'
<1>1. CASE Meddled
  BY <1>1, WhoMeddles
  DEF Disturbed, Meddled, RebuildCheck, RebuildRead, RebuildWrite, PublishEvent, db
<1>2. CASE Overlapped
  BY <1>2, OverlapStays DEF Disturbed
<1> QED
  BY <1>1, <1>2 DEF Disturbed

\* Every step of the seat path is a step of the abstract map, changes nothing on
\* it, or leaves the map disturbed: by a rebuild during the sale, or because a refund
\* and an order exist for one request.
LEMMA MapStep ==
  ASSUME SeatInv, [Next]_vars
  PROVE  [Disturbed' \/ Map!SeatMapNext]_(Map!seatMap)
<1>i. \A s, n : Map!Interval(s, n) = Interval(s, n)
  BY DEF Map!Interval, Interval, Map!Seats, Seats
<1>s. Map!Seats = Seats /\ Map!NoSeat = NoSeat
  BY DEF Map!Seats, Seats, Map!NoSeat, NoSeat
<1>m. LifeCycle
  BY DEF SeatInv
<1>u. ASSUME UNCHANGED <<runs, seat, orderMarker, deadMarker>>
      PROVE  UNCHANGED Map!seatMap
  BY <1>u DEF Map!seatMap, FreeSeats
<1>1. ASSUME NEW c \in Clients, ClaimSeats(c) PROVE Map!SeatMapNext
  <2>1. Map!TakeSeats(ckey[c], cpick[c])
    BY <1>1, <1>i, <1>s, ClaimZone DEF Map!TakeSeats, ClaimSeats
  <2> QED
    BY <1>1, <1>s, <2>1, ClaimZone DEF Map!SeatMapNext
<1>2. ASSUME NEW k \in Keys, DeadLetterRefund(k) PROVE Disturbed' \/ Map!SeatMapNext
  <2>0. CASE status[k] # "none"
    BY <1>2, <2>0 DEF DeadLetterRefund, Disturbed, Overlapped, db
  <2> SUFFICES ASSUME status[k] = "none" PROVE Map!SeatMapNext
    BY <2>0
  <2>1. seat[k] # NoSeat /\ k \notin orderMarker \cup deadMarker
    BY <1>2, <1>m DEF LifeCycle, DeadLetterRefund
  <2>2. FreeSeats' = FreeSeats \cup SeatsOf(k)
    BY <1>2, <2>1, ReturnZone DEF DeadLetterRefund
  <2>3. Map!ReturnSeats(k)
    BY <1>2, <1>i, <1>s, <2>1, <2>2 DEF Map!ReturnSeats, DeadLetterRefund, SeatsOf
  <2> QED
    BY <2>3 DEF Map!SeatMapNext
<1>3. ASSUME NEW v \in Releasers, ReturnSeats(v)
      PROVE  [Disturbed' \/ Map!SeatMapNext]_(Map!seatMap)
  <2>1. job[v] \in Keys /\ status[job[v]] = "expired"
    BY <1>3 DEF SeatInv, ReleaseInOrder, ReturnSeats
  <2>0. CASE job[v] \in deadMarker
    <3>1. Overlapped'
      BY <1>3, <2>0, <2>1 DEF ReturnSeats, Overlapped, db
    <3> QED
      BY <3>1 DEF Disturbed
  <2> SUFFICES ASSUME job[v] \notin deadMarker PROVE [Map!SeatMapNext]_(Map!seatMap)
    BY <2>0
  <2>2. seat[job[v]] # NoSeat
    BY <1>m, <2>1 DEF LifeCycle
  <2>3. CASE UNCHANGED <<zone, orderMarker>>
    BY <1>3, <1>u, <2>3 DEF ReturnSeats, zone
  <2>4. CASE /\ job[v] \notin orderMarker
             /\ ~Overlaps(seat[job[v]], seat[job[v]] + Qty[job[v]])
             /\ orderMarker' = orderMarker \cup {job[v]} /\ ReturnRun(job[v])
    <3>1. FreeSeats' = FreeSeats \cup SeatsOf(job[v])
      BY <2>1, <2>2, <2>4, ReturnZone
    <3>2. Map!ReturnSeats(job[v])
      BY <1>3, <1>i, <1>s, <2>2, <2>4, <3>1 DEF Map!ReturnSeats, ReturnSeats, SeatsOf
    <3> QED
      BY <2>1, <3>2 DEF Map!SeatMapNext
  <2> QED
    BY <1>3, <2>3, <2>4 DEF ReturnSeats
<1>4. ASSUME RebuildWrite PROVE Disturbed' \/ Map!SeatMapNext
  <2>1. CASE onSale
    BY <1>4, <2>1 DEF RebuildWrite, Disturbed, Meddled, db
  <2>2. CASE ~onSale
    <3>1. (\A k \in Keys : seat[k] = NoSeat) /\ bheld = {}
      BY <2>2 DEF SeatInv, BeforeSale
    <3>2. seat = [k \in Keys |-> NoSeat]
      BY <3>1 DEF SeatInv, SeatTypeOK
    <3>3. UNCHANGED <<seat, orderMarker, deadMarker>>
      BY <1>4 DEF RebuildWrite
    <3>4. FreeSeats' = Seats
      <4>1. UNION {SeatsOf(k) : k \in bheld} = {}
        BY <3>1
      <4> QED
        BY <1>4, <4>1, RebuildZone
    <3>5. Map!OpenSale
      BY <1>s, <3>2, <3>3, <3>4 DEF Map!OpenSale
    <3> QED
      BY <3>5 DEF Map!SeatMapNext
  <2> QED
    BY <2>1, <2>2
<1>5. CASE \E c \in Clients :
             \/ ClaimRefused(c)
             \/ \E k \in Keys, rs, s \in Seats : ReadAndPick(c, k, rs, s)
  BY <1>5, <1>u DEF ClaimRefused, ReadAndPick, redis
<1>6. CASE \E k \in Keys :
             \/ PersistIntent(k) \/ AckIntent(k) \/ DeadLetterFails(k) \/ DeadLetterAck(k)
             \/ GiveUp(k) \/ ConfirmPaid(k) \/ ExpireOrder(k)
  BY <1>6, <1>u
  DEF PersistIntent, AckIntent, DeadLetterFails, DeadLetterAck, GiveUp, ConfirmPaid, ExpireOrder,
      redis, zone
<1>7. CASE \E v \in Releasers :
             \/ ReadHold(v) \/ DeleteHold(v) \/ ReturnRejected(v) \/ MarkProcessed(v)
             \/ ReleaseFails(v) \/ \E k \in Keys : RelayClaim(v, k)
  BY <1>7, <1>u
  DEF ReadHold, DeleteHold, ReturnRejected, MarkProcessed, ReleaseFails, RelayClaim, redis
<1>8. CASE RebuildCheck \/ RebuildRead \/ PublishEvent \/ UNCHANGED vars
  BY <1>8, <1>u DEF RebuildCheck, RebuildRead, PublishEvent, redis, vars
<1> QED
  BY <1>1, <1>2, <1>3, <1>4, <1>5, <1>6, <1>7, <1>8
  DEF Next, WorkerStep, ReleaseStep, RelayStep, Releasers, Quiescent

\* The structure starts as an empty map.
LEMMA MapStarts == Init => Map!SeatMapInit
<1> SUFFICES ASSUME Init PROVE Map!SeatMapInit
  OBVIOUS
<1>1. FreeSeats = {}
  BY SeatBlockAssumption DEF Init, FreeSeats, Seats, Positions
<1> QED
  BY <1>1 DEF Init, Map!SeatMapInit, Map!NoSeat, NoSeat

\* The run structure, its scripts and the marker-guarded releases implement the
\* abstract seat map, up to the first rebuild that an operator runs during the sale
\* or the first order that a slow consumer commits although it was refunded.
THEOREM SeatRunsImplementMap == Spec => ImplementsSeatMap
<1>1. SeatInv /\ [Next]_vars => [Disturbed' \/ Map!SeatMapNext]_(Map!seatMap)
  BY MapStep
<1> QED
  BY <1>1, MapStarts, SeatIsInvariant, PTL DEF Spec, ImplementsSeatMap

-----------------------------------------------------------------------------
(* What the map gives the requests                                         *)

\* Seats of the map stay apart until it is disturbed.
LEMMA SeatsStayApart == Spec => [](Disturbed \/ Map!SeatsApart)
<1>1. Map!SeatMapInit => Map!SeatsApart
  BY DEF Map!SeatMapInit, Map!SeatsApart, Map!Holds
<1>2. SeatInv /\ (Disturbed \/ Map!SeatsApart) /\ [Next]_vars => (Disturbed \/ Map!SeatsApart)'
  <2> SUFFICES ASSUME SeatInv, Disturbed \/ Map!SeatsApart, [Next]_vars
               PROVE  Disturbed' \/ Map!SeatsApart'
    OBVIOUS
  <2>1. CASE Disturbed
    BY <2>1, DisturbanceStays
  <2>2. CASE Map!SeatsApart
    BY <2>2, MapStep, ApartStep
  <2> QED
    BY <2>1, <2>2
<1> QED
  BY <1>1, <1>2, MapStarts, SeatIsInvariant, PTL DEF Spec

\* No seat of a live request is on sale or belongs to another one, unless an
\* operator has rebuilt the runs during the sale or a slow consumer has committed an
\* order that the dead letter refunded.
THEOREM SeatsAreNeverShared == Spec => [](Disturbed \/ NoSharedSeat)
<1>1. SeatInv /\ (Disturbed \/ Map!SeatsApart) => Disturbed \/ NoSharedSeat
  <2> SUFFICES ASSUME SeatInv, ~Disturbed, Map!SeatsApart PROVE NoSharedSeat
    OBVIOUS
  <2>1. \A k \in Keys : LiveSeats(k) => Map!Holds(k)
    BY DEF SeatInv, LifeCycle, LiveSeats, Disturbed, Overlapped, Map!Holds, Map!NoSeat, NoSeat
  <2>2. \A s, n : Map!Interval(s, n) = Interval(s, n)
    BY DEF Map!Interval, Interval, Map!Seats, Seats
  <2> QED
    BY <2>1, <2>2 DEF NoSharedSeat, Map!SeatsApart, SeatsOf
<1> QED
  BY <1>1, SeatIsInvariant, SeatsStayApart, PTL

\* The EXCLUDE constraint never turns an intent away that was not refunded, so none is
\* dead-lettered for a seat that its buyer was granted, with the same exceptions.
THEOREM SeatHoldsNeverConflict == Spec => [](Disturbed \/ HoldsNeverConflict)
<1>1. SeatInv /\ (Disturbed \/ Map!SeatsApart) => Disturbed \/ HoldsNeverConflict
  <2> SUFFICES ASSUME SeatInv, ~Disturbed, Map!SeatsApart,
                      NEW k \in inflight \ deadMarker, status[k] = "none", NEW j \in hold \ {k}
               PROVE  SeatsOf(j) \cap SeatsOf(k) = {}
    BY DEF HoldsNeverConflict, Conflicts
  <2>1. k \in Keys /\ j \in Keys
    BY DEF SeatInv, SeatTypeOK
  <2>2. Map!Holds(k) /\ Map!Holds(j)
    BY <2>1 DEF SeatInv, LifeCycle, Disturbed, Overlapped, Map!Holds, Map!NoSeat, NoSeat
  <2>3. \A s, n : Map!Interval(s, n) = Interval(s, n)
    BY DEF Map!Interval, Interval, Map!Seats, Seats
  <2> QED
    BY <2>1, <2>2, <2>3 DEF Map!SeatsApart, SeatsOf
<1> QED
  BY <1>1, SeatIsInvariant, SeatsStayApart, PTL

\* Together: the map of free seats is right whatever anybody does, and no seat is
\* given twice unless an operator rebuilds during the sale or a slow consumer commits
\* an order that the dead letter refunded.
THEOREM SeatsStaySound == Spec => []SeatsAreSound
<1>1. /\ SeatTypeOK /\ RunsAreMaximal /\ CounterMatchesRuns
      /\ Disturbed \/ NoSharedSeat
      /\ Disturbed \/ HoldsNeverConflict
      => SeatsAreSound
  BY DEF SeatsAreSound
<1> QED
  BY <1>1, SeatRunsTypeOK, SeatRunsStayMaximal, SeatCounterIsExact, SeatsAreNeverShared,
     SeatHoldsNeverConflict, PTL

-----------------------------------------------------------------------------
(* Seats that have to come back                                            *)

\* While an expired order has its hold, the outbox row is there and no relay is
\* about to mark it; once the hold is gone somebody is returning the seats, unless a
\* release has ended in between.
DebtInv ==
  /\ \A k \in Keys : step[k] # "idle" => job[k] = k
  /\ \A k \in Keys : status[k] = "pending" => k \in hold
  /\ \A k \in Keys \ (orderMarker \cup torn) : status[k] = "expired" =>
       IF k \in hold
       THEN k \in owed /\ \A v \in Releasers : step[v] = "mark" => job[v] # k
       ELSE Returning(k)

\* Seats that an order holds and has not given back are not on sale, so the
\* release script never answers OVERLAP to it.
LEMMA ReturnIsAccepted ==
  ASSUME SeatInv, ~Disturbed, Map!SeatsApart, NEW k \in Keys, status[k] = "expired",
         k \notin orderMarker
  PROVE  ~Overlaps(seat[k], seat[k] + Qty[k])
<1>1. seat[k] # NoSeat /\ k \notin deadMarker
  BY DEF SeatInv, LifeCycle, Disturbed, Overlapped
<1>2. SeatsOf(k) \cap FreeSeats = {}
  <2>1. Map!Holds(k)
    BY <1>1 DEF Map!Holds, Map!NoSeat, NoSeat
  <2>2. Map!Interval(seat[k], Qty[k]) = SeatsOf(k)
    BY DEF Map!Interval, Interval, Map!Seats, Seats, SeatsOf
  <2> QED
    BY <2>1, <2>2 DEF Map!SeatsApart
<1>3. /\ Capacity \in Nat /\ Qty[k] \in Nat /\ Qty[k] > 0
      /\ seat[k] \in Nat /\ seat[k] + Qty[k] <= Capacity
  BY <1>1, SeatBlockAssumption DEF SeatInv, SeatTypeOK, SeatsFit, Seats
<1>4. \A p \in Positions : runs[p] \in Nat
  BY <1>3 DEF SeatInv, SeatTypeOK
<1> SUFFICES ASSUME NEW p \in Positions, runs[p] > 0, p < seat[k] + Qty[k], seat[k] < p + runs[p]
             PROVE  FALSE
  BY DEF Overlaps
<1>5. p \in Seats
  BY <1>3 DEF Positions, Seats
<1>6. CASE p <= seat[k]
  <2>1. seat[k] \in FreeSeats /\ seat[k] \in SeatsOf(k)
    BY <1>3, <1>4, <1>5, <1>6 DEF FreeSeats, SeatsOf, Interval, Seats
  <2> QED
    BY <2>1, <1>2
<1>7. CASE seat[k] < p
  <2>1. p \in FreeSeats /\ p \in SeatsOf(k)
    BY <1>3, <1>4, <1>5, <1>7 DEF FreeSeats, SeatsOf, Interval, Seats
  <2> QED
    BY <2>1, <1>2
<1> QED
  BY <1>3, <1>5, <1>6, <1>7 DEF Seats

\* Steps that touch neither orders nor releases.
LEMMA DebtUntouched ==
  ASSUME DebtInv, UNCHANGED <<orderMarker, status, hold, owed, step, job, torn>>
  PROVE  DebtInv'
BY DEF DebtInv, Returning

\* One release takes a step: it leaves "return" only once the marker is set or the
\* order is torn, and reaches "mark" only without a hold.
LEMMA DebtRelease ==
  ASSUME SeatInv, DebtInv, NEW v \in Releasers,
         \A w \in Releasers \ {v} : step'[w] = step[w] /\ job'[w] = job[w],
         v \in Keys => step'[v] = "idle" \/ job'[v] = v,
         UNCHANGED status,
         orderMarker \subseteq orderMarker', torn \subseteq torn',
         step[v] = "return" => job[v] \in orderMarker' \cup torn',
         step'[v] = "mark" => job'[v] \notin hold \/ job'[v] \in orderMarker',
         \/ UNCHANGED <<hold, owed>>
         \/ step[v] = "mark" /\ owed' = owed \ {job[v]} /\ UNCHANGED hold
         \/ /\ step[v] = "delete" /\ step'[v] = "return" /\ job'[v] = job[v]
            /\ hold' = hold \ {job[v]} /\ UNCHANGED owed
  PROVE  DebtInv'
<1>k. \A k \in Keys : k \in Releasers
  BY DEF Releasers
<1>1. (\A j \in Keys : step[j] # "idle" => job[j] = j)'
  BY <1>k DEF DebtInv
<1>2. (\A j \in Keys : status[j] = "pending" => j \in hold)'
  BY DEF DebtInv, SeatInv, ReleaseInOrder
<1>3. ASSUME NEW j \in Keys, j \notin orderMarker' \cup torn', status'[j] = "expired"
      PROVE  IF j \in hold'
             THEN j \in owed' /\ \A w \in Releasers : step'[w] = "mark" => job'[w] # j
             ELSE Returning(j)'
  <2>1. CASE j \in hold'
    <3>1. j \in hold /\ j \in owed /\ \A w \in Releasers : step[w] = "mark" => job[w] # j
      BY <1>3, <2>1 DEF DebtInv
    <3>2. j \in owed'
      BY <3>1
    <3>3. \A w \in Releasers : step'[w] = "mark" => job'[w] # j
      BY <1>3, <3>1
    <3> QED
      BY <2>1, <3>2, <3>3
  <2>2. CASE j \notin hold'
    <3>1. CASE j \in hold
      BY <2>2, <3>1 DEF Returning
    <3>2. CASE j \notin hold
      <4>1. PICK w \in Releasers : step[w] = "return" /\ job[w] = j
        BY <1>3, <3>2 DEF DebtInv, Returning
      <4>2. w # v
        BY <1>3, <4>1
      <4> QED
        BY <2>2, <4>1, <4>2 DEF Returning
    <3> QED
      BY <3>1, <3>2
  <2> QED
    BY <2>1, <2>2
<1> HIDE DEF Returning
<1> QED
  BY <1>1, <1>2, <1>3 DEF DebtInv

\* Every step keeps the record of the seats that are owed.
LEMMA DebtStep ==
  ASSUME SeatInv, DebtInv, [Next]_vars
  PROVE  DebtInv'
<1>t. /\ step \in [Releasers -> {"idle", "read", "delete", "return", "mark"}]
      /\ job \in [Releasers -> Keys \cup {None}]
      /\ status \in [Keys -> {"none", "pending", "confirmed", "expired"}]
  BY DEF SeatInv, SeatTypeOK
<1>l. LifeCycle /\ ReleaseInOrder
  BY DEF SeatInv
<1>k. \A k \in Keys : k \in Releasers
  BY DEF Releasers
<1>1. ASSUME NEW c \in Clients, ClaimSeats(c) PROVE DebtInv'
  BY <1>1, DebtUntouched DEF ClaimSeats, db, releasing, past
<1>2. ASSUME NEW k \in Keys, PersistIntent(k) PROVE DebtInv'
  <2>1. status' = [status EXCEPT ![k] = "pending"] /\ hold' = hold \cup {k} /\ status[k] = "none"
    BY <1>2 DEF PersistIntent
  <2>2. UNCHANGED <<orderMarker, owed, step, job, torn>>
    BY <1>2 DEF PersistIntent, redis, releasing, past
  <2> QED
    BY <1>t, <2>1, <2>2 DEF DebtInv, Returning
<1>3. ASSUME NEW k \in Keys, AckIntent(k) PROVE DebtInv'
  BY <1>3, DebtUntouched DEF AckIntent, db, releasing, past
<1>4. ASSUME NEW k \in Keys, GiveUp(k) PROVE DebtInv'
  BY <1>4, DebtUntouched DEF GiveUp, db, releasing, past
<1>5. ASSUME NEW k \in Keys, DeadLetterRefund(k) PROVE DebtInv'
  BY <1>5, DebtUntouched DEF DeadLetterRefund, db, releasing, past
<1>6. ASSUME NEW k \in Keys, DeadLetterFails(k) \/ DeadLetterAck(k) PROVE DebtInv'
  BY <1>6, DebtUntouched DEF DeadLetterFails, DeadLetterAck, db, releasing, past
<1>7. ASSUME NEW k \in Keys, ConfirmPaid(k) PROVE DebtInv'
  <2>1. /\ status' = [status EXCEPT ![k] = "confirmed"]
        /\ UNCHANGED <<orderMarker, hold, owed, step, job, torn>>
    BY <1>7 DEF ConfirmPaid, redis, releasing, past
  <2> QED
    BY <1>t, <2>1 DEF DebtInv, Returning
<1>8. ASSUME NEW k \in Keys, ExpireOrder(k) PROVE DebtInv'
  <2>1. /\ status[k] = "pending" /\ status' = [status EXCEPT ![k] = "expired"]
        /\ owed' = owed \cup {k}
        /\ step' = [step EXCEPT ![k] = "read"] /\ job' = [job EXCEPT ![k] = k]
        /\ UNCHANGED <<orderMarker, hold, torn>>
    BY <1>8 DEF ExpireOrder, redis, past
  <2>2. k \in hold /\ step[k] = "idle"
    BY <1>k, <1>l, <2>1 DEF DebtInv, ReleaseInOrder
  <2>3. \A v \in Releasers : step[v] # "idle" => job[v] # k
    BY <1>l, <2>1 DEF ReleaseInOrder
  <2>4. \A v \in Releasers \ {k} : step'[v] = step[v] /\ job'[v] = job[v]
    BY <1>t, <2>1
  <2>5. step'[k] = "read" /\ job'[k] = k
    BY <1>k, <1>t, <2>1
  <2>6. \A j \in Keys \ {k} : status'[j] = status[j] /\ (Returning(j) => Returning(j)')
    BY <1>t, <2>1, <2>2, <2>4 DEF Returning
  <2>7. status'[k] = "expired"
    BY <1>t, <2>1
  <2>8. \A v \in Releasers : step'[v] = "mark" => step[v] = "mark" /\ job'[v] = job[v]
    BY <2>4, <2>5
  <2> HIDE DEF Returning
  <2>9. (\A j \in Keys : step[j] # "idle" => job[j] = j)'
    BY <1>k, <2>4, <2>5 DEF DebtInv
  <2>10. (\A j \in Keys : status[j] = "pending" => j \in hold)'
    BY <2>1, <2>6, <2>7 DEF DebtInv
  <2>11. ASSUME NEW j \in Keys, j \notin orderMarker' \cup torn', status'[j] = "expired"
         PROVE  IF j \in hold'
                THEN j \in owed' /\ \A v \in Releasers : step'[v] = "mark" => job'[v] # j
                ELSE Returning(j)'
    <3>1. CASE j = k
      BY <2>1, <2>2, <2>3, <2>8, <3>1
    <3>2. CASE j # k
      BY <2>1, <2>6, <2>8, <2>11, <3>2 DEF DebtInv
    <3> QED
      BY <3>1, <3>2
  <2> QED
    BY <2>9, <2>10, <2>11 DEF DebtInv
<1>9. ASSUME NEW v \in Relays, NEW k \in Keys, RelayClaim(v, k) PROVE DebtInv'
  <2>1. v \in Releasers /\ v \notin Keys
    BY RelaysAssumption DEF Releasers
  <2>2. /\ step[v] = "idle" /\ step' = [step EXCEPT ![v] = "read"]
        /\ job' = [job EXCEPT ![v] = k]
        /\ UNCHANGED <<status, orderMarker, hold, owed, torn>>
    BY <1>9 DEF RelayClaim, redis, db, past
  <2>3. /\ \A w \in Releasers \ {v} : step'[w] = step[w] /\ job'[w] = job[w]
        /\ step'[v] = "read"
    BY <1>t, <2>1, <2>2
  <2> QED
    BY <2>1, <2>2, <2>3, DebtRelease
<1>r. ASSUME NEW v \in Releasers, ReleaseReturns(v)
      PROVE  /\ \A w \in Releasers \ {v} : step'[w] = step[w] /\ job'[w] = job[w]
             /\ v \in Keys => step'[v] = "idle"
             /\ step'[v] \in {"mark", "idle"}
             /\ step'[v] = "mark" => job'[v] = job[v]
  BY <1>r, <1>t, RelaysAssumption DEF ReleaseReturns, Releasers
<1>10. ASSUME NEW v \in Releasers, ReadHold(v) PROVE DebtInv'
  <2>1. /\ step[v] = "read"
        /\ UNCHANGED <<status, orderMarker, hold, owed, torn>>
    BY <1>10 DEF ReadHold, redis, db, past
  <2>2. CASE job[v] \in hold /\ step' = [step EXCEPT ![v] = "delete"] /\ UNCHANGED job
    <3>1. /\ \A w \in Releasers \ {v} : step'[w] = step[w] /\ job'[w] = job[w]
          /\ step'[v] = "delete" /\ job'[v] = job[v]
      BY <1>t, <2>2
    <3>2. v \in Keys => job'[v] = v
      BY <2>1, <3>1 DEF DebtInv
    <3> QED
      BY <2>1, <3>1, <3>2, DebtRelease
  <2>3. CASE job[v] \notin hold /\ ReleaseReturns(v)
    BY <1>r, <2>1, <2>3, DebtRelease
  <2> QED
    BY <1>10, <2>2, <2>3 DEF ReadHold
<1>11. ASSUME NEW v \in Releasers, DeleteHold(v) PROVE DebtInv'
  <2>1. /\ step[v] = "delete" /\ hold' = hold \ {job[v]}
        /\ step' = [step EXCEPT ![v] = "return"]
        /\ UNCHANGED <<status, orderMarker, owed, job, torn>>
    BY <1>11 DEF DeleteHold, redis, past
  <2>2. /\ \A w \in Releasers \ {v} : step'[w] = step[w] /\ job'[w] = job[w]
        /\ step'[v] = "return" /\ job'[v] = job[v]
    BY <1>t, <2>1
  <2>3. v \in Keys => job'[v] = v
    BY <2>1, <2>2 DEF DebtInv
  <2> QED
    BY <2>1, <2>2, <2>3, DebtRelease
<1>12. ASSUME NEW v \in Releasers, ReturnSeats(v) PROVE DebtInv'
  <2>1. /\ step[v] = "return" /\ ReleaseReturns(v)
        /\ UNCHANGED <<status, hold, owed, torn>>
    BY <1>12 DEF ReturnSeats, db, past
  <2>2. orderMarker \subseteq orderMarker' /\ job[v] \in orderMarker'
    BY <1>12 DEF ReturnSeats
  <2> QED
    BY <1>r, <2>1, <2>2, DebtRelease
<1>s. ASSUME NEW v \in Releasers, step' = [step EXCEPT ![v] = "idle"],
             job' = [job EXCEPT ![v] = None]
      PROVE  /\ \A w \in Releasers \ {v} : step'[w] = step[w] /\ job'[w] = job[w]
             /\ step'[v] = "idle"
  BY <1>s, <1>t
<1>13. ASSUME NEW v \in Releasers, ReturnRejected(v) PROVE DebtInv'
  <2>1. /\ step[v] = "return" /\ torn' = torn \cup {job[v]}
        /\ step' = [step EXCEPT ![v] = "idle"] /\ job' = [job EXCEPT ![v] = None]
        /\ UNCHANGED <<status, orderMarker, hold, owed>>
    BY <1>13 DEF ReturnRejected, redis, db
  <2> QED
    BY <1>s, <2>1, DebtRelease
<1>14. ASSUME NEW v \in Releasers, MarkProcessed(v) PROVE DebtInv'
  <2>1. /\ step[v] = "mark" /\ owed' = owed \ {job[v]}
        /\ step' = [step EXCEPT ![v] = "idle"] /\ job' = [job EXCEPT ![v] = None]
        /\ UNCHANGED <<status, orderMarker, hold, torn>>
    BY <1>14 DEF MarkProcessed, redis, past
  <2> QED
    BY <1>s, <2>1, DebtRelease
<1>15. ASSUME NEW v \in Releasers, ReleaseFails(v) PROVE DebtInv'
  <2>1. /\ torn \subseteq torn' /\ (step[v] = "return" => job[v] \in torn')
        /\ step' = [step EXCEPT ![v] = "idle"] /\ job' = [job EXCEPT ![v] = None]
        /\ UNCHANGED <<status, orderMarker, hold, owed>>
    BY <1>15 DEF ReleaseFails, TornBy, redis, db
  <2> QED
    BY <1>s, <2>1, DebtRelease
<1>16. CASE \E c \in Clients :
              \/ ClaimRefused(c)
              \/ \E k \in Keys, rs, s \in Seats : ReadAndPick(c, k, rs, s)
  BY <1>16, DebtUntouched DEF ClaimRefused, ReadAndPick, redis, db, releasing, past
<1>17. CASE RebuildCheck \/ RebuildRead \/ RebuildWrite \/ PublishEvent \/ UNCHANGED vars
  BY <1>17, DebtUntouched
  DEF RebuildCheck, RebuildRead, RebuildWrite, PublishEvent, redis, db, releasing, past, vars
<1> QED
  BY <1>1, <1>2, <1>3, <1>4, <1>5, <1>6, <1>7, <1>8, <1>9, <1>10, <1>11, <1>12, <1>13, <1>14,
     <1>15, <1>16, <1>17
  DEF Next, WorkerStep, ReleaseStep, RelayStep, Releasers, Quiescent

\* An entry that was given up waits in the stream for its refund, unless its order is
\* there after all.
DoomedWait == \A k \in doomed \ deadMarker : k \in inflight \/ status[k] # "none"

\* Only an order row or the refund's marker takes an entry out of the stream.
LEMMA DoomedStep ==
  ASSUME SeatInv, DoomedWait, [Next]_vars
  PROVE  DoomedWait'
<1>t. /\ doomed \in SUBSET Keys
      /\ status \in [Keys -> {"none", "pending", "confirmed", "expired"}]
  BY DEF SeatInv, SeatTypeOK
<1>1. ASSUME UNCHANGED <<doomed, deadMarker, status>>, inflight \subseteq inflight'
      PROVE  DoomedWait'
  BY <1>1 DEF DoomedWait
<1>2. ASSUME NEW k \in Keys, AckIntent(k) PROVE DoomedWait'
  BY <1>2 DEF DoomedWait, AckIntent, db
<1>3. ASSUME NEW k \in Keys,
             GiveUp(k) \/ DeadLetterRefund(k) \/ DeadLetterFails(k) \/ DeadLetterAck(k)
      PROVE  DoomedWait'
  BY <1>3 DEF DoomedWait, GiveUp, DeadLetterRefund, DeadLetterFails, DeadLetterAck, db
<1>4. CASE \E c \in Clients :
             \/ ClaimSeats(c) \/ ClaimRefused(c)
             \/ \E k \in Keys, rs, s \in Seats : ReadAndPick(c, k, rs, s)
  BY <1>1, <1>4 DEF ClaimSeats, ClaimRefused, ReadAndPick, redis, db
<1>5. CASE \E k \in Keys : PersistIntent(k) \/ ConfirmPaid(k) \/ ExpireOrder(k)
  BY <1>t, <1>5 DEF DoomedWait, PersistIntent, ConfirmPaid, ExpireOrder, redis
<1>6. CASE \E v \in Releasers :
             ReleaseStep(v) \/ ReleaseFails(v) \/ \E k \in Keys : RelayClaim(v, k)
  BY <1>1, <1>6
  DEF ReleaseStep, ReadHold, DeleteHold, ReturnSeats, ReturnRejected, MarkProcessed, ReleaseFails,
      RelayClaim, redis, db
<1>7. CASE RebuildCheck \/ RebuildRead \/ RebuildWrite \/ PublishEvent \/ UNCHANGED vars
  BY <1>1, <1>7 DEF RebuildCheck, RebuildRead, RebuildWrite, PublishEvent, redis, db, vars
<1> QED
  BY <1>2, <1>3, <1>4, <1>5, <1>6, <1>7 DEF Next, WorkerStep, RelayStep, Releasers, Quiescent

\* An expired order is never forgotten: while its seats are out, its outbox row is
\* unprocessed or a process is past the deletion of the hold and on its way to the
\* release script, whatever is rebuilt or dead-lettered.  The exception is an order
\* with a release that ended between the two: the relay that retries finds no hold
\* and marks the row.  The script rejects a return only where the map was disturbed,
\* and an intent that could not be persisted stays in the stream until its refund.
THEOREM SeatDebtIsKept == Spec => []SeatDebtIsRecorded
<1>1. Init => DebtInv /\ DoomedWait
  BY DEF Init, DebtInv, DoomedWait, Releasers
<1>2. SeatInv /\ DebtInv /\ [Next]_vars => DebtInv'
  BY DebtStep
<1>3. SeatInv /\ DoomedWait /\ [Next]_vars => DoomedWait'
  BY DoomedStep
<1>4. SeatInv /\ (Disturbed \/ Map!SeatsApart) /\ DebtInv /\ DoomedWait => SeatDebtIsRecorded
  <2> SUFFICES ASSUME SeatInv, Disturbed \/ Map!SeatsApart, DebtInv, DoomedWait
               PROVE  SeatDebtIsRecorded
    OBVIOUS
  <2>1. \A k \in Keys \ torn : status[k] = "expired" => OnRecord(k)
    BY DEF DebtInv, OnRecord
  <2>2. ASSUME NEW k \in Keys \ orderMarker, Returning(k)
        PROVE  Disturbed \/ ~Overlaps(seat[k], seat[k] + Qty[k])
    <3>1. status[k] = "expired"
      BY <2>2 DEF Returning, SeatInv, ReleaseInOrder
    <3> QED
      BY <3>1, ReturnIsAccepted
  <2> QED
    BY <2>1, <2>2 DEF DoomedWait, SeatDebtIsRecorded
<1> QED
  BY <1>1, <1>2, <1>3, <1>4, SeatIsInvariant, SeatsStayApart, PTL DEF Spec

-----------------------------------------------------------------------------
(* Induction over the natural numbers, for sets and for sums.              *)

\* Induction for a set of natural numbers.
LEMMA SetInduction ==
  ASSUME NEW S \in SUBSET Nat, 0 \in S, \A n \in S : n + 1 \in S
  PROVE  S = Nat
<1> SUFFICES ASSUME Nat \ S # {} PROVE FALSE
  OBVIOUS
<1>1. PICK m \in Nat \ S : \A y \in Nat \ S : m <= y
  BY LeastElement
<1>2. m - 1 \in Nat /\ m - 1 \in S
  BY <1>1
<1> QED
  BY <1>1, <1>2

\* The partial sums of a sequence of numbers exist, and only one sequence is
\* them.
PartialSums(g, w) == w[0] = 0 /\ \A n \in Nat : w[n + 1] = w[n] + g[n]

LEMMA SumsExist ==
  ASSUME NEW g \in [Nat -> Int]
  PROVE  \E w \in [Nat -> Int] : PartialSums(g, w)
<1> DEFINE Upto(n, f) == f[0] = 0 /\ \A m \in 0 .. n - 1 : f[m + 1] = f[m] + g[m]
           S == {n \in Nat : \E f \in [Nat -> Int] : Upto(n, f)}
<1>1. 0 \in S
  <2>1. [n \in Nat |-> 0] \in [Nat -> Int] /\ Upto(0, [n \in Nat |-> 0])
    OBVIOUS
  <2> QED BY <2>1
<1>2. ASSUME NEW n \in S PROVE n + 1 \in S
  <2>1. PICK f \in [Nat -> Int] : Upto(n, f)
    BY <1>2
  <2> DEFINE h == [f EXCEPT ![n + 1] = f[n] + g[n]]
  <2>2. h \in [Nat -> Int]
    OBVIOUS
  <2>3. Upto(n + 1, h)
    BY <2>1
  <2>4. n + 1 \in Nat
    OBVIOUS
  <2> HIDE DEF h, Upto
  <2> QED BY <2>2, <2>3, <2>4
<1>3. S = Nat
  <2> HIDE DEF S
  <2>1. S \in SUBSET Nat BY DEF S
  <2> QED BY <2>1, <1>1, <1>2, SetInduction
<1>4. ASSUME NEW n \in Nat, NEW f \in [Nat -> Int], NEW h \in [Nat -> Int],
             Upto(n, f), Upto(n, h)
      PROVE  \A m \in 0 .. n : f[m] = h[m]
  <2> DEFINE E == {m \in Nat : m <= n => f[m] = h[m]}
  <2>1. 0 \in E BY <1>4
  <2>2. ASSUME NEW m \in E PROVE m + 1 \in E
    BY <1>4, <2>2
  <2>3. E = Nat
    <3> HIDE DEF E
    <3>1. E \in SUBSET Nat BY DEF E
    <3> QED BY <3>1, <2>1, <2>2, SetInduction
  <2> QED BY <2>3
<1> DEFINE F(n) == CHOOSE f \in [Nat -> Int] : Upto(n, f)
<1>5. \A n \in Nat : F(n) \in [Nat -> Int] /\ Upto(n, F(n))
  BY <1>3
<1> DEFINE w == [n \in Nat |-> F(n)[n]]
<1> HIDE DEF F
<1>6. w \in [Nat -> Int]
  BY <1>5
<1>7. w[0] = 0
  BY <1>5
<1>8. ASSUME NEW n \in Nat PROVE w[n + 1] = w[n] + g[n]
  <2>1. Upto(n, F(n + 1)) /\ F(n + 1)[n + 1] = F(n + 1)[n] + g[n]
    BY <1>5
  <2>2. F(n + 1)[n] = F(n)[n]
    <3>1. n + 1 \in Nat /\ n \in 0 .. n
      OBVIOUS
    <3> HIDE DEF Upto
    <3> QED BY <2>1, <3>1, <1>4, <1>5
  <2> QED BY <2>1, <2>2
<1> QED
  BY <1>6, <1>7, <1>8 DEF PartialSums

-----------------------------------------------------------------------------
(* The quality of seats and windows.                                       *)

LEMMA GeometryFacts ==
  ASSUME NEW b \in Blocks
  PROVE  /\ Geometry[b].capacity \in Nat \ {0}
         /\ Geometry[b].base \in 0 .. Unit /\ Unit \in Nat
         /\ span(b) \in Nat /\ 2 * span(b) <= Geometry[b].capacity - 1
         /\ Geometry[b].capacity - 1 <= 2 * span(b) + 1
         /\ decay(b) \in Nat /\ decay(b) * span(b) <= Geometry[b].base
<1> DEFINE g == Geometry[b]
<1>1. /\ g.capacity \in Nat \ {0} /\ g.base \in 0 .. Unit /\ g.edge \in 0 .. g.base
      /\ Unit \in Nat
      /\ span(b) > 0 => (g.base - g.edge) % span(b) = 0
  BY GeometryAssumption, UnitAssumption
<1> HIDE DEF g
<1>2. span(b) \in Nat /\ 2 * span(b) <= g.capacity - 1 /\ g.capacity - 1 <= 2 * span(b) + 1
  <2>1. \A e \in Nat : (e \div 2) \in Nat /\ 2 * (e \div 2) <= e /\ e <= 2 * (e \div 2) + 1
    OBVIOUS
  <2>2. g.capacity - 1 \in Nat
    BY <1>1
  <2>3. span(b) = (g.capacity - 1) \div 2
    BY DEF span, g
  <2> QED BY <2>1, <2>2, <2>3
<1>3. decay(b) \in Nat /\ decay(b) * span(b) <= g.base
  <2>1. CASE span(b) = 0
    BY <1>1, <2>1 DEF decay
  <2>2. CASE span(b) > 0
    <3> DEFINE d == g.base - g.edge
               n == span(b)
    <3>1. d \in Nat /\ n \in Nat /\ n > 0 /\ d <= g.base /\ g.base \in Nat
      BY <1>1, <1>2, <2>2
    <3>2. decay(b) = d \div n
      BY <2>2, <1>2 DEF decay, g
    <3> HIDE DEF d, n
    <3>3. (d \div n) \in Nat /\ d = n * (d \div n) + (d % n) /\ (d % n) \in Nat
      BY <3>1
    <3>4. (d \div n) * n = n * (d \div n) /\ n * (d \div n) \in Int
      BY <3>1, <3>3
    <3> DEFINE x == n * (d \div n)
    <3>5. x <= g.base
      <4>1. x \in Int /\ d = x + (d % n) BY <3>3, <3>4
      <4> HIDE DEF x
      <4> QED BY <3>1, <3>3, <4>1
    <3>6. decay(b) * span(b) = x
      BY <3>2, <3>4 DEF n
    <3> HIDE DEF x
    <3> QED BY <3>2, <3>3, <3>5, <3>6
  <2> QED BY <2>1, <2>2, <1>2
<1> QED
  BY <1>1, <1>2, <1>3 DEF g

\* Every seat has a quality within the bounds of ck_seat_blocks_quality_range,
\* and one that is nearer to the centre has a better one.
LEMMA QualityFacts ==
  ASSUME NEW b \in Blocks
  PROVE  /\ \A p \in Int : seat_quality(b, p) \in Int
         /\ \A p \in 0 .. Geometry[b].capacity - 1 : seat_quality(b, p) \in 0 .. Unit
         /\ \A p, r \in Int :
              Distance(2 * p, Geometry[b].capacity - 1) <= Distance(2 * r, Geometry[b].capacity - 1)
                => seat_quality(b, p) >= seat_quality(b, r)
<1> DEFINE c == Geometry[b].capacity - 1
           m == c % 2
<1>1. c \in Nat /\ m \in {0, 1}
  <2>1. c \in Nat BY GeometryFacts
  <2> HIDE DEF c
  <2> QED BY <2>1
<1>2. \A p \in Int : steps(b, p) = (Distance(2 * p, c) - m) \div 2
  BY DEF steps
<1> USE GeometryFacts
<1> HIDE DEF c, m
<1>3. \A p \in Int : Distance(2 * p, c) \in Nat
  BY <1>1 DEF Distance
<1>4. \A p \in Int : steps(b, p) \in Int
  BY <1>1, <1>2, <1>3
<1>5. \A p, r \in Int : Distance(2 * p, c) <= Distance(2 * r, c) => steps(b, p) <= steps(b, r)
  BY <1>1, <1>2, <1>3
<1>6. \A p \in 0 .. c : Distance(2 * p, c) <= c /\ (m = 1 => Distance(2 * p, c) >= 1)
  BY <1>1 DEF Distance, m
<1>7. \A p \in 0 .. c : steps(b, p) \in 0 .. span(b)
  <2> TAKE p \in 0 .. c
  <2>1. steps(b, p) = (Distance(2 * p, c) - m) \div 2 /\ Distance(2 * p, c) \in Nat
    BY <1>1, <1>2, <1>3
  <2>2. span(b) = c \div 2
    BY DEF span, c
  <2> QED BY <2>1, <2>2, <1>1, <1>6 DEF m
<1>8. \A i, j \in Int : i <= j => decay(b) * i <= decay(b) * j
  <2> DEFINE d == decay(b)
  <2>1. d \in Nat OBVIOUS
  <2> HIDE DEF d
  <2>2. \A i, j \in Int : i <= j => d * i <= d * j
    BY <2>1
  <2> QED BY <2>2 DEF d
<1>9. \A i \in Int : decay(b) * i \in Int
  OBVIOUS
<1>10. \A p \in Int : seat_quality(b, p) = Geometry[b].base - decay(b) * steps(b, p)
  BY DEF seat_quality
<1>11. \A p \in 0 .. c : seat_quality(b, p) \in 0 .. Unit
  <2> TAKE p \in 0 .. c
  <2>1. decay(b) * 0 <= decay(b) * steps(b, p) /\ decay(b) * steps(b, p) <= decay(b) * span(b)
    BY <1>1, <1>7, <1>8
  <2>2. decay(b) * 0 = 0 /\ decay(b) * steps(b, p) \in Int
    BY <1>1, <1>4
  <2> QED BY <2>1, <2>2, <1>10, <1>1
<1>12. \A p \in Int : seat_quality(b, p) \in Int
  BY <1>4, <1>9, <1>10
<1>13. ASSUME NEW p \in Int, NEW r \in Int, Distance(2 * p, c) <= Distance(2 * r, c)
       PROVE  seat_quality(b, p) >= seat_quality(b, r)
  <2>1. decay(b) * steps(b, p) <= decay(b) * steps(b, r)
    BY <1>13, <1>4, <1>5, <1>8
  <2>2. decay(b) * steps(b, p) \in Int /\ decay(b) * steps(b, r) \in Int
    BY <1>4, <1>9
  <2> QED BY <2>1, <2>2, <1>10
<1> QED
  BY <1>11, <1>12, <1>13 DEF c

\* A window is worth the sum of its seats.
LEMMA WindowFacts ==
  ASSUME NEW b \in Blocks, NEW s \in Int
  PROVE  /\ window_quality(b, s, 0) = 0
         /\ \A n \in Nat : /\ window_quality(b, s, n) \in Int
                           /\ window_quality(b, s, n + 1)
                                = window_quality(b, s, n) + seat_quality(b, s + n)
<1> DEFINE g == [n \in Nat |-> seat_quality(b, s + n)]
           Total(t) == t = [n \in Nat |-> IF n = 0 THEN 0 ELSE t[n - 1] + seat_quality(b, s + n - 1)]
           total == CHOOSE t : Total(t)
<1>1. g \in [Nat -> Int]
  BY QualityFacts
<1>2. PICK w \in [Nat -> Int] : PartialSums(g, w)
  <2> HIDE DEF g
  <2> QED BY <1>1, SumsExist
<1>3. Total(w)
  <2>1. \A n \in Nat : w[n] = IF n = 0 THEN 0 ELSE w[n - 1] + seat_quality(b, s + n - 1)
    <3> TAKE n \in Nat
    <3>1. CASE n = 0
      BY <3>1, <1>2 DEF PartialSums
    <3>2. CASE n # 0
      <4>1. n - 1 \in Nat /\ (n - 1) + 1 = n /\ s + (n - 1) = s + n - 1
        BY <3>2
      <4>2. w[n] = w[n - 1] + g[n - 1]
        BY <4>1, <1>2 DEF PartialSums
      <4> QED BY <3>2, <4>1, <4>2
    <3> QED BY <3>1, <3>2
  <2> QED BY <2>1
<1>4. Total(total)
  <2> HIDE DEF Total
  <2> QED BY <1>3
<1>5. \A n \in Nat : window_quality(b, s, n) = total[n]
  BY DEF window_quality
<1> HIDE DEF total
<1>6. total[0] = 0
  BY <1>4
<1>7. \A n \in Nat : total[n + 1] = total[n] + seat_quality(b, s + n)
  <2> TAKE n \in Nat
  <2>1. n + 1 \in Nat /\ n + 1 # 0 /\ (n + 1) - 1 = n /\ s + (n + 1) - 1 = s + n
    OBVIOUS
  <2>2. total[n + 1] = total[(n + 1) - 1] + seat_quality(b, s + (n + 1) - 1)
    BY <1>4, <2>1
  <2> QED BY <2>1, <2>2
<1>8. \A n \in Nat : total[n] \in Int
  <2> DEFINE S == {n \in Nat : total[n] \in Int}
  <2>1. 0 \in S /\ \A n \in S : n + 1 \in S
    <3>1. \A n \in Nat : seat_quality(b, s + n) \in Int
      <4>1. \A n \in Nat : s + n \in Int OBVIOUS
      <4> QED BY <4>1, QualityFacts
    <3>2. 0 \in S BY <1>6
    <3>3. ASSUME NEW n \in S PROVE n + 1 \in S
      <4>1. n \in Nat /\ n + 1 \in Nat /\ total[n] \in Int OBVIOUS
      <4>2. total[n + 1] \in Int BY <4>1, <1>7, <3>1
      <4> QED BY <4>1, <4>2
    <3> QED BY <3>2, <3>3
  <2>2. S = Nat
    <3> HIDE DEF S
    <3>1. S \in SUBSET Nat BY DEF S
    <3> QED BY <3>1, <2>1, SetInduction
  <2> QED BY <2>2
<1> QED
  BY <1>5, <1>6, <1>7, <1>8

-----------------------------------------------------------------------------
(* The placement in one run, and between two.                              *)

\* A run within its block.
IsRun(run) ==
  /\ run \in [block : Blocks, start : Nat, length : Nat \ {0}]
  /\ run.start + run.length <= Geometry[run.block].capacity

\* All runs of the zone.
RunsOf(b) == UNION {{Run(b, s, e - s) : s \in 0 .. e - 1} : e \in 1 .. Geometry[b].capacity}
AllRuns == UNION {RunsOf(b) : b \in Blocks}

LEMMA AllRunsFacts == \A run : IsRun(run) <=> run \in AllRuns
<1> TAKE run
<1>1. ASSUME IsRun(run) PROVE run \in AllRuns
  <2> DEFINE b == run.block
             s == run.start
             e == run.start + run.length
  <2>1. b \in Blocks /\ s \in Nat /\ run.length \in Nat \ {0} /\ e \in 1 .. Geometry[b].capacity
    BY <1>1, GeometryFacts DEF IsRun
  <2>2. s \in 0 .. e - 1 /\ e - s = run.length
    BY <2>1
  <2>3. run = Run(b, s, e - s)
    BY <1>1, <2>2 DEF IsRun, Run
  <2> QED BY <2>1, <2>2, <2>3 DEF AllRuns, RunsOf
<1>2. ASSUME run \in AllRuns PROVE IsRun(run)
  <2>b. PICK b \in Blocks : run \in RunsOf(b)
    BY <1>2 DEF AllRuns
  <2>e. PICK e \in 1 .. Geometry[b].capacity : run \in {Run(b, s, e - s) : s \in 0 .. e - 1}
    BY <2>b DEF RunsOf
  <2>1. PICK s \in 0 .. e - 1 : run = Run(b, s, e - s)
    BY <2>e
  <2>2. Geometry[b].capacity \in Nat
    BY GeometryFacts
  <2>3. run.block = b /\ run.start = s /\ run.length = e - s
    BY <2>1 DEF Run
  <2> QED BY <2>1, <2>2, <2>3 DEF IsRun, Run
<1> QED
  BY <1>1, <1>2

LEMMA PotentialFacts ==
  /\ \A i \in Int : phi(i) \in Int /\ i * Unit \in Int
  /\ \A i, j \in Int : (i + j) * Unit = i * Unit + j * Unit
  /\ \A i \in Int : i # 1 => phi(i) = i * Unit
  /\ phi(1) = OrphanValue /\ 1 * Unit = Unit /\ 0 * Unit = 0
  /\ \E h \in Nat \ {0} : Unit = 20 * h /\ OrphanValue = 6 * h
<1>0. Unit \in Nat \ {0} /\ Unit % 20 = 0
  BY UnitAssumption
<1>1. OrphanValue \in Int
  BY <1>0 DEF OrphanValue
<1>2. \A i \in Int : i * Unit \in Int
  BY <1>0
<1>3. \A i, j \in Int : (i + j) * Unit = i * Unit + j * Unit
  BY <1>0
<1>4. \E h \in Nat \ {0} : Unit = 20 * h /\ OrphanValue = 6 * h
  <2> DEFINE h == Unit \div 20
  <2>1. h \in Nat /\ Unit = 20 * h
    BY <1>0
  <2>2. h # 0
    BY <1>0, <2>1
  <2>3. (3 * (20 * h)) \div 10 = 6 * h
    <3> HIDE DEF h
    <3> QED BY <2>1
  <2> QED BY <2>1, <2>2, <2>3 DEF OrphanValue
<1> QED
  BY <1>0, <1>1, <1>2, <1>3, <1>4 DEF phi

\* A cut that leaves no single seat costs nothing.
LEMMA CleanCut ==
  ASSUME NEW l \in Nat \ {1}, NEW r \in Nat \ {1}, NEW t \in Nat, l + r + t # 1
  PROVE  cut_cost(l + r + t, l, r, t) = 0
<1>1. /\ phi(l + r + t) = (l + r + t) * Unit /\ phi(l) = l * Unit /\ phi(r) = r * Unit
  BY PotentialFacts
<1>2. (l + r + t) * Unit = (l + r) * Unit + t * Unit /\ (l + r) * Unit = l * Unit + r * Unit
  BY PotentialFacts
<1>3. l * Unit \in Int /\ r * Unit \in Int /\ t * Unit \in Int
  BY PotentialFacts
<1> DEFINE x == l * Unit
           y == r * Unit
           z == t * Unit
<1>4. cut_cost(l + r + t, l, r, t) = ((x + y) + z) - x - y - z
  BY <1>1, <1>2 DEF cut_cost
<1> HIDE DEF x, y, z
<1>5. ((x + y) + z) - x - y - z = 0
  BY <1>3 DEF x, y, z
<1> QED
  BY <1>4, <1>5

LEMMA ScoreFacts ==
  ASSUME NEW run, IsRun(run), NEW q \in 1 .. run.length, NEW o \in 0 .. run.length - q
  PROVE  /\ cut_cost(run.length, o, run.length - q - o, q) \in Int
         /\ placement_at(run, o, q).score \in Int
         /\ placement_at(run, o, q).score =
              window_quality(run.block, run.start + o, q)
                - (3 * cut_cost(run.length, o, run.length - q - o, q)) \div 2
         /\ window_quality(run.block, run.start + o, q) \in Int
<1>1. /\ run.block \in Blocks /\ run.start \in Nat /\ run.length \in Nat /\ q \in Nat
      /\ run.start + o \in Int /\ run.length - q - o \in Int /\ o \in Int
  BY DEF IsRun
<1>2. window_quality(run.block, run.start + o, q) \in Int
  BY <1>1, WindowFacts
<1> DEFINE k == cut_cost(run.length, o, run.length - q - o, q)
<1>3. k \in Int
  <2>1. phi(run.length) \in Int /\ phi(o) \in Int /\ phi(run.length - q - o) \in Int /\ q * Unit \in Int
    BY <1>1, PotentialFacts
  <2> QED BY <2>1 DEF cut_cost
<1>4. placement_at(run, o, q).score = window_quality(run.block, run.start + o, q) - (3 * k) \div 2
  BY DEF placement_at
<1> HIDE DEF k
<1>5. (3 * k) \div 2 \in Int
  BY <1>3
<1> QED
  BY <1>2, <1>3, <1>4, <1>5 DEF k

LEMMA MaxIs ==
  ASSUME NEW S \in SUBSET Int, NEW x \in S, \A y \in S : x >= y
  PROVE  Max(S) = x
<1>1. \A z \in S : (\A y \in S : z >= y) => z = x
  OBVIOUS
<1> QED
  BY <1>1 DEF Max

\* The policies of the program cut at the ends of a run only.
LEMMA SalePolicyFacts ==
  ASSUME NEW policy \in {NORMAL_POLICY, ENDGAME_POLICY}
  PROVE  /\ ~policy.allow_mid_cut /\ policy.min_run \in {1, 2}
         /\ policy = NORMAL_POLICY => policy.min_run = 2
<1>1. NORMAL_POLICY.allow_mid_cut = FALSE /\ NORMAL_POLICY.min_run = 2
  BY DEF NORMAL_POLICY
<1>2. ENDGAME_POLICY.allow_mid_cut = FALSE /\ ENDGAME_POLICY.min_run = 1
  BY DEF NORMAL_POLICY, ENDGAME_POLICY
<1> QED
  BY <1>1, <1>2

LEMMA OneSeat ==
  ASSUME NEW b \in Blocks, NEW s \in Nat, s < Geometry[b].capacity
  PROVE  window_quality(b, s, 1) \in 0 .. Unit
<1>1. window_quality(b, s, 0 + 1) = window_quality(b, s, 0) + seat_quality(b, s + 0)
  BY WindowFacts
<1>2. window_quality(b, s, 0) = 0
  BY WindowFacts
<1>3. s + 0 = s /\ 0 + 1 = 1 /\ s \in 0 .. Geometry[b].capacity - 1
  BY GeometryFacts
<1>4. seat_quality(b, s) \in 0 .. Unit /\ Unit \in Nat
  BY <1>3, QualityFacts, GeometryFacts
<1> QED
  BY <1>1, <1>2, <1>3, <1>4

\* An orphan that is sold earns more than the value of a seat.
LEMMA OrphanScore ==
  ASSUME NEW run, IsRun(run), run.length = 1
  PROVE  placement_at(run, 0, 1).score \in Int /\ placement_at(run, 0, 1).score > Unit
<1>1. PICK h \in Nat \ {0} : Unit = 20 * h /\ OrphanValue = 6 * h
  BY PotentialFacts
<1>2. run.block \in Blocks /\ run.start \in Nat /\ run.start < Geometry[run.block].capacity
  BY GeometryFacts DEF IsRun
<1> DEFINE w == window_quality(run.block, run.start, 1)
<1>3. w \in 0 .. Unit
  BY <1>2, OneSeat
<1>4. cut_cost(1, 0, 0, 1) = -14 * h
  <2>1. phi(1) = 6 * h /\ phi(0) = 0 /\ 1 * Unit = 20 * h
    BY <1>1, PotentialFacts
  <2> QED BY <2>1 DEF cut_cost
<1>5. placement_at(run, 0, 1).score = w - (3 * (-14 * h)) \div 2
  <2>1. run.start + 0 = run.start /\ 1 - 1 - 0 = 0
    BY <1>2
  <2> QED BY <2>1, <1>4 DEF placement_at
<1> HIDE DEF w
<1>6. (3 * (-14 * h)) \div 2 = -21 * h
  OBVIOUS
<1> QED
  BY <1>1, <1>3, <1>5, <1>6

\* A seat of a longer run earns no more.
LEMMA SeatScore ==
  ASSUME NEW run, IsRun(run), run.length > 1, NEW o \in {0, run.length - 1}
  PROVE  placement_at(run, o, 1).score \in Int /\ placement_at(run, o, 1).score <= Unit
<1>1. PICK h \in Nat \ {0} : Unit = 20 * h /\ OrphanValue = 6 * h
  BY PotentialFacts
<1>2. /\ run.block \in Blocks /\ run.start \in Nat /\ run.length \in Nat /\ run.length >= 2
      /\ run.start + o \in Nat /\ run.start + o < Geometry[run.block].capacity
      /\ o \in 0 .. run.length - 1 /\ 1 \in 1 .. run.length
  BY GeometryFacts DEF IsRun
<1> DEFINE w == window_quality(run.block, run.start + o, 1)
           k == cut_cost(run.length, o, run.length - 1 - o, 1)
           r == run.length - 1 - o
<1>3. w \in 0 .. Unit
  BY <1>2, OneSeat
<1>4. /\ placement_at(run, o, 1).score = w - (3 * k) \div 2 /\ k \in Int
      /\ placement_at(run, o, 1).score \in Int
  BY <1>2, ScoreFacts
<1>5. k >= 0
  <2>1. CASE run.length = 2
    <3>1. (o = 0 /\ r = 1) \/ (o = 1 /\ r = 0)
      <4>1. o = 0 \/ o = 1
        BY <1>2, <2>1
      <4>2. r = 2 - 1 - o
        BY <2>1
      <4> QED BY <4>1, <4>2
    <3>2. phi(2) = 2 * Unit /\ phi(1) = 6 * h /\ phi(0) = 0 /\ 1 * Unit = 20 * h
      BY <1>1, PotentialFacts
    <3>3. k = 40 * h - 6 * h - 20 * h
      BY <1>1, <2>1, <3>1, <3>2 DEF cut_cost
    <3> QED BY <3>3
  <2>2. CASE run.length > 2
    <3>1. o \in Nat \ {1} /\ r \in Nat \ {1} /\ o + r + 1 = run.length /\ run.length # 1
      BY <1>2, <2>2
    <3>2. k = cut_cost(run.length, o, r, 1)
      OBVIOUS
    <3> HIDE DEF r, k
    <3>3. cut_cost(o + r + 1, o, r, 1) = 0
      BY <3>1, CleanCut
    <3> QED BY <3>1, <3>2, <3>3
  <2> QED BY <1>2, <2>1, <2>2
<1> HIDE DEF w, k
<1>6. (3 * k) \div 2 >= 0 /\ (3 * k) \div 2 \in Int
  BY <1>4, <1>5
<1> QED
  BY <1>1, <1>3, <1>4, <1>6

-----------------------------------------------------------------------------
(* Free runs and sold seats tile the blocks.                               *)

\* The seat behind the last one.
Past(s) == s.start + s.length
Apart(s, t) == s.block = t.block => Past(s) <= t.start \/ Past(t) <= s.start
Covers(s, b, pos) == s.block = b /\ s.start <= pos /\ pos < s.start + s.length

Tiling(F, S) ==
  /\ \A s \in F \cup S : IsRun(s)
  /\ \A s, t \in F \cup S : s # t => Apart(s, t)
  /\ \A b \in Blocks : \A pos \in 0 .. Geometry[b].capacity - 1 : \E s \in F \cup S : Covers(s, b, pos)
  /\ F \cap S = {}
  /\ \A s, t \in F : s.block = t.block => Past(s) # t.start

\* What a call keeps between two round trips.
Turns ==
  [pc : {"read", "miss", "ratchet", "forget"}, qty : Nat \ {0}, relaxed : BOOLEAN, attempt : Nat]
Claims ==
  [pc : {"claim"}, qty : Nat \ {0}, relaxed : BOOLEAN, attempt : Nat, pick : AllRuns, host : AllRuns]
Calls == [pc : {"idle", "served"}] \cup Turns \cup Claims

ZoneTypes ==
  /\ call \in [Callers -> Calls] /\ relaxed \in BOOLEAN
  /\ misses \in Nat /\ refused \in Nat

\* A pick lies in the run that it was made from, and under the strict policy
\* it leaves no single seat of it.
Fits(r) ==
  r.pc = "claim" =>
    /\ Contains(r.host, r.pick)
    /\ ~r.relaxed => r.pick.start - r.host.start # 1 /\ Past(r.host) - Past(r.pick) # 1

PicksFit == \A c \in Callers : Fits(call[c])

\* Every refusal since the counter was removed is in it.
RefusalsCounted == refused <= misses /\ refused < Threshold

ZoneInv == ZoneTypes /\ Tiling(freeRuns, sold) /\ PicksFit /\ RefusalsCounted

LEMMA RunFacts ==
  ASSUME NEW s, IsRun(s)
  PROVE  /\ s.block \in Blocks /\ s.start \in Nat /\ s.length \in Nat \ {0}
         /\ Past(s) \in Nat /\ Past(s) > s.start /\ Past(s) = s.start + s.length
         /\ Past(s) <= Geometry[s.block].capacity /\ Geometry[s.block].capacity \in Nat
         /\ s = Run(s.block, s.start, s.length)
<1>1. s.block \in Blocks /\ s.start \in Nat /\ s.length \in Nat \ {0}
  BY DEF IsRun
<1>2. Past(s) <= Geometry[s.block].capacity /\ Geometry[s.block].capacity \in Nat
  BY <1>1, GeometryFacts DEF IsRun, Past
<1>3. s = Run(s.block, s.start, s.length)
  BY DEF IsRun, Run
<1> QED
  BY <1>1, <1>2, <1>3 DEF Past

LEMMA NewRun ==
  ASSUME NEW b \in Blocks, NEW x \in Nat, NEW n \in Nat \ {0}, x + n <= Geometry[b].capacity
  PROVE  /\ IsRun(Run(b, x, n)) /\ Past(Run(b, x, n)) = x + n
         /\ Run(b, x, n).block = b /\ Run(b, x, n).start = x /\ Run(b, x, n).length = n
  BY DEF IsRun, Run, Past

\* A run is in the free run that contains it and in no other.
LEMMA HostIsOne ==
  ASSUME NEW F, NEW S, Tiling(F, S), NEW p, p.block \in Blocks, p.start \in Nat, p.length \in Nat \ {0},
         NEW host \in F, Contains(host, p)
  PROVE  \A run \in F : Contains(run, p) => run = host
<1> SUFFICES ASSUME NEW run \in F, Contains(run, p), run # host PROVE FALSE
  OBVIOUS
<1>1. IsRun(run) /\ IsRun(host) /\ Apart(run, host)
  BY DEF Tiling
<1> QED
  BY <1>1, RunFacts DEF Contains, Apart, Past

\* A claim keeps the tiling: the free run is replaced by the seats that are sold
\* and by what is left of it on both sides.
LEMMA OccupyTiles ==
  ASSUME NEW F, NEW S, Tiling(F, S), NEW p, IsRun(p), NEW host \in F, Contains(host, p)
  PROVE  /\ Tiling(occupy(F, p), S \cup {p})
         /\ \A run \in occupy(F, p) :
              \/ run \in F
              \/ run.length = p.start - host.start
              \/ run.length = Past(host) - Past(p)
<1> DEFINE b == p.block
           nl == p.start - host.start
           nr == Past(host) - Past(p)
           L == Run(b, host.start, nl)
           R == Run(b, Past(p), nr)
           LL == IF nl > 0 THEN {L} ELSE {}
           RR == IF nr > 0 THEN {R} ELSE {}
           G == (F \ {host}) \cup LL \cup RR
           T == S \cup {p}
<1>1. IsRun(host) /\ host \notin S
  BY DEF Tiling
<1>2. /\ b \in Blocks /\ host.block = b /\ host.start \in Nat /\ p.start \in Nat
      /\ Past(host) \in Nat /\ Past(p) \in Nat /\ p.start < Past(p)
      /\ host.start <= p.start /\ Past(p) <= Past(host) /\ Past(host) <= Geometry[b].capacity
      /\ Geometry[b].capacity \in Nat
      /\ Past(p) = p.start + p.length /\ Past(host) = host.start + host.length
      /\ p.length \in Nat \ {0} /\ host.length \in Nat
  BY <1>1, RunFacts DEF Contains, Past
<1>3. occupy(F, p) = G
  <2>1. (CHOOSE run \in F : Contains(run, p)) = host
    BY <1>2, HostIsOne
  <2>2. /\ nl = p.start - host.start
        /\ nr = host.start + host.length - p.start - p.length
        /\ Past(p) = p.start + p.length
    BY <1>2
  <2> QED BY <2>1, <2>2 DEF occupy
<1>4. /\ nl > 0 => IsRun(L) /\ Past(L) = p.start
      /\ L.block = b /\ L.start = host.start /\ L.length = nl
  <2>1. nl \in Nat /\ host.start + nl = p.start /\ p.start <= Geometry[b].capacity
    BY <1>2
  <2>2. L.block = b /\ L.start = host.start /\ L.length = nl
    BY DEF Run
  <2>3. nl > 0 => IsRun(L) /\ Past(L) = host.start + nl
    <3> HIDE DEF nl, b
    <3> QED BY <1>2, <2>1, NewRun
  <2> QED BY <2>1, <2>2, <2>3
<1>5. /\ nr > 0 => IsRun(R) /\ Past(R) = Past(host)
      /\ R.block = b /\ R.start = Past(p) /\ R.length = nr
  <2>1. nr \in Nat /\ Past(p) + nr = Past(host)
    BY <1>2
  <2>2. R.block = b /\ R.start = Past(p) /\ R.length = nr
    BY DEF Run
  <2>3. nr > 0 => IsRun(R) /\ Past(R) = Past(p) + nr
    <3> HIDE DEF nr, b
    <3> QED BY <1>2, <2>1, NewRun
  <2> QED BY <2>1, <2>2, <2>3
<1> HIDE DEF L, R
<1> DEFINE Old == (F \cup S) \ {host}
           Piece(s) == s = p \/ (nl > 0 /\ s = L) \/ (nr > 0 /\ s = R)
<1>7. \A s : Piece(s) => /\ IsRun(s) /\ s.block = b /\ host.start <= s.start /\ Past(s) <= Past(host)
                         /\ s.start \in Nat /\ Past(s) \in Nat /\ s.start < Past(s)
  BY <1>2, <1>4, <1>5, RunFacts
<1>8. \A t \in Old : /\ IsRun(t) /\ t.start \in Nat /\ Past(t) \in Nat /\ t.start < Past(t)
                     /\ t.block = b => Past(t) <= host.start \/ Past(host) <= t.start
  <2> TAKE t \in Old
  <2>1. IsRun(t) /\ Apart(t, host)
    BY DEF Tiling
  <2> QED BY <1>2, <2>1, RunFacts DEF Apart
<1>9. \A s, t : Piece(s) /\ t \in Old =>
        s # t /\ (t.block = s.block => Past(t) <= s.start \/ Past(s) <= t.start)
  <2> SUFFICES ASSUME NEW s, NEW t, Piece(s), t \in Old
               PROVE  s # t /\ (t.block = s.block => Past(t) <= s.start \/ Past(s) <= t.start)
    OBVIOUS
  <2> HIDE DEF Piece, Old
  <2> QED BY <1>2, <1>7, <1>8
<1>10. \A s, t : Piece(s) /\ Piece(t) /\ s # t => Past(t) <= s.start \/ Past(s) <= t.start
  BY <1>2, <1>4, <1>5
<1>11. \A s \in G \cup T : s \in Old \/ Piece(s)
  <2>1. \A s \in S : s \in Old
    BY <1>1
  <2>2. \A s \in LL \cup RR : Piece(s)
    OBVIOUS
  <2> HIDE DEF LL, RR
  <2> QED BY <2>1, <2>2
<1>12. \A s \in G \cup T : IsRun(s)
  <2> HIDE DEF Old, Piece, G, T
  <2> QED BY <1>7, <1>8, <1>11
<1>13. \A s, t \in G \cup T : s # t => Apart(s, t)
  <2> TAKE s, t \in G \cup T
  <2> HAVE s # t
  <2>1. CASE s \in Old /\ t \in Old
    BY <2>1 DEF Tiling
  <2>2. CASE Piece(s) \/ Piece(t)
    <3> HIDE DEF Old, Piece, G, T
    <3> QED BY <2>2, <1>9, <1>10, <1>11 DEF Apart
  <2> HIDE DEF Old, Piece, G, T
  <2> QED BY <1>11, <2>1, <2>2
<1>14. ASSUME NEW c \in Blocks, NEW pos \in 0 .. Geometry[c].capacity - 1
       PROVE  \E s \in G \cup T : Covers(s, c, pos)
  <2>1. PICK s \in F \cup S : Covers(s, c, pos)
    BY DEF Tiling
  <2>2. CASE s # host
    BY <2>1, <2>2
  <2>3. CASE s = host
    <3>0. c = b /\ host.start <= pos /\ pos < Past(host) /\ pos \in Nat
      BY <1>2, <2>1, <2>3, GeometryFacts DEF Covers
    <3>1. CASE pos < p.start
      <4>1. nl > 0 /\ L \in G /\ L.start + L.length = p.start
        BY <1>2, <1>4, <3>0, <3>1
      <4> QED BY <3>0, <3>1, <4>1, <1>4 DEF Covers
    <3>2. CASE p.start <= pos /\ pos < Past(p)
      BY <1>2, <3>0, <3>2 DEF Covers
    <3>3. CASE Past(p) <= pos
      <4>1. nr > 0 /\ R \in G /\ R.start + R.length = Past(host)
        BY <1>2, <1>5, <3>0, <3>3
      <4> QED BY <3>0, <3>3, <4>1, <1>5 DEF Covers
    <3> QED BY <1>2, <3>0, <3>1, <3>2, <3>3
  <2> QED BY <2>2, <2>3
<1>15. G \cap T = {}
  <2>1. \A s \in F \ {host} : s \in Old /\ s \notin S
    BY DEF Tiling
  <2>2. \A s \in S : s \in Old
    BY <1>1
  <2>3. nl > 0 => Piece(L) /\ L # p
    BY <1>2, <1>4
  <2>4. nr > 0 => Piece(R) /\ R # p
    BY <1>2, <1>5
  <2>5. Piece(p)
    OBVIOUS
  <2> HIDE DEF Old, Piece
  <2> QED BY <2>1, <2>2, <2>3, <2>4, <2>5, <1>9
<1>16. \A s, t \in G : s.block = t.block => Past(s) # t.start
  <2> TAKE s, t \in G
  <2> HAVE s.block = t.block
  <2>0. \A u \in F : u.block = b => Past(u) # host.start /\ Past(host) # u.start
    BY <1>2 DEF Tiling
  <2>1. CASE s \in F /\ t \in F
    BY <2>1 DEF Tiling
  <2>2. ASSUME NEW u \in F \ {host}, u.block = b
        PROVE  /\ nl > 0 => Past(u) # L.start /\ Past(L) # u.start
               /\ nr > 0 => Past(u) # R.start /\ Past(R) # u.start
    <3>1. u \in Old
      OBVIOUS
    <3>2. /\ u.start \in Nat /\ Past(u) \in Nat /\ u.start < Past(u)
          /\ Past(u) <= host.start \/ Past(host) <= u.start
          /\ Past(u) # host.start /\ Past(host) # u.start
      <4> HIDE DEF Old
      <4> QED BY <2>0, <2>2, <3>1, <1>8
    <3> QED BY <3>2, <1>2, <1>4, <1>5
  <2>3. /\ nl > 0 => Past(L) # L.start
        /\ nr > 0 => Past(R) # R.start
        /\ nl > 0 /\ nr > 0 => Past(L) # R.start /\ Past(R) # L.start
    BY <1>2, <1>4, <1>5
  <2>4. \A u \in G : u \in F \ {host} \/ (nl > 0 /\ u = L) \/ (nr > 0 /\ u = R)
    OBVIOUS
  <2> HIDE DEF G, nl, nr
  <2> QED BY <2>1, <2>2, <2>3, <2>4, <1>4, <1>5
<1>17. Tiling(G, T)
  <2> HIDE DEF G, T
  <2> QED BY <1>12, <1>13, <1>14, <1>15, <1>16 DEF Tiling
<1>18. \A run \in G : run \in F \/ run.length = nl \/ run.length = nr
  BY <1>4, <1>5
<1> QED
  BY <1>3, <1>17, <1>18

LEMMA MinIs ==
  ASSUME NEW S \in SUBSET Int, NEW x \in S, \A y \in S : x <= y
  PROVE  Min(S) = x
<1>1. \A z \in S : (\A y \in S : z <= y) => z = x
  OBVIOUS
<1> QED
  BY <1>1 DEF Min

\* A release absorbs the run that ends where the seats begin and the one that
\* begins where they end, each if there is one, and nothing else.
LEMMA ReleaseMerges ==
  ASSUME NEW F, NEW S, Tiling(F, S), NEW s \in S
  PROVE  \E lo, hi \in Nat :
           LET touches == {run \in F : run.block = s.block /\ Past(run) >= s.start /\ run.start <= Past(s)}
           IN /\ release(F, s.block, s.start, s.length)
                   = (F \ touches) \cup {Run(s.block, lo, hi - lo)}
              /\ \A t \in touches : \/ Past(t) = s.start /\ t.start = lo
                                    \/ t.start = Past(s) /\ Past(t) = hi
              /\ lo = s.start \/ \E t \in touches : Past(t) = s.start /\ t.start = lo
              /\ hi = Past(s) \/ \E t \in touches : t.start = Past(s) /\ Past(t) = hi
<1> DEFINE touches == {run \in F : run.block = s.block /\ Past(run) >= s.start /\ run.start <= Past(s)}
           Lows == {s.start} \cup {run.start : run \in touches}
           Highs == {Past(s)} \cup {Past(run) : run \in touches}
<1>1. s.start \in Nat /\ Past(s) \in Nat /\ s.start < Past(s) /\ IsRun(s) /\ s \notin F
  BY RunFacts DEF Tiling
<1>2. \A t \in touches : /\ t.start \in Nat /\ Past(t) \in Nat /\ t.start < Past(t)
                         /\ t.block = s.block
                         /\ Past(t) = s.start \/ t.start = Past(s)
  <2> TAKE t \in touches
  <2>1. IsRun(t) /\ Apart(t, s)
    BY <1>1 DEF Tiling
  <2> QED BY <1>1, <2>1, RunFacts DEF Apart
<1>3. \A t, u \in touches : t # u => Past(t) <= u.start \/ Past(u) <= t.start
  BY <1>2 DEF Tiling, Apart
<1>4. release(F, s.block, s.start, s.length)
        = (F \ touches) \cup {Run(s.block, Min(Lows), Max(Highs) - Min(Lows))}
  BY DEF release, Past
<1> HIDE DEF touches
<1>5. Lows \in SUBSET Int /\ Highs \in SUBSET Int
  BY <1>1, <1>2
<1>6. \E lo \in Nat : /\ Min(Lows) = lo
                      /\ \A t \in touches : Past(t) = s.start => t.start = lo
                      /\ lo = s.start \/ \E t \in touches : Past(t) = s.start /\ t.start = lo
  <2>1. CASE \E t \in touches : Past(t) = s.start
    <3>1. PICK t \in touches : Past(t) = s.start
      BY <2>1
    <3>2. \A u \in touches : Past(u) = s.start => u = t
      BY <1>2, <1>3, <3>1
    <3>3. t.start \in Lows /\ \A y \in Lows : t.start <= y
      BY <1>1, <1>2, <3>1, <3>2
    <3>4. Min(Lows) = t.start
      <4> HIDE DEF Lows
      <4> QED BY <1>5, <3>3, MinIs
    <3> QED BY <1>2, <3>1, <3>2, <3>4
  <2>2. CASE ~ \E t \in touches : Past(t) = s.start
    <3>1. s.start \in Lows /\ \A y \in Lows : s.start <= y
      BY <1>1, <1>2, <2>2
    <3>2. Min(Lows) = s.start
      <4> HIDE DEF Lows
      <4> QED BY <1>5, <3>1, MinIs
    <3> QED BY <1>1, <2>2, <3>2
  <2> QED BY <2>1, <2>2
<1>7. \E hi \in Nat : /\ Max(Highs) = hi
                      /\ \A t \in touches : t.start = Past(s) => Past(t) = hi
                      /\ hi = Past(s) \/ \E t \in touches : t.start = Past(s) /\ Past(t) = hi
  <2>1. CASE \E t \in touches : t.start = Past(s)
    <3>1. PICK t \in touches : t.start = Past(s)
      BY <2>1
    <3>2. \A u \in touches : u.start = Past(s) => u = t
      BY <1>2, <1>3, <3>1
    <3>3. Past(t) \in Highs /\ \A y \in Highs : Past(t) >= y
      BY <1>1, <1>2, <3>1, <3>2
    <3>4. Max(Highs) = Past(t)
      <4> HIDE DEF Highs
      <4> QED BY <1>5, <3>3, MaxIs
    <3> QED BY <1>2, <3>1, <3>2, <3>4
  <2>2. CASE ~ \E t \in touches : t.start = Past(s)
    <3>1. Past(s) \in Highs /\ \A y \in Highs : Past(s) >= y
      BY <1>1, <1>2, <2>2
    <3>2. Max(Highs) = Past(s)
      <4> HIDE DEF Highs
      <4> QED BY <1>5, <3>1, MaxIs
    <3> QED BY <1>1, <2>2, <3>2
  <2> QED BY <2>1, <2>2
<1> HIDE DEF Lows, Highs
<1>8. PICK lo \in Nat : /\ Min(Lows) = lo
                        /\ \A t \in touches : Past(t) = s.start => t.start = lo
                        /\ lo = s.start \/ \E t \in touches : Past(t) = s.start /\ t.start = lo
  BY <1>6
<1>9. PICK hi \in Nat : /\ Max(Highs) = hi
                        /\ \A t \in touches : t.start = Past(s) => Past(t) = hi
                        /\ hi = Past(s) \/ \E t \in touches : t.start = Past(s) /\ Past(t) = hi
  BY <1>7
<1>10. /\ release(F, s.block, s.start, s.length) = (F \ touches) \cup {Run(s.block, lo, hi - lo)}
       /\ \A t \in touches : \/ Past(t) = s.start /\ t.start = lo
                             \/ t.start = Past(s) /\ Past(t) = hi
  BY <1>2, <1>4, <1>8, <1>9
<1> QED
  BY <1>8, <1>9, <1>10 DEF touches

\* A release keeps the tiling.
LEMMA ReleaseTiles ==
  ASSUME NEW F, NEW S, Tiling(F, S), NEW s \in S
  PROVE  Tiling(release(F, s.block, s.start, s.length), S \ {s})
<1> DEFINE b == s.block
           touches == {run \in F : run.block = b /\ Past(run) >= s.start /\ run.start <= Past(s)}
<1>1. PICK lo \in Nat, hi \in Nat :
           /\ release(F, s.block, s.start, s.length) = (F \ touches) \cup {Run(b, lo, hi - lo)}
           /\ \A t \in touches : \/ Past(t) = s.start /\ t.start = lo
                                 \/ t.start = Past(s) /\ Past(t) = hi
           /\ lo = s.start \/ \E t \in touches : Past(t) = s.start /\ t.start = lo
           /\ hi = Past(s) \/ \E t \in touches : t.start = Past(s) /\ Past(t) = hi
  BY ReleaseMerges
<1> DEFINE N == Run(b, lo, hi - lo)
           G == (F \ touches) \cup {N}
           T == S \ {s}
           Old == (F \ touches) \cup T
<1>2. /\ s.start \in Nat /\ Past(s) \in Nat /\ s.start < Past(s) /\ IsRun(s) /\ s \notin F
      /\ b \in Blocks /\ Past(s) <= Geometry[b].capacity /\ Geometry[b].capacity \in Nat
      /\ Past(s) = s.start + s.length
  BY RunFacts DEF Tiling
<1>3. \A t \in touches : /\ t.start \in Nat /\ Past(t) \in Nat /\ t.start < Past(t)
                         /\ t.block = b /\ Past(t) <= Geometry[b].capacity
                         /\ Past(t) = t.start + t.length
  BY RunFacts DEF Tiling
<1>4. lo <= s.start /\ Past(s) <= hi /\ hi <= Geometry[b].capacity
  <2> HIDE DEF touches, b
  <2> QED BY <1>1, <1>2, <1>3
<1>5. IsRun(N) /\ N.block = b /\ N.start = lo /\ Past(N) = hi /\ N.length = hi - lo
  <2>1. hi - lo \in Nat \ {0} /\ lo + (hi - lo) = hi
    BY <1>2, <1>4
  <2> DEFINE n == hi - lo
  <2> HIDE DEF n, b
  <2> QED BY <1>2, <1>4, <2>1, NewRun DEF n
<1>6. \A t \in Old : /\ IsRun(t) /\ t.start \in Nat /\ Past(t) \in Nat /\ t.start < Past(t)
                     /\ t \in F \cup S /\ t \notin touches /\ t # s
  BY <1>2, RunFacts DEF Tiling
<1> HIDE DEF N
<1>7. \A t \in Old : t.block = b => Past(t) <= lo \/ hi <= t.start
  <2> TAKE t \in Old
  <2> HAVE t.block = b
  <2>1. Past(t) <= s.start \/ Past(s) <= t.start
    BY <1>2, <1>6 DEF Tiling, Apart
  <2>2. \A u \in touches : Past(t) <= u.start \/ Past(u) <= t.start
    BY <1>6 DEF Tiling, Apart
  <2>3. t.start \in Nat /\ Past(t) \in Nat /\ t.start < Past(t)
    BY <1>6
  <2> HIDE DEF touches, b, Old
  <2> QED BY <1>1, <1>2, <1>3, <1>4, <2>1, <2>2, <2>3
<1>8. \A t \in Old : t # N
  <2> HIDE DEF Old, touches, b
  <2> QED BY <1>2, <1>4, <1>5, <1>6, <1>7
<1>9. G \cup T = Old \cup {N}
  OBVIOUS
<1>10. \A t \in G \cup T : IsRun(t)
  BY <1>5, <1>6, <1>9
<1>11. \A t, u \in G \cup T : t # u => Apart(t, u)
  <2> TAKE t, u \in G \cup T
  <2> HAVE t # u
  <2>1. CASE t \in Old /\ u \in Old
    BY <1>6, <2>1 DEF Tiling
  <2>2. CASE t = N /\ u \in Old
    BY <1>5, <1>7, <2>2 DEF Apart
  <2>3. CASE u = N /\ t \in Old
    BY <1>5, <1>7, <2>3 DEF Apart
  <2> HIDE DEF G, T, Old
  <2> QED BY <1>9, <2>1, <2>2, <2>3
<1>12. ASSUME NEW c \in Blocks, NEW pos \in 0 .. Geometry[c].capacity - 1
       PROVE  \E u \in G \cup T : Covers(u, c, pos)
  <2>1. PICK u \in F \cup S : Covers(u, c, pos)
    BY DEF Tiling
  <2>0. pos \in Nat
    BY GeometryFacts
  <2>2. CASE u \in Old
    BY <1>9, <2>1, <2>2
  <2>3. CASE u \in touches \/ u = s
    <3>1. c = b /\ u.start <= pos /\ pos < Past(u) /\ Past(u) \in Nat /\ u.start \in Nat
      BY <1>2, <1>3, <2>1, <2>3 DEF Covers, Past
    <3>2. lo <= u.start /\ Past(u) <= hi
      <4> HIDE DEF touches, b
      <4> QED BY <1>1, <1>2, <1>3, <1>4, <2>3
    <3>3. N.start + N.length = hi
      BY <1>2, <1>5
    <3>4. Covers(N, c, pos)
      BY <2>0, <3>1, <3>2, <3>3, <1>5 DEF Covers
    <3> QED BY <3>4
  <2>4. u \in Old \/ u \in touches \/ u = s
    BY <2>1
  <2> QED BY <2>2, <2>3, <2>4
<1>13. G \cap T = {}
  <2>1. \A t \in T : t \in Old /\ t \notin F
    BY DEF Tiling
  <2> HIDE DEF Old, T
  <2> QED BY <1>8, <2>1
<1>14. \A t, u \in G : t.block = u.block => Past(t) # u.start
  <2> TAKE t, u \in G
  <2> HAVE t.block = u.block
  <2>1. CASE t \in F /\ u \in F
    BY <2>1 DEF Tiling
  <2>2. ASSUME NEW v \in F \ touches, v.block = b
        PROVE  Past(v) # lo /\ hi # v.start
    <3>1. v \in Old /\ v.start \in Nat /\ Past(v) \in Nat
      BY <1>6
    <3>2. Past(v) < s.start \/ v.start > Past(s)
      BY <2>2, <3>1, <1>2
    <3>3. \A w \in touches : Past(v) # w.start /\ Past(w) # v.start
      BY <1>3, <2>2 DEF Tiling
    <3>4. Past(v) <= lo \/ hi <= v.start
      BY <1>7, <2>2, <3>1
    <3>5. v.start < Past(v)
      BY <1>6, <3>1
    <3> HIDE DEF touches, b
    <3> QED BY <1>1, <1>2, <1>4, <3>1, <3>2, <3>3, <3>4, <3>5
  <2>3. Past(N) # N.start
    BY <1>2, <1>4, <1>5
  <2>4. \A v \in G : v \in F \ touches \/ v = N
    OBVIOUS
  <2> HIDE DEF G, touches, b
  <2> QED BY <1>5, <2>1, <2>2, <2>3, <2>4
<1>15. Tiling(G, T)
  <2> HIDE DEF G, T
  <2> QED BY <1>10, <1>11, <1>12, <1>13, <1>14 DEF Tiling
<1> QED
  BY <1>1, <1>15 DEF N

-----------------------------------------------------------------------------
(* The calls.                                                              *)

\* What ReadZone picks is part of the run that it names, and under the strict
\* policy the rest of that run is empty or longer than one seat.
LEMMA PickFacts ==
  ASSUME NEW F, NEW S, Tiling(F, S), NEW q \in Nat \ {0}, NEW k,
         NEW policy \in {NORMAL_POLICY, ENDGAME_POLICY},
         NEW p \in TopAnchors(legal_anchors(F, q, policy), k), NEW host \in F, Contains(host, p),
         NEW pick, pick = Run(p.block, p.start, p.length)
  PROVE  /\ IsRun(host) /\ IsRun(pick) /\ Contains(host, pick)
         /\ policy = NORMAL_POLICY => pick.start - host.start # 1 /\ Past(host) - Past(pick) # 1
<1>1. PICK run \in F : p \in candidates(run, q, policy)
  BY DEF TopAnchors, legal_anchors
<1>2. PICK o \in Offsets(run, q, policy) : p = placement_at(run, o, q)
  BY <1>1 DEF candidates
<1>3. /\ run.block \in Blocks /\ run.start \in Nat /\ run.length \in Nat \ {0}
      /\ Past(run) = run.start + run.length /\ Past(run) <= Geometry[run.block].capacity
      /\ Geometry[run.block].capacity \in Nat /\ IsRun(run)
  BY RunFacts DEF Tiling
<1> DEFINE tail == run.length - q
<1>4. /\ ~policy.allow_mid_cut /\ policy.min_run \in {1, 2}
      /\ policy = NORMAL_POLICY => policy.min_run = 2
  BY SalePolicyFacts
<1>5. tail >= 0 /\ (tail = 0 \/ tail >= policy.min_run) /\ o \in {0, tail}
  BY <1>4 DEF Offsets
<1>6. p.block = run.block /\ p.start = run.start + o /\ p.length = q
  BY <1>2 DEF placement_at
<1>7. /\ p.start \in Nat /\ p.start + q <= Past(run) /\ run.start <= p.start /\ p.block \in Blocks
      /\ p.start + q <= Geometry[run.block].capacity
  BY <1>3, <1>5, <1>6
<1>8. Contains(run, p)
  BY <1>3, <1>6, <1>7 DEF Contains
<1>9. host = run
  BY <1>6, <1>7, <1>8, HostIsOne
<1>10. /\ IsRun(pick) /\ Past(pick) = p.start + q
       /\ pick.block = p.block /\ pick.start = p.start /\ pick.length = q
  BY <1>6, <1>7, NewRun
<1>11. Contains(host, pick)
  BY <1>6, <1>8, <1>9, <1>10 DEF Contains
<1>12. policy = NORMAL_POLICY => pick.start - host.start # 1 /\ Past(host) - Past(pick) # 1
  <2> SUFFICES ASSUME policy = NORMAL_POLICY
               PROVE  pick.start - run.start # 1 /\ Past(run) - Past(pick) # 1
    BY <1>9
  <2>1. pick.start - run.start = o /\ Past(run) - Past(pick) = tail - o
    BY <1>3, <1>5, <1>6, <1>10
  <2>2. (tail = 0 \/ tail >= 2) /\ tail \in Nat /\ o \in {0, tail}
    BY <1>3, <1>4, <1>5
  <2> HIDE DEF tail
  <2>3. o # 1 /\ tail - o # 1
    BY <2>2
  <2> QED BY <2>1, <2>3
<1> QED
  BY <1>3, <1>9, <1>10, <1>11, <1>12

LEMMA CallFacts ==
  ASSUME NEW r \in Calls
  PROVE  /\ r.pc \in {"read", "miss", "ratchet", "forget"} => r \in Turns
         /\ r.pc = "claim" => r \in Claims
         /\ r.pc \in {"read", "miss", "ratchet", "forget", "claim"} =>
              r.qty \in Nat \ {0} /\ r.relaxed \in BOOLEAN /\ r.attempt \in Nat
         /\ r.pc = "claim" => IsRun(r.pick) /\ IsRun(r.host)
<1>1. r \in Turns => /\ r.pc \in {"read", "miss", "ratchet", "forget"}
                     /\ r.qty \in Nat \ {0} /\ r.relaxed \in BOOLEAN /\ r.attempt \in Nat
  BY DEF Turns
<1>2. r \in Claims => /\ r.pc = "claim" /\ r.pick \in AllRuns /\ r.host \in AllRuns
                      /\ r.qty \in Nat \ {0} /\ r.relaxed \in BOOLEAN /\ r.attempt \in Nat
  BY DEF Claims
<1>3. r \in [pc : {"idle", "served"}] => r.pc \in {"idle", "served"}
  OBVIOUS
<1>4. r \in Turns \/ r \in Claims \/ r \in [pc : {"idle", "served"}]
  BY DEF Calls
<1> QED
  BY <1>1, <1>2, <1>3, <1>4, AllRunsFacts

\* A call that moves on, and the others that wait.
LEMMA CallMoves ==
  ASSUME ZoneTypes, PicksFit, NEW c \in Callers, NEW r \in Calls, Fits(r), Goes(c, r)
  PROVE  /\ call' \in [Callers -> Calls] /\ PicksFit' /\ call'[c] = r
         /\ \A d \in Callers : d # c => call'[d] = call[d]
<1>1. call \in [Callers -> Calls]
  BY DEF ZoneTypes
<1>2. call' \in [Callers -> Calls] /\ call'[c] = r /\ \A d \in Callers : d # c => call'[d] = call[d]
  BY <1>1 DEF Goes
<1>3. ASSUME NEW d \in Callers PROVE Fits(call'[d])
  BY <1>2 DEF PicksFit
<1> QED
  BY <1>2, <1>3 DEF PicksFit

LEMMA IdleIsCall == Idle \in Calls /\ Fits(Idle) /\ [pc |-> "served"] \in Calls /\ Fits([pc |-> "served"])
  BY DEF Idle, Calls, Fits

LEMMA NextAttemptMoves ==
  ASSUME ZoneTypes, PicksFit, NEW c \in Callers,
         NEW r, r.qty \in Nat \ {0}, r.relaxed \in BOOLEAN, r.attempt \in Nat, NextAttempt(c, r)
  PROVE  /\ call' \in [Callers -> Calls] /\ PicksFit' /\ call'[c].pc # "served"
         /\ \A d \in Callers : d # c => call'[d] = call[d]
<1> DEFINE n == [pc |-> "read", qty |-> r.qty, relaxed |-> r.relaxed, attempt |-> r.attempt + 1]
           m == IF r.attempt = MaxAttempts THEN Idle ELSE n
<1>1. n \in Calls /\ Fits(n) /\ n.pc = "read"
  <2>1. n \in Turns
    BY DEF Turns
  <2> QED BY <2>1 DEF Calls, Fits
<1> HIDE DEF n
<1>2. m \in Calls /\ Fits(m) /\ m.pc # "served"
  <2>1. Idle.pc # "served"
    BY DEF Idle
  <2> QED BY <1>1, <2>1, IdleIsCall
<1>3. Goes(c, m)
  BY DEF NextAttempt, n
<1> HIDE DEF m
<1> QED
  BY <1>2, <1>3, CallMoves

-----------------------------------------------------------------------------
(* The invariant of the sale.                                              *)

LEMMA ZoneStarts == ZoneInit => ZoneInv
<1> SUFFICES ASSUME ZoneInit PROVE ZoneInv
  OBVIOUS
<1> DEFINE row(b) == Run(b, 0, Geometry[b].capacity)
<1>1. freeRuns = {row(b) : b \in Blocks} /\ sold = {}
  BY DEF ZoneInit
<1>2. \A b \in Blocks : /\ IsRun(row(b)) /\ Past(row(b)) = Geometry[b].capacity
                        /\ row(b).block = b /\ row(b).start = 0 /\ row(b).length = Geometry[b].capacity
                        /\ Geometry[b].capacity \in Nat \ {0}
  <2> TAKE b \in Blocks
  <2>1. Geometry[b].capacity \in Nat \ {0} /\ 0 \in Nat /\ 0 + Geometry[b].capacity = Geometry[b].capacity
    BY GeometryFacts
  <2> QED BY <2>1, NewRun
<1> HIDE DEF row
<1>3. \A s \in freeRuns \cup sold : s.block \in Blocks /\ s = row(s.block)
  BY <1>1, <1>2
<1>4. Tiling(freeRuns, sold)
  <2>1. \A s \in freeRuns \cup sold : IsRun(s)
    BY <1>2, <1>3
  <2>2. \A s, t \in freeRuns \cup sold : s # t => Apart(s, t)
    BY <1>3 DEF Apart
  <2>3. \A b \in Blocks : \A pos \in 0 .. Geometry[b].capacity - 1 :
          \E s \in freeRuns \cup sold : Covers(s, b, pos)
    <3> TAKE b \in Blocks
    <3> TAKE pos \in 0 .. Geometry[b].capacity - 1
    <3>1. row(b) \in freeRuns \cup sold /\ Covers(row(b), b, pos)
      BY <1>1, <1>2 DEF Covers
    <3> QED BY <3>1
  <2>4. freeRuns \cap sold = {}
    BY <1>1
  <2>5. \A s, t \in freeRuns : s.block = t.block => Past(s) # t.start
    BY <1>2, <1>3
  <2> QED BY <2>1, <2>2, <2>3, <2>4, <2>5 DEF Tiling
<1>5. ZoneTypes /\ PicksFit
  BY IdleIsCall DEF ZoneInit, ZoneTypes, PicksFit
<1>6. RefusalsCounted
  BY ZoneAssumption DEF ZoneInit, RefusalsCounted
<1> QED
  BY <1>4, <1>5, <1>6 DEF ZoneInv

LEMMA CallKeeps ==
  ASSUME ZoneInv, NEW c \in Callers, NEW q \in Quantities, Call(c, q)
  PROVE  ZoneInv'
<1> DEFINE r == [pc |-> "read", qty |-> q, relaxed |-> relaxed, attempt |-> 1]
<1>1. r \in Calls /\ Fits(r)
  <2>1. q \in Nat \ {0} /\ relaxed \in BOOLEAN
    BY ZoneAssumption DEF ZoneInv, ZoneTypes
  <2>2. r \in Turns
    BY <2>1 DEF Turns
  <2> QED BY <2>2 DEF Calls, Fits
<1>2. Goes(c, r) /\ UNCHANGED <<freeRuns, sold, relaxed, misses, refused>>
  BY DEF Call
<1> HIDE DEF r
<1>3. call' \in [Callers -> Calls] /\ PicksFit'
  BY <1>1, <1>2, CallMoves DEF ZoneInv
<1> QED
  BY <1>2, <1>3 DEF ZoneInv, ZoneTypes, RefusalsCounted

LEMMA ReadZoneKeeps ==
  ASSUME ZoneInv, NEW c \in Callers, ReadZone(c)
  PROVE  ZoneInv' /\ call'[c].pc # "served" /\ \A d \in Callers : d # c => call'[d] = call[d]
<1> DEFINE r == call[c]
           anchors == legal_anchors(freeRuns, r.qty, Policy(c))
           claim(p, host) == [pc |-> "claim", qty |-> r.qty, relaxed |-> r.relaxed,
                              attempt |-> r.attempt, pick |-> Run(p.block, p.start, p.length),
                              host |-> host]
           away == IF remaining >= r.qty /\ ~r.relaxed THEN [r EXCEPT !.pc = "miss"] ELSE Idle
<1>1. r.pc = "read" /\ UNCHANGED <<freeRuns, sold, relaxed, misses, refused>>
  BY DEF ReadZone
<1>2. \/ \E p \in TopAnchors(anchors, TopK), host \in freeRuns :
            Contains(host, p) /\ Goes(c, claim(p, host))
      \/ Goes(c, away)
  BY DEF ReadZone
<1>3. /\ ZoneTypes /\ PicksFit /\ Tiling(freeRuns, sold) /\ r \in Calls /\ r \in Turns
      /\ r.qty \in Nat \ {0} /\ r.relaxed \in BOOLEAN /\ r.attempt \in Nat
  BY <1>1, CallFacts DEF ZoneInv, ZoneTypes
<1>4. Policy(c) = (IF r.relaxed THEN ENDGAME_POLICY ELSE NORMAL_POLICY)
  BY DEF Policy
<1> HIDE DEF r
<1>5. ASSUME NEW p \in TopAnchors(anchors, TopK), NEW host \in freeRuns, Contains(host, p)
      PROVE  claim(p, host) \in Calls /\ Fits(claim(p, host)) /\ claim(p, host).pc # "served"
  <2> DEFINE pick == Run(p.block, p.start, p.length)
  <2>1. Policy(c) \in {NORMAL_POLICY, ENDGAME_POLICY} /\ (~r.relaxed => Policy(c) = NORMAL_POLICY)
    BY <1>4
  <2>2. pick = Run(p.block, p.start, p.length)
    OBVIOUS
  <2> HIDE DEF pick
  <2>3. /\ IsRun(host) /\ IsRun(pick) /\ Contains(host, pick)
        /\ Policy(c) = NORMAL_POLICY => pick.start - host.start # 1 /\ Past(host) - Past(pick) # 1
    BY <1>3, <1>5, <2>1, <2>2, PickFacts
  <2>4. claim(p, host) = [pc |-> "claim", qty |-> r.qty, relaxed |-> r.relaxed,
                          attempt |-> r.attempt, pick |-> pick, host |-> host]
    BY <2>2
  <2> HIDE DEF claim
  <2>5. claim(p, host) \in Claims
    BY <1>3, <2>3, <2>4, AllRunsFacts DEF Claims
  <2>6. Fits(claim(p, host))
    <3>1. Contains(host, pick) /\ (~r.relaxed => pick.start - host.start # 1 /\ Past(host) - Past(pick) # 1)
      BY <2>1, <2>3
    <3>2. claim(p, host).host = host /\ claim(p, host).pick = pick /\ claim(p, host).relaxed = r.relaxed
      BY <2>4
    <3> QED BY <3>1, <3>2 DEF Fits
  <2>7. claim(p, host).pc = "claim"
    BY <2>4
  <2> QED BY <2>5, <2>6, <2>7 DEF Calls
<1>6. away \in Calls /\ Fits(away) /\ away.pc # "served"
  <2>1. [r EXCEPT !.pc = "miss"] \in Turns /\ [r EXCEPT !.pc = "miss"].pc = "miss"
    BY <1>3 DEF Turns
  <2>2. [r EXCEPT !.pc = "miss"] \in Calls /\ Fits([r EXCEPT !.pc = "miss"])
    BY <2>1 DEF Calls, Fits
  <2>3. Idle.pc # "served"
    BY DEF Idle
  <2> QED BY <2>1, <2>2, <2>3, IdleIsCall
<1> HIDE DEF claim, away, anchors
<1>7. /\ call' \in [Callers -> Calls] /\ PicksFit' /\ call'[c].pc # "served"
      /\ \A d \in Callers : d # c => call'[d] = call[d]
  <2>1. PICK n \in Calls : Fits(n) /\ Goes(c, n) /\ n.pc # "served"
    BY <1>2, <1>5, <1>6
  <2> QED BY <1>3, <2>1, CallMoves
<1> QED
  BY <1>1, <1>7 DEF ZoneInv, ZoneTypes, RefusalsCounted

LEMMA StrictMissKeeps ==
  ASSUME ZoneInv, NEW c \in Callers, StrictMiss(c)
  PROVE  ZoneInv' /\ call'[c].pc # "served" /\ \A d \in Callers : d # c => call'[d] = call[d]
<1> DEFINE r == [call[c] EXCEPT !.pc = "ratchet"]
<1>1. call[c].pc = "miss" /\ misses' = misses + 1 /\ UNCHANGED <<freeRuns, sold, relaxed>>
  BY DEF StrictMiss
<1>2. \/ misses' < Threshold /\ Goes(c, Idle) /\ refused' = refused + 1
      \/ Goes(c, r) /\ refused' = refused
  BY DEF StrictMiss
<1>3. call[c] \in Turns /\ ZoneTypes /\ PicksFit
  BY <1>1, CallFacts DEF ZoneInv, ZoneTypes
<1>4. r \in Calls /\ Fits(r) /\ r.pc # "served"
  <2>1. r \in Turns /\ r.pc = "ratchet"
    BY <1>3 DEF Turns
  <2> QED BY <2>1 DEF Calls, Fits
<1> HIDE DEF r
<1>5. /\ call' \in [Callers -> Calls] /\ PicksFit' /\ call'[c].pc # "served"
      /\ \A d \in Callers : d # c => call'[d] = call[d]
  <2>1. Idle.pc # "served"
    BY DEF Idle
  <2>2. PICK n \in Calls : Fits(n) /\ Goes(c, n) /\ n.pc # "served"
    BY <1>2, <1>4, <2>1, IdleIsCall
  <2> QED BY <1>3, <2>2, CallMoves
<1>6. misses' \in Nat /\ refused' \in Nat /\ refused' <= misses' /\ refused' < Threshold
  BY <1>1, <1>2, ZoneAssumption DEF ZoneInv, ZoneTypes, RefusalsCounted
<1> QED
  BY <1>1, <1>5, <1>6 DEF ZoneInv, ZoneTypes, RefusalsCounted

LEMMA RatchetKeeps ==
  ASSUME ZoneInv, NEW c \in Callers, Ratchet(c)
  PROVE  ZoneInv' /\ call'[c].pc # "served" /\ \A d \in Callers : d # c => call'[d] = call[d]
<1>0. call[c] \in Calls /\ ZoneTypes /\ PicksFit
  BY DEF ZoneInv, ZoneTypes
<1>1. CASE call[c].pc = "ratchet"
  <2> DEFINE r == [call[c] EXCEPT !.pc = "forget"]
  <2>1. relaxed' = TRUE /\ Goes(c, r) /\ UNCHANGED <<freeRuns, sold, misses, refused>>
    BY <1>1 DEF Ratchet
  <2>2. r \in Calls /\ Fits(r) /\ r.pc # "served"
    <3>1. call[c] \in Turns
      BY <1>0, <1>1, CallFacts
    <3>2. r \in Turns /\ r.pc = "forget"
      BY <3>1 DEF Turns
    <3> QED BY <3>2 DEF Calls, Fits
  <2> HIDE DEF r
  <2>3. /\ call' \in [Callers -> Calls] /\ PicksFit' /\ call'[c] = r
        /\ \A d \in Callers : d # c => call'[d] = call[d]
    BY <1>0, <2>1, <2>2, CallMoves
  <2>4. relaxed' \in BOOLEAN
    BY <2>1
  <2> QED BY <2>1, <2>2, <2>3, <2>4 DEF ZoneInv, ZoneTypes, RefusalsCounted
<1>2. CASE call[c].pc = "forget"
  <2> DEFINE r == [call[c] EXCEPT !.relaxed = TRUE]
  <2>1. misses' = 0 /\ refused' = 0 /\ NextAttempt(c, r) /\ UNCHANGED <<freeRuns, sold, relaxed>>
    BY <1>2 DEF Ratchet
  <2>2. r.qty \in Nat \ {0} /\ r.relaxed \in BOOLEAN /\ r.attempt \in Nat
    <3>1. call[c] \in Turns
      BY <1>0, <1>2, CallFacts
    <3>2. r \in Turns
      BY <3>1 DEF Turns
    <3> HIDE DEF r
    <3> QED BY <3>2 DEF Turns
  <2> HIDE DEF r
  <2>3. /\ call' \in [Callers -> Calls] /\ PicksFit' /\ call'[c].pc # "served"
        /\ \A d \in Callers : d # c => call'[d] = call[d]
    BY <1>0, <2>1, <2>2, NextAttemptMoves
  <2>4. RefusalsCounted'
    BY <2>1, ZoneAssumption DEF RefusalsCounted
  <2> QED BY <2>1, <2>3, <2>4 DEF ZoneInv, ZoneTypes
<1> QED
  BY <1>1, <1>2 DEF Ratchet

\* A claim sells its pick out of the run that it was made from, which is still
\* free, or sells nothing.
LEMMA ClaimKeeps ==
  ASSUME ZoneInv, NEW c \in Callers, Claim(c)
  PROVE  /\ ZoneInv' /\ \A d \in Callers : d # c => call'[d] = call[d]
         /\ ~call[c].relaxed /\ call'[c].pc = "served" =>
              \A run \in freeRuns' : run.length = 1 => run \in freeRuns
<1> DEFINE r == call[c]
           done == [pc |-> "served"]
<1>1. r.pc = "claim" /\ UNCHANGED <<relaxed, misses, refused>>
  BY DEF Claim
<1>2. \/ /\ r.host \in freeRuns /\ freeRuns' = occupy(freeRuns, r.pick)
         /\ sold' = sold \cup {r.pick} /\ Goes(c, done)
      \/ NextAttempt(c, r) /\ UNCHANGED <<freeRuns, sold>>
  BY DEF Claim
<1>3. /\ ZoneTypes /\ PicksFit /\ Tiling(freeRuns, sold) /\ r \in Calls
      /\ r.qty \in Nat \ {0} /\ r.relaxed \in BOOLEAN /\ r.attempt \in Nat
      /\ IsRun(r.pick) /\ IsRun(r.host) /\ Contains(r.host, r.pick)
      /\ ~r.relaxed => r.pick.start - r.host.start # 1 /\ Past(r.host) - Past(r.pick) # 1
  <2>1. r \in Calls /\ Fits(r)
    BY DEF ZoneInv, ZoneTypes, PicksFit
  <2> QED BY <1>1, <2>1, CallFacts DEF ZoneInv, Fits
<1> HIDE DEF r
<1>4. CASE /\ r.host \in freeRuns /\ freeRuns' = occupy(freeRuns, r.pick)
           /\ sold' = sold \cup {r.pick} /\ Goes(c, done)
  <2>1. /\ Tiling(occupy(freeRuns, r.pick), sold \cup {r.pick})
        /\ \A run \in occupy(freeRuns, r.pick) :
             \/ run \in freeRuns
             \/ run.length = r.pick.start - r.host.start
             \/ run.length = Past(r.host) - Past(r.pick)
    BY <1>3, <1>4, OccupyTiles
  <2>2. Tiling(freeRuns, sold)'
    BY <1>4, <2>1
  <2>3. ~r.relaxed => \A run \in freeRuns' : run.length = 1 => run \in freeRuns
    BY <1>3, <1>4, <2>1
  <2>4. /\ call' \in [Callers -> Calls] /\ PicksFit'
        /\ \A d \in Callers : d # c => call'[d] = call[d]
    BY <1>3, <1>4, IdleIsCall, CallMoves
  <2> QED BY <1>1, <2>2, <2>3, <2>4 DEF ZoneInv, ZoneTypes, RefusalsCounted, r
<1>5. CASE NextAttempt(c, r) /\ UNCHANGED <<freeRuns, sold>>
  <2>1. /\ call' \in [Callers -> Calls] /\ PicksFit' /\ call'[c].pc # "served"
        /\ \A d \in Callers : d # c => call'[d] = call[d]
    BY <1>3, <1>5, NextAttemptMoves
  <2> QED BY <1>1, <1>5, <2>1 DEF ZoneInv, ZoneTypes, RefusalsCounted
<1> QED
  BY <1>2, <1>4, <1>5

LEMMA ServedKeeps ==
  ASSUME ZoneInv, NEW c \in Callers, Served(c)
  PROVE  ZoneInv' /\ call'[c].pc # "served" /\ \A d \in Callers : d # c => call'[d] = call[d]
<1>1. misses' = 0 /\ refused' = 0 /\ Goes(c, Idle) /\ UNCHANGED <<freeRuns, sold, relaxed>>
  BY DEF Served
<1>2. /\ call' \in [Callers -> Calls] /\ PicksFit' /\ call'[c] = Idle
      /\ \A d \in Callers : d # c => call'[d] = call[d]
  BY <1>1, IdleIsCall, CallMoves DEF ZoneInv
<1>3. RefusalsCounted'
  BY <1>1, ZoneAssumption DEF RefusalsCounted
<1>4. Idle.pc # "served"
  BY DEF Idle
<1> QED
  BY <1>1, <1>2, <1>3, <1>4 DEF ZoneInv, ZoneTypes

LEMMA GiveBackKeeps ==
  ASSUME ZoneInv, NEW s \in sold, GiveBack(s)
  PROVE  ZoneInv' /\ call' = call
<1>1. /\ sold' = sold \ {s} /\ freeRuns' = release(freeRuns, s.block, s.start, s.length)
      /\ UNCHANGED <<relaxed, misses, call, refused>>
  BY DEF GiveBack
<1>2. Tiling(freeRuns, sold)'
  BY <1>1, ReleaseTiles DEF ZoneInv
<1> QED
  BY <1>1, <1>2 DEF ZoneInv, ZoneTypes, PicksFit, RefusalsCounted

LEMMA MissesExpireKeeps ==
  ASSUME ZoneInv, MissesExpire
  PROVE  ZoneInv' /\ call' = call
<1>1. misses' = 0 /\ refused' = 0 /\ UNCHANGED <<freeRuns, sold, relaxed, call>>
  BY DEF MissesExpire
<1>2. RefusalsCounted'
  BY <1>1, ZoneAssumption DEF RefusalsCounted
<1> QED
  BY <1>1, <1>2 DEF ZoneInv, ZoneTypes, PicksFit

\* A step of the sale keeps the invariant, and the only one that serves a
\* strict call makes no orphan.
LEMMA ZoneMoves ==
  ASSUME ZoneInv, [ZoneNext]_zoneVars
  PROVE  /\ ZoneInv'
         /\ \A c \in Callers :
              call[c].pc = "claim" /\ ~call[c].relaxed /\ call'[c].pc = "served" =>
                \A run \in freeRuns' : run.length = 1 => run \in freeRuns
<1> DEFINE Strict(c) == call[c].pc = "claim" /\ ~call[c].relaxed /\ call'[c].pc = "served" =>
                          \A run \in freeRuns' : run.length = 1 => run \in freeRuns
           Good == ZoneInv' /\ \A d \in Callers : Strict(d)
<1>1. ASSUME NEW c \in Callers,
             ReadZone(c) \/ StrictMiss(c) \/ Ratchet(c) \/ Served(c)
      PROVE  Good
  <2>1. ZoneInv' /\ call'[c].pc # "served" /\ \A d \in Callers : d # c => call'[d] = call[d]
    BY <1>1, ReadZoneKeeps, StrictMissKeeps, RatchetKeeps, ServedKeeps
  <2> QED BY <2>1
<1>2. ASSUME NEW c \in Callers, Claim(c)
      PROVE  Good
  <2>1. /\ ZoneInv' /\ \A d \in Callers : d # c => call'[d] = call[d]
        /\ Strict(c)
    BY <1>2, ClaimKeeps
  <2>2. ASSUME NEW d \in Callers, d # c PROVE Strict(d)
    BY <2>1, <2>2
  <2> HIDE DEF Strict
  <2> QED BY <2>1, <2>2
<1>3. ASSUME NEW c \in Callers, NEW q \in Quantities, Call(c, q)
      PROVE  Good
  <2>1. ZoneInv'
    BY <1>3, CallKeeps
  <2>2. /\ call[c] = Idle
        /\ \A d \in Callers : d # c => call'[d] = call[d]
    <3>1. call \in [Callers -> Calls]
      BY DEF ZoneInv, ZoneTypes
    <3> QED BY <1>3, <3>1 DEF Call, Goes
  <2>3. Idle.pc # "claim"
    BY DEF Idle
  <2> QED BY <2>1, <2>2, <2>3
<1>4. ASSUME NEW s \in sold, GiveBack(s)
      PROVE  Good
  BY <1>4, GiveBackKeeps
<1>5. ASSUME MissesExpire PROVE Good
  BY <1>5, MissesExpireKeeps
<1>6. ASSUME UNCHANGED zoneVars PROVE Good
  BY <1>6 DEF zoneVars, ZoneInv, ZoneTypes, PicksFit, RefusalsCounted
<1>7. Good
  <2> HIDE DEF Good
  <2>1. CASE \E c \in Callers : Step(c)
    BY <2>1, <1>1, <1>2 DEF Step
  <2>2. CASE \E c \in Callers : \E q \in Quantities : Call(c, q)
    BY <2>2, <1>3
  <2>3. CASE \E s \in sold : GiveBack(s)
    BY <2>3, <1>4
  <2>4. ZoneNext \/ UNCHANGED zoneVars
    OBVIOUS
  <2> QED BY <2>1, <2>2, <2>3, <2>4, <1>5, <1>6 DEF ZoneNext
<1> QED
  BY <1>7

\* The parts of the invariant hold in every state of a sale.
THEOREM ZoneKeepsInvariant == ZoneSpec => []ZoneInv
<1>1. ZoneInv /\ [ZoneNext]_zoneVars => ZoneInv'
  BY ZoneMoves
<1> QED
  BY ZoneStarts, <1>1, PTL DEF ZoneSpec

LEMMA TilingCounts ==
  ASSUME Tiling(freeRuns, sold)
  PROVE  TilesExactly
<1>1. ASSUME NEW b \in Blocks, NEW pos \in 0 .. Geometry[b].capacity
      PROVE  Cardinality({s \in freeRuns \cup sold : s.block = b /\ s.start <= pos /\ pos < s.start + s.length})
               = IF pos < Geometry[b].capacity THEN 1 ELSE 0
  <2> DEFINE C == {s \in freeRuns \cup sold : s.block = b /\ s.start <= pos /\ pos < s.start + s.length}
  <2>0. pos \in Nat /\ Geometry[b].capacity \in Nat
    BY GeometryFacts
  <2>1. \A s \in C : /\ IsRun(s) /\ s.block = b /\ s.start \in Nat /\ Past(s) \in Nat
                     /\ s.start <= pos /\ pos < Past(s) /\ Past(s) <= Geometry[b].capacity
    <3> TAKE s \in C
    <3>1. IsRun(s)
      BY DEF Tiling
    <3> QED BY <3>1, RunFacts
  <2>2. CASE pos < Geometry[b].capacity
    <3>1. PICK s \in freeRuns \cup sold : Covers(s, b, pos)
      <4>1. pos \in 0 .. Geometry[b].capacity - 1
        BY <2>0, <2>2
      <4> QED BY <4>1 DEF Tiling
    <3>2. s \in C
      BY <3>1 DEF Covers
    <3>3. \A t \in C : t = s
      <4> SUFFICES ASSUME NEW t \in C, t # s PROVE FALSE
        OBVIOUS
      <4>1. Apart(s, t)
        BY DEF Tiling
      <4> HIDE DEF C
      <4> QED BY <2>0, <2>1, <3>2, <4>1 DEF Apart
    <3> HIDE DEF C
    <3>4. C = {s}
      BY <3>2, <3>3
    <3>5. Cardinality(C) = 1
      BY <3>4, FS_Singleton
    <3> QED BY <2>2, <3>5 DEF C
  <2>3. CASE ~ (pos < Geometry[b].capacity)
    <3>1. C = {}
      <4> HIDE DEF C
      <4> QED BY <2>0, <2>1, <2>3
    <3> HIDE DEF C
    <3>2. Cardinality(C) = 0
      BY <3>1, FS_EmptySet
    <3> QED BY <2>3, <3>2 DEF C
  <2> QED BY <2>2, <2>3
<1>2. \A r1, r2 \in freeRuns : r1.block = r2.block => r1.start + r1.length # r2.start
  BY DEF Tiling, Past
<1>3. \A r \in freeRuns : r.length > 0
  BY RunFacts DEF Tiling
<1>4. freeRuns \cap sold = {}
  BY DEF Tiling
<1> QED
  BY <1>1, <1>2, <1>3, <1>4 DEF TilesExactly

\* Through all interleavings of reads, claims, releases and the strict-miss
\* ratchet, for rows of any length and any number of calls, every seat is in
\* exactly one free run or one order, no two free runs touch, and fewer than
\* STRICT_MISS_THRESHOLD calls are refused between two removals of the counter.
THEOREM ZoneStaysSound == ZoneSpec => []ZoneIsSound
<1>1. ZoneInv => ZoneIsSound
  BY TilingCounts DEF ZoneInv, RefusalsCounted, ZoneIsSound, RefusalsBounded
<1> QED
  BY <1>1, ZoneKeepsInvariant, PTL

-----------------------------------------------------------------------------
(* The draw.                                                               *)

LEMMA ImageIsFinite ==
  ASSUME NEW S, IsFiniteSet(S), NEW f
  PROVE  IsFiniteSet({f[x] : x \in S})
<1> DEFINE T == {f[x] : x \in S}
           g == [x \in S |-> f[x]]
<1>1. g \in Surjection(S, T)
  BY DEF Surjection
<1> HIDE DEF g, T
<1>2. IsFiniteSet(T)
  BY <1>1, FS_Surjection
<1> QED
  BY <1>2 DEF T

LEMMA AllRunsAreFinite == IsFiniteSet(AllRuns)
<1>1. ASSUME NEW b \in Blocks, NEW e \in 1 .. Geometry[b].capacity
      PROVE  IsFiniteSet({Run(b, s, e - s) : s \in 0 .. e - 1})
  <2> DEFINE I == 0 .. e - 1
             f == [s \in I |-> Run(b, s, e - s)]
  <2>1. IsFiniteSet(I)
    <3>1. e - 1 \in Int
      BY GeometryFacts
    <3> QED BY <3>1, FS_Interval
  <2>2. {Run(b, s, e - s) : s \in I} = {f[s] : s \in I}
    OBVIOUS
  <2> HIDE DEF f, I
  <2>3. IsFiniteSet({f[s] : s \in I})
    BY <2>1, ImageIsFinite
  <2> QED BY <2>2, <2>3 DEF I
<1>2. ASSUME NEW b \in Blocks PROVE IsFiniteSet(RunsOf(b))
  <2> DEFINE I == 1 .. Geometry[b].capacity
             f == [e \in I |-> {Run(b, s, e - s) : s \in 0 .. e - 1}]
             T == {f[e] : e \in I}
  <2>1. IsFiniteSet(I)
    <3>1. Geometry[b].capacity \in Int
      BY GeometryFacts
    <3> QED BY <3>1, FS_Interval
  <2>2. \A X \in T : IsFiniteSet(X)
    BY <1>1
  <2>3. RunsOf(b) = UNION T
    BY DEF RunsOf
  <2>4. IsFiniteSet(T)
    <3> HIDE DEF f, I
    <3> QED BY <2>1, ImageIsFinite
  <2> HIDE DEF T
  <2> QED BY <2>2, <2>3, <2>4, FS_UNION
<1> DEFINE f == [b \in Blocks |-> RunsOf(b)]
           T == {f[b] : b \in Blocks}
<1>3. IsFiniteSet(T)
  <2> HIDE DEF f
  <2> QED BY GeometryAssumption, ImageIsFinite
<1>4. \A X \in T : IsFiniteSet(X)
  BY <1>2
<1>5. AllRuns = UNION T
  BY DEF AllRuns
<1> HIDE DEF T
<1> QED
  BY <1>3, <1>4, <1>5, FS_UNION

\* The one or two ends that candidates tries are all the cuts that the policies
\* of the sale admit.
LEMMA CandidatesAreAll ==
  ASSUME NEW run, IsRun(run), NEW q \in Nat \ {0}, NEW policy \in {NORMAL_POLICY, ENDGAME_POLICY}
  PROVE  AllLegal(run, q, policy) = candidates(run, q, policy)
<1> DEFINE tail == run.length - q
           legal == {o \in 0 .. tail : /\ 0 \in {o, tail - o}
                                       /\ {o, tail - o} \cap 1 .. policy.min_run - 1 = {}}
<1>1. ~policy.allow_mid_cut /\ policy.min_run \in {1, 2} /\ tail \in Int
  BY SalePolicyFacts DEF IsRun
<1>2. Offsets(run, q, policy) = IF tail >= 0 /\ (tail = 0 \/ tail >= policy.min_run) THEN {0, tail} ELSE {}
  BY <1>1 DEF Offsets
<1>3. legal = IF tail >= 0 /\ (tail = 0 \/ tail >= policy.min_run) THEN {0, tail} ELSE {}
  <2> HIDE DEF tail
  <2>1. CASE policy.min_run = 1
    <3>1. 1 .. policy.min_run - 1 = {}
      BY <2>1
    <3>2. \A o \in 0 .. tail : 0 \in {o, tail - o} <=> o \in {0, tail}
      BY <1>1
    <3> QED BY <1>1, <2>1, <3>1, <3>2
  <2>2. CASE policy.min_run = 2
    <3>1. 1 .. policy.min_run - 1 = {1}
      BY <2>2
    <3>2. \A o \in 0 .. tail : 0 \in {o, tail - o} <=> o \in {0, tail}
      BY <1>1
    <3>3. \A o \in 0 .. tail : {o, tail - o} \cap {1} = {} <=> o # 1 /\ tail - o # 1
      BY <1>1
    <3> QED BY <1>1, <2>2, <3>1, <3>2, <3>3
  <2> QED BY <1>1, <2>1, <2>2
<1>4. AllLegal(run, q, policy) = {placement_at(run, o, q) : o \in legal}
  BY DEF AllLegal
<1> HIDE DEF legal, tail
<1> QED
  BY <1>2, <1>3, <1>4 DEF candidates

LEMMA AnchorsAreFinite ==
  ASSUME NEW F, IsFiniteSet(F), \A run \in F : IsRun(run), NEW q \in Nat \ {0},
         NEW policy \in {NORMAL_POLICY, ENDGAME_POLICY}
  PROVE  IsFiniteSet(legal_anchors(F, q, policy))
<1> DEFINE f == [run \in F |-> candidates(run, q, policy)]
           T == {f[run] : run \in F}
<1>1. IsFiniteSet(T)
  <2> HIDE DEF f
  <2> QED BY ImageIsFinite
<1>2. ASSUME NEW run \in F PROVE IsFiniteSet(candidates(run, q, policy))
  <2> DEFINE O == {0, run.length - q}
             g == [o \in O |-> placement_at(run, o, q)]
  <2>1. Offsets(run, q, policy) \subseteq O
    BY SalePolicyFacts DEF Offsets
  <2>2. IsFiniteSet(O)
    <3>1. IsFiniteSet({0}) /\ IsFiniteSet({0} \cup {run.length - q})
      BY FS_Singleton, FS_AddElement
    <3>2. {0} \cup {run.length - q} = O
      OBVIOUS
    <3> QED BY <3>1, <3>2
  <2>3. candidates(run, q, policy) \subseteq {g[o] : o \in O}
    BY <2>1 DEF candidates
  <2> HIDE DEF g, O
  <2>4. IsFiniteSet({g[o] : o \in O})
    BY <2>2, ImageIsFinite
  <2> QED BY <2>3, <2>4, FS_Subset
<1>3. \A X \in T : IsFiniteSet(X)
  BY <1>2
<1>4. legal_anchors(F, q, policy) = UNION T
  BY DEF legal_anchors
<1> HIDE DEF T
<1> QED
  BY <1>1, <1>3, <1>4, FS_UNION

\* As many anchors are ahead of a seat of a longer run as there are orphans.
LEMMA OrphansAreAhead ==
  ASSUME NEW F, IsFiniteSet(F), \A run \in F : IsRun(run),
         NEW policy \in {NORMAL_POLICY, ENDGAME_POLICY},
         NEW host \in F, host.length > 1, NEW p \in candidates(host, 1, policy)
  PROVE  Cardinality({run \in F : run.length = 1})
           <= Cardinality({x \in legal_anchors(F, 1, policy) : Before(x, p)})
<1> DEFINE O == {run \in F : run.length = 1}
           A == legal_anchors(F, 1, policy)
           B == {x \in A : Before(x, p)}
           f == [run \in O |-> placement_at(run, 0, 1)]
<1>1. p.score \in Int /\ p.score <= Unit
  <2>1. PICK o \in Offsets(host, 1, policy) : p = placement_at(host, o, 1)
    BY DEF candidates
  <2>2. o \in {0, host.length - 1}
    BY SalePolicyFacts DEF Offsets
  <2> QED BY <2>1, <2>2, SeatScore
<1>2. ASSUME NEW run \in O
      PROVE  /\ placement_at(run, 0, 1) \in B
             /\ placement_at(run, 0, 1).block = run.block /\ placement_at(run, 0, 1).start = run.start
  <2>1. IsRun(run) /\ run.length = 1
    OBVIOUS
  <2>2. placement_at(run, 0, 1).score \in Int /\ placement_at(run, 0, 1).score > Unit /\ Unit \in Nat
    BY <2>1, OrphanScore, UnitAssumption
  <2>3. 0 \in Offsets(run, 1, policy)
    BY <2>1, SalePolicyFacts DEF Offsets
  <2>4. placement_at(run, 0, 1) \in A
    BY <2>3 DEF legal_anchors, candidates
  <2>5. Before(placement_at(run, 0, 1), p)
    <3> DEFINE x == placement_at(run, 0, 1)
    <3> HIDE DEF x
    <3>1. x.score > p.score
      BY <1>1, <2>2 DEF x
    <3>2. Before(x, p)
      BY <3>1 DEF Before
    <3> QED BY <3>2 DEF x
  <2>6. placement_at(run, 0, 1).block = run.block /\ placement_at(run, 0, 1).start = run.start
    BY <2>1 DEF placement_at, IsRun
  <2> QED BY <2>4, <2>5, <2>6
<1>3. f \in Injection(O, B)
  <2>1. f \in [O -> B]
    BY <1>2
  <2>2. ASSUME NEW r \in O, NEW s \in O, f[r] = f[s] PROVE r = s
    <3>1. r.block = s.block /\ r.start = s.start /\ r.length = s.length
      BY <1>2, <2>2
    <3>2. r = Run(r.block, r.start, r.length) /\ s = Run(s.block, s.start, s.length)
      BY RunFacts
    <3> QED BY <3>1, <3>2
  <2> HIDE DEF f, O, B
  <2>3. \A r, s \in O : f[r] = f[s] => r = s
    BY <2>2
  <2> QED BY <2>1, <2>3 DEF Injection, IsInjective
<1>4. IsFiniteSet(B)
  <2>1. IsFiniteSet(A)
    BY AnchorsAreFinite
  <2>2. B \in SUBSET A
    OBVIOUS
  <2> HIDE DEF A, B
  <2> QED BY <2>1, <2>2, FS_Subset
<1> HIDE DEF f, O, B
<1>5. Cardinality(O) <= Cardinality(B)
  BY <1>3, <1>4, FS_Injection
<1> QED
  BY <1>5 DEF O, B, A

\* What a read does to its own call: a good pick, or no legal placement.
DrawnWell(c) ==
  call[c].pc = "read" /\ call'[c] # call[c] =>
    IF call'[c].pc = "claim" THEN GoodPick(c, call'[c].host, call'[c].pick)
                             ELSE LegalPlacements(c) = {}

LEMMA ReadZoneDraws ==
  ASSUME ZoneInv, NEW c \in Callers, ReadZone(c)
  PROVE  DrawnWell(c)
<1> DEFINE r == call[c]
           q == r.qty
           policy == Policy(c)
           A == legal_anchors(freeRuns, q, policy)
<1>1. r.pc = "read" /\ call \in [Callers -> Calls] /\ Tiling(freeRuns, sold)
  BY DEF ReadZone, ZoneInv, ZoneTypes
<1>2. q \in Nat \ {0} /\ policy \in {NORMAL_POLICY, ENDGAME_POLICY}
  <2>1. r \in Calls
    BY <1>1
  <2> QED BY <1>1, <2>1, CallFacts DEF Policy
<1>3. \A run \in freeRuns : IsRun(run)
  BY <1>1 DEF Tiling
<1>4. IsFiniteSet(freeRuns)
  <2>1. freeRuns \in SUBSET AllRuns
    BY <1>3, AllRunsFacts
  <2> QED BY <2>1, AllRunsAreFinite, FS_Subset
<1>5. LegalPlacements(c) = A
  <2>1. \A run \in freeRuns : AllLegal(run, q, policy) = candidates(run, q, policy)
    BY <1>2, <1>3, CandidatesAreAll
  <2> HIDE DEF q, policy
  <2>2. UNION {AllLegal(run, q, policy) : run \in freeRuns} = UNION {candidates(run, q, policy) : run \in freeRuns}
    BY <2>1
  <2> QED BY <2>2 DEF LegalPlacements, legal_anchors, q, policy
<1>6. IsFiniteSet(A)
  BY <1>2, <1>3, <1>4, AnchorsAreFinite
<1>7. ASSUME NEW p \in TopAnchors(A, TopK), NEW host \in freeRuns, Contains(host, p),
             call'[c].pick = Run(p.block, p.start, p.length), call'[c].host = host
      PROVE  GoodPick(c, call'[c].host, call'[c].pick)
  <2> DEFINE B == {x \in A : Before(x, p)}
             C == {y \in A : y.score > p.score}
  <2>1. p \in A /\ Cardinality(B) < TopK
    BY <1>7 DEF TopAnchors
  <2>2. C \subseteq B /\ B \subseteq A
    BY DEF Before
  <2>3. /\ IsFiniteSet(B) /\ Cardinality(C) <= Cardinality(B)
        /\ Cardinality(C) \in Nat /\ Cardinality(B) \in Nat /\ TopK \in Nat
    <3> HIDE DEF A, B, C
    <3>1. IsFiniteSet(B)
      BY <1>6, <2>2, FS_Subset
    <3>2. IsFiniteSet(C) /\ Cardinality(C) <= Cardinality(B)
      BY <2>2, <3>1, FS_Subset
    <3> QED BY <3>1, <3>2, FS_CardinalityType, ZoneAssumption
  <2>4. Cardinality(C) < TopK
    <3> HIDE DEF B, C
    <3> QED BY <2>1, <2>3
  <2>5. ASSUME q = 1, host.length > 1 PROVE Cardinality(Orphans) < TopK
    <3>1. p \in candidates(host, q, policy)
      <4>1. PICK run \in freeRuns : p \in candidates(run, q, policy)
        BY <2>1 DEF legal_anchors
      <4>2. PICK o \in Offsets(run, q, policy) : p = placement_at(run, o, q)
        BY <4>1 DEF candidates
      <4>3. /\ p.block = run.block /\ p.start = run.start + o /\ p.length = q
        BY <4>2 DEF placement_at
      <4>4. o \in {0, run.length - q} /\ run.length - q >= 0
        BY <1>2, <4>2, SalePolicyFacts DEF Offsets
      <4>5. run.block \in Blocks /\ run.start \in Nat /\ run.length \in Nat
        BY <1>3, RunFacts
      <4>6. Contains(run, p) /\ p.start \in Nat /\ p.length \in Nat \ {0} /\ p.block \in Blocks
        BY <1>2, <4>3, <4>4, <4>5 DEF Contains
      <4>7. run = host
        BY <1>1, <1>7, <4>6, HostIsOne
      <4> QED BY <4>1, <4>7
    <3>2. p \in candidates(host, 1, policy) /\ A = legal_anchors(freeRuns, 1, policy)
      BY <2>5, <3>1
    <3>3. Cardinality(Orphans) <= Cardinality(B)
      BY <1>2, <1>3, <1>4, <2>5, <3>2, OrphansAreAhead DEF Orphans
    <3>4. Cardinality(Orphans) \in Nat
      <4>1. Orphans \in SUBSET freeRuns
        BY DEF Orphans
      <4> QED BY <4>1, <1>4, FS_Subset, FS_CardinalityType
    <3> HIDE DEF B
    <3> QED BY <2>1, <2>3, <3>3, <3>4
  <2> HIDE DEF A
  <2> QED BY <1>5, <1>7, <2>1, <2>4, <2>5 DEF GoodPick
<1>8. CASE A # {}
  <2>1. PICK p \in TopAnchors(A, TopK), host \in freeRuns :
          /\ Contains(host, p)
          /\ Goes(c, [pc |-> "claim", qty |-> r.qty, relaxed |-> r.relaxed,
                      attempt |-> r.attempt, pick |-> Run(p.block, p.start, p.length),
                      host |-> host])
    BY <1>8 DEF ReadZone
  <2>2. call'[c].pc = "claim" /\ call'[c].pick = Run(p.block, p.start, p.length) /\ call'[c].host = host
    BY <1>1, <2>1 DEF Goes
  <2>3. GoodPick(c, call'[c].host, call'[c].pick)
    BY <1>7, <2>1, <2>2
  <2> QED BY <2>2, <2>3 DEF DrawnWell
<1>9. CASE A = {}
  <2>1. Goes(c, IF remaining >= r.qty /\ ~r.relaxed THEN [r EXCEPT !.pc = "miss"] ELSE Idle)
    BY <1>9 DEF ReadZone
  <2>2. call'[c] = [r EXCEPT !.pc = "miss"] \/ call'[c] = Idle
    BY <1>1, <2>1 DEF Goes
  <2>3. [r EXCEPT !.pc = "miss"].pc = "miss" /\ Idle.pc = "idle"
    <3>1. r \in Turns
      BY <1>1, CallFacts
    <3> QED BY <3>1 DEF Turns, Idle
  <2>4. call'[c].pc # "claim"
    BY <2>2, <2>3
  <2> QED BY <1>5, <1>9, <2>4 DEF DrawnWell
<1> QED
  BY <1>8, <1>9

\* In every zone that sales and returns lead to, for rows of any length and any
\* qualities that the database admits, a call that reads it draws a placement
\* that fewer than TOP_K of all legal ones beat, cuts a longer run for a single
\* ticket only where fewer than TOP_K single seats are free, and is turned away
\* only when nothing is legal.
THEOREM DrawStaysAmongBest == ZoneSpec => DrawIsAmongBest
<1> DEFINE Drawn == \A c \in Callers : DrawnWell(c)
<1>1. ASSUME ZoneInv, ZoneNext PROVE Drawn
  <2>0. call \in [Callers -> Calls]
    BY <1>1 DEF ZoneInv, ZoneTypes
  <2> SUFFICES ASSUME NEW c \in Callers PROVE DrawnWell(c)
    OBVIOUS
  <2>1. ASSUME call[c].pc # "read" \/ call'[c] = call[c] PROVE DrawnWell(c)
    BY <2>1 DEF DrawnWell
  <2>2. CASE \E d \in Callers : Step(d)
    <3>1. PICK d \in Callers : Step(d)
      BY <2>2
    <3>2. CASE d # c
      <4>1. call'[c] = call[c]
        BY <1>1, <3>1, <3>2, ReadZoneKeeps, StrictMissKeeps, RatchetKeeps, ClaimKeeps, ServedKeeps DEF Step
      <4> QED BY <2>1, <4>1
    <3>3. CASE d = c
      <4>1. ReadZone(c) \/ call[c].pc # "read"
        BY <3>1, <3>3 DEF Step, StrictMiss, Ratchet, Claim, Served
      <4> QED BY <1>1, <2>1, <4>1, ReadZoneDraws
    <3> QED BY <3>2, <3>3
  <2>3. CASE \E d \in Callers, q \in Quantities : Call(d, q)
    <3>1. PICK d \in Callers, q \in Quantities : Call(d, q)
      BY <2>3
    <3>2. call[d].pc # "read" /\ (d # c => call'[c] = call[c])
      BY <2>0, <3>1 DEF Call, Goes, Idle
    <3> QED BY <2>1, <3>2
  <2>4. CASE (\E s \in sold : GiveBack(s)) \/ MissesExpire
    <3>1. call' = call
      BY <2>4 DEF GiveBack, MissesExpire
    <3> QED BY <2>1, <3>1
  <2> QED BY <1>1, <2>2, <2>3, <2>4 DEF ZoneNext
<1>2. ZoneInv /\ [ZoneNext]_zoneVars => [Drawn]_zoneVars
  <2> HIDE DEF Drawn
  <2> QED BY <1>1
<1>3. ZoneSpec => [][Drawn]_zoneVars
  <2> HIDE DEF Drawn
  <2> QED BY <1>2, ZoneKeepsInvariant, PTL DEF ZoneSpec
<1> QED
  BY <1>3 DEF DrawIsAmongBest, DrawnWell

\* A claim made under the strict policy leaves no new single seat, however many
\* claims and releases went between its snapshot and its compare-and-set.
THEOREM StrictNeverOrphans == ZoneSpec => StrictLeavesNoOrphan
<1> DEFINE Strict == \A c \in Callers :
                       call[c].pc = "claim" /\ ~call[c].relaxed /\ call'[c].pc = "served" =>
                         \A run \in freeRuns' : run.length = 1 => run \in freeRuns
<1>1. ZoneInv /\ [ZoneNext]_zoneVars => [Strict]_zoneVars
  BY ZoneMoves
<1>2. ZoneSpec => [][Strict]_zoneVars
  <2> HIDE DEF Strict
  <2> QED BY <1>1, ZoneKeepsInvariant, PTL DEF ZoneSpec
<1> QED
  BY <1>2 DEF StrictLeavesNoOrphan

=============================================================================

----------------------- MODULE InventoryRecoveryProofs ----------------------
(***************************************************************************)
(* For every set of requests and users, every stock and limit and every    *)
(* number of losses of Redis: the counters are exact at rest, and more     *)
(* tickets are held than there are only for one of the named reasons.      *)
(***************************************************************************)
EXTENDS InventoryRecovery, FiniteSetTheorems, TLAPS

-----------------------------------------------------------------------------
(* The inductive invariant.                                                *)

RecoveryTypeOK ==
  /\ order \in [Keys -> {"none", "held", "ended"}] /\ outbox \in SUBSET Keys
  /\ lost \in BOOLEAN /\ avail \in Int /\ quota \in [Users -> Nat]
  /\ stream \in SUBSET Keys /\ claims \in SUBSET Keys /\ markers \in SUBSET Keys
  /\ taken \in SUBSET Keys
  /\ bpc \in [Rebuilders -> {"idle", "compare", "audit", "guard", "sum", "set", "readq",
                             "writeq"}]
  /\ sold \in [Rebuilders -> Nat] /\ rows \in [Rebuilders -> [Users -> Nat]]
  /\ expected \in Int /\ alarm \in BOOLEAN
  /\ phase \in {"sale", "old"} /\ losses \in 0 .. MaxLosses
  /\ odd \in {"nothing", "leak", "race"}

\* An intent keeps its claim, and only an ended order is released.
ShapeInv ==
  /\ stream \subseteq claims
  /\ \A k \in outbox \cup markers : order[k] = "ended"
  /\ phase = "old" => stream = {}

\* No intent is in the stream while the counter is lost or being rebuilt.
StreamInv == stream # {} => ~lost /\ ~Rebuilding

ReadsQuotas == \E b \in Rebuilders : bpc[b] = "readq"
QuotasComing == \E b \in Rebuilders : bpc[b] \in {"readq", "writeq"}

\* What is exact as long as nothing happened is a lower bound once a key was used
\* again.
Covers(n, m) == n >= m /\ (odd = "nothing" => n = m)

(***************************************************************************)
(* The stock balances against what is held, on its way, or owed.  A loss   *)
(* of Redis makes releases owed again that had been made; E is what is     *)
(* really owed, and a rebuild notices the rest when it reads the quotas.   *)
(***************************************************************************)
StockInv ==
  ~lost =>
    /\ avail >= 0
    /\ \E E \in SUBSET Outstanding :
         /\ Covers(Total, avail + Tickets(Held) + Tickets(stream) + Tickets(E))
         /\ E = Outstanding \/ ReadsQuotas

\* The sum that a rebuild has read is what was held then.
SoldInv(b) ==
  bpc[b] = "set" =>
    /\ sold[b] <= Total
    /\ \E E \in SUBSET Outstanding : sold[b] = Tickets(Held) + Tickets(E)

\* And so are the quotas.
RowsInv(b) ==
  bpc[b] = "writeq" =>
    /\ \A u \in Users : rows[b][u] <= Limit
    /\ \E E \in SUBSET Outstanding :
         /\ \A u \in Users : rows[b][u] = HeldBy(u) + Tickets(Of(E, u))
         /\ E = Outstanding \/ lost \/ ReadsQuotas

QuotaInv ==
  \A u \in Users :
    /\ quota[u] <= Limit
    /\ ~lost /\ ~QuotasComing =>
         Covers(quota[u], HeldBy(u) + Tickets(Of(stream, u)) + Tickets(Of(Outstanding, u)))

\* Nothing is sold twice.
FitsInv == Tickets(Held) <= Total /\ \A u \in Users : HeldBy(u) <= Limit

BalanceInv ==
  /\ StreamInv /\ StockInv /\ QuotaInv /\ FitsInv
  /\ \A b \in Rebuilders : SoldInv(b) /\ RowsInv(b)

RecoveryInv == RecoveryTypeOK /\ ShapeInv /\ (odd # "race" => BalanceInv)

-----------------------------------------------------------------------------
(* How the number of tickets of a set of requests changes when a request   *)
(* is added or removed: the arithmetic behind every conservation proof.    *)

\* The tickets of one request are as many as its quantity.
LEMMA UnitsOfOne ==
  \A k \in Keys : IsFiniteSet(Units({k})) /\ Cardinality(Units({k})) = Qty[k]
<1> TAKE k \in Keys
<1>1. Units({k}) = {k} \X (1 .. Qty[k])
  BY DEF Units
<1>2. IsFiniteSet({k}) /\ Cardinality({k}) = 1
  BY FS_Singleton
<1>3. Qty[k] \in Nat \ {0}
  BY QtyAssumption
<1>4. IsFiniteSet(1 .. Qty[k]) /\ Cardinality(1 .. Qty[k]) = Qty[k]
  BY <1>3, FS_Interval
<1>5. /\ IsFiniteSet({k} \X (1 .. Qty[k]))
      /\ Cardinality({k} \X (1 .. Qty[k])) = Cardinality({k}) * Cardinality(1 .. Qty[k])
  BY <1>2, <1>4, FS_Product
<1>6. 1 * Qty[k] = Qty[k]
  BY <1>3
<1>7. Cardinality({k} \X (1 .. Qty[k])) = 1 * Qty[k]
  BY <1>2, <1>4, <1>5, Zenon
<1> QED
  BY <1>1, <1>5, <1>6, <1>7, Zenon

\* Finitely many requests ask for finitely many tickets.
LEMMA UnitsFinite ==
  \A K \in SUBSET Keys : IsFiniteSet(Units(K)) /\ Cardinality(Units(K)) \in Nat
<1> TAKE K \in SUBSET Keys
<1> DEFINE Part(k) == {k} \X (1 .. Qty[k])
           Parts == {Part(k) : k \in K}
           f == [k \in K |-> Part(k)]
<1>1. IsFiniteSet(K)
  BY KeysAssumption, FS_Subset
<1>2. f \in Surjection(K, Parts)
  BY DEF Surjection
<1>3. IsFiniteSet(Parts)
  <2> HIDE DEF Parts, f
  <2> QED BY <1>1, <1>2, FS_Surjection
<1>4. ASSUME NEW k \in K PROVE IsFiniteSet(Part(k))
  <2>1. Part(k) = Units({k}) BY DEF Units
  <2> QED BY <2>1, UnitsOfOne
<1>5. IsFiniteSet(UNION Parts)
  <2>1. \A T \in Parts : IsFiniteSet(T) BY <1>4
  <2> HIDE DEF Parts
  <2> QED BY <1>3, <2>1, FS_UNION
<1> QED
  BY <1>5, FS_CardinalityType DEF Units

\* A request that joins a set adds exactly its quantity.
LEMMA UnitsAdd ==
  \A K \in SUBSET Keys : \A k \in Keys \ K :
    Cardinality(Units(K \cup {k})) = Cardinality(Units(K)) + Qty[k]
<1> TAKE K \in SUBSET Keys
<1> TAKE k \in Keys \ K
<1>1. Units(K \cup {k}) = Units(K) \cup Units({k})
  BY DEF Units
<1>2. Units(K) \cap Units({k}) = {}
  BY DEF Units
<1>3. Cardinality({}) = 0
  BY FS_EmptySet
<1>4. /\ IsFiniteSet(Units(K)) /\ Cardinality(Units(K)) \in Nat
      /\ IsFiniteSet(Units({k})) /\ Cardinality(Units({k})) = Qty[k]
      /\ Qty[k] \in Nat
  BY UnitsFinite, UnitsOfOne, QtyAssumption
<1>5. Cardinality(Units(K) \cup Units({k})) =
        Cardinality(Units(K)) + Cardinality(Units({k})) - Cardinality(Units(K) \cap Units({k}))
  BY <1>4, FS_Union
<1>6. Cardinality(Units(K \cup {k})) = Cardinality(Units(K)) + Qty[k] - 0
  BY <1>1, <1>2, <1>3, <1>4, <1>5, Zenon
<1> QED
  BY <1>4, <1>6

\* A request that leaves a set takes exactly its quantity with it.
LEMMA UnitsRemove ==
  \A K \in SUBSET Keys : \A k \in K :
    Cardinality(Units(K)) = Cardinality(Units(K \ {k})) + Qty[k]
<1> TAKE K \in SUBSET Keys
<1> TAKE k \in K
<1>1. (K \ {k}) \cup {k} = K
  OBVIOUS
<1>2. Cardinality(Units((K \ {k}) \cup {k})) = Cardinality(Units(K \ {k})) + Qty[k]
  BY UnitsAdd
<1> QED
  BY <1>1, <1>2

\* What a request counts for with user u.
Share(k, u) == IF UserOf[k] = u THEN Qty[k] ELSE 0

LEMMA ShareFacts ==
  ASSUME NEW k \in Keys
  PROVE  /\ Qty[k] \in Nat /\ UserOf[k] \in Users
         /\ \A u : Share(k, u) \in Nat /\ (u # UserOf[k] => Share(k, u) = 0)
         /\ Share(k, UserOf[k]) = Qty[k]
BY QtyAssumption, UserOfAssumption DEF Share

\* Tickets are counted in natural numbers.
LEMMA TicketsCount ==
  ASSUME NEW S \in SUBSET Keys
  PROVE  /\ Tickets(S) \in Nat
         /\ \A u : Of(S, u) \in SUBSET S /\ Tickets(Of(S, u)) \in Nat
<1>1. \A u : Of(S, u) \in SUBSET S /\ Of(S, u) \in SUBSET Keys
  BY DEF Of
<1> QED
  BY <1>1, UnitsFinite DEF Tickets

LEMMA NoTickets ==
  Tickets({}) = 0 /\ \A u : Tickets(Of({}, u)) = 0
<1>1. Units({}) = {} /\ Cardinality({}) = 0
  BY FS_EmptySet DEF Units
<1>2. \A u : Of({}, u) = {}
  BY DEF Of
<1> QED
  BY <1>1, <1>2 DEF Tickets

\* A request joins a set, or leaves it.
LEMMA TicketsJoin ==
  ASSUME NEW S \in SUBSET Keys, NEW k \in Keys \ S
  PROVE  /\ Tickets(S \cup {k}) = Tickets(S) + Qty[k]
         /\ \A u : Tickets(Of(S \cup {k}, u)) = Tickets(Of(S, u)) + Share(k, u)
<1>1. Tickets(S \cup {k}) = Tickets(S) + Qty[k]
  BY UnitsAdd DEF Tickets
<1>2. ASSUME NEW u PROVE Tickets(Of(S \cup {k}, u)) = Tickets(Of(S, u)) + Share(k, u)
  <2>1. CASE UserOf[k] = u
    <3>1. Of(S \cup {k}, u) = Of(S, u) \cup {k} /\ Of(S, u) \in SUBSET Keys /\ k \notin Of(S, u)
      BY <2>1 DEF Of
    <3>2. Tickets(Of(S, u) \cup {k}) = Tickets(Of(S, u)) + Qty[k]
      BY <3>1, UnitsAdd DEF Tickets
    <3> QED
      BY <2>1, <3>1, <3>2 DEF Share
  <2>2. CASE UserOf[k] # u
    <3>1. Of(S \cup {k}, u) = Of(S, u)
      BY <2>2 DEF Of
    <3> QED
      BY <2>2, <3>1, TicketsCount DEF Share
  <2> QED
    BY <2>1, <2>2
<1> QED
  BY <1>1, <1>2

LEMMA TicketsLeave ==
  ASSUME NEW S \in SUBSET Keys, NEW k \in S
  PROVE  /\ Tickets(S) = Tickets(S \ {k}) + Qty[k]
         /\ \A u : Tickets(Of(S, u)) = Tickets(Of(S \ {k}, u)) + Share(k, u)
<1>1. (S \ {k}) \cup {k} = S /\ S \ {k} \in SUBSET Keys /\ k \in Keys \ (S \ {k})
  OBVIOUS
<1> DEFINE R == S \ {k}
<1>2. /\ Tickets(R \cup {k}) = Tickets(R) + Qty[k]
      /\ \A u : Tickets(Of(R \cup {k}, u)) = Tickets(Of(R, u)) + Share(k, u)
  <2> HIDE DEF R
  <2> QED BY <1>1, TicketsJoin DEF R
<1> QED
  BY <1>1, <1>2, Zenon

-----------------------------------------------------------------------------
(* Types, and what every step respects.                                    *)

LEMMA HeldCount ==
  ASSUME RecoveryTypeOK
  PROVE  /\ Held \in SUBSET Keys /\ Tickets(Held) \in Nat /\ \A u : HeldBy(u) \in Nat
         /\ Outstanding \in SUBSET Keys
<1>1. Held \in SUBSET Keys /\ Outstanding \in SUBSET Keys
  BY DEF Held, Outstanding, RecoveryTypeOK
<1> QED
  BY <1>1, TicketsCount DEF HeldBy

LEMMA RecoveryTypeNext ==
  ASSUME RecoveryTypeOK, ShapeInv, [Next]_vars
  PROVE  RecoveryTypeOK'
<1> USE DEF RecoveryTypeOK, postgres, redis, rebuild, cron, Goes, Noting
<1>1. ASSUME NEW k \in Keys, ReserveAndEnqueue(k) PROVE RecoveryTypeOK'
  <2>1. avail' \in Int /\ quota' \in [Users -> Nat]
    BY <1>1, ShareFacts DEF ReserveAndEnqueue
  <2> QED
    BY <1>1, <2>1 DEF ReserveAndEnqueue
<1>2. ASSUME NEW k \in Keys, PersistIntent(k) PROVE RecoveryTypeOK'
  <2>1. order' \in [Keys -> {"none", "held", "ended"}]
    BY <1>2 DEF PersistIntent
  <2> QED
    BY <1>2, <2>1 DEF PersistIntent
<1>3. ASSUME NEW k \in Keys, EndOrder(k) PROVE RecoveryTypeOK'
  BY <1>3 DEF EndOrder
<1>4. ASSUME NEW k \in Keys, Release(k) PROVE RecoveryTypeOK'
  <2>1. avail' \in Int /\ quota' \in [Users -> Nat]
    BY <1>4, ShareFacts DEF Release
  <2> QED
    BY <1>4, <2>1 DEF Release
<1>5. ASSUME NEW k \in Keys, TickOff(k) \/ ClaimExpires(k) PROVE RecoveryTypeOK'
  BY <1>5 DEF TickOff, ClaimExpires
<1>6. CASE TimePasses \/ PurgeKeys
  <2>1. CASE TimePasses
    BY <2>1 DEF TimePasses
  <2>2. CASE PurgeKeys
    <3>1. quota' \in [Users -> Nat] /\ lost' \in BOOLEAN /\ avail' \in Int
      BY <2>2 DEF PurgeKeys, NoQuota
    <3> QED
      BY <2>2, <3>1 DEF PurgeKeys
  <2> QED
    BY <1>6, <2>1, <2>2
<1>7. CASE LoseRedis
  BY <1>7, RecoveryAssumption DEF LoseRedis, NoQuota
<1>8. CASE ComputeExpected
  BY <1>8, HeldCount, BoundsAssumption DEF ComputeExpected, Rebuilders
<1>9. CASE CompareAvailable
  BY <1>9 DEF CompareAvailable, AuditOrRest, Rebuilders
<1>10. CASE AuditQuotas \/ StartScript
  BY <1>10 DEF AuditQuotas, StartScript, Rebuilders
<1>11. ASSUME NEW b \in Rebuilders, CheckBacklog(b) PROVE RecoveryTypeOK'
  BY <1>11 DEF CheckBacklog
<1>12. ASSUME NEW b \in Rebuilders, SumHeld(b) PROVE RecoveryTypeOK'
  <2>1. sold' \in [Rebuilders -> Nat]
    BY <1>12, HeldCount DEF SumHeld
  <2> QED
    BY <1>12, <2>1 DEF SumHeld
<1>13. ASSUME NEW b \in Rebuilders, SetAvailable(b) PROVE RecoveryTypeOK'
  <2>0. sold[b] \in Nat /\ Total \in Nat /\ avail' = Total - sold[b] /\ lost' = FALSE
        /\ sold' = [sold EXCEPT ![b] = 0]
    BY <1>13, BoundsAssumption DEF SetAvailable
  <2>1. avail' \in Int /\ lost' \in BOOLEAN /\ sold' \in [Rebuilders -> Nat]
    <3>1. avail' \in Int
      BY <2>0
    <3>2. sold \in [Rebuilders -> Nat] /\ 0 \in Nat
      OBVIOUS
    <3>3. sold' \in [Rebuilders -> Nat]
      BY <2>0, <3>2, Zenon
    <3> QED
      BY <2>0, <3>1, <3>3
  <2>2. bpc' \in [Rebuilders -> {"idle", "compare", "audit", "guard", "sum", "set", "readq",
                                 "writeq"}]
    BY <1>13 DEF SetAvailable
  <2> QED
    BY <1>13, <2>1, <2>2 DEF SetAvailable
<1>14. ASSUME NEW b \in Rebuilders, ReadQuotas(b) PROVE RecoveryTypeOK'
  <2>1. rows' \in [Rebuilders -> [Users -> Nat]]
    BY <1>14, HeldCount DEF ReadQuotas
  <2> QED
    BY <1>14, <2>1 DEF ReadQuotas
<1>15. ASSUME NEW b \in Rebuilders, WriteQuotas(b) PROVE RecoveryTypeOK'
  <2>1. rows' \in [Rebuilders -> [Users -> Nat]] /\ quota' \in [Users -> Nat]
    BY <1>15 DEF WriteQuotas, NoQuota
  <2> QED
    BY <1>15, <2>1 DEF WriteQuotas, AuditOrRest
<1>16. CASE UNCHANGED vars
  BY <1>16 DEF vars
<1> QED
  BY <1>1, <1>2, <1>3, <1>4, <1>5, <1>6, <1>7, <1>8, <1>9, <1>10, <1>11, <1>12, <1>13, <1>14,
     <1>15, <1>16
  DEF Next, RebuildStep

LEMMA ShapeNext ==
  ASSUME RecoveryTypeOK, ShapeInv, [Next]_vars
  PROVE  ShapeInv'
<1> USE DEF RecoveryTypeOK, ShapeInv, postgres, redis
<1>1. ASSUME NEW k \in Keys, ReserveAndEnqueue(k) PROVE ShapeInv'
  BY <1>1 DEF ReserveAndEnqueue
<1>2. ASSUME NEW k \in Keys, PersistIntent(k) PROVE ShapeInv'
  BY <1>2 DEF PersistIntent
<1>3. ASSUME NEW k \in Keys, EndOrder(k) PROVE ShapeInv'
  BY <1>3 DEF EndOrder
<1>4. ASSUME NEW k \in Keys, Release(k) \/ TickOff(k) \/ ClaimExpires(k) PROVE ShapeInv'
  BY <1>4 DEF Release, TickOff, ClaimExpires
<1>5. CASE TimePasses \/ PurgeKeys \/ LoseRedis
  BY <1>5 DEF TimePasses, PurgeKeys, LoseRedis
<1>6. CASE ComputeExpected \/ CompareAvailable \/ AuditQuotas \/ StartScript
  BY <1>6 DEF ComputeExpected, CompareAvailable, AuditQuotas, StartScript
<1>7. ASSUME NEW b \in Rebuilders, RebuildStep(b) PROVE ShapeInv'
  BY <1>7 DEF RebuildStep, CheckBacklog, SumHeld, SetAvailable, ReadQuotas, WriteQuotas
<1>8. CASE UNCHANGED vars
  BY <1>8 DEF vars
<1> QED
  BY <1>1, <1>2, <1>3, <1>4, <1>5, <1>6, <1>7, <1>8 DEF Next

\* What has happened stays on record.
LEMMA OddStep ==
  ASSUME RecoveryTypeOK, [Next]_vars
  PROVE  /\ odd' # "race" => odd # "race"
         /\ odd' = "nothing" => odd = "nothing"
<1>1. odd' = odd \/ \E leak, race \in BOOLEAN : Noting(leak, race)
  <2>1. ASSUME NEW k \in Keys, ReserveAndEnqueue(k) \/ Release(k) \/ PersistIntent(k)
        PROVE  \E leak, race \in BOOLEAN : Noting(leak, race)
    <3>1. Rebuilding \in BOOLEAN /\ (Rebuilding \/ lost) \in BOOLEAN
      BY DEF Rebuilding
    <3> QED
      BY <2>1, <3>1 DEF ReserveAndEnqueue, Release, PersistIntent
  <2>2. ASSUME NEW k \in Keys, EndOrder(k) \/ TickOff(k) \/ ClaimExpires(k) PROVE odd' = odd
    BY <2>2 DEF EndOrder, TickOff, ClaimExpires
  <2>3. ASSUME TimePasses \/ PurgeKeys \/ LoseRedis \/ ComputeExpected \/ CompareAvailable
                 \/ AuditQuotas \/ StartScript
        PROVE  odd' = odd
    BY <2>3
    DEF TimePasses, PurgeKeys, LoseRedis, ComputeExpected, CompareAvailable, AuditQuotas,
        StartScript
  <2>4. ASSUME NEW b \in Rebuilders, CheckBacklog(b) \/ SetAvailable(b) \/ WriteQuotas(b)
        PROVE  odd' = odd
    BY <2>4 DEF CheckBacklog, SetAvailable, WriteQuotas
  <2>5. ASSUME NEW b \in Rebuilders, SumHeld(b) \/ ReadQuotas(b)
        PROVE  \E leak, race \in BOOLEAN : Noting(leak, race)
    BY <2>5 DEF SumHeld, ReadQuotas
  <2>6. CASE UNCHANGED vars
    BY <2>6 DEF vars
  <2> QED
    BY <2>1, <2>2, <2>3, <2>4, <2>5, <2>6 DEF Next, RebuildStep
<1> QED
  BY <1>1 DEF Noting

-----------------------------------------------------------------------------
(* Steps that move no ticket.                                              *)

Busy == {"sum", "set", "readq", "writeq"}

LEMMA QuietStep ==
  ASSUME RecoveryTypeOK, BalanceInv,
         UNCHANGED <<lost, avail, quota, stream, sold, rows, odd>>,
         Held' = Held, Outstanding' = Outstanding,
         \A b \in Rebuilders :
           \/ bpc'[b] = bpc[b]
           \/ bpc[b] \notin Busy /\ bpc'[b] \notin Busy
           \/ bpc[b] \notin Busy /\ bpc'[b] = "sum" /\ stream = {}
  PROVE  BalanceInv'
<1>1. /\ Rebuilding' => Rebuilding \/ stream = {}
      /\ ReadsQuotas' <=> ReadsQuotas
      /\ QuotasComing' <=> QuotasComing
      /\ \A b \in Rebuilders : bpc'[b] \in {"set", "writeq"} => bpc[b] = bpc'[b]
  BY DEF Rebuilding, ReadsQuotas, QuotasComing, Busy
<1>2. \A u : HeldBy(u)' = HeldBy(u)
  BY DEF HeldBy
<1>3. StreamInv'
  BY <1>1 DEF BalanceInv, StreamInv
<1>4. StockInv'
  BY <1>1 DEF BalanceInv, StockInv, Covers
<1>5. QuotaInv'
  BY <1>1, <1>2 DEF BalanceInv, QuotaInv, Covers
<1>6. FitsInv'
  BY <1>2 DEF BalanceInv, FitsInv
<1>7. ASSUME NEW b \in Rebuilders PROVE SoldInv(b)' /\ RowsInv(b)'
  <2>1. SoldInv(b) /\ RowsInv(b)
    BY DEF BalanceInv
  <2>2. SoldInv(b)'
    BY <1>1, <2>1 DEF SoldInv
  <2>3. RowsInv(b)'
    BY <1>1, <1>2, <2>1 DEF RowsInv
  <2> QED
    BY <2>2, <2>3
<1> QED
  BY <1>3, <1>4, <1>5, <1>6, <1>7 DEF BalanceInv

LEMMA QuietActions ==
  ASSUME RecoveryTypeOK, ShapeInv, BalanceInv,
         \/ \E k \in Keys : TickOff(k) \/ ClaimExpires(k)
         \/ TimePasses \/ ComputeExpected \/ CompareAvailable \/ AuditQuotas \/ StartScript
         \/ \E b \in Rebuilders : CheckBacklog(b)
         \/ UNCHANGED vars
  PROVE  BalanceInv'
<1> USE DEF postgres, redis, rebuild, cron
<1>1. ASSUME NEW k \in Keys, TickOff(k) PROVE BalanceInv'
  <2>1. UNCHANGED <<order, lost, avail, quota, stream, markers, sold, rows, odd, bpc>>
    BY <1>1 DEF TickOff
  <2>2. Held' = Held /\ Outstanding' = Outstanding
    BY <1>1, <2>1 DEF TickOff, Held, Outstanding
  <2> QED
    BY <2>1, <2>2, QuietStep
<1>2. CASE TimePasses \/ (\E k \in Keys : ClaimExpires(k)) \/ UNCHANGED vars
  <2>1. UNCHANGED <<order, outbox, lost, avail, quota, stream, markers, sold, rows, odd, bpc>>
    BY <1>2 DEF TimePasses, ClaimExpires, vars
  <2>2. Held' = Held /\ Outstanding' = Outstanding
    BY <2>1 DEF Held, Outstanding
  <2> QED
    BY <2>1, <2>2, QuietStep
<1>3. ASSUME NEW b \in Rebuilders, NEW pc, Goes(b, pc), bpc[b] \notin Busy,
             pc \notin Busy \/ (pc = "sum" /\ stream = {}),
             UNCHANGED <<order, outbox, lost, avail, quota, stream, markers, sold, rows, odd>>
      PROVE  BalanceInv'
  <2>1. Held' = Held /\ Outstanding' = Outstanding
    BY <1>3 DEF Held, Outstanding
  <2>2. \A c \in Rebuilders : bpc'[c] = IF c = b THEN pc ELSE bpc[c]
    BY <1>3 DEF Goes, RecoveryTypeOK
  <2> QED
    BY <1>3, <2>1, <2>2, QuietStep
<1>4. CASE ComputeExpected \/ CompareAvailable \/ AuditQuotas \/ StartScript
  <2>1. UNCHANGED <<order, outbox, lost, avail, quota, stream, markers, sold, rows, odd>>
    BY <1>4 DEF ComputeExpected, CompareAvailable, AuditQuotas, StartScript
  <2>2. \E b \in Rebuilders, pc \in {"idle", "compare", "audit", "guard"} :
          Goes(b, pc) /\ bpc[b] \notin Busy
    BY <1>4
    DEF ComputeExpected, CompareAvailable, AuditOrRest, AuditQuotas, StartScript, Rebuilders,
        Busy
  <2>3. \A pc \in {"idle", "compare", "audit", "guard"} : pc \notin Busy
    BY DEF Busy
  <2> QED
    BY <1>3, <2>1, <2>2, <2>3
<1>5. ASSUME NEW b \in Rebuilders, CheckBacklog(b) PROVE BalanceInv'
  <2>1. UNCHANGED <<order, outbox, lost, avail, quota, stream, markers, sold, rows, odd>>
    BY <1>5 DEF CheckBacklog
  <2>2. /\ bpc[b] \notin Busy /\ "idle" \notin Busy
        /\ Goes(b, "idle") \/ (Goes(b, "sum") /\ stream = {})
    BY <1>5 DEF CheckBacklog, Busy
  <2> QED
    BY <1>3, <2>1, <2>2
<1> QED
  BY <1>1, <1>2, <1>4, <1>5

-----------------------------------------------------------------------------
(* Steps that move tickets.  Each is taken apart by the part of the        *)
(* invariant; a rebuild that is under way would make most of them a race.  *)

\* reserve_and_enqueue: the stock pays for the intent.
LEMMA ReserveStep ==
  ASSUME RecoveryTypeOK, ShapeInv, BalanceInv, NEW k \in Keys, ReserveAndEnqueue(k),
         odd' # "race", RecoveryTypeOK'
  PROVE  BalanceInv'
<1>1. /\ ~Rebuilding /\ odd' = odd /\ ~lost /\ k \notin stream
      /\ avail >= Qty[k] /\ quota[UserOf[k]] + Qty[k] <= Limit
      /\ avail' = avail - Qty[k] /\ stream' = stream \cup {k}
      /\ quota' = [quota EXCEPT ![UserOf[k]] = @ + Qty[k]]
      /\ UNCHANGED <<order, outbox, lost, markers, bpc, sold, rows>>
  BY DEF ReserveAndEnqueue, Noting, ShapeInv, postgres, rebuild
<1>2. /\ Held' = Held /\ Outstanding' = Outstanding /\ ~Rebuilding' /\ ~ReadsQuotas
      /\ ~ReadsQuotas' /\ ~QuotasComing /\ \A u : HeldBy(u)' = HeldBy(u)
  BY <1>1 DEF Held, Outstanding, Rebuilding, ReadsQuotas, QuotasComing, HeldBy
<1>j. stream \in SUBSET Keys /\ k \in Keys \ stream
  BY <1>1 DEF RecoveryTypeOK
<1>3. /\ Tickets(stream') = Tickets(stream) + Qty[k]
      /\ \A u : Tickets(Of(stream', u)) = Tickets(Of(stream, u)) + Share(k, u)
  <2>1. /\ Tickets(stream \cup {k}) = Tickets(stream) + Qty[k]
        /\ \A u : Tickets(Of(stream \cup {k}, u)) = Tickets(Of(stream, u)) + Share(k, u)
    BY <1>j, TicketsJoin
  <2> QED
    BY <1>1, <2>1, Zenon
<1>4. Tickets(stream) \in Nat /\ \A u : Tickets(Of(stream, u)) \in Nat
  BY <1>j, TicketsCount
<1>5. StockInv'
  <2>1. Covers(Total, avail + Tickets(Held) + Tickets(stream) + Tickets(Outstanding))
    BY <1>1, <1>2 DEF BalanceInv, StockInv
  <2>2. Tickets(Held) \in Nat /\ Tickets(Outstanding) \in Nat /\ avail \in Int /\ Qty[k] \in Nat
    BY HeldCount, TicketsCount, ShareFacts DEF RecoveryTypeOK
  <2>3. avail' + Tickets(Held) + Tickets(stream') + Tickets(Outstanding)
          = avail + Tickets(Held) + Tickets(stream) + Tickets(Outstanding)
    BY <1>1, <1>3, <1>4, <2>2
  <2>4. avail' >= 0
    BY <1>1, <2>2
  <2> QED
    BY <1>1, <1>2, <2>1, <2>3, <2>4 DEF StockInv, Covers
<1>6. QuotaInv'
  <2> SUFFICES ASSUME NEW u \in Users
               PROVE  /\ quota'[u] <= Limit
                      /\ Covers(quota'[u], HeldBy(u) + Tickets(Of(stream', u))
                                             + Tickets(Of(Outstanding, u)))
    BY <1>1, <1>2 DEF QuotaInv, Covers
  <2>1. /\ quota[u] <= Limit /\ quota[u] \in Nat
        /\ Covers(quota[u], HeldBy(u) + Tickets(Of(stream, u)) + Tickets(Of(Outstanding, u)))
    BY <1>1, <1>2 DEF BalanceInv, QuotaInv, RecoveryTypeOK
  <2>2. HeldBy(u) \in Nat /\ Tickets(Of(Outstanding, u)) \in Nat /\ Share(k, u) \in Nat
    BY HeldCount, TicketsCount, ShareFacts
  <2>3. quota'[u] = quota[u] + Share(k, u) /\ quota'[u] <= Limit
    BY <1>1, <2>1 DEF RecoveryTypeOK, Share
  <2> QED
    BY <1>3, <1>4, <2>1, <2>2, <2>3 DEF Covers
<1>7. FitsInv'
  BY <1>2 DEF BalanceInv, FitsInv
<1>8. StreamInv'
  BY <1>1, <1>2 DEF StreamInv
<1>9. \A b \in Rebuilders : SoldInv(b)' /\ RowsInv(b)'
  BY <1>1 DEF Rebuilding, SoldInv, RowsInv
<1> QED
  BY <1>5, <1>6, <1>7, <1>8, <1>9 DEF BalanceInv

\* The consumer: tickets on their way become held ones, or nobody's when the key
\* has an order already.
LEMMA PersistStep ==
  ASSUME RecoveryTypeOK, ShapeInv, BalanceInv, NEW k \in Keys, PersistIntent(k),
         odd' # "race", RecoveryTypeOK'
  PROVE  BalanceInv'
<1>1. /\ k \in stream /\ stream' = stream \ {k}
      /\ order' = [order EXCEPT ![k] = IF @ = "none" THEN "held" ELSE @]
      /\ odd' = "nothing" => odd = "nothing" /\ order[k] = "none"
      /\ UNCHANGED <<outbox, lost, avail, quota, markers, bpc, sold, rows>>
  BY DEF PersistIntent, Noting, RecoveryTypeOK, rebuild
<1>2. /\ ~lost /\ ~Rebuilding /\ ~Rebuilding' /\ ~ReadsQuotas /\ ~QuotasComing
      /\ Outstanding' = Outstanding
  BY <1>1 DEF BalanceInv, StreamInv, Rebuilding, ReadsQuotas, QuotasComing, Outstanding
<1>3. /\ Tickets(stream) = Tickets(stream') + Qty[k]
      /\ \A u : Tickets(Of(stream, u)) = Tickets(Of(stream', u)) + Share(k, u)
  <2>1. stream \in SUBSET Keys
    BY DEF RecoveryTypeOK
  <2>2. /\ Tickets(stream) = Tickets(stream \ {k}) + Qty[k]
        /\ \A u : Tickets(Of(stream, u)) = Tickets(Of(stream \ {k}, u)) + Share(k, u)
    BY <1>1, <2>1, TicketsLeave
  <2> QED
    BY <1>1, <2>2, Zenon
<1>4. /\ Tickets(Held') <= Tickets(Held) + Qty[k]
      /\ order[k] = "none" => Tickets(Held') = Tickets(Held) + Qty[k]
      /\ \A u : /\ Tickets(Of(Held', u)) <= HeldBy(u) + Share(k, u)
                /\ order[k] = "none" => Tickets(Of(Held', u)) = HeldBy(u) + Share(k, u)
  <2>0. Held \in SUBSET Keys /\ Tickets(Held) \in Nat /\ (\A u : HeldBy(u) \in Nat)
        /\ Qty[k] \in Nat /\ (\A u : Share(k, u) \in Nat)
    BY HeldCount, ShareFacts
  <2>1. CASE order[k] = "none"
    <3>1. k \in Keys \ Held /\ Held' = Held \cup {k}
      BY <1>1, <2>1 DEF Held, RecoveryTypeOK
    <3>2. /\ Tickets(Held \cup {k}) = Tickets(Held) + Qty[k]
          /\ \A u : Tickets(Of(Held \cup {k}, u)) = Tickets(Of(Held, u)) + Share(k, u)
      BY <2>0, <3>1, TicketsJoin
    <3>3. /\ Tickets(Held') = Tickets(Held) + Qty[k]
          /\ \A u : Tickets(Of(Held', u)) = HeldBy(u) + Share(k, u)
      BY <3>1, <3>2, Zenon DEF HeldBy
    <3> QED
      BY <2>0, <3>3
  <2>2. CASE order[k] # "none"
    <3>1. Held' = Held
      BY <1>1, <2>2 DEF Held, RecoveryTypeOK
    <3>2. \A u : Tickets(Of(Held', u)) = HeldBy(u)
      BY <3>1 DEF HeldBy
    <3> QED
      BY <2>0, <2>2, <3>1, <3>2
  <2> QED
    BY <2>1, <2>2
<1>5. /\ Tickets(Held') \in Nat /\ Tickets(Held) \in Nat /\ Tickets(stream') \in Nat
      /\ Tickets(Outstanding) \in Nat /\ avail \in Int /\ Qty[k] \in Nat /\ Total \in Nat
      /\ \A u : /\ Tickets(Of(Held', u)) \in Nat /\ HeldBy(u) \in Nat
                /\ Tickets(Of(stream', u)) \in Nat /\ Tickets(Of(Outstanding, u)) \in Nat
                /\ Share(k, u) \in Nat
  <2>1. Held' \in SUBSET Keys /\ stream' \in SUBSET Keys /\ avail \in Int
    BY DEF Held, RecoveryTypeOK
  <2> QED
    BY <2>1, HeldCount, TicketsCount, ShareFacts, BoundsAssumption
<1>6. Covers(Total, avail + Tickets(Held) + Tickets(stream) + Tickets(Outstanding)) /\ avail >= 0
  BY <1>2 DEF BalanceInv, StockInv
<1>7. ASSUME NEW u \in Users
      PROVE  /\ quota[u] <= Limit /\ quota[u] \in Nat
             /\ Covers(quota[u], HeldBy(u) + Tickets(Of(stream, u)) + Tickets(Of(Outstanding, u)))
  BY <1>2 DEF BalanceInv, QuotaInv, RecoveryTypeOK
<1>8. StockInv'
  <2>1. /\ Total >= avail + Tickets(Held') + Tickets(stream') + Tickets(Outstanding)
        /\ odd' = "nothing" =>
             Total = avail + Tickets(Held') + Tickets(stream') + Tickets(Outstanding)
    BY <1>1, <1>3, <1>4, <1>5, <1>6 DEF Covers
  <2> QED
    BY <1>1, <1>2, <1>6, <2>1 DEF StockInv, Covers
<1>9. QuotaInv'
  <2> SUFFICES ASSUME NEW u \in Users
               PROVE  /\ quota[u] <= Limit
                      /\ quota[u] >= Tickets(Of(Held', u)) + Tickets(Of(stream', u))
                                       + Tickets(Of(Outstanding, u))
                      /\ odd' = "nothing" =>
                           quota[u] = Tickets(Of(Held', u)) + Tickets(Of(stream', u))
                                        + Tickets(Of(Outstanding, u))
    BY <1>1, <1>2 DEF QuotaInv, Covers, HeldBy
  <2> DEFINE h == Tickets(Of(Held', u))
             g == HeldBy(u)
             s == Tickets(Of(stream', u))
             o == Tickets(Of(Outstanding, u))
             c == Share(k, u)
  <2>1. /\ h \in Nat /\ g \in Nat /\ s \in Nat /\ o \in Nat /\ c \in Nat /\ quota[u] \in Nat
        /\ h <= g + c /\ (order[k] = "none" => h = g + c) /\ Tickets(Of(stream, u)) = s + c
    BY <1>3, <1>4, <1>5, <1>7
  <2>2. /\ quota[u] <= Limit /\ quota[u] >= g + (s + c) + o
        /\ odd = "nothing" => quota[u] = g + (s + c) + o
    BY <1>7, <2>1 DEF Covers
  <2> HIDE DEF h, g, s, o, c
  <2>3. quota[u] >= h + s + o /\ (odd' = "nothing" => quota[u] = h + s + o)
    BY <1>1, <2>1, <2>2
  <2> QED
    BY <2>2, <2>3 DEF h, s, o
<1>10. FitsInv'
  <2>1. Tickets(Held') <= Total
    BY <1>3, <1>4, <1>5, <1>6 DEF Covers
  <2>2. ASSUME NEW u \in Users PROVE Tickets(Of(Held', u)) <= Limit
    BY <1>3, <1>4, <1>5, <1>7, BoundsAssumption DEF Covers
  <2> QED
    BY <2>1, <2>2 DEF FitsInv, HeldBy
<1>11. StreamInv'
  BY <1>1, <1>2 DEF StreamInv
<1>12. \A b \in Rebuilders : SoldInv(b)' /\ RowsInv(b)'
  BY <1>1, <1>2 DEF Rebuilding, SoldInv, RowsInv
<1> QED
  BY <1>8, <1>9, <1>10, <1>11, <1>12 DEF BalanceInv

\* What is really owed, after the end of an order: E with the order.
LEMMA OwedJoins ==
  ASSUME RecoveryTypeOK, ShapeInv, NEW k \in Keys, order[k] = "held", NEW E \in SUBSET Outstanding
  PROVE  /\ k \notin E /\ Tickets(E \cup {k}) = Tickets(E) + Qty[k] /\ Tickets(E) \in Nat
         /\ \A u : /\ Tickets(Of(E \cup {k}, u)) = Tickets(Of(E, u)) + Share(k, u)
                   /\ Tickets(Of(E, u)) \in Nat
<1>1. k \notin E /\ E \in SUBSET Keys
  BY DEF ShapeInv, Outstanding, RecoveryTypeOK
<1> QED
  BY <1>1, TicketsJoin, TicketsCount

\* cancel_order and expire_order: held tickets become owed ones, also for a rebuild
\* that has counted them.
LEMMA EndStep ==
  ASSUME RecoveryTypeOK, ShapeInv, BalanceInv, NEW k \in Keys, EndOrder(k)
  PROVE  BalanceInv'
<1>1. /\ order[k] = "held" /\ order' = [order EXCEPT ![k] = "ended"] /\ outbox' = outbox \cup {k}
      /\ UNCHANGED <<lost, avail, quota, stream, markers, bpc, sold, rows, odd>>
  BY DEF EndOrder, redis, rebuild
<1>2. /\ Held' = Held \ {k} /\ k \in Held /\ Outstanding' = Outstanding \cup {k}
      /\ Rebuilding' = Rebuilding /\ ReadsQuotas' = ReadsQuotas /\ QuotasComing' = QuotasComing
  BY <1>1
  DEF RecoveryTypeOK, ShapeInv, Held, Outstanding, Rebuilding, ReadsQuotas, QuotasComing
<1>3. /\ Tickets(Held) = Tickets(Held') + Qty[k]
      /\ \A u : HeldBy(u) = Tickets(Of(Held', u)) + Share(k, u)
  <2>1. Held \in SUBSET Keys
    BY HeldCount
  <2>2. /\ Tickets(Held) = Tickets(Held \ {k}) + Qty[k]
        /\ \A u : Tickets(Of(Held, u)) = Tickets(Of(Held \ {k}, u)) + Share(k, u)
    BY <1>2, <2>1, TicketsLeave
  <2> QED
    BY <1>2, <2>2, Zenon DEF HeldBy
<1>4. /\ Tickets(Held') \in Nat /\ Qty[k] \in Nat
      /\ \A u : Tickets(Of(Held', u)) \in Nat /\ Share(k, u) \in Nat
  <2>1. Held' \in SUBSET Keys
    BY <1>2 DEF Held
  <2> QED
    BY <2>1, TicketsCount, ShareFacts
<1>5. /\ Tickets(stream) \in Nat /\ avail \in Int /\ Total \in Nat /\ Limit \in Nat
      /\ \A u : Tickets(Of(stream, u)) \in Nat
  BY TicketsCount, BoundsAssumption DEF RecoveryTypeOK
<1>6. StockInv'
  <2> SUFFICES ASSUME ~lost PROVE StockInv'
    BY <1>1 DEF StockInv
  <2>1. PICK E \in SUBSET Outstanding :
          /\ Covers(Total, avail + Tickets(Held) + Tickets(stream) + Tickets(E))
          /\ E = Outstanding \/ ReadsQuotas
    BY DEF BalanceInv, StockInv
  <2>2. avail + Tickets(Held') + Tickets(stream) + Tickets(E \cup {k})
          = avail + Tickets(Held) + Tickets(stream) + Tickets(E)
    <3>1. Tickets(E \cup {k}) = Tickets(E) + Qty[k] /\ Tickets(E) \in Nat
      BY <1>1, OwedJoins
    <3> QED
      BY <1>3, <1>4, <1>5, <3>1
  <2>3. /\ E \cup {k} \in SUBSET Outstanding' /\ avail >= 0
        /\ E \cup {k} = Outstanding' \/ ReadsQuotas'
    BY <1>2, <2>1 DEF BalanceInv, StockInv
  <2> QED
    BY <1>1, <2>1, <2>2, <2>3 DEF StockInv, Covers
<1>7. QuotaInv'
  <2> SUFFICES ASSUME NEW u \in Users
               PROVE  /\ quota[u] <= Limit
                      /\ ~lost /\ ~QuotasComing =>
                           Covers(quota[u], Tickets(Of(Held', u)) + Tickets(Of(stream, u))
                                              + Tickets(Of(Outstanding', u)))
    BY <1>1, <1>2 DEF QuotaInv, Covers, HeldBy
  <2>1. /\ quota[u] <= Limit
        /\ ~lost /\ ~QuotasComing =>
             Covers(quota[u], HeldBy(u) + Tickets(Of(stream, u)) + Tickets(Of(Outstanding, u)))
    BY DEF BalanceInv, QuotaInv
  <2>2. /\ Tickets(Of(Outstanding', u)) = Tickets(Of(Outstanding, u)) + Share(k, u)
        /\ Tickets(Of(Outstanding, u)) \in Nat
    <3>1. /\ Tickets(Of(Outstanding \cup {k}, u)) = Tickets(Of(Outstanding, u)) + Share(k, u)
          /\ Tickets(Of(Outstanding, u)) \in Nat
      BY <1>1, OwedJoins
    <3> QED
      BY <1>2, <3>1, Zenon
  <2>3. Tickets(Of(Held', u)) + Tickets(Of(stream, u)) + Tickets(Of(Outstanding', u))
          = HeldBy(u) + Tickets(Of(stream, u)) + Tickets(Of(Outstanding, u))
    BY <1>3, <1>4, <1>5, <2>2
  <2> QED
    BY <2>1, <2>3
<1>8. FitsInv'
  <2>1. Tickets(Held) <= Total /\ \A u \in Users : HeldBy(u) <= Limit
    BY DEF BalanceInv, FitsInv
  <2>2. Tickets(Held') <= Total
    BY <1>3, <1>4, <1>5, <2>1
  <2>3. \A u \in Users : Tickets(Of(Held', u)) <= Limit
    BY <1>3, <1>4, <1>5, <2>1
  <2> QED
    BY <2>2, <2>3 DEF FitsInv, HeldBy
<1>9. StreamInv'
  BY <1>1, <1>2 DEF BalanceInv, StreamInv
<1>10. ASSUME NEW b \in Rebuilders PROVE SoldInv(b)'
  <2> SUFFICES ASSUME bpc[b] = "set" PROVE SoldInv(b)'
    BY <1>1 DEF SoldInv
  <2>1. PICK E \in SUBSET Outstanding : sold[b] = Tickets(Held) + Tickets(E)
    BY DEF BalanceInv, SoldInv
  <2>2. sold[b] = Tickets(Held') + Tickets(E \cup {k})
    <3>1. Tickets(E \cup {k}) = Tickets(E) + Qty[k] /\ Tickets(E) \in Nat
      BY <1>1, OwedJoins
    <3> QED
      BY <1>3, <1>4, <2>1, <3>1
  <2>3. E \cup {k} \in SUBSET Outstanding' /\ sold[b] <= Total
    BY <1>2 DEF BalanceInv, SoldInv
  <2> QED
    BY <1>1, <2>2, <2>3 DEF SoldInv
<1>11. ASSUME NEW b \in Rebuilders PROVE RowsInv(b)'
  <2> SUFFICES ASSUME bpc[b] = "writeq" PROVE RowsInv(b)'
    BY <1>1 DEF RowsInv
  <2>1. PICK E \in SUBSET Outstanding :
          /\ \A u \in Users : rows[b][u] = HeldBy(u) + Tickets(Of(E, u))
          /\ E = Outstanding \/ lost \/ ReadsQuotas
    BY DEF BalanceInv, RowsInv
  <2>2. ASSUME NEW u \in Users
        PROVE  rows[b][u] = Tickets(Of(Held', u)) + Tickets(Of(E \cup {k}, u))
    <3>1. /\ Tickets(Of(E \cup {k}, u)) = Tickets(Of(E, u)) + Share(k, u)
          /\ Tickets(Of(E, u)) \in Nat
      BY <1>1, OwedJoins
    <3> QED
      BY <1>3, <1>4, <2>1, <3>1
  <2>3. /\ E \cup {k} \in SUBSET Outstanding' /\ \A u \in Users : rows[b][u] <= Limit
        /\ E \cup {k} = Outstanding' \/ lost \/ ReadsQuotas
    BY <1>2, <2>1 DEF BalanceInv, RowsInv
  <2> QED
    BY <1>1, <1>2, <2>2, <2>3 DEF RowsInv, HeldBy
<1> QED
  BY <1>6, <1>7, <1>8, <1>9, <1>10, <1>11 DEF BalanceInv

\* The release script gives back what is owed; it never meets an empty quota.
LEMMA ReleaseStep ==
  ASSUME RecoveryTypeOK, ShapeInv, BalanceInv, NEW k \in Keys, Release(k),
         odd' # "race", RecoveryTypeOK'
  PROVE  BalanceInv'
<1>1. /\ ~Rebuilding /\ ~lost /\ ~lost' /\ odd' = odd /\ k \in outbox \ markers
      /\ markers' = markers \cup {k} /\ avail' = avail + Qty[k]
      /\ quota' = [quota EXCEPT ![UserOf[k]] =
                     IF quota[UserOf[k]] - Qty[k] < 0 THEN 0 ELSE quota[UserOf[k]] - Qty[k]]
      /\ UNCHANGED <<order, outbox, stream, bpc, sold, rows>>
  BY DEF Release, Noting, postgres, rebuild
<1>2. /\ Held' = Held /\ k \in Outstanding /\ Outstanding' = Outstanding \ {k} /\ ~Rebuilding'
      /\ ~ReadsQuotas /\ ~QuotasComing /\ \A u : HeldBy(u)' = HeldBy(u)
  BY <1>1 DEF Held, Outstanding, Rebuilding, ReadsQuotas, QuotasComing, HeldBy
<1>3. /\ Tickets(Outstanding) = Tickets(Outstanding') + Qty[k]
      /\ \A u : Tickets(Of(Outstanding, u)) = Tickets(Of(Outstanding', u)) + Share(k, u)
  <2>1. Outstanding \in SUBSET Keys
    BY HeldCount
  <2>2. /\ Tickets(Outstanding) = Tickets(Outstanding \ {k}) + Qty[k]
        /\ \A u : Tickets(Of(Outstanding, u)) = Tickets(Of(Outstanding \ {k}, u)) + Share(k, u)
    BY <1>2, <2>1, TicketsLeave
  <2> QED
    BY <1>2, <2>2, Zenon
<1>4. /\ Tickets(Outstanding') \in Nat /\ Tickets(Held) \in Nat /\ Tickets(stream) \in Nat
      /\ avail \in Int /\ Qty[k] \in Nat
      /\ \A u : /\ Tickets(Of(Outstanding', u)) \in Nat /\ HeldBy(u) \in Nat
                /\ Tickets(Of(stream, u)) \in Nat /\ Share(k, u) \in Nat
  <2>1. Outstanding' \in SUBSET Keys /\ stream \in SUBSET Keys /\ avail \in Int
    BY DEF Outstanding, RecoveryTypeOK
  <2> QED
    BY <2>1, HeldCount, TicketsCount, ShareFacts
<1>5. StockInv'
  <2>1. Covers(Total, avail + Tickets(Held) + Tickets(stream) + Tickets(Outstanding)) /\ avail >= 0
    BY <1>1, <1>2 DEF BalanceInv, StockInv
  <2>2. avail' + Tickets(Held) + Tickets(stream) + Tickets(Outstanding')
          = avail + Tickets(Held) + Tickets(stream) + Tickets(Outstanding)
    BY <1>1, <1>3, <1>4
  <2>3. avail' >= 0
    BY <1>1, <1>4, <2>1
  <2> QED
    BY <1>1, <1>2, <2>1, <2>2, <2>3 DEF StockInv, Covers
<1>6. QuotaInv'
  <2> SUFFICES ASSUME NEW u \in Users
               PROVE  /\ quota'[u] <= Limit
                      /\ Covers(quota'[u], HeldBy(u) + Tickets(Of(stream, u))
                                             + Tickets(Of(Outstanding', u)))
    BY <1>1, <1>2 DEF QuotaInv, Covers
  <2> DEFINE g == HeldBy(u)
             s == Tickets(Of(stream, u))
             o == Tickets(Of(Outstanding', u))
             c == Share(k, u)
  <2>1. /\ g \in Nat /\ s \in Nat /\ o \in Nat /\ c \in Nat /\ quota[u] \in Nat
        /\ Tickets(Of(Outstanding, u)) = o + c /\ Limit \in Nat
    BY <1>3, <1>4, BoundsAssumption DEF RecoveryTypeOK
  <2>2. /\ quota[u] <= Limit /\ quota[u] >= g + s + (o + c)
        /\ odd = "nothing" => quota[u] = g + s + (o + c)
    BY <1>1, <1>2, <2>1 DEF BalanceInv, QuotaInv, Covers
  <2>3. quota'[u] = IF quota[u] - c < 0 THEN 0 ELSE quota[u] - c
    BY <1>1, <2>1 DEF RecoveryTypeOK, Share
  <2> HIDE DEF g, s, o, c
  <2>4. /\ quota'[u] <= Limit /\ quota'[u] >= g + s + o
        /\ odd = "nothing" => quota'[u] = g + s + o
    BY <2>1, <2>2, <2>3
  <2> QED
    BY <2>4 DEF g, s, o, Covers
<1>7. FitsInv' /\ StreamInv'
  BY <1>1, <1>2 DEF BalanceInv, FitsInv, StreamInv
<1>8. \A b \in Rebuilders : SoldInv(b)' /\ RowsInv(b)'
  BY <1>1 DEF Rebuilding, SoldInv, RowsInv
<1> QED
  BY <1>5, <1>6, <1>7, <1>8 DEF BalanceInv

\* Redis comes back empty, or the keys of an old event are purged: what a rebuild
\* has read stays as good as it was.
LEMMA LossStep ==
  ASSUME RecoveryTypeOK, ShapeInv, BalanceInv, LoseRedis \/ PurgeKeys
  PROVE  BalanceInv'
<1>1. /\ lost' /\ quota' = NoQuota /\ stream' = {} /\ markers' \subseteq markers
      /\ UNCHANGED <<order, outbox, bpc, sold, rows, odd>>
  BY DEF LoseRedis, PurgeKeys, ShapeInv, postgres, rebuild
<1>2. /\ Held' = Held /\ Outstanding \subseteq Outstanding' /\ \A u : HeldBy(u)' = HeldBy(u)
  BY <1>1 DEF Held, Outstanding, HeldBy
<1>3. StreamInv' /\ StockInv'
  BY <1>1 DEF StreamInv, StockInv
<1>4. QuotaInv'
  BY <1>1, BoundsAssumption DEF QuotaInv, NoQuota
<1>5. FitsInv'
  BY <1>2 DEF BalanceInv, FitsInv
<1>6. ASSUME NEW b \in Rebuilders PROVE SoldInv(b)' /\ RowsInv(b)'
  <2>1. SoldInv(b) /\ RowsInv(b)
    BY DEF BalanceInv
  <2>2. SoldInv(b)'
    BY <1>1, <1>2, <2>1 DEF SoldInv
  <2>3. RowsInv(b)'
    <3> SUFFICES ASSUME bpc[b] = "writeq" PROVE RowsInv(b)'
      BY <1>1 DEF RowsInv
    <3>1. PICK E \in SUBSET Outstanding :
            \A u \in Users : rows[b][u] = HeldBy(u) + Tickets(Of(E, u))
      BY <2>1 DEF RowsInv
    <3>2. E \in SUBSET Outstanding' /\ \A u \in Users : rows[b][u] <= Limit
      BY <1>2, <2>1 DEF RowsInv
    <3> QED
      BY <1>1, <1>2, <3>1, <3>2 DEF RowsInv
  <2> QED
    BY <2>2, <2>3
<1> QED
  BY <1>3, <1>4, <1>5, <1>6 DEF BalanceInv

-----------------------------------------------------------------------------
(* The steps of a rebuild.                                                 *)

\* The other rebuild stays where it is.
LEMMA GoesOn ==
  ASSUME RecoveryTypeOK, NEW b \in Rebuilders, NEW pc, Goes(b, pc)
  PROVE  bpc'[b] = pc /\ \A c \in Rebuilders \ {b} : bpc'[c] = bpc[c]
BY DEF RecoveryTypeOK, Goes

\* The rebuild sums what is held; nothing may be owed then.
LEMMA SumStep ==
  ASSUME RecoveryTypeOK, ShapeInv, BalanceInv, NEW b \in Rebuilders, SumHeld(b), odd' # "race"
  PROVE  BalanceInv'
<1>1. /\ Outstanding = {} /\ odd' = odd /\ bpc[b] = "sum"
      /\ sold' = [sold EXCEPT ![b] = Tickets(Held)]
      /\ UNCHANGED <<order, outbox, lost, avail, quota, stream, markers, rows>>
  BY DEF SumHeld, Noting, postgres, redis
<1>2. bpc'[b] = "set" /\ \A c \in Rebuilders \ {b} : bpc'[c] = bpc[c]
  BY GoesOn DEF SumHeld
<1>3. /\ Held' = Held /\ Outstanding' = Outstanding /\ \A u : HeldBy(u)' = HeldBy(u)
  BY <1>1 DEF Held, Outstanding, HeldBy
<1>4. Rebuilding /\ (ReadsQuotas' <=> ReadsQuotas) /\ (QuotasComing' <=> QuotasComing)
  BY <1>1, <1>2 DEF Rebuilding, ReadsQuotas, QuotasComing
<1>5. StreamInv' /\ FitsInv'
  BY <1>1, <1>3, <1>4 DEF BalanceInv, StreamInv, FitsInv
<1>6. StockInv'
  BY <1>1, <1>3, <1>4 DEF BalanceInv, StockInv, Covers
<1>7. QuotaInv'
  BY <1>1, <1>3, <1>4 DEF BalanceInv, QuotaInv, Covers
<1>8. SoldInv(b)' /\ RowsInv(b)'
  <2>1. sold'[b] = Tickets(Held) /\ Tickets(Held) <= Total /\ Tickets(Held) \in Nat
    BY <1>1, HeldCount DEF BalanceInv, FitsInv, RecoveryTypeOK
  <2>2. sold'[b] = Tickets(Held) + Tickets({})
    BY <2>1, NoTickets
  <2> QED
    BY <1>2, <1>3, <2>1, <2>2 DEF SoldInv, RowsInv
<1>9. ASSUME NEW c \in Rebuilders \ {b} PROVE SoldInv(c)' /\ RowsInv(c)'
  <2>1. SoldInv(c) /\ RowsInv(c) /\ bpc'[c] = bpc[c] /\ sold'[c] = sold[c]
    BY <1>1, <1>2 DEF BalanceInv, RecoveryTypeOK
  <2>2. SoldInv(c)'
    BY <1>3, <2>1 DEF SoldInv
  <2>3. RowsInv(c)'
    BY <1>1, <1>3, <1>4, <2>1 DEF RowsInv
  <2> QED
    BY <2>2, <2>3
<1> QED
  BY <1>5, <1>6, <1>7, <1>8, <1>9 DEF BalanceInv

\* The counter is written; from here on the quotas are on their way.
LEMMA SetStep ==
  ASSUME RecoveryTypeOK, ShapeInv, BalanceInv, NEW b \in Rebuilders, SetAvailable(b)
  PROVE  BalanceInv'
<1>1. /\ bpc[b] = "set" /\ avail' = Total - sold[b] /\ ~lost'
      /\ sold' = [sold EXCEPT ![b] = 0]
      /\ UNCHANGED <<order, outbox, quota, stream, markers, rows, odd>>
  BY DEF SetAvailable, postgres
<1>2. bpc'[b] = "readq" /\ \A c \in Rebuilders \ {b} : bpc'[c] = bpc[c]
  BY GoesOn DEF SetAvailable
<1>3. /\ Held' = Held /\ Outstanding' = Outstanding /\ \A u : HeldBy(u)' = HeldBy(u)
  BY <1>1 DEF Held, Outstanding, HeldBy
<1>4. Rebuilding /\ ReadsQuotas' /\ QuotasComing' /\ stream = {}
  BY <1>1, <1>2 DEF Rebuilding, ReadsQuotas, QuotasComing, BalanceInv, StreamInv
<1>5. StreamInv' /\ FitsInv'
  BY <1>1, <1>3, <1>4 DEF BalanceInv, StreamInv, FitsInv
<1>6. StockInv'
  <2>1. PICK E \in SUBSET Outstanding : sold[b] = Tickets(Held) + Tickets(E)
    BY <1>1 DEF BalanceInv, SoldInv
  <2>2. sold[b] <= Total /\ sold[b] \in Nat /\ Total \in Nat
    BY <1>1, BoundsAssumption DEF BalanceInv, SoldInv, RecoveryTypeOK
  <2>3. Tickets(Held) \in Nat /\ Tickets(E) \in Nat /\ Tickets(stream') = 0
    <3>1. E \in SUBSET Keys
      BY HeldCount
    <3> QED
      BY <1>1, <1>4, <3>1, HeldCount, TicketsCount, NoTickets
  <2>4. avail' >= 0 /\ Total = avail' + Tickets(Held) + Tickets(stream') + Tickets(E)
    BY <1>1, <2>1, <2>2, <2>3
  <2> QED
    BY <1>3, <1>4, <2>2, <2>4 DEF StockInv, Covers
<1>7. QuotaInv'
  BY <1>1, <1>4 DEF BalanceInv, QuotaInv
<1>8. SoldInv(b)' /\ RowsInv(b)'
  BY <1>2 DEF SoldInv, RowsInv
<1>9. ASSUME NEW c \in Rebuilders \ {b} PROVE SoldInv(c)' /\ RowsInv(c)'
  <2>1. SoldInv(c) /\ RowsInv(c) /\ bpc'[c] = bpc[c] /\ sold'[c] = sold[c]
    BY <1>1, <1>2 DEF BalanceInv, RecoveryTypeOK
  <2>2. SoldInv(c)'
    BY <1>3, <2>1 DEF SoldInv
  <2>3. RowsInv(c)'
    BY <1>1, <1>3, <1>4, <2>1 DEF RowsInv
  <2> QED
    BY <2>2, <2>3
<1> QED
  BY <1>5, <1>6, <1>7, <1>8, <1>9 DEF BalanceInv

\* The quotas are read, and a release that a loss made owed again is noticed.
LEMMA ReadStep ==
  ASSUME RecoveryTypeOK, ShapeInv, BalanceInv, NEW b \in Rebuilders, ReadQuotas(b), odd' # "race"
  PROVE  BalanceInv'
<1>1. /\ Outstanding = {} /\ odd' = odd /\ bpc[b] = "readq"
      /\ rows' = [rows EXCEPT ![b] = [u \in Users |-> HeldBy(u)]]
      /\ UNCHANGED <<order, outbox, lost, avail, quota, stream, markers, sold>>
  BY DEF ReadQuotas, Noting, postgres, redis
<1>2. bpc'[b] = "writeq" /\ \A c \in Rebuilders \ {b} : bpc'[c] = bpc[c]
  BY GoesOn DEF ReadQuotas
<1>3. /\ Held' = Held /\ Outstanding' = {} /\ \A u : HeldBy(u)' = HeldBy(u)
  BY <1>1 DEF Held, Outstanding, HeldBy
<1>4. Rebuilding /\ QuotasComing' /\ \A E \in SUBSET Outstanding : E = Outstanding'
  BY <1>1, <1>2, <1>3 DEF Rebuilding, QuotasComing
<1>5. StreamInv' /\ FitsInv'
  BY <1>1, <1>3, <1>4 DEF BalanceInv, StreamInv, FitsInv
<1>6. StockInv'
  BY <1>1, <1>3, <1>4 DEF BalanceInv, StockInv, Covers
<1>7. QuotaInv'
  BY <1>1, <1>4 DEF BalanceInv, QuotaInv
<1>8. SoldInv(b)' /\ RowsInv(b)'
  <2>1. ASSUME NEW u \in Users
        PROVE  rows'[b][u] = HeldBy(u) + Tickets(Of({}, u)) /\ rows'[b][u] <= Limit
    <3>1. rows'[b][u] = HeldBy(u) /\ HeldBy(u) <= Limit
      BY <1>1 DEF BalanceInv, FitsInv, RecoveryTypeOK
    <3>2. HeldBy(u) \in Nat /\ Tickets(Of({}, u)) = 0
      BY HeldCount, NoTickets
    <3> QED
      BY <3>1, <3>2
  <2> QED
    BY <1>2, <1>3, <2>1 DEF SoldInv, RowsInv
<1>9. ASSUME NEW c \in Rebuilders \ {b} PROVE SoldInv(c)' /\ RowsInv(c)'
  <2>1. SoldInv(c) /\ RowsInv(c) /\ bpc'[c] = bpc[c] /\ rows'[c] = rows[c]
    BY <1>1, <1>2 DEF BalanceInv, RecoveryTypeOK
  <2>2. SoldInv(c)'
    BY <1>1, <1>3, <2>1 DEF SoldInv
  <2>3. RowsInv(c)'
    BY <1>1, <1>3, <1>4, <2>1 DEF RowsInv
  <2> QED
    BY <2>2, <2>3
<1> QED
  BY <1>5, <1>6, <1>7, <1>8, <1>9 DEF BalanceInv

\* The quotas are written; when nobody else is about to, they are right.
LEMMA WriteStep ==
  ASSUME RecoveryTypeOK, ShapeInv, BalanceInv, NEW b \in Rebuilders, WriteQuotas(b)
  PROVE  BalanceInv'
<1>1. /\ bpc[b] = "writeq" /\ quota' = rows[b] /\ rows' = [rows EXCEPT ![b] = NoQuota]
      /\ UNCHANGED <<order, outbox, lost, avail, stream, markers, sold, odd>>
  BY DEF WriteQuotas, postgres
<1>2. bpc'[b] \in {"idle", "audit"} /\ \A c \in Rebuilders \ {b} : bpc'[c] = bpc[c]
  BY GoesOn DEF WriteQuotas, AuditOrRest
<1>3. /\ Held' = Held /\ Outstanding' = Outstanding /\ \A u : HeldBy(u)' = HeldBy(u)
  BY <1>1 DEF Held, Outstanding, HeldBy
<1>4. /\ Rebuilding /\ (ReadsQuotas' <=> ReadsQuotas) /\ (ReadsQuotas => QuotasComing')
      /\ stream = {}
  BY <1>1, <1>2 DEF Rebuilding, ReadsQuotas, QuotasComing, BalanceInv, StreamInv
<1>5. StreamInv' /\ FitsInv'
  BY <1>1, <1>3, <1>4 DEF BalanceInv, StreamInv, FitsInv
<1>6. StockInv'
  BY <1>1, <1>3, <1>4 DEF BalanceInv, StockInv, Covers
<1>7. QuotaInv'
  <2>1. PICK E \in SUBSET Outstanding :
          /\ \A u \in Users : rows[b][u] = HeldBy(u) + Tickets(Of(E, u))
          /\ E = Outstanding \/ lost \/ ReadsQuotas
    BY <1>1 DEF BalanceInv, RowsInv
  <2> SUFFICES ASSUME NEW u \in Users
               PROVE  /\ rows[b][u] <= Limit
                      /\ ~lost /\ ~QuotasComing' =>
                           rows[b][u] = HeldBy(u) + Tickets(Of({}, u))
                                          + Tickets(Of(Outstanding, u))
    <3>1. rows[b] \in [Users -> Nat]
      BY DEF RecoveryTypeOK
    <3> QED
      BY <1>1, <1>3, <1>4, <3>1 DEF QuotaInv, Covers
  <2>2. rows[b][u] <= Limit
    BY <1>1 DEF BalanceInv, RowsInv
  <2>3. ~lost /\ ~QuotasComing' => rows[b][u] = HeldBy(u) + Tickets(Of(Outstanding, u))
    BY <1>4, <2>1
  <2>4. HeldBy(u) \in Nat /\ Tickets(Of({}, u)) = 0 /\ Tickets(Of(Outstanding, u)) \in Nat
    BY HeldCount, TicketsCount, NoTickets
  <2> QED
    BY <2>2, <2>3, <2>4
<1>8. SoldInv(b)' /\ RowsInv(b)'
  BY <1>2 DEF SoldInv, RowsInv
<1>9. ASSUME NEW c \in Rebuilders \ {b} PROVE SoldInv(c)' /\ RowsInv(c)'
  <2>1. SoldInv(c) /\ RowsInv(c) /\ bpc'[c] = bpc[c] /\ rows'[c] = rows[c]
    BY <1>1, <1>2 DEF BalanceInv, RecoveryTypeOK
  <2>2. SoldInv(c)'
    BY <1>1, <1>3, <2>1 DEF SoldInv
  <2>3. RowsInv(c)'
    BY <1>1, <1>3, <1>4, <2>1 DEF RowsInv
  <2> QED
    BY <2>2, <2>3
<1> QED
  BY <1>5, <1>6, <1>7, <1>8, <1>9 DEF BalanceInv

-----------------------------------------------------------------------------
(* The theorems.                                                           *)

LEMMA RecoveryInvInit == Init => RecoveryInv
<1> SUFFICES ASSUME Init PROVE RecoveryInv
  OBVIOUS
<1> USE BoundsAssumption, RecoveryAssumption
<1>1. RecoveryTypeOK
  <2>1. NoQuota \in [Users -> Nat]
    BY DEF NoQuota
  <2>2. /\ order \in [Keys -> {"none", "held", "ended"}] /\ avail \in Int
        /\ rows \in [Rebuilders -> [Users -> Nat]] /\ sold \in [Rebuilders -> Nat]
    BY <2>1 DEF Init
  <2>3. bpc \in [Rebuilders -> {"idle", "compare", "audit", "guard", "sum", "set", "readq",
                                "writeq"}]
    BY DEF Init
  <2>4. /\ outbox \in SUBSET Keys /\ stream \in SUBSET Keys /\ claims \in SUBSET Keys
        /\ markers \in SUBSET Keys /\ taken \in SUBSET Keys /\ quota \in [Users -> Nat]
    BY <2>1 DEF Init
  <2>5. /\ lost \in BOOLEAN /\ expected \in Int /\ alarm \in BOOLEAN
        /\ phase \in {"sale", "old"} /\ losses \in 0 .. MaxLosses
        /\ odd \in {"nothing", "leak", "race"}
    <3>1. lost = FALSE /\ alarm = FALSE /\ expected = 0 /\ phase = "sale" /\ losses = 0
          /\ odd = "nothing"
      BY DEF Init
    <3>2. 0 \in 0 .. MaxLosses /\ 0 \in Int
      OBVIOUS
    <3> QED
      BY <3>1, <3>2, Zenon
  <2> QED
    BY <2>2, <2>3, <2>4, <2>5 DEF RecoveryTypeOK
<1>2. ShapeInv
  BY DEF Init, ShapeInv
<1>3. Held = {} /\ Outstanding = {} /\ stream = {}
  BY DEF Init, Held, Outstanding
<1>4. /\ Tickets(Held) = 0 /\ Tickets(stream) = 0 /\ Tickets(Outstanding) = 0
      /\ \A u : /\ HeldBy(u) = 0 /\ Tickets(Of(stream, u)) = 0
                /\ Tickets(Of(Outstanding, u)) = 0
  BY <1>3, NoTickets DEF HeldBy
<1>5. StreamInv /\ FitsInv
  BY <1>3, <1>4 DEF StreamInv, FitsInv
<1>6. StockInv
  <2>1. Covers(Total, avail + Tickets(Held) + Tickets(stream) + Tickets(Outstanding)) /\ avail >= 0
    BY <1>4 DEF Init, Covers
  <2> QED
    BY <2>1 DEF StockInv
<1>7. QuotaInv
  BY <1>4 DEF Init, QuotaInv, NoQuota, Covers
<1>8. \A b \in Rebuilders : SoldInv(b) /\ RowsInv(b)
  BY DEF Init, SoldInv, RowsInv
<1> QED
  BY <1>1, <1>2, <1>5, <1>6, <1>7, <1>8 DEF RecoveryInv, BalanceInv

LEMMA RecoveryIsInvariant == Spec => []RecoveryInv
<1>1. RecoveryInv /\ [Next]_vars => RecoveryInv'
  <2> SUFFICES ASSUME RecoveryInv, [Next]_vars PROVE RecoveryInv'
    OBVIOUS
  <2>1. RecoveryTypeOK /\ ShapeInv /\ RecoveryTypeOK' /\ ShapeInv'
    BY RecoveryTypeNext, ShapeNext DEF RecoveryInv
  <2>2. ASSUME odd' # "race" PROVE BalanceInv'
    <3>1. BalanceInv
      BY <2>1, <2>2, OddStep DEF RecoveryInv
    <3>2. ASSUME NEW k \in Keys,
                 ReserveAndEnqueue(k) \/ PersistIntent(k) \/ EndOrder(k) \/ Release(k)
          PROVE  BalanceInv'
      BY <2>1, <2>2, <3>1, <3>2, ReserveStep, PersistStep, EndStep, ReleaseStep
    <3>3. ASSUME NEW b \in Rebuilders,
                 SumHeld(b) \/ SetAvailable(b) \/ ReadQuotas(b) \/ WriteQuotas(b)
          PROVE  BalanceInv'
      BY <2>1, <2>2, <3>1, <3>3, SumStep, SetStep, ReadStep, WriteStep
    <3>4. CASE LoseRedis \/ PurgeKeys
      BY <2>1, <3>1, <3>4, LossStep
    <3>5. CASE \/ \E k \in Keys : TickOff(k) \/ ClaimExpires(k)
               \/ TimePasses \/ ComputeExpected \/ CompareAvailable \/ AuditQuotas \/ StartScript
               \/ \E b \in Rebuilders : CheckBacklog(b)
               \/ UNCHANGED vars
      BY <2>1, <3>1, <3>5, QuietActions
    <3> QED
      BY <3>2, <3>3, <3>4, <3>5 DEF Next, RebuildStep
  <2> QED
    BY <2>1, <2>2 DEF RecoveryInv
<1> QED
  BY <1>1, RecoveryInvInit, PTL DEF Spec

\* Every variable of the sale, of the two rebuilds and of the drift cron keeps its
\* type, whatever is lost.
THEOREM RecoveryTypesHold == Spec => []RecoveryTypeOK
<1>1. RecoveryInv => RecoveryTypeOK
  BY DEF RecoveryInv
<1> QED
  BY <1>1, RecoveryIsInvariant, PTL

\* After any number of losses of Redis and rebuilds by the cron and by the script
\* at once, the counter and every quota are, at rest, what Postgres says, unless
\* something happened that reconcile_inventory is not prepared for.
THEOREM RestStaysExact == Spec => []RestIsExact
<1>1. RecoveryInv => RestIsExact
  <2> SUFFICES ASSUME RecoveryInv, AtRest, odd = "nothing"
               PROVE  avail = Total - Tickets(Held) /\ \A u \in Users : quota[u] = HeldBy(u)
    BY DEF RestIsExact
  <2>1. RecoveryTypeOK /\ StockInv /\ QuotaInv
    BY DEF RecoveryInv, BalanceInv
  <2>2. /\ ~lost /\ Outstanding = {} /\ stream = {} /\ ~ReadsQuotas /\ ~QuotasComing
    BY DEF AtRest, Outstanding, ReadsQuotas, QuotasComing
  <2>3. Total = avail + Tickets(Held) + Tickets(stream) + Tickets(Outstanding)
    BY <2>1, <2>2 DEF StockInv, Covers
  <2>4. avail = Total - Tickets(Held)
    <3>1. Tickets(stream) = 0 /\ Tickets(Outstanding) = 0 /\ Tickets(Held) \in Nat
      BY <2>1, <2>2, NoTickets, HeldCount
    <3>2. avail \in Int
      BY <2>1 DEF RecoveryTypeOK
    <3> QED
      BY <2>3, <3>1, <3>2
  <2>5. ASSUME NEW u \in Users PROVE quota[u] = HeldBy(u)
    <3>1. quota[u] = HeldBy(u) + Tickets(Of(stream, u)) + Tickets(Of(Outstanding, u))
      BY <2>1, <2>2 DEF QuotaInv, Covers
    <3>2. Tickets(Of(stream, u)) = 0 /\ Tickets(Of(Outstanding, u)) = 0 /\ HeldBy(u) \in Nat
      BY <2>1, <2>2, NoTickets, HeldCount
    <3> QED
      BY <3>1, <3>2
  <2> QED
    BY <2>4, <2>5
<1> QED
  BY <1>1, RecoveryIsInvariant, PTL

\* More tickets are held than there are, or than one user may hold, only when a
\* rebuild met a release that was owed, tickets that moved, or an intent that Redis
\* had forgotten; and a key used again after its claim expired only leaves tickets
\* unsold.
THEOREM DriftAlwaysHasCause == Spec => []DriftHasCause
<1>1. RecoveryInv => OversellHasCause
  <2> SUFFICES ASSUME RecoveryInv, odd # "race"
               PROVE  ~(Tickets(Held) > Total) /\ \A u \in Users : ~(HeldBy(u) > Limit)
    BY DEF OversellHasCause
  <2>1. RecoveryTypeOK /\ Tickets(Held) <= Total /\ \A u \in Users : HeldBy(u) <= Limit
    BY DEF RecoveryInv, BalanceInv, FitsInv
  <2>2. Tickets(Held) \in Nat /\ \A u : HeldBy(u) \in Nat
    BY <2>1, HeldCount
  <2> QED
    BY <2>1, <2>2, BoundsAssumption
<1>2. RecoveryInv => LeaksOnlyUndersell
  <2> SUFFICES ASSUME RecoveryInv, AtRest, odd = "leak" PROVE avail <= Total - Tickets(Held)
    BY DEF LeaksOnlyUndersell
  <2>1. RecoveryTypeOK /\ StockInv
    BY DEF RecoveryInv, BalanceInv
  <2>2. ~lost /\ Outstanding = {} /\ stream = {}
    BY DEF AtRest, Outstanding
  <2>3. PICK E \in SUBSET Outstanding :
          Total >= avail + Tickets(Held) + Tickets(stream) + Tickets(E)
    BY <2>1, <2>2 DEF StockInv, Covers
  <2>4. E = {} /\ Tickets({}) = 0 /\ Tickets(Held) \in Nat /\ avail \in Int
    BY <2>1, <2>2, NoTickets, HeldCount DEF RecoveryTypeOK
  <2> QED
    BY <2>2, <2>3, <2>4, BoundsAssumption
<1> QED
  BY <1>1, <1>2, RecoveryIsInvariant, PTL DEF DriftHasCause

=============================================================================

------------------------- MODULE OrderPipelineProofs ------------------------
(***************************************************************************)
(* The order pipeline is safe and implements TicketSale, for every set of  *)
(* requests, every number of consumers, reclaim passes and relays and      *)
(* every number of failures, up to the requests that a slow process or an  *)
(* expired marker excuses; where they do occur, nothing is forgotten.      *)
(***************************************************************************)
EXTENDS OrderPipeline, FiniteSetTheorems, TLAPS

-----------------------------------------------------------------------------
(* The inductive invariant.                                                *)

\* No order can come out of k any more: nobody is going to persist it, and
\* whoever picks the entry up will dead-letter it.
Doomed(k) ==
  /\ k \notin fresh
  /\ ~MayStillPersist(k)
  /\ k \in pel => deliveries[k] = MaxDeliveries

StreamInv == idle \subseteq pel /\ fresh \cap pel = {}

\* A key is unknown everywhere before its only reservation.
KnownInv(k) ==
  /\ taken[k] \in {0, 1}
  /\ claim[k] = "none" <=> taken[k] = 0
  /\ taken[k] = 0 =>
       /\ k \notin fresh /\ k \notin pel /\ status[k] = "none" /\ returns[k] = 0
       /\ \A c \in Consumers : k \notin batch[c]
       /\ \A r \in Reclaimers : rkey[r] # k

AckInv(c) == acking[c] # None => status[acking[c]] # "none"

DeadSteps == {"check", "park", "refund", "mark"}

\* What a reclaim pass knows about its entry at each step; past its check it is
\* right about the order unless somebody else had the entry in hand.
ReclaimInv(r) ==
  /\ rpc[r] = "idle" => rkey[r] = None
  /\ rpc[r] # "idle" => rkey[r] \in Keys /\ rkey[r] \notin fresh
  /\ rpc[r] = "scanned" /\ rkey[r] \in pel => rtimes[r] <= deliveries[rkey[r]]
  /\ rpc[r] = "ack" => status[rkey[r]] # "none" \/ claim[rkey[r]] = "FAILED"
  /\ rkey[r] \notin overlapped =>
       /\ rpc[r] \in DeadSteps => Doomed(rkey[r])
       /\ rpc[r] = "park" => (rseen[r] <=> status[rkey[r]] # "none")
       /\ rpc[r] = "refund" => status[rkey[r]] = "none"
  /\ rpc[r] = "mark" /\ rkey[r] \notin Excused =>
       status[rkey[r]] # "none" \/ returns[rkey[r]] = 1

\* An accepted intent stays in the stream until it is settled, and a failure is
\* reported when nobody is left who would insert the order.
ClaimInv(k) ==
  /\ claim[k] = "PENDING" /\ status[k] = "none" => k \in fresh \/ k \in pel
  /\ claim[k] = "FAILED" /\ k \notin overlapped => Doomed(k)
  /\ claim[k] = "FAILED" /\ k \notin Excused /\ status[k] = "none" => returns[k] = 1

\* The tickets of an intent without an order come back through the
\* dead-letter refund only, once.
RefundInv(k) ==
  /\ status[k] = "none" =>
       /\ returns[k] \in {0, 1}
       /\ returns[k] = 0 => k \notin deadMarker
       /\ returns[k] = 1 => Doomed(k) /\ (k \in deadMarker \/ ~RefundOwed(k))
  /\ status[k] # "none" => k \notin deadMarker

\* The tickets of an order come back only after it expired or was cancelled,
\* once, and the marker stays as long as a release may still come.
ReleaseInv(k) ==
  /\ status[k] \in Live => returns[k] = 0
  /\ status[k] \in Owing =>
       \/ returns[k] = 0 /\ k \notin orderMarker
       \/ returns[k] = 1 /\ (k \in orderMarker \/ ~ReleaseOwed(k))

\* A release comes after the order has ended, and whoever marks the outbox row,
\* or finds the marker, comes after a return.
DebtInv(k) ==
  /\ status[k] \notin Owing =>
       /\ outbox[k] = "none" /\ k \notin fast /\ k \notin orderMarker
       /\ \A v \in Relays : k \notin rows[v] /\ marking[v] # k
  /\ k \in orderMarker => returns[k] > 0
  /\ \A v \in Relays : marking[v] = k => returns[k] > 0
  /\ status[k] \in Owing /\ returns[k] = 0 => outbox[k] = "owed"

PipelineInv ==
  /\ TypeOK
  /\ StreamInv
  /\ \A c \in Consumers : AckInv(c)
  /\ \A r \in Reclaimers : ReclaimInv(r)
  /\ \A k \in Keys : KnownInv(k) /\ ClaimInv(k) /\ DebtInv(k)
  /\ \A k \in Keys \ Excused : RefundInv(k) /\ ReleaseInv(k)

-----------------------------------------------------------------------------
(* The invariant holds initially and every step preserves it.              *)

LEMMA InvInit == Init => PipelineInv
<1> SUFFICES ASSUME Init PROVE PipelineInv
  OBVIOUS
<1> USE MaxAssumption, BoundsAssumption DEF Init
<1>1. TypeOK
  BY DEF TypeOK, ReclaimSteps, Live, Owing
<1>2. StreamInv /\ \A c \in Consumers : AckInv(c)
  BY DEF StreamInv, AckInv
<1>3. \A r \in Reclaimers : ReclaimInv(r)
  BY DEF ReclaimInv, DeadSteps
<1>4. \A k \in Keys : KnownInv(k) /\ ClaimInv(k)
  BY NoneAssumption DEF KnownInv, ClaimInv
<1>5. \A k \in Keys : RefundInv(k) /\ ReleaseInv(k) /\ DebtInv(k)
  BY NoneAssumption DEF RefundInv, ReleaseInv, DebtInv, Live, Owing
<1> QED
  BY <1>1, <1>2, <1>3, <1>4, <1>5 DEF PipelineInv

\* A reclaim pass in a step other than idle has an entry, so the variables
\* keep their types: the type invariant is not inductive without ReclaimInv.
LEMMA TypeNext ==
  ASSUME TypeOK, \A r \in Reclaimers : rpc[r] # "idle" => rkey[r] \in Keys, [Next]_vars
  PROVE  TypeOK'
<1>0. TypeOK /\ \A r \in Reclaimers : rpc[r] # "idle" => rkey[r] \in Keys
  OBVIOUS
<1> USE <1>0, MaxAssumption, UserOfAssumption, QtyAssumption
        DEF TypeOK, Live, Owing, ReclaimSteps, redis, stream, stock, db,
            consumers, reclaimers, relays, history
<1>1. ASSUME NEW k \in Keys, Reserve(k) PROVE TypeOK'
  BY <1>1 DEF Reserve, ReserveOutcome
<1>2. ASSUME NEW k \in Keys, ConfirmPaid(k) PROVE TypeOK'
  BY <1>2 DEF ConfirmPaid
<1>3. ASSUME NEW k \in Keys, ExpireOrder(k) PROVE TypeOK'
  BY <1>3 DEF ExpireOrder, TransitionOwingRelease
<1>4. ASSUME NEW k \in Keys, CancelOrder(k) PROVE TypeOK'
  BY <1>4 DEF CancelOrder, TransitionOwingRelease
<1>5. ASSUME NEW k \in Keys, FastRelease(k) PROVE TypeOK'
  BY <1>5 DEF FastRelease, ReleaseOrderSeat, ReturnTickets, NothingReturned, Uncharge
<1>6. ASSUME NEW k \in Keys, EntryGoesIdle(k) PROVE TypeOK'
  BY <1>6 DEF EntryGoesIdle
<1>7. ASSUME NEW k \in Keys, LeaseExpires(k) PROVE TypeOK'
  BY <1>7 DEF LeaseExpires
<1>8. ASSUME NEW k \in Keys, Redrive(k) PROVE TypeOK'
  BY <1>8 DEF Redrive
<1>9. ASSUME NEW k \in Keys, PurgeOutbox(k) PROVE TypeOK'
  BY <1>9 DEF PurgeOutbox
<1>10. ASSUME NEW k \in Keys, OrderMarkerExpires(k) PROVE TypeOK'
  BY <1>10 DEF OrderMarkerExpires
<1>11. ASSUME NEW k \in Keys, DeadMarkerExpires(k) PROVE TypeOK'
  BY <1>11 DEF DeadMarkerExpires
<1>12. ASSUME NEW k \in Keys, FastPathDies(k) PROVE TypeOK'
  BY <1>12 DEF FastPathDies, Fault
<1>13. ASSUME NEW c \in Consumers, ReadBatch(c) PROVE TypeOK'
  BY <1>13 DEF ReadBatch
<1>14. ASSUME NEW c \in Consumers, ConsumeAck(c) PROVE TypeOK'
  BY <1>14 DEF ConsumeAck, AckAndRemove
<1>15. ASSUME NEW c \in Consumers, ConsumeAckFails(c) PROVE TypeOK'
  BY <1>15 DEF ConsumeAckFails, Fault
<1>16. ASSUME NEW c \in Consumers, ConsumerCrash(c) PROVE TypeOK'
  BY <1>16 DEF ConsumerCrash, Fault
<1>17. ASSUME NEW c \in Consumers, NEW k \in Keys, ConsumePersist(c, k) PROVE TypeOK'
  BY <1>17 DEF ConsumePersist, PersistIntent
<1>18. ASSUME NEW c \in Consumers, NEW k \in Keys, ConsumePersistFails(c, k) PROVE TypeOK'
  BY <1>18 DEF ConsumePersistFails, Fault
<1>19. ASSUME NEW r \in Reclaimers, NEW k \in Keys, ReclaimScan(r, k) PROVE TypeOK'
  BY <1>19 DEF ReclaimScan
<1>20. ASSUME NEW r \in Reclaimers, ReclaimClaim(r) PROVE TypeOK'
  BY <1>20 DEF ReclaimClaim, Counted
<1>21. ASSUME NEW r \in Reclaimers, ReclaimSkips(r) PROVE TypeOK'
  BY <1>21 DEF ReclaimSkips, Forget
<1>22. ASSUME NEW r \in Reclaimers, ReclaimPersist(r) PROVE TypeOK'
  BY <1>22 DEF ReclaimPersist, PersistIntent
<1>23. ASSUME NEW r \in Reclaimers, DeadLetterCheck(r) PROVE TypeOK'
  BY <1>23 DEF DeadLetterCheck
<1>24. ASSUME NEW r \in Reclaimers, DeadLetterPark(r) PROVE TypeOK'
  BY <1>24 DEF DeadLetterPark
<1>25. ASSUME NEW r \in Reclaimers, DeadLetterRefund(r) PROVE TypeOK'
  BY <1>25 DEF DeadLetterRefund, ReturnTickets, NothingReturned, Uncharge
<1>26. ASSUME NEW r \in Reclaimers, DeadLetterMark(r) PROVE TypeOK'
  BY <1>26 DEF DeadLetterMark
<1>27. ASSUME NEW r \in Reclaimers, ReclaimAck(r) PROVE TypeOK'
  BY <1>27 DEF ReclaimAck, AckAndRemove, Forget
<1>28. ASSUME NEW r \in Reclaimers, ReclaimAborts(r) PROVE TypeOK'
  BY <1>28 DEF ReclaimAborts, Forget, Fault
<1>29. ASSUME NEW v \in Relays, OutboxClaim(v) PROVE TypeOK'
  BY <1>29 DEF OutboxClaim, Claimable
<1>30. ASSUME NEW v \in Relays, OutboxMark(v) PROVE TypeOK'
  BY <1>30 DEF OutboxMark
<1>31. ASSUME NEW v \in Relays, RelayCrash(v) PROVE TypeOK'
  BY <1>31 DEF RelayCrash, Fault
<1>32. ASSUME NEW v \in Relays, NEW k \in Keys, OutboxHandle(v, k) PROVE TypeOK'
  BY <1>32 DEF OutboxHandle, ReleaseOrderSeat, ReturnTickets, NothingReturned, Uncharge
<1>33. ASSUME NEW v \in Relays, NEW k \in Keys, OutboxHandleFails(v, k) PROVE TypeOK'
  BY <1>33 DEF OutboxHandleFails, Fault
<1>34. CASE UNCHANGED vars
  BY <1>34 DEF vars
<1> HIDE <1>0
<1> QED
  BY <1>1, <1>2, <1>3, <1>4, <1>5, <1>6, <1>7, <1>8, <1>9, <1>10, <1>11, <1>12, <1>13, <1>14, <1>15, <1>16, <1>17, <1>18, <1>19, <1>20, <1>21, <1>22, <1>23, <1>24, <1>25, <1>26, <1>27, <1>28, <1>29, <1>30, <1>31, <1>32, <1>33, <1>34
  DEF Next, ConsumerStep, ReclaimStep, RelayStep, Failure, Quiescent

\* The dead-letter check remembers whether the order existed at that moment.
LEMMA CheckRecords ==
  ASSUME TypeOK, NEW r \in Reclaimers, DeadLetterCheck(r)
  PROVE  rseen'[r] <=> status[rkey[r]] # "none"
<1>1. rseen \in [Reclaimers -> BOOLEAN]
  BY DEF TypeOK
<1> QED
  BY <1>1, Zenon DEF DeadLetterCheck

\* A count between the snapshot of a last delivery and the cap is the cap.
LEMMA CountIsCapped ==
  ASSUME NEW m \in 0 .. MaxDeliveries, NEW n \in 0 .. MaxDeliveries,
         m >= MaxDeliveries, m <= n
  PROVE  n = MaxDeliveries
  BY MaxAssumption

LEMMA InvNext ==
  ASSUME PipelineInv, [Next]_vars
  PROVE  PipelineInv'
<1>0. TypeOK'
  BY TypeNext DEF PipelineInv, ReclaimInv
<1> USE <1>0, MaxAssumption, UserOfAssumption, QtyAssumption, NoneAssumption
        DEF PipelineInv, TypeOK, StreamInv, AckInv, DeadSteps, ReclaimInv,
            KnownInv, ClaimInv, RefundInv, ReleaseInv, DebtInv, Doomed, MayStillPersist,
            Excused, ReleaseOwed, RefundOwed, Live, Owing, ReclaimSteps, redis, stream,
            stock, db, consumers, reclaimers, relays, history
<1>1. ASSUME NEW k \in Keys, Reserve(k) PROVE PipelineInv'
  BY <1>1, SMTT(20) DEF Reserve, ReserveOutcome
<1>2. ASSUME NEW k \in Keys, ConfirmPaid(k) PROVE PipelineInv'
  BY <1>2, SMTT(20) DEF ConfirmPaid
<1>3. ASSUME NEW k \in Keys, ExpireOrder(k) PROVE PipelineInv'
  BY <1>3, SMTT(20) DEF ExpireOrder, TransitionOwingRelease
<1>4. ASSUME NEW k \in Keys, CancelOrder(k) PROVE PipelineInv'
  BY <1>4, SMTT(20) DEF CancelOrder, TransitionOwingRelease
<1>5. ASSUME NEW k \in Keys, FastRelease(k) PROVE PipelineInv'
  BY <1>5, SMTT(20) DEF FastRelease, ReleaseOrderSeat, ReturnTickets, NothingReturned, Uncharge
<1>6. ASSUME NEW k \in Keys, EntryGoesIdle(k) PROVE PipelineInv'
  BY <1>6, SMTT(20) DEF EntryGoesIdle
<1>7. ASSUME NEW k \in Keys, LeaseExpires(k) PROVE PipelineInv'
  BY <1>7, SMTT(20) DEF LeaseExpires
<1>8. ASSUME NEW k \in Keys, Redrive(k) PROVE PipelineInv'
  BY <1>8, SMTT(20) DEF Redrive
<1>9. ASSUME NEW k \in Keys, PurgeOutbox(k) PROVE PipelineInv'
  BY <1>9, SMTT(20) DEF PurgeOutbox
<1>10. ASSUME NEW k \in Keys, OrderMarkerExpires(k) PROVE PipelineInv'
  BY <1>10, SMTT(20) DEF OrderMarkerExpires
<1>11. ASSUME NEW k \in Keys, DeadMarkerExpires(k) PROVE PipelineInv'
  BY <1>11, SMTT(20) DEF DeadMarkerExpires
<1>12. ASSUME NEW k \in Keys, FastPathDies(k) PROVE PipelineInv'
  BY <1>12, SMTT(20) DEF FastPathDies, Fault
<1>13. ASSUME NEW c \in Consumers, ReadBatch(c) PROVE PipelineInv'
  BY <1>13, SMTT(20) DEF ReadBatch
<1>14. ASSUME NEW c \in Consumers, ConsumeAck(c) PROVE PipelineInv'
  BY <1>14, SMTT(20) DEF ConsumeAck, AckAndRemove
<1>15. ASSUME NEW c \in Consumers, ConsumeAckFails(c) PROVE PipelineInv'
  BY <1>15, SMTT(20) DEF ConsumeAckFails, Fault
<1>16. ASSUME NEW c \in Consumers, ConsumerCrash(c) PROVE PipelineInv'
  BY <1>16, SMTT(20) DEF ConsumerCrash, Fault
<1>17. ASSUME NEW c \in Consumers, NEW k \in Keys, ConsumePersist(c, k) PROVE PipelineInv'
  BY <1>17, SMTT(20) DEF ConsumePersist, PersistIntent
<1>18. ASSUME NEW c \in Consumers, NEW k \in Keys, ConsumePersistFails(c, k) PROVE PipelineInv'
  BY <1>18, SMTT(20) DEF ConsumePersistFails, Fault
<1>19. ASSUME NEW r \in Reclaimers, NEW k \in Keys, ReclaimScan(r, k) PROVE PipelineInv'
  BY <1>19, SMTT(20) DEF ReclaimScan
<1>20. ASSUME NEW r \in Reclaimers, ReclaimClaim(r) PROVE PipelineInv'
  <2>1. CASE rtimes[r] < MaxDeliveries
    \* A retry: by the step's own knowledge its entry is not doomed yet.
    BY <1>20, <2>1, SMTT(20) DEF ReclaimClaim, Counted
  <2>2. CASE rtimes[r] >= MaxDeliveries
    \* The last delivery: the entry is doomed, or its key is excused.
    <3>1. MayStillPersist(rkey[r]) => rkey[r] \in overlapped'
      BY <1>20, <2>2 DEF ReclaimClaim
    <3>2. rpc[r] = "scanned" /\ rkey[r] \in idle
      BY <1>20 DEF ReclaimClaim
    <3>3. rkey[r] \in Keys /\ rkey[r] \in pel /\ rtimes[r] <= deliveries[rkey[r]]
      BY <3>2
    <3>4. deliveries[rkey[r]] \in 0 .. MaxDeliveries /\ rtimes[r] \in 0 .. MaxDeliveries
      BY <3>3
    <3>5. deliveries[rkey[r]] = MaxDeliveries
      BY <2>2, <3>3, <3>4, CountIsCapped
    <3> QED
      BY <1>20, <2>2, <3>1, <3>3, <3>5, SMTT(20) DEF ReclaimClaim, Counted
  <2> QED
    BY <1>20, <2>1, <2>2 DEF ReclaimClaim
<1>21. ASSUME NEW r \in Reclaimers, ReclaimSkips(r) PROVE PipelineInv'
  BY <1>21, SMTT(20) DEF ReclaimSkips, Forget
<1>22. ASSUME NEW r \in Reclaimers, ReclaimPersist(r) PROVE PipelineInv'
  BY <1>22, SMTT(20) DEF ReclaimPersist, PersistIntent
<1>23. ASSUME NEW r \in Reclaimers, DeadLetterCheck(r) PROVE PipelineInv'
  <2>1. rseen'[r] <=> status[rkey[r]] # "none"
    BY <1>23, CheckRecords
  <2>2. \A q \in Reclaimers : q # r => rseen'[q] = rseen[q]
    BY <1>23 DEF DeadLetterCheck
  <2> QED
    BY <1>23, <2>1, <2>2, SMTT(20) DEF DeadLetterCheck
<1>24. ASSUME NEW r \in Reclaimers, DeadLetterPark(r) PROVE PipelineInv'
  BY <1>24, SMTT(20) DEF DeadLetterPark
<1>25. ASSUME NEW r \in Reclaimers, DeadLetterRefund(r) PROVE PipelineInv'
  BY <1>25, SMTT(20) DEF DeadLetterRefund, ReturnTickets, NothingReturned, Uncharge
<1>26. ASSUME NEW r \in Reclaimers, DeadLetterMark(r) PROVE PipelineInv'
  BY <1>26, SMTT(20) DEF DeadLetterMark
<1>27. ASSUME NEW r \in Reclaimers, ReclaimAck(r) PROVE PipelineInv'
  BY <1>27, SMTT(20) DEF ReclaimAck, AckAndRemove, Forget
<1>28. ASSUME NEW r \in Reclaimers, ReclaimAborts(r) PROVE PipelineInv'
  BY <1>28, SMTT(20) DEF ReclaimAborts, Forget, Fault
<1>29. ASSUME NEW v \in Relays, OutboxClaim(v) PROVE PipelineInv'
  BY <1>29, SMTT(20) DEF OutboxClaim, Claimable
<1>30. ASSUME NEW v \in Relays, OutboxMark(v) PROVE PipelineInv'
  BY <1>30, SMTT(20) DEF OutboxMark
<1>31. ASSUME NEW v \in Relays, RelayCrash(v) PROVE PipelineInv'
  BY <1>31, SMTT(20) DEF RelayCrash, Fault
<1>32. ASSUME NEW v \in Relays, NEW k \in Keys, OutboxHandle(v, k) PROVE PipelineInv'
  BY <1>32, SMTT(20) DEF OutboxHandle, ReleaseOrderSeat, ReturnTickets, NothingReturned, Uncharge
<1>33. ASSUME NEW v \in Relays, NEW k \in Keys, OutboxHandleFails(v, k) PROVE PipelineInv'
  BY <1>33, SMTT(20) DEF OutboxHandleFails, Fault
<1>34. CASE UNCHANGED vars
  BY <1>34 DEF vars
<1> HIDE <1>0 DEF PipelineInv
<1> QED
  BY <1>1, <1>2, <1>3, <1>4, <1>5, <1>6, <1>7, <1>8, <1>9, <1>10, <1>11, <1>12, <1>13, <1>14, <1>15, <1>16, <1>17, <1>18, <1>19, <1>20, <1>21, <1>22, <1>23, <1>24, <1>25, <1>26, <1>27, <1>28, <1>29, <1>30, <1>31, <1>32, <1>33, <1>34
  DEF Next, ConsumerStep, ReclaimStep, RelayStep, Failure, Quiescent

LEMMA PipelineIsInvariant == Spec => []PipelineInv
<1>1. Init => PipelineInv
  BY InvInit
<1>2. PipelineInv /\ [Next]_vars => PipelineInv'
  BY InvNext
<1> QED
  BY <1>1, <1>2, PTL DEF Spec

-----------------------------------------------------------------------------
(* What the invariant gives.                                               *)

\* Every variable keeps its type, the delivery and attempt counters their
\* caps, and the stock is never negative.
THEOREM PipelineTypeOK == Spec => []TypeOK
<1>1. PipelineInv => TypeOK
  BY DEF PipelineInv
<1> QED
  BY <1>1, PipelineIsInvariant, PTL

\* Wherever a process dies, and whatever is excused, tickets that are owed have
\* an outbox row and an accepted intent is still in the stream.
THEOREM PipelineForgetsNothing == Spec => [](DebtIsRecorded /\ NoIntentLost)
<1>1. PipelineInv => DebtIsRecorded /\ NoIntentLost
  BY DEF PipelineInv, ClaimInv, DebtInv, DebtIsRecorded, NoIntentLost
<1> QED
  BY <1>1, PipelineIsInvariant, PTL

\* No interleaving of the fast path, relays, re-drives, dead-letter refunds and
\* crashes returns a request's tickets twice, unless the request is excused.
THEOREM PipelineReturnsOnce == Spec => []ReturnedAtMostOnce
<1>1. PipelineInv => ReturnedAtMostOnce
  BY DEF PipelineInv, RefundInv, ReleaseInv, ReturnedAtMostOnce, TypeOK, Live, Owing
<1> QED
  BY <1>1, PipelineIsInvariant, PTL

-----------------------------------------------------------------------------
(* The pipeline implements the abstract sale.                              *)

\* The refinement mapping changes at one key when one request's phase does.
LEMMA PhaseUpdate ==
  ASSUME NEW k \in Keys, NEW p, PhaseOf(k)' = p,
         \A j \in Keys : j # k => PhaseOf(j)' = PhaseOf(j)
  PROVE  Phase' = [Phase EXCEPT ![k] = p]
<1>1. Phase' = [j \in Keys |-> PhaseOf(j)']
  BY DEF Phase
<1>2. \A j \in Keys : PhaseOf(j)' = IF j = k THEN p ELSE PhaseOf(j)
  OBVIOUS
<1>3. [Phase EXCEPT ![k] = p] = [j \in Keys |-> IF j = k THEN p ELSE PhaseOf(j)]
  BY DEF Phase
<1> QED
  BY <1>1, <1>2, <1>3, Zenon

LEMMA SaleStep ==
  ASSUME PipelineInv, [Next]_vars
  PROVE  [ExcusedSaleNext]_(Sale!saleVars)
<1>0. /\ TypeOK
      /\ \A r \in Reclaimers : ReclaimInv(r)
      /\ \A k \in Keys : KnownInv(k) /\ DebtInv(k)
      /\ \A k \in Keys \ Excused : ReleaseInv(k) /\ RefundInv(k)
  BY DEF PipelineInv
<1> USE <1>0, UserOfAssumption, QtyAssumption, BoundsAssumption
        DEF TypeOK, Live, Owing, redis, stream, stock, db, consumers, reclaimers, relays, history
<1>1. ASSUME NEW k \in Keys, Reserve(k) PROVE [ExcusedSaleNext]_(Sale!saleVars)
  <2>1. PhaseOf(k) = "free"
    BY <1>1 DEF Reserve, ReserveOutcome, KnownInv, PhaseOf
  <2>2. PhaseOf(k)' = "taken" /\ \A j \in Keys : j # k => PhaseOf(j)' = PhaseOf(j)
    BY <1>1 DEF Reserve, ReserveOutcome, KnownInv, PhaseOf
  <2>3. Sale!Take(k)
    BY <1>1, <2>1, <2>2, PhaseUpdate DEF Reserve, ReserveOutcome, Sale!Take, Phase
  <2> QED
    BY <2>3 DEF Sale!SaleNext, ExcusedSaleNext
<1>2. ASSUME NEW k \in Keys, ConfirmPaid(k) PROVE [ExcusedSaleNext]_(Sale!saleVars)
  <2>1. CASE returns[k] = 0
    <3>1. PhaseOf(k) = "taken"
      BY <1>2, <2>1 DEF ConfirmPaid, KnownInv, PhaseOf
    <3>2. PhaseOf(k)' = "sold" /\ \A j \in Keys : j # k => PhaseOf(j)' = PhaseOf(j)
      BY <1>2, <2>1 DEF ConfirmPaid, KnownInv, PhaseOf
    <3>3. Sale!Sell(k)
      BY <1>2, <3>1, <3>2, PhaseUpdate DEF ConfirmPaid, Sale!Sell, Phase
    <3> QED
      BY <3>3 DEF Sale!SaleNext, ExcusedSaleNext
  <2>2. CASE returns[k] # 0
    \* The tickets of an excused request are back already.
    <3>1. Phase' = Phase
      BY <1>2, <2>2 DEF ConfirmPaid, KnownInv, PhaseOf, Phase
    <3> QED
      BY <1>2, <3>1 DEF ConfirmPaid, Sale!saleVars, Phase
  <2> QED
    BY <2>1, <2>2
<1>3. ASSUME NEW k \in Keys, ExpireOrder(k) PROVE [ExcusedSaleNext]_(Sale!saleVars)
  <2>1. Phase' = Phase
    BY <1>3 DEF ExpireOrder, TransitionOwingRelease, Phase, PhaseOf, KnownInv
  <2> QED
    BY <1>3, <2>1 DEF ExpireOrder, TransitionOwingRelease, Sale!saleVars, Phase
<1>4. ASSUME NEW k \in Keys, CancelOrder(k) PROVE [ExcusedSaleNext]_(Sale!saleVars)
  <2>1. Phase' = Phase
    BY <1>4 DEF CancelOrder, TransitionOwingRelease, Phase, PhaseOf, KnownInv
  <2> QED
    BY <1>4, <2>1 DEF CancelOrder, TransitionOwingRelease, Sale!saleVars, Phase
<1>5. ASSUME NEW k \in Keys, FastRelease(k) PROVE [ExcusedSaleNext]_(Sale!saleVars)
  <2>1. CASE k \in orderMarker
    <3>1. Phase' = Phase
      BY <1>5, <2>1 DEF FastRelease, ReleaseOrderSeat, NothingReturned, PhaseOf, Phase
    <3> QED
      BY <1>5, <2>1, <3>1 DEF FastRelease, ReleaseOrderSeat, NothingReturned, Sale!saleVars, Phase
  <2>2. CASE k \notin orderMarker
    <3>0. k \in Keys /\ taken[k] = 1 /\ returns[k] \in Nat
      BY <1>5 DEF FastRelease, KnownInv, DebtInv
    <3>1. PhaseOf(k)' = "returned" /\ \A j \in Keys : j # k => PhaseOf(j)' = PhaseOf(j)
      BY <1>5, <2>2, <3>0 DEF FastRelease, ReleaseOrderSeat, ReturnTickets, PhaseOf
    <3>2. Phase' = [Phase EXCEPT ![k] = "returned"]
      BY <3>0, <3>1, PhaseUpdate
    <3>3. CASE k \in Excused
      <4>1. Phase[k] # "free"
        BY <3>0 DEF Phase, PhaseOf
      <4>2. StrayReturn(k)
        BY <1>5, <2>2, <3>2, <4>1 DEF FastRelease, ReleaseOrderSeat, ReturnTickets, StrayReturn
      <4> QED
        BY <3>3, <4>2 DEF ExcusedSaleNext
    <3>4. CASE k \notin Excused
      <4>1. returns[k] = 0 /\ status[k] # "confirmed"
        BY <1>5, <2>2, <3>0, <3>4 DEF FastRelease, KnownInv, ReleaseInv, DebtInv, ReleaseOwed
      <4>2. PhaseOf(k) = "taken"
        BY <3>0, <4>1 DEF PhaseOf
      <4>3. Sale!Return(k)
        BY <1>5, <2>2, <3>0, <3>2, <4>2
        DEF FastRelease, ReleaseOrderSeat, ReturnTickets, Uncharge, Sale!Return, Sale!Uncharge, Phase
      <4> QED
        BY <3>0, <4>3 DEF Sale!SaleNext, ExcusedSaleNext
    <3> QED
      BY <3>3, <3>4
  <2> QED
    BY <2>1, <2>2
<1>6. ASSUME NEW k \in Keys, EntryGoesIdle(k) PROVE [ExcusedSaleNext]_(Sale!saleVars)
  <2>1. Phase' = Phase
    BY <1>6 DEF EntryGoesIdle, Phase, PhaseOf
  <2> QED
    BY <1>6, <2>1 DEF EntryGoesIdle, Sale!saleVars, Phase
<1>7. ASSUME NEW k \in Keys, LeaseExpires(k) PROVE [ExcusedSaleNext]_(Sale!saleVars)
  <2>1. Phase' = Phase
    BY <1>7 DEF LeaseExpires, Phase, PhaseOf
  <2> QED
    BY <1>7, <2>1 DEF LeaseExpires, Sale!saleVars, Phase
<1>8. ASSUME NEW k \in Keys, Redrive(k) PROVE [ExcusedSaleNext]_(Sale!saleVars)
  <2>1. Phase' = Phase
    BY <1>8 DEF Redrive, Phase, PhaseOf
  <2> QED
    BY <1>8, <2>1 DEF Redrive, Sale!saleVars, Phase
<1>9. ASSUME NEW k \in Keys, PurgeOutbox(k) PROVE [ExcusedSaleNext]_(Sale!saleVars)
  <2>1. Phase' = Phase
    BY <1>9 DEF PurgeOutbox, Phase, PhaseOf
  <2> QED
    BY <1>9, <2>1 DEF PurgeOutbox, Sale!saleVars, Phase
<1>10. ASSUME NEW k \in Keys, OrderMarkerExpires(k) PROVE [ExcusedSaleNext]_(Sale!saleVars)
  <2>1. Phase' = Phase
    BY <1>10 DEF OrderMarkerExpires, Phase, PhaseOf
  <2> QED
    BY <1>10, <2>1 DEF OrderMarkerExpires, Sale!saleVars, Phase
<1>11. ASSUME NEW k \in Keys, DeadMarkerExpires(k) PROVE [ExcusedSaleNext]_(Sale!saleVars)
  <2>1. Phase' = Phase
    BY <1>11 DEF DeadMarkerExpires, Phase, PhaseOf
  <2> QED
    BY <1>11, <2>1 DEF DeadMarkerExpires, Sale!saleVars, Phase
<1>12. ASSUME NEW k \in Keys, FastPathDies(k) PROVE [ExcusedSaleNext]_(Sale!saleVars)
  <2>1. Phase' = Phase
    BY <1>12 DEF FastPathDies, Fault, Phase, PhaseOf
  <2> QED
    BY <1>12, <2>1 DEF FastPathDies, Fault, Sale!saleVars, Phase
<1>13. ASSUME NEW c \in Consumers, ReadBatch(c) PROVE [ExcusedSaleNext]_(Sale!saleVars)
  <2>1. Phase' = Phase
    BY <1>13 DEF ReadBatch, Phase, PhaseOf
  <2> QED
    BY <1>13, <2>1 DEF ReadBatch, Sale!saleVars, Phase
<1>14. ASSUME NEW c \in Consumers, ConsumeAck(c) PROVE [ExcusedSaleNext]_(Sale!saleVars)
  <2>1. Phase' = Phase
    BY <1>14 DEF ConsumeAck, AckAndRemove, Phase, PhaseOf
  <2> QED
    BY <1>14, <2>1 DEF ConsumeAck, AckAndRemove, Sale!saleVars, Phase
<1>15. ASSUME NEW c \in Consumers, ConsumeAckFails(c) PROVE [ExcusedSaleNext]_(Sale!saleVars)
  <2>1. Phase' = Phase
    BY <1>15 DEF ConsumeAckFails, Fault, Phase, PhaseOf
  <2> QED
    BY <1>15, <2>1 DEF ConsumeAckFails, Fault, Sale!saleVars, Phase
<1>16. ASSUME NEW c \in Consumers, ConsumerCrash(c) PROVE [ExcusedSaleNext]_(Sale!saleVars)
  <2>1. Phase' = Phase
    BY <1>16 DEF ConsumerCrash, Fault, Phase, PhaseOf
  <2> QED
    BY <1>16, <2>1 DEF ConsumerCrash, Fault, Sale!saleVars, Phase
<1>17. ASSUME NEW c \in Consumers, NEW k \in Keys, ConsumePersist(c, k) PROVE [ExcusedSaleNext]_(Sale!saleVars)
  <2>1. Phase' = Phase
    BY <1>17 DEF ConsumePersist, PersistIntent, Phase, PhaseOf
  <2> QED
    BY <1>17, <2>1 DEF ConsumePersist, PersistIntent, Sale!saleVars, Phase
<1>18. ASSUME NEW c \in Consumers, NEW k \in Keys, ConsumePersistFails(c, k) PROVE [ExcusedSaleNext]_(Sale!saleVars)
  <2>1. Phase' = Phase
    BY <1>18 DEF ConsumePersistFails, Fault, Phase, PhaseOf
  <2> QED
    BY <1>18, <2>1 DEF ConsumePersistFails, Fault, Sale!saleVars, Phase
<1>19. ASSUME NEW r \in Reclaimers, NEW k \in Keys, ReclaimScan(r, k) PROVE [ExcusedSaleNext]_(Sale!saleVars)
  <2>1. Phase' = Phase
    BY <1>19 DEF ReclaimScan, Phase, PhaseOf
  <2> QED
    BY <1>19, <2>1 DEF ReclaimScan, Sale!saleVars, Phase
<1>20. ASSUME NEW r \in Reclaimers, ReclaimClaim(r) PROVE [ExcusedSaleNext]_(Sale!saleVars)
  <2>1. Phase' = Phase
    BY <1>20 DEF ReclaimClaim, Counted, Phase, PhaseOf
  <2> QED
    BY <1>20, <2>1 DEF ReclaimClaim, Counted, Sale!saleVars, Phase
<1>21. ASSUME NEW r \in Reclaimers, ReclaimSkips(r) PROVE [ExcusedSaleNext]_(Sale!saleVars)
  <2>1. Phase' = Phase
    BY <1>21 DEF ReclaimSkips, Forget, Phase, PhaseOf
  <2> QED
    BY <1>21, <2>1 DEF ReclaimSkips, Forget, Sale!saleVars, Phase
<1>22. ASSUME NEW r \in Reclaimers, ReclaimPersist(r) PROVE [ExcusedSaleNext]_(Sale!saleVars)
  <2>1. Phase' = Phase
    BY <1>22 DEF ReclaimPersist, PersistIntent, Phase, PhaseOf
  <2> QED
    BY <1>22, <2>1 DEF ReclaimPersist, PersistIntent, Sale!saleVars, Phase
<1>23. ASSUME NEW r \in Reclaimers, DeadLetterCheck(r) PROVE [ExcusedSaleNext]_(Sale!saleVars)
  <2>1. Phase' = Phase
    BY <1>23 DEF DeadLetterCheck, Phase, PhaseOf
  <2> QED
    BY <1>23, <2>1 DEF DeadLetterCheck, Sale!saleVars, Phase
<1>24. ASSUME NEW r \in Reclaimers, DeadLetterPark(r) PROVE [ExcusedSaleNext]_(Sale!saleVars)
  <2>1. Phase' = Phase
    BY <1>24 DEF DeadLetterPark, Phase, PhaseOf
  <2> QED
    BY <1>24, <2>1 DEF DeadLetterPark, Sale!saleVars, Phase
<1>25. ASSUME NEW r \in Reclaimers, DeadLetterRefund(r) PROVE [ExcusedSaleNext]_(Sale!saleVars)
  <2>1. CASE rkey[r] \in deadMarker
    <3>1. Phase' = Phase
      BY <1>25, <2>1 DEF DeadLetterRefund, NothingReturned, PhaseOf, Phase
    <3> QED
      BY <1>25, <2>1, <3>1 DEF DeadLetterRefund, NothingReturned, Sale!saleVars, Phase
  <2>2. CASE rkey[r] \notin deadMarker
    <3>0. PICK k \in Keys : k = rkey[r] /\ k \notin deadMarker /\ taken[k] = 1 /\ returns[k] \in Nat
      BY <1>25, <2>2 DEF DeadLetterRefund, KnownInv, ReclaimInv
    <3>1. PhaseOf(k)' = "returned" /\ \A j \in Keys : j # k => PhaseOf(j)' = PhaseOf(j)
      BY <1>25, <3>0 DEF DeadLetterRefund, ReturnTickets, PhaseOf
    <3>2. Phase' = [Phase EXCEPT ![k] = "returned"]
      BY <3>1, PhaseUpdate
    <3>3. CASE k \in Excused
      <4>1. Phase[k] # "free"
        BY <3>0 DEF Phase, PhaseOf
      <4>2. StrayReturn(k)
        BY <1>25, <3>0, <3>2, <4>1 DEF DeadLetterRefund, ReturnTickets, StrayReturn
      <4> QED
        BY <3>3, <4>2 DEF ExcusedSaleNext
    <3>4. CASE k \notin Excused
      <4>0. status[k] = "none" /\ RefundInv(k)
        BY <1>25, <3>0, <3>4 DEF DeadLetterRefund, ReclaimInv, Excused
      <4>1. returns[k] = 0
        BY <3>0, <4>0 DEF RefundInv, RefundOwed
      <4>2. PhaseOf(k) = "taken"
        BY <3>0, <4>0, <4>1 DEF PhaseOf
      <4>3. Sale!Return(k)
        BY <1>25, <3>0, <3>2, <4>2
        DEF DeadLetterRefund, ReturnTickets, Uncharge, Sale!Return, Sale!Uncharge, Phase
      <4> QED
        BY <4>3 DEF Sale!SaleNext, ExcusedSaleNext
    <3> QED
      BY <3>3, <3>4
  <2> QED
    BY <2>1, <2>2
<1>26. ASSUME NEW r \in Reclaimers, DeadLetterMark(r) PROVE [ExcusedSaleNext]_(Sale!saleVars)
  <2>1. Phase' = Phase
    BY <1>26 DEF DeadLetterMark, Phase, PhaseOf
  <2> QED
    BY <1>26, <2>1 DEF DeadLetterMark, Sale!saleVars, Phase
<1>27. ASSUME NEW r \in Reclaimers, ReclaimAck(r) PROVE [ExcusedSaleNext]_(Sale!saleVars)
  <2>1. Phase' = Phase
    BY <1>27 DEF ReclaimAck, AckAndRemove, Forget, Phase, PhaseOf
  <2> QED
    BY <1>27, <2>1 DEF ReclaimAck, AckAndRemove, Forget, Sale!saleVars, Phase
<1>28. ASSUME NEW r \in Reclaimers, ReclaimAborts(r) PROVE [ExcusedSaleNext]_(Sale!saleVars)
  <2>1. Phase' = Phase
    BY <1>28 DEF ReclaimAborts, Forget, Fault, Phase, PhaseOf
  <2> QED
    BY <1>28, <2>1 DEF ReclaimAborts, Forget, Fault, Sale!saleVars, Phase
<1>29. ASSUME NEW v \in Relays, OutboxClaim(v) PROVE [ExcusedSaleNext]_(Sale!saleVars)
  <2>1. Phase' = Phase
    BY <1>29 DEF OutboxClaim, Claimable, Phase, PhaseOf
  <2> QED
    BY <1>29, <2>1 DEF OutboxClaim, Claimable, Sale!saleVars, Phase
<1>30. ASSUME NEW v \in Relays, OutboxMark(v) PROVE [ExcusedSaleNext]_(Sale!saleVars)
  <2>1. Phase' = Phase
    BY <1>30 DEF OutboxMark, Phase, PhaseOf
  <2> QED
    BY <1>30, <2>1 DEF OutboxMark, Sale!saleVars, Phase
<1>31. ASSUME NEW v \in Relays, RelayCrash(v) PROVE [ExcusedSaleNext]_(Sale!saleVars)
  <2>1. Phase' = Phase
    BY <1>31 DEF RelayCrash, Fault, Phase, PhaseOf
  <2> QED
    BY <1>31, <2>1 DEF RelayCrash, Fault, Sale!saleVars, Phase
<1>32. ASSUME NEW v \in Relays, NEW k \in Keys, OutboxHandle(v, k) PROVE [ExcusedSaleNext]_(Sale!saleVars)
  <2>1. CASE k \in orderMarker
    <3>1. Phase' = Phase
      BY <1>32, <2>1 DEF OutboxHandle, ReleaseOrderSeat, NothingReturned, PhaseOf, Phase
    <3> QED
      BY <1>32, <2>1, <3>1 DEF OutboxHandle, ReleaseOrderSeat, NothingReturned, Sale!saleVars, Phase
  <2>2. CASE k \notin orderMarker
    <3>0. k \in Keys /\ taken[k] = 1 /\ returns[k] \in Nat
      BY <1>32 DEF OutboxHandle, KnownInv, DebtInv
    <3>1. PhaseOf(k)' = "returned" /\ \A j \in Keys : j # k => PhaseOf(j)' = PhaseOf(j)
      BY <1>32, <2>2, <3>0 DEF OutboxHandle, ReleaseOrderSeat, ReturnTickets, PhaseOf
    <3>2. Phase' = [Phase EXCEPT ![k] = "returned"]
      BY <3>0, <3>1, PhaseUpdate
    <3>3. CASE k \in Excused
      <4>1. Phase[k] # "free"
        BY <3>0 DEF Phase, PhaseOf
      <4>2. StrayReturn(k)
        BY <1>32, <2>2, <3>2, <4>1 DEF OutboxHandle, ReleaseOrderSeat, ReturnTickets, StrayReturn
      <4> QED
        BY <3>3, <4>2 DEF ExcusedSaleNext
    <3>4. CASE k \notin Excused
      <4>1. returns[k] = 0 /\ status[k] # "confirmed"
        BY <1>32, <2>2, <3>0, <3>4 DEF OutboxHandle, KnownInv, ReleaseInv, DebtInv, ReleaseOwed
      <4>2. PhaseOf(k) = "taken"
        BY <3>0, <4>1 DEF PhaseOf
      <4>3. Sale!Return(k)
        BY <1>32, <2>2, <3>0, <3>2, <4>2
        DEF OutboxHandle, ReleaseOrderSeat, ReturnTickets, Uncharge, Sale!Return, Sale!Uncharge, Phase
      <4> QED
        BY <3>0, <4>3 DEF Sale!SaleNext, ExcusedSaleNext
    <3> QED
      BY <3>3, <3>4
  <2> QED
    BY <2>1, <2>2
<1>33. ASSUME NEW v \in Relays, NEW k \in Keys, OutboxHandleFails(v, k) PROVE [ExcusedSaleNext]_(Sale!saleVars)
  <2>1. Phase' = Phase
    BY <1>33 DEF OutboxHandleFails, Fault, Phase, PhaseOf
  <2> QED
    BY <1>33, <2>1 DEF OutboxHandleFails, Fault, Sale!saleVars, Phase
<1>34. CASE UNCHANGED vars
  BY <1>34 DEF vars, Sale!saleVars, Phase, PhaseOf
<1> HIDE <1>0 DEF TypeOK
<1> QED
  BY <1>1, <1>2, <1>3, <1>4, <1>5, <1>6, <1>7, <1>8, <1>9, <1>10, <1>11, <1>12, <1>13, <1>14, <1>15, <1>16, <1>17, <1>18, <1>19, <1>20, <1>21, <1>22, <1>23, <1>24, <1>25, <1>26, <1>27, <1>28, <1>29, <1>30, <1>31, <1>32, <1>33, <1>34
  DEF Next, ConsumerStep, ReclaimStep, RelayStep, Failure, Quiescent

\* Redis, the stream, Postgres and the outbox together sell and return
\* tickets exactly as the abstract sale does: every step of every process is
\* a step of TicketSale or invisible to it, except that a request dead-lettered
\* under a slow process, or one whose marker expired too early, may give its own
\* tickets back again.
THEOREM PipelineImplementsSale == Spec => ImplementsSale
<1>1. Init => Sale!SaleInit
  BY DEF Init, Sale!SaleInit, Phase, PhaseOf
<1>2. PipelineInv /\ [Next]_vars => [ExcusedSaleNext]_(Sale!saleVars)
  BY SaleStep
<1> QED
  BY <1>1, <1>2, PipelineIsInvariant, PTL DEF Spec, ImplementsSale

-----------------------------------------------------------------------------
(* How the number of tickets of a set of requests changes when a request   *)
(* is added or removed: the arithmetic behind every conservation proof.    *)

\* The tickets of one request are as many as its quantity.
LEMMA UnitsOfOne ==
  \A k \in Keys : IsFiniteSet(Units({k})) /\ Cardinality(Units({k})) = Qty[k]
<1> TAKE k \in Keys
<1>1. Units({k}) = {k} \X (1 .. Qty[k])
  BY DEF Units
<1>2. IsFiniteSet({k}) /\ Cardinality({k}) = 1
  BY FS_Singleton
<1>3. Qty[k] \in Nat \ {0}
  BY QtyAssumption
<1>4. IsFiniteSet(1 .. Qty[k]) /\ Cardinality(1 .. Qty[k]) = Qty[k]
  BY <1>3, FS_Interval
<1>5. /\ IsFiniteSet({k} \X (1 .. Qty[k]))
      /\ Cardinality({k} \X (1 .. Qty[k])) = Cardinality({k}) * Cardinality(1 .. Qty[k])
  BY <1>2, <1>4, FS_Product
<1>6. 1 * Qty[k] = Qty[k]
  BY <1>3
<1>7. Cardinality({k} \X (1 .. Qty[k])) = 1 * Qty[k]
  BY <1>2, <1>4, <1>5, Zenon
<1> QED
  BY <1>1, <1>5, <1>6, <1>7, Zenon

\* Finitely many requests ask for finitely many tickets.
LEMMA UnitsFinite ==
  \A K \in SUBSET Keys : IsFiniteSet(Units(K)) /\ Cardinality(Units(K)) \in Nat
<1> TAKE K \in SUBSET Keys
<1> DEFINE Part(k) == {k} \X (1 .. Qty[k])
           Parts == {Part(k) : k \in K}
           f == [k \in K |-> Part(k)]
<1>1. IsFiniteSet(K)
  BY KeysAssumption, FS_Subset
<1>2. f \in Surjection(K, Parts)
  BY DEF Surjection
<1>3. IsFiniteSet(Parts)
  <2> HIDE DEF Parts, f
  <2> QED BY <1>1, <1>2, FS_Surjection
<1>4. ASSUME NEW k \in K PROVE IsFiniteSet(Part(k))
  <2>1. Part(k) = Units({k}) BY DEF Units
  <2> QED BY <2>1, UnitsOfOne
<1>5. IsFiniteSet(UNION Parts)
  <2>1. \A T \in Parts : IsFiniteSet(T) BY <1>4
  <2> HIDE DEF Parts
  <2> QED BY <1>3, <2>1, FS_UNION
<1> QED
  BY <1>5, FS_CardinalityType DEF Units

\* A request that joins a set adds exactly its quantity.
LEMMA UnitsAdd ==
  \A K \in SUBSET Keys : \A k \in Keys \ K :
    Cardinality(Units(K \cup {k})) = Cardinality(Units(K)) + Qty[k]
<1> TAKE K \in SUBSET Keys
<1> TAKE k \in Keys \ K
<1>1. Units(K \cup {k}) = Units(K) \cup Units({k})
  BY DEF Units
<1>2. Units(K) \cap Units({k}) = {}
  BY DEF Units
<1>3. Cardinality({}) = 0
  BY FS_EmptySet
<1>4. /\ IsFiniteSet(Units(K)) /\ Cardinality(Units(K)) \in Nat
      /\ IsFiniteSet(Units({k})) /\ Cardinality(Units({k})) = Qty[k]
      /\ Qty[k] \in Nat
  BY UnitsFinite, UnitsOfOne, QtyAssumption
<1>5. Cardinality(Units(K) \cup Units({k})) =
        Cardinality(Units(K)) + Cardinality(Units({k})) - Cardinality(Units(K) \cap Units({k}))
  BY <1>4, FS_Union
<1>6. Cardinality(Units(K \cup {k})) = Cardinality(Units(K)) + Qty[k] - 0
  BY <1>1, <1>2, <1>3, <1>4, <1>5, Zenon
<1> QED
  BY <1>4, <1>6

\* A request that leaves a set takes exactly its quantity with it.
LEMMA UnitsRemove ==
  \A K \in SUBSET Keys : \A k \in K :
    Cardinality(Units(K)) = Cardinality(Units(K \ {k})) + Qty[k]
<1> TAKE K \in SUBSET Keys
<1> TAKE k \in K
<1>1. (K \ {k}) \cup {k} = K
  OBVIOUS
<1>2. Cardinality(Units((K \ {k}) \cup {k})) = Cardinality(Units(K \ {k})) + Qty[k]
  BY UnitsAdd
<1> QED
  BY <1>1, <1>2

\* Fewer requests, fewer tickets.
LEMMA UnitsMonotone ==
  \A K \in SUBSET Keys : \A L \in SUBSET K : Cardinality(Units(L)) <= Cardinality(Units(K))
<1> TAKE K \in SUBSET Keys
<1> TAKE L \in SUBSET K
<1>1. Units(L) \in SUBSET Units(K)
  BY DEF Units
<1> QED
  BY <1>1, UnitsFinite, FS_Subset

-----------------------------------------------------------------------------
(* What the abstract sale guarantees, read through the refinement mapping: *)
(* the counters of Redis balance against the requests that are out.        *)

\* The keys whose tickets Redis has handed out and not taken back.
OutKeys == {k \in Keys : PhaseOf(k) \in {"taken", "sold"}}
OutKeysOf(u) == {k \in OutKeys : UserOf[k] = u}

LedgerTypes == available \in Nat /\ purchased \in [Users -> Nat]

\* The stock balances against the keys that are out.
StockLedger == available + Cardinality(Units(OutKeys)) = Total

\* So does a buyer's count, and it is within the limit.
BuyerLedger(u) ==
  /\ purchased[u] = Cardinality(Units(OutKeysOf(u)))
  /\ purchased[u] <= Limit

\* The sums and the types are inductive together: a sum alone would not tell
\* that the stock and the counts stay natural numbers.
SaleInv == LedgerTypes /\ StockLedger /\ \A u \in Users : BuyerLedger(u)

\* A set of requests and its part have a number of tickets each, and the part
\* no more than the whole.
LEMMA PipelineUnits ==
  ASSUME NEW K \in SUBSET Keys, NEW L \in SUBSET K
  PROVE  /\ Cardinality(Units(K)) \in Nat
         /\ Cardinality(Units(L)) <= Cardinality(Units(K))
BY UnitsFinite, UnitsMonotone

LEMMA SaleInvInit == Sale!SaleInit => SaleInv
<1> SUFFICES ASSUME Sale!SaleInit PROVE SaleInv
  OBVIOUS
<1>1. Units({}) = {} /\ Cardinality({}) = 0
  BY FS_EmptySet DEF Units
<1>2. \A k \in Keys : PhaseOf(k) = "free"
  <2>1. [k \in Keys |-> PhaseOf(k)] = [k \in Keys |-> "free"]
    BY DEF Sale!SaleInit, Phase
  <2> HIDE DEF PhaseOf
  <2> QED BY <2>1
<1>3. OutKeys = {} /\ \A u \in Users : OutKeysOf(u) = {}
  BY <1>2 DEF OutKeys, OutKeysOf
<1>4. available = Total /\ purchased = [u \in Users |-> 0]
  BY DEF Sale!SaleInit
<1>5. Cardinality(Units(OutKeys)) = 0 /\ \A u \in Users : Cardinality(Units(OutKeysOf(u))) = 0
  BY <1>1, <1>3, Zenon
<1>6. available + 0 = Total /\ 0 <= Limit /\ Total \in Nat
  BY <1>4, BoundsAssumption
<1> QED
  BY <1>4, <1>5, <1>6 DEF SaleInv, LedgerTypes, StockLedger, BuyerLedger

\* A step that changes one request's phase changes no other's.
LEMMA OnePhaseMoves ==
  ASSUME NEW k \in Keys, NEW p,
         Phase' = [Phase EXCEPT ![k] = p]
  PROVE  PhaseOf(k)' = p /\ \A j \in Keys \ {k} : PhaseOf(j)' = PhaseOf(j)
<1>1. Phase' = [j \in Keys |-> PhaseOf(j)']
  BY DEF Phase
<1>2. \A j \in Keys : Phase[j] = PhaseOf(j) /\ Phase'[j] = PhaseOf(j)'
  BY <1>1 DEF Phase
<1>3. \A j \in Keys : Phase'[j] = IF j = k THEN p ELSE Phase[j]
  BY DEF Phase
<1> QED
  BY <1>2, <1>3, Zenon

\* How the sums change: a Take adds its key to the keys that are out, a Return
\* removes it, and nothing else moves.
LEMMA OutMoves ==
  ASSUME NEW k \in Keys
  PROVE  /\ Sale!Take(k) =>
              /\ k \notin OutKeys /\ OutKeys' = OutKeys \cup {k}
              /\ available >= Qty[k] /\ purchased[UserOf[k]] + Qty[k] <= Limit
              /\ available' = available - Qty[k]
              /\ purchased' = [purchased EXCEPT ![UserOf[k]] = @ + Qty[k]]
         /\ Sale!Sell(k) =>
              OutKeys' = OutKeys /\ available' = available /\ purchased' = purchased
         /\ Sale!Return(k) =>
              /\ k \in OutKeys /\ OutKeys' = OutKeys \ {k}
              /\ available' = available + Qty[k]
              /\ purchased' = [purchased EXCEPT ![UserOf[k]] = Uncharge(@, Qty[k])]
<1>1. ASSUME NEW p, NEW q, Phase[k] = p, Phase' = [Phase EXCEPT ![k] = q]
      PROVE  PhaseOf(k) = p /\ PhaseOf(k)' = q /\ \A j \in Keys \ {k} : PhaseOf(j)' = PhaseOf(j)
  BY <1>1, OnePhaseMoves DEF Phase
<1>2. ASSUME Sale!Take(k)
      PROVE  /\ k \notin OutKeys /\ OutKeys' = OutKeys \cup {k}
             /\ available >= Qty[k] /\ purchased[UserOf[k]] + Qty[k] <= Limit
             /\ available' = available - Qty[k]
             /\ purchased' = [purchased EXCEPT ![UserOf[k]] = @ + Qty[k]]
  <2>1. Phase[k] = "free" /\ Phase' = [Phase EXCEPT ![k] = "taken"]
    BY <1>2 DEF Sale!Take
  <2>2. k \notin OutKeys /\ OutKeys' = OutKeys \cup {k}
    BY <2>1, <1>1 DEF OutKeys
  <2> QED
    BY <1>2, <2>2 DEF Sale!Take
<1>3. ASSUME Sale!Sell(k)
      PROVE  OutKeys' = OutKeys /\ available' = available /\ purchased' = purchased
  <2>1. Phase[k] = "taken" /\ Phase' = [Phase EXCEPT ![k] = "sold"]
    BY <1>3 DEF Sale!Sell
  <2>2. OutKeys' = OutKeys
    BY <2>1, <1>1 DEF OutKeys
  <2> QED
    BY <1>3, <2>2 DEF Sale!Sell
<1>4. ASSUME Sale!Return(k)
      PROVE  /\ k \in OutKeys /\ OutKeys' = OutKeys \ {k}
             /\ available' = available + Qty[k]
             /\ purchased' = [purchased EXCEPT ![UserOf[k]] = Uncharge(@, Qty[k])]
  <2>1. Phase[k] = "taken" /\ Phase' = [Phase EXCEPT ![k] = "returned"]
    BY <1>4 DEF Sale!Return
  <2>2. k \in OutKeys /\ OutKeys' = OutKeys \ {k}
    BY <2>1, <1>1 DEF OutKeys
  <2> QED
    BY <1>4, <2>2 DEF Sale!Return, Sale!Uncharge, Uncharge
<1> QED
  BY <1>2, <1>3, <1>4

\* A step that the sale does not notice moves nothing.
LEMMA OutStays ==
  ASSUME UNCHANGED Sale!saleVars
  PROVE  OutKeys' = OutKeys /\ available' = available /\ purchased' = purchased
<1>1. Phase' = Phase /\ Phase' = [j \in Keys |-> PhaseOf(j)']
  BY DEF Sale!saleVars, Phase
<1>2. \A j \in Keys : PhaseOf(j)' = PhaseOf(j)
  BY <1>1 DEF Phase
<1> QED
  BY <1>2 DEF OutKeys, Sale!saleVars

LEMMA TypesStep ==
  ASSUME LedgerTypes, [Sale!SaleNext]_(Sale!saleVars)
  PROVE  LedgerTypes'
<1> USE UserOfAssumption, QtyAssumption DEF LedgerTypes
<1>1. ASSUME NEW k \in Keys, Sale!Take(k) PROVE LedgerTypes'
  BY <1>1 DEF Sale!Take
<1>2. ASSUME NEW k \in Keys, Sale!Sell(k) PROVE LedgerTypes'
  BY <1>2 DEF Sale!Sell
<1>3. ASSUME NEW k \in Keys, Sale!Return(k) PROVE LedgerTypes'
  BY <1>3 DEF Sale!Return, Sale!Uncharge
<1>4. CASE UNCHANGED Sale!saleVars
  BY <1>4 DEF Sale!saleVars
<1> QED
  BY <1>1, <1>2, <1>3, <1>4 DEF Sale!SaleNext

\* The stock stays balanced in every step of the sale.
LEMMA StockStep ==
  ASSUME LedgerTypes, StockLedger, [Sale!SaleNext]_(Sale!saleVars)
  PROVE  StockLedger'
<1>o. OutKeys \in SUBSET Keys /\ OutKeys' \in SUBSET Keys
  BY DEF OutKeys
<1>n. Cardinality(Units(OutKeys)) \in Nat /\ Cardinality(Units(OutKeys')) \in Nat
  BY <1>o, UnitsFinite
<1>u. StockLedger' <=> available' + Cardinality(Units(OutKeys')) = Total
  BY DEF StockLedger, Units
<1>1. ASSUME NEW k \in Keys, Sale!Take(k) PROVE StockLedger'
  <2>1. /\ k \notin OutKeys /\ OutKeys' = OutKeys \cup {k}
        /\ available' = available - Qty[k]
    BY <1>1, OutMoves
  <2>2. Cardinality(Units(OutKeys')) = Cardinality(Units(OutKeys)) + Qty[k]
    BY <2>1, <1>o, UnitsAdd
  <2> QED BY <1>n, <1>u, <2>1, <2>2, QtyAssumption DEF LedgerTypes, StockLedger
<1>2. ASSUME NEW k \in Keys, Sale!Sell(k) PROVE StockLedger'
  BY <1>2, <1>u, OutMoves DEF StockLedger
<1>3. ASSUME NEW k \in Keys, Sale!Return(k) PROVE StockLedger'
  <2>1. k \in OutKeys /\ OutKeys' = OutKeys \ {k} /\ available' = available + Qty[k]
    BY <1>3, OutMoves
  <2>2. Cardinality(Units(OutKeys)) = Cardinality(Units(OutKeys')) + Qty[k]
    BY <2>1, <1>o, UnitsRemove
  <2> QED BY <1>n, <1>u, <2>1, <2>2, QtyAssumption DEF LedgerTypes, StockLedger
<1>4. CASE UNCHANGED Sale!saleVars
  BY <1>4, <1>u, OutStays DEF StockLedger
<1> QED
  BY <1>1, <1>2, <1>3, <1>4 DEF Sale!SaleNext

\* So does the count of a buyer, whatever the requests of others do.
LEMMA BuyerStep ==
  ASSUME LedgerTypes, NEW u \in Users, BuyerLedger(u),
         \/ [Sale!SaleNext]_(Sale!saleVars)
         \/ \E k \in Keys : UserOf[k] # u /\ StrayReturn(k)
  PROVE  BuyerLedger(u)'
<1>o. OutKeysOf(u) \in SUBSET Keys /\ OutKeysOf(u)' \in SUBSET Keys
  BY DEF OutKeys, OutKeysOf
<1>n. Cardinality(Units(OutKeysOf(u))) \in Nat /\ Cardinality(Units(OutKeysOf(u)')) \in Nat
  BY <1>o, UnitsFinite
<1>t. purchased \in [Users -> Nat] /\ purchased[u] \in Nat
  BY DEF LedgerTypes
<1>s. ASSUME OutKeysOf(u)' = OutKeysOf(u), purchased'[u] = purchased[u] PROVE BuyerLedger(u)'
  BY <1>s DEF BuyerLedger, Units
<1>1. ASSUME NEW k \in Keys, Sale!Take(k) PROVE BuyerLedger(u)'
  <2>1. /\ k \notin OutKeys /\ OutKeys' = OutKeys \cup {k}
        /\ purchased[UserOf[k]] + Qty[k] <= Limit
        /\ purchased' = [purchased EXCEPT ![UserOf[k]] = @ + Qty[k]]
    BY <1>1, OutMoves
  <2>2. CASE UserOf[k] = u
    <3>1. k \notin OutKeysOf(u) /\ OutKeysOf(u)' = OutKeysOf(u) \cup {k}
      BY <2>1, <2>2 DEF OutKeysOf
    <3>2. Cardinality(Units(OutKeysOf(u)')) = Cardinality(Units(OutKeysOf(u))) + Qty[k]
      BY <3>1, <1>o, UnitsAdd
    <3>3. purchased'[u] = purchased[u] + Qty[k] /\ purchased[u] + Qty[k] <= Limit
      BY <2>1, <2>2, <1>t
    <3> QED BY <3>2, <3>3 DEF BuyerLedger, Units
  <2>3. CASE UserOf[k] # u
    <3>1. OutKeysOf(u)' = OutKeysOf(u)
      BY <2>1, <2>3 DEF OutKeysOf
    <3>2. purchased'[u] = purchased[u]
      BY <2>1, <2>3, <1>t, UserOfAssumption
    <3> QED BY <3>1, <3>2, <1>s
  <2> QED BY <2>2, <2>3
<1>2. ASSUME NEW k \in Keys, Sale!Sell(k) PROVE BuyerLedger(u)'
  <2>1. OutKeys' = OutKeys /\ purchased' = purchased
    BY <1>2, OutMoves
  <2>2. OutKeysOf(u)' = OutKeysOf(u)
    BY <2>1 DEF OutKeysOf
  <2> QED BY <2>1, <2>2, <1>s
<1>3. ASSUME NEW k \in Keys, Sale!Return(k) PROVE BuyerLedger(u)'
  <2>1. /\ k \in OutKeys /\ OutKeys' = OutKeys \ {k}
        /\ purchased' = [purchased EXCEPT ![UserOf[k]] = Uncharge(@, Qty[k])]
    BY <1>3, OutMoves
  <2>2. CASE UserOf[k] = u
    <3>1. k \in OutKeysOf(u) /\ OutKeysOf(u)' = OutKeysOf(u) \ {k}
      BY <2>1, <2>2 DEF OutKeysOf
    <3>2. Cardinality(Units(OutKeysOf(u))) = Cardinality(Units(OutKeysOf(u)')) + Qty[k]
      BY <3>1, <1>o, UnitsRemove
    <3>3. purchased[u] = Cardinality(Units(OutKeysOf(u)')) + Qty[k] /\ purchased[u] <= Limit
      BY <3>2 DEF BuyerLedger
    <3>4. purchased'[u] = IF purchased[u] > Qty[k] THEN purchased[u] - Qty[k] ELSE 0
      BY <2>1, <2>2, <1>t DEF Uncharge
    <3>5. purchased'[u] = Cardinality(Units(OutKeysOf(u)')) /\ purchased'[u] <= Limit
      BY <3>3, <3>4, <1>n, <1>t, QtyAssumption, BoundsAssumption
    <3> QED BY <3>5 DEF BuyerLedger, Units
  <2>3. CASE UserOf[k] # u
    <3>1. OutKeysOf(u)' = OutKeysOf(u)
      BY <2>1, <2>3 DEF OutKeysOf
    <3>2. purchased'[u] = purchased[u]
      BY <2>1, <2>3, <1>t, UserOfAssumption
    <3> QED BY <3>1, <3>2, <1>s
  <2> QED BY <2>2, <2>3
<1>4. CASE UNCHANGED Sale!saleVars
  <2>1. OutKeys' = OutKeys /\ purchased' = purchased
    BY <1>4, OutStays
  <2>2. OutKeysOf(u)' = OutKeysOf(u)
    BY <2>1 DEF OutKeysOf
  <2> QED BY <2>1, <2>2, <1>s
<1>5. ASSUME NEW k \in Keys, UserOf[k] # u, StrayReturn(k) PROVE BuyerLedger(u)'
  <2>1. \A j \in Keys \ {k} : PhaseOf(j)' = PhaseOf(j)
    BY <1>5, OnePhaseMoves DEF StrayReturn
  <2>2. OutKeysOf(u)' = OutKeysOf(u)
    BY <2>1, <1>5 DEF OutKeys, OutKeysOf
  <2>3. purchased'[u] = purchased[u]
    BY <1>5, <1>t, UserOfAssumption DEF StrayReturn
  <2> QED BY <2>2, <2>3, <1>s
<1> QED
  BY <1>1, <1>2, <1>3, <1>4, <1>5 DEF Sale!SaleNext

LEMMA SaleKeepsLedger == Sale!SaleSpec => []SaleInv
<1>1. Sale!SaleInit => SaleInv
  BY SaleInvInit
<1>2. SaleInv /\ [Sale!SaleNext]_(Sale!saleVars) => SaleInv'
  <2> SUFFICES ASSUME SaleInv, [Sale!SaleNext]_(Sale!saleVars) PROVE SaleInv'
    OBVIOUS
  <2>1. LedgerTypes' /\ StockLedger'
    BY TypesStep, StockStep DEF SaleInv
  <2>2. \A u \in Users : BuyerLedger(u)'
    BY BuyerStep DEF SaleInv
  <2> QED
    BY <2>1, <2>2 DEF SaleInv
<1> QED
  BY <1>1, <1>2, PTL DEF Sale!SaleSpec

\* Whatever sells and returns tickets as TicketSale allows never loses or
\* invents one, counts every buyer exactly and keeps every buyer within the
\* limit (the reserve and release scripts' contract).
THEOREM SaleIsSafe ==
  Sale!SaleSpec =>
    [](Sale!SaleTypeOK /\ Sale!Conserved /\ Sale!ChargedExactly /\ Sale!WithinLimit)
<1>1. SaleInv =>
        Sale!SaleTypeOK /\ Sale!Conserved /\ Sale!ChargedExactly /\ Sale!WithinLimit
  <2> SUFFICES ASSUME SaleInv
               PROVE  Sale!SaleTypeOK /\ Sale!Conserved /\ Sale!ChargedExactly /\ Sale!WithinLimit
    OBVIOUS
  <2>1. Sale!Out = OutKeys /\ \A u : Sale!OutOf(u) = OutKeysOf(u)
    BY DEF Sale!Out, Sale!OutOf, OutKeys, OutKeysOf, Phase
  <2>2. \A K : Sale!Units(K) = Units(K)
    BY DEF Sale!Units, Units
  <2>3. \A S : Sale!Cardinality(S) = Cardinality(S)
    BY DEF Sale!Cardinality, Cardinality
  <2>4. Sale!SaleTypeOK
    BY DEF SaleInv, LedgerTypes, Phase, PhaseOf, Sale!SaleTypeOK, Sale!Phases
  <2> QED
    BY <2>1, <2>2, <2>3, <2>4
    DEF SaleInv, StockLedger, BuyerLedger, Sale!Conserved, Sale!ChargedExactly, Sale!WithinLimit
<1> QED
  BY <1>1, SaleKeepsLedger, PTL

\* An excuse is never forgotten.
LEMMA ExcusesStay ==
  ASSUME [Next]_vars
  PROVE  Excused \subseteq Excused'
<1> USE DEF Excused, history
<1>1. ASSUME NEW k \in Keys,
             \/ Reserve(k) \/ ConfirmPaid(k) \/ ExpireOrder(k) \/ CancelOrder(k)
             \/ FastRelease(k) \/ EntryGoesIdle(k) \/ LeaseExpires(k) \/ Redrive(k)
             \/ PurgeOutbox(k) \/ FastPathDies(k)
      PROVE  UNCHANGED history
  BY <1>1
  DEF Reserve, ConfirmPaid, ExpireOrder, CancelOrder, TransitionOwingRelease, FastRelease,
      EntryGoesIdle, LeaseExpires, Redrive, PurgeOutbox, FastPathDies
<1>2. ASSUME NEW k \in Keys, OrderMarkerExpires(k) \/ DeadMarkerExpires(k)
      PROVE  UNCHANGED overlapped /\ lapsed \subseteq lapsed'
  BY <1>2 DEF OrderMarkerExpires, DeadMarkerExpires
<1>3. ASSUME NEW c \in Consumers,
             \/ ReadBatch(c) \/ ConsumeAck(c) \/ ConsumeAckFails(c) \/ ConsumerCrash(c)
             \/ \E k \in Keys : ConsumePersist(c, k) \/ ConsumePersistFails(c, k)
      PROVE  UNCHANGED history
  BY <1>3
  DEF ReadBatch, ConsumeAck, ConsumeAckFails, ConsumerCrash, ConsumePersist,
      ConsumePersistFails
<1>4. ASSUME NEW r \in Reclaimers,
             \/ \E k \in Keys : ReclaimScan(r, k)
             \/ ReclaimSkips(r) \/ ReclaimPersist(r) \/ DeadLetterCheck(r) \/ DeadLetterPark(r)
             \/ DeadLetterRefund(r) \/ DeadLetterMark(r) \/ ReclaimAck(r) \/ ReclaimAborts(r)
      PROVE  UNCHANGED history
  BY <1>4
  DEF ReclaimScan, ReclaimSkips, ReclaimPersist, DeadLetterCheck, DeadLetterPark,
      DeadLetterRefund, DeadLetterMark, ReclaimAck, ReclaimAborts
<1>5. ASSUME NEW r \in Reclaimers, ReclaimClaim(r)
      PROVE  UNCHANGED lapsed /\ overlapped \subseteq overlapped'
  BY <1>5 DEF ReclaimClaim
<1>6. ASSUME NEW v \in Relays,
             \/ OutboxClaim(v) \/ OutboxMark(v) \/ RelayCrash(v)
             \/ \E k \in Keys : OutboxHandle(v, k) \/ OutboxHandleFails(v, k)
      PROVE  UNCHANGED history
  BY <1>6 DEF OutboxClaim, OutboxMark, RelayCrash, OutboxHandle, OutboxHandleFails
<1>7. CASE UNCHANGED vars
  BY <1>7 DEF vars
<1> QED
  BY <1>1, <1>2, <1>3, <1>4, <1>5, <1>6, <1>7
  DEF Next, ConsumerStep, ReclaimStep, RelayStep, Failure, Quiescent

\* The counters balance as long as nothing is excused: the stock for all
\* requests together, a buyer's count for the requests of that buyer.
LedgerInv ==
  /\ Excused = {} => StockLedger
  /\ \A u \in Users : ExcusedOf(u) = {} => BuyerLedger(u)

LEMMA LedgerIsInvariant == Spec => [](PipelineInv /\ LedgerInv)
<1>1. Init => LedgerInv
  <2>1. Init => Sale!SaleInit
    BY DEF Init, Sale!SaleInit, Phase, PhaseOf
  <2> QED
    BY <2>1, SaleInvInit DEF SaleInv, LedgerInv
<1>2. ASSUME PipelineInv, LedgerInv, [Next]_vars PROVE LedgerInv'
  <2>1. [ExcusedSaleNext]_(Sale!saleVars)
    BY <1>2, SaleStep
  <2>2. LedgerTypes
    BY <1>2 DEF PipelineInv, TypeOK, LedgerTypes
  <2>3. Excused \subseteq Excused' /\ Excused \subseteq Keys
    BY <1>2, ExcusesStay DEF PipelineInv, TypeOK, Excused
  <2>4. ASSUME Excused' = {} PROVE StockLedger'
    <3>1. Excused = {}
      BY <2>3, <2>4
    <3>2. [Sale!SaleNext]_(Sale!saleVars)
      BY <2>1, <3>1 DEF ExcusedSaleNext
    <3> QED
      BY <1>2, <2>2, <3>1, <3>2, StockStep DEF LedgerInv
  <2>5. ASSUME NEW u \in Users, ExcusedOf(u)' = {} PROVE BuyerLedger(u)'
    <3>1. ExcusedOf(u) = {}
      BY <2>3, <2>5 DEF ExcusedOf
    <3>2. \A k \in Excused : UserOf[k] # u
      BY <3>1 DEF ExcusedOf
    <3>3. \/ [Sale!SaleNext]_(Sale!saleVars)
          \/ \E k \in Keys : UserOf[k] # u /\ StrayReturn(k)
      BY <2>1, <2>3, <3>2 DEF ExcusedSaleNext
    <3> QED
      BY <1>2, <2>2, <3>1, <3>3, BuyerStep DEF LedgerInv
  <2> QED
    BY <2>4, <2>5 DEF LedgerInv
<1> QED
  BY <1>1, <1>2, PipelineIsInvariant, PTL DEF Spec

\* The event is never oversold before a request is excused: the live orders and
\* the stock Redis would still sell fit into the event, for any number of buyers
\* and processes.
THEOREM PipelineNeverOversells == Spec => []NoOversell
<1>1. PipelineInv /\ LedgerInv => NoOversell
  <2> SUFFICES ASSUME PipelineInv, LedgerInv, Excused = {} PROVE Fits
    BY DEF NoOversell
  <2>1. LiveOrders \in SUBSET OutKeys
    BY DEF PipelineInv, KnownInv, ReleaseInv, LiveOrders, OutKeys, PhaseOf, Live
  <2>2. OutKeys \in SUBSET Keys /\ LiveOrders \in SUBSET Keys
    BY DEF OutKeys, LiveOrders
  <2>3. Cardinality(Units(LiveOrders)) <= Cardinality(Units(OutKeys))
    BY <2>1, <2>2, PipelineUnits
  <2>4. Cardinality(Units(LiveOrders)) \in Nat /\ Cardinality(Units(OutKeys)) \in Nat
    BY <2>2, PipelineUnits
  <2>5. available \in Nat /\ available + Cardinality(Units(OutKeys)) = Total
    BY DEF PipelineInv, TypeOK, LedgerInv, StockLedger
  <2> QED
    BY <2>3, <2>4, <2>5 DEF Fits
<1> QED
  BY <1>1, LedgerIsInvariant, PTL

\* The live orders of a buyer none of whose requests is excused never exceed
\* the purchase limit, whatever happens to the requests of others.
THEOREM PipelineKeepsTheLimit == Spec => []LimitHolds
<1>1. PipelineInv /\ LedgerInv => LimitHolds
  <2> SUFFICES ASSUME PipelineInv, LedgerInv, NEW u \in Users, ExcusedOf(u) = {}
               PROVE  Cardinality(Units(LiveOrdersOf(u))) <= Limit
    BY DEF LimitHolds
  <2>1. LiveOrdersOf(u) \in SUBSET OutKeysOf(u)
    BY DEF PipelineInv, KnownInv, ReleaseInv, LiveOrdersOf, LiveOrders, OutKeysOf,
           OutKeys, PhaseOf, Live, ExcusedOf
  <2>2. OutKeysOf(u) \in SUBSET Keys /\ LiveOrdersOf(u) \in SUBSET Keys
    BY DEF OutKeysOf, OutKeys, LiveOrdersOf, LiveOrders
  <2>3. Cardinality(Units(LiveOrdersOf(u))) <= Cardinality(Units(OutKeysOf(u)))
    BY <2>1, <2>2, PipelineUnits
  <2>4. Cardinality(Units(LiveOrdersOf(u))) \in Nat /\ Cardinality(Units(OutKeysOf(u))) \in Nat
    BY <2>2, PipelineUnits
  <2> QED
    BY <2>3, <2>4, BoundsAssumption DEF LedgerInv, BuyerLedger
<1> QED
  BY <1>1, LedgerIsInvariant, PTL

\* Once every intent is settled and no release is owed, the Redis counters
\* are exactly what reconcile_inventory would compute from the orders table: the
\* stock if no request, a buyer's quota if none of that buyer's is excused.
THEOREM PipelineSettles == Spec => []SettledCountersMatch
<1>1. PipelineInv /\ LedgerInv => SettledCountersMatch
  <2> SUFFICES ASSUME PipelineInv, LedgerInv, \A k \in Keys : AtRest(k)
               PROVE  /\ Excused = {} => available = Total - Cardinality(Units(LiveOrders))
                      /\ \A u \in Users :
                           ExcusedOf(u) = {} => purchased[u] = Cardinality(Units(LiveOrdersOf(u)))
    BY DEF SettledCountersMatch
  <2>1. ASSUME NEW k \in Keys \ Excused PROVE k \in LiveOrders <=> k \in OutKeys
    <3>1. KnownInv(k) /\ ClaimInv(k) /\ RefundInv(k) /\ ReleaseInv(k) /\ DebtInv(k) /\ TypeOK
          /\ AtRest(k)
      BY DEF PipelineInv
    <3>2. CASE status[k] = "none"
      BY <3>1, <3>2 DEF KnownInv, ClaimInv, TypeOK, AtRest, LiveOrders, OutKeys, PhaseOf, Live
    <3>3. CASE status[k] \in Live
      BY <3>1, <3>3 DEF KnownInv, ReleaseInv, LiveOrders, OutKeys, PhaseOf, Live
    <3>4. CASE status[k] \in Owing
      BY <3>1, <3>4
      DEF KnownInv, ReleaseInv, DebtInv, ReleaseOwed, AtRest, LiveOrders, OutKeys, PhaseOf,
          Live, Owing
    <3> QED
      BY <3>1, <3>2, <3>3, <3>4 DEF TypeOK
  <2>2. LiveOrders \subseteq Keys /\ OutKeys \subseteq Keys
    BY DEF LiveOrders, OutKeys
  <2>3. ASSUME Excused = {} PROVE available = Total - Cardinality(Units(LiveOrders))
    <3>1. LiveOrders = OutKeys
      BY <2>1, <2>2, <2>3
    <3>2. Cardinality(Units(OutKeys)) \in Nat /\ available \in Nat
      BY PipelineUnits DEF OutKeys, PipelineInv, TypeOK
    <3> QED
      BY <2>3, <3>1, <3>2, BoundsAssumption DEF LedgerInv, StockLedger
  <2>4. ASSUME NEW u \in Users, ExcusedOf(u) = {}
        PROVE  purchased[u] = Cardinality(Units(LiveOrdersOf(u)))
    <3>1. LiveOrdersOf(u) = OutKeysOf(u)
      BY <2>1, <2>2, <2>4 DEF LiveOrdersOf, OutKeysOf, ExcusedOf
    <3> QED
      BY <2>4, <3>1 DEF LedgerInv, BuyerLedger
  <2> QED
    BY <2>3, <2>4
<1> QED
  BY <1>1, LedgerIsInvariant, PTL

\* Together: tickets are returned once, up to the excused requests, and never
\* forgotten.
THEOREM PipelineReturnsAreSound == Spec => []ReturnsAreSound
  BY PipelineTypeOK, PipelineReturnsOnce, PipelineForgetsNothing, PTL DEF ReturnsAreSound

\* Together: the counters that the sale is made from are right, up to the
\* excused requests.
THEOREM PipelineCountersAreSound == Spec => []CountersAreSound
  BY PipelineNeverOversells, PipelineKeepsTheLimit, PipelineSettles, PTL DEF CountersAreSound

-----------------------------------------------------------------------------
(* What a buyer is told.                                                   *)

\* Only six kinds of steps change what the poll looks at.
LEMMA PollChanges ==
  ASSUME [Next]_vars
  PROVE  \/ UNCHANGED <<status, claim>>
         \/ \E k \in Keys : Reserve(k) \/ ConfirmPaid(k) \/ ExpireOrder(k) \/ CancelOrder(k)
         \/ \E c \in Consumers, k \in Keys : ConsumePersist(c, k)
         \/ \E r \in Reclaimers : ReclaimPersist(r) \/ DeadLetterMark(r)
<1> USE DEF redis, stream, stock, db, consumers, reclaimers, relays
<1>1. ASSUME NEW k \in Keys,
             FastRelease(k) \/ EntryGoesIdle(k) \/ LeaseExpires(k) \/ Redrive(k)
               \/ PurgeOutbox(k) \/ OrderMarkerExpires(k) \/ DeadMarkerExpires(k)
               \/ FastPathDies(k)
      PROVE  UNCHANGED <<status, claim>>
  BY <1>1
  DEF FastRelease, ReleaseOrderSeat, ReturnTickets, NothingReturned, EntryGoesIdle,
      LeaseExpires, Redrive, PurgeOutbox, OrderMarkerExpires, DeadMarkerExpires, FastPathDies
<1>2. ASSUME NEW c \in Consumers,
             ReadBatch(c) \/ ConsumeAck(c) \/ ConsumeAckFails(c) \/ ConsumerCrash(c)
               \/ \E k \in Keys : ConsumePersistFails(c, k)
      PROVE  UNCHANGED <<status, claim>>
  BY <1>2
  DEF ReadBatch, ConsumeAck, AckAndRemove, ConsumeAckFails, ConsumerCrash, ConsumePersistFails
<1>3. ASSUME NEW r \in Reclaimers,
             \/ \E k \in Keys : ReclaimScan(r, k)
             \/ ReclaimClaim(r) \/ ReclaimSkips(r) \/ DeadLetterCheck(r) \/ DeadLetterPark(r)
             \/ DeadLetterRefund(r) \/ ReclaimAck(r) \/ ReclaimAborts(r)
      PROVE  UNCHANGED <<status, claim>>
  BY <1>3
  DEF ReclaimScan, ReclaimClaim, ReclaimSkips, Forget, DeadLetterCheck, DeadLetterPark,
      DeadLetterRefund, ReturnTickets, NothingReturned, ReclaimAck, AckAndRemove, ReclaimAborts
<1>4. ASSUME NEW v \in Relays,
             OutboxClaim(v) \/ OutboxMark(v) \/ RelayCrash(v)
               \/ \E k \in Keys : OutboxHandle(v, k) \/ OutboxHandleFails(v, k)
      PROVE  UNCHANGED <<status, claim>>
  BY <1>4
  DEF OutboxClaim, OutboxMark, RelayCrash, OutboxHandle, ReleaseOrderSeat, ReturnTickets,
      NothingReturned, OutboxHandleFails
<1>5. CASE UNCHANGED vars
  BY <1>5 DEF vars
<1> QED
  BY <1>1, <1>2, <1>3, <1>4, <1>5
  DEF Next, ConsumerStep, ReclaimStep, RelayStep, Failure, Quiescent

\* Nobody is left who would insert the order of a failed request that was not
\* dead-lettered under a slow process, and an order that is there stays there.
LEMMA PollStep ==
  ASSUME PipelineInv, [Next]_vars, NEW k \in Keys
  PROVE  /\ status[k] # "none" => status'[k] # "none"
         /\ status[k] = "none" /\ claim[k] = "FAILED" /\ k \notin overlapped =>
              status'[k] = "none" /\ claim'[k] = "FAILED"
<1>t. TypeOK /\ (claim[k] = "FAILED" /\ k \notin overlapped => Doomed(k))
  BY DEF PipelineInv, ClaimInv
<1>1. ASSUME NEW j \in Keys, Reserve(j)
      PROVE  UNCHANGED status /\ (claim[k] = "FAILED" => claim'[k] = claim[k])
  BY <1>1, <1>t DEF Reserve, ReserveOutcome, TypeOK, db
<1>2. ASSUME NEW j \in Keys, ConfirmPaid(j) \/ ExpireOrder(j) \/ CancelOrder(j)
      PROVE  UNCHANGED claim /\ (status[k] = "none" <=> status'[k] = "none")
  BY <1>2, <1>t
  DEF ConfirmPaid, ExpireOrder, CancelOrder, TransitionOwingRelease, TypeOK, redis, stock, stream
<1>3. ASSUME NEW c \in Consumers, NEW j \in Keys, ConsumePersist(c, j)
      PROVE  /\ UNCHANGED claim /\ (status[k] # "none" => status'[k] # "none")
             /\ claim[k] = "FAILED" /\ k \notin overlapped /\ status[k] = "none" =>
                  status'[k] = "none"
  BY <1>3, <1>t
  DEF ConsumePersist, PersistIntent, Doomed, MayStillPersist, TypeOK, redis, stock,
      stream
<1>4. ASSUME NEW r \in Reclaimers, ReclaimPersist(r)
      PROVE  /\ UNCHANGED claim /\ (status[k] # "none" => status'[k] # "none")
             /\ claim[k] = "FAILED" /\ k \notin overlapped /\ status[k] = "none" =>
                  status'[k] = "none"
  BY <1>4, <1>t
  DEF ReclaimPersist, PersistIntent, Doomed, MayStillPersist, TypeOK, redis, stock,
      stream
<1>5. ASSUME NEW r \in Reclaimers, DeadLetterMark(r)
      PROVE  UNCHANGED status /\ (claim[k] = "FAILED" => claim'[k] = claim[k])
  BY <1>5, <1>t DEF DeadLetterMark, TypeOK, db
<1> QED
  BY <1>1, <1>2, <1>3, <1>4, <1>5, PollChanges

\* What a buyer reads of a request, once it is FAILED or READY, stays so, however
\* consumers, reclaim passes and their crashes interleave, and however early the
\* release markers expire.  Only an intent dead-lettered while another process
\* still had it in hand can turn from FAILED to READY.
THEOREM PipelinePollsAreFinal == Spec => PollIsFinal
<1>1. ASSUME PipelineInv, [Next]_vars, NEW k \in Keys
      PROVE  /\ PollState(k) = "READY" => PollState(k)' = "READY"
             /\ PollState(k) = "FAILED" /\ k \notin overlapped => PollState(k)' = "FAILED"
  <2>1. CASE status[k] # "none"
    BY <1>1, <2>1, PollStep DEF PollState
  <2>2. CASE status[k] = "none" /\ claim[k] = "FAILED"
    BY <1>1, <2>2, PollStep DEF PollState
  <2>3. CASE status[k] = "none" /\ claim[k] # "FAILED"
    BY <1>1, <2>3 DEF PollState
  <2> QED
    BY <2>1, <2>2, <2>3
<1>2. PipelineInv /\ [Next]_vars =>
        [\A k \in Keys :
           /\ PollState(k) = "READY" => PollState(k)' = "READY"
           /\ PollState(k) = "FAILED" /\ k \notin overlapped => PollState(k)' = "FAILED"]_vars
  BY <1>1
<1> QED
  BY <1>2, PipelineIsInvariant, PTL DEF Spec, PollIsFinal

=============================================================================

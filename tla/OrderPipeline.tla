--------------------------- MODULE OrderPipeline ----------------------------
(***************************************************************************)
(* The order pipeline of one counter-based event: the atomic Redis         *)
(* reservation, the order stream with its consumers and the reclaim cron,  *)
(* dead-lettering, the orders table, the post-commit seat release and the  *)
(* transactional outbox that backs it up.                                  *)
(*                                                                         *)
(* Every Redis script, SQL transaction or MULTI/EXEC block is one action;  *)
(* whatever a process remembers between two of them is a variable, and a   *)
(* process may die between any two of its steps.                           *)
(***************************************************************************)
EXTENDS Requests

CONSTANTS
  Consumers,      \* runs of _consume_batch (the loop process, the fallback cron)
  Reclaimers,     \* (pass, entry) pairs that reclaim_stale_order_intents handles at once
  Relays,         \* overlapping runs of process_outbox
  None,           \* no key
  MaxDeliveries,  \* ORDER_MAX_DELIVERIES
  MaxAttempts,    \* OUTBOX_MAX_ATTEMPTS
  MaxFaults       \* bound on crashes and failed calls in a behaviour

ASSUME NoneAssumption == None \notin Keys
ASSUME MaxAssumption ==
  MaxDeliveries \in Nat \ {0} /\ MaxAttempts \in Nat \ {0} /\ MaxFaults \in Nat

VARIABLES
  \* Redis
  available,    \* event:{id}:available
  purchased,    \* event:{id}:purchased, tickets per buyer (0 when there is no field)
  claim,        \* idempotency:{key}
  fresh,        \* stream entries not delivered to the consumer group yet
  pel,          \* entries delivered and not acknowledged (the pending entries list)
  deliveries,   \* times_delivered of an entry, up to MaxDeliveries
  idle,         \* entries of pel untouched for ORDER_RECLAIM_IDLE_MS
  parked,       \* intents copied to the dead-letter stream
  orderMarker,  \* released:order:{id}
  deadMarker,   \* released:dl:{key}
  \* Postgres
  status,       \* orders.status by idempotency_key, "none" without a row
  outbox,       \* the seat.release row of an order
  attempts,     \* outbox.attempts
  leased,       \* rows whose next_attempt_at is in the future
  \* memory of the processes
  batch,        \* consumer: entries read and not handled yet
  acking,       \* consumer: entry committed, about to be acknowledged
  rpc,          \* reclaimer: next step
  rkey,         \* reclaimer: its entry
  rtimes,       \* reclaimer: times_delivered as XPENDING reported it
  rseen,        \* reclaimer: already_persisted of _dead_letter_intent
  fast,         \* orders committed EXPIRED/CANCELLED, fast-path release still to come
  rows,         \* relay: claimed rows not handled yet
  marking,      \* relay: row handled, about to be marked processed
  \* observation only
  taken,        \* times the reserve script took the key's tickets
  returns,      \* times a release script put them back
  overlapped,   \* keys dead-lettered while another process still had the intent in hand
  lapsed,       \* keys whose released marker expired while a release was still to come
  faults        \* crashes and failed calls so far

redis == <<available, purchased, claim, fresh, pel, deliveries, idle, parked,
           orderMarker, deadMarker>>
stream == <<fresh, pel, deliveries, idle>>
stock == <<available, purchased>>
db == <<status, outbox, attempts, leased>>
consumers == <<batch, acking>>
reclaimers == <<rpc, rkey, rtimes, rseen>>
relays == <<rows, marking>>
history == <<overlapped, lapsed>>
vars == <<redis, db, consumers, reclaimers, fast, relays, taken, returns, history, faults>>

Live == {"pending", "confirmed"}
Owing == {"expired", "cancelled"}   \* final states that owe a seat release

Init ==
  /\ available = Total /\ purchased = [u \in Users |-> 0]
  /\ claim = [k \in Keys |-> "none"]
  /\ fresh = {} /\ pel = {} /\ deliveries = [k \in Keys |-> 0] /\ idle = {}
  /\ parked = {} /\ orderMarker = {} /\ deadMarker = {}
  /\ status = [k \in Keys |-> "none"] /\ outbox = [k \in Keys |-> "none"]
  /\ attempts = [k \in Keys |-> 0] /\ leased = {}
  /\ batch = [c \in Consumers |-> {}] /\ acking = [c \in Consumers |-> None]
  /\ rpc = [r \in Reclaimers |-> "idle"] /\ rkey = [r \in Reclaimers |-> None]
  /\ rtimes = [r \in Reclaimers |-> 0] /\ rseen = [r \in Reclaimers |-> FALSE]
  /\ fast = {}
  /\ rows = [v \in Relays |-> {}] /\ marking = [v \in Relays |-> None]
  /\ taken = [k \in Keys |-> 0] /\ returns = [k \in Keys |-> 0]
  /\ overlapped = {} /\ lapsed = {} /\ faults = 0

-----------------------------------------------------------------------------
(* Redis scripts and transactions shared by several actions.               *)

\* Variant: the script forgets the purchase limit.
ReserveIgnoresLimit(k) ==
  IF claim[k] # "none" THEN "DUP"
  ELSE IF available < Qty[k] THEN "SOLD_OUT" ELSE "OK"

\* What the reserve script answers.  Stock is checked before the limit.
ReserveOutcome(k) ==
  IF claim[k] # "none" THEN "DUP"
  ELSE IF available < Qty[k] THEN "SOLD_OUT"
  ELSE IF purchased[UserOf[k]] + Qty[k] > Limit THEN "OVER_LIMIT"
  ELSE "OK"

\* Variant: a release path forgets the buyer's quota.
UnchargeForgotten(count, q) == count

\* The buyer's field is deleted when it would reach zero or less.
Uncharge(count, q) == IF count > q THEN count - q ELSE 0

\* The release script once its SETNX has succeeded.
ReturnTickets(k) ==
  /\ available' = available + Qty[k]
  /\ purchased' = [purchased EXCEPT ![UserOf[k]] = Uncharge(@, Qty[k])]
  /\ returns' = [returns EXCEPT ![k] = @ + 1]

NothingReturned == UNCHANGED <<stock, returns>>

\* Variant: a release without the SETNX marker.
ReleaseUnmarked(k) == ReturnTickets(k) /\ orderMarker' = orderMarker \cup {k}

\* release_order_seat of an order without a zone.
ReleaseOrderSeat(k) ==
  /\ orderMarker' = orderMarker \cup {k}
  /\ IF k \in orderMarker THEN NothingReturned ELSE ReturnTickets(k)

\* XACK and XDEL in one MULTI/EXEC; acknowledging twice is a no-op.
AckAndRemove(k) ==
  /\ pel' = pel \ {k}
  /\ idle' = idle \ {k}
  /\ deliveries' = [deliveries EXCEPT ![k] = 0]
  /\ UNCHANGED fresh

\* _persist_intent when it commits or finds the UNIQUE idempotency_key taken.
PersistIntent(k) ==
  status' = [status EXCEPT ![k] = IF @ = "none" THEN "pending" ELSE @]

\* A crash, a lost connection or an exception, in a bounded number.
Fault == faults < MaxFaults /\ faults' = faults + 1

-----------------------------------------------------------------------------
(* submit_order and the reserve script.  The other outcomes change nothing. *)

Reserve(k) ==
  /\ ReserveOutcome(k) = "OK"
  /\ available' = available - Qty[k]
  /\ purchased' = [purchased EXCEPT ![UserOf[k]] = @ + Qty[k]]
  /\ fresh' = fresh \cup {k}
  /\ claim' = [claim EXCEPT ![k] = "PENDING"]
  /\ taken' = [taken EXCEPT ![k] = @ + 1]
  /\ UNCHANGED <<pel, deliveries, idle, parked, orderMarker, deadMarker, db,
                 consumers, reclaimers, fast, relays, returns, history, faults>>

-----------------------------------------------------------------------------
(* _consume_batch                                                          *)

\* XREADGROUP hands every undelivered entry to one consumer.
ReadBatch(c) ==
  /\ batch[c] = {} /\ acking[c] = None /\ fresh # {}
  /\ batch' = [batch EXCEPT ![c] = fresh]
  /\ pel' = pel \cup fresh
  /\ deliveries' = [k \in Keys |-> IF k \in fresh THEN 1 ELSE deliveries[k]]
  /\ fresh' = {}
  /\ UNCHANGED <<stock, claim, idle, parked, orderMarker, deadMarker, db,
                 acking, reclaimers, fast, relays, taken, returns, history,
                 faults>>

ConsumePersist(c, k) ==
  /\ k \in batch[c] /\ acking[c] = None
  /\ PersistIntent(k)
  /\ batch' = [batch EXCEPT ![c] = @ \ {k}]
  /\ acking' = [acking EXCEPT ![c] = k]
  /\ UNCHANGED <<redis, outbox, attempts, leased, reclaimers, fast, relays,
                 taken, returns, history, faults>>

\* Variant: a failed insert is acknowledged like a successful one.
FailureAcked(c, k) ==
  /\ k \in batch[c] /\ acking[c] = None
  /\ Fault
  /\ AckAndRemove(k)
  /\ batch' = [batch EXCEPT ![c] = @ \ {k}]
  /\ UNCHANGED <<stock, claim, parked, orderMarker, deadMarker, db, acking,
                 reclaimers, fast, relays, taken, returns, history>>

\* Variant: the buyer is told FAILED at the first failed insert.
FailureReportedEarly(c, k) ==
  /\ k \in batch[c] /\ acking[c] = None
  /\ Fault
  /\ claim' = [claim EXCEPT ![k] = "FAILED"]
  /\ batch' = [batch EXCEPT ![c] = @ \ {k}]
  /\ UNCHANGED <<stock, stream, parked, orderMarker, deadMarker, db, acking,
                 reclaimers, fast, relays, taken, returns, history>>

\* 'failed' or an exception: the entry stays un-acked and the loop goes on.
ConsumePersistFails(c, k) ==
  /\ k \in batch[c] /\ acking[c] = None
  /\ Fault
  /\ batch' = [batch EXCEPT ![c] = @ \ {k}]
  /\ UNCHANGED <<redis, db, acking, reclaimers, fast, relays, taken, returns,
                 history>>

ConsumeAck(c) ==
  /\ acking[c] # None
  /\ AckAndRemove(acking[c])
  /\ acking' = [acking EXCEPT ![c] = None]
  /\ UNCHANGED <<stock, claim, parked, orderMarker, deadMarker, db, batch,
                 reclaimers, fast, relays, taken, returns, history, faults>>

\* Redis is unreachable at the ack: the exception is logged and swallowed.
ConsumeAckFails(c) ==
  /\ acking[c] # None
  /\ Fault
  /\ acking' = [acking EXCEPT ![c] = None]
  /\ UNCHANGED <<redis, db, batch, reclaimers, fast, relays, taken, returns,
                 history>>

ConsumerCrash(c) ==
  /\ batch[c] # {} \/ acking[c] # None
  /\ Fault
  /\ batch' = [batch EXCEPT ![c] = {}]
  /\ acking' = [acking EXCEPT ![c] = None]
  /\ UNCHANGED <<redis, db, reclaimers, fast, relays, taken, returns, history>>

-----------------------------------------------------------------------------
(* reclaim_stale_order_intents and _dead_letter_intent                     *)

EntryGoesIdle(k) ==
  /\ k \in pel \ idle
  /\ idle' = idle \cup {k}
  /\ UNCHANGED <<stock, claim, fresh, pel, deliveries, parked, orderMarker,
                 deadMarker, db, consumers, reclaimers, fast, relays, taken,
                 returns, history, faults>>

\* Variant: entries that reached the delivery limit are no longer looked at.
ScanBelowMax(r, k) ==
  /\ rpc[r] = "idle" /\ k \in idle /\ deliveries[k] < MaxDeliveries
  /\ rpc' = [rpc EXCEPT ![r] = "scanned"]
  /\ rkey' = [rkey EXCEPT ![r] = k]
  /\ rtimes' = [rtimes EXCEPT ![r] = deliveries[k]]
  /\ UNCHANGED <<redis, db, consumers, rseen, fast, relays, taken, returns,
                 history, faults>>

\* XPENDING with IDLE: the pass remembers the entry and its delivery count.
ReclaimScan(r, k) ==
  /\ rpc[r] = "idle" /\ k \in idle
  /\ rpc' = [rpc EXCEPT ![r] = "scanned"]
  /\ rkey' = [rkey EXCEPT ![r] = k]
  /\ rtimes' = [rtimes EXCEPT ![r] = deliveries[k]]
  /\ UNCHANGED <<redis, db, consumers, rseen, fast, relays, taken, returns,
                 history, faults>>

\* Somebody may still commit k although it has been delivered often enough.
MayStillPersist(k) ==
  \/ \E c \in Consumers : k \in batch[c]
  \/ \E r \in Reclaimers :
       /\ rkey[r] = k
       /\ rpc[r] = "retry" \/ (rpc[r] = "scanned" /\ rtimes[r] < MaxDeliveries)

Counted(n) == IF n < MaxDeliveries THEN n + 1 ELSE n

\* XCLAIM takes the entry only if it is still pending and still idle; the count
\* that XPENDING reported decides, whoever else still has the entry in hand.
ReclaimClaim(r) ==
  /\ rpc[r] = "scanned" /\ rkey[r] \in idle
  /\ deliveries' = [deliveries EXCEPT ![rkey[r]] = Counted(@)]
  /\ idle' = idle \ {rkey[r]}
  /\ \/ /\ rtimes[r] < MaxDeliveries
        /\ rpc' = [rpc EXCEPT ![r] = "retry"]
        /\ UNCHANGED overlapped
     \/ /\ rtimes[r] >= MaxDeliveries
        /\ rpc' = [rpc EXCEPT ![r] = "check"]
        /\ overlapped' = overlapped \cup {k \in {rkey[r]} : MayStillPersist(k)}
  /\ UNCHANGED <<stock, claim, fresh, pel, parked, orderMarker, deadMarker, db,
                 consumers, rkey, rtimes, rseen, fast, relays, taken, returns,
                 lapsed, faults>>

\* Back to the loop: the pass forgets the entry.
Forget(r) ==
  /\ rpc' = [rpc EXCEPT ![r] = "idle"]
  /\ rkey' = [rkey EXCEPT ![r] = None]
  /\ rtimes' = [rtimes EXCEPT ![r] = 0]
  /\ rseen' = [rseen EXCEPT ![r] = FALSE]

ReclaimSkips(r) ==
  /\ rpc[r] = "scanned" /\ rkey[r] \notin idle
  /\ Forget(r)
  /\ UNCHANGED <<redis, db, consumers, fast, relays, taken, returns, history,
                 faults>>

ReclaimPersist(r) ==
  /\ rpc[r] = "retry"
  /\ PersistIntent(rkey[r])
  /\ rpc' = [rpc EXCEPT ![r] = "ack"]
  /\ UNCHANGED <<redis, outbox, attempts, leased, consumers, rkey, rtimes,
                 rseen, fast, relays, taken, returns, history, faults>>

\* Variant: the refund does not look at the database first.
RefundUnchecked(r) ==
  /\ rpc[r] = "check"
  /\ rpc' = [rpc EXCEPT ![r] = "park"]
  /\ UNCHANGED <<redis, db, consumers, rkey, rtimes, rseen, fast, relays, taken,
                 returns, history, faults>>

DeadLetterCheck(r) ==
  /\ rpc[r] = "check"
  /\ rseen' = [rseen EXCEPT ![r] = status[rkey[r]] # "none"]
  /\ rpc' = [rpc EXCEPT ![r] = "park"]
  /\ UNCHANGED <<redis, db, consumers, rkey, rtimes, fast, relays, taken,
                 returns, history, faults>>

DeadLetterPark(r) ==
  /\ rpc[r] = "park"
  /\ parked' = parked \cup {rkey[r]}
  /\ rpc' = [rpc EXCEPT ![r] = IF rseen[r] THEN "mark" ELSE "refund"]
  /\ UNCHANGED <<stock, claim, stream, orderMarker, deadMarker, db, consumers,
                 rkey, rtimes, rseen, fast, relays, taken, returns, history,
                 faults>>

DeadLetterRefund(r) ==
  /\ rpc[r] = "refund"
  /\ deadMarker' = deadMarker \cup {rkey[r]}
  /\ IF rkey[r] \in deadMarker THEN NothingReturned ELSE ReturnTickets(rkey[r])
  /\ rpc' = [rpc EXCEPT ![r] = "mark"]
  /\ UNCHANGED <<claim, stream, parked, orderMarker, db, consumers, rkey,
                 rtimes, rseen, fast, relays, taken, history, faults>>

DeadLetterMark(r) ==
  /\ rpc[r] = "mark"
  /\ claim' = [claim EXCEPT ![rkey[r]] = "FAILED"]
  /\ rpc' = [rpc EXCEPT ![r] = "ack"]
  /\ UNCHANGED <<stock, stream, parked, orderMarker, deadMarker, db, consumers,
                 rkey, rtimes, rseen, fast, relays, taken, returns, history,
                 faults>>

ReclaimAck(r) ==
  /\ rpc[r] = "ack"
  /\ AckAndRemove(rkey[r])
  /\ Forget(r)
  /\ UNCHANGED <<stock, claim, parked, orderMarker, deadMarker, db, consumers,
                 fast, relays, taken, returns, history, faults>>

\* The worker dies, or a call of this step raises.
ReclaimAborts(r) ==
  /\ rpc[r] # "idle"
  /\ Fault
  /\ Forget(r)
  /\ UNCHANGED <<redis, db, consumers, fast, relays, taken, returns, history>>

-----------------------------------------------------------------------------
(* Order status: every transition is a compare-and-swap on PENDING.        *)

\* mark_paid and mark_confirmed in one transaction.
ConfirmPaid(k) ==
  /\ status[k] = "pending"
  /\ status' = [status EXCEPT ![k] = "confirmed"]
  /\ UNCHANGED <<redis, outbox, attempts, leased, consumers, reclaimers, fast,
                 relays, taken, returns, history, faults>>

\* Variant: the UPDATE carries no WHERE status = <expected>.
TransitionUnpredicated(k, new) ==
  /\ status[k] \in Live
  /\ status' = [status EXCEPT ![k] = new]
  /\ outbox' = [outbox EXCEPT ![k] = "owed"]
  /\ fast' = fast \cup {k}
  /\ UNCHANGED <<redis, attempts, leased, consumers, reclaimers, relays, taken,
                 returns, history, faults>>

\* Variant: only the fast path returns the seat, as before the outbox.
TransitionWithoutOutbox(k, new) ==
  /\ status[k] = "pending"
  /\ status' = [status EXCEPT ![k] = new]
  /\ fast' = fast \cup {k}
  /\ UNCHANGED <<redis, outbox, attempts, leased, consumers, reclaimers, relays,
                 taken, returns, history, faults>>

\* cancel_order / expire_order: the CAS and the outbox row commit together.
TransitionOwingRelease(k, new) ==
  /\ status[k] = "pending"
  /\ status' = [status EXCEPT ![k] = new]
  /\ outbox' = [outbox EXCEPT ![k] = "owed"]
  /\ fast' = fast \cup {k}
  /\ UNCHANGED <<redis, attempts, leased, consumers, reclaimers, relays, taken,
                 returns, history, faults>>

ExpireOrder(k) == TransitionOwingRelease(k, "expired")
CancelOrder(k) == TransitionOwingRelease(k, "cancelled")

\* The post-commit release of the process that made the transition.
FastRelease(k) ==
  /\ k \in fast
  /\ ReleaseOrderSeat(k)
  /\ fast' = fast \ {k}
  /\ UNCHANGED <<claim, stream, parked, deadMarker, db, consumers, reclaimers,
                 relays, taken, history, faults>>

FastPathDies(k) ==
  /\ k \in fast
  /\ Fault
  /\ fast' = fast \ {k}
  /\ UNCHANGED <<redis, db, consumers, reclaimers, relays, taken, returns,
                 history>>

-----------------------------------------------------------------------------
(* process_outbox                                                          *)

\* Variants: the claim forgets the attempt limit, or never retries.
ClaimableForever == {k \in Keys : outbox[k] = "owed"} \ leased
ClaimableOnce == {k \in Keys : outbox[k] = "owed" /\ attempts[k] = 0} \ leased

Claimable == {k \in Keys : outbox[k] = "owed" /\ attempts[k] < MaxAttempts} \ leased

OutboxClaim(v) ==
  /\ rows[v] = {} /\ marking[v] = None /\ Claimable # {}
  /\ rows' = [rows EXCEPT ![v] = Claimable]
  /\ attempts' = [k \in Keys |-> IF k \in Claimable THEN attempts[k] + 1 ELSE attempts[k]]
  /\ leased' = leased \cup Claimable
  /\ UNCHANGED <<redis, status, outbox, consumers, reclaimers, fast, marking,
                 taken, returns, history, faults>>

OutboxHandle(v, k) ==
  /\ k \in rows[v] /\ marking[v] = None
  /\ ReleaseOrderSeat(k)
  /\ rows' = [rows EXCEPT ![v] = @ \ {k}]
  /\ marking' = [marking EXCEPT ![v] = k]
  /\ UNCHANGED <<claim, stream, parked, deadMarker, db, consumers, reclaimers,
                 fast, taken, history, faults>>

OutboxHandleFails(v, k) ==
  /\ k \in rows[v] /\ marking[v] = None
  /\ Fault
  /\ rows' = [rows EXCEPT ![v] = @ \ {k}]
  /\ UNCHANGED <<redis, db, consumers, reclaimers, fast, marking, taken,
                 returns, history>>

\* A row that is already processed or purged stays as it is.
OutboxMark(v) ==
  /\ marking[v] # None
  /\ outbox' = [outbox EXCEPT ![marking[v]] = IF @ = "owed" THEN "processed" ELSE @]
  /\ marking' = [marking EXCEPT ![v] = None]
  /\ UNCHANGED <<redis, status, attempts, leased, consumers, reclaimers, fast,
                 rows, taken, returns, history, faults>>

RelayCrash(v) ==
  /\ rows[v] # {} \/ marking[v] # None
  /\ Fault
  /\ rows' = [rows EXCEPT ![v] = {}]
  /\ marking' = [marking EXCEPT ![v] = None]
  /\ UNCHANGED <<redis, db, consumers, reclaimers, fast, taken, returns,
                 history>>

LeaseExpires(k) ==
  /\ k \in leased
  /\ leased' = leased \ {k}
  /\ UNCHANGED <<redis, status, outbox, attempts, consumers, reclaimers, fast,
                 relays, taken, returns, history, faults>>

\* An operator re-drives a row of the dead pile, as its alert asks.
Redrive(k) ==
  /\ outbox[k] = "owed" /\ attempts[k] >= MaxAttempts
  /\ attempts' = [attempts EXCEPT ![k] = 0]
  /\ leased' = leased \ {k}
  /\ UNCHANGED <<redis, status, outbox, consumers, reclaimers, fast, relays,
                 taken, returns, history, faults>>

\* purge_processed_outbox, OUTBOX_RETENTION_DAYS later.
PurgeOutbox(k) ==
  /\ outbox[k] = "processed"
  /\ outbox' = [outbox EXCEPT ![k] = "none"]
  /\ attempts' = [attempts EXCEPT ![k] = 0]
  /\ leased' = leased \ {k}
  /\ UNCHANGED <<redis, status, consumers, reclaimers, fast, relays, taken,
                 returns, history, faults>>

\* A release of k may still be attempted.
ReleaseOwed(k) ==
  k \in fast \/ outbox[k] = "owed" \/ \E v \in Relays : k \in rows[v]

\* The 24 h TTL of released:order:{id}.
OrderMarkerExpires(k) ==
  /\ k \in orderMarker
  /\ orderMarker' = orderMarker \ {k}
  /\ lapsed' = lapsed \cup {j \in {k} : ReleaseOwed(j)}
  /\ UNCHANGED <<stock, claim, stream, parked, deadMarker, db, consumers,
                 reclaimers, fast, relays, taken, returns, overlapped, faults>>

\* A dead letter of k may still be under way or come again.
RefundOwed(k) == k \in pel \/ \E r \in Reclaimers : rkey[r] = k

\* The 24 h TTL of released:dl:{key}.
DeadMarkerExpires(k) ==
  /\ k \in deadMarker
  /\ deadMarker' = deadMarker \ {k}
  /\ lapsed' = lapsed \cup {j \in {k} : RefundOwed(j)}
  /\ UNCHANGED <<stock, claim, stream, parked, orderMarker, db, consumers,
                 reclaimers, fast, relays, taken, returns, overlapped, faults>>

-----------------------------------------------------------------------------
ConsumerStep(c) ==
  \/ ReadBatch(c) \/ ConsumeAck(c) \/ \E k \in Keys : ConsumePersist(c, k)

ReclaimStep(r) ==
  \/ \E k \in Keys : ReclaimScan(r, k)
  \/ ReclaimClaim(r) \/ ReclaimSkips(r) \/ ReclaimPersist(r)
  \/ DeadLetterCheck(r) \/ DeadLetterPark(r) \/ DeadLetterRefund(r)
  \/ DeadLetterMark(r) \/ ReclaimAck(r)

RelayStep(v) ==
  \/ OutboxClaim(v) \/ OutboxMark(v) \/ \E k \in Keys : OutboxHandle(v, k)

Failure ==
  \/ \E c \in Consumers :
       \/ ConsumeAckFails(c) \/ ConsumerCrash(c)
       \/ \E k \in Keys : ConsumePersistFails(c, k)
  \/ \E r \in Reclaimers : ReclaimAborts(r)
  \/ \E v \in Relays : RelayCrash(v) \/ \E k \in Keys : OutboxHandleFails(v, k)
  \/ \E k \in Keys : FastPathDies(k)

\* No entry, transition or release of k is in progress anywhere.
AtRest(k) == k \notin fresh \cup pel /\ ~ReleaseOwed(k)

\* The system may stop only when nothing is left to do for any request.
Quiescent == (\A k \in Keys : AtRest(k)) /\ UNCHANGED vars

Next ==
  \/ \E k \in Keys :
       \/ Reserve(k) \/ ConfirmPaid(k) \/ ExpireOrder(k) \/ CancelOrder(k)
       \/ FastRelease(k) \/ EntryGoesIdle(k) \/ LeaseExpires(k) \/ Redrive(k)
       \/ PurgeOutbox(k) \/ OrderMarkerExpires(k) \/ DeadMarkerExpires(k)
  \/ \E c \in Consumers : ConsumerStep(c)
  \/ \E r \in Reclaimers : ReclaimStep(r)
  \/ \E v \in Relays : RelayStep(v)
  \/ Failure
  \/ Quiescent

Spec == Init /\ [][Next]_vars

(***************************************************************************)
(* The consumer loop, the one-minute crons and the fast path keep running, *)
(* and time passes; buyers, payments and operators owe nothing.            *)
(***************************************************************************)
Fairness ==
  /\ \A c \in Consumers : WF_vars(ConsumerStep(c))
  /\ \A r \in Reclaimers : WF_vars(ReclaimStep(r))
  /\ \A v \in Relays : WF_vars(RelayStep(v))
  /\ \A k \in Keys :
       /\ WF_vars(EntryGoesIdle(k)) /\ WF_vars(LeaseExpires(k))
       /\ WF_vars(ExpireOrder(k)) /\ WF_vars(FastRelease(k))

FairSpec == Spec /\ Fairness

-----------------------------------------------------------------------------
ReclaimSteps == {"idle", "scanned", "retry", "check", "park", "refund", "mark", "ack"}

TypeOK ==
  /\ available \in Nat /\ purchased \in [Users -> Nat]
  /\ claim \in [Keys -> {"none", "PENDING", "FAILED"}]
  /\ fresh \in SUBSET Keys /\ pel \in SUBSET Keys /\ idle \in SUBSET Keys
  /\ deliveries \in [Keys -> 0 .. MaxDeliveries]
  /\ parked \in SUBSET Keys /\ orderMarker \in SUBSET Keys
  /\ deadMarker \in SUBSET Keys
  /\ status \in [Keys -> {"none"} \cup Live \cup Owing]
  /\ outbox \in [Keys -> {"none", "owed", "processed"}]
  /\ attempts \in [Keys -> 0 .. MaxAttempts] /\ leased \in SUBSET Keys
  /\ batch \in [Consumers -> SUBSET Keys]
  /\ acking \in [Consumers -> Keys \cup {None}]
  /\ rpc \in [Reclaimers -> ReclaimSteps]
  /\ rkey \in [Reclaimers -> Keys \cup {None}]
  /\ rtimes \in [Reclaimers -> 0 .. MaxDeliveries]
  /\ rseen \in [Reclaimers -> BOOLEAN]
  /\ fast \in SUBSET Keys
  /\ rows \in [Relays -> SUBSET Keys] /\ marking \in [Relays -> Keys \cup {None}]
  /\ taken \in [Keys -> Nat] /\ returns \in [Keys -> Nat]
  /\ overlapped \in SUBSET Keys /\ lapsed \in SUBSET Keys
  /\ faults \in 0 .. MaxFaults

LiveOrders == {k \in Keys : status[k] \in Live}
LiveOrdersOf(u) == {k \in LiveOrders : UserOf[k] = u}

\* The requests that met one of the two circumstances the code is not prepared
\* for: they were dead-lettered under the hands of a slow process, or a released
\* marker did not outlive the releases it is there for.
Excused == overlapped \cup lapsed
ExcusedOf(u) == {k \in Excused : UserOf[k] = u}

\* The tickets of the orders that hold seats, and those Redis would still sell,
\* fit into the event.
Fits == available >= 0 /\ Cardinality(Units(LiveOrders)) + available <= Total

\* Never oversell, unless a request is excused: what the reserve script, the
\* dead-letter refund and the two release paths protect together.
NoOversell == Excused = {} => Fits

\* What _dead_letter_intent says of itself, that its look-up and its marker
\* guard the refund "so it can never oversell": as NoOversell, and only a marker
\* that expired too early is an excuse.
DeadLetterNeverOversells == lapsed = {} => Fits

\* The live orders of a buyer without an excused request never exceed
\* MAX_TICKETS_PER_USER_PER_EVENT, although the limit is only checked against
\* the Redis hash at reservation time.
LimitHolds ==
  \A u \in Users : ExcusedOf(u) = {} => Cardinality(Units(LiveOrdersOf(u))) <= Limit

\* Nothing leaks: when every intent is settled and no release is owed, the
\* Redis counters agree with the SUM over the orders table that
\* reconcile_inventory and detect_inventory_drift compute; the stock unless a
\* request, a buyer's quota unless one of that buyer's requests is excused.
SettledCountersMatch ==
  (\A k \in Keys : AtRest(k)) =>
    /\ Excused = {} => available = Total - Cardinality(Units(LiveOrders))
    /\ \A u \in Users :
         ExcusedOf(u) = {} => purchased[u] = Cardinality(Units(LiveOrdersOf(u)))

\* The tickets of a request that is not excused are returned at most once, across
\* the fast path, the relays, re-drives and the dead-letter refund.
ReturnedAtMostOnce == \A k \in Keys \ Excused : returns[k] <= 1

\* An expired or cancelled order whose tickets are not back yet always has a
\* row that the relay will find, wherever a process died.
DebtIsRecorded ==
  \A k \in Keys : status[k] \in Owing /\ returns[k] = 0 => outbox[k] = "owed"

\* An intent answered 202 is in the stream until it became an order or the
\* buyer can see that it failed: no crash loses it in between.
NoIntentLost ==
  \A k \in Keys :
    claim[k] = "PENDING" /\ status[k] = "none" => k \in fresh \cup pel

\* Tickets are returned once and never forgotten.
ReturnsAreSound == TypeOK /\ ReturnedAtMostOnce /\ DebtIsRecorded /\ NoIntentLost

\* The counters that the sale is made from are right.
CountersAreSound == NoOversell /\ LimitHolds /\ SettledCountersMatch

\* What GET /orders/by-key answers: the row first, then the claim.
PollState(k) ==
  IF status[k] # "none" THEN "READY"
  ELSE CASE claim[k] = "PENDING" -> "PROCESSING"
         [] claim[k] = "FAILED" -> "FAILED"
         [] OTHER -> "NOT_FOUND"

\* A buyer who was told FAILED never finds an order later, unless the intent was
\* dead-lettered under the hands of a process that still had it, and a buyer who
\* saw the order never loses sight of it.
PollIsFinal ==
  [][\A k \in Keys :
       /\ PollState(k) = "READY" => PollState(k)' = "READY"
       /\ PollState(k) = "FAILED" /\ k \notin overlapped => PollState(k)' = "FAILED"]_vars

\* Every accepted intent becomes an order or is reported as failed.
IntentsSettle ==
  \A k \in Keys : claim[k] = "PENDING" ~> PollState(k) \in {"READY", "FAILED"}

\* The tickets of an expired or cancelled order go back on sale.
DebtsArePaid == \A k \in Keys : status[k] \in Owing ~> returns[k] > 0

(***************************************************************************)
(* The pipeline implements the abstract sale.                              *)
(***************************************************************************)
PhaseOf(k) ==
  IF taken[k] = 0 THEN "free"
  ELSE IF returns[k] > 0 THEN "returned"
  ELSE IF status[k] = "confirmed" THEN "sold"
  ELSE "taken"

Phase == [k \in Keys |-> PhaseOf(k)]

Sale == INSTANCE TicketSale WITH stock <- available, charged <- purchased, phase <- Phase

\* Tickets of k go back although k has been sold or they are back already.
StrayReturn(k) ==
  /\ Phase[k] # "free"
  /\ available' = available + Qty[k]
  /\ purchased' = [purchased EXCEPT ![UserOf[k]] = Uncharge(@, Qty[k])]
  /\ Phase' = [Phase EXCEPT ![k] = "returned"]

ExcusedSaleNext == Sale!SaleNext \/ \E k \in Excused : StrayReturn(k)

\* Every step of the pipeline takes, sells or returns one request's tickets
\* as TicketSale allows, or changes nothing a buyer could notice.  All that an
\* excused request can do beyond that is to give its own tickets back again.
ImplementsSale == Sale!SaleInit /\ [][ExcusedSaleNext]_(Sale!saleVars)

=============================================================================

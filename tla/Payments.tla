------------------------------ MODULE Payments ------------------------------
(***************************************************************************)
(* Paying for orders that the pipeline has already persisted: the          *)
(* payment-intent, cancel and Stripe webhook handlers, the two timeouts    *)
(* T1 (expire_pending_orders) and T2 (expire_abandoned_payments), and      *)
(* Stripe as this code sees it.                                            *)
(*                                                                         *)
(* One SQL transaction or one Stripe call is one action; what a handler    *)
(* read before an await is kept in a variable.  The seat release that      *)
(* every transition to EXPIRED or CANCELLED owes is in OrderPipeline.      *)
(***************************************************************************)
EXTENDS Naturals

CONSTANTS
  Orders,
  Clients,     \* concurrent requests to /payment-intent
  Handlers,    \* concurrent executions of stripe_webhook
  None,        \* no order, no event
  MaxFaults,   \* bound on crashes and failed calls in a behaviour
  Allowed      \* rare circumstances the environment may add, see below

(***************************************************************************)
(* "miscapture": Stripe may capture another amount than the order's total. *)
(* "lost": the process of a webhook may die after its commit and before    *)
(*   the refund call.                                                      *)
(***************************************************************************)
Circumstances == {"miscapture", "lost"}

Types == {"succeeded", "payment_failed", "canceled"}
Events == Orders \X Types   \* Stripe event ids; one attempt per order may fail

ASSUME PayNoneAssumption == None \notin Orders /\ None \notin Events
ASSUME PayFaultsAssumption == MaxFaults \in Nat
ASSUME PayAllowedAssumption == Allowed \subseteq Circumstances

VARIABLES
  \* Postgres
  status,     \* orders.status; PAID never outlives its transaction
  provider,   \* orders with a payment_provider_id
  age,        \* 0, 1 when older than T1, 2 when older than T2
  claimed,    \* rows of stripe_events
  \* Stripe
  intent,     \* the PaymentIntent with idempotency key order-{id}
  captured,   \* what it captured
  refunded,   \* orders refunded under refund-{intent}
  declined,   \* orders with a failed attempt
  sent,       \* events that Stripe delivers, again and again
  acked,      \* events answered with 2xx at least once
  \* memory of the processes, buyers and operators
  secret,     \* orders whose buyer holds the client_secret
  cpc, corder,           \* /payment-intent: next step, its order
  hpc, hevent, hsaw,     \* webhook: next step, its event, order.status as read
  t1,         \* orders that T1 selected and has not looked at yet
  t2,         \* T2: next step for an order
  voiding,    \* orders cancelled, PaymentIntent still to be voided
  alerted,    \* orders whose refund call failed with an alert
  lost,       \* history: orders whose refund was cut off after the commit
  faults

db == <<status, provider, age, claimed>>
stripe == <<intent, captured, refunded, declined, sent>>
client == <<cpc, corder>>
handler == <<hpc, hevent, hsaw>>
crons == <<t1, t2>>
outcome == <<alerted, lost>>
vars == <<db, stripe, acked, secret, client, handler, crons, voiding, outcome, faults>>

Dead == {"expired", "cancelled"}

Init ==
  /\ status = [o \in Orders |-> "pending"] /\ provider = {}
  /\ age = [o \in Orders |-> 0] /\ claimed = {}
  /\ intent = [o \in Orders |-> "none"] /\ captured = [o \in Orders |-> "none"]
  /\ refunded = {} /\ declined = {} /\ sent = {} /\ acked = {}
  /\ secret = {}
  /\ cpc = [c \in Clients |-> "idle"] /\ corder = [c \in Clients |-> None]
  /\ hpc = [h \in Handlers |-> "idle"] /\ hevent = [h \in Handlers |-> None]
  /\ hsaw = [h \in Handlers |-> "pending"]
  /\ t1 = {} /\ t2 = [o \in Orders |-> "idle"] /\ voiding = {} /\ alerted = {} /\ lost = {}
  /\ faults = 0

Fault == faults < MaxFaults /\ faults' = faults + 1

\* The compare-and-swap of transition_order_status: applied iff still PENDING.
LeavePending(o, new) ==
  status' = [status EXCEPT ![o] = IF @ = "pending" THEN new ELSE @]

GrowsOlder(o) ==
  /\ age[o] < 2
  /\ age' = [age EXCEPT ![o] = @ + 1]
  /\ UNCHANGED <<status, provider, claimed, stripe, acked, secret, client, handler,
                 crons, voiding, outcome, faults>>

-----------------------------------------------------------------------------
(* create_order_payment_intent                                             *)

ReadForPayment(c, o) ==
  /\ cpc[c] = "idle" /\ status[o] = "pending"
  /\ cpc' = [cpc EXCEPT ![c] = "create"]
  /\ corder' = [corder EXCEPT ![c] = o]
  /\ UNCHANGED <<db, stripe, acked, secret, handler, crons, voiding, outcome, faults>>

\* The idempotency key makes a second call answer with the same intent.
CreateIntent(c) ==
  /\ cpc[c] = "create"
  /\ intent' = [intent EXCEPT ![corder[c]] = IF @ = "none" THEN "open" ELSE @]
  /\ cpc' = [cpc EXCEPT ![c] = "record"]
  /\ UNCHANGED <<db, captured, refunded, declined, sent, acked, secret, corder,
                 handler, crons, voiding, outcome, faults>>

\* The UPDATE does not look at the status again.
RecordIntent(c) ==
  /\ cpc[c] = "record"
  /\ provider' = provider \cup {corder[c]}
  /\ secret' = secret \cup {corder[c]}
  /\ cpc' = [cpc EXCEPT ![c] = "idle"]
  /\ corder' = [corder EXCEPT ![c] = None]
  /\ UNCHANGED <<status, age, claimed, stripe, acked, handler, crons, voiding,
                 outcome, faults>>

RequestDies(c) ==
  /\ cpc[c] # "idle"
  /\ Fault
  /\ cpc' = [cpc EXCEPT ![c] = "idle"]
  /\ corder' = [corder EXCEPT ![c] = None]
  /\ UNCHANGED <<db, stripe, acked, secret, handler, crons, voiding, outcome>>

-----------------------------------------------------------------------------
(* Stripe and the buyer                                                    *)

Pay(o) ==
  /\ o \in secret /\ intent[o] = "open"
  /\ intent' = [intent EXCEPT ![o] = "processing"]
  /\ UNCHANGED <<db, captured, refunded, declined, sent, acked, secret, client,
                 handler, crons, voiding, outcome, faults>>

\* A failed attempt leaves the intent open for another card.
AttemptFails(o) ==
  /\ intent[o] = "processing" /\ o \notin declined
  /\ intent' = [intent EXCEPT ![o] = "open"]
  /\ declined' = declined \cup {o}
  /\ sent' = sent \cup {<<o, "payment_failed">>}
  /\ UNCHANGED <<db, captured, refunded, acked, secret, client, handler, crons,
                 voiding, outcome, faults>>

AttemptSucceeds(o, amount) ==
  /\ intent[o] = "processing"
  /\ amount = "right" \/ "miscapture" \in Allowed
  /\ intent' = [intent EXCEPT ![o] = "succeeded"]
  /\ captured' = [captured EXCEPT ![o] = amount]
  /\ sent' = sent \cup {<<o, "succeeded">>}
  /\ UNCHANGED <<db, refunded, declined, acked, secret, client, handler, crons,
                 voiding, outcome, faults>>

\* cancel_payment_intent: only an open intent can be cancelled.
CancelIntent(o) ==
  /\ intent' = [intent EXCEPT ![o] = IF @ = "open" THEN "canceled" ELSE @]
  /\ sent' = IF intent[o] = "open" THEN sent \cup {<<o, "canceled">>} ELSE sent
  /\ UNCHANGED <<captured, refunded, declined>>

\* The call fails, and Stripe may have carried it out all the same.
CancelIntentFails(o) == Fault /\ (CancelIntent(o) \/ UNCHANGED stripe)

\* Stripe stops re-delivering three days later.
StripeStops(e) ==
  /\ e \in sent \cap acked /\ \A h \in Handlers : hevent[h] # e
  /\ sent' = sent \ {e}
  /\ UNCHANGED <<db, intent, captured, refunded, declined, acked, secret, client,
                 handler, crons, voiding, outcome, faults>>

-----------------------------------------------------------------------------
(* T1 and T2                                                               *)

T1Select(o) ==
  /\ status[o] = "pending" /\ age[o] >= 1 /\ o \notin provider /\ o \notin t1
  /\ t1' = t1 \cup {o}
  /\ UNCHANGED <<db, stripe, acked, secret, client, handler, t2, voiding, outcome,
                 faults>>

\* The status is checked again, payment_provider_id is not.
T1Expire(o) ==
  /\ o \in t1
  /\ LeavePending(o, "expired")
  /\ t1' = t1 \ {o}
  /\ UNCHANGED <<provider, age, claimed, stripe, acked, secret, client, handler, t2,
                 voiding, outcome, faults>>

T1Fails(o) ==
  /\ o \in t1
  /\ Fault
  /\ t1' = t1 \ {o}
  /\ UNCHANGED <<db, stripe, acked, secret, client, handler, t2, voiding, outcome>>

\* Variant: the comparison with the cutoff is turned round.
T2SelectsYoung(o) ==
  /\ status[o] = "pending" /\ age[o] < 2 /\ o \in provider /\ t2[o] = "idle"
  /\ t2' = [t2 EXCEPT ![o] = "ask"]
  /\ UNCHANGED <<db, stripe, acked, secret, client, handler, t1, voiding, outcome,
                 faults>>

T2Select(o) ==
  /\ status[o] = "pending" /\ age[o] = 2 /\ o \in provider /\ t2[o] = "idle"
  /\ t2' = [t2 EXCEPT ![o] = "ask"]
  /\ UNCHANGED <<db, stripe, acked, secret, client, handler, t1, voiding, outcome,
                 faults>>

\* Variant: whatever Stripe answers is taken as permission to expire.
T2AskIgnoresAnswer(o) ==
  /\ t2[o] = "ask"
  /\ CancelIntent(o)
  /\ t2' = [t2 EXCEPT ![o] = "expire"]
  /\ UNCHANGED <<db, acked, secret, client, handler, t1, voiding, outcome, faults>>

T2Ask(o) ==
  /\ t2[o] = "ask"
  /\ CancelIntent(o)
  /\ t2' = [t2 EXCEPT ![o] = IF intent'[o] = "canceled" THEN "expire" ELSE "idle"]
  /\ UNCHANGED <<db, acked, secret, client, handler, t1, voiding, outcome, faults>>

T2AskFails(o) ==
  /\ t2[o] = "ask"
  /\ CancelIntentFails(o)
  /\ t2' = [t2 EXCEPT ![o] = "idle"]
  /\ UNCHANGED <<db, acked, secret, client, handler, t1, voiding, outcome>>

T2Expire(o) ==
  /\ t2[o] = "expire"
  /\ LeavePending(o, "expired")
  /\ t2' = [t2 EXCEPT ![o] = "idle"]
  /\ UNCHANGED <<provider, age, claimed, stripe, acked, secret, client, handler, t1,
                 voiding, outcome, faults>>

T2ExpireFails(o) ==
  /\ t2[o] = "expire"
  /\ Fault
  /\ t2' = [t2 EXCEPT ![o] = "idle"]
  /\ UNCHANGED <<db, stripe, acked, secret, client, handler, t1, voiding, outcome>>

-----------------------------------------------------------------------------
(* cancel_order: local first, then the intent                              *)

CancelOrder(o) ==
  /\ status[o] = "pending"
  /\ LeavePending(o, "cancelled")
  /\ voiding' = IF o \in provider THEN voiding \cup {o} ELSE voiding
  /\ UNCHANGED <<provider, age, claimed, stripe, acked, secret, client, handler,
                 crons, outcome, faults>>

VoidIntent(o) ==
  /\ o \in voiding
  /\ CancelIntent(o)
  /\ voiding' = voiding \ {o}
  /\ UNCHANGED <<db, acked, secret, client, handler, crons, outcome, faults>>

VoidIntentFails(o) ==
  /\ o \in voiding
  /\ CancelIntentFails(o)
  /\ voiding' = voiding \ {o}
  /\ UNCHANGED <<db, acked, secret, client, handler, crons, outcome>>

-----------------------------------------------------------------------------
(* stripe_webhook                                                          *)

\* claim_event finds the row: answer 204 and do nothing.
IgnoreDuplicate(e) ==
  /\ e \in sent \cap claimed
  /\ acked' = acked \cup {e}
  /\ UNCHANGED <<db, stripe, secret, client, handler, crons, voiding, outcome, faults>>

\* Variant: two deliveries of one event do not exclude each other.
ClaimUnlocked(h, e) ==
  /\ hpc[h] = "idle" /\ e \in sent \ claimed
  /\ hpc' = [hpc EXCEPT ![h] = "decide"]
  /\ hevent' = [hevent EXCEPT ![h] = e]
  /\ hsaw' = [hsaw EXCEPT ![h] = status[e[1]]]
  /\ UNCHANGED <<db, stripe, acked, secret, client, crons, voiding, outcome, faults>>

\* The INSERT of the claim waits while another transaction holds the event id;
\* then the order is read.
ClaimEvent(h, e) ==
  /\ hpc[h] = "idle" /\ e \in sent \ claimed
  /\ \A other \in Handlers : hpc[other] = "decide" => hevent[other] # e
  /\ hpc' = [hpc EXCEPT ![h] = "decide"]
  /\ hevent' = [hevent EXCEPT ![h] = e]
  /\ hsaw' = [hsaw EXCEPT ![h] = status[e[1]]]
  /\ UNCHANGED <<db, stripe, acked, secret, client, crons, voiding, outcome, faults>>

\* The answer 204: Stripe knows that the event arrived.
Answer(h) ==
  /\ hpc' = [hpc EXCEPT ![h] = "idle"]
  /\ hevent' = [hevent EXCEPT ![h] = None]
  /\ hsaw' = [hsaw EXCEPT ![h] = "pending"]
  /\ acked' = acked \cup {hevent[h]}

\* The commit of the claim; nothing else is left to do.
CommitClaim(h) == claimed' = claimed \cup {hevent[h]}

\* Variant: the amount is not compared.
AmountUnchecked(o, saw) ==
  \/ saw \in Dead
  \/ saw = "pending" /\ status[o] # "pending"

\* _handle_payment_succeeded: the charge cannot be honoured.
RefundNeeded(o, saw) ==
  \/ captured[o] = "wrong"
  \/ saw \in Dead
  \/ saw = "pending" /\ status[o] # "pending"   \* the CAS lost

\* Variant: the transaction ends after mark_paid.
AcceptForgetsConfirm(o) == LeavePending(o, "paid")

\* mark_paid and mark_confirmed in one transaction.
AcceptPayment(o) == LeavePending(o, "confirmed")

HandleSucceeded(h, o) ==
  /\ hpc[h] = "decide" /\ hevent[h] = <<o, "succeeded">>
  /\ CommitClaim(h)
  /\ \/ /\ RefundNeeded(o, hsaw[h])
        /\ hpc' = [hpc EXCEPT ![h] = "refund"]
        /\ UNCHANGED <<status, hevent, hsaw, acked>>
     \/ /\ ~RefundNeeded(o, hsaw[h])
        /\ AcceptPayment(o)
        /\ Answer(h)
  /\ UNCHANGED <<provider, age, stripe, secret, client, crons, voiding, outcome, faults>>

HandleCanceled(h, o) ==
  /\ hpc[h] = "decide" /\ hevent[h] = <<o, "canceled">>
  /\ CommitClaim(h)
  /\ LeavePending(o, "expired")
  /\ Answer(h)
  /\ UNCHANGED <<provider, age, stripe, secret, client, crons, voiding, outcome, faults>>

\* Only a log line.
HandleFailedAttempt(h, o) ==
  /\ hpc[h] = "decide" /\ hevent[h] = <<o, "payment_failed">>
  /\ CommitClaim(h)
  /\ Answer(h)
  /\ UNCHANGED <<status, provider, age, stripe, secret, client, crons, voiding,
                 outcome, faults>>

\* An exception or a crash before the commit takes the claim back.
HandlerRollsBack(h) ==
  /\ hpc[h] = "decide"
  /\ Fault
  /\ hpc' = [hpc EXCEPT ![h] = "idle"]
  /\ hevent' = [hevent EXCEPT ![h] = None]
  /\ hsaw' = [hsaw EXCEPT ![h] = "pending"]
  /\ UNCHANGED <<db, stripe, acked, secret, client, crons, voiding, outcome>>

CreateRefund(h) ==
  /\ hpc[h] = "refund"
  /\ refunded' = refunded \cup {hevent[h][1]}
  /\ Answer(h)
  /\ UNCHANGED <<db, intent, captured, declined, sent, secret, client, crons,
                 voiding, outcome, faults>>

\* Variant: a failed refund is swallowed.
RefundFailsSilently(h) ==
  /\ hpc[h] = "refund"
  /\ Fault
  /\ Answer(h)
  /\ UNCHANGED <<db, stripe, secret, client, crons, voiding, outcome>>

\* The call raises, with or without effect: an alert asks for a human.
CreateRefundFails(h) ==
  /\ hpc[h] = "refund"
  /\ Fault
  /\ refunded' \in {refunded, refunded \cup {hevent[h][1]}}
  /\ alerted' = alerted \cup {hevent[h][1]}
  /\ Answer(h)
  /\ UNCHANGED <<db, intent, captured, declined, sent, secret, client, crons, voiding,
                 lost>>

\* The process dies after the commit; Stripe delivers the event again.
HandlerDies(h) ==
  /\ hpc[h] = "refund" /\ "lost" \in Allowed
  /\ Fault
  /\ hpc' = [hpc EXCEPT ![h] = "idle"]
  /\ hevent' = [hevent EXCEPT ![h] = None]
  /\ hsaw' = [hsaw EXCEPT ![h] = "pending"]
  /\ lost' = lost \cup {hevent[h][1]}
  /\ UNCHANGED <<db, stripe, acked, secret, client, crons, voiding, alerted>>

\* purge_old_stripe_events: STRIPE_EVENT_RETENTION_DAYS outlives re-delivery.
PurgeEvent(e) ==
  /\ e \in claimed \ sent
  /\ claimed' = claimed \ {e}
  /\ UNCHANGED <<status, provider, age, stripe, acked, secret, client, handler,
                 crons, voiding, outcome, faults>>

-----------------------------------------------------------------------------
HandlerStep(h) ==
  \/ \E o \in Orders :
       HandleSucceeded(h, o) \/ HandleCanceled(h, o) \/ HandleFailedAttempt(h, o)
  \/ CreateRefund(h)

Deliver(e) == IgnoreDuplicate(e) \/ \E h \in Handlers : ClaimEvent(h, e)

StripeResolves(o) ==
  AttemptFails(o) \/ \E amount \in {"right", "wrong"} : AttemptSucceeds(o, amount)

T1Step(o) == T1Select(o) \/ T1Expire(o)
T2Step(o) == T2Select(o) \/ T2Ask(o) \/ T2Expire(o)

Failure ==
  \/ \E c \in Clients : RequestDies(c)
  \/ \E h \in Handlers : HandlerRollsBack(h) \/ CreateRefundFails(h) \/ HandlerDies(h)
  \/ \E o \in Orders : T1Fails(o) \/ T2AskFails(o) \/ T2ExpireFails(o) \/ VoidIntentFails(o)

\* Every order is settled, every event delivered and nobody is about to act.
Quiescent ==
  /\ \A o \in Orders : status[o] # "pending" /\ t2[o] = "idle" /\ intent[o] # "processing"
  /\ sent \subseteq acked /\ t1 = {} /\ voiding = {}
  /\ \A h \in Handlers : hpc[h] = "idle"
  /\ UNCHANGED vars

Next ==
  \/ \E c \in Clients :
       CreateIntent(c) \/ RecordIntent(c) \/ \E o \in Orders : ReadForPayment(c, o)
  \/ \E o \in Orders :
       \/ GrowsOlder(o) \/ Pay(o) \/ StripeResolves(o) \/ T1Step(o) \/ T2Step(o)
       \/ CancelOrder(o) \/ VoidIntent(o)
  \/ \E e \in Events : Deliver(e) \/ StripeStops(e) \/ PurgeEvent(e)
  \/ \E h \in Handlers : HandlerStep(h)
  \/ Failure
  \/ Quiescent

Spec == Init /\ [][Next]_vars

(***************************************************************************)
(* Time passes, both crons run every minute, running handlers finish, and  *)
(* Stripe decides every attempt and delivers until it is answered.  Buyers *)
(* and requests owe nothing.                                               *)
(***************************************************************************)
Fairness ==
  /\ \A o \in Orders :
       /\ WF_vars(GrowsOlder(o)) /\ WF_vars(StripeResolves(o))
       /\ WF_vars(T1Step(o)) /\ WF_vars(T2Step(o))
  /\ \A e \in Events : WF_vars(Deliver(e))
  /\ \A h \in Handlers : WF_vars(HandlerStep(h))

FairSpec == Spec /\ Fairness

-----------------------------------------------------------------------------
PayTypeOK ==
  /\ status \in [Orders -> {"pending", "confirmed"} \cup Dead]
  /\ provider \in SUBSET Orders /\ age \in [Orders -> 0 .. 2]
  /\ claimed \in SUBSET Events
  /\ intent \in [Orders -> {"none", "open", "processing", "succeeded", "canceled"}]
  /\ captured \in [Orders -> {"none", "right", "wrong"}]
  /\ refunded \in SUBSET Orders /\ declined \in SUBSET Orders
  /\ sent \in SUBSET Events /\ acked \in SUBSET Events /\ secret \in SUBSET Orders
  /\ cpc \in [Clients -> {"idle", "create", "record"}]
  /\ corder \in [Clients -> Orders \cup {None}]
  /\ hpc \in [Handlers -> {"idle", "decide", "refund"}]
  /\ hevent \in [Handlers -> Events \cup {None}]
  /\ hsaw \in [Handlers -> {"pending", "confirmed"} \cup Dead]
  /\ t1 \in SUBSET Orders /\ t2 \in [Orders -> {"idle", "ask", "expire"}]
  /\ voiding \in SUBSET Orders /\ alerted \in SUBSET Orders /\ lost \in SUBSET Orders
  /\ faults \in 0 .. MaxFaults

\* Nobody gets the ticket and the money: the race that the stripe_events row,
\* as a lock, closes between two deliveries of one payment_intent.succeeded.
NoTicketAndRefund == \A o \in Orders : ~(status[o] = "confirmed" /\ o \in refunded)

\* A confirmed order was paid, in full.
ConfirmedIsPaid == \A o \in Orders : status[o] = "confirmed" => captured[o] = "right"

\* The books are right, whatever fails between the database and Stripe.
PaymentsSafe == PayTypeOK /\ NoTicketAndRefund /\ ConfirmedIsPaid

\* An order that T1 has not selected is only expired once Stripe has really
\* cancelled its PaymentIntent: T2's Stripe-first rule, for both of the
\* writers that follow it (the sweep and the canceled webhook).
T2SparesPayers ==
  [][\A o \in Orders :
       status[o] = "pending" /\ status'[o] = "expired" /\ o \notin t1
         => intent[o] = "canceled"]_vars

\* What the comment above T1's query promises: a buyer who pays near the boundary
\* keeps the ticket instead of being expired out from under a successful charge.
ExpirySparesPayers ==
  [][\A o \in Orders :
       status[o] = "pending" /\ status'[o] = "expired" => captured[o] # "right"]_vars

\* No money is kept for nothing: every charge ends with a confirmed order, a
\* refund, or an alert that asks for one, unless the process of the webhook died
\* between its commit and the refund.
ChargesAreAnswered ==
  \A o \in Orders :
    captured[o] # "none" ~> status[o] = "confirmed" \/ o \in refunded \cup alerted \cup lost

\* No order stays PENDING, with its seat locked, for ever, unless Stripe captured
\* another amount than its total.
PendingEnds == \A o \in Orders : <>(status[o] # "pending" \/ captured[o] = "wrong")

(***************************************************************************)
(* The payment side implements the abstract deal.                          *)
(***************************************************************************)
TicketOf(s) == CASE s = "pending" -> "open" [] s = "confirmed" -> "kept" [] OTHER -> "dropped"

Deal == INSTANCE PaymentDeal WITH
          ticket <- [o \in Orders |-> TicketOf(status[o])],
          money <- captured, returned <- refunded

\* Every step charges, keeps, drops or refunds one order as PaymentDeal allows.
ImplementsDeal == Deal!DealSpec

=============================================================================

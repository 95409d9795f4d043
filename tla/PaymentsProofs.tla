--------------------------- MODULE PaymentsProofs ---------------------------
(***************************************************************************)
(* For every set of orders, requests and webhook executions, any number of *)
(* faults and every circumstance of Payments: nobody gets both the ticket  *)
(* and the money, confirmed orders are paid, T2 and the canceled webhook   *)
(* spare payers, and the payment side implements PaymentDeal.              *)
(***************************************************************************)
EXTENDS Payments, TLAPS

Succeeded(o) == <<o, "succeeded">>
Canceled(o) == <<o, "canceled">>

\* Different orders and types have different events.
LEMMA EventNames ==
  \A o, p \in Orders :
    /\ Succeeded(o) \in Events /\ Succeeded(o)[1] = o
    /\ Succeeded(o) = Succeeded(p) => o = p
    /\ Succeeded(o) # Canceled(p)
  BY DEF Succeeded, Canceled, Events, Types

\* A charge that must not be kept.
Unhonoured(o) == captured[o] # "none" /\ (captured[o] = "wrong" \/ status[o] \in Dead)

\* Events tell the truth about the intent, as long as Stripe delivers them.
EventsAreTrue ==
  \A o \in Orders :
    /\ Succeeded(o) \in sent => intent[o] = "succeeded"
    /\ Canceled(o) \in sent => intent[o] = "canceled"
    /\ intent[o] = "succeeded" => captured[o] # "none"
    /\ captured[o] # "none" => intent[o] = "succeeded"
    /\ t2[o] = "expire" => intent[o] = "canceled"

\* A handler before its commit holds its event alone, and what it read is still
\* true unless the order was PENDING.
ClaimIsExclusive ==
  \A h \in Handlers :
    hpc[h] = "decide" =>
      /\ hevent[h] \in sent \ claimed
      /\ \A g \in Handlers : hpc[g] = "decide" /\ hevent[g] = hevent[h] => g = h
      /\ hsaw[h] # "pending" => status[hevent[h][1]] = hsaw[h]

\* Refunds, decided or done, are of charges that cannot be honoured.
RefundsAreDue ==
  /\ \A h \in Handlers :
       hpc[h] = "refund" => \E o \in Orders : hevent[h] = Succeeded(o) /\ Unhonoured(o)
  /\ \A o \in refunded : Unhonoured(o)

\* The event that confirmed an order is never handled again.
ConfirmedOnce ==
  \A o \in Orders :
    status[o] = "confirmed" => captured[o] = "right" /\ Succeeded(o) \notin sent \ claimed

\* A request past its first step has an order.
RequestHasOrder == \A c \in Clients : cpc[c] # "idle" => corder[c] \in Orders

PayInv ==
  PayTypeOK /\ RequestHasOrder /\ EventsAreTrue /\ ClaimIsExclusive /\ RefundsAreDue /\ ConfirmedOnce

\* The initial state satisfies the invariant.
LEMMA PayInit == Init => PayInv
  BY PayNoneAssumption, PayFaultsAssumption, SMTT(20)
  DEF Init, PayInv, PayTypeOK, EventsAreTrue, ClaimIsExclusive, RefundsAreDue,
      ConfirmedOnce, RequestHasOrder, Unhonoured, Succeeded, Canceled, Dead,
      Events, Types

\* Every step preserves the invariant.
LEMMA PayNext == PayInv /\ [Next]_vars => PayInv'
<1> SUFFICES ASSUME PayInv, [Next]_vars PROVE PayInv'
  OBVIOUS
<1>1. ASSUME NEW o \in Orders, GrowsOlder(o) PROVE PayInv'
  BY <1>1, PayFaultsAssumption, SMTT(30)
  DEF PayInv, PayTypeOK, RequestHasOrder, EventsAreTrue, ClaimIsExclusive,
      RefundsAreDue, ConfirmedOnce, Unhonoured, Succeeded, Canceled, Dead,
      Events, Types, db, stripe, client, handler, crons, outcome,
      GrowsOlder
<1>2. ASSUME NEW o \in Orders, Pay(o) PROVE PayInv'
  BY <1>2, PayFaultsAssumption, SMTT(30)
  DEF PayInv, PayTypeOK, RequestHasOrder, EventsAreTrue, ClaimIsExclusive,
      RefundsAreDue, ConfirmedOnce, Unhonoured, Succeeded, Canceled, Dead,
      Events, Types, db, stripe, client, handler, crons, outcome,
      Pay
<1>3. ASSUME NEW o \in Orders, AttemptFails(o) PROVE PayInv'
  BY <1>3, PayFaultsAssumption, SMTT(30)
  DEF PayInv, PayTypeOK, RequestHasOrder, EventsAreTrue, ClaimIsExclusive,
      RefundsAreDue, ConfirmedOnce, Unhonoured, Succeeded, Canceled, Dead,
      Events, Types, db, stripe, client, handler, crons, outcome,
      AttemptFails
<1>4. ASSUME NEW o \in Orders, NEW a \in {"right", "wrong"}, AttemptSucceeds(o, a) PROVE PayInv'
  <2>1. PayTypeOK'
    BY <1>4, PayFaultsAssumption, SMTT(20)
    DEF PayInv, PayTypeOK, Events, Types, Dead,
        AttemptSucceeds, db, stripe, client, handler, crons, outcome
  <2>2. RequestHasOrder'
    BY <1>4, SMTT(20)
    DEF PayInv, RequestHasOrder,
        AttemptSucceeds, db, stripe, client, handler, crons, outcome
  <2>3. EventsAreTrue'
    <3> SUFFICES ASSUME NEW p \in Orders
                 PROVE  /\ (Succeeded(p) \in sent => intent[p] = "succeeded")'
                        /\ (Canceled(p) \in sent => intent[p] = "canceled")'
                        /\ (intent[p] = "succeeded" => captured[p] # "none")'
                        /\ (captured[p] # "none" => intent[p] = "succeeded")'
                        /\ (t2[p] = "expire" => intent[p] = "canceled")'
      BY DEF EventsAreTrue
    <3>1. sent' = sent \cup {Succeeded(o)} /\ t2' = t2 /\ a # "none"
      BY <1>4 DEF AttemptSucceeds, Succeeded, crons
    <3> QED
      BY <1>4, <3>1, EventNames, SMTT(20) DEF PayInv, PayTypeOK, EventsAreTrue, AttemptSucceeds
  <2>4. ClaimIsExclusive'
    BY <1>4, SMTT(20)
    DEF PayInv, ClaimIsExclusive, Events, Types, PayTypeOK,
        AttemptSucceeds, db, stripe, client, handler, crons, outcome
  <2>5. RefundsAreDue'
    BY <1>4, SMTT(20)
    DEF PayInv, RefundsAreDue, EventsAreTrue, Unhonoured, PayTypeOK, Dead,
        AttemptSucceeds, db, stripe, client, handler, crons, outcome
  <2>6. ConfirmedOnce'
    <3>1. sent' = sent \cup {Succeeded(o)} /\ intent[o] = "processing"
      BY <1>4 DEF AttemptSucceeds, Succeeded
    <3>2. status[o] # "confirmed"
      BY <3>1 DEF PayInv, ConfirmedOnce, EventsAreTrue
    <3> QED
      BY <1>4, <3>1, <3>2, EventNames, SMTT(20)
      DEF PayInv, PayTypeOK, ConfirmedOnce, AttemptSucceeds, db
  <2> QED
    BY <2>1, <2>2, <2>3, <2>4, <2>5, <2>6 DEF PayInv
<1>5. ASSUME NEW o \in Orders, T1Select(o) PROVE PayInv'
  BY <1>5, PayFaultsAssumption, SMTT(30)
  DEF PayInv, PayTypeOK, RequestHasOrder, EventsAreTrue, ClaimIsExclusive,
      RefundsAreDue, ConfirmedOnce, Unhonoured, Succeeded, Canceled, Dead,
      Events, Types, db, stripe, client, handler, crons, outcome,
      T1Select
<1>6. ASSUME NEW o \in Orders, T1Expire(o) PROVE PayInv'
  BY <1>6, PayFaultsAssumption, SMTT(30)
  DEF PayInv, PayTypeOK, RequestHasOrder, EventsAreTrue, ClaimIsExclusive,
      RefundsAreDue, ConfirmedOnce, Unhonoured, Succeeded, Canceled, Dead,
      Events, Types, db, stripe, client, handler, crons, outcome,
      T1Expire, LeavePending
<1>7. ASSUME NEW o \in Orders, T1Fails(o) PROVE PayInv'
  BY <1>7, PayFaultsAssumption, SMTT(30)
  DEF PayInv, PayTypeOK, RequestHasOrder, EventsAreTrue, ClaimIsExclusive,
      RefundsAreDue, ConfirmedOnce, Unhonoured, Succeeded, Canceled, Dead,
      Events, Types, db, stripe, client, handler, crons, outcome,
      T1Fails, Fault
<1>8. ASSUME NEW o \in Orders, T2Select(o) PROVE PayInv'
  BY <1>8, PayFaultsAssumption, SMTT(30)
  DEF PayInv, PayTypeOK, RequestHasOrder, EventsAreTrue, ClaimIsExclusive,
      RefundsAreDue, ConfirmedOnce, Unhonoured, Succeeded, Canceled, Dead,
      Events, Types, db, stripe, client, handler, crons, outcome,
      T2Select
<1>9. ASSUME NEW o \in Orders, T2Ask(o) PROVE PayInv'
  BY <1>9, PayFaultsAssumption, SMTT(30)
  DEF PayInv, PayTypeOK, RequestHasOrder, EventsAreTrue, ClaimIsExclusive,
      RefundsAreDue, ConfirmedOnce, Unhonoured, Succeeded, Canceled, Dead,
      Events, Types, db, stripe, client, handler, crons, outcome,
      T2Ask, CancelIntent
<1>10. ASSUME NEW o \in Orders, T2AskFails(o) PROVE PayInv'
  BY <1>10, PayFaultsAssumption, SMTT(30)
  DEF PayInv, PayTypeOK, RequestHasOrder, EventsAreTrue, ClaimIsExclusive,
      RefundsAreDue, ConfirmedOnce, Unhonoured, Succeeded, Canceled, Dead,
      Events, Types, db, stripe, client, handler, crons, outcome,
      T2AskFails, CancelIntentFails, CancelIntent, Fault
<1>11. ASSUME NEW o \in Orders, T2Expire(o) PROVE PayInv'
  BY <1>11, PayFaultsAssumption, SMTT(30)
  DEF PayInv, PayTypeOK, RequestHasOrder, EventsAreTrue, ClaimIsExclusive,
      RefundsAreDue, ConfirmedOnce, Unhonoured, Succeeded, Canceled, Dead,
      Events, Types, db, stripe, client, handler, crons, outcome,
      T2Expire, LeavePending
<1>12. ASSUME NEW o \in Orders, T2ExpireFails(o) PROVE PayInv'
  BY <1>12, PayFaultsAssumption, SMTT(30)
  DEF PayInv, PayTypeOK, RequestHasOrder, EventsAreTrue, ClaimIsExclusive,
      RefundsAreDue, ConfirmedOnce, Unhonoured, Succeeded, Canceled, Dead,
      Events, Types, db, stripe, client, handler, crons, outcome,
      T2ExpireFails, Fault
<1>13. ASSUME NEW o \in Orders, CancelOrder(o) PROVE PayInv'
  BY <1>13, PayFaultsAssumption, SMTT(30)
  DEF PayInv, PayTypeOK, RequestHasOrder, EventsAreTrue, ClaimIsExclusive,
      RefundsAreDue, ConfirmedOnce, Unhonoured, Succeeded, Canceled, Dead,
      Events, Types, db, stripe, client, handler, crons, outcome,
      CancelOrder, LeavePending
<1>14. ASSUME NEW o \in Orders, VoidIntent(o) PROVE PayInv'
  BY <1>14, PayFaultsAssumption, SMTT(30)
  DEF PayInv, PayTypeOK, RequestHasOrder, EventsAreTrue, ClaimIsExclusive,
      RefundsAreDue, ConfirmedOnce, Unhonoured, Succeeded, Canceled, Dead,
      Events, Types, db, stripe, client, handler, crons, outcome,
      VoidIntent, CancelIntent
<1>15. ASSUME NEW o \in Orders, VoidIntentFails(o) PROVE PayInv'
  BY <1>15, PayFaultsAssumption, SMTT(30)
  DEF PayInv, PayTypeOK, RequestHasOrder, EventsAreTrue, ClaimIsExclusive,
      RefundsAreDue, ConfirmedOnce, Unhonoured, Succeeded, Canceled, Dead,
      Events, Types, db, stripe, client, handler, crons, outcome,
      VoidIntentFails, CancelIntentFails, CancelIntent, Fault
<1>16. ASSUME NEW c \in Clients, NEW o \in Orders, ReadForPayment(c, o) PROVE PayInv'
  BY <1>16, PayFaultsAssumption, SMTT(30)
  DEF PayInv, PayTypeOK, RequestHasOrder, EventsAreTrue, ClaimIsExclusive,
      RefundsAreDue, ConfirmedOnce, Unhonoured, Succeeded, Canceled, Dead,
      Events, Types, db, stripe, client, handler, crons, outcome,
      ReadForPayment
<1>17. ASSUME NEW c \in Clients, CreateIntent(c) PROVE PayInv'
  BY <1>17, PayFaultsAssumption, SMTT(30)
  DEF PayInv, PayTypeOK, RequestHasOrder, EventsAreTrue, ClaimIsExclusive,
      RefundsAreDue, ConfirmedOnce, Unhonoured, Succeeded, Canceled, Dead,
      Events, Types, db, stripe, client, handler, crons, outcome,
      CreateIntent
<1>18. ASSUME NEW c \in Clients, RecordIntent(c) PROVE PayInv'
  BY <1>18, PayFaultsAssumption, SMTT(30)
  DEF PayInv, PayTypeOK, RequestHasOrder, EventsAreTrue, ClaimIsExclusive,
      RefundsAreDue, ConfirmedOnce, Unhonoured, Succeeded, Canceled, Dead,
      Events, Types, db, stripe, client, handler, crons, outcome,
      RecordIntent
<1>19. ASSUME NEW c \in Clients, RequestDies(c) PROVE PayInv'
  BY <1>19, PayFaultsAssumption, SMTT(30)
  DEF PayInv, PayTypeOK, RequestHasOrder, EventsAreTrue, ClaimIsExclusive,
      RefundsAreDue, ConfirmedOnce, Unhonoured, Succeeded, Canceled, Dead,
      Events, Types, db, stripe, client, handler, crons, outcome,
      RequestDies, Fault
<1>20. ASSUME NEW e \in Events, StripeStops(e) PROVE PayInv'
  BY <1>20, PayFaultsAssumption, SMTT(30)
  DEF PayInv, PayTypeOK, RequestHasOrder, EventsAreTrue, ClaimIsExclusive,
      RefundsAreDue, ConfirmedOnce, Unhonoured, Succeeded, Canceled, Dead,
      Events, Types, db, stripe, client, handler, crons, outcome,
      StripeStops
<1>21. ASSUME NEW e \in Events, IgnoreDuplicate(e) PROVE PayInv'
  BY <1>21, PayFaultsAssumption, SMTT(30)
  DEF PayInv, PayTypeOK, RequestHasOrder, EventsAreTrue, ClaimIsExclusive,
      RefundsAreDue, ConfirmedOnce, Unhonoured, Succeeded, Canceled, Dead,
      Events, Types, db, stripe, client, handler, crons, outcome,
      IgnoreDuplicate
<1>22. ASSUME NEW e \in Events, PurgeEvent(e) PROVE PayInv'
  BY <1>22, PayFaultsAssumption, SMTT(30)
  DEF PayInv, PayTypeOK, RequestHasOrder, EventsAreTrue, ClaimIsExclusive,
      RefundsAreDue, ConfirmedOnce, Unhonoured, Succeeded, Canceled, Dead,
      Events, Types, db, stripe, client, handler, crons, outcome,
      PurgeEvent
<1>23. ASSUME NEW h \in Handlers, NEW e \in Events, ClaimEvent(h, e) PROVE PayInv'
  BY <1>23, PayFaultsAssumption, SMTT(30)
  DEF PayInv, PayTypeOK, RequestHasOrder, EventsAreTrue, ClaimIsExclusive,
      RefundsAreDue, ConfirmedOnce, Unhonoured, Succeeded, Canceled, Dead,
      Events, Types, db, stripe, client, handler, crons, outcome,
      ClaimEvent
<1>24. ASSUME NEW h \in Handlers, NEW o \in Orders, HandleSucceeded(h, o) PROVE PayInv'
  <2>1. PayTypeOK'
    BY <1>24, PayFaultsAssumption, SMTT(20)
    DEF PayInv, PayTypeOK, Events, Types, Dead,
        HandleSucceeded, CommitClaim, RefundNeeded, AcceptPayment, LeavePending, Answer, db, stripe, client, handler, crons, outcome
  <2>2. RequestHasOrder'
    BY <1>24, SMTT(20)
    DEF PayInv, RequestHasOrder,
        HandleSucceeded, CommitClaim, RefundNeeded, AcceptPayment, LeavePending, Answer, db, stripe, client, handler, crons, outcome
  <2>3. EventsAreTrue'
    BY <1>24, SMTT(20)
    DEF PayInv, EventsAreTrue,
        HandleSucceeded, CommitClaim, RefundNeeded, AcceptPayment, LeavePending, Answer, db, stripe, client, handler, crons, outcome
  <2>4. ClaimIsExclusive'
    BY <1>24, SMTT(20)
    DEF PayInv, ClaimIsExclusive, Events, Types, PayTypeOK,
        HandleSucceeded, CommitClaim, RefundNeeded, AcceptPayment, LeavePending, Answer, db, stripe, client, handler, crons, outcome
  <2>5. RefundsAreDue'
    <3>1. hevent[h] = Succeeded(o) /\ hevent[h] \in sent \ claimed /\ hevent[h][1] = o
      BY <1>24, EventNames DEF PayInv, ClaimIsExclusive, HandleSucceeded, Succeeded
    <3>2. captured[o] # "none" /\ status[o] # "confirmed"
      BY <3>1 DEF PayInv, EventsAreTrue, ConfirmedOnce
    <3>3. RefundNeeded(o, hsaw[h]) => Unhonoured(o) /\ status' = status
      BY <1>24, <3>1, <3>2, SMTT(20)
      DEF PayInv, PayTypeOK, ClaimIsExclusive, HandleSucceeded, RefundNeeded,
          Unhonoured, Dead
    <3>4. \A p \in Orders : Unhonoured(p) => Unhonoured(p)'
      BY <1>24, SMTT(20) DEF PayInv, PayTypeOK, HandleSucceeded, AcceptPayment, LeavePending,
         Unhonoured, Dead, stripe
    <3> QED
      BY <1>24, <3>1, <3>3, <3>4, SMTT(20)
      DEF PayInv, PayTypeOK, RefundsAreDue, HandleSucceeded, Answer, stripe
  <2>6. ConfirmedOnce'
    <3>1. hevent[h] = Succeeded(o) /\ claimed' = claimed \cup {Succeeded(o)}
      BY <1>24 DEF HandleSucceeded, CommitClaim, Succeeded
    <3>2. captured[o] # "none"
      BY <1>24, <3>1 DEF PayInv, EventsAreTrue, ClaimIsExclusive, HandleSucceeded
    <3> QED
      BY <1>24, <3>1, <3>2, SMTT(20)
      DEF PayInv, PayTypeOK, ConfirmedOnce, HandleSucceeded, RefundNeeded,
          AcceptPayment, LeavePending, stripe
  <2> QED
    BY <2>1, <2>2, <2>3, <2>4, <2>5, <2>6 DEF PayInv
<1>25. ASSUME NEW h \in Handlers, NEW o \in Orders, HandleCanceled(h, o) PROVE PayInv'
  BY <1>25, PayFaultsAssumption, SMTT(30)
  DEF PayInv, PayTypeOK, RequestHasOrder, EventsAreTrue, ClaimIsExclusive,
      RefundsAreDue, ConfirmedOnce, Unhonoured, Succeeded, Canceled, Dead,
      Events, Types, db, stripe, client, handler, crons, outcome,
      HandleCanceled, CommitClaim, LeavePending, Answer
<1>26. ASSUME NEW h \in Handlers, NEW o \in Orders, HandleFailedAttempt(h, o) PROVE PayInv'
  BY <1>26, PayFaultsAssumption, SMTT(30)
  DEF PayInv, PayTypeOK, RequestHasOrder, EventsAreTrue, ClaimIsExclusive,
      RefundsAreDue, ConfirmedOnce, Unhonoured, Succeeded, Canceled, Dead,
      Events, Types, db, stripe, client, handler, crons, outcome,
      HandleFailedAttempt, CommitClaim, Answer
<1>27. ASSUME NEW h \in Handlers, HandlerRollsBack(h) PROVE PayInv'
  BY <1>27, PayFaultsAssumption, SMTT(30)
  DEF PayInv, PayTypeOK, RequestHasOrder, EventsAreTrue, ClaimIsExclusive,
      RefundsAreDue, ConfirmedOnce, Unhonoured, Succeeded, Canceled, Dead,
      Events, Types, db, stripe, client, handler, crons, outcome,
      HandlerRollsBack, Fault
<1>28. ASSUME NEW h \in Handlers, CreateRefund(h) PROVE PayInv'
  <2>0. PICK o \in Orders : hevent[h] = Succeeded(o) /\ Unhonoured(o)
    BY <1>28 DEF PayInv, RefundsAreDue, CreateRefund
  <2>a. hevent[h] \in Events /\ hevent[h][1] = o
    BY <2>0, EventNames
  <2>1. PayTypeOK'
    BY <1>28, <2>a, SMTT(20)
    DEF PayInv, PayTypeOK,
        CreateRefund, Answer, db, stripe, client, handler, crons, outcome
  <2>2. RequestHasOrder'
    BY <1>28, SMTT(20)
    DEF PayInv, RequestHasOrder,
        CreateRefund, Answer, db, stripe, client, handler, crons, outcome
  <2>3. EventsAreTrue'
    BY <1>28, SMTT(20)
    DEF PayInv, EventsAreTrue,
        CreateRefund, Answer, db, stripe, client, handler, crons, outcome
  <2>4. ClaimIsExclusive'
    BY <1>28, SMTT(20)
    DEF PayInv, ClaimIsExclusive, Events, Types, PayTypeOK,
        CreateRefund, Answer, db, stripe, client, handler, crons, outcome
  <2>5. RefundsAreDue'
    BY <1>28, <2>0, <2>a, SMTT(20)
    DEF PayInv, RefundsAreDue, Unhonoured, PayTypeOK,
        CreateRefund, Answer, db, stripe, client, handler, crons, outcome
  <2>6. ConfirmedOnce'
    BY <1>28, SMTT(20)
    DEF PayInv, ConfirmedOnce, PayTypeOK, EventsAreTrue, Dead, Succeeded,
        CreateRefund, Answer, db, stripe, client, handler, crons, outcome
  <2> QED
    BY <2>1, <2>2, <2>3, <2>4, <2>5, <2>6 DEF PayInv
<1>29. ASSUME NEW h \in Handlers, CreateRefundFails(h) PROVE PayInv'
  <2>0. PICK o \in Orders : hevent[h] = Succeeded(o) /\ Unhonoured(o)
    BY <1>29 DEF PayInv, RefundsAreDue, CreateRefundFails
  <2>a. hevent[h] \in Events /\ hevent[h][1] = o
    BY <2>0, EventNames
  <2>1. PayTypeOK'
    BY <1>29, <2>a, PayFaultsAssumption, SMTT(20)
    DEF PayInv, PayTypeOK,
        CreateRefundFails, Answer, Fault, db, stripe, client, handler, crons, outcome
  <2>2. RequestHasOrder'
    BY <1>29, SMTT(20)
    DEF PayInv, RequestHasOrder,
        CreateRefundFails, Answer, Fault, db, stripe, client, handler, crons, outcome
  <2>3. EventsAreTrue'
    BY <1>29, SMTT(20)
    DEF PayInv, EventsAreTrue,
        CreateRefundFails, Answer, Fault, db, stripe, client, handler, crons, outcome
  <2>4. ClaimIsExclusive'
    BY <1>29, SMTT(20)
    DEF PayInv, ClaimIsExclusive, Events, Types, PayTypeOK,
        CreateRefundFails, Answer, Fault, db, stripe, client, handler, crons, outcome
  <2>5. RefundsAreDue'
    BY <1>29, <2>0, <2>a, SMTT(20)
    DEF PayInv, RefundsAreDue, Unhonoured, PayTypeOK,
        CreateRefundFails, Answer, Fault, db, stripe, client, handler, crons, outcome
  <2>6. ConfirmedOnce'
    BY <1>29, SMTT(20)
    DEF PayInv, ConfirmedOnce, PayTypeOK, EventsAreTrue, Dead, Succeeded,
        CreateRefundFails, Answer, Fault, db, stripe, client, handler, crons, outcome
  <2> QED
    BY <2>1, <2>2, <2>3, <2>4, <2>5, <2>6 DEF PayInv
<1>30. ASSUME NEW h \in Handlers, HandlerDies(h) PROVE PayInv'
  BY <1>30, PayFaultsAssumption, SMTT(30)
  DEF PayInv, PayTypeOK, RequestHasOrder, EventsAreTrue, ClaimIsExclusive,
      RefundsAreDue, ConfirmedOnce, Unhonoured, Succeeded, Canceled, Dead,
      Events, Types, db, stripe, client, handler, crons, outcome,
      HandlerDies, Fault
<1>31. CASE UNCHANGED vars
  BY <1>31, SMTT(30) DEF PayInv, PayTypeOK, RequestHasOrder, EventsAreTrue, ClaimIsExclusive,
      RefundsAreDue, ConfirmedOnce, Unhonoured, Succeeded, Canceled, Dead,
      Events, Types, db, stripe, client, handler, crons, outcome, vars
<1> QED
  BY <1>1, <1>2, <1>3, <1>4, <1>5, <1>6, <1>7, <1>8, <1>9, <1>10, <1>11, <1>12, <1>13, <1>14, <1>15, <1>16, <1>17, <1>18, <1>19, <1>20, <1>21, <1>22, <1>23, <1>24, <1>25, <1>26, <1>27, <1>28, <1>29, <1>30, <1>31, Zenon
  DEF Next, T1Step, T2Step, StripeResolves, Deliver, HandlerStep, Failure, Quiescent

\* The invariant holds in every reachable state.
LEMMA PayIsInvariant == Spec => []PayInv
  BY PayInit, PayNext, PTL DEF Spec

\* Type correctness of the payment side.
THEOREM PaymentsTypeOK == Spec => []PayTypeOK
<1>1. PayInv => PayTypeOK
  BY DEF PayInv
<1> QED
  BY <1>1, PayIsInvariant, PTL

\* Concurrent and repeated deliveries of a webhook never leave a buyer with the
\* ticket and the money.
THEOREM PaymentsNoTicketAndRefund == Spec => []NoTicketAndRefund
<1>1. PayInv => NoTicketAndRefund
  BY DEF PayInv, RefundsAreDue, ConfirmedOnce, Unhonoured, NoTicketAndRefund, Dead
<1> QED
  BY <1>1, PayIsInvariant, PTL

\* A confirmed order was paid in full.
THEOREM PaymentsConfirmedIsPaid == Spec => []ConfirmedIsPaid
<1>1. PayInv => ConfirmedIsPaid
  BY DEF PayInv, ConfirmedOnce, ConfirmedIsPaid
<1> QED
  BY <1>1, PayIsInvariant, PTL

\* Together: the books are right.
THEOREM PaymentsAreSafe == Spec => []PaymentsSafe
  BY PaymentsTypeOK, PaymentsNoTicketAndRefund, PaymentsConfirmedIsPaid, PTL DEF PaymentsSafe

\* What the compare-and-swap does to the order it changes.
LEMMA LeaveStep ==
  ASSUME status \in [Orders -> {"pending", "confirmed"} \cup Dead], NEW p \in Orders, NEW new, LeavePending(p, new),
         NEW o \in Orders, status'[o] # status[o]
  PROVE  /\ o = p /\ status[o] = "pending" /\ status'[o] = new
         /\ status' = [status EXCEPT ![o] = new]
<1>1. o = p
  BY DEF LeavePending
<1>2. status[p] = "pending"
  BY <1>1 DEF LeavePending
<1>3. status' = [status EXCEPT ![p] = new]
  BY <1>2, Zenon DEF LeavePending
<1> QED
  BY <1>1, <1>2, <1>3

\* What one step may do to the status of an order.
LEMMA StatusStep ==
  ASSUME PayInv, [Next]_vars, NEW o \in Orders, status'[o] # status[o]
  PROVE  /\ status[o] = "pending"
         /\ status'[o] = "confirmed" => captured[o] = "right"
         /\ status'[o] = "expired" => o \in t1 \/ intent[o] = "canceled"
         /\ status' = [status EXCEPT ![o] = status'[o]]
         /\ UNCHANGED <<captured, refunded>>
<1> DEFINE Claim ==
      /\ status[o] = "pending"
      /\ status'[o] = "confirmed" => captured[o] = "right"
      /\ status'[o] = "expired" => o \in t1 \/ intent[o] = "canceled"
      /\ status' = [status EXCEPT ![o] = status'[o]]
      /\ UNCHANGED <<captured, refunded>>
<1>t. status \in [Orders -> {"pending", "confirmed"} \cup Dead] /\ captured \in [Orders -> {"none", "right", "wrong"}]
  BY DEF PayInv, PayTypeOK
<1>1. ASSUME NEW p \in Orders, T1Expire(p) PROVE Claim
  <2>1. LeavePending(p, "expired") /\ UNCHANGED <<captured, refunded>>
    BY <1>1 DEF T1Expire, stripe
  <2>3. p \in t1
    BY <1>1 DEF T1Expire
  <2>2. /\ o = p /\ status[o] = "pending" /\ status'[o] = "expired"
        /\ status' = [status EXCEPT ![o] = "expired"]
    BY <1>t, <2>1, LeaveStep
  <2> QED
    BY <2>1, <2>2, <2>3, <1>1
<1>2. ASSUME NEW p \in Orders, T2Expire(p) PROVE Claim
  <2>1. LeavePending(p, "expired") /\ UNCHANGED <<captured, refunded>>
    BY <1>2 DEF T2Expire, stripe
  <2>3. intent[p] = "canceled"
    BY <1>2 DEF T2Expire, PayInv, EventsAreTrue
  <2>2. /\ o = p /\ status[o] = "pending" /\ status'[o] = "expired"
        /\ status' = [status EXCEPT ![o] = "expired"]
    BY <1>t, <2>1, LeaveStep
  <2> QED
    BY <2>1, <2>2, <2>3, <1>2
<1>3. ASSUME NEW p \in Orders, CancelOrder(p) PROVE Claim
  <2>1. LeavePending(p, "cancelled") /\ UNCHANGED <<captured, refunded>>
    BY <1>3 DEF CancelOrder, stripe
  <2>2. /\ o = p /\ status[o] = "pending" /\ status'[o] = "cancelled"
        /\ status' = [status EXCEPT ![o] = "cancelled"]
    BY <1>t, <2>1, LeaveStep
  <2> QED
    BY <2>1, <2>2, <1>3
<1>4. ASSUME NEW h \in Handlers, NEW p \in Orders, HandleCanceled(h, p) PROVE Claim
  <2>1. LeavePending(p, "expired") /\ UNCHANGED <<captured, refunded>>
    BY <1>4 DEF HandleCanceled, stripe
  <2>0. Canceled(p) \in sent
    BY <1>4 DEF HandleCanceled, PayInv, ClaimIsExclusive, Canceled
  <2>3. intent[p] = "canceled"
    BY <2>0 DEF PayInv, EventsAreTrue
  <2>2. /\ o = p /\ status[o] = "pending" /\ status'[o] = "expired"
        /\ status' = [status EXCEPT ![o] = "expired"]
    BY <1>t, <2>1, LeaveStep
  <2> QED
    BY <2>1, <2>2, <2>3, <1>4
<1>5. ASSUME NEW h \in Handlers, NEW p \in Orders, HandleSucceeded(h, p) PROVE Claim
  <2>1. Succeeded(p) \in sent
    BY <1>5 DEF HandleSucceeded, PayInv, ClaimIsExclusive, Succeeded
  <2>2. captured[p] # "none"
    BY <2>1 DEF PayInv, EventsAreTrue
  <2>3. ~RefundNeeded(p, hsaw[h])
    BY <1>5 DEF HandleSucceeded
  <2>4. captured[p] = "right"
    BY <1>t, <2>2, <2>3 DEF RefundNeeded
  <2> QED
    BY <1>5, <1>t, <2>3, <2>4, SMTT(20) DEF HandleSucceeded, AcceptPayment, LeavePending, stripe
<1>6. CASE UNCHANGED status
  BY <1>6
<1>7. CASE Failure
  BY <1>7 DEF Failure, RequestDies, HandlerRollsBack, CreateRefundFails, HandlerDies,
     T1Fails, T2AskFails, T2ExpireFails, VoidIntentFails, db
<1>8. CASE \E p \in Orders : T1Step(p) \/ T2Step(p) \/ GrowsOlder(p) \/ Pay(p) \/ StripeResolves(p)
                          \/ CancelOrder(p) \/ VoidIntent(p)
  BY <1>8, <1>1, <1>2, <1>3
  DEF T1Step, T2Step, StripeResolves, T1Select, T2Select, T2Ask, GrowsOlder, Pay,
      AttemptFails, AttemptSucceeds, VoidIntent, db
<1>9. CASE \E h \in Handlers : HandlerStep(h)
  BY <1>9, <1>4, <1>5 DEF HandlerStep, HandleFailedAttempt, CreateRefund, db
<1>10. CASE \E e \in Events : Deliver(e) \/ StripeStops(e) \/ PurgeEvent(e)
  BY <1>10 DEF Deliver, IgnoreDuplicate, ClaimEvent, StripeStops, PurgeEvent, db
<1>11. CASE \E c \in Clients : CreateIntent(c) \/ RecordIntent(c) \/ \E p \in Orders : ReadForPayment(c, p)
  BY <1>11 DEF CreateIntent, RecordIntent, ReadForPayment, db
<1>12. CASE Quiescent \/ UNCHANGED vars
  BY <1>12, <1>6 DEF Quiescent, vars, db
<1> QED
  BY <1>7, <1>8, <1>9, <1>10, <1>11, <1>12 DEF Next

\* T2 and the canceled webhook expire an order only when Stripe has cancelled
\* its PaymentIntent.
THEOREM PaymentsSparePayers == Spec => T2SparesPayers
<1>1. PayInv /\ [Next]_vars =>
        [\A o \in Orders :
           status[o] = "pending" /\ status'[o] = "expired" /\ o \notin t1
             => intent[o] = "canceled"]_vars
  BY StatusStep
<1> QED
  BY <1>1, PayIsInvariant, PTL DEF Spec, T2SparesPayers

-----------------------------------------------------------------------------
(* The refinement                                                          *)

\* Only Stripe's capture and the refund call move money.
LEMMA MoneyStep ==
  ASSUME [Next]_vars
  PROVE  \/ UNCHANGED <<captured, refunded>>
         \/ \E o \in Orders, a \in {"right", "wrong"} : AttemptSucceeds(o, a)
         \/ \E h \in Handlers : CreateRefund(h) \/ CreateRefundFails(h)
<1>1. CASE Failure
  BY <1>1 DEF Failure, RequestDies, HandlerRollsBack, HandlerDies, T1Fails, T2AskFails,
     T2ExpireFails, VoidIntentFails, CancelIntentFails, CancelIntent, stripe
<1>2. CASE \E o \in Orders : T1Step(o) \/ T2Step(o) \/ GrowsOlder(o) \/ Pay(o) \/ StripeResolves(o)
                          \/ CancelOrder(o) \/ VoidIntent(o)
  BY <1>2
  DEF T1Step, T2Step, StripeResolves, T1Select, T1Expire, T2Select, T2Ask, T2Expire,
      GrowsOlder, Pay, AttemptFails, CancelOrder, VoidIntent, CancelIntent, stripe
<1>3. CASE \E h \in Handlers : HandlerStep(h)
  BY <1>3 DEF HandlerStep, HandleSucceeded, HandleCanceled, HandleFailedAttempt, stripe
<1>4. CASE \E e \in Events : Deliver(e) \/ StripeStops(e) \/ PurgeEvent(e)
  BY <1>4 DEF Deliver, IgnoreDuplicate, ClaimEvent, StripeStops, PurgeEvent, stripe
<1>5. CASE \E c \in Clients : CreateIntent(c) \/ RecordIntent(c) \/ \E p \in Orders : ReadForPayment(c, p)
  BY <1>5 DEF CreateIntent, RecordIntent, ReadForPayment, stripe
<1>6. CASE Quiescent \/ UNCHANGED vars
  BY <1>6 DEF Quiescent, vars, stripe
<1> QED
  BY <1>1, <1>2, <1>3, <1>4, <1>5, <1>6 DEF Next

\* Every step of the payment side is a step of the deal or leaves it alone.
LEMMA DealStep ==
  ASSUME PayInv, [Next]_vars
  PROVE  [Deal!DealNext]_(Deal!deal)
<1> DEFINE tickets == [o \in Orders |-> TicketOf(status[o])]
<1>t. /\ status \in [Orders -> {"pending", "confirmed"} \cup Dead]
      /\ status' \in [Orders -> {"pending", "confirmed"} \cup Dead]
  BY PayNext DEF PayInv, PayTypeOK
<1>1. ASSUME NEW o \in Orders, status'[o] # status[o]
      PROVE  Deal!DealNext
  <2>1. /\ status[o] = "pending"
        /\ status'[o] = "confirmed" => captured[o] = "right"
        /\ status' = [status EXCEPT ![o] = status'[o]]
        /\ UNCHANGED <<captured, refunded>>
    BY <1>1, StatusStep
  <2>2. tickets[o] = "open" /\ \A p \in Orders : p # o => status'[p] = status[p]
    BY <1>t, <2>1 DEF TicketOf
  <2>3. tickets' = [tickets EXCEPT ![o] = TicketOf(status'[o])]
    BY <2>2 DEF TicketOf
  <2>4. CASE status'[o] = "confirmed"
    <3>1. TicketOf(status'[o]) = "kept"
      BY <2>4 DEF TicketOf
    <3>2. Deal!Keep(o)
      BY <2>1, <2>2, <2>3, <2>4, <3>1 DEF Deal!Keep
    <3> QED
      BY <3>2 DEF Deal!DealNext
  <2>5. CASE status'[o] # "confirmed"
    <3>1. TicketOf(status'[o]) = "dropped"
      BY <1>1, <1>t, <2>1, <2>5 DEF TicketOf
    <3>2. Deal!Drop(o)
      BY <2>1, <2>2, <2>3, <3>1 DEF Deal!Drop
    <3> QED
      BY <3>2 DEF Deal!DealNext
  <2> QED
    BY <2>4, <2>5
<1>2. ASSUME \A o \in Orders : status'[o] = status[o]
      PROVE  [Deal!DealNext]_(Deal!deal)
  <2>1. tickets' = tickets
    BY <1>2
  <2>2. CASE UNCHANGED <<captured, refunded>>
    BY <2>1, <2>2 DEF Deal!deal
  <2>3. ASSUME NEW o \in Orders, NEW a \in {"right", "wrong"}, AttemptSucceeds(o, a)
        PROVE  Deal!DealNext
    <3>1. captured[o] = "none"
      BY <2>3 DEF AttemptSucceeds, PayInv, EventsAreTrue
    <3>2. Deal!Charge(o, a)
      BY <2>1, <2>3, <3>1 DEF Deal!Charge, AttemptSucceeds
    <3> QED
      BY <3>2 DEF Deal!DealNext
  <2>4. ASSUME NEW h \in Handlers, CreateRefund(h) \/ CreateRefundFails(h)
        PROVE  [Deal!DealNext]_(Deal!deal)
    <3>1. PICK o \in Orders : hevent[h] = Succeeded(o) /\ Unhonoured(o)
      BY <2>4 DEF PayInv, RefundsAreDue, CreateRefund, CreateRefundFails
    <3>2. captured' = captured /\ refunded' \in {refunded, refunded \cup {o}}
      BY <2>4, <3>1, EventNames DEF CreateRefund, CreateRefundFails
    <3>3. tickets[o] = "dropped" \/ captured[o] = "wrong"
      BY <3>1 DEF Unhonoured, Dead, TicketOf
    <3>4. CASE refunded' = refunded
      BY <2>1, <3>2, <3>4 DEF Deal!deal
    <3>5. CASE refunded' = refunded \cup {o}
      <4>1. Deal!GiveBack(o)
        BY <2>1, <3>1, <3>2, <3>3, <3>5 DEF Deal!GiveBack, Unhonoured
      <4> QED
        BY <4>1 DEF Deal!DealNext
    <3> QED
      BY <3>2, <3>4, <3>5
  <2> QED
    BY <2>2, <2>3, <2>4, MoneyStep
<1> QED
  BY <1>1, <1>2

\* The payment side implements the deal: it charges once, keeps a ticket only
\* for the right money and gives back only what has no ticket.
THEOREM PaymentsImplementDeal == Spec => ImplementsDeal
<1>1. Init => Deal!DealInit
  BY DEF Init, Deal!DealInit, TicketOf
<1>2. PayInv /\ [Next]_vars => [Deal!DealNext]_(Deal!deal)
  BY DealStep
<1> QED
  BY <1>1, <1>2, PayIsInvariant, PTL DEF Spec, ImplementsDeal, Deal!DealSpec

=============================================================================

---------------------------- MODULE PaymentDeal -----------------------------
(***************************************************************************)
(* What the payment side promises about one order: the buyer ends up with  *)
(* the ticket and has paid for it, or without the ticket; money is given   *)
(* back only when there is no ticket for it.                               *)
(***************************************************************************)
CONSTANT Orders

VARIABLES
  ticket,    \* "open" while the order can still be paid
  money,     \* what Stripe captured: nothing, the order's total, or another amount
  returned   \* orders whose charge was refunded

deal == <<ticket, money, returned>>

DealInit ==
  /\ ticket = [o \in Orders |-> "open"]
  /\ money = [o \in Orders |-> "none"]
  /\ returned = {}

Charge(o, amount) ==
  /\ money[o] = "none"
  /\ money' = [money EXCEPT ![o] = amount]
  /\ UNCHANGED <<ticket, returned>>

Keep(o) ==
  /\ ticket[o] = "open" /\ money[o] = "right"
  /\ ticket' = [ticket EXCEPT ![o] = "kept"]
  /\ UNCHANGED <<money, returned>>

Drop(o) ==
  /\ ticket[o] = "open"
  /\ ticket' = [ticket EXCEPT ![o] = "dropped"]
  /\ UNCHANGED <<money, returned>>

GiveBack(o) ==
  /\ ticket[o] = "dropped" \/ money[o] = "wrong"
  /\ money[o] # "none"
  /\ returned' = returned \cup {o}
  /\ UNCHANGED <<ticket, money>>

DealNext ==
  \E o \in Orders :
    \/ \E amount \in {"right", "wrong"} : Charge(o, amount)
    \/ Keep(o) \/ Drop(o) \/ GiveBack(o)

DealSpec == DealInit /\ [][DealNext]_deal

=============================================================================

----------------------------- MODULE TicketSale -----------------------------
(***************************************************************************)
(* What the ticketing backend promises about one event, whatever goes      *)
(* wrong inside it.  A request, named by its idempotency key, may take     *)
(* tickets from the stock; tickets taken are later either sold or          *)
(* returned, each exactly once.  OrderPipeline shows how the Redis         *)
(* counters, the order stream, Postgres and the outbox implement this.     *)
(***************************************************************************)
EXTENDS Requests

VARIABLES
  stock,    \* tickets that can still be taken
  charged,  \* per buyer, the tickets counted against the purchase limit
  phase     \* per key, what became of the request

saleVars == <<stock, charged, phase>>

Phases == {"free", "taken", "sold", "returned"}

\* The keys whose tickets are out of the stock.
Out == {k \in Keys : phase[k] \in {"taken", "sold"}}
OutOf(u) == {k \in Out : UserOf[k] = u}

SaleInit ==
  /\ stock = Total
  /\ charged = [u \in Users |-> 0]
  /\ phase = [k \in Keys |-> "free"]

Take(k) ==
  /\ phase[k] = "free"
  /\ stock >= Qty[k]
  /\ charged[UserOf[k]] + Qty[k] <= Limit
  /\ stock' = stock - Qty[k]
  /\ charged' = [charged EXCEPT ![UserOf[k]] = @ + Qty[k]]
  /\ phase' = [phase EXCEPT ![k] = "taken"]

Sell(k) ==
  /\ phase[k] = "taken"
  /\ phase' = [phase EXCEPT ![k] = "sold"]
  /\ UNCHANGED <<stock, charged>>

\* The buyer's count never goes below zero (it is deleted at zero).
Uncharge(count, q) == IF count > q THEN count - q ELSE 0

Return(k) ==
  /\ phase[k] = "taken"
  /\ stock' = stock + Qty[k]
  /\ charged' = [charged EXCEPT ![UserOf[k]] = Uncharge(@, Qty[k])]
  /\ phase' = [phase EXCEPT ![k] = "returned"]

SaleNext == \E k \in Keys : Take(k) \/ Sell(k) \/ Return(k)

SaleSpec == SaleInit /\ [][SaleNext]_saleVars

-----------------------------------------------------------------------------
SaleTypeOK ==
  /\ stock \in Nat
  /\ charged \in [Users -> Nat]
  /\ phase \in [Keys -> Phases]

\* No ticket appears or disappears: the stock and the tickets that are out
\* always add up to the size of the event.
Conserved == stock + Cardinality(Units(Out)) = Total

\* Every buyer's count is exactly the tickets they have out.
ChargedExactly == \A u \in Users : charged[u] = Cardinality(Units(OutOf(u)))

\* No buyer ever has more tickets out than the purchase limit.
WithinLimit == \A u \in Users : Cardinality(Units(OutOf(u))) <= Limit

=============================================================================

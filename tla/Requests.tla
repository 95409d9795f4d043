------------------------------ MODULE Requests ------------------------------
(***************************************************************************)
(* The purchase requests for one event and the limits they are checked     *)
(* against, shared by the abstract sale and by the order pipeline.         *)
(***************************************************************************)
EXTENDS Integers, FiniteSets

CONSTANTS
  Keys,     \* idempotency keys, one per purchase request
  Users,    \* buyers
  UserOf,   \* the buyer that submits a key
  Qty,      \* the number of tickets a key asks for
  Total,    \* events.total_seats
  Limit     \* MAX_TICKETS_PER_USER_PER_EVENT

ASSUME KeysAssumption == IsFiniteSet(Keys)
ASSUME UserOfAssumption == UserOf \in [Keys -> Users]
ASSUME QtyAssumption == Qty \in [Keys -> Nat \ {0}]
ASSUME BoundsAssumption == Total \in Nat /\ Limit \in Nat

\* The tickets that a set of keys asks for, one element per ticket, so that
\* SUM(quantity) over the keys is the cardinality.
Units(K) == UNION {{k} \X (1 .. Qty[k]) : k \in K}

=============================================================================

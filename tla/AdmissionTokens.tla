-------------------------- MODULE AdmissionTokens ---------------------------
(***************************************************************************)
(* The admission pass between the waiting room and create_endpoint: a JWT  *)
(* that names its user and its expiry, and a Redis key per pass that says  *)
(* it is used.  create_endpoint sets the key before it submits the order   *)
(* and deletes it again when a DomainError shows that no intent exists;    *)
(* any other exception leaves the pass used.                               *)
(*                                                                         *)
(* Time is counted in ticks, Tps of them to a second, because the expiry   *)
(* of the pass and the lifetime of the key are both cut to whole seconds.  *)
(* Every answer of the waiting room carries a pass of its own; as no two   *)
(* share a key, the model follows the first one of each user.              *)
(***************************************************************************)
EXTENDS Naturals

CONSTANTS
  Users,
  Requests,    \* concurrent executions of create_endpoint
  None,        \* no user
  Tps,         \* ticks per second
  TokenTTL,    \* QUEUE_ADMISSION_TOKEN_TTL_SECONDS
  MaxClock,    \* bound on the clock; at the bound it stands for all later times
  MaxStock     \* bound on the stock

ASSUME TokenAssumption ==
  /\ None \notin Users
  /\ Tps \in Nat \ {0} /\ TokenTTL \in Nat \ {0}
  /\ MaxClock \in Nat /\ MaxStock \in Nat

VARIABLES
  now,         \* the clock, in ticks
  avail,       \* event:{id}:available
  exp,         \* user: expiry of the pass, 0 before it is issued
  marker,      \* user: when admission_used:{jti} expires, 0 when it is not set
  accepted,    \* user: order intents accepted under the pass
  rpc, ruser   \* create_endpoint: next step, whose pass it presents

requests == <<rpc, ruser>>
tokens == <<exp, marker, accepted, requests>>

TokensInit ==
  /\ now = 0 /\ avail \in 1 .. MaxStock
  /\ exp = [u \in Users |-> 0] /\ marker = [u \in Users |-> 0]
  /\ accepted = [u \in Users |-> 0]
  /\ rpc = [r \in Requests |-> "idle"] /\ ruser = [r \in Requests |-> None]

Seconds(t) == t \div Tps

\* PyJWT writes "exp" as a whole number of seconds.
Expiry == Tps * Seconds(now + Tps * TokenTTL)

\* ttl = max(1, int(exp - now)).
MarkerTTL(u) == LET left == Seconds(exp[u] - now) IN Tps * (IF left = 0 THEN 1 ELSE left)

Used(u) == marker[u] > now

-----------------------------------------------------------------------------
EndRequest(r) ==
  /\ rpc' = [rpc EXCEPT ![r] = "idle"]
  /\ ruser' = [ruser EXCEPT ![r] = None]

\* The signature, the expiry and the owner are right, and SET NX succeeds.
VerifyAdmission(r, u) ==
  /\ rpc[r] = "idle" /\ now < exp[u] /\ ~Used(u)
  /\ marker' = [marker EXCEPT ![u] = now + MarkerTTL(u)]
  /\ rpc' = [rpc EXCEPT ![r] = "submit"]
  /\ ruser' = [ruser EXCEPT ![r] = u]
  /\ UNCHANGED <<now, avail, exp, accepted>>

Reserve(r) ==
  /\ avail > 0
  /\ avail' = avail - 1
  /\ accepted' = [accepted EXCEPT ![ruser[r]] = @ + 1]

\* submit_order reserves and enqueues the intent in one script, or finds that the
\* idempotency key has been accepted before (DUP).
SubmitOrder(r) ==
  /\ rpc[r] = "submit"
  /\ \/ Reserve(r)
     \/ accepted[ruser[r]] > 0 /\ UNCHANGED <<avail, accepted>>
  /\ EndRequest(r)
  /\ UNCHANGED <<now, exp, marker>>

\* Variant: a refused order keeps the pass.
SubmitRefusedKeeps(r) ==
  /\ rpc[r] = "submit"
  /\ EndRequest(r)
  /\ UNCHANGED <<now, avail, exp, marker, accepted>>

\* A DomainError: sold out, over the limit, not on sale, no seats together.
SubmitRefused(r) ==
  /\ rpc[r] = "submit"
  /\ rpc' = [rpc EXCEPT ![r] = "refund"]
  /\ UNCHANGED <<now, avail, exp, marker, accepted, ruser>>

\* Variant: every exception gives the pass back.
SubmitDiesRefunds(r) ==
  /\ rpc[r] = "submit"
  /\ Reserve(r) \/ UNCHANGED <<avail, accepted>>
  /\ rpc' = [rpc EXCEPT ![r] = "refund"]
  /\ UNCHANGED <<now, exp, marker, ruser>>

\* Any other exception, or the process dies: before the script or after it.
SubmitDies(r) ==
  /\ rpc[r] = "submit"
  /\ Reserve(r) \/ UNCHANGED <<avail, accepted>>
  /\ EndRequest(r)
  /\ UNCHANGED <<now, exp, marker>>

RefundAdmission(r) ==
  /\ rpc[r] = "refund"
  /\ marker' = [marker EXCEPT ![ruser[r]] = 0]
  /\ EndRequest(r)
  /\ UNCHANGED <<now, avail, exp, accepted>>

RefundFails(r) ==
  /\ rpc[r] = "refund"
  /\ EndRequest(r)
  /\ UNCHANGED <<now, avail, exp, marker, accepted>>

\* A seat comes back (release, modelled in OrderPipeline).
Restock ==
  /\ avail < MaxStock
  /\ avail' = avail + 1
  /\ UNCHANGED <<now, tokens>>

-----------------------------------------------------------------------------
\* A pass that bought an order is refused from then on, up to the last second
\* before it expires, whatever concurrent requests with it fail and refund.
UsedPassIsRefused ==
  \A u \in Users : accepted[u] > 0 /\ now + Tps <= exp[u] => Used(u)

=============================================================================

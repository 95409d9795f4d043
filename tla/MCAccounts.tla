----------------------------- MODULE MCAccounts -----------------------------
(* A small instance of Accounts for TLC. *)
EXTENDS Accounts

\* Bound: the third request comes before the rotation of the key or not at all.
Bounded == budget > 0 \/ \A p \in Tasks : ring[p] = "old"
=============================================================================

---------------------------- MODULE ApiRequests -----------------------------
(***************************************************************************)
(* The users and the requests that are being served for them: each serving *)
(* process works on one request at a time, an await at a time.             *)
(***************************************************************************)
EXTENDS Integers, FiniteSets

CONSTANTS
  Users,
  Procs,          \* requests that the API serves at a time
  MaxRequests     \* bound on requests that are started

ASSUME RequestsAssumption ==
  IsFiniteSet(Users) /\ IsFiniteSet(Procs) /\ MaxRequests \in Nat

VARIABLES
  user,           \* users: active, or erased
  req,            \* what each serving process is at
  budget          \* requests that may still start

requests == <<req, budget>>

Idle == [step |-> "idle"]

RequestsInit ==
  /\ user = [u \in Users |-> "active"]
  /\ req = [p \in Procs |-> Idle] /\ budget = MaxRequests

Starts(p, r) ==
  /\ req[p] = Idle /\ budget > 0
  /\ budget' = budget - 1 /\ req' = [req EXCEPT ![p] = r]
Goes(p, r) == req' = [req EXCEPT ![p] = r] /\ UNCHANGED budget
Ends(p) == Goes(p, Idle)

=============================================================================

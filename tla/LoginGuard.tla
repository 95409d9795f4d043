----------------------------- MODULE LoginGuard -----------------------------
(***************************************************************************)
(* The counter of failed logins of an account: a fixed window in Redis,    *)
(* the scripts of services/rate_limit.py.  The window is an event, not a   *)
(* clock: WindowEnds is the key's TTL.                                     *)
(***************************************************************************)
EXTENDS ApiRequests

CONSTANT FailureLimit    \* LOGIN_FAILURE_LIMIT

ASSUME GuardAssumption == FailureLimit \in Nat \ {0}

VARIABLES
  fails,          \* rl:login_fail:{username}; 0 is a missing key
  guesses         \* history: wrong passwords tried since the key was last missing

guard == <<fails, guesses>>

GuardInit == fails = [u \in Users |-> 0] /\ guesses = [u \in Users |-> 0]

\* Variant: the limit itself is still let through.
PassesAtLimit(u) == fails[u] <= FailureLimit

\* peek, before the password is looked at.
Passes(u) == fails[u] < FailureLimit

\* A wrong password; the counter follows later, in hit.
Guess(u) == guesses' = [guesses EXCEPT ![u] = @ + 1] /\ UNCHANGED fails

\* INCR, and EXPIRE with the first one, in a script.
Hit(u) == fails' = [fails EXCEPT ![u] = @ + 1] /\ UNCHANGED guesses

Clear(u) == fails' = [fails EXCEPT ![u] = 0] /\ guesses' = [guesses EXCEPT ![u] = 0]

WindowEnds(u) == fails[u] > 0 /\ Clear(u)

-----------------------------------------------------------------------------
\* The lock holds against parallel logins: between two times the counter is
\* gone, passwords are tried at most once more per concurrent request than the
\* limit allows, although the check and the count are two steps with the password
\* hash in between.
LockoutBoundsGuesses ==
  \A u \in Users : guesses[u] <= FailureLimit - 1 + Cardinality(Procs)

=============================================================================

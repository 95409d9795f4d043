---------------------------- MODULE MCAuditTrail ----------------------------
(* A small instance of AuditTrail for TLC. *)
EXTENDS AuditTrail

CONSTANTS p1, p2

TwoEvents == 1 .. 2

\* A good event behind one that Postgres rejects or one that does not parse, or
\* (see Single) alone.
GoodAndPoison ==
  {<<"good", "good">>, <<"rejected", "good">>, <<"malformed", "good">>}

\* Bound: either a poisoned and a good event, two passes and two faults while
\* neither the clock nor the partition job runs, or one good event, one pass and
\* one fault while they do.
Quiet ==
  /\ kind[1] # "good"
  /\ clock = 0 /\ offset = Lookahead /\ ~ensured /\ parts = 0 .. Lookahead - 1
Single == kind[1] = "good" /\ emitted <= 1 /\ ppc[p2] = "off" /\ faults <= 1

Bounded == Quiet \/ Single

MCNext == Next /\ Bounded'

\* As Fairness, but the second pass owes nothing where it is left out.
MCFairness ==
  /\ \A p \in Passes : WF_vars(PassStep(p) /\ Bounded')
  /\ \A e \in Events : WF_vars(GrowsIdle(e))
  /\ WF_vars(PurgeStep /\ UNCHANGED <<stream, pass>>)

MCSpec == Init /\ [][MCNext]_vars /\ MCFairness

=============================================================================

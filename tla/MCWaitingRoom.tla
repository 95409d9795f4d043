---------------------------- MODULE MCWaitingRoom ----------------------------
(* A small instance of WaitingRoom for TLC. *)
EXTENDS WaitingRoom

\* Bound: an administrator moves the window or something fails, not both; the
\* registration is open at first.
Bounded == edits + faults <= 1 /\ (edits = 0 => closes > 0)

=============================================================================

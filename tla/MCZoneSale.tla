----------------------------- MODULE MCZoneSale -----------------------------
(* A small zone for TLC: one row of seven, and interchangeable clients. *)
EXTENDS ZoneSale, TLC

RowOfSeven == 1 :> [capacity |-> 7, base |-> 60, edge |-> 0]

ClientSymmetry == Permutations(Callers)

=============================================================================

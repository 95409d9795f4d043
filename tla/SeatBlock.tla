----------------------------- MODULE SeatBlock ------------------------------
(***************************************************************************)
(* One block of consecutive seats and the requests that compete for it.    *)
(***************************************************************************)
EXTENDS Integers

CONSTANTS
  Keys,       \* idempotency keys, one per request
  Qty,        \* seats that a request asks for, next to each other
  Capacity    \* seat_blocks.capacity

ASSUME SeatBlockAssumption ==
  Capacity \in Nat \ {0} /\ Qty \in [Keys -> 1 .. Capacity]

Seats == 0 .. Capacity - 1
NoSeat == -1

\* The seats [s, s + n) of the block.
Interval(s, n) == {p \in Seats : s <= p /\ p < s + n}

=============================================================================

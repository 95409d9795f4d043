------------------------------ MODULE SeatMap -------------------------------
(***************************************************************************)
(* What the run structure of a zone promises: seats are taken in one piece *)
(* out of the free ones, by one request at a time, and every request gives *)
(* its seats back at most once.                                            *)
(***************************************************************************)
EXTENDS SeatBlock

VARIABLES
  free,    \* seats on sale
  place,   \* first seat of a request, NoSeat before it has any
  back     \* requests that have given their seats back

seatMap == <<free, place, back>>

SeatMapInit == free = {} /\ place = [k \in Keys |-> NoSeat] /\ back = {}

OpenSale ==
  /\ place = [k \in Keys |-> NoSeat]
  /\ free' = Seats
  /\ UNCHANGED <<place, back>>

TakeSeats(k, s) ==
  /\ place[k] = NoSeat /\ s + Qty[k] <= Capacity
  /\ Interval(s, Qty[k]) \subseteq free
  /\ free' = free \ Interval(s, Qty[k])
  /\ place' = [place EXCEPT ![k] = s]
  /\ UNCHANGED back

ReturnSeats(k) ==
  /\ place[k] # NoSeat /\ k \notin back
  /\ free' = free \cup Interval(place[k], Qty[k])
  /\ back' = back \cup {k}
  /\ UNCHANGED place

SeatMapNext ==
  \/ OpenSale
  \/ \E k \in Keys : ReturnSeats(k) \/ \E s \in Seats : TakeSeats(k, s)

SeatMapSpec == SeatMapInit /\ [][SeatMapNext]_seatMap

-----------------------------------------------------------------------------
Holds(k) == place[k] # NoSeat /\ k \notin back

\* Nobody shares a seat, and no seat that somebody holds is on sale.
SeatsApart ==
  /\ \A k \in Keys : Holds(k) => Interval(place[k], Qty[k]) \cap free = {}
  /\ \A j, k \in Keys :
       Holds(j) /\ Holds(k) /\ j # k =>
         Interval(place[j], Qty[j]) \cap Interval(place[k], Qty[k]) = {}

=============================================================================

------------------------------ MODULE SeatRuns ------------------------------
(***************************************************************************)
(* Seat allocation in one block of a zone: the free runs that Redis keeps  *)
(* with boundary tags, the read-compute-CAS of reserve_seats_and_enqueue,  *)
(* the release script, the seat_holds table with its EXCLUDE constraint,   *)
(* release_order_seat by the fast path and by the relay, the dead-letter   *)
(* refund and rebuild_zone_runs.                                           *)
(*                                                                         *)
(* The stream, its consumers and the reclaim cron are those of             *)
(* OrderPipeline; only what they do to seats is kept here.  The event's    *)
(* counter and the buyers' quota move in the same scripts as the zone's    *)
(* counter; OrderPipeline is about them.                                   *)
(***************************************************************************)
EXTENDS SeatBlock, FiniteSets

CONSTANTS
  Clients,     \* concurrent calls of reserve_seats_and_enqueue
  Relays,      \* overlapping runs of process_outbox
  None,        \* no key
  MaxFaults    \* bound on crashes and failed calls in a behaviour

ASSUME RelaysAssumption == Keys \cap Relays = {} /\ None \notin Keys
ASSUME SeatFaultsAssumption == MaxFaults \in Nat

Positions == 0 .. Capacity
Releasers == Keys \cup Relays   \* a key stands for the fast path of its order

VARIABLES
  \* Redis
  runs,        \* length of the free run that starts here, 0 when there is no field
  ends,        \* start of the free run that ends here, NoSeat when there is no field
  left,        \* event:{e}:zone:{z}:available
  seat,        \* start_pos of a request that got seats: its claim and its intent
  inflight,    \* entries of the order stream
  doomed,      \* entries whose dead letter has found no order row
  orderMarker, deadMarker,   \* released:order:{id}, released:dl:{key}
  \* Postgres
  onSale,      \* the event is PUBLISHED
  status,      \* orders.status, "none" without a row
  hold,        \* orders with a seat_holds row
  owed,        \* orders with an unprocessed seat.release row
  \* memory of the processes
  cpc, ckey, cpick, crun, clen,   \* client: next step, request, pick, host run as read
  step, job,   \* release_order_seat: next step, order
  bpc, bheld,  \* rebuild_zone_runs: next step ("rebuilt": none, after a rebuild on
               \* sale), holds as read
  faults,
  torn         \* history: orders with a release that ended between the deletion of
               \* the hold and Redis

redis == <<runs, ends, left, seat, inflight, doomed, orderMarker, deadMarker>>
zone == <<runs, ends, left>>
db == <<onSale, status, hold, owed>>
client == <<cpc, ckey, cpick, crun, clen>>
releasing == <<step, job>>
rebuild == <<bpc, bheld>>
past == <<faults, torn>>
vars == <<redis, db, client, releasing, rebuild, past>>

Init ==
  /\ runs = [p \in Positions |-> 0] /\ ends = [p \in Positions |-> NoSeat] /\ left = 0
  /\ seat = [k \in Keys |-> NoSeat] /\ inflight = {} /\ doomed = {}
  /\ orderMarker = {} /\ deadMarker = {}
  /\ onSale = FALSE /\ status = [k \in Keys |-> "none"] /\ hold = {} /\ owed = {}
  /\ cpc = [c \in Clients |-> "idle"] /\ ckey = [c \in Clients |-> None]
  /\ cpick = [c \in Clients |-> 0] /\ crun = [c \in Clients |-> 0]
  /\ clen = [c \in Clients |-> 0]
  /\ step = [v \in Releasers |-> "idle"] /\ job = [v \in Releasers |-> None]
  /\ bpc = "idle" /\ bheld = {}
  /\ faults = 0 /\ torn = {}

Fault == faults < MaxFaults /\ faults' = faults + 1

SeatsOf(k) == Interval(seat[k], Qty[k])

-----------------------------------------------------------------------------
(* The run structure                                                       *)

\* The claim script cuts [s, s + n) out of the run [rs, rs + rl).
CutRuns(s, n, rs, rl) ==
  runs' = [p \in Positions |->
             IF p = rs THEN s - rs
             ELSE IF p = s + n /\ p < rs + rl THEN rs + rl - p
             ELSE runs[p]]

CutEnds(s, n, rs, rl) ==
  ends' = [p \in Positions |->
             IF p = s /\ s > rs THEN rs
             ELSE IF p = rs + rl THEN IF s + n < p THEN s + n ELSE NoSeat
             ELSE ends[p]]

\* Variant: the left neighbour is not looked up.
MergeStartAlone(lo) == lo

\* The release script merges [lo, hi) with its neighbours: the left one is found
\* through ends, the right one through runs.
MergeStart(lo) == IF ends[lo] # NoSeat THEN ends[lo] ELSE lo
MergeEnd(hi) == hi + runs[hi]

MergeRuns(lo, hi) ==
  runs' = [p \in Positions |->
             IF p = MergeStart(lo) THEN MergeEnd(hi) - MergeStart(lo)
             ELSE IF p = hi THEN 0
             ELSE runs[p]]

MergeEnds(lo, hi) ==
  ends' = [p \in Positions |->
             IF p = MergeEnd(hi) THEN MergeStart(lo)
             ELSE IF p = lo THEN NoSeat
             ELSE ends[p]]

\* The check of the release script: a free run meets [lo, hi).
Overlaps(lo, hi) == \E p \in Positions : runs[p] > 0 /\ p < hi /\ lo < p + runs[p]

\* Variant: the counter grows by the merged run.
ReturnCountsMerged(k) ==
  /\ MergeRuns(seat[k], seat[k] + Qty[k])
  /\ MergeEnds(seat[k], seat[k] + Qty[k])
  /\ left' = left + MergeEnd(seat[k] + Qty[k]) - MergeStart(seat[k])

\* The release script past its checks.
ReturnRun(k) ==
  /\ MergeRuns(seat[k], seat[k] + Qty[k])
  /\ MergeEnds(seat[k], seat[k] + Qty[k])
  /\ left' = left + Qty[k]

-----------------------------------------------------------------------------
(* reserve_seats_and_enqueue                                               *)

\* read_zone_state and a placement in one of its runs; legal_anchors chooses
\* among these.
ReadAndPick(c, k, rs, s) ==
  /\ onSale /\ cpc[c] = "idle" /\ runs[rs] > 0
  /\ rs <= s /\ s + Qty[k] <= rs + runs[rs]
  /\ cpc' = [cpc EXCEPT ![c] = "claim"]
  /\ ckey' = [ckey EXCEPT ![c] = k]
  /\ cpick' = [cpick EXCEPT ![c] = s]
  /\ crun' = [crun EXCEPT ![c] = rs]
  /\ clen' = [clen EXCEPT ![c] = runs[rs]]
  /\ UNCHANGED <<redis, db, releasing, rebuild, past>>

\* Variant: the script compares the start of the run and not its length.
ClaimOutcomeByStart(c) ==
  IF seat[ckey[c]] # NoSeat THEN "DUP"
  ELSE IF runs[crun[c]] = 0 THEN "RETRY" ELSE "OK"

\* What the claim script answers.
ClaimOutcome(c) ==
  IF seat[ckey[c]] # NoSeat THEN "DUP"
  ELSE IF runs[crun[c]] # clen[c] THEN "RETRY" ELSE "OK"

\* After DUP the call returns; after RETRY it reads again or gives up.
ClientForgets(c) ==
  /\ cpc' = [cpc EXCEPT ![c] = "idle"]
  /\ ckey' = [ckey EXCEPT ![c] = None]
  /\ cpick' = [cpick EXCEPT ![c] = 0]
  /\ crun' = [crun EXCEPT ![c] = 0]
  /\ clen' = [clen EXCEPT ![c] = 0]

ClaimSeats(c) ==
  /\ cpc[c] = "claim" /\ ClaimOutcome(c) = "OK"
  /\ CutRuns(cpick[c], Qty[ckey[c]], crun[c], clen[c])
  /\ CutEnds(cpick[c], Qty[ckey[c]], crun[c], clen[c])
  /\ left' = left - Qty[ckey[c]]
  /\ seat' = [seat EXCEPT ![ckey[c]] = cpick[c]]
  /\ inflight' = inflight \cup {ckey[c]}
  /\ ClientForgets(c)
  /\ UNCHANGED <<doomed, orderMarker, deadMarker, db, releasing, rebuild, past>>

ClaimRefused(c) ==
  /\ cpc[c] = "claim" /\ ClaimOutcome(c) # "OK"
  /\ ClientForgets(c)
  /\ UNCHANGED <<redis, db, releasing, rebuild, past>>

-----------------------------------------------------------------------------
(* The worker: _persist_intent, acknowledgement, _dead_letter_intent       *)

\* ex_seat_holds_no_overlap rejects the hold.
Conflicts(k) == \E j \in hold \ {k} : SeatsOf(j) \cap SeatsOf(k) # {}

\* The order and its hold in one transaction.  A consumer that was slow to get
\* there does not know of the dead letter, nor that the entry is gone.
PersistIntent(k) ==
  /\ k \in inflight \cup doomed /\ status[k] = "none" /\ ~Conflicts(k)
  /\ status' = [status EXCEPT ![k] = "pending"]
  /\ hold' = hold \cup {k}
  /\ UNCHANGED <<redis, onSale, owed, client, releasing, rebuild, past>>

AckIntent(k) ==
  /\ k \in inflight /\ status[k] # "none"
  /\ inflight' = inflight \ {k}
  /\ UNCHANGED <<zone, seat, doomed, orderMarker, deadMarker, db, client, releasing,
                 rebuild, past>>

\* After ORDER_MAX_DELIVERIES deliveries _dead_letter_intent looks for the order
\* and finds none; it does not look again before the refund.
GiveUp(k) ==
  /\ k \in inflight \ doomed /\ status[k] = "none"
  /\ doomed' = doomed \cup {k}
  /\ UNCHANGED <<zone, seat, inflight, orderMarker, deadMarker, db, client, releasing,
                 rebuild, past>>

\* A replay finds the marker.
DeadLetterRefund(k) ==
  /\ k \in doomed \ deadMarker
  /\ ~Overlaps(seat[k], seat[k] + Qty[k])
  /\ deadMarker' = deadMarker \cup {k}
  /\ ReturnRun(k)
  /\ UNCHANGED <<seat, inflight, doomed, orderMarker, db, client, releasing, rebuild,
                 past>>

\* OVERLAP raises, or the worker dies: the entry stays, and the next delivery looks
\* for the order again.
DeadLetterFails(k) ==
  /\ k \in doomed \ deadMarker
  /\ \/ Overlaps(seat[k], seat[k] + Qty[k]) /\ UNCHANGED faults
     \/ Fault
  /\ doomed' = doomed \ {k}
  /\ UNCHANGED <<zone, seat, inflight, orderMarker, deadMarker, db, client, releasing,
                 rebuild, torn>>

\* Variant: the entry is acknowledged before its refund.
AckUnrefunded(k) ==
  /\ k \in inflight \cap doomed
  /\ inflight' = inflight \ {k}
  /\ UNCHANGED <<zone, seat, doomed, orderMarker, deadMarker, db, client, releasing,
                 rebuild, past>>

DeadLetterAck(k) ==
  /\ k \in inflight \cap doomed \cap deadMarker
  /\ inflight' = inflight \ {k}
  /\ UNCHANGED <<zone, seat, doomed, orderMarker, deadMarker, db, client, releasing,
                 rebuild, past>>

-----------------------------------------------------------------------------
(* Order status and release_order_seat                                     *)

ConfirmPaid(k) ==
  /\ status[k] = "pending"
  /\ status' = [status EXCEPT ![k] = "confirmed"]
  /\ UNCHANGED <<redis, onSale, hold, owed, client, releasing, rebuild, past>>

\* expire_order and cancel_order: the outbox row commits with the status, and
\* the process goes on with the fast path.
ExpireOrder(k) ==
  /\ status[k] = "pending"
  /\ status' = [status EXCEPT ![k] = "expired"]
  /\ owed' = owed \cup {k}
  /\ step' = [step EXCEPT ![k] = "read"]
  /\ job' = [job EXCEPT ![k] = k]
  /\ UNCHANGED <<redis, onSale, hold, client, rebuild, past>>

RelayClaim(v, k) ==
  /\ step[v] = "idle" /\ k \in owed
  /\ step' = [step EXCEPT ![v] = "read"]
  /\ job' = [job EXCEPT ![v] = k]
  /\ UNCHANGED <<redis, db, client, rebuild, past>>

\* The relay marks its row, the fast path is done.
ReleaseReturns(v) ==
  IF v \in Relays
  THEN step' = [step EXCEPT ![v] = "mark"] /\ UNCHANGED job
  ELSE step' = [step EXCEPT ![v] = "idle"] /\ job' = [job EXCEPT ![v] = None]

\* Without a hold there is nothing to do.
ReadHold(v) ==
  /\ step[v] = "read"
  /\ \/ /\ job[v] \in hold
        /\ step' = [step EXCEPT ![v] = "delete"]
        /\ UNCHANGED job
     \/ job[v] \notin hold /\ ReleaseReturns(v)
  /\ UNCHANGED <<redis, db, client, rebuild, past>>

\* Variant: Redis is changed while the hold is still there.
DeleteHoldLater(v) ==
  /\ step[v] = "delete"
  /\ step' = [step EXCEPT ![v] = "return"]
  /\ UNCHANGED <<redis, db, job, client, rebuild, past>>

\* Deleting a row that is already gone is not an error.
DeleteHold(v) ==
  /\ step[v] = "delete"
  /\ hold' = hold \ {job[v]}
  /\ step' = [step EXCEPT ![v] = "return"]
  /\ UNCHANGED <<redis, onSale, status, owed, job, client, rebuild, past>>

\* release_seats with marker order:{id}.
ReturnSeats(v) ==
  /\ step[v] = "return"
  /\ \/ job[v] \in orderMarker /\ UNCHANGED <<zone, orderMarker>>
     \/ /\ job[v] \notin orderMarker
        /\ ~Overlaps(seat[job[v]], seat[job[v]] + Qty[job[v]])
        /\ orderMarker' = orderMarker \cup {job[v]}
        /\ ReturnRun(job[v])
  /\ ReleaseReturns(v)
  /\ UNCHANGED <<seat, inflight, doomed, deadMarker, db, client, rebuild, past>>

\* SeatReleaseOverlap: logged, and left to the next run of the relay, which finds no
\* hold any more.
ReturnRejected(v) ==
  /\ step[v] = "return" /\ job[v] \notin orderMarker
  /\ Overlaps(seat[job[v]], seat[job[v]] + Qty[job[v]])
  /\ torn' = torn \cup {job[v]}
  /\ step' = [step EXCEPT ![v] = "idle"]
  /\ job' = [job EXCEPT ![v] = None]
  /\ UNCHANGED <<redis, db, client, rebuild, faults>>

MarkProcessed(v) ==
  /\ step[v] = "mark"
  /\ owed' = owed \ {job[v]}
  /\ step' = [step EXCEPT ![v] = "idle"]
  /\ job' = [job EXCEPT ![v] = None]
  /\ UNCHANGED <<redis, onSale, status, hold, client, rebuild, past>>

\* A failure at "return" comes after the commit of the deletion.
TornBy(v) == IF step[v] = "return" THEN {job[v]} ELSE {}

\* Variant: a failed handler is marked like a successful one.
FailureMarked(v) ==
  /\ step[v] # "idle"
  /\ Fault /\ torn' = torn \cup TornBy(v)
  /\ owed' = owed \ {job[v]}
  /\ step' = [step EXCEPT ![v] = "idle"]
  /\ job' = [job EXCEPT ![v] = None]
  /\ UNCHANGED <<redis, onSale, status, hold, client, rebuild>>

\* The process dies or a call raises; the relay's lease brings the row back.
ReleaseFails(v) ==
  /\ step[v] # "idle"
  /\ Fault /\ torn' = torn \cup TornBy(v)
  /\ step' = [step EXCEPT ![v] = "idle"]
  /\ job' = [job EXCEPT ![v] = None]
  /\ UNCHANGED <<redis, db, client, rebuild>>

-----------------------------------------------------------------------------
(* rebuild_zone_runs                                                       *)

\* publish_event forces the rebuild; an operator's run refuses a backlog.
RebuildCheck ==
  /\ bpc \in {"idle", "rebuilt"}
  /\ ~onSale \/ inflight = {}
  /\ bpc' = "read"
  /\ UNCHANGED <<redis, db, client, releasing, bheld, past>>

RebuildRead ==
  /\ bpc = "read"
  /\ bheld' = hold
  /\ bpc' = "write"
  /\ UNCHANGED <<redis, db, client, releasing, past>>

\* The maximal gaps between the occupied seats.
RunStarts(busy) == {s \in Seats \ busy : s = 0 \/ s - 1 \in busy}
RunEnd(s, busy) ==
  CHOOSE e \in Positions :
    /\ s < e /\ (e = Capacity \/ e \in busy)
    /\ \A p \in Seats : s <= p /\ p < e => p \notin busy

RebuildWrite ==
  /\ bpc = "write"
  /\ LET busy == UNION {SeatsOf(k) : k \in bheld} IN
       /\ runs' = [p \in Positions |->
                     IF p \in RunStarts(busy) THEN RunEnd(p, busy) - p ELSE 0]
       /\ ends' = [p \in Positions |->
                     IF \E s \in RunStarts(busy) : RunEnd(s, busy) = p
                     THEN CHOOSE s \in RunStarts(busy) : RunEnd(s, busy) = p
                     ELSE NoSeat]
       /\ left' = Cardinality(Seats \ busy)
  /\ bpc' = (IF onSale THEN "rebuilt" ELSE "idle") /\ bheld' = {}
  /\ UNCHANGED <<seat, inflight, doomed, orderMarker, deadMarker, db, client, releasing,
                 past>>

\* The commit of publish_event, after its rebuild.
PublishEvent ==
  /\ ~onSale /\ bpc = "idle" /\ left = Capacity
  /\ onSale' = TRUE
  /\ UNCHANGED <<redis, status, hold, owed, client, releasing, rebuild, past>>

-----------------------------------------------------------------------------
ReleaseStep(v) ==
  \/ ReadHold(v) \/ DeleteHold(v) \/ ReturnSeats(v) \/ ReturnRejected(v)
  \/ MarkProcessed(v)

RelayStep(v) == ReleaseStep(v) \/ \E k \in Keys : RelayClaim(v, k)

WorkerStep(k) ==
  \/ PersistIntent(k) \/ AckIntent(k)
  \/ DeadLetterRefund(k) \/ DeadLetterFails(k) \/ DeadLetterAck(k)

\* Nothing is left to do for any request.
Quiescent ==
  /\ onSale /\ bpc \in {"idle", "rebuilt"} /\ inflight = {} /\ owed = {}
  /\ \A v \in Releasers : step[v] = "idle"
  /\ UNCHANGED vars

Next ==
  \/ \E c \in Clients :
       \/ ClaimSeats(c) \/ ClaimRefused(c)
       \/ \E k \in Keys, rs, s \in Seats : ReadAndPick(c, k, rs, s)
  \/ \E k \in Keys :
       WorkerStep(k) \/ GiveUp(k) \/ ConfirmPaid(k) \/ ExpireOrder(k)
  \/ \E k \in Keys : ReleaseStep(k)
  \/ \E v \in Relays : RelayStep(v)
  \/ \E v \in Releasers : ReleaseFails(v)
  \/ RebuildCheck \/ RebuildRead \/ RebuildWrite \/ PublishEvent
  \/ Quiescent

Spec == Init /\ [][Next]_vars

-----------------------------------------------------------------------------
SeatTypeOK ==
  /\ runs \in [Positions -> 0 .. Capacity]
  /\ ends \in [Positions -> Seats \cup {NoSeat}] /\ left \in 0 .. Capacity
  /\ seat \in [Keys -> Seats \cup {NoSeat}]
  /\ inflight \in SUBSET Keys /\ doomed \in SUBSET Keys
  /\ orderMarker \in SUBSET Keys /\ deadMarker \in SUBSET Keys
  /\ onSale \in BOOLEAN
  /\ status \in [Keys -> {"none", "pending", "confirmed", "expired"}]
  /\ hold \in SUBSET Keys /\ owed \in SUBSET Keys
  /\ cpc \in [Clients -> {"idle", "claim"}] /\ ckey \in [Clients -> Keys \cup {None}]
  /\ cpick \in [Clients -> Seats] /\ crun \in [Clients -> Seats]
  /\ clen \in [Clients -> 0 .. Capacity]
  /\ step \in [Releasers -> {"idle", "read", "delete", "return", "mark"}]
  /\ job \in [Releasers -> Keys \cup {None}]
  /\ bpc \in {"idle", "read", "write", "rebuilt"} /\ bheld \in SUBSET Keys
  /\ faults \in 0 .. MaxFaults /\ torn \in SUBSET Keys

FreeSeats == {p \in Seats : \E s \in Seats : runs[s] > 0 /\ s <= p /\ p < s + runs[s]}

\* The runs are exactly the maximal free intervals and ends is their mirror
\* image: what the compare-and-swap on (start, length) and the O(1) merge of
\* the release script rest on.
RunsAreMaximal ==
  /\ \A s \in Positions : runs[s] > 0 => s + runs[s] <= Capacity
  /\ \A s, t \in Positions : runs[s] > 0 /\ runs[t] > 0 /\ s < t => s + runs[s] < t
  /\ \A s \in Positions : runs[s] > 0 => ends[s + runs[s]] = s
  /\ \A e \in Positions :
       ends[e] # NoSeat => ends[e] < e /\ runs[ends[e]] = e - ends[e]

\* A request whose seats nobody else may have.
LiveSeats(k) ==
  \/ k \in inflight \ deadMarker /\ status[k] = "none"
  \/ status[k] \in {"pending", "confirmed"}

\* No two live requests share a seat, and no seat of theirs is on sale.
NoSharedSeat ==
  \A k \in Keys : LiveSeats(k) =>
    /\ SeatsOf(k) \cap FreeSeats = {}
    /\ \A j \in Keys \ {k} : LiveSeats(j) => SeatsOf(j) \cap SeatsOf(k) = {}

\* The EXCLUDE constraint never rejects an intent that was not refunded:
\* release_order_seat lets go of the row before it offers the seats again.
HoldsNeverConflict ==
  \A k \in inflight \ deadMarker : status[k] = "none" => ~Conflicts(k)

\* The zone's counter is the number of seats in its runs.
CounterMatchesRuns == left = Cardinality(FreeSeats)

\* An operator has rebuilt the runs of an event on sale, or is about to.
Meddled == onSale /\ bpc # "idle"

\* A consumer committed an order that the dead letter refunded.
Overlapped == \E k \in deadMarker : status[k] # "none"

Disturbed == Meddled \/ Overlapped

\* The map of free seats is right whatever happens, and no seat is given twice
\* unless an operator rebuilds during the sale or a dead letter overlaps with a
\* consumer that still commits.
SeatsAreSound ==
  /\ SeatTypeOK /\ RunsAreMaximal /\ CounterMatchesRuns
  /\ Disturbed \/ (NoSharedSeat /\ HoldsNeverConflict)

\* A process is past the deletion of the hold of order k and has not yet called
\* the release script.
Returning(k) == \E v \in Releasers : step[v] = "return" /\ job[v] = k

OnRecord(k) == k \in orderMarker \/ k \in owed \/ Returning(k)

\* Seats that have to come back are not forgotten.  An expired order keeps its outbox
\* row until its seats are back or a process is about to return them; the exception
\* is a release that ended after it had deleted the hold.  The release script rejects
\* a return only where the map was disturbed.  An intent that could not be persisted
\* stays in the stream until its refund or until its order is there after all.
SeatDebtIsRecorded ==
  /\ \A k \in Keys \ torn : status[k] = "expired" => OnRecord(k)
  /\ \A k \in Keys \ orderMarker :
       Returning(k) => Disturbed \/ ~Overlaps(seat[k], seat[k] + Qty[k])
  /\ \A k \in doomed \ deadMarker : k \in inflight \/ status[k] # "none"

(***************************************************************************)
(* The run structure implements the abstract seat map.                     *)
(***************************************************************************)
Map == INSTANCE SeatMap WITH
         free <- FreeSeats, place <- seat, back <- orderMarker \cup deadMarker

\* Until an operator rebuilds during the sale or a dead letter overlaps with a
\* consumer, every step takes one request's seats out of the free ones, gives them
\* back once, or changes nothing on the map.
ImplementsSeatMap ==
  Map!SeatMapInit /\ [][Disturbed' \/ Map!SeatMapNext]_(Map!seatMap)

=============================================================================

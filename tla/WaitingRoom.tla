---------------------------- MODULE WaitingRoom -----------------------------
(***************************************************************************)
(* The waiting room in front of the sale: a lottery draw whose order does  *)
(* not depend on arrival, admission at a fixed rate from the moment that   *)
(* registration closes, the breaker of QueueMonitor, the passes of         *)
(* AdmissionTokens, and the SSE streams that tell each waiter, woken by    *)
(* pokes over Pub/Sub, by the admission instant they computed, or by a     *)
(* heartbeat.                                                              *)
(*                                                                         *)
(* status() awaits five reads one after the other: the stock, the breaker, *)
(* the rank, the window and the number of users in the draw.  Between two  *)
(* of them everything else may happen.  A woken stream and a due timer are *)
(* served before the clock moves on (Tick): the event loop answers within  *)
(* a tick, and a tick may pass between the answer of status() and the      *)
(* computation of the stream's next timeout.  A poll may take any time.    *)
(***************************************************************************)
EXTENDS AdmissionTokens, QueueMonitor, FiniteSets

CONSTANTS
  Watchers,    \* users with a stream; the others poll
  Rate,        \* QUEUE_ADMISSION_RATE, per second
  Heartbeat,   \* _SSE_HEARTBEAT_SECONDS, in ticks
  Closings,    \* instants at which registration may be set to close
  MaxEdits,    \* bound on edits of the window
  MaxFaults    \* bound on crashes, failed calls and closed streams

ASSUME RoomAssumption ==
  /\ IsFiniteSet(Users) /\ Watchers \subseteq Users
  /\ Rate \in Nat \ {0} /\ Heartbeat \in Nat \ {0}
  /\ Closings \subseteq Nat /\ MaxEdits \in Nat /\ MaxFaults \in Nat

VARIABLES
  \* the draw and the window
  score,       \* user: its place in the lottery
  draw,        \* queue:{id}:draw
  joining,     \* users between the check of the window and the ZADD
  closes,      \* when registration closes, in Postgres
  meta,        \* the same, as the event meta cache says
  editing,     \* update_event_endpoint has to invalidate the cache
  edits,
  ran,         \* the monitor has started since the last tick
  \* Pub/Sub
  owing,       \* something changed and its poke has not arrived yet
  listening,   \* the subscriber is subscribed
  \* a user's stream or poll
  spc,         \* next step
  saw,         \* it read that nothing is left
  halted,      \* it read that the breaker is open
  ahead,       \* the users ahead in the draw when it read the rank, their number
  quota,       \* int(elapsed * RATE), 0 until it read the window
  \* a stream
  box,         \* its mailbox holds a poke
  frame,       \* the last state it sent
  wake,        \* when its timeout ends
  \* history
  late,        \* users that joined the draw after the first admission, or ahead of
               \* a user that was let in on a rank read before
  peak,        \* the largest admitted count that status() let a user in on
  unaware,     \* streams that a change was not announced to since their last read
  overdue,     \* stream: ticks that it slept while its user was admissible
  faults

window == <<closes, meta, editing, edits>>
lottery == <<score, draw, joining, late, peak>>
pubsub == <<owing, listening>>
seen == <<saw, halted, ahead, quota>>
sleep == <<spc, box, seen, frame, wake, overdue>>
streams == <<sleep, unaware>>
sale == <<now, avail, tokens>>
vars == <<sale, monitor, window, lottery, ran, pubsub, streams, faults>>

Fault == faults < MaxFaults /\ faults' = faults + 1

Smaller(a, b) == IF a < b THEN a ELSE b

\* int(elapsed * RATE).
Quota == IF now <= meta THEN 0 ELSE ((now - meta) * Rate) \div Tps

\* The users whose number ZRANK returns.
AheadOf(u) == {v \in draw : score[v] < score[u]}

\* admit_start + (rank + 1) / RATE, as the first tick that is not before it.  (A
\* window that moves between the two reads of admit_deadline is announced.)
AdmitDeadline(u) == meta + ((Cardinality(AheadOf(u)) + 1) * Tps + Rate - 1) \div Rate

\* Variant: the user at the edge of the count is let in.
LetsInAtEdge(rank, count) == rank <= count

\* Variant: ranks are taken to start at one.
LetsInFromOne(rank, count) == rank + 1 < count

LetsIn(rank, count) == rank < count

\* The admitted count: the quota, capped at the number registered.
AdmittedCount(q) == Smaller(q, Cardinality(draw))

\* What status() answers from what it has read.
QueueState(u) ==
  CASE saw[u] -> "soldout"
    [] ~saw[u] /\ halted[u] -> "paused"
    [] ~saw[u] /\ ~halted[u] /\ LetsIn(Cardinality(ahead[u]), AdmittedCount(quota[u]))
         -> "admitted"
    [] OTHER -> "wait"

\* What it would answer if it read everything at once.
Admissible(u) ==
  /\ avail > 0 /\ ~paused /\ u \in draw
  /\ LetsIn(Cardinality(AheadOf(u)), AdmittedCount(Quota))

Final == {"admitted", "soldout"}

Init ==
  /\ TokensInit /\ MonitorInit
  /\ score \in {f \in [Users -> 0 .. Cardinality(Users) - 1] :
                  \A u, v \in Users : f[u] = f[v] => u = v}
  /\ draw = {} /\ joining = {} /\ late = {} /\ peak = 0
  /\ closes \in Closings /\ meta = closes /\ editing = FALSE /\ edits = 0
  /\ ran = FALSE /\ owing = FALSE /\ listening = TRUE
  /\ spc = [u \in Users |-> "off"]
  /\ saw = [u \in Users |-> FALSE] /\ halted = [u \in Users |-> FALSE]
  /\ ahead = [u \in Users |-> {}] /\ quota = [u \in Users |-> 0]
  /\ box = [u \in Watchers |-> FALSE] /\ frame = [u \in Watchers |-> "none"]
  /\ wake = [u \in Watchers |-> 0] /\ overdue = [u \in Watchers |-> 0]
  /\ unaware = {} /\ faults = 0

-----------------------------------------------------------------------------
(***************************************************************************)
(* Time, the draw and the window.                                          *)
(***************************************************************************)
Due(u) == spc[u] = "sleep" /\ (box[u] \/ now >= wake[u])

\* The steps of status().
Reading == {"stock", "breaker", "rank", "window", "count"}

\* Streams that reach their next wait before the clock moves on.
Prompt(u) == ~Due(u) /\ spc[u] \notin Reading \cup {"slow"}

Tick ==
  /\ now < MaxClock /\ \A u \in Watchers : Prompt(u)
  /\ now' = now + 1 /\ ran' = FALSE
  /\ spc' = [u \in Users |-> IF spc[u] = "plan" THEN "slow" ELSE spc[u]]
  /\ overdue' = [u \in Watchers |->
                   IF spc[u] = "sleep" /\ Admissible(u) THEN overdue[u] + 1 ELSE 0]
  /\ UNCHANGED <<avail, tokens, monitor, window, lottery, pubsub, box, seen, frame, wake,
                 unaware, faults>>

\* join_queue finds the registration window open in Postgres.
JoinQueue(u) ==
  /\ u \notin draw \cup joining /\ now < closes
  /\ joining' = joining \cup {u}
  /\ UNCHANGED <<sale, monitor, window, score, draw, late, peak, ran, pubsub, streams,
                 faults>>

Listeners == {u \in Watchers : spc[u] # "off"}

\* ZADD NX under the score that the salt fixes.  A user's own registration is
\* announced to nobody, nor is one that lands late and shifts the ranks.
Register(u) ==
  /\ u \in joining
  /\ joining' = joining \ {u}
  /\ draw' = draw \cup {u}
  /\ late' = IF peak > 0 THEN late \cup {u} ELSE late
  /\ unaware' = unaware \cup (IF now < meta THEN {u} \cap Listeners ELSE Listeners)
  /\ UNCHANGED <<sale, monitor, window, score, peak, ran, pubsub, sleep, faults>>

\* An administrator moves the window; the commit of update_event_endpoint.
EditWindow(c) ==
  /\ ~editing /\ edits < MaxEdits /\ c # closes
  /\ closes' = c /\ editing' = TRUE /\ edits' = edits + 1
  /\ UNCHANGED <<sale, monitor, meta, lottery, ran, pubsub, streams, faults>>

\* invalidate_event_meta; the next reader loads the new window (EventCache).
InvalidateMeta ==
  /\ editing /\ editing' = FALSE
  /\ meta' = closes /\ owing' = TRUE
  /\ UNCHANGED <<sale, monitor, closes, edits, lottery, ran, listening, streams,
                 faults>>

\* The request dies after its commit.
EditDies ==
  /\ editing /\ Fault /\ editing' = FALSE
  /\ UNCHANGED <<sale, monitor, closes, meta, edits, lottery, ran, pubsub, streams>>

\* The TTL of the cached meta ends; nobody is told.
MetaExpires ==
  /\ meta # closes /\ meta' = closes
  /\ unaware' = unaware \cup Listeners
  /\ UNCHANGED <<sale, monitor, closes, editing, edits, lottery, ran, pubsub, sleep, faults>>

-----------------------------------------------------------------------------
(***************************************************************************)
(* The monitor, once per tick at most; the end of a run is announced, the  *)
(* end of the key's lifetime is not.                                       *)
(***************************************************************************)
MonitorStep ==
  \/ /\ DeadLetter \/ Drain
     /\ UNCHANGED <<ran, owing, unaware, faults>>
  \/ Jam /\ Fault /\ UNCHANGED <<ran, owing, unaware>>
  \/ /\ CollectQueueStats
     /\ ~ran \/ now = MaxClock
     /\ ran' = TRUE /\ UNCHANGED <<owing, unaware, faults>>
  \/ SetAdmissionPaused /\ owing' = TRUE /\ UNCHANGED <<ran, unaware, faults>>
  \/ /\ RunMissed /\ Fault
     /\ unaware' = IF paused # paused' THEN unaware \cup Listeners ELSE unaware
     /\ UNCHANGED <<ran, owing>>

MonitorRuns == MonitorStep /\ UNCHANGED <<sale, window, lottery, listening, sleep>>

-----------------------------------------------------------------------------
(***************************************************************************)
(* Pokes.                                                                  *)
(***************************************************************************)
\* Variant: only streams that wait are woken.
PublishToSleepers ==
  /\ owing /\ owing' = FALSE
  /\ IF listening
       THEN box' = [u \in Watchers |-> box[u] \/ spc[u] = "sleep"] /\ UNCHANGED unaware
       ELSE unaware' = unaware \cup Listeners /\ UNCHANGED box
  /\ UNCHANGED <<sale, monitor, window, lottery, ran, listening, spc, seen, frame, wake,
                 overdue, faults>>

\* The subscriber puts the poke into every mailbox; a full one holds one already.
Publish ==
  /\ owing /\ owing' = FALSE
  /\ IF listening
       THEN box' = [u \in Watchers |-> box[u] \/ u \in Listeners] /\ UNCHANGED unaware
       ELSE unaware' = unaware \cup Listeners /\ UNCHANGED box
  /\ UNCHANGED <<sale, monitor, window, lottery, ran, listening, spc, seen, frame, wake,
                 overdue, faults>>

\* PUBLISH raises, or the subscriber breaks with the poke in its buffer.
PublishFails ==
  /\ owing /\ Fault /\ owing' = FALSE
  /\ unaware' = unaware \cup Listeners
  /\ listening' \in {listening, FALSE}
  /\ UNCHANGED <<sale, monitor, window, lottery, ran, sleep>>

Resubscribe ==
  /\ ~listening /\ listening' = TRUE
  /\ UNCHANGED <<sale, monitor, window, lottery, ran, owing, streams, faults>>

-----------------------------------------------------------------------------
(***************************************************************************)
(* Streams and polls.                                                      *)
(***************************************************************************)
Goes(u, pc) == spc' = [spc EXCEPT ![u] = pc]

\* The first read of status().  The mailbox of a stream is registered before it.
OpenStream(u) ==
  /\ spc[u] = "off" /\ frame[u] \notin Final
  /\ Goes(u, "stock")
  /\ UNCHANGED <<sale, monitor, window, lottery, ran, pubsub, box, seen, frame, wake,
                 unaware, overdue, faults>>

\* queue_status_endpoint.
PollStatus(u) ==
  /\ spc[u] = "off" /\ exp[u] = 0
  /\ Goes(u, "stock")
  /\ UNCHANGED <<sale, monitor, window, lottery, ran, pubsub, box, seen, frame, wake,
                 unaware, overdue, faults>>

ReadStock(u) ==
  /\ spc[u] = "stock"
  /\ saw' = [saw EXCEPT ![u] = (avail = 0)]
  /\ unaware' = unaware \ {u}
  /\ Goes(u, "breaker")
  /\ UNCHANGED <<sale, monitor, window, lottery, ran, pubsub, box, halted, ahead, quota,
                 frame, wake, overdue, faults>>

ReadBreaker(u) ==
  /\ spc[u] = "breaker"
  /\ halted' = [halted EXCEPT ![u] = paused]
  /\ Goes(u, "rank")
  /\ UNCHANGED <<sale, monitor, window, lottery, ran, pubsub, box, saw, ahead, quota,
                 frame, wake, unaware, overdue, faults>>

\* ZRANK; without a place in the draw, or without stock, the count does not matter.
ReadRank(u) ==
  /\ spc[u] = "rank"
  /\ ahead' = [ahead EXCEPT ![u] = AheadOf(u)]
  /\ Goes(u, IF u \in draw /\ ~saw[u] THEN "window" ELSE "count")
  /\ UNCHANGED <<sale, monitor, window, lottery, ran, pubsub, box, saw, halted, quota,
                 frame, wake, unaware, overdue, faults>>

\* get_event_meta, and the clock.
ReadWindow(u) ==
  /\ spc[u] = "window"
  /\ quota' = [quota EXCEPT ![u] = Quota]
  /\ Goes(u, "count")
  /\ UNCHANGED <<sale, monitor, window, lottery, ran, pubsub, box, saw, halted, ahead,
                 frame, wake, unaware, overdue, faults>>

\* ZCARD and the answer (_queue_response): an admitted user gets a pass.
Answer(u) ==
  LET state == QueueState(u)
      count == AdmittedCount(quota[u])
  IN /\ spc[u] = "count"
     /\ exp' = IF state = "admitted" /\ exp[u] = 0 THEN [exp EXCEPT ![u] = Expiry] ELSE exp
     /\ peak' = IF state = "admitted" /\ count > peak THEN count ELSE peak
     /\ late' = IF state = "admitted" THEN late \cup (AheadOf(u) \ ahead[u]) ELSE late
     /\ saw' = [saw EXCEPT ![u] = FALSE] /\ halted' = [halted EXCEPT ![u] = FALSE]
     /\ ahead' = [ahead EXCEPT ![u] = {}] /\ quota' = [quota EXCEPT ![u] = 0]
     /\ UNCHANGED <<now, avail, marker, accepted, requests, monitor, window, score, draw,
                    joining, ran, pubsub, wake, unaware, overdue, faults>>

PollAnswers(u) == Answer(u) /\ Goes(u, "off") /\ UNCHANGED <<box, frame>>

\* The stream closes after a final frame.
SendFrame(u) ==
  LET state == QueueState(u)
  IN /\ Answer(u)
     /\ frame' = [frame EXCEPT ![u] = state]
     /\ Goes(u, IF state \in Final THEN "off" ELSE "plan")
     /\ box' = [box EXCEPT ![u] = @ /\ state \notin Final]

\* Variant: without a deadline ahead only a poke wakes the stream.
PlanNoHeartbeat(u) ==
  LET soon == u \in draw /\ AdmitDeadline(u) > now
  IN /\ spc[u] \in {"plan", "slow"}
     /\ wake' = [wake EXCEPT ![u] = IF soon THEN AdmitDeadline(u) ELSE MaxClock + 1]
     /\ Goes(u, "sleep")
     /\ UNCHANGED <<sale, monitor, window, lottery, ran, pubsub, box, seen, frame, unaware,
                    overdue, faults>>

\* The timeout until the next wake; only a deadline still ahead shortens it.
PlanWait(u) ==
  LET soon == u \in draw /\ AdmitDeadline(u) > now
  IN /\ spc[u] \in {"plan", "slow"}
     /\ wake' = [wake EXCEPT ![u] = IF soon THEN Smaller(now + Heartbeat, AdmitDeadline(u))
                                    ELSE now + Heartbeat]
     /\ Goes(u, "sleep")
     /\ UNCHANGED <<sale, monitor, window, lottery, ran, pubsub, box, seen, frame, unaware,
                    overdue, faults>>

Leaves(u, pc) ==
  /\ Goes(u, pc)
  /\ box' = [box EXCEPT ![u] = FALSE]
  /\ wake' = [wake EXCEPT ![u] = 0]
  /\ overdue' = [overdue EXCEPT ![u] = 0]
  /\ UNCHANGED <<sale, monitor, window, lottery, ran, pubsub, seen, frame, unaware>>

WakeUp(u) ==
  /\ Due(u) \/ (spc[u] = "sleep" /\ now = MaxClock)
  /\ Leaves(u, "stock")
  /\ UNCHANGED faults

\* _SSE_MAX_SECONDS are over, or the client has gone.
CloseStream(u) == spc[u] \in {"plan", "slow", "sleep"} /\ Fault /\ Leaves(u, "off")

-----------------------------------------------------------------------------
\* Taking the last seat, or giving one back to an empty sale, is announced.
Announce ==
  /\ owing' = (owing \/ (avail # avail' /\ 0 \in {avail, avail'}))
  /\ UNCHANGED <<monitor, window, lottery, ran, listening, streams>>

RequestStep(r) ==
  \/ /\ \/ \E u \in Users : VerifyAdmission(r, u)
        \/ SubmitOrder(r)
        \/ SubmitRefused(r)
        \/ RefundAdmission(r)
     /\ UNCHANGED faults
  \/ SubmitDies(r) /\ Fault
  \/ RefundFails(r) /\ Fault

StatusStep(u) == ReadStock(u) \/ ReadBreaker(u) \/ ReadRank(u) \/ ReadWindow(u)

StreamStep(u) == StatusStep(u) \/ SendFrame(u) \/ PlanWait(u) \/ WakeUp(u)

Next ==
  \/ Tick
  \/ \E u \in Users : JoinQueue(u) \/ Register(u)
  \/ \E u \in Users \ Watchers : PollStatus(u) \/ StatusStep(u) \/ PollAnswers(u)
  \/ \E c \in Closings : EditWindow(c)
  \/ InvalidateMeta \/ EditDies \/ MetaExpires
  \/ MonitorRuns
  \/ Publish \/ PublishFails  \/ Resubscribe
  \/ \E u \in Watchers : OpenStream(u) \/ StreamStep(u) \/ CloseStream(u)
  \/ (\E r \in Requests : RequestStep(r)) /\ Announce
  \/ Restock /\ Announce /\ UNCHANGED faults

Spec == Init /\ [][Next]_vars

(***************************************************************************)
(* Fairness: the clock runs on; a request or stream that has a next step   *)
(* takes it; the cron runs again after missed runs, the backlog drains,    *)
(* the subscriber retries and the cached meta expires; the browser         *)
(* reconnects.  Nobody has to join, to order or to edit.                   *)
(***************************************************************************)
FairSpec ==
  /\ Spec
  /\ WF_vars(Tick) /\ WF_vars(Resubscribe) /\ WF_vars(MetaExpires)
  /\ WF_vars(InvalidateMeta) /\ WF_vars(Publish)
  /\ WF_vars(MonitorRuns /\ CollectQueueStats) /\ WF_vars(MonitorRuns /\ SetAdmissionPaused)
  /\ WF_vars(MonitorRuns /\ Drain)
  /\ \A u \in Watchers :
       WF_vars(Register(u)) /\ WF_vars(OpenStream(u)) /\ WF_vars(StreamStep(u))

-----------------------------------------------------------------------------
\* "the pass is consumed <=> an order intent was accepted" (create_endpoint),
\* once no request holds the pass and as long as nothing crashed.
ConsumedMeansAccepted ==
  faults = 0 => \A u \in Users :
    Used(u) /\ (\A r \in Requests : ruser[r] # u) => accepted[u] > 0

\* Admission keeps its pace: whatever the ranks do while registrations land
\* after the close, between two reads of status() or while the window is moved,
\* no more users are let in than the rate has ever allowed, apart from those who
\* registered late or ahead of one who was let in on an older rank.
PaceIsKept == Cardinality({u \in Users : exp[u] > 0}) <= peak + Cardinality(late)

\* No poke is missed: a stream that sleeps on an empty mailbox, with no poke on
\* its way and none lost since its last read, showed the breaker and the stock
\* as they are, and does not sleep past the instant at which it is admitted.
NoMissedPoke ==
  ~owing /\ ~editing =>
    \A u \in Watchers \ unaware :
      spc[u] = "sleep" /\ ~box[u] =>
        /\ avail > 0 /\ (frame[u] = "paused") = paused
        /\ u \in draw /\ now < AdmitDeadline(u) => wake[u] <= AdmitDeadline(u)

\* Losing pokes only costs time: nobody who could be admitted is left asleep
\* for more than a heartbeat.
AdmissionIsTimely == \A u \in Watchers : overdue[u] <= Heartbeat

\* A stream sleeps only on what is still true, and never for long on what is not.
StreamsAreSound == NoMissedPoke /\ AdmissionIsTimely

\* A pass and the order it bought go together.
PassMatchesOrder == UsedPassIsRefused /\ ConsumedMeansAccepted

\* Whoever is registered learns that he is admitted or that nothing is left.
WaitersAreTold == \A u \in Watchers : u \in draw ~> frame[u] \in Final

=============================================================================

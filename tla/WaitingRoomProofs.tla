------------------------- MODULE WaitingRoomProofs --------------------------
(***************************************************************************)
(* For every set of users, streams and requests, every rate, heartbeat and *)
(* lifetime of a pass, and every number of edits and failures: admission   *)
(* keeps its pace, a stream sleeps only on what is still true, a pass buys *)
(* one order, and the breaker judges only what is new.                     *)
(***************************************************************************)
EXTENDS WaitingRoom, FiniteSetTheorems, TLAPS

-----------------------------------------------------------------------------
(* Types.                                                                  *)

TokenTypes ==
  /\ now \in 0 .. MaxClock /\ avail \in 0 .. MaxStock
  /\ exp \in [Users -> Nat] /\ marker \in [Users -> Nat] /\ accepted \in [Users -> Nat]
  /\ rpc \in [Requests -> {"idle", "submit", "refund"}]
  /\ ruser \in [Requests -> Users \cup {None}]
  /\ \A r \in Requests : rpc[r] = "idle" <=> ruser[r] = None

MonitorTypes ==
  /\ jammed \in BOOLEAN /\ dead \in 0 .. MaxDead /\ aligned \in BOOLEAN /\ cursor \in Nat
  /\ paused \in BOOLEAN /\ missed \in 0 .. 2 /\ mpc \in {"idle", "set"} /\ sick \in BOOLEAN
  /\ recent \in Nat /\ basis \in Nat \X BOOLEAN

DrawTypes ==
  /\ score \in [Users -> Nat] /\ \A u, v \in Users : score[u] = score[v] => u = v
  /\ draw \subseteq Users /\ joining \subseteq Users /\ draw \cap joining = {}
  /\ late \subseteq draw /\ peak \in Nat
  /\ closes \in Nat /\ meta \in Nat /\ editing \in BOOLEAN /\ edits \in 0 .. MaxEdits
  /\ ran \in BOOLEAN

Steps ==
  {"off", "stock", "breaker", "rank", "window", "count", "plan", "slow", "sleep"}

StreamTypes ==
  /\ owing \in BOOLEAN /\ listening \in BOOLEAN
  /\ spc \in [Users -> Steps]
  /\ saw \in [Users -> BOOLEAN] /\ halted \in [Users -> BOOLEAN]
  /\ ahead \in [Users -> SUBSET Users] /\ quota \in [Users -> Nat]
  /\ box \in [Watchers -> BOOLEAN]
  /\ frame \in [Watchers -> {"none", "soldout", "paused", "admitted", "wait"}]
  /\ wake \in [Watchers -> Nat] /\ overdue \in [Watchers -> Nat]
  /\ unaware \subseteq Watchers

RoomTypeOK ==
  TokenTypes /\ MonitorTypes /\ DrawTypes /\ StreamTypes /\ faults \in 0 .. MaxFaults

-----------------------------------------------------------------------------
(* The inductive invariants.                                               *)

\* Once the cursor exists, what lies behind it is what came since the last count.
CursorInv ==
  /\ aligned => dead - cursor = recent
  /\ BreakerIsFresh

\* Until the last second of a pass, at most one request holds it, nobody holds it
\* once it has bought something, and its key outlives that second.
PassInv(u) ==
  /\ exp[u] = 0 => /\ accepted[u] = 0 /\ marker[u] = 0
                   /\ \A r \in Requests : ruser[r] # u
  /\ now + Tps <= exp[u] =>
       /\ \A q, r \in Requests : ruser[q] = u /\ ruser[r] = u => q = r
       /\ \A r \in Requests : ruser[r] = u => accepted[u] = 0
       /\ accepted[u] > 0 => marker[u] + Tps > exp[u]
       /\ \A r \in Requests : ruser[r] = u => marker[u] + Tps > exp[u]

\* ZRANK.
Rank(u) == Cardinality(AheadOf(u))

\* Only for a user in the draw does status() read the window.
ReadInv(u) == spc[u] = "window" \/ quota[u] > 0 => u \in draw

\* The users in front of u that registered in time.
InFront(u) == {v \in draw \ late : score[v] < score[u]}

\* Whoever has a pass and registered in time is within the count that was used.
PaceInv ==
  \A u \in Users : exp[u] > 0 /\ u \notin late =>
    u \in draw /\ Cardinality(InFront(u)) < peak

\* A stream that sleeps is not past its timeout, and what it is overdue counts
\* against the heartbeat that is left.
SleepInv(u) ==
  /\ spc[u] = "sleep" => now <= wake[u] /\ overdue[u] + wake[u] <= now + Heartbeat
  /\ spc[u] # "sleep" => overdue[u] = 0

\* What a stream knows at every step between its read and its sleep.
AwareInv(u) ==
  ~owing /\ u \notin unaware /\ ~box[u] =>
    /\ spc[u] \in {"breaker", "rank", "window", "count"} => saw[u] = (avail = 0)
    /\ spc[u] \in {"rank", "window", "count"} => halted[u] = paused
    /\ spc[u] \in {"plan", "slow", "sleep"} => avail > 0 /\ (frame[u] = "paused") = paused
    /\ spc[u] = "sleep" /\ u \in draw /\ now < AdmitDeadline(u) => wake[u] <= AdmitDeadline(u)

RoomInv ==
  /\ RoomTypeOK /\ CursorInv /\ PaceInv /\ ConsumedMeansAccepted
  /\ \A u \in Users : PassInv(u) /\ ReadInv(u)
  /\ \A u \in Watchers : SleepInv(u) /\ AwareInv(u)

-----------------------------------------------------------------------------
(* Division, ranks and deadlines.                                          *)

\* Whole division by a positive number.
LEMMA DivFacts ==
  ASSUME NEW a \in Nat, NEW d \in Nat \ {0}
  PROVE  a \div d \in Nat /\ d * (a \div d) <= a /\ a < d * (a \div d) + d
OBVIOUS

LEMMA DivMonotone ==
  ASSUME NEW a \in Nat, NEW b \in Nat, NEW d \in Nat \ {0}, a <= b
  PROVE  a \div d <= b \div d
<1> DEFINE x == a \div d
           y == b \div d
<1>1. x \in Nat /\ d * x <= a
  BY DivFacts
<1>2. y \in Nat /\ b < d * y + d
  BY DivFacts
<1> HIDE DEF x, y
<1>3. SUFFICES ASSUME y < x PROVE FALSE
  BY <1>1, <1>2 DEF x, y
<1>4. y + 1 <= x
  BY <1>1, <1>2, <1>3
<1>5. d * (y + 1) <= d * x
  <2>1. PICK e \in Nat : x = (y + 1) + e
    BY <1>1, <1>2, <1>4
  <2>2. d * x = d * (y + 1) + d * e /\ d * e \in Nat /\ d * (y + 1) \in Nat
    BY <1>2, <2>1
  <2> QED
    BY <2>2
<1>6. d * (y + 1) = d * y + d /\ d * y \in Nat /\ d * x \in Nat
  BY <1>1, <1>2
<1> QED
  BY <1>1, <1>2, <1>5, <1>6

\* A rank is a number, and grows with the draw.
LEMMA RankFacts ==
  ASSUME DrawTypes, NEW u \in Users
  PROVE  /\ Rank(u) \in Nat /\ IsFiniteSet(draw) /\ Cardinality(draw) \in Nat
         /\ IsFiniteSet(InFront(u)) /\ Cardinality(InFront(u)) \in Nat
         /\ Cardinality(InFront(u)) <= Rank(u)
<1>1. IsFiniteSet(draw) /\ Cardinality(draw) \in Nat
  BY RoomAssumption, FS_Subset, FS_CardinalityType DEF DrawTypes
<1> DEFINE B == {v \in draw : score[v] < score[u]}
<1>2. B \in SUBSET draw /\ InFront(u) \in SUBSET B
  BY DEF InFront
<1> HIDE DEF B
<1>3. IsFiniteSet(B) /\ Cardinality(B) \in Nat
  BY <1>1, <1>2, FS_Subset, FS_CardinalityType
<1>4. /\ IsFiniteSet(InFront(u)) /\ Cardinality(InFront(u)) \in Nat
      /\ Cardinality(InFront(u)) <= Cardinality(B)
  BY <1>2, <1>3, FS_Subset, FS_CardinalityType
<1> QED
  BY <1>1, <1>3, <1>4 DEF B, Rank, AheadOf

\* The deadline that a stream computes, for a rank k.
DeadlineAt(k) == ((k + 1) * Tps + Rate - 1) \div Rate

LEMMA DeadlineFacts ==
  ASSUME NEW k \in Nat, NEW l \in Nat, k <= l
  PROVE  DeadlineAt(k) \in Nat /\ DeadlineAt(l) \in Nat /\ DeadlineAt(k) <= DeadlineAt(l)
<1>1. Tps \in Nat /\ Rate \in Nat /\ Rate > 0 /\ Rate \in Nat \ {0}
  BY TokenAssumption, RoomAssumption
<1>2. (k + 1) * Tps \in Nat /\ (l + 1) * Tps \in Nat
  BY <1>1
<1>3. (k + 1) * Tps <= (l + 1) * Tps
  <2>1. PICK e \in Nat : l = k + e
    BY DEF DeadlineAt
  <2>2. (l + 1) * Tps = (k + 1) * Tps + e * Tps /\ e * Tps \in Nat
    BY <1>1, <2>1
  <2> QED
    BY <1>2, <2>2
<1> DEFINE a == (k + 1) * Tps + Rate - 1
           b == (l + 1) * Tps + Rate - 1
<1>4. a \in Nat /\ b \in Nat /\ a <= b
  BY <1>1, <1>2, <1>3
<1> HIDE DEF a, b
<1>5. a \div Rate \in Nat /\ b \div Rate \in Nat /\ a \div Rate <= b \div Rate
  BY <1>1, <1>4, DivFacts, DivMonotone
<1> QED
  BY <1>5 DEF DeadlineAt, a, b

\* The deadline is not before the close of the registration.
LEMMA AdmitDeadlineFacts ==
  ASSUME DrawTypes, NEW u \in Users
  PROVE  AdmitDeadline(u) = meta + DeadlineAt(Rank(u)) /\ AdmitDeadline(u) \in Nat
         /\ meta <= AdmitDeadline(u)
<1>1. Rank(u) \in Nat /\ meta \in Nat
  BY RankFacts DEF DrawTypes
<1>2. DeadlineAt(Rank(u)) \in Nat
  BY <1>1, DeadlineFacts
<1>3. AdmitDeadline(u) = meta + DeadlineAt(Rank(u))
  BY DEF AdmitDeadline, DeadlineAt, Rank
<1> QED
  BY <1>1, <1>2, <1>3

\* What the rate allows is a number, and so is the count.
LEMMA QuotaFacts ==
  ASSUME DrawTypes, now \in Nat
  PROVE  Quota \in Nat /\ \A q \in Nat : AdmittedCount(q) \in Nat /\ AdmittedCount(q) <= q
<1>1. meta \in Nat /\ Rate \in Nat /\ Tps \in Nat \ {0}
  BY TokenAssumption, RoomAssumption DEF DrawTypes
<1>2. ASSUME now <= meta PROVE Quota \in Nat
  BY <1>2 DEF Quota
<1>3. ASSUME ~(now <= meta) PROVE Quota \in Nat
  <2>1. now - meta \in Nat
    BY <1>1, <1>3
  <2>2. (now - meta) * Rate \in Nat
    BY <1>1, <2>1
  <2>3. ((now - meta) * Rate) \div Tps \in Nat
    BY <1>1, <2>2, DivFacts
  <2> QED
    BY <1>3, <2>3 DEF Quota
<1>4. Cardinality(draw) \in Nat
  BY RoomAssumption, FS_Subset, FS_CardinalityType DEF DrawTypes
<1>5. \A q \in Nat : AdmittedCount(q) \in Nat /\ AdmittedCount(q) <= q
  BY <1>4 DEF AdmittedCount, Smaller
<1>6. Quota \in Nat
  BY <1>2, <1>3 DEF Quota
<1> QED
  BY <1>5, <1>6

\* A pass does not expire at once.
LEMMA ExpiryFacts ==
  ASSUME now \in Nat
  PROVE  Expiry \in Nat /\ Expiry > 0
<1>1. Tps \in Nat \ {0} /\ TokenTTL \in Nat \ {0}
  BY TokenAssumption
<1>2. Tps * TokenTTL \in Nat /\ Tps <= Tps * TokenTTL
  <2>1. PICK e \in Nat : TokenTTL = 1 + e
    BY <1>1
  <2>2. Tps * TokenTTL = Tps + Tps * e /\ Tps * e \in Nat
    BY <1>1, <2>1
  <2> QED
    BY <1>1, <2>2
<1> DEFINE a == now + Tps * TokenTTL
           x == a \div Tps
<1>3. a \in Nat /\ Tps <= a
  BY <1>1, <1>2
<1> HIDE DEF a
<1>4. x \in Nat /\ a < Tps * x + Tps
  BY <1>1, <1>3, DivFacts
<1> HIDE DEF x
<1>5. Tps * x \in Nat
  BY <1>1, <1>4
<1>6. Tps * x > 0
  BY <1>1, <1>3, <1>4, <1>5
<1> QED
  BY <1>5, <1>6 DEF Expiry, Seconds, x, a

\* Until its last second, the key of a pass outlives that second.
LEMMA MarkerFacts ==
  ASSUME NEW u \in Users, now \in Nat, exp[u] \in Nat, now < exp[u]
  PROVE  /\ MarkerTTL(u) \in Nat
         /\ now + Tps <= exp[u] => now + MarkerTTL(u) + Tps > exp[u]
<1>1. Tps \in Nat \ {0}
  BY TokenAssumption
<1> DEFINE a == exp[u] - now
           x == a \div Tps
<1>2. a \in Nat
  OBVIOUS
<1>3. x \in Nat /\ a < Tps * x + Tps
  <2> HIDE DEF a
  <2> QED BY <1>1, <1>2, DivFacts
<1>4. MarkerTTL(u) = Tps * (IF x = 0 THEN 1 ELSE x)
  BY DEF MarkerTTL, Seconds
<1>5. Tps * x \in Nat /\ (x = 0 => Tps * x = 0)
  <2> HIDE DEF x
  <2> QED BY <1>1, <1>3
<1> HIDE DEF x
<1>6. CASE x = 0
  BY <1>1, <1>3, <1>4, <1>5, <1>6
<1>7. CASE x # 0
  BY <1>1, <1>3, <1>4, <1>5, <1>7
<1> QED
  BY <1>6, <1>7

-----------------------------------------------------------------------------
(* Types are kept.                                                         *)

LEMMA RoomTypeInit == Init => RoomTypeOK
<1> SUFFICES ASSUME Init PROVE RoomTypeOK
  OBVIOUS
<1>1. TokenTypes
  BY TokenAssumption DEF Init, TokensInit, TokenTypes
<1>2. MonitorTypes
  <2>1. dead \in 0 .. MaxDead /\ cursor \in Nat /\ missed \in 0 .. 2 /\ recent \in Nat
    BY MonitorAssumption DEF Init, MonitorInit
  <2>2. basis \in Nat \X BOOLEAN /\ mpc \in {"idle", "set"}
    BY DEF Init, MonitorInit
  <2>3. /\ jammed \in BOOLEAN /\ aligned \in BOOLEAN /\ paused \in BOOLEAN
        /\ sick \in BOOLEAN
    BY Zenon DEF Init, MonitorInit
  <2> QED
    BY <2>1, <2>2, <2>3 DEF MonitorTypes
<1>3. DrawTypes
  <2>1. \A i \in 0 .. Cardinality(Users) - 1 : i \in Nat
    BY RoomAssumption, FS_CardinalityType
  <2>2. score \in [Users -> Nat] /\ \A u, v \in Users : score[u] = score[v] => u = v
    BY <2>1 DEF Init
  <2>3. closes \in Nat /\ meta \in Nat /\ edits \in 0 .. MaxEdits /\ peak \in Nat
    BY RoomAssumption DEF Init
  <2>4. editing \in BOOLEAN /\ ran \in BOOLEAN
    BY Zenon DEF Init
  <2> QED
    BY <2>2, <2>3, <2>4 DEF Init, DrawTypes
<1>4. StreamTypes
  BY DEF Init, StreamTypes, Steps
<1> QED
  BY <1>1, <1>2, <1>3, <1>4, RoomAssumption DEF Init, RoomTypeOK

\* Steps leave the parts alone that they do not name.
LEMMA SameTokens == TokenTypes /\ UNCHANGED sale => TokenTypes'
BY DEF TokenTypes, sale, tokens, requests

LEMMA SameMonitor == MonitorTypes /\ UNCHANGED monitor => MonitorTypes'
BY DEF MonitorTypes, monitor, queues, run

LEMMA SameDraw == DrawTypes /\ UNCHANGED <<window, lottery, ran>> => DrawTypes'
BY DEF DrawTypes, window, lottery

LEMMA SameStreams == StreamTypes /\ UNCHANGED <<pubsub, streams>> => StreamTypes'
BY DEF StreamTypes, pubsub, streams, sleep, seen

\* Opening a stream or a poll and its reads touch nothing but what it has read.
LEMMA ReadingLeaves ==
  ASSUME NEW u, OpenStream(u) \/ PollStatus(u) \/ StatusStep(u)
  PROVE  UNCHANGED <<sale, monitor, window, lottery, ran, pubsub, box, frame, wake, overdue,
                     faults>>
BY DEF OpenStream, PollStatus, StatusStep, ReadStock, ReadBreaker, ReadRank, ReadWindow

LEMMA ReadingTypes ==
  ASSUME RoomTypeOK, NEW u \in Users, OpenStream(u) \/ PollStatus(u) \/ StatusStep(u)
  PROVE  StreamTypes'
<1>t. /\ StreamTypes /\ DrawTypes /\ now \in Nat /\ paused \in BOOLEAN
      /\ UNCHANGED <<pubsub, box, frame, wake, overdue>>
  BY ReadingLeaves DEF RoomTypeOK, TokenTypes, MonitorTypes
<1>1. /\ spc' \in [Users -> Steps]
      /\ unaware' \subseteq Watchers
  BY <1>t
  DEF OpenStream, PollStatus, StatusStep, ReadStock, ReadBreaker, ReadRank, ReadWindow, Goes,
      StreamTypes, Steps
<1>2. saw' \in [Users -> BOOLEAN] /\ halted' \in [Users -> BOOLEAN]
  BY <1>t
  DEF OpenStream, PollStatus, StatusStep, ReadStock, ReadBreaker, ReadRank, ReadWindow, seen,
      StreamTypes
<1>3. ahead' \in [Users -> SUBSET Users]
  <2>1. AheadOf(u) \in SUBSET Users
    BY <1>t DEF AheadOf, DrawTypes
  <2> QED
    BY <1>t, <2>1
    DEF OpenStream, PollStatus, StatusStep, ReadStock, ReadBreaker, ReadRank, ReadWindow, seen,
        StreamTypes
<1>4. quota' \in [Users -> Nat]
  <2>1. Quota \in Nat
    BY <1>t, QuotaFacts
  <2> QED
    BY <1>t, <2>1
    DEF OpenStream, PollStatus, StatusStep, ReadStock, ReadBreaker, ReadRank, ReadWindow, seen,
        StreamTypes
<1> QED
  BY <1>t, <1>1, <1>2, <1>3, <1>4 DEF StreamTypes, pubsub

\* An answer of the waiting room may issue a pass.
LEMMA AnswerTypes ==
  ASSUME RoomTypeOK, NEW u \in Users, Answer(u)
  PROVE  /\ TokenTypes' /\ MonitorTypes' /\ DrawTypes' /\ faults' = faults
         /\ AdmittedCount(quota[u]) \in Nat /\ Expiry \in Nat /\ Expiry > 0
         /\ peak' \in Nat /\ peak <= peak'
         /\ QueueState(u) = "admitted" => AdmittedCount(quota[u]) <= peak'
         /\ saw' \in [Users -> BOOLEAN] /\ halted' \in [Users -> BOOLEAN]
         /\ ahead' \in [Users -> SUBSET Users] /\ quota' \in [Users -> Nat]
<1>1. /\ now \in Nat /\ TokenTypes /\ MonitorTypes /\ DrawTypes /\ StreamTypes /\ peak \in Nat
  BY TokenAssumption DEF RoomTypeOK, TokenTypes, DrawTypes
<1>2. AdmittedCount(quota[u]) \in Nat /\ Expiry \in Nat /\ Expiry > 0
  BY <1>1, QuotaFacts, ExpiryFacts DEF StreamTypes
<1>3. /\ peak' \in Nat /\ peak <= peak'
      /\ QueueState(u) = "admitted" => AdmittedCount(quota[u]) <= peak'
  BY <1>1, <1>2 DEF Answer
<1>4. exp' \in [Users -> Nat]
  BY <1>1, <1>2 DEF Answer, TokenTypes
<1>5. TokenTypes'
  BY <1>1, <1>4 DEF Answer, TokenTypes, requests
<1>6. MonitorTypes'
  BY <1>1, SameMonitor DEF Answer
<1>7. DrawTypes'
  <2>1. late' \subseteq draw /\ draw' = draw
    BY <1>1 DEF Answer, AheadOf, DrawTypes
  <2> QED
    BY <1>1, <1>3, <2>1 DEF Answer, DrawTypes, window
<1>8. /\ saw' \in [Users -> BOOLEAN] /\ halted' \in [Users -> BOOLEAN]
      /\ ahead' \in [Users -> SUBSET Users] /\ quota' \in [Users -> Nat]
  BY <1>1 DEF Answer, StreamTypes
<1> QED
  BY <1>2, <1>3, <1>5, <1>6, <1>7, <1>8 DEF Answer

\* The state that status() answers.
LEMMA QueueStateType ==
  ASSUME NEW u, saw[u] \in BOOLEAN, halted[u] \in BOOLEAN
  PROVE  /\ QueueState(u) \in {"soldout", "paused", "admitted", "wait"}
         /\ QueueState(u) \notin Final => ~saw[u]
         /\ ~saw[u] => (QueueState(u) = "paused") = halted[u]
         /\ QueueState(u) = "admitted" => Cardinality(ahead[u]) < AdmittedCount(quota[u])
BY DEF QueueState, Final, LetsIn

\* The steps of a request with a pass.
LEMMA RequestTypes ==
  ASSUME RoomTypeOK, NEW r \in Requests, RequestStep(r)
  PROVE  TokenTypes' /\ faults' \in 0 .. MaxFaults
<1>t. TokenTypes /\ now \in Nat /\ MaxStock \in Nat /\ MaxFaults \in Nat /\ faults \in 0 .. MaxFaults
  BY TokenAssumption, RoomAssumption DEF RoomTypeOK, TokenTypes
<1>1. ASSUME NEW u \in Users, VerifyAdmission(r, u) PROVE TokenTypes'
  <2>1. MarkerTTL(u) \in Nat
    BY <1>1, <1>t, MarkerFacts DEF VerifyAdmission, TokenTypes
  <2> QED
    BY <1>1, <1>t, <2>1, TokenAssumption DEF VerifyAdmission, TokenTypes
<1>r. ASSUME Reserve(r), rpc[r] # "idle"
      PROVE  avail' \in 0 .. MaxStock /\ accepted' \in [Users -> Nat]
  BY <1>r, <1>t DEF Reserve, TokenTypes
<1>2. ASSUME SubmitOrder(r) PROVE TokenTypes'
  <2>1. avail' \in 0 .. MaxStock /\ accepted' \in [Users -> Nat]
    BY <1>2, <1>t, <1>r DEF SubmitOrder, TokenTypes
  <2> QED
    BY <1>2, <1>t, <2>1 DEF SubmitOrder, EndRequest, TokenTypes
<1>3. ASSUME SubmitRefused(r) PROVE TokenTypes'
  BY <1>3, <1>t DEF SubmitRefused, TokenTypes
<1>4. ASSUME RefundAdmission(r) PROVE TokenTypes'
  BY <1>4, <1>t DEF RefundAdmission, EndRequest, TokenTypes
<1>5. ASSUME SubmitDies(r) PROVE TokenTypes'
  <2>1. avail' \in 0 .. MaxStock /\ accepted' \in [Users -> Nat]
    BY <1>5, <1>t, <1>r DEF SubmitDies, TokenTypes
  <2> QED
    BY <1>5, <1>t, <2>1 DEF SubmitDies, EndRequest, TokenTypes
<1>6. ASSUME RefundFails(r) PROVE TokenTypes'
  BY <1>6, <1>t DEF RefundFails, EndRequest, TokenTypes
<1>7. faults' \in 0 .. MaxFaults
  BY <1>t DEF RequestStep, Fault
<1> QED
  BY <1>1, <1>2, <1>3, <1>4, <1>5, <1>6, <1>7 DEF RequestStep

LEMMA RoomTypeNext == RoomTypeOK /\ [Next]_vars => RoomTypeOK'
<1> SUFFICES ASSUME RoomTypeOK, [Next]_vars PROVE RoomTypeOK'
  OBVIOUS
<1>t. /\ TokenTypes /\ MonitorTypes /\ DrawTypes /\ StreamTypes
      /\ faults \in 0 .. MaxFaults /\ MaxFaults \in Nat /\ MaxClock \in Nat /\ MaxStock \in Nat
      /\ MaxEdits \in Nat /\ now \in Nat /\ Heartbeat \in Nat /\ MaxDead \in Nat
  BY TokenAssumption, RoomAssumption, MonitorAssumption DEF RoomTypeOK, TokenTypes
<1>f. Fault => faults' \in 0 .. MaxFaults
  BY <1>t DEF Fault
<1>w. \A u \in Watchers : u \in Users
  BY RoomAssumption
<1>1. ASSUME Tick PROVE RoomTypeOK'
  <2>1. TokenTypes'
    BY <1>1, <1>t DEF Tick, TokenTypes, tokens, requests
  <2>2. DrawTypes'
    BY <1>1, <1>t DEF Tick, DrawTypes, window, lottery
  <2>3. StreamTypes'
    BY <1>1, <1>t DEF Tick, StreamTypes, Steps, pubsub, seen
  <2> QED
    BY <1>1, <1>t, <2>1, <2>2, <2>3, SameMonitor DEF Tick, RoomTypeOK
<1>2. ASSUME NEW u \in Users, JoinQueue(u) PROVE RoomTypeOK'
  <2>1. DrawTypes'
    BY <1>2, <1>t DEF JoinQueue, DrawTypes, window
  <2> QED
    BY <1>2, <1>t, <2>1, SameTokens, SameMonitor, SameStreams DEF JoinQueue, RoomTypeOK
<1>3. ASSUME NEW u \in Users, Register(u) PROVE RoomTypeOK'
  <2>1. DrawTypes'
    BY <1>3, <1>t DEF Register, DrawTypes, window
  <2>2. StreamTypes'
    BY <1>3, <1>t DEF Register, StreamTypes, pubsub, sleep, seen, Listeners
  <2> QED
    BY <1>3, <1>t, <2>1, <2>2, SameTokens, SameMonitor DEF Register, RoomTypeOK
<1>4. ASSUME NEW u \in Users, PollAnswers(u) PROVE RoomTypeOK'
  <2>1. /\ Answer(u) /\ spc' = [spc EXCEPT ![u] = "off"] /\ UNCHANGED <<box, frame>>
        /\ UNCHANGED <<wake, unaware, overdue, pubsub>>
    BY <1>4 DEF PollAnswers, Goes, Answer
  <2>2. StreamTypes'
    BY <1>t, <2>1, AnswerTypes DEF StreamTypes, Steps, pubsub
  <2> QED
    BY <1>t, <2>1, <2>2, AnswerTypes DEF RoomTypeOK
<1>5. ASSUME NEW c \in Closings, EditWindow(c) PROVE RoomTypeOK'
  <2>1. DrawTypes'
    BY <1>5, <1>t, RoomAssumption DEF EditWindow, DrawTypes, lottery
  <2> QED
    BY <1>5, <1>t, <2>1, SameTokens, SameMonitor, SameStreams DEF EditWindow, RoomTypeOK
<1>6. ASSUME InvalidateMeta PROVE RoomTypeOK'
  <2>1. DrawTypes' /\ StreamTypes'
    BY <1>6, <1>t DEF InvalidateMeta, DrawTypes, lottery, StreamTypes, streams, sleep, seen
  <2> QED
    BY <1>6, <1>t, <2>1, SameTokens, SameMonitor DEF InvalidateMeta, RoomTypeOK
<1>7. ASSUME EditDies PROVE RoomTypeOK'
  <2>1. DrawTypes'
    BY <1>7, <1>t DEF EditDies, DrawTypes, lottery
  <2> QED
    BY <1>7, <1>t, <1>f, <2>1, SameTokens, SameMonitor, SameStreams DEF EditDies, RoomTypeOK
<1>8. ASSUME MetaExpires PROVE RoomTypeOK'
  <2>1. DrawTypes' /\ StreamTypes'
    BY <1>8, <1>t DEF MetaExpires, DrawTypes, lottery, StreamTypes, sleep, seen, pubsub, Listeners
  <2> QED
    BY <1>8, <1>t, <2>1, SameTokens, SameMonitor DEF MetaExpires, RoomTypeOK
<1>9. ASSUME MonitorRuns PROVE RoomTypeOK'
  <2>1. MonitorTypes'
    <3>1. CASE DeadLetter \/ Jam \/ Drain
      <4>1. dead' \in 0 .. MaxDead /\ recent' \in Nat
        BY <3>1, <1>t DEF MonitorTypes, DeadLetter, Jam, Drain
      <4>2. jammed' \in BOOLEAN
        BY <3>1, <1>t, Zenon DEF MonitorTypes, DeadLetter, Jam, Drain
      <4>3. UNCHANGED <<run, paused, missed>>
        BY <3>1 DEF DeadLetter, Jam, Drain
      <4> QED
        BY <1>t, <4>1, <4>2, <4>3 DEF MonitorTypes, run
    <3>2. CASE CollectQueueStats
      <4>1. /\ cursor' \in Nat /\ recent' \in Nat /\ basis' \in Nat \X BOOLEAN
            /\ mpc' \in {"idle", "set"} /\ sick' \in BOOLEAN /\ aligned' \in BOOLEAN
        BY <3>2, <1>t DEF MonitorTypes, CollectQueueStats
      <4> QED
        BY <3>2, <1>t, <4>1 DEF MonitorTypes, CollectQueueStats, queues
    <3>3. CASE SetAdmissionPaused
      <4>0. basis' = <<0, FALSE>> /\ <<0, FALSE>> \in Nat \X BOOLEAN
        BY <3>3 DEF SetAdmissionPaused
      <4>1. basis' \in Nat \X BOOLEAN
        BY <4>0
      <4>4. mpc' \in {"idle", "set"} /\ missed' \in 0 .. 2
        BY <3>3, <1>t DEF MonitorTypes, SetAdmissionPaused
      <4>2. sick' \in BOOLEAN /\ paused' \in BOOLEAN
        BY <3>3, <1>t, Zenon DEF MonitorTypes, SetAdmissionPaused
      <4> QED
        BY <3>3, <1>t, <4>1, <4>2, <4>4 DEF MonitorTypes, SetAdmissionPaused, queues
    <3>4. CASE RunMissed
      <4>0. basis' = <<0, FALSE>> /\ <<0, FALSE>> \in Nat \X BOOLEAN
        BY <3>4 DEF RunMissed
      <4>1. basis' \in Nat \X BOOLEAN
        BY <4>0
      <4>4. mpc' \in {"idle", "set"} /\ missed' \in 0 .. 2
        BY <3>4, <1>t DEF MonitorTypes, RunMissed
      <4>2. sick' \in BOOLEAN
        BY <3>4, Zenon DEF RunMissed
      <4>3. paused' \in BOOLEAN
        BY <3>4 DEF RunMissed
      <4> QED
        BY <3>4, <1>t, <4>1, <4>2, <4>3, <4>4 DEF MonitorTypes, RunMissed, queues
    <3> QED
      BY <1>9, <3>1, <3>2, <3>3, <3>4 DEF MonitorRuns, MonitorStep
  <2>2. DrawTypes' /\ faults' \in 0 .. MaxFaults
    BY <1>9, <1>t, <1>f
    DEF MonitorRuns, MonitorStep, DrawTypes, window, lottery
  <2>3. StreamTypes'
    BY <1>9, <1>t DEF MonitorRuns, MonitorStep, StreamTypes, sleep, seen, Listeners
  <2> QED
    BY <1>9, <1>t, <2>1, <2>2, <2>3, SameTokens DEF MonitorRuns, RoomTypeOK
<1>10. ASSUME Publish \/ PublishFails \/ Resubscribe PROVE RoomTypeOK'
  <2>1. StreamTypes'
    BY <1>10, <1>t
    DEF Publish, PublishFails, Resubscribe, StreamTypes, streams, sleep, seen, Listeners
  <2>2. UNCHANGED <<sale, monitor, window, lottery, ran>> /\ faults' \in 0 .. MaxFaults
    BY <1>10, <1>t, <1>f DEF Publish, PublishFails, Resubscribe
  <2> QED
    BY <1>t, <2>1, <2>2, SameTokens, SameMonitor, SameDraw DEF RoomTypeOK
<1>11. ASSUME NEW u \in Watchers, WakeUp(u) \/ CloseStream(u) PROVE RoomTypeOK'
  <2>1. StreamTypes'
    <3>1. PICK pc \in {"stock", "off"} : Leaves(u, pc)
      BY <1>11 DEF WakeUp, CloseStream
    <3>2. box' \in [Watchers -> BOOLEAN]
      BY <1>t, <3>1 DEF Leaves, StreamTypes
    <3>3. wake' \in [Watchers -> Nat] /\ overdue' \in [Watchers -> Nat]
      BY <1>t, <3>1 DEF Leaves, StreamTypes
    <3> QED
      BY <1>t, <3>1, <3>2, <3>3 DEF Leaves, Goes, StreamTypes, Steps, pubsub, seen
  <2>2. UNCHANGED <<sale, monitor, window, lottery, ran>> /\ faults' \in 0 .. MaxFaults
    BY <1>11, <1>t, <1>f DEF WakeUp, CloseStream, Leaves
  <2> QED
    BY <1>t, <2>1, <2>2, SameTokens, SameMonitor, SameDraw DEF RoomTypeOK
<1>17. ASSUME NEW u \in Users, OpenStream(u) \/ PollStatus(u) \/ StatusStep(u) PROVE RoomTypeOK'
  BY <1>17, <1>t, ReadingLeaves, ReadingTypes, SameTokens, SameMonitor, SameDraw DEF RoomTypeOK
<1>12. ASSUME NEW u \in Watchers, PlanWait(u) PROVE RoomTypeOK'
  <2>1. AdmitDeadline(u) \in Nat
    BY <1>t, <1>w, AdmitDeadlineFacts
  <2>2. StreamTypes'
    <3> DEFINE x == IF u \in draw /\ AdmitDeadline(u) > now
                    THEN Smaller(now + Heartbeat, AdmitDeadline(u)) ELSE now + Heartbeat
    <3>1. wake' = [wake EXCEPT ![u] = x]
      BY <1>12 DEF PlanWait
    <3>3. now + Heartbeat \in Nat
      BY <1>t, RoomAssumption DEF RoomTypeOK, TokenTypes
    <3>4. x \in Nat
      BY <2>1, <3>3 DEF Smaller
    <3> HIDE DEF x
    <3>2. spc' = [spc EXCEPT ![u] = "sleep"] /\ UNCHANGED <<pubsub, box, seen, frame, unaware, overdue>>
      BY <1>12 DEF PlanWait, Goes
    <3> QED
      BY <1>t, <1>w, <3>1, <3>2, <3>4 DEF StreamTypes, Steps, pubsub, seen
  <2> QED
    BY <1>12, <1>t, <2>2, SameTokens, SameMonitor, SameDraw DEF PlanWait, RoomTypeOK
<1>13. ASSUME NEW u \in Watchers, SendFrame(u) PROVE RoomTypeOK'
  <2> DEFINE state == QueueState(u)
  <2>1. state \in {"soldout", "paused", "admitted", "wait"}
    BY <1>t, <1>w, QueueStateType DEF StreamTypes
  <2>2. Answer(u)
    BY <1>13 DEF SendFrame
  <2>3. /\ frame' = [frame EXCEPT ![u] = state]
        /\ spc' = [spc EXCEPT ![u] = IF state \in Final THEN "off" ELSE "plan"]
        /\ box' = [box EXCEPT ![u] = @ /\ state \notin Final]
        /\ UNCHANGED <<wake, unaware, overdue, pubsub>>
    BY <1>13 DEF SendFrame, Goes, Answer
  <2> HIDE DEF state
  <2>4. StreamTypes'
    <3>1. spc' \in [Users -> Steps]
      BY <1>t, <2>3 DEF StreamTypes, Steps
    <3> QED
      BY <1>t, <1>w, <2>1, <2>2, <2>3, <3>1, AnswerTypes DEF StreamTypes, pubsub
  <2> QED
    BY <1>t, <1>w, <2>2, <2>4, AnswerTypes DEF RoomTypeOK
<1>14. ASSUME NEW r \in Requests, RequestStep(r), Announce PROVE RoomTypeOK'
  <2>1. StreamTypes'
    BY <1>14, <1>t DEF Announce, StreamTypes, streams, sleep, seen
  <2> QED
    BY <1>14, <1>t, <2>1, RequestTypes, SameMonitor, SameDraw DEF Announce, RoomTypeOK
<1>15. ASSUME Restock, Announce, UNCHANGED faults PROVE RoomTypeOK'
  <2>1. StreamTypes'
    BY <1>15, <1>t DEF Announce, StreamTypes, streams, sleep, seen
  <2>2. TokenTypes'
    BY <1>15, <1>t DEF Restock, TokenTypes, tokens, requests
  <2> QED
    BY <1>15, <1>t, <2>1, <2>2, SameMonitor, SameDraw DEF Announce, RoomTypeOK
<1>16. ASSUME UNCHANGED vars PROVE RoomTypeOK'
  BY <1>16, <1>t, SameTokens, SameMonitor, SameDraw, SameStreams DEF vars, RoomTypeOK
<1> QED
  BY <1>1, <1>2, <1>3, <1>4, <1>5, <1>6, <1>7, <1>8, <1>9, <1>10, <1>11, <1>12, <1>13, <1>14,
     <1>15, <1>16, <1>17, <1>w
  DEF Next, StreamStep

-----------------------------------------------------------------------------
(* The breaker.                                                            *)

\* Only the monitor and what it counts move its state.
LEMMA OnlyMonitor == [Next]_vars => MonitorStep \/ UNCHANGED monitor
<1> SUFFICES ASSUME [Next]_vars PROVE MonitorStep \/ UNCHANGED monitor
  OBVIOUS
<1>1. CASE Tick \/ (\E u \in Users : JoinQueue(u) \/ Register(u) \/ PollAnswers(u))
  BY <1>1 DEF Tick, JoinQueue, Register, PollAnswers, Answer
<1>2. CASE (\E c \in Closings : EditWindow(c)) \/ InvalidateMeta \/ EditDies \/ MetaExpires
  BY <1>2 DEF EditWindow, InvalidateMeta, EditDies, MetaExpires
<1>3. CASE MonitorRuns
  BY <1>3 DEF MonitorRuns
<1>4. CASE Publish \/ PublishFails \/ Resubscribe
  BY <1>4 DEF Publish, PublishFails, Resubscribe
<1>5. CASE \E u \in Watchers : PlanWait(u) \/ WakeUp(u) \/ CloseStream(u)
  BY <1>5 DEF PlanWait, WakeUp, CloseStream, Leaves
<1>8. CASE \E u : OpenStream(u) \/ PollStatus(u) \/ StatusStep(u)
  BY <1>8, ReadingLeaves
<1>6. CASE \E u \in Watchers : SendFrame(u)
  BY <1>6 DEF SendFrame, Answer
<1>7. CASE Announce \/ UNCHANGED vars
  BY <1>7 DEF Announce, vars
<1> QED
  BY <1>1, <1>2, <1>3, <1>4, <1>5, <1>6, <1>7, <1>8 DEF Next, StreamStep

LEMMA CursorStep ==
  ASSUME RoomTypeOK, CursorInv, [Next]_vars
  PROVE  CursorInv'
<1>t. /\ dead \in Nat /\ cursor \in Nat /\ recent \in Nat /\ aligned \in BOOLEAN
      /\ jammed \in BOOLEAN /\ Cap \in Nat
  BY MonitorAssumption DEF RoomTypeOK, MonitorTypes
<1>1. CASE DeadLetter
  <2>1. dead' - cursor' = (dead - cursor) + 1 /\ recent' = recent + 1 /\ aligned' = aligned
    BY <1>1, <1>t DEF DeadLetter, run
  <2>2. BreakerIsFresh'
    BY <1>1 DEF CursorInv, BreakerIsFresh, DeadLetter, run
  <2> QED
    BY <1>t, <2>1, <2>2 DEF CursorInv
<1>2. CASE Jam \/ Drain \/ UNCHANGED monitor
  <2>1. UNCHANGED <<dead, run, recent>>
    BY <1>2 DEF Jam, Drain, monitor, queues
  <2> QED
    BY <2>1 DEF CursorInv, BreakerIsFresh, run
<1>3. CASE CollectQueueStats
  <2>1. dead' - cursor' = 0 /\ recent' = 0
    BY <1>3, <1>t DEF CollectQueueStats, queues
  <2>2. basis'[1] = (IF aligned THEN recent ELSE 0) /\ basis'[2] = jammed
    BY <1>3 DEF CollectQueueStats
  <2>3. NewDeadLetters > Cap <=> basis'[1] > Cap
    <3>1. CASE aligned
      <4>1. dead - cursor = recent
        BY <3>1 DEF CursorInv
      <4> QED
        BY <1>t, <2>2, <3>1, <4>1 DEF NewDeadLetters
    <3>2. CASE ~aligned
      BY <1>t, <2>2, <3>2 DEF NewDeadLetters
    <3> QED
      BY <3>1, <3>2
  <2>4. sick' = (basis'[1] > Cap \/ basis'[2])
    BY <1>3, <1>t, <2>2, <2>3 DEF CollectQueueStats
  <2> QED
    BY <2>1, <2>4 DEF CursorInv, BreakerIsFresh
<1>4. CASE SetAdmissionPaused \/ RunMissed
  <2>1. UNCHANGED <<dead, aligned, cursor, recent>> /\ mpc' = "idle"
    BY <1>4 DEF SetAdmissionPaused, RunMissed, queues
  <2> QED
    BY <2>1 DEF CursorInv, BreakerIsFresh
<1> QED
  BY <1>1, <1>2, <1>3, <1>4, OnlyMonitor DEF MonitorStep

-----------------------------------------------------------------------------
(* Passes.                                                                 *)

\* Passes move with the clock, with answers of the waiting room and with requests.
LEMMA PassMoves ==
  ASSUME [Next]_vars
  PROVE  \/ Tick
         \/ \E u \in Users : Answer(u)
         \/ \E r \in Requests : RequestStep(r)
         \/ UNCHANGED <<now, tokens>> /\ (UNCHANGED faults \/ Fault)
<1>1. CASE Tick
  BY <1>1
<1>2. CASE \E u \in Users : PollAnswers(u)
  BY <1>2 DEF PollAnswers
<1>3. CASE \E u \in Users : JoinQueue(u) \/ Register(u)
  BY <1>3 DEF JoinQueue, Register, sale
<1>4. CASE (\E c \in Closings : EditWindow(c)) \/ InvalidateMeta \/ EditDies \/ MetaExpires
  BY <1>4 DEF EditWindow, InvalidateMeta, EditDies, MetaExpires, sale
<1>5. CASE MonitorRuns
  BY <1>5 DEF MonitorRuns, MonitorStep, sale
<1>6. CASE Publish \/ PublishFails \/ Resubscribe
  BY <1>6 DEF Publish, PublishFails, Resubscribe, sale
<1>7. CASE \E u \in Watchers : PlanWait(u) \/ WakeUp(u) \/ CloseStream(u)
  BY <1>7 DEF PlanWait, WakeUp, CloseStream, Leaves, sale
<1>11. CASE \E u : OpenStream(u) \/ PollStatus(u) \/ StatusStep(u)
  BY <1>11, ReadingLeaves DEF sale
<1>8. CASE \E u \in Watchers : SendFrame(u)
  BY <1>8, RoomAssumption DEF SendFrame
<1>9. CASE Restock /\ UNCHANGED faults
  BY <1>9 DEF Restock
<1>10. CASE UNCHANGED vars
  BY <1>10 DEF vars, sale
<1> QED
  BY <1>1, <1>2, <1>3, <1>4, <1>5, <1>6, <1>7, <1>8, <1>9, <1>10, <1>11 DEF Next, StreamStep

\* What a pass says only gets weaker when the clock moves on.
LEMMA PassClock ==
  ASSUME RoomTypeOK, NEW u \in Users, PassInv(u), UNCHANGED tokens, now' \in Nat, now <= now'
  PROVE  PassInv(u)'
<1>1. now \in Nat /\ Tps \in Nat /\ exp[u] \in Nat
  BY TokenAssumption DEF RoomTypeOK, TokenTypes
<1>2. UNCHANGED <<exp, marker, accepted, ruser>>
  BY DEF tokens, requests
<1>3. now' + Tps <= exp'[u] => now + Tps <= exp[u]
  BY <1>1, <1>2
<1> QED
  BY <1>2, <1>3 DEF PassInv

\* Issuing a pass.
LEMMA PassIssued ==
  ASSUME RoomTypeOK, NEW u \in Users, PassInv(u), NEW w \in Users, Answer(w)
  PROVE  PassInv(u)'
<1>1. Expiry \in Nat /\ Expiry > 0
  BY AnswerTypes
<1>2. UNCHANGED <<now, marker, accepted, ruser>>
  BY DEF Answer, requests
<1>3. exp \in [Users -> Nat]
  BY DEF RoomTypeOK, TokenTypes
<1>4. exp'[u] = exp[u] \/ (exp[u] = 0 /\ exp'[u] = Expiry)
  BY <1>3 DEF Answer
<1>5. CASE exp'[u] = exp[u]
  BY <1>2, <1>5 DEF PassInv
<1>6. CASE exp[u] = 0 /\ exp'[u] = Expiry
  <2>1. accepted[u] = 0 /\ marker[u] = 0 /\ \A r \in Requests : ruser[r] # u
    BY <1>6 DEF PassInv
  <2> QED
    BY <1>1, <1>2, <1>6, <2>1 DEF PassInv
<1> QED
  BY <1>4, <1>5, <1>6

\* A request ends: its user's pass is held by one less, and what it did to the key
\* and to the count of intents is right for the pass it held alone.
LEMMA PassEnds ==
  ASSUME RoomTypeOK, NEW u \in Users, PassInv(u), NEW r \in Requests, ruser[r] \in Users,
         UNCHANGED <<now, exp>>, ruser' = [ruser EXCEPT ![r] = None],
         u # ruser[r] => accepted'[u] = accepted[u] /\ marker'[u] = marker[u],
         \/ accepted'[u] \in Nat /\ marker'[u] = marker[u]
         \/ accepted'[u] = accepted[u] /\ marker'[u] = 0
  PROVE  PassInv(u)'
<1>t. /\ ruser \in [Requests -> Users \cup {None}] /\ None \notin Users /\ Tps \in Nat
      /\ marker[u] \in Nat /\ accepted[u] \in Nat /\ exp[u] \in Nat /\ now \in Nat
  BY TokenAssumption DEF RoomTypeOK, TokenTypes
<1>1. \A q \in Requests : ruser'[q] = u => q # r /\ ruser[q] = u
  BY <1>t
<1>2. CASE u # ruser[r]
  BY <1>1, <1>2, <1>t DEF PassInv
<1>3. CASE u = ruser[r]
  <2>1. exp[u] # 0
    BY <1>3 DEF PassInv
  <2>2. ASSUME now + Tps <= exp[u]
        PROVE  /\ \A q \in Requests : ruser'[q] # u
               /\ accepted'[u] > 0 => marker'[u] + Tps > exp[u]
    <3>1. accepted[u] = 0 /\ marker[u] + Tps > exp[u]
      BY <1>3, <2>2 DEF PassInv
    <3>2. \A q \in Requests : ruser'[q] # u
      BY <1>1, <1>3, <2>2 DEF PassInv
    <3> QED
      BY <1>t, <3>1, <3>2
  <2> QED
    BY <2>1, <2>2 DEF PassInv
<1> QED
  BY <1>2, <1>3

\* A request presents a pass.
LEMMA PassPresented ==
  ASSUME RoomTypeOK, NEW u \in Users, PassInv(u), NEW r \in Requests, NEW w \in Users,
         VerifyAdmission(r, w)
  PROVE  PassInv(u)'
<1>t. /\ ruser \in [Requests -> Users \cup {None}] /\ None \notin Users /\ Tps \in Nat
      /\ marker \in [Users -> Nat] /\ accepted \in [Users -> Nat] /\ exp \in [Users -> Nat]
      /\ now \in Nat
  BY TokenAssumption DEF RoomTypeOK, TokenTypes
<1>1. /\ now < exp[w] /\ marker[w] <= now
      /\ marker' = [marker EXCEPT ![w] = now + MarkerTTL(w)]
      /\ ruser' = [ruser EXCEPT ![r] = w] /\ UNCHANGED <<now, exp, accepted>>
  BY <1>t DEF VerifyAdmission, Used
<1>2. CASE u # w
  <2>1. marker'[u] = marker[u] /\ \A q \in Requests : ruser'[q] = u => ruser[q] = u
    BY <1>1, <1>2, <1>t
  <2> QED
    BY <1>1, <2>1 DEF PassInv
<1>3. CASE u = w
  <2>1. exp'[u] # 0
    BY <1>1, <1>3, <1>t
  <2>2. ASSUME now + Tps <= exp[u]
        PROVE  /\ accepted[u] = 0 /\ \A q \in Requests : ruser'[q] = u => q = r
               /\ marker'[u] + Tps > exp[u]
    <3>1. ~(marker[u] + Tps > exp[u])
      BY <1>1, <1>3, <1>t, <2>2
    <3>2. ~(accepted[u] > 0) /\ \A q \in Requests : ruser[q] # u
      BY <2>2, <3>1 DEF PassInv
    <3>3. accepted[u] = 0 /\ \A q \in Requests : ruser'[q] = u => q = r
      BY <1>1, <1>t, <3>2
    <3>4. MarkerTTL(u) \in Nat /\ now + MarkerTTL(u) + Tps > exp[u]
      BY <1>1, <1>3, <1>t, <2>2, MarkerFacts
    <3>5. marker'[u] = now + MarkerTTL(u)
      BY <1>1, <1>3, <1>t
    <3> QED
      BY <3>3, <3>4, <3>5
  <2> QED
    BY <1>1, <2>1, <2>2 DEF PassInv
<1> QED
  BY <1>2, <1>3

LEMMA PassStep ==
  ASSUME RoomTypeOK, NEW u \in Users, PassInv(u), [Next]_vars
  PROVE  PassInv(u)'
<1>t. /\ now \in Nat /\ None \notin Users /\ accepted \in [Users -> Nat]
      /\ marker \in [Users -> Nat] /\ ruser \in [Requests -> Users \cup {None}]
      /\ rpc \in [Requests -> {"idle", "submit", "refund"}]
      /\ \A r \in Requests : rpc[r] # "idle" => ruser[r] \in Users
  BY TokenAssumption DEF RoomTypeOK, TokenTypes
<1>1. CASE Tick
  BY <1>1, <1>t, PassClock DEF Tick
<1>2. ASSUME NEW w \in Users, Answer(w) PROVE PassInv(u)'
  BY <1>2, PassIssued
<1>3. ASSUME NEW r \in Requests, RequestStep(r) PROVE PassInv(u)'
  <2>1. ASSUME NEW w \in Users, VerifyAdmission(r, w) PROVE PassInv(u)'
    BY <2>1, PassPresented
  <2>2. ASSUME SubmitOrder(r) \/ SubmitDies(r) PROVE PassInv(u)'
    <3>1. /\ ruser[r] \in Users /\ ruser' = [ruser EXCEPT ![r] = None]
          /\ UNCHANGED <<now, exp, marker>>
      BY <1>t, <2>2 DEF SubmitOrder, SubmitDies, EndRequest
    <3>2. accepted' = accepted \/ accepted' = [accepted EXCEPT ![ruser[r]] = @ + 1]
      BY <2>2 DEF SubmitOrder, SubmitDies, Reserve
    <3>3. accepted'[u] \in Nat /\ (u # ruser[r] => accepted'[u] = accepted[u])
      BY <1>t, <3>1, <3>2
    <3> QED
      BY <3>1, <3>3, PassEnds
  <2>3. ASSUME SubmitRefused(r) PROVE PassInv(u)'
    BY <2>3 DEF SubmitRefused, PassInv
  <2>4. ASSUME RefundAdmission(r) PROVE PassInv(u)'
    <3>1. /\ ruser[r] \in Users /\ ruser' = [ruser EXCEPT ![r] = None]
          /\ UNCHANGED <<now, exp, accepted>> /\ marker' = [marker EXCEPT ![ruser[r]] = 0]
      BY <1>t, <2>4 DEF RefundAdmission, EndRequest
    <3>2. CASE u = ruser[r]
      <4>1. marker'[u] = 0 /\ accepted'[u] = accepted[u]
        BY <1>t, <3>1, <3>2
      <4> QED
        BY <3>1, <3>2, <4>1, PassEnds
    <3>3. CASE u # ruser[r]
      <4>1. marker'[u] = marker[u] /\ accepted'[u] = accepted[u] /\ accepted[u] \in Nat
        BY <1>t, <3>1, <3>3
      <4> QED
        BY <3>1, <4>1, PassEnds
    <3> QED
      BY <3>2, <3>3
  <2>5. ASSUME RefundFails(r) PROVE PassInv(u)'
    <3>1. /\ ruser[r] \in Users /\ ruser' = [ruser EXCEPT ![r] = None]
          /\ UNCHANGED <<now, exp, marker, accepted>> /\ accepted[u] \in Nat
      BY <1>t, <2>5 DEF RefundFails, EndRequest
    <3> QED
      BY <3>1, PassEnds
  <2> QED
    BY <1>3, <2>1, <2>2, <2>3, <2>4, <2>5 DEF RequestStep
<1>4. CASE UNCHANGED <<now, tokens>>
  BY <1>4, <1>t, PassClock
<1> QED
  BY <1>1, <1>2, <1>3, <1>4, PassMoves

\* A used pass that no request holds has bought an order, until something fails.
LEMMA ConsumedStep ==
  ASSUME RoomTypeOK, ConsumedMeansAccepted, [Next]_vars
  PROVE  ConsumedMeansAccepted'
<1>t. /\ now \in Nat /\ None \notin Users /\ accepted \in [Users -> Nat] /\ faults \in Nat
      /\ marker \in [Users -> Nat] /\ ruser \in [Requests -> Users \cup {None}]
      /\ rpc \in [Requests -> {"idle", "submit", "refund"}]
      /\ \A r \in Requests : rpc[r] # "idle" => ruser[r] \in Users
  BY TokenAssumption, RoomAssumption DEF RoomTypeOK, TokenTypes
<1>f. Fault => faults' # 0
  BY <1>t DEF Fault
<1> SUFFICES ASSUME faults' = 0, NEW u \in Users, Used(u)', \A r \in Requests : ruser'[r] # u
             PROVE  accepted'[u] > 0
  BY DEF ConsumedMeansAccepted
<1>c. ASSUME faults = 0, marker[u] > now, \A r \in Requests : ruser[r] # u
      PROVE  accepted[u] > 0
  BY <1>c DEF ConsumedMeansAccepted, Used
<1>1. CASE Tick
  <2>1. UNCHANGED <<marker, accepted, ruser, faults>> /\ now' = now + 1
    BY <1>1 DEF Tick, tokens, requests
  <2>2. marker[u] > now
    BY <1>t, <2>1 DEF Used
  <2> QED
    BY <1>c, <2>1, <2>2
<1>2. ASSUME NEW w \in Users, Answer(w) PROVE accepted'[u] > 0
  BY <1>2, <1>c DEF Answer, Used, requests
<1>3. ASSUME NEW r \in Requests, RequestStep(r) PROVE accepted'[u] > 0
  <2>0. faults = 0
    BY <1>3, <1>f DEF RequestStep
  <2>1. ASSUME NEW w \in Users, VerifyAdmission(r, w) PROVE accepted'[u] > 0
    <3>1. /\ ruser' = [ruser EXCEPT ![r] = w] /\ UNCHANGED <<now, accepted>>
          /\ marker' = [marker EXCEPT ![w] = now + MarkerTTL(w)] /\ rpc[r] = "idle"
      BY <2>1 DEF VerifyAdmission
    <3>2. u # w
      BY <1>t, <3>1
    <3>3. marker[u] > now
      BY <1>t, <3>1, <3>2 DEF Used
    <3>4. ASSUME NEW q \in Requests PROVE ruser[q] # u \/ q = r
      BY <1>t, <3>1
    <3>5. ruser[r] # u
      BY <1>t, <3>1 DEF RoomTypeOK, TokenTypes
    <3> QED
      BY <1>c, <2>0, <3>1, <3>3, <3>4, <3>5
  <2>2. ASSUME SubmitOrder(r) PROVE accepted'[u] > 0
    <3>1. /\ ruser[r] \in Users /\ ruser' = [ruser EXCEPT ![r] = None]
          /\ UNCHANGED <<now, exp, marker>>
      BY <1>t, <2>2 DEF SubmitOrder, EndRequest
    <3>2. \/ accepted' = accepted /\ accepted[ruser[r]] > 0
          \/ accepted' = [accepted EXCEPT ![ruser[r]] = @ + 1]
      BY <2>2 DEF SubmitOrder, Reserve
    <3>3. CASE u = ruser[r]
      BY <1>t, <3>2, <3>3
    <3>4. CASE u # ruser[r]
      <4>1. accepted'[u] = accepted[u] /\ \A q \in Requests : ruser[q] # u
        BY <1>t, <3>1, <3>2, <3>4
      <4> QED
        BY <1>c, <2>0, <3>1, <4>1 DEF Used
    <3> QED
      BY <3>3, <3>4
  <2>3. ASSUME SubmitRefused(r) PROVE accepted'[u] > 0
    BY <1>c, <2>0, <2>3 DEF SubmitRefused, Used
  <2>4. ASSUME RefundAdmission(r) PROVE accepted'[u] > 0
    <3>1. /\ ruser[r] \in Users /\ ruser' = [ruser EXCEPT ![r] = None]
          /\ UNCHANGED <<now, exp, accepted>> /\ marker' = [marker EXCEPT ![ruser[r]] = 0]
      BY <1>t, <2>4 DEF RefundAdmission, EndRequest
    <3>2. u # ruser[r]
      BY <1>t, <3>1 DEF Used
    <3>3. marker'[u] = marker[u] /\ \A q \in Requests : ruser[q] # u
      BY <1>t, <3>1, <3>2
    <3> QED
      BY <1>c, <2>0, <3>1, <3>3 DEF Used
  <2> QED
    BY <1>3, <1>f, <2>1, <2>2, <2>3, <2>4 DEF RequestStep
<1>4. CASE UNCHANGED <<now, tokens>> /\ (UNCHANGED faults \/ Fault)
  BY <1>4, <1>c, <1>f DEF Used, tokens, requests
<1> QED
  BY <1>1, <1>2, <1>3, <1>4, PassMoves

-----------------------------------------------------------------------------
(* The pace of admission.                                                  *)

\* Passes and ranks move with registrations and with answers.
LEMMA PaceMoves ==
  ASSUME RoomTypeOK, [Next]_vars
  PROVE  \/ \E u \in Users : Register(u)
         \/ \E u \in Users : Answer(u)
         \/ UNCHANGED <<exp, score, draw, late, peak>>
<1>1. CASE Tick
  BY <1>1 DEF Tick, tokens, lottery
<1>2. CASE \E u \in Users : PollAnswers(u)
  BY <1>2 DEF PollAnswers
<1>3. CASE \E u \in Users : JoinQueue(u) \/ Register(u)
  BY <1>3 DEF JoinQueue, sale, tokens
<1>4. CASE (\E c \in Closings : EditWindow(c)) \/ InvalidateMeta \/ EditDies \/ MetaExpires
  BY <1>4 DEF EditWindow, InvalidateMeta, EditDies, MetaExpires, sale, tokens, lottery
<1>5. CASE MonitorRuns
  BY <1>5 DEF MonitorRuns, sale, tokens, lottery
<1>6. CASE Publish \/ PublishFails \/ Resubscribe
  BY <1>6 DEF Publish, PublishFails, Resubscribe, sale, tokens, lottery
<1>7. CASE \E u \in Watchers : PlanWait(u) \/ WakeUp(u) \/ CloseStream(u)
  BY <1>7 DEF PlanWait, WakeUp, CloseStream, Leaves, sale, tokens, lottery
<1>12. CASE \E u : OpenStream(u) \/ PollStatus(u) \/ StatusStep(u)
  BY <1>12, ReadingLeaves DEF sale, tokens, lottery
<1>8. CASE \E u \in Watchers : SendFrame(u)
  BY <1>8, RoomAssumption DEF SendFrame
<1>9. ASSUME NEW r \in Requests, RequestStep(r), Announce
      PROVE  UNCHANGED <<exp, score, draw, late, peak>>
  BY <1>9
  DEF RequestStep, VerifyAdmission, SubmitOrder, SubmitRefused, RefundAdmission, SubmitDies,
      RefundFails, Announce, lottery
<1>10. CASE Restock /\ Announce
  BY <1>10 DEF Restock, Announce, tokens, lottery
<1>11. CASE UNCHANGED vars
  BY <1>11 DEF vars, sale, tokens, lottery
<1> QED
  BY <1>1, <1>2, <1>3, <1>4, <1>5, <1>6, <1>7, <1>8, <1>9, <1>10, <1>11, <1>12
  DEF Next, StreamStep

\* What a user has read of the draw stays true: nobody leaves it.
LEMMA ReadStep ==
  ASSUME RoomTypeOK, NEW u \in Users, ReadInv(u), [Next]_vars
  PROVE  ReadInv(u)'
<1>t. /\ spc \in [Users -> Steps] /\ quota \in [Users -> Nat] /\ Watchers \subseteq Users
  BY RoomAssumption DEF RoomTypeOK, StreamTypes
<1>d. draw \subseteq draw'
  <2>1. CASE \E w \in Users : Register(w)
    BY <2>1 DEF Register
  <2>2. CASE \E w \in Users : Answer(w)
    BY <2>2 DEF Answer
  <2> QED
    BY <2>1, <2>2, PaceMoves
<1>u. ASSUME UNCHANGED quota, spc'[u] = "window" => spc[u] = "window" PROVE ReadInv(u)'
  BY <1>u, <1>d DEF ReadInv
<1>1. CASE Tick
  BY <1>1, <1>u DEF Tick, seen
<1>2. CASE \E w \in Users : JoinQueue(w) \/ Register(w)
  BY <1>2, <1>u DEF JoinQueue, Register, streams, sleep, seen
<1>3. CASE (\E c \in Closings : EditWindow(c)) \/ InvalidateMeta \/ EditDies \/ MetaExpires
  BY <1>3, <1>u DEF EditWindow, InvalidateMeta, EditDies, MetaExpires, streams, sleep, seen
<1>4. CASE MonitorRuns
  BY <1>4, <1>u DEF MonitorRuns, sleep, seen
<1>5. CASE Publish \/ PublishFails \/ Resubscribe
  BY <1>5, <1>u DEF Publish, PublishFails, Resubscribe, streams, sleep, seen
<1>6. ASSUME NEW w \in Watchers, PlanWait(w) \/ WakeUp(w) \/ CloseStream(w) PROVE ReadInv(u)'
  BY <1>6, <1>t, <1>u DEF PlanWait, WakeUp, CloseStream, Leaves, Goes, seen
<1>7. ASSUME NEW w \in Users, OpenStream(w) \/ PollStatus(w) \/ ReadStock(w) \/ ReadBreaker(w)
      PROVE  ReadInv(u)'
  BY <1>7, <1>t, <1>u DEF OpenStream, PollStatus, ReadStock, ReadBreaker, Goes, seen
<1>8. ASSUME NEW w \in Users, ReadRank(w) PROVE ReadInv(u)'
  <2>1. /\ quota' = quota /\ UNCHANGED draw
        /\ spc' = [spc EXCEPT ![w] = IF w \in draw /\ ~saw[w] THEN "window" ELSE "count"]
    BY <1>8 DEF ReadRank, Goes, lottery
  <2> QED
    BY <1>t, <1>u, <2>1 DEF ReadInv
<1>9. ASSUME NEW w \in Users, ReadWindow(w) PROVE ReadInv(u)'
  <2>1. /\ quota' = [quota EXCEPT ![w] = Quota] /\ UNCHANGED draw /\ spc[w] = "window"
        /\ spc' = [spc EXCEPT ![w] = "count"]
    BY <1>9 DEF ReadWindow, Goes, lottery
  <2> QED
    BY <1>t, <2>1 DEF ReadInv
<1>10. ASSUME NEW w \in Users, PollAnswers(w) \/ SendFrame(w) PROVE ReadInv(u)'
  <2>1. \E pc \in {"off", "plan"} : spc' = [spc EXCEPT ![w] = pc]
    BY <1>10 DEF PollAnswers, SendFrame, Goes
  <2>2. quota' = [quota EXCEPT ![w] = 0]
    BY <1>10 DEF PollAnswers, SendFrame, Answer
  <2> QED
    BY <1>t, <1>d, <2>1, <2>2 DEF ReadInv
<1>11. CASE Announce \/ UNCHANGED vars
  BY <1>11, <1>u DEF Announce, vars, streams, sleep, seen
<1> QED
  BY <1>1, <1>2, <1>3, <1>4, <1>5, <1>6, <1>7, <1>8, <1>9, <1>10, <1>11, <1>t
  DEF Next, StreamStep, StatusStep

LEMMA PaceStep ==
  ASSUME RoomTypeOK, PaceInv, \A u \in Users : ReadInv(u), [Next]_vars
  PROVE  PaceInv'
<1>t. /\ DrawTypes /\ peak \in Nat /\ exp \in [Users -> Nat] /\ paused \in BOOLEAN
      /\ late \subseteq draw
  BY DEF RoomTypeOK, DrawTypes, TokenTypes, MonitorTypes
<1> SUFFICES ASSUME NEW u \in Users, exp'[u] > 0, u \notin late'
             PROVE  u \in draw' /\ Cardinality(InFront(u)') < peak'
  BY DEF PaceInv
<1>1. ASSUME NEW w \in Users, Register(w) PROVE u \in draw' /\ Cardinality(InFront(u)') < peak'
  <2>1. /\ draw' = draw \cup {w} /\ late' = (IF peak > 0 THEN late \cup {w} ELSE late)
        /\ UNCHANGED <<exp, score, peak>> /\ w \in joining
    BY <1>1 DEF Register, sale, tokens
  <2>2. u \notin late
    BY <2>1
  <2>3. u \in draw /\ Cardinality(InFront(u)) < peak
    BY <2>1, <2>2 DEF PaceInv
  <2>4. Cardinality(InFront(u)) \in Nat
    BY <1>t, RankFacts
  <2>5. peak > 0
    BY <1>t, <2>3, <2>4
  <2>6. draw' \ late' = draw \ late
    <3>1. w \notin draw
      BY <1>t, <2>1 DEF DrawTypes
    <3> QED
      BY <2>1, <2>5, <3>1
  <2>7. InFront(u)' = InFront(u)
    BY <2>1, <2>6 DEF InFront
  <2> QED
    BY <2>1, <2>3, <2>7
<1>2. ASSUME NEW w \in Users, Answer(w)
      PROVE  u \in draw' /\ Cardinality(InFront(u)') < peak'
  <2>1. UNCHANGED <<score, draw>> /\ late \subseteq late'
    BY <1>2 DEF Answer
  <2>2. InFront(u)' \in SUBSET InFront(u)
    BY <2>1 DEF InFront
  <2>3. peak' \in Nat /\ peak <= peak' /\ AdmittedCount(quota[w]) \in Nat
    BY <1>2, AnswerTypes
  <2>4. /\ IsFiniteSet(InFront(u)) /\ Cardinality(InFront(u)) \in Nat
        /\ Cardinality(InFront(u)') \in Nat
        /\ Cardinality(InFront(u)') <= Cardinality(InFront(u))
    <3>1. IsFiniteSet(InFront(u)) /\ Cardinality(InFront(u)) \in Nat
      BY <1>t, RankFacts
    <3> QED
      BY <2>2, <3>1, FS_Subset, FS_CardinalityType
  <2>5. CASE exp[u] > 0
    <3>1. u \in draw /\ Cardinality(InFront(u)) < peak
      BY <2>1, <2>5 DEF PaceInv
    <3> QED
      BY <1>t, <2>1, <2>3, <2>4, <3>1
  <2>6. CASE ~(exp[u] > 0)
    <3>1. u = w /\ QueueState(w) = "admitted"
      BY <1>2, <1>t, <2>6 DEF Answer
    <3>2. /\ saw[u] \in BOOLEAN /\ halted[u] \in BOOLEAN /\ quota[u] \in Nat
          /\ ahead[u] \in SUBSET Users /\ now \in Nat
      BY DEF RoomTypeOK, StreamTypes, TokenTypes
    <3>3. Cardinality(ahead[u]) < AdmittedCount(quota[u]) /\ AdmittedCount(quota[u]) <= peak'
      BY <1>2, <3>1, <3>2, QueueStateType, AnswerTypes
    <3>4. IsFiniteSet(ahead[u]) /\ Cardinality(ahead[u]) \in Nat
      BY <3>2, RoomAssumption, FS_Subset, FS_CardinalityType
    <3>5. u \in draw
      <4>1. AdmittedCount(quota[u]) <= quota[u] /\ AdmittedCount(quota[u]) \in Nat
        BY <1>t, <3>2, QuotaFacts
      <4>2. quota[u] > 0
        BY <3>2, <3>3, <3>4, <4>1
      <4> QED
        BY <4>2 DEF ReadInv
    <3>6. InFront(u)' \in SUBSET ahead[u]
      <4>1. late' = late \cup (AheadOf(u) \ ahead[u])
        BY <1>2, <3>1 DEF Answer
      <4> QED
        BY <2>1, <4>1 DEF InFront, AheadOf
    <3>7. Cardinality(InFront(u)') <= Cardinality(ahead[u])
      BY <3>4, <3>6, FS_Subset
    <3> QED
      BY <2>1, <2>3, <2>4, <3>1, <3>3, <3>4, <3>5, <3>7
  <2> QED
    BY <2>5, <2>6
<1>3. CASE UNCHANGED <<exp, score, draw, late, peak>>
  BY <1>3 DEF PaceInv, InFront
<1> QED
  BY <1>1, <1>2, <1>3, PaceMoves

\* The users in time that have a pass have different numbers of users ahead of
\* them, so there are no more of them than the count.
LEMMA PaceCount == RoomTypeOK /\ PaceInv => PaceIsKept
<1> SUFFICES ASSUME RoomTypeOK, PaceInv PROVE PaceIsKept
  OBVIOUS
<1>t. /\ DrawTypes /\ peak \in Nat /\ score \in [Users -> Nat] /\ late \subseteq draw
      /\ draw \subseteq Users /\ IsFiniteSet(Users)
      /\ \A u, v \in Users : score[u] = score[v] => u = v
  BY RoomAssumption DEF RoomTypeOK, DrawTypes
<1> DEFINE A == {u \in Users : exp[u] > 0}
           E == A \ late
           f == [u \in E |-> Cardinality(InFront(u))]
           P == 0 .. peak - 1
<1>1. /\ IsFiniteSet(A) /\ IsFiniteSet(late) /\ IsFiniteSet(E)
      /\ Cardinality(A) \in Nat /\ Cardinality(late) \in Nat /\ Cardinality(E) \in Nat
  <2>1. A \in SUBSET Users /\ late \in SUBSET Users /\ E \in SUBSET Users
    BY <1>t
  <2> HIDE DEF A, E
  <2> QED
    BY <1>t, <2>1, FS_Subset, FS_CardinalityType
<1>2. \A u \in E : u \in Users /\ u \in draw \ late /\ Cardinality(InFront(u)) \in P
  <2> SUFFICES ASSUME NEW u \in E
               PROVE  u \in Users /\ u \in draw \ late /\ Cardinality(InFront(u)) \in P
    OBVIOUS
  <2>1. u \in Users /\ u \in draw \ late /\ Cardinality(InFront(u)) < peak
    BY DEF PaceInv
  <2>2. Cardinality(InFront(u)) \in Nat
    BY <1>t, <2>1, RankFacts
  <2> QED
    BY <1>t, <2>1, <2>2
<1>3. ASSUME NEW u \in E, NEW v \in E, score[u] < score[v]
      PROVE  Cardinality(InFront(u)) < Cardinality(InFront(v))
  <2>1. /\ InFront(u) \in SUBSET InFront(v) /\ u \in InFront(v) /\ u \notin InFront(u)
    <3>1. \A w \in draw : score[w] \in Nat
      BY <1>t
    <3>2. u \in draw \ late /\ v \in draw \ late
      BY <1>2
    <3> HIDE DEF E
    <3>3. u \in InFront(v)
      BY <1>3, <3>2 DEF InFront
    <3>4. u \notin InFront(u)
      BY <3>1, <3>2 DEF InFront
    <3>5. \A w \in InFront(u) : w \in InFront(v)
      BY <1>3, <3>1, <3>2 DEF InFront
    <3> QED
      BY <3>3, <3>4, <3>5
  <2>2. IsFiniteSet(InFront(v)) /\ Cardinality(InFront(v)) \in Nat /\ Cardinality(InFront(u)) \in Nat
    BY <1>2, <1>t, RankFacts
  <2>3. Cardinality(InFront(u)) <= Cardinality(InFront(v))
    BY <2>1, <2>2, FS_Subset
  <2>4. Cardinality(InFront(u)) # Cardinality(InFront(v))
    BY <2>1, <2>2, FS_Subset
  <2> QED
    BY <2>2, <2>3, <2>4
<1>4. \A u, v \in E : u # v => Cardinality(InFront(u)) # Cardinality(InFront(v))
  <2> SUFFICES ASSUME NEW u \in E, NEW v \in E, u # v
               PROVE  Cardinality(InFront(u)) # Cardinality(InFront(v))
    OBVIOUS
  <2>1. score[u] < score[v] \/ score[v] < score[u]
    BY <1>2, <1>t
  <2>2. Cardinality(InFront(u)) \in Nat /\ Cardinality(InFront(v)) \in Nat
    BY <1>2, <1>t, RankFacts
  <2> QED
    BY <1>3, <2>1, <2>2
<1>5. f \in Injection(E, P)
  <2> HIDE DEF E, P
  <2>1. f \in [E -> P]
    BY <1>2
  <2>2. \A u, v \in E : f[u] = f[v] => u = v
    BY <1>4
  <2> HIDE DEF f
  <2> QED
    BY <2>1, <2>2 DEF Injection, IsInjective
<1>6. IsFiniteSet(P) /\ Cardinality(P) = peak
  BY <1>t, FS_Interval
<1>7. Cardinality(E) <= peak
  <2> HIDE DEF E, P, f
  <2> QED
    BY <1>5, <1>6, FS_Injection
<1>8. A \in SUBSET (E \cup late)
  OBVIOUS
<1>9. IsFiniteSet(E \cup late) /\ Cardinality(E \cup late) <= Cardinality(E) + Cardinality(late)
  <2> HIDE DEF E
  <2>1. /\ IsFiniteSet(E \cup late) /\ IsFiniteSet(E \cap late)
        /\ Cardinality(E \cup late)
             = Cardinality(E) + Cardinality(late) - Cardinality(E \cap late)
    BY <1>1, FS_Union, FS_Intersection
  <2>2. Cardinality(E \cap late) \in Nat
    BY <2>1, FS_CardinalityType
  <2> QED
    BY <1>1, <2>1, <2>2
<1>10. Cardinality(A) <= Cardinality(E \cup late)
  <2> HIDE DEF A, E
  <2> QED
    BY <1>8, <1>9, FS_Subset
<1>11. Cardinality(E \cup late) \in Nat
  BY <1>9, FS_CardinalityType
<1>12. Cardinality(A) <= peak + Cardinality(late)
  <2> HIDE DEF A, E
  <2> QED
    BY <1>1, <1>7, <1>9, <1>10, <1>11, <1>t
<1> QED
  BY <1>12 DEF PaceIsKept

-----------------------------------------------------------------------------
(* The streams.                                                            *)

LEMMA SleepStep ==
  ASSUME RoomTypeOK, NEW u \in Watchers, SleepInv(u), [Next]_vars
  PROVE  SleepInv(u)'
<1>t. /\ now \in Nat /\ Heartbeat \in Nat \ {0} /\ wake \in [Watchers -> Nat]
      /\ overdue \in [Watchers -> Nat] /\ DrawTypes
      /\ spc \in [Users -> Steps] /\ Watchers \subseteq Users
  BY RoomAssumption DEF RoomTypeOK, TokenTypes, StreamTypes
<1>u. ASSUME UNCHANGED <<now, spc, wake, overdue>> PROVE SleepInv(u)'
  BY <1>u DEF SleepInv
<1>1. CASE Tick
  <2>1. /\ now' = now + 1 /\ wake' = wake
        /\ spc'[u] = (IF spc[u] = "plan" THEN "slow" ELSE spc[u])
        /\ overdue'[u] = (IF spc[u] = "sleep" /\ Admissible(u) THEN overdue[u] + 1 ELSE 0)
    BY <1>1, <1>t DEF Tick
  <2>2. spc[u] = "sleep" => now < wake[u]
    BY <1>1, <1>t DEF Tick, Prompt, Due
  <2>3. CASE spc[u] = "sleep"
    <3>1. overdue[u] + wake[u] <= now + Heartbeat /\ now < wake[u]
      BY <2>2, <2>3 DEF SleepInv
    <3>2. overdue'[u] \in Nat /\ overdue'[u] <= overdue[u] + 1
      BY <1>t, <2>1
    <3>3. now' <= wake'[u] /\ overdue'[u] + wake'[u] <= now' + Heartbeat
      BY <1>t, <2>1, <3>1, <3>2
    <3> QED
      BY <2>1, <2>3, <3>3 DEF SleepInv
  <2>4. CASE spc[u] # "sleep"
    BY <2>1, <2>4 DEF SleepInv
  <2> QED
    BY <2>3, <2>4
<1>2. ASSUME NEW w \in Users,
             \/ OpenStream(w) \/ PollStatus(w) \/ StatusStep(w)
             \/ PollAnswers(w) \/ SendFrame(w)
      PROVE  SleepInv(u)'
  <2>1. UNCHANGED <<now, wake, overdue>>
    BY <1>2, ReadingLeaves DEF PollAnswers, SendFrame, Answer, sale
  <2>2. spc[w] # "sleep" /\ \E pc \in Steps \ {"sleep"} : spc' = [spc EXCEPT ![w] = pc]
    BY <1>2
    DEF OpenStream, PollStatus, StatusStep, ReadStock, ReadBreaker, ReadRank, ReadWindow,
        PollAnswers, SendFrame, Answer, Goes, Steps
  <2>3. (spc'[u] = "sleep") = (spc[u] = "sleep")
    BY <1>t, <2>2
  <2> QED
    BY <2>1, <2>3 DEF SleepInv
<1>3. ASSUME NEW w \in Watchers, PlanWait(w) PROVE SleepInv(u)'
  <2>1. /\ UNCHANGED <<now, overdue>> /\ spc[w] # "sleep" /\ spc' = [spc EXCEPT ![w] = "sleep"]
        /\ wake' = [wake EXCEPT ![w] =
                      IF w \in draw /\ AdmitDeadline(w) > now
                      THEN Smaller(now + Heartbeat, AdmitDeadline(w)) ELSE now + Heartbeat]
    BY <1>3 DEF PlanWait, Goes, sale
  <2>2. CASE u = w
    <3>1. AdmitDeadline(w) \in Nat
      BY <1>t, AdmitDeadlineFacts, RoomAssumption
    <3>2. now <= wake'[u] /\ wake'[u] <= now + Heartbeat /\ wake'[u] \in Nat
      BY <1>t, <2>1, <2>2, <3>1 DEF Smaller
    <3>3. overdue[u] = 0
      BY <2>1, <2>2 DEF SleepInv
    <3>4. spc'[u] = "sleep"
      BY <1>t, <2>1, <2>2
    <3> QED
      BY <1>t, <2>1, <3>2, <3>3, <3>4 DEF SleepInv
  <2>3. CASE u # w
    <3>1. spc'[u] = spc[u] /\ wake'[u] = wake[u]
      BY <1>t, <2>1, <2>3
    <3> QED
      BY <2>1, <3>1 DEF SleepInv
  <2> QED
    BY <2>2, <2>3
<1>4. ASSUME NEW w \in Watchers, NEW pc \in {"stock", "off"}, Leaves(w, pc) PROVE SleepInv(u)'
  <2>1. /\ spc' = [spc EXCEPT ![w] = pc] /\ wake' = [wake EXCEPT ![w] = 0]
        /\ overdue' = [overdue EXCEPT ![w] = 0] /\ now' = now
    BY <1>4 DEF Leaves, Goes, sale
  <2>2. CASE u = w
    BY <1>t, <2>1, <2>2 DEF SleepInv
  <2>3. CASE u # w
    BY <1>t, <2>1, <2>3 DEF SleepInv
  <2> QED
    BY <2>2, <2>3
<1>5. CASE \E w \in Watchers : WakeUp(w) \/ CloseStream(w)
  BY <1>4, <1>5 DEF WakeUp, CloseStream
<1>6. CASE \E w \in Users : JoinQueue(w) \/ Register(w)
  BY <1>6, <1>u DEF JoinQueue, Register, sale, streams, sleep
<1>7. CASE (\E c \in Closings : EditWindow(c)) \/ InvalidateMeta \/ EditDies \/ MetaExpires
  BY <1>7, <1>u DEF EditWindow, InvalidateMeta, EditDies, MetaExpires, sale, streams, sleep
<1>8. CASE MonitorRuns
  BY <1>8, <1>u DEF MonitorRuns, sale, sleep
<1>9. CASE Publish \/ PublishFails \/ Resubscribe
  BY <1>9, <1>u DEF Publish, PublishFails, Resubscribe, sale, streams, sleep
<1>10. ASSUME NEW r \in Requests, RequestStep(r), Announce PROVE SleepInv(u)'
  BY <1>10, <1>u
  DEF RequestStep, VerifyAdmission, SubmitOrder, SubmitRefused, RefundAdmission, SubmitDies,
      RefundFails, Announce, streams, sleep
<1>11. CASE Restock /\ Announce
  BY <1>11, <1>u DEF Restock, Announce, streams, sleep
<1>12. CASE UNCHANGED vars
  BY <1>12, <1>u DEF vars, sale, streams, sleep
<1> QED
  BY <1>1, <1>2, <1>3, <1>5, <1>6, <1>7, <1>8, <1>9, <1>10, <1>11, <1>12, <1>t
  DEF Next, StreamStep

\* What a stream knows does not change as long as nothing is announced, nothing
\* that it looks at changes and it takes no step itself.
LEMMA AwareKept ==
  ASSUME RoomTypeOK, NEW u \in Watchers, AwareInv(u),
         owing => owing', unaware \subseteq unaware', box[u] => box'[u], spc'[u] = spc[u],
         saw'[u] = saw[u], halted'[u] = halted[u], frame'[u] = frame[u], wake'[u] = wake[u],
         owing' \/ (avail' = 0 <=> avail = 0), avail' \in Nat,
         owing' \/ u \in unaware' \/ paused' = paused,
         now' = now, \/ owing' \/ u \in unaware'
                     \/ UNCHANGED <<draw, score, meta>>
  PROVE  AwareInv(u)'
<1> SUFFICES ASSUME ~owing', u \notin unaware', ~box'[u]
             PROVE  /\ spc'[u] \in {"breaker", "rank", "window", "count"} => saw'[u] = (avail' = 0)
                    /\ spc'[u] \in {"rank", "window", "count"} => halted'[u] = paused'
                    /\ spc'[u] \in {"plan", "slow", "sleep"} =>
                         avail' > 0 /\ (frame'[u] = "paused") = paused'
                    /\ spc'[u] = "sleep" /\ u \in draw' /\ now' < AdmitDeadline(u)' =>
                         wake'[u] <= AdmitDeadline(u)'
  BY DEF AwareInv
<1>1. ~owing /\ u \notin unaware /\ ~box[u]
  OBVIOUS
<1>2. (avail' = 0) = (avail = 0) /\ avail \in Nat
  BY TokenAssumption DEF RoomTypeOK, TokenTypes
<1>3. AdmitDeadline(u)' = AdmitDeadline(u) /\ draw' = draw /\ paused' = paused
  BY DEF AdmitDeadline, AheadOf
<1>4. /\ spc[u] \in {"breaker", "rank", "window", "count"} => saw[u] = (avail = 0)
      /\ spc[u] \in {"rank", "window", "count"} => halted[u] = paused
      /\ spc[u] \in {"plan", "slow", "sleep"} => avail > 0 /\ (frame[u] = "paused") = paused
      /\ spc[u] = "sleep" /\ u \in draw /\ now < AdmitDeadline(u) => wake[u] <= AdmitDeadline(u)
  BY <1>1 DEF AwareInv
<1> HIDE DEF AdmitDeadline
<1>5. /\ spc'[u] \in {"breaker", "rank", "window", "count"} => saw'[u] = (avail' = 0)
      /\ spc'[u] \in {"rank", "window", "count"} => halted'[u] = paused'
  BY <1>2, <1>3, <1>4
<1>6. spc'[u] \in {"plan", "slow", "sleep"} =>
        avail' > 0 /\ (frame'[u] = "paused") = paused'
  BY <1>2, <1>3, <1>4
<1>7. spc'[u] = "sleep" /\ u \in draw' /\ now' < AdmitDeadline(u)' =>
        wake'[u] <= AdmitDeadline(u)'
  BY <1>3, <1>4
<1> QED
  BY <1>5, <1>6, <1>7

\* The stream's own steps.
LEMMA AwareOwn ==
  ASSUME RoomTypeOK, NEW u \in Watchers, AwareInv(u),
         OpenStream(u) \/ StreamStep(u) \/ CloseStream(u)
  PROVE  AwareInv(u)'
<1>t. /\ now \in Nat /\ avail \in Nat /\ paused \in BOOLEAN /\ DrawTypes /\ Heartbeat \in Nat
      /\ spc \in [Users -> Steps] /\ Watchers \subseteq Users
      /\ box \in [Watchers -> BOOLEAN] /\ saw \in [Users -> BOOLEAN]
      /\ halted \in [Users -> BOOLEAN]
      /\ frame \in [Watchers -> {"none", "soldout", "paused", "admitted", "wait"}]
      /\ wake \in [Watchers -> Nat]
  BY TokenAssumption, RoomAssumption DEF RoomTypeOK, TokenTypes, MonitorTypes, StreamTypes
<1>o. ASSUME spc'[u] \in {"off", "stock"} PROVE AwareInv(u)'
  BY <1>o DEF AwareInv
<1>1. CASE OpenStream(u)
  BY <1>1, <1>o, <1>t DEF OpenStream, Goes
<1>2. CASE WakeUp(u) \/ CloseStream(u)
  BY <1>2, <1>o, <1>t DEF WakeUp, CloseStream, Leaves, Goes
<1>3. CASE ReadStock(u)
  <2>1. spc'[u] = "breaker" /\ avail' = avail
    BY <1>3, <1>t DEF ReadStock, Goes, sale
  <2>2. saw'[u] = (avail' = 0)
    BY <1>3, <1>t, <2>1 DEF ReadStock
  <2> QED
    BY <2>1, <2>2 DEF AwareInv
<1>6. CASE ReadBreaker(u)
  <2>1. /\ spc[u] = "breaker" /\ spc'[u] = "rank" /\ halted'[u] = paused
        /\ UNCHANGED <<avail, paused, owing, unaware, box, saw>>
    BY <1>6, <1>t DEF ReadBreaker, Goes, sale, monitor, pubsub
  <2> QED
    BY <2>1 DEF AwareInv
<1>7. CASE ReadRank(u) \/ ReadWindow(u)
  <2>1. /\ spc[u] \in {"rank", "window"} /\ spc'[u] \in {"window", "count"}
        /\ UNCHANGED <<avail, paused, owing, unaware, box, saw, halted>>
    BY <1>7, <1>t DEF ReadRank, ReadWindow, Goes, sale, monitor, pubsub
  <2> QED
    BY <2>1 DEF AwareInv
<1>4. CASE SendFrame(u)
  <2> DEFINE state == QueueState(u)
  <2>1. /\ saw[u] \in BOOLEAN /\ (state \notin Final => ~saw[u])
        /\ ~saw[u] => (state = "paused") = halted[u]
    BY <1>t, QueueStateType
  <2>2. /\ spc[u] = "count" /\ frame' = [frame EXCEPT ![u] = state]
        /\ spc' = [spc EXCEPT ![u] = IF state \in Final THEN "off" ELSE "plan"]
        /\ box' = [box EXCEPT ![u] = @ /\ state \notin Final]
        /\ UNCHANGED <<avail, paused, owing, unaware>>
    BY <1>4 DEF SendFrame, Goes, Answer, pubsub, monitor
  <2> HIDE DEF state
  <2>3. CASE state \in Final
    BY <1>o, <1>t, <2>2, <2>3
  <2>4. CASE state \notin Final
    <3>1. spc'[u] = "plan" /\ frame'[u] = state /\ (box'[u] = box[u])
      BY <1>t, <2>2, <2>4
    <3>3. ~owing /\ u \notin unaware /\ ~box[u] => saw[u] = (avail = 0) /\ halted[u] = paused
      BY <2>2 DEF AwareInv
    <3>2. ~owing /\ u \notin unaware /\ ~box[u] => (frame'[u] = "paused") = paused'
      BY <2>1, <2>2, <2>4, <3>1, <3>3
    <3>4. ~owing /\ u \notin unaware /\ ~box[u] => avail' > 0
      BY <1>t, <2>1, <2>2, <2>4, <3>3
    <3> QED
      BY <2>2, <3>1, <3>2, <3>4 DEF AwareInv
  <2> QED
    BY <2>3, <2>4
<1>5. CASE PlanWait(u)
  <2>1. /\ spc[u] \in {"plan", "slow"} /\ spc' = [spc EXCEPT ![u] = "sleep"]
        /\ wake' = [wake EXCEPT ![u] =
                      IF u \in draw /\ AdmitDeadline(u) > now
                      THEN Smaller(now + Heartbeat, AdmitDeadline(u)) ELSE now + Heartbeat]
        /\ UNCHANGED <<avail, paused, owing, unaware, box, frame, now, draw, score, meta>>
    BY <1>5 DEF PlanWait, Goes, sale, monitor, window, lottery, pubsub
  <2>2. AdmitDeadline(u)' = AdmitDeadline(u)
    BY <2>1 DEF AdmitDeadline, AheadOf
  <2>3. AdmitDeadline(u) \in Nat
    BY <1>t, AdmitDeadlineFacts, RoomAssumption
  <2> HIDE DEF AdmitDeadline
  <2>4. spc'[u] = "sleep"
    BY <1>t, <2>1
  <2>5. u \in draw' /\ now' < AdmitDeadline(u)' => wake'[u] <= AdmitDeadline(u)'
    BY <1>t, <2>1, <2>2, <2>3 DEF Smaller
  <2>6. ~owing' /\ u \notin unaware' /\ ~box'[u] => avail' > 0 /\ (frame'[u] = "paused") = paused'
    BY <2>1 DEF AwareInv
  <2> QED
    BY <2>4, <2>5, <2>6 DEF AwareInv
<1> QED
  BY <1>1, <1>2, <1>3, <1>4, <1>5, <1>6, <1>7 DEF StreamStep, StatusStep

\* A registration that lands while the window is open shifts ranks back, never a
\* deadline into the past.
LEMMA AwareRegister ==
  ASSUME RoomTypeOK, NEW u \in Watchers, AwareInv(u), NEW w \in Users, Register(w)
  PROVE  AwareInv(u)'
<1>t. /\ now \in Nat /\ DrawTypes /\ DrawTypes' /\ wake \in [Watchers -> Nat] /\ meta \in Nat
      /\ u \in Users
  <2>1. RoomTypeOK'
    BY RoomTypeNext DEF Next
  <2> QED
    BY <2>1, RoomAssumption DEF RoomTypeOK, TokenTypes, StreamTypes, DrawTypes
<1>1. /\ draw' = draw \cup {w}
      /\ unaware' = unaware \cup (IF now < meta THEN {w} \cap Listeners ELSE Listeners)
      /\ UNCHANGED <<avail, paused, owing, box, spc, saw, halted, frame, now, wake, score, meta>>
  BY DEF Register, sale, monitor, window, pubsub, sleep, seen
<1>2. CASE u \notin Listeners
  BY <1>1, <1>2 DEF AwareInv, Listeners
<1>3. CASE u \in Listeners /\ (u = w \/ ~(now < meta))
  BY <1>1, <1>3 DEF AwareInv
<1>4. CASE u # w /\ now < meta
  <2>1. Rank(u) \in Nat /\ Rank(u)' \in Nat /\ Rank(u) <= Rank(u)'
    <3>1. Rank(u) \in Nat /\ Rank(u)' \in Nat
      <4>1. Rank(u) \in Nat
        BY <1>t, RankFacts
      <4>2. IsFiniteSet(draw')
        BY <1>t, RoomAssumption, FS_Subset DEF DrawTypes
      <4>3. {v \in draw' : score[v] < score[u]} \in SUBSET draw'
        OBVIOUS
      <4>4. Cardinality({v \in draw' : score[v] < score[u]}) \in Nat
        BY <4>2, <4>3, FS_Subset, FS_CardinalityType
      <4> QED
        BY <1>1, <4>1, <4>4 DEF Rank, AheadOf
    <3> DEFINE B == {v \in draw : score[v] < score[u]}
               C == {v \in draw' : score[v] < score[u]}
    <3>2. IsFiniteSet(C)
      <4>1. IsFiniteSet(draw')
        BY <1>t, RoomAssumption, FS_Subset DEF DrawTypes
      <4>2. C \in SUBSET draw'
        OBVIOUS
      <4> HIDE DEF C
      <4> QED
        BY <4>1, <4>2, FS_Subset
    <3>3. B \in SUBSET C
      BY <1>1
    <3>4. Rank(u) = Cardinality(B) /\ Rank(u)' = Cardinality(C)
      BY <1>1 DEF Rank, AheadOf
    <3> HIDE DEF B, C
    <3>5. Cardinality(B) <= Cardinality(C)
      BY <3>2, <3>3, FS_Subset
    <3> QED
      BY <3>1, <3>4, <3>5
  <2>2. AdmitDeadline(u) = meta + DeadlineAt(Rank(u)) /\ AdmitDeadline(u) \in Nat
        /\ meta <= AdmitDeadline(u)
    BY <1>t, AdmitDeadlineFacts
  <2>3. AdmitDeadline(u)' = meta + DeadlineAt(Rank(u)')
    BY <1>1 DEF AdmitDeadline, DeadlineAt, Rank
  <2>4. /\ DeadlineAt(Rank(u)) \in Nat /\ DeadlineAt(Rank(u)') \in Nat
        /\ DeadlineAt(Rank(u)) <= DeadlineAt(Rank(u)')
    BY <2>1, DeadlineFacts
  <2>5. /\ now < AdmitDeadline(u) /\ AdmitDeadline(u) <= AdmitDeadline(u)'
        /\ AdmitDeadline(u)' \in Nat
    BY <1>4, <1>t, <2>2, <2>3, <2>4
  <2>6. u \in draw' => u \in draw
    BY <1>1, <1>4
  <2> HIDE DEF AdmitDeadline
  <2>7. ASSUME ~owing', u \notin unaware', ~box'[u]
        PROVE  /\ spc'[u] \in {"breaker", "rank", "window", "count"} => saw'[u] = (avail' = 0)
               /\ spc'[u] \in {"rank", "window", "count"} => halted'[u] = paused'
               /\ spc'[u] \in {"plan", "slow", "sleep"} =>
                    avail' > 0 /\ (frame'[u] = "paused") = paused'
               /\ spc'[u] = "sleep" /\ u \in draw' => wake'[u] <= AdmitDeadline(u)'
    <3>1. ~owing /\ u \notin unaware /\ ~box[u]
      BY <1>1, <2>7
    <3>2. /\ spc[u] \in {"breaker", "rank", "window", "count"} => saw[u] = (avail = 0)
          /\ spc[u] \in {"rank", "window", "count"} => halted[u] = paused
          /\ spc[u] \in {"plan", "slow", "sleep"} => avail > 0 /\ (frame[u] = "paused") = paused
          /\ spc[u] = "sleep" /\ u \in draw => wake[u] <= AdmitDeadline(u)
      BY <2>5, <3>1 DEF AwareInv
    <3>3. spc[u] = "sleep" /\ u \in draw' => wake[u] <= AdmitDeadline(u)'
      BY <1>t, <2>2, <2>5, <2>6, <3>2
    <3> QED
      BY <1>1, <3>2, <3>3
  <2> QED
    BY <2>7 DEF AwareInv
<1> QED
  BY <1>2, <1>3, <1>4

LEMMA AwareStep ==
  ASSUME RoomTypeOK, NEW u \in Watchers, AwareInv(u), [Next]_vars
  PROVE  AwareInv(u)'
<1>t. /\ now \in Nat /\ avail \in Nat /\ avail' \in Nat
      /\ spc \in [Users -> Steps] /\ Watchers \subseteq Users
      /\ box \in [Watchers -> BOOLEAN] /\ saw \in [Users -> BOOLEAN]
      /\ halted \in [Users -> BOOLEAN]
      /\ frame \in [Watchers -> {"none", "soldout", "paused", "admitted", "wait"}]
      /\ wake \in [Watchers -> Nat]
  <2>1. RoomTypeOK'
    BY RoomTypeNext
  <2> QED
    BY <2>1, TokenAssumption, RoomAssumption DEF RoomTypeOK, TokenTypes, StreamTypes
<1>o. ASSUME spc'[u] = "off" PROVE AwareInv(u)'
  BY <1>o DEF AwareInv
<1>w. ASSUME owing' \/ u \in unaware' \/ box'[u] PROVE AwareInv(u)'
  BY <1>w DEF AwareInv
<1>l. u \in Listeners \/ spc[u] = "off"
  BY DEF Listeners
<1>1. CASE Tick
  <2>1. /\ now' = now + 1 /\ spc'[u] = (IF spc[u] = "plan" THEN "slow" ELSE spc[u])
        /\ UNCHANGED <<avail, paused, owing, unaware, box, saw, halted, frame, wake, draw, score,
                       meta>>
    BY <1>1, <1>t DEF Tick, monitor, window, lottery, pubsub, seen
  <2>2. AdmitDeadline(u)' = AdmitDeadline(u) /\ AdmitDeadline(u) \in Nat
    <3>1. AdmitDeadline(u) \in Nat
      BY AdmitDeadlineFacts, RoomAssumption DEF RoomTypeOK
    <3> QED
      BY <2>1, <3>1 DEF AdmitDeadline, AheadOf
  <2> HIDE DEF AdmitDeadline
  <2>3. now' < AdmitDeadline(u)' => now < AdmitDeadline(u)
    BY <1>t, <2>1, <2>2
  <2> QED
    BY <2>1, <2>2, <2>3 DEF AwareInv
<1>2. CASE \E w \in Users : JoinQueue(w)
  <2>1. UNCHANGED <<avail, paused, owing, unaware, box, spc, saw, halted, frame, wake, now, draw,
                    score, meta>>
    BY <1>2 DEF JoinQueue, sale, monitor, window, pubsub, streams, sleep, seen
  <2> QED
    BY <1>t, <2>1, AwareKept
<1>3. CASE \E w \in Users : Register(w)
  BY <1>3, AwareRegister
<1>4. CASE (\E c \in Closings : EditWindow(c)) \/ EditDies \/ Resubscribe
  <2>1. UNCHANGED <<avail, paused, owing, unaware, box, spc, saw, halted, frame, wake, now, draw,
                    score, meta>>
    BY <1>4
    DEF EditWindow, EditDies, Resubscribe, sale, monitor, window, lottery, pubsub, streams, sleep,
        seen
  <2> QED
    BY <1>t, <2>1, AwareKept
<1>5. CASE InvalidateMeta
  BY <1>5, <1>w DEF InvalidateMeta
<1>6. CASE MetaExpires
  BY <1>6, <1>l, <1>o, <1>w DEF MetaExpires, sleep
<1>7. CASE MonitorRuns
  <2>1. UNCHANGED <<avail, box, spc, saw, halted, frame, wake, now, draw, score, meta>>
    BY <1>7 DEF MonitorRuns, sale, window, lottery, sleep, seen
  <2>2. CASE DeadLetter \/ Jam \/ Drain \/ CollectQueueStats
    <3>1. paused' = paused
      BY <2>2 DEF DeadLetter, Jam, Drain, CollectQueueStats
    <3>2. owing' \/ UNCHANGED <<owing, unaware>> \/ (RunMissed /\ unaware \subseteq unaware' /\ owing' = owing)
      BY <1>7 DEF MonitorRuns, MonitorStep
    <3>3. owing => owing'
      BY <3>2
    <3>4. owing' \/ unaware \subseteq unaware'
      BY <3>2
    <3>5. CASE owing'
      BY <1>w, <3>5
    <3>6. CASE unaware \subseteq unaware'
      BY <1>t, <2>1, <3>1, <3>3, <3>6, AwareKept
    <3> QED
      BY <3>4, <3>5, <3>6
  <2>3. CASE SetAdmissionPaused /\ owing' = TRUE
    BY <1>w, <2>3
  <2>4. CASE /\ RunMissed /\ owing' = owing
             /\ unaware' = (IF paused # paused' THEN unaware \cup Listeners ELSE unaware)
    <3>1. CASE spc[u] = "off"
      BY <1>o, <2>1, <3>1
    <3>2. CASE u \in Listeners
      <4>1. u \in unaware' \/ paused' = paused
        BY <2>4, <3>2
      <4> QED
        BY <1>t, <2>1, <2>4, <4>1, AwareKept
    <3> QED
      BY <1>l, <3>1, <3>2
  <2> QED
    BY <1>7, <2>2, <2>3, <2>4 DEF MonitorRuns, MonitorStep
<1>8. CASE Publish \/ PublishFails
  <2>1. CASE spc[u] = "off"
    BY <1>8, <1>o, <2>1 DEF Publish, PublishFails, sleep
  <2>2. CASE u \in Listeners
    <3>1. box'[u] \/ u \in unaware'
      BY <1>8, <2>2 DEF Publish, PublishFails
    <3> QED
      BY <1>w, <3>1
  <2> QED
    BY <1>l, <2>1, <2>2
<1>13. ASSUME NEW v \in Users, v # u,
              \/ OpenStream(v) \/ PollStatus(v) \/ StatusStep(v)
              \/ PollAnswers(v) \/ SendFrame(v)
       PROVE  AwareInv(u)'
  <2>1. UNCHANGED <<avail, paused, owing, now, draw, score, meta, wake>>
    BY <1>13, ReadingLeaves
    DEF PollAnswers, SendFrame, Answer, sale, monitor, window, lottery, pubsub
  <2>2. spc'[u] = spc[u]
    BY <1>13, <1>t
    DEF OpenStream, PollStatus, StatusStep, ReadStock, ReadBreaker, ReadRank, ReadWindow,
        PollAnswers, SendFrame, Goes
  <2>3. box'[u] = box[u] /\ frame'[u] = frame[u]
    BY <1>13, <1>t, ReadingLeaves DEF PollAnswers, SendFrame
  <2>4. saw'[u] = saw[u] /\ halted'[u] = halted[u]
    BY <1>13, <1>t
    DEF OpenStream, PollStatus, StatusStep, ReadStock, ReadBreaker, ReadRank, ReadWindow,
        PollAnswers, SendFrame, Answer, seen
  <2>5. unaware' = unaware \/ unaware' = unaware \ {v}
    BY <1>13
    DEF OpenStream, PollStatus, StatusStep, ReadStock, ReadBreaker, ReadRank, ReadWindow,
        PollAnswers, SendFrame, Answer
  <2>6. (u \in unaware') = (u \in unaware)
    BY <1>13, <2>5
  <2>7. AdmitDeadline(u)' = AdmitDeadline(u)
    BY <2>1 DEF AdmitDeadline, AheadOf
  <2> HIDE DEF AdmitDeadline
  <2> QED
    BY <2>1, <2>2, <2>3, <2>4, <2>6, <2>7 DEF AwareInv
<1>9. ASSUME NEW v \in Watchers, OpenStream(v) \/ StreamStep(v) \/ CloseStream(v)
      PROVE  AwareInv(u)'
  <2>1. CASE v = u
    BY <1>9, <2>1, AwareOwn
  <2>2. ASSUME v # u, PlanWait(v) \/ WakeUp(v) \/ CloseStream(v) PROVE AwareInv(u)'
    <3>1. UNCHANGED <<avail, paused, owing, unaware, now, draw, score, meta, saw, halted>>
      BY <2>2
      DEF PlanWait, WakeUp, CloseStream, Leaves, sale, monitor, window, lottery, pubsub, seen
    <3>2. spc'[u] = spc[u] /\ box'[u] = box[u] /\ frame'[u] = frame[u]
      BY <1>t, <2>2 DEF PlanWait, WakeUp, CloseStream, Leaves, Goes
    <3>3. wake'[u] = wake[u]
      BY <1>t, <2>2 DEF PlanWait, WakeUp, CloseStream, Leaves
    <3> QED
      BY <1>t, <3>1, <3>2, <3>3, AwareKept
  <2> QED
    BY <1>9, <1>13, <1>t, <2>1, <2>2 DEF StreamStep
<1>10. CASE Announce /\ UNCHANGED now
  <2>1. /\ owing' = (owing \/ (avail # avail' /\ 0 \in {avail, avail'}))
        /\ UNCHANGED <<paused, unaware, box, spc, saw, halted, frame, wake, draw, score, meta>>
    BY <1>10 DEF Announce, monitor, window, lottery, streams, sleep, seen
  <2>2. (owing => owing') /\ (owing' \/ (avail' = 0 <=> avail = 0))
    BY <1>t, <2>1
  <2> QED
    BY <1>10, <1>t, <2>1, <2>2, AwareKept
<1>11. ASSUME NEW r \in Requests, RequestStep(r) PROVE UNCHANGED now
  BY <1>11
  DEF RequestStep, VerifyAdmission, SubmitOrder, SubmitRefused, RefundAdmission, SubmitDies,
      RefundFails
<1>12. CASE UNCHANGED vars
  <2>1. UNCHANGED <<avail, paused, owing, unaware, box, spc, saw, halted, frame, wake, now, draw,
                    score, meta>>
    BY <1>12 DEF vars, sale, monitor, window, lottery, pubsub, streams, sleep, seen
  <2> QED
    BY <1>t, <2>1, AwareKept
<1> QED
  BY <1>1, <1>2, <1>3, <1>4, <1>5, <1>6, <1>7, <1>8, <1>9, <1>10, <1>11, <1>12, <1>13, <1>t
  DEF Next, Restock

-----------------------------------------------------------------------------
(* The theorems.                                                           *)

LEMMA RoomIsInvariant == Spec => []RoomInv
<1>1. Init => RoomInv
  <2> SUFFICES ASSUME Init PROVE RoomInv
    OBVIOUS
  <2>1. CursorInv
    BY DEF Init, MonitorInit, CursorInv, BreakerIsFresh
  <2>2. PaceInv /\ ConsumedMeansAccepted
    BY TokenAssumption DEF Init, TokensInit, PaceInv, ConsumedMeansAccepted, Used
  <2>3. \A u \in Users : PassInv(u) /\ ReadInv(u)
    <3> SUFFICES ASSUME NEW u \in Users PROVE PassInv(u) /\ ReadInv(u)
      OBVIOUS
    <3>1. exp[u] = 0 /\ marker[u] = 0 /\ accepted[u] = 0
      BY DEF Init, TokensInit
    <3>2. \A r \in Requests : ruser[r] # u
      BY TokenAssumption DEF Init, TokensInit
    <3>3. now = 0 /\ ~(now + Tps <= exp[u])
      BY <3>1, TokenAssumption DEF Init, TokensInit
    <3>4. ReadInv(u)
      BY DEF Init, ReadInv
    <3> QED
      BY <3>1, <3>2, <3>3, <3>4 DEF PassInv
  <2>4. \A u \in Watchers : SleepInv(u) /\ AwareInv(u)
    BY RoomAssumption DEF Init, SleepInv, AwareInv
  <2> QED
    BY <2>1, <2>2, <2>3, <2>4, RoomTypeInit DEF RoomInv
<1>2. RoomInv /\ [Next]_vars => RoomInv'
  <2> SUFFICES ASSUME RoomInv, [Next]_vars PROVE RoomInv'
    OBVIOUS
  <2>1. RoomTypeOK' /\ CursorInv' /\ PaceInv' /\ ConsumedMeansAccepted'
    BY RoomTypeNext, CursorStep, PaceStep, ConsumedStep DEF RoomInv
  <2>2. ASSUME NEW u \in Users PROVE PassInv(u)' /\ ReadInv(u)'
    BY PassStep, ReadStep DEF RoomInv
  <2>3. ASSUME NEW u \in Watchers PROVE SleepInv(u)' /\ AwareInv(u)'
    BY SleepStep, AwareStep DEF RoomInv
  <2> QED
    BY <2>1, <2>2, <2>3 DEF RoomInv
<1> QED
  BY <1>1, <1>2, PTL DEF Spec

\* Every variable of the waiting room keeps its type; in particular each request is
\* busy exactly while it holds the pass of a user, and nobody is both in the draw
\* and about to join it.
THEOREM RoomTypesHold == Spec => []RoomTypeOK
<1>1. RoomInv => RoomTypeOK
  BY DEF RoomInv
<1> QED
  BY <1>1, RoomIsInvariant, PTL

\* Admission keeps its pace: whatever registrations land late or between the reads
\* of status(), and however the window is moved, status() has never let more users
\* in than its count allowed, apart from those who registered late or ahead of one
\* who was let in on an older rank.
THEOREM PaceHolds == Spec => []PaceIsKept
<1>1. RoomInv => PaceIsKept
  BY PaceCount DEF RoomInv
<1> QED
  BY <1>1, RoomIsInvariant, PTL

\* A stream never sleeps on a breaker or a stock that has changed, nor past the
\* instant of its admission, unless the news was lost; and then it is late by a
\* heartbeat at most.
THEOREM StreamsStaySound == Spec => []StreamsAreSound
<1>1. RoomInv => StreamsAreSound
  <2> SUFFICES ASSUME RoomInv PROVE StreamsAreSound
    OBVIOUS
  <2>1. NoMissedPoke
    BY DEF RoomInv, AwareInv, NoMissedPoke
  <2>2. ASSUME NEW u \in Watchers PROVE overdue[u] <= Heartbeat
    <3>1. /\ overdue[u] \in Nat /\ wake[u] \in Nat /\ now \in Nat /\ Heartbeat \in Nat
      BY TokenAssumption, RoomAssumption DEF RoomInv, RoomTypeOK, TokenTypes, StreamTypes
    <3> QED
      BY <3>1 DEF RoomInv, SleepInv
  <2> QED
    BY <2>1, <2>2 DEF StreamsAreSound, AdmissionIsTimely
<1> QED
  BY <1>1, RoomIsInvariant, PTL

\* A pass that bought an order is refused until its last second, whatever requests
\* with the same pass fail and refund; a used one has bought an order unless
\* something failed.
THEOREM PassesMatchOrders == Spec => []PassMatchesOrder
<1>1. RoomInv => PassMatchesOrder
  <2> SUFFICES ASSUME RoomInv PROVE PassMatchesOrder
    OBVIOUS
  <2>1. ASSUME NEW u \in Users, accepted[u] > 0, now + Tps <= exp[u] PROVE Used(u)
    <3>1. marker[u] + Tps > exp[u]
      BY <2>1 DEF RoomInv, PassInv
    <3>2. marker[u] \in Nat /\ exp[u] \in Nat /\ now \in Nat /\ Tps \in Nat
      BY TokenAssumption DEF RoomInv, RoomTypeOK, TokenTypes
    <3> QED
      BY <2>1, <3>1, <3>2 DEF Used
  <2> QED
    BY <2>1 DEF RoomInv, PassMatchesOrder, UsedPassIsRefused
<1> QED
  BY <1>1, RoomIsInvariant, PTL

\* The breaker judges exactly the dead letters that came since the run before, and
\* the backlog: an incident of the past never trips it again.
THEOREM BreakerStaysFresh == Spec => []BreakerIsFresh
<1>1. RoomInv => BreakerIsFresh
  BY DEF RoomInv, CursorInv
<1> QED
  BY <1>1, RoomIsInvariant, PTL

=============================================================================

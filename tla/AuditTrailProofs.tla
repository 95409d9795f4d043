-------------------------- MODULE AuditTrailProofs --------------------------
(* Proofs about AuditTrail, for any number of events, passes and failures. *)
EXTENDS AuditTrail, FiniteSetTheorems, TLAPS

-----------------------------------------------------------------------------
(* Days and months                                                         *)

\* A day lies between the first day of its month and that of the next.
LEMMA DayInMonth ==
  ASSUME NEW t \in Nat
  PROVE  /\ Month(t) \in Nat
         /\ FirstDay(Month(t)) <= t /\ t < FirstDay(Month(t) + 1)
<1>1. MonthLength \in Nat /\ MonthLength > 0
  BY TableAssumption
<1>2. t \div MonthLength \in Nat
  BY <1>1
<1>3. (t \div MonthLength) * MonthLength <= t
      /\ t < (t \div MonthLength + 1) * MonthLength
  BY <1>1, <1>2
<1> QED
  BY <1>2, <1>3 DEF Month, FirstDay

\* First days are in the order of their months.
LEMMA FirstDays ==
  ASSUME NEW m \in Nat, NEW n \in Nat, m <= n
  PROVE  FirstDay(m) \in Nat /\ FirstDay(n) \in Nat /\ FirstDay(m) <= FirstDay(n)
<1>1. MonthLength \in Nat
  BY TableAssumption
<1>2. n - m \in Nat /\ n = m + (n - m)
  OBVIOUS
<1>3. (n - m) * MonthLength \in Nat /\ m * MonthLength \in Nat
  BY <1>1, <1>2
<1>4. n * MonthLength = m * MonthLength + (n - m) * MonthLength
  BY <1>1
<1> QED
  BY <1>1, <1>3, <1>4 DEF FirstDay

\* Months are in the order of their days.
LEMMA MonthOrder ==
  ASSUME NEW s \in Nat, NEW t \in Nat, s <= t
  PROVE  Month(s) <= Month(t)
<1>1. /\ Month(s) \in Nat /\ Month(t) \in Nat
      /\ FirstDay(Month(s)) <= s /\ t < FirstDay(Month(t) + 1)
  BY DayInMonth
<1>2. SUFFICES ASSUME Month(t) + 1 <= Month(s) PROVE FALSE
  BY <1>1
<1>3. FirstDay(Month(t) + 1) <= FirstDay(Month(s))
      /\ FirstDay(Month(t) + 1) \in Nat /\ FirstDay(Month(s)) \in Nat
  BY <1>1, <1>2, FirstDays
<1> QED
  BY <1>1, <1>3

\* The next day is in the same month or in the next one.
LEMMA NextDay ==
  ASSUME NEW t \in Nat
  PROVE  Month(t + 1) = Month(t) \/ Month(t + 1) = Month(t) + 1
<1>1. /\ Month(t) \in Nat /\ Month(t + 1) \in Nat /\ Month(t) <= Month(t + 1)
      /\ FirstDay(Month(t + 1)) <= t + 1 /\ t < FirstDay(Month(t) + 1)
  BY DayInMonth, MonthOrder
<1>2. SUFFICES ASSUME Month(t) + 2 <= Month(t + 1) PROVE FALSE
  BY <1>1
<1>3. FirstDay(Month(t) + 2) <= FirstDay(Month(t + 1))
      /\ FirstDay(Month(t) + 2) \in Nat /\ FirstDay(Month(t + 1)) \in Nat
      /\ FirstDay(Month(t) + 1) \in Nat
  BY <1>1, <1>2, FirstDays
<1>4. FirstDay(Month(t) + 2) = FirstDay(Month(t) + 1) + MonthLength
  <2>1. MonthLength \in Nat
    BY TableAssumption
  <2>2. (Month(t) + 2) * MonthLength = (Month(t) + 1) * MonthLength + MonthLength
    BY <1>1, <2>1
  <2> QED
    BY <2>2 DEF FirstDay
<1>5. MonthLength \in Nat /\ MonthLength > 0
  BY TableAssumption
<1> QED
  BY <1>1, <1>3, <1>4, <1>5

-----------------------------------------------------------------------------
(* Types                                                                   *)

\* The assumptions on the constants, as the steps use them.
LEMMA Bounds ==
  /\ Cardinality(Events) \in Nat
  /\ Lookahead \in Nat /\ Lookahead >= 1 /\ Retention \in Nat
  /\ MaxClock \in Nat /\ MaxFaults \in Nat
  /\ MaxDeliveries \in Nat /\ MaxDeliveries >= 1
<1>1. Cardinality(Events) \in Nat
  BY TrailAssumption, FS_CardinalityType
<1> QED
  BY <1>1, TableAssumption, TrailAssumption

LEMMA EventRange == Events = 1 .. Cardinality(Events)
  BY TrailAssumption

\* The partition job stays within Months.
LEMMA MonthsOfTheRun ==
  ASSUME clock \in 0 .. MaxClock, offset \in 0 .. Lookahead
  PROVE  /\ Month(clock) \in Nat /\ Month(clock) <= Month(MaxClock)
         /\ offset < Lookahead => EnsureMonth \in Months
<1>1. Month(clock) \in Nat /\ Month(MaxClock) \in Nat /\ Month(clock) <= Month(MaxClock)
  BY Bounds, DayInMonth, MonthOrder
<1> QED
  BY <1>1, Bounds DEF EnsureMonth, Months

LEMMA TypeInit == Init => TrailTypeOK
<1> SUFFICES ASSUME Init PROVE TrailTypeOK
  OBVIOUS
<1>1. 0 .. Lookahead - 1 \subseteq Months
  BY Bounds, DayInMonth DEF Months
<1>2. /\ clock \in 0 .. MaxClock /\ parts \in SUBSET Months
      /\ offset \in 0 .. Lookahead /\ missed \in Nat /\ faults \in 0 .. MaxFaults
      /\ listed \in SUBSET Months /\ cutoff \in 0 .. MaxClock
  BY <1>1, Bounds DEF Init, TableInit
<1>3. born \in [Events -> 0 .. MaxClock] /\ rows \in [Events -> Nat]
  BY Bounds DEF Init, TableInit
<1>4. clean \in BOOLEAN /\ ensured \in BOOLEAN /\ purging \in BOOLEAN
  BY DEF Init, TableInit
<1>5. TableTypeOK
  BY <1>2, <1>3, <1>4 DEF TableTypeOK
<1> QED
  BY <1>5, Bounds DEF Init, Unlisted, TrailTypeOK

\* Every step keeps the types.
LEMMA TypeStep == TrailTypeOK /\ [Next]_vars => TrailTypeOK'
<1> SUFFICES ASSUME TrailTypeOK, [Next]_vars PROVE TrailTypeOK'
  OBVIOUS
<1> USE Bounds

<1>1. CASE UNCHANGED vars
  BY <1>1 DEF vars, table, ensure, purge, stream, pass, TrailTypeOK, TableTypeOK
<1>2. CASE Emit
  <2>1. emitted + 1 \in Events
    BY <1>2, EventRange DEF Emit, TrailTypeOK
  <2>2. born' \in [Events -> 0 .. MaxClock]
    BY <1>2, <2>1 DEF Emit, TrailTypeOK, TableTypeOK
  <2>3. emitted' \in 0 .. Cardinality(Events) /\ gone' \in 0 .. emitted'
        /\ lastRead' \in 0 .. emitted'
    BY <1>2 DEF Emit, TrailTypeOK
  <2> QED
    BY <1>2, <2>2, <2>3 DEF Emit, TrailTypeOK, TableTypeOK, table, ensure, purge,
                            stream, pass
<1>3. ASSUME NEW p \in Passes, PassStarts(p) PROVE TrailTypeOK'
  BY <1>3 DEF PassStarts, Goes, TrailTypeOK, TableTypeOK, table, ensure, purge, stream, pass
<1>4. ASSUME NEW p \in Passes, ReclaimsAll(p) PROVE TrailTypeOK'
  BY <1>4 DEF ReclaimsAll, Goes, TrailTypeOK, TableTypeOK, table, ensure, purge,
              stream, pass
<1>5. ASSUME NEW p \in Passes, ReadNew(p) PROVE TrailTypeOK'
  <2>1. PICK n \in Unread :
          /\ after' \in {[after EXCEPT ![p] = "more"], [after EXCEPT ![p] = "off"]}
          /\ todo' = [todo EXCEPT ![p] = UnreadTo(n)]
          /\ lastRead' = n /\ pel' = pel \cup UnreadTo(n)
          /\ times' = [e \in Events |-> IF e \in UnreadTo(n) THEN 1 ELSE times[e]]
    BY <1>5 DEF ReadNew
  <2>2. UnreadTo(n) \subseteq Events /\ n \in 0 .. emitted
    BY EventRange DEF UnreadTo, Unread, TrailTypeOK
  <2> QED
    BY <1>5, <2>1, <2>2 DEF ReadNew, Goes, TrailTypeOK, TableTypeOK, table, ensure,
                            purge, stream, pass
<1>6. ASSUME NEW p \in Passes, PassEnds(p) PROVE TrailTypeOK'
  BY <1>6 DEF PassEnds, Goes, TrailTypeOK, TableTypeOK, table, ensure, purge, stream, pass
<1>7. ASSUME NEW p \in Passes, WriteBatch(p) PROVE TrailTypeOK'
  <2>1. WellFormed(todo[p]) \subseteq Events /\ todo[p] \subseteq Events
    BY DEF WellFormed, TrailTypeOK
  <2>2. rows' \in [Events -> Nat] /\ faults' \in 0 .. MaxFaults
    <3>1. rows' = rows \/ Insert(WellFormed(todo[p]))
      BY <1>7 DEF WriteBatch
    <3>2. rows' \in [Events -> Nat]
      BY <3>1 DEF Insert, TrailTypeOK, TableTypeOK
    <3>3. faults' = faults \/ (faults < MaxFaults /\ faults' = faults + 1)
      BY <1>7 DEF WriteBatch, Fault
    <3> QED
      BY <3>2, <3>3 DEF TrailTypeOK, TableTypeOK
  <2>3. /\ todo' \in [Passes -> SUBSET Events] /\ wrote' \in [Passes -> SUBSET Events]
        /\ doomed' \in [Passes -> SUBSET Events]
    <3>1. doomed' = [doomed EXCEPT ![p] = todo[p] \ WellFormed(todo[p])]
          /\ todo[p] \ WellFormed(todo[p]) \in SUBSET Events
      BY <1>7, <2>1 DEF WriteBatch
    <3>2. wrote' = wrote \/ wrote' = [wrote EXCEPT ![p] = WellFormed(todo[p])]
      BY <1>7 DEF WriteBatch
    <3>3. \/ todo' = [todo EXCEPT ![p] = {}]
          \/ todo' = [todo EXCEPT ![p] = WellFormed(todo[p])]
      BY <1>7 DEF WriteBatch, TrailTypeOK
    <3>4. doomed' \in [Passes -> SUBSET Events]
      BY <3>1 DEF TrailTypeOK
    <3>5. wrote' \in [Passes -> SUBSET Events]
      BY <2>1, <3>2 DEF TrailTypeOK
    <3>6. todo' \in [Passes -> SUBSET Events]
      BY <2>1, <3>3 DEF TrailTypeOK
    <3> QED
      BY <3>4, <3>5, <3>6
  <2>4. ppc' \in [Passes -> {"off", "claim", "read", "more", "write", "each", "bury"}]
    BY <1>7 DEF WriteBatch, Goes, TrailTypeOK
  <2> QED
    BY <1>7, <2>2, <2>3, <2>4 DEF WriteBatch, TrailTypeOK, TableTypeOK, table, ensure,
                                  purge, stream, pass
<1>8. ASSUME NEW p \in Passes, AckBuried(p) PROVE TrailTypeOK'
  BY <1>8 DEF AckBuried, Goes, TrailTypeOK, TableTypeOK, table, ensure, purge, stream, pass
<1>9. ASSUME NEW p \in Passes, AckBatch(p) PROVE TrailTypeOK'
  BY <1>9 DEF AckBatch, Goes, TrailTypeOK, TableTypeOK, table, ensure, purge, stream, pass
<1>10. ASSUME NEW p \in Passes, NEW e \in Events, ClaimFails(p, e) PROVE TrailTypeOK'
  BY <1>10 DEF ClaimFails, Goes, TrailTypeOK, TableTypeOK, table, ensure, purge,
               stream, pass
<1>11. ASSUME NEW p \in Passes, NEW e \in Events, ClaimEntry(p, e) PROVE TrailTypeOK'
  <2>1. seen' \in [Passes -> [Events -> Nat]]
    BY <1>11 DEF ClaimEntry, TrailTypeOK
  <2>2. times' \in [Events -> Nat] /\ idle' \in SUBSET Events
    BY <1>11 DEF ClaimEntry, TrailTypeOK
  <2>3. doomed' \in [Passes -> SUBSET Events] /\ todo' \in [Passes -> SUBSET Events]
    <3>1. {e} \in SUBSET Events /\ todo[p] \cup {e} \in SUBSET Events
      BY DEF TrailTypeOK
    <3>2. \/ doomed' = [doomed EXCEPT ![p] = {e}] /\ todo' = todo
          \/ todo' = [todo EXCEPT ![p] = todo[p] \cup {e}] /\ doomed' = doomed
      BY <1>11 DEF ClaimEntry, TrailTypeOK
    <3> QED
      BY <3>1, <3>2 DEF TrailTypeOK
  <2> QED
    BY <1>11, <2>1, <2>2, <2>3 DEF ClaimEntry, TrailTypeOK, TableTypeOK, table, ensure,
                                   purge, stream, pass
<1>12. ASSUME NEW p \in Passes, NEW e \in Events, WriteEach(p, e) PROVE TrailTypeOK'
  <2>1. rows' \in [Events -> Nat]
    <3>1. rows' = rows \/ Insert({e})
      BY <1>12 DEF WriteEach
    <3>2. rows \in [Events -> Nat]
      BY DEF TrailTypeOK, TableTypeOK
    <3> QED
      BY <3>1, <3>2 DEF Insert
  <2>2. faults' \in 0 .. MaxFaults
    BY <1>12 DEF WriteEach, Fault, TrailTypeOK, TableTypeOK
  <2>3. todo' \in [Passes -> SUBSET Events] /\ wrote' \in [Passes -> SUBSET Events]
    BY <1>12 DEF WriteEach, TrailTypeOK
  <2>4. ppc' \in [Passes -> {"off", "claim", "read", "more", "write", "each", "bury"}]
    BY <1>12 DEF WriteEach, Goes, TrailTypeOK
  <2> QED
    BY <1>12, <2>1, <2>2, <2>3, <2>4 DEF WriteEach, TrailTypeOK, TableTypeOK, table,
                                         ensure, purge, stream, pass
<1>13. ASSUME NEW p \in Passes, NEW e \in Events, Bury(p, e) PROVE TrailTypeOK'
  BY <1>13 DEF Bury, Goes, TrailTypeOK, TableTypeOK, table, ensure, purge, stream, pass
<1>14. ASSUME NEW p \in Passes, PassDies(p) PROVE TrailTypeOK'
  BY <1>14 DEF PassDies, Goes, TrailTypeOK, TableTypeOK, table, ensure, purge, stream,
               pass, Fault, Unlisted
<1>15. ASSUME NEW e \in Events, GrowsIdle(e) PROVE TrailTypeOK'
  BY <1>15 DEF GrowsIdle, Fault, TrailTypeOK, TableTypeOK, table, ensure, purge,
               stream, pass
<1>16. ASSUME TableTypeOK', UNCHANGED <<stream, pass>> PROVE TrailTypeOK'
  BY <1>16 DEF TrailTypeOK, stream, pass
<1>17. CASE EnsureStarts /\ UNCHANGED <<stream, pass>>
  BY <1>16, <1>17 DEF EnsureStarts, TrailTypeOK, TableTypeOK, ensure, purge
<1>18. CASE EnsureCreates /\ UNCHANGED <<stream, pass>>
  <2>1. EnsureMonth \in Months
    BY <1>18, MonthsOfTheRun DEF EnsureCreates, TrailTypeOK, TableTypeOK
  <2>2. parts' \in SUBSET Months
    BY <1>18, <2>1 DEF EnsureCreates, TrailTypeOK, TableTypeOK
  <2>3. clean' \in BOOLEAN /\ ensured' \in BOOLEAN
    <3>1. clean \in BOOLEAN /\ ensured \in BOOLEAN
      BY DEF TrailTypeOK, TableTypeOK
    <3> QED
      BY <1>18, <3>1, Zenon DEF EnsureCreates
  <2>4. offset' \in 0 .. Lookahead
    BY <1>18 DEF EnsureCreates, TrailTypeOK, TableTypeOK
  <2> QED
    BY <1>16, <1>18, <2>2, <2>3, <2>4 DEF EnsureCreates, TrailTypeOK, TableTypeOK, purge
<1>19. CASE EnsureDies /\ UNCHANGED <<stream, pass>>
  BY <1>16, <1>19 DEF EnsureDies, TrailTypeOK, TableTypeOK, ensure, purge
<1>20. CASE PurgeStarts /\ UNCHANGED <<stream, pass>>
  BY <1>16, <1>20 DEF PurgeStarts, TrailTypeOK, TableTypeOK, ensure, purge
<1>21. CASE PurgeDefault /\ UNCHANGED <<stream, pass>>
  <2>1. rows' \in [Events -> Nat]
    BY <1>21 DEF PurgeDefault, TrailTypeOK, TableTypeOK
  <2>2. cutoff' \in 0 .. MaxClock
    BY <1>21 DEF PurgeDefault
  <2>3. purging' \in BOOLEAN
    BY <1>21 DEF PurgeDefault
  <2> QED
    BY <1>16, <1>21, <2>1, <2>2, <2>3 DEF PurgeDefault, TrailTypeOK, TableTypeOK, ensure
<1>22. CASE PurgeDies /\ UNCHANGED <<stream, pass>>
  <2>1. faults' \in 0 .. MaxFaults /\ cutoff' \in 0 .. MaxClock /\ listed' \in SUBSET Months
    BY <1>22 DEF PurgeDies, Fault, TrailTypeOK, TableTypeOK
  <2>2. purging' \in BOOLEAN
    BY <1>22 DEF PurgeDies
  <2> QED
    BY <1>16, <1>22, <2>1, <2>2 DEF PurgeDies, TrailTypeOK, TableTypeOK, ensure
<1>23. ASSUME NEW m \in Months, PurgeDrops(m), UNCHANGED <<stream, pass>>
      PROVE TrailTypeOK'
  <2>1. parts' \in SUBSET Months /\ rows' \in [Events -> Nat]
    BY <1>23 DEF PurgeDrops, TrailTypeOK, TableTypeOK
  <2>2. faults' \in 0 .. MaxFaults /\ listed' \in SUBSET Months
    BY <1>23 DEF PurgeDrops, Fault, TrailTypeOK, TableTypeOK
  <2> QED
    BY <1>16, <1>23, <2>1, <2>2 DEF PurgeDrops, TrailTypeOK, TableTypeOK, ensure
<1>24. CASE TimePasses /\ UNCHANGED <<stream, pass>>
  <2>1. missed' = missed \/ missed' = missed + 1
    BY <1>24, Zenon DEF TimePasses
  <2>2. ensured' \in BOOLEAN
    BY <1>24, Zenon DEF TimePasses, TrailTypeOK, TableTypeOK
  <2> QED
    BY <1>16, <1>24, <2>1, <2>2 DEF TimePasses, TrailTypeOK, TableTypeOK, purge
<1> QED
  BY <1>1, <1>2, <1>3, <1>4, <1>5, <1>6, <1>7, <1>8, <1>9, <1>10, <1>11, <1>12, <1>13,
     <1>14, <1>15, <1>17, <1>18, <1>19, <1>20, <1>21, <1>22, <1>23, <1>24, Zenon
     DEF Next, PassStep, TableStep, PurgeStep

\* Every variable of the audit pipeline keeps its type: entries, months and counts
\* stay within their bounds whatever fails.
THEOREM AuditTypeOK == Spec => []TrailTypeOK
  BY TypeInit, TypeStep, PTL DEF Spec

-----------------------------------------------------------------------------
(* The table: retention and partitions                                     *)

\* What the purge has listed was past the retention when it started.
PurgeIsLate ==
  /\ cutoff <= clock
  /\ \A m \in listed : PastRetention(m, cutoff)

\* A month without a partition, for as long as its rows are to be kept, tells of
\* as many missed months as the job had for it so far.
MissingTells ==
  \A m \in Months : m \notin parts /\ ~PastRetention(m, clock) =>
    /\ m <= Month(clock) => missed >= Lookahead - 1
    /\ Month(clock) < m => missed >= Month(clock) + Lookahead - 1 - m
    /\ ensured /\ Month(clock) < m => missed >= Month(clock) + Lookahead - m

\* A run without a failure has all the months behind it.
RunBehind ==
  offset < Lookahead /\ clean =>
    \A m \in Months : Month(clock) <= m /\ m < Month(clock) + offset => m \in parts

TableInv ==
  /\ \A e \in Events : born[e] <= clock
  /\ PurgeIsLate /\ MissingTells /\ RunBehind

\* A partition that is past the retention only holds old rows.
LEMMA PastIsOld ==
  ASSUME NEW t \in Nat, NEW now \in Nat, PastRetention(Month(t), now)
  PROVE  Old(t, now)
<1>1. Month(t) \in Nat /\ t < FirstDay(Month(t) + 1)
  BY DayInMonth
<1>2. FirstDay(Month(t) + 1) \in Nat
  BY <1>1, FirstDays
<1> QED
  BY <1>1, <1>2, Bounds DEF PastRetention, Old

\* Months from the current one on are not past the retention.
LEMMA PresentIsKept ==
  ASSUME NEW m \in Nat, NEW now \in Nat, Month(now) <= m
  PROVE  ~PastRetention(m, now)
<1>1. Month(now) \in Nat /\ now < FirstDay(Month(now) + 1)
  BY DayInMonth
<1>2. /\ FirstDay(Month(now) + 1) \in Nat /\ FirstDay(m + 1) \in Nat
      /\ FirstDay(Month(now) + 1) <= FirstDay(m + 1)
  BY <1>1, FirstDays
<1> QED
  BY <1>1, <1>2, Bounds DEF PastRetention

\* A month that is past the retention stays so.
LEMMA PastStaysPast ==
  ASSUME NEW m \in Nat, NEW now \in Nat, NEW later \in Nat, now <= later,
         PastRetention(m, now)
  PROVE  PastRetention(m, later)
<1>1. FirstDay(m + 1) \in Nat
  BY FirstDays
<1> QED
  BY <1>1, Bounds DEF PastRetention

LEMMA TableInvInit == Init => TableInv
<1> SUFFICES ASSUME Init PROVE TableInv
  OBVIOUS
<1>1. clock = 0 /\ cutoff = 0 /\ listed = {} /\ offset = Lookahead /\ missed = 0
      /\ parts = 0 .. Lookahead - 1 /\ born = [e \in Events |-> 0]
  BY DEF Init, TableInit
<1>2. ~ensured
  BY DEF Init, TableInit
<1>3. Month(0) \in Nat
  BY DayInMonth
<1>4. Month(0) = 0
  <2>1. FirstDay(Month(0)) <= 0
    BY DayInMonth
  <2>2. MonthLength \in Nat /\ MonthLength >= 1
    BY TableAssumption
  <2>3. SUFFICES ASSUME 1 <= Month(0) PROVE FALSE
    BY <1>3
  <2>4. FirstDay(1) <= FirstDay(Month(0)) /\ FirstDay(Month(0)) \in Nat
    BY <1>3, <2>3, FirstDays
  <2>5. FirstDay(1) = MonthLength
    BY <2>2 DEF FirstDay
  <2> QED
    BY <2>1, <2>2, <2>4, <2>5
<1>5. MissingTells
  <2> SUFFICES ASSUME NEW m \in Months, m \notin parts
               PROVE  /\ m <= Month(clock) => missed >= Lookahead - 1
                      /\ Month(clock) < m => missed >= Month(clock) + Lookahead - 1 - m
    BY <1>2 DEF MissingTells
  <2>1. m \in Nat
    BY DayInMonth, Bounds DEF Months
  <2> QED
    BY <1>1, <1>4, <2>1, Bounds
<1>6. RunBehind
  BY <1>1, Bounds DEF RunBehind
<1> QED
  BY <1>1, <1>5, <1>6 DEF TableInv, PurgeIsLate

\* Every step keeps the invariant of the table.
LEMMA TableInvStep == TrailTypeOK /\ TableInv /\ [Next]_vars => TableInv'
<1> SUFFICES ASSUME TrailTypeOK, TableInv, [Next]_vars PROVE TableInv'
  OBVIOUS
<1> USE Bounds
<1>t. /\ clock \in Nat /\ offset \in Nat /\ missed \in Nat /\ cutoff \in Nat
      /\ parts \subseteq Months /\ listed \subseteq Months
      /\ Month(clock) \in Nat
      /\ \A m \in Months : m \in Nat
  <2>1. clock \in Nat /\ offset \in Nat /\ missed \in Nat /\ cutoff \in Nat
        /\ parts \subseteq Months /\ listed \subseteq Months
    BY DEF TrailTypeOK, TableTypeOK
  <2>2. Month(clock) \in Nat /\ Month(MaxClock) \in Nat
    BY <2>1, DayInMonth
  <2> QED
    BY <2>1, <2>2 DEF Months
<1>s. ASSUME UNCHANGED <<clock, parts, born, ensure, purge>> PROVE TableInv'
  BY <1>s DEF TableInv, PurgeIsLate, MissingTells, RunBehind, PastRetention, ensure, purge
<1>1. CASE UNCHANGED vars
  BY <1>s, <1>1 DEF vars, table
<1>2. CASE Emit
  <2>1. \A e \in Events : born'[e] = born[e] \/ born'[e] = clock
    BY <1>2 DEF Emit, TrailTypeOK, TableTypeOK
  <2>2. \A e \in Events : born'[e] <= clock'
    BY <1>2, <1>t, <2>1 DEF Emit, TableInv
  <2>3. UNCHANGED <<clock, parts, ensure, purge>>
    BY <1>2 DEF Emit
  <2>4. PurgeIsLate' /\ MissingTells' /\ RunBehind'
    BY <2>3 DEF TableInv, PurgeIsLate, MissingTells, RunBehind, PastRetention, ensure, purge
  <2> QED
    BY <2>2, <2>4 DEF TableInv
<1>3. ASSUME NEW p \in Passes, PassStep(p) \/ PassDies(p) PROVE TableInv'
  <2>1. UNCHANGED <<clock, parts, born, ensure, purge>>
    BY <1>3 DEF PassStep, PassStarts, ReclaimsAll, ReadNew, PassEnds, WriteBatch, AckBuried,
                AckBatch, ClaimFails, ClaimEntry, WriteEach, Bury, PassDies, table
  <2> QED
    BY <1>s, <2>1
<1>4. ASSUME NEW e \in Events, GrowsIdle(e) PROVE TableInv'
  BY <1>s, <1>4 DEF GrowsIdle, table
<1>5. CASE EnsureStarts
  <2>1. UNCHANGED <<clock, parts, born, clean, ensured, missed, purge>> /\ offset' = 0
    BY <1>5 DEF EnsureStarts
  <2>2. RunBehind'
    BY <1>t, <2>1 DEF RunBehind
  <2>3. (\A e \in Events : born'[e] <= clock') /\ PurgeIsLate' /\ MissingTells'
    BY <2>1 DEF TableInv, PurgeIsLate, MissingTells, PastRetention, purge
  <2> QED
    BY <2>2, <2>3 DEF TableInv
<1>6. CASE EnsureCreates
  <2>1. UNCHANGED <<clock, born, missed,
     purge>> /\ offset' = offset + 1 /\ offset < Lookahead
    BY <1>6 DEF EnsureCreates
  <2>2. PICK ok \in BOOLEAN :
          /\ parts' = IF ok THEN parts \cup {EnsureMonth} ELSE parts
          /\ IF offset' = Lookahead
             THEN clean' = TRUE /\ ensured' = (ensured \/ (clean /\ ok))
             ELSE clean' = (clean /\ ok) /\ UNCHANGED ensured
    BY <1>6 DEF EnsureCreates
  <2>3. parts \subseteq parts'
    BY <2>2
  <2>4. (\A e \in Events : born'[e] <= clock') /\ PurgeIsLate'
    BY <2>1 DEF TableInv, PurgeIsLate, PastRetention, purge
  <2>5. ASSUME ok, clean, NEW m \in Months, Month(clock) <= m, m < Month(clock) + offset + 1
        PROVE  m \in parts'
    <3>1. CASE m < Month(clock) + offset
      BY <2>1, <2>3, <2>5, <3>1 DEF TableInv, RunBehind
    <3>2. CASE m = Month(clock) + offset
      BY <2>2, <2>5, <3>2 DEF EnsureMonth
    <3> QED
      BY <1>t, <2>5, <3>1, <3>2
  <2>6. RunBehind'
    <3>1. SUFFICES ASSUME offset' < Lookahead, clean', NEW m \in Months,
                          Month(clock) <= m, m < Month(clock) + offset'
                   PROVE  m \in parts'
      BY <2>1 DEF RunBehind
    <3>2. ok /\ clean
      <4>1. offset' # Lookahead
        BY <1>t, <3>1
      <4> QED
        BY <2>2, <3>1, <4>1, Zenon
    <3>3. m < Month(clock) + offset + 1
      BY <1>t, <2>1, <3>1
    <3> QED
      BY <2>5, <3>1, <3>2, <3>3
  <2>7. MissingTells'
    <3>1. SUFFICES ASSUME NEW m \in Months, m \notin parts', ~PastRetention(m, clock)
                   PROVE  /\ m <= Month(clock) => missed >= Lookahead - 1
                          /\ Month(clock) < m => missed >= Month(clock) + Lookahead - 1 - m
                          /\ ensured' /\ Month(clock) < m
                               => missed >= Month(clock) + Lookahead - m
      BY <2>1 DEF MissingTells, PastRetention
    <3>2. /\ m <= Month(clock) => missed >= Lookahead - 1
          /\ Month(clock) < m => missed >= Month(clock) + Lookahead - 1 - m
          /\ ensured /\ Month(clock) < m => missed >= Month(clock) + Lookahead - m
      BY <2>3, <3>1 DEF TableInv, MissingTells
    <3>3. ASSUME ensured', Month(clock) < m
          PROVE  missed >= Month(clock) + Lookahead - m
      <4>1. CASE ensured
        BY <3>2, <3>3, <4>1
      <4>2. CASE ~ensured
        <5>1. offset' = Lookahead /\ clean /\ ok
          BY <2>2, <3>3, <4>2, Zenon
        <5>2. ~(m < Month(clock) + Lookahead)
          BY <1>t, <2>1, <2>5, <3>1, <3>3, <5>1
        <5> QED
          BY <1>t, <5>2
      <4> QED
        BY <4>1, <4>2
    <3> QED
      BY <3>2, <3>3
  <2> QED
    BY <2>4, <2>6, <2>7 DEF TableInv
<1>7. CASE EnsureDies
  <2>1. UNCHANGED <<clock, parts, born, ensured, missed, purge>> /\ offset' = Lookahead
    BY <1>7 DEF EnsureDies
  <2>2. RunBehind'
    BY <1>t, <2>1 DEF RunBehind
  <2>3. (\A e \in Events : born'[e] <= clock') /\ PurgeIsLate' /\ MissingTells'
    BY <2>1 DEF TableInv, PurgeIsLate, MissingTells, PastRetention, purge
  <2> QED
    BY <2>2, <2>3 DEF TableInv
<1>8. CASE PurgeStarts
  <2>1. UNCHANGED <<clock, parts, born, ensure>> /\ cutoff' = clock
        /\ listed' = {m \in parts : PastRetention(m, clock)}
    BY <1>8 DEF PurgeStarts
  <2>2. PurgeIsLate'
    BY <1>t, <2>1 DEF PurgeIsLate, PastRetention
  <2>3. (\A e \in Events : born'[e] <= clock') /\ MissingTells' /\ RunBehind'
    BY <2>1 DEF TableInv, MissingTells, RunBehind, PastRetention, ensure
  <2> QED
    BY <2>2, <2>3 DEF TableInv
<1>9. CASE PurgeDefault \/ PurgeDies
  <2>1. UNCHANGED <<clock, parts, born, ensure>> /\ cutoff' = 0 /\ listed' = {}
    BY <1>9 DEF PurgeDefault, PurgeDies
  <2>2. PurgeIsLate'
    BY <1>t, <2>1 DEF PurgeIsLate
  <2>3. (\A e \in Events : born'[e] <= clock') /\ MissingTells' /\ RunBehind'
    BY <2>1 DEF TableInv, MissingTells, RunBehind, PastRetention, ensure
  <2> QED
    BY <2>2, <2>3 DEF TableInv
<1>10. ASSUME NEW m \in Months, PurgeDrops(m) PROVE TableInv'
  <2>1. /\ UNCHANGED <<clock, born, ensure, cutoff>> /\ m \in listed
        /\ listed' = listed \ {m} /\ (parts' = parts \/ parts' = parts \ {m})
    BY <1>10 DEF PurgeDrops
  <2>2. PastRetention(m, cutoff) /\ cutoff <= clock
    BY <2>1 DEF TableInv, PurgeIsLate
  <2>3. PastRetention(m, clock)
    BY <1>t, <2>2, PastStaysPast
  <2>4. PurgeIsLate'
    BY <2>1 DEF TableInv, PurgeIsLate, PastRetention
  <2>5. MissingTells'
    BY <2>1, <2>3 DEF TableInv, MissingTells, PastRetention, ensure
  <2>6. RunBehind'
    <3>1. ~(Month(clock) <= m)
      BY <1>t, <2>3, PresentIsKept
    <3> QED
      BY <2>1, <3>1 DEF TableInv, RunBehind, ensure
  <2> QED
    BY <2>1, <2>4, <2>5, <2>6 DEF TableInv
<1>11. CASE TimePasses
  <2>1. UNCHANGED <<parts, born, purge>> /\ clock' = clock + 1 /\ offset' = Lookahead
    BY <1>11 DEF TimePasses
  <2>2. \/ Month(clock') = Month(clock) /\ UNCHANGED <<ensured, missed>>
        \/ /\ Month(clock') = Month(clock) + 1 /\ ~ensured'
           /\ missed' = IF ensured THEN missed ELSE missed + 1
    BY <1>11, <1>t, NextDay DEF TimePasses
  <2>3. RunBehind'
    BY <1>t, <2>1 DEF RunBehind
  <2>4. PurgeIsLate'
    BY <1>t, <2>1 DEF TableInv, PurgeIsLate, PastRetention, purge
  <2>5. \A e \in Events : born'[e] <= clock'
    BY <1>t, <2>1 DEF TableInv, TrailTypeOK, TableTypeOK
  <2>6. MissingTells'
    <3>1. SUFFICES ASSUME NEW m \in Months, m \notin parts, ~PastRetention(m, clock')
                   PROVE  /\ m <= Month(clock') => missed' >= Lookahead - 1
                          /\ Month(clock') < m
                               => missed' >= Month(clock') + Lookahead - 1 - m
                          /\ ensured' /\ Month(clock') < m
                               => missed' >= Month(clock') + Lookahead - m
      BY <2>1 DEF MissingTells, PastRetention
    <3>2. ~PastRetention(m, clock)
      BY <1>t, <2>1, <3>1, PastStaysPast
    <3>3. /\ m <= Month(clock) => missed >= Lookahead - 1
          /\ Month(clock) < m => missed >= Month(clock) + Lookahead - 1 - m
          /\ ensured /\ Month(clock) < m => missed >= Month(clock) + Lookahead - m
      BY <3>1, <3>2 DEF TableInv, MissingTells
    <3>4. CASE Month(clock') = Month(clock) /\ UNCHANGED <<ensured, missed>>
      BY <3>3, <3>4
    <3>5. CASE /\ Month(clock') = Month(clock) + 1 /\ ~ensured' /\ ensured
               /\ missed' = missed
      BY <1>t, <3>3, <3>5
    <3>6. CASE Month(clock') = Month(clock) + 1 /\ ~ensured' /\ missed' = missed + 1
      BY <1>t, <3>3, <3>6
    <3> QED
      BY <2>2, <3>4, <3>5, <3>6, Zenon
  <2> QED
    BY <2>3, <2>4, <2>5, <2>6 DEF TableInv
<1> QED
  BY <1>1, <1>2, <1>3, <1>4, <1>5, <1>6, <1>7, <1>8, <1>9, <1>10, <1>11, Zenon
     DEF Next, TableStep, PurgeStep

\* The partition job is the only reason for rows in DEFAULT: while a row there is
\* to be kept, the job has failed for as many months as it looks ahead.
THEOREM DefaultTells == Spec => []DefaultIsAlarm
<1>1. TrailTypeOK /\ TableInv => DefaultIsAlarm
  <2> SUFFICES ASSUME TrailTypeOK, TableInv, NEW e \in Events,
                      ~Old(born[e], clock), Month(born[e]) \notin parts
               PROVE  missed >= Lookahead - 1
    BY DEF DefaultIsAlarm
  <2>1. born[e] \in Nat /\ clock \in Nat /\ born[e] <= clock /\ clock <= MaxClock
    BY Bounds DEF TrailTypeOK, TableTypeOK, TableInv
  <2>2. /\ Month(born[e]) \in Nat /\ Month(born[e]) <= Month(clock)
        /\ Month(clock) \in Nat /\ Month(clock) <= Month(MaxClock)
        /\ Month(MaxClock) \in Nat
    BY <2>1, Bounds, DayInMonth, MonthOrder
  <2>3. Month(born[e]) \in Months
    BY <2>2, Bounds DEF Months
  <2>4. ~PastRetention(Month(born[e]), clock)
    BY <2>1, PastIsOld
  <2> QED
    BY <2>2, <2>3, <2>4 DEF TableInv, MissingTells
<1> QED
  BY <1>1, TypeInit, TypeStep, TableInvInit, TableInvStep, PTL DEF Spec

-----------------------------------------------------------------------------
(* Rows stay for as long as the retention                                  *)

PassActs(p) == PassStep(p) \/ PassDies(p)

\* A step deletes old rows only.
LEMMA RowsStay ==
  ASSUME TrailTypeOK, TableInv, [Next]_vars, NEW e \in Events
  PROVE  rows'[e] >= rows[e] \/ Old(born[e], clock)
<1>t. /\ rows \in [Events -> Nat] /\ rows[e] \in Nat /\ born[e] \in Nat
      /\ clock \in Nat /\ cutoff \in Nat /\ cutoff <= clock
  BY Bounds DEF TrailTypeOK, TableTypeOK, TableInv, PurgeIsLate
<1>1. CASE UNCHANGED rows
  BY <1>t, <1>1
<1>2. ASSUME NEW S, Insert(S) PROVE rows'[e] >= rows[e]
  BY <1>t, <1>2 DEF Insert
<1>3. ASSUME NEW p \in Passes, WriteBatch(p) PROVE rows'[e] >= rows[e]
  <2>1. UNCHANGED rows \/ Insert(WellFormed(todo[p]))
    BY <1>3 DEF WriteBatch
  <2> QED
    BY <1>t, <1>2, <2>1
<1>4. ASSUME NEW p \in Passes, NEW d \in Events, WriteEach(p, d) PROVE rows'[e] >= rows[e]
  <2>1. UNCHANGED rows \/ Insert({d})
    BY <1>4 DEF WriteEach
  <2> QED
    BY <1>t, <1>2, <2>1
<1>5. CASE PurgeDefault
  <2>1. CASE Old(born[e], cutoff)
    BY <1>t, <2>1, Bounds DEF Old
  <2>2. CASE ~Old(born[e], cutoff)
    BY <1>5, <1>t, <2>2 DEF PurgeDefault
  <2> QED
    BY <2>1, <2>2
<1>6. ASSUME NEW m \in Months, PurgeDrops(m)
      PROVE  rows'[e] >= rows[e] \/ Old(born[e], clock)
  <2>1. PastRetention(m, cutoff)
    BY <1>6 DEF PurgeDrops, TableInv, PurgeIsLate
  <2>2. CASE Month(born[e]) = m
    <3>1. Old(born[e], cutoff)
      BY <1>t, <2>1, <2>2, PastIsOld
    <3> QED
      BY <1>t, <3>1, Bounds DEF Old
  <2>3. CASE Month(born[e]) # m
    BY <1>6, <1>t, <2>3 DEF PurgeDrops
  <2> QED
    BY <2>2, <2>3
<1>7. \/ UNCHANGED rows \/ PurgeDefault
      \/ (\E p \in Passes : WriteBatch(p) \/ \E d \in Events : WriteEach(p, d))
      \/ \E m \in Months : PurgeDrops(m)
  <2>1. ASSUME NEW p \in Passes, PassActs(p)
        PROVE UNCHANGED rows \/ WriteBatch(p) \/ \E d \in Events : WriteEach(p, d)
    BY <2>1 DEF PassActs, PassStep, PassStarts, ReclaimsAll, ReadNew, PassEnds, AckBuried,
                AckBatch, ClaimFails, ClaimEntry, Bury, PassDies, table
  <2>2. CASE UNCHANGED vars
    BY <2>2 DEF vars, table
  <2>3. CASE Emit \/ \E d \in Events : GrowsIdle(d)
    BY <2>3 DEF Emit, GrowsIdle, table
  <2>4. CASE TableStep
    BY <2>4 DEF TableStep, PurgeStep, EnsureStarts, EnsureCreates, EnsureDies, PurgeStarts,
                PurgeDies, TimePasses
  <2> QED
    BY <2>1, <2>2, <2>3, <2>4, Zenon DEF Next, PassActs
<1> QED
  BY <1>1, <1>3, <1>4, <1>5, <1>6, <1>7, Zenon

\* The purge never deletes a row within the retention, although its cutoff grows
\* stale while it runs and partitions come and go meanwhile.
THEOREM RetentionHolds == Spec => RetentionIsKept
<1>1. TrailTypeOK /\ TableInv /\ [Next]_vars
        => [\A e \in Events : rows'[e] < rows[e] => Old(born[e], clock)]_vars
  <2> SUFFICES ASSUME TrailTypeOK, TableInv, [Next]_vars, NEW e \in Events,
                      rows'[e] < rows[e]
               PROVE  Old(born[e], clock)
    OBVIOUS
  <2>1. rows[e] \in Nat
    BY DEF TrailTypeOK, TableTypeOK
  <2>2. rows'[e] \in Nat
    BY TypeStep DEF TrailTypeOK, TableTypeOK
  <2> QED
    BY <2>1, <2>2, RowsStay
<1> QED
  BY <1>1, TypeInit, TypeStep, TableInvInit, TableInvStep, PTL DEF Spec, RetentionIsKept

-----------------------------------------------------------------------------
(* No entry vanishes                                                       *)

\* The event has its row, or had it for long enough.
Landed(e) == rows[e] > 0 \/ Old(born[e], clock)

\* What passes hold was emitted; what they have written is in Postgres, and what
\* they are about to acknowledge as dead is in the dead-letter stream.
PassesAreHonest ==
  /\ \A e \in pel : e <= emitted
  /\ \A p \in Passes : \A e \in todo[p] : e <= emitted
  /\ \A p \in Passes : \A e \in wrote[p] : e <= emitted /\ Landed(e)
  /\ \A p \in Passes : \A e \in buried[p] : e \in dead

Accounted(e) == e <= gone \/ e > lastRead \/ e \in pel \cup dead \/ Landed(e)

VanishInv ==
  /\ PassesAreHonest
  /\ \A e \in Events : e <= emitted => Accounted(e)

\* Once landed, an event stays so.
LEMMA LandedLasts ==
  ASSUME TrailTypeOK, TableInv, [Next]_vars, NEW e \in Events, e <= emitted, Landed(e)
  PROVE  Landed(e)'
<1>t. /\ rows[e] \in Nat /\ born[e] \in Nat /\ clock \in Nat /\ emitted \in Nat
      /\ e \in Nat
  BY Bounds, EventRange DEF TrailTypeOK, TableTypeOK
<1>p. rows'[e] \in Nat
  BY TypeStep DEF TrailTypeOK, TableTypeOK
<1>1. born'[e] = born[e] /\ (clock' = clock \/ clock' = clock + 1)
  <2>1. ASSUME NEW p \in Passes, PassActs(p) PROVE UNCHANGED <<born, clock>>
    BY <2>1 DEF PassActs, PassStep, PassStarts, ReclaimsAll, ReadNew, PassEnds, WriteBatch,
                AckBuried, AckBatch, ClaimFails, ClaimEntry, WriteEach, Bury, PassDies,
                   table
  <2>2. CASE UNCHANGED vars
    BY <2>2 DEF vars, table
  <2>3. CASE Emit
    <3>1. born' = [born EXCEPT ![emitted + 1] = clock] /\ clock' = clock
      BY <2>3 DEF Emit
    <3>2. e # emitted + 1
      BY <1>t
    <3> QED
      BY <3>1, <3>2 DEF TrailTypeOK, TableTypeOK
  <2>4. CASE \E d \in Events : GrowsIdle(d)
    BY <2>4 DEF GrowsIdle, table
  <2>5. CASE TableStep
    BY <2>5 DEF TableStep, PurgeStep, EnsureStarts, EnsureCreates, EnsureDies, PurgeStarts,
                PurgeDefault, PurgeDrops, PurgeDies, TimePasses
  <2> QED
    BY <2>1, <2>2, <2>3, <2>4, <2>5, Zenon DEF Next, PassActs
<1>2. CASE Old(born[e], clock)
  BY <1>t, <1>1, <1>2, Bounds DEF Old, Landed
<1>3. CASE ~Old(born[e], clock)
  <2>1. rows[e] > 0 /\ rows'[e] >= rows[e]
    BY <1>3, RowsStay DEF Landed
  <2> QED
    BY <1>t, <1>p, <2>1 DEF Landed
<1> QED
  BY <1>2, <1>3

LEMMA VanishInit == Init => VanishInv
  BY EventRange, Bounds DEF Init, VanishInv, PassesAreHonest, Accounted, Landed

\* A step of a pass that changes none of its sets but perhaps drops them, and leaves
\* the stream alone, keeps the invariant.
LEMMA VanishStutter ==
  ASSUME TrailTypeOK, TableInv, VanishInv, [Next]_vars,
         emitted' = emitted, UNCHANGED <<gone, lastRead, pel, dead>>,
         \A p \in Passes : /\ todo'[p] \subseteq todo[p]
                           /\ wrote'[p] \subseteq wrote[p]
                           /\ buried'[p] \subseteq buried[p]
  PROVE  VanishInv'
<1>t. \A p \in Passes : wrote[p] \subseteq Events
  BY DEF TrailTypeOK
<1>1. \A e \in Events : e <= emitted /\ Landed(e) => Landed(e)'
  BY LandedLasts
<1>2. PassesAreHonest'
  BY <1>t, <1>1 DEF VanishInv, PassesAreHonest
<1>3. \A e \in Events : e <= emitted' => Accounted(e)'
  BY <1>1 DEF VanishInv, Accounted
<1> QED
  BY <1>2, <1>3 DEF VanishInv

\* Every step keeps the account of the entries.
LEMMA VanishStep == TrailTypeOK /\ TableInv /\ VanishInv /\ [Next]_vars => VanishInv'
<1> SUFFICES ASSUME TrailTypeOK, TableInv, VanishInv, [Next]_vars PROVE VanishInv'
  OBVIOUS
<1>t. /\ emitted \in Nat /\ gone \in Nat /\ lastRead \in Nat /\ lastRead <= emitted
      /\ gone <= emitted /\ \A e \in Events : e \in Nat
      /\ pel \subseteq Events /\ dead \subseteq Events
      /\ todo \in [Passes -> SUBSET Events] /\ wrote \in [Passes -> SUBSET Events]
      /\ doomed \in [Passes -> SUBSET Events] /\ buried \in [Passes -> SUBSET Events]
  BY Bounds, EventRange DEF TrailTypeOK
<1>l. \A e \in Events : e <= emitted /\ Landed(e) => Landed(e)'
  BY LandedLasts
<1>h. PassesAreHonest /\ \A e \in Events : e <= emitted => Accounted(e)
  BY DEF VanishInv
<1>1. CASE UNCHANGED vars
  BY <1>1, VanishStutter DEF vars, stream, pass
<1>2. CASE Emit
  <2>1. /\ UNCHANGED <<lastRead, pel, dead, todo, wrote, buried>>
        /\ emitted' = emitted + 1 /\ gone' \in Nat /\ gone' >= gone
    BY <1>2, <1>t DEF Emit, pass
  <2>2. PassesAreHonest'
    BY <1>h, <1>l, <1>t, <2>1 DEF PassesAreHonest
  <2>3. ASSUME NEW e \in Events, e <= emitted' PROVE Accounted(e)'
    <3>1. CASE e <= emitted
      BY <1>h, <1>l, <1>t, <2>1, <3>1 DEF Accounted
    <3>2. CASE e > lastRead
      BY <2>1, <3>2 DEF Accounted
    <3> QED
      BY <1>t, <2>1, <2>3, <3>1, <3>2
  <2> QED
    BY <2>2, <2>3 DEF VanishInv
<1>3. ASSUME NEW p \in Passes,
             PassStarts(p) \/ ReclaimsAll(p) \/ PassEnds(p) \/ PassDies(p)
      PROVE  VanishInv'
  <2>1. UNCHANGED <<emitted, gone, lastRead, pel, dead>>
    BY <1>3 DEF PassStarts, ReclaimsAll, PassEnds, PassDies, stream
  <2>2. ASSUME NEW q \in Passes
        PROVE  /\ todo'[q] \subseteq todo[q] /\ wrote'[q] \subseteq wrote[q]
               /\ buried'[q] \subseteq buried[q]
    BY <1>3, <1>t DEF PassStarts, ReclaimsAll, PassEnds, PassDies
  <2> QED
    BY <2>1, <2>2, VanishStutter
<1>4. ASSUME NEW p \in Passes, ReadNew(p) PROVE VanishInv'
  <2>1. PICK n \in Unread :
          /\ todo' = [todo EXCEPT ![p] = UnreadTo(n)]
          /\ lastRead' = n /\ pel' = pel \cup UnreadTo(n)
    BY <1>4 DEF ReadNew
  <2>2. UNCHANGED <<emitted, gone, dead, wrote, buried>>
    BY <1>4 DEF ReadNew
  <2>3. \A e \in UnreadTo(n) : e <= emitted
    BY DEF UnreadTo, Unread
  <2>4. PassesAreHonest'
    BY <1>h, <1>l, <1>t, <2>1, <2>2, <2>3 DEF PassesAreHonest
  <2>5. ASSUME NEW e \in Events, e <= emitted PROVE Accounted(e)'
    <3>1. CASE e > lastRead /\ e <= n /\ e > gone
      BY <2>1, <2>2, <2>5, <3>1 DEF Accounted, UnreadTo, Unread
    <3>2. CASE e > n
      BY <2>1, <3>2 DEF Accounted
    <3>3. CASE e <= gone
      BY <2>2, <3>3 DEF Accounted
    <3>4. CASE e <= lastRead
      BY <1>h, <1>l, <1>t, <2>1, <2>2, <2>5, <3>4 DEF Accounted
    <3> QED
      BY <1>t, <3>1, <3>2, <3>3, <3>4 DEF Unread
  <2> QED
    BY <2>2, <2>4, <2>5 DEF VanishInv
<1>5. ASSUME NEW p \in Passes, WriteBatch(p) PROVE VanishInv'
  <2>1. UNCHANGED <<emitted, gone, lastRead, pel, dead, buried>>
    BY <1>5 DEF WriteBatch, stream
  <2>2. \A q \in Passes : todo'[q] \subseteq todo[q]
    BY <1>5, <1>t DEF WriteBatch, WellFormed
  <2>3. ASSUME NEW q \in Passes, NEW e \in wrote'[q] PROVE e <= emitted /\ Landed(e)'
    <3>1. CASE e \in wrote[q]
      BY <1>h, <1>l, <1>t, <3>1 DEF PassesAreHonest
    <3>2. CASE e \notin wrote[q]
      <4>1. e \in todo[p] /\ e \in WellFormed(todo[p]) /\ Insert(WellFormed(todo[p]))
        BY <1>5, <1>t, <2>3, <3>2 DEF WriteBatch, WellFormed
      <4>2. rows'[e] > 0
        BY <1>t, <4>1 DEF Insert, TrailTypeOK, TableTypeOK
      <4> QED
        BY <1>h, <4>1, <4>2 DEF PassesAreHonest, Landed
    <3> QED
      BY <3>1, <3>2
  <2>4. PassesAreHonest'
    BY <1>h, <2>1, <2>2, <2>3 DEF PassesAreHonest
  <2>5. \A e \in Events : e <= emitted => Accounted(e)'
    BY <1>h, <1>l, <2>1 DEF Accounted
  <2> QED
    BY <2>1, <2>4, <2>5 DEF VanishInv
<1>6. ASSUME NEW p \in Passes, AckBuried(p) PROVE VanishInv'
  <2>1. UNCHANGED <<emitted, gone, lastRead, dead, todo, wrote>> /\ pel' = pel \ buried[p]
        /\ buried' = [buried EXCEPT ![p] = {}]
    BY <1>6 DEF AckBuried
  <2>2. PassesAreHonest'
    BY <1>h, <1>l, <1>t, <2>1 DEF PassesAreHonest
  <2>3. \A e \in Events : e <= emitted => Accounted(e)'
    BY <1>h, <1>l, <2>1 DEF Accounted, PassesAreHonest
  <2> QED
    BY <2>1, <2>2, <2>3 DEF VanishInv
<1>7. ASSUME NEW p \in Passes, AckBatch(p) PROVE VanishInv'
  <2>1. UNCHANGED <<emitted, gone, lastRead, dead, todo, buried>> /\ pel' = pel \ wrote[p]
        /\ wrote' = [wrote EXCEPT ![p] = {}]
    BY <1>7 DEF AckBatch
  <2>2. PassesAreHonest'
    BY <1>h, <1>l, <1>t, <2>1 DEF PassesAreHonest
  <2>3. \A e \in Events : e <= emitted => Accounted(e)'
    BY <1>h, <1>l, <2>1 DEF Accounted, PassesAreHonest
  <2> QED
    BY <2>1, <2>2, <2>3 DEF VanishInv
<1>8. ASSUME NEW p \in Passes, NEW d \in Events, ClaimFails(p, d) PROVE VanishInv'
  <2>1. UNCHANGED <<emitted, gone, lastRead, dead, todo, wrote, buried>>
        /\ (pel' = pel \/ (pel' = pel \ {d} /\ d <= gone))
    BY <1>8 DEF ClaimFails
  <2>2. PassesAreHonest'
    BY <1>h, <1>l, <1>t, <2>1 DEF PassesAreHonest
  <2>3. \A e \in Events : e <= emitted => Accounted(e)'
    BY <1>h, <1>l, <2>1 DEF Accounted
  <2> QED
    BY <2>1, <2>2, <2>3 DEF VanishInv
<1>9. ASSUME NEW p \in Passes, NEW d \in Events, ClaimEntry(p, d) PROVE VanishInv'
  <2>1. UNCHANGED <<emitted, gone, lastRead, dead, pel, wrote, buried>> /\ d \in pel
        /\ (todo' = todo \/ todo' = [todo EXCEPT ![p] = todo[p] \cup {d}])
    BY <1>9, <1>t DEF ClaimEntry, Claimable
  <2>2. PassesAreHonest'
    BY <1>h, <1>l, <1>t, <2>1 DEF PassesAreHonest
  <2>3. \A e \in Events : e <= emitted => Accounted(e)'
    BY <1>h, <1>l, <2>1 DEF Accounted
  <2> QED
    BY <2>1, <2>2, <2>3 DEF VanishInv
<1>10. ASSUME NEW p \in Passes, NEW d \in Events, WriteEach(p, d) PROVE VanishInv'
  <2>1. UNCHANGED <<emitted, gone, lastRead, pel, dead, buried>> /\ d \in todo[p]
    BY <1>10 DEF WriteEach, stream
  <2>2. \A q \in Passes : todo'[q] \subseteq todo[q]
    BY <1>10, <1>t DEF WriteEach
  <2>3. ASSUME NEW q \in Passes, NEW e \in wrote'[q] PROVE e <= emitted /\ Landed(e)'
    <3>1. CASE e \in wrote[q]
      BY <1>h, <1>l, <1>t, <3>1 DEF PassesAreHonest
    <3>2. CASE e \notin wrote[q]
      <4>1. e = d /\ Insert({d})
        BY <1>10, <1>t, <2>3, <3>2 DEF WriteEach
      <4>2. rows'[e] > 0
        BY <1>t, <4>1 DEF Insert, TrailTypeOK, TableTypeOK
      <4> QED
        BY <1>h, <2>1, <4>1, <4>2 DEF PassesAreHonest, Landed
    <3> QED
      BY <3>1, <3>2
  <2>4. PassesAreHonest'
    BY <1>h, <2>1, <2>2, <2>3 DEF PassesAreHonest
  <2>5. \A e \in Events : e <= emitted => Accounted(e)'
    BY <1>h, <1>l, <2>1 DEF Accounted
  <2> QED
    BY <2>1, <2>4, <2>5 DEF VanishInv
<1>11. ASSUME NEW p \in Passes, NEW d \in Events, Bury(p, d) PROVE VanishInv'
  <2>1. UNCHANGED <<emitted, gone, lastRead, pel, todo, wrote>> /\ dead' = dead \cup {d}
        /\ buried' = [buried EXCEPT ![p] = {d}]
    BY <1>11 DEF Bury
  <2>2. PassesAreHonest'
    BY <1>h, <1>l, <1>t, <2>1 DEF PassesAreHonest
  <2>3. \A e \in Events : e <= emitted => Accounted(e)'
    BY <1>h, <1>l, <2>1 DEF Accounted
  <2> QED
    BY <2>1, <2>2, <2>3 DEF VanishInv
<1>12. ASSUME NEW d \in Events, GrowsIdle(d) PROVE VanishInv'
  BY <1>12, VanishStutter DEF GrowsIdle, pass
<1>13. CASE UNCHANGED <<stream, pass>>
  BY <1>13, VanishStutter DEF stream, pass
<1> QED
  BY <1>1, <1>2, <1>3, <1>4, <1>5, <1>6, <1>7, <1>8, <1>9, <1>10, <1>11, <1>12, <1>13, Zenon
     DEF Next, PassStep

\* No audit event disappears without a trace, for any number of passes, failures
\* and trims.
THEOREM EventsDoNotVanish == Spec => []NothingVanishes
<1>1. TrailTypeOK /\ VanishInv => NothingVanishes
  <2> SUFFICES ASSUME TrailTypeOK, VanishInv, NEW e \in 1 .. emitted
               PROVE  /\ e \in Events /\ e <= emitted
    BY DEF NothingVanishes, VanishInv, Accounted, Landed
  <2> QED
    BY EventRange, Bounds DEF TrailTypeOK
<1> QED
  BY <1>1, TypeInit, TypeStep, TableInvInit, TableInvStep, VanishInit, VanishStep, PTL
     DEF Spec

-----------------------------------------------------------------------------
(* Poison                                                                  *)

\* What a pass holds at each of its steps.
PassShape(p) ==
  /\ ppc[p] \in {"off", "read", "more", "bury"} => todo[p] = {}
  /\ ppc[p] \notin {"each", "bury"} => wrote[p] = {}
  /\ ppc[p] \in {"off", "read", "more", "write"} => doomed[p] = {} /\ buried[p] = {}

\* A count that a pass has read is never above the entry's own.
CountsAgree ==
  /\ \A e \in pel : e <= lastRead
  /\ idle \subseteq pel
  /\ \A e \in Events : e > lastRead => times[e] = 0
  /\ \A p \in Passes, e \in Events : seen[p][e] <= times[e]

ShapeInv == (\A p \in Passes : PassShape(p)) /\ CountsAgree

HeldBy(p, e) == e \in todo[p] \cup wrote[p] \cup doomed[p] \cup buried[p]
Unheld(e) == \A p \in Passes : ~HeldBy(p, e)
GivenUp(e) == e \in dead \/ \E p \in Passes : e \in doomed[p] \cup buried[p]

\* Each delivery of a good entry but the running one has ended in a failure.
GoodIsFair(e) ==
  /\ times[e] <= faults + 1
  /\ e \in pel /\ (e \in idle \/ Unheld(e)) => times[e] <= faults
  /\ GivenUp(e) => faults >= MaxDeliveries

PoisonInv == \A e \in Events : kind[e] = "good" => GoodIsFair(e)

LEMMA ShapeInit == Init => ShapeInv
<1> SUFFICES ASSUME Init PROVE ShapeInv
  OBVIOUS
<1>1. \A p \in Passes : PassShape(p)
  BY DEF Init, PassShape
<1>2. CountsAgree
  BY DEF Init, Unlisted, CountsAgree
<1> QED
  BY <1>1, <1>2 DEF ShapeInv

\* Every step keeps the shape of the passes.
LEMMA ShapeStep == TrailTypeOK /\ ShapeInv /\ [Next]_vars => ShapeInv'
<1> SUFFICES ASSUME TrailTypeOK, ShapeInv, [Next]_vars PROVE ShapeInv'
  OBVIOUS
<1>t. /\ lastRead \in Nat /\ \A e \in Events : e \in Nat
      /\ pel \subseteq Events /\ idle \subseteq Events
      /\ times \in [Events -> Nat] /\ seen \in [Passes -> [Events -> Nat]]
      /\ ppc \in [Passes -> {"off", "claim", "read", "more", "write", "each", "bury"}]
      /\ todo \in [Passes -> SUBSET Events] /\ wrote \in [Passes -> SUBSET Events]
      /\ doomed \in [Passes -> SUBSET Events] /\ buried \in [Passes -> SUBSET Events]
      /\ after \in [Passes -> {"off", "read", "more"}]
  BY Bounds, EventRange DEF TrailTypeOK
<1>h. (\A p \in Passes : PassShape(p)) /\ CountsAgree
  BY DEF ShapeInv
<1>p. ASSUME UNCHANGED <<ppc, todo, wrote, doomed, buried>>
      PROVE  \A p \in Passes : PassShape(p)'
  BY <1>h, <1>p DEF PassShape
<1>c. ASSUME UNCHANGED <<lastRead, pel, idle, times, seen>> PROVE CountsAgree'
  BY <1>h, <1>c DEF CountsAgree
<1>1. CASE UNCHANGED vars
  BY <1>p, <1>c, <1>1 DEF ShapeInv, vars, stream, pass
<1>2. CASE Emit
  BY <1>p, <1>c, <1>2 DEF ShapeInv, Emit, pass
<1>3. ASSUME NEW p \in Passes, PassStarts(p) PROVE ShapeInv'
  <2>1. \A q \in Passes : PassShape(q)'
    BY <1>h, <1>t, <1>3 DEF PassStarts, Goes, PassShape
  <2>2. UNCHANGED <<lastRead, pel, idle, times>>
    BY <1>3 DEF PassStarts, stream
  <2>3. ASSUME NEW q \in Passes, NEW e \in Events PROVE seen'[q][e] <= times[e]
    <3>1. seen'[q][e] \in {seen[q][e], times[e], 0}
      BY <1>t, <1>3 DEF PassStarts
    <3> QED
      BY <1>h, <1>t, <3>1 DEF CountsAgree
  <2> QED
    BY <1>h, <2>1, <2>2, <2>3 DEF ShapeInv, CountsAgree
<1>4. ASSUME NEW p \in Passes, ReclaimsAll(p) PROVE ShapeInv'
  <2>1. \A q \in Passes : PassShape(q)'
    BY <1>h, <1>t, <1>4 DEF ReclaimsAll, Goes, PassShape
  <2> QED
    BY <1>c, <1>4, <2>1 DEF ShapeInv, ReclaimsAll, stream
<1>5. ASSUME NEW p \in Passes, ReadNew(p) PROVE ShapeInv'
  <2>1. PICK n \in Unread :
          /\ todo' = [todo EXCEPT ![p] = UnreadTo(n)]
          /\ lastRead' = n /\ pel' = pel \cup UnreadTo(n)
          /\ times' = [e \in Events |-> IF e \in UnreadTo(n) THEN 1 ELSE times[e]]
    BY <1>5 DEF ReadNew
  <2>2. UNCHANGED <<idle, seen, wrote, doomed, buried>> /\ Goes(p, "write")
        /\ ppc[p] \in {"read", "more"}
    BY <1>5 DEF ReadNew
  <2>3. \A q \in Passes : PassShape(q)'
    BY <1>h, <1>t, <2>1, <2>2 DEF Goes, PassShape
  <2>4. \A e \in UnreadTo(n) : e <= n /\ e > lastRead
    BY DEF UnreadTo, Unread
  <2>5. n \in Nat /\ n > lastRead
    BY <1>t DEF Unread
  <2>6. CountsAgree'
    <3>1. \A e \in pel' : e <= lastRead'
      BY <1>h, <1>t, <2>1, <2>4, <2>5 DEF CountsAgree
    <3>2. idle' \subseteq pel'
      BY <1>h, <2>1, <2>2 DEF CountsAgree
    <3>3. \A e \in Events : e > lastRead' => times'[e] = 0
      BY <1>h, <1>t, <2>1, <2>4, <2>5 DEF CountsAgree
    <3>4. ASSUME NEW q \in Passes, NEW e \in Events PROVE seen'[q][e] <= times'[e]
      <4>1. seen[q][e] <= times[e] /\ seen[q][e] \in Nat /\ times[e] \in Nat
        BY <1>h, <1>t DEF CountsAgree
      <4>2. CASE e \in UnreadTo(n)
        BY <1>h, <2>1, <2>2, <2>4, <4>1, <4>2 DEF CountsAgree
      <4>3. CASE e \notin UnreadTo(n)
        BY <2>1, <2>2, <4>1, <4>3
      <4> QED
        BY <4>2, <4>3
    <3> QED
      BY <3>1, <3>2, <3>3, <3>4 DEF CountsAgree
  <2> QED
    BY <2>3, <2>6 DEF ShapeInv
<1>6. ASSUME NEW p \in Passes, PassEnds(p) PROVE ShapeInv'
  <2>1. \A q \in Passes : PassShape(q)'
    BY <1>h, <1>t, <1>6 DEF PassEnds, Goes, PassShape
  <2> QED
    BY <1>c, <1>6, <2>1 DEF ShapeInv, PassEnds, stream
<1>7. ASSUME NEW p \in Passes, WriteBatch(p) PROVE ShapeInv'
  <2>1. ASSUME NEW q \in Passes PROVE PassShape(q)'
    <3>1. CASE q # p
      BY <1>h, <1>t, <1>7, <3>1 DEF WriteBatch, Goes, PassShape
    <3>2. CASE q = p
      <4>1. \/ ppc'[p] = "bury" /\ todo'[p] = {}
            \/ ppc'[p] = "each"
        BY <1>t, <1>7 DEF WriteBatch, Goes
      <4> QED
        BY <3>2, <4>1 DEF PassShape
    <3> QED
      BY <3>1, <3>2
  <2> QED
    BY <1>c, <1>7, <2>1 DEF ShapeInv, WriteBatch, stream
<1>8. ASSUME NEW p \in Passes, AckBuried(p) PROVE ShapeInv'
  <2>1. \A q \in Passes : PassShape(q)'
    BY <1>h, <1>t, <1>8 DEF AckBuried, PassShape
  <2>2. CountsAgree'
    BY <1>h, <1>8 DEF AckBuried, CountsAgree
  <2> QED
    BY <2>1, <2>2 DEF ShapeInv
<1>9. ASSUME NEW p \in Passes, AckBatch(p) PROVE ShapeInv'
  <2>1. ASSUME NEW q \in Passes PROVE PassShape(q)'
    <3>1. CASE q # p
      BY <1>h, <1>t, <1>9, <3>1 DEF AckBatch, Goes, PassShape
    <3>2. CASE q = p
      <4>1. todo[p] = {} /\ wrote'[p] = {} /\ doomed[p] = {} /\ buried[p] = {}
        BY <1>h, <1>t, <1>9 DEF AckBatch, PassShape
      <4> QED
        BY <1>9, <3>2, <4>1 DEF AckBatch, PassShape
    <3> QED
      BY <3>1, <3>2
  <2>2. CountsAgree'
    BY <1>h, <1>9 DEF AckBatch, CountsAgree
  <2> QED
    BY <2>1, <2>2 DEF ShapeInv
<1>10. ASSUME NEW p \in Passes, NEW d \in Events, ClaimFails(p, d) PROVE ShapeInv'
  <2>1. UNCHANGED <<lastRead, times>> /\ pel' \subseteq pel /\ idle' \subseteq pel'
    BY <1>10 DEF ClaimFails
  <2>2. ASSUME NEW q \in Passes, NEW e \in Events PROVE seen'[q][e] <= times[e]
    <3>1. seen'[q][e] \in {seen[q][e], 0}
      BY <1>t, <1>10 DEF ClaimFails
    <3> QED
      BY <1>h, <1>t, <3>1 DEF CountsAgree
  <2>3. CountsAgree'
    BY <1>h, <2>1, <2>2 DEF CountsAgree
  <2> QED
    BY <1>p, <1>10, <2>3 DEF ShapeInv, ClaimFails
<1>11. ASSUME NEW p \in Passes, NEW d \in Events, ClaimEntry(p, d) PROVE ShapeInv'
  <2>1. UNCHANGED <<lastRead, pel, ppc, wrote, buried>> /\ idle' = idle \ {d} /\ d \in pel
        /\ times' = [times EXCEPT ![d] = times[d] + 1] /\ ppc[p] = "claim"
        /\ seen' = [seen EXCEPT ![p][d] = 0]
    BY <1>t, <1>11 DEF ClaimEntry, Claimable
  <2>2. ASSUME NEW q \in Passes, NEW e \in Events PROVE seen'[q][e] <= times'[e]
    <3>1. seen'[q][e] \in {seen[q][e], 0} /\ times'[e] \in {times[e], times[e] + 1}
      BY <1>t, <2>1
    <3>2. seen[q][e] <= times[e] /\ seen[q][e] \in Nat /\ times[e] \in Nat
      BY <1>h, <1>t DEF CountsAgree
    <3> QED
      BY <3>1, <3>2
  <2>3. \A e \in Events : e > lastRead => times'[e] = 0
    <3> SUFFICES ASSUME NEW e \in Events, e > lastRead PROVE times'[e] = 0
      OBVIOUS
    <3>1. e # d
      BY <1>h, <1>t, <2>1 DEF CountsAgree
    <3> QED
      BY <1>h, <1>t, <2>1, <3>1 DEF CountsAgree
  <2>4. CountsAgree'
    BY <1>h, <2>1, <2>2, <2>3 DEF CountsAgree
  <2>5. ASSUME NEW q \in Passes PROVE PassShape(q)'
    <3>1. CASE q # p
      BY <1>h, <1>t, <1>11, <2>1, <3>1 DEF ClaimEntry, PassShape
    <3>2. CASE q = p
      BY <1>h, <2>1, <3>2 DEF PassShape
    <3> QED
      BY <3>1, <3>2
  <2> QED
    BY <2>4, <2>5 DEF ShapeInv
<1>12. ASSUME NEW p \in Passes, NEW d \in Events, WriteEach(p, d) PROVE ShapeInv'
  <2>1. ASSUME NEW q \in Passes PROVE PassShape(q)'
    <3>1. CASE q # p
      BY <1>h, <1>t, <1>12, <3>1 DEF WriteEach, Goes, PassShape
    <3>2. CASE q = p
      <4>1. \/ ppc'[p] = "bury" /\ todo'[p] = {}
            \/ ppc'[p] = "each"
        BY <1>t, <1>12 DEF WriteEach, Goes
      <4> QED
        BY <3>2, <4>1 DEF PassShape
    <3> QED
      BY <3>1, <3>2
  <2> QED
    BY <1>c, <1>12, <2>1 DEF ShapeInv, WriteEach, stream
<1>13. ASSUME NEW p \in Passes, NEW d \in Events, Bury(p, d) PROVE ShapeInv'
  <2>1. \A q \in Passes : PassShape(q)'
    BY <1>h, <1>t, <1>13 DEF Bury, PassShape
  <2> QED
    BY <1>c, <1>13, <2>1 DEF ShapeInv, Bury
<1>14. ASSUME NEW p \in Passes, PassDies(p) PROVE ShapeInv'
  <2>1. \A q \in Passes : PassShape(q)'
    BY <1>h, <1>t, <1>14 DEF PassDies, Goes, PassShape
  <2>2. UNCHANGED <<lastRead, pel, idle, times>>
    BY <1>14 DEF PassDies, stream
  <2>3. \A q \in Passes, e \in Events : seen'[q][e] <= times[e]
    BY <1>h, <1>t, <1>14 DEF PassDies, Unlisted, CountsAgree
  <2> QED
    BY <1>h, <2>1, <2>2, <2>3 DEF ShapeInv, CountsAgree
<1>15. ASSUME NEW d \in Events, GrowsIdle(d) PROVE ShapeInv'
  <2>1. CountsAgree'
    BY <1>h, <1>15 DEF GrowsIdle, CountsAgree, pass
  <2> QED
    BY <1>p, <1>15, <2>1 DEF ShapeInv, GrowsIdle, pass
<1>16. CASE UNCHANGED <<stream, pass>>
  BY <1>p, <1>c, <1>16 DEF ShapeInv, stream, pass
<1> QED
  BY <1>1, <1>2, <1>3, <1>4, <1>5, <1>6, <1>7, <1>8, <1>9, <1>10, <1>11, <1>12, <1>13,
     <1>14, <1>15, <1>16, Zenon DEF Next, PassStep

LEMMA PoisonInit == Init => PoisonInv
  BY Bounds DEF Init, TableInit, Unlisted, PoisonInv, GoodIsFair, GivenUp

\* A step that delivers nothing is fair to a good entry when each entry it lets go
\* is acknowledged or costs a failure.
LEMMA FairStep ==
  ASSUME TrailTypeOK, NEW e \in Events, GoodIsFair(e),
         faults' = faults \/ faults' = faults + 1, times'[e] = times[e],
         e \in pel' => e \in pel,
         e \in pel' /\ e \in idle' => e \in idle \/ Unheld(e) \/ faults' # faults,
         e \in pel' /\ Unheld(e)' => Unheld(e) \/ faults' # faults,
         GivenUp(e)' => GivenUp(e)
  PROVE  GoodIsFair(e)'
<1>t. times[e] \in Nat /\ faults \in Nat
  BY Bounds DEF TrailTypeOK, TableTypeOK
<1>1. times'[e] <= faults' + 1
  BY <1>t DEF GoodIsFair
<1>2. e \in pel' /\ (e \in idle' \/ Unheld(e)') => times'[e] <= faults'
  BY <1>t DEF GoodIsFair
<1>3. GivenUp(e)' => faults' >= MaxDeliveries
  BY <1>t, Bounds DEF GoodIsFair
<1> QED
  BY <1>1, <1>2, <1>3 DEF GoodIsFair

\* The kind of an entry never changes.
LEMMA KindStays == [Next]_vars => kind' = kind
<1> SUFFICES ASSUME [Next]_vars PROVE kind' = kind
  OBVIOUS
<1>1. ASSUME NEW p \in Passes, PassActs(p) PROVE kind' = kind
  BY <1>1 DEF PassActs, PassStep, PassStarts, ReclaimsAll, ReadNew, PassEnds, WriteBatch,
              AckBuried, AckBatch, ClaimFails, ClaimEntry, WriteEach, Bury, PassDies, stream
<1>2. CASE UNCHANGED vars \/ UNCHANGED <<stream, pass>>
  BY <1>2 DEF vars, stream
<1>3. CASE Emit \/ \E d \in Events : GrowsIdle(d)
  BY <1>3 DEF Emit, GrowsIdle
<1> QED
  BY <1>1, <1>2, <1>3, Zenon DEF Next, PassActs

\* Every step is fair to good entries.
LEMMA PoisonStep ==
  TrailTypeOK /\ ShapeInv /\ PoisonInv /\ [Next]_vars => PoisonInv'
<1> SUFFICES ASSUME TrailTypeOK, ShapeInv, PoisonInv, [Next]_vars,
                    NEW e \in Events, kind'[e] = "good"
             PROVE  GoodIsFair(e)'
  BY DEF PoisonInv
<1>t. /\ faults \in Nat /\ times \in [Events -> Nat] /\ seen \in [Passes -> [Events -> Nat]]
      /\ todo \in [Passes -> SUBSET Events] /\ wrote \in [Passes -> SUBSET Events]
      /\ doomed \in [Passes -> SUBSET Events] /\ buried \in [Passes -> SUBSET Events]
  BY Bounds DEF TrailTypeOK, TableTypeOK
<1>h. (\A p \in Passes : PassShape(p)) /\ CountsAgree
  BY DEF ShapeInv
<1>k. kind' = kind
  BY KindStays
<1>g. kind[e] = "good" /\ GoodIsFair(e)
  BY <1>k DEF PoisonInv
<1>s. ASSUME UNCHANGED <<pel, idle, times, dead, todo, wrote, doomed, buried>>,
             faults' = faults \/ faults' = faults + 1
      PROVE  GoodIsFair(e)'
  BY <1>g, <1>s, FairStep DEF Unheld, HeldBy, GivenUp
<1>1. CASE UNCHANGED vars
  BY <1>s, <1>1 DEF vars, stream, pass
<1>2. CASE Emit
  BY <1>s, <1>2 DEF Emit, pass
<1>3. ASSUME NEW p \in Passes, PassStarts(p) \/ ReclaimsAll(p) \/ PassEnds(p)
      PROVE  GoodIsFair(e)'
  BY <1>s, <1>3 DEF PassStarts, ReclaimsAll, PassEnds, stream
<1>4. ASSUME NEW p \in Passes, ReadNew(p) PROVE GoodIsFair(e)'
  <2>1. PICK n \in Unread :
          /\ todo' = [todo EXCEPT ![p] = UnreadTo(n)]
          /\ pel' = pel \cup UnreadTo(n)
          /\ times' = [d \in Events |-> IF d \in UnreadTo(n) THEN 1 ELSE times[d]]
    BY <1>4 DEF ReadNew
  <2>2. UNCHANGED <<idle, dead, wrote, doomed, buried, faults>>
        /\ ppc[p] \in {"read", "more"}
    BY <1>4 DEF ReadNew
  <2>3. todo[p] = {}
    BY <1>h, <2>2 DEF PassShape
  <2>4. GivenUp(e)' => GivenUp(e)
    BY <2>2 DEF GivenUp
  <2>5. CASE e \in UnreadTo(n)
    <3>1. HeldBy(p, e)'
      BY <1>t, <2>1, <2>5 DEF HeldBy
    <3>2. e \notin idle'
      <4>1. e \in Nat /\ lastRead \in Nat /\ e > lastRead
        BY <2>5, EventRange, Bounds DEF UnreadTo, Unread, TrailTypeOK
      <4> QED
        BY <1>h, <2>2, <4>1 DEF CountsAgree
    <3>3. times'[e] = 1
      BY <2>1, <2>5
    <3> QED
      BY <1>g, <1>t, <2>2, <2>4, <3>1, <3>2, <3>3 DEF GoodIsFair, Unheld
  <2>6. CASE e \notin UnreadTo(n)
    <3>1. Unheld(e)' => Unheld(e)
      BY <1>t, <2>1, <2>2, <2>3 DEF Unheld, HeldBy
    <3>2. (e \in pel' => e \in pel) /\ times'[e] = times[e]
      BY <2>1, <2>6
    <3> QED
      BY <1>g, <2>2, <2>4, <3>1, <3>2, FairStep
  <2> QED
    BY <2>5, <2>6
<1>5. ASSUME NEW p \in Passes, WriteBatch(p) PROVE GoodIsFair(e)'
  <2>1. UNCHANGED <<pel, idle, times, dead, buried>>
    BY <1>5 DEF WriteBatch, stream
  <2>2. faults' = faults \/ faults' = faults + 1
    BY <1>5 DEF WriteBatch, Fault
  <2>3. wrote[p] = {} /\ doomed[p] = {}
    BY <1>h, <1>5 DEF WriteBatch, PassShape
  <2>4. e \in todo[p] => e \in todo'[p] \/ e \in wrote'[p]
    <3>1. e \in todo[p] => e \in WellFormed(todo[p])
      BY <1>g DEF WellFormed
    <3> QED
      BY <1>5, <1>t, <3>1 DEF WriteBatch
  <2>5. \A q \in Passes : HeldBy(q, e) => HeldBy(q, e)'
    <3> SUFFICES ASSUME NEW q \in Passes, HeldBy(q, e) PROVE HeldBy(q, e)'
      OBVIOUS
    <3>1. CASE q # p
      BY <1>5, <1>t, <2>1, <3>1 DEF HeldBy, WriteBatch
    <3>2. CASE q = p
      BY <2>1, <2>3, <2>4, <3>2 DEF HeldBy
    <3> QED
      BY <3>1, <3>2
  <2>6. GivenUp(e)' => GivenUp(e)
    <3>1. \A q \in Passes : e \in doomed'[q] => e \in doomed[q]
      BY <1>5, <1>g, <1>t DEF WriteBatch, WellFormed
    <3> QED
      BY <2>1, <3>1 DEF GivenUp
  <2> QED
    BY <1>g, <2>1, <2>2, <2>5, <2>6, FairStep DEF Unheld
<1>6. ASSUME NEW p \in Passes, AckBuried(p) PROVE GoodIsFair(e)'
  <2>1. /\ UNCHANGED <<times, dead, todo, wrote, doomed, faults>>
        /\ pel' = pel \ buried[p] /\ idle' = idle \ buried[p]
        /\ buried' = [buried EXCEPT ![p] = {}]
    BY <1>6 DEF AckBuried
  <2>2. e \in pel' /\ Unheld(e)' => Unheld(e)
    BY <1>t, <2>1 DEF Unheld, HeldBy
  <2>3. GivenUp(e)' => GivenUp(e)
    BY <1>t, <2>1 DEF GivenUp
  <2> QED
    BY <1>g, <2>1, <2>2, <2>3, FairStep
<1>7. ASSUME NEW p \in Passes, AckBatch(p) PROVE GoodIsFair(e)'
  <2>1. /\ UNCHANGED <<times, dead, todo, buried, doomed, faults>>
        /\ pel' = pel \ wrote[p] /\ idle' = idle \ wrote[p]
        /\ wrote' = [wrote EXCEPT ![p] = {}]
    BY <1>7 DEF AckBatch
  <2>2. e \in pel' /\ Unheld(e)' => Unheld(e)
    BY <1>t, <2>1 DEF Unheld, HeldBy
  <2>3. GivenUp(e)' => GivenUp(e)
    BY <2>1 DEF GivenUp
  <2> QED
    BY <1>g, <2>1, <2>2, <2>3, FairStep
<1>8. ASSUME NEW p \in Passes, NEW d \in Events, ClaimFails(p, d) PROVE GoodIsFair(e)'
  <2>1. /\ UNCHANGED <<times, dead, todo, wrote, buried, doomed, faults>>
        /\ pel' \subseteq pel /\ idle' \subseteq idle
    BY <1>8 DEF ClaimFails
  <2> QED
    BY <1>g, <2>1, FairStep DEF Unheld, HeldBy, GivenUp
<1>9. ASSUME NEW p \in Passes, NEW d \in Events, ClaimEntry(p, d) PROVE GoodIsFair(e)'
  <2>1. /\ UNCHANGED <<pel, dead, wrote, buried, faults>> /\ idle' = idle \ {d}
        /\ times' = [times EXCEPT ![d] = times[d] + 1] /\ d \in pel /\ d \in idle
        /\ doomed[p] = {}
        /\ \/ /\ seen[p][d] >= MaxDeliveries /\ todo' = todo
              /\ doomed' = [doomed EXCEPT ![p] = {d}]
           \/ /\ todo' = [todo EXCEPT ![p] = todo[p] \cup {d}] /\ doomed' = doomed
    BY <1>9, <1>t DEF ClaimEntry, Claimable
  <2>2. CASE e # d
    <3>1. times'[e] = times[e]
      BY <1>t, <2>1, <2>2
    <3>2. Unheld(e)' => Unheld(e)
      BY <1>t, <2>1 DEF Unheld, HeldBy
    <3>3. GivenUp(e)' => GivenUp(e)
      BY <1>t, <2>1, <2>2 DEF GivenUp
    <3> QED
      BY <1>g, <2>1, <3>1, <3>2, <3>3, FairStep
  <2>3. CASE e = d
    <3>1. times[e] <= faults /\ times'[e] = times[e] + 1 /\ times[e] \in Nat
      BY <1>g, <1>t, <2>1, <2>3 DEF GoodIsFair
    <3>2. HeldBy(p, e)' /\ e \notin idle'
      BY <1>t, <2>1, <2>3 DEF HeldBy
    <3>3. GivenUp(e)' => faults >= MaxDeliveries
      <4>1. CASE seen[p][d] >= MaxDeliveries
        <5>1. seen[p][d] <= times[d] /\ seen[p][d] \in Nat
          BY <1>h, <1>t DEF CountsAgree
        <5> QED
          BY <1>t, <2>3, <3>1, <4>1, <5>1, Bounds
      <4>2. CASE doomed' = doomed
        BY <1>g, <2>1, <4>2 DEF GoodIsFair, GivenUp
      <4> QED
        BY <2>1, <4>1, <4>2
    <3> QED
      BY <1>t, <2>1, <3>1, <3>2, <3>3 DEF GoodIsFair, Unheld
  <2> QED
    BY <2>2, <2>3
<1>10. ASSUME NEW p \in Passes, NEW d \in Events, WriteEach(p, d) PROVE GoodIsFair(e)'
  <2>1. UNCHANGED <<pel, idle, times, dead, doomed, buried>>
    BY <1>10 DEF WriteEach, stream
  <2>2. faults' = faults \/ faults' = faults + 1
    BY <1>10 DEF WriteEach, Fault
  <2>3. \A q \in Passes : wrote[q] \subseteq wrote'[q]
    BY <1>10, <1>t DEF WriteEach
  <2>4. \A q \in Passes : e \in todo[q] => \/ e \in todo'[q] \/ e \in wrote'[q]
                                           \/ faults' # faults
    <3>1. ASSUME d = e PROVE e \in wrote'[p] \/ faults' # faults
      BY <1>10, <1>g, <1>t, <3>1 DEF WriteEach, Fault
    <3>2. todo' = [todo EXCEPT ![p] = todo[p] \ {d}]
      BY <1>10, <1>t DEF WriteEach
    <3> QED
      BY <1>t, <3>1, <3>2
  <2>5. Unheld(e)' => Unheld(e) \/ faults' # faults
    BY <2>1, <2>3, <2>4 DEF Unheld, HeldBy
  <2>6. GivenUp(e)' => GivenUp(e)
    BY <2>1 DEF GivenUp
  <2> QED
    BY <1>g, <2>1, <2>2, <2>5, <2>6, FairStep
<1>11. ASSUME NEW p \in Passes, NEW d \in Events, Bury(p, d) PROVE GoodIsFair(e)'
  <2>1. /\ UNCHANGED <<pel, idle, times, todo, wrote, faults>>
        /\ dead' = dead \cup {d} /\ d \in doomed[p] /\ buried[p] = {}
        /\ doomed' = [doomed EXCEPT ![p] = doomed[p] \ {d}]
        /\ buried' = [buried EXCEPT ![p] = {d}]
    BY <1>11, <1>t DEF Bury
  <2>2. Unheld(e)' => Unheld(e)
    BY <1>t, <2>1 DEF Unheld, HeldBy
  <2>3. GivenUp(e)' => GivenUp(e)
    BY <1>t, <2>1 DEF GivenUp
  <2> QED
    BY <1>g, <2>1, <2>2, <2>3, FairStep
<1>12. ASSUME NEW p \in Passes, PassDies(p) PROVE GoodIsFair(e)'
  <2>1. UNCHANGED <<pel, idle, times, dead>> /\ faults' = faults + 1
    BY <1>12 DEF PassDies, Fault, stream
  <2>2. faults' # faults
    BY <1>t, <2>1
  <2>3. GivenUp(e)' => GivenUp(e)
    BY <1>12, <1>t, <2>1 DEF PassDies, GivenUp
  <2> QED
    BY <1>g, <2>1, <2>2, <2>3, FairStep
<1>13. ASSUME NEW d \in Events, GrowsIdle(d) PROVE GoodIsFair(e)'
  <2>1. UNCHANGED <<pel, times, dead, todo, wrote, doomed, buried>> /\ idle' = idle \cup {d}
    BY <1>13 DEF GrowsIdle, pass
  <2>2. faults' = faults \/ faults' = faults + 1
    BY <1>13 DEF GrowsIdle, Fault
  <2>3. e = d => Unheld(e) \/ faults' # faults
    <3>1. d \in Held \/ Unheld(d)
      BY DEF Held, Unheld, HeldBy
    <3> QED
      BY <1>13, <1>t, <3>1 DEF GrowsIdle, Fault, Held, Unheld, HeldBy
  <2> QED
    BY <1>g, <2>1, <2>2, <2>3, FairStep DEF Unheld, HeldBy, GivenUp
<1>14. CASE TableStep /\ UNCHANGED <<stream, pass>>
  <2>1. faults' = faults \/ faults' = faults + 1
    BY <1>14 DEF TableStep, PurgeStep, EnsureStarts, EnsureCreates, EnsureDies, PurgeStarts,
                 PurgeDefault, PurgeDrops, PurgeDies, TimePasses, Fault
  <2> QED
    BY <1>s, <1>14, <2>1 DEF stream, pass
<1> QED
  BY <1>1, <1>2, <1>3, <1>4, <1>5, <1>6, <1>7, <1>8, <1>9, <1>10, <1>11, <1>12, <1>13,
     <1>14, Zenon DEF Next, PassStep

\* Poison only poisons itself: a good event is dead-lettered only after MaxDeliveries
\* failures of the system, whatever shares its batches.
THEOREM PoisonStaysAlone == Spec => []PoisonIsContained
<1>1. TrailTypeOK /\ PoisonInv => PoisonIsContained
  BY DEF TrailTypeOK, PoisonInv, GoodIsFair, GivenUp, PoisonIsContained
<1> QED
  BY <1>1, TypeInit, TypeStep, ShapeInit, ShapeStep, PoisonInit, PoisonStep, PTL DEF Spec

\* Together: nothing is lost and only poison is given up.
THEOREM AuditStaysSound == Spec => []AuditIsSound
  BY AuditTypeOK, EventsDoNotVanish, PoisonStaysAlone, PTL DEF AuditIsSound

-----------------------------------------------------------------------------
(* Duplicates                                                              *)

\* The passes that have still to write the entry.
Writers(e) == {p \in Passes : e \in todo[p]}

\* Each delivery of an entry gives it at most one row, and only a good one gets any.
RowsAreDeliveries(e) ==
  /\ IsFiniteSet(Writers(e))
  /\ rows[e] + Cardinality(Writers(e)) <= times[e]
  /\ kind[e] # "good" => rows[e] = 0

DeliveriesInv == \A e \in Events : RowsAreDeliveries(e)

LEMMA DeliveriesInit == Init => DeliveriesInv
<1> SUFFICES ASSUME Init, NEW e \in Events PROVE RowsAreDeliveries(e)
  BY DEF DeliveriesInv
<1>1. Writers(e) = {}
  BY DEF Init, Writers
<1>2. rows[e] = 0 /\ times[e] = 0
  BY DEF Init, TableInit, Unlisted
<1> QED
  BY <1>1, <1>2, FS_EmptySet DEF RowsAreDeliveries

\* A step that lets no further pass write the entry: what it adds to the rows it
\* takes from the passes.
LEMMA NoNewDelivery ==
  ASSUME TrailTypeOK, NEW e \in Events, RowsAreDeliveries(e), kind' = kind, times'[e] >= times[e],
         times'[e] \in Nat, rows'[e] \in Nat,
         Writers(e)' \subseteq Writers(e),
         \/ rows'[e] <= rows[e]
         \/ /\ rows'[e] = rows[e] + 1 /\ kind[e] = "good"
            /\ \E p \in Writers(e) : p \notin Writers(e)'
  PROVE  RowsAreDeliveries(e)'
<1> DEFINE W == Writers(e)
           V == Writers(e)'
<1>1. IsFiniteSet(W) /\ rows[e] + Cardinality(W) <= times[e] /\ (kind[e] # "good" => rows[e] = 0)
  BY DEF RowsAreDeliveries
<1>t. rows[e] \in Nat /\ times[e] \in Nat
  BY DEF TrailTypeOK, TableTypeOK
<1> HIDE DEF W, V
<1>2. /\ IsFiniteSet(V) /\ Cardinality(V) <= Cardinality(W)
      /\ Cardinality(V) \in Nat /\ Cardinality(W) \in Nat
  <2>1. V \in SUBSET W
    BY DEF V, W
  <2> QED
    BY <1>1, <2>1, FS_Subset, FS_CardinalityType
<1>3. ASSUME NEW p \in W, p \notin V PROVE Cardinality(V) <= Cardinality(W) - 1
  <2>1. V \in SUBSET (W \ {p})
    BY <1>3 DEF V, W
  <2>2. IsFiniteSet(W \ {p}) /\ Cardinality(W \ {p}) = Cardinality(W) - 1
    BY <1>1, FS_RemoveElement
  <2> QED
    BY <2>1, <2>2, FS_Subset
<1>4. rows'[e] + Cardinality(V) <= times'[e]
  <2>1. CASE rows'[e] <= rows[e]
    BY <1>1, <1>2, <1>t, <2>1
  <2>2. CASE rows'[e] = rows[e] + 1 /\ \E p \in W : p \notin V
    BY <1>1, <1>2, <1>3, <1>t, <2>2
  <2> QED
    BY <2>1, <2>2 DEF V, W
<1>5. kind'[e] # "good" => rows'[e] = 0
  BY <1>1, <1>t
<1> QED
  BY <1>2, <1>4, <1>5 DEF RowsAreDeliveries, V

\* A step that delivers the entry to one pass counts it.
LEMMA NewDelivery ==
  ASSUME TrailTypeOK, NEW e \in Events, RowsAreDeliveries(e), kind' = kind,
         times'[e] = times[e] + 1, rows'[e] = rows[e], NEW p \in Passes,
         Writers(e)' \subseteq Writers(e) \cup {p}
  PROVE  RowsAreDeliveries(e)'
<1> DEFINE W == Writers(e)
           V == Writers(e)'
<1>1. IsFiniteSet(W) /\ rows[e] + Cardinality(W) <= times[e]
  BY DEF RowsAreDeliveries
<1>t. rows[e] \in Nat /\ times[e] \in Nat
  BY DEF TrailTypeOK, TableTypeOK
<1>2. V \in SUBSET (W \cup {p})
  OBVIOUS
<1> HIDE DEF W, V
<1>3. IsFiniteSet(W \cup {p}) /\ Cardinality(W \cup {p}) <= Cardinality(W) + 1 /\ Cardinality(W) \in Nat
  <2>1. Cardinality(W) \in Nat
    BY <1>1, FS_CardinalityType
  <2>2. /\ IsFiniteSet(W \cup {p})
        /\ Cardinality(W \cup {p}) = IF p \in W THEN Cardinality(W) ELSE Cardinality(W) + 1
    BY <1>1, FS_AddElement
  <2> QED
    BY <2>1, <2>2
<1>4. IsFiniteSet(V) /\ Cardinality(V) <= Cardinality(W \cup {p}) /\ Cardinality(V) \in Nat
  BY <1>2, <1>3, FS_Subset, FS_CardinalityType
<1>5. Cardinality(W \cup {p}) \in Nat
  BY <1>3, FS_CardinalityType
<1>6. rows'[e] + Cardinality(V) <= times'[e]
  BY <1>1, <1>3, <1>4, <1>5, <1>t
<1> QED
  BY <1>4, <1>6 DEF RowsAreDeliveries, V

\* Every step keeps the account of deliveries.
LEMMA DeliveriesStep == TrailTypeOK /\ ShapeInv /\ DeliveriesInv /\ [Next]_vars => DeliveriesInv'
<1> SUFFICES ASSUME TrailTypeOK, ShapeInv, DeliveriesInv, [Next]_vars, NEW e \in Events
             PROVE  RowsAreDeliveries(e)'
  BY DEF DeliveriesInv
<1>g. RowsAreDeliveries(e) /\ kind' = kind
  BY KindStays DEF DeliveriesInv
<1>t. /\ times \in [Events -> Nat] /\ rows \in [Events -> Nat] /\ rows[e] \in Nat /\ times[e] \in Nat
      /\ rows'[e] \in Nat /\ times'[e] \in Nat
      /\ todo \in [Passes -> SUBSET Events]
  BY TypeStep DEF TrailTypeOK, TableTypeOK
<1>s. ASSUME UNCHANGED <<rows, times, todo>> PROVE RowsAreDeliveries(e)'
  <2>1. Writers(e)' = Writers(e)
    BY <1>s DEF Writers
  <2> QED
    BY <1>g, <1>s, <1>t, <2>1, NoNewDelivery
<1>1. CASE UNCHANGED vars
  BY <1>s, <1>1 DEF vars, table, stream, pass
<1>2. CASE Emit
  BY <1>s, <1>2 DEF Emit, pass
<1>3. ASSUME NEW p \in Passes,
             \/ PassStarts(p) \/ ReclaimsAll(p) \/ PassEnds(p) \/ AckBuried(p) \/ AckBatch(p)
             \/ \E d \in Events : ClaimFails(p, d) \/ Bury(p, d)
      PROVE  RowsAreDeliveries(e)'
  BY <1>s, <1>3 DEF PassStarts, ReclaimsAll, PassEnds, AckBuried, AckBatch, ClaimFails, Bury,
                    table, stream
<1>4. ASSUME NEW p \in Passes, ReadNew(p) PROVE RowsAreDeliveries(e)'
  <2>1. PICK n \in Unread :
          /\ todo' = [todo EXCEPT ![p] = UnreadTo(n)]
          /\ times' = [d \in Events |-> IF d \in UnreadTo(n) THEN 1 ELSE times[d]]
    BY <1>4 DEF ReadNew
  <2>2. rows' = rows
    BY <1>4 DEF ReadNew, table
  <2>3. CASE e \in UnreadTo(n)
    <3>1. times[e] = 0
      BY <2>3 DEF UnreadTo, Unread, ShapeInv, CountsAgree
    <3>2. Writers(e)' \subseteq Writers(e) \cup {p}
      BY <1>t, <2>1 DEF Writers
    <3>3. times'[e] = times[e] + 1
      BY <2>1, <2>3, <3>1
    <3> QED
      BY <1>g, <2>2, <3>2, <3>3, NewDelivery
  <2>4. CASE e \notin UnreadTo(n)
    <3>1. Writers(e)' \subseteq Writers(e)
      BY <1>t, <2>1, <2>4 DEF Writers
    <3> QED
      BY <1>g, <1>t, <2>1, <2>2, <2>4, <3>1, NoNewDelivery
  <2> QED
    BY <2>3, <2>4
<1>5. ASSUME NEW p \in Passes, WriteBatch(p) PROVE RowsAreDeliveries(e)'
  <2>1. times' = times
    BY <1>5 DEF WriteBatch, stream
  <2>2. /\ Writers(e)' \subseteq Writers(e)
        /\ \A q \in Passes : todo'[q] \subseteq todo[q]
    BY <1>5, <1>t DEF WriteBatch, WellFormed, Writers
  <2>3. CASE Insert(WellFormed(todo[p])) /\ e \in WellFormed(todo[p])
               /\ todo' = [todo EXCEPT ![p] = {}] /\ \A d \in WellFormed(todo[p]) : kind[d] = "good"
    <3>1. p \in Writers(e) /\ p \notin Writers(e)' /\ kind[e] = "good"
      BY <1>t, <2>3 DEF Writers, WellFormed
    <3>2. rows'[e] = rows[e] + 1
      BY <2>3 DEF Insert
    <3> QED
      BY <1>g, <1>t, <2>1, <2>2, <3>1, <3>2, NoNewDelivery
  <2>4. CASE rows'[e] = rows[e]
    BY <1>g, <1>t, <2>1, <2>2, <2>4, NoNewDelivery
  <2> QED
    BY <1>5, <2>3, <2>4 DEF WriteBatch, Insert
<1>6. ASSUME NEW p \in Passes, NEW d \in Events, WriteEach(p, d) PROVE RowsAreDeliveries(e)'
  <2>1. times' = times /\ todo' = [todo EXCEPT ![p] = todo[p] \ {d}] /\ d \in todo[p]
    BY <1>6, <1>t DEF WriteEach, stream
  <2>2. Writers(e)' \subseteq Writers(e)
    BY <1>t, <2>1 DEF Writers
  <2>3. CASE Insert({d}) /\ e = d /\ kind[e] = "good"
    <3>1. p \in Writers(e) /\ p \notin Writers(e)'
      BY <1>t, <2>1, <2>3 DEF Writers
    <3>2. rows'[e] = rows[e] + 1
      BY <2>3 DEF Insert
    <3> QED
      BY <1>g, <1>t, <2>1, <2>2, <2>3, <3>1, <3>2, NoNewDelivery
  <2>4. CASE rows'[e] = rows[e]
    BY <1>g, <1>t, <2>1, <2>2, <2>4, NoNewDelivery
  <2> QED
    BY <1>6, <2>3, <2>4 DEF WriteEach, Insert
<1>7. ASSUME NEW p \in Passes, NEW d \in Events, ClaimEntry(p, d) PROVE RowsAreDeliveries(e)'
  <2>1. /\ rows' = rows /\ times' = [times EXCEPT ![d] = times[d] + 1]
        /\ todo' = todo \/ todo' = [todo EXCEPT ![p] = todo[p] \cup {d}]
    BY <1>7, <1>t DEF ClaimEntry, table
  <2>2. CASE e = d
    <3>1. Writers(e)' \subseteq Writers(e) \cup {p} /\ times'[e] = times[e] + 1
      BY <1>t, <2>1, <2>2 DEF Writers
    <3> QED
      BY <1>g, <2>1, <3>1, NewDelivery
  <2>3. CASE e # d
    <3>1. Writers(e)' \subseteq Writers(e) /\ times'[e] = times[e]
      BY <1>t, <2>1, <2>3 DEF Writers
    <3> QED
      BY <1>g, <1>t, <2>1, <3>1, NoNewDelivery
  <2> QED
    BY <2>2, <2>3
<1>8. ASSUME NEW p \in Passes, PassDies(p) PROVE RowsAreDeliveries(e)'
  <2>1. rows' = rows /\ times' = times /\ todo' = [todo EXCEPT ![p] = {}]
    BY <1>8 DEF PassDies, table, stream
  <2>2. Writers(e)' \subseteq Writers(e)
    BY <1>t, <2>1 DEF Writers
  <2> QED
    BY <1>g, <1>t, <2>1, <2>2, NoNewDelivery
<1>9. ASSUME NEW d \in Events, GrowsIdle(d) PROVE RowsAreDeliveries(e)'
  BY <1>s, <1>9 DEF GrowsIdle, table, pass
<1>10. CASE TableStep /\ UNCHANGED <<stream, pass>>
  <2>1. times' = times /\ todo' = todo
    BY <1>10 DEF stream, pass
  <2>2. rows'[e] <= rows[e]
    <3>1. CASE rows' = rows
      BY <1>t, <3>1
    <3>2. CASE PurgeDefault
      BY <1>t, <3>2 DEF PurgeDefault
    <3>3. ASSUME NEW m \in Months, PurgeDrops(m) PROVE rows'[e] <= rows[e]
      BY <1>t, <3>3 DEF PurgeDrops
    <3> QED
      BY <1>10, <3>1, <3>2, <3>3
      DEF TableStep, PurgeStep, EnsureStarts, EnsureCreates, EnsureDies, PurgeStarts, PurgeDies,
          TimePasses
  <2>3. Writers(e)' = Writers(e)
    BY <2>1 DEF Writers
  <2> QED
    BY <1>g, <1>t, <2>1, <2>2, <2>3, NoNewDelivery
<1> QED
  BY <1>1, <1>2, <1>3, <1>4, <1>5, <1>6, <1>7, <1>8, <1>9, <1>10, Zenon DEF Next, PassStep

\* An event has more than one row only when passes crashed, failed or were overtaken,
\* and at most one more for each time: consume_audit_events needs no key against it.
THEOREM DuplicatesAreFaults == Spec => []DuplicatesNeedFaults
<1>1. TrailTypeOK /\ PoisonInv /\ DeliveriesInv => DuplicatesNeedFaults
  <2> SUFFICES ASSUME TrailTypeOK, PoisonInv, DeliveriesInv, NEW e \in Events
               PROVE  rows[e] <= 1 + faults
    BY DEF DuplicatesNeedFaults
  <2>1. rows[e] \in Nat /\ times[e] \in Nat /\ faults \in Nat
    BY Bounds DEF TrailTypeOK, TableTypeOK
  <2>2. Cardinality(Writers(e)) \in Nat /\ rows[e] + Cardinality(Writers(e)) <= times[e]
        /\ (kind[e] # "good" => rows[e] = 0)
    BY FS_CardinalityType DEF DeliveriesInv, RowsAreDeliveries
  <2>3. kind[e] = "good" => times[e] <= faults + 1
    BY DEF PoisonInv, GoodIsFair
  <2> QED
    BY <2>1, <2>2, <2>3
<1> QED
  BY <1>1, TypeInit, TypeStep, ShapeInit, ShapeStep, PoisonInit, PoisonStep, DeliveriesInit,
     DeliveriesStep, PTL DEF Spec

=============================================================================

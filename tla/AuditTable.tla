----------------------------- MODULE AuditTable -----------------------------
(***************************************************************************)
(* The partitioned audit_logs table: rows go to the partition of the month *)
(* in which their event happened, or to DEFAULT; one cron job creates      *)
(* partitions ahead of time, another one drops those past the retention.   *)
(*                                                                         *)
(* Postgres refuses a partition whose rows are already in DEFAULT, so the  *)
(* rows of a month are always in one place: in its partition if that       *)
(* exists, in DEFAULT otherwise.                                           *)
(***************************************************************************)
EXTENDS Integers, FiniteSets

CONSTANTS
  Events,      \* audit events, numbered in the order of their stream ids
  Lookahead,   \* AUDIT_PARTITION_LOOKAHEAD_MONTHS, the current one included
  Retention,   \* AUDIT_LOG_RETENTION_DAYS
  MonthLength, \* days of a month
  MaxClock,    \* bound on the clock, which counts days
  MaxFaults    \* bound on crashes, failed calls and slow passes in a behaviour

ASSUME TableAssumption ==
  /\ Events \subseteq Nat \ {0} /\ Lookahead \in Nat \ {0}
  /\ Retention \in Nat /\ MonthLength \in Nat \ {0} /\ MaxClock \in Nat /\ MaxFaults \in Nat

Month(t) == t \div MonthLength
FirstDay(m) == m * MonthLength
Months == 0 .. Month(MaxClock) + Lookahead

VARIABLES
  clock,
  parts,       \* months that have a partition
  born,        \* event: created_at
  rows,        \* event: number of its rows in the table
  offset,      \* ensure_audit_log_partitions: next month, Lookahead if it does not run
  clean,       \* that run has not failed yet
  ensured,     \* in this month a run went through without a failure
  missed,      \* months that passed without such a run
  listed,      \* purge_old_audit_logs: partitions it has still to drop
  cutoff,      \* that job: the clock when it started
  purging,     \* that job runs
  faults

ensure == <<offset, clean, ensured, missed>>
purge == <<listed, cutoff, purging>>
table == <<clock, parts, born, rows, ensure, purge>>

TableInit ==
  /\ clock = 0 /\ parts = 0 .. Lookahead - 1   \* the migration creates them
  /\ born = [e \in Events |-> 0] /\ rows = [e \in Events |-> 0]
  /\ offset = Lookahead /\ clean = TRUE /\ ensured = FALSE /\ missed = 0
  /\ listed = {} /\ cutoff = 0 /\ purging = FALSE
  /\ faults = 0

Fault == faults < MaxFaults /\ faults' = faults + 1

\* created_at < cutoff, for a purge that starts at the time now.
Old(t, now) == t + Retention < now

\* Variant: a month is past the retention as soon as its first day is.
PastRetentionEarly(m, now) == FirstDay(m) + Retention <= now

\* The whole month m is out of the retention window; one that straddles the cutoff
\* is not.
PastRetention(m, now) == FirstDay(m + 1) + Retention <= now

\* INSERT of a row for each event of S.
Insert(S) == rows' = [e \in Events |-> IF e \in S THEN rows[e] + 1 ELSE rows[e]]

\* Rows of month m are in DEFAULT.
InDefault(m) == m \notin parts /\ \E e \in Events : rows[e] > 0 /\ Month(born[e]) = m

-----------------------------------------------------------------------------
(* ensure_audit_log_partitions, every night                                *)

EnsureStarts ==
  /\ offset = Lookahead /\ offset' = 0
  /\ UNCHANGED <<clock, parts, born, rows, clean, ensured, missed, purge, faults>>

\* Variant: the window starts one month earlier.
EnsureFromLast == Month(clock) + offset - 1

\* The months of one run: from the current one on.  (A run ends before the
\* day does.)
EnsureMonth == Month(clock) + offset

\* CREATE TABLE IF NOT EXISTS ... PARTITION OF, a transaction for each month;
\* when one fails the others are still tried.
EnsureCreates ==
  /\ offset < Lookahead /\ offset' = offset + 1
  /\ \E ok \in BOOLEAN :
       /\ ok => ~InDefault(EnsureMonth)
       /\ parts' = IF ok THEN parts \cup {EnsureMonth} ELSE parts
       /\ IF offset' = Lookahead
          THEN clean' = TRUE /\ ensured' = (ensured \/ (clean /\ ok))
          ELSE clean' = (clean /\ ok) /\ UNCHANGED ensured
  /\ UNCHANGED <<clock, born, rows, missed, purge, faults>>

EnsureDies ==
  /\ offset < Lookahead /\ offset' = Lookahead /\ clean' = TRUE
  /\ UNCHANGED <<clock, parts, born, rows, ensured, missed, purge, faults>>

-----------------------------------------------------------------------------
(* purge_old_audit_logs, every night                                       *)

\* The cutoff, and those of the partitions in pg_inherits that are wholly before
\* it.  Left out while the cutoff is before the first event.
PurgeStarts ==
  /\ ~purging /\ Old(0, clock)
  /\ purging' = TRUE /\ cutoff' = clock
  /\ listed' = {m \in parts : PastRetention(m, clock)}
  /\ UNCHANGED <<clock, parts, born, rows, ensure, faults>>

\* DROP TABLE, a transaction for each partition.
PurgeDrops(m) ==
  /\ m \in listed /\ listed' = listed \ {m}
  /\ \/ /\ parts' = parts \ {m}
        /\ rows' = [e \in Events |-> IF Month(born[e]) = m THEN 0 ELSE rows[e]]
        /\ UNCHANGED faults
     \/ Fault /\ UNCHANGED <<parts, rows>>
  /\ UNCHANGED <<clock, born, ensure, cutoff, purging>>

\* Variant: only partitions are purged.
PurgeSkipsDefault ==
  /\ purging /\ listed = {} /\ purging' = FALSE /\ cutoff' = 0
  /\ UNCHANGED <<clock, parts, born, rows, ensure, listed, faults>>

\* DELETE FROM the DEFAULT partition, with the same cutoff.
PurgeDefault ==
  /\ purging /\ listed = {} /\ purging' = FALSE /\ cutoff' = 0
  /\ rows' = [e \in Events |->
               IF Month(born[e]) \notin parts /\ Old(born[e], cutoff) THEN 0 ELSE rows[e]]
  /\ UNCHANGED <<clock, parts, born, ensure, listed, faults>>

\* The worker dies, or the DELETE fails.
PurgeDies ==
  /\ purging /\ Fault
  /\ purging' = FALSE /\ cutoff' = 0 /\ listed' = {}
  /\ UNCHANGED <<clock, parts, born, rows, ensure>>

-----------------------------------------------------------------------------
TimePasses ==
  /\ clock < MaxClock /\ offset = Lookahead
  /\ clock' = clock + 1
  /\ \/ Month(clock') = Month(clock) /\ UNCHANGED <<ensured, missed>>
     \/ /\ Month(clock') # Month(clock)
        /\ ensured' = FALSE /\ missed' = IF ensured THEN missed ELSE missed + 1
  /\ UNCHANGED <<parts, born, rows, offset, clean, purge, faults>>

PurgeStep == PurgeStarts \/ PurgeDefault \/ \E m \in Months : PurgeDrops(m)

TableStep ==
  \/ EnsureStarts \/ EnsureCreates \/ EnsureDies
  \/ PurgeStep \/ PurgeDies
  \/ TimePasses

-----------------------------------------------------------------------------
TableTypeOK ==
  /\ clock \in 0 .. MaxClock /\ parts \in SUBSET Months
  /\ born \in [Events -> 0 .. MaxClock] /\ rows \in [Events -> Nat]
  /\ offset \in 0 .. Lookahead /\ clean \in BOOLEAN /\ ensured \in BOOLEAN
  /\ missed \in Nat
  /\ listed \in SUBSET Months /\ cutoff \in 0 .. MaxClock /\ purging \in BOOLEAN
  /\ faults \in 0 .. MaxFaults

=============================================================================

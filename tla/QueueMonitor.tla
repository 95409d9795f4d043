---------------------------- MODULE QueueMonitor ----------------------------
(***************************************************************************)
(* report_queue_depth, the cron that counts the dead letters added since   *)
(* its last run and opens or closes the admission breaker.  The breaker is *)
(* a Redis key whose lifetime is two periods of the cron, so admission     *)
(* resumes by itself when the monitor stops.                               *)
(***************************************************************************)
EXTENDS Naturals

CONSTANTS
  Cap,         \* ADMISSION_PAUSE_NEW_DEAD_LETTERS
  MaxDead      \* bound on dead letters

ASSUME MonitorAssumption == Cap \in Nat /\ MaxDead \in Nat

VARIABLES
  jammed,      \* the backlog is above ADMISSION_PAUSE_BACKLOG_THRESHOLD
  dead,        \* entries ever written to the dead-letter stream
  aligned,     \* DEAD_LETTER_CURSOR_KEY exists
  cursor,      \* what it says
  paused,      \* admission:paused is set
  missed,      \* runs missed since the last one
  mpc, sick,   \* a run: next step, its verdict
  recent,      \* history: dead letters since a run last counted
  basis        \* history: what recent was then, and whether the backlog was high

queues == <<jammed, dead>>
run == <<aligned, cursor, mpc, sick, basis>>
monitor == <<queues, run, paused, missed, recent>>

\* The stream may hold the dead letters of an earlier incident.
MonitorInit ==
  /\ jammed = FALSE /\ dead \in 0 .. MaxDead /\ aligned = FALSE /\ cursor = 0
  /\ paused = FALSE /\ missed = 0 /\ mpc = "idle" /\ sick = FALSE
  /\ recent = 0 /\ basis = <<0, FALSE>>

DeadLetter ==
  /\ dead < MaxDead
  /\ dead' = dead + 1 /\ recent' = recent + 1
  /\ UNCHANGED <<jammed, run, paused, missed>>

\* The consumers fall behind, and catch up again.
Jam == ~jammed /\ jammed' = TRUE /\ UNCHANGED <<dead, run, paused, missed, recent>>
Drain == jammed /\ jammed' = FALSE /\ UNCHANGED <<dead, run, paused, missed, recent>>

\* Variant: the first run counts whatever the stream holds.
AllDeadLetters == IF dead - cursor > Cap THEN Cap + 1 ELSE dead - cursor

\* XRANGE stops after cap + 1 entries; the first run only aligns the cursor.
NewDeadLetters ==
  IF ~aligned THEN 0 ELSE IF dead - cursor > Cap THEN Cap + 1 ELSE dead - cursor

CollectQueueStats ==
  /\ mpc = "idle" /\ mpc' = "set"
  /\ sick' = (NewDeadLetters > Cap \/ jammed)
  /\ cursor' = dead /\ aligned' = TRUE
  /\ basis' = <<IF aligned THEN recent ELSE 0, jammed>> /\ recent' = 0
  /\ UNCHANGED <<queues, paused, missed>>

SetAdmissionPaused ==
  /\ mpc = "set" /\ mpc' = "idle"
  /\ paused' = sick /\ missed' = 0
  /\ sick' = FALSE /\ basis' = <<0, FALSE>>
  /\ UNCHANGED <<queues, aligned, cursor, recent>>

\* A run dies half way or does not start; by the second one the key is gone.
RunMissed ==
  /\ missed < 2 /\ missed' = missed + 1
  /\ mpc' = "idle" /\ paused' = (paused /\ missed' < 2)
  /\ sick' = FALSE /\ basis' = <<0, FALSE>>
  /\ UNCHANGED <<queues, aligned, cursor, recent>>

-----------------------------------------------------------------------------
\* The breaker trips for what is new: the verdict of a run says exactly whether
\* more than the cap of dead letters came since the run before it, or the
\* backlog is high; an incident of the past never trips it again.
BreakerIsFresh == mpc = "set" => sick = (basis[1] > Cap \/ basis[2])

=============================================================================

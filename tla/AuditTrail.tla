----------------------------- MODULE AuditTrail -----------------------------
(***************************************************************************)
(* The audit pipeline in front of AuditTable: a Redis stream that is       *)
(* trimmed by length, a consumer group, and the passes of                  *)
(* consume_audit_events, which reclaim what earlier passes left pending    *)
(* and then read new entries.                                              *)
(*                                                                         *)
(* An acknowledged entry stays in the stream, so trimming does not ask     *)
(* whether an entry was read.  Delivery is at least once: there is no key  *)
(* against a second row for the same entry.                                *)
(***************************************************************************)
EXTENDS AuditTable

CONSTANTS
  Passes,         \* runs of the cron job that may overlap
  Mixes,          \* what the events may be, see kind
  MaxLen,         \* AUDIT_STREAM_MAX_LEN
  Batch,          \* AUDIT_BATCH
  MaxDeliveries   \* AUDIT_MAX_DELIVERIES

ASSUME TrailAssumption ==
  /\ IsFiniteSet(Events) /\ Events = 1 .. Cardinality(Events)
  /\ Mixes \subseteq [Events -> {"good", "malformed", "rejected"}]
  /\ MaxLen \in Nat /\ Batch \in Nat \ {0} /\ MaxDeliveries \in Nat \ {0}

VARIABLES
  \* the stream and its consumer group
  kind,        \* entry: good, malformed, or rejected by Postgres
  emitted,     \* entries appended
  gone,        \* entries 1 .. gone are trimmed
  lastRead,    \* last-delivered-id of the group
  pel,         \* pending entries
  times,       \* entry: times_delivered
  idle,        \* pending entries that are idle for AUDIT_RECLAIM_IDLE_MS
  dead,        \* entries copied to the dead-letter stream
  shed,        \* of these, the ones trimmed from it since
  \* a pass
  ppc,         \* next step
  seen,        \* what XPENDING said of times_delivered, 0 when not listed
  todo,        \* entries it has to write
  wrote,       \* entries it has written and not yet acknowledged
  doomed,      \* entries it has to dead-letter
  buried,      \* of these, the one that is copied and not yet acknowledged
  after        \* its step after the acknowledgement

stream == <<kind, emitted, gone, lastRead, pel, times, idle, dead, shed>>
pass == <<ppc, seen, todo, wrote, doomed, buried, after>>
vars == <<table, faults, stream, pass>>

Unlisted == [e \in Events |-> 0]

Init ==
  /\ TableInit /\ kind \in Mixes
  /\ emitted = 0 /\ gone = 0 /\ lastRead = 0
  /\ pel = {} /\ times = Unlisted /\ idle = {}
  /\ dead = {} /\ shed = {}
  /\ ppc = [p \in Passes |-> "off"] /\ seen = [p \in Passes |-> Unlisted]
  /\ todo = [p \in Passes |-> {}] /\ wrote = [p \in Passes |-> {}]
  /\ doomed = [p \in Passes |-> {}] /\ buried = [p \in Passes |-> {}]
  /\ after = [p \in Passes |-> "off"]

Goes(p, pc) == ppc' = [ppc EXCEPT ![p] = pc]

-----------------------------------------------------------------------------
(* emit_event                                                              *)

\* XADD with an approximate MAXLEN: at least MaxLen entries stay.
Emit ==
  /\ emitted < Cardinality(Events)
  /\ emitted' = emitted + 1
  /\ born' = [born EXCEPT ![emitted + 1] = clock]
  /\ \E g \in gone .. emitted + 1 :
       /\ g = gone \/ emitted + 1 - g >= MaxLen
       /\ gone' = g
  /\ UNCHANGED <<clock, parts, rows, ensure, purge, faults,
                 kind, lastRead, pel, times, idle, dead, shed, pass>>

-----------------------------------------------------------------------------
(* _reclaim_audit_entries                                                  *)

\* Variant: a pass only reads new entries.
PassOnlyReads(p) ==
  /\ ppc[p] = "off"
  /\ Goes(p, "claim")
  /\ UNCHANGED <<table, faults, stream, seen, todo, wrote, doomed, buried, after>>

\* XPENDING with a minimum idle time.
PassStarts(p) ==
  /\ ppc[p] = "off"
  /\ seen' = [seen EXCEPT ![p] = [e \in Events |->
                            IF e \in pel \cap idle THEN times[e] ELSE 0]]
  /\ Goes(p, "claim")
  /\ UNCHANGED <<table, faults, stream, todo, wrote, doomed, buried, after>>

\* Nobody else has claimed the entry, and it is still in the stream.
Claimable(e) == e \in pel \cap idle /\ e > gone

\* XCLAIM; a trimmed entry leaves the pending list with it.
ClaimFails(p, e) ==
  /\ ppc[p] = "claim" /\ seen[p][e] > 0 /\ doomed[p] = {} /\ buried[p] = {}
  /\ ~Claimable(e)
  /\ seen' = [seen EXCEPT ![p][e] = 0]
  /\ pel' = IF e \in idle /\ e <= gone THEN pel \ {e} ELSE pel
  /\ idle' = idle \cap pel'
  /\ UNCHANGED <<table, faults, kind, emitted, gone, lastRead, times, dead, shed,
                 ppc, todo, wrote, doomed, buried, after>>

\* XCLAIM; the count of the listing decides.
ClaimEntry(p, e) ==
  /\ ppc[p] = "claim" /\ seen[p][e] > 0 /\ doomed[p] = {} /\ buried[p] = {}
  /\ Claimable(e)
  /\ seen' = [seen EXCEPT ![p][e] = 0]
  /\ times' = [times EXCEPT ![e] = @ + 1] /\ idle' = idle \ {e}
  /\ \/ /\ seen[p][e] >= MaxDeliveries
        /\ doomed' = [doomed EXCEPT ![p] = {e}] /\ UNCHANGED todo
     \/ /\ seen[p][e] < MaxDeliveries
        /\ todo' = [todo EXCEPT ![p] = @ \cup {e}] /\ UNCHANGED doomed
  /\ UNCHANGED <<table, faults, kind, emitted, gone, lastRead, pel, dead, shed,
                 ppc, wrote, buried, after>>

ReclaimsAll(p) ==
  /\ ppc[p] = "claim" /\ seen[p] = Unlisted /\ doomed[p] = {} /\ buried[p] = {}
  /\ Goes(p, IF todo[p] = {} THEN "read" ELSE "write")
  /\ after' = [after EXCEPT ![p] = "read"]
  /\ UNCHANGED <<table, faults, stream, seen, todo, wrote, doomed, buried>>

-----------------------------------------------------------------------------
(* _consume_audit_batch                                                    *)

\* Variant: the group starts again at the beginning of the stream.
ReadFromStart == {e \in Events : e > gone /\ e <= emitted}

Unread == {e \in Events : e > lastRead /\ e > gone /\ e <= emitted}

\* The unread entries up to n.
UnreadTo(n) == {e \in Unread : e <= n}

\* XREADGROUP >, with COUNT.
ReadNew(p) ==
  /\ ppc[p] \in {"read", "more"}
  /\ \E n \in Unread :
       /\ \/ Cardinality(UnreadTo(n)) = Batch
             /\ after' = [after EXCEPT ![p] = "more"]
          \/ n = emitted /\ Cardinality(UnreadTo(n)) < Batch
             /\ after' = [after EXCEPT ![p] = "off"]
       /\ todo' = [todo EXCEPT ![p] = UnreadTo(n)]
       /\ lastRead' = n /\ pel' = pel \cup UnreadTo(n)
       /\ times' = [e \in Events |-> IF e \in UnreadTo(n) THEN 1 ELSE times[e]]
  /\ Goes(p, "write")
  /\ UNCHANGED <<table, faults, kind, emitted, gone, idle, dead, shed,
                 seen, wrote, doomed, buried>>

\* Nothing is left, or the pass has met its cap, which is one batch at least.
PassEnds(p) ==
  /\ ppc[p] = "more" \/ (ppc[p] = "read" /\ Unread = {})
  /\ Goes(p, "off")
  /\ after' = [after EXCEPT ![p] = "off"]
  /\ UNCHANGED <<table, faults, stream, seen, todo, wrote, doomed, buried>>

-----------------------------------------------------------------------------
(* _write_audit_rows                                                       *)

WellFormed(S) == {e \in S : kind[e] # "malformed"}

\* Variant: a batch that fails is left as it is.
WriteOrLeave(p) ==
  /\ ppc[p] = "write"
  /\ doomed' = [doomed EXCEPT ![p] = todo[p] \ WellFormed(todo[p])]
  /\ \/ /\ \A e \in WellFormed(todo[p]) : kind[e] = "good"
        /\ Insert(WellFormed(todo[p]))
        /\ wrote' = [wrote EXCEPT ![p] = WellFormed(todo[p])]
        /\ UNCHANGED faults
     \/ /\ \E e \in WellFormed(todo[p]) : kind[e] = "rejected"
        /\ UNCHANGED <<rows, wrote, faults>>
     \/ /\ WellFormed(todo[p]) # {} /\ Fault
        /\ UNCHANGED <<rows, wrote>>
  /\ todo' = [todo EXCEPT ![p] = {}] /\ Goes(p, "bury")
  /\ UNCHANGED <<clock, parts, born, ensure, purge, stream,
                 seen, buried, after>>

\* One transaction for all well-formed entries; if it fails, one for each.
WriteBatch(p) ==
  /\ ppc[p] = "write"
  /\ doomed' = [doomed EXCEPT ![p] = todo[p] \ WellFormed(todo[p])]
  /\ \/ /\ \A e \in WellFormed(todo[p]) : kind[e] = "good"
        /\ Insert(WellFormed(todo[p]))
        /\ wrote' = [wrote EXCEPT ![p] = WellFormed(todo[p])]
        /\ todo' = [todo EXCEPT ![p] = {}] /\ Goes(p, "bury")
        /\ UNCHANGED faults
     \/ /\ \/ (\E e \in WellFormed(todo[p]) : kind[e] = "rejected") /\ UNCHANGED faults
           \/ WellFormed(todo[p]) # {} /\ Fault
        /\ todo' = [todo EXCEPT ![p] = WellFormed(@)] /\ Goes(p, "each")
        /\ UNCHANGED <<rows, wrote>>
  /\ UNCHANGED <<clock, parts, born, ensure, purge, stream,
                 seen, buried, after>>

\* Variant: every entry that was tried is acknowledged.
WriteEachAcks(p, e) ==
  /\ ppc[p] = "each" /\ e \in todo[p]
  /\ \/ kind[e] = "good" /\ Insert({e})
     \/ kind[e] = "rejected" /\ UNCHANGED rows
  /\ wrote' = [wrote EXCEPT ![p] = @ \cup {e}]
  /\ todo' = [todo EXCEPT ![p] = @ \ {e}]
  /\ Goes(p, IF todo[p] = {e} THEN "bury" ELSE "each")
  /\ UNCHANGED <<clock, parts, born, ensure, purge, faults,
                 stream, seen, doomed, buried, after>>

\* An entry that cannot be written stays pending.
WriteEach(p, e) ==
  /\ ppc[p] = "each" /\ e \in todo[p]
  /\ \/ /\ kind[e] = "good" /\ Insert({e})
        /\ wrote' = [wrote EXCEPT ![p] = @ \cup {e}] /\ UNCHANGED faults
     \/ /\ kind[e] = "rejected" /\ UNCHANGED <<rows, wrote, faults>>
     \/ /\ kind[e] = "good" /\ Fault /\ UNCHANGED <<rows, wrote>>
  /\ todo' = [todo EXCEPT ![p] = @ \ {e}]
  /\ Goes(p, IF todo[p] = {e} THEN "bury" ELSE "each")
  /\ UNCHANGED <<clock, parts, born, ensure, purge, stream,
                 seen, doomed, buried, after>>

-----------------------------------------------------------------------------
(* _dead_letter_audit, and the acknowledgement of the batch                *)

\* XADD to the dead-letter stream, which may trim any older ones (how many it keeps
\* is left out) ...
Bury(p, e) ==
  /\ ppc[p] \in {"claim", "bury"} /\ e \in doomed[p] /\ buried[p] = {}
  /\ dead' = dead \cup {e}
  /\ \E S \in SUBSET dead : shed' = (shed \cup S) \ {e}
  /\ doomed' = [doomed EXCEPT ![p] = @ \ {e}]
  /\ buried' = [buried EXCEPT ![p] = {e}]
  /\ UNCHANGED <<table, faults, kind, emitted, gone, lastRead, pel, times, idle,
                 ppc, seen, todo, wrote, after>>

\* ... and XACK.
AckBuried(p) ==
  /\ buried[p] # {}
  /\ pel' = pel \ buried[p] /\ idle' = idle \ buried[p]
  /\ buried' = [buried EXCEPT ![p] = {}]
  /\ UNCHANGED <<table, faults, kind, emitted, gone, lastRead, times, dead, shed,
                 ppc, seen, todo, wrote, doomed, after>>

\* XACK of what is in Postgres, and of nothing else.
AckBatch(p) ==
  /\ ppc[p] = "bury" /\ doomed[p] = {} /\ buried[p] = {}
  /\ pel' = pel \ wrote[p] /\ idle' = idle \ wrote[p]
  /\ wrote' = [wrote EXCEPT ![p] = {}]
  /\ Goes(p, after[p])
  /\ UNCHANGED <<table, faults, kind, emitted, gone, lastRead, times, dead, shed,
                 seen, todo, doomed, buried, after>>

-----------------------------------------------------------------------------
Held == UNION {todo[p] \cup wrote[p] \cup doomed[p] \cup buried[p] : p \in Passes}

\* Time passes for a pending entry.  With a pass still at work on it, this is a
\* pass that takes longer than the idle threshold.
GrowsIdle(e) ==
  /\ e \in pel \ idle
  /\ idle' = idle \cup {e}
  /\ \/ e \notin Held /\ UNCHANGED faults
     \/ e \in Held /\ Fault
  /\ UNCHANGED <<table, kind, emitted, gone, lastRead, pel, times, dead, shed, pass>>

\* The worker dies, or a call to Redis raises and ends the pass.
PassDies(p) ==
  /\ ppc[p] # "off" /\ Fault
  /\ Goes(p, "off") /\ seen' = [seen EXCEPT ![p] = Unlisted]
  /\ todo' = [todo EXCEPT ![p] = {}] /\ wrote' = [wrote EXCEPT ![p] = {}]
  /\ doomed' = [doomed EXCEPT ![p] = {}] /\ buried' = [buried EXCEPT ![p] = {}]
  /\ after' = [after EXCEPT ![p] = "off"]
  /\ UNCHANGED <<table, stream>>

PassStep(p) ==
  \/ PassStarts(p) \/ ReclaimsAll(p) \/ ReadNew(p) \/ PassEnds(p)
  \/ WriteBatch(p) \/ AckBuried(p) \/ AckBatch(p)
  \/ \E e \in Events :
       ClaimFails(p, e) \/ ClaimEntry(p, e) \/ WriteEach(p, e) \/ Bury(p, e)

Next ==
  \/ Emit
  \/ \E p \in Passes : PassStep(p) \/ PassDies(p)
  \/ \E e \in Events : GrowsIdle(e)
  \/ TableStep /\ UNCHANGED <<stream, pass>>

Spec == Init /\ [][Next]_vars

(***************************************************************************)
(* The crons run every minute or every night, and time passes.  Nobody     *)
(* owes an event, and the clock may stop.                                  *)
(***************************************************************************)
Fairness ==
  /\ \A p \in Passes : WF_vars(PassStep(p))
  /\ \A e \in Events : WF_vars(GrowsIdle(e))
  /\ WF_vars(PurgeStep /\ UNCHANGED <<stream, pass>>)

FairSpec == Spec /\ Fairness

-----------------------------------------------------------------------------
TrailTypeOK ==
  /\ TableTypeOK
  /\ kind \in Mixes
  /\ emitted \in 0 .. Cardinality(Events) /\ gone \in 0 .. emitted
  /\ lastRead \in 0 .. emitted
  /\ pel \in SUBSET Events /\ idle \in SUBSET Events
  /\ dead \in SUBSET Events /\ shed \in SUBSET dead
  /\ times \in [Events -> Nat] /\ seen \in [Passes -> [Events -> Nat]]
  /\ ppc \in [Passes -> {"off", "claim", "read", "more", "write", "each", "bury"}]
  /\ todo \in [Passes -> SUBSET Events] /\ wrote \in [Passes -> SUBSET Events]
  /\ doomed \in [Passes -> SUBSET Events] /\ buried \in [Passes -> SUBSET Events]
  /\ after \in [Passes -> {"off", "read", "more"}]

\* No event disappears on its way: until it is trimmed it is unread, pending, in
\* Postgres (for as long as the retention) or was copied to the dead-letter stream.
NothingVanishes ==
  \A e \in 1 .. emitted :
    \/ e <= gone \/ e > lastRead \/ e \in pel \cup dead
    \/ rows[e] > 0 \/ Old(born[e], clock)

\* "Poison only poisons itself": a good event is given up only after as many
\* failures as it has deliveries, whatever else is in its batches.
PoisonIsContained ==
  \A e \in dead : kind[e] = "good" => faults >= MaxDeliveries

\* The pipeline loses nothing and gives up nothing but poison.
AuditIsSound == TrailTypeOK /\ NothingVanishes /\ PoisonIsContained

\* Rows are duplicated by failures only: a crash after a commit, or a pass so
\* slow that the next one takes over its entries.
DuplicatesNeedFaults == \A e \in Events : rows[e] <= 1 + faults

\* Within the retention window no row is deleted, however long the purge takes
\* and whatever passes meanwhile: a straddling month stays.
RetentionIsKept ==
  [][\A e \in Events : rows'[e] < rows[e] => Old(born[e], clock)]_vars

\* DEFAULT is an alarm: a row within the retention is there only when the job that
\* creates the partitions has failed for all the months it had ahead.
DefaultIsAlarm ==
  \A e \in Events :
    rows[e] > 0 /\ ~Old(born[e], clock) /\ Month(born[e]) \notin parts
      => missed >= Lookahead - 1

\* Every event that is not trimmed gets its row or is dead-lettered.
EventsLand ==
  \A e \in Events :
    e <= emitted ~> (rows[e] > 0 \/ e \in dead \/ e <= gone \/ Old(born[e], clock))

\* Rows of a month past the retention are deleted, in partitions and in DEFAULT.
OldRowsGo ==
  \A e \in Events :
    (rows[e] > 0 /\ PastRetention(Month(born[e]), clock)) ~> rows[e] = 0

=============================================================================

-------------------------- MODULE InventoryRecovery -------------------------
(***************************************************************************)
(* The life of an event's Redis keys: the stock counter and the purchase   *)
(* quotas that the sale moves, their loss with everything else in Redis,   *)
(* reconcile_inventory, which rebuilds them from Postgres for the drift    *)
(* cron and for the operator's script, and the purge after the event.      *)
(*                                                                         *)
(* The steps of OrderPipeline are taken in the coarse grain that a rebuild *)
(* can tell apart: reserve, persist an intent, end an order, give its      *)
(* tickets back, tick off the outbox row.  AUTO_HEAL_LOST_REDIS_STATE is   *)
(* on.                                                                     *)
(***************************************************************************)
EXTENDS Requests

CONSTANT MaxLosses    \* bound on losses of Redis

ASSUME RecoveryAssumption == MaxLosses \in Nat

\* Who runs reconcile_inventory: detect_inventory_drift, and the script.
Rebuilders == {"cron", "script"}

VARIABLES
  \* Postgres
  order,       \* none, held (PENDING, PAID, CONFIRMED) or ended
  outbox,      \* ended orders whose release is not ticked off
  \* Redis
  lost,        \* event:{id}:available does not exist
  avail,       \* its value
  quota,       \* event:{id}:purchased
  stream,      \* intents
  claims,      \* keys with a claim
  markers,     \* ended orders whose tickets were given back: released:{marker}
  \* processes
  taken,       \* intents a consumer had read when Redis lost them
  bpc, sold, rows,  \* a rebuild: next step, the sum it read, the quotas it read
  expected,    \* the cron: what compute_expected_available said
  \* the event and its surroundings
  phase,       \* sale, or old: past EVENT_KEY_RETENTION_DAYS
  losses,
  alarm,       \* the last comparison found a difference
  odd          \* history: what happened that a rebuild is not prepared for

postgres == <<order, outbox>>
redis == <<lost, avail, quota, stream, claims, markers>>
rebuild == <<bpc, sold, rows>>
cron == <<expected, alarm>>
vars == <<postgres, redis, taken, rebuild, cron, phase, losses, odd>>

Held == {k \in Keys : order[k] = "held"}
Tickets(S) == Cardinality(Units(S))
Of(S, u) == {k \in S : UserOf[k] = u}
HeldBy(u) == Tickets(Of(Held, u))
NoQuota == [u \in Users |-> 0]

Init ==
  /\ order = [k \in Keys |-> "none"] /\ outbox = {}
  /\ lost = FALSE /\ avail = Total /\ quota = NoQuota
  /\ stream = {} /\ claims = {} /\ markers = {} /\ taken = {}
  /\ bpc = [b \in Rebuilders |-> "idle"] /\ sold = [b \in Rebuilders |-> 0]
  /\ rows = [b \in Rebuilders |-> NoQuota]
  /\ expected = 0 /\ alarm = FALSE
  /\ phase = "sale" /\ losses = 0 /\ odd = "nothing"

-----------------------------------------------------------------------------
(***************************************************************************)
(* The sale.                                                               *)
(***************************************************************************)
\* A rebuild is between its first read and its last write.
Rebuilding == \E b \in Rebuilders : bpc[b] \in {"sum", "set", "readq", "writeq"}

(***************************************************************************)
(* What a rebuild is not prepared for.  A "leak" may leave tickets unsold: *)
(* a key used again after its claim expired.  A "race" may sell tickets    *)
(* twice: tickets that move while a rebuild is at work, a release that     *)
(* recreates the counter or is still owed when a rebuild reads, an intent  *)
(* that is persisted after Redis has forgotten it.                         *)
(***************************************************************************)
Noting(leak, race) ==
  odd' = IF race THEN "race" ELSE IF leak /\ odd = "nothing" THEN "leak" ELSE odd

\* The script of reserve_and_enqueue: a missing counter is an empty one.
ReserveAndEnqueue(k) ==
  LET u == UserOf[k]
  IN /\ phase = "sale" /\ k \notin claims
     /\ ~lost /\ avail >= Qty[k] /\ quota[u] + Qty[k] <= Limit
     /\ avail' = avail - Qty[k]
     /\ quota' = [quota EXCEPT ![u] = @ + Qty[k]]
     /\ stream' = stream \cup {k} /\ claims' = claims \cup {k}
     /\ Noting(FALSE, Rebuilding)
     /\ UNCHANGED <<postgres, lost, markers, taken, rebuild, cron, phase, losses>>

\* INSERT under the unique key, then XACK and XDEL.  A second intent under the
\* key of an order is acknowledged as a duplicate.
PersistIntent(k) ==
  /\ k \in stream \cup taken /\ taken' = taken \ {k}
  /\ order' = [order EXCEPT ![k] = IF @ = "none" THEN "held" ELSE @]
  /\ stream' = stream \ {k}
  /\ Noting(order[k] # "none", k \notin stream)
  /\ UNCHANGED <<outbox, lost, avail, quota, claims, markers, rebuild, cron, phase, losses>>

\* cancel_order, expire_order, with the outbox row.
EndOrder(k) ==
  /\ order[k] = "held"
  /\ order' = [order EXCEPT ![k] = "ended"]
  /\ outbox' = outbox \cup {k}
  /\ UNCHANGED <<redis, taken, rebuild, cron, phase, losses, odd>>

\* The script of release, from the fast path or from the relay: INCRBY makes
\* the counter when it does not exist.
Release(k) ==
  LET u == UserOf[k]
      less == quota[u] - Qty[k]
  IN /\ k \in outbox \ markers
     /\ markers' = markers \cup {k}
     /\ avail' = (IF lost THEN 0 ELSE avail) + Qty[k] /\ lost' = FALSE
     /\ quota' = [quota EXCEPT ![u] = IF less < 0 THEN 0 ELSE less]
     /\ Noting(FALSE, Rebuilding \/ lost)
     /\ UNCHANGED <<postgres, stream, claims, taken, rebuild, cron, phase, losses>>

TickOff(k) ==
  /\ k \in outbox \cap markers
  /\ outbox' = outbox \ {k}
  /\ UNCHANGED <<order, redis, taken, rebuild, cron, phase, losses, odd>>

\* DEFAULT_TTL_SECONDS after the order; the client may use the key again.
ClaimExpires(k) ==
  /\ k \in claims \ (stream \cup taken)
  /\ claims' = claims \ {k}
  /\ UNCHANGED <<postgres, lost, avail, quota, stream, markers, taken, rebuild, cron, phase,
                 losses, odd>>

-----------------------------------------------------------------------------
(***************************************************************************)
(* The end of the event, and of Redis.                                     *)
(***************************************************************************)
TimePasses ==
  /\ phase = "sale" /\ outbox = {} /\ stream = {} /\ taken = {} /\ phase' = "old"
  /\ UNCHANGED <<postgres, redis, taken, rebuild, cron, losses, odd>>

\* purge_finished_event_keys.
PurgeKeys ==
  /\ phase = "old" /\ ~lost
  /\ lost' = TRUE /\ avail' = 0 /\ quota' = NoQuota
  /\ UNCHANGED <<postgres, stream, claims, markers, taken, rebuild, cron, phase, losses, odd>>

\* Redis comes back empty: intents, claims and markers are gone as well, but a
\* consumer may have read an intent before and persists it all the same.
LoseRedis ==
  /\ losses < MaxLosses /\ losses' = losses + 1
  /\ lost' = TRUE /\ avail' = 0 /\ quota' = NoQuota
  /\ stream' = {} /\ claims' = {} /\ markers' = {}
  /\ taken' \in {taken \cup S : S \in SUBSET stream}
  /\ UNCHANGED <<postgres, rebuild, cron, phase, odd>>

-----------------------------------------------------------------------------
(***************************************************************************)
(* detect_inventory_drift and reconcile_inventory.                         *)
(***************************************************************************)
Goes(b, pc) == bpc' = [bpc EXCEPT ![b] = pc]
AuditOrRest(b) == Goes(b, "idle") \/ (b = "cron" /\ Goes(b, "audit"))

\* The backlog is empty, and Postgres says what should be left.
ComputeExpected ==
  /\ bpc["cron"] = "idle" /\ stream = {} /\ phase # "old"
  /\ expected' = Total - Tickets(Held)
  /\ Goes("cron", "compare")
  /\ UNCHANGED <<postgres, redis, taken, sold, rows, alarm, phase, losses, odd>>

\* Variant: a missing counter is read as zero, get_available, and only reported.
CompareFolded ==
  /\ bpc["cron"] = "compare"
  /\ alarm' = (avail # expected) /\ expected' = 0
  /\ AuditOrRest("cron")
  /\ UNCHANGED <<postgres, redis, taken, sold, rows, phase, losses, odd>>

\* A missing counter is rebuilt, a wrong one only reported.  The quotas have
\* their turn every QUOTA_AUDIT_SLOTS rounds.
CompareAvailable ==
  /\ bpc["cron"] = "compare"
  /\ alarm' = (lost \/ avail # expected)
  /\ IF lost THEN Goes("cron", "guard") ELSE AuditOrRest("cron")
  /\ expected' = 0
  /\ UNCHANGED <<postgres, redis, taken, sold, rows, phase, losses, odd>>

AuditQuotas ==
  /\ bpc["cron"] = "audit" /\ Goes("cron", "idle")
  /\ alarm' = (alarm \/ \E u \in Users : quota[u] # HeldBy(u))
  /\ UNCHANGED <<postgres, redis, taken, sold, rows, expected, phase, losses, odd>>

\* An operator acts on the report, without --force (see SkipBacklog).
StartScript ==
  /\ bpc["script"] = "idle" /\ phase # "old" /\ alarm
  /\ Goes("script", "guard")
  /\ UNCHANGED <<postgres, redis, taken, sold, rows, cron, phase, losses, odd>>

\* Variant: the rebuild does not ask for the backlog, what --force makes of it.
SkipBacklog(b) ==
  /\ bpc[b] = "guard" /\ Goes(b, "sum")
  /\ UNCHANGED <<postgres, redis, taken, sold, rows, cron, phase, losses, odd>>

\* InventoryNotReconcilable while intents are not persisted.
CheckBacklog(b) ==
  /\ bpc[b] = "guard"
  /\ Goes(b, IF stream = {} THEN "sum" ELSE "idle")
  /\ UNCHANGED <<postgres, redis, taken, sold, rows, cron, phase, losses, odd>>

Outstanding == outbox \ markers

SumHeld(b) ==
  /\ bpc[b] = "sum"
  /\ sold' = [sold EXCEPT ![b] = Tickets(Held)]
  /\ Noting(FALSE, Outstanding # {})
  /\ Goes(b, "set")
  /\ UNCHANGED <<postgres, redis, taken, rows, cron, phase, losses>>

\* Variant: the remainder is added to the counter, not written over it.
SetAdds(b) ==
  /\ bpc[b] = "set"
  /\ avail' = avail + Total - sold[b] /\ lost' = FALSE
  /\ sold' = [sold EXCEPT ![b] = 0]
  /\ Goes(b, "readq")
  /\ UNCHANGED <<postgres, quota, stream, claims, markers, taken, rows, cron, phase, losses,
                 odd>>

SetAvailable(b) ==
  /\ bpc[b] = "set"
  /\ avail' = Total - sold[b] /\ lost' = FALSE
  /\ sold' = [sold EXCEPT ![b] = 0]
  /\ Goes(b, "readq")
  /\ UNCHANGED <<postgres, quota, stream, claims, markers, taken, rows, cron, phase, losses,
                 odd>>

\* _rebuild_purchase_quotas reads Postgres a second time.
ReadQuotas(b) ==
  /\ bpc[b] = "readq"
  /\ rows' = [rows EXCEPT ![b] = [u \in Users |-> HeldBy(u)]]
  /\ Noting(FALSE, Outstanding # {})
  /\ Goes(b, "writeq")
  /\ UNCHANGED <<postgres, redis, taken, sold, cron, phase, losses>>

\* Variant: only the stock is rebuilt, the quotas start from zero.
WriteNoQuotas(b) ==
  /\ bpc[b] = "writeq"
  /\ rows' = [rows EXCEPT ![b] = NoQuota]
  /\ AuditOrRest(b)
  /\ UNCHANGED <<postgres, redis, taken, sold, cron, phase, losses, odd>>

\* DEL and HSET in one transaction.
WriteQuotas(b) ==
  /\ bpc[b] = "writeq"
  /\ quota' = rows[b]
  /\ rows' = [rows EXCEPT ![b] = NoQuota]
  /\ AuditOrRest(b)
  /\ UNCHANGED <<postgres, lost, avail, stream, claims, markers, taken, sold, cron, phase,
                 losses, odd>>

RebuildStep(b) ==
  CheckBacklog(b) \/ SumHeld(b) \/ SetAvailable(b) \/ ReadQuotas(b) \/ WriteQuotas(b)

Next ==
  \/ \E k \in Keys :
       ReserveAndEnqueue(k) \/ PersistIntent(k) \/ EndOrder(k)
         \/ Release(k) \/ TickOff(k) \/ ClaimExpires(k)
  \/ TimePasses \/ PurgeKeys \/ LoseRedis
  \/ ComputeExpected \/ CompareAvailable \/ AuditQuotas \/ StartScript
  \/ \E b \in Rebuilders : RebuildStep(b)

Spec == Init /\ [][Next]_vars

(***************************************************************************)
(* Fairness: consumers, the relay and the crons run on, a rebuild that was *)
(* started goes on.  The cron has to see an empty backlog again and again, *)
(* not all the time: it asks every five minutes.  Every event has its turn *)
(* in the audit of the quotas: _quota_audit_due.                           *)
(***************************************************************************)
FairSpec ==
  /\ Spec
  /\ \A k \in Keys : WF_vars(PersistIntent(k))
                       /\ WF_vars(Release(k)) /\ WF_vars(TickOff(k))
  /\ SF_vars(ComputeExpected) /\ WF_vars(CompareAvailable) /\ WF_vars(AuditQuotas)
  /\ SF_vars(CompareAvailable /\ bpc'["cron"] = "audit")
  /\ \A b \in Rebuilders : WF_vars(RebuildStep(b))

-----------------------------------------------------------------------------
\* Losing Redis is not enough to oversell or to break a limit: more tickets are
\* held than there are, or than one user may hold, only when reconcile_inventory
\* summed while a release was still owed (the release then counts twice), when
\* tickets moved while it was at work, or when an intent was persisted that Redis
\* had forgotten.
OversellHasCause ==
  Tickets(Held) > Total \/ (\E u \in Users : HeldBy(u) > Limit) => odd = "race"

\* At rest both counters say what Postgres says, after a loss as well, unless
\* something happened that the rebuild is not prepared for.
AtRest == outbox = {} /\ stream = {} /\ taken = {} /\ ~lost /\ phase # "old"
            /\ \A b \in Rebuilders : bpc[b] = "idle"
RestIsExact ==
  AtRest /\ odd = "nothing" =>
    avail = Total - Tickets(Held) /\ \A u \in Users : quota[u] = HeldBy(u)

\* A key used again after its claim expired leaves tickets unsold at worst: its
\* second intent is acknowledged as a duplicate and nothing gives its tickets back.
LeaksOnlyUndersell == AtRest /\ odd = "leak" => avail <= Total - Tickets(Held)

\* The counters do more harm than leaving tickets unsold only for a reason.
DriftHasCause == OversellHasCause /\ LeaksOnlyUndersell

\* No difference stays silent, whatever caused it: one in the counter or in the
\* quotas goes away or is reported, and a lost counter is rebuilt before that.
Differs ==
  phase = "sale" /\ \/ lost \/ avail # Total - Tickets(Held)
                    \/ \E u \in Users : quota[u] # HeldBy(u)
DriftIsSeen == Differs ~> (~Differs \/ (alarm /\ ~lost))

=============================================================================

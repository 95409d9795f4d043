----------------------------- MODULE EventCache -----------------------------
(***************************************************************************)
(* The cache of event meta in front of EventAdmin: cache-aside with a      *)
(* single flight per process, a Redis lock between the processes, a        *)
(* time to live, and invalidation by the administrators' requests.         *)
(*                                                                         *)
(* A flight runs in a task of its own, so a request that is cancelled      *)
(* leaves it running.  A finished task stays registered until its done     *)
(* callback has run.                                                       *)
(***************************************************************************)
EXTENDS EventAdmin

CONSTANTS
  Procs,       \* API processes
  Readers,     \* concurrent calls of get_event_meta
  Tasks,       \* slots for tasks of single flights
  ProcOf,      \* the process of a reader or of a task
  Orphan       \* a lock token whose task is gone

ASSUME ProcAssumption ==
  /\ \A x \in Readers \cup Tasks : ProcOf[x] \in Procs
  /\ None \notin Tasks /\ Orphan \notin Tasks /\ Orphan # None

VARIABLES
  \* Redis
  cache,       \* event:{id}:meta: the versions it was computed from, or Nothing
  lock,        \* lock:event:{id}:meta: the task whose token it holds
  \* memory of the processes
  inflight,    \* SingleFlight._inflight of a process
  tpc, got,    \* task: next step, what it has read
  held,        \* tasks inside the try block of the lock
  lost,        \* of these, the ones that have outlived their lock
  rpc, flight  \* reader: next step, the task it waits for

cached == <<cache, lock>>
tasks == <<tpc, got, held, lost>>
readers == <<rpc, flight>>
vars == <<admin, faults, cached, inflight, tasks, readers>>

Init ==
  /\ AdminInit
  /\ cache = Nothing /\ lock = None
  /\ inflight = [p \in Procs |-> None]
  /\ tpc = [t \in Tasks |-> "idle"] /\ got = [t \in Tasks |-> Nothing]
  /\ held = {} /\ lost = {}
  /\ rpc = [r \in Readers |-> "idle"] /\ flight = [r \in Readers |-> None]

-----------------------------------------------------------------------------
(* get_event_meta and SingleFlight.run                                     *)

\* A hit answers at once.
ReadCache(r) ==
  /\ rpc[r] = "idle" /\ cache = Nothing
  /\ rpc' = [rpc EXCEPT ![r] = "missed"]
  /\ UNCHANGED <<admin, faults, cached, inflight, tasks, flight>>

Running(t) == tpc[t] \notin {"idle", "done"}

\* The registered flight is still computing.
CanJoin(p) == inflight[p] # None /\ Running(inflight[p])

JoinFlight(r) ==
  /\ rpc[r] = "missed" /\ CanJoin(ProcOf[r])
  /\ rpc' = [rpc EXCEPT ![r] = "wait"]
  /\ flight' = [flight EXCEPT ![r] = inflight[ProcOf[r]]]
  /\ UNCHANGED <<admin, faults, cached, inflight, tasks>>

StartFlight(r, t) ==
  /\ rpc[r] = "missed" /\ ~CanJoin(ProcOf[r])
  /\ ProcOf[t] = ProcOf[r] /\ tpc[t] = "idle"
  /\ tpc' = [tpc EXCEPT ![t] = "lock"]
  /\ inflight' = [inflight EXCEPT ![ProcOf[r]] = t]
  /\ rpc' = [rpc EXCEPT ![r] = "wait"]
  /\ flight' = [flight EXCEPT ![r] = t]
  /\ UNCHANGED <<admin, faults, cached, got, held, lost>>

\* The request times out; shield keeps the task running.
CancelReader(r) ==
  /\ rpc[r] = "wait"
  /\ rpc' = [rpc EXCEPT ![r] = "idle"]
  /\ flight' = [flight EXCEPT ![r] = None]
  /\ UNCHANGED <<admin, faults, cached, inflight, tasks>>

\* A task ends with a result or an exception, and its waiters have it too.
Finish(t) ==
  /\ tpc' = [tpc EXCEPT ![t] = "done"]
  /\ got' = [got EXCEPT ![t] = Nothing]
  /\ rpc' = [r \in Readers |-> IF flight[r] = t THEN "idle" ELSE rpc[r]]
  /\ flight' = [r \in Readers |-> IF flight[r] = t THEN None ELSE flight[r]]

\* Variant: the callback removes whatever is registered.
ForgetAny(t) ==
  /\ tpc[t] = "done"
  /\ tpc' = [tpc EXCEPT ![t] = "idle"]
  /\ inflight' = [inflight EXCEPT ![ProcOf[t]] = None]
  /\ UNCHANGED <<admin, faults, cached, got, held, lost, readers>>

\* The done callback: only its own registration is removed.
Forget(t) ==
  /\ tpc[t] = "done"
  /\ tpc' = [tpc EXCEPT ![t] = "idle"]
  /\ inflight' = [inflight EXCEPT ![ProcOf[t]] = IF @ = t THEN None ELSE @]
  /\ UNCHANGED <<admin, faults, cached, got, held, lost, readers>>

-----------------------------------------------------------------------------
(* _load_coordinated, _load_and_fill, _release_lock                        *)

Goes(t, pc) == tpc' = [tpc EXCEPT ![t] = pc]

\* SET NX PX.
TryLock(t) ==
  /\ tpc[t] = "lock"
  /\ \/ lock = None /\ lock' = t /\ held' = held \cup {t} /\ Goes(t, "recheck")
     \/ lock # None /\ UNCHANGED <<lock, held>> /\ Goes(t, "poll")
  /\ UNCHANGED <<admin, faults, cache, inflight, got, lost, readers>>

\* The double check: somebody may have filled the key and let go of the lock.
Recheck(t) ==
  /\ tpc[t] = "recheck"
  /\ Goes(t, IF cache # Nothing THEN "release" ELSE "event")
  /\ UNCHANGED <<admin, faults, cached, inflight, got, held, lost, readers>>

\* The key is polled, not the lock.
PollHit(t) ==
  /\ tpc[t] = "poll" /\ cache # Nothing
  /\ Finish(t)
  /\ UNCHANGED <<admin, faults, cached, inflight, held, lost>>

PollAgain(t) ==
  /\ tpc[t] = "poll" /\ cache = Nothing
  /\ Goes(t, "lock")
  /\ UNCHANGED <<admin, faults, cached, inflight, got, held, lost, readers>>

\* Variant: nobody looks at the deadline.
NoDeadline(t) ==
  /\ tpc[t] = "poll" /\ cache = Nothing
  /\ Goes(t, "lock")
  /\ UNCHANGED <<admin, faults, cached, inflight, got, held, lost, readers>>

\* The deadline has passed: load without the lock.
Fallback(t) ==
  /\ tpc[t] = "poll" /\ cache = Nothing
  /\ Goes(t, "event")
  /\ UNCHANGED <<admin, faults, cached, inflight, got, held, lost, readers>>

\* Two statements, each of which sees what is committed by then.
LoadEvent(t) ==
  /\ tpc[t] = "event"
  /\ got' = [got EXCEPT ![t][Event] = version[Event]]
  /\ Goes(t, "prices")
  /\ UNCHANGED <<admin, faults, cached, inflight, held, lost, readers>>

LoadPrices(t) ==
  /\ tpc[t] = "prices"
  /\ got' = [got EXCEPT ![t] = [version EXCEPT ![Event] = got[t][Event]]]
  /\ Goes(t, "fill")
  /\ UNCHANGED <<admin, faults, cached, inflight, held, lost, readers>>

\* SET EX, whatever happened since the load.
Fill(t) ==
  /\ tpc[t] = "fill"
  /\ cache' = got[t]
  /\ \/ t \in held /\ Goes(t, "release") /\ UNCHANGED <<got, readers>>
     \/ t \notin held /\ Finish(t)
  /\ UNCHANGED <<admin, faults, lock, inflight, held, lost>>

\* Variant: the lock is deleted without a look at its token.
ReleaseAny(t) ==
  /\ tpc[t] = "release"
  /\ lock' = None
  /\ held' = held \ {t} /\ lost' = lost \ {t}
  /\ Finish(t)
  /\ UNCHANGED <<admin, faults, cache, inflight>>

\* Only a lock with the task's own token is deleted.
ReleaseLock(t) ==
  /\ tpc[t] = "release"
  /\ lock' = IF lock = t THEN None ELSE lock
  /\ held' = held \ {t} /\ lost' = lost \ {t}
  /\ Finish(t)
  /\ UNCHANGED <<admin, faults, cache, inflight>>

\* A call of the task raises: inside the lock the finally clause still runs.
\* When the answer to SET NX is lost, nobody knows the token that it wrote.
TaskFails(t) ==
  /\ Running(t) /\ tpc[t] # "release" /\ Fault
  /\ \/ t \in held /\ Goes(t, "release") /\ UNCHANGED <<lock, got, readers>>
     \/ t \notin held /\ Finish(t) /\ UNCHANGED lock
     \/ tpc[t] = "lock" /\ lock = None /\ lock' = Orphan /\ Finish(t)
  /\ UNCHANGED <<admin, cache, inflight, held, lost>>

\* The release itself fails, and the lock is left to its time to live.
ReleaseFails(t) ==
  /\ tpc[t] = "release" /\ Fault
  /\ lock' = IF lock = t THEN Orphan ELSE lock
  /\ held' = held \ {t} /\ lost' = lost \ {t}
  /\ Finish(t)
  /\ UNCHANGED <<admin, cache, inflight>>

-----------------------------------------------------------------------------
(* Expiry, crashes, invalidation                                           *)

OrphanExpires ==
  /\ lock = Orphan /\ lock' = None
  /\ UNCHANGED <<admin, faults, cache, inflight, tasks, readers>>

\* A task takes longer than the lock lives.
LockOutlived ==
  /\ lock \in Tasks /\ Fault
  /\ lock' = None /\ lost' = lost \cup {lock}
  /\ UNCHANGED <<admin, cache, inflight, tpc, got, held, readers>>

\* Variant: the key is written without a time to live.
CacheStays ==
  /\ cache # Nothing
  /\ UNCHANGED vars

CacheExpires ==
  /\ cache # Nothing /\ cache' = Nothing
  /\ UNCHANGED <<admin, faults, lock, inflight, tasks, readers>>

ProcessDies(p) ==
  /\ \E t \in Tasks : ProcOf[t] = p /\ Running(t)
  /\ Fault
  /\ lock' = IF lock \in Tasks /\ ProcOf[lock] = p THEN Orphan ELSE lock
  /\ inflight' = [inflight EXCEPT ![p] = None]
  /\ tpc' = [t \in Tasks |-> IF ProcOf[t] = p THEN "idle" ELSE tpc[t]]
  /\ got' = [t \in Tasks |-> IF ProcOf[t] = p THEN Nothing ELSE got[t]]
  /\ held' = {t \in held : ProcOf[t] # p} /\ lost' = {t \in lost : ProcOf[t] # p}
  /\ rpc' = [r \in Readers |-> IF ProcOf[r] = p THEN "idle" ELSE rpc[r]]
  /\ flight' = [r \in Readers |-> IF ProcOf[r] = p THEN None ELSE flight[r]]
  /\ UNCHANGED <<admin, cache>>

\* invalidate_event_meta after an edit has committed.
InvalidateMeta(a) ==
  /\ apc[a] = "invalidate"
  /\ cache' = Nothing
  /\ AdminReturns(a)
  /\ UNCHANGED <<version, published, rowLock, stock, faults, lock, inflight, tasks,
                 readers>>

\* invalidate_event_meta in publish_event, before the caller commits.
PublishInvalidates(a) ==
  /\ apc[a] = "clear"
  /\ cache' = Nothing
  /\ AdminGoesOn(a, "publish")
  /\ UNCHANGED <<version, published, rowLock, stock, read, faults, lock, inflight,
                 tasks, readers>>

-----------------------------------------------------------------------------
LoadStep(t) ==
  \/ TryLock(t) \/ Recheck(t) \/ PollHit(t) \/ PollAgain(t) \/ Fallback(t)
  \/ LoadEvent(t) \/ LoadPrices(t) \/ Fill(t) \/ ReleaseLock(t) \/ Forget(t)

Next ==
  \/ \E r \in Readers :
       \/ ReadCache(r) \/ JoinFlight(r) \/ CancelReader(r)
       \/ \E t \in Tasks : StartFlight(r, t)
  \/ \E t \in Tasks : LoadStep(t) \/ TaskFails(t) \/ ReleaseFails(t)
  \/ OrphanExpires \/ LockOutlived \/ CacheExpires
  \/ \E p \in Procs : ProcessDies(p)
  \/ \E a \in Admins :
       \/ AdminStep(a) /\ UNCHANGED <<cached, inflight, tasks, readers>>
       \/ InvalidateMeta(a) \/ PublishInvalidates(a)

Spec == Init /\ [][Next]_vars

(***************************************************************************)
(* Tasks run and time passes: keys expire, and a task that keeps polling   *)
(* meets its deadline.  Readers, administrators and crashes owe nothing.   *)
(***************************************************************************)
Fairness ==
  /\ \A t \in Tasks : WF_vars(LoadStep(t)) /\ SF_vars(Fallback(t))
  /\ WF_vars(OrphanExpires) /\ WF_vars(CacheExpires)

FairSpec == Spec /\ Fairness

-----------------------------------------------------------------------------
CacheTypeOK ==
  /\ AdminTypeOK
  /\ cache \in Versions /\ lock \in Tasks \cup {None, Orphan}
  /\ inflight \in [Procs -> Tasks \cup {None}]
  /\ tpc \in [Tasks -> {"idle", "lock", "recheck", "poll", "event", "prices", "fill",
                        "release", "done"}]
  /\ got \in [Tasks -> Versions]
  /\ held \in SUBSET Tasks /\ lost \in SUBSET Tasks
  /\ rpc \in [Readers -> {"idle", "missed", "wait"}]
  /\ flight \in [Readers -> Tasks \cup {None}]

\* Two administrators who edit from the same form never both succeed: what
\* apply_event_update or update_zone_prices overwrites is what the form showed,
\* however long the form was open and whoever commits in between.
NoLostUpdate ==
  [][\A a \in Admins :
       apc[a] = "commit" /\ apc'[a] = "invalidate" =>
         \A x \in edit[a] : version[x] = base[a][x]]_vars

\* Within a process concurrent misses share one computation, also around the
\* moment between the end of a task and its callback.
OneFlightPerProcess ==
  \A t, u \in Tasks : Running(t) /\ Running(u) /\ ProcOf[t] = ProcOf[u] => t = u

\* A task inside the lock has the lock unless it outlived it, so of the
\* processes one reads the database at a time; nobody's release takes it away.
LockIsKept == \A t \in held \ lost : lock = t

\* Whoever reads PUBLISHED finds the stock initialised.
OnSaleHasStock == published => stock

\* The locks of the cache hold, and a sale that can be seen is stocked.
CacheIsSound == CacheTypeOK /\ OneFlightPerProcess /\ LockIsKept /\ OnSaleHasStock

\* Every reader that waits for a flight is answered, even if the holder of the
\* lock dies, or other processes always come first to the lock and each fill is
\* gone before the next poll.
ReadersAnswered == \A r \in Readers : rpc[r] = "wait" ~> rpc[r] # "wait"

\* Once the edits stop, stale entries die out: a loader that fills the key with
\* what it read before a commit is outlived by the key's time to live.
CacheConverges == <>[](cache = Nothing \/ cache = version)

=============================================================================

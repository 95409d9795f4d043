-------------------------- MODULE EventCacheProofs --------------------------
(***************************************************************************)
(* Proofs about EventAdmin and EventCache for any number of requests,      *)
(* processes, tasks and rows.  The variables of the administration and     *)
(* those of the cache have an invariant each; every action changes one     *)
(* group and leaves the other alone, or ends a request.                    *)
(***************************************************************************)
EXTENDS EventCache, TLAPS

\* A form shows what can still be edited, and a request that is about to commit
\* has read what its form showed.
FormsAgree ==
  \A a \in Admins :
    /\ apc[a] \in {"send", "commit"} =>
         \A x \in edit[a] : base[a][x] < MaxVersion
    /\ apc[a] = "commit" => \A x \in edit[a] : read[a][x] = base[a][x]

\* A publication that has flushed holds the row, so its draft is the one it read.
RowIsHeld ==
  \A a \in Admins :
    /\ apc[a] \in {"flush", "stock", "clear", "publish"} =>
         read[a][Event] < MaxVersion
    /\ apc[a] \in {"stock", "clear", "publish"} =>
         rowLock = a /\ version[Event] = read[a][Event]

\* Stock is initialised in the step before the invalidation, and stays.
StockIsSet ==
  /\ OnSaleHasStock
  /\ \A a \in Admins : apc[a] \in {"clear", "publish"} => stock

AdminInv == AdminTypeOK /\ FormsAgree /\ RowIsHeld /\ StockIsSet

CacheOnlyTypeOK ==
  /\ cache \in Versions /\ lock \in Tasks \cup {None, Orphan}
  /\ inflight \in [Procs -> Tasks \cup {None}]
  /\ tpc \in [Tasks -> {"idle", "lock", "recheck", "poll", "event", "prices", "fill",
                        "release", "done"}]
  /\ got \in [Tasks -> Versions]
  /\ held \in SUBSET Tasks /\ lost \in SUBSET Tasks
  /\ rpc \in [Readers -> {"idle", "missed", "wait"}]
  /\ flight \in [Readers -> Tasks \cup {None}]

\* A task that is computing is the one its process has registered.
Registered == \A t \in Tasks : Running(t) => inflight[ProcOf[t]] = t

CacheInv == CacheOnlyTypeOK /\ Registered /\ LockIsKept

Inv == AdminInv /\ CacheInv

-----------------------------------------------------------------------------
\* No content is a version vector, and Event is a row.
LEMMA NothingIsVersions == Nothing \in Versions /\ Event \in Rows
BY AdminBoundsAssumption DEF Nothing, Versions, Rows

\* The initial state satisfies the invariant.
LEMMA InitInv == Init => Inv
<1> SUFFICES ASSUME Init PROVE Inv
  OBVIOUS
<1>1. AdminInv
  <2>1. version \in Versions
    BY AdminBoundsAssumption DEF Init, AdminInit, Versions
  <2>2. AdminTypeOK
    <3>1. published \in BOOLEAN /\ stock \in BOOLEAN
      BY DEF Init, AdminInit
    <3>2. edit \in [Admins -> SUBSET Rows]
      BY DEF Init, AdminInit
    <3> QED
      BY <2>1, <3>1, <3>2, NothingIsVersions, AdminBoundsAssumption
         DEF Init, AdminInit, AdminTypeOK
  <2>3. FormsAgree /\ RowIsHeld /\ StockIsSet
    BY DEF Init, AdminInit, FormsAgree, RowIsHeld, StockIsSet, OnSaleHasStock
  <2> QED
    BY <2>2, <2>3 DEF AdminInv
<1>2. CacheInv
  BY NothingIsVersions, ProcAssumption
     DEF Init, CacheInv, CacheOnlyTypeOK, Registered, Running, LockIsKept
<1> QED
  BY <1>1, <1>2 DEF Inv

-----------------------------------------------------------------------------
(* The administration.                                                     *)

\* The end of a request, whatever became of its row lock.
LEMMA ReturnsInv ==
  ASSUME NEW a \in Admins, AdminInv, AdminReturns(a),
         rowLock' = rowLock \/ (rowLock = a /\ rowLock' = None),
         UNCHANGED <<version, published, stock>>, faults' \in 0 .. MaxFaults
  PROVE  AdminInv'
<1>1. AdminTypeOK'
  BY NothingIsVersions, EventRowAssumption DEF AdminInv, AdminTypeOK, AdminReturns, Versions
<1>2. \A b \in Admins : b # a => apc'[b] = apc[b] /\ edit'[b] = edit[b]
                                 /\ base'[b] = base[b] /\ read'[b] = read[b]
  BY DEF AdminReturns, AdminInv, AdminTypeOK
<1>3. apc'[a] = "idle"
  BY DEF AdminReturns, AdminInv, AdminTypeOK
<1>4. FormsAgree'
  BY <1>2, <1>3 DEF AdminInv, FormsAgree
<1>5. RowIsHeld'
  BY <1>2, <1>3 DEF AdminInv, RowIsHeld
<1>6. StockIsSet'
  BY <1>2, <1>3 DEF AdminInv, StockIsSet, OnSaleHasStock
<1> QED
  BY <1>1, <1>4, <1>5, <1>6 DEF AdminInv

\* One step of an administrator's request, the invalidations aside.
LEMMA AdminStepInv ==
  ASSUME NEW a \in Admins, AdminInv, AdminStep(a)
  PROVE  AdminInv'
<1> USE DEF AdminInv
<1>0. /\ apc \in [Admins -> {"idle", "send", "commit", "invalidate", "flush", "stock",
                             "clear", "publish"}]
      /\ edit \in [Admins -> SUBSET Rows]
      /\ base \in [Admins -> Versions] /\ read \in [Admins -> Versions]
      /\ version \in Versions /\ faults \in 0 .. MaxFaults
  BY DEF AdminTypeOK
<1>1. ASSUME NEW R \in SUBSET Rows, OpenForm(a, R) PROVE AdminInv'
  <2> USE <1>1 DEF OpenForm
  <2>1. AdminTypeOK'
    BY DEF AdminTypeOK
  <2>2. FormsAgree'
    BY <1>0 DEF FormsAgree
  <2>3. RowIsHeld'
    BY <1>0 DEF RowIsHeld
  <2>4. StockIsSet'
    BY <1>0 DEF StockIsSet, OnSaleHasStock
  <2> QED
    BY <2>1, <2>2, <2>3, <2>4
<1>2. CASE ReadForEdit(a)
  <2>1. CASE AdminReturns(a)
    BY <1>2, <2>1, <1>0, ReturnsInv DEF ReadForEdit
  <2>2. CASE /\ apc[a] = "send" /\ Unchanged(edit[a], base[a])
             /\ apc' = [apc EXCEPT ![a] = "commit"]
             /\ read' = [read EXCEPT ![a] = version]
             /\ UNCHANGED <<base, version, published, rowLock, stock, faults>>
             /\ \E W \in SUBSET edit[a] : edit' = [edit EXCEPT ![a] = W]
    <3> PICK W \in SUBSET edit[a] : edit' = [edit EXCEPT ![a] = W]
      BY <2>2
    <3>1. AdminTypeOK'
      BY <2>2, <1>0 DEF AdminTypeOK
    <3>2. FormsAgree'
      BY <2>2, <1>0 DEF FormsAgree, Unchanged
    <3>3. RowIsHeld'
      BY <2>2, <1>0 DEF RowIsHeld
    <3>4. StockIsSet'
      BY <2>2, <1>0 DEF StockIsSet, OnSaleHasStock
    <3> QED
      BY <3>1, <3>2, <3>3, <3>4
  <2> QED
    BY <1>2, <2>1, <2>2 DEF ReadForEdit
<1>3. CASE CommitEdit(a)
  <2> USE <1>3 DEF CommitEdit, AdminGoesOn, Unchanged
  <2>1. \A x \in edit[a] : version[x] < MaxVersion
    BY <1>0 DEF FormsAgree
  <2>2. version' \in Versions
    BY <2>1, <1>0, AdminBoundsAssumption DEF Versions
  <2>3. AdminTypeOK'
    BY <2>2 DEF AdminTypeOK
  <2>4. FormsAgree'
    BY <1>0 DEF FormsAgree
  <2>5. rowLock # None => version'[Event] = version[Event]
    BY NothingIsVersions
  <2>6. RowIsHeld'
    BY <1>0, <2>5, EventRowAssumption DEF RowIsHeld
  <2>7. StockIsSet'
    BY <1>0 DEF StockIsSet, OnSaleHasStock
  <2> QED
    BY <2>3, <2>4, <2>6, <2>7
<1>4. CASE EditConflicts(a)
  BY <1>4, <1>0, ReturnsInv DEF EditConflicts
<1>5. CASE PublishReads(a)
  <2> USE <1>5 DEF PublishReads, AdminGoesOn
  <2>1. AdminTypeOK'
    BY DEF AdminTypeOK
  <2>2. FormsAgree'
    BY <1>0 DEF FormsAgree
  <2>3. RowIsHeld'
    BY <1>0 DEF RowIsHeld
  <2>4. StockIsSet'
    BY <1>0 DEF StockIsSet, OnSaleHasStock
  <2> QED
    BY <2>1, <2>2, <2>3, <2>4
<1>6. CASE PublishFlushes(a)
  <2>1. CASE AdminReturns(a) /\ UNCHANGED rowLock
    BY <1>6, <2>1, <1>0, ReturnsInv DEF PublishFlushes
  <2>2. CASE /\ rowLock = None /\ rowLock' = a /\ apc[a] = "flush"
             /\ version[Event] = read[a][Event]
             /\ AdminGoesOn(a, "stock") /\ UNCHANGED <<read, version, published, stock, faults>>
    <3> USE <2>2 DEF AdminGoesOn
    <3>1. AdminTypeOK'
      BY DEF AdminTypeOK
    <3>2. FormsAgree'
      BY <1>0 DEF FormsAgree
    <3>3. RowIsHeld'
      BY <1>0, EventRowAssumption DEF RowIsHeld
    <3>4. StockIsSet'
      BY <1>0 DEF StockIsSet, OnSaleHasStock
    <3> QED
      BY <3>1, <3>2, <3>3, <3>4
  <2> QED
    BY <1>6, <2>1, <2>2 DEF PublishFlushes, Unchanged
<1>7. CASE PublishStocks(a)
  <2> USE <1>7 DEF PublishStocks, AdminGoesOn
  <2>1. AdminTypeOK'
    BY DEF AdminTypeOK
  <2>2. FormsAgree'
    BY <1>0 DEF FormsAgree
  <2>3. RowIsHeld'
    BY <1>0 DEF RowIsHeld
  <2>4. StockIsSet'
    BY <1>0 DEF StockIsSet, OnSaleHasStock
  <2> QED
    BY <2>1, <2>2, <2>3, <2>4
<1>8. CASE PublishCommits(a)
  <2> USE <1>8 DEF PublishCommits
  <2>1. rowLock = a /\ version[Event] < MaxVersion
    BY DEF RowIsHeld
  <2>2. version' \in Versions
    BY <2>1, <1>0, NothingIsVersions, AdminBoundsAssumption DEF Versions
  <2>3. AdminTypeOK'
    BY <2>2, NothingIsVersions DEF AdminTypeOK, AdminReturns
  <2>4. \A b \in Admins : b # a => apc'[b] = apc[b] /\ edit'[b] = edit[b]
                                   /\ base'[b] = base[b] /\ read'[b] = read[b]
    BY <1>0 DEF AdminReturns
  <2>5. apc'[a] = "idle"
    BY <1>0 DEF AdminReturns
  <2>6. FormsAgree'
    BY <2>4, <2>5 DEF FormsAgree
  <2>7. RowIsHeld'
    BY <2>1, <2>4, <2>5 DEF RowIsHeld
  <2>8. StockIsSet'
    BY <2>4, <2>5 DEF StockIsSet, OnSaleHasStock
  <2> QED
    BY <2>3, <2>6, <2>7, <2>8
<1>9. CASE AdminFails(a)
  <2>1. faults' \in 0 .. MaxFaults
    BY <1>9, <1>0, AdminBoundsAssumption DEF AdminFails, Fault
  <2> QED
    BY <1>9, <2>1, ReturnsInv DEF AdminFails
<1> QED
  BY <1>1, <1>2, <1>3, <1>4, <1>5, <1>6, <1>7, <1>8, <1>9 DEF AdminStep

\* The two invalidations end a request or take the publication to its commit.
LEMMA InvalidationAdminInv ==
  ASSUME NEW a \in Admins, AdminInv, InvalidateMeta(a) \/ PublishInvalidates(a)
  PROVE  AdminInv'
<1>1. CASE InvalidateMeta(a)
  <2>1. faults' \in 0 .. MaxFaults
    BY <1>1 DEF InvalidateMeta, AdminInv, AdminTypeOK
  <2> QED
    BY <1>1, <2>1, ReturnsInv DEF InvalidateMeta
<1>2. CASE PublishInvalidates(a)
  <2> USE <1>2 DEF PublishInvalidates, AdminGoesOn, AdminInv
  <2>0. apc \in [Admins -> {"idle", "send", "commit", "invalidate", "flush", "stock",
                            "clear", "publish"}]
    BY DEF AdminTypeOK
  <2>1. AdminTypeOK'
    BY DEF AdminTypeOK
  <2>2. FormsAgree'
    BY <2>0 DEF FormsAgree
  <2>3. RowIsHeld'
    BY <2>0 DEF RowIsHeld
  <2>4. StockIsSet'
    BY <2>0 DEF StockIsSet, OnSaleHasStock
  <2> QED
    BY <2>1, <2>2, <2>3, <2>4
<1> QED
  BY <1>1, <1>2

\* A step of the cache, faults included.
LEMMA AdminUnchangedInv ==
  ASSUME AdminInv, UNCHANGED admin, faults' = faults \/ Fault
  PROVE  AdminInv'
<1>1. faults' \in 0 .. MaxFaults
  BY AdminBoundsAssumption DEF AdminInv, AdminTypeOK, Fault
<1>2. AdminTypeOK'
  BY <1>1 DEF AdminInv, AdminTypeOK, admin
<1>3. FormsAgree' /\ RowIsHeld' /\ StockIsSet'
  BY DEF AdminInv, FormsAgree, RowIsHeld, StockIsSet, OnSaleHasStock, admin
<1> QED
  BY <1>2, <1>3 DEF AdminInv

-----------------------------------------------------------------------------
(* The cache.                                                              *)

\* A task that computes goes on to its next step.
LEMMA GoesInv ==
  ASSUME NEW t \in Tasks, Registered, CacheOnlyTypeOK, Running(t),
         NEW pc \in {"lock", "recheck", "poll", "event", "prices", "fill", "release"},
         Goes(t, pc), UNCHANGED inflight
  PROVE  Registered'
BY DEF Registered, CacheOnlyTypeOK, Running, Goes

\* A task that ends leaves the registration of every other one alone.
LEMMA FinishInv ==
  ASSUME NEW t \in Tasks, Registered, CacheOnlyTypeOK, Finish(t), UNCHANGED inflight
  PROVE  Registered'
BY DEF Registered, CacheOnlyTypeOK, Running, Finish

\* What Finish writes is of the right type.
LEMMA FinishTypeOK ==
  ASSUME NEW t \in Tasks, CacheOnlyTypeOK, Finish(t)
  PROVE  /\ tpc' \in [Tasks -> {"idle", "lock", "recheck", "poll", "event", "prices",
                                "fill", "release", "done"}]
         /\ got' \in [Tasks -> Versions]
         /\ rpc' \in [Readers -> {"idle", "missed", "wait"}]
         /\ flight' \in [Readers -> Tasks \cup {None}]
BY NothingIsVersions DEF CacheOnlyTypeOK, Finish

\* Readers join or start a flight, or leave it.
LEMMA ReaderStepInv ==
  ASSUME CacheInv, NEW r \in Readers,
         \/ ReadCache(r) \/ JoinFlight(r) \/ CancelReader(r)
         \/ \E t \in Tasks : StartFlight(r, t)
  PROVE  CacheInv'
<1> USE DEF CacheInv, cached, tasks
<1>0. ProcOf[r] \in Procs
  BY ProcAssumption
<1>1. CASE ReadCache(r)
  BY <1>1 DEF ReadCache, CacheOnlyTypeOK, Registered, Running, LockIsKept
<1>2. CASE JoinFlight(r)
  <2>1. inflight[ProcOf[r]] \in Tasks
    BY <1>2, <1>0 DEF JoinFlight, CanJoin, CacheOnlyTypeOK
  <2>2. CacheOnlyTypeOK'
    BY <1>2, <2>1 DEF JoinFlight, CacheOnlyTypeOK
  <2> QED
    BY <1>2, <2>2 DEF JoinFlight, Registered, Running, LockIsKept
<1>3. CASE CancelReader(r)
  BY <1>3 DEF CancelReader, CacheOnlyTypeOK, Registered, Running, LockIsKept
<1>4. ASSUME NEW t \in Tasks, StartFlight(r, t) PROVE CacheInv'
  <2> USE <1>4 DEF StartFlight
  <2>1. CacheOnlyTypeOK'
    BY <1>0 DEF CacheOnlyTypeOK
  <2>2. ASSUME NEW u \in Tasks, u # t, Running(u)' PROVE inflight'[ProcOf[u]] = u
    <3>1. Running(u)
      BY <2>2 DEF Running, CacheOnlyTypeOK
    <3>2. inflight[ProcOf[u]] = u /\ u # None
      BY <3>1, ProcAssumption DEF Registered
    <3>3. ProcOf[u] # ProcOf[r]
      BY <3>1, <3>2 DEF CanJoin
    <3> QED
      BY <3>2, <3>3
  <2>3. inflight'[ProcOf[t]] = t
    BY <1>0 DEF CacheOnlyTypeOK
  <2>4. Registered'
    BY <2>2, <2>3 DEF Registered
  <2> QED
    BY <2>1, <2>4 DEF LockIsKept
<1> QED
  BY <1>1, <1>2, <1>3, <1>4

\* A task's own steps.
LEMMA TaskStepInv ==
  ASSUME CacheInv, AdminTypeOK, NEW t \in Tasks,
         LoadStep(t) \/ TaskFails(t) \/ ReleaseFails(t)
  PROVE  CacheInv'
<1> USE DEF CacheInv
<1>0. t # None /\ t # Orphan /\ Orphan # None
  BY ProcAssumption
<1>1. CASE TryLock(t)
  <2> USE <1>1 DEF TryLock, readers
  <2>1. CacheOnlyTypeOK'
    BY DEF CacheOnlyTypeOK, Goes
  <2>2. Registered'
    BY GoesInv DEF Running
  <2>3. LockIsKept'
    BY ProcAssumption DEF LockIsKept, CacheOnlyTypeOK
  <2> QED
    BY <2>1, <2>2, <2>3
<1>2. CASE Recheck(t)
  <2> USE <1>2 DEF Recheck, readers, cached
  <2>1. CacheOnlyTypeOK'
    BY DEF CacheOnlyTypeOK, Goes
  <2>2. Registered'
    BY GoesInv DEF Running
  <2> QED
    BY <2>1, <2>2 DEF LockIsKept
<1>3. CASE PollHit(t)
  <2> USE <1>3 DEF PollHit, cached
  <2>1. CacheOnlyTypeOK'
    BY FinishTypeOK DEF CacheOnlyTypeOK
  <2> QED
    BY <2>1, FinishInv DEF LockIsKept
<1>4. CASE PollAgain(t) \/ Fallback(t)
  <2> USE <1>4 DEF PollAgain, Fallback, readers, cached
  <2>1. CacheOnlyTypeOK'
    BY DEF CacheOnlyTypeOK, Goes
  <2>2. Registered'
    BY GoesInv DEF Running
  <2> QED
    BY <2>1, <2>2 DEF LockIsKept
<1>5. CASE LoadEvent(t)
  <2> USE <1>5 DEF LoadEvent, readers, cached
  <2>1. [got[t] EXCEPT ![Event] = version[Event]] \in Versions
    BY NothingIsVersions DEF CacheOnlyTypeOK, AdminTypeOK, Versions
  <2>2. CacheOnlyTypeOK'
    BY <2>1 DEF CacheOnlyTypeOK, Goes
  <2>3. Registered'
    BY GoesInv DEF Running
  <2> QED
    BY <2>2, <2>3 DEF LockIsKept
<1>6. CASE LoadPrices(t)
  <2> USE <1>6 DEF LoadPrices, readers, cached
  <2>1. [version EXCEPT ![Event] = got[t][Event]] \in Versions
    BY NothingIsVersions DEF CacheOnlyTypeOK, AdminTypeOK, Versions
  <2>2. CacheOnlyTypeOK'
    BY <2>1 DEF CacheOnlyTypeOK, Goes
  <2>3. Registered'
    BY GoesInv DEF Running
  <2> QED
    BY <2>2, <2>3 DEF LockIsKept
<1>7. CASE Fill(t)
  <2> USE <1>7 DEF Fill, readers
  <2>1. CacheOnlyTypeOK'
    BY FinishTypeOK DEF CacheOnlyTypeOK, Goes
  <2>2. Registered'
    BY GoesInv, FinishInv DEF Running
  <2> QED
    BY <2>1, <2>2 DEF LockIsKept
<1>8. CASE ReleaseLock(t) \/ ReleaseFails(t)
  <2> USE <1>8 DEF ReleaseLock, ReleaseFails
  <2>1. CacheOnlyTypeOK'
    BY FinishTypeOK DEF CacheOnlyTypeOK
  <2>2. Registered'
    BY FinishInv
  <2>3. LockIsKept'
    BY DEF LockIsKept
  <2> QED
    BY <2>1, <2>2, <2>3
<1>9. CASE Forget(t)
  <2> USE <1>9 DEF Forget, readers, cached
  <2>1. CacheOnlyTypeOK'
    BY ProcAssumption DEF CacheOnlyTypeOK
  <2>2. ASSUME NEW u \in Tasks, Running(u)' PROVE inflight'[ProcOf[u]] = u
    <3>1. u # t /\ Running(u)
      BY <2>2 DEF Running, CacheOnlyTypeOK
    <3>2. inflight[ProcOf[u]] = u
      BY <3>1 DEF Registered
    <3> QED
      BY <3>1, <3>2, ProcAssumption DEF CacheOnlyTypeOK
  <2> QED
    BY <2>1, <2>2 DEF Registered, LockIsKept
<1>10. CASE TaskFails(t)
  <2> USE <1>10 DEF TaskFails, readers
  <2>1. CacheOnlyTypeOK'
    BY FinishTypeOK DEF CacheOnlyTypeOK, Goes
  <2>2. Registered'
    BY GoesInv, FinishInv
  <2>3. LockIsKept'
    BY ProcAssumption DEF LockIsKept, CacheOnlyTypeOK
  <2> QED
    BY <2>1, <2>2, <2>3
<1> QED
  BY <1>1, <1>2, <1>3, <1>4, <1>5, <1>6, <1>7, <1>8, <1>9, <1>10 DEF LoadStep

\* Time passes, or a process dies.
LEMMA EnvironmentInv ==
  ASSUME CacheInv,
         \/ OrphanExpires \/ LockOutlived \/ CacheExpires
         \/ \E p \in Procs : ProcessDies(p)
  PROVE  CacheInv'
<1> USE DEF CacheInv
<1>1. CASE OrphanExpires
  BY <1>1, ProcAssumption
     DEF OrphanExpires, tasks, readers, CacheOnlyTypeOK, Registered, Running, LockIsKept
<1>2. CASE LockOutlived
  BY <1>2 DEF LockOutlived, readers, CacheOnlyTypeOK, Registered, Running, LockIsKept
<1>3. CASE CacheExpires
  BY <1>3, NothingIsVersions
     DEF CacheExpires, tasks, readers, CacheOnlyTypeOK, Registered, Running, LockIsKept
<1>4. ASSUME NEW p \in Procs, ProcessDies(p) PROVE CacheInv'
  <2> USE <1>4 DEF ProcessDies
  <2>1. CacheOnlyTypeOK'
    BY NothingIsVersions DEF CacheOnlyTypeOK
  <2>2. Registered'
    BY DEF Registered, Running, CacheOnlyTypeOK
  <2>3. LockIsKept'
    BY DEF LockIsKept, CacheOnlyTypeOK
  <2> QED
    BY <2>1, <2>2, <2>3
<1> QED
  BY <1>1, <1>2, <1>3, <1>4

\* Whatever leaves tasks, readers and the lock alone keeps the invariant.
LEMMA CacheUnchangedInv ==
  ASSUME CacheInv, UNCHANGED <<lock, inflight, tasks, readers>>,
         cache' = cache \/ cache' = Nothing
  PROVE  CacheInv'
BY NothingIsVersions
   DEF CacheInv, CacheOnlyTypeOK, Registered, Running, LockIsKept, tasks, readers

-----------------------------------------------------------------------------
\* Every step keeps both invariants.
LEMMA NextInv == Inv /\ [Next]_vars => Inv'
<1> SUFFICES ASSUME Inv, [Next]_vars PROVE Inv'
  OBVIOUS
<1> USE DEF Inv
<1>1. ASSUME NEW r \in Readers,
             \/ ReadCache(r) \/ JoinFlight(r) \/ CancelReader(r)
             \/ \E t \in Tasks : StartFlight(r, t)
      PROVE  Inv'
  <2>1. UNCHANGED <<admin, faults>>
    BY <1>1 DEF ReadCache, JoinFlight, CancelReader, StartFlight
  <2> QED
    BY <1>1, <2>1, ReaderStepInv, AdminUnchangedInv
<1>2. ASSUME NEW t \in Tasks, LoadStep(t) \/ TaskFails(t) \/ ReleaseFails(t)
      PROVE  Inv'
  <2>1. UNCHANGED admin /\ (faults' = faults \/ Fault)
    BY <1>2 DEF LoadStep, TryLock, Recheck, PollHit, PollAgain, Fallback, LoadEvent,
                LoadPrices, Fill, ReleaseLock, Forget, TaskFails, ReleaseFails
  <2> QED
    BY <1>2, <2>1, TaskStepInv, AdminUnchangedInv DEF AdminInv
<1>3. CASE OrphanExpires \/ LockOutlived \/ CacheExpires \/ \E p \in Procs : ProcessDies(p)
  <2>1. UNCHANGED admin /\ (faults' = faults \/ Fault)
    BY <1>3 DEF OrphanExpires, LockOutlived, CacheExpires, ProcessDies
  <2> QED
    BY <1>3, <2>1, EnvironmentInv, AdminUnchangedInv
<1>4. ASSUME NEW a \in Admins, AdminStep(a), UNCHANGED <<cached, inflight, tasks, readers>>
      PROVE  Inv'
  BY <1>4, AdminStepInv, CacheUnchangedInv DEF cached
<1>5. ASSUME NEW a \in Admins, InvalidateMeta(a) \/ PublishInvalidates(a) PROVE Inv'
  <2>1. cache' = Nothing /\ UNCHANGED <<lock, inflight, tasks, readers>>
    BY <1>5 DEF InvalidateMeta, PublishInvalidates
  <2> QED
    BY <1>5, <2>1, InvalidationAdminInv, CacheUnchangedInv
<1>6. CASE UNCHANGED vars
  <2>1. UNCHANGED <<admin, faults, cached, inflight, tasks, readers>>
    BY <1>6 DEF vars
  <2> QED
    BY <2>1, AdminUnchangedInv, CacheUnchangedInv DEF cached
<1> QED
  BY <1>1, <1>2, <1>3, <1>4, <1>5, <1>6 DEF Next

\* The invariant holds in every behaviour.
LEMMA SpecInv == Spec => []Inv
BY InitInv, NextInv, PTL DEF Spec

-----------------------------------------------------------------------------
\* Every variable keeps its type; in particular no interleaving of edits and
\* publications takes a row past the version that some form or draft showed.
THEOREM EventCacheTypeOK == Spec => []CacheTypeOK
<1>1. Inv => CacheTypeOK
  BY DEF Inv, AdminInv, CacheInv, CacheOnlyTypeOK, CacheTypeOK
<1> QED
  BY <1>1, SpecInv, PTL

\* SingleFlight computes one meta at a time in a process, for any number of
\* requests, although a finished task stays registered until its callback.
THEOREM FlightsAreSingle == Spec => []OneFlightPerProcess
<1>1. Inv => OneFlightPerProcess
  BY DEF Inv, CacheInv, Registered, OneFlightPerProcess
<1> QED
  BY <1>1, SpecInv, PTL

\* _release_lock never takes the lock from a task that has not outlived it.
THEOREM LockIsFenced == Spec => []LockIsKept
<1>1. Inv => LockIsKept
  BY DEF Inv, CacheInv
<1> QED
  BY <1>1, SpecInv, PTL

\* publish_event initialises the stock before anybody can read PUBLISHED.
THEOREM PublishedIsStocked == Spec => []OnSaleHasStock
<1>1. Inv => OnSaleHasStock
  BY DEF Inv, AdminInv, StockIsSet
<1> QED
  BY <1>1, SpecInv, PTL

\* Together: one computation per process, one lock holder, no sale without stock.
THEOREM CacheStaysSound == Spec => []CacheIsSound
  BY EventCacheTypeOK, FlightsAreSingle, LockIsFenced, PublishedIsStocked, PTL DEF CacheIsSound

\* An edit overwrites only what its form showed.
THEOREM EditsAreNotLost == Spec => NoLostUpdate
<1> DEFINE Step == \A a \in Admins : apc[a] = "commit" /\ apc'[a] = "invalidate" =>
                     \A x \in edit[a] : version[x] = base[a][x]
<1>1. ASSUME Inv, [Next]_vars PROVE Step \/ UNCHANGED vars
  <2> SUFFICES ASSUME NEW a \in Admins, apc[a] = "commit", apc'[a] = "invalidate"
               PROVE  \A x \in edit[a] : version[x] = base[a][x]
    OBVIOUS
  <2>0. apc \in [Admins -> {"idle", "send", "commit", "invalidate", "flush", "stock",
                            "clear", "publish"}]
    BY <1>1 DEF Inv, AdminInv, AdminTypeOK
  <2>1. CASE UNCHANGED apc
    BY <2>1
  <2>2. ASSUME NEW b \in Admins, AdminStep(b) \/ InvalidateMeta(b) \/ PublishInvalidates(b)
        PROVE  b = a /\ CommitEdit(a)
    BY <2>2, <2>0
       DEF AdminStep, ReadForEdit, CommitEdit, EditConflicts, PublishReads, PublishFlushes,
           PublishStocks, PublishCommits, AdminFails, OpenForm, InvalidateMeta,
           PublishInvalidates, AdminReturns, AdminGoesOn
  <2>3. UNCHANGED apc \/ CommitEdit(a)
    <3>1. CASE Next
      <4>1. ASSUME NEW r \in Readers,
                   \/ ReadCache(r) \/ JoinFlight(r) \/ CancelReader(r)
                   \/ \E t \in Tasks : StartFlight(r, t)
            PROVE  UNCHANGED apc
        BY <4>1 DEF ReadCache, JoinFlight, CancelReader, StartFlight, admin
      <4>2. ASSUME NEW t \in Tasks, LoadStep(t) \/ TaskFails(t) \/ ReleaseFails(t)
            PROVE  UNCHANGED apc
        BY <4>2 DEF LoadStep, TryLock, Recheck, PollHit, PollAgain, Fallback, LoadEvent,
                    LoadPrices, Fill, ReleaseLock, Forget, TaskFails, ReleaseFails, admin
      <4>3. ASSUME OrphanExpires \/ LockOutlived \/ CacheExpires
                     \/ \E p \in Procs : ProcessDies(p)
            PROVE  UNCHANGED apc
        BY <4>3 DEF OrphanExpires, LockOutlived, CacheExpires, ProcessDies, admin
      <4> QED
        BY <3>1, <2>2, <4>1, <4>2, <4>3 DEF Next
    <3>2. CASE UNCHANGED vars
      BY <3>2 DEF vars, admin
    <3> QED
      BY <1>1, <3>1, <3>2
  <2>4. CASE CommitEdit(a)
    BY <1>1, <2>4 DEF CommitEdit, Unchanged, Inv, AdminInv, FormsAgree
  <2> QED
    BY <2>1, <2>3, <2>4
<1> QED
  BY <1>1, SpecInv, PTL DEF Spec, NoLostUpdate

=============================================================================

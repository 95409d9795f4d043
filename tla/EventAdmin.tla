----------------------------- MODULE EventAdmin -----------------------------
(***************************************************************************)
(* The administration of one event: edits of the event row or of zone      *)
(* prices under an optimistic lock, and its publication.                   *)
(*                                                                         *)
(* An edit carries the versions that the administrator's form showed.      *)
(* They are compared when the request has read the rows (require_version), *)
(* and the UPDATE compares once more with what the request has read        *)
(* (version_id_col).  What an edit changes is left out: a version stands   *)
(* for the content of its row.                                             *)
(***************************************************************************)
EXTENDS Naturals, FiniteSets

CONSTANTS
  Admins,      \* concurrent requests of administrators
  Zones,       \* zones with a price for this event
  Event,       \* the row of the event itself
  None,        \* nobody
  MaxVersion,  \* bound on the versions of a row
  MaxFaults    \* bound on crashes and failed calls in a behaviour

ASSUME EventRowAssumption == Event \notin Zones /\ None \notin Admins
ASSUME AdminBoundsAssumption == MaxVersion \in Nat \ {0} /\ MaxFaults \in Nat

Rows == Zones \cup {Event}
Versions == [Rows -> 0 .. MaxVersion]
Nothing == [x \in Rows |-> 0]   \* no content, rows start with version 1

VARIABLES
  version,     \* committed version of each row
  published,   \* the committed status of the event is PUBLISHED
  rowLock,     \* request with an uncommitted UPDATE of the event row
  stock,       \* event:{id}:available exists
  apc,         \* request: next step
  edit,        \* request: the rows it changes
  base,        \* request: versions that the form showed
  read,        \* request: versions that it has read itself
  faults

admin == <<version, published, rowLock, stock, apc, edit, base, read>>

AdminInit ==
  /\ version = [x \in Rows |-> 1] /\ published = FALSE /\ rowLock = None
  /\ stock = FALSE
  /\ apc = [a \in Admins |-> "idle"] /\ edit = [a \in Admins |-> {}]
  /\ base = [a \in Admins |-> Nothing] /\ read = [a \in Admins |-> Nothing]
  /\ faults = 0

Fault == faults < MaxFaults /\ faults' = faults + 1

\* The request is over.
AdminReturns(a) ==
  /\ apc' = [apc EXCEPT ![a] = "idle"]
  /\ edit' = [edit EXCEPT ![a] = {}]
  /\ base' = [base EXCEPT ![a] = Nothing]
  /\ read' = [read EXCEPT ![a] = Nothing]

AdminGoesOn(a, pc) ==
  /\ apc' = [apc EXCEPT ![a] = pc]
  /\ UNCHANGED <<edit, base>>

-----------------------------------------------------------------------------
(* update_event_endpoint, update_zone_prices_endpoint                      *)

\* The administrator loads the form: the event, or a batch of zone prices.
OpenForm(a, R) ==
  /\ apc[a] = "idle"
  /\ R = {Event} \/ (R # {} /\ R \subseteq Zones)
  /\ \A x \in R : version[x] < MaxVersion
  /\ apc' = [apc EXCEPT ![a] = "send"]
  /\ edit' = [edit EXCEPT ![a] = R]
  /\ base' = [base EXCEPT ![a] = version]
  /\ UNCHANGED <<version, published, rowLock, stock, read, faults>>

Unchanged(R, v) == \A x \in R : version[x] = v[x]

\* Variant: the versions of the form are not compared.
ReadUnchecked(a) ==
  /\ apc[a] = "send"
  /\ read' = [read EXCEPT ![a] = version] /\ AdminGoesOn(a, "commit")
  /\ UNCHANGED <<version, published, rowLock, stock, faults>>

\* get_event and require_version of every row, before any of them is changed;
\* of a batch only the rows W with a new price are written.  The request ends
\* here when a version is stale, a rule refuses it, or nothing would change.
ReadForEdit(a) ==
  /\ apc[a] = "send"
  /\ \/ /\ Unchanged(edit[a], base[a])
        /\ \E W \in SUBSET edit[a] : W # {} /\ edit' = [edit EXCEPT ![a] = W]
        /\ apc' = [apc EXCEPT ![a] = "commit"]
        /\ read' = [read EXCEPT ![a] = version] /\ UNCHANGED base
     \/ AdminReturns(a)
  /\ UNCHANGED <<version, published, rowLock, stock, faults>>

\* One transaction.  The UPDATE waits for a publication that holds the row.
CommitEdit(a) ==
  /\ apc[a] = "commit" /\ (Event \in edit[a] => rowLock = None)
  /\ Unchanged(edit[a], read[a])
  /\ version' = [x \in Rows |-> IF x \in edit[a] THEN version[x] + 1 ELSE version[x]]
  /\ AdminGoesOn(a, "invalidate")
  /\ UNCHANGED <<published, rowLock, stock, read, faults>>

\* StaleDataError: nothing of the batch is written.
EditConflicts(a) ==
  /\ apc[a] = "commit" /\ (Event \in edit[a] => rowLock = None)
  /\ ~Unchanged(edit[a], read[a])
  /\ AdminReturns(a)
  /\ UNCHANGED <<version, published, rowLock, stock, faults>>

-----------------------------------------------------------------------------
(* publish_event_endpoint                                                  *)

\* Only a draft is published.
PublishReads(a) ==
  /\ apc[a] = "idle" /\ ~published /\ version[Event] < MaxVersion
  /\ read' = [read EXCEPT ![a] = version] /\ AdminGoesOn(a, "flush")
  /\ UNCHANGED <<version, published, rowLock, stock, faults>>

\* The flush writes the status and keeps the row locked.
PublishFlushes(a) ==
  /\ apc[a] = "flush" /\ rowLock = None
  /\ \/ /\ Unchanged({Event}, read[a])
        /\ rowLock' = a /\ AdminGoesOn(a, "stock") /\ UNCHANGED read
     \/ ~Unchanged({Event}, read[a]) /\ AdminReturns(a) /\ UNCHANGED rowLock
  /\ UNCHANGED <<version, published, stock, faults>>

\* Variant: a failure to initialise the stock is swallowed.
PublishMayStock(a) ==
  /\ apc[a] = "stock"
  /\ stock' \in {stock, TRUE} /\ AdminGoesOn(a, "clear")
  /\ UNCHANGED <<version, published, rowLock, read, faults>>

\* set_initial_stock (NX), the seat runs and the salt of the waiting room.
PublishStocks(a) ==
  /\ apc[a] = "stock"
  /\ stock' = TRUE /\ AdminGoesOn(a, "clear")
  /\ UNCHANGED <<version, published, rowLock, read, faults>>

PublishCommits(a) ==
  /\ apc[a] = "publish"
  /\ version' = [version EXCEPT ![Event] = @ + 1]
  /\ published' = TRUE /\ rowLock' = None
  /\ AdminReturns(a)
  /\ UNCHANGED <<stock, faults>>

\* The request dies or a call fails; an open transaction is rolled back.
AdminFails(a) ==
  /\ apc[a] # "idle" /\ Fault
  /\ rowLock' = IF rowLock = a THEN None ELSE rowLock
  /\ AdminReturns(a)
  /\ UNCHANGED <<version, published, stock>>

\* Everything but the two invalidations, which belong to the cache.
AdminStep(a) ==
  \/ ReadForEdit(a) \/ CommitEdit(a) \/ EditConflicts(a)
  \/ PublishReads(a) \/ PublishFlushes(a) \/ PublishStocks(a) \/ PublishCommits(a)
  \/ AdminFails(a)
  \/ \E R \in SUBSET Rows : OpenForm(a, R)

-----------------------------------------------------------------------------
AdminTypeOK ==
  /\ version \in Versions /\ published \in BOOLEAN /\ stock \in BOOLEAN
  /\ rowLock \in Admins \cup {None}
  /\ apc \in [Admins -> {"idle", "send", "commit", "invalidate", "flush", "stock",
                         "clear", "publish"}]
  /\ edit \in [Admins -> SUBSET Rows]
  /\ base \in [Admins -> Versions] /\ read \in [Admins -> Versions]
  /\ faults \in 0 .. MaxFaults

=============================================================================

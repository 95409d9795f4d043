----------------------------- MODULE BuyerInfo ------------------------------
(***************************************************************************)
(* Encrypted buyer data and the rotation of the key that wraps it, from    *)
(* KEK version 1 to version 2: three settings, a rolling deployment, the   *)
(* worker's rewrap_pii_keks, and the operator who takes the old key away   *)
(* (infra/RUNBOOK.md, scenario E).                                         *)
(***************************************************************************)
EXTENDS ApiRequests

CONSTANTS
  Worker,         \* the task that runs rewrap_pii_keks
  NationalIds,
  Batch           \* PII_REWRAP_BATCH

ASSUME VaultAssumption == Worker \notin Procs /\ Batch \in Nat \ {0}

VARIABLES
  info,           \* buyer_info: the id, the version on the row, the key that wrapped it
  ring,           \* the settings a task runs with: old, or new
  retired,        \* the new settings still hold version 1
  round           \* rewrap_pii_keks: running, and the versions it found unknown

vault == <<info, ring, retired, round>>

Tasks == Procs \cup {Worker}
NoInfo == [nid |-> "none"]
Rest == [on |-> FALSE, unknown |-> {}]

Registered == {u \in Users : info[u] # NoInfo}
Active(p) == IF ring[p] = "old" THEN 1 ELSE 2
Keyring(p) == IF ring[p] = "old" THEN {1} ELSE IF retired THEN {1, 2} ELSE {2}
RowsAt(v) == {u \in Registered : info[u].kek = v}

\* Decryption finds the row's key in the task's keyring, and it is the right one.
Readable(p, u) == info[u].kek \in Keyring(p) /\ info[u].kek = info[u].wrapped

\* Rows that an erasure has deleted and not yet committed.
Shredded == {u \in Registered : \E q \in Procs : /\ req[q].step \in {"shredded", "marked"}
                                                /\ req[q].user = u /\ req[q].row}

-----------------------------------------------------------------------------
\* encrypt_pii in task p.
Envelope(p, n) == [nid |-> n, kek |-> Active(p), wrapped |-> Active(p)]

\* INSERT, against the primary key and the unique index on the id; a conflict is
\* rolled back and answered with 409, a row that is being deleted is waited for.
InsertInfo(p, u, n) ==
  LET conflicts == {w \in Registered : w = u \/ info[w].nid = n}
  IN /\ conflicts \cap Shredded = {}
     /\ info' = IF conflicts # {} THEN info ELSE [info EXCEPT ![u] = Envelope(p, n)]

DeleteInfo(u) == info' = [info EXCEPT ![u] = NoInfo]

-----------------------------------------------------------------------------
\* A round of the cron, and the rows its SELECT may return: LIMIT without order.
RewrapStarts ==
  /\ ~round.on /\ round' = [on |-> TRUE, unknown |-> {}]
  /\ UNCHANGED <<info, ring, retired>>

\* Variant: the rows on the active version are selected.
WantedActive == {u \in Registered \ Shredded : info[u].kek = Active(Worker)}

\* Locked rows are skipped.
Wanted == {u \in Registered \ Shredded : info[u].kek \notin {Active(Worker)} \cup round.unknown}
Batches == {S \in SUBSET Wanted :
              Cardinality(S) = Batch \/ (S = Wanted /\ Cardinality(S) < Batch)}

\* Variant: the wrapped key is replaced and the version on the row is forgotten.
RewrapKeepsVersion(S) ==
  LET known == {u \in S : info[u].kek \in Keyring(Worker)}
  IN /\ info' = [u \in Users |-> IF u \in known
                                  THEN [info[u] EXCEPT !.wrapped = Active(Worker)] ELSE info[u]]
     /\ round' = IF known = {} THEN Rest
                 ELSE [round EXCEPT !.unknown = @ \cup {info[u].kek : u \in S \ known}]

\* One batch in its own transaction; one that changes nothing ends the round.
Rewrap(S) ==
  LET known == {u \in S : info[u].kek \in Keyring(Worker)}
      v == Active(Worker)
  IN /\ info' = [u \in Users |-> IF u \in known
                                  THEN [info[u] EXCEPT !.kek = v, !.wrapped = v] ELSE info[u]]
     /\ round' = IF known = {} THEN Rest
                 ELSE [round EXCEPT !.unknown = @ \cup {info[u].kek : u \in S \ known}]

RewrapBatch ==
  /\ round.on
  /\ \E S \in Batches : Rewrap(S)
  /\ UNCHANGED <<ring, retired>>

-----------------------------------------------------------------------------
\* A task is replaced by one with the new settings.
Upgrade(p) ==
  /\ ring[p] = "old" /\ ring' = [ring EXCEPT ![p] = "new"]
  /\ UNCHANGED <<info, retired, round>>

\* Only when SELECT kek_version, count(*) shows the active version alone.
DropRetiredKey ==
  /\ retired /\ \A p \in Tasks : ring[p] = "new"
  /\ RowsAt(1) = {}
  /\ retired' = FALSE /\ UNCHANGED <<info, ring, round>>

-----------------------------------------------------------------------------
\* No row is ever locked away: each one can be read by every task that runs with
\* the new settings, whatever order registrations, rewraps, the deployment and
\* the removal of the old key come in.  Only a task with the old settings may
\* fail, on a row that already has the new version.
RowsOpen ==
  \A u \in Registered, p \in Tasks :
    Readable(p, u) \/ (ring[p] = "old" /\ info[u].kek = 2 /\ info[u].wrapped = 2)

\* The rotation ends: once every task has the new settings, rows on the old
\* version run out.
RotationEnds == (\A p \in Tasks : ring[p] = "new") ~> (RowsAt(1) = {})

=============================================================================

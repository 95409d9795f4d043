------------------------------ MODULE Sessions ------------------------------
(***************************************************************************)
(* Refresh tokens: rotation, reuse detection, logout, the nightly purge.   *)
(*                                                                         *)
(* Postgres runs READ COMMITTED.  get_refresh_token_for_update waits for   *)
(* the row and reads it anew; a bulk UPDATE or DELETE works on the rows it *)
(* saw when it started, locks one after the other in an order of its own,  *)
(* waits for the locked ones, and misses a row that another transaction    *)
(* inserts meanwhile.  parent_id is a foreign key to the same table,       *)
(* checked when a statement ends.                                          *)
(*                                                                         *)
(* Time is abstract: GraceEnds, FamilyExpires and RevocationAges stand for *)
(* the 10 seconds, the absolute lifetime and the 30 days.  The sliding     *)
(* lifetime only refuses a token earlier, as a client does that never      *)
(* presents it.                                                            *)
(***************************************************************************)
EXTENDS ApiRequests, Functions

VARIABLES
  tok,            \* refresh_tokens, in the order of their ids
  raced,          \* history: families with a child committed during a revocation
  doomed,         \* history: tokens that a revocation has set out to revoke
  spared          \* history: tokens that a revocation wanted which Postgres ended,
                  \* while no other one was after them

history == <<raced, doomed, spared>>
sessions == <<tok, history>>

\* The ids that two rows at the start and one per request can use.
TokenIds == 1 .. MaxRequests + 2
NoToken == [user |-> "none"]
Deleted == [user |-> "deleted"]
Rows == {t \in TokenIds : tok[t] \notin {NoToken, Deleted}}
Fresh(u, f, parent) ==
  [user |-> u, fam |-> f, parent |-> parent, used |-> "no", revoked |-> "no", dead |-> FALSE]
Family(f) == {t \in Rows : tok[t].fam = f}
Unrevoked(S) == {t \in S : tok[t].revoked = "no"}

\* Bulk statements, and the transaction of an erasure behind its DELETE.
Statements == {"revoke", "delete", "purge"}
Erasing == {"held", "shredded", "marked"}

\* Row locks: FOR UPDATE on the token of the request, the rows that a statement
\* has reached so far, and the ones that an erasure has deleted.
Holds(p) ==
  CASE req[p].step = "rotate" -> {req[p].tok}
    [] req[p].step \in Statements -> req[p].got
    [] req[p].step \in Erasing -> req[p].snap
    [] OTHER -> {}
FreeFor(p, S) == \A q \in Procs \ {p} : Holds(q) \cap S = {}

\* The id a new row gets.
NextId == CHOOSE t \in TokenIds : tok[t] = NoToken /\ \A s \in 1 .. t - 1 : tok[s] # NoToken

\* A transaction with the rows own locked starts UPDATE ... SET revoked_at on S.
StartsRevoking(p, own, S) ==
  /\ Starts(p, [step |-> "revoke", got |-> own, snap |-> Unrevoked(S)])
  /\ doomed' = doomed \cup Unrevoked(S)
  /\ UNCHANGED <<tok, raced, spared>>

\* The statement of p reaches the next row.
LocksRow(p, t) ==
  /\ req[p].step \in Statements
  /\ t \in (Rows \cap req[p].snap) \ req[p].got /\ FreeFor(p, {t})
  /\ Goes(p, [req[p] EXCEPT !.got = @ \cup {t}])
  /\ UNCHANGED sessions

-----------------------------------------------------------------------------
\* Variant: the row is read without FOR UPDATE, past another rotation of it.
RefreshUnlocked(p, t) ==
  /\ t \in Rows
  /\ \/ FreeFor(p, {t})
     \/ \E q \in Procs : req[q].step = "rotate" /\ req[q].tok = t
  /\ tok[t].revoked = "no" /\ ~tok[t].dead
  /\ IF tok[t].used = "stale"
       THEN StartsRevoking(p, {t}, Family(tok[t].fam))
       ELSE /\ Starts(p, [step |-> "rotate", tok |-> t, unused |-> tok[t].used = "no"])
            /\ UNCHANGED sessions

(***************************************************************************)
(* POST /auth/refresh: lock, check, and go on to rotate or, for a token    *)
(* that was used longer than the grace ago, to revoke the family.  A       *)
(* request that is refused changes nothing.                                *)
(***************************************************************************)
Refresh(p, t) ==
  /\ t \in Rows /\ FreeFor(p, {t})
  /\ tok[t].revoked = "no" /\ ~tok[t].dead
  /\ IF tok[t].used = "stale"
       THEN StartsRevoking(p, {t}, Family(tok[t].fam))
       ELSE /\ Starts(p, [step |-> "rotate", tok |-> t, unused |-> tok[t].used = "no"])
            /\ UNCHANGED sessions

\* mark_token_used, issue_refresh_token, commit.
Rotate(p) ==
  /\ req[p].step = "rotate"
  /\ LET t == req[p].tok
         f == tok[t].fam
         revoked == \E q \in Procs : req[q].step = "revoke" /\ req[q].snap \cap Family(f) # {}
     IN /\ tok' = [tok EXCEPT ![t].used = IF req[p].unused THEN "fresh" ELSE @,
                              ![NextId] = Fresh(tok[t].user, f, t)]
        /\ raced' = IF revoked THEN raced \cup {f} ELSE raced
  /\ Ends(p) /\ UNCHANGED <<doomed, spared>>

\* POST /auth/logout revokes the family of whatever token it is given.
Logout(p, t) ==
  /\ t \in Rows /\ FreeFor(p, {t})
  /\ StartsRevoking(p, {t}, Family(tok[t].fam))

\* Variant: rows that are locked are skipped.
RevokeSkipsLocked(p) ==
  /\ req[p].step = "revoke"
  /\ tok' = [t \in TokenIds |->
               IF t \in Rows \cap req[p].snap /\ FreeFor(p, {t}) /\ tok[t].revoked = "no"
                 THEN [tok[t] EXCEPT !.revoked = "yes"] ELSE tok[t]]
  /\ Ends(p) /\ UNCHANGED history

\* revoke_family, revoke_all_for_user: the statement ends, and the transaction.
Revoke(p) ==
  /\ req[p].step = "revoke" /\ FreeFor(p, req[p].snap)
  /\ tok' = [t \in TokenIds |->
               IF t \in Rows \cap req[p].snap /\ tok[t].revoked = "no"
                 THEN [tok[t] EXCEPT !.revoked = "yes"] ELSE tok[t]]
  /\ Ends(p) /\ UNCHANGED history

\* Variant: a revocation gives up when a row is locked.
GivesUp(p) ==
  /\ req[p].step = "revoke" /\ ~FreeFor(p, req[p].snap)
  /\ Ends(p) /\ UNCHANGED sessions

\* The statement of p may wait for a row that q has locked.
Waits(p, q) ==
  p # q /\ req[p].step \in Statements /\ Holds(q) \cap (req[p].snap \ req[p].got) # {}

\* Each member of C waits for another one, in a circle.
Deadlocked(C) == \E next \in Bijection(C, C) : \A q \in C : Waits(q, next[q])

\* What other revocations are after.
WantedByOthers(p) == UNION {req[q].snap : q \in {q \in Procs \ {p} : req[q].step = "revoke"}}

\* Postgres ends one of the transactions that wait for each other, and rolls it
\* back: a revocation, an erasure or the purge.
DeadlockVictim(p) ==
  /\ req[p].step \in Statements /\ \E C \in SUBSET Procs : p \in C /\ Deadlocked(C)
  /\ spared' = IF req[p].step = "revoke" THEN spared \cup (req[p].snap \ WantedByOthers(p))
               ELSE spared
  /\ Ends(p) /\ UNCHANGED <<tok, raced, doomed>>

\* purge_expired_refresh_tokens: the rows DELETE sees when it starts.
Purgeable == {t \in Rows : tok[t].dead \/ tok[t].revoked = "old"}
Purge(p) ==
  /\ Purgeable # {}
  /\ Starts(p, [step |-> "purge", got |-> {}, snap |-> Purgeable])
  /\ UNCHANGED sessions

\* The foreign key allows that the rows S go.
NoOrphans(S) == \A t \in Rows \ S : tok[t].parent \notin S
Without(S) == [t \in TokenIds |-> IF t \in S THEN Deleted ELSE tok[t]]

PurgeEnds(p) ==
  /\ req[p].step = "purge" /\ FreeFor(p, req[p].snap)
  /\ tok' = IF NoOrphans(req[p].snap) THEN Without(req[p].snap) ELSE tok
  /\ Ends(p) /\ UNCHANGED history

-----------------------------------------------------------------------------
(***************************************************************************)
(* Time.                                                                   *)
(***************************************************************************)
GraceEnds(t) ==
  /\ t \in Rows /\ tok[t].used = "fresh"
  /\ tok' = [tok EXCEPT ![t].used = "stale"] /\ UNCHANGED history

FamilyExpires(f) ==
  /\ \E t \in Family(f) : ~tok[t].dead
  /\ tok' = [t \in TokenIds |-> IF t \in Family(f) THEN [tok[t] EXCEPT !.dead = TRUE] ELSE tok[t]]
  /\ UNCHANGED history

RevocationAges(f) ==
  /\ \E t \in Family(f) : tok[t].revoked = "yes"
  /\ tok' = [t \in TokenIds |-> IF t \in Family(f) /\ tok[t].revoked = "yes"
                                  THEN [tok[t] EXCEPT !.revoked = "old"] ELSE tok[t]]
  /\ UNCHANGED history

-----------------------------------------------------------------------------
\* A revoked family has no token left that can be used, unless a rotation was
\* committed between the start and the end of the UPDATE: its child is not among
\* the rows the UPDATE saw, and lives on.
SurvivorNeedsRace ==
  \A t \in Rows : tok[t].revoked = "no" /\ (\E s \in Family(tok[t].fam) : tok[s].revoked # "no")
                    => tok[t].fam \in raced

\* A grace period runs once: two requests with the same token never start it
\* twice, so a token that is stale for reuse detection stays so.
GraceRunsOnce ==
  [][\A t \in Rows : tok[t].used = "stale"
        => tok'[t] = Deleted \/ tok'[t].used = "stale"]_tok

\* A revocation lands, also when two of them want each other's rows and Postgres
\* ends one: when none is under way, every token that one of them has seen is
\* revoked or gone, unless a rotation was committed in between, or Postgres ended
\* the revocation and no other one was after the token.
RevocationLands ==
  (\A p \in Procs : req[p].step # "revoke")
    => \A t \in doomed \cap Rows :
         tok[t].revoked # "no" \/ tok[t].fam \in raced \/ t \in spared

\* Logging out everywhere and the alarm on a reused token end the sessions they are
\* about.
RevocationIsSound == SurvivorNeedsRace /\ RevocationLands

=============================================================================

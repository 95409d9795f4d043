------------------------------ MODULE Accounts ------------------------------
(***************************************************************************)
(* Accounts: login with its lock, refresh tokens, buyer data and its keys, *)
(* and the erasure of a user, which reaches into all of them.              *)
(*                                                                         *)
(* The system starts in the middle of its life: user Owner has a session   *)
(* whose first token was used and rotated long ago, user Buyer has a row   *)
(* of buyer data, and a rotation of the KEK is about to be deployed.       *)
(***************************************************************************)
EXTENDS LoginGuard, Sessions, BuyerInfo

CONSTANTS
  Owner, Buyer, FirstId,
  Visitors        \* users that call the API; an admin may erase the others too

ASSUME AccountsAssumption ==
  {Owner, Buyer} \subseteq Users /\ Visitors \subseteq Users /\ FirstId \in NationalIds

VARIABLE late     \* history: users whose erasure met a login or a registration

vars == <<user, requests, guard, sessions, vault, late>>

Init ==
  /\ RequestsInit /\ GuardInit
  /\ tok = [t \in TokenIds |->
              CASE t = 1 -> [Fresh(Owner, 1, 0) EXCEPT !.used = "stale"]
                [] t = 2 -> Fresh(Owner, 1, 1)
                [] OTHER -> NoToken]
  /\ raced = {} /\ doomed = {} /\ spared = {}
  /\ info = [u \in Users |-> IF u = Buyer THEN [nid |-> FirstId, kek |-> 1, wrapped |-> 1]
                             ELSE NoInfo]
  /\ ring = [p \in Tasks |-> "old"] /\ retired = TRUE /\ round = Rest
  /\ late = {}

-----------------------------------------------------------------------------
\* A new row references its user, and waits while an erasure has changed him.
Unmarked(u) == \A q \in Procs : ~(req[q].step = "marked" /\ req[q].user = u)

(***************************************************************************)
(* POST /auth/token.                                                       *)
(***************************************************************************)
\* The lock is looked at; a locked account ends the request.
LoginPeeks(p, u) ==
  /\ Passes(u)
  /\ Starts(p, [step |-> "verify", user |-> u])
  /\ UNCHANGED <<user, guard, sessions, vault, late>>

\* The user is read and the password hashed, right or wrong.
LoginVerifies(p) ==
  /\ req[p].step = "verify"
  /\ LET u == req[p].user
     IN \/ /\ user[u] = "active" /\ Goes(p, [step |-> "passed", user |-> u])
           /\ UNCHANGED guard
        \/ Guess(u) /\ Goes(p, [step |-> "failed", user |-> u])
  /\ UNCHANGED <<user, sessions, vault, late>>

LoginFails(p) ==
  /\ req[p].step = "failed" /\ Hit(req[p].user) /\ Ends(p)
  /\ UNCHANGED <<user, sessions, vault, late>>

\* The counter is cleared, then the token is committed.
LoginClears(p) ==
  /\ req[p].step = "passed" /\ Clear(req[p].user)
  /\ Goes(p, [step |-> "issue", user |-> req[p].user])
  /\ UNCHANGED <<user, sessions, vault, late>>

LoginIssues(p) ==
  /\ req[p].step = "issue" /\ Unmarked(req[p].user)
  /\ tok' = [tok EXCEPT ![NextId] = Fresh(req[p].user, NextId, 0)]
  /\ Ends(p) /\ UNCHANGED <<user, guard, history, vault, late>>

-----------------------------------------------------------------------------
(***************************************************************************)
(* Calls of a user that is logged in: get_current_active_user looks at     *)
(* is_active once, when the request starts.                                *)
(***************************************************************************)
LogoutAll(p, u) ==
  LET own == {t \in Rows : tok[t].user = u}
  IN /\ user[u] = "active" /\ own # {}
     /\ StartsRevoking(p, {}, own)
     /\ UNCHANGED <<user, guard, vault, late>>

\* create_my_buyer_info, up to the INSERT: the SELECT before it found no row.
Register(p, u, n) ==
  /\ user[u] = "active" /\ u \notin Registered
  /\ Starts(p, [step |-> "insert", user |-> u, nid |-> n])
  /\ UNCHANGED <<user, guard, sessions, vault, late>>

RegisterCommits(p) ==
  /\ req[p].step = "insert" /\ Unmarked(req[p].user)
  /\ InsertInfo(p, req[p].user, req[p].nid) /\ Ends(p)
  /\ UNCHANGED <<user, guard, sessions, ring, retired, round, late>>

-----------------------------------------------------------------------------
(***************************************************************************)
(* DELETE /users/{id}: erase_user.                                         *)
(***************************************************************************)
\* A user that is erased already is left alone.  DELETE on the tokens starts.
Erase(p, u) ==
  /\ user[u] = "active"
  /\ Starts(p, [step |-> "delete", user |-> u, got |-> {},
                snap |-> {t \in Rows : tok[t].user = u}])
  /\ UNCHANGED <<user, guard, sessions, vault, late>>

\* It waits for locked rows; a child that a rotation inserted meanwhile breaks
\* the foreign key, and with it the whole erasure.
EraseDeletes(p) ==
  /\ req[p].step = "delete" /\ FreeFor(p, req[p].snap)
  /\ IF NoOrphans(req[p].snap)
       THEN Goes(p, [step |-> "held", user |-> req[p].user, snap |-> req[p].snap])
       ELSE Ends(p)
  /\ UNCHANGED <<user, guard, sessions, vault, late>>

\* DELETE on the buyer data, as it is now; a row that another erasure has deleted
\* is waited for.
EraseShreds(p) ==
  LET u == req[p].user
  IN /\ req[p].step = "held" /\ u \notin Shredded
     /\ Goes(p, [step |-> "shredded", user |-> u, snap |-> req[p].snap, row |-> u \in Registered])
     /\ UNCHANGED <<user, guard, sessions, vault, late>>

\* UPDATE on the users row, which is locked from now on.
EraseMarks(p) ==
  /\ req[p].step = "shredded" /\ Unmarked(req[p].user)
  /\ Goes(p, [req[p] EXCEPT !.step = "marked"])
  /\ UNCHANGED <<user, guard, sessions, vault, late>>

\* Variant: only the users row is changed, the buyer data stays.
EraseKeepsInfo(p) ==
  /\ req[p].step = "marked"
  /\ LET u == req[p].user
     IN /\ tok' = Without(Rows \cap req[p].snap)
        /\ user' = [user EXCEPT ![u] = "erased"]
        /\ UNCHANGED <<info, late>>
  /\ Ends(p) /\ UNCHANGED <<guard, history, ring, retired, round>>

\* A login or a registration for u that has looked at is_active.
UnderWay(u) == \E q \in Procs : req[q].step \in {"passed", "issue", "insert"} /\ req[q].user = u

\* Tokens of u that were committed after the DELETE had started.
LateTokens(p) == \E t \in Rows \ req[p].snap : tok[t].user = req[p].user

\* A row of u that was committed after the DELETE of the buyer data.
LateInfo(p) == req[p].user \in Registered /\ ~req[p].row

\* Commit.
EraseCommits(p) ==
  /\ req[p].step = "marked"
  /\ LET u == req[p].user
     IN /\ tok' = Without(Rows \cap req[p].snap)
        /\ IF req[p].row THEN DeleteInfo(u) ELSE UNCHANGED info
        /\ user' = [user EXCEPT ![u] = "erased"]
        /\ late' = IF UnderWay(u) \/ LateTokens(p) \/ LateInfo(p) THEN late \cup {u} ELSE late
  /\ Ends(p) /\ UNCHANGED <<guard, history, ring, retired, round>>

-----------------------------------------------------------------------------
\* The server goes on with a request it has started.
Serve(p) ==
  \/ LoginVerifies(p) \/ LoginFails(p) \/ LoginClears(p) \/ LoginIssues(p)
  \/ RegisterCommits(p) \/ EraseDeletes(p) \/ EraseShreds(p) \/ EraseMarks(p) \/ EraseCommits(p)
  \/ /\ \/ Rotate(p) /\ Unmarked(tok[req[p].tok].user)
        \/ Revoke(p) \/ DeadlockVictim(p) \/ PurgeEnds(p)
        \/ \E t \in TokenIds : LocksRow(p, t)
     /\ UNCHANGED <<user, guard, vault, late>>

Request(p) ==
  \/ \E u \in Visitors : LoginPeeks(p, u) \/ LogoutAll(p, u)
  \/ \E u \in Visitors, n \in NationalIds : Register(p, u, n)
  \/ \E u \in Users : Erase(p, u)
  \/ /\ Purge(p) \/ \E t \in TokenIds : Refresh(p, t) \/ Logout(p, t)
     /\ UNCHANGED <<user, guard, vault, late>>

TimePasses ==
  \/ \E u \in Users : WindowEnds(u) /\ UNCHANGED <<user, requests, sessions, vault, late>>
  \/ /\ \E t \in TokenIds : GraceEnds(t) \/ FamilyExpires(t) \/ RevocationAges(t)
     /\ UNCHANGED <<user, requests, guard, vault, late>>

Cron == (RewrapStarts \/ RewrapBatch) /\ UNCHANGED <<user, requests, guard, sessions, late>>

\* A task is replaced when it has drained.
Deploy ==
  /\ \/ \E p \in Procs : req[p] = Idle /\ Upgrade(p)
     \/ ~round.on /\ Upgrade(Worker)
     \/ DropRetiredKey
  /\ UNCHANGED <<user, requests, guard, sessions, late>>

Next == (\E p \in Procs : Request(p) \/ Serve(p)) \/ TimePasses \/ Cron \/ Deploy

Spec == Init /\ [][Next]_vars

\* A request that has started is served on, and the cron runs.
FairSpec == Spec /\ (\A p \in Procs : WF_vars(Serve(p))) /\ WF_vars(Cron)

-----------------------------------------------------------------------------
\* An erased user leaves neither buyer data nor a session behind, unless a login
\* or a registration had passed its check when the erasure was committed, or was
\* committed itself between the DELETE and the commit of the erasure.
ErasedUnlessLate ==
  \A u \in Users : user[u] = "erased" /\ u \notin late
    => u \notin Registered /\ \A t \in Rows : tok[t].user # u

\* Personal data can be read as long as it has to be, and not after an erasure.
PiiIsSound == RowsOpen /\ ErasedUnlessLate

=============================================================================

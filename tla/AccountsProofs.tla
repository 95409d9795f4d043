--------------------------- MODULE AccountsProofs ---------------------------
(***************************************************************************)
(* For every number of users, parallel requests and refresh tokens: the    *)
(* lock bounds the guesses, revocations land, a grace period runs once, no *)
(* row of buyer data is locked away and an erasure leaves nothing behind,  *)
(* except in the races that the properties name.                           *)
(***************************************************************************)
EXTENDS Accounts, FiniteSetTheorems, TLAPS

-----------------------------------------------------------------------------
(* The inductive invariant.                                                *)

TokenRecords ==
  [user : Users, fam : TokenIds, parent : {0} \cup TokenIds, used : {"no", "fresh", "stale"},
   revoked : {"no", "yes", "old"}, dead : BOOLEAN]
InfoRecords == [nid : NationalIds, kek : {1, 2}, wrapped : {1, 2}]
RequestRecords ==
  {Idle}
    \cup [step : {"verify", "failed", "passed", "issue"}, user : Users]
    \cup [step : {"insert"}, user : Users, nid : NationalIds]
    \cup [step : {"rotate"}, tok : TokenIds, unused : BOOLEAN]
    \cup [step : {"revoke", "purge"}, got : SUBSET TokenIds, snap : SUBSET TokenIds]
    \cup [step : {"delete"}, user : Users, got : SUBSET TokenIds, snap : SUBSET TokenIds]
    \cup [step : {"held"}, user : Users, snap : SUBSET TokenIds]
    \cup [step : {"shredded", "marked"}, user : Users, snap : SUBSET TokenIds, row : BOOLEAN]

AccountsTypeOK ==
  /\ user \in [Users -> {"active", "erased"}]
  /\ req \in [Procs -> RequestRecords] /\ budget \in Nat
  /\ fails \in [Users -> Nat] /\ guesses \in [Users -> Nat]
  /\ tok \in [TokenIds -> {NoToken, Deleted} \cup TokenRecords]
  /\ raced \subseteq TokenIds /\ doomed \subseteq TokenIds /\ spared \subseteq TokenIds
  /\ info \in [Users -> {NoInfo} \cup InfoRecords]
  /\ ring \in [Tasks -> {"old", "new"}] /\ retired \in BOOLEAN
  /\ round \in [on : BOOLEAN, unknown : SUBSET {1, 2}] /\ late \subseteq Users

\* Every wrong password is counted or about to be, and whoever is past the peek
\* has a place left under the bound.
At(s, u) == {p \in Procs : req[p].step = s /\ req[p].user = u}
GuardInv ==
  \A u \in Users :
    /\ guesses[u] <= fails[u] + Cardinality(At("failed", u))
    /\ guesses[u] + Cardinality(At("verify", u)) <= FailureLimit - 1 + Cardinality(Procs)

\* Ids are given out in their order, and there is one for each request that may
\* still insert a row.
Creators == {p \in Procs : req[p].step \in {"verify", "passed", "issue", "rotate"}}
IdsInv ==
  \E n \in 2 .. MaxRequests + 2 :
    /\ \A t \in TokenIds : tok[t] = NoToken <=> t > n
    /\ n + budget + Cardinality(Creators) <= MaxRequests + 2

\* No row is locked twice, and the one that a rotation has locked is there.
LocksInv ==
  /\ \A p, q \in Procs : p # q => Holds(p) \cap Holds(q) = {}
  /\ \A p \in Procs : req[p].step = "rotate" => req[p].tok \in Rows

\* What a rotation has read of its row is still so.
RotateInv ==
  \A p \in Procs : req[p].step = "rotate" =>
    /\ tok[req[p].tok].revoked = "no"
    /\ req[p].unused => tok[req[p].tok].used = "no"

\* Only rows that have existed are in a snapshot or doomed, and families have ids
\* and users of their own.
FamiliesInv ==
  /\ \A p \in Procs : req[p].step \in {"revoke", "purge", "delete", "held", "shredded", "marked"} =>
       \A t \in req[p].snap : tok[t] # NoToken
  /\ \A t \in doomed : tok[t] # NoToken
  /\ \A t \in Rows : tok[tok[t].fam] # NoToken
  /\ \A s, t \in Rows : tok[s].fam = tok[t].fam => tok[s].user = tok[t].user

\* What a revocation misses of a family was inserted behind its back.
RevokeInv ==
  \A p \in Procs : req[p].step = "revoke" =>
    \A s \in req[p].snap \cap Rows, t \in Rows \ req[p].snap :
      tok[t].fam = tok[s].fam /\ tok[t].revoked = "no" => tok[t].fam \in raced

\* A doomed token is revoked, raced, spared by a deadlock, or still in the hands of a
\* revocation.
DoomedInv ==
  \A t \in doomed \cap Rows :
    \/ tok[t].revoked # "no" \/ tok[t].fam \in raced \/ t \in spared
    \/ \E q \in Procs : req[q].step = "revoke" /\ t \in req[q].snap

SessionsInv ==
  IdsInv /\ LocksInv /\ RotateInv /\ FamiliesInv /\ RevokeInv /\ DoomedInv /\ SurvivorNeedsRace

\* The version on a row is the one that wraps its key, and the old key goes when
\* neither a row nor a task needs it.
VaultInv ==
  /\ \A u \in Registered : info[u].kek = info[u].wrapped
  /\ ~retired => RowsAt(1) = {} /\ \A p \in Tasks : ring[p] = "new"

\* Nothing of an erased user is left, and nothing is under way, unless it is late.
ErasedInv ==
  \A u \in Users : user[u] = "erased" /\ u \notin late
    => u \notin Registered /\ ~UnderWay(u) /\ \A t \in Rows : tok[t].user # u

AccountsInv == AccountsTypeOK /\ GuardInv /\ SessionsInv /\ VaultInv /\ ErasedInv

-----------------------------------------------------------------------------
(* Records and sets that every step reasons about.                         *)

\* A row of refresh_tokens is a full record, which neither a free id nor a deleted
\* row is.
LEMMA RecordsDiffer ==
  NoToken # Deleted /\ \A r \in TokenRecords : r # NoToken /\ r # Deleted
<1>1. ASSUME NEW r \in TokenRecords PROVE r # NoToken /\ r # Deleted
  BY <1>1 DEF TokenRecords, NoToken, Deleted
<1>2. NoToken # Deleted
  BY DEF NoToken, Deleted
<1> QED
  BY <1>1, <1>2

LEMMA RowsAreRecords ==
  ASSUME tok \in [TokenIds -> {NoToken, Deleted} \cup TokenRecords]
  PROVE  /\ Rows \subseteq TokenIds
         /\ \A t \in TokenIds : t \in Rows <=> tok[t] \in TokenRecords
         /\ NoToken # Deleted
BY RecordsDiffer DEF Rows

\* What the step of a request says about its other fields.
LEMMA RequestFields ==
  ASSUME NEW r \in RequestRecords
  PROVE  /\ r.step \in {"idle", "verify", "failed", "passed", "issue", "insert", "rotate",
                        "revoke", "purge", "delete", "held", "shredded", "marked"}
         /\ r.step = "idle" => r = Idle
         /\ r.step \in {"verify", "failed", "passed", "issue", "insert", "delete", "held",
                        "shredded", "marked"} => r.user \in Users
         /\ r.step = "insert" => r.nid \in NationalIds
         /\ r.step = "rotate" => r.tok \in TokenIds /\ r.unused \in BOOLEAN
         /\ r.step \in {"revoke", "purge", "delete"} => r.got \in SUBSET TokenIds
         /\ r.step \in {"revoke", "purge", "delete", "held", "shredded", "marked"}
              => r.snap \in SUBSET TokenIds
BY DEF RequestRecords, Idle

\* A statement reaches a row.
LEMMA GotGrows ==
  ASSUME NEW r \in RequestRecords, r.step \in {"revoke", "purge", "delete"},
         NEW t \in TokenIds, NEW x, x = [r EXCEPT !.got = @ \cup {t}]
  PROVE  /\ x \in RequestRecords /\ x.step = r.step /\ x.snap = r.snap
         /\ x.got = r.got \cup {t}
<1>1. CASE r \in [step : {"revoke", "purge"}, got : SUBSET TokenIds, snap : SUBSET TokenIds]
  BY <1>1 DEF RequestRecords
<1>2. CASE r \in [step : {"delete"}, user : Users, got : SUBSET TokenIds, snap : SUBSET TokenIds]
  BY <1>2 DEF RequestRecords
<1> QED
  BY <1>1, <1>2 DEF RequestRecords, Idle

\* An erasure marks the user.
LEMMA ErasureMarks ==
  ASSUME NEW r \in RequestRecords, r.step = "shredded", NEW x, x = [r EXCEPT !.step = "marked"]
  PROVE  x \in RequestRecords /\ x.step = "marked" /\ x.snap = r.snap
<1>1. r \in [step : {"shredded", "marked"}, user : Users, snap : SUBSET TokenIds, row : BOOLEAN]
  BY DEF RequestRecords, Idle
<1> QED
  BY <1>1 DEF RequestRecords

\* The ids and the tasks.
LEMMA IdsAre == TokenIds \subseteq Nat \ {0} /\ Tasks = Procs \cup {Worker} /\ 0 \notin TokenIds
BY RequestsAssumption DEF TokenIds, Tasks

LEMMA AccountsInvInit == Init => AccountsInv
<1> SUFFICES ASSUME Init PROVE AccountsInv
  OBVIOUS
<1> USE RequestsAssumption, AccountsAssumption, GuardAssumption
<1>0. 1 \in TokenIds /\ 2 \in TokenIds /\ Idle \in RequestRecords /\ Idle.step = "idle"
  BY DEF TokenIds, RequestRecords, Idle
<1>1. /\ tok[1] = [Fresh(Owner, 1, 0) EXCEPT !.used = "stale"] /\ tok[2] = Fresh(Owner, 1, 1)
      /\ \A t \in TokenIds \ {1, 2} : tok[t] = NoToken
  BY <1>0 DEF Init
<1>2. \A t \in {1, 2} :
        tok[t] \in TokenRecords /\ tok[t].user = Owner /\ tok[t].fam = 1 /\ tok[t].revoked = "no"
  <2>1. Fresh(Owner, 1, 0) \in TokenRecords /\ Fresh(Owner, 1, 1) \in TokenRecords
    BY <1>0 DEF Fresh, TokenRecords
  <2>2. /\ Fresh(Owner, 1, 0).user = Owner /\ Fresh(Owner, 1, 0).fam = 1
        /\ Fresh(Owner, 1, 0).revoked = "no"
        /\ Fresh(Owner, 1, 1).user = Owner /\ Fresh(Owner, 1, 1).fam = 1
        /\ Fresh(Owner, 1, 1).revoked = "no"
    BY DEF Fresh
  <2>3. ASSUME NEW r \in TokenRecords
        PROVE  LET x == [r EXCEPT !.used = "stale"]
               IN x \in TokenRecords /\ x.user = r.user /\ x.fam = r.fam /\ x.revoked = r.revoked
    BY DEF TokenRecords
  <2>4. tok[1] \in TokenRecords /\ tok[1].user = Owner /\ tok[1].fam = 1 /\ tok[1].revoked = "no"
    BY <1>1, <2>1, <2>2, <2>3, Zenon
  <2>5. tok[2] \in TokenRecords /\ tok[2].user = Owner /\ tok[2].fam = 1 /\ tok[2].revoked = "no"
    BY <1>1, <2>1, <2>2, Zenon
  <2> QED
    BY <2>4, <2>5
<1>3. AccountsTypeOK
  <2>1. tok \in [TokenIds -> {NoToken, Deleted} \cup TokenRecords]
    BY <1>1, <1>2 DEF Init
  <2>2. info \in [Users -> {NoInfo} \cup InfoRecords]
    BY DEF Init, InfoRecords
  <2> QED
    BY <1>0, <2>1, <2>2 DEF Init, AccountsTypeOK, RequestsInit, GuardInit, Rest
<1>4. Rows = {1, 2}
  <2>1. \A t \in TokenIds : t \in Rows <=> tok[t] \in TokenRecords
    BY <1>3, RowsAreRecords DEF AccountsTypeOK
  <2> QED
    BY <1>0, <1>1, <1>2, <2>1, <1>3, RowsAreRecords DEF AccountsTypeOK, Rows
<1>5. \A p \in Procs : req[p].step = "idle"
  BY <1>0 DEF Init, RequestsInit
<1>6. Cardinality({}) = 0 /\ Cardinality(Procs) \in Nat
  BY FS_EmptySet, FS_CardinalityType
<1>7. GuardInv
  <2>1. \A u \in Users : At("failed", u) = {} /\ At("verify", u) = {}
    <3>1. \A p \in Procs : req[p].step # "failed" /\ req[p].step # "verify"
      BY <1>5
    <3> QED
      BY <3>1, Zenon DEF At
  <2>2. \A u \in Users : Cardinality(At("failed", u)) = 0 /\ Cardinality(At("verify", u)) = 0
    BY <1>6, <2>1
  <2>3. \A u \in Users : guesses[u] = 0 /\ fails[u] = 0
    BY DEF Init, GuardInit
  <2> QED
    BY <1>6, <2>2, <2>3 DEF GuardInv
<1>8. SessionsInv
  <2>1. Creators = {}
    BY <1>5 DEF Creators
  <2>2. IdsInv
    <3>1. \A t \in TokenIds : tok[t] = NoToken <=> t > 2
      BY <1>0, <1>1, <1>2, <1>4, IdsAre DEF Rows, TokenIds
    <3>2. 2 \in 2 .. MaxRequests + 2 /\ 2 + budget + Cardinality(Creators) <= MaxRequests + 2
      BY <1>6, <2>1 DEF Init, RequestsInit
    <3> QED
      BY <3>1, <3>2 DEF IdsInv
  <2>3. \A p \in Procs : Holds(p) = {}
    BY <1>5 DEF Holds, Statements, Erasing
  <2>4. FamiliesInv
    BY <1>2, <1>4, <1>5 DEF FamiliesInv, Init, Rows
  <2>5. SurvivorNeedsRace
    BY <1>2, <1>4 DEF SurvivorNeedsRace, Family
  <2> QED
    BY <1>5, <2>2, <2>3, <2>4, <2>5
    DEF SessionsInv, LocksInv, RotateInv, RevokeInv, DoomedInv, Init
<1>9. VaultInv /\ ErasedInv
  BY DEF Init, RequestsInit, VaultInv, ErasedInv, Registered, NoInfo
<1> QED
  BY <1>3, <1>7, <1>8, <1>9 DEF AccountsInv

-----------------------------------------------------------------------------
(* The lock of an account.                                                 *)

\* A step of one request leaves the others alone.
Only(p) == \A q \in Procs \ {p} : req'[q] = req[q]

LEMMA OneMoves ==
  ASSUME AccountsTypeOK, NEW p \in Procs, NEW r
  PROVE  /\ Goes(p, r) => Only(p) /\ req'[p] = r
         /\ Starts(p, r) => Only(p) /\ req'[p] = r /\ req[p] = Idle
         /\ Ends(p) => Only(p) /\ req'[p] = Idle
         /\ Idle.step = "idle"
BY DEF AccountsTypeOK, Goes, Starts, Ends, Only, Idle

\* How it moves between the sets of GuardInv.
LEMMA AtMoves ==
  ASSUME NEW p \in Procs, Only(p), NEW s, NEW u
  PROVE  /\ IsFiniteSet(At(s, u)) /\ Cardinality(At(s, u)) \in Nat
         /\ req'[p].step = s /\ req'[p].user = u =>
              /\ At(s, u)' = At(s, u) \cup {p}
              /\ p \notin At(s, u) => Cardinality(At(s, u)') = Cardinality(At(s, u)) + 1
         /\ ~(req'[p].step = s /\ req'[p].user = u) =>
              /\ At(s, u)' = At(s, u) \ {p}
              /\ Cardinality(At(s, u)') <= Cardinality(At(s, u))
              /\ p \notin At(s, u) => At(s, u)' = At(s, u)
              /\ p \in At(s, u) => Cardinality(At(s, u)') = Cardinality(At(s, u)) - 1
         /\ IsFiniteSet(At(s, u)') /\ Cardinality(At(s, u)') \in Nat
<1>1. At(s, u) \in SUBSET Procs /\ IsFiniteSet(Procs)
  BY RequestsAssumption DEF At
<1>2. IsFiniteSet(At(s, u)) /\ Cardinality(At(s, u)) \in Nat
  BY <1>1, FS_Subset, FS_CardinalityType
<1>3. /\ IsFiniteSet(At(s, u) \cup {p})
      /\ Cardinality(At(s, u) \cup {p}) =
           IF p \in At(s, u) THEN Cardinality(At(s, u)) ELSE Cardinality(At(s, u)) + 1
  BY <1>2, FS_AddElement
<1>4. /\ IsFiniteSet(At(s, u) \ {p})
      /\ Cardinality(At(s, u) \ {p}) =
           IF p \in At(s, u) THEN Cardinality(At(s, u)) - 1 ELSE Cardinality(At(s, u))
  BY <1>2, FS_RemoveElement
<1>6. req'[p].step = s /\ req'[p].user = u => At(s, u)' = At(s, u) \cup {p}
  BY DEF At, Only
<1>7. ~(req'[p].step = s /\ req'[p].user = u) => At(s, u)' = At(s, u) \ {p}
  BY DEF At, Only
<1>8. Cardinality(At(s, u) \cup {p}) \in Nat /\ Cardinality(At(s, u) \ {p}) \in Nat
  BY <1>3, <1>4, FS_CardinalityType
<1> HIDE DEF At
<1> QED
  BY <1>2, <1>3, <1>4, <1>6, <1>7, <1>8

\* A step of a request that is not about a password.
LEMMA GuardQuiet ==
  ASSUME GuardInv, NEW p \in Procs, Only(p),
         req[p].step \notin {"verify", "failed"}, req'[p].step \notin {"verify", "failed"},
         UNCHANGED guard
  PROVE  GuardInv'
<1>1. \A s \in {"verify", "failed"}, u \in Users : At(s, u)' = At(s, u)
  BY DEF At, Only
<1> QED
  BY <1>1 DEF GuardInv, guard

LEMMA GuardInvNext == AccountsTypeOK /\ GuardInv /\ [Next]_vars => GuardInv'
<1> SUFFICES ASSUME AccountsTypeOK, GuardInv, [Next]_vars PROVE GuardInv'
  OBVIOUS
<1>f. IsFiniteSet(Procs) /\ Cardinality(Procs) \in Nat /\ FailureLimit \in Nat \ {0}
  BY RequestsAssumption, GuardAssumption, FS_CardinalityType
<1>t. /\ fails \in [Users -> Nat] /\ guesses \in [Users -> Nat]
      /\ \A p \in Procs : req[p] \in RequestRecords
  BY DEF AccountsTypeOK
<1>1. ASSUME NEW p \in Procs, NEW u \in Visitors, LoginPeeks(p, u) PROVE GuardInv'
  <2>1. /\ u \in Users /\ fails[u] < FailureLimit /\ UNCHANGED <<fails, guesses>> /\ Only(p)
        /\ req[p].step = "idle" /\ req'[p].step = "verify" /\ req'[p].user = u
    BY <1>1, OneMoves, AccountsAssumption DEF LoginPeeks, Passes, guard
  <2>2. \A w \in Users : At("failed", w)' = At("failed", w)
    BY <2>1 DEF At, Only
  <2>3. \A w \in Users \ {u} : At("verify", w)' = At("verify", w)
    BY <2>1 DEF At, Only
  <2>4. guesses[u] + Cardinality(At("verify", u)') <= FailureLimit - 1 + Cardinality(Procs)
    <3> DEFINE V == At("verify", u)'
               F == At("failed", u)'
    <3>1. V \cap F = {} /\ V \cup F \in SUBSET Procs
      BY DEF At
    <3>2. /\ IsFiniteSet(V) /\ IsFiniteSet(F)
          /\ Cardinality(V) \in Nat /\ Cardinality(F) \in Nat
      BY <2>1, AtMoves
    <3>3. Cardinality(V \cup F) <= Cardinality(Procs)
      BY <1>f, <3>1, FS_Subset
    <3>4. Cardinality(V \cup F) = Cardinality(V) + Cardinality(F) - Cardinality(V \cap F)
      BY <3>2, FS_Union
    <3>5. Cardinality(V \cap F) = 0
      BY <3>1, FS_EmptySet
    <3>6. guesses[u] <= fails[u] + Cardinality(F)
      BY <2>1, <2>2 DEF GuardInv
    <3> HIDE DEF V, F
    <3>7. guesses[u] + Cardinality(V) <= FailureLimit - 1 + Cardinality(Procs)
      BY <1>f, <1>t, <2>1, <3>2, <3>3, <3>4, <3>5, <3>6
    <3> QED
      BY <3>7 DEF V
  <2> QED
    BY <2>1, <2>2, <2>3, <2>4 DEF GuardInv
<1>2. ASSUME NEW p \in Procs, LoginVerifies(p) PROVE GuardInv'
  <2>0. PICK u \in Users : req[p].user = u /\ req[p].step = "verify"
    BY <1>2, <1>t, RequestFields DEF LoginVerifies
  <2>1. CASE Goes(p, [step |-> "passed", user |-> u]) /\ UNCHANGED guard
    <3>1. Only(p) /\ req'[p].step = "passed" /\ UNCHANGED <<fails, guesses>>
      BY <2>1, OneMoves DEF guard
    <3>2. \A w \in Users : At("failed", w)' = At("failed", w)
      BY <3>1, <2>0 DEF At, Only
    <3>3. \A w \in Users : /\ Cardinality(At("verify", w)') <= Cardinality(At("verify", w))
                           /\ Cardinality(At("verify", w)') \in Nat
                           /\ Cardinality(At("verify", w)) \in Nat
      BY <3>1, AtMoves
    <3> QED
      BY <3>1, <3>2, <3>3, <1>f, <1>t DEF GuardInv
  <2>2. CASE Guess(u) /\ Goes(p, [step |-> "failed", user |-> u])
    <3>1. /\ Only(p) /\ req'[p].step = "failed" /\ req'[p].user = u
          /\ fails' = fails /\ guesses' = [guesses EXCEPT ![u] = @ + 1]
      BY <2>2, OneMoves DEF Guess
    <3>2. p \in At("verify", u) /\ p \notin At("failed", u)
      BY <2>0 DEF At
    <3>3. /\ Cardinality(At("failed", u)') = Cardinality(At("failed", u)) + 1
          /\ Cardinality(At("verify", u)') = Cardinality(At("verify", u)) - 1
          /\ Cardinality(At("failed", u)) \in Nat /\ Cardinality(At("verify", u)) \in Nat
      BY <3>1, <3>2, AtMoves
    <3>4. \A s \in {"failed", "verify"}, w \in Users \ {u} : At(s, w)' = At(s, w)
      BY <3>1, <2>0 DEF At, Only
    <3>5. guesses'[u] = guesses[u] + 1 /\ \A w \in Users \ {u} : guesses'[w] = guesses[w]
      BY <3>1, <1>t, <2>0
    <3>6. /\ guesses'[u] <= fails'[u] + Cardinality(At("failed", u)')
          /\ guesses'[u] + Cardinality(At("verify", u)') <= FailureLimit - 1 + Cardinality(Procs)
      BY <3>1, <3>3, <3>5, <1>f, <1>t, <2>0 DEF GuardInv
    <3> QED
      BY <3>1, <3>4, <3>5, <3>6 DEF GuardInv
  <2> QED
    BY <1>2, <2>0, <2>1, <2>2 DEF LoginVerifies
<1>3. ASSUME NEW p \in Procs, LoginFails(p) PROVE GuardInv'
  <2>0. PICK u \in Users : req[p].user = u /\ req[p].step = "failed"
    BY <1>3, <1>t, RequestFields DEF LoginFails
  <2>1. /\ Only(p) /\ req'[p].step = "idle"
        /\ fails' = [fails EXCEPT ![u] = @ + 1] /\ guesses' = guesses
    BY <1>3, <2>0, OneMoves DEF LoginFails, Hit
  <2>2. \A w \in Users : At("verify", w)' = At("verify", w)
    BY <2>0, <2>1 DEF At, Only
  <2>3. \A w \in Users \ {u} : At("failed", w)' = At("failed", w)
    BY <2>0, <2>1 DEF At, Only
  <2>4. p \in At("failed", u)
    BY <2>0 DEF At
  <2>5. /\ Cardinality(At("failed", u)') = Cardinality(At("failed", u)) - 1
        /\ Cardinality(At("failed", u)) \in Nat
    BY <2>1, <2>4, AtMoves
  <2>6. fails'[u] = fails[u] + 1 /\ \A w \in Users \ {u} : fails'[w] = fails[w]
    BY <2>1, <1>t, <2>0
  <2>7. guesses'[u] <= fails'[u] + Cardinality(At("failed", u)')
    BY <2>0, <2>1, <2>5, <2>6, <1>t DEF GuardInv
  <2> QED
    BY <2>1, <2>2, <2>3, <2>6, <2>7 DEF GuardInv
<1>c. ASSUME NEW u \in Users, Clear(u),
             \A s \in {"verify", "failed"}, w \in Users : At(s, w)' = At(s, w)
      PROVE  GuardInv'
  <2>1. /\ fails' = [fails EXCEPT ![u] = 0] /\ guesses' = [guesses EXCEPT ![u] = 0]
    BY <1>c DEF Clear
  <2>2. ASSUME NEW s
        PROVE  Cardinality(At(s, u)) \in Nat /\ Cardinality(At(s, u)) <= Cardinality(Procs)
    <3>1. At(s, u) \in SUBSET Procs
      BY DEF At
    <3> QED
      BY <3>1, <1>f, FS_Subset, FS_CardinalityType
  <2> QED
    BY <2>1, <2>2, <1>c, <1>f, <1>t DEF GuardInv
<1>4. ASSUME NEW p \in Procs, LoginClears(p) PROVE GuardInv'
  <2>1. /\ req[p].step = "passed" /\ req[p].user \in Users /\ Clear(req[p].user)
        /\ Only(p) /\ req'[p].step = "issue"
    <3>1. req[p].step = "passed" /\ req[p].user \in Users /\ Clear(req[p].user)
      BY <1>4, <1>t, RequestFields DEF LoginClears
    <3>2. Only(p) /\ req'[p] = [step |-> "issue", user |-> req[p].user]
      BY <1>4, OneMoves DEF LoginClears
    <3> QED
      BY <3>1, <3>2
  <2>2. \A s \in {"verify", "failed"}, w \in Users : At(s, w)' = At(s, w)
    BY <2>1 DEF At, Only
  <2> QED
    BY <2>1, <2>2, <1>c
<1>5. ASSUME NEW u \in Users, WindowEnds(u), UNCHANGED requests PROVE GuardInv'
  <2>1. \A s \in {"verify", "failed"}, w \in Users : At(s, w)' = At(s, w)
    BY <1>5 DEF At, requests
  <2> QED
    BY <2>1, <1>5, <1>c DEF WindowEnds
<1>6. ASSUME UNCHANGED <<requests, guard>> PROVE GuardInv'
  <2>1. \A s \in {"verify", "failed"}, w \in Users : At(s, w)' = At(s, w)
    BY <1>6 DEF At, requests
  <2> QED
    BY <2>1, <1>6 DEF GuardInv, guard
<1>7. ASSUME NEW p \in Procs, UNCHANGED guard,
             \/ LoginIssues(p) \/ RegisterCommits(p) \/ EraseCommits(p)
             \/ Rotate(p) \/ Revoke(p) \/ DeadlockVictim(p) \/ PurgeEnds(p)
      PROVE  GuardInv'
  <2>1. req[p].step \notin {"verify", "failed"} /\ Ends(p)
    BY <1>7 DEF LoginIssues, RegisterCommits, EraseCommits, Rotate, Revoke, DeadlockVictim,
                PurgeEnds, Statements
  <2> QED
    BY <1>7, <2>1, OneMoves, GuardQuiet
<1>e. ASSUME NEW p \in Procs, EraseDeletes(p) \/ EraseShreds(p) \/ EraseMarks(p) PROVE GuardInv'
  <2>1. /\ UNCHANGED guard /\ req[p].step \in {"delete", "held", "shredded"}
        /\ \/ Ends(p)
           \/ Goes(p, [step |-> "held", user |-> req[p].user, snap |-> req[p].snap])
           \/ Goes(p, [step |-> "shredded", user |-> req[p].user, snap |-> req[p].snap,
                        row |-> req[p].user \in Registered])
           \/ req[p].step = "shredded" /\ Goes(p, [req[p] EXCEPT !.step = "marked"])
    BY <1>e DEF EraseDeletes, EraseShreds, EraseMarks
  <2>2. Only(p) /\ req'[p].step \in {"idle", "held", "shredded", "marked"}
    BY <1>t, <2>1, OneMoves, ErasureMarks
  <2> QED
    BY <2>1, <2>2, GuardQuiet
<1>l. ASSUME NEW p \in Procs, NEW t \in TokenIds, LocksRow(p, t), UNCHANGED guard PROVE GuardInv'
  <2>1. /\ req[p].step \in {"revoke", "purge", "delete"}
        /\ Goes(p, [req[p] EXCEPT !.got = @ \cup {t}])
    BY <1>l DEF LocksRow, Statements
  <2>2. Only(p) /\ req'[p].step = req[p].step
    BY <1>t, <2>1, OneMoves, GotGrows
  <2> QED
    BY <1>l, <2>1, <2>2, GuardQuiet
<1>s. ASSUME NEW p \in Procs, NEW r, Starts(p, r), UNCHANGED guard,
             r.step \notin {"verify", "failed"}
      PROVE  GuardInv'
  BY <1>s, OneMoves, GuardQuiet
<1>8. ASSUME NEW p \in Procs, UNCHANGED guard, NEW own, NEW S, StartsRevoking(p, own, S)
      PROVE  GuardInv'
  BY <1>8, <1>s DEF StartsRevoking
<1>9. ASSUME NEW p \in Procs, UNCHANGED guard,
             \/ \E u \in Users : LogoutAll(p, u) \/ Erase(p, u)
             \/ \E u \in Users, n \in NationalIds : Register(p, u, n)
             \/ Purge(p) \/ \E t \in TokenIds : Refresh(p, t) \/ Logout(p, t)
      PROVE  GuardInv'
  <2>1. CASE \E u \in Users : LogoutAll(p, u)
    BY <1>9, <1>8, <2>1 DEF LogoutAll
  <2>2. CASE \E u \in Users : Erase(p, u)
    BY <1>9, <1>s, <2>2 DEF Erase
  <2>3. CASE \E u \in Users, n \in NationalIds : Register(p, u, n)
    BY <1>9, <1>s, <2>3 DEF Register
  <2>4. CASE Purge(p)
    BY <1>9, <1>s, <2>4 DEF Purge
  <2>5. CASE \E t \in TokenIds : Refresh(p, t) \/ Logout(p, t)
    BY <1>9, <1>8, <1>s, <2>5 DEF Refresh, Logout
  <2> QED
    BY <1>9, <2>1, <2>2, <2>3, <2>4, <2>5
<1> QED
  BY <1>1, <1>2, <1>3, <1>4, <1>5, <1>6, <1>7, <1>e, <1>l, <1>9, AccountsAssumption
  DEF Next, Request, Serve, TimePasses, Cron, Deploy, vars, LogoutAll, Register, Erase,
      LoginIssues, RegisterCommits, EraseCommits

-----------------------------------------------------------------------------
(* The token table, step by step.                                          *)

CreatorSteps == {"verify", "passed", "issue", "rotate"}

\* The next id is the one after the last that was given out.
LEMMA NextIdIs ==
  ASSUME NEW n \in 2 .. MaxRequests + 2, \A t \in TokenIds : tok[t] = NoToken <=> t > n,
         n + 1 <= MaxRequests + 2
  PROVE  NextId = n + 1 /\ NextId \in TokenIds /\ tok[NextId] = NoToken
<1> DEFINE P(t) == tok[t] = NoToken /\ \A s \in 1 .. t - 1 : tok[s] # NoToken
<1>0. MaxRequests \in Nat /\ n \in Nat /\ TokenIds = 1 .. MaxRequests + 2
  BY RequestsAssumption DEF TokenIds
<1>1. n + 1 \in TokenIds /\ P(n + 1)
  <2>1. \A s \in 1 .. (n + 1) - 1 : s \in TokenIds /\ ~(s > n)
    BY <1>0
  <2>2. n + 1 \in TokenIds /\ n + 1 > n
    BY <1>0
  <2> QED
    BY <2>1, <2>2
<1>2. NextId = CHOOSE t \in TokenIds : P(t)
  BY DEF NextId
<1> HIDE DEF P
<1>3. NextId \in TokenIds /\ P(NextId)
  BY <1>1, <1>2
<1>4. tok[NextId] = NoToken /\ \A s \in 1 .. NextId - 1 : tok[s] # NoToken
  BY <1>3 DEF P
<1>5. NextId > n /\ NextId \in Nat
  BY <1>0, <1>3, <1>4
<1>6. ~(n + 1 < NextId)
  <2> SUFFICES ASSUME n + 1 < NextId PROVE FALSE
    OBVIOUS
  <2>1. n + 1 \in 1 .. NextId - 1
    BY <1>0, <1>5
  <2> QED
    BY <1>1, <1>4, <2>1 DEF P
<1> QED
  BY <1>0, <1>3, <1>4, <1>5, <1>6

\* How the number of requests that may insert a row changes.
LEMMA CreatorsMove ==
  ASSUME NEW p \in Procs, Only(p)
  PROVE  /\ Cardinality(Creators) \in Nat /\ Cardinality(Creators') \in Nat
         /\ req[p].step \in CreatorSteps => Cardinality(Creators) >= 1
         /\ req'[p].step \in CreatorSteps => Cardinality(Creators') <= Cardinality(Creators) + 1
         /\ req'[p].step \in CreatorSteps /\ req[p].step \in CreatorSteps =>
              Cardinality(Creators') = Cardinality(Creators)
         /\ req'[p].step \notin CreatorSteps => Cardinality(Creators') <= Cardinality(Creators)
         /\ req'[p].step \notin CreatorSteps /\ req[p].step \in CreatorSteps =>
              Cardinality(Creators') = Cardinality(Creators) - 1
<1> DEFINE C == Creators
<1>1. C \in SUBSET Procs /\ (p \in C <=> req[p].step \in CreatorSteps)
  BY DEF Creators, CreatorSteps
<1>2. Creators' = IF req'[p].step \in CreatorSteps THEN C \cup {p} ELSE C \ {p}
  BY DEF Creators, Only, CreatorSteps
<1>3. IsFiniteSet(C) /\ Cardinality(C) \in Nat
  BY <1>1, RequestsAssumption, FS_Subset, FS_CardinalityType
<1>4. /\ IsFiniteSet(C \cup {p}) /\ IsFiniteSet(C \ {p})
      /\ Cardinality(C \cup {p}) = IF p \in C THEN Cardinality(C) ELSE Cardinality(C) + 1
      /\ Cardinality(C \ {p}) = IF p \in C THEN Cardinality(C) - 1 ELSE Cardinality(C)
  BY <1>3, FS_AddElement, FS_RemoveElement
<1>5. Cardinality(C \cup {p}) \in Nat /\ Cardinality(C \ {p}) \in Nat
  BY <1>4, FS_CardinalityType
<1>6. p \in C => Cardinality(C) >= 1
  BY <1>3, <1>4, <1>5
<1> HIDE DEF C
<1>7. /\ Cardinality(C) \in Nat /\ Cardinality(Creators') \in Nat
      /\ p \in C => Cardinality(C) >= 1
      /\ req'[p].step \in CreatorSteps => Cardinality(Creators') <= Cardinality(C) + 1
      /\ req'[p].step \in CreatorSteps /\ p \in C => Cardinality(Creators') = Cardinality(C)
      /\ req'[p].step \notin CreatorSteps => Cardinality(Creators') <= Cardinality(C)
      /\ req'[p].step \notin CreatorSteps /\ p \in C => Cardinality(Creators') = Cardinality(C) - 1
  BY <1>2, <1>3, <1>4, <1>5, <1>6
<1> QED
  BY <1>1, <1>7 DEF C

\* A step that inserts no row keeps the ids in order.
LEMMA IdsKept ==
  ASSUME AccountsTypeOK, IdsInv, NEW p \in Procs, Only(p), budget' \in Nat, budget' <= budget,
         \A t \in TokenIds : tok'[t] = NoToken <=> tok[t] = NoToken,
         req'[p].step \in CreatorSteps => req[p].step \in CreatorSteps \/ budget' = budget - 1
  PROVE  IdsInv'
<1>1. PICK n \in 2 .. MaxRequests + 2 :
        /\ \A t \in TokenIds : tok[t] = NoToken <=> t > n
        /\ n + budget + Cardinality(Creators) <= MaxRequests + 2
  BY DEF IdsInv
<1>2. n + budget' + Cardinality(Creators') <= MaxRequests + 2
  BY <1>1, CreatorsMove, RequestsAssumption DEF AccountsTypeOK
<1> QED
  BY <1>1, <1>2 DEF IdsInv

\* A request that may insert a row finds a free id.
LEMMA IdIsFree ==
  ASSUME AccountsTypeOK, IdsInv, NEW p \in Procs, req[p].step \in CreatorSteps
  PROVE  NextId \in TokenIds /\ tok[NextId] = NoToken
<1>1. PICK n \in 2 .. MaxRequests + 2 :
        /\ \A t \in TokenIds : tok[t] = NoToken <=> t > n
        /\ n + budget + Cardinality(Creators) <= MaxRequests + 2
  BY DEF IdsInv
<1>2. Creators \in SUBSET Procs /\ p \in Creators
  BY DEF Creators, CreatorSteps
<1>3. IsFiniteSet(Creators) /\ Cardinality(Creators) \in Nat
  BY <1>2, RequestsAssumption, FS_Subset, FS_CardinalityType
<1>4. Cardinality(Creators) # 0
  BY <1>2, <1>3, FS_EmptySet
<1>5. n + 1 <= MaxRequests + 2
  BY <1>1, <1>3, <1>4, RequestsAssumption DEF AccountsTypeOK
<1> QED
  BY <1>1, <1>5, NextIdIs

\* And one that inserts its row takes the next id and its place in the count.
LEMMA IdsInserted ==
  ASSUME AccountsTypeOK, IdsInv, NEW p \in Procs, Only(p), budget' = budget,
         req[p].step \in CreatorSteps, req'[p].step \notin CreatorSteps,
         tok'[NextId] # NoToken,
         \A t \in TokenIds \ {NextId} : tok'[t] = NoToken <=> tok[t] = NoToken
  PROVE  IdsInv'
<1>1. PICK n \in 2 .. MaxRequests + 2 :
        /\ \A t \in TokenIds : tok[t] = NoToken <=> t > n
        /\ n + budget + Cardinality(Creators) <= MaxRequests + 2
  BY DEF IdsInv
<1>2. /\ Cardinality(Creators) \in Nat /\ Cardinality(Creators) >= 1
      /\ Cardinality(Creators') = Cardinality(Creators) - 1
  BY CreatorsMove
<1>3. n + 1 <= MaxRequests + 2 /\ n + 1 \in 2 .. MaxRequests + 2
      /\ n + 1 + budget' + Cardinality(Creators') <= MaxRequests + 2
  BY <1>1, <1>2, RequestsAssumption DEF AccountsTypeOK
<1>4. NextId = n + 1
  BY <1>1, <1>3, NextIdIs
<1>5. ASSUME NEW t \in TokenIds PROVE tok'[t] = NoToken <=> t > n + 1
  <2>1. t \in Nat /\ n \in Nat
    BY IdsAre
  <2>2. CASE t = n + 1
    BY <1>4, <2>1, <2>2
  <2>3. CASE t # n + 1
    <3>1. tok'[t] = NoToken <=> t > n
      BY <1>1, <1>4, <2>3
    <3> QED
      BY <2>1, <2>3, <3>1
  <2> QED
    BY <2>2, <2>3
<1> QED
  BY <1>3, <1>5 DEF IdsInv

\* A request goes on without a change to the table, and without the lock of a row
\* unless nobody else has it; a revocation keeps its snapshot, or leaves it to others.
LEMMA SessionsKept ==
  ASSUME AccountsTypeOK, SessionsInv, NEW p \in Procs, Only(p),
         tok' = tok, raced' = raced, doomed' = doomed, spared \subseteq spared',
         budget' \in Nat, budget' <= budget,
         Holds(p)' \subseteq Holds(p) \/ FreeFor(p, Holds(p)'),
         req'[p].step # "rotate",
         req'[p].step \in {"purge", "delete", "held", "shredded", "marked"}
           => \A t \in req'[p].snap : tok[t] # NoToken,
         req'[p].step = "revoke" => req[p].step = "revoke" /\ req'[p].snap = req[p].snap,
         req[p].step = "revoke" /\ req'[p].step # "revoke" =>
           \A t \in req[p].snap :
             t \in spared' \/ \E q \in Procs \ {p} : req[q].step = "revoke" /\ t \in req[q].snap,
         req'[p].step \in CreatorSteps => req[p].step \in CreatorSteps \/ budget' = budget - 1
  PROVE  SessionsInv'
<1>u. Rows' = Rows
  BY DEF Rows
<1>i. IdsInv /\ LocksInv /\ RotateInv /\ FamiliesInv /\ RevokeInv /\ DoomedInv /\ SurvivorNeedsRace
  BY DEF SessionsInv
<1>1. IdsInv'
  BY <1>u, <1>i, IdsKept
<1>2. \A q \in Procs \ {p} : Holds(q)' = Holds(q)
  BY DEF Holds, Only
<1>3. LocksInv'
  <2>1. \A q \in Procs \ {p} : Holds(q) \cap Holds(p)' = {}
    BY <1>i DEF LocksInv, FreeFor
  <2>2. \A q, s \in Procs : q # s => Holds(q)' \cap Holds(s)' = {}
    BY <1>2, <1>i, <2>1 DEF LocksInv
  <2>3. \A q \in Procs : req'[q].step = "rotate" => q # p
    OBVIOUS
  <2> QED
    BY <1>i, <1>u, <2>2, <2>3 DEF LocksInv, Only
<1>4. RotateInv'
  BY <1>u, <1>i DEF RotateInv, Only
<1>5. FamiliesInv'
  BY <1>u, <1>i DEF FamiliesInv, Only
<1>6. RevokeInv'
  BY <1>u, <1>i DEF RevokeInv, Only
<1>7. DoomedInv'
  <2> SUFFICES ASSUME NEW t \in doomed \cap Rows, tok[t].revoked = "no", tok[t].fam \notin raced,
                      t \notin spared'
               PROVE  \E q \in Procs : req'[q].step = "revoke" /\ t \in req'[q].snap
    BY <1>u DEF DoomedInv
  <2>1. PICK q \in Procs : req[q].step = "revoke" /\ t \in req[q].snap
    BY <1>i DEF DoomedInv
  <2>2. CASE q # p
    BY <2>1, <2>2 DEF Only
  <2>3. CASE q = p /\ req'[p].step = "revoke"
    BY <2>1, <2>3
  <2>4. CASE q = p /\ req'[p].step # "revoke"
    BY <2>1, <2>4 DEF Only
  <2> QED
    BY <2>2, <2>3, <2>4
<1>8. SurvivorNeedsRace'
  BY <1>u, <1>i DEF SurvivorNeedsRace, Family
<1> QED
  BY <1>1, <1>3, <1>4, <1>5, <1>6, <1>7, <1>8 DEF SessionsInv

\* What a request holds, by its step.
LEMMA HoldsIs ==
  ASSUME NEW p \in Procs
  PROVE  /\ req[p].step = "rotate" => Holds(p) = {req[p].tok}
         /\ req[p].step \in {"revoke", "purge", "delete"} => Holds(p) = req[p].got
         /\ req[p].step \in {"held", "shredded", "marked"} => Holds(p) = req[p].snap
         /\ req[p].step \in {"idle", "verify", "failed", "passed", "issue", "insert"}
              => Holds(p) = {}
BY DEF Holds, Statements, Erasing

LEMMA WillHold ==
  ASSUME NEW p \in Procs
  PROVE  /\ req'[p].step = "rotate" => Holds(p)' = {req'[p].tok}
         /\ req'[p].step \in {"revoke", "purge", "delete"} => Holds(p)' = req'[p].got
         /\ req'[p].step \in {"held", "shredded", "marked"} => Holds(p)' = req'[p].snap
         /\ req'[p].step \in {"idle", "verify", "failed", "passed", "issue", "insert"}
              => Holds(p)' = {}
BY DEF Holds, Statements, Erasing

\* A revocation starts on a set of rows that holds all of every family it touches.
LEMMA RevocationStarts ==
  ASSUME AccountsTypeOK, SessionsInv, NEW p \in Procs, NEW own, NEW S,
         StartsRevoking(p, own, S), S \subseteq Rows, FreeFor(p, own),
         \A s \in S, t \in Rows : tok[t].fam = tok[s].fam => t \in S
  PROVE  SessionsInv'
<1> DEFINE snap == Unrevoked(S)
           r == [step |-> "revoke", got |-> own, snap |-> snap]
<1>0. /\ Starts(p, r) /\ doomed' = doomed \cup snap /\ tok' = tok /\ raced' = raced
      /\ spared' = spared /\ Rows' = Rows /\ snap \subseteq S
      /\ r.got = own /\ r.snap = snap /\ r.step = "revoke"
  BY DEF StartsRevoking, Unrevoked, Rows
<1>s. \A t \in S : tok[t].revoked = "no" => t \in snap
  BY DEF Unrevoked
<1> HIDE DEF snap, r
<1>m. Only(p) /\ req'[p] = r /\ req[p] = Idle /\ req[p].step = "idle"
  BY <1>0, OneMoves
<1>b. budget' \in Nat /\ budget' <= budget /\ "revoke" \notin CreatorSteps
  BY <1>0 DEF Starts, AccountsTypeOK, CreatorSteps
<1>i. IdsInv /\ LocksInv /\ RotateInv /\ FamiliesInv /\ RevokeInv /\ DoomedInv /\ SurvivorNeedsRace
  BY DEF SessionsInv
<1>1. IdsInv'
  BY <1>0, <1>m, <1>b, <1>i, IdsKept
<1>2. (\A q \in Procs \ {p} : Holds(q)' = Holds(q)) /\ Holds(p)' = own
  <2>1. \A q \in Procs \ {p} : Holds(q)' = Holds(q)
    BY <1>m DEF Holds, Only
  <2> QED
    BY <1>0, <1>m, <2>1, WillHold
<1>3. LocksInv'
  BY <1>0, <1>2, <1>i, <1>m DEF LocksInv, Only, FreeFor
<1>4. RotateInv'
  BY <1>0, <1>i, <1>m DEF RotateInv, Only
<1>5. FamiliesInv'
  <2>1. \A t \in snap : tok[t] # NoToken
    BY <1>0 DEF Rows
  <2> QED
    BY <1>0, <1>i, <1>m, <2>1 DEF FamiliesInv, Only
<1>6. RevokeInv'
  <2>1. \A s \in snap, t \in Rows \ snap :
          tok[t].fam = tok[s].fam /\ tok[t].revoked = "no" => tok[t].fam \in raced
    BY <1>0, <1>s
  <2> QED
    BY <1>0, <1>i, <1>m, <2>1 DEF RevokeInv, Only
<1>7. DoomedInv'
  <2> SUFFICES ASSUME NEW t \in doomed' \cap Rows, tok[t].revoked = "no", tok[t].fam \notin raced,
                      t \notin spared
               PROVE  \E q \in Procs : req'[q].step = "revoke" /\ t \in req'[q].snap
    BY <1>0 DEF DoomedInv
  <2>1. CASE t \in snap
    BY <1>0, <1>m, <2>1
  <2>2. CASE t \in doomed
    BY <1>i, <1>m, <2>2 DEF DoomedInv, Only
  <2> QED
    BY <1>0, <2>1, <2>2
<1>8. SurvivorNeedsRace'
  BY <1>0, <1>i DEF SurvivorNeedsRace, Family
<1> QED
  BY <1>1, <1>3, <1>4, <1>5, <1>6, <1>7, <1>8 DEF SessionsInv

\* A rotation starts on a row that nobody has locked.
LEMMA RotationStarts ==
  ASSUME AccountsTypeOK, SessionsInv, NEW p \in Procs, NEW t \in Rows, NEW b,
         Starts(p, [step |-> "rotate", tok |-> t, unused |-> b]), FreeFor(p, {t}),
         tok[t].revoked = "no", b => tok[t].used = "no", UNCHANGED sessions
  PROVE  SessionsInv'
<1>0. /\ Only(p) /\ req[p].step = "idle" /\ req'[p].step = "rotate"
      /\ req'[p].tok = t /\ (req'[p].unused => b)
  BY OneMoves
<1>b. budget' \in Nat /\ budget' = budget - 1 /\ budget' <= budget
  BY DEF Starts, AccountsTypeOK
<1>u. tok' = tok /\ raced' = raced /\ doomed' = doomed /\ spared' = spared /\ Rows' = Rows
  BY DEF sessions, history, Rows
<1>i. IdsInv /\ LocksInv /\ RotateInv /\ FamiliesInv /\ RevokeInv /\ DoomedInv /\ SurvivorNeedsRace
  BY DEF SessionsInv
<1>1. IdsInv'
  BY <1>0, <1>b, <1>u, <1>i, IdsKept
<1>2. (\A q \in Procs \ {p} : Holds(q)' = Holds(q)) /\ Holds(p)' = {t}
  <2>1. \A q \in Procs \ {p} : Holds(q)' = Holds(q)
    BY <1>0 DEF Holds, Only
  <2> QED
    BY <1>0, <2>1, WillHold
<1>3. LocksInv'
  BY <1>0, <1>2, <1>i, <1>u DEF LocksInv, Only, FreeFor
<1>4. RotateInv'
  BY <1>0, <1>u, <1>i DEF RotateInv, Only
<1>5. FamiliesInv'
  BY <1>0, <1>u, <1>i DEF FamiliesInv, Only
<1>6. RevokeInv'
  BY <1>0, <1>u, <1>i DEF RevokeInv, Only
<1>7. DoomedInv'
  BY <1>0, <1>u, <1>i DEF DoomedInv, Only
<1>8. SurvivorNeedsRace'
  BY <1>u, <1>i DEF SurvivorNeedsRace, Family
<1> QED
  BY <1>1, <1>3, <1>4, <1>5, <1>6, <1>7, <1>8 DEF SessionsInv

\* A statement reaches a row that is free.
LEMMA LockKeeps ==
  ASSUME AccountsTypeOK, SessionsInv, NEW p \in Procs, NEW t \in TokenIds, LocksRow(p, t)
  PROVE  SessionsInv'
<1>1. /\ req[p].step \in {"revoke", "purge", "delete"} /\ FreeFor(p, {t})
      /\ Goes(p, [req[p] EXCEPT !.got = @ \cup {t}]) /\ UNCHANGED sessions
  BY DEF LocksRow, Statements
<1>2. /\ Only(p) /\ req'[p].step = req[p].step /\ req'[p].snap = req[p].snap
      /\ req'[p].got = req[p].got \cup {t}
  <2>1. Only(p) /\ req'[p] = [req[p] EXCEPT !.got = @ \cup {t}] /\ req[p] \in RequestRecords
    BY <1>1, OneMoves DEF AccountsTypeOK
  <2> QED
    BY <1>1, <2>1, GotGrows
<1>3. FreeFor(p, Holds(p)')
  <2>1. Holds(p)' = Holds(p) \cup {t}
    BY <1>1, <1>2, HoldsIs, WillHold
  <2>2. \A q \in Procs \ {p} : Holds(q) \cap Holds(p) = {} /\ Holds(q) \cap {t} = {}
    BY <1>1 DEF SessionsInv, LocksInv, FreeFor
  <2> QED
    BY <2>1, <2>2 DEF FreeFor
<1>4. \A s \in req[p].snap : tok[s] # NoToken
  BY <1>1 DEF SessionsInv, FamiliesInv
<1>5. /\ budget' \in Nat /\ budget' <= budget
      /\ "revoke" \notin CreatorSteps /\ "purge" \notin CreatorSteps /\ "delete" \notin CreatorSteps
  BY <1>1 DEF Goes, AccountsTypeOK, CreatorSteps
<1>6. tok' = tok /\ raced' = raced /\ doomed' = doomed /\ spared' = spared
  BY <1>1 DEF sessions, history
<1> QED
  BY <1>1, <1>2, <1>3, <1>4, <1>5, <1>6, SessionsKept

\* Postgres ends a statement: what a revocation wanted is wanted by another one as
\* well, or is spared.
LEMMA VictimIsCovered ==
  ASSUME AccountsTypeOK, SessionsInv, NEW p \in Procs, DeadlockVictim(p)
  PROVE  SessionsInv'
<1>1. /\ tok' = tok /\ raced' = raced /\ doomed' = doomed /\ spared \subseteq spared'
      /\ req[p].step = "revoke" => spared' = spared \cup (req[p].snap \ WantedByOthers(p))
      /\ Ends(p)
  BY DEF DeadlockVictim
<1>2. Only(p) /\ req'[p].step = "idle" /\ Holds(p)' = {}
  BY <1>1, OneMoves, WillHold
<1>3. budget' \in Nat /\ budget' <= budget /\ "idle" \notin CreatorSteps
  BY <1>1 DEF Ends, Goes, AccountsTypeOK, CreatorSteps
<1>4. ASSUME req[p].step = "revoke", NEW t \in req[p].snap
      PROVE  t \in spared' \/ \E q \in Procs \ {p} : req[q].step = "revoke" /\ t \in req[q].snap
  <2>1. t \in WantedByOthers(p) => \E q \in Procs \ {p} : req[q].step = "revoke" /\ t \in req[q].snap
    BY DEF WantedByOthers
  <2> QED
    BY <1>1, <1>4, <2>1
<1> QED
  BY <1>1, <1>2, <1>3, <1>4, SessionsKept

\* A step that deletes, revokes or ages rows and ends at most one request: the parts
\* of the invariant that it cannot disturb when it spares the rows others have locked.
LEMMA TableChanges ==
  ASSUME AccountsTypeOK, SessionsInv, raced' = raced, doomed' = doomed,
         \A q \in Procs : req'[q] = req[q] \/ req'[q].step = "idle",
         \A t \in TokenIds : tok'[t] = NoToken <=> tok[t] = NoToken,
         \A t \in Rows' : /\ t \in Rows /\ tok'[t].user = tok[t].user /\ tok'[t].fam = tok[t].fam
                          /\ tok'[t].revoked = "no" => tok[t].revoked = "no",
         \A q \in Procs : req'[q].step = "rotate" => req[q].tok \in Rows',
         \A q \in Procs : req'[q].step = "rotate" =>
            /\ tok'[req[q].tok].revoked = tok[req[q].tok].revoked
            /\ tok[req[q].tok].used = "no" => tok'[req[q].tok].used = "no"
  PROVE  LocksInv' /\ RotateInv' /\ FamiliesInv' /\ RevokeInv'
<1>i. LocksInv /\ RotateInv /\ FamiliesInv /\ RevokeInv
  BY DEF SessionsInv
<1>r. \A q \in Procs : req[q] \in RequestRecords
  BY DEF AccountsTypeOK
<1>2. \A q \in Procs : Holds(q)' = Holds(q) \/ Holds(q)' = {}
  BY DEF Holds, Statements, Erasing
<1>3. \A q \in Procs : req'[q].step # "idle" => Holds(q)' = Holds(q) /\ req'[q] = req[q]
  BY DEF Holds
<1>4. LocksInv'
  BY <1>i, <1>2, <1>3 DEF LocksInv
<1>5. RotateInv'
  BY <1>i, <1>3 DEF RotateInv
<1>6. FamiliesInv'
  <2>1. \A q \in Procs : req'[q].step \in {"revoke", "purge", "delete", "held", "shredded", "marked"} =>
          \A t \in req'[q].snap : t \in TokenIds /\ tok[t] # NoToken
    <3> SUFFICES ASSUME NEW q \in Procs, req'[q].step \in {"revoke", "purge", "delete", "held", "shredded", "marked"}
                 PROVE  \A t \in req'[q].snap : t \in TokenIds /\ tok[t] # NoToken
      OBVIOUS
    <3>1. req'[q] = req[q]
      BY <1>3
    <3>2. req[q].snap \in SUBSET TokenIds
      BY <1>r, <3>1, RequestFields
    <3> QED
      BY <1>i, <3>1, <3>2 DEF FamiliesInv
  <2>2. \A t \in doomed : t \in TokenIds /\ tok[t] # NoToken
    BY <1>i DEF FamiliesInv, AccountsTypeOK
  <2>3. \A t \in Rows : tok[t].fam \in TokenIds
    BY RowsAreRecords DEF AccountsTypeOK, TokenRecords
  <2>4. \A t \in Rows' : tok'[tok'[t].fam] # NoToken
    BY <1>i, <2>3 DEF FamiliesInv
  <2>5. \A s, t \in Rows' : tok'[s].fam = tok'[t].fam => tok'[s].user = tok'[t].user
    BY <1>i DEF FamiliesInv
  <2> QED
    BY <2>1, <2>2, <2>4, <2>5 DEF FamiliesInv
<1>7. RevokeInv'
  BY <1>i, <1>3 DEF RevokeInv
<1> QED
  BY <1>4, <1>5, <1>6, <1>7

\* A step that leaves revocations as they are.
LEMMA RevocationsKept ==
  ASSUME SessionsInv, raced' = raced, doomed' = doomed, spared' = spared,
         \A q \in Procs : req[q].step = "revoke" => req'[q] = req[q],
         \A t \in Rows' : t \in Rows /\ tok'[t].fam = tok[t].fam
                            /\ (tok'[t].revoked = "no" <=> tok[t].revoked = "no")
  PROVE  DoomedInv' /\ SurvivorNeedsRace'
<1>i. DoomedInv /\ SurvivorNeedsRace
  BY DEF SessionsInv
<1>2. DoomedInv'
  BY <1>i DEF DoomedInv
<1>3. SurvivorNeedsRace'
  BY <1>i DEF SurvivorNeedsRace, Family
<1> QED
  BY <1>2, <1>3

\* revoke_family, revoke_all_for_user.
LEMMA RevokeLands ==
  ASSUME AccountsTypeOK, AccountsTypeOK', SessionsInv, NEW p \in Procs, Revoke(p)
  PROVE  SessionsInv'
<1> DEFINE snap == req[p].snap
<1>0. /\ req[p].step = "revoke" /\ FreeFor(p, snap) /\ Only(p) /\ req'[p].step = "idle"
      /\ raced' = raced /\ doomed' = doomed /\ spared' = spared /\ budget' = budget
  BY OneMoves DEF Revoke, Ends, Goes, history
<1>1. \A t \in TokenIds :
        tok'[t] = IF t \in Rows \cap snap /\ tok[t].revoked = "no"
                    THEN [tok[t] EXCEPT !.revoked = "yes"] ELSE tok[t]
  BY DEF Revoke
<1>i. DoomedInv /\ SurvivorNeedsRace /\ RevokeInv /\ LocksInv /\ IdsInv
  BY DEF SessionsInv
<1>r. /\ Rows \subseteq TokenIds /\ Rows' \subseteq TokenIds /\ NoToken # Deleted
      /\ \A t \in TokenIds : t \in Rows <=> tok[t] \in TokenRecords
      /\ \A t \in TokenIds : t \in Rows' <=> tok'[t] \in TokenRecords
  BY RecordsDiffer DEF AccountsTypeOK, Rows
<1>e. ASSUME NEW r \in TokenRecords
      PROVE  LET x == [r EXCEPT !.revoked = "yes"]
             IN x \in TokenRecords /\ x.user = r.user /\ x.fam = r.fam /\ x.used = r.used
                  /\ x.revoked = "yes"
  BY DEF TokenRecords
<1>2. ASSUME NEW t \in Rows
      PROVE  /\ t \in Rows' /\ tok'[t].user = tok[t].user /\ tok'[t].fam = tok[t].fam
             /\ tok'[t].used = tok[t].used
             /\ tok'[t].revoked = IF t \in snap /\ tok[t].revoked = "no" THEN "yes"
                                  ELSE tok[t].revoked
  <2>1. CASE t \in snap /\ tok[t].revoked = "no"
    <3>1. tok'[t] = [tok[t] EXCEPT !.revoked = "yes"] /\ tok[t] \in TokenRecords
      BY <1>1, <1>r, <2>1
    <3> QED
      BY <1>r, <1>e, <2>1, <3>1, Zenon
  <2>2. CASE ~(t \in snap /\ tok[t].revoked = "no")
    BY <1>1, <1>r, <2>2
  <2> QED
    BY <2>1, <2>2
<1>3. \A t \in TokenIds \ Rows : tok'[t] = tok[t] /\ t \notin Rows'
  BY <1>1, <1>r
<1>4. Rows' = Rows /\ \A t \in TokenIds : tok'[t] = NoToken <=> tok[t] = NoToken
  BY <1>2, <1>3, <1>r DEF Rows
<1>5. \A q \in Procs : req'[q].step = "rotate" =>
        req'[q] = req[q] /\ q # p /\ req[q].tok \in Rows
  BY <1>0, <1>i DEF LocksInv, Only
<1>6. \A q \in Procs : req'[q].step = "rotate" => req[q].tok \in Rows \ snap
  BY <1>0, <1>5, HoldsIs DEF FreeFor
<1>7. IdsInv' /\ LocksInv' /\ RotateInv' /\ FamiliesInv' /\ RevokeInv'
  <2>1. \A q \in Procs : req'[q] = req[q] \/ req'[q].step = "idle"
    BY <1>0 DEF Only
  <2>2. budget' \in Nat /\ budget' <= budget /\ "idle" \notin CreatorSteps
    BY <1>0 DEF AccountsTypeOK, CreatorSteps
  <2> QED
    BY <1>0, <1>2, <1>4, <1>5, <1>6, <1>i, <2>1, <2>2, TableChanges, IdsKept
<1>8. DoomedInv'
  <2> SUFFICES ASSUME NEW t \in doomed \cap Rows, tok'[t].revoked = "no", tok'[t].fam \notin raced,
                      t \notin spared
               PROVE  \E q \in Procs : req'[q].step = "revoke" /\ t \in req'[q].snap
    BY <1>0, <1>4 DEF DoomedInv
  <2>1. t \notin snap /\ tok[t].revoked = "no" /\ tok[t].fam \notin raced
    BY <1>2
  <2>2. PICK q \in Procs : req[q].step = "revoke" /\ t \in req[q].snap
    BY <1>i, <2>1 DEF DoomedInv
  <2> QED
    BY <1>0, <2>1, <2>2 DEF Only
<1>9. SurvivorNeedsRace'
  <2> SUFFICES ASSUME NEW t \in Rows, tok'[t].revoked = "no", NEW s \in Rows,
                      tok'[s].fam = tok'[t].fam, tok'[s].revoked # "no"
               PROVE  tok'[t].fam \in raced
    BY <1>0, <1>4 DEF SurvivorNeedsRace, Family
  <2>1. t \notin snap /\ tok[t].revoked = "no" /\ tok[s].fam = tok[t].fam /\ tok'[t].fam = tok[t].fam
    BY <1>2
  <2>2. CASE s \in snap
    BY <1>0, <1>i, <2>1, <2>2 DEF RevokeInv
  <2>3. CASE s \notin snap
    BY <1>2, <1>i, <2>1, <2>3 DEF SurvivorNeedsRace, Family
  <2> QED
    BY <2>2, <2>3
<1> QED
  BY <1>7, <1>8, <1>9 DEF SessionsInv

\* DELETE takes rows away that no other request has locked.
LEMMA RowsGo ==
  ASSUME AccountsTypeOK, AccountsTypeOK', SessionsInv, NEW p \in Procs, Only(p),
         req[p].step \notin {"rotate", "revoke"}, req'[p].step = "idle",
         budget' = budget, raced' = raced, doomed' = doomed, spared' = spared,
         NEW S \in SUBSET TokenIds, tok' = Without(S), \A t \in S : tok[t] # NoToken,
         \A q \in Procs \ {p} : Holds(q) \cap S = {}
  PROVE  SessionsInv'
<1>i. IdsInv /\ LocksInv /\ RotateInv
  BY DEF SessionsInv
<1>1. \A t \in TokenIds : tok'[t] = IF t \in S THEN Deleted ELSE tok[t]
  BY DEF Without
<1>2. /\ Rows' = Rows \ S /\ \A t \in Rows' : tok'[t] = tok[t]
      /\ \A t \in TokenIds : tok'[t] = NoToken <=> tok[t] = NoToken
  BY <1>1, RecordsDiffer DEF Rows
<1>3. \A q \in Procs : req'[q].step = "rotate" => q # p /\ req[q].tok \in Rows'
  BY <1>2, <1>i, HoldsIs DEF LocksInv, Only
<1>4. \A q \in Procs : req'[q].step = "rotate" => tok'[req[q].tok] = tok[req[q].tok]
  <2> SUFFICES ASSUME NEW q \in Procs, req'[q].step = "rotate"
               PROVE  tok'[req[q].tok] = tok[req[q].tok]
    OBVIOUS
  <2>1. req[q].step = "rotate" /\ req[q].tok \in Rows'
    BY <1>3 DEF Only
  <2> QED
    BY <1>2, <2>1
<1>5. IdsInv'
  <2>1. budget' \in Nat /\ budget' <= budget /\ "idle" \notin CreatorSteps
    BY DEF AccountsTypeOK, CreatorSteps
  <2> QED
    BY <1>i, <1>2, <2>1, IdsKept
<1>6. LocksInv' /\ RotateInv' /\ FamiliesInv' /\ RevokeInv'
  <2>1. \A q \in Procs : req'[q] = req[q] \/ req'[q].step = "idle"
    BY DEF Only
  <2> QED
    BY <1>2, <1>3, <1>4, <2>1, TableChanges
<1>7. DoomedInv' /\ SurvivorNeedsRace'
  <2>1. \A q \in Procs : req[q].step = "revoke" => req'[q] = req[q]
    BY DEF Only
  <2> QED
    BY <1>2, <2>1, RevocationsKept
<1> QED
  BY <1>5, <1>6, <1>7 DEF SessionsInv

\* Time changes rows in fields that no running request relies on.
LEMMA RowsAge ==
  ASSUME AccountsTypeOK, SessionsInv, UNCHANGED <<requests, history>>,
         Rows' = Rows, \A t \in TokenIds : tok'[t] = NoToken <=> tok[t] = NoToken,
         \A t \in Rows : /\ tok'[t].user = tok[t].user /\ tok'[t].fam = tok[t].fam
                         /\ tok'[t].revoked = "no" <=> tok[t].revoked = "no"
                         /\ tok[t].used = "no" => tok'[t].used = "no"
  PROVE  SessionsInv'
<1>i. IdsInv /\ LocksInv /\ RotateInv
  BY DEF SessionsInv
<1>u. req' = req /\ budget' = budget /\ raced' = raced /\ doomed' = doomed /\ spared' = spared
  BY DEF requests, history
<1>1. IdsInv'
  <2>1. Creators' = Creators
    BY <1>u DEF Creators
  <2> QED
    BY <1>i, <1>u, <2>1 DEF IdsInv
<1>2. \A q \in Procs : req[q].step = "rotate" => req[q].tok \in Rows
  BY <1>i DEF LocksInv
<1>3. \A q \in Procs : req[q].step = "rotate" =>
        req[q].tok \in Rows /\ tok[req[q].tok].revoked = "no"
  BY <1>2, <1>i DEF RotateInv
<1>4. LocksInv' /\ RotateInv' /\ FamiliesInv' /\ RevokeInv'
  BY <1>2, <1>3, <1>u, TableChanges
<1>5. DoomedInv' /\ SurvivorNeedsRace'
  BY <1>u, RevocationsKept
<1> QED
  BY <1>1, <1>4, <1>5 DEF SessionsInv

\* A login or a rotation inserts a row: it founds a family, or it joins that of a row
\* that is not revoked, and a revocation that is under way there counts as raced.
LEMMA RowInserted ==
  ASSUME AccountsTypeOK, SessionsInv, NEW p \in Procs, Only(p),
         req[p].step \in {"issue", "rotate"}, req'[p].step = "idle",
         budget' = budget, doomed' = doomed, spared' = spared, raced \subseteq raced',
         NEW c, c = NextId, tok'[c] \in TokenRecords, tok'[c].revoked = "no",
         \/ tok'[c].fam = c
         \/ \E t \in Rows : /\ tok[t].fam = tok'[c].fam /\ tok[t].user = tok'[c].user
                            /\ tok[t].revoked = "no",
         \A s \in TokenIds \ {c} : /\ tok'[s] = NoToken <=> tok[s] = NoToken
                                   /\ s \in Rows' <=> s \in Rows,
         \A s \in Rows : /\ tok'[s].user = tok[s].user /\ tok'[s].fam = tok[s].fam
                         /\ tok'[s].revoked = tok[s].revoked
                         /\ (req[p].step = "rotate" /\ s = req[p].tok) \/ tok'[s].used = tok[s].used,
         \A q \in Procs : req[q].step = "revoke" /\ req[q].snap \cap Family(tok'[c].fam) # {}
                            => tok'[c].fam \in raced'
  PROVE  SessionsInv'
<1>i. IdsInv /\ LocksInv /\ RotateInv /\ FamiliesInv /\ RevokeInv /\ DoomedInv /\ SurvivorNeedsRace
  BY DEF SessionsInv
<1>s. {"issue", "rotate"} \subseteq CreatorSteps /\ "idle" \notin CreatorSteps
  BY DEF CreatorSteps
<1>c. c \in TokenIds /\ tok[c] = NoToken /\ tok'[c] # NoToken /\ tok'[c] # Deleted
  BY <1>i, <1>s, IdIsFree, RecordsDiffer
<1>r. Rows' = Rows \cup {c} /\ c \notin Rows /\ Rows \subseteq TokenIds
  BY <1>c DEF Rows
<1>f. \A t \in Rows : tok[t].fam \in TokenIds /\ tok[t].fam # c
  <2>1. \A t \in Rows : tok[t].fam \in TokenIds
    BY RowsAreRecords DEF AccountsTypeOK, TokenRecords
  <2> QED
    BY <1>c, <1>i, <2>1 DEF FamiliesInv
<1>q. \A q \in Procs : req'[q].step # "idle" => q # p /\ req'[q] = req[q] /\ Holds(q)' = Holds(q)
  BY DEF Only, Holds
<1>t. ASSUME NEW q \in Procs, req[q].step \in {"revoke", "purge", "delete", "held", "shredded", "marked"}
      PROVE  req[q].snap \subseteq TokenIds /\ c \notin req[q].snap
  <2>1. req[q].snap \in SUBSET TokenIds
    BY <1>t, RequestFields DEF AccountsTypeOK
  <2> QED
    BY <1>c, <1>i, <1>t, <2>1 DEF FamiliesInv
<1>1. IdsInv'
  <2>1. \A s \in TokenIds \ {NextId} : tok'[s] = NoToken <=> tok[s] = NoToken
    OBVIOUS
  <2> QED
    BY <1>c, <1>i, <1>s, <2>1, IdsInserted
<1>2. LocksInv'
  <2>1. Holds(p)' = {} /\ \A q \in Procs \ {p} : Holds(q)' = Holds(q)
    BY <1>q, WillHold DEF Holds, Only
  <2> QED
    BY <1>i, <1>q, <1>r, <2>1 DEF LocksInv
<1>3. RotateInv'
  <2> SUFFICES ASSUME NEW q \in Procs, req'[q].step = "rotate"
               PROVE  /\ tok'[req[q].tok].revoked = "no"
                      /\ req[q].unused => tok'[req[q].tok].used = "no"
    BY <1>q DEF RotateInv
  <2>1. req[q].step = "rotate" /\ q # p /\ Holds(q) = {req[q].tok}
    BY <1>q, HoldsIs
  <2>2. req[q].tok \in Rows /\ Holds(p) \cap Holds(q) = {}
    BY <1>i, <2>1 DEF LocksInv
  <2>3. req[p].step = "rotate" => Holds(p) = {req[p].tok}
    BY HoldsIs
  <2> QED
    BY <1>i, <2>1, <2>2, <2>3 DEF RotateInv
<1>4. FamiliesInv'
  <2>1. ASSUME NEW q \in Procs, req'[q].step \in {"revoke", "purge", "delete", "held", "shredded", "marked"}
        PROVE  \A t \in req'[q].snap : tok'[t] # NoToken
    <3>1. req'[q] = req[q]
      BY <1>q, <2>1
    <3> QED
      BY <1>i, <1>t, <2>1, <3>1 DEF FamiliesInv
  <2>2. \A t \in doomed : tok'[t] # NoToken
    BY <1>c, <1>i DEF FamiliesInv, AccountsTypeOK
  <2>3. \A t \in Rows' : tok'[tok'[t].fam] # NoToken
    BY <1>c, <1>f, <1>i, <1>r DEF FamiliesInv
  <2>4. \A s \in Rows : tok[s].fam = tok'[c].fam => tok[s].user = tok'[c].user
    BY <1>f, <1>i DEF FamiliesInv
  <2>5. \A s, t \in Rows' : tok'[s].fam = tok'[t].fam => tok'[s].user = tok'[t].user
    BY <1>i, <1>r, <2>4 DEF FamiliesInv
  <2> QED
    BY <2>1, <2>2, <2>3, <2>5 DEF FamiliesInv
<1>5. RevokeInv'
  <2> SUFFICES ASSUME NEW q \in Procs, req'[q].step = "revoke", NEW s \in req[q].snap \cap Rows',
                      NEW t \in Rows' \ req[q].snap,
                      tok'[t].fam = tok'[s].fam, tok'[t].revoked = "no"
               PROVE  tok'[t].fam \in raced'
    BY <1>q DEF RevokeInv
  <2>1. req[q].step = "revoke"
    BY <1>q
  <2>2. s \in Rows
    BY <1>r, <1>t, <2>1
  <2>3. tok'[c].fam = tok[s].fam => tok'[c].fam \in raced'
    BY <2>1, <2>2 DEF Family
  <2> QED
    BY <1>i, <1>r, <2>1, <2>2, <2>3 DEF RevokeInv
<1>6. DoomedInv'
  <2>1. \A q \in Procs : req[q].step = "revoke" => req'[q] = req[q]
    BY DEF Only
  <2>2. c \notin doomed
    BY <1>c, <1>i DEF FamiliesInv
  <2> QED
    BY <1>i, <1>r, <2>1, <2>2 DEF DoomedInv
<1>7. SurvivorNeedsRace'
  <2> SUFFICES ASSUME NEW t \in Rows', tok'[t].revoked = "no", NEW s \in Rows',
                      tok'[s].fam = tok'[t].fam, tok'[s].revoked # "no"
               PROVE  tok'[t].fam \in raced'
    BY DEF SurvivorNeedsRace, Family
  <2>1. s \in Rows /\ tok[s].revoked # "no" /\ tok[s].fam = tok'[t].fam
    BY <1>r
  <2>2. PICK w \in Rows : tok[w].fam = tok'[t].fam /\ tok[w].revoked = "no"
    BY <1>f, <1>r, <2>1
  <2> QED
    BY <1>i, <2>1, <2>2 DEF SurvivorNeedsRace, Family
<1> QED
  BY <1>1, <1>2, <1>3, <1>4, <1>5, <1>6, <1>7 DEF SessionsInv

\* What issue_refresh_token inserts is a row, not revoked.
LEMMA FreshIsRow ==
  ASSUME NEW u \in Users, NEW f \in TokenIds, NEW parent \in {0} \cup TokenIds
  PROVE  /\ Fresh(u, f, parent) \in TokenRecords /\ Fresh(u, f, parent).user = u
         /\ Fresh(u, f, parent).fam = f /\ Fresh(u, f, parent).used = "no"
         /\ Fresh(u, f, parent).revoked = "no"
BY DEF Fresh, TokenRecords

\* Rows, and rows after a field of theirs has changed.
LEMMA FieldsOf ==
  ASSUME NEW r \in TokenRecords
  PROVE  r.user \in Users /\ r.fam \in TokenIds /\ r.used \in {"no", "fresh", "stale"}
BY DEF TokenRecords

LEMMA UsedChanges ==
  ASSUME NEW r \in TokenRecords, NEW v \in {"no", "fresh", "stale"}, NEW x,
         x = [r EXCEPT !.used = v]
  PROVE  x \in TokenRecords /\ x.user = r.user /\ x.fam = r.fam /\ x.revoked = r.revoked
           /\ x.used = v
BY DEF TokenRecords

LEMMA RevokedChanges ==
  ASSUME NEW r \in TokenRecords, NEW v \in {"no", "yes", "old"}, NEW x,
         x = [r EXCEPT !.revoked = v]
  PROVE  x \in TokenRecords /\ x.user = r.user /\ x.fam = r.fam /\ x.revoked = v
           /\ x.used = r.used
BY DEF TokenRecords

LEMMA DeadChanges ==
  ASSUME NEW r \in TokenRecords, NEW x, x = [r EXCEPT !.dead = TRUE]
  PROVE  x \in TokenRecords /\ x.user = r.user /\ x.fam = r.fam /\ x.revoked = r.revoked
           /\ x.used = r.used
BY DEF TokenRecords

\* What time does to a row.
LEMMA TimeChanges ==
  ASSUME tok \in [TokenIds -> {NoToken, Deleted} \cup TokenRecords], NEW t \in TokenIds,
         GraceEnds(t) \/ FamilyExpires(t) \/ RevocationAges(t)
  PROVE  \A s \in TokenIds :
           \/ tok'[s] = tok[s]
           \/ s \in Rows /\ \/ tok'[s] = [tok[s] EXCEPT !.used = "stale"] /\ tok[s].used = "fresh"
                            \/ tok'[s] = [tok[s] EXCEPT !.dead = TRUE]
                            \/ tok'[s] = [tok[s] EXCEPT !.revoked = "old"] /\ tok[s].revoked = "yes"
<1>1. CASE GraceEnds(t)
  BY <1>1 DEF GraceEnds
<1>2. CASE FamilyExpires(t)
  BY <1>2 DEF FamilyExpires, Family
<1>3. CASE RevocationAges(t)
  BY <1>3 DEF RevocationAges, Family
<1> QED
  BY <1>1, <1>2, <1>3

\* The two rows that a rotation writes.
LEMMA RotateWrites ==
  ASSUME AccountsTypeOK, SessionsInv, NEW p \in Procs, Rotate(p), NEW t, t = req[p].tok
  PROVE  /\ t \in Rows /\ tok[t] \in TokenRecords /\ tok[t].revoked = "no"
         /\ NextId \in TokenIds /\ tok[NextId] = NoToken /\ t # NextId
         /\ tok' \in [TokenIds -> {NoToken, Deleted} \cup TokenRecords]
         /\ tok'[NextId] = Fresh(tok[t].user, tok[t].fam, t)
         /\ tok'[NextId] \in TokenRecords
         /\ tok'[t] \in TokenRecords /\ tok'[t].user = tok[t].user /\ tok'[t].fam = tok[t].fam
         /\ tok'[t].revoked = tok[t].revoked
         /\ tok'[t].used = IF req[p].unused THEN "fresh" ELSE tok[t].used
         /\ \A s \in TokenIds \ {t, NextId} : tok'[s] = tok[s]
<1> DEFINE used == IF req[p].unused THEN "fresh" ELSE tok[t].used
           row == [tok[t] EXCEPT !.used = used]
           new == Fresh(tok[t].user, tok[t].fam, t)
<1>1. req[p].step = "rotate" /\ tok' = [[tok EXCEPT ![t] = row] EXCEPT ![NextId] = new]
  BY DEF Rotate
<1>2. t \in Rows /\ tok[t].revoked = "no"
  BY <1>1 DEF SessionsInv, LocksInv, RotateInv
<1>3. NextId \in TokenIds /\ tok[NextId] = NoToken
  BY <1>1, IdIsFree DEF SessionsInv, CreatorSteps
<1>4. t \in TokenIds /\ tok[t] \in TokenRecords /\ t # NextId
  BY <1>2, <1>3, RowsAreRecords, RecordsDiffer DEF AccountsTypeOK
<1>5. /\ row \in TokenRecords /\ row.user = tok[t].user /\ row.fam = tok[t].fam
      /\ row.revoked = tok[t].revoked /\ row.used = used
  <2>1. used \in {"no", "fresh", "stale"}
    BY <1>4, FieldsOf
  <2> HIDE DEF used
  <2> QED
    BY <1>4, <2>1, UsedChanges
<1>6. new \in TokenRecords
  <2>1. tok[t].user \in Users /\ tok[t].fam \in TokenIds /\ t \in {0} \cup TokenIds
    BY <1>4, FieldsOf
  <2> QED
    BY <2>1, FreshIsRow, Zenon
<1> HIDE DEF row, new
<1>7. tok' \in [TokenIds -> {NoToken, Deleted} \cup TokenRecords]
  BY <1>1, <1>3, <1>4, <1>5, <1>6 DEF AccountsTypeOK
<1>8. tok'[NextId] = new /\ tok'[t] = row /\ \A s \in TokenIds \ {t, NextId} : tok'[s] = tok[s]
  BY <1>1, <1>3, <1>4 DEF AccountsTypeOK
<1> QED
  BY <1>2, <1>3, <1>4, <1>5, <1>6, <1>7, <1>8 DEF new

\* The row of a login.
LEMMA LoginWrites ==
  ASSUME AccountsTypeOK, SessionsInv, NEW p \in Procs, LoginIssues(p)
  PROVE  /\ NextId \in TokenIds /\ tok[NextId] = NoToken
         /\ tok' \in [TokenIds -> {NoToken, Deleted} \cup TokenRecords]
         /\ tok'[NextId] = Fresh(req[p].user, NextId, 0) /\ tok'[NextId] \in TokenRecords
         /\ \A s \in TokenIds \ {NextId} : tok'[s] = tok[s]
<1> DEFINE new == Fresh(req[p].user, NextId, 0)
<1>1. req[p].step = "issue" /\ tok' = [tok EXCEPT ![NextId] = new]
  BY DEF LoginIssues
<1>2. NextId \in TokenIds /\ tok[NextId] = NoToken
  BY <1>1, IdIsFree DEF SessionsInv, CreatorSteps
<1>3. req[p].user \in Users
  BY <1>1, RequestFields DEF AccountsTypeOK
<1>4. new \in TokenRecords
  BY <1>2, <1>3, FreshIsRow
<1> HIDE DEF new
<1>5. tok' \in [TokenIds -> {NoToken, Deleted} \cup TokenRecords] /\ tok'[NextId] = new
      /\ \A s \in TokenIds \ {NextId} : tok'[s] = tok[s]
  BY <1>1, <1>2, <1>4 DEF AccountsTypeOK
<1> QED
  BY <1>2, <1>4, <1>5 DEF new

-----------------------------------------------------------------------------
(* Types.                                                                  *)

\* The parts of the state that one component of the system changes at a time.
RequestsTypeOK == req \in [Procs -> RequestRecords] /\ budget \in Nat
SessionsTypeOK ==
  /\ tok \in [TokenIds -> {NoToken, Deleted} \cup TokenRecords]
  /\ raced \subseteq TokenIds /\ doomed \subseteq TokenIds /\ spared \subseteq TokenIds
VaultTypeOK ==
  /\ info \in [Users -> {NoInfo} \cup InfoRecords]
  /\ ring \in [Tasks -> {"old", "new"}] /\ retired \in BOOLEAN
  /\ round \in [on : BOOLEAN, unknown : SUBSET {1, 2}]

LEMMA RequestTyped ==
  ASSUME RequestsTypeOK, NEW p \in Procs, NEW r \in RequestRecords, Goes(p, r) \/ Starts(p, r)
  PROVE  RequestsTypeOK'
BY DEF RequestsTypeOK, Goes, Starts

\* A revocation starts, whichever call it comes from.
LEMMA RevocationTyped ==
  ASSUME AccountsTypeOK, NEW p \in Procs, NEW own \in SUBSET TokenIds, NEW S \in SUBSET TokenIds,
         StartsRevoking(p, own, S)
  PROVE  RequestsTypeOK' /\ SessionsTypeOK'
<1>1. Unrevoked(S) \in SUBSET TokenIds
  BY DEF Unrevoked
<1>2. [step |-> "revoke", got |-> own, snap |-> Unrevoked(S)] \in RequestRecords
  BY <1>1 DEF RequestRecords
<1> QED
  BY <1>1, <1>2, RequestTyped DEF StartsRevoking, AccountsTypeOK, RequestsTypeOK, SessionsTypeOK

LEMMA RewrapTyped == VaultTypeOK /\ RewrapBatch => VaultTypeOK'
<1> SUFFICES ASSUME VaultTypeOK, RewrapBatch PROVE VaultTypeOK'
  OBVIOUS
<1>1. PICK S \in Batches : Rewrap(S)
  BY DEF RewrapBatch
<1> DEFINE known == {u \in S : info[u].kek \in Keyring(Worker)}
           v == Active(Worker)
<1>2. S \subseteq Users /\ \A u \in S : info[u] \in InfoRecords
  BY DEF Batches, Wanted, Registered, VaultTypeOK
<1>3. v \in {1, 2}
  BY DEF Active
<1> HIDE DEF v
<1>4. ASSUME NEW r \in InfoRecords
      PROVE  r.kek \in {1, 2} /\ [r EXCEPT !.kek = v, !.wrapped = v] \in InfoRecords
  BY <1>3 DEF InfoRecords
<1>5. info' = [u \in Users |-> IF u \in known
                                THEN [info[u] EXCEPT !.kek = v, !.wrapped = v] ELSE info[u]]
  BY <1>1 DEF Rewrap, v
<1>6. \A u \in Users : info'[u] \in {NoInfo} \cup InfoRecords
  BY <1>2, <1>4, <1>5 DEF VaultTypeOK
<1>7. {info[u].kek : u \in S \ known} \subseteq {1, 2}
  BY <1>2, <1>4
<1>8. round' \in [on : BOOLEAN, unknown : SUBSET {1, 2}]
  <2> DEFINE K == {info[u].kek : u \in S \ known}
  <2>1. round' = Rest \/ round' = [round EXCEPT !.unknown = @ \cup K]
    BY <1>1 DEF Rewrap
  <2>2. K \subseteq {1, 2}
    BY <1>7
  <2> HIDE DEF K
  <2>3. round.unknown \cup K \in SUBSET {1, 2} /\ round.on \in BOOLEAN
    BY <2>2 DEF VaultTypeOK
  <2>4. ASSUME NEW U \in SUBSET {1, 2}
        PROVE  [round EXCEPT !.unknown = U] \in [on : BOOLEAN, unknown : SUBSET {1, 2}]
    BY DEF VaultTypeOK
  <2>5. Rest \in [on : BOOLEAN, unknown : SUBSET {1, 2}]
    BY DEF Rest
  <2> QED
    BY <2>1, <2>3, <2>4, <2>5
<1> QED
  BY <1>5, <1>6, <1>8 DEF VaultTypeOK, RewrapBatch

LEMMA AccountsTypeNext == AccountsTypeOK /\ SessionsInv /\ [Next]_vars => AccountsTypeOK'
<1> SUFFICES ASSUME AccountsTypeOK, SessionsInv, [Next]_vars PROVE AccountsTypeOK'
  OBVIOUS
<1>t. /\ RequestsTypeOK /\ SessionsTypeOK /\ VaultTypeOK
      /\ user \in [Users -> {"active", "erased"}]
      /\ fails \in [Users -> Nat] /\ guesses \in [Users -> Nat] /\ late \subseteq Users
  BY DEF AccountsTypeOK, RequestsTypeOK, SessionsTypeOK, VaultTypeOK
<1>q. /\ RequestsTypeOK' /\ SessionsTypeOK' /\ VaultTypeOK'
      /\ user' \in [Users -> {"active", "erased"}]
      /\ fails' \in [Users -> Nat] /\ guesses' \in [Users -> Nat] /\ late' \subseteq Users
      => AccountsTypeOK'
  BY DEF AccountsTypeOK, RequestsTypeOK, SessionsTypeOK, VaultTypeOK
<1>r. \A p \in Procs : req[p] \in RequestRecords
  BY DEF AccountsTypeOK
<1>i. Idle \in RequestRecords
  BY DEF RequestRecords
<1>k. /\ UNCHANGED requests => RequestsTypeOK'
      /\ UNCHANGED sessions => SessionsTypeOK'
      /\ UNCHANGED vault => VaultTypeOK'
      /\ UNCHANGED guard => fails' \in [Users -> Nat] /\ guesses' \in [Users -> Nat]
      /\ UNCHANGED user => user' \in [Users -> {"active", "erased"}]
      /\ UNCHANGED late => late' \subseteq Users
  BY <1>t DEF requests, sessions, history, vault, guard, RequestsTypeOK, SessionsTypeOK, VaultTypeOK
<1>1. ASSUME NEW p \in Procs, NEW u \in Visitors, LoginPeeks(p, u) PROVE AccountsTypeOK'
  <2>1. [step |-> "verify", user |-> u] \in RequestRecords
    BY AccountsAssumption DEF RequestRecords
  <2> QED
    BY <1>1, <1>t, <1>q, <1>k, <2>1, RequestTyped DEF LoginPeeks
<1>2. ASSUME NEW p \in Procs, LoginVerifies(p) PROVE AccountsTypeOK'
  <2>1. PICK u \in Users : req[p].user = u
    BY <1>2, <1>r, RequestFields DEF LoginVerifies
  <2>2. \A s \in {"passed", "failed"} : [step |-> s, user |-> u] \in RequestRecords
    BY DEF RequestRecords
  <2>3. RequestsTypeOK'
    BY <1>2, <1>t, <2>1, <2>2, RequestTyped DEF LoginVerifies
  <2>4. fails' \in [Users -> Nat] /\ guesses' \in [Users -> Nat]
    BY <1>2, <1>t, <2>1 DEF LoginVerifies, Guess, guard
  <2> QED
    BY <1>2, <1>q, <1>k, <2>3, <2>4 DEF LoginVerifies
<1>3. ASSUME NEW p \in Procs, LoginFails(p) PROVE AccountsTypeOK'
  <2>1. fails' \in [Users -> Nat] /\ guesses' \in [Users -> Nat]
    <3>1. PICK u \in Users : req[p].user = u
      BY <1>3, <1>r, RequestFields DEF LoginFails
    <3> QED
      BY <1>3, <1>t, <3>1 DEF LoginFails, Hit
  <2> QED
    BY <1>3, <1>t, <1>q, <1>k, <1>i, <2>1, RequestTyped DEF LoginFails, Ends
<1>4. ASSUME NEW p \in Procs, LoginClears(p) PROVE AccountsTypeOK'
  <2>1. fails' \in [Users -> Nat] /\ guesses' \in [Users -> Nat]
    BY <1>4, <1>t DEF LoginClears, Clear
  <2>2. PICK u \in Users : req[p].user = u
    BY <1>4, <1>r, RequestFields DEF LoginClears
  <2>3. [step |-> "issue", user |-> u] \in RequestRecords
    BY DEF RequestRecords
  <2> QED
    BY <1>4, <1>t, <1>q, <1>k, <2>1, <2>2, <2>3, RequestTyped DEF LoginClears
<1>5. ASSUME NEW p \in Procs, LoginIssues(p) PROVE AccountsTypeOK'
  <2>1. SessionsTypeOK'
    BY <1>5, <1>t, LoginWrites DEF SessionsTypeOK, LoginIssues, history
  <2> QED
    BY <1>5, <1>t, <1>q, <1>k, <1>i, <2>1, RequestTyped DEF LoginIssues, Ends
<1>6. ASSUME NEW p \in Procs, RegisterCommits(p) PROVE AccountsTypeOK'
  <2>1. PICK u \in Users, n \in NationalIds : req[p].user = u /\ req[p].nid = n
    BY <1>6, <1>r, RequestFields DEF RegisterCommits
  <2>2. Envelope(p, n) \in InfoRecords
    BY DEF Envelope, Active, InfoRecords
  <2>3. info' \in [Users -> {NoInfo} \cup InfoRecords]
    BY <1>6, <1>t, <2>1, <2>2 DEF RegisterCommits, InsertInfo, VaultTypeOK
  <2>4. VaultTypeOK'
    BY <1>6, <1>t, <2>3 DEF RegisterCommits, VaultTypeOK
  <2> QED
    BY <1>6, <1>t, <1>q, <1>k, <1>i, <2>4, RequestTyped DEF RegisterCommits, Ends
<1>7. ASSUME NEW p \in Procs, EraseDeletes(p) \/ EraseShreds(p) \/ EraseMarks(p)
      PROVE  AccountsTypeOK'
  <2>1. UNCHANGED <<user, guard, sessions, vault, late>>
    BY <1>7 DEF EraseDeletes, EraseShreds, EraseMarks
  <2>2. ASSUME NEW r \in RequestRecords, Goes(p, r) PROVE AccountsTypeOK'
    BY <1>t, <1>q, <1>k, <2>1, <2>2, RequestTyped
  <2>3. CASE EraseDeletes(p)
    <3>1. req[p].user \in Users /\ req[p].snap \in SUBSET TokenIds
      BY <2>3, <1>r, RequestFields DEF EraseDeletes
    <3>2. [step |-> "held", user |-> req[p].user, snap |-> req[p].snap] \in RequestRecords
      BY <3>1 DEF RequestRecords
    <3> QED
      BY <1>i, <2>2, <2>3, <3>2 DEF EraseDeletes, Ends
  <2>4. CASE EraseShreds(p)
    <3>1. req[p].user \in Users /\ req[p].snap \in SUBSET TokenIds
      BY <2>4, <1>r, RequestFields DEF EraseShreds
    <3>2. ASSUME NEW b \in BOOLEAN
          PROVE  [step |-> "shredded", user |-> req[p].user, snap |-> req[p].snap, row |-> b]
                   \in RequestRecords
      BY <3>1 DEF RequestRecords
    <3>3. PICK b \in BOOLEAN : b = (req[p].user \in Registered)
      <4>1. (req[p].user \in Registered) = TRUE \/ (req[p].user \in Registered) = FALSE
        OBVIOUS
      <4> QED
        BY <4>1, Zenon
    <3>4. Goes(p, [step |-> "shredded", user |-> req[p].user, snap |-> req[p].snap, row |-> b])
      BY <2>4, <3>3 DEF EraseShreds
    <3> QED
      BY <2>2, <3>2, <3>4
  <2>5. CASE EraseMarks(p)
    BY <1>r, <2>2, <2>5, ErasureMarks DEF EraseMarks
  <2> QED
    BY <1>7, <2>3, <2>4, <2>5
<1>8. ASSUME NEW p \in Procs, EraseCommits(p) PROVE AccountsTypeOK'
  <2>1. req[p].user \in Users
    BY <1>8, <1>r, RequestFields DEF EraseCommits
  <2>2. tok' \in [TokenIds -> {NoToken, Deleted} \cup TokenRecords]
    BY <1>8, <1>t DEF EraseCommits, Without, SessionsTypeOK
  <2>3. SessionsTypeOK' /\ VaultTypeOK'
    BY <1>8, <1>t, <2>1, <2>2 DEF EraseCommits, SessionsTypeOK, VaultTypeOK, DeleteInfo, history
  <2>4. user' \in [Users -> {"active", "erased"}] /\ late' \subseteq Users
    BY <1>8, <1>t, <2>1 DEF EraseCommits
  <2> QED
    BY <1>8, <1>t, <1>q, <1>k, <1>i, <2>3, <2>4, RequestTyped DEF EraseCommits, Ends
<1>9. ASSUME NEW p \in Procs, UNCHANGED <<user, guard, vault, late>>,
             \/ Rotate(p) \/ Revoke(p) \/ DeadlockVictim(p) \/ PurgeEnds(p)
             \/ \E t \in TokenIds : LocksRow(p, t)
      PROVE  AccountsTypeOK'
  <2>1. CASE Rotate(p)
    <3>1. tok[req[p].tok].fam \in TokenIds
      BY <2>1, RotateWrites, FieldsOf
    <3> QED
      BY <2>1, <1>9, <1>t, <1>q, <1>k, <1>i, <3>1, RequestTyped, RotateWrites
      DEF Rotate, Ends, SessionsTypeOK
  <2>2. CASE Revoke(p)
    <3>1. \A t \in TokenIds : tok'[t] \in {NoToken, Deleted} \cup TokenRecords
      <4> SUFFICES ASSUME NEW t \in TokenIds PROVE tok'[t] \in {NoToken, Deleted} \cup TokenRecords
        OBVIOUS
      <4>1. CASE tok'[t] = tok[t]
        BY <1>t, <4>1 DEF SessionsTypeOK
      <4>2. CASE t \in Rows /\ tok'[t] = [tok[t] EXCEPT !.revoked = "yes"]
        <5>1. tok[t] \in TokenRecords
          BY <1>t, <4>2, RowsAreRecords DEF SessionsTypeOK
        <5> QED
          BY <4>2, <5>1, RevokedChanges
      <4> QED
        BY <2>2, <4>1, <4>2 DEF Revoke
    <3>2. SessionsTypeOK'
      BY <2>2, <1>t, <3>1 DEF Revoke, SessionsTypeOK, history
    <3> QED
      BY <2>2, <1>9, <1>t, <1>q, <1>k, <1>i, <3>2, RequestTyped DEF Revoke, Ends
  <2>3. CASE DeadlockVictim(p)
    <3>1. req[p].step = "revoke" => req[p].snap \in SUBSET TokenIds
      BY <1>r, RequestFields
    <3>2. SessionsTypeOK'
      BY <2>3, <1>t, <3>1 DEF DeadlockVictim, SessionsTypeOK
    <3> QED
      BY <2>3, <1>9, <1>t, <1>q, <1>k, <1>i, <3>2, RequestTyped DEF DeadlockVictim, Ends
  <2>4. CASE PurgeEnds(p)
    <3>1. tok' \in [TokenIds -> {NoToken, Deleted} \cup TokenRecords]
      BY <2>4, <1>t DEF PurgeEnds, Without, SessionsTypeOK
    <3> QED
      BY <2>4, <1>9, <1>t, <1>q, <1>k, <1>i, <3>1, RequestTyped
      DEF PurgeEnds, Ends, SessionsTypeOK, history
  <2>5. ASSUME NEW t \in TokenIds, LocksRow(p, t) PROVE AccountsTypeOK'
    <3>1. /\ req[p].step \in {"revoke", "purge", "delete"} /\ UNCHANGED sessions
          /\ Goes(p, [req[p] EXCEPT !.got = @ \cup {t}])
      BY <2>5 DEF LocksRow, Statements
    <3>2. [req[p] EXCEPT !.got = @ \cup {t}] \in RequestRecords
      BY <1>r, <3>1, GotGrows
    <3> QED
      BY <1>9, <1>t, <1>q, <1>k, <3>1, <3>2, RequestTyped
  <2> QED
    BY <1>9, <2>1, <2>2, <2>3, <2>4, <2>5
<1>10. ASSUME NEW p \in Procs, Request(p) PROVE AccountsTypeOK'
  <2>r. Rows \subseteq TokenIds
    BY DEF Rows
  <2>1. ASSUME NEW u \in Visitors, LogoutAll(p, u) PROVE AccountsTypeOK'
    <3>1. {} \in SUBSET TokenIds /\ {t \in Rows : tok[t].user = u} \in SUBSET TokenIds
      BY <2>r
    <3> QED
      BY <2>1, <1>t, <1>q, <1>k, <3>1, RevocationTyped DEF LogoutAll
  <2>2. ASSUME NEW u \in Visitors, NEW n \in NationalIds, Register(p, u, n) PROVE AccountsTypeOK'
    <3>1. [step |-> "insert", user |-> u, nid |-> n] \in RequestRecords
      BY AccountsAssumption DEF RequestRecords
    <3> QED
      BY <2>2, <1>t, <1>q, <1>k, <3>1, RequestTyped DEF Register
  <2>3. ASSUME NEW u \in Users, Erase(p, u) PROVE AccountsTypeOK'
    <3>1. [step |-> "delete", user |-> u, got |-> {}, snap |-> {t \in Rows : tok[t].user = u}]
            \in RequestRecords
      BY <2>r DEF RequestRecords
    <3> QED
      BY <2>3, <1>t, <1>q, <1>k, <3>1, RequestTyped DEF Erase
  <2>4. ASSUME Purge(p), UNCHANGED <<user, guard, vault, late>> PROVE AccountsTypeOK'
    <3>1. [step |-> "purge", got |-> {}, snap |-> Purgeable] \in RequestRecords
      BY <2>r DEF RequestRecords, Purgeable
    <3> QED
      BY <2>4, <1>t, <1>q, <1>k, <3>1, RequestTyped DEF Purge
  <2>5. ASSUME NEW t \in TokenIds, Refresh(p, t) \/ Logout(p, t), UNCHANGED <<user, guard, vault, late>>
        PROVE  AccountsTypeOK'
    <3>1. {t} \in SUBSET TokenIds /\ Family(tok[t].fam) \in SUBSET TokenIds
      BY <2>r DEF Family
    <3>2. [step |-> "rotate", tok |-> t, unused |-> tok[t].used = "no"] \in RequestRecords
      BY DEF RequestRecords
    <3>3. \/ StartsRevoking(p, {t}, Family(tok[t].fam))
          \/ /\ Starts(p, [step |-> "rotate", tok |-> t, unused |-> tok[t].used = "no"])
             /\ UNCHANGED sessions
      BY <2>5 DEF Refresh, Logout
    <3> QED
      BY <2>5, <1>t, <1>q, <1>k, <3>1, <3>2, <3>3, RequestTyped, RevocationTyped
  <2> QED
    BY <1>1, <1>10, <2>1, <2>2, <2>3, <2>4, <2>5 DEF Request

<1>11. ASSUME TimePasses PROVE AccountsTypeOK'
  <2>1. ASSUME NEW u \in Users, WindowEnds(u), UNCHANGED <<user, requests, sessions, vault, late>>
        PROVE  AccountsTypeOK'
    <3>1. fails' \in [Users -> Nat] /\ guesses' \in [Users -> Nat]
      BY <2>1, <1>t DEF WindowEnds, Clear
    <3> QED
      BY <2>1, <1>q, <1>k, <3>1
  <2>2. ASSUME NEW t \in TokenIds, GraceEnds(t) \/ FamilyExpires(t) \/ RevocationAges(t)
        PROVE  SessionsTypeOK'
    <3>1. \A s \in TokenIds :
            \/ tok'[s] = tok[s]
            \/ s \in Rows /\ \/ tok'[s] = [tok[s] EXCEPT !.used = "stale"]
                             \/ tok'[s] = [tok[s] EXCEPT !.dead = TRUE]
                             \/ tok'[s] = [tok[s] EXCEPT !.revoked = "old"]
      BY <2>2, <1>t, TimeChanges DEF SessionsTypeOK
    <3>2. \A s \in TokenIds : tok'[s] \in {NoToken, Deleted} \cup TokenRecords
      <4>1. \A s \in Rows : tok[s] \in TokenRecords
        BY <1>t, RowsAreRecords DEF SessionsTypeOK
      <4> QED
        <5> SUFFICES ASSUME NEW s \in TokenIds PROVE tok'[s] \in {NoToken, Deleted} \cup TokenRecords
          OBVIOUS
        <5>1. CASE tok'[s] = tok[s]
          BY <1>t, <5>1 DEF SessionsTypeOK
        <5>2. CASE s \in Rows /\ tok'[s] = [tok[s] EXCEPT !.used = "stale"]
          BY <4>1, <5>2, UsedChanges
        <5>3. CASE s \in Rows /\ tok'[s] = [tok[s] EXCEPT !.dead = TRUE]
          BY <4>1, <5>3, DeadChanges
        <5>4. CASE s \in Rows /\ tok'[s] = [tok[s] EXCEPT !.revoked = "old"]
          BY <4>1, <5>4, RevokedChanges
        <5> QED
          BY <3>1, <5>1, <5>2, <5>3, <5>4
    <3>3. tok' \in [TokenIds -> {NoToken, Deleted} \cup TokenRecords]
      BY <2>2, <1>t, <3>2 DEF GraceEnds, FamilyExpires, RevocationAges, SessionsTypeOK
    <3> QED
      BY <2>2, <1>t, <3>3 DEF GraceEnds, FamilyExpires, RevocationAges, SessionsTypeOK, history
  <2> QED
    BY <1>11, <1>q, <1>k, <2>1, <2>2 DEF TimePasses
<1>12. ASSUME Cron \/ Deploy PROVE AccountsTypeOK'
  <2>1. CASE RewrapStarts
    <3>1. VaultTypeOK'
      BY <2>1, <1>t DEF RewrapStarts, VaultTypeOK
    <3> QED
      BY <1>12, <1>q, <1>k, <3>1 DEF Cron, Deploy
  <2>2. CASE RewrapBatch
    BY <1>12, <1>t, <1>q, <1>k, <2>2, RewrapTyped DEF Cron, Deploy
  <2>3. ASSUME NEW p \in Tasks, Upgrade(p) PROVE VaultTypeOK'
    BY <2>3, <1>t DEF Upgrade, VaultTypeOK
  <2>4. CASE DropRetiredKey
    <3>1. VaultTypeOK'
      BY <2>4, <1>t DEF DropRetiredKey, VaultTypeOK
    <3> QED
      BY <1>12, <1>q, <1>k, <3>1 DEF Cron, Deploy
  <2>5. CASE \E p \in Tasks : Upgrade(p)
    BY <1>12, <1>q, <1>k, <2>3, <2>5 DEF Cron, Deploy
  <2> QED
    BY <1>12, <2>1, <2>2, <2>4, <2>5 DEF Cron, Deploy, Tasks
<1>13. CASE UNCHANGED vars
  BY <1>13, <1>q, <1>k DEF vars
<1> QED
  BY <1>1, <1>2, <1>3, <1>4, <1>5, <1>6, <1>7, <1>8, <1>9, <1>10, <1>11, <1>12, <1>13
  DEF Next, Serve

-----------------------------------------------------------------------------
(* Every step keeps the table in order.                                    *)

LEMMA RotateKeeps ==
  ASSUME AccountsTypeOK, SessionsInv, NEW p \in Procs, Rotate(p)
  PROVE  SessionsInv'
<1> DEFINE t == req[p].tok
           c == NextId
<1>1. /\ Only(p) /\ req[p].step = "rotate" /\ req'[p].step = "idle" /\ budget' = budget
      /\ doomed' = doomed /\ spared' = spared
  BY OneMoves DEF Rotate, Ends, Goes
<1>2. /\ t \in Rows /\ tok[t] \in TokenRecords /\ tok[t].revoked = "no"
      /\ c \in TokenIds /\ tok[c] = NoToken /\ t # c
      /\ tok'[c] = Fresh(tok[t].user, tok[t].fam, t) /\ tok'[c] \in TokenRecords
      /\ tok'[t] \in TokenRecords /\ tok'[t].user = tok[t].user /\ tok'[t].fam = tok[t].fam
      /\ tok'[t].revoked = tok[t].revoked
      /\ \A s \in TokenIds \ {t, c} : tok'[s] = tok[s]
  BY RotateWrites
<1>3. tok[t].user \in Users /\ tok[t].fam \in TokenIds /\ t \in {0} \cup TokenIds
  BY <1>2, FieldsOf DEF Rows
<1>4. tok'[c].user = tok[t].user /\ tok'[c].fam = tok[t].fam /\ tok'[c].revoked = "no"
  <2> DEFINE new == Fresh(tok[t].user, tok[t].fam, t)
  <2>1. new.user = tok[t].user /\ new.fam = tok[t].fam /\ new.revoked = "no"
    BY DEF Fresh
  <2>2. tok'[c] = new
    BY <1>2
  <2> HIDE DEF new, c, t
  <2> QED
    BY <2>1, <2>2
<1>5. raced \subseteq raced'
      /\ \A q \in Procs : req[q].step = "revoke" /\ req[q].snap \cap Family(tok[t].fam) # {}
                            => tok[t].fam \in raced'
  BY DEF Rotate
<1>6. \A s \in TokenIds \ {c} : /\ tok'[s] = NoToken <=> tok[s] = NoToken
                                /\ s \in Rows' <=> s \in Rows
  BY <1>2, RecordsDiffer DEF Rows
<1>7. \A s \in Rows : /\ tok'[s].user = tok[s].user /\ tok'[s].fam = tok[s].fam
                      /\ tok'[s].revoked = tok[s].revoked
                      /\ (req[p].step = "rotate" /\ s = req[p].tok) \/ tok'[s].used = tok[s].used
  <2>1. \A s \in Rows : s \in TokenIds /\ s # c
    BY <1>2 DEF Rows
  <2> QED
    BY <1>1, <1>2, <2>1
<1>8. \E s \in Rows : /\ tok[s].fam = tok'[c].fam /\ tok[s].user = tok'[c].user
                      /\ tok[s].revoked = "no"
  BY <1>2, <1>4
<1>9. \A q \in Procs : req[q].step = "revoke" /\ req[q].snap \cap Family(tok'[c].fam) # {}
                            => tok'[c].fam \in raced'
  BY <1>4, <1>5
<1> QED
  BY <1>1, <1>2, <1>4, <1>5, <1>6, <1>7, <1>8, <1>9, RowInserted

LEMMA LoginKeeps ==
  ASSUME AccountsTypeOK, SessionsInv, NEW p \in Procs, LoginIssues(p)
  PROVE  SessionsInv'
<1> DEFINE c == NextId
<1>1. /\ Only(p) /\ req[p].step = "issue" /\ req'[p].step = "idle" /\ budget' = budget
      /\ doomed' = doomed /\ spared' = spared /\ raced' = raced
  BY OneMoves DEF LoginIssues, Ends, Goes, history
<1>2. /\ c \in TokenIds /\ tok[c] = NoToken
      /\ tok'[c] = Fresh(req[p].user, c, 0) /\ tok'[c] \in TokenRecords
      /\ \A s \in TokenIds \ {c} : tok'[s] = tok[s]
  BY LoginWrites
<1>3. req[p].user \in Users
  BY <1>1, RequestFields DEF AccountsTypeOK
<1>4. tok'[c].fam = c /\ tok'[c].revoked = "no"
  BY <1>2, <1>3, FreshIsRow
<1>5. \A s \in TokenIds \ {c} : /\ tok'[s] = NoToken <=> tok[s] = NoToken
                                /\ s \in Rows' <=> s \in Rows
  BY <1>2 DEF Rows
<1>6. \A s \in Rows : s \in TokenIds /\ s # c
  BY <1>2 DEF Rows
<1>7. Family(c) = {}
  <2>1. \A s \in Rows : tok[s].fam # c
    BY <1>2 DEF SessionsInv, FamiliesInv
  <2> QED
    BY <2>1 DEF Family
<1> QED
  BY <1>1, <1>2, <1>4, <1>5, <1>6, <1>7, RowInserted

LEMMA TimeKeeps ==
  ASSUME AccountsTypeOK, SessionsInv, UNCHANGED requests, NEW t \in TokenIds,
         GraceEnds(t) \/ FamilyExpires(t) \/ RevocationAges(t)
  PROVE  SessionsInv'
<1>1. UNCHANGED history
  BY DEF GraceEnds, FamilyExpires, RevocationAges
<1>2. \A s \in TokenIds :
        \/ tok'[s] = tok[s]
        \/ s \in Rows /\ \/ tok'[s] = [tok[s] EXCEPT !.used = "stale"] /\ tok[s].used = "fresh"
                         \/ tok'[s] = [tok[s] EXCEPT !.dead = TRUE]
                         \/ tok'[s] = [tok[s] EXCEPT !.revoked = "old"] /\ tok[s].revoked = "yes"
  BY TimeChanges DEF AccountsTypeOK
<1>3. Rows \subseteq TokenIds /\ \A s \in Rows : tok[s] \in TokenRecords
  BY RowsAreRecords DEF AccountsTypeOK
<1>4. ASSUME NEW s \in Rows
      PROVE  /\ tok'[s] \in TokenRecords
             /\ tok'[s].user = tok[s].user /\ tok'[s].fam = tok[s].fam
             /\ tok'[s].revoked = "no" <=> tok[s].revoked = "no"
             /\ tok[s].used = "no" => tok'[s].used = "no"
  <2>1. CASE tok'[s] = tok[s]
    BY <1>3, <2>1
  <2>2. CASE tok'[s] = [tok[s] EXCEPT !.used = "stale"] /\ tok[s].used = "fresh"
    BY <1>3, <2>2, UsedChanges
  <2>3. CASE tok'[s] = [tok[s] EXCEPT !.dead = TRUE]
    BY <1>3, <2>3, DeadChanges
  <2>4. CASE tok'[s] = [tok[s] EXCEPT !.revoked = "old"] /\ tok[s].revoked = "yes"
    BY <1>3, <2>4, RevokedChanges
  <2> QED
    BY <1>2, <1>3, <2>1, <2>2, <2>3, <2>4
<1>5. \A s \in TokenIds \ Rows : tok'[s] = tok[s]
  BY <1>2
<1>6. Rows' = Rows /\ \A s \in TokenIds : tok'[s] = NoToken <=> tok[s] = NoToken
  <2>1. \A s \in TokenIds : s \in Rows' <=> s \in Rows
    BY <1>4, <1>5, RecordsDiffer DEF Rows
  <2>2. \A s \in TokenIds : tok'[s] = NoToken <=> tok[s] = NoToken
    BY <1>3, <1>4, <1>5, RecordsDiffer
  <2> QED
    BY <2>1, <2>2 DEF Rows
<1> QED
  BY <1>1, <1>4, <1>6, RowsAge

\* A request that has to do with no row goes on or ends.
LEMMA QuietStep ==
  ASSUME AccountsTypeOK, SessionsInv, NEW p \in Procs, Only(p), UNCHANGED sessions,
         budget' \in Nat, budget' <= budget, req[p].step # "revoke",
         req'[p].step \in {"idle", "verify", "failed", "passed", "issue", "insert"},
         req'[p].step \in CreatorSteps => req[p].step \in CreatorSteps \/ budget' = budget - 1
  PROVE  SessionsInv'
<1>1. tok' = tok /\ raced' = raced /\ doomed' = doomed /\ spared \subseteq spared'
  BY DEF sessions, history
<1>2. Holds(p)' = {}
  BY WillHold
<1> QED
  BY <1>1, <1>2, SessionsKept

\* A DELETE starts, or an erasure goes on, on rows that have existed.
LEMMA SnapshotStep ==
  ASSUME AccountsTypeOK, SessionsInv, NEW p \in Procs, Only(p), UNCHANGED sessions,
         budget' \in Nat, budget' <= budget, req[p].step # "revoke",
         req'[p].step \in {"purge", "delete", "held", "shredded", "marked"},
         \A t \in req'[p].snap : tok[t] # NoToken,
         Holds(p)' \subseteq Holds(p) \/ FreeFor(p, Holds(p)')
  PROVE  SessionsInv'
<1>1. tok' = tok /\ raced' = raced /\ doomed' = doomed /\ spared \subseteq spared'
  BY DEF sessions, history
<1>2. req'[p].step \notin CreatorSteps
  BY DEF CreatorSteps
<1> QED
  BY <1>1, <1>2, SessionsKept

LEMMA SessionsInvNext ==
  AccountsTypeOK /\ AccountsTypeOK' /\ SessionsInv /\ [Next]_vars => SessionsInv'
<1> SUFFICES ASSUME AccountsTypeOK, AccountsTypeOK', SessionsInv, [Next]_vars PROVE SessionsInv'
  OBVIOUS
<1>r. \A p \in Procs : req[p] \in RequestRecords
  BY DEF AccountsTypeOK
<1>i. LocksInv /\ FamiliesInv
  BY DEF SessionsInv
<1>n. \A t \in Rows : tok[t] # NoToken
  BY DEF Rows
<1>s. /\ "idle" \notin CreatorSteps /\ "failed" \notin CreatorSteps /\ "held" \notin CreatorSteps
      /\ "insert" \notin CreatorSteps /\ "purge" \notin CreatorSteps /\ "delete" \notin CreatorSteps
      /\ "verify" \in CreatorSteps /\ "passed" \in CreatorSteps
  BY DEF CreatorSteps
<1>g. ASSUME NEW p \in Procs, NEW r, Goes(p, r)
      PROVE  Only(p) /\ req'[p] = r /\ budget' \in Nat /\ budget' <= budget
  <2>1. budget' = budget /\ budget \in Nat
    BY <1>g DEF Goes, AccountsTypeOK
  <2> QED
    BY <1>g, <2>1, OneMoves
<1>b. ASSUME NEW p \in Procs, NEW r, Starts(p, r)
      PROVE  /\ Only(p) /\ req'[p] = r /\ req[p].step = "idle"
             /\ budget' \in Nat /\ budget' <= budget /\ budget' = budget - 1
  <2>1. budget' \in Nat /\ budget' <= budget /\ budget' = budget - 1
    BY <1>b DEF Starts, AccountsTypeOK
  <2> QED
    BY <1>b, <2>1, OneMoves
<1>e. ASSUME NEW p \in Procs, Ends(p)
      PROVE  /\ Only(p) /\ req'[p].step = "idle" /\ budget' = budget
             /\ budget' \in Nat /\ budget' <= budget
  <2>1. budget' = budget
    BY <1>e DEF Ends, Goes
  <2> QED
    BY <1>e, <1>g, <2>1, OneMoves DEF Ends
<1>1. ASSUME NEW p \in Procs, NEW u \in Visitors, LoginPeeks(p, u) PROVE SessionsInv'
  <2>1. Starts(p, [step |-> "verify", user |-> u]) /\ UNCHANGED sessions
    BY <1>1 DEF LoginPeeks
  <2>2. req'[p].step = "verify"
    BY <1>b, <2>1
  <2> QED
    BY <1>b, <2>1, <2>2, QuietStep
<1>2. ASSUME NEW p \in Procs, LoginVerifies(p) PROVE SessionsInv'
  <2>1. req[p].step = "verify" /\ UNCHANGED sessions
    BY <1>2 DEF LoginVerifies
  <2>2. Only(p) /\ req'[p].step \in {"passed", "failed"} /\ budget' \in Nat /\ budget' <= budget
    BY <1>2, <1>g DEF LoginVerifies
  <2> QED
    BY <1>s, <2>1, <2>2, QuietStep
<1>3. ASSUME NEW p \in Procs, LoginFails(p) \/ RegisterCommits(p) PROVE SessionsInv'
  <2>1. req[p].step \in {"failed", "insert"} /\ UNCHANGED sessions /\ Ends(p)
    BY <1>3 DEF LoginFails, RegisterCommits
  <2> QED
    BY <1>s, <1>e, <2>1, QuietStep
<1>4. ASSUME NEW p \in Procs, LoginClears(p) PROVE SessionsInv'
  <2>1. req[p].step = "passed" /\ UNCHANGED sessions
    BY <1>4 DEF LoginClears
  <2>2. Only(p) /\ req'[p].step = "issue" /\ budget' \in Nat /\ budget' <= budget
    BY <1>4, <1>g DEF LoginClears
  <2> QED
    BY <1>s, <2>1, <2>2, QuietStep
<1>5. ASSUME NEW p \in Procs, EraseDeletes(p) PROVE SessionsInv'
  <2>1. req[p].step = "delete" /\ FreeFor(p, req[p].snap) /\ UNCHANGED sessions
    BY <1>5 DEF EraseDeletes
  <2>2. CASE Ends(p)
    BY <1>s, <1>e, <2>1, <2>2, QuietStep
  <2>3. CASE Goes(p, [step |-> "held", user |-> req[p].user, snap |-> req[p].snap])
    <3>1. /\ Only(p) /\ req'[p].step = "held" /\ req'[p].snap = req[p].snap
          /\ budget' \in Nat /\ budget' <= budget
      BY <1>g, <2>3
    <3>2. \A t \in req[p].snap : tok[t] # NoToken
      BY <1>i, <2>1 DEF FamiliesInv
    <3>3. Holds(p)' = req[p].snap
      BY <3>1, WillHold
    <3> QED
      BY <2>1, <3>1, <3>2, <3>3, SnapshotStep
  <2> QED
    BY <1>5, <2>2, <2>3 DEF EraseDeletes
<1>14. ASSUME NEW p \in Procs, EraseShreds(p) \/ EraseMarks(p) PROVE SessionsInv'
  <2>1. req[p].step \in {"held", "shredded"} /\ UNCHANGED sessions
    BY <1>14 DEF EraseShreds, EraseMarks
  <2>2. /\ Only(p) /\ req'[p].step \in {"shredded", "marked"} /\ req'[p].snap = req[p].snap
        /\ budget' \in Nat /\ budget' <= budget
    <3>1. CASE EraseShreds(p)
      BY <1>g, <3>1 DEF EraseShreds
    <3>2. CASE EraseMarks(p)
      <4>1. req[p].step = "shredded" /\ Goes(p, [req[p] EXCEPT !.step = "marked"])
        BY <3>2 DEF EraseMarks
      <4>2. Only(p) /\ req'[p] = [req[p] EXCEPT !.step = "marked"] /\ budget' \in Nat /\ budget' <= budget
        BY <1>g, <4>1
      <4> QED
        BY <1>r, <4>1, <4>2, ErasureMarks
    <3> QED
      BY <1>14, <3>1, <3>2
  <2>3. \A t \in req[p].snap : tok[t] # NoToken
    BY <1>i, <2>1 DEF FamiliesInv
  <2>4. Holds(p)' = Holds(p)
    BY <2>1, <2>2, HoldsIs, WillHold
  <2> QED
    BY <2>1, <2>2, <2>3, <2>4, SnapshotStep
<1>6. ASSUME NEW p \in Procs, EraseCommits(p) PROVE SessionsInv'
  <2> DEFINE S == Rows \cap req[p].snap
  <2>1. /\ req[p].step = "marked" /\ tok' = Without(S) /\ raced' = raced /\ doomed' = doomed
        /\ spared' = spared /\ Only(p) /\ req'[p].step = "idle" /\ budget' = budget
    BY <1>6, <1>e DEF EraseCommits, history
  <2>2. S \in SUBSET TokenIds /\ \A t \in S : tok[t] # NoToken
    BY DEF Rows
  <2>3. \A q \in Procs \ {p} : Holds(q) \cap S = {}
    <3>1. Holds(p) = req[p].snap
      BY <2>1, HoldsIs
    <3> QED
      BY <1>i, <3>1 DEF LocksInv
  <2> HIDE DEF S
  <2> QED
    BY <2>1, <2>2, <2>3, RowsGo
<1>7. ASSUME NEW p \in Procs, PurgeEnds(p) PROVE SessionsInv'
  <2>1. /\ req[p].step = "purge" /\ FreeFor(p, req[p].snap) /\ raced' = raced /\ doomed' = doomed
        /\ Only(p) /\ req'[p].step = "idle" /\ budget' = budget /\ budget' \in Nat
        /\ budget' <= budget /\ spared' = spared
    BY <1>7, <1>e DEF PurgeEnds, history
  <2>2. CASE tok' = tok
    BY <1>s, <2>1, <2>2, QuietStep DEF sessions, history
  <2>3. CASE tok' = Without(req[p].snap)
    <3>1. req[p].snap \in SUBSET TokenIds
      BY <1>r, <2>1, RequestFields
    <3>2. \A t \in req[p].snap : tok[t] # NoToken
      BY <1>i, <2>1 DEF FamiliesInv
    <3> QED
      BY <2>1, <2>3, <3>1, <3>2, RowsGo DEF FreeFor
  <2> QED
    BY <1>7, <2>2, <2>3 DEF PurgeEnds
<1>8. ASSUME NEW p \in Procs, NEW u \in Visitors, LogoutAll(p, u) PROVE SessionsInv'
  <2> DEFINE S == {t \in Rows : tok[t].user = u}
  <2>1. StartsRevoking(p, {}, S)
    BY <1>8 DEF LogoutAll
  <2>2. /\ S \subseteq Rows /\ FreeFor(p, {})
        /\ \A s \in S, t \in Rows : tok[t].fam = tok[s].fam => t \in S
    BY <1>i DEF FamiliesInv, FreeFor
  <2> HIDE DEF S
  <2> QED
    BY <2>1, <2>2, RevocationStarts
<1>9. ASSUME NEW p \in Procs, NEW u \in Visitors, NEW n \in NationalIds, Register(p, u, n)
      PROVE  SessionsInv'
  <2>1. Starts(p, [step |-> "insert", user |-> u, nid |-> n]) /\ UNCHANGED sessions
    BY <1>9 DEF Register
  <2>2. req'[p].step = "insert"
    BY <1>b, <2>1
  <2> QED
    BY <1>b, <1>s, <2>1, <2>2, QuietStep
<1>10. ASSUME NEW p \in Procs, NEW u \in Users, Erase(p, u) PROVE SessionsInv'
  <2> DEFINE S == {t \in Rows : tok[t].user = u}
  <2>1. Starts(p, [step |-> "delete", user |-> u, got |-> {}, snap |-> S]) /\ UNCHANGED sessions
    BY <1>10 DEF Erase
  <2>2. req'[p].step = "delete" /\ req'[p].snap = S /\ Holds(p)' = {}
    BY <1>b, <2>1, WillHold
  <2>3. \A t \in S : tok[t] # NoToken
    BY <1>n
  <2> HIDE DEF S
  <2> QED
    BY <1>b, <1>s, <2>1, <2>2, <2>3, SnapshotStep
<1>11. ASSUME NEW p \in Procs, Purge(p) PROVE SessionsInv'
  <2>1. Starts(p, [step |-> "purge", got |-> {}, snap |-> Purgeable]) /\ UNCHANGED sessions
    BY <1>11 DEF Purge
  <2>2. req'[p].step = "purge" /\ req'[p].snap = Purgeable /\ Holds(p)' = {}
    BY <1>b, <2>1, WillHold
  <2>3. \A t \in Purgeable : tok[t] # NoToken
    BY <1>n DEF Purgeable
  <2> QED
    BY <1>b, <1>s, <2>1, <2>2, <2>3, SnapshotStep
<1>12. ASSUME NEW p \in Procs, NEW t \in TokenIds, Refresh(p, t) \/ Logout(p, t)
       PROVE  SessionsInv'
  <2>1. t \in Rows /\ FreeFor(p, {t})
    BY <1>12 DEF Refresh, Logout
  <2>2. CASE StartsRevoking(p, {t}, Family(tok[t].fam))
    <3>1. /\ Family(tok[t].fam) \subseteq Rows
          /\ \A s \in Family(tok[t].fam), w \in Rows : tok[w].fam = tok[s].fam => w \in Family(tok[t].fam)
      BY <2>1 DEF Family
    <3> QED
      BY <2>1, <2>2, <3>1, RevocationStarts
  <2>3. CASE /\ Starts(p, [step |-> "rotate", tok |-> t, unused |-> tok[t].used = "no"])
             /\ UNCHANGED sessions /\ tok[t].revoked = "no"
    BY <2>1, <2>3, RotationStarts
  <2> QED
    BY <1>12, <2>2, <2>3 DEF Refresh, Logout
<1>13. ASSUME UNCHANGED <<requests, sessions>> PROVE SessionsInv'
  <2>1. /\ Rows' = Rows /\ (\A t \in TokenIds : tok'[t] = NoToken <=> tok[t] = NoToken)
        /\ \A t \in Rows : tok'[t] = tok[t]
    BY <1>13 DEF sessions, Rows
  <2>2. UNCHANGED <<requests, history>>
    BY <1>13 DEF sessions
  <2> QED
    BY <2>1, <2>2, RowsAge
<1> QED
  BY <1>1, <1>2, <1>3, <1>4, <1>5, <1>6, <1>7, <1>8, <1>9, <1>10, <1>11, <1>12, <1>13,
     <1>14, LockKeeps, RotateKeeps, LoginKeeps, TimeKeeps, RevokeLands, VictimIsCovered
  DEF Next, Request, Serve, TimePasses, Cron, Deploy, vars

-----------------------------------------------------------------------------
(* Buyer data and its keys.                                                *)

LEMMA VaultInvNext == AccountsTypeOK /\ VaultInv /\ [Next]_vars => VaultInv'
<1> SUFFICES ASSUME AccountsTypeOK, VaultInv, [Next]_vars PROVE VaultInv'
  OBVIOUS
<1>t. /\ info \in [Users -> {NoInfo} \cup InfoRecords] /\ ring \in [Tasks -> {"old", "new"}]
      /\ Worker \in Tasks /\ Procs \subseteq Tasks
  BY DEF AccountsTypeOK, Tasks
<1>k. UNCHANGED vault => VaultInv'
  BY DEF vault, VaultInv, Registered, RowsAt
<1>n. \A p \in Tasks : ring[p] = "new" => Active(p) = 2
  BY DEF Active
<1>1. ASSUME NEW p \in Procs, RegisterCommits(p) PROVE VaultInv'
  <2>1. ring' = ring /\ retired' = retired
    BY <1>1 DEF RegisterCommits
  <2>2. PICK u, n : InsertInfo(p, u, n)
    BY <1>1 DEF RegisterCommits
  <2>3. Envelope(p, n).kek = Active(p) /\ Envelope(p, n).wrapped = Active(p)
    BY DEF Envelope
  <2>4. \A w \in Users : info'[w] = info[w] \/ info'[w] = Envelope(p, n)
    BY <1>t, <2>2 DEF InsertInfo
  <2>5. ~retired => Active(p) = 2
    BY <1>n, <1>t DEF VaultInv
  <2> QED
    BY <2>1, <2>3, <2>4, <2>5 DEF VaultInv, Registered, RowsAt
<1>2. ASSUME NEW p \in Procs, EraseCommits(p) PROVE VaultInv'
  <2>1. ring' = ring /\ retired' = retired /\ \A w \in Users : info'[w] = info[w] \/ info'[w] = NoInfo
    BY <1>2, <1>t DEF EraseCommits, DeleteInfo
  <2> QED
    BY <2>1 DEF VaultInv, Registered, RowsAt
<1>3. ASSUME RewrapBatch PROVE VaultInv'
  <2> DEFINE v == Active(Worker)
  <2>1. ring' = ring /\ retired' = retired
    BY <1>3 DEF RewrapBatch
  <2>2. PICK S \in Batches : Rewrap(S)
    BY <1>3 DEF RewrapBatch
  <2>3. S \subseteq Registered
    BY DEF Batches, Wanted
  <2>4. ~retired => v = 2
    BY <1>n, <1>t DEF VaultInv
  <2>5. \A w \in Users : \/ info'[w] = info[w]
                         \/ w \in Registered /\ info'[w] = [info[w] EXCEPT !.kek = v, !.wrapped = v]
    BY <2>2, <2>3 DEF Rewrap
  <2> HIDE DEF v
  <2>6. ASSUME NEW w \in Registered, NEW r, r = [info[w] EXCEPT !.kek = v, !.wrapped = v]
        PROVE  r.kek = v /\ r.wrapped = v
    <3>1. info[w] \in InfoRecords
      BY <1>t DEF Registered
    <3> QED
      BY <2>6, <3>1 DEF InfoRecords
  <2>7. ASSUME NEW w \in Registered'
        PROVE  info'[w].kek = info'[w].wrapped /\ (~retired => info'[w].kek # 1)
    <3>1. CASE info'[w] = info[w]
      BY <3>1 DEF VaultInv, Registered, RowsAt
    <3>2. CASE w \in Registered /\ info'[w] = [info[w] EXCEPT !.kek = v, !.wrapped = v]
      <4>1. info'[w].kek = v /\ info'[w].wrapped = v
        BY <2>6, <3>2
      <4> QED
        BY <2>4, <4>1
    <3> QED
      BY <2>5, <3>1, <3>2 DEF Registered
  <2> QED
    BY <2>1, <2>7 DEF VaultInv, RowsAt
<1>4. ASSUME NEW p \in Tasks, Upgrade(p) PROVE VaultInv'
  BY <1>4, <1>t DEF Upgrade, VaultInv, Registered, RowsAt
<1>5. ASSUME DropRetiredKey PROVE VaultInv'
  BY <1>5 DEF DropRetiredKey, VaultInv, Registered, RowsAt
<1>6. ASSUME RewrapStarts PROVE VaultInv'
  BY <1>6 DEF RewrapStarts, VaultInv, Registered, RowsAt
<1>7. ASSUME NEW p \in Procs, Request(p) PROVE UNCHANGED vault
  BY <1>7 DEF Request, LoginPeeks, LogoutAll, Register, Erase
<1>8. ASSUME NEW p \in Procs, Serve(p) PROVE VaultInv'
  BY <1>1, <1>2, <1>k, <1>8
  DEF Serve, LoginVerifies, LoginFails, LoginClears, LoginIssues, EraseDeletes, EraseShreds,
      EraseMarks
<1> QED
  BY <1>3, <1>4, <1>5, <1>6, <1>7, <1>8, <1>k, <1>t DEF Next, TimePasses, Cron, Deploy, vars

\* A step that gives an erased user no data, no request and no session.
LEMMA ErasedKept ==
  ASSUME ErasedInv, user' = user, late' = late,
         \A u \in Users : user[u] = "erased" /\ u \notin late =>
           /\ u \in Registered' => u \in Registered \/ UnderWay(u)
           /\ UnderWay(u)' => UnderWay(u)
           /\ \A t \in Rows' : tok'[t].user = u =>
                UnderWay(u) \/ \E s \in Rows : tok[s].user = u
  PROVE  ErasedInv'
BY DEF ErasedInv

\* Whose requests are under way after a step of one of them.
LEMMA UnderWayMoves ==
  ASSUME NEW p \in Procs, Only(p), NEW u,
         \/ ~(req'[p].step \in {"passed", "issue", "insert"} /\ req'[p].user = u)
         \/ req[p].step \in {"passed", "issue", "insert"} /\ req[p].user = u
  PROVE  UnderWay(u)' => UnderWay(u)
BY DEF UnderWay, Only

\* No step but a login gives a user a first session.
LEMMA RowsHaveOwners ==
  ASSUME AccountsTypeOK, SessionsInv,
         \/ UNCHANGED sessions
         \/ UNCHANGED tok
         \/ \E p \in Procs : Rotate(p) \/ Revoke(p) \/ DeadlockVictim(p) \/ PurgeEnds(p)
         \/ \E t \in TokenIds : GraceEnds(t) \/ FamilyExpires(t) \/ RevocationAges(t)
  PROVE  \A t \in Rows' : \E s \in Rows : tok[s].user = tok'[t].user
<1>r. \A t \in Rows : t \in TokenIds /\ tok[t] \in TokenRecords
  BY RowsAreRecords DEF AccountsTypeOK
<1>k. ASSUME NEW t \in Rows', tok'[t] = tok[t] PROVE \E s \in Rows : tok[s].user = tok'[t].user
  BY <1>k DEF Rows
<1>1. CASE UNCHANGED sessions \/ UNCHANGED tok
  BY <1>1, <1>k DEF sessions
<1>2. ASSUME NEW p \in Procs, Rotate(p) PROVE \A t \in Rows' : \E s \in Rows : tok[s].user = tok'[t].user
  <2> DEFINE w == req[p].tok
  <2>1. /\ w \in Rows /\ tok'[w].user = tok[w].user
        /\ tok'[NextId] = Fresh(tok[w].user, tok[w].fam, w)
        /\ \A s \in TokenIds \ {w, NextId} : tok'[s] = tok[s]
    BY <1>2, RotateWrites
  <2>2. tok'[NextId].user = tok[w].user
    BY <2>1 DEF Fresh
  <2> HIDE DEF w
  <2> QED
    BY <1>k, <2>1, <2>2 DEF Rows
<1>3. ASSUME NEW p \in Procs, Revoke(p) PROVE \A t \in Rows' : \E s \in Rows : tok[s].user = tok'[t].user
  <2> SUFFICES ASSUME NEW t \in Rows' PROVE \E s \in Rows : tok[s].user = tok'[t].user
    OBVIOUS
  <2>1. CASE tok'[t] = tok[t]
    BY <1>k, <2>1
  <2>2. CASE t \in Rows /\ tok'[t] = [tok[t] EXCEPT !.revoked = "yes"]
    <3>1. tok'[t].user = tok[t].user
      BY <1>r, <2>2, RevokedChanges
    <3> QED
      BY <2>2, <3>1
  <2> QED
    BY <1>3, <2>1, <2>2 DEF Revoke, Rows
<1>4. ASSUME NEW p \in Procs, PurgeEnds(p) PROVE \A t \in Rows' : \E s \in Rows : tok[s].user = tok'[t].user
  <2>1. \A t \in TokenIds : tok'[t] = tok[t] \/ tok'[t] = Deleted
    BY <1>4 DEF PurgeEnds, Without
  <2> QED
    BY <1>k, <2>1 DEF Rows
<1>5. ASSUME NEW t \in TokenIds, GraceEnds(t) \/ FamilyExpires(t) \/ RevocationAges(t)
      PROVE  \A s \in Rows' : \E w \in Rows : tok[w].user = tok'[s].user
  <2>1. \A s \in TokenIds :
          \/ tok'[s] = tok[s]
          \/ s \in Rows /\ \/ tok'[s] = [tok[s] EXCEPT !.used = "stale"]
                           \/ tok'[s] = [tok[s] EXCEPT !.dead = TRUE]
                           \/ tok'[s] = [tok[s] EXCEPT !.revoked = "old"]
    BY <1>5, TimeChanges DEF AccountsTypeOK
  <2>2. ASSUME NEW s \in Rows PROVE tok'[s].user = tok[s].user
    <3>1. CASE tok'[s] = [tok[s] EXCEPT !.used = "stale"]
      BY <1>r, <3>1, UsedChanges
    <3>2. CASE tok'[s] = [tok[s] EXCEPT !.dead = TRUE]
      BY <1>r, <3>2, DeadChanges
    <3>3. CASE tok'[s] = [tok[s] EXCEPT !.revoked = "old"]
      BY <1>r, <3>3, RevokedChanges
    <3> QED
      BY <1>r, <2>1, <3>1, <3>2, <3>3
  <2> QED
    BY <1>k, <2>1, <2>2 DEF Rows
<1> QED
  BY <1>1, <1>2, <1>3, <1>4, <1>5 DEF DeadlockVictim

LEMMA ErasedInvNext ==
  AccountsTypeOK /\ SessionsInv /\ ErasedInv /\ [Next]_vars => ErasedInv'
<1> SUFFICES ASSUME AccountsTypeOK, SessionsInv, ErasedInv, [Next]_vars PROVE ErasedInv'
  OBVIOUS
<1>r. \A p \in Procs : req[p] \in RequestRecords
  BY DEF AccountsTypeOK
<1>v. info' = info => Registered' = Registered
  BY DEF Registered
<1>q. UNCHANGED requests => \A u \in Users : UnderWay(u)' <=> UnderWay(u)
  BY DEF requests, UnderWay
<1>1. ASSUME NEW p \in Procs, NEW u \in Users, Only(p), req'[p].user = u, user[u] = "active",
             UNCHANGED <<user, sessions, info, late>>
      PROVE  ErasedInv'
  <2>1. \A t \in Rows' : \E s \in Rows : tok[s].user = tok'[t].user
    BY <1>1, RowsHaveOwners
  <2>2. \A w \in Users : user[w] = "erased" => (UnderWay(w)' => UnderWay(w))
    BY <1>1, UnderWayMoves
  <2> QED
    BY <1>1, <1>v, <2>1, <2>2, ErasedKept
<1>2. ASSUME NEW p \in Procs, Only(p), req'[p].step \notin {"passed", "issue", "insert"},
             UNCHANGED <<user, info, late>>,
             \A t \in Rows' : \E s \in Rows : tok[s].user = tok'[t].user
      PROVE  ErasedInv'
  <2>1. \A w \in Users : UnderWay(w)' => UnderWay(w)
    BY <1>2, UnderWayMoves
  <2> QED
    BY <1>2, <1>v, <2>1, ErasedKept
<1>3. ASSUME NEW p \in Procs, LoginVerifies(p) PROVE ErasedInv'
  <2>0. UNCHANGED <<user, sessions, info, late>>
    BY <1>3 DEF LoginVerifies, vault
  <2>1. PICK u \in Users : req[p].user = u
    BY <1>3, <1>r, RequestFields DEF LoginVerifies
  <2>2. CASE user[u] = "active" /\ Goes(p, [step |-> "passed", user |-> u])
    BY <1>1, <2>0, <2>2, OneMoves
  <2>3. CASE Goes(p, [step |-> "failed", user |-> u])
    <3>1. \A t \in Rows' : \E s \in Rows : tok[s].user = tok'[t].user
      BY <2>0, RowsHaveOwners
    <3>2. Only(p) /\ req'[p].step = "failed"
      BY <2>3, OneMoves
    <3> QED
      BY <1>2, <2>0, <3>1, <3>2
  <2> QED
    BY <1>3, <2>1, <2>2, <2>3 DEF LoginVerifies
<1>4. ASSUME NEW p \in Procs, LoginClears(p) PROVE ErasedInv'
  <2>0. UNCHANGED <<user, sessions, info, late>> /\ req[p].step = "passed"
    BY <1>4 DEF LoginClears, vault
  <2>1. Only(p) /\ req'[p].user = req[p].user
    BY <1>4, OneMoves DEF LoginClears
  <2>2. \A w \in Users : UnderWay(w)' => UnderWay(w)
    BY <2>0, <2>1, UnderWayMoves
  <2>3. \A t \in Rows' : \E s \in Rows : tok[s].user = tok'[t].user
    BY <2>0, RowsHaveOwners
  <2> QED
    BY <1>v, <2>0, <2>2, <2>3, ErasedKept
<1>5. ASSUME NEW p \in Procs, LoginIssues(p) PROVE ErasedInv'
  <2>0. UNCHANGED <<user, info, late>> /\ req[p].step = "issue"
    BY <1>5 DEF LoginIssues, vault
  <2>1. Only(p) /\ req'[p].step = "idle"
    BY <1>5, OneMoves DEF LoginIssues
  <2>2. \A w \in Users : UnderWay(w)' => UnderWay(w)
    BY <2>1, UnderWayMoves
  <2>3. UnderWay(req[p].user)
    BY <2>0 DEF UnderWay
  <2>4. /\ tok'[NextId] = Fresh(req[p].user, NextId, 0)
        /\ \A s \in TokenIds \ {NextId} : tok'[s] = tok[s]
    BY <1>5, LoginWrites
  <2>5. tok'[NextId].user = req[p].user
    BY <2>4 DEF Fresh
  <2>6. \A t \in Rows' : tok'[t].user = req[p].user \/ \E s \in Rows : tok[s].user = tok'[t].user
    BY <2>4, <2>5 DEF Rows
  <2> QED
    BY <1>v, <2>0, <2>2, <2>3, <2>6, ErasedKept
<1>6. ASSUME NEW p \in Procs, RegisterCommits(p) PROVE ErasedInv'
  <2>0. UNCHANGED <<user, sessions, late>> /\ req[p].step = "insert"
    BY <1>6 DEF RegisterCommits
  <2>1. Only(p) /\ req'[p].step = "idle"
    BY <1>6, OneMoves DEF RegisterCommits
  <2>2. \A w \in Users : UnderWay(w)' => UnderWay(w)
    BY <2>1, UnderWayMoves
  <2>3. UnderWay(req[p].user)
    BY <2>0 DEF UnderWay
  <2>4. \A w \in Users : w \in Registered' => w \in Registered \/ w = req[p].user
    BY <1>6 DEF RegisterCommits, InsertInfo, Registered, AccountsTypeOK
  <2>5. \A t \in Rows' : \E s \in Rows : tok[s].user = tok'[t].user
    BY <2>0, RowsHaveOwners
  <2> QED
    BY <2>0, <2>2, <2>3, <2>4, <2>5, ErasedKept
<1>7. ASSUME NEW p \in Procs, EraseCommits(p) PROVE ErasedInv'
  <2>1. PICK u \in Users : req[p].user = u
    BY <1>7, <1>r, RequestFields DEF EraseCommits
  <2>2. /\ tok' = Without(Rows \cap req[p].snap)
        /\ info' = IF req[p].row THEN [info EXCEPT ![u] = NoInfo] ELSE info
        /\ user' = [user EXCEPT ![u] = "erased"]
        /\ late' = IF UnderWay(u) \/ LateTokens(p) \/ LateInfo(p) THEN late \cup {u} ELSE late
        /\ Only(p) /\ req'[p].step = "idle"
    BY <1>7, <2>1, OneMoves DEF EraseCommits, DeleteInfo
  <2>3. \A w \in Users : UnderWay(w)' => UnderWay(w)
    BY <2>2, UnderWayMoves
  <2>4. \A t \in Rows' : t \in Rows \ req[p].snap /\ tok'[t] = tok[t]
    BY <2>2 DEF Without, Rows
  <2>5. \A w \in Users \ {u} : info'[w] = info[w] /\ user'[w] = user[w]
    BY <2>2 DEF AccountsTypeOK
  <2>6. /\ \A w \in Users \ {u} : w \in Registered' => w \in Registered
        /\ u \in Registered' => LateInfo(p)
    <3>1. CASE req[p].row
      BY <2>2, <2>5, <3>1 DEF Registered, AccountsTypeOK
    <3>2. CASE ~req[p].row
      BY <2>1, <2>2, <3>2 DEF Registered, LateInfo
    <3> QED
      BY <3>1, <3>2
  <2>7. ASSUME NEW w \in Users \ {u}, user'[w] = "erased", w \notin late'
        PROVE  w \notin Registered' /\ ~UnderWay(w)' /\ \A t \in Rows' : tok'[t].user # w
    <3>1. user[w] = "erased" /\ w \notin late
      BY <2>2, <2>5, <2>7
    <3>2. w \notin Registered /\ ~UnderWay(w) /\ \A t \in Rows : tok[t].user # w
      BY <3>1 DEF ErasedInv
    <3> QED
      BY <2>3, <2>4, <2>6, <3>2
  <2>8. ASSUME u \notin late'
        PROVE  u \notin Registered' /\ ~UnderWay(u)' /\ \A t \in Rows' : tok'[t].user # u
    BY <2>1, <2>2, <2>3, <2>4, <2>6, <2>8 DEF LateTokens
  <2> QED
    BY <2>7, <2>8 DEF ErasedInv
<1>8. ASSUME NEW p \in Procs, LoginFails(p) \/ EraseDeletes(p) \/ EraseShreds(p) \/ EraseMarks(p)
      PROVE  ErasedInv'
  <2>1. UNCHANGED <<user, sessions, info, late>>
    BY <1>8 DEF LoginFails, EraseDeletes, EraseShreds, EraseMarks, vault
  <2>2. \/ Ends(p)
        \/ Goes(p, [step |-> "held", user |-> req[p].user, snap |-> req[p].snap])
        \/ Goes(p, [step |-> "shredded", user |-> req[p].user, snap |-> req[p].snap,
                     row |-> req[p].user \in Registered])
        \/ req[p].step = "shredded" /\ Goes(p, [req[p] EXCEPT !.step = "marked"])
    BY <1>8 DEF LoginFails, EraseDeletes, EraseShreds, EraseMarks
  <2>3. Only(p) /\ req'[p].step \in {"idle", "held", "shredded", "marked"}
    BY <1>r, <2>2, OneMoves, ErasureMarks
  <2> QED
    BY <1>2, <2>1, <2>3, RowsHaveOwners
<1>l. ASSUME NEW p \in Procs, NEW t \in TokenIds, LocksRow(p, t), UNCHANGED <<user, vault, late>>
      PROVE  ErasedInv'
  <2>1. /\ req[p].step \in {"revoke", "purge", "delete"} /\ UNCHANGED sessions
        /\ Goes(p, [req[p] EXCEPT !.got = @ \cup {t}])
    BY <1>l DEF LocksRow, Statements
  <2>2. Only(p) /\ req'[p].step \in {"revoke", "purge", "delete"}
    BY <1>r, <2>1, OneMoves, GotGrows
  <2> QED
    BY <1>2, <1>l, <2>1, <2>2, RowsHaveOwners DEF vault
<1>9. ASSUME NEW p \in Procs, Rotate(p) \/ Revoke(p) \/ DeadlockVictim(p) \/ PurgeEnds(p),
             UNCHANGED <<user, vault, late>>
      PROVE  ErasedInv'
  <2>1. Ends(p) /\ UNCHANGED <<user, info, late>>
    BY <1>9 DEF Rotate, Revoke, DeadlockVictim, PurgeEnds, vault
  <2>2. Only(p) /\ req'[p].step = "idle"
    BY <2>1, OneMoves
  <2> QED
    BY <1>2, <1>9, <2>1, <2>2, RowsHaveOwners
<1>10. ASSUME NEW p \in Procs, Request(p) PROVE ErasedInv'
  <2>1. UNCHANGED <<user, info, late, tok>>
    BY <1>10 DEF Request, LoginPeeks, LogoutAll, Register, Erase, Purge, Refresh, Logout,
                 StartsRevoking, vault, sessions
  <2>2. \A t \in Rows' : \E s \in Rows : tok[s].user = tok'[t].user
    BY <2>1 DEF Rows
  <2>3. ASSUME NEW r, Starts(p, r), r.step \notin {"passed", "issue", "insert"} PROVE ErasedInv'
    BY <1>2, <2>1, <2>2, <2>3, OneMoves
  <2>4. ASSUME NEW own, NEW S, StartsRevoking(p, own, S) PROVE ErasedInv'
    BY <2>3, <2>4 DEF StartsRevoking
  <2>5. ASSUME NEW u \in Visitors, NEW n \in NationalIds, Register(p, u, n) PROVE ErasedInv'
    <3>1. u \in Users /\ user[u] = "active" /\ Only(p) /\ req'[p].user = u /\ UNCHANGED sessions
      BY <2>5, OneMoves, AccountsAssumption DEF Register
    <3> QED
      BY <1>1, <2>1, <3>1
  <2>6. ASSUME NEW u \in Users, LoginPeeks(p, u) \/ LogoutAll(p, u) \/ Erase(p, u) PROVE ErasedInv'
    BY <2>3, <2>4, <2>6 DEF LoginPeeks, LogoutAll, Erase
  <2>7. ASSUME NEW t \in TokenIds, Purge(p) \/ Refresh(p, t) \/ Logout(p, t) PROVE ErasedInv'
    BY <2>3, <2>4, <2>7 DEF Purge, Refresh, Logout
  <2>8. TokenIds # {}
    BY RequestsAssumption DEF TokenIds
  <2> QED
    BY <1>10, <2>5, <2>6, <2>7, <2>8, AccountsAssumption DEF Request
<1>11. ASSUME UNCHANGED <<user, requests, late>>, Registered' \subseteq Registered,
              \A t \in Rows' : \E s \in Rows : tok[s].user = tok'[t].user
       PROVE  ErasedInv'
  BY <1>11, <1>q, ErasedKept
<1>12. ASSUME TimePasses PROVE ErasedInv'
  BY <1>11, <1>12, <1>v, RowsHaveOwners DEF TimePasses, vault
<1>13. ASSUME Cron \/ Deploy PROVE ErasedInv'
  <2>1. Registered' \subseteq Registered
    <3>1. CASE RewrapBatch
      <4>1. PICK S \in Batches : Rewrap(S)
        BY <3>1 DEF RewrapBatch
      <4>2. S \subseteq Registered
        BY DEF Batches, Wanted
      <4> QED
        BY <4>1, <4>2 DEF Rewrap, Registered
    <3>2. CASE info' = info
      BY <3>2, <1>v
    <3> QED
      BY <1>13, <3>1, <3>2 DEF Cron, Deploy, RewrapStarts, Upgrade, DropRetiredKey
  <2> QED
    BY <1>11, <1>13, <2>1, RowsHaveOwners DEF Cron, Deploy
<1>14. CASE UNCHANGED vars
  BY <1>11, <1>14, <1>v, RowsHaveOwners DEF vars, vault
<1> QED
  BY <1>3, <1>4, <1>5, <1>6, <1>7, <1>8, <1>l, <1>9, <1>10, <1>12, <1>13, <1>14 DEF Next, Serve

-----------------------------------------------------------------------------
(* The theorems.                                                           *)

\* The inductive invariant holds in every reachable state.
THEOREM AccountsStayInvariant == Spec => []AccountsInv
<1>1. AccountsInv /\ [Next]_vars => AccountsInv'
  BY AccountsTypeNext, GuardInvNext, SessionsInvNext, VaultInvNext, ErasedInvNext DEF AccountsInv
<1> QED
  BY <1>1, AccountsInvInit, PTL DEF Spec

\* Every variable of login, sessions and buyer data keeps its type.
THEOREM AccountsTypesHold == Spec => []AccountsTypeOK
<1>1. AccountsInv => AccountsTypeOK
  BY DEF AccountsInv
<1> QED
  BY <1>1, AccountsStayInvariant, PTL

\* However many logins run in parallel between peek and hit, wrong passwords exceed
\* the limit by less than one per request that is served at a time.
THEOREM LockoutHolds == Spec => []LockoutBoundsGuesses
<1>1. AccountsInv => LockoutBoundsGuesses
  <2> SUFFICES ASSUME AccountsInv, NEW u \in Users
               PROVE  guesses[u] <= FailureLimit - 1 + Cardinality(Procs)
    BY DEF LockoutBoundsGuesses
  <2>1. At("verify", u) \in SUBSET Procs
    BY DEF At
  <2>2. Cardinality(At("verify", u)) \in Nat /\ Cardinality(Procs) \in Nat
    BY <2>1, RequestsAssumption, FS_Subset, FS_CardinalityType
  <2>3. guesses[u] + Cardinality(At("verify", u)) <= FailureLimit - 1 + Cardinality(Procs)
    BY DEF AccountsInv, GuardInv
  <2>4. guesses[u] \in Nat /\ FailureLimit \in Nat
    BY GuardAssumption DEF AccountsInv, AccountsTypeOK
  <2> QED
    BY <2>2, <2>3, <2>4
<1> QED
  BY <1>1, AccountsStayInvariant, PTL

\* revoke_family and revoke_all_for_user end every session they set out to end, but for
\* a rotation committed meanwhile, and for what Postgres rolled back in a deadlock
\* while no other revocation was after it.
THEOREM RevocationsHold == Spec => []RevocationIsSound
<1>1. AccountsInv => RevocationIsSound
  BY DEF AccountsInv, SessionsInv, DoomedInv, RevocationIsSound, RevocationLands
<1> QED
  BY <1>1, AccountsStayInvariant, PTL

\* Every row of buyer data can be read with the new settings, and an erasure leaves
\* nothing behind that was not committed, or had not passed its check, while the
\* erasure was under way.
THEOREM PiiStaysSound == Spec => []PiiIsSound
<1>1. AccountsInv => RowsOpen
  <2> SUFFICES ASSUME AccountsInv, NEW u \in Registered, NEW p \in Tasks
               PROVE  Readable(p, u) \/ (ring[p] = "old" /\ info[u].kek = 2 /\ info[u].wrapped = 2)
    BY DEF RowsOpen
  <2>1. info[u] \in InfoRecords /\ ring[p] \in {"old", "new"} /\ VaultInv
    BY DEF AccountsInv, AccountsTypeOK, Registered
  <2>2. info[u].kek \in {1, 2} /\ info[u].kek = info[u].wrapped
    BY <2>1 DEF InfoRecords, VaultInv
  <2>3. ~retired => info[u].kek = 2
    BY <2>1, <2>2 DEF VaultInv, RowsAt
  <2> QED
    BY <2>1, <2>2, <2>3 DEF Readable, Keyring
<1>2. AccountsInv => PiiIsSound
  BY <1>1 DEF AccountsInv, ErasedInv, PiiIsSound, ErasedUnlessLate
<1> QED
  BY <1>2, AccountsStayInvariant, PTL

\* mark_token_used never starts a grace period again: a token that reuse detection
\* would catch stays caught until its row is deleted.
THEOREM GraceIsNotRepeated == Spec => GraceRunsOnce
<1> DEFINE Step == \A t \in Rows : tok[t].used = "stale" => tok'[t] = Deleted \/ tok'[t].used = "stale"
<1>1. ASSUME AccountsInv, [Next]_vars PROVE Step \/ UNCHANGED tok
  <2>i. AccountsTypeOK /\ SessionsInv /\ tok \in [TokenIds -> {NoToken, Deleted} \cup TokenRecords]
    BY <1>1 DEF AccountsInv, AccountsTypeOK
  <2>r. \A t \in Rows : t \in TokenIds /\ tok[t] # NoToken /\ tok[t] \in TokenRecords
    BY <2>i, RowsAreRecords DEF Rows
  <2>1. ASSUME NEW p \in Procs, Rotate(p) PROVE Step
    <3> DEFINE w == req[p].tok
    <3>1. /\ tok[NextId] = NoToken /\ tok'[w].used = IF req[p].unused THEN "fresh" ELSE tok[w].used
          /\ \A s \in TokenIds \ {w, NextId} : tok'[s] = tok[s]
      BY <2>1, <2>i, RotateWrites
    <3>2. req[p].unused => tok[w].used = "no"
      BY <2>1, <2>i DEF SessionsInv, RotateInv, Rotate
    <3> HIDE DEF w
    <3> QED
      BY <2>r, <3>1, <3>2
  <2>2. ASSUME NEW p \in Procs, LoginIssues(p) PROVE Step
    <3>1. tok[NextId] = NoToken /\ \A s \in TokenIds \ {NextId} : tok'[s] = tok[s]
      BY <2>2, <2>i, LoginWrites
    <3> QED
      BY <2>r, <3>1
  <2>3. ASSUME NEW p \in Procs, Revoke(p) PROVE Step
    <3> SUFFICES ASSUME NEW t \in Rows, tok[t].used = "stale" PROVE tok'[t].used = "stale"
      OBVIOUS
    <3>1. CASE tok'[t] = tok[t]
      BY <3>1
    <3>2. CASE tok'[t] = [tok[t] EXCEPT !.revoked = "yes"]
      BY <2>r, <3>2, RevokedChanges
    <3> QED
      BY <2>3, <2>r, <3>1, <3>2 DEF Revoke
  <2>4. ASSUME NEW p \in Procs, PurgeEnds(p) \/ EraseCommits(p) PROVE Step
    <3>1. \A t \in TokenIds : tok'[t] = tok[t] \/ tok'[t] = Deleted
      BY <2>4 DEF PurgeEnds, EraseCommits, Without
    <3> QED
      BY <2>r, <3>1
  <2>5. ASSUME NEW f \in TokenIds, GraceEnds(f) \/ FamilyExpires(f) \/ RevocationAges(f) PROVE Step
    <3> SUFFICES ASSUME NEW t \in Rows, tok[t].used = "stale" PROVE tok'[t].used = "stale"
      OBVIOUS
    <3>1. CASE tok'[t] = tok[t]
      BY <3>1
    <3>2. CASE tok'[t] = [tok[t] EXCEPT !.used = "stale"]
      BY <2>r, <3>2, UsedChanges
    <3>3. CASE tok'[t] = [tok[t] EXCEPT !.dead = TRUE]
      BY <2>r, <3>3, DeadChanges
    <3>4. CASE tok'[t] = [tok[t] EXCEPT !.revoked = "old"]
      BY <2>r, <3>4, RevokedChanges
    <3> QED
      BY <2>5, <2>i, <2>r, <3>1, <3>2, <3>3, <3>4, TimeChanges
  <2>6. ASSUME NEW p \in Procs, Request(p) PROVE UNCHANGED tok
    BY <2>6 DEF Request, LoginPeeks, LogoutAll, Register, Erase, Purge, Refresh, Logout,
                StartsRevoking, sessions
  <2>7. ASSUME NEW p \in Procs, Serve(p) PROVE Step \/ UNCHANGED tok
    BY <2>1, <2>2, <2>3, <2>4, <2>7
    DEF Serve, LoginVerifies, LoginFails, LoginClears, RegisterCommits, EraseDeletes, EraseShreds,
        EraseMarks, LocksRow, DeadlockVictim, sessions
  <2> HIDE DEF Step
  <2> QED
    BY <1>1, <2>5, <2>6, <2>7 DEF Next, TimePasses, Cron, Deploy, vars, sessions
<1> QED
  BY <1>1, AccountsStayInvariant, PTL DEF Spec, GraceRunsOnce

=============================================================================

--------------------------- MODULE UserAdminProofs ---------------------------
(***************************************************************************)
(* Proofs about UserAdmin for every finite set of users, every set of      *)
(* concurrent requests and every bound on token_version.                   *)
(***************************************************************************)
EXTENDS UserAdmin, FiniteSetTheorems, TLAPS

\* What cur and upd hold when a transaction has passed its guards.
LEMMA BumpType ==
  ASSUME TypeOK, NEW r \in Requests
  PROVE  /\ Bump(r) \in {0, 1}
         /\ cur[r].version \in Nat
         /\ Bump(r) = 0 => upd[r].role = cur[r].role /\ upd[r].active = cur[r].active
<1>1. cur[r] \in Rows  BY DEF TypeOK
<1> QED BY <1>1, UserAssumption DEF Rows, Bump, RoleOrActiveChanges

LEMMA BeginType == NewRow \in Rows /\ NoWish \in Wishes
  BY UserAssumption DEF NewRow, NoWish, Rows, Wishes, Roles

-----------------------------------------------------------------------------
(* Type correctness *)

LEMMA TypeInit == Init => TypeOK
<1> SUFFICES ASSUME Init PROVE TypeOK  OBVIOUS
<1>1. row \in [Users -> Rows]
  BY UserAssumption DEF Init, Rows, Roles
<1> QED
  BY <1>1, BeginType, UserAssumption DEF Init, TypeOK, RequestPcs, Ops

LEMMA TypeStep == TypeOK /\ [Next]_vars => TypeOK'
<1> SUFFICES ASSUME TypeOK, [Next]_vars PROVE TypeOK'  OBVIOUS
<1> USE UserAssumption DEF TypeOK, RequestPcs, Ops, requestVars
<1>1. ASSUME NEW u \in Users, Register(u) PROVE TypeOK'
  <2>1. row' \in [Users -> Rows]  BY <1>1 DEF Register, Rows
  <2> QED BY <1>1, <2>1 DEF Register
<1>2. ASSUME NEW u \in Users, Login(u) PROVE TypeOK'
  <2>1. ClaimsOf(u) \in Claims  BY DEF ClaimsOf, Claims, Rows
  <2> QED BY <1>2, <2>1 DEF Login
<1>3. ASSUME NEW t \in tokens, Expire(t) PROVE TypeOK'
  BY <1>3 DEF Expire
<1>4. ASSUME NEW r \in Requests, RequestStep(r) PROVE TypeOK'
  <2>1. ASSUME NEW t \in tokens, Authorize(r, t) PROVE TypeOK'
    <3>1. t.user \in Users  BY DEF Claims
    <3> QED BY <2>1, <3>1 DEF Authorize
  <2>2. ASSUME NEW u \in Users, NEW o \in Ops, NEW wish \in Wishes,
               LockTarget(r, o, u, wish)
        PROVE  TypeOK'
    BY <2>2 DEF LockTarget
  <2>3. ASSUME NEW u \in Users, ResetFinds(r, u) PROVE TypeOK'
    BY <2>3 DEF ResetFinds
  <2>4. CASE CheckGuards(r)  BY <2>4 DEF CheckGuards
  <2>5. ASSUME Finish(r), row' \in [Users -> Rows], UNCHANGED tokens
        PROVE  TypeOK'
    BY <2>5, BeginType DEF Finish
  <2>6. CASE CommitUpdate(r)
    <3>1. upd[r] \in Wishes /\ target[r] \in Users  BY <2>6 DEF CommitUpdate
    <3>2. cur[r].version + Bump(r) \in 0..MaxVersion
      BY <2>6, BumpType DEF CommitUpdate
    <3>3. row' \in [Users -> Rows]
      BY <2>6, <3>1, <3>2 DEF CommitUpdate, Rows, Wishes
    <3> QED BY <2>5, <2>6, <3>3 DEF CommitUpdate
  <2>7. CASE CommitDelete(r)
    <3>1. row' \in [Users -> Rows]  BY <2>7 DEF CommitDelete, Rows
    <3> QED BY <2>5, <2>7, <3>1 DEF CommitDelete
  <2>8. CASE ResetStores(r)
    <3>1. target[r] \in Users  BY <2>8 DEF ResetStores
    <3>2. ASSUME row' = [row EXCEPT ![target[r]].version = @ + 1],
                 row[target[r]].version < MaxVersion
          PROVE  row' \in [Users -> Rows]
      <4>1. row[target[r]].version + 1 \in 0..MaxVersion
        BY <3>1, <3>2 DEF Rows
      <4> QED BY <3>1, <3>2, <4>1 DEF Rows
    <3>3. row' \in [Users -> Rows]  BY <2>8, <3>2 DEF ResetStores
    <3> QED BY <2>5, <2>8, <3>3 DEF ResetStores
  <2>9. CASE Refuse(r)  BY <2>5, <2>9 DEF Refuse
  <2>10. "update" \in Ops /\ "delete" \in Ops  OBVIOUS
  <2> QED
    BY <1>4, <2>1, <2>2, <2>3, <2>4, <2>6, <2>7, <2>8, <2>9, <2>10, BeginType
    DEF RequestStep
<1>5. CASE UNCHANGED vars  BY <1>5 DEF vars
<1> QED BY <1>1, <1>2, <1>3, <1>4, <1>5 DEF Next

\* Every variable keeps its type: token_version stays within its bound, a request
\* past RoleGuard has a caller and one that has read its target names a user.
THEOREM AccountsTypeCorrect == Spec => []TypeOK
<1> QED BY TypeInit, TypeStep, PTL DEF Spec

-----------------------------------------------------------------------------
(* The inductive invariant *)

LEMMA TokenInvInit == Init => TokenInv
  BY DEF Init, TokenInv, LockedRowIsCurrent, VersionTellsClaims

\* What any step may do to the row of a user who holds a token: nothing, give it
\* a higher version, or delete it.
RowAdvances(u) ==
  \/ row'[u] = row[u]
  \/ row'[u].version > row[u].version /\ row'[u].state = row[u].state
  \/ row[u].state # "absent" /\ row'[u] = [row[u] EXCEPT !.state = "deleted"]

LEMMA RowStep ==
  ASSUME TypeOK, TokenInv, [Next]_vars, NEW u \in Users, row[u].state # "absent"
  PROVE  RowAdvances(u)
<1> USE DEF RowAdvances
<1>1. ASSUME NEW v \in Users, Register(v) PROVE RowAdvances(u)
  BY <1>1 DEF Register, TypeOK
<1>2. ASSUME NEW r \in Requests, RequestStep(r) PROVE RowAdvances(u)
  <2>1. CASE CommitUpdate(r)
    <3>1. CASE target[r] # u
      BY <2>1, <3>1 DEF CommitUpdate, TypeOK
    <3>2. CASE target[r] = u
      <4>1. row[u] = cur[r]
        BY <2>1, <3>2 DEF CommitUpdate, TokenInv, LockedRowIsCurrent
      <4>2. row'[u] = [state |-> row[u].state, role |-> upd[r].role,
                       active |-> upd[r].active,
                       version |-> row[u].version + Bump(r)]
        BY <2>1, <3>2, <4>1 DEF CommitUpdate, TypeOK
      <4>3. CASE Bump(r) = 0
        <5>1. row[u] \in Rows  BY DEF TypeOK
        <5> QED BY <4>1, <4>2, <4>3, <5>1, BumpType DEF Rows
      <4>4. CASE Bump(r) = 1
        BY <4>1, <4>2, <4>4, BumpType
      <4> QED BY <4>3, <4>4, BumpType
    <3> QED BY <3>1, <3>2
  <2>2. CASE CommitDelete(r)  BY <2>2 DEF CommitDelete, TypeOK
  <2>3. CASE ResetStores(r)
    <3>1. row[u].version \in Nat  BY UserAssumption DEF TypeOK, Rows
    <3> QED BY <2>3, <3>1 DEF ResetStores, TypeOK, Rows
  <2>4. CASE row' = row  BY <2>4
  <2> QED
    BY <1>2, <2>1, <2>2, <2>3, <2>4
    DEF RequestStep, Authorize, LockTarget, ResetFinds, CheckGuards, Refuse
<1>3. CASE row' = row  BY <1>3
<1> QED BY <1>1, <1>2, <1>3 DEF Next, Login, Expire, vars

LEMMA VersionTellsStep ==
  ASSUME TypeOK, TokenInv, [Next]_vars PROVE VersionTellsClaims'
<1> SUFFICES ASSUME NEW t \in tokens'
             PROVE  /\ row'[t.user].state # "absent"
                    /\ t.version <= row'[t.user].version
                    /\ t.version = row'[t.user].version => t = ClaimsOf(t.user)'
  BY DEF VersionTellsClaims
<1>1. CASE t \in tokens
  <2> DEFINE u == t.user
  <2>1. /\ row[u].state # "absent" /\ t.version <= row[u].version
        /\ t.version = row[u].version => t = ClaimsOf(u)
    BY <1>1 DEF TokenInv, VersionTellsClaims
  <2>2. u \in Users /\ t.version \in Nat
    BY <1>1, UserAssumption DEF TypeOK, Claims
  <2>3. RowAdvances(u)  BY <2>1, <2>2, RowStep
  <2>4. row[u].version \in Nat /\ row'[u].version \in Nat
    BY <2>2, TypeStep, UserAssumption DEF TypeOK, Rows
  <2>5. CASE row'[u] = row[u]  BY <2>1, <2>5 DEF ClaimsOf
  <2>6. CASE row'[u].version > row[u].version /\ row'[u].state = row[u].state
    BY <2>1, <2>2, <2>4, <2>6
  <2>7. CASE row'[u] = [row[u] EXCEPT !.state = "deleted"]
    <3>1. row[u] \in Rows  BY <2>2 DEF TypeOK
    <3>2. /\ row'[u].state = "deleted"
          /\ row'[u].role = row[u].role /\ row'[u].active = row[u].active
          /\ row'[u].version = row[u].version
      BY <2>7, <3>1 DEF Rows
    <3> QED BY <2>1, <3>2 DEF ClaimsOf
  <2> QED BY <2>3, <2>5, <2>6, <2>7 DEF RowAdvances
<1>2. CASE t \notin tokens
  <2>1. PICK u \in Users : Login(u) /\ t = ClaimsOf(u)
    BY <1>2 DEF Next, Register, Login, Expire, RequestStep, Authorize,
       LockTarget, ResetFinds, CheckGuards, CommitUpdate, CommitDelete,
       ResetStores, Refuse, vars
  <2>2. row' = row /\ t.user = u /\ Present(u)  BY <2>1 DEF Login, ClaimsOf
  <2>3. row[u].version \in Nat  BY UserAssumption DEF TypeOK, Rows
  <2> QED BY <2>1, <2>2, <2>3 DEF ClaimsOf, Present
<1> QED BY <1>1, <1>2

LEMMA LockedRowStep ==
  ASSUME TypeOK, TokenInv, [Next]_vars PROVE LockedRowIsCurrent'
<1> USE DEF TokenInv, LockedRowIsCurrent, Present, requestVars
<1>1. ASSUME NEW u \in Users, Register(u) PROVE LockedRowIsCurrent'
  BY <1>1 DEF Register, TypeOK
<1>2. ASSUME NEW r \in Requests, RequestStep(r) PROVE LockedRowIsCurrent'
  <2>1. ASSUME NEW t \in tokens, Authorize(r, t) PROVE LockedRowIsCurrent'
    BY <2>1 DEF Authorize, TypeOK
  <2>2. ASSUME NEW u \in Users, NEW o, NEW wish, LockTarget(r, o, u, wish)
        PROVE  LockedRowIsCurrent'
    BY <2>2 DEF LockTarget, Locked, TypeOK
  <2>3. ASSUME NEW u \in Users, ResetFinds(r, u) PROVE LockedRowIsCurrent'
    BY <2>3 DEF ResetFinds, TypeOK
  <2>4. CASE CheckGuards(r)   BY <2>4 DEF CheckGuards, TypeOK
  <2>5. CASE CommitUpdate(r)  BY <2>5 DEF CommitUpdate, Finish, TypeOK
  <2>6. CASE CommitDelete(r)  BY <2>6 DEF CommitDelete, Finish, TypeOK
  <2>7. CASE ResetStores(r)
    <3>1. target[r] \notin Locked  BY <2>7 DEF ResetStores
    <3>2. \A s \in Requests : pc[s] \in {"locked", "checked"} =>
            target[s] # target[r]
      BY <3>1 DEF Locked
    <3> QED BY <2>7, <3>2 DEF ResetStores, Finish, TypeOK
  <2>8. CASE Refuse(r)        BY <2>8 DEF Refuse, Finish, TypeOK
  <2> QED
    BY <1>2, <2>1, <2>2, <2>3, <2>4, <2>5, <2>6, <2>7, <2>8 DEF RequestStep
<1>3. CASE UNCHANGED <<row, requestVars>>  BY <1>3
<1> QED BY <1>1, <1>2, <1>3 DEF Next, Login, Expire, vars

\* Row locks keep what Update and Delete have read current until they commit, so
\* no two changes of a user share a token_version, and the version alone tells
\* whether a token is stale.
THEOREM TokenInvCorrect == Spec => []TokenInv
<1>1. TypeOK /\ TokenInv /\ [Next]_vars => TokenInv'
  BY VersionTellsStep, LockedRowStep DEF TokenInv
<1> QED BY <1>1, TypeInit, TypeStep, TokenInvInit, PTL DEF Spec

-----------------------------------------------------------------------------
(* Revocation *)

LEMMA RevocationStep ==
  ASSUME TypeOK, TokenInv, [Next]_vars,
         NEW t \in tokens, ~Valid(t)
  PROVE  ~Valid(t)'
<1> DEFINE u == t.user
<1>1. /\ row[u].state # "absent" /\ t.version <= row[u].version
  BY DEF TokenInv, VersionTellsClaims
<1>2. u \in Users /\ t.version \in Nat
  BY UserAssumption DEF TypeOK, Claims
<1>3. RowAdvances(u)  BY <1>1, <1>2, RowStep
<1>4. row[u].version \in Nat /\ row'[u].version \in Nat
  BY <1>2, TypeStep, UserAssumption DEF TypeOK, Rows
<1>5. CASE row'[u] = row[u]  BY <1>5 DEF Valid, Present
<1>6. CASE row'[u].version > row[u].version
  BY <1>1, <1>2, <1>4, <1>6 DEF Valid
<1>7. CASE row'[u] = [row[u] EXCEPT !.state = "deleted"]
  <2>1. row[u] \in Rows  BY <1>2 DEF TypeOK
  <2>2. row'[u].state = "deleted"  BY <1>7, <2>1 DEF Rows
  <2> QED BY <2>2 DEF Valid, Present
<1> QED BY <1>3, <1>5, <1>6, <1>7 DEF RowAdvances

\* Once AuthMiddleware would refuse a token it refuses it for good, under every
\* interleaving of logins and concurrent Update, Delete and ResetPassword calls.
THEOREM RevocationIsFinal == Spec => InvalidForGood
<1>1. TypeOK /\ TokenInv /\ [Next]_vars =>
        [\A t \in tokens : ~Valid(t) /\ t \in tokens' => ~Valid(t)']_vars
  BY RevocationStep
<1> QED
  BY <1>1, AccountsTypeCorrect, TokenInvCorrect, PTL DEF Spec, InvalidForGood

-----------------------------------------------------------------------------
(* The last admin *)

LEMMA AnotherAdmin ==
  ASSUME NEW S, NEW x, IsFiniteSet(S), ~(Cardinality(S) <= 1)
  PROVE  \E a \in S : a # x
<1> SUFFICES ASSUME \A a \in S : a = x PROVE FALSE  OBVIOUS
<1>1. S = {} \/ S = {x}  OBVIOUS
<1>2. Cardinality({}) = 0 /\ Cardinality({x}) = 1
  BY FS_EmptySet, FS_Singleton
<1> QED BY <1>1, <1>2

\* A transaction that is about to take an active admin away leaves another one.
LosersLeaveOne ==
  \A r \in Requests :
    pc[r] = "checked" /\ LosesAdmin(r) =>
      \E a \in ActiveAdmins : a # target[r]

LEMMA AdminStep ==
  ASSUME NEW r0, Requests = {r0},
         TypeOK, TokenInv, AnAdminRemains, LosersLeaveOne, [Next]_vars
  PROVE  AnAdminRemains' /\ LosersLeaveOne'
<1>1. ASSUME NEW u \in Users, Register(u)
      PROVE  AnAdminRemains' /\ LosersLeaveOne'
  <2>1. ActiveAdmins \subseteq ActiveAdmins'
    BY <1>1 DEF Register, ActiveAdmins, Present, TypeOK
  <2>2. UNCHANGED <<pc, target, upd, cur, op>>
    BY <1>1 DEF Register, requestVars
  <2> QED BY <2>1, <2>2 DEF AnAdminRemains, LosersLeaveOne, LosesAdmin
<1>2. ASSUME RequestStep(r0) PROVE AnAdminRemains' /\ LosersLeaveOne'
  <2>1. CASE CheckGuards(r0)
    <3>1. ActiveAdmins \subseteq Users  BY DEF ActiveAdmins
    <3>2. IsFiniteSet(ActiveAdmins)  BY <3>1, FS_Subset, UserAssumption
    <3>3. ASSUME LosesAdmin(r0) PROVE \E a \in ActiveAdmins : a # target[r0]
      BY <2>1, <3>2, <3>3, AnotherAdmin DEF CheckGuards, LastAdmin
    <3>4. ActiveAdmins' = ActiveAdmins
      BY <2>1 DEF CheckGuards, ActiveAdmins, Present
    <3>5. LosesAdmin(r0)' <=> LosesAdmin(r0)
      BY <2>1 DEF CheckGuards, LosesAdmin
    <3> QED
      BY <2>1, <3>3, <3>4, <3>5
      DEF CheckGuards, AnAdminRemains, LosersLeaveOne
  <2>2. CASE row' = row /\ pc'[r0] # "checked"
    BY <2>2 DEF AnAdminRemains, LosersLeaveOne, ActiveAdmins, Present
  <2>3. ASSUME Finish(r0) PROVE pc'[r0] # "checked"
    BY <2>3 DEF Finish, TypeOK
  <2>4. CASE CommitUpdate(r0) \/ CommitDelete(r0)
    <3>1. target[r0] \in Users /\ row[target[r0]] = cur[r0] /\ pc[r0] = "checked"
      BY <2>4 DEF CommitUpdate, CommitDelete, TypeOK, TokenInv,
         LockedRowIsCurrent
    <3>2. \A a \in Users : a # target[r0] => row'[a] = row[a]
      BY <2>4 DEF CommitUpdate, CommitDelete, TypeOK
    <3>3. CASE LosesAdmin(r0)
      <4>1. PICK a \in ActiveAdmins : a # target[r0]
        BY <3>1, <3>3 DEF LosersLeaveOne
      <4>2. a \in ActiveAdmins'  BY <3>2, <4>1 DEF ActiveAdmins, Present
      <4> QED
        BY <2>3, <2>4, <4>2
        DEF AnAdminRemains, LosersLeaveOne, CommitUpdate, CommitDelete
    <3>4. CASE ~LosesAdmin(r0)
      <4>1. ActiveAdmins \subseteq ActiveAdmins'
        <5> SUFFICES ASSUME NEW a \in ActiveAdmins PROVE a \in ActiveAdmins'
          OBVIOUS
        <5>1. CASE a # target[r0]  BY <3>2, <5>1 DEF ActiveAdmins, Present
        <5>2. CASE a = target[r0]
          <6>1. cur[r0].role = "admin" /\ cur[r0].active
            BY <3>1, <5>2 DEF ActiveAdmins
          <6>2. op[r0] # "delete" /\ upd[r0].role = "admin" /\ upd[r0].active
            BY <3>4, <6>1 DEF LosesAdmin
          <6>3. CommitUpdate(r0)  BY <2>4, <6>2 DEF CommitDelete
          <6>4. /\ row'[a].state = row[a].state
                /\ row'[a].role = upd[r0].role
                /\ row'[a].active = upd[r0].active
            BY <5>2, <6>3, <3>1 DEF CommitUpdate, TypeOK
          <6> QED BY <6>2, <6>4 DEF ActiveAdmins, Present
        <5> QED BY <5>1, <5>2
      <4> QED
        BY <2>3, <2>4, <4>1
        DEF AnAdminRemains, LosersLeaveOne, CommitUpdate, CommitDelete
    <3> QED BY <3>3, <3>4
  <2>5. CASE ResetStores(r0)
    <3>1. ActiveAdmins' = ActiveAdmins
      BY <2>5 DEF ResetStores, ActiveAdmins, Present, TypeOK, Rows
    <3> QED
      BY <2>3, <2>5, <3>1 DEF ResetStores, AnAdminRemains, LosersLeaveOne
  <2> QED
    BY <1>2, <2>1, <2>2, <2>3, <2>4, <2>5
    DEF RequestStep, Authorize, LockTarget, ResetFinds, Refuse, TypeOK
<1>3. CASE UNCHANGED <<row, requestVars>>
  BY <1>3 DEF requestVars, AnAdminRemains, LosersLeaveOne, LosesAdmin,
     ActiveAdmins, Present
<1> QED BY <1>1, <1>2, <1>3 DEF Next, Login, Expire, vars

\* While admins work one request at a time, the guards of Update and Delete do
\* keep an active admin, for any number of users and of earlier changes.
THEOREM OneAtATimeAnAdminRemains ==
  ASSUME NEW r0, Requests = {r0} PROVE Spec => []AnAdminRemains
<1>1. Init => AnAdminRemains /\ LosersLeaveOne
  <2> SUFFICES ASSUME Init PROVE AnAdminRemains /\ LosersLeaveOne  OBVIOUS
  <2>1. PICK a \in FirstAdmins : TRUE  BY UserAssumption
  <2>2. a \in ActiveAdmins
    BY <2>1, UserAssumption DEF Init, ActiveAdmins, Present
  <2> QED BY <2>2 DEF Init, AnAdminRemains, LosersLeaveOne
<1>2. TypeOK /\ TokenInv /\ AnAdminRemains /\ LosersLeaveOne /\ [Next]_vars
        => AnAdminRemains' /\ LosersLeaveOne'
  BY AdminStep
<1> QED BY <1>1, <1>2, AccountsTypeCorrect, TokenInvCorrect, PTL DEF Spec
=============================================================================

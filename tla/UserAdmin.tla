------------------------------ MODULE UserAdmin ------------------------------
(***************************************************************************)
(* Accounts, tokens and the admins' requests:                              *)
(* internal/storage/postgres/user_repo.go, AuthMiddleware and RoleGuard of *)
(* internal/httpapi/middleware.go, Login, Refresh and Register of          *)
(* internal/httpapi/handlers/auth.go and the handlers of users.go.         *)
(*                                                                         *)
(* A request is authorized once, by comparing its token with the user's    *)
(* row, and then runs statements of its own: the transactions of Update    *)
(* and Delete lock the target's row, count the active admins (a snapshot   *)
(* of what is committed) and commit, each at a moment of its own; what     *)
(* ResetPassword does is two statements without a transaction.  E-mail     *)
(* addresses and password hashes are left out: no decision of these        *)
(* requests but a 409 depends on them.                                     *)
(***************************************************************************)
EXTENDS Integers, FiniteSets

CONSTANTS
  Users,        \* the ids users.id may take in this behaviour
  FirstUsers,   \* the users that exist at the start
  FirstAdmins,  \* those of them provisioned as admins
  OtherRoles,   \* the roles that are not "admin"
  Requests,     \* the admin requests that may be in flight together
  NoUser,       \* what a finished request refers to
  MaxVersion    \* bound: how far token_version is counted

ASSUME UserAssumption ==
  /\ IsFiniteSet(Users) /\ NoUser \notin Users
  /\ FirstAdmins \subseteq FirstUsers /\ FirstUsers \subseteq Users
  /\ FirstAdmins # {}
  /\ "user" \in OtherRoles /\ "admin" \notin OtherRoles
  /\ MaxVersion \in Nat

VARIABLES
  row,     \* [Users -> Rows], the users table
  tokens,  \* SUBSET Claims, every token that was issued and has not expired
  pc,      \* [Requests -> RequestPcs]
  caller,  \* [Requests -> Users \cup {NoUser}], user_id of the gin context
  op,      \* [Requests -> Ops], the transaction
  target,  \* [Requests -> Users \cup {NoUser}], the :id parameter
  upd,     \* [Requests -> Wishes], storage.UserUpdate
  cur      \* [Requests -> Rows], the row as SELECT ... FOR UPDATE returned it

requestVars == <<pc, caller, op, target, upd, cur>>
vars == <<row, tokens, requestVars>>

Roles  == {"admin"} \cup OtherRoles
Ops    == {"update", "delete"}
Rows   == [state : {"absent", "present", "deleted"}, role : Roles,
           active : BOOLEAN, version : 0..MaxVersion]
Claims == [user : Users, role : Roles, active : BOOLEAN, version : 0..MaxVersion]
Wishes == [role : Roles, active : BOOLEAN]

\* authorized  past AuthMiddleware and RoleGuard
\* locked      Update or Delete holds the lock on the target's row
\* checked     its guards have passed, it is about to write and commit
\* resetting   ResetPassword has found the target
RequestPcs == {"idle", "authorized", "locked", "checked", "resetting"}

NewRow == [state |-> "absent", role |-> "user", active |-> TRUE, version |-> 0]
NoWish == [role |-> "user", active |-> TRUE]

Init ==
  /\ row = [u \in Users |->
       [state   |-> IF u \in FirstUsers THEN "present" ELSE "absent",
        role    |-> IF u \in FirstAdmins THEN "admin" ELSE "user",
        active  |-> TRUE,
        version |-> 0]]
  /\ tokens = {}
  /\ pc = [r \in Requests |-> "idle"]
  /\ caller = [r \in Requests |-> NoUser]
  /\ op = [r \in Requests |-> "update"]
  /\ target = [r \in Requests |-> NoUser]
  /\ upd = [r \in Requests |-> NoWish]
  /\ cur = [r \in Requests |-> NewRow]

Present(u)   == row[u].state = "present"
ActiveAdmins == {u \in Users :
                  Present(u) /\ row[u].role = "admin" /\ row[u].active}

-----------------------------------------------------------------------------
(* Accounts and tokens *)

Register(u) ==
  /\ row[u].state = "absent"
  /\ row' = [row EXCEPT ![u].state = "present"]
  /\ UNCHANGED <<tokens, requestVars>>

ClaimsOf(u) == [user |-> u, role |-> row[u].role, active |-> row[u].active,
                version |-> row[u].version]

\* The token carries what FindByEmail read.  Issuing it later, after the row
\* has changed, would issue the same claims.  Refresh issues the claims of a
\* token that is valid, hence the same ones again.
Login(u) ==
  /\ Present(u) /\ row[u].active
  /\ tokens' = tokens \cup {ClaimsOf(u)}
  /\ UNCHANGED <<row, requestVars>>

Expire(t) ==
  /\ tokens' = tokens \ {t}
  /\ UNCHANGED <<row, requestVars>>

\* AuthMiddleware's FindByID and tokenValid
Valid(t) ==
  /\ Present(t.user) /\ row[t.user].active
  /\ t.role = row[t.user].role
  /\ t.active = row[t.user].active
  /\ t.version = row[t.user].version

-----------------------------------------------------------------------------
(* One admin request *)

\* AuthMiddleware and RoleGuard("admin").  What the request asks for is chosen
\* with the statement that first reads it.
Authorize(r, t) ==
  /\ pc[r] = "idle"
  /\ Valid(t) /\ t.role = "admin"
  /\ pc' = [pc EXCEPT ![r] = "authorized"]
  /\ caller' = [caller EXCEPT ![r] = t.user]
  /\ UNCHANGED <<row, tokens, op, target, upd, cur>>

\* Mutant of Finish: the pooled context keeps the user_id of its last request.
FinishKeepsCaller(r) ==
  /\ pc' = [pc EXCEPT ![r] = "idle"]
  /\ op' = [op EXCEPT ![r] = "update"]
  /\ target' = [target EXCEPT ![r] = NoUser]
  /\ upd' = [upd EXCEPT ![r] = NoWish]
  /\ cur' = [cur EXCEPT ![r] = NewRow]
  /\ UNCHANGED caller

\* The response: what the request held, its row lock included, is gone.
Finish(r) ==
  /\ pc' = [pc EXCEPT ![r] = "idle"]
  /\ caller' = [caller EXCEPT ![r] = NoUser]
  /\ op' = [op EXCEPT ![r] = "update"]
  /\ target' = [target EXCEPT ![r] = NoUser]
  /\ upd' = [upd EXCEPT ![r] = NoWish]
  /\ cur' = [cur EXCEPT ![r] = NewRow]

Locked == {target[r] : r \in {s \in Requests : pc[s] \in {"locked", "checked"}}}

\* Mutant of LockTarget: SELECT without FOR UPDATE.
ReadTarget(r, o, u, wish) ==
  /\ pc[r] = "authorized"
  /\ Present(u)
  /\ pc' = [pc EXCEPT ![r] = "locked"]
  /\ op' = [op EXCEPT ![r] = o]
  /\ target' = [target EXCEPT ![r] = u]
  /\ upd' = [upd EXCEPT ![r] = wish]
  /\ cur' = [cur EXCEPT ![r] = row[u]]
  /\ UNCHANGED <<row, tokens, caller>>

\* SELECT ... FOR UPDATE waits for the transaction that holds the lock and
\* returns the row as that one has left it.
LockTarget(r, o, u, wish) ==
  /\ pc[r] = "authorized"
  /\ u \notin Locked
  /\ Present(u)
  /\ pc' = [pc EXCEPT ![r] = "locked"]
  /\ op' = [op EXCEPT ![r] = o]
  /\ target' = [target EXCEPT ![r] = u]
  /\ upd' = [upd EXCEPT ![r] = wish]
  /\ cur' = [cur EXCEPT ![r] = row[u]]
  /\ UNCHANGED <<row, tokens, caller>>

RoleOrActiveChanges(r) ==
  cur[r].role # upd[r].role \/ cur[r].active # upd[r].active

\* The caller may not change its own role or active flag, nor delete itself.
SelfForbidden(r) ==
  target[r] = caller[r] /\ (op[r] = "delete" \/ RoleOrActiveChanges(r))

\* The write would take an active admin away.
LosesAdmin(r) ==
  /\ cur[r].role = "admin" /\ cur[r].active
  /\ op[r] = "delete" \/ upd[r].role # "admin" \/ ~upd[r].active

LastAdmin(r) == LosesAdmin(r) /\ Cardinality(ActiveAdmins) <= 1

CheckGuards(r) ==
  /\ pc[r] = "locked"
  /\ ~SelfForbidden(r) /\ ~LastAdmin(r)
  /\ pc' = [pc EXCEPT ![r] = "checked"]
  /\ UNCHANGED <<row, tokens, caller, op, target, upd, cur>>

\* Mutant of Bump: a change of the active flag is not counted.
BumpOnRole(r) == IF cur[r].role # upd[r].role THEN 1 ELSE 0

Bump(r) == IF RoleOrActiveChanges(r) THEN 1 ELSE 0

\* The UPDATE of every column and the commit that makes it visible.
CommitUpdate(r) ==
  /\ pc[r] = "checked" /\ op[r] = "update"
  /\ cur[r].version + Bump(r) <= MaxVersion
  /\ row' = [row EXCEPT ![target[r]] =
       [state |-> @.state, role |-> upd[r].role, active |-> upd[r].active,
        version |-> cur[r].version + Bump(r)]]
  /\ Finish(r)
  /\ UNCHANGED tokens

CommitDelete(r) ==
  /\ pc[r] = "checked" /\ op[r] = "delete"
  /\ row' = [row EXCEPT ![target[r]].state = "deleted"]
  /\ Finish(r)
  /\ UNCHANGED tokens

ResetFinds(r, u) ==
  /\ pc[r] = "authorized"
  /\ Present(u)
  /\ pc' = [pc EXCEPT ![r] = "resetting"]
  /\ target' = [target EXCEPT ![r] = u]
  /\ UNCHANGED <<row, tokens, caller, op, upd, cur>>

\* The UPDATE waits for a lock on the row; if the row is gone by then it changes
\* nothing, and the request still answers with a password.
ResetStores(r) ==
  /\ pc[r] = "resetting"
  /\ target[r] \notin Locked
  /\ \/ /\ Present(target[r]) /\ row[target[r]].version < MaxVersion
        /\ row' = [row EXCEPT ![target[r]].version = @ + 1]
     \/ ~Present(target[r]) /\ UNCHANGED row
  /\ Finish(r)
  /\ UNCHANGED tokens

\* A guard refuses, the target does not exist, a statement fails or the client
\* goes away: the transaction is rolled back.
Refuse(r) ==
  /\ pc[r] # "idle"
  /\ Finish(r)
  /\ UNCHANGED <<row, tokens>>

-----------------------------------------------------------------------------
RequestStep(r) ==
  \/ \E t \in tokens : Authorize(r, t)
  \/ \E u \in Users :
       \/ \E wish \in Wishes : LockTarget(r, "update", u, wish)
       \/ LockTarget(r, "delete", u, NoWish)
       \/ ResetFinds(r, u)
  \/ CheckGuards(r) \/ CommitUpdate(r) \/ CommitDelete(r)
  \/ ResetStores(r) \/ Refuse(r)

Next ==
  \/ \E u \in Users : Register(u) \/ Login(u)
  \/ \E t \in tokens : Expire(t)
  \/ \E r \in Requests : RequestStep(r)

Spec == Init /\ [][Next]_vars

-----------------------------------------------------------------------------
(* What account administration promises *)

\* The values the variables take; only a request in flight has a caller.
TypeOK ==
  /\ row \in [Users -> Rows]
  /\ tokens \in SUBSET Claims
  /\ pc \in [Requests -> RequestPcs]
  /\ caller \in [Requests -> Users \cup {NoUser}]
  /\ op \in [Requests -> Ops]
  /\ target \in [Requests -> Users \cup {NoUser}]
  /\ upd \in [Requests -> Wishes]
  /\ cur \in [Requests -> Rows]
  /\ \A r \in Requests :
       /\ pc[r] # "idle" <=> caller[r] \in Users
       /\ pc[r] \notin {"idle", "authorized"} => target[r] \in Users

\* A row that is locked is as it was read, and no two transactions lock it.
LockedRowIsCurrent ==
  \A r \in Requests :
    pc[r] \in {"locked", "checked"} =>
      /\ row[target[r]] = cur[r] /\ Present(target[r])
      /\ \A s \in Requests :
           s # r /\ pc[s] \in {"locked", "checked"} => target[s] # target[r]

\* A token never runs ahead of its row, and one that carries the row's version
\* carries what the row says: the version alone tells whether a token is stale,
\* also while the row is deactivated.
VersionTellsClaims ==
  \A t \in tokens :
    /\ row[t.user].state # "absent" /\ t.version <= row[t.user].version
    /\ t.version = row[t.user].version => t = ClaimsOf(t.user)

TokenInv == LockedRowIsCurrent /\ VersionTellsClaims

\* A token that a role change, a deactivation, a password reset or a deletion
\* has invalidated is never accepted again, whatever concurrent admins change,
\* change back, or commit on top of each other.
InvalidForGood ==
  [][\A t \in tokens : ~Valid(t) /\ t \in tokens' => ~Valid(t)']_vars

\* docs/superpowers/specs/2026-07-15-user-management-and-admin-rbac-design.md:343,
\* on locking the target: "This defeats the concurrent-demote race (two admins
\* cannot both succeed at removing the other's admin privilege)."
AnAdminRemains == ActiveAdmins # {}
=============================================================================

------------------------------ MODULE Accounts ------------------------------
(***************************************************************************)
(* Who may use the system: accounts with roles, roles with permissions,    *)
(* vendor accounts, and the access tokens in use.  A token is never stored *)
(* by the server: it carries the version its account had, and a change of  *)
(* the account's security context counts the version up.                   *)
(*                                                                         *)
(* One request, from its authentication to its commit, is one step.        *)
(***************************************************************************)
EXTENDS Integers, FiniteSets

CONSTANTS
  Users, Admin,          \* accounts; the one of the configuration
  Roles, SystemRoles, AdminRole,
  Permissions,
  Administer,            \* stands for every permission on users and roles
  Partners,              \* vendors
  Passwords,
  MaxVersion,            \* bounds of the model: of each account,
  MaxTokens              \* and of the tokens in use

ASSUME AccountAssumption ==
  /\ Admin \in Users
  /\ AdminRole \in SystemRoles /\ SystemRoles \subseteq Roles
  /\ Administer \in Permissions
  /\ Passwords # {}
  /\ MaxVersion \in [Users -> Nat] /\ MaxTokens \in Nat

VARIABLES
  users,     \* [known, active, roles, password, access, version]
  roles,     \* [known, active, permissions]
  tokens     \* tokens that have not expired: [user, version]

accountVars == <<users, roles, tokens>>

NoAccess == [v \in Partners |-> "NONE"]   \* rows of vendor_user_access
Tokens == [user : Users, version : Nat \ {0}]
------------------------------------------------------------------------------
\* What an account may do by its active roles.
PermissionsOf(u) ==
  UNION {roles[r].permissions : r \in {r \in users[u].roles : roles[r].active}}

\* Mutant: the account alone decides.
AcceptsActive(t) == users[t.user].active

\* An authenticated request: the account is active and of the token's version.
Accepts(t) == users[t.user].active /\ users[t.user].version = t.version

MayAdminister(u) == \E t \in tokens : t.user = u /\ Accepts(t) /\ Administer \in PermissionsOf(u)

\* The account of the configuration and its role, with every permission.
AccountInit ==
  /\ users = [u \in Users |->
       [known |-> u = Admin, active |-> u = Admin, roles |-> IF u = Admin THEN {AdminRole} ELSE {},
        password |-> CHOOSE p \in Passwords : TRUE, access |-> NoAccess, version |-> 1]]
  /\ roles = [r \in Roles |->
       [known |-> r \in SystemRoles, active |-> r \in SystemRoles,
        permissions |-> IF r = AdminRole THEN Permissions ELSE {}]]
  /\ tokens = {}

\* revoke_user_sessions, revoke_role_user_sessions: all tokens of these accounts.
Revoked(U, accounts) ==
  [u \in Users |-> IF u \in U THEN [accounts[u] EXCEPT !.version = @ + 1] ELSE accounts[u]]

Revocable(U) == \A u \in U : users[u].version < MaxVersion[u]

Assigned(r) == {u \in Users : r \in users[u].roles}

GivableRoles == {R \in SUBSET {r \in Roles : roles[r].known /\ roles[r].active} : R # {}}

\* What becomes of the vendor access: none; one vendor's, switched on or off,
\* and all others off.
AccessAfter(access) ==
  {[v \in Partners |-> IF access[v] = "NONE" THEN "NONE" ELSE "OFF"]} \cup
  {[v \in Partners |-> IF v = chosen THEN switch ELSE IF access[v] = "NONE" THEN "NONE" ELSE "OFF"] :
     chosen \in Partners, switch \in {"ON", "OFF"}}
------------------------------------------------------------------------------
Login(u) ==
  /\ users[u].active
  /\ Cardinality(tokens) < MaxTokens
  /\ tokens' = tokens \cup {[user |-> u, version |-> users[u].version]}
  /\ UNCHANGED <<users, roles>>

TokenExpires(t) == tokens' = tokens \ {t} /\ UNCHANGED <<users, roles>>

\* The new token replaces the one the request came with.
ChangePassword(t, password) ==
  /\ Accepts(t)
  /\ password # users[t.user].password
  /\ Revocable({t.user})
  /\ users' = Revoked({t.user}, [users EXCEPT ![t.user].password = password])
  /\ tokens' = tokens \cup {[user |-> t.user, version |-> users'[t.user].version]}
  /\ UNCHANGED roles

CreateUser(by, u, active, R, access) ==
  /\ MayAdminister(by)
  /\ ~users[u].known
  /\ users' = [users EXCEPT ![u].known = TRUE, ![u].active = active, ![u].roles = R, ![u].access = access]
  /\ UNCHANGED <<roles, tokens>>

\* Mutant: activation does not count as a change.
UpdateUserRoles(by, u, active, R, access) ==
  LET changed == R # users[u].roles \/ access # users[u].access
  IN  /\ MayAdminister(by)
      /\ users[u].known
      /\ u = by => active
      /\ changed => Revocable({u})
      /\ users' = Revoked(IF changed THEN {u} ELSE {},
                          [users EXCEPT ![u].active = active, ![u].roles = R, ![u].access = access])
      /\ UNCHANGED <<roles, tokens>>

\* What the payload leaves out keeps its value.
UpdateUser(by, u, active, R, access) ==
  LET changed == active # users[u].active \/ R # users[u].roles \/ access # users[u].access
  IN  /\ MayAdminister(by)
      /\ users[u].known
      /\ u = by => active
      /\ changed => Revocable({u})
      /\ users' = Revoked(IF changed THEN {u} ELSE {},
                          [users EXCEPT ![u].active = active, ![u].roles = R, ![u].access = access])
      /\ UNCHANGED <<roles, tokens>>

ResetPassword(by, u, password) ==
  /\ MayAdminister(by)
  /\ users[u].known
  /\ Revocable({u})
  /\ users' = Revoked({u}, [users EXCEPT ![u].password = password])
  /\ UNCHANGED <<roles, tokens>>

DeactivateUser(by, u) ==
  /\ MayAdminister(by)
  /\ users[u].known
  /\ u # by
  /\ users[u].active => Revocable({u})
  /\ users' = Revoked({u} \cap {v \in Users : users[v].active}, [users EXCEPT ![u].active = FALSE])
  /\ UNCHANGED <<roles, tokens>>

CreateRole(by, r, active) ==
  /\ MayAdminister(by)
  /\ ~roles[r].known
  /\ roles' = [roles EXCEPT ![r].known = TRUE, ![r].active = active]
  /\ UNCHANGED <<users, tokens>>

\* Mutant: a role that is switched off revokes nothing.
UpdateRoleQuietly(by, r, active) ==
  /\ MayAdminister(by)
  /\ roles[r].known
  /\ r \in SystemRoles => active
  /\ roles' = [roles EXCEPT ![r].active = active]
  /\ UNCHANGED <<users, tokens>>

\* Also the deletion of a role, which only switches it off.
UpdateRole(by, r, active) ==
  LET affected == IF roles[r].active # active THEN Assigned(r) ELSE {}
  IN  /\ MayAdminister(by)
      /\ roles[r].known
      /\ r \in SystemRoles => active
      /\ Revocable(affected)
      /\ roles' = [roles EXCEPT ![r].active = active]
      /\ users' = Revoked(affected, users)
      /\ UNCHANGED tokens

UpdateRolePermissions(by, r, permissions) ==
  LET affected == IF roles[r].permissions # permissions THEN Assigned(r) ELSE {}
  IN  /\ MayAdminister(by)
      /\ roles[r].known
      /\ r \notin SystemRoles
      /\ Revocable(affected)
      /\ roles' = [roles EXCEPT ![r].permissions = permissions]
      /\ users' = Revoked(affected, users)
      /\ UNCHANGED tokens

\* Every start of the server gives the configured account its role back.
Restart ==
  /\ users' = [users EXCEPT ![Admin].roles = @ \cup {AdminRole}]
  /\ UNCHANGED <<roles, tokens>>

AccountNext ==
  \/ \E u \in Users : Login(u)
  \/ \E t \in tokens : TokenExpires(t) \/ \E p \in Passwords : ChangePassword(t, p)
  \/ \E by, u \in Users :
       \/ \E active \in BOOLEAN, R \in GivableRoles, a \in AccessAfter(NoAccess) : CreateUser(by, u, active, R, a)
       \/ \E active \in BOOLEAN, R \in GivableRoles \cup {users[u].roles},
             a \in AccessAfter(users[u].access) \cup {users[u].access} : UpdateUser(by, u, active, R, a)
       \/ \E p \in Passwords : ResetPassword(by, u, p)
       \/ DeactivateUser(by, u)
  \/ \E by \in Users, r \in Roles :
       \/ \E active \in BOOLEAN : CreateRole(by, r, active) \/ UpdateRole(by, r, active)
       \/ \E permissions \in SUBSET Permissions : UpdateRolePermissions(by, r, permissions)
  \/ Restart

AccountSpec == AccountInit /\ [][AccountNext]_accountVars
------------------------------------------------------------------------------
(* Properties.                                                             *)

AccountTypeOK ==
  /\ users \in [Users -> [known : BOOLEAN, active : BOOLEAN, roles : SUBSET Roles, password : Passwords,
                          access : [Partners -> {"NONE", "OFF", "ON"}], version : Nat \ {0}]]
  /\ roles \in [Roles -> [known : BOOLEAN, active : BOOLEAN, permissions : SUBSET Permissions]]
  /\ tokens \subseteq Tokens

\* What an account is allowed, and the secret that proves it.
Context(u) ==
  [password |-> users[u].password, permissions |-> PermissionsOf(u),
   vendors |-> {v \in Partners : users[u].access[v] = "ON"}]

\* Nobody goes on under rights that have changed: a token that is accepted
\* before and after a step has the same password, vendor and permissions behind
\* it, by whatever the step changed them (the account, one of its roles, or a
\* role's permissions); only a restart may give the configured account more.
SessionsRevoked ==
  [][\A t \in tokens :
       Accepts(t) /\ Accepts(t)' =>
         \/ Context(t.user)' = Context(t.user)
         \/ t.user = Admin /\ Context(Admin)' = [Context(Admin) EXCEPT !.permissions = Permissions]]_accountVars

\* A token once refused is refused for good, though its account is activated,
\* its role switched on or its old rights restored.
RevokedForever == [][\A t \in tokens : ~Accepts(t) => ~Accepts(t)']_accountVars

\* Only what was issued is accepted: no token is of a version to come.
VersionsIssued == \A t \in tokens : t.version <= users[t.user].version /\ users[t.user].known
=============================================================================
